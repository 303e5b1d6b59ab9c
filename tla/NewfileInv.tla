------------------------------ MODULE NewfileInv ------------------------------
(***************************************************************************)
(* The inductive invariant of Newfile: what holds at each step of the      *)
(* program, for the operand in hand and for the others of its batch.       *)
(***************************************************************************)
EXTENDS Newfile

Live == sig # "caught"

BuildPc == {"build", "probe", "probed", "open", "private", "templink", "fill",
            "chown", "chmod"}
CommitPc  == {"commit", "over", "overfailed"}
ReplacePc == {"replace", "number", "numbered", "note", "simple", "alias",
              "overbackup", "backed", "rename"}
NamePc == CommitPc \cup ReplacePc
          \cup {"name", "commitclear", "renamed", "exchanged", "named"}
RemovePc == {"lstat", "unlink"}
CallPc == BuildPc \cup NamePc \cup RemovePc
          \cup {"close", "tidy", "tidied", "drop", "dropped", "fail", "failed", "made"}
HeadPc == {"batch", "flush", "closing", "naming", "settle", "tidying", "sync",
           "release", "report", "exit"}

LoopOf == [flush |-> "build", closing |-> "flush", naming |-> "close", settle |-> "name",
           tidying |-> "settle", sync |-> "tidy", release |-> "drop", report |-> "drop",
           exit |-> "drop"]

(* The frames of the calls in progress.                                    *)
FrMade ==
    \/ /\ fr.what = "plain" /\ fr.flag /\ fr.slot = Slot(Cur) /\ fr.then = "next"
       /\ ctl.loop = "build" /\ IsPlain
    \/ /\ fr.what = "probe" /\ fr.flag /\ fr.slot = Slot(Cur) /\ fr.then = "probed"
       /\ ctl.loop = "build"
    \/ /\ fr.what = "temp" /\ fr.flag /\ fr.slot = Slot(Cur) /\ fr.then = Finish
       /\ ctl.loop = "build"
    \/ /\ fr.what = "link" /\ ~fr.flag /\ fr.slot = Slot(Cur)
       /\ \/ ctl.loop = "build" /\ fr.then = Finish
          \/ ctl.loop = "name" /\ fr.then = "replace" /\ spec.force
    \/ /\ fr.what = "alias" /\ ~fr.flag /\ fr.slot = BackupSlot /\ fr.then = "overbackup"
       /\ ctl.loop = "name" /\ spec.force
    \/ /\ fr.what = "backup" /\ ~fr.flag /\ fr.slot = BackupSlot
       /\ fr.then \in {"note", "backed"} /\ ctl.loop = "name" /\ spec.force
    \/ /\ fr.what = "over" /\ fr.flag /\ fr.slot = 0 /\ fr.then = "over"
       /\ ctl.loop = "name" /\ ~spec.force

FrRemove ==
    /\ fr.what = "remove"
    /\ \/ fr.then = "open"       /\ fr.slot = Slot(Cur)  /\ ctl.loop = "build" 
       \/ fr.then = "fail"       /\ fr.slot = Slot(Cur)  /\ ctl.loop = "build"
       \/ fr.then = "fail"       /\ fr.slot = BackupSlot /\ ctl.loop = "name" /\ spec.force
       \/ fr.then = "backed"     /\ fr.slot = BackupSlot /\ ctl.loop = "name" /\ spec.force
       \/ fr.then = "overfailed" /\ fr.slot = 0          /\ ctl.loop = "name" /\ ~spec.force
       \/ fr.then = "failed"     /\ fr.slot = Slot(Cur)  /\ ctl.loop # "drop"
       \/ fr.then = "tidied"     /\ fr.slot = Slot(Cur)  /\ ctl.loop = "tidy"
       \/ fr.then = "dropped"    /\ fr.slot = Slot(Cur)  /\ ctl.loop = "drop"

Holding == \/ ctl.pc \in {"made", "over", "overfailed", "renamed"}
           \/ ctl.pc \in RemovePc /\ fr.then = "overfailed"

CtlType == [pc : CallPc \cup HeadPc \cup {"handler", "killed"}, loop : DOMAIN Entry,
            todo : SUBSET Ops, cur : Ops, first : Ops]

(* Which loop each step belongs to, and what is left of the loop.          *)
CtlInv ==
    /\ ctl \in CtlType
    /\ ctl.todo \subseteq Batch
    /\ Live /\ ctl.pc \in CallPc => Cur \in Batch /\ \A m \in ctl.todo : Cur < m
    /\ ctl.pc \in HeadPc => ctl.todo = {}
    /\ ctl.pc \in HeadPc \ {"batch"} => ctl.loop = LoopOf[ctl.pc]
    /\ ctl.pc \in BuildPc => ctl.loop = "build"
    /\ ctl.pc \in NamePc => ctl.loop = "name"
    /\ ctl.pc = "close" => ctl.loop = "close"
    /\ ctl.pc \in {"tidy", "tidied"} => ctl.loop = "tidy"
    /\ ctl.pc \in {"drop", "dropped"} => ctl.loop = "drop"
    /\ ctl.pc \in {"fail", "failed"} => ctl.loop # "drop"
    /\ ctl.pc \in CommitPc \cup {"commitclear"} => ~spec.force
    /\ ctl.pc \in ReplacePc \cup {"exchanged"} => spec.force

MemFields == {"spareHeld", "queued", "dirfailed", "nfailed", "probed", "listed", "best",
              "old", "num", "allok"}

(* Signals are held around each change of a name, and from the first       *)
(* exchange of a batch to the end of it.                                   *)
HeldInv ==
    /\ DOMAIN mem = MemFields
    /\ mem.spareHeld \in BOOLEAN
    /\ held = (IF Holding THEN 1 ELSE 0) + (IF mem.spareHeld THEN 1 ELSE 0)
    /\ mem.spareHeld => /\ ctl.loop \in {"name", "settle", "tidy", "drop"}
                        /\ ctl.pc \notin {"report", "exit", "batch"}
    /\ ctl.pc = "exchanged" => mem.spareHeld
    /\ sig \in {"none", "pending", "caught"}
    /\ ~Live => /\ ctl.pc \in {"handler", "killed"} \cup RemovePc
                /\ ~mem.spareHeld
    /\ ctl.pc \in {"handler", "killed"} => ~Live

(* The frame of the call in progress.                                      *)
CallFrame ==
    /\ ctl.pc = "made" => FrMade
    /\ Live /\ ctl.pc \in RemovePc => FrRemove
    /\ ctl.pc = "over" => fr.what = "over" /\ fr.slot = 0 /\ fr.flag
    /\ ctl.pc = "probed" => fr.slot = Slot(Cur)
    /\ ctl.pc = "overbackup" => fr.slot = BackupSlot
    /\ ~Live => fr.slot \in 0..BackupSlot
    /\ ~Live /\ ctl.pc \in RemovePc =>
         fr.what = "remove" /\ fr.slot \in Slots /\ ~fr.flag /\ fr.then = "handler"

FlowInv == kern \in Kernels /\ spec \in Specs /\ CtlInv /\ HeldInv /\ CallFrame

-----------------------------------------------------------------------------
(* Types of the variables the control does not decide.                     *)
OpType == [way : {"plain", "unnamed", "temp"}, tmp : Temps \cup {None},
           backup : Names \cup {None}, spare : Temps \cup {None},
           fail : {"no", "build", "flush", "close", "name", "settle", "tidy"},
           fd : BOOLEAN, leftover : BOOLEAN]

FileType == [content : BOOLEAN, owned : BOOLEAN, perm : {"0600", "asked"},
             special : BOOLEAN, flushed : BOOLEAN]

SlotType == [path : Names \cup {None}, ino : Inodes \cup {None}]

TypesInv ==
    /\ dir \in [Names -> Inodes \cup {None}]
    /\ file \in [Ops -> FileType]
    /\ op \in [Ops -> OpType]
    /\ pending \in [Slots -> SlotType]

-----------------------------------------------------------------------------
(* What becomes of operand i.  Slot s guards the name n of the inode x:    *)
Guards(s, n, x) == pending[s] = [path |-> n, ino |-> x]

Raw(i) == op[i].fail = "no" /\ op[i].spare = None

Private(i) == file[i].perm = "0600" /\ ~file[i].special

Unfilled(i) == ~file[i].content /\ ~file[i].owned

Complete(i) == Finished(i) /\ file[i].flushed

(* Its file has no name, a temporary one, or was created in its place.     *)
Nameless(i) == Raw(i) /\ op[i].tmp = None /\ ~Armed(Slot(i))

Temporary(i) == /\ Raw(i) /\ op[i].tmp \in Temps
                /\ dir[op[i].tmp] = New(i)
                /\ Guards(Slot(i), op[i].tmp, New(i))

InPlace(i) == /\ Raw(i) /\ op[i].tmp = None /\ op[i].way = "plain" /\ IsPlain
              /\ Guards(Slot(i), Operand[i], New(i))

(* The old file is at the temporary name, or nothing is left to remove.    *)
Spared(i) == /\ op[i].spare \in Temps /\ op[i].tmp = None /\ spec.force
             /\ pending[Slot(i)].path = op[i].spare

Cleared(i) == op[i].spare = None /\ op[i].tmp = None /\ ~Armed(Slot(i))

(* The stages of an operand between calls.                                 *)
Pristine(i) == op[i] = NewOp /\ file[i] = NewFile

Built(i) == /\ Finished(i)
            /\ \/ op[i].way = "plain" /\ InPlace(i)
               \/ op[i].way = "unnamed" /\ op[i].fd /\ Nameless(i) /\ ~IsPlain
               \/ op[i].way = "temp" /\ op[i].fd /\ Temporary(i) /\ ~IsPlain

ToName(i) == Built(i) /\ file[i].flushed /\ (op[i].way = "plain" => ~op[i].fd)

Named(i) == /\ op[i].fail = "no" /\ Complete(i)
            /\ op[i].fd = (op[i].way # "plain")
            /\ \/ Cleared(i)
               \/ Temporary(i) /\ op[i].way = "temp" /\ ~spec.force
               \/ Spared(i) /\ op[i].way # "plain"

Settled(i) == op[i].fail = "no" /\ Complete(i) /\ ~op[i].fd /\ (Cleared(i) \/ Spared(i))

Failed(i) == op[i].fail # "no" /\ ~op[i].fd /\ (Cleared(i) \/ Spared(i))

Past(i) == Failed(i) \/ Settled(i)

(* An operand that loop l has still to visit, and one it need not visit.   *)
Todo(l, i) ==
    CASE l = "build"  -> Pristine(i) /\ ~Armed(Slot(i))
      [] l = "flush"  -> Built(i) /\ op[i].fd
      [] l = "close"  -> Built(i) /\ op[i].fd /\ file[i].flushed /\ op[i].way = "plain"
      [] l = "name"   -> ToName(i)
      [] l = "settle" -> Named(i)
      [] l = "tidy"   -> Named(i) /\ op[i].fd
      [] OTHER        -> Past(i) /\ Spared(i)

Done(l, i) ==
    CASE l = "build"  -> Failed(i) \/ (Built(i) /\ op[i].fd)
      [] l = "flush"  -> Failed(i) \/ (Built(i) /\ op[i].fd /\ file[i].flushed)
      [] l = "close"  -> Failed(i) \/ ToName(i)
      [] l = "name"   -> Failed(i) \/ Named(i)
      [] l = "settle" -> Failed(i) \/ Named(i)
      [] l = "tidy"   -> Past(i)
      [] OTHER        -> Past(i) /\ Cleared(i)

Rest(i) == IF i \in ctl.todo THEN Todo(ctl.loop, i) ELSE Done(ctl.loop, i)

(* The operands that are not in a call, and the slots nobody uses.         *)
RestInv ==
    /\ \A i \in Ops : i > ctl.first + BatchSize - 1 => Pristine(i)
    /\ ctl.pc = "batch" => \A i \in Batch : Pristine(i)
    /\ Live => /\ ctl.pc \in HeadPc \ {"batch"} => \A i \in Batch : Rest(i)
               /\ ctl.pc \in CallPc => \A i \in Batch \ {Cur} : Rest(i)
               /\ ctl.pc \in {"batch", "exit"} => \A s \in Slots : ~Armed(s)
               /\ \A s \in 1..BatchSize : s + ctl.first - 1 \notin Batch => ~Armed(s)

-----------------------------------------------------------------------------
(* The operand in hand, i, from step to step.                              *)
Blank(i) == /\ ~IsPlain /\ Raw(i) /\ op[i].way = "temp" /\ op[i].tmp = None /\ ~op[i].fd
            /\ Private(i) /\ Unfilled(i)

Unnamed(i) == ~IsPlain /\ op[i].way = "unnamed" /\ op[i].fd /\ Nameless(i)

Building(i) == /\ ~IsPlain /\ op[i].fd
               /\ \/ op[i].way = "unnamed" /\ Nameless(i)
                  \/ op[i].way = "temp" /\ Temporary(i) /\ Private(i)

Ready(i) == ~IsPlain /\ op[i].way # "plain" /\ op[i].fd /\ Temporary(i) /\ Complete(i)

Moved(i) == /\ Raw(i) /\ op[i].way # "plain" /\ op[i].fd /\ op[i].tmp \in Temps
            /\ Guards(Slot(i), op[i].tmp, New(i)) /\ Complete(i)

Failing(i) == op[i].fail = "no" /\ (Temporary(i) \/ InPlace(i) \/ Spared(i) \/ Cleared(i))

Bared == ~Armed(BackupSlot)

(* The alias of the old file is nobody's temporary name.                   *)
Apart(n) == \A j \in Batch : op[j].tmp # n

(* A name has just been made.                                              *)
MadeInv(i) ==
    /\ Bared
    /\ \/ /\ fr.what = "plain" /\ fr.path = Path /\ fr.ino = New(i)
          /\ ~Armed(Slot(i)) /\ op[i] = NewOp /\ Finished(i)
       \/ /\ fr.what = "probe" /\ fr.path \in Temps /\ fr.ino = Probe(i)
          /\ dir[fr.path] = Probe(i) /\ ~Armed(Slot(i)) /\ Blank(i)
       \/ /\ fr.what = "temp" /\ fr.path \in Temps /\ fr.ino = New(i)
          /\ dir[fr.path] = New(i) /\ ~Armed(Slot(i)) /\ Blank(i)
       \/ /\ fr.what = "link" /\ fr.path \in Temps /\ fr.ino = New(i)
          /\ dir[fr.path] = New(i) /\ Unnamed(i)
          /\ ctl.loop = "build" => Private(i) /\ Unfilled(i)
          /\ ctl.loop = "name" => Complete(i)
       \/ /\ fr.what = "alias" /\ fr.path \in Temps /\ Apart(fr.path)
          /\ fr.ino = mem.old /\ mem.old \in Inodes /\ Ready(i)
       \/ /\ fr.what = "backup" /\ fr.path \in Backups(Path)
          /\ fr.ino = mem.old /\ mem.old \in Inodes /\ Ready(i)
       \/ /\ fr.what = "over" /\ fr.path = Path /\ fr.ino = Hold(i)
          /\ Ready(i) /\ op[i].way = "temp"

(* remove_ours() is at work.                                               *)
RemoveInv(i) ==
    /\ fr.slot # BackupSlot => Bared
    /\ fr.slot = BackupSlot => fr.ino = mem.old /\ mem.old \in Inodes /\ Apart(fr.path)
    /\ \/ fr.then = "open" /\ Blank(i) /\ fr.ino = Probe(i) /\ fr.path \in Temps
       \/ /\ fr.then = "fail" /\ fr.slot = Slot(i)
          /\ Blank(i) /\ fr.ino = Probe(i) /\ fr.path \in Temps
       \/ fr.then = "fail" /\ fr.slot = BackupSlot /\ Ready(i) /\ fr.path \notin Targets
       \/ fr.then = "backed" /\ Ready(i) /\ fr.path \in Temps
       \/ /\ fr.then = "overfailed" /\ fr.path = Path /\ fr.ino = Hold(i)
          /\ Ready(i) /\ op[i].way = "temp"
       \/ /\ fr.then = "failed" /\ op[i].fail # "no" /\ ~op[i].fd /\ op[i].spare = None
          /\ fr.ino = New(i)
          /\ fr.path = op[i].tmp \/ (fr.path = Path /\ ~spec.force)
       \/ /\ fr.then = "tidied" /\ Raw(i) /\ ~op[i].fd /\ Complete(i) /\ ~spec.force
          /\ fr.path = op[i].tmp /\ fr.path \in Temps /\ fr.ino = New(i)
       \/ fr.then = "dropped" /\ Past(i) /\ Spared(i)

(* Where PENDING_BACKUP may be armed.                                      *)
BackupPc == {"note", "backed", "rename", "renamed", "exchanged"}

CallInv(i) ==
    /\ ctl.pc = "build" => Pristine(i) /\ ~Armed(Slot(i))
    /\ ctl.pc \in {"probe", "open"} => Blank(i) /\ ~Armed(Slot(i))
    /\ ctl.pc = "probed" => /\ Blank(i) /\ fr.path \in Temps
                            /\ Guards(Slot(i), fr.path, Probe(i))
    /\ ctl.pc \in {"private", "templink"} => Unnamed(i) /\ Unfilled(i)
    /\ ctl.pc = "templink" => Private(i)
    /\ ctl.pc \in {"fill", "chown", "chmod"} => Building(i)
    /\ ctl.pc = "fill"  => Content /\ ~file[i].owned
    /\ ctl.pc = "chown" => SetOwner /\ file[i].content = Content
    /\ ctl.pc = "chmod" => file[i].content = Content /\ file[i].owned = SetOwner
    /\ ctl.pc = "close" => Todo("close", i)
    /\ ctl.pc = "name" => ToName(i)
    /\ ctl.pc \in CommitPc => Ready(i) /\ op[i].way = "temp"
    /\ ctl.pc = "over" => fr.path = Path /\ fr.ino = Hold(i)
    /\ ctl.pc \in ReplacePc => Ready(i)
    /\ ctl.pc \in {"commitclear", "renamed", "exchanged"} => Moved(i)
    /\ ctl.pc \in {"number", "numbered", "simple", "alias", "overbackup", "note",
                   "backed", "exchanged"} => mem.old \in Inodes
    /\ ctl.pc \in BackupPc /\ Armed(BackupSlot) =>
         /\ Guards(BackupSlot, op[i].backup, mem.old) /\ mem.old \in Inodes
         /\ op[i].backup \in Backups(Path)
    /\ ctl.pc = "renamed" /\ ~spec.force => Bared
    /\ ctl.pc = "overbackup" => /\ Guards(BackupSlot, fr.path, mem.old)
                                /\ fr.path \in Temps /\ Apart(fr.path)
    /\ ctl.pc = "named" => Named(i)
    /\ ctl.pc = "tidy" => Named(i) /\ op[i].fd
    /\ ctl.pc = "tidied" => Raw(i) /\ ~op[i].fd /\ Complete(i) /\ ~Armed(Slot(i))
    /\ ctl.pc = "drop" => Past(i) /\ Spared(i)
    /\ ctl.pc = "dropped" => /\ ~op[i].fd /\ op[i].tmp = None /\ ~Armed(Slot(i))
                             /\ op[i].fail = "no" => Complete(i)
    /\ ctl.pc = "fail" => Failing(i)
    /\ ctl.pc = "failed" => /\ op[i].fail # "no" /\ ~op[i].fd
                            /\ Spared(i) \/ (op[i].spare = None /\ ~Armed(Slot(i)))
    /\ ctl.pc = "made" => MadeInv(i)
    /\ ctl.pc \in RemovePc => RemoveInv(i)
    /\ ctl.pc \notin BackupPc \cup RemovePc \cup {"overbackup", "made"} => Bared

(* The frame of remove_ours(), in the program and in the handler.          *)
RemoveFrame ==
    ctl.pc \in RemovePc =>
        /\ fr.path \in Names
        /\ fr.slot \in Slots => Guards(fr.slot, fr.path, fr.ino)
        /\ ctl.pc = "unlink" /\ fr.path \in Temps => dir[fr.path] = fr.ino

HistInv == hist \in HistTypes

OpsInv == TypesInv /\ RestInv /\ (Live => CallInv(Cur)) /\ RemoveFrame

-----------------------------------------------------------------------------
(* Nobody has come between a look at name n and its use.                   *)
Undisturbed(n) == n \in Temps \/ ~Races \/ hist.other = 0

GapInv == Gap /\ Undisturbed(fr.path) => dir[fr.path] = fr.ino

SlotsInv == \A s \in Slots : Armed(s) =>
    /\ spec.force => pending[s].path \notin Targets
    /\ ~spec.force => pending[s].ino \in Ours

Absent(i) == \A n \in Names : dir[n] # New(i)

Whole(i) == Finished(i) /\ (op[i].way # "plain" => file[i].flushed)

(* Operands whose turn has not come.                                      *)
Waits(i) == \/ i > ctl.first + BatchSize - 1
            \/ ctl.pc = "batch" /\ i \in Batch
            \/ Live /\ ctl.loop = "build" /\ ctl.pc \in CallPc /\ i \in ctl.todo

WaitInv == \A i \in Ops : Waits(i) => Absent(i)

(* The only name of the file in hand while it is built.                    *)
Site == IF ctl.pc = "made" /\ fr.what \in {"temp", "link"} THEN fr.path ELSE op[Cur].tmp

AtSite == /\ Live /\ ctl.loop = "build"
          /\ \/ ctl.pc \in BuildPc
             \/ ctl.pc \in RemovePc /\ fr.then # "failed"
             \/ ctl.pc = "made" /\ fr.what # "plain"

SiteInv == AtSite => \A n \in Names : dir[n] = New(Cur) => n = Site

(* The alias of the old file exists.                                       *)
AtAlias == Live /\ (ctl.pc = "overbackup" \/ (ctl.pc = "made" /\ fr.what = "alias"))

AliasInv == AtAlias => \A j \in Ops : dir[fr.path] = New(j) => Whole(j)

NamedInv == /\ \A i \in Ops, n \in Names \ Temps : dir[n] = New(i) => Whole(i)
            /\ PrivateUntilFinal /\ WaitInv /\ SiteInv /\ AliasInv

-----------------------------------------------------------------------------
(* What the run leaves behind.  The program, or its handler, has still to  *)
(* see to slot s.                                                          *)
Watches(s) == /\ ctl.pc # "killed"
              /\ Live \/ s > fr.slot \/ (s = fr.slot /\ ctl.pc \in RemovePc)

(* Operand i failed before it was named, or is yet to be named.            *)
Early(i) == op[i].fail \in {"build", "flush", "close", "name"}

PlacedPc == {"commitclear", "renamed", "exchanged", "named"}

Coming(i) == /\ Live /\ i \in Batch /\ ctl.pc # "batch"
             /\ \/ ctl.loop \in {"build", "flush", "close"}
                \/ /\ ctl.loop = "name"
                   /\ i \in ctl.todo \/ (i = Cur /\ ctl.pc \in CallPc \ PlacedPc)

Unplaced(i) == Coming(i) \/ Early(i)

(* Until it is named, each name of its file is guarded by its slot, or is  *)
(* the one just made, or could not be removed.                             *)
SoleAt(i, n) ==
    \/ i \in Batch /\ Guards(Slot(i), n, New(i)) /\ Watches(Slot(i))
    \/ /\ Live /\ i = Cur /\ ctl.pc = "made" /\ fr.what \in {"plain", "temp", "link"}
       /\ n = fr.path /\ fr.ino = New(i)
    \/ /\ n \in hist.refused
       /\ op[i].fail # "no" \/ (Live /\ i = Cur /\ ctl.pc = "fail")

SoleInv ==
    /\ \A i \in Ops, n \in Names : Unplaced(i) /\ dir[n] = New(i) => SoleAt(i, n)
    /\ \A i \in Ops : op[i].spare # None => ~Unplaced(i)
    /\ spec.force => hist.refused \cap Targets = {}
    /\ AtAlias => \A j \in Ops : dir[fr.path] = New(j) => ~Unplaced(j)

(* backup_make() has looked at the path and its names are not exchanged,   *)
(* nor renamed, yet.                                                       *)
AtOld == /\ Live
         /\ \/ ctl.pc \in {"number", "numbered", "note", "simple", "alias", "overbackup",
                           "backed"}
            \/ ctl.pc = "made" /\ fr.what \in {"alias", "backup"}
            \/ ctl.pc \in RemovePc /\ fr.then = "backed"

(* The path holds what backup_make() saw unless another process came, and  *)
(* a temporary name is left by its file.                                   *)
OldInv ==
    /\ AtOld => dir[Path] \in {mem.old, None} \cup Others
    /\ ctl.pc \in {"commitclear", "renamed"} => dir[op[Cur].tmp] = None
    /\ ctl.pc = "exchanged" => dir[op[Cur].tmp] \in {mem.old} \cup Others

(* A temporary name is guarded, in hand, or known to be left.              *)
TempAt(n) ==
    \/ dir[n] \in Others \cup {None}
    \/ n \in hist.refused \cup hist.kept
    \/ \E s \in Slots : Guards(s, n, dir[n]) /\ Watches(s)
    \/ Live /\ ctl.pc = "made" /\ n = fr.path /\ fr.ino = dir[n]
    \/ Live /\ ctl.pc = "exchanged" /\ n = op[Cur].tmp

TempInv == \A n \in Temps : TempAt(n)

(* While an operand is built its file is not flushed.                      *)
FreshInv == Live /\ ctl.loop = "build" /\ ctl.pc \in CallPc => ~file[Cur].flushed

(* What a path held when the run started it holds until a new file takes   *)
(* its place, unless another process came.                                 *)
StartInv ==
    /\ \A n \in Names : start[n] \in {Old(n), None}
    /\ hist.other = 0 => \A t \in Targets : start[t] # None =>
         dir[t] # None /\ (~spec.force => dir[t] = start[t])

(* The placeholder is at the path and signals are held.                    *)
AtHold == /\ Live /\ dir[Path] = Hold(Cur)
          /\ \/ ctl.pc = "made" /\ fr.what = "over"
             \/ ctl.pc = "over"
             \/ ctl.pc \in RemovePc /\ fr.then = "overfailed"

(* A path that is not as it was holds a complete file, or one that the     *)
(* handler would still remove.                                             *)
LandAt(t) ==
    \/ dir[t] = start[t]
    \/ dir[t] \in Others \cup {None} /\ hist.other > 0
    \/ t \in hist.refused
    \/ t = Path /\ AtHold
    \/ \E i \in Ops : /\ dir[t] = New(i) /\ Operand[i] = t
                      /\ \/ Complete(i)
                         \/ \E s \in Slots : Guards(s, t, New(i)) /\ Watches(s)
                         \/ Live /\ ctl.pc = "made" /\ t = fr.path /\ fr.ino = New(i)

LandInv == \A t \in Targets : LandAt(t)

-----------------------------------------------------------------------------
(* What the exit status rests on.  The callers that do not go on to fail   *)
(* take note of a name that is left.                                       *)
FlagInv ==
    Live /\ ctl.pc \in RemovePc /\ fr.then \in {"open", "backed", "tidied", "dropped"}
        => fr.flag

Marred(i) == op[i].fail # "no" \/ op[i].leftover

(* A name that could not be removed is, or will be, held against an        *)
(* operand, and that against the status.                                   *)
RefInv == Live /\ hist.refused # {} =>
    ~mem.allok \/ ctl.pc \in {"fail", "overfailed"} \/ \E i \in Batch : Marred(i)

OkInv ==
    /\ Live /\ mem.allok => \A i \in Ops :
         i < ctl.first \/ (ctl.pc = "exit" /\ i \in Batch) => ~Marred(i)
    /\ ctl.pc = "exit" => ctl.first + BatchSize > NOps

(* Until the names are given no failure is a late one, and they are given  *)
(* in the order of the operands.                                           *)
EarlyInv == Live /\ ctl.loop \in {"build", "flush", "close", "name"} =>
    \A i \in Batch : op[i].fail # "no" => Early(i)

OrderInv == Live /\ ctl.loop = "name" /\ ctl.pc \in CallPc =>
    \A i \in Batch : Cur < i => i \in ctl.todo \/ Early(i)

(* A file created in its place is not placed for good while it is guarded, *)
(* and a path whose operand is placed holds its file or that of a later    *)
(* operand of the same path.                                               *)
Placed(i) == (i < ctl.first \/ (i \in Batch /\ ctl.pc # "batch")) /\ ~Unplaced(i)

InPlaceInv == Live => \A i \in Batch : Guards(Slot(i), Operand[i], New(i)) =>
    Unplaced(i) /\ (hist.other = 0 => dir[Operand[i]] = New(i))

PathInv == Live /\ hist.other = 0 => \A i \in Ops : Placed(i) =>
    \E j \in Ops : /\ i <= j /\ Operand[j] = Operand[i]
                   /\ Placed(j) /\ dir[Operand[i]] = New(j)

-----------------------------------------------------------------------------
(* A simple backup is replaced only where there is one.                    *)
OverInv == Live /\ hist.other = 0 /\ (ctl.pc = "alias" \/ AtAlias) =>
    dir[Simple(Path)] # None

(* A new backup of a path that still holds its old file is one the program *)
(* would remove.                                                           *)
Undone(b) ==
    \/ b \in hist.refused
    \/ Guards(BackupSlot, b, dir[b]) /\ Watches(BackupSlot)
    \/ Live /\ ctl.pc = "made" /\ fr.path = b /\ fr.ino = dir[b]

OrphanInv == hist.other = 0 => \A t \in Targets : \A b \in Backups(t) :
    start[b] = None /\ start[t] # None /\ dir[b] # None /\ dir[t] = start[t] => Undone(b)

(* A number is being tried, or has just been used.                         *)
Noting    == ctl.pc = "note" \/ (ctl.pc = "made" /\ fr.then = "note")
Numbering == ctl.pc = "numbered" \/ Noting

(* The strings of digits the program handles, and what else TypeOK asks.   *)
NumInv ==
    /\ start \in [Names -> Inodes \cup {None}]
    /\ unflushed \in BOOLEAN
    /\ mem.num \in {<<>>, <<1>>} \cup Numbers \cup {digits_inc(d) : d \in Numbers}
    /\ mem.best \in [Targets -> Numbers \cup {<<>>}]
    /\ Noting => mem.num \in Numbers

(* A path never holds the old file of another name.                        *)
HomeInv == \A t \in Targets : dir[t] \in {None, Old(t)} \cup Ours \cup Others

(* The numbers of t that were in use before the run and still are.         *)
InUse(t) == {d \in Numbers : /\ backup_split(d)
                             /\ start[Numbered(t, d)] # None
                             /\ dir[Numbered(t, d)] = start[Numbered(t, d)]}

(* The listing knows a number at least as high as each of them, and the    *)
(* number in hand is higher.                                               *)
RankInv == kern.list =>
    /\ mem.listed => \A t \in Targets : \A e \in InUse(t) :
         mem.best[t] # <<>> /\ Value(e) <= Value(mem.best[t])
    /\ Numbering => \A e \in InUse(Path) : Value(e) < Value(mem.num)

-----------------------------------------------------------------------------
(* No slot, nor a call in progress, is to remove the backup name m.        *)
Unguarded(m) == /\ ~(Armed(BackupSlot) /\ pending[BackupSlot].path = m)
                /\ ~(ctl.pc = "made" /\ fr.path = m)

(* Inode x was given up, has a backup that stays, or has one of the path.  *)
Saved(x) == \/ x \in hist.forgone
            \/ \E t \in Targets : \E m \in Backups(t) : dir[m] = x /\ Unguarded(m)

Copied(x) == x \in hist.forgone \/ \E m \in Backups(Path) : dir[m] = x

(* The backup is made and its place is not taken yet.                      *)
AtBacked == /\ Live
            /\ \/ ctl.pc \in {"note", "backed", "exchanged"}
               \/ ctl.pc = "made" /\ fr.what = "backup"
               \/ ctl.pc \in RemovePc /\ fr.then = "backed"

(* The file that was backed up is where it was until it has its backup,    *)
(* and a name is removed only if its file has another one.                 *)
OldKept == AtOld /\ mem.old \in Foreign => mem.old \in {dir[Path]} \cup hist.forgone

AliasKept == AtAlias /\ mem.old \in Foreign => mem.old \in {dir[fr.path]} \cup hist.forgone

BackedKept == AtBacked /\ mem.old \in Foreign => Copied(mem.old)

RenameKept == ctl.pc = "rename" /\ dir[Path] \in Foreign \ Others => Copied(dir[Path])

BackupKept ==
    /\ ctl.pc \notin {"renamed", "exchanged"} /\ Armed(BackupSlot)
    /\ pending[BackupSlot].ino \in Foreign
    => pending[BackupSlot].ino \in {dir[Path]} \cup hist.forgone

SpareKept == \A s \in Slots \ {BackupSlot} : Armed(s) =>
    /\ pending[s].path \in Temps
    /\ pending[s].ino \in Foreign => Saved(pending[s].ino) /\ mem.spareHeld

KeepInv == spec.backup # "no" =>
    OldKept /\ AliasKept /\ BackedKept /\ RenameKept /\ BackupKept /\ SpareKept

(* The inductive invariant: at any step, whatever failed and whoever came  *)
(* between, each operand of the batch is at a stage batch.c can have left  *)
(* it at, each slot of pending[] guards what belongs to it, a new file is  *)
(* named only as far as it is done, each name the run has made is in       *)
(* place, guarded, or known to be left, what went wrong is held against    *)
(* the exit status, the number of the next backup is above those in use,   *)
(* and with --backup no name of another's file goes before it has a second *)
(* one.  The proofs rest on it.                                            *)
Inductive == /\ FlowInv /\ OpsInv /\ HistInv /\ SlotsInv /\ GapInv /\ NamedInv
             /\ SoleInv /\ OldInv /\ TempInv /\ FreshInv /\ StartInv /\ LandInv
             /\ FlagInv /\ RefInv /\ OkInv /\ EarlyInv /\ OrderInv
             /\ InPlaceInv /\ PathInv /\ OverInv /\ OrphanInv
             /\ NumInv /\ HomeInv /\ RankInv /\ KeepInv
=============================================================================
