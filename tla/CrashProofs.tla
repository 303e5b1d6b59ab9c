----------------------------- MODULE CrashProofs ------------------------------
(***************************************************************************)
(* What is on the disk.  With -f a path that was there has its old file or *)
(* a finished, flushed one after a power loss at any moment (CrashOldOrNew *)
(* of Crash), from OldOrNew and from what the program does to a file once  *)
(* it is flushed: nothing.  Exit status 0 means that every path has its    *)
(* new file on the disk (ExitDurable), from ExitZero and from what         *)
(* flush_set_run() still owes the directory.  And with --backup the old    *)
(* file has a name on the disk at any moment (CrashKeepsOld), from KeepInv *)
(* and from when the directory is flushed.                                 *)
(***************************************************************************)
EXTENDS Crash, LeaveProofs

USE DEF At, Pcs, CallPc, BuildPc, NamePc, CommitPc, ReplacePc, RemovePc, HeadPc

-----------------------------------------------------------------------------
(* A file that a path may show: its old one or a complete one.             *)
Shown(t, x) == x = start[t] \/ \E i \in Ops : x = New(i) /\ Complete(i)

Entries == UNION {[S -> Inodes \cup {None}] : S \in SUBSET Names}

(* The directory, the disk and every change in between show such files.    *)
DiskInv ==
    /\ disk \in [Names -> Inodes \cup {None}]
    /\ log \in Seq(Entries)
    /\ spec.force => \A t \in Targets :
         /\ Shown(t, dir[t]) /\ Shown(t, disk[t])
         /\ \A k \in DOMAIN log : t \in DOMAIN log[k] => Shown(t, log[k][t])

(* Whichever changes have reached the disk, a path shows one of them or    *)
(* what was there before.                                                  *)
LEMMA ImageShows ==
    ASSUME DiskInv, spec.force, NEW t \in Targets, NEW s \in SUBSET DOMAIN log
    PROVE  Shown(t, Image(s)[t])
<1> DEFINE at == {k \in s : t \in DOMAIN log[k]}
           last == CHOOSE k \in at : \A m \in at : m <= k
<1>1. t \in Names BY Names0
<1>2. Image(s)[t] = IF at = {} THEN disk[t] ELSE log[last][t] BY <1>1 DEF Image
<1>3. at # {} => last \in at
  <2>1. Len(log) \in Nat /\ DOMAIN log = 1..Len(log) BY DEF DiskInv
  <2>2. at \in SUBSET (1..Len(log)) BY <2>1
  <2> HIDE DEF at
  <2> QED BY <2>1, <2>2, GreatestExists
<1>4. at # {} => last \in DOMAIN log /\ t \in DOMAIN log[last] BY <1>3
<1> HIDE DEF at, last
<1> QED BY <1>2, <1>4 DEF DiskInv

(* What a path may show it may still show.                                 *)
LEMMA ShownKept ==
    ASSUME FlowInv, OpsInv, FreshInv, [Next]_vars, NEW t, NEW x, Shown(t, x)
    PROVE  Shown(t, x)'
<1>1. start' = start BY StartKept
<1>2. \A i \in Ops : Complete(i) => Complete(i)' BY CompleteKept
<1> QED BY <1>1, <1>2 DEF Shown

(* Where nobody else is at work, every step keeps what is on the disk.     *)
LEMMA DiskStep ==
    ASSUME MaxOther = 0, FlowInv, OpsInv, HistInv, SlotsInv, FreshInv, DiskInv,
           OpsInv', HistInv', [Next /\ Record]_crashVars
    PROVE  DiskInv'
<1>1. [Next]_vars BY DEF crashVars
<1>2. OurStep BY WorldAssumption DEF HistInv, HistTypes, OurStep
<1>3. spec' = spec /\ start' = start BY <1>1, StartKept
<1>4. dir \in [Names -> Inodes \cup {None}] /\ dir' \in [Names -> Inodes \cup {None}]
  BY DEF OpsInv, TypesInv
<1>5. ASSUME spec.force, NEW t \in Targets PROVE Shown(t, dir[t])'
  <2>1. CASE dir'[t] = dir[t]
    <3>1. Shown(t, dir[t]) BY <1>5 DEF DiskInv
    <3>2. PICK x : x = dir[t] OBVIOUS
    <3>3. Shown(t, x)' BY <1>1, <3>1, <3>2, ShownKept
    <3> QED BY <2>1, <3>2, <3>3 DEF Shown
  <2>2. CASE dir'[t] # dir[t]
    <3>1. PICK i \in Ops : dir'[t] = New(i) /\ Finished(i) /\ file[i].flushed
      BY <1>1, <1>2, <1>5, <2>2, OldOrNewStep
    <3>2. Complete(i)' BY <1>1, <3>1, CompleteKept DEF Complete
    <3> QED BY <3>1, <3>2 DEF Shown
  <2> QED BY <2>1, <2>2
<1>6. ASSUME spec.force, NEW t \in Targets, NEW x, Shown(t, x) PROVE Shown(t, x)'
  BY <1>1, <1>6, ShownKept
<1>7. CASE disk' = dir' /\ log' = <<>>
  <2>1. log' \in Seq(Entries) /\ DOMAIN log' = {} BY <1>7
  <2>2. ASSUME spec.force, NEW t \in Targets PROVE Shown(t, disk[t])'
    BY <1>5, <1>7, <2>2 DEF Shown
  <2> QED BY <1>3, <1>4, <1>5, <1>7, <2>1, <2>2 DEF DiskInv
<1>8. CASE disk' = disk /\ log' = Append(log, [n \in Changed |-> dir'[n]])
  <2> DEFINE e == [n \in Changed |-> dir'[n]]
  <2>1. e \in Entries
    <3>1. Changed \in SUBSET Names BY DEF Changed
    <3>2. e \in [Changed -> Inodes \cup {None}] BY <1>4, <3>1
    <3> QED BY <3>1, <3>2 DEF Entries
  <2>2. \A n \in DOMAIN e : e[n] = dir'[n] OBVIOUS
  <2> HIDE DEF e
  <2>3. /\ log' \in Seq(Entries) /\ DOMAIN log' = 1..(Len(log) + 1)
        /\ DOMAIN log = 1..Len(log) /\ Len(log) \in Nat
        /\ log'[Len(log) + 1] = e /\ \A k \in DOMAIN log : log'[k] = log[k]
    BY <1>8, <2>1 DEF DiskInv, e
  <2>4. ASSUME spec.force, NEW t \in Targets
        PROVE  /\ Shown(t, disk[t])'
               /\ \A k \in DOMAIN log' : t \in DOMAIN log'[k] => Shown(t, log[k][t])'
    <3>1. Shown(t, disk[t]) /\ \A k \in DOMAIN log : t \in DOMAIN log[k]
            => Shown(t, log[k][t])
      BY <2>4 DEF DiskInv
    <3>2. Shown(t, disk[t])' BY <1>6, <1>8, <2>4, <3>1 DEF Shown
    <3>3. ASSUME NEW k \in DOMAIN log', t \in DOMAIN log'[k] PROVE Shown(t, log[k][t])'
      <4>1. CASE k \in DOMAIN log
        <5>1. Shown(t, log[k][t]) BY <2>3, <3>1, <3>3, <4>1
        <5>2. PICK x : x = log[k][t] OBVIOUS
        <5>3. Shown(t, x)' BY <1>6, <2>4, <5>1, <5>2
        <5> QED BY <2>3, <4>1, <5>2, <5>3 DEF Shown
      <4>2. CASE k \notin DOMAIN log
        <5>1. k = Len(log) + 1 BY <2>3, <3>3, <4>2
        <5>2. log'[k][t] = dir'[t] BY <2>2, <2>3, <3>3, <5>1
        <5> QED BY <1>5, <2>4, <5>2 DEF Shown
      <4> QED BY <4>1, <4>2
    <3> QED BY <3>2, <3>3
  <2> QED BY <1>3, <1>5, <1>8, <2>3, <2>4 DEF DiskInv
<1>9. CASE disk' = disk /\ log' = log
  <2>1. ASSUME spec.force, NEW t \in Targets
        PROVE  /\ Shown(t, disk[t])'
               /\ \A k \in DOMAIN log : t \in DOMAIN log[k] => Shown(t, log[k][t])'
    <3>1. Shown(t, disk[t]) /\ \A k \in DOMAIN log : t \in DOMAIN log[k]
            => Shown(t, log[k][t])
      BY <2>1 DEF DiskInv
    <3> QED BY <1>6, <1>9, <2>1, <3>1 DEF Shown
  <2> QED BY <1>3, <1>5, <1>9, <2>1 DEF DiskInv
<1> QED BY <1>7, <1>8, <1>9 DEF Record, crashVars

(* At first the disk has the directory as it is.                           *)
LEMMA InitDisk == Init /\ disk = dir /\ log = <<>> => FreshInv /\ DiskInv
<1> SUFFICES ASSUME Init, disk = dir, log = <<>> PROVE FreshInv /\ DiskInv OBVIOUS
<1>1. ctl.pc = "batch" /\ dir = start BY DEF Init
<1>2. dir \in [Names -> Inodes \cup {None}] BY InitOps DEF OpsInv, TypesInv
<1>3. log \in Seq(Entries) /\ DOMAIN log = {} OBVIOUS
<1>4. FreshInv BY <1>1 DEF FreshInv
<1> QED BY <1>1, <1>2, <1>3, <1>4 DEF DiskInv, Shown

(* What the files and the disk hold, all along.                            *)
CrashInv == SafeInv /\ FreshInv /\ DiskInv

(* At first, and after every step.                                         *)
LEMMA CrashAlways == ASSUME MaxOther = 0 PROVE CrashSpec => []CrashInv
<1>1. Init /\ disk = dir /\ log = <<>> => CrashInv
  BY InitFlow, InitOps, InitSlots, InitDisk DEF SafeInv, CrashInv
<1>2. CrashInv /\ [Next /\ Record]_crashVars => CrashInv'
  <2> SUFFICES ASSUME CrashInv, [Next /\ Record]_crashVars PROVE CrashInv' OBVIOUS
  <2>1. [Next]_vars BY DEF crashVars
  <2>2. SafeInv' BY <2>1, FlowStep, OpsStep, HistStep, SlotsStep DEF SafeInv, CrashInv
  <2>3. FreshInv' BY <2>1, <2>2, FreshStep DEF SafeInv, CrashInv
  <2>4. DiskInv' BY <2>1, <2>2, DiskStep DEF SafeInv, CrashInv
  <2> QED BY <2>2, <2>3, <2>4 DEF CrashInv
<1> QED BY <1>1, <1>2, PTL DEF CrashSpec

(* With -f, where nobody else changes the directory, a power loss at any   *)
(* moment, with any of the outstanding changes on the disk, finds a path   *)
(* that was there with its old file or a new one that is finished and      *)
(* flushed, never without a file: flush_batch() comes before replace_one() *)
(* and a file is not touched once it is flushed.                           *)
THEOREM CrashTheorem == ASSUME MaxOther = 0 PROVE CrashSpec => []CrashOldOrNew
<1>1. CrashInv => CrashOldOrNew
  <2> SUFFICES ASSUME CrashInv, spec.force, NEW s \in Reached, NEW t \in Targets
               PROVE  \/ Image(s)[t] = start[t]
                      \/ \E i \in Ops : /\ Image(s)[t] = New(i)
                                        /\ Finished(i) /\ file[i].flushed
    BY DEF CrashOldOrNew
  <2>1. s \in SUBSET DOMAIN log BY DEF Reached
  <2>2. Shown(t, Image(s)[t]) BY <2>1, ImageShows DEF CrashInv
  <2> QED BY <2>2 DEF Shown, Complete
<1> QED BY <1>1, CrashAlways, PTL

-----------------------------------------------------------------------------
(* The exit status and the disk.  The directory has changed since it was   *)
(* flushed only if that is recorded.                                       *)
CleanInv == ~unflushed => log = <<>>

(* A name is on the disk as it is unless a change of it is outstanding.    *)
SameInv == \A n \in Names : (\A k \in DOMAIN log : n \notin DOMAIN log[k]) =>
    disk[n] = dir[n]

(* The directory is remembered only until flush_set_run().                 *)
QueueInv == mem.queued => ctl.loop \in {"name", "settle", "tidy"} /\ ctl.pc # "batch"

(* A change of a path is outstanding.                                      *)
Owed == \E k \in DOMAIN log : \E t \in Targets : t \in DOMAIN log[k]

(* The run knows of it: the directory is remembered, its failure counted,  *)
(* an operand failed, or the naming is not over.                           *)
Excused ==
    \/ mem.queued \/ mem.nfailed \/ ~mem.allok
    \/ \E i \in Batch : Marred(i)
    \/ ctl.pc # "batch" /\ ctl.loop \in {"build", "flush", "close"}
    \/ ctl.pc \in CallPc /\ ctl.loop = "name"

OweInv == Live /\ Owed => Excused

(* Whoever changes a name leaves the directory to be flushed.              *)
LEMMA DirMarks == [Next]_vars => dir' = dir \/ unflushed'
<1> SUFFICES ASSUME [Next]_vars, ~(dir' = dir) PROVE unflushed' OBVIOUS
<1>1. ASSUME NEW d, SetDir(d) PROVE unflushed' BY <1>1 DEF SetDir
<1> HIDE DEF SetDir
<1>2. ~(Signal \/ UNCHANGED vars) BY DEF Signal, vars
<1>3. PendingStep \/ OtherStep => unflushed'
  BY <1>1 DEF PendingStep, RemoveLstat, RemoveUnlink, SignalTaken, HandlerStep,
         OtherStep, OtherPut, OtherUnlink
<1>4. PlaceStep => unflushed'
  BY <1>1 DEF PlaceStep, Arm, UndoOpen, ProbeDone, CommitRename, CommitClear, CommitLink,
         CommitOver, OverRename, OverFailed, ReplaceRename, Renamed, ExchangeNames,
         Exchanged, Made
<1>5. BackupStep => unflushed'
  BY <1>1 DEF BackupStep, backup_none, backup_make, backup_next, backup_numbered,
         OutOfNumbers, backup_note, backup_simple, place_temp_alias, OverBackup,
         backup_link, NoLink, temp_make, NoTemp, Made
<1>6. BatchStep => unflushed'
  BY <1>1 DEF BatchStep, batch_run, build_one, FinishPrivate, fill_one, FinishOwner,
         FinishMode, place_probe_mode, open_built, FinishLink, op_fail,
         OpFailed, FlushClose, close_op, NameBatch, NameForce, NameUnnamed, NameTemp,
         NamePlain, FlushBackup, SettleClose, SettleOne, Tidied, flush_set_run, Dropped,
         DropRelease, flush_batch, settle_batch, flush_set_add, drop_spares, report_one,
         temp_make, NoTemp, Made
<1> QED BY <1>2, <1>3, <1>4, <1>5, <1>6 DEF Next, Program, Ended

(* Only flush_set_add() and flush_set_run() change what the flush set      *)
(* knows, apart from the failures that are counted for each batch.         *)
LEMMA SetKept ==
    ASSUME FlowInv, [Next]_vars
    PROVE  \/ /\ mem'.queued = mem.queued /\ mem'.nfailed = mem.nfailed
              /\ mem'.dirfailed = mem.dirfailed \/ batch_run
           \/ flush_set_add \/ flush_set_run
<1>1. DOMAIN mem = MemFields BY DEF FlowInv, HeldInv
<1>2. Signal \/ OtherStep \/ UNCHANGED vars \/ PendingStep => mem' = mem
  BY DEF Signal, OtherStep, OtherPut, OtherUnlink, vars, PendingStep, RemoveLstat,
         RemoveUnlink, SignalTaken, HandlerStep
<1> DEFINE Same == /\ mem'.queued = mem.queued /\ mem'.nfailed = mem.nfailed
                   /\ mem'.dirfailed = mem.dirfailed \/ batch_run
<1>3. PlaceStep => Same
  BY <1>1 DEF PlaceStep, Arm, UndoOpen, ProbeDone, CommitRename, CommitClear, CommitLink,
         CommitOver, OverRename, OverFailed, ReplaceRename, Renamed, ExchangeNames,
         Exchanged, MemFields
<1>4. BackupStep => Same
  BY <1>1 DEF BackupStep, backup_none, backup_make, backup_next, backup_numbered,
         OutOfNumbers, backup_note, backup_simple, place_temp_alias, OverBackup, MemFields
<1>5. BatchStep => Same \/ flush_set_add \/ flush_set_run
  BY <1>1 DEF BatchStep, batch_run, build_one, FinishPrivate, fill_one, FinishOwner,
         FinishMode, place_probe_mode, open_built, FinishLink, op_fail,
         OpFailed, FlushClose, close_op, NameBatch, NameForce, NameUnnamed, NameTemp,
         NamePlain, FlushBackup, SettleClose, SettleOne, Tidied, Dropped,
         DropRelease, flush_batch, settle_batch, drop_spares, report_one, MemFields
<1> QED BY <1>2, <1>3, <1>4, <1>5 DEF Next, Program, Ended

(* What flush_set_add() and flush_set_run() leave, where the directory can *)
(* be flushed.                                                             *)
LEMMA SetCalls ==
    ASSUME FlowInv, kern.dirsync, flush_set_add \/ flush_set_run
    PROVE  /\ (mem.nfailed => mem'.nfailed) /\ (mem.dirfailed => mem'.dirfailed)
           /\ flush_set_add =>
                mem'.queued \/ (mem'.nfailed /\ mem'.dirfailed) \/ ~unflushed'
           /\ flush_set_add /\ mem.queued => mem'.queued
           /\ flush_set_run /\ mem.queued =>
                (mem'.nfailed /\ mem'.dirfailed) \/ ~unflushed'
           /\ flush_set_run => ~mem'.queued
<1>1. DOMAIN mem = MemFields BY DEF FlowInv, HeldInv
<1>2. CASE flush_set_add
  <2>1. ~flush_set_run BY <1>2 DEF flush_set_add, flush_set_run
  <2> QED BY <1>1, <1>2, <2>1 DEF flush_set_add, Flushed, MemFields
<1>3. CASE flush_set_run
  <2>1. ~flush_set_add BY <1>3 DEF flush_set_add, flush_set_run
  <2> QED BY <1>1, <1>3, <2>1 DEF flush_set_run, Flushed, MemFields
<1> QED BY <1>2, <1>3

(* The directory is remembered by name_one() and not past flush_set_run(). *)
LEMMA QueueStep ==
    ASSUME FlowInv, kern.dirsync, QueueInv, [Next]_vars
    PROVE  QueueInv'
<1> SUFFICES ASSUME mem'.queued
             PROVE  ctl'.loop \in {"name", "settle", "tidy"} /\ ctl'.pc # "batch"
  BY DEF QueueInv
<1>1. CASE flush_set_add
  <2>1. ctl.pc = "named" /\ ctl.loop = "name" BY <1>1 DEF flush_set_add, FlowInv, CtlInv
  <2>2. Moves(ctl, ctl') BY <1>1, GotoStep DEF flush_set_add, FlowInv
  <2> QED BY <2>1, <2>2 DEF Moves, Entry, After
<1>2. ~flush_set_run BY SetCalls
<1>3. CASE mem.queued
  <2>1. ctl.loop \in {"name", "settle", "tidy"} /\ ctl.pc # "batch" BY <1>3 DEF QueueInv
  <2>2. CASE Turns BY <2>1, <2>2 DEF Turns, Moves, Entry, After
  <2>3. CASE Begins
    <3>1. ctl.pc \in HeadPc \ {"batch"} /\ ~batch_run BY <2>1, <2>3 DEF Begins, batch_run
    <3>2. ctl.pc \in {"settle", "tidying", "sync"}
      BY <2>1, <3>1 DEF FlowInv, CtlInv, LoopOf
    <3>3. PendingStep => SignalTaken
      BY <3>2 DEF PendingStep, RemoveLstat, RemoveUnlink, HandlerStep
    <3>4. PendingStep => ctl'.pc = "handler" /\ ctl'.loop = ctl.loop
      BY <3>3, GotoStep DEF SignalTaken, FlowInv
    <3>5. ~PlaceStep /\ ~BackupStep
      BY <3>2
      DEF PlaceStep, Arm, UndoOpen, ProbeDone, CommitRename, CommitClear, CommitLink,
          CommitOver, OverRename, OverFailed, ReplaceRename, Renamed, ExchangeNames,
          Exchanged, BackupStep, backup_none, backup_make, backup_next, backup_numbered,
          OutOfNumbers, backup_note, backup_simple, place_temp_alias, OverBackup
    <3>6. BatchStep => settle_batch \/ SettleClose \/ flush_set_run
      BY <3>2
      DEF BatchStep, batch_run, build_one, place_probe_mode, open_built, FinishPrivate,
          FinishLink, fill_one, FinishOwner, FinishMode, FlushClose, close_op, NameBatch,
          NameForce, NameUnnamed, NameTemp, NamePlain, FlushBackup, flush_set_add,
          SettleOne, Tidied, op_fail, OpFailed, Dropped, flush_batch, drop_spares,
          DropRelease, report_one
    <3>7. Opened \subseteq Batch /\ "settle" \in DOMAIN Entry /\ "tidy" \in DOMAIN Entry
      BY DEF Opened, Kept, Entry
    <3>8. CtlInv BY DEF FlowInv
    <3>9. CASE settle_batch
      <4>1. PICK bad \in SUBSET Opened : ctl' = Loop("settle", bad)
        BY <3>9 DEF settle_batch, flush_ops
      <4> QED BY <3>7, <3>8, <4>1, LoopEntered DEF Entered, Entry, After
    <3>10. CASE SettleClose
      BY <3>7, <3>8, <3>10, LoopEntered DEF SettleClose, Entered, Entry, After
    <3>11. OtherStep \/ Signal \/ UNCHANGED vars => ctl' = ctl
      BY DEF OtherStep, OtherPut, OtherUnlink, Signal, vars
    <3> QED BY <1>2, <2>1, <3>4, <3>5, <3>6, <3>9, <3>10, <3>11 DEF Next, Program, Ended
  <2>4. ~DropRelease /\ ~report_one
    BY <2>1 DEF DropRelease, report_one, FlowInv, CtlInv, LoopOf
  <2>5. CASE Handles BY <2>1, <2>5 DEF Handles
  <2> QED BY <2>1, <2>2, <2>3, <2>4, <2>5, CtlForms
<1> QED BY <1>1, <1>2, <1>3, SetKept

(* Who changes a path, while the program runs and nobody else does.        *)
LEMMA TargetChange ==
    ASSUME FlowInv, OpsInv, HistInv, [Next]_vars, OurStep, Live', NEW t \in Targets,
           dir'[t] # dir[t]
    PROVE  \/ /\ ctl'.pc \in CallPc
              /\ ctl'.loop \in {"build", "name"}
           \/ Cur \in Batch /\ Marred(Cur) /\ ~report_one
<1>1. Live BY LiveBefore
<1>2. t \in Names /\ t \notin Temps /\ \A u \in Targets : t \notin Backups(u)
  BY Names0, WorldAssumption
<1>3. dir \in [Names -> Inodes \cup {None}] BY DEF OpsInv, TypesInv
<1>4. ctl.loop \in DOMAIN Entry BY DEF FlowInv, CtlInv, CtlType
<1>5. CASE Takes
  <2>1. /\ fr.path = t /\ ctl.pc = "unlink" /\ Goto(fr.then) /\ ~report_one
    BY <1>2, <1>3, <1>5, <1>1 DEF Takes, RemoveUnlink, RemoveDone, Live, report_one
  <2>2. /\ CallInv(Cur) /\ RemoveInv(Cur) /\ FrRemove /\ Cur \in Batch
        /\ fr.slot \in Slots => Guards(fr.slot, fr.path, fr.ino)
    BY <1>1, <2>1 DEF OpsInv, CallInv, FlowInv, CallFrame, CtlInv, RemoveFrame
  <2>3. fr.then # "dropped"
    <3> SUFFICES ASSUME fr.then = "dropped" PROVE FALSE OBVIOUS
    <3>1. Spared(Cur) /\ fr.slot = Slot(Cur) BY <2>2 DEF RemoveInv, FrRemove
    <3>2. Slot(Cur) \in Slots BY <2>2, Slots0 DEF FlowInv
    <3> QED BY <1>2, <2>1, <2>2, <3>1, <3>2 DEF Spared, Guards
  <2>4. fr.then = "overfailed" \/ (fr.then = "failed" /\ Marred(Cur))
    BY <1>2, <2>1, <2>2, <2>3 DEF RemoveInv, Marred
  <2>5. CASE fr.then = "overfailed"
    <3>1. ctl.loop = "name" BY <2>2, <2>5 DEF FrRemove
    <3> QED BY <2>1, <2>5, <3>1, CallStep
  <2> QED BY <2>1, <2>2, <2>4, <2>5
<1>6. CASE Undoes
  <2>1. fr.path = t /\ ctl.pc = "made" /\ MadeInv(Cur) /\ FrMade /\ Goto("fail")
    BY <1>2, <1>3, <1>6 DEF Undoes, UndoOpen, FlowInv, CallFrame
  <2>2. fr.what \in {"plain", "over"}
    <3>1. Path \in Targets BY <2>1, InHand
    <3> QED BY <1>2, <2>1, <3>1 DEF MadeInv
  <2>3. ctl.loop \in {"build", "name"} BY <2>1, <2>2 DEF FrMade
  <2> QED BY <2>1, <2>3, CallStep
<1>7. CASE Gives
  <2>1. ctl.loop = "name" BY <1>7 DEF Gives, FlowInv, CtlInv
  <2> QED BY <1>7, <2>1 DEF Gives
<1>8. CASE Shifts
  <2>1. ctl.loop = "name" BY <1>8 DEF Shifts, FlowInv, CtlInv
  <2> QED BY <1>8, <2>1 DEF Shifts
<1>9. CASE Swaps
  <2>1. ctl.loop = "name" BY <1>9 DEF Swaps, FlowInv, CtlInv
  <2> QED BY <1>9, <2>1 DEF Swaps
<1>10. CASE Rebacks
  <2>1. ctl.loop = "name" BY <1>10 DEF Rebacks, FlowInv, CtlInv
  <2> QED BY <1>10, <2>1 DEF Rebacks
<1>11. ASSUME NEW n, NEW x, Makes(n, x)
       PROVE  ctl'.pc \in CallPc /\ ctl'.loop \in {"build", "name"}
  <2>1. ctl'.pc = "made" /\ ctl'.loop = ctl.loop BY <1>11 DEF Makes
  <2>2. ctl.pc \in BuildPc \cup NamePc BY <1>11 DEF Makes
  <2> QED BY <2>1, <2>2 DEF FlowInv, CtlInv
<1>12. ~OtherStep
  <2>1. hist \in HistTypes /\ hist.other \in Nat
    BY WorldAssumption DEF HistInv, HistTypes
  <2>2. OtherStep => hist'.other = hist.other + 1
    BY <2>1 DEF OtherStep, OtherPut, OtherUnlink, HistTypes
  <2> QED BY <2>1, <2>2 DEF OurStep
<1> QED BY <1>5, <1>6, <1>7, <1>8, <1>9, <1>10, <1>11, <1>12, DirForms

(* The run does not forget what it knows of a path before the change is on *)
(* the disk.                                                               *)
LEMMA ExcusedKept ==
    ASSUME FlowInv, OpsInv, kern.dirsync, [Next]_vars, Live', Excused
    PROVE  Excused' \/ ~unflushed'
<1>1. Live BY LiveBefore
<1>2. Batch \subseteq Ops BY Slots0 DEF FlowInv
<1>3. ASSUME NEW i \in Batch, Marred(i) PROVE Excused'
  <2>1. CASE report_one BY <1>3, <2>1, AllokKept DEF Excused
  <2>2. CASE ~report_one
    <3>1. Batch' = Batch BY <2>2, FirstKept
    <3>2. Marred(i)' BY <1>2, <1>3, MarredKept
    <3> QED BY <3>1, <3>2 DEF Excused
  <2> QED BY <2>1, <2>2
<1>4. CASE mem.queued \/ mem.nfailed BY <1>4, SetKept, SetCalls DEF Excused
<1>5. CASE ~mem.allok
  <2>1. ~mem'.allok BY <1>5, AllokKept
  <2> QED BY <2>1 DEF Excused
<1>6. CASE ctl.pc # "batch" /\ ctl.loop \in {"build", "flush", "close"}
  <2>1. CASE ctl' = ctl BY <1>6, <2>1 DEF Excused
  <2>2. CASE Turns
    <3>1. ctl'.pc # "batch" /\ ctl'.loop = ctl.loop
      BY <1>6, <2>2 DEF Turns, Moves, Entry, After
    <3> QED BY <1>6, <3>1 DEF Excused
  <2>3. CASE Begins /\ ctl' # ctl
    <3>1. ctl.pc \in HeadPc \ {"batch"} BY <1>6, <2>3 DEF Begins, batch_run
    <3>2. CASE ctl'.loop \in {"flush", "close"} /\ ctl'.pc # "batch"
      BY <3>2 DEF Excused
    <3>3. CASE Entered("name", Kept) /\ Kept # {}
      <4>1. ctl'.pc = "name" /\ ctl'.loop = "name" BY <3>3 DEF Entered, Entry
      <4> QED BY <4>1 DEF Excused
    <3>4. CASE Kept = {}
      <4>1. PICK i \in Batch : TRUE
        BY WorldAssumption DEF FlowInv, CtlInv, CtlType, Batch, Ops
      <4>2. Marred(i) BY <3>4 DEF Kept, Marred
      <4> QED BY <1>3, <4>2
    <3> QED BY <1>6, <2>3, <3>1, <3>2, <3>3, <3>4, EarlierLoop
  <2>4. ~DropRelease /\ ~report_one
    BY <1>6 DEF DropRelease, report_one, FlowInv, CtlInv, LoopOf
  <2>5. ~Handles BY DEF Handles
  <2> QED BY <2>1, <2>2, <2>3, <2>4, <2>5, CtlForms
<1>7. CASE ctl.pc \in CallPc /\ ctl.loop = "name"
  <2>1. ~Begins /\ ~DropRelease /\ ~report_one /\ ~Handles
    BY <1>7 DEF Begins, batch_run, DropRelease, report_one, Handles
  <2>2. ctl'.loop = "name" BY <1>7, <2>1, CtlForms DEF Turns
  <2>3. CASE ctl'.pc \in CallPc BY <2>2, <2>3 DEF Excused
  <2>4. CASE ctl.pc \in PlacedPc /\ ctl'.pc \notin CallPc
    <3>1. flush_set_add BY <1>7, <2>4, PlacedActions
    <3> QED BY <3>1, SetCalls DEF Excused
  <2>5. CASE OpFailed
    <3>1. ctl.pc = "failed" BY <2>5 DEF OpFailed
    <3>2. Cur \in Batch /\ op[Cur].fail # "no" BY <3>1, InHand DEF CallInv
    <3> QED BY <1>3, <3>2 DEF Marred
  <2>6. CASE ctl.pc \notin PlacedPc /\ ctl'.pc \notin CallPc /\ ~OpFailed
    <3>1. (Gives /\ (ctl.pc = "commit" \/ op[Cur].way = "unnamed")) \/ Stays
      BY <1>7, <2>6, NamesIt
    <3> QED BY <2>6, <3>1 DEF Gives, Stays
  <2> QED BY <2>3, <2>4, <2>5, <2>6
<1> QED BY <1>3, <1>4, <1>5, <1>6, <1>7 DEF Excused

(* Every step keeps what is recorded of the directory and of its changes.  *)
LEMMA OweStep ==
    ASSUME MaxOther = 0, FlowInv, OpsInv, HistInv, HistInv', DiskInv, kern.dirsync,
           CleanInv, SameInv, OweInv, [Next /\ Record]_crashVars
    PROVE  CleanInv' /\ SameInv' /\ OweInv'
<1>1. [Next]_vars BY DEF crashVars
<1>2. OurStep BY WorldAssumption DEF HistInv, HistTypes, OurStep
<1>3. dir' = dir \/ unflushed' BY <1>1, DirMarks
<1> DEFINE e == [n \in Changed |-> dir'[n]]
<1>4. \/ log' = <<>> /\ disk' = dir'
      \/ log' = log /\ disk' = disk /\ Changed = {} /\ (unflushed' \/ ~unflushed)
      \/ log' = Append(log, e) /\ disk' = disk /\ (unflushed' \/ ~unflushed)
         /\ Changed # {}
  <2>1. CASE UNCHANGED crashVars BY <2>1 DEF crashVars, vars, Changed
  <2>2. CASE Record BY <2>2 DEF Record
  <2> QED BY <2>1, <2>2
<1>5. CleanInv'
  <2> SUFFICES ASSUME ~unflushed' PROVE log' = <<>> BY DEF CleanInv
  <2>1. Changed = {} BY <1>3 DEF Changed
  <2> QED BY <1>4, <2>1 DEF CleanInv
<1>6. ASSUME log' = Append(log, e), Changed # {}
      PROVE  /\ DOMAIN log' = DOMAIN log \cup {Len(log) + 1}
             /\ DOMAIN log \subseteq DOMAIN log'
             /\ \A k \in DOMAIN log : log'[k] = log[k]
             /\ DOMAIN log'[Len(log) + 1] = Changed
  <2>1. DOMAIN e = Changed OBVIOUS
  <2> HIDE DEF e
  <2>2. log \in Seq(Entries) BY DEF DiskInv
  <2>3. Len(log) \in Nat /\ DOMAIN log = 1..Len(log) BY <2>2
  <2>4. DOMAIN Append(log, e) = 1..(Len(log) + 1) BY <2>2
  <2>5. Append(log, e)[Len(log) + 1] = e /\ \A k \in 1..Len(log) : Append(log, e)[k] = log[k]
    BY <2>2
  <2> QED BY <1>6, <2>1, <2>3, <2>4, <2>5
<1> HIDE DEF e
<1>7. SameInv'
  <2> SUFFICES ASSUME NEW n \in Names, \A k \in DOMAIN log' : n \notin DOMAIN log'[k]
               PROVE  disk'[n] = dir'[n]
    BY DEF SameInv
  <2>1. CASE log' = log /\ disk' = disk /\ Changed = {} BY <2>1 DEF SameInv, Changed
  <2>2. CASE log' = Append(log, e) /\ disk' = disk /\ Changed # {}
    <3>1. n \notin Changed /\ \A k \in DOMAIN log : n \notin DOMAIN log[k]
      BY <1>6, <2>2
    <3> QED BY <2>2, <3>1 DEF SameInv, Changed
  <2> QED BY <1>4, <2>1, <2>2
<1>8. OweInv'
  <2> SUFFICES ASSUME Live', Owed' PROVE Excused' BY DEF OweInv
  <2>1. Live BY <1>1, LiveBefore
  <2>2. log' # <<>> BY DEF Owed
  <2>3. unflushed' BY <1>5, <2>2 DEF CleanInv
  <2>4. CASE Owed
    <3>1. Excused BY <2>1, <2>4 DEF OweInv
    <3> QED BY <1>1, <2>3, <3>1, ExcusedKept
  <2>5. CASE ~Owed
    <3>1. log' = Append(log, e) /\ Changed # {} BY <1>4, <2>2, <2>5 DEF Owed
    <3>2. PICK t \in Targets : t \in Changed BY <1>6, <2>5, <3>1 DEF Owed
    <3>3. dir'[t] # dir[t] BY <3>2 DEF Changed
    <3>4. CASE ctl'.pc \in CallPc /\ ctl'.loop \in {"build", "name"}
      BY <3>4 DEF Excused
    <3>5. CASE Cur \in Batch /\ Marred(Cur) /\ ~report_one
      <4>1. Batch' = Batch BY <1>1, <3>5, FirstKept
      <4>2. PICK i \in Batch : Marred(i) BY <3>5
      <4>3. i \in Ops BY Slots0 DEF FlowInv
      <4>4. Marred(i)' BY <1>1, <4>2, <4>3, MarredKept
      <4> QED BY <4>1, <4>4 DEF Excused
    <3> QED BY <1>1, <1>2, <3>3, <3>4, <3>5, TargetChange
  <2> QED BY <2>4, <2>5
<1> QED BY <1>5, <1>7, <1>8

(* The program does not learn what is on the disk.                         *)
LEMMA CrashRuns == CrashSpec => Spec
<1>1. [Next /\ Record]_crashVars => [Next]_vars BY DEF crashVars
<1> QED BY <1>1, PTL DEF CrashSpec, Spec

(* All of it holds all along.                                              *)
OutInv == QueueInv /\ CleanInv /\ SameInv /\ OweInv

LEMMA OutAlways ==
    ASSUME MaxOther = 0, \A k \in Kernels : k.dirsync
    PROVE  CrashSpec => []OutInv
<1>1. Init /\ disk = dir /\ log = <<>> => OutInv
  <2> SUFFICES ASSUME Init, disk = dir, log = <<>> PROVE OutInv OBVIOUS
  <2>1. DOMAIN log = {} OBVIOUS
  <2>2. ~mem.queued BY DEF Init
  <2> QED BY <2>1, <2>2 DEF OutInv, QueueInv, CleanInv, SameInv, OweInv, Owed
<1>2. CrashInv /\ OutInv /\ [Next /\ Record]_crashVars /\ CrashInv' => OutInv'
  <2> SUFFICES ASSUME CrashInv, OutInv, [Next /\ Record]_crashVars, CrashInv'
               PROVE  OutInv'
    OBVIOUS
  <2>1. /\ FlowInv /\ OpsInv /\ HistInv /\ HistInv' /\ DiskInv
        /\ QueueInv /\ CleanInv /\ SameInv /\ OweInv
    BY DEF CrashInv, SafeInv, OutInv
  <2>2. kern.dirsync BY <2>1 DEF FlowInv
  <2>3. QueueInv' BY <2>1, <2>2, QueueStep DEF crashVars
  <2> QED BY <2>1, <2>2, <2>3, OweStep DEF OutInv
<1> QED BY <1>1, <1>2, CrashAlways, PTL DEF CrashSpec

(* Where nobody else changes the directory and it can be flushed, exit     *)
(* status 0 means that every path holds the file of its last operand after *)
(* a power loss at any later moment, whichever of the changes still        *)
(* outstanding are on the disk: a path that changed is remembered by       *)
(* flush_set_add() until flush_set_run() has flushed it, or its operand    *)
(* has failed, or the failure to flush it is counted.                      *)
THEOREM DurableTheorem ==
    ASSUME MaxOther = 0, \A k \in Kernels : k.dirsync
    PROVE  CrashSpec => []ExitDurable
<1>1. CrashInv /\ OutInv /\ StatusInv /\ ExitZero => ExitDurable
  <2> SUFFICES ASSUME CrashInv, OutInv, StatusInv, ExitZero, ExitOK,
                      NEW s \in Reached, NEW i \in Ops
               PROVE  Image(s)[Operand[i]] = New(Last(Operand[i]))
    BY DEF ExitDurable
  <2>1. /\ FlowInv /\ OpsInv /\ HistInv /\ RefInv /\ OkInv
        /\ QueueInv /\ SameInv /\ OweInv
    BY DEF CrashInv, SafeInv, StatusInv, OutInv
  <2>2. Live /\ ctl.pc = "exit" /\ ctl.loop = "drop" /\ Batch \subseteq Ops
        /\ \A j \in Ops : ~Marred(j)
    BY <2>1, GoodExit, Slots0 DEF ExitOK, FlowInv, CtlInv, LoopOf
  <2>3. ~mem.queued BY <2>1, <2>2 DEF QueueInv
  <2>4. ~Excused BY <2>2, <2>3 DEF Excused, ExitOK
  <2>5. ~Owed BY <2>1, <2>2, <2>4 DEF OweInv
  <2> DEFINE t == Operand[i]
  <2>6. t \in Targets /\ t \in Names BY WorldAssumption, Names0
  <2>7. \A k \in DOMAIN log : t \notin DOMAIN log[k] BY <2>5, <2>6 DEF Owed
  <2>8. disk[t] = dir[t] BY <2>1, <2>6, <2>7 DEF SameInv
  <2>9. hist.other = 0 BY <2>1 DEF HistInv, HistTypes
  <2>10. dir[t] = New(Last(t)) BY <2>9 DEF ExitZero
  <2>11. Image(s)[t] = disk[t]
    <3>1. s \subseteq DOMAIN log BY DEF Reached
    <3>2. {k \in s : t \in DOMAIN log[k]} = {} BY <2>7, <3>1
    <3> QED BY <2>6, <3>2 DEF Image
  <2> QED BY <2>8, <2>10, <2>11
<1> QED BY <1>1, CrashAlways, OutAlways, CrashRuns, StatusAlways, ExitZeroTheorem, PTL

-----------------------------------------------------------------------------
(* The old file on the disk.  No change of name n is outstanding.          *)
Untouched(n) == \A k \in DOMAIN log : n \notin DOMAIN log[k]

(* The path has it, a backup that the program is not going to remove has   *)
(* it, or the path and a temporary name have exchanged their files.        *)
AtPath(t, x) == disk[t] = x /\ Untouched(t)

Lasting(m) == Unguarded(m) \/ ctl.pc \in {"renamed", "exchanged"}

OnBackup(x) == \E t \in Targets : \E m \in Backups(t) :
    disk[m] = x /\ Untouched(m) /\ Lasting(m)

(* A temporary name that no slot guards, and one that is guarded only      *)
(* until the directory is flushed.                                         *)
Loose(n) == \A s \in Slots : ~(Armed(s) /\ pending[s].path = n)

Awaits(n) == \/ mem.queued \/ mem.dirfailed \/ Loose(n)
             \/ ctl.pc \in {"exchanged", "named"} /\ mem.spareHeld

(* Change k is the first of t and the last of n, and puts x at n.          *)
SwapAt(k, t, n, x) ==
    /\ t \in DOMAIN log[k] /\ n \in DOMAIN log[k] /\ log[k][n] = x
    /\ \A j \in DOMAIN log : j < k => t \notin DOMAIN log[j]
    /\ \A j \in DOMAIN log : j > k => n \notin DOMAIN log[j]

InSwap(t, x) ==
    /\ disk[t] = x /\ dir[t] # x
    /\ Saved(x) \/ (ctl.pc = "exchanged" /\ mem.old = x)
    /\ \E k \in DOMAIN log : \E n \in Temps : SwapAt(k, t, n, x) /\ dir[n] = x /\ Awaits(n)

OnDisk(t, x) == AtPath(t, x) \/ OnBackup(x) \/ InSwap(t, x)

OnDiskInv == spec.backup # "no" => \A t \in Targets :
    start[t] \in Foreign \ hist.forgone => OnDisk(t, start[t])

(* What backup_make() saw is still there if nobody else is at work, and so *)
(* is the alias of it.                                                     *)
OldSame   == AtOld => dir[Path] = mem.old
AliasSame == AtAlias => dir[fr.path] = mem.old

(* The directory is flushed before a rename replaces a file.               *)
RenameClean == spec.backup # "no" /\ ctl.pc = "rename" /\ dir[Path] # None => ~unflushed

(* drop_spares() removes nothing after a flush that failed.                *)
DropInv == ctl.pc \in RemovePc /\ fr.then = "dropped" => ~mem.dirfailed

(* Only a change of a name leaves the directory to be flushed.             *)
LEMMA OnlyDirMarks == [Next]_vars /\ ~unflushed /\ dir' = dir => ~unflushed'
<1> SUFFICES ASSUME [Next]_vars, ~unflushed, dir' = dir PROVE ~unflushed' OBVIOUS
<1>1. ASSUME NEW d, SetDir(d) PROVE ~unflushed' BY <1>1 DEF SetDir
<1>2. Flushed => ~unflushed' BY DEF Flushed
<1>3. unflushed' = unflushed => ~unflushed' OBVIOUS
<1> HIDE DEF SetDir, Flushed
<1>4. Signal \/ UNCHANGED vars => ~unflushed' BY DEF Signal, vars
<1>5. PendingStep \/ OtherStep => ~unflushed'
  BY <1>1 DEF PendingStep, RemoveLstat, RemoveUnlink, SignalTaken, HandlerStep,
         OtherStep, OtherPut, OtherUnlink
<1>6. PlaceStep => ~unflushed'
  BY <1>1 DEF PlaceStep, Arm, UndoOpen, ProbeDone, CommitRename, CommitClear, CommitLink,
         CommitOver, OverRename, OverFailed, ReplaceRename, Renamed, ExchangeNames,
         Exchanged, Made
<1>7. BackupStep => ~unflushed'
  BY <1>1 DEF BackupStep, backup_none, backup_make, backup_next, backup_numbered,
         OutOfNumbers, backup_note, backup_simple, place_temp_alias, OverBackup,
         backup_link, NoLink, temp_make, NoTemp, Made
<1>8. BatchStep => ~unflushed'
  BY <1>1, <1>2 DEF BatchStep, batch_run, build_one, FinishPrivate, fill_one, FinishOwner,
         FinishMode, place_probe_mode, open_built, FinishLink, op_fail,
         OpFailed, FlushClose, close_op, NameBatch, NameForce, NameUnnamed, NameTemp,
         NamePlain, FlushBackup, SettleClose, SettleOne, Tidied, flush_set_run, Dropped,
         DropRelease, flush_batch, settle_batch, flush_set_add, drop_spares, report_one,
         temp_make, NoTemp, Made
<1> QED BY <1>4, <1>5, <1>6, <1>7, <1>8 DEF Next, Program, Ended

(* Every step keeps RenameClean.                                           *)
LEMMA RenameCleanStep ==
    ASSUME FlowInv, HistInv, [Next]_vars, OurStep, FlowInv', kern.dirsync, RenameClean
    PROVE  RenameClean'
<1> SUFFICES ASSUME spec'.backup # "no", ctl'.pc = "rename", dir'[Path'] # None
             PROVE  ~unflushed'
  BY DEF RenameClean
<1>1. Live' /\ spec' = spec BY StartKept DEF FlowInv, HeldInv
<1>2. ctl'.cur = ctl.cur /\ Path' = Path BY <1>1, RenameFrom DEF Path
<1>3. CASE UNCHANGED <<ctl, fr, op, pending, mem, file>> /\ (dir' = dir \/ OtherStep)
  <2>1. dir' = dir BY <1>3, OtherCounts DEF OurStep
  <2> QED BY <1>1, <1>2, <1>3, <2>1, OnlyDirMarks DEF RenameClean
<1>4. CASE backup_none BY <1>1, <1>2, <1>4 DEF backup_none, Free
<1>5. CASE FlushBackup
  <2>1. ~pending_remove(BackupSlot, FALSE, "fail")
    <3>1. pending_remove(BackupSlot, FALSE, "fail") => Goto("lstat") \/ Goto("fail")
      BY DEF pending_remove
    <3>2. ASSUME NEW p \in CallPc \ {"rename"}, Goto(p) PROVE FALSE BY <3>2, CallStep
    <3> QED BY <3>1, <3>2
  <2> QED BY <1>5, <2>1 DEF FlushBackup, Flushed
<1> QED BY <1>1, <1>3, <1>4, <1>5, RenameFrom

(* Every step keeps OldSame.                                               *)
LEMMA OldSameStep ==
    ASSUME FlowInv, OpsInv, HistInv, [Next]_vars, OurStep, FlowInv', OldSame
    PROVE  OldSame'
<1> SUFFICES ASSUME AtOld' PROVE dir'[Path'] = mem'.old BY DEF OldSame
<1>1. ctl'.cur = ctl.cur /\ Path' = Path BY OldFrom DEF Path
<1>2. CASE dir' = dir /\ mem'.old = dir[Path] BY <1>1, <1>2
<1>3. CASE AtOld /\ mem'.old = mem.old
  BY <1>1, <1>3, OldPath DEF OldSame
<1> QED BY <1>2, <1>3, OldFrom

(* Every step keeps AliasSame.                                             *)
LEMMA AliasSameStep ==
    ASSUME FlowInv, OpsInv, HistInv, [Next]_vars, OurStep, FlowInv', OldSame, AliasSame
    PROVE  AliasSame'
<1> SUFFICES ASSUME AtAlias' PROVE dir'[fr'.path] = mem'.old BY DEF AliasSame
<1>1. AtOld' BY DEF AtAlias, AtOld
<1>2. CASE AtAlias /\ fr' = fr /\ (dir' = dir \/ OtherStep)
  <2>1. mem'.old = mem.old BY <1>1, <1>2, OldFrom DEF AtAlias
  <2>2. dir' = dir BY <1>2, OtherCounts DEF OurStep
  <2> QED BY <1>2, <2>1, <2>2 DEF AliasSame
<1>3. CASE Aliased
  <2>1. ctl.pc = "alias" BY <1>3 DEF Aliased, place_temp_alias
  <2>2. AtOld /\ mem'.old = mem.old BY <1>1, <2>1, OldFrom
  <2>3. dir'[fr'.path] = dir[Path]
    BY <1>3, Names0 DEF Aliased, OpsInv, TypesInv
  <2> QED BY <2>2, <2>3 DEF OldSame
<1> QED BY <1>2, <1>3, AliasFrom

(* Every step keeps DropInv.                                               *)
LEMMA DropInvStep ==
    ASSUME FlowInv, [Next]_vars, FlowInv', DropInv
    PROVE  DropInv'
<1> SUFFICES ASSUME ctl'.pc \in RemovePc, fr'.then = "dropped" PROVE ~mem'.dirfailed
  BY DEF DropInv
<1>1. Live' /\ Live
  <2>1. Live' BY DEF FlowInv, CallFrame
  <2> QED BY <2>1, LiveBefore
<1>2. ctl'.loop = "drop" BY <1>1 DEF FlowInv, CallFrame, FrRemove
<1>3. ASSUME NEW p \in (Pcs \cup {"next"}) \ RemovePc, Goto(p) PROVE FALSE
  <2>1. p = "next" => Moves(ctl, ctl') BY <1>3, GotoStep DEF FlowInv
  <2>2. Moves(ctl, ctl') => ctl'.pc \notin RemovePc
    BY DEF Moves, Entry, After, FlowInv, CtlInv, CtlType
  <2>3. p # "next" => ctl'.pc = p BY <1>3, GotoStep DEF FlowInv
  <2> QED BY <2>1, <2>2, <2>3
<1>4. ctl' = ctl \/ Turns
  <2>1. ASSUME NEW l \in DOMAIN Entry, NEW b \in SUBSET Batch, Entered(l, b) PROVE FALSE
    BY <2>1 DEF Entered, Entry, After
  <2>2. ~Begins BY <2>1 DEF Begins, Entry
  <2>3. ~DropRelease BY <1>3 DEF DropRelease
  <2>4. report_one => ctl'.pc \in {"batch", "exit"}
    BY DEF report_one, FlowInv, CtlInv, CtlType
  <2> QED BY <1>1, <2>2, <2>3, <2>4, CtlForms DEF Handles
<1>5. ctl.pc \in {"drop", "dropped"} \cup RemovePc
  <2>1. ctl.loop = "drop" /\ ctl.pc \in CallPc BY <1>2, <1>4 DEF Turns
  <2> QED BY <2>1 DEF FlowInv, CtlInv, CallFrame, FrMade
<1>6. CASE drop_spares
  <2>1. ~Goto("dropped") BY <1>3
  <2> QED BY <1>6, <2>1 DEF drop_spares
<1>7. CASE RemoveLstat \/ RemoveUnlink \/ UNCHANGED <<ctl, fr, mem>>
  <2>1. ctl.pc \in RemovePc /\ UNCHANGED <<fr, mem>>
    BY <1>7 DEF RemoveLstat, RemoveUnlink
  <2> QED BY <2>1 DEF DropInv
<1>8. ~Dropped BY <1>3 DEF Dropped
<1>9. ~SignalTaken /\ ~HandlerStep
  BY <1>1 DEF SignalTaken, HandlerStep, FlowInv, HeldInv, Live
<1>10. OtherStep \/ Signal \/ UNCHANGED vars => UNCHANGED <<ctl, fr, mem>>
  BY DEF OtherStep, OtherPut, OtherUnlink, Signal, vars
<1>11. ~PlaceStep /\ ~BackupStep
  BY <1>5
  DEF PlaceStep, Arm, UndoOpen, ProbeDone, CommitRename, CommitClear, CommitLink,
      CommitOver, OverRename, OverFailed, ReplaceRename, Renamed, ExchangeNames,
      Exchanged, BackupStep, backup_none, backup_make, backup_next, backup_numbered,
      OutOfNumbers, backup_note, backup_simple, place_temp_alias, OverBackup
<1>12. BatchStep => drop_spares \/ Dropped
  BY <1>5
  DEF BatchStep, batch_run, build_one, place_probe_mode, open_built, FinishPrivate,
      FinishLink, fill_one, FinishOwner, FinishMode, FlushClose, close_op, NameBatch,
      NameForce, NameUnnamed, NameTemp, NamePlain, FlushBackup, flush_set_add,
      SettleOne, SettleClose, Tidied, op_fail, OpFailed, flush_batch, settle_batch,
      flush_set_run, DropRelease, report_one
<1> QED BY <1>6, <1>7, <1>8, <1>9, <1>10, <1>11, <1>12 DEF Next, Program, Ended, PendingStep

(* How a step changes what is on the disk and what is outstanding.         *)
LEMMA LogForms ==
    ASSUME DiskInv, CleanInv, [Next /\ Record]_crashVars
    PROVE  \/ log' = <<>> /\ disk' = dir' /\ ~unflushed'
           \/ /\ unflushed' \/ log = <<>>
              /\ disk' = disk /\ DOMAIN log \subseteq DOMAIN log'
              /\ DOMAIN log \subseteq Nat /\ DOMAIN log' \subseteq Nat
              /\ \A k \in DOMAIN log : log'[k] = log[k]
              /\ \A k \in DOMAIN log' \ DOMAIN log :
                   /\ \A j \in DOMAIN log : j < k
                   /\ DOMAIN log'[k] = Changed
                   /\ \A n \in Changed : log'[k][n] = dir'[n]
              /\ Changed # {} => \E k \in DOMAIN log' : k \notin DOMAIN log
              /\ \A j, k \in DOMAIN log' \ DOMAIN log : j = k
<1>1. [Next]_vars BY DEF crashVars
<1> DEFINE e == [n \in Changed |-> dir'[n]]
<1>2. \/ log' = <<>> /\ disk' = dir' /\ ~unflushed'
      \/ log' = log /\ disk' = disk /\ Changed = {} /\ (unflushed' \/ ~unflushed)
      \/ log' = Append(log, e) /\ disk' = disk /\ Changed # {}
  <2>1. CASE UNCHANGED crashVars BY <2>1 DEF crashVars, vars, Changed
  <2>2. CASE Record BY <2>2 DEF Record
  <2> QED BY <2>1, <2>2
<1>3. Len(log) \in Nat /\ DOMAIN log = 1..Len(log) /\ log \in Seq(Entries) BY DEF DiskInv
<1>4. CASE log' = log /\ disk' = disk /\ Changed = {} /\ (unflushed' \/ ~unflushed)
  <2>1. unflushed' \/ log = <<>> BY <1>4 DEF CleanInv
  <2> QED BY <1>3, <1>4, <2>1
<1>5. CASE log' = Append(log, e) /\ disk' = disk /\ Changed # {}
  <2>1. DOMAIN e = Changed /\ \A n \in Changed : e[n] = dir'[n] OBVIOUS
  <2>2. unflushed' BY <1>1, <1>5, DirMarks DEF Changed
  <2> HIDE DEF e
  <2>3. /\ DOMAIN log' = 1..(Len(log) + 1) /\ log'[Len(log) + 1] = e
        /\ \A k \in 1..Len(log) : log'[k] = log[k]
    BY <1>3, <1>5
  <2>4. \A k \in DOMAIN log' : k \notin DOMAIN log => k = Len(log) + 1 BY <1>3, <2>3
  <2> QED BY <1>3, <1>5, <2>1, <2>2, <2>3, <2>4
<1> QED BY <1>2, <1>4, <1>5

(* A name that does not change is on the disk as it was.                   *)
LEMMA UntouchedKept ==
    ASSUME DiskInv, CleanInv, SameInv, [Next /\ Record]_crashVars, NEW n \in Names,
           Untouched(n), dir'[n] = dir[n]
    PROVE  Untouched(n)' /\ disk'[n] = dir[n]
<1>1. disk[n] = dir[n] BY DEF SameInv, Untouched
<1>2. n \notin Changed BY DEF Changed
<1>3. CASE log' = <<>> /\ disk' = dir' BY <1>3 DEF Untouched
<1>4. CASE log' # <<>> \/ disk' # dir'
  <2>1. /\ disk' = disk /\ \A k \in DOMAIN log : log'[k] = log[k]
        /\ \A k \in DOMAIN log' \ DOMAIN log : DOMAIN log'[k] = Changed
    BY <1>4, LogForms
  <2> QED BY <1>1, <1>2, <2>1 DEF Untouched
<1> QED BY <1>3, <1>4

(* A backup that stays keeps the old file on the disk.                     *)
LEMMA OnBackupKept ==
    ASSUME FlowInv, OpsInv, HistInv, HeldAt, SlotTemps, spec.force, DiskInv, CleanInv,
           SameInv, [Next /\ Record]_crashVars, OurStep, FlowInv', OpsInv',
           NEW x \in Inodes, x \notin hist'.forgone, OnBackup(x)
    PROVE  OnBackup(x)'
<1>1. [Next]_vars BY DEF crashVars
<1>2. PICK t \in Targets : \E m \in Backups(t) : disk[m] = x /\ Untouched(m) /\ Lasting(m)
  BY DEF OnBackup
<1>3. PICK m \in Backups(t) : disk[m] = x /\ Untouched(m) /\ Lasting(m) BY <1>2
<1>4. m \in Names /\ m \notin Temps /\ x # None BY Names0, Inodes0
<1>5. dir[m] = x BY <1>3, <1>4 DEF SameInv, Untouched
<1>6. SUFFICES dir'[m] = x /\ Lasting(m)'
  <2>1. Untouched(m)' /\ disk'[m] = x BY <1>3, <1>4, <1>5, <1>6, UntouchedKept
  <2> QED BY <1>6, <2>1 DEF OnBackup
<1>7. CASE ctl.pc \in {"renamed", "exchanged"}
  <2>1. Live' BY <1>1, <1>7, PlacedLive
  <2>2. CASE UNCHANGED <<ctl, fr, op, pending, mem, file>> /\ (dir' = dir \/ OtherStep)
    <3>1. dir' = dir BY <2>2, OtherCounts DEF OurStep
    <3> QED BY <1>5, <1>7, <2>2, <3>1 DEF Lasting
  <2>3. CASE ctl'.pc = "named" /\ (CommitClear \/ Renamed \/ Exchanged)
    <3>1. dir' = dir BY <2>3 DEF CommitClear, Renamed, Exchanged
    <3>2. CallInv(Cur)' BY <2>1 DEF OpsInv
    <3>3. ~Armed(BackupSlot)' BY <2>3, <3>2 DEF CallInv, Bared, BackupPc
    <3>4. Unguarded(m)' BY <2>3, <3>3 DEF Unguarded, Armed
    <3> QED BY <1>5, <3>1, <3>4 DEF Lasting
  <2> QED BY <1>1, <1>7, <2>1, <2>2, <2>3, PlacedActions DEF PlacedPc
<1>8. CASE Unguarded(m)
  <2>1. ~(Takes /\ fr.path = m)
    <3> SUFFICES ASSUME Takes, fr.path = m PROVE FALSE OBVIOUS
    <3>1. ctl.pc = "unlink" BY DEF Takes, RemoveUnlink
    <3>2. fr.slot \in Slots /\ Armed(fr.slot) /\ pending[fr.slot].path = m
      BY <3>1, RemoveSlot DEF Guards
    <3>3. fr.slot = BackupSlot BY <1>4, <3>2 DEF SlotTemps
    <3> QED BY <1>8, <3>2, <3>3 DEF Unguarded
  <2>2. dir'[m] = x BY <1>1, <1>4, <1>5, <2>1, BackupStays
  <2>3. Unguarded(m)' BY <1>1, <1>4, <1>5, <1>8, UnguardedKept
  <2> QED BY <2>2, <2>3 DEF Lasting
<1> QED BY <1>3, <1>7, <1>8 DEF Lasting

(* The file backed up now is not one that has left its path.               *)
LEMMA LeftBefore ==
    ASSUME FlowInv, HomeInv, OldSame, AtOld, MaxOther = 0, NEW t \in Targets,
           dir[t] # Old(t)
    PROVE  mem.old # Old(t)
<1>1. Path \in Targets BY Names0 DEF FlowInv, CtlInv, CtlType, Path
<1>2. Others = {} BY DEF Others
<1>3. Old(t) \in Foreign BY Names0 DEF Foreign
<1>4. Old(t) # None /\ Old(t) \notin Ours BY <1>3, Inodes0
<1>5. Old(Path) = Old(t) => Path = t BY DEF Old
<1> QED BY <1>1, <1>2, <1>4, <1>5 DEF HomeInv, OldSame

(* The name an old file was exchanged to keeps it until the directory is   *)
(* flushed.                                                                *)
LEMMA SwapStays ==
    ASSUME FlowInv, OpsInv, HistInv, SpareKept, BackupKept, HomeInv, OldSame, AliasSame,
           DropInv, QueueInv, MaxOther = 0, spec.force, [Next]_vars, OurStep,
           NEW t \in Targets, NEW x, x = Old(t), x \notin hist.forgone, dir[t] # x,
           NEW n \in Temps, dir[n] = x, Awaits(n)
    PROVE  dir'[n] = x
<1> SUFFICES ASSUME dir'[n] # x PROVE FALSE OBVIOUS
<1>1. dir \in [Names -> Inodes \cup {None}] /\ n \in Names BY Names0 DEF OpsInv, TypesInv
<1>2. x \in Foreign BY Names0 DEF Foreign
<1>3. x \in Inodes /\ x # None /\ x \notin Ours BY <1>2, Inodes0
<1>4. ~OtherStep BY OtherCounts DEF OurStep
<1>5. ASSUME Takes PROVE FALSE
  <2>1. fr.path = n /\ ctl.pc = "unlink" BY <1>1, <1>5 DEF Takes, RemoveUnlink
  <2>2. fr.ino = x BY <2>1 DEF OpsInv, RemoveFrame
  <2>3. PICK s \in Slots : s = fr.slot /\ Armed(s) /\ Guards(s, n, x)
    BY <2>1, <2>2, RemoveSlot
  <2>4. pending[s].path = n /\ pending[s].ino = x BY <2>3 DEF Guards
  <2>5. s # BackupSlot
    <3> SUFFICES ASSUME s = BackupSlot PROVE FALSE OBVIOUS
    <3>1. dir[Path] = x BY <1>2, <2>1, <2>3, <2>4 DEF BackupKept
    <3>2. Path \in Targets BY Names0 DEF FlowInv, CtlInv, CtlType, Path
    <3>3. x # Old(Path) BY <3>1 DEF Old
    <3>4. Others = {} BY DEF Others
    <3> QED BY <1>3, <3>1, <3>2, <3>3, <3>4 DEF HomeInv
  <2>6. mem.spareHeld BY <1>2, <2>3, <2>4, <2>5 DEF SpareKept
  <2>7. Live BY <2>6 DEF FlowInv, HeldInv
  <2>8. RemoveInv(Cur) /\ FrRemove /\ Cur \in Ops BY <2>1, <2>7, InRemove
  <2>9. fr.then = "dropped"
    BY <1>3, <2>2, <2>3, <2>5, <2>8, Inodes0 DEF RemoveInv, FrRemove
  <2>10. ctl.loop = "drop" /\ ~mem.dirfailed BY <2>1, <2>8, <2>9 DEF FrRemove, DropInv
  <2>11. ~mem.queued BY <2>10 DEF QueueInv
  <2>12. ~Loose(n) BY <2>3, <2>4 DEF Loose
  <2> QED BY <2>1, <2>10, <2>11, <2>12 DEF Awaits
<1>6. ASSUME Undoes PROVE FALSE
  <2>1. fr.path = n /\ ctl.pc = "made" /\ fr.flag BY <1>1, <1>6 DEF Undoes
  <2>2. MadeInv(Cur) /\ FrMade /\ Cur \in Ops /\ Path \in Targets
    BY <2>1, InHand DEF FlowInv, CallFrame, CallInv
  <2> QED BY <1>3, <2>1, <2>2, Names0, Inodes0 DEF MadeInv, FrMade
<1>7. ASSUME Shifts \/ Swaps PROVE FALSE
  <2>1. ctl.pc \in CallPc \ RemovePc /\ Ready(Cur) BY <1>7 DEF Shifts, Swaps
  <2>2. /\ op[Cur].tmp \in Temps /\ dir[op[Cur].tmp] = New(Cur) /\ Cur \in Ops
        /\ Path \in Targets
    BY <2>1, ReadyPath, InHand
  <2>3. n # op[Cur].tmp /\ n # Path BY <1>3, <2>2, Inodes0, Names0
  <2> QED BY <1>1, <1>7, <2>2, <2>3, Names0 DEF Shifts, Swaps
<1>8. ASSUME Rebacks PROVE FALSE
  <2>1. ctl.pc = "overbackup" BY <1>8 DEF Rebacks
  <2>2. Live /\ Path \in Targets BY <2>1, InHand
  <2>3. n # Simple(Path) BY <2>2, Names0 DEF Backups
  <2>4. n = fr.path BY <1>1, <1>8, <2>3 DEF Rebacks
  <2>5. AtOld /\ AtAlias BY <2>1, <2>2 DEF AtOld, AtAlias
  <2> QED BY <2>4, <2>5, LeftBefore DEF AliasSame
<1>9. ASSUME NEW m, NEW y, Makes(m, y) PROVE FALSE
  <2>1. n = m BY <1>1, <1>9 DEF Makes
  <2> QED BY <1>3, <1>9, <2>1 DEF Makes, Free
<1> QED BY <1>4, <1>5, <1>6, <1>7, <1>8, <1>9, DirForms DEF Gives

(* A name that no slot guards is not guarded later while it has the file.  *)
LEMMA LooseKept ==
    ASSUME FlowInv, OpsInv, HomeInv, OldSame, AliasSame, MaxOther = 0, [Next]_vars,
           NEW t \in Targets, NEW x, x = Old(t), dir[t] # x,
           NEW n \in Temps, dir[n] = x, Loose(n)
    PROVE  Loose(n)'
<1> SUFFICES ASSUME NEW s \in Slots, Armed(s)', pending'[s].path = n PROVE FALSE
  BY DEF Loose, Armed
<1>1. pending'[s] # pending[s] BY DEF Loose, Armed
<1>2. CASE Arm /\ pending'[s] = [path |-> fr.path, ino |-> fr.ino]
  <2>1. fr.path = n /\ ctl.pc = "made" BY <1>2 DEF Arm
  <2>2. MadeInv(Cur) /\ Live /\ Cur \in Ops /\ Path \in Targets
    BY <2>1, InHand DEF CallInv
  <2>3. n # Path /\ n \notin Backups(Path) BY <2>2, Names0
  <2>4. x \in Foreign /\ x \notin Ours BY Names0, Inodes0 DEF Foreign
  <2>5. fr.what = "alias"
    BY <2>1, <2>2, <2>3, <2>4, Inodes0 DEF MadeInv
  <2>6. AtOld /\ AtAlias BY <2>1, <2>2, <2>5 DEF AtOld, AtAlias
  <2> QED BY <2>1, <2>6, LeftBefore DEF AliasSame
<1>3. CASE Exchanged /\ pending'[s].path = pending[s].path
  BY <1>3 DEF Loose, Armed
<1> QED BY <1>1, <1>2, <1>3, SlotForms

(* Signals are held from the first exchange of a batch to drop_spares().   *)
LEMMA SpareLive ==
    ASSUME FlowInv, [Next]_vars, mem.spareHeld
    PROVE  Live'
<1>1. Live /\ held > 0 BY DEF FlowInv, HeldInv
<1>2. ~SignalTaken BY <1>1 DEF SignalTaken
<1> QED BY <1>1, <1>2, HandlerStill

(* The program waits for the flush before it removes such a name.          *)
LEMMA AwaitsKept ==
    ASSUME FlowInv, OpsInv, HistInv, HomeInv, OldSame, AliasSame, MaxOther = 0,
           kern.dirsync, [Next]_vars, unflushed',
           NEW t \in Targets, NEW x, x = Old(t), dir[t] # x,
           NEW n \in Temps, dir[n] = x, Awaits(n)
    PROVE  Awaits(n)'
<1>1. CASE mem.queued BY <1>1, SetKept, SetCalls DEF Awaits
<1>2. CASE mem.dirfailed
  <2>1. CASE batch_run
    <3>1. ctl.pc = "batch" /\ pending' = pending BY <2>1 DEF batch_run
    <3>2. Live BY <3>1 DEF FlowInv, HeldInv
    <3>3. \A s \in Slots : ~Armed(s) BY <3>1, <3>2 DEF OpsInv, RestInv
    <3>4. Loose(n)' BY <3>1, <3>3 DEF Loose, Armed
    <3> QED BY <3>4 DEF Awaits
  <2>2. CASE ~batch_run BY <1>2, <2>2, SetKept, SetCalls DEF Awaits
  <2> QED BY <2>1, <2>2
<1>3. CASE Loose(n)
  <2>1. Loose(n)' BY <1>3, LooseKept
  <2> QED BY <2>1 DEF Awaits
<1>4. CASE ctl.pc \in {"exchanged", "named"} /\ mem.spareHeld
  <2>3. Live' BY <1>4, SpareLive
  <2>4. CASE UNCHANGED <<ctl, fr, op, pending, mem, file>> BY <1>4, <2>4 DEF Awaits
  <2>5. CASE ctl'.pc = "named"
    <3>1. ~DropRelease BY <1>4 DEF DropRelease
    <3> QED BY <1>4, <2>5, <3>1, SpareHeldKept DEF Awaits
  <2>6. CASE flush_set_add BY <2>6, SetCalls DEF Awaits
  <2> QED BY <1>4, <2>3, <2>4, <2>5, <2>6, PlacedActions DEF PlacedPc
<1> QED BY <1>1, <1>2, <1>3, <1>4 DEF Awaits

(* The old file of a path that is replaced stays on the disk: the backup   *)
(* is there before a rename, and an exchange leaves it the other name.     *)
LEMMA AtPathKept ==
    ASSUME FlowInv, OpsInv, HistInv, SlotsInv, RenameKept, OldSame, RenameClean, DiskInv,
           CleanInv, SameInv, MaxOther = 0, spec.force, spec.backup # "no",
           [Next /\ Record]_crashVars, OurStep, FlowInv',
           NEW t \in Targets, NEW x \in Foreign, x \notin hist'.forgone, AtPath(t, x)
    PROVE  OnDisk(t, x)'
<1>1. [Next]_vars BY DEF crashVars
<1>2. t \in Names /\ t \notin Temps BY Names0
<1>3. dir[t] = x BY <1>2 DEF AtPath, SameInv, Untouched
<1>4. x # None /\ x \in Inodes /\ x \notin Ours BY Inodes0
<1>5. dir \in [Names -> Inodes \cup {None}] BY DEF OpsInv, TypesInv
<1>6. CASE dir'[t] = dir[t]
  BY <1>2, <1>3, <1>6, UntouchedKept DEF AtPath, OnDisk
<1>7. ASSUME dir'[t] # dir[t], Shifts \/ Swaps
      PROVE  /\ t = Path /\ op[Cur].tmp \in Temps /\ op[Cur].tmp \in Names
             /\ dir[op[Cur].tmp] = New(Cur) /\ New(Cur) # x
  <2>1. ctl.pc \in CallPc \ RemovePc /\ Ready(Cur) BY <1>7 DEF Shifts, Swaps
  <2>2. op[Cur].tmp \in Temps /\ dir[op[Cur].tmp] = New(Cur) /\ Cur \in Ops
    BY <2>1, ReadyPath, InHand
  <2>3. t = Path BY <1>2, <1>5, <1>7, <2>2 DEF Shifts, Swaps
  <2> QED BY <1>4, <2>2, <2>3, Names0, Inodes0
<1>8. CASE dir'[t] # dir[t] /\ Shifts
  <2>1. ctl.pc = "rename" /\ ctl'.pc = "renamed" BY <1>8 DEF Shifts
  <2>2. t = Path /\ op[Cur].tmp \in Temps BY <1>7, <1>8
  <2>3. x \notin Others BY DEF Others
  <2>4. Copied(x) BY <1>3, <2>1, <2>2, <2>3 DEF RenameKept
  <2>5. x \notin hist.forgone BY <1>1, ForgoneGrows
  <2>6. PICK m \in Backups(t) : dir[m] = x BY <2>2, <2>4, <2>5 DEF Copied
  <2>7. m \in Names /\ m \notin Targets \cup Temps BY Names0
  <2>8. log = <<>> BY <1>3, <1>4, <2>1, <2>2 DEF RenameClean, CleanInv
  <2>9. Untouched(m) BY <2>8 DEF Untouched
  <2>10. dir'[m] = x BY <1>5, <1>8, <2>2, <2>6, <2>7 DEF Shifts
  <2>11. Untouched(m)' /\ disk'[m] = x BY <2>6, <2>7, <2>9, <2>10, UntouchedKept
  <2>12. Lasting(m)' BY <2>1 DEF Lasting
  <2> QED BY <2>11, <2>12 DEF OnBackup, OnDisk
<1>9. CASE dir'[t] # dir[t] /\ Swaps
  <2>1. PICK n \in Temps : n = op[Cur].tmp BY <1>7, <1>9
  <2>2. t = Path /\ dir[n] # x /\ n \in Names /\ n # t BY <1>2, <1>7, <1>9, <2>1
  <2>3. dir'[n] = x /\ dir'[t] # x
    BY <1>2, <1>3, <1>5, <1>7, <1>9, <2>1, <2>2 DEF Swaps
  <2>4. t \in Changed /\ n \in Changed BY <1>2, <1>3, <2>2, <2>3 DEF Changed
  <2>5. ctl.pc = "backed" /\ ctl'.pc = "exchanged" /\ mem'.old = mem.old
    BY <1>9 DEF Swaps
  <2>6. AtOld BY <2>5, InHand DEF AtOld
  <2>7. mem'.old = x BY <1>3, <2>2, <2>5, <2>6 DEF OldSame
  <2>8. Awaits(n)' BY <2>5 DEF Awaits, FlowInv, HeldInv
  <2>9. unflushed' BY <1>1, <1>9, DirMarks
  <2>10. /\ disk' = disk /\ DOMAIN log \subseteq DOMAIN log'
         /\ \A k \in DOMAIN log : log'[k] = log[k]
         /\ \A k \in DOMAIN log' \ DOMAIN log :
              /\ \A j \in DOMAIN log : j < k
              /\ DOMAIN log'[k] = Changed /\ \A m \in Changed : log'[k][m] = dir'[m]
         /\ \E k \in DOMAIN log' : k \notin DOMAIN log
         /\ \A j, k \in DOMAIN log' \ DOMAIN log : j = k
         /\ DOMAIN log \subseteq Nat /\ DOMAIN log' \subseteq Nat
    BY <2>4, <2>9, LogForms
  <2>11. PICK k \in DOMAIN log' : k \notin DOMAIN log BY <2>10
  <2>12. ASSUME NEW j \in DOMAIN log', j < k PROVE t \notin DOMAIN log'[j]
    <3>1. j # k BY <2>10, <2>12
    <3>2. j \in DOMAIN log BY <2>10, <2>11, <3>1
    <3> QED BY <2>10, <3>2 DEF AtPath, Untouched
  <2>13. ASSUME NEW j \in DOMAIN log', j > k PROVE FALSE
    <3>1. j \in DOMAIN log => j < k BY <2>10, <2>11
    <3>2. j # k /\ ~(j < k) BY <2>10, <2>13
    <3> QED BY <2>10, <2>11, <3>1, <3>2
  <2>14. SwapAt(k, t, n, x)'
    BY <2>3, <2>4, <2>10, <2>11, <2>12, <2>13 DEF SwapAt
  <2>15. disk'[t] = x BY <2>10 DEF AtPath
  <2> QED BY <2>3, <2>5, <2>7, <2>8, <2>11, <2>14, <2>15 DEF InSwap, OnDisk
<1> QED BY <1>1, <1>6, <1>8, <1>9, OtherCounts, PathMoves DEF OurStep

(* An exchange that is not flushed keeps the old file on the disk at one   *)
(* of the two names; once it is flushed the backup has it.                 *)
LEMMA InSwapKept ==
    ASSUME FlowInv, OpsInv, HistInv, SlotsInv, HeldAt, BackedKept, BackupKept, SpareKept,
           HomeInv, OldSame, AliasSame, DropInv, QueueInv, DiskInv, CleanInv, SameInv,
           MaxOther = 0, spec.force, kern.dirsync,
           [Next /\ Record]_crashVars, OurStep, FlowInv', OpsInv',
           NEW t \in Targets, NEW x, x = Old(t), x \notin hist'.forgone, InSwap(t, x)
    PROVE  OnDisk(t, x)'
<1>1. [Next]_vars BY DEF crashVars
<1>2. t \in Names /\ t \notin Temps /\ x \in Foreign BY Names0 DEF Foreign
<1>3. x \in Inodes /\ x # None /\ x \notin Ours BY <1>2, Inodes0
<1>4. x \notin hist.forgone BY <1>1, ForgoneGrows
<1>5. PICK k \in DOMAIN log : \E n \in Temps : SwapAt(k, t, n, x) /\ dir[n] = x /\ Awaits(n)
  BY DEF InSwap
<1>6. PICK n \in Temps : SwapAt(k, t, n, x) /\ dir[n] = x /\ Awaits(n) BY <1>5
<1>7. dir[t] # x /\ disk[t] = x BY DEF InSwap
<1>8. dir'[n] = x BY <1>1, <1>4, <1>6, <1>7, SwapStays
<1>9. dir'[t] # x
  <2>1. CASE dir'[t] = dir[t] BY <1>7, <2>1
  <2>2. CASE dir'[t] # dir[t]
    BY <1>1, <1>3, <2>2, OldOrNewStep, Inodes0
  <2> QED BY <2>1, <2>2
<1>10. SlotTemps BY DEF SpareKept, SlotTemps
<1>11. \/ Saved(x)'
       \/ ctl.pc = "exchanged" /\ mem.old = x /\ UNCHANGED <<ctl, mem, dir>>
  <2>1. CASE Saved(x) BY <1>1, <1>3, <1>10, <2>1, SavedKept
  <2>2. CASE ctl.pc = "exchanged" /\ mem.old = x
    <3>1. Live' BY <1>1, <2>2, PlacedLive
    <3>2. ~CommitClear /\ ~Renamed BY <2>2 DEF CommitClear, Renamed
    <3>3. CASE Exchanged
      BY <1>1, <1>2, <2>2, <3>3, ExchangedSaved DEF Saved
    <3>4. CASE UNCHANGED <<ctl, fr, op, pending, mem, file>> /\ (dir' = dir \/ OtherStep)
      BY <2>2, <3>4, OtherCounts DEF OurStep
    <3> QED BY <1>1, <2>2, <3>1, <3>2, <3>3, <3>4, PlacedActions DEF PlacedPc
  <2> QED BY <2>1, <2>2 DEF InSwap
<1>12. CASE log' = <<>> /\ disk' = dir'
  <2>1. PICK u \in Targets : \E m \in Backups(u) : dir'[m] = x /\ Lasting(m)'
    <3>1. CASE Saved(x)' BY <3>1 DEF Saved, Lasting
    <3>2. CASE ctl.pc = "exchanged" /\ mem.old = x /\ UNCHANGED <<ctl, mem, dir>>
      <4>1. Live /\ Path \in Targets BY <3>2, InHand
      <4>2. Copied(x) BY <1>2, <3>2, <4>1 DEF BackedKept, AtBacked
      <4> QED BY <1>4, <3>2, <4>1, <4>2 DEF Copied, Lasting
    <3> QED BY <1>11, <3>1, <3>2
  <2>2. PICK m \in Backups(u) : dir'[m] = x /\ Lasting(m)' BY <2>1
  <2>3. disk'[m] = x /\ Untouched(m)' BY <1>12, <2>2 DEF Untouched
  <2> QED BY <2>2, <2>3 DEF OnBackup, OnDisk
<1>13. CASE ~(log' = <<>> /\ disk' = dir')
  <2>1. /\ unflushed' \/ log = <<>>
        /\ disk' = disk /\ DOMAIN log \subseteq DOMAIN log'
        /\ DOMAIN log \subseteq Nat /\ DOMAIN log' \subseteq Nat
        /\ \A j \in DOMAIN log : log'[j] = log[j]
        /\ \A j \in DOMAIN log' \ DOMAIN log :
             (\A i \in DOMAIN log : i < j) /\ DOMAIN log'[j] = Changed
    BY <1>13, LogForms
  <2>2. unflushed' BY <2>1
  <2>3. Awaits(n)' BY <1>1, <1>6, <1>7, <2>2, AwaitsKept
  <2>4. n \notin Changed BY <1>6, <1>8 DEF Changed
  <2>5. ASSUME NEW j \in DOMAIN log', j < k PROVE t \notin DOMAIN log'[j]
    <3>1. j \in DOMAIN log
      <4>1. j \notin DOMAIN log => k < j BY <2>1
      <4> QED BY <2>1, <2>5, <4>1
    <3> QED BY <1>6, <2>1, <2>5, <3>1 DEF SwapAt
  <2>6. ASSUME NEW j \in DOMAIN log', j > k PROVE n \notin DOMAIN log'[j]
    BY <1>6, <2>1, <2>4, <2>6 DEF SwapAt
  <2>7. SwapAt(k, t, n, x)' BY <1>6, <2>1, <2>5, <2>6 DEF SwapAt
  <2>8. k \in DOMAIN log' /\ disk'[t] = x BY <1>7, <2>1
  <2> QED BY <1>8, <1>9, <1>11, <2>3, <2>7, <2>8 DEF InSwap, OnDisk
<1> QED BY <1>12, <1>13

(* After a power loss the old file has a name.                             *)
LEMMA ImageHolds ==
    ASSUME DiskInv, NEW s \in Reached, NEW t \in Targets, NEW x, OnDisk(t, x)
    PROVE  Holds(Image(s), x)
<1>1. s \subseteq DOMAIN log /\ t \in Names BY Names0 DEF Reached
<1>2. Len(log) \in Nat /\ DOMAIN log = 1..Len(log) BY DEF DiskInv
<1>3. ASSUME NEW n \in Names, {k \in s : n \in DOMAIN log[k]} = {}
      PROVE  Image(s)[n] = disk[n]
  BY <1>3 DEF Image
<1>4. ASSUME NEW n \in Names, Untouched(n) PROVE Image(s)[n] = disk[n]
  BY <1>1, <1>3, <1>4 DEF Untouched
<1>5. CASE AtPath(t, x) BY <1>1, <1>4, <1>5 DEF AtPath, Holds
<1>6. CASE OnBackup(x)
  <2>1. PICK u \in Targets : \E m \in Backups(u) : disk[m] = x /\ Untouched(m)
    BY <1>6 DEF OnBackup
  <2>2. PICK m \in Backups(u) : disk[m] = x /\ Untouched(m) BY <2>1
  <2> QED BY <1>4, <2>2, Names0 DEF Holds
<1>7. CASE InSwap(t, x)
  <2>1. PICK k \in DOMAIN log : \E n \in Temps : SwapAt(k, t, n, x) BY <1>7 DEF InSwap
  <2>2. PICK n \in Temps : SwapAt(k, t, n, x) BY <2>1
  <2>3. n \in Names BY Names0
  <2>4. CASE k \in s
    <3> DEFINE at == {j \in s : n \in DOMAIN log[j]}
               last == CHOOSE j \in at : \A m \in at : m <= j
    <3>1. k \in at BY <2>2, <2>4 DEF SwapAt
    <3>2. \A j \in at : j <= k BY <1>1, <1>2, <2>2 DEF SwapAt
    <3>3. Image(s)[n] = IF at = {} THEN disk[n] ELSE log[last][n] BY <2>3 DEF Image
    <3>4. at \in SUBSET (1..Len(log)) BY <1>1, <1>2
    <3> HIDE DEF at
    <3>5. last \in at /\ \A m \in at : m <= last BY <1>2, <3>1, <3>4, GreatestExists
    <3>6. last = k BY <1>2, <3>1, <3>2, <3>4, <3>5
    <3> QED BY <2>2, <2>3, <3>1, <3>3, <3>6 DEF SwapAt, Holds
  <2>5. CASE k \notin s
    <3>1. ASSUME NEW j \in s, t \in DOMAIN log[j] PROVE FALSE
      <4>1. j \in DOMAIN log /\ j # k /\ ~(j < k) BY <1>1, <2>2, <2>5, <3>1 DEF SwapAt
      <4>2. k < j BY <1>2, <4>1
      <4>3. t \in DOMAIN log[k] \cap DOMAIN log[j] BY <2>2, <3>1 DEF SwapAt
      <4> QED BY <2>5, <4>2, <4>3 DEF Reached
    <3>2. Image(s)[t] = disk[t] BY <1>1, <1>3, <3>1
    <3> QED BY <1>1, <1>7, <3>2 DEF InSwap, Holds
  <2> QED BY <2>4, <2>5
<1> QED BY <1>5, <1>6, <1>7 DEF OnDisk

(* Every step keeps the old files on the disk.                             *)
LEMMA OnDiskStep ==
    ASSUME FlowInv, OpsInv, HistInv, SlotsInv, HeldAt, KeepInv, HomeInv, StartInv,
           OldSame, AliasSame, RenameClean, DropInv, QueueInv, DiskInv, CleanInv, SameInv,
           OnDiskInv, MaxOther = 0, kern.dirsync, [Next /\ Record]_crashVars, OurStep,
           FlowInv', OpsInv'
    PROVE  OnDiskInv'
<1>1. [Next]_vars BY DEF crashVars
<1>2. spec' = spec /\ start' = start BY <1>1, StartKept
<1> SUFFICES ASSUME spec.backup # "no", NEW t \in Targets,
                    start[t] \in Foreign \ hist'.forgone
             PROVE  OnDisk(t, start[t])'
  BY <1>2 DEF OnDiskInv
<1>3. spec.force BY SpecAssumption DEF FlowInv
<1>4. /\ OldKept /\ AliasKept /\ BackedKept /\ RenameKept /\ BackupKept /\ SpareKept
      /\ SlotTemps
  BY DEF KeepInv, SpareKept, SlotTemps
<1>5. PICK x : x = start[t] OBVIOUS
<1>6. x = Old(t) /\ x \in Foreign /\ x \in Inodes /\ x \notin hist'.forgone
  BY <1>5, Names0, Inodes0 DEF StartInv
<1>7. x \notin hist.forgone BY <1>1, <1>6, ForgoneGrows
<1>8. OnDisk(t, x) BY <1>5, <1>6, <1>7 DEF OnDiskInv
<1>9. SUFFICES OnDisk(t, x)'
  BY <1>2, <1>5 DEF OnDisk, AtPath, OnBackup, InSwap, Saved, SwapAt
<1>10. CASE AtPath(t, x) BY <1>3, <1>4, <1>6, <1>10, AtPathKept
<1>11. CASE OnBackup(x)
  <2>1. OnBackup(x)' BY <1>3, <1>4, <1>6, <1>11, OnBackupKept
  <2> QED BY <2>1 DEF OnDisk
<1>12. CASE InSwap(t, x) BY <1>3, <1>4, <1>6, <1>12, InSwapKept
<1> QED BY <1>8, <1>10, <1>11, <1>12 DEF OnDisk

(* What the proof adds to the invariants of Newfile.                       *)
KeepsDisk == OldSame /\ AliasSame /\ RenameClean /\ DropInv /\ OnDiskInv

(* At first the disk has the old files at their paths.                     *)
LEMMA InitKeepsDisk == Init /\ disk = dir /\ log = <<>> => KeepsDisk
<1> SUFFICES ASSUME Init, disk = dir, log = <<>> PROVE KeepsDisk OBVIOUS
<1>1. ctl.pc = "batch" /\ dir = start BY DEF Init
<1>2. ~AtOld /\ ~AtAlias BY <1>1 DEF AtOld, AtAlias
<1>3. \A t \in Targets : AtPath(t, start[t]) BY <1>1 DEF AtPath, Untouched
<1> QED BY <1>1, <1>2, <1>3
        DEF KeepsDisk, OldSame, AliasSame, RenameClean, DropInv, OnDiskInv, OnDisk

(* With --backup, where nobody else changes the directory and it can be    *)
(* flushed, a power loss at any moment leaves every old file a name,       *)
(* whichever of the link, the rename or exchange and the removals are on   *)
(* the disk: replace_one() flushes the backup before a rename and leaves   *)
(* the old file its other name in an exchange, and drop_spares() removes   *)
(* that name only once flush_set_run() has flushed the backup.             *)
THEOREM CrashKeepsTheorem ==
    ASSUME MaxOther = 0, \A k \in Kernels : k.dirsync
    PROVE  CrashSpec => []CrashKeepsOld
<1> DEFINE Known == CrashInv /\ OutInv /\ LeaveInv /\ KeepInv /\ NumbersInv /\ PathsInv
<1>1. Known /\ KeepsDisk /\ Known' /\ [Next /\ Record]_crashVars => KeepsDisk'
  <2> SUFFICES ASSUME Known, KeepsDisk, Known', [Next /\ Record]_crashVars
               PROVE  KeepsDisk'
    OBVIOUS
  <2>1. [Next]_vars BY DEF crashVars
  <2>2. /\ FlowInv /\ OpsInv /\ HistInv /\ SlotsInv /\ HeldAt /\ HomeInv /\ StartInv
        /\ DiskInv /\ CleanInv /\ SameInv /\ QueueInv
    BY DEF CrashInv, OutInv, LeaveInv, BaseInv, SafeInv, SoleInv, HeldAt, NumbersInv,
           PathsInv
  <2>3. FlowInv' /\ OpsInv' /\ HistInv' BY DEF LeaveInv, BaseInv, SafeInv
  <2>4. kern.dirsync BY <2>2 DEF FlowInv
  <2>5. OurStep BY <2>2, <2>3, WorldAssumption DEF HistInv, HistTypes, OurStep
  <2>6. OldSame /\ AliasSame /\ RenameClean /\ DropInv /\ OnDiskInv BY DEF KeepsDisk
  <2>7. OldSame' BY <2>1, <2>2, <2>3, <2>5, <2>6, OldSameStep
  <2>8. AliasSame' BY <2>1, <2>2, <2>3, <2>5, <2>6, AliasSameStep
  <2>9. RenameClean' BY <2>1, <2>2, <2>3, <2>4, <2>5, <2>6, RenameCleanStep
  <2>10. DropInv' BY <2>1, <2>2, <2>3, <2>6, DropInvStep
  <2>11. OnDiskInv' BY <2>2, <2>3, <2>4, <2>5, <2>6, OnDiskStep
  <2> QED BY <2>7, <2>8, <2>9, <2>10, <2>11 DEF KeepsDisk
<1>2. CrashInv /\ KeepsDisk => CrashKeepsOld
  <2> SUFFICES ASSUME CrashInv, KeepsDisk, spec.backup # "no", NEW s \in Reached,
                      NEW t \in Targets, start[t] \in Foreign \ hist.forgone
               PROVE  Holds(Image(s), start[t])
    BY DEF CrashKeepsOld
  <2>1. DiskInv /\ OnDisk(t, start[t]) BY DEF CrashInv, KeepsDisk, OnDiskInv
  <2>2. PICK x : x = start[t] OBVIOUS
  <2>3. OnDisk(t, x) BY <2>1, <2>2
  <2> QED BY <2>1, <2>2, <2>3, ImageHolds
<1> QED BY <1>1, <1>2, InitKeepsDisk, CrashAlways, OutAlways, CrashRuns, LeaveAlways,
           KeepAlways, NumbersAlways, PathsAlways, PTL DEF CrashSpec

==============================================================================
