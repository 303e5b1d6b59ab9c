-------------------------------- MODULE World --------------------------------
(***************************************************************************)
(* What one run of newfile lives in: one directory with its names, the     *)
(* kernel's calls on them, the process's memory, and the other processes   *)
(* that use the directory.  The modules Pending, Place, Backup and Batch   *)
(* add the program, one source file each.                                  *)
(*                                                                         *)
(* A name is a model value or built from one; an inode is told apart by    *)
(* where it came from and is never used twice.                             *)
(***************************************************************************)
EXTENDS Digits, FiniteSets

CONSTANTS Targets,     \* the paths operands can name
          Temps,       \* names .newfile.XXXXXX; never fewer than a run needs
          Numbers,     \* bound: the strings of digits between .~ and ~ of a name
          NOps,        \* number of operands
          Operand,     \* the operands, [1..NOps -> Targets]; may repeat a path
          BatchSize,   \* NEWFILE_BATCH, or fewer when descriptors are scarce
          Kernels,     \* the systems to run on
          Specs,       \* the option sets to run with
          StartSets,   \* the sets of names taken when the run starts
          MaxFaults,   \* bound: system calls that fail in one run
          MaxOther,    \* bound: steps of other processes in the directory
          OtherNames,  \* the names other processes touch
          Races,       \* may they act between a check of a name and its use
          Signals,     \* may a signal come
          None

VARIABLES kern, spec, start,  \* the system, the options, the directory before
          dir,                \* name -> inode, or None
          unflushed,          \* dir may have changed since its last fsync
          file,               \* operand -> the attributes of its new file
          op,                 \* struct op of each operand
          pending,            \* pending[] of pending.c
          held,               \* depth of pending_hold()
          sig,                \* "none", "pending" or "caught"
          ctl,                \* where the program is
          fr,                 \* the locals of the call in progress
          mem,                \* the static variables of batch.c, backup.c, flush.c
          hist                \* history: see HistTypes

vars == <<kern, spec, start, dir, unflushed, file, op, pending, held, sig, ctl,
          fr, mem, hist>>

Ops == 1..NOps

Simple(t)      == <<"~", t>>
Numbered(t, d) == <<"~", t, d>>
Backups(t)     == {Simple(t)} \cup {Numbered(t, d) : d \in Numbers}
Names          == Targets \cup Temps \cup UNION {Backups(t) : t \in Targets}

New(i)    == <<"new", i>>      \* the file operand i asks for
Hold(i)   == <<"hold", i>>     \* the placeholder of place_over()
Probe(i)  == <<"probe", i>>    \* the probe file of place_probe_mode()
Old(n)    == <<"old", n>>      \* what name n held before the run
Other(k)  == <<"other", k>>    \* what another process made

Ours    == {New(i) : i \in Ops} \cup {Hold(i) : i \in Ops} \cup {Probe(i) : i \in Ops}
Others  == {Other(k) : k \in 1..MaxOther}
Foreign == {Old(n) : n \in Names} \cup Others
Inodes  == Ours \cup Foreign

BackupSlot == BatchSize + 1
Slots      == 1..BackupSlot

ASSUME WorldAssumption ==
    /\ NOps \in Nat \ {0}
    /\ BatchSize \in Nat \ {0}
    /\ Numbers \subseteq Seq(0..9) \ {<<>>}
    /\ IsFiniteSet(Numbers)
    /\ MaxFaults \in Nat
    /\ MaxOther \in Nat
    /\ Operand \in [Ops -> Targets]
    /\ StartSets \subseteq SUBSET (Names \ Temps)
    /\ OtherNames \subseteq Names \ Temps
    /\ Targets \cap Temps = {}
    /\ (Targets \cup Temps) \cap UNION {Backups(t) : t \in Targets} = {}
    /\ None \notin Names \cup Inodes
    /\ Races \in BOOLEAN
    /\ Signals \in BOOLEAN

(* What a system offers: O_TMPFILE, RENAME_NOREPLACE, hard links,          *)
(* RENAME_EXCHANGE, a directory that can be listed, one that fsync flushes *)
Kernel == [tmpfile : BOOLEAN, noreplace : BOOLEAN, hardlink : BOOLEAN,
           exchange : BOOLEAN, list : BOOLEAN, dirsync : BOOLEAN]

(* struct file_spec, as far as it decides what is done.  special stands    *)
(* for the set-id bits; owner "user" is uid_changes.                       *)
Options == [force : BOOLEAN, backup : {"no", "simple", "numbered", "existing"},
            content : BOOLEAN, owner : {"keep", "group", "user"},
            absolute : BOOLEAN, special : BOOLEAN]

ASSUME KernelAssumption == Kernels \subseteq Kernel

(* --backup has no effect without -f: spec_check() warns, and only         *)
(* replace_one() looks at it.  The controls none and off are "no".         *)
ASSUME SpecAssumption ==
    Specs \subseteq {s \in Options : s.backup # "no" => s.force}

-----------------------------------------------------------------------------
(* The kernel's calls, on a directory d.                                   *)
Free(d, n)        == d[n] = None
Bind(d, n, x)     == [d EXCEPT ![n] = x]
Rename(d, a, b)   == IF d[a] = d[b] THEN d ELSE [d EXCEPT ![b] = d[a], ![a] = None]
Exchange(d, a, b) == [d EXCEPT ![a] = d[b], ![b] = d[a]]

SetDir(d) == dir' = d /\ unflushed' = (unflushed \/ d # dir)

(* fsync of the directory.  Where it cannot be read, or its filesystem     *)
(* does not flush directories, nothing is done and that is no failure.     *)
Flushed == unflushed' = (unflushed /\ ~kern.dirsync)

(* A system call, or an allocation, fails.                                 *)
Fault == /\ hist.faults < MaxFaults
         /\ hist' = [hist EXCEPT !.faults = @ + 1]

FaultAt(n) == /\ hist.faults < MaxFaults
              /\ hist' = [hist EXCEPT !.faults = @ + 1, !.refused = @ \cup {n}]

-----------------------------------------------------------------------------
(* The batch of operands in hand, and the pending slot of each.            *)
Batch   == ctl.first .. (IF ctl.first + BatchSize - 1 < NOps
                         THEN ctl.first + BatchSize - 1 ELSE NOps)
Cur     == ctl.cur
Slot(i) == i - ctl.first + 1
Path    == Operand[ctl.cur]

NewOp == [way |-> "plain", tmp |-> None, backup |-> None, spare |-> None,
          fail |-> "no", fd |-> FALSE, leftover |-> FALSE]

NewFile == [content |-> FALSE, owned |-> FALSE, perm |-> "asked",
            special |-> FALSE, flushed |-> FALSE]

NoFrame == [what |-> "none", slot |-> 0, path |-> None, ino |-> None,
            flag |-> FALSE, then |-> "none"]

(* The program's loops over the operands of a batch: the step each visits  *)
(* an operand with, and the step that follows the loop.                    *)
Entry == [build |-> "build", flush |-> "fail", close |-> "close", name |-> "name",
          settle |-> "fail", tidy |-> "tidy", drop |-> "drop"]
After == [build |-> "flush", flush |-> "closing", close |-> "naming",
          name |-> "settle", settle |-> "tidying", tidy |-> "sync",
          drop |-> "release"]

Advance(c) ==
    IF c.todo = {} THEN [c EXCEPT !.pc = After[c.loop]]
    ELSE LET i == CHOOSE k \in c.todo : \A m \in c.todo : k <= m
         IN  [c EXCEPT !.pc = Entry[c.loop], !.cur = i, !.todo = @ \ {i}]

Loop(l, s) == Advance([ctl EXCEPT !.loop = l, !.todo = s])

(* A step of the program at l: a signal that is pending and not held is    *)
(* taken first.                                                            *)
At(l) == ctl.pc = l /\ ~(sig = "pending" /\ held = 0)

Goto(l) == ctl' = IF l = "next" THEN Advance(ctl) ELSE [ctl EXCEPT !.pc = l]

(* History only: the calls that failed, the steps other processes took,    *)
(* the files whose name was given up on purpose (by an other process, or   *)
(* the simple backup replaced by the next), the names the kernel would not *)
(* remove, and the old files drop_spares() keeps and warns about.          *)
HistTypes == [faults : 0..MaxFaults, other : 0..MaxOther,
              forgone : SUBSET (Inodes \cup {None}), refused : SUBSET Names,
              kept : SUBSET Names]

Init ==
    /\ kern \in Kernels
    /\ spec \in Specs
    /\ \E s \in StartSets :
         start = [n \in Names |-> IF n \in s THEN Old(n) ELSE None]
    /\ dir = start
    /\ unflushed = FALSE
    /\ file = [i \in Ops |-> NewFile]
    /\ op = [i \in Ops |-> NewOp]
    /\ pending = [s \in Slots |-> [path |-> None, ino |-> None]]
    /\ held = 0
    /\ sig = "none"
    /\ ctl = [pc |-> "batch", loop |-> "build", todo |-> {}, cur |-> 1, first |-> 1]
    /\ fr = NoFrame
    /\ mem = [spareHeld |-> FALSE, queued |-> FALSE, dirfailed |-> FALSE,
              nfailed |-> FALSE, probed |-> FALSE, listed |-> FALSE,
              best |-> [t \in Targets |-> <<>>], old |-> None, num |-> <<>>,
              allok |-> TRUE]
    /\ hist = [faults |-> 0, other |-> 0, forgone |-> {}, refused |-> {}, kept |-> {}]

Over == ctl.pc \in {"exit", "killed"}

-----------------------------------------------------------------------------
(* Other processes make, replace and remove files at the names they use,   *)
(* which are not the random names of this run.                             *)
(* Without Races they do not hit the gaps no program can close: between    *)
(* lstat and unlink, between a placeholder and the rename over it, and     *)
(* between a failed fstat and the unlink that undoes the open.             *)
Gap == \/ ctl.pc \in {"unlink", "over"}
       \/ ctl.pc = "made" /\ fr.flag

OtherMay(n) ==
    /\ ~Over
    /\ Races \/ ~Gap
    /\ hist.other < MaxOther

OtherPut(n) ==
    /\ OtherMay(n)
    /\ SetDir(Bind(dir, n, Other(hist.other + 1)))
    /\ hist' = [hist EXCEPT !.other = @ + 1, !.forgone = @ \cup {dir[n]}]
    /\ UNCHANGED <<kern, spec, start, file, op, pending, held, sig, ctl, fr, mem>>

OtherUnlink(n) ==
    /\ OtherMay(n)
    /\ ~Free(dir, n)
    /\ SetDir(Bind(dir, n, None))
    /\ hist' = [hist EXCEPT !.other = @ + 1, !.forgone = @ \cup {dir[n]}]
    /\ UNCHANGED <<kern, spec, start, file, op, pending, held, sig, ctl, fr, mem>>

OtherStep == \E n \in OtherNames : OtherPut(n) \/ OtherUnlink(n)
=============================================================================
