--------------------------- MODULE NewfileProofs -----------------------------
(***************************************************************************)
(* What newfile(1) promises about names: ArmedOwned, OldOrNew and          *)
(* NoReplace of Newfile, from the stages of the operands. DirForms lists   *)
(* the ways in which a step can change a name.  Then what it promises      *)
(* about the files it names: FinishedWhenNamed and PrivateUntilFinal, from *)
(* how the program goes on (CtlForms), what it does to a file (AttrKept)   *)
(* and how a file comes by a name (NewNames).                              *)
(***************************************************************************)
EXTENDS OperandProofs

(* What slot s of operand i can guard.                                     *)
SlotKind(s, i) ==
    \/ pending[s].path = op[i].tmp /\ op[i].tmp \in Temps /\ pending[s].ino = New(i)
    \/ pending[s].path = Operand[i] /\ pending[s].ino = New(i) /\ ~spec.force
    \/ pending[s].path = op[i].spare /\ op[i].spare \in Temps /\ spec.force
    \/ /\ pending[s].path = fr.path /\ fr.path \in Temps /\ pending[s].ino = Probe(i)
       /\ i = Cur /\ ctl.pc \in {"probed", "lstat", "unlink"}

(* What PENDING_BACKUP can guard.                                          *)
BackupKind ==
    /\ spec.force /\ pending[BackupSlot].path \notin Targets /\ ctl.pc \in CallPc
    /\ \/ pending[BackupSlot].path = op[Cur].backup
       \/ /\ pending[BackupSlot].path = fr.path
          /\ ctl.pc \in {"overbackup", "lstat", "unlink"}

(* The slot of an operand that is not in hand.                             *)
LEMMA RestSlot ==
    ASSUME NEW j, NEW l, Todo(l, j) \/ Done(l, j), Armed(Slot(j))
    PROVE  SlotKind(Slot(j), j)
  BY DEF Todo, Done, Past, Failed, Settled, Named, ToName, Built, Cleared, Spared,
     Temporary,
         InPlace, Nameless, Raw, Guards, SlotKind, IsPlain

(* The slot of the operand in hand.                                        *)
LEMMA CurSlot ==
    ASSUME FlowInv, OpsInv, Live, ctl.pc \in CallPc, NEW i, i = Cur, Armed(Slot(i))
    PROVE  SlotKind(Slot(i), i)
<1> USE DEF CallPc, BuildPc, NamePc, CommitPc, ReplacePc, RemovePc
<1>1. CASE ctl.pc \in RemovePc
  <2>1. /\ RemoveInv(i) /\ FrRemove /\ Path = Operand[i] /\ fr.path \in Names
        /\ Slot(i) # BackupSlot /\ TypesInv /\ i \in Ops
        /\ fr.slot \in Slots => Guards(fr.slot, fr.path, fr.ino)
        /\ Slot(i) \in Slots /\ 0 \notin Slots
    BY <1>1, InRemove
  <2>2. CASE fr.slot = Slot(i)
    <3>1. pending[Slot(i)].path = fr.path /\ pending[Slot(i)].ino = fr.ino
      BY <2>1, <2>2 DEF Guards
    <3>2. op[i].tmp \in Temps \cup {None} BY <2>1 DEF TypesInv, OpType
    <3> QED
      BY <1>1, <2>1, <2>2, <3>1, <3>2, Names0 DEF RemoveInv, FrRemove, SlotKind, Spared
  <2>3. CASE fr.slot # Slot(i)
    <3>1. Ready(i) BY <2>1, <2>3 DEF FrRemove, RemoveInv
    <3> QED BY <3>1 DEF Ready, Temporary, Guards, SlotKind
  <2> QED BY <2>2, <2>3
<1>2. CASE ctl.pc \notin RemovePc
  <2>1. CallInv(i) /\ Path = Operand[i] BY <1>2, InHand
  <2>2. CASE ctl.pc = "made"
    <3>1. MadeInv(i) BY <2>1, <2>2 DEF CallInv
    <3> QED
      BY <3>1 DEF MadeInv, Ready, Temporary, Guards, SlotKind, Unnamed, Nameless, Blank
  <2>3. CASE ctl.pc \in {"tidy", "drop", "close", "name", "named"}
    <3>1. \E l : Todo(l, i) \/ Done(l, i)
      BY <2>1, <2>3 DEF CallInv, Todo, Done
    <3> QED BY <3>1, RestSlot
  <2>4. CASE ctl.pc \in {"fail", "failed", "tidied", "dropped", "build", "probe",
        "open",
                         "probed", "private", "templink", "fill", "chown", "chmod"}
    BY <2>1, <2>4
       DEF CallInv, Failing, Temporary, InPlace, Spared, Cleared, Guards, IsPlain,
           SlotKind,
           Pristine, Blank, Unnamed, Nameless, Building
  <2>5. CASE ctl.pc \in CommitPc \cup ReplacePc \cup {"commitclear", "renamed",
        "exchanged"}
    BY <2>1, <2>5 DEF CallInv, Ready, Moved, Temporary, Guards, SlotKind
  <2> QED BY <1>2, <2>2, <2>3, <2>4, <2>5
<1> QED BY <1>1, <1>2

(* The slot of the backup in hand.                                         *)
LEMMA BackupSlotKind ==
    ASSUME FlowInv, OpsInv, Live, Armed(BackupSlot)
    PROVE  BackupKind
<1> USE DEF CallPc, BuildPc, NamePc, CommitPc, ReplacePc, RemovePc
<1> PICK i : i = Cur OBVIOUS
<1>1. CallInv(i) BY DEF OpsInv, CallInv
<1>2. CASE ctl.pc \in RemovePc
  <2>1. /\ RemoveInv(i) /\ FrRemove /\ BackupSlot \in Slots
        /\ fr.slot \in Slots => Guards(fr.slot, fr.path, fr.ino)
    BY <1>2, InRemove
  <2>2. fr.slot = BackupSlot BY <2>1 DEF RemoveInv, Bared
  <2>3. pending[BackupSlot].path = fr.path BY <2>1, <2>2 DEF Guards
  <2>4. spec.force
    <3>1. Slot(i) # BackupSlot /\ 0 # BackupSlot BY <1>2, InRemove
    <3> QED BY <2>1, <2>2, <3>1 DEF FrRemove
  <2>5. fr.path \notin Targets
    <3>1. Slot(i) # BackupSlot /\ 0 # BackupSlot BY <1>2, InRemove
    <3> QED BY <2>1, <2>2, <3>1, Names0 DEF FrRemove, RemoveInv
  <2> QED BY <1>2, <2>3, <2>4, <2>5 DEF BackupKind
<1>3. CASE ctl.pc = "overbackup"
  BY <1>1, <1>3, Names0 DEF CallInv, Guards, BackupKind, FlowInv, CtlInv
<1>4. CASE ctl.pc \in BackupPc
  <2>1. ctl.pc \in CallPc \ RemovePc BY <1>4 DEF BackupPc
  <2>2. Path \in Targets BY <2>1, InHand
  <2>3. pending[BackupSlot].path = op[i].backup /\ op[i].backup \notin Targets
    BY <1>1, <1>4, <2>2, Names0 DEF CallInv, Guards
  <2>4. spec.force BY <1>1, <1>4 DEF CallInv, BackupPc, FlowInv, CtlInv, Bared
  <2> QED BY <2>1, <2>3, <2>4 DEF BackupKind
<1>5. CASE ctl.pc = "made" BY <1>1, <1>5 DEF CallInv, MadeInv, Bared
<1>6. Bared \/ ctl.pc \in BackupPc \cup RemovePc \cup {"overbackup", "made"}
  BY <1>1 DEF CallInv
<1> QED BY <1>2, <1>3, <1>4, <1>5, <1>6 DEF Bared

(* Every armed slot, as long as the program runs.                          *)
LEMMA SlotKinds ==
    ASSUME FlowInv, OpsInv, Live, NEW s \in Slots, Armed(s)
    PROVE  \/ s = BackupSlot /\ BackupKind
           \/ \E i \in Batch : s = Slot(i) /\ SlotKind(s, i)
<1>1. CASE s = BackupSlot BY <1>1, BackupSlotKind
<1>2. CASE s # BackupSlot
  <2>1. s \in 1..BatchSize BY <1>2, WorldAssumption DEF Slots, BackupSlot
  <2>2. s + ctl.first - 1 \in Batch BY <2>1 DEF OpsInv, RestInv
  <2>3. PICK i : i = s + ctl.first - 1 OBVIOUS
  <2>4. s = Slot(i)
    <3>1. ctl.first \in Nat BY DEF FlowInv, CtlInv, CtlType, Ops
    <3> QED BY <2>1, <2>3, <3>1 DEF Slot
  <2>5. ctl.pc \in CallPc \cup (HeadPc \ {"batch"})
    BY DEF FlowInv, CtlInv, CtlType, HeldInv, OpsInv, RestInv
  <2>6. CASE ctl.pc \in CallPc /\ i = Cur BY <2>2, <2>3, <2>4, <2>6, CurSlot
  <2>7. CASE ~(ctl.pc \in CallPc /\ i = Cur)
    <3>1. Rest(i) BY <2>2, <2>3, <2>5, <2>7 DEF OpsInv, RestInv
    <3>2. \E l : Todo(l, i) \/ Done(l, i) BY <3>1 DEF Rest
    <3> QED BY <2>2, <2>3, <2>4, <3>2, RestSlot
  <2> QED BY <2>6, <2>7
<1> QED BY <1>1, <1>2

(* Every path an armed slot of pending[] points to is a string still       *)
(* allocated, whenever the handler may come: it is the operand, tmppath or *)
(* spare of the slot's operand, its backup_name, or the name local to the  *)
(* call in progress.                                                       *)
THEOREM ArmedOwnedTheorem == Spec => []ArmedOwned
<1>1. FlowInv /\ OpsInv => ArmedOwned
  <2> SUFFICES ASSUME FlowInv, OpsInv, Live, NEW s \in Slots, Armed(s)
               PROVE  \/ pending[s].path = fr.path
                           /\ ctl.pc \in {"probed", "overbackup", "lstat", "unlink"}
                      \/ s = BackupSlot /\ pending[s].path = op[Cur].backup
                      \/ \E i \in Batch : Slot(i) = s /\ pending[s].path \in
                                             {Operand[i], op[i].tmp, op[i].spare}
    BY DEF ArmedOwned, Live
  <2> QED BY SlotKinds DEF SlotKind, BackupKind
<1> QED BY <1>1, OpsTheorem, PTL

(* While the program runs, with -f no slot guards a path, and without -f   *)
(* each guards a file of this run.                                         *)
LEMMA LiveSlots == FlowInv /\ OpsInv /\ Live => SlotsInv
<1> SUFFICES ASSUME FlowInv, OpsInv, Live, NEW s \in Slots, Armed(s)
             PROVE  /\ spec.force => pending[s].path \notin Targets
                    /\ ~spec.force => pending[s].ino \in Ours
  BY DEF SlotsInv
<1>1. Batch \subseteq Ops BY Slots0 DEF FlowInv
<1> QED BY <1>1, SlotKinds, Names0, Inodes0 DEF SlotKind, BackupKind

(* cleanup_handler() changes neither the options nor the slots.            *)
LEMMA HandlerStill ==
    ASSUME FlowInv, [Next]_vars, ~Live'
    PROVE  /\ UNCHANGED <<spec, start, file, op, pending, mem>>
           /\ \/ ~Live /\ (dir' = dir \/ RemoveUnlink \/ OtherStep)
              \/ SignalTaken
<1>1. CASE ~Live
  <2>1. ctl.pc \in {"handler", "killed"} \cup RemovePc BY <1>1 DEF FlowInv, HeldInv
  <2>2. CASE RemoveLstat \/ RemoveUnlink
    <3>1. ~fr.flag
      BY <1>1, <2>2 DEF FlowInv, CallFrame, RemoveLstat, RemoveUnlink, At, RemovePc
    <3> QED BY <1>1, <2>2, <3>1 DEF RemoveLstat, RemoveUnlink, RemoveDone, Live
  <2>3. CASE HandlerStep \/ SignalTaken \/ Signal \/ OtherStep \/ UNCHANGED vars
    BY <1>1, <2>3
       DEF HandlerStep, SignalTaken, Signal, OtherStep, OtherPut, OtherUnlink, vars,
           Live
  <2>4. ~PlaceStep /\ ~BackupStep
    BY <2>1
       DEF PlaceStep, Arm, UndoOpen, ProbeDone, CommitRename, CommitClear, CommitLink,
           CommitOver, OverRename, OverFailed, ReplaceRename, Renamed, ExchangeNames,
           Exchanged, BackupStep, backup_none, backup_make, backup_next,
                 backup_numbered,
           OutOfNumbers, backup_note, backup_simple, place_temp_alias, OverBackup, At,
           RemovePc
  <2>5. ~BatchStep
    BY <2>1
       DEF BatchStep, batch_run, build_one, place_probe_mode, open_built, FinishPrivate,
           FinishLink, fill_one, FinishOwner, FinishMode, FlushClose, close_op,
                 NameBatch,
           NameForce, NameUnnamed, NameTemp, NamePlain, FlushBackup, SettleClose,
                 SettleOne,
           Tidied, op_fail, OpFailed, flush_set_run, Dropped, DropRelease, report_one,
           flush_batch, settle_batch, flush_set_add, drop_spares, At, RemovePc
  <2> QED BY <1>1, <2>2, <2>3, <2>4, <2>5 DEF Next, Program, PendingStep, Ended
<1>2. CASE Live
  <2>1. sig' # sig BY <1>2 DEF Live
  <2>2. SignalTaken
    <3>1. ~PlaceStep /\ ~BackupStep
      BY <2>1
         DEF PlaceStep, Arm, UndoOpen, ProbeDone, CommitRename, CommitClear, CommitLink,
             CommitOver, OverRename, OverFailed, ReplaceRename, Renamed, ExchangeNames,
             Exchanged, BackupStep, backup_none, backup_make, backup_next,
                   backup_numbered,
             OutOfNumbers, backup_note, backup_simple, place_temp_alias, OverBackup
    <3>2. ~BatchStep
      BY <2>1
         DEF BatchStep, batch_run, build_one, place_probe_mode, open_built,
             FinishPrivate,
             FinishLink, fill_one, FinishOwner, FinishMode, FlushClose, close_op,
                   NameBatch,
             NameForce, NameUnnamed, NameTemp, NamePlain, FlushBackup, SettleClose,
             SettleOne, Tidied, op_fail, OpFailed, flush_set_run, Dropped, DropRelease,
             report_one, flush_batch, settle_batch, flush_set_add, drop_spares
    <3>3. ~Signal BY DEF Signal, Live
    <3>4. ~OtherStep /\ ~RemoveLstat /\ ~RemoveUnlink /\ ~HandlerStep
      BY <2>1
         DEF OtherStep, OtherPut, OtherUnlink, RemoveLstat, RemoveUnlink, HandlerStep
    <3> QED BY <2>1, <3>1, <3>2, <3>3, <3>4 DEF Next, Program, PendingStep, Ended, vars
  <2> QED BY <2>2 DEF SignalTaken
<1> QED BY <1>1, <1>2

(* What the slots guard stays so, in the handler too.                      *)
LEMMA SlotsStep ==
    FlowInv /\ OpsInv /\ SlotsInv /\ [Next]_vars /\ FlowInv' /\ OpsInv' => SlotsInv'
<1>1. ASSUME FlowInv, SlotsInv, [Next]_vars, ~Live' PROVE SlotsInv'
  <2>1. spec' = spec /\ pending' = pending BY <1>1, HandlerStill
  <2> QED BY <1>1, <2>1 DEF SlotsInv, Armed
<1>2. FlowInv' /\ OpsInv' /\ Live' => SlotsInv' BY LiveSlots, PTL
<1> QED BY <1>1, <1>2

(* The ways in which a step changes the names. remove_ours() unlinks.      *)
Takes == /\ RemoveUnlink /\ fr.path \in Names
         /\ dir' = [dir EXCEPT ![fr.path] = None]

(* create_excl() undoes its open.                                          *)
Undoes == /\ UndoOpen /\ ctl.pc = "made" /\ fr.flag /\ MadeInv(Cur) /\ fr.path \in Names
          /\ dir' = [dir EXCEPT ![fr.path] = None]
          /\ ctl'.pc = "fail"

(* A new name n for x, which may be held by others already.                *)
Makes(n, x) ==
    /\ n \in Names /\ x \in Inodes /\ Free(dir, n) /\ dir' = [dir EXCEPT ![n] = x]
    /\ ctl'.pc = "made" /\ fr'.path = n
    /\ UNCHANGED <<spec, pending, sig, mem>>
    /\ UNCHANGED <<ctl.loop, ctl.todo, ctl.cur, ctl.first>>
    /\ \/ /\ n = Path /\ x = New(Cur) /\ ~spec.force /\ ctl.pc = "build"
          /\ fr'.what = "plain" /\ fr'.ino = New(Cur) /\ build_one
       \/ /\ n = Path /\ x = Hold(Cur) /\ ~spec.force /\ ctl.pc = "commit"
          /\ fr'.what = "over" /\ fr'.ino = Hold(Cur) /\ UNCHANGED <<file, op>>
       \/ /\ n \in Temps /\ x = Probe(Cur) /\ ctl.pc = "probe"
          /\ fr'.what = "probe" /\ fr'.ino = Probe(Cur) /\ UNCHANGED <<file, op>>
       \/ /\ n \in Temps /\ x = New(Cur) /\ ctl.pc = "open"
          /\ fr'.what = "temp" /\ fr'.ino = New(Cur) /\ UNCHANGED <<file, op>>
       \/ /\ n \in Temps /\ x = New(Cur) /\ ctl.pc \in {"templink", "name"}
          /\ fr'.what = "link" /\ fr'.ino = New(Cur) /\ ~fr'.flag
                /\ UNCHANGED <<file, op>>
       \/ /\ n \in Temps /\ x = dir[Path] /\ spec.force /\ ctl.pc = "alias"
          /\ fr'.what = "alias" /\ fr'.ino = mem.old /\ ~fr'.flag
                /\ UNCHANGED <<file, op>>
       \/ /\ n \in Backups(Path) /\ x = dir[Path] /\ spec.force
          /\ ctl.pc \in {"numbered", "simple"}
          /\ fr'.what = "backup" /\ fr'.ino = mem.old /\ ~fr'.flag
                /\ UNCHANGED <<file, op>>

(* The new file gets its name and keeps the one it has.                    *)
Gives == /\ ctl.pc \in {"commit", "name"} /\ ~spec.force /\ Complete(Cur)
         /\ Free(dir, Path) /\ dir' = [dir EXCEPT ![Path] = New(Cur)]
         /\ ctl'.pc = "named"
         /\ UNCHANGED <<spec, file, op, pending, sig, fr, mem>>
         /\ UNCHANGED <<ctl.loop, ctl.todo, ctl.cur, ctl.first>>

(* The new file leaves its temporary name for its own.                     *)
Shifts == /\ Ready(Cur) /\ op[Cur].tmp # Path
          /\ dir' = [dir EXCEPT ![Path] = New(Cur), ![op[Cur].tmp] = None]
          /\ \/ ctl.pc = "commit" /\ ~spec.force /\ Free(dir, Path)
                /\ ctl'.pc = "commitclear"
             \/ ctl.pc = "over" /\ ~spec.force /\ ctl'.pc = "renamed"
             \/ ctl.pc = "rename" /\ spec.force /\ ctl'.pc = "renamed"
          /\ UNCHANGED <<spec, file, op, pending, sig, fr, mem>>
          /\ UNCHANGED <<ctl.loop, ctl.todo, ctl.cur, ctl.first>>

(* It changes places with the old one.                                     *)
Swaps == /\ Ready(Cur) /\ op[Cur].tmp # Path /\ spec.force /\ ctl.pc = "backed"
         /\ ~Free(dir, Path)
         /\ dir' = [dir EXCEPT ![op[Cur].tmp] = dir[Path], ![Path] = New(Cur)]
         /\ ctl'.pc = "exchanged" /\ mem'.old = mem.old
         /\ UNCHANGED <<spec, file, op, pending, sig, fr>>
         /\ UNCHANGED <<ctl.loop, ctl.todo, ctl.cur, ctl.first>>

(* The alias of the old file becomes its backup.                           *)
Rebacks == /\ OverBackup /\ ctl.pc = "overbackup" /\ spec.force
           /\ fr.path \in Temps /\ dir[fr.path] # dir[Simple(Path)]
           /\ dir' = [dir EXCEPT ![Simple(Path)] = dir[fr.path], ![fr.path] = None]
           /\ ctl'.pc \in {"lstat", "backed"}
           /\ UNCHANGED <<spec, file, pending, sig, mem>>
           /\ UNCHANGED <<ctl.loop, ctl.todo, ctl.cur, ctl.first>>

(* The temporary name and the path of a file ready to be named differ.     *)
LEMMA ReadyPath ==
    ASSUME FlowInv, OpsInv, NEW i, i = Cur, ctl.pc \in CallPc \ RemovePc, Ready(i)
    PROVE  op[i].tmp \in Temps /\ op[i].tmp # Path /\ dir[op[i].tmp] = New(i)
           /\ Path \in Names /\ op[i].tmp \in Names /\ Complete(i)
  BY InHand, Names0 DEF Ready, Temporary

USE DEF At, CallPc, BuildPc, NamePc, CommitPc, ReplacePc, RemovePc

(* A step of pending.c changes no name, or unlinks the one in its frame.   *)
LEMMA PendingDir ==
    FlowInv /\ OpsInv /\ PendingStep => dir' = dir \/ Takes
<1> SUFFICES ASSUME FlowInv, OpsInv, PendingStep, dir' # dir PROVE Takes OBVIOUS
<1>1. RemoveUnlink
  BY DEF PendingStep, RemoveLstat, SignalTaken, HandlerStep
<1>2. fr.path \in Names BY <1>1 DEF RemoveUnlink, OpsInv, RemoveFrame
<1> QED BY <1>1, <1>2 DEF RemoveUnlink, SetDir, Bind, Takes

(* create_excl() unlinks the name it made, or fails to.                    *)
LEMMA UndoDir == FlowInv /\ OpsInv /\ UndoOpen => dir' = dir \/ Undoes
<1> SUFFICES ASSUME FlowInv, OpsInv, UndoOpen, dir' # dir PROVE Undoes OBVIOUS
<1>1. ctl.pc = "made" /\ fr.flag /\ Goto("fail")
      /\ dir' = [dir EXCEPT ![fr.path] = None]
  BY DEF UndoOpen, SetDir, Bind
<1>2. CallInv(Cur) BY <1>1, InHand
<1>3. MadeInv(Cur) BY <1>1, <1>2 DEF CallInv
<1> QED BY <1>1, <1>3, FrameNames, CallStep DEF Undoes

(* place_commit() renames without replacing: the names change in the       *)
(* stated way.                                                             *)
LEMMA CommitRenameDir == FlowInv /\ OpsInv /\ CommitRename => dir' = dir \/ Shifts
<1> SUFFICES ASSUME FlowInv, OpsInv, CommitRename, dir' # dir PROVE Shifts OBVIOUS
<1> PICK i : i = Cur OBVIOUS
<1>1. /\ ctl.pc = "commit" /\ Free(dir, Path) /\ Goto("commitclear")
      /\ dir' = Rename(dir, op[i].tmp, Path)
      /\ UNCHANGED <<spec, file, op, pending, sig, fr, mem>>
  BY DEF CommitRename, SetDir
<1>2. Ready(i) /\ ~spec.force BY <1>1, InHand DEF CallInv, FlowInv, CtlInv
<1>3. /\ ctl'.pc = "commitclear"
      /\ UNCHANGED <<ctl.loop, ctl.todo, ctl.cur, ctl.first>>
  BY <1>1, CallStep
<1> QED BY <1>1, <1>2, <1>3, ReadyPath DEF Rename, Shifts

(* place_over() renames over the placeholder: the names change in the      *)
(* stated way.                                                             *)
LEMMA OverRenameDir == FlowInv /\ OpsInv /\ OverRename => dir' = dir \/ Shifts
<1> SUFFICES ASSUME FlowInv, OpsInv, OverRename, dir' # dir PROVE Shifts OBVIOUS
<1> PICK i : i = Cur OBVIOUS
<1>1. /\ ctl.pc = "over" /\ Goto("renamed")
      /\ dir' = Rename(dir, op[i].tmp, Path)
      /\ UNCHANGED <<spec, file, op, pending, sig, fr, mem>>
  BY DEF OverRename, SetDir
<1>2. Ready(i) /\ ~spec.force BY <1>1, InHand DEF CallInv, FlowInv, CtlInv
<1>3. /\ ctl'.pc = "renamed"
      /\ UNCHANGED <<ctl.loop, ctl.todo, ctl.cur, ctl.first>>
  BY <1>1, CallStep
<1> QED BY <1>1, <1>2, <1>3, ReadyPath DEF Rename, Shifts

(* place_rename() takes the name over: the names change in the stated way. *)
LEMMA ReplaceRenameDir == FlowInv /\ OpsInv /\ ReplaceRename => dir' = dir \/ Shifts
<1> SUFFICES ASSUME FlowInv, OpsInv, ReplaceRename, dir' # dir PROVE Shifts OBVIOUS
<1> PICK i : i = Cur OBVIOUS
<1>1. /\ ctl.pc = "rename" /\ Goto("renamed")
      /\ dir' = Rename(dir, op[i].tmp, Path)
      /\ UNCHANGED <<spec, file, op, pending, sig, fr, mem>>
  BY DEF ReplaceRename, SetDir
<1>2. Ready(i) /\ spec.force BY <1>1, InHand DEF CallInv, FlowInv, CtlInv
<1>3. /\ ctl'.pc = "renamed"
      /\ UNCHANGED <<ctl.loop, ctl.todo, ctl.cur, ctl.first>>
  BY <1>1, CallStep
<1> QED BY <1>1, <1>2, <1>3, ReadyPath DEF Rename, Shifts

(* place_exchange() exchanges the names, or changes none.                  *)
LEMMA ExchangeDir == FlowInv /\ OpsInv /\ ExchangeNames => dir' = dir \/ Swaps
<1> SUFFICES ASSUME FlowInv, OpsInv, ExchangeNames, dir' # dir PROVE Swaps OBVIOUS
<1> PICK i : i = Cur OBVIOUS
<1>1. /\ ctl.pc = "backed" /\ Goto("exchanged") /\ ~Free(dir, Path)
      /\ dir' = [dir EXCEPT ![op[i].tmp] = dir[Path], ![Path] = dir[op[i].tmp]]
      /\ UNCHANGED <<spec, file, op, pending, sig, fr>>
      /\ mem' = [mem EXCEPT !.spareHeld = TRUE]
  BY DEF ExchangeNames, SetDir, Exchange
<1>2. Ready(i) /\ spec.force BY <1>1, InHand DEF CallInv, FlowInv, CtlInv
<1>3. /\ ctl'.pc = "exchanged"
      /\ UNCHANGED <<ctl.loop, ctl.todo, ctl.cur, ctl.first>>
  BY <1>1, CallStep
<1>4. mem'.old = mem.old BY <1>1 DEF FlowInv, HeldInv, MemFields
<1> QED BY <1>1, <1>2, <1>3, <1>4, ReadyPath DEF Swaps

(* place_commit() links: the names change in the stated way.               *)
LEMMA CommitLinkDir == FlowInv /\ OpsInv /\ CommitLink => dir' = dir \/ Gives
<1> SUFFICES ASSUME FlowInv, OpsInv, CommitLink, dir' # dir PROVE Gives OBVIOUS
<1> PICK i : i = Cur OBVIOUS
<1>1. /\ ctl.pc = "commit" /\ Goto("named") /\ Free(dir, Path)
      /\ dir' = [dir EXCEPT ![Path] = dir[op[i].tmp]]
      /\ UNCHANGED <<spec, file, op, pending, sig, fr, mem>>
  BY DEF CommitLink, SetDir, Bind
<1>2. Ready(i) /\ ~spec.force BY <1>1, InHand DEF CallInv, FlowInv, CtlInv
<1>3. /\ ctl'.pc = "named"
      /\ UNCHANGED <<ctl.loop, ctl.todo, ctl.cur, ctl.first>>
  BY <1>1, CallStep
<1> QED BY <1>1, <1>2, <1>3, ReadyPath DEF Gives

(* name_one() of an unnamed file: the names change in the stated way.      *)
LEMMA NameUnnamedDir == FlowInv /\ OpsInv /\ NameUnnamed => dir' = dir \/ Gives
<1> SUFFICES ASSUME FlowInv, OpsInv, NameUnnamed, dir' # dir PROVE Gives OBVIOUS
<1> PICK i : i = Cur OBVIOUS
<1>1. /\ ctl.pc = "name" /\ Goto("named") /\ Free(dir, Path) /\ ~spec.force
      /\ dir' = [dir EXCEPT ![Path] = New(i)]
      /\ UNCHANGED <<spec, file, op, pending, sig, fr, mem>>
  BY DEF NameUnnamed, SetDir, Bind
<1>2. ToName(i) BY <1>1, InHand DEF CallInv
<1>3. /\ ctl'.pc = "named"
      /\ UNCHANGED <<ctl.loop, ctl.todo, ctl.cur, ctl.first>>
  BY <1>1, CallStep
<1> QED BY <1>1, <1>2, <1>3 DEF Gives, ToName, Built, Complete

(* place_over() makes its placeholder: the names change in the stated way. *)
LEMMA CommitOverDir == FlowInv /\ OpsInv /\ CommitOver => dir' = dir \/ \E n,
      x : Makes(n, x)
<1> SUFFICES ASSUME FlowInv, OpsInv, CommitOver, dir' # dir PROVE Makes(Path,
      Hold(Cur)) OBVIOUS
<1>1. /\ ctl.pc = "commit" /\ Free(dir, Path)
      /\ Made("over", 0, Path, Hold(Cur), Hold(Cur), TRUE, "over")
      /\ UNCHANGED <<spec, file, op, pending, sig, mem>>
  BY DEF CommitOver
<1>2. /\ dir' = [dir EXCEPT ![Path] = Hold(Cur)] /\ fr'.path = Path /\ fr'.what = "over"
      /\ fr'.ino = Hold(Cur) /\ Goto("made")
  BY <1>1 DEF Made, SetDir, Bind
<1>3. ~spec.force /\ Path \in Names /\ Hold(Cur) \in Inodes
  BY <1>1, InHand, Names0, Inodes0 DEF FlowInv, CtlInv
<1>4. ctl'.pc = "made" /\ UNCHANGED <<ctl.loop, ctl.todo, ctl.cur, ctl.first>>
  BY <1>2, CallStep
<1> QED BY <1>1, <1>2, <1>3, <1>4 DEF Makes

(* build_one() up to its open: the names change in the stated way.         *)
LEMMA build_oneDir == FlowInv /\ OpsInv /\ build_one => dir' = dir \/ \E n,
      x : Makes(n, x)
<1> SUFFICES ASSUME FlowInv, OpsInv, build_one, dir' # dir PROVE Makes(Path,
      New(Cur)) OBVIOUS
<1>1. /\ ctl.pc = "build" /\ Free(dir, Path) /\ IsPlain
      /\ Made("plain", Slot(Cur), Path, New(Cur), New(Cur), TRUE, "next")
      /\ UNCHANGED <<spec, pending, sig, mem>>
  BY DEF build_one
<1>2. /\ dir' = [dir EXCEPT ![Path] = New(Cur)] /\ fr'.path = Path /\ fr'.what = "plain"
      /\ fr'.ino = New(Cur) /\ Goto("made")
  BY <1>1 DEF Made, SetDir, Bind
<1>3. ~spec.force /\ Path \in Names /\ New(Cur) \in Inodes
  BY <1>1, InHand, Names0, Inodes0 DEF IsPlain
<1>4. ctl'.pc = "made" /\ UNCHANGED <<ctl.loop, ctl.todo, ctl.cur, ctl.first>>
  BY <1>2, CallStep
<1> QED BY <1>1, <1>2, <1>3, <1>4 DEF Makes

(* place_probe_mode() makes its probe: the names change in the stated way. *)
LEMMA place_probe_modeDir == FlowInv /\ OpsInv /\ place_probe_mode => dir' = dir
      \/ \E n, x : Makes(n, x)
<1> SUFFICES ASSUME FlowInv, OpsInv, place_probe_mode, dir' # dir PROVE \E n,
      x : Makes(n, x) OBVIOUS
<1>1. /\ ctl.pc = "probe" /\ UNCHANGED <<spec, file, op, pending, sig, mem>>
      /\ \E n \in Temps : /\ Free(dir, n) /\ dir' = [dir EXCEPT ![n] = Probe(Cur)]
                             /\ fr'.path = n
                          /\ fr'.what = "probe" /\ fr'.ino = Probe(Cur) /\ Goto("made")
  BY DEF place_probe_mode, temp_make, Made, SetDir, Bind, NoTemp
<1>2. PICK n \in Temps : /\ Free(dir, n) /\ dir' = [dir EXCEPT ![n] = Probe(Cur)]
                            /\ fr'.path = n
                         /\ fr'.what = "probe" /\ fr'.ino = Probe(Cur) /\ Goto("made")
  BY <1>1
<1>3. n \in Names /\ Probe(Cur) \in Inodes
  BY <1>1, InHand, Names0, Inodes0
<1>4. ctl'.pc = "made" /\ UNCHANGED <<ctl.loop, ctl.todo, ctl.cur, ctl.first>>
  BY <1>2, CallStep
<1>5. Makes(n, Probe(Cur)) BY <1>1, <1>2, <1>3, <1>4 DEF Makes
<1> QED BY <1>5

(* open_built() opens a temporary file: the names change in the stated     *)
(* way.                                                                    *)
LEMMA open_builtDir == FlowInv /\ OpsInv /\ open_built => dir' = dir \/ \E n,
      x : Makes(n, x)
<1> SUFFICES ASSUME FlowInv, OpsInv, open_built, dir' # dir PROVE \E n, x : Makes(n,
      x) OBVIOUS
<1>1. /\ ctl.pc = "open" /\ UNCHANGED <<spec, file, op, pending, sig, mem>>
      /\ \E n \in Temps : /\ Free(dir, n) /\ dir' = [dir EXCEPT ![n] = New(Cur)]
                             /\ fr'.path = n
                          /\ fr'.what = "temp" /\ fr'.ino = New(Cur) /\ Goto("made")
  BY DEF open_built, temp_make, Made, SetDir, Bind, NoTemp
<1>2. PICK n \in Temps : /\ Free(dir, n) /\ dir' = [dir EXCEPT ![n] = New(Cur)]
                            /\ fr'.path = n
                         /\ fr'.what = "temp" /\ fr'.ino = New(Cur) /\ Goto("made")
  BY <1>1
<1>3. n \in Names /\ New(Cur) \in Inodes
  BY <1>1, InHand, Names0, Inodes0
<1>4. ctl'.pc = "made" /\ UNCHANGED <<ctl.loop, ctl.todo, ctl.cur, ctl.first>>
  BY <1>2, CallStep
<1>5. Makes(n, New(Cur)) BY <1>1, <1>2, <1>3, <1>4 DEF Makes
<1> QED BY <1>5

(* finish_built() links the file early: the names change in the stated     *)
(* way.                                                                    *)
LEMMA FinishLinkDir == FlowInv /\ OpsInv /\ FinishLink => dir' = dir \/ \E n,
      x : Makes(n, x)
<1> SUFFICES ASSUME FlowInv, OpsInv, FinishLink, dir' # dir PROVE \E n, x : Makes(n,
      x) OBVIOUS
<1>1. /\ ctl.pc = "templink" /\ UNCHANGED <<spec, file, op, pending, sig, mem>>
      /\ \E n \in Temps : /\ Free(dir, n) /\ dir' = [dir EXCEPT ![n] = New(Cur)]
                             /\ fr'.path = n
                          /\ fr'.what = "link" /\ fr'.ino = New(Cur) /\ ~fr'.flag
                                /\ Goto("made")
  BY DEF FinishLink, temp_make, Made, SetDir, Bind, NoTemp
<1>2. PICK n \in Temps : /\ Free(dir, n) /\ dir' = [dir EXCEPT ![n] = New(Cur)]
                            /\ fr'.path = n
                         /\ fr'.what = "link" /\ fr'.ino = New(Cur) /\ ~fr'.flag
                               /\ Goto("made")
  BY <1>1
<1>3. n \in Names /\ New(Cur) \in Inodes
  BY <1>1, InHand, Names0, Inodes0
<1>4. ctl'.pc = "made" /\ UNCHANGED <<ctl.loop, ctl.todo, ctl.cur, ctl.first>>
  BY <1>2, CallStep
<1>5. Makes(n, New(Cur)) BY <1>1, <1>2, <1>3, <1>4 DEF Makes
<1> QED BY <1>5

(* name_one() with -f: the names change in the stated way.                 *)
LEMMA NameForceDir == FlowInv /\ OpsInv /\ NameForce => dir' = dir \/ \E n,
      x : Makes(n, x)
<1> SUFFICES ASSUME FlowInv, OpsInv, NameForce, dir' # dir PROVE \E n, x : Makes(n,
      x) OBVIOUS
<1>1. /\ ctl.pc = "name" /\ UNCHANGED <<spec, file, op, pending, sig, mem>>
      /\ \E n \in Temps : /\ Free(dir, n) /\ dir' = [dir EXCEPT ![n] = New(Cur)]
                             /\ fr'.path = n
                          /\ fr'.what = "link" /\ fr'.ino = New(Cur) /\ ~fr'.flag
                                /\ Goto("made")
  BY DEF NameForce, temp_make, Made, SetDir, Bind, NoTemp
<1>2. PICK n \in Temps : /\ Free(dir, n) /\ dir' = [dir EXCEPT ![n] = New(Cur)]
                            /\ fr'.path = n
                         /\ fr'.what = "link" /\ fr'.ino = New(Cur) /\ ~fr'.flag
                               /\ Goto("made")
  BY <1>1
<1>3. n \in Names /\ New(Cur) \in Inodes
  BY <1>1, InHand, Names0, Inodes0
<1>4. ctl'.pc = "made" /\ UNCHANGED <<ctl.loop, ctl.todo, ctl.cur, ctl.first>>
  BY <1>2, CallStep
<1>5. Makes(n, New(Cur)) BY <1>1, <1>2, <1>3, <1>4 DEF Makes
<1> QED BY <1>5

(* place_temp_alias() makes the alias: the names change in the stated way. *)
LEMMA place_temp_aliasDir == FlowInv /\ OpsInv /\ place_temp_alias => dir' = dir
      \/ \E n, x : Makes(n, x)
<1> SUFFICES ASSUME FlowInv, OpsInv, place_temp_alias, dir' # dir PROVE \E n,
      x : Makes(n, x) OBVIOUS
<1>1. /\ ctl.pc = "alias" /\ ~Free(dir, Path)
         /\ UNCHANGED <<spec, file, op, pending, sig, mem>>
      /\ \E n \in Temps : /\ Free(dir, n) /\ dir' = [dir EXCEPT ![n] = dir[Path]]
                             /\ fr'.path = n
                          /\ fr'.what = "alias" /\ fr'.ino = mem.old /\ ~fr'.flag
                                /\ Goto("made")
  BY DEF place_temp_alias, temp_make, Made, SetDir, Bind, NoTemp
<1>2. PICK n \in Temps : /\ Free(dir, n) /\ dir' = [dir EXCEPT ![n] = dir[Path]]
                            /\ fr'.path = n
                         /\ fr'.what = "alias" /\ fr'.ino = mem.old /\ ~fr'.flag
                               /\ Goto("made")
  BY <1>1
<1>3. n \in Names /\ dir[Path] \in Inodes
  BY <1>1, InHand, Names0 DEF TypesInv, Free
<1>4. ctl'.pc = "made" /\ UNCHANGED <<ctl.loop, ctl.todo, ctl.cur, ctl.first>>
  BY <1>2, CallStep
<1>5. spec.force BY <1>1 DEF FlowInv, CtlInv
<1>6. Makes(n, dir[Path]) BY <1>1, <1>2, <1>3, <1>4, <1>5 DEF Makes
<1> QED BY <1>6

(* A backup is made under a name that was free.                            *)
LEMMA BackupDir ==
    ASSUME FlowInv, OpsInv, ctl.pc \in {"numbered", "simple"}, NEW n \in Backups(Path),
           NEW then, backup_link(n, then), UNCHANGED <<spec, file, op, pending, sig,
                 mem>>
    PROVE  \E m, x : Makes(m, x)
<1>1. /\ Free(dir, n) /\ ~Free(dir, Path) /\ dir' = [dir EXCEPT ![n] = dir[Path]]
      /\ fr'.path = n /\ fr'.what = "backup" /\ fr'.ino = mem.old /\ ~fr'.flag
            /\ Goto("made")
  BY DEF backup_link, Made, SetDir, Bind
<1>2. spec.force /\ Path \in Targets /\ TypesInv BY InHand DEF FlowInv, CtlInv
<1>3. n \in Names /\ dir[Path] \in Inodes BY <1>1, <1>2, Names0 DEF TypesInv, Free
<1>4. ctl'.pc = "made" /\ UNCHANGED <<ctl.loop, ctl.todo, ctl.cur, ctl.first>>
  BY <1>1, CallStep
<1>5. Makes(n, dir[Path]) BY <1>1, <1>2, <1>3, <1>4 DEF Makes
<1> QED BY <1>5

(* backup_numbered() tries a number: the names change in the stated way.   *)
LEMMA backup_numberedDir ==
    FlowInv /\ OpsInv /\ backup_numbered => dir' = dir \/ \E n, x : Makes(n, x)
<1> SUFFICES ASSUME FlowInv, OpsInv, backup_numbered, dir' # dir PROVE \E n,
      x : Makes(n, x)
  OBVIOUS
<1>1. /\ ctl.pc = "numbered" /\ mem.num \in Numbers
      /\ backup_link(Numbered(Path, mem.num), "note")
      /\ UNCHANGED <<spec, file, op, pending, sig, mem>>
  BY DEF backup_numbered, NoLink
<1>2. Numbered(Path, mem.num) \in Backups(Path) BY <1>1 DEF Backups
<1> QED BY <1>1, <1>2, BackupDir

(* backup_simple() links to the free name: the names change in the stated  *)
(* way.                                                                    *)
LEMMA backup_simpleDir ==
    FlowInv /\ OpsInv /\ backup_simple => dir' = dir \/ \E n, x : Makes(n, x)
<1> SUFFICES ASSUME FlowInv, OpsInv, backup_simple, dir' # dir PROVE \E n, x : Makes(n,
      x)
  OBVIOUS
<1>1. /\ ctl.pc = "simple" /\ backup_link(Simple(Path), "backed")
      /\ UNCHANGED <<spec, file, op, pending, sig, mem>>
  BY DEF backup_simple, NoLink
<1>2. Simple(Path) \in Backups(Path) BY DEF Backups
<1> QED BY <1>1, <1>2, BackupDir

(* The alias is renamed over the simple backup: the names change in the    *)
(* stated way.                                                             *)
LEMMA OverBackupDir == FlowInv /\ OpsInv /\ OverBackup => dir' = dir \/ Rebacks
<1> SUFFICES ASSUME FlowInv, OpsInv, OverBackup, dir' # dir PROVE Rebacks OBVIOUS
<1>1. /\ ctl.pc = "overbackup" /\ dir' = Rename(dir, fr.path, Simple(Path))
      /\ UNCHANGED <<spec, file, pending, sig, mem>>
      /\ pending_remove(BackupSlot, TRUE, "backed")
  BY DEF OverBackup, SetDir
<1>2. Goto("lstat") \/ Goto("backed") BY <1>1 DEF pending_remove
<1>3. ctl'.pc \in {"lstat", "backed"}
      /\ UNCHANGED <<ctl.loop, ctl.todo, ctl.cur, ctl.first>>
  BY <1>2, CallStep
<1>4. spec.force /\ fr.path \in Temps BY <1>1, InHand DEF FlowInv, CtlInv, CallInv
<1> QED BY <1>1, <1>3, <1>4 DEF Rebacks, Rename

(* Every change of a name is one of these, or another process's.           *)
LEMMA DirForms ==
    FlowInv /\ OpsInv /\ [Next]_vars =>
        \/ dir' = dir
        \/ OtherStep \/ Takes \/ Undoes \/ Gives \/ Shifts \/ Swaps \/ Rebacks
        \/ \E n, x : Makes(n, x)
<1> SUFFICES ASSUME FlowInv, OpsInv, [Next]_vars, dir' # dir, ~OtherStep
             PROVE  \/ Takes \/ Undoes \/ Gives \/ Shifts \/ Swaps \/ Rebacks
                    \/ \E n, x : Makes(n, x)
  OBVIOUS
<1>1. CASE PendingStep BY <1>1, PendingDir
<1>2. CASE PlaceStep
  <2>1. ~(Arm \/ ProbeDone \/ CommitClear \/ OverFailed \/ Renamed \/ Exchanged)
    BY DEF Arm, ProbeDone, CommitClear, OverFailed, Renamed, Exchanged
  <2> QED
    BY <1>2, <2>1, UndoDir, CommitRenameDir, CommitLinkDir, CommitOverDir,
       OverRenameDir,
             ReplaceRenameDir, ExchangeDir
          DEF PlaceStep
<1>3. CASE BackupStep
  <2>1. ~(backup_none \/ backup_make \/ backup_next \/ OutOfNumbers \/ backup_note)
    BY DEF backup_none, backup_make, backup_next, OutOfNumbers, backup_note
  <2> QED BY <1>3, <2>1, backup_numberedDir, backup_simpleDir, place_temp_aliasDir,
             OverBackupDir
          DEF BackupStep
<1>4. CASE BatchStep
  <2>1. ~(\/ batch_run \/ FinishPrivate \/ fill_one \/ FinishOwner \/ FinishMode
             \/ FlushClose
          \/ close_op \/ NameBatch \/ NameTemp \/ NamePlain \/ FlushBackup
                \/ SettleClose
          \/ SettleOne \/ Tidied \/ op_fail \/ OpFailed \/ flush_set_run \/ Dropped
          \/ DropRelease \/ report_one \/ flush_batch \/ settle_batch \/ flush_set_add
          \/ drop_spares)
    BY DEF batch_run, FinishPrivate, fill_one, FinishOwner, FinishMode, FlushClose,
           close_op, NameBatch, NameTemp, NamePlain, FlushBackup, SettleClose,
                 SettleOne,
           Tidied, op_fail, OpFailed, flush_set_run, Dropped, DropRelease, report_one,
           flush_batch, settle_batch, flush_set_add, drop_spares
  <2> QED
    BY <1>4, <2>1, build_oneDir, place_probe_modeDir, open_builtDir, FinishLinkDir,
             NameForceDir, NameUnnamedDir
          DEF BatchStep
<1>5. ~Signal BY DEF Signal
<1>6. ~UNCHANGED vars BY DEF vars
<1> QED BY <1>1, <1>2, <1>3, <1>4, <1>5, <1>6 DEF Next, Program, Ended

(* remove_ours() works on a slot, or on the placeholder.                   *)
LEMMA RemoveSlot ==
    ASSUME FlowInv, OpsInv, ctl.pc \in RemovePc
    PROVE  /\ \/ fr.slot \in Slots /\ Armed(fr.slot) /\ Guards(fr.slot, fr.path, fr.ino)
              \/ ~spec.force /\ fr.ino = Hold(Cur) /\ fr.path = Path /\ Live
           /\ fr.path \in Names
<1> PICK i : i = Cur OBVIOUS
<1>1. fr.path \in Names BY DEF OpsInv, RemoveFrame
<1>2. fr.slot \in Slots => Guards(fr.slot, fr.path, fr.ino) BY DEF OpsInv, RemoveFrame
<1>3. fr.slot \in Slots => Armed(fr.slot) BY <1>1, <1>2, Names0 DEF Guards, Armed
<1>4. CASE ~Live BY <1>1, <1>2, <1>3, <1>4 DEF FlowInv, CallFrame
<1>5. CASE Live
  <2>1. /\ FrRemove /\ RemoveInv(i) /\ Slot(i) \in Slots /\ BackupSlot \in Slots
        /\ 0 \notin Slots
    BY <1>5, InRemove
  <2> QED BY <1>1, <1>2, <1>3, <1>5, <2>1 DEF FrRemove, RemoveInv
<1> QED BY <1>4, <1>5

(* A step of another process is counted.                                   *)
LEMMA OtherCounts == HistInv /\ OtherStep => hist'.other = hist.other + 1
      /\ hist'.other # hist.other
<1> SUFFICES ASSUME HistInv, OtherStep
             PROVE  hist'.other = hist.other + 1 /\ hist'.other # hist.other
  OBVIOUS
<1>1. PICK n \in OtherNames :
        hist' = [hist EXCEPT !.other = @ + 1, !.forgone = @ \cup {dir[n]}]
  BY DEF OtherStep, OtherPut, OtherUnlink
<1>2. hist.other \in Nat /\ hist'.other = hist.other + 1
  BY <1>1 DEF HistInv, HistTypes
<1> QED BY <1>2

(* What the placeholder and a file just opened have to do with the path.   *)
LEMMA OpenedAt ==
    ASSUME FlowInv, OpsInv, ctl.pc = "made", fr.flag
    PROVE  /\ fr.path \in Temps \/ ~spec.force
           /\ fr.ino \in Ours
<1> PICK i : i = Cur OBVIOUS
<1>1. CallInv(i) /\ i \in Ops BY InHand
<1>2. FrMade /\ MadeInv(i) BY <1>1 DEF FlowInv, CallFrame, CallInv
<1> QED BY <1>1, <1>2, Inodes0 DEF FrMade, MadeInv, IsPlain

(* With -f a step of the program changes a path to a finished file only.   *)
LEMMA OldOrNewStep ==
    ASSUME FlowInv, OpsInv, HistInv, SlotsInv, [Next]_vars, spec.force, OurStep,
           NEW t \in Targets, dir'[t] # dir[t]
    PROVE  \E i \in Ops : /\ dir'[t] = New(i) /\ Operand[i] = t
                          /\ Finished(i) /\ file[i].flushed
<1> PICK i : i = Cur OBVIOUS
<1>1. ~OtherStep BY OtherCounts DEF OurStep
<1>2. dir \in [Names -> Inodes \cup {None}] /\ t \in Names /\ t \notin Temps
  BY Names0 DEF OpsInv, TypesInv
<1>3. ~Takes
  <2> SUFFICES ASSUME Takes PROVE FALSE OBVIOUS
  <2>1. t = fr.path /\ ctl.pc = "unlink" BY <1>2 DEF Takes, RemoveUnlink
  <2> QED BY <2>1, RemoveSlot DEF SlotsInv, Guards
<1>4. ~Undoes
  <2> SUFFICES ASSUME Undoes PROVE FALSE OBVIOUS
  <2>1. t = fr.path BY <1>2 DEF Undoes
  <2> QED BY <1>2, <2>1, OpenedAt DEF Undoes
<1>5. ~\E n, x : Makes(n, x)
  <2> SUFFICES ASSUME NEW n, NEW x, Makes(n, x) PROVE FALSE OBVIOUS
  <2>1. t = n BY <1>2 DEF Makes
  <2>2. ctl.pc \in {"numbered", "simple"} => t \notin Backups(Path) BY InHand, Names0
  <2> QED BY <1>2, <2>1, <2>2 DEF Makes
<1>6. ~Gives BY DEF Gives
<1>7. ~Rebacks
  <2> SUFFICES ASSUME Rebacks PROVE FALSE OBVIOUS
  <2>1. Path \in Targets BY InHand DEF Rebacks
  <2>2. t # Simple(Path) BY <2>1, Names0 DEF Backups
  <2> QED BY <1>2, <2>2 DEF Rebacks
<1>8. CASE Shifts \/ Swaps
  <2>1. ctl.pc \in {"commit", "over", "rename", "backed"} /\ Ready(i)
    BY <1>8 DEF Shifts, Swaps
  <2>2. i \in Ops /\ Path = Operand[i] BY <2>1, InHand
  <2>3. op[i].tmp \in Temps /\ Complete(i) BY <2>1, ReadyPath
  <2>4. t = Path /\ dir'[t] = New(i) BY <1>2, <1>8, <2>3 DEF Shifts, Swaps
  <2> QED BY <2>2, <2>3, <2>4 DEF Complete
<1> QED BY <1>1, <1>3, <1>4, <1>5, <1>6, <1>7, <1>8, DirForms

(* The invariant so far.                                                   *)
SafeInv == FlowInv /\ OpsInv /\ HistInv /\ SlotsInv

(* No slot is armed.                                                       *)
LEMMA InitSlots == Init => SlotsInv
  BY DEF Init, SlotsInv, Armed

(* With -f cleanup_handler() and op_fail() have no path in any slot, and   *)
(* without -f nothing in any slot but a file of this run.                  *)
THEOREM SlotsTheorem == Spec => []SafeInv
<1>1. Init => SafeInv BY InitFlow, InitOps, InitSlots DEF SafeInv
<1>2. SafeInv /\ [Next]_vars => SafeInv'
  BY FlowStep, OpsStep, HistStep, SlotsStep DEF SafeInv
<1> QED BY <1>1, <1>2, PTL DEF Spec

(* With -f no step of the program or its handler, whatever fails or        *)
(* interrupts it, makes a path vanish or changes it to anything but the    *)
(* finished, flushed file of an operand that names it: place_rename() and  *)
(* place_exchange() in replace_one(), and the removals of op_fail(),       *)
(* drop_spares() and cleanup_handler().                                    *)
THEOREM OldOrNewTheorem == Spec => OldOrNew
<1>1. SafeInv /\ [Next]_vars =>
        [spec.force /\ OurStep =>
          \A t \in Targets : dir'[t] # dir[t] =>
              \E i \in Ops : /\ dir'[t] = New(i) /\ Operand[i] = t
                             /\ Finished(i) /\ file[i].flushed]_vars
  BY OldOrNewStep DEF SafeInv
<1> QED BY <1>1, SlotsTheorem, PTL DEF Spec, OldOrNew

HIDE DEF At, BuildPc, CallPc, CommitPc, NamePc, RemovePc, ReplacePc

(* The steps between a look at a name and its use, and those that hold the *)
(* alias of the old file.                                                  *)
GapPc == {"unlink", "over", "made", "overbackup"}

(* A jump to another step does not enter a gap.                            *)
LEMMA Elsewhere ==
    ASSUME FlowInv, NEW p \in (Pcs \cup {"next"}) \ GapPc, Goto(p)
    PROVE  ctl'.pc \notin GapPc
<1>1. CASE p = "next"
  <2>1. Moves(ctl, ctl') /\ ctl.loop \in DOMAIN Entry
    BY <1>1, GotoStep DEF FlowInv, CtlInv, CtlType
  <2> QED BY <2>1 DEF Moves, Entry, After, GapPc
<1>2. CASE p # "next" BY <1>2, GotoStep DEF FlowInv
<1> QED BY <1>1, <1>2

(* The start of a loop does not enter a gap.                               *)
LEMMA LoopElsewhere ==
    ASSUME FlowInv, NEW l \in DOMAIN Entry, NEW s \in SUBSET Batch, ctl' = Loop(l, s)
    PROVE  ctl'.pc \notin GapPc
<1>1. Entered(l, s) BY LoopEntered DEF FlowInv
<1> QED BY <1>1 DEF Entered, Entry, After, GapPc

USE DEF At, Pcs, CallPc, BuildPc, NamePc, CommitPc, ReplacePc, RemovePc, HeadPc,
    GapPc

(* remove_ours() unlinks only right after it saw its own inode there.      *)
LEMMA PendingGap ==
    FlowInv /\ PendingStep /\ ctl'.pc \in GapPc =>
        RemoveLstat /\ dir[fr.path] = fr.ino /\ UNCHANGED <<dir, fr>>
              /\ ctl'.pc = "unlink"
<1> SUFFICES ASSUME FlowInv, PendingStep, ctl'.pc \in GapPc
             PROVE  RemoveLstat /\ dir[fr.path] = fr.ino /\ UNCHANGED <<dir, fr>>
                    /\ ctl'.pc = "unlink"
  OBVIOUS
<1>1. ~SignalTaken
  <2>1. SignalTaken => Goto("handler") BY DEF SignalTaken
  <2> QED BY <2>1, Elsewhere
<1>2. ~HandlerStep
  <2>1. HandlerStep => Goto("killed") \/ \E s : pending_remove(s, FALSE, "handler")
    BY DEF HandlerStep
  <2>2. ASSUME NEW s, pending_remove(s, FALSE, "handler") PROVE FALSE
    <3>1. Goto("lstat") \/ Goto("handler") BY <2>2 DEF pending_remove
    <3> QED BY <3>1, Elsewhere
  <2> QED BY <2>1, <2>2, Elsewhere
<1>3. ASSUME ctl.pc \in RemovePc, Goto(fr.then) PROVE FALSE
  <2>1. fr.then \in Pcs \ GapPc BY <1>3 DEF FlowInv, CallFrame, FrRemove
  <2> QED BY <1>3, <2>1, Elsewhere
<1>4. ~RemoveUnlink BY <1>3 DEF RemoveUnlink, RemoveDone
<1>5. CASE RemoveLstat
  <2>1. dir[fr.path] = fr.ino /\ Goto("unlink")
    BY <1>3, <1>5 DEF RemoveLstat, RemoveDone
  <2> QED BY <1>5, <2>1, CallStep DEF RemoveLstat
<1> QED BY <1>1, <1>2, <1>4, <1>5 DEF PendingStep

(* The steps of place.c that enter a gap, and what the name holds then.    *)
LEMMA PlaceGap ==
    FlowInv /\ PlaceStep /\ ctl'.pc \in GapPc =>
        \/ Arm /\ fr.what = "over" /\ UNCHANGED <<dir, fr>> /\ ctl'.pc = "over"
        \/ Arm /\ fr.what = "alias" /\ UNCHANGED <<dir, fr>> /\ ctl'.pc = "overbackup"
        \/ CommitOver /\ Made("over", 0, Path, Hold(Cur), Hold(Cur), TRUE, "over")
<1> SUFFICES ASSUME FlowInv, PlaceStep, ctl'.pc \in GapPc
             PROVE  \/ Arm /\ fr.what = "over" /\ UNCHANGED <<dir, fr>>
                       /\ ctl'.pc = "over"
                    \/ /\ Arm /\ fr.what = "alias" /\ UNCHANGED <<dir, fr>>
                       /\ ctl'.pc = "overbackup"
                    \/ CommitOver /\ Made("over", 0, Path, Hold(Cur), Hold(Cur), TRUE,
                          "over")
  OBVIOUS
<1>1. CASE Arm
  <2>1. ctl.pc = "made" /\ FrMade /\ Goto(fr.then) /\ UNCHANGED <<dir, fr>>
    BY <1>1 DEF Arm, FlowInv, CallFrame
  <2>2. \/ fr.what = "over" /\ fr.then = "over"
        \/ fr.what = "alias" /\ fr.then = "overbackup"
    <3>1. fr.what \notin {"over", "alias"} => fr.then \in (Pcs \cup {"next"}) \ GapPc
      BY <2>1 DEF FrMade, Finish, AfterFill
    <3>2. fr.what \in {"over", "alias"}
      BY <2>1, <3>1, Elsewhere
    <3> QED BY <2>1, <3>2 DEF FrMade
  <2>3. ctl'.pc = fr.then BY <2>1, <2>2, CallStep
  <2> QED BY <1>1, <2>1, <2>2, <2>3
<1>2. CASE CommitOver
  <2>1. Goto("fail") => FALSE BY Elsewhere
  <2> QED BY <1>2, <2>1 DEF CommitOver
<1>3. ~UndoOpen BY Elsewhere DEF UndoOpen
<1>4. ~ProbeDone
  <2>1. ProbeDone => pending_remove(fr.slot, TRUE, "open") \/ pending_remove(fr.slot,
        FALSE, "fail")
    BY DEF ProbeDone
  <2>2. pending_remove(fr.slot, TRUE, "open") \/ pending_remove(fr.slot, FALSE,
        "fail") =>
           Goto("lstat") \/ Goto("open") \/ Goto("fail")
    BY DEF pending_remove
  <2> QED BY <2>1, <2>2, Elsewhere
<1>5. ~CommitRename BY Elsewhere DEF CommitRename
<1>6. ~CommitClear /\ ~CommitLink BY Elsewhere DEF CommitClear, CommitLink
<1>7. ~OverRename /\ ~OverFailed BY Elsewhere DEF OverRename, OverFailed
<1>8. ~Renamed /\ ~Exchanged BY Elsewhere DEF Renamed, Exchanged
<1>9. ~ReplaceRename
  <2>1. ReplaceRename => Goto("renamed") \/ Goto("lstat") \/ Goto("fail")
    BY DEF ReplaceRename, pending_remove
  <2> QED BY <2>1, Elsewhere
<1>10. ~ExchangeNames
  <2>1. ExchangeNames => Goto("exchanged") \/ Goto("lstat") \/ Goto("fail")
    BY DEF ExchangeNames, pending_remove
  <2> QED BY <2>1, Elsewhere
<1> QED BY <1>1, <1>2, <1>3, <1>4, <1>5, <1>6, <1>7, <1>8, <1>9, <1>10 DEF PlaceStep

(* place_temp_alias() has made the alias.                                  *)
Aliased == /\ place_temp_alias /\ ~Free(dir, Path)
           /\ \E n \in Temps : dir' = [dir EXCEPT ![n] = dir[Path]] /\ fr'.path = n

(* The steps of backup.c that enter a gap.                                 *)
LEMMA BackupGap ==
    FlowInv /\ BackupStep /\ ctl'.pc \in GapPc =>
        ctl' = ctl \/ (ctl'.pc = "made" /\ ~fr'.flag /\ (fr'.what = "alias" => Aliased))
<1> SUFFICES ASSUME FlowInv, BackupStep, ctl'.pc \in GapPc, ctl' # ctl
             PROVE  ctl'.pc = "made" /\ ~fr'.flag /\ (fr'.what = "alias" => Aliased)
  OBVIOUS
<1>1. CASE backup_none \/ backup_make
  BY <1>1, Elsewhere DEF backup_none, backup_make
<1>2. CASE backup_next \/ backup_note \/ OutOfNumbers
  <2>1. Goto("numbered") \/ Goto("simple") \/ Goto("fail") \/ Goto("backed")
    BY <1>2 DEF backup_next, backup_note, OutOfNumbers
  <2> QED BY <2>1, Elsewhere
<1>3. CASE backup_numbered
  <2>1. Goto("fail") \/ (ctl' = ctl /\ ctl.pc = "numbered") \/ (Goto("made")
        /\ ~fr'.flag /\ fr'.what = "backup")
    BY <1>3 DEF backup_numbered, backup_link, Made, NoLink
  <2> QED BY <2>1, Elsewhere, CallStep
<1>4. CASE backup_simple
  <2>1. Goto("fail") \/ Goto("alias") \/ (Goto("made") /\ ~fr'.flag
        /\ fr'.what = "backup")
    BY <1>4 DEF backup_simple, backup_link, Made, NoLink
  <2> QED BY <2>1, Elsewhere, CallStep
<1>5. CASE place_temp_alias
  <2>1. Goto("fail") \/ (Goto("made") /\ ~fr'.flag /\ Aliased)
    BY <1>5 DEF place_temp_alias, temp_make, Made, NoTemp, SetDir, Bind, Aliased
  <2> QED BY <2>1, Elsewhere, CallStep
<1>6. CASE OverBackup
  <2>1. Goto("fail") \/ Goto("lstat") \/ Goto("backed")
    BY <1>6 DEF OverBackup, pending_remove
  <2> QED BY <2>1, Elsewhere
<1> QED BY <1>1, <1>2, <1>3, <1>4, <1>5, <1>6 DEF BackupStep

(* The steps of batch.c that enter a gap.                                  *)
LEMMA BatchGap ==
    FlowInv /\ OpsInv /\ BatchStep /\ ctl'.pc \in GapPc =>
        /\ ctl'.pc = "made" /\ fr'.what # "alias"
        /\ fr'.flag => \E n \in Names : dir' = [dir EXCEPT ![n] = fr'.ino]
              /\ fr'.path = n
<1> SUFFICES ASSUME FlowInv, OpsInv, BatchStep, ctl'.pc \in GapPc
             PROVE  /\ ctl'.pc = "made" /\ fr'.what # "alias"
                    /\ fr'.flag => \E n \in Names :
                          /\ dir' = [dir EXCEPT ![n] = fr'.ino]
                                                    /\ fr'.path = n
  OBVIOUS
<1>1. CASE build_one
  <2>1. Goto("fail") => FALSE BY Elsewhere
  <2>2. Goto("open") \/ Goto("probe") \/ Goto("private") \/ Goto("fill")
        \/ Goto("chown")
          \/ Goto("chmod") => FALSE
    BY Elsewhere
  <2>3. Made("plain", Slot(Cur), Path, New(Cur), New(Cur), TRUE, "next")
    BY <1>1, <2>1, <2>2 DEF build_one, Finish, AfterFill
  <2>4. Path \in Names BY <1>1, InHand, Names0 DEF build_one
  <2> QED BY <2>3, <2>4, CallStep DEF Made, SetDir, Bind
<1>2. CASE place_probe_mode
  <2>1. Goto("fail") => FALSE BY Elsewhere
  <2>2. PICK n \in Temps : Made("probe", Slot(Cur), n, Probe(Cur), Probe(Cur), TRUE,
        "probed")
    BY <1>2, <2>1 DEF place_probe_mode, temp_make, NoTemp
  <2> QED BY <2>2, CallStep, Names0 DEF Made, SetDir, Bind
<1>3. CASE open_built
  <2>1. Goto("fail") => FALSE BY Elsewhere
  <2>2. PICK n \in Temps : Made("temp", Slot(Cur), n, New(Cur), New(Cur), TRUE, Finish)
    BY <1>3, <2>1 DEF open_built, temp_make, NoTemp
  <2> QED BY <2>2, CallStep, Names0 DEF Made, SetDir, Bind
<1>4. CASE FinishLink \/ NameForce
  <2>1. Goto("fail") \/ Goto("replace") \/ (Goto("made") /\ ~fr'.flag
        /\ fr'.what = "link")
    BY <1>4 DEF FinishLink, NameForce, temp_make, Made, NoTemp
  <2> QED BY <2>1, Elsewhere, CallStep
<1>5. ~(batch_run \/ FlushClose \/ NameBatch \/ SettleClose \/ flush_set_run)
  <2>1. ASSUME NEW l \in DOMAIN Entry, NEW s \in SUBSET Batch, ctl' = Loop(l,
        s) PROVE FALSE
    BY <2>1, LoopElsewhere
  <2>2. /\ {i \in Opened : op[i].way = "plain"} \in SUBSET Batch
           /\ Kept \in SUBSET Batch
        /\ Opened \in SUBSET Batch
              /\ {i \in Batch : op[i].spare # None} \in SUBSET Batch
        /\ {"build", "close", "name", "tidy", "drop"} \subseteq DOMAIN Entry
    BY DEF Opened, Kept, Entry
  <2>3. ~batch_run /\ ~FlushClose /\ ~NameBatch
    BY <2>1, <2>2 DEF batch_run, FlushClose, NameBatch
  <2>4. ~SettleClose /\ ~flush_set_run BY <2>1, <2>2 DEF SettleClose, flush_set_run
  <2> QED BY <2>3, <2>4
<1>6. ~(flush_batch \/ settle_batch)
  <2>1. ASSUME NEW l \in {"flush", "settle"}, flush_ops(l) PROVE FALSE
    <3>1. PICK bad \in SUBSET Opened : ctl' = Loop(l, bad) BY <2>1 DEF flush_ops
    <3>2. bad \in SUBSET Batch /\ l \in DOMAIN Entry BY DEF Opened, Kept, Entry
    <3> QED BY <3>1, <3>2, LoopElsewhere
  <2> QED BY <2>1 DEF flush_batch, settle_batch
<1>7. ~(FinishPrivate \/ fill_one \/ FinishOwner \/ FinishMode)
  <2>1. FinishPrivate \/ fill_one \/ FinishOwner \/ FinishMode =>
          \/ Goto("templink") \/ Goto("chown") \/ Goto("chmod") \/ Goto("next")
                \/ Goto("fail")
    BY DEF FinishPrivate, fill_one, FinishOwner, FinishMode, AfterFill
  <2> QED BY <2>1, Elsewhere
<1>8. ~(close_op \/ NameUnnamed \/ NameTemp \/ NamePlain \/ flush_set_add)
  <2>1. close_op \/ NameUnnamed \/ NameTemp \/ NamePlain \/ flush_set_add =>
          \/ Goto("named") \/ Goto("commit") \/ Goto("next") \/ Goto("fail")
    BY DEF close_op, NameUnnamed, NameTemp, NamePlain, flush_set_add
  <2> QED BY <2>1, Elsewhere
<1>9. ~(FlushBackup \/ SettleOne \/ Tidied \/ op_fail \/ OpFailed)
  <2>1. FlushBackup \/ SettleOne \/ Tidied \/ op_fail \/ OpFailed =>
          \/ Goto("rename") \/ Goto("lstat") \/ Goto("fail") \/ Goto("tidied")
                \/ Goto("next")
          \/ Goto("failed")
    BY DEF FlushBackup, SettleOne, Tidied, op_fail, OpFailed, pending_remove
  <2> QED BY <2>1, Elsewhere
<1>10. ~(drop_spares \/ Dropped \/ DropRelease)
  <2>1. drop_spares \/ Dropped \/ DropRelease =>
          Goto("lstat") \/ Goto("dropped") \/ Goto("next") \/ Goto("report")
    BY DEF drop_spares, Dropped, DropRelease, pending_remove
  <2> QED BY <2>1, Elsewhere
<1>11. ~report_one
  <2>1. report_one => ctl'.pc \in {"batch", "exit"}
    BY DEF report_one, FlowInv, CtlInv, CtlType
  <2> QED BY <2>1
<1> QED
  BY <1>1, <1>2, <1>3, <1>4, <1>5, <1>6, <1>7, <1>8, <1>9, <1>10, <1>11 DEF BatchStep

(* What was seen at a name is there when it is used, unless another        *)
(* process came between.                                                   *)
LEMMA GapStep ==
    FlowInv /\ OpsInv /\ HistInv /\ GapInv /\ [Next]_vars => GapInv'
<1> SUFFICES ASSUME FlowInv, OpsInv, HistInv, GapInv, [Next]_vars, Gap',
      Undisturbed(fr.path)'
             PROVE  (dir[fr.path] = fr.ino)'
  BY DEF GapInv
<1>1. ctl'.pc \in GapPc BY DEF Gap
<1>2. dir \in [Names -> Inodes \cup {None}] BY DEF OpsInv, TypesInv
<1>3. CASE PendingStep BY <1>1, <1>3, PendingGap
<1>4. CASE PlaceStep
  <2>1. CASE Arm /\ fr.what = "over" /\ UNCHANGED <<dir, fr>>
    <3>1. Gap
      <4>1. ctl.pc = "made" /\ FrMade BY <2>1 DEF Arm, FlowInv, CallFrame
      <4> QED BY <2>1, <4>1 DEF Gap, FrMade
    <3>2. hist' = hist BY <2>1 DEF Arm
    <3> QED BY <2>1, <3>1, <3>2 DEF GapInv, Undisturbed
  <2>2. CASE CommitOver /\ Made("over", 0, Path, Hold(Cur), Hold(Cur), TRUE, "over")
    <3>1. Path \in Names BY <2>2, InHand, Names0 DEF CommitOver
    <3> QED BY <1>2, <2>2, <3>1 DEF Made, SetDir, Bind
  <2>3. ctl'.pc # "overbackup" BY DEF Gap
  <2> QED BY <1>1, <1>4, <2>1, <2>2, <2>3, PlaceGap
<1>5. CASE BackupStep
  <2>1. ctl.pc \notin {"unlink", "over", "made"}
    BY <1>5
       DEF BackupStep, backup_none, backup_make, backup_next, backup_numbered,
           OutOfNumbers,
           backup_note, backup_simple, place_temp_alias, OverBackup
  <2> QED BY <1>1, <1>5, <2>1, BackupGap DEF Gap
<1>6. CASE BatchStep
  <2>1. fr'.flag /\ \E n \in Names : dir' = [dir EXCEPT ![n] = fr'.ino] /\ fr'.path = n
    BY <1>1, <1>6, BatchGap DEF Gap
  <2> QED BY <1>2, <2>1
<1>7. CASE Signal \/ UNCHANGED vars
  <2>1. UNCHANGED <<dir, fr, ctl, hist>> BY <1>7 DEF Signal, vars
  <2> QED BY <2>1 DEF GapInv, Gap, Undisturbed
<1>8. CASE OtherStep
  <2>1. PICK n \in OtherNames : OtherPut(n) \/ OtherUnlink(n) BY <1>8 DEF OtherStep
  <2>2. /\ UNCHANGED <<fr, ctl>> /\ (Races \/ ~Gap)
        /\ \A m \in Names \ {n} : dir'[m] = dir[m]
    BY <1>2, <2>1 DEF OtherPut, OtherUnlink, SetDir, Bind, OtherMay
  <2>3. n \notin Temps BY WorldAssumption
  <2>4. hist'.other # 0
    <3>1. hist.other \in Nat BY DEF HistInv, HistTypes
    <3> QED BY <1>8, <3>1, OtherCounts
  <2>5. Gap /\ fr.path \in Temps BY <2>2, <2>4 DEF Gap, Undisturbed
  <2> QED BY <2>2, <2>3, <2>5, Names0 DEF GapInv, Undisturbed
<1> QED BY <1>3, <1>4, <1>5, <1>6, <1>7, <1>8 DEF Next, Program, Ended

(* Without -f a step of the program takes no name from a file it did not   *)
(* make.                                                                   *)
LEMMA NoReplaceStep ==
    ASSUME FlowInv, OpsInv, HistInv, SlotsInv, GapInv, [Next]_vars,
           ~Races \/ hist.other = 0, ~spec.force, OurStep,
           NEW n \in Names, dir[n] \in Foreign
    PROVE  dir'[n] = dir[n]
<1> PICK i : i = Cur OBVIOUS
<1> SUFFICES ASSUME dir'[n] # dir[n] PROVE FALSE OBVIOUS
<1>1. dir \in [Names -> Inodes \cup {None}] BY DEF OpsInv, TypesInv
<1>2. ~OtherStep BY OtherCounts DEF OurStep
<1>3. dir[n] \notin Ours /\ dir[n] # None BY Inodes0
<1>4. ~Takes
  <2> SUFFICES ASSUME Takes PROVE FALSE OBVIOUS
  <2>1. n = fr.path /\ ctl.pc = "unlink" BY <1>1 DEF Takes, RemoveUnlink
  <2>2. dir[n] = fr.ino BY <2>1 DEF GapInv, Gap, Undisturbed
  <2>3. fr.ino \in Ours
    <3>1. CASE fr.slot \in Slots /\ Armed(fr.slot) /\ Guards(fr.slot, fr.path, fr.ino)
      BY <3>1 DEF SlotsInv, Guards
    <3>2. CASE fr.ino = Hold(Cur) /\ Live
      <4>1. i \in Ops BY <2>1, <3>2, InRemove
      <4> QED BY <3>2, <4>1, Inodes0
    <3> QED BY <2>1, <3>1, <3>2, RemoveSlot
  <2> QED BY <1>3, <2>2, <2>3
<1>5. ~Undoes
  <2> SUFFICES ASSUME Undoes PROVE FALSE OBVIOUS
  <2>1. n = fr.path BY <1>1 DEF Undoes
  <2>2. dir[n] = fr.ino BY <2>1 DEF GapInv, Gap, Undisturbed, Undoes
  <2> QED BY <1>3, <2>2, OpenedAt DEF Undoes
<1>6. ~\E m, x : Makes(m, x) BY <1>1, <1>3 DEF Makes, Free
<1>7. ~Gives BY <1>1, <1>3 DEF Gives, Free
<1>8. ~Swaps /\ ~Rebacks BY DEF Swaps, Rebacks
<1>9. ~Shifts
  <2> SUFFICES ASSUME Shifts PROVE FALSE OBVIOUS
  <2>1. ctl.pc \in {"commit", "over"} /\ Ready(i) BY DEF Shifts
  <2>2. CallInv(i) /\ i \in Ops BY <2>1, InHand
  <2>3. n = Path \/ n = op[i].tmp BY <1>1 DEF Shifts
  <2>4. n # op[i].tmp BY <1>3, <2>1, <2>2, ReadyPath, Inodes0
  <2>5. ctl.pc = "over" => dir[Path] = Hold(i)
    BY <2>2 DEF CallInv, GapInv, Gap, Undisturbed
  <2> QED BY <1>3, <2>2, <2>3, <2>4, <2>5, Inodes0 DEF Shifts, Free
<1> QED BY <1>2, <1>4, <1>5, <1>6, <1>7, <1>8, <1>9, DirForms

(* The program does not start in a gap.                                    *)
LEMMA InitGap == Init => GapInv BY DEF Init, GapInv, Gap

(* Without -f no step of the program or its handler takes a name from a    *)
(* file the run did not make, as long as no other process acts in the gaps *)
(* between a look at a name and its use (lstat and unlink in               *)
(* remove_ours(), the placeholder and the rename in place_over(), open and *)
(* unlink in create_excl()), which no program can close: place_commit(),   *)
(* fast_link(), remove_ours().                                             *)
THEOREM NoReplaceTheorem == ASSUME ~Races PROVE Spec => NoReplace
<1>1. Init => SafeInv /\ GapInv BY InitFlow, InitOps, InitSlots, InitGap DEF SafeInv
<1>2. SafeInv /\ GapInv /\ [Next]_vars => (SafeInv /\ GapInv)'
  BY FlowStep, OpsStep, HistStep, SlotsStep, GapStep DEF SafeInv
<1>3. SafeInv /\ GapInv /\ [Next]_vars =>
        [~spec.force /\ OurStep =>
          \A n \in Names : dir[n] \in Foreign => dir'[n] = dir[n]]_vars
  BY NoReplaceStep DEF SafeInv
<1> QED BY <1>1, <1>2, <1>3, PTL DEF Spec, NoReplace

-----------------------------------------------------------------------------
HIDE DEF GapPc

(* The call in hand goes on, or its loop does.                             *)
Turns == /\ ctl.pc \in CallPc /\ UNCHANGED <<ctl.loop, ctl.first>>
         /\ \/ ctl'.pc \in CallPc /\ UNCHANGED <<ctl.todo, ctl.cur>>
            \/ Moves(ctl, ctl')

(* A loop begins.                                                          *)
Begins == \/ batch_run /\ Entered("build", Batch)
          \/ /\ ctl.pc \in HeadPc \ {"batch"}
             /\ \E l \in DOMAIN Entry \ {"build"}, s \in SUBSET Batch : Entered(l, s)

(* A jump inside a call, or to the next operand, is a turn.                *)
LEMMA GotoTurns ==
    ASSUME FlowInv, ctl.pc \in CallPc, NEW p \in CallPc \cup {"next"}, Goto(p)
    PROVE  Turns
<1>1. CASE p = "next"
  <2>1. Moves(ctl, ctl') BY <1>1, GotoStep DEF FlowInv
  <2> QED BY <2>1 DEF Turns, Moves
<1>2. CASE p # "next" BY <1>2, GotoStep DEF FlowInv, Turns
<1> QED BY <1>1, <1>2

(* Every step of place.c is a turn.                                        *)
LEMMA PlaceTurns == FlowInv /\ PlaceStep => Turns
<1> SUFFICES ASSUME FlowInv, PlaceStep PROVE Turns OBVIOUS
<1>1. CASE Arm
  <2>1. ctl.pc = "made" /\ FrMade /\ Goto(fr.then) BY <1>1 DEF Arm, FlowInv, CallFrame
  <2>2. fr.then \in CallPc \cup {"next"} BY <2>1 DEF FrMade, Finish, AfterFill
  <2> QED BY <2>1, <2>2, GotoTurns
<1>2. CASE CommitOver \/ UndoOpen \/ CommitRename \/ CommitClear \/ CommitLink
  <2>1. /\ ctl.pc \in CallPc
        /\ Goto("made") \/ Goto("fail") \/ Goto("commitclear") \/ Goto("named")
    BY <1>2 DEF CommitOver, Made, UndoOpen, CommitRename, CommitClear, CommitLink
  <2> QED BY <2>1, GotoTurns
<1>3. CASE OverRename \/ OverFailed \/ Renamed \/ Exchanged
  <2>1. /\ ctl.pc \in CallPc
        /\ Goto("renamed") \/ Goto("fail") \/ Goto("lstat") \/ Goto("named")
    BY <1>3 DEF OverRename, OverFailed, Renamed, Exchanged
  <2> QED BY <2>1, GotoTurns
<1>4. CASE ProbeDone \/ ReplaceRename \/ ExchangeNames
  <2>1. /\ ctl.pc \in CallPc
        /\ \/ Goto("renamed") \/ Goto("fail") \/ Goto("lstat") \/ Goto("open")
           \/ Goto("exchanged")
    BY <1>4 DEF ProbeDone, ReplaceRename, ExchangeNames, pending_remove
  <2> QED BY <2>1, GotoTurns
<1> QED BY <1>1, <1>2, <1>3, <1>4 DEF PlaceStep

(* Every step of backup.c is a turn.                                       *)
LEMMA BackupTurns == FlowInv /\ BackupStep => Turns \/ ctl' = ctl
<1> SUFFICES ASSUME FlowInv, BackupStep PROVE Turns \/ ctl' = ctl OBVIOUS
<1>1. CASE backup_none \/ backup_make \/ backup_next
  <2>1. /\ ctl.pc \in CallPc
        /\ \/ Goto("rename") \/ Goto("simple") \/ Goto("number") \/ Goto("fail")
           \/ Goto("numbered")
    BY <1>1 DEF backup_none, backup_make, backup_next
  <2> QED BY <2>1, GotoTurns
<1>2. CASE backup_note \/ OutOfNumbers \/ backup_numbered \/ backup_simple
  <2>1. /\ ctl.pc \in CallPc
        /\ Goto("fail") \/ Goto("backed") \/ Goto("made") \/ Goto("alias") \/ ctl' = ctl
    BY <1>2
       DEF backup_note, OutOfNumbers, backup_numbered, backup_simple, backup_link, Made,
                NoLink
  <2> QED BY <2>1, GotoTurns
<1>3. CASE place_temp_alias \/ OverBackup
  <2>1. /\ ctl.pc \in CallPc
        /\ Goto("fail") \/ Goto("backed") \/ Goto("made") \/ Goto("lstat")
    BY <1>3 DEF place_temp_alias, temp_make, NoTemp, Made, OverBackup, pending_remove
  <2> QED BY <2>1, GotoTurns
<1> QED BY <1>1, <1>2, <1>3 DEF BackupStep

(* Every step of batch.c is a turn, or starts a loop, or ends a batch.     *)
LEMMA BatchTurns ==
    FlowInv /\ BatchStep => Turns \/ Begins \/ DropRelease \/ report_one
<1> SUFFICES ASSUME FlowInv, BatchStep PROVE Turns \/ Begins \/ DropRelease
      \/ report_one
  OBVIOUS
<1>1. CASE build_one
  <2>1. /\ ctl.pc \in CallPc
        /\ \/ Goto("made") \/ Goto("open") \/ Goto("probe") \/ Goto("private")
              \/ Goto("fill")
           \/ Goto("chown") \/ Goto("chmod") \/ Goto("fail")
    BY <1>1 DEF build_one, Made, Finish, AfterFill
  <2> QED BY <2>1, GotoTurns
<1>2. CASE place_probe_mode \/ open_built \/ FinishLink \/ NameForce
  <2>1. ctl.pc \in CallPc /\ (Goto("made") \/ Goto("fail") \/ Goto("replace"))
    BY <1>2
       DEF place_probe_mode, open_built, FinishLink, NameForce, temp_make, Made, NoTemp
  <2> QED BY <2>1, GotoTurns
<1>3. CASE FinishPrivate \/ fill_one \/ FinishOwner \/ FinishMode
  <2>1. /\ ctl.pc \in CallPc
        /\ \/ Goto("templink") \/ Goto("chown") \/ Goto("chmod") \/ Goto("next")
           \/ Goto("fail")
    BY <1>3 DEF FinishPrivate, fill_one, FinishOwner, FinishMode, AfterFill
  <2> QED BY <2>1, GotoTurns
<1>4. CASE close_op \/ NameUnnamed \/ NameTemp \/ NamePlain \/ flush_set_add
  <2>1. ctl.pc \in CallPc /\ (Goto("named") \/ Goto("commit") \/ Goto("next")
        \/ Goto("fail"))
    BY <1>4 DEF close_op, NameUnnamed, NameTemp, NamePlain, flush_set_add
  <2> QED BY <2>1, GotoTurns
<1>5. CASE FlushBackup \/ SettleOne \/ Tidied \/ op_fail \/ OpFailed
  <2>1. /\ ctl.pc \in CallPc
        /\ \/ Goto("rename") \/ Goto("lstat") \/ Goto("fail") \/ Goto("tidied")
           \/ Goto("next") \/ Goto("failed")
    BY <1>5 DEF FlushBackup, SettleOne, Tidied, op_fail, OpFailed, pending_remove
  <2> QED BY <2>1, GotoTurns
<1>6. CASE drop_spares \/ Dropped
  <2>1. ctl.pc \in CallPc /\ (Goto("lstat") \/ Goto("dropped") \/ Goto("next"))
    BY <1>6 DEF drop_spares, Dropped, pending_remove
  <2> QED BY <2>1, GotoTurns
<1>7. ASSUME NEW l \in DOMAIN Entry \ {"build"}, NEW s \in SUBSET Batch, ctl' = Loop(l,
      s),
             ctl.pc \in HeadPc \ {"batch"}
      PROVE  Begins
  BY <1>7, LoopEntered DEF FlowInv, Begins
<1>8. CASE batch_run
  <2>1. Entered("build", Batch) BY <1>8, LoopEntered DEF FlowInv, batch_run, Entry
  <2> QED BY <1>8, <2>1 DEF Begins
<1>9. CASE FlushClose \/ NameBatch \/ SettleClose \/ flush_set_run
  <2>1. /\ {i \in Opened : op[i].way = "plain"} \in SUBSET Batch
           /\ Kept \in SUBSET Batch
        /\ Opened \in SUBSET Batch
              /\ {i \in Batch : op[i].spare # None} \in SUBSET Batch
        /\ {"close", "name", "tidy", "drop"} \subseteq DOMAIN Entry \ {"build"}
    BY DEF Opened, Kept, Entry
  <2>2. CASE FlushClose \/ NameBatch BY <1>7, <2>1, <2>2 DEF FlushClose, NameBatch
  <2>3. CASE SettleClose \/ flush_set_run
    BY <1>7, <2>1, <2>3 DEF SettleClose, flush_set_run
  <2> QED BY <1>9, <2>2, <2>3
<1>10. CASE flush_batch \/ settle_batch
  <2>1. ASSUME NEW l \in {"flush", "settle"}, flush_ops(l),
        ctl.pc \in HeadPc \ {"batch"}
        PROVE  Begins
    <3>1. PICK bad \in SUBSET Opened : ctl' = Loop(l, bad) BY <2>1 DEF flush_ops
    <3>2. bad \in SUBSET Batch /\ l \in DOMAIN Entry \ {"build"}
      BY DEF Opened, Kept, Entry
    <3> QED BY <1>7, <2>1, <3>1, <3>2
  <2> QED BY <1>10, <2>1 DEF flush_batch, settle_batch
<1> QED BY <1>1, <1>2, <1>3, <1>4, <1>5, <1>6, <1>8, <1>9, <1>10 DEF BatchStep

(* In the handler only the step changes.                                   *)
Handles == /\ ~Live' /\ ctl'.pc \in RemovePc \cup {"handler", "killed"}
           /\ UNCHANGED <<ctl.loop, ctl.todo, ctl.cur, ctl.first>>

(* How a step moves the program on.                                        *)
LEMMA CtlForms ==
    FlowInv /\ [Next]_vars =>
        ctl' = ctl \/ Turns \/ Begins \/ DropRelease \/ report_one \/ Handles
<1> SUFFICES ASSUME FlowInv, [Next]_vars, ctl' # ctl
             PROVE  Turns \/ Begins \/ DropRelease \/ report_one \/ Handles
  OBVIOUS
<1>1. ~(Signal \/ OtherStep \/ UNCHANGED vars)
  BY DEF Signal, OtherStep, OtherPut, OtherUnlink, vars
<1>2. CASE RemoveLstat \/ RemoveUnlink
  <2>1. /\ ctl.pc \in RemovePc /\ sig' = sig
        /\ Goto("unlink") \/ Goto(fr.then)
    BY <1>2 DEF RemoveLstat, RemoveUnlink, RemoveDone
  <2>2. CASE Live
    <3>1. fr.then \in CallPc BY <2>1, <2>2 DEF FlowInv, CallFrame, FrRemove
    <3> QED BY <2>1, <3>1, GotoTurns
  <2>3. CASE ~Live
    <3>1. fr.then = "handler" BY <2>1, <2>3 DEF FlowInv, CallFrame
    <3> QED BY <2>1, <2>3, <3>1, GotoStep DEF FlowInv, Handles, Live
  <2> QED BY <2>2, <2>3
<1>3. CASE SignalTaken
  <2>1. sig' = "caught" /\ Goto("handler") BY <1>3 DEF SignalTaken
  <2> QED BY <2>1, GotoStep DEF FlowInv, Handles, Live
<1>4. CASE HandlerStep
  <2>1. ~Live /\ sig' = sig BY <1>4 DEF HandlerStep, FlowInv, HeldInv
  <2>2. Goto("killed") \/ Goto("lstat") \/ Goto("handler")
    BY <1>4 DEF HandlerStep, pending_remove
  <2> QED BY <2>1, <2>2, GotoStep DEF FlowInv, Handles, Live
<1> QED BY <1>1, <1>2, <1>3, <1>4, PlaceTurns, BackupTurns, BatchTurns
        DEF Next, Program, PendingStep, Ended

(* Only at these steps the attributes of a file change, except that        *)
(* flushed is set.                                                         *)
ShapePc == {"build", "private", "fill", "chown", "chmod"}

(* A step leaves the attributes of operand i's file alone, but may flush   *)
(* it.                                                                     *)
Keeps(i) == /\ \/ file'[i] = file[i]
               \/ file'[i] = [file[i] EXCEPT !.flushed = TRUE]
            /\ \/ op'[i].way = op[i].way
               \/ op[i].way # "plain" /\ op'[i].way # "plain"

(* The way a file was made is decided once, in build_one().                *)
LEMMA WayKept ==
    ASSUME OpsInv, Cur \in Ops, NEW i \in Ops,
           \/ op' = op
           \/ \E v : op' = [op EXCEPT ![Cur].fd = v]
           \/ \E v : op' = [op EXCEPT ![Cur].tmp = v]
           \/ \E v : op' = [op EXCEPT ![Cur].spare = v]
           \/ \E v : op' = [op EXCEPT ![Cur].backup = v]
           \/ \E v : op' = [op EXCEPT ![Cur].leftover = v]
           \/ \E v, w : op' = [op EXCEPT ![Cur].fd = v, ![Cur].tmp = w]
           \/ \E v, w : op' = [op EXCEPT ![Cur].fail = v, ![Cur].fd = w]
           \/ \E v, w : op' = [op EXCEPT ![Cur].spare = v, ![Cur].tmp = w]
    PROVE  op'[i].way = op[i].way
<1>1. op[i] \in OpType /\ op \in [Ops -> OpType] BY DEF OpsInv, TypesInv
<1>2. ASSUME NEW v, op' = [op EXCEPT ![Cur].fd = v] PROVE op'[i].way = op[i].way
  BY <1>1, <1>2 DEF OpType
<1>3. ASSUME NEW v, op' = [op EXCEPT ![Cur].tmp = v] PROVE op'[i].way = op[i].way
  BY <1>1, <1>3 DEF OpType
<1>4. ASSUME NEW v, op' = [op EXCEPT ![Cur].spare = v] PROVE op'[i].way = op[i].way
  BY <1>1, <1>4 DEF OpType
<1>5. ASSUME NEW v, op' = [op EXCEPT ![Cur].backup = v] PROVE op'[i].way = op[i].way
  BY <1>1, <1>5 DEF OpType
<1>6. ASSUME NEW v, op' = [op EXCEPT ![Cur].leftover = v] PROVE op'[i].way = op[i].way
  BY <1>1, <1>6 DEF OpType
<1>7. ASSUME NEW v, NEW w, op' = [op EXCEPT ![Cur].fd = v, ![Cur].tmp = w]
  PROVE op'[i].way = op[i].way
  BY <1>1, <1>7 DEF OpType
<1>8. ASSUME NEW v, NEW w, op' = [op EXCEPT ![Cur].fail = v, ![Cur].fd = w]
  PROVE op'[i].way = op[i].way
  BY <1>1, <1>8 DEF OpType
<1>9. ASSUME NEW v, NEW w, op' = [op EXCEPT ![Cur].spare = v, ![Cur].tmp = w]
  PROVE op'[i].way = op[i].way
  BY <1>1, <1>9 DEF OpType
<1> QED BY <1>2, <1>3, <1>4, <1>5, <1>6, <1>7, <1>8, <1>9

(* place.c leaves content, owner and mode of every file alone.             *)
LEMMA PlaceKeeps ==
    ASSUME FlowInv, OpsInv, PlaceStep, NEW i \in Ops
    PROVE  Keeps(i) /\ spec' = spec
<1>1. ctl.pc \in CallPc \ RemovePc
  BY DEF PlaceStep, Arm, UndoOpen, ProbeDone, CommitRename, CommitClear, CommitLink,
     CommitOver,
         OverRename, OverFailed, ReplaceRename, Renamed, ExchangeNames, Exchanged
<1>2. Cur \in Ops BY <1>1, InHand
<1>3. file' = file /\ spec' = spec
  BY DEF PlaceStep, Arm, UndoOpen, ProbeDone, CommitRename, CommitClear, CommitLink,
     CommitOver,
         OverRename, OverFailed, ReplaceRename, Renamed, ExchangeNames, Exchanged
<1>4. CASE Arm
  <2>1. CASE fr.what = "link"
    <3>1. Unnamed(Cur)
      <4>1. CallInv(Cur) /\ ctl.pc = "made" BY <1>1, <1>4, InHand DEF Arm
      <4> QED BY <2>1, <4>1 DEF CallInv, MadeInv
    <3>2. op' = [op EXCEPT ![Cur].tmp = fr.path,
                           ![Cur].way = IF ctl.loop = "build" THEN "temp" ELSE @]
      BY <1>4, <2>1 DEF Arm
    <3>3. op \in [Ops -> OpType] BY DEF OpsInv, TypesInv
    <3> QED BY <1>2, <1>3, <3>1, <3>2, <3>3 DEF Unnamed, OpType, Keeps
  <2>2. CASE fr.what # "link"
    <3>1. op'[i].way = op[i].way
      <4>1. CASE fr.what = "plain" BY <1>2, <1>4, <4>1, WayKept DEF Arm
      <4>2. CASE fr.what = "temp" BY <1>2, <1>4, <4>2, WayKept DEF Arm
      <4>3. CASE fr.what = "backup" BY <1>2, <1>4, <4>3, WayKept DEF Arm
      <4>4. CASE fr.what \notin {"plain", "temp", "backup"}
        BY <1>2, <1>4, <2>2, <4>4, WayKept DEF Arm
      <4> QED BY <4>1, <4>2, <4>3, <4>4
    <3> QED BY <1>3, <3>1 DEF Keeps
  <2> QED BY <2>1, <2>2
<1>5. CASE ~Arm
  <2>1. \/ op' = op
        \/ op' = [op EXCEPT ![Cur].tmp = None]
        \/ op' = [op EXCEPT ![Cur].spare = op[Cur].tmp, ![Cur].tmp = None]
    BY <1>5
       DEF PlaceStep, UndoOpen, ProbeDone, CommitRename, CommitClear, CommitLink,
           CommitOver,
           OverRename, OverFailed, ReplaceRename, Renamed, ExchangeNames, Exchanged
  <2>2. op'[i].way = op[i].way BY <1>2, <2>1, WayKept
  <2> QED BY <1>3, <2>2 DEF Keeps
<1> QED BY <1>4, <1>5

(* backup.c leaves content, owner and mode of every file alone.            *)
LEMMA BackupKeeps ==
    ASSUME FlowInv, OpsInv, BackupStep, NEW i \in Ops
    PROVE  Keeps(i) /\ spec' = spec
<1>1. ctl.pc \in CallPc \ RemovePc
  BY DEF BackupStep, backup_none, backup_make, backup_next, backup_numbered,
     OutOfNumbers,
         backup_note, backup_simple, place_temp_alias, OverBackup
<1>2. Cur \in Ops BY <1>1, InHand
<1>3. /\ file' = file /\ spec' = spec
      /\ op' = op \/ op' = [op EXCEPT ![Cur].backup = Simple(Path)]
  BY DEF BackupStep, backup_none, backup_make, backup_next, backup_numbered,
     OutOfNumbers,
         backup_note, backup_simple, place_temp_alias, OverBackup
<1>4. op'[i].way = op[i].way BY <1>2, <1>3, WayKept
<1> QED BY <1>3, <1>4 DEF Keeps

(* pending.c leaves content, owner and mode of every file alone.           *)
LEMMA PendingKeeps ==
    ASSUME FlowInv, OpsInv, PendingStep, NEW i \in Ops
    PROVE  Keeps(i) /\ spec' = spec
<1>1. Cur \in Ops BY DEF FlowInv, CtlInv, CtlType, Cur
<1>2. /\ file' = file /\ spec' = spec
      /\ op' = op \/ op' = [op EXCEPT ![Cur].leftover = TRUE]
  BY DEF PendingStep, RemoveLstat, RemoveUnlink, RemoveDone, SignalTaken, HandlerStep
<1>3. op'[i].way = op[i].way BY <1>1, <1>2, WayKept
<1> QED BY <1>2, <1>3 DEF Keeps

(* batch.c changes content, owner and mode of the file in hand only, and   *)
(* only while it builds it.                                                *)
LEMMA BatchKeeps ==
    ASSUME FlowInv, OpsInv, BatchStep, NEW i \in Ops, i # Cur \/ ctl.pc \notin ShapePc
    PROVE  Keeps(i) /\ spec' = spec
<1>1. Cur \in Ops BY DEF FlowInv, CtlInv, CtlType, Cur
<1>2. file \in [Ops -> FileType] /\ op \in [Ops -> OpType] BY DEF OpsInv, TypesInv
<1>3. CASE build_one
  <2>1. i # Cur /\ spec' = spec BY <1>3 DEF build_one, ShapePc
  <2>2. (\E f : file' = [file EXCEPT ![Cur] = f]) \/ file' = file
    BY <1>3 DEF build_one, SetFile
  <2>3. \E o : op' = [op EXCEPT ![Cur] = o] BY <1>3 DEF build_one
  <2> QED BY <1>1, <1>2, <2>1, <2>2, <2>3 DEF Keeps
<1>4. CASE FinishPrivate \/ fill_one \/ FinishOwner \/ FinishMode
  <2>1. i # Cur /\ spec' = spec /\ op' = op
    BY <1>4 DEF FinishPrivate, fill_one, FinishOwner, FinishMode, ShapePc
  <2>2. (\E f : file' = [file EXCEPT ![Cur] = f]) \/ file' = file
    BY <1>4 DEF FinishPrivate, fill_one, FinishOwner, FinishMode, SetFile
  <2> QED BY <1>1, <1>2, <2>1, <2>2 DEF Keeps
<1>5. CASE flush_batch \/ settle_batch
  <2>1. op' = op /\ spec' = spec BY <1>5 DEF flush_batch, settle_batch
  <2>2. file'[i] = file[i] \/ file'[i] = [file[i] EXCEPT !.flushed = TRUE]
    BY <1>5 DEF flush_batch, settle_batch, flush_ops
  <2> QED BY <2>1, <2>2 DEF Keeps
<1>6. CASE report_one
  <2>1. file' = file /\ spec' = spec BY <1>6 DEF report_one
  <2>2. op'[i] = op[i] \/ op'[i] = [op[i] EXCEPT !.backup = None] BY <1>6 DEF report_one
  <2>3. op[i] \in OpType BY <1>2
  <2>4. op'[i].way = op[i].way BY <2>2, <2>3 DEF OpType
  <2> QED BY <2>1, <2>4 DEF Keeps
<1>7. CASE \/ batch_run \/ place_probe_mode \/ open_built \/ FinishLink
              \/ FlushClose \/ NameBatch
           \/ NameForce \/ NameUnnamed \/ NameTemp \/ NamePlain \/ FlushBackup
                 \/ flush_set_add
           \/ SettleClose \/ flush_set_run \/ drop_spares \/ DropRelease
  BY <1>7
     DEF batch_run, place_probe_mode, open_built, FinishLink, FlushClose, NameBatch,
         NameForce,
         NameUnnamed, NameTemp, NamePlain, FlushBackup, flush_set_add, SettleClose,
         flush_set_run, drop_spares, DropRelease, Keeps
<1>8. CASE close_op \/ SettleOne \/ Tidied \/ op_fail \/ OpFailed \/ Dropped
  <2>1. /\ file' = file /\ spec' = spec
        /\ \/ op' = [op EXCEPT ![Cur].fd = FALSE]
           \/ op' = [op EXCEPT ![Cur].tmp = None]
           \/ op' = [op EXCEPT ![Cur].spare = None]
           \/ op' = [op EXCEPT ![Cur].fail = ctl.loop, ![Cur].fd = FALSE]
    BY <1>8 DEF close_op, SettleOne, Tidied, op_fail, OpFailed, Dropped
  <2>2. op'[i].way = op[i].way BY <1>1, <2>1, WayKept
  <2> QED BY <2>1, <2>2 DEF Keeps
<1> QED BY <1>3, <1>4, <1>5, <1>6, <1>7, <1>8 DEF BatchStep

(* Only build_one() and finish_built() change the attributes of a file.    *)
LEMMA AttrKept ==
    ASSUME FlowInv, OpsInv, [Next]_vars, NEW i \in Ops, i # Cur \/ ctl.pc \notin ShapePc
    PROVE  /\ Finished(i) => Finished(i)'
           /\ Whole(i) => Whole(i)'
           /\ Complete(i) => Complete(i)'
           /\ Private(i) => Private(i)'
<1>1. Keeps(i) /\ spec' = spec
  <2>1. CASE Signal \/ OtherStep \/ UNCHANGED vars
    BY <2>1 DEF Signal, OtherStep, OtherPut, OtherUnlink, vars, Keeps
  <2> QED
    BY <2>1, PlaceKeeps, BackupKeeps, PendingKeeps, BatchKeeps DEF Next, Program, Ended
<1>2. file[i] \in FileType BY DEF OpsInv, TypesInv
<1>3. /\ file'[i].content = file[i].content /\ file'[i].owned = file[i].owned
      /\ file'[i].perm = file[i].perm /\ file'[i].special = file[i].special
      /\ file[i].flushed => file'[i].flushed
  BY <1>1, <1>2 DEF Keeps, FileType
<1> QED BY <1>1, <1>3
        DEF Keeps, Finished, Whole, Complete, Private, Content, SetOwner

(* How name n can come to hold the file of operand i.                      *)
Brings(n, i) ==
    \/ /\ i = Cur /\ i \in Batch /\ n = Path /\ build_one /\ ctl'.pc = "made"
       /\ ctl.pc = "build" /\ UNCHANGED <<ctl.loop, ctl.todo, ctl.cur, ctl.first>>
       /\ fr'.what = "plain" /\ sig' = sig
    \/ /\ i = Cur /\ i \in Batch /\ n = Path /\ Complete(i)
       /\ ctl.pc \in NamePc
    \/ /\ i = Cur /\ i \in Batch /\ n \in Temps
       /\ ctl.pc \in {"open", "templink", "name"}
       /\ Private(i) \/ Complete(i)
       /\ ctl'.pc = "made" /\ fr'.path = n /\ fr'.what \in {"temp", "link"}
    \/ Path \in Names \ Temps /\ dir[Path] = New(i)
    \/ /\ ctl.pc = "overbackup" /\ Live /\ n \notin Temps
       /\ fr.path \in Names /\ dir[fr.path] = New(i)

(* A name that comes to hold the file of operand i does so in one of these *)
(* ways.                                                                   *)
LEMMA NewNames ==
    ASSUME FlowInv, OpsInv, [Next]_vars, NEW i \in Ops, NEW n \in Names,
           dir'[n] = New(i), dir[n] # New(i)
    PROVE  Brings(n, i)
<1>1. dir \in [Names -> Inodes \cup {None}] BY DEF OpsInv, TypesInv
<1>2. New(i) \in Ours /\ New(i) # None /\ New(i) \notin Others
  BY Inodes0
<1>3. ~OtherStep
  <2> SUFFICES ASSUME NEW m \in OtherNames, OtherPut(m) \/ OtherUnlink(m) PROVE FALSE
    BY DEF OtherStep
  <2>1. m = n BY <1>1 DEF OtherPut, OtherUnlink, SetDir, Bind
  <2>2. dir'[n] = Other(hist.other + 1) \/ dir'[n] = None
    BY <1>1, <2>1 DEF OtherPut, OtherUnlink, SetDir, Bind
  <2> QED BY <1>2, <2>2 DEF New, Other
<1>4. ~Takes /\ ~Undoes BY <1>1, <1>2 DEF Takes, Undoes
<1>5. ASSUME NEW m, NEW x, Makes(m, x) PROVE Brings(n, i)
  <2>1. m = n /\ x = New(i) BY <1>1, <1>5 DEF Makes
  <2>2. ctl.pc \in CallPc \ RemovePc BY <1>5 DEF Makes
  <2>3. Cur \in Batch /\ CallInv(Cur) /\ Path \in Targets BY <2>2, InHand
  <2>4. Path \in Names \ Temps BY <2>3, Names0
  <2>5. x \in {New(Cur), Probe(Cur), Hold(Cur)} => x = New(Cur) /\ i = Cur
    BY <2>1, Inodes0
  <2>6. CASE x = dir[Path] BY <2>1, <2>4, <2>6 DEF Brings
  <2>7. CASE n = Path /\ x = New(Cur) /\ ctl.pc = "build" /\ build_one
        /\ fr'.what = "plain"
    BY <1>5, <2>3, <2>5, <2>7 DEF Brings, Makes
  <2>8. CASE n \in Temps /\ x = New(Cur) /\ ctl.pc \in {"open", "templink", "name"}
             /\ fr'.what \in {"temp", "link"}
    <3>1. Private(Cur) \/ Complete(Cur)
      BY <2>3, <2>8 DEF CallInv, Blank, ToName, Built, Complete
    <3> QED BY <1>5, <2>1, <2>3, <2>5, <2>8, <3>1 DEF Brings, Makes
  <2> QED BY <1>5, <2>1, <2>5, <2>6, <2>7, <2>8, Inodes0 DEF Makes
<1>6. CASE Gives
  <2>1. ctl.pc \in CallPc \ RemovePc BY <1>6 DEF Gives
  <2>2. Cur \in Batch BY <2>1, InHand
  <2>3. n = Path /\ i = Cur BY <1>1, <1>6, Inodes0 DEF Gives
  <2> QED BY <1>6, <2>2, <2>3 DEF Gives, Brings
<1>7. CASE Shifts \/ Swaps
  <2>1. ctl.pc \in {"commit", "over", "rename", "backed"} /\ Ready(Cur) /\ Complete(Cur)
    BY <1>7 DEF Shifts, Swaps, Ready
  <2>2. Cur \in Batch /\ Path \in Targets BY <2>1, InHand
  <2>3. Path \in Names \ Temps BY <2>2, Names0
  <2>4. (dir'[n] = New(Cur) /\ n = Path) \/ dir'[n] = dir[Path]
    BY <1>1, <1>2, <1>7 DEF Shifts, Swaps
  <2> QED BY <2>1, <2>2, <2>3, <2>4, Inodes0 DEF Brings
<1>8. CASE Rebacks
  <2>1. ctl.pc = "overbackup" BY <1>8 DEF Rebacks
  <2>2. Live /\ Path \in Targets BY <2>1, InHand
  <2>3. Simple(Path) \notin Temps /\ fr.path \in Names
    BY <1>8, <2>2, Names0 DEF Backups, Rebacks
  <2>4. n = Simple(Path) /\ dir[fr.path] = New(i) BY <1>1, <1>2, <1>8 DEF Rebacks
  <2> QED BY <2>1, <2>2, <2>3, <2>4 DEF Brings
<1> QED BY <1>3, <1>4, <1>5, <1>6, <1>7, <1>8, DirForms

(* Once the handler runs the program does not.                             *)
LEMMA SigStep == [Next]_vars => sig' = sig \/ Signal \/ SignalTaken
<1> SUFFICES ASSUME [Next]_vars, sig' # sig PROVE Signal \/ SignalTaken OBVIOUS
<1>1. ~PlaceStep /\ ~BackupStep
  BY DEF PlaceStep, Arm, UndoOpen, ProbeDone, CommitRename, CommitClear, CommitLink,
         CommitOver, OverRename, OverFailed, ReplaceRename, Renamed, ExchangeNames,
         Exchanged, BackupStep, backup_none, backup_make, backup_next, backup_numbered,
         OutOfNumbers, backup_note, backup_simple, place_temp_alias, OverBackup
<1>2. ~BatchStep
  BY DEF BatchStep, batch_run, build_one, place_probe_mode, open_built, FinishPrivate,
         FinishLink, fill_one, FinishOwner, FinishMode, FlushClose, close_op, NameBatch,
         NameForce, NameUnnamed, NameTemp, NamePlain, FlushBackup, SettleClose,
         SettleOne, Tidied, op_fail, OpFailed, flush_set_run, Dropped, DropRelease,
         report_one, flush_batch, settle_batch, flush_set_add, drop_spares
<1>3. ~OtherStep /\ ~RemoveLstat /\ ~RemoveUnlink /\ ~HandlerStep
  BY DEF OtherStep, OtherPut, OtherUnlink, RemoveLstat, RemoveUnlink, HandlerStep
<1> QED BY <1>1, <1>2, <1>3 DEF Next, Program, PendingStep, Ended, vars

(* The program does not run again after its handler.                       *)
LEMMA LiveBefore == [Next]_vars /\ Live' => Live
  BY SigStep DEF Signal, SignalTaken, Live

(* An operand whose turn has not come had not its turn before.             *)
LEMMA WaitsBack ==
    ASSUME FlowInv, [Next]_vars, NEW i \in Ops, Waits(i)'
    PROVE  Waits(i) /\ (ctl.pc \in CallPc /\ Live => i # Cur)
<1>1. /\ Batch \subseteq Ops /\ ctl.first \in Nat /\ BatchSize \in Nat \ {0}
         /\ NOps \in Nat
      /\ \A j \in Batch : j <= ctl.first + BatchSize - 1
  BY Slots0, WorldAssumption DEF FlowInv, CtlInv, CtlType, Ops
<1>2. /\ ctl.pc \in CallPc /\ Live => Cur \in Batch /\ \A m \in ctl.todo : Cur < m
      /\ ctl.todo \subseteq Batch /\ Cur \in Ops
      /\ ctl.loop \in DOMAIN Entry
  BY DEF FlowInv, CtlInv, CtlType, Cur
<1>3. Waits(i) => (ctl.pc \in CallPc /\ Live => i # Cur)
  BY <1>1, <1>2 DEF Waits, Ops
<1>4. CASE ctl' = ctl
  BY <1>3, <1>4, LiveBefore DEF Waits, Batch
<1>5. CASE Turns
  <2>1. /\ ctl'.first = ctl.first /\ ctl'.loop = ctl.loop
           /\ ctl'.todo \subseteq ctl.todo
        /\ ctl'.pc # "batch"
    BY <1>2, <1>5 DEF Turns, Moves, Entry, After
  <2>2. Batch' = Batch BY <2>1 DEF Batch
  <2>3. ctl.pc \in CallPc BY <1>5 DEF Turns
  <2> QED BY <1>3, <2>1, <2>2, <2>3, LiveBefore DEF Waits
<1>6. CASE Handles
  <2>1. ctl'.first = ctl.first /\ ~Live' /\ ctl'.pc # "batch" BY <1>6 DEF Handles
  <2> QED BY <1>3, <2>1 DEF Waits
<1>7. CASE batch_run /\ Entered("build", Batch)
  <2>1. ctl.pc = "batch" /\ ctl'.first = ctl.first /\ ctl'.todo \subseteq Batch
        /\ ctl'.pc # "batch"
    BY <1>7 DEF batch_run, Entered, Entry, After
  <2> QED BY <1>3, <2>1 DEF Waits
<1>8. CASE /\ ctl.pc \in HeadPc \ {"batch"}
           /\ \E l \in DOMAIN Entry \ {"build"}, s \in SUBSET Batch : Entered(l, s)
  <2>1. ctl'.first = ctl.first /\ ctl'.loop # "build" /\ ctl'.pc # "batch"
    BY <1>8 DEF Entered, Entry, After
  <2> QED BY <1>3, <2>1 DEF Waits
<1>9. CASE DropRelease
  <2>1. ctl'.first = ctl.first /\ ctl'.pc = "report"
    BY <1>9, CallStep, GotoStep DEF DropRelease, FlowInv
  <2> QED BY <1>3, <2>1 DEF Waits
<1>10. CASE report_one
  <2>1. ctl.pc = "report" /\ ctl \in CtlType BY <1>10 DEF report_one, FlowInv, CtlInv
  <2>2. CASE ctl' = [ctl EXCEPT !.pc = "exit"]
    <3>1. ctl'.first = ctl.first /\ ctl'.pc = "exit" BY <2>1, <2>2 DEF CtlType
    <3> QED BY <1>3, <3>1 DEF Waits
  <2>3. CASE ctl' = [ctl EXCEPT !.pc = "batch", !.first = @ + BatchSize]
    <3>1. ctl'.first = ctl.first + BatchSize /\ ctl'.pc = "batch"
      BY <2>1, <2>3 DEF CtlType
    <3>2. i \in Nat /\ (i > ctl.first + BatchSize + BatchSize - 1
          \/ i >= ctl.first + BatchSize)
      BY <3>1 DEF Waits, Batch, Ops
    <3>3. i > ctl.first + BatchSize - 1 BY <1>1, <3>2
    <3> QED BY <1>3, <3>3 DEF Waits
  <2> QED BY <1>10, <2>2, <2>3 DEF report_one
<1> QED BY <1>4, <1>5, <1>6, <1>7, <1>8, <1>9, <1>10, CtlForms DEF Begins

(* How the program comes to hold an alias, and what it names.              *)
LEMMA AliasFrom ==
    ASSUME FlowInv, OpsInv, [Next]_vars, AtAlias'
    PROVE  \/ AtAlias /\ fr' = fr
              /\ (dir' = dir \/ OtherStep)
           \/ Aliased /\ ctl.pc \in CallPc \ RemovePc /\ ctl.loop = "name"
<1>1. Live /\ ctl'.pc \in GapPc /\ ctl'.pc # "unlink" BY LiveBefore DEF AtAlias, GapPc
<1>2. CASE PendingStep BY <1>1, <1>2, PendingGap DEF AtAlias
<1>3. CASE PlaceStep
  <2>1. CASE Arm /\ fr.what = "over" /\ ctl'.pc = "over" BY <2>1 DEF AtAlias
  <2>2. CASE Arm /\ fr.what = "alias" /\ UNCHANGED <<dir, fr>> /\ ctl'.pc = "overbackup"
    BY <1>1, <2>2 DEF AtAlias, Arm
  <2>3. CASE CommitOver /\ Made("over", 0, Path, Hold(Cur), Hold(Cur), TRUE, "over")
    <3>1. Goto("made") /\ fr'.what = "over" BY <2>3 DEF Made
    <3>2. ctl'.pc = "made" BY <3>1, CallStep
    <3> QED BY <3>1, <3>2 DEF AtAlias
  <2> QED BY <1>1, <1>3, <2>1, <2>2, <2>3, PlaceGap
<1>4. CASE BackupStep
  <2>1. ctl.pc \in CallPc \ RemovePc /\ ctl.pc # "made" /\ ctl.loop = "name"
    BY <1>4
       DEF BackupStep, backup_none, backup_make, backup_next, backup_numbered,
           OutOfNumbers,
           backup_note, backup_simple, place_temp_alias, OverBackup, FlowInv, CtlInv
  <2>2. CASE ctl' = ctl
    <3>1. ctl.pc = "overbackup" BY <2>1, <2>2 DEF AtAlias
    <3>2. OverBackup
      BY <1>4, <3>1
         DEF BackupStep, backup_none, backup_make, backup_next, backup_numbered,
             OutOfNumbers,
             backup_note, backup_simple, place_temp_alias
    <3>3. Goto("fail") \/ Goto("lstat") \/ Goto("backed")
      BY <3>2 DEF OverBackup, pending_remove
    <3> QED BY <2>2, <3>1, <3>3, CallStep
  <2> QED BY <1>1, <1>4, <2>1, <2>2, BackupGap DEF AtAlias
<1>5. CASE BatchStep BY <1>1, <1>5, BatchGap DEF AtAlias
<1>6. CASE Signal \/ OtherStep \/ UNCHANGED vars
  BY <1>1, <1>6 DEF Signal, OtherStep, OtherPut, OtherUnlink, vars, AtAlias
<1> QED BY <1>2, <1>3, <1>4, <1>5, <1>6 DEF Next, Program, Ended

(* The steps of the build loop.                                            *)
LEMMA BuildActions ==
    ASSUME FlowInv, [Next]_vars, Live', ctl.pc \in CallPc, ctl.loop = "build"
    PROVE  \/ UNCHANGED <<ctl, fr, op>>
           \/ RemoveLstat \/ RemoveUnlink \/ Arm \/ UndoOpen \/ ProbeDone
           \/ build_one \/ place_probe_mode \/ open_built \/ FinishPrivate \/ FinishLink
           \/ fill_one \/ FinishOwner \/ FinishMode \/ op_fail \/ OpFailed
<1>1. Live BY LiveBefore
<1>2. ctl.pc \in BuildPc \cup RemovePc \cup {"made", "fail", "failed"}
  BY DEF FlowInv, CtlInv
<1>3. Signal \/ OtherStep \/ UNCHANGED vars => UNCHANGED <<ctl, fr, op>>
  BY DEF Signal, OtherStep, OtherPut, OtherUnlink, vars
<1>4. ~SignalTaken /\ ~HandlerStep BY <1>2 DEF SignalTaken, HandlerStep, Live
<1>5. PlaceStep => Arm \/ UndoOpen \/ ProbeDone
  BY <1>2
     DEF PlaceStep, CommitRename, CommitClear, CommitLink, CommitOver, OverRename,
         OverFailed,
         ReplaceRename, Renamed, ExchangeNames, Exchanged
<1>6. ~BackupStep
  BY <1>2
     DEF BackupStep, backup_none, backup_make, backup_next, backup_numbered,
         OutOfNumbers,
         backup_note, backup_simple, place_temp_alias, OverBackup
<1>7. BatchStep => \/ build_one \/ place_probe_mode \/ open_built \/ FinishPrivate
                      \/ FinishLink
                   \/ fill_one \/ FinishOwner \/ FinishMode \/ op_fail \/ OpFailed
  BY <1>2
     DEF BatchStep, batch_run, FlushClose, close_op, NameBatch, NameForce, NameUnnamed,
         NameTemp, NamePlain, FlushBackup, SettleClose, SettleOne, Tidied,
               flush_set_run,
         Dropped, DropRelease, report_one, flush_batch, settle_batch, flush_set_add,
         drop_spares
<1> QED BY <1>3, <1>4, <1>5, <1>6, <1>7 DEF Next, Program, PendingStep, Ended

(* The steps after which the operand in hand is still being built.         *)
LEMMA SiteFrom ==
    ASSUME FlowInv, OpsInv, [Next]_vars, AtSite', ctl.pc \in CallPc, ctl.loop = "build",
           ctl'.cur = ctl.cur, ctl'.todo = ctl.todo
    PROVE  AtSite /\ (Site' = Site \/ (ctl.pc \in BuildPc /\ op[Cur].tmp = None))
<1> PICK i : i = Cur OBVIOUS
<1>1. Live /\ Live' BY LiveBefore DEF AtSite
<1>2. op \in [Ops -> OpType] /\ i \in Ops
  BY DEF OpsInv, TypesInv, FlowInv, CtlInv, CtlType, Cur
<1>3. ~Goto("next")
  <2> SUFFICES ASSUME Goto("next") PROVE FALSE OBVIOUS
  <2>1. Moves(ctl, ctl') BY GotoStep DEF FlowInv
  <2> QED BY <2>1 DEF Moves, After, AtSite
<1>4. CASE UNCHANGED <<ctl, fr, op>>
  BY <1>1, <1>4 DEF AtSite, Site, Cur
<1>5. CASE ctl.pc \in {"build", "probe", "open", "private", "templink"}
  <2>1. CallInv(i) BY <1>5, InHand
  <2>2. op[i].tmp = None
    BY <1>5, <2>1 DEF CallInv, Pristine, NewOp, Blank, Unnamed, Nameless
  <2> QED BY <1>1, <1>5, <2>2 DEF AtSite
<1>6. CASE fill_one \/ FinishOwner \/ FinishMode \/ ProbeDone
  <2>1. /\ ctl.pc \in {"fill", "chown", "chmod", "probed"} /\ op' = op
        /\ Goto("chown") \/ Goto("chmod") \/ Goto("fail") \/ Goto("lstat")
              \/ Goto("open")
    BY <1>3, <1>6
       DEF fill_one, FinishOwner, FinishMode, ProbeDone, AfterFill, pending_remove
  <2>2. ctl'.pc # "made" BY <2>1, Elsewhere DEF GapPc
  <2> QED BY <1>1, <2>1, <2>2 DEF AtSite, Site, Cur
<1>7. CASE Arm
  <2>1. ctl.pc = "made" /\ FrMade /\ Goto(fr.then) /\ UNCHANGED fr
    BY <1>7 DEF Arm, FlowInv, CallFrame
  <2>2. \/ fr.what = "probe" /\ fr.then = "probed"
        \/ fr.what \in {"temp", "link"} /\ fr.then = Finish
    BY <1>3, <2>1 DEF FrMade
  <2>3. fr.then \in CallPc \ GapPc BY <2>2 DEF Finish, AfterFill, GapPc
  <2>4. ctl'.pc # "made" BY <2>1, <2>3, Elsewhere DEF GapPc
  <2>5. CASE fr.what = "probe"
    <3>1. op' = op BY <1>7, <2>5 DEF Arm
    <3> QED BY <1>1, <2>1, <2>4, <2>5, <3>1 DEF AtSite, Site, Cur
  <2>6. CASE fr.what \in {"temp", "link"}
    <3>1. op'[i].tmp = fr.path
      <4>1. PICK o \in OpType : o = op[i] BY <1>2
      <4>2. CASE fr.what = "temp"
        <5>1. op' = [op EXCEPT ![i].fd = TRUE, ![i].tmp = fr.path] BY <1>7, <4>2 DEF Arm
        <5> QED BY <1>2, <5>1 DEF OpType
      <4>3. CASE fr.what = "link"
        <5>1. op' = [op EXCEPT ![i].tmp = fr.path,
                               ![i].way = IF ctl.loop = "build" THEN "temp" ELSE @]
          BY <1>7, <4>3 DEF Arm
        <5> QED BY <1>2, <5>1 DEF OpType
      <4> QED BY <2>6, <4>2, <4>3
    <3> QED BY <1>1, <2>1, <2>4, <2>6, <3>1 DEF AtSite, Site, Cur
  <2> QED BY <2>2, <2>5, <2>6
<1>8. CASE RemoveLstat \/ RemoveUnlink
  <2>1. /\ ctl.pc \in RemovePc /\ fr' = fr
        /\ Goto("unlink") \/ Goto(fr.then)
        /\ op' = op \/ op' = [op EXCEPT ![i].leftover = TRUE]
    BY <1>8 DEF RemoveLstat, RemoveUnlink, RemoveDone
  <2>2. fr.then \in {"open", "fail", "failed"}
    BY <1>1, <2>1 DEF FlowInv, CallFrame, FrRemove
  <2>3. ctl'.pc = "unlink" \/ ctl'.pc = fr.then BY <2>1, <2>2, CallStep
  <2>4. fr.then # "failed" BY <2>1, <2>3 DEF AtSite
  <2>5. op'[i].tmp = op[i].tmp BY <1>2, <2>1 DEF OpType
  <2> QED BY <1>1, <2>1, <2>2, <2>3, <2>4, <2>5 DEF AtSite, Site, Cur
<1>9. ~UndoOpen
  <2>1. UndoOpen => ctl'.pc = "fail" BY CallStep DEF UndoOpen
  <2> QED BY <2>1 DEF AtSite
<1>10. ~op_fail
  <2>1. op_fail => \/ Goto("failed")
                   \/ Goto("lstat") /\ fr'.then = "failed"
    BY DEF op_fail, pending_remove
  <2>2. op_fail => ctl'.pc = "failed" \/ (ctl'.pc = "lstat" /\ fr'.then = "failed")
    BY <2>1, CallStep
  <2> QED BY <2>2 DEF AtSite
<1>11. ~OpFailed BY <1>3 DEF OpFailed
<1>12. ctl.pc \in {"build", "probe", "open", "private", "templink"} \/
         ~(build_one \/ place_probe_mode \/ open_built \/ FinishPrivate \/ FinishLink)
  BY DEF build_one, place_probe_mode, open_built, FinishPrivate, FinishLink
<1> QED BY <1>1, <1>4, <1>5, <1>6, <1>7, <1>8, <1>9, <1>10, <1>11, <1>12, BuildActions

(* What a step does to the file in hand while it is shaped.                *)
LEMMA Shaped ==
    ASSUME FlowInv, OpsInv, [Next]_vars, NEW i, i = Cur, ctl.pc \in ShapePc,
          op[i].tmp # None,
           Live'
    PROVE  /\ op[i].tmp \in Temps
           /\ Finished(i)' \/ Private(i)'
<1>1. CallInv(i) /\ i \in Ops /\ TypesInv BY InHand DEF ShapePc
<1>2. /\ ctl.pc \in {"fill", "chown", "chmod"} /\ Building(i) /\ op[i].way = "temp"
      /\ Temporary(i) /\ Private(i) /\ op[i].tmp \in Temps
  BY <1>1 DEF ShapePc, CallInv, Pristine, NewOp, Unnamed, Nameless, Building, Temporary
<1>3. /\ op[i] \in OpType /\ file[i] \in FileType /\ file \in [Ops -> FileType]
      /\ ctl.loop = "build"
  BY <1>1 DEF TypesInv, FlowInv, CtlInv, ShapePc
<1>4. CASE file' = file BY <1>2, <1>4 DEF Private
<1>5. CASE fill_one \/ FinishOwner
  <2>1. \/ file' = file
        \/ file' = [file EXCEPT ![i] = [file[i] EXCEPT !.content = TRUE,
              !.special = FALSE]]
        \/ file' = [file EXCEPT ![i] = [file[i] EXCEPT !.owned = TRUE,
              !.special = FALSE]]
    BY <1>5 DEF fill_one, FinishOwner, SetFile
  <2>2. CASE file' # file
    <3>1. file'[i].perm = file[i].perm /\ file'[i].special = FALSE
      <4>1. PICK f \in FileType : f = file[i] BY <1>3
      <4>2. \/ file'[i] = [f EXCEPT !.content = TRUE, !.special = FALSE]
            \/ file'[i] = [f EXCEPT !.owned = TRUE, !.special = FALSE]
        BY <1>1, <1>3, <2>1, <2>2, <4>1
      <4> QED BY <4>1, <4>2 DEF FileType
    <3> QED BY <1>2, <3>1 DEF Private
  <2> QED BY <1>4, <2>2
<1>6. CASE FinishMode
  <2>1. ctl.pc = "chmod" /\ spec' = spec BY <1>6 DEF FinishMode
  <2>2. file[i].content = Content /\ file[i].owned = SetOwner BY <1>1, <2>1 DEF CallInv
  <2>3. \/ file' = file
        \/ file' = [file EXCEPT ![i] = [file[i] EXCEPT !.perm = "asked",
                                                       !.special = spec.special]]
    BY <1>6 DEF FinishMode, SetFile
  <2>4. CASE file' # file
    <3>1. /\ file'[i].content = file[i].content /\ file'[i].owned = file[i].owned
          /\ file'[i].perm = "asked" /\ file'[i].special = spec.special
      <4>1. PICK f \in FileType : f = file[i] BY <1>3
      <4>2. file'[i] = [f EXCEPT !.perm = "asked", !.special = spec.special]
        BY <1>1, <1>3, <2>3, <2>4, <4>1
      <4> QED BY <4>1, <4>2 DEF FileType
    <3>2. file'[i].content = Content' /\ file'[i].owned = SetOwner'
      <4>1. Content' = Content /\ SetOwner' = SetOwner BY <2>1 DEF Content, SetOwner
      <4> QED BY <2>2, <3>1, <4>1
    <3>3. Finished(i)' BY <2>1, <3>1, <3>2 DEF Finished
    <3> QED BY <1>2, <3>3
  <2> QED BY <1>4, <2>4
<1>7. file' = file \/ fill_one \/ FinishOwner \/ FinishMode
  <2>1. Signal \/ OtherStep \/ UNCHANGED vars => file' = file
    BY DEF Signal, OtherStep, OtherPut, OtherUnlink, vars
  <2>2. ~SignalTaken BY DEF SignalTaken, Live
  <2>3. ~(RemoveLstat \/ RemoveUnlink \/ HandlerStep)
    BY <1>2 DEF RemoveLstat, RemoveUnlink, HandlerStep
  <2>4. PlaceStep => file' = file
    BY DEF PlaceStep, Arm, UndoOpen, ProbeDone, CommitRename, CommitClear, CommitLink,
       CommitOver,
           OverRename, OverFailed, ReplaceRename, Renamed, ExchangeNames, Exchanged
  <2>5. BackupStep => file' = file
    BY DEF BackupStep, backup_none, backup_make, backup_next, backup_numbered,
       OutOfNumbers,
           backup_note, backup_simple, place_temp_alias, OverBackup
  <2>6. BatchStep => fill_one \/ FinishOwner \/ FinishMode
    BY <1>2
       DEF BatchStep, batch_run, build_one, place_probe_mode, open_built, FinishPrivate,
           FinishLink, op_fail, OpFailed, FlushClose, close_op, NameBatch, NameForce,
           NameUnnamed, NameTemp, NamePlain, FlushBackup, SettleClose, SettleOne,
                 Tidied,
           flush_set_run, Dropped, DropRelease, report_one, flush_batch, settle_batch,
           flush_set_add, drop_spares
  <2> QED BY <2>1, <2>2, <2>3, <2>4, <2>5, <2>6 DEF Next, Program, PendingStep, Ended
<1> QED BY <1>4, <1>5, <1>6, <1>7

(* A file that is being shaped has no name but its temporary one.          *)
LEMMA ShapedAt ==
    ASSUME FlowInv, OpsInv, SiteInv, NEW i, i = Cur, ctl.pc \in ShapePc,
           NEW n \in Names, dir[n] = New(i)
    PROVE  n = op[i].tmp /\ op[i].tmp # None
<1>1. AtSite /\ Site = op[i].tmp
  <2>1. Live BY InHand DEF ShapePc
  <2>2. ctl.loop = "build" BY DEF ShapePc, FlowInv, CtlInv
  <2> QED BY <2>1, <2>2 DEF ShapePc, AtSite, Site
<1>2. n = op[i].tmp BY <1>1 DEF SiteInv
<1> QED BY <1>2, Names0

(* A path or a backup holds a new file only when it is whole.              *)
WholeInv == \A i \in Ops, n \in Names \ Temps : dir[n] = New(i) => Whole(i)

(* A file created at its path has all that was asked of it.                *)
LEMMA PlainMade ==
    FlowInv /\ OpsInv /\ ctl.pc = "made" /\ fr.what = "plain" =>
        Finished(ctl.cur) /\ op[ctl.cur] = NewOp
<1> SUFFICES ASSUME FlowInv, OpsInv, ctl.pc = "made", fr.what = "plain"
             PROVE  Finished(ctl.cur) /\ op[ctl.cur] = NewOp
  OBVIOUS
<1> PICK i : i = Cur OBVIOUS
<1>1. CallInv(i) BY InHand
<1>2. MadeInv(i) BY <1>1 DEF CallInv
<1> QED BY <1>2 DEF MadeInv, Cur

(* The same in the next state.                                             *)
LEMMA PlainMadeNext ==
    (FlowInv /\ OpsInv /\ ctl.pc = "made" /\ fr.what = "plain" =>
        Finished(ctl.cur) /\ op[ctl.cur] = NewOp)'
  BY PlainMade, PTL

(* No step gives a path or a backup to a file that is not whole, or takes  *)
(* from a file that has one.                                               *)
LEMMA WholeStep ==
    ASSUME FlowInv, OpsInv, [Next]_vars, OpsInv', FlowInv', WholeInv, SiteInv, AliasInv,
           NEW i \in Ops, NEW n \in Names \ Temps, dir'[n] = New(i)
    PROVE  Whole(i)'
<1>1. ASSUME dir[n] = New(i), i = Cur, ctl.pc \in ShapePc PROVE FALSE
  <2>1. n = op[i].tmp /\ op[i].tmp # None BY <1>1, ShapedAt
  <2>2. op[i] \in OpType BY DEF OpsInv, TypesInv
  <2> QED BY <2>1, <2>2 DEF OpType
<1>2. CASE dir[n] = New(i)
  <2>1. Whole(i) BY <1>2 DEF WholeInv
  <2> QED BY <1>1, <1>2, <2>1, AttrKept
<1>3. CASE dir[n] # New(i)
  <2>1. Brings(n, i) BY <1>3, NewNames
  <2>2. CASE /\ i = Cur /\ i \in Batch /\ n = Path /\ build_one /\ ctl'.pc = "made"
             /\ ctl'.cur = ctl.cur /\ fr'.what = "plain"
    <3>1. Finished(ctl.cur)' /\ op'[ctl'.cur] = NewOp BY <2>2, PlainMadeNext
    <3>2. Finished(i)' /\ op'[i].way = "plain" BY <2>2, <3>1 DEF NewOp, Cur, Finished
    <3> QED BY <3>2 DEF Whole
  <2>3. CASE i = Cur /\ n = Path /\ Complete(i) /\ ctl.pc \in NamePc
    <3>1. ctl.pc \notin ShapePc BY <2>3 DEF ShapePc
    <3> QED BY <2>3, <3>1, AttrKept DEF Whole, Complete
  <2>4. CASE Path \in Names \ Temps /\ dir[Path] = New(i)
    <3>1. Whole(i) BY <2>4 DEF WholeInv
    <3>2. ~(i = Cur /\ ctl.pc \in ShapePc)
      <4> SUFFICES ASSUME i = Cur, ctl.pc \in ShapePc PROVE FALSE OBVIOUS
      <4>1. Path = op[i].tmp /\ op[i].tmp # None BY <2>4, ShapedAt
      <4>2. op[i] \in OpType BY DEF OpsInv, TypesInv
      <4> QED BY <2>4, <4>1, <4>2 DEF OpType
    <3> QED BY <3>1, <3>2, AttrKept
  <2>5. CASE ctl.pc = "overbackup" /\ Live /\ dir[fr.path] = New(i)
    <3>1. Whole(i) BY <2>5 DEF AliasInv, AtAlias
    <3> QED BY <2>5, <3>1, AttrKept DEF ShapePc
  <2> QED BY <2>1, <2>2, <2>3, <2>4, <2>5 DEF Brings
<1> QED BY <1>2, <1>3

(* No step opens an unfinished file with a temporary name to others.       *)
LEMMA PrivateStep ==
    ASSUME FlowInv, OpsInv, [Next]_vars, WholeInv, SiteInv, PrivateUntilFinal,
           NEW i \in Ops, NEW n \in Temps, dir'[n] = New(i)
    PROVE  Finished(i)' \/ Private(i)'
<1>1. n \in Names BY Names0
<1>2. ASSUME i = Cur, ctl.pc \in ShapePc, NEW m \in Names, dir[m] = New(i)
      PROVE  Finished(i)' \/ Private(i)'
  <2>1. op[i].tmp # None BY <1>2, ShapedAt
  <2>2. CASE Live' BY <1>2, <2>1, <2>2, Shaped
  <2>3. CASE ~Live'
    <3>1. file' = file /\ spec' = spec BY <2>3, HandlerStill
    <3>2. CallInv(i) /\ i \in Ops BY <1>2, InHand DEF ShapePc
    <3>3. Private(i)
      BY <1>2, <2>1, <3>2
         DEF ShapePc, CallInv, Pristine, NewOp, Unnamed, Nameless, Building, Temporary
    <3> QED BY <3>1, <3>3 DEF Private
  <2> QED BY <2>2, <2>3
<1>3. CASE dir[n] = New(i)
  <2>1. Finished(i) \/ Private(i) BY <1>3 DEF PrivateUntilFinal, Private
  <2> QED BY <1>1, <1>2, <1>3, <2>1, AttrKept
<1>4. CASE dir[n] # New(i)
  <2>1. Brings(n, i) BY <1>1, <1>4, NewNames
  <2>2. CASE i = Cur /\ ctl.pc \in {"open", "templink", "name"} /\ (Private(i)
        \/ Complete(i))
    BY <2>2, AttrKept DEF ShapePc, Complete
  <2>3. CASE Path \in Names \ Temps /\ dir[Path] = New(i)
    <3>1. Finished(i) BY <2>3 DEF WholeInv, Whole
    <3> QED BY <1>2, <2>3, <3>1, AttrKept
  <2>4. n # Path
    <3>1. Path \in Targets BY Names0 DEF FlowInv, CtlInv, CtlType, Path
    <3> QED BY <3>1, Names0
  <2> QED BY <2>1, <2>2, <2>3, <2>4 DEF Brings
<1> QED BY <1>3, <1>4

(* A file whose operand's turn has not come has no name.                   *)
LEMMA WaitStep ==
    ASSUME FlowInv, OpsInv, [Next]_vars, WaitInv, NEW i \in Ops, Waits(i)'
    PROVE  Absent(i)'
<1>1. Waits(i) /\ (ctl.pc \in CallPc /\ Live => i # Cur) BY WaitsBack
<1>2. Absent(i) BY <1>1 DEF WaitInv
<1> SUFFICES ASSUME NEW n \in Names, dir'[n] = New(i) PROVE FALSE BY DEF Absent
<1>3. Brings(n, i) BY <1>2, NewNames DEF Absent
<1>4. ctl.pc \in CallPc \ RemovePc => i # Cur BY <1>1, InHand
<1> QED BY <1>2, <1>3, <1>4 DEF Brings, Absent

(* A file being built has no name but its temporary one.                   *)
LEMMA SiteStep ==
    ASSUME FlowInv, OpsInv, FlowInv', [Next]_vars, WaitInv, SiteInv, AtSite',
           NEW n \in Names, dir'[n] = New(ctl'.cur)
    PROVE  n = Site'
<1>1. Live /\ Live' /\ ctl'.loop = "build" /\ ctl'.pc \in CallPc
  BY LiveBefore DEF AtSite
<1>2. ASSUME NEW i \in Ops, i = ctl'.cur, Waits(i), ctl.pc \in CallPc => i # Cur
  PROVE FALSE
  <2>1. Absent(i) BY <1>2 DEF WaitInv
  <2>2. Brings(n, i) BY <1>2, <2>1, NewNames DEF Absent
  <2> QED BY <1>2, <2>1, <2>2 DEF Brings, Absent
<1>3. ASSUME ctl.pc \in CallPc, ctl.loop = "build", ctl'.cur = ctl.cur,
      ctl'.todo = ctl.todo
      PROVE  n = Site'
  <2> PICK i : i = Cur OBVIOUS
  <2>1. AtSite /\ (Site' = Site \/ (ctl.pc \in BuildPc /\ op[i].tmp = None))
    BY <1>3, SiteFrom
  <2>2. i \in Ops /\ i = ctl'.cur BY <1>3 DEF FlowInv, CtlInv, CtlType, Cur
  <2>3. CASE dir[n] = New(i)
    <3>1. n = Site BY <2>1, <2>3 DEF SiteInv
    <3>2. ctl.pc \in BuildPc => Site = op[i].tmp BY DEF Site
    <3> QED BY <2>1, <3>1, <3>2, Names0
  <2>4. CASE dir[n] # New(i)
    <3>1. Brings(n, i) BY <2>2, <2>4, NewNames
    <3>2. ~(ctl'.pc = "made" /\ fr'.what = "plain") BY DEF AtSite
    <3>3. ctl.pc \in BuildPc \cup RemovePc \cup {"made", "fail", "failed"}
      BY <1>3 DEF FlowInv, CtlInv
    <3>4. ASSUME Path \in Names \ Temps, dir[Path] = New(i) PROVE FALSE
      <4>1. Path = Site BY <2>1, <3>4 DEF SiteInv
      <4>2. op[i].tmp \in Temps \cup {None} BY <2>2 DEF OpsInv, TypesInv, OpType
      <4>3. Site = op[i].tmp \/ (ctl.pc = "made" /\ fr.what \in {"temp",
            "link"} /\ Site = fr.path)
        BY DEF Site
      <4>4. CASE ctl.pc = "made" /\ fr.what \in {"temp", "link"} /\ Site = fr.path
        <5>1. CallInv(i) BY <4>4, InHand
        <5>2. fr.path \in Temps BY <4>4, <5>1 DEF CallInv, MadeInv
        <5> QED BY <3>4, <4>1, <4>4, <5>2
      <4> QED BY <3>4, <4>1, <4>2, <4>3, <4>4, Names0
    <3>5. ctl.pc \notin NamePc BY <1>3 DEF FlowInv, CtlInv
    <3>6. ctl.pc # "overbackup" BY <3>5
    <3> QED BY <3>1, <3>2, <3>4, <3>5, <3>6 DEF Brings, Site
  <2> QED BY <2>3, <2>4
<1>4. ctl'.cur \in Ops BY DEF FlowInv, CtlInv, CtlType
<1>5. CASE ctl' = ctl BY <1>1, <1>3, <1>5
<1>6. CASE Turns
  <2>1. CASE UNCHANGED <<ctl.todo, ctl.cur>> BY <1>1, <1>3, <1>6, <2>1 DEF Turns
  <2>2. CASE Moves(ctl, ctl')
    <3>1. ctl'.cur \in ctl.todo /\ ctl.loop = "build" /\ ctl.pc \in CallPc
      BY <1>1, <1>6, <2>2 DEF Turns, Moves, After
    <3>2. Waits(ctl'.cur) BY <1>1, <3>1 DEF Waits
    <3>3. ctl'.cur # Cur BY <1>1, <3>1 DEF FlowInv, CtlInv, CtlType, Cur, Ops
    <3> QED BY <1>2, <1>4, <3>2, <3>3
  <2> QED BY <1>6, <2>1, <2>2 DEF Turns
<1>7. CASE batch_run /\ Entered("build", Batch)
  <2>1. ctl.pc = "batch" /\ ctl'.cur \in Batch
    BY <1>1, <1>7 DEF batch_run, Entered, After
  <2>2. Waits(ctl'.cur) BY <2>1 DEF Waits
  <2> QED BY <1>2, <1>4, <2>1, <2>2
<1>8. ~\E l \in DOMAIN Entry \ {"build"}, s \in SUBSET Batch : Entered(l, s)
  BY <1>1 DEF Entered
<1>9. ~DropRelease
  <2>1. DropRelease => ctl'.pc = "report" BY GotoStep DEF DropRelease, FlowInv
  <2> QED BY <1>1, <2>1
<1>10. ~report_one
  <2>1. report_one => ctl'.pc \in {"batch", "exit"}
    BY DEF report_one, FlowInv, CtlInv, CtlType
  <2> QED BY <1>1, <2>1
<1>11. ~Handles BY <1>1 DEF Handles
<1> QED BY <1>5, <1>6, <1>7, <1>8, <1>9, <1>10, <1>11, CtlForms DEF Begins

(* An alias of a new file that an earlier operand put at the same path     *)
(* names a whole file.                                                     *)
LEMMA AliasStep ==
    ASSUME FlowInv, OpsInv, [Next]_vars, WholeInv, AliasInv, AtAlias',
           NEW j \in Ops, dir'[fr'.path] = New(j)
    PROVE  Whole(j)'
<1>1. CASE AtAlias /\ fr' = fr /\ (dir' = dir \/ OtherStep)
  <2>1. ctl.pc \in {"overbackup", "made"} /\ fr.path \in Temps
    <3>1. CallInv(Cur) BY <1>1, InHand DEF AtAlias
    <3> QED BY <1>1, <3>1 DEF AtAlias, CallInv, MadeInv
  <2>2. dir[fr.path] = New(j)
    <3>1. CASE OtherStep
      <4>1. PICK m \in OtherNames : OtherPut(m) \/ OtherUnlink(m) BY <3>1 DEF OtherStep
      <4>2. m # fr.path BY <2>1, WorldAssumption
      <4>3. dir \in [Names -> Inodes \cup {None}] BY DEF OpsInv, TypesInv
      <4> QED
        BY <1>1, <2>1, <4>1, <4>2, <4>3, Names0 DEF OtherPut, OtherUnlink, SetDir, Bind
    <3> QED BY <1>1, <3>1
  <2>3. Whole(j) BY <1>1, <2>2 DEF AliasInv, AtAlias
  <2> QED BY <2>1, <2>3, AttrKept DEF ShapePc
<1>2. CASE Aliased /\ ctl.pc \in CallPc \ RemovePc /\ ctl.loop = "name"
  <2>1. Path \in Targets BY <1>2, InHand
  <2>2. Path \in Names \ Temps BY <2>1, Names0
  <2>3. dir[Path] = New(j)
    <3>1. dir \in [Names -> Inodes \cup {None}] BY DEF OpsInv, TypesInv
    <3> QED BY <1>2, <3>1, Names0 DEF Aliased
  <2>4. Whole(j) BY <2>2, <2>3 DEF WholeInv
  <2>5. ctl.pc \notin ShapePc BY <1>2 DEF ShapePc, FlowInv, CtlInv
  <2> QED BY <2>4, <2>5, AttrKept
<1> QED BY <1>1, <1>2, AliasFrom

(* Every step keeps NamedInv.                                              *)
LEMMA NamedStep ==
    FlowInv /\ OpsInv /\ FlowInv' /\ OpsInv' /\ NamedInv /\ [Next]_vars => NamedInv'
<1> SUFFICES ASSUME FlowInv, OpsInv, FlowInv', OpsInv', NamedInv,
      [Next]_vars PROVE NamedInv'
  OBVIOUS
<1>1. WholeInv /\ PrivateUntilFinal /\ WaitInv /\ SiteInv /\ AliasInv
  BY DEF NamedInv, WholeInv
<1>2. WholeInv' BY <1>1, WholeStep DEF WholeInv
<1>3. PrivateUntilFinal' BY <1>1, PrivateStep DEF PrivateUntilFinal, Private
<1>4. WaitInv' BY <1>1, WaitStep DEF WaitInv
<1>5. SiteInv' BY <1>1, SiteStep DEF SiteInv, Cur
<1>6. AliasInv' BY <1>1, AliasStep DEF AliasInv, AtAlias
<1> QED BY <1>2, <1>3, <1>4, <1>5, <1>6 DEF NamedInv, WholeInv

(* No name holds a new file.                                               *)
LEMMA InitNamed == Init => NamedInv
<1> SUFFICES ASSUME Init PROVE NamedInv OBVIOUS
<1>1. PICK s \in StartSets : start = [n \in Names |-> IF n \in s THEN Old(n) ELSE None]
  BY DEF Init
<1>2. \A n \in Names : dir[n] \in {Old(n), None} BY <1>1 DEF Init
<1>3. \A i \in Ops : None # New(i) BY Inodes0
<1>4. \A i \in Ops, n \in Names : Old(n) # New(i) BY DEF Old, New
<1>5. \A i \in Ops, n \in Names : dir[n] # New(i) BY <1>2, <1>3, <1>4
<1>6. WholeInv BY <1>5 DEF WholeInv
<1>7. PrivateUntilFinal BY <1>5, Names0 DEF PrivateUntilFinal
<1>8. WaitInv BY <1>5 DEF WaitInv, Absent
<1>9. ctl.pc = "batch" BY DEF Init
<1>10. SiteInv BY <1>9 DEF SiteInv, AtSite
<1>11. AliasInv BY <1>9 DEF AliasInv, AtAlias
<1> QED BY <1>6, <1>7, <1>8, <1>10, <1>11 DEF NamedInv, WholeInv

(* Where the files of the operands are named: a path or a backup holds a   *)
(* whole one only, an unfinished one has no name but its temporary one and *)
(* is private there.                                                       *)
THEOREM NamedTheorem == Spec => []NamedInv
<1>1. Init => SafeInv /\ NamedInv BY InitFlow, InitOps, InitSlots, InitNamed DEF SafeInv
<1>2. SafeInv /\ NamedInv /\ [Next]_vars => (SafeInv /\ NamedInv)'
  BY FlowStep, OpsStep, HistStep, SlotsStep, NamedStep DEF SafeInv
<1> QED BY <1>1, <1>2, PTL DEF Spec

(* A path, or the backup of one, never holds a new file that lacks         *)
(* content, owner or mode, or that was not created in place and is not     *)
(* flushed: the order of finish_built(), flush_batch() and name_one().     *)
THEOREM FinishedTheorem == Spec => []FinishedWhenNamed
<1>1. NamedInv => FinishedWhenNamed BY DEF NamedInv, Whole, FinishedWhenNamed
<1> QED BY <1>1, NamedTheorem, PTL

(* While it is not finished, a new file with a temporary name is at mode   *)
(* 0600 without set-id bits, also when it starts out unnamed with its own  *)
(* mode: FinishPrivate before place_link() in finish_built().              *)
THEOREM PrivateTheorem == Spec => []PrivateUntilFinal
<1>1. NamedInv => PrivateUntilFinal BY DEF NamedInv
<1> QED BY <1>1, NamedTheorem, PTL

==============================================================================
