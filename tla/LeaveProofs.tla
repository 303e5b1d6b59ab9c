---------------------------- MODULE LeaveProofs ------------------------------
(***************************************************************************)
(* What a run of newfile(1) leaves behind: no file under a path whose      *)
(* operand failed (SoleInv), no temporary name (OldInv, TempInv), after a  *)
(* signal each path empty, as it was or with its finished file (StartInv,  *)
(* LandInv), with exit status 0 every path as asked (StatusInv), no backup *)
(* without its replacement (BackedInv), numbered backups above the ones in *)
(* use (NumbersInv), every variable in its type, and with --backup no file *)
(* of another without a name (KeepInv).  The invariants are those of       *)
(* NewfileInv; InductiveTheorem puts them together.                        *)
(***************************************************************************)
EXTENDS NewfileProofs

USE DEF At, Pcs, CallPc, BuildPc, NamePc, CommitPc, ReplacePc, RemovePc, HeadPc

(* The steps that change pending[].                                        *)
LEMMA PendForms ==
    ASSUME [Next]_vars
    PROVE  \/ pending' = pending
           \/ RemoveLstat \/ RemoveUnlink \/ Arm \/ CommitClear \/ Renamed \/ Exchanged
           \/ NamePlain \/ drop_spares
<1>1. PlaceStep => pending' = pending \/ Arm \/ CommitClear \/ Renamed \/ Exchanged
  BY DEF PlaceStep, UndoOpen, ProbeDone, CommitRename, CommitLink,
         CommitOver, OverRename, OverFailed, ReplaceRename, ExchangeNames
<1>2. BackupStep => pending' = pending
  BY DEF BackupStep, backup_none, backup_make, backup_next, backup_numbered,
         OutOfNumbers, backup_note, backup_simple, place_temp_alias, OverBackup
<1>3. BatchStep => pending' = pending \/ NamePlain \/ drop_spares
  BY DEF BatchStep, batch_run, build_one, place_probe_mode, open_built, FinishPrivate,
         FinishLink, fill_one, FinishOwner, FinishMode, FlushClose, close_op, NameBatch,
         NameForce, NameUnnamed, NameTemp, FlushBackup, SettleClose,
         SettleOne, Tidied, op_fail, OpFailed, flush_set_run, Dropped, DropRelease,
         report_one, flush_batch, settle_batch, flush_set_add
<1>4. OtherStep \/ SignalTaken \/ HandlerStep \/ Signal \/ UNCHANGED vars => pending' = pending
  BY DEF OtherStep, OtherPut, OtherUnlink, SignalTaken, HandlerStep, Signal, vars
<1> QED BY <1>1, <1>2, <1>3, <1>4 DEF Next, Program, PendingStep, Ended

(* What a step may write to the struct op of the operand in hand.          *)
OpWritten ==
    \/ op' = op
    \/ \E v : op' = [op EXCEPT ![Cur].fd = v]
    \/ \E v : op' = [op EXCEPT ![Cur].tmp = v]
    \/ \E v : op' = [op EXCEPT ![Cur].backup = v]
    \/ \E v, w : op' = [op EXCEPT ![Cur].fd = v, ![Cur].tmp = w]
    \/ \E v, w : op' = [op EXCEPT ![Cur].tmp = v, ![Cur].way = w]
    \/ op' = [op EXCEPT ![Cur].leftover = TRUE]
    \/ op' = [op EXCEPT ![Cur].spare = None]
    \/ Exchanged /\ op' = [op EXCEPT ![Cur].spare = op[Cur].tmp, ![Cur].tmp = None]
    \/ op_fail /\ op' = [op EXCEPT ![Cur].fail = ctl.loop, ![Cur].fd = FALSE]
    \/ op[Cur] = NewOp /\ \E w, f : op' = [op EXCEPT ![Cur] = [NewOp EXCEPT !.way = w, !.fd = f]]
    \/ op' = [i \in Ops |-> IF i \in Batch THEN [op[i] EXCEPT !.backup = None] ELSE op[i]]

(* arm() and what the caller records of the name it was given.             *)
LEMMA ArmWritten == Arm => OpWritten
<1> SUFFICES ASSUME Arm PROVE OpWritten OBVIOUS
<1>1. CASE fr.what = "plain"
  <2>1. op' = [op EXCEPT ![Cur].fd = TRUE] BY <1>1 DEF Arm
  <2> QED BY <2>1 DEF OpWritten
<1>2. CASE fr.what = "temp"
  <2>1. op' = [op EXCEPT ![Cur].fd = TRUE, ![Cur].tmp = fr.path] BY <1>2 DEF Arm
  <2> QED BY <2>1 DEF OpWritten
<1>3. CASE fr.what = "link"
  <2>1. op' = [op EXCEPT ![Cur].tmp = fr.path,
                         ![Cur].way = IF ctl.loop = "build" THEN "temp" ELSE @]
    BY <1>3 DEF Arm
  <2>2. CASE ctl.loop = "build"
    <3>1. op' = [op EXCEPT ![Cur].tmp = fr.path, ![Cur].way = "temp"] BY <2>1, <2>2
    <3> QED BY <3>1 DEF OpWritten
  <2>3. CASE ctl.loop # "build"
    <3>1. op' = [op EXCEPT ![Cur].tmp = fr.path, ![Cur].way = @] BY <2>1, <2>3
    <3> QED BY <3>1 DEF OpWritten
  <2> QED BY <2>2, <2>3
<1>4. CASE fr.what = "backup"
  <2>1. op' = [op EXCEPT ![Cur].backup = fr.path] BY <1>4 DEF Arm
  <2> QED BY <2>1 DEF OpWritten
<1>5. CASE fr.what \notin {"plain", "temp", "link", "backup"}
  BY <1>5 DEF Arm, OpWritten
<1> QED BY <1>1, <1>2, <1>3, <1>4, <1>5

(* Every step writes to struct op in one of these ways.                    *)
LEMMA OpForms ==
    ASSUME FlowInv, OpsInv, [Next]_vars PROVE OpWritten
<1>1. PlaceStep => OpWritten
  <2>1. CommitClear \/ Renamed => op' = [op EXCEPT ![Cur].tmp = None]
    BY DEF CommitClear, Renamed
  <2>2. Exchanged => op' = [op EXCEPT ![Cur].spare = op[Cur].tmp, ![Cur].tmp = None]
    BY DEF Exchanged
  <2>3. PlaceStep => op' = op \/ Arm \/ CommitClear \/ Renamed \/ Exchanged
    BY DEF PlaceStep, UndoOpen, ProbeDone, CommitRename, CommitLink, CommitOver,
           OverRename, OverFailed, ReplaceRename, ExchangeNames
  <2>4. op' = [op EXCEPT ![Cur].tmp = None] => OpWritten BY DEF OpWritten
  <2>5. op' = op \/ Exchanged => OpWritten BY <2>2 DEF OpWritten
  <2> QED BY <2>1, <2>3, <2>4, <2>5, ArmWritten
<1>2. BackupStep => op' = op \/ op' = [op EXCEPT ![Cur].backup = Simple(Path)]
  BY DEF BackupStep, backup_none, backup_make, backup_next, backup_numbered,
         OutOfNumbers, backup_note, backup_simple, place_temp_alias, OverBackup
<1>3. ASSUME BatchStep PROVE OpWritten
  <2>1. CASE build_one
    <3>1. op[Cur] = NewOp BY <2>1, InHand DEF build_one, CallInv, Pristine
    <3>2. \E w, f : op' = [op EXCEPT ![Cur] = [NewOp EXCEPT !.way = w, !.fd = f]]
      <4>1. CASE op' = [op EXCEPT ![Cur] = NewOp]
        <5> DEFINE o == [NewOp EXCEPT !.way = "plain", !.fd = FALSE]
        <5>1. NewOp \in OpType /\ o \in OpType /\ NewOp.way = "plain" /\ NewOp.fd = FALSE
          BY DEF NewOp, OpType
        <5>2. NewOp = o BY <5>1 DEF OpType
        <5> QED BY <4>1, <5>2
      <4>2. CASE op' = [op EXCEPT ![Cur] = [NewOp EXCEPT
                      !.way = IF kern.tmpfile THEN "unnamed" ELSE "temp",
                      !.fd = kern.tmpfile]]
        BY <4>2
      <4> QED BY <2>1, <4>1, <4>2 DEF build_one
    <3> QED BY <3>1, <3>2 DEF OpWritten
  <2>2. op_fail => op' = [op EXCEPT ![Cur].fail = ctl.loop, ![Cur].fd = FALSE]
    BY DEF op_fail
  <2>3. report_one => op' = [i \in Ops |-> IF i \in Batch THEN [op[i] EXCEPT !.backup = None]
                                           ELSE op[i]]
    BY DEF report_one
  <2>4. Tidied \/ OpFailed => op' = [op EXCEPT ![Cur].tmp = None] BY DEF Tidied, OpFailed
  <2>5. close_op \/ SettleOne => op' = [op EXCEPT ![Cur].fd = FALSE]
    BY DEF close_op, SettleOne
  <2>6. Dropped => op' = [op EXCEPT ![Cur].spare = None] BY DEF Dropped
  <2>7. \/ op' = op \/ build_one \/ op_fail \/ report_one \/ Tidied \/ OpFailed
        \/ close_op \/ SettleOne \/ Dropped
    BY <1>3
    DEF BatchStep, batch_run, place_probe_mode, open_built, FinishPrivate,
         FinishLink, fill_one, FinishOwner, FinishMode, FlushClose, NameBatch,
         NameForce, NameUnnamed, NameTemp, NamePlain, FlushBackup, SettleClose,
         flush_set_run, DropRelease, drop_spares, flush_batch, settle_batch,
         flush_set_add
  <2>8. op' = [op EXCEPT ![Cur].tmp = None] => OpWritten BY DEF OpWritten
  <2>9. op' = [op EXCEPT ![Cur].fd = FALSE] => OpWritten BY DEF OpWritten
  <2>10. op' = op \/ op_fail \/ report_one \/ Dropped => OpWritten
    BY <2>2, <2>3, <2>6 DEF OpWritten
  <2> QED BY <2>1, <2>4, <2>5, <2>7, <2>8, <2>9, <2>10
<1>4. RemoveLstat \/ RemoveUnlink => op' = op \/ op' = [op EXCEPT ![Cur].leftover = TRUE]
  BY DEF RemoveLstat, RemoveUnlink, RemoveDone
<1>5. OtherStep \/ SignalTaken \/ HandlerStep \/ Signal \/ UNCHANGED vars => op' = op
  BY DEF OtherStep, OtherPut, OtherUnlink, SignalTaken, HandlerStep, Signal, vars
<1>6. op' = [op EXCEPT ![Cur].backup = Simple(Path)] => OpWritten BY DEF OpWritten
<1>7. op' = op \/ op' = [op EXCEPT ![Cur].leftover = TRUE] => OpWritten BY DEF OpWritten
<1> QED BY <1>1, <1>2, <1>3, <1>4, <1>5, <1>6, <1>7 DEF Next, Program, PendingStep, Ended

(* An operand fails in op_fail() only, gets a spare by an exchange only,   *)
(* and keeps what was noted of it as left over.                            *)
LEMMA OpFields ==
    ASSUME FlowInv, OpsInv, [Next]_vars, NEW i \in Ops
    PROVE  /\ \/ op'[i].fail = op[i].fail
              \/ i = Cur /\ op_fail /\ op'[i].fail = ctl.loop
           /\ \/ op'[i].spare = op[i].spare \/ op'[i].spare = None
              \/ i = Cur /\ Exchanged
           /\ op[i].leftover => op'[i].leftover
<1>1. op \in [Ops -> OpType] /\ Cur \in Ops
  BY DEF OpsInv, TypesInv, FlowInv, CtlInv, CtlType, Cur
<1>2. CASE op[Cur] = NewOp /\ \E w, f : op' = [op EXCEPT ![Cur] = [NewOp EXCEPT !.way = w,
                                                                             !.fd = f]]
  BY <1>1, <1>2 DEF NewOp, OpType
<1>3. CASE op' = [j \in Ops |-> IF j \in Batch THEN [op[j] EXCEPT !.backup = None]
                                ELSE op[j]]
  BY <1>1, <1>3 DEF OpType
<1>4. CASE Exchanged /\ op' = [op EXCEPT ![Cur].spare = op[Cur].tmp, ![Cur].tmp = None]
  BY <1>1, <1>4 DEF OpType
<1>5. CASE op_fail /\ op' = [op EXCEPT ![Cur].fail = ctl.loop, ![Cur].fd = FALSE]
  BY <1>1, <1>5 DEF OpType
<1>6. CASE op' = [op EXCEPT ![Cur].leftover = TRUE] \/ op' = [op EXCEPT ![Cur].spare = None]
  BY <1>1, <1>6 DEF OpType
<1>7. CASE \E v : op' = [op EXCEPT ![Cur].fd = v]
  BY <1>1, <1>7 DEF OpType
<1>8. CASE \E v : op' = [op EXCEPT ![Cur].tmp = v]
  BY <1>1, <1>8 DEF OpType
<1>9. CASE \E v : op' = [op EXCEPT ![Cur].backup = v]
  BY <1>1, <1>9 DEF OpType
<1>10. CASE \E v, w : op' = [op EXCEPT ![Cur].fd = v, ![Cur].tmp = w]
  BY <1>1, <1>10 DEF OpType
<1>11. CASE \E v, w : op' = [op EXCEPT ![Cur].tmp = v, ![Cur].way = w]
  BY <1>1, <1>11 DEF OpType
<1>12. CASE op' = op BY <1>12
<1> QED BY <1>2, <1>3, <1>4, <1>5, <1>6, <1>7, <1>8, <1>9, <1>10, <1>11, <1>12, OpForms
        DEF OpWritten

(* The steps that find a name they cannot remove, or keep one.             *)
LEMMA HistForms ==
    ASSUME FlowInv, HistInv, [Next]_vars
    PROVE  /\ \/ hist'.refused = hist.refused
              \/ /\ RemoveLstat \/ RemoveUnlink \/ (UndoOpen /\ fr.flag /\ ctl'.pc = "fail")
                 /\ hist'.refused = hist.refused \cup {fr.path}
           /\ \/ hist'.kept = hist.kept
              \/ drop_spares /\ hist'.kept = hist.kept \cup {op[Cur].spare}
           /\ hist'.other = hist.other \/ OtherStep
<1> DEFINE Same == /\ hist'.refused = hist.refused /\ hist'.kept = hist.kept
                   /\ hist'.other = hist.other
<1> USE DEF HistInv, HistTypes, Fault, FaultAt, NoTemp, NoLink
<1>1. UndoOpen => /\ \/ hist'.refused = hist.refused
                     \/ /\ fr.flag /\ ctl'.pc = "fail"
                        /\ hist'.refused = hist.refused \cup {fr.path}
                  /\ hist'.kept = hist.kept /\ hist'.other = hist.other
  BY CallStep DEF UndoOpen
<1>2. RemoveLstat \/ RemoveUnlink => /\ \/ hist'.refused = hist.refused
                                        \/ hist'.refused = hist.refused \cup {fr.path}
                                     /\ hist'.kept = hist.kept /\ hist'.other = hist.other
  BY DEF RemoveLstat, RemoveUnlink
<1>3. drop_spares => /\ hist'.refused = hist.refused /\ hist'.other = hist.other
                     /\ \/ hist'.kept = hist.kept
                        \/ hist'.kept = hist.kept \cup {op[Cur].spare}
  BY DEF drop_spares
<1>4. PlaceStep => Same \/ UndoOpen
  BY DEF PlaceStep, Arm, ProbeDone, CommitRename, CommitClear, CommitLink,
         CommitOver, OverRename, OverFailed, ReplaceRename, Renamed, ExchangeNames,
         Exchanged
<1>5. BackupStep => Same
  BY DEF BackupStep, backup_none, backup_make, backup_next, backup_numbered,
         OutOfNumbers, backup_note, backup_simple, place_temp_alias, OverBackup
<1>6. BatchStep => Same \/ drop_spares
  BY DEF BatchStep, batch_run, build_one, place_probe_mode, open_built, FinishPrivate,
         FinishLink, fill_one, FinishOwner, FinishMode, FlushClose, close_op, NameBatch,
         NameForce, NameUnnamed, NameTemp, NamePlain, FlushBackup, SettleClose,
         SettleOne, Tidied, op_fail, OpFailed, flush_set_run, Dropped, DropRelease,
         report_one, flush_batch, settle_batch, flush_set_add, flush_ops
<1>7. SignalTaken \/ HandlerStep \/ Signal \/ UNCHANGED vars => Same
  BY DEF SignalTaken, HandlerStep, Signal, vars
<1>8. OtherStep => hist'.refused = hist.refused /\ hist'.kept = hist.kept
  BY DEF OtherStep, OtherPut, OtherUnlink
<1> QED BY <1>1, <1>2, <1>3, <1>4, <1>5, <1>6, <1>7, <1>8
        DEF Next, Program, PendingStep, Ended

(* What cleanup_handler() does.                                            *)
LEMMA HandlerActions ==
    ASSUME FlowInv, [Next]_vars, ~Live
    PROVE  /\ \/ RemoveLstat \/ RemoveUnlink \/ HandlerStep
              \/ UNCHANGED <<ctl, fr>> /\ (dir' = dir \/ OtherStep)
           /\ UNCHANGED <<pending, op, mem, file, sig>>
<1>1. ctl.pc \in {"handler", "killed"} \cup RemovePc BY DEF FlowInv, HeldInv
<1>2. ~PlaceStep /\ ~BackupStep
  BY <1>1
  DEF PlaceStep, Arm, UndoOpen, ProbeDone, CommitRename, CommitClear, CommitLink,
      CommitOver, OverRename, OverFailed, ReplaceRename, Renamed, ExchangeNames,
      Exchanged, BackupStep, backup_none, backup_make, backup_next, backup_numbered,
      OutOfNumbers, backup_note, backup_simple, place_temp_alias, OverBackup
<1>3. ~BatchStep
  BY <1>1
  DEF BatchStep, batch_run, build_one, place_probe_mode, open_built, FinishPrivate,
      FinishLink, fill_one, FinishOwner, FinishMode, FlushClose, close_op, NameBatch,
      NameForce, NameUnnamed, NameTemp, NamePlain, FlushBackup, SettleClose,
      SettleOne, Tidied, op_fail, OpFailed, flush_set_run, Dropped, DropRelease,
      report_one, flush_batch, settle_batch, flush_set_add, drop_spares
<1>4. ~Signal /\ ~SignalTaken BY DEF Signal, SignalTaken, Live
<1>5. OtherStep \/ UNCHANGED vars =>
        /\ UNCHANGED <<ctl, fr, pending, op, mem, file, sig>>
        /\ dir' = dir \/ OtherStep
  BY DEF OtherStep, OtherPut, OtherUnlink, vars
<1>6. RemoveLstat \/ RemoveUnlink => UNCHANGED <<pending, op, mem, file, sig>>
  <2> SUFFICES ASSUME RemoveLstat \/ RemoveUnlink
               PROVE  UNCHANGED <<pending, op, mem, file, sig>>
    OBVIOUS
  <2>1. ctl.pc \in RemovePc BY DEF RemoveLstat, RemoveUnlink
  <2>2. ~fr.flag BY <2>1 DEF FlowInv, CallFrame
  <2> QED BY <2>2 DEF RemoveLstat, RemoveUnlink, RemoveDone, Live
<1>7. HandlerStep => UNCHANGED <<pending, op, mem, file, sig>> BY DEF HandlerStep
<1> QED BY <1>2, <1>3, <1>4, <1>5, <1>6, <1>7 DEF Next, Program, PendingStep, Ended

(* The steps that let go of the name slot s guards because it is the       *)
(* file's own by now, or turn the slot to the old file.                    *)
Frees(s) == /\ \/ CommitClear \/ Renamed \/ Exchanged \/ NamePlain
            /\ ctl'.pc = "named" /\ Live
            /\ s = Slot(Cur) \/ (s = BackupSlot /\ (Renamed \/ Exchanged))

(* A name that a slot guards, and that keeps its file, stays guarded until *)
(* the kernel refuses to remove it, drop_spares() keeps it or the slot is  *)
(* freed: in the program and in the handler.                               *)
LEMMA GuardStep ==
    ASSUME FlowInv, OpsInv, HistInv, [Next]_vars, FlowInv',
           NEW s \in Slots, NEW n \in Names, NEW x \in Inodes,
           Guards(s, n, x), Watches(s), dir[n] = x, dir'[n] = x
    PROVE  \/ Guards(s, n, x)' /\ Watches(s)'
           \/ /\ n \in hist'.refused /\ ctl.pc \in RemovePc /\ s = fr.slot
              /\ n = fr.path /\ x = fr.ino
           \/ drop_spares /\ s = Slot(Cur) /\ n \in hist'.kept
           \/ Frees(s)
<1>1. /\ pending \in [Slots -> SlotType] /\ dir \in [Names -> Inodes \cup {None}]
      /\ x # None /\ n # None
  BY Inodes0, Names0 DEF OpsInv, TypesInv
<1>2. /\ BatchSize \in Nat \ {0} /\ Slots = 1..(BatchSize + 1) /\ 0 \notin Slots /\ s \in Nat
      /\ s > 0
  BY WorldAssumption DEF Slots, BackupSlot
<1>3. CASE RemoveLstat \/ RemoveUnlink
  <2>1. ctl.pc \in RemovePc /\ sig' = sig /\ fr' = fr
    BY <1>3 DEF RemoveLstat, RemoveUnlink
  <2>2. fr.path \in Names /\ (fr.slot \in Slots => Guards(fr.slot, fr.path, fr.ino))
    BY <2>1 DEF OpsInv, RemoveFrame
  <2>3. CASE s = fr.slot
    <3>1. n = fr.path /\ x = fr.ino BY <2>2, <2>3 DEF Guards
    <3>2. CASE RemoveLstat /\ dir[fr.path] = fr.ino /\ Goto("unlink") /\ pending' = pending
      <4>1. ctl'.pc = "unlink" BY <3>2, CallStep
      <4> QED BY <2>1, <2>3, <3>2, <4>1 DEF Watches, Guards, Live
    <3>3. CASE FaultAt(fr.path)
      BY <2>1, <2>3, <3>1, <3>3 DEF FaultAt, HistInv, HistTypes
    <3>4. ~(SetDir(Bind(dir, fr.path, None)))
      BY <1>1, <3>1 DEF SetDir, Bind
    <3> QED BY <1>1, <1>3, <3>1, <3>2, <3>3, <3>4 DEF RemoveLstat, RemoveUnlink, Free
  <2>4. CASE s # fr.slot
    <3>1. pending'[s] = pending[s]
      BY <1>1, <1>3, <2>4 DEF RemoveLstat, RemoveUnlink, RemoveDone, pending_clear
    <3>2. ctl'.pc # "killed"
      <4>1. Goto("unlink") \/ Goto(fr.then)
        BY <1>3 DEF RemoveLstat, RemoveUnlink, RemoveDone
      <4>2. fr.then \in CallPc \cup {"handler"}
        BY <2>1 DEF FlowInv, CallFrame, FrRemove
      <4> QED BY <4>1, <4>2, GotoStep DEF FlowInv
    <3>3. Live => Live' BY <2>1 DEF Live
    <3> QED BY <2>1, <2>4, <3>1, <3>2, <3>3 DEF Watches, Guards
  <2> QED BY <2>3, <2>4
<1>4. CASE ~Live /\ ~(RemoveLstat \/ RemoveUnlink)
  <2>1. pending' = pending /\ sig' = sig /\ (HandlerStep \/ UNCHANGED <<ctl, fr>>)
    BY <1>4, HandlerActions
  <2>2. CASE UNCHANGED <<ctl, fr>>
    BY <1>4, <2>1, <2>2 DEF Watches, Guards, Live
  <2>3. CASE HandlerStep
    <3>1. ctl.pc = "handler" BY <2>3 DEF HandlerStep
    <3>2. s > fr.slot BY <1>4, <3>1 DEF Watches
    <3> DEFINE later == {k \in Slots : k > fr.slot /\ Armed(k)}
               m     == CHOOSE k \in later : \A j \in later : k <= j
    <3>3. s \in later BY <1>1, <3>2 DEF Guards, Armed
    <3>4. pending_remove(m, FALSE, "handler") BY <2>3, <3>3 DEF HandlerStep
    <3>5. m \in later /\ m <= s
      <4>1. later \in SUBSET Nat BY <1>2
      <4> HIDE DEF later
      <4> QED BY <3>3, <4>1, LeastExists
    <3> HIDE DEF m
    <3>6. Armed(m) /\ m \in Slots BY <3>5
    <3>7. fr'.slot = m /\ Goto("lstat") BY <3>4, <3>6 DEF pending_remove
    <3>8. ctl'.pc = "lstat" BY <3>7, CallStep
    <3>9. m \in Nat BY <1>2, <3>6
    <3> QED BY <1>2, <2>1, <3>5, <3>7, <3>8, <3>9 DEF Watches, Guards, Live
  <2> QED BY <2>1, <2>2, <2>3
<1>5. CASE SignalTaken
  <2>1. pending' = pending /\ fr'.slot = 0 /\ Goto("handler")
    BY <1>5 DEF SignalTaken, NoFrame
  <2>2. ctl'.pc = "handler" BY <2>1, GotoStep DEF FlowInv
  <2> QED BY <1>2, <2>1, <2>2 DEF Watches, Guards
<1>6. CASE Live /\ ~SignalTaken /\ ~(RemoveLstat \/ RemoveUnlink)
  <2>1. Live' BY <1>6, SigStep DEF Signal, Live
  <2>2. ctl'.pc # "killed" BY <2>1 DEF FlowInv, HeldInv
  <2>3. pending'[s] = pending[s] => Guards(s, n, x)' /\ Watches(s)'
    BY <2>1, <2>2 DEF Guards, Watches
  <2>4. CASE Arm
    <3>1. ctl.pc = "made" BY <2>4 DEF Arm
    <3>2. MadeInv(Cur) /\ FrMade BY <3>1, InHand DEF CallInv, FlowInv, CallFrame
    <3>3. fr.what = "over" \/ ~Armed(fr.slot)
      BY <3>2 DEF MadeInv, FrMade, Unnamed, Nameless, Bared
    <3>4. s # fr.slot \/ fr.what = "over" BY <1>1, <3>3 DEF Guards, Armed
    <3>5. pending'[s] = pending[s] BY <1>1, <2>4, <3>4 DEF Arm
    <3> QED BY <2>3, <3>5
  <2>5. CASE CommitClear \/ Renamed \/ Exchanged
    <3>1. Goto("named") BY <2>5 DEF CommitClear, Renamed, Exchanged
    <3>2. ctl'.pc = "named" BY <3>1, CallStep
    <3>3. Slot(Cur) \in Slots
      BY <2>5, InHand DEF CommitClear, Renamed, Exchanged
    <3>4. \/ pending'[s] = pending[s] \/ s = Slot(Cur)
          \/ s = BackupSlot /\ (Renamed \/ Exchanged)
      BY <1>1, <2>5, <3>3 DEF CommitClear, Renamed, Exchanged, pending_clear
    <3> QED BY <1>6, <2>3, <2>5, <3>2, <3>4 DEF Frees
  <2>6. CASE NamePlain
    <3>1. pending' = pending \/ (pending' = pending_clear(pending, Slot(Cur)) /\ Goto("named"))
      BY <2>6 DEF NamePlain
    <3>2. Goto("named") => ctl'.pc = "named" BY CallStep
    <3>3. pending'[s] = pending[s] \/ (s = Slot(Cur) /\ Goto("named"))
      BY <1>1, <3>1 DEF pending_clear
    <3> QED BY <1>6, <2>3, <2>6, <3>2, <3>3 DEF Frees
  <2>7. CASE drop_spares
    <3>1. ctl.pc = "drop" BY <2>7 DEF drop_spares
    <3>2. Spared(Cur) BY <3>1, InHand DEF CallInv
    <3>3. \/ pending' = pending
          \/ /\ pending' = pending_clear(pending, Slot(Cur))
             /\ hist' = [hist EXCEPT !.kept = @ \cup {op[Cur].spare},
                                  !.faults = IF mem.dirfailed THEN @ ELSE @ + 1]
      BY <2>7 DEF drop_spares
    <3>4. pending' # pending => op[Cur].spare \in hist'.kept
      BY <3>3 DEF HistInv, HistTypes
    <3>5. pending'[s] = pending[s] \/ (s = Slot(Cur) /\ pending' # pending)
      BY <1>1, <3>3 DEF pending_clear
    <3>6. s = Slot(Cur) => n = op[Cur].spare BY <3>2 DEF Spared, Guards
    <3> QED BY <2>3, <2>7, <3>4, <3>5, <3>6
  <2> QED BY <1>6, <2>3, <2>4, <2>5, <2>6, <2>7, PendForms
<1> QED BY <1>3, <1>4, <1>5, <1>6

(* What can happen when a name has just been made and is not armed yet:    *)
(* signals are held.                                                       *)
LEMMA MadeActions ==
    ASSUME FlowInv, [Next]_vars, ctl.pc = "made"
    PROVE  /\ Arm \/ UndoOpen \/ UNCHANGED <<ctl, fr, op, pending, mem, file>>
           /\ Live /\ Live'
<1>1. Live /\ held > 0
  BY DEF FlowInv, HeldInv, Holding
<1>2. ~PendingStep
  BY <1>1 DEF PendingStep, RemoveLstat, RemoveUnlink, SignalTaken, HandlerStep
<1>3. PlaceStep => Arm \/ UndoOpen
  BY DEF PlaceStep, ProbeDone, CommitRename, CommitClear, CommitLink,
      CommitOver, OverRename, OverFailed, ReplaceRename, Renamed, ExchangeNames,
      Exchanged
<1>4. ~BackupStep
  BY DEF BackupStep, backup_none, backup_make, backup_next, backup_numbered,
      OutOfNumbers, backup_note, backup_simple, place_temp_alias, OverBackup
<1>5. ~BatchStep
  BY DEF BatchStep, batch_run, build_one, place_probe_mode, open_built, FinishPrivate,
      FinishLink, fill_one, FinishOwner, FinishMode, FlushClose, close_op, NameBatch,
      NameForce, NameUnnamed, NameTemp, NamePlain, FlushBackup, SettleClose,
      SettleOne, Tidied, op_fail, OpFailed, flush_set_run, Dropped, DropRelease,
      report_one, flush_batch, settle_batch, flush_set_add, drop_spares
<1>6. OtherStep \/ Signal \/ UNCHANGED vars => UNCHANGED <<ctl, fr, op, pending, mem, file>>
  BY DEF OtherStep, OtherPut, OtherUnlink, Signal, vars
<1>7. Arm \/ UndoOpen \/ OtherStep \/ Signal \/ UNCHANGED vars => Live'
  BY <1>1 DEF Arm, UndoOpen, OtherStep, OtherPut, OtherUnlink, Signal, vars, Live
<1> QED BY <1>1, <1>2, <1>3, <1>4, <1>5, <1>6, <1>7 DEF Next, Program, Ended

(* A name just made becomes a guarded one, or the kernel refuses to undo   *)
(* it; the placeholder is not guarded.                                     *)
LEMMA MadeStep ==
    ASSUME FlowInv, OpsInv, HistInv, [Next]_vars, ctl.pc = "made", NEW n, n = fr.path,
           dir[n] # None, dir'[n] = dir[n]
    PROVE  /\ Live /\ Live'
           /\ \/ UNCHANGED <<ctl, fr, op, pending, mem, file>>
              \/ /\ Arm /\ fr.what # "over" /\ fr.slot \in Slots /\ fr' = fr
                 /\ Guards(fr.slot, n, fr.ino)' /\ ctl'.pc # "killed"
              \/ Arm /\ fr.what = "over" /\ fr' = fr /\ ctl'.pc = "over"
              \/ UndoOpen /\ n \in hist'.refused /\ ctl'.pc = "fail"
<1>1. Live /\ Live' BY MadeActions
<1>2. FrMade /\ MadeInv(Cur) /\ Slot(Cur) \in Slots /\ BackupSlot \in Slots
      /\ pending \in [Slots -> SlotType] /\ dir \in [Names -> Inodes \cup {None}]
  BY InHand, Slots0 DEF FlowInv, CallFrame, CallInv, TypesInv
<1>3. fr.path \in Names
  BY <1>2, InHand, Names0 DEF MadeInv
<1>4. CASE Arm
  <2>1. fr' = fr /\ Goto(fr.then) BY <1>4 DEF Arm
  <2>2. fr.then \in Pcs \cup {"next"} /\ fr.then # "killed"
    BY <1>2, Bools DEF FrMade, Finish, AfterFill
  <2>3. ctl'.pc # "killed" /\ (fr.then # "next" => ctl'.pc = fr.then)
    BY <2>1, <2>2, GotoStep DEF FlowInv, Moves, Entry, After, CtlInv, CtlType
  <2>4. fr.what = "over" => fr.then = "over" BY <1>2 DEF FrMade
  <2>5. fr.what # "over" => fr.slot \in Slots BY <1>2 DEF FrMade
  <2>6. fr.what # "over" => pending'[fr.slot] = [path |-> fr.path, ino |-> fr.ino]
    BY <1>2, <1>4, <2>5 DEF Arm
  <2>7. fr.what # "over" => Guards(fr.slot, n, fr.ino)' BY <2>1, <2>6 DEF Guards
  <2> QED BY <1>1, <1>4, <2>1, <2>3, <2>4, <2>5, <2>7
<1>5. CASE UndoOpen
  <2>1. ~SetDir(Bind(dir, fr.path, None)) BY <1>2, <1>3 DEF SetDir, Bind
  <2>2. fr.path \in hist'.refused BY <1>5, <2>1 DEF UndoOpen, HistInv, HistTypes
  <2>3. ctl'.pc = "fail" BY <1>5, CallStep DEF UndoOpen
  <2> QED BY <1>1, <1>5, <2>2, <2>3
<1> QED BY <1>1, <1>4, <1>5, MadeActions

(* A file that has its name is not named again.                            *)
LEMMA PlacedActions ==
    ASSUME FlowInv, [Next]_vars, ctl.pc \in PlacedPc, Live'
    PROVE  \/ UNCHANGED <<ctl, fr, op, pending, mem, file>> /\ (dir' = dir \/ OtherStep)
           \/ ctl'.pc = "named" /\ (CommitClear \/ Renamed \/ Exchanged)
           \/ flush_set_add /\ Moves(ctl, ctl') /\ ctl.pc = "named"
<1>1. ~(RemoveLstat \/ RemoveUnlink \/ SignalTaken \/ HandlerStep)
  BY DEF RemoveLstat, RemoveUnlink, SignalTaken, HandlerStep, PlacedPc, Live
<1>2. PlaceStep => CommitClear \/ Renamed \/ Exchanged
  BY DEF PlaceStep, ProbeDone, CommitRename, CommitLink, Arm, UndoOpen,
      CommitOver, OverRename, OverFailed, ReplaceRename, ExchangeNames, PlacedPc
<1>3. ~BackupStep
  BY DEF BackupStep, backup_none, backup_make, backup_next, backup_numbered, PlacedPc,
      OutOfNumbers, backup_note, backup_simple, place_temp_alias, OverBackup
<1>4. BatchStep => flush_set_add
  BY DEF BatchStep, batch_run, build_one, place_probe_mode, open_built, FinishPrivate,
      FinishLink, fill_one, FinishOwner, FinishMode, FlushClose, close_op, NameBatch,
      NameForce, NameUnnamed, NameTemp, NamePlain, FlushBackup, SettleClose,
      SettleOne, Tidied, op_fail, OpFailed, flush_set_run, Dropped, DropRelease,
      report_one, flush_batch, settle_batch, drop_spares, PlacedPc
<1>5. CommitClear \/ Renamed \/ Exchanged => ctl'.pc = "named"
  BY CallStep DEF CommitClear, Renamed, Exchanged
<1>6. flush_set_add => Moves(ctl, ctl') /\ ctl.pc = "named"
  BY GotoStep DEF flush_set_add, FlowInv
<1>7. OtherStep \/ Signal \/ UNCHANGED vars =>
        UNCHANGED <<ctl, fr, op, pending, mem, file>> /\ (dir' = dir \/ OtherStep)
  BY DEF OtherStep, OtherPut, OtherUnlink, Signal, vars
<1> QED BY <1>1, <1>2, <1>3, <1>4, <1>5, <1>6, <1>7 DEF Next, Program, PendingStep, Ended

(* The loops after name_one() are not those before it.                     *)
LEMMA LaterLoop ==
    ASSUME FlowInv, [Next]_vars, ctl.pc \in HeadPc \ {"batch"}, Live',
           ctl.loop \notin {"build", "flush", "close"}, ctl' # ctl
    PROVE  ctl'.loop \in {"settle", "tidy", "drop"}
<1>1. ctl.pc \in {"settle", "tidying", "sync", "release", "report", "exit"}
  BY DEF FlowInv, CtlInv, LoopOf
<1>2. ~PendingStep /\ ~PlaceStep /\ ~BackupStep
  BY <1>1
  DEF PlaceStep, Arm, UndoOpen, ProbeDone, CommitRename, CommitClear, CommitLink,
      CommitOver, OverRename, OverFailed, ReplaceRename, Renamed, ExchangeNames,
      Exchanged, BackupStep, backup_none, backup_make, backup_next, backup_numbered,
      OutOfNumbers, backup_note, backup_simple, place_temp_alias, OverBackup,
      PendingStep, RemoveLstat, RemoveUnlink, SignalTaken, HandlerStep, Live
<1>3. BatchStep => settle_batch \/ SettleClose \/ flush_set_run \/ DropRelease \/ report_one
  BY <1>1
  DEF BatchStep, batch_run, build_one, place_probe_mode, open_built, FinishPrivate,
      FinishLink, fill_one, FinishOwner, FinishMode, FlushClose, close_op, NameBatch,
      NameForce, NameUnnamed, NameTemp, NamePlain, FlushBackup, flush_set_add,
      SettleOne, Tidied, op_fail, OpFailed, Dropped, flush_batch, drop_spares
<1>4. Opened \subseteq Batch /\ "settle" \in DOMAIN Entry /\ "tidy" \in DOMAIN Entry
      /\ "drop" \in DOMAIN Entry
  BY DEF Opened, Kept, Entry
<1>5. CtlInv /\ ctl \in CtlType BY DEF FlowInv, CtlInv
<1>6. CASE settle_batch
  <2>1. PICK bad \in SUBSET Opened : ctl' = Loop("settle", bad)
    BY <1>6 DEF settle_batch, flush_ops
  <2> QED BY <1>4, <1>5, <2>1, LoopEntered DEF Entered
<1>7. CASE SettleClose BY <1>4, <1>5, <1>7, LoopEntered DEF SettleClose, Entered
<1>8. CASE flush_set_run
  <2>1. {i \in Batch : op[i].spare # None} \in SUBSET Batch OBVIOUS
  <2> QED BY <1>4, <1>5, <1>8, <2>1, LoopEntered DEF flush_set_run, Entered
<1>9. CASE DropRelease
  <2>1. ctl.loop = "drop" BY <1>9 DEF DropRelease, FlowInv, CtlInv, LoopOf
  <2> QED BY <1>9, <2>1, GotoStep DEF DropRelease, FlowInv
<1>10. CASE report_one
  <2>1. ctl.loop = "drop" BY <1>10 DEF report_one, FlowInv, CtlInv, LoopOf
  <2> QED BY <1>5, <1>10, <2>1 DEF report_one, CtlType
<1>11. OtherStep \/ Signal \/ UNCHANGED vars => ctl' = ctl
  BY DEF OtherStep, OtherPut, OtherUnlink, Signal, vars
<1> QED BY <1>2, <1>3, <1>6, <1>7, <1>8, <1>9, <1>10, <1>11 DEF Next, Program, Ended

(* An operand yet to be named was so before, or its batch begins.          *)
LEMMA ComingBack ==
    ASSUME FlowInv, [Next]_vars, NEW i \in Ops, Coming(i)'
    PROVE  Coming(i) \/ (ctl.pc = "batch" /\ i \in Batch /\ batch_run)
<1>1. Live /\ Live' BY LiveBefore DEF Coming
<1>2. /\ ctl.todo \subseteq Batch /\ ctl \in CtlType
      /\ ctl.pc \in CallPc => Cur \in Batch
  BY <1>1 DEF FlowInv, CtlInv
<1>3. CASE ctl' = ctl BY <1>1, <1>3 DEF Coming, Batch, Cur
<1>4. CASE Turns
  <2>1. /\ ctl'.first = ctl.first /\ ctl'.loop = ctl.loop /\ ctl'.todo \subseteq ctl.todo
        /\ ctl.pc \in CallPc /\ ctl.pc # "batch"
    BY <1>2, <1>4 DEF Turns, Moves
  <2>2. Batch' = Batch BY <2>1 DEF Batch
  <2>3. CASE ctl.loop \in {"build", "flush", "close"}
    BY <1>1, <2>1, <2>2, <2>3 DEF Coming
  <2>4. CASE ctl.loop = "name" /\ i \in ctl'.todo
    BY <1>1, <2>1, <2>2, <2>4 DEF Coming
  <2>5. CASE ctl.loop = "name" /\ i = ctl'.cur /\ ctl'.pc \in CallPc \ PlacedPc
    <3>1. CASE Moves(ctl, ctl')
      <4>1. i \in ctl.todo BY <2>5, <3>1 DEF Moves, After
      <4> QED BY <1>1, <1>2, <2>1, <2>5, <4>1 DEF Coming
    <3>2. CASE ctl'.pc \in CallPc /\ UNCHANGED <<ctl.todo, ctl.cur>> /\ ~Moves(ctl, ctl')
      <4>1. ctl.pc \in PlacedPc => ctl' = ctl
        BY <1>1, <2>5, <3>2, PlacedActions DEF PlacedPc
      <4>2. ctl.pc \notin PlacedPc BY <2>5, <4>1
      <4> QED BY <1>1, <1>2, <2>1, <2>5, <3>2, <4>2 DEF Coming, Cur
    <3> QED BY <1>4, <3>1, <3>2 DEF Turns
  <2> QED BY <2>1, <2>3, <2>4, <2>5 DEF Coming, Cur
<1>5. CASE Begins
  <2>1. CASE batch_run /\ Entered("build", Batch)
    <3>1. ctl.pc = "batch" /\ ctl'.first = ctl.first BY <2>1 DEF batch_run, Entered
    <3>2. Batch' = Batch BY <3>1 DEF Batch
    <3> QED BY <2>1, <3>1, <3>2 DEF Coming
  <2>2. CASE /\ ctl.pc \in HeadPc \ {"batch"}
             /\ \E l \in DOMAIN Entry \ {"build"}, s \in SUBSET Batch : Entered(l, s)
    <3>1. ctl'.first = ctl.first BY <2>2 DEF Entered
    <3>2. Batch' = Batch BY <3>1 DEF Batch
    <3>3. CASE ctl.loop \in {"build", "flush", "close"}
      BY <1>1, <2>2, <3>2, <3>3 DEF Coming
    <3>4. CASE ctl.loop \notin {"build", "flush", "close"} /\ ctl' # ctl
      <4>1. ctl'.loop \in {"settle", "tidy", "drop"} BY <1>1, <2>2, <3>4, LaterLoop
      <4> QED BY <4>1 DEF Coming
    <3> QED BY <1>3, <3>3, <3>4
  <2> QED BY <1>5, <2>1, <2>2 DEF Begins
<1>6. CASE Handles BY <1>1, <1>6 DEF Handles
<1>7. CASE (DropRelease \/ report_one) /\ ctl' # ctl
  <2>1. ctl.pc \in {"release", "report"} BY <1>7 DEF DropRelease, report_one
  <2>2. ctl.loop = "drop" BY <2>1 DEF FlowInv, CtlInv, LoopOf
  <2>3. ctl'.loop \in {"settle", "tidy", "drop"} BY <1>1, <1>7, <2>1, <2>2, LaterLoop
  <2> QED BY <2>3 DEF Coming
<1> QED BY <1>3, <1>4, <1>5, <1>6, <1>7, CtlForms

(* The same of operands that failed before they were named.                *)
LEMMA UnplacedBack ==
    ASSUME FlowInv, OpsInv, [Next]_vars, NEW i \in Ops, Unplaced(i)'
    PROVE  Unplaced(i) \/ (ctl.pc = "batch" /\ i \in Batch /\ batch_run)
<1>1. CASE Coming(i)' BY <1>1, ComingBack DEF Unplaced
<1>2. CASE Early(i)'
  <2>1. CASE op'[i].fail = op[i].fail BY <1>2, <2>1 DEF Early, Unplaced
  <2>2. CASE i = Cur /\ op_fail /\ op'[i].fail = ctl.loop
    <3>1. ctl.pc = "fail" BY <2>2 DEF op_fail
    <3>2. Live /\ i \in Batch BY <2>2, <3>1, InHand
    <3> QED BY <1>2, <2>2, <3>1, <3>2 DEF Early, Unplaced, Coming, PlacedPc
  <2> QED BY <2>1, <2>2, OpFields
<1> QED BY <1>1, <1>2 DEF Unplaced

(* The parts of SoleInv.                                                   *)
HeldAt == \A i \in Ops, n \in Names : Unplaced(i) /\ dir[n] = New(i) => SoleAt(i, n)

SpareLast == \A i \in Ops : op[i].spare # None => ~Unplaced(i)

PathsFree == spec.force => hist.refused \cap Targets = {}

AliasLast == AtAlias => \A j \in Ops : dir[fr.path] = New(j) => ~Unplaced(j)

(* With -f a path shows no file that is not placed.                        *)
LEMMA PathPlaced ==
    ASSUME FlowInv, OpsInv, SlotsInv, HeldAt, PathsFree, spec.force, ctl.pc # "made",
           NEW t \in Targets, NEW j \in Ops, dir[t] = New(j)
    PROVE  ~Unplaced(j)
<1> SUFFICES ASSUME Unplaced(j) PROVE FALSE OBVIOUS
<1>1. t \in Names /\ t # None BY Names0
<1>2. SoleAt(j, t) BY <1>1 DEF HeldAt
<1>3. ASSUME j \in Batch, Guards(Slot(j), t, New(j)) PROVE FALSE
  <2>1. Slot(j) \in Slots BY <1>3, Slots0 DEF FlowInv
  <2>2. Armed(Slot(j)) /\ pending[Slot(j)].path = t BY <1>1, <1>3 DEF Armed, Guards
  <2> QED BY <2>1, <2>2 DEF SlotsInv
<1> QED BY <1>2, <1>3 DEF SoleAt, PathsFree

(* A step that starts a batch or a file's life finds no name of it.        *)
LEMMA BatchAbsent ==
    ASSUME WaitInv, NEW i \in Ops, ctl.pc = "batch", i \in Batch, batch_run, NEW n \in Names
    PROVE  dir'[n] # New(i)
<1>1. Waits(i) BY DEF Waits
<1> QED BY <1>1 DEF WaitInv, Absent, batch_run

(* How a name comes to hold a file that is not placed yet.                 *)
LEMMA SoleNew ==
    ASSUME FlowInv, OpsInv, HistInv, SlotsInv, [Next]_vars, HeldAt, PathsFree, AliasLast,
           NEW i \in Ops, NEW n \in Names, dir'[n] = New(i), dir[n] # New(i),
           Unplaced(i), Unplaced(i)'
    PROVE  SoleAt(i, n)'
<1>1. dir \in [Names -> Inodes \cup {None}] BY DEF OpsInv, TypesInv
<1>2. New(i) \in Ours /\ New(i) # None /\ New(i) \notin Others BY Inodes0
<1>3. ~OtherStep /\ ~Takes /\ ~Undoes
  <2>1. ASSUME NEW m \in OtherNames, OtherPut(m) \/ OtherUnlink(m) PROVE FALSE
    <3>1. m = n BY <1>1, <2>1 DEF OtherPut, OtherUnlink, SetDir, Bind
    <3>2. dir'[n] = Other(hist.other + 1) \/ dir'[n] = None
      BY <1>1, <2>1, <3>1 DEF OtherPut, OtherUnlink, SetDir, Bind
    <3> QED BY <1>2, <3>2 DEF New, Other
  <2> QED BY <1>1, <1>2, <2>1 DEF Takes, Undoes, OtherStep
<1>4. ASSUME NEW m, NEW x, Makes(m, x) PROVE SoleAt(i, n)'
  <2>1. m = n /\ x = New(i) BY <1>1, <1>4 DEF Makes
  <2>2. ctl.pc \in CallPc \ RemovePc /\ ctl.pc # "made" BY <1>4 DEF Makes
  <2>3. Cur \in Ops /\ Path \in Targets /\ Live BY <2>2, InHand
  <2>4. x = dir[Path] /\ spec.force => FALSE BY <2>1, <2>2, <2>3, PathPlaced
  <2>5. x = New(Cur) /\ i = Cur /\ fr'.what \in {"plain", "temp", "link"}
        /\ fr'.ino = New(Cur)
    BY <1>4, <2>1, <2>3, <2>4, Inodes0 DEF Makes
  <2>6. ctl'.pc = "made" /\ fr'.path = n /\ ctl'.cur = ctl.cur /\ sig' = sig
    BY <1>4, <2>1 DEF Makes
  <2> QED BY <2>3, <2>5, <2>6 DEF SoleAt, Live, Cur
<1>5. CASE (Gives \/ Shifts \/ Swaps) /\ n = Path
  <2>1. ctl.pc \in CallPc \ RemovePc BY <1>5 DEF Gives, Shifts, Swaps
  <2>2. Cur \in Ops /\ CallInv(Cur) BY <2>1, InHand
  <2>3. i = Cur /\ ctl'.cur = ctl.cur /\ ctl'.pc \in PlacedPc /\ ctl'.loop = ctl.loop
        /\ ctl'.todo = ctl.todo /\ op' = op /\ ctl'.first = ctl.first
    BY <1>1, <1>5, <2>2, Inodes0, ReadyPath DEF Gives, Shifts, Swaps, PlacedPc
  <2>4. ctl.loop = "name" /\ Cur \notin ctl.todo
    BY <1>5, <2>1, InHand, Slots0 DEF Gives, Shifts, Swaps, FlowInv, CtlInv
  <2>5. ~Coming(i)' BY <2>3, <2>4 DEF Coming, PlacedPc, Cur
  <2>6. op[i].fail = "no"
    BY <1>5, <2>2, <2>3
    DEF Gives, Shifts, Swaps, CallInv, Ready, Temporary, Raw, ToName, Built, InPlace, Nameless
  <2>7. ~Early(i)' BY <2>3, <2>6 DEF Early
  <2> QED BY <2>5, <2>7 DEF Unplaced
<1>6. CASE (Gives \/ Shifts \/ Swaps) /\ n # Path
  <2>1. ctl.pc \in CallPc \ RemovePc /\ ctl.pc # "made"
    BY <1>6 DEF Gives, Shifts, Swaps
  <2>2. Cur \in Ops /\ Path \in Targets BY <2>1, InHand
  <2>3. Swaps /\ dir[Path] = New(i)
    BY <1>1, <1>2, <1>6 DEF Gives, Shifts, Swaps
  <2>4. spec.force BY <2>3 DEF Swaps
  <2> QED BY <2>1, <2>2, <2>3, <2>4, PathPlaced
<1>7. CASE Rebacks
  <2>1. ctl.pc = "overbackup" BY <1>7 DEF Rebacks
  <2>2. Live BY <2>1, InHand
  <2>3. dir[fr.path] = New(i) BY <1>1, <1>2, <1>7 DEF Rebacks
  <2> QED BY <2>1, <2>2, <2>3 DEF AliasLast, AtAlias
<1> QED BY <1>3, <1>4, <1>5, <1>6, <1>7, DirForms

(* No slot of the batch is in use when it ends.                            *)
LEMMA ReportBare ==
    ASSUME FlowInv, OpsInv, ctl.pc \in {"report", "exit"}, NEW i \in Batch
    PROVE  ~Armed(Slot(i)) /\ Live
<1>1. Live BY DEF FlowInv, HeldInv
<1>2. ctl.loop = "drop" /\ ctl.todo = {} BY DEF FlowInv, CtlInv, LoopOf
<1>3. Done("drop", i) BY <1>1, <1>2 DEF OpsInv, RestInv, Rest
<1> QED BY <1>1, <1>3 DEF Done, Cleared

(* The slots keep their operands except between batches.                   *)
LEMMA FirstKept ==
    ASSUME FlowInv, [Next]_vars, ~report_one
    PROVE  ctl'.first = ctl.first /\ Batch' = Batch /\ \A i : Slot(i)' = Slot(i)
<1>1. ctl'.first = ctl.first
  <2>1. DropRelease => ctl'.first = ctl.first BY GotoStep DEF DropRelease, FlowInv
  <2> QED BY <2>1, CtlForms DEF Turns, Begins, Entered, Handles
<1> QED BY <1>1 DEF Batch, Slot

(* The outcome of an operand is decided once.                              *)
LEMMA FailKept ==
    ASSUME FlowInv, OpsInv, [Next]_vars, NEW i \in Ops, op[i].fail # "no"
    PROVE  op'[i].fail = op[i].fail
<1>1. CASE i = Cur /\ op_fail
  <2>1. ctl.pc = "fail" BY <1>1 DEF op_fail
  <2>2. Failing(i) BY <1>1, <2>1, InHand DEF CallInv
  <2> QED BY <2>2 DEF Failing
<1> QED BY <1>1, OpFields

(* A failure leads to op_fail() and nowhere else.                          *)
LEMMA FailActions ==
    ASSUME FlowInv, [Next]_vars, ctl.pc = "fail", Live'
    PROVE  op_fail \/ UNCHANGED <<ctl, fr, op, pending, mem, file>>
<1>1. ~(RemoveLstat \/ RemoveUnlink \/ SignalTaken \/ HandlerStep)
  BY DEF RemoveLstat, RemoveUnlink, SignalTaken, HandlerStep, Live
<1>2. ~PlaceStep /\ ~BackupStep
  BY DEF PlaceStep, Arm, UndoOpen, ProbeDone, CommitRename, CommitClear, CommitLink,
      CommitOver, OverRename, OverFailed, ReplaceRename, Renamed, ExchangeNames,
      Exchanged, BackupStep, backup_none, backup_make, backup_next, backup_numbered,
      OutOfNumbers, backup_note, backup_simple, place_temp_alias, OverBackup
<1>3. BatchStep => op_fail
  BY DEF BatchStep, batch_run, build_one, place_probe_mode, open_built, FinishPrivate,
      FinishLink, fill_one, FinishOwner, FinishMode, FlushClose, close_op, NameBatch,
      NameForce, NameUnnamed, NameTemp, NamePlain, FlushBackup, SettleClose,
      SettleOne, Tidied, OpFailed, flush_set_run, Dropped, DropRelease,
      report_one, flush_batch, settle_batch, flush_set_add, drop_spares
<1>4. OtherStep \/ Signal \/ UNCHANGED vars => UNCHANGED <<ctl, fr, op, pending, mem, file>>
  BY DEF OtherStep, OtherPut, OtherUnlink, Signal, vars
<1> QED BY <1>1, <1>2, <1>3, <1>4 DEF Next, Program, PendingStep, Ended

(* A name of a file that is not placed stays accounted for.                *)
LEMMA SoleKept ==
    ASSUME FlowInv, OpsInv, HistInv, [Next]_vars, FlowInv', SpareLast,
           NEW i \in Ops, NEW n \in Names, dir[n] = New(i), dir'[n] = New(i),
           Unplaced(i), Unplaced(i)', SoleAt(i, n)
    PROVE  SoleAt(i, n)'
<1>1. New(i) \in Inodes /\ New(i) # None BY Inodes0
<1>2. hist.refused \subseteq hist'.refused BY HistForms
<1>3. ASSUME i \in Batch, Guards(Slot(i), n, New(i)), Watches(Slot(i))
      PROVE  SoleAt(i, n)'
  <2>1. Slot(i) \in Slots /\ Slot(i) # BackupSlot
    BY <1>3, Slots0 DEF FlowInv
  <2>2. ~report_one
    <3> SUFFICES ASSUME report_one PROVE FALSE OBVIOUS
    <3>1. ctl.pc = "report" BY DEF report_one
    <3> QED BY <1>3, <3>1, ReportBare, Names0 DEF Guards, Armed
  <2>3. Batch' = Batch /\ Slot(i)' = Slot(i) BY <2>2, FirstKept
  <2>4. CASE Guards(Slot(i), n, New(i))' /\ Watches(Slot(i))'
    BY <1>3, <2>3, <2>4 DEF SoleAt
  <2>5. CASE n \in hist'.refused /\ ctl.pc \in RemovePc /\ Slot(i) = fr.slot /\ fr.ino = New(i)
    <3>1. CASE ~Live
      <4>1. ~Live' BY <3>1, LiveBefore
      <4>2. Early(i)' BY <4>1 DEF Unplaced, Coming
      <4> QED BY <2>5, <4>2 DEF SoleAt, Early
    <3>2. CASE Live
      <4>1. Cur \in Batch /\ RemoveInv(Cur) /\ FrRemove BY <2>5, <3>2, InRemove
      <4>2. fr.then # "overfailed" /\ fr.slot # BackupSlot
        BY <2>1, <2>5, <4>1, Slots0 DEF FrRemove, FlowInv
      <4>3. fr.slot = Slot(Cur) BY <4>1, <4>2 DEF FrRemove
      <4>4. i = Cur BY <1>3, <2>5, <4>1, <4>3, Slots0 DEF FlowInv, Slot, CtlInv, CtlType
      <4>5. fr.then \notin {"open", "fail", "backed"}
        BY <2>5, <4>1, <4>2, <4>4, Inodes0 DEF RemoveInv, FrRemove
      <4>6. fr.then # "dropped"
        BY <4>1, <4>4, Names0 DEF RemoveInv, Spared, SpareLast
      <4>7. fr.then # "tidied"
        <5> SUFFICES ASSUME fr.then = "tidied" PROVE FALSE OBVIOUS
        <5>1. op[i].fail = "no" /\ ctl.loop = "tidy"
          BY <4>1, <4>4 DEF RemoveInv, Raw, FrRemove
        <5> QED BY <5>1 DEF Unplaced, Early, Coming
      <4>8. op[i].fail # "no" BY <4>1, <4>2, <4>4, <4>5, <4>6, <4>7 DEF RemoveInv
      <4> QED BY <2>5, <4>8, FailKept DEF SoleAt
    <3> QED BY <3>1, <3>2
  <2>6. CASE drop_spares /\ Slot(i) = Slot(Cur)
    <3>1. ctl.pc = "drop" BY <2>6 DEF drop_spares
    <3>2. Spared(Cur) /\ Cur \in Batch BY <3>1, InHand DEF CallInv
    <3>3. i = Cur BY <1>3, <2>6, <3>2, Slots0 DEF FlowInv, Slot, CtlInv, CtlType
    <3> QED BY <3>2, <3>3, Names0 DEF Spared, SpareLast
  <2>7. CASE Frees(Slot(i))
    <3>1. ctl.pc \in {"commitclear", "renamed", "exchanged", "name"} /\ Slot(i) = Slot(Cur)
          /\ ctl'.pc = "named"
      BY <2>1, <2>7 DEF Frees, CommitClear, Renamed, Exchanged, NamePlain
    <3>2. Cur \in Batch /\ CallInv(Cur) BY <3>1, InHand
    <3>3. i = Cur BY <1>3, <3>1, <3>2, Slots0 DEF FlowInv, Slot, CtlInv, CtlType
    <3>4. op[i].fail = "no"
      BY <3>1, <3>2, <3>3 DEF CallInv, Moved, Raw, ToName, Built, InPlace, Nameless,
         Temporary
    <3>5. ~op_fail BY <3>1 DEF op_fail
    <3>6. ~Early(i)' BY <3>4, <3>5, OpFields DEF Early
    <3>7. ctl'.cur = ctl.cur /\ ctl'.loop = ctl.loop /\ ctl'.todo = ctl.todo
      BY <2>7, CallStep DEF Frees, CommitClear, Renamed, Exchanged, NamePlain
    <3>8. ctl.loop = "name" /\ i \notin ctl.todo
      BY <2>7, <3>1, <3>2, <3>3, Slots0 DEF FlowInv, CtlInv, Frees
    <3>9. ~Coming(i)' BY <3>1, <3>7, <3>8 DEF Coming, PlacedPc
    <3> QED BY <3>6, <3>9 DEF Unplaced
  <2>8. PICK s \in Slots : s = Slot(i) BY <2>1
  <2>9. Guards(s, n, New(i)) /\ Watches(s) BY <1>3, <2>8
  <2>10. Guards(s, n, New(i))' /\ Watches(s)' =>
           Guards(Slot(i), n, New(i))' /\ Watches(Slot(i))'
    BY <2>3, <2>8
  <2> QED BY <1>1, <2>4, <2>5, <2>6, <2>7, <2>8, <2>9, <2>10, GuardStep
<1>4. ASSUME Live, i = Cur, ctl.pc = "made", fr.what \in {"plain", "temp", "link"},
             n = fr.path, fr.ino = New(i)
      PROVE  SoleAt(i, n)'
  <2>1. Live' /\ i \in Batch BY <1>4, MadeActions, InHand
  <2>2. CASE UNCHANGED <<ctl, fr, op, pending, mem, file>>
    BY <1>4, <2>1, <2>2 DEF SoleAt, Cur
  <2>3. CASE /\ Arm /\ fr.slot \in Slots /\ Guards(fr.slot, n, fr.ino)'
             /\ ctl'.pc # "killed" /\ fr' = fr
    <3>1. fr.slot = Slot(i) BY <1>4 DEF FlowInv, CallFrame, FrMade
    <3>2. ~report_one BY <1>4 DEF report_one
    <3>3. Batch' = Batch /\ Slot(i)' = Slot(i) BY <3>2, FirstKept
    <3> QED BY <1>4, <2>1, <2>3, <3>1, <3>3 DEF SoleAt, Guards, Watches
  <2>4. CASE UndoOpen /\ n \in hist'.refused /\ ctl'.pc = "fail"
    <3>1. ctl'.cur = ctl.cur BY <2>4, CallStep DEF UndoOpen
    <3> QED BY <1>4, <2>1, <2>4, <3>1 DEF SoleAt, Cur
  <2> QED BY <1>1, <1>4, <2>2, <2>3, <2>4, MadeStep
<1>5. ASSUME n \in hist.refused, op[i].fail # "no" PROVE SoleAt(i, n)'
  BY <1>2, <1>5, FailKept DEF SoleAt
<1>6. ASSUME n \in hist.refused, Live, i = Cur, ctl.pc = "fail", op[i].fail = "no"
      PROVE  SoleAt(i, n)'
  <2>1. CASE ~Live'
    <3>1. ~op_fail BY <1>6, <2>1 DEF op_fail, Live
    <3>2. ~Early(i)' BY <1>6, <3>1, OpFields DEF Early
    <3> QED BY <2>1, <3>2 DEF Unplaced, Coming
  <2>2. CASE Live' /\ op_fail
    <3>1. op'[i].fail = ctl.loop
      BY <1>6, <2>2, InHand DEF op_fail, TypesInv, OpType
    <3>2. ctl.loop # "no" BY DEF FlowInv, CtlInv, CtlType, Entry
    <3> QED BY <1>2, <1>6, <3>1, <3>2 DEF SoleAt
  <2>3. CASE Live' /\ UNCHANGED <<ctl, fr, op, pending, mem, file>>
    BY <1>2, <1>6, <2>3 DEF SoleAt, Cur
  <2> QED BY <1>6, <2>1, <2>2, <2>3, FailActions
<1> QED BY <1>3, <1>4, <1>5, <1>6 DEF SoleAt

(* Only a file that has its place has an old one to spare.                 *)
LEMMA SpareStep ==
    ASSUME FlowInv, OpsInv, [Next]_vars, SpareLast, NEW i \in Ops, op'[i].spare # None
    PROVE  ~Unplaced(i)'
<1>1. CASE i = Cur /\ Exchanged
  <2>1. ctl.pc = "exchanged" /\ Goto("named") BY <1>1 DEF Exchanged
  <2>2. Moved(i) /\ i \in Batch BY <1>1, <2>1, InHand DEF CallInv
  <2>3. ~op_fail BY <2>1 DEF op_fail
  <2>4. ~Early(i)' BY <2>2, <2>3, OpFields DEF Early, Moved, Raw
  <2>5. ctl'.pc = "named" /\ ctl'.cur = ctl.cur /\ ctl'.loop = ctl.loop /\ ctl'.todo = ctl.todo
    BY <2>1, CallStep
  <2>6. ctl.loop = "name" /\ i \notin ctl.todo
    BY <1>1, <2>1, <2>2, InHand, Slots0 DEF FlowInv, CtlInv
  <2>7. ~Coming(i)' BY <2>5, <2>6 DEF Coming, PlacedPc
  <2> QED BY <2>4, <2>7 DEF Unplaced
<1>2. CASE op'[i].spare = op[i].spare
  <2>1. ~Unplaced(i) BY <1>2 DEF SpareLast
  <2>2. ~(ctl.pc = "batch" /\ i \in Batch)
    BY <1>2 DEF OpsInv, RestInv, Pristine, NewOp
  <2> QED BY <2>1, <2>2, UnplacedBack
<1> QED BY <1>1, <1>2, OpFields

(* With -f no path is refused: none is ever removed.                       *)
LEMMA PathsStep ==
    ASSUME FlowInv, OpsInv, HistInv, SlotsInv, [Next]_vars, PathsFree
    PROVE  PathsFree'
<1>1. spec' = spec
  BY DEF Next, Program, PendingStep, RemoveLstat, RemoveUnlink, SignalTaken, HandlerStep,
      PlaceStep, Arm, UndoOpen, ProbeDone, CommitRename, CommitClear, CommitLink,
      CommitOver, OverRename, OverFailed, ReplaceRename, Renamed, ExchangeNames,
      Exchanged, BackupStep, backup_none, backup_make, backup_next, backup_numbered,
      OutOfNumbers, backup_note, backup_simple, place_temp_alias, OverBackup,
      BatchStep, batch_run, build_one, place_probe_mode, open_built, FinishPrivate,
      FinishLink, fill_one, FinishOwner, FinishMode, FlushClose, close_op, NameBatch,
      NameForce, NameUnnamed, NameTemp, NamePlain, FlushBackup, SettleClose,
      SettleOne, Tidied, op_fail, OpFailed, flush_set_run, Dropped, DropRelease,
      report_one, flush_batch, settle_batch, flush_set_add, drop_spares,
      Signal, OtherStep, OtherPut, OtherUnlink, Ended, vars
<1>2. ASSUME spec.force, RemoveLstat \/ RemoveUnlink PROVE fr.path \notin Targets
  <2>1. ctl.pc \in RemovePc BY <1>2 DEF RemoveLstat, RemoveUnlink
  <2>2. fr.slot \in Slots /\ Armed(fr.slot) /\ pending[fr.slot].path = fr.path
    BY <1>2, <2>1, RemoveSlot DEF Guards
  <2> QED BY <1>2, <2>2 DEF SlotsInv
<1>3. ASSUME spec.force, UndoOpen, fr.flag PROVE fr.path \notin Targets
  BY <1>3, OpenedAt, Names0 DEF UndoOpen
<1> QED BY <1>1, <1>2, <1>3, HistForms DEF PathsFree

(* The alias of the old file is not one of a file that is not placed.      *)
LEMMA AliasLastStep ==
    ASSUME FlowInv, OpsInv, HistInv, SlotsInv, [Next]_vars, HeldAt, PathsFree, AliasLast,
           AtAlias', NEW j \in Ops, dir'[fr'.path] = New(j)
    PROVE  ~Unplaced(j)'
<1>1. dir \in [Names -> Inodes \cup {None}] BY DEF OpsInv, TypesInv
<1>2. CASE Aliased
  <2>1. ctl.pc = "alias" BY <1>2 DEF Aliased, place_temp_alias
  <2>2. Path \in Targets /\ spec.force BY <2>1, InHand DEF FlowInv, CtlInv
  <2>3. dir[Path] = New(j) BY <1>1, <1>2, Names0 DEF Aliased
  <2>4. ~Unplaced(j) BY <2>1, <2>2, <2>3, PathPlaced
  <2> QED BY <2>1, <2>4, UnplacedBack
<1>3. CASE AtAlias /\ fr' = fr /\ (dir' = dir \/ OtherStep)
  <2>1. ctl.pc \in {"overbackup", "made"} BY <1>3 DEF AtAlias
  <2>2. fr.path \in Temps
    BY <1>3, <2>1, InHand DEF AtAlias, CallInv, MadeInv
  <2>3. dir[fr.path] = New(j)
    <3>1. CASE OtherStep
      <4>1. PICK m \in OtherNames : OtherPut(m) \/ OtherUnlink(m) BY <3>1 DEF OtherStep
      <4>2. fr.path \in Names /\ m # fr.path BY <2>2, Names0, WorldAssumption
      <4> QED BY <1>1, <1>3, <4>1, <4>2 DEF OtherPut, OtherUnlink, SetDir, Bind
    <3> QED BY <1>3, <3>1
  <2>4. ~Unplaced(j) BY <1>3, <2>3 DEF AliasLast
  <2> QED BY <2>1, <2>4, UnplacedBack
<1> QED BY <1>2, <1>3, AliasFrom

(* Every step keeps SoleInv.                                               *)
LEMMA SoleStep ==
    FlowInv /\ OpsInv /\ HistInv /\ SlotsInv /\ WaitInv /\ SoleInv /\ FlowInv' /\ [Next]_vars
        => SoleInv'
<1> SUFFICES ASSUME FlowInv, OpsInv, HistInv, SlotsInv, WaitInv, SoleInv, FlowInv',
                    [Next]_vars
             PROVE  SoleInv'
  OBVIOUS
<1>1. HeldAt /\ SpareLast /\ PathsFree /\ AliasLast
  BY DEF SoleInv, HeldAt, SpareLast, PathsFree, AliasLast
<1>2. HeldAt'
  <2> SUFFICES ASSUME NEW i \in Ops, NEW n \in Names, Unplaced(i)', dir'[n] = New(i)
               PROVE  SoleAt(i, n)'
    BY DEF HeldAt, New
  <2>1. Unplaced(i) BY UnplacedBack, BatchAbsent
  <2>2. CASE dir[n] = New(i)
    <3>1. SoleAt(i, n) BY <1>1, <2>1, <2>2 DEF HeldAt
    <3> QED BY <1>1, <2>1, <2>2, <3>1, SoleKept
  <2>3. CASE dir[n] # New(i) BY <1>1, <2>1, <2>3, SoleNew
  <2> QED BY <2>2, <2>3
<1>3. SpareLast' BY <1>1, SpareStep DEF SpareLast
<1>4. PathsFree' BY <1>1, PathsStep
<1>5. AliasLast' BY <1>1, AliasLastStep DEF AliasLast
<1> QED BY <1>2, <1>3, <1>4, <1>5 DEF SoleInv, HeldAt, SpareLast, PathsFree, AliasLast

(* At first no operand has a file.                                         *)
LEMMA InitSole == Init => SoleInv
<1> SUFFICES ASSUME Init PROVE SoleInv OBVIOUS
<1>1. PICK s \in StartSets : start = [n \in Names |-> IF n \in s THEN Old(n) ELSE None]
  BY DEF Init
<1>2. \A n \in Names : dir[n] \in {Old(n), None} BY <1>1 DEF Init
<1>3. \A i \in Ops, n \in Names : dir[n] # New(i)
  <2>1. \A i \in Ops : None # New(i) BY Inodes0
  <2>2. \A i \in Ops, n \in Names : Old(n) # New(i) BY DEF Old, New
  <2> QED BY <1>2, <2>1, <2>2
<1>4. \A i \in Ops : op[i].spare = None BY DEF Init, NewOp
<1>5. hist.refused = {} /\ ctl.pc = "batch" BY DEF Init
<1> QED BY <1>3, <1>4, <1>5 DEF SoleInv, AtAlias

(* What the earlier layers of the invariant say together.                  *)
BaseInv == SafeInv /\ GapInv /\ NamedInv

(* They hold together.                                                     *)
LEMMA BaseStep == BaseInv /\ [Next]_vars => BaseInv'
  BY FlowStep, OpsStep, HistStep, SlotsStep, GapStep, NamedStep DEF SafeInv, BaseInv

(* They hold at first.                                                     *)
LEMMA InitBase == Init => BaseInv
  BY InitFlow, InitOps, InitSlots, InitGap, InitNamed DEF SafeInv, BaseInv

(* Until a file is placed every name it has is guarded by its slot, just   *)
(* made, or one the kernel refused to remove.                              *)
THEOREM SoleTheorem == Spec => [](BaseInv /\ SoleInv)
<1>1. BaseInv /\ SoleInv /\ [Next]_vars => (BaseInv /\ SoleInv)'
  <2>1. BaseInv => FlowInv /\ OpsInv /\ HistInv /\ SlotsInv /\ WaitInv
    BY DEF BaseInv, SafeInv, NamedInv
  <2>2. BaseInv' => FlowInv' BY DEF BaseInv, SafeInv
  <2> QED BY <2>1, <2>2, BaseStep, SoleStep
<1> QED BY <1>1, InitBase, InitSole, PTL DEF Spec

(* A file that failed before it was named is under no name once op_fail()  *)
(* or the handler is through, unless the kernel refused the removal: every *)
(* name the file was given was in its slot all the time.                   *)
THEOREM FailedTheorem == Spec => []FailedNeverAppears
<1>1. BaseInv /\ SoleInv => FailedNeverAppears
  <2> SUFFICES ASSUME BaseInv, SoleInv, Between, NEW i \in Ops, NEW n \in Names,
                      Early(i), dir[n] = New(i), n \notin hist.refused
               PROVE  FALSE
    BY DEF FailedNeverAppears, Early
  <2>1. FlowInv /\ OpsInv BY DEF BaseInv, SafeInv
  <2>2. i \in Batch /\ Guards(Slot(i), n, New(i)) /\ Watches(Slot(i))
    BY DEF SoleInv, Unplaced, SoleAt, Between
  <2>3. Armed(Slot(i)) /\ Slot(i) \in Slots
    BY <2>1, <2>2, Names0, Slots0 DEF Armed, Guards, FlowInv
  <2>4. ctl.pc \in HeadPc /\ Live
    <3>1. ctl.pc \in HeadPc BY <2>2 DEF Between, Watches
    <3> QED BY <2>1, <3>1 DEF FlowInv, HeldInv
  <2>5. ctl.pc # "batch" BY <2>1, <2>3, <2>4 DEF OpsInv, RestInv
  <2>6. Rest(i) /\ i \notin ctl.todo
    BY <2>1, <2>2, <2>4, <2>5 DEF OpsInv, RestInv, FlowInv, CtlInv
  <2>7. Done(ctl.loop, i) BY <2>6 DEF Rest
  <2>8. op[i].fail # "no" BY DEF Early
  <2>9. Cleared(i) \/ Spared(i)
    BY <2>7, <2>8 DEF Done, Failed, Built, InPlace, Nameless, Temporary, Raw, ToName,
       Named, Past, Settled
  <2>10. op[i].spare = None BY DEF SoleInv, Unplaced
  <2> QED BY <2>3, <2>9, <2>10, Names0 DEF Cleared, Spared
<1> QED BY <1>1, SoleTheorem, PTL

-----------------------------------------------------------------------------
(* The steps of the loop over name_one().                                  *)
LEMMA NameActions ==
    ASSUME FlowInv, [Next]_vars, Live', ctl.pc \in CallPc, ctl.loop = "name"
    PROVE  \/ UNCHANGED <<ctl, fr, op, pending, mem, file>> /\ (dir' = dir \/ OtherStep)
           \/ RemoveLstat \/ RemoveUnlink \/ Arm \/ UndoOpen \/ CommitRename
           \/ CommitClear \/ CommitLink \/ CommitOver \/ OverRename \/ OverFailed
           \/ ReplaceRename \/ Renamed \/ ExchangeNames \/ Exchanged \/ BackupStep
           \/ NameForce \/ NameUnnamed \/ NameTemp \/ NamePlain \/ FlushBackup
           \/ flush_set_add \/ op_fail \/ OpFailed
<1>1. Live BY LiveBefore
<1>2. ctl.pc \in NamePc \cup RemovePc \cup {"made", "fail", "failed"}
  BY DEF FlowInv, CtlInv
<1>3. Signal \/ OtherStep \/ UNCHANGED vars =>
        UNCHANGED <<ctl, fr, op, pending, mem, file>> /\ (dir' = dir \/ OtherStep)
  BY DEF Signal, OtherStep, OtherPut, OtherUnlink, vars
<1>4. ~SignalTaken /\ ~HandlerStep BY <1>2 DEF SignalTaken, HandlerStep, Live
<1>5. ~ProbeDone BY <1>2 DEF ProbeDone
<1>6. BatchStep => \/ NameForce \/ NameUnnamed \/ NameTemp \/ NamePlain \/ FlushBackup
                   \/ flush_set_add \/ op_fail \/ OpFailed
  BY <1>2
  DEF BatchStep, batch_run, build_one, place_probe_mode, open_built, FinishPrivate,
      FinishLink, fill_one, FinishOwner, FinishMode, FlushClose, close_op, NameBatch,
      SettleClose, SettleOne, Tidied, flush_set_run, Dropped, DropRelease, report_one,
      flush_batch, settle_batch, drop_spares
<1> QED BY <1>3, <1>4, <1>5, <1>6 DEF Next, Program, PendingStep, PlaceStep, Ended

(* Where pending_remove() goes.                                            *)
LEMMA RemoveGoes ==
    ASSUME FlowInv, NEW s, NEW note, NEW then \in CallPc, pending_remove(s, note, then)
    PROVE  /\ ctl'.cur = ctl.cur /\ ctl'.loop = ctl.loop /\ ctl'.todo = ctl.todo
           /\ ctl'.first = ctl.first
           /\ \/ /\ Armed(s) /\ ctl'.pc = "lstat"
                 /\ fr' = [what |-> "remove", slot |-> s, path |-> pending[s].path,
                           ino |-> pending[s].ino, flag |-> note, then |-> then]
              \/ ~Armed(s) /\ ctl'.pc = then /\ fr' = fr
<1>1. CASE Armed(s) BY <1>1, CallStep DEF pending_remove
<1>2. CASE ~Armed(s) BY <1>2, CallStep DEF pending_remove
<1> QED BY <1>1, <1>2

(* A step inside a call of the loop over name_one() comes from one.        *)
LEMMA NameFrom ==
    ASSUME FlowInv, [Next]_vars, Live', ctl'.pc \in CallPc \ {"name"}, ctl'.loop = "name"
    PROVE  /\ ctl.pc \in CallPc /\ ctl.loop = "name" /\ Live
           /\ ctl'.cur = ctl.cur /\ ctl'.todo = ctl.todo /\ ctl'.first = ctl.first
<1>1. Live BY LiveBefore
<1>2. CASE ctl' = ctl BY <1>1, <1>2
<1>3. CASE Turns
  <2>1. ~Moves(ctl, ctl')
    BY <1>3 DEF Turns, Moves, Entry, After
  <2> QED BY <1>1, <1>3, <2>1 DEF Turns
<1>4. CASE Begins
  <2>1. ctl'.pc \in {Entry[ctl'.loop], After[ctl'.loop]}
    BY <1>4 DEF Begins, Entered
  <2> QED BY <2>1 DEF Entry, After
<1>5. CASE DropRelease
  BY <1>5, GotoStep DEF DropRelease, FlowInv
<1>6. CASE report_one
  BY <1>6 DEF report_one, FlowInv, CtlInv, CtlType
<1>7. CASE Handles BY <1>7 DEF Handles
<1> QED BY <1>2, <1>3, <1>4, <1>5, <1>6, <1>7, CtlForms

(* Between lstat of the path in backup_make() and the rename.              *)
OldPc == {"number", "numbered", "note", "simple", "alias", "overbackup", "backed", "made",
          "lstat", "unlink"}

(* Only backup_make() notes what the path holds, and it stays noted.       *)
LEMMA OldFrom ==
    ASSUME FlowInv, OpsInv, [Next]_vars, FlowInv', AtOld'
    PROVE  /\ ctl'.cur = ctl.cur /\ ctl.pc \in CallPc /\ Live
           /\ \/ backup_make /\ dir' = dir /\ mem'.old = dir[Path] /\ ctl.pc = "replace"
              \/ AtOld /\ mem'.old = mem.old
<1>1. Live' /\ ctl'.pc \in OldPc /\ ctl'.pc \in CallPc \ {"name"} BY DEF AtOld, OldPc
<1>2. ctl'.loop = "name"
  <2>1. ctl'.pc = "made" => FrMade' /\ fr'.what \in {"alias", "backup"}
    BY DEF AtOld, FlowInv, CallFrame
  <2>2. ctl'.pc \in RemovePc => FrRemove' /\ fr'.then = "backed"
    BY DEF AtOld, FlowInv, CallFrame
  <2>3. ctl'.pc \in NamePc => ctl'.loop = "name" BY DEF FlowInv, CtlInv
  <2> QED BY <1>1, <2>1, <2>2, <2>3 DEF OldPc, FrMade, FrRemove
<1>3. /\ ctl.pc \in CallPc /\ ctl.loop = "name" /\ Live /\ ctl'.cur = ctl.cur
  BY <1>1, <1>2, NameFrom
<1> DEFINE Same == AtOld /\ mem'.old = mem.old
<1>4. ASSUME NEW p \in CallPc \ OldPc, Goto(p) PROVE FALSE BY <1>1, <1>4, CallStep
<1>5. Goto("next") => FALSE
  <2> SUFFICES ASSUME Goto("next") PROVE FALSE OBVIOUS
  <2>1. Moves(ctl, ctl') BY GotoStep DEF FlowInv
  <2> QED BY <1>1, <1>3, <2>1 DEF Moves, Entry, After, OldPc
<1>6. CASE UNCHANGED <<ctl, fr, op, pending, mem, file>>
  BY <1>3, <1>6 DEF AtOld
<1>7. CASE RemoveLstat \/ RemoveUnlink
  <2>1. ctl.pc \in RemovePc /\ fr' = fr /\ mem' = mem /\ FrRemove
        /\ (Goto("unlink") \/ Goto(fr.then))
    BY <1>3, <1>7 DEF RemoveLstat, RemoveUnlink, RemoveDone, FlowInv, CallFrame
  <2>2. fr.then = "backed"
    <3>1. CASE Goto("unlink")
      <4>1. ctl'.pc = "unlink" BY <3>1, CallStep
      <4> QED BY <2>1, <4>1 DEF AtOld
    <3>2. CASE Goto(fr.then) /\ fr.then # "backed"
      <4>1. fr.then \in CallPc \ OldPc
        BY <2>1, <3>2 DEF FrRemove, OldPc
      <4> QED BY <1>4, <3>2, <4>1
    <3> QED BY <2>1, <3>1, <3>2
  <2> QED BY <1>3, <2>1, <2>2 DEF AtOld
<1>8. CASE Arm
  <2>1. ctl.pc = "made" /\ FrMade /\ Goto(fr.then) /\ UNCHANGED <<fr, mem>>
    BY <1>8 DEF Arm, FlowInv, CallFrame
  <2>2. fr.what \notin {"alias", "backup"} => fr.then \in (CallPc \cup {"next"}) \ OldPc
    BY <2>1 DEF FrMade, Finish, AfterFill, OldPc
  <2>3. fr.what \in {"alias", "backup"} BY <1>4, <1>5, <2>1, <2>2
  <2> QED BY <1>3, <2>1, <2>3 DEF AtOld
<1>9. ~(UndoOpen \/ CommitRename \/ CommitClear \/ CommitLink \/ OverFailed)
  BY <1>4 DEF UndoOpen, CommitRename, CommitClear, CommitLink, OverFailed, OldPc
<1>10. ~(Renamed \/ Exchanged) BY <1>4 DEF Renamed, Exchanged, OldPc
<1>11. ~CommitOver
  <2> SUFFICES ASSUME CommitOver PROVE FALSE OBVIOUS
  <2>1. Goto("fail") \/ (Goto("made") /\ fr'.what = "over") BY DEF CommitOver, Made
  <2>2. Goto("made") => ctl'.pc = "made" BY CallStep
  <2> QED BY <1>4, <2>1, <2>2 DEF AtOld, OldPc
<1>12. ~OverRename
  <2> SUFFICES ASSUME OverRename PROVE FALSE OBVIOUS
  <2>1. \/ Goto("renamed")
        \/ Goto("lstat") /\ fr' = [fr EXCEPT !.what = "remove", !.flag = FALSE,
                                            !.then = "overfailed"]
    BY DEF OverRename
  <2>2. Goto("lstat") => ctl'.pc = "lstat" BY CallStep
  <2>3. ~spec'.force BY DEF OverRename, FlowInv, CtlInv
  <2>4. ctl'.pc = "lstat" => fr'.then # "backed"
    BY <1>1, <2>3 DEF FlowInv, CallFrame, FrRemove
  <2> QED BY <1>4, <2>1, <2>2, <2>4 DEF AtOld, OldPc
<1>13. ASSUME NEW s, NEW note, pending_remove(s, note, "fail") PROVE FALSE
  <2>1. ctl'.pc = "fail" \/ (ctl'.pc = "lstat" /\ fr'.then = "fail")
    BY <1>13, RemoveGoes
  <2> QED BY <2>1 DEF AtOld
<1>14. ~(ReplaceRename \/ ExchangeNames \/ FlushBackup)
  BY <1>4, <1>13 DEF ReplaceRename, ExchangeNames, FlushBackup, OldPc
<1>15. ~(NameUnnamed \/ NameTemp \/ NamePlain \/ flush_set_add \/ OpFailed)
  BY <1>4, <1>5 DEF NameUnnamed, NameTemp, NamePlain, flush_set_add, OpFailed, OldPc
<1>16. ~NameForce
  <2> SUFFICES ASSUME NameForce PROVE FALSE OBVIOUS
  <2>1. Goto("fail") \/ Goto("replace") \/ (Goto("made") /\ fr'.what = "link")
    BY DEF NameForce, temp_make, Made, NoTemp
  <2>2. Goto("made") => ctl'.pc = "made" BY CallStep
  <2> QED BY <1>4, <2>1, <2>2 DEF AtOld, OldPc
<1>17. ~op_fail
  <2> SUFFICES ASSUME op_fail PROVE FALSE OBVIOUS
  <2> PICK s : s = Slot(Cur) OBVIOUS
  <2>1. Goto("failed") \/ pending_remove(s, FALSE, "failed") BY DEF op_fail
  <2>2. CASE pending_remove(s, FALSE, "failed")
    <3>1. Goto("failed") \/ (Goto("lstat") /\ fr'.then = "failed")
      BY <2>2 DEF pending_remove
    <3>2. ctl'.pc = "failed" \/ (ctl'.pc = "lstat" /\ fr'.then = "failed")
      BY <3>1, CallStep
    <3> QED BY <3>2 DEF AtOld
  <2> QED BY <1>4, <2>1, <2>2 DEF OldPc
<1>18. CASE BackupStep
  <2>1. ~backup_none /\ ~OutOfNumbers BY <1>4 DEF backup_none, OutOfNumbers, OldPc
  <2>2. CASE backup_make
    <3>1. mem' = [mem EXCEPT !.old = dir[Path]] BY <1>4, <2>2 DEF backup_make, OldPc
    <3>2. mem'.old = dir[Path] BY <3>1 DEF FlowInv, HeldInv, MemFields
    <3> QED BY <1>3, <2>2, <3>2 DEF backup_make
  <2>3. CASE backup_next \/ backup_numbered \/ backup_note \/ backup_simple
             \/ place_temp_alias \/ OverBackup
    <3>1. AtOld
      BY <1>3, <2>3 DEF backup_next, backup_numbered, backup_note, backup_simple,
                        place_temp_alias, OverBackup, AtOld
    <3>2. mem'.old = mem.old
      BY <2>3 DEF backup_next, backup_numbered, backup_note, backup_simple,
                  place_temp_alias, OverBackup, FlowInv, HeldInv, MemFields
    <3> QED BY <1>3, <3>1, <3>2
  <2> QED BY <1>18, <2>1, <2>2, <2>3 DEF BackupStep
<1> QED BY <1>1, <1>3, <1>6, <1>7, <1>8, <1>9, <1>10, <1>11, <1>12, <1>14, <1>15, <1>16,
           <1>17, <1>18, NameActions

(* What other processes do to a name.                                      *)
LEMMA OtherNamed ==
    ASSUME OpsInv, HistInv, OtherStep, NEW n \in Names
    PROVE  /\ dir'[n] \in {dir[n], None} \cup Others
           /\ n \in Temps => dir'[n] = dir[n]
<1>1. PICK m \in OtherNames : OtherPut(m) \/ OtherUnlink(m) BY DEF OtherStep
<1>2. dir \in [Names -> Inodes \cup {None}] BY DEF OpsInv, TypesInv
<1>3. m \in Names \ Temps BY WorldAssumption
<1>4. hist.other < MaxOther /\ hist.other \in Nat /\ MaxOther \in Nat
  BY <1>1, WorldAssumption DEF OtherPut, OtherUnlink, OtherMay, HistInv, HistTypes
<1>5. Other(hist.other + 1) \in Others BY <1>4 DEF Others
<1> QED BY <1>1, <1>2, <1>3, <1>5 DEF OtherPut, OtherUnlink, SetDir, Bind

(* A file about to be renamed has no name but its temporary one.           *)
LEMMA NotYet ==
    ASSUME FlowInv, OpsInv, HeldAt, ctl.pc \in {"commit", "over", "rename"},
           NEW n \in Names, n # op[Cur].tmp
    PROVE  dir[n] # New(Cur)
<1> SUFFICES ASSUME dir[n] = New(Cur) PROVE FALSE OBVIOUS
<1>1. Live /\ Cur \in Batch /\ Cur \in Ops /\ Ready(Cur) BY InHand DEF CallInv
<1>2. ctl.loop = "name" BY DEF FlowInv, CtlInv
<1>3. Unplaced(Cur) BY <1>1, <1>2 DEF Unplaced, Coming, PlacedPc
<1>4. SoleAt(Cur, n) BY <1>1, <1>3 DEF HeldAt
<1> QED BY <1>1, <1>4 DEF SoleAt, Ready, Temporary, Raw, Guards

(* How a file leaves its temporary name.                                   *)
LEMMA LeavesTmp ==
    ASSUME FlowInv, OpsInv, HeldAt, [Next]_vars, FlowInv',
           ctl'.pc \in {"commitclear", "renamed", "exchanged"}
    PROVE  \/ UNCHANGED <<ctl, fr, op, pending, mem, file>> /\ (dir' = dir \/ OtherStep)
           \/ Shifts /\ ctl'.pc # "exchanged"
           \/ Swaps /\ ctl'.pc = "exchanged"
<1>1. Live' /\ ctl'.loop = "name" /\ ctl'.pc \in CallPc \ {"name"}
  BY DEF FlowInv, HeldInv, CtlInv
<1>2. ctl.pc \in CallPc /\ ctl.loop = "name" /\ Live BY <1>1, NameFrom
<1>3. ASSUME NEW p \in CallPc \ {"commitclear", "renamed", "exchanged"}, Goto(p)
      PROVE  FALSE
  BY <1>3, CallStep
<1>4. Goto("next") => FALSE
  <2> SUFFICES ASSUME Goto("next") PROVE FALSE OBVIOUS
  <2>1. Moves(ctl, ctl') BY GotoStep DEF FlowInv
  <2> QED BY <1>2, <2>1 DEF Moves, Entry, After
<1>5. dir \in [Names -> Inodes \cup {None}] BY DEF OpsInv, TypesInv
<1>6. ASSUME ctl.pc \in {"commit", "over", "rename"},
             SetDir(Rename(dir, op[Cur].tmp, Path))
      PROVE  dir' # dir
  <2>1. Ready(Cur) BY <1>6, InHand DEF CallInv
  <2>2. /\ op[Cur].tmp \in Names /\ Path \in Names /\ Path # op[Cur].tmp
        /\ dir[op[Cur].tmp] = New(Cur)
    BY <1>6, <2>1, ReadyPath
  <2>3. dir[Path] # New(Cur) BY <1>6, <2>2, NotYet
  <2> QED BY <1>5, <1>6, <2>2, <2>3 DEF SetDir, Rename
<1>7. CASE CommitRename
  <2>1. SetDir(Rename(dir, op[Cur].tmp, Path)) /\ ctl.pc = "commit" /\ Goto("commitclear")
    BY <1>3, <1>7 DEF CommitRename
  <2>2. ctl'.pc = "commitclear" BY <2>1, CallStep
  <2> QED BY <1>6, <1>7, <2>1, <2>2, CommitRenameDir
<1>8. CASE OverRename
  <2>1. SetDir(Rename(dir, op[Cur].tmp, Path)) /\ ctl.pc = "over" /\ Goto("renamed")
    BY <1>3, <1>8 DEF OverRename
  <2>2. ctl'.pc = "renamed" BY <2>1, CallStep
  <2> QED BY <1>6, <1>8, <2>1, <2>2, OverRenameDir
<1>9. ASSUME pending_remove(BackupSlot, FALSE, "fail") PROVE FALSE
  BY <1>3, <1>9 DEF pending_remove
<1>10. CASE ReplaceRename
  <2>1. SetDir(Rename(dir, op[Cur].tmp, Path)) /\ ctl.pc = "rename" /\ Goto("renamed")
    BY <1>9, <1>10 DEF ReplaceRename
  <2>2. ctl'.pc = "renamed" BY <2>1, CallStep
  <2> QED BY <1>6, <1>10, <2>1, <2>2, ReplaceRenameDir
<1>11. CASE ExchangeNames
  <2>1. SetDir(Exchange(dir, op[Cur].tmp, Path)) /\ ctl.pc = "backed" /\ Goto("exchanged")
        /\ ~Free(dir, Path)
    BY <1>9, <1>11 DEF ExchangeNames
  <2>2. ctl'.pc = "exchanged" BY <2>1, CallStep
  <2>3. Ready(Cur) BY <2>1, InHand DEF CallInv
  <2>4. /\ op[Cur].tmp \in Names /\ Path \in Names /\ Path # op[Cur].tmp
        /\ dir[op[Cur].tmp] = New(Cur) /\ spec.force
    BY <2>1, <2>3, ReadyPath DEF FlowInv, CtlInv
  <2>5. dir'[Path] = New(Cur) /\ dir'[op[Cur].tmp] = dir[Path]
    BY <1>5, <2>1, <2>4 DEF SetDir, Exchange
  <2>6. dir' = dir \/ Swaps BY <1>11, ExchangeDir
  <2>7. ~Swaps => dir[Path] = New(Cur) BY <2>5, <2>6
  <2>8. Live /\ Cur \in Batch /\ Cur \in Ops BY <2>1, InHand
  <2>9. Unplaced(Cur) BY <1>2, <2>1, <2>8 DEF Unplaced, Coming, PlacedPc
  <2>10. dir[Path] # New(Cur)
    <3> SUFFICES ASSUME dir[Path] = New(Cur) PROVE FALSE OBVIOUS
    <3>1. SoleAt(Cur, Path) BY <2>4, <2>8, <2>9 DEF HeldAt
    <3> QED BY <2>1, <2>3, <2>4, <3>1 DEF SoleAt, Ready, Temporary, Raw, Guards
  <2> QED BY <2>2, <2>7, <2>10
<1>12. ~(RemoveLstat \/ RemoveUnlink)
  <2> SUFFICES ASSUME RemoveLstat \/ RemoveUnlink PROVE FALSE OBVIOUS
  <2>1. ctl.pc \in RemovePc /\ FrRemove /\ (Goto("unlink") \/ Goto(fr.then))
    BY <1>2 DEF RemoveLstat, RemoveUnlink, RemoveDone, FlowInv, CallFrame
  <2>2. fr.then \in CallPc \ {"commitclear", "renamed", "exchanged"} BY <2>1 DEF FrRemove
  <2> QED BY <1>3, <2>1, <2>2
<1>13. ~Arm
  <2> SUFFICES ASSUME Arm PROVE FALSE OBVIOUS
  <2>1. FrMade /\ Goto(fr.then) BY DEF Arm, FlowInv, CallFrame
  <2>2. fr.then \in (CallPc \cup {"next"}) \ {"commitclear", "renamed", "exchanged"}
    BY <2>1 DEF FrMade, Finish, AfterFill
  <2> QED BY <1>3, <1>4, <2>1, <2>2
<1>14. ~(UndoOpen \/ CommitClear \/ CommitLink \/ CommitOver \/ OverFailed \/ Renamed
         \/ Exchanged)
  <2>1. UndoOpen \/ CommitClear \/ CommitLink \/ CommitOver \/ OverFailed \/ Renamed
        \/ Exchanged => Goto("fail") \/ Goto("named") \/ Goto("made")
    BY DEF UndoOpen, CommitClear, CommitLink, CommitOver, OverFailed, Renamed, Exchanged,
           Made
  <2> QED BY <1>3, <2>1
<1>15. ~(NameForce \/ NameUnnamed \/ NameTemp \/ NamePlain \/ flush_set_add \/ OpFailed)
  <2>1. NameForce \/ NameUnnamed \/ NameTemp \/ NamePlain \/ flush_set_add \/ OpFailed =>
          \/ Goto("fail") \/ Goto("named") \/ Goto("made") \/ Goto("replace")
          \/ Goto("commit") \/ Goto("next")
    BY DEF NameForce, NameUnnamed, NameTemp, NamePlain, flush_set_add, OpFailed,
           temp_make, Made, NoTemp
  <2> QED BY <1>3, <1>4, <2>1
<1>16. ~(FlushBackup \/ op_fail)
  <2>1. FlushBackup \/ op_fail =>
          Goto("rename") \/ Goto("lstat") \/ Goto("fail") \/ Goto("failed")
    BY DEF FlushBackup, op_fail, pending_remove
  <2> QED BY <1>3, <2>1
<1>17. ~BackupStep
  <2> SUFFICES ASSUME BackupStep PROVE FALSE OBVIOUS
  <2>1. CASE backup_none \/ backup_make \/ backup_next \/ backup_note \/ OutOfNumbers
    <3>1. \/ Goto("rename") \/ Goto("simple") \/ Goto("number") \/ Goto("fail")
          \/ Goto("numbered") \/ Goto("backed")
      BY <2>1 DEF backup_none, backup_make, backup_next, backup_note, OutOfNumbers
    <3> QED BY <1>3, <3>1
  <2>2. CASE backup_numbered \/ backup_simple \/ place_temp_alias \/ OverBackup
    <3>1. \/ Goto("fail") \/ Goto("made") \/ Goto("alias") \/ Goto("lstat")
          \/ Goto("backed") \/ (ctl' = ctl /\ ctl.pc = "numbered")
      BY <2>2 DEF backup_numbered, backup_simple, backup_link, NoLink, Made,
                  place_temp_alias, temp_make, NoTemp, OverBackup, pending_remove
    <3> QED BY <1>3, <3>1
  <2> QED BY <2>1, <2>2 DEF BackupStep
<1> QED BY <1>1, <1>2, <1>7, <1>8, <1>10, <1>11, <1>12, <1>13, <1>14, <1>15, <1>16,
           <1>17, NameActions

(* Nobody but another process changes the path while its old file is       *)
(* backed up.                                                              *)
LEMMA OldPath ==
    ASSUME FlowInv, OpsInv, HistInv, [Next]_vars, AtOld, AtOld'
    PROVE  dir'[Path] \in {dir[Path], None} \cup Others /\ (OurStep => dir'[Path] = dir[Path])
<1>1. Live /\ ctl.pc \in CallPc /\ Cur \in Ops /\ Path \in Targets /\ Path \in Names
  <2>1. Live /\ ctl.pc \in CallPc BY DEF AtOld
  <2>2. Cur \in Ops BY DEF FlowInv, CtlInv, CtlType, Cur
  <2> QED BY <2>1, <2>2, Names0 DEF Cur, Path
<1>2. dir \in [Names -> Inodes \cup {None}] BY DEF OpsInv, TypesInv
<1>3. CASE OtherStep
  <2>1. ~OurStep BY <1>3, OtherCounts DEF OurStep
  <2> QED BY <1>1, <1>3, <2>1, OtherNamed
<1>4. CASE Takes
  <2>1. ctl.pc \in RemovePc BY <1>4 DEF Takes, RemoveUnlink
  <2>2. fr.then = "backed" BY <2>1 DEF AtOld
  <2>3. fr.path \in Temps BY <1>1, <2>1, <2>2, InRemove DEF RemoveInv
  <2> QED BY <1>1, <1>2, <1>4, <2>3, Names0 DEF Takes
<1>5. ~Undoes
  <2> SUFFICES ASSUME Undoes PROVE FALSE OBVIOUS
  <2>1. ctl.pc = "made" /\ fr.flag BY DEF Undoes
  <2>2. FrMade BY <2>1 DEF FlowInv, CallFrame
  <2> QED BY <2>1, <2>2 DEF AtOld, FrMade
<1>6. ~Gives /\ ~Shifts BY DEF AtOld, Gives, Shifts
<1>7. ~Swaps BY DEF AtOld, Swaps
<1>8. CASE Rebacks
  <2>1. fr.path \in Temps /\ Simple(Path) \in Backups(Path)
    BY <1>8 DEF Rebacks, Backups
  <2> QED BY <1>1, <1>2, <1>8, <2>1, Names0 DEF Rebacks
<1>9. ASSUME NEW n, NEW x, Makes(n, x) PROVE dir'[Path] = dir[Path]
  <2>1. ctl.pc \notin {"build", "commit"} BY DEF AtOld
  <2>2. n \in Temps \/ n \in Backups(Path) BY <1>9, <2>1 DEF Makes
  <2>3. n # Path BY <1>1, <2>2, Names0
  <2> QED BY <1>1, <1>2, <1>9, <2>3 DEF Makes
<1> QED BY <1>3, <1>4, <1>5, <1>6, <1>7, <1>8, <1>9, DirForms

(* Every step keeps OldInv.                                                *)
LEMMA OldStep ==
    ASSUME FlowInv, OpsInv, HistInv, HeldAt, [Next]_vars, FlowInv', OldInv
    PROVE  OldInv'
<1>1. dir \in [Names -> Inodes \cup {None}] BY DEF OpsInv, TypesInv
<1>2. ASSUME AtOld' PROVE (dir[Path] \in {mem.old, None} \cup Others)'
  <2>1. ctl'.cur = ctl.cur /\ Path' = Path BY <1>2, OldFrom DEF Path
  <2>2. CASE backup_make /\ dir' = dir /\ mem'.old = dir[Path] BY <2>1, <2>2
  <2>3. CASE AtOld /\ mem'.old = mem.old
    BY <1>2, <2>1, <2>3, OldPath DEF OldInv
  <2> QED BY <1>2, <2>2, <2>3, OldFrom
<1>3. ASSUME ctl'.pc \in {"commitclear", "renamed", "exchanged"}
      PROVE  /\ ctl'.pc # "exchanged" => (dir[op[Cur].tmp] = None)'
             /\ ctl'.pc = "exchanged" => (dir[op[Cur].tmp] \in {mem.old} \cup Others)'
  <2>1. CASE UNCHANGED <<ctl, fr, op, pending, mem, file>> /\ (dir' = dir \/ OtherStep)
    <3>1. Moved(Cur) BY <1>3, <2>1, InHand DEF CallInv
    <3>2. op[Cur].tmp \in Temps /\ op[Cur].tmp \in Names BY <3>1, Names0 DEF Moved
    <3>3. dir'[op[Cur].tmp] = dir[op[Cur].tmp] BY <2>1, <3>2, OtherNamed
    <3> QED BY <1>3, <2>1, <3>3 DEF OldInv, Cur
  <2>2. CASE Shifts /\ ctl'.pc # "exchanged"
    <3>1. op[Cur].tmp \in Names
      BY <2>2, ReadyPath DEF Shifts
    <3> QED BY <1>1, <2>2, <3>1 DEF Shifts, Cur
  <2>3. CASE Swaps /\ ctl'.pc = "exchanged"
    <3>1. ctl.pc = "backed" /\ op[Cur].tmp \in Names /\ Path \in Names
      BY <2>3, ReadyPath DEF Swaps
    <3>2. AtOld BY <3>1, InHand DEF AtOld
    <3>3. dir[Path] \in {mem.old} \cup Others BY <2>3, <3>2 DEF OldInv, Swaps, Free
    <3>4. dir'[op[Cur].tmp] = dir[Path] BY <1>1, <2>3, <3>1 DEF Swaps
    <3> QED BY <2>3, <3>3, <3>4 DEF Swaps, Cur
  <2> QED BY <1>3, <2>1, <2>2, <2>3, LeavesTmp
<1> QED BY <1>2, <1>3 DEF OldInv

(* How a temporary name comes to hold another file.                        *)
LEMMA TempNew ==
    ASSUME FlowInv, OpsInv, HistInv, [Next]_vars, OldInv,
           NEW n \in Temps, dir'[n] # dir[n]
    PROVE  TempAt(n)'
<1>1. dir \in [Names -> Inodes \cup {None}] /\ n \in Names
  BY Names0 DEF OpsInv, TypesInv
<1>2. ~OtherStep BY <1>1, OtherNamed
<1>3. CASE dir'[n] = None BY <1>3 DEF TempAt
<1>4. Takes \/ Undoes => dir'[n] = None BY <1>1 DEF Takes, Undoes
<1>5. ctl.pc \in CallPc \ RemovePc =>
        /\ Path \in Targets /\ Path \in Names /\ Path # n /\ Live
        /\ Simple(Path) \in Backups(Path) /\ Simple(Path) # n
  <2> SUFFICES ASSUME ctl.pc \in CallPc \ RemovePc
               PROVE  /\ Path \in Targets /\ Path \in Names /\ Path # n /\ Live
                      /\ Simple(Path) \in Backups(Path) /\ Simple(Path) # n
    OBVIOUS
  <2>1. Path \in Targets /\ Live BY InHand
  <2>2. Simple(Path) \in Backups(Path) BY DEF Backups
  <2> QED BY <2>1, <2>2, Names0
<1>6. Gives => FALSE BY <1>1, <1>5 DEF Gives
<1>7. Shifts => dir'[n] = None BY <1>1, <1>5 DEF Shifts
<1>8. Rebacks => dir'[n] = None BY <1>1, <1>5 DEF Rebacks
<1>9. CASE Swaps
  <2>1. n = op[Cur].tmp BY <1>1, <1>5, <1>9 DEF Swaps
  <2> QED BY <1>5, <1>9, <2>1 DEF Swaps, TempAt, Live, Cur
<1>10. ASSUME NEW m, NEW x, Makes(m, x) PROVE TempAt(n)'
  <2>1. m = n /\ dir'[n] = x /\ ctl.pc \in CallPc \ RemovePc
        /\ fr'.path = n /\ ctl'.pc = "made" /\ sig' = sig /\ mem' = mem
    BY <1>1, <1>10 DEF Makes
  <2>2. m # Path /\ m \notin Backups(Path) BY <1>5, <2>1, Names0
  <2>3. fr'.ino = x \/ (ctl.pc = "alias" /\ x = dir[Path] /\ fr'.ino = mem.old)
    BY <1>10, <2>2 DEF Makes
  <2>4. CASE fr'.ino = x BY <1>5, <2>1, <2>4 DEF TempAt, Live
  <2>5. CASE ctl.pc = "alias" /\ x = dir[Path] /\ fr'.ino = mem.old
    <3>1. dir[Path] \in {mem.old, None} \cup Others BY <1>5, <2>5 DEF OldInv, AtOld
    <3> QED BY <1>5, <2>1, <2>5, <3>1 DEF TempAt, Live
  <2> QED BY <2>3, <2>4, <2>5
<1> QED BY <1>2, <1>3, <1>4, <1>6, <1>7, <1>8, <1>9, <1>10, DirForms

(* Once names are exchanged the slot is turned to the old file.            *)
LEMMA Retargeted ==
    ASSUME FlowInv, OpsInv, OldInv, Exchanged, NEW n, n = op[Cur].tmp, dir[n] \notin Others
    PROVE  \E s \in Slots : (Guards(s, n, dir[n]) /\ Watches(s))'
<1>1. ctl.pc = "exchanged" /\ dir' = dir /\ sig' = sig /\ Goto("named")
      /\ pending' = pending_clear([pending EXCEPT ![Slot(Cur)].ino = mem.old], BackupSlot)
  BY DEF Exchanged
<1>2. Moved(Cur) /\ Live /\ Slot(Cur) \in Slots /\ Slot(Cur) # BackupSlot
  BY <1>1, InHand DEF CallInv
<1>3. dir[n] = mem.old BY <1>1 DEF OldInv
<1>4. pending \in [Slots -> SlotType] BY DEF OpsInv, TypesInv
<1>5. PICK s \in Slots : s = Slot(Cur) BY <1>2
<1>6. pending[s] = [path |-> n, ino |-> New(Cur)] BY <1>2, <1>5 DEF Moved, Guards
<1>7. pending'[s] = [path |-> n, ino |-> mem.old]
  BY <1>1, <1>2, <1>4, <1>5, <1>6 DEF pending_clear, SlotType
<1>8. ctl'.pc = "named" BY <1>1, CallStep
<1> QED BY <1>1, <1>2, <1>3, <1>5, <1>7, <1>8 DEF Guards, Watches, Live

(* A temporary name that keeps its file stays accounted for.               *)
LEMMA TempKept ==
    ASSUME FlowInv, OpsInv, HistInv, [Next]_vars, FlowInv', OldInv,
           NEW n \in Temps, dir'[n] = dir[n], TempAt(n)
    PROVE  TempAt(n)'
<1>1. dir \in [Names -> Inodes \cup {None}] /\ n \in Names
      /\ pending \in [Slots -> SlotType]
  BY Names0 DEF OpsInv, TypesInv
<1>2. CASE dir[n] \in Others \cup {None} BY <1>2 DEF TempAt
<1>3. CASE n \in hist.refused \cup hist.kept BY <1>3, HistForms DEF TempAt
<1>4. ASSUME dir[n] \notin Others \cup {None},
             NEW s \in Slots, Guards(s, n, dir[n]), Watches(s)
      PROVE  TempAt(n)'
  <2>1. PICK x \in Inodes : x = dir[n] BY <1>1, <1>4
  <2>2. CASE Guards(s, n, x)' /\ Watches(s)' BY <2>1, <2>2 DEF TempAt
  <2>3. CASE n \in hist'.refused BY <2>3 DEF TempAt
  <2>4. CASE n \in hist'.kept BY <2>4 DEF TempAt
  <2>5. CASE Frees(s)
    <3>1. ctl.pc \in {"commitclear", "renamed", "exchanged", "name"}
      BY <2>5 DEF Frees, CommitClear, Renamed, Exchanged, NamePlain
    <3>2. CallInv(Cur) /\ Cur \in Ops /\ Operand[Cur] \in Targets /\ Path = Operand[Cur]
      BY <3>1, InHand
    <3>3. Targets \cap Temps = {} /\ Backups(Path) \cap Temps = {} BY <3>2, Names0
    <3>4. s # BackupSlot
      <4> SUFFICES ASSUME s = BackupSlot PROVE FALSE OBVIOUS
      <4>1. Renamed \/ Exchanged
        BY <2>5, <3>1, InHand DEF Frees
      <4>2. ctl.pc \in BackupPc BY <4>1 DEF Renamed, Exchanged, BackupPc
      <4>3. Armed(BackupSlot) BY <1>1, <1>4, Names0 DEF Guards, Armed
      <4>4. n = op[Cur].backup /\ op[Cur].backup \in Backups(Path)
        BY <1>4, <3>2, <4>2, <4>3 DEF CallInv, Guards
      <4> QED BY <3>3, <4>4
    <3>5. s = Slot(Cur) BY <2>5, <3>4 DEF Frees
    <3>6. CASE NamePlain
      <4>1. ctl.pc = "name" /\ op[Cur].way = "plain" BY <3>6 DEF NamePlain
      <4>2. InPlace(Cur) BY <3>2, <4>1 DEF CallInv, ToName, Built
      <4> QED BY <1>4, <3>2, <3>3, <3>5, <4>2 DEF InPlace, Guards
    <3>7. ctl.pc # "name" => n = op[Cur].tmp
      BY <1>4, <3>1, <3>2, <3>5 DEF CallInv, Moved, Guards
    <3>8. CASE CommitClear \/ Renamed
      <4>1. ctl.pc \in {"commitclear", "renamed"} BY <3>8 DEF CommitClear, Renamed
      <4> QED BY <1>4, <3>7, <4>1 DEF OldInv
    <3>9. CASE Exchanged
      <4>1. ctl.pc = "exchanged" BY <3>9 DEF Exchanged
      <4> QED BY <1>4, <3>7, <3>9, <4>1, Retargeted DEF TempAt
    <3> QED BY <2>5, <3>6, <3>8, <3>9 DEF Frees
  <2> QED BY <1>1, <1>4, <2>1, <2>2, <2>3, <2>4, <2>5, GuardStep
<1>5. ASSUME dir[n] # None, Live, ctl.pc = "made", n = fr.path, fr.ino = dir[n]
      PROVE  TempAt(n)'
  <2>1. CASE UNCHANGED <<ctl, fr, op, pending, mem, file>>
    BY <1>5, <2>1, MadeActions DEF TempAt
  <2>2. CASE Arm /\ fr.what # "over" /\ fr.slot \in Slots /\ fr' = fr
             /\ Guards(fr.slot, n, fr.ino)' /\ ctl'.pc # "killed"
    <3>1. PICK s \in Slots : s = fr.slot BY <2>2
    <3>2. Guards(s, n, dir[n])' BY <1>5, <2>2, <3>1 DEF Guards
    <3>3. Watches(s)' BY <1>5, <2>2, MadeActions DEF Watches
    <3> QED BY <3>2, <3>3 DEF TempAt
  <2>3. CASE fr.what = "over"
    <3>1. fr.path = Path /\ Path \in Targets
      BY <1>5, <2>3, InHand DEF CallInv, MadeInv
    <3> QED BY <1>5, <3>1, Names0
  <2>4. CASE n \in hist'.refused BY <2>4 DEF TempAt
  <2> QED BY <1>5, <2>1, <2>2, <2>3, <2>4, MadeStep
<1>6. ASSUME dir[n] \notin Others, Live, ctl.pc = "exchanged", n = op[Cur].tmp
      PROVE  TempAt(n)'
  <2>1. Live'
    <3>1. held > 0 BY <1>6 DEF FlowInv, HeldInv
    <3> QED BY <1>6, <3>1, SigStep DEF Signal, SignalTaken, Live
  <2>2. CASE UNCHANGED <<ctl, fr, op, pending, mem, file>>
    BY <1>6, <2>1, <2>2 DEF TempAt, Cur
  <2>3. CASE Exchanged BY <1>6, <2>3, Retargeted DEF TempAt
  <2>4. ~CommitClear /\ ~Renamed BY <1>6 DEF CommitClear, Renamed
  <2> QED BY <1>6, <2>1, <2>2, <2>3, <2>4, PlacedActions DEF PlacedPc
<1> QED BY <1>2, <1>3, <1>4, <1>5, <1>6 DEF TempAt

(* Every step keeps TempInv.                                               *)
LEMMA TempStep ==
    ASSUME FlowInv, OpsInv, HistInv, [Next]_vars, FlowInv', OldInv, TempInv
    PROVE  TempInv'
<1> SUFFICES ASSUME NEW n \in Temps PROVE TempAt(n)' BY DEF TempInv
<1>1. TempAt(n) BY DEF TempInv
<1>2. CASE dir'[n] = dir[n] BY <1>1, <1>2, TempKept
<1>3. CASE dir'[n] # dir[n] BY <1>3, TempNew
<1> QED BY <1>2, <1>3

(* No temporary name is in use at first.                                   *)
LEMMA InitTemp == Init => OldInv /\ TempInv
<1> SUFFICES ASSUME Init PROVE OldInv /\ TempInv OBVIOUS
<1>1. PICK s \in StartSets : start = [n \in Names |-> IF n \in s THEN Old(n) ELSE None]
  BY DEF Init
<1>2. s \subseteq Names \ Temps BY WorldAssumption
<1>3. \A n \in Temps : dir[n] = None BY <1>1, <1>2, Names0 DEF Init
<1>4. ctl.pc = "batch" BY DEF Init
<1> QED BY <1>3, <1>4 DEF OldInv, AtOld, TempInv, TempAt

(* What is known of names that are not paths.                              *)
LeaveInv == BaseInv /\ SoleInv /\ OldInv /\ TempInv

(* It holds all along.                                                     *)
LEMMA LeaveAlways == Spec => []LeaveInv
<1>1. LeaveInv /\ [Next]_vars => LeaveInv'
  <2> SUFFICES ASSUME LeaveInv, [Next]_vars PROVE LeaveInv' OBVIOUS
  <2>1. BaseInv' BY BaseStep DEF LeaveInv
  <2>2. /\ FlowInv /\ OpsInv /\ HistInv /\ SlotsInv /\ WaitInv /\ HeldAt
        /\ SoleInv /\ OldInv /\ TempInv
    BY DEF LeaveInv, BaseInv, SafeInv, NamedInv, SoleInv, HeldAt
  <2>3. FlowInv' BY <2>1 DEF BaseInv, SafeInv
  <2>4. SoleInv' BY <2>2, <2>3, SoleStep
  <2>5. OldInv' BY <2>2, <2>3, OldStep
  <2>6. TempInv' BY <2>2, <2>3, TempStep
  <2> QED BY <2>1, <2>4, <2>5, <2>6 DEF LeaveInv
<1>2. Init => LeaveInv BY InitBase, InitSole, InitTemp DEF LeaveInv
<1> QED BY <1>1, <1>2, PTL DEF Spec

(* However the run ends, by itself or by a signal at any moment, it leaves *)
(* no temporary name behind, except one the kernel refused to remove or    *)
(* one drop_spares() kept: each was in a slot of pending[] from the moment *)
(* it was made, with the inode it holds, and slots are emptied before the  *)
(* end.                                                                    *)
THEOREM TempsTheorem == Spec => []TempsGone
<1>1. LeaveInv => TempsGone
  <2> SUFFICES ASSUME LeaveInv, Over, NEW n \in Temps
               PROVE  dir[n] \in Others \cup {None} \/ n \in hist.refused \cup hist.kept
    BY DEF TempsGone
  <2>1. FlowInv /\ OpsInv /\ TempAt(n) BY DEF LeaveInv, BaseInv, SafeInv, TempInv
  <2>2. ASSUME NEW s \in Slots, Guards(s, n, dir[n]), Watches(s) PROVE FALSE
    <3>1. ctl.pc = "exit" BY <2>2 DEF Watches, Over
    <3>2. Live BY <2>1, <3>1 DEF FlowInv, HeldInv
    <3>3. ~Armed(s) BY <2>1, <3>1, <3>2 DEF OpsInv, RestInv
    <3> QED BY <2>2, <3>3, Names0 DEF Guards, Armed
  <2>3. ctl.pc \notin {"made", "exchanged"} BY DEF Over
  <2> QED BY <2>1, <2>2, <2>3 DEF TempAt
<1> QED BY <1>1, LeaveAlways, PTL

-----------------------------------------------------------------------------
(* No call clears flushed but build_one(), and none sets it in the middle  *)
(* of a call.                                                              *)
LEMMA FlushKept ==
    ASSUME FlowInv, OpsInv, [Next]_vars, ctl.pc \in CallPc, NEW i \in Ops,
           file'[i].flushed
    PROVE  file[i].flushed
<1>1. file \in [Ops -> FileType] /\ Cur \in Ops
  BY DEF OpsInv, TypesInv, FlowInv, CtlInv, CtlType, Cur
<1>2. PICK f \in FileType : f = file[Cur] BY <1>1
<1>3. CASE file' = file BY <1>3
<1>4. ASSUME NEW g, file' = [file EXCEPT ![Cur] = g], ~g.flushed \/ g.flushed = f.flushed
      PROVE  file[i].flushed
  <2>1. CASE i = Cur BY <1>1, <1>2, <1>4, <2>1
  <2>2. CASE i # Cur BY <1>1, <1>4, <2>2
  <2> QED BY <2>1, <2>2
<1>5. CASE build_one
  <2>1. \/ file' = file
        \/ \E v : file' = [file EXCEPT ![Cur] = [NewFile EXCEPT !.special = v]]
        \/ \E v, w : file' = [file EXCEPT ![Cur] = [NewFile EXCEPT !.perm = v,
             !.special = w]]
    BY <1>5 DEF build_one, SetFile
  <2>2. ASSUME NEW v, file' = [file EXCEPT ![Cur] = [NewFile EXCEPT !.special = v]]
        PROVE  file[i].flushed
    <3>1. ~[NewFile EXCEPT !.special = v].flushed BY DEF NewFile
    <3> QED BY <1>4, <2>2, <3>1
  <2>3. ASSUME NEW v, NEW w,
               file' = [file EXCEPT ![Cur] = [NewFile EXCEPT !.perm = v, !.special = w]]
        PROVE  file[i].flushed
    <3>1. ~[NewFile EXCEPT !.perm = v, !.special = w].flushed BY DEF NewFile
    <3> QED BY <1>4, <2>3, <3>1
  <2> QED BY <1>3, <2>1, <2>2, <2>3
<1>6. CASE FinishPrivate \/ fill_one \/ FinishOwner \/ FinishMode
  <2>1. \/ file' = file
        \/ file' = [file EXCEPT ![Cur] = [f EXCEPT !.perm = "0600", !.special = FALSE]]
        \/ file' = [file EXCEPT ![Cur] = [f EXCEPT !.content = TRUE, !.special = FALSE]]
        \/ file' = [file EXCEPT ![Cur] = [f EXCEPT !.owned = TRUE, !.special = FALSE]]
        \/ file' = [file EXCEPT ![Cur] = [f EXCEPT !.perm = "asked",
                                                   !.special = spec.special]]
    BY <1>2, <1>6 DEF FinishPrivate, fill_one, FinishOwner, FinishMode, SetFile
  <2>2. /\ [f EXCEPT !.perm = "0600", !.special = FALSE].flushed = f.flushed
        /\ [f EXCEPT !.content = TRUE, !.special = FALSE].flushed = f.flushed
        /\ [f EXCEPT !.owned = TRUE, !.special = FALSE].flushed = f.flushed
        /\ [f EXCEPT !.perm = "asked", !.special = spec.special].flushed = f.flushed
    BY DEF FileType
  <2> QED BY <1>3, <1>4, <2>1, <2>2
<1>7. file' = file \/ build_one \/ FinishPrivate \/ fill_one \/ FinishOwner \/ FinishMode
  <2>1. Signal \/ OtherStep \/ UNCHANGED vars \/ PendingStep => file' = file
    BY DEF Signal, OtherStep, OtherPut, OtherUnlink, vars, PendingStep, RemoveLstat,
           RemoveUnlink, SignalTaken, HandlerStep
  <2>2. PlaceStep => file' = file
    BY DEF PlaceStep, Arm, UndoOpen, ProbeDone, CommitRename, CommitClear, CommitLink,
           CommitOver, OverRename, OverFailed, ReplaceRename, Renamed, ExchangeNames,
           Exchanged
  <2>3. BackupStep => file' = file
    BY DEF BackupStep, backup_none, backup_make, backup_next, backup_numbered,
           OutOfNumbers, backup_note, backup_simple, place_temp_alias, OverBackup
  <2>4. BatchStep => file' = file \/ build_one \/ FinishPrivate \/ fill_one \/ FinishOwner
                                  \/ FinishMode
    BY DEF BatchStep, batch_run, place_probe_mode, open_built, FinishLink, op_fail,
           OpFailed, FlushClose, close_op, NameBatch, NameForce, NameUnnamed, NameTemp,
           NamePlain, FlushBackup, SettleClose, SettleOne, Tidied, flush_set_run, Dropped,
           DropRelease, report_one, flush_batch, settle_batch, flush_set_add, drop_spares
  <2> QED BY <2>1, <2>2, <2>3, <2>4 DEF Next, Program, Ended
<1> QED BY <1>3, <1>5, <1>6, <1>7

(* A file starts out not flushed.                                          *)
LEMMA FreshStart ==
    FlowInv /\ OpsInv /\ ctl.pc = "build" => ~file[ctl.cur].flushed
<1> SUFFICES ASSUME FlowInv, OpsInv, ctl.pc = "build" PROVE ~file[ctl.cur].flushed
  OBVIOUS
<1> PICK i : i = Cur OBVIOUS
<1>1. CallInv(i) BY InHand
<1>2. Pristine(i) BY <1>1 DEF CallInv
<1> QED BY <1>2 DEF Pristine, NewFile, Cur

(* The same in the next state.                                             *)
LEMMA FreshStartNext ==
    (FlowInv /\ OpsInv /\ ctl.pc = "build" => ~file[ctl.cur].flushed)'
  BY FreshStart, PTL

(* No file is flushed while it is built.                                   *)
LEMMA FreshStep ==
    FlowInv /\ OpsInv /\ FlowInv' /\ OpsInv' /\ FreshInv /\ [Next]_vars => FreshInv'
<1> SUFFICES ASSUME FlowInv, OpsInv, FlowInv', OpsInv', FreshInv, [Next]_vars,
                    Live', ctl'.loop = "build", ctl'.pc \in CallPc
             PROVE  ~file'[ctl'.cur].flushed
  BY DEF FreshInv, Cur
<1>1. Live BY LiveBefore
<1>2. CASE ctl'.pc = "build" BY <1>2, FreshStartNext
<1>3. CASE ctl'.pc # "build"
  <2>1. ctl.loop = "build" /\ ctl.pc \in CallPc /\ ctl'.cur = ctl.cur
    <3>1. CASE ctl' = ctl BY <3>1
    <3>2. CASE Turns BY <1>3, <3>2 DEF Turns, Moves, Entry, After
    <3>3. ~Begins
      <4>1. ASSUME NEW l \in DOMAIN Entry, NEW b \in SUBSET Batch, Entered(l, b) PROVE FALSE
        BY <1>3, <4>1 DEF Entered, Entry, After
      <4> QED BY <4>1 DEF Begins, Entry
    <3>4. ~DropRelease
      <4>1. DropRelease => ctl'.pc = "report" BY GotoStep DEF DropRelease, FlowInv
      <4> QED BY <4>1
    <3>5. ~Handles BY DEF Handles
    <3>6. ~report_one
      <4>1. report_one => ctl'.pc \in {"batch", "exit"}
        BY DEF report_one, FlowInv, CtlInv, CtlType
      <4> QED BY <4>1
    <3> QED BY <3>1, <3>2, <3>3, <3>4, <3>5, <3>6, CtlForms
  <2>2. ctl.cur \in Ops BY DEF FlowInv, CtlInv, CtlType
  <2> QED BY <1>1, <2>1, <2>2, FlushKept DEF FreshInv, Cur
<1> QED BY <1>2, <1>3

(* A file that is finished and flushed stays so.                           *)
LEMMA CompleteKept ==
    ASSUME FlowInv, OpsInv, FreshInv, [Next]_vars, NEW i \in Ops, Complete(i)
    PROVE  Complete(i)'
<1>1. ~(i = Cur /\ ctl.pc \in ShapePc)
  <2> SUFFICES ASSUME i = Cur, ctl.pc \in ShapePc PROVE FALSE OBVIOUS
  <2>1. Live BY InHand DEF ShapePc
  <2>2. ctl.loop = "build" BY DEF ShapePc, FlowInv, CtlInv
  <2> QED BY <2>1, <2>2 DEF ShapePc, FreshInv, Complete
<1> QED BY <1>1, AttrKept

(* The options and the directory at the start are not written to.          *)
LEMMA StartKept == [Next]_vars => UNCHANGED <<kern, spec, start>>
<1> SUFFICES ASSUME [Next]_vars PROVE UNCHANGED <<kern, spec, start>> OBVIOUS
<1>1. Signal \/ OtherStep \/ UNCHANGED vars \/ PendingStep => UNCHANGED <<kern, spec, start>>
  BY DEF Signal, OtherStep, OtherPut, OtherUnlink, vars, PendingStep, RemoveLstat,
         RemoveUnlink, SignalTaken, HandlerStep
<1>2. PlaceStep => UNCHANGED <<kern, spec, start>>
  BY DEF PlaceStep, Arm, UndoOpen, ProbeDone, CommitRename, CommitClear, CommitLink,
         CommitOver, OverRename, OverFailed, ReplaceRename, Renamed, ExchangeNames,
         Exchanged
<1>3. BackupStep => UNCHANGED <<kern, spec, start>>
  BY DEF BackupStep, backup_none, backup_make, backup_next, backup_numbered,
         OutOfNumbers, backup_note, backup_simple, place_temp_alias, OverBackup
<1>4. BatchStep => UNCHANGED <<kern, spec, start>>
  BY DEF BatchStep, batch_run, build_one, FinishPrivate, fill_one, FinishOwner, FinishMode,
         place_probe_mode, open_built, FinishLink, op_fail,
         OpFailed, FlushClose, close_op, NameBatch, NameForce, NameUnnamed, NameTemp,
         NamePlain, FlushBackup, SettleClose, SettleOne, Tidied, flush_set_run, Dropped,
         DropRelease, report_one, flush_batch, settle_batch, flush_set_add, drop_spares
<1> QED BY <1>1, <1>2, <1>3, <1>4 DEF Next, Program, Ended

-----------------------------------------------------------------------------
(* As long as no other process has come, none came before.                 *)
LEMMA OtherBack ==
    ASSUME FlowInv, HistInv, [Next]_vars
    PROVE  /\ hist.other \in Nat /\ hist'.other \in Nat /\ hist'.other >= hist.other
           /\ hist'.other = 0 => hist.other = 0 /\ OurStep /\ ~OtherStep
<1>1. hist.other \in Nat /\ MaxOther \in Nat BY WorldAssumption DEF HistInv, HistTypes
<1>2. hist'.other = hist.other \/ hist'.other = hist.other + 1 BY HistForms, OtherCounts
<1>3. OtherStep => hist'.other = hist.other + 1 BY OtherCounts
<1> QED BY <1>1, <1>2, <1>3 DEF OurStep

(* What was there at the start stays until a new file takes its place.     *)
LEMMA StartStep ==
    ASSUME FlowInv, OpsInv, HistInv, SlotsInv, GapInv, StartInv, [Next]_vars
    PROVE  StartInv'
<1>1. spec' = spec /\ start' = start BY StartKept
<1>2. ASSUME hist'.other = 0, NEW t \in Targets, start[t] # None
      PROVE  dir'[t] # None /\ (~spec.force => dir'[t] = start[t])
  <2>1. hist.other = 0 /\ OurStep BY <1>2, OtherBack
  <2>2. dir[t] # None /\ (~spec.force => dir[t] = start[t]) BY <1>2, <2>1 DEF StartInv
  <2>3. t \in Names /\ start[t] = Old(t) BY <1>2, Names0 DEF StartInv
  <2>4. CASE spec.force
    <3>1. CASE dir'[t] = dir[t] BY <2>2, <2>4, <3>1
    <3>2. CASE dir'[t] # dir[t]
      <4>1. \E i \in Ops : dir'[t] = New(i) BY <2>1, <2>4, <3>2, OldOrNewStep
      <4> QED BY <2>4, <4>1, Inodes0
    <3> QED BY <3>1, <3>2
  <2>5. CASE ~spec.force
    <3>1. dir[t] \in Foreign BY <2>2, <2>3, <2>5 DEF Foreign
    <3>2. dir'[t] = dir[t] BY <2>1, <2>3, <2>5, <3>1, NoReplaceStep
    <3> QED BY <2>2, <2>5, <3>2
  <2> QED BY <2>4, <2>5
<1> QED BY <1>1, <1>2 DEF StartInv

(* A path that changes holds a file that is complete or still guarded.     *)
LEMMA LandNew ==
    ASSUME FlowInv, OpsInv, HistInv, FreshInv, [Next]_vars, StartInv',
           NEW t \in Targets, dir'[t] # dir[t]
    PROVE  LandAt(t)'
<1>1. dir \in [Names -> Inodes \cup {None}] /\ t \in Names /\ t \notin Temps
  BY Names0 DEF OpsInv, TypesInv
<1>2. hist'.other \in Nat BY OtherBack
<1>3. CASE dir'[t] = None
  BY <1>2, <1>3 DEF LandAt, StartInv
<1>4. CASE OtherStep
  <2>1. dir'[t] \in {None} \cup Others BY <1>1, <1>4, OtherNamed
  <2>2. hist'.other > 0 BY <1>2, <1>4, OtherBack
  <2> QED BY <2>1, <2>2 DEF LandAt
<1>5. CASE Gives \/ Shifts \/ Swaps
  <2> PICK i : i = Cur OBVIOUS
  <2>1. ctl.pc \in CallPc \ RemovePc BY <1>5 DEF Gives, Shifts, Swaps
  <2>2. i \in Ops /\ Path = Operand[i] /\ Path \in Targets BY <2>1, InHand DEF Path
  <2>3. Complete(i) BY <1>5 DEF Gives, Shifts, Swaps, Ready
  <2>4. Complete(i)' BY <2>2, <2>3, CompleteKept
  <2>5. Shifts \/ Swaps => op[i].tmp \in Temps BY <2>1, ReadyPath DEF Shifts, Swaps
  <2>6. t = Path /\ dir'[t] = New(i) BY <1>1, <1>5, <2>5 DEF Gives, Shifts, Swaps
  <2> QED BY <2>2, <2>4, <2>6 DEF LandAt
<1>6. ASSUME NEW n, NEW x, Makes(n, x) PROVE LandAt(t)'
  <2> PICK i : i = Cur OBVIOUS
  <2>1. n = t /\ x = dir'[t] BY <1>1, <1>6 DEF Makes
  <2>2. ctl.pc \in CallPc \ RemovePc /\ ctl'.cur = ctl.cur /\ ctl'.pc = "made" /\ fr'.path = t
    BY <1>6, <2>1 DEF Makes
  <2>3. i \in Ops /\ Path = Operand[i] /\ Path \in Targets /\ Live BY <2>2, InHand DEF Path
  <2>4. Live' BY <1>6, <2>3 DEF Makes, Live
  <2>5. t \notin Backups(Path) BY <2>3, Names0
  <2>6. /\ t = Path /\ fr'.ino = x
        /\ \/ x = New(i)
           \/ x = Hold(i) /\ fr'.what = "over"
    BY <1>1, <1>6, <2>1, <2>5 DEF Makes
  <2>7. CASE x = New(i) BY <2>1, <2>2, <2>3, <2>4, <2>6, <2>7 DEF LandAt, Path
  <2>8. CASE x = Hold(i) /\ fr'.what = "over"
    <3>1. AtHold' BY <2>1, <2>2, <2>4, <2>6, <2>8 DEF AtHold, Path, Cur
    <3> QED BY <2>2, <2>6, <3>1 DEF LandAt, Path
  <2> QED BY <2>6, <2>7, <2>8
<1>7. CASE Takes \/ Undoes \/ Rebacks
  <2>1. CASE Takes \/ Undoes
    <3>1. dir'[t] = None BY <1>1, <2>1 DEF Takes, Undoes
    <3> QED BY <1>3, <3>1
  <2>2. CASE Rebacks
    <3>1. ctl.pc = "overbackup" BY <2>2 DEF Rebacks
    <3>2. Path \in Targets BY <3>1, InHand
    <3>3. t # Simple(Path) BY <3>2, Names0 DEF Backups
    <3> QED BY <1>1, <2>2, <3>3 DEF Rebacks
  <2> QED BY <1>7, <2>1, <2>2
<1> QED BY <1>4, <1>5, <1>6, <1>7, DirForms

(* What can happen while the placeholder is at the path and signals are    *)
(* held: it is renamed over, or removed again.                             *)
LEMMA HoldKept ==
    ASSUME FlowInv, OpsInv, HistInv, [Next]_vars, FlowInv', AtHold,
           NEW t, t = Path, dir'[t] = dir[t]
    PROVE  (t = Path /\ AtHold)' \/ t \in hist'.refused
<1> PICK i : i = Cur OBVIOUS
<1>1. ctl.pc \in CallPc /\ Live BY DEF AtHold
<1>2. ctl.pc \notin RemovePc => i \in Ops /\ CallInv(i) /\ Path \in Targets BY <1>1, InHand
<1>3. ctl.pc \in RemovePc => i \in Ops /\ RemoveInv(i) BY <1>1, InRemove DEF CallInv
<1>4. i \in Ops /\ Path \in Targets
  <2>1. i \in Ops BY <1>1, <1>2, <1>3
  <2>2. Operand[i] \in Targets BY <2>1, Names0
  <2> QED BY <2>1, <2>2 DEF Path, Cur
<1>5. Hold(i) # None /\ Hold(i) \in Ours /\ dir \in [Names -> Inodes \cup {None}] /\ t \in Names
  BY <1>4, Names0, Inodes0 DEF OpsInv, TypesInv
<1>6. dir[t] = Hold(i) /\ dir[t] # None BY <1>5 DEF AtHold
<1>7. CASE UNCHANGED <<ctl, fr>> /\ Live'
  <2>1. Path' = Path /\ Cur' = Cur BY <1>7 DEF Path, Cur
  <2> QED BY <1>6, <1>7, <2>1 DEF AtHold
<1>8. CASE ctl.pc = "made"
  <2>1. fr.what = "over" BY <1>8 DEF AtHold
  <2>2. MadeInv(i) BY <1>2, <1>8 DEF CallInv
  <2>3. fr.path = t BY <2>1, <2>2 DEF MadeInv
  <2>4. CASE Arm /\ fr' = fr /\ ctl'.pc = "over" /\ Live'
    <3>1. Goto(fr.then) /\ fr.then = "over"
      BY <1>8, <2>1, <2>4 DEF Arm, FlowInv, CallFrame, FrMade
    <3>2. ctl'.cur = ctl.cur BY <3>1, CallStep
    <3>3. Path' = Path /\ Cur' = Cur BY <3>2 DEF Path, Cur
    <3> QED BY <1>6, <2>4, <3>3 DEF AtHold
  <2> QED BY <1>6, <1>7, <1>8, <2>1, <2>3, <2>4, MadeStep
<1>9. CASE ctl.pc = "over" \/ (ctl.pc \in RemovePc /\ fr.then = "overfailed")
  <2>1. Holding BY <1>9 DEF Holding
  <2>2. held # 0 BY <2>1 DEF FlowInv, HeldInv
  <2>3. Live' BY <1>1, <2>2, SigStep DEF Signal, SignalTaken, Live
  <2>4. ctl.loop = "name" BY <1>1, <1>9 DEF FlowInv, CtlInv, CallFrame, FrRemove
  <2>5. CASE OverRename
    <3>1. ctl.pc = "over" BY <2>5 DEF OverRename
    <3>2. Ready(i) BY <1>2, <3>1 DEF CallInv
    <3>3. op[i].tmp \in Temps /\ op[i].tmp # Path /\ dir[op[i].tmp] = New(i)
          /\ op[i].tmp \in Names
      BY <3>1, <3>2, ReadyPath
    <3>4. dir' # Rename(dir, op[Cur].tmp, Path)
      BY <1>5, <1>6, <3>3, Inodes0 DEF Rename
    <3>5. /\ fr' = [fr EXCEPT !.what = "remove", !.flag = FALSE, !.then = "overfailed"]
          /\ Goto("lstat")
      BY <2>5, <3>4 DEF OverRename, SetDir
    <3>6. fr'.then = "overfailed" BY <3>1, <3>5 DEF FlowInv, CallFrame
    <3>7. ctl'.cur = ctl.cur /\ ctl'.pc = "lstat" BY <3>5, CallStep
    <3>8. Path' = Path /\ Cur' = Cur BY <3>7 DEF Path, Cur
    <3> QED BY <1>6, <2>3, <3>6, <3>7, <3>8 DEF AtHold
  <2>6. CASE RemoveLstat \/ RemoveUnlink
    <3>1. ctl.pc \in RemovePc /\ fr.then = "overfailed"
      BY <1>9, <2>6 DEF RemoveLstat, RemoveUnlink
    <3>2. fr.path = t /\ fr.ino = Hold(i) BY <1>3, <3>1 DEF RemoveInv
    <3>3. CASE FaultAt(fr.path) BY <3>2, <3>3 DEF FaultAt, HistInv, HistTypes
    <3>4. CASE Goto("unlink") /\ fr' = fr
      <4>1. ctl'.cur = ctl.cur /\ ctl'.pc = "unlink" BY <3>4, CallStep
      <4>2. Path' = Path /\ Cur' = Cur BY <4>1 DEF Path, Cur
      <4> QED BY <1>6, <2>3, <3>1, <3>4, <4>1, <4>2 DEF AtHold
    <3>5. dir' # Bind(dir, fr.path, None) BY <1>5, <1>6, <3>2 DEF Bind
    <3> QED BY <1>6, <2>6, <3>2, <3>3, <3>4, <3>5
         DEF RemoveLstat, RemoveUnlink, Free, SetDir
  <2>7. UNCHANGED <<ctl, fr>> \/ OverRename \/ RemoveLstat \/ RemoveUnlink
    BY <1>1, <1>9, <2>3, <2>4, NameActions
       DEF Arm, UndoOpen, CommitRename, CommitClear, CommitLink, CommitOver, OverFailed,
           ReplaceRename, Renamed, ExchangeNames, Exchanged, BackupStep, backup_none,
           backup_make, backup_next, backup_numbered, OutOfNumbers, backup_note,
           backup_simple, place_temp_alias, OverBackup, NameForce, NameUnnamed, NameTemp,
           NamePlain, FlushBackup, flush_set_add, op_fail, OpFailed
  <2> QED BY <1>7, <2>3, <2>5, <2>6, <2>7
<1> QED BY <1>8, <1>9 DEF AtHold

(* A slot that is freed guards no path, but for a complete file.           *)
LEMMA FreesPath ==
    ASSUME FlowInv, OpsInv, NEW s, Frees(s), NEW t \in Targets, NEW i \in Ops,
           Guards(s, t, New(i))
    PROVE  Complete(i)
<1> PICK c : c = Cur OBVIOUS
<1>1. t \notin Temps /\ t # None BY Names0
<1>2. ctl.pc \in {"commitclear", "renamed", "exchanged", "name"}
  BY DEF Frees, CommitClear, Renamed, Exchanged, NamePlain
<1>3. CallInv(c) /\ c \in Ops /\ Path \in Targets BY <1>2, InHand
<1>4. CASE s = Slot(Cur) /\ ~NamePlain
  <2>1. Moved(c) BY <1>2, <1>3, <1>4 DEF CallInv, Frees, CommitClear, Renamed, Exchanged
  <2> QED BY <1>1, <1>4, <2>1 DEF Moved, Guards
<1>5. CASE s = BackupSlot /\ (Renamed \/ Exchanged)
  <2>1. ctl.pc \in BackupPc /\ Armed(BackupSlot)
    BY <1>1, <1>5 DEF Renamed, Exchanged, BackupPc, Guards, Armed
  <2>2. Guards(s, op[c].backup, mem.old) /\ op[c].backup \in Backups(Path)
    BY <1>3, <1>5, <2>1 DEF CallInv
  <2> QED BY <1>3, <2>2, Names0 DEF Guards
<1>6. CASE s = Slot(Cur) /\ NamePlain
  <2>1. ToName(c) BY <1>3, <1>6 DEF CallInv, NamePlain
  <2>2. op[c].way = "plain" BY <1>6 DEF NamePlain
  <2>3. InPlace(c) /\ Complete(c) BY <2>1, <2>2 DEF ToName, Built, Complete
  <2>4. New(i) = New(c) BY <1>6, <2>3 DEF InPlace, Guards
  <2> QED BY <2>3, <2>4, Inodes0
<1> QED BY <1>4, <1>5, <1>6 DEF Frees

(* A path that keeps its file keeps what is known of it.                   *)
LEMMA LandKept ==
    ASSUME FlowInv, OpsInv, HistInv, FreshInv, [Next]_vars, FlowInv',
           NEW t \in Targets, dir'[t] = dir[t], LandAt(t)
    PROVE  LandAt(t)'
<1>1. t \in Names /\ t \notin Temps BY Names0
<1>2. CASE dir[t] = start[t]
  <2>1. start' = start BY StartKept
  <2> QED BY <1>2, <2>1 DEF LandAt
<1>3. CASE dir[t] \in Others \cup {None} /\ hist.other > 0
  <2>1. hist'.other > 0 BY <1>3, OtherBack
  <2> QED BY <1>3, <2>1 DEF LandAt
<1>4. CASE t \in hist.refused
  <2>1. t \in hist'.refused BY <1>4, HistForms
  <2> QED BY <2>1 DEF LandAt
<1>5. CASE t = Path /\ AtHold BY <1>5, HoldKept DEF LandAt
<1>6. ASSUME NEW i \in Ops, dir[t] = New(i), Operand[i] = t, Complete(i) PROVE LandAt(t)'
  <2>1. Complete(i)' BY <1>6, CompleteKept
  <2> QED BY <1>6, <2>1 DEF LandAt
<1>7. ASSUME NEW i \in Ops, dir[t] = New(i), Operand[i] = t, NEW s \in Slots,
             Guards(s, t, New(i)), Watches(s)
      PROVE  LandAt(t)'
  <2> PICK x : x = New(i) OBVIOUS
  <2>1. x \in Inodes BY Inodes0
  <2>2. ~(drop_spares /\ s = Slot(Cur))
    <3> SUFFICES ASSUME drop_spares, s = Slot(Cur) PROVE FALSE OBVIOUS
    <3>1. ctl.pc = "drop" BY DEF drop_spares
    <3>2. Spared(Cur) BY <3>1, InHand DEF CallInv
    <3> QED BY <1>1, <1>7, <3>2 DEF Spared, Guards
  <2>3. Frees(s) => LandAt(t)' BY <1>6, <1>7, FreesPath
  <2>4. Guards(s, t, x)' /\ Watches(s)' => LandAt(t)'
    BY <1>7 DEF LandAt, Guards
  <2>5. t \in hist'.refused => LandAt(t)' BY DEF LandAt
  <2> QED BY <1>1, <1>7, <2>1, <2>2, <2>3, <2>4, <2>5, GuardStep
<1>8. ASSUME NEW i \in Ops, dir[t] = New(i), Operand[i] = t,
             Live, ctl.pc = "made", t = fr.path, fr.ino = New(i)
      PROVE  LandAt(t)'
  <2>1. dir[t] # None BY <1>8, Inodes0
  <2>2. MadeInv(Cur) BY <1>8, InHand DEF CallInv
  <2>3. fr.what # "over" BY <1>8, <2>2, Inodes0 DEF MadeInv
  <2>4. CASE UNCHANGED <<ctl, fr>> /\ Live' BY <1>8, <2>4 DEF LandAt
  <2>5. CASE fr.slot \in Slots /\ Guards(fr.slot, t, fr.ino)' /\ ctl'.pc # "killed" /\ Live'
             /\ fr' = fr
    <3> PICK s : s = fr.slot OBVIOUS
    <3>1. Watches(s)' BY <2>5 DEF Watches
    <3>2. pending'[s] = [path |-> t, ino |-> New(i)] BY <1>8, <2>5 DEF Guards
    <3>3. Guards(s, t, New(i))' BY <3>2 DEF Guards, New
    <3> QED BY <1>8, <2>5, <3>1, <3>3 DEF LandAt
  <2>6. t \in hist'.refused => LandAt(t)' BY DEF LandAt
  <2> QED BY <1>8, <2>1, <2>3, <2>4, <2>5, <2>6, MadeStep
<1> QED BY <1>2, <1>3, <1>4, <1>5, <1>6, <1>7, <1>8 DEF LandAt

(* What is known of the paths.                                             *)
PathsInv == BaseInv /\ FreshInv /\ StartInv /\ LandInv

(* At first the paths are as they were.                                    *)
LEMMA InitPaths == Init => PathsInv
<1> SUFFICES ASSUME Init PROVE PathsInv OBVIOUS
<1>1. ctl.pc = "batch" /\ dir = start BY DEF Init
<1>2. \A n \in Names : start[n] \in {Old(n), None} BY DEF Init
<1>3. FreshInv BY <1>1 DEF FreshInv
<1>4. StartInv BY <1>1, <1>2 DEF StartInv
<1>5. LandInv BY <1>1 DEF LandInv, LandAt
<1> QED BY <1>3, <1>4, <1>5, InitBase DEF PathsInv

(* Every step keeps what is known of the paths.                            *)
LEMMA PathsInvStep == PathsInv /\ [Next]_vars => PathsInv'
<1> SUFFICES ASSUME PathsInv, [Next]_vars PROVE PathsInv' OBVIOUS
<1>1. BaseInv' BY BaseStep DEF PathsInv
<1>2. FlowInv /\ OpsInv /\ HistInv /\ SlotsInv /\ GapInv /\ FreshInv /\ StartInv /\ LandInv
  BY DEF PathsInv, BaseInv, SafeInv
<1>3. FlowInv' /\ OpsInv' BY <1>1 DEF BaseInv, SafeInv
<1>4. FreshInv' BY <1>2, <1>3, FreshStep
<1>5. StartInv' BY <1>2, StartStep
<1>6. LandInv'
  <2> SUFFICES ASSUME NEW t \in Targets PROVE LandAt(t)' BY DEF LandInv
  <2>1. LandAt(t) BY <1>2 DEF LandInv
  <2> QED BY <1>2, <1>3, <1>5, <2>1, LandNew, LandKept
<1> QED BY <1>1, <1>4, <1>5, <1>6 DEF PathsInv

(* It holds all along.                                                     *)
LEMMA PathsAlways == Spec => []PathsInv
  BY InitPaths, PathsInvStep, PTL DEF Spec

(* A signal, at whatever moment it comes, leaves every path as it was or   *)
(* with a file that is finished and flushed; a file created in place whose *)
(* flush has not been seen through, and a placeholder, are gone again,     *)
(* unless the kernel refused to remove them: cleanup_handler(), the slots  *)
(* and the places where signals are held.                                  *)
THEOREM InterruptedTheorem == Spec => []Interrupted
<1>1. PathsInv => Interrupted
  <2> SUFFICES ASSUME PathsInv, ctl.pc = "killed", NEW t \in Targets
               PROVE  \/ dir[t] = start[t]
                      \/ dir[t] \in Others \cup {None} /\ hist.other > 0
                      \/ \E i \in Ops : /\ dir[t] = New(i) /\ Operand[i] = t
                                        /\ Finished(i) /\ file[i].flushed
                      \/ t \in hist.refused
    BY DEF Interrupted
  <2>1. LandAt(t) BY DEF PathsInv, LandInv
  <2>2. ~Live BY DEF PathsInv, BaseInv, SafeInv, FlowInv, HeldInv
  <2>3. ~AtHold /\ \A s : ~Watches(s) BY <2>2 DEF AtHold, Watches
  <2> QED BY <2>1, <2>2, <2>3 DEF LandAt, Complete
<1> QED BY <1>1, PathsAlways, PTL

-----------------------------------------------------------------------------
(* Every removal whose caller goes on as if nothing had failed takes note. *)
LEMMA FlagStep ==
    ASSUME FlowInv, FlagInv, [Next]_vars, FlowInv'
    PROVE  FlagInv'
<1> SUFFICES ASSUME Live', ctl'.pc \in RemovePc,
                    fr'.then \in {"open", "backed", "tidied", "dropped"}
             PROVE  fr'.flag
  BY DEF FlagInv
<1>1. Live BY LiveBefore
<1>2. ASSUME NEW p \in (Pcs \cup {"next"}) \ RemovePc, Goto(p) PROVE FALSE
  <2>1. p = "next" => Moves(ctl, ctl') BY <1>2, GotoStep DEF FlowInv
  <2>2. Moves(ctl, ctl') => ctl'.pc \notin RemovePc
    BY DEF Moves, Entry, After, FlowInv, CtlInv, CtlType
  <2>3. p # "next" => ctl'.pc = p BY <1>2, GotoStep DEF FlowInv
  <2> QED BY <2>1, <2>2, <2>3
<1>3. ~(Begins \/ DropRelease \/ report_one \/ Handles)
  <2>1. ASSUME NEW l \in DOMAIN Entry, NEW b \in SUBSET Batch, Entered(l, b) PROVE FALSE
    BY <2>1 DEF Entered, Entry, After
  <2>2. ~Begins BY <2>1 DEF Begins, Entry
  <2>3. ~DropRelease BY <1>2 DEF DropRelease
  <2>4. report_one => ctl'.pc \in {"batch", "exit"}
    BY DEF report_one, FlowInv, CtlInv, CtlType
  <2> QED BY <2>2, <2>3, <2>4 DEF Handles
<1>4. CASE UNCHANGED <<ctl, fr>> BY <1>1, <1>4 DEF FlagInv
<1>5. CASE RemoveLstat \/ RemoveUnlink
  <2>1. ctl.pc \in RemovePc /\ fr' = fr BY <1>5 DEF RemoveLstat, RemoveUnlink
  <2> QED BY <1>1, <2>1 DEF FlagInv
<1>6. ~SignalTaken /\ ~HandlerStep
  BY <1>1 DEF SignalTaken, HandlerStep, FlowInv, HeldInv, Live
<1>7. CASE PlaceStep
  <2>1. ~Arm
    <3> SUFFICES ASSUME Arm PROVE FALSE OBVIOUS
    <3>1. FrMade /\ Goto(fr.then) BY DEF Arm, FlowInv, CallFrame
    <3>2. fr.then \in (CallPc \cup {"next"}) \ RemovePc
      BY <3>1 DEF FrMade, Finish, AfterFill
    <3> QED BY <1>2, <3>1, <3>2
  <2>2. ~(UndoOpen \/ CommitRename \/ CommitClear \/ CommitLink \/ OverFailed \/ Renamed
          \/ Exchanged)
    BY <1>2 DEF UndoOpen, CommitRename, CommitClear, CommitLink, OverFailed, Renamed,
                Exchanged
  <2>3. ~CommitOver BY <1>2 DEF CommitOver, Made
  <2>4. CASE ProbeDone
    <3>1. Goto("open") \/ Goto("fail") \/ fr'.flag \/ fr'.then = "fail"
      BY <2>4 DEF ProbeDone, pending_remove
    <3> QED BY <1>2, <3>1
  <2>5. ~(ReplaceRename \/ ExchangeNames)
    <3>1. ReplaceRename \/ ExchangeNames =>
            Goto("renamed") \/ Goto("exchanged") \/ Goto("fail") \/ fr'.then = "fail"
      BY DEF ReplaceRename, ExchangeNames, pending_remove
    <3> QED BY <1>2, <3>1
  <2>6. ~OverRename
    <3> SUFFICES ASSUME OverRename PROVE FALSE OBVIOUS
    <3>1. ctl.loop = "name" /\ ~spec'.force BY DEF OverRename, FlowInv, CtlInv
    <3>2. Goto("renamed") \/ Goto("lstat") BY DEF OverRename
    <3>3. ctl'.loop = "name" BY <3>1, <3>2, CallStep
    <3> QED BY <3>1, <3>3 DEF FlowInv, CallFrame, FrRemove
  <2> QED BY <1>7, <2>1, <2>2, <2>3, <2>4, <2>5, <2>6 DEF PlaceStep
<1>8. CASE BackupStep /\ ctl' # ctl
  <2>1. ~(backup_none \/ backup_make \/ backup_next \/ backup_note \/ OutOfNumbers)
    BY <1>2 DEF backup_none, backup_make, backup_next, backup_note, OutOfNumbers
  <2>2. ~(backup_numbered \/ backup_simple \/ place_temp_alias)
    BY <1>2, <1>8 DEF backup_numbered, backup_simple, backup_link, NoLink, Made,
                place_temp_alias, temp_make, NoTemp
  <2>3. OverBackup => Goto("backed") \/ Goto("fail") \/ fr'.flag \/ fr'.then = "fail"
    BY DEF OverBackup, pending_remove
  <2> QED BY <1>2, <1>8, <2>1, <2>2, <2>3 DEF BackupStep
<1>9. CASE BatchStep
  <2>1. ~(build_one \/ place_probe_mode \/ open_built \/ FinishPrivate \/ FinishLink
          \/ fill_one \/ FinishOwner \/ FinishMode)
    <3>1. build_one \/ place_probe_mode \/ open_built \/ FinishPrivate \/ FinishLink
          \/ fill_one \/ FinishOwner \/ FinishMode =>
            \E p \in (CallPc \cup {"next"}) \ RemovePc : Goto(p)
      BY DEF build_one, place_probe_mode, open_built, FinishPrivate, FinishLink,
             fill_one, FinishOwner, FinishMode, Made, temp_make, NoTemp, Finish, AfterFill
    <3> QED BY <1>2, <3>1
  <2>2. ~(close_op \/ NameForce \/ NameUnnamed \/ NameTemp \/ NamePlain \/ flush_set_add
          \/ Tidied \/ OpFailed \/ Dropped)
    <3>1. close_op \/ NameForce \/ NameUnnamed \/ NameTemp \/ NamePlain \/ flush_set_add
          \/ Tidied \/ OpFailed \/ Dropped =>
            \E p \in (CallPc \cup {"next"}) \ RemovePc : Goto(p)
      BY DEF close_op, NameForce, NameUnnamed, NameTemp, NamePlain, flush_set_add,
             Tidied, OpFailed, Dropped, Made, temp_make, NoTemp
    <3> QED BY <1>2, <3>1
  <2>3. FlushBackup \/ op_fail =>
          Goto("rename") \/ Goto("fail") \/ Goto("failed") \/ fr'.then \in {"fail", "failed"}
    BY DEF FlushBackup, op_fail, pending_remove
  <2>4. SettleOne \/ drop_spares =>
          Goto("tidied") \/ Goto("dropped") \/ Goto("next") \/ Goto("fail") \/ fr'.flag
    BY DEF SettleOne, drop_spares, pending_remove
  <2>5. batch_run \/ flush_batch \/ FlushClose \/ NameBatch \/ settle_batch \/ SettleClose
        \/ flush_set_run => ctl.pc \in HeadPc
    BY DEF batch_run, flush_batch, FlushClose, NameBatch, settle_batch, SettleClose,
           flush_set_run
  <2>6. ctl.pc \notin HeadPc BY <1>3, CtlForms DEF Turns
  <2> QED BY <1>2, <1>3, <1>9, <2>1, <2>2, <2>3, <2>4, <2>5, <2>6 DEF BatchStep
<1>10. CASE BackupStep /\ ctl' = ctl
  <2>1. ctl.pc \notin RemovePc
    BY <1>10 DEF BackupStep, backup_none, backup_make, backup_next, backup_numbered,
          OutOfNumbers, backup_note, backup_simple, place_temp_alias, OverBackup
  <2> QED BY <1>10, <2>1
<1>11. OtherStep \/ Signal \/ UNCHANGED vars => UNCHANGED <<ctl, fr>>
  BY DEF OtherStep, OtherPut, OtherUnlink, Signal, vars
<1> QED BY <1>4, <1>5, <1>6, <1>7, <1>8, <1>9, <1>10, <1>11
        DEF Next, Program, PendingStep, Ended

(* The outcome of an operand is written while it is in hand.               *)
LEMMA OpCalls == [Next]_vars => op' = op \/ ctl.pc \in CallPc \/ report_one
<1> SUFFICES ASSUME [Next]_vars PROVE op' = op \/ ctl.pc \in CallPc \/ report_one OBVIOUS
<1>1. Signal \/ OtherStep \/ UNCHANGED vars \/ PendingStep => op' = op \/ ctl.pc \in CallPc
  BY DEF Signal, OtherStep, OtherPut, OtherUnlink, vars, PendingStep, RemoveLstat,
         RemoveUnlink, SignalTaken, HandlerStep
<1>2. PlaceStep => ctl.pc \in CallPc
  BY DEF PlaceStep, Arm, UndoOpen, ProbeDone, CommitRename, CommitClear, CommitLink,
         CommitOver, OverRename, OverFailed, ReplaceRename, Renamed, ExchangeNames,
         Exchanged
<1>3. BackupStep => ctl.pc \in CallPc
  BY DEF BackupStep, backup_none, backup_make, backup_next, backup_numbered,
         OutOfNumbers, backup_note, backup_simple, place_temp_alias, OverBackup
<1>4. BatchStep => op' = op \/ ctl.pc \in CallPc \/ report_one
  BY DEF BatchStep, batch_run, build_one, FinishPrivate, fill_one, FinishOwner, FinishMode,
         place_probe_mode, open_built, FinishLink, op_fail,
         OpFailed, FlushClose, close_op, NameBatch, NameForce, NameUnnamed, NameTemp,
         NamePlain, FlushBackup, SettleClose, SettleOne, Tidied, flush_set_run, Dropped,
         DropRelease, flush_batch, settle_batch, flush_set_add, drop_spares
<1> QED BY <1>1, <1>2, <1>3, <1>4 DEF Next, Program, Ended

(* Only report_one() decides the status.                                   *)
LEMMA AllokKept ==
    ASSUME FlowInv, [Next]_vars
    PROVE  /\ ~report_one => mem'.allok = mem.allok
           /\ report_one => mem'.allok = (mem.allok /\ \A i \in Batch : ~Marred(i))
<1>1. DOMAIN mem = MemFields BY DEF FlowInv, HeldInv
<1>2. Signal \/ OtherStep \/ UNCHANGED vars \/ PendingStep => mem' = mem
  BY DEF Signal, OtherStep, OtherPut, OtherUnlink, vars, PendingStep, RemoveLstat,
         RemoveUnlink, SignalTaken, HandlerStep
<1>3. PlaceStep => mem'.allok = mem.allok
  BY <1>1 DEF PlaceStep, Arm, UndoOpen, ProbeDone, CommitRename, CommitClear, CommitLink,
         CommitOver, OverRename, OverFailed, ReplaceRename, Renamed, ExchangeNames,
         Exchanged, MemFields
<1>4. BackupStep => mem'.allok = mem.allok
  BY <1>1 DEF BackupStep, backup_none, backup_make, backup_next, backup_numbered,
         OutOfNumbers, backup_note, backup_simple, place_temp_alias, OverBackup, MemFields
<1>5. BatchStep => mem'.allok = mem.allok \/ report_one
  BY <1>1 DEF BatchStep, batch_run, build_one, FinishPrivate, fill_one, FinishOwner,
         FinishMode, place_probe_mode, open_built, FinishLink, op_fail,
         OpFailed, FlushClose, close_op, NameBatch, NameForce, NameUnnamed, NameTemp,
         NamePlain, FlushBackup, SettleClose, SettleOne, Tidied, flush_set_run, Dropped,
         DropRelease, flush_batch, settle_batch, flush_set_add, drop_spares, MemFields
<1>6. report_one => mem'.allok = (mem.allok /\ \A i \in Batch : ~Marred(i))
  BY <1>1 DEF report_one, MemFields, Marred
<1> QED BY <1>2, <1>3, <1>4, <1>5, <1>6 DEF Next, Program, Ended

(* What is held against an operand stays so, and falls on the one in hand. *)
LEMMA MarredKept ==
    ASSUME FlowInv, OpsInv, [Next]_vars, NEW i \in Ops, Marred(i)
    PROVE  Marred(i)'
  BY FailKept, OpFields DEF Marred

(* Nothing is held against an operand that is not in hand.                 *)
LEMMA MarredBack ==
    ASSUME FlowInv, OpsInv, [Next]_vars, NEW i \in Ops, Marred(i)'
    PROVE  Marred(i) \/ (i = Cur /\ ctl.pc \in CallPc)
<1>1. op \in [Ops -> OpType] /\ Cur \in Ops
  BY DEF OpsInv, TypesInv, FlowInv, CtlInv, CtlType, Cur
<1>2. CASE op' = op BY <1>2 DEF Marred
<1>3. CASE report_one
  <2>1. op'[i].fail = op[i].fail /\ op'[i].leftover = op[i].leftover
    BY <1>1, <1>3 DEF report_one, OpType
  <2> QED BY <2>1 DEF Marred
<1>4. CASE ctl.pc \in CallPc /\ i # Cur
  <2>1. op'[i] = op[i] \/ op'[i] = [op[i] EXCEPT !.backup = None]
    BY <1>1, <1>4, OpForms DEF OpWritten
  <2>2. op'[i].fail = op[i].fail /\ op'[i].leftover = op[i].leftover
    BY <1>1, <2>1 DEF OpType
  <2> QED BY <2>2 DEF Marred
<1> QED BY <1>2, <1>3, <1>4, OpCalls

(* A name that could not be removed is held against the status.            *)
LEMMA RefStep ==
    ASSUME FlowInv, OpsInv, HistInv, FlagInv, RefInv, [Next]_vars
    PROVE  RefInv'
<1> SUFFICES ASSUME Live', hist'.refused # {}, mem'.allok,
                    ctl'.pc \notin {"fail", "overfailed"}
             PROVE  \E i \in Batch' : Marred(i)'
  BY DEF RefInv
<1>1. Live BY LiveBefore
<1>2. mem.allok /\ (report_one => \A i \in Batch : ~Marred(i)) BY AllokKept
<1>3. Batch \subseteq Ops /\ op \in [Ops -> OpType] BY Slots0 DEF FlowInv, OpsInv, TypesInv
<1>4. CASE hist'.refused = hist.refused
  <2>1. CASE ctl.pc = "fail"
    <3>1. op_fail BY <2>1, FailActions
    <3>2. Cur \in Batch /\ Cur \in Ops BY <2>1, InHand
    <3>3. ~report_one BY <2>1 DEF report_one
    <3>4. Batch' = Batch BY <3>3, FirstKept
    <3>5. op'[Cur].fail = ctl.loop BY <1>3, <3>1, <3>2 DEF op_fail, OpType
    <3>6. ctl.loop # "no" BY DEF FlowInv, CtlInv, CtlType, Entry
    <3>7. PICK c : c = Cur OBVIOUS
    <3>8. Marred(c)' BY <3>5, <3>6, <3>7 DEF Marred
    <3> QED BY <3>2, <3>4, <3>7, <3>8
  <2>2. CASE ctl.pc = "overfailed"
    <3>1. ctl.loop = "name" BY <2>2 DEF FlowInv, CtlInv
    <3>2. ctl' = ctl \/ OverFailed
      BY <2>2, <3>1, NameActions
         DEF RemoveLstat, RemoveUnlink, Arm, UndoOpen, CommitRename, CommitClear, CommitLink,
             CommitOver, OverRename, ReplaceRename, Renamed, ExchangeNames, Exchanged,
             BackupStep, backup_none, backup_make, backup_next, backup_numbered,
             OutOfNumbers, backup_note, backup_simple, place_temp_alias, OverBackup,
             NameForce, NameUnnamed, NameTemp, NamePlain, FlushBackup, flush_set_add,
             op_fail, OpFailed
    <3>3. OverFailed => ctl'.pc = "fail"
      <4>1. OverFailed => Goto("fail") BY DEF OverFailed
      <4> QED BY <4>1, CallStep
    <3> QED BY <2>2, <3>2, <3>3
  <2>3. ASSUME NEW i \in Batch, Marred(i) PROVE \E j \in Batch' : Marred(j)'
    <3>1. ~report_one BY <1>2, <2>3
    <3>2. Batch' = Batch BY <3>1, FirstKept
    <3>3. Marred(i)' BY <1>3, <2>3, MarredKept
    <3> QED BY <2>3, <3>2, <3>3
  <2> QED BY <1>1, <1>2, <1>4, <2>1, <2>2, <2>3 DEF RefInv
<1>5. CASE (RemoveLstat \/ RemoveUnlink) /\ hist' # hist
  <2> PICK c : c = Cur OBVIOUS
  <2>1. ctl.pc \in RemovePc /\ RemoveDone(TRUE) BY <1>5 DEF RemoveLstat, RemoveUnlink
  <2>2. RemoveInv(c) /\ FrRemove /\ c \in Batch /\ c \in Ops BY <1>1, <2>1, InRemove
  <2>3. ~report_one BY <2>1 DEF report_one
  <2>4. Batch' = Batch BY <2>3, FirstKept
  <2>5. Goto(fr.then) BY <2>1 DEF RemoveDone
  <2>6. fr.then \notin {"fail", "overfailed"}
    <3>1. fr.then \in {"fail", "overfailed"} => ctl'.pc = fr.then BY <2>5, CallStep
    <3> QED BY <3>1
  <2>7. CASE fr.flag
    <3>1. op'[c].leftover BY <1>3, <2>1, <2>2, <2>7 DEF RemoveDone, OpType
    <3>2. Marred(c)' BY <3>1 DEF Marred
    <3> QED BY <2>2, <2>4, <3>2
  <2>8. CASE ~fr.flag
    <3>1. fr.then = "failed" BY <1>1, <2>1, <2>2, <2>6, <2>8 DEF FlagInv, FrRemove
    <3>2. op[c].fail # "no" BY <2>2, <3>1 DEF RemoveInv
    <3>3. Marred(c)' BY <2>2, <3>2, MarredKept DEF Marred
    <3> QED BY <2>2, <2>4, <3>3
  <2> QED BY <2>7, <2>8
<1> QED BY <1>4, <1>5, HistForms

(* The only way to the exit, and to another batch, is through the report.  *)
LEMMA HeadFrom ==
    ASSUME FlowInv, [Next]_vars, ctl'.pc \in {"exit", "batch"}, ~report_one
    PROVE  ctl' = ctl
<1>1. ctl.loop \in DOMAIN Entry BY DEF FlowInv, CtlInv, CtlType
<1>2. ~Turns BY <1>1 DEF Turns, Moves, Entry, After
<1>3. ~Begins
  <2>1. ASSUME NEW l \in DOMAIN Entry, NEW b \in SUBSET Batch, Entered(l, b) PROVE FALSE
    BY <2>1 DEF Entered, Entry, After
  <2> QED BY <2>1 DEF Begins, Entry
<1>4. ~DropRelease
  <2>1. DropRelease => ctl'.pc = "report" BY GotoStep DEF DropRelease, FlowInv
  <2> QED BY <2>1
<1>5. ~Handles BY DEF Handles
<1> QED BY <1>2, <1>3, <1>4, <1>5, CtlForms

(* What report_one() does to the control.                                  *)
LEMMA ReportGoes ==
    ASSUME FlowInv, report_one
    PROVE  /\ ctl.pc = "report" /\ ctl.loop = "drop" /\ ctl'.loop = "drop"
           /\ ctl.first \in Ops /\ Live /\ Live' /\ NOps \in Nat /\ BatchSize \in Nat \ {0}
           /\ \/ /\ ctl'.pc = "batch" /\ ctl'.first = ctl.first + BatchSize
                 /\ ctl.first + BatchSize <= NOps
                 /\ Batch = ctl.first .. (ctl.first + BatchSize - 1)
              \/ /\ ctl'.pc = "exit" /\ ctl'.first = ctl.first /\ Batch' = Batch
                 /\ ctl.first + BatchSize > NOps /\ Batch = ctl.first .. NOps
<1>1. ctl \in CtlType /\ ctl.pc = "report" /\ ctl.loop = "drop" /\ ctl.first \in Ops
  BY DEF FlowInv, CtlInv, CtlType, LoopOf, report_one
<1>2. NOps \in Nat /\ BatchSize \in Nat \ {0} /\ ctl.first \in Nat
  BY <1>1, WorldAssumption DEF Ops
<1>3. Live /\ Live' BY <1>1 DEF FlowInv, HeldInv, Live, report_one
<1>4. CASE ctl.first + BatchSize <= NOps
  <2>1. ctl'.pc = "batch" /\ ctl'.first = ctl.first + BatchSize /\ ctl'.loop = "drop"
    BY <1>1, <1>4 DEF report_one, CtlType
  <2>2. Batch = ctl.first .. (ctl.first + BatchSize - 1)
    BY <1>2, <1>4 DEF Batch
  <2> QED BY <1>1, <1>2, <1>3, <1>4, <2>1, <2>2
<1>5. CASE ~(ctl.first + BatchSize <= NOps)
  <2>1. ctl'.pc = "exit" /\ ctl'.first = ctl.first /\ ctl'.loop = "drop"
    BY <1>1, <1>5 DEF report_one, CtlType
  <2>2. Batch' = Batch BY <2>1 DEF Batch
  <2>3. Batch = ctl.first .. NOps
    BY <1>2, <1>5 DEF Batch
  <2> QED BY <1>1, <1>2, <1>3, <1>5, <2>1, <2>2, <2>3
<1> QED BY <1>4, <1>5

(* The status is good only if every operand reported so far is.            *)
LEMMA OkStep ==
    ASSUME FlowInv, OpsInv, OkInv, [Next]_vars
    PROVE  OkInv'
<1>1. ASSUME Live', mem'.allok, NEW i \in Ops,
             i < ctl'.first \/ (ctl'.pc = "exit" /\ i \in Batch'), Marred(i)'
      PROVE  FALSE
  <2>1. Live BY <1>1, LiveBefore
  <2>2. i \in Nat BY DEF Ops
  <2>3. CASE report_one
    <3>1. mem.allok /\ \A j \in Batch : ~Marred(j) BY <1>1, <2>3, AllokKept
    <3>2. i < ctl.first \/ i \in Batch BY <1>1, <2>2, <2>3, ReportGoes DEF Ops
    <3>3. ~Marred(i) BY <2>1, <3>1, <3>2 DEF OkInv
    <3> QED BY <1>1, <2>3, <3>3, MarredBack DEF report_one
  <2>4. CASE ~report_one
    <3>1. mem.allok BY <1>1, <2>4, AllokKept
    <3>2. ctl'.first = ctl.first /\ Batch' = Batch BY <2>4, FirstKept
    <3>3. ctl'.pc = "exit" => ctl.pc = "exit" BY <2>4, HeadFrom
    <3>4. ~Marred(i) BY <1>1, <2>1, <3>1, <3>2, <3>3 DEF OkInv
    <3>5. i = Cur /\ ctl.pc \in CallPc BY <1>1, <3>4, MarredBack
    <3>6. i \in Batch BY <2>1, <3>5 DEF FlowInv, CtlInv
    <3>7. ~(i < ctl.first) BY <2>2, <3>6 DEF Batch, FlowInv, CtlInv, CtlType, Ops
    <3> QED BY <1>1, <3>2, <3>3, <3>5, <3>7
  <2> QED BY <2>3, <2>4
<1>2. ctl'.pc = "exit" => ctl'.first + BatchSize > NOps
  <2>1. CASE report_one BY <2>1, ReportGoes
  <2>2. CASE ~report_one BY <2>2, HeadFrom DEF OkInv
  <2> QED BY <2>1, <2>2
<1> QED BY <1>1, <1>2 DEF OkInv

(* The loops before the one over name_one(), and how that begins.          *)
LEMMA EarlierLoop ==
    ASSUME FlowInv, [Next]_vars, ctl.pc \in HeadPc \ {"batch"}, Live',
           ctl.loop \in {"build", "flush", "close"}, ctl' # ctl
    PROVE  /\ \/ ctl'.loop \in {"flush", "close"} /\ ctl'.pc # "batch"
              \/ Entered("name", Kept)
           /\ ctl'.first = ctl.first /\ op' = op
<1>1. ctl.pc \in {"flush", "closing", "naming"}
  BY DEF FlowInv, CtlInv, LoopOf
<1>2. ~PendingStep /\ ~PlaceStep /\ ~BackupStep
  BY <1>1
  DEF PlaceStep, Arm, UndoOpen, ProbeDone, CommitRename, CommitClear, CommitLink,
      CommitOver, OverRename, OverFailed, ReplaceRename, Renamed, ExchangeNames,
      Exchanged, BackupStep, backup_none, backup_make, backup_next, backup_numbered,
      OutOfNumbers, backup_note, backup_simple, place_temp_alias, OverBackup,
      PendingStep, RemoveLstat, RemoveUnlink, SignalTaken, HandlerStep, Live
<1>3. BatchStep => flush_batch \/ FlushClose \/ NameBatch
  BY <1>1
  DEF BatchStep, batch_run, build_one, place_probe_mode, open_built, FinishPrivate,
      FinishLink, fill_one, FinishOwner, FinishMode, close_op, settle_batch, SettleClose,
      NameForce, NameUnnamed, NameTemp, NamePlain, FlushBackup, flush_set_add,
      SettleOne, Tidied, op_fail, OpFailed, Dropped, drop_spares, flush_set_run,
      DropRelease, report_one
<1>4. /\ Opened \subseteq Batch /\ Kept \in SUBSET Batch
      /\ "flush" \in DOMAIN Entry /\ "close" \in DOMAIN Entry /\ "name" \in DOMAIN Entry
      /\ {i \in Opened : op[i].way = "plain"} \in SUBSET Batch
  BY DEF Opened, Kept, Entry
<1>5. CtlInv BY DEF FlowInv
<1>6. ASSUME NEW l \in {"flush", "close"}, NEW s \in SUBSET Batch, ctl' = Loop(l, s)
      PROVE  ctl'.loop \in {"flush", "close"} /\ ctl'.pc # "batch" /\ ctl'.first = ctl.first
  <2>1. l \in DOMAIN Entry BY <1>4
  <2>2. Entered(l, s) BY <1>5, <1>6, <2>1, LoopEntered
  <2> QED BY <1>6, <2>2 DEF Entered, Entry, After
<1>7. CASE flush_batch
  <2>1. op' = op BY <1>7 DEF flush_batch
  <2>2. PICK bad \in SUBSET Opened : ctl' = Loop("flush", bad)
    BY <1>7 DEF flush_batch, flush_ops
  <2>3. bad \in SUBSET Batch BY <1>4
  <2> QED BY <1>6, <2>1, <2>2, <2>3
<1>8. CASE FlushClose
  <2>1. op' = op /\ ctl' = Loop("close", {i \in Opened : op[i].way = "plain"})
    BY <1>8 DEF FlushClose
  <2> QED BY <1>4, <1>6, <2>1
<1>9. CASE NameBatch
  <2>1. op' = op /\ ctl' = Loop("name", Kept) BY <1>9 DEF NameBatch
  <2> QED BY <1>4, <1>5, <2>1, LoopEntered DEF Entered
<1>10. OtherStep \/ Signal \/ UNCHANGED vars => ctl' = ctl
  BY DEF OtherStep, OtherPut, OtherUnlink, Signal, vars
<1> QED BY <1>2, <1>3, <1>7, <1>8, <1>9, <1>10 DEF Next, Program, Ended

(* No failure is a late one until the names are given.                     *)
LEMMA EarlyStep ==
    ASSUME FlowInv, OpsInv, EarlyInv, [Next]_vars
    PROVE  EarlyInv'
<1> SUFFICES ASSUME Live', ctl'.loop \in {"build", "flush", "close", "name"},
                    NEW i \in Batch', op'[i].fail # "no"
             PROVE  Early(i)'
  BY DEF EarlyInv
<1>1. Live BY LiveBefore
<1>2. ~report_one BY ReportGoes
<1>3. Batch' = Batch /\ Batch \subseteq Ops BY <1>2, FirstKept, Slots0 DEF FlowInv
<1>4. CASE ctl.loop \in {"build", "flush", "close", "name"}
  <2>1. CASE op'[i].fail = op[i].fail BY <1>1, <1>3, <1>4, <2>1 DEF EarlyInv, Early
  <2>2. CASE op_fail /\ op'[i].fail = ctl.loop BY <1>4, <2>2 DEF Early
  <2> QED BY <1>3, <2>1, <2>2, OpFields
<1>5. CASE ctl.loop \notin {"build", "flush", "close", "name"}
  <2>1. ctl' # ctl BY <1>5
  <2>2. ctl'.loop # ctl.loop BY <1>5
  <2>3. ~Turns /\ ~Handles /\ ~DropRelease
    <3>1. DropRelease => ctl'.loop = ctl.loop BY GotoStep DEF DropRelease, FlowInv
    <3> QED BY <2>2, <3>1 DEF Turns, Handles
  <2>4. Begins BY <1>2, <2>1, <2>3, CtlForms
  <2>5. CASE ctl.pc \in HeadPc \ {"batch"} BY <1>5, <2>1, <2>5, LaterLoop
  <2>6. CASE batch_run
    <3>1. ctl.pc = "batch" /\ op' = op BY <2>6 DEF batch_run
    <3>2. Pristine(i) BY <1>3, <3>1 DEF OpsInv, RestInv
    <3> QED BY <3>1, <3>2 DEF Pristine, NewOp
  <2> QED BY <2>4, <2>5, <2>6 DEF Begins
<1> QED BY <1>4, <1>5

(* The operands are named in their order.                                  *)
LEMMA OrderStep ==
    ASSUME FlowInv, OpsInv, EarlyInv, OrderInv, [Next]_vars
    PROVE  OrderInv'
<1> SUFFICES ASSUME Live', ctl'.loop = "name", ctl'.pc \in CallPc,
                    NEW i \in Batch', ctl'.cur < i, i \notin ctl'.todo
             PROVE  Early(i)'
  BY DEF OrderInv, Cur
<1>1. Live BY LiveBefore
<1>2. ~report_one BY ReportGoes
<1>3. Batch' = Batch /\ Batch \subseteq Ops /\ Ops \subseteq Nat
  BY <1>2, FirstKept, Slots0 DEF FlowInv
<1>4. Early(i) => Early(i)'
  <2>1. Early(i) => op[i].fail # "no" BY DEF Early
  <2> QED BY <1>3, <2>1, FailKept DEF Early
<1>5. CASE ctl' = ctl BY <1>1, <1>3, <1>4, <1>5 DEF OrderInv, Cur
<1>6. CASE Turns
  <2>1. ctl.pc \in CallPc /\ ctl.loop = "name" BY <1>6 DEF Turns
  <2>2. /\ ctl.cur \in Nat /\ ctl'.cur \in Nat
        /\ \A m \in ctl.todo : ctl.cur < m
    <3>1. ctl.cur \in Batch /\ ctl.todo \subseteq Batch /\ \A m \in ctl.todo : ctl.cur < m
      BY <1>1, <2>1 DEF FlowInv, CtlInv, Cur
    <3>2. ctl'.cur = ctl.cur \/ ctl'.cur \in ctl.todo BY <1>6 DEF Turns, Moves
    <3> QED BY <1>3, <3>1, <3>2
  <2>3. \/ ctl'.cur = ctl.cur /\ ctl'.todo = ctl.todo
        \/ ctl'.cur \in ctl.todo /\ ctl'.todo = ctl.todo \ {ctl'.cur}
    BY <1>6, <2>1 DEF Turns, Moves, After
  <2>4. i \in Nat /\ i # ctl'.cur
    <3>1. i \in Nat BY <1>3
    <3>2. PICK c \in Nat : c = ctl'.cur BY <2>2
    <3> QED BY <3>1, <3>2
  <2>5. ctl.cur < i /\ i \notin ctl.todo BY <2>2, <2>3, <2>4
  <2> QED BY <1>1, <1>3, <1>4, <2>1, <2>5 DEF OrderInv, Cur
<1>7. CASE Begins /\ ctl' # ctl
  <2>1. ~(batch_run /\ Entered("build", Batch)) BY DEF Entered
  <2>2. ctl.pc \in HeadPc \ {"batch"} BY <1>7, <2>1 DEF Begins
  <2>3. ctl.loop \in {"build", "flush", "close"} BY <1>7, <2>2, LaterLoop
  <2>4. Entered("name", Kept) /\ op' = op BY <1>7, <2>2, <2>3, EarlierLoop
  <2>5. i \notin Kept
    <3>1. ctl'.cur \in Nat \/ ctl'.pc = "settle"
      BY <1>3, <2>4 DEF Entered, Kept, After
    <3> QED BY <1>3, <2>4, <3>1 DEF Entered, After
  <2>6. op[i].fail # "no" BY <1>3, <2>5 DEF Kept
  <2> QED BY <1>1, <1>3, <1>4, <2>3, <2>6 DEF EarlyInv
<1>8. ~DropRelease
  <2>1. DropRelease => ctl'.loop = ctl.loop /\ ctl.loop = "drop"
    BY GotoStep DEF DropRelease, FlowInv, CtlInv, LoopOf
  <2> QED BY <2>1
<1>9. ~Handles BY DEF Handles
<1> QED BY <1>2, <1>5, <1>6, <1>7, <1>8, <1>9, CtlForms

(* name_one() has cleared the slot of a file created in its place.         *)
Stays == /\ NamePlain /\ ctl.pc = "name" /\ op[Cur].way = "plain" /\ ctl'.pc = "named"
         /\ dir' = dir /\ op' = op /\ pending' = pending_clear(pending, Slot(Cur))
         /\ UNCHANGED <<ctl.loop, ctl.todo, ctl.cur, ctl.first>>

(* How an operand comes to be named where no temporary name is left.       *)
LEMMA NamesIt ==
    ASSUME FlowInv, OpsInv, [Next]_vars, ctl.pc \in CallPc \ PlacedPc, ctl.loop = "name",
           Live', ~OpFailed, ~(ctl'.pc \in CallPc \ PlacedPc /\ ctl'.cur = ctl.cur),
           ctl'.pc \notin {"commitclear", "renamed", "exchanged"}
    PROVE  (Gives /\ (ctl.pc = "commit" \/ op[Cur].way = "unnamed")) \/ Stays
<1>1. Live BY LiveBefore
<1>2. ASSUME NEW p \in CallPc \ {"named"}, Goto(p) PROVE FALSE
  BY <1>2, CallStep DEF PlacedPc
<1>3. dir \in [Names -> Inodes \cup {None}] BY DEF OpsInv, TypesInv
<1>4. ~(ctl' = ctl) BY DEF PlacedPc
<1>5. CASE CommitLink
  <2>1. /\ ctl.pc = "commit" /\ Free(dir, Path) /\ dir' = Bind(dir, Path, dir[op[Cur].tmp])
    BY <1>2, <1>5 DEF CommitLink, SetDir
  <2>2. Ready(Cur) BY <2>1, InHand DEF CallInv
  <2>3. /\ op[Cur].tmp \in Names /\ Path \in Names /\ Path # op[Cur].tmp
        /\ dir[op[Cur].tmp] = New(Cur)
    BY <2>1, <2>2, ReadyPath
  <2>4. New(Cur) # None BY <2>1, InHand, Inodes0
  <2>5. dir' # dir BY <1>3, <2>1, <2>3, <2>4 DEF Free, Bind
  <2> QED BY <1>5, <2>1, <2>5, CommitLinkDir
<1>6. CASE NameUnnamed
  <2>1. /\ ctl.pc = "name" /\ Free(dir, Path) /\ dir' = Bind(dir, Path, New(Cur))
        /\ op[Cur].way = "unnamed"
    BY <1>2, <1>6 DEF NameUnnamed, SetDir
  <2>2. Path \in Names /\ New(Cur) # None BY <2>1, InHand, Inodes0, Names0
  <2>3. dir' # dir BY <1>3, <2>1, <2>2 DEF Free, Bind
  <2> QED BY <1>6, <2>1, <2>3, NameUnnamedDir
<1>7. CASE NamePlain
  <2>1. /\ ctl.pc = "name" /\ Goto("named") /\ op[Cur].way = "plain"
        /\ pending' = pending_clear(pending, Slot(Cur)) /\ dir' = dir /\ op' = op
    BY <1>2, <1>7 DEF NamePlain
  <2> QED BY <1>7, <2>1, CallStep DEF Stays
<1>8. ~(RemoveLstat \/ RemoveUnlink)
  <2> SUFFICES ASSUME RemoveLstat \/ RemoveUnlink PROVE FALSE OBVIOUS
  <2>1. ctl.pc \in RemovePc /\ FrRemove /\ (Goto("unlink") \/ Goto(fr.then))
    BY <1>1 DEF RemoveLstat, RemoveUnlink, RemoveDone, FlowInv, CallFrame
  <2>2. fr.then \in CallPc \ {"named"} BY <2>1 DEF FrRemove
  <2> QED BY <1>2, <2>1, <2>2
<1>9. ~Arm
  <2> SUFFICES ASSUME Arm PROVE FALSE OBVIOUS
  <2>1. FrMade /\ Goto(fr.then) BY DEF Arm, FlowInv, CallFrame
  <2>2. fr.then \in CallPc \ {"named"} BY <2>1 DEF FrMade
  <2> QED BY <1>2, <2>1, <2>2
<1>10. ~(UndoOpen \/ OverFailed \/ NameTemp)
  BY <1>2 DEF UndoOpen, OverFailed, NameTemp
<1>11. ~(CommitClear \/ Renamed \/ Exchanged \/ flush_set_add)
  BY DEF CommitClear, Renamed, Exchanged, flush_set_add, PlacedPc
<1>12. ~(CommitRename \/ OverRename)
  <2>1. CommitRename \/ OverRename =>
          Goto("commitclear") \/ Goto("renamed") \/ Goto("fail") \/ Goto("lstat")
    BY DEF CommitRename, OverRename
  <2> QED BY <1>2, <2>1
<1>13. ~(CommitOver \/ NameForce)
  <2>1. CommitOver \/ NameForce => Goto("made") \/ Goto("fail") \/ Goto("replace")
    BY DEF CommitOver, NameForce, temp_make, Made, NoTemp
  <2> QED BY <1>2, <2>1
<1>14. ~(ReplaceRename \/ ExchangeNames \/ FlushBackup \/ op_fail)
  <2>1. ReplaceRename \/ ExchangeNames \/ FlushBackup \/ op_fail =>
          \/ Goto("renamed") \/ Goto("exchanged") \/ Goto("rename") \/ Goto("lstat")
          \/ Goto("fail") \/ Goto("failed")
    BY DEF ReplaceRename, ExchangeNames, FlushBackup, op_fail, pending_remove
  <2> QED BY <1>2, <2>1
<1>15. ~BackupStep
  <2>1. BackupStep =>
          \/ Goto("rename") \/ Goto("simple") \/ Goto("number") \/ Goto("fail")
          \/ Goto("numbered") \/ Goto("backed") \/ Goto("made") \/ Goto("alias")
          \/ Goto("lstat") \/ ctl' = ctl
    <3>1. backup_none \/ backup_make \/ backup_next \/ backup_note \/ OutOfNumbers =>
          \/ Goto("rename") \/ Goto("simple") \/ Goto("number") \/ Goto("fail")
          \/ Goto("numbered") \/ Goto("backed")
      BY DEF backup_none, backup_make, backup_next, backup_note, OutOfNumbers
    <3>2. backup_numbered \/ backup_simple \/ place_temp_alias \/ OverBackup =>
          \/ Goto("fail") \/ Goto("made") \/ Goto("alias") \/ Goto("lstat")
          \/ Goto("backed") \/ ctl' = ctl
      BY DEF backup_numbered, backup_simple, backup_link, NoLink, Made,
             place_temp_alias, temp_make, NoTemp, OverBackup, pending_remove
    <3> QED BY <3>1, <3>2 DEF BackupStep
  <2> QED BY <1>2, <1>4, <2>1
<1> QED BY <1>4, <1>5, <1>6, <1>7, <1>8, <1>9, <1>10, <1>11, <1>12, <1>13, <1>14, <1>15,
           NameActions

(* An operand is placed by one of the calls that give it its name.         *)
LEMMA JustPlaced ==
    ASSUME FlowInv, OpsInv, HeldAt, EarlyInv, [Next]_vars, FlowInv', Live',
           NEW i \in Ops, Unplaced(i), ~Unplaced(i)'
    PROVE  /\ i = Cur /\ i \in Batch
           /\ \/ Gives /\ (ctl.pc = "commit" \/ op[Cur].way = "unnamed")
              \/ Shifts \/ Swaps \/ Stays
<1>1. Live BY LiveBefore
<1>2. Early(i) => Early(i)'
  <2>1. Early(i) => op[i].fail # "no" BY DEF Early
  <2> QED BY <2>1, FailKept DEF Early
<1>3. Coming(i) /\ ~Early(i) /\ ~Coming(i)' BY <1>2 DEF Unplaced
<1>4. i \in Batch /\ ctl.pc # "batch" BY <1>3 DEF Coming
<1>5. ~(ctl' = ctl) BY <1>3 DEF Coming, Batch, Cur
<1>6. ~Handles BY DEF Handles
<1>7. ~report_one /\ ~DropRelease
  <2>1. report_one => ctl.loop = "drop" BY ReportGoes
  <2>2. DropRelease => ctl.loop = "drop" BY DEF DropRelease, FlowInv, CtlInv, LoopOf
  <2> QED BY <1>3, <2>1, <2>2 DEF Coming
<1>8. Batch' = Batch BY <1>7, FirstKept
<1>9. ~Begins
  <2> SUFFICES ASSUME Begins PROVE FALSE OBVIOUS
  <2>1. ctl.pc \in HeadPc \ {"batch"} BY <1>4 DEF Begins, batch_run
  <2>2. ctl.loop \in {"build", "flush", "close"}
    <3>1. ctl.todo = {} BY <2>1 DEF FlowInv, CtlInv
    <3> QED BY <1>3, <2>1, <3>1 DEF Coming
  <2>3. op' = op BY <1>5, <2>1, <2>2, EarlierLoop
  <2>4. CASE ctl'.loop \in {"flush", "close"} /\ ctl'.pc # "batch"
    BY <1>3, <1>4, <1>8, <2>4 DEF Coming
  <2>5. CASE Entered("name", Kept)
    <3>1. i \in Kept BY <1>1, <1>3, <1>4, <2>2 DEF EarlyInv, Kept
    <3>2. ctl'.loop = "name" /\ ctl'.pc = "name" /\ (i = ctl'.cur \/ i \in ctl'.todo)
      BY <2>5, <3>1 DEF Entered, Entry
    <3> QED BY <1>3, <1>4, <1>8, <3>2 DEF Coming, PlacedPc, Cur
  <2> QED BY <1>5, <2>1, <2>2, <2>4, <2>5, EarlierLoop
<1>10. Turns BY <1>5, <1>6, <1>7, <1>9, CtlForms
<1>11. ctl.pc \in CallPc /\ ctl'.loop = ctl.loop /\ ctl'.pc # "batch"
  <2>1. ctl.loop \in DOMAIN Entry BY DEF FlowInv, CtlInv, CtlType
  <2> QED BY <1>10, <2>1 DEF Turns, Moves, Entry, After
<1>12. ctl.loop = "name"
  BY <1>3, <1>4, <1>8, <1>11 DEF Coming
<1>13. i \notin ctl.todo
  <2>1. i \in ctl.todo => i \in ctl'.todo \/ (i = ctl'.cur /\ ctl'.pc = "name")
    BY <1>10, <1>12 DEF Turns, Moves, Entry
  <2>2. ~(i \in ctl'.todo) /\ ~(i = ctl'.cur /\ ctl'.pc = "name")
    BY <1>3, <1>4, <1>8, <1>11, <1>12 DEF Coming, PlacedPc, Cur
  <2> QED BY <2>1, <2>2
<1>14. i = Cur /\ ctl.pc \in CallPc \ PlacedPc BY <1>3, <1>12, <1>13 DEF Coming
<1>15. ~(ctl'.pc \in CallPc \ PlacedPc /\ ctl'.cur = ctl.cur)
  BY <1>3, <1>4, <1>8, <1>11, <1>12, <1>14 DEF Coming, Cur
<1>16. ~OpFailed
  <2> SUFFICES ASSUME OpFailed PROVE FALSE OBVIOUS
  <2>1. ctl.pc = "failed" BY DEF OpFailed
  <2>2. op[i].fail # "no" BY <1>14, <2>1, InHand DEF CallInv
  <2> QED BY <1>1, <1>3, <1>4, <1>12, <2>2 DEF EarlyInv
<1>17. CASE ctl'.pc \in {"commitclear", "renamed", "exchanged"}
  BY <1>4, <1>5, <1>14, <1>17, LeavesTmp
<1> QED BY <1>4, <1>12, <1>14, <1>15, <1>16, <1>17, NamesIt

(* As long as no other process comes a path loses a new file only when     *)
(* op_fail() or create_excl() takes back the one created there, or when    *)
(* -f replaces it by the file of the operand in hand.                      *)
LEMMA PathTaken ==
    ASSUME FlowInv, OpsInv, HistInv, GapInv, [Next]_vars, Live', hist'.other = 0,
           NEW t \in Targets, NEW j \in Ops, dir[t] = New(j), dir'[t] # New(j)
    PROVE  \/ /\ Takes /\ j = Cur /\ t = Path /\ Guards(Slot(Cur), t, New(j))
              /\ pending' = pending_clear(pending, Slot(Cur))
              /\ ctl.pc = "unlink" /\ Cur \in Batch
           \/ /\ Undoes /\ j = Cur /\ t = Path /\ ctl.loop = "build" /\ ctl.pc = "made"
              /\ Cur \in Batch /\ ~Armed(Slot(Cur))
           \/ /\ Shifts \/ Swaps
              /\ t = Path /\ dir'[t] = New(Cur) /\ spec.force /\ Cur \in Batch
<1> PICK c : c = Cur OBVIOUS
<1>1. Live BY LiveBefore
<1>2. hist.other = 0 /\ ~OtherStep BY OtherBack
<1>3. dir \in [Names -> Inodes \cup {None}] /\ t \in Names /\ t \notin Temps /\ t # None
  BY Names0 DEF OpsInv, TypesInv
<1>4. New(j) # None /\ New(j) \in Inodes BY Inodes0
<1>5. CASE Takes
  <2>1. t = fr.path /\ ctl.pc = "unlink" /\ RemoveUnlink
    BY <1>3, <1>5 DEF Takes, RemoveUnlink
  <2>2. fr.ino = New(j) BY <1>2, <2>1 DEF GapInv, Gap, Undisturbed
  <2>3. FrRemove /\ RemoveInv(c) /\ Slot(c) \in Slots /\ c \in Ops /\ c \in Batch
    BY <1>1, <2>1, InRemove
  <2>4. fr.slot \in Slots => Guards(fr.slot, t, New(j))
    BY <2>1, <2>2 DEF OpsInv, RemoveFrame
  <2>5. op[c].tmp \in Temps \cup {None} BY <2>3 DEF OpsInv, TypesInv, OpType
  <2>6. New(j) # Hold(c) BY <2>3, Inodes0
  <2>7. fr.then # "dropped"
    <3> SUFFICES ASSUME fr.then = "dropped" PROVE FALSE OBVIOUS
    <3>1. fr.slot = Slot(c) BY <2>3 DEF FrRemove
    <3>2. Spared(c) BY <2>3 DEF RemoveInv
    <3> QED BY <1>3, <2>3, <2>4, <3>1, <3>2 DEF Spared, Guards
  <2>8. fr.then = "failed" /\ New(j) = New(c) /\ t = Path
    BY <1>3, <2>1, <2>2, <2>3, <2>5, <2>6, <2>7 DEF RemoveInv, FrRemove
  <2>9. j = c /\ fr.slot = Slot(c) BY <2>3, <2>8, Inodes0 DEF FrRemove
  <2>10. pending' = pending_clear(pending, Slot(c))
    BY <1>1, <2>1, <2>3, <2>9 DEF RemoveUnlink, RemoveDone, Live
  <2> QED BY <1>5, <2>1, <2>3, <2>4, <2>8, <2>9, <2>10
<1>6. CASE Undoes
  <2>1. t = fr.path /\ ctl.pc = "made" /\ fr.flag /\ MadeInv(c) /\ FrMade
    BY <1>3, <1>6 DEF Undoes, FlowInv, CallFrame
  <2>2. fr.ino = New(j) BY <1>2, <2>1 DEF GapInv, Gap, Undisturbed
  <2>3. c \in Ops /\ c \in Batch BY <2>1, InHand
  <2>4. fr.ino # Hold(c) BY <2>2, <2>3, Inodes0
  <2>5. fr.what = "plain" /\ New(j) = New(c) /\ t = Path /\ ~Armed(Slot(c))
    BY <1>3, <2>1, <2>2, <2>4 DEF MadeInv, FrMade
  <2>6. j = c BY <2>3, <2>5, Inodes0
  <2>7. ctl.loop = "build" BY <2>1, <2>5 DEF FrMade
  <2> QED BY <1>6, <2>1, <2>3, <2>5, <2>6, <2>7
<1>7. CASE Shifts \/ Swaps
  <2>1. ctl.pc \in {"commit", "over", "rename", "backed"} /\ Ready(c)
    BY <1>7 DEF Shifts, Swaps
  <2>2. c \in Ops /\ c \in Batch /\ CallInv(c) BY <2>1, InHand
  <2>3. op[c].tmp \in Temps BY <2>1, ReadyPath
  <2>4. t = Path /\ dir'[t] = New(c) BY <1>3, <1>7, <2>3 DEF Shifts, Swaps
  <2>5. ctl.pc = "over" => dir[Path] = Hold(c)
    BY <1>2, <2>2 DEF CallInv, GapInv, Gap, Undisturbed
  <2>6. New(j) # Hold(c) BY <2>2, Inodes0
  <2>7. spec.force BY <1>4, <1>7, <2>4, <2>5, <2>6 DEF Shifts, Swaps, Free
  <2> QED BY <1>7, <2>2, <2>4, <2>7
<1>8. ~Gives BY <1>3, <1>4 DEF Gives, Free
<1>9. ~\E m, x : Makes(m, x) BY <1>3, <1>4 DEF Makes, Free
<1>10. ~Rebacks
  <2> SUFFICES ASSUME Rebacks PROVE FALSE OBVIOUS
  <2>1. Path \in Targets BY InHand DEF Rebacks
  <2>2. t # Simple(Path) BY <2>1, Names0 DEF Backups
  <2> QED BY <1>3, <2>2 DEF Rebacks
<1> QED BY <1>2, <1>5, <1>6, <1>7, <1>8, <1>9, <1>10, DirForms

(* A file created in its place is guarded until name_one() sees to it.     *)
LEMMA InPlaceStep ==
    ASSUME FlowInv, OpsInv, HistInv, SlotsInv, GapInv, HeldAt, EarlyInv, InPlaceInv,
           [Next]_vars, FlowInv', OpsInv', SlotsInv'
    PROVE  InPlaceInv'
<1> SUFFICES ASSUME Live', NEW i \in Batch', Guards(Slot(i), Operand[i], New(i))'
             PROVE  Unplaced(i)' /\ (hist'.other = 0 => dir'[Operand[i]] = New(i))
  BY DEF InPlaceInv, New
<1> PICK t : t = Operand[i] OBVIOUS
<1>1. Live BY LiveBefore
<1>2. i \in Ops /\ Slot(i)' \in Slots
  <2>1. ctl'.first \in Ops /\ BatchSize \in Nat \ {0} /\ NOps \in Nat \ {0}
    BY WorldAssumption DEF FlowInv, CtlInv, CtlType
  <2> QED BY <2>1 DEF Batch, Ops, Slot, Slots, BackupSlot
<1>3. t \in Targets /\ t \in Names /\ t \notin Temps /\ t # None
  BY <1>2, WorldAssumption, Names0
<1>4. PICK s \in Slots : s = Slot(i)' BY <1>2
<1>5. pending'[s] = [path |-> t, ino |-> New(i)] BY <1>4 DEF Guards, New
<1>6. ~report_one
  <2> SUFFICES ASSUME report_one PROVE FALSE OBVIOUS
  <2>1. ctl'.pc \in {"batch", "exit"} BY ReportGoes
  <2>2. pending'[s].path = None BY <2>1 DEF OpsInv, RestInv, Armed
  <2> QED BY <1>3, <1>5, <2>2
<1>7. Batch' = Batch /\ s = Slot(i) BY <1>4, <1>6, FirstKept
<1>8. pending \in [Slots -> SlotType] BY DEF OpsInv, TypesInv
<1>9. ~spec.force
  <2>1. spec' = spec BY StartKept
  <2>2. pending'[s].path = t BY <1>5
  <2> QED BY <1>3, <2>1, <2>2 DEF SlotsInv, Armed
<1>10. CASE pending'[s] = pending[s]
  <2>1. Guards(s, t, New(i)) BY <1>5, <1>10 DEF Guards
  <2>2. Unplaced(i) /\ (hist.other = 0 => dir[t] = New(i))
    BY <1>1, <1>7, <2>1 DEF InPlaceInv
  <2>3. Armed(s) /\ pending[s].path = t BY <1>3, <2>1 DEF Armed, Guards
  <2>4. Unplaced(i)'
    <3> SUFFICES ASSUME ~Unplaced(i)' PROVE FALSE OBVIOUS
    <3>1. i = Cur BY <1>2, <2>2, JustPlaced
    <3>2. ~Ready(i) BY <1>3, <1>7, <2>3 DEF Ready, Temporary, Guards
    <3>3. ~Shifts /\ ~Swaps BY <3>1, <3>2 DEF Shifts, Swaps
    <3>4. ~Stays
      <4> SUFFICES ASSUME Stays PROVE FALSE OBVIOUS
      <4>1. pending' = pending_clear(pending, s) BY <1>7, <3>1 DEF Stays
      <4> QED BY <1>3, <1>5, <1>8, <4>1 DEF pending_clear
    <3>5. ctl.pc # "commit"
      <4>1. ctl.pc = "commit" => Ready(i) BY <3>1, InHand DEF CallInv
      <4> QED BY <3>2, <4>1
    <3>6. ~(Gives /\ op[Cur].way = "unnamed")
      <4> SUFFICES ASSUME Gives, op[i].way = "unnamed" PROVE FALSE BY <3>1
      <4>1. ctl.pc = "name" BY <3>5 DEF Gives
      <4>2. ToName(i) BY <3>1, <4>1, InHand DEF CallInv
      <4> QED BY <1>7, <2>3, <4>2 DEF ToName, Built, Nameless
    <3> QED BY <1>2, <2>2, <3>3, <3>4, <3>5, <3>6, JustPlaced
  <2>5. ASSUME hist'.other = 0, dir'[t] # New(i) PROVE FALSE
    <3>1. hist.other = 0 BY <2>5, OtherBack
    <3>2. dir[t] = New(i) BY <2>2, <3>1
    <3>3. i = Cur => ~(pending' = pending_clear(pending, Slot(Cur)))
      BY <1>3, <1>5, <1>7, <1>8 DEF pending_clear
    <3>4. i = Cur => Armed(Slot(Cur)) BY <1>7, <2>3
    <3> QED BY <1>2, <1>3, <1>9, <2>5, <3>2, <3>3, <3>4, PathTaken
  <2> QED BY <2>4, <2>5
<1>11. CASE Arm /\ pending'[s] # pending[s]
  <2> PICK c : c = Cur OBVIOUS
  <2>1. /\ ctl.pc = "made" /\ dir' = dir /\ hist' = hist /\ FrMade
        /\ pending' = [pending EXCEPT ![fr.slot] = [path |-> fr.path, ino |-> fr.ino]]
    BY <1>11 DEF Arm, FlowInv, CallFrame
  <2>2. s = fr.slot /\ t = fr.path /\ fr.ino = New(i)
    BY <1>5, <1>8, <1>11, <2>1
  <2>3. MadeInv(c) /\ c \in Ops /\ Path \in Targets BY <2>1, InHand DEF CallInv
  <2>4. t \notin Backups(Path) /\ New(i) # Hold(c)
    BY <1>2, <1>3, <2>3, Names0, Inodes0
  <2>5. fr.what = "plain" BY <1>3, <2>2, <2>3, <2>4 DEF MadeInv
  <2>6. fr.flag /\ fr.then = "next" /\ ctl.loop = "build" BY <2>1, <2>5 DEF FrMade
  <2>7. Goto("next") BY <1>11, <2>6 DEF Arm
  <2>8. Moves(ctl, ctl') BY <2>7, GotoStep DEF FlowInv
  <2>9. ctl'.loop = "build" /\ ctl'.pc # "batch" BY <2>6, <2>8 DEF Moves, Entry, After
  <2>10. Unplaced(i)' BY <2>9 DEF Unplaced, Coming
  <2>11. hist.other = 0 => dir[t] = New(i)
    BY <2>1, <2>2, <2>6 DEF GapInv, Gap, Undisturbed
  <2> QED BY <2>1, <2>10, <2>11
<1>12. ~(/\ RemoveLstat \/ RemoveUnlink \/ CommitClear \/ Renamed \/ NamePlain \/ drop_spares
         /\ pending'[s] # pending[s])
  <2> SUFFICES ASSUME RemoveLstat \/ RemoveUnlink \/ CommitClear \/ Renamed \/ NamePlain
                      \/ drop_spares,
                      pending'[s] # pending[s]
               PROVE  FALSE
    OBVIOUS
  <2>1. \E r : pending' = pending_clear(pending, r)
    BY <1>9 DEF RemoveLstat, RemoveUnlink, RemoveDone, CommitClear, Renamed, NamePlain,
           drop_spares
  <2>2. PICK r : pending' = pending_clear(pending, r) BY <2>1
  <2> QED BY <1>3, <1>5, <1>8, <2>2 DEF pending_clear
<1>13. ~Exchanged
  BY <1>9 DEF Exchanged, FlowInv, CtlInv
<1> QED BY <1>10, <1>11, <1>12, <1>13, PendForms

(* An operand that is placed stays so.                                     *)
LEMMA PlacedKept ==
    ASSUME FlowInv, OpsInv, [Next]_vars, NEW j \in Ops, Placed(j)
    PROVE  Placed(j)'
<1>1. /\ ctl.first \in Nat /\ j \in Nat /\ NOps \in Nat /\ BatchSize \in Nat
      /\ j \in Batch => ctl.first <= j
  BY WorldAssumption DEF FlowInv, CtlInv, CtlType, Ops, Batch
<1>2. ~Unplaced(j)'
  <2>1. ~(ctl.pc = "batch" /\ j \in Batch) BY <1>1 DEF Placed
  <2> QED BY <2>1, UnplacedBack DEF Placed
<1>3. CASE report_one
  <2>1. j < ctl'.first \/ (j \in Batch' /\ ctl'.pc # "batch")
    BY <1>1, <1>3, ReportGoes DEF Placed
  <2> QED BY <1>2, <2>1 DEF Placed
<1>4. CASE ~report_one
  <2>1. ctl'.first = ctl.first /\ Batch' = Batch BY <1>4, FirstKept
  <2>2. ctl'.pc = "batch" => ctl.pc = "batch" BY <1>4, HeadFrom
  <2> QED BY <1>2, <2>1, <2>2 DEF Placed
<1> QED BY <1>3, <1>4

(* An operand is not passed over: it is placed, or it failed, or it is yet *)
(* to come.                                                                *)
LEMMA NotPassed ==
    ASSUME FlowInv, OpsInv, [Next]_vars, Live', NEW i \in Ops, Placed(i)', ~Placed(i)
    PROVE  Unplaced(i)
<1> SUFFICES ASSUME ~Unplaced(i) PROVE FALSE OBVIOUS
<1>1. /\ ctl.first \in Nat /\ i \in Nat /\ NOps \in Nat /\ BatchSize \in Nat
      /\ ~(i < ctl.first) /\ ~(i \in Batch /\ ctl.pc # "batch")
  BY WorldAssumption DEF FlowInv, CtlInv, CtlType, Ops, Placed
<1>2. CASE report_one BY <1>1, <1>2, ReportGoes DEF Placed, Ops
<1>3. CASE ~report_one
  <2>1. ctl'.first = ctl.first /\ Batch' = Batch BY <1>3, FirstKept
  <2>2. ctl.pc = "batch" /\ i \in Batch' /\ ctl'.pc # "batch" BY <1>1, <2>1 DEF Placed
  <2>3. Begins BY <1>3, <2>2, CtlForms DEF Turns, Handles, DropRelease
  <2>4. ctl'.loop = "build" BY <2>2, <2>3 DEF Begins, Entered
  <2>5. Coming(i)' BY <2>2, <2>4 DEF Coming
  <2> QED BY <2>5 DEF Placed, Unplaced
<1> QED BY <1>2, <1>3

(* The file that takes a path is that of the last operand named.           *)
LEMMA TakesOver ==
    ASSUME FlowInv, OpsInv, OrderInv, Shifts \/ Swaps, NEW c, c = Cur,
           NEW i \in Ops, Placed(i)
    PROVE  i <= c /\ Placed(c)'
<1>1. ctl.pc \in {"commit", "over", "rename", "backed"} /\ Ready(c)
  BY DEF Shifts, Swaps
<1>2. Live /\ c \in Batch /\ c \in Ops BY <1>1, InHand
<1>3. ctl.loop = "name" BY <1>1 DEF FlowInv, CtlInv
<1>4. /\ ctl.first \in Nat /\ i \in Nat /\ c \in Nat /\ ctl.first <= c
      /\ c \notin ctl.todo
  BY <1>1, <1>2 DEF FlowInv, CtlInv, CtlType, Ops, Batch
<1>5. i <= c
  <2> SUFFICES ASSUME c < i PROVE FALSE BY <1>4
  <2>1. i \in Batch BY <1>4 DEF Placed
  <2>2. i \in ctl.todo \/ Early(i) BY <1>1, <1>2, <1>3, <2>1 DEF OrderInv
  <2>3. i \in ctl.todo => Coming(i) BY <1>1, <1>2, <1>3, <2>1 DEF Coming
  <2> QED BY <2>2, <2>3 DEF Placed, Unplaced
<1>6. /\ ctl'.pc \in PlacedPc /\ ctl'.loop = "name" /\ ctl'.todo = ctl.todo /\ op' = op
      /\ ctl'.first = ctl.first
  BY <1>3 DEF Shifts, Swaps, PlacedPc
<1>7. Batch' = Batch /\ ctl'.pc # "batch" BY <1>6 DEF Batch, PlacedPc
<1>8. ~Coming(c)' BY <1>4, <1>6 DEF Coming
<1>9. ~Early(c)' BY <1>1, <1>6 DEF Early, Ready, Temporary, Raw
<1> QED BY <1>2, <1>5, <1>7, <1>8, <1>9 DEF Placed, Unplaced

(* A path shows the file of the last operand placed there.                 *)
LEMMA PathStep ==
    ASSUME FlowInv, OpsInv, HistInv, SlotsInv, GapInv, HeldAt, EarlyInv, OrderInv,
           InPlaceInv, PathInv, [Next]_vars, FlowInv'
    PROVE  PathInv'
<1> SUFFICES ASSUME Live', hist'.other = 0, NEW i \in Ops, Placed(i)'
             PROVE  \E j \in Ops : /\ i <= j /\ Operand[j] = Operand[i]
                                   /\ Placed(j)' /\ dir'[Operand[i]] = New(j)
  BY DEF PathInv, New
<1> PICK t : t = Operand[i] OBVIOUS
<1> PICK c : c = Cur OBVIOUS
<1>1. Live /\ hist.other = 0 BY LiveBefore, OtherBack
<1>2. /\ t \in Targets /\ t \in Names /\ t \notin Temps
      /\ dir \in [Names -> Inodes \cup {None}]
  BY WorldAssumption, Names0 DEF OpsInv, TypesInv
<1>3. CASE Placed(i)
  <2>1. PICK j \in Ops : /\ i <= j /\ Operand[j] = t /\ Placed(j) /\ dir[t] = New(j)
    BY <1>1, <1>3 DEF PathInv
  <2>2. Placed(j)' BY <2>1, PlacedKept
  <2>3. CASE dir'[t] = New(j) BY <2>1, <2>2, <2>3
  <2>4. CASE dir'[t] # New(j)
    <3>1. ~(j = Cur /\ Guards(Slot(Cur), t, New(j)) /\ Cur \in Batch)
      BY <1>1, <2>1 DEF InPlaceInv, Placed
    <3>2. ~(j = Cur /\ ctl.loop = "build" /\ ctl.pc = "made" /\ Cur \in Batch)
      BY <1>1, <2>1 DEF Placed, Unplaced, Coming
    <3>3. (Shifts \/ Swaps) /\ t = Path /\ dir'[t] = New(c) /\ c \in Batch
      BY <1>2, <2>1, <2>4, <3>1, <3>2, PathTaken
    <3>4. i <= c /\ Placed(c)' BY <1>3, <3>3, TakesOver
    <3>5. c \in Ops /\ Operand[c] = t BY <3>3, Slots0 DEF FlowInv, Path, Cur
    <3> QED BY <3>3, <3>4, <3>5
  <2> QED BY <2>3, <2>4
<1>4. CASE ~Placed(i)
  <2>1. Unplaced(i) /\ ~Unplaced(i)' BY <1>4, NotPassed DEF Placed
  <2>2. i = c /\ i \in Batch BY <2>1, JustPlaced
  <2>3. t = Path BY <2>2 DEF Path, Cur
  <2>4. i \in Nat BY DEF Ops
  <2>5. dir'[t] = New(i)
    <3>1. CASE Gives BY <1>2, <2>2, <2>3, <3>1 DEF Gives
    <3>2. CASE Shifts BY <1>2, <2>2, <2>3, <3>2 DEF Shifts
    <3>3. CASE Swaps BY <1>2, <2>2, <2>3, <3>3 DEF Swaps
    <3>4. CASE Stays
      <4>1. ctl.pc = "name" /\ op[i].way = "plain" /\ dir' = dir BY <2>2, <3>4 DEF Stays
      <4>2. ToName(i) BY <2>2, <4>1, InHand DEF CallInv
      <4>3. Guards(Slot(i), t, New(i)) BY <4>1, <4>2 DEF ToName, Built, InPlace
      <4> QED BY <1>1, <2>2, <4>1, <4>3 DEF InPlaceInv
    <3> QED BY <2>1, <3>1, <3>2, <3>3, <3>4, JustPlaced
  <2> QED BY <2>4, <2>5
<1> QED BY <1>3, <1>4

(* A set of naturals that is bounded and not empty has a greatest element. *)
LEMMA GreatestExists ==
    ASSUME NEW N \in Nat, NEW S \in SUBSET (1..N), S # {}
    PROVE  /\ \E k \in S : \A m \in S : m <= k
           /\ (CHOOSE k \in S : \A m \in S : m <= k) \in S
<1> DEFINE U == {N - k : k \in S}
<1>1. U \in SUBSET Nat /\ U # {}
  <2>1. \A k \in S : N - k \in Nat OBVIOUS
  <2> QED BY <2>1
<1>2. PICK u \in U : \A v \in U : u <= v
  <2> HIDE DEF U
  <2> QED BY <1>1, LeastExists
<1>3. PICK k \in S : u = N - k OBVIOUS
<1>4. \A m \in S : N - k <= N - m BY <1>2, <1>3
<1>5. \A m \in S : m <= k BY <1>4
<1> QED BY <1>5

(* What the exit status rests on.                                          *)
StatusInv == /\ FlagInv /\ RefInv /\ OkInv /\ EarlyInv /\ OrderInv
             /\ InPlaceInv /\ PathInv

(* At first nothing has failed, and nothing is placed.                     *)
LEMMA InitStatus == Init => StatusInv
<1> SUFFICES ASSUME Init PROVE StatusInv OBVIOUS
<1>1. /\ ctl.pc = "batch" /\ ctl.first = 1 /\ hist.refused = {}
      /\ op = [i \in Ops |-> NewOp]
      /\ pending = [s \in Slots |-> [path |-> None, ino |-> None]]
  BY DEF Init
<1>2. \A i \in Ops : ~(i < ctl.first) BY <1>1 DEF Ops
<1>3. FlagInv /\ RefInv /\ OrderInv BY <1>1 DEF FlagInv, RefInv, OrderInv
<1>4. OkInv BY <1>1, <1>2 DEF OkInv
<1>5. Batch \subseteq Ops /\ \A i \in Batch : Slot(i) \in Slots
  BY InitFlow, Slots0 DEF FlowInv
<1>6. EarlyInv BY <1>1, <1>5 DEF EarlyInv, NewOp
<1>7. InPlaceInv
  <2> SUFFICES ASSUME NEW i \in Batch, Guards(Slot(i), Operand[i], New(i)) PROVE FALSE
    BY DEF InPlaceInv
  <2>1. Operand[i] # None BY <1>5, WorldAssumption, Names0
  <2> QED BY <1>1, <1>5, <2>1 DEF Guards
<1>8. PathInv BY <1>1, <1>2 DEF PathInv, Placed
<1> QED BY <1>3, <1>4, <1>6, <1>7, <1>8 DEF StatusInv

(* Every step keeps it.                                                    *)
LEMMA StatusStep == LeaveInv /\ StatusInv /\ [Next]_vars /\ LeaveInv' => StatusInv'
<1> SUFFICES ASSUME LeaveInv, StatusInv, [Next]_vars, LeaveInv' PROVE StatusInv' OBVIOUS
<1>1. /\ FlowInv /\ OpsInv /\ HistInv /\ SlotsInv /\ GapInv /\ HeldAt
      /\ FlowInv' /\ OpsInv' /\ SlotsInv'
  BY DEF LeaveInv, BaseInv, SafeInv, SoleInv, HeldAt
<1>2. FlagInv /\ RefInv /\ OkInv /\ EarlyInv /\ OrderInv /\ InPlaceInv /\ PathInv
  BY DEF StatusInv
<1>3. FlagInv' BY <1>1, <1>2, FlagStep
<1>4. RefInv' BY <1>1, <1>2, RefStep
<1>5. OkInv' BY <1>1, <1>2, OkStep
<1>6. EarlyInv' BY <1>1, <1>2, EarlyStep
<1>7. OrderInv' BY <1>1, <1>2, OrderStep
<1>8. InPlaceInv' BY <1>1, <1>2, InPlaceStep
<1>9. PathInv' BY <1>1, <1>2, PathStep
<1> QED BY <1>3, <1>4, <1>5, <1>6, <1>7, <1>8, <1>9 DEF StatusInv

(* It holds all along.                                                     *)
LEMMA StatusAlways == Spec => []StatusInv
  BY InitStatus, StatusStep, LeaveAlways, PTL DEF Spec

(* At a good exit nothing is held against any operand, no name was left,   *)
(* no slot is in use and every operand is placed.                          *)
LEMMA GoodExit ==
    ASSUME FlowInv, OpsInv, RefInv, OkInv, ExitOK
    PROVE  /\ Live /\ hist.refused = {} /\ \A s \in Slots : ~Armed(s)
           /\ \A i \in Ops : Placed(i) /\ ~Marred(i)
<1>1. ctl.pc = "exit" /\ mem.allok BY DEF ExitOK
<1>2. Live /\ ctl.loop = "drop" BY <1>1 DEF FlowInv, HeldInv, CtlInv, LoopOf
<1>3. \A s \in Slots : ~Armed(s) BY <1>1, <1>2 DEF OpsInv, RestInv
<1>4. /\ ctl.first \in Nat /\ NOps \in Nat /\ BatchSize \in Nat \ {0}
      /\ ctl.first + BatchSize > NOps
  BY <1>1, WorldAssumption DEF FlowInv, CtlInv, CtlType, Ops, OkInv
<1>5. \A i \in Ops : i < ctl.first \/ i \in Batch BY <1>4 DEF Batch, Ops
<1>6. \A i \in Ops : ~Marred(i) BY <1>1, <1>2, <1>5 DEF OkInv
<1>7. Batch \subseteq Ops BY Slots0 DEF FlowInv
<1>8. hist.refused = {} BY <1>1, <1>2, <1>6, <1>7 DEF RefInv
<1>9. ASSUME NEW i \in Ops PROVE ~Unplaced(i)
  <2>1. ~Coming(i) BY <1>2 DEF Coming
  <2>2. ~Early(i) BY <1>6 DEF Early, Marred
  <2> QED BY <2>1, <2>2 DEF Unplaced
<1> QED BY <1>1, <1>2, <1>3, <1>5, <1>6, <1>8, <1>9 DEF Placed

(* Exit status 0 means that each path holds the file of its last operand,  *)
(* finished and flushed, unless another process came, and that no          *)
(* temporary name is left that drop_spares() did not keep: whatever fails, *)
(* in whichever phase, is held against its operand by op_fail() or         *)
(* op->leftover, and report_one() holds it against the status.             *)
THEOREM ExitZeroTheorem == Spec => []ExitZero
<1>1. LeaveInv /\ PathsInv /\ StatusInv => ExitZero
  <2> SUFFICES ASSUME LeaveInv, PathsInv, StatusInv, ExitOK PROVE ExitZero
    BY DEF ExitZero
  <2>1. FlowInv /\ OpsInv /\ HistInv /\ RefInv /\ OkInv /\ PathInv /\ LandInv /\ TempInv
        /\ StartInv
    BY DEF LeaveInv, PathsInv, StatusInv, BaseInv, SafeInv
  <2>2. /\ Live /\ hist.refused = {} /\ \A s \in Slots : ~Armed(s)
        /\ ctl.pc = "exit" /\ \A i \in Ops : Placed(i)
    BY <2>1, GoodExit DEF ExitOK
  <2>3. ASSUME NEW s \in Slots, NEW n \in Names, NEW x, Guards(s, n, x) PROVE FALSE
    BY <2>2, <2>3, Names0 DEF Guards, Armed
  <2>4. ASSUME NEW i \in Ops, hist.other = 0
        PROVE  LET t == Operand[i] IN dir[t] = New(Last(t)) /\ Complete(Last(t))
    <3> PICK t : t = Operand[i] OBVIOUS
    <3>1. t \in Targets /\ t \in Names BY WorldAssumption, Names0
    <3> DEFINE S == {k \in Ops : Operand[k] = t}
    <3>2. PICK m \in S : \A k \in S : k <= m
      <4>1. S # {} /\ S \in SUBSET (1..NOps) /\ NOps \in Nat BY WorldAssumption DEF Ops
      <4> HIDE DEF S
      <4> QED BY <4>1, GreatestExists
    <3>3. \E k \in Ops : Operand[k] = t /\ \A j \in Ops : Operand[j] = t => j <= k
      BY <3>2
    <3>4. PICK l : l = Last(t) OBVIOUS
    <3>5. l \in Ops /\ Operand[l] = t /\ \A j \in Ops : Operand[j] = t => j <= l
      BY <3>3, <3>4 DEF Last
    <3>6. PICK j \in Ops : l <= j /\ Operand[j] = t /\ dir[t] = New(j)
      BY <2>1, <2>2, <2>4, <3>5 DEF PathInv
    <3>7. j = l BY <3>5, <3>6 DEF Ops
    <3>8. LandAt(t) BY <2>1, <3>1 DEF LandInv
    <3>9. New(l) # None /\ New(l) \notin Others /\ dir[t] # start[t]
      <4>1. start[t] \in {Old(t), None} BY <2>1, <3>1 DEF StartInv
      <4> QED BY <3>1, <3>5, <3>6, <3>7, <4>1, Inodes0 DEF New, Old
    <3>10. PICK k \in Ops : dir[t] = New(k) /\ Complete(k)
      BY <2>2, <2>3, <3>1, <3>6, <3>7, <3>8, <3>9 DEF LandAt, AtHold
    <3>11. k = l BY <3>5, <3>6, <3>7, <3>10, Inodes0
    <3> QED BY <3>4, <3>6, <3>7, <3>10, <3>11
  <2>5. ASSUME NEW n \in Temps
        PROVE  dir[n] = None \/ dir[n] \in Others \/ n \in hist.kept
    <3>1. TempAt(n) /\ n \in Names BY <2>1, Names0 DEF TempInv
    <3>2. \A s \in Slots : ~Guards(s, n, dir[n]) BY <2>2, <3>1, Names0 DEF Guards, Armed
    <3> QED BY <2>2, <3>1, <3>2 DEF TempAt
  <2>6. hist.other \in Nat BY <2>1 DEF HistInv, HistTypes
  <2> QED BY <2>4, <2>5, <2>6 DEF ExitZero, Complete
<1> QED BY <1>1, LeaveAlways, PathsAlways, StatusAlways, PTL

-----------------------------------------------------------------------------
(* backup_simple() goes on to an alias only if the name is taken.          *)
LEMMA AliasGoes ==
    ASSUME FlowInv, [Next]_vars, FlowInv', Live', ctl'.pc = "alias"
    PROVE  /\ ctl'.cur = ctl.cur
           /\ \/ ctl.pc = "alias" /\ (dir' = dir \/ OtherStep)
              \/ ~Free(dir, Simple(Path)) /\ dir' = dir
<1>1. ctl'.loop = "name" BY DEF FlowInv, CtlInv
<1>2. /\ ctl.pc \in CallPc /\ ctl.loop = "name" /\ Live /\ ctl'.cur = ctl.cur
  BY <1>1, NameFrom
<1>3. ASSUME NEW p \in CallPc \ {"alias"}, Goto(p) PROVE FALSE BY <1>3, CallStep
<1>4. Goto("next") => FALSE
  <2> SUFFICES ASSUME Goto("next") PROVE FALSE OBVIOUS
  <2>1. Moves(ctl, ctl') BY GotoStep DEF FlowInv
  <2> QED BY <1>2, <2>1 DEF Moves, Entry, After
<1>5. ~(RemoveLstat \/ RemoveUnlink)
  <2> SUFFICES ASSUME RemoveLstat \/ RemoveUnlink PROVE FALSE OBVIOUS
  <2>1. ctl.pc \in RemovePc /\ FrRemove /\ (Goto("unlink") \/ Goto(fr.then))
    BY <1>2 DEF RemoveLstat, RemoveUnlink, RemoveDone, FlowInv, CallFrame
  <2>2. fr.then \in CallPc \ {"alias"} BY <2>1 DEF FrRemove
  <2> QED BY <1>3, <2>1, <2>2
<1>6. ~Arm
  <2> SUFFICES ASSUME Arm PROVE FALSE OBVIOUS
  <2>1. FrMade /\ Goto(fr.then) BY DEF Arm, FlowInv, CallFrame
  <2>2. fr.then \in (CallPc \cup {"next"}) \ {"alias"} BY <2>1 DEF FrMade, Finish, AfterFill
  <2> QED BY <1>3, <1>4, <2>1, <2>2
<1>7. ~(UndoOpen \/ OverFailed \/ NameTemp \/ NameUnnamed \/ NamePlain)
  BY <1>3 DEF UndoOpen, OverFailed, NameTemp, NameUnnamed, NamePlain
<1>8. ~(CommitClear \/ Renamed \/ Exchanged \/ flush_set_add \/ OpFailed)
  BY <1>3, <1>4 DEF CommitClear, Renamed, Exchanged, flush_set_add, OpFailed
<1>9. ~(CommitRename \/ OverRename \/ CommitLink)
  BY <1>3 DEF CommitRename, OverRename, CommitLink
<1>10. ~(CommitOver \/ NameForce)
  BY <1>3 DEF CommitOver, NameForce, temp_make, Made, NoTemp
<1>11. ~(ReplaceRename \/ ExchangeNames \/ FlushBackup \/ op_fail)
  <2>1. ReplaceRename \/ ExchangeNames \/ FlushBackup \/ op_fail =>
          \/ Goto("renamed") \/ Goto("exchanged") \/ Goto("rename") \/ Goto("lstat")
          \/ Goto("fail") \/ Goto("failed")
    BY DEF ReplaceRename, ExchangeNames, FlushBackup, op_fail, pending_remove
  <2> QED BY <1>3, <2>1
<1>12. ~(backup_none \/ backup_make \/ backup_next \/ backup_note \/ OutOfNumbers)
  BY <1>3 DEF backup_none, backup_make, backup_next, backup_note, OutOfNumbers
<1>13. ~(backup_numbered \/ place_temp_alias \/ OverBackup)
  <2>1. backup_numbered \/ place_temp_alias \/ OverBackup =>
          \/ Goto("fail") \/ Goto("made") \/ Goto("lstat") \/ Goto("backed")
          \/ ctl' = ctl /\ ctl.pc = "numbered"
    BY DEF backup_numbered, backup_link, NoLink, Made,
           place_temp_alias, temp_make, NoTemp, OverBackup, pending_remove
  <2> QED BY <1>3, <2>1
<1>14. backup_simple => ~Free(dir, Simple(Path)) /\ dir' = dir
  BY <1>3 DEF backup_simple, backup_link, NoLink, Made
<1> QED BY <1>2, <1>5, <1>6, <1>7, <1>8, <1>9, <1>10, <1>11, <1>12, <1>13, <1>14,
           NameActions DEF BackupStep

(* The simple backup that is replaced is still there, unless another       *)
(* process came.                                                           *)
LEMMA OverStep ==
    ASSUME FlowInv, OpsInv, HistInv, OverInv, FlowInv', [Next]_vars
    PROVE  OverInv'
<1> SUFFICES ASSUME Live', hist'.other = 0, ctl'.pc = "alias" \/ AtAlias'
             PROVE  dir'[Simple(Path')] # None
  BY DEF OverInv, Simple, Path
<1>1. hist.other = 0 /\ ~OtherStep /\ Live BY OtherBack, LiveBefore
<1>2. dir \in [Names -> Inodes \cup {None}] BY DEF OpsInv, TypesInv
<1>3. CASE ctl'.pc = "alias"
  <2>1. Path' = Path BY <1>3, AliasGoes DEF Path
  <2>2. dir' = dir /\ dir[Simple(Path)] # None
    BY <1>1, <1>3, AliasGoes DEF OverInv, Free
  <2> QED BY <2>1, <2>2
<1>4. CASE AtAlias'
  <2>1. ctl'.pc \in CallPc \ {"name"} /\ ctl'.loop = "name"
    BY <1>4 DEF AtAlias, FlowInv, CtlInv, CallFrame, FrMade
  <2>2. ctl'.cur = ctl.cur /\ ctl.pc \in CallPc /\ ctl.loop = "name" BY <2>1, NameFrom
  <2>3. Path' = Path BY <2>2 DEF Path
  <2>4. CASE AtAlias /\ dir' = dir BY <1>1, <2>3, <2>4 DEF OverInv
  <2>5. CASE Aliased
    <3>1. PICK n \in Temps : dir' = [dir EXCEPT ![n] = dir[Path]] BY <2>5 DEF Aliased
    <3>2. ctl.pc = "alias" BY <2>5 DEF Aliased, place_temp_alias
    <3>3. Path \in Targets BY <3>2, InHand
    <3>4. Simple(Path) \in Names /\ Simple(Path) # n BY <3>3, Names0 DEF Backups
    <3>5. dir[Simple(Path)] # None BY <1>1, <3>2 DEF OverInv
    <3> QED BY <1>2, <2>3, <3>1, <3>4, <3>5
  <2> QED BY <1>1, <1>4, <2>4, <2>5, AliasFrom
<1> QED BY <1>3, <1>4

(* Different paths have different backups.                                 *)
LEMMA BackupsApart ==
    ASSUME NEW t, NEW u, NEW b, b \in Backups(t), b \in Backups(u)
    PROVE  t = u
  BY DEF Backups, Simple, Numbered

(* A path that holds its old file after a step of the program held it      *)
(* before.                                                                 *)
LEMMA OldBefore ==
    ASSUME FlowInv, OpsInv, HistInv, SlotsInv, StartInv, [Next]_vars, OurStep,
           hist.other = 0, NEW t \in Targets, start[t] # None, dir'[t] = start[t]
    PROVE  dir[t] = start[t]
<1>1. CASE ~spec.force BY <1>1 DEF StartInv
<1>2. CASE spec.force /\ dir'[t] # dir[t]
  <2>1. PICK i \in Ops : dir'[t] = New(i) BY <1>2, OldOrNewStep
  <2>2. t \in Names BY Names0
  <2>3. start[t] = Old(t) BY <2>2 DEF StartInv
  <2>4. New(i) # Old(t) BY DEF New, Old
  <2> QED BY <2>1, <2>3, <2>4
<1> QED BY <1>1, <1>2

(* A file that is in the place of the old one stands for it.               *)
LEMMA PlacedPath ==
    ASSUME FlowInv, OpsInv, StartInv, PathInv, Live, ctl.pc \in PlacedPc, hist.other = 0
    PROVE  dir[Path] # start[Path]
<1> PICK i : i = Cur OBVIOUS
<1>1. ctl.pc \in CallPc \ RemovePc /\ ctl.loop = "name" BY DEF PlacedPc, FlowInv, CtlInv
<1>2. i \in Batch /\ i \in Ops /\ i = ctl.cur /\ i \notin ctl.todo /\ CallInv(i)
  <2>1. i \in Batch /\ i \in Ops /\ i = ctl.cur /\ CallInv(i) BY <1>1, InHand
  <2>2. \A m \in ctl.todo : i < m BY <1>1 DEF FlowInv, CtlInv
  <2>3. i \in Nat BY <2>1 DEF Ops
  <2> QED BY <2>1, <2>2, <2>3
<1>3. op[i].fail = "no" BY <1>2 DEF CallInv, Moved, Raw, Named, PlacedPc
<1>4. Placed(i)
  BY <1>1, <1>2, <1>3 DEF Placed, Unplaced, Coming, Early, PlacedPc
<1>5. PICK j \in Ops : dir[Operand[i]] = New(j) BY <1>2, <1>4 DEF PathInv
<1>6. Path \in Targets /\ Path = Operand[i] BY <1>1, <1>2, InHand DEF Path
<1>7. start[Path] \in {Old(Path), None} BY <1>6, Names0 DEF StartInv
<1>8. New(j) # None /\ New(j) # Old(Path) BY Inodes0 DEF New, Old
<1> QED BY <1>5, <1>6, <1>7, <1>8

(* A backup that is there already stays one the program would remove.      *)
LEMMA UndoneKept ==
    ASSUME FlowInv, OpsInv, HistInv, StartInv, PathInv, FlowInv', [Next]_vars,
           hist.other = 0, NEW t \in Targets, NEW b \in Backups(t), dir[t] = start[t],
           dir[b] # None, dir'[b] = dir[b], Undone(b)
    PROVE  Undone(b)'
<1>1. b \in Names /\ b \notin Targets \cup Temps BY Names0
<1>2. dir[b] \in Inodes BY <1>1 DEF OpsInv, TypesInv
<1>3. hist.refused \subseteq hist'.refused BY HistForms
<1>4. CASE b \in hist.refused BY <1>3, <1>4 DEF Undone
<1>5. CASE Guards(BackupSlot, b, dir[b]) /\ Watches(BackupSlot)
  <2> PICK s : s = BackupSlot OBVIOUS
  <2> PICK x : x = dir[b] OBVIOUS
  <2>1. s \in Slots /\ \A i \in Batch : Slot(i) # s BY Slots0 DEF FlowInv
  <2>2. CASE Guards(s, b, x)' /\ Watches(s)' BY <2>2 DEF Undone, Guards
  <2>3. CASE b \in hist'.refused BY <2>3 DEF Undone
  <2>4. ~(drop_spares /\ s = Slot(Cur))
    <3> SUFFICES ASSUME drop_spares PROVE s # Slot(Cur) OBVIOUS
    <3>1. ctl.pc = "drop" BY DEF drop_spares
    <3> QED BY <2>1, <3>1, InHand
  <2>5. ~Frees(s)
    <3> SUFFICES ASSUME Frees(s) PROVE FALSE OBVIOUS
    <3>1. Live /\ ctl.pc \in CallPc \ RemovePc
      BY DEF Frees, CommitClear, Renamed, Exchanged, NamePlain
    <3>2. s # Slot(Cur) BY <2>1, <3>1, InHand
    <3>3. ctl.pc \in {"renamed", "exchanged"} BY <3>2 DEF Frees, Renamed, Exchanged
    <3>4. CallInv(Cur) /\ Armed(BackupSlot)
      BY <1>1, <1>5, <3>1, InHand, Names0 DEF Guards, Armed
    <3>5. b \in Backups(Path) BY <1>5, <3>3, <3>4 DEF CallInv, BackupPc, Guards
    <3>6. t = Path BY <3>5, BackupsApart
    <3>7. dir[Path] # start[Path] BY <3>1, <3>3, PlacedPath DEF PlacedPc
    <3> QED BY <3>6, <3>7
  <2> QED BY <1>1, <1>2, <1>5, <2>1, <2>2, <2>3, <2>4, <2>5, GuardStep
<1>6. CASE Live /\ ctl.pc = "made" /\ fr.path = b /\ fr.ino = dir[b]
  <2>1. MadeInv(Cur) /\ FrMade /\ Path \in Targets
    BY <1>6, InHand DEF CallInv, FlowInv, CallFrame
  <2>2. fr.what = "backup" BY <1>1, <1>6, <2>1 DEF MadeInv
  <2>3. fr.slot = BackupSlot BY <2>1, <2>2 DEF FrMade
  <2>4. CASE UNCHANGED <<ctl, fr, op, pending, mem, file>> /\ Live'
    BY <1>6, <2>4 DEF Undone
  <2>5. CASE Arm /\ fr' = fr /\ Guards(fr.slot, b, fr.ino)' /\ ctl'.pc # "killed" /\ Live'
    <3>1. Guards(BackupSlot, b, dir[b])'
      BY <1>6, <2>3, <2>5 DEF Guards
    <3>2. Watches(BackupSlot)' BY <2>5 DEF Watches
    <3> QED BY <3>1, <3>2 DEF Undone
  <2>6. CASE b \in hist'.refused BY <2>6 DEF Undone
  <2> QED BY <1>6, <2>2, <2>4, <2>5, <2>6, MadeStep
<1> QED BY <1>4, <1>5, <1>6 DEF Undone

(* A backup that a step makes is one the program would remove, or replaces *)
(* one that it would not.                                                  *)
LEMMA UndoneNew ==
    ASSUME FlowInv, OpsInv, HistInv, OldInv, OverInv, OrphanInv, [Next]_vars, OurStep,
           hist.other = 0, NEW t \in Targets, NEW b \in Backups(t), dir[t] = start[t],
           start[b] = None, start[t] = Old(t), dir'[b] # None, dir'[b] # dir[b]
    PROVE  Undone(b)'
<1>1. b \in Names /\ b \notin Targets \cup Temps /\ t \in Names BY Names0
<1>2. dir \in [Names -> Inodes \cup {None}] BY DEF OpsInv, TypesInv
<1>3. ~OtherStep BY OtherCounts DEF OurStep
<1>4. ~Takes /\ ~Undoes BY <1>1, <1>2 DEF Takes, Undoes
<1>5. ~Gives /\ ~Shifts /\ ~Swaps
  <2>1. CASE Gives \/ Shifts \/ Swaps
    <3>1. ctl.pc \in CallPc \ RemovePc BY <2>1 DEF Gives, Shifts, Swaps
    <3>2. Path \in Targets BY <3>1, InHand
    <3>3. Shifts \/ Swaps => op[Cur].tmp \in Temps BY DEF Shifts, Swaps, Ready, Temporary
    <3> QED BY <1>1, <1>2, <2>1, <3>2, <3>3 DEF Gives, Shifts, Swaps
  <2> QED BY <2>1
<1>6. CASE Rebacks
  <2>1. ctl.pc = "overbackup" /\ fr.path \in Temps BY <1>6 DEF Rebacks
  <2>2. Path \in Targets /\ CallInv(Cur) /\ Live BY <2>1, InHand
  <2>3. Simple(Path) \in Names /\ b = Simple(Path)
    <3>1. Simple(Path) \in Names BY <2>2, Names0 DEF Backups
    <3> QED BY <1>1, <1>2, <1>6, <2>1, <3>1 DEF Rebacks
  <2>4. dir[b] # None BY <2>1, <2>2, <2>3 DEF OverInv, AtAlias
  <2>5. Undone(b)
    <3>1. Old(t) # None BY <1>1, Inodes0 DEF Inodes, Foreign
    <3> QED BY <2>4, <3>1 DEF OrphanInv
  <2>6. Guards(BackupSlot, fr.path, mem.old) BY <2>1, <2>2 DEF CallInv
  <2>7. b \in hist.refused BY <1>1, <2>1, <2>5, <2>6 DEF Undone, Guards
  <2>8. b \in hist'.refused BY <2>7, HistForms
  <2> QED BY <2>8 DEF Undone
<1>7. ASSUME NEW n, NEW x, Makes(n, x) PROVE Undone(b)'
  <2>1. n = b /\ x = dir'[b] /\ ctl'.pc = "made" /\ fr'.path = b
    BY <1>1, <1>2, <1>7 DEF Makes
  <2>2. ctl.pc \in CallPc \ RemovePc /\ sig' = sig BY <1>7 DEF Makes
  <2>3. Path \in Targets /\ Live BY <2>2, InHand
  <2>4. /\ b \in Backups(Path) /\ x = dir[Path] /\ fr'.ino = mem.old
        /\ ctl.pc \in {"numbered", "simple"}
    BY <1>1, <1>7, <2>1, <2>3 DEF Makes
  <2>5. t = Path BY <2>4, BackupsApart
  <2>6. dir[Path] \in {mem.old, None} \cup Others BY <2>3, <2>4 DEF OldInv, AtOld
  <2>7. dir[Path] = Old(t) /\ Old(t) \notin Others /\ Old(t) # None
    BY <1>1, <2>5, Inodes0 DEF Old, Others, Other, Inodes, Foreign
  <2>8. fr'.ino = dir'[b] BY <2>1, <2>4, <2>6, <2>7
  <2>9. Live' BY <2>2, <2>3 DEF Live
  <2> QED BY <2>1, <2>8, <2>9 DEF Undone
<1> QED BY <1>3, <1>4, <1>5, <1>6, <1>7, DirForms

(* Every step keeps it: a backup is made only while its path has the old   *)
(* file and is guarded until that has gone.                                *)
LEMMA OrphanStep ==
    ASSUME FlowInv, OpsInv, HistInv, SlotsInv, StartInv, OldInv, PathInv, OverInv,
           OrphanInv, FlowInv', [Next]_vars
    PROVE  OrphanInv'
<1> SUFFICES ASSUME hist'.other = 0, NEW t \in Targets, NEW b \in Backups(t),
                    start'[b] = None, start'[t] # None, dir'[b] # None,
                    dir'[t] = start'[t]
             PROVE  Undone(b)'
  BY DEF OrphanInv
<1>1. hist.other = 0 /\ OurStep BY OtherBack
<1>2. start' = start BY StartKept
<1>3. dir[t] = start[t] BY <1>1, <1>2, OldBefore
<1>4. CASE dir'[b] = dir[b]
  <2>1. Undone(b) BY <1>1, <1>2, <1>3, <1>4 DEF OrphanInv
  <2> QED BY <1>1, <1>3, <1>4, <2>1, UndoneKept
<1>5. CASE dir'[b] # dir[b]
  <2>1. start[t] = Old(t) BY <1>2, Names0 DEF StartInv
  <2> QED BY <1>1, <1>2, <1>3, <1>5, <2>1, UndoneNew
<1> QED BY <1>4, <1>5

(* Every backup that the run makes is there for a replacement.             *)
BackedInv == OverInv /\ OrphanInv

(* It holds all along.                                                     *)
LEMMA BackedAlways == Spec => []BackedInv
<1>1. Init => BackedInv
  <2> SUFFICES ASSUME Init PROVE BackedInv OBVIOUS
  <2>1. ctl.pc = "batch" /\ dir = start BY DEF Init
  <2> QED BY <2>1 DEF BackedInv, OverInv, AtAlias, OrphanInv
<1>2. LeaveInv /\ PathsInv /\ StatusInv /\ BackedInv /\ LeaveInv' /\ [Next]_vars
        => BackedInv'
  <2> SUFFICES ASSUME LeaveInv, PathsInv, StatusInv, BackedInv, LeaveInv', [Next]_vars
               PROVE  BackedInv'
    OBVIOUS
  <2>1. /\ FlowInv /\ OpsInv /\ HistInv /\ SlotsInv /\ StartInv /\ OldInv /\ PathInv
        /\ OverInv /\ OrphanInv /\ FlowInv'
    BY DEF LeaveInv, PathsInv, StatusInv, BackedInv, BaseInv, SafeInv
  <2>2. OverInv' BY <2>1, OverStep
  <2>3. OrphanInv' BY <2>1, OrphanStep
  <2> QED BY <2>2, <2>3 DEF BackedInv
<1> QED BY <1>1, <1>2, LeaveAlways, PathsAlways, StatusAlways, PTL DEF Spec

(* A backup that was newly made for a replacement that then failed, or was *)
(* interrupted, is gone again when the run is over, if nobody else changes *)
(* the directory and the kernel does not refuse to remove it:              *)
(* PENDING_BACKUP is armed from the link to the exchange or the rename.    *)
THEOREM OrphanTheorem == Spec => []NoOrphanBackup
<1>1. LeaveInv /\ BackedInv => NoOrphanBackup
  <2> SUFFICES ASSUME LeaveInv, OrphanInv, Over, hist.other = 0, NEW t \in Targets,
                      NEW b \in Backups(t), start[b] = None, start[t] # None,
                      dir[b] = start[t], dir[t] = start[t]
               PROVE  b \in hist.refused
    BY DEF NoOrphanBackup, BackedInv
  <2>1. FlowInv /\ OpsInv BY DEF LeaveInv, BaseInv, SafeInv
  <2>2. Undone(b) BY DEF OrphanInv
  <2>3. ASSUME Guards(BackupSlot, b, dir[b]), Watches(BackupSlot) PROVE FALSE
    <3>1. ctl.pc = "exit" BY <2>3 DEF Watches, Over
    <3>2. Live BY <2>1, <3>1 DEF FlowInv, HeldInv
    <3>3. BackupSlot \in Slots BY <2>1, Slots0 DEF FlowInv
    <3>4. ~Armed(BackupSlot) BY <2>1, <3>1, <3>2, <3>3 DEF OpsInv, RestInv
    <3> QED BY <2>3, <3>4, Names0 DEF Guards, Armed
  <2>4. ctl.pc # "made" BY DEF Over
  <2> QED BY <2>2, <2>3, <2>4 DEF Undone
<1> QED BY <1>1, LeaveAlways, BackedAlways, PTL

-----------------------------------------------------------------------------
(* Induction over the places of a string, with a set for the claim.        *)
LEMMA Places ==
    ASSUME NEW S, NEW m \in Nat, 0 \in S, \A n \in 0..m : n # m /\ n \in S => n + 1 \in S
    PROVE  0..m \subseteq S
<1> DEFINE B == (0..m) \ S
<1>1. CASE B # {}
  <2>1. B \in SUBSET Nat OBVIOUS
  <2>2. PICK k \in B : \A n \in B : k <= n
    <3> HIDE DEF B
    <3> QED BY <1>1, <2>1, LeastExists
  <2>3. k \in Nat /\ k # 0 /\ k <= m BY <2>2
  <2>4. k - 1 \in 0..m /\ k - 1 # m /\ k - 1 \notin B /\ (k - 1) + 1 = k BY <2>2, <2>3
  <2> QED BY <2>2, <2>4
<1> QED BY <1>1

(* The values of the prefixes of a string of digits.                       *)
Prefixes(d) ==
    CHOOSE v : v = [i \in 0..Len(d) |-> IF i = 0 THEN 0 ELSE 10 * v[i - 1] + d[i]]

(* The value of a string is that of its longest prefix.                    *)
LEMMA ValueEnds == ASSUME NEW d PROVE Value(d) = Prefixes(d)[Len(d)]
  BY DEF Value, Prefixes

(* They are what the recursion says.                                       *)
LEMMA PrefixValues ==
    ASSUME NEW d \in Seq(0..9)
    PROVE  /\ Prefixes(d) \in [0..Len(d) -> Nat]
           /\ Prefixes(d)[0] = 0
           /\ \A i \in 1..Len(d) : Prefixes(d)[i] = 10 * Prefixes(d)[i - 1] + d[i]
<1> DEFINE F(f, n) == f = [i \in 0..n |-> IF i = 0 THEN 0 ELSE 10 * f[i - 1] + d[i]]
           S == {n \in 0..Len(d) : \E f : F(f, n)}
<1>0. Len(d) \in Nat /\ \A i \in 1..Len(d) : d[i] \in 0..9 OBVIOUS
<1>1. 0 \in S
  <2> DEFINE z == [i \in 0..0 |-> 0]
  <2>1. F(z, 0) OBVIOUS
  <2> HIDE DEF z
  <2> QED BY <1>0, <2>1
<1>2. ASSUME NEW n \in 0..Len(d), n # Len(d), n \in S PROVE n + 1 \in S
  <2>1. PICK f : F(f, n) BY <1>2
  <2> DEFINE g == [i \in 0..(n + 1) |-> IF i = n + 1 THEN 10 * f[n] + d[n + 1] ELSE f[i]]
  <2>2. \A i \in 0..(n + 1) : g[i] = IF i = 0 THEN 0 ELSE 10 * g[i - 1] + d[i]
    <3>1. SUFFICES ASSUME NEW i \in 0..(n + 1)
                   PROVE  g[i] = IF i = 0 THEN 0 ELSE 10 * g[i - 1] + d[i]
      OBVIOUS
    <3>2. CASE i = 0 
      <4>1. f[0] = 0 BY <2>1
      <4> QED BY <3>2, <4>1
    <3>3. CASE i = n + 1 BY <3>3
    <3>4. CASE i # 0 /\ i # n + 1
      <4>1. i \in 0..n /\ i - 1 \in 0..n /\ i - 1 \in 0..(n + 1) /\ i - 1 # n + 1 BY <3>4
      <4>2. f[i] = 10 * f[i - 1] + d[i] BY <2>1, <3>4, <4>1
      <4>3. g[i] = f[i] /\ g[i - 1] = f[i - 1] BY <3>4, <4>1
      <4> QED BY <3>4, <4>2, <4>3
    <3> QED BY <3>2, <3>3, <3>4
  <2>3. F(g, n + 1)
    <3> DEFINE h == [i \in 0..(n + 1) |-> IF i = 0 THEN 0 ELSE 10 * g[i - 1] + d[i]]
    <3>1. \A i \in 0..(n + 1) : g[i] = h[i] BY <2>2
    <3> QED BY <3>1
  <2>4. n + 1 \in 0..Len(d) BY <1>0, <1>2
  <2> HIDE DEF g
  <2> QED BY <2>3, <2>4
<1>3. Len(d) \in S
  <2> HIDE DEF S
  <2>1. 0..Len(d) \subseteq S BY <1>0, <1>1, <1>2, Places
  <2> QED BY <1>0, <2>1
<1> DEFINE v == Prefixes(d)
<1>4. F(v, Len(d)) BY <1>3 DEF Prefixes
<1> HIDE DEF v
<1>5. /\ v[0] = 0
      /\ \A i \in 1..Len(d) : v[i] = 10 * v[i - 1] + d[i]
  BY <1>0, <1>4
<1> DEFINE T == {n \in 0..Len(d) : v[n] \in Nat}
<1>6. 0..Len(d) \subseteq T
  <2>1. 0 \in T BY <1>0, <1>5
  <2>2. ASSUME NEW n \in 0..Len(d), n # Len(d), n \in T PROVE n + 1 \in T
    <3>1. n + 1 \in 1..Len(d) /\ n + 1 \in 0..Len(d) /\ (n + 1) - 1 = n BY <1>0, <2>2
    <3>2. v[n + 1] = 10 * v[n] + d[n + 1] BY <1>5, <3>1
    <3>3. d[n + 1] \in 0..9 BY <1>0, <3>1
    <3>4. v[n] \in Nat BY <2>2
    <3>5. \A x \in Nat, y \in 0..9 : 10 * x + y \in Nat OBVIOUS
    <3>6. v[n + 1] \in Nat BY <3>2, <3>3, <3>4, <3>5
    <3> QED BY <3>1, <3>6
  <2> HIDE DEF T
  <2> QED BY <1>0, <2>1, <2>2, Places
<1>7. v \in [0..Len(d) -> Nat] BY <1>4, <1>6
<1> QED BY <1>5, <1>7 DEF v

(* After a place where the digits of b are ahead they stay ahead; k places *)
(* of b come before those of a.                                            *)
LEMMA StaysAhead ==
    ASSUME NEW a \in Seq(0..9), NEW b \in Seq(0..9), NEW k \in Nat, NEW m \in Nat,
           Len(b) = Len(a) + k, m <= Len(a), Prefixes(a)[m] < Prefixes(b)[m + k]
    PROVE  Value(a) < Value(b)
<1> DEFINE v == Prefixes(a)
           w == Prefixes(b)
           n == Len(a) - m
           S == {j \in 0..n : v[m + j] < w[m + j + k]}
<1>1. Len(a) \in Nat /\ Len(b) \in Nat /\ n \in Nat OBVIOUS
<1>2. 0 \in S BY <1>1
<1>3. ASSUME NEW j \in 0..n, j # n, j \in S PROVE j + 1 \in S
  <2>1. /\ m + j \in 0..Len(a) /\ m + j + 1 \in 1..Len(a)
        /\ m + j + k \in 0..Len(b) /\ m + j + k + 1 \in 1..Len(b)
    BY <1>1, <1>3
  <2>2. v[m + j] \in Nat /\ w[m + j + k] \in Nat BY <2>1, PrefixValues
  <2>3. v[m + j + 1] = 10 * v[m + j] + a[m + j + 1]
    <3>1. m + j + 1 - 1 = m + j BY <2>1
    <3> QED BY <2>1, <3>1, PrefixValues
  <2>4. w[m + j + k + 1] = 10 * w[m + j + k] + b[m + j + k + 1]
    <3>1. m + j + k + 1 - 1 = m + j + k BY <2>1
    <3>2. \A i \in 1..Len(b) : w[i] = 10 * w[i - 1] + b[i] BY PrefixValues
    <3> HIDE DEF w
    <3> QED BY <2>1, <3>1, <3>2
  <2>5. a[m + j + 1] \in 0..9 /\ b[m + j + k + 1] \in 0..9 BY <2>1
  <2>6. \A x, y \in Nat, c, e \in 0..9 : x < y => 10 * x + c < 10 * y + e OBVIOUS
  <2>7. v[m + j + 1] < w[m + j + k + 1]
    <3>1. v[m + j] < w[m + j + k] BY <1>3
    <3> HIDE DEF v, w
    <3> QED BY <2>2, <2>3, <2>4, <2>5, <2>6, <3>1
  <2>8. /\ m + (j + 1) = m + j + 1 /\ m + (j + 1) + k = m + j + k + 1 /\ j + 1 \in 0..n
    BY <1>1, <1>3
  <2> QED BY <2>7, <2>8
<1>4. n \in S
  <2>1. n \in 0..n BY <1>1
  <2> HIDE DEF S, n
  <2> QED BY <1>1, <1>2, <1>3, <2>1, Places
<1>5. m + n = Len(a) /\ m + n + k = Len(b) BY <1>1
<1> QED BY <1>4, <1>5, ValueEnds

(* Strings that agree up to a place agree on its value.                    *)
LEMMA SamePrefix ==
    ASSUME NEW a \in Seq(0..9), NEW b \in Seq(0..9), NEW m \in Nat,
           m <= Len(a), m <= Len(b), \A i \in 1..m : a[i] = b[i]
    PROVE  Prefixes(a)[m] = Prefixes(b)[m]
<1> DEFINE v == Prefixes(a)
           w == Prefixes(b)
           S == {j \in 0..m : v[j] = w[j]}
<1>1. 0 \in S BY PrefixValues
<1>2. ASSUME NEW j \in 0..m, j # m, j \in S PROVE j + 1 \in S
  <2>1. j + 1 \in 1..m /\ j + 1 \in 1..Len(a) /\ j + 1 \in 1..Len(b) /\ j + 1 - 1 = j
    BY <1>2
  <2>2. v[j + 1] = 10 * v[j] + a[j + 1] /\ w[j + 1] = 10 * w[j] + b[j + 1]
    BY <2>1, PrefixValues
  <2>3. j + 1 \in 0..m /\ a[j + 1] = b[j + 1] /\ v[j] = w[j] BY <1>2, <2>1
  <2> QED BY <2>2, <2>3
<1>3. m \in S
  <2>1. m \in 0..m OBVIOUS
  <2> HIDE DEF S
  <2> QED BY <1>1, <1>2, <2>1, Places
<1> QED BY <1>3

(* Where b is ahead at the first place they differ in, b is ahead.         *)
LEMMA FirstAhead ==
    ASSUME NEW a \in Seq(0..9), NEW b \in Seq(0..9), Len(a) = Len(b),
           NEW m \in 1..Len(a), \A i \in 1..(m - 1) : a[i] = b[i], a[m] < b[m]
    PROVE  Value(a) < Value(b)
<1>1. Prefixes(a)[m - 1] = Prefixes(b)[m - 1] BY SamePrefix
<1>2. /\ Prefixes(a)[m] = 10 * Prefixes(a)[m - 1] + a[m]
      /\ Prefixes(b)[m] = 10 * Prefixes(b)[m - 1] + b[m]
  BY PrefixValues
<1>3. Prefixes(a)[m - 1] \in Nat
  <2>1. m - 1 \in 0..Len(a) OBVIOUS
  <2> QED BY <2>1, PrefixValues
<1>4. a[m] \in 0..9 /\ b[m] \in 0..9 OBVIOUS
<1>5. Prefixes(a)[m] < Prefixes(b)[m]
  <2>1. \A x \in Nat, c, e \in 0..9 : c < e => 10 * x + c < 10 * x + e OBVIOUS
  <2> QED BY <1>1, <1>2, <1>3, <1>4, <2>1
<1>6. m + 0 = m /\ m \in Nat /\ Len(b) = Len(a) + 0 /\ m <= Len(a) OBVIOUS
<1>7. \A k \in Nat : Len(b) = Len(a) + k /\ Prefixes(a)[m] < Prefixes(b)[m + k] =>
         Value(a) < Value(b)
  BY <1>6, StaysAhead
<1> QED BY <1>5, <1>6, <1>7

(* Of two strings without leading zeros, digits_cmp() puts the smaller     *)
(* number first.                                                           *)
LEMMA LessIsLess ==
    ASSUME NEW a \in Seq(0..9), NEW b \in Seq(0..9), backup_split(a), backup_split(b),
           digits_less(a, b)
    PROVE  Value(a) < Value(b)
<1>1. CASE Len(a) < Len(b)
  <2>0. PICK k \in Nat \ {0} : Len(b) = Len(a) + k
    <3>1. Len(b) - Len(a) \in Nat \ {0} /\ Len(b) = Len(a) + (Len(b) - Len(a)) BY <1>1
    <3> QED BY <3>1
  <2>1. Len(b) = Len(a) + k /\ 0 + k = k /\ k <= Len(b) /\ Len(b) \in Nat BY <2>0
  <2>2. Prefixes(a)[0] = 0 BY PrefixValues
  <2>3. Prefixes(b)[k] > 0
    <3> DEFINE S == {j \in 0..(k - 1) : Prefixes(b)[j + 1] > 0}
    <3>1. b[1] \in 1..9 /\ 1 \in 1..Len(b) BY DEF backup_split
    <3>2. 0 \in S
      <4>1. Prefixes(b)[1] = 10 * Prefixes(b)[1 - 1] + b[1] /\ Prefixes(b)[0] = 0
        BY <3>1, PrefixValues
      <4>2. 1 - 1 = 0 /\ 0 + 1 = 1 OBVIOUS
      <4> QED BY <2>1, <3>1, <4>1, <4>2
    <3>3. ASSUME NEW j \in 0..(k - 1), j # k - 1, j \in S PROVE j + 1 \in S
      <4>1. j + 1 \in 0..Len(b) /\ j + 1 + 1 \in 1..Len(b) /\ j + 1 + 1 - 1 = j + 1
        BY <2>1, <3>3
      <4>2. Prefixes(b)[j + 1 + 1] = 10 * Prefixes(b)[j + 1] + b[j + 1 + 1]
        BY <4>1, PrefixValues
      <4>3. Prefixes(b)[j + 1] \in Nat /\ b[j + 1 + 1] \in 0..9 BY <4>1, PrefixValues
      <4>4. j + 1 \in 0..(k - 1) BY <2>1, <3>3
      <4>5. \A x \in Nat, c \in 0..9 : x > 0 => 10 * x + c > 0 OBVIOUS
      <4>6. Prefixes(b)[j + 1] > 0 BY <3>3
      <4>7. Prefixes(b)[j + 1 + 1] > 0 BY <4>2, <4>3, <4>5, <4>6
      <4> QED BY <4>4, <4>7
    <3>4. k - 1 \in S
      <4>1. k - 1 \in Nat /\ k - 1 \in 0..(k - 1) BY <2>1
      <4> HIDE DEF S
      <4> QED BY <3>2, <3>3, <4>1, Places
    <3>5. k - 1 + 1 = k BY <2>1
    <3> QED BY <3>4, <3>5
  <2> QED BY <2>1, <2>2, <2>3, StaysAhead
<1>2. CASE Len(a) = Len(b) /\ Before(a, b)
  <2>1. PICK i \in 1..Len(a) : a[i] < b[i] /\ SubSeq(a, 1, i - 1) = SubSeq(b, 1, i - 1)
    BY <1>2 DEF Before
  <2>2. \A j \in 1..(i - 1) : a[j] = b[j]
    <3>1. \A j \in 1..(i - 1) : SubSeq(a, 1, i - 1)[j] = a[j] OBVIOUS
    <3>2. \A j \in 1..(i - 1) : SubSeq(b, 1, i - 1)[j] = b[j] BY <1>2
    <3> QED BY <2>1, <3>1, <3>2
  <2> QED BY <1>2, <2>1, <2>2, FirstAhead
<1> QED BY <1>1, <1>2 DEF digits_less

(* digits_cmp() calls different strings different.                         *)
LEMMA LessTotal ==
    ASSUME NEW a \in Seq(0..9), NEW b \in Seq(0..9), a # b
    PROVE  digits_less(a, b) \/ digits_less(b, a)
<1>1. CASE Len(a) # Len(b) BY <1>1 DEF digits_less
<1>2. CASE Len(a) = Len(b)
  <2> DEFINE D == {i \in 1..Len(a) : a[i] # b[i]}
  <2>1. D \in SUBSET Nat /\ D # {} BY <1>2
  <2>2. PICK i \in D : \A j \in D : i <= j
    <3> HIDE DEF D
    <3> QED BY <2>1, LeastExists
  <2>3. i \in 1..Len(a) /\ i \in 1..Len(b) /\ \A j \in 1..(i - 1) : a[j] = b[j]
    <3>1. \A j \in 1..(i - 1) : j \in 1..Len(a) /\ ~(i <= j) BY <2>2
    <3> QED BY <1>2, <2>2, <3>1
  <2>4. SubSeq(a, 1, i - 1) = SubSeq(b, 1, i - 1) BY <2>3
  <2>5. a[i] < b[i] \/ b[i] < a[i]
    <3>1. a[i] \in 0..9 /\ b[i] \in 0..9 BY <2>3
    <3> QED BY <2>2, <3>1
  <2> QED BY <1>2, <2>3, <2>4, <2>5 DEF digits_less, Before
<1> QED BY <1>1, <1>2

(* digits_inc() gives the string of the next number, whatever carries.     *)
LEMMA NextNumber ==
    ASSUME NEW d \in Seq(0..9)
    PROVE  digits_inc(d) \in Seq(0..9) /\ Value(digits_inc(d)) = Value(d) + 1
<1> DEFINE low == {i \in 1..Len(d) : d[i] # 9}
           n   == Len(d)
<1>0. n \in Nat /\ \A i \in 1..n : d[i] \in 0..9 OBVIOUS
<1>1. CASE low = {}
  <2> DEFINE e == <<1>> \o [k \in 1..n |-> 0]
             S == {j \in 0..n : Prefixes(e)[j + 1] = Prefixes(d)[j] + 1}
  <2>1. digits_inc(d) = e BY <1>1 DEF digits_inc
  <2>2. e \in Seq(0..9) /\ Len(e) = n + 1 /\ e[1] = 1 /\ \A i \in 1..n : e[i + 1] = 0
    <3> DEFINE z == [k \in 1..n |-> 0]
    <3>1. z \in Seq(0..9) /\ Len(z) = n BY <1>0
    <3>2. \A i \in 1..n : z[i] = 0 OBVIOUS
    <3> HIDE DEF z, n
    <3>3. /\ <<1>> \o z \in Seq(0..9) /\ Len(<<1>> \o z) = n + 1 /\ (<<1>> \o z)[1] = 1
          /\ \A i \in 1..n : (<<1>> \o z)[i + 1] = z[i]
      BY <1>0, <3>1
    <3> QED BY <3>2, <3>3 DEF z
  <2> HIDE DEF e
  <2>3. 0 \in S
    <3>1. Prefixes(e)[1] = 10 * Prefixes(e)[0] + e[1] /\ Prefixes(e)[0] = 0
      <4>1. 1 \in 1..Len(e) /\ 1 - 1 = 0 BY <1>0, <2>2
      <4> QED BY <2>2, <4>1, PrefixValues
    <3>2. Prefixes(d)[0] = 0 BY PrefixValues
    <3> QED BY <1>0, <2>2, <3>1, <3>2
  <2>4. ASSUME NEW j \in 0..n, j # n, j \in S PROVE j + 1 \in S
    <3>1. j + 1 \in 1..n /\ j + 1 \in 0..n /\ j + 1 + 1 \in 1..Len(e)
          /\ j + 1 - 1 = j /\ j + 1 + 1 - 1 = j + 1
      BY <1>0, <2>2, <2>4
    <3>2. Prefixes(d)[j + 1] = 10 * Prefixes(d)[j] + 9
      <4>1. d[j + 1] = 9 BY <1>1, <3>1
      <4> QED BY <3>1, <4>1, PrefixValues
    <3>3. Prefixes(e)[j + 1 + 1] = 10 * Prefixes(e)[j + 1] + 0
      <4>1. e[j + 1 + 1] = 0 BY <2>2, <3>1
      <4>2. \A i \in 1..Len(e) : Prefixes(e)[i] = 10 * Prefixes(e)[i - 1] + e[i]
        BY <2>2, PrefixValues
      <4> QED BY <3>1, <4>1, <4>2
    <3>4. Prefixes(d)[j] \in Nat BY <1>0, PrefixValues
    <3>5. Prefixes(e)[j + 1] = Prefixes(d)[j] + 1 BY <2>4
    <3>6. \A x \in Nat : 10 * (x + 1) + 0 = (10 * x + 9) + 1 OBVIOUS
    <3>7. Prefixes(e)[j + 1 + 1] = Prefixes(d)[j + 1] + 1 BY <3>2, <3>3, <3>4, <3>5, <3>6
    <3> QED BY <3>1, <3>7
  <2>5. n \in S
    <3>1. n \in 0..n BY <1>0
    <3> HIDE DEF S, n
    <3> QED BY <1>0, <2>3, <2>4, <3>1, Places
  <2> QED BY <2>1, <2>2, <2>5, ValueEnds
<1>2. CASE low # {}
  <2> DEFINE at == CHOOSE i \in low : \A j \in low : j <= i
             e  == [k \in 1..n |-> IF k < at THEN d[k] ELSE IF k = at THEN d[k] + 1 ELSE 0]
  <2>1. digits_inc(d) = e BY <1>2 DEF digits_inc
  <2>2. at \in low /\ \A j \in low : j <= at
    <3> DEFINE M == {n - i : i \in low}
    <3>1. M \in SUBSET Nat /\ M # {} BY <1>0, <1>2
    <3>2. PICK m \in M : \A j \in M : m <= j
      <4> HIDE DEF M
      <4> QED BY <3>1, LeastExists
    <3>3. PICK i \in low : m = n - i BY <3>2
    <3>4. \A j \in low : j <= i
      <4>1. \A j \in low : n - i <= n - j BY <3>2, <3>3
      <4> QED BY <1>0, <4>1
    <3> HIDE DEF low
    <3> QED BY <3>4
  <2> HIDE DEF at
  <2>3. /\ at \in 1..n /\ d[at] \in 0..8 /\ \A k \in 1..n : k > at => d[k] = 9
    <3>1. at \in 1..n /\ d[at] # 9 BY <2>2
    <3>2. \A k \in 1..n : k > at => k \notin low BY <2>2, <3>1
    <3> QED BY <1>0, <3>1, <3>2
  <2>4. e \in Seq(0..9) /\ Len(e) = n
    <3>1. \A k \in 1..n : e[k] \in 0..9 BY <1>0, <2>3
    <3>2. e \in [1..n -> 0..9] BY <3>1
    <3> HIDE DEF e
    <3> QED BY <1>0, <3>2
  <2>5. /\ \A k \in 1..(at - 1) : e[k] = d[k]
        /\ e[at] = d[at] + 1
        /\ \A k \in 1..n : k > at => e[k] = 0
    BY <1>0, <2>3
  <2> HIDE DEF e
  <2>6. Prefixes(e)[at - 1] = Prefixes(d)[at - 1]
    <3>1. at - 1 \in Nat /\ at - 1 <= Len(e) /\ at - 1 <= Len(d) BY <1>0, <2>3, <2>4
    <3>2. \A m \in Nat : m <= Len(e) /\ m <= Len(d) /\ (\A i \in 1..m : e[i] = d[i]) =>
             Prefixes(e)[m] = Prefixes(d)[m]
      BY <2>4, SamePrefix
    <3> QED BY <2>5, <3>1, <3>2
  <2>7. Prefixes(e)[at] = Prefixes(d)[at] + 1
    <3>1. Prefixes(d)[at] = 10 * Prefixes(d)[at - 1] + d[at] BY <2>3, PrefixValues
    <3>2. Prefixes(e)[at] = 10 * Prefixes(e)[at - 1] + (d[at] + 1)
      BY <2>3, <2>4, <2>5, PrefixValues
    <3>3. Prefixes(d)[at - 1] \in Nat
      <4>1. at - 1 \in 0..n BY <1>0, <2>3
      <4> QED BY <4>1, PrefixValues
    <3>4. \A x \in Nat, c \in 0..8 : 10 * x + (c + 1) = (10 * x + c) + 1 OBVIOUS
    <3> QED BY <2>3, <2>6, <3>1, <3>2, <3>3, <3>4
  <2> DEFINE r == n - at
             S == {j \in 0..r : Prefixes(e)[at + j] = Prefixes(d)[at + j] + 1}
  <2>8. 0 \in S BY <1>0, <2>3, <2>7
  <2>9. ASSUME NEW j \in 0..r, j # r, j \in S PROVE j + 1 \in S
    <3>1. /\ at + j + 1 \in 1..n /\ at + j \in 0..n /\ at + j + 1 - 1 = at + j
          /\ at + (j + 1) = at + j + 1 /\ at + j + 1 > at /\ j + 1 \in 0..r
      BY <1>0, <2>3, <2>9
    <3>2. Prefixes(d)[at + j + 1] = 10 * Prefixes(d)[at + j] + 9
      <4>1. d[at + j + 1] = 9 BY <2>3, <3>1
      <4>2. \A i \in 1..n : Prefixes(d)[i] = 10 * Prefixes(d)[i - 1] + d[i] BY PrefixValues
      <4> QED BY <3>1, <4>1, <4>2
    <3>3. Prefixes(e)[at + j + 1] = 10 * Prefixes(e)[at + j] + 0
      <4>1. e[at + j + 1] = 0 BY <2>5, <3>1
      <4>2. \A i \in 1..n : Prefixes(e)[i] = 10 * Prefixes(e)[i - 1] + e[i]
        BY <2>4, PrefixValues
      <4> QED BY <3>1, <4>1, <4>2
    <3>4. Prefixes(d)[at + j] \in Nat BY <3>1, PrefixValues
    <3>5. Prefixes(e)[at + j] = Prefixes(d)[at + j] + 1 BY <2>9
    <3>6. \A x \in Nat : 10 * (x + 1) + 0 = (10 * x + 9) + 1 OBVIOUS
    <3>7. Prefixes(e)[at + j + 1] = Prefixes(d)[at + j + 1] + 1
      BY <3>2, <3>3, <3>4, <3>5, <3>6
    <3> QED BY <3>1, <3>7
  <2>10. r \in S
    <3>1. r \in Nat /\ r \in 0..r BY <1>0, <2>3
    <3> HIDE DEF S, r
    <3> QED BY <2>8, <2>9, <3>1, Places
  <2>11. at + r = n BY <1>0, <2>3
  <2> QED BY <2>1, <2>4, <2>10, <2>11, ValueEnds
<1> QED BY <1>1, <1>2

(* Value gives natural numbers.                                            *)
LEMMA ValueNat == ASSUME NEW d \in Seq(0..9) PROVE Value(d) \in Nat
<1>1. Len(d) \in 0..Len(d) OBVIOUS
<1> QED BY <1>1, PrefixValues, ValueEnds

(* The order of the natural numbers.                                       *)
LEMMA NatOrder ==
    /\ \A x, y, z \in Nat : ~(x < x) /\ (x < y /\ y < z => x < z)
    /\ \A x, y \in Nat : x <= x /\ (x < y => x <= y)
  OBVIOUS

(* Among finitely many numbers there is one that digits_cmp() puts before  *)
(* none of the others, and no other is higher.                             *)
LEMMA HighestOf ==
    ASSUME NEW S \in SUBSET Seq(0..9), IsFiniteSet(S), S # {}, \A d \in S : backup_split(d)
    PROVE  LET h == CHOOSE d \in S : \A e \in S : ~digits_less(d, e)
           IN  h \in S /\ \A e \in S : Value(e) <= Value(h)
<1> DEFINE Above(d) == {e \in S : Value(d) < Value(e)}
           C == {Cardinality(Above(d)) : d \in S}
<1>1. \A d \in S : IsFiniteSet(Above(d)) /\ Cardinality(Above(d)) \in Nat
  <2>1. \A d \in S : Above(d) \in SUBSET S OBVIOUS
  <2> HIDE DEF Above
  <2> QED BY <2>1, FS_Subset, FS_CardinalityType
<1>2. C \in SUBSET Nat /\ C # {}
  <2> HIDE DEF Above
  <2> QED BY <1>1
<1>3. PICK c \in C : \A x \in C : c <= x
  <2> HIDE DEF C
  <2> QED BY <1>2, LeastExists
<1>4. PICK d \in S : c = Cardinality(Above(d)) BY <1>3
<1>5. ASSUME NEW e \in S, digits_less(d, e) PROVE FALSE
  <2>1. Value(d) < Value(e) BY <1>5, LessIsLess
  <2>2. Value(d) \in Nat /\ \A f \in S : Value(f) \in Nat BY ValueNat
  <2>3. Above(e) \in SUBSET Above(d) BY NatOrder, <2>1, <2>2, Zenon
  <2>4. e \in Above(d) /\ e \notin Above(e) BY NatOrder, <2>1, <2>2, Zenon
  <2>5. Cardinality(Above(d)) <= Cardinality(Above(e))
    <3> HIDE DEF Above
    <3> QED BY <1>3, <1>4
  <2> HIDE DEF Above
  <2>6. Cardinality(Above(e)) <= Cardinality(Above(d)) BY <1>1, <2>3, FS_Subset
  <2>7. Cardinality(Above(e)) = Cardinality(Above(d)) BY <1>1, <2>5, <2>6
  <2> QED BY <1>1, <2>3, <2>4, <2>7, FS_Subset
<1> DEFINE h == CHOOSE x \in S : \A e \in S : ~digits_less(x, e)
<1>6. h \in S /\ \A e \in S : ~digits_less(h, e) BY <1>5
<1> HIDE DEF h
<1>7. ASSUME NEW e \in S PROVE Value(e) <= Value(h)
  <2>1. Value(e) \in Nat /\ Value(h) \in Nat BY <1>6, ValueNat
  <2>2. CASE e = h BY NatOrder, <2>1, <2>2, Zenon
  <2>3. CASE digits_less(e, h)
    <3>1. Value(e) < Value(h) BY <1>6, <2>3, LessIsLess
    <3> QED BY NatOrder, <2>1, <3>1, Zenon
  <2> QED BY <1>6, <2>2, <2>3, LessTotal
<1> QED BY <1>6, <1>7 DEF h

-----------------------------------------------------------------------------
(* A directory change is noted; the listing and the number in hand change  *)
(* only in backup.c and where the cache is reset.                          *)
LEMMA ListForms ==
    ASSUME FlowInv, [Next]_vars
    PROVE  \/ UNCHANGED <<mem.best, mem.num, mem.listed>>
           \/ NameBatch \/ backup_next \/ backup_numbered \/ backup_note
<1> DEFINE Same == UNCHANGED <<mem.best, mem.num, mem.listed>>
<1>1. mem' = mem => Same OBVIOUS
<1>2. DOMAIN mem = MemFields /\ {"best", "num", "listed"} \subseteq MemFields
  BY DEF FlowInv, HeldInv, MemFields
<1>3. Signal \/ OtherStep \/ UNCHANGED vars \/ PendingStep => Same
  BY DEF Signal, OtherStep, OtherPut, OtherUnlink, vars, PendingStep, RemoveLstat,
         RemoveUnlink, SignalTaken, HandlerStep
<1>4. PlaceStep => Same
  BY <1>2
  DEF PlaceStep, Arm, UndoOpen, ProbeDone, CommitRename, CommitClear, CommitLink,
         CommitOver, OverRename, OverFailed, ReplaceRename, Renamed, ExchangeNames,
         Exchanged
<1>5. BackupStep => Same \/ backup_next \/ backup_numbered \/ backup_note
  BY <1>2 DEF BackupStep, backup_none, backup_make, OutOfNumbers, backup_simple,
              place_temp_alias, OverBackup
<1>6. BatchStep => Same \/ NameBatch
  <2>1. batch_run \/ flush_set_add \/ flush_set_run \/ DropRelease \/ report_one => Same
    BY <1>2 DEF batch_run, flush_set_add, flush_set_run, DropRelease, report_one
  <2> QED BY <1>1, <2>1
    DEF BatchStep, build_one, FinishPrivate, fill_one, FinishOwner, FinishMode,
         place_probe_mode, open_built, FinishLink, op_fail,
         OpFailed, FlushClose, close_op, NameForce, NameUnnamed, NameTemp,
         NamePlain, FlushBackup, SettleClose, SettleOne, Tidied, Dropped,
         flush_batch, settle_batch, drop_spares
<1> QED BY <1>3, <1>4, <1>5, <1>6 DEF Next, Program, Ended

(* How the program comes to have a number in hand.                         *)
LEMMA NumberingFrom ==
    ASSUME FlowInv, [Next]_vars, FlowInv', Numbering'
    PROVE  /\ ctl'.cur = ctl.cur
           /\ \/ Numbering /\ mem' = mem /\ (Noting' => Noting)
              \/ backup_numbered \/ backup_next
<1>1. Live' /\ ctl'.loop = "name" /\ ctl'.pc \in {"numbered", "note", "made"}
  <2>1. Live' /\ ctl'.pc \in {"numbered", "note", "made"}
    BY DEF Numbering, Noting, FlowInv, HeldInv
  <2>2. ctl'.pc = "made" => FrMade' /\ fr'.then = "note"
    BY DEF Numbering, Noting, FlowInv, CallFrame
  <2>3. ctl'.pc = "made" => ctl'.loop = "name" BY <2>2 DEF FrMade, Finish, AfterFill
  <2>4. ctl'.pc \in {"numbered", "note"} => ctl'.loop = "name" BY DEF FlowInv, CtlInv
  <2> QED BY <2>1, <2>3, <2>4
<1>2. /\ ctl.pc \in CallPc /\ ctl.loop = "name" /\ Live /\ ctl'.cur = ctl.cur
  BY <1>1, NameFrom
<1>3. ASSUME NEW p \in CallPc \ {"numbered", "note", "made"}, Goto(p) PROVE FALSE
  BY <1>1, <1>3, CallStep
<1>4. Goto("next") => FALSE
  <2> SUFFICES ASSUME Goto("next") PROVE FALSE OBVIOUS
  <2>1. Moves(ctl, ctl') BY GotoStep DEF FlowInv
  <2> QED BY <1>1, <1>2, <2>1 DEF Moves, Entry, After
<1>5. ~(RemoveLstat \/ RemoveUnlink)
  <2> SUFFICES ASSUME RemoveLstat \/ RemoveUnlink PROVE FALSE OBVIOUS
  <2>1. ctl.pc \in RemovePc /\ FrRemove /\ (Goto("unlink") \/ Goto(fr.then))
    BY <1>2 DEF RemoveLstat, RemoveUnlink, RemoveDone, FlowInv, CallFrame
  <2>2. fr.then \in CallPc \ {"numbered", "note", "made"} BY <2>1 DEF FrRemove
  <2> QED BY <1>3, <2>1, <2>2
<1>6. Arm => Numbering /\ mem' = mem /\ (Noting' => Noting)
  <2> SUFFICES ASSUME Arm PROVE Numbering /\ mem' = mem /\ (Noting' => Noting) OBVIOUS
  <2>1. FrMade /\ Goto(fr.then) /\ mem' = mem /\ ctl.pc = "made"
    BY DEF Arm, FlowInv, CallFrame
  <2>2. fr.then \in ((CallPc \cup {"next"}) \ {"numbered", "note", "made"}) \cup {"note"}
    BY <2>1 DEF FrMade, Finish, AfterFill
  <2> QED BY <1>3, <1>4, <2>1, <2>2 DEF Numbering, Noting
<1>7. ~(UndoOpen \/ OverFailed \/ NameTemp \/ NameUnnamed \/ NamePlain)
  BY <1>3 DEF UndoOpen, OverFailed, NameTemp, NameUnnamed, NamePlain
<1>8. ~(CommitClear \/ Renamed \/ Exchanged \/ flush_set_add \/ OpFailed)
  BY <1>3, <1>4 DEF CommitClear, Renamed, Exchanged, flush_set_add, OpFailed
<1>9. ~(CommitRename \/ OverRename \/ CommitLink)
  BY <1>3 DEF CommitRename, OverRename, CommitLink
<1>10. ASSUME Goto("made"), fr'.then # "note" PROVE FALSE
  <2>1. ctl'.pc = "made" BY <1>10, CallStep
  <2> QED BY <1>10, <2>1 DEF Numbering, Noting
<1>11. ~(CommitOver \/ NameForce \/ place_temp_alias)
  <2>1. CommitOver \/ NameForce \/ place_temp_alias =>
          \/ Goto("fail") \/ Goto("replace") \/ (Goto("made") /\ fr'.then # "note")
    BY DEF CommitOver, NameForce, place_temp_alias, temp_make, Made, NoTemp
  <2> QED BY <1>3, <1>10, <2>1
<1>12. ~(ReplaceRename \/ ExchangeNames \/ FlushBackup \/ op_fail)
  <2>1. ReplaceRename \/ ExchangeNames \/ FlushBackup \/ op_fail =>
          \/ Goto("renamed") \/ Goto("exchanged") \/ Goto("rename") \/ Goto("lstat")
          \/ Goto("fail") \/ Goto("failed")
    BY DEF ReplaceRename, ExchangeNames, FlushBackup, op_fail, pending_remove
  <2> QED BY <1>3, <2>1
<1>13. ~(backup_none \/ backup_make \/ backup_note \/ OutOfNumbers)
  BY <1>3 DEF backup_none, backup_make, backup_note, OutOfNumbers
<1>14. ~(backup_simple \/ OverBackup)
  <2>1. backup_simple \/ OverBackup =>
          \/ Goto("fail") \/ Goto("alias") \/ Goto("lstat") \/ Goto("backed")
          \/ (Goto("made") /\ fr'.then # "note")
    BY DEF backup_simple, backup_link, NoLink, Made, OverBackup, pending_remove
  <2> QED BY <1>3, <1>10, <2>1
<1>15. UNCHANGED <<ctl, fr, op, pending, mem, file>> =>
          Numbering /\ mem' = mem /\ (Noting' => Noting)
  BY DEF Numbering, Noting
<1> QED BY <1>1, <1>2, <1>5, <1>6, <1>7, <1>8, <1>9, <1>11, <1>12, <1>13, <1>14, <1>15,
           NameActions DEF BackupStep


(* What has happened to the directory since its last fsync is a truth      *)
(* value.                                                                  *)
LEMMA MarkBool ==
    ASSUME [Next]_vars, unflushed \in BOOLEAN
    PROVE  unflushed' \in BOOLEAN
<1>1. ASSUME NEW d, SetDir(d) PROVE unflushed' \in BOOLEAN BY <1>1 DEF SetDir
<1>2. Flushed => unflushed' \in BOOLEAN BY DEF Flushed
<1>3. unflushed' = unflushed => unflushed' \in BOOLEAN OBVIOUS
<1> DEFINE Truth == unflushed' \in BOOLEAN
<1>4. /\ \A d : SetDir(d) => Truth
      /\ Flushed => Truth
      /\ unflushed' = unflushed => Truth
  BY <1>1, <1>2, <1>3
<1> HIDE DEF SetDir, Flushed, Truth
<1>5. PendingStep \/ OtherStep \/ Signal \/ UNCHANGED vars => Truth
  BY <1>4 DEF PendingStep, RemoveLstat, RemoveUnlink, SignalTaken, HandlerStep,
         OtherStep, OtherPut, OtherUnlink, Signal, vars
<1>6. PlaceStep => Truth
  BY <1>4 DEF PlaceStep, Arm, UndoOpen, ProbeDone, CommitRename, CommitClear, CommitLink,
         CommitOver, OverRename, OverFailed, ReplaceRename, Renamed, ExchangeNames,
         Exchanged, Made
<1>7. BackupStep => Truth
  BY <1>4 DEF BackupStep, backup_none, backup_make, backup_next, backup_numbered,
         OutOfNumbers, backup_note, backup_simple, place_temp_alias, OverBackup,
         backup_link, NoLink, temp_make, NoTemp, Made
<1>8. BatchStep => Truth
  BY <1>4 DEF BatchStep, batch_run, build_one, FinishPrivate, fill_one, FinishOwner,
         FinishMode, place_probe_mode, open_built, FinishLink, op_fail,
         OpFailed, FlushClose, close_op, NameBatch, NameForce, NameUnnamed, NameTemp,
         NamePlain, FlushBackup, SettleClose, SettleOne, Tidied, flush_set_run, Dropped,
         DropRelease, flush_batch, settle_batch, flush_set_add, drop_spares, report_one,
         temp_make, NoTemp, Made
<1> QED BY <1>5, <1>6, <1>7, <1>8 DEF Next, Program, Ended, Truth

(* The listing of a directory: the highest number of a path, if it has     *)
(* any.                                                                    *)
LEMMA Listed ==
    ASSUME NEW t \in Targets
    PROVE  /\ Highest(t) \in Numbers \cup {<<>>}
           /\ \A d \in Numbers : backup_split(d) /\ ~Free(dir, Numbered(t, d)) =>
                Highest(t) # <<>> /\ Value(d) <= Value(Highest(t))
<1> DEFINE taken == {d \in Numbers : backup_split(d) /\ ~Free(dir, Numbered(t, d))}
<1>1. taken \in SUBSET Seq(0..9) /\ <<>> \notin Numbers BY WorldAssumption
<1>2. IsFiniteSet(taken)
  <2>1. taken \in SUBSET Numbers OBVIOUS
  <2> HIDE DEF taken
  <2> QED BY <2>1, WorldAssumption, FS_Subset
<1>3. \A d \in taken : backup_split(d) OBVIOUS
<1>4. Highest(t) = IF taken = {} THEN <<>>
                   ELSE CHOOSE d \in taken : \A e \in taken : ~digits_less(d, e)
  BY DEF Highest
<1>5. CASE taken = {} BY <1>4, <1>5
<1>6. CASE taken # {}
  <2>1. Highest(t) \in taken /\ \A e \in taken : Value(e) <= Value(Highest(t))
    <3> HIDE DEF taken
    <3> QED BY <1>1, <1>2, <1>3, <1>4, <1>6, HighestOf
  <2> QED BY <1>1, <2>1
<1> QED BY <1>5, <1>6

(* The strings of digits stay what they are.                               *)
LEMMA NumStep ==
    ASSUME FlowInv, OpsInv, NumInv, FlowInv', [Next]_vars
    PROVE  NumInv'
<1> DEFINE Digs == {<<>>, <<1>>} \cup Numbers \cup {digits_inc(d) : d \in Numbers}
           Best == [Targets -> Numbers \cup {<<>>}]
<1>1. start' = start BY StartKept
<1>2. unflushed' \in BOOLEAN BY MarkBool DEF NumInv
<1>3. DOMAIN mem = MemFields /\ {"best", "num", "listed"} \subseteq MemFields
  BY DEF FlowInv, HeldInv, MemFields
<1>4. mem.num \in Digs /\ mem.best \in Best BY DEF NumInv
<1>5. backup_best \in Best
  <2>1. [t \in Targets |-> Highest(t)] \in Best BY Listed
  <2> QED BY <1>4, <2>1 DEF backup_best
<1>6. mem'.num \in Digs /\ mem'.best \in Best
  <2>1. CASE UNCHANGED <<mem.best, mem.num, mem.listed>> BY <1>4, <2>1
  <2>2. CASE NameBatch
    <3>1. mem'.num = mem.num /\ mem'.best = [t \in Targets |-> <<>>]
      BY <1>3, <2>2 DEF NameBatch
    <3> QED BY <1>4, <3>1
  <2>3. CASE backup_next
    <3>1. \/ mem' = mem
          \/ /\ mem'.best = backup_best
             /\ mem'.num = IF backup_best[Path] = <<>> THEN <<1>>
                           ELSE digits_inc(backup_best[Path])
      BY <1>3, <2>3 DEF backup_next
    <3>2. Path \in Targets BY <2>3, InHand DEF backup_next
    <3>3. backup_best[Path] \in Numbers \cup {<<>>} BY <1>5, <3>2
    <3> HIDE DEF backup_best
    <3> QED BY <1>4, <1>5, <3>1, <3>3
  <2>4. CASE backup_numbered
    <3>1. \/ mem' = mem
          \/ /\ mem.num \in Numbers /\ mem'.num = digits_inc(mem.num)
             /\ mem'.best = mem.best
      BY <1>3, <2>4 DEF backup_numbered
    <3> QED BY <1>4, <3>1
  <2>5. CASE backup_note
    <3>1. mem' = mem \/ mem' = [mem EXCEPT !.best[Path] = mem.num]
      BY <2>5 DEF backup_note
    <3>2. mem.num \in Numbers BY <2>5 DEF backup_note, NumInv, Noting
    <3>3. mem' = mem \/ (/\ mem'.best = [mem.best EXCEPT ![Path] = mem.num]
                         /\ mem'.num = mem.num)
      BY <1>3, <3>1
    <3> QED BY <1>4, <3>2, <3>3
  <2> QED BY <2>1, <2>2, <2>3, <2>4, <2>5, ListForms
<1>7. Noting' => mem'.num \in Numbers
  <2> SUFFICES ASSUME Noting' PROVE mem'.num \in Numbers OBVIOUS
  <2>1. \/ Numbering /\ mem' = mem /\ Noting
        \/ backup_numbered \/ backup_next
    BY NumberingFrom DEF Numbering
  <2>2. CASE Noting /\ mem' = mem BY <2>2 DEF NumInv
  <2>3. CASE backup_numbered
    <3>1. ctl.pc = "numbered" /\ mem.num \in Numbers /\ (mem' = mem \/ ctl' = ctl)
      BY <2>3 DEF backup_numbered
    <3> QED BY <3>1 DEF Noting
  <2>4. CASE backup_next
    <3>1. Goto("numbered") \/ Goto("simple") \/ Goto("fail") BY <2>4 DEF backup_next
    <3>2. ctl'.pc \in {"numbered", "simple", "fail"} BY <3>1, CallStep
    <3> QED BY <3>2 DEF Noting
  <2> QED BY <2>1, <2>2, <2>3, <2>4
<1> QED BY <1>1, <1>2, <1>6, <1>7 DEF NumInv

(* What another process puts at a name is its own.                         *)
LEMMA OtherMade ==
    ASSUME OpsInv, HistInv, OtherStep, NEW n \in Names, dir'[n] # dir[n], dir'[n] # None
    PROVE  dir'[n] \in Others
<1>2. dir \in [Names -> Inodes \cup {None}] BY DEF OpsInv, TypesInv
<1>3. PICK m \in OtherNames : OtherPut(m) \/ OtherUnlink(m) BY DEF OtherStep
<1>4. CASE OtherPut(m)
  <2>1. dir' = [dir EXCEPT ![m] = Other(hist.other + 1)] /\ hist.other < MaxOther
    BY <1>4 DEF OtherPut, SetDir, Bind, OtherMay
  <2>2. hist.other + 1 \in 1..MaxOther BY <2>1, WorldAssumption DEF HistInv, HistTypes
  <2>3. dir'[n] = Other(hist.other + 1) BY <1>2, <2>1
  <2> QED BY <2>2, <2>3 DEF Others
<1>5. CASE OtherUnlink(m)
  <2>1. dir' = [dir EXCEPT ![m] = None] BY <1>5 DEF OtherUnlink, SetDir, Bind
  <2> QED BY <1>2, <2>1
<1> QED BY <1>3, <1>4, <1>5

(* A path is only ever given a new file, or another process's.             *)
LEMMA HomeStep ==
    ASSUME FlowInv, OpsInv, HistInv, HomeInv, [Next]_vars
    PROVE  HomeInv'
<1> SUFFICES ASSUME NEW t \in Targets, dir'[t] # dir[t], dir'[t] # None
             PROVE  dir'[t] \in Ours \cup Others
  BY DEF HomeInv
<1>1. t \in Names /\ t \notin Temps /\ \A u \in Targets : t \notin Backups(u) BY Names0
<1>2. dir \in [Names -> Inodes \cup {None}] BY DEF OpsInv, TypesInv
<1>3. CASE OtherStep BY <1>1, <1>3, OtherMade
<1>4. ~Takes /\ ~Undoes BY <1>1, <1>2 DEF Takes, Undoes
<1>5. CASE Rebacks
  <2>1. Path \in Targets BY <1>5, InHand DEF Rebacks
  <2>2. Simple(Path) # t /\ fr.path # t BY <1>1, <1>5, <2>1 DEF Rebacks, Backups
  <2> QED BY <1>1, <1>2, <1>5, <2>2 DEF Rebacks
<1>6. CASE Gives \/ Shifts \/ Swaps
  <2>1. ctl.pc \in CallPc \ RemovePc BY <1>6 DEF Gives, Shifts, Swaps
  <2>2. Path \in Targets /\ Cur \in Ops BY <2>1, InHand
  <2>3. Shifts \/ Swaps => op[Cur].tmp \in Temps BY DEF Shifts, Swaps, Ready, Temporary
  <2>4. dir'[t] = New(Cur) BY <1>1, <1>2, <1>6, <2>2, <2>3 DEF Gives, Shifts, Swaps
  <2> QED BY <2>2, <2>4, Inodes0
<1>7. ASSUME NEW n, NEW x, Makes(n, x) PROVE dir'[t] \in Ours \cup Others
  <2>1. n = t /\ dir'[t] = x BY <1>1, <1>2, <1>7 DEF Makes
  <2>2. ctl.pc \in CallPc \ RemovePc BY <1>7 DEF Makes
  <2>3. Path \in Targets /\ Cur \in Ops BY <2>2, InHand
  <2>4. x \in {New(Cur), Hold(Cur)} BY <1>1, <1>7, <2>1, <2>3 DEF Makes
  <2> QED BY <2>1, <2>3, <2>4, Inodes0
<1> QED BY <1>3, <1>4, <1>5, <1>6, <1>7, DirForms


(* Only backup_numbered() gives a file the name of a numbered backup, and  *)
(* it is the number in hand.                                               *)
LEMMA NumberMade ==
    ASSUME FlowInv, OpsInv, [Next]_vars, ~OtherStep, NEW t \in Targets, NEW d \in Numbers,
           dir'[Numbered(t, d)] # dir[Numbered(t, d)], dir'[Numbered(t, d)] # None
    PROVE  /\ ctl.pc = "numbered" /\ t = Path /\ d = mem.num
           /\ dir'[Numbered(t, d)] = dir[Path]
<1> PICK b : b = Numbered(t, d) OBVIOUS
<1>0. b \in Backups(t) BY DEF Backups
<1>1. b \in Names /\ b \notin Targets \cup Temps BY <1>0, Names0
<1>2. dir \in [Names -> Inodes \cup {None}] BY DEF OpsInv, TypesInv
<1>3. ~Takes /\ ~Undoes BY <1>1, <1>2 DEF Takes, Undoes
<1>4. ~Gives /\ ~Shifts /\ ~Swaps
  <2>1. CASE Gives \/ Shifts \/ Swaps
    <3>1. ctl.pc \in CallPc \ RemovePc BY <2>1 DEF Gives, Shifts, Swaps
    <3>2. Path \in Targets BY <3>1, InHand
    <3>3. Shifts \/ Swaps => op[Cur].tmp \in Temps BY DEF Shifts, Swaps, Ready, Temporary
    <3> QED BY <1>1, <1>2, <2>1, <3>2, <3>3 DEF Gives, Shifts, Swaps
  <2> QED BY <2>1
<1>5. \A u : Simple(u) # b BY DEF Simple, Numbered
<1>6. ~Rebacks
  <2> SUFFICES ASSUME Rebacks PROVE FALSE OBVIOUS
  <2>1. Simple(Path) # b /\ fr.path # b BY <1>1, <1>5 DEF Rebacks
  <2> QED BY <1>1, <1>2, <2>1 DEF Rebacks
<1>7. PICK n, x : Makes(n, x) BY <1>3, <1>4, <1>6, DirForms
<1>8. n = b /\ x = dir'[b] BY <1>1, <1>2, <1>7 DEF Makes
<1>9. ctl.pc \in CallPc \ RemovePc /\ sig' = sig BY <1>7 DEF Makes
<1>10. Path \in Targets /\ Live BY <1>9, InHand
<1>11. ctl.pc \in {"numbered", "simple"} BY <1>1, <1>7, <1>8, <1>10 DEF Makes
<1>12. backup_numbered \/ backup_simple
  <2>1. Live' /\ ctl.loop = "name" BY <1>9, <1>10, <1>11 DEF Live, FlowInv, CtlInv
  <2>2. BackupStep
    <3>1. ~(RemoveLstat \/ RemoveUnlink \/ Arm \/ UndoOpen \/ CommitRename
            \/ CommitClear \/ CommitLink \/ CommitOver \/ OverRename \/ OverFailed)
      BY <1>11 DEF RemoveLstat, RemoveUnlink, Arm, UndoOpen, CommitRename, CommitClear,
                   CommitLink, CommitOver, OverRename, OverFailed
    <3>2. ~(ReplaceRename \/ Renamed \/ ExchangeNames \/ Exchanged \/ NameForce
            \/ NameUnnamed \/ NameTemp \/ NamePlain \/ FlushBackup
            \/ flush_set_add \/ op_fail \/ OpFailed)
      BY <1>11 DEF ReplaceRename, Renamed, ExchangeNames, Exchanged, NameForce,
                   NameUnnamed, NameTemp, NamePlain, FlushBackup, flush_set_add, op_fail,
                   OpFailed
    <3> QED BY <1>9, <2>1, <3>1, <3>2, NameActions
  <2>3. ~OutOfNumbers BY DEF OutOfNumbers
  <2> QED BY <1>11, <2>2, <2>3 DEF BackupStep, backup_none, backup_make, backup_next,
             backup_note, place_temp_alias, OverBackup
<1>13. ~backup_simple
  <2> SUFFICES ASSUME backup_simple PROVE FALSE OBVIOUS
  <2>1. dir' = dir \/ dir' = [dir EXCEPT ![Simple(Path)] = dir[Path]]
    BY DEF backup_simple, backup_link, Made, SetDir, Bind, NoLink
  <2> QED BY <1>1, <1>2, <1>5, <2>1
<1>14. /\ ctl.pc = "numbered"
       /\ dir' = dir \/ dir' = [dir EXCEPT ![Numbered(Path, mem.num)] = dir[Path]]
  BY <1>12, <1>13 DEF backup_numbered, backup_link, Made, SetDir, Bind, NoLink
<1>15. Numbered(Path, mem.num) = b /\ dir'[b] = dir[Path] BY <1>1, <1>2, <1>14
<1>16. t = Path /\ d = mem.num BY <1>15 DEF Numbered
<1> QED BY <1>14, <1>15, <1>16

(* A number in use was in use before.                                      *)
LEMMA InUseBefore ==
    ASSUME FlowInv, OpsInv, HistInv, StartInv, HomeInv, [Next]_vars, NEW t \in Targets,
           NEW d \in InUse(t)'
    PROVE  d \in InUse(t)
<1> PICK b : b = Numbered(t, d) OBVIOUS
<1>1. /\ start' = start /\ d \in Numbers /\ backup_split(d)
      /\ start[b] # None /\ dir'[b] = start[b]
  BY StartKept DEF InUse
<1>2. b \in Backups(t) BY <1>1 DEF Backups
<1>3. b \in Names /\ b \notin Targets BY <1>2, Names0
<1>4. start[b] = Old(b) BY <1>1, <1>3 DEF StartInv
<1>5. CASE dir'[b] # dir[b]
  <2>1. Old(b) \notin Ours \cup Others \cup {Old(u) : u \in Targets}
    BY <1>3, Inodes0 DEF Old, Ours, Others, Other, New, Hold, Probe
  <2>2. ~OtherStep BY <1>1, <1>3, <1>4, <1>5, <2>1, OtherMade
  <2>3. /\ ctl.pc = "numbered" /\ dir'[b] = dir[Path]
    BY <1>1, <1>5, <2>2, NumberMade
  <2>4. Path \in Targets BY <2>3, InHand
  <2> QED BY <1>1, <1>4, <2>1, <2>3, <2>4 DEF HomeInv
<1> QED BY <1>1, <1>5 DEF InUse

(* The order of a number and its successors.                               *)
LEMMA NextOrder ==
    \A x, y \in Nat : (x <= y => x < y + 1) /\ (x < y => x < y + 1) /\ (x < y => x <= y)
  OBVIOUS

(* Every number in use has a value.                                        *)
LEMMA NumberValues ==
    \A d \in Numbers : Value(d) \in Nat /\ Value(digits_inc(d)) = Value(d) + 1
                                         /\ d # <<>>
<1>1. Numbers \subseteq Seq(0..9) \ {<<>>} BY WorldAssumption
<1> QED BY <1>1, ValueNat, NextNumber

(* The listing and the number in hand stay above the numbers in use.       *)
LEMMA RankStep ==
    ASSUME FlowInv, OpsInv, HistInv, StartInv, HomeInv, NumInv, RankInv, FlowInv',
           [Next]_vars
    PROVE  RankInv'
<1> SUFFICES ASSUME kern.list PROVE RankInv' BY StartKept DEF RankInv
<1>1. \A t \in Targets : InUse(t)' \subseteq InUse(t) BY InUseBefore
<1>2. \A t : InUse(t) \subseteq Numbers BY DEF InUse
<1>3. DOMAIN mem = MemFields /\ {"best", "num", "listed"} \subseteq MemFields
  BY DEF FlowInv, HeldInv, MemFields
<1>4. mem.best \in [Targets -> Numbers \cup {<<>>}] BY DEF NumInv
<1>5. mem.listed => \A t \in Targets : \A e \in InUse(t) :
         mem.best[t] # <<>> /\ Value(e) <= Value(mem.best[t])
  BY DEF RankInv
<1>6. Numbering => \A e \in InUse(Path) : Value(e) < Value(mem.num) BY DEF RankInv
<1>7. ASSUME mem'.listed, NEW t \in Targets, NEW e \in InUse(t)'
      PROVE  mem'.best[t] # <<>> /\ Value(e) <= Value(mem'.best[t])
  <2>1. e \in InUse(t) /\ e \in Numbers BY <1>1, <1>2, <1>7
  <2>2. mem.listed => mem.best[t] # <<>> /\ Value(e) <= Value(mem.best[t])
    BY <1>5, <2>1
  <2>3. CASE UNCHANGED <<mem.best, mem.num, mem.listed>> BY <1>7, <2>2, <2>3
  <2>4. ~NameBatch BY <1>3, <1>7 DEF NameBatch
  <2>5. CASE backup_next
    <3>1. mem' = mem \/ mem'.best = backup_best BY <1>3, <2>5 DEF backup_next
    <3>2. ~mem.listed => Highest(t) # <<>> /\ Value(e) <= Value(Highest(t))
      <4>1. backup_split(e) /\ ~Free(dir, Numbered(t, e)) BY <2>1 DEF InUse, Free
      <4> QED BY <2>1, <4>1, Listed
    <3>3. backup_best[t] = IF mem.listed THEN mem.best[t] ELSE Highest(t)
      BY DEF backup_best
    <3> QED BY <1>7, <2>2, <3>1, <3>2, <3>3
  <2>6. CASE backup_numbered
    <3>1. mem'.listed = mem.listed /\ mem'.best = mem.best
      BY <1>3, <2>6 DEF backup_numbered
    <3> QED BY <1>7, <2>2, <3>1
  <2>7. CASE backup_note
    <3>1. mem' = mem \/ mem' = [mem EXCEPT !.best[Path] = mem.num]
      BY <2>7 DEF backup_note
    <3>2. /\ mem'.listed = mem.listed
          /\ mem'.best = mem.best \/ mem'.best = [mem.best EXCEPT ![Path] = mem.num]
      BY <1>3, <3>1
    <3>3. CASE mem'.best[t] = mem.best[t] BY <1>7, <2>2, <3>2, <3>3
    <3>4. CASE mem'.best[t] # mem.best[t]
      <4>1. t = Path /\ mem'.best[t] = mem.num BY <1>4, <3>2, <3>4
      <4>2. Noting BY <2>7 DEF backup_note, Noting
      <4>3. mem.num \in Numbers BY <4>2 DEF NumInv
      <4>4. Value(e) < Value(mem.num) BY <1>6, <2>1, <4>1, <4>2 DEF Numbering
      <4> QED BY <2>1, <4>1, <4>3, <4>4, NumberValues, NextOrder
    <3> QED BY <3>3, <3>4
  <2> QED BY <2>3, <2>4, <2>5, <2>6, <2>7, ListForms
<1>8. ASSUME Numbering', NEW e \in InUse(Path)'
      PROVE  Value(e) < Value(mem'.num)
  <2>1. ctl'.cur = ctl.cur BY <1>8, NumberingFrom
  <2>2. Path' = Path BY <2>1 DEF Path
  <2>3. ctl.pc \in CallPc \ RemovePc
    BY <1>8, NumberingFrom DEF Numbering, Noting, backup_numbered, backup_next
  <2>4. Path \in Targets BY <2>3, InHand
  <2>5. e \in InUse(Path) /\ e \in Numbers /\ e \in InUse(Path)'
    BY <1>1, <1>2, <1>8, <2>2, <2>4
  <2>6. CASE Numbering /\ mem' = mem BY <1>6, <2>5, <2>6
  <2>7. CASE backup_numbered
    <3>1. /\ Numbering /\ mem.num \in Numbers
          /\ mem'.num = mem.num \/ mem'.num = digits_inc(mem.num)
      BY <1>3, <2>7 DEF backup_numbered, Numbering
    <3>2. Value(e) < Value(mem.num) BY <1>6, <2>5, <3>1
    <3> QED BY <2>5, <3>1, <3>2, NumberValues, NextOrder
  <2>8. CASE backup_next
    <3>1. \/ Goto("fail")
          \/ /\ mem'.best = backup_best /\ mem'.listed = kern.list
             /\ mem'.num = IF backup_best[Path] = <<>> THEN <<1>>
                           ELSE digits_inc(backup_best[Path])
      BY <1>3, <2>8 DEF backup_next
    <3>2. ~Goto("fail")
      <4> SUFFICES ASSUME Goto("fail") PROVE FALSE OBVIOUS
      <4>1. ctl'.pc = "fail" BY CallStep
      <4> QED BY <1>8, <4>1 DEF Numbering, Noting
    <3> PICK h : h = mem'.best[Path] OBVIOUS
    <3>3. h # <<>> /\ Value(e) <= Value(h)
      <4>1. mem'.listed BY <3>1, <3>2
      <4>2. e \in InUse(Path)' BY <2>5
      <4>3. \A t \in Targets : t = Path => e \in InUse(t)' BY <1>8, <2>2
      <4> QED BY <1>7, <2>4, <4>1, <4>3
    <3>4. mem'.num = digits_inc(h) BY <3>1, <3>2, <3>3
    <3>5. h \in Numbers
      <4>1. h \in Numbers \cup {<<>>}
        <5>1. \A t \in Targets : Highest(t) \in Numbers \cup {<<>>} BY Listed
        <5>2. h = backup_best[Path] BY <3>1, <3>2
        <5> QED BY <1>4, <2>4, <5>1, <5>2 DEF backup_best
      <4> QED BY <3>3, <4>1
    <3> QED BY <2>5, <3>3, <3>4, <3>5, NumberValues, NextOrder
  <2> QED BY <1>8, <2>6, <2>7, <2>8, NumberingFrom
<1> QED BY <1>7, <1>8 DEF RankInv


(* A backup that a step gives a number is above those in use.              *)
LEMMA AboveStep ==
    ASSUME FlowInv, OpsInv, HistInv, StartInv, HomeInv, RankInv, BackupAbove, [Next]_vars
    PROVE  BackupAbove'
<1> SUFFICES ASSUME kern.list, NEW t \in Targets, NEW d \in Numbers, NEW e \in InUse(t)',
                    start'[Numbered(t, d)] = None,
                    dir'[Numbered(t, d)] \in Ours \cup {Old(t)}
             PROVE  Value(e) < Value(d)
  BY StartKept DEF BackupAbove, InUse
<1>1. start' = start /\ e \in InUse(t) BY StartKept, InUseBefore
<1>2. CASE dir'[Numbered(t, d)] = dir[Numbered(t, d)]
  BY <1>1, <1>2 DEF BackupAbove, InUse
<1>3. CASE dir'[Numbered(t, d)] # dir[Numbered(t, d)]
  <2> PICK b : b = Numbered(t, d) OBVIOUS
  <2>1. b \in Backups(t) BY DEF Backups
  <2>2. b \in Names /\ t \in Names BY <2>1, Names0
  <2>3. dir'[b] # None /\ dir'[b] \notin Others
    BY <2>2, Inodes0 DEF Old, Others, Other, Inodes, Foreign
  <2>4. ~OtherStep BY <1>3, <2>2, <2>3, OtherMade
  <2>5. ctl.pc = "numbered" /\ t = Path /\ d = mem.num BY <1>3, <2>3, <2>4, NumberMade
  <2> QED BY <1>1, <2>5 DEF RankInv, Numbering
<1> QED BY <1>2, <1>3

(* The numbers are strings of digits, and those this run uses are above    *)
(* the ones in use.                                                        *)
NumbersInv == NumInv /\ HomeInv /\ RankInv /\ BackupAbove

(* It holds all along.                                                     *)
LEMMA NumbersAlways == Spec => []NumbersInv
<1>1. Init => NumbersInv
  <2> SUFFICES ASSUME Init PROVE NumbersInv OBVIOUS
  <2>1. PICK s \in StartSets : start = [n \in Names |-> IF n \in s THEN Old(n) ELSE None]
    BY DEF Init
  <2>2. dir = start /\ unflushed = FALSE /\ ctl.pc = "batch" BY DEF Init
  <2>3. \A n \in Names : Old(n) \in Inodes BY Inodes0 DEF Foreign
  <2>4. start \in [Names -> Inodes \cup {None}] BY <2>1, <2>3
  <2>5. mem.num = <<>> /\ mem.best = [t \in Targets |-> <<>>] /\ ~mem.listed BY DEF Init
  <2>6. ~Noting /\ ~Numbering BY <2>2 DEF Noting, Numbering
  <2>7. NumInv
    <3>1. mem.best \in [Targets -> Numbers \cup {<<>>}] BY <2>5
    <3>2. mem.num \in {<<>>, <<1>>} BY <2>5
    <3> QED BY <2>2, <2>4, <2>6, <3>1, <3>2 DEF NumInv
  <2>8. HomeInv BY <2>1, <2>2, Names0 DEF HomeInv
  <2>9. RankInv BY <2>5, <2>6 DEF RankInv
  <2>10. BackupAbove
    <3> SUFFICES ASSUME NEW t \in Targets, NEW d \in Numbers,
                        start[Numbered(t, d)] = None,
                        dir[Numbered(t, d)] \in Ours \cup {Old(t)}
                 PROVE  FALSE
      BY DEF BackupAbove
    <3> QED BY <2>2, Names0, Inodes0 DEF Inodes, Foreign
  <2> QED BY <2>7, <2>8, <2>9, <2>10 DEF NumbersInv
<1>2. LeaveInv /\ PathsInv /\ NumbersInv /\ LeaveInv' /\ [Next]_vars => NumbersInv'
  <2> SUFFICES ASSUME LeaveInv, PathsInv, NumbersInv, LeaveInv', [Next]_vars
               PROVE  NumbersInv'
    OBVIOUS
  <2>1. /\ FlowInv /\ OpsInv /\ HistInv /\ StartInv /\ FlowInv'
        /\ NumInv /\ HomeInv /\ RankInv /\ BackupAbove
    BY DEF LeaveInv, PathsInv, NumbersInv, BaseInv, SafeInv
  <2>2. NumInv' BY <2>1, NumStep
  <2>3. HomeInv' BY <2>1, HomeStep
  <2>4. RankInv' BY <2>1, RankStep
  <2>5. BackupAbove' BY <2>1, AboveStep
  <2> QED BY <2>2, <2>3, <2>4, <2>5 DEF NumbersInv
<1> QED BY <1>1, <1>2, LeaveAlways, PathsAlways, PTL DEF Spec

(* Where the directory can be listed, a numbered backup this run makes is  *)
(* above every number that was in use before and still is, however many    *)
(* digits carry and whoever else takes numbers in between: digits_inc(),   *)
(* digits_cmp(), the listing once a batch and backup_note().               *)
THEOREM AboveTheorem == Spec => []BackupAbove
<1>1. NumbersInv => BackupAbove BY DEF NumbersInv
<1> QED BY <1>1, NumbersAlways, PTL

(* Every variable has its type: what batch.c, place.c and backup.c keep    *)
(* stays within what they expect, the number in hand included.             *)
THEOREM TypeTheorem == Spec => []TypeOK
<1>1. LeaveInv /\ NumbersInv => TypeOK
  <2> SUFFICES ASSUME LeaveInv, NumbersInv PROVE TypeOK OBVIOUS
  <2>1. FlowInv /\ OpsInv /\ HistInv /\ NumInv
    BY DEF LeaveInv, NumbersInv, BaseInv, SafeInv
  <2>2. held \in 0..2 /\ sig \in {"none", "pending", "caught"}
    BY <2>1 DEF FlowInv, HeldInv
  <2>3. TypesInv /\ kern \in Kernels /\ spec \in Specs BY <2>1 DEF FlowInv, OpsInv
  <2> QED BY <2>1, <2>2, <2>3
          DEF TypeOK, TypesInv, NumInv, HistInv, OpType, FileType, SlotType
<1> QED BY <1>1, LeaveAlways, NumbersAlways, PTL

-----------------------------------------------------------------------------
(* What was given up stays given up.                                       *)
LEMMA ForgoneGrows ==
    ASSUME FlowInv, HistInv, [Next]_vars
    PROVE  hist.forgone \subseteq hist'.forgone
<1> DEFINE Same == hist'.forgone = hist.forgone
<1> USE DEF HistInv, HistTypes, Fault, FaultAt, NoTemp, NoLink
<1>1. PendingStep => Same
  BY DEF PendingStep, RemoveLstat, RemoveUnlink, SignalTaken, HandlerStep
<1>2. PlaceStep => Same
  BY DEF PlaceStep, Arm, UndoOpen, ProbeDone, CommitRename, CommitClear, CommitLink,
         CommitOver, OverRename, OverFailed, ReplaceRename, Renamed, ExchangeNames,
         Exchanged
<1>3. BackupStep => Same \/ OverBackup
  BY DEF BackupStep, backup_none, backup_make, backup_next, backup_numbered,
         OutOfNumbers, backup_note, backup_simple, place_temp_alias
<1>4. OverBackup => hist.forgone \subseteq hist'.forgone BY DEF OverBackup
<1>5. BatchStep => Same
  BY DEF BatchStep, batch_run, build_one, place_probe_mode, open_built, FinishPrivate,
         FinishLink, fill_one, FinishOwner, FinishMode, FlushClose, close_op, NameBatch,
         NameForce, NameUnnamed, NameTemp, NamePlain, FlushBackup, SettleClose,
         SettleOne, Tidied, op_fail, OpFailed, flush_set_run, Dropped, DropRelease,
         report_one, flush_batch, settle_batch, flush_set_add, flush_ops, drop_spares
<1>6. OtherStep => hist.forgone \subseteq hist'.forgone
  BY DEF OtherStep, OtherPut, OtherUnlink
<1>7. Signal \/ UNCHANGED vars => Same BY DEF Signal, vars
<1> QED BY <1>1, <1>2, <1>3, <1>4, <1>5, <1>6, <1>7 DEF Next, Program, Ended

(* What another process takes a name from is given up.                     *)
LEMMA OtherForgone ==
    ASSUME OpsInv, HistInv, OtherStep, NEW n \in Names, dir'[n] # dir[n]
    PROVE  dir[n] \in hist'.forgone
<1>1. PICK m \in OtherNames : OtherPut(m) \/ OtherUnlink(m) BY DEF OtherStep
<1>2. dir \in [Names -> Inodes \cup {None}] BY DEF OpsInv, TypesInv
<1>3. hist'.forgone = hist.forgone \cup {dir[m]}
  BY <1>1 DEF OtherPut, OtherUnlink, HistInv, HistTypes
<1>4. n = m BY <1>1, <1>2 DEF OtherPut, OtherUnlink, SetDir, Bind
<1> QED BY <1>3, <1>4

(* With -f a backup goes only if it is removed or given up.                *)
LEMMA BackupStays ==
    ASSUME FlowInv, OpsInv, HistInv, [Next]_vars, spec.force,
           NEW t \in Targets, NEW m \in Backups(t), dir[m] # None,
           ~(Takes /\ fr.path = m)
    PROVE  dir'[m] = dir[m] \/ dir[m] \in hist'.forgone
<1> SUFFICES ASSUME dir'[m] # dir[m] PROVE dir[m] \in hist'.forgone OBVIOUS
<1>1. m \in Names /\ m \notin Targets \cup Temps BY Names0
<1>2. dir \in [Names -> Inodes \cup {None}] BY DEF OpsInv, TypesInv
<1>3. CASE OtherStep BY <1>1, <1>3, OtherForgone
<1>4. ~Takes BY <1>1, <1>2 DEF Takes
<1>5. ~Undoes
  <2> SUFFICES ASSUME Undoes PROVE FALSE OBVIOUS
  <2>1. m = fr.path BY <1>1, <1>2 DEF Undoes
  <2> QED BY <1>1, <2>1, OpenedAt DEF Undoes
<1>6. ~Gives /\ ~Shifts /\ ~Swaps
  <2>1. CASE Gives \/ Shifts \/ Swaps
    <3>1. ctl.pc \in CallPc \ RemovePc BY <2>1 DEF Gives, Shifts, Swaps
    <3>2. Path \in Targets BY <3>1, InHand
    <3>3. Shifts \/ Swaps => op[Cur].tmp \in Temps BY DEF Shifts, Swaps, Ready, Temporary
    <3> QED BY <1>1, <1>2, <2>1, <3>2, <3>3 DEF Gives, Shifts, Swaps
  <2> QED BY <2>1
<1>7. ASSUME NEW n, NEW x, Makes(n, x) PROVE FALSE
  <2>1. n = m BY <1>1, <1>2, <1>7 DEF Makes
  <2> QED BY <1>7, <2>1 DEF Makes, Free
<1>8. CASE Rebacks
  <2>1. fr.path \in Temps /\ Path \in Targets BY <1>8, InHand DEF Rebacks
  <2>2. Simple(Path) \in Names /\ Simple(Path) = m
    <3>1. Simple(Path) \in Names BY <2>1, Names0 DEF Backups
    <3> QED BY <1>1, <1>2, <1>8, <2>1, <3>1 DEF Rebacks
  <2>3. dir' # dir /\ dir[fr.path] # dir[Simple(Path)] /\ OverBackup
    BY <1>2, <1>8, <2>2 DEF Rebacks
  <2>4. hist' = [hist EXCEPT !.forgone = @ \cup {dir[Simple(Path)]}]
    BY <2>3 DEF OverBackup
  <2> QED BY <2>2, <2>4 DEF HistInv, HistTypes
<1> QED BY <1>3, <1>4, <1>5, <1>6, <1>7, <1>8, DirForms

(* What the program does while the old file is backed up.                  *)
LEMMA OldActions ==
    ASSUME FlowInv, [Next]_vars, AtOld, ctl.loop = "name", Live'
    PROVE  \/ UNCHANGED <<ctl, fr, op, pending, mem, file>> /\ (dir' = dir \/ OtherStep)
           \/ RemoveLstat \/ RemoveUnlink \/ Arm \/ UndoOpen \/ ExchangeNames
           \/ FlushBackup \/ BackupStep
<1>1. ctl.pc \in OldPc /\ ctl.pc \in CallPc BY DEF AtOld, OldPc
<1>2. ~(\/ CommitRename \/ CommitClear \/ CommitLink \/ CommitOver \/ OverRename
        \/ OverFailed \/ ReplaceRename \/ Renamed \/ Exchanged)
  BY <1>1 DEF CommitRename, CommitClear, CommitLink, CommitOver, OverRename,
              OverFailed, ReplaceRename, Renamed, Exchanged, OldPc
<1>3. ~(\/ NameForce \/ NameUnnamed \/ NameTemp \/ NamePlain \/ flush_set_add \/ op_fail
        \/ OpFailed)
  BY <1>1 DEF NameForce, NameUnnamed, NameTemp, NamePlain, flush_set_add, op_fail,
              OpFailed, OldPc
<1> QED BY <1>1, <1>2, <1>3, NameActions

(* backup_link() has made the backup, or the alias has become one.         *)
Links  == /\ AtOld /\ ctl'.pc = "made" /\ fr'.path \in Backups(Path)
          /\ Free(dir, fr'.path) /\ dir' = [dir EXCEPT ![fr'.path] = dir[Path]]
Renews == /\ ctl.pc = "overbackup" /\ ctl'.pc # "made"
          /\ dir' = Rename(dir, fr.path, Simple(Path))

(* How the program comes to have a backup of the old file.                 *)
LEMMA BackedFrom ==
    ASSUME FlowInv, OpsInv, HeldAt, [Next]_vars, FlowInv', AtBacked'
    PROVE  /\ ctl'.cur = ctl.cur /\ mem'.old = mem.old /\ Live
           /\ \/ AtBacked /\ (ctl'.pc = "made" => UNCHANGED <<ctl, fr, pending>>)
              \/ Links \/ Renews
<1>1. CASE ctl'.pc = "exchanged"
  <2>1. CASE UNCHANGED <<ctl, fr, op, pending, mem, file>>
    BY <1>1, <2>1, InHand DEF AtBacked
  <2>2. CASE Swaps
    BY <1>1, <2>2, InHand DEF AtBacked, Swaps
  <2> QED BY <1>1, <2>1, <2>2, LeavesTmp
<1>2. CASE ctl'.pc # "exchanged"
  <2>1. AtOld' BY <1>2 DEF AtBacked, AtOld
  <2>2. ctl'.cur = ctl.cur /\ ctl.pc \in CallPc /\ Live BY <2>1, OldFrom
  <2>3. ASSUME NEW p \in CallPc \ {"note", "backed", "exchanged", "made", "lstat", "unlink"},
               Goto(p)
        PROVE  FALSE
    BY <2>3, CallStep DEF AtBacked
  <2>4. ~backup_make
    BY <2>3 DEF backup_make
  <2>5. AtOld /\ mem'.old = mem.old BY <2>1, <2>4, OldFrom
  <2>6. ctl.loop = "name"
    BY <2>5 DEF AtOld, FlowInv, CtlInv, CallFrame, FrMade, FrRemove
  <2>7. ASSUME NEW s, NEW note, pending_remove(s, note, "fail") PROVE FALSE
    <3>1. ctl'.pc = "fail" \/ (ctl'.pc = "lstat" /\ fr'.then = "fail")
      BY <2>7, RemoveGoes
    <3> QED BY <3>1 DEF AtBacked
  <2>8. CASE UNCHANGED <<ctl, fr, op, pending, mem, file>>
    BY <2>2, <2>8 DEF AtBacked
  <2>9. CASE RemoveLstat \/ RemoveUnlink
    <3>1. ctl.pc \in RemovePc /\ (Goto("unlink") \/ Goto(fr.then))
      BY <2>9 DEF RemoveLstat, RemoveUnlink, RemoveDone
    <3>2. fr.then = "backed" BY <2>5, <3>1 DEF AtOld
    <3>3. ctl'.pc # "made" BY <3>1, <3>2, CallStep
    <3> QED BY <2>2, <2>5, <3>1, <3>2, <3>3 DEF AtBacked
  <2>10. CASE Arm
    <3>1. ctl.pc = "made" /\ FrMade /\ Goto(fr.then) /\ fr' = fr
      BY <2>10 DEF Arm, FlowInv, CallFrame
    <3>2. fr.what \in {"alias", "backup"} BY <2>5, <3>1 DEF AtOld
    <3>3. fr.what # "alias"
      BY <2>3, <3>1, <3>2 DEF FrMade
    <3>4. fr.then \in {"note", "backed"} BY <3>1, <3>2, <3>3 DEF FrMade
    <3>5. ctl'.pc # "made" BY <3>1, <3>4, CallStep
    <3> QED BY <2>2, <2>5, <3>1, <3>2, <3>3, <3>5 DEF AtBacked
  <2>11. ~UndoOpen BY <2>3 DEF UndoOpen
  <2>12. ~ExchangeNames /\ ~FlushBackup
    <3>1. ExchangeNames => Goto("exchanged") \/ pending_remove(BackupSlot, FALSE, "fail")
      BY DEF ExchangeNames
    <3>2. Goto("exchanged") => ctl'.pc = "exchanged" BY CallStep
    <3>3. FlushBackup => Goto("rename") \/ pending_remove(BackupSlot, FALSE, "fail")
      BY DEF FlushBackup
    <3>4. \A s : ~pending_remove(s, FALSE, "fail") BY <2>7
    <3> QED BY <1>2, <2>3, <3>1, <3>2, <3>3, <3>4
  <2>13. CASE BackupStep
    <3>1. ~backup_none /\ ~backup_next /\ ~OutOfNumbers
      BY <2>3 DEF backup_none, backup_next, OutOfNumbers
    <3>2. CASE backup_note
      <4>1. ctl.pc = "note" /\ Goto("backed") BY <3>2 DEF backup_note
      <4>2. ctl'.pc = "backed" BY <4>1, CallStep
      <4> QED BY <2>2, <2>5, <4>1, <4>2 DEF AtBacked
    <3>3. ASSUME NEW n \in Backups(Path), NEW then, backup_link(n, then) PROVE Links
      <4>1. /\ Free(dir, n) /\ dir' = [dir EXCEPT ![n] = dir[Path]] /\ fr'.path = n
            /\ Goto("made")
        BY <3>3 DEF backup_link, Made, SetDir, Bind
      <4>2. ctl'.pc = "made" BY <4>1, CallStep
      <4> QED BY <2>5, <4>1, <4>2 DEF Links
    <3>4. CASE backup_numbered
      <4>1. ~NoLink BY <2>3 DEF NoLink
      <4>2. ctl.pc = "numbered" /\ mem.num \in Numbers BY <3>4 DEF backup_numbered
      <4>3. ctl' # ctl BY <4>2 DEF AtBacked
      <4>4. backup_link(Numbered(Path, mem.num), "note")
        BY <3>4, <4>1, <4>3 DEF backup_numbered
      <4>5. Numbered(Path, mem.num) \in Backups(Path) BY <4>2 DEF Backups
      <4> QED BY <2>2, <2>5, <3>3, <4>4, <4>5
    <3>5. CASE backup_simple
      <4>1. ~NoLink BY <2>3 DEF NoLink
      <4>2. backup_link(Simple(Path), "backed") BY <2>3, <3>5, <4>1 DEF backup_simple
      <4>3. Simple(Path) \in Backups(Path) BY DEF Backups
      <4> QED BY <2>2, <2>5, <3>3, <4>2, <4>3
    <3>6. ~place_temp_alias
      <4> SUFFICES ASSUME place_temp_alias PROVE FALSE OBVIOUS
      <4>1. Goto("fail") \/ (Goto("made") /\ fr'.what = "alias")
        BY DEF place_temp_alias, temp_make, Made, NoTemp
      <4>2. Goto("made") => ctl'.pc = "made" BY CallStep
      <4> QED BY <2>3, <4>1, <4>2 DEF AtBacked
    <3>7. CASE OverBackup
      <4>1. \A s : ~pending_remove(s, FALSE, "fail") BY <2>7
      <4>2. /\ ctl.pc = "overbackup" /\ dir' = Rename(dir, fr.path, Simple(Path))
            /\ pending_remove(BackupSlot, TRUE, "backed")
        BY <3>7, <4>1 DEF OverBackup, SetDir
      <4>3. Goto("lstat") \/ Goto("backed") BY <4>2 DEF pending_remove
      <4>4. ctl'.pc # "made" BY <4>3, CallStep
      <4> QED BY <2>2, <2>5, <4>2, <4>4 DEF Renews
    <3> QED BY <2>4, <2>13, <3>1, <3>2, <3>4, <3>5, <3>6, <3>7 DEF BackupStep
  <2> QED BY <2>1, <2>5, <2>6, <2>8, <2>9, <2>10, <2>11, <2>12, <2>13, OldActions
          DEF AtOld
<1> QED BY <1>1, <1>2

(* How a slot of pending[] changes: it is cleared, or armed with the name  *)
(* just made, or turned to the old file.                                   *)
LEMMA SlotForms ==
    ASSUME FlowInv, OpsInv, [Next]_vars, NEW s \in Slots
    PROVE  \/ pending'[s] = pending[s]
           \/ ~Armed(s)'
           \/ /\ Arm /\ fr.what # "over" /\ fr.slot = s
              /\ pending'[s] = [path |-> fr.path, ino |-> fr.ino]
           \/ /\ Exchanged /\ s = Slot(Cur) /\ s # BackupSlot
              /\ pending'[s].path = pending[s].path /\ pending'[s].ino = mem.old
<1>1. pending \in [Slots -> SlotType] BY DEF OpsInv, TypesInv
<1>2. ASSUME NEW u, pending' = pending_clear(pending, u)
      PROVE  pending'[s] = pending[s] \/ ~Armed(s)'
  BY <1>1, <1>2 DEF pending_clear, Armed, SlotType
<1>3. CASE RemoveLstat \/ RemoveUnlink
  BY <1>2, <1>3 DEF RemoveLstat, RemoveUnlink, RemoveDone
<1>4. CASE Arm
  <2>1. CASE fr.what = "over" BY <1>4, <2>1 DEF Arm
  <2>2. CASE fr.what # "over"
    <3>1. pending' = [pending EXCEPT ![fr.slot] = [path |-> fr.path, ino |-> fr.ino]]
      BY <1>4, <2>2 DEF Arm
    <3> QED BY <1>1, <1>4, <2>2, <3>1
  <2> QED BY <2>1, <2>2
<1>5. CASE CommitClear \/ NamePlain \/ drop_spares
  BY <1>2, <1>5 DEF CommitClear, NamePlain, drop_spares
<1>6. CASE Renamed
  <2>1. CASE spec.force
    <3>1. pending' = pending_clear(pending_clear(pending, Slot(Cur)), BackupSlot)
      BY <1>6, <2>1 DEF Renamed
    <3> QED BY <1>1, <3>1 DEF pending_clear, Armed, SlotType
  <2>2. CASE ~spec.force BY <1>2, <1>6, <2>2 DEF Renamed
  <2> QED BY <2>1, <2>2
<1>7. CASE Exchanged
  <2>1. pending' = pending_clear([pending EXCEPT ![Slot(Cur)].ino = mem.old], BackupSlot)
    BY <1>7 DEF Exchanged
  <2>2. CASE s = BackupSlot BY <1>1, <2>1, <2>2 DEF pending_clear, Armed, SlotType
  <2>3. CASE s # BackupSlot
    <3>1. pending'[s] = [pending EXCEPT ![Slot(Cur)].ino = mem.old][s]
      BY <1>1, <2>1, <2>3 DEF pending_clear
    <3>2. CASE s = Slot(Cur) BY <1>1, <1>7, <2>3, <3>1, <3>2 DEF SlotType
    <3>3. CASE s # Slot(Cur) BY <1>1, <3>1, <3>3
    <3> QED BY <3>2, <3>3
  <2> QED BY <2>2, <2>3
<1> QED BY <1>3, <1>4, <1>5, <1>6, <1>7, PendForms

(* A name of a backup just made is one for the old file.                   *)
LEMMA MadeBackup ==
    FlowInv /\ OpsInv /\ ctl.pc = "made" =>
        Live /\ (\A t \in Targets : fr.path \in Backups(t) => fr.what = "backup")
<1> SUFFICES ASSUME FlowInv, OpsInv, ctl.pc = "made", NEW t \in Targets
             PROVE  Live /\ (fr.path \in Backups(t) => fr.what = "backup")
  BY InHand
<1>1. Live /\ CallInv(Cur) /\ Path \in Targets BY InHand
<1>2. MadeInv(Cur) BY <1>1 DEF CallInv
<1>3. Backups(t) \cap (Targets \cup Temps) = {} BY Names0
<1> QED BY <1>1, <1>2, <1>3 DEF MadeInv

(* The same after a step.                                                  *)
LEMMA MadeBackupNext ==
    (FlowInv /\ OpsInv /\ ctl.pc = "made" =>
        Live /\ (\A t \in Targets : fr.path \in Backups(t) => fr.what = "backup"))'
  BY MadeBackup, PTL

(* A backup that nobody is to remove stays so.                             *)
LEMMA UnguardedKept ==
    ASSUME FlowInv, OpsInv, HeldAt, [Next]_vars, FlowInv', OpsInv',
           NEW t \in Targets, NEW m \in Backups(t), dir[m] # None, Unguarded(m)
    PROVE  Unguarded(m)'
<1>1. ASSUME ctl'.pc = "made", fr'.path = m PROVE FALSE
  <2>1. AtBacked' BY <1>1, MadeBackupNext DEF AtBacked
  <2>2. CASE UNCHANGED <<ctl, fr, pending>> BY <1>1, <2>2 DEF Unguarded
  <2>3. CASE Links BY <1>1, <2>3 DEF Links, Free
  <2>4. CASE Renews BY <1>1, <2>4 DEF Renews
  <2> QED BY <1>1, <2>1, <2>2, <2>3, <2>4, BackedFrom
<1>2. ASSUME Armed(BackupSlot)', pending'[BackupSlot].path = m PROVE FALSE
  <2>1. BackupSlot \in Slots BY Slots0 DEF FlowInv
  <2>2. CASE pending'[BackupSlot] = pending[BackupSlot]
    BY <1>2, <2>2 DEF Unguarded, Armed
  <2>3. CASE Arm /\ pending'[BackupSlot] = [path |-> fr.path, ino |-> fr.ino]
    BY <1>2, <2>3 DEF Unguarded, Arm
  <2>4. \/ pending'[BackupSlot] = pending[BackupSlot]
        \/ Arm /\ pending'[BackupSlot] = [path |-> fr.path, ino |-> fr.ino]
    <3> PICK s : s = BackupSlot OBVIOUS
    <3> QED BY <1>2, <2>1, SlotForms DEF Armed
  <2> QED BY <2>2, <2>3, <2>4
<1> QED BY <1>1, <1>2 DEF Unguarded, Armed

(* Slots other than PENDING_BACKUP guard temporary names.                  *)
SlotTemps == \A s \in Slots \ {BackupSlot} : Armed(s) => pending[s].path \in Temps

(* A file that has a backup to stay keeps it.                              *)
LEMMA SavedKept ==
    ASSUME FlowInv, OpsInv, HistInv, HeldAt, SlotTemps, spec.force, [Next]_vars,
           FlowInv', OpsInv', NEW x \in Inodes, Saved(x)
    PROVE  Saved(x)'
<1>1. CASE x \in hist.forgone BY <1>1, ForgoneGrows DEF Saved
<1>2. CASE x \notin hist.forgone
  <2>0. PICK t \in Targets : \E m \in Backups(t) : dir[m] = x /\ Unguarded(m)
    BY <1>2 DEF Saved
  <2>1. PICK m \in Backups(t) : dir[m] = x /\ Unguarded(m) BY <2>0
  <2>2. m \notin Temps /\ x # None BY Names0, Inodes0
  <2>3. ~(Takes /\ fr.path = m)
    <3> SUFFICES ASSUME Takes, fr.path = m PROVE FALSE OBVIOUS
    <3>1. ctl.pc = "unlink" BY DEF Takes, RemoveUnlink
    <3>2. fr.slot \in Slots /\ Armed(fr.slot) /\ pending[fr.slot].path = m
      BY <3>1, RemoveSlot DEF Guards
    <3>3. fr.slot = BackupSlot BY <2>2, <3>2 DEF SlotTemps
    <3> QED BY <2>1, <3>2, <3>3 DEF Unguarded
  <2>4. dir'[m] = x \/ x \in hist'.forgone BY <2>1, <2>2, <2>3, BackupStays
  <2>5. Unguarded(m)' BY <2>1, <2>2, UnguardedKept
  <2> QED BY <2>1, <2>4, <2>5 DEF Saved
<1> QED BY <1>1, <1>2

(* With -f only the final rename or exchange changes a path.               *)
LEMMA PathMoves ==
    ASSUME FlowInv, OpsInv, HistInv, SlotsInv, [Next]_vars, spec.force,
           NEW t \in Targets, dir'[t] # dir[t]
    PROVE  OtherStep \/ Shifts \/ Swaps
<1>1. dir \in [Names -> Inodes \cup {None}] /\ t \in Names /\ t \notin Temps
  BY Names0 DEF OpsInv, TypesInv
<1>2. ~Takes
  <2> SUFFICES ASSUME Takes PROVE FALSE OBVIOUS
  <2>1. t = fr.path /\ ctl.pc = "unlink" BY <1>1 DEF Takes, RemoveUnlink
  <2> QED BY <2>1, RemoveSlot DEF SlotsInv, Guards
<1>3. ~Undoes
  <2> SUFFICES ASSUME Undoes PROVE FALSE OBVIOUS
  <2>1. t = fr.path BY <1>1 DEF Undoes
  <2> QED BY <1>1, <2>1, OpenedAt DEF Undoes
<1>4. ASSUME NEW n, NEW x, Makes(n, x) PROVE FALSE
  <2>1. t = n BY <1>1, <1>4 DEF Makes
  <2>2. ctl.pc \in {"numbered", "simple"} => t \notin Backups(Path) BY InHand, Names0
  <2> QED BY <1>1, <1>4, <2>1, <2>2 DEF Makes
<1>5. ~Rebacks
  <2> SUFFICES ASSUME Rebacks PROVE FALSE OBVIOUS
  <2>1. Path \in Targets BY InHand DEF Rebacks
  <2>2. t # Simple(Path) BY <2>1, Names0 DEF Backups
  <2> QED BY <1>1, <2>2 DEF Rebacks
<1> QED BY <1>2, <1>3, <1>4, <1>5, DirForms DEF Gives

(* Every step keeps OldKept.                                               *)
LEMMA OldKeptStep ==
    ASSUME FlowInv, OpsInv, HistInv, [Next]_vars, FlowInv', OldKept
    PROVE  OldKept'
<1> SUFFICES ASSUME AtOld', mem'.old \in Foreign
             PROVE  mem'.old \in {dir'[Path']} \cup hist'.forgone
  BY DEF OldKept
<1>1. ctl'.cur = ctl.cur /\ Path' = Path BY OldFrom DEF Path
<1>2. CASE dir' = dir /\ mem'.old = dir[Path] BY <1>1, <1>2
<1>3. CASE AtOld /\ mem'.old = mem.old
  <2>1. mem.old \in {dir[Path]} \cup hist.forgone BY <1>3 DEF OldKept
  <2>2. hist.forgone \subseteq hist'.forgone BY ForgoneGrows
  <2>3. CASE OurStep BY <1>1, <1>3, <2>1, <2>2, <2>3, OldPath
  <2>4. CASE ~OurStep
    <3>1. OtherStep BY <2>4, HistForms DEF OurStep
    <3>2. Path \in Names
      BY Names0 DEF FlowInv, CtlInv, CtlType, Path
    <3> QED BY <1>1, <1>3, <2>1, <2>2, <3>1, <3>2, OtherForgone
  <2> QED BY <2>3, <2>4
<1> QED BY <1>2, <1>3, OldFrom

(* Every step keeps AliasKept.                                             *)
LEMMA AliasKeptStep ==
    ASSUME FlowInv, OpsInv, HistInv, [Next]_vars, FlowInv', OldKept, AliasKept
    PROVE  AliasKept'
<1> SUFFICES ASSUME AtAlias', mem'.old \in Foreign
             PROVE  mem'.old \in {dir'[fr'.path]} \cup hist'.forgone
  BY DEF AliasKept
<1>1. AtOld' BY DEF AtAlias, AtOld
<1>2. hist.forgone \subseteq hist'.forgone BY ForgoneGrows
<1>3. CASE AtAlias /\ fr' = fr /\ (dir' = dir \/ OtherStep)
  <2>1. mem'.old = mem.old BY <1>1, <1>3, OldFrom DEF AtAlias
  <2>2. ctl.pc \in {"made", "overbackup"} BY <1>3 DEF AtAlias
  <2>3. CallInv(Cur) BY <2>2, InHand
  <2>4. fr.path \in Temps BY <1>3, <2>3 DEF AtAlias, CallInv, MadeInv
  <2>5. dir'[fr.path] = dir[fr.path] BY <1>3, <2>4, OtherNamed, Names0
  <2> QED BY <1>2, <1>3, <2>1, <2>5 DEF AliasKept
<1>4. CASE Aliased
  <2>1. ctl.pc = "alias" BY <1>4 DEF Aliased, place_temp_alias
  <2>2. AtOld /\ mem'.old = mem.old BY <1>1, <2>1, OldFrom
  <2>3. mem.old \in {dir[Path]} \cup hist.forgone BY <2>2 DEF OldKept
  <2>4. dir'[fr'.path] = dir[Path]
    BY <1>4, Names0 DEF Aliased, OpsInv, TypesInv
  <2> QED BY <1>2, <2>2, <2>3, <2>4
<1> QED BY <1>3, <1>4, AliasFrom

(* A file that has a backup of its path keeps it.                          *)
LEMMA CopiedKept ==
    ASSUME FlowInv, OpsInv, HistInv, [Next]_vars, spec.force, Path' = Path,
           NEW x \in Inodes, Copied(x), Takes => fr.path \in Temps
    PROVE  Copied(x)'
<1>1. Path \in Targets BY Names0 DEF FlowInv, CtlInv, CtlType, Path
<1>2. CASE x \in hist.forgone BY <1>2, ForgoneGrows DEF Copied
<1>3. CASE x \notin hist.forgone
  <2>1. PICK m \in Backups(Path) : dir[m] = x BY <1>3 DEF Copied
  <2>2. x # None /\ m \notin Temps BY <1>1, Names0, Inodes0
  <2>3. PICK t \in Targets : t = Path BY <1>1
  <2>4. dir'[m] = x \/ x \in hist'.forgone BY <2>1, <2>2, <2>3, BackupStays
  <2> QED BY <2>1, <2>4 DEF Copied
<1> QED BY <1>2, <1>3

(* Every step keeps BackedKept.                                            *)
LEMMA BackedKeptStep ==
    ASSUME FlowInv, OpsInv, HistInv, HeldAt, spec.force, [Next]_vars, FlowInv', OldKept,
           AliasKept, BackedKept
    PROVE  BackedKept'
<1> SUFFICES ASSUME AtBacked', mem'.old \in Foreign
             PROVE  mem'.old \in hist'.forgone \/ \E m \in Backups(Path') : dir'[m] = mem'.old
  BY DEF BackedKept, Copied
<1>1. mem'.old = mem.old /\ Path' = Path /\ Live BY BackedFrom DEF Path
<1>2. PICK x \in Inodes : x = mem.old BY <1>1, Inodes0
<1>3. SUFFICES x \in hist'.forgone \/ \E m \in Backups(Path') : dir'[m] = x
  BY <1>1, <1>2
<1>4. Path \in Targets BY Names0 DEF FlowInv, CtlInv, CtlType, Path
<1>5. hist.forgone \subseteq hist'.forgone BY ForgoneGrows
<1>6. dir \in [Names -> Inodes \cup {None}] BY DEF OpsInv, TypesInv
<1>7. CASE AtBacked
  <2>1. Copied(x) BY <1>1, <1>2, <1>7 DEF BackedKept
  <2>2. ASSUME Takes PROVE fr.path \in Temps
    <3>1. ctl.pc = "unlink" BY <2>2 DEF Takes, RemoveUnlink
    <3>2. fr.then = "backed" BY <1>7, <3>1 DEF AtBacked
    <3> QED BY <1>1, <3>1, <3>2, InRemove DEF RemoveInv
  <2> QED BY <1>1, <2>1, <2>2, CopiedKept DEF Copied
<1>8. CASE Links
  <2>1. x \in {dir[Path]} \cup hist.forgone BY <1>1, <1>2, <1>8 DEF Links, OldKept
  <2>2. fr'.path \in Names BY <1>4, <1>8, Names0 DEF Links
  <2>3. dir'[fr'.path] = dir[Path] BY <1>6, <1>8, <2>2 DEF Links
  <2> QED BY <1>1, <1>5, <1>8, <2>1, <2>3 DEF Links, Copied
<1>9. CASE Renews
  <2>1. AtAlias /\ ctl.pc = "overbackup" BY <1>1, <1>9 DEF Renews, AtAlias
  <2>2. x \in {dir[fr.path]} \cup hist.forgone BY <1>1, <1>2, <2>1 DEF AliasKept
  <2>3. CallInv(Cur) BY <2>1, InHand
  <2>4. fr.path \in Temps BY <2>1, <2>3 DEF CallInv
  <2>5. Simple(Path) \in Backups(Path) BY DEF Backups
  <2>6. Simple(Path) \in Names /\ Simple(Path) \notin Temps BY <1>4, <2>5, Names0
  <2>7. dir'[Simple(Path)] = dir[fr.path] BY <1>6, <1>9, <2>4, <2>6 DEF Renews, Rename
  <2> QED BY <1>1, <1>5, <2>2, <2>5, <2>7 DEF Copied
<1> QED BY <1>7, <1>8, <1>9, BackedFrom

(* replace_one() renames once the backup is made, or if there is none.     *)
LEMMA RenameFrom ==
    ASSUME FlowInv, [Next]_vars, FlowInv', Live', ctl'.pc = "rename"
    PROVE  /\ ctl'.cur = ctl.cur /\ Live
           /\ \/ UNCHANGED <<ctl, fr, op, pending, mem, file>> /\ (dir' = dir \/ OtherStep)
              \/ backup_none \/ FlushBackup
<1>1. ctl'.loop = "name" BY DEF FlowInv, CtlInv
<1>2. /\ ctl.pc \in CallPc /\ ctl.loop = "name" /\ Live /\ ctl'.cur = ctl.cur
  BY <1>1, NameFrom
<1>3. ASSUME NEW p \in CallPc \ {"rename"}, Goto(p) PROVE FALSE BY <1>3, CallStep
<1>4. Goto("next") => FALSE
  <2> SUFFICES ASSUME Goto("next") PROVE FALSE OBVIOUS
  <2>1. Moves(ctl, ctl') BY GotoStep DEF FlowInv
  <2> QED BY <1>2, <2>1 DEF Moves, Entry, After
<1>5. ~(RemoveLstat \/ RemoveUnlink)
  <2> SUFFICES ASSUME RemoveLstat \/ RemoveUnlink PROVE FALSE OBVIOUS
  <2>1. ctl.pc \in RemovePc /\ FrRemove /\ (Goto("unlink") \/ Goto(fr.then))
    BY <1>2 DEF RemoveLstat, RemoveUnlink, RemoveDone, FlowInv, CallFrame
  <2>2. fr.then \in CallPc \ {"rename"} BY <2>1 DEF FrRemove
  <2> QED BY <1>3, <2>1, <2>2
<1>6. ~Arm
  <2> SUFFICES ASSUME Arm PROVE FALSE OBVIOUS
  <2>1. FrMade /\ Goto(fr.then) BY DEF Arm, FlowInv, CallFrame
  <2>2. fr.then \in (CallPc \cup {"next"}) \ {"rename"}
    BY <2>1 DEF FrMade, Finish, AfterFill
  <2> QED BY <1>3, <1>4, <2>1, <2>2
<1>7. ~(UndoOpen \/ OverFailed \/ NameTemp \/ NameUnnamed \/ NamePlain)
  BY <1>3 DEF UndoOpen, OverFailed, NameTemp, NameUnnamed, NamePlain
<1>8. ~(CommitClear \/ Renamed \/ Exchanged \/ flush_set_add \/ OpFailed)
  BY <1>3, <1>4 DEF CommitClear, Renamed, Exchanged, flush_set_add, OpFailed
<1>9. ~(CommitRename \/ OverRename \/ CommitLink)
  BY <1>3 DEF CommitRename, OverRename, CommitLink
<1>10. ~(CommitOver \/ NameForce)
  BY <1>3 DEF CommitOver, NameForce, temp_make, Made, NoTemp
<1>11. ~(ReplaceRename \/ ExchangeNames \/ op_fail)
  <2>1. ReplaceRename \/ ExchangeNames \/ op_fail =>
          \/ Goto("renamed") \/ Goto("exchanged") \/ Goto("lstat")
          \/ Goto("fail") \/ Goto("failed")
    BY DEF ReplaceRename, ExchangeNames, op_fail, pending_remove
  <2> QED BY <1>3, <2>1
<1>12. ~(backup_make \/ backup_next \/ backup_note \/ OutOfNumbers)
  BY <1>3 DEF backup_make, backup_next, backup_note, OutOfNumbers
<1>13. ~(backup_numbered \/ backup_simple \/ place_temp_alias \/ OverBackup)
  <2>1. backup_numbered \/ backup_simple =>
          \/ Goto("fail") \/ Goto("made") \/ Goto("alias")
          \/ ctl' = ctl /\ ctl.pc = "numbered"
    BY DEF backup_numbered, backup_link, NoLink, Made, backup_simple
  <2>2. place_temp_alias \/ OverBackup =>
          Goto("fail") \/ Goto("made") \/ Goto("lstat") \/ Goto("backed")
    BY DEF place_temp_alias, temp_make, Made, NoTemp, OverBackup, pending_remove
  <2> QED BY <1>3, <2>1, <2>2
<1> QED BY <1>2, <1>5, <1>6, <1>7, <1>8, <1>9, <1>10, <1>11, <1>12, <1>13, NameActions
        DEF BackupStep

(* Every step keeps RenameKept.                                            *)
LEMMA RenameKeptStep ==
    ASSUME FlowInv, OpsInv, HistInv, OldInv, spec.force, spec.backup # "no", [Next]_vars,
           FlowInv', BackedKept, RenameKept
    PROVE  RenameKept'
<1> SUFFICES ASSUME ctl'.pc = "rename", dir'[Path'] \in Foreign \ Others
             PROVE  \/ dir'[Path'] \in hist'.forgone
                    \/ \E m \in Backups(Path') : dir'[m] = dir'[Path']
  BY DEF RenameKept, Copied
<1>1. Live' BY DEF FlowInv, HeldInv
<1>2. ctl'.cur = ctl.cur /\ Path' = Path /\ Live BY <1>1, RenameFrom DEF Path
<1>3. Path \in Targets /\ Path \in Names
  BY Names0 DEF FlowInv, CtlInv, CtlType, Path
<1>4. PICK x \in Inodes : x = dir'[Path] BY <1>2, Inodes0
<1>5. x # None /\ x \in Foreign \ Others BY <1>2, <1>4, Inodes0
<1>6. SUFFICES Copied(x)' BY <1>2, <1>4 DEF Copied
<1>7. SUFFICES ctl.pc \in {"rename", "backed"} /\ Copied(x)
  <2>1. ~Takes BY <1>7 DEF Takes, RemoveUnlink
  <2> QED BY <1>2, <1>7, <2>1, CopiedKept
<1>8. CASE UNCHANGED <<ctl, fr, op, pending, mem, file>> /\ (dir' = dir \/ OtherStep)
  <2>1. dir[Path] = x BY <1>3, <1>4, <1>5, <1>8, OtherNamed
  <2> QED BY <1>5, <1>8, <2>1 DEF RenameKept
<1>9. CASE backup_none
  BY <1>4, <1>5, <1>9 DEF backup_none, Free
<1>10. CASE FlushBackup
  <2>0. ctl.pc = "backed" /\ dir' = dir BY <1>10 DEF FlushBackup
  <2>1. AtOld /\ AtBacked BY <1>2, <2>0 DEF AtOld, AtBacked
  <2>2. x = mem.old BY <1>4, <1>5, <2>0, <2>1 DEF OldInv
  <2> QED BY <1>5, <2>0, <2>1, <2>2 DEF BackedKept
<1> QED BY <1>1, <1>8, <1>9, <1>10, RenameFrom

(* PENDING_BACKUP is armed only while a file is named.                     *)
LEMMA BackupLoop ==
    FlowInv /\ OpsInv /\ Live /\ Armed(BackupSlot) =>
        ctl.loop = "name" /\ ctl.pc \in CallPc \ {"name", "made"}
<1> SUFFICES ASSUME FlowInv, OpsInv, Live, Armed(BackupSlot)
             PROVE  ctl.loop = "name" /\ ctl.pc \in CallPc \ {"name", "made"}
  OBVIOUS
<1>1. CallInv(Cur) BY DEF OpsInv
<1>2. ctl.pc \in BackupPc \cup RemovePc \cup {"overbackup"}
  BY <1>1 DEF CallInv, MadeInv, Bared
<1>3. CASE ctl.pc \in RemovePc
  <2>1. /\ RemoveInv(Cur) /\ FrRemove /\ Slot(Cur) # BackupSlot /\ BackupSlot \in Slots
        /\ 0 \notin Slots
    BY <1>3, InRemove
  <2>2. fr.slot = BackupSlot BY <2>1 DEF RemoveInv, Bared
  <2> QED BY <1>3, <2>1, <2>2 DEF FrRemove
<1>4. CASE ctl.pc \notin RemovePc
  BY <1>2, <1>4 DEF BackupPc, FlowInv, CtlInv
<1> QED BY <1>3, <1>4

(* The same after a step.                                                  *)
LEMMA BackupLoopNext ==
    (FlowInv /\ OpsInv /\ Live /\ Armed(BackupSlot) =>
        ctl.loop = "name" /\ ctl.pc \in CallPc \ {"name", "made"})'
  BY BackupLoop, PTL

(* The operand in hand stays the same while its backup is guarded.         *)
LEMMA BackupCur ==
    ASSUME FlowInv, [Next]_vars, FlowInv', OpsInv', Armed(BackupSlot)'
    PROVE  ctl'.cur = ctl.cur
<1>1. CASE Live' BY <1>1, BackupLoopNext, NameFrom
<1>2. CASE ~Live'
  <2>1. ctl \in CtlType BY DEF FlowInv, CtlInv
  <2>2. ASSUME NEW l, l # "next", Goto(l) PROVE ctl'.cur = ctl.cur
    BY <2>1, <2>2 DEF Goto, CtlType
  <2>3. CASE SignalTaken BY <2>2, <2>3 DEF SignalTaken
  <2>4. CASE ~Live
    <3>1. CASE RemoveLstat \/ RemoveUnlink
      <4>1. fr.then = "handler"
        BY <2>4, <3>1 DEF FlowInv, CallFrame, RemoveLstat, RemoveUnlink
      <4>2. Goto("unlink") \/ Goto("handler")
        BY <3>1, <4>1 DEF RemoveLstat, RemoveUnlink, RemoveDone
      <4> QED BY <2>2, <4>2
    <3>2. CASE HandlerStep
      <4>1. \/ Goto("killed")
            \/ \E s : pending_remove(s, FALSE, "handler")
        BY <3>2 DEF HandlerStep
      <4>2. Goto("killed") \/ Goto("lstat") \/ Goto("handler")
        BY <4>1 DEF pending_remove
      <4> QED BY <2>2, <4>2
    <3> QED BY <2>4, <3>1, <3>2, HandlerActions
  <2> QED BY <1>2, <2>3, <2>4, HandlerStill
<1> QED BY <1>1, <1>2

(* Signals are held between a rename or an exchange and its record.        *)
LEMMA PlacedLive ==
    ASSUME FlowInv, [Next]_vars, ctl.pc \in {"renamed", "exchanged"}
    PROVE  Live'
<1>1. Live /\ held > 0 BY DEF FlowInv, HeldInv, Holding
<1>2. ~SignalTaken BY <1>1 DEF SignalTaken
<1> QED BY <1>1, <1>2, HandlerStill

(* Every step keeps BackupKept.                                            *)
LEMMA BackupKeptStep ==
    ASSUME FlowInv, OpsInv, HistInv, SlotsInv, spec.force, [Next]_vars, FlowInv', OpsInv',
           OldKept, BackupKept
    PROVE  BackupKept'
<1> SUFFICES ASSUME ctl'.pc \notin {"renamed", "exchanged"}, Armed(BackupSlot)',
                    pending'[BackupSlot].ino \in Foreign
             PROVE  pending'[BackupSlot].ino \in {dir'[Path']} \cup hist'.forgone
  BY DEF BackupKept
<1>1. ctl'.cur = ctl.cur /\ Path' = Path BY BackupCur DEF Path
<1>2. Path \in Targets /\ Path \in Names BY Names0 DEF FlowInv, CtlInv, CtlType, Path
<1>3. hist.forgone \subseteq hist'.forgone BY ForgoneGrows
<1>4. PICK s : s = BackupSlot OBVIOUS
<1>5. s \in Slots BY <1>4, Slots0 DEF FlowInv
<1>6. pending \in [Slots -> SlotType] BY DEF OpsInv, TypesInv
<1>7. CASE Arm /\ fr.slot = s /\ pending'[s] = [path |-> fr.path, ino |-> fr.ino]
  <2>1. ctl.pc = "made" /\ dir' = dir BY <1>7 DEF Arm
  <2>2. FrMade /\ Live /\ MadeInv(Cur) /\ Slot(Cur) # BackupSlot /\ 0 \notin Slots
    BY <2>1, InHand, Slots0 DEF FlowInv, CallFrame, CallInv
  <2>3. fr.what \in {"alias", "backup"} BY <1>4, <1>5, <1>7, <2>2 DEF FrMade
  <2>4. fr.ino = mem.old /\ AtOld BY <2>1, <2>2, <2>3 DEF MadeInv, AtOld
  <2> QED BY <1>1, <1>3, <1>4, <1>7, <2>1, <2>4 DEF OldKept
<1>8. CASE pending'[s] = pending[s]
  <2>1. Armed(s) BY <1>4, <1>8 DEF Armed
  <2>2. ctl.pc \notin {"renamed", "exchanged"}
    <3> SUFFICES ASSUME ctl.pc \in {"renamed", "exchanged"} PROVE FALSE OBVIOUS
    <3>1. Live' BY PlacedLive
    <3>2. ASSUME NEW p, pending' = pending_clear(p, s), p \in [Slots -> SlotType]
          PROVE  FALSE
      BY <1>4, <1>5, <3>2 DEF pending_clear, Armed, SlotType
    <3>3. ~Renamed
      <4> SUFFICES ASSUME Renamed PROVE FALSE OBVIOUS
      <4>1. pending' = pending_clear(pending_clear(pending, Slot(Cur)), s)
        BY <1>4 DEF Renamed
      <4>2. pending_clear(pending, Slot(Cur)) \in [Slots -> SlotType]
        BY <1>6 DEF pending_clear, SlotType
      <4> QED BY <3>2, <4>1, <4>2
    <3>4. ~Exchanged
      <4> SUFFICES ASSUME Exchanged PROVE FALSE OBVIOUS
      <4>1. pending' = pending_clear([pending EXCEPT ![Slot(Cur)].ino = mem.old], s)
        BY <1>4 DEF Exchanged
      <4>2. mem.old \in Inodes
        BY InHand DEF Exchanged, CallInv
      <4>3. [pending EXCEPT ![Slot(Cur)].ino = mem.old] \in [Slots -> SlotType]
        BY <1>6, <4>2 DEF SlotType
      <4> QED BY <3>2, <4>1, <4>3
    <3>5. ~CommitClear BY DEF CommitClear
    <3> QED BY <3>1, <3>3, <3>4, <3>5, PlacedActions DEF PlacedPc
  <2>3. pending[s].ino \in {dir[Path]} \cup hist.forgone
    BY <1>4, <1>8, <2>1, <2>2 DEF BackupKept
  <2>4. CASE dir'[Path] = dir[Path] BY <1>1, <1>3, <1>4, <1>8, <2>3, <2>4
  <2>5. CASE dir'[Path] # dir[Path]
    <3>1. PICK t \in Targets : t = Path BY <1>2
    <3>2. OtherStep
      <4>1. ~Shifts /\ ~Swaps BY DEF Shifts, Swaps
      <4> QED BY <2>5, <3>1, <4>1, PathMoves
    <3> QED BY <1>1, <1>2, <1>3, <1>4, <1>8, <2>3, <2>5, <3>2, OtherForgone
  <2> QED BY <2>4, <2>5
<1> QED BY <1>4, <1>5, <1>7, <1>8, SlotForms DEF Armed

(* Once signals are held for an exchange, only drop_spares() releases      *)
(* them.                                                                   *)
LEMMA SpareHeldKept ==
    ASSUME FlowInv, [Next]_vars, mem.spareHeld
    PROVE  mem'.spareHeld \/ DropRelease
<1>1. DOMAIN mem = MemFields BY DEF FlowInv, HeldInv
<1>2. Signal \/ OtherStep \/ UNCHANGED vars \/ PendingStep => mem' = mem
  BY DEF Signal, OtherStep, OtherPut, OtherUnlink, vars, PendingStep, RemoveLstat,
         RemoveUnlink, SignalTaken, HandlerStep
<1>3. PlaceStep => mem'.spareHeld
  BY <1>1 DEF PlaceStep, Arm, UndoOpen, ProbeDone, CommitRename, CommitClear, CommitLink,
         CommitOver, OverRename, OverFailed, ReplaceRename, Renamed, ExchangeNames,
         Exchanged, MemFields
<1>4. BackupStep => mem'.spareHeld
  BY <1>1 DEF BackupStep, backup_none, backup_make, backup_next, backup_numbered,
         OutOfNumbers, backup_note, backup_simple, place_temp_alias, OverBackup, MemFields
<1>5. BatchStep => mem'.spareHeld \/ DropRelease
  BY <1>1 DEF BatchStep, batch_run, build_one, FinishPrivate, fill_one, FinishOwner,
         FinishMode, place_probe_mode, open_built, FinishLink, op_fail,
         OpFailed, FlushClose, close_op, NameBatch, NameForce, NameUnnamed, NameTemp,
         NamePlain, FlushBackup, SettleClose, SettleOne, Tidied, flush_set_run, Dropped,
         report_one, flush_batch, settle_batch, flush_set_add, drop_spares, MemFields
<1> QED BY <1>2, <1>3, <1>4, <1>5 DEF Next, Program, Ended

(* When they are released no slot but PENDING_BACKUP is armed.             *)
LEMMA ReleaseBare ==
    ASSUME FlowInv, OpsInv, ctl.pc = "release", NEW s \in Slots \ {BackupSlot}
    PROVE  ~Armed(s)
<1>1. Live BY DEF FlowInv, HeldInv
<1>2. ctl.loop = "drop" /\ ctl.todo = {} BY DEF FlowInv, CtlInv, LoopOf
<1>3. s \in 1..BatchSize BY WorldAssumption DEF Slots, BackupSlot
<1>4. CASE s + ctl.first - 1 \notin Batch BY <1>1, <1>3, <1>4 DEF OpsInv, RestInv
<1>5. CASE s + ctl.first - 1 \in Batch
  <2>1. PICK i \in Batch : i = s + ctl.first - 1 BY <1>5
  <2>2. s = Slot(i)
    <3>1. ctl.first \in Nat BY DEF FlowInv, CtlInv, CtlType, Ops
    <3> QED BY <1>3, <2>1, <3>1 DEF Slot
  <2>3. Done("drop", i) BY <1>1, <1>2 DEF OpsInv, RestInv, Rest
  <2> QED BY <2>2, <2>3 DEF Done, Cleared
<1> QED BY <1>4, <1>5

(* An exchange is recorded once the old file has its backup to stay.       *)
LEMMA ExchangedSaved ==
    ASSUME FlowInv, OpsInv, [Next]_vars, FlowInv', OpsInv', BackedKept, Exchanged,
           mem.old \in Foreign
    PROVE  /\ \/ mem.old \in hist'.forgone
              \/ \E t \in Targets : \E m \in Backups(t) : dir'[m] = mem.old /\ Unguarded(m)'
           /\ mem'.spareHeld
<1>1. ctl.pc = "exchanged" /\ UNCHANGED <<dir, mem, hist>> BY DEF Exchanged
<1>2. Live /\ Path \in Targets BY <1>1, InHand
<1>3. Live' BY <1>1, PlacedLive
<1>4. ctl'.pc = "named" BY CallStep DEF Exchanged
<1>5. ~Armed(BackupSlot)'
  <2>1. CallInv(Cur)' BY <1>3 DEF OpsInv
  <2> QED BY <1>4, <2>1 DEF CallInv, Bared, BackupPc
<1>6. Copied(mem.old) BY <1>1, <1>2 DEF BackedKept, AtBacked
<1>7. mem'.spareHeld BY <1>1 DEF FlowInv, HeldInv
<1>8. CASE mem.old \in hist.forgone BY <1>1, <1>7, <1>8
<1>9. CASE mem.old \notin hist.forgone
  <2>1. PICK m \in Backups(Path) : dir[m] = mem.old BY <1>6, <1>9 DEF Copied
  <2>2. Unguarded(m)' BY <1>4, <1>5 DEF Unguarded, Armed
  <2> QED BY <1>1, <1>2, <1>7, <2>1, <2>2
<1> QED BY <1>8, <1>9

(* Every step keeps SpareKept.                                             *)
LEMMA SpareKeptStep ==
    ASSUME FlowInv, OpsInv, HistInv, HeldAt, spec.force, [Next]_vars, FlowInv', OpsInv',
           BackedKept, SpareKept
    PROVE  SpareKept'
<1> SUFFICES ASSUME NEW s \in Slots \ {BackupSlot}, Armed(s)'
             PROVE  /\ pending'[s].path \in Temps
                    /\ pending'[s].ino \in Foreign => Saved(pending[s].ino)' /\ mem'.spareHeld
  BY DEF SpareKept
<1>1. PICK x : x = pending'[s].ino OBVIOUS
<1>2. SUFFICES /\ pending'[s].path \in Temps
               /\ x \in Foreign => Saved(x)' /\ mem'.spareHeld
  BY <1>1 DEF Saved
<1>3. SlotTemps BY DEF SpareKept, SlotTemps
<1>4. CASE pending'[s] = pending[s]
  <2>1. Armed(s) BY <1>4 DEF Armed
  <2>2. x \in Foreign => x \in Inodes /\ Saved(x) /\ mem.spareHeld
    BY <1>1, <1>4, <2>1, Inodes0 DEF SpareKept
  <2>3. ~DropRelease BY <2>1, ReleaseBare DEF DropRelease
  <2>4. x \in Foreign => Saved(x)' BY <1>3, <2>2, SavedKept
  <2> QED BY <1>4, <2>1, <2>2, <2>3, <2>4, SpareHeldKept DEF SpareKept
<1>5. CASE Arm /\ fr.what # "over" /\ fr.slot = s
           /\ pending'[s] = [path |-> fr.path, ino |-> fr.ino]
  <2>1. ctl.pc = "made" BY <1>5 DEF Arm
  <2>2. FrMade /\ MadeInv(Cur) /\ Cur \in Ops
    BY <2>1, InHand DEF FlowInv, CallFrame, CallInv
  <2>3. fr.what \in {"probe", "temp", "link"} BY <1>5, <2>2 DEF FrMade, IsPlain
  <2>4. fr.path \in Temps /\ fr.ino \in Ours BY <2>2, <2>3, Inodes0 DEF MadeInv
  <2> QED BY <1>1, <1>5, <2>4, Inodes0
<1>6. CASE Exchanged /\ pending'[s].path = pending[s].path /\ pending'[s].ino = mem.old
  <2>1. Armed(s) BY <1>6 DEF Armed
  <2>2. x \in Foreign => Saved(x)' /\ mem'.spareHeld
    BY <1>1, <1>6, ExchangedSaved DEF Saved
  <2> QED BY <1>6, <2>1, <2>2 DEF SpareKept
<1> QED BY <1>4, <1>5, <1>6, SlotForms

(* All of it holds all along.                                              *)
LEMMA KeepAlways == Spec => []KeepInv
<1>1. Init => KeepInv
  <2> SUFFICES ASSUME Init PROVE KeepInv OBVIOUS
  <2>1. ctl.pc = "batch" BY DEF Init
  <2>2. \A s \in Slots : ~Armed(s) BY DEF Init, Armed
  <2>3. BackupSlot \in Slots BY WorldAssumption DEF Slots, BackupSlot
  <2> QED BY <2>1, <2>2, <2>3 DEF KeepInv, OldKept, AtOld, AliasKept, AtAlias, BackedKept,
             AtBacked, RenameKept, BackupKept, SpareKept
<1>2. LeaveInv /\ KeepInv /\ LeaveInv' /\ [Next]_vars => KeepInv'
  <2> SUFFICES ASSUME LeaveInv, KeepInv, LeaveInv', [Next]_vars, spec.backup # "no"
               PROVE  (/\ OldKept /\ AliasKept /\ BackedKept /\ RenameKept
                       /\ BackupKept /\ SpareKept)'
    BY StartKept DEF KeepInv
  <2>1. /\ FlowInv /\ OpsInv /\ HistInv /\ SlotsInv /\ HeldAt /\ OldInv
        /\ FlowInv' /\ OpsInv'
    BY DEF LeaveInv, BaseInv, SafeInv, SoleInv, HeldAt
  <2>2. spec.force BY <2>1, SpecAssumption DEF FlowInv
  <2>3. OldKept /\ AliasKept /\ BackedKept /\ RenameKept /\ BackupKept /\ SpareKept
    BY DEF KeepInv
  <2>4. OldKept' BY <2>1, <2>3, OldKeptStep
  <2>5. AliasKept' BY <2>1, <2>3, AliasKeptStep
  <2>6. BackedKept' BY <2>1, <2>2, <2>3, BackedKeptStep
  <2>7. RenameKept' BY <2>1, <2>2, <2>3, RenameKeptStep
  <2>8. BackupKept' BY <2>1, <2>2, <2>3, BackupKeptStep
  <2>9. SpareKept' BY <2>1, <2>2, <2>3, SpareKeptStep
  <2> QED BY <2>4, <2>5, <2>6, <2>7, <2>8, <2>9
<1> QED BY <1>1, <1>2, LeaveAlways, PTL DEF Spec

(* No step of the program takes the last name of a file not its own.       *)
LEMMA KeepsForeignStep ==
    ASSUME LeaveInv, KeepInv, ~Races, [Next]_vars, spec.backup # "no", OurStep,
           NEW n \in Names, NEW x \in Foreign, x = dir[n], ~Holds(dir', x)
    PROVE  x \in hist'.forgone \/ (ctl.pc = "rename" /\ x \in Others)
<1> SUFFICES ASSUME x \notin hist'.forgone PROVE ctl.pc = "rename" /\ x \in Others
  OBVIOUS
<1>1. FlowInv /\ OpsInv /\ HistInv /\ SlotsInv /\ GapInv
  BY DEF LeaveInv, BaseInv, SafeInv
<1>2. spec.force BY <1>1, SpecAssumption DEF FlowInv
<1>3. BackupKept /\ SpareKept /\ RenameKept BY DEF KeepInv
<1>4. dir \in [Names -> Inodes \cup {None}] BY <1>1 DEF OpsInv, TypesInv
<1>5. x \in Inodes /\ x # None /\ x \notin Ours BY Inodes0
<1>6. \A m \in Names : dir'[m] # x BY DEF Holds
<1>7. x \notin hist.forgone BY <1>1, ForgoneGrows
<1>8. ~OtherStep BY <1>1, OtherCounts DEF OurStep
<1>9. Path \in Targets /\ Path \in Names BY <1>1, Names0 DEF FlowInv, CtlInv, CtlType, Path
<1>10. ASSUME Takes PROVE FALSE
  <2>1. n = fr.path /\ ctl.pc = "unlink" BY <1>4, <1>6, <1>10 DEF Takes, RemoveUnlink
  <2>2. fr.ino = x BY <1>1, <2>1 DEF GapInv, Gap, Undisturbed
  <2>3. PICK s \in Slots : s = fr.slot /\ Armed(s) /\ Guards(s, n, x)
    BY <1>1, <1>2, <2>1, <2>2, RemoveSlot
  <2>4. pending[s].path = n /\ pending[s].ino = x BY <2>3 DEF Guards
  <2>5. CASE s = BackupSlot
    <3>1. dir[Path] = x BY <1>3, <1>7, <2>1, <2>3, <2>4, <2>5 DEF BackupKept
    <3>2. n \notin Targets BY <1>1, <1>2, <2>3, <2>4 DEF SlotsInv
    <3> QED BY <1>4, <1>6, <1>9, <1>10, <2>1, <3>1, <3>2 DEF Takes
  <2>6. CASE s # BackupSlot
    <3>1. n \in Temps /\ Saved(x) BY <1>3, <2>3, <2>4, <2>6 DEF SpareKept
    <3>2. PICK t \in Targets : \E m \in Backups(t) : dir[m] = x
      BY <1>7, <3>1 DEF Saved
    <3>3. PICK m \in Backups(t) : dir[m] = x BY <3>2
    <3>4. m \in Names /\ m # n BY <3>1, Names0
    <3> QED BY <1>4, <1>6, <1>10, <2>1, <3>3, <3>4 DEF Takes
  <2> QED BY <2>5, <2>6
<1>11. ASSUME Undoes PROVE FALSE
  <2>1. n = fr.path /\ ctl.pc = "made" /\ fr.flag BY <1>4, <1>6, <1>11 DEF Undoes
  <2>2. fr.ino = x BY <1>1, <2>1 DEF GapInv, Gap, Undisturbed
  <2> QED BY <1>1, <1>5, <2>1, <2>2, OpenedAt
<1>12. ASSUME NEW m, NEW y, Makes(m, y) PROVE FALSE
  <2>1. n = m BY <1>4, <1>6, <1>12 DEF Makes
  <2> QED BY <1>5, <1>12, <2>1 DEF Makes, Free
<1>13. ASSUME Shifts \/ Swaps PROVE n = Path /\ op[Cur].tmp \in Temps
  <2>1. ctl.pc \in CallPc \ RemovePc /\ Ready(Cur) BY <1>13 DEF Shifts, Swaps
  <2>2. op[Cur].tmp \in Temps /\ dir[op[Cur].tmp] = New(Cur) /\ Cur \in Ops
    BY <1>1, <2>1, ReadyPath, InHand
  <2>3. n # op[Cur].tmp BY <1>5, <2>2, Inodes0
  <2> QED BY <1>4, <1>6, <1>13, <2>2, <2>3 DEF Shifts, Swaps
<1>14. ASSUME Swaps PROVE FALSE
  BY <1>4, <1>6, <1>9, <1>13, <1>14, Names0 DEF Swaps
<1>15. CASE Shifts
  <2>1. ctl.pc = "rename" /\ n = Path /\ op[Cur].tmp \in Temps
    BY <1>2, <1>13, <1>15 DEF Shifts
  <2>2. SUFFICES ASSUME x \notin Others PROVE FALSE BY <2>1
  <2>3. Copied(x) BY <1>3, <2>1, <2>2 DEF RenameKept
  <2>4. PICK m \in Backups(Path) : dir[m] = x BY <1>7, <2>3 DEF Copied
  <2>5. m \in Names /\ m \notin Targets \cup Temps BY <1>9, Names0
  <2> QED BY <1>4, <1>6, <1>9, <1>15, <2>1, <2>4, <2>5 DEF Shifts
<1>16. ASSUME Rebacks PROVE FALSE
  <2>1. Simple(Path) \in Names /\ Simple(Path) \notin Temps /\ fr.path \in Temps
    BY <1>9, <1>16, Names0 DEF Backups, Rebacks
  <2>2. n = Simple(Path) BY <1>4, <1>6, <1>16, <2>1, Names0 DEF Rebacks
  <2>3. dir' # dir /\ dir[fr.path] # dir[Simple(Path)] /\ OverBackup
    BY <1>6, <1>16 DEF Rebacks
  <2>4. hist' = [hist EXCEPT !.forgone = @ \cup {dir[Simple(Path)]}]
    BY <2>3 DEF OverBackup
  <2> QED BY <1>1, <2>2, <2>4 DEF HistInv, HistTypes
<1> QED BY <1>1, <1>2, <1>6, <1>8, <1>10, <1>11, <1>12, <1>14, <1>15, <1>16, DirForms
        DEF Gives

(* With --backup no step of the program, nor of its handler, takes the     *)
(* last name of a file that is not its own, however many operands share a  *)
(* path and whatever fails: a backup is removed again only while the path  *)
(* still holds its file, and an old file exchanged away only when its      *)
(* backup stays.  Not so for the simple backup that the next one replaces  *)
(* and a file that another process puts at the path just before the        *)
(* rename, nor in the gaps Races leaves open.                              *)
THEOREM KeepsForeignTheorem == ASSUME ~Races PROVE Spec => KeepsForeign
<1>1. LeaveInv /\ KeepInv /\ [Next]_vars =>
        [spec.backup # "no" /\ OurStep =>
          \A x \in {dir[n] : n \in Names} \cap Foreign : ~Holds(dir', x) =>
              x \in hist'.forgone \/ (ctl.pc = "rename" /\ x \in Others)]_vars
  BY KeepsForeignStep
<1> QED BY <1>1, LeaveAlways, KeepAlways, PTL DEF Spec, KeepsForeign

(* All of it at once: the inductive invariant that the proofs rest on, and *)
(* that TLC checks on small instances, holds for every number of operands, *)
(* batch, slot and number.                                                 *)
THEOREM InductiveTheorem == Spec => []Inductive
<1>1. LeaveInv /\ PathsInv /\ StatusInv /\ BackedInv /\ NumbersInv /\ KeepInv => Inductive
  BY DEF LeaveInv, PathsInv, StatusInv, BackedInv, NumbersInv, BaseInv, SafeInv, Inductive
<1> QED BY <1>1, LeaveAlways, PathsAlways, StatusAlways, BackedAlways, NumbersAlways,
           KeepAlways, PTL

==============================================================================
