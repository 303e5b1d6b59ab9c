--------------------------- MODULE ControlProofs -----------------------------
(***************************************************************************)
(* Newfile's control keeps to its plan: FlowInv of NewfileInv is an        *)
(* invariant of Spec. One lemma for each action; the loops over the        *)
(* operands of a batch are dealt with once, in NextFlow and LoopFlow.      *)
(***************************************************************************)
EXTENDS NewfileInv, WellFoundedInduction, TLAPS

(* A set of naturals that is not empty has a least element, the one CHOOSE *)
(* picks: the order in which batch.c visits the operands and the handler   *)
(* the slots.                                                              *)
LEMMA LeastExists ==
    ASSUME NEW S \in SUBSET Nat, S # {}
    PROVE  /\ (CHOOSE k \in S : \A m \in S : k <= m) \in S
           /\ \A n \in S : (CHOOSE k \in S : \A m \in S : k <= m) <= n
<1> DEFINE R == OpToRel(<, Nat)
<1>1. IsWellFoundedOn(R, Nat) BY NatLessThanWellFounded
<1>2. \E x \in S : \A y \in S : ~(<<y, x>> \in R)
  <2> HIDE DEF R
  <2> QED BY <1>1, WFMin
<1>3. \A x, y \in Nat : x < y => <<x, y>> \in R BY DEF OpToRel
<1> HIDE DEF R
<1>4. PICK x \in S : \A y \in S : ~(<<y, x>> \in R) BY <1>2
<1>4a. \A m \in S : ~(m < x) BY <1>3, <1>4
<1>4b. \A m \in S : x <= m BY <1>4a
<1>5. (CHOOSE k \in S : \A m \in S : k <= m) \in S BY <1>4b
<1>6. \A n \in S : (CHOOSE k \in S : \A m \in S : k <= m) <= n BY <1>4b, Zenon
<1> QED BY <1>5, <1>6

(* What Advance does: the least operand left, or the step after the loop.  *)
Moves(c, d) ==
    /\ d.loop = c.loop /\ d.first = c.first
    /\ \/ c.todo = {} /\ d.pc = After[c.loop] /\ d.cur = c.cur /\ d.todo = {}
       \/ /\ d.pc = Entry[c.loop] /\ d.cur \in c.todo /\ d.todo = c.todo \ {d.cur}
          /\ \A m \in d.todo : d.cur < m

(* Advance is well defined and does what Moves says, in each of batch.c's  *)
(* loops.                                                                  *)
LEMMA AdvanceMoves ==
    ASSUME NEW c \in CtlType
    PROVE  Advance(c) \in CtlType /\ Moves(c, Advance(c))
<1>1. CASE c.todo = {}
  <2>1. Advance(c) = [c EXCEPT !.pc = After[c.loop]] BY <1>1 DEF Advance
  <2> QED BY <2>1, <1>1 DEF CtlType, Moves, CallPc, HeadPc, After, Entry
<1>2. CASE c.todo # {}
  <2> DEFINE i == CHOOSE k \in c.todo : \A m \in c.todo : k <= m
  <2>1. c.todo \in SUBSET Nat BY DEF CtlType, Ops
  <2>2. i \in c.todo /\ \A m \in c.todo : i <= m BY <1>2, <2>1, LeastExists
  <2>3. Advance(c) = [c EXCEPT !.pc = Entry[c.loop], !.cur = i, !.todo = @ \ {i}]
    BY <1>2 DEF Advance
  <2> HIDE DEF i
  <2>4. Entry[c.loop] \in CallPc
    BY DEF CtlType, CallPc, BuildPc, NamePc, CommitPc, Entry
  <2>5. Advance(c) \in CtlType BY <2>2, <2>3, <2>4 DEF CtlType
  <2>6. Advance(c).pc = Entry[c.loop] /\ Advance(c).cur = i
        /\ Advance(c).todo = c.todo \ {i}
        /\ Advance(c).loop = c.loop /\ Advance(c).first = c.first
    BY <2>3 DEF CtlType
  <2>7. \A m \in c.todo \ {i} : i < m BY <2>1, <2>2
  <2> QED BY <2>2, <2>5, <2>6, <2>7 DEF Moves
<1> QED BY <1>1, <1>2

(* Every step of the program.                                              *)
Pcs == CallPc \cup HeadPc \cup {"handler", "killed"}

(* What a jump does to the control: the step changes, or the loop goes on. *)
LEMMA GotoStep ==
    ASSUME CtlInv, NEW l, Goto(l), l \in Pcs \cup {"next"}
    PROVE  /\ ctl' \in CtlType
           /\ l = "next" => Moves(ctl, ctl')
           /\ l # "next" => /\ ctl'.pc = l /\ ctl'.loop = ctl.loop
                               /\ ctl'.todo = ctl.todo
                            /\ ctl'.cur = ctl.cur /\ ctl'.first = ctl.first
<1>1. ctl \in CtlType BY DEF CtlInv
<1>2. CASE l = "next" BY <1>1, <1>2, AdvanceMoves DEF Goto
<1>3. CASE l # "next"
  <2>1. ctl' = [ctl EXCEPT !.pc = l] BY <1>3 DEF Goto
  <2>2. l \in Pcs BY <1>3
  <2> QED BY <1>1, <1>3, <2>1, <2>2 DEF CtlType, Pcs
<1> QED BY <1>2, <1>3

(* The loop goes on: to its next operand or past its end.                  *)
LEMMA MovesCtl ==
    ASSUME CtlInv, Live, Live', ctl' \in CtlType, Moves(ctl, ctl'), spec' = spec
    PROVE  CtlInv'
<1> QED
  BY DEF CtlInv, CtlType, Moves, CallPc, BuildPc, NamePc, CommitPc, ReplacePc, HeadPc,
     RemovePc, Entry, After, LoopOf, Batch, Live, Cur

(* A step that goes on with the loop, all holds of the call released.      *)
LEMMA NextFlow ==
    ASSUME FlowInv, Live, sig' = sig, Goto("next"), kern' = kern, spec' = spec,
           DOMAIN mem' = DOMAIN mem, mem'.spareHeld = mem.spareHeld,
           held' = IF mem.spareHeld THEN 1 ELSE 0,
           ctl.pc \in CallPc
    PROVE  FlowInv'
<1>1. Moves(ctl, ctl') /\ ctl' \in CtlType BY GotoStep DEF FlowInv
<1>2. CtlInv' BY <1>1, MovesCtl DEF FlowInv, Live
<1>3. /\ ~Holding'
      /\ ctl'.pc \notin {"report", "exit", "batch", "exchanged", "handler", "killed"}
      /\ ctl'.loop = ctl.loop
  BY <1>1 DEF FlowInv, CtlInv, Moves, Holding, RemovePc, Entry, After, CtlType
<1>4. DOMAIN mem' = MemFields /\ mem'.spareHeld \in BOOLEAN
  BY Zenon DEF FlowInv, HeldInv
<1>5. HeldInv' BY <1>3, <1>4 DEF FlowInv, HeldInv, Live
<1>6. CallFrame'
  BY <1>1 DEF FlowInv, CtlInv, CallFrame, Moves, RemovePc, Live, Entry, After, CtlType
<1> QED BY <1>2, <1>5, <1>6 DEF FlowInv

(* A loop over the operands of s begins.                                   *)
Entered(l, s) ==
    /\ ctl'.loop = l /\ ctl'.first = ctl.first
    /\ \/ s = {} /\ ctl'.pc = After[l] /\ ctl'.cur = ctl.cur /\ ctl'.todo = {}
       \/ /\ ctl'.pc = Entry[l] /\ ctl'.cur \in s /\ ctl'.todo = s \ {ctl'.cur}
          /\ \A m \in ctl'.todo : ctl'.cur < m

(* Loop starts the loop it is given over the operands it is given.         *)
LEMMA LoopEntered ==
    ASSUME CtlInv, NEW l \in DOMAIN Entry, NEW s \in SUBSET Batch, ctl' = Loop(l, s)
    PROVE  ctl' \in CtlType /\ Entered(l, s)
<1>1. ctl \in CtlType /\ Batch \subseteq Ops
  BY WorldAssumption DEF CtlInv, CtlType, Batch, Ops
<1> DEFINE c == [ctl EXCEPT !.loop = l, !.todo = s]
<1>2. c \in CtlType /\ c.loop = l /\ c.todo = s /\ c.cur = ctl.cur
      /\ c.first = ctl.first
  BY <1>1 DEF CtlType
<1>3. ctl' = Advance(c) BY DEF Loop
<1> HIDE DEF c
<1>4. ctl' \in CtlType /\ Moves(c, ctl') BY <1>2, <1>3, AdvanceMoves
<1> QED BY <1>2, <1>4 DEF Moves, Entered

(* The head of a loop of batch.c starts it: the control keeps to its plan. *)
LEMMA LoopFlow ==
    ASSUME FlowInv, Live, sig' = sig, kern' = kern, spec' = spec,
           NEW l \in DOMAIN Entry, NEW s \in SUBSET Batch, ctl' = Loop(l, s),
           ctl.pc \in HeadPc,
           DOMAIN mem' = DOMAIN mem, mem'.spareHeld = mem.spareHeld, held' = held,
           l \in {"settle", "tidy", "drop"} \/ ctl.pc \in {"batch", "flush", "closing",
                 "naming"}
    PROVE  FlowInv'
<1>1. ctl' \in CtlType /\ Entered(l, s) BY LoopEntered DEF FlowInv
<1>2. CtlInv'
  <2>1. Batch' = Batch /\ Live' BY <1>1 DEF Entered, Batch, Live
  <2>2. CASE s = {} /\ ctl'.pc = After[l] /\ ctl'.todo = {}
    <3>1. ctl'.pc \in HeadPc \ {"batch"} /\ ctl'.loop = LoopOf[ctl'.pc]
      BY <1>1, <2>2 DEF Entered, HeadPc, After, Entry, LoopOf
    <3> QED BY <1>1, <2>1, <2>2, <3>1
            DEF CtlInv, HeadPc, CallPc, BuildPc, NamePc, CommitPc, ReplacePc, RemovePc
  <2>3. CASE ctl'.pc = Entry[l] /\ ctl'.cur \in s /\ ctl'.todo = s \ {ctl'.cur}
    BY <1>1, <2>1, <2>3
       DEF Entered, CtlInv, HeadPc, CallPc, BuildPc, NamePc, CommitPc, ReplacePc,
           RemovePc,
           Entry, Cur
  <2> QED BY <1>1, <2>2, <2>3 DEF Entered
<1>3. /\ ~Holding /\ ~Holding'
      /\ ctl'.pc \notin {"report", "exit", "batch", "exchanged", "handler", "killed"}
      /\ ctl'.loop = l
  BY <1>1 DEF Entered, Holding, RemovePc, HeadPc, Entry, After
<1>4. DOMAIN mem' = MemFields /\ mem'.spareHeld \in BOOLEAN
  BY Zenon DEF FlowInv, HeldInv
<1>5. mem.spareHeld => l \in {"settle", "tidy", "drop"}
  BY DEF FlowInv, HeldInv, CtlInv, HeadPc, LoopOf
<1>6. HeldInv' BY <1>3, <1>4, <1>5 DEF FlowInv, HeldInv, Live
<1>7. CallFrame' BY <1>1 DEF CallFrame, Entered, RemovePc, Live, Entry, After
<1> QED BY <1>2, <1>6, <1>7 DEF FlowInv

-----------------------------------------------------------------------------
(* One lemma for each action: FlowInv is kept.                             *)
USE DEF FlowInv, CtlInv, CtlType, HeldInv, Holding, CallFrame, FrMade, FrRemove, At,
    Live, Goto, CallPc, BuildPc, NamePc, CommitPc, ReplacePc, HeadPc, RemovePc,
    LoopOf, Batch, Cur, Slot, Fault, FaultAt, Finish, AfterFill, Entry

(* remove_ours() looks at the name: the control keeps to its plan.         *)
LEMMA RemoveLstatFlow == FlowInv /\ RemoveLstat => FlowInv'
  BY DEF RemoveLstat, RemoveDone

(* remove_ours() unlinks: the control keeps to its plan.                   *)
LEMMA RemoveUnlinkFlow == FlowInv /\ RemoveUnlink => FlowInv'
  BY DEF RemoveUnlink, RemoveDone

(* cleanup_handler() takes over: the control keeps to its plan.            *)
LEMMA SignalTakenFlow == FlowInv /\ SignalTaken => FlowInv'
<1> SUFFICES ASSUME FlowInv, SignalTaken PROVE FlowInv' OBVIOUS
<1>1. ~mem.spareHeld /\ ~Holding BY DEF SignalTaken
<1>2. HeldInv' BY <1>1 DEF SignalTaken
<1>3. CtlInv' BY DEF SignalTaken
<1>4. CallFrame' BY WorldAssumption DEF SignalTaken, NoFrame, BackupSlot
<1> QED BY <1>2, <1>3, <1>4 DEF SignalTaken

(* The next armed slot of cleanup_handler() is the least one after the     *)
(* last visited.                                                           *)
LEMMA SlotsLeast ==
    ASSUME NEW S \in SUBSET Slots, S # {}
    PROVE  (CHOOSE k \in S : \A m \in S : k <= m) \in S
<1>1. S \in SUBSET Nat BY WorldAssumption DEF Slots, BackupSlot
<1> QED BY <1>1, LeastExists

(* cleanup_handler() visits the next slot or raises: the control keeps to  *)
(* its plan.                                                               *)
LEMMA HandlerStepFlow == FlowInv /\ HandlerStep => FlowInv'
<1> SUFFICES ASSUME FlowInv, HandlerStep PROVE FlowInv' OBVIOUS
<1> DEFINE later == {s \in Slots : s > fr.slot /\ Armed(s)}
           s     == CHOOSE k \in later : \A m \in later : k <= m
<1>1. ctl.pc = "handler" /\ ~Live /\ UNCHANGED <<kern, spec, sig, mem, held>>
  BY DEF HandlerStep
<1>2. CASE later = {}
  <2>1. Goto("killed") /\ UNCHANGED fr BY <1>2 DEF HandlerStep
  <2> QED BY <1>1, <2>1
<1>3. CASE later # {}
  <2>1. pending_remove(s, FALSE, "handler") BY <1>3 DEF HandlerStep
  <2>2. s \in later
    <3>1. later \in SUBSET Slots OBVIOUS
    <3> HIDE DEF later
    <3> QED BY <1>3, <3>1, SlotsLeast
  <2>3. Slots \subseteq 0..BackupSlot BY WorldAssumption DEF Slots, BackupSlot
  <2> HIDE DEF s
  <2> QED BY <1>1, <2>1, <2>2, <2>3 DEF pending_remove
<1> QED BY <1>2, <1>3

(* A signal comes: the control keeps to its plan.                          *)
LEMMA SignalFlow == FlowInv /\ Signal => FlowInv'
<1> SUFFICES ASSUME FlowInv, Signal PROVE FlowInv' OBVIOUS
<1>1. HeldInv' BY DEF Signal
<1>2. CtlInv' BY DEF Signal
<1>3. CallFrame' BY DEF Signal, IsPlain, Content, SetOwner
<1> QED BY <1>1, <1>2, <1>3 DEF Signal

(* pending_arm() after a name was made: the control keeps to its plan.     *)
LEMMA ArmFlow == FlowInv /\ Arm => FlowInv'
<1> SUFFICES ASSUME FlowInv, Arm PROVE FlowInv' OBVIOUS
<1>1. /\ ctl.pc = "made" /\ Goto(fr.then) /\ FrMade
      /\ CtlInv /\ HeldInv /\ Live /\ kern \in Kernels /\ spec \in Specs
      /\ kern' = kern /\ spec' = spec /\ sig' = sig /\ fr' = fr /\ mem' = mem
  BY DEF FlowInv, Arm, At, CallFrame, HeldInv, RemovePc, Live
<1>2. held' = IF fr.what = "over" THEN held ELSE held - 1 BY DEF Arm
<1>3. fr.then \in Pcs \cup {"next"}
  BY <1>1
     DEF FrMade, Pcs, CallPc, BuildPc, NamePc, CommitPc, ReplacePc, Finish, AfterFill
<1>4. ctl' \in CtlType /\ Live' BY <1>1, <1>3, GotoStep DEF Live
<1>5. CASE fr.then = "next"
  <2>1. Moves(ctl, ctl') BY <1>1, <1>3, <1>5, GotoStep
  <2>2. CtlInv' BY <1>1, <1>4, <2>1, MovesCtl
  <2>3. HeldInv'
    BY <1>1, <1>2, <1>4, <1>5, <2>1
       DEF HeldInv, Moves, Holding, FrMade, RemovePc, Live, Entry, After, CtlType
  <2>4. CallFrame'
    BY <1>1, <1>4, <1>5, <2>1
       DEF CallFrame, Moves, FrMade, RemovePc, Live, Entry, After, CtlType
  <2> QED BY <1>1, <2>2, <2>3, <2>4 DEF FlowInv
<1>6. CASE fr.then # "next"
  <2>1. /\ ctl'.pc = fr.then /\ ctl'.loop = ctl.loop /\ ctl'.todo = ctl.todo
        /\ ctl'.cur = ctl.cur /\ ctl'.first = ctl.first
    BY <1>1, <1>3, <1>6, GotoStep
  <2>2. CtlInv'
    BY <1>1, <1>4, <1>6, <2>1
       DEF CtlInv, FrMade, Finish, AfterFill, CallPc, BuildPc, NamePc, CommitPc,
           ReplacePc, HeadPc, RemovePc, Live, Batch, Cur
  <2>3. HeldInv'
    BY <1>1, <1>2, <1>4, <1>6, <2>1
       DEF HeldInv, Holding, FrMade, RemovePc, Live, Finish, AfterFill
  <2>4. CallFrame'
    BY <1>1, <1>4, <1>6, <2>1
       DEF CallFrame, FrMade, RemovePc, Live, Finish, AfterFill, Slot, Cur
  <2> QED BY <1>1, <2>2, <2>3, <2>4 DEF FlowInv
<1> QED BY <1>5, <1>6

(* create_excl() undoes its open: the control keeps to its plan.           *)
LEMMA UndoOpenFlow == FlowInv /\ UndoOpen => FlowInv'
  BY DEF UndoOpen

(* place_probe_mode() removes its probe: the control keeps to its plan.    *)
LEMMA ProbeDoneFlow == FlowInv /\ ProbeDone => FlowInv'
<1> SUFFICES ASSUME FlowInv, ProbeDone PROVE FlowInv' OBVIOUS
<1>1. DOMAIN mem' = DOMAIN mem /\ mem'.spareHeld = mem.spareHeld
  BY DEF ProbeDone, MemFields
<1>2. DOMAIN mem' = MemFields /\ mem'.spareHeld \in BOOLEAN BY <1>1, Zenon
<1> QED BY <1>1, <1>2 DEF ProbeDone, pending_remove

(* place_commit() renames without replacing: the control keeps to its      *)
(* plan.                                                                   *)
LEMMA CommitRenameFlow == FlowInv /\ CommitRename => FlowInv'
  BY DEF CommitRename

(* pending_clear() after place_commit(): the control keeps to its plan.    *)
LEMMA CommitClearFlow == FlowInv /\ CommitClear => FlowInv'
  BY DEF CommitClear

(* place_commit() links: the control keeps to its plan.                    *)
LEMMA CommitLinkFlow == FlowInv /\ CommitLink => FlowInv'
  BY DEF CommitLink

(* place_over() makes its placeholder: the control keeps to its plan.      *)
LEMMA CommitOverFlow == FlowInv /\ CommitOver => FlowInv'
  BY DEF CommitOver, Made

(* place_over() renames over the placeholder: the control keeps to its     *)
(* plan.                                                                   *)
LEMMA OverRenameFlow == FlowInv /\ OverRename => FlowInv'
<1> SUFFICES ASSUME FlowInv, OverRename PROVE FlowInv' OBVIOUS
<1>1. /\ ctl.pc = "over" /\ Live /\ UNCHANGED <<kern, spec, sig, mem, held>>
      /\ fr.what = "over" /\ fr.slot = 0
  BY DEF OverRename
<1>2. CASE Goto("renamed") /\ UNCHANGED fr BY <1>1, <1>2
<1>3. CASE /\ Goto("lstat")
           /\ fr' = [fr EXCEPT !.what = "remove", !.flag = FALSE, !.then = "overfailed"]
  BY <1>1, <1>3
<1> QED BY <1>2, <1>3 DEF OverRename

(* place_over() gives up: the control keeps to its plan.                   *)
LEMMA OverFailedFlow == FlowInv /\ OverFailed => FlowInv'
  BY DEF OverFailed

(* place_rename() takes the name over: the control keeps to its plan.      *)
LEMMA ReplaceRenameFlow == FlowInv /\ ReplaceRename => FlowInv'
  BY DEF ReplaceRename, pending_remove

(* The slots are cleared after a rename: the control keeps to its plan.    *)
LEMMA RenamedFlow == FlowInv /\ Renamed => FlowInv'
  BY DEF Renamed

(* place_exchange() exchanges the names: the control keeps to its plan.    *)
LEMMA ExchangeNamesFlow == FlowInv /\ ExchangeNames => FlowInv'
<1> SUFFICES ASSUME FlowInv, ExchangeNames PROVE FlowInv' OBVIOUS
<1>1. ctl.pc = "backed" /\ Live /\ UNCHANGED <<kern, spec, sig>> BY DEF ExchangeNames
<1>2. CASE /\ held' = IF mem.spareHeld THEN held ELSE held + 1
           /\ mem' = [mem EXCEPT !.spareHeld = TRUE]
           /\ Goto("exchanged") /\ UNCHANGED fr
  <2>1. DOMAIN mem' = MemFields /\ mem'.spareHeld = TRUE BY <1>2 DEF MemFields
  <2>2. held' = 1 BY <1>1, <1>2
  <2> QED BY <1>1, <1>2, <2>1, <2>2
<1>3. CASE pending_remove(BackupSlot, FALSE, "fail") /\ UNCHANGED <<held, mem>>
  BY <1>1, <1>3 DEF pending_remove
<1> QED BY <1>2, <1>3 DEF ExchangeNames

(* pending_retarget() after an exchange: the control keeps to its plan.    *)
LEMMA ExchangedFlow == FlowInv /\ Exchanged => FlowInv'
  BY DEF Exchanged

(* backup_make() has nothing to do: the control keeps to its plan.         *)
LEMMA backup_noneFlow == FlowInv /\ backup_none => FlowInv'
  BY DEF backup_none

(* backup_make() looks at the target: the control keeps to its plan.       *)
LEMMA backup_makeFlow == FlowInv /\ backup_make => FlowInv'
<1> SUFFICES ASSUME FlowInv, backup_make PROVE FlowInv' OBVIOUS
<1>1. DOMAIN mem' = DOMAIN mem /\ mem'.spareHeld = mem.spareHeld
  BY DEF backup_make, MemFields
<1>2. DOMAIN mem' = MemFields /\ mem'.spareHeld \in BOOLEAN BY <1>1, Zenon
<1> QED BY <1>1, <1>2 DEF backup_make

(* backup_next() finds the first number: the control keeps to its plan.    *)
LEMMA backup_nextFlow == FlowInv /\ backup_next => FlowInv'
<1> SUFFICES ASSUME FlowInv, backup_next PROVE FlowInv' OBVIOUS
<1>1. DOMAIN mem' = DOMAIN mem /\ mem'.spareHeld = mem.spareHeld
  BY DEF backup_next, MemFields
<1>2. DOMAIN mem' = MemFields /\ mem'.spareHeld \in BOOLEAN BY <1>1, Zenon
<1> QED BY <1>1, <1>2 DEF backup_next

(* backup_numbered() tries a number: the control keeps to its plan.        *)
LEMMA backup_numberedFlow == FlowInv /\ backup_numbered => FlowInv'
<1> SUFFICES ASSUME FlowInv, backup_numbered PROVE FlowInv' OBVIOUS
<1>1. DOMAIN mem' = DOMAIN mem /\ mem'.spareHeld = mem.spareHeld
  BY DEF backup_numbered, MemFields
<1>2. DOMAIN mem' = MemFields /\ mem'.spareHeld \in BOOLEAN BY <1>1, Zenon
<1> QED BY <1>1, <1>2 DEF backup_numbered, backup_link, Made, NoLink

(* digits_inc() runs out of memory: the control keeps to its plan.         *)
LEMMA OutOfNumbersFlow == FlowInv /\ OutOfNumbers => FlowInv'
  BY DEF OutOfNumbers

(* backup_note() remembers a number: the control keeps to its plan.        *)
LEMMA backup_noteFlow == FlowInv /\ backup_note => FlowInv'
<1> SUFFICES ASSUME FlowInv, backup_note PROVE FlowInv' OBVIOUS
<1>1. DOMAIN mem' = DOMAIN mem /\ mem'.spareHeld = mem.spareHeld
  BY DEF backup_note, MemFields
<1>2. DOMAIN mem' = MemFields /\ mem'.spareHeld \in BOOLEAN BY <1>1, Zenon
<1> QED BY <1>1, <1>2 DEF backup_note

(* backup_simple() links to the free name: the control keeps to its plan.  *)
LEMMA backup_simpleFlow == FlowInv /\ backup_simple => FlowInv'
  BY DEF backup_simple, backup_link, Made, NoLink

(* place_temp_alias() makes the alias: the control keeps to its plan.      *)
LEMMA place_temp_aliasFlow == FlowInv /\ place_temp_alias => FlowInv'
  BY DEF place_temp_alias, temp_make, Made, NoTemp

(* The alias is renamed over the simple backup: the control keeps to its   *)
(* plan.                                                                   *)
LEMMA OverBackupFlow == FlowInv /\ OverBackup => FlowInv'
  BY DEF OverBackup, pending_remove

(* build_one() up to its open: the control keeps to its plan.              *)
LEMMA build_oneFlow == FlowInv /\ build_one => FlowInv'
<1> SUFFICES ASSUME FlowInv, build_one PROVE FlowInv' OBVIOUS
<1>1. ctl.pc = "build" /\ Live /\ UNCHANGED <<kern, spec, sig, mem>> BY DEF build_one
<1>2. CASE IsPlain /\ Made("plain", Slot(Cur), Path, New(Cur), New(Cur), TRUE, "next")
  <2>1. IsPlain' BY <1>1, <1>2 DEF IsPlain, Content, SetOwner
  <2> QED BY <1>1, <1>2, <2>1 DEF Made
<1>3. CASE /\ UNCHANGED <<held, fr>>
           /\ \E l \in {"probe", "open", "private", "fill", "chown", "chmod",
                 "fail"} : Goto(l)
  BY <1>1, <1>3
<1> QED BY <1>1, <1>2, <1>3 DEF build_one

(* place_probe_mode() makes its probe: the control keeps to its plan.      *)
LEMMA place_probe_modeFlow == FlowInv /\ place_probe_mode => FlowInv'
  BY DEF place_probe_mode, temp_make, Made, NoTemp

(* open_built() opens a temporary file: the control keeps to its plan.     *)
LEMMA open_builtFlow == FlowInv /\ open_built => FlowInv'
<1> SUFFICES ASSUME FlowInv, open_built PROVE FlowInv' OBVIOUS
<1>1. ctl.pc = "open" /\ Live /\ UNCHANGED <<kern, spec, sig, mem>> BY DEF open_built
<1>2. Finish' = Finish BY <1>1 DEF Content, SetOwner
<1>3. CASE temp_make("temp", Slot(Cur), New(Cur), New(Cur), TRUE, Finish)
  BY <1>1, <1>2, <1>3 DEF temp_make, Made
<1>4. CASE NoTemp("fail") BY <1>1, <1>4 DEF NoTemp
<1> QED BY <1>3, <1>4 DEF open_built

(* finish_built() makes the file private: the control keeps to its plan.   *)
LEMMA FinishPrivateFlow == FlowInv /\ FinishPrivate => FlowInv'
  BY DEF FinishPrivate

(* finish_built() links the file early: the control keeps to its plan.     *)
LEMMA FinishLinkFlow == FlowInv /\ FinishLink => FlowInv'
<1> SUFFICES ASSUME FlowInv, FinishLink PROVE FlowInv' OBVIOUS
<1>1. ctl.pc = "templink" /\ Live /\ UNCHANGED <<kern, spec, sig, mem>>
  BY DEF FinishLink
<1>2. Finish' = Finish BY <1>1 DEF Content, SetOwner
<1>3. CASE temp_make("link", Slot(Cur), New(Cur), New(Cur), FALSE, Finish)
  BY <1>1, <1>2, <1>3 DEF temp_make, Made
<1>4. CASE NoTemp("fail") BY <1>1, <1>4 DEF NoTemp
<1> QED BY <1>3, <1>4 DEF FinishLink

(* fill_one() writes: the control keeps to its plan.                       *)
LEMMA fill_oneFlow == FlowInv /\ fill_one => FlowInv'
  BY DEF fill_one

(* finish_built() changes the owner: the control keeps to its plan.        *)
LEMMA FinishOwnerFlow == FlowInv /\ FinishOwner => FlowInv'
  BY DEF FinishOwner

(* finish_built() sets the mode: the control keeps to its plan.            *)
LEMMA FinishModeFlow == FlowInv /\ FinishMode => FlowInv'
  BY NextFlow DEF FinishMode

(* flush_batch() closes one file: the control keeps to its plan.           *)
LEMMA close_opFlow == FlowInv /\ close_op => FlowInv'
  BY NextFlow DEF close_op

(* name_one() with -f: the control keeps to its plan.                      *)
LEMMA NameForceFlow == FlowInv /\ NameForce => FlowInv'
  BY DEF NameForce, temp_make, Made, NoTemp

(* name_one() of an unnamed file: the control keeps to its plan.           *)
LEMMA NameUnnamedFlow == FlowInv /\ NameUnnamed => FlowInv'
  BY DEF NameUnnamed

(* name_one() of a temporary file: the control keeps to its plan.          *)
LEMMA NameTempFlow == FlowInv /\ NameTemp => FlowInv'
  BY DEF NameTemp

(* name_one() of a file created in place: the control keeps to its plan.   *)
LEMMA NamePlainFlow == FlowInv /\ NamePlain => FlowInv'
  BY DEF NamePlain

(* replace_one() flushes the backup: the control keeps to its plan.        *)
LEMMA FlushBackupFlow == FlowInv /\ FlushBackup => FlowInv'
  BY DEF FlushBackup, pending_remove

(* flush_set_add() remembers the directory: the control keeps to its plan. *)
LEMMA flush_set_addFlow == FlowInv /\ flush_set_add => FlowInv'
<1> SUFFICES ASSUME FlowInv, flush_set_add PROVE FlowInv' OBVIOUS
<1>1. DOMAIN mem' = DOMAIN mem /\ mem'.spareHeld = mem.spareHeld
  BY DEF flush_set_add, MemFields
<1>2. DOMAIN mem' = MemFields /\ mem'.spareHeld \in BOOLEAN BY <1>1, Zenon
<1> QED BY <1>1, <1>2, NextFlow DEF flush_set_add

(* settle_batch() closes one file: the control keeps to its plan.          *)
LEMMA SettleOneFlow == FlowInv /\ SettleOne => FlowInv'
  BY NextFlow DEF SettleOne, pending_remove

(* settle_batch() is through with one file: the control keeps to its plan. *)
LEMMA TidiedFlow == FlowInv /\ Tidied => FlowInv'
  BY NextFlow DEF Tidied

(* op_fail() closes and removes: the control keeps to its plan.            *)
LEMMA op_failFlow == FlowInv /\ op_fail => FlowInv'
  BY DEF op_fail, pending_remove

(* op_fail() is through: the control keeps to its plan.                    *)
LEMMA OpFailedFlow == FlowInv /\ OpFailed => FlowInv'
  BY NextFlow DEF OpFailed

(* drop_spares() looks at one old file: the control keeps to its plan.     *)
LEMMA drop_sparesFlow == FlowInv /\ drop_spares => FlowInv'
  BY DEF drop_spares, pending_remove

(* drop_spares() is through with one old file: the control keeps to its    *)
(* plan.                                                                   *)
LEMMA DroppedFlow == FlowInv /\ Dropped => FlowInv'
  BY NextFlow DEF Dropped

(* drop_spares() releases the signals: the control keeps to its plan.      *)
LEMMA DropReleaseFlow == FlowInv /\ DropRelease => FlowInv'
  BY DEF DropRelease

(* report_one(), and the next batch: the control keeps to its plan.        *)
LEMMA report_oneFlow == FlowInv /\ report_one => FlowInv'
<1> SUFFICES ASSUME FlowInv, report_one PROVE FlowInv' OBVIOUS
<1>1. /\ ctl.pc = "report" /\ Live /\ UNCHANGED <<kern, spec, sig, fr, held>>
      /\ ~mem.spareHeld /\ ctl.todo = {} /\ ctl.loop = "drop"
  BY DEF report_one
<1>2. DOMAIN mem' = MemFields /\ mem'.spareHeld = mem.spareHeld
  BY DEF report_one, MemFields
<1>3. ctl' \in CtlType /\ ctl'.pc \in {"batch", "exit"} /\ ctl'.todo = {}
      /\ ctl'.loop = "drop"
  <2>1. CASE ctl.first + BatchSize <= NOps
    <3>1. ctl.first + BatchSize \in Ops BY <2>1, WorldAssumption DEF Ops
    <3> QED BY <1>1, <2>1, <3>1 DEF report_one
  <2>2. CASE ~(ctl.first + BatchSize <= NOps) BY <1>1, <2>2 DEF report_one
  <2> QED BY <2>1, <2>2
<1> QED BY <1>1, <1>2, <1>3

(* Another process makes or removes a file: the control keeps to its plan. *)
LEMMA OtherFlow == FlowInv /\ (OtherStep \/ UNCHANGED vars) => FlowInv'
<1> SUFFICES ASSUME FlowInv, UNCHANGED <<kern, spec, held, sig, ctl, fr,
      mem>> PROVE FlowInv'
  BY DEF OtherStep, OtherPut, OtherUnlink, vars
<1> QED BY DEF IsPlain, Content, SetOwner

(* The control starts at batch_run().                                      *)
LEMMA InitFlow == Init => FlowInv
 BY WorldAssumption DEF Init, MemFields, Ops

-----------------------------------------------------------------------------
HIDE DEF FlowInv, CtlInv, CtlType, HeldInv, Holding, CallFrame, FrMade, FrRemove, At,
    Live, Goto, CallPc, BuildPc, NamePc, CommitPc, ReplacePc, HeadPc, RemovePc,
    LoopOf, Batch, Cur, Slot, Fault, FaultAt, Finish, AfterFill, Entry

(* batch_run() starts to build: the control keeps to its plan.             *)
LEMMA batch_runFlow == FlowInv /\ batch_run => FlowInv'
<1> SUFFICES ASSUME FlowInv, batch_run PROVE FlowInv' OBVIOUS
<1>1. DOMAIN mem' = DOMAIN mem /\ mem'.spareHeld = mem.spareHeld
  BY DEF batch_run, FlowInv, HeldInv, MemFields
<1>2. Live /\ ctl.pc \in HeadPc
  BY DEF batch_run, At, FlowInv, HeldInv, HeadPc, RemovePc, Live
<1>3. Batch \in SUBSET Batch BY DEF Opened, Kept
<1>4. ctl' = Loop("build", Batch) BY DEF batch_run
<1> QED BY <1>1, <1>2, <1>3, <1>4, LoopFlow DEF batch_run, At, Entry

(* flush_batch() flushes: the control keeps to its plan.                   *)
LEMMA flush_batchFlow == FlowInv /\ flush_batch => FlowInv'
<1> SUFFICES ASSUME FlowInv, flush_batch PROVE FlowInv' OBVIOUS
<1>1. DOMAIN mem' = DOMAIN mem /\ mem'.spareHeld = mem.spareHeld
  BY DEF flush_batch, FlowInv, HeldInv, MemFields
<1>2. Live /\ ctl.pc \in HeadPc
  BY DEF flush_batch, At, FlowInv, HeldInv, HeadPc, RemovePc, Live
<1>3. PICK s \in SUBSET Opened : ctl' = Loop("flush", s) BY DEF flush_batch, flush_ops
<1>4. s \in SUBSET Batch BY DEF Opened, Kept
<1> QED BY <1>1, <1>2, <1>3, <1>4, LoopFlow DEF flush_batch, At, Entry

(* flush_batch() starts to close: the control keeps to its plan.           *)
LEMMA FlushCloseFlow == FlowInv /\ FlushClose => FlowInv'
<1> SUFFICES ASSUME FlowInv, FlushClose PROVE FlowInv' OBVIOUS
<1>1. DOMAIN mem' = DOMAIN mem /\ mem'.spareHeld = mem.spareHeld
  BY DEF FlushClose, FlowInv, HeldInv, MemFields
<1>2. Live /\ ctl.pc \in HeadPc
  BY DEF FlushClose, At, FlowInv, HeldInv, HeadPc, RemovePc, Live
<1>3. {i \in Opened : op[i].way = "plain"} \in SUBSET Batch BY DEF Opened, Kept
<1>4. ctl' = Loop("close", {i \in Opened : op[i].way = "plain"}) BY DEF FlushClose
<1> QED BY <1>1, <1>2, <1>3, <1>4, LoopFlow DEF FlushClose, At, Entry

(* batch_run() starts to name: the control keeps to its plan.              *)
LEMMA NameBatchFlow == FlowInv /\ NameBatch => FlowInv'
<1> SUFFICES ASSUME FlowInv, NameBatch PROVE FlowInv' OBVIOUS
<1>1. DOMAIN mem' = DOMAIN mem /\ mem'.spareHeld = mem.spareHeld
  BY DEF NameBatch, FlowInv, HeldInv, MemFields
<1>2. Live /\ ctl.pc \in HeadPc
  BY DEF NameBatch, At, FlowInv, HeldInv, HeadPc, RemovePc, Live
<1>3. Kept \in SUBSET Batch BY DEF Opened, Kept
<1>4. ctl' = Loop("name", Kept) BY DEF NameBatch
<1> QED BY <1>1, <1>2, <1>3, <1>4, LoopFlow DEF NameBatch, At, Entry

(* settle_batch() flushes: the control keeps to its plan.                  *)
LEMMA settle_batchFlow == FlowInv /\ settle_batch => FlowInv'
<1> SUFFICES ASSUME FlowInv, settle_batch PROVE FlowInv' OBVIOUS
<1>1. DOMAIN mem' = DOMAIN mem /\ mem'.spareHeld = mem.spareHeld
  BY DEF settle_batch, FlowInv, HeldInv, MemFields
<1>2. Live /\ ctl.pc \in HeadPc
  BY DEF settle_batch, At, FlowInv, HeldInv, HeadPc, RemovePc, Live
<1>3. PICK s \in SUBSET Opened : ctl' = Loop("settle", s) BY DEF settle_batch, flush_ops
<1>4. s \in SUBSET Batch BY DEF Opened, Kept
<1> QED BY <1>1, <1>2, <1>3, <1>4, LoopFlow DEF settle_batch, At, Entry

(* settle_batch() starts to close: the control keeps to its plan.          *)
LEMMA SettleCloseFlow == FlowInv /\ SettleClose => FlowInv'
<1> SUFFICES ASSUME FlowInv, SettleClose PROVE FlowInv' OBVIOUS
<1>1. DOMAIN mem' = DOMAIN mem /\ mem'.spareHeld = mem.spareHeld
  BY DEF SettleClose, FlowInv, HeldInv, MemFields
<1>2. Live /\ ctl.pc \in HeadPc
  BY DEF SettleClose, At, FlowInv, HeldInv, HeadPc, RemovePc, Live
<1>3. Opened \in SUBSET Batch BY DEF Opened, Kept
<1>4. ctl' = Loop("tidy", Opened) BY DEF SettleClose
<1> QED BY <1>1, <1>2, <1>3, <1>4, LoopFlow DEF SettleClose, At, Entry

(* flush_set_run(), and drop_spares() starts: the control keeps to its     *)
(* plan.                                                                   *)
LEMMA flush_set_runFlow == FlowInv /\ flush_set_run => FlowInv'
<1> SUFFICES ASSUME FlowInv, flush_set_run PROVE FlowInv' OBVIOUS
<1>1. DOMAIN mem' = DOMAIN mem /\ mem'.spareHeld = mem.spareHeld
  BY DEF flush_set_run, FlowInv, HeldInv, MemFields
<1>2. Live /\ ctl.pc \in HeadPc
  BY DEF flush_set_run, At, FlowInv, HeldInv, HeadPc, RemovePc, Live
<1>3. {i \in Batch : op[i].spare # None} \in SUBSET Batch BY DEF Opened, Kept
<1>4. ctl' = Loop("drop", {i \in Batch : op[i].spare # None}) BY DEF flush_set_run
<1> QED BY <1>1, <1>2, <1>3, <1>4, LoopFlow DEF flush_set_run, At, Entry

(* Every step keeps the control to its plan.                               *)
LEMMA FlowStep == FlowInv /\ [Next]_vars => FlowInv'
<1> SUFFICES ASSUME FlowInv, [Next]_vars PROVE FlowInv' OBVIOUS
<1> USE DEF Program
<1>1. CASE PendingStep
  BY <1>1, RemoveLstatFlow, RemoveUnlinkFlow, SignalTakenFlow, HandlerStepFlow
     DEF PendingStep
<1>2. CASE PlaceStep
  BY <1>2, ArmFlow, UndoOpenFlow, ProbeDoneFlow, CommitRenameFlow, CommitClearFlow,
     CommitLinkFlow, CommitOverFlow, OverRenameFlow, OverFailedFlow,
     ReplaceRenameFlow, RenamedFlow, ExchangeNamesFlow, ExchangedFlow
     DEF PlaceStep
<1>3. CASE BackupStep
  BY <1>3, backup_noneFlow, backup_makeFlow, backup_nextFlow, backup_numberedFlow,
     OutOfNumbersFlow, backup_noteFlow, backup_simpleFlow, place_temp_aliasFlow,
     OverBackupFlow
     DEF BackupStep
<1>4. CASE BatchStep
  BY <1>4, batch_runFlow, build_oneFlow, place_probe_modeFlow, open_builtFlow,
     FinishPrivateFlow, FinishLinkFlow, fill_oneFlow, FinishOwnerFlow,
     FinishModeFlow, flush_batchFlow, FlushCloseFlow, close_opFlow, NameBatchFlow,
     NameForceFlow, NameUnnamedFlow, NameTempFlow, NamePlainFlow, FlushBackupFlow,
     flush_set_addFlow, settle_batchFlow, SettleCloseFlow, SettleOneFlow,
     TidiedFlow, op_failFlow, OpFailedFlow, flush_set_runFlow, drop_sparesFlow,
     DroppedFlow, DropReleaseFlow, report_oneFlow
     DEF BatchStep
<1>5. CASE Signal BY <1>5, SignalFlow
<1>6. CASE OtherStep \/ UNCHANGED vars BY <1>6, OtherFlow
<1> QED BY <1>1, <1>2, <1>3, <1>4, <1>5, <1>6 DEF Next, Ended

(* The program's control: each step belongs to its loop of batch.c, each   *)
(* call in progress has the frame its caller gave it, and signals are held *)
(* exactly around the changes of names and from the first exchange of a    *)
(* batch to drop_spares().                                                 *)
THEOREM FlowTheorem == Spec => []FlowInv
<1> QED BY InitFlow, FlowStep, PTL DEF Spec

==============================================================================
