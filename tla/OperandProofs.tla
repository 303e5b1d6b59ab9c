--------------------------- MODULE OperandProofs -----------------------------
(***************************************************************************)
(* Every operand is at the stage the program's loops expect: OpsInv of     *)
(* NewfileInv is an invariant of Spec. A step of the call in hand touches  *)
(* one operand; the others are dealt with once, in StayRest, NextRest and  *)
(* EnterRest, and each action has a lemma for the operand in hand.         *)
(***************************************************************************)
EXTENDS ControlProofs, FiniteSetTheorems

(* Names: paths, temporary names and backups are apart.                    *)
LEMMA Names0 ==
    /\ Targets \subseteq Names /\ Temps \subseteq Names /\ None \notin Names
    /\ Targets \cap Temps = {}
    /\ \A t \in Targets : Backups(t) \subseteq Names
          /\ Backups(t) \cap (Targets \cup Temps) = {}
    /\ \A i \in Ops : Operand[i] \in Targets
  BY WorldAssumption DEF Names

(* Inodes: what this run made is not what it found, and files are told     *)
(* apart by operand and by use.                                            *)
LEMMA Inodes0 ==
    /\ None \notin Inodes
    /\ \A i \in Ops : New(i) \in Ours /\ Hold(i) \in Ours /\ Probe(i) \in Ours
    /\ Ours \subseteq Inodes /\ Others \subseteq Inodes /\ Foreign \subseteq Inodes
    /\ Ours \cap Foreign = {} /\ Others \subseteq Foreign
    /\ \A i, j : New(i) = New(j) => i = j
    /\ \A i, j : New(i) # Hold(j) /\ New(i) # Probe(j) /\ Hold(i) # Probe(j)
<1>1. None \notin Inodes BY WorldAssumption
<1>2. \A i, j : New(i) = New(j) => i = j BY DEF New
<1>3. \A i, j : New(i) # Hold(j) /\ New(i) # Probe(j) /\ Hold(i) # Probe(j)
  BY DEF New, Hold, Probe
<1>4. Ours \cap Foreign = {} BY DEF Ours, Foreign, Others, New, Hold, Probe, Old, Other
<1>5. \A i \in Ops : New(i) \in Ours /\ Hold(i) \in Ours /\ Probe(i) \in Ours
  BY DEF Ours
<1> QED BY <1>1, <1>2, <1>3, <1>4, <1>5 DEF Inodes, Foreign

(* The operands of a batch have slots of their own in pending[], apart     *)
(* from PENDING_BACKUP.                                                    *)
LEMMA Slots0 ==
    ASSUME CtlInv
    PROVE  /\ Batch \subseteq Ops /\ Ops \subseteq Nat
           /\ BackupSlot \in Slots /\ 1..BatchSize \subseteq Slots /\ 0 \notin Slots
           /\ \A i \in Batch : Slot(i) \in 1..BatchSize /\ Slot(i) \in Slots
                 /\ Slot(i) # BackupSlot
           /\ \A i, j \in Batch : Slot(i) = Slot(j) => i = j
           /\ \A i \in Batch : i <= ctl.first + BatchSize - 1
<1>1. ctl.first \in Ops /\ BatchSize \in Nat \ {0} /\ NOps \in Nat \ {0}
  BY WorldAssumption DEF CtlInv, CtlType
<1> QED BY <1>1 DEF Batch, Ops, Slot, BackupSlot, Slots

(* A step leaves operand i alone.                                          *)
KeptAt(i) ==
    /\ op'[i] = op[i] /\ file'[i] = file[i] /\ pending'[Slot(i)] = pending[Slot(i)]
    /\ op[i].tmp \in Temps /\ dir[op[i].tmp] = New(i) => dir'[op[i].tmp] = New(i)

(* An operand a step leaves alone stays at its stage.                      *)
LEMMA StageKept ==
    ASSUME NEW i, KeptAt(i), spec' = spec, ctl'.first = ctl.first, NEW l
    PROVE  /\ Todo(l, i) => Todo(l, i)'
           /\ Done(l, i) => Done(l, i)'
<1> USE DEF KeptAt
<1>1. Slot(i)' = Slot(i) /\ (Armed(Slot(i))' <=> Armed(Slot(i))) BY DEF Slot, Armed
<1>2. Finished(i)' <=> Finished(i) BY DEF Finished, Content, SetOwner
<1>3. IsPlain' <=> IsPlain BY DEF IsPlain, Content, SetOwner
<1>4. Temporary(i) => Temporary(i)' BY <1>1 DEF Temporary, Raw, Guards
<1>5. /\ Cleared(i)' <=> Cleared(i)
      /\ Spared(i)' <=> Spared(i)
      /\ Nameless(i)' <=> Nameless(i)
      /\ InPlace(i)' <=> InPlace(i)
  BY <1>1, <1>3 DEF Cleared, Spared, Nameless, Raw, InPlace, Guards
<1>6. Built(i) => Built(i)' BY <1>2, <1>3, <1>4, <1>5 DEF Built
<1>7. Named(i) => Named(i)' BY <1>2, <1>3, <1>4, <1>5 DEF Named, Complete
<1>8. Settled(i) => Settled(i)' BY <1>2, <1>5 DEF Settled, Complete
<1>9. Failed(i) => Failed(i)' BY <1>5 DEF Failed
<1>10. Pristine(i)' <=> Pristine(i) BY DEF Pristine
<1> QED BY <1>1, <1>5, <1>6, <1>7, <1>8, <1>9, <1>10 DEF Todo, Done, ToName, Past

(* A step of the call in hand leaves the other operands and their slots    *)
(* alone.                                                                  *)
KeptOthers ==
    /\ \A j \in Ops \ {Cur} : op'[j] = op[j] /\ file'[j] = file[j]
    /\ \A s \in Slots \ {Slot(Cur), BackupSlot} : pending'[s] = pending[s]
    /\ \A j \in Batch \ {Cur} :
         op[j].tmp \in Temps /\ dir[op[j].tmp] = New(j) => dir'[op[j].tmp] = New(j)

InCall == /\ Live /\ ctl.pc \in CallPc /\ sig' = sig /\ spec' = spec /\ KeptOthers

(* The other operands of the batch are left alone by the call in hand.     *)
LEMMA OthersKept ==
    ASSUME FlowInv, InCall, NEW j \in Batch \ {Cur}
    PROVE  KeptAt(j)
<1>1. Cur \in Batch BY DEF FlowInv, CtlInv, InCall, RemovePc
<1>2. Slot(j) \in Slots \ {Slot(Cur), BackupSlot} /\ j \in Ops
  BY <1>1, Slots0 DEF FlowInv
<1> QED BY <1>1, <1>2 DEF InCall, KeptOthers, KeptAt

(* So are the operands of later batches, and the slots nobody uses.        *)
LEMMA LaterKept ==
    ASSUME FlowInv, RestInv, InCall, ctl'.first = ctl.first
    PROVE  /\ \A j \in Ops : j > ctl'.first + BatchSize - 1 => Pristine(j)'
           /\ \A s \in 1..BatchSize : s + ctl'.first - 1 \notin Batch' => ~Armed(s)'
<1>1. Cur \in Batch BY DEF FlowInv, CtlInv, InCall, RemovePc
<1>2. Batch' = Batch BY DEF Batch
<1>3. \A j \in Ops : j > ctl.first + BatchSize - 1 => j # Cur
  <2>1. ctl.first \in Nat /\ BatchSize \in Nat
    BY WorldAssumption DEF FlowInv, CtlInv, CtlType, Ops
  <2>2. Cur \in Nat /\ Cur <= ctl.first + BatchSize - 1 BY <1>1, Slots0 DEF FlowInv
  <2> QED BY <2>1, <2>2 DEF Ops
<1>4. \A s \in 1..BatchSize : s + ctl.first - 1 \notin Batch =>
        s \in Slots \ {Slot(Cur), BackupSlot}
  <2>1. ctl.first \in Nat /\ BatchSize \in Nat
    BY WorldAssumption DEF FlowInv, CtlInv, CtlType, Ops
  <2>2. Cur \in Nat BY <1>1, <2>1 DEF Batch
  <2>3. \A s \in 1..BatchSize : s = Slot(Cur) => s + ctl.first - 1 = Cur
    BY <2>1, <2>2 DEF Slot
  <2>4. \A s \in 1..BatchSize : s \in Slots /\ s # BackupSlot
    BY <2>1 DEF Slots, BackupSlot
  <2> QED BY <1>1, <2>3, <2>4
<1>5. \A s \in 1..BatchSize : s + ctl'.first - 1 \notin Batch' => ~Armed(s)'
  BY <1>2, <1>4 DEF RestInv, InCall, KeptOthers, Armed
<1> QED BY <1>3, <1>5 DEF RestInv, InCall, KeptOthers, Pristine

(* The call in hand goes on: the other operands stay at their stages.      *)
LEMMA StayRest ==
    ASSUME FlowInv, RestInv, InCall, ctl'.pc \in CallPc,
           ctl'.loop = ctl.loop, ctl'.todo = ctl.todo, ctl'.cur = ctl.cur,
           ctl'.first = ctl.first
    PROVE  RestInv'
<1>1. Batch' = Batch /\ Cur' = Cur BY DEF Batch, Cur
<1>2. ASSUME NEW j \in Batch \ {Cur} PROVE Rest(j)'
  <2>1. KeptAt(j) BY OthersKept
  <2>2. PICK l : l = ctl.loop OBVIOUS
  <2>3. Rest(j) BY DEF RestInv, InCall
  <2>4. CASE j \in ctl.todo
    <3>1. Todo(l, j)' BY <2>1, <2>2, <2>3, <2>4, StageKept DEF Rest, InCall
    <3> QED BY <2>2, <2>4, <3>1 DEF Rest, Todo
  <2>5. CASE j \notin ctl.todo
    <3>1. Done(l, j)' BY <2>1, <2>2, <2>3, <2>5, StageKept DEF Rest, InCall
    <3> QED BY <2>2, <2>5, <3>1 DEF Rest, Done
  <2> QED BY <2>4, <2>5
<1>3. ctl'.pc \notin HeadPc
  BY DEF CallPc, BuildPc, NamePc, CommitPc, ReplacePc, RemovePc, HeadPc
<1> QED BY <1>1, <1>2, <1>3, LaterKept DEF RestInv, HeadPc

(* A loop goes on with the operands of s: those are as the loop expects    *)
(* them, the others as it leaves them.                                     *)
LEMMA GoOnRest ==
    ASSUME NEW l \in DOMAIN Entry, NEW s \in SUBSET Batch, Batch' = Batch, Live',
           ctl'.loop = l,
           \/ s = {} /\ ctl'.pc = After[l] /\ ctl'.todo = {}
           \/ ctl'.pc = Entry[l] /\ ctl'.cur \in s /\ ctl'.todo = s \ {ctl'.cur},
           \A j \in Batch : (j \in s => Todo(l, j)') /\ (j \notin s => Done(l, j)'),
           \A j \in Ops : j > ctl'.first + BatchSize - 1 => Pristine(j)',
           \A x \in 1..BatchSize : x + ctl'.first - 1 \notin Batch' => ~Armed(x)',
           Bared'
    PROVE  RestInv' /\ CallInv(Cur)' /\ RemoveFrame'
<1>1. l \in {"build", "flush", "close", "name", "settle", "tidy", "drop"} BY DEF Entry
<1>2. CASE s = {} /\ ctl'.pc = After[l] /\ ctl'.todo = {}
  <2>1. ASSUME NEW j \in Batch PROVE Rest(j)'
    <3>1. Done(l, j)' BY <1>2
    <3> QED BY <1>2, <3>1 DEF Rest, Done
  <2>2. ctl'.pc \in HeadPc \ {"batch", "exit"} BY <1>1, <1>2 DEF HeadPc, After
  <2>3. RestInv'
    BY <2>1, <2>2
       DEF RestInv, HeadPc, CallPc, BuildPc, NamePc, CommitPc, ReplacePc, RemovePc
  <2> QED BY <2>2, <2>3 DEF CallInv, RemoveFrame, HeadPc, CommitPc, ReplacePc, RemovePc,
                            BackupPc
<1>3. CASE ctl'.pc = Entry[l] /\ ctl'.cur \in s /\ ctl'.todo = s \ {ctl'.cur}
  <2> PICK k : k = ctl'.cur OBVIOUS
  <2>1. ASSUME NEW j \in Batch, j # k PROVE Rest(j)'
    <3>1. CASE j \in s
      <4>1. Todo(l, j)' BY <3>1
      <4> QED BY <1>3, <2>1, <3>1, <4>1 DEF Rest, Todo
    <3>2. CASE j \notin s
      <4>1. Done(l, j)' BY <3>2
      <4> QED BY <1>3, <2>1, <3>2, <4>1 DEF Rest, Done
    <3> QED BY <3>1, <3>2
  <2>2. Todo(l, k)' BY <1>3
  <2>3. ctl'.pc \in CallPc \ HeadPc
    BY <1>1, <1>3 DEF HeadPc, Entry, CallPc, BuildPc, NamePc, CommitPc
  <2>4. RestInv' BY <2>1, <2>3 DEF RestInv, Cur, HeadPc
  <2>5. CallInv(Cur)'
    BY <1>1, <1>3, <2>2
       DEF CallInv, Todo, Failing, Built, Named, InPlace, Temporary, Nameless, Cleared,
           Raw,
           Cur, Entry, CommitPc, ReplacePc, RemovePc, BackupPc
  <2>6. RemoveFrame' BY <1>1, <1>3 DEF RemoveFrame, Entry, RemovePc
  <2> QED BY <2>4, <2>5, <2>6
<1> QED BY <1>2, <1>3

(* The call in hand ends: its operand joins the others, the loop goes on.  *)
LEMMA NextRest ==
    ASSUME FlowInv, RestInv, InCall, Goto("next"), NEW i, i = Cur, NEW l, l = ctl.loop,
           Done(l, i)', Bared'
    PROVE  RestInv' /\ CallInv(Cur)' /\ RemoveFrame'
<1>1. Moves(ctl, ctl') /\ ctl' \in CtlType BY GotoStep DEF FlowInv
<1>2. Batch' = Batch BY <1>1 DEF Batch, Moves
<1>3. Cur \in Batch /\ Cur \notin ctl.todo /\ ctl.todo \subseteq Batch
  BY WorldAssumption DEF FlowInv, CtlInv, CtlType, InCall, RemovePc, Ops
<1>4. ctl'.loop = l /\ ctl'.first = ctl.first /\ l \in DOMAIN Entry
  BY <1>1 DEF Moves, FlowInv, CtlInv, CtlType
<1>5. ASSUME NEW j \in Batch
      PROVE  /\ j \in ctl.todo => Todo(l, j)'
             /\ j \notin ctl.todo => Done(l, j)'
  <2>1. CASE j = i BY <1>3, <2>1
  <2>2. CASE j # i
    <3>1. KeptAt(j) BY <2>2, OthersKept
    <3>2. Rest(j) BY <2>2 DEF RestInv, InCall
    <3> QED BY <1>4, <3>1, <3>2, StageKept DEF Rest, InCall
  <2> QED BY <2>1, <2>2
<1>6. Live' BY DEF InCall, Live
<1>7. \/ ctl.todo = {} /\ ctl'.pc = After[l] /\ ctl'.todo = {}
      \/ ctl'.pc = Entry[l] /\ ctl'.cur \in ctl.todo
            /\ ctl'.todo = ctl.todo \ {ctl'.cur}
  BY <1>1 DEF Moves
<1> QED BY <1>2, <1>3, <1>4, <1>5, <1>6, <1>7, LaterKept, GoOnRest

(* A loop is entered from its head.                                        *)
LEMMA EnterRest ==
    ASSUME FlowInv, RestInv, Live, sig' = sig, spec' = spec, pending' = pending,
          op' = op,
           \A j \in Ops \ Batch : file'[j] = file[j],
           NEW l \in DOMAIN Entry, NEW s \in SUBSET Batch, ctl' = Loop(l, s),
           \A j \in Batch : (j \in s => Todo(l, j)') /\ (j \notin s => Done(l, j)'),
           Bared
    PROVE  RestInv' /\ CallInv(Cur)' /\ RemoveFrame'
<1>1. Entered(l, s) BY LoopEntered DEF FlowInv
<1>2. ctl'.first = ctl.first /\ Batch' = Batch BY <1>1 DEF Batch, Entered
<1>3. Bared' /\ Live' BY DEF Bared, Armed, Live
<1>4. \A j \in Ops : j > ctl'.first + BatchSize - 1 => Pristine(j)'
  <2>1. \A j \in Batch : ~(j > ctl.first + BatchSize - 1)
    <3>1. ctl.first \in Nat /\ BatchSize \in Nat
      BY WorldAssumption DEF FlowInv, CtlInv, CtlType, Ops
    <3> QED BY <3>1, Slots0 DEF FlowInv, Ops, Batch
  <2> QED BY <1>2, <2>1 DEF RestInv, Pristine
<1>5. \A x \in 1..BatchSize : x + ctl'.first - 1 \notin Batch' => ~Armed(x)'
  BY <1>2 DEF RestInv, Armed
<1>6. \/ s = {} /\ ctl'.pc = After[l] /\ ctl'.todo = {}
      \/ ctl'.pc = Entry[l] /\ ctl'.cur \in s /\ ctl'.todo = s \ {ctl'.cur}
  BY <1>1 DEF Entered
<1>7. ctl'.loop = l BY <1>1 DEF Entered
<1> QED BY <1>2, <1>3, <1>4, <1>5, <1>6, <1>7, GoOnRest

(* A call that goes on keeps OpsInv if the operand in hand fits its new    *)
(* step.                                                                   *)
LEMMA StayOps ==
    ASSUME FlowInv, OpsInv, InCall, NEW p \in CallPc, Goto(p), NEW i, i = Cur,
           TypesInv', CallInv(i)', RemoveFrame'
    PROVE  OpsInv'
<1>1. p \in Pcs /\ p # "next"
  BY DEF Pcs, CallPc, BuildPc, NamePc, CommitPc, ReplacePc, RemovePc
<1>2. /\ ctl'.pc = p /\ ctl'.loop = ctl.loop /\ ctl'.todo = ctl.todo
      /\ ctl'.cur = ctl.cur /\ ctl'.first = ctl.first
  BY <1>1, GotoStep DEF FlowInv
<1>3. RestInv' BY <1>2, StayRest DEF OpsInv
<1>4. CallInv(Cur)' BY <1>2 DEF Cur, CallInv
<1> QED BY <1>3, <1>4 DEF OpsInv

(* A call that ends keeps OpsInv if the loop is through with its operand.  *)
LEMMA NextOps ==
    ASSUME FlowInv, OpsInv, InCall, Goto("next"), NEW i, i = Cur, NEW l, l = ctl.loop,
           TypesInv', Done(l, i)', Bared'
    PROVE  OpsInv'
BY NextRest DEF OpsInv

(* A jump inside a call changes the step and nothing else of the control.  *)
LEMMA CallStep ==
    ASSUME FlowInv, NEW p \in CallPc, Goto(p)
    PROVE  /\ ctl'.pc = p /\ ctl'.loop = ctl.loop /\ ctl'.todo = ctl.todo
           /\ ctl'.cur = ctl.cur /\ ctl'.first = ctl.first
           /\ Batch' = Batch /\ \A j : Slot(j)' = Slot(j)
<1>1. p \in Pcs /\ p # "next"
  BY DEF Pcs, CallPc, BuildPc, NamePc, CommitPc, ReplacePc, RemovePc
<1>2. /\ ctl'.pc = p /\ ctl'.loop = ctl.loop /\ ctl'.todo = ctl.todo
      /\ ctl'.cur = ctl.cur /\ ctl'.first = ctl.first
  BY <1>1, GotoStep DEF FlowInv
<1> QED BY <1>2 DEF Batch, Slot

(* The operand in hand, in a call other than remove_ours().                *)
LEMMA InHand ==
    ASSUME FlowInv, OpsInv, ctl.pc \in CallPc \ RemovePc, NEW i, i = Cur
    PROVE  /\ Live /\ CallInv(i) /\ TypesInv
           /\ i \in Batch /\ i \in Ops /\ i = ctl.cur
           /\ Slot(i) \in Slots /\ Slot(i) # BackupSlot
           /\ Path = Operand[i] /\ Operand[i] \in Targets
<1>1. Live
  BY DEF FlowInv, HeldInv, CallPc, BuildPc, NamePc, CommitPc, ReplacePc, RemovePc
<1>2. i \in Batch BY <1>1 DEF FlowInv, CtlInv
<1>3. CallInv(i) BY <1>1 DEF OpsInv, CallInv
<1> QED BY <1>1, <1>2, <1>3, Slots0, Names0 DEF FlowInv, OpsInv, Cur, Path

(* A call that gives up for op_fail() keeps OpsInv.                        *)
LEMMA FailOps ==
    ASSUME FlowInv, OpsInv, InCall, Goto("fail"), NEW i, i = Cur, TypesInv',
           Failing(i)', Bared'
    PROVE  OpsInv'
<1>1. ctl'.pc = "fail" BY CallStep DEF CallPc
<1>2. CallInv(i)'
  BY <1>1 DEF CallInv, RemovePc, CommitPc, ReplacePc, BackupPc
<1>3. RemoveFrame' BY <1>1 DEF RemoveFrame, RemovePc
<1>4. "fail" \in CallPc BY DEF CallPc
<1> QED BY <1>2, <1>3, <1>4, StayOps

(* A call fails before it has changed anything.                            *)
LEMMA FailSame ==
    ASSUME FlowInv, OpsInv, ctl.pc \in CallPc \ RemovePc, Goto("fail"), Failing(Cur),
          Bared,
           UNCHANGED <<spec, dir, file, op, pending, sig>>
    PROVE  OpsInv'
<1> PICK i : i = Cur OBVIOUS
<1>1. Live /\ TypesInv BY InHand
<1>2. InCall BY <1>1 DEF InCall, KeptOthers
<1>3. TypesInv' BY <1>1 DEF TypesInv
<1>4. Slot(i)' = Slot(i) BY CallStep DEF CallPc
<1>5. Failing(i)'
  BY <1>4 DEF Failing, Temporary, InPlace, Spared, Cleared, Raw, Guards, Armed, IsPlain,
              Content, SetOwner
<1>6. Bared' BY DEF Bared, Armed
<1> QED BY <1>2, <1>3, <1>5, <1>6, FailOps

(* The flags of the system and of the options are Boolean.                 *)
LEMMA Bools == FlowInv => /\ \A f \in DOMAIN kern : kern[f] \in BOOLEAN
                          /\ spec.force \in BOOLEAN /\ spec.content \in BOOLEAN
                          /\ spec.absolute \in BOOLEAN /\ spec.special \in BOOLEAN
                          /\ SetOwner \in BOOLEAN /\ Content \in BOOLEAN
                          /\ kern.tmpfile \in BOOLEAN
  BY KernelAssumption, SpecAssumption DEF FlowInv, Kernel, Options, SetOwner, Content

(* What a step leaves of the operand in hand when it changes other things. *)
LEMMA SameStage ==
    ASSUME NEW i, UNCHANGED <<spec, file, op, pending>>, Slot(i)' = Slot(i)
    PROVE  /\ Blank(i)' <=> Blank(i)
           /\ Unnamed(i)' <=> Unnamed(i)
           /\ Nameless(i)' <=> Nameless(i)
           /\ Unfilled(i)' <=> Unfilled(i)
           /\ Private(i)' <=> Private(i)
           /\ Complete(i)' <=> Complete(i)
           /\ Cleared(i)' <=> Cleared(i)
           /\ Spared(i)' <=> Spared(i)
           /\ InPlace(i)' <=> InPlace(i)
           /\ Moved(i)' <=> Moved(i)
           /\ Armed(Slot(i))' <=> Armed(Slot(i))
           /\ Bared' <=> Bared
           /\ IsPlain' <=> IsPlain
           /\ (op[i].tmp \in Temps => dir'[op[i].tmp] = dir[op[i].tmp]) =>
                /\ Temporary(i)' <=> Temporary(i)
                /\ Ready(i)' <=> Ready(i)
                /\ Building(i)' <=> Building(i)
<1>1. /\ Armed(Slot(i))' <=> Armed(Slot(i))
      /\ Bared' <=> Bared
      /\ Unfilled(i)' <=> Unfilled(i)
      /\ Private(i)' <=> Private(i)
      /\ Raw(i)' <=> Raw(i)
      /\ IsPlain' <=> IsPlain
      /\ Complete(i)' <=> Complete(i)
  BY DEF Armed, Bared, Unfilled, Private, Raw, IsPlain, Content, SetOwner, Complete,
     Finished
<1>2. /\ Nameless(i)' <=> Nameless(i)
      /\ Cleared(i)' <=> Cleared(i)
      /\ Spared(i)' <=> Spared(i)
      /\ InPlace(i)' <=> InPlace(i)
      /\ Moved(i)' <=> Moved(i)
  BY <1>1 DEF Nameless, Cleared, Spared, InPlace, Moved, Guards
<1>3. ASSUME op[i].tmp \in Temps => dir'[op[i].tmp] = dir[op[i].tmp]
      PROVE  Temporary(i)' <=> Temporary(i)
  BY <1>1, <1>3 DEF Temporary, Guards
<1> QED BY <1>1, <1>2, <1>3 DEF Blank, Unnamed, Ready, Building

(* A call that has made a name keeps OpsInv.                               *)
LEMMA MadeOps ==
    ASSUME FlowInv, OpsInv, InCall, Goto("made"), NEW i, i = Cur, TypesInv', MadeInv(i)'
    PROVE  OpsInv'
<1>1. ctl'.pc = "made" BY CallStep DEF CallPc
<1>2. CallInv(i)' BY <1>1 DEF CallInv, RemovePc, CommitPc, ReplacePc, BackupPc
<1>3. RemoveFrame' BY <1>1 DEF RemoveFrame, RemovePc
<1>4. "made" \in CallPc BY DEF CallPc
<1> QED BY <1>2, <1>3, <1>4, StayOps

(* A temporary name is made for an inode: place_temp() and                 *)
(* place_temp_alias().                                                     *)
LEMMA TempMade ==
    ASSUME FlowInv, OpsInv, ctl.pc \in CallPc \ RemovePc, NEW i, i = Cur,
           NEW n \in Temps, NEW x \in Inodes, Free(dir, n), SetDir(Bind(dir, n, x)),
           Goto("made"), UNCHANGED <<spec, file, op, pending, sig>>
    PROVE  /\ dir' = [dir EXCEPT ![n] = x] /\ dir'[n] = x
           /\ ctl'.pc = "made" /\ ctl'.cur = ctl.cur /\ ctl'.loop = ctl.loop
           /\ Slot(i)' = Slot(i) /\ Batch' = Batch
           /\ InCall /\ TypesInv'
           /\ Temporary(i) => dir'[op[i].tmp] = dir[op[i].tmp]
<1>1. dir' = [dir EXCEPT ![n] = x] /\ dir[n] = None BY DEF Free, SetDir, Bind
<1>2. Live /\ TypesInv BY InHand
<1>3. i \in Batch /\ Batch \subseteq Ops /\ \A j \in Ops : New(j) # None
  BY InHand, Inodes0, Slots0 DEF FlowInv
<1>4. dir'[n] = x /\ \A m \in Names \ {n} : dir'[m] = dir[m]
  BY <1>1, <1>2, Names0 DEF TypesInv
<1>5. InCall
  BY <1>1, <1>2, <1>3, <1>4, Names0, Slots0, Inodes0 DEF InCall, KeptOthers, FlowInv
<1>6. TypesInv' BY <1>1, <1>2, Names0 DEF TypesInv
<1>7. Temporary(i) => dir'[op[i].tmp] = dir[op[i].tmp]
  BY <1>1, <1>3, <1>4, Names0 DEF Temporary, TypesInv
<1> QED BY <1>1, <1>4, <1>5, <1>6, <1>7, CallStep DEF CallPc

USE DEF At, RemovePc, CommitPc, ReplacePc, BackupPc, Fault, SetFile, CallPc, BuildPc,
    NamePc

(* fill_one() writes: every operand stays at its stage.                    *)
LEMMA fill_oneOps == FlowInv /\ OpsInv /\ fill_one => OpsInv'
<1> SUFFICES ASSUME FlowInv, OpsInv, fill_one PROVE OpsInv' OBVIOUS
<1> PICK i : i = Cur OBVIOUS
<1>0. ctl.pc = "fill" BY DEF fill_one
<1>1. /\ Live /\ CallInv(i) /\ TypesInv
      /\ i \in Batch /\ i \in Ops /\ i = ctl.cur
      /\ Slot(i) \in Slots /\ Slot(i) # BackupSlot BY <1>0, InHand
<1>2. Building(i) /\ Content /\ ~file[i].owned /\ Bared BY <1>0, <1>1 DEF CallInv
<1>3. InCall BY <1>0, <1>1 DEF InCall, KeptOthers, fill_one, TypesInv
<1> DEFINE f == [file[Cur] EXCEPT !.content = TRUE, !.special = FALSE]
<1>4. TypesInv'
  <2>0. PICK x \in FileType : x = file[i] BY <1>1 DEF TypesInv
  <2>1. f \in FileType BY <1>1, <2>0 DEF FileType
  <2>2. file' = file \/ file' = [file EXCEPT ![i] = f] BY DEF fill_one
  <2>3. UNCHANGED <<dir, op, pending>> BY DEF fill_one
  <2> HIDE DEF f
  <2> QED BY <1>1, <2>1, <2>2, <2>3 DEF TypesInv
<1>5. CASE SetFile([file[Cur] EXCEPT !.content = TRUE, !.special = FALSE])
      /\ Goto(AfterFill)
  <2>0. ctl'.pc = AfterFill /\ Slot(i)' = Slot(i) BY <1>5, CallStep DEF AfterFill
  <2>1. Building(i)' /\ Bared' /\ file'[i].content = Content' /\ file'[i].owned = FALSE
    BY <1>1, <1>2, <1>5, <2>0
       DEF Building, Nameless, Temporary, Private, Raw, Guards, Bared, Armed,
           fill_one, Content, SetOwner, IsPlain, TypesInv, FileType
  <2>2. CallInv(i)' BY <2>0, <2>1 DEF CallInv, AfterFill, fill_one, SetOwner
  <2>3. RemoveFrame' BY <2>0 DEF RemoveFrame, AfterFill
  <2> QED BY <1>1, <1>3, <1>4, <1>5, <2>2, <2>3, StayOps DEF AfterFill
<1>6. CASE Goto("fail") /\ UNCHANGED file
  <2>1. Failing(Cur) BY <1>2 DEF Failing, Building, Nameless, Temporary, Cleared, Raw
  <2> QED BY <1>0, <1>2, <1>6, <2>1, FailSame DEF fill_one
<1> QED BY <1>5, <1>6 DEF fill_one

(* build_one() up to its open: every operand stays at its stage.           *)
LEMMA build_oneOps == FlowInv /\ OpsInv /\ build_one => OpsInv'
<1> SUFFICES ASSUME FlowInv, OpsInv, build_one PROVE OpsInv' OBVIOUS
<1> PICK i : i = Cur OBVIOUS
<1>0. ctl.pc = "build" BY DEF build_one
<1>1. /\ Live /\ CallInv(i) /\ TypesInv
      /\ i \in Batch /\ i \in Ops /\ i = ctl.cur
      /\ Slot(i) \in Slots /\ Slot(i) # BackupSlot
      /\ Path = Operand[i] /\ Operand[i] \in Targets
  BY <1>0, InHand
<1>2. Pristine(i) /\ ~Armed(Slot(i)) /\ Bared BY <1>0, <1>1 DEF CallInv
<1>3. Operand[i] \in Names \ Temps /\ New(i) \in Inodes BY <1>1, Names0, Inodes0
<1>4. UNCHANGED <<spec, pending, sig, kern>> BY DEF build_one
<1>5. CASE /\ IsPlain /\ Made("plain", Slot(Cur), Path, New(Cur), New(Cur), TRUE,
              "next")
           /\ op' = [op EXCEPT ![Cur] = NewOp]
           /\ SetFile([NewFile EXCEPT !.special = spec.special])
  <2>1. ctl'.pc = "made" /\ Slot(i)' = Slot(i) /\ ctl'.cur = i
    BY <1>1, <1>5, CallStep DEF Made
  <2>2. dir' = [dir EXCEPT ![Operand[i]] = New(i)] BY <1>1, <1>5 DEF Made, SetDir, Bind
  <2>3. InCall
    BY <1>0, <1>1, <1>3, <1>4, <1>5, <2>2, Names0 DEF InCall, KeptOthers, TypesInv
  <2>4. TypesInv'
    BY <1>1, <1>3, <1>4, <1>5, <2>2, Bools
       DEF TypesInv, FileType, NewFile, OpType, NewOp
  <2>5. file'[i] = [NewFile EXCEPT !.special = spec.special] /\ op'[i] = NewOp
    BY <1>1, <1>5 DEF TypesInv
  <2>6. Finished(i)'
    <3>1. Content' = FALSE /\ SetOwner' = FALSE
      <4>1. ~Content' /\ ~SetOwner' BY <1>4, <1>5 DEF IsPlain, Content, SetOwner
      <4>2. Content' \in BOOLEAN /\ SetOwner' \in BOOLEAN
        BY <1>4, Bools DEF Content, SetOwner
      <4> QED BY <4>1, <4>2, Zenon
    <3>2. /\ file'[i].content = FALSE /\ file'[i].owned = FALSE
          /\ file'[i].perm = "asked" /\ file'[i].special = spec.special
      BY <2>5, Bools DEF NewFile
    <3> QED BY <1>4, <3>1, <3>2 DEF Finished
  <2>7. MadeInv(i)'
    BY <1>1, <1>2, <1>4, <1>5, <2>1, <2>5, <2>6 DEF MadeInv, Made, Bared, Armed, Path
  <2>8. CallInv(i)' /\ RemoveFrame' BY <2>1, <2>7 DEF CallInv, RemoveFrame
  <2> QED BY <1>5, <2>3, <2>4, <2>8, StayOps DEF Made
<1>6. ASSUME NEW p \in {"open", "probe", "private", "fill", "chown", "chmod"},
             /\ ~IsPlain
             /\ op' = [op EXCEPT ![Cur] = [NewOp EXCEPT
                         !.way = IF kern.tmpfile THEN "unnamed" ELSE "temp",
                         !.fd = kern.tmpfile]]
             /\ SetFile([NewFile EXCEPT
                   !.perm = IF spec.absolute \/ ~kern.tmpfile THEN "0600" ELSE "asked",
                   !.special = kern.tmpfile /\ ~spec.absolute /\ spec.special])
             /\ Goto(p)
             /\ p = (IF ~kern.tmpfile THEN (IF spec.absolute
                   \/ mem.probed THEN "open" ELSE "probe")
                     ELSE IF spec.owner = "user" THEN "private" ELSE Finish)
             /\ UNCHANGED <<dir, unflushed, held, fr, hist>>
      PROVE  OpsInv'
  <2>1. ctl'.pc = p /\ Slot(i)' = Slot(i) /\ ctl'.cur = i BY <1>1, <1>6, CallStep
  <2>2. InCall
    BY <1>0, <1>1, <1>3, <1>4, <1>6 DEF InCall, KeptOthers, TypesInv
  <2>3. TypesInv'
    BY <1>1, <1>3, <1>4, <1>6, Bools
       DEF TypesInv, FileType, NewFile, OpType, NewOp
  <2>4. /\ op'[i].fail = "no" /\ op'[i].spare = None /\ op'[i].tmp = None
        /\ op'[i].way = IF kern.tmpfile THEN "unnamed" ELSE "temp"
        /\ op'[i].fd = kern.tmpfile
    BY <1>1, <1>6 DEF TypesInv, NewOp
  <2>5. /\ file'[i].content = FALSE /\ file'[i].owned = FALSE
        /\ ~kern.tmpfile => Private(i)'
    BY <1>1, <1>6, Bools DEF TypesInv, NewFile, Private
  <2>6. Bared' /\ ~Armed(Slot(i))' /\ ~IsPlain' /\ Content' = Content
        /\ SetOwner' = SetOwner
    BY <1>2, <1>4, <1>6, <2>1 DEF Bared, Armed, IsPlain, Content, SetOwner
  <2>7. CASE ~kern.tmpfile
    <3>1. Blank(i)' /\ p \in {"open", "probe"}
      BY <1>6, <2>4, <2>5, <2>6, <2>7, Bools DEF Blank, Raw, Unfilled
    <3> QED BY <1>6, <2>1, <2>2, <2>3, <2>6, <3>1, StayOps DEF CallInv, RemoveFrame
  <2>8. CASE kern.tmpfile
    <3>1. Unnamed(i)' /\ Unfilled(i)' /\ Building(i)'
      BY <1>6, <2>4, <2>5, <2>6, <2>8, Bools
         DEF Unnamed, Building, Nameless, Raw, Unfilled
    <3>2. CallInv(i)'
      BY <1>6, <2>1, <2>5, <2>6, <2>8, <3>1, Bools
         DEF CallInv, Finish, AfterFill, Unfilled, SetOwner
    <3>3. RemoveFrame' BY <1>6, <2>1, <2>8 DEF RemoveFrame
    <3> QED BY <1>6, <2>2, <2>3, <3>2, <3>3, StayOps
  <2> QED BY <2>7, <2>8
<1>7. CASE op' = [op EXCEPT ![Cur] = NewOp] /\ Goto("fail") /\ UNCHANGED <<dir, file>>
  <2>1. InCall BY <1>0, <1>1, <1>4, <1>7 DEF InCall, KeptOthers, TypesInv
  <2>2. TypesInv' BY <1>1, <1>4, <1>7 DEF TypesInv, OpType, NewOp
  <2>3. Slot(i)' = Slot(i) BY <1>7, CallStep
  <2>4. Failing(i)' /\ Bared'
    BY <1>1, <1>2, <1>4, <1>7, <2>3 DEF Failing, Cleared, Armed, Bared, TypesInv, NewOp
  <2> QED BY <1>7, <2>1, <2>2, <2>4, FailOps
<1> QED BY <1>5, <1>6, <1>7 DEF build_one, Finish, AfterFill

(* place_probe_mode() makes its probe: every operand stays at its stage.   *)
LEMMA place_probe_modeOps == FlowInv /\ OpsInv /\ place_probe_mode => OpsInv'
<1> SUFFICES ASSUME FlowInv, OpsInv, place_probe_mode PROVE OpsInv' OBVIOUS
<1> PICK i : i = Cur OBVIOUS
<1>0. ctl.pc = "probe" /\ UNCHANGED <<spec, file, op, pending, sig>>
  BY DEF place_probe_mode
<1>1. CallInv(i) /\ i \in Ops BY <1>0, InHand
<1>2. Blank(i) /\ ~Armed(Slot(i)) /\ Bared BY <1>0, <1>1 DEF CallInv
<1>3. Probe(i) \in Inodes BY <1>1, Inodes0
<1>4. CASE temp_make("probe", Slot(Cur), Probe(Cur), Probe(Cur), TRUE, "probed")
  <2>1. PICK n \in Temps :
          /\ Free(dir, n) /\ SetDir(Bind(dir, n, Probe(i))) /\ Goto("made")
          /\ fr'.what = "probe" /\ fr'.path = n /\ fr'.ino = Probe(i)
    BY <1>4 DEF temp_make, Made
  <2>2. /\ Slot(i)' = Slot(i) /\ InCall /\ TypesInv' /\ dir'[n] = Probe(i)
        /\ ctl'.loop = ctl.loop
    BY <1>0, <1>3, <2>1, TempMade
  <2>3. MadeInv(i)' BY <1>0, <1>1, <1>2, <2>1, <2>2, SameStage DEF MadeInv
  <2> QED BY <2>1, <2>2, <2>3, MadeOps
<1>5. CASE NoTemp("fail")
  <2>1. Failing(i) BY <1>2 DEF Failing, Blank, Cleared, Raw
  <2> QED BY <1>0, <1>2, <1>5, <2>1, FailSame DEF NoTemp
<1> QED BY <1>4, <1>5 DEF place_probe_mode

(* open_built() opens a temporary file: every operand stays at its stage.  *)
LEMMA open_builtOps == FlowInv /\ OpsInv /\ open_built => OpsInv'
<1> SUFFICES ASSUME FlowInv, OpsInv, open_built PROVE OpsInv' OBVIOUS
<1> PICK i : i = Cur OBVIOUS
<1>0. ctl.pc = "open" /\ UNCHANGED <<spec, file, op, pending, sig>> BY DEF open_built
<1>1. CallInv(i) /\ i \in Ops BY <1>0, InHand
<1>2. Blank(i) /\ ~Armed(Slot(i)) /\ Bared BY <1>0, <1>1 DEF CallInv
<1>3. New(i) \in Inodes BY <1>1, Inodes0
<1>4. CASE temp_make("temp", Slot(Cur), New(Cur), New(Cur), TRUE, Finish)
  <2>1. PICK n \in Temps :
          /\ Free(dir, n) /\ SetDir(Bind(dir, n, New(i))) /\ Goto("made")
          /\ fr'.what = "temp" /\ fr'.path = n /\ fr'.ino = New(i)
    BY <1>4 DEF temp_make, Made
  <2>2. /\ Slot(i)' = Slot(i) /\ InCall /\ TypesInv' /\ dir'[n] = New(i)
        /\ ctl'.loop = ctl.loop
    BY <1>0, <1>3, <2>1, TempMade
  <2>3. MadeInv(i)' BY <1>0, <1>1, <1>2, <2>1, <2>2, SameStage DEF MadeInv
  <2> QED BY <2>1, <2>2, <2>3, MadeOps
<1>5. CASE NoTemp("fail")
  <2>1. Failing(i) BY <1>2 DEF Failing, Blank, Cleared, Raw
  <2> QED BY <1>0, <1>2, <1>5, <2>1, FailSame DEF NoTemp
<1> QED BY <1>4, <1>5 DEF open_built

(* finish_built() links the file early: every operand stays at its stage.  *)
LEMMA FinishLinkOps == FlowInv /\ OpsInv /\ FinishLink => OpsInv'
<1> SUFFICES ASSUME FlowInv, OpsInv, FinishLink PROVE OpsInv' OBVIOUS
<1> PICK i : i = Cur OBVIOUS
<1>0. ctl.pc = "templink" /\ UNCHANGED <<spec, file, op, pending, sig>>
  BY DEF FinishLink
<1>1. CallInv(i) /\ i \in Ops /\ ctl.loop = "build" BY <1>0, InHand DEF FlowInv, CtlInv
<1>2. Unnamed(i) /\ Unfilled(i) /\ Private(i) /\ Bared BY <1>0, <1>1 DEF CallInv
<1>3. New(i) \in Inodes BY <1>1, Inodes0
<1>4. CASE temp_make("link", Slot(Cur), New(Cur), New(Cur), FALSE, Finish)
  <2>1. PICK n \in Temps :
          /\ Free(dir, n) /\ SetDir(Bind(dir, n, New(i))) /\ Goto("made")
          /\ fr'.what = "link" /\ fr'.path = n /\ fr'.ino = New(i)
    BY <1>4 DEF temp_make, Made
  <2>2. /\ Slot(i)' = Slot(i) /\ InCall /\ TypesInv' /\ dir'[n] = New(i)
        /\ ctl'.loop = ctl.loop
    BY <1>0, <1>3, <2>1, TempMade
  <2>3. MadeInv(i)' BY <1>0, <1>1, <1>2, <2>1, <2>2, SameStage DEF MadeInv
  <2> QED BY <2>1, <2>2, <2>3, MadeOps
<1>5. CASE NoTemp("fail")
  <2>1. Failing(i) BY <1>2 DEF Failing, Unnamed, Nameless, Cleared, Raw
  <2> QED BY <1>0, <1>2, <1>5, <2>1, FailSame DEF NoTemp
<1> QED BY <1>4, <1>5 DEF FinishLink

(* A step that changes the file of the operand in hand and nothing else.   *)
LEMMA FileStep ==
    ASSUME FlowInv, OpsInv, ctl.pc \in CallPc \ RemovePc, NEW i, i = Cur,
           NEW f \in FileType, SetFile(f), UNCHANGED <<spec, dir, op, pending, sig>>
    PROVE  InCall /\ TypesInv' /\ file'[i] = f
<1>1. Live /\ TypesInv /\ i \in Ops BY InHand
<1> QED BY <1>1 DEF InCall, KeptOthers, TypesInv

(* finish_built() makes the file private: every operand stays at its       *)
(* stage.                                                                  *)
LEMMA FinishPrivateOps == FlowInv /\ OpsInv /\ FinishPrivate => OpsInv'
<1> SUFFICES ASSUME FlowInv, OpsInv, FinishPrivate PROVE OpsInv' OBVIOUS
<1> PICK i : i = Cur OBVIOUS
<1>0. ctl.pc = "private" /\ UNCHANGED <<spec, op, pending, sig, dir>>
  BY DEF FinishPrivate
<1>1. CallInv(i) /\ i \in Ops /\ TypesInv BY <1>0, InHand
<1>2. Unnamed(i) /\ Unfilled(i) /\ Bared BY <1>0, <1>1 DEF CallInv
<1> DEFINE f == [file[Cur] EXCEPT !.perm = "0600", !.special = FALSE]
<1>3. CASE SetFile(f) /\ Goto("templink")
  <2>1. f \in FileType BY <1>1 DEF TypesInv, FileType
  <2>2. InCall /\ TypesInv' /\ file'[i] = f BY <1>0, <1>3, <2>1, FileStep
  <2>3. ctl'.pc = "templink" /\ Slot(i)' = Slot(i) BY <1>3, CallStep
  <2>4. Unnamed(i)' /\ Bared'
    BY <1>0, <1>2, <2>3
       DEF Unnamed, Nameless, Raw, Bared, Armed, IsPlain, Content, SetOwner
  <2>5. Unfilled(i)' /\ Private(i)'
    BY <1>1, <1>2, <2>2 DEF Unfilled, Private, TypesInv, FileType
  <2>6. CallInv(i)' /\ RemoveFrame' BY <2>3, <2>4, <2>5 DEF CallInv, RemoveFrame
  <2> QED BY <1>3, <2>2, <2>6, StayOps
<1>4. CASE Goto("fail") /\ UNCHANGED file
  <2>1. Failing(i) BY <1>2 DEF Failing, Unnamed, Nameless, Cleared, Raw
  <2> QED BY <1>0, <1>2, <1>4, <2>1, FailSame
<1> QED BY <1>3, <1>4 DEF FinishPrivate

(* finish_built() changes the owner: every operand stays at its stage.     *)
LEMMA FinishOwnerOps == FlowInv /\ OpsInv /\ FinishOwner => OpsInv'
<1> SUFFICES ASSUME FlowInv, OpsInv, FinishOwner PROVE OpsInv' OBVIOUS
<1> PICK i : i = Cur OBVIOUS
<1>0. ctl.pc = "chown" /\ UNCHANGED <<spec, op, pending, sig, dir>> BY DEF FinishOwner
<1>1. CallInv(i) /\ i \in Ops /\ TypesInv BY <1>0, InHand
<1>2. Building(i) /\ SetOwner /\ file[i].content = Content /\ Bared
  BY <1>0, <1>1 DEF CallInv
<1> DEFINE f == [file[Cur] EXCEPT !.owned = TRUE, !.special = FALSE]
<1>3. CASE SetFile(f) /\ Goto("chmod")
  <2>1. f \in FileType /\ f.content = file[i].content /\ f.perm = file[i].perm
        /\ f.owned = TRUE /\ f.special = FALSE
    BY <1>1 DEF TypesInv, FileType
  <2>2. InCall /\ TypesInv' /\ file'[i] = f
    <3> HIDE DEF f
    <3> QED BY <1>0, <1>3, <2>1, FileStep
  <2>3. ctl'.pc = "chmod" /\ Slot(i)' = Slot(i) BY <1>3, CallStep
  <2>4. Building(i)' /\ Bared'
    BY <1>0, <1>2, <2>1, <2>2, <2>3
       DEF Building, Nameless, Temporary, Private, Guards, Raw, Bared, Armed, IsPlain,
           Content, SetOwner
  <2>5. file'[i].content = Content' /\ file'[i].owned = SetOwner'
    <3>1. SetOwner = TRUE BY <1>2, Bools, Zenon
    <3> QED BY <1>0, <1>2, <2>1, <2>2, <3>1 DEF Content, SetOwner
  <2>6. CallInv(i)' /\ RemoveFrame' BY <2>3, <2>4, <2>5 DEF CallInv, RemoveFrame
  <2> QED BY <1>3, <2>2, <2>6, StayOps
<1>4. CASE Goto("fail") /\ UNCHANGED file
  <2>1. Failing(i) BY <1>2 DEF Failing, Building, Nameless, Temporary, Cleared, Raw
  <2> QED BY <1>0, <1>2, <1>4, <2>1, FailSame
<1> QED BY <1>3, <1>4 DEF FinishOwner

(* finish_built() sets the mode: every operand stays at its stage.         *)
LEMMA FinishModeOps == FlowInv /\ OpsInv /\ FinishMode => OpsInv'
<1> SUFFICES ASSUME FlowInv, OpsInv, FinishMode PROVE OpsInv' OBVIOUS
<1> PICK i : i = Cur OBVIOUS
<1>0. ctl.pc = "chmod" /\ UNCHANGED <<spec, op, pending, sig, dir>> BY DEF FinishMode
<1>1. CallInv(i) /\ i \in Ops /\ TypesInv /\ ctl.loop = "build"
  BY <1>0, InHand DEF FlowInv, CtlInv
<1>2. Building(i) /\ file[i].content = Content /\ file[i].owned = SetOwner /\ Bared
  BY <1>0, <1>1 DEF CallInv
<1> DEFINE f == [file[Cur] EXCEPT !.perm = "asked", !.special = spec.special]
<1>3. CASE SetFile(f) /\ Goto("next")
  <2>1. f \in FileType /\ f.content = file[i].content /\ f.owned = file[i].owned
        /\ f.perm = "asked" /\ f.special = spec.special
    BY <1>1, Bools DEF TypesInv, FileType
  <2>2. InCall /\ TypesInv' /\ file'[i] = f
    <3> HIDE DEF f
    <3> QED BY <1>0, <1>3, <2>1, FileStep
  <2>3. ctl'.first = ctl.first BY <1>3, GotoStep DEF FlowInv, Moves
  <2>4. Slot(i)' = Slot(i) BY <2>3 DEF Slot
  <2>5. Finished(i)' BY <1>0, <1>2, <2>1, <2>2 DEF Finished, Content, SetOwner
  <2>6. Built(i)' /\ op'[i].fd /\ Bared'
    BY <1>0, <1>2, <2>4, <2>5
       DEF Built, Building, Nameless, Temporary, Guards, Raw, Bared, Armed, IsPlain,
           Content, SetOwner
  <2>7. Done("build", i)' BY <2>6 DEF Done
  <2> QED BY <1>1, <1>3, <2>2, <2>6, <2>7, NextOps
<1>4. CASE Goto("fail") /\ UNCHANGED file
  <2>1. Failing(i) BY <1>2 DEF Failing, Building, Nameless, Temporary, Cleared, Raw
  <2> QED BY <1>0, <1>2, <1>4, <2>1, FailSame
<1> QED BY <1>3, <1>4 DEF FinishMode

(* A call of remove_ours() begins.                                         *)
LEMMA RemoveOps ==
    ASSUME FlowInv, OpsInv, InCall, Goto("lstat"), NEW i, i = Cur, TypesInv',
          RemoveInv(i)',
           fr'.path \in Names, fr'.slot \in Slots => Guards(fr.slot, fr.path, fr.ino)'
    PROVE  OpsInv'
<1>1. ctl'.pc = "lstat" BY CallStep
<1>2. CallInv(i)' BY <1>1 DEF CallInv
<1>3. RemoveFrame' BY <1>1 DEF RemoveFrame
<1> QED BY <1>2, <1>3, StayOps

(* A step that changes struct op of the operand in hand and nothing else.  *)
LEMMA OpStep ==
    ASSUME FlowInv, OpsInv, ctl.pc \in CallPc \ RemovePc, NEW i, i = Cur,
           op' \in [Ops -> OpType], \A j \in Ops \ {Cur} : op'[j] = op[j],
           UNCHANGED <<spec, dir, file, pending, sig>>
    PROVE  InCall /\ TypesInv'
<1>1. Live /\ TypesInv /\ i \in Ops BY InHand
<1> QED BY <1>1 DEF InCall, KeptOthers, TypesInv

(* A step that changes neither names, files, operands nor slots.           *)
LEMMA SameCall ==
    ASSUME FlowInv, OpsInv, ctl.pc \in CallPc \ RemovePc,
           UNCHANGED <<spec, dir, file, op, pending, sig>>
    PROVE  InCall /\ TypesInv'
<1>1. Live /\ TypesInv BY InHand
<1> QED BY <1>1 DEF InCall, KeptOthers, TypesInv

(* flush_batch() closes one file: every operand stays at its stage.        *)
LEMMA close_opOps == FlowInv /\ OpsInv /\ close_op => OpsInv'
<1> SUFFICES ASSUME FlowInv, OpsInv, close_op PROVE OpsInv' OBVIOUS
<1> PICK i : i = Cur OBVIOUS
<1>0. ctl.pc = "close" /\ UNCHANGED <<spec, file, pending, sig, dir>>
      /\ op' = [op EXCEPT ![Cur].fd = FALSE]
  BY DEF close_op
<1>1. CallInv(i) /\ i \in Ops /\ TypesInv /\ ctl.loop = "close"
  BY <1>0, InHand DEF FlowInv, CtlInv
<1>2. Built(i) /\ op[i].fd /\ file[i].flushed /\ op[i].way = "plain" /\ Bared
  BY <1>0, <1>1 DEF CallInv, Todo
<1>3. InPlace(i) /\ Finished(i) BY <1>2 DEF Built
<1>4. /\ op' \in [Ops -> OpType]
      /\ op'[i].fd = FALSE /\ op'[i].way = "plain" /\ op'[i].fail = op[i].fail
      /\ op'[i].tmp = op[i].tmp /\ op'[i].spare = op[i].spare
  <2>1. PICK o \in OpType : o = op[i] BY <1>1 DEF TypesInv
  <2> DEFINE q == [o EXCEPT !.fd = FALSE]
  <2>2. /\ q \in OpType /\ q.fd = FALSE /\ q.way = o.way /\ q.fail = o.fail
        /\ q.tmp = o.tmp /\ q.spare = o.spare
    BY DEF OpType
  <2>3. op' = [op EXCEPT ![i] = q] BY <1>0, <1>1, <2>1 DEF TypesInv
  <2> HIDE DEF q
  <2> QED BY <1>1, <1>2, <2>1, <2>2, <2>3 DEF TypesInv
<1>5. InCall /\ TypesInv' BY <1>0, <1>1, <1>4, OpStep DEF TypesInv
<1>6. ASSUME ctl'.first = ctl.first
      PROVE  InPlace(i)' /\ Finished(i)' /\ Bared'
  <2>1. Slot(i)' = Slot(i) BY <1>6 DEF Slot
  <2> QED BY <1>0, <1>2, <1>3, <1>4, <2>1 
          DEF InPlace, Raw, Guards, Finished, Bared, Armed, IsPlain, Content, SetOwner
<1>7. CASE Goto("next")
  <2>1. ctl'.first = ctl.first BY <1>7, GotoStep DEF FlowInv, Moves
  <2>2. Done("close", i)' BY <1>0, <1>2, <1>4, <1>6, <2>1 DEF Done, ToName, Built
  <2> QED BY <1>1, <1>5, <1>6, <1>7, <2>1, <2>2, NextOps
<1>8. CASE Goto("fail")
  <2>1. ctl'.first = ctl.first BY <1>8, CallStep
  <2>2. Failing(i)' BY <1>3, <1>4, <1>6, <2>1 DEF Failing, InPlace, Raw
  <2> QED BY <1>5, <1>6, <1>8, <2>1, <2>2, FailOps
<1> QED BY <1>7, <1>8 DEF close_op

-----------------------------------------------------------------------------
(* A name that has been made is armed.                                     *)
LEMMA ArmCall ==
    ASSUME FlowInv, OpsInv, Arm, NEW i, i = Cur
    PROVE  /\ ctl.pc = "made" /\ FrMade /\ MadeInv(i) /\ TypesInv /\ Live
           /\ UNCHANGED <<spec, file, sig, dir, fr, mem>>
           /\ i \in Ops /\ i \in Batch /\ i = ctl.cur
           /\ Slot(i) \in Slots /\ Slot(i) # BackupSlot
           /\ Path = Operand[i] /\ Operand[i] \in Targets
           /\ Goto(fr.then)
           /\ fr.what # "over" =>
                /\ pending' = [pending EXCEPT ![fr.slot] = [path |-> fr.path,
                      ino |-> fr.ino]]
                /\ pending'[fr.slot] = [path |-> fr.path, ino |-> fr.ino]
           /\ fr.what = "over" => pending' = pending
           /\ InCall /\ TypesInv'
<1>0. ctl.pc = "made" /\ UNCHANGED <<spec, file, sig, dir, fr, mem>> /\ Goto(fr.then)
  BY DEF Arm
<1>1. /\ CallInv(i) /\ i \in Ops /\ i \in Batch /\ i = ctl.cur /\ TypesInv /\ Live
      /\ Slot(i) \in Slots /\ Slot(i) # BackupSlot
      /\ Path = Operand[i] /\ Operand[i] \in Targets
  BY <1>0, InHand
<1>2. FrMade /\ MadeInv(i) BY <1>0, <1>1 DEF FlowInv, CallFrame, CallInv
<1>3. BackupSlot \in Slots BY Slots0 DEF FlowInv
<1>4. fr.what # "over" => /\ fr.slot \in {Slot(i), BackupSlot} /\ fr.slot \in Slots
                          /\ fr.path \in Names /\ fr.ino \in Inodes
  <2>1. fr.what # "over" => fr.slot \in {Slot(i), BackupSlot}
    BY <1>2 DEF FrMade
  <2>2. fr.path \in Names /\ fr.ino \in Inodes
    BY <1>1, <1>2, Names0, Inodes0 DEF MadeInv
  <2> QED BY <1>1, <1>3, <2>1, <2>2
<1>5. fr.what # "over" =>
        /\ pending' = [pending EXCEPT ![fr.slot] = [path |-> fr.path, ino |-> fr.ino]]
        /\ pending'[fr.slot] = [path |-> fr.path, ino |-> fr.ino]
  BY <1>1, <1>4 DEF Arm, TypesInv
<1>6. fr.what = "over" => pending' = pending BY DEF Arm
<1>7. pending' \in [Slots -> SlotType] BY <1>1, <1>4, <1>5, <1>6 DEF TypesInv, SlotType
<1>8. op' \in [Ops -> OpType] /\ \A j \in Ops \ {i} : op'[j] = op[j]
  <2>1. fr.what \in {"temp", "link"} => fr.path \in Temps
    BY <1>2 DEF MadeInv
  <2>2. fr.what = "backup" => fr.path \in Names BY <1>4
  <2>3. fr.what \in {"plain", "probe", "temp", "link", "alias", "backup", "over"}
    BY <1>2 DEF FrMade
  <2>4. CASE fr.what = "plain"
    <3>1. op' = [op EXCEPT ![Cur].fd = TRUE] BY <2>4 DEF Arm
    <3>2. PICK o \in OpType : o = op[i] BY <1>1 DEF TypesInv
    <3>3. [o EXCEPT !.fd = TRUE] \in OpType BY DEF OpType
    <3> QED BY <1>1, <3>1, <3>2, <3>3 DEF TypesInv
  <2>5. CASE fr.what = "temp"
    <3>1. op' = [op EXCEPT ![Cur].fd = TRUE, ![Cur].tmp = fr.path] BY <2>5 DEF Arm
    <3>2. PICK o \in OpType : o = op[i] BY <1>1 DEF TypesInv
    <3> DEFINE q == [o EXCEPT !.fd = TRUE, !.tmp = fr.path]
    <3>3. q \in OpType BY <2>1, <2>5 DEF OpType
    <3>4. op' = [op EXCEPT ![i] = q] BY <1>1, <3>1, <3>2 DEF TypesInv, OpType
    <3> HIDE DEF q
    <3> QED BY <1>1, <3>3, <3>4 DEF TypesInv
  <2>6. CASE fr.what = "link"
    <3>1. op' = [op EXCEPT ![Cur].tmp = fr.path,
                           ![Cur].way = IF ctl.loop = "build" THEN "temp" ELSE @]
      BY <2>6 DEF Arm
    <3>2. PICK o \in OpType : o = op[i] BY <1>1 DEF TypesInv
    <3> DEFINE w == IF ctl.loop = "build" THEN "temp" ELSE o.way
               q == [o EXCEPT !.tmp = fr.path, !.way = w]
    <3>3. w \in {"plain", "unnamed", "temp"} BY DEF OpType
    <3> HIDE DEF w
    <3>4. q \in OpType BY <2>1, <2>6, <3>3 DEF OpType
    <3>5. op' = [op EXCEPT ![i] = q] BY <1>1, <3>1, <3>2 DEF TypesInv, OpType, w
    <3> HIDE DEF q
    <3> QED BY <1>1, <3>4, <3>5 DEF TypesInv
  <2>7. CASE fr.what = "backup"
    <3>1. op' = [op EXCEPT ![Cur].backup = fr.path] BY <2>7 DEF Arm
    <3>2. PICK o \in OpType : o = op[i] BY <1>1 DEF TypesInv
    <3> DEFINE q == [o EXCEPT !.backup = fr.path]
    <3>3. q \in OpType BY <2>2, <2>7 DEF OpType
    <3>4. op' = [op EXCEPT ![i] = q] BY <1>1, <3>1, <3>2 DEF TypesInv
    <3> HIDE DEF q
    <3> QED BY <1>1, <3>3, <3>4 DEF TypesInv
  <2>8. CASE fr.what \in {"probe", "alias", "over"}
    <3>1. op' = op BY <2>8 DEF Arm
    <3> QED BY <1>1, <3>1 DEF TypesInv
  <2> QED BY <2>3, <2>4, <2>5, <2>6, <2>7, <2>8
<1>9. InCall
  BY <1>0, <1>1, <1>4, <1>5, <1>6, <1>8 DEF InCall, KeptOthers, TypesInv
<1>10. TypesInv' BY <1>0, <1>1, <1>7, <1>8 DEF TypesInv
<1> QED BY <1>0, <1>1, <1>2, <1>5, <1>6, <1>9, <1>10
(* pending_arm() of a file created at its path.                            *)
LEMMA ArmPlain ==
    ASSUME FlowInv, OpsInv, Arm, fr.what = "plain" PROVE OpsInv'
<1> PICK i : i = Cur OBVIOUS
<1>1. /\ MadeInv(i) /\ FrMade /\ TypesInv /\ UNCHANGED <<spec, file, dir>> /\ i \in Ops
      /\ Slot(i) \in Slots /\ Slot(i) # BackupSlot /\ Path = Operand[i]
      /\ Goto(fr.then) /\ InCall /\ TypesInv'
      /\ pending' = [pending EXCEPT ![fr.slot] = [path |-> fr.path, ino |-> fr.ino]]
      /\ pending'[fr.slot] = [path |-> fr.path, ino |-> fr.ino]
  BY ArmCall
<1>2. Bared /\ fr.path = Path /\ fr.ino = New(i) /\ op[i] = NewOp /\ Finished(i)
  BY <1>1 DEF MadeInv
<1>3. fr.slot = Slot(i) /\ fr.then = "next" /\ ctl.loop = "build" /\ IsPlain
  BY <1>1 DEF FrMade
<1>4. Slot(i)' = Slot(i) BY <1>1, <1>3, GotoStep DEF FlowInv, Moves, Slot
<1>5. op' = [op EXCEPT ![Cur].fd = TRUE] BY DEF Arm
<1>6. op'[i].fd = TRUE /\ op'[i].way = "plain" /\ op'[i].tmp = None
      /\ op'[i].spare = None
      /\ op'[i].fail = "no"
  BY <1>1, <1>2, <1>5 DEF TypesInv, NewOp
<1>7. Finished(i)' /\ IsPlain'
  BY <1>1, <1>2, <1>3 DEF Finished, IsPlain, Content, SetOwner
<1>8. InPlace(i)' BY <1>1, <1>2, <1>3, <1>4, <1>6, <1>7 DEF InPlace, Raw, Guards
<1>9. Done("build", i)' BY <1>6, <1>7, <1>8 DEF Done, Built
<1>10. Bared' BY <1>1, <1>2, <1>3, Slots0 DEF Bared, Armed, FlowInv, TypesInv
<1> QED BY <1>1, <1>3, <1>9, <1>10, NextOps

(* pending_arm() of the probe of place_probe_mode().                       *)
LEMMA ArmProbe ==
    ASSUME FlowInv, OpsInv, Arm, fr.what = "probe" PROVE OpsInv'
<1> PICK i : i = Cur OBVIOUS
<1>1. /\ MadeInv(i) /\ FrMade /\ TypesInv /\ UNCHANGED <<spec, file, dir, fr>>
         /\ i \in Ops
      /\ Slot(i) \in Slots /\ Slot(i) # BackupSlot /\ Path = Operand[i]
      /\ Goto(fr.then) /\ InCall /\ TypesInv'
      /\ pending' = [pending EXCEPT ![fr.slot] = [path |-> fr.path, ino |-> fr.ino]]
      /\ pending'[fr.slot] = [path |-> fr.path, ino |-> fr.ino]
  BY ArmCall
<1>2. Bared /\ fr.path \in Temps /\ fr.ino = Probe(i) /\ Blank(i)
  BY <1>1 DEF MadeInv
<1>3. fr.slot = Slot(i) /\ fr.then = "probed" BY <1>1 DEF FrMade
<1>4. ctl'.pc = "probed" /\ Slot(i)' = Slot(i) BY <1>1, <1>3, CallStep
<1>5. op' = op BY DEF Arm
<1>6. Blank(i)'
  BY <1>1, <1>2, <1>5 DEF Blank, Raw, Private, Unfilled, IsPlain, Content, SetOwner
<1>7. Bared' BY <1>1, <1>2, <1>3, Slots0 DEF Bared, Armed, FlowInv, TypesInv
<1>8. Guards(Slot(i), fr.path, Probe(i))' BY <1>1, <1>2, <1>3, <1>4 DEF Guards, Probe
<1>9. CallInv(i)' BY <1>1, <1>2, <1>4, <1>6, <1>7, <1>8 DEF CallInv
<1>10. RemoveFrame' BY <1>4 DEF RemoveFrame
<1> QED BY <1>1, <1>3, <1>9, <1>10, StayOps

(* Where finish_built() goes on: the file is not filled yet.               *)
LEMMA FinishCall ==
    ASSUME NEW i, ctl'.pc = Finish, spec' = spec, Building(i)', Unfilled(i)', Bared',
          FlowInv,
           TypesInv', i \in Ops
    PROVE  CallInv(i)' /\ RemoveFrame'
<1>1. Content' = Content /\ SetOwner' = SetOwner /\ Content \in BOOLEAN
      /\ SetOwner \in BOOLEAN
  BY Bools DEF Content, SetOwner
<1>2. file'[i].content = FALSE /\ file'[i].owned = FALSE
  <2>1. file'[i].content \in BOOLEAN /\ file'[i].owned \in BOOLEAN
    BY DEF TypesInv, FileType
  <2>2. ~file'[i].content /\ ~file'[i].owned BY DEF Unfilled
  <2> QED BY <2>1, <2>2, Zenon
<1>3. CallInv(i)' BY <1>1, <1>2 DEF CallInv, Finish, AfterFill
<1> QED BY <1>3 DEF RemoveFrame, Finish, AfterFill

(* pending_arm() of a temporary file of open_built().                      *)
LEMMA ArmTemp ==
    ASSUME FlowInv, OpsInv, Arm, fr.what = "temp" PROVE OpsInv'
<1> PICK i : i = Cur OBVIOUS
<1>1. /\ MadeInv(i) /\ FrMade /\ TypesInv /\ UNCHANGED <<spec, file, dir, fr>>
         /\ i \in Ops
      /\ Slot(i) \in Slots /\ Slot(i) # BackupSlot /\ Path = Operand[i]
      /\ Goto(fr.then) /\ InCall /\ TypesInv'
      /\ pending' = [pending EXCEPT ![fr.slot] = [path |-> fr.path, ino |-> fr.ino]]
      /\ pending'[fr.slot] = [path |-> fr.path, ino |-> fr.ino]
  BY ArmCall
<1>2. Bared /\ fr.path \in Temps /\ fr.ino = New(i) /\ dir[fr.path] = New(i) /\ Blank(i)
  BY <1>1 DEF MadeInv
<1>3. fr.slot = Slot(i) /\ fr.then = Finish /\ Finish \in CallPc
  BY <1>1 DEF FrMade, Finish, AfterFill
<1>4. ctl'.pc = Finish /\ Slot(i)' = Slot(i) BY <1>1, <1>3, CallStep
<1>5. op' = [op EXCEPT ![Cur].fd = TRUE, ![Cur].tmp = fr.path] BY DEF Arm
<1>6. op'[i].fd = TRUE /\ op'[i].way = "temp" /\ op'[i].tmp = fr.path
      /\ op'[i].spare = None
      /\ op'[i].fail = "no"
  BY <1>1, <1>2, <1>5 DEF TypesInv, OpType, Blank, Raw
<1>7. Unfilled(i)' /\ Private(i)' /\ ~IsPlain'
  BY <1>1, <1>2 DEF Blank, Private, Unfilled, IsPlain, Content, SetOwner
<1>8. Bared' BY <1>1, <1>2, <1>3, Slots0 DEF Bared, Armed, FlowInv, TypesInv
<1>9. Temporary(i)' BY <1>1, <1>2, <1>3, <1>4, <1>6 DEF Temporary, Raw, Guards
<1>10. Building(i)' BY <1>6, <1>7, <1>9 DEF Building
<1>11. CallInv(i)' /\ RemoveFrame' BY <1>1, <1>4, <1>7, <1>8, <1>10, FinishCall
<1> QED BY <1>1, <1>3, <1>11, StayOps

(* pending_arm() of a file that finish_built() links early.                *)
LEMMA ArmLinkEarly ==
    ASSUME FlowInv, OpsInv, Arm, fr.what = "link", ctl.loop = "build" PROVE OpsInv'
<1> PICK i : i = Cur OBVIOUS
<1>1. /\ MadeInv(i) /\ FrMade /\ TypesInv /\ UNCHANGED <<spec, file, dir, fr, mem>>
         /\ i \in Ops
      /\ Slot(i) \in Slots /\ Slot(i) # BackupSlot /\ Path = Operand[i]
      /\ Goto(fr.then) /\ InCall /\ TypesInv'
      /\ pending' = [pending EXCEPT ![fr.slot] = [path |-> fr.path, ino |-> fr.ino]]
      /\ pending'[fr.slot] = [path |-> fr.path, ino |-> fr.ino]
  BY ArmCall
<1>2. /\ Bared /\ fr.path \in Temps /\ fr.ino = New(i) /\ dir[fr.path] = New(i)
      /\ Unnamed(i) /\ Private(i) /\ Unfilled(i)
  BY <1>1 DEF MadeInv
<1>3. fr.slot = Slot(i) /\ fr.then = Finish /\ Finish \in CallPc
  BY <1>1 DEF FrMade, Finish, AfterFill
<1>4. ctl'.pc = Finish /\ Slot(i)' = Slot(i) BY <1>1, <1>3, CallStep
<1>5. op' = [op EXCEPT ![Cur].tmp = fr.path,
                       ![Cur].way = IF ctl.loop = "build" THEN "temp" ELSE @] BY DEF Arm
<1>6. /\ op'[i].fd = op[i].fd /\ op'[i].way = "temp" /\ op'[i].tmp = fr.path
      /\ op'[i].spare = None /\ op'[i].fail = "no" /\ op[i].fd
  BY <1>1, <1>2, <1>5 DEF TypesInv, OpType, Unnamed, Nameless, Raw
<1>7. Unfilled(i)' /\ Private(i)' /\ ~IsPlain'
  BY <1>1, <1>2 DEF Unnamed, Private, Unfilled, IsPlain, Content, SetOwner
<1>8. Bared' BY <1>1, <1>2, <1>3, Slots0 DEF Bared, Armed, FlowInv, TypesInv
<1>9. Temporary(i)' BY <1>1, <1>2, <1>3, <1>4, <1>6 DEF Temporary, Raw, Guards
<1>10. Building(i)' BY <1>6, <1>7, <1>9 DEF Building
<1>11. CallInv(i)' /\ RemoveFrame' BY <1>1, <1>4, <1>7, <1>8, <1>10, FinishCall
<1> QED BY <1>1, <1>3, <1>11, StayOps

(* pending_arm() of an unnamed file that name_one() links with -f.         *)
LEMMA ArmLinkName ==
    ASSUME FlowInv, OpsInv, Arm, fr.what = "link", ctl.loop # "build" PROVE OpsInv'
<1> PICK i : i = Cur OBVIOUS
<1>1. /\ MadeInv(i) /\ FrMade /\ TypesInv /\ UNCHANGED <<spec, file, dir, fr, mem>>
         /\ i \in Ops
      /\ Slot(i) \in Slots /\ Slot(i) # BackupSlot /\ Path = Operand[i]
      /\ Goto(fr.then) /\ InCall /\ TypesInv'
      /\ pending' = [pending EXCEPT ![fr.slot] = [path |-> fr.path, ino |-> fr.ino]]
      /\ pending'[fr.slot] = [path |-> fr.path, ino |-> fr.ino]
  BY ArmCall
<1>2. ctl.loop = "name" /\ fr.then = "replace" /\ fr.slot = Slot(i) BY <1>1 DEF FrMade
<1>3. /\ Bared /\ fr.path \in Temps /\ fr.ino = New(i) /\ dir[fr.path] = New(i)
      /\ Unnamed(i) /\ Complete(i)
  BY <1>1, <1>2 DEF MadeInv
<1>4. ctl'.pc = "replace" /\ Slot(i)' = Slot(i) BY <1>1, <1>2, CallStep
<1>5. op' = [op EXCEPT ![Cur].tmp = fr.path,
                       ![Cur].way = IF ctl.loop = "build" THEN "temp" ELSE @] BY DEF Arm
<1>6. /\ op'[i].fd = op[i].fd /\ op'[i].way = "unnamed" /\ op'[i].tmp = fr.path
      /\ op'[i].spare = None /\ op'[i].fail = "no" /\ op[i].fd
  <2>1. /\ op[i] \in OpType /\ op[i].way = "unnamed" /\ op[i].spare = None
        /\ op[i].fail = "no" /\ op[i].fd
    BY <1>1, <1>3 DEF TypesInv, Unnamed, Nameless, Raw
  <2>2. op'[i] = [op[i] EXCEPT !.tmp = fr.path, !.way = op[i].way]
    BY <1>1, <1>2, <1>5 DEF TypesInv
  <2> QED BY <2>1, <2>2 DEF OpType
<1>7. Complete(i)' /\ ~IsPlain'
  BY <1>1, <1>3 DEF Unnamed, Complete, Finished, IsPlain, Content, SetOwner
<1>8. Bared' BY <1>1, <1>2, <1>3, Slots0 DEF Bared, Armed, FlowInv, TypesInv
<1>9. Temporary(i)' BY <1>1, <1>2, <1>3, <1>4, <1>6 DEF Temporary, Raw, Guards
<1>10. Ready(i)' BY <1>6, <1>7, <1>9 DEF Ready
<1>11. CallInv(i)' /\ RemoveFrame' BY <1>4, <1>8, <1>10 DEF CallInv, RemoveFrame
<1> QED BY <1>1, <1>2, <1>11, StayOps

(* The old file gets a second name: Ready is kept.                         *)
LEMMA ArmReady ==
    ASSUME FlowInv, OpsInv, Arm, NEW i, i = Cur, fr.what \in {"alias", "backup", "over"}
    PROVE  /\ Ready(i)' /\ Slot(i)' = Slot(i) /\ ctl'.pc = fr.then /\ fr.then \in CallPc
           /\ \A j \in Ops : op'[j].tmp = op[j].tmp
           /\ op'[i].way = op[i].way
<1>1. /\ MadeInv(i) /\ FrMade /\ TypesInv /\ UNCHANGED <<spec, file, dir, fr>>
         /\ i \in Ops
      /\ Slot(i) \in Slots /\ Slot(i) # BackupSlot /\ Goto(fr.then)
      /\ fr.what # "over" =>
            pending' = [pending EXCEPT ![fr.slot] = [path |-> fr.path, ino |-> fr.ino]]
      /\ fr.what = "over" => pending' = pending
  BY ArmCall
<1>2. Ready(i) BY <1>1 DEF MadeInv
<1>3. fr.then \in CallPc /\ fr.then # "next" /\ (fr.what # "over"
      => fr.slot = BackupSlot)
  BY <1>1 DEF FrMade
<1>4. ctl'.pc = fr.then /\ Slot(i)' = Slot(i) BY <1>1, <1>3, CallStep
<1>5. op' = op \/ op' = [op EXCEPT ![Cur].backup = fr.path] BY DEF Arm
<1>6. /\ op'[i].way = op[i].way /\ op'[i].fd = op[i].fd /\ op'[i].fail = op[i].fail
      /\ op'[i].spare = op[i].spare /\ \A j \in Ops : op'[j].tmp = op[j].tmp
  BY <1>1, <1>5 DEF TypesInv, OpType
<1>7. pending'[Slot(i)] = pending[Slot(i)] BY <1>1, <1>3 DEF TypesInv
<1>8. Complete(i)' /\ ~IsPlain'
  BY <1>1, <1>2 DEF Ready, Complete, Finished, IsPlain, Content, SetOwner
<1>9. Ready(i)'
  BY <1>1, <1>2, <1>4, <1>6, <1>7, <1>8 DEF Ready, Temporary, Raw, Guards
<1> QED BY <1>3, <1>4, <1>6, <1>9

(* pending_arm() of a backup, or of the alias that is to become one.       *)
LEMMA ArmSecond ==
    ASSUME FlowInv, OpsInv, Arm, fr.what \in {"alias", "backup"} PROVE OpsInv'
<1> PICK i : i = Cur OBVIOUS
<1>1. /\ MadeInv(i) /\ FrMade /\ TypesInv /\ UNCHANGED <<spec, file, dir, fr, mem>>
         /\ i \in Ops
      /\ Slot(i) \in Slots /\ Slot(i) # BackupSlot /\ Path = Operand[i]
      /\ Goto(fr.then) /\ InCall /\ TypesInv'
      /\ pending' = [pending EXCEPT ![fr.slot] = [path |-> fr.path, ino |-> fr.ino]]
      /\ pending'[fr.slot] = [path |-> fr.path, ino |-> fr.ino]
  BY ArmCall
<1>2. /\ Ready(i)' /\ Slot(i)' = Slot(i) /\ ctl'.pc = fr.then /\ fr.then \in CallPc
      /\ \A j \in Ops : op'[j].tmp = op[j].tmp
  BY ArmReady
<1>3. /\ fr.ino = mem.old /\ mem.old \in Inodes
      /\ fr.what = "alias" => fr.path \in Temps /\ Apart(fr.path)
      /\ fr.what = "backup" => fr.path \in Backups(Path)
  BY <1>1 DEF MadeInv
<1>4. /\ fr.slot = BackupSlot
      /\ fr.what = "alias" => fr.then = "overbackup"
      /\ fr.what = "backup" => fr.then \in {"note", "backed"}
  BY <1>1 DEF FrMade
<1>5. Guards(BackupSlot, fr.path, mem.old)' BY <1>1, <1>3, <1>4 DEF Guards
<1>6. CASE fr.what = "alias"
  <2>1. Apart(fr.path)'
    <3>1. Batch' = Batch /\ Batch \subseteq Ops
      BY <1>1, <1>2, CallStep, Slots0 DEF FlowInv
    <3> QED BY <1>1, <1>2, <1>3, <1>6, <3>1 DEF Apart
  <2>2. CallInv(i)' BY <1>1, <1>2, <1>3, <1>4, <1>5, <1>6, <2>1 DEF CallInv
  <2>3. RemoveFrame' BY <1>2, <1>4, <1>6 DEF RemoveFrame
  <2> QED BY <1>1, <1>2, <2>2, <2>3, StayOps
<1>7. CASE fr.what = "backup"
  <2>1. op' = [op EXCEPT ![Cur].backup = fr.path] BY <1>7 DEF Arm
  <2>2. op'[i].backup = fr.path BY <1>1, <2>1 DEF TypesInv, OpType
  <2>3. Backups(Path)' = Backups(Path)
    <3>1. Path' = Path BY <1>1, <1>2, CallStep DEF Path
    <3> QED BY <3>1 DEF Backups, Simple, Numbered
  <2>4. CallInv(i)'
    BY <1>1, <1>2, <1>3, <1>4, <1>5, <1>7, <2>2, <2>3 DEF CallInv, Guards
  <2>5. RemoveFrame' BY <1>2, <1>4, <1>7 DEF RemoveFrame
  <2> QED BY <1>1, <1>2, <2>4, <2>5, StayOps
<1> QED BY <1>6, <1>7

(* place_over() has its placeholder, which is not armed.                   *)
LEMMA ArmOver ==
    ASSUME FlowInv, OpsInv, Arm, fr.what = "over" PROVE OpsInv'
<1> PICK i : i = Cur OBVIOUS
<1>1. /\ MadeInv(i) /\ FrMade /\ UNCHANGED <<dir, fr, pending>> /\ Goto(fr.then)
      /\ InCall /\ TypesInv'
  BY ArmCall
<1>2. /\ Ready(i)' /\ Slot(i)' = Slot(i) /\ ctl'.pc = fr.then /\ fr.then \in CallPc
      /\ op'[i].way = op[i].way
  BY ArmReady
<1>3. Bared /\ fr.path = Path /\ fr.ino = Hold(i) /\ op[i].way = "temp"
      /\ fr.then = "over"
  BY <1>1 DEF MadeInv, FrMade
<1>4. Bared' /\ Path' = Path BY <1>1, <1>2, <1>3, CallStep DEF Bared, Armed, Path
<1>5. CallInv(i)' BY <1>1, <1>2, <1>3, <1>4 DEF CallInv
<1>6. RemoveFrame' BY <1>2, <1>3 DEF RemoveFrame
<1> QED BY <1>1, <1>2, <1>5, <1>6, StayOps

(* pending_arm() after a name was made: every operand stays at its stage.  *)
LEMMA ArmOps == FlowInv /\ OpsInv /\ Arm => OpsInv'
<1> SUFFICES ASSUME FlowInv, OpsInv, Arm PROVE OpsInv' OBVIOUS
<1>1. FrMade BY ArmCall
<1>2. fr.what \in {"plain", "probe", "temp", "link", "alias", "backup", "over"}
  BY <1>1 DEF FrMade
<1> QED
  BY <1>2, ArmPlain, ArmProbe, ArmTemp, ArmLinkEarly, ArmLinkName, ArmSecond, ArmOver

(* A step that changes names only, and none that holds the file of an      *)
(* operand that is not in hand.                                            *)
LEMMA DirStep ==
    ASSUME FlowInv, OpsInv, ctl.pc \in CallPc \ RemovePc, NEW i, i = Cur,
           dir' \in [Names -> Inodes \cup {None}],
           \A n \in Temps : dir'[n] = dir[n] \/ \A j \in Ops \ {i} : dir[n] # New(j),
           UNCHANGED <<spec, file, op, pending, sig>>
    PROVE  InCall /\ TypesInv'
<1>1. Live /\ TypesInv BY InHand
<1>2. Batch \subseteq Ops BY Slots0 DEF FlowInv
<1> QED BY <1>1, <1>2 DEF InCall, KeptOthers, TypesInv

(* create_excl() undoes its open: every operand stays at its stage.        *)
LEMMA UndoOpenOps == FlowInv /\ OpsInv /\ UndoOpen => OpsInv'
<1> SUFFICES ASSUME FlowInv, OpsInv, UndoOpen PROVE OpsInv' OBVIOUS
<1> PICK i : i = Cur OBVIOUS
<1>0. /\ ctl.pc = "made" /\ fr.flag /\ Goto("fail")
         /\ UNCHANGED <<spec, file, op, pending, sig>>
      /\ dir' = dir \/ dir' = [dir EXCEPT ![fr.path] = None]
  BY DEF UndoOpen, SetDir, Bind
<1>1. /\ CallInv(i) /\ i \in Ops /\ TypesInv /\ Path = Operand[i]
         /\ Operand[i] \in Targets
  BY <1>0, InHand
<1>2. FrMade /\ MadeInv(i) BY <1>0, <1>1 DEF FlowInv, CallFrame, CallInv
<1>3. fr.what \in {"plain", "probe", "temp", "over"} BY <1>0, <1>2 DEF FrMade
<1>4. /\ Bared
      /\ \/ Cleared(i) /\ op[i].fail = "no"
         \/ Temporary(i) /\ fr.path \notin Temps
      /\ fr.path \in Temps => dir[fr.path] \in {New(i), Probe(i)}
  BY <1>1, <1>2, <1>3, Names0 DEF MadeInv, Cleared, Blank, Raw, Ready, NewOp
<1>5. dir' \in [Names -> Inodes \cup {None}]
      /\ \A n \in Names \ {fr.path} : dir'[n] = dir[n]
  BY <1>0, <1>1 DEF TypesInv
<1>6. InCall /\ TypesInv' BY <1>0, <1>1, <1>4, <1>5, Names0, Inodes0, DirStep
<1>7. Slot(i)' = Slot(i) BY <1>0, CallStep
<1>8. Failing(i)' /\ Bared'
  <2>1. CASE Cleared(i) /\ op[i].fail = "no"
    BY <1>0, <1>4, <1>7, <2>1, SameStage DEF Failing
  <2>2. CASE Temporary(i) /\ fr.path \notin Temps
    <3>1. dir'[op[i].tmp] = dir[op[i].tmp] BY <1>5, <2>2, Names0 DEF Temporary
    <3> QED BY <1>0, <1>4, <1>7, <2>2, <3>1, SameStage DEF Failing, Temporary, Raw
  <2> QED BY <1>4, <2>1, <2>2
<1> QED BY <1>0, <1>6, <1>8, FailOps

(* place_probe_mode() removes its probe: every operand stays at its stage. *)
LEMMA ProbeDoneOps == FlowInv /\ OpsInv /\ ProbeDone => OpsInv'
<1> SUFFICES ASSUME FlowInv, OpsInv, ProbeDone PROVE OpsInv' OBVIOUS
<1> PICK i : i = Cur OBVIOUS
<1>0. ctl.pc = "probed" /\ UNCHANGED <<spec, dir, file, op, pending, sig>>
  BY DEF ProbeDone
<1>1. CallInv(i) /\ i \in Ops /\ TypesInv /\ Slot(i) \in Slots /\ Slot(i) # BackupSlot
  BY <1>0, InHand
<1>2. /\ Blank(i) /\ fr.path \in Temps /\ Guards(Slot(i), fr.path, Probe(i)) /\ Bared
      /\ fr.slot = Slot(i)
  BY <1>0, <1>1 DEF CallInv, FlowInv, CallFrame
<1>3. Armed(fr.slot) BY <1>2, Names0 DEF Armed, Guards
<1>4. /\ fr'.what = "remove" /\ fr'.slot = fr.slot /\ fr'.path = fr.path
         /\ fr'.ino = Probe(i)
      /\ fr'.then \in {"open", "fail"} /\ Goto("lstat")
  BY <1>2, <1>3 DEF ProbeDone, pending_remove, Guards
<1>5. InCall /\ TypesInv' BY <1>0, SameCall
<1>6. Slot(i)' = Slot(i) BY <1>4, CallStep
<1>7. RemoveInv(i)' BY <1>0, <1>1, <1>2, <1>4, <1>6, SameStage DEF RemoveInv
<1>8. Guards(fr.slot, fr.path, fr.ino)' BY <1>0, <1>2, <1>4 DEF Guards
<1> QED BY <1>2, <1>4, <1>5, <1>7, <1>8, Names0, RemoveOps

(* The new file is at its temporary name, ready to be named.               *)
LEMMA FailReady ==
    ASSUME FlowInv, OpsInv, ctl.pc \in CallPc \ RemovePc, Goto("fail"), Ready(Cur),
          Bared,
           UNCHANGED <<spec, dir, file, op, pending, sig>>
    PROVE  OpsInv'
<1>1. Failing(Cur) BY DEF Ready, Temporary, Raw, Failing
<1> QED BY <1>1, FailSame

(* The temporary name of a file ready to be named holds it, and is not its *)
(* path.                                                                   *)
LEMMA ReadyTmp ==
    ASSUME FlowInv, OpsInv, ctl.pc \in CallPc \ RemovePc, NEW i, i = Cur, Ready(i)
    PROVE  /\ op[i].tmp \in Temps /\ op[i].tmp \in Names /\ dir[op[i].tmp] = New(i)
           /\ Path \in Names \ Temps /\ Path # op[i].tmp
           /\ New(i) \in Inodes /\ New(i) # None
           /\ \A j \in Ops \ {i} : New(i) # New(j)
           /\ dir \in [Names -> Inodes \cup {None}]
<1>1. i \in Ops /\ Path = Operand[i] /\ Operand[i] \in Targets /\ TypesInv BY InHand
<1> QED BY <1>1, Names0, Inodes0 DEF Ready, Temporary, TypesInv

(* The names have moved: the operand is Moved.                             *)
LEMMA MoveCall ==
    ASSUME FlowInv, OpsInv, ctl.pc \in CallPc \ RemovePc, NEW i, i = Cur, Ready(i),
           \/ dir' = Rename(dir, op[Cur].tmp, Path)
           \/ dir' = Exchange(dir, op[Cur].tmp, Path),
           NEW p \in CallPc, Goto(p), UNCHANGED <<spec, file, op, pending, sig>>
    PROVE  InCall /\ TypesInv' /\ Moved(i)' /\ ctl'.pc = p /\ ctl'.cur = ctl.cur
           /\ Slot(i)' = Slot(i)
<1>1. /\ op[i].tmp \in Temps /\ op[i].tmp \in Names /\ dir[op[i].tmp] = New(i)
      /\ Path \in Names \ Temps /\ Path # op[i].tmp
      /\ New(i) \in Inodes /\ New(i) # None
      /\ \A j \in Ops \ {i} : New(i) # New(j)
      /\ dir \in [Names -> Inodes \cup {None}]
  BY ReadyTmp
<1>2. /\ dir' \in [Names -> Inodes \cup {None}]
      /\ \A n \in Names \ {op[i].tmp, Path} : dir'[n] = dir[n]
  BY <1>1 DEF Rename, Exchange
<1>3. InCall /\ TypesInv' BY <1>1, <1>2, Names0, DirStep
<1>4. ctl'.pc = p /\ Slot(i)' = Slot(i) /\ ctl'.cur = ctl.cur BY CallStep
<1>5. Moved(i) BY DEF Moved, Ready, Temporary
<1> QED BY <1>3, <1>4, <1>5, SameStage

(* place_commit() renames without replacing: every operand stays at its    *)
(* stage.                                                                  *)
LEMMA CommitRenameOps == FlowInv /\ OpsInv /\ CommitRename => OpsInv'
<1> SUFFICES ASSUME FlowInv, OpsInv, CommitRename PROVE OpsInv' OBVIOUS
<1> PICK i : i = Cur OBVIOUS
<1>0. ctl.pc = "commit" /\ UNCHANGED <<spec, file, op, pending, sig>>
  BY DEF CommitRename
<1>1. CallInv(i) BY <1>0, InHand
<1>2. Ready(i) /\ Bared BY <1>0, <1>1 DEF CallInv
<1>3. CASE dir' = Rename(dir, op[Cur].tmp, Path) /\ Goto("commitclear")
  <2>1. InCall /\ TypesInv' /\ Moved(i)' /\ ctl'.pc = "commitclear"
    BY <1>0, <1>2, <1>3, MoveCall
  <2>2. Bared' BY <1>0, <1>2 DEF Bared, Armed
  <2>3. CallInv(i)' /\ RemoveFrame' BY <2>1, <2>2 DEF CallInv, RemoveFrame
  <2> QED BY <1>3, <2>1, <2>3, StayOps
<1>4. CASE Goto("fail") /\ UNCHANGED dir BY <1>0, <1>2, <1>4, FailReady
<1> QED BY <1>3, <1>4 DEF CommitRename, SetDir

(* place_over() renames over the placeholder: every operand stays at its   *)
(* stage.                                                                  *)
LEMMA OverRenameOps == FlowInv /\ OpsInv /\ OverRename => OpsInv'
<1> SUFFICES ASSUME FlowInv, OpsInv, OverRename PROVE OpsInv' OBVIOUS
<1> PICK i : i = Cur OBVIOUS
<1>0. ctl.pc = "over" /\ UNCHANGED <<spec, file, op, pending, sig>> BY DEF OverRename
<1>1. CallInv(i) BY <1>0, InHand
<1>2. Ready(i) /\ Bared /\ op[i].way = "temp" /\ fr.path = Path /\ fr.ino = Hold(i) 
  BY <1>0, <1>1 DEF CallInv
<1>3. CASE dir' = Rename(dir, op[Cur].tmp, Path) /\ Goto("renamed")
  <2>1. InCall /\ TypesInv' /\ Moved(i)' /\ ctl'.pc = "renamed"
    BY <1>0, <1>2, <1>3, MoveCall
  <2>2. Bared' BY <1>0, <1>2 DEF Bared, Armed
  <2>3. CallInv(i)' /\ RemoveFrame' BY <2>1, <2>2 DEF CallInv, RemoveFrame, Bared
  <2> QED BY <1>3, <2>1, <2>3, StayOps
<1>4. CASE /\ fr' = [fr EXCEPT !.what = "remove", !.flag = FALSE, !.then = "overfailed"]
           /\ Goto("lstat") /\ UNCHANGED dir
  <2>1. InCall /\ TypesInv' BY <1>0, <1>4, SameCall
  <2>2. Slot(i)' = Slot(i) /\ Path' = Path BY <1>4, CallStep DEF Path
  <2>3. Ready(i)' /\ Bared' BY <1>0, <1>2, <1>4, <2>2, SameStage
  <2>4. /\ fr'.then = "overfailed" /\ fr'.path = fr.path /\ fr'.ino = fr.ino
           /\ fr'.slot = fr.slot
        /\ fr.slot = 0
    BY <1>0, <1>4 DEF FlowInv, CallFrame
  <2>5. 0 \notin Slots /\ BackupSlot \in Slots BY Slots0 DEF FlowInv
  <2>6. RemoveInv(i)' BY <1>0, <1>2, <2>2, <2>3, <2>4, <2>5 DEF RemoveInv
  <2>7. Path \in Names BY <1>0, <1>2, ReadyTmp
  <2> QED BY <1>2, <1>4, <2>1, <2>4, <2>5, <2>6, <2>7, RemoveOps
<1> QED BY <1>3, <1>4 DEF OverRename, SetDir

(* place_over() gives up: every operand stays at its stage.                *)
LEMMA OverFailedOps == FlowInv /\ OpsInv /\ OverFailed => OpsInv'
<1> SUFFICES ASSUME FlowInv, OpsInv, OverFailed PROVE OpsInv' OBVIOUS
<1>0. /\ ctl.pc = "overfailed" /\ UNCHANGED <<spec, dir, file, op, pending, sig>>
      /\ Goto("fail")
  BY DEF OverFailed
<1>1. CallInv(Cur) BY <1>0, InHand
<1>2. Ready(Cur) /\ Bared BY <1>0, <1>1 DEF CallInv
<1> QED BY <1>0, <1>2, FailReady

(* A failed replacement takes its backup back.                             *)
LEMMA TakeBack ==
    ASSUME FlowInv, OpsInv, ctl.pc \in {"backed", "rename"},
           pending_remove(BackupSlot, FALSE, "fail"),
           UNCHANGED <<spec, dir, file, op, pending, sig, mem>>
    PROVE  OpsInv'
<1> PICK i : i = Cur OBVIOUS
<1>1. CallInv(i) /\ i \in Ops /\ Path \in Targets /\ TypesInv BY InHand
<1>2. Ready(i) /\ (Armed(BackupSlot) => /\ Guards(BackupSlot, op[i].backup, mem.old)
                                        /\ mem.old \in Inodes
                                        /\ op[i].backup \in Backups(Path))
  BY <1>1 DEF CallInv
<1>3. CASE ~Armed(BackupSlot)
  BY <1>2, <1>3, FailReady DEF pending_remove, Bared
<1>4. CASE Armed(BackupSlot)
  <2>1. /\ Goto("lstat") /\ fr'.slot = BackupSlot /\ fr'.path = op[i].backup
        /\ fr'.ino = mem.old /\ fr'.then = "fail"
    BY <1>2, <1>4 DEF pending_remove, Guards
  <2>2. InCall /\ TypesInv' BY SameCall
  <2>3. Slot(i)' = Slot(i) /\ Batch' = Batch BY <2>1, CallStep
  <2>4. Ready(i)' BY <1>2, <2>3, SameStage
  <2>5. op[i].backup \in Names /\ op[i].backup \notin Targets \cup Temps
    BY <1>1, <1>2, <1>4, Names0
  <2>6. Apart(fr.path)'
    <3>1. \A j \in Batch : op[j].tmp \in Temps \cup {None}
      BY <1>1, Slots0 DEF FlowInv, TypesInv, OpType
    <3> QED BY <2>1, <2>3, <2>5, <3>1, Names0 DEF Apart
  <2>7. RemoveInv(i)' BY <1>2, <1>4, <2>1, <2>4, <2>5, <2>6 DEF RemoveInv
  <2>8. Guards(fr.slot, fr.path, fr.ino)' BY <1>2, <1>4, <2>1 DEF Guards
  <2> QED BY <2>1, <2>2, <2>5, <2>7, <2>8, RemoveOps
<1> QED BY <1>3, <1>4

(* place_rename() takes the name over: every operand stays at its stage.   *)
LEMMA ReplaceRenameOps == FlowInv /\ OpsInv /\ ReplaceRename => OpsInv'
<1> SUFFICES ASSUME FlowInv, OpsInv, ReplaceRename PROVE OpsInv' OBVIOUS
<1> PICK i : i = Cur OBVIOUS
<1>0. ctl.pc = "rename" /\ UNCHANGED <<spec, file, op, pending, sig, mem>>
  BY DEF ReplaceRename
<1>1. CallInv(i) BY <1>0, InHand
<1>2. Ready(i) /\ (Armed(BackupSlot) => /\ Guards(BackupSlot, op[i].backup, mem.old)
                                        /\ mem.old \in Inodes
                                        /\ op[i].backup \in Backups(Path))
  BY <1>0, <1>1 DEF CallInv
<1>3. CASE dir' = Rename(dir, op[Cur].tmp, Path) /\ Goto("renamed")
  <2>1. /\ InCall /\ TypesInv' /\ Moved(i)' /\ ctl'.pc = "renamed" /\ ctl'.cur = ctl.cur
    BY <1>0, <1>2, <1>3, MoveCall
  <2>2. spec'.force BY <1>0 DEF FlowInv, CtlInv
  <2>3. Path' = Path /\ (Armed(BackupSlot)' <=> Armed(BackupSlot))
    BY <1>0, <2>1 DEF Path, Armed
  <2>4. Backups(Path)' = Backups(Path) BY <2>3 DEF Backups, Simple, Numbered
  <2>5. CallInv(i)' BY <1>0, <1>2, <2>1, <2>2, <2>3, <2>4 DEF CallInv, Guards
  <2>6. RemoveFrame' BY <2>1 DEF RemoveFrame
  <2> QED BY <1>3, <2>1, <2>5, <2>6, StayOps
<1>4. CASE pending_remove(BackupSlot, FALSE, "fail") /\ UNCHANGED dir
  BY <1>0, <1>4, TakeBack
<1> QED BY <1>3, <1>4 DEF ReplaceRename, SetDir

(* place_exchange() exchanges the names: every operand stays at its stage. *)
LEMMA ExchangeNamesOps == FlowInv /\ OpsInv /\ ExchangeNames => OpsInv'
<1> SUFFICES ASSUME FlowInv, OpsInv, ExchangeNames PROVE OpsInv' OBVIOUS
<1> PICK i : i = Cur OBVIOUS
<1>0. ctl.pc = "backed" /\ UNCHANGED <<spec, file, op, pending, sig>>
  BY DEF ExchangeNames
<1>1. CallInv(i) BY <1>0, InHand
<1>2. Ready(i) /\ mem.old \in Inodes
      /\ (Armed(BackupSlot) => /\ Guards(BackupSlot, op[i].backup, mem.old)
                               /\ op[i].backup \in Backups(Path))
  BY <1>0, <1>1 DEF CallInv
<1>3. CASE dir' = Exchange(dir, op[Cur].tmp, Path) /\ Goto("exchanged")
           /\ mem' = [mem EXCEPT !.spareHeld = TRUE]
  <2>1. /\ InCall /\ TypesInv' /\ Moved(i)' /\ ctl'.pc = "exchanged"
           /\ ctl'.cur = ctl.cur
    BY <1>0, <1>2, <1>3, MoveCall
  <2>2. mem'.old = mem.old BY <1>3 DEF FlowInv, HeldInv, MemFields
  <2>3. Path' = Path /\ (Armed(BackupSlot)' <=> Armed(BackupSlot))
    BY <1>0, <2>1 DEF Path, Armed
  <2>4. Backups(Path)' = Backups(Path) BY <2>3 DEF Backups, Simple, Numbered
  <2>5. CallInv(i)' BY <1>0, <1>2, <2>1, <2>2, <2>3, <2>4 DEF CallInv, Guards
  <2>6. RemoveFrame' BY <2>1 DEF RemoveFrame
  <2> QED BY <1>3, <2>1, <2>5, <2>6, StayOps
<1>4. CASE pending_remove(BackupSlot, FALSE, "fail") /\ UNCHANGED <<dir, mem>>
  BY <1>0, <1>4, TakeBack
<1> QED BY <1>3, <1>4 DEF ExchangeNames, SetDir

(* replace_one() flushes the backup: every operand stays at its stage.     *)
LEMMA FlushBackupOps == FlowInv /\ OpsInv /\ FlushBackup => OpsInv'
<1> SUFFICES ASSUME FlowInv, OpsInv, FlushBackup PROVE OpsInv' OBVIOUS
<1> PICK i : i = Cur OBVIOUS
<1>0. ctl.pc = "backed" /\ UNCHANGED <<spec, dir, file, op, pending, sig, mem>>
  BY DEF FlushBackup
<1>1. CallInv(i) BY <1>0, InHand
<1>2. Ready(i) /\ mem.old \in Inodes
      /\ (Armed(BackupSlot) => /\ Guards(BackupSlot, op[i].backup, mem.old)
                               /\ op[i].backup \in Backups(Path))
  BY <1>0, <1>1 DEF CallInv
<1>3. CASE Goto("rename")
  <2>1. InCall /\ TypesInv' BY <1>0, SameCall
  <2>2. ctl'.pc = "rename" /\ Slot(i)' = Slot(i) /\ ctl'.cur = ctl.cur BY <1>3, CallStep
  <2>3. Ready(i)' BY <1>0, <1>2, <2>2, SameStage
  <2>4. Path' = Path /\ (Armed(BackupSlot)' <=> Armed(BackupSlot))
    BY <1>0, <2>2 DEF Path, Armed
  <2>5. Backups(Path)' = Backups(Path) BY <2>4 DEF Backups, Simple, Numbered
  <2>6. CallInv(i)' BY <1>0, <1>2, <2>2, <2>3, <2>4, <2>5 DEF CallInv, Guards
  <2>7. RemoveFrame' BY <2>2 DEF RemoveFrame
  <2> QED BY <1>3, <2>1, <2>6, <2>7, StayOps
<1>4. CASE pending_remove(BackupSlot, FALSE, "fail") BY <1>0, <1>4, TakeBack
<1> QED BY <1>3, <1>4 DEF FlushBackup

(* The operand has its name and its slots are cleared.                     *)
LEMMA NamedOps ==
    ASSUME FlowInv, OpsInv, InCall, Goto("named"), NEW i, i = Cur, TypesInv',
          Named(i)', Bared'
    PROVE  OpsInv'
<1>1. ctl'.pc = "named" BY CallStep
<1>2. CallInv(i)' /\ RemoveFrame' BY <1>1 DEF CallInv, RemoveFrame
<1> QED BY <1>2, StayOps

(* The slots of an operand that has its name are cleared.                  *)
LEMMA ClearedOps ==
    ASSUME FlowInv, OpsInv, ctl.pc \in CallPc \ RemovePc, NEW i, i = Cur, Moved(i),
           \/ pending' = pending_clear(pending, Slot(Cur)) /\ Bared
           \/ pending' = pending_clear(pending_clear(pending, Slot(Cur)), BackupSlot),
           op' = [op EXCEPT ![Cur].tmp = None], Goto("named"),
           UNCHANGED <<spec, dir, file, sig>>
    PROVE  OpsInv'
<1>1. /\ i \in Ops /\ TypesInv /\ Live /\ Slot(i) \in Slots /\ Slot(i) # BackupSlot
  BY InHand
<1>2. BackupSlot \in Slots BY Slots0 DEF FlowInv
<1>3. /\ pending' \in [Slots -> SlotType]
      /\ pending'[Slot(i)].path = None /\ pending'[BackupSlot].path = None
      /\ \A s \in Slots \ {Slot(i), BackupSlot} : pending'[s] = pending[s]
  BY <1>1, <1>2 DEF TypesInv, SlotType, pending_clear, Bared, Armed
<1>4. PICK o \in OpType : o = op[i] BY <1>1 DEF TypesInv
<1>5. [o EXCEPT !.tmp = None] \in OpType BY <1>4 DEF OpType
<1>6. op' \in [Ops -> OpType] /\ \A j \in Ops \ {i} : op'[j] = op[j]
  BY <1>1, <1>4, <1>5 DEF TypesInv
<1>7. op'[i] = [o EXCEPT !.tmp = None] BY <1>1, <1>4 DEF TypesInv
<1>8. InCall BY <1>1, <1>3, <1>6 DEF InCall, KeptOthers
<1>9. TypesInv' BY <1>1, <1>3, <1>6 DEF TypesInv
<1>10. Slot(i)' = Slot(i) BY CallStep
<1>11. /\ op'[i].tmp = None /\ op'[i].spare = None /\ op'[i].fail = "no"
       /\ op'[i].way # "plain" /\ op'[i].fd
  <2>1. o.spare = None /\ o.fail = "no" /\ o.fd /\ o.way # "plain"
    BY <1>4 DEF Moved, Raw
  <2> QED BY <1>4, <1>7, <2>1 DEF OpType
<1>12. Complete(i)' BY DEF Moved, Complete, Finished, Content, SetOwner
<1>13. op'[i].fd = (op'[i].way # "plain")
  <2>1. op'[i].fd \in BOOLEAN BY <1>6, <1>1 DEF OpType
  <2>2. op'[i].fd BY <1>11
  <2>3. op'[i].way # "plain" BY <1>11
  <2> QED BY <2>1, <2>2, <2>3
<1>14. Named(i)' BY <1>3, <1>10, <1>11, <1>12, <1>13 DEF Named, Cleared, Armed
<1>15. Bared' BY <1>3 DEF Bared, Armed
<1> QED BY <1>8, <1>9, <1>14, <1>15, NamedOps

(* pending_clear() after place_commit(): every operand stays at its stage. *)
LEMMA CommitClearOps == FlowInv /\ OpsInv /\ CommitClear => OpsInv'
<1> SUFFICES ASSUME FlowInv, OpsInv, CommitClear PROVE OpsInv' OBVIOUS
<1>0. /\ ctl.pc = "commitclear" /\ UNCHANGED <<spec, dir, file, sig>> /\ Goto("named")
      /\ pending' = pending_clear(pending, Slot(Cur))
            /\ op' = [op EXCEPT ![Cur].tmp = None]
  BY DEF CommitClear
<1>1. CallInv(Cur) BY <1>0, InHand
<1>2. Moved(Cur) /\ Bared BY <1>0, <1>1 DEF CallInv
<1> QED BY <1>0, <1>2, ClearedOps

(* The slots are cleared after a rename: every operand stays at its stage. *)
LEMMA RenamedOps == FlowInv /\ OpsInv /\ Renamed => OpsInv'
<1> SUFFICES ASSUME FlowInv, OpsInv, Renamed PROVE OpsInv' OBVIOUS
<1>0. /\ ctl.pc = "renamed" /\ UNCHANGED <<spec, dir, file, sig>> /\ Goto("named")
      /\ op' = [op EXCEPT ![Cur].tmp = None]
      /\ spec.force => pending' = pending_clear(pending_clear(pending, Slot(Cur)),
            BackupSlot)
      /\ ~spec.force => pending' = pending_clear(pending, Slot(Cur))
  BY DEF Renamed
<1>1. CallInv(Cur) BY <1>0, InHand
<1>2. Moved(Cur) /\ (~spec.force => Bared) BY <1>0, <1>1 DEF CallInv
<1> QED BY <1>0, <1>2, ClearedOps

(* pending_retarget() after an exchange: every operand stays at its stage. *)
LEMMA ExchangedOps == FlowInv /\ OpsInv /\ Exchanged => OpsInv'
<1> SUFFICES ASSUME FlowInv, OpsInv, Exchanged PROVE OpsInv' OBVIOUS
<1> PICK i : i = Cur OBVIOUS
<1>0. /\ ctl.pc = "exchanged" /\ UNCHANGED <<spec, dir, file, sig>> /\ Goto("named")
      /\ pending' = pending_clear([pending EXCEPT ![Slot(Cur)].ino = mem.old],
            BackupSlot)
      /\ op' = [op EXCEPT ![Cur].spare = op[Cur].tmp, ![Cur].tmp = None]
  BY DEF Exchanged
<1>1. /\ CallInv(i) /\ i \in Ops /\ TypesInv /\ Live /\ Slot(i) \in Slots
      /\ Slot(i) # BackupSlot /\ spec.force
  BY <1>0, InHand DEF FlowInv, CtlInv
<1>2. Moved(i) /\ mem.old \in Inodes BY <1>0, <1>1 DEF CallInv
<1>3. BackupSlot \in Slots BY Slots0 DEF FlowInv
<1>4. /\ pending' \in [Slots -> SlotType]
      /\ pending'[Slot(i)].path = pending[Slot(i)].path
            /\ pending'[BackupSlot].path = None
      /\ \A s \in Slots \ {Slot(i), BackupSlot} : pending'[s] = pending[s]
  BY <1>0, <1>1, <1>2, <1>3 DEF TypesInv, SlotType, pending_clear
<1>5. PICK o \in OpType : o = op[i] BY <1>1 DEF TypesInv
<1>6. /\ o.tmp \in Temps /\ o.fail = "no" /\ o.fd /\ o.way # "plain"
      /\ pending[Slot(i)].path = o.tmp
  BY <1>2, <1>5 DEF Moved, Raw, Guards
<1>7. [o EXCEPT !.spare = o.tmp, !.tmp = None] \in OpType BY <1>5, <1>6 DEF OpType
<1>8. op' \in [Ops -> OpType] /\ \A j \in Ops \ {i} : op'[j] = op[j]
  BY <1>0, <1>1, <1>5, <1>7 DEF TypesInv
<1>9. op'[i] = [o EXCEPT !.spare = o.tmp, !.tmp = None] BY <1>0, <1>1, <1>5 DEF TypesInv
<1>10. InCall BY <1>0, <1>1, <1>4, <1>8 DEF InCall, KeptOthers
<1>11. TypesInv' BY <1>0, <1>1, <1>4, <1>8 DEF TypesInv
<1>12. Slot(i)' = Slot(i) BY <1>0, CallStep
<1>13. /\ op'[i].tmp = None /\ op'[i].spare = o.tmp /\ op'[i].fail = "no"
       /\ op'[i].way = o.way /\ op'[i].fd = o.fd
  BY <1>5, <1>6, <1>9 DEF OpType
<1>14. Complete(i)' BY <1>0, <1>2 DEF Moved, Complete, Finished, Content, SetOwner
<1>15. op'[i].fd = (op'[i].way # "plain")
  <2>1. op'[i].fd \in BOOLEAN BY <1>1, <1>8 DEF OpType
  <2>2. op'[i].fd /\ op'[i].way # "plain" BY <1>6, <1>13
  <2> QED BY <2>1, <2>2
<1>16. Spared(i)' BY <1>0, <1>1, <1>4, <1>6, <1>12, <1>13 DEF Spared
<1>17. Named(i)' BY <1>6, <1>13, <1>14, <1>15, <1>16 DEF Named
<1>18. Bared' BY <1>4 DEF Bared, Armed
<1> QED BY <1>0, <1>10, <1>11, <1>17, <1>18, NamedOps

(* place_commit() links: every operand stays at its stage.                 *)
LEMMA CommitLinkOps == FlowInv /\ OpsInv /\ CommitLink => OpsInv'
<1> SUFFICES ASSUME FlowInv, OpsInv, CommitLink PROVE OpsInv' OBVIOUS
<1> PICK i : i = Cur OBVIOUS
<1>0. ctl.pc = "commit" /\ UNCHANGED <<spec, file, op, pending, sig>> BY DEF CommitLink
<1>1. CallInv(i) /\ i \in Ops /\ ~spec.force /\ TypesInv
  BY <1>0, InHand DEF FlowInv, CtlInv
<1>2. Ready(i) /\ Bared /\ op[i].way = "temp" BY <1>0, <1>1 DEF CallInv
<1>3. CASE SetDir(Bind(dir, Path, dir[op[Cur].tmp])) /\ Goto("named")
  <2>1. /\ op[i].tmp \in Temps /\ dir[op[i].tmp] = New(i)
        /\ Path \in Names \ Temps /\ New(i) \in Inodes
        /\ dir \in [Names -> Inodes \cup {None}]
    BY <1>0, <1>2, ReadyTmp
  <2>2. dir' = [dir EXCEPT ![Path] = New(i)] BY <1>3, <2>1 DEF SetDir, Bind
  <2>3. dir' \in [Names -> Inodes \cup {None}] /\ \A n \in Temps : dir'[n] = dir[n]
    BY <2>1, <2>2, Names0
  <2>4. InCall /\ TypesInv' BY <1>0, <2>3, DirStep
  <2>5. Slot(i)' = Slot(i) BY <1>3, CallStep
  <2>6. Ready(i)' /\ Bared' BY <1>0, <1>2, <2>1, <2>3, <2>5, SameStage
  <2>7. op'[i].fd = (op'[i].way # "plain")
    <3>1. op[i].fd \in BOOLEAN BY <1>1 DEF TypesInv, OpType
    <3> QED BY <1>0, <1>2, <3>1 DEF Ready
  <2>8. Named(i)' BY <1>0, <1>1, <1>2, <2>6, <2>7 DEF Named, Ready, Temporary, Raw
  <2> QED BY <1>3, <2>4, <2>6, <2>8, NamedOps
<1>4. CASE Goto("fail") /\ UNCHANGED dir BY <1>0, <1>2, <1>4, FailReady
<1> QED BY <1>3, <1>4 DEF CommitLink

(* place_over() makes its placeholder: every operand stays at its stage.   *)
LEMMA CommitOverOps == FlowInv /\ OpsInv /\ CommitOver => OpsInv'
<1> SUFFICES ASSUME FlowInv, OpsInv, CommitOver PROVE OpsInv' OBVIOUS
<1> PICK i : i = Cur OBVIOUS
<1>0. ctl.pc = "commit" /\ UNCHANGED <<spec, file, op, pending, sig>> BY DEF CommitOver
<1>1. CallInv(i) /\ i \in Ops BY <1>0, InHand
<1>2. Ready(i) /\ Bared /\ op[i].way = "temp" BY <1>0, <1>1 DEF CallInv
<1>3. CASE Made("over", 0, Path, Hold(Cur), Hold(Cur), TRUE, "over")
  <2>1. /\ op[i].tmp \in Temps /\ Path \in Names \ Temps
        /\ dir \in [Names -> Inodes \cup {None}]
    BY <1>0, <1>2, ReadyTmp
  <2>2. /\ dir' = [dir EXCEPT ![Path] = Hold(i)] /\ Goto("made")
        /\ fr'.what = "over" /\ fr'.path = Path /\ fr'.ino = Hold(i)
    BY <1>3 DEF Made, SetDir, Bind
  <2>3. dir' \in [Names -> Inodes \cup {None}] /\ \A n \in Temps : dir'[n] = dir[n]
    BY <1>1, <2>1, <2>2, Names0, Inodes0
  <2>4. InCall /\ TypesInv' BY <1>0, <2>3, DirStep
  <2>5. Slot(i)' = Slot(i) /\ Path' = Path BY <2>2, CallStep DEF Path
  <2>6. Ready(i)' /\ Bared' BY <1>0, <1>2, <2>1, <2>3, <2>5, SameStage
  <2>7. MadeInv(i)' BY <1>0, <1>2, <2>2, <2>5, <2>6 DEF MadeInv
  <2> QED BY <2>2, <2>4, <2>7, MadeOps
<1>4. CASE Goto("fail") /\ UNCHANGED dir BY <1>0, <1>2, <1>4, FailReady
<1> QED BY <1>3, <1>4 DEF CommitOver

-----------------------------------------------------------------------------
(* backup.c *)

(* A step from one part of replace_one() to another.                       *)
LEMMA ReplaceOps ==
    ASSUME FlowInv, OpsInv, ctl.pc \in ReplacePc, Ready(Cur), Bared,
           NEW p \in {"number", "numbered", "simple", "alias", "rename"}, Goto(p),
           p # "rename" => mem'.old \in Inodes,
           UNCHANGED <<spec, dir, file, op, pending, sig>>
    PROVE  OpsInv'
<1> PICK i : i = Cur OBVIOUS
<1>1. InCall /\ TypesInv' BY SameCall
<1>2. ctl'.pc = p /\ Slot(i)' = Slot(i) BY CallStep
<1>3. Ready(i)' /\ Bared' BY <1>2, SameStage
<1>4. CallInv(i)' BY <1>2, <1>3 DEF CallInv, Bared
<1>5. RemoveFrame' BY <1>2 DEF RemoveFrame
<1> QED BY <1>1, <1>4, <1>5, StayOps

(* backup_make() has nothing to do: every operand stays at its stage.      *)
LEMMA backup_noneOps == FlowInv /\ OpsInv /\ backup_none => OpsInv'
<1> SUFFICES ASSUME FlowInv, OpsInv, backup_none PROVE OpsInv' OBVIOUS
<1>0. /\ ctl.pc = "replace" /\ UNCHANGED <<spec, dir, file, op, pending, sig>>
      /\ Goto("rename")
  BY DEF backup_none
<1>1. CallInv(Cur) BY <1>0, InHand
<1>2. Ready(Cur) /\ Bared BY <1>0, <1>1 DEF CallInv
<1> QED BY <1>0, <1>2, ReplaceOps

(* backup_make() looks at the target: every operand stays at its stage.    *)
LEMMA backup_makeOps == FlowInv /\ OpsInv /\ backup_make => OpsInv'
<1> SUFFICES ASSUME FlowInv, OpsInv, backup_make PROVE OpsInv' OBVIOUS
<1>0. ctl.pc = "replace" /\ UNCHANGED <<spec, dir, file, op, pending, sig>>
  BY DEF backup_make
<1>1. CallInv(Cur) /\ TypesInv BY <1>0, InHand
<1>2. Ready(Cur) /\ Bared BY <1>0, <1>1 DEF CallInv
<1>3. CASE /\ ~Free(dir, Path) /\ mem' = [mem EXCEPT !.old = dir[Path]]
           /\ Goto(IF spec.backup = "simple" THEN "simple" ELSE "number")
  <2>1. mem'.old = dir[Path] BY <1>3 DEF FlowInv, HeldInv, MemFields
  <2>2. Path \in Names BY <1>0, <1>2, ReadyTmp
  <2>3. mem'.old \in Inodes BY <1>1, <1>3, <2>1, <2>2 DEF Free, TypesInv
  <2> QED BY <1>0, <1>2, <1>3, <2>3, ReplaceOps
<1>4. CASE Goto("fail") BY <1>0, <1>2, <1>4, FailReady
<1> QED BY <1>3, <1>4 DEF backup_make

(* backup_next() finds the first number: every operand stays at its stage. *)
LEMMA backup_nextOps == FlowInv /\ OpsInv /\ backup_next => OpsInv'
<1> SUFFICES ASSUME FlowInv, OpsInv, backup_next PROVE OpsInv' OBVIOUS
<1>0. ctl.pc = "number" /\ UNCHANGED <<spec, dir, file, op, pending, sig>>
  BY DEF backup_next
<1>1. CallInv(Cur) /\ TypesInv BY <1>0, InHand
<1>2. Ready(Cur) /\ Bared /\ mem.old \in Inodes BY <1>0, <1>1 DEF CallInv
<1>3. mem'.old = mem.old BY DEF backup_next, FlowInv, HeldInv, MemFields
<1>4. Goto("numbered") \/ Goto("simple") \/ Goto("fail") BY DEF backup_next
<1> QED BY <1>0, <1>2, <1>3, <1>4, ReplaceOps, FailReady

(* digits_inc() runs out of memory: every operand stays at its stage.      *)
LEMMA OutOfNumbersOps == FlowInv /\ OpsInv /\ OutOfNumbers => OpsInv'
<1> SUFFICES ASSUME FlowInv, OpsInv, OutOfNumbers PROVE OpsInv' OBVIOUS
<1>0. /\ ctl.pc = "numbered" /\ UNCHANGED <<spec, dir, file, op, pending, sig>>
      /\ Goto("fail")
  BY DEF OutOfNumbers
<1>1. CallInv(Cur) BY <1>0, InHand
<1>2. Ready(Cur) /\ Bared BY <1>0, <1>1 DEF CallInv
<1> QED BY <1>0, <1>2, FailReady

(* The old file gets its second name, outside the temporary names.         *)
LEMMA BackupMade ==
    ASSUME FlowInv, OpsInv, ctl.pc \in CallPc \ RemovePc, Ready(Cur), Bared,
          mem.old \in Inodes,
           mem' = mem, NEW n \in Backups(Path), NEW then, backup_link(n, then),
           UNCHANGED <<spec, file, op, pending, sig>>
    PROVE  OpsInv'
<1> PICK i : i = Cur OBVIOUS
<1>1. i \in Ops /\ TypesInv /\ Path \in Targets BY InHand
<1>2. /\ dir' = [dir EXCEPT ![n] = dir[Path]] /\ Goto("made")
      /\ fr'.what = "backup" /\ fr'.path = n /\ fr'.ino = mem.old
  BY DEF backup_link, Made, SetDir, Bind
<1>3. n \in Names \ Temps /\ Path \in Names BY <1>1, Names0
<1>4. dir' \in [Names -> Inodes \cup {None}] /\ \A m \in Temps : dir'[m] = dir[m]
  BY <1>1, <1>2, <1>3, Names0 DEF TypesInv
<1>5. InCall /\ TypesInv' BY <1>4, DirStep
<1>6. Slot(i)' = Slot(i) /\ Path' = Path BY <1>2, CallStep DEF Path
<1>7. Ready(i)' /\ Bared' BY <1>4, <1>6, SameStage
<1>8. Backups(Path)' = Backups(Path) BY <1>6 DEF Backups, Simple, Numbered
<1>9. MadeInv(i)' BY <1>2, <1>6, <1>7, <1>8 DEF MadeInv
<1> QED BY <1>2, <1>5, <1>9, MadeOps

(* backup_numbered() tries a number: every operand stays at its stage.     *)
LEMMA backup_numberedOps == FlowInv /\ OpsInv /\ backup_numbered => OpsInv'
<1> SUFFICES ASSUME FlowInv, OpsInv, backup_numbered PROVE OpsInv' OBVIOUS
<1> PICK i : i = Cur OBVIOUS
<1>0. ctl.pc = "numbered" /\ UNCHANGED <<spec, file, op, pending, sig>>
  BY DEF backup_numbered
<1>1. CallInv(i) /\ TypesInv BY <1>0, InHand
<1>2. Ready(i) /\ Bared /\ mem.old \in Inodes BY <1>0, <1>1 DEF CallInv
<1>3. CASE backup_link(Numbered(Path, mem.num), "note") /\ UNCHANGED mem
  <2>1. mem.num \in Numbers BY DEF backup_numbered
  <2>2. Numbered(Path, mem.num) \in Backups(Path) BY <2>1 DEF Backups
  <2> QED BY <1>0, <1>2, <1>3, <2>2, BackupMade
<1>4. CASE mem' = [mem EXCEPT !.num = digits_inc(@)] /\ UNCHANGED <<dir, fr, ctl>>
  <2>1. mem'.old = mem.old BY <1>4 DEF FlowInv, HeldInv, MemFields
  <2>2. Goto("numbered")
    <3>1. ctl \in CtlType BY DEF FlowInv, CtlInv
    <3>2. ctl = [ctl EXCEPT !.pc = "numbered"] BY <1>0, <3>1 DEF CtlType
    <3> QED BY <1>4, <3>2 DEF Goto
  <2> QED BY <1>0, <1>2, <1>4, <2>1, <2>2, ReplaceOps
<1>5. CASE NoLink BY <1>0, <1>2, <1>5, FailReady DEF NoLink
<1> QED BY <1>3, <1>4, <1>5 DEF backup_numbered

(* backup_note() remembers a number: every operand stays at its stage.     *)
LEMMA backup_noteOps == FlowInv /\ OpsInv /\ backup_note => OpsInv'
<1> SUFFICES ASSUME FlowInv, OpsInv, backup_note PROVE OpsInv' OBVIOUS
<1> PICK i : i = Cur OBVIOUS
<1>0. /\ ctl.pc = "note" /\ UNCHANGED <<spec, dir, file, op, pending, sig>>
      /\ Goto("backed")
  BY DEF backup_note
<1>1. CallInv(i) BY <1>0, InHand
<1>2. Ready(i) /\ mem.old \in Inodes
      /\ (Armed(BackupSlot) => /\ Guards(BackupSlot, op[i].backup, mem.old)
                               /\ op[i].backup \in Backups(Path))
  BY <1>0, <1>1 DEF CallInv
<1>3. mem'.old = mem.old BY DEF backup_note, FlowInv, HeldInv, MemFields
<1>4. InCall /\ TypesInv' BY <1>0, SameCall
<1>5. ctl'.pc = "backed" /\ Slot(i)' = Slot(i) /\ ctl'.cur = ctl.cur BY <1>0, CallStep
<1>6. Ready(i)' BY <1>0, <1>2, <1>5, SameStage
<1>7. Path' = Path /\ (Armed(BackupSlot)' <=> Armed(BackupSlot))
  BY <1>0, <1>5 DEF Path, Armed
<1>8. Backups(Path)' = Backups(Path) BY <1>7 DEF Backups, Simple, Numbered
<1>9. CallInv(i)' BY <1>0, <1>2, <1>3, <1>5, <1>6, <1>7, <1>8 DEF CallInv, Guards
<1>10. RemoveFrame' BY <1>5 DEF RemoveFrame
<1> QED BY <1>0, <1>4, <1>9, <1>10, StayOps

(* backup_simple() links to the free name: every operand stays at its      *)
(* stage.                                                                  *)
LEMMA backup_simpleOps == FlowInv /\ OpsInv /\ backup_simple => OpsInv'
<1> SUFFICES ASSUME FlowInv, OpsInv, backup_simple PROVE OpsInv' OBVIOUS
<1>0. ctl.pc = "simple" /\ UNCHANGED <<spec, file, op, pending, sig, mem>>
  BY DEF backup_simple
<1>1. CallInv(Cur) BY <1>0, InHand
<1>2. Ready(Cur) /\ Bared /\ mem.old \in Inodes BY <1>0, <1>1 DEF CallInv
<1>3. CASE backup_link(Simple(Path), "backed")
  <2>1. Simple(Path) \in Backups(Path) BY DEF Backups
  <2> QED BY <1>0, <1>2, <1>3, <2>1, BackupMade
<1>4. CASE Goto("alias") /\ UNCHANGED dir BY <1>0, <1>2, <1>4, ReplaceOps
<1>5. CASE NoLink BY <1>0, <1>2, <1>5, FailReady DEF NoLink
<1> QED BY <1>3, <1>4, <1>5 DEF backup_simple

(* While files are named, every temporary name of an operand holds its     *)
(* file.                                                                   *)
LEMMA NameTmps ==
    ASSUME FlowInv, OpsInv, ctl.pc \in ReplacePc, NEW j \in Batch, op[j].tmp # None,
          Ready(Cur)
    PROVE  op[j].tmp \in Temps /\ dir[op[j].tmp] = New(j)
<1>1. CASE j = Cur BY <1>1 DEF Ready, Temporary
<1>2. CASE j # Cur
  <2>1. ctl.loop = "name" /\ Live /\ ctl.pc \in CallPc BY InHand DEF FlowInv, CtlInv
  <2>2. Rest(j) BY <1>2, <2>1 DEF OpsInv, RestInv
  <2>3. Todo("name", j) \/ Done("name", j) BY <2>1, <2>2 DEF Rest
  <2> QED
    BY <2>3 DEF Todo, Done, ToName, Built, Failed, Named, Temporary, Spared, Cleared,
                      InPlace, Nameless
<1> QED BY <1>1, <1>2

(* place_temp_alias() makes the alias: every operand stays at its stage.   *)
LEMMA place_temp_aliasOps == FlowInv /\ OpsInv /\ place_temp_alias => OpsInv'
<1> SUFFICES ASSUME FlowInv, OpsInv, place_temp_alias PROVE OpsInv' OBVIOUS
<1> PICK i : i = Cur OBVIOUS
<1>0. ctl.pc = "alias" /\ UNCHANGED <<spec, file, op, pending, sig, mem>>
  BY DEF place_temp_alias
<1>1. CallInv(i) /\ TypesInv /\ i \in Ops BY <1>0, InHand
<1>2. Ready(i) /\ Bared /\ mem.old \in Inodes BY <1>0, <1>1 DEF CallInv
<1>3. CASE /\ ~Free(dir, Path)
           /\ temp_make("alias", BackupSlot, dir[Path], mem.old, FALSE, "overbackup")
  <2>1. PICK x \in Inodes : x = dir[Path]
    BY <1>0, <1>2, <1>3, ReadyTmp DEF Free
  <2>2. PICK n \in Temps :
          /\ Free(dir, n) /\ SetDir(Bind(dir, n, x)) /\ Goto("made")
          /\ fr'.what = "alias" /\ fr'.path = n /\ fr'.ino = mem.old
    BY <1>3, <2>1 DEF temp_make, Made
  <2>3. /\ Slot(i)' = Slot(i) /\ InCall /\ TypesInv' /\ Batch' = Batch
        /\ Temporary(i) => dir'[op[i].tmp] = dir[op[i].tmp]
    BY <1>0, <2>2, TempMade
  <2>4. Ready(i)' /\ Bared' BY <1>0, <1>2, <2>3, SameStage DEF Ready
  <2>5. Apart(n)
    <3>1. ASSUME NEW j \in Batch, op[j].tmp = n PROVE FALSE
      <4>1. n # None /\ j \in Ops BY Names0, Slots0 DEF FlowInv
      <4>2. dir[n] = New(j) BY <1>0, <1>2, <3>1, <4>1, NameTmps
      <4> QED BY <2>2, <4>1, <4>2, Inodes0 DEF Free
    <3> QED BY <3>1 DEF Apart
  <2>6. Apart(n)' BY <1>0, <2>3, <2>5 DEF Apart
  <2>7. MadeInv(i)' BY <1>0, <1>2, <2>2, <2>4, <2>6 DEF MadeInv, Apart
  <2> QED BY <2>2, <2>3, <2>7, MadeOps
<1>4. CASE Goto("fail") /\ UNCHANGED dir BY <1>0, <1>2, <1>4, FailReady
<1> QED BY <1>3, <1>4 DEF place_temp_alias, NoTemp

(* The alias is renamed over the simple backup: every operand stays at its *)
(* stage.                                                                  *)
LEMMA OverBackupOps == FlowInv /\ OpsInv /\ OverBackup => OpsInv'
<1> SUFFICES ASSUME FlowInv, OpsInv, OverBackup PROVE OpsInv' OBVIOUS
<1> PICK i : i = Cur OBVIOUS
<1>0. ctl.pc = "overbackup" /\ UNCHANGED <<spec, file, pending, sig, mem>>
  BY DEF OverBackup
<1>1. /\ CallInv(i) /\ TypesInv /\ i \in Ops /\ Live /\ Path \in Targets /\ i \in Batch
      /\ Slot(i) \in Slots
  BY <1>0, InHand
<1>2. /\ Ready(i) /\ mem.old \in Inodes /\ Guards(BackupSlot, fr.path, mem.old)
      /\ fr.path \in Temps /\ Apart(fr.path)
  BY <1>0, <1>1 DEF CallInv
<1>3. fr.path \in Names /\ fr.path # None /\ fr.path \notin Targets BY <1>2, Names0
<1>4. Armed(BackupSlot) BY <1>2, <1>3 DEF Armed, Guards
<1>5. /\ fr'.slot = BackupSlot /\ fr'.path = fr.path /\ fr'.ino = mem.old
      /\ fr'.then \in {"backed", "fail"} /\ Goto("lstat")
  BY <1>2, <1>4 DEF OverBackup, pending_remove, Guards
<1>6. /\ op' \in [Ops -> OpType] /\ \A j \in Ops \ {i} : op'[j] = op[j]
      /\ \A j \in Ops : op'[j].tmp = op[j].tmp
      /\ op'[i].way = op[i].way /\ op'[i].fd = op[i].fd /\ op'[i].fail = op[i].fail
      /\ op'[i].spare = op[i].spare
  <2>1. CASE op' = op BY <1>1, <2>1 DEF TypesInv
  <2>2. CASE op' = [op EXCEPT ![Cur].backup = Simple(Path)]
    <3>1. Simple(Path) \in Names BY <1>1, Names0 DEF Backups
    <3> QED BY <1>1, <2>2, <3>1 DEF TypesInv, OpType
  <2> QED BY <2>1, <2>2 DEF OverBackup
<1>7. /\ dir' \in [Names -> Inodes \cup {None}]
      /\ \A m \in Temps \ {fr.path} : dir'[m] = dir[m]
  <2>1. CASE dir' = dir BY <1>1, <2>1 DEF TypesInv
  <2>2. CASE dir' = Rename(dir, fr.path, Simple(Path))
    <3>1. Simple(Path) \in Names \ Temps BY <1>1, Names0 DEF Backups
    <3> QED BY <1>1, <1>3, <2>2, <3>1, Names0 DEF TypesInv, Rename
  <2> QED BY <2>1, <2>2 DEF OverBackup, SetDir
<1>8. Batch \subseteq Ops BY Slots0 DEF FlowInv
<1>9. InCall BY <1>0, <1>1, <1>2, <1>6, <1>7, <1>8 DEF InCall, KeptOthers, Apart
<1>10. TypesInv' BY <1>0, <1>1, <1>6, <1>7 DEF TypesInv
<1>11. Slot(i)' = Slot(i) /\ Batch' = Batch BY <1>5, CallStep
<1>12. Ready(i)'
  <2>1. op[i].tmp \in Temps /\ op[i].tmp # fr.path
    BY <1>1, <1>2 DEF Ready, Temporary, Apart
  <2>2. dir'[op[i].tmp] = dir[op[i].tmp] BY <1>7, <2>1
  <2>3. Complete(i)' /\ ~IsPlain'
    BY <1>0, <1>2 DEF Ready, Complete, Finished, IsPlain, Content, SetOwner
  <2> QED
    BY <1>0, <1>1, <1>2, <1>6, <1>11, <2>1, <2>2, <2>3 DEF Ready, Temporary, Raw, Guards
<1>13. Apart(fr.path)' BY <1>2, <1>5, <1>6, <1>8, <1>11 DEF Apart
<1>14. BackupSlot # Slot(i) BY <1>0, InHand
<1>15. RemoveInv(i)'
  BY <1>0, <1>2, <1>3, <1>5, <1>12, <1>13 DEF RemoveInv
<1>16. Guards(fr.slot, fr.path, fr.ino)' BY <1>0, <1>2, <1>5 DEF Guards
<1> QED BY <1>3, <1>5, <1>9, <1>10, <1>15, <1>16, RemoveOps

-----------------------------------------------------------------------------
(* name_one() with -f: every operand stays at its stage.                   *)
LEMMA NameForceOps == FlowInv /\ OpsInv /\ NameForce => OpsInv'
<1> SUFFICES ASSUME FlowInv, OpsInv, NameForce PROVE OpsInv' OBVIOUS
<1> PICK i : i = Cur OBVIOUS
<1>0. ctl.pc = "name" /\ UNCHANGED <<spec, file, op, pending, sig, mem>>
  BY DEF NameForce
<1>1. CallInv(i) /\ i \in Ops /\ ctl.loop = "name" BY <1>0, InHand DEF FlowInv, CtlInv
<1>2. ToName(i) /\ Bared BY <1>0, <1>1 DEF CallInv
<1>3. Complete(i) BY <1>2 DEF ToName, Built, Complete
<1>4. CASE op[i].way = "unnamed"
  <2>0. Unnamed(i) BY <1>2, <1>4 DEF ToName, Built, Unnamed
  <2>1. CASE temp_make("link", Slot(Cur), New(Cur), New(Cur), FALSE, "replace")
    <3>1. PICK n \in Temps :
            /\ Free(dir, n) /\ SetDir(Bind(dir, n, New(i))) /\ Goto("made")
            /\ fr'.what = "link" /\ fr'.path = n /\ fr'.ino = New(i)
      BY <2>1 DEF temp_make, Made
    <3>2. New(i) \in Inodes BY <1>1, Inodes0
    <3>3. /\ Slot(i)' = Slot(i) /\ InCall /\ TypesInv' /\ dir'[n] = New(i)
          /\ ctl'.loop = ctl.loop
      BY <1>0, <3>1, <3>2, TempMade
    <3>4. MadeInv(i)' BY <1>0, <1>1, <1>2, <1>3, <2>0, <3>1, <3>3, SameStage DEF MadeInv
    <3> QED BY <3>1, <3>3, <3>4, MadeOps
  <2>2. CASE NoTemp("fail")
    <3>1. Failing(i) BY <2>0 DEF Failing, Unnamed, Nameless, Cleared, Raw
    <3> QED BY <1>0, <1>2, <2>2, <3>1, FailSame DEF NoTemp
  <2> QED BY <1>4, <2>1, <2>2 DEF NameForce
<1>5. CASE op[i].way = "temp"
  <2>0. Ready(i) BY <1>2, <1>3, <1>5 DEF ToName, Built, Ready
  <2>1. CASE Goto("replace") /\ UNCHANGED dir
    <3>1. InCall /\ TypesInv' BY <1>0, <2>1, SameCall
    <3>2. ctl'.pc = "replace" /\ Slot(i)' = Slot(i) BY <2>1, CallStep
    <3>3. Ready(i)' /\ Bared' BY <1>0, <1>2, <2>0, <2>1, <3>2, SameStage
    <3>4. CallInv(i)' /\ RemoveFrame' BY <3>2, <3>3 DEF CallInv, RemoveFrame
    <3> QED BY <2>1, <3>1, <3>4, StayOps
  <2>2. CASE Goto("fail") /\ UNCHANGED dir BY <1>0, <1>2, <2>0, <2>2, FailReady
  <2> QED BY <1>5, <2>1, <2>2 DEF NameForce
<1> QED BY <1>4, <1>5 DEF NameForce

(* name_one() of an unnamed file: every operand stays at its stage.        *)
LEMMA NameUnnamedOps == FlowInv /\ OpsInv /\ NameUnnamed => OpsInv'
<1> SUFFICES ASSUME FlowInv, OpsInv, NameUnnamed PROVE OpsInv' OBVIOUS
<1> PICK i : i = Cur OBVIOUS
<1>0. ctl.pc = "name" /\ UNCHANGED <<spec, file, op, pending, sig>>
      /\ op[i].way = "unnamed"
  BY DEF NameUnnamed
<1>1. CallInv(i) /\ i \in Ops /\ TypesInv /\ Path \in Targets BY <1>0, InHand
<1>2. ToName(i) /\ Bared BY <1>0, <1>1 DEF CallInv
<1>3. Complete(i) /\ Nameless(i) /\ op[i].fd BY <1>0, <1>2 DEF ToName, Built, Complete
<1>4. CASE SetDir(Bind(dir, Path, New(Cur))) /\ Goto("named")
  <2>1. dir' = [dir EXCEPT ![Path] = New(i)] BY <1>4 DEF SetDir, Bind
  <2>2. dir' \in [Names -> Inodes \cup {None}] /\ \A n \in Temps : dir'[n] = dir[n]
    BY <1>1, <2>1, Names0, Inodes0 DEF TypesInv
  <2>3. InCall /\ TypesInv' BY <1>0, <2>2, DirStep
  <2>4. Slot(i)' = Slot(i) BY <1>4, CallStep
  <2>5. Nameless(i)' /\ Complete(i)' /\ Bared' BY <1>0, <1>2, <1>3, <2>4, SameStage
  <2>6. op'[i].fd = (op'[i].way # "plain")
    <3>1. op[i].fd \in BOOLEAN BY <1>1 DEF TypesInv, OpType
    <3> QED BY <1>0, <1>3, <3>1
  <2>7. Named(i)' BY <2>5, <2>6 DEF Named, Nameless, Cleared, Raw
  <2> QED BY <1>4, <2>3, <2>5, <2>7, NamedOps
<1>5. CASE Goto("fail") /\ UNCHANGED dir
  <2>1. Failing(i) BY <1>3 DEF Failing, Nameless, Cleared, Raw
  <2> QED BY <1>0, <1>2, <1>5, <2>1, FailSame
<1> QED BY <1>4, <1>5 DEF NameUnnamed

(* name_one() of a temporary file: every operand stays at its stage.       *)
LEMMA NameTempOps == FlowInv /\ OpsInv /\ NameTemp => OpsInv'
<1> SUFFICES ASSUME FlowInv, OpsInv, NameTemp PROVE OpsInv' OBVIOUS
<1> PICK i : i = Cur OBVIOUS
<1>0. ctl.pc = "name" /\ UNCHANGED <<spec, dir, file, op, pending, sig>>
      /\ op[i].way = "temp"
  BY DEF NameTemp
<1>1. CallInv(i) BY <1>0, InHand
<1>2. ToName(i) /\ Bared BY <1>0, <1>1 DEF CallInv
<1>3. Ready(i) BY <1>0, <1>2 DEF ToName, Built, Ready, Complete
<1>4. CASE Goto("commit")
  <2>1. InCall /\ TypesInv' BY <1>0, SameCall
  <2>2. ctl'.pc = "commit" /\ Slot(i)' = Slot(i) BY <1>4, CallStep
  <2>3. Ready(i)' /\ Bared' BY <1>0, <1>2, <1>3, <2>2, SameStage
  <2>4. CallInv(i)' /\ RemoveFrame' BY <1>0, <2>2, <2>3 DEF CallInv, RemoveFrame
  <2> QED BY <1>4, <2>1, <2>4, StayOps
<1>5. CASE Goto("fail") BY <1>0, <1>2, <1>3, <1>5, FailReady
<1> QED BY <1>4, <1>5 DEF NameTemp

(* name_one() of a file created in place: every operand stays at its       *)
(* stage.                                                                  *)
LEMMA NamePlainOps == FlowInv /\ OpsInv /\ NamePlain => OpsInv'
<1> SUFFICES ASSUME FlowInv, OpsInv, NamePlain PROVE OpsInv' OBVIOUS
<1> PICK i : i = Cur OBVIOUS
<1>0. ctl.pc = "name" /\ UNCHANGED <<spec, dir, file, op, sig>> /\ op[i].way = "plain"
  BY DEF NamePlain
<1>1. CallInv(i) /\ i \in Ops /\ TypesInv /\ Live /\ Slot(i) \in Slots
      /\ Slot(i) # BackupSlot
  BY <1>0, InHand
<1>2. ToName(i) /\ Bared BY <1>0, <1>1 DEF CallInv
<1>3. Complete(i) /\ InPlace(i) /\ ~op[i].fd BY <1>0, <1>2 DEF ToName, Built, Complete
<1>4. CASE pending' = pending_clear(pending, Slot(Cur)) /\ Goto("named")
  <2>1. /\ pending' \in [Slots -> SlotType] /\ pending'[Slot(i)].path = None
        /\ \A s \in Slots \ {Slot(i)} : pending'[s] = pending[s]
    BY <1>1, <1>4 DEF TypesInv, SlotType, pending_clear
  <2>2. InCall BY <1>0, <1>1, <2>1 DEF InCall, KeptOthers
  <2>3. TypesInv' BY <1>0, <1>1, <2>1 DEF TypesInv
  <2>4. Slot(i)' = Slot(i) BY <1>4, CallStep
  <2>5. Complete(i)' BY <1>0, <1>3 DEF Complete, Finished, Content, SetOwner
  <2>6. op'[i].fd = (op'[i].way # "plain")
    <3>1. op[i].fd \in BOOLEAN BY <1>1 DEF TypesInv, OpType
    <3> QED BY <1>0, <1>3, <3>1
  <2>7. Named(i)'
    BY <1>0, <1>3, <2>1, <2>4, <2>5, <2>6 DEF Named, InPlace, Cleared, Raw, Armed
  <2>8. Bared' BY <1>1, <1>2, <2>1, Slots0 DEF Bared, Armed, FlowInv
  <2> QED BY <1>4, <2>2, <2>3, <2>7, <2>8, NamedOps
<1>5. CASE Goto("fail") /\ UNCHANGED pending
  <2>1. Failing(i) BY <1>3 DEF Failing, InPlace, Raw
  <2> QED BY <1>0, <1>2, <1>5, <2>1, FailSame
<1> QED BY <1>4, <1>5 DEF NamePlain

(* flush_set_add() remembers the directory: every operand stays at its     *)
(* stage.                                                                  *)
LEMMA flush_set_addOps == FlowInv /\ OpsInv /\ flush_set_add => OpsInv'
<1> SUFFICES ASSUME FlowInv, OpsInv, flush_set_add PROVE OpsInv' OBVIOUS
<1> PICK i : i = Cur OBVIOUS
<1>0. /\ ctl.pc = "named" /\ UNCHANGED <<spec, dir, file, op, pending, sig>>
         /\ Goto("next")
  BY DEF flush_set_add
<1>1. CallInv(i) /\ ctl.loop = "name" BY <1>0, InHand DEF FlowInv, CtlInv
<1>2. Named(i) /\ Bared BY <1>0, <1>1 DEF CallInv
<1>3. InCall /\ TypesInv' BY <1>0, SameCall
<1>4. Slot(i)' = Slot(i) /\ ctl'.first = ctl.first
  BY <1>0, GotoStep DEF FlowInv, Moves, Slot
<1>5. Done("name", i) BY <1>2 DEF Done
<1>6. KeptAt(i) BY <1>0 DEF KeptAt
<1>7. Done("name", i)' BY <1>0, <1>4, <1>5, <1>6, StageKept
<1>8. Bared' BY <1>0, <1>2 DEF Bared, Armed
<1> QED BY <1>0, <1>1, <1>3, <1>7, <1>8, NextOps

(* settle_batch() closes one file: every operand stays at its stage.       *)
LEMMA SettleOneOps == FlowInv /\ OpsInv /\ SettleOne => OpsInv'
<1> SUFFICES ASSUME FlowInv, OpsInv, SettleOne PROVE OpsInv' OBVIOUS
<1> PICK i : i = Cur OBVIOUS
<1>0. /\ ctl.pc = "tidy" /\ UNCHANGED <<spec, dir, file, pending, sig>>
      /\ op' = [op EXCEPT ![Cur].fd = FALSE]
  BY DEF SettleOne
<1>1. CallInv(i) /\ i \in Ops /\ TypesInv /\ Slot(i) # BackupSlot /\ ctl.loop = "tidy"
  BY <1>0, InHand DEF FlowInv, CtlInv
<1>2. Named(i) /\ op[i].fd /\ Bared BY <1>0, <1>1 DEF CallInv
<1>3. PICK o \in OpType : o = op[i] BY <1>1 DEF TypesInv
<1>4. [o EXCEPT !.fd = FALSE] \in OpType BY <1>3 DEF OpType
<1>5. op'[i] = [o EXCEPT !.fd = FALSE] /\ op' \in [Ops -> OpType]
      /\ \A j \in Ops \ {Cur} : op'[j] = op[j]
  BY <1>0, <1>1, <1>3, <1>4 DEF TypesInv
<1>6. /\ op'[i].fd = FALSE /\ op'[i].way = o.way /\ op'[i].fail = o.fail
         /\ op'[i].tmp = o.tmp
      /\ op'[i].spare = o.spare
  BY <1>3, <1>5 DEF OpType
<1>7. InCall /\ TypesInv' BY <1>0, <1>5, OpStep
<1>8. Complete(i)' /\ Bared'
  BY <1>0, <1>2 DEF Named, Complete, Finished, Content, SetOwner, Bared, Armed
<1>9. ASSUME ctl'.first = ctl.first
      PROVE  /\ Cleared(i)' \/ Temporary(i)' \/ Spared(i)'
             /\ Cleared(i) => Cleared(i)'
             /\ Temporary(i) => Temporary(i)'
             /\ Spared(i) => Spared(i)'
             /\ op'[i].fail = "no"
  <2>1. Slot(i)' = Slot(i) BY <1>9 DEF Slot
  <2>2. /\ Cleared(i) => Cleared(i)'
        /\ Temporary(i) => Temporary(i)'
        /\ Spared(i) => Spared(i)'
    BY <1>0, <1>3, <1>6, <2>1 DEF Cleared, Temporary, Spared, Raw, Guards, Armed
  <2> QED BY <1>2, <1>3, <1>6, <2>2 DEF Named
<1>10. CASE op[Cur].tmp # None /\ pending_remove(Slot(Cur), TRUE, "tidied")
  <2>1. Temporary(i) /\ ~spec.force /\ Raw(i)
    BY <1>2, <1>10 DEF Named, Cleared, Spared, Temporary
  <2>2. Guards(Slot(i), op[i].tmp, New(i)) /\ op[i].tmp \in Temps BY <2>1 DEF Temporary
  <2>3. Armed(Slot(i)) BY <2>2, Names0 DEF Armed, Guards
  <2>4. /\ Goto("lstat") /\ fr'.slot = Slot(i) /\ fr'.path = op[i].tmp
           /\ fr'.ino = New(i)
        /\ fr'.then = "tidied"
    BY <1>10, <2>2, <2>3 DEF pending_remove, Guards
  <2>5. RemoveInv(i)'
    BY <1>0, <1>1, <1>3, <1>6, <1>8, <2>1, <2>2, <2>4 DEF RemoveInv, Raw
  <2>6. Guards(fr.slot, fr.path, fr.ino)' BY <1>0, <2>2, <2>4 DEF Guards
  <2> QED BY <1>7, <2>2, <2>4, <2>5, <2>6, Names0, RemoveOps
<1>11. CASE op[Cur].tmp = None /\ Goto("next")
  <2>1. ctl'.first = ctl.first BY <1>11, GotoStep DEF FlowInv, Moves
  <2>2. ~Temporary(i)'
    BY <1>3, <1>6, <1>11, Names0 DEF Temporary
  <2>3. Settled(i)' BY <1>6, <1>8, <1>9, <2>1, <2>2 DEF Settled
  <2>4. Done("tidy", i)' BY <2>3 DEF Done, Past
  <2> QED BY <1>1, <1>7, <1>8, <1>11, <2>4, NextOps
<1>12. CASE Goto("fail")
  <2>1. ctl'.first = ctl.first BY <1>12, CallStep
  <2>2. Failing(i)' BY <1>9, <2>1 DEF Failing
  <2> QED BY <1>7, <1>8, <1>12, <2>2, FailOps
<1> QED BY <1>10, <1>11, <1>12 DEF SettleOne

(* settle_batch() is through with one file: every operand stays at its     *)
(* stage.                                                                  *)
LEMMA TidiedOps == FlowInv /\ OpsInv /\ Tidied => OpsInv'
<1> SUFFICES ASSUME FlowInv, OpsInv, Tidied PROVE OpsInv' OBVIOUS
<1> PICK i : i = Cur OBVIOUS
<1>0. /\ ctl.pc = "tidied" /\ UNCHANGED <<spec, dir, file, pending, sig>>
      /\ op' = [op EXCEPT ![Cur].tmp = None] /\ Goto("next")
  BY DEF Tidied
<1>1. CallInv(i) /\ i \in Ops /\ TypesInv /\ ctl.loop = "tidy"
  BY <1>0, InHand DEF FlowInv, CtlInv
<1>2. Raw(i) /\ ~op[i].fd /\ Complete(i) /\ ~Armed(Slot(i)) /\ Bared
  BY <1>0, <1>1 DEF CallInv
<1>3. PICK o \in OpType : o = op[i] BY <1>1 DEF TypesInv
<1>4. [o EXCEPT !.tmp = None] \in OpType BY <1>3 DEF OpType
<1>5. op'[i] = [o EXCEPT !.tmp = None] /\ op' \in [Ops -> OpType]
      /\ \A j \in Ops \ {Cur} : op'[j] = op[j]
  BY <1>0, <1>1, <1>3, <1>4 DEF TypesInv
<1>6. op'[i].tmp = None /\ op'[i].fd = o.fd /\ op'[i].fail = o.fail
      /\ op'[i].spare = o.spare
  BY <1>3, <1>5 DEF OpType
<1>7. InCall /\ TypesInv' BY <1>0, <1>5, OpStep
<1>8. Slot(i)' = Slot(i) BY <1>0, GotoStep DEF FlowInv, Moves, Slot
<1>9. Complete(i)' /\ Bared' /\ ~Armed(Slot(i))'
  BY <1>0, <1>2, <1>8 DEF Complete, Finished, Content, SetOwner, Bared, Armed
<1>10. Settled(i)' BY <1>2, <1>3, <1>6, <1>9 DEF Settled, Cleared, Raw
<1>11. Done("tidy", i)' BY <1>10 DEF Done, Past
<1> QED BY <1>0, <1>1, <1>7, <1>9, <1>11, NextOps

(* op_fail() closes and removes: every operand stays at its stage.         *)
LEMMA op_failOps == FlowInv /\ OpsInv /\ op_fail => OpsInv'
<1> SUFFICES ASSUME FlowInv, OpsInv, op_fail PROVE OpsInv' OBVIOUS
<1> PICK i : i = Cur OBVIOUS
<1>0. /\ ctl.pc = "fail" /\ UNCHANGED <<spec, dir, file, pending, sig>>
      /\ op' = [op EXCEPT ![Cur].fail = ctl.loop, ![Cur].fd = FALSE]
  BY DEF op_fail
<1>1. /\ CallInv(i) /\ i \in Ops /\ TypesInv /\ Slot(i) # BackupSlot
      /\ Path = Operand[i] /\ Path \in Targets
      /\ ctl.loop \in {"build", "flush", "close", "name", "settle", "tidy"}
  <2>1. ctl.loop # "drop" /\ ctl.loop \in DOMAIN Entry
    BY <1>0 DEF FlowInv, CtlInv, CtlType
  <2>2. ctl.loop \in {"build", "flush", "close", "name", "settle", "tidy"}
    BY <2>1 DEF Entry
  <2> QED BY <1>0, <2>2, InHand
<1>2. Failing(i) /\ Bared BY <1>0, <1>1 DEF CallInv
<1>3. PICK o \in OpType : o = op[i] BY <1>1 DEF TypesInv
<1> DEFINE q == [o EXCEPT !.fail = ctl.loop, !.fd = FALSE]
<1>4. /\ q \in OpType /\ q.fail = ctl.loop /\ q.fd = FALSE /\ q.tmp = o.tmp
      /\ q.spare = o.spare
  BY <1>1 DEF OpType
<1>5. op' = [op EXCEPT ![i] = q] BY <1>0, <1>1, <1>3
<1> HIDE DEF q
<1>6. /\ op'[i] = q /\ op' \in [Ops -> OpType] /\ \A j \in Ops \ {Cur} : op'[j] = op[j]
  BY <1>1, <1>4, <1>5 DEF TypesInv
<1>7. InCall /\ TypesInv' BY <1>0, <1>6, OpStep
<1>8. Bared' BY <1>0, <1>2 DEF Bared, Armed
<1>9. CASE op[Cur].spare = None /\ Armed(Slot(i)) /\ pending_remove(Slot(Cur), FALSE,
      "failed")
  <2>1. /\ pending[Slot(i)].ino = New(i)
        /\ \/ pending[Slot(i)].path = o.tmp /\ o.tmp \in Temps
           \/ pending[Slot(i)].path = Path /\ ~spec.force
    BY <1>1, <1>2, <1>3, <1>9, Names0
       DEF Failing, Temporary, InPlace, Spared, Cleared, Guards, IsPlain
  <2>2. /\ Goto("lstat") /\ fr'.slot = Slot(i) /\ fr'.path = pending[Slot(i)].path
        /\ fr'.ino = New(i) /\ fr'.then = "failed"
    BY <1>9, <2>1 DEF pending_remove
  <2>3. Path' = Path BY <2>2, CallStep DEF Path
  <2>4. RemoveInv(i)'
    BY <1>0, <1>1, <1>3, <1>4, <1>6, <1>8, <1>9, <2>1, <2>2, <2>3 DEF RemoveInv
  <2>5. Guards(fr.slot, fr.path, fr.ino)'
    <3>1. pending[Slot(i)] = [path |-> pending[Slot(i)].path, ino |-> New(i)]
      <4>1. pending[Slot(i)] \in SlotType BY <1>0, InHand DEF TypesInv
      <4> QED BY <2>1, <4>1 DEF SlotType
    <3> QED BY <1>0, <2>2, <3>1 DEF Guards
  <2>6. fr'.path \in Names BY <1>1, <2>1, <2>2, Names0
  <2> QED BY <1>7, <2>2, <2>4, <2>5, <2>6, RemoveOps
<1>10. CASE Goto("failed") /\ (Spared(i) \/ (op[i].spare = None /\ ~Armed(Slot(i))))
  <2>1. ctl'.pc = "failed" /\ Slot(i)' = Slot(i) BY <1>10, CallStep
  <2>2. Spared(i)' \/ (op'[i].spare = None /\ ~Armed(Slot(i))')
    BY <1>0, <1>3, <1>4, <1>6, <1>10, <2>1 DEF Spared, Armed
  <2>3. op'[i].fail # "no" /\ ~op'[i].fd BY <1>1, <1>4, <1>6
  <2>4. CallInv(i)' /\ RemoveFrame' BY <1>8, <2>1, <2>2, <2>3 DEF CallInv, RemoveFrame
  <2> QED BY <1>7, <1>10, <2>4, StayOps
<1>11. op[i].spare # None => Spared(i)
  BY <1>2 DEF Failing, Temporary, InPlace, Cleared, Raw
<1> QED BY <1>9, <1>10, <1>11 DEF op_fail, pending_remove

(* op_fail() is through: every operand stays at its stage.                 *)
LEMMA OpFailedOps == FlowInv /\ OpsInv /\ OpFailed => OpsInv'
<1> SUFFICES ASSUME FlowInv, OpsInv, OpFailed PROVE OpsInv' OBVIOUS
<1> PICK i : i = Cur OBVIOUS
<1>0. /\ ctl.pc = "failed" /\ UNCHANGED <<spec, dir, file, pending, sig>>
      /\ op' = [op EXCEPT ![Cur].tmp = None] /\ Goto("next")
  BY DEF OpFailed
<1>1. /\ CallInv(i) /\ i \in Ops /\ TypesInv
      /\ ctl.loop \in {"build", "flush", "close", "name", "settle", "tidy"}
  <2>1. ctl.loop # "drop" /\ ctl.loop \in DOMAIN Entry
    BY <1>0 DEF FlowInv, CtlInv, CtlType
  <2>2. ctl.loop \in {"build", "flush", "close", "name", "settle", "tidy"}
    BY <2>1 DEF Entry
  <2> QED BY <1>0, <2>2, InHand
<1>2. /\ op[i].fail # "no" /\ ~op[i].fd /\ Bared
      /\ Spared(i) \/ (op[i].spare = None /\ ~Armed(Slot(i)))
  BY <1>0, <1>1 DEF CallInv
<1>3. PICK o \in OpType : o = op[i] BY <1>1 DEF TypesInv
<1>4. [o EXCEPT !.tmp = None] \in OpType BY <1>3 DEF OpType
<1>5. op'[i] = [o EXCEPT !.tmp = None] /\ op' \in [Ops -> OpType]
      /\ \A j \in Ops \ {Cur} : op'[j] = op[j]
  BY <1>0, <1>1, <1>3, <1>4 DEF TypesInv
<1>6. op'[i].tmp = None /\ op'[i].fd = o.fd /\ op'[i].fail = o.fail
      /\ op'[i].spare = o.spare
  BY <1>3, <1>5 DEF OpType
<1>7. InCall /\ TypesInv' BY <1>0, <1>5, OpStep
<1>8. Slot(i)' = Slot(i) BY <1>0, GotoStep DEF FlowInv, Moves, Slot
<1>9. Bared' BY <1>0, <1>2 DEF Bared, Armed
<1>10. Failed(i)' BY <1>0, <1>2, <1>3, <1>6, <1>8 DEF Failed, Cleared, Spared, Armed
<1>11. PICK l : l = ctl.loop OBVIOUS
<1>12. Done(l, i)' BY <1>1, <1>10, <1>11 DEF Done, Past
<1> QED BY <1>0, <1>7, <1>9, <1>11, <1>12, NextOps

(* drop_spares() looks at one old file: every operand stays at its stage.  *)
LEMMA drop_sparesOps == FlowInv /\ OpsInv /\ drop_spares => OpsInv'
<1> SUFFICES ASSUME FlowInv, OpsInv, drop_spares PROVE OpsInv' OBVIOUS
<1> PICK i : i = Cur OBVIOUS
<1>0. ctl.pc = "drop" /\ UNCHANGED <<spec, dir, file, op, sig>> BY DEF drop_spares
<1>1. /\ CallInv(i) /\ i \in Ops /\ TypesInv /\ Live /\ Slot(i) \in Slots
      /\ Slot(i) # BackupSlot
  BY <1>0, InHand
<1>2. Past(i) /\ Spared(i) /\ Bared BY <1>0, <1>1 DEF CallInv
<1>3. CASE pending_remove(Slot(Cur), TRUE, "dropped") /\ UNCHANGED pending
  <2>1. pending[Slot(i)].path \in Temps BY <1>2 DEF Spared
  <2>2. Armed(Slot(i)) BY <2>1, Names0 DEF Armed
  <2>3. /\ Goto("lstat") /\ fr'.slot = Slot(i) /\ fr'.path = pending[Slot(i)].path
        /\ fr'.ino = pending[Slot(i)].ino /\ fr'.then = "dropped"
    BY <1>3, <2>2 DEF pending_remove
  <2>4. InCall /\ TypesInv' BY <1>0, <1>3, SameCall
  <2>5. Slot(i)' = Slot(i) BY <2>3, CallStep
  <2>6. Past(i)' /\ Spared(i)' /\ Bared'
    BY <1>0, <1>2, <1>3, <2>5, SameStage DEF Past, Failed, Settled
  <2>7. RemoveInv(i)' BY <1>1, <2>3, <2>6 DEF RemoveInv
  <2>8. Guards(fr.slot, fr.path, fr.ino)'
    <3>1. pending[Slot(i)] = [path |-> pending[Slot(i)].path,
          ino |-> pending[Slot(i)].ino]
      <4>1. pending[Slot(i)] \in SlotType BY <1>1 DEF TypesInv
      <4> QED BY <4>1 DEF SlotType
    <3> QED BY <1>3, <2>3, <3>1 DEF Guards
  <2> QED BY <2>1, <2>3, <2>4, <2>7, <2>8, Names0, RemoveOps
<1>4. CASE pending' = pending_clear(pending, Slot(Cur)) /\ Goto("dropped")
  <2>1. /\ pending' \in [Slots -> SlotType] /\ pending'[Slot(i)].path = None
        /\ \A s \in Slots \ {Slot(i)} : pending'[s] = pending[s]
    BY <1>1, <1>4 DEF TypesInv, SlotType, pending_clear
  <2>2. InCall BY <1>0, <1>1, <2>1 DEF InCall, KeptOthers
  <2>3. TypesInv' BY <1>0, <1>1, <2>1 DEF TypesInv
  <2>4. ctl'.pc = "dropped" /\ Slot(i)' = Slot(i) BY <1>4, CallStep
  <2>5. Bared' BY <1>1, <1>2, <2>1, Slots0 DEF Bared, Armed, FlowInv
  <2>6. /\ ~op'[i].fd /\ op'[i].tmp = None /\ ~Armed(Slot(i))'
        /\ op'[i].fail = "no" => Complete(i)'
    BY <1>0, <1>2, <2>1, <2>4
       DEF Past, Failed, Settled, Spared, Armed, Complete, Finished, Content, SetOwner
  <2>7. CallInv(i)' /\ RemoveFrame' BY <2>4, <2>5, <2>6 DEF CallInv, RemoveFrame
  <2> QED BY <1>4, <2>2, <2>3, <2>7, StayOps
<1> QED BY <1>3, <1>4 DEF drop_spares

(* drop_spares() is through with one old file: every operand stays at its  *)
(* stage.                                                                  *)
LEMMA DroppedOps == FlowInv /\ OpsInv /\ Dropped => OpsInv'
<1> SUFFICES ASSUME FlowInv, OpsInv, Dropped PROVE OpsInv' OBVIOUS
<1> PICK i : i = Cur OBVIOUS
<1>0. /\ ctl.pc = "dropped" /\ UNCHANGED <<spec, dir, file, pending, sig>>
      /\ op' = [op EXCEPT ![Cur].spare = None] /\ Goto("next")
  BY DEF Dropped
<1>1. CallInv(i) /\ i \in Ops /\ TypesInv /\ ctl.loop = "drop"
  BY <1>0, InHand DEF FlowInv, CtlInv
<1>2. /\ ~op[i].fd /\ op[i].tmp = None /\ ~Armed(Slot(i)) /\ Bared
      /\ op[i].fail = "no" => Complete(i)
  BY <1>0, <1>1 DEF CallInv
<1>3. PICK o \in OpType : o = op[i] BY <1>1 DEF TypesInv
<1>4. [o EXCEPT !.spare = None] \in OpType BY <1>3 DEF OpType
<1>5. op'[i] = [o EXCEPT !.spare = None] /\ op' \in [Ops -> OpType]
      /\ \A j \in Ops \ {Cur} : op'[j] = op[j]
  BY <1>0, <1>1, <1>3, <1>4 DEF TypesInv
<1>6. op'[i].tmp = o.tmp /\ op'[i].fd = o.fd /\ op'[i].fail = o.fail
      /\ op'[i].spare = None
  BY <1>3, <1>5 DEF OpType
<1>7. InCall /\ TypesInv' BY <1>0, <1>5, OpStep
<1>8. Slot(i)' = Slot(i) BY <1>0, GotoStep DEF FlowInv, Moves, Slot
<1>9. Bared' BY <1>0, <1>2 DEF Bared, Armed
<1>10. op'[i].fail = "no" => Complete(i)'
  BY <1>0, <1>2, <1>3, <1>6 DEF Complete, Finished, Content, SetOwner
<1>11. Cleared(i)' BY <1>0, <1>2, <1>3, <1>6, <1>8 DEF Cleared, Armed
<1>12. Past(i)' BY <1>2, <1>3, <1>6, <1>10, <1>11 DEF Past, Failed, Settled
<1>13. Done("drop", i)' BY <1>11, <1>12 DEF Done
<1> QED BY <1>0, <1>1, <1>7, <1>9, <1>13, NextOps

(* remove_ours() is at work for the operand in hand.                       *)
LEMMA InRemove ==
    ASSUME FlowInv, OpsInv, Live, ctl.pc \in RemovePc, NEW i, i = Cur
    PROVE  /\ RemoveInv(i) /\ FrRemove /\ TypesInv
           /\ i \in Batch /\ i \in Ops /\ i = ctl.cur
           /\ Slot(i) \in Slots /\ Slot(i) # BackupSlot /\ BackupSlot \in Slots
                 /\ 0 \notin Slots
           /\ Path = Operand[i] /\ Operand[i] \in Targets
           /\ fr.path \in Names
           /\ fr.slot \in Slots => Guards(fr.slot, fr.path, fr.ino)
           /\ ctl.pc = "unlink" /\ fr.path \in Temps => dir[fr.path] = fr.ino
<1>1. i \in Batch BY DEF FlowInv, CtlInv
<1>2. CallInv(i) BY DEF OpsInv, CallInv
<1>3. RemoveInv(i) BY <1>2 DEF CallInv
<1>4. FrRemove BY DEF FlowInv, CallFrame
<1>5. RemoveFrame /\ TypesInv BY DEF OpsInv
<1> QED BY <1>1, <1>3, <1>4, <1>5, Slots0, Names0 DEF FlowInv, Cur, Path, RemoveFrame

(* What the removal of a name leaves of the operand.                       *)
LEMMA LeftStage ==
    ASSUME NEW i, spec' = spec, file'[i] = file[i],
           op'[i].way = op[i].way, op'[i].tmp = op[i].tmp, op'[i].spare = op[i].spare,
           op'[i].fail = op[i].fail, op'[i].fd = op[i].fd
    PROVE  /\ Blank(i)' <=> Blank(i)
           /\ Raw(i)' <=> Raw(i)
           /\ Complete(i)' <=> Complete(i)
           /\ IsPlain' <=> IsPlain
<1>1. /\ Raw(i)' <=> Raw(i)
      /\ IsPlain' <=> IsPlain
      /\ Complete(i)' <=> Complete(i)
      /\ Private(i)' <=> Private(i)
      /\ Unfilled(i)' <=> Unfilled(i)
  BY DEF Raw, IsPlain, Content, SetOwner, Complete, Finished, Private, Unfilled
<1> QED BY <1>1 DEF Blank

(* remove_ours() returns to its caller: every operand stays at its stage.  *)
LEMMA RemoveDoneOps ==
    ASSUME FlowInv, OpsInv, Live, ctl.pc \in RemovePc, NEW left, RemoveDone(left),
           UNCHANGED <<spec, file, sig, fr, mem>>,
           dir' = dir \/ (ctl.pc = "unlink" /\ dir' = [dir EXCEPT ![fr.path] = None])
    PROVE  OpsInv'
<1> PICK i : i = Cur OBVIOUS
<1>1. /\ RemoveInv(i) /\ FrRemove /\ TypesInv
      /\ i \in Batch /\ i \in Ops /\ i = ctl.cur
      /\ Slot(i) \in Slots /\ Slot(i) # BackupSlot /\ BackupSlot \in Slots
            /\ 0 \notin Slots
      /\ Path = Operand[i] /\ Operand[i] \in Targets
      /\ fr.path \in Names
      /\ ctl.pc = "unlink" /\ fr.path \in Temps => dir[fr.path] = fr.ino
  BY InRemove
<1>2. fr.slot \in {Slot(i), BackupSlot, 0} BY <1>1 DEF FrRemove
<1>3. /\ pending' \in [Slots -> SlotType]
      /\ \A s \in Slots \ {fr.slot} : pending'[s] = pending[s]
      /\ fr.slot \in Slots => pending'[fr.slot].path = None
  BY <1>1 DEF RemoveDone, TypesInv, SlotType, pending_clear, Live
<1>4. /\ op' \in [Ops -> OpType] /\ \A j \in Ops \ {i} : op'[j] = op[j]
      /\ op'[i].way = op[i].way /\ op'[i].tmp = op[i].tmp /\ op'[i].spare = op[i].spare
      /\ op'[i].fail = op[i].fail /\ op'[i].fd = op[i].fd
      /\ \A j \in Ops : op'[j].tmp = op[j].tmp
  <2>1. PICK o \in OpType : o = op[i] BY <1>1 DEF TypesInv
  <2> DEFINE q == [o EXCEPT !.leftover = TRUE]
  <2>2. /\ q \in OpType /\ q.way = o.way /\ q.tmp = o.tmp
        /\ q.spare = o.spare /\ q.fail = o.fail /\ q.fd = o.fd
    BY DEF OpType
  <2>3. op' = op \/ op' = [op EXCEPT ![i] = q]
    BY <1>1, <2>1 DEF RemoveDone, TypesInv
  <2> HIDE DEF q
  <2> QED BY <1>1, <2>1, <2>2, <2>3 DEF TypesInv
<1>5. /\ dir' \in [Names -> Inodes \cup {None}]
         /\ \A n \in Names \ {fr.path} : dir'[n] = dir[n]
  BY <1>1 DEF TypesInv
<1>6. Batch \subseteq Ops BY Slots0 DEF FlowInv
<1>7. ASSUME NEW j \in Batch \ {i}, op[j].tmp \in Temps, dir[op[j].tmp] = New(j)
      PROVE  dir'[op[j].tmp] = New(j)
  <2>1. CASE op[j].tmp # fr.path BY <1>5, <1>7, <2>1, Names0
  <2>2. CASE op[j].tmp = fr.path /\ dir' # dir
    <3>1. fr.ino = New(j) BY <1>1, <1>7, <2>2
    <3>2. fr.then # "dropped" => FALSE
      BY <1>1, <1>7, <2>2, <3>1, Inodes0, Names0 DEF RemoveInv, Apart, FrRemove
    <3>3. fr.then = "dropped" => FALSE
      <4>1. ctl.loop = "drop" \/ fr.then # "dropped" BY <1>1 DEF FrRemove
      <4>2. Rest(j) BY <1>7 DEF OpsInv, RestInv
      <4>3. fr.then = "dropped" => Todo("drop", j) \/ Done("drop", j)
        BY <4>1, <4>2 DEF Rest
      <4> QED
        BY <1>7, <4>3, Names0 DEF Todo, Done, Past, Failed, Settled, Spared, Cleared
    <3> QED BY <3>2, <3>3
  <2>3. CASE dir' = dir BY <1>7, <2>3
  <2> QED BY <2>1, <2>2, <2>3
<1>8. InCall BY <1>1, <1>2, <1>3, <1>4, <1>7 DEF InCall, KeptOthers
<1>9. TypesInv' BY <1>1, <1>3, <1>4, <1>5 DEF TypesInv
<1>10. fr.then \in CallPc /\ Goto(fr.then)
  BY <1>1 DEF FrRemove, RemoveDone
<1>11. ctl'.pc = fr.then /\ Slot(i)' = Slot(i) BY <1>10, CallStep
<1>12. Bared'
  BY <1>1, <1>2, <1>3 DEF RemoveInv, Bared, Armed
<1>13. /\ Blank(i)' <=> Blank(i)
       /\ Raw(i)' <=> Raw(i)
       /\ Complete(i)' <=> Complete(i)
       /\ IsPlain' <=> IsPlain
  BY <1>4, LeftStage
<1>14. Ready(i) /\ fr.path # op[i].tmp /\ fr.slot # Slot(i) => Ready(i)'
  BY <1>1, <1>3, <1>4, <1>5, <1>11, <1>13, Names0 DEF Ready, Temporary, Raw, Guards
<1>15. fr.slot = Slot(i) => ~Armed(Slot(i))' BY <1>1, <1>3, <1>11 DEF Armed
<1>16. CASE fr.then = "open"
  <2>1. CallInv(i)' /\ RemoveFrame'
    BY <1>1, <1>11, <1>12, <1>13, <1>15, <1>16
       DEF CallInv, RemoveFrame, RemoveInv, FrRemove
  <2> QED BY <1>8, <1>9, <1>10, <2>1, StayOps
<1>17. CASE fr.then = "fail"
  <2>1. CASE fr.slot = Slot(i)
    <3>1. Blank(i)' BY <1>1, <1>13, <1>17, <2>1 DEF RemoveInv
    <3>2. Failing(i)' BY <1>15, <2>1, <3>1 DEF Failing, Blank, Cleared, Raw
    <3> QED BY <1>8, <1>9, <1>10, <1>12, <1>17, <3>2, FailOps
  <2>2. CASE fr.slot = BackupSlot
    <3>1. Ready(i) /\ Apart(fr.path) BY <1>1, <1>17, <2>2 DEF RemoveInv
    <3>2. Ready(i)' BY <1>1, <1>14, <2>2, <3>1 DEF Apart
    <3>3. Failing(i)' BY <3>2 DEF Failing, Ready, Temporary, Raw
    <3> QED BY <1>8, <1>9, <1>10, <1>12, <1>17, <3>3, FailOps
  <2> QED BY <1>1, <1>17, <2>1, <2>2 DEF FrRemove
<1>18. CASE fr.then = "backed"
  <2>1. fr.slot = BackupSlot /\ Ready(i) /\ Apart(fr.path) /\ mem.old \in Inodes
    BY <1>1, <1>18 DEF FrRemove, RemoveInv
  <2>2. Ready(i)' BY <1>1, <1>14, <2>1 DEF Apart
  <2>3. CallInv(i)' BY <1>11, <1>12, <1>18, <2>1, <2>2 DEF CallInv, Bared
  <2>4. RemoveFrame' BY <1>11, <1>18 DEF RemoveFrame
  <2> QED BY <1>8, <1>9, <1>10, <2>3, <2>4, StayOps
<1>19. CASE fr.then = "overfailed"
  <2>1. fr.slot = 0 /\ Ready(i) /\ fr.path = Path /\ op[i].way = "temp"
    BY <1>1, <1>19 DEF FrRemove, RemoveInv
  <2>2. fr.path # op[i].tmp BY <1>1, <2>1, Names0 DEF Ready, Temporary
  <2>3. Ready(i)' BY <1>1, <1>14, <2>1, <2>2
  <2>4. CallInv(i)' BY <1>4, <1>11, <1>12, <1>19, <2>1, <2>3 DEF CallInv
  <2>5. RemoveFrame' BY <1>11, <1>19 DEF RemoveFrame
  <2> QED BY <1>8, <1>9, <1>10, <2>4, <2>5, StayOps
<1>20. CASE fr.then = "failed"
  <2>1. fr.slot = Slot(i) /\ op[i].fail # "no" /\ ~op[i].fd /\ op[i].spare = None
    BY <1>1, <1>20 DEF FrRemove, RemoveInv
  <2>2. CallInv(i)' BY <1>4, <1>11, <1>12, <1>15, <1>20, <2>1 DEF CallInv
  <2>3. RemoveFrame' BY <1>11, <1>20 DEF RemoveFrame
  <2> QED BY <1>8, <1>9, <1>10, <2>2, <2>3, StayOps
<1>21. CASE fr.then = "tidied"
  <2>1. fr.slot = Slot(i) /\ Raw(i) /\ ~op[i].fd /\ Complete(i)
    BY <1>1, <1>21 DEF FrRemove, RemoveInv
  <2>2. CallInv(i)' BY <1>4, <1>11, <1>12, <1>13, <1>15, <1>21, <2>1 DEF CallInv
  <2>3. RemoveFrame' BY <1>11, <1>21 DEF RemoveFrame
  <2> QED BY <1>8, <1>9, <1>10, <2>2, <2>3, StayOps
<1>22. CASE fr.then = "dropped"
  <2>1. fr.slot = Slot(i) /\ Past(i) /\ Spared(i) BY <1>1, <1>22 DEF FrRemove, RemoveInv
  <2>2. /\ ~op'[i].fd /\ op'[i].tmp = None
        /\ op'[i].fail = "no" => Complete(i)'
    BY <1>4, <1>13, <2>1 DEF Past, Failed, Settled, Spared
  <2>3. CallInv(i)' BY <1>11, <1>12, <1>15, <1>22, <2>1, <2>2 DEF CallInv
  <2>4. RemoveFrame' BY <1>11, <1>22 DEF RemoveFrame
  <2> QED BY <1>8, <1>9, <1>10, <2>3, <2>4, StayOps
<1> QED BY <1>1, <1>16, <1>17, <1>18, <1>19, <1>20, <1>21, <1>22 DEF FrRemove

(* In the handler nothing but the frame changes.                           *)
LEMMA HandlerOps ==
    ASSUME FlowInv, OpsInv, ~Live, ~Live', UNCHANGED <<file, op, pending>>,
           ctl'.first = ctl.first, ctl'.pc # "batch", TypesInv', RemoveFrame'
    PROVE  OpsInv'
<1>1. RestInv' BY DEF OpsInv, RestInv, Pristine
<1> QED BY <1>1 DEF OpsInv

(* remove_ours() called by cleanup_handler().                              *)
LEMMA RemoveHandler ==
    ASSUME FlowInv, OpsInv, ~Live, ctl.pc \in RemovePc, NEW left, RemoveDone(left),
           UNCHANGED <<spec, file, sig, fr, mem>>,
           dir' = dir \/ dir' = [dir EXCEPT ![fr.path] = None]
    PROVE  OpsInv'
<1>1. ~fr.flag /\ fr.then = "handler" /\ fr.path \in Names /\ TypesInv
  BY DEF FlowInv, CallFrame, OpsInv, RemoveFrame
<1>2. UNCHANGED <<op, pending>> BY <1>1 DEF RemoveDone, Live
<1>3. ctl'.pc = "handler" /\ ctl'.first = ctl.first
  BY <1>1 DEF RemoveDone, Goto, FlowInv, CtlInv, CtlType
<1>4. TypesInv' BY <1>1, <1>2 DEF TypesInv
<1>5. RemoveFrame' BY <1>3 DEF RemoveFrame
<1> QED BY <1>2, <1>3, <1>4, <1>5, HandlerOps DEF Live

(* remove_ours() looks at the name: every operand stays at its stage.      *)
LEMMA RemoveLstatOps == FlowInv /\ OpsInv /\ RemoveLstat => OpsInv'
<1> SUFFICES ASSUME FlowInv, OpsInv, RemoveLstat PROVE OpsInv' OBVIOUS
<1> PICK i : i = Cur OBVIOUS
<1>0. ctl.pc = "lstat" /\ UNCHANGED <<spec, dir, file, sig, fr, mem>> BY DEF RemoveLstat
<1>1. CASE RemoveDone(TRUE) \/ RemoveDone(FALSE)
  <2>1. PICK left \in BOOLEAN : RemoveDone(left) BY <1>1
  <2> QED BY <1>0, <2>1, RemoveDoneOps, RemoveHandler
<1>2. CASE dir[fr.path] = fr.ino /\ Goto("unlink") /\ UNCHANGED <<pending, op>>
  <2>1. TypesInv' BY <1>0, <1>2 DEF OpsInv, TypesInv
  <2>2. RemoveFrame' BY <1>0, <1>2 DEF OpsInv, RemoveFrame, Guards
  <2>3. ctl'.pc = "unlink" /\ ctl'.first = ctl.first /\ Slot(i)' = Slot(i)
        /\ Batch' = Batch
        /\ ctl'.loop = ctl.loop /\ ctl'.cur = ctl.cur
    BY <1>2, CallStep
  <2>4. CASE ~Live BY <1>0, <1>2, <2>1, <2>2, <2>3, <2>4, HandlerOps DEF Live
  <2>5. CASE Live
    <3>1. InCall BY <1>0, <1>2, <2>5 DEF InCall, KeptOthers
    <3>2. RemoveInv(i) BY <1>0, <2>5, InRemove
    <3>3. UNCHANGED <<spec, file, op, pending, dir, fr, mem>> BY <1>0, <1>2
    <3>4. /\ Blank(i)' <=> Blank(i)
          /\ Raw(i)' <=> Raw(i)
          /\ Complete(i)' <=> Complete(i)
          /\ Ready(i)' <=> Ready(i)
          /\ Spared(i)' <=> Spared(i)
          /\ Cleared(i)' <=> Cleared(i)
          /\ Bared' <=> Bared
      BY <2>3, <3>3, SameStage DEF Raw
    <3>5. Past(i)' <=> Past(i) BY <3>3, <3>4 DEF Past, Failed, Settled
    <3>6. Path' = Path /\ (Apart(fr.path)' <=> Apart(fr.path))
      BY <2>3, <3>3 DEF Apart, Path
    <3>7. RemoveInv(i)' BY <2>3, <3>2, <3>3, <3>4, <3>5, <3>6 DEF RemoveInv
    <3>8. CallInv(i)' BY <2>3, <3>7 DEF CallInv
    <3> QED BY <1>2, <2>1, <2>2, <3>1, <3>8, StayOps
  <2> QED BY <2>4, <2>5
<1> QED BY <1>1, <1>2 DEF RemoveLstat

(* remove_ours() unlinks: every operand stays at its stage.                *)
LEMMA RemoveUnlinkOps == FlowInv /\ OpsInv /\ RemoveUnlink => OpsInv'
<1> SUFFICES ASSUME FlowInv, OpsInv, RemoveUnlink PROVE OpsInv' OBVIOUS
<1>0. ctl.pc = "unlink" /\ UNCHANGED <<spec, file, sig, fr, mem>> BY DEF RemoveUnlink
<1>1. dir' = dir \/ dir' = [dir EXCEPT ![fr.path] = None]
  BY DEF RemoveUnlink, SetDir, Bind
<1>2. PICK left \in BOOLEAN : RemoveDone(left) BY DEF RemoveUnlink
<1> QED BY <1>0, <1>1, <1>2, RemoveDoneOps, RemoveHandler

(* Between two loops every operand of the batch is as the last loop leaves *)
(* it.                                                                     *)
LEMMA AtHead ==
    ASSUME FlowInv, OpsInv, ctl.pc \in HeadPc
    PROVE  /\ Live /\ Bared /\ TypesInv /\ RestInv /\ Batch \subseteq Ops
           /\ ctl.pc # "batch" => \A j \in Batch : Done(LoopOf[ctl.pc], j)
<1>1. Live BY DEF FlowInv, HeldInv, HeadPc
<1>2. CallInv(Cur) /\ TypesInv /\ RestInv BY <1>1 DEF OpsInv
<1>3. Bared BY <1>2 DEF CallInv, HeadPc
<1>4. ASSUME ctl.pc # "batch", NEW j \in Batch PROVE Done(LoopOf[ctl.pc], j)
  <2>1. Rest(j) /\ ctl.todo = {} /\ ctl.loop = LoopOf[ctl.pc]
    BY <1>1, <1>2, <1>4 DEF RestInv, FlowInv, CtlInv
  <2> QED BY <2>1 DEF Rest
<1> QED BY <1>1, <1>2, <1>3, <1>4, Slots0 DEF FlowInv

(* From the end of one loop of batch.c to the start of the next.           *)
LEMMA HeadEnter ==
    ASSUME FlowInv, OpsInv, ctl.pc \in HeadPc,
           UNCHANGED <<spec, dir, file, op, pending, sig>>,
           NEW l \in DOMAIN Entry, NEW s \in SUBSET Batch, ctl' = Loop(l, s),
           \A j \in Batch : (j \in s => Todo(l, j)) /\ (j \notin s => Done(l, j))
    PROVE  OpsInv'
<1>1. Live /\ Bared /\ TypesInv /\ RestInv BY AtHead
<1>2. ctl'.first = ctl.first BY LoopEntered DEF FlowInv, Entered
<1>3. ASSUME NEW j \in Batch
      PROVE  (j \in s => Todo(l, j)') /\ (j \notin s => Done(l, j)')
  <2>1. KeptAt(j) BY DEF KeptAt
  <2> QED BY <1>2, <2>1, StageKept
<1>4. RestInv' /\ CallInv(Cur)' /\ RemoveFrame' BY <1>1, <1>3, EnterRest
<1>5. TypesInv' BY <1>1 DEF TypesInv
<1> QED BY <1>4, <1>5 DEF OpsInv

(* batch_run() starts to build: every operand stays at its stage.          *)
LEMMA batch_runOps == FlowInv /\ OpsInv /\ batch_run => OpsInv'
<1> SUFFICES ASSUME FlowInv, OpsInv, batch_run PROVE OpsInv' OBVIOUS
<1>1. /\ ctl.pc = "batch" /\ ctl.pc \in HeadPc /\ ctl' = Loop("build", Batch)
      /\ UNCHANGED <<spec, dir, file, op, pending, sig>>
  BY DEF batch_run, HeadPc
<1>2. \A j \in Batch : Todo("build", j)
  BY <1>1, AtHead, Slots0 DEF RestInv, Todo, FlowInv
<1> QED BY <1>1, <1>2, HeadEnter DEF Entry

(* flush_batch() starts to close: every operand stays at its stage.        *)
LEMMA FlushCloseOps == FlowInv /\ OpsInv /\ FlushClose => OpsInv'
<1> SUFFICES ASSUME FlowInv, OpsInv, FlushClose PROVE OpsInv' OBVIOUS
<1> DEFINE s == {i \in Opened : op[i].way = "plain"}
<1>1. /\ ctl.pc = "closing" /\ ctl.pc \in HeadPc /\ ctl' = Loop("close", s)
      /\ UNCHANGED <<spec, dir, file, op, pending, sig>>
  BY DEF FlushClose, HeadPc
<1>2. \A j \in Batch : Done("flush", j) BY <1>1, AtHead DEF LoopOf
<1>3. \A j \in Batch : (j \in s => Todo("close", j)) /\ (j \notin s => Done("close", j))
  BY <1>2
     DEF Todo, Done, Opened, Kept, Failed, ToName, Built, InPlace, Nameless, Temporary,
         Raw
<1>4. s \in SUBSET Batch BY DEF Opened, Kept
<1> HIDE DEF s
<1> QED BY <1>1, <1>3, <1>4, HeadEnter DEF Entry

(* batch_run() starts to name: every operand stays at its stage.           *)
LEMMA NameBatchOps == FlowInv /\ OpsInv /\ NameBatch => OpsInv'
<1> SUFFICES ASSUME FlowInv, OpsInv, NameBatch PROVE OpsInv' OBVIOUS
<1>1. /\ ctl.pc = "naming" /\ ctl.pc \in HeadPc /\ ctl' = Loop("name", Kept)
      /\ UNCHANGED <<spec, dir, file, op, pending, sig>>
  BY DEF NameBatch, HeadPc
<1>2. \A j \in Batch : Done("close", j) BY <1>1, AtHead DEF LoopOf
<1>3. \A j \in Batch : (j \in Kept => Todo("name", j)) /\ (j \notin Kept
      => Done("name", j))
  <2> SUFFICES ASSUME NEW j \in Batch
               PROVE (j \in Kept => Todo("name", j)) /\ (j \notin Kept => Done("name", j))
    OBVIOUS
  <2>1. Failed(j) \/ ToName(j) BY <1>2 DEF Done
  <2>2. ToName(j) => op[j].fail = "no"
    BY DEF ToName, Built, InPlace, Nameless, Temporary, Raw
  <2>3. Failed(j) => op[j].fail # "no" BY DEF Failed
  <2> QED BY <2>1, <2>2, <2>3 DEF Todo, Done, Kept
<1>4. Kept \in SUBSET Batch BY DEF Kept
<1> QED BY <1>1, <1>3, <1>4, HeadEnter DEF Entry

(* settle_batch() starts to close: every operand stays at its stage.       *)
LEMMA SettleCloseOps == FlowInv /\ OpsInv /\ SettleClose => OpsInv'
<1> SUFFICES ASSUME FlowInv, OpsInv, SettleClose PROVE OpsInv' OBVIOUS
<1>1. /\ ctl.pc = "tidying" /\ ctl.pc \in HeadPc /\ ctl' = Loop("tidy", Opened)
      /\ UNCHANGED <<spec, dir, file, op, pending, sig>>
  BY DEF SettleClose, HeadPc
<1>2. \A j \in Batch : Done("settle", j) BY <1>1, AtHead DEF LoopOf
<1>3. \A j \in Batch : (j \in Opened => Todo("tidy", j)) /\ (j \notin Opened
      => Done("tidy", j))
  <2> SUFFICES ASSUME NEW j \in Batch
               PROVE (j \in Opened => Todo("tidy", j))
                     /\ (j \notin Opened => Done("tidy", j))
    OBVIOUS
  <2>1. Failed(j) \/ Named(j) BY <1>2 DEF Done
  <2>2. Failed(j) => op[j].fail # "no" /\ ~op[j].fd BY DEF Failed
  <2>3. Named(j) => op[j].fail = "no" /\ Complete(j) BY DEF Named
  <2>4. Named(j) /\ ~op[j].fd => Settled(j) BY DEF Named, Settled, Temporary
  <2> QED BY <2>1, <2>2, <2>3, <2>4 DEF Todo, Done, Opened, Kept, Past
<1>4. Opened \in SUBSET Batch BY DEF Kept, Opened
<1> QED BY <1>1, <1>3, <1>4, HeadEnter DEF Entry

(* flush_set_run(), and drop_spares() starts: every operand stays at its   *)
(* stage.                                                                  *)
LEMMA flush_set_runOps == FlowInv /\ OpsInv /\ flush_set_run => OpsInv'
<1> SUFFICES ASSUME FlowInv, OpsInv, flush_set_run PROVE OpsInv' OBVIOUS
<1> DEFINE s == {i \in Batch : op[i].spare # None}
<1>1. /\ ctl.pc = "sync" /\ ctl.pc \in HeadPc /\ ctl' = Loop("drop", s)
      /\ UNCHANGED <<spec, dir, file, op, pending, sig>>
  BY DEF flush_set_run, HeadPc
<1>2. \A j \in Batch : Done("tidy", j) BY <1>1, AtHead DEF LoopOf
<1>3. \A j \in Batch : (j \in s => Todo("drop", j)) /\ (j \notin s => Done("drop", j))
  BY <1>2, Names0 DEF Todo, Done, Failed, Past, Settled, Cleared, Spared
<1>4. s \in SUBSET Batch OBVIOUS
<1> HIDE DEF s
<1> QED BY <1>1, <1>3, <1>4, HeadEnter DEF Entry

(* flush_ops(): what could be flushed is, and the rest is to fail.         *)
LEMMA FlushEnter ==
    ASSUME FlowInv, OpsInv, ctl.pc \in HeadPc, NEW l \in {"flush", "settle"},
          flush_ops(l),
           UNCHANGED <<spec, dir, op, pending, sig>>,
           \A j \in Opened : Todo(l, j),
           \A j \in Batch \ Opened : Done(l, j),
           l = "flush" => ctl.pc = "flush", l = "settle" => ctl.pc = "settle"
    PROVE  OpsInv'
<1>1. Live /\ Bared /\ TypesInv /\ RestInv /\ Batch \subseteq Ops BY AtHead
<1>2. PICK bad \in SUBSET Opened :
        /\ file' = [i \in Ops |-> IF i \in Opened \ bad
                                  THEN [file[i] EXCEPT !.flushed = TRUE] ELSE file[i]]
        /\ ctl' = Loop(l, bad)
  BY DEF flush_ops
<1>3. Opened \subseteq Batch /\ bad \in SUBSET Batch /\ l \in DOMAIN Entry
  BY DEF Opened, Kept, Entry
<1>4. /\ \A j \in Ops \ Opened : file'[j] = file[j]
      /\ \A j \in bad : file'[j] = file[j]
  BY <1>1, <1>2, <1>3
<1>5. ASSUME NEW j \in Opened \ bad
      PROVE  /\ file'[j] \in FileType /\ file'[j].flushed
             /\ file'[j].content = file[j].content /\ file'[j].owned = file[j].owned
             /\ file'[j].perm = file[j].perm /\ file'[j].special = file[j].special
  <2>1. PICK f \in FileType : f = file[j] BY <1>1, <1>3 DEF TypesInv
  <2>2. file'[j] = [f EXCEPT !.flushed = TRUE] BY <1>1, <1>2, <1>3, <2>1
  <2> QED BY <2>1, <2>2 DEF FileType
<1>6. file' \in [Ops -> FileType]
  <2>1. \A j \in Ops : file'[j] \in FileType BY <1>1, <1>4, <1>5 DEF TypesInv
  <2>2. DOMAIN file' = Ops /\ file' = [j \in Ops |-> file'[j]] BY <1>2
  <2> QED BY <2>1, <2>2
<1>7. TypesInv' BY <1>1, <1>6 DEF TypesInv
<1>8. ctl'.first = ctl.first BY <1>2, <1>3, LoopEntered DEF FlowInv, Entered
<1>9. ASSUME NEW j \in Batch
      PROVE  (j \in bad => Todo(l, j)') /\ (j \notin bad => Done(l, j)')
  <2>1. CASE j \notin Opened \ bad
    <3>1. KeptAt(j) BY <1>1, <1>4, <2>1 DEF KeptAt
    <3> QED BY <1>8, <2>1, <3>1, StageKept
  <2>2. CASE j \in Opened \ bad
    <3>1. Finished(j)' <=> Finished(j) BY <1>5, <2>2 DEF Finished, Content, SetOwner
    <3>2. file'[j].flushed BY <1>5, <2>2
    <3>3. Slot(j)' = Slot(j) BY <1>8 DEF Slot
    <3>4. /\ Cleared(j)' <=> Cleared(j)
          /\ Spared(j)' <=> Spared(j)
          /\ Temporary(j)' <=> Temporary(j)
          /\ Nameless(j)' <=> Nameless(j)
          /\ InPlace(j)' <=> InPlace(j)
          /\ IsPlain' <=> IsPlain
      BY <3>3
         DEF Cleared, Spared, Temporary, Nameless, InPlace, Raw, Guards, Armed, IsPlain,
                  Content, SetOwner
    <3>5. Todo(l, j) BY <2>2
    <3>6. CASE l = "flush"
      <4>1. Built(j)' /\ op'[j].fd BY <3>1, <3>4, <3>5, <3>6 DEF Todo, Built
      <4> QED BY <2>2, <3>2, <3>6, <4>1 DEF Done
    <3>7. CASE l = "settle"
      <4>1. Named(j) BY <3>5, <3>7 DEF Todo
      <4>2. Named(j)' BY <3>1, <3>2, <3>4, <4>1 DEF Named, Complete
      <4> QED BY <2>2, <3>7, <4>2 DEF Done
    <3> QED BY <3>6, <3>7
  <2> QED BY <2>1, <2>2
<1>10. \A j \in Ops \ Batch : file'[j] = file[j] BY <1>3, <1>4
<1>11. RestInv' /\ CallInv(Cur)' /\ RemoveFrame'
  BY <1>1, <1>2, <1>3, <1>9, <1>10, EnterRest
<1> QED BY <1>7, <1>11 DEF OpsInv

(* flush_batch() flushes: every operand stays at its stage.                *)
LEMMA flush_batchOps == FlowInv /\ OpsInv /\ flush_batch => OpsInv'
<1> SUFFICES ASSUME FlowInv, OpsInv, flush_batch PROVE OpsInv' OBVIOUS
<1>1. /\ ctl.pc = "flush" /\ ctl.pc \in HeadPc /\ flush_ops("flush")
      /\ UNCHANGED <<spec, dir, op, pending, sig>>
  BY DEF flush_batch, HeadPc
<1>2. \A j \in Batch : Done("build", j) BY <1>1, AtHead DEF LoopOf
<1>3. /\ \A j \in Opened : Todo("flush", j)
      /\ \A j \in Batch \ Opened : Done("flush", j)
  BY <1>2 DEF Todo, Done, Opened, Kept, Failed, Built, InPlace, Nameless, Temporary, Raw
<1> QED BY <1>1, <1>3, FlushEnter

(* settle_batch() flushes: every operand stays at its stage.               *)
LEMMA settle_batchOps == FlowInv /\ OpsInv /\ settle_batch => OpsInv'
<1> SUFFICES ASSUME FlowInv, OpsInv, settle_batch PROVE OpsInv' OBVIOUS
<1>1. /\ ctl.pc = "settle" /\ ctl.pc \in HeadPc /\ flush_ops("settle")
      /\ UNCHANGED <<spec, dir, op, pending, sig>>
  BY DEF settle_batch, HeadPc
<1>2. \A j \in Batch : Done("name", j) BY <1>1, AtHead DEF LoopOf
<1>3. /\ \A j \in Opened : Todo("settle", j)
      /\ \A j \in Batch \ Opened : Done("settle", j)
  BY <1>2 DEF Todo, Done, Opened, Kept, Failed
<1> QED BY <1>1, <1>3, FlushEnter

(* drop_spares() releases the signals: every operand stays at its stage.   *)
LEMMA DropReleaseOps == FlowInv /\ OpsInv /\ DropRelease => OpsInv'
<1> SUFFICES ASSUME FlowInv, OpsInv, DropRelease PROVE OpsInv' OBVIOUS
<1>1. /\ ctl.pc = "release" /\ ctl.pc \in HeadPc /\ Goto("report")
      /\ UNCHANGED <<spec, dir, file, op, pending, sig>>
  BY DEF DropRelease, HeadPc
<1>2. Live /\ Bared /\ TypesInv /\ RestInv /\ \A j \in Batch : Done("drop", j)
  BY <1>1, AtHead DEF LoopOf
<1>3. ctl'.pc = "report" /\ ctl'.loop = ctl.loop /\ ctl'.todo = ctl.todo
      /\ ctl'.first = ctl.first
  BY <1>1, GotoStep DEF FlowInv, Pcs, HeadPc
<1>4. ctl.loop = "drop" /\ ctl.todo = {} BY <1>1 DEF FlowInv, CtlInv, LoopOf, HeadPc
<1>5. ASSUME NEW j \in Batch PROVE Rest(j)'
  <2>1. KeptAt(j) BY <1>1 DEF KeptAt
  <2>2. Done("drop", j)' BY <1>1, <1>2, <1>3, <2>1, StageKept
  <2> QED BY <1>3, <1>4, <2>2 DEF Rest
<1>6. Batch' = Batch BY <1>3 DEF Batch
<1>7. RestInv' BY <1>1, <1>2, <1>3, <1>5, <1>6 DEF RestInv, Pristine, Armed, HeadPc
<1>8. TypesInv' /\ CallInv(Cur)' /\ RemoveFrame'
  BY <1>1, <1>2, <1>3 DEF TypesInv, CallInv, RemoveFrame, Bared, Armed
<1> QED BY <1>7, <1>8 DEF OpsInv

(* report_one(), and the next batch: every operand stays at its stage.     *)
LEMMA report_oneOps == FlowInv /\ OpsInv /\ report_one => OpsInv'
<1> SUFFICES ASSUME FlowInv, OpsInv, report_one PROVE OpsInv' OBVIOUS
<1>1. /\ ctl.pc = "report" /\ ctl.pc \in HeadPc
      /\ UNCHANGED <<spec, dir, file, pending, sig>>
      /\ op' = [i \in Ops |->
                  IF i \in Batch THEN [op[i] EXCEPT !.backup = None] ELSE op[i]]
  BY DEF report_one, HeadPc
<1>2. Live /\ Bared /\ TypesInv /\ RestInv /\ Batch \subseteq Ops
      /\ \A j \in Batch : Done("drop", j)
  BY <1>1, AtHead DEF LoopOf
<1>3. \A j \in Ops \ Batch : op'[j] = op[j] BY <1>1
<1>4. ASSUME NEW j \in Batch
      PROVE  /\ op'[j] \in OpType /\ op'[j].tmp = op[j].tmp
                /\ op'[j].spare = op[j].spare
             /\ op'[j].fail = op[j].fail /\ op'[j].fd = op[j].fd
                   /\ op'[j].way = op[j].way
  <2>1. PICK o \in OpType : o = op[j] BY <1>2 DEF TypesInv
  <2>2. op'[j] = [o EXCEPT !.backup = None] BY <1>1, <1>2, <2>1
  <2> QED BY <2>1, <2>2 DEF OpType
<1>5. op' \in [Ops -> OpType]
  <2>1. \A j \in Ops : op'[j] \in OpType BY <1>2, <1>3, <1>4 DEF TypesInv
  <2>2. DOMAIN op' = Ops /\ op' = [j \in Ops |-> op'[j]] BY <1>1
  <2> QED BY <2>1, <2>2
<1>6. TypesInv' BY <1>1, <1>2, <1>5 DEF TypesInv
<1>7. \A s \in Slots : ~Armed(s)
  <2>1. \A j \in Batch : ~Armed(Slot(j)) BY <1>2 DEF Done, Cleared
  <2>2. \A s \in 1..BatchSize : s + ctl.first - 1 \in Batch
        => s = Slot(s + ctl.first - 1)
    <3>1. ctl.first \in Nat /\ BatchSize \in Nat
      BY WorldAssumption DEF FlowInv, CtlInv, CtlType, Ops
    <3> QED BY <3>1 DEF Slot
  <2>3. \A s \in 1..BatchSize : s + ctl.first - 1 \notin Batch => ~Armed(s)
    BY <1>2 DEF RestInv
  <2>4. \A s \in Slots : s \in 1..BatchSize \/ s = BackupSlot
    BY WorldAssumption DEF Slots, BackupSlot
  <2> QED BY <1>2, <2>1, <2>2, <2>3, <2>4 DEF Bared
<1>8. \A s \in Slots : ~Armed(s)' BY <1>1, <1>7 DEF Armed
<1>9. ctl'.pc \in {"batch", "exit"} /\ ctl'.loop = ctl.loop /\ ctl'.todo = {}
      /\ ctl'.first \in Nat
      /\ \/ ctl'.pc = "exit" /\ ctl'.first = ctl.first
         \/ ctl'.pc = "batch" /\ ctl'.first = ctl.first + BatchSize
  BY <1>1, WorldAssumption DEF report_one, FlowInv, CtlInv, CtlType, HeadPc, Ops
<1>10. CallInv(Cur)' /\ RemoveFrame'
  BY <1>1, <1>2, <1>9 DEF CallInv, RemoveFrame, Bared, Armed
<1>11. ASSUME NEW j \in Ops, j > ctl.first + BatchSize - 1 PROVE Pristine(j)'
      /\ j \notin Batch
  <2>1. j \notin Batch
    BY <1>11, WorldAssumption DEF Batch, Ops, FlowInv, CtlInv, CtlType
  <2>2. Pristine(j) BY <1>2, <1>11 DEF RestInv
  <2> QED BY <1>1, <1>3, <2>1, <2>2 DEF Pristine
<1>12. CASE ctl'.pc = "batch" /\ ctl'.first = ctl.first + BatchSize
  <2>1. \A j \in Ops : j > ctl'.first + BatchSize - 1 \/ j \in Batch' =>
           j > ctl.first + BatchSize - 1
    BY <1>12, WorldAssumption DEF Batch, Ops, FlowInv, CtlInv, CtlType
  <2>2. Batch' \subseteq Ops
    BY <1>12, WorldAssumption DEF Batch, Ops, FlowInv, CtlInv, CtlType
  <2>3. 1..BatchSize \subseteq Slots BY WorldAssumption DEF Slots, BackupSlot
  <2>4. RestInv' BY <1>8, <1>11, <1>12, <2>1, <2>2, <2>3 DEF RestInv, HeadPc
  <2> QED BY <1>6, <1>10, <2>4 DEF OpsInv
<1>13. CASE ctl'.pc = "exit" /\ ctl'.first = ctl.first
  <2>1. Batch' = Batch BY <1>13 DEF Batch
  <2>2. ASSUME NEW j \in Batch PROVE Rest(j)'
    <3>1. Slot(j)' = Slot(j) BY <1>13 DEF Slot
    <3>2. Past(j) /\ Cleared(j) BY <1>2 DEF Done
    <3>3. Finished(j)' <=> Finished(j) BY <1>1 DEF Finished, Content, SetOwner
    <3>4. Past(j)' /\ Cleared(j)'
      BY <1>1, <1>4, <3>1, <3>2, <3>3
         DEF Past, Failed, Settled, Complete, Cleared, Armed
    <3>5. ctl.loop = "drop" BY <1>1 DEF FlowInv, CtlInv, LoopOf, HeadPc
    <3> QED BY <1>9, <3>4, <3>5 DEF Rest, Done
  <2>3. 1..BatchSize \subseteq Slots BY WorldAssumption DEF Slots, BackupSlot
  <2>4. RestInv' BY <1>8, <1>11, <1>13, <2>1, <2>2, <2>3 DEF RestInv
  <2> QED BY <1>6, <1>10, <2>4 DEF OpsInv
<1> QED BY <1>9, <1>12, <1>13

(* The program does not move: a signal comes, or another process changes   *)
(* names that are not this run's.                                          *)
LEMMA StillOps ==
    ASSUME FlowInv, OpsInv, UNCHANGED <<spec, file, op, pending, ctl, fr, mem>>,
           Live' <=> Live, TypesInv', \A n \in Temps : dir'[n] = dir[n]
    PROVE  OpsInv'
<1>1. PICK i : i = Cur OBVIOUS
<1>2. \A j : Slot(j)' = Slot(j) BY DEF Slot
<1>3. Batch' = Batch /\ Path' = Path /\ Backups(Path)' = Backups(Path)
  BY DEF Batch, Path, Backups, Simple, Numbered
<1>4. RemoveFrame' BY DEF OpsInv, RemoveFrame, Guards
<1>5. \A j, l : (Todo(l, j) => Todo(l, j)') /\ (Done(l, j) => Done(l, j)')
  <2>1. \A j : KeptAt(j) BY DEF KeptAt
  <2> QED BY <2>1, StageKept
<1>6. \A j : Rest(j) => Rest(j)' BY <1>5 DEF Rest
<1>7. RestInv' BY <1>3, <1>6 DEF OpsInv, RestInv, Pristine, Armed, Cur
<1>8. ASSUME Live PROVE CallInv(i)'
  <2>1. CallInv(i) BY <1>1, <1>8 DEF OpsInv, CallInv
  <2>2. /\ Blank(i)' <=> Blank(i)
        /\ Unnamed(i)' <=> Unnamed(i)
        /\ Unfilled(i)' <=> Unfilled(i)
        /\ Private(i)' <=> Private(i)
        /\ Complete(i)' <=> Complete(i)
        /\ Cleared(i)' <=> Cleared(i)
        /\ Spared(i)' <=> Spared(i)
        /\ InPlace(i)' <=> InPlace(i)
        /\ Moved(i)' <=> Moved(i)
        /\ Armed(Slot(i))' <=> Armed(Slot(i))
        /\ Bared' <=> Bared
        /\ Temporary(i)' <=> Temporary(i)
        /\ Ready(i)' <=> Ready(i)
        /\ Building(i)' <=> Building(i)
    BY <1>2, SameStage
  <2>3. /\ Raw(i)' <=> Raw(i)
        /\ Pristine(i)' <=> Pristine(i)
        /\ Finished(i)' <=> Finished(i)
        /\ Content' <=> Content
        /\ SetOwner' <=> SetOwner
        /\ Content' = Content /\ SetOwner' = SetOwner
        /\ Apart(fr.path)' <=> Apart(fr.path)
        /\ \A s, n, x : Guards(s, n, x)' <=> Guards(s, n, x)
    BY <1>3 DEF Raw, Pristine, Finished, Content, SetOwner, Apart, Guards
  <2>4. ToName(i) => ToName(i)'
    BY <1>5 DEF Todo
  <2>5. Named(i) => Named(i)' BY <1>5 DEF Todo
  <2>6. Past(i) => Past(i)' BY <1>5 DEF Done
  <2>7. Failing(i)' <=> Failing(i) BY <2>2 DEF Failing
  <2>8. Todo("close", i) => Todo("close", i)' BY <1>5
  <2>9. MadeInv(i) => MadeInv(i)'
    BY <1>2, <1>3, <2>2, <2>3 DEF MadeInv
  <2>10. RemoveInv(i) => RemoveInv(i)'
    BY <1>2, <1>3, <2>2, <2>3, <2>6 DEF RemoveInv
  <2>11. Armed(BackupSlot)' <=> Armed(BackupSlot) BY DEF Armed
  <2> QED
    BY <1>2, <1>3, <2>1, <2>2, <2>3, <2>4, <2>5, <2>6, <2>7, <2>8, <2>9, <2>10, <2>11
          DEF CallInv
<1>9. Live' => CallInv(Cur)' BY <1>1, <1>8 DEF Cur, CallInv
<1> QED BY <1>4, <1>7, <1>9 DEF OpsInv

(* A signal comes: every operand stays at its stage.                       *)
LEMMA SignalOps == FlowInv /\ OpsInv /\ Signal => OpsInv'
<1> SUFFICES ASSUME FlowInv, OpsInv, Signal PROVE OpsInv' OBVIOUS
<1>1. /\ UNCHANGED <<spec, file, op, pending, ctl, fr, mem>> /\ dir' = dir
      /\ Live' <=> Live
  BY DEF Signal, Live
<1>2. TypesInv' BY <1>1 DEF OpsInv, TypesInv
<1> QED BY <1>1, <1>2, StillOps

(* Another process makes or removes a file: every operand stays at its     *)
(* stage.                                                                  *)
LEMMA OtherOps == FlowInv /\ OpsInv /\ HistInv /\ OtherStep => OpsInv'
<1> SUFFICES ASSUME FlowInv, OpsInv, HistInv, OtherStep PROVE OpsInv' OBVIOUS
<1>1. PICK n \in OtherNames : OtherPut(n) \/ OtherUnlink(n) BY DEF OtherStep
<1>2. /\ UNCHANGED <<spec, file, op, pending, ctl, fr, mem>> /\ sig' = sig
      /\ hist.other < MaxOther
      /\ \E x \in {Other(hist.other + 1), None} : dir' = [dir EXCEPT ![n] = x]
  BY <1>1 DEF OtherPut, OtherUnlink, SetDir, Bind, OtherMay
<1>3. n \in Names /\ n \notin Temps BY WorldAssumption
<1>4. Other(hist.other + 1) \in Inodes
  <2>1. hist.other + 1 \in 1..MaxOther
    BY <1>2, WorldAssumption DEF HistInv, HistTypes
  <2> QED BY <2>1 DEF Inodes, Foreign, Others
<1>5. TypesInv' BY <1>2, <1>3, <1>4 DEF OpsInv, TypesInv
<1>6. \A m \in Temps : dir'[m] = dir[m]
  BY <1>2, <1>3, Names0 DEF OpsInv, TypesInv
<1> QED BY <1>2, <1>5, <1>6, StillOps DEF Live

(* cleanup_handler() takes over: every operand stays at its stage.         *)
LEMMA SignalTakenOps == FlowInv /\ OpsInv /\ SignalTaken => OpsInv'
<1> SUFFICES ASSUME FlowInv, OpsInv, SignalTaken PROVE OpsInv' OBVIOUS
<1>1. /\ UNCHANGED <<spec, dir, file, op, pending>> /\ ~Live' /\ Goto("handler")
  BY DEF SignalTaken, Live
<1>2. ctl'.pc = "handler" /\ ctl'.first = ctl.first
  BY <1>1, GotoStep DEF FlowInv, Pcs
<1>3. TypesInv' /\ RemoveFrame' BY <1>1, <1>2 DEF OpsInv, TypesInv, RemoveFrame
<1>4. RestInv' BY <1>1, <1>2 DEF OpsInv, RestInv, Pristine
<1> QED BY <1>1, <1>3, <1>4 DEF OpsInv

(* cleanup_handler() visits the next slot or raises: every operand stays   *)
(* at its stage.                                                           *)
LEMMA HandlerStepOps == FlowInv /\ OpsInv /\ HandlerStep => OpsInv'
<1> SUFFICES ASSUME FlowInv, OpsInv, HandlerStep PROVE OpsInv' OBVIOUS
<1> DEFINE later == {s \in Slots : s > fr.slot /\ Armed(s)}
           s     == CHOOSE k \in later : \A m \in later : k <= m
<1>1. /\ ctl.pc = "handler" /\ ~Live /\ ~Live' /\ UNCHANGED <<dir, file, op, pending>>
      /\ TypesInv
  BY DEF HandlerStep, FlowInv, HeldInv, Live, OpsInv
<1>2. TypesInv' BY <1>1 DEF TypesInv
<1>3. CASE later = {}
  <2>1. Goto("killed") BY <1>3 DEF HandlerStep
  <2>2. ctl'.pc = "killed" /\ ctl'.first = ctl.first
    BY <2>1, GotoStep DEF FlowInv, Pcs
  <2>3. RemoveFrame' BY <2>2 DEF RemoveFrame
  <2> QED BY <1>1, <1>2, <2>2, <2>3, HandlerOps
<1>4. CASE later # {}
  <2>1. pending_remove(s, FALSE, "handler") BY <1>4 DEF HandlerStep
  <2>2. s \in later
    <3>1. later \in SUBSET Slots OBVIOUS
    <3> HIDE DEF later
    <3> QED BY <1>4, <3>1, SlotsLeast
  <2> HIDE DEF s
  <2>3. s \in Slots /\ Armed(s) BY <2>2
  <2>4. /\ Goto("lstat") /\ fr'.slot = s /\ fr'.path = pending[s].path
        /\ fr'.ino = pending[s].ino
    BY <2>1, <2>3 DEF pending_remove
  <2>5. ctl'.pc = "lstat" /\ ctl'.first = ctl.first BY <2>4, CallStep
  <2>6. pending[s] \in SlotType /\ pending[s].path \in Names
    BY <1>1, <2>3 DEF TypesInv, SlotType, Armed
  <2>7. pending[s] = [path |-> pending[s].path, ino |-> pending[s].ino]
    BY <2>6 DEF SlotType
  <2>8. RemoveFrame' BY <1>1, <2>4, <2>5, <2>6, <2>7 DEF RemoveFrame, Guards
  <2> QED BY <1>1, <1>2, <2>5, <2>8, HandlerOps
<1> QED BY <1>3, <1>4

HIDE DEF At, BackupPc, BuildPc, CallPc, CommitPc, Fault, NamePc, RemovePc, ReplacePc,
    SetFile

(* A call that fails is counted within its bound.                          *)
LEMMA FaultHist ==
    ASSUME HistInv, hist.faults < MaxFaults, NEW N \in SUBSET Names
    PROVE  /\ [hist EXCEPT !.faults = @ + 1] \in HistTypes
           /\ [hist EXCEPT !.faults = @ + 1, !.refused = @ \cup N] \in HistTypes
           /\ [hist EXCEPT !.kept = @ \cup N, !.faults = @ + 1] \in HistTypes
           /\ hist.faults + 1 < MaxFaults =>
                /\ [hist EXCEPT !.faults = @ + 2] \in HistTypes
                /\ [hist EXCEPT !.faults = @ + 2, !.refused = @ \cup N] \in HistTypes
<1>1. MaxFaults \in Nat BY WorldAssumption
<1>2. hist.faults \in 0..MaxFaults /\ hist \in HistTypes BY DEF HistInv, HistTypes
<1>3. hist.faults + 1 \in 0..MaxFaults BY <1>1, <1>2
<1>4. hist.faults + 1 < MaxFaults => hist.faults + 2 \in 0..MaxFaults BY <1>1, <1>2
<1> QED BY <1>2, <1>3, <1>4 DEF HistTypes

(* A batch is finite and no larger than BatchSize.                         *)
LEMMA BatchCard ==
    ASSUME FlowInv, NEW s \in SUBSET Opened
    PROVE  Cardinality(s) \in Nat
<1>1. Batch \subseteq 1..NOps BY Slots0 DEF FlowInv, Ops
<1>2. s \in SUBSET (1..NOps) BY <1>1 DEF Opened, Kept
<1>3. IsFiniteSet(1..NOps) BY WorldAssumption, FS_Interval
<1> QED BY <1>2, <1>3, FS_Subset, FS_CardinalityType

(* flush_ops() counts one failure for each file it cannot flush.           *)
LEMMA FlushHist ==
    ASSUME FlowInv, HistInv, NEW l, flush_ops(l)
    PROVE  HistInv'
<1>1. PICK bad \in SUBSET Opened :
        /\ hist.faults + Cardinality(bad) <= MaxFaults
        /\ hist' = [hist EXCEPT !.faults = @ + Cardinality(bad)]
  BY DEF flush_ops
<1>2. Cardinality(bad) \in Nat BY BatchCard
<1>3. PICK c \in Nat : c = Cardinality(bad) BY <1>2
<1>4. hist.faults + c <= MaxFaults /\ hist' = [hist EXCEPT !.faults = @ + c]
  BY <1>1, <1>3
<1>5. MaxFaults \in Nat BY WorldAssumption
<1>6. hist.faults \in 0..MaxFaults /\ hist \in HistTypes BY DEF HistInv, HistTypes
<1>7. hist.faults + c \in 0..MaxFaults BY <1>3, <1>4, <1>5, <1>6
<1> QED BY <1>4, <1>6, <1>7 DEF HistInv, HistTypes

(* The names a call in progress may be refused are names.                  *)
LEMMA FrameNames ==
    ASSUME FlowInv, OpsInv, ctl.pc \in RemovePc \cup {"made"}
    PROVE  fr.path \in Names
<1>1. CASE ctl.pc \in RemovePc BY <1>1 DEF OpsInv, RemoveFrame
<1>2. CASE ctl.pc = "made"
  <2> PICK i : i = Cur OBVIOUS
  <2>1. CallInv(i) /\ Path \in Targets BY <1>2, InHand DEF CallPc, RemovePc
  <2>2. MadeInv(i) BY <1>2, <2>1 DEF CallInv
  <2> QED BY <2>1, <2>2, Names0 DEF MadeInv
<1> QED BY <1>1, <1>2

(* Every step keeps the history variable within its bounds.                *)
LEMMA HistStep == FlowInv /\ OpsInv /\ HistInv /\ [Next]_vars => HistInv'
<1> SUFFICES ASSUME FlowInv, OpsInv, HistInv, [Next]_vars PROVE HistInv' OBVIOUS
<1> PICK i : i = Cur OBVIOUS
<1>1. CASE hist' = hist BY <1>1 DEF HistInv
<1>2. CASE Fault BY <1>2, FaultHist DEF Fault, HistInv
<1>3. CASE FaultAt(fr.path) /\ ctl.pc \in RemovePc
  <2>1. {fr.path} \in SUBSET Names BY <1>3, FrameNames
  <2> QED BY <1>3, <2>1, FaultHist DEF FaultAt, HistInv
<1>4. ASSUME hist.faults + 1 < MaxFaults PROVE hist.faults < MaxFaults
  BY <1>4, WorldAssumption DEF HistInv, HistTypes
<1>5. CASE PendingStep
  BY <1>1, <1>3, <1>5
     DEF PendingStep, RemoveLstat, RemoveUnlink, SignalTaken, HandlerStep, RemovePc, At
<1>6. CASE UndoOpen
  <2>1. {fr.path} \in SUBSET Names BY <1>6, FrameNames DEF UndoOpen, At
  <2> QED BY <1>2, <1>4, <1>6, <2>1, FaultHist DEF UndoOpen, HistInv
<1>7. CASE PlaceStep /\ ~UndoOpen
  BY <1>1, <1>2, <1>7
     DEF PlaceStep, Arm, ProbeDone, CommitRename, CommitClear, CommitLink, CommitOver,
         OverRename, OverFailed, ReplaceRename, Renamed, ExchangeNames, Exchanged
<1>8. CASE OverBackup
  <2>1. CASE hist' = [hist EXCEPT !.forgone = @ \cup {dir[Simple(Path)]}]
    <3>1. Simple(Path) \in Names
      BY <1>8, InHand, Names0
         DEF OverBackup, At, CallPc, RemovePc, NamePc, ReplacePc, Backups
    <3>2. dir[Simple(Path)] \in Inodes \cup {None} BY <3>1 DEF OpsInv, TypesInv
    <3> QED BY <2>1, <3>2 DEF HistInv, HistTypes
  <2> QED BY <1>1, <1>2, <1>8, <2>1 DEF OverBackup
<1>9. CASE BackupStep /\ ~OverBackup
  BY <1>1, <1>2, <1>9
     DEF BackupStep, backup_none, backup_make, backup_next, backup_numbered,
         OutOfNumbers,
         backup_note, backup_simple, place_temp_alias, NoTemp, NoLink
<1>10. CASE flush_batch \/ settle_batch
  BY <1>10, FlushHist DEF flush_batch, settle_batch
<1>11. CASE drop_spares
  <2>1. Spared(i)
    <3>1. CallInv(i) /\ ctl.pc = "drop"
      BY <1>11, InHand DEF drop_spares, At, CallPc, RemovePc
    <3> QED BY <3>1 DEF CallInv
  <2>2. {op[i].spare} \in SUBSET Names BY <2>1, Names0 DEF Spared
  <2>3. CASE /\ hist.faults < MaxFaults
             /\ hist' = [hist EXCEPT !.kept = @ \cup {op[Cur].spare}, !.faults = @ + 1]
    BY <2>2, <2>3, FaultHist DEF HistInv
  <2>4. CASE hist' = [hist EXCEPT !.kept = @ \cup {op[Cur].spare}, !.faults = @]
    BY <2>2, <2>4 DEF HistInv, HistTypes
  <2> QED BY <1>1, <1>11, <2>3, <2>4 DEF drop_spares
<1>12. CASE flush_set_add
  BY <1>1, <1>2, <1>4, <1>12, FaultHist DEF flush_set_add, HistInv
<1>13. CASE BatchStep /\ ~(flush_batch \/ settle_batch) /\ ~drop_spares
      /\ ~flush_set_add
  BY <1>1, <1>2, <1>13
     DEF BatchStep, batch_run, build_one, place_probe_mode, open_built, FinishPrivate,
         FinishLink, fill_one, FinishOwner, FinishMode, FlushClose, close_op, NameBatch,
         NameForce, NameUnnamed, NameTemp, NamePlain, FlushBackup, SettleClose,
               SettleOne,
         Tidied, op_fail, OpFailed, flush_set_run, Dropped, DropRelease, report_one,
               NoTemp
<1>14. CASE OtherStep
  <2>1. PICK n \in OtherNames : OtherPut(n) \/ OtherUnlink(n) BY <1>14 DEF OtherStep
  <2>2. /\ hist.other < MaxOther
        /\ hist' = [hist EXCEPT !.other = @ + 1, !.forgone = @ \cup {dir[n]}]
    BY <2>1 DEF OtherPut, OtherUnlink, OtherMay
  <2>3. dir[n] \in Inodes \cup {None} BY WorldAssumption DEF OpsInv, TypesInv
  <2>4. hist.other + 1 \in 0..MaxOther BY <2>2, WorldAssumption DEF HistInv, HistTypes
  <2> QED BY <2>2, <2>3, <2>4 DEF HistInv, HistTypes
<1>15. CASE Signal \/ UNCHANGED vars BY <1>1, <1>15 DEF Signal, vars
<1> QED BY <1>5, <1>6, <1>7, <1>8, <1>9, <1>10, <1>11, <1>12, <1>13, <1>14, <1>15
        DEF Next, Program, Ended

(* No operand has been begun.                                              *)
LEMMA InitOps == Init => OpsInv /\ HistInv
<1> SUFFICES ASSUME Init PROVE OpsInv /\ HistInv OBVIOUS
<1>1. TypesInv
  <2>1. start \in [Names -> Inodes \cup {None}]
    BY WorldAssumption DEF Init, Inodes, Foreign
  <2>2. NewOp \in OpType /\ NewFile \in FileType
        /\ [path |-> None, ino |-> None] \in SlotType
    BY DEF NewOp, NewFile, OpType, FileType, SlotType
  <2> QED BY <2>1, <2>2 DEF Init, TypesInv
<1>2. \A s \in Slots : ~Armed(s) BY DEF Init, Armed
<1>3. ctl.pc = "batch" /\ ctl.first = 1 /\ ctl.todo = {} BY DEF Init
<1>4. Batch \subseteq Ops /\ 1..BatchSize \subseteq Slots /\ BackupSlot \in Slots
  BY InitFlow, Slots0 DEF FlowInv
<1>5. \A j \in Ops : Pristine(j) BY DEF Init, Pristine
<1>6. RestInv BY <1>2, <1>3, <1>4, <1>5 DEF RestInv, HeadPc, CallPc, BuildPc, NamePc,
         CommitPc, ReplacePc, RemovePc
<1>7. CallInv(Cur) /\ RemoveFrame
  BY <1>2, <1>3, <1>4
     DEF CallInv, RemoveFrame, CommitPc, ReplacePc, RemovePc, BackupPc, Bared
<1>8. HistInv BY WorldAssumption DEF Init, HistInv, HistTypes
<1> QED BY <1>1, <1>6, <1>7, <1>8 DEF OpsInv

(* Every step keeps every operand at its stage.                            *)
LEMMA OpsStep == FlowInv /\ OpsInv /\ HistInv /\ [Next]_vars => OpsInv'
<1> SUFFICES ASSUME FlowInv, OpsInv, HistInv, [Next]_vars PROVE OpsInv' OBVIOUS
<1>1. CASE PendingStep
  BY <1>1, RemoveLstatOps, RemoveUnlinkOps, SignalTakenOps, HandlerStepOps
     DEF PendingStep
<1>2. CASE PlaceStep
  BY <1>2, ArmOps, UndoOpenOps, ProbeDoneOps, CommitRenameOps, CommitClearOps,
     CommitLinkOps, CommitOverOps, OverRenameOps, OverFailedOps,
     ReplaceRenameOps, RenamedOps, ExchangeNamesOps, ExchangedOps
     DEF PlaceStep
<1>3. CASE BackupStep
  BY <1>3, backup_noneOps, backup_makeOps, backup_nextOps, backup_numberedOps,
     OutOfNumbersOps, backup_noteOps, backup_simpleOps, place_temp_aliasOps,
     OverBackupOps
     DEF BackupStep
<1>4. CASE BatchStep
  BY <1>4, batch_runOps, build_oneOps, place_probe_modeOps, open_builtOps,
     FinishPrivateOps, FinishLinkOps, fill_oneOps, FinishOwnerOps,
     FinishModeOps, flush_batchOps, FlushCloseOps, close_opOps, NameBatchOps,
     NameForceOps, NameUnnamedOps, NameTempOps, NamePlainOps, FlushBackupOps,
     flush_set_addOps, settle_batchOps, SettleCloseOps, SettleOneOps,
     TidiedOps, op_failOps, OpFailedOps, flush_set_runOps, drop_sparesOps,
     DroppedOps, DropReleaseOps, report_oneOps
     DEF BatchStep
<1>5. CASE Signal BY <1>5, SignalOps
<1>6. CASE OtherStep BY <1>6, OtherOps
<1>7. CASE UNCHANGED vars
  <2>1. /\ UNCHANGED <<spec, file, op, pending, ctl, fr, mem>> /\ dir' = dir
        /\ Live' <=> Live
    BY <1>7 DEF vars, Live
  <2>2. TypesInv' BY <2>1 DEF OpsInv, TypesInv
  <2> QED BY <2>1, <2>2, StillOps
<1> QED BY <1>1, <1>2, <1>3, <1>4, <1>5, <1>6, <1>7 DEF Next, Program, Ended

(* At every step of every interleaving each operand is at a stage that     *)
(* fits the loop of batch.c in progress: what of its file is built, under  *)
(* which name, guarded by which slot of pending[], and what is left to     *)
(* close, flush or remove.                                                 *)
THEOREM OpsTheorem == Spec => [](FlowInv /\ OpsInv /\ HistInv)
<1>1. FlowInv /\ OpsInv /\ HistInv /\ [Next]_vars => (FlowInv /\ OpsInv /\ HistInv)'
  BY FlowStep, OpsStep, HistStep
<1> QED BY <1>1, InitFlow, InitOps, PTL DEF Spec

==============================================================================
