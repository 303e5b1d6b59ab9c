---------------------------- MODULE FlushSetProofs ---------------------------
(***************************************************************************)
(* For every set of paths and directories, every capacity and any number   *)
(* of batches and failures: the bounded list of failures stands for all of *)
(* them, no old file is dropped before its directory is flushed, and exit  *)
(* status 0 means that every directory is.                                 *)
(***************************************************************************)
EXTENDS FlushSet, TLAPS

(* The set still has to deal with path p: it waits, it is the argument in  *)
(* hand, or its directory is open in the job, maybe by another path.       *)
Matches(f, p) == f.name = p \/ (f.known /\ f.dir = DirOf[p])

InHand(p) == p = arg /\ (pc \in {"add", "store"} \/ (pc \in {"open", "record"} /\ ret = "store"))

Waiting(p) ==
    \/ p \in Range(dirs)
    \/ InHand(p)
    \/ \E f \in Range(job) : Matches(f, p)

(* Where the program is says what is empty and where it goes back to.      *)
Control ==
    /\ pc \notin {"open", "record"} => job = <<>> /\ ret = "naming"
    /\ pc \in {"record", "drop", "batch", "exit"} => dirs = <<>>
    /\ pc \in {"open", "record"} => ret \in {"store", "drop"}
    /\ pc \in {"add", "store"} \/ ret = "store" => arg \in Paths
    /\ pc \in {"naming", "add", "store", "open", "record"} => dropped = {}
    /\ pc = "store" => Len(dirs) < MaxDirs
    /\ \A f \in Range(job) : f.dir = DirOf[f.name]

(* A failure is in the list, or the list is known to be incomplete.        *)
Kept == \A f \in broken : lost \/ f \in Range(failures)

(* An old file of this batch whose directory is not flushed is still to be *)
(* dealt with, or reported as failed.                                      *)
Spared ==
    \A p \in left : p \in owed /\ p \notin skipped =>
        Waiting(p) \/ flush_set_failed(p)

(* While nothing failed, whatever is not flushed is still to be dealt with.*)
Counted == nfailed = 0 => \A p \in owed : p \in skipped \/ Waiting(p)

(* The inductive invariant. *)
SetInv == TypeOK /\ Control /\ Kept /\ Spared /\ SparesSafe /\ Counted

-----------------------------------------------------------------------------
(* What Append, Head and Tail do to the elements of a sequence.            *)
LEMMA RangeAppend ==
    ASSUME NEW S, NEW s \in Seq(S), NEW e \in S
    PROVE  /\ Append(s, e) \in Seq(S)
           /\ Len(Append(s, e)) = Len(s) + 1
           /\ \A x : x \in Range(Append(s, e)) <=> x \in Range(s) \/ x = e
<1>1. DOMAIN s = 1..Len(s) /\ Len(s) \in Nat
  OBVIOUS
<1>2. /\ Append(s, e) \in Seq(S)
      /\ Len(Append(s, e)) = Len(s) + 1
      /\ DOMAIN Append(s, e) = 1..(Len(s) + 1)
      /\ \A i \in 1..Len(s) : Append(s, e)[i] = s[i]
      /\ Append(s, e)[Len(s) + 1] = e
  OBVIOUS
<1>3. ASSUME NEW x, x \in Range(Append(s, e))
      PROVE  x \in Range(s) \/ x = e
  <2>1. PICK i \in 1..(Len(s) + 1) : x = Append(s, e)[i]
    BY <1>2, <1>3 DEF Range
  <2>2. CASE i = Len(s) + 1
    BY <1>2, <2>1, <2>2
  <2>3. CASE i # Len(s) + 1
    <3>1. i \in 1..Len(s)
      BY <1>1, <2>1, <2>3
    <3>2. QED
      BY <1>1, <1>2, <2>1, <3>1 DEF Range
  <2>4. QED
    BY <2>2, <2>3
<1>4. ASSUME NEW x, x \in Range(s)
      PROVE  x \in Range(Append(s, e))
  <2>1. PICK i \in 1..Len(s) : x = s[i]
    BY <1>1, <1>4 DEF Range
  <2>2. i \in 1..(Len(s) + 1) /\ x = Append(s, e)[i]
    BY <1>1, <1>2, <2>1
  <2>3. QED
    BY <1>2, <2>2 DEF Range
<1>5. e \in Range(Append(s, e))
  <2>1. Len(s) + 1 \in 1..(Len(s) + 1)
    BY <1>1
  <2>2. QED
    BY <1>2, <2>1 DEF Range
<1>6. QED
  BY <1>2, <1>3, <1>4, <1>5

LEMMA RangeTail ==
    ASSUME NEW S, NEW s \in Seq(S), s # <<>>
    PROVE  /\ Head(s) \in S
           /\ Tail(s) \in Seq(S)
           /\ Len(Tail(s)) = Len(s) - 1 /\ Len(s) \in Nat
           /\ \A x : x \in Range(s) <=> x \in Range(Tail(s)) \/ x = Head(s)
<1>1. DOMAIN s = 1..Len(s) /\ Len(s) \in Nat /\ Len(s) # 0
  OBVIOUS
<1>2. /\ Head(s) \in S /\ Head(s) = s[1]
      /\ Tail(s) \in Seq(S) /\ Len(Tail(s)) = Len(s) - 1
      /\ DOMAIN Tail(s) = 1..(Len(s) - 1)
      /\ \A i \in 1..(Len(s) - 1) : Tail(s)[i] = s[i + 1]
  BY <1>1
<1>3. ASSUME NEW x, x \in Range(s)
      PROVE  x \in Range(Tail(s)) \/ x = Head(s)
  <2>1. PICK i \in 1..Len(s) : x = s[i]
    BY <1>1, <1>3 DEF Range
  <2>2. CASE i = 1
    BY <1>2, <2>1, <2>2
  <2>3. CASE i # 1
    <3>1. i - 1 \in 1..(Len(s) - 1) /\ (i - 1) + 1 = i
      BY <1>1, <2>1, <2>3
    <3>2. Tail(s)[i - 1] = x
      BY <1>2, <2>1, <3>1
    <3>3. QED
      BY <1>2, <3>1, <3>2 DEF Range
  <2>4. QED
    BY <2>2, <2>3
<1>4. ASSUME NEW x, x \in Range(Tail(s))
      PROVE  x \in Range(s)
  <2>1. PICK i \in 1..(Len(s) - 1) : x = Tail(s)[i]
    BY <1>2, <1>4 DEF Range
  <2>2. i + 1 \in 1..Len(s) /\ x = s[i + 1]
    BY <1>1, <1>2, <2>1
  <2>3. QED
    BY <1>1, <2>2 DEF Range
<1>5. Head(s) \in Range(s)
  <2>1. 1 \in 1..Len(s)
    BY <1>1
  <2>2. QED
    BY <1>1, <1>2, <2>1 DEF Range
<1>6. QED
  BY <1>1, <1>2, <1>3, <1>4, <1>5

LEMMA RangeEmpty == \A x : x \notin Range(<<>>)
BY DEF Range

-----------------------------------------------------------------------------
(* What dir_failed() does to the list, its flag and its count: the failure *)
(* is reported from now on, whatever was reported still is, and the run no *)
(* longer counts as free of failures.                                      *)
LEMMA DirFailed ==
    ASSUME TypeOK, Kept, NEW f \in Failure, dir_failed(f)
    PROVE  /\ failures' \in Seq(Failure) /\ Len(failures') <= MaxFailures
           /\ lost' \in BOOLEAN
           /\ nfailed' \in Nat /\ nfailed' # 0
           /\ broken' \in SUBSET Failure
           /\ Kept'
           /\ \A p \in Paths : flush_set_failed(p) \/ Matches(f, p) => flush_set_failed(p)'
<1>1. nfailed' \in Nat /\ nfailed' # 0 /\ broken' \in SUBSET Failure
  BY DEF dir_failed, TypeOK
<1>2. CASE lost' = TRUE /\ failures' = failures
  BY <1>1, <1>2 DEF TypeOK, Kept, flush_set_failed
<1>3. CASE Len(failures) < MaxFailures /\ failures' = Append(failures, f) /\ lost' = lost
  <2>1. failures \in Seq(Failure) /\ Len(failures) \in Nat
    BY DEF TypeOK
  <2>2. /\ failures' \in Seq(Failure) /\ Len(failures') = Len(failures) + 1
        /\ \A x : x \in Range(failures') <=> x \in Range(failures) \/ x = f
    BY <1>3, <2>1, RangeAppend
  <2>3. Len(failures') <= MaxFailures
    BY <1>3, <2>1, <2>2, FlushSetAssumption
  <2>4. lost' \in BOOLEAN
    BY <1>3 DEF TypeOK
  <2>5. Kept'
    BY <1>3, <2>2 DEF Kept, dir_failed
  <2>6. ASSUME NEW p \in Paths, flush_set_failed(p) \/ Matches(f, p)
        PROVE  flush_set_failed(p)'
    BY <1>3, <2>2, <2>6 DEF flush_set_failed, Matches
  <2>7. QED
    BY <1>1, <2>2, <2>3, <2>4, <2>5, <2>6
<1>4. QED
  BY <1>2, <1>3 DEF dir_failed

-----------------------------------------------------------------------------
LEMMA SetInvInit == Init => SetInv
<1> SUFFICES ASSUME Init PROVE SetInv
  OBVIOUS
<1> USE DEF Init
<1>1. Len(<<>>) = 0 /\ <<>> \in Seq(Paths) /\ <<>> \in Seq(Failure)
  OBVIOUS
<1>2. TypeOK
  <2>1. lost \in BOOLEAN /\ failed \in BOOLEAN
    BY Zenon
  <2>2. QED
    BY <1>1, <2>1, FlushSetAssumption DEF TypeOK
<1>3. Control
  BY RangeEmpty DEF Control
<1>4. Kept /\ Spared /\ SparesSafe /\ Counted
  BY DEF Kept, Spared, SparesSafe, Counted
<1>5. QED
  BY <1>2, <1>3, <1>4 DEF SetInv

(* The steps that leave the list of failures alone.                        *)
LEMMA KeptFrame ==
    ASSUME UNCHANGED <<failures, lost>>
    PROVE  \A p \in Paths : flush_set_failed(p)' <=> flush_set_failed(p)
BY DEF flush_set_failed

LEMMA ForgetStep == SetInv /\ flush_set_forget => SetInv'
<1> SUFFICES ASSUME SetInv, flush_set_forget PROVE SetInv'
  OBVIOUS
<1> USE DEF flush_set_forget
<1>1. TypeOK'
  <2>1. lost' \in BOOLEAN
    BY Zenon
  <2>2. failures' \in Seq(Failure) /\ Len(failures') = 0
    OBVIOUS
  <2>3. QED
    BY <2>1, <2>2, FlushSetAssumption DEF SetInv, TypeOK
<1>2. Control'
  BY DEF SetInv, Control
<1>3. Kept' /\ Spared' /\ SparesSafe'
  BY DEF Kept, Spared, SparesSafe
<1>4. Counted'
  BY RangeEmpty DEF SetInv, Control, Counted, Waiting, InHand
<1>5. QED
  BY <1>1, <1>2, <1>3, <1>4 DEF SetInv

LEMMA NameStep ==
    ASSUME SetInv, NEW p \in Paths, name_one(p)
    PROVE  SetInv'
<1> USE DEF name_one
<1>1. TypeOK'
  BY FlushSetAssumption DEF SetInv, TypeOK
<1>2. Control'
  BY DEF SetInv, Control
<1>3. Kept' /\ SparesSafe'
  BY DEF SetInv, Kept, SparesSafe
<1>4. \A x : Waiting(x) \/ x = p => Waiting(x)'
  BY DEF Waiting, InHand, Matches
<1>5. Spared'
  BY <1>4, KeptFrame DEF SetInv, TypeOK, Spared
<1>6. Counted'
  BY <1>4 DEF SetInv, Counted
<1>7. QED
  BY <1>1, <1>2, <1>3, <1>5, <1>6 DEF SetInv

LEMMA ParentsStep ==
    ASSUME SetInv, NEW p \in Paths, path_make_parents(p)
    PROVE  SetInv'
<1> USE DEF path_make_parents, Fault
<1>1. TypeOK'
  <2>1. failed' \in BOOLEAN
    BY Zenon DEF SetInv, TypeOK
  <2>2. QED
    BY <2>1, FlushSetAssumption DEF SetInv, TypeOK
<1>2. Control'
  BY DEF SetInv, Control
<1>3. Kept' /\ SparesSafe'
  BY DEF SetInv, Kept, SparesSafe
<1>4. \A x : Waiting(x) \/ x \in owed' \ owed \/ x \in skipped \ skipped' => Waiting(x)'
  BY DEF Waiting, InHand, Matches
<1>5. Spared'
  BY <1>4, KeptFrame DEF SetInv, TypeOK, Spared
<1>6. Counted'
  BY <1>4 DEF SetInv, Counted
<1>7. QED
  BY <1>1, <1>2, <1>3, <1>5, <1>6 DEF SetInv

LEMMA AddStep == SetInv /\ flush_set_add => SetInv'
<1> SUFFICES ASSUME SetInv, flush_set_add PROVE SetInv'
  OBVIOUS
<1> USE DEF flush_set_add
<1>1. TypeOK'
  BY DEF SetInv, TypeOK
<1>2. Control'
  <2>1. Len(dirs) \in Nat /\ Len(dirs) <= MaxDirs
    BY DEF SetInv, TypeOK
  <2>2. QED
    BY <2>1, FlushSetAssumption DEF SetInv, Control
<1>3. Kept' /\ SparesSafe'
  BY DEF SetInv, Kept, SparesSafe
<1>4. \A x : Waiting(x) => Waiting(x)'
  BY DEF Waiting, InHand, Matches
<1>5. Spared'
  BY <1>4, KeptFrame DEF SetInv, TypeOK, Spared
<1>6. Counted'
  BY <1>4 DEF SetInv, Counted
<1>7. QED
  BY <1>1, <1>2, <1>3, <1>5, <1>6 DEF SetInv

LEMMA StoreStep == SetInv /\ AddStore => SetInv'
<1> SUFFICES ASSUME SetInv, AddStore PROVE SetInv'
  OBVIOUS
<1> USE DEF AddStore
<1>1. /\ dirs \in Seq(Paths) /\ arg \in Paths /\ job = <<>>
      /\ Len(dirs) < MaxDirs /\ Len(dirs) \in Nat /\ Len(job) = 0
  BY DEF SetInv, TypeOK, Control
<1>2. /\ dirs' \in Seq(Paths) /\ Len(dirs') = Len(dirs) + 1
      /\ \A x : x \in Range(dirs') <=> x \in Range(dirs) \/ x = arg
  BY <1>1, RangeAppend
<1>3. TypeOK'
  BY <1>1, <1>2, FlushSetAssumption DEF SetInv, TypeOK
<1>4. Control'
  BY DEF SetInv, Control
<1>5. Kept' /\ SparesSafe'
  BY DEF SetInv, Kept, SparesSafe
<1>6. \A x : Waiting(x) => Waiting(x)'
  BY <1>2 DEF Waiting, InHand, Matches
<1>7. Spared'
  BY <1>6, KeptFrame DEF SetInv, TypeOK, Spared
<1>8. Counted'
  BY <1>6 DEF SetInv, Counted
<1>9. QED
  BY <1>3, <1>4, <1>5, <1>7, <1>8 DEF SetInv

(* The steps that can fail: either nothing fails, or dir_failed() runs.    *)
LEMMA ListStep ==
    ASSUME TypeOK, Kept, NEW f \in Failure, NoFailure \/ dir_failed(f)
    PROVE  /\ failures' \in Seq(Failure) /\ Len(failures') <= MaxFailures
           /\ lost' \in BOOLEAN
           /\ nfailed' \in Nat
           /\ nfailed' = 0 => nfailed = 0 /\ NoFailure
           /\ broken' \in SUBSET Failure
           /\ Kept'
           /\ \A p \in Paths : flush_set_failed(p) => flush_set_failed(p)'
           /\ dir_failed(f) => \A p \in Paths : Matches(f, p) => flush_set_failed(p)'
<1>1. CASE dir_failed(f)
  BY <1>1, DirFailed
<1>2. CASE NoFailure
  <2>1. UNCHANGED <<failures, lost, nfailed, broken>>
    BY <1>2 DEF NoFailure
  <2>2. ~dir_failed(f)
    BY <2>1 DEF dir_failed, TypeOK
  <2>3. Kept' /\ \A p \in Paths : flush_set_failed(p) => flush_set_failed(p)'
    BY <2>1, KeptFrame DEF Kept
  <2>4. lost' \in BOOLEAN
    BY <2>1, Zenon DEF TypeOK
  <2>5. QED
    BY <1>2, <2>1, <2>2, <2>3, <2>4 DEF TypeOK
<1>3. QED
  BY <1>1, <1>2

LEMMA FlushDirStep == SetInv /\ flush_dir => SetInv'
<1> SUFFICES ASSUME SetInv, flush_dir PROVE SetInv'
  OBVIOUS
<1> DEFINE f == [name |-> arg, known |-> FALSE, dir |-> DirOf[arg]]
<1>1. arg \in Paths /\ DirOf[arg] \in Dirs /\ job = <<>> /\ pc = "store"
  BY FlushSetAssumption DEF SetInv, TypeOK, Control, flush_dir
<1>2. f \in Failure /\ f.name = arg
  BY <1>1, Zenon DEF Failure
<1>3. NoFailure \/ dir_failed(f)
  BY DEF flush_dir
<1>4. TypeOK /\ Kept
  BY DEF SetInv
<1> HIDE DEF f
<1>5. /\ failures' \in Seq(Failure) /\ Len(failures') <= MaxFailures
      /\ lost' \in BOOLEAN
      /\ nfailed' \in Nat
      /\ nfailed' = 0 => nfailed = 0 /\ NoFailure
      /\ broken' \in SUBSET Failure
      /\ Kept'
      /\ \A p \in Paths : flush_set_failed(p) => flush_set_failed(p)'
      /\ dir_failed(f) => \A p \in Paths : Matches(f, p) => flush_set_failed(p)'
  BY <1>2, <1>3, <1>4, ListStep
<1>6. /\ pc' = "naming" /\ faults' \in 0..MaxFaults
      /\ owed' \subseteq owed /\ skipped \subseteq skipped' /\ skipped' \subseteq Paths
      /\ UNCHANGED <<dirs, job, ret, arg, left, dropped, batch, named, failed>>
  BY <1>1, <1>4, FlushSetAssumption DEF flush_dir, TypeOK
<1>7. arg \notin owed' \/ arg \in skipped' \/ dir_failed(f)
  BY <1>1 DEF flush_dir, f, Covered
<1>8. TypeOK'
  BY <1>4, <1>5, <1>6 DEF TypeOK
<1>9. Control'
  BY <1>1, <1>6 DEF SetInv, Control
<1>10. SparesSafe'
  BY <1>6 DEF SparesSafe
<1>11. \A x : Waiting(x) => Waiting(x)' \/ x = arg
  BY <1>6 DEF Waiting, InHand, Matches
<1>12. Spared'
  <2> SUFFICES ASSUME NEW p \in left', p \in owed', p \notin skipped'
               PROVE  Waiting(p)' \/ flush_set_failed(p)'
    BY DEF Spared
  <2>1. p \in Paths /\ (Waiting(p) \/ flush_set_failed(p))
    BY <1>4, <1>6 DEF SetInv, Spared, TypeOK
  <2>2. CASE p = arg
    BY <1>2, <1>5, <1>7, <2>1, <2>2 DEF Matches
  <2>3. QED
    BY <1>5, <1>11, <2>1, <2>2
<1>13. Counted'
  <2> SUFFICES ASSUME nfailed' = 0, NEW p \in owed', p \notin skipped'
               PROVE  Waiting(p)'
    BY DEF Counted
  <2>1. Waiting(p)
    BY <1>5, <1>6 DEF SetInv, Counted
  <2>2. ~dir_failed(f)
    BY <1>4, <1>5 DEF dir_failed, TypeOK
  <2>3. QED
    BY <1>7, <1>11, <2>1, <2>2
<1>14. QED
  BY <1>5, <1>8, <1>9, <1>10, <1>12, <1>13 DEF SetInv

LEMMA UnopenedStep == SetInv /\ RunUnopened => SetInv'
<1> SUFFICES ASSUME SetInv, RunUnopened PROVE SetInv'
  OBVIOUS
<1> DEFINE h == Head(dirs)
           f == [name |-> h, known |-> FALSE, dir |-> DirOf[h]]
<1>1. TypeOK /\ Kept /\ dirs \in Seq(Paths) /\ dirs # <<>> /\ pc = "open"
  BY DEF SetInv, TypeOK, RunUnopened
<1>2. /\ h \in Paths /\ Tail(dirs) \in Seq(Paths)
      /\ Len(Tail(dirs)) = Len(dirs) - 1 /\ Len(dirs) \in Nat
      /\ \A x : x \in Range(dirs) <=> x \in Range(Tail(dirs)) \/ x = h
  BY <1>1, RangeTail
<1>3. DirOf[h] \in Dirs
  BY <1>2, FlushSetAssumption
<1>4. f \in Failure /\ f.name = h
  BY <1>2, <1>3, Zenon DEF Failure
<1>5. NoFailure \/ dir_failed(f)
  BY DEF RunUnopened
<1>6. /\ faults' \in 0..MaxFaults /\ dirs' = Tail(dirs)
      /\ skipped \subseteq skipped'
      /\ skipped' \subseteq skipped \cup {h}
      /\ h \in skipped' \/ dir_failed(f)
      /\ UNCHANGED <<job, pc, ret, arg, left, dropped, batch, named, failed, owed>>
  BY <1>1, FlushSetAssumption DEF RunUnopened, TypeOK, Fault
<1> HIDE DEF h, f
<1>7. /\ failures' \in Seq(Failure) /\ Len(failures') <= MaxFailures
      /\ lost' \in BOOLEAN
      /\ nfailed' \in Nat
      /\ nfailed' = 0 => nfailed = 0 /\ NoFailure
      /\ broken' \in SUBSET Failure
      /\ Kept'
      /\ \A p \in Paths : flush_set_failed(p) => flush_set_failed(p)'
      /\ dir_failed(f) => \A p \in Paths : Matches(f, p) => flush_set_failed(p)'
  BY <1>1, <1>4, <1>5, ListStep
<1>8. TypeOK'
  <2>1. Len(job) \in Nat
    BY <1>1 DEF TypeOK
  <2>2. dirs' \in Seq(Paths) /\ Len(dirs') <= MaxDirs /\ Len(job') + Len(dirs') <= MaxDirs
    BY <1>1, <1>2, <1>6, <2>1, FlushSetAssumption DEF TypeOK
  <2>3. skipped' \in SUBSET Paths
    BY <1>1, <1>2, <1>6 DEF TypeOK
  <2>4. QED
    BY <1>1, <1>6, <1>7, <2>2, <2>3 DEF TypeOK
<1>9. Control'
  BY <1>1, <1>6 DEF SetInv, Control
<1>10. SparesSafe'
  BY <1>1, <1>6 DEF SparesSafe
<1>11. \A x : Waiting(x) => Waiting(x)' \/ x = h
  BY <1>2, <1>6 DEF Waiting, InHand, Matches
<1>12. Spared'
  <2> SUFFICES ASSUME NEW p \in left', p \in owed', p \notin skipped'
               PROVE  Waiting(p)' \/ flush_set_failed(p)'
    BY DEF Spared
  <2>1. p \in Paths /\ (Waiting(p) \/ flush_set_failed(p))
    BY <1>1, <1>6 DEF SetInv, Spared, TypeOK
  <2>2. CASE p = h
    BY <1>4, <1>6, <1>7, <2>1, <2>2 DEF Matches
  <2>3. QED
    BY <1>7, <1>11, <2>1, <2>2
<1>13. Counted'
  <2> SUFFICES ASSUME nfailed' = 0, NEW p \in owed', p \notin skipped'
               PROVE  Waiting(p)'
    BY DEF Counted
  <2>1. Waiting(p)
    BY <1>6, <1>7 DEF SetInv, Counted
  <2>2. ~dir_failed(f)
    BY <1>1, <1>7 DEF dir_failed, TypeOK
  <2>3. QED
    BY <1>6, <1>11, <2>1, <2>2
<1>14. QED
  BY <1>7, <1>8, <1>9, <1>10, <1>12, <1>13 DEF SetInv

LEMMA OpenedStep == SetInv /\ RunOpened => SetInv'
<1> SUFFICES ASSUME SetInv, RunOpened PROVE SetInv'
  OBVIOUS
<1> DEFINE h == Head(dirs)
           known == [name |-> h, known |-> TRUE, dir |-> DirOf[h]]
           unknown == [name |-> h, known |-> FALSE, dir |-> DirOf[h]]
<1>1. /\ dirs \in Seq(Paths) /\ dirs # <<>> /\ pc = "open"
      /\ job \in Seq(Failure) /\ Len(job) \in Nat
  BY DEF SetInv, TypeOK, RunOpened
<1>2. /\ h \in Paths /\ Tail(dirs) \in Seq(Paths)
      /\ Len(Tail(dirs)) = Len(dirs) - 1 /\ Len(dirs) \in Nat
      /\ \A x : x \in Range(dirs) <=> x \in Range(Tail(dirs)) \/ x = h
  BY <1>1, RangeTail
<1>3. DirOf[h] \in Dirs
  BY <1>2, FlushSetAssumption
<1>4. /\ known \in Failure /\ known.name = h /\ known.dir = DirOf[h]
      /\ unknown \in Failure /\ unknown.name = h /\ unknown.dir = DirOf[h]
  BY <1>2, <1>3, Zenon DEF Failure
<1>5. /\ \/ job' = Append(job, known)
         \/ job' = job /\ \E f \in Range(job) : f.known /\ f.dir = DirOf[h]
         \/ job' = Append(job, unknown)
      /\ faults' \in 0..MaxFaults /\ dirs' = Tail(dirs)
      /\ UNCHANGED <<failures, lost, nfailed, pc, ret, arg, left, dropped, batch, named,
                     failed, owed, skipped, broken>>
  BY FlushSetAssumption DEF SetInv, RunOpened, TypeOK, Fault
<1> HIDE DEF h, known, unknown
<1>6. /\ job' \in Seq(Failure) /\ Len(job') \in Nat /\ Len(job') <= Len(job) + 1
      /\ \A f \in Range(job') : f \in Range(job) \/ f.dir = DirOf[f.name]
      /\ \A f \in Range(job) : f \in Range(job')
      /\ \E f \in Range(job') : Matches(f, h)
  <2>1. CASE job' = Append(job, known)
    BY <1>1, <1>4, <2>1, RangeAppend DEF Matches
  <2>2. CASE job' = Append(job, unknown)
    BY <1>1, <1>4, <2>2, RangeAppend DEF Matches
  <2>3. CASE job' = job /\ \E f \in Range(job) : f.known /\ f.dir = DirOf[h]
    BY <1>1, <2>3 DEF Matches
  <2>4. QED
    BY <1>5, <2>1, <2>2, <2>3
<1>7. TypeOK'
  <2>1. dirs' \in Seq(Paths) /\ Len(dirs') <= MaxDirs /\ Len(job') + Len(dirs') <= MaxDirs
    BY <1>1, <1>2, <1>5, <1>6, FlushSetAssumption DEF SetInv, TypeOK
  <2>2. QED
    BY <1>5, <1>6, <2>1 DEF SetInv, TypeOK
<1>8. Control'
  BY <1>1, <1>5, <1>6 DEF SetInv, Control
<1>9. Kept' /\ SparesSafe'
  BY <1>5 DEF SetInv, Kept, SparesSafe
<1>10. \A x : Waiting(x) => Waiting(x)'
  BY <1>2, <1>5, <1>6 DEF Waiting, InHand, Matches
<1>11. Spared'
  BY <1>5, <1>10, KeptFrame DEF SetInv, TypeOK, Spared
<1>12. Counted'
  BY <1>5, <1>10 DEF SetInv, Counted
<1>13. QED
  BY <1>7, <1>8, <1>9, <1>11, <1>12 DEF SetInv

LEMMA LoopStep == SetInv /\ RunLoopEnds => SetInv'
<1> SUFFICES ASSUME SetInv, RunLoopEnds PROVE SetInv'
  OBVIOUS
<1> USE DEF RunLoopEnds
<1>1. TypeOK'
  BY DEF SetInv, TypeOK
<1>2. Control'
  BY DEF SetInv, Control
<1>3. Kept' /\ SparesSafe'
  BY DEF SetInv, Kept, SparesSafe
<1>4. \A x : Waiting(x) => Waiting(x)'
  BY DEF Waiting, InHand, Matches
<1>5. Spared'
  BY <1>4, KeptFrame DEF SetInv, TypeOK, Spared
<1>6. Counted'
  BY <1>4 DEF SetInv, Counted
<1>7. QED
  BY <1>1, <1>2, <1>3, <1>5, <1>6 DEF SetInv

LEMMA ResultStep == SetInv /\ RunResult => SetInv'
<1> SUFFICES ASSUME SetInv, RunResult PROVE SetInv'
  OBVIOUS
<1> DEFINE f == Head(job)
<1>1. TypeOK /\ Kept /\ job \in Seq(Failure) /\ job # <<>> /\ pc = "record"
  BY DEF SetInv, TypeOK, RunResult
<1>2. /\ f \in Failure /\ Tail(job) \in Seq(Failure)
      /\ Len(Tail(job)) = Len(job) - 1 /\ Len(job) \in Nat
      /\ \A x : x \in Range(job) <=> x \in Range(Tail(job)) \/ x = f
  BY <1>1, RangeTail
<1>3. NoFailure \/ dir_failed(f)
  BY DEF RunResult
<1>4. /\ faults' \in 0..MaxFaults /\ job' = Tail(job)
      /\ owed' = owed \ Covered(f.dir) \/ (owed' = owed /\ dir_failed(f))
      /\ UNCHANGED <<dirs, pc, ret, arg, left, dropped, batch, named, failed, skipped>>
  BY <1>1, FlushSetAssumption DEF RunResult, TypeOK, Fault
<1>5. f.dir = DirOf[f.name]
  BY <1>2 DEF SetInv, Control
<1> HIDE DEF f
<1>6. /\ failures' \in Seq(Failure) /\ Len(failures') <= MaxFailures
      /\ lost' \in BOOLEAN
      /\ nfailed' \in Nat
      /\ nfailed' = 0 => nfailed = 0 /\ NoFailure
      /\ broken' \in SUBSET Failure
      /\ Kept'
      /\ \A p \in Paths : flush_set_failed(p) => flush_set_failed(p)'
      /\ dir_failed(f) => \A p \in Paths : Matches(f, p) => flush_set_failed(p)'
  BY <1>1, <1>2, <1>3, ListStep
<1>7. owed' \subseteq owed /\ \A p \in owed' : Matches(f, p) /\ p \in Paths => dir_failed(f)
  BY <1>4, <1>5 DEF Matches, Covered
<1>8. TypeOK'
  <2>1. Len(dirs) \in Nat
    BY <1>1 DEF TypeOK
  <2>2. job' \in Seq(Failure) /\ Len(job') + Len(dirs') <= MaxDirs
    BY <1>1, <1>2, <1>4, <2>1, FlushSetAssumption DEF TypeOK
  <2>3. QED
    BY <1>1, <1>4, <1>6, <1>7, <2>2 DEF TypeOK
<1>9. Control'
  BY <1>1, <1>2, <1>4 DEF SetInv, Control
<1>10. SparesSafe'
  BY <1>1, <1>4 DEF SparesSafe
<1>11. \A x : Waiting(x) => Waiting(x)' \/ Matches(f, x)
  BY <1>2, <1>4 DEF Waiting, InHand, Matches
<1>12. Spared'
  <2> SUFFICES ASSUME NEW p \in left', p \in owed', p \notin skipped'
               PROVE  Waiting(p)' \/ flush_set_failed(p)'
    BY DEF Spared
  <2>1. p \in Paths /\ (Waiting(p) \/ flush_set_failed(p))
    BY <1>1, <1>4, <1>7 DEF SetInv, Spared, TypeOK
  <2>2. CASE Matches(f, p)
    BY <1>6, <1>7, <2>1, <2>2
  <2>3. QED
    BY <1>6, <1>11, <2>1, <2>2
<1>13. Counted'
  <2> SUFFICES ASSUME nfailed' = 0, NEW p \in owed', p \notin skipped'
               PROVE  Waiting(p)'
    BY DEF Counted
  <2>1. p \in Paths /\ Waiting(p)
    BY <1>1, <1>4, <1>6, <1>7 DEF SetInv, Counted, TypeOK
  <2>2. ~dir_failed(f)
    BY <1>1, <1>6 DEF dir_failed, TypeOK
  <2>3. QED
    BY <1>7, <1>11, <2>1, <2>2
<1>14. QED
  BY <1>6, <1>8, <1>9, <1>10, <1>12, <1>13 DEF SetInv

LEMMA ReturnStep == SetInv /\ RunReturns => SetInv'
<1> SUFFICES ASSUME SetInv, RunReturns PROVE SetInv'
  OBVIOUS
<1> USE DEF RunReturns
<1>1. TypeOK'
  BY DEF SetInv, TypeOK
<1>2. Control'
  <2>1. Len(<<>>) = 0
    OBVIOUS
  <2>2. QED
    BY <2>1, FlushSetAssumption DEF SetInv, Control
<1>3. Kept' /\ SparesSafe'
  BY DEF SetInv, Control, Kept, SparesSafe
<1>4. \A x : Waiting(x) => Waiting(x)'
  BY DEF Waiting, InHand, Matches
<1>5. Spared'
  BY <1>4, KeptFrame DEF SetInv, TypeOK, Spared
<1>6. Counted'
  BY <1>4 DEF SetInv, Counted
<1>7. QED
  BY <1>1, <1>2, <1>3, <1>5, <1>6 DEF SetInv

LEMMA RunStep == SetInv /\ flush_set_run => SetInv'
<1> SUFFICES ASSUME SetInv, flush_set_run PROVE SetInv'
  OBVIOUS
<1> USE DEF flush_set_run
<1>1. TypeOK'
  BY DEF SetInv, TypeOK
<1>2. Control'
  BY DEF SetInv, Control
<1>3. Kept' /\ SparesSafe'
  BY DEF SetInv, Kept, SparesSafe
<1>4. \A x : Waiting(x) => Waiting(x)'
  BY DEF Waiting, InHand, Matches
<1>5. Spared'
  BY <1>4, KeptFrame DEF SetInv, TypeOK, Spared
<1>6. Counted'
  BY <1>4 DEF SetInv, Counted
<1>7. QED
  BY <1>1, <1>2, <1>3, <1>5, <1>6 DEF SetInv

(* The step the order of flush and drop is about: nothing waits any more,  *)
(* so an old file whose directory is not flushed is reported as failed.    *)
LEMMA DropStep ==
    ASSUME SetInv, NEW p \in Paths, dir_unflushed(p)
    PROVE  SetInv'
<1> USE DEF dir_unflushed, Fault
<1>1. TypeOK'
  BY FlushSetAssumption DEF SetInv, TypeOK
<1>2. Control'
  BY DEF SetInv, Control
<1>3. Kept'
  BY DEF SetInv, Kept
<1>4. \A x : ~Waiting(x)
  BY RangeEmpty DEF SetInv, Control, Waiting, InHand
<1>5. SparesSafe'
  <2>1. p \in owed /\ p \notin skipped => flush_set_failed(p)
    BY <1>4 DEF SetInv, Spared
  <2>2. dropped' = dropped \/ (dropped' = dropped \cup {p} /\ ~flush_set_failed(p))
    OBVIOUS
  <2>3. QED
    BY <2>1, <2>2 DEF SetInv, SparesSafe
<1>6. Spared'
  BY <1>4, KeptFrame DEF SetInv, TypeOK, Spared
<1>7. Counted'
  BY <1>4 DEF SetInv, Counted
<1>8. QED
  BY <1>1, <1>2, <1>3, <1>5, <1>6, <1>7 DEF SetInv

LEMMA BatchStep == SetInv /\ BatchEnds => SetInv'
<1> SUFFICES ASSUME SetInv, BatchEnds PROVE SetInv'
  OBVIOUS
<1> USE DEF BatchEnds
<1>1. TypeOK'
  BY DEF SetInv, TypeOK
<1>2. Control'
  BY DEF SetInv, Control
<1>3. Kept' /\ SparesSafe' /\ Spared'
  BY DEF SetInv, Kept, SparesSafe, Spared
<1>4. \A x : ~Waiting(x)
  BY RangeEmpty DEF SetInv, Control, Waiting, InHand
<1>5. Counted'
  BY <1>4 DEF SetInv, Counted
<1>6. QED
  BY <1>1, <1>2, <1>3, <1>5 DEF SetInv

LEMMA SetInvStutters == SetInv /\ UNCHANGED vars => SetInv'
BY DEF SetInv, vars, TypeOK, Control, Kept, Spared, SparesSafe, Counted, Waiting, InHand,
       Matches, flush_set_failed

LEMMA SetInvStep == SetInv /\ [Next]_vars => SetInv'
<1> SUFFICES ASSUME SetInv, [Next]_vars PROVE SetInv'
  OBVIOUS
<1>1. CASE flush_set_forget
  BY <1>1, ForgetStep
<1>2. CASE flush_set_add
  BY <1>2, AddStep
<1>3. CASE AddStore
  BY <1>3, StoreStep
<1>4. CASE flush_dir
  BY <1>4, FlushDirStep
<1>5. CASE RunUnopened
  BY <1>5, UnopenedStep
<1>6. CASE RunOpened
  BY <1>6, OpenedStep
<1>7. CASE RunLoopEnds
  BY <1>7, LoopStep
<1>8. CASE RunResult
  BY <1>8, ResultStep
<1>9. CASE RunReturns
  BY <1>9, ReturnStep
<1>10. CASE flush_set_run
  BY <1>10, RunStep
<1>11. CASE BatchEnds
  BY <1>11, BatchStep
<1>12. CASE Ended
  BY <1>12, SetInvStutters DEF Ended
<1>13. CASE \E p \in Paths : name_one(p) \/ path_make_parents(p) \/ dir_unflushed(p)
  BY <1>13, NameStep, ParentsStep, DropStep
<1>14. CASE UNCHANGED vars
  BY <1>14, SetInvStutters
<1>15. QED
  BY <1>1, <1>2, <1>3, <1>4, <1>5, <1>6, <1>7, <1>8, <1>9, <1>10, <1>11, <1>12, <1>13,
     <1>14 DEF Next

LEMMA SetInvHolds == Spec => []SetInv
BY SetInvInit, SetInvStep, PTL DEF Spec

-----------------------------------------------------------------------------
(* Type correctness, with the room of each table: flush_set_run() never    *)
(* opens more directories than dirs_max, dir_failed() never writes past    *)
(* the end of failures[].                                                  *)
THEOREM SetTypes == Spec => []TypeOK
<1>1. SetInv => TypeOK
  BY DEF SetInv
<1>2. QED
  BY SetInvHolds, <1>1, PTL

(* dir_failed() and flush_set_failed(): whatever the capacity of the list, *)
(* every failure since flush_set_forget() is reported, by any known path.  *)
THEOREM FailuresAreKept == Spec => []FailuresKept
<1>1. SetInv => FailuresKept
  <2> SUFFICES ASSUME Kept, NEW p \in Paths, NEW f \in broken,
                      f.name = p \/ (f.known /\ f.dir = DirOf[p])
               PROVE  flush_set_failed(p)
    BY DEF SetInv, FailuresKept
  <2>1. QED
    BY DEF Kept, flush_set_failed
<1>2. QED
  BY SetInvHolds, <1>1, PTL

(* drop_spares() drops no old file before the name that replaced it is     *)
(* flushed, for any number of batches, paths and failures.                 *)
THEOREM SparesAreSafe == Spec => []SparesSafe
<1>1. SetInv => SparesSafe
  BY DEF SetInv
<1>2. QED
  BY SetInvHolds, <1>1, PTL

(* batch_run() returns true only when every directory that gained a name   *)
(* has been flushed, or may not be opened.                                 *)
THEOREM StatusIsTrue == Spec => []StatusTrue
<1>1. SetInv => StatusTrue
  <2> SUFFICES ASSUME SetInv, ExitOK PROVE owed \subseteq skipped
    BY DEF StatusTrue
  <2>1. \A x : ~Waiting(x)
    BY RangeEmpty DEF SetInv, Control, Waiting, InHand, ExitOK
  <2>2. QED
    BY <2>1 DEF SetInv, Counted, ExitOK
<1>2. QED
  BY SetInvHolds, <1>1, PTL
=============================================================================
