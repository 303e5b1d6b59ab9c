------------------------------- MODULE Pending -------------------------------
(***************************************************************************)
(* src/src/pending.c: the names the run has made and not committed, their  *)
(* removal, and the signal handler that removes them all.  A slot holds    *)
(* the path and the inode it had when it was armed; the last slot is       *)
(* PENDING_BACKUP.                                                         *)
(***************************************************************************)
EXTENDS World

Armed(s) == pending[s].path # None

pending_clear(p, s) == [p EXCEPT ![s].path = None]

(* Call remove_ours() on slot s and go on at then; note says whether the   *)
(* caller turns a name left behind into op->leftover.                      *)
pending_remove(s, note, then) ==
    IF Armed(s)
    THEN /\ fr' = [what |-> "remove", slot |-> s, path |-> pending[s].path,
                   ino |-> pending[s].ino, flag |-> note, then |-> then]
         /\ Goto("lstat")
    ELSE fr' = fr /\ Goto(then)

(* Mutant: callers ignore what pending_remove() returns.                   *)
RemoveDoneQuiet(left) ==
    /\ pending' = IF fr.slot \in Slots /\ sig # "caught" THEN pending_clear(pending, fr.slot)
                  ELSE pending
    /\ op' = op
    /\ Goto(fr.then)

(* remove_ours() has returned, nonzero if left; the slot is free again,    *)
(* except in the handler, which looks at each slot once.                   *)
RemoveDone(left) ==
    /\ pending' = IF fr.slot \in Slots /\ sig # "caught" THEN pending_clear(pending, fr.slot)
                  ELSE pending
    /\ op' = IF left /\ fr.flag THEN [op EXCEPT ![Cur].leftover = TRUE] ELSE op
    /\ Goto(fr.then)

(* Mutant: the inode is not compared.                                      *)
RemoveAnything ==
    /\ At("lstat")
    /\ \/ Free(dir, fr.path) /\ RemoveDone(FALSE) /\ UNCHANGED hist
       \/ ~Free(dir, fr.path) /\ Goto("unlink") /\ UNCHANGED <<pending, op, hist>>
       \/ FaultAt(fr.path) /\ RemoveDone(TRUE)
    /\ UNCHANGED <<kern, spec, start, dir, unflushed, file, held, sig, fr, mem>>

(* remove_ours(): lstat, and leave a name that holds another file.         *)
RemoveLstat ==
    /\ At("lstat")
    /\ \/ Free(dir, fr.path) /\ RemoveDone(FALSE) /\ UNCHANGED hist
       \/ ~Free(dir, fr.path) /\ dir[fr.path] # fr.ino /\ RemoveDone(TRUE) /\ UNCHANGED hist
       \/ dir[fr.path] = fr.ino /\ Goto("unlink") /\ UNCHANGED <<pending, op, hist>>
       \/ FaultAt(fr.path) /\ RemoveDone(TRUE)
    /\ UNCHANGED <<kern, spec, start, dir, unflushed, file, held, sig, fr, mem>>

(* remove_ours(): unlink, whatever the name holds by now.                  *)
RemoveUnlink ==
    /\ At("unlink")
    /\ \/ SetDir(Bind(dir, fr.path, None)) /\ RemoveDone(FALSE) /\ UNCHANGED hist
       \/ FaultAt(fr.path) /\ RemoveDone(TRUE) /\ UNCHANGED <<dir, unflushed>>
    /\ UNCHANGED <<kern, spec, start, file, held, sig, fr, mem>>

-----------------------------------------------------------------------------
(* A signal comes, and waits while pending_hold() blocks it.               *)
Signal ==
    /\ Signals
    /\ ~Over
    /\ sig = "none"
    /\ sig' = "pending"
    /\ UNCHANGED <<kern, spec, start, dir, unflushed, file, op, pending, held, ctl,
                   fr, mem, hist>>

(* cleanup_handler() takes over; the program does not run again.           *)
SignalTaken ==
    /\ sig = "pending"
    /\ held = 0
    /\ ~Over
    /\ sig' = "caught"
    /\ fr' = NoFrame
    /\ Goto("handler")
    /\ UNCHANGED <<kern, spec, start, dir, unflushed, file, op, pending, held, mem, hist>>

(* Mutant: the handler starts one slot late.                               *)
HandlerSkips ==
    /\ At("handler")
    /\ LET later == {s \in Slots : s > fr.slot + 1 /\ Armed(s)}
           s     == CHOOSE k \in later : \A m \in later : k <= m
       IN  IF later = {} THEN Goto("killed") /\ UNCHANGED fr
           ELSE pending_remove(s, FALSE, "handler")
    /\ UNCHANGED <<kern, spec, start, dir, unflushed, file, op, pending, held, sig,
                   mem, hist>>

(* The handler's loop: the next armed slot, or raise() and death.          *)
HandlerStep ==
    /\ At("handler")
    /\ LET later == {s \in Slots : s > fr.slot /\ Armed(s)}
           s     == CHOOSE k \in later : \A m \in later : k <= m
       IN  IF later = {} THEN Goto("killed") /\ UNCHANGED fr
           ELSE pending_remove(s, FALSE, "handler")
    /\ UNCHANGED <<kern, spec, start, dir, unflushed, file, op, pending, held, sig,
                   mem, hist>>

PendingStep == RemoveLstat \/ RemoveUnlink \/ SignalTaken \/ HandlerStep
=============================================================================
