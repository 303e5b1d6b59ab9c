------------------------------- MODULE FlushFds -------------------------------
(***************************************************************************)
(* What flush_fds() of src/src/flush.c promises its callers ("errs[i] gets *)
(* 0 or the error for fds[i]"), whatever threads do the work: between the  *)
(* call and its return each descriptor is flushed once, in any order, and  *)
(* the results appear together, at the return.  After flush_stop() no      *)
(* call is made.                                                           *)
(***************************************************************************)
EXTENDS Integers

CONSTANTS Batch, MaxCalls

VARIABLES busy,         \* a call is running
          open,         \* flush_stop() has not been called
          calls, size, dirOf,
          synced,       \* what fsync returned for each descriptor
          results       \* what each call gave its caller

fvars == <<busy, open, calls, size, dirOf, synced, results>>

CallIds == 1..MaxCalls
Nothing == [i \in 1..Batch |-> "unset"]

Init ==
    /\ busy = FALSE
    /\ open = TRUE
    /\ calls = 0
    /\ size = [c \in CallIds |-> 0]
    /\ dirOf = [c \in CallIds |-> FALSE]
    /\ synced = [c \in CallIds |-> Nothing]
    /\ results = [c \in CallIds |-> Nothing]

Begin(n, dir) ==
    /\ open
    /\ ~busy
    /\ calls < MaxCalls
    /\ busy' = TRUE
    /\ calls' = calls + 1
    /\ size' = [size EXCEPT ![calls + 1] = n]
    /\ dirOf' = [dirOf EXCEPT ![calls + 1] = dir]
    /\ UNCHANGED <<open, synced, results>>

Flush(i, r) ==
    /\ busy
    /\ i <= size[calls]
    /\ synced[calls][i] = "unset"
    /\ synced' = [synced EXCEPT ![calls][i] = r]
    /\ UNCHANGED <<busy, open, calls, size, dirOf, results>>

Return ==
    /\ busy
    /\ \A i \in 1..size[calls] : synced[calls][i] # "unset"
    /\ busy' = FALSE
    /\ results' = [results EXCEPT ![calls] =
                      [i \in 1..Batch |->
                         IF dirOf[calls] /\ synced[calls][i] = "einval" THEN "ok"
                         ELSE synced[calls][i]]]
    /\ UNCHANGED <<open, calls, size, dirOf, synced>>

Stop ==
    /\ open
    /\ ~busy
    /\ open' = FALSE
    /\ UNCHANGED <<busy, calls, size, dirOf, synced, results>>

Next ==
    \/ \E n \in 0..Batch, dir \in BOOLEAN : Begin(n, dir)
    \/ \E i \in 1..Batch, r \in {"ok", "einval", "eio"} : Flush(i, r)
    \/ Return
    \/ Stop

Spec == Init /\ [][Next]_fvars
=============================================================================
