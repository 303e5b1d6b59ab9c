------------------------------ MODULE FlushPool ------------------------------
(***************************************************************************)
(* The thread pool of src/src/flush.c: flush_fds() spreads the fsync of    *)
(* one array of descriptors over worker threads that stay alive between    *)
(* calls, and flush_stop() ends them.                                      *)
(*                                                                         *)
(* Everything the threads share is guarded by job_lock, so each stretch of *)
(* code from pthread_mutex_lock (or the return of a pthread_cond_wait) to  *)
(* the next pthread_mutex_unlock (or pthread_cond_wait) is one action; the *)
(* fsync, which runs unlocked, is an action of its own.  A thread that     *)
(* waits on a condition may wake without having been signalled.            *)
(***************************************************************************)
EXTENDS Integers

CONSTANTS Batch,     \* NEWFILE_BATCH: descriptors of one call, threads of the pool
          Limit,     \* online cpus times FLUSHES_PER_CPU
          MaxCalls   \* bound: calls of flush_fds() in one run

ASSUME PoolAssumption == /\ Batch \in Nat \ {0}
                         /\ Limit \in Nat \ {0}
                         /\ MaxCalls \in Nat

VARIABLES main,         \* where the main thread is
          calls,        \* calls of flush_fds() begun
          size, dirOf,  \* the arguments n and dir of each call
          errs,         \* the errs array of each call, on its caller's stack
          job,          \* struct flush_job; fds and errs point into job.call
          worker,       \* each thread: where it is, and flush_take()'s locals
          nworkers, grow_failed, stopping,
          synced        \* history: what fsync returned for each descriptor

vars == <<main, calls, size, dirOf, errs, job, worker, nworkers, grow_failed,
          stopping, synced>>

Index    == 1..Batch
Workers  == 1..Batch
Call     == 1..MaxCalls
Unset    == "unset"                      \* an element nobody has written
Outcome  == {"ok", "einval", "eio"}      \* fsync: done, not supported here, failed
Arrays   == [Index -> Outcome \cup {Unset}]

\* The program counters at which flush_fds() has been called and not returned.
InCall == {"seq", "grow", "post", "wait", "woken"}

Job    == [call : 0..MaxCalls, n : 0..Batch, next : 0..Batch, done : 0..Batch,
           dir : BOOLEAN]
Thread == [pc : {"none", "new", "waiting", "woken", "sync", "write", "gone"},
           i : 0..Batch, call : 0..MaxCalls, dir : BOOLEAN,
           err : Outcome]

ThreadAt(pc) == [pc |-> pc, i |-> 0, call |-> 0, dir |-> FALSE, err |-> "ok"]

Init ==
    /\ main = "idle"
    /\ calls = 0
    /\ size = [c \in Call |-> 0]
    /\ dirOf = [c \in Call |-> FALSE]
    /\ errs = [c \in Call |-> [i \in Index |-> Unset]]
    /\ job = [call |-> 0, n |-> 0, next |-> 0, done |-> 0, dir |-> FALSE]
    /\ worker = [w \in Workers |-> ThreadAt("none")]
    /\ nworkers = 0
    /\ grow_failed = FALSE
    /\ stopping = FALSE
    /\ synced = [c \in Call |-> [i \in Index |-> Unset]]

-----------------------------------------------------------------------------
(* Mutant: EINVAL is forgiven for files as well.                           *)
sync_err_any(err, dir) == IF err = "einval" THEN "ok" ELSE err

(* A directory that cannot be flushed because its filesystem does not do   *)
(* so is no failure.                                                       *)
sync_err(err, dir) == IF dir /\ err = "einval" THEN "ok" ELSE err

(* pthread_cond_broadcast(&job_ready): every waiting worker may go on.     *)
Broadcast(ws) ==
    [w \in Workers |-> IF ws[w].pc = "waiting" THEN [ws[w] EXCEPT !.pc = "woken"]
                       ELSE ws[w]]

flush_want(n) == IF n < Limit THEN n ELSE Limit

(* The caller's side of flush_fds(): one descriptor, or none, is flushed   *)
(* by the main thread itself.                                              *)
flush_fds(n, dir) ==
    /\ main = "idle"
    /\ calls < MaxCalls
    /\ calls' = calls + 1
    /\ size' = [size EXCEPT ![calls + 1] = n]
    /\ dirOf' = [dirOf EXCEPT ![calls + 1] = dir]
    /\ main' = IF n > 1 THEN "grow" ELSE "seq"
    /\ UNCHANGED <<errs, job, worker, nworkers, grow_failed, stopping, synced>>

(* One pthread_create of flush_grow().  The thread starts at once.         *)
GrowOne ==
    /\ main = "grow"
    /\ ~grow_failed
    /\ nworkers < flush_want(size[calls])
    /\ \/ /\ worker' = [worker EXCEPT ![nworkers + 1] = ThreadAt("new")]
          /\ nworkers' = nworkers + 1
          /\ UNCHANGED grow_failed
       \/ /\ grow_failed' = TRUE
          /\ UNCHANGED <<worker, nworkers>>
    /\ UNCHANGED <<main, calls, size, dirOf, errs, job, stopping, synced>>

(* flush_grow() returns; without a single worker the call is sequential.   *)
GrowDone ==
    /\ main = "grow"
    /\ grow_failed \/ nworkers >= flush_want(size[calls])
    /\ main' = IF nworkers = 0 THEN "seq" ELSE "post"
    /\ UNCHANGED <<calls, size, dirOf, errs, job, worker, nworkers, grow_failed,
                   stopping, synced>>

(* The sequential loop: errs[i] = sync_one(fds[i], dir).                   *)
SeqOne ==
    /\ main = "seq"
    /\ \E i \in 1..size[calls], r \in Outcome :
         /\ errs[calls][i] = Unset
         /\ \A j \in 1..(i - 1) : errs[calls][j] # Unset
         /\ errs' = [errs EXCEPT ![calls][i] = sync_err(r, dirOf[calls])]
         /\ synced' = [synced EXCEPT ![calls][i] = r]
    /\ UNCHANGED <<main, calls, size, dirOf, job, worker, nworkers, grow_failed,
                   stopping>>

SeqReturn ==
    /\ main = "seq"
    /\ \A i \in 1..size[calls] : errs[calls][i] # Unset
    /\ main' = "idle"
    /\ UNCHANGED <<calls, size, dirOf, errs, job, worker, nworkers, grow_failed,
                   stopping, synced>>

(* Mutant: the job is posted without a broadcast.                          *)
PostQuiet ==
    /\ main = "post"
    /\ job' = [call |-> calls, n |-> size[calls], next |-> 0, done |-> 0,
               dir |-> dirOf[calls]]
    /\ main' = "wait"
    /\ UNCHANGED <<calls, size, dirOf, errs, worker, nworkers, grow_failed, stopping,
                   synced>>

(* flush_threaded() posts the job and waits on job_done.                   *)
Post ==
    /\ main = "post"
    /\ job' = [call |-> calls, n |-> size[calls], next |-> 0, done |-> 0,
               dir |-> dirOf[calls]]
    /\ worker' = Broadcast(worker)
    /\ main' = "wait"
    /\ UNCHANGED <<calls, size, dirOf, errs, nworkers, grow_failed, stopping,
                   synced>>

(* pthread_cond_wait(&job_done) returned: wait again, or take the job down *)
(* and return.                                                             *)
WaitAgain ==
    /\ main = "woken"
    /\ job.done < job.n
    /\ main' = "wait"
    /\ UNCHANGED <<calls, size, dirOf, errs, job, worker, nworkers, grow_failed,
                   stopping, synced>>

(* Mutant: the call returns when all is taken, not when all is done.       *)
ReturnTaken ==
    /\ main = "woken"
    /\ job.next >= job.n
    /\ job' = [job EXCEPT !.n = 0, !.next = 0]
    /\ main' = "idle"
    /\ UNCHANGED <<calls, size, dirOf, errs, worker, nworkers, grow_failed,
                   stopping, synced>>

ThreadedReturn ==
    /\ main = "woken"
    /\ job.done >= job.n
    /\ job' = [job EXCEPT !.n = 0, !.next = 0]
    /\ main' = "idle"
    /\ UNCHANGED <<calls, size, dirOf, errs, worker, nworkers, grow_failed,
                   stopping, synced>>

(* Mutant: sleeping workers are not told to stop.                          *)
StopQuiet ==
    /\ main = "idle"
    /\ stopping' = TRUE
    /\ main' = "join"
    /\ UNCHANGED <<calls, size, dirOf, errs, job, worker, nworkers, grow_failed, synced>>

(* flush_stop(): tell the workers, join them all, and leave the pool as it *)
(* was before the first call.                                              *)
flush_stop ==
    /\ main = "idle"
    /\ stopping' = TRUE
    /\ worker' = Broadcast(worker)
    /\ main' = "join"
    /\ UNCHANGED <<calls, size, dirOf, errs, job, nworkers, grow_failed, synced>>

Joined ==
    /\ main = "join"
    /\ \A w \in 1..nworkers : worker[w].pc = "gone"
    /\ worker' = [w \in Workers |-> ThreadAt("none")]
    /\ nworkers' = 0
    /\ grow_failed' = FALSE
    /\ stopping' = FALSE
    /\ main' = "end"
    /\ UNCHANGED <<calls, size, dirOf, errs, job, synced>>

-----------------------------------------------------------------------------
(* The head of flush_worker()'s loop, entered with the lock: leave, wait,  *)
(* or take the next descriptor of job j and unlock.                        *)
WorkerLoop(t, j) ==
    IF stopping THEN [t EXCEPT !.pc = "gone"]
    ELSE IF j.next >= j.n THEN [t EXCEPT !.pc = "waiting"]
    ELSE [t EXCEPT !.pc = "sync", !.i = j.next + 1, !.call = j.call,
                   !.dir = j.dir]

(* Mutant: two workers may take one index.                                 *)
TakenTwice(j) == j

(* Mutant: next runs past n.                                               *)
TakenPast(j) == [j EXCEPT !.next = @ + 1]

Taken(j) == IF stopping \/ j.next >= j.n THEN j ELSE [j EXCEPT !.next = @ + 1]

(* A worker gets the lock, for the first time or after a wait.             *)
WorkerRun(w) ==
    /\ worker[w].pc \in {"new", "woken"}
    /\ worker' = [worker EXCEPT ![w] = WorkerLoop(@, job)]
    /\ job' = Taken(job)
    /\ UNCHANGED <<main, calls, size, dirOf, errs, nworkers, grow_failed,
                   stopping, synced>>

(* flush_take(), unlocked: sync_one() on the descriptor taken.  A retry    *)
(* after EINTR is invisible.                                               *)
WorkerSync(w) ==
    /\ worker[w].pc = "sync"
    /\ \E r \in Outcome :
         /\ worker' = [worker EXCEPT ![w].pc = "write",
                                     ![w].err = sync_err(r, worker[w].dir)]
         /\ synced' = [synced EXCEPT ![worker[w].call][worker[w].i] = r]
    /\ UNCHANGED <<main, calls, size, dirOf, errs, job, nworkers, grow_failed,
                   stopping>>

(* flush_take(), locked again: the result goes where job.errs points now,  *)
(* the last one wakes the main thread, and the loop goes round.            *)
WorkerWrite(w) ==
    LET j == [job EXCEPT !.done = @ + 1] IN
    /\ worker[w].pc = "write"
    /\ errs' = [errs EXCEPT ![job.call][worker[w].i] = worker[w].err]
    /\ main' = IF j.done = j.n /\ main = "wait" THEN "woken" ELSE main
    /\ worker' = [worker EXCEPT ![w] = WorkerLoop(@, j)]
    /\ job' = Taken(j)
    /\ UNCHANGED <<calls, size, dirOf, nworkers, grow_failed, stopping, synced>>

(* Wake-ups nobody asked for.                                              *)
SpuriousWorker(w) ==
    /\ worker[w].pc = "waiting"
    /\ worker' = [worker EXCEPT ![w].pc = "woken"]
    /\ UNCHANGED <<main, calls, size, dirOf, errs, job, nworkers, grow_failed,
                   stopping, synced>>

SpuriousMain ==
    /\ main = "wait"
    /\ main' = "woken"
    /\ UNCHANGED <<calls, size, dirOf, errs, job, worker, nworkers, grow_failed,
                   stopping, synced>>

-----------------------------------------------------------------------------
MainInCall == GrowOne \/ GrowDone \/ SeqOne \/ SeqReturn \/ Post \/ WaitAgain
              \/ ThreadedReturn \/ Joined

MainStep == \/ \E n \in 0..Batch, dir \in BOOLEAN : flush_fds(n, dir)
            \/ MainInCall
            \/ flush_stop

WorkerStep(w) == WorkerRun(w) \/ WorkerSync(w) \/ WorkerWrite(w)

Done == main = "end" /\ UNCHANGED vars

Next == \/ MainStep
        \/ \E w \in Workers : WorkerStep(w) \/ SpuriousWorker(w)
        \/ SpuriousMain
        \/ Done

Spec == Init /\ [][Next]_vars

(* Each thread that can run is eventually scheduled, and a mutex that is   *)
(* always released is eventually had; nothing promises a spurious wake-up. *)
FairSpec == /\ Spec
            /\ WF_vars(MainInCall)
            /\ WF_vars(flush_stop)
            /\ \A w \in Workers : WF_vars(WorkerStep(w))

-----------------------------------------------------------------------------
TypeOK ==
    /\ main \in InCall \cup {"idle", "join", "end"}
    /\ calls \in 0..MaxCalls
    /\ main \in InCall => calls > 0
    /\ size \in [Call -> 0..Batch]
    /\ dirOf \in [Call -> BOOLEAN]
    /\ errs \in [Call -> Arrays]
    /\ job \in Job
    /\ worker \in [Workers -> Thread]
    /\ nworkers \in 0..Batch
    /\ grow_failed \in BOOLEAN
    /\ stopping \in BOOLEAN
    /\ synced \in [Call -> Arrays]

Returned(c) == c < calls \/ (c = calls /\ main \notin InCall)

(* When flush_fds() returns, every element of errs holds what fsync        *)
(* returned for the descriptor of the same index, read with this call's    *)
(* own dir flag: flush_ops() and flush_set_run() act on errs[i] alone, so  *)
(* an element never written, or written from another call or another       *)
(* index, would let an unflushed file count as safe.                       *)
ReturnComplete ==
    \A c \in Call : Returned(c) =>
        \A i \in 1..size[c] :
            /\ synced[c][i] # Unset
            /\ errs[c][i] = sync_err(synced[c][i], dirOf[c])

(* errs lives on the stack of flush_ops() or flush_set_run(): no worker    *)
(* may write it once flush_fds() has returned to them, and none may touch  *)
(* the array of a call that is not the running one.                        *)
NoWriteAfterReturn ==
    [][\A c \in Call : errs'[c] # errs[c] => c = calls /\ main \in InCall]_vars

(* No descriptor is flushed twice or by two workers: job.next hands out    *)
(* each index once even with more wake-ups than descriptors.               *)
SyncedOnce ==
    [][\A c \in Call, i \in Index :
          synced[c][i] # Unset => synced'[c][i] = synced[c][i]]_vars

(* Every call of flush_fds() returns and flush_stop() ends: no wake-up is  *)
(* lost between the workers' wait on job_ready, the job posted behind      *)
(* their back, and the main thread's wait on job_done.                     *)
CallsReturn == \A c \in Call : (calls = c /\ main \in InCall) ~> Returned(c)

(* Once flush_stop() has told the workers to stop, every one of them is     *)
(* joined and the pool is down.                                            *)
Ends == (main = "join") ~> (main = "end")

-----------------------------------------------------------------------------
(* What callers rely on: see FlushFds.  The results of a call are out when *)
(* it has returned.                                                        *)
Contract == INSTANCE FlushFds WITH
    busy <- main \in InCall,
    open <- main \notin {"join", "end"},
    results <- [c \in Call |-> IF Returned(c) THEN errs[c]
                               ELSE [i \in Index |-> Unset]]

(* The pool, with its threads, its lock and its conditions, does nothing   *)
(* that one thread calling fsync in some order could not do.               *)
ImplementsFlushFds == Contract!Spec
=============================================================================
