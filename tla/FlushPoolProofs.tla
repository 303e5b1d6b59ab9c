--------------------------- MODULE FlushPoolProofs ---------------------------
(***************************************************************************)
(* For every pool size, cpu limit and number of calls: the results of      *)
(* flush_fds() are complete and its own, no descriptor is flushed twice,   *)
(* nothing is written into a returned call's array, and the pool           *)
(* implements the abstract FlushFds.                                       *)
(***************************************************************************)
EXTENDS FlushPool, FiniteSets, FiniteSetTheorems, TLAPS

Threaded == main \in {"wait", "woken"}
Busy(w)  == worker[w].pc \in {"sync", "write"}
Filled   == {i \in 1..job.n : errs[job.call][i] # Unset}

(* Outside a threaded call the job is empty and no worker is at work.      *)
JobInv ==
    /\ job.next <= job.n
    /\ Threaded => /\ job.call = calls
                   /\ job.n = size[calls]
                   /\ job.dir = dirOf[calls]
                   /\ job.done = Cardinality(Filled)
    /\ ~Threaded => job.n = 0 /\ \A w \in Workers : ~Busy(w)

(* A worker at work holds an index handed out and not yet written, alone.  *)
WorkerInv ==
    /\ \A w \in Workers : Busy(w) =>
         /\ worker[w].call = job.call
         /\ worker[w].dir = job.dir
         /\ worker[w].i \in 1..job.next
         /\ errs[job.call][worker[w].i] = Unset
    /\ \A w \in Workers : worker[w].pc = "sync" =>
         synced[job.call][worker[w].i] = Unset
    /\ \A w \in Workers : worker[w].pc = "write" =>
         /\ synced[job.call][worker[w].i] # Unset
         /\ worker[w].err = sync_err(synced[job.call][worker[w].i], job.dir)
    /\ \A v, w \in Workers : Busy(v) /\ Busy(w) /\ v # w =>
         worker[v].i # worker[w].i

(* What is written is what fsync returned; what is not handed out is not   *)
(* written.                                                                *)
ArrayInv ==
    /\ \A c \in Call, i \in Index : errs[c][i] # Unset =>
         /\ synced[c][i] # Unset
         /\ errs[c][i] = sync_err(synced[c][i], dirOf[c])
    /\ \A c \in Call : c > calls \/ (c = calls /\ main \in {"grow", "post"}) =>
         \A i \in Index : errs[c][i] = Unset /\ synced[c][i] = Unset
    /\ main = "seq" => \A i \in Index : errs[calls][i] = Unset => synced[calls][i] = Unset
    /\ Threaded => \A i \in Index : i > job.next =>
         errs[calls][i] = Unset /\ synced[calls][i] = Unset

(* The inductive invariant. *)
PoolInv == TypeOK /\ JobInv /\ WorkerInv /\ ArrayInv /\ ReturnComplete

-----------------------------------------------------------------------------
(* sync_err() maps outcomes to outcomes.                                   *)
LEMMA SyncErrType ==
    ASSUME NEW r \in Outcome, NEW d \in BOOLEAN
    PROVE  sync_err(r, d) \in Outcome /\ sync_err(r, d) # Unset
BY DEF sync_err, Outcome, Unset

(* The head of the worker's loop keeps the types of the thread and the job *)
(* and takes an index only if one is left.                                 *)
LEMMA LoopType ==
    ASSUME NEW t \in Thread, NEW j \in Job, stopping \in BOOLEAN
    PROVE  WorkerLoop(t, j) \in Thread /\ Taken(j) \in Job
<1>1. CASE stopping
  BY <1>1 DEF WorkerLoop, Taken, Thread
<1>2. CASE ~stopping /\ j.next >= j.n
  BY <1>2 DEF WorkerLoop, Taken, Thread, Job
<1>3. CASE ~stopping /\ ~(j.next >= j.n)
  <2>1. j.next \in Nat /\ j.n \in 0..Batch /\ j.next < j.n
    BY <1>3, PoolAssumption DEF Job
  <2>2. j.next + 1 \in 0..Batch
    BY <2>1, PoolAssumption
  <2>3. Taken(j) = [j EXCEPT !.next = j.next + 1]
    BY <1>3 DEF Taken
  <2>4. WorkerLoop(t, j) = [t EXCEPT !.pc = "sync", !.i = j.next + 1,
                                     !.call = j.call, !.dir = j.dir]
    BY <1>3 DEF WorkerLoop
  <2>5. Taken(j) \in Job
    BY <2>2, <2>3 DEF Job
  <2>6. WorkerLoop(t, j) \in Thread
    BY <2>2, <2>4 DEF Job, Thread
  <2> QED BY <2>5, <2>6
<1> QED BY <1>1, <1>2, <1>3

(* Waking the waiting workers changes no thread's type and nobody's work.  *)
LEMMA BroadcastKeeps ==
    ASSUME worker \in [Workers -> Thread]
    PROVE  /\ Broadcast(worker) \in [Workers -> Thread]
           /\ \A w \in Workers : worker[w].pc # "waiting"
                                  => Broadcast(worker)[w] = worker[w]
           /\ \A w \in Workers : worker[w].pc = "waiting"
                                  => Broadcast(worker)[w].pc = "woken"
BY DEF Broadcast, Thread

(* The initial state satisfies the invariant.                              *)
LEMMA PoolInit == Init => PoolInv
<1> SUFFICES ASSUME Init PROVE PoolInv
  OBVIOUS
<1> USE PoolAssumption
<1>1. TypeOK
  <2>1. main \in {"idle"} /\ main \notin InCall /\ calls \in 0..MaxCalls /\ nworkers \in 0..Batch
    BY DEF Init, InCall
  <2>2. size \in [Call -> 0..Batch] /\ dirOf \in [Call -> BOOLEAN]
    BY DEF Init
  <2>3. errs \in [Call -> Arrays] /\ synced \in [Call -> Arrays]
    BY DEF Init, Arrays
  <2>4. job \in Job
    BY DEF Init, Job
  <2>5. worker \in [Workers -> Thread]
    BY DEF Init, ThreadAt, Thread, Outcome
  <2>6. grow_failed \in BOOLEAN /\ stopping \in BOOLEAN
    BY Zenon DEF Init
  <2> QED BY <2>1, <2>2, <2>3, <2>4, <2>5, <2>6 DEF TypeOK
<1>2. \A w \in Workers : worker[w].pc = "none"
  BY DEF Init, ThreadAt
<1>3. JobInv
  BY <1>2 DEF Init, JobInv, Threaded, Busy
<1>4. WorkerInv
  BY <1>2 DEF WorkerInv, Busy
<1>5. ArrayInv
  BY DEF Init, ArrayInv, Threaded, Call
<1>6. ReturnComplete
  BY DEF Init, ReturnComplete, Returned, Call
<1> QED BY <1>1, <1>3, <1>4, <1>5, <1>6 DEF PoolInv

(* A new call of flush_fds(). *)
LEMMA StepCall ==
    ASSUME PoolInv, NEW n \in 0..Batch, NEW dir \in BOOLEAN, flush_fds(n, dir)
    PROVE  PoolInv'
<1> USE PoolAssumption DEF PoolInv
<1>1. TypeOK'
  BY DEF TypeOK, InCall, Call, flush_fds
<1>2. JobInv'
  BY DEF TypeOK, JobInv, flush_fds, Threaded, Busy, InCall, Filled
<1>3. WorkerInv'
  BY DEF TypeOK, JobInv, WorkerInv, flush_fds, Threaded, Busy
<1>4. ArrayInv'
  BY DEF TypeOK, ArrayInv, flush_fds, Threaded, InCall, Call
<1>5. ReturnComplete'
  BY DEF TypeOK, ReturnComplete, Returned, flush_fds, InCall, Call
<1> QED BY <1>1, <1>2, <1>3, <1>4, <1>5

(* flush_grow() makes one thread, or cannot. *)
LEMMA StepGrow ==
    ASSUME PoolInv, GrowOne
    PROVE  PoolInv'
<1> USE PoolAssumption DEF PoolInv
<1>1. /\ main = "grow"
      /\ UNCHANGED <<main, calls, size, dirOf, errs, job, stopping, synced>>
      /\ nworkers + 1 \in Workers
  BY DEF GrowOne, TypeOK, Call, InCall, flush_want, Workers
<1>2. /\ worker' \in [Workers -> Thread]
      /\ \A w \in Workers : Busy(w)' => Busy(w) /\ worker'[w] = worker[w]
  <2> DEFINE fresh == ThreadAt("new")
  <2>1. fresh \in Thread /\ fresh.pc = "new"
    BY DEF ThreadAt, Thread, Outcome
  <2>2. CASE worker' = [worker EXCEPT ![nworkers + 1] = fresh]
    <3>1. worker' \in [Workers -> Thread]
      BY <1>1, <2>1, <2>2 DEF TypeOK
    <3>2. \A w \in Workers : w # nworkers + 1 => worker'[w] = worker[w]
      BY <2>2 DEF TypeOK
    <3>3. worker'[nworkers + 1].pc = "new"
      BY <1>1, <2>1, <2>2 DEF TypeOK
    <3> QED BY <1>1, <3>1, <3>2, <3>3 DEF Busy
  <2>3. CASE UNCHANGED worker
    BY <2>3 DEF TypeOK, Busy
  <2> QED BY <2>2, <2>3 DEF GrowOne
<1>3. nworkers' \in 0..Batch /\ grow_failed' \in BOOLEAN
  <2>1. nworkers' \in 0..Batch
    BY <1>1 DEF GrowOne, TypeOK, Workers
  <2>2. grow_failed' = grow_failed \/ grow_failed' = TRUE
    BY Zenon DEF GrowOne
  <2>3. grow_failed' \in BOOLEAN
    BY Zenon, <2>2 DEF TypeOK
  <2> QED BY <2>1, <2>3
<1>4. TypeOK'
  BY <1>1, <1>2, <1>3 DEF TypeOK
<1>5. JobInv'
  BY <1>1, <1>2 DEF JobInv, Threaded, Filled
<1>6. WorkerInv'
  BY <1>1, <1>2 DEF WorkerInv, JobInv, Threaded, Busy
<1>7. ArrayInv' /\ ReturnComplete'
  BY <1>1 DEF ArrayInv, ReturnComplete, Returned, Threaded
<1> QED BY <1>4, <1>5, <1>6, <1>7

(* flush_grow() is done. *)
LEMMA StepGrowDone ==
    ASSUME PoolInv, GrowDone
    PROVE  PoolInv'
<1> USE PoolAssumption DEF PoolInv
<1>1. TypeOK'
  BY DEF TypeOK, InCall, Call, GrowDone
<1>2. JobInv'
  BY DEF TypeOK, JobInv, GrowDone, Threaded, Busy, InCall, Filled
<1>3. WorkerInv'
  BY DEF TypeOK, JobInv, WorkerInv, GrowDone, Threaded, Busy
<1>4. ArrayInv'
  BY DEF TypeOK, ArrayInv, GrowDone, Threaded, InCall, Call
<1>5. ReturnComplete'
  BY DEF TypeOK, ReturnComplete, Returned, GrowDone, InCall, Call
<1> QED BY <1>1, <1>2, <1>3, <1>4, <1>5

(* The main thread flushes one descriptor. *)
LEMMA StepSeq ==
    ASSUME PoolInv, SeqOne
    PROVE  PoolInv'
<1> USE PoolAssumption DEF PoolInv
<1>1. PICK i \in 1..size[calls], r \in Outcome :
        /\ main = "seq"
        /\ errs[calls][i] = Unset
        /\ errs' = [errs EXCEPT ![calls][i] = sync_err(r, dirOf[calls])]
        /\ synced' = [synced EXCEPT ![calls][i] = r]
        /\ UNCHANGED <<main, calls, size, dirOf, job, worker, nworkers, grow_failed,
                       stopping>>
  BY DEF SeqOne
<1>2. i \in Index /\ calls \in Call /\ dirOf[calls] \in BOOLEAN
  BY <1>1 DEF TypeOK, Index, Call, InCall
<1>3. sync_err(r, dirOf[calls]) \in Outcome /\ sync_err(r, dirOf[calls]) # Unset
  BY <1>2, SyncErrType
<1>4. errs' \in [Call -> Arrays] /\ synced' \in [Call -> Arrays]
  BY <1>1, <1>2, <1>3 DEF TypeOK, Arrays
<1>5. TypeOK'
  BY <1>1, <1>4 DEF TypeOK
<1>6. JobInv' /\ WorkerInv'
  BY <1>1 DEF JobInv, WorkerInv, Threaded, Busy
<1>7. r # Unset
  BY DEF Outcome, Unset
<1>8. ArrayInv'
  BY <1>1, <1>2, <1>3, <1>7 DEF ArrayInv, Threaded, TypeOK, Arrays
<1>9. ReturnComplete'
  BY <1>1, <1>2 DEF ReturnComplete, Returned, InCall, TypeOK, Arrays, Call
<1> QED BY <1>5, <1>6, <1>8, <1>9

(* The sequential loop ends. *)
LEMMA StepSeqReturn ==
    ASSUME PoolInv, SeqReturn
    PROVE  PoolInv'
<1> USE PoolAssumption DEF PoolInv
<1>1. TypeOK'
  BY DEF TypeOK, InCall, Call, SeqReturn
<1>2. JobInv'
  BY DEF TypeOK, JobInv, SeqReturn, Threaded, Busy, InCall, Filled
<1>3. WorkerInv'
  BY DEF TypeOK, JobInv, WorkerInv, SeqReturn, Threaded, Busy
<1>4. ArrayInv'
  BY DEF TypeOK, ArrayInv, SeqReturn, Threaded, InCall, Call
<1>5. ReturnComplete'
  BY DEF TypeOK, ReturnComplete, Returned, SeqReturn, InCall, Call, ArrayInv, Index
<1> QED BY <1>1, <1>2, <1>3, <1>4, <1>5

(* The job is posted. *)
LEMMA StepPost ==
    ASSUME PoolInv, Post
    PROVE  PoolInv'
<1> USE PoolAssumption DEF PoolInv
<1>1. /\ main = "post"
      /\ main' = "wait"
      /\ job' = [call |-> calls, n |-> size[calls], next |-> 0, done |-> 0,
                 dir |-> dirOf[calls]]
      /\ worker' = Broadcast(worker)
      /\ UNCHANGED <<calls, size, dirOf, errs, nworkers, grow_failed, stopping,
                     synced>>
      /\ calls \in Call
  BY DEF Post, TypeOK, InCall, Call
<1>2. \A i \in Index : errs[calls][i] = Unset /\ synced[calls][i] = Unset
  BY <1>1 DEF ArrayInv
<1>3. job' \in Job
  BY <1>1 DEF Job, TypeOK, Call
<1>4. worker' \in [Workers -> Thread] /\ \A w \in Workers : ~Busy(w)'
  BY <1>1, BroadcastKeeps DEF JobInv, Threaded, Busy, TypeOK
<1>5. TypeOK'
  BY <1>1, <1>3, <1>4 DEF TypeOK, InCall
<1>6. Filled' = {}
  BY <1>1, <1>2 DEF Filled, TypeOK, Index
<1>7. JobInv'
  BY <1>1, <1>4, <1>6, FS_EmptySet DEF JobInv, Threaded, TypeOK
<1>8. WorkerInv'
  BY <1>4 DEF WorkerInv, Busy
<1>9. ArrayInv'
  BY <1>1, <1>2 DEF ArrayInv, Threaded
<1>10. ReturnComplete'
  BY <1>1 DEF ReturnComplete, Returned, InCall
<1> QED BY <1>5, <1>7, <1>8, <1>9, <1>10

(* The main thread waits on. *)
LEMMA StepWaitAgain ==
    ASSUME PoolInv, WaitAgain
    PROVE  PoolInv'
<1> USE PoolAssumption DEF PoolInv
<1>1. TypeOK'
  BY DEF TypeOK, InCall, Call, WaitAgain
<1>2. JobInv'
  BY DEF TypeOK, JobInv, WaitAgain, Threaded, Busy, InCall, Filled
<1>3. WorkerInv'
  BY DEF TypeOK, JobInv, WorkerInv, WaitAgain, Threaded, Busy
<1>4. ArrayInv'
  BY DEF TypeOK, ArrayInv, WaitAgain, Threaded, InCall, Call
<1>5. ReturnComplete'
  BY DEF TypeOK, ReturnComplete, Returned, WaitAgain, InCall, Call
<1> QED BY <1>1, <1>2, <1>3, <1>4, <1>5

(* The main thread wakes for nothing. *)
LEMMA StepSpuriousMain ==
    ASSUME PoolInv, SpuriousMain
    PROVE  PoolInv'
<1> USE PoolAssumption DEF PoolInv
<1>1. TypeOK'
  BY DEF TypeOK, InCall, Call, SpuriousMain
<1>2. JobInv'
  BY DEF TypeOK, JobInv, SpuriousMain, Threaded, Busy, InCall, Filled
<1>3. WorkerInv'
  BY DEF TypeOK, JobInv, WorkerInv, SpuriousMain, Threaded, Busy
<1>4. ArrayInv'
  BY DEF TypeOK, ArrayInv, SpuriousMain, Threaded, InCall, Call
<1>5. ReturnComplete'
  BY DEF TypeOK, ReturnComplete, Returned, SpuriousMain, InCall, Call
<1> QED BY <1>1, <1>2, <1>3, <1>4, <1>5

(* The threaded call returns. *)
LEMMA StepThreadedReturn ==
    ASSUME PoolInv, ThreadedReturn
    PROVE  PoolInv'
<1> USE PoolAssumption DEF PoolInv
<1>1. /\ main = "woken"
      /\ main' = "idle"
      /\ job.done >= job.n
      /\ job' = [job EXCEPT !.n = 0, !.next = 0]
      /\ UNCHANGED <<calls, size, dirOf, errs, worker, nworkers, grow_failed,
                     stopping, synced>>
      /\ calls \in Call
  BY DEF ThreadedReturn, TypeOK, InCall, Call
<1>2. job \in Job /\ job.n \in 0..Batch /\ job.next \in 0..Batch
  BY DEF TypeOK, Job
<1>3. Filled = 1..job.n
  <2>1. IsFiniteSet(1..job.n) /\ Cardinality(1..job.n) = job.n
    <3>1. 1 \in Int /\ job.n \in Int
      BY <1>2
    <3>2. IsFiniteSet(1..job.n)
          /\ Cardinality(1..job.n) = IF 1 > job.n THEN 0 ELSE job.n - 1 + 1
      BY <3>1, FS_Interval
    <3> QED BY <1>2, <3>2
  <2>2. Filled \subseteq 1..job.n
    BY DEF Filled
  <2>3. Cardinality(Filled) >= job.n
    BY <1>1 DEF JobInv, Threaded
  <2>4. IsFiniteSet(Filled) /\ Cardinality(Filled) <= Cardinality(1..job.n)
        /\ (Cardinality(Filled) = Cardinality(1..job.n) => Filled = 1..job.n)
    BY <2>1, <2>2, FS_Subset
  <2>5. Cardinality(Filled) \in Nat
    BY <2>4, FS_CardinalityType
  <2> QED BY <1>2, <2>1, <2>3, <2>4, <2>5
<1>4. \A w \in Workers : ~Busy(w)
  BY <1>2, <1>3 DEF WorkerInv, JobInv, Filled
<1>5. job' \in Job /\ job'.n = 0 /\ job'.next = 0
  <2>1. job' = [call |-> job.call, n |-> 0, next |-> 0, done |-> job.done,
                dir |-> job.dir]
    BY <1>1, <1>2 DEF Job
  <2> QED BY <1>2, <2>1 DEF Job
<1>6. TypeOK'
  BY <1>1, <1>5 DEF TypeOK, InCall
<1>7. JobInv' /\ WorkerInv'
  BY <1>1, <1>4, <1>5 DEF JobInv, WorkerInv, Threaded, Busy
<1>8. ArrayInv'
  BY <1>1 DEF ArrayInv, Threaded
<1>9. \A i \in 1..size[calls] : errs[calls][i] # Unset /\ i \in Index
  BY <1>1, <1>2, <1>3 DEF Filled, JobInv, Threaded, Index
<1>10. ReturnComplete'
  BY <1>1, <1>9 DEF ReturnComplete, Returned, ArrayInv, TypeOK, Call
<1> QED BY <1>6, <1>7, <1>8, <1>10

(* flush_stop() tells the workers. *)
LEMMA StepStop ==
    ASSUME PoolInv, flush_stop
    PROVE  PoolInv'
<1> USE PoolAssumption DEF PoolInv
<1>1. /\ main = "idle"
      /\ main' = "join"
      /\ worker' = Broadcast(worker)
      /\ UNCHANGED <<calls, size, dirOf, errs, job, nworkers, grow_failed, synced>>
  BY DEF flush_stop
<1>2. stopping' \in BOOLEAN
  BY Zenon DEF flush_stop
<1>3. worker' \in [Workers -> Thread] /\ \A w \in Workers : ~Busy(w)'
  BY <1>1, BroadcastKeeps DEF JobInv, Threaded, Busy, TypeOK
<1>4. TypeOK'
  BY <1>1, <1>2, <1>3 DEF TypeOK, InCall
<1>5. JobInv' /\ WorkerInv'
  BY <1>1, <1>3 DEF JobInv, WorkerInv, Threaded, Busy
<1>6. ArrayInv' /\ ReturnComplete'
  BY <1>1 DEF ArrayInv, ReturnComplete, Returned, Threaded, InCall
<1> QED BY <1>4, <1>5, <1>6

(* flush_stop() has joined the workers. *)
LEMMA StepJoined ==
    ASSUME PoolInv, Joined
    PROVE  PoolInv'
<1> USE PoolAssumption DEF PoolInv
<1>1. /\ main = "join"
      /\ main' = "end"
      /\ worker' = [w \in Workers |-> ThreadAt("none")]
      /\ nworkers' = 0
      /\ UNCHANGED <<calls, size, dirOf, errs, job, synced>>
  BY DEF Joined
<1>2. stopping' \in BOOLEAN /\ grow_failed' \in BOOLEAN
  BY Zenon DEF Joined
<1>3. worker' \in [Workers -> Thread] /\ \A w \in Workers : ~Busy(w)'
  BY <1>1 DEF ThreadAt, Thread, Outcome, Busy
<1>4. TypeOK'
  BY <1>1, <1>2, <1>3 DEF TypeOK, InCall
<1>5. JobInv' /\ WorkerInv'
  BY <1>1, <1>3 DEF JobInv, WorkerInv, Threaded, Busy
<1>6. ArrayInv' /\ ReturnComplete'
  BY <1>1 DEF ArrayInv, ReturnComplete, Returned, Threaded, InCall
<1> QED BY <1>4, <1>5, <1>6

(* What the head of the worker's loop does: nothing, or take one index.    *)
LEMMA LoopCases ==
    ASSUME NEW t \in Thread, NEW j \in Job, stopping \in BOOLEAN
    PROVE  \/ /\ WorkerLoop(t, j).pc \in {"gone", "waiting"}
              /\ Taken(j) = j
           \/ /\ j.next < j.n
              /\ WorkerLoop(t, j).pc = "sync"
              /\ WorkerLoop(t, j).i = j.next + 1
              /\ WorkerLoop(t, j).call = j.call
              /\ WorkerLoop(t, j).dir = j.dir
              /\ Taken(j) = [j EXCEPT !.next = j.next + 1]
<1>1. CASE stopping
  BY <1>1 DEF WorkerLoop, Taken, Thread
<1>2. CASE ~stopping /\ j.next >= j.n
  BY <1>2 DEF WorkerLoop, Taken, Thread
<1>3. CASE ~stopping /\ ~(j.next >= j.n)
  <2>1. WorkerLoop(t, j) = [t EXCEPT !.pc = "sync", !.i = j.next + 1,
                                     !.call = j.call, !.dir = j.dir]
    BY <1>3 DEF WorkerLoop
  <2>2. Taken(j) = [j EXCEPT !.next = j.next + 1]
    BY <1>3 DEF Taken
  <2>3. j.next < j.n
    BY <1>3, PoolAssumption DEF Job
  <2> QED BY <2>1, <2>2, <2>3 DEF Thread
<1> QED BY <1>1, <1>2, <1>3

(* A worker gets the lock. *)
LEMMA StepRun ==
    ASSUME PoolInv, NEW w \in Workers, WorkerRun(w)
    PROVE  PoolInv'
<1> USE PoolAssumption DEF PoolInv
<1>1. /\ worker[w].pc \in {"new", "woken"}
      /\ worker' = [worker EXCEPT ![w] = WorkerLoop(worker[w], job)]
      /\ job' = Taken(job)
      /\ UNCHANGED <<main, calls, size, dirOf, errs, nworkers, grow_failed,
                     stopping, synced>>
  BY DEF WorkerRun
<1>2. job \in Job /\ worker[w] \in Thread /\ stopping \in BOOLEAN
  BY DEF TypeOK
<1>3. job' \in Job /\ worker' \in [Workers -> Thread]
  BY <1>1, <1>2, LoopType DEF TypeOK
<1>4. TypeOK'
  BY <1>1, <1>3 DEF TypeOK
<1>5. \A v \in Workers : v # w => worker'[v] = worker[v]
  BY <1>1 DEF TypeOK
<1>6. worker'[w] = WorkerLoop(worker[w], job)
  BY <1>1 DEF TypeOK
<1>7. CASE worker'[w].pc \in {"gone", "waiting"} /\ job' = job
  <2>1. ~Busy(w) /\ ~Busy(w)'
    BY <1>1, <1>7 DEF Busy
  <2>2. JobInv'
    BY <1>1, <1>5, <1>7, <2>1 DEF JobInv, Threaded, Filled, Busy
  <2>3. WorkerInv'
    BY <1>1, <1>5, <1>7, <2>1 DEF WorkerInv, Busy
  <2>4. ArrayInv' /\ ReturnComplete'
    BY <1>1, <1>7 DEF ArrayInv, ReturnComplete, Returned, Threaded
  <2> QED BY <1>4, <2>2, <2>3, <2>4
<1>8. CASE /\ job.next < job.n
           /\ worker'[w].pc = "sync"
           /\ worker'[w].i = job.next + 1
           /\ worker'[w].call = job.call
           /\ worker'[w].dir = job.dir
           /\ job' = [job EXCEPT !.next = job.next + 1]
  <2>1. /\ job'.call = job.call /\ job'.n = job.n /\ job'.dir = job.dir
        /\ job'.done = job.done /\ job'.next = job.next + 1
        /\ job.next \in Nat /\ job.n \in 0..Batch
    BY <1>2, <1>8 DEF Job
  <2>2. Threaded /\ job.call = calls
    BY <1>8, <2>1 DEF JobInv
  <2>3. JobInv'
    BY SMTT(30), <1>1, <1>8, <2>1, <2>2 DEF JobInv, Threaded, Filled
  <2>4. job.next + 1 \in Index /\ errs[calls][job.next + 1] = Unset
        /\ synced[calls][job.next + 1] = Unset
    BY <1>8, <2>1, <2>2 DEF ArrayInv, Index
  <2>5. \A v \in Workers : v # w /\ Busy(v)' =>
            Busy(v) /\ worker'[v] = worker[v] /\ worker[v].i \in 1..job.next
    BY <1>5 DEF Busy, WorkerInv
  <2>6. WorkerInv'
    BY <1>1, <1>5, <1>8, <2>1, <2>2, <2>4, <2>5 DEF WorkerInv, Busy
  <2>7. ArrayInv'
    BY <1>1, <2>1, <2>2 DEF ArrayInv, Threaded, Index
  <2>8. ReturnComplete'
    BY <1>1 DEF ReturnComplete, Returned
  <2> QED BY <1>4, <2>3, <2>6, <2>7, <2>8
<1> QED BY <1>1, <1>2, <1>6, <1>7, <1>8, LoopCases

(* A worker flushes the descriptor it took. *)
LEMMA StepSync ==
    ASSUME PoolInv, NEW w \in Workers, WorkerSync(w)
    PROVE  PoolInv'
<1> USE PoolAssumption DEF PoolInv
<1> DEFINE i == worker[w].i
<1>1. PICK r \in Outcome :
        /\ worker[w].pc = "sync"
        /\ worker' = [worker EXCEPT ![w].pc = "write",
                                     ![w].err = sync_err(r, worker[w].dir)]
        /\ synced' = [synced EXCEPT ![worker[w].call][i] = r]
        /\ UNCHANGED <<main, calls, size, dirOf, errs, job, nworkers, grow_failed,
                       stopping>>
  BY DEF WorkerSync
<1>2. Busy(w) /\ Threaded /\ job.call = calls
  BY <1>1 DEF Busy, JobInv
<1>3. /\ worker[w].call = calls /\ worker[w].dir = job.dir
      /\ i \in 1..job.next /\ errs[calls][i] = Unset
      /\ synced[calls][i] = Unset /\ job.dir = dirOf[calls]
  BY <1>1, <1>2 DEF WorkerInv, JobInv
<1>4. /\ i \in Index /\ calls \in Call /\ job.dir \in BOOLEAN
      /\ worker[w] \in Thread
  BY <1>2, <1>3 DEF TypeOK, Job, Threaded, InCall, Call, Index
<1>5. sync_err(r, job.dir) \in Outcome /\ r # Unset
  BY <1>4, SyncErrType DEF Outcome, Unset
<1>6. /\ worker'[w].pc = "write" /\ worker'[w].err = sync_err(r, job.dir)
      /\ worker'[w].i = i /\ worker'[w].call = calls /\ worker'[w].dir = job.dir
      /\ worker'[w] \in Thread
      /\ \A v \in Workers : v # w => worker'[v] = worker[v]
  BY <1>1, <1>3, <1>4, <1>5 DEF TypeOK, Thread
<1>7. worker' \in [Workers -> Thread]
  BY <1>1, <1>6 DEF TypeOK
<1>8. /\ synced' \in [Call -> Arrays]
      /\ synced'[calls][i] = r
      /\ \A c \in Call, k \in Index : c # calls \/ k # i => synced'[c][k] = synced[c][k]
  BY <1>1, <1>3, <1>4 DEF TypeOK, Arrays
<1>9. TypeOK'
  BY <1>1, <1>7, <1>8 DEF TypeOK
<1>10. JobInv'
  BY <1>1, <1>2 DEF JobInv, Threaded, Filled
<1>11. \A v \in Workers : Busy(v)' =>
          /\ Busy(v) /\ worker'[v].i = worker[v].i
          /\ worker[v].i \in Index
          /\ v # w => worker[v].i # i
  BY SMTT(30), <1>2, <1>3, <1>6, <1>4 DEF Busy, WorkerInv, TypeOK, Job, Index
<1>12. WorkerInv'
  <2>1. \A v \in Workers : Busy(v)' =>
          /\ worker'[v].call = job.call /\ worker'[v].dir = job.dir
          /\ worker'[v].i \in 1..job.next /\ errs[job.call][worker'[v].i] = Unset
    BY <1>2, <1>3, <1>6, <1>11 DEF WorkerInv
  <2>2. \A v \in Workers : worker'[v].pc = "sync" => synced'[job.call][worker'[v].i] = Unset
    BY <1>2, <1>4, <1>6, <1>8, <1>11 DEF WorkerInv, Busy
  <2>3. \A v \in Workers : worker'[v].pc = "write" =>
          /\ synced'[job.call][worker'[v].i] # Unset
          /\ worker'[v].err = sync_err(synced'[job.call][worker'[v].i], job.dir)
    BY <1>2, <1>4, <1>5, <1>6, <1>8, <1>11 DEF WorkerInv, Busy
  <2>4. \A u, v \in Workers : Busy(u)' /\ Busy(v)' /\ u # v => worker'[u].i # worker'[v].i
    BY <1>11 DEF WorkerInv
  <2> QED BY ZenonT(40), <1>1, <2>1, <2>2, <2>3, <2>4 DEF WorkerInv
<1>13. ArrayInv'
  BY <1>1, <1>2, <1>3, <1>4, <1>5, <1>8 DEF ArrayInv, Threaded, TypeOK, Job
<1>14. ReturnComplete'
  BY <1>1, <1>2, <1>8 DEF ReturnComplete, Returned, Threaded, InCall, TypeOK, Index, Call
<1> QED BY <1>9, <1>10, <1>12, <1>13, <1>14

(* A worker writes its result and goes round its loop. *)
LEMMA StepWrite ==
    ASSUME PoolInv, NEW w \in Workers, WorkerWrite(w)
    PROVE  PoolInv'
<1> USE PoolAssumption DEF PoolInv
<1> DEFINE i == worker[w].i
           j == [job EXCEPT !.done = job.done + 1]
<1>1. /\ worker[w].pc = "write"
      /\ errs' = [errs EXCEPT ![job.call][i] = worker[w].err]
      /\ main' = IF j.done = j.n /\ main = "wait" THEN "woken" ELSE main
      /\ worker' = [worker EXCEPT ![w] = WorkerLoop(worker[w], j)]
      /\ job' = Taken(j)
      /\ UNCHANGED <<calls, size, dirOf, nworkers, grow_failed, stopping, synced>>
  BY DEF WorkerWrite
<1>2. Busy(w) /\ Threaded /\ Threaded'
      /\ job.call = calls /\ job.n = size[calls] /\ job.dir = dirOf[calls]
  BY <1>1 DEF Busy, JobInv, Threaded
<1>3. /\ i \in 1..job.next /\ errs[calls][i] = Unset
      /\ synced[calls][i] # Unset
      /\ worker[w].err = sync_err(synced[calls][i], dirOf[calls])
  BY <1>1, <1>2 DEF WorkerInv
<1>4. /\ job \in Job /\ job.next \in 0..Batch /\ job.n \in 0..Batch
      /\ job.next <= job.n /\ job.done = Cardinality(Filled)
      /\ calls \in Call /\ worker[w] \in Thread /\ worker[w].err \in Outcome
      /\ stopping \in BOOLEAN
  BY <1>2 DEF TypeOK, Job, JobInv, Threaded, InCall, Call, Thread
<1>5. i \in Index /\ i \in 1..job.n
  BY <1>3, <1>4 DEF Index
<1>6. worker[w].err # Unset
  BY <1>4 DEF Outcome, Unset
<1>7. /\ errs' \in [Call -> Arrays]
      /\ errs'[calls][i] = worker[w].err
      /\ \A c \in Call, k \in Index : c # calls \/ k # i => errs'[c][k] = errs[c][k]
  BY <1>1, <1>2, <1>4, <1>5 DEF TypeOK, Arrays
<1> DEFINE F == {k \in 1..job.n : errs'[calls][k] # Unset}
<1>8. F = Filled \cup {i}
  BY <1>2, <1>4, <1>5, <1>6, <1>7 DEF Filled, Index
<1>9. IsFiniteSet(Filled) /\ IsFiniteSet(F) /\ Cardinality(F) = job.done + 1
      /\ job.done + 1 <= job.n /\ job.done \in Nat
  <2>1. 1 \in Int /\ job.n \in Int
    BY <1>4
  <2>2. IsFiniteSet(1..job.n) /\ Cardinality(1..job.n) = job.n
    <3>1. IsFiniteSet(1..job.n)
          /\ Cardinality(1..job.n) = IF 1 > job.n THEN 0 ELSE job.n - 1 + 1
      BY <2>1, FS_Interval
    <3> QED BY <1>4, <3>1
  <2>3. Filled \subseteq 1..job.n /\ F \subseteq 1..job.n
    BY DEF Filled
  <2>4. IsFiniteSet(Filled) /\ IsFiniteSet(F) /\ Cardinality(F) <= job.n
    BY <2>2, <2>3, FS_Subset
  <2>5. i \notin Filled
    BY <1>2, <1>3 DEF Filled
  <2>6. Cardinality(F) = Cardinality(Filled) + 1
    BY <1>8, <2>4, <2>5, FS_AddElement
  <2>7. Cardinality(Filled) \in Nat
    BY <2>4, FS_CardinalityType
  <2> QED BY <1>4, <2>4, <2>6, <2>7
<1>10. /\ j \in Job /\ j.done = job.done + 1 /\ j.call = job.call /\ j.n = job.n
       /\ j.next = job.next /\ j.dir = job.dir
  BY <1>4, <1>9 DEF Job
<1> HIDE DEF j
<1>11. job' \in Job /\ worker' \in [Workers -> Thread]
  BY <1>1, <1>4, <1>10, LoopType DEF TypeOK
<1>12. TypeOK'
  BY <1>1, <1>2, <1>7, <1>11 DEF TypeOK, Threaded, InCall
<1>13. \A v \in Workers : v # w => worker'[v] = worker[v]
  BY <1>1 DEF TypeOK
<1>14. worker'[w] = WorkerLoop(worker[w], j)
  BY <1>1 DEF TypeOK
<1>15. \A v \in Workers : v # w /\ Busy(v) => worker[v].i # i /\ worker[v].i \in Index
                                                 /\ worker[v].i \in 1..job.next
  BY <1>2, <1>4 DEF WorkerInv, Index
<1>16. ReturnComplete'
  <2>1. \A c \in Call : Returned(c)' => Returned(c) /\ c # calls
    BY <1>1, <1>2, <1>4 DEF Returned, Threaded, InCall, Call
  <2>2. \A c \in Call : \A k \in 1..size[c] : k \in Index
    BY DEF TypeOK, Index
  <2>3. \A c \in Call : Returned(c)' => \A k \in 1..size[c] : errs'[c][k] = errs[c][k]
    BY <1>7, <2>1, <2>2
  <2> QED BY <1>1, <2>1, <2>3 DEF ReturnComplete
<1>17. job'.call = calls /\ job'.n = job.n /\ job'.dir = job.dir /\ job'.done = job.done + 1
       /\ \/ job'.next = job.next /\ worker'[w].pc \in {"gone", "waiting"}
          \/ /\ job'.next = job.next + 1 /\ job.next < job.n
             /\ worker'[w].pc = "sync" /\ worker'[w].i = job.next + 1
             /\ worker'[w].call = calls /\ worker'[w].dir = job.dir
  <2>1. CASE worker'[w].pc \in {"gone", "waiting"} /\ job' = j
    BY <1>2, <1>10, <2>1
  <2>2. CASE /\ j.next < j.n /\ worker'[w].pc = "sync" /\ worker'[w].i = j.next + 1
             /\ worker'[w].call = j.call /\ worker'[w].dir = j.dir
             /\ job' = [j EXCEPT !.next = j.next + 1]
    BY <1>2, <1>10, <2>2 DEF Job
  <2> QED BY <1>1, <1>4, <1>10, <1>14, <2>1, <2>2, LoopCases
<1>18. JobInv'
  <2>1. Filled' = F
    BY <1>17 DEF Filled
  <2> QED BY SMTT(30), <1>1, <1>2, <1>4, <1>9, <1>17, <2>1 DEF JobInv
<1>19. WorkerInv'
  <2>1. \A v \in Workers : v # w /\ Busy(v)' =>
          /\ Busy(v) /\ worker'[v] = worker[v]
          /\ worker[v].call = calls /\ worker[v].dir = job.dir
          /\ worker[v].i \in 1..job'.next /\ worker[v].i <= job.next
          /\ errs'[calls][worker[v].i] = Unset
    BY <1>2, <1>4, <1>7, <1>13, <1>15, <1>17 DEF WorkerInv, Busy
  <2>2. Busy(w)' => /\ job'.next = job.next + 1 /\ worker'[w].pc = "sync"
                    /\ worker'[w].i = job'.next
                    /\ worker'[w].call = calls /\ worker'[w].dir = job.dir
                    /\ errs'[calls][job.next + 1] = Unset
                    /\ synced[calls][job.next + 1] = Unset
    BY <1>2, <1>3, <1>4, <1>5, <1>7, <1>17 DEF Busy, ArrayInv, Index
  <2>3. \A v \in Workers : v # w =>
          /\ worker'[v].pc = "sync" => synced[calls][worker[v].i] = Unset
          /\ worker'[v].pc = "write" =>
                /\ synced[calls][worker[v].i] # Unset
                /\ worker[v].err = sync_err(synced[calls][worker[v].i], job.dir)
    BY <1>2, <1>13 DEF WorkerInv
  <2>4. \A v \in Workers : Busy(v)' =>
          /\ worker'[v].call = job'.call /\ worker'[v].dir = job'.dir
          /\ worker'[v].i \in 1..job'.next /\ errs'[job'.call][worker'[v].i] = Unset
    BY <1>4, <1>17, <2>1, <2>2
  <2>5. \A v \in Workers : worker'[v].pc = "sync" => synced'[job'.call][worker'[v].i] = Unset
    BY <1>1, <1>13, <1>17, <2>2, <2>3 DEF Busy
  <2>6. \A v \in Workers : worker'[v].pc = "write" =>
          /\ synced'[job'.call][worker'[v].i] # Unset
          /\ worker'[v].err = sync_err(synced'[job'.call][worker'[v].i], job'.dir)
    BY <1>1, <1>13, <1>17, <2>2, <2>3 DEF Busy
  <2>7. \A u, v \in Workers : Busy(u)' /\ Busy(v)' /\ u # v => worker'[u].i # worker'[v].i
    BY <1>4, <2>1, <2>2 DEF WorkerInv
  <2> QED BY <2>4, <2>5, <2>6, <2>7 DEF WorkerInv
<1>20. ArrayInv'
  <2>1. \A c \in Call, k \in Index : errs'[c][k] # Unset =>
          synced[c][k] # Unset /\ errs'[c][k] = sync_err(synced[c][k], dirOf[c])
    BY <1>3, <1>7 DEF ArrayInv
  <2>2. \A c \in Call : c > calls => \A k \in Index : errs'[c][k] = Unset /\ synced[c][k] = Unset
    BY <1>4, <1>7 DEF ArrayInv, Call
  <2>3. \A k \in Index : k > job'.next => errs'[calls][k] = Unset /\ synced[calls][k] = Unset
    BY <1>2, <1>3, <1>4, <1>7, <1>17 DEF ArrayInv, Index
  <2> QED BY <1>1, <1>2, <2>1, <2>2, <2>3 DEF ArrayInv, Threaded
<1> QED BY <1>12, <1>16, <1>18, <1>19, <1>20

(* A worker wakes for nothing. *)
LEMMA StepSpuriousWorker ==
    ASSUME PoolInv, NEW w \in Workers, SpuriousWorker(w)
    PROVE  PoolInv'
<1> USE PoolAssumption DEF PoolInv
<1>1. /\ worker[w].pc = "waiting"
      /\ worker' = [worker EXCEPT ![w].pc = "woken"]
      /\ UNCHANGED <<main, calls, size, dirOf, errs, job, nworkers, grow_failed,
                     stopping, synced>>
  BY DEF SpuriousWorker
<1>2. /\ worker' \in [Workers -> Thread]
      /\ \A v \in Workers : Busy(v)' => Busy(v) /\ worker'[v] = worker[v]
  BY <1>1 DEF TypeOK, Thread, Busy
<1>3. TypeOK'
  BY <1>1, <1>2 DEF TypeOK
<1>4. JobInv'
  BY <1>1, <1>2 DEF JobInv, Threaded, Filled
<1>5. WorkerInv'
  BY <1>1, <1>2 DEF WorkerInv, Busy
<1>6. ArrayInv' /\ ReturnComplete'
  BY <1>1 DEF ArrayInv, ReturnComplete, Returned, Threaded
<1> QED BY <1>3, <1>4, <1>5, <1>6

-----------------------------------------------------------------------------
(* Every step of the pool keeps the invariant.                             *)
LEMMA PoolStep == PoolInv /\ [Next]_vars => PoolInv'
<1> SUFFICES ASSUME PoolInv, [Next]_vars PROVE PoolInv'
  OBVIOUS
<1>1. CASE MainStep
  BY <1>1, StepCall, StepGrow, StepGrowDone, StepSeq, StepSeqReturn, StepPost,
     StepWaitAgain, StepThreadedReturn, StepStop, StepJoined
     DEF MainStep, MainInCall
<1>2. ASSUME NEW w \in Workers, WorkerStep(w) \/ SpuriousWorker(w) PROVE PoolInv'
  BY <1>2, StepRun, StepSync, StepWrite, StepSpuriousWorker DEF WorkerStep
<1>3. CASE SpuriousMain
  BY <1>3, StepSpuriousMain
<1>4. CASE UNCHANGED vars
  BY <1>4 DEF vars, PoolInv, TypeOK, JobInv, WorkerInv, ArrayInv, ReturnComplete,
              Returned, Threaded, Busy, Filled
<1> QED BY <1>1, <1>2, <1>3, <1>4 DEF Next, Done

(* The invariant holds in every reachable state of the pool.               *)
THEOREM PoolInvariant == Spec => []PoolInv
<1> QED BY PoolInit, PoolStep, PTL DEF Spec

(* The pool keeps its types; in particular job.done and job.next never     *)
(* pass the number of descriptors and no thread is made beyond workers[].  *)
THEOREM PoolTypes == Spec => []TypeOK
<1>1. PoolInv => TypeOK
  BY DEF PoolInv
<1> QED BY PoolInvariant, <1>1, PTL

(* flush_fds() returns a result for every descriptor, the one its fsync    *)
(* gave, for every number of descriptors, threads and calls.               *)
THEOREM ResultsComplete == Spec => []ReturnComplete
<1>1. PoolInv => ReturnComplete
  BY DEF PoolInv
<1> QED BY PoolInvariant, <1>1, PTL

-----------------------------------------------------------------------------
(* Only two kinds of step write an errs array or flush a descriptor.       *)
LEMMA ArrayWriters ==
    ASSUME [Next]_vars
    PROVE  /\ SeqOne \/ (\E w \in Workers : WorkerWrite(w)) \/ UNCHANGED errs
           /\ SeqOne \/ (\E w \in Workers : WorkerSync(w)) \/ UNCHANGED synced
BY DEF Next, Done, vars, MainStep, MainInCall, WorkerStep, flush_fds, GrowOne, GrowDone,
       SeqReturn, Post, WaitAgain, ThreadedReturn, flush_stop, Joined, WorkerRun,
       WorkerSync, WorkerWrite, SpuriousWorker, SpuriousMain

(* No worker writes into the stack frame of a call that has returned.      *)
THEOREM NoLateWrite == Spec => NoWriteAfterReturn
<1>1. ASSUME PoolInv, [Next]_vars, NEW c \in Call, errs'[c] # errs[c]
      PROVE  c = calls /\ main \in InCall
  <2>1. CASE SeqOne
    BY <1>1, <2>1 DEF SeqOne, InCall, PoolInv, TypeOK
  <2>2. ASSUME NEW w \in Workers, WorkerWrite(w)
        PROVE  c = calls /\ main \in InCall
    <3>1. Threaded /\ job.call = calls
      BY <1>1, <2>2 DEF WorkerWrite, PoolInv, JobInv, Busy
    <3> QED BY <1>1, <2>2, <3>1 DEF WorkerWrite, Threaded, InCall, PoolInv, TypeOK
  <2> QED BY <1>1, <2>1, <2>2, ArrayWriters
<1>2. PoolInv /\ [Next]_vars =>
        [\A c \in Call : errs'[c] # errs[c] => c = calls /\ main \in InCall]_vars
  BY <1>1
<1> QED BY <1>2, PoolInvariant, PTL DEF Spec, NoWriteAfterReturn

(* No descriptor is flushed twice.                                         *)
THEOREM FlushedOnce == Spec => SyncedOnce
<1>1. ASSUME PoolInv, [Next]_vars, NEW c \in Call, NEW i \in Index, synced[c][i] # Unset
      PROVE  synced'[c][i] = synced[c][i]
  <2>1. CASE SeqOne
    <3>1. PICK k \in 1..size[calls], r \in Outcome :
             main = "seq" /\ errs[calls][k] = Unset
             /\ synced' = [synced EXCEPT ![calls][k] = r]
      BY <2>1 DEF SeqOne
    <3>2. k \in Index /\ calls \in Call
      BY <1>1, <3>1, PoolAssumption DEF PoolInv, TypeOK, InCall, Call, Index
    <3>3. synced[calls][k] = Unset
      BY <1>1, <3>1, <3>2 DEF PoolInv, ArrayInv
    <3> QED BY <1>1, <3>1, <3>2, <3>3 DEF PoolInv, TypeOK, Arrays
  <2>2. ASSUME NEW w \in Workers, WorkerSync(w)
        PROVE  synced'[c][i] = synced[c][i]
    <3>1. synced[worker[w].call][worker[w].i] = Unset
      BY <1>1, <2>2 DEF WorkerSync, PoolInv, WorkerInv, Busy
    <3> QED BY <1>1, <2>2, <3>1 DEF WorkerSync, PoolInv, TypeOK, Arrays
  <2> QED BY <1>1, <2>1, <2>2, ArrayWriters
<1>2. PoolInv /\ [Next]_vars =>
        [\A c \in Call, i \in Index :
            synced[c][i] # Unset => synced'[c][i] = synced[c][i]]_vars
  BY <1>1
<1> QED BY <1>2, PoolInvariant, PTL DEF Spec, SyncedOnce

-----------------------------------------------------------------------------
(* The pool implements FlushFds: each step is a step of the contract, or   *)
(* none.                                                                   *)
THEOREM PoolImplements == Spec => ImplementsFlushFds
<1> USE PoolAssumption
<1>1. Init => Contract!Init
  BY DEF Init, Contract!Init, Contract!CallIds, Contract!Nothing, Call, Index, Unset,
         InCall, Returned
<1>2. PoolInv /\ PoolInv' /\ [Next]_vars => [Contract!Next]_(Contract!fvars)
  <2> SUFFICES ASSUME PoolInv, PoolInv', [Next]_vars
               PROVE  [Contract!Next]_(Contract!fvars)
    OBVIOUS
  <2> DEFINE out == [c \in Call |-> IF Returned(c) THEN errs[c]
                                    ELSE [i \in Index |-> Unset]]
  <2>0. calls \in 0..MaxCalls /\ (main \in InCall => calls \in Call)
    BY DEF PoolInv, TypeOK, Call
  <2>1. ASSUME UNCHANGED <<calls, size, dirOf, synced>>,
               (main \in InCall)' = (main \in InCall),
               (main \notin {"join", "end"})' = (main \notin {"join", "end"}),
               \A c \in Call : Returned(c) => errs'[c] = errs[c]
        PROVE  UNCHANGED Contract!fvars
    <3>1. \A c \in Call : Returned(c)' = Returned(c)
      BY <2>1 DEF Returned
    <3>2. out' = out
      BY <2>1, <3>1
    <3> QED BY <2>1, <3>2 DEF Contract!fvars
  <2>2. ASSUME NEW n \in 0..Batch, NEW dir \in BOOLEAN, flush_fds(n, dir)
        PROVE  Contract!Next
    <3>1. /\ main = "idle" /\ main' \in InCall /\ main' \notin {"join", "end"}
          /\ main \notin InCall
          /\ calls' = calls + 1 /\ UNCHANGED <<errs, synced>>
      BY <2>2 DEF flush_fds, InCall
    <3>2. \A c \in Call : Returned(c)' = Returned(c)
      BY <2>0, <3>1 DEF Returned, Call
    <3>3. out' = out
      BY <3>1, <3>2
    <3>4. Contract!Begin(n, dir)
      BY <2>2, <3>1, <3>3 DEF Contract!Begin, flush_fds
    <3> QED BY <3>4 DEF Contract!Next
  <2>3. CASE GrowOne \/ GrowDone \/ Post \/ WaitAgain \/ SpuriousMain
    <3>1. /\ main \in InCall /\ main' \in InCall
          /\ main \notin {"join", "end"} /\ main' \notin {"join", "end"}
          /\ UNCHANGED <<calls, size, dirOf, synced, errs>>
      BY <2>3 DEF GrowOne, GrowDone, Post, WaitAgain, SpuriousMain, InCall
    <3> QED BY <2>1, <3>1
  <2>4. CASE SeqOne
    <3>1. PICK k \in 1..size[calls], r \in Outcome :
             /\ main = "seq" /\ errs[calls][k] = Unset
             /\ errs' = [errs EXCEPT ![calls][k] = sync_err(r, dirOf[calls])]
             /\ synced' = [synced EXCEPT ![calls][k] = r]
             /\ UNCHANGED <<main, calls, size, dirOf>>
      BY <2>4 DEF SeqOne
    <3>2. k \in Index /\ calls \in Call /\ k <= size[calls] /\ main \in InCall
      BY <2>0, <3>1 DEF PoolInv, TypeOK, InCall, Index
    <3>3. synced[calls][k] = Unset
      BY <3>1, <3>2 DEF PoolInv, ArrayInv
    <3>4. \A c \in Call : Returned(c)' = Returned(c) /\ (Returned(c) => errs'[c] = errs[c])
      BY <3>1, <3>2 DEF Returned, Call, PoolInv, TypeOK
    <3>5. out' = out
      BY <3>4
    <3>6. Contract!Flush(k, r)
      BY <3>1, <3>2, <3>3, <3>5 DEF Contract!Flush, Unset
    <3> QED BY <3>2, <3>6 DEF Contract!Next, Index, Outcome
  <2>5. CASE SeqReturn \/ ThreadedReturn
    <3>1. /\ main \in {"seq", "woken"} /\ main' = "idle"
          /\ UNCHANGED <<calls, size, dirOf, errs, synced>>
      BY <2>5 DEF SeqReturn, ThreadedReturn
    <3>2. main \in InCall /\ main' \notin InCall /\ calls \in Call
      BY <2>0, <3>1 DEF InCall
    <3>3. \A i \in 1..size[calls] : synced[calls][i] # Unset
      BY <3>1, <3>2 DEF PoolInv, ReturnComplete, Returned
    <3>4. \A i \in Index : errs[calls][i] = sync_err(synced[calls][i], dirOf[calls])
      <4> TAKE i \in Index
      <4>1. CASE errs[calls][i] # Unset
        BY <3>2, <4>1 DEF PoolInv, ArrayInv
      <4>2. CASE errs[calls][i] = Unset
        <5>1. CASE main = "seq"
          BY <4>2, <5>1 DEF PoolInv, ArrayInv, sync_err, Unset
        <5>2. CASE main = "woken"
          <6>1. ~(i \in 1..size[calls])
            BY <3>1, <3>2, <4>2 DEF PoolInv, ReturnComplete, Returned, sync_err, Unset
          <6>2. i > job.next
            BY <5>2, <6>1 DEF PoolInv, JobInv, Threaded, TypeOK, Job, Index
          <6> QED BY <4>2, <5>2, <6>2 DEF PoolInv, ArrayInv, Threaded, sync_err, Unset
        <5> QED BY <3>1, <5>1, <5>2
      <4> QED BY <4>1, <4>2
    <3>5. \A c \in Call : c # calls => Returned(c)' = Returned(c)
      BY <3>1 DEF Returned
    <3>6. ~Returned(calls) /\ Returned(calls)'
      BY <2>0, <3>1, <3>2 DEF Returned
    <3>7. errs[calls] = [i \in 1..Batch |->
                           IF dirOf[calls] /\ synced[calls][i] = "einval" THEN "ok"
                           ELSE synced[calls][i]]
      BY <3>2, <3>4 DEF PoolInv, TypeOK, Arrays, Index, sync_err
    <3>8. out' = [out EXCEPT ![calls] = errs[calls]]
      BY <3>1, <3>2, <3>5, <3>6
    <3>9. Contract!Return
      BY <3>1, <3>2, <3>3, <3>7, <3>8 DEF Contract!Return, Unset
    <3> QED BY <3>9 DEF Contract!Next
  <2>6. CASE flush_stop
    <3>1. /\ main = "idle" /\ main' = "join" /\ UNCHANGED <<calls, size, dirOf, errs, synced>>
          /\ main \notin InCall /\ main' \notin InCall
      BY <2>6 DEF flush_stop, InCall
    <3>2. \A c \in Call : Returned(c)' = Returned(c)
      BY <3>1 DEF Returned
    <3>3. out' = out
      BY <3>1, <3>2
    <3>4. Contract!Stop
      BY <3>1, <3>3 DEF Contract!Stop
    <3> QED BY <3>4 DEF Contract!Next
  <2>7. CASE Joined
    <3>1. /\ main = "join" /\ main' = "end" /\ UNCHANGED <<calls, size, dirOf, errs, synced>>
          /\ main \notin InCall /\ main' \notin InCall
      BY <2>7 DEF Joined, InCall
    <3> QED BY <2>1, <3>1
  <2>8. ASSUME NEW w \in Workers, WorkerRun(w) \/ SpuriousWorker(w)
        PROVE  UNCHANGED Contract!fvars
    BY <2>1, <2>8 DEF WorkerRun, SpuriousWorker
  <2>9. ASSUME NEW w \in Workers, WorkerSync(w) PROVE Contract!Next
    <3>1. PICK r \in Outcome :
             /\ worker[w].pc = "sync"
             /\ synced' = [synced EXCEPT ![worker[w].call][worker[w].i] = r]
             /\ UNCHANGED <<main, calls, size, dirOf, errs>>
      BY <2>9 DEF WorkerSync
    <3>2. /\ Threaded /\ worker[w].call = calls /\ synced[calls][worker[w].i] = Unset
          /\ worker[w].i \in 1..job.next /\ job.next <= size[calls]
      BY <3>1 DEF PoolInv, JobInv, WorkerInv, Busy
    <3>3. worker[w].i \in 1..Batch /\ worker[w].i <= size[calls] /\ main \in InCall
      <4>1. main \in InCall /\ calls \in Call
        BY <2>0, <3>2 DEF Threaded, InCall
      <4>2. job.next \in 0..Batch /\ size[calls] \in 0..Batch
        BY <4>1 DEF PoolInv, TypeOK, Job
      <4> QED BY <3>2, <4>1, <4>2
    <3>4. \A c \in Call : Returned(c)' = Returned(c)
      BY <3>1 DEF Returned
    <3>5. out' = out
      BY <3>1, <3>4
    <3>6. Contract!Flush(worker[w].i, r)
      BY <3>1, <3>2, <3>3, <3>5 DEF Contract!Flush, Unset
    <3> QED BY <3>3, <3>6 DEF Contract!Next, Outcome
  <2>10. ASSUME NEW w \in Workers, WorkerWrite(w) PROVE UNCHANGED Contract!fvars
    <3>1. Threaded /\ job.call = calls
      BY <2>10 DEF WorkerWrite, PoolInv, JobInv, Busy
    <3>2. /\ main \in InCall /\ main' \in InCall
          /\ main \notin {"join", "end"} /\ main' \notin {"join", "end"}
          /\ UNCHANGED <<calls, size, dirOf, synced>>
      BY <2>10, <3>1 DEF WorkerWrite, Threaded, InCall
    <3>3. \A c \in Call : Returned(c) => errs'[c] = errs[c]
      BY <2>0, <2>10, <3>1, <3>2 DEF WorkerWrite, Returned, PoolInv, TypeOK, Call
    <3> QED BY <2>1, <3>2, <3>3
  <2>11. CASE UNCHANGED vars
    BY <2>1, <2>11 DEF vars
  <2> QED BY <2>2, <2>3, <2>4, <2>5, <2>6, <2>7, <2>8, <2>9, <2>10, <2>11
          DEF Next, Done, MainStep, MainInCall, WorkerStep
<1> QED BY <1>1, <1>2, PoolInvariant, PTL DEF Spec, Contract!Spec, ImplementsFlushFds
=============================================================================
