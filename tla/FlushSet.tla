------------------------------- MODULE FlushSet ------------------------------
(***************************************************************************)
(* The set of directories of src/src/flush.c, and its callers in batch.c   *)
(* and paths.c: directories that gained a name are remembered, flushed     *)
(* together at the end of the batch or when there is no room for another,  *)
(* and those that failed are remembered until the next batch, because      *)
(* drop_spares() must not drop an old file whose directory is not flushed. *)
(*                                                                         *)
(* A directory is known by its path; two paths can lead to one directory.  *)
(* The thread pool behind flush_fds() is module FlushPool.                 *)
(***************************************************************************)
EXTENDS Integers, Sequences, Functions

CONSTANTS Paths,       \* the paths of directories operands lead to
          Dirs,        \* the directories there are
          DirOf,       \* the directory each path leads to
          MaxDirs,     \* dirs_max: the room for directories waiting
          MaxFailures, \* NEWFILE_BATCH: the room for failures
          Batches,     \* number of batches in the run
          MaxNamed,    \* bound: names given in one batch
          MaxFaults,   \* bound: calls that fail in the run
          Nothing      \* no path

ASSUME FlushSetAssumption ==
    /\ DirOf \in [Paths -> Dirs]
    /\ MaxDirs \in Nat \ {0}
    /\ MaxFailures \in Nat \ {0}
    /\ MaxDirs <= MaxFailures
    /\ Batches \in Nat
    /\ MaxNamed \in Nat
    /\ MaxFaults \in Nat
    /\ Nothing \notin Paths

VARIABLES dirs,      \* dirs[]: the paths waiting to be flushed
          job,       \* the locals of flush_set_run(): open directories
          failures,  \* failures[]
          lost,      \* failures_lost
          nfailed,   \* dirs_nfailed
          pc, ret,   \* where the program is; where flush_set_run() returns to
          arg,       \* the argument of flush_set_add()
          left,      \* the old files of this batch: the paths still to ask about
          dropped,   \* the paths whose old file is dropped in this batch
          batch,     \* batches begun
          named,     \* names given in this batch
          failed,    \* an operand failed: the exit status is not 0
          owed,      \* history: paths that gained a name no flush has covered
          skipped,   \* history: paths that may not be opened
          broken,    \* history: every failure since flush_set_forget()
          faults

vars == <<dirs, job, failures, lost, nfailed, pc, ret, arg, left, dropped,
          batch, named, failed, owed, skipped, broken, faults>>

(* struct dir_failure; dir is the device and inode, if they are known.     *)
Failure == [name : Paths, known : BOOLEAN, dir : Dirs]

Fault == faults < MaxFaults /\ faults' = faults + 1

(* A flush of directory d covers whatever d gained, through any path.      *)
Covered(d) == {p \in Paths : DirOf[p] = d}

-----------------------------------------------------------------------------
Init ==
    /\ dirs = <<>> /\ job = <<>>
    /\ failures = <<>> /\ lost = FALSE /\ nfailed = 0
    /\ pc = "batch" /\ ret = "naming" /\ arg = Nothing
    /\ left = {} /\ dropped = {} /\ batch = 0 /\ named = 0 /\ failed = FALSE
    /\ owed = {} /\ skipped = {} /\ broken = {}
    /\ faults = 0

(* Mutant: a failure there is no room for is not noted.                    *)
dir_failed_quiet(f) ==
    /\ nfailed' = nfailed + 1
    /\ broken' = broken \cup {f}
    /\ failures' = IF Len(failures) = MaxFailures THEN failures ELSE Append(failures, f)
    /\ UNCHANGED lost

(* dir_failed(): counted, and remembered if there is room and memory.      *)
dir_failed(f) ==
    /\ nfailed' = nfailed + 1
    /\ broken' = broken \cup {f}
    /\ \/ /\ Len(failures) = MaxFailures
          /\ lost' = TRUE /\ UNCHANGED failures
       \/ /\ Len(failures) < MaxFailures
          /\ failures' = Append(failures, f) /\ UNCHANGED lost
       \/ /\ Len(failures) < MaxFailures
          /\ lost' = TRUE /\ UNCHANGED failures

NoFailure == UNCHANGED <<failures, lost, nfailed, broken>>

(* True when path p is one that failed to flush, or might be; stat() of p  *)
(* can fail as well, see dir_unflushed().                                  *)
flush_set_failed(p) ==
    \/ lost
    \/ \E f \in Range(failures) : f.name = p \/ (f.known /\ f.dir = DirOf[p])

-----------------------------------------------------------------------------
(* Mutant: the count of failures starts again with each batch.             *)
flush_set_forget_count ==
    /\ pc = "batch" /\ batch < Batches
    /\ batch' = batch + 1 /\ named' = 0 /\ left' = {} /\ dropped' = {}
    /\ failures' = <<>> /\ lost' = FALSE /\ broken' = {} /\ nfailed' = 0
    /\ pc' = "naming"
    /\ UNCHANGED <<dirs, job, ret, arg, failed, owed, skipped, faults>>

(* batch_run(): the head of its loop, with flush_set_forget().             *)
flush_set_forget ==
    /\ pc = "batch" /\ batch < Batches
    /\ batch' = batch + 1 /\ named' = 0 /\ left' = {} /\ dropped' = {}
    /\ failures' = <<>> /\ lost' = FALSE /\ broken' = {}
    /\ pc' = "naming"
    /\ UNCHANGED <<dirs, job, nfailed, ret, arg, failed, owed, skipped, faults>>

(* name_one() gives a file its name in the directory of path p; an old     *)
(* file exchanged away is to be dropped later.  Then flush_set_add().      *)
name_one(p) ==
    /\ pc = "naming" /\ named < MaxNamed
    /\ named' = named + 1
    /\ left' \in {left, left \cup {p}}
    /\ owed' = owed \cup {p} /\ skipped' = skipped \ {p}
    /\ pc' = "add" /\ arg' = p
    /\ UNCHANGED <<dirs, job, failures, lost, nfailed, ret, dropped, batch,
                   failed, broken, faults>>

(* One turn of the loop in path_make_parents(): mkdir() made a directory   *)
(* whose parent is p, or the operand fails: for mkdir(), or afterwards for *)
(* want of memory for the path of the parent.                              *)
path_make_parents(p) ==
    /\ pc = "naming" /\ named < MaxNamed
    /\ named' = named + 1
    /\ \/ /\ owed' = owed \cup {p} /\ skipped' = skipped \ {p}
          /\ pc' = "add" /\ arg' = p
          /\ UNCHANGED <<failed, faults>>
       \/ Fault /\ failed' = TRUE /\ UNCHANGED <<pc, arg, owed, skipped>>
    /\ UNCHANGED <<dirs, job, failures, lost, nfailed, ret, left, dropped,
                   batch, broken>>

(* Mutant: the room is checked one too late.                               *)
flush_set_add_over ==
    /\ pc = "add"
    /\ \/ arg \in Range(dirs) /\ pc' = "naming" /\ UNCHANGED ret
       \/ /\ arg \notin Range(dirs) /\ Len(dirs) > MaxDirs
          /\ pc' = "open" /\ ret' = "store"
       \/ /\ arg \notin Range(dirs) /\ Len(dirs) <= MaxDirs
          /\ pc' = "store" /\ UNCHANGED ret
    /\ UNCHANGED <<dirs, job, failures, lost, nfailed, arg, left, dropped, batch, named,
                   failed, owed, skipped, broken, faults>>

(* flush_set_add(): known already, no room, or room.                       *)
flush_set_add ==
    /\ pc = "add"
    /\ \/ arg \in Range(dirs) /\ pc' = "naming" /\ UNCHANGED ret
       \/ /\ arg \notin Range(dirs) /\ Len(dirs) = MaxDirs
          /\ pc' = "open" /\ ret' = "store"
       \/ /\ arg \notin Range(dirs) /\ Len(dirs) # MaxDirs
          /\ pc' = "store" /\ UNCHANGED ret
    /\ UNCHANGED <<dirs, job, failures, lost, nfailed, arg, left, dropped, batch, named,
                   failed, owed, skipped, broken, faults>>

AddStore ==
    /\ pc = "store"
    /\ dirs' = Append(dirs, arg)
    /\ pc' = "naming"
    /\ UNCHANGED <<job, failures, lost, nfailed, ret, arg, left, dropped, batch, named,
                   failed, owed, skipped, broken, faults>>

(* Without memory for another path, flush_dir() flushes it at once.        *)
flush_dir ==
    /\ pc = "store"
    /\ faults < MaxFaults
    /\ \/ /\ owed' = owed \ Covered(DirOf[arg])
          /\ NoFailure /\ UNCHANGED skipped
          /\ faults' = faults + 1
       \/ /\ skipped' = skipped \cup {arg}
          /\ NoFailure /\ UNCHANGED owed
          /\ faults' = faults + 1
       \/ /\ faults + 1 < MaxFaults
          /\ faults' = faults + 2
          /\ dir_failed([name |-> arg, known |-> FALSE, dir |-> DirOf[arg]])
          /\ UNCHANGED <<owed, skipped>>
    /\ pc' = "naming"
    /\ UNCHANGED <<dirs, job, ret, arg, left, dropped, batch, named, failed>>

-----------------------------------------------------------------------------
(* Mutant: no directory that cannot be opened is a failure.                *)
RunUnopenedQuiet ==
    /\ pc = "open" /\ dirs # <<>>
    /\ \/ skipped' = skipped \cup {Head(dirs)} /\ UNCHANGED faults
       \/ Fault /\ UNCHANGED skipped
    /\ NoFailure
    /\ dirs' = Tail(dirs)
    /\ UNCHANGED <<job, pc, ret, arg, left, dropped, batch, named, failed, owed>>

(* flush_set_run(), its first loop: one turn for each path waiting.  A     *)
(* directory that may not be opened is no failure.                         *)
RunUnopened ==
    /\ pc = "open" /\ dirs # <<>>
    /\ \/ /\ skipped' = skipped \cup {Head(dirs)}
          /\ NoFailure /\ UNCHANGED faults
       \/ /\ Fault
          /\ dir_failed([name |-> Head(dirs), known |-> FALSE, dir |-> DirOf[Head(dirs)]])
          /\ UNCHANGED skipped
    /\ dirs' = Tail(dirs)
    /\ UNCHANGED <<job, pc, ret, arg, left, dropped, batch, named, failed, owed>>

(* An open directory that is in the job by another path is closed again.   *)
RunOpened ==
    LET path == Head(dirs)
        again == \E f \in Range(job) : f.known /\ f.dir = DirOf[path]
    IN
    /\ pc = "open" /\ dirs # <<>>
    /\ \/ /\ ~again
          /\ job' = Append(job, [name |-> path, known |-> TRUE, dir |-> DirOf[path]])
          /\ UNCHANGED faults
       \/ again /\ UNCHANGED <<job, faults>>
       \/ /\ Fault
          /\ job' = Append(job, [name |-> path, known |-> FALSE, dir |-> DirOf[path]])
    /\ dirs' = Tail(dirs)
    /\ UNCHANGED <<failures, lost, nfailed, pc, ret, arg, left, dropped, batch, named,
                   failed, owed, skipped, broken>>

RunLoopEnds ==
    /\ pc = "open" /\ dirs = <<>>
    /\ pc' = "record"
    /\ UNCHANGED <<dirs, job, failures, lost, nfailed, ret, arg, left, dropped, batch, named,
                   failed, owed, skipped, broken, faults>>

(* flush_fds() and the second loop: the result of each open directory.     *)
RunResult ==
    /\ pc = "record" /\ job # <<>>
    /\ \/ /\ owed' = owed \ Covered(Head(job).dir)
          /\ NoFailure /\ UNCHANGED faults
       \/ Fault /\ dir_failed(Head(job)) /\ UNCHANGED owed
    /\ job' = Tail(job)
    /\ UNCHANGED <<dirs, pc, ret, arg, left, dropped, batch, named, failed, skipped>>

RunReturns ==
    /\ pc = "record" /\ job = <<>>
    /\ pc' = ret /\ ret' = "naming"
    /\ UNCHANGED <<dirs, job, failures, lost, nfailed, arg, left, dropped, batch, named,
                   failed, owed, skipped, broken, faults>>

-----------------------------------------------------------------------------
(* batch_run(): flush_set_run() after settle_batch(), then drop_spares().  *)
flush_set_run ==
    /\ pc = "naming"
    /\ pc' = "open" /\ ret' = "drop"
    /\ UNCHANGED <<dirs, job, failures, lost, nfailed, arg, left, dropped, batch, named,
                   failed, owed, skipped, broken, faults>>

(* dir_unflushed() for one old file.  It may say yes for want of memory or *)
(* because stat() fails.                                                   *)
dir_unflushed(p) ==
    /\ pc = "drop" /\ p \in left
    /\ left' = left \ {p}
    /\ \/ ~flush_set_failed(p) /\ dropped' = dropped \cup {p} /\ UNCHANGED faults
       \/ flush_set_failed(p) /\ UNCHANGED <<dropped, faults>>
       \/ Fault /\ UNCHANGED dropped
    /\ UNCHANGED <<dirs, job, failures, lost, nfailed, pc, ret, arg, batch, named, failed,
                   owed, skipped, broken>>

BatchEnds ==
    /\ pc = "drop" /\ left = {}
    /\ pc' = IF batch < Batches THEN "batch" ELSE "exit"
    /\ UNCHANGED <<dirs, job, failures, lost, nfailed, ret, arg, left, dropped, batch, named,
                   failed, owed, skipped, broken, faults>>

(* batch_run() returns true, as far as directories go.                     *)
ExitOK == pc = "exit" /\ ~failed /\ nfailed = 0

Ended == pc = "exit" /\ UNCHANGED vars

Next ==
    \/ flush_set_forget \/ flush_set_add \/ AddStore \/ flush_dir
    \/ RunUnopened \/ RunOpened \/ RunLoopEnds \/ RunResult \/ RunReturns
    \/ flush_set_run \/ BatchEnds \/ Ended
    \/ \E p \in Paths : name_one(p) \/ path_make_parents(p) \/ dir_unflushed(p)

Spec == Init /\ [][Next]_vars

-----------------------------------------------------------------------------
TypeOK ==
    /\ dirs \in Seq(Paths) /\ Len(dirs) <= MaxDirs
    /\ job \in Seq(Failure) /\ Len(job) + Len(dirs) <= MaxDirs
    /\ failures \in Seq(Failure) /\ Len(failures) <= MaxFailures
    /\ lost \in BOOLEAN /\ failed \in BOOLEAN
    /\ nfailed \in Nat /\ faults \in 0..MaxFaults
    /\ batch \in 0..Batches /\ named \in 0..MaxNamed
    /\ pc \in {"batch", "naming", "add", "store", "open", "record", "drop", "exit"}
    /\ ret \in {"naming", "store", "drop"}
    /\ arg \in Paths \cup {Nothing}
    /\ left \in SUBSET Paths /\ dropped \in SUBSET Paths
    /\ owed \in SUBSET Paths /\ skipped \in SUBSET Paths
    /\ broken \in SUBSET Failure

(* The bounded list of failures stands for all of them: a path of this     *)
(* batch that failed, or another path of a directory that did, is reported *)
(* by flush_set_failed(), however many failed and whatever memory is short.*)
FailuresKept ==
    \A p \in Paths, f \in broken :
        f.name = p \/ (f.known /\ f.dir = DirOf[p]) => flush_set_failed(p)

(* drop_spares() drops an old file only when the name that replaced it has *)
(* been flushed, by whichever path and in whichever run of the set, also   *)
(* one in the middle of naming; a directory that may not be opened is the  *)
(* exception newfile(1) makes.                                             *)
SparesSafe == pc = "drop" => dropped \cap owed \subseteq skipped

(* Exit status 0: every directory that gained a name in any batch, parents *)
(* included, has been flushed since, or may not be opened.                 *)
StatusTrue == ExitOK => owed \subseteq skipped
=============================================================================
