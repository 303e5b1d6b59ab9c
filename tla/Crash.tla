-------------------------------- MODULE Crash --------------------------------
(***************************************************************************)
(* What is on the disk while Newfile runs, and so after a power loss at    *)
(* any moment.  External: the filesystem, modelled from what the program   *)
(* relies on.  Each call changes its names atomically; the changes since   *)
(* the last fsync of the directory may or may not have reached the disk,   *)
(* in any combination, except that a change to a name does not get there   *)
(* before the changes to that name that came earlier.                      *)
(***************************************************************************)
EXTENDS Newfile, Sequences

VARIABLES disk,   \* the directory at its last fsync
          log     \* the changes since, each a function on the names changed

crashVars == <<vars, disk, log>>

Changed == {n \in Names : dir'[n] # dir[n]}

Record ==
    IF unflushed /\ ~unflushed' THEN disk' = dir' /\ log' = <<>>
    ELSE /\ disk' = disk
         /\ log' = IF Changed = {} THEN log ELSE Append(log, [n \in Changed |-> dir'[n]])

CrashSpec == /\ Init /\ disk = dir /\ log = <<>>
             /\ [][Next /\ Record]_crashVars

(* The sets of changes that can be on the disk, and the directory each     *)
(* leaves there.                                                           *)
Reached == {s \in SUBSET DOMAIN log :
              \A k \in s, j \in DOMAIN log :
                  j < k /\ DOMAIN log[j] \cap DOMAIN log[k] # {} => j \in s}

Image(s) == [n \in Names |->
    LET at == {k \in s : n \in DOMAIN log[k]} IN
    IF at = {} THEN disk[n]
    ELSE log[CHOOSE k \in at : \A m \in at : m <= k][n]]

-----------------------------------------------------------------------------
(* With --backup a crash at any moment leaves the old file a name: its     *)
(* own, the backup's, or the temporary one it was exchanged to, whichever  *)
(* of link, exchange, rename and unlink the disk has seen.  (Not a file    *)
(* whose only backup the same run has replaced by the next.)               *)
CrashKeepsOld ==
    spec.backup # "no" => \A s \in Reached : \A t \in Targets :
        start[t] \in Foreign \ hist.forgone => Holds(Image(s), start[t])

(* With -f a crash finds the path with the old file or a new one that is   *)
(* finished and flushed, never without a file.                             *)
CrashOldOrNew ==
    spec.force => \A s \in Reached : \A t \in Targets : start[t] # None =>
        \/ Image(s)[t] = start[t]
        \/ \E i \in Ops : Image(s)[t] = New(i) /\ Finished(i) /\ file[i].flushed

(* After exit status 0 every path holds its file whatever happens: no      *)
(* change of a path is outstanding when main() returns.                    *)
ExitDurable ==
    ExitOK => \A s \in Reached : \A i \in Ops :
        Image(s)[Operand[i]] = New(Last(Operand[i]))
=============================================================================
