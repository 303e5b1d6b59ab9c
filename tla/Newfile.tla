------------------------------- MODULE Newfile -------------------------------
(***************************************************************************)
(* What newfile(1) promises its user, stated of the program in Batch.      *)
(***************************************************************************)
EXTENDS Batch

(* New(i) has all that was asked of it.                                    *)
Finished(i) == /\ file[i].content = Content
               /\ file[i].owned = SetOwner
               /\ file[i].perm = "asked"
               /\ file[i].special = spec.special

Holds(d, x) == \E n \in Names : d[n] = x

(* A step of the program or its handler, not of another process.           *)
OurStep == hist'.other = hist.other

(* No operand is in the middle of a call.                                  *)
Between == ctl.pc \in {"batch", "flush", "closing", "naming", "settle", "tidying",
                       "sync", "release", "report", "exit", "killed"}

Last(t) == CHOOSE i \in Ops : Operand[i] = t /\ \A j \in Ops : Operand[j] = t => j <= i

-----------------------------------------------------------------------------
TypeOK ==
    /\ kern \in Kernels
    /\ spec \in Specs
    /\ start \in [Names -> Inodes \cup {None}]
    /\ dir \in [Names -> Inodes \cup {None}]
    /\ unflushed \in BOOLEAN
    /\ file \in [Ops -> [content : BOOLEAN, owned : BOOLEAN, perm : {"0600", "asked"},
                         special : BOOLEAN, flushed : BOOLEAN]]
    /\ op \in [Ops -> [way : {"plain", "unnamed", "temp"},
                       tmp : Temps \cup {None}, backup : Names \cup {None},
                       spare : Temps \cup {None},
                       fail : {"no", "build", "flush", "close", "name", "settle", "tidy"},
                       fd : BOOLEAN, leftover : BOOLEAN]]
    /\ pending \in [Slots -> [path : Names \cup {None}, ino : Inodes \cup {None}]]
    /\ held \in 0..2
    /\ sig \in {"none", "pending", "caught"}
    /\ mem.num \in {<<>>, <<1>>} \cup Numbers \cup {digits_inc(d) : d \in Numbers}
    /\ mem.best \in [Targets -> Numbers \cup {<<>>}]
    /\ hist \in HistTypes

(* Without -f no step of the program or of its signal handler takes a name *)
(* from a file it did not make itself, whichever call (O_EXCL, link,       *)
(* RENAME_NOREPLACE or the placeholder) gives the name and whoever else    *)
(* makes files there: place_commit(), fast_link(), remove_ours().          *)
NoReplace ==
    [][~spec.force /\ OurStep =>
          \A n \in Names : dir[n] \in Foreign => dir'[n] = dir[n]]_vars

(* With -f the path itself never stops existing and never shows anything   *)
(* but the file it held or a finished, flushed replacement, whatever fails *)
(* or is interrupted: rename and exchange in replace_one(), the removals   *)
(* in op_fail(), drop_spares() and cleanup_handler().                      *)
OldOrNew ==
    [][spec.force /\ OurStep =>
          \A t \in Targets : dir'[t] # dir[t] =>
              \E i \in Ops : /\ dir'[t] = New(i) /\ Operand[i] = t
                             /\ Finished(i) /\ file[i].flushed]_vars

(* With --backup no step of the program takes the last name of a file that *)
(* is not its own, except the simple backup that the next one replaces     *)
(* and, in the final rename, a file another process has just put there.    *)
KeepsForeign ==
    [][spec.backup # "no" /\ OurStep =>
          \A x \in {dir[n] : n \in Names} \cap Foreign : ~Holds(dir', x) =>
              x \in hist'.forgone \/ (ctl.pc = "rename" /\ x \in Others)]_vars

(* A path, or the backup of one, never holds a new file that lacks content,*)
(* owner or mode, or whose content is not flushed: the order of            *)
(* finish_built(), flush_batch() and name_one(), and the set-id bits that  *)
(* writing and chown clear.                                                *)
FinishedWhenNamed ==
    \A i \in Ops, n \in Names \ Temps : dir[n] = New(i) =>
        Finished(i) /\ (op[i].way # "plain" => file[i].flushed)

(* While it has only a temporary name and is not finished, a new file is   *)
(* at mode 0600 without set-id bits, also when it starts out unnamed with  *)
(* its own mode and is linked early because -o gives it away.              *)
PrivateUntilFinal ==
    \A i \in Ops, n \in Temps : dir[n] = New(i) /\ ~Finished(i) =>
        file[i].perm = "0600" /\ ~file[i].special

(* A file that failed before it was named is under no name, once op_fail() *)
(* or the handler is through, unless the kernel refused the removal.       *)
FailedNeverAppears ==
    Between => \A i \in Ops, n \in Names :
        op[i].fail \in {"build", "flush", "close", "name"} /\ dir[n] = New(i) =>
            n \in hist.refused

(* However the run ends, by itself or by a signal at any moment, it leaves *)
(* no temporary name behind, except one the kernel refused to remove or    *)
(* one drop_spares() kept; another process's file is not touched.          *)
TempsGone ==
    Over => \A n \in Temps :
        dir[n] \in Others \cup {None} \/ n \in hist.refused \cup hist.kept

(* A signal leaves every path as it was or finished, flushed if it was not *)
(* created in place; a file created in place whose flush had not been seen *)
(* through is taken away again: cleanup_handler() and the slots.           *)
Interrupted ==
    ctl.pc = "killed" => \A t \in Targets :
        \/ dir[t] = start[t]
        \/ dir[t] \in Others \cup {None} /\ hist.other > 0
        \/ \E i \in Ops : dir[t] = New(i) /\ Operand[i] = t /\ Finished(i) /\ file[i].flushed
        \/ t \in hist.refused

(* A backup that was newly made for a replacement that then failed, or was *)
(* interrupted, is gone again: PENDING_BACKUP.                             *)
NoOrphanBackup ==
    Over /\ hist.other = 0 => \A t \in Targets : \A b \in Backups(t) :
        start[b] = None /\ start[t] # None /\ dir[b] = start[t] =>
            dir[t] # start[t] \/ b \in hist.refused

(* Where the directory can be listed, a numbered backup this run makes is  *)
(* above every number that was in use before and still is, whatever the    *)
(* lengths of the numbers: digits_inc() and digits_cmp(), the listing and  *)
(* the notes that backup_note() adds to it.                                *)
BackupAbove ==
    kern.list => \A t \in Targets :
        LET made == {d \in Numbers : LET name == Numbered(t, d) IN
                        start[name] = None /\ dir[name] \in Ours \cup {Old(t)}}
            used == {d \in Numbers : LET name == Numbered(t, d) IN
                        backup_split(d) /\ start[name] # None /\ dir[name] = start[name]}
        IN  \A d \in made, e \in used : Value(e) < Value(d)

(* Exit status 0 means that each path holds the file of its last operand,  *)
(* finished and flushed, and that no name is left over but those that      *)
(* drop_spares() kept with a warning: no failure of any call in any phase  *)
(* is lost on the way to main().                                           *)
ExitZero ==
    ExitOK => /\ \A i \in Ops : LET t == Operand[i] IN
                   \/ /\ dir[t] = New(Last(t)) /\ Finished(Last(t))
                      /\ file[Last(t)].flushed
                   \/ hist.other > 0
              /\ \A n \in Temps : dir[n] = None \/ dir[n] \in Others \/ n \in hist.kept

(* Every path that an armed slot points to is a string that is still       *)
(* allocated: the operand, tmppath, spare or backup_name of an operand of  *)
(* this slot, or the name local to the call in progress.  The handler      *)
(* reads these pointers at any moment.                                     *)
ArmedOwned ==
    sig # "caught" => \A s \in Slots : Armed(s) =>
        \/ pending[s].path = fr.path
              /\ ctl.pc \in {"probed", "overbackup", "lstat", "unlink"}
        \/ s = BackupSlot /\ pending[s].path = op[Cur].backup
        \/ \E i \in Batch : Slot(i) = s /\ pending[s].path \in
                               {Operand[i], op[i].tmp, op[i].spare}

-----------------------------------------------------------------------------
(* Stated by newfile(1) and refuted: see the README on findings.           *)

(* With --backup, where names can be exchanged, a file another process     *)
(* puts at the path during the replacement keeps a name.                   *)
KeepsOthers ==
    [][spec.backup # "no" /\ kern.exchange /\ OurStep =>
          \A x \in Others \ hist.forgone : Holds(dir, x) => Holds(dir', x)]_vars

-----------------------------------------------------------------------------
(* The run ends.                                                           *)
Terminates == <>Over

(* A signal is acted on: every hold is released before the run ends, so    *)
(* one that comes while names are exchanged is not lost.                   *)
SignalActs == (sig = "pending") ~> (ctl.pc = "killed")
=============================================================================
