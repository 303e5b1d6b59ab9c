-------------------------------- MODULE Backup -------------------------------
(***************************************************************************)
(* src/src/backup.c, as replace_one() calls it: the second name the old    *)
(* file gets before -f --backup takes its first one.  The listing of the   *)
(* directory, made once a batch, is mem.listed and mem.best, with <<>> for *)
(* a name that has no numbered backup.                                     *)
(***************************************************************************)
EXTENDS Place

(* The highest number among the backups of t in the directory.             *)
Highest(t) ==
    LET taken == {d \in Numbers : backup_split(d) /\ ~Free(dir, Numbered(t, d))}
    IN  IF taken = {} THEN <<>>
        ELSE CHOOSE d \in taken : \A e \in taken : ~digits_less(d, e)

(* backup_dir_get() and backup_best(): listed on first use.  A directory   *)
(* that cannot be listed is not cached.                                    *)
backup_best == IF mem.listed \/ ~kern.list THEN mem.best
               ELSE [t \in Targets |-> Highest(t)]

(* backup_make(): no backup is asked for, or there is nothing to back up.  *)
backup_none ==
    /\ At("replace")
    /\ spec.backup = "no" \/ Free(dir, Path)
    /\ Goto("rename")
    /\ UNCHANGED <<kern, spec, start, dir, unflushed, file, op, pending, held, sig, fr,
                   mem, hist>>

(* backup_make(): lstat of the target, which holds from here on whatever   *)
(* becomes of the name.                                                    *)
backup_make ==
    /\ At("replace")
    /\ spec.backup # "no"
    /\ \/ /\ ~Free(dir, Path)
          /\ mem' = [mem EXCEPT !.old = dir[Path]]
          /\ Goto(IF spec.backup = "simple" THEN "simple" ELSE "number")
          /\ UNCHANGED hist
       \/ Fault /\ Goto("fail") /\ UNCHANGED mem
    /\ UNCHANGED <<kern, spec, start, dir, unflushed, file, op, pending, held, sig, fr>>

(* backup_next(): the first number to try, or a simple backup.             *)
backup_next ==
    /\ At("number")
    /\ LET best     == backup_best[Path]
           numbered == \/ spec.backup = "numbered"
                       \/ best # <<>>
                       \/ ~kern.list /\ ~Free(dir, Numbered(Path, <<1>>))
       IN  \/ /\ mem' = [mem EXCEPT !.listed = kern.list, !.best = backup_best,
                                    !.num = IF best = <<>> THEN <<1>>
                                            ELSE digits_inc(best)]
              /\ Goto(IF numbered THEN "numbered" ELSE "simple")
              /\ UNCHANGED hist
           \/ Fault /\ Goto("fail") /\ UNCHANGED mem
    /\ UNCHANGED <<kern, spec, start, dir, unflushed, file, op, pending, held, sig, fr>>

(* backup_link() of the target to name n: link() finds out by itself what  *)
(* the target holds, while the slot gets what lstat saw.                   *)
backup_link(n, then) ==
    /\ kern.hardlink
    /\ ~Free(dir, Path)
    /\ Free(dir, n)
    /\ Made("backup", BackupSlot, n, dir[Path], mem.old, FALSE, then)

NoLink ==
    /\ \/ (~kern.hardlink \/ Free(dir, Path)) /\ UNCHANGED hist
       \/ Fault
    /\ Goto("fail")
    /\ UNCHANGED <<dir, unflushed, held, fr>>

(* Mutant: EEXIST tries the same number again.                             *)
backup_numbered_stuck ==
    LET n == Numbered(Path, mem.num) IN
    /\ At("numbered")
    /\ mem.num \in Numbers
    /\ \/ backup_link(n, "note") /\ UNCHANGED <<mem, hist>>
       \/ NoLink /\ UNCHANGED mem
       \/ kern.hardlink /\ ~Free(dir, n)
          /\ UNCHANGED <<dir, unflushed, held, fr, ctl, mem, hist>>
    /\ UNCHANGED <<kern, spec, start, file, op, pending, sig>>

(* One turn of the loop in backup_numbered(): a number somebody took since *)
(* the listing sends it on to the next.                                    *)
backup_numbered ==
    LET n == Numbered(Path, mem.num) IN
    /\ At("numbered")
    /\ mem.num \in Numbers
    /\ \/ backup_link(n, "note") /\ UNCHANGED <<mem, hist>>
       \/ /\ kern.hardlink /\ ~Free(dir, Path) /\ ~Free(dir, n)
          /\ mem' = [mem EXCEPT !.num = digits_inc(@)]
          /\ UNCHANGED <<dir, unflushed, held, fr, ctl, hist>>
       \/ NoLink /\ UNCHANGED mem
    /\ UNCHANGED <<kern, spec, start, file, op, pending, sig>>

(* Bound: past Numbers digits_inc() runs out of memory.                    *)
OutOfNumbers ==
    /\ At("numbered")
    /\ mem.num \notin Numbers
    /\ Goto("fail")
    /\ UNCHANGED <<kern, spec, start, dir, unflushed, file, op, pending, held, sig, fr,
                   mem, hist>>

(* Mutant: the number after the one used is noted.                         *)
backup_note_next ==
    /\ At("note")
    /\ mem' = IF mem.listed /\ ~digits_less(mem.num, mem.best[Path])
              THEN [mem EXCEPT !.best[Path] = digits_inc(mem.num)] ELSE mem
    /\ Goto("backed")
    /\ UNCHANGED <<kern, spec, start, dir, unflushed, file, op, pending, held, sig, fr,
                   hist>>

(* backup_note(): the next operand of the same name starts after this one. *)
backup_note ==
    /\ At("note")
    /\ \/ /\ mem' = IF mem.listed /\ digits_less(mem.best[Path], mem.num)
                    THEN [mem EXCEPT !.best[Path] = mem.num] ELSE mem
          /\ UNCHANGED hist
       \/ Fault /\ UNCHANGED mem
    /\ Goto("backed")
    /\ UNCHANGED <<kern, spec, start, dir, unflushed, file, op, pending, held, sig, fr>>

(* backup_simple(): link to the free name; else a temporary alias of the   *)
(* old file is renamed over the backup there is.                           *)
backup_simple ==
    /\ At("simple")
    /\ \/ backup_link(Simple(Path), "backed") /\ UNCHANGED hist
       \/ /\ kern.hardlink /\ ~Free(dir, Path) /\ ~Free(dir, Simple(Path))
          /\ Goto("alias") /\ UNCHANGED <<dir, unflushed, held, fr, hist>>
       \/ NoLink
    /\ UNCHANGED <<kern, spec, start, file, op, pending, sig, mem>>

place_temp_alias ==
    /\ At("alias")
    /\ \/ /\ ~Free(dir, Path)
          /\ temp_make("alias", BackupSlot, dir[Path], mem.old, FALSE, "overbackup")
          /\ UNCHANGED hist
       \/ Free(dir, Path) /\ Goto("fail") /\ UNCHANGED <<dir, unflushed, held, fr, hist>>
       \/ NoTemp("fail")
    /\ UNCHANGED <<kern, spec, start, file, op, pending, sig, mem>>

(* The previous simple backup is given up here.  A rename between two      *)
(* names of one file does nothing, so the alias is removed in any case.    *)
OverBackup ==
    LET n == Simple(Path) IN
    /\ At("overbackup")
    /\ \/ /\ SetDir(Rename(dir, fr.path, n))
          /\ hist' = IF dir[fr.path] = dir[n] THEN hist
                     ELSE [hist EXCEPT !.forgone = @ \cup {dir[n]}]
          /\ op' = [op EXCEPT ![Cur].backup = n]
          /\ pending_remove(BackupSlot, TRUE, "backed")
       \/ /\ Fault
          /\ pending_remove(BackupSlot, FALSE, "fail")
          /\ UNCHANGED <<dir, unflushed, op>>
    /\ UNCHANGED <<kern, spec, start, file, pending, held, sig, mem>>

BackupStep == backup_none \/ backup_make \/ backup_next \/ backup_numbered
              \/ OutOfNumbers \/ backup_note \/ backup_simple \/ place_temp_alias
              \/ OverBackup
=============================================================================
