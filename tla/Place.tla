-------------------------------- MODULE Place --------------------------------
(***************************************************************************)
(* src/src/place.c: making a name (a file opened with O_EXCL, or a link)   *)
(* and arming it with signals held, and the calls that give a finished     *)
(* file its own name.                                                      *)
(*                                                                         *)
(* fr.what says who asked for the name: "plain" and "temp" for a file      *)
(* opened, "probe", "link" for the new file linked to a temporary name,    *)
(* "alias" and "backup" for a second name of the old file, "over" for the  *)
(* placeholder.                                                            *)
(***************************************************************************)
EXTENDS Pending

(* The name exists and signals are held; ino is what the caller's stat     *)
(* says it holds, x what it does hold.                                     *)
Made(what, s, n, x, ino, opened, then) ==
    /\ held' = held + 1
    /\ SetDir(Bind(dir, n, x))
    /\ fr' = [what |-> what, slot |-> s, path |-> n, ino |-> ino, flag |-> opened,
              then |-> then]
    /\ Goto("made")

(* temp_make(): a name that is free, found within TEMP_TRIES.              *)
temp_make(what, s, x, ino, opened, then) ==
    \E n \in Temps : Free(dir, n) /\ Made(what, s, n, x, ino, opened, then)

(* temp_make() gives up: a call failed, or no name was free in TEMP_TRIES. *)
NoTemp(l) ==
    /\ Fault
    /\ Goto(l)
    /\ UNCHANGED <<dir, unflushed, held, fr>>

(* pending_arm() and pending_release(), and the caller's record of what it *)
(* was given: finish_built() turns an unnamed file it links early into one *)
(* with a temporary name, name_one() does not.  The placeholder is not     *)
(* armed: signals stay held until the rename over it.                      *)
Arm ==
    /\ At("made")
    /\ IF fr.what = "over" THEN UNCHANGED <<pending, held>>
       ELSE /\ pending' = [pending EXCEPT ![fr.slot] = [path |-> fr.path, ino |-> fr.ino]]
            /\ held' = held - 1
    /\ op' = CASE fr.what = "plain"  -> [op EXCEPT ![Cur].fd = TRUE]
               [] fr.what = "temp"   -> [op EXCEPT ![Cur].fd = TRUE, ![Cur].tmp = fr.path]
               [] fr.what = "link"   -> [op EXCEPT ![Cur].tmp = fr.path,
                                            ![Cur].way = IF ctl.loop = "build" THEN "temp"
                                                         ELSE @]
               [] fr.what = "backup" -> [op EXCEPT ![Cur].backup = fr.path]
               [] OTHER              -> op
    /\ Goto(fr.then)
    /\ UNCHANGED <<kern, spec, start, dir, unflushed, file, sig, fr, mem, hist>>

(* create_excl() when the fstat after its open fails: the name is unlinked *)
(* as it stands, and a failure of that goes unseen.                        *)
UndoOpen ==
    /\ At("made")
    /\ fr.flag
    /\ \/ Fault /\ SetDir(Bind(dir, fr.path, None))
       \/ /\ hist.faults + 1 < MaxFaults
          /\ hist' = [hist EXCEPT !.faults = @ + 2, !.refused = @ \cup {fr.path}]
          /\ UNCHANGED <<dir, unflushed>>
    /\ held' = held - 1
    /\ Goto("fail")
    /\ UNCHANGED <<kern, spec, start, file, op, pending, sig, fr, mem>>

(* place_probe_mode(), once the probe is made: close it and remove it.     *)
ProbeDone ==
    /\ At("probed")
    /\ \/ /\ mem' = [mem EXCEPT !.probed = TRUE]
          /\ pending_remove(fr.slot, TRUE, "open")
          /\ UNCHANGED hist
       \/ /\ Fault
          /\ pending_remove(fr.slot, FALSE, "fail")
          /\ UNCHANGED mem
    /\ UNCHANGED <<kern, spec, start, dir, unflushed, file, op, pending, held, sig>>

-----------------------------------------------------------------------------
(* place_commit(): the first of rename without replacing, link and         *)
(* placeholder that the system can do; the first two fail if the target is *)
(* taken.                                                                  *)
CommitRename ==
    /\ At("commit") /\ kern.noreplace
    /\ \/ /\ Free(dir, Path)
          /\ SetDir(Rename(dir, op[Cur].tmp, Path))
          /\ Goto("commitclear") /\ UNCHANGED hist
       \/ /\ \/ ~Free(dir, Path) /\ UNCHANGED hist
             \/ Fault
          /\ Goto("fail") /\ UNCHANGED <<dir, unflushed>>
    /\ UNCHANGED <<kern, spec, start, file, op, pending, held, sig, fr, mem>>

(* Mutant: the slot outlives tmppath.                                      *)
CommitKeep ==
    /\ At("commitclear")
    /\ op' = [op EXCEPT ![Cur].tmp = None]
    /\ Goto("named")
    /\ UNCHANGED <<kern, spec, start, dir, unflushed, file, pending, held, sig, fr, mem,
                   hist>>

(* The slot is cleared with signals free: a handler in between finds the   *)
(* temporary name gone.  name_one() frees the name once no slot has it.    *)
CommitClear ==
    /\ At("commitclear")
    /\ pending' = pending_clear(pending, Slot(Cur))
    /\ op' = [op EXCEPT ![Cur].tmp = None]
    /\ Goto("named")
    /\ UNCHANGED <<kern, spec, start, dir, unflushed, file, held, sig, fr, mem, hist>>

CommitLink ==
    /\ At("commit") /\ ~kern.noreplace /\ kern.hardlink
    /\ \/ /\ Free(dir, Path)
          /\ SetDir(Bind(dir, Path, dir[op[Cur].tmp]))
          /\ Goto("named") /\ UNCHANGED hist
       \/ /\ \/ ~Free(dir, Path) /\ UNCHANGED hist
             \/ Fault
          /\ Goto("fail") /\ UNCHANGED <<dir, unflushed>>
    /\ UNCHANGED <<kern, spec, start, file, op, pending, held, sig, fr, mem>>

(* place_over(): the placeholder takes the name, or it is taken.           *)
CommitOver ==
    /\ At("commit") /\ ~kern.noreplace /\ ~kern.hardlink
    /\ \/ /\ Free(dir, Path)
          /\ Made("over", 0, Path, Hold(Cur), Hold(Cur), TRUE, "over")
          /\ UNCHANGED hist
       \/ /\ \/ ~Free(dir, Path) /\ UNCHANGED hist
             \/ Fault
          /\ Goto("fail") /\ UNCHANGED <<dir, unflushed, held, fr>>
    /\ UNCHANGED <<kern, spec, start, file, op, pending, sig, mem>>

(* place_over(): rename over the placeholder, or remove it again.          *)
OverRename ==
    /\ At("over")
    /\ \/ /\ SetDir(Rename(dir, op[Cur].tmp, Path))
          /\ Goto("renamed") /\ UNCHANGED <<fr, hist>>
       \/ /\ Fault
          /\ fr' = [fr EXCEPT !.what = "remove", !.flag = FALSE, !.then = "overfailed"]
          /\ Goto("lstat") /\ UNCHANGED <<dir, unflushed>>
    /\ UNCHANGED <<kern, spec, start, file, op, pending, held, sig, mem>>

OverFailed ==
    /\ At("overfailed")
    /\ held' = held - 1
    /\ Goto("fail")
    /\ UNCHANGED <<kern, spec, start, dir, unflushed, file, op, pending, sig, fr, mem, hist>>

(* place_rename(): -f takes the name over, whatever holds it.  A failure   *)
(* takes the backup of this operand back first.                            *)
ReplaceRename ==
    /\ At("rename")
    /\ \/ /\ held' = held + 1
          /\ SetDir(Rename(dir, op[Cur].tmp, Path))
          /\ Goto("renamed") /\ UNCHANGED <<fr, hist>>
       \/ /\ Fault
          /\ pending_remove(BackupSlot, FALSE, "fail")
          /\ UNCHANGED <<dir, unflushed, held>>
    /\ UNCHANGED <<kern, spec, start, file, op, pending, sig, mem>>

(* The slots are cleared and signals released after either rename.         *)
Renamed ==
    /\ At("renamed")
    /\ pending' = IF spec.force
                  THEN pending_clear(pending_clear(pending, Slot(Cur)), BackupSlot)
                  ELSE pending_clear(pending, Slot(Cur))
    /\ held' = held - 1
    /\ op' = [op EXCEPT ![Cur].tmp = None]
    /\ Goto("named")
    /\ UNCHANGED <<kern, spec, start, dir, unflushed, file, sig, fr, mem, hist>>

(* place_exchange(): the old file takes the temporary name, and from then  *)
(* on the slot guards the old file's inode.  replace_one() keeps signals   *)
(* held until drop_spares() once an exchange has worked.                   *)
ExchangeNames ==
    /\ At("backed") /\ kern.exchange
    /\ \/ /\ ~Free(dir, Path)
          /\ SetDir(Exchange(dir, op[Cur].tmp, Path))
          /\ held' = IF mem.spareHeld THEN held ELSE held + 1
          /\ mem' = [mem EXCEPT !.spareHeld = TRUE]
          /\ Goto("exchanged") /\ UNCHANGED <<fr, hist>>
       \/ /\ \/ Free(dir, Path) /\ UNCHANGED hist
             \/ Fault
          /\ pending_remove(BackupSlot, FALSE, "fail")
          /\ UNCHANGED <<dir, unflushed, held, mem>>
    /\ UNCHANGED <<kern, spec, start, file, op, pending, sig>>

(* Mutant: no pending_retarget().                                          *)
ExchangedSame ==
    /\ At("exchanged")
    /\ pending' = pending_clear(pending, BackupSlot)
    /\ op' = [op EXCEPT ![Cur].spare = op[Cur].tmp, ![Cur].tmp = None]
    /\ Goto("named")
    /\ UNCHANGED <<kern, spec, start, dir, unflushed, file, held, sig, fr, mem, hist>>

(* Mutant: the slot is armed with what the exchange brought, not with what *)
(* was backed up.                                                          *)
ExchangedFresh ==
    /\ At("exchanged")
    /\ pending' = pending_clear([pending EXCEPT ![Slot(Cur)].ino = dir[op[Cur].tmp]],
                                BackupSlot)
    /\ op' = [op EXCEPT ![Cur].spare = op[Cur].tmp, ![Cur].tmp = None]
    /\ Goto("named")
    /\ UNCHANGED <<kern, spec, start, dir, unflushed, file, held, sig, fr, mem, hist>>

Exchanged ==
    /\ At("exchanged")
    /\ pending' = pending_clear([pending EXCEPT ![Slot(Cur)].ino = mem.old], BackupSlot)
    /\ op' = [op EXCEPT ![Cur].spare = op[Cur].tmp, ![Cur].tmp = None]
    /\ Goto("named")
    /\ UNCHANGED <<kern, spec, start, dir, unflushed, file, held, sig, fr, mem, hist>>

PlaceStep == Arm \/ UndoOpen \/ ProbeDone \/ CommitRename \/ CommitClear \/ CommitLink
             \/ CommitOver \/ OverRename \/ OverFailed \/ ReplaceRename \/ Renamed
             \/ ExchangeNames \/ Exchanged
=============================================================================
