-------------------------------- MODULE Batch --------------------------------
(***************************************************************************)
(* src/src/batch.c: batch_run().  The operands are taken in batches; each  *)
(* batch is built, flushed, named, settled (flushed again under its name), *)
(* and its directory flushed; then the old files that were exchanged away  *)
(* are dropped and the results reported.                                   *)
(***************************************************************************)
EXTENDS Backup

Content  == spec.content
SetOwner == spec.owner # "keep"

SetFile(f) == file' = [file EXCEPT ![Cur] = f]

(* place_create() alone is enough for an operand that asks for nothing.    *)
IsPlain == ~Content /\ ~SetOwner /\ ~spec.absolute /\ ~spec.force

(* Mutant: fchown is skipped when there is content.                        *)
AfterFillMode == "chmod"

(* fill_one(), fchown and fchmod, in this order.                           *)
AfterFill == IF SetOwner THEN "chown" ELSE "chmod"
Finish    == IF Content THEN "fill" ELSE AfterFill

-----------------------------------------------------------------------------
(* batch_run(): the head of its loop.                                      *)
batch_run ==
    /\ At("batch")
    /\ mem' = [mem EXCEPT !.dirfailed = FALSE, !.probed = FALSE]
    /\ ctl' = Loop("build", Batch)
    /\ UNCHANGED <<kern, spec, start, dir, unflushed, file, op, pending, held, sig, fr,
                   hist>>

(* build_one(), up to open_built(): the operand is refused, opened at its  *)
(* own path, or opened without a name of its own.                          *)
build_one ==
    /\ At("build")
    /\ \/ /\ IsPlain /\ Free(dir, Path)
          /\ Made("plain", Slot(Cur), Path, New(Cur), New(Cur), TRUE, "next")
          /\ op' = [op EXCEPT ![Cur] = NewOp]
          /\ SetFile([NewFile EXCEPT !.special = spec.special])
          /\ UNCHANGED hist
       \/ /\ ~IsPlain /\ (Content /\ ~spec.force => Free(dir, Path))
          /\ op' = [op EXCEPT ![Cur] = [NewOp EXCEPT
                      !.way = IF kern.tmpfile THEN "unnamed" ELSE "temp",
                      !.fd = kern.tmpfile]]
          /\ SetFile([NewFile EXCEPT
                        !.perm = IF spec.absolute \/ ~kern.tmpfile THEN "0600" ELSE "asked",
                        !.special = kern.tmpfile /\ ~spec.absolute /\ spec.special])
          /\ Goto(IF ~kern.tmpfile THEN (IF spec.absolute \/ mem.probed THEN "open" ELSE "probe")
                  ELSE IF spec.owner = "user" THEN "private" ELSE Finish)
          /\ UNCHANGED <<dir, unflushed, held, fr, hist>>
       \/ /\ \/ ~Free(dir, Path) /\ (IsPlain \/ (Content /\ ~spec.force)) /\ UNCHANGED hist
             \/ Fault
          /\ op' = [op EXCEPT ![Cur] = NewOp]
          /\ Goto("fail")
          /\ UNCHANGED <<dir, unflushed, file, held, fr>>
    /\ UNCHANGED <<kern, spec, start, pending, sig, mem>>

(* open_built() where unnamed files cannot be had: probe the mode a file   *)
(* gets in this directory, then open a private temporary one.              *)
place_probe_mode ==
    /\ At("probe")
    /\ \/ temp_make("probe", Slot(Cur), Probe(Cur), Probe(Cur), TRUE, "probed") /\ UNCHANGED hist
       \/ NoTemp("fail")
    /\ UNCHANGED <<kern, spec, start, file, op, pending, sig, mem>>

open_built ==
    /\ At("open")
    /\ \/ temp_make("temp", Slot(Cur), New(Cur), New(Cur), TRUE, Finish) /\ UNCHANGED hist
       \/ NoTemp("fail")
    /\ UNCHANGED <<kern, spec, start, file, op, pending, sig, mem>>

(* Mutant: the unnamed file is linked with the mode it has.                *)
FinishPublic ==
    /\ At("private")
    /\ Goto("templink")
    /\ UNCHANGED <<kern, spec, start, dir, unflushed, file, op, pending, held, sig, fr, mem,
                   hist>>

(* finish_built(): a file about to change owner gets a name, made private  *)
(* first, while linking it is still allowed.                               *)
FinishPrivate ==
    /\ At("private")
    /\ \/ /\ SetFile([file[Cur] EXCEPT !.perm = "0600", !.special = FALSE])
          /\ Goto("templink") /\ UNCHANGED hist
       \/ Fault /\ Goto("fail") /\ UNCHANGED file
    /\ UNCHANGED <<kern, spec, start, dir, unflushed, op, pending, held, sig, fr, mem>>

FinishLink ==
    /\ At("templink")
    /\ \/ temp_make("link", Slot(Cur), New(Cur), New(Cur), FALSE, Finish) /\ UNCHANGED hist
       \/ NoTemp("fail")
    /\ UNCHANGED <<kern, spec, start, file, op, pending, sig, mem>>

(* fill_one(); writing clears the set-id bits.                             *)
fill_one ==
    /\ At("fill")
    /\ \/ /\ SetFile([file[Cur] EXCEPT !.content = TRUE, !.special = FALSE])
          /\ Goto(AfterFill) /\ UNCHANGED hist
       \/ Fault /\ Goto("fail") /\ UNCHANGED file
    /\ UNCHANGED <<kern, spec, start, dir, unflushed, op, pending, held, sig, fr, mem>>

(* fchown clears them as well.                                             *)
FinishOwner ==
    /\ At("chown")
    /\ \/ /\ SetFile([file[Cur] EXCEPT !.owned = TRUE, !.special = FALSE])
          /\ Goto("chmod") /\ UNCHANGED hist
       \/ Fault /\ Goto("fail") /\ UNCHANGED file
    /\ UNCHANGED <<kern, spec, start, dir, unflushed, op, pending, held, sig, fr, mem>>

FinishMode ==
    /\ At("chmod")
    /\ \/ /\ SetFile([file[Cur] EXCEPT !.perm = "asked", !.special = spec.special])
          /\ Goto("next") /\ UNCHANGED hist
       \/ Fault /\ Goto("fail") /\ UNCHANGED file
    /\ UNCHANGED <<kern, spec, start, dir, unflushed, op, pending, held, sig, fr, mem>>

-----------------------------------------------------------------------------
(* The operands of the batch that have not failed, and those still open.   *)
Kept   == {i \in Batch : op[i].fail = "no"}
Opened == {i \in Kept : op[i].fd}

(* flush_ops(): flush_fds() on what is open, then op_fail() for each that  *)
(* could not be flushed.                                                   *)
flush_ops(l) ==
    \E bad \in SUBSET Opened :
        /\ hist.faults + Cardinality(bad) <= MaxFaults
        /\ hist' = [hist EXCEPT !.faults = @ + Cardinality(bad)]
        /\ file' = [i \in Ops |-> IF i \in Opened \ bad
                                  THEN [file[i] EXCEPT !.flushed = TRUE] ELSE file[i]]
        /\ ctl' = Loop(l, bad)

(* Mutant: files are named first and flushed afterwards.                   *)
FlushLater ==
    /\ At("flush")
    /\ ctl' = Loop("flush", {})
    /\ UNCHANGED <<kern, spec, start, dir, unflushed, file, op, pending, held, sig, fr,
                   mem, hist>>

(* flush_batch(): flush, and close the files that have their name.         *)
flush_batch ==
    /\ At("flush")
    /\ flush_ops("flush")
    /\ UNCHANGED <<kern, spec, start, dir, unflushed, op, pending, held, sig, fr, mem>>

FlushClose ==
    /\ At("closing")
    /\ ctl' = Loop("close", {i \in Opened : op[i].way = "plain"})
    /\ UNCHANGED <<kern, spec, start, dir, unflushed, file, op, pending, held, sig, fr,
                   mem, hist>>

close_op ==
    /\ At("close")
    /\ op' = [op EXCEPT ![Cur].fd = FALSE]
    /\ \/ Goto("next") /\ UNCHANGED hist
       \/ Fault /\ Goto("fail")
    /\ UNCHANGED <<kern, spec, start, dir, unflushed, file, pending, held, sig, fr, mem>>

-----------------------------------------------------------------------------
(* batch_run(): backup_cache_reset() and the loop over name_one().         *)
NameBatch ==
    /\ At("naming")
    /\ mem' = [mem EXCEPT !.listed = FALSE, !.best = [t \in Targets |-> <<>>]]
    /\ ctl' = Loop("name", Kept)
    /\ UNCHANGED <<kern, spec, start, dir, unflushed, file, op, pending, held, sig, fr,
                   hist>>

(* name_one(), by the way the file was made.                               *)
NameForce ==
    /\ At("name") /\ spec.force
    /\ \/ /\ op[Cur].way = "unnamed"
          /\ \/ temp_make("link", Slot(Cur), New(Cur), New(Cur), FALSE, "replace")
                /\ UNCHANGED hist
             \/ NoTemp("fail")
       \/ /\ op[Cur].way = "temp"
          /\ \/ Goto("replace") /\ UNCHANGED hist
             \/ Fault /\ Goto("fail")
          /\ UNCHANGED <<dir, unflushed, held, fr>>
    /\ UNCHANGED <<kern, spec, start, file, op, pending, sig, mem>>

NameUnnamed ==
    /\ At("name") /\ ~spec.force /\ op[Cur].way = "unnamed"
    /\ \/ /\ Free(dir, Path)
          /\ SetDir(Bind(dir, Path, New(Cur)))
          /\ Goto("named") /\ UNCHANGED hist
       \/ /\ \/ ~Free(dir, Path) /\ UNCHANGED hist
             \/ Fault
          /\ Goto("fail") /\ UNCHANGED <<dir, unflushed>>
    /\ UNCHANGED <<kern, spec, start, file, op, pending, held, sig, fr, mem>>

NameTemp ==
    /\ At("name") /\ ~spec.force /\ op[Cur].way = "temp"
    /\ \/ Goto("commit") /\ UNCHANGED hist
       \/ Fault /\ Goto("fail")
    /\ UNCHANGED <<kern, spec, start, dir, unflushed, file, op, pending, held, sig, fr, mem>>

NamePlain ==
    /\ At("name") /\ ~spec.force /\ op[Cur].way = "plain"
    /\ \/ /\ pending' = pending_clear(pending, Slot(Cur))
          /\ Goto("named") /\ UNCHANGED hist
       \/ Fault /\ Goto("fail") /\ UNCHANGED pending
    /\ UNCHANGED <<kern, spec, start, dir, unflushed, file, op, held, sig, fr, mem>>

(* Mutant: a backup whose flush fails is left.                             *)
FlushBackupKeep ==
    /\ At("backed") /\ ~kern.exchange
    /\ \/ Flushed /\ Goto("rename") /\ UNCHANGED hist
       \/ Fault /\ Goto("fail") /\ UNCHANGED unflushed
    /\ UNCHANGED <<kern, spec, start, dir, file, op, pending, held, sig, fr, mem>>

(* replace_one() where names cannot be exchanged: the backup is made to    *)
(* survive a crash before the rename.                                      *)
FlushBackup ==
    /\ At("backed") /\ ~kern.exchange
    /\ \/ Flushed /\ Goto("rename") /\ UNCHANGED <<fr, hist>>
       \/ Fault /\ pending_remove(BackupSlot, FALSE, "fail") /\ UNCHANGED unflushed
    /\ UNCHANGED <<kern, spec, start, dir, file, op, pending, held, sig, mem>>

(* Mutant: the directory is not remembered.                                *)
flush_set_lose ==
    /\ At("named")
    /\ Goto("next")
    /\ UNCHANGED <<kern, spec, start, dir, unflushed, file, op, pending, held, sig, fr,
                   mem, hist>>

(* flush_set_add(): remember the directory, or flush it at once when there *)
(* is no memory to.                                                        *)
flush_set_add ==
    /\ At("named")
    /\ \/ mem' = [mem EXCEPT !.queued = TRUE] /\ UNCHANGED <<unflushed, hist>>
       \/ /\ ~mem.queued /\ Fault
          /\ Flushed /\ UNCHANGED mem
       \/ /\ ~mem.queued /\ hist.faults + 1 < MaxFaults
          /\ hist' = [hist EXCEPT !.faults = @ + 2]
          /\ mem' = [mem EXCEPT !.dirfailed = TRUE, !.nfailed = TRUE]
          /\ UNCHANGED unflushed
    /\ Goto("next")
    /\ UNCHANGED <<kern, spec, start, dir, file, op, pending, held, sig, fr>>

-----------------------------------------------------------------------------
(* settle_batch(): flush again, close, and remove the temporary name of a  *)
(* file that was linked to its own.                                        *)
settle_batch ==
    /\ At("settle")
    /\ flush_ops("settle")
    /\ UNCHANGED <<kern, spec, start, dir, unflushed, op, pending, held, sig, fr, mem>>

SettleClose ==
    /\ At("tidying")
    /\ ctl' = Loop("tidy", Opened)
    /\ UNCHANGED <<kern, spec, start, dir, unflushed, file, op, pending, held, sig, fr,
                   mem, hist>>

SettleOne ==
    /\ At("tidy")
    /\ op' = [op EXCEPT ![Cur].fd = FALSE]
    /\ \/ /\ op[Cur].tmp # None
          /\ pending_remove(Slot(Cur), TRUE, "tidied")
          /\ UNCHANGED hist
       \/ op[Cur].tmp = None /\ Goto("next") /\ UNCHANGED <<fr, hist>>
       \/ Fault /\ Goto("fail") /\ UNCHANGED fr
    /\ UNCHANGED <<kern, spec, start, dir, unflushed, file, pending, held, sig, mem>>

Tidied ==
    /\ At("tidied")
    /\ op' = [op EXCEPT ![Cur].tmp = None]
    /\ Goto("next")
    /\ UNCHANGED <<kern, spec, start, dir, unflushed, file, pending, held, sig, fr, mem,
                   hist>>

-----------------------------------------------------------------------------
(* Mutant: the pending name is not removed.                                *)
op_fail_keep ==
    /\ At("fail")
    /\ op' = [op EXCEPT ![Cur].fail = ctl.loop, ![Cur].fd = FALSE]
    /\ Goto("failed")
    /\ UNCHANGED <<kern, spec, start, dir, unflushed, file, pending, held, sig, fr, mem,
                   hist>>

(* Mutant: the old file goes although its directory is not flushed.        *)
op_fail_spare ==
    /\ At("fail")
    /\ op' = [op EXCEPT ![Cur].fail = ctl.loop, ![Cur].fd = FALSE]
    /\ pending_remove(Slot(Cur), FALSE, "failed")
    /\ UNCHANGED <<kern, spec, start, dir, unflushed, file, pending, held, sig, mem, hist>>

(* op_fail(): close, and remove the pending name, unless an exchange has   *)
(* left the old file there.                                                *)
op_fail ==
    /\ At("fail")
    /\ op' = [op EXCEPT ![Cur].fail = ctl.loop, ![Cur].fd = FALSE]
    /\ IF op[Cur].spare = None THEN pending_remove(Slot(Cur), FALSE, "failed")
       ELSE Goto("failed") /\ UNCHANGED fr
    /\ UNCHANGED <<kern, spec, start, dir, unflushed, file, pending, held, sig, mem, hist>>

OpFailed ==
    /\ At("failed")
    /\ op' = [op EXCEPT ![Cur].tmp = None]
    /\ Goto("next")
    /\ UNCHANGED <<kern, spec, start, dir, unflushed, file, pending, held, sig, fr, mem,
                   hist>>

-----------------------------------------------------------------------------
(* flush_set_run(), with the one directory there is.                       *)
flush_set_run ==
    /\ At("sync")
    /\ \/ /\ mem' = [mem EXCEPT !.queued = FALSE]
          /\ IF mem.queued THEN Flushed ELSE UNCHANGED unflushed
          /\ UNCHANGED hist
       \/ /\ mem.queued /\ kern.dirsync /\ Fault
          /\ mem' = [mem EXCEPT !.queued = FALSE, !.dirfailed = TRUE, !.nfailed = TRUE]
          /\ UNCHANGED unflushed
    /\ ctl' = Loop("drop", {i \in Batch : op[i].spare # None})
    /\ UNCHANGED <<kern, spec, start, dir, file, op, pending, held, sig, fr>>

(* Mutant: a spare that is kept stays armed.                               *)
drop_spares_armed ==
    /\ At("drop")
    /\ \/ /\ ~mem.dirfailed
          /\ pending_remove(Slot(Cur), TRUE, "dropped")
          /\ UNCHANGED hist
       \/ /\ mem.dirfailed
          /\ hist' = [hist EXCEPT !.kept = @ \cup {op[Cur].spare}]
          /\ Goto("dropped") /\ UNCHANGED fr
    /\ UNCHANGED <<kern, spec, start, dir, unflushed, file, op, pending, held, sig, mem>>

(* drop_spares(): an old file exchanged away goes, or stays and is named   *)
(* in a warning when its directory may not have been flushed.              *)
drop_spares ==
    /\ At("drop")
    /\ \/ /\ ~mem.dirfailed
          /\ pending_remove(Slot(Cur), TRUE, "dropped")
          /\ UNCHANGED <<pending, hist>>
       \/ /\ \/ mem.dirfailed
             \/ hist.faults < MaxFaults
          /\ hist' = [hist EXCEPT !.kept = @ \cup {op[Cur].spare},
                                  !.faults = IF mem.dirfailed THEN @ ELSE @ + 1]
          /\ pending' = pending_clear(pending, Slot(Cur))
          /\ Goto("dropped") /\ UNCHANGED fr
    /\ UNCHANGED <<kern, spec, start, dir, unflushed, file, op, held, sig, mem>>

Dropped ==
    /\ At("dropped")
    /\ op' = [op EXCEPT ![Cur].spare = None]
    /\ Goto("next")
    /\ UNCHANGED <<kern, spec, start, dir, unflushed, file, pending, held, sig, fr, mem,
                   hist>>

(* Mutant: signals stay held.                                              *)
DropHeld ==
    /\ At("release")
    /\ mem' = [mem EXCEPT !.spareHeld = FALSE]
    /\ Goto("report")
    /\ UNCHANGED <<kern, spec, start, dir, unflushed, file, op, pending, held, sig, fr, hist>>

DropRelease ==
    /\ At("release")
    /\ held' = IF mem.spareHeld THEN held - 1 ELSE held
    /\ mem' = [mem EXCEPT !.spareHeld = FALSE]
    /\ Goto("report")
    /\ UNCHANGED <<kern, spec, start, dir, unflushed, file, op, pending, sig, fr, hist>>

(* Mutant: the last batch decides the status.                              *)
report_last ==
    /\ At("report")
    /\ mem' = [mem EXCEPT !.allok = \A i \in Batch : op[i].fail = "no" /\ ~op[i].leftover]
    /\ op' = [i \in Ops |-> IF i \in Batch THEN [op[i] EXCEPT !.backup = None] ELSE op[i]]
    /\ ctl' = IF ctl.first + BatchSize <= NOps
              THEN [ctl EXCEPT !.pc = "batch", !.first = @ + BatchSize]
              ELSE [ctl EXCEPT !.pc = "exit"]
    /\ UNCHANGED <<kern, spec, start, dir, unflushed, file, pending, held, sig, fr, hist>>

(* report_one() for each operand; then the next batch, or the exit.        *)
report_one ==
    /\ At("report")
    /\ mem' = [mem EXCEPT !.allok = @ /\ \A i \in Batch : op[i].fail = "no" /\ ~op[i].leftover]
    /\ op' = [i \in Ops |-> IF i \in Batch THEN [op[i] EXCEPT !.backup = None] ELSE op[i]]
    /\ ctl' = IF ctl.first + BatchSize <= NOps
              THEN [ctl EXCEPT !.pc = "batch", !.first = @ + BatchSize]
              ELSE [ctl EXCEPT !.pc = "exit"]
    /\ UNCHANGED <<kern, spec, start, dir, unflushed, file, pending, held, sig, fr, hist>>

(* The status main() exits with.                                           *)
ExitOK == ctl.pc = "exit" /\ mem.allok /\ ~mem.nfailed

BatchStep == \/ batch_run \/ build_one \/ place_probe_mode \/ open_built
             \/ FinishPrivate \/ FinishLink \/ fill_one \/ FinishOwner \/ FinishMode
             \/ flush_batch \/ FlushClose \/ close_op
             \/ NameBatch \/ NameForce \/ NameUnnamed \/ NameTemp \/ NamePlain
             \/ FlushBackup \/ flush_set_add
             \/ settle_batch \/ SettleClose \/ SettleOne \/ Tidied
             \/ op_fail \/ OpFailed
             \/ flush_set_run \/ drop_spares \/ Dropped \/ DropRelease \/ report_one

Program == PendingStep \/ PlaceStep \/ BackupStep \/ BatchStep

Ended == Over /\ UNCHANGED vars

Next == Program \/ Signal \/ OtherStep \/ Ended

Spec == Init /\ [][Next]_vars

(* The process is scheduled, and every system call returns.                *)
FairSpec == Spec /\ WF_vars(Program)
=============================================================================
