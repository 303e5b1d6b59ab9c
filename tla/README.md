# newfile: models, checks and proofs

`newfile` creates files with their content, owner and mode already set, many in
one run, and replaces existing ones with `-f`. This directory holds TLA+ models
of the parts of the program that are hard to test: the pipeline that builds and
names files, the signal handler that cleans up after it, the backups, what is on
the disk after a power loss, the thread pool that flushes files and the set of
directories to flush, the copying of a template, and the command line.

Run `tlc -config X.cfg M` for the runs listed below, and `tlapm M.tla` for the proofs
of each `M` among `FlushPoolProofs`, `FlushSetProofs`, `ControlProofs`, `OperandProofs`,
`NewfileProofs`, `LeaveProofs`, `CrashProofs` and `TemplateProofs` (some of them take
minutes).
`PROJECT.json` maps definitions to source lines and lists runs, mutants, hazards,
findings and theorems.

## Inventory of the system

| Part | State | Operations | Talks to |
| --- | --- | --- | --- |
| `batch.c` | `ops[]` (`struct op`), `spare_held` | `batch_run` and its phases: build, flush, name, settle, directory flush, drop, report | everything below |
| `place.c` | probe cache | create exclusively, make temporary names, commit, rename, exchange, probe the mode | `pending.c`, `fastio.c` |
| `pending.c` | `pending[]`, signal mask | arm, retarget, clear, remove, hold, release, handler | the kernel's names |
| `backup.c` | listings of directories, one per batch | choose a number, link, alias, note | `place.c`, `pending.c` |
| `flush.c`, pool | job, workers, condition variables | `flush_fds`, `flush_stop` | threads |
| `flush.c`, set | queued directories, failures | add, run, failed, forget | the pool |
| `fastio.c` | which calls the system has | tmpfile, link, rename without replacing, exchange, copy | kernel |
| `template.c`, `io.c`, `holes.c` | template, offsets | copy with holes, fallbacks, fill | `fastio.c` |
| `optparse.c`, `options.c`, `spec.c`, `parse.c` | `struct file_spec` | parse the command line | `main.c` |
| `paths.c`, `error.c`, `main.c` | - | parents, messages, exit status | |

What is hard: a signal at any instruction, also between two calls that belong
together; other processes in the same directory; any of the many calls failing
while other operands are half done; power loss; worker threads that share an
array on their caller's stack; state that is carried from batch to batch.

What makes the parts correct:

* pipeline: nothing unfinished has a name, failed files have none, status 0 means
  done and durable, no temporary name survives the run;
* pending: what the handler removes is what the run made, and all of it;
* place: without `-f` nobody's file is replaced; with `-f` the path always holds
  the old or the new file;
* backup: the old file keeps a name, a failed replacement leaves no backup;
* pool: each result is there at the return, none comes later, nobody hangs;
* set: a directory that failed to flush is remembered as long as it matters, and
  by every path that leads to it;
* template: a new file reads as the template does, keeps its gaps, and holds no
  byte that was never there, whichever calls work and whatever changes meanwhile;
* command line: options, values and operands are those that were written, and no
  number is anything but the one that was written.

## Modules

`World` <- `Pending` <- `Place` <- `Backup` <- `Batch` <- `Newfile` <- `Crash`:
each extends the one before. One module per source file; they share the
variables of one process, so they are layers and not instances.

* `World`: one directory as a function from names to inodes, the kernel's calls
  on it, other processes, the program counter, and the loops over a batch. The
  features of the system (`kern`) and the options (`spec`) are chosen in `Init`.
* `Pending`: slots hold a path and an inode. `remove_ours` is two steps, lstat
  and unlink. `held` is the depth of `pending_hold`; `At(l)` stops the program
  when a signal is pending and not held, so the handler can take over before
  every step. After `SignalTaken` the program does not run again.
* `Place`: `Made` makes a name with signals held, `Arm` arms it and releases
  them. `UndoOpen` is the failing fstat of `create_excl`. The three ways of
  `place_commit`, the rename and the exchange of `-f` follow.
* `Backup`: `backup_make` from its lstat to the second name of the old file, with
  the listing cached once a batch, the retry on a number that is taken, and the
  alias that is renamed over a simple backup.
* `Batch`: the phases of `batch_run` as loops; each call that can fail is a step
  of its own. `fail` of an operand records the loop it failed in.
* `Newfile`: the promises of newfile(1), as invariants and action properties.
* `NewfileInv`: the inductive invariant of the pipeline, `Inductive`; it is checked in
  `batches` and proved in `ControlProofs`, `OperandProofs`, `NewfileProofs` and
  `LeaveProofs`, each of which extends the one before.
* `Crash`: the directory on the disk. Every call is one atomic change; since the
  last fsync any set of changes may have reached the disk that does not skip an
  earlier change of the same name.
* `FlushPool`, `FlushFds`, `FlushPoolProofs`: the pool, what callers rely on, and
  the proofs. Stretches of code under `job_lock` are one action, fsync is another.
* `Digits`: the strings of digits that `backup.c` compares and counts up, with the
  numbers they stand for as the reference. `Backup` uses them.
* `FlushSet`: `dirs[]` and `failures[]` of `flush.c` with their capacities. A
  directory has one or more paths (`DirOf`). The loops of `flush_set_run` take one
  step a path; `pc` and `ret` say where in the program it runs, since a full set is
  run in the middle of `flush_set_add`. `owed`, `skipped` and `broken` are history:
  what gained a name that no flush has covered, what may not be opened, and every
  failure. `FlushSetProofs` has its proofs.
* `Template`: one action is one system call of `template.c`, `holes.c`, `io.c` and
  the copying calls of `fastio.c`, for each operand of a run in turn. A file is a
  sequence of blocks; the locals of the copy in progress are `lo`. Each call may
  be short, prove unusable or fail; another process may change the template
  before any of them.
* `Values`: `parse.c`, each parser beside the reference it is compared with.
* `CommandLine`: `optparse.c`, the table of `options.c`, and `spec.c`. `permute` is
  one step an argument, `Option` one option, then the checks and the values.
* `MCNewfile`, `MCCrash`, `MCFlushSet`, `MCTemplate`, `MCCommandLine`: constants
  for TLC.

`Batch` and `FlushSet` meet in `flush_set_add`, `flush_set_run` and `drop_spares`:
`Batch` has one directory with everything around it, `FlushSet` has many
directories and of the pipeline only what decides about them. In the same way
`fill_one` is one step of `Batch` that writes the content or fails, and module
`Template` says what it writes.

Definitions whose comment begins with "Mutant" are wrong versions of the
definition that follows them; no specification uses them. Each property has one
that it catches.

### Abstractions

A file's data is a set of flags: content written, owner set, mode (`0600` or as
asked), set-id bits, flushed. Writing and chown clear the set-id bits. Names are
model values or built from one (`Simple`, `Numbered`); temporary names are
random, so other processes do not use them. An inode is named by its origin and
never reused. All operands are in one directory, except in `FlushSet`.
All targets are regular files. A failing call or allocation is `Fault`, counted
and bounded; one that leaves a name behind is recorded in `hist.refused`.
`dirsync = FALSE` stands for a directory that cannot be opened for reading and
for a filesystem that does not flush directories: neither is an error to the code.

`FlushSet`: the operands of a batch are names given, in any order, to paths; parent
directories may come between names, although the code makes them all first. A
directory whose inode is not known when it fails is remembered by its path only,
as in the code: another path to it is flushed, or fails, on its own account. When
`stat` fails or memory is short, `dir_unflushed` says yes; the model lets that
happen to any path.

`Template`: a block stands for any number of bytes; a buffer is `Buf` blocks. What
`lseek` says of gaps is one of three: all of them, that it cannot tell, or that
there are none. Blocks that copy_file_range copies may keep their gaps or not.
Reads and writes may be short at every call, by whole blocks: a `pread` of `copy_zeros`
that ends inside a block would shift the blocks it compares with zeros, which costs gaps
and no content. A short read in `tail_zero` counts as a failed one, as in the code. The
name that a failed `unlink` leaves in `TMPDIR` is not part of the state.
`posix_fadvise`, buffers and their alignment, and `fast_writeback` have no effect
on what is written.

`Values` and `CommandLine`: characters are model strings of length one; `--` and
the name of a long option are one character each, since they are only ever
compared as a whole. The widths of `uintmax_t`, `off_t` and `uid_t` are constants,
set small. What is printed is left out, only how the run ended is kept.

## Runs

| Run | Bounds | Shows |
| --- | --- | --- |
| `flush_pool` | 2 descriptors, 2 workers wanted, 2 calls | results complete, never late, never doubled; refines `FlushFds`; calls return, `flush_stop` ends |
| `create` | 2 paths in one batch, 4 systems, 4 option sets, 2 faults, 1 foreign step, a signal | `NoReplace`, `FinishedWhenNamed`, `PrivateUntilFinal`, `FailedNeverAppears`, `TempsGone`, `Interrupted`, `ExitZero`, `ArmedOwned` |
| `replace` | one path twice in a batch, 3 systems, 4 kinds of backup, 4 start directories, 1 fault, 1 foreign step, a signal | `OldOrNew`, `KeepsForeign`, `NoOrphanBackup`, `BackupAbove`, `TempsGone` |
| `batches` | one path in two batches of one, 1 fault, a signal | state carried between batches (`ExitZero`, `Inductive`); the run ends; a signal is acted on |
| `crash` | one path twice, 2 systems, 1 fault, a signal | `CrashKeepsOld`, `CrashOldOrNew`, `ExitDurable` |
| `flush_set` | 3 paths of 2 directories, room for 2 directories and 2 failures, 2 batches of 3 names, 3 faults | `FailuresKept`, `SparesSafe`, `StatusTrue`, capacities |
| `template` | files of up to 3 blocks, 5 kinds, 3 ways to tell of gaps, buffers of 2, up to 2 operands, `-s` below, at and above, 1 fault, 1 change | `FaithfulCopy`, `LayoutKept`, `OnlyTemplateBytes`, `StdinLeft` |
| `command_line` | all lines of up to 3 arguments out of 19 and of 4 out of 9; values of up to 5 characters; 8 bits for `uintmax_t` and `off_t`, 4 for ids | `ParsedAsWritten`, `SizeExact`, `IdExact`, `ModeExact` |
| `backup_race` | one path, exchange available | finding |
| `crash_unflushed` | one path, unreadable directory | finding |
| `missing_argument` | three lines that end in `-s` | finding |
| `template_grows` | a template of two blocks that ends in a gap | finding |

Why these bounds: operands interact only through the slots, the shared backup
name, the batch-wide hold and the directory flush, and two operands meet in each
of these; the same path twice is the hardest case for backups. Two faults reach
a failure while a failure is being cleaned up. Four temporary names are more than
two operands and an alias take; with too few the run would stop in a deadlock,
which TLC checks. `Numbers` is the set of digit strings backups may have, chosen
around the carry from 9 to 10; past it the code is taken to run out of memory
(`OutOfNumbers`). Temporary names are symmetric. In `crash`, where the second operand
names the path of the first, exit status 0 is reached with `-f` only; without it
`ExitDurable` rests on its theorem.
In `flush_set` three names a batch overflow the set once, and three faults overflow
the list of failures. Three blocks are a gap or data before, in and after; with a
buffer of two, reads and writes can be cut short in the middle. Four arguments are an option with its
value between two operands. Texts of five characters pass the limit of every
width, and the digits that ids are made of give the last three of their type and
the first that does not fit.

`Races = FALSE` keeps other processes out of three gaps that no program can close
with the calls there are: lstat then unlink, placeholder then rename, and open
then the unlink after a failed fstat. They act everywhere else.

Fairness: weak fairness of the whole program (a process that can run is
scheduled, and calls return); in the pool, of each thread. None for faults, other
processes, signals or spurious wake-ups. Nothing is assumed strongly fair: a
mutex that is released is eventually had, and each locked stretch is short.

## Findings

* `backup_race`: newfile(1) says that with `--backup` a file another process puts
  at the path is kept under the extra name where names can be exchanged. If the
  path was free at the lstat in `backup_make` (backup.c:551), no backup is made
  and a plain rename replaces such a file.
* `crash_unflushed`: newfile(1) says a crash cannot lose the old file, and that
  the extra name is kept with a warning if the directory cannot be flushed. A
  directory that cannot be opened for reading is not flushed and not counted as
  a failure (flush.c:312), so the extra name is removed at once.
* `missing_argument`: a test expects "requires an argument" of `-s` without one, and
  newfile(1) allows options after the operands. `permute` (optparse.c:104) moves an
  option that is last on the line and lacks its argument in front of the operands,
  and the first operand becomes its value: `newfile 10 x -s` makes a file of ten
  bytes and succeeds. `ParsedAsWritten` holds for all other lines.
* `template_grows`: newfile(1) says the new file has the size of the template. If the
  template ends in a gap and is appended to during the copy, the search for data
  finds it beyond the size that was read, and the `ftruncate` that makes the last
  gap is skipped (template.c:133): the file has a size the template never had.

In addition, README.md says that an existing path is never replaced without `-f`;
where the system can neither rename without replacing nor link, `place_over`
(place.c:272) replaces a file that another process moved over its placeholder.
With `Races = TRUE` and such a system TLC shows it as a violation of `NoReplace`.

## Proofs

`FlushPoolProofs` proves, for every number of descriptors, workers and calls:
type correctness, `ReturnComplete`, `NoWriteAfterReturn`, `SyncedOnce`, and that
`FlushPool` implements `FlushFds`. The only assumption is `PoolAssumption`: the
batch and the limit are positive, the number of calls is natural.

None of these is inductive. That results are complete at the return needs to
know why `done = n` implies that every index was written. `PoolInv` therefore
says that `done` is the number of indices written (`JobInv`), that a worker at
work holds an index of the running call that was handed out, is not yet written
and that no other worker holds (`WorkerInv`), that nothing past `next` has been
touched (`ArrayInv`), and that outside a threaded call the job is empty and no
worker is at work, which is why no write can come late. `PoolInvariant` proves it
with one step per action; the other theorems follow from it.

`FlushSetProofs` proves, for every set of paths and directories, any capacity,
any number of batches, names and failing calls: type correctness (no array
overflows), `FailuresKept`, `SparesSafe` and `StatusTrue`. It assumes
`FlushSetAssumption`: each path leads to one directory, both capacities are
positive, and there is room for at least as many failures as directories.

`SparesSafe` is not inductive: at the time of the drop it has to be known that
whatever is not flushed is reported as failed. `SetInv` says what is true on the
way there. An old file whose directory is not flushed is `Waiting` - its path is in
`dirs`, is the argument of the `flush_set_add` in progress, or its directory is in
the job, maybe by another path - or is reported (`Spared`). The list of failures is
complete or known not to be (`Kept`). As long as nothing failed, all that is owed
is waiting (`Counted`). `Control` ties `pc` to what is empty, so that nothing waits
when the spares are dropped. `DirFailed` and `ListStep` say once what recording a
failure does to all of these; then there is one lemma per action.

The pipeline is proved for every number of operands (also operands that repeat a
path), every batch size, any systems and options, any number of failing calls and of
steps of other processes, with or without a signal: `TypeOK`, `ArmedOwned`, `OldOrNew`,
`FinishedWhenNamed`, `PrivateUntilFinal`, `FailedNeverAppears`, `TempsGone`,
`Interrupted`, `ExitZero`, `NoOrphanBackup`, `BackupAbove`, the invariant `Inductive` as
a whole, and `NoReplace` and `KeepsForeign` under the hypothesis `~Races`, without which
neither holds: another process could come into the gaps named under the bounds. The
assumptions are `WorldAssumption`, `KernelAssumption` and `SpecAssumption`: the
constants have their types, there are finitely many numbers for backups (a directory
holds finitely many names), temporary names are free at the start and not touched by
others, no operand names the backup of another or a temporary name, and `--backup` comes
with `-f`.

None of the properties is inductive: what a step may do to a name depends on how far
its operand is, on which slot guards it and on what the call in progress has seen.
The invariant says so in layers, one above the other, each proved with the ones below.

1. `FlowInv` (`ControlProofs`): control only. Each step belongs to its loop of
   `batch_run`, a call in progress has the frame its caller gave it (`CallFrame`), and
   `held` is one around each change of a name plus one from the first exchange of the
   batch to `drop_spares` (`HeldInv`). A lemma for each action.
2. `OpsInv` (`OperandProofs`): the operands. Those a loop has visited or has still to
   visit are at a stage the loop expects (`RestInv`: `Todo` and `Done`), the one in hand
   at a stage that fits the step (`CallInv`), in terms of what its file has, which name
   it is under and what its slot guards. A step of a call leaves the other operands
   alone, so these are dealt with once (`StayRest`, `NextRest`, `EnterRest`), and each
   action has a lemma about the operand in hand. `HistInv` bounds the history.
3. `SlotsInv`, `GapInv` (`NewfileProofs`): with `-f` no slot holds a path, without it
   none holds a file of others, also in the handler; and what was seen at a name is
   there when it is used, if nobody came between. `DirForms` is the lemma the
   properties rest on: it lists the seven ways in which a step can change a name, with
   what is known of the operand in each. `OldOrNew` and `NoReplace` go through them.
4. `NamedInv` (`NewfileProofs`): which names a new file has. None before its turn
   (`WaitInv`), only a temporary one while it is built (`SiteInv`), and the alias made
   for a simple backup is of a whole file if it is of a new one (`AliasInv`: the same
   path given twice makes a backup of a file of this run). It rests on three lemmas that
   hold of every step: how the program moves on (`CtlForms`), which steps change the
   attributes of a file (`AttrKept`), and how a name can come to hold a new file
   (`NewNames`).
5. What is left behind (`LeaveProofs`), in six parts:
   * `SoleInv`: until an operand is placed, each name of its file is guarded by its slot,
     is the one in the frame of the call in progress, or is one whose removal was refused.
     `FailedNeverAppears` is what remains of it when all calls are over.
   * `OldInv`, `TempInv`: a temporary name in use is guarded, in hand, refused or kept on
     purpose, by the stage of its operand; an exchanged old file is under the name the
     operand has for it. `TempsGone` follows since no slot is armed when the program ends,
     and the handler visits all of them.
   * `StartInv`, `LandInv`, `FreshInv`: until an operand of a path is placed, the path is
     as it was, empty and taken by others, or holds a new file some slot guards; then it
     has a complete one. `Interrupted` is the case of the handler.
   * `FlagInv`, `RefInv`, `OkInv`, `EarlyInv`, `OrderInv`, `InPlaceInv`, `PathInv`: what
     goes wrong is held against the exit status from the step where it happens - in the
     operand until `report_one`, in `mem` from then on - and what is placed stays unless a
     later operand replaces it. Both meet in `ExitZero`.
   * `OverInv`, `OrphanInv`: a new backup beside an old file still in place is one that is
     guarded by the backup's slot and will be removed. `NumInv`, `HomeInv`, `RankInv`: the
     listing knows a number at least as high as any in use, and the number in hand is
     above it. This rests on what `digits_inc` and `digits_cmp` compute: `Value` is the
     last of the values of the prefixes (`PrefixValues`), counting up adds one
     (`NextNumber`), and the order of strings without leading zeros is that of their values
     (`LessIsLess`). These are inductions along a string, each carried out on the set of
     the places where the claim holds (`Places`), because the prover cannot instantiate
     the library's induction theorems.
   * `KeepInv`: where the old file is with `--backup`. It stays at the path until its
     backup is made (`OldKept`), or at the alias while a simple backup is (`AliasKept`);
     from then to the rename or the exchange the backup has it as well (`BackedKept`,
     `RenameKept`). The slot of the backup removes it only while the path still holds the
     same file (`BackupKept`), and a temporary name that holds an old file is removed only
     if a backup has it that no slot and no call is going to remove (`SpareKept`,
     `Saved`). Each way to take a name in `DirForms` then leaves the file another one,
     which is `KeepsForeign`.

`CrashProofs` goes on to the disk: `CrashOldOrNew`, that with `-f` a path that was there
has its old file or a finished, flushed one after a power loss at any moment. Its
hypothesis is `MaxOther = 0`, nobody else changes the directory, as in the run `crash`.
The state that a power loss leaves is the one on the disk with any of the logged changes
applied, so `Shown` is asked of what the disk and the log hold for each path (`DiskInv`).
A step that names a file logs one that is whole and flushed, by `OldOrNew`; what was
logged earlier stays so because no step writes to a file that is flushed (`ShownKept`,
`FlushKept`).

`ExitDurable` is proved there too, under that hypothesis and for systems where a
directory can be flushed (`dirsync`; on others no program could promise it). What the
disk shows of a path with an empty log is what the directory shows (`CleanInv`,
`SameInv`); a change that is still in the log is of a directory that is queued, and the
queue is not emptied by a flush that failed without a mark that ends in the exit status
(`QueueInv`, `OweInv`). So the run knows of each change of a path that is not on the disk
(`Excused`). With `ExitZero` this leaves the new file alone.

`CrashKeepsOld`, that with `--backup` a power loss at any moment leaves every old file a
name, has the same two hypotheses; without the second, run `crash_unflushed` shows it
false. Its invariant is `OnDiskInv`. For each path the old file is, on the disk,

* at the path, with no change of the path outstanding (`AtPath`), or
* under a backup that the program is not going to remove (`OnBackup`), or
* exchanged: one logged change is the first of the path and the last of a temporary name
  and puts the old file there (`InSwap`). Whichever changes are on the disk, it has one of
  the two names.

The steps from one to the next rest on when the directory is flushed. A rename over a file
comes only after a flush (`RenameClean`), so the backup is on the disk by then. The name
an old file was exchanged to is removed only by `drop_spares`, after the flush (`Awaits`,
`QueueInv`), and not if that flush failed (`DropInv`); the names kept for that reason are
never guarded again (`Loose`). Where the old file is in the directory is `KeepInv`, and
what `backup_make` saw at the path is still there (`OldSame`, `AliasSame`).

`TemplateProofs` proves of the new files' content, for any set of templates, systems and
requests, any buffer, any number of failing calls and of changes by another process:
`OnlyTemplateBytes`, `FaithfulCopy`, `LayoutKept` and `StdinLeft`. It assumes
`TemplateAssumption`, which says what templates there are: only what is read from standard input may have been read
in part, only a plain file has gaps, and the system tells nothing of the gaps of a file in
`/proc` or `/sys`. The argument has four parts.

1. `Sound`: the types, the order of the calls (`Flow`), that `held` covers whatever the
   template holds (`HeldInv`), and `Bytes`: everything in a new file, in the spool and in
   a buffer `Fits`, that is, reads as the template did at some time at the offset where it
   stands or is to be written. What is not written counts too: between the end of the new
   file and the place to copy to (`Copying`, `Zeroing`), and from there to the size that
   `tmpl_open` found, a gap must fit. That is the step from one call to the next that a
   fallback in the middle of an extent could get wrong. `PutFits` and `ResizeFits` say
   once what writes and ftruncate do to all this.
2. `Lengths`: how long the files are while nobody changes the template. The new file ends
   where `copy_extents` writes next, unless a gap lies between; then the size stated is
   the true one and more of the extent is to come. This is why the last ftruncate makes
   the right size, and is not made for a file of `/sys` that states more than it holds.
   `Exact` leaves one value for each block, and `FaithfulCopy` follows.
3. `Input`: where standard input is, which the searches for gaps move.
4. `Shape`: where the new files have gaps while nothing fails and nobody changes a
   template that is read from its start (`Told`, the hypothesis of `LayoutKept`). What
   `tmpl_open` and the search for a gap at the end found is true of the template
   (`Known`, `TailTrue`), an extent covers no gap that is kept (`Avoids`), and what
   `io_fill` adds is written out (`Pads`). So no call writes on a gap that is kept, which
   `PutKeeps` and `ResizeKeeps` say once for all of them.

A spool states its exact size, also where it was filled from a file of `/sys` that was
read in part; `SizeKnown` rests on that, and the run `template` has the case.

Only model-checked: liveness (`CallsReturn`, `Ends`, `Terminates`, `SignalActs`), which
is outside the prover's reach, and what `Values` and `CommandLine` compute, since they are
written with `RECURSIVE` operators, which keep the prover out.

## Not modelled

Left out for good:

* the layout of the usage text (most of `options.c`) and messages (`error.c`): pure
  output;
* a write error on standard output, which only changes the exit status, and the
  reservation of the standard descriptors in `main.c`, which comes before all else;
* cutting paths into directory and name: string handling without state;
* the cache of directory listings with more than one directory: it has room for one
  per operand of a batch and is emptied with each batch, so it never runs full;
* `fast_writeback`: a hint without a result.
