------------------------------- MODULE Template ------------------------------
(***************************************************************************)
(* src/src/template.c with holes.c, io.c and the copying calls of fastio.c:*)
(* what the new files of one run start out holding.  fill_one() of batch.c *)
(* is followed for each operand in turn; one action is one system call.    *)
(*                                                                         *)
(* A file is a sequence of blocks: Gap was never written, Nul holds zeros, *)
(* anything else is data.  A call that may be unusable on a system         *)
(* (copy_file_range, sendfile, splice, memfd_create, fallocate) may turn   *)
(* out so at any call.  Another process may change the template meanwhile. *)
(***************************************************************************)
EXTENDS Integers, Sequences

CONSTANTS Confs,       \* the templates, systems and requests to run with
          Buf,         \* blocks that fit into a buffer
          Changes,     \* what another process may do to the template
          MaxChanges,  \* bound: how often it does
          MaxFaults,   \* bound: calls that fail
          NoSize       \* -s is not given

Gap == 0
Nul == 1

(* kind: a regular file, one that states a size above its content (/sys),  *)
(* one that states none (/proc), a pipe, or no template.  at: how far it   *)
(* has been read already.  layout: what lseek tells of its gaps.           *)
Conf == [kind : {"plain", "overstated", "unsized", "pipe", "none"},
         content : Seq(Nat), stdin : BOOLEAN, at : Nat,
         layout : {"known", "unknown", "hidden"},
         size : Nat \cup {NoSize}, sparse : BOOLEAN, files : Nat \ {0}]

ASSUME TemplateAssumption ==
    /\ \A c \in Confs :
          /\ c \in Conf
          /\ c.at # 0 => c.stdin /\ c.at <= Len(c.content)
          /\ c.kind # "plain" => \A i \in 1..Len(c.content) : c.content[i] # Gap
          /\ c.kind \in {"overstated", "unsized"} => c.layout # "known"
          /\ c.kind = "none" => c.content = <<>> /\ ~c.stdin
    /\ Buf \in Nat \ {0}
    /\ Changes \subseteq {"grow", "shrink", "overwrite"}
    /\ MaxChanges \in Nat
    /\ MaxFaults \in Nat

VARIABLES conf,
          src,      \* what the template holds
          spos,     \* its file offset
          tm,       \* struct tmpl
          spool,    \* the anonymous file
          copy,     \* operand -> what its new file holds
          res,      \* operand -> "none", "ok" or "failed"
          pc, cur,  \* the call to make, and the operand it is for
          lo,       \* the locals of the copy in progress
          faults, changes,
          held,     \* history: what the template held at each offset
          sizes     \* history: the sizes the template had

source == <<src, changes, held, sizes>>
vars   == <<conf, source, spos, tm, spool, copy, res, pc, cur, lo, faults>>

-----------------------------------------------------------------------------
(* Files.                                                                  *)
Least(a, b) == IF a < b THEN a ELSE b
Reads(c)    == IF c = Gap THEN Nul ELSE c
View(s)     == [k \in 1..Len(s) |-> Reads(s[k])]

Resize(s, n) == [k \in 1..n |-> IF k <= Len(s) THEN s[k] ELSE Gap]

Put(s, off, new) ==
    [k \in 1..(IF off + Len(new) > Len(s) THEN off + Len(new) ELSE Len(s)) |->
        IF k \in (off + 1)..(off + Len(new)) THEN new[k - off]
        ELSE IF k <= Len(s) THEN s[k] ELSE Gap]

(* The file behind tmpl->fd, and the size it states.                       *)
Src    == IF tm.spooled THEN spool ELSE src
Stated == Len(Src) + (IF conf.kind = "overstated" /\ ~tm.spooled THEN 1 ELSE 0)
Layout == IF tm.spooled THEN "known" ELSE conf.layout

Regular == conf.kind \in {"plain", "overstated", "unsized"}

(* lseek(SEEK_DATA), with -1 for ENXIO, and lseek(SEEK_HOLE).              *)
NextData(from) ==
    LET data == {k \in from..(Stated - 1) :
                    Layout = "hidden" \/ k >= Len(Src) \/ Src[k + 1] # Gap}
    IN  IF data = {} THEN -1 ELSE CHOOSE k \in data : \A j \in data : k <= j

NextGap(from) ==
    LET gap == {k \in from..(Stated - 1) :
                   Layout = "known" /\ k < Len(Src) /\ Src[k + 1] = Gap}
    IN  IF gap = {} THEN Stated ELSE CHOOSE k \in gap : \A j \in gap : k <= j

(* The calls that read the template by their own offset do not move its    *)
(* file offset; lseek does.                                                *)
Moved(to) == spos' = IF tm.spooled \/ to = -1 THEN spos ELSE to

-----------------------------------------------------------------------------
NewLocals == [from |-> 0, end |-> 0, src |-> 0, dst |-> 0, written |-> 0,
              overstated |-> FALSE, fpos |-> 0, buf |-> <<>>, done |-> 0]

Init ==
    /\ conf \in Confs
    /\ src = conf.content
    /\ spos = conf.at
    /\ tm = [kind |-> "none", size |-> 0, tail |-> FALSE, spooled |-> FALSE]
    /\ spool = <<>>
    /\ copy = [i \in 1..conf.files |-> <<>>]
    /\ res = [i \in 1..conf.files |-> "none"]
    /\ pc = "open" /\ cur = 0
    /\ lo = NewLocals
    /\ faults = 0 /\ changes = 0
    /\ held = [k \in 1..(Len(src) + 2 * MaxChanges + 1) |->
                  {IF k <= Len(src) THEN Reads(src[k]) ELSE Nul}]
    /\ sizes = {Len(src)}

(* tmpl_open(): fstat and hole_unknown() decide how the template is copied.*)
(* A file in /sys has no blocks at all.                                    *)
tmpl_open ==
    LET whole == conf.at = 0 /\ conf.kind \in {"plain", "overstated"} /\ Stated > 0
        gaps  == conf.kind = "overstated" \/ \E k \in 1..Len(src) : src[k] = Gap
        zeros == gaps /\ conf.layout = "unknown"
    IN  /\ pc = "open"
        /\ CASE conf.kind = "none" -> UNCHANGED tm /\ pc' = "next"
             [] whole -> /\ tm' = [tm EXCEPT !.size = Stated,
                                             !.kind = IF zeros THEN "zeros" ELSE "extents"]
                         /\ pc' = "tail"
             [] ~whole /\ conf.kind # "none" ->
                   IF conf.files > 1 THEN pc' = "spool" /\ UNCHANGED tm
                   ELSE pc' = "next" /\ tm' = [tm EXCEPT !.kind = "stream"]
        /\ UNCHANGED <<conf, source, spos, spool, copy, res, cur, lo, faults>>

(* Mutant: the byte after the last is looked at.                           *)
hole_tail_past(size) == conf.layout # "unknown" /\ NextData(size) = -1

(* SEEK_DATA from the last byte on finds none.                             *)
hole_tail(size) == conf.layout # "unknown" /\ NextData(size - 1) = -1

(* The last block is there and reads as zeros.                             *)
tail_zero(size) == size <= Len(Src) /\ Reads(Src[size]) = Nul

(* A search that fails, or a read that fails or is short, says that the    *)
(* template does not end in a gap.                                         *)
FindTail ==
    /\ pc = "tail"
    /\ \/ /\ tm' = [tm EXCEPT !.tail = IF tm.kind = "zeros" THEN tail_zero(tm.size)
                                       ELSE hole_tail(tm.size)]
          /\ UNCHANGED faults
       \/ faults < MaxFaults /\ faults' = faults + 1 /\ UNCHANGED tm
    /\ IF tm.kind = "extents" /\ conf.layout # "unknown"
       THEN Moved(NextData(tm.size - 1)) ELSE UNCHANGED spos
    /\ pc' = "next"
    /\ UNCHANGED <<conf, source, spool, copy, res, cur, lo>>

(* spool_open(): memfd_create, or a file in TMPDIR that loses its name.  A *)
(* name that cannot be removed is warned of and stays; nothing looks at it *)
(* again.                                                                  *)
spool_open ==
    /\ pc \in {"spool", "mkstemp"}
    /\ \/ /\ pc' \in IF pc = "spool" THEN {"splice", "mkstemp"} ELSE {"splice"}
          /\ UNCHANGED faults
       \/ /\ pc = "mkstemp" /\ pc' = "splice"
          /\ faults < MaxFaults /\ faults' = faults + 1
    /\ UNCHANGED <<conf, source, spos, tm, spool, copy, res, cur, lo>>

(* fast_splice(): only from a pipe, and unusable only before it has moved  *)
(* anything.                                                               *)
fast_splice ==
    /\ pc = "splice"
    /\ \/ /\ conf.kind = "pipe"
          /\ \E k \in 1..(Len(src) - spos) :
                /\ spool' = spool \o SubSeq(src, spos + 1, spos + k)
                /\ spos' = spos + k
          /\ UNCHANGED <<pc, tm>>
       \/ /\ conf.kind = "pipe" /\ spos = Len(src)
          /\ tm' = [tm EXCEPT !.kind = "extents", !.size = Len(spool), !.spooled = TRUE]
          /\ pc' = "next" /\ UNCHANGED <<spool, spos>>
       \/ /\ spool = <<>>
          /\ pc' = "read" /\ UNCHANGED <<spool, spos, tm>>
    /\ UNCHANGED <<conf, source, copy, res, cur, lo, faults>>

-----------------------------------------------------------------------------
(* tmpl_apply() of the next operand, or the end of the run.                *)
Entry == [none |-> "size", extents |-> "seek", zeros |-> "zeros", stream |-> "read"]

NextOperand ==
    /\ pc = "next"
    /\ IF cur < conf.files
       THEN cur' = cur + 1 /\ pc' = Entry[tm.kind] /\ lo' = NewLocals
       ELSE pc' = "close" /\ UNCHANGED <<cur, lo>>
    /\ UNCHANGED <<conf, source, spos, tm, spool, copy, res, faults>>

Spooling == cur = 0

(* copy_stream(): a read, possibly short.                                  *)
StreamRead ==
    LET n == Least(Buf, Len(src) - spos) IN
    /\ pc = "read"
    /\ \/ /\ n > 0
          /\ \E k \in 1..n :
                /\ lo' = [lo EXCEPT !.buf = View(SubSeq(src, spos + 1, spos + k)), !.done = 0]
                /\ spos' = spos + k
          /\ pc' = "write" /\ UNCHANGED tm
       \/ /\ n <= 0
          /\ IF Spooling
             THEN /\ tm' = [tm EXCEPT !.kind = "extents", !.size = Len(spool),
                                      !.spooled = TRUE]
                  /\ pc' = "next"
             ELSE pc' = "size" /\ UNCHANGED tm
          /\ UNCHANGED <<spos, lo>>
    /\ UNCHANGED <<conf, source, spool, copy, res, cur, faults>>

(* io_write(): at the file offset, possibly short.                         *)
io_write ==
    /\ pc = "write"
    /\ \E k \in 1..(Len(lo.buf) - lo.done) :
          LET new == SubSeq(lo.buf, lo.done + 1, lo.done + k) IN
          /\ IF Spooling THEN spool' = Put(spool, lo.fpos, new) /\ UNCHANGED copy
             ELSE copy' = [copy EXCEPT ![cur] = Put(@, lo.fpos, new)] /\ UNCHANGED spool
          /\ lo' = [lo EXCEPT !.fpos = @ + k, !.done = @ + k]
          /\ pc' = IF lo.done + k = Len(lo.buf) THEN "read" ELSE "write"
    /\ UNCHANGED <<conf, source, spos, tm, res, cur, faults>>

-----------------------------------------------------------------------------
(* copy_extents(), from the top of its loop: the end of an extent is the   *)
(* start of the next search.                                               *)
ExtentAt(start, end) == lo' = [lo EXCEPT !.src = start, !.dst = start, !.end = end]

(* hole_next_data(): lseek(SEEK_DATA).                                     *)
SeekData ==
    LET data == NextData(lo.from) IN
    /\ pc = "seek"
    /\ IF lo.overstated \/ lo.from >= tm.size
       THEN pc' = "trunc" /\ UNCHANGED <<lo, spos>>
       ELSE IF Layout = "unknown"
       THEN ExtentAt(lo.from, tm.size) /\ pc' = "cfr" /\ UNCHANGED spos
       ELSE IF data = -1
       THEN pc' = "trunc" /\ UNCHANGED <<lo, spos>>
       ELSE ExtentAt(data, tm.size) /\ pc' = "hole" /\ Moved(data)
    /\ UNCHANGED <<conf, source, tm, spool, copy, res, cur, faults>>

(* lseek(SEEK_HOLE): where it fails, because the template shrank or for    *)
(* any other reason, the data is taken to go on to the end.                *)
SeekHole ==
    LET gap == NextGap(lo.src) IN
    /\ pc = "hole"
    /\ \/ /\ lo.src < Stated
          /\ lo' = [lo EXCEPT !.end = Least(gap, tm.size)]
          /\ Moved(gap) /\ UNCHANGED faults
       \/ /\ lo.src >= Stated
          /\ UNCHANGED <<lo, spos, faults>>
       \/ /\ faults < MaxFaults /\ faults' = faults + 1
          /\ UNCHANGED <<lo, spos>>
    /\ pc' = "cfr"
    /\ UNCHANGED <<conf, source, tm, spool, copy, res, cur>>

(* n blocks of the template at offset off, as they arrive in a copy that   *)
(* keeps gaps or writes them out.                                          *)
Blocks(off, n, keep) == LET s == SubSeq(Src, off + 1, off + n)
                        IN  IF keep THEN s ELSE View(s)

(* fast_copy(): copy_file_range moves both offsets; the kernel may keep    *)
(* gaps.                                                                   *)
fast_copy ==
    LET n == Least(lo.end - lo.src, Len(Src) - lo.src) IN
    /\ pc = "cfr"
    /\ \/ /\ lo.src >= lo.end
          /\ pc' = "pread" /\ UNCHANGED <<lo, copy>>
       \/ /\ lo.src < lo.end
          /\ \E k \in 1..n, keep \in BOOLEAN :
                /\ copy' = [copy EXCEPT ![cur] = Put(@, lo.dst, Blocks(lo.src, k, keep))]
                /\ lo' = [lo EXCEPT !.src = @ + k, !.dst = @ + k]
          /\ UNCHANGED pc
       \/ /\ lo.src < lo.end
          /\ pc' = "lseek" /\ UNCHANGED <<lo, copy>>
    /\ UNCHANGED <<conf, source, spos, tm, spool, res, cur, faults>>

(* Mutant: sendfile starts wherever the new file is positioned.            *)
SendSeekNot ==
    /\ pc = "lseek"
    /\ pc' = "sendfile"
    /\ UNCHANGED <<conf, source, spos, tm, spool, copy, res, cur, lo, faults>>

(* fast_sendfile(): lseek of the new file; where that fails the slow copy  *)
(* takes over.                                                             *)
SendSeek ==
    /\ pc = "lseek"
    /\ \/ lo' = [lo EXCEPT !.fpos = lo.dst] /\ pc' = "sendfile" /\ UNCHANGED faults
       \/ /\ faults < MaxFaults /\ faults' = faults + 1
          /\ pc' = "pread" /\ UNCHANGED lo
    /\ UNCHANGED <<conf, source, spos, tm, spool, copy, res, cur>>

(* sendfile takes an offset of the template and writes at the file offset. *)
fast_sendfile ==
    LET n == Least(lo.end - lo.src, Len(Src) - lo.src) IN
    /\ pc = "sendfile"
    /\ \/ \E k \in 1..n :
             /\ copy' = [copy EXCEPT ![cur] = Put(@, lo.fpos, Blocks(lo.src, k, FALSE))]
             /\ lo' = [lo EXCEPT !.src = @ + k, !.dst = @ + k, !.fpos = @ + k]
             /\ UNCHANGED pc
       \/ pc' = "pread" /\ UNCHANGED <<lo, copy>>
    /\ UNCHANGED <<conf, source, spos, tm, spool, res, cur, faults>>

(* Mutant: at the end of the source the buffer is written out once more.   *)
copy_slow_stale ==
    LET n == Least(Buf, Least(lo.end - lo.src, Len(Src) - lo.src)) IN
    /\ pc = "pread"
    /\ \/ /\ lo.src >= lo.end
          /\ lo' = [lo EXCEPT !.written = lo.dst, !.from = lo.end]
          /\ pc' = "seek"
       \/ /\ lo.src < lo.end
          /\ \E b \in IF n > 0 THEN {View(SubSeq(Src, lo.src + 1, lo.src + k)) : k \in 1..n}
                     ELSE {<<99>>} : lo' = [lo EXCEPT !.buf = b, !.done = 0]
          /\ pc' = "pwrite"
    /\ UNCHANGED <<conf, source, spos, tm, spool, copy, res, cur, faults>>

(* copy_slow(): what is left of the extent, by a pread that may be short.  *)
(* A template that ends early is overstated and ends the copy.             *)
copy_slow ==
    LET n == Least(Buf, Least(lo.end - lo.src, Len(Src) - lo.src)) IN
    /\ pc = "pread"
    /\ \/ /\ lo.src >= lo.end
          /\ lo' = [lo EXCEPT !.written = lo.dst, !.from = lo.end]
          /\ pc' = "seek"
       \/ /\ lo.src < lo.end /\ n > 0
          /\ \E k \in 1..n :
                lo' = [lo EXCEPT !.buf = View(SubSeq(Src, lo.src + 1, lo.src + k)),
                                 !.done = 0]
          /\ pc' = "pwrite"
       \/ /\ lo.src < lo.end /\ n <= 0
          /\ lo' = [lo EXCEPT !.overstated = TRUE, !.written = lo.dst, !.from = lo.end]
          /\ pc' = "seek"
    /\ UNCHANGED <<conf, source, spos, tm, spool, copy, res, cur, faults>>

(* io_pwrite(), possibly short; then both offsets advance.                 *)
io_pwrite ==
    LET n == Len(lo.buf) IN
    /\ pc = "pwrite"
    /\ \E k \in 1..(n - lo.done) :
          /\ copy' = [copy EXCEPT ![cur] =
                         Put(@, lo.dst + lo.done, SubSeq(lo.buf, lo.done + 1, lo.done + k))]
          /\ IF lo.done + k = n
             THEN lo' = [lo EXCEPT !.src = @ + n, !.dst = @ + n] /\ pc' = "pread"
             ELSE lo' = [lo EXCEPT !.done = @ + k] /\ UNCHANGED pc
    /\ UNCHANGED <<conf, source, spos, tm, spool, res, cur, faults>>

(* The gap at the end, which ftruncate makes.                              *)
ExtentsEnd ==
    /\ pc = "trunc"
    /\ copy' = IF lo.written < tm.size /\ ~lo.overstated
               THEN [copy EXCEPT ![cur] = Resize(@, tm.size)] ELSE copy
    /\ pc' = "size"
    /\ UNCHANGED <<conf, source, spos, tm, spool, res, cur, lo, faults>>

-----------------------------------------------------------------------------
(* copy_zeros(): pread of a buffer, possibly short, or ftruncate to what   *)
(* was read.                                                               *)
ZerosRead ==
    LET n == Least(Buf, Least(tm.size - lo.src, Len(Src) - lo.src)) IN
    /\ pc = "zeros"
    /\ IF n > 0
       THEN /\ \E k \in 1..n :
                  lo' = [lo EXCEPT !.buf = View(SubSeq(Src, lo.src + 1, lo.src + k))]
            /\ pc' = "block" /\ UNCHANGED copy
       ELSE /\ copy' = [copy EXCEPT ![cur] = Resize(@, lo.src)]
            /\ pc' = "size" /\ UNCHANGED lo
    /\ UNCHANGED <<conf, source, spos, tm, spool, res, cur, faults>>

(* A block of zeros is not written.                                        *)
ZerosBlock ==
    /\ pc = "block"
    /\ copy' = IF Head(lo.buf) = Nul THEN copy
               ELSE [copy EXCEPT ![cur] = Put(@, lo.src, <<Head(lo.buf)>>)]
    /\ lo' = [lo EXCEPT !.src = @ + 1, !.buf = Tail(@)]
    /\ pc' = IF Len(lo.buf) = 1 THEN "zeros" ELSE "block"
    /\ UNCHANGED <<conf, source, spos, tm, spool, res, cur, faults>>

-----------------------------------------------------------------------------
Done(r) == res' = [res EXCEPT ![cur] = r] /\ pc' = "next"

(* apply_size(), with the fstat that finds the size of a filled file.      *)
apply_size ==
    LET size == Len(copy[cur]) IN
    /\ pc = "size"
    /\ IF conf.size = NoSize THEN Done("ok") /\ UNCHANGED <<copy, lo>>
       ELSE IF conf.size <= size \/ conf.sparse \/ tm.tail
       THEN Done("ok") /\ copy' = [copy EXCEPT ![cur] = Resize(@, conf.size)] /\ UNCHANGED lo
       ELSE lo' = [lo EXCEPT !.dst = size] /\ pc' = "alloc" /\ UNCHANGED <<copy, res>>
    /\ UNCHANGED <<conf, source, spos, tm, spool, cur, faults>>

Zeros(n) == [k \in 1..n |-> Nul]

(* io_fill(): fallocate, or zeros are written, possibly short.             *)
fast_alloc ==
    /\ pc = "alloc"
    /\ \/ copy' = [copy EXCEPT ![cur] = Put(@, lo.dst, Zeros(conf.size - lo.dst))] /\ Done("ok")
       \/ pc' = "fill" /\ UNCHANGED <<copy, res>>
    /\ UNCHANGED <<conf, source, spos, tm, spool, cur, lo, faults>>

io_fill ==
    /\ pc = "fill"
    /\ IF lo.dst = conf.size THEN Done("ok") /\ UNCHANGED <<copy, lo>>
       ELSE /\ \E k \in 1..Least(Buf, conf.size - lo.dst) :
                  /\ copy' = [copy EXCEPT ![cur] = Put(@, lo.dst, Zeros(k))]
                  /\ lo' = [lo EXCEPT !.dst = @ + k]
            /\ UNCHANGED <<pc, res>>
    /\ UNCHANGED <<conf, source, spos, tm, spool, cur, faults>>

(* The program is not about to make a call that can fail for good.         *)
NoCall ==
    \/ pc \in {"next", "close", "done", "tail", "lseek", "hole"}
    \/ pc = "open" /\ conf.kind = "none"
    \/ pc = "seek" /\ (lo.overstated \/ lo.from >= tm.size)
    \/ pc \in {"cfr", "pread"} /\ lo.src >= lo.end
    \/ pc = "trunc" /\ (lo.overstated \/ lo.written >= tm.size)
    \/ pc = "block" /\ Head(lo.buf) = Nul
    \/ pc = "size" /\ conf.size = NoSize
    \/ pc = "fill" /\ lo.dst = conf.size

(* A call fails for good: before the first operand the run ends, later the *)
(* operand fails and what it has is taken away by op_fail().               *)
CallFails ==
    /\ ~NoCall
    /\ faults < MaxFaults /\ faults' = faults + 1
    /\ IF cur = 0 THEN pc' = "done" /\ UNCHANGED res ELSE Done("failed")
    /\ UNCHANGED <<conf, source, spos, tm, spool, copy, cur, lo>>

(* Mutant: standard input is left where the last search left it.           *)
tmpl_close_there ==
    /\ pc = "close"
    /\ pc' = "done"
    /\ UNCHANGED <<conf, source, spos, tm, spool, copy, res, cur, lo, faults>>

(* tmpl_close(): standard input is positioned after what was copied.       *)
tmpl_close ==
    /\ pc = "close"
    /\ spos' = IF conf.stdin /\ ~tm.spooled /\ tm.kind \in {"extents", "zeros"}
               THEN tm.size ELSE spos
    /\ pc' = "done"
    /\ UNCHANGED <<conf, source, tm, spool, copy, res, cur, lo, faults>>

-----------------------------------------------------------------------------
(* Another process changes the template, as the program works.             *)
Changed(s) ==
    /\ src' = s
    /\ changes' = changes + 1
    /\ sizes' = sizes \cup {Len(s)}
    /\ held' = [k \in DOMAIN held |->
                   held[k] \cup {IF k <= Len(s) THEN Reads(s[k]) ELSE Nul}]

OtherChanges ==
    /\ conf.kind = "plain"
    /\ pc # "done"
    /\ changes < MaxChanges
    /\ \/ /\ "grow" \in Changes
          /\ \E gap \in 0..1 : Changed(Put(src, Len(src) + gap, <<50 + changes>>))
       \/ /\ "shrink" \in Changes /\ src # <<>>
          /\ Changed(Resize(src, Len(src) - 1))
       \/ /\ "overwrite" \in Changes
          /\ \E k \in 1..Len(src) : Changed(Put(src, k - 1, <<50 + changes>>))
    /\ UNCHANGED <<conf, spos, tm, spool, copy, res, pc, cur, lo, faults>>

Ended == pc = "done" /\ UNCHANGED vars

Next == \/ tmpl_open \/ FindTail \/ spool_open \/ fast_splice
        \/ NextOperand \/ StreamRead \/ io_write
        \/ SeekData \/ SeekHole \/ fast_copy \/ SendSeek \/ fast_sendfile
        \/ copy_slow \/ io_pwrite \/ ExtentsEnd
        \/ ZerosRead \/ ZerosBlock
        \/ apply_size \/ fast_alloc \/ io_fill
        \/ CallFails \/ tmpl_close \/ OtherChanges \/ Ended

Spec == Init /\ [][Next]_vars

-----------------------------------------------------------------------------
Finished(i) == res[i] = "ok"

(* What a template that nobody changes gives from where it is read on.     *)
Content == SubSeq(src, conf.at + 1, Len(src))

(* A new file reads as the template does, cut or extended with zeros to    *)
(* the size -s gives, whatever kind of file the template is, whichever of  *)
(* copy_file_range, sendfile, splice and plain copying work or give up in  *)
(* the middle, and however short they come: tmpl_open(), tmpl_apply(),     *)
(* fast_copy(), apply_size().                                              *)
FaithfulCopy ==
    changes = 0 => \A i \in DOMAIN copy : Finished(i) =>
        View(copy[i]) = View(IF conf.size = NoSize THEN Content
                             ELSE Resize(Content, conf.size))

(* Gaps of a template that can be addressed as a whole stay gaps where the *)
(* system tells of them, and blocks of zeros become gaps where it cannot;  *)
(* what -s adds is a gap exactly if --sparse is given or the template ends *)
(* in one: copy_extents(), copy_zeros(), hole_tail(), tail_zero().         *)
LayoutKept ==
    changes = 0 /\ faults = 0 /\ conf.at = 0 /\ conf.kind \in {"plain", "none"} =>
        \A i \in DOMAIN copy : Finished(i) =>
            LET gaps == {k \in 1..Len(src) : src[k] = Gap}
                kept == CASE conf.layout = "known"  -> gaps
                          [] conf.layout = "hidden" -> {}
                          [] OTHER -> {k \in 1..Len(src) : gaps # {} /\ Reads(src[k]) = Nul}
            IN  \A k \in 1..Len(copy[i]) :
                    /\ k \in kept => copy[i][k] = Gap
                    /\ k > Len(src) =>
                         (copy[i][k] = Gap <=> conf.sparse \/ Len(src) \in kept)

(* Whatever other processes do to the template meanwhile, every block of a *)
(* new file is one the template held at that offset at some time since it  *)
(* was opened, or zeros past its end: no stale buffer, no block at the     *)
(* wrong offset after a short write or a fallback.                         *)
OnlyTemplateBytes ==
    \A i \in DOMAIN copy : Finished(i) =>
        \A k \in 1..Len(copy[i]) :
            \/ k + conf.at > Len(conf.content) /\ Reads(copy[i][k]) = Nul
            \/ k + conf.at \in DOMAIN held /\ Reads(copy[i][k]) \in held[k + conf.at]

(* Standard input is left just past what was copied, although searching    *)
(* for gaps moves it: tmpl_close().  A file that states more than it holds *)
(* is left past its end.                                                   *)
StdinLeft ==
    pc = "done" /\ conf.stdin /\ conf.kind # "overstated" /\ changes = 0
        /\ (\E i \in DOMAIN copy : Finished(i)) => spos = Len(src)

-----------------------------------------------------------------------------
(* Stated by newfile(1) and refuted: see the README on findings.           *)

(* Without -s a new file has a size that the template had at some time     *)
(* since it was opened.                                                    *)
SizeKept ==
    conf.size = NoSize => \A i \in DOMAIN copy : Finished(i) =>
        Len(copy[i]) + conf.at \in sizes
=============================================================================
