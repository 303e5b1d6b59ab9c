---------------------------- MODULE TemplateProofs -----------------------------
(***************************************************************************)
(* What is proved of Template, for any templates, requests, buffer and     *)
(* bounds.  Sound is the inductive invariant: the types, the order of the  *)
(* calls, and that every block in a new file, in the spool and in a buffer *)
(* is one that the template held at the offset where it stands or is about *)
(* to be written.  Lengths adds how long the files are while nobody        *)
(* changes the template, Input where standard input is, and Shape where    *)
(* the files have gaps while nothing fails either.                         *)
(***************************************************************************)
EXTENDS Template, WellFoundedInduction, TLAPS

(* Where the program is: before tmpl_open() is through, within an extent,  *)
(* in copy_extents(), after the copy, and at work on a file.               *)
Early    == {"open", "spool", "mkstemp", "splice"}
InExtent == {"hole", "cfr", "lseek", "sendfile", "pread", "pwrite"}
Extents  == InExtent \cup {"seek", "trunc"}
Sizing   == {"size", "alloc", "fill"}
Working  == Extents \cup {"zeros", "block", "read", "write"} \cup Sizing

(* struct tmpl, and the locals of a copy.                                  *)
Tmpl == [kind : {"none", "extents", "zeros", "stream"}, size : Nat, tail : BOOLEAN,
         spooled : BOOLEAN]
Locals == [from : Nat, end : Nat, src : Nat, dst : Nat, written : Nat,
           overstated : BOOLEAN, fpos : Nat, buf : Seq(Nat), done : Nat]

(* The offsets that held tells of.                                         *)
Offsets(c) == 1..(Len(c.content) + 2 * MaxChanges + 1)

(* What the variables hold.                                                *)
Types ==
    /\ conf \in Confs
    /\ src \in Seq(Nat) /\ spool \in Seq(Nat)
    /\ spos \in Nat
    /\ tm \in Tmpl
    /\ copy \in [1..conf.files -> Seq(Nat)]
    /\ res \in [1..conf.files -> {"none", "ok", "failed"}]
    /\ pc \in Early \cup Working \cup {"tail", "next", "close", "done"}
    /\ cur \in 0..conf.files
    /\ lo \in Locals
    /\ changes \in 0..MaxChanges
    /\ held \in [Offsets(conf) -> SUBSET Nat]

(* Before tmpl_open() has decided.                                         *)
Unread == [kind |-> "none", size |-> 0, tail |-> FALSE, spooled |-> FALSE]

(* The order of the calls: what is decided at each of them, and that the   *)
(* files of later operands are untouched.                                  *)
Flow ==
    /\ pc \in Early \cup {"tail"} => cur = 0 /\ lo = NewLocals
    /\ pc \in Early \/ (pc \in {"read", "write"} /\ cur = 0) => tm = Unread
    /\ pc \in {"open", "spool", "mkstemp"} => spool = <<>>
    /\ pc \in Working => cur > 0 \/ pc \in {"read", "write"}
    /\ pc \in Extents => tm.kind = "extents"
    /\ pc \in {"zeros", "block"} => tm.kind = "zeros"
    /\ pc \in {"read", "write"} /\ cur > 0 => tm.kind = "stream"
    /\ pc = "tail" => tm.kind \in {"extents", "zeros"} /\ ~tm.spooled /\ tm.size > 0
    /\ tm.kind = "none" /\ pc \notin Early \cup {"read", "write", "done"}
         => conf.kind = "none"
    /\ tm.spooled => tm.kind = "extents" /\ tm.size = Len(spool)
    /\ tm.kind \in {"extents", "zeros"} => tm.spooled \/ conf.at = 0
    /\ pc \notin {"close", "done"} =>
         \A i \in 1..conf.files : i > cur => copy[i] = <<>> /\ res[i] = "none"
    /\ pc \in Working /\ cur > 0 => res[cur] = "none"
    /\ pc \in {"alloc", "fill"} => conf.size # NoSize

-----------------------------------------------------------------------------
(* Files.                                                                  *)
LEMMA ConfFacts ==
    ASSUME Types
    PROVE  /\ conf.kind \in {"plain", "overstated", "unsized", "pipe", "none"}
           /\ conf.content \in Seq(Nat) /\ conf.stdin \in BOOLEAN /\ conf.at \in Nat
           /\ conf.layout \in {"known", "unknown", "hidden"}
           /\ conf.size # NoSize => conf.size \in Nat
           /\ conf.sparse \in BOOLEAN /\ conf.files \in Nat \ {0}
           /\ conf.at # 0 => conf.stdin /\ conf.at <= Len(conf.content)
           /\ conf.kind = "none" => conf.content = <<>> /\ ~conf.stdin
           /\ conf.at <= Len(conf.content)
           /\ conf.kind # "plain" => \A i \in 1..Len(conf.content) : conf.content[i] # Gap
           /\ conf.kind \in {"overstated", "unsized"} => conf.layout # "known"
           /\ Buf \in Nat \ {0} /\ MaxChanges \in Nat
  BY TemplateAssumption DEF Types, Conf

(* Least is the smaller of two numbers.                                    *)
LEMMA LeastProps ==
    ASSUME NEW m \in Int, NEW n \in Int
    PROVE  /\ Least(m, n) \in Int /\ Least(m, n) <= m /\ Least(m, n) <= n
           /\ Least(m, n) = m \/ Least(m, n) = n
  BY DEF Least

(* A write at an offset replaces what is there, and leaves a gap behind    *)
(* the end of the file.                                                    *)
LEMMA PutProps ==
    ASSUME NEW s \in Seq(Nat), NEW off \in Nat, NEW new \in Seq(Nat)
    PROVE  /\ Put(s, off, new) \in Seq(Nat)
           /\ Len(Put(s, off, new)) = IF off + Len(new) > Len(s) THEN off + Len(new) ELSE Len(s)
           /\ \A k \in 1..Len(Put(s, off, new)) :
                 Put(s, off, new)[k] = IF k \in (off + 1)..(off + Len(new)) THEN new[k - off]
                                       ELSE IF k <= Len(s) THEN s[k] ELSE Gap
<1> DEFINE n == IF off + Len(new) > Len(s) THEN off + Len(new) ELSE Len(s)
           e(k) == IF k \in (off + 1)..(off + Len(new)) THEN new[k - off]
                   ELSE IF k <= Len(s) THEN s[k] ELSE Gap
<1>1. n \in Nat OBVIOUS
<1>2. \A k \in 1..n : e(k) \in Nat BY DEF Gap
<1>3. Put(s, off, new) = [k \in 1..n |-> e(k)] BY DEF Put
<1> HIDE DEF n, e
<1>4. [k \in 1..n |-> e(k)] \in Seq(Nat) BY <1>1, <1>2
<1>5. Len([k \in 1..n |-> e(k)]) = n BY <1>1, <1>2, <1>4
<1> QED BY <1>3, <1>4, <1>5 DEF n, e

(* ftruncate cuts a file or adds a gap.                                    *)
LEMMA ResizeProps ==
    ASSUME NEW s \in Seq(Nat), NEW n \in Nat
    PROVE  /\ Resize(s, n) \in Seq(Nat) /\ Len(Resize(s, n)) = n
           /\ \A k \in 1..n : Resize(s, n)[k] = IF k <= Len(s) THEN s[k] ELSE Gap
<1>1. \A k \in 1..n : (IF k <= Len(s) THEN s[k] ELSE Gap) \in Nat BY DEF Gap
<1>2. Resize(s, n) \in Seq(Nat) BY <1>1 DEF Resize
<1>3. Len(Resize(s, n)) = n BY <1>2 DEF Resize
<1> QED BY <1>2, <1>3 DEF Resize

(* What a reader sees of a file has its size.                              *)
LEMMA ViewProps ==
    ASSUME NEW s \in Seq(Nat)
    PROVE  /\ View(s) \in Seq(Nat) /\ Len(View(s)) = Len(s)
           /\ \A k \in 1..Len(s) : View(s)[k] = Reads(s[k])
<1>1. \A k \in 1..Len(s) : Reads(s[k]) \in Nat BY DEF Reads, Nul
<1>2. View(s) \in Seq(Nat) BY <1>1 DEF View
<1>3. Len(View(s)) = Len(s) BY <1>2 DEF View
<1> QED BY <1>2, <1>3 DEF View

(* A read at an offset gets the blocks from there on.                      *)
LEMMA PartProps ==
    ASSUME NEW s \in Seq(Nat), NEW off \in Nat, NEW n \in Nat, off + n <= Len(s)
    PROVE  /\ SubSeq(s, off + 1, off + n) \in Seq(Nat)
           /\ Len(SubSeq(s, off + 1, off + n)) = n
           /\ \A k \in 1..n : SubSeq(s, off + 1, off + n)[k] = s[off + k]
  OBVIOUS

(* What splice appends comes after what is there.                          *)
LEMMA ConcatProps ==
    ASSUME NEW s \in Seq(Nat), NEW t \in Seq(Nat)
    PROVE  /\ Len(s \o t) = Len(s) + Len(t)
           /\ \A k \in 1..(Len(s) + Len(t)) :
                 (s \o t)[k] = IF k <= Len(s) THEN s[k] ELSE t[k - Len(s)]
  OBVIOUS

(* io_fill() and fallocate write nothing but zeros.                        *)
LEMMA ZerosProps ==
    ASSUME NEW n \in Nat
    PROVE  /\ Zeros(n) \in Seq(Nat) /\ Len(Zeros(n)) = n
           /\ \A k \in 1..n : Zeros(n)[k] = Nul
<1>1. Zeros(n) \in Seq(Nat) BY DEF Zeros, Nul
<1>2. Len(Zeros(n)) = n BY <1>1 DEF Zeros
<1> QED BY <1>1, <1>2 DEF Zeros

(* A set of naturals that is not empty has a least element, and CHOOSE     *)
(* finds it.                                                               *)
LEMMA LeastFound ==
    ASSUME NEW S \in SUBSET Nat, S # {}
    PROVE  /\ (CHOOSE k \in S : \A j \in S : k <= j) \in S
           /\ \A n \in S : (CHOOSE k \in S : \A j \in S : k <= j) <= n
<1> DEFINE R == OpToRel(<, Nat)
<1>1. IsWellFoundedOn(R, Nat) BY NatLessThanWellFounded
<1>2. \E x \in S : \A y \in S : ~(<<y, x>> \in R)
  <2> HIDE DEF R
  <2> QED BY <1>1, WFMin
<1>3. \A x, y \in Nat : x < y => <<x, y>> \in R BY DEF OpToRel
<1> HIDE DEF R
<1>4. PICK x \in S : \A y \in S : ~(<<y, x>> \in R) BY <1>2
<1>5. \A n \in S : ~(n < x) BY <1>3, <1>4
<1>6. \A n \in S : x <= n BY <1>5
<1> QED BY <1>6

(* The file that tmpl->fd names is a file, and states at least what it     *)
(* holds: fstat of tmpl_open().                                            *)
LEMMA SrcProps ==
    ASSUME Types
    PROVE  /\ Src \in Seq(Nat) /\ Len(Src) \in Nat
           /\ Stated \in Nat /\ Len(Src) <= Stated
           /\ Stated = Len(Src) \/ Stated = Len(Src) + 1
           /\ conf.kind # "overstated" \/ tm.spooled => Stated = Len(Src)
<1>1. Src \in Seq(Nat) BY DEF Types, Src
<1> QED BY <1>1 DEF Stated

(* What lseek(SEEK_DATA) skips is a gap.                                   *)
LEMMA DataProps ==
    ASSUME Types, NEW from \in Nat
    PROVE  /\ NextData(from) = -1 \/ NextData(from) \in from..(Stated - 1)
           /\ \A k \in from..(Stated - 1) : NextData(from) = -1 \/ k < NextData(from) =>
                 Layout # "hidden" /\ k < Len(Src) /\ Src[k + 1] = Gap
           /\ NextData(from) # -1 => Layout = "hidden" \/ NextData(from) >= Len(Src)
                                     \/ Src[NextData(from) + 1] # Gap
<1> DEFINE data == {k \in from..(Stated - 1) :
                      Layout = "hidden" \/ k >= Len(Src) \/ Src[k + 1] # Gap}
<1>1. Stated \in Nat /\ Len(Src) \in Nat BY SrcProps
<1>2. data \in SUBSET Nat BY <1>1
<1>3. \A k \in from..(Stated - 1) : k \notin data =>
         Layout # "hidden" /\ k < Len(Src) /\ Src[k + 1] = Gap BY <1>1
<1>4. CASE data = {}
  <2>1. NextData(from) = -1 BY <1>4 DEF NextData
  <2> QED BY <1>3, <1>4, <2>1
<1>5. CASE data # {}
  <2> DEFINE d == CHOOSE k \in data : \A j \in data : k <= j
  <2>1. NextData(from) = d BY <1>5 DEF NextData
  <2>2. \A k \in data : Layout = "hidden" \/ k >= Len(Src) \/ Src[k + 1] # Gap OBVIOUS
  <2>3. data \subseteq from..(Stated - 1) OBVIOUS
  <2> HIDE DEF data
  <2>4. d \in data /\ \A n \in data : d <= n BY <1>2, <1>5, LeastFound
  <2> HIDE DEF d
  <2>5. d # -1 /\ d \in Nat BY <1>2, <2>4
  <2>6. \A k \in from..(Stated - 1) : k < d => k \notin data BY <1>1, <2>4, <2>5
  <2> QED BY <1>3, <2>1, <2>2, <2>3, <2>4, <2>5, <2>6
<1> QED BY <1>4, <1>5

(* What lies before lseek(SEEK_HOLE) is data, where gaps are told of.      *)
LEMMA GapProps ==
    ASSUME Types, NEW from \in Nat, from < Stated
    PROVE  /\ NextGap(from) \in from..Stated
           /\ NextGap(from) \in Nat
           /\ \A k \in from..(NextGap(from) - 1) :
                 ~(Layout = "known" /\ k < Len(Src) /\ Src[k + 1] = Gap)
           /\ NextGap(from) # Stated =>
                 Layout = "known" /\ NextGap(from) < Len(Src)
                   /\ Src[NextGap(from) + 1] = Gap
<1> DEFINE gap == {k \in from..(Stated - 1) :
                     Layout = "known" /\ k < Len(Src) /\ Src[k + 1] = Gap}
<1>1. Stated \in Nat /\ Len(Src) \in Nat BY SrcProps
<1>2. gap \in SUBSET Nat BY <1>1
<1>3. CASE gap = {}
  <2>1. NextGap(from) = Stated BY <1>3 DEF NextGap
  <2>2. \A k \in from..(Stated - 1) :
           ~(Layout = "known" /\ k < Len(Src) /\ Src[k + 1] = Gap) BY <1>3
  <2> QED BY <1>1, <2>1, <2>2
<1>4. CASE gap # {}
  <2> DEFINE d == CHOOSE k \in gap : \A j \in gap : k <= j
  <2>1. NextGap(from) = d BY <1>4 DEF NextGap
  <2>2. \A k \in gap : Layout = "known" /\ k < Len(Src) /\ Src[k + 1] = Gap OBVIOUS
  <2>3. gap \subseteq from..(Stated - 1) OBVIOUS
  <2>4. \A k \in from..(Stated - 1) : k \notin gap =>
           ~(Layout = "known" /\ k < Len(Src) /\ Src[k + 1] = Gap) OBVIOUS
  <2> HIDE DEF gap
  <2>5. d \in gap /\ \A n \in gap : d <= n BY <1>2, <1>4, LeastFound
  <2> HIDE DEF d
  <2>6. d \in Nat /\ d < Stated /\ d >= from BY <1>1, <1>2, <2>3, <2>5
  <2>7. \A k \in from..(d - 1) : k \notin gap BY <1>1, <2>5, <2>6
  <2>8. \A k \in from..(d - 1) : k \in from..(Stated - 1) BY <1>1, <2>6
  <2>9. \A k \in from..(d - 1) : ~(Layout = "known" /\ k < Len(Src) /\ Src[k + 1] = Gap)
    BY <2>4, <2>7, <2>8
  <2> QED BY <1>1, <2>1, <2>2, <2>5, <2>6, <2>9
<1> QED BY <1>3, <1>4

(* What a copying call moves are the blocks at its offset, gaps read as    *)
(* zeros.                                                                  *)
LEMMA BlocksProps ==
    ASSUME Types, NEW off \in Nat, NEW n \in Nat, off + n <= Len(Src), NEW keep \in BOOLEAN
    PROVE  /\ Blocks(off, n, keep) \in Seq(Nat) /\ Len(Blocks(off, n, keep)) = n
           /\ \A k \in 1..n : Reads(Blocks(off, n, keep)[k]) = Reads(Src[off + k])
<1> DEFINE s == SubSeq(Src, off + 1, off + n)
<1>1. Src \in Seq(Nat) BY SrcProps
<1>2. s \in Seq(Nat) /\ Len(s) = n /\ \A k \in 1..n : s[k] = Src[off + k] BY <1>1, PartProps
<1>3. Blocks(off, n, keep) = IF keep THEN s ELSE View(s) BY DEF Blocks
<1> HIDE DEF s
<1>4. View(s) \in Seq(Nat) /\ Len(View(s)) = n /\ \A k \in 1..n : View(s)[k] = Reads(s[k])
  BY <1>2, ViewProps
<1>5. \A c : Reads(Reads(c)) = Reads(c) BY DEF Reads, Gap, Nul
<1>6. CASE keep BY <1>2, <1>3, <1>6
<1>7. CASE ~keep
  <2>1. Blocks(off, n, keep) = View(s) BY <1>3, <1>7
  <2> QED BY <1>2, <1>4, <1>5, <2>1
<1> QED BY <1>6, <1>7

USE DEF Early, InExtent, Extents, Sizing, Working

(* tmpl_open() keeps the types and the order.                              *)
LEMMA OpenFlow == ASSUME Types, Flow, tmpl_open PROVE Types' /\ Flow'
<1>1. Stated \in Nat BY SrcProps
<1>2. tm' \in Tmpl BY <1>1 DEF tmpl_open, Types, Tmpl
<1>3. Types' BY <1>2 DEF tmpl_open, Types, source
<1>4. tm = Unread /\ cur = 0 /\ lo = NewLocals /\ spool = <<>> /\ pc = "open"
      /\ \A i \in 1..conf.files : i > cur => copy[i] = <<>> /\ res[i] = "none"
  BY DEF tmpl_open, Flow
<1>5. UNCHANGED <<conf, spool, copy, res, cur, lo>> BY DEF tmpl_open
<1>6. CASE conf.kind = "none"
  <2>1. UNCHANGED tm /\ pc' = "next" BY <1>6 DEF tmpl_open
  <2> QED BY <1>3, <1>4, <1>5, <1>6, <2>1 DEF Flow, Unread
<1>7. CASE conf.kind # "none" /\ conf.at = 0 /\ conf.kind \in {"plain", "overstated"}
             /\ Stated > 0
  <2>1. tm'.kind \in {"extents", "zeros"} /\ tm'.size = Stated /\ tm'.spooled = FALSE
        /\ pc' = "tail"
    BY <1>4, <1>7 DEF tmpl_open, Unread
  <2> QED BY <1>3, <1>4, <1>5, <1>7, <2>1 DEF Flow
<1>8. CASE conf.kind # "none" /\ ~(conf.at = 0 /\ conf.kind \in {"plain", "overstated"}
             /\ Stated > 0)
  <2>1. CASE conf.files > 1
    <3>1. pc' = "spool" /\ tm' = tm BY <1>8, <2>1 DEF tmpl_open
    <3> QED BY <1>3, <1>4, <1>5, <3>1 DEF Flow
  <2>2. CASE ~(conf.files > 1)
    <3>1. pc' = "next" /\ tm'.kind = "stream" /\ tm'.spooled = FALSE
      BY <1>4, <1>8, <2>2 DEF tmpl_open, Unread
    <3> QED BY <1>3, <1>4, <1>5, <3>1 DEF Flow
  <2> QED BY <2>1, <2>2
<1> QED BY <1>3, <1>6, <1>7, <1>8

(* hole_tail() and tail_zero() keeps the types and the order.              *)
LEMMA TailFlow == ASSUME Types, Flow, FindTail PROVE Types' /\ Flow'
<1>1. tm.size \in Nat BY DEF Types, Tmpl
<1>1a. tm.size - 1 \in Nat BY <1>1 DEF Flow, FindTail
<1>2. tm' \in Tmpl BY <1>1 DEF FindTail, Types, Tmpl, hole_tail, tail_zero
<1>3. spos' \in Nat BY <1>1a, SrcProps, DataProps DEF FindTail, Types, Moved
<1>4. Types' BY <1>2, <1>3 DEF FindTail, Types, source
<1>5. Flow' BY <1>2 DEF FindTail, Types, Flow, source, Tmpl, Unread
<1> QED BY <1>4, <1>5

(* spool_open() keeps the types and the order.                             *)
LEMMA SpoolFlow == ASSUME Types, Flow, spool_open PROVE Types' /\ Flow'
<1>1. pc' \in {"splice", "mkstemp"} BY DEF spool_open
<1>2. Types' BY <1>1 DEF spool_open, Types, source
<1>3. Flow' BY <1>1 DEF spool_open, Types, Flow, source
<1> QED BY <1>2, <1>3

(* fast_splice() keeps the types and the order.                            *)
LEMMA SpliceFlow == ASSUME Types, Flow, fast_splice PROVE Types' /\ Flow'
<1> USE DEF source
<1>1. ASSUME NEW k \in 1..(Len(src) - spos), spool' = spool \o SubSeq(src, spos + 1,
               spos + k),
             spos' = spos + k, UNCHANGED <<pc, tm>>, pc = "splice",
             UNCHANGED <<conf, source, copy, res, cur, lo, faults>>
      PROVE  Types' /\ Flow'
  <2>1. spos + k <= Len(src) /\ k \in Nat BY <1>1 DEF Types
  <2>2. SubSeq(src, spos + 1, spos + k) \in Seq(Nat) BY <2>1, PartProps DEF Types
  <2>3. spool' \in Seq(Nat) BY <1>1, <2>2 DEF Types
  <2>4. spos' \in Nat BY <1>1, <2>1 DEF Types
  <2>5. Types' BY <1>1, <2>3, <2>4 DEF Types
  <2>6. Flow' BY <1>1 DEF Types, Flow, Unread
  <2> QED BY <2>5, <2>6
<1>2. CASE tm' = [tm EXCEPT !.kind = "extents", !.size = Len(spool), !.spooled = TRUE]
           /\ pc' = "next" /\ UNCHANGED <<spool, spos>>
  <2>0. Len(spool) \in Nat BY DEF Types
  <2>1. tm' \in Tmpl BY <1>2, <2>0 DEF Types, Tmpl
  <2>2. Types' BY <1>2, <2>1 DEF fast_splice, Types
  <2>3. Flow' BY <1>2 DEF fast_splice, Types, Flow, Tmpl
  <2> QED BY <2>2, <2>3
<1>3. CASE pc' = "read" /\ UNCHANGED <<spool, spos, tm>>
  <2>1. Types' BY <1>3 DEF fast_splice, Types
  <2>2. Flow' BY <1>3 DEF fast_splice, Types, Flow
  <2> QED BY <2>1, <2>2
<1> QED BY <1>1, <1>2, <1>3 DEF fast_splice

(* tmpl_apply() of the next operand keeps the types and the order.         *)
LEMMA NextFlow == ASSUME Types, Flow, NextOperand PROVE Types' /\ Flow'
<1>1. NewLocals \in Locals BY DEF NewLocals, Locals
<1>2. cur' \in 0..conf.files BY ConfFacts DEF NextOperand, Types
<1>3. tm.kind \in {"none", "extents", "zeros", "stream"} BY DEF Types, Tmpl
<1>4. Entry[tm.kind] = IF tm.kind = "none" THEN "size" ELSE IF tm.kind = "extents" THEN "seek"
                       ELSE IF tm.kind = "zeros" THEN "zeros" ELSE "read"
  BY <1>3 DEF Entry
<1>5. Types' BY <1>1, <1>2, <1>3, <1>4 DEF NextOperand, Types, source
<1>6. UNCHANGED <<conf, tm, spool, copy, res>> /\ pc = "next" BY DEF NextOperand
<1>7. CASE cur < conf.files
  <2>1. cur' = cur + 1 /\ pc' = Entry[tm.kind] BY <1>7 DEF NextOperand
  <2>2. cur + 1 \in 1..conf.files BY <1>7, ConfFacts DEF Types
  <2>3. res[cur + 1] = "none" BY <2>2, <1>6 DEF Flow, Types
  <2>4. \A i \in 1..conf.files : i > cur + 1 => copy[i] = <<>> /\ res[i] = "none"
    BY <1>6, ConfFacts DEF Flow, Types
  <2> QED BY <1>3, <1>4, <1>5, <1>6, <2>1, <2>2, <2>3, <2>4 DEF Flow
<1>8. CASE ~(cur < conf.files)
  <2>1. UNCHANGED cur /\ pc' = "close" BY <1>8 DEF NextOperand
  <2> QED BY <1>5, <1>6, <2>1 DEF Flow
<1> QED BY <1>7, <1>8

(* The operand at work is one of the run, and its file is a file.          *)
LEMMA CurProps ==
    ASSUME Types, cur > 0
    PROVE  cur \in 1..conf.files /\ copy[cur] \in Seq(Nat) /\ Len(copy[cur]) \in Nat
<1>1. cur \in 1..conf.files BY ConfFacts DEF Types
<1>2. copy \in [1..conf.files -> Seq(Nat)] BY DEF Types
<1>3. copy[cur] \in Seq(Nat) BY <1>1, <1>2
<1> QED BY <1>1, <1>3

(* A call changes the file of the operand at work and no other.            *)
LEMMA CopySet ==
    ASSUME Types, cur > 0, NEW x \in Seq(Nat), copy' = [copy EXCEPT ![cur] = x]
    PROVE  /\ cur \in 1..conf.files
           /\ copy' \in [1..conf.files -> Seq(Nat)] /\ copy'[cur] = x
           /\ \A i \in 1..conf.files : i # cur => copy'[i] = copy[i]
<1>1. cur \in 1..conf.files BY ConfFacts DEF Types
<1> QED BY <1>1 DEF Types

(* A step from one call of an operand to another.                          *)
LEMMA WorkFlow ==
    ASSUME Types, Flow, pc \in Working, cur > 0, UNCHANGED <<conf, tm, spool, res, cur>>,
           copy' = copy \/ \E x \in Seq(Nat) : copy' = [copy EXCEPT ![cur] = x],
           pc' \in Working,
           pc' \in Extents => tm.kind = "extents",
           pc' \in {"zeros", "block"} => tm.kind = "zeros",
           pc' \in {"read", "write"} => tm.kind = "stream",
           pc' \in {"alloc", "fill"} => conf.size # NoSize
    PROVE  Flow' /\ copy' \in [1..conf.files -> Seq(Nat)]
<1>1. cur \in 1..conf.files BY ConfFacts DEF Types
<1>2. copy' \in [1..conf.files -> Seq(Nat)] /\ \A i \in 1..conf.files : i # cur
        => copy'[i] = copy[i]
  BY <1>1, CopySet DEF Types
<1>3. \A i \in 1..conf.files : i > cur => copy'[i] = <<>> /\ res[i] = "none"
  <2>1. \A i \in 1..conf.files : i > cur => copy[i] = <<>> /\ res[i] = "none" BY DEF Flow
  <2>2. \A i \in 1..conf.files : i > cur => i # cur BY <1>1
  <2> QED BY <1>2, <2>1, <2>2
<1>4. cur > 0 /\ res[cur] = "none" BY DEF Flow
<1> QED BY <1>2, <1>3, <1>4 DEF Flow

(* A step that is the last of an operand.                                  *)
LEMMA DoneFlow ==
    ASSUME Types, Flow, pc \in Working, cur > 0, UNCHANGED <<conf, tm, spool, cur>>,
           copy' = copy \/ \E x \in Seq(Nat) : copy' = [copy EXCEPT ![cur] = x],
           NEW r \in {"ok", "failed"}, Done(r)
    PROVE  /\ Flow' /\ copy' \in [1..conf.files -> Seq(Nat)]
           /\ res' \in [1..conf.files -> {"none", "ok", "failed"}] /\ pc' = "next"
           /\ res'[cur] = r /\ \A i \in 1..conf.files : i # cur => res'[i] = res[i]
<1>1. cur \in 1..conf.files BY ConfFacts DEF Types
<1>2. copy' \in [1..conf.files -> Seq(Nat)] /\ \A i \in 1..conf.files : i # cur
        => copy'[i] = copy[i]
  BY <1>1, CopySet DEF Types
<1>2a. /\ res' \in [1..conf.files -> {"none", "ok", "failed"}] /\ pc' = "next"
       /\ res'[cur] = r /\ \A i \in 1..conf.files : i # cur => res'[i] = res[i]
  BY <1>1 DEF Types, Done
<1>3. \A i \in 1..conf.files : i > cur => copy'[i] = <<>> /\ res'[i] = "none"
  <2>1. \A i \in 1..conf.files : i > cur => copy[i] = <<>> /\ res[i] = "none" BY DEF Flow
  <2>2. \A i \in 1..conf.files : i > cur => i # cur BY <1>1
  <2> QED BY <1>2, <1>2a, <2>1, <2>2
<1>4. tm.kind = "none" => conf.kind = "none" BY DEF Flow
<1> QED BY <1>2, <1>2a, <1>3, <1>4 DEF Flow

(* The read of copy_stream() keeps the types and the order.                *)
LEMMA ReadFlow == ASSUME Types, Flow, StreamRead PROVE Types' /\ Flow'
<1> USE DEF source
<1> DEFINE n == Least(Buf, Len(src) - spos)
<1>1. n \in Int /\ n <= Len(src) - spos BY ConfFacts DEF Types, Least
<1>2. ASSUME n > 0, NEW k \in 1..n,
             lo' = [lo EXCEPT !.buf = View(SubSeq(src, spos + 1, spos + k)), !.done = 0],
             spos' = spos + k, pc' = "write", UNCHANGED tm
      PROVE  Types' /\ Flow'
  <2>1. k \in Nat /\ spos + k <= Len(src) /\ spos \in Nat BY <1>1, <1>2 DEF Types
  <2> DEFINE v == View(SubSeq(src, spos + 1, spos + k))
  <2>2. v \in Seq(Nat) BY <2>1, PartProps, ViewProps DEF Types
  <2>2a. lo' = [lo EXCEPT !.buf = v, !.done = 0] BY <1>2
  <2> HIDE DEF v
  <2>3. lo' \in Locals BY <2>2, <2>2a DEF Types, Locals
  <2>4. UNCHANGED <<conf, source, spool, copy, res, cur, faults>> BY DEF StreamRead
  <2>4a. spos' \in Nat /\ tm' = tm /\ pc' = "write" BY <1>2, <2>1
  <2>4b. Types' BY <2>3, <2>4, <2>4a DEF Types
  <2>5. Flow' BY <1>2 DEF StreamRead, Types, Flow
  <2> QED BY <2>4b, <2>5
<1>3. CASE n <= 0 /\ UNCHANGED <<spos, lo>> /\ cur = 0
           /\ tm' = [tm EXCEPT !.kind = "extents", !.size = Len(spool), !.spooled = TRUE]
           /\ pc' = "next"
  <2>1. Len(spool) \in Nat BY DEF Types
  <2>2. tm' \in Tmpl BY <1>3, <2>1 DEF Types, Tmpl
  <2>3. tm'.kind = "extents" /\ tm'.size = Len(spool) /\ tm'.spooled = TRUE
    BY <1>3 DEF Types, Tmpl
  <2>4. Types' BY <1>3, <2>2 DEF StreamRead, Types
  <2>5. Flow' BY <1>3, <2>3 DEF StreamRead, Flow
  <2> QED BY <2>4, <2>5
<1>4. CASE n <= 0 /\ UNCHANGED <<spos, lo, tm>> /\ cur # 0 /\ pc' = "size"
  <2>0. cur > 0 BY <1>4, ConfFacts DEF Types
  <2>1. Types' BY <1>4 DEF StreamRead, Types
  <2>2. Flow' BY <1>4, <2>0, WorkFlow DEF StreamRead
  <2> QED BY <2>1, <2>2
<1> QED BY <1>2, <1>3, <1>4 DEF StreamRead, Spooling

(* io_write() keeps the types and the order.                               *)
LEMMA WriteFlow == ASSUME Types, Flow, io_write PROVE Types' /\ Flow'
<1> USE DEF source
<1>1. PICK k \in 1..(Len(lo.buf) - lo.done) :
          LET new == SubSeq(lo.buf, lo.done + 1, lo.done + k) IN
          /\ IF Spooling THEN spool' = Put(spool, lo.fpos, new) /\ UNCHANGED copy
             ELSE copy' = [copy EXCEPT ![cur] = Put(@, lo.fpos, new)] /\ UNCHANGED spool
          /\ lo' = [lo EXCEPT !.fpos = @ + k, !.done = @ + k]
          /\ pc' = IF lo.done + k = Len(lo.buf) THEN "read" ELSE "write"
  BY DEF io_write
<1> DEFINE new == SubSeq(lo.buf, lo.done + 1, lo.done + k)
<1>2. lo.buf \in Seq(Nat) /\ lo.done \in Nat /\ lo.fpos \in Nat BY DEF Types, Locals
<1>3. k \in Nat /\ lo.done + k <= Len(lo.buf) BY <1>2
<1>4. new \in Seq(Nat) BY <1>2, <1>3, PartProps
<1>5. lo' \in Locals
  <2>1. lo' = [lo EXCEPT !.fpos = @ + k, !.done = @ + k] BY <1>1
  <2>2. lo' = [lo EXCEPT !.fpos = lo.fpos + k, !.done = lo.done + k] BY <2>1
  <2>3. lo.fpos + k \in Nat /\ lo.done + k \in Nat BY <1>2, <1>3
  <2> QED BY <2>2, <2>3 DEF Types, Locals
<1> HIDE DEF new
<1>6. CASE cur = 0
  <2>1. spool' = Put(spool, lo.fpos, new) /\ UNCHANGED copy BY <1>1, <1>6 DEF Spooling, new
  <2>2. spool' \in Seq(Nat) BY <1>2, <1>4, <2>1, PutProps DEF Types
  <2>3. Types' BY <1>1, <1>5, <2>1, <2>2 DEF io_write, Types
  <2>4. Flow' BY <1>1, <1>6, <2>1 DEF io_write, Flow, Unread
  <2> QED BY <2>3, <2>4
<1>7. CASE cur # 0
  <2>0. cur > 0 /\ cur \in 1..conf.files BY <1>7, ConfFacts DEF Types
  <2>1. copy' = [copy EXCEPT ![cur] = Put(copy[cur], lo.fpos, new)] /\ UNCHANGED spool
    BY <1>1, <1>7 DEF Spooling, new
  <2>2. Put(copy[cur], lo.fpos, new) \in Seq(Nat) BY <1>2, <1>4, <2>0, PutProps DEF Types
  <2>2a. \E x \in Seq(Nat) : copy' = [copy EXCEPT ![cur] = x] BY <2>1, <2>2
  <2>2b. tm.kind = "stream" BY <2>0 DEF io_write, Flow
  <2>3. Flow' /\ copy' \in [1..conf.files -> Seq(Nat)]
    BY <1>1, <2>0, <2>1, <2>2a, <2>2b, WorkFlow DEF io_write
  <2>4. Types' BY <1>1, <1>5, <2>1, <2>3 DEF io_write, Types
  <2> QED BY <2>3, <2>4
<1> QED BY <1>6, <1>7

(* hole_next_data() keeps the types and the order.                         *)
LEMMA SeekDataFlow == ASSUME Types, Flow, SeekData PROVE Types' /\ Flow'
<1> USE DEF source
<1>1. lo.from \in Nat /\ tm.size \in Nat BY DEF Types, Locals, Tmpl
<1> DEFINE data == NextData(lo.from)
<1>2. data = -1 \/ data \in Nat BY <1>1, SrcProps, DataProps
<1>3. spos' \in Nat BY <1>2 DEF SeekData, Moved, Types
<1>4. lo' = lo \/ \E x \in Nat : lo' = [lo EXCEPT !.src = x, !.dst = x, !.end = tm.size]
  BY <1>1, <1>2 DEF SeekData, ExtentAt
<1>5. lo' \in Locals BY <1>1, <1>4 DEF Types, Locals
<1>6. pc' \in {"trunc", "cfr", "hole"} BY DEF SeekData
<1>7. pc = "seek" /\ UNCHANGED <<conf, source, tm, spool, copy, res, cur, faults>>
  BY DEF SeekData
<1>8. cur > 0 /\ tm.kind = "extents" BY <1>7 DEF Flow
<1>9. Flow' BY <1>6, <1>7, <1>8, WorkFlow
<1>10. Types' BY <1>3, <1>5, <1>6, <1>7 DEF Types
<1> QED BY <1>9, <1>10

(* lseek(SEEK_HOLE) keeps the types and the order.                         *)
LEMMA SeekHoleFlow == ASSUME Types, Flow, SeekHole PROVE Types' /\ Flow'
<1> USE DEF source
<1>1. lo.src \in Nat /\ tm.size \in Nat BY DEF Types, Locals, Tmpl
<1> DEFINE gap == NextGap(lo.src)
<1>2. lo.src < Stated => gap \in Nat BY <1>1, GapProps
<1>3. spos' \in Nat BY <1>2 DEF SeekHole, Moved, Types
<1>4. lo' = lo \/ \E x \in Nat : lo' = [lo EXCEPT !.end = x]
  BY <1>1, <1>2 DEF SeekHole, Least
<1>5. lo' \in Locals BY <1>4 DEF Types, Locals
<1>7. pc = "hole" /\ pc' = "cfr" /\ UNCHANGED <<conf, source, tm, spool, copy, res, cur>>
  BY DEF SeekHole
<1>8. cur > 0 /\ tm.kind = "extents" BY <1>7 DEF Flow
<1>9. Flow' BY <1>7, <1>8, WorkFlow
<1>10. Types' BY <1>3, <1>5, <1>7 DEF Types
<1> QED BY <1>9, <1>10

(* fast_copy() keeps the types and the order.                              *)
LEMMA CopyFlow == ASSUME Types, Flow, fast_copy PROVE Types' /\ Flow'
<1> USE DEF source
<1> DEFINE n == Least(lo.end - lo.src, Len(Src) - lo.src)
<1>1. lo.src \in Nat /\ lo.end \in Nat /\ lo.dst \in Nat /\ Len(Src) \in Nat
  BY SrcProps DEF Types, Locals
<1>2. n \in Int /\ n <= Len(Src) - lo.src BY <1>1 DEF Least
<1>3. pc = "cfr" /\ UNCHANGED <<conf, source, spos, tm, spool, res, cur, faults>>
  BY DEF fast_copy
<1>4. cur > 0 /\ tm.kind = "extents" BY <1>3 DEF Flow
<1>4a. copy[cur] \in Seq(Nat) BY <1>4, CurProps
<1>5. CASE UNCHANGED <<lo, copy>> /\ pc' \in {"pread", "lseek"}
  <2>1. Flow' BY <1>3, <1>4, <1>5, WorkFlow
  <2>2. Types' BY <1>3, <1>5 DEF Types
  <2> QED BY <2>1, <2>2
<1>6. ASSUME NEW k \in 1..n, NEW keep \in BOOLEAN,
             copy' = [copy EXCEPT ![cur] = Put(copy[cur], lo.dst, Blocks(lo.src, k, keep))],
             lo' = [lo EXCEPT !.src = lo.src + k, !.dst = lo.dst + k], UNCHANGED pc
      PROVE  Types' /\ Flow'
  <2>1. k \in Nat /\ lo.src + k <= Len(Src) BY <1>1, <1>2
  <2>2. Put(copy[cur], lo.dst, Blocks(lo.src, k, keep)) \in Seq(Nat)
    BY <1>1, <1>4a, <2>1, BlocksProps, PutProps
  <2>3. lo.src + k \in Nat /\ lo.dst + k \in Nat BY <1>1, <2>1
  <2>4. lo' \in Locals BY <1>6, <2>3 DEF Types, Locals
  <2>5. \E x \in Seq(Nat) : copy' = [copy EXCEPT ![cur] = x] BY <1>6, <2>2
  <2>6. Flow' /\ copy' \in [1..conf.files -> Seq(Nat)] BY <1>3, <1>4, <1>6, <2>5, WorkFlow
  <2>7. Types' BY <1>3, <1>6, <2>4, <2>6 DEF Types
  <2> QED BY <2>6, <2>7
<1> QED BY <1>5, <1>6 DEF fast_copy

(* The lseek of fast_sendfile() keeps the types and the order.             *)
LEMMA SendSeekFlow == ASSUME Types, Flow, SendSeek PROVE Types' /\ Flow'
<1> USE DEF source
<1>1. lo.dst \in Nat BY DEF Types, Locals
<1>2. lo' \in Locals BY <1>1 DEF SendSeek, Types, Locals
<1>3. pc = "lseek" /\ UNCHANGED <<conf, source, spos, tm, spool, copy, res, cur>>
      /\ pc' \in {"sendfile", "pread"}
  BY DEF SendSeek
<1>4. cur > 0 /\ tm.kind = "extents" BY <1>3 DEF Flow
<1>5. Flow' BY <1>3, <1>4, WorkFlow
<1>6. Types' BY <1>2, <1>3 DEF Types
<1> QED BY <1>5, <1>6

(* fast_sendfile() keeps the types and the order.                          *)
LEMMA SendFlow == ASSUME Types, Flow, fast_sendfile PROVE Types' /\ Flow'
<1> USE DEF source
<1> DEFINE n == Least(lo.end - lo.src, Len(Src) - lo.src)
<1>1. lo.src \in Nat /\ lo.end \in Nat /\ lo.dst \in Nat /\ lo.fpos \in Nat
        /\ Len(Src) \in Nat
  BY SrcProps DEF Types, Locals
<1>2. n \in Int /\ n <= Len(Src) - lo.src BY <1>1 DEF Least
<1>3. pc = "sendfile" /\ UNCHANGED <<conf, source, spos, tm, spool, res, cur, faults>>
  BY DEF fast_sendfile
<1>4. cur > 0 /\ tm.kind = "extents" BY <1>3 DEF Flow
<1>4a. copy[cur] \in Seq(Nat) BY <1>4, CurProps
<1>5. CASE UNCHANGED <<lo, copy>> /\ pc' = "pread"
  <2>1. Flow' BY <1>3, <1>4, <1>5, WorkFlow
  <2>2. Types' BY <1>3, <1>5 DEF Types
  <2> QED BY <2>1, <2>2
<1>6. ASSUME NEW k \in 1..n, UNCHANGED pc,
             copy' = [copy EXCEPT ![cur] = Put(copy[cur], lo.fpos, Blocks(lo.src, k,
               FALSE))],
             lo' = [lo EXCEPT !.src = lo.src + k, !.dst = lo.dst + k, !.fpos = lo.fpos + k]
      PROVE  Types' /\ Flow'
  <2>1. k \in Nat /\ lo.src + k <= Len(Src) BY <1>1, <1>2
  <2>1a. Blocks(lo.src, k, FALSE) \in Seq(Nat) BY <1>1, <2>1, BlocksProps
  <2>2. Put(copy[cur], lo.fpos, Blocks(lo.src, k, FALSE)) \in Seq(Nat)
    BY <1>1, <1>4a, <2>1a, PutProps
  <2>3. lo.src + k \in Nat /\ lo.dst + k \in Nat /\ lo.fpos + k \in Nat BY <1>1, <2>1
  <2>4. lo' \in Locals BY <1>6, <2>3 DEF Types, Locals
  <2>5. \E x \in Seq(Nat) : copy' = [copy EXCEPT ![cur] = x] BY <1>6, <2>2
  <2>6. Flow' /\ copy' \in [1..conf.files -> Seq(Nat)] BY <1>3, <1>4, <1>6, <2>5, WorkFlow
  <2>7. Types' BY <1>3, <1>6, <2>4, <2>6 DEF Types
  <2> QED BY <2>6, <2>7
<1> QED BY <1>5, <1>6 DEF fast_sendfile

(* copy_slow() keeps the types and the order.                              *)
LEMMA SlowFlow == ASSUME Types, Flow, copy_slow PROVE Types' /\ Flow'
<1> USE DEF source
<1> DEFINE n == Least(Buf, Least(lo.end - lo.src, Len(Src) - lo.src))
           v(k) == View(SubSeq(Src, lo.src + 1, lo.src + k))
<1>1. lo.src \in Nat /\ lo.end \in Nat /\ lo.dst \in Nat /\ Len(Src) \in Nat
        /\ Src \in Seq(Nat)
  BY SrcProps DEF Types, Locals
<1>2. n \in Int /\ n <= Len(Src) - lo.src
  <2> DEFINE m == Least(lo.end - lo.src, Len(Src) - lo.src)
  <2>1. m \in Int /\ m <= Len(Src) - lo.src BY <1>1 DEF Least
  <2> HIDE DEF m
  <2>2. Least(Buf, m) \in Int /\ Least(Buf, m) <= m BY <2>1, ConfFacts DEF Least
  <2> QED BY <1>1, <2>1, <2>2 DEF m
<1>3. pc = "pread" /\ UNCHANGED <<conf, source, spos, tm, spool, copy, res, cur, faults>>
      /\ pc' \in {"seek", "pwrite"}
  BY DEF copy_slow
<1>4. cur > 0 /\ tm.kind = "extents" BY <1>3 DEF Flow
<1>5. ASSUME NEW k \in 1..n PROVE v(k) \in Seq(Nat)
  <2> HIDE DEF n
  <2>1. k \in Nat /\ lo.src + k <= Len(Src) BY <1>1, <1>2
  <2> QED BY <1>1, <2>1, PartProps, ViewProps
<1>6. \/ lo' = [lo EXCEPT !.written = lo.dst, !.from = lo.end]
      \/ \E k \in 1..n : lo' = [lo EXCEPT !.buf = v(k), !.done = 0]
      \/ lo' = [lo EXCEPT !.overstated = TRUE, !.written = lo.dst, !.from = lo.end]
  BY DEF copy_slow
<1> HIDE DEF v, n
<1>7. lo' \in Locals
  <2>1. lo \in Locals BY DEF Types
  <2>2. CASE lo' = [lo EXCEPT !.written = lo.dst, !.from = lo.end]
    BY <1>1, <2>1, <2>2 DEF Locals
  <2>3. ASSUME NEW b \in Seq(Nat), lo' = [lo EXCEPT !.buf = b, !.done = 0]
        PROVE  lo' \in Locals
    BY <2>1, <2>3 DEF Locals
  <2>4. CASE lo' = [lo EXCEPT !.overstated = TRUE, !.written = lo.dst, !.from = lo.end]
    BY <1>1, <2>1, <2>4 DEF Locals
  <2> QED BY <1>5, <1>6, <2>2, <2>3, <2>4
<1>8. Flow' BY <1>3, <1>4, WorkFlow
<1>9. Types' BY <1>3, <1>7 DEF Types
<1> QED BY <1>8, <1>9

(* io_pwrite() keeps the types and the order.                              *)
LEMMA PwriteFlow == ASSUME Types, Flow, io_pwrite PROVE Types' /\ Flow'
<1> USE DEF source
<1> DEFINE n == Len(lo.buf)
<1>1. lo.src \in Nat /\ lo.dst \in Nat /\ lo.done \in Nat /\ lo.buf \in Seq(Nat)
        /\ n \in Nat
  BY DEF Types, Locals
<1>2. pc = "pwrite" /\ UNCHANGED <<conf, source, spos, tm, spool, res, cur, faults>>
  BY DEF io_pwrite
<1>3. cur > 0 /\ tm.kind = "extents" BY <1>2 DEF Flow
<1>4. copy[cur] \in Seq(Nat) BY <1>3, CurProps
<1>5. PICK k \in 1..(n - lo.done) :
          /\ copy' = [copy EXCEPT ![cur] = Put(copy[cur], lo.dst + lo.done,
                                               SubSeq(lo.buf, lo.done + 1, lo.done + k))]
          /\ \/ lo' = [lo EXCEPT !.src = lo.src + n, !.dst = lo.dst + n] /\ pc' = "pread"
             \/ lo' = [lo EXCEPT !.done = lo.done + k] /\ UNCHANGED pc
  BY DEF io_pwrite
<1>6. k \in Nat /\ lo.done + k <= n BY <1>1
<1>7. SubSeq(lo.buf, lo.done + 1, lo.done + k) \in Seq(Nat) BY <1>1, <1>6, PartProps
<1> HIDE DEF n
<1>8. lo.dst + lo.done \in Nat /\ lo.src + n \in Nat /\ lo.dst + n \in Nat
        /\ lo.done + k \in Nat
  BY <1>1, <1>6
<1>9. lo' \in Locals BY <1>5, <1>8 DEF Types, Locals
<1>10. \E x \in Seq(Nat) : copy' = [copy EXCEPT ![cur] = x]
  BY <1>4, <1>5, <1>7, <1>8, PutProps
<1>11. pc' \in {"pread", "pwrite"} BY <1>2, <1>5
<1>12. Flow' /\ copy' \in [1..conf.files -> Seq(Nat)] BY <1>2, <1>3, <1>10, <1>11, WorkFlow
<1>13. Types' BY <1>2, <1>9, <1>11, <1>12 DEF Types
<1> QED BY <1>12, <1>13

(* The last ftruncate of copy_extents() keeps the types and the order.     *)
LEMMA ExtentsEndFlow == ASSUME Types, Flow, ExtentsEnd PROVE Types' /\ Flow'
<1> USE DEF source
<1>1. pc = "trunc" /\ pc' = "size"
      /\ UNCHANGED <<conf, source, spos, tm, spool, res, cur, lo, faults>>
  BY DEF ExtentsEnd
<1>2. cur > 0 /\ tm.kind = "extents" BY <1>1 DEF Flow
<1>3. copy[cur] \in Seq(Nat) /\ tm.size \in Nat BY <1>2, CurProps DEF Types, Tmpl
<1>4. copy' = copy \/ copy' = [copy EXCEPT ![cur] = Resize(copy[cur], tm.size)]
  BY DEF ExtentsEnd
<1>5. copy' = copy \/ \E x \in Seq(Nat) : copy' = [copy EXCEPT ![cur] = x]
  BY <1>3, <1>4, ResizeProps
<1>6. Flow' /\ copy' \in [1..conf.files -> Seq(Nat)] BY <1>1, <1>2, <1>5, WorkFlow
<1>7. Types' BY <1>1, <1>6 DEF Types
<1> QED BY <1>6, <1>7

(* The read of copy_zeros() keeps the types and the order.                 *)
LEMMA ZerosFlow == ASSUME Types, Flow, ZerosRead PROVE Types' /\ Flow'
<1> USE DEF source
<1> DEFINE n == Least(Buf, Least(tm.size - lo.src, Len(Src) - lo.src))
           v(k) == View(SubSeq(Src, lo.src + 1, lo.src + k))
<1>1. lo.src \in Nat /\ tm.size \in Nat /\ Len(Src) \in Nat /\ Src \in Seq(Nat)
  BY SrcProps DEF Types, Locals, Tmpl
<1>2. n \in Int /\ n <= Len(Src) - lo.src
  <2> DEFINE m == Least(tm.size - lo.src, Len(Src) - lo.src)
  <2>1. m \in Int /\ m <= Len(Src) - lo.src BY <1>1 DEF Least
  <2> HIDE DEF m
  <2>2. Least(Buf, m) \in Int /\ Least(Buf, m) <= m BY <2>1, ConfFacts DEF Least
  <2> QED BY <1>1, <2>1, <2>2 DEF m
<1>3. pc = "zeros" /\ UNCHANGED <<conf, source, spos, tm, spool, res, cur, faults>>
  BY DEF ZerosRead
<1>4. cur > 0 /\ tm.kind = "zeros" BY <1>3 DEF Flow
<1>4a. copy[cur] \in Seq(Nat) BY <1>4, CurProps
<1>5. ASSUME NEW k \in 1..n PROVE v(k) \in Seq(Nat)
  <2> HIDE DEF n
  <2>1. k \in Nat /\ lo.src + k <= Len(Src) BY <1>1, <1>2
  <2> QED BY <1>1, <2>1, PartProps, ViewProps
<1>6. \/ /\ \E k \in 1..n : lo' = [lo EXCEPT !.buf = v(k)]
         /\ pc' = "block" /\ UNCHANGED copy
      \/ copy' = [copy EXCEPT ![cur] = Resize(copy[cur], lo.src)] /\ pc' = "size"
           /\ UNCHANGED lo
  BY DEF ZerosRead
<1> HIDE DEF v, n
<1>7. lo' \in Locals
  <2>1. lo \in Locals BY DEF Types
  <2>2. ASSUME NEW b \in Seq(Nat), lo' = [lo EXCEPT !.buf = b] PROVE lo' \in Locals
    BY <2>1, <2>2 DEF Locals
  <2> QED BY <1>5, <1>6, <2>1, <2>2
<1>8. copy' = copy \/ \E x \in Seq(Nat) : copy' = [copy EXCEPT ![cur] = x]
  BY <1>1, <1>4a, <1>6, ResizeProps
<1>8a. pc' \in {"block", "size"} BY <1>6
<1>9. Flow' /\ copy' \in [1..conf.files -> Seq(Nat)] BY <1>3, <1>4, <1>8, <1>8a, WorkFlow
<1>10. Types' BY <1>3, <1>7, <1>8a, <1>9 DEF Types
<1> QED BY <1>9, <1>10

(* apply_size() keeps the types and the order.                             *)
LEMMA ApplyFlow == ASSUME Types, Flow, apply_size PROVE Types' /\ Flow'
<1> USE DEF source
<1>1. pc = "size" /\ UNCHANGED <<conf, source, spos, tm, spool, cur, faults>>
  BY DEF apply_size
<1>2. cur > 0 BY <1>1 DEF Flow
<1>3. copy[cur] \in Seq(Nat) /\ Len(copy[cur]) \in Nat BY <1>2, CurProps
<1>4. CASE conf.size = NoSize
  <2>1. Done("ok") /\ UNCHANGED <<copy, lo>> BY <1>4 DEF apply_size
  <2>2. /\ Flow' /\ copy' \in [1..conf.files -> Seq(Nat)]
        /\ res' \in [1..conf.files -> {"none", "ok", "failed"}] /\ pc' = "next"
    BY <1>1, <1>2, <2>1, DoneFlow
  <2> QED BY <1>1, <2>1, <2>2 DEF Types
<1>5. CASE conf.size # NoSize /\ (conf.size <= Len(copy[cur]) \/ conf.sparse \/ tm.tail)
  <2>1. Done("ok") /\ copy' = [copy EXCEPT ![cur] = Resize(copy[cur], conf.size)]
          /\ UNCHANGED lo
    BY <1>5 DEF apply_size
  <2>2. \E x \in Seq(Nat) : copy' = [copy EXCEPT ![cur] = x]
    BY <1>3, <1>5, <2>1, ResizeProps, ConfFacts
  <2>3. /\ Flow' /\ copy' \in [1..conf.files -> Seq(Nat)]
        /\ res' \in [1..conf.files -> {"none", "ok", "failed"}] /\ pc' = "next"
    BY <1>1, <1>2, <2>1, <2>2, DoneFlow
  <2> QED BY <1>1, <2>1, <2>3 DEF Types
<1>6. CASE conf.size # NoSize /\ ~(conf.size <= Len(copy[cur]) \/ conf.sparse \/ tm.tail)
  <2>1. lo' = [lo EXCEPT !.dst = Len(copy[cur])] /\ pc' = "alloc" /\ UNCHANGED <<copy, res>>
    BY <1>6 DEF apply_size
  <2>2. lo' \in Locals BY <1>3, <2>1 DEF Types, Locals
  <2>3. Flow' BY <1>1, <1>2, <1>6, <2>1, WorkFlow
  <2> QED BY <1>1, <2>1, <2>2, <2>3 DEF Types
<1> QED BY <1>4, <1>5, <1>6

(* A block of copy_zeros() keeps the types and the order.                  *)
LEMMA BlockFlow == ASSUME Types, Flow, ZerosBlock, lo.buf # <<>> PROVE Types' /\ Flow'
<1> USE DEF source
<1>1. pc = "block" /\ UNCHANGED <<conf, source, spos, tm, spool, res, cur, faults>>
      /\ pc' \in {"zeros", "block"}
  BY DEF ZerosBlock
<1>2. cur > 0 /\ tm.kind = "zeros" BY <1>1 DEF Flow
<1>3. copy[cur] \in Seq(Nat) BY <1>2, CurProps
<1>4. lo.buf \in Seq(Nat) /\ lo.src \in Nat BY DEF Types, Locals
<1>5. Tail(lo.buf) \in Seq(Nat) /\ <<Head(lo.buf)>> \in Seq(Nat) BY <1>4
<1>6. lo' = [lo EXCEPT !.src = lo.src + 1, !.buf = Tail(lo.buf)] BY DEF ZerosBlock
<1>7. lo' \in Locals
  <2>1. lo.src + 1 \in Nat BY <1>4
  <2> DEFINE v == Tail(lo.buf)
  <2>2. v \in Seq(Nat) /\ lo' = [lo EXCEPT !.src = lo.src + 1, !.buf = v] BY <1>5, <1>6
  <2> HIDE DEF v
  <2> QED BY <2>1, <2>2 DEF Types, Locals
<1>8. copy' = copy \/ copy' = [copy EXCEPT ![cur] = Put(copy[cur], lo.src,
        <<Head(lo.buf)>>)]
  BY DEF ZerosBlock
<1>9. copy' = copy \/ \E x \in Seq(Nat) : copy' = [copy EXCEPT ![cur] = x]
  BY <1>3, <1>4, <1>5, <1>8, PutProps
<1>10. Flow' /\ copy' \in [1..conf.files -> Seq(Nat)] BY <1>1, <1>2, <1>9, WorkFlow
<1>11. Types' BY <1>1, <1>7, <1>10 DEF Types
<1> QED BY <1>10, <1>11

(* fast_alloc() keeps the types and the order.                             *)
LEMMA AllocFlow ==
    ASSUME Types, Flow, fast_alloc, lo.dst <= conf.size PROVE Types' /\ Flow'
<1> USE DEF source
<1>1. pc = "alloc" /\ UNCHANGED <<conf, source, spos, tm, spool, cur, lo, faults>>
  BY DEF fast_alloc
<1>2. cur > 0 /\ conf.size # NoSize BY <1>1 DEF Flow
<1>3. copy[cur] \in Seq(Nat) BY <1>2, CurProps
<1>4. lo.dst \in Nat /\ conf.size \in Nat BY <1>2, ConfFacts DEF Types, Locals
<1>4a. conf.size - lo.dst \in Nat BY <1>4
<1>5. CASE copy' = [copy EXCEPT ![cur] = Put(copy[cur], lo.dst,
             Zeros(conf.size - lo.dst))] /\ Done("ok")
  <2>1. \E x \in Seq(Nat) : copy' = [copy EXCEPT ![cur] = x]
    BY <1>3, <1>4, <1>4a, <1>5, ZerosProps, PutProps
  <2>2. /\ Flow' /\ copy' \in [1..conf.files -> Seq(Nat)]
        /\ res' \in [1..conf.files -> {"none", "ok", "failed"}] /\ pc' = "next"
    BY <1>1, <1>2, <1>5, <2>1, DoneFlow
  <2> QED BY <1>1, <2>2 DEF Types
<1>6. CASE pc' = "fill" /\ UNCHANGED <<copy, res>>
  <2>1. Flow' BY <1>1, <1>2, <1>6, WorkFlow
  <2> QED BY <1>1, <1>6, <2>1 DEF Types
<1> QED BY <1>5, <1>6 DEF fast_alloc

(* io_fill() keeps the types and the order.                                *)
LEMMA FillFlow == ASSUME Types, Flow, io_fill PROVE Types' /\ Flow'
<1> USE DEF source
<1>1. pc = "fill" /\ UNCHANGED <<conf, source, spos, tm, spool, cur, faults>>
  BY DEF io_fill
<1>2. cur > 0 /\ conf.size # NoSize BY <1>1 DEF Flow
<1>3. copy[cur] \in Seq(Nat) BY <1>2, CurProps
<1>4. lo.dst \in Nat /\ conf.size \in Nat /\ Buf \in Nat
  BY <1>2, ConfFacts DEF Types, Locals
<1>5. CASE Done("ok") /\ UNCHANGED <<copy, lo>>
  <2>2. /\ Flow' /\ copy' \in [1..conf.files -> Seq(Nat)]
        /\ res' \in [1..conf.files -> {"none", "ok", "failed"}] /\ pc' = "next"
    BY <1>1, <1>2, <1>5, DoneFlow
  <2> QED BY <1>1, <1>5, <2>2 DEF Types
<1>6. ASSUME NEW k \in 1..Least(Buf, conf.size - lo.dst), UNCHANGED <<pc, res>>,
             copy' = [copy EXCEPT ![cur] = Put(copy[cur], lo.dst, Zeros(k))],
             lo' = [lo EXCEPT !.dst = lo.dst + k]
      PROVE  Types' /\ Flow'
  <2>1. k \in Nat BY <1>4, LeastProps
  <2>2. \E x \in Seq(Nat) : copy' = [copy EXCEPT ![cur] = x]
    BY <1>3, <1>4, <1>6, <2>1, ZerosProps, PutProps
  <2>3. lo.dst + k \in Nat BY <1>4, <2>1
  <2>4. lo' \in Locals BY <1>6, <2>3 DEF Types, Locals
  <2>5. Flow' /\ copy' \in [1..conf.files -> Seq(Nat)] BY <1>1, <1>2, <1>6, <2>2, WorkFlow
  <2>6. Types' BY <1>1, <1>6, <2>4, <2>5 DEF Types
  <2> QED BY <2>5, <2>6
<1> QED BY <1>5, <1>6 DEF io_fill

(* A call that fails for good keeps the types and the order.               *)
LEMMA FailsFlow == ASSUME Types, Flow, CallFails PROVE Types' /\ Flow'
<1> USE DEF source
<1>1. UNCHANGED <<conf, source, spos, tm, spool, copy, cur, lo>> BY DEF CallFails
<1>2. pc \notin {"next", "close", "done", "tail"} BY DEF CallFails, NoCall
<1>3. CASE cur = 0
  <2>1. pc' = "done" /\ UNCHANGED res BY <1>3 DEF CallFails
  <2>2. pc \in Early \/ pc \in {"read", "write"} BY <1>2, <1>3, ConfFacts DEF Flow, Types
  <2>3. Flow' BY <1>1, <1>3, <2>1, <2>2 DEF Flow, Unread
  <2>4. Types' BY <1>1, <2>1 DEF Types
  <2> QED BY <2>3, <2>4
<1>4. CASE cur # 0
  <2>1. Done("failed") BY <1>4 DEF CallFails
  <2>2. cur > 0 BY <1>4, ConfFacts DEF Types
  <2>3. pc \in Working BY <1>2, <1>4 DEF Flow, Types
  <2>4. /\ Flow' /\ copy' \in [1..conf.files -> Seq(Nat)]
        /\ res' \in [1..conf.files -> {"none", "ok", "failed"}] /\ pc' = "next"
    BY <1>1, <2>1, <2>2, <2>3, DoneFlow
  <2> QED BY <1>1, <2>4 DEF Types
<1> QED BY <1>3, <1>4

(* tmpl_close() keeps the types and the order.                             *)
LEMMA CloseFlow == ASSUME Types, Flow, tmpl_close PROVE Types' /\ Flow'
<1>1. tm.size \in Nat BY DEF Types, Tmpl
<1>2. Types' BY <1>1 DEF tmpl_close, Types, source
<1>3. Flow' BY DEF tmpl_close, Flow
<1> QED BY <1>2, <1>3

(* Another process makes the template at most two blocks longer.           *)
LEMMA OtherShape ==
    ASSUME Types, OtherChanges
    PROVE  \E s \in Seq(Nat) : Changed(s) /\ Len(s) <= Len(src) + 2
<1> DEFINE w == <<50 + changes>>
<1>1. changes \in Nat /\ src \in Seq(Nat) /\ Len(src) \in Nat BY ConfFacts DEF Types
<1>2. w \in Seq(Nat) /\ Len(w) = 1 BY <1>1
<1> HIDE DEF w
<1>3. ASSUME NEW off \in Nat, off <= Len(src) + 1, Changed(Put(src, off, w))
      PROVE  \E s \in Seq(Nat) : Changed(s) /\ Len(s) <= Len(src) + 2
  <2>1. Put(src, off, w) \in Seq(Nat) /\ Len(Put(src, off, w)) <= Len(src) + 2
    <3>1. /\ Put(src, off, w) \in Seq(Nat)
          /\ Len(Put(src, off, w)) = IF off + Len(w) > Len(src) THEN off + Len(w) ELSE Len(src)
      BY <1>1, <1>2, PutProps
    <3> QED BY <1>1, <1>2, <1>3, <3>1
  <2> QED BY <1>3, <2>1
<1>4. ASSUME NEW gap \in 0..1, Changed(Put(src, Len(src) + gap, w))
      PROVE  \E s \in Seq(Nat) : Changed(s) /\ Len(s) <= Len(src) + 2
  <2>1. Len(src) + gap \in Nat /\ Len(src) + gap <= Len(src) + 1 BY <1>1
  <2> QED BY <1>3, <1>4, <2>1
<1>5. ASSUME src # <<>>, Changed(Resize(src, Len(src) - 1))
      PROVE  \E s \in Seq(Nat) : Changed(s) /\ Len(s) <= Len(src) + 2
  <2>1. Len(src) - 1 \in Nat BY <1>1, <1>5
  <2>2. Resize(src, Len(src) - 1) \in Seq(Nat)
          /\ Len(Resize(src, Len(src) - 1)) = Len(src) - 1
    BY <1>1, <2>1, ResizeProps
  <2>3. Len(Resize(src, Len(src) - 1)) <= Len(src) + 2 BY <1>1, <2>2
  <2> QED BY <1>5, <2>2, <2>3
<1>6. ASSUME NEW k \in 1..Len(src), Changed(Put(src, k - 1, w))
      PROVE  \E s \in Seq(Nat) : Changed(s) /\ Len(s) <= Len(src) + 2
  <2>1. k - 1 \in Nat /\ k - 1 <= Len(src) + 1 BY <1>1
  <2> QED BY <1>3, <1>6, <2>1
<1> QED BY <1>4, <1>5, <1>6 DEF OtherChanges, w

(* A change of the template by another process keeps the types and the     *)
(* order.                                                                  *)
LEMMA OtherFlow == ASSUME Types, Flow, OtherChanges PROVE Types' /\ Flow'
<1>1. UNCHANGED <<conf, spos, tm, spool, copy, res, pc, cur, lo, faults>>
        /\ changes < MaxChanges
  BY DEF OtherChanges
<1>4. PICK s \in Seq(Nat) : Changed(s) BY OtherShape
<1>5. src' \in Seq(Nat) BY <1>4 DEF Changed
<1>6. changes' \in 0..MaxChanges BY <1>1, <1>4, ConfFacts DEF Changed, Types
<1>7. \A k \in 1..Len(s) : Reads(s[k]) \in Nat BY DEF Reads, Nul
<1>8. held' \in [Offsets(conf) -> SUBSET Nat]
  <2>1. DOMAIN held = Offsets(conf) /\ \A k \in Offsets(conf) : held[k] \in SUBSET Nat
    BY DEF Types
  <2>1a. Offsets(conf) \subseteq Nat \ {0} BY ConfFacts DEF Offsets
  <2>2. \A k \in Offsets(conf) : (IF k <= Len(s) THEN Reads(s[k]) ELSE Nul) \in Nat
    BY <1>7, <2>1a DEF Nul
  <2>3. held' = [k \in Offsets(conf) |->
                   held[k] \cup {IF k <= Len(s) THEN Reads(s[k]) ELSE Nul}]
    BY <1>4, <2>1 DEF Changed
  <2> QED BY <2>1, <2>2, <2>3
<1>9. Types' BY <1>1, <1>5, <1>6, <1>8 DEF Types
<1>10. Flow' BY <1>1 DEF Flow
<1> QED BY <1>9, <1>10

-----------------------------------------------------------------------------
(* What the blocks of a new file are.                                      *)

(* In a run of c whose template has held h, block k of a new file may read *)
(* as v does.                                                              *)
Fits(c, h, k, v) == \/ k + c.at > Len(c.content) /\ Reads(v) = Nul
                    \/ k + c.at \in Offsets(c) /\ Reads(v) \in h[k + c.at]

(* So may all of a file, a gap from m to n, and nothing at all from n on.  *)
AllFit(c, h, s)     == \A k \in 1..Len(s) : Fits(c, h, k, s[k])
GapFits(c, h, m, n) == \A k \in (m + 1)..n : Fits(c, h, k, Gap)
EndFits(c, h, n)    == \A k \in (n + 1)..Len(c.content) : Fits(c, h, k, Gap)

(* held knows what the template holds.                                     *)
HeldInv ==
    /\ Len(src) <= Len(conf.content) + 2 * changes
    /\ \A k \in Offsets(conf) : (IF k <= Len(src) THEN Reads(src[k]) ELSE Nul) \in held[k]

(* What is in the files fits, and nothing of the template lies beyond the  *)
(* size that tmpl_open() found.                                            *)
Fitting ==
    /\ \A i \in 1..conf.files : AllFit(conf, held, copy[i])
    /\ AllFit(conf, held, spool)
    /\ tm.kind \in {"extents", "zeros"} => EndFits(conf, held, tm.size)

(* copy_stream(), into the spool before the first operand: what is left of *)
(* the buffer fits behind what is written, and the template is read on     *)
(* from there.                                                             *)
Streaming ==
    /\ tm.kind = "stream" => conf.files = 1 /\ (cur = 0 => spos = conf.at)
    /\ pc \in Early => spos = conf.at + Len(spool)
    /\ pc \in {"read", "write"} /\ cur = 0 => lo.fpos = Len(spool)
    /\ pc \in {"read", "write"} /\ cur > 0 => lo.fpos = Len(copy[cur])
    /\ pc = "read" => spos = conf.at + lo.fpos
    /\ pc = "write" =>
         /\ lo.done < Len(lo.buf)
         /\ spos + lo.done = conf.at + lo.fpos + Len(lo.buf)
         /\ \A j \in 1..Len(lo.buf) :
               j > lo.done => Fits(conf, held, lo.fpos - lo.done + j, lo.buf[j])

(* copy_extents(): what lies between the end of the new file and the place *)
(* to copy to is a gap of the template.                                    *)
Copying ==
    /\ pc \in InExtent => /\ ~lo.overstated /\ lo.src = lo.dst
                          /\ GapFits(conf, held, Len(copy[cur]), lo.dst)
    /\ pc = "sendfile" => lo.fpos = lo.dst
    /\ pc = "pwrite" =>
         /\ lo.done < Len(lo.buf)
         /\ GapFits(conf, held, Len(copy[cur]), lo.dst + lo.done)
         /\ \A j \in 1..Len(lo.buf) : Fits(conf, held, lo.dst + j, lo.buf[j])
    /\ pc \in {"seek", "trunc"} =>
         /\ GapFits(conf, held, Len(copy[cur]), lo.written)
         /\ ~lo.overstated => lo.from <= lo.written
         /\ lo.overstated => EndFits(conf, held, lo.written)
    /\ pc = "trunc" /\ ~lo.overstated /\ lo.written < tm.size =>
         GapFits(conf, held, Len(copy[cur]), tm.size)

(* copy_zeros(): the same, with what is left of the buffer.                *)
Zeroing ==
    /\ pc \in {"zeros", "block"} => GapFits(conf, held, Len(copy[cur]), lo.src)
    /\ pc = "block" => lo.buf # <<>>
                       /\ \A j \in 1..Len(lo.buf) : Fits(conf, held, lo.src + j, lo.buf[j])

(* apply_size() and io_fill(): the whole template is copied.               *)
Growing ==
    /\ pc \in Sizing => EndFits(conf, held, Len(copy[cur]))
    /\ pc \in {"alloc", "fill"} => lo.dst = Len(copy[cur]) /\ lo.dst <= conf.size

(* All of it.                                                              *)
Bytes == Fitting /\ Streaming /\ Copying /\ Zeroing /\ Growing

(* Whether a block fits depends on what it reads as.                       *)
LEMMA FitsReads ==
    ASSUME NEW c, NEW h, NEW k, NEW v
    PROVE  Fits(c, h, k, Reads(v)) <=> Fits(c, h, k, v)
  BY DEF Fits, Reads, Gap, Nul

(* Zeros fit where a gap does.                                             *)
LEMMA NulFits ==
    ASSUME NEW c, NEW h, NEW k
    PROVE  Fits(c, h, k, Nul) <=> Fits(c, h, k, Gap)
  BY DEF Fits, Reads, Gap, Nul

(* What fits goes on to fit as the template changes.                       *)
LEMMA FitsLater ==
    ASSUME NEW c, NEW h, NEW g, \A k \in Offsets(c) : h[k] \subseteq g[k]
    PROVE  \A k, v : Fits(c, h, k, v) => Fits(c, g, k, v)
  BY DEF Fits

(* A write of fitting blocks leaves a fitting file, if the gap before it   *)
(* fits.                                                                   *)
LEMMA PutFits ==
    ASSUME NEW c, NEW h, NEW s \in Seq(Nat), NEW off \in Nat, NEW new \in Seq(Nat),
           AllFit(c, h, s), GapFits(c, h, Len(s), off),
           \A j \in 1..Len(new) : Fits(c, h, off + j, new[j])
    PROVE  /\ AllFit(c, h, Put(s, off, new))
           /\ Len(Put(s, off, new)) >= off + Len(new)
           /\ Len(Put(s, off, new)) >= Len(s)
           /\ Len(Put(s, off, new)) = off + Len(new) \/ Len(Put(s, off, new)) = Len(s)
<1> DEFINE p == Put(s, off, new)
<1>1. Len(s) \in Nat /\ Len(new) \in Nat OBVIOUS
<1>2. /\ p \in Seq(Nat)
      /\ Len(p) = IF off + Len(new) > Len(s) THEN off + Len(new) ELSE Len(s)
      /\ \A k \in 1..Len(p) : p[k] = IF k \in (off + 1)..(off + Len(new)) THEN new[k - off]
                                     ELSE IF k <= Len(s) THEN s[k] ELSE Gap
  BY PutProps
<1> HIDE DEF p
<1>3. ASSUME NEW k \in 1..Len(p) PROVE Fits(c, h, k, p[k])
  <2>1. k \in Nat /\ k >= 1 /\ k <= Len(p) /\ Len(p) \in Nat BY <1>2
  <2>2. CASE k \in (off + 1)..(off + Len(new))
    <3>1. k - off \in 1..Len(new) /\ off + (k - off) = k BY <1>1, <2>1, <2>2
    <3>2. Fits(c, h, off + (k - off), new[k - off]) BY <3>1
    <3> QED BY <1>2, <2>2, <3>1, <3>2
  <2>3. CASE k \notin (off + 1)..(off + Len(new)) /\ k <= Len(s)
    <3>1. k \in 1..Len(s) /\ p[k] = s[k] BY <1>1, <1>2, <2>1, <2>3
    <3> QED BY <3>1 DEF AllFit
  <2>4. CASE k \notin (off + 1)..(off + Len(new)) /\ ~(k <= Len(s))
    <3>1. k \in (Len(s) + 1)..off /\ p[k] = Gap BY <1>1, <1>2, <2>1, <2>4
    <3> QED BY <3>1 DEF GapFits
  <2> QED BY <2>2, <2>3, <2>4
<1>4. AllFit(c, h, p) BY <1>3 DEF AllFit
<1>5. Len(p) >= off + Len(new) /\ Len(p) >= Len(s) /\ (Len(p) = off + Len(new)
        \/ Len(p) = Len(s))
  BY <1>1, <1>2
<1> QED BY <1>4, <1>5 DEF p

(* So does ftruncate, if the gap it adds fits.                             *)
LEMMA ResizeFits ==
    ASSUME NEW c, NEW h, NEW s \in Seq(Nat), NEW n \in Nat,
           AllFit(c, h, s), GapFits(c, h, Len(s), n)
    PROVE  AllFit(c, h, Resize(s, n)) /\ Len(Resize(s, n)) = n
<1> DEFINE p == Resize(s, n)
<1>1. Len(s) \in Nat OBVIOUS
<1>2. /\ p \in Seq(Nat) /\ Len(p) = n
      /\ \A k \in 1..n : p[k] = IF k <= Len(s) THEN s[k] ELSE Gap
  BY ResizeProps
<1> HIDE DEF p
<1>3. ASSUME NEW k \in 1..n PROVE Fits(c, h, k, p[k])
  <2>1. CASE k <= Len(s)
    <3>1. k \in 1..Len(s) /\ p[k] = s[k] BY <1>1, <1>2, <2>1
    <3> QED BY <3>1 DEF AllFit
  <2>2. CASE ~(k <= Len(s))
    <3>1. k \in (Len(s) + 1)..n /\ p[k] = Gap BY <1>1, <1>2, <2>2
    <3> QED BY <3>1 DEF GapFits
  <2> QED BY <2>1, <2>2
<1> QED BY <1>2, <1>3 DEF AllFit, p

(* Nothing comes after what holds the whole template.                      *)
LEMMA EndAll ==
    ASSUME Types, NEW h, NEW n \in Nat, EndFits(conf, h, n)
    PROVE  /\ \A k \in Nat : k > n => Fits(conf, h, k, Gap) /\ Fits(conf, h, k, Nul)
           /\ \A m \in Nat : m >= n => EndFits(conf, h, m)
           /\ \A m \in Nat : GapFits(conf, h, n, m)
<1>1. conf.at \in Nat /\ Len(conf.content) \in Nat BY ConfFacts
<1>2. ASSUME NEW k \in Nat, k > n PROVE Fits(conf, h, k, Gap)
  <2>1. CASE k <= Len(conf.content)
    <3>1. k \in (n + 1)..Len(conf.content) BY <1>1, <1>2, <2>1
    <3> QED BY <3>1 DEF EndFits
  <2>2. CASE ~(k <= Len(conf.content))
    <3>1. k + conf.at > Len(conf.content) BY <1>1, <2>2
    <3> QED BY <3>1 DEF Fits, Reads, Gap
  <2> QED BY <2>1, <2>2
<1>3. \A m \in Nat : \A k \in (m + 1)..Len(conf.content) : m >= n => k \in Nat /\ k > n
  BY <1>1
<1>4. \A m \in Nat : \A k \in (n + 1)..m : k \in Nat /\ k > n OBVIOUS
<1> QED BY <1>2, <1>3, <1>4, NulFits DEF EndFits, GapFits

(* held covers every offset that the template ever has.                    *)
LEMMA Covered ==
    ASSUME NEW l \in Nat, NEW k \in Nat \ {0}, MaxChanges \in Nat, NEW n \in 0..MaxChanges,
           k <= l + 2 * n
    PROVE  k \in 1..(l + 2 * MaxChanges + 1)
  OBVIOUS

(* Past its end the template reads as zeros.                               *)
LEMMA PastEnd ==
    ASSUME Types, HeldInv, NEW k \in Nat \ {0}, k + conf.at > Len(src)
    PROVE  Fits(conf, held, k, Gap)
<1>1. conf.at \in Nat /\ Len(conf.content) \in Nat /\ Len(src) \in Nat /\ MaxChanges \in Nat
  BY ConfFacts DEF Types
<1>2. CASE k + conf.at > Len(conf.content) BY <1>2 DEF Fits, Reads, Gap
<1>3. CASE ~(k + conf.at > Len(conf.content))
  <2> DEFINE l == Len(conf.content)
             m == k + conf.at
  <2>0. m \in Nat \ {0} /\ m <= l /\ l \in Nat BY <1>1, <1>3
  <2> HIDE DEF l, m
  <2>0a. 0 \in 0..MaxChanges /\ m <= l + 2 * 0 BY <1>1, <2>0
  <2>0b. m \in 1..(l + 2 * MaxChanges + 1) BY <1>1, <2>0, <2>0a, Covered
  <2>1. k + conf.at \in Offsets(conf) BY <2>0b DEF Offsets, l, m
  <2>2. ~(k + conf.at <= Len(src)) BY <1>1
  <2>3. Nul \in held[k + conf.at] BY <2>1, <2>2 DEF HeldInv
  <2> QED BY <2>1, <2>3 DEF Fits, Reads, Gap
<1> QED BY <1>2, <1>3

(* A block of the template fits where it stands.                           *)
LEMMA InPlace ==
    ASSUME Types, HeldInv, NEW k \in Nat \ {0}, k + conf.at <= Len(src)
    PROVE  Fits(conf, held, k, src[k + conf.at])
<1>1. conf.at \in Nat /\ Len(conf.content) \in Nat /\ Len(src) \in Nat /\ MaxChanges \in Nat
      /\ changes \in 0..MaxChanges
  BY ConfFacts DEF Types
<1>1a. Len(src) <= Len(conf.content) + 2 * changes BY DEF HeldInv
<1> DEFINE l == Len(conf.content)
           m == k + conf.at
<1>1e. Len(src) <= l + 2 * changes BY <1>1a
<1>1b. m \in Nat \ {0} /\ m <= Len(src) /\ l \in Nat BY <1>1
<1> HIDE DEF l, m
<1>1c. m <= l + 2 * changes BY <1>1, <1>1b, <1>1e
<1>1d. m \in 1..(l + 2 * MaxChanges + 1) BY <1>1, <1>1b, <1>1c, Covered
<1>2. k + conf.at \in Offsets(conf) BY <1>1d DEF Offsets, l, m
<1>3. Reads(src[k + conf.at]) \in held[k + conf.at] BY <1>2 DEF HeldInv
<1> QED BY <1>2, <1>3 DEF Fits

(* So does one of the file that is copied by extents, and nothing is left  *)
(* past its end.                                                           *)
LEMMA SrcFits ==
    ASSUME Types, Flow, HeldInv, Fitting, tm.kind \in {"extents", "zeros"}
    PROVE  /\ \A k \in 1..Len(Src) : Fits(conf, held, k, Src[k])
           /\ EndFits(conf, held, Len(Src))
<1>1. conf.at \in Nat /\ Len(conf.content) \in Nat /\ Len(src) \in Nat
  BY ConfFacts DEF Types
<1>2. CASE tm.spooled
  <2>1. Src = spool /\ tm.size = Len(spool) BY <1>2 DEF Src, Flow
  <2> QED BY <2>1 DEF Fitting, AllFit
<1>3. CASE ~tm.spooled
  <2>1. Src = src /\ conf.at = 0 BY <1>3 DEF Src, Flow
  <2>2. ASSUME NEW k \in 1..Len(src) PROVE Fits(conf, held, k, src[k])
    <3>1. k \in Nat \ {0} /\ k + conf.at = k /\ k <= Len(src) BY <1>1, <2>1
    <3>2. Fits(conf, held, k, src[k + conf.at]) BY <3>1, InPlace
    <3> QED BY <3>1, <3>2
  <2>3. ASSUME NEW k \in (Len(src) + 1)..Len(conf.content) PROVE Fits(conf, held, k, Gap)
    <3>1. k \in Nat \ {0} /\ k + conf.at > Len(src) BY <1>1, <2>1
    <3> QED BY <3>1, PastEnd
  <2> QED BY <2>1, <2>2, <2>3 DEF EndFits
<1> QED BY <1>2, <1>3

(* A fitting file may replace the one of the operand at work.              *)
LEMMA FitSet ==
    ASSUME Types, Fitting, cur > 0, NEW x \in Seq(Nat), copy' = [copy EXCEPT ![cur] = x],
           AllFit(conf, held, x), UNCHANGED <<conf, held, spool, tm>>
    PROVE  Fitting' /\ copy'[cur] = x
<1>1. /\ copy'[cur] = x
      /\ \A i \in 1..conf.files : i # cur => copy'[i] = copy[i]
  BY CopySet
<1>2. \A i \in 1..conf.files : AllFit(conf, held, copy'[i]) BY <1>1 DEF Fitting
<1> QED BY <1>1, <1>2 DEF Fitting

(* Files that do not change go on to fit.                                  *)
LEMMA FitSame ==
    ASSUME Fitting, UNCHANGED <<conf, held, spool, tm, copy>>
    PROVE  Fitting'
  BY DEF Fitting

USE DEF source

(* tmpl_open() keeps the blocks fitting.                                   *)
LEMMA OpenBytes == ASSUME Types, Flow, HeldInv, Bytes, tmpl_open PROVE Bytes'
<1>1. pc = "open" /\ UNCHANGED <<conf, source, spos, spool, copy, res, cur, lo, faults>>
      /\ cur = 0 /\ tm = Unread /\ spool = <<>>
  BY DEF tmpl_open, Flow
<1>2. spos = conf.at + Len(spool) /\ conf.at \in Nat BY <1>1, ConfFacts DEF Bytes, Streaming
<1>2a. spos = conf.at BY <1>1, <1>2
<1>3. CASE conf.kind = "none"
  <2>1. UNCHANGED tm /\ pc' = "next" BY <1>3 DEF tmpl_open
  <2>2. Fitting' BY <1>1, <2>1, FitSame DEF Bytes
  <2> QED BY <1>1, <2>1, <2>2 DEF Bytes, Streaming, Copying, Zeroing, Growing, Unread
<1>4. CASE conf.kind # "none" /\ conf.at = 0 /\ conf.kind \in {"plain", "overstated"}
             /\ Stated > 0
  <2>1. tm'.kind \in {"extents", "zeros"} /\ tm'.size = Stated /\ pc' = "tail"
    BY <1>1, <1>4 DEF tmpl_open, Unread
  <2>2. Src = src BY <1>1 DEF Src, Unread
  <2>3. Stated \in Nat /\ Len(src) \in Nat /\ Len(src) <= Stated BY <2>2, SrcProps
  <2>4. ASSUME NEW k \in (Stated + 1)..Len(conf.content) PROVE Fits(conf, held, k, Gap)
    <3>1. k \in Nat \ {0} /\ k + conf.at > Len(src) BY <1>4, <2>3, ConfFacts
    <3> QED BY <3>1, PastEnd
  <2>5. EndFits(conf, held, Stated) BY <2>4 DEF EndFits
  <2>6. Fitting' BY <1>1, <2>1, <2>5 DEF Bytes, Fitting
  <2> QED BY <1>1, <2>1, <2>6 DEF Bytes, Streaming, Copying, Zeroing, Growing
<1>5. CASE conf.kind # "none" /\ ~(conf.at = 0 /\ conf.kind \in {"plain", "overstated"}
             /\ Stated > 0)
  <2>1. CASE conf.files > 1
    <3>1. pc' = "spool" /\ tm' = tm BY <1>5, <2>1 DEF tmpl_open
    <3>2. Fitting' BY <1>1, <3>1, FitSame DEF Bytes
    <3> QED BY <1>1, <1>2, <3>1, <3>2 DEF Bytes, Streaming, Copying, Zeroing, Growing,
               Unread
  <2>2. CASE ~(conf.files > 1)
    <3>1. pc' = "next" /\ tm'.kind = "stream" BY <1>1, <1>5, <2>2 DEF tmpl_open, Unread
    <3>2. conf.files = 1 BY <2>2, ConfFacts
    <3>3. Fitting' BY <1>1, <3>1 DEF Bytes, Fitting
    <3> QED BY <1>1, <1>2a, <3>1, <3>2, <3>3 DEF Bytes, Streaming, Copying, Zeroing, Growing
  <2> QED BY <2>1, <2>2
<1> QED BY <1>3, <1>4, <1>5

(* hole_tail() and tail_zero() keeps the blocks fitting.                   *)
LEMMA TailBytes == ASSUME Types, Flow, HeldInv, Bytes, FindTail PROVE Bytes'
<1>1. pc = "tail" /\ pc' = "next" /\ UNCHANGED <<conf, source, spool, copy, res, cur, lo>>
      /\ tm.kind \in {"extents", "zeros"}
  BY DEF FindTail, Flow
<1>2. tm'.kind = tm.kind /\ tm'.size = tm.size BY DEF FindTail, Types, Tmpl
<1>3. Fitting' BY <1>1, <1>2 DEF Bytes, Fitting
<1> QED BY <1>1, <1>2, <1>3 DEF Bytes, Streaming, Copying, Zeroing, Growing

(* spool_open() keeps the blocks fitting.                                  *)
LEMMA SpoolBytes == ASSUME Types, Flow, HeldInv, Bytes, spool_open PROVE Bytes'
<1>1. pc \in {"spool", "mkstemp"} /\ pc' \in {"splice", "mkstemp"}
      /\ UNCHANGED <<conf, source, spos, tm, spool, copy, res, cur, lo>>
  BY DEF spool_open
<1>2. Fitting' BY <1>1, FitSame DEF Bytes
<1> QED BY <1>1, <1>2 DEF Bytes, Streaming, Copying, Zeroing, Growing

(* fast_splice() keeps the blocks fitting.                                 *)
LEMMA SpliceBytes == ASSUME Types, Flow, HeldInv, Bytes, fast_splice PROVE Bytes'
<1>1. pc = "splice" /\ UNCHANGED <<conf, source, copy, res, cur, lo, faults>>
      /\ cur = 0 /\ tm = Unread /\ lo = NewLocals
  BY DEF fast_splice, Flow
<1>2. spos = conf.at + Len(spool) /\ conf.at \in Nat /\ Len(spool) \in Nat
        /\ Len(src) \in Nat
  BY <1>1, ConfFacts DEF Bytes, Streaming, Types
<1>3. ASSUME NEW k \in 1..(Len(src) - spos), spool' = spool \o SubSeq(src, spos + 1,
               spos + k),
             spos' = spos + k, UNCHANGED <<pc, tm>>
      PROVE  Bytes'
  <2> DEFINE new == SubSeq(src, spos + 1, spos + k)
  <2>1. spos \in Nat /\ k \in Nat /\ spos + k <= Len(src) BY <1>2
  <2>2. new \in Seq(Nat) /\ Len(new) = k /\ \A j \in 1..k : new[j] = src[spos + j]
    BY <2>1, PartProps DEF Types
  <2>3. spool' = spool \o new BY <1>3
  <2> HIDE DEF new
  <2>4. spool \in Seq(Nat) BY DEF Types
  <2>5. Len(spool') = Len(spool) + k
        /\ \A m \in 1..(Len(spool) + k) :
              spool'[m] = IF m <= Len(spool) THEN spool[m] ELSE new[m - Len(spool)]
    BY <2>2, <2>3, <2>4, ConcatProps
  <2>6. ASSUME NEW m \in 1..Len(spool') PROVE Fits(conf, held, m, spool'[m])
    <3>1. CASE m <= Len(spool)
      <4>1. m \in 1..Len(spool) /\ spool'[m] = spool[m] BY <1>2, <2>1, <2>5, <3>1
      <4> QED BY <4>1 DEF Bytes, Fitting, AllFit
    <3>2. CASE ~(m <= Len(spool))
      <4>1. m - Len(spool) \in 1..k /\ spool'[m] = new[m - Len(spool)]
        BY <1>2, <2>1, <2>5, <3>2
      <4>2. spos + (m - Len(spool)) = m + conf.at BY <1>2, <2>1, <2>5
      <4>3. spool'[m] = src[m + conf.at] BY <2>2, <4>1, <4>2
      <4>4. m \in Nat \ {0} BY <1>2, <2>1, <2>5
      <4>4a. m <= Len(spool) + k BY <1>2, <2>1, <2>5
      <4>4b. m + conf.at <= Len(src)
        <5> DEFINE l == Len(spool)
                   n == Len(src)
                   o == conf.at
        <5>0. o \in Nat /\ k \in Nat BY <1>2, <2>1
        <5>1. l \in Nat /\ n \in Nat /\ spos = o + l /\ spos + k <= n /\ m <= l + k
          BY <1>2, <2>1, <4>4a
        <5> HIDE DEF l, n, o
        <5>2. m + o <= n BY <4>4, <5>0, <5>1
        <5> QED BY <5>2 DEF n, o
      <4> QED BY <4>3, <4>4, <4>4b, InPlace
    <3> QED BY <3>1, <3>2
  <2>7. AllFit(conf, held, spool') BY <2>6 DEF AllFit
  <2>8. Fitting' BY <1>1, <1>3, <2>7 DEF Bytes, Fitting
  <2>9. spos' = conf.at + Len(spool')
    <3>1. spos' = spos + k BY <1>3
    <3>2. Len(spool') = Len(spool) + k BY <2>5
    <3>3. spos + k = conf.at + (Len(spool) + k) BY <1>2, <2>1
    <3> QED BY <3>1, <3>2, <3>3
  <2> QED BY <1>1, <1>3, <2>8, <2>9 DEF Bytes, Streaming, Copying, Zeroing, Growing, Unread
<1>4. CASE /\ spos = Len(src) /\ pc' = "next" /\ UNCHANGED <<spool, spos>>
           /\ tm' = [tm EXCEPT !.kind = "extents", !.size = Len(spool), !.spooled = TRUE]
  <2>1. tm'.kind = "extents" /\ tm'.size = Len(spool) BY <1>1, <1>4 DEF Unread
  <2>2. ASSUME NEW k \in (Len(spool) + 1)..Len(conf.content) PROVE Fits(conf, held, k, Gap)
    <3>1. k \in Nat \ {0} /\ k + conf.at > Len(src) BY <1>2, <1>4, ConfFacts
    <3> QED BY <3>1, PastEnd
  <2>3. EndFits(conf, held, Len(spool)) BY <2>2 DEF EndFits
  <2>4. Fitting' BY <1>1, <1>4, <2>1, <2>3 DEF Bytes, Fitting
  <2> QED BY <1>1, <1>4, <2>1, <2>4 DEF Bytes, Streaming, Copying, Zeroing, Growing
<1>5. CASE spool = <<>> /\ pc' = "read" /\ UNCHANGED <<spool, spos, tm>>
  <2>1. Fitting' BY <1>1, <1>5, FitSame DEF Bytes
  <2>2. lo'.fpos = 0 /\ Len(spool) = 0 BY <1>1, <1>5 DEF NewLocals
  <2>3. spos' = conf.at + lo'.fpos BY <1>2, <1>5, <2>2
  <2> QED BY <1>1, <1>5, <2>1, <2>2, <2>3
       DEF Bytes, Streaming, Copying, Zeroing, Growing, Unread
<1> QED BY <1>3, <1>4, <1>5 DEF fast_splice

(* tmpl_apply() of the next operand keeps the blocks fitting.              *)
LEMMA NextBytes == ASSUME Types, Flow, HeldInv, Bytes, NextOperand PROVE Bytes'
<1>1. pc = "next" /\ UNCHANGED <<conf, source, spos, tm, spool, copy, res, faults>>
  BY DEF NextOperand
<1>2. Fitting' BY <1>1, FitSame DEF Bytes
<1>3. CASE ~(cur < conf.files)
  <2>1. pc' = "close" /\ UNCHANGED <<cur, lo>> BY <1>3 DEF NextOperand
  <2> QED BY <1>1, <1>2, <2>1 DEF Bytes, Streaming, Copying, Zeroing, Growing
<1>4. CASE cur < conf.files
  <2>1. cur' = cur + 1 /\ pc' = Entry[tm.kind] /\ lo' = NewLocals BY <1>4 DEF NextOperand
  <2>1a. cur \in Nat /\ conf.files \in Nat BY ConfFacts DEF Types
  <2>2. cur' \in 1..conf.files /\ cur' > cur /\ cur' > 0 /\ cur \in Nat /\ cur' # 0
    BY <1>4, <2>1, <2>1a
  <2>3. copy'[cur'] = <<>> BY <1>1, <2>2 DEF Flow
  <2>4. Len(copy'[cur']) = 0 BY <2>3
  <2>5. /\ lo'.from = 0 /\ lo'.src = 0 /\ lo'.dst = 0 /\ lo'.written = 0 /\ lo'.fpos = 0
        /\ lo'.overstated = FALSE
    BY <2>1 DEF NewLocals
  <2>6. GapFits(conf, held, 0, 0) BY DEF GapFits
  <2>7. tm.kind \in {"none", "extents", "zeros", "stream"} BY DEF Types, Tmpl
  <2>8. CASE tm.kind = "none"
    <3>1. pc' = "size" BY <2>1, <2>8 DEF Entry
    <3>2. conf.content = <<>> BY <1>1, <2>8, ConfFacts DEF Flow
    <3>3. EndFits(conf, held, 0) BY <3>2 DEF EndFits
    <3> QED BY <1>1, <1>2, <2>4, <2>8, <3>1, <3>3
         DEF Bytes, Streaming, Copying, Zeroing, Growing
  <2>9. CASE tm.kind = "extents"
    <3>1. pc' = "seek" BY <2>1, <2>9 DEF Entry
    <3> QED BY <1>1, <1>2, <2>4, <2>5, <2>6, <2>9, <3>1
          DEF Bytes, Streaming, Copying, Zeroing, Growing
  <2>10. CASE tm.kind = "zeros"
    <3>1. pc' = "zeros" BY <2>1, <2>10 DEF Entry
    <3> QED BY <1>1, <1>2, <2>4, <2>5, <2>6, <2>10, <3>1
          DEF Bytes, Streaming, Copying, Zeroing, Growing
  <2>11. CASE tm.kind = "stream"
    <3>1. pc' = "read" BY <2>1, <2>11 DEF Entry
    <3>2. cur = 0 BY <1>4, <2>2, <2>11 DEF Bytes, Streaming
    <3>3. spos = conf.at /\ conf.files = 1 /\ conf.at \in Nat
      BY <2>11, <3>2, ConfFacts DEF Bytes, Streaming
    <3>4. spos' = conf.at + lo'.fpos BY <1>1, <2>5, <3>3
    <3> QED BY <1>1, <1>2, <2>2, <2>4, <2>5, <2>11, <3>1, <3>3, <3>4
          DEF Bytes, Streaming, Copying, Zeroing, Growing
  <2> QED BY <2>7, <2>8, <2>9, <2>10, <2>11
<1> QED BY <1>3, <1>4

(* The read of copy_stream() keeps the blocks fitting.                     *)
LEMMA ReadBytes == ASSUME Types, Flow, HeldInv, Bytes, StreamRead PROVE Bytes'
<1>1. pc = "read" /\ UNCHANGED <<conf, source, spool, copy, res, cur, faults>>
  BY DEF StreamRead
<1> DEFINE n == Least(Buf, Len(src) - spos)
           o == conf.at
           f == lo.fpos
<1>2. o \in Nat /\ f \in Nat /\ Len(src) \in Nat /\ spos = o + f /\ spos \in Nat
  BY <1>1, ConfFacts DEF Bytes, Streaming, Types, Locals
<1>2a. n \in Int /\ n <= Len(src) - spos /\ (n <= 0 => Len(src) <= spos)
  BY <1>2, ConfFacts DEF Least
<1>3. ASSUME n > 0, NEW k \in 1..n,
             lo' = [lo EXCEPT !.buf = View(SubSeq(src, spos + 1, spos + k)), !.done = 0],
             spos' = spos + k, pc' = "write", UNCHANGED tm
      PROVE  Bytes'
  <2> DEFINE s == SubSeq(src, spos + 1, spos + k)
             v == View(s)
  <2>1. k \in Nat /\ k > 0 /\ spos + k <= Len(src) BY <1>2, <1>2a, <1>3
  <2>2. s \in Seq(Nat) /\ Len(s) = k /\ \A j \in 1..k : s[j] = src[spos + j]
    BY <1>2, <2>1, PartProps DEF Types
  <2>3. v \in Seq(Nat) /\ Len(v) = k /\ \A j \in 1..k : v[j] = Reads(s[j])
    <3> HIDE DEF s
    <3> QED BY <2>2, ViewProps
  <2>4. lo' = [lo EXCEPT !.buf = v, !.done = 0] BY <1>3
  <2> HIDE DEF s, v, n
  <2>5. lo'.buf = v /\ lo'.done = 0 /\ lo'.fpos = f BY <2>4 DEF Types, Locals
  <2>6. ASSUME NEW j \in 1..k PROVE Fits(conf, held, f + j, v[j])
    <3>1. f + j \in Nat \ {0} /\ (f + j) + o = spos + j /\ (f + j) + o <= Len(src)
      <4> HIDE DEF f, o
      <4> QED BY <1>2, <2>1
    <3>2. Fits(conf, held, f + j, src[(f + j) + conf.at]) BY <3>1, InPlace
    <3>3. v[j] = Reads(src[(f + j) + conf.at]) BY <2>2, <2>3, <3>1
    <3> QED BY <3>2, <3>3, FitsReads
  <2>7. Fitting' BY <1>1, <1>3, FitSame DEF Bytes
  <2>8. ASSUME NEW j \in 1..Len(lo'.buf), j > lo'.done
        PROVE  Fits(conf, held, lo'.fpos - lo'.done + j, lo'.buf[j])
    <3>1. lo'.fpos - lo'.done + j = f + j BY <1>2, <2>5
    <3>2. j \in 1..k BY <2>3, <2>5, <2>8
    <3> QED BY <2>5, <2>6, <3>1, <3>2
  <2>9. lo'.done < Len(lo'.buf) /\ spos' + lo'.done = o + lo'.fpos + Len(lo'.buf)
    <3>1. spos' = (o + f) + k BY <1>2, <1>3
    <3> HIDE DEF f, o
    <3> QED BY <1>2, <2>1, <2>3, <2>5, <3>1
  <2>10. Streaming'
    <3>1. tm' = tm /\ pc' = "write" /\ conf' = conf /\ cur' = cur /\ lo'.fpos = lo.fpos
          /\ spool' = spool /\ copy' = copy /\ held' = held
      BY <1>1, <1>3, <2>5
    <3>2. tm.kind = "stream" => conf.files = 1 BY DEF Bytes, Streaming
    <3>3. cur = 0 => tm.kind # "stream" BY <1>1 DEF Flow, Unread
    <3> QED BY <1>1, <2>8, <2>9, <3>1, <3>2, <3>3 DEF Bytes, Streaming
  <2> QED BY <1>3, <2>7, <2>10 DEF Bytes, Copying, Zeroing, Growing
<1>4. ASSUME NEW l \in Nat, l = f, n <= 0 PROVE EndFits(conf, held, l)
  <2>1. ASSUME NEW k \in (l + 1)..Len(conf.content) PROVE Fits(conf, held, k, Gap)
    <3>1. k \in Nat \ {0} /\ k > f BY <1>4, ConfFacts
    <3>2. k + o > Len(src) BY <1>2, <1>2a, <1>4, <3>1
    <3> QED BY <3>1, <3>2, PastEnd
  <2> QED BY <2>1 DEF EndFits
<1>5. CASE n <= 0 /\ UNCHANGED <<spos, lo>> /\ cur = 0
           /\ tm' = [tm EXCEPT !.kind = "extents", !.size = Len(spool), !.spooled = TRUE]
           /\ pc' = "next"
  <2>1. tm'.kind = "extents" /\ tm'.size = Len(spool) BY <1>5 DEF Types, Tmpl
  <2>2. Len(spool) \in Nat /\ Len(spool) = f BY <1>1, <1>5 DEF Bytes, Streaming, Types
  <2>3. EndFits(conf, held, Len(spool)) BY <1>4, <1>5, <2>2
  <2>4. Fitting' BY <1>1, <2>1, <2>3 DEF Bytes, Fitting
  <2> QED BY <1>1, <1>5, <2>1, <2>4 DEF Bytes, Streaming, Copying, Zeroing, Growing
<1>6. CASE n <= 0 /\ UNCHANGED <<spos, lo, tm>> /\ cur # 0 /\ pc' = "size"
  <2>0. cur > 0 BY <1>6, ConfFacts DEF Types
  <2>1. Len(copy[cur]) \in Nat /\ Len(copy[cur]) = f
    BY <1>1, <2>0, CurProps DEF Bytes, Streaming
  <2>2. EndFits(conf, held, Len(copy[cur])) BY <1>4, <1>6, <2>1
  <2>3. Fitting' BY <1>1, <1>6, FitSame DEF Bytes
  <2>4. Growing' BY <1>1, <1>6, <2>2 DEF Growing
  <2>5. Streaming' BY <1>1, <1>6 DEF Bytes, Streaming
  <2> QED BY <1>6, <2>3, <2>4, <2>5 DEF Bytes, Copying, Zeroing
<1> QED BY <1>3, <1>5, <1>6 DEF StreamRead, Spooling

(* io_write() keeps the blocks fitting.                                    *)
LEMMA WriteBytes == ASSUME Types, Flow, HeldInv, Bytes, io_write PROVE Bytes'
<1>1. pc = "write" /\ UNCHANGED <<conf, source, spos, tm, res, cur, faults>> BY DEF io_write
<1>2. PICK k \in 1..(Len(lo.buf) - lo.done) :
          LET new == SubSeq(lo.buf, lo.done + 1, lo.done + k) IN
          /\ IF Spooling THEN spool' = Put(spool, lo.fpos, new) /\ UNCHANGED copy
             ELSE copy' = [copy EXCEPT ![cur] = Put(@, lo.fpos, new)] /\ UNCHANGED spool
          /\ lo' = [lo EXCEPT !.fpos = @ + k, !.done = @ + k]
          /\ pc' = IF lo.done + k = Len(lo.buf) THEN "read" ELSE "write"
  BY DEF io_write
<1> DEFINE new == SubSeq(lo.buf, lo.done + 1, lo.done + k)
           b == lo.buf
           d == lo.done
           f == lo.fpos
           o == conf.at
<1>3. b \in Seq(Nat) /\ Len(b) \in Nat /\ d \in Nat /\ f \in Nat /\ o \in Nat
        /\ spos \in Nat
  BY ConfFacts DEF Types, Locals
<1>4. k \in Nat /\ k > 0 /\ d + k <= Len(b) BY <1>3
<1>5. new \in Seq(Nat) /\ Len(new) = k /\ \A j \in 1..k : new[j] = b[d + j]
  BY <1>3, <1>4, PartProps
<1>6. lo'.buf = b /\ lo'.done = d + k /\ lo'.fpos = f + k
  <2>1. lo' = [lo EXCEPT !.fpos = lo.fpos + k, !.done = lo.done + k] BY <1>2
  <2> QED BY <2>1 DEF Types, Locals
<1>7. spos + d = o + f + Len(b)
      /\ \A j \in 1..Len(b) : j > d => Fits(conf, held, f - d + j, b[j])
  BY <1>1 DEF Bytes, Streaming
<1>8. pc' = IF d + k = Len(b) THEN "read" ELSE "write" BY <1>2
<1>9. cur = 0 => spool' = Put(spool, f, new) /\ UNCHANGED copy BY <1>2 DEF Spooling
<1>10. cur # 0 => copy' = [copy EXCEPT ![cur] = Put(copy[cur], f, new)] /\ UNCHANGED spool
  BY <1>2 DEF Spooling
<1> HIDE DEF new, b, d, f, o
<1>11. /\ spos + (d + k) = o + (f + k) + Len(b)
       /\ d + k = Len(b) => spos = o + (f + k)
       /\ \A j \in Nat : (f + k) - (d + k) + j = f - d + j
       /\ \A j \in Nat : f - d + (d + j) = f + j
  <2> DEFINE l == Len(b)
  <2>1. l \in Nat /\ d + k <= l /\ spos + d = o + f + l BY <1>3, <1>4, <1>7
  <2>2. d \in Nat /\ f \in Nat /\ o \in Nat /\ spos \in Nat /\ k \in Nat BY <1>3, <1>4
  <2> HIDE DEF l
  <2>3. /\ spos + (d + k) = o + (f + k) + l
        /\ d + k = l => spos = o + (f + k)
    BY <2>1, <2>2
  <2>4. /\ \A j \in Nat : (f + k) - (d + k) + j = f - d + j
        /\ \A j \in Nat : f - d + (d + j) = f + j
    BY <2>2
  <2> QED BY <2>3, <2>4 DEF l
<1>12. ASSUME NEW j \in 1..k PROVE Fits(conf, held, f + j, new[j])
  <2>1. d + j \in 1..Len(b) /\ d + j > d /\ j \in Nat BY <1>3, <1>4
  <2>2. Fits(conf, held, f - d + (d + j), b[d + j]) BY <1>7, <2>1
  <2> QED BY <1>5, <1>11, <2>1, <2>2
<1>13. ASSUME NEW s \in Seq(Nat), AllFit(conf, held, s), Len(s) = f
       PROVE  AllFit(conf, held, Put(s, f, new)) /\ Len(Put(s, f, new)) = f + k
  <2>1. GapFits(conf, held, Len(s), f) BY <1>3, <1>13 DEF GapFits
  <2>2. /\ AllFit(conf, held, Put(s, f, new))
        /\ Len(Put(s, f, new)) >= f + Len(new)
        /\ Len(Put(s, f, new)) = f + Len(new) \/ Len(Put(s, f, new)) = Len(s)
    <3>1. \A j \in 1..Len(new) : Fits(conf, held, f + j, new[j]) BY <1>5, <1>12
    <3>2. f \in Nat /\ new \in Seq(Nat) /\ AllFit(conf, held, s) BY <1>3, <1>5, <1>13
    <3> QED BY <2>1, <3>1, <3>2, PutFits, ZenonT(30)
  <2> QED BY <1>3, <1>4, <1>5, <1>13, <2>2
<1>14. pc' = "read" => spos' = conf'.at + lo'.fpos BY <1>1, <1>6, <1>8, <1>11 DEF o
<1>15. ASSUME pc' = "write"
       PROVE  /\ lo'.done < Len(lo'.buf)
              /\ spos' + lo'.done = conf'.at + lo'.fpos + Len(lo'.buf)
              /\ \A j \in 1..Len(lo'.buf) : j > lo'.done =>
                    Fits(conf', held', lo'.fpos - lo'.done + j, lo'.buf[j])
  <2>1. d + k < Len(b) BY <1>3, <1>4, <1>8, <1>15
  <2>2. ASSUME NEW j \in 1..Len(b), j > d + k
                 PROVE Fits(conf, held, (f + k) - (d + k) + j, b[j])
    <3>1. j > d /\ j \in Nat BY <1>3, <1>4, <2>2
    <3> QED BY <1>7, <1>11, <3>1
  <2> QED BY <1>1, <1>6, <1>11, <2>1, <2>2 DEF o
<1>16. CASE cur = 0
  <2>1. spool \in Seq(Nat) /\ AllFit(conf, held, spool) /\ Len(spool) = f
          /\ tm.kind # "stream"
    BY <1>1, <1>16 DEF Types, Bytes, Fitting, Streaming, f, Flow, Unread
  <2>2. AllFit(conf, held, spool') /\ Len(spool') = f + k BY <1>9, <1>13, <1>16, <2>1
  <2>3. Fitting' BY <1>1, <1>9, <1>16, <2>2 DEF Bytes, Fitting
  <2>4. Streaming' BY <1>1, <1>6, <1>8, <1>14, <1>15, <1>16, <2>1, <2>2 DEF Streaming
  <2> QED BY <1>8, <2>3, <2>4 DEF Bytes, Copying, Zeroing, Growing
<1>17. CASE cur # 0
  <2>0. cur > 0 /\ cur \in 1..conf.files BY <1>17, ConfFacts DEF Types
  <2>1. copy[cur] \in Seq(Nat) /\ AllFit(conf, held, copy[cur]) /\ Len(copy[cur]) = f
    BY <1>1, <2>0, CurProps DEF Bytes, Fitting, Streaming, f
  <2> DEFINE x == Put(copy[cur], f, new)
  <2>2. AllFit(conf, held, x) /\ Len(x) = f + k BY <1>13, <2>1
  <2>3. x \in Seq(Nat) BY <1>3, <1>5, <2>1, PutProps
  <2>4. copy' = [copy EXCEPT ![cur] = x] BY <1>10, <1>17
  <2> HIDE DEF x
  <2>5. Fitting' /\ copy'[cur] = x
    BY <1>1, <1>10, <1>17, <2>0, <2>2, <2>3, <2>4, FitSet DEF Bytes
  <2>6. tm.kind = "stream" => conf.files = 1 BY DEF Bytes, Streaming
  <2>7. Streaming' BY <1>1, <1>6, <1>8, <1>14, <1>15, <1>17, <2>2, <2>5, <2>6 DEF Streaming
  <2> QED BY <1>8, <2>5, <2>7 DEF Bytes, Copying, Zeroing, Growing
<1> QED BY <1>16, <1>17

(* A write at the end of a file leaves no gap.                             *)
LEMMA NoGap ==
    ASSUME NEW c, NEW h, NEW m \in Int, NEW n \in Int, n <= m PROVE GapFits(c, h, m, n)
<1>1. (m + 1)..n = {} OBVIOUS
<1> QED BY <1>1 DEF GapFits

(* A write of fitting blocks to the file of the operand at work.           *)
LEMMA PutStep ==
    ASSUME Types, Fitting, cur > 0, NEW off \in Nat, NEW new \in Seq(Nat),
           GapFits(conf, held, Len(copy[cur]), off),
           \A j \in 1..Len(new) : Fits(conf, held, off + j, new[j]),
           copy' = [copy EXCEPT ![cur] = Put(copy[cur], off, new)],
           UNCHANGED <<conf, held, spool, tm>>
    PROVE  /\ Fitting' /\ Len(copy'[cur]) \in Nat
           /\ Len(copy'[cur]) >= off + Len(new) /\ Len(copy'[cur]) >= Len(copy[cur])
           /\ Len(copy'[cur]) = off + Len(new) \/ Len(copy'[cur]) = Len(copy[cur])
           /\ GapFits(conf, held, Len(copy'[cur]), off + Len(new))
<1> DEFINE x == Put(copy[cur], off, new)
           s == copy[cur]
<1>1. s \in Seq(Nat) /\ cur \in 1..conf.files BY CurProps
<1>2. AllFit(conf, held, s) /\ GapFits(conf, held, Len(s), off) BY <1>1 DEF Fitting
<1>3. x = Put(s, off, new) OBVIOUS
<1> HIDE DEF s
<1>4. /\ AllFit(conf, held, Put(s, off, new))
      /\ Len(Put(s, off, new)) >= off + Len(new)
      /\ Len(Put(s, off, new)) >= Len(s)
      /\ Len(Put(s, off, new)) = off + Len(new) \/ Len(Put(s, off, new)) = Len(s)
  BY <1>1, <1>2, PutFits, ZenonT(30)
<1>5. x \in Seq(Nat) BY <1>1, <1>3, PutProps
<1>6. copy' = [copy EXCEPT ![cur] = x] OBVIOUS
<1>7. AllFit(conf, held, x) BY <1>3, <1>4
<1> HIDE DEF x
<1>8. Fitting' /\ copy'[cur] = x BY <1>5, <1>6, <1>7, FitSet
<1>9. Len(x) \in Nat /\ off + Len(new) \in Nat BY <1>5
<1>10. GapFits(conf, held, Len(x), off + Len(new)) BY <1>3, <1>4, <1>9, NoGap
<1> QED BY <1>3, <1>4, <1>8, <1>9, <1>10 DEF s

(* ftruncate of the file of the operand at work.                           *)
LEMMA ResizeStep ==
    ASSUME Types, Fitting, cur > 0, NEW n \in Nat, GapFits(conf, held, Len(copy[cur]), n),
           copy' = [copy EXCEPT ![cur] = Resize(copy[cur], n)], UNCHANGED <<conf, held,
             spool, tm>>
    PROVE  Fitting' /\ Len(copy'[cur]) = n
<1> DEFINE x == Resize(copy[cur], n)
           s == copy[cur]
<1>1. s \in Seq(Nat) /\ cur \in 1..conf.files BY CurProps
<1>2. AllFit(conf, held, s) /\ GapFits(conf, held, Len(s), n) BY <1>1 DEF Fitting
<1>3. x = Resize(s, n) OBVIOUS
<1> HIDE DEF s
<1>4. AllFit(conf, held, Resize(s, n)) /\ Len(Resize(s, n)) = n
  BY <1>1, <1>2, ResizeFits, ZenonT(30)
<1>5. x \in Seq(Nat) BY <1>1, <1>3, ResizeProps
<1>6. copy' = [copy EXCEPT ![cur] = x] OBVIOUS
<1>7. AllFit(conf, held, x) BY <1>3, <1>4
<1> HIDE DEF x
<1>8. Fitting' /\ copy'[cur] = x BY <1>5, <1>6, <1>7, FitSet
<1> QED BY <1>3, <1>4, <1>8

(* hole_next_data() keeps the blocks fitting.                              *)
LEMMA SeekDataBytes == ASSUME Types, Flow, HeldInv, Bytes, SeekData PROVE Bytes'
<1>1. pc = "seek" /\ UNCHANGED <<conf, source, tm, spool, copy, res, cur, faults>>
  BY DEF SeekData
<1>2. cur > 0 /\ tm.kind = "extents" BY <1>1 DEF Flow
<1> DEFINE have == Len(copy[cur])
           d == NextData(lo.from)
<1>3. have \in Nat /\ lo.from \in Nat /\ lo.written \in Nat /\ tm.size \in Nat
      /\ lo.overstated \in BOOLEAN
  BY <1>2, CurProps DEF Types, Locals, Tmpl
<1>4. /\ GapFits(conf, held, have, lo.written)
      /\ ~lo.overstated => lo.from <= lo.written
      /\ lo.overstated => EndFits(conf, held, lo.written)
  BY <1>1 DEF Bytes, Copying
<1>5. Fitting' BY <1>1, FitSame DEF Bytes
<1>6. \A k \in 1..Len(Src) : Fits(conf, held, k, Src[k]) BY <1>2, SrcFits DEF Bytes
<1>7. EndFits(conf, held, Len(Src)) BY <1>2, SrcFits DEF Bytes
<1>8. Len(Src) \in Nat /\ Stated \in Nat /\ Len(Src) <= Stated BY SrcProps
<1>10. Streaming' BY <1>1, <1>2 DEF SeekData, Streaming
<1>11. CASE lo.overstated \/ lo.from >= tm.size
  <2>1. pc' = "trunc" /\ UNCHANGED <<lo, spos>> BY <1>11 DEF SeekData
  <2>2. ~lo.overstated => ~(lo.written < tm.size) BY <1>3, <1>4, <1>11
  <2>3. Copying' BY <1>1, <1>4, <2>1, <2>2 DEF Copying
  <2> QED BY <1>5, <1>10, <2>1, <2>3 DEF Bytes, Zeroing, Growing
<1>12. CASE ~(lo.overstated \/ lo.from >= tm.size) /\ Layout = "unknown"
  <2>1. pc' = "cfr" /\ lo' = [lo EXCEPT !.src = lo.from, !.dst = lo.from, !.end = tm.size]
    BY <1>12 DEF SeekData, ExtentAt
  <2>2. lo'.src = lo.from /\ lo'.dst = lo.from /\ lo'.overstated = lo.overstated
    BY <2>1 DEF Types, Locals
  <2>3. \A k \in (have + 1)..lo.from : k \in (have + 1)..lo.written BY <1>3, <1>4, <1>12
  <2>4. GapFits(conf, held, have, lo.from) BY <1>4, <2>3 DEF GapFits
  <2>5. Copying' BY <1>1, <1>12, <2>1, <2>2, <2>4 DEF Copying
  <2> QED BY <1>5, <1>10, <2>1, <2>5 DEF Bytes, Zeroing, Growing
<1>13. ASSUME ~(lo.overstated \/ lo.from >= tm.size), NEW n \in Nat,
              \A k \in lo.from..(Stated - 1) : k < n => k < Len(Src) /\ Src[k + 1] = Gap
       PROVE  GapFits(conf, held, have, n)
  <2>1. ASSUME NEW k \in (have + 1)..n PROVE Fits(conf, held, k, Gap)
    <3>0. k \in Nat /\ k - 1 \in Nat /\ k >= have + 1 /\ k <= n /\ (k - 1) + 1 = k BY <1>3
    <3>1. CASE k <= lo.written
      <4>1. k \in (have + 1)..lo.written BY <1>3, <3>0, <3>1
      <4> QED BY <1>4, <4>1 DEF GapFits
    <3>2. CASE ~(k <= lo.written) /\ k <= Stated
      <4>1. k - 1 \in lo.from..(Stated - 1) /\ k - 1 < n
        BY <1>3, <1>4, <1>8, <1>13, <3>0, <3>2
      <4>2. k - 1 < Len(Src) /\ Src[(k - 1) + 1] = Gap BY <1>13, <4>1
      <4>3. k \in 1..Len(Src) /\ Src[k] = Gap BY <1>8, <3>0, <4>2
      <4> QED BY <1>6, <4>3
    <3>3. CASE k > Stated
      <4>1. k > Len(Src) BY <1>8, <3>0, <3>3
      <4> QED BY <1>7, <1>8, <3>0, <4>1, EndAll
    <3> QED BY <1>3, <1>8, <3>0, <3>1, <3>2, <3>3
  <2> QED BY <2>1 DEF GapFits
<1>14. CASE ~(lo.overstated \/ lo.from >= tm.size) /\ Layout # "unknown" /\ d = -1
  <2>1. pc' = "trunc" /\ UNCHANGED <<lo, spos>> BY <1>14 DEF SeekData
  <2>2. \A k \in lo.from..(Stated - 1) : k < Len(Src) /\ Src[k + 1] = Gap
    BY <1>3, <1>14, DataProps
  <2>3. GapFits(conf, held, have, tm.size) BY <1>3, <1>13, <1>14, <2>2
  <2>4. Copying' BY <1>1, <1>4, <2>1, <2>3 DEF Copying
  <2> QED BY <1>5, <1>10, <2>1, <2>4 DEF Bytes, Zeroing, Growing
<1>15. CASE ~(lo.overstated \/ lo.from >= tm.size) /\ Layout # "unknown" /\ d # -1
  <2>1. pc' = "hole" /\ lo' = [lo EXCEPT !.src = d, !.dst = d, !.end = tm.size]
    BY <1>15 DEF SeekData, ExtentAt
  <2>2. d \in Nat /\ \A k \in lo.from..(Stated - 1) : k < d => k < Len(Src)
          /\ Src[k + 1] = Gap
    BY <1>3, <1>8, <1>15, DataProps
  <2> HIDE DEF d
  <2>3. lo'.src = d /\ lo'.dst = d /\ lo'.overstated = lo.overstated
    BY <2>1 DEF Types, Locals
  <2>4. GapFits(conf, held, have, d) BY <1>13, <1>15, <2>2
  <2>5. Copying' BY <1>1, <1>15, <2>1, <2>3, <2>4 DEF Copying
  <2> QED BY <1>5, <1>10, <2>1, <2>5 DEF Bytes, Zeroing, Growing
<1> QED BY <1>11, <1>12, <1>14, <1>15

(* lseek(SEEK_HOLE) keeps the blocks fitting.                              *)
LEMMA SeekHoleBytes == ASSUME Types, Flow, HeldInv, Bytes, SeekHole PROVE Bytes'
<1>1. pc = "hole" /\ pc' = "cfr" /\ UNCHANGED <<conf, source, tm, spool, copy, res, cur>>
  BY DEF SeekHole
<1>2. cur > 0 /\ tm.kind = "extents" BY <1>1 DEF Flow
<1>3. lo'.src = lo.src /\ lo'.dst = lo.dst /\ lo'.overstated = lo.overstated
  BY DEF SeekHole, Types, Locals
<1>4. Fitting' BY <1>1, FitSame DEF Bytes
<1>5. Copying' BY <1>1, <1>3 DEF Bytes, Copying
<1>6. Streaming' BY <1>1, <1>2 DEF Streaming
<1> QED BY <1>1, <1>4, <1>5, <1>6 DEF Bytes, Zeroing, Growing

(* Blocks of the template fit at the offset they come from.                *)
LEMMA BlocksFit ==
    ASSUME Types, Flow, HeldInv, Fitting, tm.kind \in {"extents", "zeros"},
           NEW off \in Nat, NEW n \in Nat, off + n <= Len(Src), NEW s \in Seq(Nat),
             Len(s) = n,
           \A j \in 1..n : Reads(s[j]) = Reads(Src[off + j])
    PROVE  \A j \in 1..Len(s) : Fits(conf, held, off + j, s[j])
<1>1. Len(Src) \in Nat BY SrcProps
<1>2. \A k \in 1..Len(Src) : Fits(conf, held, k, Src[k]) BY SrcFits
<1>3. ASSUME NEW j \in 1..n PROVE Fits(conf, held, off + j, s[j])
  <2>1. off + j \in 1..Len(Src) BY <1>1
  <2>2. Fits(conf, held, off + j, Reads(Src[off + j])) BY <1>2, <2>1, FitsReads
  <2>3. Fits(conf, held, off + j, Reads(s[j])) BY <2>2
  <2> QED BY <2>3, FitsReads
<1> QED BY <1>3

(* What pread() leaves in the buffer.                                      *)
LEMMA BufferFits ==
    ASSUME Types, Flow, HeldInv, Fitting, tm.kind \in {"extents", "zeros"},
           NEW off \in Nat, NEW n \in Nat, off + n <= Len(Src)
    PROVE  LET v == View(SubSeq(Src, off + 1, off + n)) IN
           /\ v \in Seq(Nat) /\ Len(v) = n
           /\ \A j \in 1..n : v[j] = Reads(Src[off + j])
           /\ \A j \in 1..Len(v) : Fits(conf, held, off + j, v[j])
<1> DEFINE s == SubSeq(Src, off + 1, off + n)
           v == View(s)
<1>1. s \in Seq(Nat) /\ Len(s) = n /\ \A j \in 1..n : s[j] = Src[off + j]
  <2>1. Src \in Seq(Nat) BY SrcProps
  <2> QED BY <2>1, PartProps
<1>2. v \in Seq(Nat) /\ Len(v) = n /\ \A j \in 1..n : v[j] = Reads(s[j])
  <2> HIDE DEF s
  <2> QED BY <1>1, ViewProps
<1>3. v = View(SubSeq(Src, off + 1, off + n)) OBVIOUS
<1> HIDE DEF s, v
<1>4. \A c : Reads(Reads(c)) = Reads(c) BY DEF Reads, Gap, Nul
<1>5. \A j \in 1..n : Reads(v[j]) = Reads(Src[off + j]) BY <1>1, <1>2, <1>4
<1>6. \A j \in 1..Len(v) : Fits(conf, held, off + j, v[j]) BY <1>2, <1>5, BlocksFit
<1> QED BY <1>1, <1>2, <1>3, <1>6

(* fast_copy() keeps the blocks fitting.                                   *)
LEMMA CopyBytes == ASSUME Types, Flow, HeldInv, Bytes, fast_copy PROVE Bytes'
<1>1. pc = "cfr" /\ UNCHANGED <<conf, source, spos, tm, spool, res, cur, faults>>
  BY DEF fast_copy
<1>2. cur > 0 /\ tm.kind = "extents" BY <1>1 DEF Flow
<1> DEFINE n == Least(lo.end - lo.src, Len(Src) - lo.src)
<1>3. lo.src \in Nat /\ lo.end \in Nat /\ lo.dst \in Nat /\ Len(Src) \in Nat
  BY SrcProps DEF Types, Locals
<1>4. n \in Int /\ n <= Len(Src) - lo.src BY <1>3 DEF Least
<1>5. ~lo.overstated /\ lo.src = lo.dst /\ GapFits(conf, held, Len(copy[cur]), lo.dst)
  BY <1>1 DEF Bytes, Copying
<1>6. CASE UNCHANGED <<lo, copy>> /\ pc' \in {"pread", "lseek"}
  <2>1. Fitting' BY <1>1, <1>6, FitSame DEF Bytes
  <2>2. Copying' BY <1>1, <1>5, <1>6 DEF Copying
  <2> QED BY <1>1, <1>2, <1>6, <2>1, <2>2 DEF Bytes, Streaming, Zeroing, Growing
<1>7. ASSUME NEW k \in 1..n, NEW keep \in BOOLEAN,
             copy' = [copy EXCEPT ![cur] = Put(copy[cur], lo.dst, Blocks(lo.src, k, keep))],
             lo' = [lo EXCEPT !.src = lo.src + k, !.dst = lo.dst + k], UNCHANGED pc
      PROVE  Bytes'
  <2> DEFINE b == Blocks(lo.src, k, keep)
  <2>1. k \in Nat /\ lo.src + k <= Len(Src) BY <1>3, <1>4
  <2>2. /\ b \in Seq(Nat) /\ Len(b) = k
        /\ \A j \in 1..k : Reads(b[j]) = Reads(Src[lo.src + j])
    BY <1>3, <2>1, BlocksProps
  <2>3. copy' = [copy EXCEPT ![cur] = Put(copy[cur], lo.dst, b)] BY <1>7
  <2> HIDE DEF b, n
  <2>4. \A j \in 1..Len(b) : Fits(conf, held, lo.src + j, b[j])
    BY <1>2, <1>3, <2>1, <2>2, BlocksFit DEF Bytes
  <2>5. Fitting' /\ GapFits(conf, held, Len(copy'[cur]), lo.dst + Len(b))
    BY <1>1, <1>2, <1>3, <1>5, <2>2, <2>3, <2>4, PutStep DEF Bytes
  <2>6. lo'.src = lo.src + k /\ lo'.dst = lo.dst + k /\ lo'.overstated = lo.overstated
    BY <1>7 DEF Types, Locals
  <2>7. Copying' BY <1>1, <1>5, <1>7, <2>2, <2>5, <2>6 DEF Copying
  <2> QED BY <1>1, <1>2, <1>7, <2>5, <2>7 DEF Bytes, Streaming, Zeroing, Growing
<1> QED BY <1>6, <1>7 DEF fast_copy

(* The lseek of fast_sendfile() keeps the blocks fitting.                  *)
LEMMA SendSeekBytes == ASSUME Types, Flow, HeldInv, Bytes, SendSeek PROVE Bytes'
<1>1. pc = "lseek" /\ UNCHANGED <<conf, source, spos, tm, spool, copy, res, cur>>
      /\ pc' \in {"sendfile", "pread"}
  BY DEF SendSeek
<1>2. cur > 0 /\ tm.kind = "extents" BY <1>1 DEF Flow
<1>3. lo'.src = lo.src /\ lo'.dst = lo.dst /\ lo'.overstated = lo.overstated
      /\ (pc' = "sendfile" => lo'.fpos = lo.dst)
  BY DEF SendSeek, Types, Locals
<1>4. Fitting' BY <1>1, FitSame DEF Bytes
<1>5. Copying' BY <1>1, <1>3 DEF Bytes, Copying
<1> QED BY <1>1, <1>2, <1>4, <1>5 DEF Bytes, Streaming, Zeroing, Growing

(* fast_sendfile() keeps the blocks fitting.                               *)
LEMMA SendBytes == ASSUME Types, Flow, HeldInv, Bytes, fast_sendfile PROVE Bytes'
<1>1. pc = "sendfile" /\ UNCHANGED <<conf, source, spos, tm, spool, res, cur, faults>>
  BY DEF fast_sendfile
<1>2. cur > 0 /\ tm.kind = "extents" BY <1>1 DEF Flow
<1> DEFINE n == Least(lo.end - lo.src, Len(Src) - lo.src)
<1>3. lo.src \in Nat /\ lo.end \in Nat /\ lo.dst \in Nat /\ lo.fpos \in Nat
        /\ Len(Src) \in Nat
  BY SrcProps DEF Types, Locals
<1>4. n \in Int /\ n <= Len(Src) - lo.src BY <1>3 DEF Least
<1>5. ~lo.overstated /\ lo.src = lo.dst /\ lo.fpos = lo.dst
      /\ GapFits(conf, held, Len(copy[cur]), lo.dst)
  BY <1>1 DEF Bytes, Copying
<1>6. CASE UNCHANGED <<lo, copy>> /\ pc' = "pread"
  <2>1. Fitting' BY <1>1, <1>6, FitSame DEF Bytes
  <2>2. Copying' BY <1>1, <1>5, <1>6 DEF Copying
  <2> QED BY <1>1, <1>2, <1>6, <2>1, <2>2 DEF Bytes, Streaming, Zeroing, Growing
<1>7. ASSUME NEW k \in 1..n, UNCHANGED pc,
             copy' = [copy EXCEPT ![cur] = Put(copy[cur], lo.fpos, Blocks(lo.src, k,
               FALSE))],
             lo' = [lo EXCEPT !.src = lo.src + k, !.dst = lo.dst + k, !.fpos = lo.fpos + k]
      PROVE  Bytes'
  <2> DEFINE b == Blocks(lo.src, k, FALSE)
  <2>1. k \in Nat /\ lo.src + k <= Len(Src) BY <1>3, <1>4
  <2>2. /\ b \in Seq(Nat) /\ Len(b) = k
        /\ \A j \in 1..k : Reads(b[j]) = Reads(Src[lo.src + j])
    BY <1>3, <2>1, BlocksProps
  <2>3. copy' = [copy EXCEPT ![cur] = Put(copy[cur], lo.dst, b)] BY <1>5, <1>7
  <2> HIDE DEF b, n
  <2>4. \A j \in 1..Len(b) : Fits(conf, held, lo.src + j, b[j])
    BY <1>2, <1>3, <2>1, <2>2, BlocksFit DEF Bytes
  <2>5. Fitting' /\ GapFits(conf, held, Len(copy'[cur]), lo.dst + Len(b))
    BY <1>1, <1>2, <1>3, <1>5, <2>2, <2>3, <2>4, PutStep DEF Bytes
  <2>6. lo'.src = lo.src + k /\ lo'.dst = lo.dst + k /\ lo'.fpos = lo.fpos + k
        /\ lo'.overstated = lo.overstated
    BY <1>7 DEF Types, Locals
  <2>7. Copying' BY <1>1, <1>5, <1>7, <2>2, <2>5, <2>6 DEF Copying
  <2> QED BY <1>1, <1>2, <1>7, <2>5, <2>7 DEF Bytes, Streaming, Zeroing, Growing
<1> QED BY <1>6, <1>7 DEF fast_sendfile

(* copy_slow() keeps the blocks fitting.                                   *)
LEMMA SlowBytes == ASSUME Types, Flow, HeldInv, Bytes, copy_slow PROVE Bytes'
<1>1. pc = "pread" /\ UNCHANGED <<conf, source, spos, tm, spool, copy, res, cur, faults>>
  BY DEF copy_slow
<1>2. cur > 0 /\ tm.kind = "extents" BY <1>1 DEF Flow
<1> DEFINE m == Least(lo.end - lo.src, Len(Src) - lo.src)
           n == Least(Buf, m)
<1>3. lo.src \in Nat /\ lo.end \in Nat /\ lo.dst \in Nat /\ Len(Src) \in Nat
  BY SrcProps DEF Types, Locals
<1>4. m \in Int /\ m <= Len(Src) - lo.src /\ (m = lo.end - lo.src \/ m = Len(Src) - lo.src)
  BY <1>3 DEF Least
<1>4a. n \in Int /\ n <= m /\ (n <= 0 => m <= 0)
  <2> HIDE DEF m
  <2> QED BY <1>4, ConfFacts DEF Least
<1>5. ~lo.overstated /\ lo.src = lo.dst /\ GapFits(conf, held, Len(copy[cur]), lo.dst)
  BY <1>1 DEF Bytes, Copying
<1>6. Fitting' BY <1>1, FitSame DEF Bytes
<1>7. Fitting BY DEF Bytes
<1>8. CASE lo.src >= lo.end /\ lo' = [lo EXCEPT !.written = lo.dst, !.from = lo.end]
             /\ pc' = "seek"
  <2>1. lo'.written = lo.dst /\ lo'.from = lo.end /\ lo'.overstated = lo.overstated
    BY <1>8 DEF Types, Locals
  <2>2. Copying' BY <1>1, <1>3, <1>5, <1>8, <2>1 DEF Copying
  <2> QED BY <1>1, <1>2, <1>6, <1>8, <2>2 DEF Bytes, Streaming, Zeroing, Growing
<1>9. ASSUME NEW k \in 1..n, lo.src < lo.end, pc' = "pwrite",
             lo' = [lo EXCEPT !.buf = View(SubSeq(Src, lo.src + 1, lo.src + k)), !.done = 0]
      PROVE  Bytes'
  <2> DEFINE v == View(SubSeq(Src, lo.src + 1, lo.src + k))
  <2>1. k \in Nat /\ k > 0 /\ lo.src + k <= Len(Src)
    <3> HIDE DEF n, m
    <3> QED BY <1>3, <1>4, <1>4a
  <2>2. /\ v \in Seq(Nat) /\ Len(v) = k
        /\ \A j \in 1..Len(v) : Fits(conf, held, lo.src + j, v[j])
    BY <1>2, <1>3, <1>7, <2>1, BufferFits
  <2>2a. lo' = [lo EXCEPT !.buf = v, !.done = 0] BY <1>9
  <2> HIDE DEF v, n
  <2>3. lo'.buf = v /\ lo'.done = 0 /\ lo'.src = lo.src /\ lo'.dst = lo.dst
        /\ lo'.overstated = lo.overstated
    BY <2>2a DEF Types, Locals
  <2>4. lo'.done < Len(lo'.buf) /\ lo'.dst + lo'.done = lo.dst
    BY <1>3, <2>1, <2>2, <2>3
  <2>5. Copying' BY <1>1, <1>5, <1>9, <2>2, <2>3, <2>4 DEF Copying
  <2> QED BY <1>1, <1>2, <1>6, <1>9, <2>5 DEF Bytes, Streaming, Zeroing, Growing
<1>10. CASE /\ lo.src < lo.end /\ n <= 0 /\ pc' = "seek"
            /\ lo' = [lo EXCEPT !.overstated = TRUE, !.written = lo.dst, !.from = lo.end]
  <2>1. lo'.written = lo.dst /\ lo'.overstated = TRUE BY <1>10 DEF Types, Locals
  <2>2. lo.dst >= Len(Src)
    <3> HIDE DEF n, m
    <3> QED BY <1>3, <1>4, <1>4a, <1>5, <1>10
  <2>3. EndFits(conf, held, Len(Src)) BY <1>2, <1>7, SrcFits
  <2>4. EndFits(conf, held, lo.dst) BY <1>3, <2>2, <2>3, EndAll
  <2>5. Copying' BY <1>1, <1>5, <1>10, <2>1, <2>4 DEF Copying
  <2> QED BY <1>1, <1>2, <1>6, <1>10, <2>5 DEF Bytes, Streaming, Zeroing, Growing
<1> QED BY <1>8, <1>9, <1>10 DEF copy_slow

(* io_pwrite() keeps the blocks fitting.                                   *)
LEMMA PwriteBytes == ASSUME Types, Flow, HeldInv, Bytes, io_pwrite PROVE Bytes'
<1>1. pc = "pwrite" /\ UNCHANGED <<conf, source, spos, tm, spool, res, cur, faults>>
  BY DEF io_pwrite
<1>2. cur > 0 /\ tm.kind = "extents" BY <1>1 DEF Flow
<1> DEFINE b == lo.buf
           d == lo.done
           t == lo.dst
           n == Len(b)
<1>3. lo.src \in Nat /\ t \in Nat /\ d \in Nat /\ b \in Seq(Nat) /\ n \in Nat
  BY DEF Types, Locals
<1>4. PICK k \in 1..(n - d) :
          /\ copy' = [copy EXCEPT ![cur] = Put(copy[cur], t + d, SubSeq(b, d + 1, d + k))]
          /\ \/ d + k = n /\ lo' = [lo EXCEPT !.src = lo.src + n, !.dst = lo.dst + n]
                  /\ pc' = "pread"
             \/ d + k # n /\ lo' = [lo EXCEPT !.done = lo.done + k] /\ UNCHANGED pc
  BY DEF io_pwrite
<1>5. k \in Nat /\ k > 0 /\ d + k <= n BY <1>3
<1> DEFINE new == SubSeq(b, d + 1, d + k)
<1>6. new \in Seq(Nat) /\ Len(new) = k /\ \A j \in 1..k : new[j] = b[d + j]
  BY <1>3, <1>5, PartProps
<1>7. /\ ~lo.overstated /\ lo.src = t /\ GapFits(conf, held, Len(copy[cur]), t + d)
      /\ \A j \in 1..n : Fits(conf, held, t + j, b[j])
  BY <1>1 DEF Bytes, Copying
<1>8. copy' = [copy EXCEPT ![cur] = Put(copy[cur], t + d, new)] BY <1>4
<1>9. \/ /\ d + k = n /\ pc' = "pread" /\ lo'.src = lo.src + n /\ lo'.dst = t + n
         /\ lo'.overstated = lo.overstated
      \/ /\ d + k # n /\ pc' = "pwrite" /\ lo'.src = lo.src /\ lo'.dst = t
              /\ lo'.done = d + k
         /\ lo'.buf = b /\ lo'.overstated = lo.overstated
  BY <1>1, <1>4 DEF Types, Locals
<1>9a. Fitting BY DEF Bytes
<1> HIDE DEF new, b, d, t, n
<1>10. ASSUME NEW j \in 1..k PROVE Fits(conf, held, (t + d) + j, new[j])
  <2>1. d + j \in 1..n /\ t + (d + j) = (t + d) + j BY <1>3, <1>5
  <2>2. Fits(conf, held, t + (d + j), b[d + j]) BY <1>7, <2>1
  <2> QED BY <1>6, <2>1, <2>2
<1>11. \A j \in 1..Len(new) : Fits(conf, held, (t + d) + j, new[j]) BY <1>6, <1>10
<1>12. t + d \in Nat BY <1>3
<1>13. /\ Fitting' /\ GapFits(conf, held, Len(copy'[cur]), (t + d) + Len(new))
       /\ Len(copy'[cur]) \in Nat /\ Len(copy'[cur]) >= (t + d) + Len(new)
  BY <1>1, <1>2, <1>6, <1>7, <1>8, <1>9a, <1>11, <1>12, PutStep
<1>14. (t + d) + Len(new) = t + (d + k) BY <1>3, <1>5, <1>6
<1>15. CASE /\ d + k = n /\ pc' = "pread" /\ lo'.src = lo.src + n /\ lo'.dst = t + n
            /\ lo'.overstated = lo.overstated
  <2>1. Copying' BY <1>1, <1>7, <1>13, <1>14, <1>15 DEF Copying
  <2> QED BY <1>1, <1>2, <1>13, <1>15, <2>1 DEF Bytes, Streaming, Zeroing, Growing
<1>16. CASE /\ d + k # n /\ pc' = "pwrite" /\ lo'.src = lo.src /\ lo'.dst = t
                 /\ lo'.done = d + k
            /\ lo'.buf = b /\ lo'.overstated = lo.overstated
  <2>1. d + k < n BY <1>3, <1>5, <1>16
  <2>2. t <= Len(copy'[cur]) BY <1>3, <1>5, <1>13, <1>14
  <2>3. GapFits(conf, held, Len(copy'[cur]), t) BY <1>3, <1>13, <2>2, NoGap
  <2>4. lo'.done < Len(lo'.buf) BY <1>16, <2>1 DEF n
  <2>5. Copying'
    <3>1. \A j \in 1..Len(lo'.buf) : Fits(conf', held', lo'.dst + j, lo'.buf[j])
      BY <1>1, <1>7, <1>16 DEF n
    <3>2. GapFits(conf', held', Len(copy'[cur']), lo'.dst + lo'.done)
      BY <1>1, <1>13, <1>14, <1>16
    <3> QED BY <1>1, <1>7, <1>16, <2>3, <2>4, <3>1, <3>2 DEF Copying
  <2> QED BY <1>1, <1>2, <1>13, <1>16, <2>5 DEF Bytes, Streaming, Zeroing, Growing
<1> QED BY <1>9, <1>15, <1>16

(* The last ftruncate of copy_extents() keeps the blocks fitting.          *)
LEMMA ExtentsEndBytes == ASSUME Types, Flow, HeldInv, Bytes, ExtentsEnd PROVE Bytes'
<1>1. pc = "trunc" /\ pc' = "size"
      /\ UNCHANGED <<conf, source, spos, tm, spool, res, cur, lo, faults>>
  BY DEF ExtentsEnd
<1>2. cur > 0 /\ tm.kind = "extents" /\ Fitting BY <1>1 DEF Flow, Bytes
<1>3. tm.size \in Nat /\ lo.written \in Nat /\ Len(copy[cur]) \in Nat
        /\ lo.overstated \in BOOLEAN
  BY <1>2, CurProps DEF Types, Tmpl, Locals
<1>4. /\ GapFits(conf, held, Len(copy[cur]), lo.written)
      /\ lo.overstated => EndFits(conf, held, lo.written)
      /\ ~lo.overstated /\ lo.written < tm.size
           => GapFits(conf, held, Len(copy[cur]), tm.size)
  BY <1>1 DEF Bytes, Copying
<1>5. EndFits(conf, held, tm.size) BY <1>2 DEF Fitting
<1>6. CASE lo.written < tm.size /\ ~lo.overstated
  <2>1. copy' = [copy EXCEPT ![cur] = Resize(copy[cur], tm.size)] BY <1>6 DEF ExtentsEnd
  <2>2. Fitting' /\ Len(copy'[cur]) = tm.size
    BY <1>1, <1>2, <1>3, <1>4, <1>6, <2>1, ResizeStep
  <2>3. Growing' BY <1>1, <1>5, <2>2 DEF Growing
  <2> QED BY <1>1, <1>2, <2>2, <2>3 DEF Bytes, Streaming, Zeroing, Copying
<1>7. CASE ~(lo.written < tm.size /\ ~lo.overstated)
  <2>1. copy' = copy BY <1>7 DEF ExtentsEnd
  <2>2. Fitting' BY <1>1, <1>2, <2>1, FitSame
  <2>3. EndFits(conf, held, lo.written)
    <3>1. CASE lo.overstated BY <1>4, <3>1
    <3>2. CASE ~lo.overstated
      <4>1. lo.written >= tm.size BY <1>3, <1>7, <3>2
      <4> QED BY <1>3, <1>5, <4>1, EndAll
    <3> QED BY <3>1, <3>2
  <2>4. ASSUME NEW k \in (Len(copy[cur]) + 1)..Len(conf.content)
                 PROVE Fits(conf, held, k, Gap)
    <3>0. k \in Nat /\ k > Len(copy[cur]) BY <1>3, ConfFacts
    <3>1. CASE k <= lo.written
      <4>1. k \in (Len(copy[cur]) + 1)..lo.written BY <1>3, <3>0, <3>1
      <4> QED BY <1>4, <4>1 DEF GapFits
    <3>2. CASE k > lo.written BY <1>3, <2>3, <3>0, <3>2, EndAll
    <3> QED BY <1>3, <3>0, <3>1, <3>2
  <2>5. EndFits(conf, held, Len(copy[cur])) BY <2>4 DEF EndFits
  <2>6. Growing' BY <1>1, <2>1, <2>5 DEF Growing
  <2> QED BY <1>1, <1>2, <2>2, <2>6 DEF Bytes, Streaming, Zeroing, Copying
<1> QED BY <1>6, <1>7

(* The read of copy_zeros() keeps the blocks fitting.                      *)
LEMMA ZerosBytes == ASSUME Types, Flow, HeldInv, Bytes, ZerosRead PROVE Bytes'
<1>1. pc = "zeros" /\ UNCHANGED <<conf, source, spos, tm, spool, res, cur, faults>>
  BY DEF ZerosRead
<1>2. cur > 0 /\ tm.kind = "zeros" /\ Fitting BY <1>1 DEF Flow, Bytes
<1> DEFINE m == Least(tm.size - lo.src, Len(Src) - lo.src)
           n == Least(Buf, m)
<1>3. lo.src \in Nat /\ tm.size \in Nat /\ Len(Src) \in Nat
  BY SrcProps DEF Types, Locals, Tmpl
<1>4. m \in Int /\ m <= Len(Src) - lo.src /\ (m = tm.size - lo.src \/ m = Len(Src) - lo.src)
  BY <1>3 DEF Least
<1>4a. n \in Int /\ n <= m /\ (n <= 0 => m <= 0)
  <2> HIDE DEF m
  <2> QED BY <1>4, ConfFacts DEF Least
<1>5. GapFits(conf, held, Len(copy[cur]), lo.src) BY <1>1 DEF Bytes, Zeroing
<1>6. CASE n > 0
  <2>0. PICK k \in 1..n :
          lo' = [lo EXCEPT !.buf = View(SubSeq(Src, lo.src + 1, lo.src + k))]
    BY <1>6 DEF ZerosRead
  <2> DEFINE v == View(SubSeq(Src, lo.src + 1, lo.src + k))
  <2>1. lo' = [lo EXCEPT !.buf = v] /\ pc' = "block" /\ UNCHANGED copy
    BY <1>6, <2>0 DEF ZerosRead
  <2>2. k \in Nat /\ k > 0 /\ lo.src + k <= Len(Src)
    <3> HIDE DEF n, m
    <3> QED BY <1>3, <1>4, <1>4a, <2>0
  <2>3. /\ v \in Seq(Nat) /\ Len(v) = k
        /\ \A j \in 1..Len(v) : Fits(conf, held, lo.src + j, v[j])
    BY <1>2, <1>3, <2>2, BufferFits
  <2> HIDE DEF v, n
  <2>4. lo'.buf = v /\ lo'.src = lo.src BY <2>1 DEF Types, Locals
  <2>5. v # <<>> BY <2>2, <2>3
  <2>6. Fitting' BY <1>1, <1>2, <2>1, FitSame
  <2>7. Zeroing' BY <1>1, <1>5, <2>1, <2>3, <2>4, <2>5 DEF Zeroing
  <2> QED BY <1>1, <1>2, <2>1, <2>6, <2>7 DEF Bytes, Streaming, Copying, Growing
<1>7. CASE ~(n > 0)
  <2>1. copy' = [copy EXCEPT ![cur] = Resize(copy[cur], lo.src)] /\ pc' = "size"
    BY <1>7 DEF ZerosRead
  <2>2. lo.src >= tm.size \/ lo.src >= Len(Src)
    <3> HIDE DEF n, m
    <3> QED BY <1>3, <1>4, <1>4a, <1>7
  <2>3. EndFits(conf, held, tm.size) /\ EndFits(conf, held, Len(Src))
    BY <1>2, SrcFits DEF Fitting
  <2>4. EndFits(conf, held, lo.src) BY <1>3, <2>2, <2>3, EndAll
  <2>5. Fitting' /\ Len(copy'[cur]) = lo.src BY <1>1, <1>2, <1>3, <1>5, <2>1, ResizeStep
  <2>6. Growing' BY <1>1, <2>1, <2>4, <2>5 DEF Growing
  <2> QED BY <1>1, <1>2, <2>1, <2>5, <2>6 DEF Bytes, Streaming, Zeroing, Copying
<1> QED BY <1>6, <1>7

(* A block of copy_zeros() keeps the blocks fitting.                       *)
LEMMA BlockBytes == ASSUME Types, Flow, HeldInv, Bytes, ZerosBlock PROVE Bytes'
<1>1. pc = "block" /\ UNCHANGED <<conf, source, spos, tm, spool, res, cur, faults>>
  BY DEF ZerosBlock
<1>2. cur > 0 /\ tm.kind = "zeros" /\ Fitting BY <1>1 DEF Flow, Bytes
<1> DEFINE b == lo.buf
           o == lo.src
<1>3. o \in Nat /\ b \in Seq(Nat) /\ b # <<>> /\ Len(copy[cur]) \in Nat
  BY <1>1, <1>2, CurProps DEF Types, Locals, Bytes, Zeroing
<1>4. GapFits(conf, held, Len(copy[cur]), o)
        /\ \A j \in 1..Len(b) : Fits(conf, held, o + j, b[j])
  BY <1>1 DEF Bytes, Zeroing
<1>5. lo'.src = o + 1 /\ lo'.buf = Tail(b) BY DEF ZerosBlock, Types, Locals
<1>6. pc' = IF Len(b) = 1 THEN "zeros" ELSE "block" BY DEF ZerosBlock
<1>7. copy' = IF Head(b) = Nul THEN copy
              ELSE [copy EXCEPT ![cur] = Put(copy[cur], o, <<Head(b)>>)]
  BY DEF ZerosBlock
<1> HIDE DEF b, o
<1>8. Len(b) \in Nat \ {0} /\ Head(b) = b[1] /\ Head(b) \in Nat /\ Tail(b) \in Seq(Nat)
      /\ Len(Tail(b)) = Len(b) - 1 /\ \A j \in 1..(Len(b) - 1) : Tail(b)[j] = b[j + 1]
  BY <1>3
<1>9. Fits(conf, held, o + 1, Head(b)) BY <1>4, <1>8
<1>10. Fitting' /\ GapFits(conf, held, Len(copy'[cur]), o + 1)
  <2>1. CASE Head(b) = Nul
    <3>1. copy' = copy BY <1>7, <2>1
    <3>2. Fits(conf, held, o + 1, Gap) BY <1>9, <2>1, NulFits
    <3>3. \A k \in (Len(copy[cur]) + 1)..(o + 1) : k \in (Len(copy[cur]) + 1)..o
            \/ k = o + 1
      BY <1>3
    <3>4. GapFits(conf, held, Len(copy[cur]), o + 1) BY <1>4, <3>2, <3>3 DEF GapFits
    <3> QED BY <1>1, <1>2, <3>1, <3>4, FitSame
  <2>2. CASE Head(b) # Nul
    <3> DEFINE new == <<Head(b)>>
    <3>1. copy' = [copy EXCEPT ![cur] = Put(copy[cur], o, new)] BY <1>7, <2>2
    <3>2. new \in Seq(Nat) /\ Len(new) = 1 /\ new[1] = Head(b) BY <1>8
    <3>3. \A j \in 1..Len(new) : Fits(conf, held, o + j, new[j]) BY <1>9, <3>2
    <3> HIDE DEF new
    <3>4. Fitting' /\ GapFits(conf, held, Len(copy'[cur]), o + Len(new))
      BY <1>1, <1>2, <1>3, <1>4, <3>1, <3>2, <3>3, PutStep
    <3> QED BY <3>2, <3>4
  <2> QED BY <2>1, <2>2
<1>11. CASE Len(b) = 1
  <2>1. Zeroing' BY <1>1, <1>5, <1>6, <1>10, <1>11 DEF Zeroing
  <2> QED BY <1>1, <1>2, <1>6, <1>10, <1>11, <2>1 DEF Bytes, Streaming, Copying, Growing
<1>12. CASE Len(b) # 1
  <2>1. ASSUME NEW j \in 1..(Len(b) - 1) PROVE Fits(conf, held, (o + 1) + j, Tail(b)[j])
    <3>1. j + 1 \in 1..Len(b) /\ o + (j + 1) = (o + 1) + j BY <1>3, <1>8
    <3>2. Fits(conf, held, o + (j + 1), b[j + 1]) BY <1>4, <3>1
    <3> QED BY <1>8, <3>1, <3>2
  <2>2. Tail(b) # <<>>
    <3> DEFINE q == Tail(b)
    <3>1. Len(q) = Len(b) - 1 BY <1>8
    <3> HIDE DEF q
    <3>2. q # <<>> BY <1>8, <1>12, <3>1
    <3> QED BY <3>2 DEF q
  <2>3. Zeroing' BY <1>1, <1>5, <1>6, <1>8, <1>10, <1>12, <2>1, <2>2 DEF Zeroing
  <2> QED BY <1>1, <1>2, <1>6, <1>10, <1>12, <2>3 DEF Bytes, Streaming, Copying, Growing
<1> QED BY <1>11, <1>12

(* An operand that is done leaves nothing to be said of its copy but that  *)
(* it fits.                                                                *)
LEMMA DoneBytes ==
    ASSUME Types, Flow, Bytes, pc \in Working, cur > 0, UNCHANGED <<conf, tm, cur, spos>>,
           Fitting', pc' = "next"
    PROVE  Bytes'
<1>1. Streaming' BY ConfFacts DEF Bytes, Streaming, Types
<1> QED BY <1>1 DEF Bytes, Copying, Zeroing, Growing

(* apply_size() keeps the blocks fitting.                                  *)
LEMMA ApplyBytes == ASSUME Types, Flow, HeldInv, Bytes, apply_size PROVE Bytes'
<1>1. pc = "size" /\ UNCHANGED <<conf, source, spos, tm, spool, cur, faults>>
  BY DEF apply_size
<1>2. cur > 0 /\ Fitting BY <1>1 DEF Flow, Bytes
<1>3. Len(copy[cur]) \in Nat BY <1>2, CurProps
<1>4. EndFits(conf, held, Len(copy[cur])) BY <1>1 DEF Bytes, Growing
<1>5. CASE conf.size = NoSize
  <2>1. pc' = "next" /\ UNCHANGED copy BY <1>5 DEF apply_size, Done
  <2>2. Fitting' BY <1>1, <1>2, <2>1, FitSame
  <2> QED BY <1>1, <1>2, <2>1, <2>2, DoneBytes
<1>6. CASE conf.size # NoSize /\ (conf.size <= Len(copy[cur]) \/ conf.sparse \/ tm.tail)
  <2>1. pc' = "next" /\ copy' = [copy EXCEPT ![cur] = Resize(copy[cur], conf.size)]
    BY <1>6 DEF apply_size, Done
  <2>2. conf.size \in Nat BY <1>6, ConfFacts
  <2>3. GapFits(conf, held, Len(copy[cur]), conf.size) BY <1>3, <1>4, <2>2, EndAll
  <2>4. Fitting' BY <1>1, <1>2, <2>1, <2>2, <2>3, ResizeStep
  <2> QED BY <1>1, <1>2, <2>1, <2>4, DoneBytes
<1>7. CASE conf.size # NoSize /\ ~(conf.size <= Len(copy[cur]) \/ conf.sparse \/ tm.tail)
  <2>1. lo' = [lo EXCEPT !.dst = Len(copy[cur])] /\ pc' = "alloc" /\ UNCHANGED <<copy, res>>
    BY <1>7 DEF apply_size
  <2>2. conf.size \in Nat BY <1>7, ConfFacts
  <2>3. lo'.dst = Len(copy[cur]) /\ lo'.dst <= conf.size
    BY <1>3, <1>7, <2>1, <2>2 DEF Types, Locals
  <2>4. Fitting' BY <1>1, <1>2, <2>1, FitSame
  <2>5. Growing' BY <1>1, <1>4, <2>1, <2>3 DEF Growing
  <2>6. tm.kind = "stream" => conf.files = 1 BY DEF Bytes, Streaming
  <2>7. Streaming' BY <1>1, <1>2, <2>1, <2>6, ConfFacts DEF Streaming, Types
  <2> QED BY <2>1, <2>4, <2>5, <2>7 DEF Bytes, Copying, Zeroing
<1> QED BY <1>5, <1>6, <1>7

(* Zeros behind the whole template.                                        *)
LEMMA ZerosFit ==
    ASSUME Types, NEW h, NEW n \in Nat, NEW k \in Nat, EndFits(conf, h, n)
    PROVE  \A j \in 1..Len(Zeros(k)) : Fits(conf, h, n + j, Zeros(k)[j])
<1>1. Len(Zeros(k)) = k /\ \A j \in 1..k : Zeros(k)[j] = Nul BY ZerosProps
<1>2. \A j \in 1..k : n + j \in Nat /\ n + j > n OBVIOUS
<1> QED BY <1>1, <1>2, EndAll

(* Zeros are appended to the file of the operand at work.                  *)
LEMMA GrowStep ==
    ASSUME Types, Bytes, cur > 0, pc \in {"alloc", "fill"}, NEW k \in Nat,
           copy' = [copy EXCEPT ![cur] = Put(copy[cur], lo.dst, Zeros(k))],
           UNCHANGED <<conf, held, spool, tm>>
    PROVE  /\ Fitting' /\ Len(copy'[cur]) = lo.dst + k
           /\ EndFits(conf, held, lo.dst + k)
<1> DEFINE o == lo.dst
           z == Zeros(k)
<1>1. o \in Nat /\ Len(copy[cur]) = o /\ EndFits(conf, held, o) /\ Fitting
  BY DEF Types, Locals, Bytes, Growing
<1>2. z \in Seq(Nat) /\ Len(z) = k BY ZerosProps
<1>3. copy' = [copy EXCEPT ![cur] = Put(copy[cur], o, z)] OBVIOUS
<1>4. \A j \in 1..Len(z) : Fits(conf, held, o + j, z[j]) BY <1>1, ZerosFit
<1> HIDE DEF z, o
<1>5. GapFits(conf, held, Len(copy[cur]), o) BY <1>1, NoGap
<1>6. /\ Fitting' /\ Len(copy'[cur]) \in Nat /\ Len(copy'[cur]) >= o + Len(z)
      /\ Len(copy'[cur]) = o + Len(z) \/ Len(copy'[cur]) = Len(copy[cur])
  BY <1>1, <1>2, <1>3, <1>4, <1>5, PutStep
<1>7. Len(copy'[cur]) = o + k BY <1>1, <1>2, <1>6
<1>8. EndFits(conf, held, o + k) BY <1>1, EndAll
<1> QED BY <1>6, <1>7, <1>8 DEF o

(* fast_alloc() keeps the blocks fitting.                                  *)
LEMMA AllocBytes == ASSUME Types, Flow, HeldInv, Bytes, fast_alloc PROVE Bytes'
<1>1. pc = "alloc" /\ UNCHANGED <<conf, source, spos, tm, spool, cur, lo, faults>>
  BY DEF fast_alloc
<1>2. cur > 0 /\ Fitting /\ conf.size # NoSize BY <1>1 DEF Flow, Bytes
<1>3. lo.dst \in Nat /\ conf.size \in Nat /\ lo.dst <= conf.size
  BY <1>1, <1>2, ConfFacts DEF Types, Locals, Bytes, Growing
<1>4. conf.size - lo.dst \in Nat BY <1>3
<1>5. CASE copy' = [copy EXCEPT ![cur] = Put(copy[cur], lo.dst,
             Zeros(conf.size - lo.dst))] /\ Done("ok")
  <2>1. Fitting' BY <1>1, <1>2, <1>4, <1>5, GrowStep
  <2> QED BY <1>1, <1>2, <1>5, <2>1, DoneBytes DEF Done
<1>6. CASE pc' = "fill" /\ UNCHANGED <<copy, res>>
  <2>1. Fitting' BY <1>1, <1>2, <1>6, FitSame
  <2>2. Growing' BY <1>1, <1>6 DEF Bytes, Growing
  <2>3. Streaming' BY <1>1, <1>2, <1>6, ConfFacts DEF Streaming, Types, Bytes
  <2> QED BY <1>6, <2>1, <2>2, <2>3 DEF Bytes, Copying, Zeroing
<1> QED BY <1>5, <1>6 DEF fast_alloc

(* io_fill() keeps the blocks fitting.                                     *)
LEMMA FillBytes == ASSUME Types, Flow, HeldInv, Bytes, io_fill PROVE Bytes'
<1>1. pc = "fill" /\ UNCHANGED <<conf, source, spos, tm, spool, cur, faults>>
  BY DEF io_fill
<1>2. cur > 0 /\ Fitting /\ conf.size # NoSize BY <1>1 DEF Flow, Bytes
<1>3. lo.dst \in Nat /\ conf.size \in Nat /\ lo.dst <= conf.size
  BY <1>1, <1>2, ConfFacts DEF Types, Locals, Bytes, Growing
<1>4. CASE Done("ok") /\ UNCHANGED <<copy, lo>>
  <2>1. Fitting' BY <1>1, <1>2, <1>4, FitSame
  <2> QED BY <1>1, <1>2, <1>4, <2>1, DoneBytes DEF Done
<1>5. ASSUME NEW k \in 1..Least(Buf, conf.size - lo.dst), UNCHANGED <<pc, res>>,
             copy' = [copy EXCEPT ![cur] = Put(copy[cur], lo.dst, Zeros(k))],
             lo' = [lo EXCEPT !.dst = lo.dst + k]
      PROVE  Bytes'
  <2>1. k \in Nat /\ k <= conf.size - lo.dst BY <1>3, ConfFacts DEF Least
  <2>2. /\ Fitting' /\ Len(copy'[cur]) = lo.dst + k
        /\ EndFits(conf, held, lo.dst + k)
    BY <1>1, <1>2, <1>5, <2>1, GrowStep
  <2>3. lo'.dst = lo.dst + k /\ lo'.dst <= conf.size BY <1>3, <1>5, <2>1 DEF Types, Locals
  <2>4. Growing' BY <1>1, <1>5, <2>2, <2>3 DEF Growing
  <2>5. Streaming' BY <1>1, <1>2, <1>5, ConfFacts DEF Streaming, Types, Bytes
  <2> QED BY <1>1, <1>5, <2>2, <2>4, <2>5 DEF Bytes, Copying, Zeroing
<1> QED BY <1>4, <1>5 DEF io_fill

(* A call that fails for good keeps the blocks fitting.                    *)
LEMMA FailsBytes == ASSUME Types, Flow, HeldInv, Bytes, CallFails PROVE Bytes'
<1>1. UNCHANGED <<conf, source, spos, tm, spool, copy, cur, lo>> BY DEF CallFails
<1>2. pc' \in {"next", "done"} BY DEF CallFails, Done
<1>3. Fitting' BY <1>1, FitSame DEF Bytes
<1>4. Streaming' BY <1>1, <1>2 DEF Streaming, Bytes
<1> QED BY <1>2, <1>3, <1>4 DEF Bytes, Copying, Zeroing, Growing

(* tmpl_close() keeps the blocks fitting.                                  *)
LEMMA CloseBytes == ASSUME Types, Flow, HeldInv, Bytes, tmpl_close PROVE Bytes'
<1>1. UNCHANGED <<conf, source, tm, spool, copy, res, cur, lo, faults>> /\ pc' = "done"
  BY DEF tmpl_close
<1>2. Fitting' BY <1>1, FitSame DEF Bytes
<1>3. tm.kind = "stream" => spos' = spos BY DEF tmpl_close
<1>4. Streaming' BY <1>1, <1>3 DEF Streaming, Bytes
<1> QED BY <1>1, <1>2, <1>4 DEF Bytes, Copying, Zeroing, Growing

(* A change of the template by another process keeps the blocks fitting.   *)
LEMMA OtherBytes ==
    ASSUME Types, Flow, HeldInv, Bytes, OtherChanges PROVE HeldInv' /\ Bytes'
<1>1. UNCHANGED <<conf, spos, tm, spool, copy, res, pc, cur, lo, faults>>
        /\ changes < MaxChanges
  BY DEF OtherChanges
<1>2. PICK s \in Seq(Nat) : Changed(s) /\ Len(s) <= Len(src) + 2 BY OtherShape
<1>3. DOMAIN held = Offsets(conf) BY DEF Types
<1>4. /\ \A k \in Offsets(conf) : held'[k] =
            held[k] \cup {IF k <= Len(s) THEN Reads(s[k]) ELSE Nul}
      /\ src' = s /\ changes' = changes + 1
  BY <1>2, <1>3 DEF Changed
<1>5. HeldInv'
  <2>1. \A k \in Offsets(conf) : (IF k <= Len(s) THEN Reads(s[k]) ELSE Nul) \in held'[k]
    BY <1>4
  <2> DEFINE l == Len(conf.content)
             m == Len(src)
             n == Len(s)
  <2>2. l \in Nat /\ m \in Nat /\ n \in Nat /\ changes \in Nat /\ n <= m + 2
    BY <1>2, ConfFacts DEF Types
  <2>3. m <= l + 2 * changes BY DEF HeldInv
  <2> HIDE DEF l, m, n
  <2>4. n <= l + 2 * (changes + 1) BY <2>2, <2>3
  <2> QED BY <1>1, <1>4, <2>1, <2>4 DEF HeldInv, l, n
<1>6. \A k \in Offsets(conf) : held[k] \subseteq held'[k] BY <1>4
<1>7. \A k, v : Fits(conf, held, k, v) => Fits(conf, held', k, v) BY <1>6, FitsLater
<1>8. /\ \A t : AllFit(conf, held, t) => AllFit(conf, held', t)
      /\ \A m, n : GapFits(conf, held, m, n) => GapFits(conf, held', m, n)
      /\ \A n : EndFits(conf, held, n) => EndFits(conf, held', n)
  BY <1>7 DEF AllFit, GapFits, EndFits
<1>9. Fitting' BY <1>1, <1>8 DEF Bytes, Fitting
<1>10. Streaming' BY <1>1, <1>7 DEF Bytes, Streaming
<1>11. Copying' BY <1>1, <1>7, <1>8 DEF Bytes, Copying
<1>12. Zeroing' BY <1>1, <1>7, <1>8 DEF Bytes, Zeroing
<1>13. Growing' BY <1>1, <1>8 DEF Bytes, Growing
<1> QED BY <1>5, <1>9, <1>10, <1>11, <1>12, <1>13 DEF Bytes

(* What the program does itself does not change the template.              *)
LEMMA HeldKept == ASSUME HeldInv, UNCHANGED <<conf, source>> PROVE HeldInv'
  BY DEF HeldInv

(* The invariant of a run.                                                 *)
Sound == Types /\ Flow /\ HeldInv /\ Bytes

(* A run starts out sound.                                                 *)
LEMMA SoundInit == Init => Sound
<1> SUFFICES ASSUME Init PROVE Sound OBVIOUS
<1>1. /\ conf \in Confs /\ src = conf.content /\ spos = conf.at /\ spool = <<>>
      /\ pc = "open" /\ cur = 0 /\ lo = NewLocals /\ changes = 0 /\ tm = Unread
      /\ copy = [i \in 1..conf.files |-> <<>>] /\ res = [i \in 1..conf.files |-> "none"]
  BY DEF Init, Unread
<1>2. /\ conf.content \in Seq(Nat) /\ conf.at \in Nat /\ conf.files \in Nat \ {0}
      /\ MaxChanges \in Nat /\ Len(src) \in Nat
  BY <1>1, TemplateAssumption DEF Conf
<1>3. Offsets(conf) = 1..(Len(src) + 2 * MaxChanges + 1) BY <1>1 DEF Offsets
<1>3a. Offsets(conf) \subseteq Nat \ {0}
  <2> DEFINE l == Len(src)
  <2>1. l \in Nat BY <1>2
  <2> HIDE DEF l
  <2>2. 1..(l + 2 * MaxChanges + 1) \subseteq Nat \ {0} BY <1>2, <2>1
  <2> QED BY <1>3, <2>2 DEF l
<1>4. held = [k \in Offsets(conf) |-> {IF k <= Len(src) THEN Reads(src[k]) ELSE Nul}]
  BY <1>3 DEF Init
<1>5. \A k \in 1..Len(src) : Reads(src[k]) \in Nat BY <1>1, <1>2 DEF Reads, Nul
<1>6. \A k \in Offsets(conf) : (IF k <= Len(src) THEN Reads(src[k]) ELSE Nul) \in Nat
  BY <1>2, <1>3a, <1>5 DEF Nul
<1>7. held \in [Offsets(conf) -> SUBSET Nat] BY <1>4, <1>6
<1>8. NewLocals \in Locals /\ Unread \in Tmpl BY DEF NewLocals, Locals, Unread, Tmpl
<1>9. Types BY <1>1, <1>2, <1>7, <1>8 DEF Types
<1>10. Flow BY <1>1, <1>2 DEF Flow, Unread
<1>11. HeldInv BY <1>1, <1>2, <1>4 DEF HeldInv
<1>12. AllFit(conf, held, <<>>) BY DEF AllFit
<1>13. Fitting BY <1>1, <1>12 DEF Fitting, Unread
<1>14. Streaming BY <1>1, <1>2 DEF Streaming, Unread
<1> QED BY <1>1, <1>9, <1>10, <1>11, <1>13, <1>14
     DEF Sound, Bytes, Copying, Zeroing, Growing

(* Every step keeps a run sound.                                           *)
LEMMA SoundStep == Sound /\ [Next]_vars => Sound'
<1> SUFFICES ASSUME Sound, [Next]_vars PROVE Sound' OBVIOUS
<1> USE DEF Sound
<1>1. CASE tmpl_open BY <1>1, OpenFlow, OpenBytes, HeldKept DEF tmpl_open
<1>2. CASE FindTail BY <1>2, TailFlow, TailBytes, HeldKept DEF FindTail
<1>3. CASE spool_open BY <1>3, SpoolFlow, SpoolBytes, HeldKept DEF spool_open
<1>4. CASE fast_splice BY <1>4, SpliceFlow, SpliceBytes, HeldKept DEF fast_splice
<1>5. CASE NextOperand BY <1>5, NextFlow, NextBytes, HeldKept DEF NextOperand
<1>6. CASE StreamRead BY <1>6, ReadFlow, ReadBytes, HeldKept DEF StreamRead
<1>7. CASE io_write BY <1>7, WriteFlow, WriteBytes, HeldKept DEF io_write
<1>8. CASE SeekData BY <1>8, SeekDataFlow, SeekDataBytes, HeldKept DEF SeekData
<1>9. CASE SeekHole BY <1>9, SeekHoleFlow, SeekHoleBytes, HeldKept DEF SeekHole
<1>10. CASE fast_copy BY <1>10, CopyFlow, CopyBytes, HeldKept DEF fast_copy
<1>11. CASE SendSeek BY <1>11, SendSeekFlow, SendSeekBytes, HeldKept DEF SendSeek
<1>12. CASE fast_sendfile BY <1>12, SendFlow, SendBytes, HeldKept DEF fast_sendfile
<1>13. CASE copy_slow BY <1>13, SlowFlow, SlowBytes, HeldKept DEF copy_slow
<1>14. CASE io_pwrite BY <1>14, PwriteFlow, PwriteBytes, HeldKept DEF io_pwrite
<1>15. CASE ExtentsEnd BY <1>15, ExtentsEndFlow, ExtentsEndBytes, HeldKept DEF ExtentsEnd
<1>16. CASE ZerosRead BY <1>16, ZerosFlow, ZerosBytes, HeldKept DEF ZerosRead
<1>17. CASE ZerosBlock
  <2>1. lo.buf # <<>> BY <1>17 DEF ZerosBlock, Bytes, Zeroing
  <2> QED BY <1>17, <2>1, BlockFlow, BlockBytes, HeldKept DEF ZerosBlock
<1>18. CASE apply_size BY <1>18, ApplyFlow, ApplyBytes, HeldKept DEF apply_size
<1>19. CASE fast_alloc
  <2>1. lo.dst <= conf.size BY <1>19 DEF fast_alloc, Bytes, Growing
  <2> QED BY <1>19, <2>1, AllocFlow, AllocBytes, HeldKept DEF fast_alloc
<1>20. CASE io_fill BY <1>20, FillFlow, FillBytes, HeldKept DEF io_fill
<1>21. CASE CallFails BY <1>21, FailsFlow, FailsBytes, HeldKept DEF CallFails
<1>22. CASE tmpl_close BY <1>22, CloseFlow, CloseBytes, HeldKept DEF tmpl_close
<1>23. CASE OtherChanges BY <1>23, OtherFlow, OtherBytes
<1>24. CASE UNCHANGED vars
  <2>1. UNCHANGED <<conf, src, changes, held, spos, tm, spool, copy, res, pc, cur, lo>>
    BY <1>24 DEF vars
  <2>2. Types' BY <2>1 DEF Types
  <2>3. Flow' BY <2>1 DEF Flow
  <2>4. HeldInv' BY <2>1 DEF HeldInv
  <2>5. Fitting' BY <2>1, FitSame DEF Bytes
  <2>6. Streaming' /\ Copying' BY <2>1 DEF Bytes, Streaming, Copying
  <2>7. Zeroing' /\ Growing' BY <2>1 DEF Bytes, Zeroing, Growing
  <2> QED BY <2>2, <2>3, <2>4, <2>5, <2>6, <2>7 DEF Bytes
<1> QED BY <1>1, <1>2, <1>3, <1>4, <1>5, <1>6, <1>7, <1>8, <1>9, <1>10, <1>11, <1>12, <1>13,
           <1>14, <1>15, <1>16, <1>17, <1>18, <1>19, <1>20, <1>21, <1>22, <1>23, <1>24
     DEF Next, Ended

(* A run is sound throughout.                                              *)
LEMMA SoundAlways == Spec => []Sound
<1> USE DEF Early
<1> QED BY SoundInit, SoundStep, PTL DEF Spec

(* What fits is what the template held.                                    *)
LEMMA SoundOnly == Sound => OnlyTemplateBytes
<1> SUFFICES ASSUME Sound, NEW i \in DOMAIN copy, NEW k \in 1..Len(copy[i])
             PROVE  \/ k + conf.at > Len(conf.content) /\ Reads(copy[i][k]) = Nul
                    \/ k + conf.at \in DOMAIN held
                         /\ Reads(copy[i][k]) \in held[k + conf.at]
  BY DEF OnlyTemplateBytes
<1>1. DOMAIN copy = 1..conf.files /\ DOMAIN held = Offsets(conf) BY DEF Sound, Types
<1>2. Fits(conf, held, k, copy[i][k]) BY <1>1 DEF Sound, Bytes, Fitting, AllFit
<1> QED BY <1>1, <1>2 DEF Fits

(* Whatever another process does to the template, every block of a new     *)
(* file is one that the template held at that offset: no call of           *)
(* copy_extents(), copy_zeros() or copy_stream() that comes short or gives *)
(* up puts a block at a wrong offset or writes a stale buffer.             *)
THEOREM BytesTheorem == Spec => []OnlyTemplateBytes
  BY SoundAlways, SoundOnly, PTL

-----------------------------------------------------------------------------
(* How long the new files are, as long as nobody changes the template.     *)

(* From where it is read on.                                               *)
Rest == Len(conf.content) - conf.at

(* Nobody has changed the template.                                        *)
Exact ==
    /\ src = conf.content
    /\ \A k \in Offsets(conf) : held[k] = {IF k <= Len(src) THEN Reads(src[k]) ELSE Nul}

(* tmpl_open() knows the size, and the spool holds everything.             *)
SizeKnown ==
    /\ pc \in Early \cup {"read", "write"} => spos <= Len(src)
    /\ tm.spooled => Len(spool) = Rest
    /\ tm.kind \in {"extents", "zeros"} /\ ~tm.spooled => tm.size = Stated

(* Where copy_extents() writes next.                                       *)
Ahead == IF pc = "pwrite" THEN lo.dst + lo.done ELSE lo.dst

(* copy_extents(): the new file ends where it is written next, or a gap of *)
(* the template lies between and more of the template follows.  A file     *)
(* that states more than it holds has no gaps that lseek tells of.         *)
ExtentLengths ==
    /\ pc \in Extents => Len(copy[cur]) <= Len(Src)
    /\ pc \in InExtent =>
         /\ lo.dst <= lo.end /\ lo.end <= tm.size
         /\ Len(copy[cur]) <= Ahead
         /\ Len(copy[cur]) = Ahead \/ (lo.src < lo.end /\ Stated = Len(Src))
    /\ pc = "hole" => /\ lo.src < lo.end
                      /\ Layout = "known" /\ lo.src < Len(Src) => Src[lo.src + 1] # Gap
    /\ pc = "pwrite" => /\ lo.src + Len(lo.buf) <= lo.end
                        /\ lo.src + Len(lo.buf) <= Len(Src)
    /\ pc \in {"seek", "trunc"} =>
         /\ Len(copy[cur]) = lo.written
         /\ ~lo.overstated => lo.from = lo.written
         /\ lo.overstated => Len(copy[cur]) = Len(Src)
    /\ pc = "trunc" /\ ~lo.overstated /\ lo.written < tm.size => Stated = Len(Src)

(* copy_zeros() is within the template, and apply_size() finds a file that *)
(* has everything.                                                         *)
OtherLengths ==
    /\ pc \in {"zeros", "block"} => lo.src <= Len(src)
    /\ pc = "block" => lo.src + Len(lo.buf) <= Len(src)
    /\ pc = "size" => Len(copy[cur]) = Rest

(* A finished file has the size of the template, or the one -s gives.      *)
DoneLengths ==
    \A i \in 1..conf.files : Finished(i) =>
        Len(copy[i]) = IF conf.size = NoSize THEN Rest ELSE conf.size

(* All of it.                                                              *)
Lengths ==
    changes = 0 => DoneLengths /\ Exact /\ SizeKnown /\ ExtentLengths /\ OtherLengths

(* The file behind tmpl->fd stays the same.                                *)
LEMMA SrcSame ==
    ASSUME UNCHANGED <<conf, src, spool>>, tm'.spooled = tm.spooled
    PROVE  Src' = Src /\ Stated' = Stated /\ Layout' = Layout
  BY DEF Src, Stated, Layout

(* Work on one operand leaves the finished ones alone.                     *)
LEMMA DoneSame ==
    ASSUME Flow, DoneLengths, UNCHANGED <<conf, res>>,
           \A i \in 1..conf.files : copy'[i] = copy[i] \/ (i = cur /\ cur > 0
             /\ pc \in Working)
    PROVE  DoneLengths'
<1> SUFFICES ASSUME NEW i \in 1..conf.files, Finished(i)
             PROVE  Len(copy'[i]) = IF conf.size = NoSize THEN Rest ELSE conf.size
  BY DEF DoneLengths, Finished, Rest
<1>1. i = cur /\ cur > 0 /\ pc \in Working => FALSE BY DEF Flow, Finished
<1>2. copy'[i] = copy[i] BY <1>1
<1> QED BY <1>2 DEF DoneLengths

(* The operand at work is done, and its file has the right size.           *)
LEMMA DoneNow ==
    ASSUME Types, Flow, DoneLengths, UNCHANGED conf, pc \in Working, cur > 0,
           NEW r \in {"ok", "failed"}, Done(r),
           \A i \in 1..conf.files : i # cur => copy'[i] = copy[i],
           r = "ok" => Len(copy'[cur]) = IF conf.size = NoSize THEN Rest ELSE conf.size
    PROVE  DoneLengths'
<1>1. res' = [res EXCEPT ![cur] = r] /\ cur \in 1..conf.files BY CurProps DEF Done
<1>2. res'[cur] = r /\ \A i \in 1..conf.files : i # cur => res'[i] = res[i]
  BY <1>1 DEF Types
<1> SUFFICES ASSUME NEW i \in 1..conf.files, res'[i] = "ok"
             PROVE  Len(copy'[i]) = IF conf.size = NoSize THEN Rest ELSE conf.size
  BY DEF DoneLengths, Finished, Rest
<1>3. CASE i = cur BY <1>2, <1>3
<1>4. CASE i # cur BY <1>2, <1>4 DEF DoneLengths, Finished
<1> QED BY <1>3, <1>4

(* What a call does to the files.                                          *)
LEMMA CopyAt ==
    ASSUME Types, NEW x, copy' = [copy EXCEPT ![cur] = x]
    PROVE  /\ \A i \in 1..conf.files : i # cur => copy'[i] = copy[i]
           /\ cur > 0 => copy'[cur] = x
<1>1. copy \in [1..conf.files -> Seq(Nat)] BY DEF Types
<1>2. cur > 0 => cur \in 1..conf.files BY CurProps
<1> QED BY <1>1, <1>2

(* The steps, as long as nobody changes the template.                      *)
LEMMA ExactSame == ASSUME Exact, UNCHANGED <<conf, source>> PROVE Exact'
  BY DEF Exact

(* What is left to copy.                                                   *)
LEMMA RestProps ==
    ASSUME Types, Exact
    PROVE  /\ Rest \in Nat /\ Rest = Len(src) - conf.at /\ Len(src) \in Nat
                /\ conf.at \in Nat
           /\ conf.at = 0 => Rest = Len(src)
<1>1. conf.at \in Nat /\ Len(conf.content) \in Nat /\ conf.at <= Len(conf.content)
  BY ConfFacts
<1>2. src = conf.content BY DEF Exact
<1> QED BY <1>1, <1>2 DEF Rest

(* tmpl_open() keeps the sizes right.                                      *)
LEMMA OpenLen == ASSUME Sound, Lengths, changes = 0, tmpl_open PROVE Lengths'
<1> USE DEF Sound
<1>1. pc = "open" /\ UNCHANGED <<conf, source, spos, spool, copy, res, cur, lo, faults>>
      /\ cur = 0 /\ tm = Unread /\ spool = <<>>
  BY DEF tmpl_open, Flow
<1>2. DoneLengths' BY <1>1, DoneSame DEF Lengths
<1>3. Exact' BY <1>1, ExactSame DEF Lengths
<1>4. spos <= Len(src) BY <1>1 DEF Lengths, SizeKnown
<1>5. tm'.spooled = FALSE /\ (tm'.kind \in {"extents", "zeros"} => tm'.size = Stated)
  <2>1. CASE conf.kind = "none" BY <1>1, <2>1 DEF tmpl_open, Unread
  <2>2. CASE conf.kind # "none" /\ conf.at = 0 /\ conf.kind \in {"plain", "overstated"}
               /\ Stated > 0
    BY <1>1, <2>2 DEF tmpl_open, Unread
  <2>3. CASE conf.kind # "none" /\ ~(conf.at = 0
               /\ conf.kind \in {"plain", "overstated"} /\ Stated > 0)
    <3>1. CASE conf.files > 1
      <4>1. tm' = tm BY <2>3, <3>1 DEF tmpl_open
      <4> QED BY <1>1, <4>1 DEF Unread
    <3>2. CASE ~(conf.files > 1)
      <4>1. tm' = [tm EXCEPT !.kind = "stream"] BY <2>3, <3>2 DEF tmpl_open
      <4> QED BY <1>1, <4>1 DEF Unread
    <3> QED BY <3>1, <3>2
  <2> QED BY <2>1, <2>2, <2>3
<1>6. pc' \in {"next", "tail", "spool"} BY DEF tmpl_open
<1>8. Stated' = Stated BY <1>1, <1>5, SrcSame DEF Unread
<1>9. SizeKnown' BY <1>1, <1>4, <1>5, <1>8 DEF SizeKnown
<1> QED BY <1>2, <1>3, <1>6, <1>9 DEF Lengths, ExtentLengths, OtherLengths

(* hole_tail() and tail_zero() keeps the sizes right.                      *)
LEMMA TailLen == ASSUME Sound, Lengths, changes = 0, FindTail PROVE Lengths'
<1> USE DEF Sound
<1>1. pc = "tail" /\ pc' = "next" /\ UNCHANGED <<conf, source, spool, copy, res, cur, lo>>
  BY DEF FindTail
<1>2. DoneLengths' BY <1>1, DoneSame DEF Lengths
<1>3. Exact' BY <1>1, ExactSame DEF Lengths
<1>4. tm'.kind = tm.kind /\ tm'.size = tm.size /\ tm'.spooled = tm.spooled
  BY DEF FindTail, Types, Tmpl
<1>5. Stated' = Stated BY <1>1, <1>4, SrcSame
<1>6. Rest' = Rest BY <1>1 DEF Rest
<1>7. SizeKnown' BY <1>1, <1>4, <1>5, <1>6 DEF Lengths, SizeKnown
<1> QED BY <1>1, <1>2, <1>3, <1>7 DEF Lengths, ExtentLengths, OtherLengths

(* spool_open() keeps the sizes right.                                     *)
LEMMA SpoolLen == ASSUME Sound, Lengths, changes = 0, spool_open PROVE Lengths'
<1> USE DEF Sound
<1>1. pc \in {"spool", "mkstemp"} /\ pc' \in {"splice", "mkstemp"}
      /\ UNCHANGED <<conf, source, spos, tm, spool, copy, res, cur, lo>>
  BY DEF spool_open
<1>2. DoneLengths' BY <1>1, DoneSame DEF Lengths
<1>3. Exact' BY <1>1, ExactSame DEF Lengths
<1>4. Stated' = Stated /\ Rest' = Rest BY <1>1, SrcSame DEF Rest
<1>5. SizeKnown' BY <1>1, <1>4 DEF Lengths, SizeKnown
<1> QED BY <1>1, <1>2, <1>3, <1>5 DEF Lengths, ExtentLengths, OtherLengths

(* fast_splice() keeps the sizes right.                                    *)
LEMMA SpliceLen == ASSUME Sound, Lengths, changes = 0, fast_splice PROVE Lengths'
<1> USE DEF Sound
<1>1. pc = "splice" /\ UNCHANGED <<conf, source, copy, res, cur, lo, faults>>
      /\ cur = 0 /\ tm = Unread
  BY DEF fast_splice, Flow
<1>2. DoneLengths' BY <1>1, DoneSame DEF Lengths
<1>3. Exact' BY <1>1, ExactSame DEF Lengths
<1>4. spos <= Len(src) /\ Exact BY <1>1 DEF Lengths, SizeKnown
<1>5. spos = conf.at + Len(spool) BY <1>1 DEF Bytes, Streaming
<1>6. spos \in Nat /\ Len(src) \in Nat /\ Len(spool) \in Nat BY DEF Types
<1>7. /\ \/ UNCHANGED tm /\ spos' = spos /\ pc' = "read"
         \/ UNCHANGED tm /\ spos' \in Nat /\ spos' <= Len(src) /\ pc' = "splice"
         \/ /\ spos = Len(src) /\ UNCHANGED <<spool, spos>> /\ pc' = "next"
            /\ tm'.kind = "extents" /\ tm'.spooled = TRUE
  <2>1. ASSUME NEW k \in 1..(Len(src) - spos), spos' = spos + k, UNCHANGED <<pc, tm>>
        PROVE  UNCHANGED tm /\ spos' \in Nat /\ spos' <= Len(src) /\ pc' = "splice"
    BY <1>1, <1>6, <2>1
  <2>2. CASE /\ spos = Len(src) /\ UNCHANGED <<spool, spos>> /\ pc' = "next"
             /\ tm' = [tm EXCEPT !.kind = "extents", !.size = Len(spool), !.spooled = TRUE]
    <3>1. tm'.kind = "extents" /\ tm'.spooled = TRUE BY <1>1, <2>2 DEF Unread
    <3> QED BY <2>2, <3>1
  <2>3. CASE pc' = "read" /\ UNCHANGED <<spool, spos, tm>> BY <2>3
  <2> QED BY <2>1, <2>2, <2>3 DEF fast_splice
<1>8. SizeKnown'
  <2>1. CASE UNCHANGED tm /\ spos' <= Len(src)
    BY <1>1, <2>1 DEF SizeKnown, Unread
  <2>2. CASE /\ spos = Len(src) /\ UNCHANGED <<spool, spos>> /\ pc' = "next"
             /\ tm'.kind = "extents" /\ tm'.spooled = TRUE
    <3>1. Rest = Len(src) - conf.at /\ conf.at \in Nat BY <1>4, RestProps
    <3>2. Len(spool) = Rest BY <1>5, <1>6, <2>2, <3>1
    <3>3. Rest' = Rest BY <1>1 DEF Rest
    <3> QED BY <1>1, <2>2, <3>2, <3>3 DEF SizeKnown
  <2> QED BY <1>4, <1>7, <2>1, <2>2
<1>9. pc' \in {"read", "splice", "next"} BY <1>7
<1> QED BY <1>2, <1>3, <1>8, <1>9 DEF Lengths, ExtentLengths, OtherLengths

(* tmpl_apply() of the next operand keeps the sizes right.                 *)
LEMMA NextLen == ASSUME Sound, Lengths, changes = 0, NextOperand PROVE Lengths'
<1> USE DEF Sound
<1>1. pc = "next" /\ UNCHANGED <<conf, source, spos, tm, spool, copy, res, faults>>
  BY DEF NextOperand
<1>2. DoneLengths' BY <1>1, DoneSame DEF Lengths
<1>3. Exact' /\ Exact BY <1>1, ExactSame DEF Lengths
<1>4. Src' = Src /\ Stated' = Stated /\ Rest' = Rest BY <1>1, SrcSame DEF Rest
<1>5. CASE ~(cur < conf.files)
  <2>1. pc' = "close" BY <1>5 DEF NextOperand
  <2>2. SizeKnown' BY <1>1, <1>4, <2>1 DEF Lengths, SizeKnown
  <2> QED BY <1>2, <1>3, <2>1, <2>2 DEF Lengths, ExtentLengths, OtherLengths
<1>6. CASE cur < conf.files
  <2>1. cur' = cur + 1 /\ pc' = Entry[tm.kind] /\ lo' = NewLocals BY <1>6 DEF NextOperand
  <2>1a. cur \in Nat /\ conf.files \in Nat BY ConfFacts DEF Types
  <2>2. cur' \in 1..conf.files /\ cur' > cur BY <1>6, <2>1, <2>1a
  <2>3. copy'[cur'] = <<>> BY <1>1, <2>2 DEF Flow
  <2>4. Len(copy'[cur']) = 0 BY <2>3
  <2>5. lo'.from = 0 /\ lo'.src = 0 /\ lo'.written = 0 /\ lo'.overstated = FALSE
    BY <2>1 DEF NewLocals
  <2>6. tm.kind \in {"none", "extents", "zeros", "stream"} BY DEF Types, Tmpl
  <2>7. Entry[tm.kind] = IF tm.kind = "none" THEN "size" ELSE IF tm.kind = "extents" THEN "seek"
                         ELSE IF tm.kind = "zeros" THEN "zeros" ELSE "read"
    BY <2>6 DEF Entry
  <2>8. Len(Src) \in Nat /\ Len(src) \in Nat BY SrcProps DEF Types
  <2>9. tm.kind = "none" => Rest = 0
    <3> SUFFICES ASSUME tm.kind = "none" PROVE Rest = 0 OBVIOUS
    <3>1. conf.kind = "none" BY <1>1 DEF Flow
    <3>2. conf.content = <<>> /\ conf.at <= Len(conf.content) /\ conf.at \in Nat
      BY <3>1, ConfFacts
    <3> QED BY <3>2 DEF Rest
  <2>10. tm.kind = "stream" => spos <= Len(src)
    <3> SUFFICES ASSUME tm.kind = "stream" PROVE spos <= Len(src) OBVIOUS
    <3>1. conf.files = 1 /\ (cur = 0 => spos = conf.at) BY DEF Bytes, Streaming
    <3>2. spos = conf.at BY <1>6, <2>1a, <3>1
    <3> QED BY <1>3, <3>2, ConfFacts DEF Exact
  <2>11. SizeKnown' BY <1>1, <1>4, <2>1, <2>6, <2>7, <2>10 DEF Lengths, SizeKnown
  <2>12. ExtentLengths'
    <3>1. pc' \in {"size", "seek", "zeros", "read"} BY <2>1, <2>6, <2>7
    <3>2. Len(copy'[cur']) <= Len(Src') /\ Len(copy'[cur']) = lo'.written
          /\ lo'.from = lo'.written /\ ~lo'.overstated
      BY <1>4, <2>4, <2>5, <2>8
    <3> QED BY <3>1, <3>2 DEF ExtentLengths
  <2>13. OtherLengths'
    BY <1>1, <1>4, <2>1, <2>4, <2>5, <2>6, <2>7, <2>8, <2>9 DEF OtherLengths
  <2> QED BY <1>2, <1>3, <2>11, <2>12, <2>13 DEF Lengths
<1> QED BY <1>5, <1>6

(* The read of copy_stream() keeps the sizes right.                        *)
LEMMA ReadLen == ASSUME Sound, Lengths, changes = 0, StreamRead PROVE Lengths'
<1> USE DEF Sound
<1>1. pc = "read" /\ UNCHANGED <<conf, source, spool, copy, res, cur, faults>>
  BY DEF StreamRead
<1>2. DoneLengths' BY <1>1, DoneSame DEF Lengths
<1>3. Exact' /\ Exact BY <1>1, ExactSame DEF Lengths
<1> DEFINE n == Least(Buf, Len(src) - spos)
<1>4. spos \in Nat /\ Len(src) \in Nat /\ lo.fpos \in Nat /\ conf.at \in Nat
  BY ConfFacts DEF Types, Locals
<1>5. n \in Int /\ n <= Len(src) - spos /\ (n <= 0 => Len(src) <= spos)
  BY <1>4, ConfFacts DEF Least
<1>6. spos <= Len(src) /\ spos = conf.at + lo.fpos
  BY <1>1 DEF Lengths, SizeKnown, Bytes, Streaming
<1>7. Rest = Len(src) - conf.at /\ Rest' = Rest BY <1>1, <1>3, RestProps DEF Rest
<1>8. n <= 0 => lo.fpos = Rest /\ spos = Len(src) BY <1>4, <1>5, <1>6, <1>7
<1>9. ASSUME n > 0, NEW k \in 1..n,
             spos' = spos + k, pc' = "write", UNCHANGED tm
      PROVE  Lengths'
  <2>1. spos' <= Len(src) BY <1>4, <1>5, <1>9
  <2>2. Stated' = Stated BY <1>1, <1>9, SrcSame
  <2>3. SizeKnown' BY <1>1, <1>7, <1>9, <2>1, <2>2 DEF Lengths, SizeKnown
  <2> QED BY <1>2, <1>3, <1>9, <2>3 DEF Lengths, ExtentLengths, OtherLengths
<1>10. CASE /\ n <= 0 /\ UNCHANGED <<spos, lo>> /\ cur = 0 /\ pc' = "next"
            /\ tm' = [tm EXCEPT !.kind = "extents", !.size = Len(spool), !.spooled = TRUE]
  <2>1. tm'.spooled = TRUE BY <1>10 DEF Types, Tmpl
  <2>2. Len(spool) = Rest BY <1>1, <1>8, <1>10 DEF Bytes, Streaming
  <2>3. SizeKnown' BY <1>1, <1>7, <1>10, <2>1, <2>2 DEF SizeKnown
  <2> QED BY <1>2, <1>3, <1>10, <2>3 DEF Lengths, ExtentLengths, OtherLengths
<1>11. CASE n <= 0 /\ UNCHANGED <<spos, lo, tm>> /\ cur # 0 /\ pc' = "size"
  <2>1. cur > 0 BY <1>11, ConfFacts DEF Types
  <2>2. Len(copy[cur]) = Rest BY <1>1, <1>8, <1>11, <2>1 DEF Bytes, Streaming
  <2>3. Stated' = Stated BY <1>1, <1>11, SrcSame
  <2>4. SizeKnown' BY <1>1, <1>7, <1>11, <2>3 DEF Lengths, SizeKnown
  <2>5. OtherLengths' BY <1>1, <1>7, <1>11, <2>2 DEF OtherLengths
  <2> QED BY <1>2, <1>3, <1>11, <2>4, <2>5 DEF Lengths, ExtentLengths
<1> QED BY <1>9, <1>10, <1>11 DEF StreamRead, Spooling

(* io_write() keeps the sizes right.                                       *)
LEMMA WriteLen == ASSUME Sound, Lengths, changes = 0, io_write PROVE Lengths'
<1> USE DEF Sound
<1>1. pc = "write" /\ UNCHANGED <<conf, source, spos, tm, res, cur, faults>>
      /\ pc' \in {"read", "write"}
  BY DEF io_write
<1>2. \/ UNCHANGED copy /\ cur = 0
      \/ cur # 0 /\ UNCHANGED spool /\ \E x : copy' = [copy EXCEPT ![cur] = x]
  BY DEF io_write, Spooling
<1>3. cur # 0 => cur > 0 BY ConfFacts DEF Types
<1>4. \A i \in 1..conf.files : copy'[i] = copy[i] \/ (i = cur /\ cur > 0 /\ pc \in Working)
  BY <1>1, <1>2, <1>3, CopyAt
<1>5. DoneLengths' BY <1>1, <1>4, DoneSame DEF Lengths
<1>6. Exact' BY <1>1, ExactSame DEF Lengths
<1>7. SizeKnown'
  <2>1. tm.kind \notin {"extents", "zeros"} /\ ~tm.spooled
    BY <1>1, <1>3 DEF Flow, Unread
  <2>2. spos <= Len(src) BY <1>1 DEF Lengths, SizeKnown
  <2> QED BY <1>1, <2>1, <2>2 DEF SizeKnown
<1> QED BY <1>1, <1>5, <1>6, <1>7 DEF Lengths, ExtentLengths, OtherLengths

(* Steps of a copy by extents or by blocks leave what is known of the      *)
(* template alone.                                                         *)
LEMMA KnownSame ==
    ASSUME Sound, Lengths, changes = 0, UNCHANGED <<conf, source, tm, spool, res, cur>>,
           pc \in Working, cur > 0, pc' \notin Early \cup {"read", "write"},
           copy' = copy \/ \E x : copy' = [copy EXCEPT ![cur] = x]
    PROVE  /\ DoneLengths' /\ Exact' /\ SizeKnown'
           /\ Src' = Src /\ Stated' = Stated /\ Layout' = Layout /\ Rest' = Rest
<1> USE DEF Sound
<1>1. \A i \in 1..conf.files : copy'[i] = copy[i] \/ (i = cur /\ cur > 0 /\ pc \in Working)
  BY CopyAt
<1>2. DoneLengths' BY <1>1, DoneSame DEF Lengths
<1>3. Exact' BY ExactSame DEF Lengths
<1>4. Src' = Src /\ Stated' = Stated /\ Layout' = Layout BY SrcSame
<1>5. Rest' = Rest BY DEF Rest
<1>6. SizeKnown' BY <1>4, <1>5 DEF Lengths, SizeKnown
<1> QED BY <1>2, <1>3, <1>4, <1>5, <1>6

(* The size that tmpl_open() found is what the file that is copied states. *)
LEMMA SizeStated ==
    ASSUME Sound, Lengths, changes = 0, tm.kind \in {"extents", "zeros"}
    PROVE  /\ tm.size = Stated /\ Len(Src) = Rest
           /\ ~tm.spooled => Src = src /\ Len(src) = Rest
<1> USE DEF Sound
<1>1. CASE tm.spooled
  <2>1. Src = spool /\ tm.size = Len(spool) BY <1>1 DEF Src, Flow
  <2>2. Stated = Len(Src) BY <1>1, SrcProps
  <2> QED BY <1>1, <2>1, <2>2 DEF Lengths, SizeKnown
<1>2. CASE ~tm.spooled
  <2>1. Src = src /\ conf.at = 0 BY <1>2 DEF Src, Flow
  <2>2. Rest = Len(src) BY <2>1, RestProps DEF Lengths
  <2> QED BY <1>2, <2>1, <2>2 DEF Lengths, SizeKnown
<1> QED BY <1>1, <1>2

(* hole_next_data() keeps the sizes right.                                 *)
LEMMA SeekDataLen == ASSUME Sound, Lengths, changes = 0, SeekData PROVE Lengths'
<1> USE DEF Sound
<1>1. pc = "seek" /\ UNCHANGED <<conf, source, tm, spool, copy, res, cur, faults>>
      /\ pc' \in {"trunc", "cfr", "hole"}
  BY DEF SeekData
<1>2. cur > 0 /\ tm.kind = "extents" BY <1>1 DEF Flow
<1>3. /\ DoneLengths' /\ Exact' /\ SizeKnown'
      /\ Src' = Src /\ Stated' = Stated /\ Layout' = Layout /\ Rest' = Rest
  BY <1>1, <1>2, KnownSame
<1>4. tm.size = Stated BY <1>2, SizeStated
<1> DEFINE have == Len(copy[cur])
           d == NextData(lo.from)
<1>5. have \in Nat /\ lo.from \in Nat /\ lo.written \in Nat /\ tm.size \in Nat
      /\ lo.overstated \in BOOLEAN
  BY <1>2, CurProps DEF Types, Locals, Tmpl
<1>6. /\ have <= Len(Src) /\ have = lo.written
      /\ ~lo.overstated => lo.from = lo.written
      /\ lo.overstated => have = Len(Src)
  BY <1>1 DEF Lengths, ExtentLengths
<1>7. Len(Src) \in Nat /\ Stated \in Nat /\ Len(Src) <= Stated BY SrcProps
<1>8. CASE lo.overstated \/ lo.from >= tm.size
  <2>1. pc' = "trunc" /\ UNCHANGED <<lo, spos>> BY <1>8 DEF SeekData
  <2>2. ~lo.overstated => ~(lo.written < tm.size) BY <1>5, <1>6, <1>8
  <2>3. ExtentLengths' BY <1>1, <1>3, <1>6, <2>1, <2>2 DEF ExtentLengths
  <2> QED BY <1>3, <2>1, <2>3 DEF Lengths, OtherLengths
<1>9. CASE ~(lo.overstated \/ lo.from >= tm.size) /\ Layout = "unknown"
  <2>1. pc' = "cfr" /\ lo' = [lo EXCEPT !.src = lo.from, !.dst = lo.from, !.end = tm.size]
    BY <1>9 DEF SeekData, ExtentAt
  <2>2. lo'.src = lo.from /\ lo'.dst = lo.from /\ lo'.end = tm.size
    BY <2>1 DEF Types, Locals
  <2>3. Ahead' = lo.from BY <2>1, <2>2 DEF Ahead
  <2>4. have = lo.from /\ lo.from <= tm.size BY <1>5, <1>6, <1>9
  <2>5. ExtentLengths' BY <1>1, <1>3, <1>5, <1>6, <2>1, <2>2, <2>3, <2>4 DEF ExtentLengths
  <2> QED BY <1>3, <2>1, <2>5 DEF Lengths, OtherLengths
<1>10. CASE ~(lo.overstated \/ lo.from >= tm.size) /\ Layout # "unknown"
  <2>1. lo.from \in lo.from..(Stated - 1) BY <1>4, <1>5, <1>7, <1>10
  <2>2. Stated # Len(Src) => d = lo.from
    <3> SUFFICES ASSUME Stated # Len(Src) PROVE d = lo.from OBVIOUS
    <3>1. conf.kind = "overstated" /\ ~tm.spooled BY SrcProps
    <3>2. Layout = "hidden" BY <1>10, <3>1, ConfFacts DEF Layout
    <3>3. ~(d = -1 \/ lo.from < d) BY <1>5, <2>1, <3>2, DataProps
    <3>4. d = -1 \/ d \in lo.from..(Stated - 1) BY <1>5, DataProps
    <3> QED BY <1>5, <1>7, <3>3, <3>4
  <2>3. CASE d = -1
    <3>1. pc' = "trunc" /\ UNCHANGED <<lo, spos>> BY <1>10, <2>3 DEF SeekData
    <3>2. Stated = Len(Src) BY <1>5, <2>2, <2>3
    <3>3. ExtentLengths' BY <1>1, <1>3, <1>6, <3>1, <3>2 DEF ExtentLengths
    <3> QED BY <1>3, <3>1, <3>3 DEF Lengths, OtherLengths
  <2>4. CASE d # -1
    <3>1. pc' = "hole" /\ lo' = [lo EXCEPT !.src = d, !.dst = d, !.end = tm.size]
      BY <1>10, <2>4 DEF SeekData, ExtentAt
    <3>2. d \in lo.from..(Stated - 1) BY <1>5, <2>4, DataProps
    <3>3. Layout = "hidden" \/ d >= Len(Src) \/ Src[d + 1] # Gap BY <1>5, <2>4, DataProps
    <3>4. Stated # Len(Src) => d = lo.from BY <2>2
    <3> HIDE DEF d
    <3>5. d \in Nat /\ d >= lo.from /\ d < tm.size BY <1>4, <1>5, <1>7, <3>2
    <3>6. lo'.src = d /\ lo'.dst = d /\ lo'.end = tm.size BY <3>1 DEF Types, Locals
    <3>7. Ahead' = d BY <3>1, <3>6 DEF Ahead
    <3>8. have <= d /\ (have = d \/ Stated = Len(Src)) BY <1>5, <1>6, <1>10, <3>4, <3>5
    <3>9. Layout = "known" /\ d < Len(Src) => Src[d + 1] # Gap BY <1>7, <3>3, <3>5
    <3>10. d <= tm.size /\ tm.size <= tm.size BY <1>5, <3>5
    <3>11. ExtentLengths'
      BY <1>1, <1>3, <1>6, <3>1, <3>5, <3>6, <3>7, <3>8, <3>9, <3>10 DEF ExtentLengths
    <3> QED BY <1>3, <3>1, <3>11 DEF Lengths, OtherLengths
  <2> QED BY <2>3, <2>4
<1> QED BY <1>8, <1>9, <1>10

(* A write past the end of the file makes its size.                        *)
LEMMA PutLen ==
    ASSUME Types, cur > 0, NEW off \in Nat, NEW new \in Seq(Nat), Len(copy[cur]) <= off,
           copy' = [copy EXCEPT ![cur] = Put(copy[cur], off, new)]
    PROVE  Len(copy'[cur]) = off + Len(new)
<1> DEFINE s == copy[cur]
           x == Put(s, off, new)
<1>1. s \in Seq(Nat) /\ Len(s) \in Nat /\ Len(new) \in Nat BY CurProps
<1>2. copy'[cur] = x BY CopyAt
<1>3. Len(x) = IF off + Len(new) > Len(s) THEN off + Len(new) ELSE Len(s)
  <2> HIDE DEF s
  <2> QED BY <1>1, PutProps
<1>4. Len(s) <= off OBVIOUS
<1> DEFINE l == Len(s)
           m == Len(new)
           y == Len(x)
<1>5. /\ l \in Nat /\ m \in Nat /\ l <= off
      /\ y = IF off + m > l THEN off + m ELSE l
  BY <1>1, <1>3, <1>4
<1> HIDE DEF s, x, l, m, y
<1>6. y = off + m BY <1>5
<1> QED BY <1>2, <1>6 DEF y, m

(* ftruncate makes the size of the file.                                   *)
LEMMA ResizeLen ==
    ASSUME Types, cur > 0, NEW n \in Nat, copy' = [copy EXCEPT ![cur] = Resize(copy[cur],
             n)]
    PROVE  Len(copy'[cur]) = n
<1>1. copy[cur] \in Seq(Nat) BY CurProps
<1>2. copy'[cur] = Resize(copy[cur], n) BY CopyAt
<1> QED BY <1>1, <1>2, ResizeProps

(* lseek(SEEK_HOLE) keeps the sizes right.                                 *)
LEMMA SeekHoleLen == ASSUME Sound, Lengths, changes = 0, SeekHole PROVE Lengths'
<1> USE DEF Sound
<1>1. pc = "hole" /\ pc' = "cfr" /\ UNCHANGED <<conf, source, tm, spool, copy, res, cur>>
  BY DEF SeekHole
<1>2. cur > 0 /\ tm.kind = "extents" BY <1>1 DEF Flow
<1>3. /\ DoneLengths' /\ Exact' /\ SizeKnown'
      /\ Src' = Src /\ Stated' = Stated /\ Layout' = Layout /\ Rest' = Rest
  BY <1>1, <1>2, KnownSame
<1>4. tm.size = Stated BY <1>2, SizeStated
<1>5. lo.src \in Nat /\ lo.dst \in Nat /\ lo.end \in Nat /\ tm.size \in Nat
        /\ Len(copy[cur]) \in Nat
  BY <1>2, CurProps DEF Types, Locals, Tmpl
<1>6. /\ lo.src = lo.dst /\ lo.src < lo.end /\ lo.end <= tm.size /\ Len(copy[cur]) <= lo.dst
      /\ Len(copy[cur]) = lo.dst \/ Stated = Len(Src)
      /\ Layout = "known" /\ lo.src < Len(Src) => Src[lo.src + 1] # Gap
      /\ Len(copy[cur]) <= Len(Src)
  BY <1>1 DEF Lengths, ExtentLengths, Ahead, Bytes, Copying
<1>7. /\ lo'.src = lo.src /\ lo'.dst = lo.dst
      /\ lo'.end = lo.end \/ (lo.src < Stated /\ lo'.end = Least(NextGap(lo.src), tm.size))
  BY DEF SeekHole, Types, Locals
<1>8. lo.src < lo'.end /\ lo'.end <= tm.size
  <2>1. CASE lo'.end = lo.end BY <1>6, <2>1
  <2>2. CASE lo.src < Stated /\ lo'.end = Least(NextGap(lo.src), tm.size)
    <3> DEFINE g == NextGap(lo.src)
    <3>1. /\ g \in lo.src..Stated /\ g \in Nat
          /\ g # Stated => Layout = "known" /\ g < Len(Src) /\ Src[g + 1] = Gap
      BY <1>5, <2>2, GapProps
    <3> HIDE DEF g
    <3>2. g # lo.src BY <1>6, <2>2, <3>1, <1>5
    <3>3. Stated \in Nat BY SrcProps
    <3>4. g > lo.src BY <1>5, <3>1, <3>2, <3>3
    <3>5. lo'.end = IF g < tm.size THEN g ELSE tm.size BY <2>2 DEF Least, g
    <3> QED BY <1>4, <1>5, <1>6, <2>2, <3>1, <3>4, <3>5
  <2> QED BY <1>7, <2>1, <2>2
<1>9. Ahead' = lo.dst BY <1>1, <1>7 DEF Ahead
<1>9a. lo.dst <= lo'.end
  <2>1. lo'.end \in Nat
    <3>1. Types' BY SeekHoleFlow
    <3> QED BY <3>1 DEF Types, Locals
  <2> QED BY <1>5, <1>6, <1>8, <2>1
<1>10. ExtentLengths' BY <1>1, <1>3, <1>6, <1>7, <1>8, <1>9, <1>9a DEF ExtentLengths
<1> QED BY <1>1, <1>3, <1>10 DEF Lengths, OtherLengths

(* fast_copy() and fast_sendfile() move both offsets by what they copied.  *)
LEMMA MovedLen ==
    ASSUME Sound, Lengths, changes = 0, pc \in {"cfr", "sendfile"}, pc' = pc,
           UNCHANGED <<conf, source, tm, spool, res, cur>>,
           NEW k \in Nat \ {0}, lo.src + k <= lo.end, lo.src + k <= Len(Src),
           NEW b \in Seq(Nat), Len(b) = k,
           copy' = [copy EXCEPT ![cur] = Put(copy[cur], lo.dst, b)],
           lo'.src = lo.src + k, lo'.dst = lo.dst + k, lo'.end = lo.end
    PROVE  Lengths'
<1> USE DEF Sound
<1>1. cur > 0 /\ tm.kind = "extents" BY DEF Flow
<1>2. /\ DoneLengths' /\ Exact' /\ SizeKnown'
      /\ Src' = Src /\ Stated' = Stated /\ Layout' = Layout /\ Rest' = Rest
  BY <1>1, KnownSame
<1>3. lo.src \in Nat /\ lo.dst \in Nat /\ lo.end \in Nat /\ tm.size \in Nat
        /\ Len(Src) \in Nat
  BY SrcProps DEF Types, Locals, Tmpl
<1>4. lo.src = lo.dst /\ lo.end <= tm.size /\ Len(copy[cur]) <= lo.dst
  BY DEF Lengths, ExtentLengths, Ahead, Bytes, Copying
<1>5. Len(copy'[cur]) = lo.dst + k BY <1>1, <1>3, <1>4, PutLen
<1>6. Ahead' = lo.dst + k BY DEF Ahead
<1>7. lo.dst + k <= lo.end /\ lo.dst + k <= Len(Src) /\ lo.dst + k <= lo.dst + k
  BY <1>3, <1>4
<1>8. ExtentLengths' BY <1>2, <1>4, <1>5, <1>6, <1>7 DEF ExtentLengths
<1> QED BY <1>2, <1>8 DEF Lengths, OtherLengths

(* fast_copy() keeps the sizes right.                                      *)
LEMMA CopyLen == ASSUME Sound, Lengths, changes = 0, fast_copy PROVE Lengths'
<1> USE DEF Sound
<1>1. pc = "cfr" /\ UNCHANGED <<conf, source, spos, tm, spool, res, cur, faults>>
  BY DEF fast_copy
<1>2. cur > 0 /\ tm.kind = "extents" BY <1>1 DEF Flow
<1> DEFINE n == Least(lo.end - lo.src, Len(Src) - lo.src)
<1>3. lo.src \in Nat /\ lo.end \in Nat /\ lo.dst \in Nat /\ Len(Src) \in Nat
  BY SrcProps DEF Types, Locals
<1>4. n \in Int /\ n <= Len(Src) - lo.src /\ n <= lo.end - lo.src BY <1>3 DEF Least
<1>5. CASE UNCHANGED <<lo, copy>> /\ pc' \in {"pread", "lseek"}
  <2>1. /\ DoneLengths' /\ Exact' /\ SizeKnown'
        /\ Src' = Src /\ Stated' = Stated /\ Layout' = Layout /\ Rest' = Rest
    BY <1>1, <1>2, <1>5, KnownSame
  <2>2. Ahead' = Ahead BY <1>1, <1>5 DEF Ahead
  <2>3. ExtentLengths' BY <1>1, <1>5, <2>1, <2>2 DEF Lengths, ExtentLengths
  <2> QED BY <1>5, <2>1, <2>3 DEF Lengths, OtherLengths
<1>6. ASSUME NEW k \in 1..n, NEW keep \in BOOLEAN,
             copy' = [copy EXCEPT ![cur] = Put(copy[cur], lo.dst, Blocks(lo.src, k, keep))],
             lo' = [lo EXCEPT !.src = lo.src + k, !.dst = lo.dst + k], UNCHANGED pc
      PROVE  Lengths'
  <2> DEFINE b == Blocks(lo.src, k, keep)
  <2>1. k \in Nat \ {0} /\ lo.src + k <= Len(Src) /\ lo.src + k <= lo.end BY <1>3, <1>4
  <2>2. b \in Seq(Nat) /\ Len(b) = k BY <1>3, <2>1, BlocksProps
  <2>3. copy' = [copy EXCEPT ![cur] = Put(copy[cur], lo.dst, b)] BY <1>6
  <2>4. lo'.src = lo.src + k /\ lo'.dst = lo.dst + k /\ lo'.end = lo.end
    BY <1>6 DEF Types, Locals
  <2> HIDE DEF b, n
  <2> QED BY <1>1, <1>6, <2>1, <2>2, <2>3, <2>4, MovedLen
<1> QED BY <1>5, <1>6 DEF fast_copy

(* The lseek of fast_sendfile() keeps the sizes right.                     *)
LEMMA SendSeekLen == ASSUME Sound, Lengths, changes = 0, SendSeek PROVE Lengths'
<1> USE DEF Sound
<1>1. pc = "lseek" /\ UNCHANGED <<conf, source, spos, tm, spool, copy, res, cur>>
      /\ pc' \in {"sendfile", "pread"}
  BY DEF SendSeek
<1>2. cur > 0 /\ tm.kind = "extents" BY <1>1 DEF Flow
<1>3. lo'.src = lo.src /\ lo'.dst = lo.dst /\ lo'.end = lo.end
  BY DEF SendSeek, Types, Locals
<1>4. /\ DoneLengths' /\ Exact' /\ SizeKnown'
      /\ Src' = Src /\ Stated' = Stated /\ Layout' = Layout /\ Rest' = Rest
  BY <1>1, <1>2, KnownSame
<1>5. Ahead' = Ahead BY <1>1, <1>3 DEF Ahead
<1>6. ExtentLengths' BY <1>1, <1>3, <1>4, <1>5 DEF Lengths, ExtentLengths
<1> QED BY <1>1, <1>4, <1>6 DEF Lengths, OtherLengths

(* fast_sendfile() keeps the sizes right.                                  *)
LEMMA SendLen == ASSUME Sound, Lengths, changes = 0, fast_sendfile PROVE Lengths'
<1> USE DEF Sound
<1>1. pc = "sendfile" /\ UNCHANGED <<conf, source, spos, tm, spool, res, cur, faults>>
  BY DEF fast_sendfile
<1>2. cur > 0 /\ tm.kind = "extents" BY <1>1 DEF Flow
<1> DEFINE n == Least(lo.end - lo.src, Len(Src) - lo.src)
<1>3. lo.src \in Nat /\ lo.end \in Nat /\ lo.dst \in Nat /\ Len(Src) \in Nat
  BY SrcProps DEF Types, Locals
<1>4. n \in Int /\ n <= Len(Src) - lo.src /\ n <= lo.end - lo.src BY <1>3 DEF Least
<1>5. CASE UNCHANGED <<lo, copy>> /\ pc' = "pread"
  <2>1. /\ DoneLengths' /\ Exact' /\ SizeKnown'
        /\ Src' = Src /\ Stated' = Stated /\ Layout' = Layout /\ Rest' = Rest
    BY <1>1, <1>2, <1>5, KnownSame
  <2>2. Ahead' = Ahead BY <1>1, <1>5 DEF Ahead
  <2>3. ExtentLengths' BY <1>1, <1>5, <2>1, <2>2 DEF Lengths, ExtentLengths
  <2> QED BY <1>5, <2>1, <2>3 DEF Lengths, OtherLengths
<1>6. ASSUME NEW k \in 1..n, UNCHANGED pc,
             copy' = [copy EXCEPT ![cur] = Put(copy[cur], lo.fpos, Blocks(lo.src, k,
               FALSE))],
             lo' = [lo EXCEPT !.src = lo.src + k, !.dst = lo.dst + k, !.fpos = lo.fpos + k]
      PROVE  Lengths'
  <2> DEFINE b == Blocks(lo.src, k, FALSE)
  <2>1. k \in Nat \ {0} /\ lo.src + k <= Len(Src) /\ lo.src + k <= lo.end BY <1>3, <1>4
  <2>2. b \in Seq(Nat) /\ Len(b) = k BY <1>3, <2>1, BlocksProps
  <2>2a. lo.fpos = lo.dst BY <1>1 DEF Bytes, Copying
  <2>3. copy' = [copy EXCEPT ![cur] = Put(copy[cur], lo.dst, b)] BY <1>6, <2>2a
  <2>4. lo'.src = lo.src + k /\ lo'.dst = lo.dst + k /\ lo'.end = lo.end
    BY <1>6 DEF Types, Locals
  <2> HIDE DEF b, n
  <2> QED BY <1>1, <1>6, <2>1, <2>2, <2>3, <2>4, MovedLen
<1> QED BY <1>5, <1>6 DEF fast_sendfile

(* copy_slow() keeps the sizes right.                                      *)
LEMMA SlowLen == ASSUME Sound, Lengths, changes = 0, copy_slow PROVE Lengths'
<1> USE DEF Sound
<1>1. pc = "pread" /\ UNCHANGED <<conf, source, spos, tm, spool, copy, res, cur, faults>>
      /\ pc' \in {"seek", "pwrite"}
  BY DEF copy_slow
<1>2. cur > 0 /\ tm.kind = "extents" BY <1>1 DEF Flow
<1>3. /\ DoneLengths' /\ Exact' /\ SizeKnown'
      /\ Src' = Src /\ Stated' = Stated /\ Layout' = Layout /\ Rest' = Rest
  BY <1>1, <1>2, KnownSame
<1> DEFINE have == Len(copy[cur])
           len == Len(Src)
           m == Least(lo.end - lo.src, len - lo.src)
           n == Least(Buf, m)
<1>4. /\ lo.src \in Nat /\ lo.dst \in Nat /\ lo.end \in Nat /\ tm.size \in Nat
      /\ have \in Nat /\ len \in Nat /\ Buf \in Nat \ {0} /\ lo \in Locals
  BY <1>2, CurProps, SrcProps, ConfFacts DEF Types, Locals, Tmpl
<1>5. tm.size = Stated BY <1>2, SizeStated
<1>6. /\ have <= len /\ lo.dst <= lo.end /\ lo.end <= tm.size /\ have <= lo.dst
      /\ have = lo.dst \/ (lo.src < lo.end /\ Stated = len)
      /\ lo.src = lo.dst /\ ~lo.overstated
  BY <1>1 DEF Lengths, ExtentLengths, Ahead, Bytes, Copying
<1>7. /\ \/ /\ lo.src >= lo.end /\ pc' = "seek"
            /\ lo' = [lo EXCEPT !.written = lo.dst, !.from = lo.end]
         \/ /\ lo.src < lo.end /\ pc' = "pwrite"
            /\ \E k \in 1..n :
                 lo' = [lo EXCEPT !.buf = View(SubSeq(Src, lo.src + 1, lo.src + k)),
                                  !.done = 0]
         \/ /\ lo.src < lo.end /\ n <= 0 /\ pc' = "seek"
            /\ lo' = [lo EXCEPT !.overstated = TRUE, !.written = lo.dst, !.from = lo.end]
  BY DEF copy_slow
<1>8. Src \in Seq(Nat) BY SrcProps
<1>9. CASE /\ lo.src >= lo.end /\ pc' = "seek"
           /\ lo' = [lo EXCEPT !.written = lo.dst, !.from = lo.end]
  <2>1. lo'.written = lo.dst /\ lo'.from = lo.end /\ lo'.overstated = lo.overstated
    BY <1>4, <1>9 DEF Locals
  <2>2. have = lo.dst /\ lo.end = lo.dst BY <1>4, <1>6, <1>9
  <2>3. ExtentLengths' BY <1>1, <1>3, <1>6, <1>9, <2>1, <2>2 DEF ExtentLengths
  <2> QED BY <1>3, <1>9, <2>3 DEF Lengths, OtherLengths
<1>10. ASSUME NEW k \in 1..n, lo.src < lo.end, pc' = "pwrite",
              lo' = [lo EXCEPT !.buf = View(SubSeq(Src, lo.src + 1, lo.src + k)),
                               !.done = 0]
       PROVE  Lengths'
  <2>1. m \in Int /\ m <= lo.end - lo.src /\ m <= len - lo.src BY <1>4 DEF Least
  <2> HIDE DEF m
  <2>2. n \in Int /\ n <= m BY <1>4, <2>1 DEF Least
  <2> HIDE DEF n
  <2>3. k \in Nat /\ lo.src + k <= lo.end /\ lo.src + k <= Len(Src)
    BY <1>4, <2>1, <2>2
  <2> DEFINE b == View(SubSeq(Src, lo.src + 1, lo.src + k))
  <2>4. Len(b) = k BY <1>4, <1>8, <2>3, PartProps, ViewProps
  <2>5. lo' = [lo EXCEPT !.buf = b, !.done = 0] BY <1>10
  <2> HIDE DEF b
  <2>6. lo'.buf = b /\ lo'.done = 0 /\ lo'.src = lo.src /\ lo'.dst = lo.dst
          /\ lo'.end = lo.end
    BY <1>4, <2>5 DEF Locals
  <2>7. Ahead' = lo.dst BY <1>4, <1>10, <2>6 DEF Ahead
  <2>8. lo.src + Len(b) <= lo.end /\ lo.src + Len(b) <= Len(Src) BY <2>3, <2>4
  <2>9. ExtentLengths'
    BY <1>1, <1>3, <1>6, <1>10, <2>6, <2>7, <2>8 DEF ExtentLengths
  <2> QED BY <1>3, <1>10, <2>9 DEF Lengths, OtherLengths
<1>11. CASE /\ lo.src < lo.end /\ n <= 0 /\ pc' = "seek"
            /\ lo' = [lo EXCEPT !.overstated = TRUE, !.written = lo.dst, !.from = lo.end]
  <2>1. m = lo.end - lo.src \/ m = len - lo.src BY DEF Least
  <2>2. m \in Int BY <1>4, <2>1
  <2> HIDE DEF m
  <2>3. m <= 0 BY <1>4, <1>11, <2>2 DEF Least
  <2>4. len <= lo.src BY <1>4, <1>11, <2>1, <2>3
  <2>5. have = lo.dst /\ have = len BY <1>4, <1>5, <1>6, <2>4
  <2>6. lo'.written = lo.dst /\ lo'.overstated = TRUE BY <1>4, <1>11 DEF Locals
  <2>7. ExtentLengths' BY <1>1, <1>3, <1>6, <1>11, <2>5, <2>6 DEF ExtentLengths
  <2> QED BY <1>3, <1>11, <2>7 DEF Lengths, OtherLengths
<1> QED BY <1>7, <1>9, <1>10, <1>11

(* io_pwrite() keeps the sizes right.                                      *)
LEMMA PwriteLen == ASSUME Sound, Lengths, changes = 0, io_pwrite PROVE Lengths'
<1> USE DEF Sound
<1> DEFINE n == Len(lo.buf)
<1>1. pc = "pwrite" /\ UNCHANGED <<conf, source, spos, tm, spool, res, cur, faults>>
  BY DEF io_pwrite
<1>2. cur > 0 /\ tm.kind = "extents" BY <1>1 DEF Flow
<1>3. PICK k \in 1..(n - lo.done) :
        /\ copy' = [copy EXCEPT ![cur] =
                       Put(copy[cur], lo.dst + lo.done, SubSeq(lo.buf, lo.done + 1,
                         lo.done + k))]
        /\ \/ /\ lo.done + k = n /\ pc' = "pread"
              /\ lo' = [lo EXCEPT !.src = lo.src + n, !.dst = lo.dst + n]
           \/ /\ lo.done + k # n /\ pc' = "pwrite" /\ lo' = [lo EXCEPT !.done = lo.done + k]
  BY <1>1 DEF io_pwrite
<1>4. /\ lo.src \in Nat /\ lo.dst \in Nat /\ lo.end \in Nat /\ lo.done \in Nat /\ n \in Nat
      /\ lo.buf \in Seq(Nat) /\ lo \in Locals /\ tm.size \in Nat /\ Len(Src) \in Nat
      /\ Len(copy[cur]) \in Nat
  <2>1. lo \in Locals /\ lo.buf \in Seq(Nat) /\ tm \in Tmpl BY DEF Types, Locals
  <2>2. n \in Nat BY <2>1
  <2>3. lo.src \in Nat /\ lo.dst \in Nat /\ lo.end \in Nat /\ lo.done \in Nat
    BY <2>1 DEF Locals
  <2>4. tm.size \in Nat /\ Len(Src) \in Nat BY <2>1, SrcProps DEF Tmpl
  <2>5. Len(copy[cur]) \in Nat BY <1>2, CurProps
  <2> QED BY <2>1, <2>2, <2>3, <2>4, <2>5
<1>5. tm.size = Stated BY <1>2, SizeStated
<1>6. /\ lo.dst <= lo.end /\ lo.end <= tm.size /\ Len(copy[cur]) <= lo.dst + lo.done
      /\ lo.src + n <= lo.end /\ lo.src = lo.dst /\ lo.src + n <= Len(Src)
      /\ Len(copy[cur]) = lo.dst + lo.done \/ Stated = Len(Src)
  BY <1>1 DEF Lengths, ExtentLengths, Ahead, Bytes, Copying
<1>7. k \in Nat \ {0} /\ lo.done + k <= n BY <1>4
<1> DEFINE b == SubSeq(lo.buf, lo.done + 1, lo.done + k)
           o == lo.dst + lo.done
           h == Len(copy[cur])
           g == Len(copy'[cur])
<1>8. b \in Seq(Nat) /\ Len(b) = k BY <1>4, <1>7, PartProps
<1>9. o \in Nat /\ h <= o BY <1>4, <1>6
<1>10. g = o + k
  <2>1. copy' = [copy EXCEPT ![cur] = Put(copy[cur], o, b)] BY <1>3
  <2> HIDE DEF b, o
  <2>2. Len(copy'[cur]) = o + Len(b) BY <1>2, <1>8, <1>9, <2>1, PutLen
  <2> QED BY <1>8, <2>2
<1>11. /\ g = lo.dst + lo.done + k /\ g \in Nat
       /\ g <= lo.end /\ g <= Len(Src)
  <2> DEFINE l == Len(Src)
             d == lo.dst
             e == lo.end
             f == lo.done
  <2>1. l \in Nat /\ d \in Nat /\ e \in Nat /\ f \in Nat /\ n \in Nat BY <1>4
  <2>2. d + n <= l /\ d + n <= e BY <1>6
  <2>3. g = (d + f) + k BY <1>10
  <2>4. f + k <= n BY <1>7
  <2> HIDE DEF l, d, e, f, n, g
  <2>5. g = d + f + k /\ g \in Nat /\ g <= e /\ g <= l BY <1>7, <2>1, <2>2, <2>3, <2>4
  <2> QED BY <2>5 DEF l, d, e, f
<1>13. /\ DoneLengths' /\ Exact' /\ SizeKnown'
       /\ Src' = Src /\ Stated' = Stated /\ Layout' = Layout /\ Rest' = Rest
  BY <1>1, <1>2, <1>3, KnownSame
<1> HIDE DEF b, o, h
<1>14. CASE /\ lo.done + k = n /\ pc' = "pread"
            /\ lo' = [lo EXCEPT !.src = lo.src + n, !.dst = lo.dst + n]
  <2>1. lo'.src = lo.src + n /\ lo'.dst = lo.dst + n /\ lo'.end = lo.end
    BY <1>4, <1>14 DEF Locals
  <2>2. Ahead' = lo'.dst BY <1>14 DEF Ahead
  <2>3. lo'.dst = g BY <1>4, <1>7, <1>11, <1>14, <2>1
  <2>4. Ahead' = g /\ g <= Ahead' BY <1>11, <2>2, <2>3
  <2>5. ExtentLengths' BY <1>1, <1>6, <1>13, <1>14, <2>1, <2>3, <2>4 DEF ExtentLengths
  <2> QED BY <1>13, <1>14, <2>5 DEF Lengths, OtherLengths
<1>15. CASE lo.done + k # n /\ pc' = "pwrite" /\ lo' = [lo EXCEPT !.done = lo.done + k]
  <2>1. /\ lo'.src = lo.src /\ lo'.dst = lo.dst /\ lo'.end = lo.end /\ lo'.buf = lo.buf
        /\ lo'.done = lo.done + k
    BY <1>4, <1>15 DEF Locals
  <2>2. Ahead' = lo.dst + (lo.done + k) BY <1>15, <2>1 DEF Ahead
  <2>3. Ahead' = g /\ g <= Ahead' BY <1>4, <1>7, <1>11, <2>2
  <2>4. ExtentLengths' BY <1>1, <1>6, <1>11, <1>13, <1>15, <2>1, <2>3 DEF ExtentLengths
  <2> QED BY <1>13, <1>15, <2>4 DEF Lengths, OtherLengths
<1> QED BY <1>3, <1>14, <1>15

(* The last ftruncate of copy_extents() keeps the sizes right.             *)
LEMMA ExtentsEndLen == ASSUME Sound, Lengths, changes = 0, ExtentsEnd PROVE Lengths'
<1> USE DEF Sound
<1>1. pc = "trunc" /\ pc' = "size" /\ UNCHANGED <<conf, source, spos, tm, spool, res, cur,
        lo, faults>>
  BY DEF ExtentsEnd
<1>2. cur > 0 /\ tm.kind = "extents" BY <1>1 DEF Flow
<1>3. copy' = copy \/ copy' = [copy EXCEPT ![cur] = Resize(copy[cur], tm.size)]
  BY DEF ExtentsEnd
<1>4. /\ DoneLengths' /\ Exact' /\ SizeKnown'
      /\ Src' = Src /\ Stated' = Stated /\ Layout' = Layout /\ Rest' = Rest
  BY <1>1, <1>2, <1>3, KnownSame
<1>5. tm.size = Stated /\ Len(Src) = Rest BY <1>2, SizeStated
<1> DEFINE have == Len(copy[cur])
           len == Len(Src)
<1>6. /\ have \in Nat /\ len \in Nat /\ tm.size \in Nat /\ lo.written \in Nat
      /\ len <= tm.size
  BY <1>2, <1>5, CurProps, SrcProps DEF Types, Tmpl, Locals
<1>7. /\ have <= len /\ have = lo.written
      /\ lo.overstated => have = len
      /\ ~lo.overstated /\ lo.written < tm.size => Stated = len
  BY <1>1 DEF Lengths, ExtentLengths
<1>8. Len(copy'[cur]) = Rest
  <2>1. CASE lo.written < tm.size /\ ~lo.overstated
    <3>1. copy' = [copy EXCEPT ![cur] = Resize(copy[cur], tm.size)] BY <2>1 DEF ExtentsEnd
    <3>2. Len(copy'[cur]) = tm.size BY <1>2, <1>6, <3>1, ResizeLen
    <3> QED BY <1>5, <1>7, <2>1, <3>2
  <2>2. CASE ~(lo.written < tm.size /\ ~lo.overstated)
    <3>1. copy' = copy BY <2>2 DEF ExtentsEnd
    <3>2. have = len BY <1>6, <1>7, <2>2
    <3> QED BY <1>1, <1>5, <3>1, <3>2
  <2> QED BY <2>1, <2>2
<1>9. OtherLengths' BY <1>1, <1>4, <1>8 DEF OtherLengths
<1> QED BY <1>1, <1>4, <1>9 DEF Lengths, ExtentLengths

(* The read of copy_zeros() keeps the sizes right.                         *)
LEMMA ZerosLen == ASSUME Sound, Lengths, changes = 0, ZerosRead PROVE Lengths'
<1> USE DEF Sound
<1>1. pc = "zeros" /\ UNCHANGED <<conf, source, spos, tm, spool, res, cur, faults>>
  BY DEF ZerosRead
<1>2. cur > 0 /\ tm.kind = "zeros" /\ ~tm.spooled BY <1>1 DEF Flow
<1>3. Src = src /\ tm.size = Stated /\ Len(src) = Rest BY <1>2, SizeStated
<1> DEFINE len == Len(Src)
           m == Least(tm.size - lo.src, len - lo.src)
           n == Least(Buf, m)
<1>4. /\ lo.src \in Nat /\ tm.size \in Nat /\ len \in Nat /\ Buf \in Nat \ {0}
           /\ lo \in Locals
      /\ len <= tm.size
  BY <1>3, SrcProps, ConfFacts DEF Types, Locals, Tmpl
<1>5. lo.src <= len BY <1>1, <1>3 DEF Lengths, OtherLengths
<1>6. m = len - lo.src BY <1>4 DEF Least
<1>7. Src \in Seq(Nat) BY SrcProps
<1>8. CASE n > 0
  <2>1. PICK k \in 1..n :
          /\ lo' = [lo EXCEPT !.buf = View(SubSeq(Src, lo.src + 1, lo.src + k))]
          /\ pc' = "block" /\ UNCHANGED copy
    BY <1>8 DEF ZerosRead
  <2>2. /\ DoneLengths' /\ Exact' /\ SizeKnown'
        /\ Src' = Src /\ Stated' = Stated /\ Layout' = Layout /\ Rest' = Rest
    BY <1>1, <1>2, <2>1, KnownSame
  <2>3. m \in Int BY <1>4, <1>6
  <2> HIDE DEF m
  <2>4. n \in Int /\ n <= m BY <1>4, <2>3 DEF Least
  <2> HIDE DEF n
  <2>5. k \in Nat /\ lo.src + k <= Len(Src) BY <1>4, <1>6, <2>3, <2>4
  <2> DEFINE b == View(SubSeq(Src, lo.src + 1, lo.src + k))
  <2>6. Len(b) = k BY <1>4, <1>7, <2>5, PartProps, ViewProps
  <2>7. lo' = [lo EXCEPT !.buf = b] BY <2>1
  <2> HIDE DEF b
  <2>8. lo'.buf = b /\ lo'.src = lo.src BY <1>4, <2>7 DEF Locals
  <2>9. lo.src + Len(b) <= Len(src) /\ lo.src <= Len(src) BY <1>3, <1>5, <2>5, <2>6
  <2>10. OtherLengths' BY <1>1, <2>1, <2>8, <2>9 DEF OtherLengths
  <2> QED BY <2>1, <2>2, <2>10 DEF Lengths, ExtentLengths
<1>9. CASE ~(n > 0)
  <2>1. /\ copy' = [copy EXCEPT ![cur] = Resize(copy[cur], lo.src)]
        /\ pc' = "size" /\ UNCHANGED lo
    BY <1>9 DEF ZerosRead
  <2>2. /\ DoneLengths' /\ Exact' /\ SizeKnown' /\ Rest' = Rest
    BY <1>1, <1>2, <2>1, KnownSame
  <2>3. Len(copy'[cur]) = lo.src BY <1>2, <1>4, <2>1, ResizeLen
  <2>4. m \in Int BY <1>4, <1>6
  <2> HIDE DEF m
  <2>5. m <= 0 BY <1>4, <1>9, <2>4 DEF Least
  <2>6. lo.src = len BY <1>4, <1>5, <1>6, <2>5
  <2>7. OtherLengths' BY <1>1, <1>3, <2>1, <2>2, <2>3, <2>6 DEF OtherLengths
  <2> QED BY <2>1, <2>2, <2>7 DEF Lengths, ExtentLengths
<1> QED BY <1>8, <1>9

(* A block of copy_zeros() keeps the sizes right.                          *)
LEMMA BlockLen == ASSUME Sound, Lengths, changes = 0, ZerosBlock PROVE Lengths'
<1> USE DEF Sound
<1>1. pc = "block" /\ UNCHANGED <<conf, source, spos, tm, spool, res, cur, faults>>
      /\ pc' \in {"zeros", "block"} /\ lo' = [lo EXCEPT !.src = lo.src + 1,
           !.buf = Tail(lo.buf)]
  BY DEF ZerosBlock
<1>2. cur > 0 /\ tm.kind = "zeros" BY <1>1 DEF Flow
<1>3. copy' = copy \/ \E x : copy' = [copy EXCEPT ![cur] = x] BY DEF ZerosBlock
<1>4. DoneLengths' /\ Exact' /\ SizeKnown' BY <1>1, <1>2, <1>3, KnownSame
<1> DEFINE t == Tail(lo.buf)
           n == Len(lo.buf)
<1>5. lo.src \in Nat /\ lo.buf \in Seq(Nat) /\ lo \in Locals /\ Len(src) \in Nat
  BY DEF Types, Locals
<1>6. lo.buf # <<>> /\ lo.src + n <= Len(src)
  BY <1>1 DEF Lengths, OtherLengths, Bytes, Zeroing
<1>7. t \in Seq(Nat) /\ Len(t) = n - 1 /\ n \in Nat /\ n >= 1 BY <1>5, <1>6
<1>8. lo' = [lo EXCEPT !.src = lo.src + 1, !.buf = t] BY <1>1
<1> HIDE DEF t, n
<1>9. lo'.src = lo.src + 1 /\ lo'.buf = t BY <1>5, <1>8 DEF Locals
<1>10. lo.src + 1 + Len(t) <= Len(src) /\ lo.src + 1 <= Len(src) BY <1>5, <1>6, <1>7
<1>11. OtherLengths' BY <1>1, <1>9, <1>10 DEF OtherLengths
<1> QED BY <1>1, <1>4, <1>11 DEF Lengths, ExtentLengths

(* An operand is done.                                                     *)
LEMMA EndLen ==
    ASSUME Sound, Lengths, changes = 0, UNCHANGED <<conf, source, spos, tm, spool, cur>>,
           pc \in Working, cur > 0, NEW r \in {"ok", "failed"}, Done(r),
           copy' = copy \/ \E x : copy' = [copy EXCEPT ![cur] = x],
           r = "ok" => Len(copy'[cur]) = IF conf.size = NoSize THEN Rest ELSE conf.size
    PROVE  Lengths'
<1> USE DEF Sound
<1>1. \A i \in 1..conf.files : i # cur => copy'[i] = copy[i] BY CopyAt
<1>2. DoneLengths' BY <1>1, DoneNow DEF Lengths
<1>3. Exact' BY ExactSame DEF Lengths
<1>4. pc' = "next" BY DEF Done
<1>5. Stated' = Stated /\ Rest' = Rest BY SrcSame DEF Rest
<1>6. SizeKnown' BY <1>4, <1>5 DEF Lengths, SizeKnown
<1> QED BY <1>2, <1>3, <1>4, <1>6 DEF Lengths, ExtentLengths, OtherLengths

(* apply_size() keeps the sizes right.                                     *)
LEMMA ApplyLen == ASSUME Sound, Lengths, changes = 0, apply_size PROVE Lengths'
<1> USE DEF Sound
<1>1. pc = "size" /\ UNCHANGED <<conf, source, spos, tm, spool, cur, faults>>
  BY DEF apply_size
<1>2. cur > 0 /\ Len(copy[cur]) = Rest BY <1>1 DEF Flow, Lengths, OtherLengths
<1>3. CASE conf.size = NoSize /\ Done("ok") /\ UNCHANGED <<copy, lo>>
  BY <1>1, <1>2, <1>3, EndLen
<1>4. CASE /\ conf.size # NoSize /\ Done("ok")
           /\ copy' = [copy EXCEPT ![cur] = Resize(copy[cur], conf.size)]
  <2>1. conf.size \in Nat BY <1>4, ConfFacts
  <2>2. Len(copy'[cur]) = conf.size BY <1>2, <1>4, <2>1, ResizeLen
  <2> QED BY <1>1, <1>2, <1>4, <2>2, EndLen
<1>5. CASE pc' = "alloc" /\ UNCHANGED <<copy, res>>
  <2>1. DoneLengths' /\ Exact' /\ SizeKnown' BY <1>1, <1>2, <1>5, KnownSame
  <2> QED BY <1>5, <2>1 DEF Lengths, ExtentLengths, OtherLengths
<1> QED BY <1>3, <1>4, <1>5 DEF apply_size

(* fast_alloc() keeps the sizes right.                                     *)
LEMMA AllocLen == ASSUME Sound, Lengths, changes = 0, fast_alloc PROVE Lengths'
<1> USE DEF Sound
<1>1. pc = "alloc" /\ UNCHANGED <<conf, source, spos, tm, spool, cur, lo, faults>>
  BY DEF fast_alloc
<1>2. cur > 0 /\ conf.size # NoSize BY <1>1 DEF Flow
<1>3. lo.dst \in Nat /\ conf.size \in Nat /\ lo.dst <= conf.size
  BY <1>1, <1>2, ConfFacts DEF Types, Locals, Bytes, Growing
<1>4. CASE /\ copy' = [copy EXCEPT ![cur] = Put(copy[cur], lo.dst,
                Zeros(conf.size - lo.dst))]
           /\ Done("ok")
  <2>1. conf.size - lo.dst \in Nat BY <1>3
  <2>2. Len(copy'[cur]) = lo.dst + (conf.size - lo.dst) BY <1>1, <1>2, <1>4, <2>1, GrowStep
  <2>3. Len(copy'[cur]) = conf.size BY <1>3, <2>2
  <2> QED BY <1>1, <1>2, <1>4, <2>3, EndLen
<1>5. CASE pc' = "fill" /\ UNCHANGED <<copy, res>>
  <2>1. DoneLengths' /\ Exact' /\ SizeKnown' BY <1>1, <1>2, <1>5, KnownSame
  <2> QED BY <1>5, <2>1 DEF Lengths, ExtentLengths, OtherLengths
<1> QED BY <1>4, <1>5 DEF fast_alloc

(* io_fill() keeps the sizes right.                                        *)
LEMMA FillLen == ASSUME Sound, Lengths, changes = 0, io_fill PROVE Lengths'
<1> USE DEF Sound
<1>1. pc = "fill" /\ UNCHANGED <<conf, source, spos, tm, spool, cur, faults>> BY DEF io_fill
<1>2. cur > 0 /\ conf.size # NoSize BY <1>1 DEF Flow
<1>3. Len(copy[cur]) = lo.dst BY <1>1 DEF Bytes, Growing
<1>4. CASE lo.dst = conf.size /\ Done("ok") /\ UNCHANGED <<copy, lo>>
  <2>1. copy'[cur] = copy[cur] BY <1>1, <1>4
  <2>2. Len(copy'[cur]) = conf.size BY <1>3, <1>4, <2>1
  <2> QED BY <1>1, <1>2, <1>4, <2>2, EndLen
<1>5. CASE UNCHANGED <<pc, res>> /\ \E x : copy' = [copy EXCEPT ![cur] = x]
  <2>1. DoneLengths' /\ Exact' /\ SizeKnown' BY <1>1, <1>2, <1>5, KnownSame
  <2> QED BY <1>1, <1>5, <2>1 DEF Lengths, ExtentLengths, OtherLengths
<1> QED BY <1>4, <1>5 DEF io_fill

(* A call that fails for good keeps the sizes right.                       *)
LEMMA FailsLen == ASSUME Sound, Lengths, changes = 0, CallFails PROVE Lengths'
<1> USE DEF Sound
<1>1. UNCHANGED <<conf, source, spos, tm, spool, copy, cur, lo>> BY DEF CallFails
<1>2. CASE cur = 0 /\ pc' = "done" /\ UNCHANGED res
  <2>1. DoneLengths' BY <1>1, <1>2, DoneSame DEF Lengths
  <2>2. Exact' BY <1>1, ExactSame DEF Lengths
  <2>3. Stated' = Stated /\ Rest' = Rest BY <1>1, SrcSame DEF Rest
  <2>4. SizeKnown' BY <1>1, <1>2, <2>3 DEF Lengths, SizeKnown
  <2> QED BY <1>2, <2>1, <2>2, <2>4 DEF Lengths, ExtentLengths, OtherLengths
<1>3. CASE cur # 0 /\ Done("failed")
  <2>1. cur > 0 BY <1>3, ConfFacts DEF Types
  <2>2. pc \in Working BY <1>3 DEF CallFails, NoCall, Types, Flow
  <2> QED BY <1>1, <1>3, <2>1, <2>2, EndLen
<1> QED BY <1>2, <1>3 DEF CallFails

(* tmpl_close() keeps the sizes right.                                     *)
LEMMA CloseLen == ASSUME Sound, Lengths, changes = 0, tmpl_close PROVE Lengths'
<1> USE DEF Sound
<1>1. pc = "close" /\ pc' = "done" /\ UNCHANGED <<conf, source, tm, spool, copy, res, cur,
        lo, faults>>
  BY DEF tmpl_close
<1>2. DoneLengths' BY <1>1, DoneSame DEF Lengths
<1>3. Exact' BY <1>1, ExactSame DEF Lengths
<1>4. Stated' = Stated /\ Rest' = Rest BY <1>1, SrcSame DEF Rest
<1>5. SizeKnown' BY <1>1, <1>4 DEF Lengths, SizeKnown
<1> QED BY <1>1, <1>2, <1>3, <1>5 DEF Lengths, ExtentLengths, OtherLengths

(* The files of a run start out empty.                                     *)
LEMMA LengthsInit == Init => Lengths
<1> SUFFICES ASSUME Init PROVE Lengths OBVIOUS
<1>1. Sound BY SoundInit
<1>2. /\ src = conf.content /\ spos = conf.at /\ pc = "open" /\ tm = Unread
      /\ res = [i \in 1..conf.files |-> "none"]
  BY DEF Init, Unread
<1>3. Offsets(conf) = 1..(Len(src) + 2 * MaxChanges + 1) BY <1>2 DEF Offsets
<1>4. held = [k \in Offsets(conf) |-> {IF k <= Len(src) THEN Reads(src[k]) ELSE Nul}]
  BY <1>3 DEF Init
<1>5. Exact BY <1>2, <1>4 DEF Exact
<1>6. spos <= Len(src) BY <1>1, <1>2, ConfFacts DEF Sound
<1>7. SizeKnown BY <1>2, <1>6 DEF SizeKnown, Unread
<1>8. DoneLengths BY <1>2 DEF DoneLengths, Finished
<1> QED BY <1>2, <1>5, <1>7, <1>8 DEF Lengths, ExtentLengths, OtherLengths

(* A template that was changed stays changed.                              *)
LEMMA ChangesStay == ASSUME Types, [Next]_vars, changes' = 0 PROVE changes = 0
  /\ ~OtherChanges
<1>1. changes \in Nat BY ConfFacts DEF Types
<1>2. OtherChanges => changes' = changes + 1 BY DEF OtherChanges, Changed
<1>3. ~OtherChanges BY <1>1, <1>2
<1>4. changes' = changes
  BY <1>3 DEF Next, vars, tmpl_open, FindTail, spool_open, fast_splice, NextOperand,
     StreamRead,
     io_write, SeekData, SeekHole, fast_copy, SendSeek, fast_sendfile, copy_slow, io_pwrite,
     ExtentsEnd, ZerosRead, ZerosBlock, apply_size, fast_alloc, io_fill, CallFails,
       tmpl_close,
     Ended
<1> QED BY <1>3, <1>4

(* Every step keeps the sizes right.                                       *)
LEMMA LengthsStep == Sound /\ Lengths /\ [Next]_vars => Lengths'
<1> SUFFICES ASSUME Sound, Lengths, [Next]_vars, changes' = 0 PROVE Lengths'
  BY DEF Lengths
<1>1. changes = 0 /\ ~OtherChanges BY ChangesStay DEF Sound
<1>2. CASE UNCHANGED vars
  <2>1. UNCHANGED <<conf, src, changes, held, spos, tm, spool, copy, res, pc, cur, lo>>
    BY <1>2 DEF vars
  <2>2. Src' = Src /\ Stated' = Stated /\ Layout' = Layout /\ Rest' = Rest /\ Ahead' = Ahead
    BY <2>1, SrcSame DEF Rest, Ahead
  <2>3. DoneLengths' BY <2>1, <2>2, <1>1 DEF Lengths, DoneLengths, Finished
  <2>4. Exact' BY <2>1, <1>1 DEF Lengths, Exact
  <2>5. SizeKnown' BY <2>1, <2>2, <1>1 DEF Lengths, SizeKnown
  <2>6. ExtentLengths' BY <2>1, <2>2, <1>1 DEF Lengths, ExtentLengths
  <2>7. OtherLengths' BY <2>1, <2>2, <1>1 DEF Lengths, OtherLengths
  <2> QED BY <2>3, <2>4, <2>5, <2>6, <2>7 DEF Lengths
<1> QED BY <1>1, <1>2, OpenLen, TailLen, SpoolLen, SpliceLen, NextLen, ReadLen, WriteLen,
           SeekDataLen, SeekHoleLen, CopyLen, SendSeekLen, SendLen, SlowLen, PwriteLen,
           ExtentsEndLen, ZerosLen, BlockLen, ApplyLen, AllocLen, FillLen, FailsLen,
             CloseLen
     DEF Next, Ended

(* The sizes are right throughout.                                         *)
LEMMA LengthsAlways == Spec => [](Sound /\ Lengths)
  BY SoundInit, SoundStep, LengthsInit, LengthsStep, PTL DEF Spec

(* What a block of a finished file reads as.                               *)
LEMMA BlockRead ==
    ASSUME Sound, Exact, NEW i \in 1..conf.files, NEW k \in 1..Len(copy[i])
    PROVE  Reads(copy[i][k]) = IF conf.at + k <= Len(src) THEN Reads(src[conf.at + k]) ELSE Nul
<1> DEFINE v == copy[i][k]
           o == k + conf.at
<1>1. Fits(conf, held, k, v) BY DEF Sound, Bytes, Fitting, AllFit
<1>2. src = conf.content BY DEF Exact
<1>3. \/ o > Len(src) /\ Reads(v) = Nul
      \/ o \in Offsets(conf) /\ Reads(v) \in held[o]
  BY <1>1, <1>2 DEF Fits
<1>4. o = conf.at + k /\ o \in Nat /\ Len(src) \in Nat
  <2>1. copy[i] \in Seq(Nat) /\ conf.at \in Nat /\ src \in Seq(Nat)
    BY ConfFacts DEF Sound, Types
  <2> QED BY <2>1
<1>5. CASE o > Len(src) /\ Reads(v) = Nul BY <1>4, <1>5
<1>6. CASE o \in Offsets(conf) /\ Reads(v) \in held[o] BY <1>4, <1>6 DEF Exact
<1> QED BY <1>3, <1>5, <1>6

(* Fitting blocks of a template that had one content only, in a file of    *)
(* the right size, are a copy of it.                                       *)
LEMMA LengthsFaithful == Sound /\ Lengths => FaithfulCopy
<1> SUFFICES ASSUME Sound, Lengths, changes = 0, NEW i \in DOMAIN copy, Finished(i)
             PROVE  View(copy[i]) = View(IF conf.size = NoSize THEN Content
                                         ELSE Resize(Content, conf.size))
  BY DEF FaithfulCopy
<1> DEFINE e == IF conf.size = NoSize THEN Content ELSE Resize(Content, conf.size)
           c == copy[i]
<1>1. i \in 1..conf.files /\ c \in Seq(Nat) /\ src \in Seq(Nat) BY DEF Sound, Types
<1>2. Exact /\ DoneLengths BY DEF Lengths
<1>3. /\ Rest \in Nat /\ Rest = Len(src) - conf.at /\ Len(src) \in Nat /\ conf.at \in Nat
  BY <1>2, RestProps DEF Sound
<1>4. /\ Content \in Seq(Nat) /\ Len(Content) = Rest
      /\ \A k \in 1..Rest : Content[k] = src[conf.at + k]
  <2>1. conf.at + Rest = Len(src) BY <1>3
  <2>2. Content = SubSeq(src, conf.at + 1, conf.at + Rest) BY <2>1 DEF Content
  <2>3. conf.at + Rest <= Len(src) BY <1>3, <2>1
  <2> DEFINE o == conf.at
             n == Rest
             t == SubSeq(src, o + 1, o + n)
  <2>4. o \in Nat /\ n \in Nat /\ o + n <= Len(src) BY <1>3, <2>3
  <2> HIDE DEF o, n
  <2>5. t \in Seq(Nat) /\ Len(t) = n /\ \A k \in 1..n : t[k] = src[o + k]
    BY <1>1, <2>4, PartProps
  <2>6. Content = t BY <2>2 DEF o, n
  <2> HIDE DEF t
  <2> QED BY <2>5, <2>6 DEF o, n
<1>5. /\ e \in Seq(Nat) /\ Len(e) = (IF conf.size = NoSize THEN Rest ELSE conf.size)
      /\ \A k \in 1..Len(e) : e[k] = IF k <= Rest THEN src[conf.at + k] ELSE Gap
  <2>1. CASE conf.size = NoSize BY <1>3, <1>4, <2>1
  <2>2. CASE conf.size # NoSize
    <3> DEFINE t == Content
               n == conf.size
    <3>1. n \in Nat /\ e = Resize(t, n) BY <2>2, ConfFacts DEF Sound
    <3> HIDE DEF n, t, e
    <3>2. e \in Seq(Nat) /\ Len(e) = n
          /\ \A k \in 1..n : e[k] = IF k <= Len(t) THEN t[k] ELSE Gap
      BY <1>4, <3>1, ResizeProps DEF t
    <3>3. /\ Len(t) = Rest /\ \A k \in 1..Rest : t[k] = src[conf.at + k] BY <1>4 DEF t
    <3>4. \A k \in 1..n : k <= Rest => k \in 1..Rest BY <1>3, <3>1
    <3>5. \A k \in 1..n : e[k] = IF k <= Rest THEN src[conf.at + k] ELSE Gap
      BY <3>2, <3>3, <3>4
    <3> QED BY <2>2, <3>2, <3>5 DEF n
  <2> QED BY <2>1, <2>2
<1> HIDE DEF e
<1>6. Len(c) = Len(e) BY <1>1, <1>2, <1>5 DEF DoneLengths
<1>7. \A k \in 1..Len(c) : Reads(c[k]) = Reads(e[k])
  <2> SUFFICES ASSUME NEW k \in 1..Len(c) PROVE Reads(c[k]) = Reads(e[k]) OBVIOUS
  <2>1. Reads(c[k]) = IF conf.at + k <= Len(src) THEN Reads(src[conf.at + k]) ELSE Nul
    BY <1>1, <1>2, BlockRead
  <2>2. e[k] = IF k <= Rest THEN src[conf.at + k] ELSE Gap BY <1>5, <1>6
  <2>3. k \in Nat BY <1>1
  <2>4. k <= Rest <=> conf.at + k <= Len(src) BY <1>3, <2>3
  <2>5. Reads(Gap) = Nul BY DEF Reads
  <2> QED BY <2>1, <2>2, <2>4, <2>5
<1> HIDE DEF c
<1>8. View(c) = View(e) BY <1>6, <1>7 DEF View
<1> QED BY <1>8 DEF c, e

(* A file that is copied from a template that nobody changes reads as the  *)
(* template does, cut or extended with zeros to the size that -s gives,    *)
(* for any template, any requested size, any buffer, and however often     *)
(* copy_file_range, sendfile, splice, reads and writes come short or give  *)
(* up.                                                                     *)
THEOREM FaithfulTheorem == Spec => []FaithfulCopy
  BY LengthsAlways, LengthsFaithful, PTL

-----------------------------------------------------------------------------
(* Where standard input is left.                                           *)

(* A file is finished.                                                     *)
Some == \E i \in 1..conf.files : Finished(i)

(* Standard input is at its end once a stream is copied, and tmpl_close()  *)
(* puts it there after a copy by offsets.                                  *)
Input ==
    changes = 0 =>
      /\ cur = 0 => ~Some
      /\ tm.kind = "none" /\ cur > 0 => conf.kind = "none"
      /\ tm.spooled => spos = Len(src)
      /\ tm.kind = "stream" /\ (pc \in Sizing \/ Some) => spos = Len(src)
      /\ pc = "done" /\ conf.stdin /\ tm.kind \in {"extents", "zeros"} =>
           spos = Len(src) \/ conf.kind = "overstated"

(* A step that does not read on from where standard input is.              *)
LEMMA InputKept ==
    ASSUME Sound, Input, changes = 0, UNCHANGED <<conf, source, cur>>,
           tm'.kind = tm.kind, tm'.spooled = tm.spooled, pc' # "done",
           spos' = spos \/ (~tm.spooled /\ tm.kind # "stream"),
           pc' \in Sizing => pc \in Sizing \/ tm.kind # "stream",
           \A i \in 1..conf.files : Finished(i)' => Finished(i) \/ (cur > 0
             /\ pc \in Sizing)
    PROVE  Input'
<1>1. cur > 0 => cur # 0 BY ConfFacts DEF Sound, Types
<1>2. Some' => Some \/ (cur > 0 /\ pc \in Sizing) BY DEF Some
<1> QED BY <1>1, <1>2 DEF Input

(* Nothing is finished at the start.                                       *)
LEMMA InputInit == Init => Input
<1> SUFFICES ASSUME Init PROVE Input OBVIOUS
<1>1. cur = 0 /\ tm = Unread /\ pc = "open" /\ res = [i \in 1..conf.files |-> "none"]
  BY DEF Init, Unread
<1>2. ~Some BY <1>1 DEF Some, Finished
<1> QED BY <1>1, <1>2 DEF Input, Unread

(* tmpl_open() keeps standard input where it belongs.                      *)
LEMMA InputOpen == ASSUME Sound, Lengths, Input, changes = 0, tmpl_open PROVE Input'
<1>1. pc = "open" /\ UNCHANGED <<conf, source, spos, spool, copy, res, cur, lo, faults>>
      /\ cur = 0 /\ tm = Unread
  BY DEF tmpl_open, Sound, Flow
<1>2. tm'.spooled = FALSE
  <2>1. tm'.spooled = tm.spooled
    <3>1. CASE conf.kind = "none" BY <1>1, <3>1 DEF tmpl_open
    <3>2. CASE conf.kind # "none" /\ tm' = tm BY <3>2
    <3>3. CASE conf.kind # "none" /\ tm' # tm
      <4>1. \/ tm' = [tm EXCEPT !.kind = "stream"]
            \/ \E x : tm' = [tm EXCEPT !.size = Stated, !.kind = x]
        BY <3>3 DEF tmpl_open
      <4> QED BY <1>1, <4>1 DEF Unread
    <3> QED BY <3>1, <3>2, <3>3
  <2> QED BY <1>1, <2>1 DEF Unread
<1>3. pc' \in {"next", "tail", "spool"} BY DEF tmpl_open
<1>4. ~Some' BY <1>1 DEF Input, Some, Finished
<1> QED BY <1>1, <1>2, <1>3, <1>4 DEF Input

(* fast_splice() keeps standard input where it belongs.                    *)
LEMMA InputSplice == ASSUME Sound, Lengths, Input, changes = 0, fast_splice PROVE Input'
<1>1. pc = "splice" /\ UNCHANGED <<conf, source, copy, res, cur, lo, faults>>
      /\ cur = 0 /\ tm = Unread
  BY DEF fast_splice, Sound, Flow
<1>2. ~Some' BY <1>1 DEF Input, Some, Finished
<1>3. tm' = tm \/ (spos = Len(src) /\ spos' = spos) BY DEF fast_splice
<1>4. pc' \in {"splice", "next", "read"} BY <1>1 DEF fast_splice
<1> QED BY <1>1, <1>2, <1>3, <1>4 DEF Input, Unread

(* tmpl_apply() of the next operand keeps standard input where it belongs. *)
LEMMA InputNext == ASSUME Sound, Lengths, Input, changes = 0, NextOperand PROVE Input'
<1>1. pc = "next" /\ UNCHANGED <<conf, source, spos, tm, spool, copy, res, faults>>
  BY DEF NextOperand
<1>2. Some' = Some BY <1>1 DEF Some, Finished
<1>3. tm.kind = "none" => conf.kind = "none" BY <1>1 DEF Sound, Flow
<1>4. CASE ~(cur < conf.files)
  <2>1. pc' = "close" /\ UNCHANGED <<cur, lo>> BY <1>4 DEF NextOperand
  <2> QED BY <1>1, <1>2, <2>1 DEF Input
<1>5. CASE cur < conf.files
  <2>1. cur' = cur + 1 /\ pc' = Entry[tm.kind] BY <1>5 DEF NextOperand
  <2>2. cur' # 0 BY <2>1, ConfFacts DEF Sound, Types
  <2>3. tm.kind \in {"none", "extents", "zeros", "stream"} BY DEF Sound, Types, Tmpl
  <2>4. pc' # "done" /\ (tm.kind = "stream" => pc' \notin Sizing) BY <2>1, <2>3 DEF Entry
  <2> QED BY <1>1, <1>2, <1>3, <2>2, <2>4 DEF Input
<1> QED BY <1>4, <1>5

(* The read of copy_stream() keeps standard input where it belongs.        *)
LEMMA InputRead == ASSUME Sound, Lengths, Input, changes = 0, StreamRead PROVE Input'
<1> DEFINE n == Least(Buf, Len(src) - spos)
<1>1. pc = "read" /\ UNCHANGED <<conf, source, spool, copy, res, cur, faults>>
  BY DEF StreamRead
<1>2. spos \in Nat /\ Len(src) \in Nat /\ Buf \in Nat \ {0} /\ spos <= Len(src)
  BY <1>1, ConfFacts DEF Sound, Types, Lengths, SizeKnown
<1>3. n <= 0 => spos = Len(src) BY <1>2 DEF Least
<1>4. ~Some
  <2>1. CASE cur = 0 BY <2>1 DEF Input
  <2>2. CASE cur # 0
    <3>1. cur \in 1..conf.files /\ cur > 0 BY <2>2, CurProps, ConfFacts DEF Sound, Types
    <3>2. tm.kind = "stream" /\ res[cur] = "none" BY <1>1, <3>1 DEF Sound, Flow
    <3>3. conf.files = 1 BY <3>2 DEF Sound, Bytes, Streaming
    <3>4. \A i \in 1..conf.files : i = cur BY <3>1, <3>3
    <3> QED BY <3>2, <3>4 DEF Some, Finished
  <2> QED BY <2>1, <2>2
<1>5. ~Some' BY <1>1, <1>4 DEF Some, Finished
<1>6. tm.spooled = FALSE
  <2>1. cur = 0 \/ cur > 0 BY ConfFacts DEF Sound, Types
  <2>2. tm.spooled => tm.kind = "extents" BY DEF Sound, Flow
  <2>3. tm = Unread \/ tm.kind = "stream" BY <1>1, <2>1 DEF Sound, Flow
  <2>4. tm.spooled \in BOOLEAN BY DEF Sound, Types, Tmpl
  <2> QED BY <2>2, <2>3, <2>4 DEF Unread
<1>7. CASE pc' = "write" /\ UNCHANGED tm BY <1>1, <1>5, <1>6, <1>7 DEF Input
<1>8. CASE /\ n <= 0 /\ cur = 0 /\ pc' = "next" /\ UNCHANGED <<spos, lo>>
           /\ tm' = [tm EXCEPT !.kind = "extents", !.size = Len(spool), !.spooled = TRUE]
  <2>1. tm'.kind = "extents" BY <1>8 DEF Sound, Types, Tmpl
  <2> QED BY <1>1, <1>3, <1>5, <1>8, <2>1 DEF Input
<1>9. CASE n <= 0 /\ pc' = "size" /\ UNCHANGED <<spos, lo, tm>>
  BY <1>1, <1>3, <1>5, <1>9 DEF Input
<1> QED BY <1>7, <1>8, <1>9 DEF StreamRead, Spooling

(* A call that fails for good keeps standard input where it belongs.       *)
LEMMA InputFails == ASSUME Sound, Lengths, Input, changes = 0, CallFails PROVE Input'
<1>1. UNCHANGED <<conf, source, spos, tm, spool, copy, cur, lo>> /\ ~NoCall BY DEF CallFails
<1>2. CASE cur = 0 /\ pc' = "done" /\ UNCHANGED res
  <2>1. pc \in Early \cup {"read", "write"} BY <1>1, <1>2 DEF NoCall, Sound, Types, Flow
  <2>2. tm = Unread BY <1>2, <2>1 DEF Sound, Flow
  <2>3. Some' = Some BY <1>1, <1>2 DEF Some, Finished
  <2> QED BY <1>1, <1>2, <2>2, <2>3 DEF Input, Unread
<1>3. CASE cur # 0 /\ Done("failed")
  <2>1. cur \in 1..conf.files /\ pc' = "next" /\ res' = [res EXCEPT ![cur] = "failed"]
    BY <1>3, CurProps, ConfFacts DEF Done, Sound, Types
  <2>2. \A i \in 1..conf.files : Finished(i)' => Finished(i)
    BY <2>1 DEF Sound, Types, Finished
  <2> QED BY <1>1, <2>1, <2>2, InputKept
<1> QED BY <1>2, <1>3 DEF CallFails

(* tmpl_close() keeps standard input where it belongs.                     *)
LEMMA InputClose == ASSUME Sound, Lengths, Input, changes = 0, tmpl_close PROVE Input'
<1>1. pc = "close" /\ pc' = "done" /\ UNCHANGED <<conf, source, tm, spool, copy, res, cur,
        lo, faults>>
      /\ spos' = IF conf.stdin /\ ~tm.spooled /\ tm.kind \in {"extents", "zeros"}
                 THEN tm.size ELSE spos
  BY DEF tmpl_close
<1>2. Some' = Some BY <1>1 DEF Some, Finished
<1>3. tm.kind \in {"extents", "zeros"} /\ ~tm.spooled =>
         tm.size = Stated /\ Src = src
  BY SizeStated
<1>4. conf.kind # "overstated" => Stated = Len(Src) BY SrcProps DEF Sound
<1>5. CASE conf.stdin /\ ~tm.spooled /\ tm.kind \in {"extents", "zeros"}
  BY <1>1, <1>2, <1>3, <1>4, <1>5 DEF Input
<1>6. CASE ~(conf.stdin /\ ~tm.spooled /\ tm.kind \in {"extents", "zeros"})
  BY <1>1, <1>2, <1>6 DEF Input
<1> QED BY <1>5, <1>6

(* The steps that finish no file, read nothing and end nothing.            *)
LEMMA InputWork ==
    ASSUME Sound, Lengths, Input, changes = 0,
           FindTail \/ spool_open \/ io_write \/ SeekData \/ SeekHole \/ fast_copy
             \/ SendSeek
             \/ fast_sendfile \/ copy_slow \/ io_pwrite \/ ExtentsEnd \/ ZerosRead
                  \/ ZerosBlock
    PROVE  Input'
<1> USE DEF Sound
<1>1. \A i \in 1..conf.files : res' = res /\ conf' = conf => (Finished(i)' => Finished(i))
  BY DEF Finished
<1>2. CASE FindTail
  <2>1. UNCHANGED <<conf, source, cur, res>> /\ pc = "tail" /\ pc' = "next"
    BY <1>2 DEF FindTail
  <2>2. tm'.kind = tm.kind /\ tm'.spooled = tm.spooled BY <1>2 DEF FindTail, Types, Tmpl
  <2>3. ~tm.spooled /\ tm.kind # "stream" BY <2>1 DEF Flow
  <2> QED BY <1>1, <2>1, <2>2, <2>3, InputKept
<1>3. CASE spool_open \/ io_write
  <2>1. UNCHANGED <<conf, source, cur, res, tm, spos>>
          /\ pc' \in {"splice", "mkstemp", "read", "write"}
    BY <1>3 DEF spool_open, io_write
  <2> QED BY <1>1, <2>1, InputKept
<1>4. CASE SeekData \/ SeekHole
  <2>1. UNCHANGED <<conf, source, cur, res, tm>> /\ pc' \in {"trunc", "cfr", "hole"}
        /\ pc \in {"seek", "hole"}
    BY <1>4 DEF SeekData, SeekHole
  <2>2. tm.kind # "stream" BY <2>1 DEF Flow
  <2>3. spos' = spos \/ ~tm.spooled BY <1>4 DEF SeekData, SeekHole, Moved
  <2> QED BY <1>1, <2>1, <2>2, <2>3, InputKept
<1>5. CASE fast_copy \/ SendSeek \/ fast_sendfile \/ copy_slow \/ io_pwrite \/ ExtentsEnd
           \/ ZerosRead \/ ZerosBlock
  <2>1. UNCHANGED <<conf, source, cur, res, tm, spos>> /\ pc' # "done"
        /\ pc \in Extents \cup {"zeros", "block"}
    BY <1>5 DEF fast_copy, SendSeek, fast_sendfile, copy_slow, io_pwrite, ExtentsEnd,
       ZerosRead,
       ZerosBlock
  <2>2. tm.kind # "stream" BY <2>1 DEF Flow
  <2> QED BY <1>1, <2>1, <2>2, InputKept
<1> QED BY <1>2, <1>3, <1>4, <1>5

(* The steps that may finish a file.                                       *)
LEMMA InputSized ==
    ASSUME Sound, Lengths, Input, changes = 0, apply_size \/ fast_alloc \/ io_fill
    PROVE  Input'
<1>1. /\ UNCHANGED <<conf, source, cur, tm, spos>> /\ pc \in Sizing
      /\ pc' \in {"next", "alloc", "fill"}
  BY DEF apply_size, fast_alloc, io_fill, Done
<1>2. cur > 0 BY <1>1 DEF Sound, Flow
<1> QED BY <1>1, <1>2, InputKept

(* Every step keeps standard input where it belongs.                       *)
LEMMA InputStep == Sound /\ Lengths /\ Input /\ [Next]_vars => Input'
<1> SUFFICES ASSUME Sound, Lengths, Input, [Next]_vars, changes' = 0 PROVE Input'
  BY DEF Input
<1>1. changes = 0 /\ ~OtherChanges BY ChangesStay DEF Sound
<1>2. CASE UNCHANGED vars
  <2>1. UNCHANGED <<conf, src, changes, spos, tm, res, pc, cur>> BY <1>2 DEF vars
  <2> QED BY <2>1 DEF Input, Some, Finished
<1> QED BY <1>1, <1>2, InputOpen, InputSplice, InputNext, InputRead, InputFails, InputClose,
           InputWork, InputSized
     DEF Next, Ended

(* Once the run is over that is just past what was copied.                 *)
LEMMA InputLeft == Sound /\ Lengths /\ Input => StdinLeft
<1> SUFFICES ASSUME Sound, Lengths, Input, pc = "done", conf.stdin,
                      conf.kind # "overstated",
                    changes = 0, \E i \in DOMAIN copy : Finished(i)
             PROVE  spos = Len(src)
  BY DEF StdinLeft
<1>1. Some BY DEF Some, Sound, Types
<1>2. cur > 0 BY <1>1, ConfFacts DEF Input, Sound, Types
<1>3. tm.kind \in {"none", "extents", "zeros", "stream"} BY DEF Sound, Types, Tmpl
<1>4. tm.kind # "none" BY <1>2, ConfFacts DEF Input, Sound
<1> QED BY <1>1, <1>3, <1>4 DEF Input

(* After a run that filled a file from standard input, the input is        *)
(* positioned just past what was copied, although the searches for gaps    *)
(* move it: tmpl_close(), tmpl_open(), copy_stream().                      *)
THEOREM StdinTheorem == Spec => []StdinLeft
<1>1. Spec => [](Sound /\ Lengths /\ Input)
  BY SoundInit, SoundStep, LengthsInit, LengthsStep, InputInit, InputStep, PTL DEF Spec
<1> QED BY <1>1, InputLeft, PTL

-----------------------------------------------------------------------------
(* Where the new files have gaps.                                          *)

(* Nothing fails, nobody changes the template, and it is read as a whole   *)
(* or there is none.                                                       *)
Told == /\ changes = 0 /\ faults = 0 /\ conf.at = 0
        /\ conf.kind \in {"plain", "none"}

(* The gaps of the template, and those that a new file has as well.        *)
Gaps == {k \in 1..Len(src) : src[k] = Gap}
Kept == CASE conf.layout = "known"  -> Gaps
          [] conf.layout = "hidden" -> {}
          [] OTHER -> {k \in 1..Len(src) : Gaps # {} /\ Reads(src[k]) = Nul}

(* What -s adds is a gap.                                                  *)
Sparse == conf.sparse \/ Len(src) \in Kept

(* A file has the gaps that it should, and what -s added to it is right.   *)
KeepsGaps(s) == \A k \in Kept : k <= Len(s) => s[k] = Gap
AddsGap(s)   == \A k \in (Len(src) + 1)..Len(s) : s[k] = Gap <=> Sparse

(* The new files so far.                                                   *)
Filled == \A i \in 1..conf.files : KeepsGaps(copy[i]) /\ (Finished(i) => AddsGap(copy[i]))

(* What tmpl_open() found of the template is true.                         *)
Known ==
    /\ tm.kind = "zeros" => conf.layout = "unknown" /\ Gaps # {}
    /\ tm.kind = "extents" /\ ~tm.spooled => conf.layout # "unknown" \/ Gaps = {}
    /\ tm.kind = "stream" \/ tm.spooled => src = <<>>
    /\ pc \in {"spool", "mkstemp", "splice", "read", "write"} => src = <<>>

(* So is what hole_tail() and tail_zero() found.                           *)
TailTrue == pc \notin Early \cup {"tail"} => (tm.tail <=> Len(src) \in Kept)

(* An extent leaves the gaps out.                                          *)
Avoids == pc \in InExtent \ {"hole"} => \A k \in Kept : ~(lo.src < k /\ k <= lo.end)

(* Zeros are written out where -s does not add a gap.                      *)
Pads == pc \in {"alloc", "fill"} =>
            /\ ~Sparse /\ Len(src) <= lo.dst
            /\ \A k \in (Len(src) + 1)..Len(copy[cur]) : copy[cur][k] # Gap

(* All of it.                                                              *)
Shaped == Filled /\ Known /\ TailTrue /\ Avoids /\ Pads
Shape  == faults \in Nat /\ (Told => Shaped)

(* The gaps that are kept are blocks of the template and read as zeros.    *)
LEMMA KeptProps ==
    ASSUME Types
    PROVE  /\ \A k \in Kept : k \in Nat \ {0} /\ k \in 1..Len(src) /\ Reads(src[k]) = Nul
           /\ src = <<>> => Kept = {}
           /\ conf.layout = "hidden" => Kept = {}
           /\ conf.layout = "known" => Kept = Gaps
           /\ conf.layout = "unknown" =>
                Kept = {k \in 1..Len(src) : Gaps # {} /\ Reads(src[k]) = Nul}
<1>1. conf.layout \in {"known", "unknown", "hidden"} /\ Len(src) \in Nat
  BY ConfFacts DEF Types
<1>2. /\ conf.layout = "hidden" => Kept = {}
      /\ conf.layout = "known" => Kept = Gaps
      /\ conf.layout = "unknown" =>
           Kept = {k \in 1..Len(src) : Gaps # {} /\ Reads(src[k]) = Nul}
  BY DEF Kept
<1>3. \A k \in Gaps : k \in 1..Len(src) /\ Reads(src[k]) = Nul BY DEF Gaps, Reads
<1>4. \A k \in Kept : k \in 1..Len(src) /\ Reads(src[k]) = Nul BY <1>1, <1>2, <1>3
<1>5. \A k \in 1..Len(src) : k \in Nat \ {0} BY <1>1
<1>6. src = <<>> => Kept = {}
  <2> SUFFICES ASSUME src = <<>> PROVE Kept = {} OBVIOUS
  <2>1. 1..Len(src) = {} OBVIOUS
  <2> QED BY <1>4, <2>1
<1> QED BY <1>2, <1>4, <1>5, <1>6

(* A gap that is kept by a copy by extents is one that lseek tells of.     *)
LEMMA ExtentGap ==
    ASSUME Types, Known, tm.kind = "extents", NEW k \in Kept
    PROVE  Layout = "known" /\ Src = src /\ k \in 1..Len(Src) /\ Src[k] = Gap
<1>1. ~tm.spooled BY KeptProps DEF Known
<1>2. Src = src /\ Layout = conf.layout BY <1>1 DEF Src, Layout
<1>3. conf.layout # "unknown" BY <1>1, KeptProps DEF Known
<1>4. conf.layout = "known" BY <1>3, KeptProps, ConfFacts
<1>5. k \in Gaps BY <1>4, KeptProps
<1> QED BY <1>2, <1>4, <1>5 DEF Gaps

(* A write that puts no data on a gap that is kept, and ftruncate.         *)
LEMMA PutKeeps ==
    ASSUME Types, NEW s \in Seq(Nat), NEW off \in Nat, NEW new \in Seq(Nat), KeepsGaps(s),
           \A j \in 1..Len(new) : off + j \in Kept => new[j] = Gap
    PROVE  KeepsGaps(Put(s, off, new))
<1> DEFINE p == Put(s, off, new)
<1>1. /\ p \in Seq(Nat) /\ Len(s) \in Nat /\ Len(new) \in Nat
      /\ \A k \in 1..Len(p) : p[k] = IF k \in (off + 1)..(off + Len(new)) THEN new[k - off]
                                     ELSE IF k <= Len(s) THEN s[k] ELSE Gap
  BY PutProps
<1> HIDE DEF p
<1> SUFFICES ASSUME NEW k \in Kept, k <= Len(p) PROVE p[k] = Gap BY DEF KeepsGaps, p
<1>2. k \in Nat \ {0} BY KeptProps
<1>3. k \in 1..Len(p) BY <1>1, <1>2
<1>4. CASE k \in (off + 1)..(off + Len(new))
  <2>1. k - off \in 1..Len(new) /\ off + (k - off) = k BY <1>1, <1>2, <1>4
  <2>2. new[k - off] = Gap BY <2>1
  <2> QED BY <1>1, <1>3, <1>4, <2>2
<1>5. CASE k \notin (off + 1)..(off + Len(new)) BY <1>1, <1>3, <1>5 DEF KeepsGaps
<1> QED BY <1>4, <1>5

(* ftruncate keeps gaps and adds them.                                     *)
LEMMA ResizeKeeps ==
    ASSUME Types, NEW s \in Seq(Nat), NEW n \in Nat, KeepsGaps(s)
    PROVE  KeepsGaps(Resize(s, n))
<1> DEFINE p == Resize(s, n)
<1>1. Len(p) = n /\ \A k \in 1..n : p[k] = IF k <= Len(s) THEN s[k] ELSE Gap BY ResizeProps
<1> HIDE DEF p
<1> SUFFICES ASSUME NEW k \in Kept, k <= n PROVE p[k] = Gap BY <1>1 DEF KeepsGaps, p
<1>2. k \in 1..n BY KeptProps
<1> QED BY <1>1, <1>2 DEF KeepsGaps

(* What the gaps are depends on the template alone.                        *)
LEMMA GapsSame ==
    ASSUME UNCHANGED <<conf, src>>
    PROVE  /\ Gaps' = Gaps /\ Kept' = Kept /\ Sparse' = Sparse
           /\ \A s : KeepsGaps(s)' = KeepsGaps(s) /\ AddsGap(s)' = AddsGap(s)
<1>1. Gaps' = Gaps BY DEF Gaps
<1>2. Kept' = Kept BY <1>1 DEF Kept
<1>3. Sparse' = Sparse BY <1>2 DEF Sparse
<1> QED BY <1>1, <1>2, <1>3 DEF KeepsGaps, AddsGap

(* What is asked of the files after a step.                                *)
LEMMA FilledNow ==
    ASSUME UNCHANGED <<conf, src>>,
           \A i \in 1..conf.files : KeepsGaps(copy'[i]) /\ (res'[i] = "ok"
             => AddsGap(copy'[i]))
    PROVE  Filled'
<1>1. Kept' = Kept /\ Sparse' = Sparse BY GapsSame
<1> QED BY <1>1 DEF Filled, KeepsGaps, AddsGap, Finished

(* The operand at work, whose file is not finished, gets a new content.    *)
LEMMA FilledPut ==
    ASSUME Types, Flow, Filled, UNCHANGED <<conf, src, res>>, pc \in Working, cur > 0,
           NEW x, copy' = [copy EXCEPT ![cur] = x], KeepsGaps(x)
    PROVE  Filled'
<1>1. /\ \A i \in 1..conf.files : i # cur => copy'[i] = copy[i]
      /\ copy'[cur] = x /\ res[cur] = "none"
  BY CopyAt DEF Flow
<1>2. ASSUME NEW i \in 1..conf.files
      PROVE  KeepsGaps(copy'[i]) /\ (res'[i] = "ok" => AddsGap(copy'[i]))
  <2>1. CASE i = cur BY <1>1, <2>1
  <2>2. CASE i # cur
    <3>1. copy'[i] = copy[i] BY <1>1, <2>2
    <3>2. KeepsGaps(copy[i]) /\ (res[i] = "ok" => AddsGap(copy[i])) BY DEF Filled, Finished
    <3> QED BY <3>1, <3>2
  <2> QED BY <2>1, <2>2
<1> QED BY <1>2, FilledNow

(* The file of the operand at work is finished.                            *)
LEMMA FilledDone ==
    ASSUME Types, Filled, UNCHANGED <<conf, src>>, cur > 0, Done("ok"),
           copy' = copy \/ \E x : copy' = [copy EXCEPT ![cur] = x],
           KeepsGaps(copy'[cur]), AddsGap(copy'[cur])
    PROVE  Filled'
<1>1. \A i \in 1..conf.files : i # cur => copy'[i] = copy[i] BY CopyAt
<1>2. \A i \in 1..conf.files : i # cur => res'[i] = res[i]
  <2>1. res' = [res EXCEPT ![cur] = "ok"] BY DEF Done
  <2> QED BY <2>1 DEF Types
<1>3. ASSUME NEW i \in 1..conf.files
      PROVE  KeepsGaps(copy'[i]) /\ (res'[i] = "ok" => AddsGap(copy'[i]))
  <2>1. CASE i = cur BY <2>1
  <2>2. CASE i # cur
    <3>1. copy'[i] = copy[i] /\ res'[i] = res[i] BY <1>1, <1>2, <2>2
    <3>2. KeepsGaps(copy[i]) /\ (res[i] = "ok" => AddsGap(copy[i])) BY DEF Filled, Finished
    <3> QED BY <3>1, <3>2
  <2> QED BY <2>1, <2>2
<1> QED BY <1>3, FilledNow

(* Files that are left alone.                                              *)
LEMMA FilledSame == ASSUME Filled, UNCHANGED <<conf, src, copy, res>> PROVE Filled'
<1>1. Kept' = Kept /\ Sparse' = Sparse BY GapsSame
<1> QED BY <1>1 DEF Filled, KeepsGaps, AddsGap, Finished

(* A step of a copy leaves what was found of the template alone.           *)
LEMMA FoundSame ==
    ASSUME Known, TailTrue, UNCHANGED <<conf, src, tm>>, pc \notin Early \cup {"tail"},
           pc' \notin Early \cup {"tail"},
           pc' \in {"read", "write"} => pc \in {"read", "write"} \/ tm.kind = "stream"
    PROVE  Known' /\ TailTrue'
<1>1. Gaps' = Gaps /\ Kept' = Kept BY GapsSame
<1> QED BY <1>1 DEF Known, TailTrue

(* What tmpl_open() decides is true of the template.                       *)
LEMMA OpenShape == ASSUME Sound, Told, Shaped, tmpl_open PROVE Shaped'
<1> USE DEF Sound
<1>1. pc = "open" /\ UNCHANGED <<conf, source, spos, spool, copy, res, cur, lo, faults>>
      /\ tm = Unread
  BY DEF tmpl_open, Flow
<1>2. Filled' BY <1>1, FilledSame DEF Shaped
<1>3. Gaps' = Gaps /\ Kept' = Kept BY <1>1, GapsSame
<1>4. conf.at = 0 /\ conf.kind \in {"plain", "none"} BY DEF Told
<1>5. src = <<>> => ~(Len(src) \in Kept) BY KeptProps
<1>6. tm.tail = FALSE /\ tm.spooled = FALSE /\ tm.kind = "none" BY <1>1 DEF Unread
<1>7. Src = src /\ Stated = Len(src) /\ Len(src) \in Nat
  <2>1. Src = src /\ src \in Seq(Nat) BY <1>6 DEF Src, Types
  <2>2. Stated = Len(Src) BY <1>4, SrcProps
  <2> QED BY <2>1, <2>2
<1>8. CASE conf.kind = "none"
  <2>1. tm' = tm /\ pc' = "next" BY <1>8 DEF tmpl_open
  <2>2. src = <<>>
    <3>1. conf.content = <<>> /\ Len(src) <= Len(conf.content) + 2 * changes /\ changes = 0
      BY <1>8, ConfFacts DEF HeldInv, Told
    <3>2. Len(src) = 0 BY <1>7, <3>1
    <3> QED BY <3>2 DEF Types
  <2>3. Known' /\ TailTrue' BY <1>1, <1>3, <1>5, <1>6, <2>1, <2>2 DEF Known, TailTrue
  <2> QED BY <1>2, <2>1, <2>3 DEF Shaped, Avoids, Pads
<1>9. CASE conf.kind # "none" /\ Stated > 0
  <2> DEFINE z == (\E k \in 1..Len(src) : src[k] = Gap) /\ conf.layout = "unknown"
  <2>1. /\ tm' = [tm EXCEPT !.size = Stated, !.kind = IF z THEN "zeros" ELSE "extents"]
        /\ pc' = "tail"
    BY <1>4, <1>9 DEF tmpl_open
  <2>2. z <=> Gaps # {} /\ conf.layout = "unknown" BY DEF Gaps
  <2> HIDE DEF z
  <2>3. tm'.kind = (IF z THEN "zeros" ELSE "extents") /\ tm'.spooled = FALSE
    BY <1>1, <2>1 DEF Unread
  <2>4. Known' BY <1>1, <1>3, <2>1, <2>2, <2>3 DEF Known
  <2> QED BY <1>2, <2>1, <2>4 DEF Shaped, TailTrue, Avoids, Pads
<1>10. CASE conf.kind # "none" /\ ~(Stated > 0)
  <2>1. src = <<>>
    <3>1. Len(src) = 0 BY <1>7, <1>10
    <3> QED BY <3>1 DEF Types
  <2>2. \/ pc' = "spool" /\ tm' = tm
        \/ pc' = "next" /\ tm' = [tm EXCEPT !.kind = "stream"]
    BY <1>4, <1>10 DEF tmpl_open
  <2>3. pc' \in {"spool", "next"} /\ tm'.tail = FALSE
          /\ tm'.kind \notin {"zeros", "extents"}
    BY <1>1, <2>2 DEF Unread
  <2>4. Known' /\ TailTrue' BY <1>1, <1>3, <1>5, <2>1, <2>3 DEF Known, TailTrue
  <2> QED BY <1>2, <2>3, <2>4 DEF Shaped, Avoids, Pads
<1> QED BY <1>8, <1>9, <1>10

(* What hole_tail() and tail_zero() find is true of the template.          *)
LEMMA TailShape ==
    ASSUME Sound, Lengths, Told, Shaped, FindTail, faults' = faults PROVE Shaped'
<1> USE DEF Sound
<1>1. pc = "tail" /\ pc' = "next" /\ UNCHANGED <<conf, source, spool, copy, res, cur, lo>>
  BY DEF FindTail
<1>2. Filled' BY <1>1, FilledSame DEF Shaped
<1>3. Gaps' = Gaps /\ Kept' = Kept BY <1>1, GapsSame
<1>4. tm.kind \in {"extents", "zeros"} /\ ~tm.spooled /\ tm.size > 0 BY <1>1 DEF Flow
<1>5. Src = src /\ tm.size = Len(src) /\ Len(src) \in Nat
  <2>1. changes = 0 /\ conf.kind # "overstated" BY DEF Told
  <2>2. tm.size = Stated /\ Src = src BY <1>4, <2>1, SizeStated
  <2>3. Stated = Len(Src) BY <2>1, SrcProps
  <2> QED BY <2>2, <2>3 DEF Types
<1>6. faults \in Nat => faults # faults + 1 OBVIOUS
<1> DEFINE t == IF tm.kind = "zeros" THEN tail_zero(tm.size) ELSE hole_tail(tm.size)
<1>7. tm' = [tm EXCEPT !.tail = t]
  <2>1. faults \in Nat BY DEF Told
  <2> QED BY <1>6, <2>1 DEF FindTail
<1>8. t <=> Len(src) \in Kept
  <2>1. Len(src) \in 1..Len(src) BY <1>4, <1>5
  <2>2. CASE tm.kind = "zeros"
    <3>1. t <=> Reads(src[Len(src)]) = Nul BY <1>5, <2>2 DEF tail_zero
    <3>2. conf.layout = "unknown" /\ Gaps # {} BY <2>2 DEF Shaped, Known
    <3>3. Kept = {k \in 1..Len(src) : Gaps # {} /\ Reads(src[k]) = Nul} BY <3>2, KeptProps
    <3> QED BY <2>1, <3>1, <3>2, <3>3
  <2>3. CASE tm.kind = "extents"
    <3> DEFINE f == tm.size - 1
               d == NextData(f)
    <3>1. f \in Nat /\ f + 1 = Len(src) /\ f < Len(src) BY <1>4, <1>5
    <3>2. t <=> conf.layout # "unknown" /\ d = -1 BY <2>3 DEF hole_tail
    <3>3. Layout = conf.layout /\ Stated = Len(src)
      BY <1>4, <1>5, SizeStated DEF Layout, Told
    <3>4. f \in f..(Stated - 1) BY <3>1, <3>3, <1>5
    <3>5. d = -1 => Layout # "hidden" /\ src[f + 1] = Gap BY <1>5, <3>1, <3>4, DataProps
    <3>6. d # -1 => Layout = "hidden" \/ src[f + 1] # Gap
      <4> SUFFICES ASSUME d # -1 PROVE Layout = "hidden" \/ src[f + 1] # Gap OBVIOUS
      <4>1. d \in f..(Stated - 1) BY <3>1, DataProps
      <4>2. d = f BY <1>5, <3>1, <3>3, <4>1
      <4>3. Layout = "hidden" \/ d >= Len(Src) \/ Src[d + 1] # Gap BY <3>1, DataProps
      <4>4. ~(d >= Len(Src)) BY <1>5, <3>1, <4>2
      <4> QED BY <1>5, <4>2, <4>3, <4>4
    <3> HIDE DEF f, d
    <3>7. CASE conf.layout = "unknown"
      <4>1. Kept = {}
        <5>1. Gaps = {} BY <1>4, <2>3, <3>7 DEF Shaped, Known
        <5> QED BY <3>7, <5>1, KeptProps
      <4> QED BY <3>2, <3>7, <4>1
    <3>8. CASE conf.layout = "hidden"
      <4>1. Kept = {} /\ d # -1 BY <3>3, <3>5, <3>8, KeptProps
      <4> QED BY <3>2, <4>1
    <3>9. CASE conf.layout = "known"
      <4>1. Len(src) \in Kept <=> src[f + 1] = Gap BY <2>1, <3>1, <3>9, KeptProps DEF Gaps
      <4> QED BY <3>2, <3>3, <3>5, <3>6, <3>9, <4>1
    <3> QED BY <3>7, <3>8, <3>9, ConfFacts
  <2> QED BY <1>4, <2>2, <2>3
<1> HIDE DEF t
<1>9. tm'.kind = tm.kind /\ tm'.spooled = tm.spooled /\ tm'.tail = t
  BY <1>7 DEF Types, Tmpl
<1>10. Known' BY <1>1, <1>3, <1>9 DEF Shaped, Known
<1>11. TailTrue' BY <1>1, <1>3, <1>8, <1>9 DEF TailTrue
<1> QED BY <1>1, <1>2, <1>10, <1>11 DEF Shaped, Avoids, Pads

(* spool_open() keeps the gaps.                                            *)
LEMMA SpoolShape == ASSUME Sound, Told, Shaped, spool_open PROVE Shaped'
<1>1. pc \in {"spool", "mkstemp"} /\ pc' \in {"splice", "mkstemp"}
      /\ UNCHANGED <<conf, source, spos, tm, spool, copy, res, cur, lo>>
  BY DEF spool_open
<1>2. Filled' BY <1>1, FilledSame DEF Shaped
<1>3. Gaps' = Gaps BY <1>1, GapsSame
<1>4. Known' BY <1>1, <1>3 DEF Shaped, Known
<1> QED BY <1>1, <1>2, <1>4 DEF Shaped, TailTrue, Avoids, Pads

(* A plain template that is copied as a stream from its start is empty.    *)
LEMMA StreamShape ==
    ASSUME Sound, Told, Shaped, pc \in {"splice", "read", "write"}, UNCHANGED <<conf, src,
             res>>,
           copy' = copy \/ (cur > 0 /\ \E x : copy' = [copy EXCEPT ![cur] = x]),
           pc' \in {"splice", "read", "write", "next", "size"}, tm'.tail = tm.tail,
           tm'.kind = tm.kind \/ (tm'.kind = "extents" /\ tm'.spooled = TRUE)
    PROVE  Shaped'
<1> USE DEF Sound
<1>1. src = <<>> BY DEF Shaped, Known
<1>2. Kept = {} /\ Kept' = {} /\ Gaps' = Gaps BY <1>1, KeptProps, GapsSame
<1>3. \A x : KeepsGaps(x) BY <1>2 DEF KeepsGaps
<1>4. CASE copy' = copy
  <2>1. Filled' BY <1>4, FilledSame DEF Shaped
  <2>2. cur = 0 \/ cur > 0 BY ConfFacts DEF Types
  <2>3. tm.tail = FALSE
    <3>1. tm.tail \in BOOLEAN BY DEF Types, Tmpl
    <3>2. pc = "splice" => tm.tail = FALSE BY DEF Flow, Unread
    <3>3. pc # "splice" => ~tm.tail BY <1>2 DEF Shaped, TailTrue
    <3> QED BY <3>1, <3>2, <3>3
  <2>4. tm.kind \notin {"zeros", "extents"}
    BY <2>2 DEF Flow, Unread
  <2>5. TailTrue' BY <1>2, <2>3 DEF TailTrue
  <2>6. Known' BY <1>1, <2>4 DEF Known
  <2> QED BY <2>1, <2>5, <2>6 DEF Shaped, Avoids, Pads
<1>5. CASE cur > 0 /\ \E x : copy' = [copy EXCEPT ![cur] = x]
  <2>1. PICK x : copy' = [copy EXCEPT ![cur] = x] BY <1>5
  <2>2. pc \in Working BY <1>5 DEF Flow, Types
  <2>3. Filled' BY <1>3, <1>5, <2>1, <2>2, FilledPut DEF Shaped
  <2>4. tm.kind = "stream" BY <1>5, <2>2 DEF Flow
  <2>5. ~tm.tail BY <1>2, <2>2 DEF Shaped, TailTrue
  <2>6. TailTrue' BY <1>2, <2>5 DEF TailTrue
  <2>7. Known' BY <1>1, <2>4 DEF Known
  <2> QED BY <2>3, <2>6, <2>7 DEF Shaped, Avoids, Pads
<1> QED BY <1>4, <1>5

(* A template that is copied as a stream has nothing to keep.              *)
LEMMA StreamsShape ==
    ASSUME Sound, Told, Shaped, fast_splice \/ StreamRead \/ io_write PROVE Shaped'
<1>1. tm \in Tmpl BY DEF Sound, Types
<1>2. CASE fast_splice
  <2>1. pc = "splice" /\ UNCHANGED <<conf, source, copy, res, cur, lo, faults>>
        /\ pc' \in {"splice", "next", "read"}
    BY <1>2 DEF fast_splice
  <2>2. tm' = tm \/ tm' = [tm EXCEPT !.kind = "extents", !.size = Len(spool),
          !.spooled = TRUE]
    BY <1>2 DEF fast_splice
  <2>3. tm'.tail = tm.tail /\ (tm'.kind = tm.kind \/ (tm'.kind = "extents"
          /\ tm'.spooled = TRUE))
    BY <1>1, <2>2 DEF Tmpl
  <2> QED BY <2>1, <2>3, StreamShape
<1>3. CASE StreamRead
  <2>1. pc = "read" /\ UNCHANGED <<conf, source, spool, copy, res, cur, faults>>
        /\ pc' \in {"write", "next", "size"}
    BY <1>3 DEF StreamRead
  <2>2. tm' = tm \/ tm' = [tm EXCEPT !.kind = "extents", !.size = Len(spool),
          !.spooled = TRUE]
    BY <1>3 DEF StreamRead
  <2>3. tm'.tail = tm.tail /\ (tm'.kind = tm.kind \/ (tm'.kind = "extents"
          /\ tm'.spooled = TRUE))
    BY <1>1, <2>2 DEF Tmpl
  <2> QED BY <2>1, <2>3, StreamShape
<1>4. CASE io_write
  <2>1. pc = "write" /\ UNCHANGED <<conf, source, spos, tm, res, cur, faults>>
        /\ pc' \in {"read", "write"}
    BY <1>4 DEF io_write
  <2>2. \/ UNCHANGED copy
        \/ cur # 0 /\ \E x : copy' = [copy EXCEPT ![cur] = x]
    BY <1>4 DEF io_write, Spooling
  <2>3. cur # 0 => cur > 0 BY ConfFacts DEF Sound, Types
  <2> QED BY <2>1, <2>2, <2>3, StreamShape
<1> QED BY <1>2, <1>3, <1>4

(* tmpl_apply() of the next operand keeps the gaps.                        *)
LEMMA NextShape == ASSUME Sound, Told, Shaped, NextOperand PROVE Shaped'
<1>1. pc = "next" /\ UNCHANGED <<conf, source, spos, tm, spool, copy, res, faults>>
  BY DEF NextOperand
<1>2. Filled' BY <1>1, FilledSame DEF Shaped
<1>3. tm.kind \in {"none", "extents", "zeros", "stream"} BY DEF Sound, Types, Tmpl
<1>4. /\ pc' \in {"close", "size", "seek", "zeros", "read"}
      /\ pc' = "read" => tm.kind = "stream"
  BY <1>3 DEF NextOperand, Entry
<1>5. Known' /\ TailTrue' BY <1>1, <1>4, FoundSame DEF Shaped
<1> QED BY <1>2, <1>4, <1>5 DEF Shaped, Avoids, Pads

(* hole_next_data() keeps the gaps.                                        *)
LEMMA SeekDataShape == ASSUME Sound, Lengths, Told, Shaped, SeekData PROVE Shaped'
<1> USE DEF Sound
<1>1. pc = "seek" /\ UNCHANGED <<conf, source, tm, spool, copy, res, cur, faults>>
      /\ pc' \in {"trunc", "cfr", "hole"} /\ (pc' = "cfr" => Layout = "unknown")
  BY DEF SeekData
<1>2. Filled' BY <1>1, FilledSame DEF Shaped
<1>3. Known' /\ TailTrue' BY <1>1, FoundSame DEF Shaped
<1>4. Kept' = Kept /\ tm.kind = "extents" BY <1>1, GapsSame DEF Flow
<1>5. pc' = "cfr" => Kept' = {} BY <1>1, <1>4, ExtentGap DEF Shaped
<1>6. Avoids' BY <1>1, <1>5 DEF Avoids
<1> QED BY <1>1, <1>2, <1>3, <1>6 DEF Shaped, Pads

(* lseek(SEEK_HOLE) ends an extent before the next gap.                    *)
LEMMA SeekHoleShape ==
    ASSUME Sound, Lengths, Told, Shaped, SeekHole, faults' = faults PROVE Shaped'
<1> USE DEF Sound
<1>1. pc = "hole" /\ pc' = "cfr" /\ UNCHANGED <<conf, source, tm, spool, copy, res, cur>>
  BY DEF SeekHole
<1>2. Filled' BY <1>1, FilledSame DEF Shaped
<1>3. Known' /\ TailTrue' BY <1>1, FoundSame DEF Shaped
<1>4. Kept' = Kept /\ tm.kind = "extents" /\ changes = 0 BY <1>1, GapsSame DEF Flow, Told
<1>5. tm.size = Stated BY <1>4, SizeStated
<1>6. lo.src \in Nat /\ lo.end \in Nat /\ Stated \in Nat /\ Len(Src) \in Nat
  BY SrcProps DEF Types, Locals
<1>7. lo.src < lo.end /\ lo.end <= tm.size BY <1>1, <1>4 DEF Lengths, ExtentLengths
<1>8. lo.src < Stated BY <1>5, <1>6, <1>7
<1> DEFINE g == NextGap(lo.src)
<1>9. lo' = [lo EXCEPT !.end = Least(g, tm.size)]
  <2>1. faults = 0 BY DEF Told
  <2> QED BY <1>6, <1>8, <2>1 DEF SeekHole
<1>10. /\ g \in lo.src..Stated /\ g \in Nat
       /\ \A k \in lo.src..(g - 1) : ~(Layout = "known" /\ k < Len(Src) /\ Src[k + 1] = Gap)
  BY <1>6, <1>8, GapProps
<1> HIDE DEF g
<1>11. Least(g, tm.size) = g BY <1>5, <1>6, <1>10 DEF Least
<1>12. lo'.src = lo.src /\ lo'.end = g BY <1>9, <1>11 DEF Types, Locals
<1>13. ASSUME NEW k \in Kept, lo.src < k, k <= g PROVE FALSE
  <2>1. Layout = "known" /\ k \in 1..Len(Src) /\ Src[k] = Gap BY <1>4, ExtentGap DEF Shaped
  <2>2. k - 1 \in lo.src..(g - 1) /\ k - 1 < Len(Src) /\ (k - 1) + 1 = k
    BY <1>6, <1>10, <1>13, <2>1
  <2> QED BY <1>10, <2>1, <2>2
<1>14. Avoids' BY <1>4, <1>12, <1>13 DEF Avoids
<1> QED BY <1>1, <1>2, <1>3, <1>14 DEF Shaped, Pads

(* A write within the extent.                                              *)
LEMMA ExtentPut ==
    ASSUME Sound, Told, Shaped, pc \in {"cfr", "sendfile", "pwrite"},
           UNCHANGED <<conf, src, res, tm>>, NEW off \in Nat, NEW b \in Seq(Nat),
           lo.src <= off, off + Len(b) <= lo.end,
           copy' = [copy EXCEPT ![cur] = Put(copy[cur], off, b)],
           pc' \in InExtent \ {"hole"}, lo.src <= lo'.src, lo'.src \in Nat, lo'.end = lo.end
    PROVE  Shaped'
<1> USE DEF Sound
<1>1. cur > 0 /\ copy[cur] \in Seq(Nat) /\ KeepsGaps(copy[cur]) /\ lo.src \in Nat
        /\ lo.end \in Nat
  BY CurProps DEF Flow, Shaped, Filled, Types, Locals
<1>2. \A k \in Kept : ~(lo.src < k /\ k <= lo.end) /\ k \in Nat
  BY KeptProps DEF Shaped, Avoids
<1>3. ASSUME NEW j \in 1..Len(b), off + j \in Kept PROVE FALSE
  <2> DEFINE l == Len(b)
  <2>1. l \in Nat /\ j \in 1..l /\ off + l <= lo.end BY <1>3
  <2> HIDE DEF l
  <2>2. lo.src < off + j /\ off + j <= lo.end BY <1>1, <2>1
  <2> QED BY <1>2, <1>3, <2>2
<1>4. KeepsGaps(Put(copy[cur], off, b)) BY <1>1, <1>3, PutKeeps
<1>5. Filled' BY <1>1, <1>4, FilledPut DEF Shaped
<1>6. Known' /\ TailTrue' BY FoundSame DEF Shaped
<1>7. Kept' = Kept BY GapsSame
<1>8. ASSUME NEW k \in Kept PROVE ~(lo'.src < k /\ k <= lo'.end)
  BY <1>1, <1>2
<1>9. Avoids' BY <1>7, <1>8 DEF Avoids
<1> QED BY <1>5, <1>6, <1>9 DEF Shaped, Pads

(* A step of copy_extents() that writes nothing.                           *)
LEMMA ExtentGoes ==
    ASSUME Sound, Told, Shaped, pc \in InExtent \ {"hole"}, UNCHANGED <<conf, src, res, tm,
             copy>>,
           pc' \in Extents \ {"hole"}, pc' \in InExtent => lo'.src = lo.src
             /\ lo'.end = lo.end
    PROVE  Shaped'
<1>1. Filled' BY FilledSame DEF Shaped
<1>2. Known' /\ TailTrue' BY FoundSame DEF Shaped
<1>3. Kept' = Kept BY GapsSame
<1>4. Avoids' BY <1>3 DEF Shaped, Avoids
<1> QED BY <1>1, <1>2, <1>4 DEF Shaped, Pads

(* fast_copy() keeps the gaps.                                             *)
LEMMA CopyShape == ASSUME Sound, Lengths, Told, Shaped, fast_copy PROVE Shaped'
<1>1. pc = "cfr" /\ UNCHANGED <<conf, source, spos, tm, spool, res, cur, faults>>
  BY DEF fast_copy
<1> DEFINE n == Least(lo.end - lo.src, Len(Src) - lo.src)
<1>2. /\ lo \in Locals /\ lo.src \in Nat /\ lo.end \in Nat /\ lo.dst \in Nat
      /\ Len(Src) \in Nat /\ lo.src = lo.dst
  BY <1>1, SrcProps DEF Sound, Types, Locals, Bytes, Copying
<1>3. n \in Int /\ n <= Len(Src) - lo.src /\ n <= lo.end - lo.src BY <1>2 DEF Least
<1>4. CASE UNCHANGED <<lo, copy>> /\ pc' \in {"pread", "lseek"} BY <1>1, <1>4, ExtentGoes
<1>5. ASSUME NEW k \in 1..n, NEW keep \in BOOLEAN, UNCHANGED pc,
             copy' = [copy EXCEPT ![cur] = Put(copy[cur], lo.dst, Blocks(lo.src, k, keep))],
             lo' = [lo EXCEPT !.src = lo.src + k, !.dst = lo.dst + k]
      PROVE  Shaped'
  <2> DEFINE b == Blocks(lo.src, k, keep)
  <2>1. k \in Nat \ {0} /\ lo.src + k <= Len(Src) /\ lo.src + k <= lo.end BY <1>2, <1>3
  <2>2. b \in Seq(Nat) /\ Len(b) = k BY <1>2, <2>1, BlocksProps DEF Sound
  <2>3. copy' = [copy EXCEPT ![cur] = Put(copy[cur], lo.dst, b)] BY <1>5
  <2>4. lo'.src = lo.src + k /\ lo'.end = lo.end BY <1>2, <1>5 DEF Locals
  <2> HIDE DEF b, n
  <2>5. lo.dst + Len(b) <= lo.end /\ lo.src <= lo.dst /\ lo.src <= lo'.src
          /\ lo'.src \in Nat
    BY <1>2, <2>1, <2>2, <2>4
  <2> QED BY <1>1, <1>2, <1>5, <2>2, <2>3, <2>4, <2>5, ExtentPut
<1> QED BY <1>4, <1>5 DEF fast_copy

(* The lseek of fast_sendfile() keeps the gaps.                            *)
LEMMA SendSeekShape ==
    ASSUME Sound, Told, Shaped, SendSeek PROVE Shaped'
<1>1. pc = "lseek" /\ UNCHANGED <<conf, source, spos, tm, spool, copy, res, cur>>
      /\ pc' \in {"sendfile", "pread"}
  BY DEF SendSeek
<1>2. lo'.src = lo.src /\ lo'.end = lo.end BY DEF SendSeek, Sound, Types, Locals
<1> QED BY <1>1, <1>2, ExtentGoes

(* fast_sendfile() keeps the gaps.                                         *)
LEMMA SendShape == ASSUME Sound, Lengths, Told, Shaped, fast_sendfile PROVE Shaped'
<1>1. pc = "sendfile" /\ UNCHANGED <<conf, source, spos, tm, spool, res, cur, faults>>
  BY DEF fast_sendfile
<1> DEFINE n == Least(lo.end - lo.src, Len(Src) - lo.src)
<1>2. /\ lo \in Locals /\ lo.src \in Nat /\ lo.end \in Nat /\ lo.fpos \in Nat
      /\ Len(Src) \in Nat /\ lo.src = lo.fpos
  BY <1>1, SrcProps DEF Sound, Types, Locals, Bytes, Copying
<1>3. n \in Int /\ n <= Len(Src) - lo.src /\ n <= lo.end - lo.src BY <1>2 DEF Least
<1>4. CASE UNCHANGED <<lo, copy>> /\ pc' = "pread" BY <1>1, <1>4, ExtentGoes
<1>5. ASSUME NEW k \in 1..n, UNCHANGED pc,
             copy' = [copy EXCEPT ![cur] =
                         Put(copy[cur], lo.fpos, Blocks(lo.src, k, FALSE))],
             lo' = [lo EXCEPT !.src = lo.src + k, !.dst = lo.dst + k, !.fpos = lo.fpos + k]
      PROVE  Shaped'
  <2> DEFINE b == Blocks(lo.src, k, FALSE)
  <2>1. k \in Nat \ {0} /\ lo.src + k <= Len(Src) /\ lo.src + k <= lo.end BY <1>2, <1>3
  <2>2. b \in Seq(Nat) /\ Len(b) = k BY <1>2, <2>1, BlocksProps DEF Sound
  <2>3. copy' = [copy EXCEPT ![cur] = Put(copy[cur], lo.fpos, b)] BY <1>5
  <2>4. lo'.src = lo.src + k /\ lo'.end = lo.end BY <1>2, <1>5 DEF Locals
  <2> HIDE DEF b, n
  <2>5. lo.fpos + Len(b) <= lo.end /\ lo.src <= lo.fpos /\ lo.src <= lo'.src
          /\ lo'.src \in Nat
    BY <1>2, <2>1, <2>2, <2>4
  <2> QED BY <1>1, <1>2, <1>5, <2>2, <2>3, <2>4, <2>5, ExtentPut
<1> QED BY <1>4, <1>5 DEF fast_sendfile

(* copy_slow() keeps the gaps.                                             *)
LEMMA SlowShape == ASSUME Sound, Told, Shaped, copy_slow PROVE Shaped'
<1>1. pc = "pread" /\ UNCHANGED <<conf, source, spos, tm, spool, copy, res, cur, faults>>
      /\ pc' \in {"seek", "pwrite"}
  BY DEF copy_slow
<1>2. ASSUME NEW b, lo' = [lo EXCEPT !.buf = b, !.done = 0]
      PROVE  lo'.src = lo.src /\ lo'.end = lo.end
  BY <1>2 DEF Sound, Types, Locals
<1>3. pc' = "pwrite" => lo'.src = lo.src /\ lo'.end = lo.end BY <1>2 DEF copy_slow
<1> QED BY <1>1, <1>3, ExtentGoes

(* io_pwrite() keeps the gaps.                                             *)
LEMMA PwriteShape == ASSUME Sound, Lengths, Told, Shaped, io_pwrite PROVE Shaped'
<1> USE DEF Sound
<1> DEFINE n == Len(lo.buf)
<1>1. pc = "pwrite" /\ UNCHANGED <<conf, source, spos, tm, spool, res, cur, faults>>
  BY DEF io_pwrite
<1>2. PICK k \in 1..(n - lo.done) :
        /\ copy' = [copy EXCEPT ![cur] =
             Put(copy[cur], lo.dst + lo.done, SubSeq(lo.buf, lo.done + 1, lo.done + k))]
        /\ \/ /\ lo.done + k = n /\ pc' = "pread"
              /\ lo' = [lo EXCEPT !.src = lo.src + n, !.dst = lo.dst + n]
           \/ /\ lo.done + k # n /\ pc' = "pwrite" /\ lo' = [lo EXCEPT !.done = lo.done + k]
  BY <1>1 DEF io_pwrite
<1>3. lo \in Locals /\ lo.buf \in Seq(Nat) BY DEF Types, Locals
<1>4. n \in Nat BY <1>3
<1>5. lo.src \in Nat /\ lo.dst \in Nat /\ lo.end \in Nat /\ lo.done \in Nat
  BY <1>3 DEF Locals
<1>6. lo.src + n <= lo.end /\ lo.src = lo.dst
  BY <1>1 DEF Lengths, ExtentLengths, Bytes, Copying, Told
<1> DEFINE b == SubSeq(lo.buf, lo.done + 1, lo.done + k)
           o == lo.dst + lo.done
<1>7. copy' = [copy EXCEPT ![cur] = Put(copy[cur], o, b)] BY <1>2
<1>8. k \in Nat /\ lo.done + k <= n BY <1>4, <1>5
<1>9. b \in Seq(Nat) /\ Len(b) = k BY <1>3, <1>5, <1>8, PartProps
<1>10. lo'.end = lo.end /\ (lo'.src = lo.src \/ lo'.src = lo.src + n)
  BY <1>2, <1>3 DEF Locals
<1>11. pc' \in InExtent \ {"hole"} BY <1>2
<1> HIDE DEF b, n
<1>12. o \in Nat /\ lo.src <= o /\ o + k <= lo.end BY <1>4, <1>5, <1>6, <1>8
<1>13. lo.src <= lo'.src /\ lo'.src \in Nat BY <1>4, <1>5, <1>10
<1> HIDE DEF o
<1> QED BY <1>1, <1>7, <1>9, <1>10, <1>11, <1>12, <1>13, ExtentPut

(* The last ftruncate of copy_extents() keeps the gaps.                    *)
LEMMA ExtentsEndShape == ASSUME Sound, Told, Shaped, ExtentsEnd PROVE Shaped'
<1> USE DEF Sound
<1>1. pc = "trunc" /\ pc' = "size"
      /\ UNCHANGED <<conf, source, spos, tm, spool, res, cur, lo, faults>>
  BY DEF ExtentsEnd
<1>2. cur > 0 /\ copy[cur] \in Seq(Nat) /\ KeepsGaps(copy[cur]) /\ tm.size \in Nat
  BY <1>1, CurProps DEF Flow, Shaped, Filled, Types, Tmpl
<1>3. copy' = copy \/ copy' = [copy EXCEPT ![cur] = Resize(copy[cur], tm.size)]
  BY DEF ExtentsEnd
<1>4. KeepsGaps(Resize(copy[cur], tm.size)) BY <1>2, ResizeKeeps
<1>5. Filled' BY <1>1, <1>2, <1>3, <1>4, FilledPut, FilledSame DEF Shaped
<1>6. Known' /\ TailTrue' BY <1>1, FoundSame DEF Shaped
<1> QED BY <1>1, <1>5, <1>6 DEF Shaped, Avoids, Pads

(* The read of copy_zeros() keeps the gaps.                                *)
LEMMA ZerosShape == ASSUME Sound, Told, Shaped, ZerosRead PROVE Shaped'
<1> USE DEF Sound
<1>1. pc = "zeros" /\ pc' \in {"block", "size"}
      /\ UNCHANGED <<conf, source, spos, tm, spool, res, cur, faults>>
  BY DEF ZerosRead
<1>2. cur > 0 /\ copy[cur] \in Seq(Nat) /\ KeepsGaps(copy[cur]) /\ lo.src \in Nat
  BY <1>1, CurProps DEF Flow, Shaped, Filled, Types, Locals
<1>3. copy' = copy \/ copy' = [copy EXCEPT ![cur] = Resize(copy[cur], lo.src)]
  BY DEF ZerosRead
<1>4. KeepsGaps(Resize(copy[cur], lo.src)) BY <1>2, ResizeKeeps
<1>5. Filled' BY <1>1, <1>2, <1>3, <1>4, FilledPut, FilledSame DEF Shaped
<1>6. Known' /\ TailTrue' BY <1>1, FoundSame DEF Shaped
<1> QED BY <1>1, <1>5, <1>6 DEF Shaped, Avoids, Pads

(* A block of copy_zeros() keeps the gaps.                                 *)
LEMMA BlockShape == ASSUME Sound, Lengths, Told, Shaped, ZerosBlock PROVE Shaped'
<1> USE DEF Sound
<1>1. pc = "block" /\ pc' \in {"zeros", "block"}
      /\ UNCHANGED <<conf, source, spos, tm, spool, res, cur, faults>>
  BY DEF ZerosBlock
<1>2. cur > 0 /\ copy[cur] \in Seq(Nat) /\ KeepsGaps(copy[cur]) /\ lo.src \in Nat
      /\ lo.buf \in Seq(Nat)
  BY <1>1, CurProps DEF Flow, Shaped, Filled, Types, Locals
<1> DEFINE v == Head(lo.buf)
           o == lo.src + 1
<1>3. Known' /\ TailTrue' BY <1>1, FoundSame DEF Shaped
<1>4. Filled'
  <2>1. CASE v = Nul
    <3>1. copy' = copy BY <2>1 DEF ZerosBlock
    <3> QED BY <1>1, <3>1, FilledSame DEF Shaped
  <2>2. CASE v # Nul
    <3>1. copy' = [copy EXCEPT ![cur] = Put(copy[cur], lo.src, <<v>>)]
      BY <2>2 DEF ZerosBlock
    <3>2. lo.buf # <<>> /\ \A j \in 1..Len(lo.buf) : Fits(conf, held, lo.src + j, lo.buf[j])
      BY <1>1 DEF Bytes, Zeroing
    <3>3. v = lo.buf[1] /\ 1 \in 1..Len(lo.buf) /\ v \in Nat BY <1>2, <3>2
    <3>4. Fits(conf, held, o, v) BY <3>2, <3>3
    <3>5. ASSUME o \in Kept PROVE v = Gap
      <4>1. o \in 1..Len(src) /\ Reads(src[o]) = Nul /\ o \in Nat BY <3>5, KeptProps
      <4>2. Exact /\ conf.at = 0 BY DEF Told, Lengths
      <4>3. o + conf.at = o BY <4>1, <4>2
      <4>4. src = conf.content BY <4>2 DEF Exact
      <4>5. Reads(v) = Nul
        <5>1. CASE o > Len(src) /\ Reads(v) = Nul BY <5>1
        <5>2. CASE o \in Offsets(conf) /\ Reads(v) \in held[o]
          <6>1. o <= Len(src) BY <4>1
          <6>2. held[o] = {Reads(src[o])} BY <4>2, <5>2, <6>1 DEF Exact
          <6> QED BY <4>1, <5>2, <6>2
        <5> QED BY <3>4, <4>3, <4>4, <5>1, <5>2 DEF Fits
      <4> QED BY <2>2, <4>5 DEF Reads
    <3> DEFINE b == <<v>>
    <3>6. b \in Seq(Nat) /\ Len(b) = 1 /\ b[1] = v BY <3>3
    <3>7. \A j \in 1..Len(b) : j = 1 BY <3>6
    <3> HIDE DEF b, v
    <3>8. \A j \in 1..Len(b) : lo.src + j \in Kept => b[j] = Gap BY <3>5, <3>6, <3>7
    <3>9. KeepsGaps(Put(copy[cur], lo.src, b)) BY <1>2, <3>6, <3>8, PutKeeps
    <3>10. copy' = [copy EXCEPT ![cur] = Put(copy[cur], lo.src, b)] BY <3>1 DEF b
    <3> QED BY <1>1, <1>2, <3>9, <3>10, FilledPut DEF Shaped
  <2> QED BY <2>1, <2>2
<1> QED BY <1>1, <1>3, <1>4 DEF Shaped, Avoids, Pads

(* apply_size() finds a file that ends where the template does.            *)
LEMMA ApplyShape == ASSUME Sound, Lengths, Told, Shaped, apply_size PROVE Shaped'
<1> USE DEF Sound
<1> DEFINE s == copy[cur]
<1>1. pc = "size" /\ UNCHANGED <<conf, source, spos, tm, spool, cur, faults>>
  BY DEF apply_size
<1>2. cur > 0 /\ s \in Seq(Nat) /\ KeepsGaps(s)
  BY <1>1, CurProps DEF Flow, Shaped, Filled
<1>3. Len(s) = Len(src) /\ Len(src) \in Nat
  <2>1. Exact /\ Len(s) = Rest /\ conf.at = 0 BY <1>1 DEF Lengths, OtherLengths, Told
  <2> QED BY <2>1, RestProps
<1>4. tm.tail <=> Len(src) \in Kept BY <1>1 DEF Shaped, TailTrue
<1>5. pc' \in {"next", "alloc"} BY DEF apply_size, Done
<1>6. Known' /\ TailTrue' BY <1>1, <1>5, FoundSame DEF Shaped
<1>7. CASE conf.size = NoSize
  <2>1. Done("ok") /\ UNCHANGED <<copy, lo>> BY <1>7 DEF apply_size
  <2>2. copy'[cur] = s BY <1>1, <2>1
  <2>3. (Len(src) + 1)..Len(s) = {} BY <1>3
  <2>4. AddsGap(s) BY <2>3 DEF AddsGap
  <2>5. Filled' BY <1>1, <1>2, <2>1, <2>2, <2>4, FilledDone DEF Shaped
  <2> QED BY <1>6, <2>1, <2>5 DEF Shaped, Avoids, Pads, Done
<1>8. CASE conf.size # NoSize /\ (conf.size <= Len(s) \/ conf.sparse \/ tm.tail)
  <2> DEFINE p == Resize(s, conf.size)
  <2>1. Done("ok") /\ copy' = [copy EXCEPT ![cur] = p] BY <1>8 DEF apply_size
  <2>2. conf.size \in Nat BY <1>8, ConfFacts
  <2>3. KeepsGaps(p) BY <1>2, <2>2, ResizeKeeps
  <2>4. Len(p) = conf.size
        /\ \A k \in 1..conf.size : p[k] = IF k <= Len(s) THEN s[k] ELSE Gap
    BY <1>2, <2>2, ResizeProps
  <2> HIDE DEF p
  <2>5. ASSUME NEW k \in (Len(src) + 1)..Len(p) PROVE p[k] = Gap /\ Sparse
    <3>1. k \in 1..conf.size /\ ~(k <= Len(s)) /\ ~(conf.size <= Len(s))
      BY <1>3, <2>2, <2>4
    <3> QED BY <1>4, <1>8, <2>4, <3>1 DEF Sparse
  <2>6. AddsGap(p) BY <2>5 DEF AddsGap
  <2>7. copy'[cur] = p BY <1>1, <1>2, <2>1, CopyAt
  <2>8. Filled' BY <1>1, <1>2, <2>1, <2>3, <2>6, <2>7, FilledDone DEF Shaped
  <2> QED BY <1>6, <2>1, <2>8 DEF Shaped, Avoids, Pads, Done
<1>9. CASE conf.size # NoSize /\ ~(conf.size <= Len(s) \/ conf.sparse \/ tm.tail)
  <2>1. lo' = [lo EXCEPT !.dst = Len(s)] /\ pc' = "alloc" /\ UNCHANGED <<copy, res>>
    BY <1>9 DEF apply_size
  <2>2. Filled' BY <1>1, <2>1, FilledSame DEF Shaped
  <2>3. ~Sparse' BY <1>1, <1>4, <1>9, GapsSame DEF Sparse
  <2>4. lo'.dst = Len(src) BY <1>3, <2>1 DEF Types, Locals
  <2>5. (Len(src) + 1)..Len(s) = {} BY <1>3
  <2>6. Pads'
    <3>1. copy'[cur'] = s /\ src' = src BY <1>1, <2>1
    <3>2. Len(src') <= lo'.dst BY <1>3, <2>4, <3>1
    <3> QED BY <2>1, <2>3, <2>5, <3>1, <3>2 DEF Pads
  <2> QED BY <1>6, <2>1, <2>2, <2>6 DEF Shaped, Avoids
<1> QED BY <1>7, <1>8, <1>9

(* Zeros that fallocate or io_fill() add are no gap.                       *)
LEMMA PadsPut ==
    ASSUME Sound, Shaped, pc \in {"alloc", "fill"}, NEW n \in Nat
    PROVE  LET p == Put(copy[cur], lo.dst, Zeros(n))
           IN  KeepsGaps(p) /\ \A k \in (Len(src) + 1)..Len(p) : p[k] # Gap
<1> USE DEF Sound
<1> DEFINE s == copy[cur]
           z == Zeros(n)
           p == Put(s, lo.dst, z)
<1>1. cur > 0 /\ s \in Seq(Nat) /\ KeepsGaps(s) BY CurProps DEF Flow, Shaped, Filled
<1>2. lo.dst = Len(s) /\ Len(src) <= lo.dst /\ lo.dst \in Nat /\ Len(src) \in Nat
      /\ \A k \in (Len(src) + 1)..Len(s) : s[k] # Gap
  BY DEF Bytes, Growing, Shaped, Pads, Types, Locals
<1>3. z \in Seq(Nat) /\ Len(z) = n /\ \A k \in 1..n : z[k] = Nul BY ZerosProps
<1> HIDE DEF s, z
<1>4. /\ Len(p) = IF lo.dst + Len(z) > Len(s) THEN lo.dst + Len(z) ELSE Len(s)
      /\ \A k \in 1..Len(p) :
           p[k] = IF k \in (lo.dst + 1)..(lo.dst + Len(z)) THEN z[k - lo.dst]
                  ELSE IF k <= Len(s) THEN s[k] ELSE Gap
  <2>1. s \in Seq(Nat) /\ lo.dst \in Nat /\ z \in Seq(Nat) BY <1>1, <1>2, <1>3
  <2> QED BY ONLY <2>1, PutProps, Zenon
<1>5. ASSUME NEW j \in 1..Len(z), lo.dst + j \in Kept PROVE z[j] = Gap
  <2>1. lo.dst + j \in 1..Len(src) BY <1>5, KeptProps
  <2> QED BY <1>2, <1>3, <2>1
<1>6. KeepsGaps(p) BY <1>1, <1>2, <1>3, <1>5, PutKeeps
<1> HIDE DEF p
<1>7. ASSUME NEW k \in (Len(src) + 1)..Len(p) PROVE p[k] # Gap
  <2>1. k \in 1..Len(p) /\ Len(p) = lo.dst + n BY <1>2, <1>3, <1>4
  <2>2. CASE k <= Len(s)
    <3>1. k \notin (lo.dst + 1)..(lo.dst + Len(z)) /\ k \in (Len(src) + 1)..Len(s)
      BY <1>2, <1>3, <2>1, <2>2
    <3> QED BY <1>2, <1>4, <2>1, <2>2, <3>1
  <2>3. CASE ~(k <= Len(s))
    <3>1. k \in (lo.dst + 1)..(lo.dst + Len(z)) /\ k - lo.dst \in 1..n
      BY <1>2, <1>3, <2>1, <2>3
    <3>2. p[k] = Nul BY <1>3, <1>4, <2>1, <3>1
    <3> QED BY <3>2 DEF Nul, Gap
  <2> QED BY <2>2, <2>3
<1> QED BY <1>6, <1>7 DEF s, z, p

(* fast_alloc() keeps the gaps.                                            *)
LEMMA AllocShape == ASSUME Sound, Told, Shaped, fast_alloc PROVE Shaped'
<1> USE DEF Sound
<1>1. pc = "alloc" /\ UNCHANGED <<conf, source, spos, tm, spool, cur, lo, faults>>
  BY DEF fast_alloc
<1>2. cur > 0 /\ conf.size # NoSize /\ ~Sparse BY <1>1 DEF Flow, Shaped, Pads
<1>3. CASE pc' = "fill" /\ UNCHANGED <<copy, res>>
  <2>1. Filled' BY <1>1, <1>3, FilledSame DEF Shaped
  <2>2. Known' /\ TailTrue' BY <1>1, <1>3, FoundSame DEF Shaped
  <2>3. Sparse' = Sparse BY <1>1, GapsSame
  <2>4. Pads' BY <1>1, <1>3, <2>3 DEF Shaped, Pads, source
  <2> QED BY <1>3, <2>1, <2>2, <2>4 DEF Shaped, Avoids
<1>4. CASE /\ copy' = [copy EXCEPT ![cur] = Put(copy[cur], lo.dst,
                Zeros(conf.size - lo.dst))]
           /\ Done("ok")
  <2>1. conf.size - lo.dst \in Nat
    <3>1. lo.dst \in Nat /\ conf.size \in Nat /\ lo.dst <= conf.size
      BY <1>1, <1>2, ConfFacts DEF Types, Locals, Bytes, Growing
    <3> QED BY <3>1
  <2> DEFINE p == Put(copy[cur], lo.dst, Zeros(conf.size - lo.dst))
  <2>2. KeepsGaps(p) /\ \A k \in (Len(src) + 1)..Len(p) : p[k] # Gap
    BY <1>1, <2>1, PadsPut
  <2>3. copy'[cur] = p BY <1>2, <1>4, CopyAt
  <2> HIDE DEF p
  <2>4. AddsGap(p) BY <1>2, <2>2 DEF AddsGap
  <2>5. Filled' BY <1>1, <1>2, <1>4, <2>2, <2>3, <2>4, FilledDone DEF Shaped
  <2>6. pc' = "next" BY <1>4 DEF Done
  <2>7. Known' /\ TailTrue' BY <1>1, <2>6, FoundSame DEF Shaped
  <2> QED BY <2>5, <2>6, <2>7 DEF Shaped, Avoids, Pads
<1> QED BY <1>3, <1>4 DEF fast_alloc

(* io_fill() keeps the gaps.                                               *)
LEMMA FillShape == ASSUME Sound, Told, Shaped, io_fill PROVE Shaped'
<1> USE DEF Sound
<1>1. pc = "fill" /\ UNCHANGED <<conf, source, spos, tm, spool, cur, faults>> BY DEF io_fill
<1>2. cur > 0 /\ conf.size # NoSize /\ ~Sparse BY <1>1 DEF Flow, Shaped, Pads
<1>3. lo.dst \in Nat /\ conf.size \in Nat /\ Buf \in Nat
  BY <1>2, ConfFacts DEF Types, Locals
<1>4. CASE Done("ok") /\ UNCHANGED <<copy, lo>>
  <2>1. \A k \in (Len(src) + 1)..Len(copy[cur]) : copy[cur][k] # Gap
    BY <1>1 DEF Shaped, Pads
  <2>2. AddsGap(copy[cur]) BY <1>2, <2>1 DEF AddsGap
  <2>3. KeepsGaps(copy[cur]) BY <1>2, CurProps DEF Shaped, Filled
  <2>4. copy'[cur] = copy[cur] BY <1>4
  <2>5. Filled' BY <1>1, <1>2, <1>4, <2>2, <2>3, <2>4, FilledDone DEF Shaped
  <2>6. pc' = "next" BY <1>4 DEF Done
  <2>7. Known' /\ TailTrue' BY <1>1, <2>6, FoundSame DEF Shaped
  <2> QED BY <2>5, <2>6, <2>7 DEF Shaped, Avoids, Pads
<1>5. CASE lo.dst # conf.size
  <2>1. PICK n \in 1..Least(Buf, conf.size - lo.dst) :
          /\ copy' = [copy EXCEPT ![cur] = Put(copy[cur], lo.dst, Zeros(n))]
          /\ lo' = [lo EXCEPT !.dst = lo.dst + n]
    BY <1>5 DEF io_fill
  <2>2. UNCHANGED <<pc, res>> BY <1>5 DEF io_fill
  <2>3. n \in Nat BY <1>3, LeastProps
  <2> DEFINE p == Put(copy[cur], lo.dst, Zeros(n))
  <2>4. KeepsGaps(p) /\ \A k \in (Len(src) + 1)..Len(p) : p[k] # Gap
    BY <1>1, <2>3, PadsPut
  <2>5. copy'[cur] = p BY <1>2, <2>1, CopyAt
  <2> HIDE DEF p
  <2>6. Filled' BY <1>1, <1>2, <2>1, <2>2, <2>4, FilledPut DEF Shaped, p
  <2>7. Known' /\ TailTrue' BY <1>1, <2>2, FoundSame DEF Shaped
  <2>8. Sparse' = Sparse BY <1>1, GapsSame
  <2>9. lo'.dst = lo.dst + n BY <2>1 DEF Types, Locals
  <2>10. Len(src) <= lo.dst /\ Len(src) \in Nat BY <1>1 DEF Shaped, Pads, Types
  <2>11. Len(src) <= lo'.dst BY <1>3, <2>3, <2>9, <2>10
  <2>12. Pads' BY <1>1, <1>2, <2>4, <2>5, <2>8, <2>11 DEF Pads, source
  <2> QED BY <1>1, <2>2, <2>6, <2>7, <2>12 DEF Shaped, Avoids
<1> QED BY <1>4, <1>5 DEF io_fill

(* tmpl_close() keeps the gaps.                                            *)
LEMMA CloseShape == ASSUME Sound, Told, Shaped, tmpl_close PROVE Shaped'
<1>1. pc = "close" /\ pc' = "done" /\ UNCHANGED <<conf, source, tm, spool, copy, res, cur,
        lo, faults>>
  BY DEF tmpl_close
<1>2. Filled' BY <1>1, FilledSame DEF Shaped
<1>3. Known' /\ TailTrue' BY <1>1, FoundSame DEF Shaped
<1> QED BY <1>1, <1>2, <1>3 DEF Shaped, Avoids, Pads

(* Before the run there are no files.                                      *)
LEMMA ShapeInit == Init => Shape
<1> SUFFICES ASSUME Init, Told PROVE Shaped
  BY DEF Init, Shape
<1>1. /\ pc = "open" /\ tm = Unread /\ res = [i \in 1..conf.files |-> "none"]
      /\ copy = [i \in 1..conf.files |-> <<>>]
  BY DEF Init, Unread
<1>2. Types BY SoundInit DEF Sound
<1>3. Filled
  <2> SUFFICES ASSUME NEW i \in 1..conf.files
               PROVE  KeepsGaps(copy[i]) /\ ~Finished(i)
    BY DEF Filled
  <2>1. copy[i] = <<>> /\ res[i] = "none" BY <1>1
  <2>2. Len(copy[i]) = 0 BY <2>1
  <2>3. \A k \in Kept : k \in Nat \ {0} BY <1>2, KeptProps
  <2>4. \A k \in Kept : ~(k <= 0) BY <2>3
  <2> QED BY <2>1, <2>2, <2>4 DEF KeepsGaps, Finished
<1>4. Known BY <1>1 DEF Known, Unread
<1> QED BY <1>1, <1>3, <1>4 DEF Shaped, TailTrue, Avoids, Pads, Early, InExtent

(* A call that failed stays failed.                                        *)
LEMMA FaultsGrow ==
    ASSUME faults \in Nat, [Next]_vars
    PROVE  /\ faults' = faults \/ faults' = faults + 1
           /\ CallFails => faults' = faults + 1
<1>1. CASE UNCHANGED vars BY <1>1 DEF vars, CallFails
<1>2. CASE Next
  BY <1>2 DEF Next, vars, tmpl_open, FindTail, spool_open, fast_splice, NextOperand,
     StreamRead,
     io_write, SeekData, SeekHole, fast_copy, SendSeek, fast_sendfile, copy_slow, io_pwrite,
     ExtentsEnd, ZerosRead, ZerosBlock, apply_size, fast_alloc, io_fill, CallFails,
     tmpl_close, OtherChanges, Ended
<1> QED BY <1>1, <1>2

(* The template is told of as a whole throughout, or not to the end.       *)
LEMMA ToldStays ==
    ASSUME Types, faults \in Nat, [Next]_vars, Told'
    PROVE  Told /\ faults' = faults /\ ~OtherChanges /\ ~CallFails
<1>1. changes' = 0 /\ faults' = 0 /\ conf'.at = 0 /\ conf'.kind \in {"plain", "none"}
  BY DEF Told
<1>2. changes = 0 /\ ~OtherChanges BY <1>1, ChangesStay
<1>3. faults = 0 /\ ~CallFails BY <1>1, FaultsGrow
<1>4. conf' = conf
  BY DEF Next, vars, tmpl_open, FindTail, spool_open, fast_splice, NextOperand, StreamRead,
     io_write, SeekData, SeekHole, fast_copy, SendSeek, fast_sendfile, copy_slow, io_pwrite,
     ExtentsEnd, ZerosRead, ZerosBlock, apply_size, fast_alloc, io_fill, CallFails,
     tmpl_close, OtherChanges, Ended
<1> QED BY <1>1, <1>2, <1>3, <1>4 DEF Told

(* Every step keeps the gaps.                                              *)
LEMMA ShapeStep == Sound /\ Lengths /\ Shape /\ [Next]_vars => Shape'
<1> SUFFICES ASSUME Sound, Lengths, Shape, [Next]_vars PROVE Shape' OBVIOUS
<1>1. faults' \in Nat BY FaultsGrow DEF Shape
<1> SUFFICES ASSUME Told' PROVE Shaped' BY <1>1 DEF Shape
<1>2. Told /\ faults' = faults /\ ~OtherChanges /\ ~CallFails
  BY ToldStays DEF Sound, Shape
<1>3. Shaped BY <1>2 DEF Shape
<1>4. CASE UNCHANGED vars
  <2>1. UNCHANGED <<conf, src, tm, copy, res, pc, cur, lo>> BY <1>4 DEF vars, source
  <2>2. Filled' BY <1>3, <2>1, FilledSame DEF Shaped
  <2>3. Gaps' = Gaps /\ Kept' = Kept /\ Sparse' = Sparse BY <2>1, GapsSame
  <2> QED BY <1>3, <2>1, <2>2, <2>3 DEF Shaped, Known, TailTrue, Avoids, Pads
<1> QED BY <1>2, <1>3, <1>4, OpenShape, TailShape, SpoolShape, StreamsShape, NextShape,
           SeekDataShape, SeekHoleShape, CopyShape, SendSeekShape, SendShape, SlowShape,
           PwriteShape, ExtentsEndShape, ZerosShape, BlockShape, ApplyShape, AllocShape,
           FillShape, CloseShape
     DEF Next, Ended

(* The finished files have the gaps of the template.                       *)
LEMMA ShapeLayout == Sound /\ Shape => LayoutKept
<1> SUFFICES ASSUME Sound, Shape, Told PROVE
      \A i \in DOMAIN copy : Finished(i) =>
          \A k \in 1..Len(copy[i]) :
              /\ k \in Kept => copy[i][k] = Gap
              /\ k > Len(src) => (copy[i][k] = Gap <=> conf.sparse \/ Len(src) \in Kept)
  BY DEF LayoutKept, Told, Kept, Gaps
<1> SUFFICES ASSUME NEW i \in DOMAIN copy, Finished(i), NEW k \in 1..Len(copy[i])
             PROVE  /\ k \in Kept => copy[i][k] = Gap
                    /\ k > Len(src) => (copy[i][k] = Gap <=> Sparse)
  BY DEF Sparse
<1>1. i \in 1..conf.files /\ copy[i] \in Seq(Nat) /\ Len(src) \in Nat BY DEF Sound, Types
<1>2. KeepsGaps(copy[i]) /\ AddsGap(copy[i]) BY <1>1 DEF Shape, Shaped, Filled
<1>3. Len(copy[i]) \in Nat /\ k \in Nat /\ k <= Len(copy[i]) BY <1>1
<1>4. k > Len(src) => k \in (Len(src) + 1)..Len(copy[i]) BY <1>1, <1>3
<1> QED BY <1>2, <1>3, <1>4 DEF KeepsGaps, AddsGap

(* Gaps of a template that is read as a whole stay gaps where the system   *)
(* tells of them, blocks of zeros become gaps where it cannot, and what -s *)
(* adds is a gap exactly if --sparse is given or the template ends in one: *)
(* copy_extents(), copy_zeros(), hole_tail(), tail_zero(), apply_size().   *)
THEOREM LayoutTheorem == Spec => []LayoutKept
<1>1. Spec => [](Sound /\ Lengths /\ Shape)
  BY SoundInit, SoundStep, LengthsInit, LengthsStep, ShapeInit, ShapeStep, PTL DEF Spec
<1> QED BY <1>1, ShapeLayout, PTL

==============================================================================
