----------------------------- MODULE MCTemplate ------------------------------
(***************************************************************************)
(* Instances of Template for TLC.                                          *)
(***************************************************************************)
EXTENDS Template

File == [kind |-> "plain", content |-> <<>>, stdin |-> FALSE, at |-> 0,
         layout |-> "known", size |-> NoSize, sparse |-> FALSE, files |-> 1]

(* A whole file with gaps at either end, in the middle or none, with and   *)
(* without blocks of zeros, under every kind of reporting.                 *)
Contents == {<<>>, <<10, 0>>, <<0, 11, 0>>, <<10, 0, 12>>, <<10, 1, 12>>, <<0, 11, 1>>}

Whole == {[File EXCEPT !.content = s, !.layout = l, !.stdin = i] :
             s \in Contents, l \in {"known", "unknown", "hidden"}, i \in BOOLEAN}

(* -s below, at and above the size, with and without --sparse.             *)
Sized == UNION {{c, [c EXCEPT !.size = 1], [c EXCEPT !.size = 4],
                 [c EXCEPT !.size = 4, !.sparse = TRUE]} : c \in Whole}

(* What can only be read once, for one operand and for two.                *)
Streams == UNION {{[File EXCEPT !.content = <<10, 11, 12>>, !.layout = "hidden",
                                !.kind = k, !.stdin = i, !.files = n] :
                      k \in {"overstated", "unsized", "pipe"}, i \in BOOLEAN}
                  \cup {[File EXCEPT !.content = <<10, 0, 12>>, !.stdin = TRUE, !.at = 1,
                                     !.files = n],
                        [File EXCEPT !.content = <<10, 11, 12>>, !.layout = "hidden",
                                     !.kind = "overstated", !.stdin = TRUE, !.at = 1,
                                     !.files = n]} : n \in 1..2}

AllConfs == Sized \cup Streams
            \cup {[File EXCEPT !.content = <<10, 0, 12>>, !.files = 2],
                  [File EXCEPT !.content = <<10, 11>>, !.kind = "overstated",
                               !.layout = "unknown", !.size = 3],
                  [File EXCEPT !.kind = "none", !.size = 3],
                  [File EXCEPT !.kind = "none", !.size = 3, !.sparse = TRUE]}

EndsInGap == {[File EXCEPT !.content = <<10, 0>>]}

AnyChange == {"grow", "shrink", "overwrite"}
Growth    == {"grow"}
=============================================================================
