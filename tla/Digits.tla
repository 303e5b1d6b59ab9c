------------------------------- MODULE Digits --------------------------------
(***************************************************************************)
(* The numbers of numbered backups, as backup.c keeps them: strings of     *)
(* decimal digits of any length, never converted to an integer.            *)
(***************************************************************************)
EXTENDS Integers, Sequences

(* Reference: the number a string of digits stands for.                    *)
Value(d) ==
    LET v[i \in 0..Len(d)] == IF i = 0 THEN 0 ELSE 10 * v[i - 1] + d[i]
    IN  v[Len(d)]

(* strcmp() of two strings of digits says that a comes first.              *)
Before(a, b) ==
    \/ Len(a) < Len(b) /\ a = SubSeq(b, 1, Len(a))
    \/ \E i \in 1..Len(a) : /\ i <= Len(b)
                            /\ a[i] < b[i]
                            /\ SubSeq(a, 1, i - 1) = SubSeq(b, 1, i - 1)

(* digits_cmp(a, b) < 0.                                                   *)
digits_less(a, b) == Len(a) < Len(b) \/ (Len(a) = Len(b) /\ Before(a, b))

(* Mutant: the string that grows is not moved up by one.                   *)
digits_inc_stay(d) ==
    LET low == {i \in 1..Len(d) : d[i] # 9}
        at  == IF low = {} THEN 1 ELSE CHOOSE i \in low : \A j \in low : j <= i
    IN  [k \in 1..Len(d) |->
            IF k < at THEN d[k] ELSE IF k > at THEN 0 ELSE IF low = {} THEN 1 ELSE d[k] + 1]

(* The last digit that is not 9 goes up and the nines after it become 0;   *)
(* a string of nines only grows by a leading 1.                            *)
digits_inc(d) ==
    LET low == {i \in 1..Len(d) : d[i] # 9}
        at  == CHOOSE i \in low : \A j \in low : j <= i
    IN  IF low = {} THEN <<1>> \o [k \in 1..Len(d) |-> 0]
        ELSE [k \in 1..Len(d) |-> IF k < at THEN d[k] ELSE IF k = at THEN d[k] + 1 ELSE 0]

(* backup_split(): a number has no leading zero.                           *)
backup_split(d) == Len(d) > 0 /\ d[1] # 0
=============================================================================
