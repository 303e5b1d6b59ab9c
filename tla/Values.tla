-------------------------------- MODULE Values -------------------------------
(***************************************************************************)
(* src/src/parse.c: the values of -s, -o and -m.  A text is a sequence of  *)
(* characters.  The integers have the widths of their types, scaled down;  *)
(* each parser comes with the reference it is checked against.             *)
(***************************************************************************)
EXTENDS Integers, Sequences

CONSTANTS UBits,    \* the width of uintmax_t
          OffBits,  \* the width of off_t, which is signed
          IdBits,   \* the width of uid_t and gid_t
          Kilo,     \* SIZE_K
          Users,    \* name -> id, the password database
          Groups    \* name -> id, the group database

ASSUME ValuesAssumption ==
    /\ UBits \in Nat \ {0} /\ OffBits \in 2..UBits /\ IdBits \in 1..UBits
    /\ Kilo \in Nat \ {0}
    /\ \A n \in DOMAIN Users : Users[n] \in 0..(2^IdBits - 1)
    /\ \A n \in DOMAIN Groups : Groups[n] \in 0..(2^IdBits - 1)

UMax   == 2^UBits - 1
OffMax == 2^(OffBits - 1) - 1     \* off_t_max_value()

Invalid   == [ok |-> FALSE]
Valid(v)  == [ok |-> TRUE, val |-> v]

Decimals == {"0", "1", "2", "3", "4", "5", "6", "7", "8", "9"}
Octals   == Decimals \ {"8", "9"}
Digit    == [c \in Decimals |->
                CASE c = "0" -> 0 [] c = "1" -> 1 [] c = "2" -> 2 [] c = "3" -> 3
                  [] c = "4" -> 4 [] c = "5" -> 5 [] c = "6" -> 6 [] c = "7" -> 7
                  [] c = "8" -> 8 [] c = "9" -> 9]

(* The end of the run of characters of set C that starts at p.             *)
RunEnd(s, p, C) ==
    CHOOSE q \in p..(Len(s) + 1) : /\ \A k \in p..(q - 1) : s[k] \in C
                                   /\ q <= Len(s) => s[q] \notin C

(* The number a text of digits stands for.                                 *)
Number(s, base) ==
    LET v[i \in 0..Len(s)] == IF i = 0 THEN 0 ELSE base * v[i - 1] + Digit[s[i]]
    IN  v[Len(s)]

-----------------------------------------------------------------------------
(* size_multiplier(), 0 for a suffix that is none.                         *)
size_multiplier(suffix) ==
    CASE suffix = <<>> -> 1
      [] suffix \in {<<"K">>, <<"k">>} -> Kilo
      [] suffix \in {<<"M">>, <<"m">>} -> Kilo * Kilo
      [] suffix \in {<<"G">>, <<"g">>} -> Kilo * Kilo * Kilo
      [] OTHER -> 0

(* Mutant: the product is compared, after it has wrapped.                  *)
parse_size_wrap(s) ==
    LET q     == RunEnd(s, 1, Decimals)
        val   == Number(SubSeq(s, 1, q - 1), 10)
        times == size_multiplier(SubSeq(s, q, Len(s)))
    IN  IF q = 1 \/ val > UMax \/ times = 0 \/ (val * times) % 2^UBits > OffMax
        THEN Invalid ELSE Valid((val * times) % 2^UBits)

(* strtoumax() fails past UMax; the limit is divided, so that the product  *)
(* is computed only where it fits.                                         *)
parse_size(s) ==
    LET q     == RunEnd(s, 1, Decimals)
        val   == Number(SubSeq(s, 1, q - 1), 10)
        times == size_multiplier(SubSeq(s, q, Len(s)))
    IN  IF q = 1 \/ val > UMax \/ times = 0 \/ val > OffMax \div times
        THEN Invalid ELSE Valid((val * times) % 2^UBits)

(* Reference: digits and at most one suffix, and the exact product fits.   *)
SizeMeant(s) ==
    LET unit == [c \in {"K", "k", "M", "m", "G", "g"} |->
                    CASE c \in {"K", "k"} -> 1 [] c \in {"M", "m"} -> 2 [] OTHER -> 3]
        meant == {n \in 0..OffMax : \E k \in 1..Len(s) :
                     /\ \A i \in 1..k : s[i] \in Decimals
                     /\ \/ k = Len(s) /\ n = Number(s, 10)
                        \/ /\ k = Len(s) - 1 /\ s[Len(s)] \in DOMAIN unit
                           /\ n = Number(SubSeq(s, 1, k), 10) * Kilo^unit[s[Len(s)]]}
    IN  IF meant = {} THEN Invalid ELSE Valid(CHOOSE n \in meant : TRUE)

-----------------------------------------------------------------------------
(* parse_uint_id(): digits only, within uintmax_t.                         *)
parse_uint_id(s) ==
    IF s = <<>> \/ (\E k \in 1..Len(s) : s[k] \notin Decimals) \/ Number(s, 10) > UMax
    THEN Invalid ELSE Valid(Number(s, 10))

(* Mutant: an id that does not fit its type is cut off.                    *)
id_fits_cut(id) == id % 2^IdBits # 2^IdBits - 1

(* The id survives the cast to its type and is not (uid_t)-1.              *)
id_fits(id) == id % 2^IdBits = id /\ id % 2^IdBits # 2^IdBits - 1

(* lookup_uid() and lookup_gid(): a name comes before a number.            *)
lookup_id(s, names) ==
    LET id == parse_uint_id(s) IN
    IF s \in DOMAIN names THEN Valid(names[s])
    ELSE IF id.ok /\ id_fits(id.val) THEN id ELSE Invalid

(* parse_owner(): the first colon splits; a colon after an owner must be   *)
(* followed by a group.                                                    *)
NoId == [uid |-> Invalid, gid |-> Invalid]

parse_owner(s) ==
    LET q     == RunEnd(s, 1, {s[k] : k \in 1..Len(s)} \ {":"})
        user  == SubSeq(s, 1, q - 1)
        group == SubSeq(s, q + 1, Len(s))
        gid   == IF group = <<>> THEN Invalid ELSE lookup_id(group, Groups)
        uid   == IF user = <<>> THEN Invalid ELSE lookup_id(user, Users)
        bad   == \/ q = Len(s) /\ user # <<>>
                 \/ group # <<>> /\ ~gid.ok
                 \/ user # <<>> /\ ~uid.ok
    IN  IF s = <<>> \/ bad \/ (~uid.ok /\ ~gid.ok) THEN Invalid
        ELSE Valid([uid |-> uid, gid |-> gid])

(* Reference: owner, owner:group or :group; each part a known name, or a   *)
(* number of an id that can be set.                                        *)
IdMeant(s, names) ==
    IF s \in DOMAIN names THEN {names[s]}
    ELSE {n \in 0..(2^IdBits - 2) : /\ s # <<>> /\ \A k \in 1..Len(s) : s[k] \in Decimals
                                    /\ Number(s, 10) = n}

OwnerMeant(s) ==
    LET some(set) == Valid(CHOOSE n \in set : TRUE)
        Part(k)   == SubSeq(s, k + 1, Len(s))
        split     == {k \in 1..Len(s) : s[k] = ":" /\ \A j \in 1..(k - 1) : s[j] # ":"}
    IN  IF split = {}
        THEN IF IdMeant(s, Users) = {} THEN Invalid
             ELSE Valid([NoId EXCEPT !.uid = some(IdMeant(s, Users))])
        ELSE LET k == CHOOSE k \in split : TRUE
                 u == IdMeant(SubSeq(s, 1, k - 1), Users)
                 g == IdMeant(Part(k), Groups)
             IN  IF g = {} \/ (k > 1 /\ u = {}) THEN Invalid
                 ELSE Valid([uid |-> IF k = 1 THEN Invalid ELSE some(u), gid |-> some(g)])

-----------------------------------------------------------------------------
(* The mode bits, from S_IXOTH up to S_ISUID, as the users and what they   *)
(* may do.                                                                 *)
BitAt == <<<<"o", "x">>, <<"o", "w">>, <<"o", "r">>, <<"g", "x">>, <<"g", "w">>,
           <<"g", "r">>, <<"u", "x">>, <<"u", "w">>, <<"u", "r">>,
           <<"o", "t">>, <<"g", "s">>, <<"u", "s">>>>
Bits  == {BitAt[k] : k \in 1..12}     \* CHMOD_MODE_BITS

Who    == {"u", "g", "o", "a"}
Ops    == {"+", "-", "="}
Perms  == {"r", "w", "x", "s", "t"}

(* mode_who() and mode_perms(), of the letters they pass over.             *)
mode_who(who) ==
    IF who = {} \/ "a" \in who THEN Bits ELSE {b \in Bits : b[1] \in who}

mode_perms(perms) == {b \in Bits : b[2] \in perms}

(* Mutant: = only adds.                                                    *)
mode_apply_add(mode, op, who, perms) ==
    CASE op = "=" -> mode \cup perms
      [] op = "+" -> mode \cup perms
      [] op = "-" -> mode \ perms

mode_apply(mode, op, who, perms) ==
    CASE op = "=" -> (mode \ who) \cup perms
      [] op = "+" -> mode \cup perms
      [] op = "-" -> mode \ perms

Octal(n) == {BitAt[k] : k \in {k \in 1..12 : (n \div 2^(k - 1)) % 2 = 1}}

Letters(s, p, q) == {s[k] : k \in p..q}

(* parse_mode(): an octal number, or clauses that a comma separates.       *)
parse_mode(s) ==
    LET clause[p \in 1..(Len(s) + 1), mode \in SUBSET Bits] ==
            IF p > Len(s) THEN Valid(mode)
            ELSE LET q   == RunEnd(s, p, Who)
                     e   == RunEnd(s, q + 1, Perms)
                     who == mode_who(Letters(s, p, q - 1))
                     per == mode_perms(Letters(s, q + 1, e - 1))
                 IN  IF \/ q > Len(s) \/ s[q] \notin Ops
                        \/ e < Len(s) /\ s[e] # ","
                        \/ e = Len(s)
                     THEN Invalid
                     ELSE clause[IF e > Len(s) THEN e ELSE e + 1,
                                 mode_apply(mode, s[q], who, per \cap who)]
    IN  IF s = <<>> THEN Invalid
        ELSE IF s[1] \in Octals
        THEN IF (\A k \in 1..Len(s) : s[k] \in Octals) /\ Number(s, 8) < 2^12
             THEN Valid(Octal(Number(s, 8))) ELSE Invalid
        ELSE clause[1, {}]

(* Reference: octal digits, three bits each from the right, with nothing   *)
(* but zeros before the last four.                                         *)
OctalMeant(s) ==
    LET Bit(d, i) == (Digit[d] \div 2^i) % 2 = 1
        n         == Len(s)
    IN  IF (\E k \in 1..n : s[k] \notin Octals \/ (k <= n - 4 /\ s[k] # "0")) THEN Invalid
        ELSE Valid({BitAt[3 * j + i + 1] : <<j, i>> \in
                       {x \in (0..3) \X (0..2) : x[1] < n /\ Bit(s[n - x[1]], x[2])}})

(* Reference: a bit is set if the last clause that decides on it sets it.  *)
ModeMeant(s) ==
    LET cuts     == {0, Len(s) + 1} \cup {k \in 1..Len(s) : s[k] = ","}
        clauses  == {c \in cuts \X cuts : c[1] < c[2] /\ \A k \in cuts : ~(c[1] < k /\ k < c[2])}
        OpOf(c)  == {k \in (c[1] + 1)..(c[2] - 1) :
                        /\ s[k] \in Ops
                        /\ Letters(s, c[1] + 1, k - 1) \subseteq Who
                        /\ Letters(s, k + 1, c[2] - 1) \subseteq Perms}
        At(c)    == CHOOSE k \in OpOf(c) : TRUE
        For(c)   == mode_who(Letters(s, c[1] + 1, At(c) - 1))
        Named(c) == mode_perms(Letters(s, At(c) + 1, c[2] - 1))
        Decides(c, b) == b \in For(c) /\ (b \in Named(c) \/ s[At(c)] = "=")
        Sets(c, b)    == b \in For(c) \cap Named(c) /\ s[At(c)] # "-"
    IN  IF s # <<>> /\ s[1] \in Octals THEN OctalMeant(s)
        ELSE IF \E c \in clauses : OpOf(c) = {} THEN Invalid
        ELSE Valid({b \in Bits : \E c \in clauses : Sets(c, b) /\
                        \A d \in clauses : d[1] > c[1] => ~Decides(d, b) \/ Sets(d, b)})
=============================================================================
