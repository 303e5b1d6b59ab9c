---------------------------- MODULE MCCommandLine ----------------------------
(***************************************************************************)
(* Instances of CommandLine for TLC.                                       *)
(***************************************************************************)
EXTENDS CommandLine, TLC

(* The texts over an alphabet, up to n characters.                         *)
Texts(A, n) == UNION {[1..k -> A] : k \in 0..n}

Bare == {<<"x">>, <<"4">>, <<"-">>, <<"--">>}
Few  == Bare \cup {<<"-", "f">>, <<"-", "s">>, <<"-", "f", "s">>, <<"--", "size">>,
                   <<"-", "s", "4">>}
Many == Few \cup {<<"--", "size", "=", "4">>, <<"--", "backup">>,
                  <<"--", "backup", "=", "t">>, <<"--", "backup", "=", "junk">>,
                  <<"--", "force", "=", "4">>, <<"--", "nope">>, <<"--", "help">>,
                  <<"-", "b", "f">>, <<"-", "q", "f">>, <<"-", ":", "s">>}

Orders == Texts(Many, 3) \cup [1..4 -> Few]

(* Every other option once, and the two that exclude each other.           *)
Mode == <<"--", "mode", "=", "u", "=", "r">>
Ref(f) == <<"--", "reference", "=", f>>
Others ==
    {<<a, <<"x">>>> : a \in {<<"-", "A", "p", "v">>, <<"--", "sparse">>, <<"--", "version">>,
                             <<"--", "template", "=", "f">>, Ref("f"), Ref("none"),
                             <<"--", "absolute">>, <<"--", "parents">>, <<"--", "verbose">>}}
    \cup {<<Mode, Ref("f"), <<"x">>>>}

With(opt, texts) == {<<<<"-", opt>>, t, <<"x">>>> : t \in texts}

Sizes  == Texts({"0", "1", "6", "9", "K", "g", "x"}, 4)
Owners == Texts({"1", "4", "5", "6", "u", "g", ":"}, 5)

Clauses == {w \o <<o>> \o p : w \in {<<>>, <<"u">>, <<"g">>, <<"a">>}, o \in {"=", "+", "-"},
                              p \in {<<>>, <<"r">>, <<"s">>, <<"r", "t">>}}
Modes   == Texts({"0", "1", "7", "8"}, 5) \cup Texts({"u", "a", "=", "-", "r", "t", ","}, 4)
           \cup {c \o <<",">> \o d : c, d \in Clauses}

AllLines == Orders \cup Others \cup With("s", Sizes) \cup With("o", Owners)
            \cup With("m", Modes)

Missing == {<<<<"-", "s">>>>, <<<<"x">>, <<"-", "s">>>>,
            <<<<"4">>, <<"x">>, <<"-", "s">>>>}

AnyControl == {Null, <<"t">>, <<"junk">>}
NoControl  == {Null}

(* A user whose name is a number, and ids up to the last of their type.    *)
UserIds  == (<<"u">> :> 3) @@ (<<"1">> :> 7) @@ (<<"u", "u">> :> 15)
GroupIds == <<"g">> :> 2
ModeOf   == <<"f">> :> {<<"u", "r">>, <<"u", "s">>}
=============================================================================
