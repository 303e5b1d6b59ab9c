------------------------------- MODULE MCCrash -------------------------------
(***************************************************************************)
(* Instances of Crash for TLC.                                             *)
(***************************************************************************)
EXTENDS Crash, TLC

CONSTANTS a, t1, t2, t3, t4

SamePath    == <<a, a>>
OnePath     == <<a>>
Temporaries == Permutations(Temps)

Exchanges == [tmpfile |-> TRUE, noreplace |-> TRUE, hardlink |-> TRUE,
              exchange |-> TRUE, list |-> TRUE, dirsync |-> TRUE]
Links     == [Exchanges EXCEPT !.tmpfile = FALSE, !.noreplace = FALSE,
                               !.exchange = FALSE]

Flushing   == {Exchanges, Links}
Unreadable == {[Exchanges EXCEPT !.list = FALSE, !.dirsync = FALSE]}

Plain    == [force |-> FALSE, backup |-> "no", content |-> FALSE, owner |-> "keep",
             absolute |-> FALSE, special |-> FALSE]
Forced   == [Plain EXCEPT !.force = TRUE, !.content = TRUE]
Backed(k) == [Forced EXCEPT !.backup = k]

CrashSpecs == {Plain, Forced, Backed("simple"), Backed("numbered")}
SimpleOnly == {Backed("simple")}

Starts == {{}, {a}, {a, Simple(a)}}
Taken  == {{a}}
NoNames == {}
UpTo3   == {<<1>>, <<2>>, <<3>>}
=============================================================================
