------------------------------ MODULE MCNewfile ------------------------------
(***************************************************************************)
(* Instances of Newfile for TLC.                                           *)
(***************************************************************************)
EXTENDS NewfileInv, TLC

CONSTANTS a, b, t1, t2, t3, t4

TwoPaths == <<a, b>>
SamePath == <<a, a>>
OnePath  == <<a>>

Temporaries == Permutations(Temps)

(* Linux with O_TMPFILE; renameat2 alone; hard links alone; neither.       *)
Modern == [tmpfile |-> TRUE, noreplace |-> TRUE, hardlink |-> TRUE,
           exchange |-> TRUE, list |-> TRUE, dirsync |-> TRUE]
Renames == [Modern EXCEPT !.tmpfile = FALSE]
Links   == [Renames EXCEPT !.noreplace = FALSE, !.exchange = FALSE]
Bare    == [Links EXCEPT !.hardlink = FALSE, !.dirsync = FALSE]

CreateKernels == {Modern, Renames, Links, Bare}
ModernKernel  == {Modern}

(* Systems that can back up: with and without exchange, and one whose      *)
(* directory can be neither listed nor opened for flushing.                *)
ReplaceKernels == {Modern, Links, [Modern EXCEPT !.exchange = FALSE, !.list = FALSE,
                                                 !.dirsync = FALSE]}

Plain   == [force |-> FALSE, backup |-> "no", content |-> FALSE, owner |-> "keep",
            absolute |-> FALSE, special |-> FALSE]
Filled  == [Plain EXCEPT !.content = TRUE]
Given   == [Plain EXCEPT !.content = TRUE, !.owner = "user", !.special = TRUE]
Grouped == [Plain EXCEPT !.owner = "group", !.absolute = TRUE, !.special = TRUE]
Forced  == [Filled EXCEPT !.force = TRUE]

CreateSpecs  == {Plain, Filled, Given, Grouped}
ReplaceSpecs == {Forced} \cup
    {[Forced EXCEPT !.backup = k] : k \in {"simple", "numbered", "existing"}}
BatchKernels == {Modern, [Links EXCEPT !.list = FALSE]}
BatchSpecs   == {Plain, [Forced EXCEPT !.backup = "simple"],
                [Forced EXCEPT !.backup = "numbered"]}
BackupOnly   == {[Forced EXCEPT !.backup = "simple"]}

Empty       == {{}}
MaybeTaken  == {{}, {a}}
BackedUp    == {{}, {a}, {a, Simple(a), Numbered(a, <<9>>)},
                {a, Numbered(a, <<9>>), Numbered(a, <<1, 1>>), Numbered(a, <<0, 9, 9>>)}}
BatchStarts == {{a}, {a, Simple(a), Numbered(a, <<1>>)}}
PathNames   == Targets

OneNumber   == {<<1>>}
TwoNumbers  == {<<1>>, <<2>>}
ManyNumbers == {<<1>>, <<2>>, <<9>>, <<1, 0>>, <<1, 1>>, <<1, 2>>, <<1, 3>>, <<0, 9, 9>>}

BackupNames == {a, Simple(a), Numbered(a, <<1, 0>>)}
NoNames     == {}
=============================================================================
