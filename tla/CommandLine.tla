----------------------------- MODULE CommandLine -----------------------------
(***************************************************************************)
(* src/src/optparse.c, the table of options.c and src/src/spec.c: from the *)
(* command line to struct file_spec.                                       *)
(*                                                                         *)
(* An argument is a sequence of characters, except that "--" and the name  *)
(* of a long option are one each: <<"--", "size", "=", "4", "K">>,         *)
(* <<"-", "f", "s">>, <<"--">>, <<"-">>, <<"x">>.  argv[0] is left out.    *)
(***************************************************************************)
EXTENDS Values

CONSTANTS Lines,     \* the command lines
          Controls,  \* the values of VERSION_CONTROL, Null if it is not set
          RefMode,   \* the mode of each file that --reference can stat
          Euid,      \* geteuid()
          Null

VARIABLES line,      \* the command line as given
          env,       \* VERSION_CONTROL
          argv,      \* the arguments, as permute() leaves them
          perm,      \* end and i of permute()
          opt_ind, nextchar,
          args,      \* struct spec_args
          spec,      \* struct file_spec
          seen,      \* history: the options optparse_long() returned
          pc, out    \* what comes next, and how it ended

vars == <<line, env, argv, perm, opt_ind, nextchar, args, spec, seen, pc, out>>

-----------------------------------------------------------------------------
(* The table of options.c.  A value of more than one letter has no short   *)
(* form; build_tables() makes optstring and long_opts from it.             *)
Opt(name, val, arg) == [name |-> name, val |-> val, arg |-> arg]

options ==
    {Opt("mode", "m", "required"), Opt("owner", "o", "required"),
     Opt("reference", "reference", "required"), Opt("size", "s", "required"),
     Opt("sparse", "sparse", "none"), Opt("template", "template", "required"),
     Opt("parents", "p", "none"), Opt("force", "f", "none"),
     Opt("backup", "backup", "optional"), Opt(Null, "b", "none"),
     Opt("absolute", "A", "none"), Opt("verbose", "v", "none"),
     Opt("help", "help", "none"), Opt("version", "version", "none")}

Letters1  == {"m", "o", "s", "p", "f", "b", "A", "v"}
Short(c)  == {o \in options : o.val = c /\ c \in Letters1}
Long(n)   == {o \in options : o.name = n}
Only(set) == CHOOSE o \in set : TRUE

IsDashes(arg) == arg = <<"--">>
IsLong(arg)   == arg # <<>> /\ arg[1] = "--" /\ Len(arg) > 1
IsShort(arg)  == arg # <<>> /\ arg[1] = "-" /\ Len(arg) > 1
HasValue(arg) == Len(arg) > 2 /\ arg[3] = "="
ValueOf(arg)  == SubSeq(arg, 4, Len(arg))

Init ==
    /\ line \in Lines
    /\ env \in Controls
    /\ argv = line
    /\ perm = [end |-> 1, i |-> 1]
    /\ opt_ind = 1 /\ nextchar = 0
    /\ args = [mode |-> Null, owner |-> Null, reference |-> Null, size |-> Null]
    /\ spec = [flags |-> {}, control |-> Null, template |-> Null, mode |-> {}, size |-> 0,
               owner |-> NoId, changes |-> FALSE]
    /\ seen = <<>>
    /\ pc = "permute" /\ out = "none"

-----------------------------------------------------------------------------
(* long_takes_arg(): spelled in full, without a value of its own.          *)
long_takes_arg(arg) ==
    ~HasValue(arg) /\ \E o \in Long(arg[2]) : o.arg = "required"

(* cluster_takes_arg(): the first letter that takes an argument is the     *)
(* last of the cluster, and no colon comes before it.                      *)
cluster_takes_arg(arg) ==
    LET takes == {k \in 2..Len(arg) : \E o \in Short(arg[k]) : o.arg = "required"}
    IN  takes = {Len(arg)} /\ \A k \in 2..Len(arg) : arg[k] # ":"

(* Moves argv[middle..last) in front of argv[first..middle).               *)
reverse(a, first, last) ==
    [k \in 1..Len(a) |-> IF first <= k /\ k < last THEN a[first + last - 1 - k] ELSE a[k]]

(* Mutant: the part that is moved is not turned round again.               *)
rotate_turned(a, first, middle, last) ==
    reverse(reverse(a, first, middle), first, last)

rotate(a, first, middle, last) ==
    reverse(reverse(reverse(a, first, middle), middle, last), first, last)

(* One turn of the loop of permute(), which brings the options to the      *)
(* front, each with the argument that follows it.                          *)
permute ==
    /\ pc = "permute"
    /\ IF perm.i > Len(argv) THEN pc' = "option" /\ UNCHANGED <<argv, perm>>
       ELSE LET i     == perm.i
                arg   == argv[i]
                takes == \/ IsLong(arg) /\ long_takes_arg(arg)
                         \/ IsShort(arg) /\ cluster_takes_arg(arg)
                n     == IF takes /\ i < Len(argv) THEN 2 ELSE 1
            IN  CASE IsDashes(arg) -> /\ argv' = rotate(argv, perm.end, i, i + 1)
                                      /\ pc' = "option" /\ UNCHANGED perm
                  [] IsLong(arg) \/ IsShort(arg) ->
                         /\ argv' = rotate(argv, perm.end, i, i + n)
                         /\ perm' = [end |-> perm.end + n, i |-> i + n]
                         /\ UNCHANGED pc
                  [] OTHER -> perm' = [perm EXCEPT !.i = i + 1] /\ UNCHANGED <<argv, pc>>
    /\ UNCHANGED <<line, env, opt_ind, nextchar, args, spec, seen, out>>

-----------------------------------------------------------------------------
(* What a call of optparse_long() returns, with opt_arg, opt_ind and       *)
(* nextchar as it leaves them.                                             *)
Ret(val, arg, ind, next) == [val |-> val, arg |-> arg, ind |-> ind, next |-> next]

parse_long ==
    LET arg  == argv[opt_ind]
        ind  == opt_ind + 1
        o    == Only(Long(arg[2]))
    IN  IF Long(arg[2]) = {} THEN Ret("?", Null, ind, 0)
        ELSE CASE o.arg = "required" ->
                    IF HasValue(arg) THEN Ret(o.val, ValueOf(arg), ind, 0)
                    ELSE IF ind <= Len(argv) THEN Ret(o.val, argv[ind], ind + 1, 0)
                    ELSE Ret(":", Null, ind, 0)
               [] o.arg = "optional" ->
                    Ret(o.val, IF HasValue(arg) THEN ValueOf(arg) ELSE Null, ind, 0)
               [] OTHER -> Ret(IF HasValue(arg) THEN "=" ELSE o.val, Null, ind, 0)

(* at is where nextchar points.                                            *)
parse_short(at) ==
    LET arg  == argv[opt_ind]
        c    == arg[at]
        last == at = Len(arg)
    IN  IF Short(c) = {} \/ Only(Short(c)).arg = "none"
        THEN Ret(IF Short(c) = {} THEN "?" ELSE c, Null,
                 IF last THEN opt_ind + 1 ELSE opt_ind, IF last THEN 0 ELSE at + 1)
        ELSE IF ~last THEN Ret(c, SubSeq(arg, at + 1, Len(arg)), opt_ind + 1, 0)
        ELSE IF opt_ind < Len(argv) THEN Ret(c, argv[opt_ind + 1], opt_ind + 2, 0)
        ELSE Ret(":", Null, opt_ind + 1, 0)

optparse_long ==
    IF nextchar # 0 THEN parse_short(nextchar)
    ELSE IF opt_ind > Len(argv) THEN Ret("end", Null, opt_ind, 0)
    ELSE CASE IsDashes(argv[opt_ind]) -> Ret("end", Null, opt_ind + 1, 0)
           [] IsLong(argv[opt_ind])   -> parse_long
           [] IsShort(argv[opt_ind])  -> parse_short(2)
           [] OTHER -> Ret("end", Null, opt_ind, 0)

Flag(f) == spec' = [spec EXCEPT !.flags = @ \cup {f}] /\ UNCHANGED args
Arg(a)  == args' = [args EXCEPT ![a[1]] = a[2]] /\ UNCHANGED spec

(* spec_option(), for the options that do not end the run.                 *)
spec_option(val, arg) ==
    CASE val = "m" -> Arg(<<"mode", arg>>)
      [] val = "o" -> Arg(<<"owner", arg>>)
      [] val = "reference" -> Arg(<<"reference", arg>>)
      [] val = "s" -> /\ spec' = [spec EXCEPT !.flags = @ \cup {"s"}]
                      /\ args' = [args EXCEPT !.size = arg]
      [] val = "template" -> spec' = [spec EXCEPT !.template = arg] /\ UNCHANGED args
      [] val = "backup" -> /\ spec' = [spec EXCEPT !.flags = @ \cup {"b"},
                                         !.control = IF arg = Null THEN @ ELSE arg]
                           /\ UNCHANGED args
      [] OTHER -> Flag(val)

(* One turn of the loop of spec_parse().  help and version end the run,    *)
(* and so does spec_misuse().                                              *)
Option ==
    LET r == optparse_long IN
    /\ pc = "option"
    /\ opt_ind' = r.ind /\ nextchar' = r.next
    /\ IF r.val = "end"
       THEN pc' = "check" /\ UNCHANGED <<args, spec, seen, out>>
       ELSE /\ seen' = Append(seen, <<r.val, r.arg>>)
            /\ IF r.val \in {"help", "version", "?", ":", "="}
               THEN /\ out' = IF r.val \in {"help", "version"} THEN r.val ELSE "usage"
                    /\ pc' = "done" /\ UNCHANGED <<args, spec>>
               ELSE spec_option(r.val, r.arg) /\ UNCHANGED <<pc, out>>
    /\ UNCHANGED <<line, env, argv, perm>>

Exit(how) == out' = how /\ pc' = "done" /\ UNCHANGED spec

backup_control_known ==
    {<<"simple">>, <<"never">>, <<"none">>, <<"off">>, <<"numbered">>, <<"t">>,
     <<"existing">>, <<"nil">>}

(* spec_parse() after the options, and spec_check().                       *)
spec_check ==
    LET backup  == {"b", "f"} \subseteq spec.flags
        control == IF spec.control # Null THEN spec.control
                   ELSE IF env # Null THEN env ELSE <<"existing">>
    IN  /\ pc = "check"
        /\ IF opt_ind = Len(argv) + 1 THEN Exit("usage")
           ELSE IF args.mode # Null /\ args.reference # Null THEN Exit("exclusive")
           ELSE IF backup /\ control \notin backup_control_known THEN Exit("control")
           ELSE /\ spec' = IF backup THEN [spec EXCEPT !.control = control] ELSE spec
                /\ pc' = "values" /\ UNCHANGED out
        /\ UNCHANGED <<line, env, argv, perm, opt_ind, nextchar, args, seen>>

Default == {b \in Bits : b[2] \in {"r", "w"}}

spec_values ==
    LET mode  == IF args.reference # Null
                 THEN IF args.reference \in DOMAIN RefMode
                      THEN Valid(RefMode[args.reference]) ELSE Invalid
                 ELSE IF args.mode # Null THEN parse_mode(args.mode) ELSE Valid(Default)
        owner == IF args.owner # Null THEN parse_owner(args.owner) ELSE Valid(NoId)
        size  == IF "s" \in spec.flags THEN parse_size(args.size) ELSE Valid(0)
    IN  /\ pc = "values"
        /\ IF ~mode.ok THEN Exit(IF args.reference # Null THEN "stat" ELSE "mode")
           ELSE IF ~owner.ok THEN Exit("owner")
           ELSE IF ~size.ok THEN Exit("size")
           ELSE /\ spec' = [spec EXCEPT !.mode = mode.val, !.owner = owner.val,
                                        !.size = size.val,
                                        !.changes = /\ owner.val.uid.ok
                                                    /\ owner.val.uid.val # Euid]
                /\ out' = "run" /\ pc' = "done"
        /\ UNCHANGED <<line, env, argv, perm, opt_ind, nextchar, args, seen>>

Ended == pc = "done" /\ UNCHANGED vars

Next == permute \/ Option \/ spec_check \/ spec_values \/ Ended

Spec == Init /\ [][Next]_vars

-----------------------------------------------------------------------------
(* Reference: the line read from left to right, without moving anything:   *)
(* the options with their arguments up to the first that ends the run, and *)
(* the operands.                                                           *)
Seen(val, arg, rest) == [rest EXCEPT !.opts = <<<<val, arg>>>> \o @]
Nothing              == [opts |-> <<>>, files |-> <<>>]
Stop(val)            == Seen(val, Null, Nothing)

Reading ==
    LET n == Len(line)
        read[i \in 1..(n + 1), k \in 0..10] ==
            IF i > n THEN Nothing
            ELSE LET arg   == line[i]
                     set   == IF k > 0 THEN Short(arg[k]) ELSE Long(arg[2])
                     o     == Only(set)
                     own   == IF k > 0 THEN k < Len(arg) ELSE HasValue(arg)
                     value == IF k > 0 THEN SubSeq(arg, k + 1, Len(arg)) ELSE ValueOf(arg)
                     after == IF k > 0 /\ own THEN read[i, k + 1] ELSE read[i + 1, 0]
                 IN  CASE k = 0 /\ IsDashes(arg) ->
                               [Nothing EXCEPT !.files = SubSeq(line, i + 1, n)]
                       [] k = 0 /\ IsShort(arg) -> read[i, 2]
                       [] k = 0 /\ ~IsDashes(arg) /\ ~IsShort(arg) /\ ~IsLong(arg) ->
                               [read[i + 1, 0] EXCEPT !.files = <<arg>> \o @]
                       [] OTHER ->
                            IF set = {} THEN Stop("?")
                            ELSE IF o.val \in {"help", "version"} /\ ~own THEN Stop(o.val)
                            ELSE CASE o.arg = "none" ->
                                        IF k = 0 /\ own THEN Stop("=")
                                        ELSE Seen(o.val, Null, after)
                                   [] o.arg = "optional" ->
                                        Seen(o.val, IF own THEN value ELSE Null, read[i + 1, 0])
                                   [] own /\ o.arg = "required" -> Seen(o.val, value, read[i + 1, 0])
                                   [] ~own /\ o.arg = "required" ->
                                        IF i = n THEN Stop(":")
                                        ELSE Seen(o.val, line[i + 1], read[i + 2, 0])
    IN  read[1, 0]

EndsIn(val) == Reading.opts # <<>> /\ Reading.opts[Len(Reading.opts)][1] = val

(* The options, their arguments and the operands are those of the line     *)
(* read from left to right, wherever on it they stand: permute() and       *)
(* optparse_long() agree on which argument belongs to which option.  A     *)
(* line that ends in an option without its argument is not covered.        *)
ParsedAsWritten ==
    pc \in {"check", "done"} /\ ~EndsIn(":") =>
        /\ seen = Reading.opts
        /\ pc = "check" => SubSeq(argv, opt_ind, Len(argv)) = Reading.files

(* -s gives exactly the number of bytes that is written, or is refused:    *)
(* nothing overflows in parse_size().                                      *)
SizeExact ==
    /\ out = "run" /\ args.size # Null => SizeMeant(args.size) = Valid(spec.size)
    /\ out = "size" => ~SizeMeant(args.size).ok

(* -o gives exactly the ids that are named, never one that the cast to     *)
(* uid_t made and never (uid_t)-1, which chown(2) reads as no change,      *)
(* unless the database itself says so.                                     *)
IdExact ==
    /\ out = "run" /\ args.owner # Null => OwnerMeant(args.owner) = Valid(spec.owner)
    /\ out = "owner" => ~OwnerMeant(args.owner).ok

(* -m gives the bits that octal digits, or the clauses from left to right, *)
(* stand for: parse_mode() with mode_who(), mode_perms(), mode_apply().    *)
ModeExact ==
    /\ out = "run" /\ args.mode # Null => ModeMeant(args.mode) = Valid(spec.mode)
    /\ out = "mode" => ~ModeMeant(args.mode).ok

-----------------------------------------------------------------------------
(* Stated by a test and refuted: see the README on findings.               *)

(* A line that ends in an option without its argument is refused.          *)
MissingReported == out # "none" /\ EndsIn(":") => out = "usage"
=============================================================================
