----------------------------- MODULE WrapperArgs -----------------------------
(***************************************************************************)
(* The command line of the Bazel wrapper (BazelWrapper of kleaf/bazel.py):  *)
(* what it takes from the user's words, what it adds, the bazelrc files it  *)
(* generates, the directories it makes and removes, and whether it becomes  *)
(* Bazel or runs it as a child.  A word is a string; an option with its     *)
(* value after "=" is the option's name and "=", one whose value the wrapper *)
(* refuses is the name and "=?".                                           *)
(***************************************************************************)
EXTENDS Naturals, Sequences, SequencesExt

CONSTANTS
    StartupWord,    \* words a user gives before the command
    Command,        \* commands of Bazel
    ArgWord,        \* words a user gives after the command
    MaxStartup,     \* bound: words before the command
    MaxArgs         \* bound: words after the command

VARIABLES
    argv,       \* the words of the user
    known,      \* known_startup_options, known_args and what is left over of them
    argsAt,     \* "new", "parsed", "ready", "execed", "child", "ended"
    startup,    \* transformed_startup_options
    final,      \* the arguments of the Bazel binary
    rcFiles,    \* generated files of $OUT_DIR/bazel/bazelrc
    outDirs,    \* of "cache" and "path", those that exist
    exitCode    \* exit code of the wrapper; Unset before it ends

argsVars == <<argv, known, argsAt, startup, final, rcFiles, outDirs, exitCode>>

Unset == -1

Plain == Command \cup {"kleaf", "targets", "VALUE"}    \* no "-" in front

Concat(s, t) == s \o t
Joined(options) == {Concat(o, "=") : o \in options}
Refused(options) == {Concat(o, "=?") : o \in options}

StartupFlag == {"--help"}
StartupValued == {"--output_root", "--output_user_root", "--stdout_stderr_regex_allowlist"}

CommandFlag ==
    {"--experimental_strip_sandbox_path", "--strip_execroot", "--make_keep_going",
     "--ignore_missing_projects", "--kleaf_localversion", "--nokleaf_localversion",
     "--incompatible_hermetic_actions", "--noincompatible_hermetic_actions"}
CommandValued ==
    {"--use_prebuilt_gki", "--make_jobs", "--cache_dir", "--repo_manifest",
     "--extra_git_project", "--user_clang_toolchain"}
TakesAnyWord == {"--use_prebuilt_gki", "--extra_git_project"}

\* The option that names a bazelrc file: of the sources, and of the generated directory.
SourceRc ==
    [configs |-> "--bazelrc=configs", stamp |-> "--bazelrc=stamp",
     stamp_extra |-> "--bazelrc=stamp_extra", release |-> "--bazelrc=release",
     cache_dir |-> "--bazelrc=cache_dir", hermetic_actions |-> "--bazelrc=hermetic_actions",
     toolchains |-> "--bazelrc=toolchains", network |-> "--bazelrc=network",
     common |-> "--bazelrc=common"]
GenRc ==
    [configs |-> "--bazelrc=gen/configs", stamp |-> "--bazelrc=gen/stamp",
     stamp_extra |-> "--bazelrc=gen/stamp_extra", release |-> "--bazelrc=gen/release",
     cache_dir |-> "--bazelrc=gen/cache_dir",
     hermetic_actions |-> "--bazelrc=gen/hermetic_actions",
     toolchains |-> "--bazelrc=gen/toolchains", network |-> "--bazelrc=gen/network",
     common |-> "--bazelrc=gen/common"]
Rc == DOMAIN GenRc

\* No user names a file the wrapper is about to generate, nor writes "--" before the
\* command, which Bazel does not take; commands are no options.
ASSUME WrapperArgsAssumption ==
    /\ MaxStartup \in Nat /\ MaxArgs \in Nat
    /\ "--" \notin StartupWord \cup Command
    /\ Command \cap (StartupValued \cup CommandValued) = {}
    /\ \A rc \in Rc : GenRc[rc] \notin StartupWord \cup Command \cup ArgWord

-----------------------------------------------------------------------------
(* BazelWrapper.__init__: the words in front of the command, after it, after "--" *)

CommandIdx(a) == SelectInSeq(a, LAMBDA w : w \in Plain)

StartupOptions(a) == IF CommandIdx(a) = 0 THEN a ELSE SubSeq(a, 1, CommandIdx(a) - 1)
CommandOf(a) == IF CommandIdx(a) = 0 THEN <<>> ELSE <<a[CommandIdx(a)]>>
Remaining(a) == IF CommandIdx(a) = 0 THEN <<>> ELSE SubSeq(a, CommandIdx(a) + 1, Len(a))

\* Mutant: the last "--" splits the words.
LastDashDash(words) == SelectLastInSeq(words, LAMBDA w : w = "--")

DashDash(words) == SelectInSeq(words, LAMBDA w : w = "--")

CommandArgs(a) ==
    LET r == Remaining(a) IN IF DashDash(r) = 0 THEN r ELSE SubSeq(r, 1, DashDash(r) - 1)
TargetPatterns(a) ==
    LET r == Remaining(a) IN IF DashDash(r) = 0 THEN <<>> ELSE SubSeq(r, DashDash(r), Len(r))

\* ArgumentParser.parse_known_args: options it knows, in order, the words left over,
\* the option whose value comes next, and whether it refuses.
ParseOne(parser, p, w) ==
    CASE p.wants # "" ->
           IF w = "VALUE" \/ (w \in Plain /\ p.wants \in TakesAnyWord)
           THEN [p EXCEPT !.known = Append(@, p.wants), !.wants = ""]
           ELSE [p EXCEPT !.bad = TRUE]
      [] p.wants = "" /\ w \in parser.flags -> [p EXCEPT !.known = Append(@, w)]
      [] p.wants = "" /\ w \in parser.valued -> [p EXCEPT !.wants = w]
      [] OTHER ->
           IF w \in Joined(parser.valued)
           THEN [p EXCEPT !.known = Append(@, CHOOSE o \in parser.valued : Concat(o, "=") = w)]
           ELSE IF w \in Refused(parser.valued) THEN [p EXCEPT !.bad = TRUE]
           ELSE [p EXCEPT !.rest = Append(@, w)]

NothingParsed == [known |-> <<>>, rest |-> <<>>, wants |-> "", bad |-> FALSE]

ParseKnown(words, parser) ==
    FoldLeft(LAMBDA p, w : ParseOne(parser, p, w), NothingParsed, words)

StartupParser == [flags |-> StartupFlag, valued |-> StartupValued]
CommandParser == [flags |-> CommandFlag, valued |-> CommandValued]

KnownStartup(a) == ParseKnown(StartupOptions(a), StartupParser)
KnownArgs(a) == ParseKnown(CommandArgs(a), CommandParser)

Rejected(p) == p.bad \/ p.wants # ""
Given(p, o) == Contains(p.known, o)

\* A switch and its negation: the last one on the command line wins.
SwitchedOn(words, on, off, default) ==
    LET i == SelectLastInSeq(words, LAMBDA w : w \in {on, off})
    IN  IF i = 0 THEN default ELSE words[i] = on

StripsExecroot(k) ==
    \E o \in {"--strip_execroot", "--experimental_strip_sandbox_path"} : Given(k, o)
HermeticActions(k) ==
    SwitchedOn(k.known, "--incompatible_hermetic_actions",
               "--noincompatible_hermetic_actions", FALSE)

\* What the environment of Bazel tells workspace_status_stamp.py.
StampEnv(words) ==
    [manifest     |-> Contains(words, "--repo_manifest"),
     extra        |-> Contains(words, "--extra_git_project"),
     ignore       |-> Contains(words, "--ignore_missing_projects"),
     localversion |-> SwitchedOn(words, "--kleaf_localversion", "--nokleaf_localversion", TRUE)]

\* Bazel's own arguments: those left over, and what the wrapper's options stand for.
TransformedArgs(k, tty) ==
    k.rest
    \o (IF StripsExecroot(k) /\ tty THEN <<"--color=yes">> ELSE <<>>)
    \o (IF Given(k, "--use_prebuilt_gki")
        THEN <<"--use_prebuilt_gki", "--config=internet">> ELSE <<>>)

AsksForKleaf(a, args) == CommandOf(a) = <<"help">> /\ IsPrefix(<<"kleaf">>, args)

\* `bazel help kleaf targets` becomes a query that ignores the other arguments.
AsksForTargets(a, args) == AsksForKleaf(a, args) /\ IsPrefix(<<"kleaf", "targets">>, args)

CommandAndArgs(a, args) ==
    IF AsksForTargets(a, args)
    THEN <<"query", "--keep_going", "--ui_event_filters=-error", "--noshow_progress",
           "kind(kernel_build)">>
    ELSE CommandOf(a) \o args

-----------------------------------------------------------------------------
(* The bazelrc files *)

GeneratedRc(hermetic) ==
    {"stamp_extra", "cache_dir"} \cup IF hermetic THEN {"hermetic_actions"} ELSE {}

\* Groups of files in the order of the command line, in which later ones win.
RcOrder(hermetic) ==
    <<"configs", "stamp", "stamp_extra", "release", "cache_dir">>
    \o (IF hermetic THEN <<"hermetic_actions">> ELSE <<>>)
    \o <<"toolchains", "network", "common">>

\* Kleaf in a module of its own: each file is rewritten into the generated directory.
RcWritten(hermetic, top) ==
    IF top THEN GeneratedRc(hermetic) ELSE ToSet(RcOrder(hermetic))

RcOption(rc, written) == IF rc \in written THEN GenRc[rc] ELSE SourceRc[rc]

TransformedStartup(help, rest, hermetic, top) ==
    LET rcs == RcOrder(hermetic)
        written == RcWritten(hermetic, top)
    IN  IF help
        THEN <<"--help">> \o rest
        ELSE <<"--host_jvm_args=-Djava.io.tmpdir=">>
             \o [i \in DOMAIN rcs |-> RcOption(rcs[i], written)]
             \o rest \o <<"--output_user_root=">>

-----------------------------------------------------------------------------
(* The steps of one invocation *)

ArgsInit ==
    /\ \E s \in BoundedSeq(StartupWord, MaxStartup) :
          \/ argv = s
          \/ \E c \in Command, r \in BoundedSeq(ArgWord, MaxArgs) : argv = s \o <<c>> \o r
    /\ argsAt = "new" /\ known = <<>> /\ startup = <<>> /\ final = <<>>
    /\ rcFiles = {} /\ outDirs \in {{}, {"cache", "path"}} /\ exitCode = Unset

EndArgs(code) == argsAt' = "ended" /\ exitCode' = code

\* _get_workspace_dir finds no boundary file in any parent.
NoWorkspace ==
    /\ argsAt = "new" /\ EndArgs(1)
    /\ UNCHANGED <<argv, known, startup, final, rcFiles, outDirs>>

\* The constructor: argparse ends the program for a word it refuses.
Construct ==
    /\ argsAt = "new"
    /\ LET s == KnownStartup(argv)
           k == KnownArgs(argv)
           help == Given(s, "--help")
           hermetic == HermeticActions(k) IN
       IF Rejected(s) \/ Rejected(k)
       THEN EndArgs(2) /\ UNCHANGED <<known, startup, rcFiles, outDirs>>
       ELSE \E top \in BOOLEAN :
              /\ argsAt' = "parsed" /\ UNCHANGED exitCode
              /\ known' = [startup |-> s.known, args |-> k]
              /\ startup' = TransformedStartup(help, s.rest, hermetic, top)
              /\ rcFiles' = IF help THEN rcFiles ELSE rcFiles \cup RcWritten(hermetic, top)
              /\ outDirs' = outDirs \cup IF hermetic THEN {"path"} ELSE {}
    /\ UNCHANGED <<argv, final>>

BuildFinalArgs ==
    /\ argsAt = "parsed" /\ argsAt' = "ready"
    /\ \E tty \in BOOLEAN :
          final' = startup \o CommandAndArgs(argv, TransformedArgs(known.args, tty))
                   \o TargetPatterns(argv)
    /\ outDirs' = IF CommandOf(argv) = <<"clean">> THEN outDirs \ {"cache"}
                                                   ELSE outDirs \cup {"cache"}
    /\ UNCHANGED <<argv, known, startup, rcFiles, exitCode>>

Allowlisted == Contains(known.startup, "--stdout_stderr_regex_allowlist")

\* Mutant: `clean` alone does not keep the wrapper alive.
RunsUnlessPlain(cmd) == StripsExecroot(known.args) \/ Allowlisted

ShouldRunAsSubprocess(cmd) ==
    StripsExecroot(known.args) \/ cmd = <<"clean">> \/ Allowlisted

\* `bazel help kleaf` ends in _print_help; otherwise Bazel starts.
StartBazel ==
    /\ argsAt = "ready"
    /\ LET args == TransformedArgs(known.args, FALSE) IN
       IF AsksForKleaf(argv, args) /\ ~AsksForTargets(argv, args)
       THEN EndArgs(0)
       ELSE /\ argsAt' = IF ShouldRunAsSubprocess(CommandOf(argv)) THEN "child" ELSE "execed"
            /\ UNCHANGED exitCode
    /\ UNCHANGED <<argv, known, startup, final, rcFiles, outDirs>>

ExecedEnds ==
    /\ argsAt = "execed" /\ \E code \in {0, 1} : EndArgs(code)
    /\ UNCHANGED <<argv, known, startup, final, rcFiles, outDirs>>

\* remove_gen_dirs reads gen_bazelrc_dir, which --help has left unset: AttributeError.
ChildEnds ==
    /\ argsAt = "child"
    /\ IF CommandOf(argv) = <<"clean">> /\ Contains(known.startup, "--help")
       THEN EndArgs(1) /\ UNCHANGED <<rcFiles, outDirs>>
       ELSE /\ \E code \in {0, 1} : EndArgs(code)
            /\ IF CommandOf(argv) = <<"clean">>
               THEN rcFiles' = {} /\ outDirs' = outDirs \ {"path"}
               ELSE UNCHANGED <<rcFiles, outDirs>>
    /\ UNCHANGED <<argv, known, startup, final>>

ArgsNext == NoWorkspace \/ Construct \/ BuildFinalArgs \/ StartBazel \/ ExecedEnds \/ ChildEnds

ArgsSpec == ArgsInit /\ [][ArgsNext]_argsVars

-----------------------------------------------------------------------------
(* Properties *)

\* The user's words that are not the wrapper's, stated by position: what comes from
\* "--" on, the command, and every other word that is neither an option the wrapper
\* knows on that side of the command nor the value of one.
UsersOwn(a) ==
    LET c == IF CommandIdx(a) = 0 THEN Len(a) + 1 ELSE CommandIdx(a)
        d == SelectInSubSeq(a, c + 1, Len(a), LAMBDA w : w = "--")
        Known(o) == o \cup Joined(o)
        Mine(i) ==
          \/ i = c \/ (d # 0 /\ i >= d)
          \/ i < c /\ a[i] \notin StartupFlag \cup Known(StartupValued)
          \/ /\ i > c /\ (d = 0 \/ i < d)
             /\ a[i] \notin CommandFlag \cup Known(CommandValued)
             /\ i - 1 > c => a[i - 1] \notin CommandValued
    IN  {i \in DOMAIN a : Mine(i)}

\* The words the wrapper adds.
Added ==
    {"--help", "--host_jvm_args=-Djava.io.tmpdir=", "--output_user_root=", "--color=yes",
     "--use_prebuilt_gki", "--config=internet"}
    \cup {SourceRc[rc] : rc \in Rc} \cup {GenRc[rc] : rc \in Rc}

PickOwn(mine, picked, i) == IF i \in mine.own THEN Append(picked, mine.of[i]) ELSE picked

UsersWords(a) ==
    LET mine == [own |-> UsersOwn(a), of |-> a]
    IN  FoldLeft(LAMBDA picked, i : PickOwn(mine, picked, i), <<>>, [i \in 1 .. Len(a) |-> i])

KeepUnlessAdded(kept, w) == IF w \in Added THEN kept ELSE Append(kept, w)
NotAdded(words) == FoldLeft(KeepUnlessAdded, <<>>, words)

\* The words before the first "--", and those from there on.
FirstDashDash(words) == SelectInSeq(words, LAMBDA w : w = "--")
BeforeDashes(words) ==
    IF FirstDashDash(words) = 0 THEN words ELSE SubSeq(words, 1, FirstDashDash(words) - 1)
FromDashes(words) ==
    IF FirstDashDash(words) = 0 THEN <<>>
    ELSE SubSeq(words, FirstDashDash(words), Len(words))

\* Bazel gets each of the user's words that is not the wrapper's, once and in order,
\* and nothing the wrapper adds comes after the user's "--".  `bazel help kleaf targets`
\* becomes a query.
ArgvKept ==
    argsAt = "ready" /\ ~AsksForTargets(argv, known.args.rest) =>
        /\ NotAdded(BeforeDashes(final)) = NotAdded(BeforeDashes(UsersWords(argv)))
        /\ FromDashes(final) = FromDashes(UsersWords(argv))

\* When Bazel starts, every generated file named on its command line is there and so
\* is the cache directory, except for `clean`; after a `clean` that did not fail
\* nothing the wrapper generates is left.
OutDirsRight ==
    /\ argsAt \in {"execed", "child"} =>
         /\ \A i \in DOMAIN final : \A rc \in Rc : final[i] = GenRc[rc] => rc \in rcFiles
         /\ ("cache" \in outDirs) <=> CommandOf(argv) # <<"clean">>
    /\ argsAt = "ended" /\ exitCode = 0 /\ CommandOf(argv) = <<"clean">> =>
         rcFiles = {} /\ outDirs = {}
=============================================================================
