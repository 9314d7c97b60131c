------------------------------ MODULE MCWrapper ------------------------------
(***************************************************************************)
(* The parts of the Bazel wrapper that share no state once they have begun: *)
(* its command line, its directory of tools, the pipes of its Bazel and the *)
(* workspace status command of that Bazel.  `part` says which of them a     *)
(* behaviour is about; the others rest.                                    *)
(***************************************************************************)
EXTENDS BazelRun, HermeticPath, StampStatus

VARIABLE part

allVars == <<part, vars, argsVars, pathVars, stampVars>>

-----------------------------------------------------------------------------
(* Values for the checker *)

MCFound == {1}

\* The tool of the host, the one it lacks, the hermetic tool, and another file.
MCOldEntry ==
    {e \in [1 .. 4 -> Entry] :
        /\ <<e[1], e[2]>> \in {<<"absent", "absent">>, <<"wrong", "file">>, <<"right", "file">>}
        /\ <<e[3], e[4]>> \in {<<"absent", "file">>, <<"dangling", "absent">>,
                                <<"right", "absent">>}}

MCCleaners == {{}} \cup {{CHOOSE w \in Wrapper : TRUE}}

\* One project of the manifest, k, which may be the kernel too, and one, x, that is
\* given by --extra_git_project or is an external module.
MCWorld ==
    [words : {<<>>, <<"--ignore_missing_projects", "--extra_git_project">>,
              <<"--nokleaf_localversion">>,
              <<"--nokleaf_localversion", "--extra_git_project", "--repo_manifest">>},
     manifest : {"listed", "bad", "unreadable"}, dates : {"preset", "git"},
     listed : {{"k"}}, extra : {{"x"}}, ext : {{}, {"x"}},
     kernel : {{}, {"k"}}, present : {{"k", "x"}, {"k"}}, scripts : {{}, {"k"}},
     fails : {{}, {<<"scm", "x">>}, {<<"date", "k">>}},
     big : {{}, {<<"scm", "k">>, <<"scm", "x">>, <<"date", "k">>}}]

-----------------------------------------------------------------------------

PipesRest ==
    /\ script = <<>> /\ child = 0 /\ result = 0
    /\ pipe = [s \in Stream |-> <<>>] /\ buf = [s \in Stream |-> <<>>]
    /\ eof = [s \in Stream |-> TRUE] /\ task = [s \in Stream |-> "ended"]
    /\ unexpected = [s \in Stream |-> 0] /\ waited = TRUE /\ epilog = TRUE
    /\ wrote = [s \in Stream |-> <<>>] /\ sent = [s \in Stream |-> <<>>]

ArgsRest ==
    /\ argv = <<"build">> /\ argsAt = "ended" /\ exitCode = 0
    /\ known = <<>> /\ startup = <<>> /\ final = <<>> /\ rcFiles = {} /\ outDirs = {"cache"}

PathRest ==
    /\ old = (CHOOSE e \in OldEntry : TRUE) /\ entry = old /\ made = FALSE
    /\ at = [w \in Wrapper |-> "new"] /\ pos = [w \in Wrapper |-> 1]
    /\ seen = [w \in Wrapper |-> {}] /\ cleaner = {}

RestWorld == CHOOSE x \in World : Answer(x).code = 1

StampRest ==
    /\ world = RestWorld
    /\ stampAt = "ended" /\ stampCode = 1 /\ left = {} /\ setloc = FALSE /\ order = <<>>
    /\ job = [j \in Job |-> "none"] /\ nread = 0 /\ printed = {}

WrapperInit ==
    \/ part = "args" /\ ArgsInit /\ PathRest /\ PipesRest /\ StampRest
    \/ part = "path" /\ ArgsRest /\ PathInit /\ PipesRest /\ StampRest
    \/ part = "pipes" /\ ArgsRest /\ PathRest /\ Init /\ StampRest
    \/ part = "stamp" /\ ArgsRest /\ PathRest /\ PipesRest /\ StampInit

OnlyArgs  == part = "args" /\ UNCHANGED <<part, pathVars, vars, stampVars>>
OnlyPath  == part = "path" /\ UNCHANGED <<part, argsVars, vars, stampVars>>
OnlyPipes == part = "pipes" /\ UNCHANGED <<part, argsVars, pathVars, stampVars>>
OnlyStamp == part = "stamp" /\ UNCHANGED <<part, argsVars, pathVars, vars>>

ArgsPart ==
    \/ (NoWorkspace /\ OnlyArgs) \/ (Construct /\ OnlyArgs) \/ (BuildFinalArgs /\ OnlyArgs)
    \/ (StartBazel /\ OnlyArgs) \/ (ExecedEnds /\ OnlyArgs) \/ (ChildEnds /\ OnlyArgs)

PathPart(w) ==
    \/ (Mkdir(w) /\ OnlyPath) \/ (LookHost(w) /\ OnlyPath) \/ (Exists(w) /\ OnlyPath)
    \/ (Unlink(w) /\ OnlyPath) \/ (MakeLink(w) /\ OnlyPath) \/ (MakeScript(w) /\ OnlyPath)
    \/ (Chmod(w) /\ OnlyPath) \/ (LookHermetic(w) /\ OnlyPath) \/ (List(w) /\ OnlyPath)
    \/ (Sweep(w) /\ OnlyPath) \/ (StartsRun(w) /\ OnlyPath) \/ (RunEnds(w) /\ OnlyPath)
    \/ (RemoveOne(w) /\ OnlyPath) \/ (RemoveDir(w) /\ OnlyPath)

PipesPart ==
    \/ (ChildWrite /\ OnlyPipes) \/ (ChildExit /\ OnlyPipes)
    \/ \E s \in Stream : (Feed(s) /\ OnlyPipes)
    \/ \E s \in Stream : (FeedEof(s) /\ OnlyPipes)
    \/ \E s \in Stream : (TestStream(s) /\ OnlyPipes)
    \/ \E s \in Stream : (ReadLine(s) /\ OnlyPipes)
    \/ \E s \in Stream : (ReadEof(s) /\ OnlyPipes)
    \/ (WaitForSubprocess /\ OnlyPipes) \/ (RunEpilog /\ OnlyPipes) \/ (Finish /\ OnlyPipes)

StampPart ==
    \/ (ListProjects /\ OnlyStamp) \/ (FindSetlocalversion /\ OnlyStamp)
    \/ (ScmStarted /\ OnlyStamp)
    \/ (DateStarted /\ OnlyStamp) \/ (Collect /\ OnlyStamp) \/ (PrintResult /\ OnlyStamp)
    \/ \E p \in Project : (StartScm(p) /\ OnlyStamp)
    \/ \E p \in Project : (StartDate(p) /\ OnlyStamp)
    \/ \E j \in Job : (ChildRuns(j) /\ OnlyStamp)
    \/ \E j \in Job : (ChildUnblocked(j) /\ OnlyStamp)

\* Where a part may stop.
Stopped ==
    /\ \/ part = "args" /\ argsAt = "ended"
       \/ part = "path" /\ \A w \in Wrapper : at[w] \in {"ended", "died"}
       \/ part = "pipes" /\ result # NoResult
       \/ part = "stamp" /\ stampAt = "ended" /\ \A j \in Job : job[j] \notin {"runs", "blocked"}
    /\ UNCHANGED allVars

WrapperNext ==
    \/ ArgsPart \/ PipesPart \/ StampPart \/ Stopped
    \/ \E w \in Wrapper : PathPart(w)

WrapperSpec == WrapperInit /\ [][WrapperNext]_allVars /\ Fairness /\ StampFairness
=============================================================================
