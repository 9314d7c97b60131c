---------------------------- MODULE KernelOutputs ----------------------------
(***************************************************************************)
(* What a kernel_build takes out of $OUT_DIR (the main action of             *)
(* kernel_build.bzl, search_and_cp_output.py, check_declared_output_list.py).  *)
(* With --config=local neither $OUT_DIR nor the directory where modules are   *)
(* staged is fresh: a build starts over what earlier ones left there, those   *)
(* that failed or were killed included.                                     *)
(*                                                                         *)
(* A file is a path, a sequence of names; a directory is a function from its  *)
(* paths to contents; a content is the path under which a build made it and   *)
(* the number of that build: a copy has the content of its original.          *)
(***************************************************************************)
EXTENDS Naturals, Sequences, SequencesExt

CONSTANTS
    ModuleName,     \* names of kernel modules
    BuildRequest,   \* what a build may be asked for, and what make has to make for it
    MaxBuild        \* bound: builds

\* Paths, and what a file has in it.
Paths == Seq(STRING) \ {<<>>}
Contents == [path : Paths, by : Nat]
IsDir(dir) ==
    /\ dir = [p \in DOMAIN dir |-> dir[p]]
    /\ \A p \in DOMAIN dir : p \in Paths /\ dir[p] \in Contents

\* What a kernel_build declares as a module is a module, and other outputs are not; the
\* kernel's Makefiles make modules in directories below the top one.
ASSUME KernelOutputsAssumption ==
    \A b \in BuildRequest :
        /\ b.outs \in Seq(Paths) /\ b.modules \in Seq(Paths)
        /\ b.goal \in STRING /\ b.release \in STRING /\ IsDir(b.mixed)
        /\ \A i \in DOMAIN b.outs : b.outs[i][Len(b.outs[i])] \notin ModuleName
        /\ \A i \in DOMAIN b.modules : b.modules[i][Len(b.modules[i])] \in ModuleName
        /\ \A p \in b.makes : p \in Paths /\ (p[Len(p)] \in ModuleName => Len(p) > 1)

VARIABLES
    buildIn,        \* the request
    buildNo,        \* builds begun
    buildAt,        \* the next step of the script, or how it ended
    outTree,        \* $OUT_DIR
    staging,        \* modules_staging_dir/lib/modules: the first name is the release
    ruleDir,        \* the outputs, as grabbed so far
    unstripped,     \* the directory of unstripped modules
    archive,        \* what was packed from modules_staging_dir
    left            \* history: releases that a build without success left staged

outputVars ==
    <<buildIn, buildNo, buildAt, outTree, staging, ruleDir, unstripped, archive, left>>

NoFiles == [p \in {} |-> <<>>]
BaseName(p) == <<Last(p)>>
HasSlash(p) == Len(p) > 1
Releases(dir) == {p[1] : p \in DOMAIN dir}
Onto(files, dir) ==
    [p \in DOMAIN files \cup DOMAIN dir |-> IF p \in DOMAIN files THEN files[p] ELSE dir[p]]
Below(dir, name) ==
    [p \in {Tail(q) : q \in {r \in DOMAIN dir : r[1] = name}} |-> dir[<<name>> \o p]]

-----------------------------------------------------------------------------
(* search_and_cp_output.py *)

\* What an output may name in a directory: the file at its path; for a bare name that is
\* not at the top, all files of that name, links resolved.
Matches(dir, out) ==
    CASE out \in DOMAIN dir -> {dir[out]}
      [] out \notin DOMAIN dir /\ ~HasSlash(out) ->
            {dir[p] : p \in {q \in DOMAIN dir : BaseName(q) = out}}
      [] OTHER -> {}

\* The first directory that has any counts.
FirstMatches(dirs, out) ==
    LET i == SelectInSeq(dirs, LAMBDA d : Matches(d, out) # {})
    IN  IF i = 0 THEN {} ELSE Matches(dirs[i], out)

\* An output with a slash is copied to its base name as well.
Destinations(out) == {out, BaseName(out)}

\* Mutant: outputs are taken in the order in which they are declared.
AsDeclared(outs) == outs

Take(slash, taken, out) == IF HasSlash(out) = slash THEN Append(taken, out) ELSE taken
TakeAll(slash, taken, outs) == FoldLeft(LAMBDA t, out : Take(slash, t, out), taken, outs)

SlashFirst(outs) == TakeAll(FALSE, TakeAll(TRUE, <<>>, outs), outs)

\* Copies what it finds; fails in the end if an output is missing or ambiguous.
CopyOne(dirs, r, out) ==
    LET found == FirstMatches(dirs, out) IN
    IF \E c \in found : found = {c}
    THEN [r EXCEPT !.files = Onto([p \in Destinations(out) |-> CHOOSE c \in found : TRUE], @)]
    ELSE [r EXCEPT !.ok = FALSE]

SearchAndCp(dirs, outs, dest) ==
    FoldLeft(LAMBDA r, out : CopyOne(dirs, r, out), [files |-> dest, ok |-> TRUE],
             SlashFirst(outs))

\* check_declared_output_list.py: modules that are neither declared nor have the name of a
\* declared one.
Remaining(declared, actual) == {p \in actual \ declared : BaseName(p) \notin declared}

-----------------------------------------------------------------------------
(* The main action *)

OutputInit ==
    /\ buildIn \in BuildRequest
    /\ buildNo = 1 /\ buildAt = "make" /\ outTree = NoFiles /\ staging = NoFiles
    /\ ruleDir = NoFiles /\ unstripped = NoFiles /\ archive = NoFiles /\ left = {}

Goes(ok, next) == buildAt' = IF ok THEN next ELSE "failed"

\* Another build over the same directories, or over fresh ones: a sandbox, or a clean.
\* Bazel removes the outputs first, and nothing else.
NextBuild ==
    /\ buildAt \in {"done", "failed"} /\ buildNo < MaxBuild
    /\ buildNo' = buildNo + 1 /\ buildAt' = "make" /\ buildIn' \in BuildRequest
    /\ \/ UNCHANGED <<outTree, staging>>
       \/ outTree' = NoFiles /\ staging' = NoFiles
    /\ left' = IF buildAt = "failed" THEN Releases(staging') ELSE {}
    /\ ruleDir' = NoFiles /\ unstripped' = NoFiles /\ archive' = NoFiles

Made(p) == [path |-> p, by |-> buildNo]

\* make removes nothing; it may fail half way.
Make ==
    /\ buildAt = "make"
    /\ \E made \in SUBSET buildIn.makes :
          /\ outTree' = Onto([p \in made |-> Made(p)], outTree)
          /\ Goes(made = buildIn.makes, "install")
    /\ UNCHANGED <<buildIn, buildNo, staging, ruleDir, unstripped, archive, left>>

Installs == buildIn.goal \in {"modules", "single"}

\* modules_install replaces the modules of its release.
Installed ==
    {<<buildIn.release>> \o p : p \in {q \in buildIn.makes : Last(q) \in ModuleName}}

InstallModules ==
    /\ buildAt = "install"
    /\ staging' = IF Installs
                  THEN Onto([p \in Installed |-> Made(Tail(p))],
                            [p \in {q \in DOMAIN staging : q[1] # buildIn.release} |-> staging[p]])
                  ELSE staging
    /\ Goes(TRUE, "outputs")
    /\ UNCHANGED <<buildIn, buildNo, outTree, ruleDir, unstripped, archive, left>>

\* From $OUT_DIR, then from the base kernel's files.
GrabOutputs ==
    /\ buildAt = "outputs"
    /\ LET r == SearchAndCp(<<outTree, buildIn.mixed>>, buildIn.outs, ruleDir) IN
       ruleDir' = r.files /\ Goes(r.ok, "archive")
    /\ UNCHANGED <<buildIn, buildNo, outTree, staging, unstripped, archive, left>>

ArchiveStaging ==
    /\ buildAt = "archive"
    /\ archive' = staging /\ Goes(TRUE, "modules")
    /\ UNCHANGED <<buildIn, buildNo, outTree, staging, ruleDir, unstripped, left>>

\* lib/modules/*/kernel must be one directory.
GrabModules ==
    /\ buildAt = "modules"
    /\ IF buildIn.modules = <<>> THEN UNCHANGED ruleDir /\ Goes(TRUE, "unstripped")
       ELSE IF \E n \in Releases(staging) : Releases(staging) = {n}
       THEN LET n == CHOOSE x \in Releases(staging) : TRUE
                r == SearchAndCp(<<Below(staging, n)>>, buildIn.modules, ruleDir)
            IN  ruleDir' = r.files /\ Goes(r.ok, "unstripped")
       ELSE UNCHANGED ruleDir /\ Goes(FALSE, "unstripped")
    /\ UNCHANGED <<buildIn, buildNo, outTree, staging, unstripped, archive, left>>

\* By base name, from $OUT_DIR (collect_unstripped_modules is taken as set).
GrabUnstripped ==
    /\ buildAt = "unstripped"
    /\ LET names == [i \in DOMAIN buildIn.modules |-> BaseName(buildIn.modules[i])]
           r == SearchAndCp(<<outTree>>, names, NoFiles)
       IN  unstripped' = r.files /\ Goes(r.ok, "check")
    /\ UNCHANGED <<buildIn, buildNo, outTree, staging, ruleDir, archive, left>>

\* With no release, or with two, `cd` fails and the check sees nothing.
Staged ==
    IF \E n \in Releases(staging) : Releases(staging) = {n}
    THEN {Tail(p) : p \in DOMAIN staging} ELSE {}

CheckRemainingModules ==
    /\ buildAt = "check"
    /\ Goes(\/ buildIn.goal # "modules" \/ buildIn.undeclared # "error"
            \/ Remaining(ToSet(buildIn.modules) \cup buildIn.base, Staged) = {}, "cleanup")
    /\ UNCHANGED <<buildIn, buildNo, outTree, staging, ruleDir, unstripped, archive, left>>

\* Mutant: the directory is left for the next build.
KeepStaging ==
    /\ buildAt = "cleanup" /\ buildAt' = "done"
    /\ UNCHANGED <<buildIn, buildNo, outTree, staging, ruleDir, unstripped, archive, left>>

CleanUp ==
    /\ buildAt = "cleanup" /\ buildAt' = "done" /\ staging' = NoFiles
    /\ UNCHANGED <<buildIn, buildNo, outTree, ruleDir, unstripped, archive, left>>

KillBuild ==
    /\ buildAt \notin {"done", "failed"} /\ buildAt' = "failed"
    /\ UNCHANGED <<buildIn, buildNo, outTree, staging, ruleDir, unstripped, archive, left>>

OutputNext ==
    \/ NextBuild \/ Make \/ InstallModules \/ GrabOutputs \/ ArchiveStaging \/ GrabModules
    \/ GrabUnstripped \/ CheckRemainingModules \/ CleanUp \/ KillBuild

OutputSpec == OutputInit /\ [][OutputNext]_outputVars

-----------------------------------------------------------------------------
(* Properties *)

\* An output that make makes under the very path it is declared with is what the build
\* delivers: no file of the same name elsewhere, no file of the base kernel and nothing
\* that was in $OUT_DIR before takes its place.
OwnOutputWins ==
    buildAt = "done" =>
        \A out \in ToSet(buildIn.outs) \cap buildIn.makes : ruleDir[out] = Made(out)

\* Unless a build that did not succeed left modules of another release, or any at all to a
\* build that installs none, a build delivers and packs modules of its own only, and the
\* unstripped modules beside them are theirs: where $OUT_DIR has old ones of the same name
\* too, the build fails.
ModulesOfThisBuild ==
    buildAt = "done" /\ left \subseteq (IF Installs THEN {buildIn.release} ELSE {}) =>
        /\ \A p \in DOMAIN archive : archive[p].by = buildNo
        /\ \A m \in ToSet(buildIn.modules) :
              /\ ruleDir[m].by = buildNo
              /\ unstripped[BaseName(m)] = ruleDir[m]
=============================================================================
