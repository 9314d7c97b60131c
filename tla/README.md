# Kleaf in TLA+

Kleaf is the Bazel-based build of the Android kernel: a wrapper around Bazel
(`kleaf/bazel.py`), Starlark rules that run `make` and shell scripts
(`kleaf/impl`), programs that look after the kernel's ABI (`abi`) and a tool that
sets up a workspace for device kernel modules (`init`). Most of it is declarative
and sequential. What is hard to get right and hard to test is where several
processes, threads or tasks meet on the same files, pipes and locks, where a step
fails or is killed half way, and where a later run has to live with what an
earlier one left. The modules here are about those places.

Paths are relative to the root of the repository. `PROJECT.json` has the same
inventory in a form a program can read, with a map from every definition to its
source lines.

## 1. Inventory

### Parts that keep state

| Part | State | Operations | Meets | Hard because | Correct when | Module |
|---|---|---|---|---|---|---|
| cache directory: `cache_dir.bzl`, `cache_dir_config_tags.py` | `cache_dir/<hash>/`, its `kleaf_config_tags.json`, flocks on that file, `last_*` links | prepare, reconcile the tags, lock, build, link, unlock; `clean` | the scripts of four kinds of actions, the wrapper's `clean` | actions of several invocations, kills, `clean` at any moment | one builder per directory; tags files tell the truth; nobody waits for ever | `CacheDir` |
| Bazel subprocess: `bazel.py` `run`, `OutputMutator` | two pipes, three tasks, counters, the exit code | pump, count, wait, epilog, combine exceptions | Bazel, asyncio | order of task completion, end-of-file races, full pipes | exit code, output and epilog do not depend on the order | `BazelRun` |
| command line: the rest of `bazel.py` | argv, parsed options, generated bazelrc files and directories | split, parse, write files, start Bazel | argparse, Bazel | words of the wrapper, of Bazel and of a program that is run in one line | the user's words arrive once and in order; files that are named exist | `WrapperArgs` |
| directory of host tools: `bazel.py` `_add_default_hermetic_path` | symbolic links | unlink, link, sweep, remove | other wrappers, a running Bazel | no lock; dangling links | no tool is lost for good; one wrapper gets through | `HermeticPath` |
| workspace status: `workspace_status_stamp.py` | one subprocess per project and question | start all, collect in order | git, `setlocalversion` | the first failure abandons the rest; full pipes | one result per project, complete or an error | `StampStatus` |
| `kmi_defines.py` on a whole build | a process, a pool, a queue | inspect, gather, report | `multiprocessing` | processes that wait for each other; failing chunks | same result as `--sequential`; it ends | `KmiDefines` |
| `init_ddk.py`, `repo_wrapper.py`, `init_download.py` | prebuilts, files in the Kleaf repository, `kleaf.xml`, generated sections | thirteen steps, a thread pool of downloads | the download utility, `repo`, the user's files | reruns over what failed or killed runs left | everything is of the build asked for; a rerun repairs; the user's text survives | `InitDdk`, `UpdateFile` |
| BUILD files: `buildozer_command_builder.py` and the three scripts on it | BUILD files, a picture of them | ask, decide, write commands, run buildozer | the user's edits, buildozer | the picture must follow what is not yet written; scripts run again | decisions from the truth; the user's values survive; every header and dependency is placed | `Buildozer`, `BuildConfigToBazel`, `GenDdkHeaders`, `BuildCleaner` |
| `gen_makefiles.py` | the Makefiles of a DDK module | generate, merge submodules | make | files of several submodules concatenated under conditions | make reads what was declared, under every configuration | `GenMakefiles` |
| `kernel_config.bzl`, `check_config.py`, `ddk_config.bzl` | `.config`, defconfig, fragments | defconfig, merge, `olddefconfig`, check; menu and write back | Kconfig, `scripts/config`, the source tree | merging and checking follow different rules; Kconfig drops options silently | what is built is what was asked for; what was chosen is what is built next | `KernelConfig` |
| `kernel_build.bzl` and the two scripts on outputs | `$OUT_DIR`, the staging directory, outputs | make, install, grab, archive, check, clean up | the cache directory, make | both directories keep what earlier builds left, failed and killed ones too | a build delivers its own files | `KernelOutputs` |
| `kernel_prebuilt_repo.bzl` | an external repository | submit, wait, generate | the download list | optional files that fail | a BUILD file for every listed file | not modelled |
| symbol lists: `abi/*.py`, `impl/abi/*.bzl` | symbol lists in the source tree | extract, process, update | the ABI tools | what a second update does depends on these tools | the list is what modules need | not modelled |

### Parts without state of their own

The environment and toolchains, images, headers and archives, transitions and
providers, reports (SBOM, compile commands, code search), shell tools under `gki`,
static analysis. `PROJECT.json` lists each of them with the reason why it is not
modelled; section 5 sums these up.

### How the parts interact

The wrapper starts Bazel, by `execve` or as a subprocess, after it has prepared
the directory of host tools and the cache directory. Bazel runs the workspace
status program once, then actions in parallel. Every `KernelConfig`,
`KernelBuild`, `KernelModule` and `ModulesPrepare` action of `--config=local`
sources one environment, and its script has three pieces from three files:
`cache_dir.bzl` contributes a command, `utils.bzl` decides whether the command is
spliced in or evaluated from a variable, and the rule contributes the body and the
second half of the lock. `init_ddk.py` runs before all of that and leaves files
that `kernel_prebuilt_repo` and `repo sync` read.

## 2. Modules

### CacheDir, ExclusiveDir, OutDirProofs

`CacheDir` is the script of an action step by step. Files are inodes, because that
is what matters: `open(dest, "w")` truncates an inode that another process may
hold, `flock` locks an inode, and `clean` removes the name while descriptors stay.

| State | In the code |
|---|---|
| `pc[a]` | the line the script of action `a` has reached |
| `root`, `dirs` | `cache_dir` and its subdirectories |
| `file[d]`, `content[f]` | the inode of `d/kleaf_config_tags.json`, what an inode holds: tags, nothing, or a mix |
| `fd[a]`, `locked` | descriptor 1055 or the one of `cache_dir_config_tags.py`; the inodes flocked |
| `last[n]` | `cache_dir/last_<n>` |

| Action | In the code |
|---|---|
| `Prepare` | hash of the tags, `mkdir -p` |
| `CheckDest`, `CompareDest`, `CreateDest`, `WriteDest` | `cache_dir_config_tags.main`, cut where another process can act |
| `EnterSection` | the first half of the section, spliced or evaluated (`Inline`) |
| `OpenTags`, `Flock`, `FlockRefused` | the redirection and the three modes |
| `BuildSucceeds`, `BuildFails`, `LinkLast`, `Unlock` | the body and the second half |
| `Rerun`, `Kill`, `Clean`, `MakeRoot` | a later build, the end of an action by Bazel, `tools/bazel clean` |

`ExclusiveDir` is what `--debug_cache_dir_conflict` promises: users try to get a
place, at most one is in it, and whoever is in it leaves. `CacheDir` implements it
under the mapping `phase`.

### BazelRun, WrapperProofs

The subprocess path of `BazelWrapper.run`. Bazel writes a script of lines chosen at
the start, blocks on a full pipe and exits with any code; the event loop moves
lines into the `StreamReader`s; `mutate_stream` is cut at its two suspension
points, the test of `at_eof()` and the `readline()`; the results of the three tasks
are a set, as in `asyncio.wait`, so any of them may be `errors[0]`.
A line is `ok`, `bad` (no regex of the allowlist matches), `long` (beyond the
reader's limit) or `raw` (not UTF-8).

### KmiDefines, KmiDefinesProofs

`work_on_whole_build` with its parent, the process of `vmlinux.o`, the pool's
workers and chunks. Inspecting a file has one of three outcomes: a component,
`StopError`, or any other exception. The queue's pipe is modelled because a process
does not exit before its item is written: whether the component fits is an input.

### InitDdk, InitDdkProofs, UpdateFile, SourceFileProofs

`InitDdk` is `KleafProjectSetter.run`, with the two classes it calls. What a file
holds is the build it comes from, or `part` when it is truncated; `mainXml` is the `default.xml`
of the repo manifest, which `IncludeBegins` and `IncludeEnds` rewrite in place (a kill
between the two leaves a part of it, which every later run refuses). `pc` is the step,
`fetch[a]` the future of artifact `a`, and `opt` the arguments of the run; a run
follows another with other arguments on the same disk. `UpdateFile` is
`_update_file`: the copy loop as a fold over the lines and the move, with files as
sequences of lines that may be markers, user text or open at the end. Its theorems
and those of `Buildozer` are in `SourceFileProofs`.

### WrapperArgs, HermeticPath, StampStatus, WrapperProofs

`WrapperArgs` is `BazelWrapper` without its subprocess: `argv` is a sequence of
words, `Construct` is the constructor (the search for the command and for `--`, both
of its argparse parsers, the directories it makes), `BuildFinalArgs` the line it
builds and the bazelrc files it writes, `StartBazel` the choice between `execve` and
a child, and `ChildEnds` the epilog of `clean`. An option with a value is its name
and `=`, or `=?` when the wrapper refuses the value.

`HermeticPath` cuts `_add_default_hermetic_path` at every call into the file system:
`at[w]` is what wrapper `w` does next and `pos[w]` the tool it is at. The entries of
the directory are positions: tools of the host first, then hermetic tools, then
other files; each is absent, a right or wrong link, a dangling one or a plain file.

`StampStatus` is the workspace status command: `world` is all that it may find on
the machine, chosen at first; the two loops start children in any order of the
projects, because the code iterates over sets; a child whose output fills its pipe
waits to be read; `Collect` reads in the order of the map and leaves at the first
failure. `WrapperProofs` has the theorems about these three and `BazelRun`.

### Buildozer, BuildConfigToBazel, GenDdkHeaders, BuildCleaner, SourceFileProofs

`Buildozer` is the command builder. A script is a sequence of operations (`new`,
`set`, `add`, `comment`, `rename`), `Perform` the builder's answer to one of them:
the commands it writes and what it then believes of the BUILD files. `DryRun` is the
first pass, which only learns which keys there are, `GetAllInfo` asks for them,
`WriteCommands` is the second pass and `UserEdits` whoever replaces a FIXME before the
script runs again. `RunBuildozer` is the external program, which rewrites the file of
each package on its own: without `-k`, a package one of whose commands fails keeps its
file as it was. The other three
modules say which operations each script asks for: as a fold over the variables of
a build.config, over packages and targets of headers, and over a closure of modules.

### GenMakefiles, KernelConfig, KernelOutputs, KernelConfigFacts, KernelConfigProofs

`GenMakefiles` generates lines, which are records, merges the directories of the
submodules, and gives them to `Evaluate`, which reads a Kbuild as make does, line by
line (`Read`). A directory is a sequence of names and an object has the path of its
source, so that a source in a subdirectory is another one than that of the same name
beside the module. The theorem about it is in `SourceFileProofs`.

`KernelConfig` has one action per step of the rule's script, `SetUpDefconfig` to
`CheckFinal`, and `Menu`, `SaveChoice` and `BuildNext` for `bazel run X_config`
with the build after it; `ConfigureDdk` is the action of one DDK module. Options are
numbered; the Kconfig tree, which says which options exist, what each needs and
which default follows which other, is an input, so that an option may be dropped or
changed without anybody having asked for it. A file is a sequence of lines; merging,
listing, sorting and the postorder of depsets are folds over such sequences.

`KernelOutputs` is the main action of `kernel_build` from make to the removal of
the staging directory, over an `$OUT_DIR` and a staging directory that the next
build inherits unless they are fresh. A file's content is the path and the number
of the build that made it. `KillBuild` may end it before every step. The theorems
about it are in `OutDirProofs`.

### SequenceFolds

Not a part of Kleaf: what the fold `FoldLeft` of the community modules computes, for
any operator. The loops of the programs are such folds, and the proof modules take an
instance of `SequenceFolds` for each of them.

### The instances

`MCCacheDir`, `MCInitDdk` and `MCKmiDefines` only give values. `MCWrapper` and
`MCSourceFiles` are sums: components that share no modelled state stand side by
side, a variable `part` says which of them a behaviour is about and the others keep
their initial values. A run of a sum therefore explores the union of the components'
state graphs, not their product, and each property says something about its part
and is trivially true of the others.

## 3. Runs

Six runs pass and check the properties below; six find a violation of something the
repository says of itself.

| Run | Instance | Shows |
|---|---|---|
| `cache_resolve` | three actions, two with the same tags, `resolve`, one rerun, one kill | `Exclusive`, `NoOrphanEmpty`, `Finishes`, `ImplementsExclusiveDir`, `ConflictsResolved` |
| `cache_collide` | all tags in one directory, `detect`, rerun, kill and clean | `TagsKept`, `CollisionReported` |
| `cache_eval` (violation) | two actions that evaluate the command | `ConflictsResolved`, which holds in `cache_resolve`, fails |
| `wrapper_pipes` | three lines over two pipes; every command line of a startup word, a command and three words; three wrappers over one directory of tools; the status command over two projects | `ExitCodePreserved`, `SuccessIsClean`, `ErrorIsReal`, `AllPiped`, `EpilogLast`, `Ends`; `ArgvKept`, `OutDirsRight`; `NoToolLost`, `OneStarts`; `StampOutcome`, `StampDone` |
| `wrapper_eof` (violation) | an allowlist without a regex for the empty line | `ErrorIsReal` fails |
| `wrapper_blocked` (violation) | a line beyond the limit | `Ends` fails |
| `kmi_pool` | five modules, chunks of two, two workers, up to two failures, small or large component | `SameAsSequential`, `CountsComplete`, `EndsUnlessCrash` |
| `kmi_hang` (violation) | an exception other than `StopError` | `Ends` fails |
| `update_file` | every file of at most five lines, two runs, a kill, both kinds of move; the three scripts on BUILD files, twice; Makefiles of one or two modules; configurations; two builds over one `$OUT_DIR` | `OutsideKept`, `Idempotent`, `SectionUpdated`; `BeliefIsTrue`, `UserValueKept`, `HeadersPlaced`, `DepsResolved`; `KbuildMeaning`; `ConfigAsAsked`, `NoFalseAlarm`, `ChoiceKept`, `DependantsAgree`; `OwnOutputWins`, `ModulesOfThisBuild` |
| `update_open_line` (violation) | a last line without newline | `OutsideKept` fails |
| `init_rerun` | two runs out of six sets of options and two builds, with or without a `default.xml`, two failures, a kill | `MandatoryOfBuild`, `ModuleMatchesSync`, `Recovers`, `Ends` |
| `init_refresh` (violation) | a second run with another build id | `Refreshed` fails |

Each property has a mutant of the code it is about, next to the definition it
replaces and marked as such in the module: the run finds the property violated once
the mutant is in the definition's place.

### What the violations say

* `cache_eval`: `kernel_build`, `kernel_module` and `modules_prepare` run the
  command through `eval "${KLEAF_RESTORE_OUT_DIR_CMD}"`; with a lock mode it ends in
  an open parenthesis, a syntax error. The lock modes work for `kernel_config` only.
  `ConflictsResolved` starts where an action has its tags reconciled, which leaves out
  the comparison with a tags file that another one has just truncated (section 6), and
  the counterexample is a single action in an empty cache whose first half never opens
  the section. The same property passes in `cache_resolve`, where all actions are
  spliced (`Inline`): the evaluation alone makes the difference. The other properties of
  the cache are checked with `Inline` too: they show that the protocol is right where it
  is in force.
* `wrapper_eof`: the empty read at the end of a stream is matched against the
  allowlist and counted as an unexpected line.
* `wrapper_blocked`: a line of more than 64 KiB ends the task that drains its pipe
  and everything else waits for Bazel, which waits for the pipe.
* `kmi_hang`: only `StopError` is turned into a result; anything else leaves the
  parent in `queue.get()` or, at exit, joining a process nobody reads from.
* `update_open_line`: the section is appended to an open last line; the next run
  skips that line.
* `init_refresh`: the first run leaves an optional file of its build; the second, for
  another build, cannot fetch that file, leaves the old one there and succeeds.

### Bounds

Every bound is a constant named in the module. They are chosen so that the case a
property is about occurs: two actions must share a directory and a third must not
(`cache_resolve`), or all three must collide (`cache_collide`); a kill, a rerun and
a clean each occur at every step. Three lines over two streams suffice to fill both
a pipe and a buffer of one line and have one more to wait. Five modules make a full
pool, a short last chunk and a worker that takes two chunks. Five lines hold two
sections and user text between them, or an end marker without a beginning. Two
runs are enough for what one leaves to the other, and the proofs below do not
depend on any bound. `CHECK_DEADLOCK FALSE` stands where a system ends on its own
(all actions are done, no run is left).

* Command lines: one word before the command and three after it, from one word of
  every kind the code treats differently (flags, options with a value, `--`, a word
  that a parser takes from another, a target). Three words are the shortest line in
  which an option precedes `--` and one follows it.
* Tools: one of the host's that is found, one that is not, one hermetic tool and one
  file that is none of them; every entry there may have been before. Three wrappers,
  because the third is the one that starts while two race.
* Workspace status: one project of the manifest, which may be the kernel, and one
  that comes from an option or is an external module; any of the children may fail
  and any may fill its pipe.
* BUILD files: pairs of variables of a build.config, one of which leaves a mark in a
  target others share; up to three headers in up to two packages and two globs;
  closures of up to four entries with a repeated and a missing module. Two runs,
  because the second meets what the first and the user have made.
* Makefiles: one module of up to two items, two modules in one directory, or one at
  the top and one below it; sources of the module's name beside it and in a subdirectory,
  a header outside of its directory.
* Configurations: three options, of which one may need and one may follow another;
  at most two fragments, which is where the order between two of the same kind and
  of different kinds shows; three modules, where two paths lead to one dependency.
* Outputs: two images of one base name, a base kernel with one of them, two modules
  and two places for one of them, two releases; two builds, which is what it takes
  for one to inherit.

### Fairness

* Actions: weak fairness of each action's steps. The operating system schedules
  every process, `flock` wakes a waiter when the lock is free, and make ends. Kills,
  cleans and reruns need not happen. Weak fairness suffices in the instances
  because two actions contend at most; with more, starvation is excluded only as
  far as the kernel's lock queue is fair.
* The wrapper: Bazel continues unless it is blocked on a pipe; asyncio runs every
  task that is ready.
* `kmi_defines.py`: the operating system runs every process that can run.
* `init_ddk.py`: its subprocesses end, and the threads of the pool run.
* Workspace status: the program runs, and every child runs unless it is blocked on
  its pipe; a program that is never read from is not assumed to end.
* The command line, the directory of tools and the programs of `MCSourceFiles` have
  safety properties only, and no fairness is used for them.

## 4. Proofs

TLAPS checks, for every value of the constants:

| Module | Theorem | Says |
|---|---|---|
| `OutDirProofs` | `TypeCorrect`, `Invariant` | the type and the inductive invariant of `CacheDir` |
| | `ExclusiveUse` | `Exclusive` for any number of actions, directories and tags |
| | `TagsDescribeBuild`, `TagsFileStays` | `TagsKept`, `SettledStays`, with collisions and cleans |
| | `NoOrphan` | `NoOrphanEmpty`: an *empty* tags file without a writer is the mark of a kill (nothing about a garbled one) |
| | `Refinement` | with a lock mode and no cleans, the safety part of `ExclusiveDir` is implemented |
| | `OwnOutputsAreDelivered` | `OwnOutputWins` for any declared outputs, any make and any number of builds |
| | `OwnModulesAreDelivered` | `ModulesOfThisBuild` likewise, unless modules of another release are still staged, or any in a build that installs none |
| `WrapperProofs` | `TypeCorrect`, `Invariant` | the type and the inductive invariant of `BazelRun` |
| | `NothingLost`, `ExitCodeKept`, `SuccessMeansClean`, `EpilogIsLast` | `AllPiped`, `ExitCodePreserved`, `SuccessIsClean`, `EpilogLast` |
| | `FailureIsReal` | `ErrorIsReal`, if the allowlist covers the empty line |
| | `PathInvariant` | the inductive invariant of a directory nobody cleans |
| | `NoToolIsLost`, `OneGetsThrough` | `NoToolLost`, and `OneStarts` if there is a wrapper at all |
| | `ArgsInvariant` | the inductive invariant of an invocation of the wrapper |
| | `ArgvIsKept` | `ArgvKept` for command lines of any length over any words |
| | `OutDirsAreRight` | `OutDirsRight` likewise |
| | `StampInvariant` | the inductive invariant of the status command, types included |
| | `StampAnswers` | `StampOutcome` for any projects and any machine |
| `KmiDefinesProofs` | `TypeCorrect`, `Invariant` | the type and the inductive invariant |
| | `EndsAsSequential`, `AllCounted`, `ChildIsJoined` | `SameAsSequential`, `CountsComplete`, `NoOrphan` |
| `InitDdkProofs` | `TypeCorrect`, `Invariant` | the type and the inductive invariant |
| | `PoolIsJoined`, `MandatoryIsOwn`, `ModuleIsSynced` | `PoolJoined`, `MandatoryOfBuild`, `ModuleMatchesSync` |
| | `RerunRecovers` | `Recovers`: a rerun repairs whatever was left, but for a `default.xml` that is missing or cut short |
| | `OnlyAKillCutsTheManifest` | a `default.xml` that is half written is the mark of a kill |
| `SequenceFolds` | `FoldTrace`, `FoldAppend`, `FoldConcat` | the value of a fold, element by element and over two sequences in a row, for any operator and sequence |
| | `FoldInduction`, `FoldSame` | what every step of a fold keeps, the fold has; two folds with the same steps are equal |
| | `Recursion` | a function whose values are defined from those below exists, and its values stay in their set |
| `SourceFileProofs` | `UpdateKeepsUserText`, `UpdateIsIdempotent`, `UpdateReachesTheFile` | `OutsideKept`, `Idempotent`, `SectionUpdated`, for files of any length without an open last line |
| | `PictureIsTrue` | `BeliefIsTrue` for any edits of a script and any BUILD files |
| | `UserValueSurvives` | `UserValueKept`, for any number of runs |
| | `DepsAreResolved` | `DepsResolved` for any closure of modules, any symbols and any number of runs |
| | `KbuildIsRead` | `KbuildMeaning` for any number of submodules and items, in any directories, and any `.config`; it excepts a module named `ddk_marker`, and what is linked into one that its conditions leave without sources beside a source of its name |
| `KernelConfigFacts` | (lemmas) | what merging, listing, sorting, parsing, Kconfig and depsets do to files of any length |
| `KernelConfigProofs` | `CfgInvariant` | the inductive invariant of a configuration and of its modules |
| | `ConfiguredAsAsked` | `ConfigAsAsked` for any files, fragments and Kconfig tree |
| | `ChecksAreRight` | `NoFalseAlarm` likewise, for any number of modules |
| | `MenuIsKept` | `ChoiceKept` likewise |
| | `ModulesAgree` | `DependantsAgree` for modules that depend on one another to any depth |

The inductive invariants, `SettledStays`, `NoOrphan` and `PoolJoined` are in no run: the theorems
say more than a run of theirs would.

Assumptions: those named in the modules (`CacheDirAssumption`,
`ContentAssumption`, `BazelRunAssumption`,
`KmiDefinesAssumption`, `InitDdkAssumption`, `HermeticPathAssumption`,
`OldEntryAssumption`, `StampAssumption`, `UpdateFileAssumption`,
`BuildozerAssumption`, `CleanerAssumption`), which only give types to the constants and keep special
values apart (of a request of `build_cleaner.py` also that its edits are those of `CleanerRequest`,
that its `deps` are what the BUILD files say, and that modpost reports finitely many
symbols), and five that say more:

* `KernelOutputsAssumption`: a module that is declared has the name of a module and no
  other output has, and make puts modules below the top of `$OUT_DIR`, where Kbuild
  makes none.
* `GenMakefilesAssumption`: two modules of one directory have different outputs, because
  `kernel_module` refuses a file that two submodules declare (`_get_implicit_outs`), and
  no output has the name of a generated file; the symbol of a condition is not the `y`
  of `obj-y`.
* `KernelConfigAssumption`: an option needs and follows options before it, as a Kconfig
  tree without recursive dependencies can be numbered; a module depends on modules
  before it, because Bazel's graph has no cycles, and has at most one defconfig, because
  the attribute takes a single file.
* `WrapperArgsAssumption`: no word of the user is the option that names a file the
  wrapper is about to generate, no command begins with `-`, and `--` does not come before
  the command, where Bazel itself refuses it.
* `RenameAssumption`: a script renames temporary attributes only, as the one that does
  it does (`temp_outs` of `build_config_to_bazel.py`): the rename follows whatever else
  is done to the attribute, and no BUILD file has the temporary attribute without the
  final one.

The three theorems about `UpdateFile` assume that the last line of the user's file
ends in a newline. Without that they are false: it is the run `update_open_line`.

**Cache.** `Exclusive` is not inductive: that two actions are not both past the
lock follows from their holding different inodes (`LockOK`), which follows from
`locked` being exactly what the holders have open (`FdOK`), and contradicts their
using the same directory only if a descriptor is on the file its directory names
now (`NameOK`) and no two directories share a file (`FileOK`). `NameOK` is where
`clean` matters: it holds of any action as long as nothing was cleaned, and a weaker
form holds for ever, that a descriptor is never on another directory's file.
`NoOrphanEmpty` adds to it what a file without a writer holds. `TagsKept` is about a step,
for any collisions: only the comparison lets an action past a settled file
(`OnlyEqualTagsPass`), and no step but a clean changes that file (`SettledStep`).

**Wrapper.** The invariant is that a line Bazel wrote is in exactly one place, in
order: `Flow` says that what was passed on, then the reader's buffer, then the pipe
is what Bazel wrote, as long as the task has not died. `EofOK` adds that the end is
known only after the pipe is empty and that a task ends only there; together they
give `AllPiped`. `CountOK` ties the counter of a stream to what was passed on, and
`ResultOK` says that the errors, a function of the tasks, no longer change once all
three have ended: the exit code is then a fact about sets of errors, whatever the
order in which the tasks ended. Without an allowlist that covers the empty line
`CountOK` holds in one direction only, which is where `wrapper_eof` comes from.

**Inspection.** `ChunkOK` is the pool: a chunk has at most one worker, what is not
left of it has been inspected, and a chunk that raised holds a file that crashes.
That the chunks cover the list (`Covered`, the one place where division matters)
turns "every chunk is done" into "every module has been inspected", which `ParentOK`
carries to the report. The order of the log and the counts are then those of the
sequential run because they are the same function of the same components.

**Workspace.** `MandatoryOfBuild` is about the end of a run; it is inductive only
with what a run has at each step. `OwnOK` says, past each step, what is already of
the run's own build; `FetchOK` ties the futures to the artifacts, which is what
makes the pool's end sufficient; `StatesOK` follows the manifest from the file it
was read from to the sync; and `CalmOK` repeats these for a run without a failure of
its own, where every error exit but that of `include` is then unreachable, which is
`Recovers`. These make up `RunInv`; `MainXmlOK`, which is inductive on its own, says
that only a kill leaves `default.xml` half written. `before`
remembers what the earlier runs suffered, so that "a failure of its own" is a state
predicate.

**Directory of tools.** `NoToolLost` needs to know who may take an entry away. While
nobody cleans, only host tools are ever unlinked (`LoopsOK`), the loop at the end
removes only names that are no tool (`NobodyCleans`), and whoever writes the script of
a missing tool finds nothing or a script there (`ScriptsOK`); with these `SetUpOK` is
inductive: what one wrapper is past is there, or someone is about to make it again.
`OneStarts` argues the other way round, by what can end a wrapper: an entry that is
gone when it is to be removed, or there when it is to be made. `GoneOK`, `MadeOK` and
`SweptOK` name, for each of these cases, another wrapper that must then be alive and
at least as far, and `DiedOK` keeps such a survivor for every wrapper that has died; if
all had died, none would be left to outlive the last. `SweptOK` speaks of the first
name a wrapper still has to remove, a minimum that is taken by well-foundedness. A
link to a hermetic tool that dangles ends wrappers without any survivor, hence the
condition `NothingDangles`.

**Workspace status.** The invariant says how far the two loops are: the children
that have been started are those the machine calls for, less the ones the loop has
not come to (`ProgressOK`). `PresetOK` and `ReadOK` say of the results that the
dates taken from the environment have no child and that none of the children read
has failed. At the end (`EndOK`) the set of results and the exit code are therefore
a function of `world`, in which neither the order of the loops nor that of the
children appears.

**Command lines.** `ArgvKept` compares two readings of one command line. `UsersWords`
goes over it once and keeps a word by its position: `UsersOwn` asks where the command and
the `--` are, whether the word is an option of the wrapper on that side of the command
and whether the word before it is an option that takes a value. The code cuts the line in
four, gives two of the parts to argparse, whose state is the option that still waits for
its value, and puts what is left together with words of its own. `Divided` says what the
two searches find, `StartupWords`, `CommandWords` and `PatternWords` say for each part
that the words kept so far are those that argparse has left over so far, and
`UsersWordsAre` joins them. `ParsesTo`, one step of argparse, needs that a value which it
accepts has no `-` in front, so that `UsersOwn` does not take the word after it for a
value too. On the other side `StartupIs` and `ArgsAre` say that the wrapper puts words of
`Added` around the user's, `NotAddedJoins` that the filter of these words goes through a
concatenation, and `DashSplit` that the first `--` of the result is the user's, because
neither `Added` nor what is left over has one. The invariant `ArgsInv` (`ParsedRight`,
`FinalRight`) carries this from the constructor to the start of Bazel; `NamedFiles` and
`DirsRight` are the inductive form of `OutDirsRight`, which at the end of `clean` needs
that the wrapper has stayed alive: `clean` is never `execed`.

**Loops.** What a loop does to data of any size needs induction, which the library
offers in theorems that take an operator as a parameter; no prover here can instantiate
them. `SequenceFolds` gets by with a set: `UpTo` says that a set that contains 0 and,
with each number below n, the next one, contains 0 to n, and follows from the
well-foundedness of the natural numbers, which is a fact about a set too. `FoldTrace`
then gives, for a fold that stays in a set of values, the function of its values after
each element. An invariant of a loop is proved by collecting, in such a set, the numbers
of elements after which it holds.

**Generated sections.** The invariant of the copy loop (`CopyInv`) says that what lies
outside of the sections of the output so far is what lies outside of those of the input
so far, and that each section of the output is the update and nothing else (`Normal`).
`Idempotent` is a second invariant of the loop (`AgainInv`): over a file that is
`Normal` and has a section, the output is the file itself, but that the line that begins
a section is written one line late. `FileInv` carries both through the steps of a run:
the user's lines are in the file and, once the copy is complete, in the temporary one,
and a move between file systems, which truncates first, is the only step a kill can
spoil.

**BUILD files.** `BeliefIsTrue` is about a picture made before the commands have run.
`Outcome` is what the BUILD files would be if every command succeeded, `After` what one
command makes of one place in them. The invariant of the second pass (`InStep`) is that
the picture agrees with the outcome of the commands so far (`Belief`) wherever it has an
entry. It has one for every place the edits touch, because the dry pass described the
same edits (`KeysKnown`), and no entry would be taken for an absent attribute. That
buildozer works file by file does not matter, because what a command does depends on
its own target only (`AfterSame`, `AfterElsewhere`, `RunFacts`).

`UserValueKept` holds of failed runs too, of which the picture says nothing, so it is
proved of the commands. `Follows` says of those in the file that only what the script
sets is set and only what it renames renamed, and that no command touches a temporary
attribute after its rename. A user's value can then be lost to a rename only, and
buildozer refuses the rename where the final attribute is there. So the invariant needs
that between two runs no temporary attribute is without its final one (`HasFinal`). In
the middle of a run one may be, as long as its rename is to come; and the rename is
either carried out, or fails because there is nothing to rename or the final attribute
is there, which is `HasFinal` again (`FinalStep`).

`DepsResolved` is about the edits, not the commands. A script that only adds
(`OnlyAdds`) writes each edit as a command and nothing else (`AddsWritten`): the
commands that remove a value or set one are never written. `CleanerOps` says what the
edits add to one module: the locations of the symbols it misses, which come out of
three nested loops (`LocatedFacts`, `SetToSeqFacts`, `FlattenFacts`). A run that fails
on the way, or goes on after an error, leaves `deps` between what was there and what is
there with all additions (`AddsRewrite`); a run without an error leaves the latter
(`AddsOutcome`, `AddsRun`). The invariant `CleanerInv` keeps the first over any number
of runs, from which the second follows for each run.

**Makefiles.** `KbuildMeaning` is about a file that several modules have written to and
that make reads once. `Reads` is what makes that manageable: reading some lines, where
lines are on, adds certain objects and certain flags to what was read before, whatever
that was, and leaves lines on. It holds of lines without conditions (`ReadsPlain`), of
the same between `ifeq` and `endif` (`ReadsGuarded`), of a line that make skips
(`ReadsNoEffect`) and of what is put together from such lines (`ReadsInARow`,
`ReadsFlatten`), hence of the Kbuild of one module (`KbuildReads`), whose objects and
flags `ModuleMeaning` compares with what the items say; the one delicate case is the
source with the name of the module, which has no line and must be the only one. The
invariant of the merge (`MkInv`) then says of each directory's Kbuild that it reads as
all modules merged so far do (`KbuildOK`), that a file of flags is its module's alone
(`CflagsOK`), for which no two modules may share it (`SplitFacts`), and that the marker
is there once (`MarkersOK`). At the end the objects listed under the name of a module
are its own, because no other module of the directory has that name.

**Outputs.** A build that succeeds has made its outputs (`MadeInv`), but what is beside
them in `$OUT_DIR` may be of any build before. `DeliveredInv` follows from two choices
of the search: the path as declared comes before other files of its base name, and an
output with a slash, which is copied to its base name too, is copied before the ones
without, which may have that name. For modules the path has a release in it, so the
invariant needs to know what is staged: `StagedInv` and `PackedInv` say that only this
build's modules are, if builds that failed left nothing of another release
(`OwnStaging`); `TreesInv` keeps the modules of both directories below the top, where
they are found by base name; `GrabbedInv` and `UnstrippedInv` follow them to the
outputs.

**Configurations.** Three programs read the same files by rules of their own:
`merge_config.sh` deletes the old lines of an option and appends the new ones, Kconfig
takes the last line, `check_config.py` updates a dictionary. `MergeFacts`, `AllAgree` and
`ParsedMeans` say that for any files all three come to the last word on every option;
each is an invariant of a fold. What Kconfig makes of a file (`Configured`) is a recursive
function over the options: `Recursion` unrolls it, so that a configuration is whatever
satisfies its equations (`ConfiguredFacts`, `ConfiguredIs`), and that reading back what
`savedefconfig` or `.config` says gives the same values (`SavedIsRestored`,
`ConfiguredAgain`) is a fact about these equations. The invariant `CfgInv` then says what
each file holds after each step (`DefconfigIs`, `PostIs`), what the checks passed so far
have established (`Checks`), why one failed (`MismatchIs`), and what a menu left in the
source tree (`MenuIs`); `DdkIs` says the same of the modules. `Checks` is about `midConfig`
because the steps after the first check change `.config` again.

`DependantsAgree` compares two configurations made from two lists of files with two
Kconfig trees. The list of a module has, after the fragments that every module gets, the
defconfigs of what it depends on (`AfterIs`); those that speak of an option that the other
module knows are in both lists, because only one module declares an option, so the last
line is the same in both (`SameLate`). The values then agree by induction over the options
(`SameValues`). That last step showed a condition which no run had met: `KernelContained`.
An option of the kernel that depends on, or takes its default from, an option that only
the Kconfig of a module declares changes its value where that Kconfig is added, and the
two modules see different values of it. Nothing in `ddk_config.bzl` looks for this.

**Only model-checked.** Liveness under fairness (`Finishes`, `CollisionReported`,
both `Ends`, `EndsUnlessCrash`, `StampDone`) and the liveness half of the refinement,
because TLAPS has no rule for fairness and `ENABLED`. And the packages and globs of
headers (`HeadersPlaced`), because names of targets and paths are strings put together
there, and no prover here knows that different strings stay different.

## 5. What is left out

### Abstractions

* Text: the wording of messages, JSON and XML syntax, quoting, file names. A document
  is the tags or the build it stands for; where two documents can be mixed in one
  file, the mix is a value of its own.
* `mktemp`'s six random characters in `cache_dir.bzl` are taken to be distinct.
* External programs (make, Kconfig, `scripts/config`, buildozer, git, `repo`,
  argparse, asyncio, `multiprocessing`) are what the code relies on; their
  definitions are marked external in `PROJECT.json`.
* The body of an action in `CacheDir` says only whether it succeeds;
  `KernelOutputs` says what it does to `$OUT_DIR`, one build at a time. That one
  build at a time is what `CacheDir` shows.
* `--dump` and the textual output of `kmi_defines.py`; which dependencies a `.cmd`
  file yields is an input.
* In `init_ddk.py`, paths: that the workspace lies below an initialised repo is
  assumed. The code's check for it (`_find_repo_root`) is the first step of
  `RepoWrapper.run` (`repo_wrapper.py:60-72`), after the downloads, and is taken to
  succeed. A half-written `default.xml` is taken to be one that does not parse. A shared
  prebuilts directory written by two concurrent runs: nothing in the code or
  its documents suggests that use.
* In `GenMakefiles`, generated sources (`gen_makefiles.py:233-242`), which are copied
  beside the Kbuild. They would count as sources like the others; that two submodules
  with the same generated file get the two copies concatenated by `_merge_directories`
  is not modelled. A source is what some module lists: what else lies in the directory
  is not there for make.
* In `GenDdkHeaders`, the suffix of a glob: the pattern is `{dir}/**/*.h`
  (lines 280-281), the model keeps the directory. Every header in the checked inputs ends in
  `.h`; another suffix below a globbed directory would be in no target.
* In `KernelConfig`, strings and numbers, and what commands of a build config
  (`PRE_DEFCONFIG_CMDS`, `POST_DEFCONFIG_CMDS`) do beside being refused or run.
* In `KernelOutputs`, `collect_unstripped_modules` is set and the device tree's
  directory is `$OUT_DIR` itself.

### Not modelled

* The rest of `kernel_build.bzl` (symtypes, gcno, `.cmd` and header files, the
  repacked archive, KMI checks) and the rules of modules, headers, device trees and
  images: each unpacks the outputs of other rules into a directory of its own, runs
  make or an image tool there and packs the result. Bazel gives each its inputs; no
  state of theirs outlives the action.
* `check_duplicated_files_in_archives.py`: one comparison of lists.
* `kernel_prebuilt_repo.bzl`: writes one BUILD file for each listed file into an
  empty repository. That none is missing is the shape of two loops.
* `repo_manifest_parser.py` beyond its file: one transformation of a document in
  memory.
* Symbol lists and KMI checks: one pass over the output of ELF tools, set operations
  and a sorted file. Whether updating a list twice changes anything is a question
  about these tools.
* `analyze_inputs.py` and `analysis/inputs.py`: regular expressions over depfiles and
  over Bazel's `aquery`, read-only.
* Toolchains, platforms, transitions, `common_kernels`, filegroups: declarations
  that Bazel evaluates.
* Reports, shell tools under `gki`, static analysis, the shell builds of before Bazel
  and the tests: nothing depends on what they leave.

## 6. Observations

Behaviours that came up while modelling and are worth knowing. No document of the
repository says otherwise, or a property above excludes the case by its condition.

* `kernel_build`: the staging directory is removed at the end of a build that
  succeeds only. With `--config=local` one that fails or is killed leaves the modules
  of its release; a later build of another release then fails when it grabs modules,
  because `lib/modules/*/kernel` is two directories, or, if it declares none, packs
  the old ones with its own, and the check of undeclared modules sees nothing because
  its `cd` fails. A build that installs no modules packs whatever an unsuccessful one has
  left, of its own release too. The condition of `ModulesOfThisBuild` excludes both. Old modules of one name in
  `$OUT_DIR` make the grab of unstripped modules fail until the directory is cleaned.
* `bazel.py`: `--help clean` deletes the cache directory and then fails with an
  AttributeError; the generated bazelrc files are truncated while another Bazel may
  read them; a wrapper that looked before another made a link right removes the right
  one for a moment.
* `build_config_to_bazel.py`: the `data` of the distribution is filled before some of
  its targets exist, which never get into it; the first FIXME on `base_kernel` is
  overridden by the second; `--stdout` still creates BUILD.bazel; run again with
  EXT_MODULES it fails because the renamed `outs` exists.
* `gen_ddk_headers.py`: a link that leaves the workspace ends the script even with
  `--keep-going`; include directories of packages without headers are dropped; a
  directory that is globbed and partly allowed puts headers into both targets
  (condition of `HeadersPlaced`).
* `build_cleaner.py`: a module in two configurations counts as two providers.
* `gen_makefiles.py` means to refuse a module whose output is `ddk_marker.ko`, but
  compares a Path with a string in line 385. Such a module passes; the marker, which
  then has the name of the module, gets no line in its Kbuild (condition of
  `KbuildMeaning`).
* `gen_makefiles.py`: a module whose only source is conditional and has the module's
  name, say `tuna.c` for `tuna.ko` if `CONFIG_A` is `y`. For such a source there is only a
  comment (lines 418-421), between `ifeq` and `endif`, and the line `obj-m += tuna.o` is
  written unconditionally (line 270): make compiles `tuna.c` whatever `CONFIG_A` is, and
  where the condition does not hold without the module's flags, which are between `ifeq`
  and `endif` too. `ddk_conditional_filegroup.bzl:118` says of the sources: "If and only
  if the config matches this value, `srcs` are included." (`Stray` in `KbuildMeaning`).
* `kernel_config.bzl`: fragments after the defconfig may override what the defconfig
  requires, and Kconfig may drop what `--lto` and its like set, without a check. With
  one fragment an option nobody touched may change in the next build when its default
  follows one that was changed; disabling an option that others need makes the next
  build's check fail; `sort_config` removes the first word of a comment, so that
  `check_config.py` refuses the fragment.
* `ddk_config_subrule.bzl`: a defconfig file that a module shares with a dependency
  is merged at the dependency's place, so that another dependency may override it
  (condition of `NoFalseAlarm`).
* `cache_dir_config_tags.py`: an action that comes to compare its tags while another
  of the same tags has truncated the file and not yet written it (lines 93-107) reads an
  empty document and fails. If the writer is killed there, the file stays empty and
  every later action in that directory fails until a `clean`.
* `repo_wrapper.py`: `default.xml` of the repo manifest is rewritten in place (lines
  139-164): open, write, truncate. A kill in between leaves a document that does not
  parse, and every later run ends with "Unable to parse repo manifest" until somebody
  restores it, for instance with `repo` (exception of `Recovers`).
* `init_download.py`: an optional download that breaks off leaves a part of the file,
  the run succeeds, and later programs use what is there.
* Of the shared cache: with more than two contenders `flock` is only as fair as the
  kernel's queue, and after a `clean` an action locks another file than one that
  still runs holds.
