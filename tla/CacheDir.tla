------------------------------ MODULE CacheDir ------------------------------
(***************************************************************************)
(* The shared $OUT_DIR of `--config=local` builds: kleaf/impl/cache_dir.bzl *)
(* and kleaf/impl/cache_dir_config_tags.py.                                *)
(*                                                                         *)
(* Every KernelConfig, KernelBuild, KernelModule and ModulesPrepare action *)
(* hashes its configuration tags, uses cache_dir/<hash> as its $OUT_DIR,   *)
(* reconciles its tags with cache_dir/<hash>/kleaf_config_tags.json and    *)
(* then builds there, holding a flock on that file when                    *)
(* --debug_cache_dir_conflict is `detect` or `resolve`.  Actions run       *)
(* concurrently, of one Bazel invocation or of several, may be killed, and *)
(* `tools/bazel clean` may remove the whole cache while they run.          *)
(*                                                                         *)
(* Files are inodes: a directory names the inode of its tags file, a       *)
(* process holds inodes open, and a flock belongs to an inode.             *)
(***************************************************************************)
EXTENDS Integers, FiniteSets

CONSTANTS
    Action,     \* the build actions that use the cache
    Dir,        \* the subdirectories of cache_dir, i.e. the values of OUT_DIR_SUFFIX
    Tag,        \* the configuration tags, each with the target's label in it
    TagOf,      \* TagOf[a]: the tags of action a
    SuffixOf,   \* SuffixOf[t]: the first 8 hex digits of the sha1 of tags t
    Mode,       \* --debug_cache_dir_conflict: "none", "detect" or "resolve"
    Name,       \* the names of the last_<name> symlinks: config, build, module_<target>
    NameOf,     \* NameOf[a]: the symlink_name of action a's rule
    Inline,     \* the actions whose script contains the step's cmd as text
    MaxFile,    \* bound: tags files ever created
    MaxRun,     \* bound: times an action is run again
    MaxKill,    \* bound: actions killed
    MaxClean    \* bound: `tools/bazel clean` commands

ASSUME CacheDirAssumption ==
    /\ TagOf \in [Action -> Tag]
    /\ SuffixOf \in [Tag -> Dir]
    /\ NameOf \in [Action -> Name]
    /\ Mode \in {"none", "detect", "resolve"}
    /\ Inline \subseteq Action
    /\ MaxFile \in Nat /\ MaxRun \in Nat /\ MaxKill \in Nat /\ MaxClean \in Nat

Empty   == "empty"      \* a file that open(dest, "w") has truncated
Garbled == "garbled"    \* one JSON document written over part of another

ASSUME ContentAssumption == Empty \notin Tag /\ Garbled \notin Tag

File    == 1 .. MaxFile
NoFile  == 0
NoDir   == "nodir"
Content == Tag \cup {Empty, Garbled}

VARIABLES
    pc,         \* where each action is in its script
    root,       \* whether cache_dir itself exists
    dirs,       \* the subdirectories that exist
    file,       \* file[d]: the inode of d/kleaf_config_tags.json, or NoFile
    content,    \* content[f]: what inode f holds
    fd,         \* fd[a]: the tags file that action a has open, or NoFile
    locked,     \* the inodes on which some action holds the exclusive flock
    last,       \* last[n]: the target of cache_dir/last_<n>, or NoDir
    nfile,      \* inodes created so far
    runs, kills, cleans

vars == <<pc, root, dirs, file, content, fd, locked, last, nfile, runs, kills, cleans>>

Working   == {"check", "create", "write", "compare", "enter", "open", "lock",
              "build", "link", "unlock"}
\* Inside the section between flock_pre_cmd and flock_post_cmd.
InSection == {"build", "link", "unlock"}

Label  == Working \cup {"prepare", "done", "failed"}

\* OUT_DIR_SUFFIX of action a.
DirOf(a) == SuffixOf[TagOf[a]]

TypeOK ==
    /\ pc \in [Action -> Label]
    /\ root \in BOOLEAN
    /\ dirs \subseteq Dir
    /\ file \in [Dir -> File \cup {NoFile}]
    /\ content \in [File -> Content]
    /\ fd \in [Action -> File \cup {NoFile}]
    /\ locked \subseteq File
    /\ last \in [Name -> Dir \cup {NoDir}]
    /\ nfile \in 0 .. MaxFile
    /\ runs \in Nat /\ kills \in Nat /\ cleans \in Nat

Init ==
    /\ pc = [a \in Action |-> "prepare"]
    /\ root = FALSE /\ dirs = {}
    /\ file = [d \in Dir |-> NoFile]
    /\ content = [f \in File |-> Empty]
    /\ fd = [a \in Action |-> NoFile]
    /\ locked = {}
    /\ last = [n \in Name |-> NoDir]
    /\ nfile = 0 /\ runs = 0 /\ kills = 0 /\ cleans = 0

Goto(a, label) == pc' = [pc EXCEPT ![a] = label]

\* Mutant: a child that outlives the action keeps the descriptor open.
CloseKeepsLock(a) == fd' = [fd EXCEPT ![a] = NoFile] /\ UNCHANGED locked

\* The process of action a ends: its descriptors are closed, and with the
\* descriptor of the subshell goes the flock on it.
Close(a) ==
    /\ fd' = [fd EXCEPT ![a] = NoFile]
    /\ locked' = IF pc[a] \in InSection THEN locked \ {fd[a]} ELSE locked

Fail(a) == Goto(a, "failed") /\ Close(a)

-----------------------------------------------------------------------------
(* _get_step: the tags, their hash and the directory *)

\* mktemp, the action's own tags, OUT_DIR_SUFFIX, mkdir -p ${OUT_DIR}.
Prepare(a) ==
    /\ pc[a] = "prepare"
    /\ Goto(a, "check")
    /\ root' = TRUE
    /\ dirs' = dirs \cup {DirOf(a)}
    /\ UNCHANGED <<file, content, fd, locked, last, nfile, runs, kills, cleans>>

(* cache_dir_config_tags.main --base TMP --dest kleaf_config_tags.json *)

\* dest.is_file()
CheckDest(a) ==
    /\ pc[a] = "check"
    /\ Goto(a, IF file[DirOf(a)] = NoFile THEN "create" ELSE "compare")
    /\ UNCHANGED <<root, dirs, file, content, fd, locked, last, nfile, runs, kills, cleans>>

\* Mutant: any JSON document is accepted.
CompareDestLax(a) ==
    /\ pc[a] = "compare"
    /\ LET f == file[DirOf(a)] IN
       IF f # NoFile /\ content[f] \in Tag
       THEN Goto(a, "enter") /\ UNCHANGED <<fd, locked>>
       ELSE Fail(a)
    /\ UNCHANGED <<root, dirs, file, content, last, nfile, runs, kills, cleans>>

\* load_json(dest) and the comparison: any difference is fatal, and so is a
\* file that is gone or that is not a JSON document.
CompareDest(a) ==
    /\ pc[a] = "compare"
    /\ LET f == file[DirOf(a)] IN
       IF f # NoFile /\ content[f] = TagOf[a]
       THEN Goto(a, "enter") /\ UNCHANGED <<fd, locked>>
       ELSE Fail(a)
    /\ UNCHANGED <<root, dirs, file, content, last, nfile, runs, kills, cleans>>

\* open(dest, "w"): creates the file or truncates the one that appeared since
\* the test; fails when the directory has been removed.
CreateDest(a) ==
    /\ pc[a] = "create"
    /\ LET d == DirOf(a)
           f == IF file[d] = NoFile THEN nfile + 1 ELSE file[d] IN
       IF d \in dirs
       THEN /\ f <= MaxFile
            /\ Goto(a, "write")
            /\ file' = [file EXCEPT ![d] = f]
            /\ content' = [content EXCEPT ![f] = Empty]
            /\ fd' = [fd EXCEPT ![a] = f]
            /\ nfile' = IF file[d] = NoFile THEN f ELSE nfile
            /\ UNCHANGED locked
       ELSE Fail(a) /\ UNCHANGED <<file, content, nfile>>
    /\ UNCHANGED <<root, dirs, last, runs, kills, cleans>>

\* What inode f holds after tags t are written from offset 0: a longer document
\* of other tags keeps its tail.
Written(f, t) ==
    IF content[f] \in {Empty, t} THEN {t} ELSE {t, Garbled}

\* Mutant: the buffered document is lost.
WriteDestLost(a) ==
    /\ pc[a] = "write"
    /\ fd' = [fd EXCEPT ![a] = NoFile]
    /\ Goto(a, "enter")
    /\ UNCHANGED <<root, dirs, file, content, locked, last, nfile, runs, kills, cleans>>

\* write_json(config_tags, dest_file), flushed when the file is closed.
WriteDest(a) ==
    /\ pc[a] = "write"
    /\ \E c \in Written(fd[a], TagOf[a]) : content' = [content EXCEPT ![fd[a]] = c]
    /\ fd' = [fd EXCEPT ![a] = NoFile]
    /\ Goto(a, "enter")
    /\ UNCHANGED <<root, dirs, file, locked, last, nfile, runs, kills, cleans>>

-----------------------------------------------------------------------------
(* flock_pre_cmd, the body of the rule, post_cmd *)

\* Mutant: flock_pre_cmd is left out.
EnterUnlocked(a) ==
    /\ pc[a] = "enter"
    /\ Goto(a, "build")
    /\ UNCHANGED <<root, dirs, file, content, fd, locked, last, nfile, runs, kills, cleans>>

\* Without a lock mode the body follows at once.  With one, the cmd ends in an
\* open parenthesis: a script that contains the cmd goes on to the redirection of
\* the subshell, one that passes it to `eval` as KLEAF_RESTORE_OUT_DIR_CMD stops
\* there, at a syntax error.
EnterSection(a) ==
    /\ pc[a] = "enter"
    /\ IF Mode # "none" /\ a \notin Inline
       THEN Fail(a)
       ELSE Goto(a, IF Mode = "none" THEN "build" ELSE "open") /\ UNCHANGED <<fd, locked>>
    /\ UNCHANGED <<root, dirs, file, content, last, nfile, runs, kills, cleans>>

\* ( ... ) 1055<"${COMMON_OUT_DIR}/kleaf_config_tags.json"
OpenTags(a) ==
    /\ pc[a] = "open"
    /\ IF file[DirOf(a)] # NoFile
       THEN /\ Goto(a, "lock")
            /\ fd' = [fd EXCEPT ![a] = file[DirOf(a)]]
            /\ UNCHANGED locked
       ELSE Fail(a)
    /\ UNCHANGED <<root, dirs, file, content, last, nfile, runs, kills, cleans>>

\* Mutant: flock -s, a shared lock.
FlockShared(a) ==
    /\ pc[a] = "lock"
    /\ Goto(a, "build")
    /\ locked' = locked \cup {fd[a]}
    /\ UNCHANGED <<root, dirs, file, content, fd, last, nfile, runs, kills, cleans>>

\* flock -x 1055 waits for the lock; flock -x -n 1055 gives up at once.
Flock(a) ==
    /\ pc[a] = "lock"
    /\ fd[a] \notin locked
    /\ Goto(a, "build")
    /\ locked' = locked \cup {fd[a]}
    /\ UNCHANGED <<root, dirs, file, content, fd, last, nfile, runs, kills, cleans>>

\* Mutant: flock -x -n in both modes.
FlockRefusedAlways(a) ==
    /\ pc[a] = "lock"
    /\ fd[a] \in locked
    /\ Fail(a)
    /\ UNCHANGED <<root, dirs, file, content, last, nfile, runs, kills, cleans>>

FlockRefused(a) ==
    /\ pc[a] = "lock"
    /\ Mode = "detect"
    /\ fd[a] \in locked
    /\ Fail(a)
    /\ UNCHANGED <<root, dirs, file, content, last, nfile, runs, kills, cleans>>

\* The rule's own commands in $OUT_DIR; under `set -e` a failing one ends it.
BuildSucceeds(a) ==
    /\ pc[a] = "build"
    /\ Goto(a, "link")
    /\ UNCHANGED <<root, dirs, file, content, fd, locked, last, nfile, runs, kills, cleans>>

BuildFails(a) ==
    /\ pc[a] = "build"
    /\ Fail(a)
    /\ UNCHANGED <<root, dirs, file, content, last, nfile, runs, kills, cleans>>

\* ln -sfT ${OUT_DIR_SUFFIX} {cache_dir}/last_{symlink_name}: needs cache_dir.
LinkLast(a) ==
    /\ pc[a] = "link"
    /\ IF root
       THEN /\ Goto(a, "unlock")
            /\ last' = [last EXCEPT ![NameOf[a]] = DirOf(a)]
            /\ UNCHANGED <<fd, locked>>
       ELSE Fail(a) /\ UNCHANGED last
    /\ UNCHANGED <<root, dirs, file, content, nfile, runs, kills, cleans>>

\* The subshell ends and closes descriptor 1055.
Unlock(a) ==
    /\ pc[a] = "unlock"
    /\ Goto(a, "done")
    /\ Close(a)
    /\ UNCHANGED <<root, dirs, file, content, last, nfile, runs, kills, cleans>>

-----------------------------------------------------------------------------
(* What happens around an action *)

\* A later build runs the action again.
Rerun(a) ==
    /\ pc[a] \in {"done", "failed"}
    /\ runs < MaxRun
    /\ Goto(a, "prepare")
    /\ runs' = runs + 1
    /\ UNCHANGED <<root, dirs, file, content, fd, locked, last, nfile, kills, cleans>>

\* Bazel is interrupted and the action's processes are killed.
Kill(a) ==
    /\ pc[a] \in Working
    /\ kills < MaxKill
    /\ Fail(a)
    /\ kills' = kills + 1
    /\ UNCHANGED <<root, dirs, file, content, last, nfile, runs, cleans>>

\* `tools/bazel clean`: the wrapper removes cache_dir before Bazel sees the command.
Clean ==
    /\ cleans < MaxClean
    /\ cleans' = cleans + 1
    /\ root' = FALSE
    /\ dirs' = {}
    /\ file' = [d \in Dir |-> NoFile]
    /\ last' = [n \in Name |-> NoDir]
    /\ UNCHANGED <<pc, content, fd, locked, nfile, runs, kills>>

\* Any other command of the wrapper: os.makedirs(cache_dir, exist_ok=True).
MakeRoot ==
    /\ ~root
    /\ root' = TRUE
    /\ UNCHANGED <<pc, dirs, file, content, fd, locked, last, nfile, runs, kills, cleans>>

\* The steps an action takes by itself; the operating system runs them all.
Step(a) ==
    \/ Prepare(a) \/ CheckDest(a) \/ CompareDest(a) \/ CreateDest(a) \/ WriteDest(a)
    \/ EnterSection(a) \/ OpenTags(a) \/ Flock(a) \/ FlockRefused(a)
    \/ BuildSucceeds(a) \/ BuildFails(a) \/ LinkLast(a) \/ Unlock(a)

Next ==
    \/ \E a \in Action : Step(a) \/ Rerun(a) \/ Kill(a)
    \/ Clean \/ MakeRoot

Spec == Init /\ [][Next]_vars
FairSpec == Spec /\ \A a \in Action : WF_vars(Step(a))
-----------------------------------------------------------------------------
(* Properties *)

\* d has a tags file that nobody is about to write.
Settled(d) ==
    /\ file[d] # NoFile
    /\ content[file[d]] # Empty
    /\ \A a \in Action : DirOf(a) = d => pc[a] \notin {"create", "write"}

\* Past the reconciliation of the tags.
Reconciled(a) == pc[a] \in {"enter", "open", "lock"} \cup InSection

\* With either lock mode, and as long as nobody cleans the cache, two actions are
\* never between flock_pre_cmd and flock_post_cmd in the same $OUT_DIR.
Exclusive ==
    Mode # "none" /\ cleans = 0 =>
        \A a, b \in Action :
            a # b /\ DirOf(a) = DirOf(b) => ~(pc[a] \in InSection /\ pc[b] \in InSection)

\* An empty tags file always has a writer that will complete it, unless some action
\* was killed: nothing else leaves a truncated file that no later build accepts.
NoOrphanEmpty ==
    kills = 0 =>
        \A d \in Dir : file[d] # NoFile /\ content[file[d]] = Empty =>
            \E a \in Action : pc[a] = "write" /\ fd[a] = file[d]

\* Once settled, a directory stays settled with the same tags until a clean: the
\* test dest.is_file() sends every later action to the comparison.
SettledStays ==
    [][\A d \in Dir : Settled(d) /\ cleans' = cleans =>
            /\ Settled(d)'
            /\ file'[d] = file[d] /\ content'[file[d]] = content[file[d]]]_vars

\* The settled tags of d are those of every action that went on to build in it.
TrueToTags(d) ==
    Settled(d) /\ \A a \in Action :
        DirOf(a) = d /\ Reconciled(a) => TagOf[a] = content[file[d]]

\* What the comparison is for: where different tags have one directory, none but
\* actions with the tags in its settled file get to build in it until a clean.
TagsKept == [][\A d \in Dir : TrueToTags(d) /\ cleans' = cleans => TrueToTags(d)']_vars

\* An action that finds settled tags other than its own ends with an error.
CollisionReported ==
    \A a \in Action :
        (pc[a] = "check" /\ Settled(DirOf(a)) /\ content[file[DirOf(a)]] # TagOf[a])
            ~> (pc[a] = "failed" \/ cleans > 0)

\* Every action that starts ends, waiting for the lock included.
Finishes == \A a \in Action : pc[a] \in Working ~> pc[a] \in {"done", "failed"}

\* What `resolve` promises: conflicts are resolved serially.  Once its tags are
\* reconciled, an action that nobody kills, in a cache that nobody cleans, gets
\* through the lock and to its end: it fails only where its own commands do.
ConflictsResolved ==
    [][\A a \in Action :
            (Mode = "resolve" /\ cleans = 0 /\ kills' = kills
             /\ Reconciled(a) /\ pc'[a] = "failed") => pc[a] = "build"]_vars

-----------------------------------------------------------------------------
(* The inductive invariant behind Exclusive, SettledStays and TagsKept *)

\* Which descriptors an action has, by where it is.
FdOK ==
    \A a \in Action :
        /\ pc[a] \in {"write", "lock"} => fd[a] \in File
        /\ pc[a] \in InSection /\ Mode # "none" => fd[a] \in File /\ fd[a] \in locked
        /\ pc[a] \in InSection /\ Mode = "none" => fd[a] = NoFile
        /\ pc[a] \notin InSection \cup {"write", "lock"} => fd[a] = NoFile

\* Only the lock modes have a redirection to open and a lock to take.
OpenOK == \A a \in Action : Mode = "none" => pc[a] \notin {"open", "lock"}

\* No two descriptors of the section are open on one inode.
LockOK ==
    \A a, b \in Action :
        a # b /\ Mode # "none" /\ pc[a] \in InSection /\ pc[b] \in InSection
            => fd[a] # fd[b]

\* The inodes in use are the first nfile, and no two directories share one.
FileOK ==
    /\ \A d \in Dir : file[d] <= nfile
    /\ \A a \in Action : fd[a] <= nfile
    /\ \A d, e \in Dir : file[d] = file[e] /\ file[d] # NoFile => d = e

\* A descriptor is on the tags file of the action's own directory: always if no
\* clean has renewed the file, and never on that of another directory.
NameOK ==
    \A a \in Action :
        /\ cleans = 0 /\ fd[a] # NoFile => fd[a] = file[DirOf(a)]
        /\ \A d \in Dir : fd[a] # NoFile /\ fd[a] = file[d] => d = DirOf(a)

IInv == TypeOK /\ FdOK /\ OpenOK /\ LockOK /\ FileOK /\ NameOK

-----------------------------------------------------------------------------
(* What the locks implement: the exclusive use of an $OUT_DIR *)

phase == [a \in Action |->
            CASE pc[a] \in InSection -> "using"
              [] pc[a] \in Working \ InSection -> "trying"
              [] OTHER -> "idle"]

Excl == INSTANCE ExclusiveDir WITH User <- Action, Place <- Dir,
                                   PlaceOf <- [a \in Action |-> DirOf(a)], phase <- phase
ImplementsExclusiveDir == Excl!Spec
=============================================================================
