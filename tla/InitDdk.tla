------------------------------- MODULE InitDdk -------------------------------
(***************************************************************************)
(* init/init_ddk.py, with init_download.py and repo_wrapper.py: one run     *)
(* sets up a DDK workspace for a build, in this order: download_configs.json *)
(* and the prebuilts (on a thread pool), the files extracted into the Kleaf *)
(* repository, tools/bazel and device.bazelrc, the repo manifest and        *)
(* `repo sync`, and MODULE.bazel.                                           *)
(*                                                                         *)
(* Runs follow each other with other options or build ids; each may fail,  *)
(* lose downloads or be killed with its subprocesses.  What a file holds is *)
(* the build it comes from.                                                *)
(***************************************************************************)
EXTENDS Integers, FiniteSets

CONSTANTS
    Build,      \* build ids
    Options,    \* what the runs are started with
    Threads,    \* max_workers of the thread pool
    MaxRun,     \* bound: runs
    MaxFault,   \* bound: downloads and syncs that fail
    MaxKill     \* bound: runs killed

NoBuild == "none"
Absent  == "absent"
Part    == "part"       \* truncated, half written or half extracted

\* Of the download list of a build: what init_ddk.py uses itself, and one optional
\* file that only kernel_prebuilt_repo reads.
Mandatory == {"headers", "constants"}
Optional  == {"manifest", "symbols"}
Artifact  == Mandatory \cup Optional

\* url_fmt and build_id are given as `build`; --local requires --kleaf_repo.
Option == {o \in [build : Build \cup {NoBuild}, prebuilts : BOOLEAN, kleaf : BOOLEAN,
                  ddk : BOOLEAN, local : BOOLEAN, sync : BOOLEAN] : o.local => o.kleaf}

ASSUME InitDdkAssumption ==
    /\ Build \cap {NoBuild, Absent, Part, "unset"} = {}
    /\ Options \subseteq Option
    /\ Threads \in Nat \ {0}
    /\ MaxRun \in Nat /\ MaxFault \in Nat /\ MaxKill \in Nat

VARIABLES
    opt, pc,
    configs,    \* prebuilts_dir/download_configs.json
    listed,     \* _download_list of this run
    have,       \* have[a]: artifact a in prebuilts_dir
    fetch,      \* fetch[a]: its download in this run
    tree,       \* tree[a]: what was put into the Kleaf repository from a
    manifest,   \* _repo_manifest_of_build of this run
    kleafXml,   \* .repo/manifests/kleaf.xml
    mainXml,    \* .repo/manifests/default.xml
    states,     \* _project_sync_states: the manifest the projects are from
    synced,     \* the manifest that `repo sync` checked out last
    link,       \* tools/bazel is there
    bazelrc,    \* device.bazelrc has its section
    module,     \* the section of MODULE.bazel: the projects its overrides name
    before,     \* faults and kills of the earlier runs
    runs, faults, kills

disk == <<configs, have, tree, kleafXml, mainXml, synced, link, bazelrc, module>>
vars == <<opt, pc, disk, listed, fetch, manifest, states, before, runs, faults, kills>>

\* default.xml as `repo init` left it, or with the element that includes kleaf.xml.
MainXml == {Absent, "plain", "includes", Part}

Copies == Build \cup {Absent, Part}

Active == {"configs", "fetching", "load", "pool", "extract", "extracting", "copy",
           "unlink", "link", "bazelrc", "manifest", "find", "populate", "populating",
           "include", "including", "sync", "module"}

TypeOK ==
    /\ opt \in Options /\ pc \in Active \cup {"idle", "ok", "failed"}
    /\ configs \in Copies /\ listed \subseteq Artifact
    /\ have \in [Artifact -> Copies]
    /\ fetch \in [Artifact -> {"no", "queued", "open", "done", "failed"}]
    /\ tree \in [Mandatory -> Copies]
    /\ manifest \in Copies /\ kleafXml \in Copies
    /\ mainXml \in MainXml /\ link \in BOOLEAN /\ bazelrc \in BOOLEAN
    /\ states \in Build \cup {NoBuild, "unset"}
    /\ synced \in Build \cup {NoBuild}
    /\ module \in Build \cup {Absent, NoBuild, "unset"}
    /\ before \in Nat /\ runs \in 0 .. MaxRun /\ faults \in 0 .. MaxFault /\ kills \in 0 .. MaxKill

Init ==
    /\ opt \in Options /\ pc = "idle"
    /\ configs = Absent /\ listed = {}
    /\ have = [a \in Artifact |-> Absent] /\ fetch = [a \in Artifact |-> "no"]
    /\ tree = [a \in Mandatory |-> Absent]
    /\ manifest = Absent /\ kleafXml = Absent
    /\ mainXml \in {Absent, "plain"}     \* Absent: `repo init` with another --manifest-name
    /\ states = "unset" /\ synced = NoBuild
    /\ link = FALSE /\ bazelrc = FALSE /\ module = Absent
    /\ before = 0 /\ runs = 0 /\ faults = 0 /\ kills = 0

CanDownload == opt.build # NoBuild
Fault == faults < MaxFault /\ faults' = faults + 1

Start(o) ==
    /\ pc \in {"idle", "ok", "failed"} /\ runs < MaxRun
    /\ opt' = o /\ pc' = "configs" /\ runs' = runs + 1
    /\ listed' = {} /\ fetch' = [a \in Artifact |-> "no"]
    /\ manifest' = Absent /\ states' = "unset" /\ before' = faults + kills
    /\ UNCHANGED <<disk, faults, kills>>

-----------------------------------------------------------------------------
(* _load_download_list *)

\* Without a directory for it there is no list; a temporary directory serves when
\* only the build is given.  open(download_configs, "w+") truncates.
OpenConfigs ==
    /\ pc = "configs"
    /\ IF opt.prebuilts /\ CanDownload
       THEN pc' = "fetching" /\ configs' = Part
       ELSE /\ pc' = IF opt.prebuilts THEN "load"
                     ELSE IF CanDownload THEN "fetching" ELSE "pool"
            /\ UNCHANGED configs
    /\ UNCHANGED <<opt, listed, have, fetch, tree, manifest, kleafXml, mainXml, states, synced,
                   link, bazelrc, module, before, runs, faults, kills>>

\* subprocess.run(..., check=True)
FetchConfigs ==
    /\ pc = "fetching"
    /\ \/ /\ pc' = "load" /\ UNCHANGED faults
          /\ configs' = IF opt.prebuilts THEN opt.build ELSE configs
       \/ pc' = "failed" /\ Fault /\ UNCHANGED configs
    /\ UNCHANGED <<opt, listed, have, fetch, tree, manifest, kleafXml, mainXml, states, synced,
                   link, bazelrc, module, before, runs, kills>>

\* json.load: a list that is missing or truncated ends the run.
LoadConfigs ==
    /\ pc = "load"
    /\ IF opt.prebuilts /\ configs \notin Build
       THEN pc' = "failed" /\ UNCHANGED listed
       ELSE pc' = "pool" /\ listed' = Artifact
    /\ UNCHANGED <<opt, disk, fetch, manifest, states, before, runs, faults, kills>>

-----------------------------------------------------------------------------
(* _download_prebuilts: one future for each file, on the thread pool *)

Downloads == opt.prebuilts /\ CanDownload

Submit ==
    /\ pc = "pool" /\ Downloads
    /\ \E a \in listed : fetch[a] = "no"
    /\ fetch' = [a \in Artifact |-> IF a \in listed THEN "queued" ELSE "no"]
    /\ UNCHANGED <<opt, pc, disk, listed, manifest, states, before, runs, faults, kills>>

Busy == {a \in Artifact : fetch[a] = "open"}

\* init_download.py: the file is opened for writing once the URL is open.
FetchOpen(a) ==
    /\ pc = "pool" /\ fetch[a] = "queued" /\ Cardinality(Busy) < Threads
    /\ fetch' = [fetch EXCEPT ![a] = "open"]
    /\ have' = [have EXCEPT ![a] = Part]
    /\ UNCHANGED <<opt, pc, configs, listed, tree, manifest, kleafXml, mainXml, states, synced,
                   link, bazelrc, module, before, runs, faults, kills>>

\* The URL cannot be opened: the old file, if any, stays.
FetchRefused(a) ==
    /\ pc = "pool" /\ fetch[a] = "queued" /\ Cardinality(Busy) < Threads
    /\ Fault
    /\ fetch' = [fetch EXCEPT ![a] = "failed"]
    /\ UNCHANGED <<opt, pc, disk, listed, manifest, states, before, runs, kills>>

FetchDone(a) ==
    /\ fetch[a] = "open"
    /\ fetch' = [fetch EXCEPT ![a] = "done"]
    /\ have' = [have EXCEPT ![a] = opt.build]
    /\ UNCHANGED <<opt, pc, configs, listed, tree, manifest, kleafXml, mainXml, states, synced,
                   link, bazelrc, module, before, runs, faults, kills>>

FetchBroken(a) ==
    /\ fetch[a] = "open"
    /\ Fault
    /\ fetch' = [fetch EXCEPT ![a] = "failed"]
    /\ UNCHANGED <<opt, pc, disk, listed, manifest, states, before, runs, kills>>

\* Mutant: only files that were downloaded count.
PoolSettledDone == \A a \in listed : fetch[a] = "done"

\* The `with` block waits for all futures, though one of them may have raised.
PoolSettled == \A a \in listed : fetch[a] \in {"done", "failed"}

\* Mutant: the results of the futures are not looked at.
PoolFailedNever == FALSE

\* A future raises when the file it downloads is mandatory.
PoolFailed == \E a \in Mandatory : fetch[a] = "failed"

PoolEnds ==
    /\ pc = "pool"
    /\ Downloads => PoolSettled
    /\ pc' = IF Downloads /\ PoolFailed THEN "failed" ELSE "extract"
    /\ UNCHANGED <<opt, disk, listed, fetch, manifest, states, before, runs, faults, kills>>

-----------------------------------------------------------------------------
(* _populate_kleaf_repo_extra_files *)

ExtractBegins ==
    /\ pc = "extract"
    /\ IF opt.kleaf /\ ~opt.local /\ opt.prebuilts
       THEN IF have["headers"] = Absent THEN pc' = "copy" /\ UNCHANGED tree
            ELSE IF have["headers"] = Part THEN pc' = "failed" /\ UNCHANGED tree
            ELSE pc' = "extracting" /\ tree' = [tree EXCEPT !["headers"] = Part]
       ELSE pc' = "unlink" /\ UNCHANGED tree
    /\ UNCHANGED <<opt, configs, listed, have, fetch, manifest, kleafXml, mainXml, states, synced,
                   link, bazelrc, module, before, runs, faults, kills>>

\* Mutant: all prebuilts are copied.
ExtractEndsAll ==
    /\ pc = "extracting" /\ pc' = "copy"
    /\ tree' = have
    /\ UNCHANGED <<opt, configs, listed, have, fetch, manifest, kleafXml, mainXml, states, synced,
                   link, bazelrc, module, before, runs, faults, kills>>

\* tar.extractall
ExtractEnds ==
    /\ pc = "extracting" /\ pc' = "copy"
    /\ tree' = [tree EXCEPT !["headers"] = have["headers"]]
    /\ UNCHANGED <<opt, configs, listed, have, fetch, manifest, kleafXml, mainXml, states, synced,
                   link, bazelrc, module, before, runs, faults, kills>>

\* common/ comes from the archive or from the projects.
CommonExists == tree["headers"] # Absent \/ synced # NoBuild

CopyConstants ==
    /\ pc = "copy"
    /\ IF have["constants"] = Absent THEN pc' = "unlink" /\ UNCHANGED tree
       ELSE IF ~CommonExists THEN pc' = "failed" /\ UNCHANGED tree
       ELSE pc' = "unlink" /\ tree' = [tree EXCEPT !["constants"] = have["constants"]]
    /\ UNCHANGED <<opt, configs, listed, have, fetch, manifest, kleafXml, mainXml, states, synced,
                   link, bazelrc, module, before, runs, faults, kills>>

-----------------------------------------------------------------------------
(* _symlink_tools_bazel, _generate_bazelrc *)

Unlink ==
    /\ pc = "unlink"
    /\ IF opt.ddk /\ opt.kleaf
       THEN pc' = "link" /\ link' = FALSE
       ELSE pc' = "manifest" /\ UNCHANGED link
    /\ UNCHANGED <<opt, configs, listed, have, fetch, tree, manifest, kleafXml, mainXml, states,
                   synced, bazelrc, module, before, runs, faults, kills>>

Link ==
    /\ pc = "link" /\ pc' = "bazelrc" /\ link' = TRUE
    /\ UNCHANGED <<opt, configs, listed, have, fetch, tree, manifest, kleafXml, mainXml, states,
                   synced, bazelrc, module, before, runs, faults, kills>>

GenerateBazelrc ==
    /\ pc = "bazelrc" /\ pc' = "manifest" /\ bazelrc' = TRUE
    /\ UNCHANGED <<opt, configs, listed, have, fetch, tree, manifest, kleafXml, mainXml, states,
                   synced, link, module, before, runs, faults, kills>>

-----------------------------------------------------------------------------
(* _handle_kleaf_repo_git_projects, RepoWrapper *)

\* _get_repo_manifest_of_build downloads the manifest, which is optional, once more.
FetchManifest ==
    /\ pc = "manifest"
    /\ IF opt.local \/ ~opt.kleaf THEN pc' = "module" /\ UNCHANGED <<have, faults>>
       ELSE /\ pc' = "find"
            /\ IF Downloads
               THEN \/ have' = [have EXCEPT !["manifest"] = opt.build] /\ UNCHANGED faults
                    \/ Fault /\ UNCHANGED have
                    \/ Fault /\ have' = [have EXCEPT !["manifest"] = Part]
               ELSE UNCHANGED <<have, faults>>
    /\ UNCHANGED <<opt, configs, listed, fetch, tree, manifest, kleafXml, mainXml, states, synced,
                   link, bazelrc, module, before, runs, kills>>

\* manifest_path.is_file(), read_text(), and the two ways to go on without projects; a
\* download that broke off before its first byte reads as no manifest.
FindManifest ==
    /\ pc = "find"
    /\ manifest' \in IF ~opt.prebuilts THEN {Absent}
                     ELSE IF have["manifest"] = Part THEN {Part, Absent}
                     ELSE {have["manifest"]}
    /\ pc' = IF manifest' = Absent THEN "include" ELSE "populate"
    /\ states' = IF manifest' = Absent THEN NoBuild ELSE states
    /\ UNCHANGED <<opt, disk, listed, fetch, before, runs, faults, kills>>

\* Mutant: open(kleaf.xml, "x")
PopulateExclusive ==
    /\ pc = "populate"
    /\ pc' = IF kleafXml = Absent THEN "populating" ELSE "failed"
    /\ kleafXml' = IF kleafXml = Absent THEN Part ELSE kleafXml
    /\ UNCHANGED <<opt, configs, listed, have, fetch, tree, manifest, mainXml, states, synced,
                   link, bazelrc, module, before, runs, faults, kills>>

\* open(kleaf.xml, "w")
PopulateBegins ==
    /\ pc = "populate"
    /\ pc' = "populating" /\ kleafXml' = Part
    /\ UNCHANGED <<opt, configs, listed, have, fetch, tree, manifest, mainXml, states, synced,
                   link, bazelrc, module, before, runs, faults, kills>>

\* write_transformed_dom: a manifest that does not parse ends the run.
PopulateEnds ==
    /\ pc = "populating"
    /\ IF manifest = Part THEN pc' = "failed" /\ UNCHANGED <<kleafXml, states>>
       ELSE pc' = "include" /\ kleafXml' = manifest /\ states' = manifest
    /\ UNCHANGED <<opt, configs, listed, have, fetch, tree, manifest, mainXml, synced,
                   link, bazelrc, module, before, runs, faults, kills>>

\* _modify_main_repo_manifest: default.xml is opened "r+", which does not create it,
\* and parsed; if it does not include kleaf.xml yet it is rewritten in place.
IncludeBegins ==
    /\ pc = "include"
    /\ \/ mainXml \in {Absent, Part} /\ pc' = "failed" /\ UNCHANGED mainXml
       \/ mainXml = "includes" /\ pc' = "sync" /\ UNCHANGED mainXml
       \/ mainXml = "plain" /\ pc' = "including" /\ mainXml' = Part
    /\ UNCHANGED <<opt, configs, listed, have, fetch, tree, manifest, kleafXml, states, synced,
                   link, bazelrc, module, before, runs, faults, kills>>

\* The rest of the document is written and the file truncated behind it.
IncludeEnds ==
    /\ pc = "including" /\ pc' = "sync" /\ mainXml' = "includes"
    /\ UNCHANGED <<opt, configs, listed, have, fetch, tree, manifest, kleafXml, states, synced,
                   link, bazelrc, module, before, runs, faults, kills>>

\* Mutant: the exit status of repo is ignored.
SyncUnchecked ==
    /\ pc = "sync" /\ pc' = "module"
    /\ \/ UNCHANGED <<synced, faults>>
       \/ opt.sync /\ kleafXml \in Build /\ synced' = kleafXml /\ UNCHANGED faults
    /\ UNCHANGED <<opt, configs, listed, have, fetch, tree, manifest, kleafXml, mainXml, states,
                   link, bazelrc, module, before, runs, kills>>

\* repo sync: an included manifest that is not there or does not parse is an error.
Sync ==
    /\ pc = "sync"
    /\ IF ~opt.sync THEN pc' = "module" /\ UNCHANGED <<synced, faults>>
       ELSE \/ kleafXml \in Build /\ pc' = "module" /\ synced' = kleafXml /\ UNCHANGED faults
            \/ kleafXml \notin Build /\ pc' = "failed" /\ UNCHANGED <<synced, faults>>
            \/ Fault /\ pc' = "failed" /\ UNCHANGED synced
    /\ UNCHANGED <<opt, configs, listed, have, fetch, tree, manifest, kleafXml, mainXml, states,
                   link, bazelrc, module, before, runs, kills>>

\* _generate_module_bazel
GenerateModule ==
    /\ pc = "module" /\ pc' = "ok"
    /\ module' = IF opt.ddk THEN states ELSE module
    /\ UNCHANGED <<opt, configs, listed, have, fetch, tree, manifest, kleafXml, mainXml, states,
                   synced, link, bazelrc, before, runs, faults, kills>>

Kill ==
    /\ pc \in Active /\ kills < MaxKill
    /\ pc' = "failed" /\ kills' = kills + 1
    /\ fetch' = [a \in Artifact |-> "no"]
    /\ UNCHANGED <<opt, disk, listed, manifest, states, before, runs, faults>>

Main ==
    \/ OpenConfigs \/ FetchConfigs \/ LoadConfigs \/ Submit \/ PoolEnds
    \/ ExtractBegins \/ ExtractEnds \/ CopyConstants \/ Unlink \/ Link \/ GenerateBazelrc
    \/ FetchManifest \/ FindManifest \/ PopulateBegins \/ PopulateEnds \/ IncludeBegins \/ IncludeEnds
    \/ Sync \/ GenerateModule
Thread(a) == FetchOpen(a) \/ FetchRefused(a) \/ FetchDone(a) \/ FetchBroken(a)

Next == (\E o \in Options : Start(o)) \/ Main \/ (\E a \in Artifact : Thread(a)) \/ Kill

Spec == Init /\ [][Next]_vars
\* Every subprocess ends, and the threads of the pool run.
FairSpec == Spec /\ WF_vars(Main) /\ \A a \in Artifact : WF_vars(Thread(a))
-----------------------------------------------------------------------------
(* Properties *)

\* A run that ends well and downloads leaves every mandatory file, and what the Kleaf
\* repository gets from them, of its own build, whatever earlier runs left behind.
MandatoryOfBuild ==
    pc = "ok" /\ Downloads =>
        /\ configs = opt.build
        /\ \A a \in Mandatory :
              /\ have[a] = opt.build
              /\ (opt.kleaf /\ ~opt.local => tree[a] = opt.build)

\* The overrides of MODULE.bazel name the projects that `repo sync` has checked out.
ModuleMatchesSync ==
    pc = "ok" /\ opt.kleaf /\ ~opt.local /\ opt.ddk /\ opt.sync /\ module \in Build =>
        module = synced

\* No thread downloads once the pool is left, by an exception or otherwise.
PoolJoined == pc # "pool" => Busy = {}

\* Running again is enough: a run that downloads and meets no failure of its own ends
\* well, whatever files a failed or killed run has left half written, with one
\* exception: it fails where it needs default.xml, which it does not download, and
\* which is not there or was cut short by a kill while it was rewritten.
Recovers ==
    pc = "failed" /\ faults + kills = before /\ Downloads =>
        opt.kleaf /\ ~opt.local /\ (mainXml = Absent \/ (mainXml = Part /\ kills > 0))

\* Every run ends.
Ends == pc \in Active ~> pc \in {"ok", "failed"}

\* Re-running with another build id refreshes all prebuilts: what a run that ends well
\* leaves in prebuilts_dir is not a file of another build.
Refreshed ==
    pc = "ok" /\ Downloads => \A a \in Artifact : have[a] \notin Build \ {opt.build}
-----------------------------------------------------------------------------
(* The inductive invariant behind the four safety properties of a run *)

\* Where a run is past each of its first steps.
AfterCopy    == {"unlink", "link", "bazelrc", "manifest", "find", "populate",
                 "populating", "include", "including", "sync", "module", "ok"}
AfterExtract == AfterCopy \cup {"copy"}
AfterPool    == AfterExtract \cup {"extract", "extracting"}
AfterFetch   == AfterPool \cup {"pool", "load"}

\* Only listed files of a downloading run are fetched, and only by the pool.
FetchOK ==
    /\ pc = "fetching" => CanDownload
    /\ \A a \in Artifact :
          /\ fetch[a] # "no" => /\ a \in listed /\ Downloads
                                /\ pc \notin {"configs", "fetching", "load"}
          /\ fetch[a] = "done" /\ pc = "pool" => have[a] = opt.build

\* What a downloading run has of its own build when it is past a step.
OwnOK ==
    /\ pc \in {"extracting", "copy", "find", "populate", "populating", "include", "including",
                "sync"} => opt.kleaf /\ ~opt.local
    /\ Downloads =>
          /\ pc \in AfterFetch => configs = opt.build
          /\ pc \in AfterPool \cup {"pool"} => listed = Artifact
          /\ pc \in AfterPool => \A a \in Mandatory : have[a] = opt.build
          /\ opt.kleaf /\ ~opt.local =>
                /\ pc \in AfterExtract => tree["headers"] = opt.build
                /\ pc \in AfterCopy => tree["constants"] = opt.build

\* The manifest that the projects come from is the one that kleaf.xml was written
\* from, until they are synced, and the one of the last sync from then on.
StatesOK ==
    /\ pc \in {"populate", "populating"} => manifest # Absent
    /\ pc \in {"include", "including", "sync"} /\ states \in Build => states = kleafXml
    /\ pc = "module" /\ opt.kleaf /\ ~opt.local /\ opt.sync /\ states \in Build =>
          states = synced

\* Only a kill leaves default.xml half written.
MainXmlOK == mainXml = Part => pc = "including" \/ kills > 0

\* No fault and no kill in this run.
Calm == faults + kills = before

\* The manifest of a downloading run that met no failure so far.
CalmOK ==
    /\ before <= faults + kills
    /\ \A a \in Artifact : fetch[a] = "failed" => ~Calm
    /\ Calm /\ Downloads =>
          /\ pc = "find" => have["manifest"] = opt.build
          /\ pc \in {"populate", "populating"} => manifest = opt.build
          /\ pc \in {"include", "including", "sync"} => kleafXml = opt.build

RunInv ==
    /\ TypeOK /\ FetchOK /\ OwnOK /\ StatesOK /\ CalmOK
    /\ PoolJoined /\ MandatoryOfBuild /\ ModuleMatchesSync /\ Recovers

IInv == RunInv /\ MainXmlOK
=============================================================================
