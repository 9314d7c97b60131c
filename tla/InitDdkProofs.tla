---------------------------- MODULE InitDdkProofs ----------------------------
(***************************************************************************)
(* Theorems about InitDdk, the setup of a DDK workspace: the inductive      *)
(* invariant, one lemma for each group of steps, and from it the safety     *)
(* properties, for any builds, options, threads, runs, failures and kills.  *)
(***************************************************************************)
EXTENDS InitDdk, TLAPS

-----------------------------------------------------------------------------
(* The counters and the arguments *)

\* A run that can download has a build of its own.
LEMMA OptionFacts ==
  ASSUME TypeOK
  PROVE  /\ CanDownload => opt.build \in Build
         /\ Downloads => CanDownload
         /\ Build \cap {NoBuild, Absent, Part, "unset"} = {}
BY InitDdkAssumption DEF TypeOK, Option, CanDownload, Downloads

\* The types of the counters.
Counters ==
    /\ before \in Nat /\ runs \in 0 .. MaxRun
    /\ faults \in 0 .. MaxFault /\ kills \in 0 .. MaxKill

\* A step that is not the start of a run counts a failure or leaves the counters alone.
SameRun ==
    /\ UNCHANGED before
    /\ UNCHANGED <<faults, kills>> \/ ~Calm'
    /\ Fault \/ kills' # kills => ~Calm'

\* Every step but the start of a run counts its failure, or kill, or leaves the counters.
LEMMA Counting ==
  ASSUME TypeOK, CalmOK, [Next]_vars
  PROVE  /\ Counters'
         /\ before' <= faults' + kills'
         /\ SameRun \/ (\E o \in Options : Start(o))
<1> USE InitDdkAssumption DEF Counters, SameRun, Calm
<1>0. Counters /\ before <= faults + kills
  BY DEF TypeOK, CalmOK
<1>1. CASE UNCHANGED <<before, runs, faults, kills>>
  BY <1>0, <1>1 DEF Fault
<1>2. CASE UNCHANGED <<before, runs, kills>> /\ Fault
  BY <1>0, <1>2 DEF Fault
<1>3. CASE Kill
  BY <1>0, <1>3 DEF Kill
<1>4. ASSUME NEW o \in Options, Start(o)
      PROVE  Counters' /\ before' <= faults' + kills'
  BY <1>0, <1>4 DEF Start
<1>5. ASSUME Main PROVE UNCHANGED <<before, runs, kills>> /\ (UNCHANGED faults \/ Fault)
  BY <1>5 DEF Main, OpenConfigs, FetchConfigs, LoadConfigs, Submit, PoolEnds, ExtractBegins,
              ExtractEnds, CopyConstants, Unlink, Link, GenerateBazelrc, FetchManifest,
              FindManifest, PopulateBegins, PopulateEnds, IncludeBegins, IncludeEnds, Sync,
              GenerateModule
<1>6. ASSUME NEW a \in Artifact, Thread(a)
      PROVE  UNCHANGED <<before, runs, kills>> /\ (UNCHANGED faults \/ Fault)
  BY <1>6 DEF Thread, FetchOpen, FetchRefused, FetchDone, FetchBroken
<1>7. CASE UNCHANGED vars
  BY <1>1, <1>7 DEF vars
<1> QED BY <1>1, <1>2, <1>3, <1>4, <1>5, <1>6, <1>7 DEF Next

\* Only a kill leaves default.xml half written.
LEMMA MainXmlNext ==
  ASSUME TypeOK, MainXmlOK, [Next]_vars
  PROVE  MainXmlOK'
<1>1. kills \in Nat
  BY InitDdkAssumption DEF TypeOK
<1>2. CASE UNCHANGED <<mainXml, kills>> /\ pc # "including"
  BY <1>2 DEF MainXmlOK
<1>3. CASE Kill
  BY <1>1, <1>3 DEF Kill, MainXmlOK
<1>4. CASE IncludeBegins \/ IncludeEnds
  BY <1>4 DEF IncludeBegins, IncludeEnds, MainXmlOK, Part
<1>5. ASSUME NEW o \in Options, Start(o)
      PROVE  UNCHANGED <<mainXml, kills>> /\ pc # "including"
  BY <1>5 DEF Start, disk
<1>6. ASSUME Main
      PROVE  \/ UNCHANGED <<mainXml, kills>> /\ pc # "including"
             \/ IncludeBegins \/ IncludeEnds
  BY <1>6 DEF Main, OpenConfigs, FetchConfigs, LoadConfigs, Submit, PoolEnds, ExtractBegins,
              ExtractEnds, CopyConstants, Unlink, Link, GenerateBazelrc, FetchManifest,
              FindManifest, PopulateBegins, PopulateEnds, Sync, GenerateModule, disk
<1>7. ASSUME NEW a \in Artifact, Thread(a)
      PROVE  UNCHANGED <<mainXml, kills, pc>>
  BY <1>7 DEF Thread, FetchOpen, FetchRefused, FetchDone, FetchBroken, disk
<1>8. CASE UNCHANGED <<mainXml, kills, pc>>
  BY <1>8 DEF MainXmlOK
<1>9. CASE UNCHANGED vars
  BY <1>8, <1>9 DEF vars, disk
<1> QED BY <1>2, <1>3, <1>4, <1>5, <1>6, <1>7, <1>8, <1>9 DEF Next

\* Past the pool, a step that leaves the futures alone keeps what is known of them.
LEMMA LaterStays ==
  ASSUME RunInv, UNCHANGED <<opt, listed, fetch>>, pc # "pool",
         pc' \notin {"configs", "fetching", "load", "pool"}
  PROVE  FetchOK' /\ PoolJoined'
BY DEF RunInv, FetchOK, PoolJoined, Busy, Downloads, CanDownload

-----------------------------------------------------------------------------
(* The steps of a run, in their order *)

\* Reading, fetching and loading the list of files to download.
LEMMA ConfigsPreserves ==
  ASSUME RunInv, Counters', before' <= faults' + kills',
         SameRun,
         OpenConfigs \/ FetchConfigs \/ LoadConfigs
  PROVE  RunInv'
<1>1. TypeOK'
  <2>1. CASE OpenConfigs
    <3>1. pc' \in Active \cup {"idle", "ok", "failed"}
      BY <2>1 DEF OpenConfigs, RunInv, TypeOK, Active, disk
    <3>2. configs' \in Copies
      BY <2>1 DEF OpenConfigs, RunInv, TypeOK, Copies
    <3> QED BY <2>1, <3>1, <3>2 DEF OpenConfigs, RunInv, TypeOK, Counters, disk
  <2>2. CASE FetchConfigs
    <3>1. pc' \in Active \cup {"idle", "ok", "failed"}
      BY <2>2 DEF FetchConfigs, RunInv, TypeOK, Active, disk
    <3>2. configs' \in Copies
      BY <2>2, OptionFacts DEF FetchConfigs, RunInv, TypeOK, FetchOK, Copies
    <3> QED BY <2>2, <3>1, <3>2 DEF FetchConfigs, RunInv, TypeOK, Counters, disk
  <2>3. CASE LoadConfigs
    <3>1. pc' \in Active \cup {"idle", "ok", "failed"}
      BY <2>3 DEF LoadConfigs, RunInv, TypeOK, Active, disk
    <3>2. listed' \subseteq Artifact
      BY <2>3 DEF LoadConfigs, RunInv, TypeOK
    <3> QED BY <2>3, <3>1 DEF LoadConfigs, RunInv, TypeOK, disk
  <2> QED BY <2>1, <2>2, <2>3
<1>2. FetchOK'
  <2>1. CASE OpenConfigs
    BY <2>1 DEF OpenConfigs, RunInv, FetchOK, CanDownload
  <2>2. CASE FetchConfigs
    BY <2>2 DEF FetchConfigs, RunInv, FetchOK
  <2>3. CASE LoadConfigs
    BY <2>3 DEF LoadConfigs, RunInv, FetchOK
  <2> QED BY <2>1, <2>2, <2>3
<1>3. OwnOK'
  BY DEF OpenConfigs, FetchConfigs, LoadConfigs, RunInv, OwnOK, Downloads, CanDownload, AfterCopy,
         AfterExtract, AfterPool, AfterFetch, disk
<1>4. StatesOK'
  BY OptionFacts DEF OpenConfigs, FetchConfigs, LoadConfigs, RunInv, TypeOK, StatesOK, disk, Fault
<1>5. CalmOK'
  BY DEF OpenConfigs, FetchConfigs, LoadConfigs, SameRun, RunInv, CalmOK, Calm
<1>6. PoolJoined'
  BY DEF OpenConfigs, FetchConfigs, LoadConfigs, RunInv, PoolJoined, Busy
<1>7. MandatoryOfBuild'
  BY DEF OpenConfigs, FetchConfigs, LoadConfigs, MandatoryOfBuild
<1>8. ModuleMatchesSync'
  BY DEF OpenConfigs, FetchConfigs, LoadConfigs, ModuleMatchesSync
<1>9. Recovers'
  BY OptionFacts DEF OpenConfigs, FetchConfigs, LoadConfigs, SameRun, RunInv, OwnOK, Calm,
                     Recovers, Downloads, CanDownload, AfterFetch
<1> QED BY <1>1, <1>2, <1>3, <1>4, <1>5, <1>6, <1>7, <1>8, <1>9 DEF RunInv

\* Handing the downloads to the pool and leaving the pool.
LEMMA PoolPreserves ==
  ASSUME RunInv, Counters', before' <= faults' + kills',
         SameRun,
         Submit \/ PoolEnds
  PROVE  RunInv'
<1>1. TypeOK'
  <2>1. CASE Submit
    <3>1. pc' \in Active \cup {"idle", "ok", "failed"}
      BY <2>1 DEF Submit, RunInv, TypeOK, Active, disk
    <3>2. fetch' \in [Artifact -> {"no", "queued", "open", "done", "failed"}]
      BY <2>1 DEF Submit
    <3> QED BY <2>1 DEF Submit, RunInv, TypeOK, disk
  <2>2. CASE PoolEnds
    <3>1. pc' \in Active \cup {"idle", "ok", "failed"}
      BY <2>2 DEF PoolEnds, RunInv, TypeOK, Active, disk
    <3> QED BY <2>2, <3>1 DEF PoolEnds, RunInv, TypeOK, disk
  <2> QED BY <2>1, <2>2
<1>2. FetchOK'
  <2>1. CASE Submit
    BY <2>1 DEF Submit, FetchOK, Downloads, CanDownload
  <2>2. CASE PoolEnds
    BY <2>2 DEF PoolEnds, RunInv, FetchOK, Downloads, CanDownload
  <2> QED BY <2>1, <2>2
<1>3. OwnOK'
  BY DEF Submit, PoolEnds, RunInv, FetchOK, OwnOK, Downloads, CanDownload, PoolSettled,
         PoolFailed, AfterCopy, AfterExtract, AfterPool, AfterFetch, Artifact, disk
<1>4. StatesOK'
  BY DEF Submit, PoolEnds, StatesOK
<1>5. CalmOK'
  BY DEF Submit, PoolEnds, RunInv, CalmOK, Calm
<1>6. PoolJoined'
  BY DEF Submit, PoolEnds, RunInv, FetchOK, PoolJoined, Busy, PoolSettled
<1>7. MandatoryOfBuild'
  BY DEF Submit, PoolEnds, MandatoryOfBuild
<1>8. ModuleMatchesSync'
  BY DEF Submit, PoolEnds, ModuleMatchesSync
<1>9. Recovers'
  BY DEF Submit, PoolEnds, RunInv, CalmOK, Calm, Recovers, PoolFailed, Artifact
<1> QED BY <1>1, <1>2, <1>3, <1>4, <1>5, <1>6, <1>7, <1>8, <1>9 DEF RunInv

\* Extracting the headers and copying the constants.
LEMMA ExtractPreserves ==
  ASSUME RunInv, Counters', before' <= faults' + kills',
         SameRun,
         ExtractBegins \/ ExtractEnds \/ CopyConstants
  PROVE  RunInv'
<1>1. TypeOK'
  <2>1. CASE ExtractBegins
    <3>1. pc' \in Active \cup {"idle", "ok", "failed"}
      BY <2>1 DEF ExtractBegins, RunInv, TypeOK, Active, disk
    <3>2. tree' \in [Mandatory -> Copies]
      BY <2>1 DEF ExtractBegins, RunInv, TypeOK, Copies
    <3> QED BY <2>1, <3>1, <3>2 DEF ExtractBegins, RunInv, TypeOK
  <2>2. CASE ExtractEnds
    <3>1. pc' \in Active \cup {"idle", "ok", "failed"}
      BY <2>2 DEF ExtractEnds, RunInv, TypeOK, Active, disk
    <3>2. tree' \in [Mandatory -> Copies]
      BY <2>2 DEF ExtractEnds, RunInv, TypeOK, Artifact
    <3> QED BY <2>2, <3>1, <3>2 DEF ExtractEnds, RunInv, TypeOK
  <2>3. CASE CopyConstants
    <3>1. pc' \in Active \cup {"idle", "ok", "failed"}
      BY <2>3 DEF CopyConstants, RunInv, TypeOK, Active, disk
    <3>2. tree' \in [Mandatory -> Copies]
      BY <2>3 DEF CopyConstants, RunInv, TypeOK, Artifact
    <3> QED BY <2>3, <3>1, <3>2 DEF CopyConstants, RunInv, TypeOK
  <2> QED BY <2>1, <2>2, <2>3
<1>2. FetchOK'
  BY LaterStays DEF ExtractBegins, ExtractEnds, CopyConstants, disk
<1>3. OwnOK'
  <2>1. CASE ExtractBegins
    BY <2>1, OptionFacts DEF ExtractBegins, RunInv, OwnOK, Downloads, CanDownload, AfterCopy,
                             AfterExtract, AfterPool, AfterFetch, Mandatory
  <2>2. CASE ExtractEnds
    BY <2>2 DEF ExtractEnds, RunInv, TypeOK, OwnOK, Downloads, CanDownload, AfterCopy, AfterPool,
                AfterFetch, Mandatory
  <2>3. CASE CopyConstants
    BY <2>3, OptionFacts DEF CopyConstants, RunInv, TypeOK, OwnOK, Downloads, CanDownload,
                             AfterCopy, AfterExtract, AfterPool, AfterFetch, Mandatory
  <2> QED BY <2>1, <2>2, <2>3
<1>4. StatesOK'
  BY DEF ExtractBegins, ExtractEnds, CopyConstants, StatesOK
<1>5. CalmOK'
  BY DEF ExtractBegins, ExtractEnds, CopyConstants, RunInv, CalmOK, Calm
<1>6. PoolJoined'
  BY LaterStays DEF ExtractBegins, ExtractEnds, CopyConstants, disk
<1>7. MandatoryOfBuild'
  BY DEF ExtractBegins, ExtractEnds, CopyConstants, MandatoryOfBuild
<1>8. ModuleMatchesSync'
  BY DEF ExtractBegins, ExtractEnds, CopyConstants, ModuleMatchesSync
<1>9. Recovers'
  BY OptionFacts DEF ExtractBegins, ExtractEnds, CopyConstants, RunInv, OwnOK, Recovers,
                     Downloads, CanDownload, CommonExists, AfterExtract, AfterPool, Mandatory
<1> QED BY <1>1, <1>2, <1>3, <1>4, <1>5, <1>6, <1>7, <1>8, <1>9 DEF RunInv

\* The link to tools/bazel and the section of device.bazelrc.
LEMMA FilesPreserves ==
  ASSUME RunInv, Counters', before' <= faults' + kills',
         SameRun,
         Unlink \/ Link \/ GenerateBazelrc
  PROVE  RunInv'
<1>1. TypeOK'
  <2>1. CASE Unlink
    <3>1. pc' \in Active \cup {"idle", "ok", "failed"}
      BY <2>1 DEF Unlink, RunInv, TypeOK, Active, disk
    <3>2. link' \in BOOLEAN
      BY <2>1 DEF Unlink, RunInv, TypeOK
    <3> QED BY <2>1, <3>1 DEF Unlink, RunInv, TypeOK
  <2>2. CASE Link
    <3>1. pc' \in Active \cup {"idle", "ok", "failed"}
      BY <2>2 DEF Link, RunInv, TypeOK, Active, disk
    <3>2. link' \in BOOLEAN
      BY <2>2 DEF Link
    <3> QED BY <2>2, <3>1 DEF Link, RunInv, TypeOK
  <2>3. CASE GenerateBazelrc
    <3>1. pc' \in Active \cup {"idle", "ok", "failed"}
      BY <2>3 DEF GenerateBazelrc, Active
    <3>2. bazelrc' \in BOOLEAN
      BY <2>3 DEF GenerateBazelrc
    <3> QED BY <2>3, <3>1 DEF GenerateBazelrc, RunInv, TypeOK
  <2> QED BY <2>1, <2>2, <2>3
<1>2. FetchOK'
  BY LaterStays DEF Unlink, Link, GenerateBazelrc, disk
<1>3. OwnOK'
  BY DEF Unlink, Link, GenerateBazelrc, RunInv, OwnOK, Downloads, CanDownload, AfterCopy,
         AfterExtract, AfterPool, AfterFetch
<1>4. StatesOK'
  BY DEF Unlink, Link, GenerateBazelrc, StatesOK
<1>5. CalmOK'
  BY DEF Unlink, Link, GenerateBazelrc, RunInv, CalmOK, Calm
<1>6. PoolJoined'
  BY LaterStays DEF Unlink, Link, GenerateBazelrc, disk
<1>7. MandatoryOfBuild'
  BY DEF Unlink, Link, GenerateBazelrc, MandatoryOfBuild
<1>8. ModuleMatchesSync'
  BY DEF Unlink, Link, GenerateBazelrc, ModuleMatchesSync
<1>9. Recovers'
  BY DEF Unlink, Link, GenerateBazelrc, Recovers
<1> QED BY <1>1, <1>2, <1>3, <1>4, <1>5, <1>6, <1>7, <1>8, <1>9 DEF RunInv

\* Fetching, finding and transforming the manifest of the projects.
LEMMA ManifestPreserves ==
  ASSUME RunInv, Counters', before' <= faults' + kills',
         SameRun,
         FetchManifest \/ FindManifest \/ PopulateBegins \/ PopulateEnds
  PROVE  RunInv'
<1>1. TypeOK'
  <2>1. CASE FetchManifest
    <3>1. pc' \in Active \cup {"idle", "ok", "failed"}
      BY <2>1 DEF FetchManifest, RunInv, TypeOK, Active, disk
    <3>2. have' \in [Artifact -> Copies]
      <4>1. Downloads => opt.build \in Copies
        BY OptionFacts DEF RunInv, Copies
      <4>2. have' = have \/ (\E v \in Copies : have' = [have EXCEPT !["manifest"] = v])
        BY <2>1, <4>1 DEF FetchManifest, Copies
      <4> QED BY <4>2 DEF RunInv, TypeOK
    <3> QED BY <2>1, <3>1, <3>2 DEF FetchManifest, RunInv, TypeOK, Counters, disk
  <2>2. CASE FindManifest
    <3>1. pc' \in Active \cup {"idle", "ok", "failed"}
      BY <2>2 DEF FindManifest, RunInv, TypeOK, Active, disk
    <3>2. manifest' \in Copies /\ states' \in Build \cup {NoBuild, "unset"}
      BY <2>2 DEF FindManifest, RunInv, TypeOK, Copies, Artifact, Optional
    <3> QED BY <2>2, <3>1, <3>2 DEF FindManifest, RunInv, TypeOK, Counters, disk
  <2>3. CASE PopulateBegins
    <3>1. pc' \in Active \cup {"idle", "ok", "failed"}
      BY <2>3 DEF PopulateBegins, RunInv, TypeOK, Active, disk
    <3>2. kleafXml' \in Copies
      BY <2>3 DEF PopulateBegins, Copies
    <3> QED BY <2>3, <3>1, <3>2 DEF PopulateBegins, RunInv, TypeOK
  <2>4. CASE PopulateEnds
    <3>1. pc' \in Active \cup {"idle", "ok", "failed"}
      BY <2>4 DEF PopulateEnds, RunInv, TypeOK, Active, disk
    <3>2. manifest # Part => manifest \in Build
      BY <2>4 DEF PopulateEnds, RunInv, TypeOK, StatesOK, Copies
    <3>3. kleafXml' \in Copies /\ states' \in Build \cup {NoBuild, "unset"}
      BY <2>4, <3>2 DEF PopulateEnds, RunInv, TypeOK, Copies
    <3> QED BY <2>4, <3>1, <3>3 DEF PopulateEnds, RunInv, TypeOK
  <2> QED BY <2>1, <2>2, <2>3, <2>4
<1>2. FetchOK'
  BY LaterStays DEF FetchManifest, FindManifest, PopulateBegins, PopulateEnds, disk
<1>3. OwnOK'
  BY DEF FetchManifest, FindManifest, PopulateBegins, PopulateEnds, RunInv, TypeOK, OwnOK,
         Downloads, CanDownload, AfterCopy, AfterExtract, AfterPool, AfterFetch, Artifact,
         Mandatory, disk
<1>4. StatesOK'
  BY OptionFacts DEF FetchManifest, FindManifest, PopulateBegins, PopulateEnds, RunInv, StatesOK
<1>5. CalmOK'
  <2>1. CASE FetchManifest
    <3>1. UNCHANGED <<opt, fetch>> /\ pc = "manifest" /\ pc' \in {"find", "module"}
      BY <2>1 DEF FetchManifest
    <3>2. Calm' /\ Downloads /\ pc' = "find" => have'["manifest"] = opt.build
      BY <2>1 DEF FetchManifest, SameRun, Downloads, RunInv, TypeOK, Artifact, Optional
    <3>3. Calm' => Calm
      BY DEF SameRun, Calm
    <3> QED BY <3>1, <3>2, <3>3 DEF RunInv, CalmOK, Downloads, CanDownload
  <2>2. CASE FindManifest
    BY <2>2, OptionFacts DEF FindManifest, RunInv, CalmOK, Calm, Downloads, CanDownload
  <2>3. CASE PopulateBegins
    BY <2>3 DEF PopulateBegins, RunInv, CalmOK, Calm, Downloads, CanDownload
  <2>4. CASE PopulateEnds
    BY <2>4 DEF PopulateEnds, RunInv, CalmOK, Calm, Downloads, CanDownload
  <2> QED BY <2>1, <2>2, <2>3, <2>4
<1>6. PoolJoined'
  BY LaterStays DEF FetchManifest, FindManifest, PopulateBegins, PopulateEnds, disk
<1>7. MandatoryOfBuild'
  BY DEF FetchManifest, FindManifest, PopulateBegins, PopulateEnds, MandatoryOfBuild
<1>8. ModuleMatchesSync'
  BY DEF FetchManifest, FindManifest, PopulateBegins, PopulateEnds, ModuleMatchesSync
<1>9. Recovers'
  BY OptionFacts DEF FetchManifest, FindManifest, PopulateBegins, PopulateEnds, RunInv, CalmOK,
                     Calm, Recovers, Downloads, CanDownload
<1> QED BY <1>1, <1>2, <1>3, <1>4, <1>5, <1>6, <1>7, <1>8, <1>9 DEF RunInv

\* Including kleaf.xml, repo sync and the section of MODULE.bazel.
LEMMA ProjectsPreserves ==
  ASSUME RunInv, MainXmlOK, Counters', before' <= faults' + kills',
         SameRun,
         IncludeBegins \/ IncludeEnds \/ Sync \/ GenerateModule
  PROVE  RunInv'
<1>1. TypeOK'
  <2>1. CASE IncludeBegins \/ IncludeEnds
    <3>1. pc' \in Active \cup {"idle", "ok", "failed"}
      BY <2>1 DEF IncludeBegins, IncludeEnds, Active
    <3>2. mainXml' \in MainXml
      BY <2>1 DEF IncludeBegins, IncludeEnds, MainXml
    <3> QED BY <2>1, <3>1, <3>2 DEF IncludeBegins, IncludeEnds, RunInv, TypeOK
  <2>2. CASE Sync
    <3>1. pc' \in Active \cup {"idle", "ok", "failed"}
      BY <2>2 DEF Sync, RunInv, TypeOK, Active, disk
    <3>2. synced' \in Build \cup {NoBuild}
      BY <2>2 DEF Sync, RunInv, TypeOK
    <3> QED BY <2>2, <3>1 DEF Sync, RunInv, TypeOK, Counters
  <2>3. CASE GenerateModule
    <3>1. pc' \in Active \cup {"idle", "ok", "failed"}
      BY <2>3 DEF GenerateModule, RunInv, TypeOK, Active, disk
    <3>2. module' \in Build \cup {Absent, NoBuild, "unset"}
      BY <2>3 DEF GenerateModule, RunInv, TypeOK
    <3> QED BY <2>3 DEF GenerateModule, RunInv, TypeOK
  <2> QED BY <2>1, <2>2, <2>3
<1>2. FetchOK'
  BY LaterStays DEF IncludeBegins, IncludeEnds, Sync, GenerateModule, disk
<1>3. OwnOK'
  BY DEF IncludeBegins, IncludeEnds, Sync, GenerateModule, RunInv, OwnOK, Downloads, CanDownload, AfterCopy,
         AfterExtract, AfterPool, AfterFetch
<1>4. StatesOK'
  BY DEF IncludeBegins, IncludeEnds, Sync, GenerateModule, RunInv, StatesOK
<1>5. CalmOK'
  BY DEF IncludeBegins, IncludeEnds, Sync, GenerateModule, SameRun, RunInv, CalmOK, Calm, Downloads, CanDownload
<1>6. PoolJoined'
  BY LaterStays DEF IncludeBegins, IncludeEnds, Sync, GenerateModule, disk
<1>7. MandatoryOfBuild'
  BY DEF IncludeBegins, IncludeEnds, Sync, GenerateModule, RunInv, OwnOK, MandatoryOfBuild, Downloads, CanDownload,
         AfterCopy, AfterExtract, AfterPool, AfterFetch, Mandatory
<1>8. ModuleMatchesSync'
  BY DEF IncludeBegins, IncludeEnds, Sync, GenerateModule, RunInv, StatesOK, ModuleMatchesSync
<1>9. Recovers'
  <2>1. CASE IncludeBegins
    <3>1. opt.kleaf /\ ~opt.local /\ (mainXml = Part => kills > 0)
      BY <2>1 DEF IncludeBegins, RunInv, OwnOK, MainXmlOK
    <3> QED BY <2>1, <3>1 DEF IncludeBegins, Recovers
  <2>2. CASE IncludeEnds
    BY <2>2 DEF IncludeEnds, Recovers
  <2>3. CASE Sync
    BY <2>3, OptionFacts DEF Sync, SameRun, RunInv, CalmOK, Calm, Recovers, Downloads, CanDownload
  <2>4. CASE GenerateModule
    BY <2>4 DEF GenerateModule, Recovers
  <2> QED BY <2>1, <2>2, <2>3, <2>4
<1> QED BY <1>1, <1>2, <1>3, <1>4, <1>5, <1>6, <1>7, <1>8, <1>9 DEF RunInv

\* A kill leaves the disk as it is: nothing was promised of an unfinished run.
LEMMA KillPreserves ==
  ASSUME RunInv, Counters', before' <= faults' + kills',
         SameRun,
         Kill
  PROVE  RunInv'
<1>1. TypeOK'
  <2>1. CASE Kill
    <3>1. pc' \in Active \cup {"idle", "ok", "failed"}
      BY <2>1 DEF Kill, RunInv, TypeOK, Active, disk
    <3>2. fetch' \in [Artifact -> {"no", "queued", "open", "done", "failed"}]
      BY DEF Kill
    <3> QED BY DEF Kill, RunInv, TypeOK, Counters, disk
  <2> QED BY <2>1
<1>2. FetchOK'
  BY DEF Kill, FetchOK
<1>3. OwnOK'
  BY DEF Kill, OwnOK, AfterCopy, AfterExtract, AfterPool, AfterFetch
<1>4. StatesOK'
  BY OptionFacts DEF Kill, RunInv, TypeOK, StatesOK, disk
<1>5. CalmOK'
  BY DEF Kill, CalmOK
<1>6. PoolJoined'
  BY DEF Kill, PoolJoined, Busy
<1>7. MandatoryOfBuild'
  BY DEF Kill, MandatoryOfBuild
<1>8. ModuleMatchesSync'
  BY DEF Kill, ModuleMatchesSync
<1>9. Recovers'
  <2>1. kills' # kills
    BY DEF Kill, RunInv, TypeOK
  <2> QED BY <2>1 DEF SameRun, Calm, Recovers
<1> QED BY <1>1, <1>2, <1>3, <1>4, <1>5, <1>6, <1>7, <1>8, <1>9 DEF RunInv

\* The threads of the pool, each with one file.
LEMMA ThreadPreserves ==
  ASSUME RunInv, Counters', before' <= faults' + kills',
         SameRun,
         NEW a \in Artifact, FetchOpen(a) \/ FetchRefused(a) \/ FetchDone(a) \/ FetchBroken(a)
  PROVE  RunInv'
<1>1. TypeOK'
  <2>1. CASE FetchOpen(a)
    <3>1. pc' \in Active \cup {"idle", "ok", "failed"}
      BY <2>1 DEF FetchOpen, RunInv, TypeOK, Active, disk
    <3>2. /\ fetch' \in [Artifact -> {"no", "queued", "open", "done", "failed"}]
          /\ have' \in [Artifact -> Copies]
      BY <2>1 DEF FetchOpen, RunInv, TypeOK, Copies
    <3> QED BY <2>1, <3>2 DEF FetchOpen, RunInv, TypeOK
  <2>2. CASE FetchRefused(a)
    <3>1. pc' \in Active \cup {"idle", "ok", "failed"}
      BY <2>2 DEF FetchRefused, RunInv, TypeOK, Active, disk
    <3>2. fetch' \in [Artifact -> {"no", "queued", "open", "done", "failed"}]
      BY <2>2 DEF FetchRefused, RunInv, TypeOK
    <3> QED BY <2>2 DEF FetchRefused, RunInv, TypeOK, Counters, disk
  <2>3. CASE FetchDone(a)
    <3>1. pc' \in Active \cup {"idle", "ok", "failed"}
      BY <2>3 DEF FetchDone, RunInv, TypeOK, Active, disk
    <3>2. /\ fetch' \in [Artifact -> {"no", "queued", "open", "done", "failed"}]
          /\ have' \in [Artifact -> Copies]
      BY <2>3, OptionFacts DEF FetchDone, RunInv, TypeOK, FetchOK, Copies
    <3> QED BY <2>3, <3>2 DEF FetchDone, RunInv, TypeOK
  <2>4. CASE FetchBroken(a)
    <3>1. pc' \in Active \cup {"idle", "ok", "failed"}
      BY <2>4 DEF FetchBroken, RunInv, TypeOK, Active, disk
    <3>2. fetch' \in [Artifact -> {"no", "queued", "open", "done", "failed"}]
      BY <2>4 DEF FetchBroken, RunInv, TypeOK
    <3> QED BY <2>4 DEF FetchBroken, RunInv, TypeOK, Counters, disk
  <2> QED BY <2>1, <2>2, <2>3, <2>4
<1>2. FetchOK'
  <2>1. CASE FetchOpen(a)
    BY <2>1 DEF FetchOpen, RunInv, FetchOK, Downloads, CanDownload
  <2>2. CASE FetchRefused(a)
    BY <2>2 DEF FetchRefused, RunInv, FetchOK, Downloads, CanDownload, disk
  <2>3. CASE FetchDone(a)
    BY <2>3 DEF FetchDone, RunInv, TypeOK, FetchOK, Downloads, CanDownload
  <2>4. CASE FetchBroken(a)
    BY <2>4 DEF FetchBroken, RunInv, FetchOK, Downloads, CanDownload, disk
  <2> QED BY <2>1, <2>2, <2>3, <2>4
<1>3. OwnOK'
  <2>1. CASE FetchOpen(a)
    BY <2>1 DEF FetchOpen, RunInv, OwnOK, Downloads, CanDownload, AfterCopy, AfterExtract,
                AfterPool
  <2>2. CASE FetchRefused(a)
    BY <2>2 DEF FetchRefused, RunInv, FetchOK, OwnOK, disk
  <2>3. CASE FetchDone(a)
    BY <2>3 DEF FetchDone, RunInv, FetchOK, OwnOK
  <2>4. CASE FetchBroken(a)
    BY <2>4 DEF FetchBroken, RunInv, FetchOK, OwnOK, disk
  <2> QED BY <2>1, <2>2, <2>3, <2>4
<1>4. StatesOK'
  BY DEF FetchOpen, FetchRefused, FetchDone, FetchBroken, RunInv, StatesOK, disk
<1>5. CalmOK'
  <2>1. CASE FetchOpen(a)
    BY <2>1 DEF FetchOpen, RunInv, CalmOK, Calm
  <2>2. CASE FetchRefused(a)
    BY <2>2 DEF FetchRefused, SameRun, CalmOK
  <2>3. CASE FetchDone(a)
    BY <2>3 DEF FetchDone, RunInv, CalmOK, Calm, Downloads, CanDownload
  <2>4. CASE FetchBroken(a)
    BY <2>4 DEF FetchBroken, SameRun, CalmOK
  <2> QED BY <2>1, <2>2, <2>3, <2>4
<1>6. PoolJoined'
  <2>1. CASE FetchOpen(a)
    BY <2>1 DEF FetchOpen, PoolJoined
  <2>2. CASE FetchRefused(a)
    BY <2>2 DEF FetchRefused, PoolJoined
  <2>3. CASE FetchDone(a)
    BY <2>3 DEF FetchDone, RunInv, PoolJoined, Busy
  <2>4. CASE FetchBroken(a)
    BY <2>4 DEF FetchBroken, RunInv, PoolJoined, Busy
  <2> QED BY <2>1, <2>2, <2>3, <2>4
<1>7. MandatoryOfBuild'
  <2>1. CASE FetchOpen(a)
    BY <2>1 DEF FetchOpen, MandatoryOfBuild
  <2>2. CASE FetchRefused(a)
    BY <2>2 DEF FetchRefused, MandatoryOfBuild
  <2>3. CASE FetchDone(a)
    BY <2>3 DEF FetchDone, RunInv, PoolJoined, MandatoryOfBuild, Busy
  <2>4. CASE FetchBroken(a)
    BY <2>4 DEF FetchBroken, RunInv, PoolJoined, MandatoryOfBuild, Busy
  <2> QED BY <2>1, <2>2, <2>3, <2>4
<1>8. ModuleMatchesSync'
  BY DEF FetchOpen, FetchRefused, FetchDone, FetchBroken, RunInv, ModuleMatchesSync, disk
<1>9. Recovers'
  BY DEF FetchOpen, FetchRefused, FetchDone, FetchBroken, SameRun, RunInv, FetchOK, Calm, Recovers
<1> QED BY <1>1, <1>2, <1>3, <1>4, <1>5, <1>6, <1>7, <1>8, <1>9 DEF RunInv

\* A new run, with other arguments, on the disk as it is.
LEMMA StartPreserves ==
  ASSUME RunInv, Counters', before' <= faults' + kills', NEW o \in Options, Start(o)
  PROVE  RunInv'
<1>1. TypeOK'
  <2>1. /\ opt' \in Options /\ pc' \in Active /\ listed' \subseteq Artifact
        /\ fetch' \in [Artifact -> {"no", "queued", "open", "done", "failed"}]
    BY DEF Start, Active
  <2> QED BY <2>1 DEF Start, RunInv, TypeOK, Counters, disk, Copies
<1>2. FetchOK' /\ PoolJoined'
  BY DEF Start, FetchOK, PoolJoined, Busy
<1>3. OwnOK'
  BY DEF Start, OwnOK, AfterCopy, AfterExtract, AfterPool, AfterFetch
<1>4. StatesOK' /\ CalmOK'
  BY DEF Start, StatesOK, CalmOK
<1>5. MandatoryOfBuild' /\ ModuleMatchesSync' /\ Recovers'
  BY DEF Start, MandatoryOfBuild, ModuleMatchesSync, Recovers
<1> QED BY <1>1, <1>2, <1>3, <1>4, <1>5 DEF RunInv

-----------------------------------------------------------------------------
(* The invariant *)

\* The invariant holds initially.
LEMMA InitInv == Init => IInv
<1> SUFFICES ASSUME Init PROVE IInv
  OBVIOUS
<1>1. TypeOK
  <2>1. /\ have \in [Artifact -> Copies] /\ tree \in [Mandatory -> Copies]
        /\ fetch \in [Artifact -> {"no", "queued", "open", "done", "failed"}]
    BY DEF Init, Copies
  <2>2. /\ before \in Nat /\ runs \in 0 .. MaxRun
        /\ faults \in 0 .. MaxFault /\ kills \in 0 .. MaxKill
    BY InitDdkAssumption DEF Init
  <2> QED BY <2>1, <2>2 DEF Init, TypeOK, Copies, Active, MainXml
<1>2. FetchOK /\ PoolJoined
  BY DEF Init, FetchOK, PoolJoined, Busy
<1>3. OwnOK
  BY DEF Init, OwnOK, AfterCopy, AfterExtract, AfterPool, AfterFetch
<1>4. StatesOK /\ CalmOK
  BY DEF Init, StatesOK, CalmOK
<1>5. MandatoryOfBuild /\ ModuleMatchesSync /\ Recovers /\ MainXmlOK
  BY DEF Init, MandatoryOfBuild, ModuleMatchesSync, Recovers, MainXmlOK, Absent, Part
<1> QED BY <1>1, <1>2, <1>3, <1>4, <1>5 DEF IInv, RunInv

\* Every step keeps the invariant.
LEMMA NextInv == IInv /\ [Next]_vars => IInv'
<1> SUFFICES ASSUME IInv, [Next]_vars PROVE IInv'
  OBVIOUS
<1>1. /\ RunInv /\ MainXmlOK /\ MainXmlOK'
      /\ Counters' /\ before' <= faults' + kills'
      /\ SameRun \/ (\E o \in Options : Start(o))
  BY Counting, MainXmlNext DEF IInv, RunInv
<1>2. ASSUME NEW o \in Options, Start(o) PROVE RunInv'
  BY <1>1, <1>2, StartPreserves
<1>3. ASSUME SameRun, Main \/ Kill PROVE RunInv'
  BY <1>1, <1>3, ConfigsPreserves, PoolPreserves, ExtractPreserves, FilesPreserves,
     ManifestPreserves, ProjectsPreserves, KillPreserves DEF Main
<1>4. ASSUME SameRun, NEW a \in Artifact, Thread(a) PROVE RunInv'
  BY <1>1, <1>4, ThreadPreserves DEF Thread
<1>5. CASE UNCHANGED vars
  <2>1. TypeOK'
    BY <1>1, <1>5 DEF vars, disk, RunInv, TypeOK
  <2>2. FetchOK' /\ OwnOK'
    BY <1>1, <1>5 DEF vars, disk, RunInv, FetchOK, OwnOK, Downloads, CanDownload
  <2>3. StatesOK' /\ CalmOK' /\ PoolJoined'
    BY <1>1, <1>5 DEF vars, disk, RunInv, StatesOK, CalmOK, Calm, PoolJoined, Busy, Downloads,
                      CanDownload
  <2>4. MandatoryOfBuild' /\ ModuleMatchesSync' /\ Recovers'
    BY <1>1, <1>5 DEF vars, disk, RunInv, MandatoryOfBuild, ModuleMatchesSync, Recovers,
                      Downloads, CanDownload
  <2> QED BY <1>1, <2>1, <2>2, <2>3, <2>4 DEF IInv, RunInv
<1> QED BY <1>1, <1>2, <1>3, <1>4, <1>5 DEF Next, IInv

\* The inductive invariant holds of every sequence of runs.
THEOREM Invariant == Spec => []IInv
<1> QED BY InitInv, NextInv, PTL DEF Spec

-----------------------------------------------------------------------------
(* The safety properties *)

\* No run leaves the set of typed states.
THEOREM TypeCorrect == Spec => []TypeOK
<1>1. IInv => TypeOK
  BY DEF IInv, RunInv
<1> QED BY <1>1, Invariant, PTL

\* A failing download never leaves others behind: past the pool no thread writes.
THEOREM PoolIsJoined == Spec => []PoolJoined
<1>1. IInv => PoolJoined
  BY DEF IInv, RunInv
<1> QED BY <1>1, Invariant, PTL

\* A run that ends well has every mandatory file, and what is extracted from it, of its
\* own build, whatever earlier runs failed at or were killed in.
THEOREM MandatoryIsOwn == Spec => []MandatoryOfBuild
<1>1. IInv => MandatoryOfBuild
  BY DEF IInv, RunInv
<1> QED BY <1>1, Invariant, PTL

\* MODULE.bazel names the projects that repo sync has checked out.
THEOREM ModuleIsSynced == Spec => []ModuleMatchesSync
<1>1. IInv => ModuleMatchesSync
  BY DEF IInv, RunInv
<1> QED BY <1>1, Invariant, PTL

\* A default.xml that is half written, and that no later run repairs, is the mark of a
\* kill while _modify_main_repo_manifest rewrote it.
THEOREM OnlyAKillCutsTheManifest == Spec => []MainXmlOK
<1>1. IInv => MainXmlOK
  BY DEF IInv
<1> QED BY <1>1, Invariant, PTL

\* A run that downloads and meets no failure of its own does not fail for what an
\* earlier run left half written, unless that is default.xml, cut short by a kill, or
\* there never was a default.xml.
THEOREM RerunRecovers == Spec => []Recovers
<1>1. IInv => Recovers
  BY DEF IInv, RunInv
<1> QED BY <1>1, Invariant, PTL
=============================================================================
