------------------------- MODULE KernelConfigProofs -------------------------
(*****************************************************************************)
(* Theorems about KernelConfig, for files, fragments, Kconfig trees and       *)
(* modules of any number and length: that a configuration that succeeds is    *)
(* the one that was asked for, that checks fail for a reason only, that what  *)
(* is chosen in a menu is kept, and that modules agree with those they        *)
(* depend on.                                                                 *)
(*****************************************************************************)
EXTENDS KernelConfigFacts

-----------------------------------------------------------------------------
(* The invariant of the build of X_config *)

Changed == {k \in Option : menuConfig[2][k] \notin {"absent", menuConfig[1][k]}}
Asked == MergeConfig(cfgIn.base, cfgIn.pre)
InOrder(r) ==
    \A m \in DOMAIN r.modules : /\ ToSet(r.modules[m].deps) \subseteq 1 .. (m - 1)
                                /\ Len(r.modules[m].defconfig) <= 1

CfgTypes ==
    /\ cfgIn \in ConfigRequests /\ InOrder(cfgIn) /\ cfgRun \in {"menu", "build"}
    /\ outDefconfig \in Seq(Lines) /\ dotConfig \in Seq(Lines) /\ midConfig \in Seq(Lines)
    /\ ddkConfig \in [DOMAIN cfgIn.modules ->
                         [at : {"none", "done", "mismatch"}, config : Seq(Lines)]]

\* A menu ends before the build of its rule begins, and modules come after it.
Phases ==
    /\ cfgAt \in {"menu", "save", "saved"} => cfgRun = "menu"
    /\ cfgAt \in {"check", "post", "merge", "olddefconfig", "final", "done"} => cfgRun = "build"
    /\ cfgAt \notin {"setup", "refused"} => ~Misused
    /\ \A m \in DOMAIN ddkConfig : ddkConfig[m].at # "none" => cfgAt = "done"

\* What `make defconfig` works on, and what it writes.
DefconfigIs ==
    /\ cfgAt = "pre" => outDefconfig = cfgIn.base
    /\ cfgAt = "make" => outDefconfig = Asked
    /\ cfgAt \in {"check", "post"} =>
          /\ dotConfig = midConfig
          /\ midConfig = DotConfig(Configured(cfgIn.kconfig, Asked))

\* The checks that a build has passed.
Checks ==
    /\ cfgAt \in {"post", "merge", "olddefconfig", "final", "done"} /\ IsFile =>
          \A k \in KeysIn(Asked) : Holds(midConfig, LastOf(Asked, k))
    /\ cfgAt = "done" => CheckPasses(dotConfig, <<>>, <<>>, cfgIn.post)

\* What a menu leaves in the source tree.
MenuIs ==
    /\ cfgAt = "save" => menuConfig # <<>>
    /\ menuConfig # <<>> =>
          /\ menuConfig[1] \in [Option -> Values]
          /\ IsConfigured(menuConfig[2], cfgIn.kconfig, DotConfig(menuConfig[2]))
    /\ menuConfig # <<>> /\ (cfgAt = "saved" \/ cfgRun = "build") =>
          \/ cfgIn.pre = <<>> /\ cfgIn.base = SavedDefconfig(cfgIn.kconfig, menuConfig[2])
          \/ /\ Len(cfgIn.pre) = 1
             /\ \A k \in Changed :
                   /\ k \in KeysIn(cfgIn.pre[1])
                   /\ LastOf(cfgIn.pre[1], k) = OptionLine(k, menuConfig[2][k], FALSE)

\* An option of a post fragment has the value that one of them gives it.
PostSays(k, v) == \E g \in ToSet(cfgIn.post) : k \in KeysIn(g) /\ LastOf(g, k).val = v
PostIs ==
    /\ cfgAt = "olddefconfig" =>
          \A f \in ToSet(cfgIn.post) : \A k \in KeysIn(f) :
              k \in KeysIn(dotConfig) /\ PostSays(k, LastOf(dotConfig, k).val)
    /\ cfgAt = "final" /\ DropsNothing(cfgIn.kconfig) =>
          \A f \in ToSet(cfgIn.post) : \A k \in KeysIn(f) : PostSays(k, ValueIn(dotConfig, k))

\* A check fails for a reason.
MismatchIs ==
    DropsNothing(cfgIn.kconfig) /\ cfgAt = "mismatch" =>
        \/ cfgIn.minimized
        \/ Unreadable(<<cfgIn.base>> \o cfgIn.pre \o cfgIn.post)
        \/ \E f, g \in ToSet(cfgIn.post) : Contradict(f, g)

CfgInv ==
    /\ CfgTypes /\ Phases /\ DefconfigIs /\ Checks /\ MenuIs /\ PostIs /\ MismatchIs

\* The types of what the rule was given.
LEMMA CfgInTypes ==
    ASSUME CfgTypes
    PROVE  /\ cfgIn.kconfig \in Kconfigs /\ cfgIn.base \in Seq(Lines)
           /\ cfgIn.pre \in Fragments /\ cfgIn.post \in Fragments
           /\ cfgIn.minimized \in BOOLEAN
           /\ cfgIn.flags \in Seq(OptionLines)
           /\ Asked \in Seq(Lines)
<1>1. cfgIn \in ConfigRequests
  BY DEF CfgTypes
<1>2. /\ cfgIn.kconfig \in Kconfigs /\ cfgIn.base \in Seq(Lines)
      /\ cfgIn.pre \in Fragments /\ cfgIn.post \in Fragments
      /\ cfgIn.minimized \in BOOLEAN /\ cfgIn.flags \in Seq(OptionLines)
  BY <1>1 DEF ConfigRequests, Kconfigs, Fragments
<1> QED BY <1>2, MergeFacts DEF Asked

\* The initial states have the invariant.
LEMMA CfgInitInv == CfgInit => CfgInv
<1> SUFFICES ASSUME CfgInit PROVE CfgInv
  OBVIOUS
<1>1. PICK p \in Purpose : cfgIn \in ConfigRequest(p)
  BY DEF CfgInit
<1>2. cfgIn \in ConfigRequests /\ InOrder(cfgIn)
  BY <1>1, KernelConfigAssumption DEF InOrder
<1>3. cfgIn.run \in {"menu", "build"}
  BY <1>2 DEF ConfigRequests
<1>4. CfgTypes
  BY <1>2, <1>3, EmptyFacts DEF CfgInit, CfgTypes
<1> QED BY <1>4 DEF CfgInit, CfgInv, Phases, DefconfigIs, Checks, MenuIs, PostIs, MismatchIs

-----------------------------------------------------------------------------
(* The steps *)

\* Everything that make writes is a .config.
LEMMA MadeFacts ==
    ASSUME NEW kc \in Kconfigs, NEW lines \in Seq(Lines)
    PROVE  /\ Configured(kc, lines) \in [Option -> Values]
           /\ DotConfig(Configured(kc, lines)) \in Seq(Lines)
BY ConfiguredFacts, DotConfigFacts DEF IsConfigured

\* Where Kconfig drops nothing, the last line of an option is its value.
LEMMA NothingDropped ==
    ASSUME NEW kc \in Kconfigs, NEW lines \in Seq(Lines), DropsNothing(kc), NEW k \in KeysIn(lines)
    PROVE  ValueIn(DotConfig(Configured(kc, lines)), k) = LastOf(lines, k).val
<1> DEFINE v == Configured(kc, lines)
<1>1. IsConfigured(v, kc, lines) /\ v \in [Option -> Values] /\ k \in Option
  BY ConfiguredFacts, KeysTyped DEF IsConfigured
<1> HIDE DEF v
<1>2. Visible(kc, v, k)
  BY <1>1 DEF DropsNothing, Visible
<1>3. v[k] = LastOf(lines, k).val /\ v[k] # "absent"
  BY <1>1, <1>2, VisibleIsSet
<1> QED BY <1>1, <1>3, DotConfigFacts DEF v

\* A check that passes has found in .config what was asked for.
LEMMA IntermediateHolds ==
    ASSUME CfgInv, cfgAt = "check", IntermediateOK, IsFile
    PROVE  \A k \in KeysIn(Asked) : Holds(midConfig, LastOf(Asked, k))
<1>1. /\ cfgIn.kconfig \in Kconfigs /\ cfgIn.base \in Seq(Lines) /\ cfgIn.pre \in Fragments
      /\ Asked \in Seq(Lines)
  BY CfgInTypes DEF CfgInv
<1> DEFINE v == Configured(cfgIn.kconfig, Asked)
<1>2. dotConfig = midConfig /\ midConfig = DotConfig(v)
  BY DEF CfgInv, DefconfigIs
<1>3. CASE cfgIn.minimized
  <2>1. cfgIn.pre = <<>>
    BY <1>3 DEF CfgInv, Phases, Misused
  <2>2. Asked = cfgIn.base
    BY <1>1, <2>1, MergeFew DEF Asked
  <2>3. IsConfigured(v, cfgIn.kconfig, Asked)
    BY <1>1, ConfiguredFacts
  <2>4. Fetched = v
    BY <1>1, <1>2, <2>3, ConfiguredAgain DEF Fetched
  <2>5. SavedDefconfig(cfgIn.kconfig, v) = Asked
    BY <1>3, <2>2, <2>4 DEF IntermediateOK
  <2>6. v \in [Option -> Values]
    BY <2>3 DEF IsConfigured
  <2> HIDE DEF v
  <2>7. ASSUME NEW k \in KeysIn(Asked) PROVE Holds(midConfig, LastOf(Asked, k))
    <3> DEFINE d == SavedDefconfig(cfgIn.kconfig, v)
    <3>3. \A j \in KeysIn(d) : v[j] # "absent" /\ LastOf(d, j) = OptionLine(j, v[j], FALSE)
      BY <1>1, <2>3, SavedIsRestored
    <3>1. v[k] # "absent" /\ LastOf(Asked, k) = OptionLine(k, v[k], FALSE) /\ k \in Option
      BY <1>1, <2>5, <3>3, KeysTyped
    <3>2. ValueIn(midConfig, k) = v[k]
      BY <1>2, <2>6, <3>1, DotConfigFacts
    <3> QED BY <3>1, <3>2 DEF Holds, OptionLine
  <2> QED BY <2>7
<1>4. CASE ~cfgIn.minimized
  <2>1. CheckPasses(midConfig, cfgIn.base, cfgIn.pre, <<>>)
    BY <1>2, <1>4 DEF IntermediateOK
  <2> QED BY <1>1, <2>1, CheckBefore DEF Asked
<1> QED BY <1>3, <1>4

\* A check that fails where Kconfig drops nothing has met an unreadable line.
LEMMA IntermediateFails ==
    ASSUME CfgInv, cfgAt = "check", ~IntermediateOK, DropsNothing(cfgIn.kconfig)
    PROVE  cfgIn.minimized \/ Unreadable(<<cfgIn.base>> \o cfgIn.pre \o cfgIn.post)
<1> SUFFICES ASSUME ~cfgIn.minimized
             PROVE  Unreadable(<<cfgIn.base>> \o cfgIn.pre \o cfgIn.post)
  OBVIOUS
<1>1. /\ cfgIn.kconfig \in Kconfigs /\ cfgIn.base \in Seq(Lines) /\ cfgIn.pre \in Fragments
      /\ cfgIn.post \in Fragments /\ Asked \in Seq(Lines)
  BY CfgInTypes DEF CfgInv
<1>2. dotConfig = DotConfig(Configured(cfgIn.kconfig, Asked))
  BY DEF CfgInv, DefconfigIs
<1>3. ~CheckPasses(dotConfig, cfgIn.base, cfgIn.pre, <<>>)
  BY DEF IntermediateOK
<1>4. ASSUME NEW k \in KeysIn(Asked) PROVE Holds(dotConfig, LastOf(Asked, k))
  <2>1. LastOf(Asked, k).key = k
    BY <1>1, LastEnds
  <2>2. ValueIn(dotConfig, k) = LastOf(Asked, k).val
    BY <1>1, <1>2, NothingDropped
  <2> QED BY <2>1, <2>2 DEF Holds
<1>5. BadLine \in ToSet(cfgIn.base) \/ \E f \in ToSet(cfgIn.pre) : BadLine \in ToSet(f)
  BY <1>1, <1>3, <1>4, CheckBefore DEF Asked
<1> QED BY <1>1, <1>5, UnreadableIs

\* The defconfig is copied, or the rule is refused.
LEMMA SetUpStep == CfgInv /\ SetUpDefconfig => CfgInv'
<1> SUFFICES ASSUME CfgInv, SetUpDefconfig PROVE CfgInv'
  OBVIOUS
<1>1. cfgIn.base \in Seq(Lines)
  BY CfgInTypes DEF CfgInv
<1>2. CfgTypes'
  BY <1>1 DEF CfgInv, CfgTypes, SetUpDefconfig, InOrder
<1>3. Phases'
  BY DEF CfgInv, Phases, SetUpDefconfig, Misused, IsFile
<1>4. DefconfigIs' /\ Checks' /\ PostIs' /\ MismatchIs'
  BY DEF SetUpDefconfig, DefconfigIs, Checks, PostIs, MismatchIs
<1>5. MenuIs'
  BY DEF CfgInv, MenuIs, SetUpDefconfig, Changed
<1> QED BY <1>2, <1>3, <1>4, <1>5 DEF CfgInv

\* Pre fragments are merged into it.
LEMMA PreStep == CfgInv /\ PreDefconfig => CfgInv'
<1> SUFFICES ASSUME CfgInv, PreDefconfig PROVE CfgInv'
  OBVIOUS
<1>1. cfgIn.base \in Seq(Lines) /\ Asked \in Seq(Lines) /\ cfgIn' = cfgIn
  BY CfgInTypes DEF CfgInv, PreDefconfig
<1>2. cfgAt' = "make" => outDefconfig' = Asked
  BY DEF CfgInv, DefconfigIs, PreDefconfig, Asked
<1>3. CfgTypes'
  BY <1>1, <1>2 DEF CfgInv, CfgTypes, PreDefconfig, InOrder
<1>4. Phases'
  BY DEF CfgInv, Phases, PreDefconfig, Misused, IsFile
<1>5. DefconfigIs'
  BY <1>1, <1>2 DEF PreDefconfig, DefconfigIs, Asked
<1>6. Checks' /\ PostIs' /\ MismatchIs'
  BY DEF PreDefconfig, Checks, PostIs, MismatchIs
<1>7. MenuIs'
  BY DEF CfgInv, MenuIs, PreDefconfig, Changed
<1> QED BY <1>3, <1>4, <1>5, <1>6, <1>7 DEF CfgInv

\* `make defconfig` writes .config.
LEMMA MakeStep == CfgInv /\ MakeDefconfig => CfgInv'
<1> SUFFICES ASSUME CfgInv, MakeDefconfig PROVE CfgInv'
  OBVIOUS
<1>1. cfgIn.kconfig \in Kconfigs /\ Asked \in Seq(Lines) /\ cfgIn' = cfgIn /\ outDefconfig = Asked
  BY CfgInTypes DEF CfgInv, MakeDefconfig, DefconfigIs
<1>2. \/ cfgAt' = "refused" /\ UNCHANGED <<dotConfig, midConfig>>
      \/ /\ cfgAt' = (IF cfgRun = "menu" THEN "menu" ELSE "check")
         /\ dotConfig' = DotConfig(Configured(cfgIn.kconfig, Asked)) /\ midConfig' = dotConfig'
  BY <1>1 DEF MakeDefconfig
<1>3. DotConfig(Configured(cfgIn.kconfig, Asked)) \in Seq(Lines)
  BY <1>1, MadeFacts
<1>4. CfgTypes'
  BY <1>1, <1>2, <1>3 DEF CfgInv, CfgTypes, MakeDefconfig, InOrder
<1>5. Phases'
  BY <1>2 DEF CfgInv, CfgTypes, Phases, MakeDefconfig, Misused, IsFile
<1>6. DefconfigIs'
  BY <1>1, <1>2 DEF DefconfigIs, Asked
<1>7. Checks' /\ PostIs' /\ MismatchIs'
  BY <1>2 DEF Checks, PostIs, MismatchIs
<1>8. MenuIs'
  BY <1>2 DEF CfgInv, MenuIs, MakeDefconfig, Changed
<1> QED BY <1>4, <1>5, <1>6, <1>7, <1>8 DEF CfgInv

\* .config is checked against defconfig and pre fragments, or the defconfig against it.
LEMMA CheckStep == CfgInv /\ CheckIntermediate => CfgInv'
<1> SUFFICES ASSUME CfgInv, CheckIntermediate PROVE CfgInv'
  OBVIOUS
<1>1. UNCHANGED <<cfgIn, cfgRun, outDefconfig, dotConfig, midConfig, menuConfig, ddkConfig>>
      /\ cfgAt = "check"
      /\ \/ cfgAt' = "post" /\ IntermediateOK
         \/ cfgAt' = "mismatch" /\ ~IntermediateOK
  BY DEF CheckIntermediate
<1>2. CfgTypes'
  BY <1>1 DEF CfgInv, CfgTypes, InOrder
<1>3. Phases'
  BY <1>1 DEF CfgInv, Phases, Misused, IsFile
<1>4. DefconfigIs'
  BY <1>1 DEF CfgInv, DefconfigIs, Asked
<1>5. Checks'
  BY <1>1, IntermediateHolds DEF Checks, Asked, IsFile
<1>6. PostIs'
  BY <1>1 DEF PostIs
<1>7. MismatchIs'
  BY <1>1, IntermediateFails DEF MismatchIs
<1>8. MenuIs'
  BY <1>1 DEF CfgInv, MenuIs, Changed
<1> QED BY <1>2, <1>3, <1>4, <1>5, <1>6, <1>7, <1>8 DEF CfgInv

\* scripts/config sets the options of the flags.
LEMMA ScriptsStep == CfgInv /\ ScriptsConfig => CfgInv'
<1> SUFFICES ASSUME CfgInv, ScriptsConfig PROVE CfgInv'
  OBVIOUS
<1>1. UNCHANGED <<cfgIn, cfgRun, outDefconfig, midConfig, menuConfig, ddkConfig>>
      /\ cfgAt = "post" /\ cfgAt' = "merge"
  BY DEF ScriptsConfig
<1>2. dotConfig' \in Seq(Lines)
  <2> DEFINE fs == [i \in DOMAIN cfgIn.flags |-> <<cfgIn.flags[i]>>]
  <2>1. cfgIn.flags \in Seq(OptionLines) /\ dotConfig \in Seq(Lines)
    BY CfgInTypes DEF CfgInv, CfgTypes
  <2>2. \A i \in DOMAIN cfgIn.flags : <<cfgIn.flags[i]>> \in Seq(Lines)
    <3>1. \A i \in DOMAIN cfgIn.flags : cfgIn.flags[i] \in Lines
      BY <2>1, LineTypes
    <3> QED BY <3>1
  <2>3. DOMAIN cfgIn.flags = 1 .. Len(cfgIn.flags) /\ Len(cfgIn.flags) \in Nat
    BY <2>1
  <2>4. fs \in Fragments
    <3>1. \A i \in 1 .. Len(cfgIn.flags) : <<cfgIn.flags[i]>> \in Seq(Lines)
      BY <2>2, <2>3
    <3>2. [i \in 1 .. Len(cfgIn.flags) |-> <<cfgIn.flags[i]>>] \in Seq(Seq(Lines))
      BY <2>3, <3>1, IsASeq
    <3> QED BY <2>3, <3>2 DEF Fragments
  <2> HIDE DEF fs
  <2>5. MergeConfig(dotConfig, fs) \in Seq(Lines)
    BY <2>1, <2>4, MergeFacts
  <2> QED BY <2>5 DEF ScriptsConfig, fs
<1>3. CfgTypes'
  BY <1>1, <1>2 DEF CfgInv, CfgTypes, InOrder
<1>4. Phases'
  BY <1>1 DEF CfgInv, Phases, Misused, IsFile
<1>5. DefconfigIs' /\ PostIs' /\ MismatchIs'
  BY <1>1 DEF DefconfigIs, PostIs, MismatchIs
<1>6. Checks'
  BY <1>1 DEF CfgInv, Checks, Asked, IsFile
<1>7. MenuIs'
  BY <1>1 DEF CfgInv, MenuIs, Changed
<1> QED BY <1>3, <1>4, <1>5, <1>6, <1>7 DEF CfgInv

-----------------------------------------------------------------------------
(* The modules a module depends on, and the files it is configured with *)

Numbers == 1 .. Len(cfgIn.modules)

\* The types of the modules; each depends on modules before it.
LEMMA ModuleTypes ==
    ASSUME CfgTypes
    PROVE  /\ Len(cfgIn.modules) \in Nat /\ DOMAIN cfgIn.modules = Numbers
           /\ cfgIn.extra \in Seq(Files)
           /\ \A m \in Numbers :
                 /\ cfgIn.modules[m].kconfig \in SUBSET Option
                 /\ cfgIn.modules[m].defconfig \in Seq(Files)
                 /\ Len(cfgIn.modules[m].defconfig) <= 1
                 /\ cfgIn.modules[m].deps \in Seq(1 .. (m - 1))
                 /\ ToSet(cfgIn.modules[m].deps) \subseteq 1 .. (m - 1)
                 /\ 1 .. (m - 1) \subseteq Numbers
<1>1. cfgIn \in ConfigRequests /\ InOrder(cfgIn)
  BY DEF CfgTypes
<1> DEFINE ms == cfgIn.modules
           M == [deps : Seq(Nat), kconfig : SUBSET Option, defconfig : Seq(Files)]
<1>2. ms \in Seq(M) /\ cfgIn.extra \in Seq(Files)
  BY <1>1 DEF ConfigRequests
<1>3. Len(ms) \in Nat /\ DOMAIN ms = Numbers
  BY <1>2 DEF Numbers
<1>4. ASSUME NEW m \in Numbers
      PROVE  /\ ms[m].kconfig \in SUBSET Option /\ ms[m].defconfig \in Seq(Files)
             /\ Len(ms[m].defconfig) <= 1 /\ ms[m].deps \in Seq(1 .. (m - 1))
             /\ ToSet(ms[m].deps) \subseteq 1 .. (m - 1) /\ 1 .. (m - 1) \subseteq Numbers
  <2>1. ms[m] \in M
    BY <1>2, <1>4, ElementOfSeq DEF Numbers
  <2>2. ToSet(ms[m].deps) \subseteq 1 .. (m - 1) /\ Len(ms[m].defconfig) <= 1
    BY <1>1, <1>3 DEF InOrder
  <2>3. ms[m].deps \in Seq(Nat) /\ ms[m].kconfig \in SUBSET Option /\ ms[m].defconfig \in Seq(Files)
    BY <2>1
  <2>4. ms[m].deps \in Seq(1 .. (m - 1))
    <3> DEFINE s == ms[m].deps
    <3> HIDE DEF s
    <3>1. s \in Seq(Nat) /\ ToSet(s) \subseteq 1 .. (m - 1)
      BY <2>2, <2>3 DEF s
    <3>2. \A i \in 1 .. Len(s) : s[i] \in 1 .. (m - 1)
      BY <3>1 DEF ToSet
    <3>3. s \in [1 .. Len(s) -> 1 .. (m - 1)] /\ Len(s) \in Nat
      BY <3>1, <3>2, LenProperties
    <3>4. s \in Seq(1 .. (m - 1))
      BY <3>3, SeqDef
    <3> QED BY <3>4 DEF s
  <2>5. 1 .. (m - 1) \subseteq Numbers
    BY <1>3, <1>4 DEF Numbers
  <2> QED BY <2>2, <2>3, <2>4, <2>5
<1> QED BY <1>2, <1>3, <1>4

DepsOf(ms, all, m) == {m} \cup UNION {all[d] : d \in ToSet(ms[m].deps)}
DepsRec == INSTANCE SequenceFolds WITH Op <- LAMBDA ms, all, m : DepsOf(ms, all, m)

\* The modules that a module depends on are before it, and have theirs among them.
LEMMA DependenciesFacts ==
    ASSUME CfgTypes
    PROVE  \A m \in Numbers :
              /\ Dependencies[m] \subseteq 1 .. m /\ 1 .. m \subseteq Numbers
              /\ Dependencies[m] = {m} \cup UNION {Dependencies[d] : d \in ToSet(cfgIn.modules[m].deps)}
              /\ \A d \in Dependencies[m] : Dependencies[d] \subseteq Dependencies[m]
<1> DEFINE n == Len(cfgIn.modules)
           ms == cfgIn.modules
           D == DepsRec!RecursiveValue(ms, n)
<1>1. n \in Nat /\ DOMAIN ms = 1 .. n /\ Numbers = 1 .. n
  BY ModuleTypes DEF Numbers
<1>2. \A m \in 1 .. n : ToSet(ms[m].deps) \subseteq 1 .. (m - 1) /\ 1 .. (m - 1) \subseteq 1 .. n
  BY ModuleTypes DEF Numbers
<1>3. Dependencies = D
  BY <1>1 DEF Dependencies, DepsRec!RecursiveValue, DepsOf
<1> HIDE DEF n, ms, D
<1>4. DepsRec!Recursive(ms, SUBSET (1 .. n), n)
  <2>1. ASSUME NEW m \in 1 .. n, NEW f \in [1 .. (m - 1) -> SUBSET (1 .. n)]
        PROVE  DepsOf(ms, f, m) \in SUBSET (1 .. n)
    BY <1>2 DEF DepsOf
  <2>2. ASSUME NEW m \in 1 .. n, NEW f, NEW g, \A j \in 1 .. (m - 1) : g[j] = f[j]
        PROVE  DepsOf(ms, g, m) = DepsOf(ms, f, m)
    <3>1. \A d \in ToSet(ms[m].deps) : g[d] = f[d]
      BY <1>2, <2>2
    <3>2. {g[d] : d \in ToSet(ms[m].deps)} = {f[d] : d \in ToSet(ms[m].deps)}
      BY <3>1
    <3> QED BY <3>2 DEF DepsOf
  <2> QED BY <2>1, <2>2 DEF DepsRec!Recursive
<1>5. /\ D \in [1 .. n -> SUBSET (1 .. n)]
      /\ \A m \in 1 .. n : D[m] = DepsOf(ms, D, m)
  BY <1>1, <1>3, <1>4, DepsRec!Recursion DEF D
<1> DEFINE T == {i \in 0 .. n : \A m \in 1 .. i :
                    D[m] \subseteq 1 .. m /\ \A d \in D[m] : D[d] \subseteq D[m]}
<1>6. 0 \in T
  BY <1>1
<1>7. ASSUME NEW i \in 0 .. (n - 1), i \in T PROVE i + 1 \in T
  <2> DEFINE m == i + 1
  <2>1. m \in 1 .. n /\ m \in 0 .. n /\ m - 1 = i /\ m \in 1 .. m /\ 1 .. i \subseteq 1 .. m
    BY <1>1
  <2>2. \A d \in 1 .. i : D[d] \subseteq 1 .. d /\ 1 .. d \subseteq 1 .. i
    BY <1>1, <1>7
  <2>3. \A k \in 1 .. m : k = m \/ k \in 1 .. i
    BY <1>1
  <2> HIDE DEF m
  <2>4. D[m] = {m} \cup UNION {D[d] : d \in ToSet(ms[m].deps)}
    BY <1>5, <2>1 DEF DepsOf
  <2>5. ToSet(ms[m].deps) \subseteq 1 .. i
    BY <1>2, <2>1
  <2>6. D[m] \subseteq 1 .. m
    BY <2>1, <2>2, <2>4, <2>5
  <2>7. ASSUME NEW d \in D[m] PROVE D[d] \subseteq D[m]
    <3>1. CASE d = m
      BY <3>1
    <3>2. CASE d # m
      <4>1. PICK e \in ToSet(ms[m].deps) : d \in D[e]
        BY <2>4, <2>7, <3>2
      <4>2. D[d] \subseteq D[e]
        BY <1>7, <2>5, <4>1
      <4> QED BY <2>4, <4>1, <4>2
    <3> QED BY <3>1, <3>2
  <2> QED BY <1>7, <2>1, <2>3, <2>6, <2>7 DEF m
<1>8. n \in T
  <2> HIDE DEF T
  <2>1. 0 .. n \subseteq T
    BY <1>1, <1>6, <1>7, AnyFold!UpTo
  <2> QED BY <1>1, <2>1
<1>9. \A m \in 1 .. n : 1 .. m \subseteq 1 .. n
  BY <1>1
<1>10. \A m \in 1 .. n : D[m] = {m} \cup UNION {D[d] : d \in ToSet(ms[m].deps)}
  BY <1>5 DEF DepsOf
<1> QED BY <1>1, <1>3, <1>8, <1>9, <1>10 DEF ms

FilesOf(r, files, m) ==
    ListAll(DepFiles(r.extra, files, r.modules[m].deps), r.modules[m].defconfig)
FilesRec == INSTANCE SequenceFolds WITH Op <- LAMBDA r, files, m : FilesOf(r, files, m)

\* The defconfigs of a module and of those it depends on.
FilesBelow(m) == UNION {ToSet(cfgIn.modules[d].defconfig) : d \in Dependencies[m]}

FilesAre(w, prior, m) ==
    /\ w \in Seq(Files) /\ prior \in Seq(Files)
    /\ Grown(w, cfgIn.extra, FilesBelow(m))
    /\ w = ListAll(prior, cfgIn.modules[m].defconfig)
    /\ ToSet(prior) \subseteq ToSet(cfgIn.extra) \cup
                              UNION {FilesBelow(d) : d \in ToSet(cfgIn.modules[m].deps)}

\* The defconfigs of a module are those of its dependencies, then its own.
LEMMA DefconfigsFacts ==
    ASSUME CfgTypes
    PROVE  \A m \in Numbers : \E prior : FilesAre(Defconfigs[m], prior, m)
<1> DEFINE n == Len(cfgIn.modules)
           r == cfgIn
           x == cfgIn.extra
           F == FilesRec!RecursiveValue(r, n)
           Dep(m) == r.modules[m].deps
           Own(m) == r.modules[m].defconfig
           Prior(files, m) == DepFiles(x, files, Dep(m))
           V == Seq(Files)
<1>1. n \in Nat /\ DOMAIN r.modules = 1 .. n /\ Numbers = 1 .. n /\ x \in V
  BY ModuleTypes DEF Numbers
<1>2. \A m \in 1 .. n : /\ Dep(m) \in Seq(1 .. (m - 1)) /\ ToSet(Dep(m)) \subseteq 1 .. (m - 1)
                        /\ 1 .. (m - 1) \subseteq 1 .. n /\ Own(m) \in V
  BY ModuleTypes DEF Numbers
<1>3. Defconfigs = F
  BY <1>1 DEF Defconfigs, FilesRec!RecursiveValue, FilesOf
<1>4. \A files, m : FilesOf(r, files, m) = ListAll(Prior(files, m), Own(m))
  BY DEF FilesOf, DepFiles
<1>5. ASSUME NEW m \in 1 .. n, NEW files, \A d \in 1 .. (m - 1) : files[d] \in V
      PROVE  /\ Prior(files, m) \in V
             /\ Grown(Prior(files, m), x, AllOf(files, Dep(m)))
  <2>1. Dep(m) \in Seq(1 .. (m - 1))
    BY <1>2
  <2> DEFINE D == 1 .. (m - 1)
             s == Dep(m)
  <2>2. \A d \in D : files[d] \in Seq(Files)
    BY <1>5
  <2>3. s \in Seq(D) /\ x \in Seq(Files)
    BY <1>1, <2>1
  <2> HIDE DEF x, s, D
  <2>4. /\ DepFiles(x, files, s) \in Seq(Files)
        /\ Grown(DepFiles(x, files, s), x, AllOf(files, s))
    BY <2>2, <2>3, DepFilesFacts
  <2> QED BY <2>4 DEF s
<1>6. ASSUME NEW m \in 1 .. n, NEW f, NEW g, \A d \in 1 .. (m - 1) : f[d] \in V /\ g[d] = f[d]
      PROVE  Prior(g, m) = Prior(f, m)
  <2>1. \A v \in V, d \in 1 .. (m - 1) : ListAll(v, f[d]) \in V /\ ListAll(v, g[d]) = ListAll(v, f[d])
    BY <1>6, ListAllFacts
  <2>2. DepFold!FoldValue(f, x, Dep(m)) = DepFold!FoldValue(g, x, Dep(m))
    <3>1. Dep(m) \in Seq(1 .. (m - 1)) /\ x \in V
      BY <1>1, <1>2
    <3> DEFINE D == 1 .. (m - 1)
               s == Dep(m)
    <3> HIDE DEF V, x, s, D
    <3>2. s \in Seq(D) /\ x \in V
      BY <3>1 DEF s, D
    <3>3. \A v \in V, d \in D : ListAll(v, f[d]) \in V /\ ListAll(v, g[d]) = ListAll(v, f[d])
      BY <2>1 DEF D
    <3>4. DepFold!FoldValue(f, x, s) = DepFold!FoldValue(g, x, s)
      BY <3>2, <3>3, DepFold!FoldSame
    <3> QED BY <3>4 DEF s
  <2>3. \A h : Prior(h, m) = DepFold!FoldValue(h, x, Dep(m))
    BY DEF DepFiles, FoldLeft, MapThenFoldSet, Max, DepFold!FoldValue, DepFold!Greatest
  <2> HIDE DEF Prior
  <2> QED BY <2>2, <2>3
<1> HIDE DEF n, r, x, F, Dep, Own, Prior
<1>7. FilesRec!Recursive(r, V, n)
  <2>1. ASSUME NEW m \in 1 .. n, NEW f \in [1 .. (m - 1) -> V]
        PROVE  FilesOf(r, f, m) \in V
    <3>1. \A d \in 1 .. (m - 1) : f[d] \in V
      OBVIOUS
    <3> HIDE DEF V
    <3>2. Prior(f, m) \in V /\ Own(m) \in V
      BY <1>2, <1>5, <3>1
    <3>3. ListAll(Prior(f, m), Own(m)) \in V
      BY <3>2, ListAllFacts DEF V
    <3> QED BY <1>4, <3>3
  <2>2. ASSUME NEW m \in 1 .. n, NEW f \in [1 .. (m - 1) -> V], NEW g,
               \A j \in 1 .. (m - 1) : g[j] = f[j]
        PROVE  FilesOf(r, g, m) = FilesOf(r, f, m)
    BY <1>4, <1>6, <2>2
  <2> QED BY <2>1, <2>2 DEF FilesRec!Recursive
<1>8. F \in [1 .. n -> V] /\ \A m \in 1 .. n : F[m] = ListAll(Prior(F, m), Own(m))
  BY <1>1, <1>4, <1>7, FilesRec!Recursion DEF F
<1>9. ASSUME NEW m \in 1 .. n
      PROVE  FilesBelow(m) = ToSet(Own(m)) \cup UNION {FilesBelow(d) : d \in ToSet(Dep(m))}
  <2>1. Dependencies[m] = {m} \cup UNION {Dependencies[d] : d \in ToSet(Dep(m))}
    BY <1>1, DependenciesFacts DEF Dep, r
  <2> QED BY <2>1 DEF FilesBelow, Own, r
<1>10. ASSUME NEW m \in 1 .. n,
              \A d \in 1 .. (m - 1) : ToSet(F[d]) = ToSet(x) \cup FilesBelow(d)
       PROVE  FilesAre(F[m], Prior(F, m), m) /\ ToSet(F[m]) = ToSet(x) \cup FilesBelow(m)
  <2> DEFINE p == Prior(F, m)
             U == AllOf(F, Dep(m))
             B == UNION {FilesBelow(d) : d \in ToSet(Dep(m))}
  <2>1. p \in V /\ Grown(p, x, U)
    BY <1>2, <1>5, <1>8
  <2>2. F[m] \in V /\ F[m] = ListAll(p, Own(m)) /\ Grown(F[m], p, ToSet(Own(m)))
    BY <1>2, <1>8, <2>1, ListAllFacts
  <2>3. U \ ToSet(x) = B \ ToSet(x)
    BY <1>2, <1>10 DEF AllOf
  <2> HIDE DEF p, U, B
  <2>4. Grown(p, x, B)
    BY <2>1, <2>3, GrownBy
  <2>5. Grown(F[m], x, B \cup ToSet(Own(m)))
    BY <1>1, <2>1, <2>2, <2>4, GrownTwice
  <2>6. Grown(F[m], x, FilesBelow(m))
    BY <1>9, <2>5, GrownBy DEF B
  <2>7. ToSet(p) = ToSet(x) \cup B
    BY <2>4 DEF Grown
  <2>8. FilesAre(F[m], p, m)
    BY <2>1, <2>2, <2>6, <2>7 DEF FilesAre, B, x, Own, Dep, r
  <2> QED BY <2>6, <2>8 DEF Grown, p
<1> DEFINE T == {i \in 0 .. n : \A m \in 1 .. i : ToSet(F[m]) = ToSet(x) \cup FilesBelow(m)}
<1>11. 0 \in T
  BY <1>1
<1>12. ASSUME NEW i \in 0 .. (n - 1), i \in T PROVE i + 1 \in T
  <2>1. i + 1 \in 1 .. n /\ i + 1 \in 0 .. n /\ (i + 1) - 1 = i
        /\ \A m \in 1 .. (i + 1) : m = i + 1 \/ m \in 1 .. i
    BY <1>1
  <2>2. ToSet(F[i + 1]) = ToSet(x) \cup FilesBelow(i + 1)
    BY <1>10, <1>12, <2>1
  <2> QED BY <1>12, <2>1, <2>2
<1>13. n \in T
  <2> HIDE DEF T
  <2>1. 0 .. n \subseteq T
    BY <1>1, <1>11, <1>12, AnyFold!UpTo
  <2> QED BY <1>1, <2>1
<1>14. ASSUME NEW m \in 1 .. n PROVE \E prior : FilesAre(F[m], prior, m)
  <2>1. \A d \in 1 .. (m - 1) : ToSet(F[d]) = ToSet(x) \cup FilesBelow(d)
    BY <1>2, <1>13
  <2> QED BY <1>10, <2>1
<1> QED BY <1>1, <1>3, <1>14

-----------------------------------------------------------------------------
(* The steps after the first check *)

\* Post fragments are merged.
LEMMA MergePostStep == CfgInv /\ MergePost => CfgInv'
<1> SUFFICES ASSUME CfgInv, MergePost PROVE CfgInv'
  OBVIOUS
<1>1. UNCHANGED <<cfgIn, cfgRun, outDefconfig, midConfig, menuConfig, ddkConfig>>
      /\ cfgAt = "merge" /\ dotConfig' = MergeConfig(dotConfig, cfgIn.post)
      /\ cfgAt' \in {"final", "olddefconfig"}
      /\ (cfgAt' = "final" => cfgIn.flags \o cfgIn.post = <<>>)
  BY DEF MergePost
<1>2. cfgIn.post \in Fragments /\ cfgIn.flags \in Seq(OptionLines) /\ dotConfig \in Seq(Lines)
  BY CfgInTypes DEF CfgInv, CfgTypes
<1>3. dotConfig' \in Seq(Lines)
  BY <1>1, <1>2, MergeFacts
<1>4. CfgTypes'
  BY <1>1, <1>3 DEF CfgInv, CfgTypes, InOrder
<1>5. Phases'
  BY <1>1 DEF CfgInv, Phases, Misused, IsFile
<1>6. DefconfigIs' /\ MismatchIs'
  BY <1>1 DEF DefconfigIs, MismatchIs
<1>7. Checks'
  BY <1>1 DEF CfgInv, Checks, Asked, IsFile
<1>8. MenuIs'
  BY <1>1 DEF CfgInv, MenuIs, Changed
<1>9. ASSUME NEW f \in ToSet(cfgIn.post), NEW k \in KeysIn(f)
      PROVE  k \in KeysIn(dotConfig') /\ PostSays(k, LastOf(dotConfig', k).val)
  BY <1>1, <1>2, MergedSays DEF PostSays
<1>10. cfgAt' = "final" => ToSet(cfgIn.post) = {}
  <2>1. ASSUME cfgIn.flags \o cfgIn.post = <<>> PROVE ToSet(cfgIn.post) = {}
    <3>1. cfgIn.flags \in Seq(OptionLines) /\ cfgIn.post \in Seq(Seq(Lines))
      BY <1>2 DEF Fragments
    <3>2. Len(cfgIn.flags \o cfgIn.post) = Len(cfgIn.flags) + Len(cfgIn.post)
      BY <3>1
    <3>3. Len(cfgIn.post) = 0
      BY <2>1, <3>1, <3>2
    <3> QED BY <1>2, <3>3, FragmentIn
  <2> QED BY <1>1, <2>1
<1>11. PostIs'
  BY <1>1, <1>9, <1>10 DEF PostIs, PostSays
<1> QED BY <1>4, <1>5, <1>6, <1>7, <1>8, <1>11 DEF CfgInv

\* `make olddefconfig` drops what Kconfig does not allow.
LEMMA OldDefconfigStep == CfgInv /\ OldDefconfig => CfgInv'
<1> SUFFICES ASSUME CfgInv, OldDefconfig PROVE CfgInv'
  OBVIOUS
<1>1. UNCHANGED <<cfgIn, cfgRun, outDefconfig, midConfig, menuConfig, ddkConfig>>
      /\ cfgAt = "olddefconfig" /\ cfgAt' = "final"
      /\ dotConfig' = DotConfig(Configured(cfgIn.kconfig, dotConfig))
  BY DEF OldDefconfig, Fetched
<1>2. cfgIn.kconfig \in Kconfigs /\ dotConfig \in Seq(Lines)
  BY CfgInTypes DEF CfgInv, CfgTypes
<1>3. dotConfig' \in Seq(Lines)
  BY <1>1, <1>2, MadeFacts
<1>4. CfgTypes'
  BY <1>1, <1>3 DEF CfgInv, CfgTypes, InOrder
<1>5. Phases'
  BY <1>1 DEF CfgInv, Phases, Misused, IsFile
<1>6. DefconfigIs' /\ MismatchIs'
  BY <1>1 DEF DefconfigIs, MismatchIs
<1>7. Checks'
  BY <1>1 DEF CfgInv, Checks, Asked, IsFile
<1>8. MenuIs'
  BY <1>1 DEF CfgInv, MenuIs, Changed
<1>9. ASSUME DropsNothing(cfgIn.kconfig), NEW f \in ToSet(cfgIn.post), NEW k \in KeysIn(f)
      PROVE  PostSays(k, ValueIn(dotConfig', k))
  <2>1. k \in KeysIn(dotConfig) /\ PostSays(k, LastOf(dotConfig, k).val)
    BY <1>1 DEF CfgInv, PostIs
  <2>2. ValueIn(dotConfig', k) = LastOf(dotConfig, k).val
    BY <1>1, <1>2, <1>9, <2>1, NothingDropped
  <2> QED BY <2>1, <2>2
<1>10. PostIs'
  BY <1>1, <1>9 DEF PostIs, PostSays
<1> QED BY <1>4, <1>5, <1>6, <1>7, <1>8, <1>10 DEF CfgInv

\* Where Kconfig drops nothing, the last check fails for a reason.
LEMMA FinalFails ==
    ASSUME CfgInv, cfgAt = "final", ~CheckPasses(dotConfig, <<>>, <<>>, cfgIn.post),
           DropsNothing(cfgIn.kconfig)
    PROVE  \/ Unreadable(<<cfgIn.base>> \o cfgIn.pre \o cfgIn.post)
           \/ \E f, g \in ToSet(cfgIn.post) : Contradict(f, g)
<1>1. cfgIn.base \in Seq(Lines) /\ cfgIn.pre \in Fragments /\ cfgIn.post \in Fragments
  BY CfgInTypes DEF CfgInv
<1>2. CASE \E f \in ToSet(cfgIn.post) : BadLine \in ToSet(f)
  <2>1. Unreadable(<<cfgIn.base>> \o cfgIn.pre \o cfgIn.post)
    BY <1>1, <1>2, UnreadableIs
  <2> QED BY <2>1
<1>3. CASE \A f \in ToSet(cfgIn.post) : BadLine \notin ToSet(f)
  <2>5. PICK f \in ToSet(cfgIn.post) : \E k \in KeysIn(f) : ~Holds(dotConfig, LastOf(f, k))
    BY <1>1, <1>3, CheckAfter
  <2>1. PICK k \in KeysIn(f) : ~Holds(dotConfig, LastOf(f, k))
    BY <2>5
  <2>2. LastOf(f, k).key = k
    BY <1>1, <2>1, FragmentIn, LastEnds
  <2>3. ValueIn(dotConfig, k) # LastOf(f, k).val
    BY <2>1, <2>2 DEF Holds
  <2>4. PostSays(k, ValueIn(dotConfig, k))
    BY <2>1 DEF CfgInv, PostIs
  <2> QED BY <2>1, <2>3, <2>4 DEF PostSays, Contradict
<1> QED BY <1>2, <1>3

\* .config is checked against each post fragment.
LEMMA CheckFinalStep == CfgInv /\ CheckFinal => CfgInv'
<1> SUFFICES ASSUME CfgInv, CheckFinal PROVE CfgInv'
  OBVIOUS
<1>1. UNCHANGED <<cfgIn, cfgRun, outDefconfig, dotConfig, midConfig, menuConfig, ddkConfig>>
      /\ cfgAt = "final"
      /\ \/ cfgAt' = "done" /\ CheckPasses(dotConfig, <<>>, <<>>, cfgIn.post)
         \/ cfgAt' = "mismatch" /\ ~CheckPasses(dotConfig, <<>>, <<>>, cfgIn.post)
  BY DEF CheckFinal
<1>2. CfgTypes'
  BY <1>1 DEF CfgInv, CfgTypes, InOrder
<1>3. Phases'
  BY <1>1 DEF CfgInv, Phases, Misused, IsFile
<1>4. DefconfigIs' /\ PostIs'
  BY <1>1 DEF DefconfigIs, PostIs
<1>5. Checks'
  BY <1>1 DEF CfgInv, Checks, Asked, IsFile
<1>6. MismatchIs'
  BY <1>1, FinalFails DEF MismatchIs
<1>7. MenuIs'
  BY <1>1 DEF CfgInv, MenuIs, Changed
<1> QED BY <1>2, <1>3, <1>4, <1>5, <1>6, <1>7 DEF CfgInv

\* The developer leaves the menu.
LEMMA MenuStep == CfgInv /\ Menu => CfgInv'
<1> SUFFICES ASSUME CfgInv, Menu PROVE CfgInv'
  OBVIOUS
<1>1. UNCHANGED <<cfgIn, cfgRun, outDefconfig, midConfig, ddkConfig>> /\ cfgAt = "menu"
  BY DEF Menu
<1>2. cfgIn.kconfig \in Kconfigs /\ dotConfig \in Seq(Lines) /\ cfgRun = "menu"
  BY <1>1, CfgInTypes DEF CfgInv, CfgTypes, Phases
<1>3. \/ cfgAt' = "refused" /\ UNCHANGED <<dotConfig, menuConfig>>
      \/ \E new \in [Option -> Values] :
            /\ new = Configured(cfgIn.kconfig, DotConfig(new))
            /\ dotConfig' = DotConfig(new) /\ menuConfig' = <<Fetched, new>> /\ cfgAt' = "save"
  BY DEF Menu, Values
<1>4. Fetched \in [Option -> Values]
  BY <1>2, MadeFacts DEF Fetched
<1>5. dotConfig' \in Seq(Lines)
  BY <1>2, <1>3, DotConfigFacts
<1>6. CfgTypes'
  BY <1>1, <1>5 DEF CfgInv, CfgTypes, InOrder
<1>7. Phases'
  BY <1>1, <1>3 DEF CfgInv, Phases, Misused, IsFile
<1>8. DefconfigIs' /\ Checks' /\ PostIs' /\ MismatchIs'
  BY <1>3 DEF DefconfigIs, Checks, PostIs, MismatchIs
<1>9. MenuIs'
  <2>1. CASE cfgAt' = "refused" /\ UNCHANGED <<dotConfig, menuConfig>>
    BY <1>1, <1>2, <2>1 DEF CfgInv, MenuIs
  <2>2. CASE ~(cfgAt' = "refused" /\ UNCHANGED <<dotConfig, menuConfig>>)
    <3>1. PICK new \in [Option -> Values] :
            /\ new = Configured(cfgIn.kconfig, DotConfig(new))
            /\ menuConfig' = <<Fetched, new>> /\ cfgAt' = "save"
      BY <1>3, <2>2
    <3>2. IsConfigured(new, cfgIn.kconfig, DotConfig(new))
      BY <1>2, <3>1, DotConfigFacts, ConfiguredFacts
    <3>3. menuConfig' # <<>> /\ menuConfig'[1] = Fetched /\ menuConfig'[2] = new
      BY <3>1
    <3> QED BY <1>1, <1>2, <1>4, <3>1, <3>2, <3>3 DEF MenuIs
  <2> QED BY <2>1, <2>2
<1> QED BY <1>6, <1>7, <1>8, <1>9 DEF CfgInv

\* A rule that was given another defconfig or other fragments.
LEMMA RequestWith ==
    ASSUME NEW r \in ConfigRequests
    PROVE  /\ \A b \in Seq(Lines) : [r EXCEPT !.base = b] \in ConfigRequests
           /\ \A p \in Fragments : [r EXCEPT !.pre = p] \in ConfigRequests
BY DEF ConfigRequests, Fragments

\* What a menu leaves in the source tree is what MenuIs says.
LEMMA SavedIs ==
    ASSUME CfgInv, SaveChoice
    PROVE  \/ cfgIn' = cfgIn /\ cfgAt' = "refused"
           \/ /\ cfgIn.pre = <<>> /\ cfgAt' = "saved"
              /\ cfgIn' = [cfgIn EXCEPT !.base = SavedDefconfig(cfgIn.kconfig, menuConfig[2])]
           \/ \E u \in Seq(Lines) :
                 /\ cfgIn.pre # <<>> /\ cfgAt' = "saved" /\ cfgIn' = [cfgIn EXCEPT !.pre = <<u>>]
                 /\ \A k \in Changed :
                       k \in KeysIn(u) /\ LastOf(u, k) = OptionLine(k, menuConfig[2][k], FALSE)
<1>1. cfgIn.pre \in Fragments /\ Len(cfgIn.pre) \in Nat
  BY CfgInTypes, FragmentIn DEF CfgInv
<1>2. menuConfig[1] \in [Option -> Values] /\ menuConfig[2] \in [Option -> Values]
  BY DEF SaveChoice, CfgInv, MenuIs, IsConfigured
<1>3. CASE Len(cfgIn.pre) = 0
  <2>1. cfgIn.pre = <<>>
    BY <1>1, <1>3 DEF Fragments
  <2> QED BY <1>3, <2>1 DEF SaveChoice
<1>4. CASE Len(cfgIn.pre) = 1
  <2> DEFINE f == cfgIn.pre[1]
             u == UpdatedFragment(<<f>>, menuConfig[1], menuConfig[2])
  <2>1. cfgIn.pre = <<f>> /\ f \in Seq(Lines) /\ cfgIn.pre # <<>>
    BY <1>1, <1>4, ElementOfSeq DEF Fragments
  <2>2. cfgAt' = "saved" /\ cfgIn' = [cfgIn EXCEPT !.pre = <<u>>]
    <3>1. cfgIn' = [cfgIn EXCEPT !.pre =
                        <<UpdatedFragment(cfgIn.pre, menuConfig[1], menuConfig[2])>>]
      BY <1>4, <2>1 DEF SaveChoice
    <3>2. UpdatedFragment(cfgIn.pre, menuConfig[1], menuConfig[2]) = u
      BY <2>1
    <3> HIDE DEF u, f
    <3> QED BY <1>4, <3>1, <3>2 DEF SaveChoice
  <2> HIDE DEF f
  <2>3. /\ u \in Seq(Lines)
        /\ \A k \in Option : menuConfig[2][k] \notin {"absent", menuConfig[1][k]} =>
              k \in KeysIn(u) /\ LastOf(u, k) = OptionLine(k, menuConfig[2][k], FALSE)
    BY <1>2, <2>1, UpdatedFacts
  <2> HIDE DEF u
  <2> QED BY <2>1, <2>2, <2>3 DEF Changed
<1>5. CASE Len(cfgIn.pre) > 1
  <2> DEFINE n == Len(cfgIn.pre)
  <2>1. n \in Nat /\ n > 1
    BY <1>1, <1>5
  <2>2. n # 0 /\ n # 1
    <3> HIDE DEF n
    <3> QED BY <2>1
  <2>3. cfgAt' = "refused" /\ cfgIn' = cfgIn
    <3> HIDE DEF n
    <3> QED BY <2>1, <2>2 DEF SaveChoice, n
  <2> QED BY <2>3
<1>6. Len(cfgIn.pre) = 0 \/ Len(cfgIn.pre) = 1 \/ Len(cfgIn.pre) > 1
  <2> DEFINE n == Len(cfgIn.pre)
  <2>1. n \in Nat
    BY <1>1
  <2> HIDE DEF n
  <2>2. n = 0 \/ n = 1 \/ n > 1
    BY <2>1
  <2> QED BY <2>2 DEF n
<1> QED BY <1>3, <1>4, <1>5, <1>6

\* The choice is written to the source tree.
LEMMA SaveStep == CfgInv /\ SaveChoice => CfgInv'
<1> SUFFICES ASSUME CfgInv, SaveChoice PROVE CfgInv'
  OBVIOUS
<1>1. UNCHANGED <<cfgRun, outDefconfig, dotConfig, midConfig, menuConfig, ddkConfig>>
      /\ cfgAt = "save" /\ cfgAt' \in {"refused", "saved"}
  BY DEF SaveChoice
<1>2. cfgIn \in ConfigRequests /\ InOrder(cfgIn) /\ cfgIn.kconfig \in Kconfigs
  BY CfgInTypes DEF CfgInv, CfgTypes
<1>3. cfgRun = "menu" /\ menuConfig # <<>> /\ menuConfig[1] \in [Option -> Values]
      /\ IsConfigured(menuConfig[2], cfgIn.kconfig, DotConfig(menuConfig[2])) /\ ~Misused
      /\ menuConfig[2] \in [Option -> Values]
  BY <1>1 DEF CfgInv, Phases, MenuIs, IsConfigured
<1>4. SavedDefconfig(cfgIn.kconfig, menuConfig[2]) \in Seq(Lines)
  BY <1>2, <1>3, DotConfigFacts, SavedIsRestored
<1>5. /\ cfgIn' \in ConfigRequests /\ cfgIn'.modules = cfgIn.modules
      /\ cfgIn'.kconfig = cfgIn.kconfig
      /\ cfgIn'.minimized = cfgIn.minimized /\ cfgIn'.defconfig = cfgIn.defconfig
      /\ cfgIn'.pre # <<>> => cfgIn.pre # <<>>
  <2>1. \A u \in Seq(Lines) : <<u>> \in Fragments
    BY DEF Fragments
  <2>2. cfgIn' \in ConfigRequests
    BY <1>2, <1>4, <2>1, SavedIs, RequestWith
  <2> QED BY <1>2, <2>2, SavedIs DEF ConfigRequests
<1>6. CfgTypes'
  BY <1>1, <1>2, <1>5 DEF CfgInv, CfgTypes, InOrder
<1>7. Phases'
  BY <1>1, <1>3, <1>5 DEF CfgInv, Phases, Misused, IsFile
<1>8. DefconfigIs' /\ Checks' /\ PostIs' /\ MismatchIs'
  BY <1>1 DEF DefconfigIs, Checks, PostIs, MismatchIs
<1>9. cfgAt' = "saved" =>
          \/ cfgIn'.pre = <<>> /\ cfgIn'.base = SavedDefconfig(cfgIn'.kconfig, menuConfig'[2])
          \/ /\ Len(cfgIn'.pre) = 1
             /\ \A k \in Changed' :
                   /\ k \in KeysIn(cfgIn'.pre[1])
                   /\ LastOf(cfgIn'.pre[1], k) = OptionLine(k, menuConfig'[2][k], FALSE)
  <2>1. CASE /\ cfgIn.pre = <<>> /\ cfgAt' = "saved"
             /\ cfgIn' = [cfgIn EXCEPT !.base = SavedDefconfig(cfgIn.kconfig, menuConfig[2])]
    <3>1. cfgIn'.pre = <<>> /\ cfgIn'.base = SavedDefconfig(cfgIn.kconfig, menuConfig[2])
      BY <1>2, <2>1 DEF ConfigRequests
    <3> QED BY <1>1, <1>5, <3>1
  <2>2. ASSUME NEW u \in Seq(Lines), cfgIn' = [cfgIn EXCEPT !.pre = <<u>>],
               \A k \in Changed :
                  k \in KeysIn(u) /\ LastOf(u, k) = OptionLine(k, menuConfig[2][k], FALSE)
        PROVE  /\ Len(cfgIn'.pre) = 1
               /\ \A k \in Changed' :
                     /\ k \in KeysIn(cfgIn'.pre[1])
                     /\ LastOf(cfgIn'.pre[1], k) = OptionLine(k, menuConfig'[2][k], FALSE)
    <3>1. cfgIn'.pre = <<u>>
      BY <1>2, <2>2 DEF ConfigRequests
    <3>2. Len(cfgIn'.pre) = 1 /\ cfgIn'.pre[1] = u
      BY <3>1
    <3>3. Changed' = Changed
      BY <1>1 DEF Changed
    <3> QED BY <1>1, <2>2, <3>2, <3>3
  <2> QED BY <2>1, <2>2, SavedIs
<1>10. MenuIs'
  BY <1>1, <1>3, <1>5, <1>9 DEF MenuIs
<1> QED BY <1>6, <1>7, <1>8, <1>10 DEF CfgInv

\* The next build begins.
LEMMA NextStep == CfgInv /\ BuildNext => CfgInv'
<1> SUFFICES ASSUME CfgInv, BuildNext PROVE CfgInv'
  OBVIOUS
<1>1. UNCHANGED <<cfgIn, menuConfig, ddkConfig>> /\ cfgAt = "saved" /\ cfgAt' = "setup"
      /\ cfgRun' = "build" /\ outDefconfig' = <<>> /\ dotConfig' = <<>> /\ midConfig' = <<>>
  BY DEF BuildNext
<1>2. CfgTypes'
  BY <1>1, EmptyFacts DEF CfgInv, CfgTypes, InOrder
<1>3. Phases'
  BY <1>1 DEF CfgInv, Phases, Misused, IsFile
<1>4. DefconfigIs' /\ Checks' /\ PostIs' /\ MismatchIs'
  BY <1>1 DEF DefconfigIs, Checks, PostIs, MismatchIs
<1>5. MenuIs'
  BY <1>1 DEF CfgInv, MenuIs, Changed
<1> QED BY <1>2, <1>3, <1>4, <1>5 DEF CfgInv

-----------------------------------------------------------------------------
(* The configuration of a DDK module *)

OwnDefconfigs(m) == [i \in DOMAIN cfgIn.modules[m].defconfig |-> cfgIn.modules[m].defconfig[i].lines]
DdkFragments(m) == [i \in DOMAIN Defconfigs[m] |-> Defconfigs[m][i].lines]
DdkMerged(m) == MergeConfig(dotConfig, DdkFragments(m))
DdkValue(m) == Configured(KconfigOf(m), DdkMerged(m))

\* The text of files is a list of fragments.
LEMMA TextIn ==
    ASSUME NEW files \in Seq(Files)
    PROVE  /\ [i \in DOMAIN files |-> files[i].lines] \in Fragments
           /\ Len([i \in DOMAIN files |-> files[i].lines]) = Len(files)
<1>1. DOMAIN files = 1 .. Len(files) /\ Len(files) \in Nat
  OBVIOUS
<1>2. \A i \in 1 .. Len(files) : files[i].lines \in Seq(Lines)
  <2>1. \A i \in 1 .. Len(files) : files[i] \in Files
    BY ElementOfSeq
  <2> QED BY <2>1 DEF Files
<1>3. [i \in 1 .. Len(files) |-> files[i].lines] \in Seq(Seq(Lines))
  BY <1>1, <1>2, IsASeq
<1>4. Len([i \in 1 .. Len(files) |-> files[i].lines]) = Len(files)
  BY <1>1
<1> QED BY <1>1, <1>3, <1>4 DEF Fragments

\* The types of what a module is configured with.
LEMMA DdkTypes ==
    ASSUME CfgInv, NEW m \in Numbers
    PROVE  /\ KconfigOf(m) \in Kconfigs
           /\ DropsNothing(cfgIn.kconfig) => DropsNothing(KconfigOf(m))
           /\ OwnDefconfigs(m) \in Fragments /\ Len(OwnDefconfigs(m)) = Len(cfgIn.modules[m].defconfig)
           /\ DdkFragments(m) \in Fragments /\ Len(DdkFragments(m)) = Len(Defconfigs[m])
           /\ Defconfigs[m] \in Seq(Files)
           /\ DdkMerged(m) \in Seq(Lines) /\ dotConfig \in Seq(Lines)
           /\ DdkValue(m) \in [Option -> Values] /\ DotConfig(DdkValue(m)) \in Seq(Lines)
<1>1. cfgIn.kconfig \in Kconfigs /\ dotConfig \in Seq(Lines) /\ CfgTypes
  BY CfgInTypes DEF CfgInv, CfgTypes
<1>2. cfgIn.modules[m].defconfig \in Seq(Files)
  BY <1>1, ModuleTypes
<1>3. Defconfigs[m] \in Seq(Files)
  BY <1>1, DefconfigsFacts DEF FilesAre
<1>4. \A d \in Dependencies[m] : cfgIn.modules[d].kconfig \in SUBSET Option
  BY <1>1, DependenciesFacts, ModuleTypes
<1> DEFINE more == UNION {cfgIn.modules[d].kconfig : d \in Dependencies[m]}
<1>5. more \in SUBSET Option /\ KconfigOf(m) = [cfgIn.kconfig EXCEPT !.declared = @ \cup more]
  BY <1>4 DEF KconfigOf
<1> HIDE DEF more
<1>6. /\ KconfigOf(m) \in Kconfigs
      /\ DropsNothing(cfgIn.kconfig) => DropsNothing(KconfigOf(m))
  BY <1>1, <1>5 DEF Kconfigs, DropsNothing
<1>7. OwnDefconfigs(m) \in Fragments /\ Len(OwnDefconfigs(m)) = Len(cfgIn.modules[m].defconfig)
  BY <1>2, TextIn DEF OwnDefconfigs
<1>8. DdkFragments(m) \in Fragments /\ Len(DdkFragments(m)) = Len(Defconfigs[m])
  BY <1>3, TextIn DEF DdkFragments
<1>9. DdkMerged(m) \in Seq(Lines)
  BY <1>1, <1>8, MergeFacts DEF DdkMerged
<1>10. DdkValue(m) \in [Option -> Values] /\ DotConfig(DdkValue(m)) \in Seq(Lines)
  BY <1>6, <1>9, MadeFacts DEF DdkValue
<1> QED BY <1>1, <1>3, <1>6, <1>7, <1>8, <1>9, <1>10

\* A file that is not there yet is listed last.
LEMMA ListedLast ==
    ASSUME NEW base \in Seq(Files), NEW file \in Files, file \notin ToSet(base)
    PROVE  /\ Len(ListAll(base, <<file>>)) \in 1 .. Len(ListAll(base, <<file>>))
           /\ ListAll(base, <<file>>)[Len(ListAll(base, <<file>>))] = file
<1> DEFINE one == <<file>>
           w == ListAll(base, one)
<1>1. one \in Seq(Files) /\ Len(one) = 1 /\ one[1] = file
  OBVIOUS
<1>2. \A v \in Seq(Files), f \in Files : Listed(v, f) \in Seq(Files)
  BY ListedFacts
<1> HIDE DEF one
<1>3. ListedFold!Trace(0, Seq(Files), base, one)
  BY <1>1, <1>2, ListedFold!FoldTrace
<1>4. w = ListedFold!FoldValue(0, base, one)
  BY DEF ListAll, FoldLeft, MapThenFoldSet, Max, ListedFold!FoldValue, ListedFold!Greatest
<1>5. w = Listed(base, file)
  <2>1. PICK t : ListedFold!IsTrace(t, 0, base, one)
    BY <1>3 DEF ListedFold!Trace
  <2>2. 1 \in 1 .. Len(one) /\ 1 - 1 = 0
    BY <1>1
  <2> HIDE DEF w
  <2>3. /\ t[0] = base /\ t[1] = Listed(t[1 - 1], one[1])
        /\ t[Len(one)] = ListedFold!FoldValue(0, base, one)
    BY <2>1, <2>2 DEF ListedFold!IsTrace
  <2> QED BY <1>1, <1>4, <2>2, <2>3
<1> HIDE DEF w
<1>6. w \in Seq(Files) /\ w[Len(w)] = file /\ Grown(w, base, {file})
  BY <1>5, ListedFacts
<1>7. Len(w) \in 1 .. Len(w)
  <2> DEFINE n == Len(w)
  <2>1. n \in Nat
    BY <1>6
  <2>2. n # 0
    <3>1. file \in ToSet(w) /\ DOMAIN w = 1 .. n
      BY <1>6 DEF Grown
    <3> HIDE DEF n
    <3> QED BY <3>1 DEF ToSet
  <2> HIDE DEF n
  <2>3. n \in 1 .. n
    BY <2>1, <2>2
  <2> QED BY <2>3 DEF n
<1> QED BY <1>6, <1>7 DEF w, one

\* The last of the fragments counts.
LEMMA LastCounts ==
    ASSUME NEW lines \in Seq(Lines), NEW fragments \in Fragments,
           Len(fragments) \in 1 .. Len(fragments), NEW k \in KeysIn(fragments[Len(fragments)])
    PROVE  /\ k \in KeysIn(MergeConfig(lines, fragments))
           /\ LastOf(MergeConfig(lines, fragments), k) = LastOf(fragments[Len(fragments)], k)
<1> DEFINE M == MergeConfig(lines, fragments)
           n == Len(fragments)
<1>1. Merged(M, lines, fragments, n) /\ n \in Nat /\ n \in 1 .. n
  BY MergeFacts, FragmentIn
<1> HIDE DEF M
<1>2. k \in KeysIn(M)
  BY <1>1 DEF Merged
<1>3. PICK i \in 1 .. n : /\ k \in KeysIn(fragments[i]) /\ LastOf(M, k) = LastOf(fragments[i], k)
                          /\ \A j \in (i + 1) .. n : k \notin KeysIn(fragments[j])
  BY <1>1, <1>2 DEF Merged
<1>4. i = n
  <2>1. k \in KeysIn(fragments[n])
    OBVIOUS
  <2> HIDE DEF n
  <2>2. n \notin (i + 1) .. n
    BY <1>3, <2>1
  <2> QED BY <1>1, <2>2
<1> QED BY <1>2, <1>3, <1>4 DEF M

\* Why the check of a module may fail where Kconfig drops nothing.
Caused(m) ==
    \E f \in ToSet(cfgIn.modules[m].defconfig) :
        \/ BadLine \in ToSet(f.lines) \/ f \in ToSet(cfgIn.extra)
        \/ \E d \in Dependencies[m] \ {m} : f \in ToSet(cfgIn.modules[d].defconfig)

\* The defconfig that a module shares with none is the last of its fragments.
LEMMA OwnIsLast ==
    ASSUME CfgInv, NEW m \in Numbers, NEW file \in ToSet(cfgIn.modules[m].defconfig), ~Caused(m)
    PROVE  /\ Len(DdkFragments(m)) \in 1 .. Len(DdkFragments(m))
           /\ DdkFragments(m)[Len(DdkFragments(m))] = file.lines
           /\ ToSet(OwnDefconfigs(m)) = {file.lines} /\ BadLine \notin ToSet(file.lines)
           /\ file \in Files
<1> DEFINE own == cfgIn.modules[m].defconfig
           w == Defconfigs[m]
<1>1. CfgTypes /\ own \in Seq(Files) /\ Len(own) <= 1 /\ m \in Nat
      /\ ToSet(cfgIn.modules[m].deps) \subseteq 1 .. (m - 1) /\ 1 .. (m - 1) \subseteq Numbers
  BY ModuleTypes DEF CfgInv, Numbers
<1> HIDE DEF own
<1>2. own = <<file>> /\ file \in Files
  <2> DEFINE n == Len(own)
  <2>1. n \in Nat /\ n <= 1 /\ DOMAIN own = 1 .. n
    BY <1>1
  <2>2. PICK i \in DOMAIN own : file = own[i]
    BY DEF ToSet, own
  <2>3. n = 1 /\ i = 1
    <3>1. i \in 1 .. n
      BY <2>1, <2>2
    <3> HIDE DEF n
    <3> QED BY <2>1, <3>1
  <2>4. own[1] \in Files
    BY <1>1, <2>1, <2>3, ElementOfSeq
  <2> QED BY <1>1, <2>2, <2>3, <2>4
<1>3. PICK prior : FilesAre(w, prior, m)
  BY <1>1, DefconfigsFacts
<1>4. file \notin ToSet(prior)
  <2>1. file \notin ToSet(cfgIn.extra)
        /\ \A d \in Dependencies[m] \ {m} : file \notin ToSet(cfgIn.modules[d].defconfig)
    BY DEF Caused
  <2>2. ASSUME NEW d \in ToSet(cfgIn.modules[m].deps) PROVE file \notin FilesBelow(d)
    <3>1. d \in Numbers /\ d \in 1 .. (m - 1)
      BY <1>1
    <3>2. Dependencies[d] \subseteq 1 .. d /\ Dependencies[d] \subseteq Dependencies[m]
      <4>1. Dependencies[d] \subseteq 1 .. d
        BY <1>1, <3>1, DependenciesFacts
      <4>2. Dependencies[m] = {m} \cup UNION {Dependencies[e] : e \in ToSet(cfgIn.modules[m].deps)}
        BY <1>1, DependenciesFacts
      <4> QED BY <4>1, <4>2
    <3>3. m \notin 1 .. d
      BY <1>1, <3>1
    <3> QED BY <2>1, <3>2, <3>3 DEF FilesBelow
  <2> QED BY <1>3, <2>1, <2>2 DEF FilesAre
<1>5. w = ListAll(prior, <<file>>) /\ prior \in Seq(Files) /\ w \in Seq(Files)
  BY <1>2, <1>3 DEF FilesAre, own
<1> HIDE DEF w
<1>6. Len(w) \in 1 .. Len(w) /\ w[Len(w)] = file
  BY <1>2, <1>4, <1>5, ListedLast
<1>7. DdkFragments(m) = [i \in DOMAIN w |-> w[i].lines] /\ Len(DdkFragments(m)) = Len(w)
      /\ DOMAIN w = 1 .. Len(w)
  BY <1>5, DdkTypes DEF DdkFragments, w
<1>8. ToSet(OwnDefconfigs(m)) = {file.lines}
  <2>1. DOMAIN own = {1} /\ own[1] = file
    BY <1>2
  <2>2. OwnDefconfigs(m) = [i \in DOMAIN own |-> own[i].lines]
    BY DEF OwnDefconfigs, own
  <2> QED BY <2>1, <2>2 DEF ToSet
<1>9. BadLine \notin ToSet(file.lines)
  BY DEF Caused
<1> QED BY <1>2, <1>6, <1>7, <1>8, <1>9

\* Where Kconfig drops nothing, the check of a module fails for a reason.
LEMMA DdkFails ==
    ASSUME CfgInv, NEW m \in Numbers, DropsNothing(cfgIn.kconfig),
           ~CheckPasses(DotConfig(DdkValue(m)), <<>>, <<>>, OwnDefconfigs(m))
    PROVE  Caused(m)
<1> SUFFICES ASSUME ~Caused(m) PROVE FALSE
  OBVIOUS
<1> DEFINE own == OwnDefconfigs(m)
           fragments == DdkFragments(m)
           actual == DotConfig(DdkValue(m))
<1>1. /\ KconfigOf(m) \in Kconfigs /\ DropsNothing(KconfigOf(m))
      /\ own \in Fragments /\ fragments \in Fragments
      /\ dotConfig \in Seq(Lines) /\ DdkMerged(m) \in Seq(Lines)
  BY DdkTypes
<1>2. PICK f \in ToSet(own) : BadLine \in ToSet(f) \/ \E k \in KeysIn(f) : ~Holds(actual, LastOf(f, k))
  BY <1>1, CheckAfter
<1>3. PICK file \in ToSet(cfgIn.modules[m].defconfig) : f = file.lines
  BY <1>2 DEF OwnDefconfigs, ToSet
<1>4. /\ Len(fragments) \in 1 .. Len(fragments) /\ fragments[Len(fragments)] = f
      /\ BadLine \notin ToSet(f)
  BY <1>3, OwnIsLast
<1>5. PICK k \in KeysIn(f) : ~Holds(actual, LastOf(f, k))
  BY <1>2, <1>4
<1>6. f \in Seq(Lines)
  BY <1>1, <1>2, FragmentIn
<1> HIDE DEF own, fragments
<1>7. k \in KeysIn(MergeConfig(dotConfig, fragments))
      /\ LastOf(MergeConfig(dotConfig, fragments), k) = LastOf(f, k)
  BY <1>1, <1>4, LastCounts
<1>8. k \in KeysIn(DdkMerged(m)) /\ LastOf(DdkMerged(m), k) = LastOf(f, k)
  BY <1>7 DEF DdkMerged, fragments
<1>9. ValueIn(actual, k) = LastOf(f, k).val
  BY <1>1, <1>8, NothingDropped DEF DdkValue
<1>10. LastOf(f, k).key = k
  BY <1>6, LastEnds
<1> QED BY <1>5, <1>9, <1>10 DEF Holds

\* What the configuration of a module came to.
DdkIs ==
    \A m \in DOMAIN ddkConfig :
        /\ ddkConfig[m].at # "none" => ddkConfig[m].config = DotConfig(DdkValue(m))
        /\ DropsNothing(cfgIn.kconfig) /\ ddkConfig[m].at = "mismatch" => Caused(m)

\* Dependencies and Defconfigs of a request.
DependenciesOf(r) ==
    LET all[m \in DOMAIN r.modules] == {m} \cup UNION {all[d] : d \in ToSet(r.modules[m].deps)}
    IN  all
DefconfigsOf(r) ==
    LET files[m \in DOMAIN r.modules] ==
            ListAll(DepFiles(r.extra, files, r.modules[m].deps), r.modules[m].defconfig)
    IN  files

\* What a module is configured with changes only with the rule and .config.
LEMMA DdkSame ==
    ASSUME UNCHANGED <<cfgIn, dotConfig>>
    PROVE  \A d : DdkValue(d)' = DdkValue(d) /\ (Caused(d)' <=> Caused(d))
<1>1. cfgIn' = cfgIn /\ dotConfig' = dotConfig
  OBVIOUS
<1>2. Defconfigs' = Defconfigs /\ Dependencies' = Dependencies
  <2>1. Defconfigs = DefconfigsOf(cfgIn)
    BY DEF Defconfigs, DefconfigsOf
  <2>2. Defconfigs' = DefconfigsOf(cfgIn')
    BY DEF Defconfigs, DefconfigsOf
  <2>3. Dependencies = DependenciesOf(cfgIn)
    BY DEF Dependencies, DependenciesOf
  <2>4. Dependencies' = DependenciesOf(cfgIn')
    BY DEF Dependencies, DependenciesOf
  <2> QED BY <1>1, <2>1, <2>2, <2>3, <2>4
<1>3. \A d : KconfigOf(d)' = KconfigOf(d) /\ DdkFragments(d)' = DdkFragments(d)
  BY <1>1, <1>2 DEF KconfigOf, DdkFragments
<1>4. \A d : DdkMerged(d)' = DdkMerged(d)
  BY <1>1, <1>3 DEF DdkMerged
<1>5. \A d : DdkValue(d)' = DdkValue(d)
  BY <1>3, <1>4 DEF DdkValue
<1>6. \A d : Caused(d)' <=> Caused(d)
  BY <1>1, <1>2 DEF Caused
<1> QED BY <1>5, <1>6

\* A module is configured.
LEMMA ConfigureStep ==
    ASSUME CfgInv, DdkIs, NEW m \in DOMAIN cfgIn.modules, ConfigureDdk(m)
    PROVE  CfgInv' /\ DdkIs'
<1> DEFINE result == DotConfig(DdkValue(m))
           passes == CheckPasses(result, <<>>, <<>>, OwnDefconfigs(m))
           new == [at |-> IF passes THEN "done" ELSE "mismatch", config |-> result]
<1>1. UNCHANGED <<cfgIn, cfgRun, cfgAt, outDefconfig, dotConfig, midConfig, menuConfig>>
      /\ cfgAt = "done" /\ ddkConfig' = [ddkConfig EXCEPT ![m] = new]
  BY DEF ConfigureDdk, DdkValue, DdkMerged, DdkFragments, OwnDefconfigs
<1>2. CfgTypes /\ m \in Numbers /\ DOMAIN ddkConfig = DOMAIN cfgIn.modules
  BY ModuleTypes DEF CfgInv, CfgTypes
<1>3. result \in Seq(Lines)
  BY <1>2, DdkTypes
<1>4. ~passes /\ DropsNothing(cfgIn.kconfig) => Caused(m)
  BY <1>2, DdkFails
<1> HIDE DEF result, passes
<1>5. new \in [at : {"none", "done", "mismatch"}, config : Seq(Lines)]
  BY <1>3
<1>6. new.config = result /\ (new.at = "mismatch" => ~passes)
  OBVIOUS
<1> HIDE DEF new
<1>7. CfgTypes'
  BY <1>1, <1>2, <1>5 DEF CfgTypes, InOrder
<1>8. Phases'
  BY <1>1 DEF CfgInv, Phases, Misused, IsFile
<1>9. DefconfigIs' /\ Checks' /\ PostIs' /\ MismatchIs'
  BY <1>1 DEF CfgInv, DefconfigIs, Checks, PostIs, MismatchIs, Asked, IsFile
<1>10. MenuIs'
  BY <1>1 DEF CfgInv, MenuIs, Changed
<1>11. DdkIs'
  <2>1. \A d : DdkValue(d)' = DdkValue(d) /\ (Caused(d)' <=> Caused(d))
    BY <1>1, DdkSame
  <2>2. ASSUME NEW d \in DOMAIN ddkConfig
        PROVE  /\ ddkConfig'[d].at # "none" => ddkConfig'[d].config = DotConfig(DdkValue(d))
               /\ DropsNothing(cfgIn.kconfig) /\ ddkConfig'[d].at = "mismatch" => Caused(d)
    <3>1. CASE d = m
      <4>1. ddkConfig'[m] = new
        <5>1. ddkConfig' = [ddkConfig EXCEPT ![m] = new] /\ m \in DOMAIN ddkConfig
          BY <1>1, <1>2
        <5> QED BY <5>1
      <4> QED BY <1>4, <1>6, <3>1, <4>1 DEF result
    <3>2. CASE d # m
      <4>1. ddkConfig'[d] = ddkConfig[d]
        BY <1>1, <3>2
      <4> QED BY <4>1 DEF DdkIs
    <3> QED BY <3>1, <3>2
  <2>3. DOMAIN ddkConfig' = DOMAIN ddkConfig
    BY <1>1
  <2> QED BY <1>1, <2>1, <2>2, <2>3 DEF DdkIs
<1> QED BY <1>7, <1>8, <1>9, <1>10, <1>11 DEF CfgInv

\* Before a build has ended no module is configured.
LEMMA DdkNotYet ==
    ASSUME CfgInv, cfgAt # "done", UNCHANGED ddkConfig
    PROVE  DdkIs'
BY DEF CfgInv, Phases, DdkIs

-----------------------------------------------------------------------------
(* The theorems *)

\* The configuration of a kernel and of its modules keeps the invariant.
THEOREM CfgInvariant == CfgSpec => [](CfgInv /\ DdkIs)
<1>1. CfgInit => CfgInv /\ DdkIs
  BY CfgInitInv DEF CfgInit, DdkIs
<1>2. CfgInv /\ DdkIs /\ [CfgNext]_cfgVars => (CfgInv /\ DdkIs)'
  <2> SUFFICES ASSUME CfgInv, DdkIs, [CfgNext]_cfgVars PROVE CfgInv' /\ DdkIs'
    OBVIOUS
  <2>1. CASE SetUpDefconfig
    BY <2>1, SetUpStep, DdkNotYet DEF SetUpDefconfig
  <2>2. CASE PreDefconfig
    BY <2>2, PreStep, DdkNotYet DEF PreDefconfig
  <2>3. CASE MakeDefconfig
    BY <2>3, MakeStep, DdkNotYet DEF MakeDefconfig
  <2>4. CASE CheckIntermediate
    BY <2>4, CheckStep, DdkNotYet DEF CheckIntermediate
  <2>5. CASE ScriptsConfig
    BY <2>5, ScriptsStep, DdkNotYet DEF ScriptsConfig
  <2>6. CASE MergePost
    BY <2>6, MergePostStep, DdkNotYet DEF MergePost
  <2>7. CASE OldDefconfig
    BY <2>7, OldDefconfigStep, DdkNotYet DEF OldDefconfig
  <2>8. CASE CheckFinal
    BY <2>8, CheckFinalStep, DdkNotYet DEF CheckFinal
  <2>9. CASE Menu
    BY <2>9, MenuStep, DdkNotYet DEF Menu
  <2>10. CASE SaveChoice
    BY <2>10, SaveStep, DdkNotYet DEF SaveChoice
  <2>11. CASE BuildNext
    BY <2>11, NextStep, DdkNotYet DEF BuildNext
  <2>12. CASE \E m \in DOMAIN cfgIn.modules : ConfigureDdk(m)
    BY <2>12, ConfigureStep
  <2>13. CASE UNCHANGED cfgVars
    <3>1. /\ cfgIn' = cfgIn /\ cfgRun' = cfgRun /\ cfgAt' = cfgAt /\ outDefconfig' = outDefconfig
          /\ dotConfig' = dotConfig /\ midConfig' = midConfig /\ menuConfig' = menuConfig
          /\ ddkConfig' = ddkConfig
      BY <2>13 DEF cfgVars
    <3>2. CfgTypes' /\ Phases'
      BY <3>1 DEF CfgInv, CfgTypes, Phases, InOrder, Misused, IsFile
    <3>3. DefconfigIs' /\ Checks'
      BY <3>1 DEF CfgInv, DefconfigIs, Checks, Asked, IsFile
    <3>4. MenuIs'
      BY <3>1 DEF CfgInv, MenuIs, Changed
    <3>5. PostIs'
      BY <3>1 DEF CfgInv, PostIs, PostSays
    <3>6. MismatchIs'
      BY <3>1 DEF CfgInv, MismatchIs
    <3>7. DdkIs'
      BY <3>1, DdkSame DEF DdkIs
    <3> QED BY <3>2, <3>3, <3>4, <3>5, <3>6, <3>7 DEF CfgInv
  <2> QED BY <2>1, <2>2, <2>3, <2>4, <2>5, <2>6, <2>7, <2>8, <2>9, <2>10, <2>11, <2>12, <2>13
          DEF CfgNext
<1> QED BY <1>1, <1>2, PTL DEF CfgSpec

\* A configuration that succeeds is the one that was asked for: .config has the last word
\* of defconfig and pre fragments on every option, then what each post fragment says.
THEOREM ConfiguredAsAsked == CfgSpec => []ConfigAsAsked
<1>1. CfgInv => ConfigAsAsked
  <2> SUFFICES ASSUME CfgInv, cfgAt = "done"
               PROVE  /\ IsFile =>
                            LET lines == AllLines(<<cfgIn.base>> \o cfgIn.pre) IN
                            \A k \in KeysIn(lines) :
                                LastOf(lines, k).nocheck
                                \/ ValueIn(midConfig, k) = LastOf(lines, k).val
                      /\ \A f \in ToSet(cfgIn.post) : \A k \in KeysIn(f) :
                            LastOf(f, k).nocheck \/ ValueIn(dotConfig, k) = LastOf(f, k).val
    BY DEF ConfigAsAsked
  <2>1. cfgIn.base \in Seq(Lines) /\ cfgIn.pre \in Fragments /\ cfgIn.post \in Fragments
    BY CfgInTypes DEF CfgInv
  <2>2. IsFile => \A k \in KeysIn(Asked) : Holds(midConfig, LastOf(Asked, k))
    BY DEF CfgInv, Checks
  <2>3. CheckPasses(dotConfig, <<>>, <<>>, cfgIn.post)
    BY DEF CfgInv, Checks
  <2>4. ASSUME NEW f \in ToSet(cfgIn.post), NEW k \in KeysIn(f)
        PROVE  LastOf(f, k).nocheck \/ ValueIn(dotConfig, k) = LastOf(f, k).val
    <3>1. Holds(dotConfig, LastOf(f, k))
      BY <2>1, <2>3, CheckAfter
    <3>2. LastOf(f, k).key = k
      BY <2>1, FragmentIn, LastEnds
    <3> QED BY <3>1, <3>2 DEF Holds
  <2>5. IsFile =>
          LET lines == AllLines(<<cfgIn.base>> \o cfgIn.pre) IN
          \A k \in KeysIn(lines) :
              LastOf(lines, k).nocheck \/ ValueIn(midConfig, k) = LastOf(lines, k).val
    BY <2>1, <2>2, CheckedText DEF Asked
  <2> QED BY <2>4, <2>5
<1> QED BY <1>1, CfgInvariant, PTL

\* Where Kconfig drops nothing, no line is unreadable and post fragments do not contradict
\* one another, no check fails, nor that of a module that shares its defconfig with none.
THEOREM ChecksAreRight == CfgSpec => []NoFalseAlarm
<1>1. CfgInv /\ DdkIs => NoFalseAlarm
  BY DEF CfgInv, MismatchIs, DdkIs, Caused, NoFalseAlarm
<1> QED BY <1>1, CfgInvariant, PTL

\* What a saved menu makes of the next build.
LEMMA SavedBuild ==
    ASSUME CfgInv, cfgRun = "build", menuConfig # <<>>, cfgIn.pre = <<>>, cfgAt \in {"check", "post"}
    PROVE  /\ midConfig = DotConfig(menuConfig[2])
           /\ cfgAt = "check" => IntermediateOK \/ "check_defconfig_minimized" \in cfgIn.env
<1> DEFINE v == menuConfig[2]
           kc == cfgIn.kconfig
           d == SavedDefconfig(kc, v)
<1>1. kc \in Kconfigs /\ cfgIn.base \in Seq(Lines) /\ Len(cfgIn.pre) = 0
  BY CfgInTypes DEF CfgInv
<1>2. IsConfigured(v, kc, DotConfig(v)) /\ cfgIn.base = d
  BY <1>1 DEF CfgInv, MenuIs
<1>3. v \in [Option -> Values] /\ DotConfig(v) \in Seq(Lines)
  BY <1>2, DotConfigFacts DEF IsConfigured
<1> HIDE DEF v, kc
<1>4. /\ d \in Seq(Lines) /\ Configured(kc, d) = v /\ BadLine \notin ToSet(d)
      /\ \A k \in KeysIn(d) : v[k] # "absent" /\ LastOf(d, k) = OptionLine(k, v[k], FALSE)
  BY <1>1, <1>2, <1>3, SavedIsRestored
<1> HIDE DEF d
<1>5. Asked = d
  BY <1>1, <1>2, MergeFew DEF Asked
<1>6. midConfig = DotConfig(v) /\ dotConfig = midConfig
  BY <1>4, <1>5 DEF CfgInv, DefconfigIs, kc
<1>7. ASSUME cfgAt = "check", "check_defconfig_minimized" \notin cfgIn.env PROVE IntermediateOK
  <2>1. CASE cfgIn.minimized
    <3>1. Fetched = v
      BY <1>1, <1>2, <1>3, <1>6, ConfiguredAgain DEF Fetched, kc
    <3> QED BY <1>2, <1>7, <2>1, <3>1 DEF IntermediateOK, d, kc
  <2>2. CASE ~cfgIn.minimized
    <3>1. ASSUME NEW k \in KeysIn(d) PROVE Holds(dotConfig, LastOf(d, k))
      <4>1. k \in Option
        BY <1>4, KeysTyped
      <4>2. ValueIn(dotConfig, k) = v[k]
        BY <1>3, <1>4, <1>6, <4>1, DotConfigFacts
      <4> QED BY <1>4, <4>2 DEF Holds, OptionLine
    <3>2. MergeConfig(d, <<>>) = d
      BY <1>4, MergeFew
    <3>3. CheckPasses(dotConfig, d, <<>>, <<>>)
      BY <1>4, <3>1, <3>2, CheckBefore, NoFragments
    <3> QED BY <1>2, <2>2, <3>3 DEF IntermediateOK
  <2> QED BY <2>1, <2>2
<1> QED BY <1>6, <1>7 DEF v

\* What a developer changed in a menu is what the next build has before post fragments.
LEMMA ChangedKept ==
    ASSUME CfgInv, cfgRun = "build", menuConfig # <<>>, cfgAt = "post", NEW k \in Changed
    PROVE  ValueIn(midConfig, k) = menuConfig[2][k]
<1> DEFINE v == menuConfig[2]
<1>1. v \in [Option -> Values] /\ v[k] # "absent" /\ k \in Option
  BY DEF CfgInv, MenuIs, IsConfigured, Changed
<1>2. CASE cfgIn.pre = <<>>
  <2>1. midConfig = DotConfig(v)
    BY <1>2, SavedBuild
  <2> HIDE DEF v
  <2>2. ValueIn(midConfig, k) = v[k]
    BY <1>1, <2>1, DotConfigFacts
  <2> QED BY <2>2 DEF v
<1>3. CASE cfgIn.pre # <<>>
  <2> DEFINE u == cfgIn.pre[1]
  <2>1. cfgIn.base \in Seq(Lines) /\ cfgIn.pre \in Fragments /\ Asked \in Seq(Lines)
    BY CfgInTypes DEF CfgInv
  <2>2. Len(cfgIn.pre) = 1 /\ k \in KeysIn(u) /\ LastOf(u, k) = OptionLine(k, v[k], FALSE)
    BY <1>3 DEF CfgInv, MenuIs
  <2>3. cfgIn.pre = <<u>> /\ u \in Seq(Lines)
    BY <2>1, <2>2, ElementOfSeq DEF Fragments
  <2> HIDE DEF u, v
  <2>4. Asked = MergeOne(cfgIn.base, u)
    BY <2>1, <2>3, MergeFew DEF Asked
  <2>5. k \in KeysIn(Asked) /\ LastOf(Asked, k) = OptionLine(k, v[k], FALSE)
    <3>1. k \in KeysIn(MergeOne(cfgIn.base, u)) /\ LastOf(MergeOne(cfgIn.base, u), k) = LastOf(u, k)
      BY <2>1, <2>2, <2>3, MergeOneFacts
    <3> QED BY <2>2, <2>4, <3>1
  <2>6. IsFile
    BY <1>3 DEF CfgInv, Phases, Misused
  <2>7. Holds(midConfig, LastOf(Asked, k))
    BY <2>5, <2>6 DEF CfgInv, Checks
  <2> QED BY <2>5, <2>7 DEF Holds, OptionLine, v
<1> QED BY <1>2, <1>3

\* What a developer chose in a menu is what the next build has before post fragments.
THEOREM MenuIsKept == CfgSpec => []ChoiceKept
<1>1. CfgInv => ChoiceKept
  BY SavedBuild, ChangedKept DEF ChoiceKept, Changed
<1> QED BY <1>1, CfgInvariant, PTL

-----------------------------------------------------------------------------
(* What two modules of which one depends on the other have in common *)

\* The defconfigs of modules that come after those that every module has.
Late(m, k) == {f \in FilesBelow(m) \ ToSet(cfgIn.extra) : k \in KeysIn(f.lines)}
EarlyFragments == [i \in DOMAIN cfgIn.extra |-> cfgIn.extra[i].lines]
EarlyMerged == MergeConfig(dotConfig, EarlyFragments)

\* The fragments of a module: those that every module has, then some of the modules'.
IsAfter(m) ==
    LET F == DdkFragments(m)
        E == EarlyFragments
        e == Len(E)
        n == Len(F)
    IN  /\ e \in Nat /\ n \in Nat /\ e <= n
        /\ \A i \in 1 .. e : F[i] = E[i]
        /\ \A i \in (e + 1) .. n :
              \E f \in FilesBelow(m) \ ToSet(cfgIn.extra) : F[i] = f.lines
        /\ \A f \in FilesBelow(m) \ ToSet(cfgIn.extra) : \E i \in (e + 1) .. n : F[i] = f.lines
        /\ Merged(DdkMerged(m), dotConfig, F, n) /\ Merged(EarlyMerged, dotConfig, E, e)

\* What modules add comes after the fragments that every module has.
LEMMA AfterIs ==
    ASSUME CfgInv, NEW m \in Numbers
    PROVE  IsAfter(m)
<1> DEFINE F == DdkFragments(m)
           E == EarlyFragments
           w == Defconfigs[m]
           x == cfgIn.extra
           e == Len(x)
           n == Len(w)
           S == FilesBelow(m)
<1>1. CfgTypes /\ x \in Seq(Files) /\ dotConfig \in Seq(Lines)
  BY ModuleTypes DEF CfgInv, CfgTypes
<1>2. w \in Seq(Files) /\ Grown(w, x, S)
  BY <1>1, DefconfigsFacts DEF FilesAre
<1>3. /\ F \in Fragments /\ Len(F) = n /\ F = [i \in DOMAIN w |-> w[i].lines]
      /\ E \in Fragments /\ Len(E) = e /\ E = [i \in DOMAIN x |-> x[i].lines]
  BY <1>1, <1>2, TextIn DEF DdkFragments, EarlyFragments
<1>4. Merged(DdkMerged(m), dotConfig, F, Len(F)) /\ Merged(EarlyMerged, dotConfig, E, Len(E))
  BY <1>1, <1>3, MergeFacts DEF DdkMerged, EarlyMerged
<1>5. /\ DOMAIN w = 1 .. n /\ DOMAIN x = 1 .. e /\ n \in Nat /\ e \in Nat
  BY <1>1, <1>2
<1>6. /\ e <= n /\ \A i \in 1 .. e : w[i] = x[i]
      /\ \A i \in (e + 1) .. n : w[i] \in S \ ToSet(x)
      /\ ToSet(w) = ToSet(x) \cup S
  BY <1>2 DEF Grown
<1> HIDE DEF F, E, w, x, e, n, S
<1>7. /\ \A i \in 1 .. e : i \in 1 .. n
      /\ \A i \in (e + 1) .. n : i \in 1 .. n
      /\ \A i \in 1 .. n : i \in 1 .. e \/ i \in (e + 1) .. n
  BY <1>5, <1>6
<1>8. /\ \A i \in 1 .. n : F[i] = w[i].lines
      /\ \A i \in 1 .. e : E[i] = x[i].lines
  BY <1>3, <1>5
<1>9. ASSUME NEW f \in S \ ToSet(x) PROVE \E i \in (e + 1) .. n : F[i] = f.lines
  <2>1. PICK i \in 1 .. n : w[i] = f
    <3>1. f \in ToSet(w)
      BY <1>6
    <3> QED BY <1>5, <3>1 DEF ToSet
  <2>2. i \notin 1 .. e
    BY <1>5, <1>6, <2>1 DEF ToSet
  <2> QED BY <1>7, <1>8, <2>1, <2>2
<1>10. \A i \in 1 .. e : F[i] = E[i]
  BY <1>6, <1>7, <1>8
<1>11. \A i \in (e + 1) .. n : \E f \in S \ ToSet(x) : F[i] = f.lines
  BY <1>6, <1>7, <1>8
<1>12. Len(F) = n /\ Len(E) = e
  BY <1>3
<1> QED BY <1>4, <1>5, <1>6, <1>9, <1>10, <1>11, <1>12 DEF IsAfter, F, E, S, x

\* An option that no module's own defconfig sets has the lines that it has without modules.
LEMMA EarlyLines ==
    ASSUME NEW m, NEW k, IsAfter(m), Late(m, k) = {}
    PROVE  /\ k \in KeysIn(DdkMerged(m)) <=> k \in KeysIn(EarlyMerged)
           /\ k \in KeysIn(EarlyMerged) => LastOf(DdkMerged(m), k) = LastOf(EarlyMerged, k)
<1> DEFINE F == DdkFragments(m)
           E == EarlyFragments
           e == Len(E)
           n == Len(F)
           M == DdkMerged(m)
           B == EarlyMerged
<1>1. /\ e \in Nat /\ n \in Nat /\ e <= n
      /\ \A i \in 1 .. e : F[i] = E[i]
      /\ \A i \in (e + 1) .. n : k \notin KeysIn(F[i])
      /\ Merged(M, dotConfig, F, n) /\ Merged(B, dotConfig, E, e)
  <2>1. \A i \in (e + 1) .. n : k \notin KeysIn(F[i])
    BY DEF IsAfter, Late
  <2> QED BY <2>1 DEF IsAfter
<1> HIDE DEF F, E, e, n, M, B
<1>2. \A i \in 1 .. n : i \in 1 .. e \/ i \in (e + 1) .. n
  BY <1>1
<1>3. \A i \in 1 .. e : i \in 1 .. n
  BY <1>1
<1>4. k \in KeysIn(B) => k \in KeysIn(M)
  BY <1>1, <1>3 DEF Merged
<1>5. ASSUME k \in KeysIn(M) PROVE k \in KeysIn(B) /\ LastOf(M, k) = LastOf(B, k)
  <2>1. CASE /\ k \in KeysIn(dotConfig) /\ LastOf(M, k) = LastOf(dotConfig, k)
             /\ \A i \in 1 .. n : k \notin KeysIn(F[i])
    <3>1. k \in KeysIn(B) /\ \A i \in 1 .. e : k \notin KeysIn(E[i])
      BY <1>1, <1>3, <2>1 DEF Merged
    <3>2. LastOf(B, k) = LastOf(dotConfig, k)
      BY <1>1, <3>1 DEF Merged
    <3> QED BY <2>1, <3>1, <3>2
  <2>2. CASE \E i \in 1 .. n : /\ k \in KeysIn(F[i]) /\ LastOf(M, k) = LastOf(F[i], k)
                               /\ \A j \in (i + 1) .. n : k \notin KeysIn(F[j])
    <3>1. PICK i \in 1 .. n : /\ k \in KeysIn(F[i]) /\ LastOf(M, k) = LastOf(F[i], k)
                              /\ \A j \in (i + 1) .. n : k \notin KeysIn(F[j])
      BY <2>2
    <3>2. i \in 1 .. e /\ k \in KeysIn(E[i])
      BY <1>1, <1>2, <3>1
    <3>3. k \in KeysIn(B)
      BY <1>1, <3>2 DEF Merged
    <3>4. PICK j \in 1 .. e : /\ k \in KeysIn(E[j]) /\ LastOf(B, k) = LastOf(E[j], k)
                              /\ \A h \in (j + 1) .. e : k \notin KeysIn(E[h])
      BY <1>1, <3>2, <3>3 DEF Merged
    <3>5. j \notin (i + 1) .. n /\ i \notin (j + 1) .. e
      BY <1>1, <1>3, <3>1, <3>2, <3>4
    <3>6. i = j
      BY <1>1, <3>2, <3>4, <3>5
    <3> QED BY <1>1, <3>1, <3>2, <3>3, <3>4, <3>6
  <2> QED BY <1>1, <1>5, <2>1, <2>2 DEF Merged
<1> QED BY <1>4, <1>5 DEF M, B

\* If one of them sets an option, its line is the last.
LEMMA LateLines ==
    ASSUME NEW m, NEW k, IsAfter(m), NEW f, Late(m, k) = {f}
    PROVE  k \in KeysIn(DdkMerged(m)) /\ LastOf(DdkMerged(m), k) = LastOf(f.lines, k)
<1> DEFINE F == DdkFragments(m)
           E == EarlyFragments
           e == Len(E)
           n == Len(F)
           M == DdkMerged(m)
<1>1. e \in Nat /\ n \in Nat /\ e <= n /\ Merged(M, dotConfig, F, n)
  BY DEF IsAfter
<1>2. \A i \in (e + 1) .. n : k \in KeysIn(F[i]) => F[i] = f.lines
  <2>1. ASSUME NEW i \in (e + 1) .. n, k \in KeysIn(F[i]) PROVE F[i] = f.lines
    <3>1. PICK g \in FilesBelow(m) \ ToSet(cfgIn.extra) : F[i] = g.lines
      BY DEF IsAfter
    <3>2. g \in Late(m, k)
      BY <2>1, <3>1 DEF Late
    <3> QED BY <3>1, <3>2
  <2> QED BY <2>1
<1>3. PICK p \in (e + 1) .. n : F[p] = f.lines /\ k \in KeysIn(F[p])
  <2>1. f \in FilesBelow(m) \ ToSet(cfgIn.extra) /\ k \in KeysIn(f.lines)
    BY DEF Late
  <2> QED BY <2>1 DEF IsAfter
<1> HIDE DEF F, E, e, n, M
<1>4. p \in 1 .. n
  BY <1>1
<1>5. k \in KeysIn(M)
  BY <1>1, <1>3, <1>4 DEF Merged
<1>6. PICK i \in 1 .. n : /\ k \in KeysIn(F[i]) /\ LastOf(M, k) = LastOf(F[i], k)
                          /\ \A j \in (i + 1) .. n : k \notin KeysIn(F[j])
  BY <1>1, <1>3, <1>4, <1>5 DEF Merged
<1>7. i \in (e + 1) .. n
  <2>1. p \notin (i + 1) .. n
    BY <1>3, <1>6
  <2> QED BY <1>1, <2>1
<1> QED BY <1>2, <1>5, <1>6, <1>7 DEF M

\* Self-contained modules: what one that is known to both says of an option.
LEMMA SameLate ==
    ASSUME CfgInv, \A e \in Numbers : SelfContained(e), NEW m \in Numbers,
           NEW d \in Dependencies[m], NEW k \in Knows(d)
    PROVE  /\ d \in Numbers /\ Late(d, k) = Late(m, k)
           /\ Late(m, k) = {} \/ \E f : Late(m, k) = {f}
<1>1. CfgTypes /\ DOMAIN cfgIn.modules = Numbers
  BY ModuleTypes DEF CfgInv
<1>2. Dependencies[m] \subseteq Numbers /\ Dependencies[d] \subseteq Dependencies[m] /\ d \in Numbers
  BY <1>1, DependenciesFacts
<1>3. \A e \in Numbers : \A f \in ToSet(cfgIn.modules[e].defconfig) :
         KeysIn(f.lines) \subseteq cfgIn.modules[e].kconfig
  BY DEF SelfContained
<1>4. \A e \in Numbers : cfgIn.modules[e].kconfig \cap cfgIn.kconfig.declared = {}
  BY DEF SelfContained
<1>5. \A e, g \in Numbers :
         e # g => cfgIn.modules[e].kconfig \cap cfgIn.modules[g].kconfig = {}
  BY <1>1 DEF SelfContained
<1>6. ASSUME NEW f \in Late(m, k)
      PROVE  /\ f \in Late(d, k)
             /\ \E e \in Dependencies[m] : /\ f \in ToSet(cfgIn.modules[e].defconfig)
                                           /\ k \in cfgIn.modules[e].kconfig
  <2>1. PICK e \in Dependencies[m] : f \in ToSet(cfgIn.modules[e].defconfig)
    BY DEF Late, FilesBelow
  <2>2. k \in KeysIn(f.lines) /\ f \notin ToSet(cfgIn.extra)
    BY DEF Late
  <2>3. k \in cfgIn.modules[e].kconfig
    BY <1>2, <1>3, <2>1, <2>2
  <2>4. PICK g \in Dependencies[d] : k \in cfgIn.modules[g].kconfig
    BY <1>2, <1>4, <2>1, <2>3 DEF Knows
  <2>5. e = g
    BY <1>2, <1>5, <2>1, <2>3, <2>4
  <2>6. f \in Late(d, k)
    BY <2>1, <2>2, <2>4, <2>5 DEF Late, FilesBelow
  <2> QED BY <2>1, <2>3, <2>6
<1>7. Late(d, k) \subseteq Late(m, k)
  BY <1>2 DEF Late, FilesBelow
<1>8. ASSUME NEW f \in Late(m, k), NEW g \in Late(m, k) PROVE f = g
  <2>1. PICK e \in Dependencies[m] : /\ f \in ToSet(cfgIn.modules[e].defconfig)
                                     /\ k \in cfgIn.modules[e].kconfig
    BY <1>6
  <2>2. PICK h \in Dependencies[m] : /\ g \in ToSet(cfgIn.modules[h].defconfig)
                                     /\ k \in cfgIn.modules[h].kconfig
    BY <1>6
  <2>3. h = e
    BY <1>2, <1>5, <2>1, <2>2
  <2> DEFINE s == cfgIn.modules[e].defconfig
  <2>4. s \in Seq(Files) /\ Len(s) <= 1 /\ Len(s) \in Nat /\ DOMAIN s = 1 .. Len(s)
    <3>1. e \in Numbers
      BY <1>2
    <3>2. s \in Seq(Files) /\ Len(s) <= 1
      BY <1>1, <3>1, ModuleTypes
    <3> HIDE DEF s
    <3> QED BY <3>2
  <2>5. f \in ToSet(s) /\ g \in ToSet(s)
    BY <2>1, <2>2, <2>3
  <2> HIDE DEF s
  <2>6. \A i, j \in 1 .. Len(s) : i = j
    BY <2>4
  <2> QED BY <2>4, <2>5, <2>6 DEF ToSet
<1>9. Late(d, k) = Late(m, k)
  BY <1>6, <1>7
<1>10. Late(m, k) = {} \/ \E f : Late(m, k) = {f}
  <2> DEFINE L == Late(m, k)
  <2> HIDE DEF L
  <2>1. \A f, g \in L : f = g
    BY <1>8 DEF L
  <2>2. L = {} \/ \E f : L = {f}
    BY <2>1
  <2> QED BY <2>2 DEF L
<1> QED BY <1>2, <1>9, <1>10

\* Self-contained modules agree on the options that both know.
LEMMA SameValues ==
    ASSUME CfgInv, KernelContained, \A e \in Numbers : SelfContained(e), NEW m \in Numbers,
           NEW d \in Dependencies[m]
    PROVE  d \in Numbers /\ \A k \in Option \cap Knows(d) : DdkValue(d)[k] = DdkValue(m)[k]
<1> DEFINE v == DdkValue(m)
           u == DdkValue(d)
           M == DdkMerged(m)
           D == DdkMerged(d)
           kc == cfgIn.kconfig
           K == Knows(d)
           T == {i \in 0 .. Options : \A k \in 1 .. i : k \in K => u[k] = v[k]}
<1>1. CfgTypes /\ kc \in Kconfigs /\ DOMAIN cfgIn.modules = Numbers
  BY CfgInTypes, ModuleTypes DEF CfgInv
<1>2. d \in Numbers /\ Dependencies[d] \subseteq Dependencies[m] /\ Dependencies[m] \subseteq Numbers
      /\ \A e \in Dependencies[d] : Dependencies[e] \subseteq Dependencies[d]
  BY <1>1, DependenciesFacts
<1>3. /\ Options \in Nat /\ Option = 1 .. Options
  BY KernelConfigAssumption DEF Option
<1>4. ASSUME NEW x \in Numbers
      PROVE  /\ IsConfigured(DdkValue(x), KconfigOf(x), DdkMerged(x))
             /\ KconfigOf(x) \in Kconfigs /\ KconfigOf(x).declared = Knows(x)
             /\ KconfigOf(x).needs = kc.needs /\ KconfigOf(x).follows = kc.follows
             /\ DdkMerged(x) \in Seq(Lines)
  <2>1. KconfigOf(x) \in Kconfigs /\ DdkMerged(x) \in Seq(Lines)
    BY DdkTypes
  <2>2. IsConfigured(DdkValue(x), KconfigOf(x), DdkMerged(x))
    BY <2>1, ConfiguredFacts DEF DdkValue
  <2>3. /\ KconfigOf(x).declared = Knows(x)
        /\ KconfigOf(x).needs = kc.needs /\ KconfigOf(x).follows = kc.follows
    BY <1>1 DEF KconfigOf, Knows, Kconfigs
  <2> QED BY <2>1, <2>2, <2>3
<1>5. K \subseteq Knows(m)
  BY <1>2 DEF Knows
<1>6. ASSUME NEW k \in K
      PROVE  /\ k \in KeysIn(M) <=> k \in KeysIn(D)
             /\ k \in KeysIn(D) => LastOf(M, k) = LastOf(D, k)
  <2>1. /\ Late(d, k) = Late(m, k)
        /\ Late(m, k) = {} \/ \E f : Late(m, k) = {f}
    BY SameLate
  <2>2. IsAfter(m) /\ IsAfter(d)
    BY <1>2, AfterIs
  <2>3. CASE Late(m, k) = {}
    BY <2>1, <2>2, <2>3, EarlyLines
  <2>4. CASE \E f : Late(m, k) = {f}
    <3>1. PICK f : Late(m, k) = {f} /\ Late(d, k) = {f}
      BY <2>1, <2>4
    <3> HIDE DEF M, D, K
    <3>2. \A x \in {m, d} : k \in KeysIn(DdkMerged(x)) /\ LastOf(DdkMerged(x), k) = LastOf(f.lines, k)
      BY <1>2, <2>2, <3>1, LateLines
    <3> QED BY <3>2 DEF M, D
  <2> QED BY <2>1, <2>3, <2>4
<1>7. ASSUME NEW k \in K \cap Option, NEW j \in {kc.needs[k], kc.follows[k]}, j # 0
      PROVE  j \in K /\ j \in 1 .. (k - 1)
  <2>1. j \in 1 .. (k - 1)
    BY <1>1, <1>7, EarlierFacts
  <2>2. CASE k \in kc.declared
    <3>1. j \in kc.declared
      BY <1>7, <2>2 DEF KernelContained
    <3> QED BY <2>1, <3>1 DEF Knows
  <2>3. CASE \E e \in Dependencies[d] : k \in cfgIn.modules[e].kconfig
    <3>1. PICK e \in Dependencies[d] : k \in cfgIn.modules[e].kconfig
      BY <2>3
    <3>2. j \in Knows(e)
      BY <1>2, <1>7, <3>1 DEF SelfContained
    <3>3. Knows(e) \subseteq K
      BY <1>2, <3>1 DEF Knows
    <3> QED BY <2>1, <3>2, <3>3
  <2> QED BY <2>2, <2>3 DEF Knows
<1>8. IsConfigured(v, KconfigOf(m), M) /\ IsConfigured(u, KconfigOf(d), D)
  BY <1>2, <1>4
<1>9. 0 \in T
  BY <1>3
<1>10. ASSUME NEW i \in 0 .. (Options - 1), i \in T PROVE i + 1 \in T
  <2> DEFINE k == i + 1
  <2>1. k \in Option /\ k \in 0 .. Options /\ k - 1 = i /\ \A j \in 1 .. k : j = k \/ j \in 1 .. i
    BY <1>3
  <2>2. \A j \in 1 .. i : j \in K => u[j] = v[j]
    BY <1>10
  <2> HIDE DEF k, v, u, M, D, K
  <2>3. ASSUME k \in K PROVE u[k] = v[k]
    <3>1. /\ kc.needs[k] # 0 => u[kc.needs[k]] = v[kc.needs[k]]
          /\ kc.follows[k] # 0 => u[kc.follows[k]] = v[kc.follows[k]]
      BY <1>7, <2>1, <2>2, <2>3
    <3>2. /\ v[k] = ValueOf([kconfig |-> KconfigOf(m), lines |-> M], v, k)
          /\ u[k] = ValueOf([kconfig |-> KconfigOf(d), lines |-> D], u, k)
      BY <1>8, <2>1 DEF IsConfigured
    <3>3. k \in KconfigOf(m).declared /\ k \in KconfigOf(d).declared
      BY <1>2, <1>4, <1>5, <2>3 DEF K
    <3>4. Visible(KconfigOf(m), v, k) <=> Visible(KconfigOf(d), u, k)
      BY <1>2, <1>4, <3>1, <3>3 DEF Visible
    <3>5. DefaultOf(KconfigOf(m), v, k) = DefaultOf(KconfigOf(d), u, k)
      BY <1>2, <1>4, <3>1 DEF DefaultOf
    <3>6. ValueOf([kconfig |-> KconfigOf(m), lines |-> M], v, k)
             = ValueOf([kconfig |-> KconfigOf(d), lines |-> D], u, k)
      <4> DEFINE p == [kconfig |-> KconfigOf(m), lines |-> M]
                 q == [kconfig |-> KconfigOf(d), lines |-> D]
      <4>1. p.kconfig = KconfigOf(m) /\ p.lines = M /\ q.kconfig = KconfigOf(d) /\ q.lines = D
        OBVIOUS
      <4> HIDE DEF p, q
      <4>2. ValueOf(p, v, k) = ValueOf(q, u, k)
        BY <1>6, <2>3, <3>4, <3>5, <4>1 DEF ValueOf
      <4> QED BY <4>2 DEF p, q
    <3> QED BY <3>2, <3>6
  <2> QED BY <2>1, <2>2, <2>3 DEF k
<1>11. Options \in T
  <2> HIDE DEF T
  <2>1. 0 .. Options \subseteq T
    BY <1>3, <1>9, <1>10, AnyFold!UpTo
  <2> QED BY <1>3, <2>1
<1> QED BY <1>2, <1>3, <1>11

\* Modules that are self-contained and depend on one another are built with the same
\* values of the options that both know.
THEOREM ModulesAgree == CfgSpec => []DependantsAgree
<1>1. CfgInv /\ DdkIs => DependantsAgree
  <2> SUFFICES ASSUME CfgInv, DdkIs, KernelContained, \A m \in DOMAIN ddkConfig : SelfContained(m),
                      NEW m \in DOMAIN ddkConfig, NEW d \in Dependencies[m],
                      ddkConfig[m].at = "done", ddkConfig[d].at = "done"
               PROVE  Without(ddkConfig[m].config, Option \ Knows(d))
                         = Without(ddkConfig[d].config, Option \ Knows(d))
    BY DEF DependantsAgree
  <2>1. DOMAIN ddkConfig = Numbers
    BY ModuleTypes DEF CfgInv, CfgTypes
  <2>2. d \in Numbers /\ \A k \in Option \cap Knows(d) : DdkValue(d)[k] = DdkValue(m)[k]
    BY <2>1, SameValues
  <2>3. /\ ddkConfig[m].config = DotConfig(DdkValue(m))
        /\ ddkConfig[d].config = DotConfig(DdkValue(d))
    BY <2>1, <2>2 DEF DdkIs
  <2>4. DdkValue(m) \in [Option -> Values] /\ DdkValue(d) \in [Option -> Values]
    BY <2>1, <2>2, DdkTypes
  <2> DEFINE v == DdkValue(m)
             u == DdkValue(d)
             K == Knows(d)
  <2> HIDE DEF v, u, K
  <2>5. Without(DotConfig(v), Option \ K) = Without(DotConfig(u), Option \ K)
    BY <2>2, <2>4, SameSeen DEF v, u, K
  <2> QED BY <2>3, <2>5 DEF v, u, K
<1> QED BY <1>1, CfgInvariant, PTL
=============================================================================
