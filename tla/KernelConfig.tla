---------------------------- MODULE KernelConfig ----------------------------
(***************************************************************************)
(* How a kernel gets its .config (kernel_config.bzl, config_utils.bzl,       *)
(* check_config.py), how `bazel run X_config` writes what a developer chose   *)
(* back to the source tree, and the .config of a DDK module                 *)
(* (ddk_config.bzl, ddk_config_subrule.bzl).                                *)
(*                                                                         *)
(* Each action is a step of the script that a rule runs.  A file is a        *)
(* sequence of lines.  Options are numbered in the order of the Kconfig      *)
(* files; one is "y" or "n", or absent from a .config that may not have it.   *)
(***************************************************************************)
EXTENDS Naturals, Sequences, SequencesExt

CONSTANTS
    Options,            \* options are numbered 1 .. Options
    Purpose,            \* what a configuration is run for
    ConfigRequest(_)    \* ConfigRequest(p): what the rules may be given for it

Option == 1 .. Options
OptionLine(k, v, nocheck) == [key |-> k, val |-> v, nocheck |-> nocheck]
Remarks == OptionLine(0, "comment", FALSE)
BadLine == OptionLine(0, "junk", FALSE)

\* What a rule may be given.  An option needs, and follows, options before it; a module
\* depends on modules before it, and has a defconfig of its own or none.
OptionLines == [key : Option, val : {"y", "n"}, nocheck : BOOLEAN]
Lines == OptionLines \cup {Remarks, BadLine}
Files == [id : STRING, lines : Seq(Lines)]
Earlier == {f \in [Option -> 0 .. Options] : \A k \in Option : f[k] < k}
ConfigRequests ==
    [run : {"menu", "build"}, defconfig : {"file", "phony", "none"}, minimized : BOOLEAN,
     env : SUBSET STRING, base : Seq(Lines), pre : Seq(Seq(Lines)), post : Seq(Seq(Lines)),
     flags : Seq(OptionLines), extra : Seq(Files),
     modules : Seq([deps : Seq(Nat), kconfig : SUBSET Option, defconfig : Seq(Files)]),
     kconfig : [declared : SUBSET Option, needs : Earlier, follows : Earlier]]

ASSUME KernelConfigAssumption ==
    /\ Options \in Nat
    /\ \A p \in Purpose : \A r \in ConfigRequest(p) :
          /\ r \in ConfigRequests
          /\ \A m \in DOMAIN r.modules : /\ ToSet(r.modules[m].deps) \subseteq 1 .. (m - 1)
                                         /\ Len(r.modules[m].defconfig) <= 1

VARIABLES
    cfgIn,          \* the attributes of the rule, the flags, and the files they name
    cfgRun,         \* "menu" for `bazel run`, then "build"
    cfgAt,          \* the next step of the script, or how it ended
    outDefconfig,   \* the defconfig in $OUT_DIR
    dotConfig,      \* $OUT_DIR/.config
    midConfig,      \* history: the .config that `make defconfig` wrote
    menuConfig,     \* history: the .config before and after the menu
    ddkConfig       \* what the configuration of each DDK module came to

cfgVars == <<cfgIn, cfgRun, cfgAt, outDefconfig, dotConfig, midConfig, menuConfig, ddkConfig>>

LastOf(lines, k) == lines[SelectLastInSeq(lines, LAMBDA l : l.key = k)]
KeysIn(lines) == {l.key : l \in ToSet(lines)} \ {0}

KeepOther(ks, kept, l) == IF l.key \in ks THEN kept ELSE Append(kept, l)
Without(lines, ks) == FoldLeft(LAMBDA kept, l : KeepOther(ks, kept, l), <<>>, lines)

-----------------------------------------------------------------------------
(* The kernel's own tools.  kconfig records which options are declared, the   *)
(* one that an option depends on and the one whose value is its default.      *)

DefaultOf(kconfig, val, k) ==
    IF kconfig.follows[k] = 0 \/ val[kconfig.follows[k]] = "absent" THEN "n"
    ELSE val[kconfig.follows[k]]

Visible(kconfig, val, k) ==
    k \in kconfig.declared /\ (kconfig.needs[k] # 0 => val[kconfig.needs[k]] = "y")

\* make ..._defconfig and make olddefconfig: the last line of an option counts, one that
\* is not declared or whose dependency is not met is dropped without a word.
Configured(kconfig, lines) ==
    LET val[k \in Option] ==
            IF ~Visible(kconfig, val, k) THEN "absent"
            ELSE IF k \in KeysIn(lines) THEN LastOf(lines, k).val
            ELSE DefaultOf(kconfig, val, k)
    IN  val

List(val, ks, lines, k) == IF k \in ks THEN Append(lines, OptionLine(k, val[k], FALSE)) ELSE lines
Listing(val, ks) == FoldLeft(LAMBDA lines, k : List(val, ks, lines, k), <<>>, [k \in Option |-> k])
DotConfig(val) == Listing(val, {k \in Option : val[k] # "absent"})

\* make savedefconfig keeps what is not the default.
SavedDefconfig(kconfig, val) ==
    Listing(val, {k \in Option : val[k] \notin {"absent", DefaultOf(kconfig, val, k)}})

\* scripts/diffconfig -m does not print options that are gone.
DiffConfig(old, new) == Listing(new, {k \in Option : new[k] \notin {"absent", old[k]}})

\* merge_config.sh -m: a fragment takes the place of all earlier lines of its options.
MergeOne(lines, f) == Without(lines, KeysIn(f)) \o f
MergeConfig(base, fragments) == FoldLeft(MergeOne, base, fragments)

-----------------------------------------------------------------------------
(* check_config.py *)

\* _parse_config: `=n` and `is not set` are the same; a line that is neither an option
\* nor a comment raises ValueError.
ParseConfig(lines) == [k \in KeysIn(lines) |-> LastOf(lines, k)]
Unreadable(files) == \E f \in ToSet(files) : BadLine \in ToSet(f)

\* Mutant: the first fragment that speaks of an option counts.
MergeEarlierFirst(defconfig, pre, post) ==
    LET before == FoldLeft(LAMBDA m, f : m @@ ParseConfig(f), <<>>, <<defconfig>> \o pre)
        after == UNION {Range(ParseConfig(f)) : f \in ToSet(post)}
    IN  {l \in Range(before) : \A r \in after : r.key # l.key} \cup after

\* Mutant: post fragments override one another as well.
MergeAllOverride(defconfig, pre, post) ==
    Range(FoldLeft(LAMBDA m, f : ParseConfig(f) @@ m, <<>>, <<defconfig>> \o pre \o post))

\* ParsedConfig.update
ParseOver(m, f) ==
    [k \in DOMAIN m \cup KeysIn(f) |-> IF k \in KeysIn(f) THEN ParseConfig(f)[k] ELSE m[k]]

\* _merge_defconfig: later files before `make defconfig` override earlier ones; every
\* requirement of the fragments after it is kept.
MergeDefconfig(defconfig, pre, post) ==
    LET before == FoldLeft(ParseOver, <<>>, <<defconfig>> \o pre)
        after == UNION {Range(ParseConfig(f)) : f \in ToSet(post)}
    IN  {l \in Range(before) : \A r \in after : r.key # l.key} \cup after

\* _check: a missing option has the value of one that is not set.
CheckPasses(actual, defconfig, pre, post) ==
    /\ ~Unreadable(<<defconfig>> \o pre \o post)
    /\ \A l \in MergeDefconfig(defconfig, pre, post) :
          l.nocheck \/ l.val = IF l.key \in KeysIn(actual) THEN LastOf(actual, l.key).val
                               ELSE "n"

-----------------------------------------------------------------------------
(* The build of X_config *)

CfgInit ==
    /\ \E p \in Purpose : cfgIn \in ConfigRequest(p)
    /\ cfgRun = cfgIn.run /\ cfgAt = "setup"
    /\ outDefconfig = <<>> /\ dotConfig = <<>> /\ midConfig = <<>> /\ menuConfig = <<>>
    /\ ddkConfig = [m \in DOMAIN cfgIn.modules |-> [at |-> "none", config |-> <<>>]]

IsFile == cfgIn.defconfig = "file"

\* What fails when the rule is analysed, before any script runs.
Misused ==
    \/ cfgIn.pre # <<>> /\ ~IsFile
    \/ cfgIn.minimized /\ (~IsFile \/ cfgIn.pre # <<>>)

\* DEFCONFIG must come from the rule or from the build config, not from both.
SetUpDefconfig ==
    /\ cfgAt = "setup"
    /\ IF \/ Misused
          \/ cfgIn.defconfig # "none" /\ "DEFCONFIG" \in cfgIn.env
          \/ IsFile /\ "in_tree" \in cfgIn.env
       THEN cfgAt' = "refused" /\ UNCHANGED outDefconfig
       ELSE cfgAt' = "pre" /\ outDefconfig' = cfgIn.base
    /\ UNCHANGED <<cfgIn, cfgRun, dotConfig, midConfig, menuConfig, ddkConfig>>

PreDefconfig ==
    /\ cfgAt = "pre"
    /\ IF cfgIn.pre # <<>> /\ "PRE_DEFCONFIG_CMDS" \in cfgIn.env
       THEN cfgAt' = "refused" /\ UNCHANGED outDefconfig
       ELSE cfgAt' = "make" /\ outDefconfig' = MergeConfig(outDefconfig, cfgIn.pre)
    /\ UNCHANGED <<cfgIn, cfgRun, dotConfig, midConfig, menuConfig, ddkConfig>>

\* Without a defconfig from either side make has no goal that writes .config.
MakeDefconfig ==
    /\ cfgAt = "make"
    /\ IF cfgIn.defconfig = "none" /\ "DEFCONFIG" \notin cfgIn.env
       THEN cfgAt' = "refused" /\ UNCHANGED <<dotConfig, midConfig>>
       ELSE /\ cfgAt' = (IF cfgRun = "menu" THEN "menu" ELSE "check")
            /\ dotConfig' = DotConfig(Configured(cfgIn.kconfig, outDefconfig))
            /\ midConfig' = dotConfig'
    /\ UNCHANGED <<cfgIn, cfgRun, outDefconfig, menuConfig, ddkConfig>>

Fetched == Configured(cfgIn.kconfig, dotConfig)

\* check_defconfig_minimized compares the text of the file with what savedefconfig
\* writes, and replaces the check of .config against defconfig and pre fragments.
IntermediateOK ==
    IF cfgIn.minimized
    THEN /\ "check_defconfig_minimized" \notin cfgIn.env
         /\ SavedDefconfig(cfgIn.kconfig, Fetched) = cfgIn.base
    ELSE IsFile => CheckPasses(dotConfig, cfgIn.base, cfgIn.pre, <<>>)

CheckIntermediate ==
    /\ cfgAt = "check"
    /\ cfgAt' = (IF IntermediateOK THEN "post" ELSE "mismatch")
    /\ UNCHANGED <<cfgIn, cfgRun, outDefconfig, dotConfig, midConfig, menuConfig, ddkConfig>>

\* _reconfig: scripts/config for --lto, trimming, keys and --kgdb, then the post fragments,
\* then olddefconfig if there was anything.
ScriptsConfig ==
    /\ cfgAt = "post" /\ cfgAt' = "merge"
    /\ dotConfig' = MergeConfig(dotConfig, [i \in DOMAIN cfgIn.flags |-> <<cfgIn.flags[i]>>])
    /\ UNCHANGED <<cfgIn, cfgRun, outDefconfig, midConfig, menuConfig, ddkConfig>>

MergePost ==
    /\ cfgAt = "merge"
    /\ cfgAt' = (IF cfgIn.flags \o cfgIn.post = <<>> THEN "final" ELSE "olddefconfig")
    /\ dotConfig' = MergeConfig(dotConfig, cfgIn.post)
    /\ UNCHANGED <<cfgIn, cfgRun, outDefconfig, midConfig, menuConfig, ddkConfig>>

OldDefconfig ==
    /\ cfgAt = "olddefconfig" /\ cfgAt' = "final"
    /\ dotConfig' = DotConfig(Fetched)
    /\ UNCHANGED <<cfgIn, cfgRun, outDefconfig, midConfig, menuConfig, ddkConfig>>

CheckFinal ==
    /\ cfgAt = "final"
    /\ cfgAt' = (IF CheckPasses(dotConfig, <<>>, <<>>, cfgIn.post) THEN "done" ELSE "mismatch")
    /\ UNCHANGED <<cfgIn, cfgRun, outDefconfig, dotConfig, midConfig, menuConfig, ddkConfig>>

-----------------------------------------------------------------------------
(* `bazel run X_config -- menuconfig` *)

\* sort_config puts the option in front of each line, sorts, and removes the first word of
\* each: of a comment that names no option that is its `#`.
Sorts(a, b) ==
    \/ a.key < b.key
    \/ a.key = b.key /\ a.val = "n" /\ b.val = "y"
    \/ a.key = b.key /\ a.val = b.val /\ ~a.nocheck /\ b.nocheck
SortIn(sorted, line) ==
    LET l == IF line.key = 0 THEN BadLine ELSE line IN
    InsertAt(sorted, SelectLastInSeq(sorted, LAMBDA x : ~Sorts(l, x)) + 1, l)
SortConfig(lines) == FoldLeft(SortIn, <<>>, lines)

\* Mutant: the changes are merged in front of the fragment.
UpdatedFragmentFirst(fragments, old, new) ==
    SortConfig(MergeConfig(DiffConfig(old, new), fragments))

\* The one fragment, with what the developer changed in place of what it said.
UpdatedFragment(fragments, old, new) ==
    SortConfig(MergeConfig(Head(fragments), Tail(fragments) \o <<DiffConfig(old, new)>>))

\* The developer leaves the menu with any .config that Kconfig allows.
Menu ==
    /\ cfgAt = "menu"
    /\ IF cfgIn.defconfig = "phony" THEN cfgAt' = "refused" /\ UNCHANGED <<dotConfig, menuConfig>>
       ELSE \E new \in [Option -> {"y", "n", "absent"}] :
               /\ new = Configured(cfgIn.kconfig, DotConfig(new))
               /\ dotConfig' = DotConfig(new)
               /\ menuConfig' = <<Fetched, new>>
               /\ cfgAt' = "save"
    /\ UNCHANGED <<cfgIn, cfgRun, outDefconfig, midConfig, ddkConfig>>

\* Several fragments are left to the developer.
SaveChoice ==
    /\ cfgAt = "save"
    /\ cfgAt' = (IF Len(cfgIn.pre) > 1 THEN "refused" ELSE "saved")
    /\ cfgIn' =
          CASE Len(cfgIn.pre) = 0 ->
                 [cfgIn EXCEPT !.base = SavedDefconfig(cfgIn.kconfig, menuConfig[2])]
            [] Len(cfgIn.pre) = 1 ->
                 [cfgIn EXCEPT !.pre = <<UpdatedFragment(@, menuConfig[1], menuConfig[2])>>]
            [] OTHER -> cfgIn
    /\ UNCHANGED <<cfgRun, outDefconfig, dotConfig, midConfig, menuConfig, ddkConfig>>

BuildNext ==
    /\ cfgAt = "saved" /\ cfgAt' = "setup" /\ cfgRun' = "build"
    /\ outDefconfig' = <<>> /\ dotConfig' = <<>> /\ midConfig' = <<>>
    /\ UNCHANGED <<cfgIn, menuConfig, ddkConfig>>

-----------------------------------------------------------------------------
(* DDK modules: modules[m] may depend on those before it. *)

\* The files of a depset in postorder: those of the dependencies, then the module's own;
\* a file that is there already is not listed again.
Listed(done, file) == IF file \in ToSet(done) THEN done ELSE Append(done, file)
ListAll(done, files) == FoldLeft(Listed, done, files)
DepFiles(base, files, deps) == FoldLeft(LAMBDA done, d : ListAll(done, files[d]), base, deps)

Defconfigs ==
    LET files[m \in DOMAIN cfgIn.modules] ==
            LET mod == cfgIn.modules[m] IN
            ListAll(DepFiles(cfgIn.extra, files, mod.deps), mod.defconfig)
    IN  files

Dependencies ==
    LET all[m \in DOMAIN cfgIn.modules] ==
            {m} \cup UNION {all[d] : d \in ToSet(cfgIn.modules[m].deps)}
    IN  all

\* Mutant: only the module's own Kconfig is added to the kernel's.
OwnKconfig(m) == [cfgIn.kconfig EXCEPT !.declared = @ \cup cfgIn.modules[m].kconfig]

KconfigOf(m) ==
    [cfgIn.kconfig EXCEPT !.declared =
        @ \cup UNION {cfgIn.modules[d].kconfig : d \in Dependencies[m]}]

\* The kernel's .config, the defconfigs of dependencies and the module's own, olddefconfig
\* if there is anything new, and a check of the module's own requirements.
ConfigureDdk(m) ==
    LET merged == MergeConfig(dotConfig, [i \in DOMAIN Defconfigs[m] |-> Defconfigs[m][i].lines])
        result == Configured(KconfigOf(m), merged)
        own == [i \in DOMAIN cfgIn.modules[m].defconfig |-> cfgIn.modules[m].defconfig[i].lines]
        passes == CheckPasses(DotConfig(result), <<>>, <<>>, own)
    IN  /\ cfgAt = "done" /\ ddkConfig[m].at = "none"
        /\ ddkConfig' = [ddkConfig EXCEPT ![m] = [at |-> IF passes THEN "done" ELSE "mismatch",
                                                  config |-> DotConfig(result)]]
        /\ UNCHANGED <<cfgIn, cfgRun, cfgAt, outDefconfig, dotConfig, midConfig, menuConfig>>

CfgNext ==
    \/ SetUpDefconfig \/ PreDefconfig \/ MakeDefconfig \/ CheckIntermediate \/ ScriptsConfig
    \/ MergePost \/ OldDefconfig \/ CheckFinal \/ Menu \/ SaveChoice \/ BuildNext
    \/ \E m \in DOMAIN cfgIn.modules : ConfigureDdk(m)

CfgSpec == CfgInit /\ [][CfgNext]_cfgVars

-----------------------------------------------------------------------------
(* Properties *)

\* What an option comes to in a .config that a build leaves.
AllLines(fragments) == FoldLeft(LAMBDA lines, f : lines \o f, <<>>, fragments)
ValueIn(lines, k) == IF k \in KeysIn(lines) THEN LastOf(lines, k).val ELSE "n"

\* A configuration that succeeds is the one that was asked for, whatever Kconfig drops: the
\* .config of `make defconfig` has the last word of defconfig and pre fragments on every
\* option, the final one has what each post fragment says, but for lines with # nocheck.
ConfigAsAsked ==
    cfgRun = "build" /\ cfgAt = "done" =>
        /\ IsFile =>
              LET lines == AllLines(<<cfgIn.base>> \o cfgIn.pre) IN
              \A k \in KeysIn(lines) :
                  LastOf(lines, k).nocheck \/ ValueIn(midConfig, k) = LastOf(lines, k).val
        /\ \A f \in ToSet(cfgIn.post) : \A k \in KeysIn(f) :
              LastOf(f, k).nocheck \/ ValueIn(dotConfig, k) = LastOf(f, k).val

DropsNothing(kconfig) == kconfig.declared = Option /\ \A k \in Option : kconfig.needs[k] = 0

Contradict(f, g) == \E k \in KeysIn(f) \cap KeysIn(g) : LastOf(f, k).val # LastOf(g, k).val

\* The script that merges and the program that checks agree on who overrides whom: where
\* Kconfig drops nothing, no line is unreadable and post fragments do not contradict one
\* another, no check fails.  The same for a module that shares its defconfig with none.
NoFalseAlarm ==
    DropsNothing(cfgIn.kconfig) =>
        /\ cfgAt = "mismatch" =>
              \/ cfgIn.minimized
              \/ Unreadable(<<cfgIn.base>> \o cfgIn.pre \o cfgIn.post)
              \/ \E f, g \in ToSet(cfgIn.post) : Contradict(f, g)
        /\ \A m \in DOMAIN ddkConfig :
              ddkConfig[m].at = "mismatch" =>
                  \E f \in ToSet(cfgIn.modules[m].defconfig) :
                      \/ BadLine \in ToSet(f.lines) \/ f \in ToSet(cfgIn.extra)
                      \/ \E d \in Dependencies[m] \ {m} : f \in ToSet(cfgIn.modules[d].defconfig)

\* What a developer chose in a menu is what the next build has before post fragments: all
\* of it if the defconfig was saved, which then is minimized; if a fragment was updated,
\* each option that was changed, unless the check refuses the build.
ChoiceKept ==
    cfgRun = "build" /\ menuConfig # <<>> =>
        /\ cfgIn.pre = <<>> =>
              /\ cfgAt \in {"check", "post"} => midConfig = DotConfig(menuConfig[2])
              /\ cfgAt = "check" => IntermediateOK \/ "check_defconfig_minimized" \in cfgIn.env
        /\ cfgAt = "post" =>
              \A k \in Option :
                  menuConfig[2][k] \notin {"absent", menuConfig[1][k]} =>
                      ValueIn(midConfig, k) = menuConfig[2][k]

Knows(m) == cfgIn.kconfig.declared \cup UNION {cfgIn.modules[d].kconfig : d \in Dependencies[m]}

\* A module that sets options of its own Kconfig only, which refers to nothing it cannot see.
SelfContained(m) ==
    LET mod == cfgIn.modules[m] IN
    /\ \A f \in ToSet(mod.defconfig) : KeysIn(f.lines) \subseteq mod.kconfig
    /\ mod.kconfig \cap cfgIn.kconfig.declared = {}
    /\ \A d \in DOMAIN cfgIn.modules \ {m} : mod.kconfig \cap cfgIn.modules[d].kconfig = {}
    /\ \A k \in mod.kconfig :
          {cfgIn.kconfig.needs[k], cfgIn.kconfig.follows[k]} \ {0} \subseteq Knows(m)

\* A kernel whose options refer to one another only.
KernelContained ==
    \A k \in cfgIn.kconfig.declared :
        {cfgIn.kconfig.needs[k], cfgIn.kconfig.follows[k]} \ {0} \subseteq cfgIn.kconfig.declared

\* Modules that are self-contained and depend on one another are built with the same
\* values of the options that both know.
DependantsAgree ==
    KernelContained /\ (\A m \in DOMAIN ddkConfig : SelfContained(m)) =>
        \A m \in DOMAIN ddkConfig : \A d \in Dependencies[m] :
            ddkConfig[m].at = "done" /\ ddkConfig[d].at = "done" =>
                LET Seen(x) == Without(ddkConfig[x].config, Option \ Knows(d))
                IN  Seen(m) = Seen(d)
=============================================================================
