---------------------------- MODULE MCSourceFiles ----------------------------
(***************************************************************************)
(* The programs that write files of the source tree, of a module's directory  *)
(* or of $OUT_DIR: init_ddk.py's update of a user's file, the scripts that    *)
(* keep BUILD files, gen_makefiles.py, the rules that make a .config and      *)
(* write it back, and the main action of kernel_build.  No two of them share  *)
(* a file that is modelled; `part` says which of them a behaviour is about.   *)
(***************************************************************************)
EXTENDS UpdateFile, BuildConfigToBazel, GenDdkHeaders, BuildCleaner, GenMakefiles,
        KernelConfig, KernelOutputs

VARIABLE part

allVars == <<part, vars, bzVars, mkVars, cfgVars, outputVars>>

-----------------------------------------------------------------------------
(* Values for the checker *)

\* Values that make a difference to some branch.
KeyValues == [k \in ToSet(Keys) |->
    CASE k = "GKI_BUILD_CONFIG" -> {"common", "other"}
      [] k = "KERNEL_DIR" -> {"common", "own", "other"}
      [] k = "MODULES_LIST" -> {"own", "other"}
      [] k \in {"BUILD_CONFIG", "FILES", "KMI_SYMBOL_LIST", "KCONFIG_EXT_PREFIX",
                "ABI_DEFINITION", "MKBOOTIMG_PATH", "DIST_DIR", "BUILD_CONFIG_FRAGMENTS",
                "PRE_DEFCONFIG_CMDS", "ARCH", "BASH_FUNC_f%%", "UNKNOWN"} -> {"own"}
      [] OTHER -> {"", "1"}]

EnvOf(ks) == {e \in [ks -> UNION {KeyValues[k] : k \in ks}] : \A k \in ks : e[k] \in KeyValues[k]}

\* Those that leave a mark in one of the targets that others share.
Telling == {"GKI_BUILD_CONFIG", "EXT_MODULES", "KMI_ENFORCED", "MODULES_LIST", "KERNEL_DIR",
            "COMPRESS_UNSTRIPPED_MODULES", "SKIP_VENDOR_BOOT", "UNKNOWN"}

BuildConfigRequests ==
    {BuildConfigRequest(env, environ) :
        env \in UNION {EnvOf({a, b}) : a \in ToSet(Keys), b \in Telling},
        environ \in {{}, {"UNKNOWN"}}}

Allowed == <<"common", "include", "linux", "a.h">>
Linked2 == <<"link.h">>
Driver == <<"common", "drivers", "b.h">>
Nested == <<"common", "sub", "include", "d.h">>
Net == <<"common", "net", "c.h">>
Given == {Allowed, <<"common", "include", "uapi", "u.h">>, Linked2, Driver, Nested, Net,
          <<"elsewhere", "e.h">>, <<"common", "gone.h">>, <<"/", "usr", "f.h">>, <<"out.h">>}
IncludeDir == <<"common", "include">>

Common == [name |-> "common", parts |-> <<"common">>]
Sub == [name |-> "common/sub", parts |-> <<"common", "sub">>]

HeaderRequests ==
    {HeaderRequest(
        [package |-> p, allowed |-> <<g[1]>>, glob |-> g[2], exclude |-> <<<<"net">>>>,
         arch |-> "aarch64"],
        [files |-> fs, dirs |-> ds, unresolved |-> un,
         there |-> (Given \ {<<"common", "gone.h">>, Linked2}) \cup {IncludeDir},
         links |-> [x \in {Linked2, <<"out.h">>} |->
                       IF x = Linked2 THEN Driver ELSE <<"/", "f.h">>]]) :
        p \in {<<Common>>, <<Common, Sub>>, <<Sub, Common>>},
        g \in {<<<<"include">>, <<>>>>, <<<<"include">>, <<<<"include">>, <<"drivers">>>>>>,
               <<<<"include">>, <<<<"include", "uapi">>, <<"include", "linux">>>>>>,
               <<<<"include", "linux">>, <<<<"include">>, <<"sub">>>>>>},
        fs \in {x \in SUBSET Given : Cardinality(x) \in {1, 2, 3}},
        ds \in {{}, {IncludeDir}}, un \in {{}}}
    \cup {HeaderRequest(
        [package |-> <<Common>>, allowed |-> <<>>, glob |-> <<>>, exclude |-> <<>>,
         arch |-> "x86_64"],
        [files |-> {Driver}, dirs |-> {}, unresolved |-> {"x"}, there |-> {Driver},
         links |-> [x \in {} |-> x]])}

Modules == {"m", "n", "o"}
CleanerRequests ==
    {CleanerRequest([closure |-> c, builds |-> b, provides |-> p, undefined |-> u,
                     deps |-> [x \in Modules |-> IF x = "m" THEN {"n"} ELSE {}]]) :
        c \in {<<"m", "n", "o">>, <<"o", "m", "n">>, <<"n", "m", "n", "o">>, <<"o", "m">>},
        b \in BOOLEAN,
        p \in {q \in [Modules -> {{}, {"s"}, {"t"}, {"s", "t"}}] : q["m"] = {}},
        u \in {q \in [Modules -> {{}, {"s"}, {"s", "t"}}] : q["n"] = {} /\ q["o"] # {"s", "t"}}}

MCRequest(tool) ==
    CASE tool = "build_config" -> BuildConfigRequests
      [] tool = "headers" -> HeaderRequests
      [] tool = "cleaner" ->
            {r \in CleanerRequests : \A x \in Modules : r.in.provides[x] \cap r.in.undefined[x] = {}}

Attribute(v) == [val |-> <<v>>, comment |-> ""]

\* Nothing; a target of the user's, which may be of another kind; the modules.
MCOldFile(r) ==
    CASE r.tool = "build_config" ->
            {NoMap} \cup {[k \in {<<Target, "kind">>, <<Target, "base_kernel">>} |->
                              Attribute(IF k[2] = "kind" THEN kind ELSE "gki")] :
                              kind \in {"kernel_build", "filegroup"}}
      [] r.tool = "headers" -> {NoMap}
      [] r.tool = "cleaner" ->
            LET Kinds(ms) == [k \in {<<<<"own", m>>, "kind">> : m \in ms} |->
                                 Attribute("ddk_module")]
                deps == <<<<"own", "m">>, "deps">>
            IN  {With(Kinds(Modules), deps, Attribute("n")),
                 With(Kinds({"m", "n"}), deps, Attribute("n"))}

File(s, e) == [dir |-> <<"d">>, stem |-> s, ext |-> e]
Placed(dir, f) == [f EXCEPT !.dir = dir]
FileLists ==
    {<<>>, <<File("a", ".c")>>, <<File("tuna", ".c")>>, <<File("b", ".S"), File("a", ".h")>>,
     <<File("a", ".c"), File("b", ".S")>>, <<File("x", ".txt")>>, <<File("ddk_marker", ".c")>>,
     <<Placed(<<"d", "sub">>, File("tuna", ".c"))>>, <<Placed(<<"e">>, File("a", ".h"))>>}
Items ==
    {[files |-> l, config |-> c[1], value |-> c[2]] :
        l \in FileLists,
        c \in {<<"none", "">>, <<"C", "True">>, <<"C", "y">>, <<"C", "">>, <<"D", "m">>}}
Kos ==
    {[out |-> o, dir |-> <<"d">>, items |-> s] :
        o \in {"tuna", "cod"},
        s \in {<<>>} \cup {<<a>> : a \in Items} \cup {<<a, b>> : a, b \in Items}}
OneItem(o) == {m \in Kos : Len(m.items) = 1 /\ m.out = o}
AtTop(m) == [m EXCEPT !.dir = <<>>]
MCModuleSet ==
    {<<m>> : m \in Kos} \cup {<<m, n>> : m \in OneItem("tuna"), n \in OneItem("cod")}
    \cup {<<AtTop(m), n>> : m \in OneItem("tuna"), n \in OneItem("cod")}
MCConfigs == [{"C", "D"} -> {"y", "m", ""}]

\* The shapes of lists of fragments: one before and one after `make defconfig`, two of
\* either, one of two lines, perhaps a comment.
Line12(nocheck) == {OptionLine(k, v, nocheck) : k \in {1, 2}, v \in {"y", "n"}}
Fragments == {<<l>> : l \in Line12(FALSE) \cup Line12(TRUE)}
PreLists ==
    {<<f, g>> : f, g \in Fragments} \cup {<<f \o g>> : f, g \in Fragments \cup {<<Remarks>>}}
FragmentLists ==
    {[pre |-> p, post |-> <<>>] : p \in PreLists \cup {<<>>}}
    \cup {[pre |-> <<f>>, post |-> <<g>>] : f, g \in Fragments}
    \cup {[pre |-> <<>>, post |-> <<f, g>>] : f, g \in Fragments}

Bases == {<<>>, <<OptionLine(2, "y", TRUE)>>} \cup {<<l>> : l \in Line12(FALSE)}
Flags == {<<>>, <<OptionLine(1, "y", FALSE)>>}

KconfigTree(declared, needs, follows) ==
    [declared |-> declared, needs |-> needs, follows |-> follows]
Kconfigs(declared) == {KconfigTree(declared, <<0, n, 0>>, <<0, f, 0>>) : n, f \in {0, 1}}

PlainConfig ==
    [run |-> "build", defconfig |-> "file", base |-> <<>>, pre |-> <<>>, post |-> <<>>,
     flags |-> <<>>, minimized |-> FALSE, env |-> {}, modules |-> <<>>, extra |-> <<>>,
     kconfig |-> KconfigTree(1 .. 3, <<0, 0, 0>>, <<0, 1, 0>>)]

BuildConfigs ==
    {[PlainConfig EXCEPT !.base = b, !.pre = fs.pre, !.post = fs.post, !.flags = o,
                         !.kconfig = t] :
        b \in Bases, fs \in FragmentLists, o \in Flags,
        t \in Kconfigs(1 .. 3) \cup Kconfigs({1})}

MenuConfigs ==
    {[PlainConfig EXCEPT !.run = "menu", !.base = b, !.pre = p, !.kconfig = t] :
        b \in Bases, p \in PreLists \cup {<<>>}, t \in Kconfigs({1, 2})}

OddConfigs ==
    {[PlainConfig EXCEPT !.run = r, !.defconfig = d, !.base = b, !.pre = p, !.minimized = m,
                         !.env = e] :
        r \in {"menu", "build"}, d \in {"file", "phony", "none"}, b \in Bases, m \in BOOLEAN,
        p \in {<<>>, <<<<OptionLine(1, "y", FALSE)>>>>},
        e \in SUBSET {"DEFCONFIG", "in_tree", "PRE_DEFCONFIG_CMDS", "check_defconfig_minimized"}}

\* A module, one that depends on it, and one that depends on both or on the second.
DefconfigFile(id, lines) == [id |-> id, lines |-> lines]
Of(id, k) == {<<>>} \cup {<<DefconfigFile(id, <<OptionLine(k, v, FALSE)>>)>> : v \in {"y", "n"}}
DdkModule(deps, kconfig, defconfig) ==
    [deps |-> deps, kconfig |-> kconfig, defconfig |-> defconfig]

DdkConfigs ==
    {[PlainConfig EXCEPT !.base = <<OptionLine(1, v, FALSE)>>, !.kconfig = t[1], !.extra = x,
         !.modules = <<DdkModule(<<>>, t[2], a), DdkModule(<<1>>, t[3], b),
                       DdkModule(d, {}, c)>>] :
        v \in {"y", "n"},
        t \in {<<KconfigTree({1}, <<0, n, m>>, <<0, 1, 2>>), {2}, {3}>> :
                  n \in {0, 1}, m \in {0, 2}}
              \cup {<<KconfigTree(1 .. 3, <<0, 0, 0>>, <<0, 1, 2>>), {}, {}>>},
        x \in {<<>>, <<DefconfigFile("x", Listing(<<"n", "y", "n">>, {2, 3}))>>},
        a \in Of("a", 2), b \in Of("b", 2) \cup Of("b", 3), c \in Of("a", 2) \cup Of("c", 1),
        d \in {<<2>>, <<2, 1>>}}

MCConfigRequest(purpose) ==
    CASE purpose = "build" -> BuildConfigs
      [] purpose = "menu" -> MenuConfigs
      [] purpose = "misuse" -> OddConfigs
      [] purpose = "ddk" -> DdkConfigs

Image == <<"Image">>
BootImage == <<"boot", "Image">>
ModulePath(dir, name) == <<dir, name>>

PlainBuild ==
    [goal |-> "image", outs |-> <<>>, modules |-> <<>>, base |-> {}, mixed |-> NoFiles,
     undeclared |-> "error", release |-> "r", makes |-> {}]

ImageBuilds ==
    {[PlainBuild EXCEPT !.outs = o, !.makes = m, !.mixed = x] :
        o \in {<<Image>>, <<BootImage>>, <<Image, BootImage>>}, m \in SUBSET {Image, BootImage},
        x \in {NoFiles, [p \in {Image} |-> [path |-> p, by |-> 0]]}}

ModuleBuilds ==
    {[PlainBuild EXCEPT !.goal = g, !.modules = d, !.makes = m, !.release = r,
                        !.undeclared = u, !.base = b] :
        g \in {"image", "modules", "single"},
        d \in {<<>>, <<<<"m">>>>, <<ModulePath("d", "m")>>},
        m \in {{}, {ModulePath("d", "m")}, {ModulePath("e", "m")},
               {ModulePath("d", "m"), ModulePath("d", "n")}},
        r \in {"r", "s"}, u \in {"error", "warning"}, b \in {{}, {<<"n">>}}}

MCBuildRequest == ImageBuilds \cup ModuleBuilds

-----------------------------------------------------------------------------

UpdateRest ==
    /\ exists = FALSE /\ file = <<>> /\ mine = <<>> /\ sameFs = TRUE /\ tmp = <<>>
    /\ update = (CHOOSE u \in Update : TRUE) /\ pc = "idle" /\ runs = MaxRun /\ kills = 0

BzRest ==
    /\ request = [tool |-> "none", ops |-> <<>>] /\ buildFile = NoMap /\ keepGoing = FALSE /\ packages = {}
    /\ existing = NoMap /\ commands = <<>> /\ bzAt = "idle" /\ bzRuns = MaxBzRun /\ edited = {}

MkRest ==
    /\ subs = <<>> /\ outDir = [p \in {} |-> <<>>] /\ markers = {} /\ mkMods = <<>>
    /\ mkAt = "died"

CfgRest ==
    /\ cfgIn = PlainConfig /\ cfgRun = "build" /\ cfgAt = "refused"
    /\ outDefconfig = <<>> /\ dotConfig = <<>> /\ midConfig = <<>> /\ menuConfig = <<>>
    /\ ddkConfig = <<>>

OutputRest ==
    /\ buildIn = PlainBuild /\ buildNo = MaxBuild /\ buildAt = "done" /\ left = {}
    /\ outTree = NoFiles /\ staging = NoFiles /\ ruleDir = NoFiles /\ unstripped = NoFiles
    /\ archive = NoFiles

FilesInit ==
    \/ part = "update" /\ Init /\ BzRest /\ MkRest /\ CfgRest /\ OutputRest
    \/ part = "build" /\ UpdateRest /\ BzInit /\ MkRest /\ CfgRest /\ OutputRest
    \/ part = "make" /\ UpdateRest /\ BzRest /\ MkInit /\ CfgRest /\ OutputRest
    \/ part = "config" /\ UpdateRest /\ BzRest /\ MkRest /\ CfgInit /\ OutputRest
    \/ part = "outputs" /\ UpdateRest /\ BzRest /\ MkRest /\ CfgRest /\ OutputInit

OnlyUpdate == part = "update" /\ UNCHANGED <<part, bzVars, mkVars, cfgVars, outputVars>>
OnlyBuild == part = "build" /\ UNCHANGED <<part, vars, mkVars, cfgVars, outputVars>>
OnlyMake == part = "make" /\ UNCHANGED <<part, vars, bzVars, cfgVars, outputVars>>
OnlyConfig == part = "config" /\ UNCHANGED <<part, vars, bzVars, mkVars, outputVars>>
OnlyOutputs == part = "outputs" /\ UNCHANGED <<part, vars, bzVars, mkVars, cfgVars>>

FilesNext ==
    \/ \E u \in Update : (Start(u) /\ OnlyUpdate)
    \/ (Copy /\ OnlyUpdate) \/ (Move /\ OnlyUpdate) \/ (MoveBegins /\ OnlyUpdate)
    \/ (MoveEnds /\ OnlyUpdate) \/ (Kill /\ OnlyUpdate)
    \/ (DryRun /\ OnlyBuild) \/ (GetAllInfo /\ OnlyBuild) \/ (WriteCommands /\ OnlyBuild)
    \/ (RunBuildozer /\ OnlyBuild) \/ (UserEdits /\ OnlyBuild)
    \/ (MergeDirectories /\ OnlyMake) \/ (SubmoduleDies /\ OnlyMake)
    \/ (AppendLinuxIncludes /\ OnlyMake)
    \/ (SetUpDefconfig /\ OnlyConfig) \/ (PreDefconfig /\ OnlyConfig)
    \/ (MakeDefconfig /\ OnlyConfig) \/ (CheckIntermediate /\ OnlyConfig)
    \/ (ScriptsConfig /\ OnlyConfig) \/ (MergePost /\ OnlyConfig)
    \/ (OldDefconfig /\ OnlyConfig) \/ (CheckFinal /\ OnlyConfig)
    \/ (Menu /\ OnlyConfig) \/ (SaveChoice /\ OnlyConfig) \/ (BuildNext /\ OnlyConfig)
    \/ \E m \in DOMAIN cfgIn.modules : (ConfigureDdk(m) /\ OnlyConfig)
    \/ (NextBuild /\ OnlyOutputs) \/ (Make /\ OnlyOutputs) \/ (InstallModules /\ OnlyOutputs)
    \/ (GrabOutputs /\ OnlyOutputs) \/ (ArchiveStaging /\ OnlyOutputs)
    \/ (GrabModules /\ OnlyOutputs) \/ (GrabUnstripped /\ OnlyOutputs)
    \/ (CheckRemainingModules /\ OnlyOutputs) \/ (CleanUp /\ OnlyOutputs)
    \/ (KillBuild /\ OnlyOutputs)

FilesSpec == FilesInit /\ [][FilesNext]_allVars
=============================================================================
