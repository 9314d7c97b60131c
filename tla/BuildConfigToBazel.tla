-------------------------- MODULE BuildConfigToBazel --------------------------
(***************************************************************************)
(* build_config_to_bazel.py: the edits it makes for the variables that a    *)
(* build.config sets.  A value is "", "1", "common" or "own" (a path in the *)
(* common tree or in the package of the build.config) or "other".          *)
(***************************************************************************)
EXTENDS Buildozer

Keys ==     \* one or more of each branch, in the order of order_dict_by_key
    <<"ABI_DEFINITION", "ARCH", "BASH_FUNC_f%%", "BUILD_BOOT_IMG", "BUILD_CONFIG",
      "BUILD_CONFIG_FRAGMENTS", "BUILD_GKI_CERTIFICATION_TOOLS", "COMPRESS_UNSTRIPPED_MODULES",
      "DIST_DIR", "DO_NOT_STRIP_MODULES", "DTS_EXT_DIR", "EXTRA_CMDS", "EXT_MODULES", "FILES",
      "GKI_BUILD_CONFIG", "HERMETIC_TOOLCHAIN", "KCONFIG_EXT_PREFIX", "KERNEL_DIR",
      "KMI_ENFORCED", "KMI_SYMBOL_LIST", "LTO", "MKBOOTIMG_PATH", "MODULES_LIST",
      "MODULES_OPTIONS", "PRE_DEFCONFIG_CMDS", "SKIP_VENDOR_BOOT", "TRIM_NONLISTED_KMI",
      "UNKNOWN", "UNSTRIPPED_MODULES">>

Target == <<"own", "tuna">>
Part(suffix) == <<"own", suffix>>       \* {target_name}_{suffix}
Module == <<"ext", "ext">>              \* the kernel_module of the one EXT_MODULES

Bool(b) == IF b THEN "True" ELSE "False"
Do(acc, ops) == [acc EXCEPT !.ops = @ \o ops]
Remark(acc, key) == [acc EXCEPT !.notes = Append(@, key)]

\* _new of this class, which also adds the target to the distribution.
NewDist(acc, t, kind) ==
    [Do(acc, <<New(t, kind)>>) EXCEPT !.dist = IF Contains(@, t) THEN @ ELSE Append(@, t)]

OnImages(acc, ops) ==
    Do([NewDist(acc, Part("images"), "kernel_images") EXCEPT !.images = TRUE], ops)
OnAbi(acc, ops) == Do([NewDist(acc, Part("abi"), "kernel_abi") EXCEPT !.abi = TRUE], ops)

\* The branches for images, device trees and what is left.
OnLaterKey(acc, key, v, environ) ==
    LET images == Part("images") IN
    CASE key = "BUILD_BOOT_IMG" -> OnImages(acc, <<Set(images, "build_boot", Bool(v # ""))>>)
      [] key = "SKIP_VENDOR_BOOT" ->
            OnImages(acc, <<Set(images, "build_vendor_boot", Bool(v = ""))>>)
      [] key = "MKBOOTIMG_PATH" -> OnImages(acc, <<Comment(images, "mkbootimg", key, "always")>>)
      [] key = "MODULES_OPTIONS" -> OnImages(acc, <<Set(images, "modules_options", "extra file")>>)
      [] key = "MODULES_LIST" ->
            OnImages(acc, <<IF v = "own" THEN Set(images, "modules_list", v)
                                         ELSE Comment(images, "modules_list", key, "always")>>)
      [] key = "GKI_BUILD_CONFIG" ->
            Do(acc, <<IF v = "common" THEN Set(Target, "base_kernel", "gki")
                                      ELSE Comment(Target, "base_kernel", key, "always")>>)
      [] key = "DTS_EXT_DIR" ->
            Do(acc, <<New(<<"dts", "dts">>, "kernel_dtstree"), Set(Target, "dtstree", "dts")>>)
      [] key = "BUILD_GKI_CERTIFICATION_TOOLS" ->
            IF v = "1" THEN [acc EXCEPT !.dist = Append(@, <<"build", "gki_tools">>)] ELSE acc
      [] key = "UNKNOWN" -> IF key \in environ THEN acc ELSE Remark(acc, key)
      [] OTHER -> acc

\* One round of the loop over the environment.
OnKey(acc, key, v, environ) ==
    CASE key \in {"ARCH", "BASH_FUNC_f%%"} -> acc
      [] key = "HERMETIC_TOOLCHAIN" -> IF v = "1" THEN acc ELSE Remark(acc, key)
      [] key = "EXTRA_CMDS" -> IF v = "" THEN acc ELSE Remark(acc, key)
      [] key = "BUILD_CONFIG" -> Do(acc, <<Set(Target, "build_config", v)>>)
      [] key \in {"BUILD_CONFIG_FRAGMENTS", "PRE_DEFCONFIG_CMDS"} -> Remark(acc, key)
      [] key = "LTO" -> IF v = "" THEN acc ELSE Remark(acc, key)
      [] key = "DIST_DIR" -> Do(acc, <<Comment(Part("dist"), "dist_dir", key, "always")>>)
      [] key = "DO_NOT_STRIP_MODULES" ->
            Do(acc, <<Set(Target, "strip_modules", Bool(v # "1"))>>)
      [] key = "FILES" -> Do(acc, <<Add(Target, "outs", v)>>)
      [] key = "EXT_MODULES" /\ v # "" ->
            [Do(acc, <<New(Module, "kernel_module"), Set(Module, "kernel_build", "tuna"),
                       Comment(Module, "temp_outs", key, "unset"),
                       Rename(Module, "temp_outs", "outs")>>) EXCEPT !.modules = TRUE]
      [] key = "KERNEL_DIR" /\ v = "common" ->
            Do(acc, <<SetIfAbsent(Target, "srcs", "glob"), Add(Target, "srcs", "sources")>>)
      [] key = "KERNEL_DIR" /\ v = "other" -> Do(acc, <<Comment(Target, "srcs", key, "always")>>)
      [] key = "KCONFIG_EXT_PREFIX" -> Do(acc, <<Set(Target, "kconfig_ext", v)>>)
      [] key = "UNSTRIPPED_MODULES" ->
            Do(acc, <<Set(Target, "collect_unstripped_modules", Bool(v # ""))>>)
      [] key = "COMPRESS_UNSTRIPPED_MODULES" ->
            IF v = "1" THEN [acc EXCEPT !.unstripped = TRUE] ELSE acc
      [] key = "ABI_DEFINITION" ->
            OnAbi(acc, <<Comment(Part("abi"), "abi_definition", key, "unset")>>)
      [] key = "KMI_ENFORCED" ->
            OnAbi(acc, IF v = "1" THEN <<Set(Part("abi"), "kmi_enforced", "True")>> ELSE <<>>)
      [] key = "KMI_SYMBOL_LIST" -> Do(acc, <<Set(Target, "kmi_symbol_list", v)>>)
      [] key = "TRIM_NONLISTED_KMI" ->
            Do(acc, <<Set(Target, "trim_nonlisted_kmi", Bool(v = "1"))>>)
      [] OTHER -> OnLaterKey(acc, key, v, environ)

AddModule(acc, t) == IF acc.modules THEN <<Add(t, "kernel_modules", "ext")>> ELSE <<>>

\* What follows the loop: the distribution, the targets that the others refer to, and
\* the attributes that always ask for attention.
Closing(acc) ==
    LET unstripped == Part("unstripped")
        install == Part("modules_install")
        If(b, ops) == IF b THEN ops ELSE <<>>
    IN  [i \in DOMAIN acc.dist |-> Add(Part("dist"), "data", acc.dist[i][2])]
        \o If(acc.unstripped \/ acc.abi,
              <<New(unstripped, "kernel_unstripped_modules_archive"),
                Set(unstripped, "kernel_build", "tuna")>> \o AddModule(acc, unstripped))
        \o If(acc.images \/ acc.modules,
              <<New(install, "kernel_modules_install"), Set(install, "kernel_build", "tuna")>>
              \o AddModule(acc, install))
        \o If(acc.abi, AddModule(acc, Part("abi"))
              \o <<Set(Part("abi"), "unstripped_modules_archive", "unstripped"),
                   Set(Part("abi"), "kernel_build", "tuna")>>)
        \o If(acc.images, <<Set(Part("images"), "kernel_build", "tuna"),
                            Set(Part("images"), "kernel_modules_install", "modules_install")>>)
        \o <<Comment(Target, "base_kernel", "migrate", "not gki"),
             Comment(Target, "module_outs", "set module_outs", "unset")>>
        \o If(acc.notes # <<>>, <<TargetComment(Target, acc.notes)>>)

\* _create_buildozer_commands for the variables of env.
BuildConfigOps(env, environ) ==
    LET first == [ops |-> <<New(Target, "kernel_build"), New(Part("dist"), "copy_to_dist_dir"),
                            Set(Part("dist"), "flat", "True")>>,
                  dist |-> <<Target>>, notes |-> <<>>, images |-> FALSE, abi |-> FALSE,
                  modules |-> FALSE, unstripped |-> FALSE]
        given == SelectSeq(Keys, LAMBDA k : k \in DOMAIN env)
        Round(acc, key) == OnKey(acc, key, env[key], environ)
        acc == FoldLeft(Round, first, given)
    IN  acc.ops \o Closing(acc)

BuildConfigRequest(env, environ) ==
    [tool |-> "build_config", env |-> env, dies |-> "never", ops |-> BuildConfigOps(env, environ)]
=============================================================================
