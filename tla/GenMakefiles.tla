---------------------------- MODULE GenMakefiles ----------------------------
(***************************************************************************)
(* gen_makefiles.py: the Kbuild and .cflags files of a ddk_module.  A module *)
(* with submodules starts from the directories generated for each of these   *)
(* and concatenates the files that have the same path.                      *)
(*                                                                         *)
(* A line of a generated file is a record; Evaluate reads a Kbuild the way   *)
(* make does under a given .config.                                         *)
(***************************************************************************)
EXTENDS Naturals, Sequences, SequencesExt

CONSTANTS
    ModuleSet,      \* what each invocation for one .ko is given
    Configs         \* .config: what a configuration symbol may be set to

\* An item of kernel_module_srcs_json: sources of the package, and the symbol and the
\* value they depend on.  IsOn is the special value True, which means y or m.
NoConfig == "none"
IsOn == "True"

\* A module has a file of flags of its own: two of one directory differ in `out` (a check of
\* kernel_module), and no name of theirs is one of the other files.  CONFIG symbols are no "y".
ASSUME GenMakefilesAssumption ==
    \A ms \in ModuleSet :
        /\ ms \in Seq(ToSet(ms))
        /\ \A i, j \in DOMAIN ms : ms[i].dir = ms[j].dir /\ ms[i].out = ms[j].out => i = j
        /\ \A m \in ToSet(ms) :
              /\ m.out \notin {"Kbuild", "ddk_marker.c"} /\ m.items \in Seq(ToSet(m.items))
              /\ \A item \in ToSet(m.items) :
                    item.config # "y" /\ item.files \in Seq(ToSet(item.files))

VARIABLES
    subs,       \* the submodules that are left to generate and merge
    outDir,     \* output_makefiles: path -> lines
    markers,    \* ddk_markers: paths of the marker sources already copied
    mkMods,     \* history: the modules merged so far
    mkAt        \* "merging", "done" or "died"

mkVars == <<subs, outDir, markers, mkMods, mkAt>>

Marker(m) == [dir |-> m.dir, stem |-> "ddk_marker", ext |-> ".c"]
IsSource(f) == f.ext \in {".c", ".S", ".rs"}

\* A directory is a sequence of names, <<>> for that of the package.  An object has the path of
\* its source, and a module that of the source it is compiled from if it has no parts.
Obj(f) == <<f.dir, f.stem>>
Own(m) == <<m.dir, m.out>>

SourcesOf(items) == UNION {{f \in ToSet(item.files) : IsSource(f)} : item \in items}

KeepSource(kept, f) == IF IsSource(f) THEN Append(kept, f) ELSE kept

\* _get_rel_srcs_flat
Flat(items) == FlattenSeq([i \in DOMAIN items |-> FoldLeft(KeepSource, <<>>, items[i].files)])

Conditional(item) == item.config # NoConfig /\ item.value # IsOn

-----------------------------------------------------------------------------
(* What makes gen_makefiles.py die *)

\* _check_srcs_valid
SameName(m) ==
    /\ Len(Flat(m.items)) > 1
    /\ \E i \in DOMAIN Flat(m.items) : Obj(Flat(m.items)[i]) = Own(m)

\* _handle_ddk_marker compares a path with a string for the name of the output, which
\* never holds: a module of that name passes.
NamedMarker(m) == \E i \in DOMAIN Flat(m.items) : Flat(m.items)[i].stem = Marker(m).stem
                                                   /\ Flat(m.items)[i].ext = ".c"

\* _handle_src passes over headers, but for the flags the path of every file is taken relative
\* to the directory of the output.
Misplaced(m) ==
    \E item \in ToSet(m.items) : \E f \in ToSet(item.files) :
        (f.ext # ".h" /\ ~IsSource(f)) \/ ~IsPrefix(m.dir, f.dir)

ModuleDies(m) == SameName(m) \/ NamedMarker(m) \/ Misplaced(m)

-----------------------------------------------------------------------------
(* _gen_ddk_makefile_for_module *)

\* _handle_ddk_marker: with one source the marker is an include in the flags.
Tagged(m) ==
    IF Len(Flat(m.items)) > 1
    THEN Append(m.items, [files |-> <<Marker(m)>>, config |-> NoConfig, value |-> ""])
    ELSE m.items

CflagsLines(m) ==
    (IF Len(Flat(m.items)) > 1 THEN <<>> ELSE <<[k |-> "include marker"]>>)
    \o <<[k |-> "flags", of |-> m.out]>>

\* Lines for the files of one item, between ifeq and endif if it has a value.
Guarded(item, lines) ==
    IF Conditional(item)
    THEN <<[k |-> "ifeq", config |-> item.config, value |-> item.value]>> \o lines
         \o <<[k |-> "endif"]>>
    ELSE lines

\* A source with the name of the module is built into it without a line.
HandleSrc(m, suffix, lines, f) ==
    IF IsSource(f) /\ Obj(f) # Own(m)
    THEN Append(lines, [k |-> "object", of |-> m.out, suffix |-> suffix, o |-> Obj(f)])
    ELSE lines

ObjectLines(m, item) ==
    LET suffix == IF item.config # NoConfig /\ item.value = IsOn THEN item.config ELSE "y"
    IN  FoldLeft(LAMBDA lines, f : HandleSrc(m, suffix, lines, f), <<>>, item.files)

FlagLines(m, item) ==
    [i \in DOMAIN item.files |-> [k |-> "cflags", o |-> Obj(item.files[i]), of |-> m.out]]

KbuildLines(m) ==
    LET items == Tagged(m) IN
    <<[k |-> "module", of |-> m.out]>>
    \o FlattenSeq([i \in DOMAIN items |-> Guarded(items[i], ObjectLines(m, items[i]))])
    \o FlattenSeq([i \in DOMAIN items |-> Guarded(items[i], FlagLines(m, items[i]))])

In(dir, name) == <<dir, name>>

\* The directory that an invocation for the module m leaves.
Generated(m) ==
    LET kbuild == In(m.dir, "Kbuild")
        files == {kbuild, In(m.dir, m.out), In(m.dir, "ddk_marker.c")}
                 \cup IF m.dir = <<>> THEN {} ELSE {In(<<>>, "Kbuild")}
    IN  [p \in files |->
            CASE p = kbuild -> KbuildLines(m)
              [] p = In(m.dir, m.out) -> CflagsLines(m)
              [] p = In(m.dir, "ddk_marker.c") -> <<[k |-> "marker"]>>
              [] OTHER -> <<[k |-> "directory", of |-> m.dir]>>]

-----------------------------------------------------------------------------
(* gen_ddk_makefile for the module above *)

MkInit ==
    /\ subs \in ModuleSet /\ outDir = [p \in {} |-> <<>>] /\ markers = {} /\ mkMods = <<>>
    /\ mkAt = "merging"

\* Mutant: every marker is appended.
SkipNone(p) == FALSE

SkipMarker(p) == p[2] = "ddk_marker.c" /\ p \in markers

\* _merge_directories for the next submodule, which was generated before.
MergeDirectories ==
    /\ mkAt = "merging" /\ subs # <<>> /\ ~ModuleDies(Head(subs))
    /\ LET new == Generated(Head(subs))
           Old(p) == IF p \in DOMAIN outDir THEN outDir[p] ELSE <<>>
           New(p) == IF p \in DOMAIN new /\ ~SkipMarker(p) THEN new[p] ELSE <<>> IN
       /\ outDir' = [p \in DOMAIN outDir \cup DOMAIN new |-> Old(p) \o New(p)]
       /\ markers' = markers \cup {p \in DOMAIN new : p[2] = "ddk_marker.c"}
    /\ mkMods' = Append(mkMods, Head(subs)) /\ subs' = Tail(subs)
    /\ UNCHANGED mkAt

SubmoduleDies ==
    /\ mkAt = "merging" /\ subs # <<>> /\ ModuleDies(Head(subs))
    /\ mkAt' = "died"
    /\ UNCHANGED <<subs, outDir, markers, mkMods>>

\* _append_submodule_linux_include_dirs: once for each directory of submodules.
AppendLinuxIncludes ==
    /\ mkAt = "merging" /\ subs = <<>> /\ mkAt' = "done"
    /\ LET dirs == {mkMods[i].dir : i \in DOMAIN mkMods} IN
       outDir' = [p \in DOMAIN outDir |->
                    IF p[2] = "Kbuild" /\ p[1] \in dirs
                    THEN Append(outDir[p], [k |-> "linux includes"]) ELSE outDir[p]]
    /\ UNCHANGED <<subs, markers, mkMods>>

MkNext == MergeDirectories \/ SubmoduleDies \/ AppendLinuxIncludes

MkSpec == MkInit /\ [][MkNext]_mkVars

-----------------------------------------------------------------------------
(* What make does with the files *)

\* One more line: what is on, the objects of each module, the flags of each object.
Read(config, r, l) ==
    CASE l.k = "ifeq" -> [r EXCEPT !.on = (config[l.config] = l.value)]
      [] l.k = "endif" -> [r EXCEPT !.on = TRUE]
      [] l.k = "object" /\ r.on ->
           IF l.suffix = "y" \/ config[l.suffix] \in {"y", "m"}
           THEN [r EXCEPT !.objects = @ \cup {<<l.of, l.o>>}] ELSE r
      [] l.k = "cflags" /\ r.on -> [r EXCEPT !.flags = @ \cup {<<l.o, l.of>>}]
      [] OTHER -> r

Evaluate(lines, config) ==
    FoldLeft(LAMBDA r, l : Read(config, r, l),
             [on |-> TRUE, objects |-> {}, flags |-> {}], lines)

\* What is there to compile.
InTree == {Obj(f) : f \in UNION {SourcesOf(ToSet(m.items)) : m \in ToSet(mkMods)}}

\* An obj-m without parts is compiled from the source with its name, if there is one.
Linked(r, m) ==
    LET parts == {x[2] : x \in {y \in r.objects : y[1] = m.out}}
    IN  IF parts = {} THEN {Own(m)} \cap InTree ELSE parts

-----------------------------------------------------------------------------
(* Properties *)

Active(item, config) ==
    \/ item.config = NoConfig
    \/ item.value = IsOn /\ config[item.config] \in {"y", "m"}
    \/ item.value # IsOn /\ config[item.config] = item.value

\* What a module is to be built from under a configuration: its sources whose conditions hold
\* and the marker, unless that is in the flags of its only source.
Wants(m, config) ==
    {Obj(f) : f \in SourcesOf({item \in ToSet(m.items) : Active(item, config)})}
    \cup IF Len(Flat(m.items)) <= 1 THEN {} ELSE {Obj(Marker(m))}

\* A module that is to be built from nothing, beside a source of its name.
Stray(m, config) == Wants(m, config) = {} /\ Own(m) \in InTree

\* Under every configuration make links a module from the sources whose conditions hold
\* and from nothing else but the marker, compiles each of these with the flags of the
\* module, and finds the marker exactly once: as an object or in those flags.  Not so a module
\* with the marker's own name, which _handle_ddk_marker means to refuse and does not.  Nor, in
\* what it is linked from, a module left without sources by their conditions, when a source has
\* its name: for that source _handle_src writes a comment and the obj-m stays, so that make
\* compiles it all the same (without the module's flags if those are between ifeq and endif),
\* where ddk_conditional_filegroup.bzl:118 has it included only if the configuration matches.
KbuildMeaning ==
    mkAt = "done" =>
        \A i \in DOMAIN mkMods, config \in Configs : mkMods[i].out # Marker(mkMods[i]).stem =>
            LET m == mkMods[i]
                r == Evaluate(outDir[In(m.dir, "Kbuild")], config)
            IN  /\ Linked(r, m) = Wants(m, config) \/ Stray(m, config)
                /\ \A o \in Wants(m, config) : <<o, m.out>> \in r.flags
                /\ Contains(outDir[In(m.dir, m.out)], [k |-> "include marker"])
                       <=> Len(Flat(m.items)) <= 1
                /\ outDir[In(m.dir, "ddk_marker.c")] = <<[k |-> "marker"]>>
=============================================================================
