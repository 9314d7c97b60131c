---------------------------- MODULE GenDdkHeaders ----------------------------
(***************************************************************************)
(* gen_ddk_headers.py: from the headers and include directories that        *)
(* analyze_inputs.py found, to two ddk_headers targets in each package: one *)
(* with what is allowed, one with the rest.                                 *)
(*                                                                         *)
(* A path is the sequence of its parts ("/" is the first of an absolute     *)
(* one).  A --package is a name and its parts.  An --exclude_regex is the   *)
(* directory it is anchored to.  The input is a record of the paths given,  *)
(* of those that exist and of where symbolic links lead.                    *)
(***************************************************************************)
EXTENDS Buildozer, FiniteSets

\* str(path)
Slashed(s, part) == IF s = "" THEN part ELSE s \o "/" \o part
Str(path) == IF path = <<>> THEN "." ELSE FoldLeft(Slashed, "", path)

RelativeTo(path, dir) == SubSeq(path, Len(dir) + 1, Len(path))
Under(path, dirs) == \E i \in DOMAIN dirs : IsPrefix(dirs[i], path)

IsAbsolute(path) == path[1] = "/"
Resolved(in, path) == IF path \in DOMAIN in.links THEN in.links[path] ELSE path
IsMissing(in, path) == ~IsAbsolute(path) /\ Resolved(in, path) \notin in.there

\* _sanitize_includes
Sanitized(in, paths) ==
    {Resolved(in, path) : path \in {q \in paths : ~IsAbsolute(q) /\ ~IsMissing(in, q)}}

\* _handle_unresolved and _calc; relative_to raises ValueError for a link that leaves
\* the workspace, whether or not the script should keep going.
Death(in) ==
    LET given == in.files \cup in.dirs IN
    CASE in.unresolved # {} \/ \E p \in given : IsAbsolute(p) \/ IsMissing(in, p) -> "error"
      [] OTHER -> "never"
Leaves(in) == \E p \in (in.files \cup in.dirs) \cap DOMAIN in.links : IsAbsolute(in.links[p])

\* _get_package: the first that contains the path.
PackageOf(args, path) == SelectInSeq(args.package, LAMBDA p : IsPrefix(p.parts, path))

InPackage(args, n, paths) ==
    {RelativeTo(path, args.package[n].parts) : path \in {q \in paths : PackageOf(args, q) = n}}

IsExcluded(args, item) == Under(item, args.exclude)
IsAllowed(args, item) == Under(item, args.allowed)

\* _get_glob_dir_or_none, where 0 is none.
GlobOf(args, item) == SelectInSeq(args.glob, LAMBDA d : IsPrefix(d, item))

\* Mutant: each directory overwrites the glob of the one before.
LastGlob(args, globs) == <<"glob", Str(args.glob[CHOOSE n \in globs : \A m \in globs : m <= n])>>

\* Of the pattern the directory is kept and not the suffix: `{d}/**/*.h` has every header
\* below d whose name ends in .h, as all those do that the checker is given.
GlobSources(args, globs) ==
    <<"glob">> \o [i \in 1..Cardinality(globs) |-> Str(args.glob[SetToSeq(globs)[i]])]

\* _generate_target
GenerateTarget(args, pkg, name, files, attr, dirs, included) ==
    LET t == <<pkg, name>>
        globTarget == <<pkg, name \o "_globs">>
        Taken(item) == ~IsExcluded(args, item) /\ item \in included
        taken == {f \in files : Taken(f)}
        globs == {GlobOf(args, f) : f \in taken} \ {0}
        listed == {f \in taken : GlobOf(args, f) = 0}
        AddEach(a, items) == [i \in 1..Cardinality(items) |-> Add(t, a, Str(SetToSeq(items)[i]))]
    IN  <<New(t, "ddk_headers")>> \o AddEach("hdrs", listed)
        \o AddEach(attr, {d \in dirs : Taken(d)})
        \o IF globs = {} THEN <<>>
           ELSE <<New(globTarget, "filegroup"), Set(globTarget, "srcs", GlobSources(args, globs)),
                  Add(t, "hdrs", name \o "_globs")>>

\* _create_buildozer_commands: packages without a header get no target.
HeaderOps(args, in) ==
    LET files == Sanitized(in, in.files)
        dirs == Sanitized(in, in.dirs)
        Ops(n) ==
            LET fs == InPackage(args, n, files)
                ds == InPackage(args, n, dirs)
                allowed == {x \in fs \cup ds : IsAllowed(args, x)}
                pkg == args.package[n].name
            IN  IF fs = {} THEN <<>>
                ELSE GenerateTarget(args, pkg, "all_headers_allowlist_" \o args.arch, fs,
                                    "linux_includes", ds, allowed)
                     \o GenerateTarget(args, pkg, "all_headers_unsafe", fs,
                                       "includes", ds, (fs \cup ds) \ allowed)
    IN  FlattenSeq([n \in DOMAIN args.package |-> Ops(n)])

HeaderRequest(args, in) ==
    LET dies == IF Leaves(in) THEN "always" ELSE Death(in) IN
    [tool |-> "headers", args |-> args, in |-> in, dies |-> dies,
     ops |-> IF dies = "always" THEN <<>> ELSE HeaderOps(args, in)]

-----------------------------------------------------------------------------
(* Properties *)

\* What a target of ddk_headers offers: item, relative to the package, is listed or is
\* below a directory that its filegroup globs.
Offers(pkg, name, attr, item) ==
    LET hdrs == Values(EntryAt(buildFile, <<<<pkg, name>>, attr>>))
        globs == EntryAt(buildFile, <<<<pkg, name \o "_globs">>, "srcs">>).val
    IN  \/ Str(item) \in hdrs
        \/ /\ name \o "_globs" \in hdrs /\ globs # <<>>
           /\ \E k \in 1..Len(item) : Contains(globs[1], Str(SubSeq(item, 1, k)))

\* After a run every header that is in the workspace and in a known package is offered,
\* by the allowlist target if it is allowed and else by the unsafe one, and by one of
\* them only, unless --glob names a directory of which but a part is --allowed.
HeadersPlaced ==
    bzAt = "done" /\ request.tool = "headers" /\ edited = {} =>
        LET args == request.args
            allowlist == "all_headers_allowlist_" \o args.arch
            Placed(pkg, item, inAllow, inUnsafe, mixed) ==
                IF Under(item, args.allowed)
                THEN Offers(pkg, allowlist, inAllow, item)
                     /\ (mixed \/ ~Offers(pkg, "all_headers_unsafe", inUnsafe, item))
                ELSE Offers(pkg, "all_headers_unsafe", inUnsafe, item)
                     /\ (mixed \/ ~Offers(pkg, allowlist, inAllow, item))
            Mixed(item) == \E i \in DOMAIN args.glob, j \in DOMAIN args.allowed :
                              /\ IsPrefix(args.glob[i], item)
                              /\ IsStrictPrefix(args.glob[i], args.allowed[j])
            Home(path) == SelectInSeq(args.package, LAMBDA p : IsPrefix(p.parts, path))
        IN  \A path \in request.in.files :
               LET real == Resolved(request.in, path)
                   home == Home(real)
                   item == RelativeTo(real, args.package[home].parts)
               IN  real \in request.in.there /\ home # 0 /\ ~Under(item, args.exclude) =>
                     Placed(args.package[home].name, item, "hdrs", "hdrs", Mixed(item))
=============================================================================
