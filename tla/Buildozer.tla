------------------------------ MODULE Buildozer ------------------------------
(***************************************************************************)
(* BuildozerCommandBuilder of kleaf/buildozer_command_builder.py: scripts   *)
(* that maintain BUILD files describe their edits once and the builder runs *)
(* that description twice: first to learn which targets and attributes it   *)
(* touches, then, with what the BUILD files say of them, to write the       *)
(* commands for buildozer.  While it writes it keeps a picture, `existing`, *)
(* of the files as the commands so far will leave them, on which later      *)
(* commands depend.                                                        *)
(*                                                                         *)
(* A BUILD file and the picture are partial functions from keys to entries: *)
(* the key <<target, attribute>>, where the attribute "kind" stands for the *)
(* target itself, and an entry of values and a comment.                    *)
(***************************************************************************)
EXTENDS Naturals, Sequences, SequencesExt

CONSTANTS
    Tool,           \* scripts built on the builder
    Request(_),     \* what one may be asked: its edits `ops`, and whether it `dies` before them
    OldFile(_),     \* the BUILD files a request may meet
    MaxBzRun        \* bound: runs of the script

\* The edits of a script, with their words from a set: the kind of a target is nothing to
\* rename, and only new and note are about a target.
Targets == STRING \X STRING
Attrs == STRING \ {"kind"}
Names == Attrs \cup {"kind"}
Edits(words) ==
    [op : {"set", "set_if_absent", "add"}, t : Targets, a : Names, v : words]
    \cup [op : {"comment"}, t : Targets, a : Names, v : words,
          when : {"always", "unset", "not gki"}]
    \cup [op : {"new", "note"}, t : Targets, a : {"kind"}, v : words]
    \cup [op : {"rename"}, t : Targets, a : Attrs, v : Attrs]

IsSeq(s) == Len(s) \in Nat /\ s = [i \in 1 .. Len(s) |-> s[i]]
IsEntry(e) == e = [val |-> e.val, comment |-> e.comment] /\ IsSeq(e.val)

ASSUME BuildozerAssumption ==
    \A tool \in Tool : \A r \in Request(tool) :
        /\ IsSeq(r.ops) /\ \A i \in DOMAIN r.ops : r.ops[i] \in Edits({r.ops[i].v})
        /\ \A m \in OldFile(r) :
              /\ m = [k \in DOMAIN m |-> m[k]]
              /\ \A k \in DOMAIN m : k \in Targets \X Names /\ IsEntry(m[k])

VARIABLES
    request,
    keepGoing,      \* --keep_going
    buildFile,      \* the BUILD files
    packages,       \* packages known to have a BUILD file
    existing,       \* the builder's picture
    commands,       \* the command file
    bzAt,           \* "idle", "dry", "queried", "written", "done", "raised"
    bzRuns,         \* runs begun
    edited          \* history: the keys the user has edited since the first run

bzVars == <<request, keepGoing, buildFile, packages, existing, commands, bzAt, bzRuns, edited>>

None == "None"
NoEntry == [val |-> <<>>, comment |-> ""]
EntryAt(m, k) == IF k \in DOMAIN m THEN m[k] ELSE NoEntry
With(m, k, e) == [x \in DOMAIN m \cup {k} |-> IF x = k THEN e ELSE m[x]]
Present(m, k) == EntryAt(m, k).val # <<>>

\* The edits a script describes.  A target is a pair of a package and a name.
New(t, kind) == [op |-> "new", t |-> t, a |-> "kind", v |-> kind]
Set(t, a, v) == [op |-> "set", t |-> t, a |-> a, v |-> v]
SetIfAbsent(t, a, v) == [op |-> "set_if_absent", t |-> t, a |-> a, v |-> v]
Add(t, a, v) == [op |-> "add", t |-> t, a |-> a, v |-> v]
Comment(t, a, v, when) == [op |-> "comment", t |-> t, a |-> a, v |-> v, when |-> when]
Rename(t, a, v) == [op |-> "rename", t |-> t, a |-> a, v |-> v]
TargetComment(t, v) == [op |-> "note", t |-> t, a |-> "kind", v |-> v]

\* What is renamed is a temporary attribute of the script's own, which no BUILD file has
\* without its final one: the rename follows whatever is done to it, and is the last.
From(o) == <<o.t, o.a>>
To(o) == <<o.t, o.v>>
Renames(ops) == {ops[i] : i \in {j \in DOMAIN ops : ops[j].op = "rename"}}
HasFinal(m, o) == Present(m, From(o)) => Present(m, To(o))

ASSUME RenameAssumption ==
    \A tool \in Tool : \A r \in Request(tool) : \A o \in Renames(r.ops) :
        /\ \A other \in Renames(r.ops) : To(o) # From(other)
        /\ \A i \in DOMAIN r.ops : From(r.ops[i]) = From(o) =>
               \E j \in DOMAIN r.ops : j >= i /\ r.ops[j] = o
        /\ \A m \in OldFile(r) : HasFinal(m, o)

-----------------------------------------------------------------------------
(* Writing commands: p is the picture, p.cmds the command file *)

Emit(p, o) == [p EXCEPT !.cmds = Append(@, o)]
Believe(p, k, e) == [p EXCEPT !.seen = With(@, k, e)]

\* _new
DoNew(p, o) ==
    LET k == <<o.t, "kind">>
        kind == EntryAt(p.seen, k).val
        known == Believe(p, k, [val |-> <<o.v>>, comment |-> EntryAt(p.seen, k).comment])
    IN  CASE kind = <<>> -> Emit(known, o)
          [] kind # <<>> /\ kind # <<o.v>> -> Emit(known, Set(o.t, "kind", o.v))
          [] OTHER -> p

\* Mutant: set_if_absent is taken to set.
DoSetAlways(p, o) ==
    LET k == <<o.t, o.a>> IN
    Believe(Emit(p, o), k, [EntryAt(p.seen, k) EXCEPT !.val = <<o.v>>])

\* _set_attr
DoSet(p, o) ==
    LET k == <<o.t, o.a>>
        e == EntryAt(p.seen, k)
    IN  Believe(Emit(p, o), k,
                IF o.op = "set" \/ e.val = <<>> THEN [e EXCEPT !.val = <<o.v>>] ELSE e)

\* _add_attr
DoAdd(p, o) ==
    LET k == <<o.t, o.a>> IN
    Believe(Emit(p, o), k, [EntryAt(p.seen, k) EXCEPT !.val = Append(@, o.v)])

\* The predicates that scripts give to _add_comment.
Wanted(when, e) ==
    CASE when = "always" -> TRUE
      [] when = "unset" -> e.val \in {<<>>, <<None>>}
      [] when = "not gki" -> e.val # <<"gki">>

\* Mutant: the attribute is set to None whatever it was.
CommentAfterSet(p, o) ==
    LET k == <<o.t, o.a>>
        q == DoSet(p, Set(o.t, o.a, None))
        e == EntryAt(q.seen, k)
    IN  IF Wanted(o.when, e) /\ e.comment # o.v
        THEN Believe(Emit(q, o), k, [e EXCEPT !.comment = o.v]) ELSE q

\* _add_comment: only an attribute that is there can bear a comment.
DoComment(p, o) ==
    LET k == <<o.t, o.a>>
        q == DoSet(p, SetIfAbsent(o.t, o.a, None))
        e == EntryAt(q.seen, k)
    IN  IF Wanted(o.when, e) /\ e.comment # o.v
        THEN Believe(Emit(q, o), k, [e EXCEPT !.comment = o.v]) ELSE q

\* _rename
DoRename(p, o) ==
    LET from == <<o.t, o.a>> IN
    Believe(Believe(Emit(p, o), <<o.t, o.v>>, EntryAt(p.seen, from)), from, NoEntry)

Perform(p, o) ==
    CASE o.op = "new" -> DoNew(p, o)
      [] o.op \in {"set", "set_if_absent"} -> DoSet(p, o)
      [] o.op = "add" -> DoAdd(p, o)
      [] o.op = "comment" -> DoComment(p, o)
      [] o.op = "rename" -> DoRename(p, o)
      [] o.op = "note" -> Emit(p, o)

\* _create_buildozer_commands, from a picture of what there is.
CreateCommands(seen, ops) == FoldLeft(Perform, [seen |-> seen, cmds |-> <<>>], ops)

-----------------------------------------------------------------------------
(* buildozer *)

Fails(m, c) ==
    CASE c.op = "new" -> Present(m, <<c.t, "kind">>)
      [] c.op = "rename" -> ~Present(m, <<c.t, c.a>>) \/ Present(m, <<c.t, c.v>>)
      [] c.op = "comment" -> ~Present(m, <<c.t, c.a>>)
      [] OTHER -> ~Present(m, <<c.t, "kind">>)

Edit(m, c) ==
    LET k == <<c.t, c.a>>
        e == EntryAt(m, k)
    IN  CASE c.op \in {"new", "set"} -> With(m, k, [e EXCEPT !.val = <<c.v>>])
          [] c.op = "set_if_absent" ->
               IF e.val = <<>> THEN With(m, k, [e EXCEPT !.val = <<c.v>>]) ELSE m
          [] c.op = "add" ->
               IF Contains(e.val, c.v) THEN m ELSE With(m, k, [e EXCEPT !.val = Append(@, c.v)])
          [] c.op \in {"comment", "note"} -> With(m, k, [e EXCEPT !.comment = c.v])
          [] c.op = "rename" -> With(With(m, <<c.t, c.v>>, e), k, NoEntry)

\* One command, for the file of one package: a file has only its own commands.
EditOwn(pkg, r, c) ==
    CASE c.t[1] # pkg -> r
      [] c.t[1] = pkg /\ Fails(r.file, c) -> [r EXCEPT !.failed = TRUE]
      [] OTHER -> [r EXCEPT !.file = Edit(@, c)]

\* Without -k an error leaves the file as it was.
Rewrite(m, cmds, pkg) ==
    LET r == FoldLeft(LAMBDA q, c : EditOwn(pkg, q, c), [file |-> m, failed |-> FALSE], cmds)
    IN  IF r.failed /\ ~keepGoing THEN [file |-> m, failed |-> TRUE] ELSE r

RunBuildozerOn(m, cmds) ==
    LET new == [pkg \in {cmds[i].t[1] : i \in DOMAIN cmds} |-> Rewrite(m, cmds, pkg)]
        FileOf(pkg) == IF pkg \in DOMAIN new THEN new[pkg].file ELSE m
    IN  [file |-> [k \in DOMAIN m \cup UNION {DOMAIN new[pkg].file : pkg \in DOMAIN new} |->
                      EntryAt(FileOf(k[1][1]), k)],
         failed |-> \E pkg \in DOMAIN new : new[pkg].failed]

-----------------------------------------------------------------------------
(* BuildozerCommandBuilder.run *)

NoMap == [k \in {} |-> NoEntry]

BzInit ==
    /\ \E tool \in Tool : request \in Request(tool)
    /\ buildFile \in OldFile(request) /\ keepGoing \in BOOLEAN
    /\ packages = {k[1][1] : k \in DOMAIN buildFile}
    /\ existing = NoMap /\ commands = <<>> /\ bzAt = "idle" /\ bzRuns = 0 /\ edited = {}

NewPackages(ops) == {ops[i].t[1] : i \in {j \in DOMAIN ops : ops[j].op = "new"}}

\* Some scripts stop on an error in their input, unless told to keep going.
Dies == request.dies = "always" \/ (request.dies = "error" /\ ~keepGoing)

\* The dry pass fills the picture's keys; ensure_build_file already makes files.
DryRun ==
    /\ bzAt \in {"idle", "done", "raised"} /\ bzRuns < MaxBzRun
    /\ bzRuns' = bzRuns + 1
    /\ IF Dies
       THEN bzAt' = "raised" /\ UNCHANGED <<existing, packages>>
       ELSE /\ bzAt' = "dry"
            /\ existing' = CreateCommands(NoMap, request.ops).seen
            /\ packages' = packages \cup NewPackages(request.ops)
    /\ UNCHANGED <<request, keepGoing, buildFile, commands, edited>>

\* _get_all_info asks buildozer about every key.
GetAllInfo ==
    /\ bzAt = "dry" /\ bzAt' = "queried"
    /\ existing' = [k \in DOMAIN existing |-> EntryAt(buildFile, k)]
    /\ UNCHANGED <<request, keepGoing, buildFile, packages, commands, bzRuns, edited>>

WriteCommands ==
    /\ bzAt = "queried" /\ bzAt' = "written"
    /\ LET p == CreateCommands(existing, request.ops) IN
       existing' = p.seen /\ commands' = p.cmds
    /\ UNCHANGED <<request, keepGoing, buildFile, packages, bzRuns, edited>>

\* _run_buildozer: that nothing changed is no error, anything else is raised.
RunBuildozer ==
    /\ bzAt = "written"
    /\ LET r == RunBuildozerOn(buildFile, commands) IN
       /\ buildFile' = r.file
       /\ bzAt' = IF r.failed THEN "raised" ELSE "done"
    /\ UNCHANGED <<request, keepGoing, packages, existing, commands, bzRuns, edited>>

\* The user acts on a FIXME: an attribute gets a value and loses its comment.
UserEdits ==
    /\ bzAt \in {"done", "raised"} /\ bzAt' = "idle" /\ edited = {} /\ bzRuns < MaxBzRun
    /\ \E k \in {x \in DOMAIN buildFile : x[2] # "kind" /\ Present(buildFile, x)} :
          /\ buildFile' = [buildFile EXCEPT ![k] = [val |-> <<"user">>, comment |-> ""]]
          /\ edited' = {k}
    /\ UNCHANGED <<request, keepGoing, packages, existing, commands, bzRuns>>

BzNext == DryRun \/ GetAllInfo \/ WriteCommands \/ RunBuildozer \/ UserEdits

BzSpec == BzInit /\ [][BzNext]_bzVars

-----------------------------------------------------------------------------
(* Properties *)

Values(e) == ToSet(e.val)

\* After a run without an error the picture is the BUILD files: what the script decided
\* from it along the way, it decided from the truth.
BeliefIsTrue ==
    bzAt = "done" =>
        \A k \in DOMAIN existing :
            /\ Values(existing[k]) = Values(EntryAt(buildFile, k))
            /\ k[2] # "kind" => existing[k].comment = EntryAt(buildFile, k).comment

\* The attributes a script gives a value of its own; others it only adds to, or marks.
Owned(ops) ==
    {<<ops[i].t, IF ops[i].op = "rename" THEN ops[i].v ELSE ops[i].a>> :
        i \in {j \in DOMAIN ops : ops[j].op \in {"set", "rename"}}}

\* What the user put in the place of a FIXME survives every later run.
UserValueKept ==
    \A k \in edited \ Owned(request.ops) : "user" \in Values(EntryAt(buildFile, k))
=============================================================================
