----------------------------- MODULE UpdateFile -----------------------------
(***************************************************************************)
(* KleafProjectSetter._update_file of init/init_ddk.py: MODULE.bazel and    *)
(* device.bazelrc belong to the user except for a section between two       *)
(* markers, which every run of init_ddk.py writes again.                    *)
(*                                                                         *)
(* The file is copied line by line to a temporary file, which then replaces *)
(* it: by a rename or, when the temporary directory is on another file      *)
(* system, by a copy.  The program may be killed and run again.             *)
(***************************************************************************)
EXTENDS Integers, Sequences, SequencesExt

CONSTANTS
    UserText,       \* what the user's lines say
    Update,         \* the contents init_ddk.py generates
    MaxLine,        \* bound: lines of the user's file
    OpenLine,       \* whether the last line of the user's file may lack its newline
    MaxRun,         \* bound: runs of init_ddk.py
    MaxKill         \* bound: runs that are killed

ASSUME UpdateFileAssumption ==
    /\ UserText \cap Update = {} /\ "" \notin UserText \cup Update
    /\ MaxLine \in Nat /\ MaxRun \in Nat /\ MaxKill \in Nat
    /\ OpenLine \in BOOLEAN

\* A line: its text, the marker it ends in, and whether a newline follows.  The
\* markers include the newline, so an open line has none.
Line(text, mark, nl) == [text |-> text, mark |-> mark, nl |-> nl]

Begin  == Line("", "begin", TRUE)
End    == Line("", "end", TRUE)
User(t) == Line(t, "", TRUE)
Open(t) == Line(t, "", FALSE)
Section(u) == <<Begin, Line(u, "", TRUE)>>

AnyLine == {Begin, End} \cup {User(t) : t \in UserText}
UserFiles ==
    LET closed == UNION {[1 .. n -> AnyLine] : n \in 0 .. MaxLine} IN
    closed \cup (IF OpenLine
                 THEN {Append(f, Open(t)) : f \in {g \in closed : Len(g) < MaxLine}, t \in UserText}
                 ELSE {})

-----------------------------------------------------------------------------
(* The copy loop *)

\* Text written after an open line continues that line.
Write(out, l) ==
    IF out # <<>> /\ ~Last(out).nl
    THEN Front(out) \o <<Line(Last(out).text, l.mark, l.nl)>>
    ELSE Append(out, l)

WriteAll(out, lines) == FoldLeft(Write, out, lines)

\* Mutant: a line after the beginning of the section always ends the skipping.
CopyLineUnskips(acc, l, u) ==
    LET added == IF acc.add THEN WriteAll(acc.out, Section(u)) ELSE acc.out
        skip  == l.mark = "begin" IN
    [out     |-> IF skip THEN added ELSE Write(added, l),
     add     |-> l.mark = "begin",
     skip    |-> skip,
     written |-> acc.written \/ acc.add]

\* One turn of `for line in input_file`: the section is written when the line after
\* its beginning is read, and the old one is skipped up to its end.
CopyLine(acc, l, u) ==
    LET added == IF acc.add THEN WriteAll(acc.out, Section(u)) ELSE acc.out
        skip  == l.mark = "begin" \/ (acc.skip /\ l.mark # "end") IN
    [out     |-> IF skip THEN added ELSE Write(added, l),
     add     |-> l.mark = "begin",
     skip    |-> skip,
     written |-> acc.written \/ acc.add]

\* Mutant: the section is added again unless the loop has just written it.
AddsSectionAlways(acc) == TRUE

\* No section was written by the loop: it goes to the end of the file.
AddsSection(acc) == ~acc.written

\* What the temporary file holds for file f and update u.
Updated(f, u) ==
    LET acc == FoldLeft(LAMBDA a, l : CopyLine(a, l, u),
                        [out |-> <<>>, add |-> FALSE, skip |-> FALSE, written |-> FALSE], f) IN
    IF AddsSection(acc) THEN WriteAll(acc.out, Append(Section(u), End)) ELSE acc.out

\* Inside(f, i): line i of f is between the markers, the first line of a section
\* apart, which may begin with text of the user's.
Inside(f, i) ==
    \E b \in 1 .. (i - 1) :
        f[b].mark = "begin" /\ \A e \in (b + 1) .. i : f[e].mark # "end"

\* The user's text outside of the markers, in order.
KeepOutside(f, kept, i) ==
    IF ~Inside(f, i) /\ f[i].text # "" THEN Append(kept, f[i].text) ELSE kept

Outside(f) == FoldLeftDomain(LAMBDA kept, i : KeepOutside(f, kept, i), <<>>, f)

-----------------------------------------------------------------------------

VARIABLES
    mine,       \* history: what the user wrote
    file,       \* the user's file
    exists,     \* it is there
    tmp,        \* the temporary file
    update,     \* the content of this run
    sameFs,     \* the temporary directory is on the file system of the file
    pc, runs, kills

vars == <<mine, file, exists, tmp, update, sameFs, pc, runs, kills>>

TypeOK ==
    /\ exists \in BOOLEAN /\ sameFs \in BOOLEAN
    /\ ~exists => file = <<>>
    /\ \A f \in {file, tmp} : \A i \in DOMAIN f :
          /\ f[i].text \in UserText \cup Update \cup {""}
          /\ f[i].mark \in {"", "begin", "end"}
          /\ f[i].nl \/ (i = Len(f) /\ f[i].mark = "")
    /\ update \in Update
    /\ pc \in {"idle", "copy", "move", "moving"}
    /\ runs \in 0 .. MaxRun /\ kills \in 0 .. MaxKill

Init ==
    /\ exists \in BOOLEAN
    /\ file \in IF exists THEN UserFiles ELSE {<<>>}
    /\ mine = Outside(file)
    /\ sameFs \in BOOLEAN
    /\ tmp = <<>> /\ update \in Update
    /\ pc = "idle" /\ runs = 0 /\ kills = 0

\* Mutant: a file that is not there is not created.
StartWithout(u) ==
    /\ pc = "idle" /\ runs < MaxRun
    /\ update' = u /\ tmp' = <<>>
    /\ pc' = "copy" /\ runs' = runs + 1
    /\ UNCHANGED <<mine, file, exists, sameFs, kills>>

\* open(path, "r"), or "a+" for a file that is not there.
Start(u) ==
    /\ pc = "idle" /\ runs < MaxRun
    /\ exists' = TRUE
    /\ update' = u /\ tmp' = <<>>
    /\ pc' = "copy" /\ runs' = runs + 1
    /\ UNCHANGED <<mine, file, sameFs, kills>>

Copy ==
    /\ pc = "copy"
    /\ tmp' = Updated(file, update)
    /\ pc' = "move"
    /\ UNCHANGED <<mine, file, exists, update, sameFs, runs, kills>>

\* Mutant: the update is appended to the file.
MoveAppends ==
    /\ pc = "move" /\ sameFs
    /\ file' = file \o tmp
    /\ pc' = "idle"
    /\ UNCHANGED <<mine, exists, tmp, update, sameFs, runs, kills>>

\* shutil.move: os.rename
Move ==
    /\ pc = "move" /\ sameFs
    /\ file' = tmp
    /\ pc' = "idle"
    /\ UNCHANGED <<mine, exists, tmp, update, sameFs, runs, kills>>

\* shutil.move across file systems: the file is truncated, then written.
MoveBegins ==
    /\ pc = "move" /\ ~sameFs
    /\ file' = <<>>
    /\ pc' = "moving"
    /\ UNCHANGED <<mine, exists, tmp, update, sameFs, runs, kills>>

MoveEnds ==
    /\ pc = "moving"
    /\ file' = tmp
    /\ pc' = "idle"
    /\ UNCHANGED <<mine, exists, tmp, update, sameFs, runs, kills>>

Kill ==
    /\ pc # "idle" /\ kills < MaxKill
    /\ pc' = "idle" /\ kills' = kills + 1
    /\ UNCHANGED <<mine, file, exists, tmp, update, sameFs, runs>>

Next ==
    \/ \E u \in Update : Start(u)
    \/ Copy \/ Move \/ MoveBegins \/ MoveEnds \/ Kill

Spec == Init /\ [][Next]_vars

-----------------------------------------------------------------------------
(* Properties *)

\* Only the text between the markers changes: whatever sections the file had and
\* however many runs follow each other, killed or not, the rest of the file stays
\* what it was, unless a kill interrupts the copy from another file system.
OutsideKept ==
    pc # "moving" /\ (sameFs \/ kills = 0) => Outside(file) = mine

\* After a run there is a section, and every section of the file holds the update
\* and nothing else up to the next marker.
SectionUpdated ==
    [][(pc \in {"move", "moving"} /\ pc' = "idle" /\ kills' = kills) =>
        ( /\ \E b \in DOMAIN file' : file'[b].mark = "begin"
          /\ \A b \in DOMAIN file' : file'[b].mark = "begin" =>
                /\ b < Len(file') /\ file'[b + 1].text = update
                /\ b + 1 < Len(file') => file'[b + 2].mark # "" )]_vars

\* Running again with the same content changes nothing, so that repeated runs, or a
\* run after one that was killed, converge.
Idempotent == pc = "move" => Updated(tmp, update) = tmp

=============================================================================
