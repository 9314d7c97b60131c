---------------------------- MODULE HermeticPath ----------------------------
(***************************************************************************)
(* The directory of tools that is Bazel's PATH                              *)
(* (BazelWrapper._add_default_hermetic_path and remove_gen_dirs of          *)
(* kleaf/bazel.py).  Every wrapper of a checkout sets the same directory up *)
(* before its Bazel starts, without a lock; `clean` removes it after its    *)
(* Bazel has ended.  Each action is one call into the file system.          *)
(***************************************************************************)
EXTENDS Naturals, FiniteSets

CONSTANTS
    Wrapper,        \* the wrappers that are run on the checkout
    Hosts,          \* positions 1 .. Hosts: tools of the host, in the order of the list
    Tools,          \* positions Hosts + 1 .. Tools: hermetic tools
    Names,          \* positions Tools + 1 .. Names: other files of the directory
    Found,          \* the host tools that shutil.which finds
    OldEntry,       \* what may be in the directory at first
    Cleaners        \* the sets of wrappers that may be running `clean`

ASSUME HermeticPathAssumption ==
    /\ Hosts \in Nat /\ Tools \in Nat /\ Names \in Nat
    /\ Hosts <= Tools /\ Tools <= Names
    /\ Found \subseteq 1 .. Hosts
    /\ Cleaners \subseteq SUBSET Wrapper

\* A link to what the wrapper would link, one to another existing file, one to
\* nothing, and a file that is no link.
Entry == {"absent", "right", "wrong", "dangling", "file"}
ASSUME OldEntryAssumption == OldEntry \subseteq [1 .. Names -> Entry]

VARIABLES
    entry,      \* the directory: what is at each position
    made,       \* the directory exists
    at,         \* at[w]: what w does next
    pos,        \* pos[w]: the tool it is at
    seen,       \* seen[w]: the names it still has to remove of those it listed
    old,        \* history: the directory before the first wrapper
    cleaner     \* the wrappers whose command is `clean`

pathVars == <<entry, made, at, pos, seen, old, cleaner>>

Step == {"new", "look", "exists", "unlink", "make", "chmod", "list", "sweep",
         "runs", "clean", "ended", "died"}

PathTypeOK ==
    /\ entry \in [1 .. Names -> Entry] /\ old \in OldEntry
    /\ made \in BOOLEAN
    /\ at \in [Wrapper -> Step]
    /\ pos \in [Wrapper -> 1 .. Tools + 1]
    /\ seen \in [Wrapper -> SUBSET (1 .. Names)]
    /\ cleaner \in Cleaners

PathInit ==
    /\ old \in OldEntry /\ entry = old
    /\ made = (\E i \in 1 .. Names : old[i] # "absent")
    /\ at = [w \in Wrapper |-> "new"] /\ pos = [w \in Wrapper |-> 1]
    /\ seen = [w \in Wrapper |-> {}]
    /\ cleaner \in Cleaners

Goto(w, s) == at' = [at EXCEPT ![w] = s] /\ UNCHANGED pos

\* The loops over the tools go on, or are over.
Advance(w) ==
    /\ pos' = [pos EXCEPT ![w] = @ + 1]
    /\ at' = [at EXCEPT ![w] = IF pos[w] < Tools THEN "look" ELSE "list"]

Put(i, e) == entry' = [entry EXCEPT ![i] = e]

Mkdir(w) ==
    /\ at[w] = "new" /\ made' = TRUE
    /\ Goto(w, IF Tools = 0 THEN "list" ELSE "look")
    /\ UNCHANGED <<entry, seen, old, cleaner>>

\* A host tool that is linked already is left alone.
LookHost(w) ==
    /\ at[w] = "look" /\ pos[w] <= Hosts
    /\ IF pos[w] \in Found /\ entry[pos[w]] = "right" THEN Advance(w) ELSE Goto(w, "exists")
    /\ UNCHANGED <<entry, made, seen, old, cleaner>>

\* Mutant: whatever is there is removed without looking.
ExistsUnasked(w) ==
    /\ at[w] = "exists" /\ Goto(w, "unlink")
    /\ UNCHANGED <<entry, made, seen, old, cleaner>>

\* if dst_path.is_symlink() or dst_path.exists(), asked again: another wrapper may
\* have made the link since.
Exists(w) ==
    /\ at[w] = "exists"
    /\ Goto(w, IF entry[pos[w]] = "absent" THEN "make" ELSE "unlink")
    /\ UNCHANGED <<entry, made, seen, old, cleaner>>

\* FileNotFoundError if another wrapper was faster.
Unlink(w) ==
    /\ at[w] = "unlink"
    /\ IF entry[pos[w]] = "absent" THEN Goto(w, "died") /\ UNCHANGED entry
                                   ELSE Goto(w, "make") /\ Put(pos[w], "absent")
    /\ UNCHANGED <<made, seen, old, cleaner>>

\* symlink_to: FileExistsError if another wrapper was faster, FileNotFoundError
\* without the directory.
MakeLink(w) ==
    /\ at[w] = "make" /\ pos[w] \in Found \cup (Hosts + 1 .. Tools)
    /\ IF made /\ entry[pos[w]] = "absent" THEN Advance(w) /\ Put(pos[w], "right")
                                           ELSE Goto(w, "died") /\ UNCHANGED entry
    /\ UNCHANGED <<made, seen, old, cleaner>>

\* write_text writes over a file, and through a link.
Written(e) ==
    IF e = "absent" THEN "file" ELSE IF e = "dangling" THEN "wrong" ELSE e

MakeScript(w) ==
    /\ at[w] = "make" /\ pos[w] \in (1 .. Hosts) \ Found
    /\ IF made THEN /\ Goto(w, "chmod")
                    /\ Put(pos[w], Written(entry[pos[w]]))
               ELSE Goto(w, "died") /\ UNCHANGED entry
    /\ UNCHANGED <<made, seen, old, cleaner>>

Chmod(w) ==
    /\ at[w] = "chmod"
    /\ IF entry[pos[w]] \in {"absent", "dangling"} THEN Goto(w, "died") ELSE Advance(w)
    /\ UNCHANGED <<entry, made, seen, old, cleaner>>

\* Mutant: is_symlink() in place of exists().
IsLink(e) == e \in {"right", "wrong", "dangling"}

\* exists() follows the link.
Resolves(e) == e \in {"right", "wrong", "file"}

LookHermetic(w) ==
    /\ at[w] = "look" /\ pos[w] \in Hosts + 1 .. Tools
    /\ IF Resolves(entry[pos[w]]) THEN Advance(w) ELSE Goto(w, "make")
    /\ UNCHANGED <<entry, made, seen, old, cleaner>>

Listed(w, names) ==
    /\ seen' = [seen EXCEPT ![w] = {i \in names : entry[i] # "absent"}]
    /\ UNCHANGED <<entry, made, old, cleaner>>

\* iterdir() lists the directory before the first file is removed.
List(w) ==
    /\ at[w] = "list"
    /\ Goto(w, IF made THEN "sweep" ELSE "died")
    /\ IF made THEN Listed(w, Tools + 1 .. Names) ELSE UNCHANGED <<entry, made, seen, old, cleaner>>

\* A directory is listed in the same order for everyone.
First(w) == CHOOSE i \in seen[w] : \A j \in seen[w] : i <= j

Sweep(w) ==
    /\ at[w] = "sweep" /\ seen[w] # {}
    /\ IF entry[First(w)] = "absent"
       THEN Goto(w, "died") /\ UNCHANGED <<entry, seen>>
       ELSE /\ Put(First(w), "absent")
            /\ seen' = [seen EXCEPT ![w] = @ \ {First(w)}]
            /\ UNCHANGED <<at, pos>>
    /\ UNCHANGED <<made, old, cleaner>>

\* self.env["PATH"] is set, and Bazel runs.
StartsRun(w) ==
    /\ at[w] = "sweep" /\ seen[w] = {}
    /\ Goto(w, "runs")
    /\ UNCHANGED <<entry, made, seen, old, cleaner>>

\* Bazel ends; `clean` then calls remove_gen_dirs, which lists what to remove.
RunEnds(w) ==
    /\ at[w] = "runs"
    /\ IF w \in cleaner THEN Goto(w, "clean") /\ Listed(w, 1 .. Names)
                        ELSE Goto(w, "ended") /\ UNCHANGED <<entry, made, seen, old, cleaner>>

\* shutil.rmtree(..., ignore_errors=True)
RemoveOne(w) ==
    /\ at[w] = "clean" /\ seen[w] # {}
    /\ Put(First(w), "absent")
    /\ seen' = [seen EXCEPT ![w] = @ \ {First(w)}]
    /\ UNCHANGED <<made, at, pos, old, cleaner>>

RemoveDir(w) ==
    /\ at[w] = "clean" /\ seen[w] = {}
    /\ Goto(w, "ended")
    /\ made' = (made /\ \E i \in 1 .. Names : entry[i] # "absent")
    /\ UNCHANGED <<entry, seen, old, cleaner>>

SetUp(w) ==
    \/ Mkdir(w) \/ LookHost(w) \/ Exists(w) \/ Unlink(w) \/ MakeLink(w) \/ MakeScript(w)
    \/ Chmod(w) \/ LookHermetic(w) \/ List(w) \/ Sweep(w) \/ StartsRun(w)

PathNext == \E w \in Wrapper : SetUp(w) \/ RunEnds(w) \/ RemoveOne(w) \/ RemoveDir(w)

PathSpec == PathInit /\ [][PathNext]_pathVars

-----------------------------------------------------------------------------
(* Properties *)

\* The tool at i is there: the link, the script that reports it missing, or what a
\* hermetic tool's name resolves to.
There(i) ==
    /\ Resolves(entry[i])
    /\ i \in Found => entry[i] = "right"
    /\ i \in (1 .. Hosts) \ Found => entry[i] = "file"

\* w has set the tool at i up.
Passed(w, i) == at[w] # "died" /\ (pos[w] > i \/ at[w] \in {"runs", "ended"})

\* Unless someone cleans, a tool that one wrapper has set up is there for its Bazel
\* whatever the other wrappers do, but for the moment in which one of them has removed
\* the entry and is about to make it again: no tool is lost for good.
NoToolLost ==
    cleaner = {} =>
        \A i \in 1 .. Tools :
            (\E w \in Wrapper : Passed(w, i)) =>
                There(i) \/ \E v \in Wrapper : at[v] = "make" /\ pos[v] = i

\* Wrappers that race over the directory may fail one another, but not all of them:
\* that takes a link to a hermetic tool that dangled before, or a `clean`.
OneStarts ==
    (\A w \in Wrapper : at[w] = "died") =>
        \/ cleaner # {}
        \/ \E i \in Hosts + 1 .. Tools : old[i] = "dangling"
=============================================================================
