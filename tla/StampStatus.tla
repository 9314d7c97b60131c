----------------------------- MODULE StampStatus -----------------------------
(***************************************************************************)
(* The workspace status command (kleaf/workspace_status_stamp.py): it lists *)
(* the Git projects, starts a child for the version and one for the date of *)
(* each, and then reads the children one by one.  Bazel runs it before the  *)
(* actions that are stamped.                                               *)
(*                                                                         *)
(* What it finds on the machine is one record, `world`, chosen at first:    *)
(* what `repo` answers, which directories there are, what each child does.  *)
(***************************************************************************)
EXTENDS WrapperArgs

CONSTANTS
    Project,    \* directories that may be Git projects
    World       \* the machines it may run on

\* manifest: "listed", "norepo" (no .repo above), "bad" (`repo` fails or the XML does
\* not parse), "unreadable"; dates: "preset" (SOURCE_DATE_EPOCH), "git", "none".
WorldType ==
    [words : Seq(CommandFlag \cup CommandValued),
     manifest : {"listed", "norepo", "bad", "unreadable"}, dates : {"preset", "git", "none"},
     listed : SUBSET Project, extra : SUBSET Project, ext : SUBSET Project,
     kernel : SUBSET Project, present : SUBSET Project, scripts : SUBSET Project,
     fails : SUBSET ({"scm", "date"} \X Project), big : SUBSET ({"scm", "date"} \X Project)]

ASSUME StampAssumption == World \subseteq WorldType

Job == {"scm", "date"} \X Project

VARIABLES
    world,
    stampAt,    \* "lists", "finds", "scm", "date", "collects", "ended"
    left,       \* projects the current loop has not come to
    setloc,     \* an executable scripts/setlocalversion was found
    order,      \* the jobs, in the order of the two maps
    job,        \* job[j]: "none", "preset", "runs", "blocked" on a full pipe, "done"
    nread,      \* jobs whose result has been read
    stampCode,  \* exit code, Unset before the end
    printed     \* the jobs whose results are printed

stampVars == <<world, stampAt, left, setloc, order, job, nread, stampCode, printed>>

StampTypeOK ==
    /\ world \in World
    /\ stampAt \in {"lists", "finds", "scm", "date", "collects", "ended"}
    /\ left \subseteq Project /\ setloc \in BOOLEAN
    /\ order \in Seq(Job) /\ nread \in 0 .. Len(order) /\ printed \subseteq Job
    /\ job \in [Job -> {"none", "preset", "runs", "blocked", "done"}]
    /\ stampCode \in {Unset, 0, 1}

StampInit ==
    /\ world \in World
    /\ stampAt = "lists" /\ left = {} /\ setloc = FALSE /\ order = <<>>
    /\ job = [j \in Job |-> "none"] /\ nread = 0
    /\ stampCode = Unset /\ printed = {}

StampExit(code) == stampAt' = "ended" /\ stampCode' = code
StampGoto(s) == stampAt' = s /\ UNCHANGED stampCode

-----------------------------------------------------------------------------
(* What Stamp.__init__ reads *)

Env(x) == StampEnv(x.words)

\* list_projects: no `.repo`, a `repo` that fails and XML that does not parse give no
\* project.
Projects(x) ==
    (IF x.manifest = "listed" THEN x.listed ELSE {})
    \cup (IF Env(x).extra THEN x.extra ELSE {})

\* The filter of --ignore_missing_projects.
IfThere(x, projects) == IF Env(x).ignore THEN projects \cap x.present ELSE projects

Dated(x) == IfThere(x, x.kernel \cup Projects(x))

\* get_ext_modules asks build/_setup_env.sh, if there is a setlocalversion.
Versioned(x, found) == IfThere(x, x.kernel \cup Projects(x) \cup IF found THEN x.ext ELSE {})

\* A manifest that was named is opened without a try.
ListProjects ==
    /\ stampAt = "lists"
    /\ IF Env(world).manifest /\ world.manifest = "unreadable" THEN StampExit(1)
                                                               ELSE StampGoto("finds")
    /\ UNCHANGED <<world, left, setloc, order, job, nread, printed>>

\* find_setlocalversion goes through the kernel and then the projects of the manifest:
\* it ends at the first that has the script, and the program at the first that is not
\* there.
FindSetlocalversion ==
    /\ stampAt = "finds"
    /\ LET have == Dated(world) \cap world.present \cap world.scripts
           lack == Dated(world) \ world.present IN
       \/ /\ ~Env(world).localversion /\ lack # {} /\ world.kernel \cap have = {}
          /\ StampExit(1) /\ UNCHANGED <<left, setloc>>
       \/ /\ \/ Env(world).localversion /\ setloc' = FALSE
             \/ ~Env(world).localversion /\ have # {} /\ setloc' = TRUE
             \/ ~Env(world).localversion /\ have = {} /\ lack = {} /\ setloc' = FALSE
          /\ left' = Versioned(world, setloc')
          /\ StampGoto("scm")
    /\ UNCHANGED <<world, order, job, nread, printed>>

-----------------------------------------------------------------------------
(* The two loops that start children, over sets, in any order *)

Begin(j, state) == job' = [job EXCEPT ![j] = state] /\ order' = Append(order, j)

\* get_localversion_all; without setlocalversion there is nothing to run.
StartScm(p) ==
    /\ stampAt = "scm" /\ p \in left
    /\ IF p \notin world.present
       THEN StampExit(1) /\ UNCHANGED <<left, job, order>>
       ELSE /\ left' = left \ {p} /\ UNCHANGED <<stampAt, stampCode>>
            /\ IF Env(world).localversion \/ setloc THEN Begin(<<"scm", p>>, "runs")
                                                    ELSE UNCHANGED <<job, order>>
    /\ UNCHANGED <<world, setloc, nread, printed>>

ScmStarted ==
    /\ stampAt = "scm" /\ left = {}
    /\ StampGoto("date") /\ left' = Dated(world)
    /\ UNCHANGED <<world, setloc, order, job, nread, printed>>

\* async_get_source_date_epoch: SOURCE_DATE_EPOCH, or git, or "0".
StartDate(p) ==
    /\ stampAt = "date" /\ p \in left
    /\ left' = left \ {p}
    /\ Begin(<<"date", p>>, IF world.dates = "git" THEN "runs" ELSE "preset")
    /\ UNCHANGED <<world, stampAt, setloc, nread, stampCode, printed>>

DateStarted ==
    /\ stampAt = "date" /\ left = {}
    /\ StampGoto("collects")
    /\ UNCHANGED <<world, left, setloc, order, job, nread, printed>>

-----------------------------------------------------------------------------
(* The children, and collect_map *)

\* A child ends, or first fills its pipe.
ChildRuns(j) ==
    /\ job[j] = "runs"
    /\ job' = [job EXCEPT ![j] = IF j \in world.big THEN "blocked" ELSE "done"]
    /\ UNCHANGED <<world, stampAt, left, setloc, order, nread, stampCode, printed>>

IsRead(j) == stampAt = "collects" /\ nread < Len(order) /\ order[nread + 1] = j

\* Mutant: wait() comes before read().
ReadAfterExit(j) == stampAt = "ended"

\* communicate() reads to the end; SIGPIPE ends the child of a parent that is gone.
Unblocks(j) == IsRead(j) \/ stampAt = "ended"

ChildUnblocked(j) ==
    /\ job[j] = "blocked" /\ Unblocks(j)
    /\ job' = [job EXCEPT ![j] = "done"]
    /\ UNCHANGED <<world, stampAt, left, setloc, order, nread, stampCode, printed>>

\* Mutant: the return code is not looked at.
FailsSilently(j) == FALSE

Failed(j) == job[j] = "done" /\ j \in world.fails

\* collect ends the program at the first child that failed, whatever still runs.
Collect ==
    /\ stampAt = "collects" /\ nread < Len(order)
    /\ LET j == order[nread + 1] IN
       /\ job[j] \in {"done", "preset"}
       /\ IF Failed(j) THEN StampExit(1) /\ UNCHANGED nread
                       ELSE nread' = nread + 1 /\ UNCHANGED <<stampAt, stampCode>>
    /\ UNCHANGED <<world, left, setloc, order, job, printed>>

PrintResult ==
    /\ stampAt = "collects" /\ nread = Len(order)
    /\ printed' = {order[i] : i \in DOMAIN order}
    /\ StampExit(0)
    /\ UNCHANGED <<world, left, setloc, order, job, nread>>

StampProgram ==
    \/ ListProjects \/ FindSetlocalversion \/ ScmStarted \/ DateStarted \/ Collect \/ PrintResult
    \/ \E p \in Project : StartScm(p) \/ StartDate(p)

StampChild(j) == ChildRuns(j) \/ ChildUnblocked(j)

StampNext == StampProgram \/ \E j \in Job : StampChild(j)

StampSpec == StampInit /\ [][StampNext]_stampVars

\* The program and each child run unless they are blocked.
StampFairness == WF_stampVars(StampProgram) /\ \A j \in Job : WF_stampVars(StampChild(j))

-----------------------------------------------------------------------------
(* Properties *)

\* What the command must answer on the machine x, whatever the order of the sets and of
\* the children: an exit code and the jobs whose results it prints.
Answer(x) ==
    LET found == ~Env(x).localversion /\ Dated(x) \cap x.present \cap x.scripts # {}
        run == (IF Env(x).localversion \/ found THEN {"scm"} \X Versioned(x, found) ELSE {})
               \cup (IF x.dates = "git" THEN {"date"} \X Dated(x) ELSE {})
        preset == IF x.dates = "git" THEN {} ELSE {"date"} \X Dated(x)
        fails == \/ Env(x).manifest /\ x.manifest = "unreadable"
                 \/ ~(Versioned(x, found) \subseteq x.present)
                 \/ run \cap x.fails # {}
    IN  IF fails THEN [code |-> 1, printed |-> {}] ELSE [code |-> 0, printed |-> run \cup preset]

\* The exit code and the projects that get a version and a date depend on the machine
\* alone; a failed child is never printed as a result.
StampOutcome ==
    stampAt = "ended" => [code |-> stampCode, printed |-> printed] = Answer(world)

\* The command ends and no child outlives it for ever, though each of them may block on
\* a pipe that is read last, or never.
StampDone ==
    <>[](stampAt = "ended" /\ \A j \in Job : job[j] \notin {"runs", "blocked"})
=============================================================================
