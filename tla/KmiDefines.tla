----------------------------- MODULE KmiDefines -----------------------------
(***************************************************************************)
(* abi/kmi_defines.py on a whole build: vmlinux.o is inspected by a process *)
(* of its own, the *.ko files by a multiprocessing pool in chunks, and the  *)
(* parent gathers the components, logs the errors and prints the headers    *)
(* that several components share.                                          *)
(*                                                                         *)
(* Inspecting a file succeeds, raises StopError ("stop"), which the factory *)
(* turns into a KernelComponentCreationError, or raises something else      *)
(* ("crash"): IndexError on an empty .cmd file, UnicodeDecodeError.         *)
(***************************************************************************)
EXTENDS Integers, Sequences, FiniteSets

CONSTANTS
    Modules,        \* the sequence of *.ko files, as rglob lists them
    Header,         \* header files
    DepsOf,         \* DepsOf[f]: the headers among the dependencies of file f
    Outcome,        \* the outcomes of an inspection, of {"ok", "stop", "crash"}
    MaxBad,         \* bound: files whose inspection does not succeed
    ChunkSize,      \* chunk_size: 128 in the code
    Share,          \* chunks for each process: 3 in the code
    CpuCount        \* os.cpu_count()

VmLinux == "vmlinux"
Files   == <<VmLinux>> \o Modules
File    == {Files[i] : i \in DOMAIN Files}

ASSUME KmiDefinesAssumption ==
    /\ Modules \in Seq({Modules[i] : i \in DOMAIN Modules})
    /\ DepsOf \in [File -> SUBSET Header]
    /\ Outcome \subseteq {"ok", "stop", "crash"}
    /\ {ChunkSize, Share, CpuCount} \subseteq Nat \ {0}
    /\ MaxBad \in Nat

AtMost(m, n) == IF m < n THEN m ELSE n
AtLeast(m, n) == IF m > n THEN m ELSE n

\* max(1, len(files) // (chunk_size * 3)), at most cpu_count.
Processes == AtMost(AtLeast(1, Len(Modules) \div (ChunkSize * Share)), CpuCount)
Worker    == 1 .. Processes

\* Mutant: a last chunk that is not full is forgotten.
ChunksFull == Len(Modules) \div ChunkSize

\* Pool.map cuts the list into chunks of chunk_size; the last may be shorter.
Chunks == (Len(Modules) + ChunkSize - 1) \div ChunkSize
ChunkFiles(c) ==
    {i \in DOMAIN Modules : (c - 1) * ChunkSize < i /\ i <= c * ChunkSize}

VARIABLES
    sequential, \* --sequential
    fits,       \* whether vmlinux.o's component fits in the pipe of the queue
    outcome,    \* outcome[f]: how inspecting file f ends
    parent,     \* where the parent is
    child,      \* KernelComponentProcess: "work", "feed" (its item is in the queue), "exited"
    received,   \* the parent has taken the child's component from the queue
    job,        \* job[w]: the chunk worker w is on, or 0
    left,       \* left[w]: indices of the modules of that chunk still to inspect
    chunk,      \* chunk[c]: "todo", "taken", "done" or "raised"
    component,  \* component[f]: what the parent gets for file f
    logged,     \* the files whose error was logged, in order
    counted,    \* header_count
    exit        \* "none", the value of main (0 or 1) or "traceback"

input == <<sequential, fits, outcome>>
vars == <<input, parent, child, received, job, left, chunk, component, logged, counted, exit>>

TypeOK ==
    /\ {sequential, fits} \subseteq BOOLEAN
    /\ outcome \in [File -> Outcome]
    /\ parent \in {"start", "map", "get", "join", "report", "unwind", "ended"}
    /\ child \in {"none", "work", "feed", "exited"}
    /\ received \in BOOLEAN
    /\ job \in [Worker -> 0 .. Chunks]
    /\ left \in [Worker -> SUBSET DOMAIN Modules]
    /\ chunk \in [1 .. Chunks -> {"todo", "taken", "done", "raised"}]
    /\ component \in [File -> {"none", "ok", "stop"}]
    /\ counted \in [Header -> 0 .. Len(Files)]
    /\ exit \in {"none", "0", "1", "traceback"}

Init ==
    /\ sequential \in BOOLEAN /\ fits \in BOOLEAN
    /\ outcome \in [File -> Outcome]
    /\ Cardinality({f \in File : outcome[f] # "ok"}) <= MaxBad
    /\ parent = "start" /\ child = "none" /\ received = FALSE
    /\ job = [w \in Worker |-> 0] /\ left = [w \in Worker |-> {}]
    /\ chunk = [c \in 1 .. Chunks |-> "todo"]
    /\ component = [f \in File |-> "none"]
    /\ logged = <<>>
    /\ counted = [h \in Header |-> 0]
    /\ exit = "none"

-----------------------------------------------------------------------------
(* work_on_all_components *)

\* --sequential: kernel_component_factory for each file in this process; the first
\* exception that is not a StopError ends the program.
RunSequential ==
    /\ parent = "start" /\ sequential
    /\ IF \E f \in File : outcome[f] = "crash"
       THEN parent' = "unwind" /\ UNCHANGED component
       ELSE parent' = "report" /\ component' = outcome
    /\ UNCHANGED <<input, child, received, job, left, chunk, logged, counted, exit>>

\* KernelComponentProcess(), then Pool(processes).map over the modules.
StartAll ==
    /\ parent = "start" /\ ~sequential
    /\ parent' = "map"
    /\ child' = "work"
    /\ UNCHANGED <<input, received, job, left, chunk, component, logged, counted, exit>>

\* KernelComponentProcess.run: only a result or a StopError reaches the queue.
ChildWork ==
    /\ child = "work"
    /\ child' = IF outcome[VmLinux] = "crash" THEN "exited" ELSE "feed"
    /\ UNCHANGED <<input, parent, received, job, left, chunk, component, logged, counted, exit>>

\* The queue's feeder thread writes the component to the pipe: a process does not
\* exit before that is done, and a large component needs a reader.
ChildExit ==
    /\ child = "feed"
    /\ fits \/ received
    /\ child' = "exited"
    /\ UNCHANGED <<input, parent, received, job, left, chunk, component, logged, counted, exit>>

TakeChunk(w, c) ==
    /\ parent = "map" /\ job[w] = 0 /\ chunk[c] = "todo"
    /\ job' = [job EXCEPT ![w] = c]
    /\ left' = [left EXCEPT ![w] = ChunkFiles(c)]
    /\ chunk' = [chunk EXCEPT ![c] = "taken"]
    /\ UNCHANGED <<input, parent, child, received, component, logged, counted, exit>>

\* The next module of the chunk; an exception that escapes the factory ends it.
InspectModule(w) ==
    /\ parent = "map"
    /\ \E i \in left[w] :
        /\ \A k \in left[w] : i <= k
        /\ IF outcome[Modules[i]] = "crash"
           THEN /\ left' = [left EXCEPT ![w] = {}]
                /\ chunk' = [chunk EXCEPT ![job[w]] = "raised"]
                /\ UNCHANGED component
           ELSE /\ left' = [left EXCEPT ![w] = @ \ {i}]
                /\ component' = [component EXCEPT ![Modules[i]] = outcome[Modules[i]]]
                /\ UNCHANGED chunk
    /\ UNCHANGED <<input, parent, child, received, job, logged, counted, exit>>

EndChunk(w) ==
    /\ parent = "map" /\ job[w] # 0 /\ left[w] = {}
    /\ chunk' = [chunk EXCEPT ![job[w]] = IF @ = "raised" THEN @ ELSE "done"]
    /\ job' = [job EXCEPT ![w] = 0]
    /\ UNCHANGED <<input, parent, child, received, left, component, logged, counted, exit>>

\* Mutant: the map is ready as soon as one chunk is.
MapReadyEarly == Chunks > 0 => \E c \in 1 .. Chunks : chunk[c] \in {"done", "raised"}

\* The map's result is ready when every chunk has one.
MapReady == \A c \in 1 .. Chunks : chunk[c] \in {"done", "raised"}

\* pool.map returns the components, or raises what the first failing chunk raised.
MapReturns ==
    /\ parent = "map" /\ MapReady
    /\ \A w \in Worker : job[w] = 0
    /\ parent' = IF \E c \in 1 .. Chunks : chunk[c] = "raised" THEN "unwind" ELSE "get"
    /\ UNCHANGED <<input, child, received, job, left, chunk, component, logged, counted, exit>>

\* Mutant: get_component joins the process before it reads the queue.
GetAfterJoin ==
    /\ parent = "get" /\ child = "exited"
    /\ parent' = "join" /\ received' = TRUE
    /\ component' = [component EXCEPT ![VmLinux] = outcome[VmLinux]]
    /\ UNCHANGED <<input, child, job, left, chunk, logged, counted, exit>>

\* self._queue.get()
GetComponent ==
    /\ parent = "get"
    /\ child = "feed" \/ (child = "exited" /\ outcome[VmLinux] # "crash")
    /\ parent' = "join" /\ received' = TRUE
    /\ component' = [component EXCEPT ![VmLinux] = outcome[VmLinux]]
    /\ UNCHANGED <<input, child, job, left, chunk, logged, counted, exit>>

\* self.join()
JoinChild ==
    /\ parent = "join" /\ child = "exited"
    /\ parent' = "report"
    /\ UNCHANGED <<input, child, received, job, left, chunk, component, logged, counted, exit>>

-----------------------------------------------------------------------------
(* work_on_whole_build *)

\* The files whose inspection failed, in the order of the list.
Failing(result) == SelectSeq(Files, LAMBDA f : result[f] = "stop")

\* How often each header is among the dependencies of the components.
Counts(result) ==
    [h \in Header |-> Cardinality({f \in File : result[f] = "ok" /\ h \in DepsOf[f]})]

ExitOf(result) == IF \E f \in File : result[f] = "stop" THEN "1" ELSE "0"

\* Every error is logged and fails the run; the headers of the others are counted.
Report ==
    /\ parent = "report"
    /\ logged' = Failing(component)
    /\ counted' = Counts(component)
    /\ exit' = ExitOf(component)
    /\ parent' = "ended"
    /\ UNCHANGED <<input, child, received, job, left, chunk, component>>

\* An exception leaves main: before the interpreter exits, multiprocessing joins
\* the processes that are still there.
Unwind ==
    /\ parent = "unwind" /\ child \in {"none", "exited"}
    /\ exit' = "traceback"
    /\ parent' = "ended"
    /\ UNCHANGED <<input, child, received, job, left, chunk, component, logged, counted>>

Done == parent = "ended" /\ UNCHANGED vars

Work(w) == InspectModule(w) \/ EndChunk(w) \/ \E c \in 1 .. Chunks : TakeChunk(w, c)
Parent  == RunSequential \/ StartAll \/ MapReturns \/ GetComponent \/ JoinChild \/ Report \/ Unwind
Child   == ChildWork \/ ChildExit

Next == Parent \/ Child \/ (\E w \in Worker : Work(w)) \/ Done

Spec == Init /\ [][Next]_vars
\* The operating system runs every process that can run.
FairSpec == Spec /\ WF_vars(Parent) /\ WF_vars(Child) /\ \A w \in Worker : WF_vars(Work(w))

-----------------------------------------------------------------------------
(* Properties *)

Crashes == \E f \in File : outcome[f] = "crash"

\* However the pool and the child interleave, the program ends as --sequential would:
\* with every StopError logged in the order of the files, or with a traceback.
SameAsSequential ==
    parent = "ended" =>
        IF Crashes THEN exit = "traceback"
        ELSE logged = Failing(outcome) /\ exit = ExitOf(outcome)

\* A successful run has counted every header of every component, once for each.
CountsComplete ==
    exit = "0" =>
        \A h \in Header : counted[h] = Cardinality({f \in File : h \in DepsOf[f]})

\* The process of vmlinux.o never outlives the program.
NoOrphan == parent = "ended" => child \in {"none", "exited"}

\* The program ends when every inspection succeeds or fails with StopError: no
\* process waits for one that waits for it, however large the component is.
EndsUnlessCrash ==
    (\A f \in File : outcome[f] # "crash") => <>(parent = "ended")

\* The program ends.
Ends == <>(parent = "ended")
-----------------------------------------------------------------------------
(* The inductive invariant behind the safety properties *)

Inspected(f) == component[f] = outcome[f] /\ outcome[f] # "crash"

\* A chunk belongs to at most one worker; what is not left of it has been inspected,
\* and one that has raised holds a file whose inspection raises.
ChunkOK ==
    /\ \A w \in Worker :
        /\ job[w] # 0 => chunk[job[w]] \in {"taken", "raised"}
        /\ job[w] # 0 => \A v \in Worker : job[v] = job[w] => v = w
        /\ left[w] # {} => job[w] # 0 /\ chunk[job[w]] = "taken"
        /\ job[w] # 0 /\ chunk[job[w]] = "taken" =>
              \A i \in ChunkFiles(job[w]) \ left[w] : Inspected(Modules[i])
    /\ \A c \in 1 .. Chunks :
        /\ chunk[c] = "done" => \A i \in ChunkFiles(c) : Inspected(Modules[i])
        /\ chunk[c] = "raised" => Crashes

\* The child is there from the start of the pool until it is joined.
ChildOK ==
    /\ parent = "start" => child = "none"
    /\ child = "feed" => outcome[VmLinux] # "crash"
    /\ parent \in {"report", "ended"} => child \in {"none", "exited"}

\* What the parent holds at each step.
ParentOK ==
    /\ parent \in {"get", "join"} => \A i \in DOMAIN Modules : Inspected(Modules[i])
    /\ parent = "join" => Inspected(VmLinux)
    /\ parent = "report" => component = outcome /\ ~Crashes
    /\ parent = "unwind" => Crashes
    /\ parent # "ended" => exit = "none"

\* How the program ends.
ResultOK ==
    parent = "ended" =>
        \/ Crashes /\ exit = "traceback"
        \/ /\ ~Crashes
           /\ logged = Failing(outcome) /\ counted = Counts(outcome)
           /\ exit = ExitOf(outcome)

IInv == TypeOK /\ ChunkOK /\ ChildOK /\ ParentOK /\ ResultOK
=============================================================================
