-------------------------- MODULE KmiDefinesProofs --------------------------
(***************************************************************************)
(* Theorems about KmiDefines: for any modules, chunk size, number of        *)
(* processors and outcomes, a run that ends does so as the sequential one   *)
(* does, with every header counted and no process left.                    *)
(***************************************************************************)
EXTENDS KmiDefines, FiniteSetTheorems, TLAPS

-----------------------------------------------------------------------------
(* The files and their chunks *)

\* The files are vmlinux.o and the modules.
LEMMA FileFacts ==
  /\ Len(Modules) \in Nat /\ DOMAIN Modules = 1 .. Len(Modules)
  /\ Len(Files) \in Nat /\ Files \in [1 .. Len(Files) -> File]
  /\ VmLinux \in File
  /\ \A i \in DOMAIN Modules : Modules[i] \in File
  /\ \A f \in File : f = VmLinux \/ \E i \in DOMAIN Modules : f = Modules[i]
<1> DEFINE S == {Modules[i] : i \in DOMAIN Modules}
           T == S \cup {VmLinux}
<1>1. Modules \in Seq(T) /\ <<VmLinux>> \in Seq(T)
  BY KmiDefinesAssumption
<1>2. Len(Modules) \in Nat /\ DOMAIN Modules = 1 .. Len(Modules)
  BY <1>1
<1>3. /\ DOMAIN Files = 1 .. Len(Files) /\ Len(Files) = 1 + Len(Modules)
      /\ Files[1] = VmLinux
      /\ \A i \in DOMAIN Modules : Files[i + 1] = Modules[i]
  BY <1>1, <1>2 DEF Files
<1>4. VmLinux \in File /\ \A i \in DOMAIN Modules : Modules[i] \in File
  BY <1>2, <1>3 DEF File
<1>5. ASSUME NEW f \in File PROVE f = VmLinux \/ \E i \in DOMAIN Modules : f = Modules[i]
  <2>1. PICK k \in 1 .. Len(Files) : f = Files[k]
    BY <1>3 DEF File
  <2>2. CASE k = 1
    BY <1>3, <2>1, <2>2
  <2>3. CASE k # 1
    <3>1. k - 1 \in DOMAIN Modules /\ f = Files[(k - 1) + 1]
      BY <1>2, <1>3, <2>1, <2>3
    <3> QED BY <1>3, <3>1
  <2> QED BY <2>2, <2>3
<1>6. Files \in [1 .. Len(Files) -> T]
  <2>1. Files \in Seq(T)
    BY <1>1 DEF Files
  <2> QED BY <2>1
<1>7. Files \in [1 .. Len(Files) -> File]
  BY <1>3, <1>6 DEF File
<1> QED BY <1>2, <1>3, <1>4, <1>5, <1>7

\* Dividing by a positive number.
LEMMA DivFacts ==
  ASSUME NEW n \in Nat, NEW d \in Nat \ {0}
  PROVE  n \div d \in Nat /\ d * (n \div d) <= n /\ n < d * (n \div d) + d
OBVIOUS

\* Multiplying by a positive number is strictly monotonic.
LEMMA TimesLess ==
  ASSUME NEW a \in Nat, NEW b \in Nat, NEW d \in Nat \ {0}, d * a < d * b
  PROVE  a < b
OBVIOUS

\* The number of chunks.
LEMMA ChunksType == Chunks \in Nat
<1>1. Len(Modules) + ChunkSize - 1 \in Nat /\ ChunkSize \in Nat \ {0}
  BY FileFacts, KmiDefinesAssumption
<1> QED BY <1>1, DivFacts DEF Chunks

\* Every module is in one of the chunks, the last of which may be short.
LEMMA Covered == \A i \in DOMAIN Modules : \E c \in 1 .. Chunks : i \in ChunkFiles(c)
<1> SUFFICES ASSUME NEW i \in DOMAIN Modules
             PROVE  \E c \in 1 .. Chunks : i \in ChunkFiles(c)
  OBVIOUS
<1> DEFINE n == Len(Modules)
           d == ChunkSize
           q == (i - 1) \div d
<1>1. n \in Nat /\ i \in 1 .. n /\ d \in Nat \ {0} /\ i - 1 \in Nat /\ n + d - 1 \in Nat
  BY FileFacts, KmiDefinesAssumption
<1>2. Chunks = (n + d - 1) \div d
  BY DEF Chunks
<1>3. q \in Nat /\ d * q <= i - 1 /\ i - 1 < d * q + d
  BY <1>1, DivFacts
<1>4. Chunks \in Nat /\ n + d - 1 < d * Chunks + d
  BY <1>1, <1>2, DivFacts
<1> HIDE DEF n, d, q
<1>5. d * q < d * Chunks
  BY <1>1, <1>3, <1>4
<1>6. q < Chunks
  BY <1>1, <1>3, <1>4, <1>5, TimesLess
<1>7. (q + 1) * d = d * q + d /\ ((q + 1) - 1) * d = d * q
  BY <1>1, <1>3
<1>8. i \in ChunkFiles(q + 1)
  BY <1>1, <1>3, <1>7 DEF ChunkFiles, d
<1> QED BY <1>3, <1>4, <1>6, <1>8

\* No more files than the list is long.
LEMMA CountBound == \A S \in SUBSET File : Cardinality(S) \in 0 .. Len(Files)
<1>1. IsFiniteSet(1 .. Len(Files)) /\ Cardinality(1 .. Len(Files)) = Len(Files)
  <2>1. ASSUME NEW n \in Nat PROVE IsFiniteSet(1 .. n) /\ Cardinality(1 .. n) = n
    <3>1. 1 \in Int /\ n \in Int
      OBVIOUS
    <3>2. IsFiniteSet(1 .. n) /\ Cardinality(1 .. n) = IF 1 > n THEN 0 ELSE n - 1 + 1
      BY <3>1, FS_Interval, Zenon
    <3> QED BY <3>2
  <2> QED BY <2>1, FileFacts
<1>2. Files \in Surjection(1 .. Len(Files), File)
  <2>1. \A f \in File : \E i \in 1 .. Len(Files) : Files[i] = f
    BY FileFacts DEF File
  <2> QED BY <2>1, FileFacts DEF Surjection
<1>3. IsFiniteSet(File) /\ Cardinality(File) <= Len(Files)
  BY <1>1, <1>2, FS_Surjection
<1> SUFFICES ASSUME NEW S \in SUBSET File PROVE Cardinality(S) \in 0 .. Len(Files)
  OBVIOUS
<1>4. IsFiniteSet(S) /\ Cardinality(S) <= Cardinality(File)
  BY <1>3, FS_Subset
<1>5. Cardinality(S) \in Nat /\ Cardinality(File) \in Nat
  BY <1>3, <1>4, FS_CardinalityType
<1> QED BY <1>3, <1>4, <1>5, FileFacts

-----------------------------------------------------------------------------
(* Type correctness *)

\* The initial states are typed.
LEMMA InitType == Init => TypeOK
<1> SUFFICES ASSUME Init PROVE TypeOK
  OBVIOUS
<1>1. counted \in [Header -> 0 .. Len(Files)]
  BY FileFacts DEF Init
<1>2. job \in [Worker -> 0 .. Chunks]
  BY ChunksType DEF Init
<1> QED BY <1>1, <1>2 DEF Init, TypeOK

\* Every step keeps the types; a worker that inspects a module is on a chunk.
LEMMA TypeNext == TypeOK /\ ChunkOK /\ ChildOK /\ [Next]_vars => TypeOK'
<1> SUFFICES ASSUME TypeOK, ChunkOK, ChildOK, [Next]_vars PROVE TypeOK'
  OBVIOUS
<1>1. CASE RunSequential
  <2>1. component' \in [File -> {"none", "ok", "stop"}]
    BY <1>1, KmiDefinesAssumption DEF RunSequential, TypeOK
  <2> QED BY <1>1, <2>1 DEF RunSequential, TypeOK, input
<1>2. CASE StartAll
  BY <1>2 DEF StartAll, TypeOK, input
<1>3. CASE MapReturns
  BY <1>3 DEF MapReturns, TypeOK, input
<1>4. CASE GetComponent
  <2>1. outcome[VmLinux] \in {"ok", "stop"}
    BY <1>4, FileFacts, KmiDefinesAssumption DEF GetComponent, ChildOK, TypeOK
  <2> QED BY <1>4, <2>1 DEF GetComponent, TypeOK, input
<1>5. CASE JoinChild
  BY <1>5 DEF JoinChild, TypeOK, input
<1>6. CASE Report
  <2>1. Counts(component) \in [Header -> 0 .. Len(Files)]
    <3>1. \A h \in Header :
            {f \in File : component[f] = "ok" /\ h \in DepsOf[f]} \in SUBSET File
      OBVIOUS
    <3> QED BY <3>1, CountBound DEF Counts
  <2>2. ExitOf(component) \in {"0", "1"}
    BY DEF ExitOf
  <2> QED BY <1>6, <2>1, <2>2 DEF Report, TypeOK, input
<1>7. CASE Unwind
  BY <1>7 DEF Unwind, TypeOK, input
<1>8. CASE Child
  BY <1>8 DEF Child, ChildWork, ChildExit, TypeOK, input
<1>9. ASSUME NEW w \in Worker, NEW c \in 1 .. Chunks, TakeChunk(w, c) PROVE TypeOK'
  <2>1. ChunkFiles(c) \subseteq DOMAIN Modules
    BY DEF ChunkFiles
  <2> QED BY <1>9, <2>1 DEF TakeChunk, TypeOK, input
<1>10. ASSUME NEW w \in Worker, InspectModule(w) PROVE TypeOK'
  <2>1. PICK i \in left[w] :
          IF outcome[Modules[i]] = "crash"
          THEN /\ left' = [left EXCEPT ![w] = {}]
               /\ chunk' = [chunk EXCEPT ![job[w]] = "raised"]
               /\ UNCHANGED component
          ELSE /\ left' = [left EXCEPT ![w] = @ \ {i}]
               /\ component' = [component EXCEPT ![Modules[i]] = outcome[Modules[i]]]
               /\ UNCHANGED chunk
    BY <1>10 DEF InspectModule
  <2>2. Modules[i] \in File
    BY <2>1, FileFacts DEF TypeOK
  <2>3. outcome[Modules[i]] # "crash" => outcome[Modules[i]] \in {"ok", "stop"}
    BY <2>2, KmiDefinesAssumption DEF TypeOK
  <2>4. component' \in [File -> {"none", "ok", "stop"}]
    BY <2>1, <2>2, <2>3 DEF TypeOK
  <2>5. left' \in [Worker -> SUBSET DOMAIN Modules]
    <3>1. \E rest \in SUBSET left[w] : left' = [left EXCEPT ![w] = rest]
      BY <2>1
    <3>2. left \in [Worker -> SUBSET DOMAIN Modules]
      BY DEF TypeOK
    <3> QED BY <3>1, <3>2
  <2>6. chunk' \in [1 .. Chunks -> {"todo", "taken", "done", "raised"}]
    <3>1. chunk \in [1 .. Chunks -> {"todo", "taken", "done", "raised"}]
      BY DEF TypeOK
    <3> QED BY <2>1, <3>1
  <2> QED BY <1>10, <2>4, <2>5, <2>6 DEF InspectModule, TypeOK, input
<1>11. ASSUME NEW w \in Worker, EndChunk(w) PROVE TypeOK'
  <2>1. job[w] \in 1 .. Chunks
    BY <1>11 DEF EndChunk, TypeOK
  <2>2. job' \in [Worker -> 0 .. Chunks]
    <3>1. job \in [Worker -> 0 .. Chunks] /\ 0 \in 0 .. Chunks
      BY ChunksType DEF TypeOK
    <3> QED BY <1>11, <3>1 DEF EndChunk
  <2>3. chunk' \in [1 .. Chunks -> {"todo", "taken", "done", "raised"}]
    <3>1. chunk \in [1 .. Chunks -> {"todo", "taken", "done", "raised"}]
      BY DEF TypeOK
    <3> QED BY <1>11, <2>1, <3>1 DEF EndChunk
  <2> QED BY <1>11, <2>2, <2>3 DEF EndChunk, TypeOK, input
<1>12. CASE UNCHANGED vars
  BY <1>12 DEF vars, input, TypeOK
<1> QED BY <1>1, <1>2, <1>3, <1>4, <1>5, <1>6, <1>7, <1>8, <1>9, <1>10, <1>11, <1>12
        DEF Next, Parent, Work, Done

-----------------------------------------------------------------------------
(* The invariant *)

\* No step changes what the inspections will say.
LEMMA InputStays == [Next]_vars => UNCHANGED input
BY DEF Next, Parent, RunSequential, StartAll, MapReturns, GetComponent, JoinChild, Report,
       Unwind, Child, ChildWork, ChildExit, Work, TakeChunk, InspectModule, EndChunk, Done, vars

\* What was inspected stays so: a component is only ever set to the outcome of its file.
LEMMA InspectedStays ==
  ASSUME TypeOK, ChildOK, [Next]_vars, NEW f \in File, Inspected(f)
  PROVE  Inspected(f)'
<1>1. UNCHANGED outcome
  BY InputStays DEF input
<1>2. component'[f] \in {component[f], outcome[f]}
  <2>1. CASE UNCHANGED component
    BY <2>1
  <2>2. CASE RunSequential
    BY <2>2 DEF RunSequential
  <2>3. CASE GetComponent
    BY <2>3 DEF GetComponent, TypeOK
  <2>4. ASSUME NEW w \in Worker, InspectModule(w)
        PROVE  component'[f] \in {component[f], outcome[f]}
    BY <2>4 DEF InspectModule, TypeOK
  <2>5. ASSUME \/ StartAll \/ MapReturns \/ JoinChild \/ Report \/ Unwind \/ Child \/ Done
               \/ UNCHANGED vars
        PROVE  UNCHANGED component
    BY <2>5 DEF StartAll, MapReturns, JoinChild, Report, Unwind, Child, ChildWork, ChildExit,
                Done, vars
  <2>6. ASSUME NEW w \in Worker, EndChunk(w) \/ \E c \in 1 .. Chunks : TakeChunk(w, c)
        PROVE  UNCHANGED component
    BY <2>6 DEF EndChunk, TakeChunk
  <2> QED BY <2>1, <2>2, <2>3, <2>4, <2>5, <2>6 DEF Next, Parent, Work
<1> QED BY <1>1, <1>2 DEF Inspected

\* Chunks are changed by the pool only; what was inspected stays.
LEMMA ChunkNext == TypeOK /\ ChunkOK /\ ChildOK /\ [Next]_vars => ChunkOK'
<1> SUFFICES ASSUME TypeOK, ChunkOK, ChildOK, [Next]_vars PROVE ChunkOK'
  OBVIOUS
<1>1. \A i \in DOMAIN Modules : Inspected(Modules[i]) => Inspected(Modules[i])'
  BY FileFacts, InspectedStays
<1>2. Crashes' = Crashes
  BY InputStays DEF input, Crashes
<1>3. \A c : ChunkFiles(c) \subseteq DOMAIN Modules
  BY DEF ChunkFiles
<1>4. CASE UNCHANGED <<job, left, chunk>>
  BY <1>1, <1>2, <1>3, <1>4 DEF ChunkOK
<1>5. ASSUME NEW w \in Worker, NEW c \in 1 .. Chunks, TakeChunk(w, c) PROVE ChunkOK'
  <2>1. /\ job[w] = 0 /\ chunk[c] = "todo" /\ c # 0
        /\ job' = [job EXCEPT ![w] = c] /\ left' = [left EXCEPT ![w] = ChunkFiles(c)]
        /\ chunk' = [chunk EXCEPT ![c] = "taken"]
    BY <1>5 DEF TakeChunk
  <2>2. \A v \in Worker : job[v] # c
    BY <2>1 DEF ChunkOK
  <2>3. job'[w] = c /\ left'[w] = ChunkFiles(c) /\ chunk'[c] = "taken"
    BY <2>1 DEF TypeOK
  <2>4. \A v \in Worker \ {w} : job'[v] = job[v] /\ left'[v] = left[v] /\ job[v] # c
    BY <2>1, <2>2 DEF TypeOK
  <2>5. \A k \in (1 .. Chunks) \ {c} : chunk'[k] = chunk[k]
    BY <2>1 DEF TypeOK
  <2>6. \A v \in Worker : job[v] \in 0 .. Chunks
    BY DEF TypeOK
  <2>7. ASSUME NEW v \in Worker
        PROVE  /\ job'[v] # 0 => chunk'[job'[v]] \in {"taken", "raised"}
               /\ job'[v] # 0 => \A u \in Worker : job'[u] = job'[v] => u = v
               /\ left'[v] # {} => job'[v] # 0 /\ chunk'[job'[v]] = "taken"
               /\ job'[v] # 0 /\ chunk'[job'[v]] = "taken" =>
                    \A i \in ChunkFiles(job'[v]) \ left'[v] : Inspected(Modules[i])'
    <3>1. CASE v = w
      BY <2>1, <2>3, <2>4, <3>1
    <3>2. CASE v # w
      BY <1>1, <1>3, <2>3, <2>4, <2>5, <2>6, <3>2 DEF ChunkOK
    <3> QED BY <3>1, <3>2
  <2>8. ASSUME NEW k \in 1 .. Chunks
        PROVE  /\ chunk'[k] = "done" => \A i \in ChunkFiles(k) : Inspected(Modules[i])'
               /\ chunk'[k] = "raised" => Crashes'
    BY <1>1, <1>2, <1>3, <2>3, <2>5 DEF ChunkOK
  <2> QED BY <2>7, <2>8 DEF ChunkOK, ChunkFiles
<1>6. ASSUME NEW w \in Worker, InspectModule(w) PROVE ChunkOK'
  <2>1. PICK i \in left[w] :
          IF outcome[Modules[i]] = "crash"
          THEN /\ left' = [left EXCEPT ![w] = {}]
               /\ chunk' = [chunk EXCEPT ![job[w]] = "raised"]
               /\ UNCHANGED component
          ELSE /\ left' = [left EXCEPT ![w] = @ \ {i}]
               /\ component' = [component EXCEPT ![Modules[i]] = outcome[Modules[i]]]
               /\ UNCHANGED chunk
    BY <1>6 DEF InspectModule
  <2>2. /\ job[w] \in 1 .. Chunks /\ chunk[job[w]] = "taken" /\ UNCHANGED job
        /\ Modules[i] \in File
    BY <1>6, <2>1, FileFacts DEF ChunkOK, TypeOK, InspectModule
  <2>3. \A v \in Worker \ {w} : left'[v] = left[v] /\ job[v] # job[w]
    BY <2>1, <2>2 DEF TypeOK, ChunkOK
  <2>4. CASE outcome[Modules[i]] = "crash"
    <3>1. Crashes /\ left'[w] = {} /\ chunk'[job[w]] = "raised"
      BY <2>1, <2>2, <2>4 DEF Crashes, TypeOK
    <3>2. \A k \in (1 .. Chunks) \ {job[w]} : chunk'[k] = chunk[k]
      BY <2>1, <2>2, <2>4 DEF TypeOK
    <3>3. \A v \in Worker : job[v] \in 0 .. Chunks
      BY DEF TypeOK
    <3> QED BY <1>1, <1>2, <1>3, <2>2, <2>3, <3>1, <3>2, <3>3 DEF ChunkOK, ChunkFiles
  <2>5. CASE outcome[Modules[i]] # "crash"
    <3>1. left'[w] = left[w] \ {i} /\ UNCHANGED <<chunk, job>>
      BY <2>1, <2>2, <2>5 DEF TypeOK
    <3>2. Inspected(Modules[i])'
      BY <2>1, <2>2, <2>5, InputStays DEF Inspected, TypeOK, input
    <3> QED BY <1>1, <1>2, <1>3, <2>2, <2>3, <3>1, <3>2 DEF ChunkOK, ChunkFiles
  <2> QED BY <2>4, <2>5
<1>7. ASSUME NEW w \in Worker, EndChunk(w) PROVE ChunkOK'
  <2>1. /\ job[w] \in 1 .. Chunks /\ left[w] = {} /\ UNCHANGED left
        /\ job' = [job EXCEPT ![w] = 0]
        /\ chunk' = [chunk EXCEPT ![job[w]] = IF @ = "raised" THEN @ ELSE "done"]
    BY <1>7 DEF EndChunk, TypeOK
  <2>2. /\ job'[w] = 0 /\ chunk'[job[w]] \in {"done", "raised"}
        /\ chunk'[job[w]] = "raised" <=> chunk[job[w]] = "raised"
    BY <2>1 DEF TypeOK
  <2>3. \A v \in Worker \ {w} : job'[v] = job[v] /\ job[v] \in 0 .. Chunks /\ job[v] # job[w]
    BY <2>1 DEF TypeOK, ChunkOK
  <2>4. \A k \in (1 .. Chunks) \ {job[w]} : chunk'[k] = chunk[k]
    BY <2>1 DEF TypeOK
  <2>5. chunk[job[w]] = "taken" => \A i \in ChunkFiles(job[w]) : Inspected(Modules[i])
    BY <2>1 DEF ChunkOK
  <2>6. chunk[job[w]] \in {"taken", "raised"}
    BY <2>1 DEF ChunkOK
  <2> QED BY <1>1, <1>2, <1>3, <2>1, <2>2, <2>3, <2>4, <2>5, <2>6 DEF ChunkOK, ChunkFiles
<1>8. ASSUME Parent \/ Child \/ Done \/ UNCHANGED vars PROVE UNCHANGED <<job, left, chunk>>
  BY <1>8 DEF Parent, RunSequential, StartAll, MapReturns, GetComponent, JoinChild, Report,
              Unwind, Child, ChildWork, ChildExit, Done, vars
<1> QED BY <1>4, <1>5, <1>6, <1>7, <1>8 DEF Next, Work

\* The child is started, ends and is joined.
LEMMA ChildNext == TypeOK /\ ChildOK /\ [Next]_vars => ChildOK'
<1> SUFFICES ASSUME TypeOK, ChildOK, [Next]_vars PROVE ChildOK'
  OBVIOUS
<1>1. UNCHANGED outcome
  BY InputStays DEF input
<1>2. CASE Parent
  BY <1>1, <1>2 DEF Parent, RunSequential, StartAll, MapReturns, GetComponent, JoinChild,
                    Report, Unwind, ChildOK
<1>3. CASE Child
  BY <1>1, <1>3 DEF Child, ChildWork, ChildExit, ChildOK
<1>4. CASE UNCHANGED <<parent, child>>
  BY <1>1, <1>4 DEF ChildOK
<1>5. ASSUME (\E w \in Worker : Work(w)) \/ Done \/ UNCHANGED vars
      PROVE  UNCHANGED <<parent, child>>
  BY <1>5 DEF Work, TakeChunk, InspectModule, EndChunk, Done, vars
<1> QED BY <1>2, <1>3, <1>4, <1>5 DEF Next

\* The parent leaves the pool when every chunk is done, or when one has raised.
LEMMA ParentNext ==
  TypeOK /\ ChunkOK /\ ChildOK /\ ParentOK /\ [Next]_vars => ParentOK'
<1> SUFFICES ASSUME TypeOK, ChunkOK, ChildOK, ParentOK, [Next]_vars PROVE ParentOK'
  OBVIOUS
<1>1. /\ \A i \in DOMAIN Modules : Inspected(Modules[i]) => Inspected(Modules[i])'
      /\ Inspected(VmLinux) => Inspected(VmLinux)'
  BY FileFacts, InspectedStays
<1>2. Crashes' = Crashes /\ UNCHANGED outcome
  BY InputStays DEF input, Crashes
<1>3. CASE RunSequential
  BY <1>2, <1>3 DEF RunSequential, ParentOK, Crashes
<1>4. CASE StartAll
  BY <1>4 DEF StartAll, ParentOK
<1>5. CASE MapReturns
  <2>1. CASE \E c \in 1 .. Chunks : chunk[c] = "raised"
    BY <1>2, <1>5, <2>1 DEF MapReturns, ChunkOK, ParentOK
  <2>2. CASE ~\E c \in 1 .. Chunks : chunk[c] = "raised"
    <3>1. \A c \in 1 .. Chunks : chunk[c] = "done"
      BY <1>5, <2>2 DEF MapReturns, MapReady
    <3>2. \A i \in DOMAIN Modules : Inspected(Modules[i])
      BY <3>1, Covered DEF ChunkOK
    <3> QED BY <1>1, <1>5, <2>2, <3>2 DEF MapReturns, ParentOK
  <2> QED BY <2>1, <2>2
<1>6. CASE GetComponent
  <2>1. Inspected(VmLinux)'
    BY <1>2, <1>6, FileFacts DEF GetComponent, ChildOK, TypeOK, Inspected
  <2> QED BY <1>1, <1>6, <2>1 DEF GetComponent, ParentOK
<1>7. CASE JoinChild
  <2>1. \A f \in File : Inspected(f)
    BY <1>7, FileFacts DEF JoinChild, ParentOK
  <2>2. component = outcome /\ ~Crashes
    BY <2>1 DEF Inspected, Crashes, TypeOK
  <2> QED BY <1>2, <1>7, <2>2 DEF JoinChild, ParentOK
<1>8. CASE Report \/ Unwind
  BY <1>8 DEF Report, Unwind, ParentOK
<1>9. CASE UNCHANGED <<parent, exit>> /\ (parent = "report" => UNCHANGED component)
  BY <1>1, <1>2, <1>9 DEF ParentOK
<1>10. ASSUME (\E w \in Worker : Work(w)) \/ Child \/ Done \/ UNCHANGED vars
       PROVE  UNCHANGED <<parent, exit>> /\ (parent = "report" => UNCHANGED component)
  BY <1>10 DEF Work, TakeChunk, InspectModule, EndChunk, Child, ChildWork, ChildExit, Done, vars
<1> QED BY <1>3, <1>4, <1>5, <1>6, <1>7, <1>8, <1>9, <1>10 DEF Next, Parent

\* The end is reached from a complete report or from an exception.
LEMMA ResultNext == TypeOK /\ ParentOK /\ ResultOK /\ [Next]_vars => ResultOK'
<1> SUFFICES ASSUME TypeOK, ParentOK, ResultOK, [Next]_vars PROVE ResultOK'
  OBVIOUS
<1>1. /\ Crashes' = Crashes /\ Failing(outcome)' = Failing(outcome)
      /\ Counts(outcome)' = Counts(outcome) /\ ExitOf(outcome)' = ExitOf(outcome)
  BY InputStays DEF input, Crashes
<1>2. CASE Report
  <2>1. component = outcome /\ ~Crashes
    BY <1>2 DEF Report, ParentOK
  <2>2. logged' = Failing(outcome) /\ counted' = Counts(outcome) /\ exit' = ExitOf(outcome)
    BY <1>2, <2>1 DEF Report
  <2> QED BY <1>1, <2>1, <2>2 DEF ResultOK
<1>3. CASE Unwind
  BY <1>1, <1>3 DEF Unwind, ParentOK, ResultOK
<1>4. CASE parent' # "ended"
  BY <1>4 DEF ResultOK
<1>5. CASE UNCHANGED <<parent, exit, logged, counted>>
  BY <1>1, <1>5 DEF ResultOK
<1>6. ASSUME RunSequential \/ StartAll \/ MapReturns \/ GetComponent \/ JoinChild
      PROVE  parent' # "ended"
  BY <1>6 DEF RunSequential, StartAll, MapReturns, GetComponent, JoinChild
<1>7. ASSUME (\E w \in Worker : Work(w)) \/ Child \/ Done \/ UNCHANGED vars
      PROVE  UNCHANGED <<parent, exit, logged, counted>>
  BY <1>7 DEF Work, TakeChunk, InspectModule, EndChunk, Child, ChildWork, ChildExit, Done, vars
<1> QED BY <1>2, <1>3, <1>4, <1>5, <1>6, <1>7 DEF Next, Parent

\* The inductive invariant holds of every run of the program.
THEOREM Invariant == Spec => []IInv
<1>1. Init => IInv
  <2> SUFFICES ASSUME Init PROVE IInv
    OBVIOUS
  <2>1. ChunkOK
    BY DEF Init, ChunkOK
  <2>2. ChildOK /\ ParentOK /\ ResultOK
    BY DEF Init, ChildOK, ParentOK, ResultOK
  <2> QED BY <2>1, <2>2, InitType DEF IInv
<1>2. IInv /\ [Next]_vars => IInv'
  BY TypeNext, ChunkNext, ChildNext, ParentNext, ResultNext DEF IInv
<1> QED BY <1>1, <1>2, PTL DEF Spec

-----------------------------------------------------------------------------
(* The safety properties *)

\* No run leaves the set of typed states.
THEOREM TypeCorrect == Spec => []TypeOK
<1>1. IInv => TypeOK
  BY DEF IInv
<1> QED BY <1>1, Invariant, PTL

\* A run over a pool of any size, in chunks of any size and in any order, ends as the
\* sequential run does.
THEOREM EndsAsSequential == Spec => []SameAsSequential
<1>1. IInv => SameAsSequential
  BY DEF IInv, ResultOK, SameAsSequential, ExitOf
<1> QED BY <1>1, Invariant, PTL

\* A successful run counts every header of every component.
THEOREM AllCounted == Spec => []CountsComplete
<1>1. IInv => CountsComplete
  <2> SUFFICES ASSUME IInv, exit = "0", NEW h \in Header
               PROVE  counted[h] = Cardinality({f \in File : h \in DepsOf[f]})
    BY DEF CountsComplete
  <2>1. ~Crashes /\ counted = Counts(outcome) /\ ExitOf(outcome) = "0"
    BY DEF IInv, ParentOK, ResultOK
  <2>2. \A f \in File : outcome[f] = "ok"
    BY <2>1, KmiDefinesAssumption DEF IInv, TypeOK, Crashes, ExitOf
  <2>3. {f \in File : outcome[f] = "ok" /\ h \in DepsOf[f]} = {f \in File : h \in DepsOf[f]}
    BY <2>2
  <2> QED BY <2>1, <2>3 DEF Counts
<1> QED BY <1>1, Invariant, PTL

\* The process of vmlinux.o has been joined, or was never started, when the program ends.
THEOREM ChildIsJoined == Spec => []NoOrphan
<1>1. IInv => NoOrphan
  BY DEF IInv, ChildOK, NoOrphan
<1> QED BY <1>1, Invariant, PTL
=============================================================================
