--------------------------- MODULE WrapperProofs ---------------------------
(*****************************************************************************)
(* Theorems about the wrapper, its own files and its children: of BazelRun,  *)
(* that no output is lost, what the exit code says and when the epilog runs; *)
(* of HermeticPath, that no tool is lost and that one of the wrappers that    *)
(* set up the directory side by side gets through; of StampStatus, that the  *)
(* exit code and what is printed depend on the machine alone, in whatever    *)
(* order loops and children run; of WrapperArgs, that Bazel gets the user's   *)
(* words, each once and in order, and the files and directories it is told of. *)
(*****************************************************************************)
EXTENDS BazelRun, HermeticPath, StampStatus, FiniteSetTheorems, SequenceTheorems,
        WellFoundedInduction, TLAPS

-----------------------------------------------------------------------------
(* BazelRun *)

-----------------------------------------------------------------------------
(* Sequences: moving a line from one queue to the next keeps their concatenation *)

\* Moving the first line of one queue to the end of the one before it.
LEMMA MoveHead ==
  ASSUME NEW s \in Seq(Line), NEW t \in Seq(Line), t # <<>>
  PROVE  /\ Append(s, Head(t)) \in Seq(Line) /\ Tail(t) \in Seq(Line)
         /\ Append(s, Head(t)) \o Tail(t) = s \o t
<1>1. /\ Head(t) \in Line /\ Tail(t) \in Seq(Line) /\ t = <<Head(t)>> \o Tail(t)
      /\ <<Head(t)>> \in Seq(Line)
  OBVIOUS
<1>2. Append(s, Head(t)) = s \o <<Head(t)>>
  BY <1>1, AppendIsConcat
<1>3. (s \o <<Head(t)>>) \o Tail(t) = s \o (<<Head(t)>> \o Tail(t))
  BY <1>1, ConcatAssociative
<1> QED BY <1>1, <1>2, <1>3

\* Appending to the second of two concatenated queues.
LEMMA AppendLast ==
  ASSUME NEW s \in Seq(Line), NEW t \in Seq(Line), NEW e \in Line
  PROVE  s \o Append(t, e) = Append(s \o t, e)
<1>1. /\ <<e>> \in Seq(Line) /\ s \o t \in Seq(Line)
      /\ Append(t, e) = t \o <<e>>
      /\ Append(s \o t, e) = (s \o t) \o <<e>>
  BY AppendIsConcat
<1>2. (s \o t) \o <<e>> = s \o (t \o <<e>>)
  BY <1>1, ConcatAssociative
<1> QED BY <1>1, <1>2

-----------------------------------------------------------------------------
(* Type correctness *)

\* The initial states are typed.
LEMMA InitType == Init => TypeOK
<1> SUFFICES ASSUME Init PROVE TypeOK
  OBVIOUS
<1>1. script \in Seq(Stream \X Line)
  BY DEF Init, Scripts
<1>2. <<>> \in Seq(Line)
  OBVIOUS
<1> QED BY <1>1, <1>2, BazelRunAssumption DEF Init, TypeOK

\* Every outcome of the three tasks is an exit code or a traceback.
LEMMA OutcomesType ==
  ASSUME TypeOK, child # Running
  PROVE  Outcomes(Errors) \subseteq Code \cup {1, Traceback}
                                    \cup (IF child = 0 THEN {0} ELSE {})
<1>1. \A e \in Errors : e.code \in Code \cup {1}
  BY DEF Errors, TypeOK
<1>2. Kept(Errors) \subseteq Errors
  BY DEF Kept
<1>3. Errors = {} => child = 0
  BY DEF Errors
<1> QED BY <1>1, <1>2, <1>3 DEF Outcomes

\* Every step keeps the types; that Finish does, needs that Bazel has ended.
LEMMA RunTypeNext == TypeOK /\ EofOK /\ [Next]_vars => TypeOK'
<1> SUFFICES ASSUME TypeOK, EofOK, [Next]_vars PROVE TypeOK'
  OBVIOUS
<1>1. CASE ChildWrite
  <2>1. /\ Head(script) \in Stream \X Line
        /\ Tail(script) \in Seq(Stream \X Line)
    <3>1. script \in Seq(Stream \X Line) /\ script # <<>>
      BY <1>1 DEF ChildWrite, TypeOK
    <3> QED BY <3>1, HeadTailProperties
  <2>2. \A s \in Stream, l \in Line :
          Append(pipe[s], l) \in Seq(Line) /\ Append(sent[s], l) \in Seq(Line)
    BY DEF TypeOK
  <2> QED BY <1>1, <2>1, <2>2 DEF ChildWrite, TypeOK
<1>2. CASE ChildExit
  BY <1>2 DEF ChildExit, TypeOK
<1>3. ASSUME NEW s \in Stream, Feed(s) PROVE TypeOK'
  <2>1. Append(buf[s], Head(pipe[s])) \in Seq(Line) /\ Tail(pipe[s]) \in Seq(Line)
    BY <1>3, MoveHead DEF Feed, TypeOK
  <2> QED BY <1>3, <2>1 DEF Feed, TypeOK
<1>4. ASSUME NEW s \in Stream, FeedEof(s) PROVE TypeOK'
  BY <1>4 DEF FeedEof, TypeOK
<1>5. ASSUME NEW s \in Stream, TestStream(s) PROVE TypeOK'
  BY <1>5 DEF TestStream, TypeOK
<1>6. ASSUME NEW s \in Stream, ReadLine(s) PROVE TypeOK'
  <2>1. Append(wrote[s], Head(buf[s])) \in Seq(Line) /\ Tail(buf[s]) \in Seq(Line)
    BY <1>6, MoveHead DEF ReadLine, TypeOK
  <2>2. buf' \in [Stream -> Seq(Line)] /\ task' \in [Stream -> {"test", "read", "ended", "died"}]
    BY <1>6, <2>1 DEF ReadLine, TypeOK
  <2>3. wrote' \in [Stream -> Seq(Line)]
    BY <1>6, <2>1 DEF ReadLine, PassOn, TypeOK
  <2>4. unexpected' \in [Stream -> Nat]
    <3>1. UNCHANGED unexpected \/ unexpected' = [unexpected EXCEPT ![s] = @ + 1]
      BY <1>6 DEF ReadLine, PassOn
    <3>2. unexpected \in [Stream -> Nat] /\ unexpected[s] + 1 \in Nat
      BY DEF TypeOK
    <3> QED BY <3>1, <3>2
  <2> QED BY <1>6, <2>2, <2>3, <2>4 DEF ReadLine, TypeOK
<1>7. ASSUME NEW s \in Stream, ReadEof(s) PROVE TypeOK'
  <2>1. unexpected' \in [Stream -> Nat]
    BY <1>7 DEF ReadEof, TypeOK
  <2>2. task' \in [Stream -> {"test", "read", "ended", "died"}]
    BY <1>7 DEF ReadEof, TypeOK
  <2> QED BY <1>7, <2>1, <2>2 DEF ReadEof, TypeOK
<1>8. CASE WaitForSubprocess
  BY <1>8 DEF WaitForSubprocess, TypeOK
<1>9. CASE RunEpilog
  BY <1>9 DEF RunEpilog, TypeOK
<1>10. CASE Finish
  <2>1. result' \in Code \cup {1, Traceback} \cup (IF child = 0 THEN {0} ELSE {})
    BY <1>10, OutcomesType DEF Finish, AllDone, EofOK
  <2>2. result' \in Code \cup {1, NoResult, Traceback}
    BY <2>1 DEF TypeOK, Running
  <2> QED BY <1>10, <2>2 DEF Finish, TypeOK
<1>11. CASE UNCHANGED vars
  BY <1>11 DEF vars, TypeOK
<1> QED BY <1>1, <1>2, <1>3, <1>4, <1>5, <1>6, <1>7, <1>8, <1>9, <1>10, <1>11
        DEF Next, Loop, Pump, Done

-----------------------------------------------------------------------------
(* The invariant *)

\* Every step keeps what was passed on, buffered and piped equal to what Bazel wrote:
\* ChildWrite extends both sides, Feed and ReadLine move one line.
LEMMA FlowNext == TypeOK /\ Flow /\ [Next]_vars => Flow'
<1> SUFFICES ASSUME TypeOK, Flow, [Next]_vars, NEW t \in Stream, task'[t] # "died"
             PROVE  sent'[t] = (wrote'[t] \o buf'[t]) \o pipe'[t]
  BY DEF Flow
<1>0. /\ wrote[t] \in Seq(Line) /\ buf[t] \in Seq(Line) /\ pipe[t] \in Seq(Line)
      /\ wrote[t] \o buf[t] \in Seq(Line)
  BY DEF TypeOK
<1>1. CASE ChildWrite
  <2>1. PICK s \in Stream, l \in Line :
             /\ pipe' = [pipe EXCEPT ![s] = Append(@, l)]
             /\ sent' = [sent EXCEPT ![s] = Append(@, l)]
    <3>1. script \in Seq(Stream \X Line) /\ script # <<>>
      BY <1>1 DEF ChildWrite, TypeOK
    <3>2. Head(script) \in Stream \X Line
      BY <3>1, HeadTailProperties
    <3> QED BY <1>1, <3>2 DEF ChildWrite
  <2>2. sent[t] = (wrote[t] \o buf[t]) \o pipe[t] /\ UNCHANGED <<wrote, buf>>
    BY <1>1 DEF ChildWrite, Flow
  <2>3. (wrote[t] \o buf[t]) \o Append(pipe[t], l) = Append((wrote[t] \o buf[t]) \o pipe[t], l)
    BY <1>0, AppendLast
  <2> QED BY <2>1, <2>2, <2>3 DEF TypeOK
<1>2. ASSUME NEW s \in Stream, Feed(s)
      PROVE  sent'[t] = (wrote'[t] \o buf'[t]) \o pipe'[t]
  <2>1. /\ sent[t] = (wrote[t] \o buf[t]) \o pipe[t] /\ UNCHANGED <<sent, wrote>>
        /\ s # t => buf'[t] = buf[t] /\ pipe'[t] = pipe[t]
        /\ s = t => /\ pipe[t] # <<>> /\ pipe'[t] = Tail(pipe[t])
                    /\ buf'[t] = Append(buf[t], Head(pipe[t]))
    BY <1>2 DEF Feed, Flow, TypeOK
  <2>2. ASSUME pipe[t] # <<>>
        PROVE  (wrote[t] \o Append(buf[t], Head(pipe[t]))) \o Tail(pipe[t])
                 = (wrote[t] \o buf[t]) \o pipe[t]
    <3>1. Head(pipe[t]) \in Line
      BY <1>0, <2>2, HeadTailProperties
    <3>2. wrote[t] \o Append(buf[t], Head(pipe[t]))
            = Append(wrote[t] \o buf[t], Head(pipe[t]))
      BY <1>0, <3>1, AppendLast
    <3>3. Append(wrote[t] \o buf[t], Head(pipe[t])) \o Tail(pipe[t])
            = (wrote[t] \o buf[t]) \o pipe[t]
      BY <1>0, <2>2, MoveHead
    <3> QED BY <3>2, <3>3
  <2> QED BY <2>1, <2>2
<1>3. ASSUME NEW s \in Stream, ReadLine(s)
      PROVE  sent'[t] = (wrote'[t] \o buf'[t]) \o pipe'[t]
  <2>1. /\ task[t] # "died" /\ UNCHANGED <<sent, pipe>>
        /\ s # t => buf'[t] = buf[t] /\ wrote'[t] = wrote[t]
        /\ s = t => /\ buf[t] # <<>> /\ buf'[t] = Tail(buf[t])
                    /\ wrote'[t] = Append(wrote[t], Head(buf[t]))
    BY <1>3 DEF ReadLine, PassOn, TypeOK
  <2>2. buf[t] # <<>> => Append(wrote[t], Head(buf[t])) \o Tail(buf[t]) = wrote[t] \o buf[t]
    BY <1>0, MoveHead
  <2> QED BY <2>1, <2>2 DEF Flow
<1>4. CASE /\ UNCHANGED <<sent, wrote, buf, pipe>>
           /\ task' = task \/ task[t] # "died"
  BY <1>4 DEF Flow
<1>5. ASSUME NEW s \in Stream, FeedEof(s) \/ TestStream(s) \/ ReadEof(s)
      PROVE  /\ UNCHANGED <<sent, wrote, buf, pipe>>
             /\ task' = task \/ task[t] # "died"
  BY <1>5 DEF FeedEof, TestStream, ReadEof, TypeOK
<1>6. ASSUME ChildExit \/ WaitForSubprocess \/ RunEpilog \/ Finish \/ UNCHANGED vars
      PROVE  UNCHANGED <<sent, wrote, buf, pipe, task>>
  BY <1>6 DEF ChildExit, WaitForSubprocess, RunEpilog, Finish, vars
<1> QED BY <1>1, <1>2, <1>3, <1>4, <1>5, <1>6 DEF Next, Loop, Pump, Done

\* The end of a stream stays known only with an empty pipe, and once Bazel has ended.
LEMMA EofNext == TypeOK /\ EofOK /\ [Next]_vars => EofOK'
<1> SUFFICES ASSUME TypeOK, EofOK, [Next]_vars PROVE EofOK'
  OBVIOUS
<1>1. CASE ChildWrite
  BY <1>1 DEF ChildWrite, EofOK, AtEof, TypeOK
<1>2. CASE ChildExit
  BY <1>2, BazelRunAssumption DEF ChildExit, EofOK, AtEof, TypeOK, Running
<1>3. ASSUME NEW s \in Stream, Feed(s) PROVE EofOK'
  BY <1>3 DEF Feed, EofOK, AtEof, TypeOK
<1>4. ASSUME NEW s \in Stream, FeedEof(s) PROVE EofOK'
  BY <1>4 DEF FeedEof, EofOK, AtEof, TypeOK
<1>5. ASSUME NEW s \in Stream, TestStream(s) PROVE EofOK'
  BY <1>5 DEF TestStream, EofOK, AtEof, TypeOK
<1>6. ASSUME NEW s \in Stream, ReadLine(s) PROVE EofOK'
  BY <1>6 DEF ReadLine, EofOK, AtEof, TypeOK
<1>7. ASSUME NEW s \in Stream, ReadEof(s) PROVE EofOK'
  BY <1>7 DEF ReadEof, EofOK, AtEof, TypeOK
<1>8. CASE WaitForSubprocess \/ RunEpilog \/ Finish \/ UNCHANGED vars
  BY <1>8 DEF WaitForSubprocess, RunEpilog, Finish, vars, EofOK, AtEof
<1> QED BY <1>1, <1>2, <1>3, <1>4, <1>5, <1>6, <1>7, <1>8 DEF Next, Loop, Pump, Done

\* A line more is allowed if the lines before it and itself are.
LEMMA AllOkAppend ==
  ASSUME NEW s \in Seq(Line), NEW l \in Line
  PROVE  AllOk(Append(s, l)) <=> AllOk(s) /\ l = "ok"
BY DEF AllOk

\* Every step keeps the counter of a stream in accord with the lines passed on.
LEMMA CountNext == TypeOK /\ CountOK /\ [Next]_vars => CountOK'
<1> SUFFICES ASSUME TypeOK, CountOK, [Next]_vars PROVE CountOK'
  OBVIOUS
<1>1. ASSUME NEW s \in Stream, ReadLine(s) PROVE CountOK'
  <2>1. Head(buf[s]) \in Line
    <3>1. buf[s] \in Seq(Line) /\ buf[s] # <<>>
      BY <1>1 DEF ReadLine, TypeOK
    <3> QED BY <3>1, HeadTailProperties
  <2>2. CASE UNCHANGED <<unexpected, wrote>>
    BY <2>2 DEF CountOK
  <2>3. CASE PassOn(s, Head(buf[s]))
    <3>1. wrote[s] \in Seq(Line) /\ unexpected[s] \in Nat
      BY DEF TypeOK
    <3>2. /\ wrote'[s] = Append(wrote[s], Head(buf[s]))
          /\ unexpected'[s] = IF Allowlist /\ Head(buf[s]) # "ok" THEN unexpected[s] + 1
                                                                  ELSE unexpected[s]
          /\ \A t \in Stream \ {s} : wrote'[t] = wrote[t] /\ unexpected'[t] = unexpected[t]
      BY <2>3 DEF PassOn, TypeOK
    <3>3. AllOk(wrote'[s]) <=> AllOk(wrote[s]) /\ Head(buf[s]) = "ok"
      BY <2>1, <3>1, <3>2, AllOkAppend
    <3>4. ASSUME NEW t \in Stream, t # s
          PROVE  /\ Allowlist /\ unexpected'[t] = 0 => AllOk(wrote'[t])
                 /\ unexpected'[t] > 0 => Allowlist
                 /\ AllowsEmpty /\ unexpected'[t] > 0 => ~AllOk(wrote'[t])
      BY <3>2, <3>4 DEF CountOK
    <3>5. CASE Allowlist /\ Head(buf[s]) # "ok"
      <4>1. unexpected'[s] # 0 /\ unexpected'[s] > 0
        BY <3>1, <3>2, <3>5
      <4> QED BY <3>3, <3>4, <3>5, <4>1 DEF CountOK
    <3>6. CASE ~(Allowlist /\ Head(buf[s]) # "ok")
      <4>1. unexpected'[s] = unexpected[s]
        BY <3>2, <3>6
      <4> QED BY <3>3, <3>4, <3>6, <4>1 DEF CountOK
    <3> QED BY <3>5, <3>6
  <2> QED BY <1>1, <2>2, <2>3 DEF ReadLine
<1>2. ASSUME NEW s \in Stream, ReadEof(s) PROVE CountOK'
  <2>1. /\ unexpected[s] \in Nat /\ UNCHANGED wrote
        /\ unexpected'[s] = IF Allowlist /\ ~AllowsEmpty THEN unexpected[s] + 1
                                                         ELSE unexpected[s]
        /\ \A t \in Stream \ {s} : unexpected'[t] = unexpected[t]
    BY <1>2 DEF ReadEof, TypeOK
  <2> QED BY <2>1 DEF CountOK
<1>3. CASE UNCHANGED <<unexpected, wrote>>
  BY <1>3 DEF CountOK
<1>4. ASSUME NEW s \in Stream, Feed(s) \/ FeedEof(s) \/ TestStream(s)
      PROVE  UNCHANGED <<unexpected, wrote>>
  BY <1>4 DEF Feed, FeedEof, TestStream
<1>5. ASSUME \/ ChildWrite \/ ChildExit \/ WaitForSubprocess \/ RunEpilog \/ Finish
             \/ UNCHANGED vars
      PROVE  UNCHANGED <<unexpected, wrote>>
  BY <1>5 DEF ChildWrite, ChildExit, WaitForSubprocess, RunEpilog, Finish, vars
<1> QED BY <1>1, <1>2, <1>3, <1>4, <1>5 DEF Next, Loop, Pump, Done

\* Once the three tasks have ended, what they raised does not change.
LEMMA ErrorsStay ==
  TypeOK /\ EofOK /\ AllDone /\ [Next]_vars => AllDone' /\ Errors' = Errors
<1> SUFFICES ASSUME TypeOK, EofOK, AllDone, [Next]_vars
             PROVE  AllDone' /\ UNCHANGED <<child, task, unexpected>>
  BY DEF Errors
<1>1. child # Running /\ waited /\ \A s \in Stream : task[s] \in {"ended", "died"}
  BY DEF AllDone, EofOK
<1>2. ASSUME NEW s \in Stream, Pump(s) PROVE FALSE
  BY <1>1, <1>2 DEF Pump, TestStream, ReadLine, ReadEof
<1>3. ASSUME NEW s \in Stream, Loop(s) PROVE UNCHANGED <<child, task, unexpected, waited>>
  BY <1>3 DEF Loop, Feed, FeedEof
<1>4. ASSUME \/ ChildWrite \/ ChildExit \/ WaitForSubprocess \/ RunEpilog \/ Finish
             \/ UNCHANGED vars
      PROVE  UNCHANGED <<child, task, unexpected, waited>>
  BY <1>1, <1>4 DEF ChildWrite, ChildExit, WaitForSubprocess, RunEpilog, Finish, vars
<1>5. UNCHANGED <<child, task, unexpected, waited>>
  BY <1>2, <1>3, <1>4 DEF Next, Done
<1> QED BY <1>1, <1>5 DEF AllDone

\* The epilog and the result are only set when all tasks have ended, from their errors.
LEMMA ResultNext == TypeOK /\ EofOK /\ ResultOK /\ [Next]_vars => ResultOK'
<1> SUFFICES ASSUME TypeOK, EofOK, ResultOK, [Next]_vars PROVE ResultOK'
  OBVIOUS
<1>1. AllDone => AllDone' /\ Outcomes(Errors)' = Outcomes(Errors)
  BY ErrorsStay DEF Outcomes, Kept, Of
<1>2. CASE RunEpilog
  BY <1>1, <1>2 DEF RunEpilog, EpilogDue, ResultOK
<1>3. CASE Finish
  BY <1>1, <1>3 DEF Finish, ResultOK
<1>4. CASE UNCHANGED <<epilog, result>>
  BY <1>1, <1>4 DEF ResultOK
<1>5. ASSUME NEW s \in Stream, Loop(s) \/ Pump(s) PROVE UNCHANGED <<epilog, result>>
  BY <1>5 DEF Loop, Pump, Feed, FeedEof, TestStream, ReadLine, ReadEof
<1>6. ASSUME ChildWrite \/ ChildExit \/ WaitForSubprocess \/ UNCHANGED vars
      PROVE  UNCHANGED <<epilog, result>>
  BY <1>6 DEF ChildWrite, ChildExit, WaitForSubprocess, vars
<1> QED BY <1>2, <1>3, <1>4, <1>5, <1>6 DEF Next, Done

\* The inductive invariant holds of every run of the wrapper.
THEOREM Invariant == Spec => []IInv
<1>1. Init => IInv
  <2> SUFFICES ASSUME Init PROVE IInv
    OBVIOUS
  <2>1. <<>> \in Seq(Line) /\ (<<>> \o <<>>) \o <<>> = <<>> /\ AllOk(<<>>)
    BY DEF AllOk
  <2>2. Flow
    BY <2>1 DEF Init, Flow
  <2>3. EofOK /\ CountOK /\ ResultOK
    BY <2>1 DEF Init, EofOK, CountOK, ResultOK, AtEof
  <2> QED BY <2>2, <2>3, InitType DEF IInv
<1>2. IInv /\ [Next]_vars => IInv'
  BY RunTypeNext, FlowNext, EofNext, CountNext, ResultNext DEF IInv
<1> QED BY <1>1, <1>2, PTL DEF Spec

-----------------------------------------------------------------------------
(* The safety properties *)

\* No run leaves the set of typed states.
THEOREM TypeCorrect == Spec => []TypeOK
<1>1. IInv => TypeOK
  BY DEF IInv
<1> QED BY <1>1, Invariant, PTL

\* What a task that has ended passed on is all that Bazel wrote to its stream.
LEMMA EndedHasAll ==
  ASSUME IInv, NEW s \in Stream, task[s] = "ended"
  PROVE  wrote[s] = sent[s]
<1>1. /\ wrote[s] \in Seq(Line) /\ buf[s] = <<>> /\ pipe[s] = <<>>
      /\ sent[s] = (wrote[s] \o buf[s]) \o pipe[s]
  BY DEF IInv, TypeOK, Flow, EofOK, AtEof
<1>2. wrote[s] \o <<>> = wrote[s]
  BY <1>1, ConcatEmptySeq
<1> QED BY <1>1, <1>2

\* When the wrapper ends with an exit code of its own accord, all that Bazel wrote
\* has been passed on in order, whatever the pipes and the buffers hold.
THEOREM NothingLost == Spec => []AllPiped
<1>1. IInv => AllPiped
  <2> SUFFICES ASSUME IInv, result # NoResult, NoneDied PROVE wrote = sent
    BY DEF AllPiped
  <2>1. \A s \in Stream : task[s] = "ended"
    BY DEF IInv, ResultOK, AllDone, NoneDied
  <2>2. \A s \in Stream : wrote[s] = sent[s]
    BY <2>1, EndedHasAll
  <2> QED BY <2>2 DEF IInv, TypeOK
<1> QED BY <1>1, Invariant, PTL

\* There are at most five errors.
LEMMA ErrorsFinite == IsFiniteSet(Errors)
<1> DEFINE E(k, f, c) == {[kind |-> k, from |-> f, code |-> c]}
           U == E("unexpected", "out", 1) \cup E("unexpected", "err", 1)
           O == E("other", "out", 1) \cup E("other", "err", 1)
           A == (U \cup O) \cup E("subprocess", "bazel", child)
<1>1. \A k, f, c : IsFiniteSet(E(k, f, c))
  BY FS_Singleton
<1> HIDE DEF E
<1>2. IsFiniteSet(U) /\ IsFiniteSet(O)
  BY <1>1, FS_Union
<1> HIDE DEF U, O
<1>3. IsFiniteSet(A)
  BY <1>1, <1>2, FS_Union
<1>4. Errors \subseteq A
  BY DEF Errors, Stream, U, O, E
<1> QED BY <1>3, <1>4, FS_Subset

\* A failing Bazel whose output could be read ends the wrapper with Bazel's own exit
\* code, with any number of unexpected lines and in any order of the tasks.
THEOREM ExitCodeKept == Spec => []ExitCodePreserved
<1>1. IInv => ExitCodePreserved
  <2> SUFFICES ASSUME IInv, result # NoResult, NoneDied, child # 0 PROVE result = child
    BY DEF ExitCodePreserved
  <2> DEFINE e == [kind |-> "subprocess", from |-> "bazel", code |-> child]
  <2>1. e \in Errors /\ e.kind = "subprocess" /\ e.code = child
    BY DEF Errors
  <2>2. \A x \in Errors : x = e \/ x.kind = "unexpected"
    BY DEF Errors, NoneDied
  <2>3. result \in Outcomes(Errors) /\ Errors # {}
    BY <2>1 DEF IInv, ResultOK
  <2> HIDE DEF e
  <2>4. CASE Cardinality(Errors) = 1
    <3>1. \A x \in Errors : x = e
      BY <2>1, <2>4, ErrorsFinite, FS_Singleton
    <3> QED BY <2>1, <2>3, <2>4, <3>1 DEF Outcomes
  <2>5. CASE Cardinality(Errors) # 1
    <3>1. Of("other", Errors) = {} /\ Of("subprocess", Errors) # {}
      BY <2>1, <2>2 DEF Of
    <3>2. \A x \in Kept(Errors) : x = e
      BY <2>2, <3>1 DEF Kept, Of
    <3>3. result \in {x.code : x \in Kept(Errors)}
      BY <2>3, <2>5, <3>1 DEF Outcomes
    <3> QED BY <2>1, <3>2, <3>3
  <2> QED BY <2>4, <2>5
<1> QED BY <1>1, Invariant, PTL

\* The wrapper succeeds only if Bazel did and every line it wrote is allowed.
THEOREM SuccessMeansClean == Spec => []SuccessIsClean
<1>1. IInv => SuccessIsClean
  <2> SUFFICES ASSUME IInv, result = 0
               PROVE  child = 0 /\ (Allowlist => ~WroteBad)
    BY DEF SuccessIsClean
  <2>1. AllDone /\ result \in Outcomes(Errors)
    BY DEF IInv, ResultOK, NoResult
  <2>2. \A x \in Errors : x.code # 0
    BY DEF Errors
  <2>3. Errors = {}
    <3>1. CASE Cardinality(Errors) = 1
      BY <2>1, <2>2, <3>1 DEF Outcomes, Traceback
    <3>2. CASE Cardinality(Errors) # 1
      <4>1. Kept(Errors) \subseteq Errors
        BY DEF Kept
      <4> QED BY <2>1, <2>2, <3>2, <4>1 DEF Outcomes, Traceback
    <3> QED BY <3>1, <3>2
  <2>4. child = 0 /\ \A s \in Stream : task[s] # "died" /\ ~(task[s] = "ended" /\ unexpected[s] > 0)
    BY <2>3 DEF Errors
  <2>5. \A s \in Stream : task[s] = "ended" /\ unexpected[s] = 0
    BY <2>1, <2>4 DEF AllDone, IInv, TypeOK
  <2>6. \A s \in Stream : wrote[s] = sent[s]
    BY <2>5, EndedHasAll
  <2>7. Allowlist => \A s \in Stream : AllOk(sent[s])
    BY <2>5, <2>6 DEF IInv, CountOK
  <2> QED BY <2>4, <2>7 DEF WroteBad, AllOk
<1> QED BY <1>1, Invariant, PTL

\* If the allowlist covers the empty line, the wrapper fails on its own account only
\* for a line that Bazel wrote and the allowlist does not cover.
THEOREM FailureIsReal == ASSUME AllowsEmpty PROVE Spec => []ErrorIsReal
<1>1. IInv => ErrorIsReal
  <2> SUFFICES ASSUME IInv, result = 1, child = 0 PROVE WroteBad
    BY DEF ErrorIsReal
  <2>1. AllDone /\ result \in Outcomes(Errors)
    BY DEF IInv, ResultOK, NoResult
  <2>2. \A x \in Errors : x.kind # "subprocess"
    BY DEF Errors
  <2>3. \E x \in Errors : x.kind = "unexpected"
    <3>1. \A x \in Errors : x.kind \in {"unexpected", "other"}
      BY <2>2 DEF Errors
    <3>2. Errors # {}
      BY <2>1 DEF Outcomes
    <3>3. CASE Cardinality(Errors) = 1
      BY <2>1, <3>1, <3>2, <3>3 DEF Outcomes, Traceback
    <3>4. CASE Cardinality(Errors) # 1
      <4>1. Of("other", Errors) = {}
        BY <2>1, <3>2, <3>4 DEF Outcomes, Traceback
      <4> QED BY <3>1, <3>2, <4>1 DEF Of
    <3> QED BY <3>3, <3>4
  <2>4. PICK s \in Stream : task[s] = "ended" /\ unexpected[s] > 0
    BY <2>3 DEF Errors
  <2>5. ~AllOk(wrote[s]) /\ wrote[s] = sent[s]
    BY <2>4, EndedHasAll DEF IInv, CountOK
  <2> QED BY <2>5 DEF WroteBad, AllOk
<1> QED BY <1>1, Invariant, PTL

\* remove_gen_dirs runs after Bazel has ended and its output was read, and the
\* wrapper of a `clean` does not end before it.
THEOREM EpilogIsLast == Spec => []EpilogLast
<1>1. IInv => EpilogLast
  BY DEF IInv, ResultOK, EofOK, AllDone, NoneDied, EpilogLast
<1> QED BY <1>1, Invariant, PTL

-----------------------------------------------------------------------------
(* HermeticPath *)

\* Where in the loops a wrapper is: at a tool, at a host tool, at one that is missing,
\* or past all tools.
LoopsOK ==
    \A w \in Wrapper :
        /\ at[w] = "new" => pos[w] = 1
        /\ at[w] \in {"look", "exists", "unlink", "make", "chmod"} => pos[w] <= Tools
        /\ at[w] \in {"exists", "unlink", "chmod"} => pos[w] <= Hosts
        /\ at[w] = "chmod" => pos[w] \notin Found
        /\ at[w] \in {"list", "sweep", "runs", "clean", "ended"} => pos[w] = Tools + 1

\* Nobody removes the directory or a tool of it for good.
NobodyCleans ==
    \A w \in Wrapper :
        /\ at[w] # "clean"
        /\ at[w] # "new" => made
        /\ seen[w] \subseteq Tools + 1 .. Names

Maker(i) == \E v \in Wrapper : at[v] = "make" /\ pos[v] = i

\* Who writes the script of a missing tool writes it over nothing, or over a script.
ScriptsOK ==
    \A w \in Wrapper :
        at[w] \in {"make", "chmod"} /\ pos[w] \in (1 .. Hosts) \ Found =>
            entry[pos[w]] \in {"absent", "file"}

\* A tool that someone has set up is there; if it is a host tool, someone may be about
\* to make it again.
SetUpOK ==
    \A w \in Wrapper, i \in 1 .. Tools :
        at[w] # "died" /\ pos[w] > i =>
            There(i) \/ (i <= Hosts /\ entry[i] = "absent" /\ Maker(i))

KeptInv ==
    /\ PathTypeOK /\ LoopsOK
    /\ cleaner = {} => NobodyCleans /\ ScriptsOK /\ SetUpOK

\* No link to a hermetic tool leads nowhere.
NothingDangles(e) == \A i \in Hosts + 1 .. Tools : e[i] # "dangling"

Alive(v) == at[v] # "died"

\* Whoever is to remove or to chmod an entry that is gone: someone is about to make it.
GoneOK ==
    \A w \in Wrapper :
        at[w] \in {"unlink", "chmod"} /\ entry[pos[w]] = "absent" => Maker(pos[w])

\* Whoever is to make a link that is there: someone alive has made it and gone on.
MadeOK ==
    \A w \in Wrapper :
        /\ at[w] = "make" /\ pos[w] \notin (1 .. Hosts) \ Found
        /\ entry[pos[w]] # "absent"
        => \E v \in Wrapper : Alive(v) /\ pos[v] > pos[w]

\* v is past the tools and has no name up to i to remove.
Beyond(v, i) == at[v] \in {"sweep", "runs", "ended"} /\ \A j \in seen[v] : i < j

\* A name that someone still has to remove, and is gone: someone alive is beyond it.
SweptOK ==
    \A w \in Wrapper : \A i \in seen[w] :
        entry[i] = "absent" => \E v \in Wrapper : Beyond(v, i)

\* Whom a wrapper that died has lost to.
Outlives(v, w) ==
    /\ Alive(v)
    /\ pos[v] > pos[w] \/ (pos[v] = pos[w] /\ at[v] \in {"make", "chmod"})

DiedOK ==
    \A w \in Wrapper :
        at[w] = "died" =>
            \/ \E v \in Wrapper : Outlives(v, w)
            \/ pos[w] = Tools + 1 /\ \E i \in seen[w] : entry[i] = "absent"

SurvivorInv ==
    cleaner = {} /\ NothingDangles(old) =>
        NothingDangles(entry) /\ GoneOK /\ MadeOK /\ SweptOK /\ DiedOK

-----------------------------------------------------------------------------
(* The next name a wrapper removes *)

\* The names that a wrapper still has to remove have a first one.
LEMMA FirstName ==
  ASSUME NEW w \in Wrapper, PathTypeOK, seen[w] # {}
  PROVE  First(w) \in seen[w] /\ \A j \in seen[w] : First(w) <= j
<1> DEFINE R == OpToRel(<, Nat)
<1> HIDE DEF R
<1>1. seen[w] \subseteq Nat
  BY HermeticPathAssumption DEF PathTypeOK
<1>2. PICK i \in seen[w] : \A j \in seen[w] : ~ (<<j, i>> \in R)
  <2>1. IsWellFoundedOn(R, Nat)
    BY NatLessThanWellFounded DEF R
  <2> QED BY <1>1, <2>1, WFMin
<1>3. ASSUME NEW j \in seen[w] PROVE i <= j
  <2>1. j \in Nat /\ i \in Nat
    BY <1>1
  <2>2. SUFFICES ASSUME j < i PROVE <<j, i>> \in R
    BY <1>2, <2>1
  <2>3. R = {p \in Nat \X Nat : p[1] < p[2]}
    BY DEF R, OpToRel
  <2> QED BY <2>1, <2>2, <2>3
<1> QED BY <1>3 DEF First

-----------------------------------------------------------------------------
(* No tool is lost *)

\* Types of what the steps are made of.
LEMMA GotoType ==
  ASSUME NEW w \in Wrapper, NEW s \in Step, PathTypeOK, Goto(w, s)
  PROVE  at' \in [Wrapper -> Step] /\ pos' \in [Wrapper -> 1 .. Tools + 1]
BY DEF Goto, PathTypeOK

LEMMA AdvanceType ==
  ASSUME NEW w \in Wrapper, PathTypeOK, LoopsOK, Advance(w), at[w] \in {"look", "make", "chmod"}
  PROVE  at' \in [Wrapper -> Step] /\ pos' \in [Wrapper -> 1 .. Tools + 1]
<1>1. {"look", "list"} \subseteq Step
  BY DEF Step
<1>2. pos[w] <= Tools
  BY DEF LoopsOK
<1> QED BY <1>1, <1>2, HermeticPathAssumption DEF Advance, PathTypeOK

LEMMA PutType ==
  ASSUME NEW i, NEW e \in Entry, PathTypeOK, Put(i, e)
  PROVE  entry' \in [1 .. Names -> Entry]
BY DEF Put, PathTypeOK

LEMMA TypeNext == PathTypeOK /\ LoopsOK /\ [PathNext]_pathVars => PathTypeOK'
<1> SUFFICES ASSUME PathTypeOK, LoopsOK, [PathNext]_pathVars PROVE PathTypeOK'
  OBVIOUS
<1> DEFINE Moved == at' \in [Wrapper -> Step] /\ pos' \in [Wrapper -> 1 .. Tools + 1]
           Filled == entry' \in [1 .. Names -> Entry]
<1>1. ASSUME NEW w \in Wrapper, SetUp(w) \/ RunEnds(w) \/ RemoveOne(w) \/ RemoveDir(w)
      PROVE  Moved
  <2>1. {"look", "exists", "unlink", "make", "chmod", "list", "sweep", "runs", "clean",
         "ended", "died"} \subseteq Step
    BY DEF Step
  <2>2. ASSUME NEW s \in Step, Goto(w, s) PROVE Moved
    BY <2>2, GotoType
  <2>3. ASSUME Advance(w), at[w] \in {"look", "make", "chmod"} PROVE Moved
    BY <2>3, AdvanceType
  <2>4. ASSUME UNCHANGED <<at, pos>> PROVE Moved
    BY <2>4 DEF PathTypeOK
  <2> HIDE DEF Moved
  <2>5. CASE Mkdir(w) \/ Exists(w) \/ Unlink(w) \/ List(w)
    BY <2>5, <2>1, <2>2 DEF Mkdir, Exists, Unlink, List
  <2>6. CASE LookHost(w) \/ LookHermetic(w)
    BY <2>6, <2>1, <2>2, <2>3 DEF LookHost, LookHermetic
  <2>7. CASE MakeLink(w) \/ MakeScript(w) \/ Chmod(w)
    BY <2>7, <2>1, <2>2, <2>3 DEF MakeLink, MakeScript, Chmod
  <2>8. CASE Sweep(w) \/ StartsRun(w) \/ RunEnds(w) \/ RemoveOne(w) \/ RemoveDir(w)
    BY <2>8, <2>1, <2>2, <2>4 DEF Sweep, StartsRun, RunEnds, RemoveOne, RemoveDir
  <2> QED BY <1>1, <2>5, <2>6, <2>7, <2>8 DEF SetUp
<1>2. ASSUME NEW w \in Wrapper, SetUp(w) \/ RunEnds(w) \/ RemoveOne(w) \/ RemoveDir(w)
      PROVE  Filled
  <2>1. {"absent", "right", "wrong", "dangling", "file"} = Entry
    BY DEF Entry
  <2>2. ASSUME NEW i, NEW e \in Entry, Put(i, e) PROVE Filled
    BY <2>2, PutType
  <2>3. ASSUME UNCHANGED entry PROVE Filled
    BY <2>3 DEF PathTypeOK
  <2>4. CASE MakeScript(w)
    <3>1. pos[w] \in 1 .. Names
      BY <2>4, HermeticPathAssumption DEF MakeScript
    <3>2. Written(entry[pos[w]]) \in Entry
      BY <2>1, <3>1 DEF PathTypeOK, Written
    <3>3. Put(pos[w], Written(entry[pos[w]])) \/ UNCHANGED entry
      BY <2>4 DEF MakeScript
    <3> QED BY <2>3, <3>2, <3>3, PutType
  <2> HIDE DEF Filled
  <2>5. CASE Unlink(w) \/ MakeLink(w)
    BY <2>5, <2>1, <2>2, <2>3 DEF Unlink, MakeLink
  <2>6. CASE Sweep(w) \/ RemoveOne(w)
    BY <2>6, <2>1, <2>2, <2>3 DEF Sweep, RemoveOne
  <2>7. CASE Mkdir(w) \/ LookHost(w) \/ Exists(w) \/ Chmod(w) \/ LookHermetic(w)
    BY <2>7, <2>3 DEF Mkdir, LookHost, Exists, Chmod, LookHermetic
  <2>8. CASE List(w) \/ StartsRun(w) \/ RunEnds(w) \/ RemoveDir(w)
    BY <2>8, <2>3 DEF List, StartsRun, RunEnds, RemoveDir, Listed
  <2> QED BY <1>2, <2>4, <2>5, <2>6, <2>7, <2>8 DEF SetUp
<1>3. ASSUME NEW w \in Wrapper, SetUp(w) \/ RunEnds(w) \/ RemoveOne(w) \/ RemoveDir(w)
      PROVE  /\ made' \in BOOLEAN /\ UNCHANGED <<old, cleaner>>
             /\ seen' \in [Wrapper -> SUBSET (1 .. Names)]
  <2>1. CASE Mkdir(w) \/ LookHost(w) \/ Exists(w) \/ Unlink(w) \/ MakeLink(w) \/ MakeScript(w)
    BY <2>1 DEF PathTypeOK, Mkdir, LookHost, Exists, Unlink, MakeLink, MakeScript
  <2>2. CASE Chmod(w) \/ LookHermetic(w) \/ Sweep(w) \/ StartsRun(w)
    BY <2>2 DEF PathTypeOK, Chmod, LookHermetic, Sweep, StartsRun
  <2>3. CASE List(w) \/ RunEnds(w)
    BY <2>3, HermeticPathAssumption DEF PathTypeOK, List, RunEnds, Listed
  <2>4. CASE RemoveOne(w) \/ RemoveDir(w)
    BY <2>4 DEF PathTypeOK, RemoveOne, RemoveDir
  <2> QED BY <1>3, <2>1, <2>2, <2>3, <2>4 DEF SetUp
<1>4. CASE UNCHANGED pathVars
  BY <1>4 DEF PathTypeOK, pathVars
<1> QED BY <1>1, <1>2, <1>3, <1>4 DEF PathNext, PathTypeOK

LEMMA LoopsNext == PathTypeOK /\ LoopsOK /\ [PathNext]_pathVars => LoopsOK'
<1> SUFFICES ASSUME PathTypeOK, LoopsOK, [PathNext]_pathVars, NEW v \in Wrapper
             PROVE  LoopsOK!(v)'
  BY DEF LoopsOK
<1> USE HermeticPathAssumption DEF PathTypeOK, LoopsOK, Goto
<1>1. ASSUME NEW w \in Wrapper, Mkdir(w) \/ LookHermetic(w) \/ LookHost(w) \/ Exists(w)
                                \/ StartsRun(w)
      PROVE  LoopsOK!(v)'
  <2>1. CASE Mkdir(w)
    BY <2>1 DEF Mkdir
  <2>2. CASE LookHermetic(w)
    <3>1. CASE Advance(w)
      <4>1. at[w] = "look" /\ pos[w] <= Tools
        BY <2>2 DEF LookHermetic
      <4> QED BY <3>1, <4>1 DEF Advance
    <3>2. CASE Goto(w, "make")
      BY <2>2, <3>2 DEF LookHermetic
    <3> QED BY <2>2, <3>1, <3>2 DEF LookHermetic
  <2>3. CASE LookHost(w)
    <3>1. CASE Advance(w)
      <4>1. at[w] = "look" /\ pos[w] <= Tools
        BY <2>3 DEF LookHost
      <4> QED BY <3>1, <4>1 DEF Advance
    <3>2. CASE Goto(w, "exists")
      BY <2>3, <3>2 DEF LookHost
    <3> QED BY <2>3, <3>1, <3>2 DEF LookHost
  <2>4. CASE Exists(w)
    BY <2>4 DEF Exists
  <2>5. CASE StartsRun(w)
    BY <2>5 DEF StartsRun
  <2> QED BY <1>1, <2>1, <2>2, <2>3, <2>4, <2>5
<1>2. ASSUME NEW w \in Wrapper, Unlink(w) \/ MakeLink(w) \/ MakeScript(w) \/ Chmod(w)
      PROVE  LoopsOK!(v)'
  BY SMTT(20), <1>2 DEF Unlink, MakeLink, MakeScript, Chmod, Advance
<1>3. ASSUME NEW w \in Wrapper, List(w) \/ Sweep(w) \/ RunEnds(w) \/ RemoveOne(w)
                                \/ RemoveDir(w)
      PROVE  LoopsOK!(v)'
  BY <1>3 DEF List, Sweep, RunEnds, RemoveOne, RemoveDir
<1>4. CASE UNCHANGED pathVars
  BY <1>4 DEF pathVars
<1> QED BY <1>1, <1>2, <1>3, <1>4 DEF PathNext, SetUp

\* Without a `clean` the directory stays, and wrappers remove stray files only.
LEMMA NobodyCleansNext ==
  PathTypeOK /\ LoopsOK /\ cleaner = {} /\ NobodyCleans /\ [PathNext]_pathVars => NobodyCleans'
<1> SUFFICES ASSUME PathTypeOK, LoopsOK, cleaner = {}, NobodyCleans, [PathNext]_pathVars,
                    NEW v \in Wrapper
             PROVE  NobodyCleans!(v)'
  BY DEF NobodyCleans
<1> USE DEF PathTypeOK, NobodyCleans, Goto
<1>1. ASSUME NEW w \in Wrapper, Mkdir(w) \/ LookHermetic(w) \/ LookHost(w) \/ Exists(w)
                                \/ StartsRun(w)
      PROVE  NobodyCleans!(v)'
  BY <1>1 DEF Mkdir, LookHermetic, LookHost, Exists, StartsRun, Advance
<1>2. ASSUME NEW w \in Wrapper, Unlink(w) \/ MakeLink(w) \/ MakeScript(w) \/ Chmod(w)
      PROVE  NobodyCleans!(v)'
  BY <1>2 DEF Unlink, MakeLink, MakeScript, Chmod, Advance
<1>3. ASSUME NEW w \in Wrapper, List(w) \/ Sweep(w) \/ RunEnds(w) \/ RemoveOne(w)
                                \/ RemoveDir(w)
      PROVE  NobodyCleans!(v)'
  BY <1>3 DEF List, Sweep, RunEnds, RemoveOne, RemoveDir, Listed
<1>4. CASE UNCHANGED pathVars
  BY <1>4 DEF pathVars
<1> QED BY <1>1, <1>2, <1>3, <1>4 DEF PathNext, SetUp

Calm == PathTypeOK /\ LoopsOK /\ cleaner = {} /\ NobodyCleans

\* What a step does to the entry of a tool.
LEMMA EntryStep ==
  ASSUME Calm, [PathNext]_pathVars, NEW i \in 1 .. Tools
  PROVE  \/ entry'[i] = entry[i]
         \/ \E w \in Wrapper : Unlink(w) /\ pos[w] = i /\ i <= Hosts /\ entry'[i] = "absent"
         \/ \E w \in Wrapper : MakeLink(w) /\ pos[w] = i /\ entry[i] = "absent"
                               /\ entry'[i] = "right"
         \/ \E w \in Wrapper : MakeScript(w) /\ pos[w] = i /\ entry'[i] = Written(entry[i])
<1> USE HermeticPathAssumption DEF Calm, PathTypeOK, LoopsOK, Goto, Put
<1>1. ASSUME NEW w \in Wrapper, Mkdir(w) \/ LookHermetic(w) \/ LookHost(w) \/ Exists(w)
                                \/ StartsRun(w) \/ Chmod(w)
      PROVE  UNCHANGED entry
  BY <1>1 DEF Mkdir, LookHermetic, LookHost, Exists, StartsRun, Chmod
<1>2. ASSUME NEW w \in Wrapper, List(w) \/ RunEnds(w) \/ RemoveDir(w)
      PROVE  UNCHANGED entry
  BY <1>2 DEF List, RunEnds, RemoveDir, Listed
<1>3. ASSUME NEW w \in Wrapper, Sweep(w) PROVE entry'[i] = entry[i]
  <2>1. seen[w] # {} /\ (UNCHANGED entry \/ Put(First(w), "absent"))
    BY <1>3 DEF Sweep
  <2>2. First(w) \in Tools + 1 .. Names
    BY <2>1, FirstName DEF NobodyCleans
  <2> QED BY <2>1, <2>2
<1>4. ASSUME NEW w \in Wrapper, RemoveOne(w) PROVE FALSE
  BY <1>4 DEF RemoveOne, NobodyCleans
<1>5. ASSUME NEW w \in Wrapper, Unlink(w)
      PROVE  entry'[i] = entry[i] \/ (pos[w] = i /\ i <= Hosts /\ entry'[i] = "absent")
  BY <1>5 DEF Unlink
<1>6. ASSUME NEW w \in Wrapper, MakeLink(w)
      PROVE  entry'[i] = entry[i] \/ (pos[w] = i /\ entry[i] = "absent" /\ entry'[i] = "right")
  BY <1>6 DEF MakeLink
<1>7. ASSUME NEW w \in Wrapper, MakeScript(w)
      PROVE  entry'[i] = entry[i] \/ (pos[w] = i /\ entry'[i] = Written(entry[i]))
  BY <1>7 DEF MakeScript
<1>8. CASE UNCHANGED pathVars
  BY <1>8 DEF pathVars
<1> QED BY <1>1, <1>2, <1>3, <1>4, <1>5, <1>6, <1>7, <1>8 DEF PathNext, SetUp

\* Who stops making an entry leaves one there.
LEMMA MakerStep ==
  ASSUME Calm, [PathNext]_pathVars, NEW i \in 1 .. Tools, Maker(i)
  PROVE  Maker(i)' \/ entry'[i] # "absent"
<1> PICK v \in Wrapper : at[v] = "make" /\ pos[v] = i
  BY DEF Maker
<1> SUFFICES ASSUME ~ (at'[v] = "make" /\ pos'[v] = i) PROVE entry'[i] # "absent"
  BY DEF Maker
<1> USE HermeticPathAssumption DEF Calm, PathTypeOK, Goto, Put
<1>1. MakeLink(v) \/ MakeScript(v)
  <2>1. ASSUME NEW w \in Wrapper, Mkdir(w) \/ LookHermetic(w) \/ LookHost(w) \/ Exists(w)
                                  \/ StartsRun(w)
        PROVE  FALSE
    BY <2>1 DEF Mkdir, LookHermetic, LookHost, Exists, StartsRun, Advance
  <2>2. ASSUME NEW w \in Wrapper, Unlink(w) \/ Chmod(w) \/ List(w) \/ Sweep(w) PROVE FALSE
    BY <2>2 DEF Unlink, Chmod, Advance, List, Sweep
  <2>3. ASSUME NEW w \in Wrapper, RunEnds(w) \/ RemoveOne(w) \/ RemoveDir(w) PROVE FALSE
    BY <2>3 DEF RunEnds, RemoveOne, RemoveDir
  <2>4. ASSUME NEW w \in Wrapper, MakeLink(w) \/ MakeScript(w) PROVE w = v
    BY <2>4 DEF MakeLink, MakeScript, Advance
  <2>5. CASE UNCHANGED pathVars
    BY <2>5 DEF pathVars
  <2> QED BY <2>1, <2>2, <2>3, <2>4, <2>5 DEF PathNext, SetUp
<1>2. made
  BY DEF NobodyCleans
<1>3. CASE MakeLink(v)
  BY <1>2, <1>3 DEF MakeLink
<1>4. CASE MakeScript(v)
  <2>1. entry' = [entry EXCEPT ![i] = Written(entry[i])]
    BY <1>2, <1>4 DEF MakeScript
  <2> QED BY <2>1 DEF Written
<1> QED BY <1>1, <1>3, <1>4

\* How a wrapper comes to make an entry, and to chmod it.
LEMMA ComesToMake ==
  ASSUME Calm, [PathNext]_pathVars, NEW w \in Wrapper, at'[w] = "make", at[w] # "make"
  PROVE  /\ pos'[w] = pos[w]
         /\ \/ pos[w] <= Hosts /\ entry'[pos[w]] = "absent"
            \/ pos[w] > Hosts /\ entry'[pos[w]] = entry[pos[w]] /\ ~ Resolves(entry[pos[w]])
<1> USE HermeticPathAssumption DEF Calm, PathTypeOK, LoopsOK, Goto, Put
<1>1. ASSUME NEW v \in Wrapper, Mkdir(v) \/ LookHost(v) \/ StartsRun(v) \/ MakeLink(v)
                                \/ MakeScript(v) \/ Chmod(v)
      PROVE  FALSE
  <2>1. CASE Mkdir(v) \/ LookHost(v) \/ StartsRun(v)
    BY <2>1 DEF Mkdir, LookHost, StartsRun, Advance
  <2>2. CASE MakeLink(v) \/ MakeScript(v) \/ Chmod(v)
    BY <2>2 DEF MakeLink, MakeScript, Chmod, Advance
  <2> QED BY <1>1, <2>1, <2>2
<1>2. ASSUME NEW v \in Wrapper, List(v) \/ Sweep(v) \/ RunEnds(v) \/ RemoveOne(v)
                                \/ RemoveDir(v)
      PROVE  FALSE
  BY <1>2 DEF List, Sweep, RunEnds, RemoveOne, RemoveDir
<1>3. ASSUME NEW v \in Wrapper, Exists(v) \/ Unlink(v)
      PROVE  v = w /\ pos'[w] = pos[w] /\ pos[w] <= Hosts /\ entry'[pos[w]] = "absent"
  BY <1>3 DEF Exists, Unlink
<1>4. ASSUME NEW v \in Wrapper, LookHermetic(v)
      PROVE  /\ v = w /\ pos'[w] = pos[w] /\ pos[w] > Hosts
             /\ entry' = entry /\ ~ Resolves(entry[pos[w]])
  BY <1>4 DEF LookHermetic, Advance
<1>5. CASE UNCHANGED pathVars
  BY <1>5 DEF pathVars
<1> QED BY <1>1, <1>2, <1>3, <1>4, <1>5 DEF PathNext, SetUp

LEMMA ComesToChmod ==
  ASSUME Calm, [PathNext]_pathVars, NEW w \in Wrapper, at'[w] = "chmod", at[w] # "chmod"
  PROVE  MakeScript(w) /\ at[w] = "make" /\ pos'[w] = pos[w]
<1> USE HermeticPathAssumption DEF Calm, PathTypeOK, Goto
<1>1. ASSUME NEW v \in Wrapper, Mkdir(v) \/ LookHost(v) \/ StartsRun(v) \/ MakeLink(v)
                                \/ LookHermetic(v) \/ Chmod(v)
      PROVE  FALSE
  <2>1. CASE Mkdir(v) \/ LookHost(v) \/ StartsRun(v)
    BY <2>1 DEF Mkdir, LookHost, StartsRun, Advance
  <2>2. CASE MakeLink(v) \/ LookHermetic(v) \/ Chmod(v)
    BY <2>2 DEF MakeLink, LookHermetic, Chmod, Advance
  <2> QED BY <1>1, <2>1, <2>2
<1>2. ASSUME NEW v \in Wrapper, Exists(v) \/ Unlink(v) \/ List(v) \/ Sweep(v) \/ RunEnds(v)
                                \/ RemoveOne(v) \/ RemoveDir(v)
      PROVE  FALSE
  BY <1>2 DEF Exists, Unlink, List, Sweep, RunEnds, RemoveOne, RemoveDir
<1>3. ASSUME NEW v \in Wrapper, MakeScript(v)
      PROVE  v = w /\ at[w] = "make" /\ pos'[w] = pos[w]
  BY <1>3 DEF MakeScript
<1>4. CASE UNCHANGED pathVars
  BY <1>4 DEF pathVars
<1> QED BY <1>1, <1>2, <1>3, <1>4 DEF PathNext, SetUp

\* A wrapper stays at its tool or goes on to the next one: only who is done with a tool
\* goes on.
LEMMA PosStep ==
  ASSUME Calm, [PathNext]_pathVars, NEW w \in Wrapper, pos'[w] # pos[w]
  PROVE  /\ pos[w] \in 1 .. Tools /\ pos'[w] = pos[w] + 1
         /\ at[w] # "died" /\ at'[w] \in {"look", "list"}
         /\ \/ LookHost(w) /\ pos[w] \in Found /\ entry[pos[w]] = "right" /\ UNCHANGED entry
            \/ LookHermetic(w) /\ pos[w] > Hosts /\ Resolves(entry[pos[w]])
               /\ UNCHANGED entry
            \/ MakeLink(w) /\ pos[w] \in Found \cup (Hosts + 1 .. Tools)
               /\ entry' = [entry EXCEPT ![pos[w]] = "right"]
            \/ Chmod(w) /\ entry[pos[w]] \notin {"absent", "dangling"} /\ UNCHANGED entry
<1> USE HermeticPathAssumption DEF Calm, PathTypeOK, LoopsOK, Goto, Put
<1>1. ASSUME NEW v \in Wrapper, UNCHANGED pos PROVE FALSE
  BY <1>1
<1>2. ASSUME NEW v \in Wrapper, Mkdir(v) \/ Exists(v) \/ Unlink(v) \/ MakeScript(v)
                                \/ StartsRun(v)
      PROVE  UNCHANGED pos
  BY <1>2 DEF Mkdir, Exists, Unlink, MakeScript, StartsRun
<1>3. ASSUME NEW v \in Wrapper, List(v) \/ Sweep(v) \/ RunEnds(v) \/ RemoveOne(v)
                                \/ RemoveDir(v)
      PROVE  UNCHANGED pos
  BY <1>3 DEF List, Sweep, RunEnds, RemoveOne, RemoveDir
<1>4. ASSUME NEW v \in Wrapper, Advance(v), at[v] \in {"look", "make", "chmod"}
      PROVE  /\ v = w /\ pos[w] \in 1 .. Tools /\ pos'[w] = pos[w] + 1
             /\ at[w] # "died" /\ at'[w] \in {"look", "list"}
  BY <1>4 DEF Advance
<1>5. ASSUME NEW v \in Wrapper, LookHost(v)
      PROVE  Advance(v) /\ pos[v] \in Found /\ entry[pos[v]] = "right" /\ UNCHANGED entry
  BY <1>5 DEF LookHost
<1>6. ASSUME NEW v \in Wrapper, LookHermetic(v)
      PROVE  Advance(v) /\ pos[v] > Hosts /\ Resolves(entry[pos[v]]) /\ UNCHANGED entry
  BY <1>6 DEF LookHermetic
<1>7. ASSUME NEW v \in Wrapper, MakeLink(v)
      PROVE  /\ Advance(v) /\ pos[v] \in Found \cup (Hosts + 1 .. Tools)
             /\ entry' = [entry EXCEPT ![pos[v]] = "right"]
  BY <1>7 DEF MakeLink
<1>8. ASSUME NEW v \in Wrapper, Chmod(v)
      PROVE  Advance(v) /\ entry[pos[v]] \notin {"absent", "dangling"} /\ UNCHANGED entry
  BY <1>8 DEF Chmod
<1>9. CASE UNCHANGED pathVars
  BY <1>9 DEF pathVars
<1>10. \E v \in Wrapper : LookHost(v) \/ LookHermetic(v) \/ MakeLink(v) \/ Chmod(v)
  BY <1>1, <1>2, <1>3, <1>9 DEF PathNext, SetUp
<1>11. PICK v \in Wrapper : LookHost(v) \/ LookHermetic(v) \/ MakeLink(v) \/ Chmod(v)
  BY <1>10
<1>12. at[v] \in {"look", "make", "chmod"}
  BY <1>11 DEF LookHost, LookHermetic, MakeLink, Chmod
<1>13. Advance(v)
  BY <1>5, <1>6, <1>7, <1>8, <1>11
<1>14. /\ v = w /\ pos[w] \in 1 .. Tools /\ pos'[w] = pos[w] + 1
       /\ at[w] # "died" /\ at'[w] \in {"look", "list"}
  BY <1>4, <1>12, <1>13
<1> QED BY <1>5, <1>6, <1>7, <1>8, <1>11, <1>14

LEMMA ScriptsNext == Calm /\ ScriptsOK /\ [PathNext]_pathVars => ScriptsOK'
<1> SUFFICES ASSUME Calm, ScriptsOK, [PathNext]_pathVars,
                    NEW w \in Wrapper, at'[w] \in {"make", "chmod"},
                    pos'[w] \in (1 .. Hosts) \ Found
             PROVE  entry'[pos'[w]] \in {"absent", "file"}
  BY DEF ScriptsOK, Calm
<1>1. pos'[w] \in 1 .. Tools /\ pos'[w] <= Hosts
  BY HermeticPathAssumption
<1>2. CASE at[w] \in {"make", "chmod"} /\ pos'[w] = pos[w]
  <2>1. entry[pos'[w]] \in {"absent", "file"}
    BY <1>2 DEF ScriptsOK
  <2>2. ASSUME NEW v \in Wrapper, MakeLink(v), pos[v] = pos'[w] PROVE FALSE
    BY <2>2, HermeticPathAssumption DEF MakeLink
  <2> QED BY <1>1, <2>1, <2>2, EntryStep DEF Written
<1>3. CASE ~ (at[w] \in {"make", "chmod"} /\ pos'[w] = pos[w])
  <2>1. CASE at'[w] = "make" /\ at[w] # "make"
    BY <1>1, <2>1, ComesToMake, HermeticPathAssumption
  <2>2. CASE at'[w] = "chmod" /\ at[w] # "chmod"
    BY <1>3, <2>2, ComesToChmod
  <2>3. CASE at'[w] = at[w]
    <3>1. pos'[w] # pos[w]
      BY <1>3, <2>3
    <3> QED BY <3>1, PosStep
  <2> QED BY <2>1, <2>2, <2>3
<1> QED BY <1>2, <1>3

LEMMA SetUpNext == Calm /\ ScriptsOK /\ SetUpOK /\ [PathNext]_pathVars => SetUpOK'
<1> SUFFICES ASSUME Calm, ScriptsOK, SetUpOK, [PathNext]_pathVars,
                    NEW w \in Wrapper, NEW i \in 1 .. Tools, at'[w] # "died", pos'[w] > i
             PROVE  There(i)' \/ (i <= Hosts /\ entry'[i] = "absent" /\ Maker(i)')
  BY DEF SetUpOK
<1> USE HermeticPathAssumption
<1>1. CASE at[w] # "died" /\ pos[w] > i
  <2>1. There(i) \/ (i <= Hosts /\ entry[i] = "absent" /\ Maker(i))
    BY <1>1 DEF SetUpOK
  <2>2. CASE entry'[i] = entry[i]
    BY <2>1, <2>2, MakerStep DEF There
  <2>3. ASSUME NEW v \in Wrapper, Unlink(v), pos[v] = i, i <= Hosts, entry'[i] = "absent"
        PROVE  Maker(i)' \/ There(i)'
    <3>1. CASE entry[i] = "absent"
      BY <2>1, <2>3, <3>1, MakerStep DEF There, Resolves
    <3>2. CASE entry[i] # "absent"
      BY <2>3, <3>2 DEF Unlink, Goto, Maker, Calm, PathTypeOK
    <3> QED BY <3>1, <3>2
  <2>4. ASSUME NEW v \in Wrapper, MakeLink(v), pos[v] = i, entry'[i] = "right"
        PROVE  There(i)'
    BY <2>4 DEF MakeLink, There, Resolves
  <2>5. ASSUME NEW v \in Wrapper, MakeScript(v), pos[v] = i, entry'[i] = Written(entry[i])
        PROVE  There(i)'
    <3>1. i \in (1 .. Hosts) \ Found /\ entry[i] \in {"absent", "file"}
      BY <2>5 DEF MakeScript, ScriptsOK
    <3> QED BY <2>5, <3>1 DEF There, Resolves, Written
  <2> QED BY <2>2, <2>3, <2>4, <2>5, EntryStep
<1>2. CASE at[w] = "died" \/ ~ pos[w] > i
  <2>1. at[w] = "died" => at'[w] = "died"
    BY DEF PathNext, SetUp, Mkdir, LookHost, Exists, Unlink, MakeLink, MakeScript, Chmod,
           LookHermetic, List, Sweep, StartsRun, RunEnds, RemoveOne, RemoveDir, Advance, Goto,
           pathVars, Calm, PathTypeOK
  <2>2. pos[w] \in 1 .. Tools + 1 /\ pos'[w] # pos[w]
    BY <1>2, <2>1 DEF Calm, PathTypeOK
  <2>3. pos[w] = i
    BY <1>2, <2>1, <2>2, PosStep
  <2>4. CASE LookHost(w) /\ pos[w] \in Found /\ entry[pos[w]] = "right" /\ UNCHANGED entry
    BY <2>3, <2>4 DEF There, Resolves
  <2>5. CASE LookHermetic(w) /\ pos[w] > Hosts /\ Resolves(entry[pos[w]]) /\ UNCHANGED entry
    BY <2>3, <2>5 DEF There
  <2>6. CASE MakeLink(w) /\ pos[w] \in Found \cup (Hosts + 1 .. Tools)
             /\ entry' = [entry EXCEPT ![pos[w]] = "right"]
    BY <2>3, <2>6 DEF There, Resolves, Calm, PathTypeOK
  <2>7. CASE Chmod(w) /\ entry[pos[w]] \notin {"absent", "dangling"} /\ UNCHANGED entry
    <3>1. i \in (1 .. Hosts) \ Found
      BY <2>3, <2>7 DEF Chmod, Calm, LoopsOK
    <3>2. entry[i] = "file"
      BY <2>3, <2>7, <3>1 DEF Chmod, ScriptsOK
    <3> QED BY <2>7, <3>1, <3>2 DEF There, Resolves
  <2> QED BY <2>2, <2>4, <2>5, <2>6, <2>7, PosStep
<1> QED BY <1>1, <1>2

\* The inductive invariant of the set-up, started and kept.
LEMMA KeptInit == PathInit => KeptInv
<1> SUFFICES ASSUME PathInit PROVE KeptInv
  OBVIOUS
<1>1. PathTypeOK
  BY HermeticPathAssumption, OldEntryAssumption DEF PathInit, PathTypeOK, Step
<1>2. LoopsOK
  BY DEF PathInit, LoopsOK
<1>3. NobodyCleans /\ ScriptsOK /\ SetUpOK
  BY DEF PathInit, NobodyCleans, ScriptsOK, SetUpOK
<1> QED BY <1>1, <1>2, <1>3 DEF KeptInv

LEMMA KeptNext == KeptInv /\ [PathNext]_pathVars => KeptInv'
<1> SUFFICES ASSUME KeptInv, [PathNext]_pathVars PROVE KeptInv'
  OBVIOUS
<1>1. cleaner' = cleaner
  BY DEF PathNext, SetUp, Mkdir, LookHost, Exists, Unlink, MakeLink, MakeScript, Chmod,
         LookHermetic, List, Sweep, StartsRun, RunEnds, RemoveOne, RemoveDir, Listed, pathVars
<1> QED BY <1>1, TypeNext, LoopsNext, NobodyCleansNext, ScriptsNext, SetUpNext DEF KeptInv, Calm

\* The invariant for any wrappers, tools, stray files and first content of the directory:
\* the directory that bazel.py shares between its wrappers.
THEOREM PathInvariant == PathSpec => []KeptInv
BY KeptInit, KeptNext, PTL DEF PathSpec

\* A tool that one wrapper has set up is there for its Bazel, whatever the others do, but
\* for the moment in which one of them makes it again.
THEOREM NoToolIsLost == PathSpec => []NoToolLost
<1>1. KeptInv => NoToolLost
  <2> SUFFICES ASSUME KeptInv, cleaner = {}, NEW i \in 1 .. Tools, NEW w \in Wrapper,
                      Passed(w, i)
               PROVE  There(i) \/ \E v \in Wrapper : at[v] = "make" /\ pos[v] = i
    BY DEF NoToolLost
  <2>1. at[w] # "died" /\ pos[w] > i
    BY HermeticPathAssumption DEF Passed, KeptInv, LoopsOK, PathTypeOK
  <2> QED BY <2>1 DEF KeptInv, SetUpOK, Maker
<1> QED BY <1>1, PathInvariant, PTL

-----------------------------------------------------------------------------
(* One wrapper gets through *)

\* A step of w leaves the other wrappers where they are.
LEMMA OneMoves ==
  ASSUME Calm, [PathNext]_pathVars, NEW w \in Wrapper, at'[w] # at[w]
  PROVE  \A v \in Wrapper \ {w} : at'[v] = at[v]
<1> USE DEF Calm, PathTypeOK, Goto, Advance
<1>1. ASSUME NEW u \in Wrapper, Mkdir(u) \/ LookHost(u) \/ StartsRun(u) \/ LookHermetic(u)
                                \/ Exists(u)
      PROVE  \A v \in Wrapper \ {u} : at'[v] = at[v]
  BY <1>1 DEF Mkdir, LookHost, StartsRun, LookHermetic, Exists
<1>2. ASSUME NEW u \in Wrapper, Unlink(u) \/ MakeLink(u) \/ MakeScript(u) \/ Chmod(u)
      PROVE  \A v \in Wrapper \ {u} : at'[v] = at[v]
  BY <1>2 DEF Unlink, MakeLink, MakeScript, Chmod
<1>3. ASSUME NEW u \in Wrapper, List(u) \/ Sweep(u) \/ RunEnds(u) \/ RemoveOne(u)
                                \/ RemoveDir(u)
      PROVE  \A v \in Wrapper \ {u} : at'[v] = at[v]
  BY <1>3 DEF List, Sweep, RunEnds, RemoveOne, RemoveDir
<1>4. CASE UNCHANGED pathVars
  BY <1>4 DEF pathVars
<1> QED BY <1>1, <1>2, <1>3, <1>4 DEF PathNext, SetUp

\* What a wrapper dies of.
LEMMA DeathStep ==
  ASSUME Calm, [PathNext]_pathVars, NEW w \in Wrapper, at'[w] = "died", at[w] # "died"
  PROVE  /\ UNCHANGED <<entry, pos, seen>>
         /\ \/ at[w] = "unlink" /\ entry[pos[w]] = "absent"
            \/ at[w] = "chmod" /\ entry[pos[w]] \in {"absent", "dangling"}
            \/ /\ at[w] = "make" /\ pos[w] \notin (1 .. Hosts) \ Found
               /\ entry[pos[w]] # "absent"
            \/ at[w] = "sweep" /\ seen[w] # {} /\ entry[First(w)] = "absent"
<1> USE HermeticPathAssumption DEF Calm, PathTypeOK, NobodyCleans, Goto
<1>1. ASSUME NEW v \in Wrapper, Mkdir(v) \/ LookHost(v) \/ StartsRun(v) \/ Exists(v)
                                \/ LookHermetic(v)
      PROVE  FALSE
  BY <1>1 DEF Mkdir, LookHost, StartsRun, LookHermetic, Exists, Advance
<1>2. ASSUME NEW v \in Wrapper, RunEnds(v) \/ RemoveOne(v) \/ RemoveDir(v) PROVE FALSE
  BY <1>2 DEF RunEnds, RemoveOne, RemoveDir
<1>3. ASSUME NEW v \in Wrapper, MakeScript(v) \/ List(v) PROVE FALSE
  BY <1>3 DEF MakeScript, List
<1>4. ASSUME NEW v \in Wrapper, Unlink(v)
      PROVE  v = w /\ at[w] = "unlink" /\ entry[pos[w]] = "absent"
             /\ UNCHANGED <<entry, pos, seen>>
  BY <1>4 DEF Unlink
<1>5. ASSUME NEW v \in Wrapper, Chmod(v)
      PROVE  v = w /\ at[w] = "chmod" /\ entry[pos[w]] \in {"absent", "dangling"}
             /\ UNCHANGED <<entry, pos, seen>>
  BY <1>5 DEF Chmod, Advance
<1>6. ASSUME NEW v \in Wrapper, MakeLink(v)
      PROVE  /\ v = w /\ at[w] = "make" /\ pos[w] \notin (1 .. Hosts) \ Found
             /\ entry[pos[w]] # "absent" /\ UNCHANGED <<entry, pos, seen>>
  BY <1>6 DEF MakeLink, Advance
<1>7. ASSUME NEW v \in Wrapper, Sweep(v)
      PROVE  /\ v = w /\ at[w] = "sweep" /\ seen[w] # {} /\ entry[First(w)] = "absent"
             /\ UNCHANGED <<entry, pos, seen>>
  BY <1>7 DEF Sweep
<1>8. ~ UNCHANGED pathVars
  BY DEF pathVars
<1>9. PICK v \in Wrapper : Unlink(v) \/ Chmod(v) \/ MakeLink(v) \/ Sweep(v)
  BY <1>1, <1>2, <1>3, <1>8 DEF PathNext, SetUp
<1> QED BY <1>4, <1>5, <1>6, <1>7, <1>9

Survivors == NothingDangles(entry) /\ GoneOK /\ MadeOK /\ SweptOK /\ DiedOK

\* Whoever dies has lost to someone who lives on.
LEMMA DeathSucc ==
  ASSUME Calm, ScriptsOK, Survivors, [PathNext]_pathVars,
         NEW w \in Wrapper, at'[w] = "died", at[w] # "died"
  PROVE  \/ \E v \in Wrapper : Outlives(v, w)'
         \/ /\ at[w] = "sweep"
            /\ \E i \in seen[w] : entry[i] = "absent" /\ \E v \in Wrapper : Beyond(v, i)'
<1>1. UNCHANGED <<entry, pos, seen>> /\ \A v \in Wrapper \ {w} : at'[v] = at[v]
  BY DeathStep, OneMoves
<1>2. CASE at[w] \in {"unlink", "chmod"}
  <2>1. entry[pos[w]] = "absent"
    <3>1. at[w] = "chmod" => entry[pos[w]] \in {"absent", "file"}
      BY HermeticPathAssumption DEF ScriptsOK, Calm, LoopsOK, PathTypeOK
    <3> QED BY <1>2, <3>1, DeathStep
  <2>2. PICK v \in Wrapper : at[v] = "make" /\ pos[v] = pos[w]
    BY <1>2, <2>1 DEF Survivors, GoneOK, Maker
  <2> QED BY <1>1, <1>2, <2>2 DEF Outlives, Alive
<1>3. CASE at[w] = "make"
  <2>1. PICK v \in Wrapper : Alive(v) /\ pos[v] > pos[w]
    BY <1>3, DeathStep DEF Survivors, MadeOK
  <2>2. v # w
    BY <2>1 DEF Calm, PathTypeOK
  <2> QED BY <1>1, <2>1, <2>2 DEF Outlives, Alive
<1>4. CASE at[w] = "sweep"
  <2>1. seen[w] # {} /\ entry[First(w)] = "absent"
    BY <1>4, DeathStep
  <2>2. PICK i \in seen[w] : i \in Nat /\ entry[i] = "absent"
    BY <2>1, FirstName, HermeticPathAssumption DEF Calm, PathTypeOK
  <2>3. PICK v \in Wrapper : Beyond(v, i)
    BY <2>2 DEF Survivors, SweptOK
  <2>4. v # w
    BY <2>2, <2>3 DEF Beyond
  <2>5. Beyond(v, i)'
    BY <1>1, <2>3, <2>4 DEF Beyond
  <2> QED BY <1>4, <2>1, <2>2, <2>5
<1> QED BY <1>2, <1>3, <1>4, DeathStep

LEMMA DanglesNext ==
  Calm /\ NothingDangles(entry) /\ [PathNext]_pathVars => NothingDangles(entry')
<1> SUFFICES ASSUME Calm, NothingDangles(entry), [PathNext]_pathVars,
                    NEW i \in Hosts + 1 .. Tools
             PROVE  entry'[i] # "dangling"
  BY DEF NothingDangles
<1>1. i \in 1 .. Tools /\ i \notin 1 .. Hosts /\ entry[i] # "dangling"
  BY HermeticPathAssumption DEF NothingDangles
<1>2. ASSUME NEW w \in Wrapper, MakeScript(w), pos[w] = i PROVE FALSE
  BY <1>1, <1>2 DEF MakeScript
<1> QED BY <1>1, <1>2, EntryStep

\* How a wrapper comes to unlink an entry.
LEMMA ComesToUnlink ==
  ASSUME Calm, [PathNext]_pathVars, NEW w \in Wrapper, at'[w] = "unlink", at[w] # "unlink"
  PROVE  pos'[w] = pos[w] /\ entry'[pos[w]] # "absent"
<1> USE DEF Calm, PathTypeOK, Goto
<1>1. ASSUME NEW v \in Wrapper, Mkdir(v) \/ LookHost(v) \/ StartsRun(v) \/ LookHermetic(v)
                                \/ Unlink(v)
      PROVE  FALSE
  BY <1>1 DEF Mkdir, LookHost, StartsRun, LookHermetic, Unlink, Advance
<1>2. ASSUME NEW v \in Wrapper, MakeLink(v) \/ MakeScript(v) \/ Chmod(v) PROVE FALSE
  BY <1>2 DEF MakeLink, MakeScript, Chmod, Advance
<1>3. ASSUME NEW v \in Wrapper, List(v) \/ Sweep(v) \/ RunEnds(v) \/ RemoveOne(v)
                                \/ RemoveDir(v)
      PROVE  FALSE
  BY <1>3 DEF List, Sweep, RunEnds, RemoveOne, RemoveDir
<1>4. ASSUME NEW v \in Wrapper, Exists(v)
      PROVE  v = w /\ pos'[w] = pos[w] /\ entry'[pos[w]] # "absent"
  BY <1>4 DEF Exists
<1>5. ~ UNCHANGED pathVars
  BY DEF pathVars
<1> QED BY <1>1, <1>2, <1>3, <1>4, <1>5 DEF PathNext, SetUp

LEMMA GoneNext == Calm /\ GoneOK /\ [PathNext]_pathVars => GoneOK'
<1> SUFFICES ASSUME Calm, GoneOK, [PathNext]_pathVars,
                    NEW w \in Wrapper, at'[w] \in {"unlink", "chmod"},
                    entry'[pos'[w]] = "absent"
             PROVE  Maker(pos[w])' /\ pos'[w] = pos[w]
  BY DEF GoneOK, Maker
<1>1. pos'[w] = pos[w]
  BY PosStep
<1>2. CASE at'[w] # at[w]
  <2>1. CASE at'[w] = "unlink"
    BY <1>1, <1>2, <2>1, ComesToUnlink
  <2>2. CASE at'[w] = "chmod"
    <3>1. MakeScript(w) /\ entry' = [entry EXCEPT ![pos[w]] = Written(entry[pos[w]])]
      BY <1>2, <2>2, ComesToChmod DEF MakeScript, Goto, Put, Calm, PathTypeOK
    <3>2. pos[w] \in 1 .. Names
      BY <3>1, HermeticPathAssumption DEF MakeScript
    <3> QED BY <1>1, <3>1, <3>2 DEF Written, Calm, PathTypeOK
  <2> QED BY <2>1, <2>2
<1>3. CASE at'[w] = at[w]
  <2>1. pos[w] \in 1 .. Tools
    BY <1>3 DEF Calm, LoopsOK, PathTypeOK
  <2>2. CASE entry[pos[w]] = "absent"
    <3>1. Maker(pos[w])
      BY <1>3, <2>2 DEF GoneOK
    <3>2. ASSUME NEW i \in 1 .. Tools, i = pos[w] PROVE Maker(i)'
      BY <1>1, <2>2, <3>1, <3>2, MakerStep
    <3> QED BY <1>1, <2>1, <3>2 DEF Maker
  <2>3. CASE entry[pos[w]] # "absent"
    <3>1. PICK v \in Wrapper : Unlink(v) /\ pos[v] = pos[w]
      BY <1>1, <2>1, <2>3, EntryStep DEF Written
    <3>2. at'[v] = "make" /\ pos'[v] = pos[v]
      BY <2>3, <3>1 DEF Unlink, Goto, Calm, PathTypeOK
    <3> QED BY <1>1, <3>1, <3>2 DEF Maker
  <2> QED BY <2>2, <2>3
<1> QED BY <1>2, <1>3

\* Someone alive who is past a position: there is one after every step.
LEMMA FurtherStep ==
  ASSUME Calm, ScriptsOK, Survivors, [PathNext]_pathVars, NEW k \in Nat,
         NEW v \in Wrapper, Alive(v), pos[v] > k
  PROVE  \E u \in Wrapper : Alive(u)' /\ pos'[u] > k
<1> USE DEF Alive
<1>1. pos[v] \in Nat
  BY HermeticPathAssumption DEF Calm, PathTypeOK
<1>2. CASE at'[v] # "died"
  BY <1>1, <1>2, PosStep
<1>3. CASE at'[v] = "died"
  <2>1. UNCHANGED pos
    BY <1>3, DeathStep
  <2>2. CASE \E u \in Wrapper : Outlives(u, v)'
    BY <1>1, <2>1, <2>2, HermeticPathAssumption DEF Outlives, Calm, PathTypeOK
  <2>3. ASSUME at[v] = "sweep", NEW i \in seen[v], NEW u \in Wrapper, Beyond(u, i)'
        PROVE  at'[u] # "died" /\ pos'[u] = pos[v]
    <3>1. at'[u] \in {"sweep", "runs", "ended"}
      BY <2>3 DEF Beyond
    <3>2. LoopsOK'
      BY LoopsNext DEF Calm
    <3> QED BY <2>3, <3>1, <3>2 DEF LoopsOK, Calm
  <2> QED BY <1>3, <2>1, <2>2, <2>3, DeathSucc
<1> QED BY <1>2, <1>3

LEMMA MadeNext == Calm /\ ScriptsOK /\ Survivors /\ [PathNext]_pathVars => MadeOK'
<1> SUFFICES ASSUME Calm, ScriptsOK, Survivors, [PathNext]_pathVars,
                    NEW w \in Wrapper, at'[w] = "make",
                    pos'[w] \notin (1 .. Hosts) \ Found, entry'[pos'[w]] # "absent"
             PROVE  \E v \in Wrapper : Alive(v)' /\ pos'[v] > pos'[w]
  BY DEF MadeOK
<1>1. pos'[w] = pos[w]
  BY PosStep
<1>2. CASE at[w] # "make"
  <2>1. pos[w] > Hosts /\ entry'[pos[w]] = entry[pos[w]] /\ ~ Resolves(entry[pos[w]])
    BY <1>1, <1>2, ComesToMake
  <2>2. LoopsOK'
    BY LoopsNext DEF Calm
  <2>3. pos[w] \in Hosts + 1 .. Tools /\ pos[w] \in 1 .. Names
    BY <1>1, <2>1, <2>2, HermeticPathAssumption DEF LoopsOK, Calm, PathTypeOK
  <2>4. entry[pos[w]] # "dangling" /\ entry[pos[w]] \in Entry
    BY <2>3 DEF Survivors, NothingDangles, Calm, PathTypeOK
  <2> QED BY <1>1, <2>1, <2>4 DEF Resolves, Entry
<1>3. CASE at[w] = "make"
  <2>1. pos[w] \in 1 .. Tools
    BY <1>3 DEF Calm, LoopsOK, PathTypeOK
  <2>2. CASE entry[pos[w]] # "absent"
    <3>1. PICK v \in Wrapper : Alive(v) /\ pos[v] > pos[w]
      BY <1>1, <1>3, <2>2 DEF Survivors, MadeOK
    <3> QED BY <1>1, <2>1, <3>1, FurtherStep
  <2>3. CASE entry[pos[w]] = "absent"
    <3>1. PICK v \in Wrapper : (MakeLink(v) \/ MakeScript(v)) /\ pos[v] = pos[w]
      BY <1>1, <2>1, <2>3, EntryStep
    <3>2. MakeLink(v)
      BY <1>1, <3>1 DEF MakeScript
    <3>3. Advance(v)
      BY <2>3, <3>1, <3>2 DEF MakeLink, NobodyCleans, Calm
    <3> QED BY <1>1, <2>1, <3>1, <3>3 DEF Advance, Alive, Calm, PathTypeOK
  <2> QED BY <2>2, <2>3
<1> QED BY <1>2, <1>3

\* A stray file that is gone does not come back: a wrapper removed it.
LEMMA StrayStep ==
  ASSUME Calm, [PathNext]_pathVars, NEW i \in Tools + 1 .. Names
  PROVE  \/ entry'[i] = entry[i]
         \/ \E v \in Wrapper : Sweep(v) /\ i = First(v) /\ entry'[i] = "absent"
                               /\ seen[v] # {} /\ seen' = [seen EXCEPT ![v] = @ \ {i}]
<1> USE HermeticPathAssumption DEF Calm, PathTypeOK, LoopsOK, Goto, Put
<1>1. ASSUME NEW w \in Wrapper, Mkdir(w) \/ LookHermetic(w) \/ LookHost(w) \/ Exists(w)
                                \/ StartsRun(w) \/ Chmod(w)
      PROVE  UNCHANGED entry
  BY <1>1 DEF Mkdir, LookHermetic, LookHost, Exists, StartsRun, Chmod
<1>2. ASSUME NEW w \in Wrapper, List(w) \/ RunEnds(w) \/ RemoveDir(w)
      PROVE  UNCHANGED entry
  BY <1>2 DEF List, RunEnds, RemoveDir, Listed
<1>3. ASSUME NEW w \in Wrapper, RemoveOne(w) PROVE FALSE
  BY <1>3 DEF RemoveOne, NobodyCleans
<1>4. ASSUME NEW w \in Wrapper, Unlink(w) \/ MakeLink(w) \/ MakeScript(w)
      PROVE  entry'[i] = entry[i]
  BY <1>4 DEF Unlink, MakeLink, MakeScript
<1>5. ASSUME NEW w \in Wrapper, Sweep(w)
      PROVE  \/ entry'[i] = entry[i]
             \/ /\ i = First(w) /\ entry'[i] = "absent" /\ seen[w] # {}
                /\ seen' = [seen EXCEPT ![w] = @ \ {i}]
  BY <1>5 DEF Sweep
<1>6. CASE UNCHANGED pathVars
  BY <1>6 DEF pathVars
<1> QED BY <1>1, <1>2, <1>3, <1>4, <1>5, <1>6 DEF PathNext, SetUp

\* Names to remove only come from a listing of what is there.
LEMMA SeenStep ==
  ASSUME Calm, [PathNext]_pathVars, NEW w \in Wrapper
  PROVE  \/ seen'[w] \subseteq seen[w]
         \/ List(w) /\ UNCHANGED entry /\ \A i \in seen'[w] : entry[i] # "absent"
<1> USE DEF Calm, PathTypeOK, NobodyCleans
<1>1. ASSUME NEW v \in Wrapper, Mkdir(v) \/ LookHermetic(v) \/ LookHost(v) \/ Exists(v)
                                \/ StartsRun(v) \/ Chmod(v)
      PROVE  UNCHANGED seen
  BY <1>1 DEF Mkdir, LookHermetic, LookHost, Exists, StartsRun, Chmod
<1>2. ASSUME NEW v \in Wrapper, Unlink(v) \/ MakeLink(v) \/ MakeScript(v) \/ RunEnds(v)
                                \/ RemoveDir(v)
      PROVE  UNCHANGED seen
  BY <1>2 DEF Unlink, MakeLink, MakeScript, RunEnds, RemoveDir
<1>3. ASSUME NEW v \in Wrapper, Sweep(v) \/ RemoveOne(v) PROVE seen'[w] \subseteq seen[w]
  BY <1>3 DEF Sweep, RemoveOne
<1>4. ASSUME NEW v \in Wrapper, List(v)
      PROVE  \/ seen'[w] = seen[w]
             \/ v = w /\ UNCHANGED entry /\ \A i \in seen'[w] : entry[i] # "absent"
  BY <1>4 DEF List, Listed
<1>5. CASE UNCHANGED pathVars
  BY <1>5 DEF pathVars
<1> QED BY <1>1, <1>2, <1>3, <1>4, <1>5 DEF PathNext, SetUp

\* Who is past the tools stays there, or dies while it removes stray files.
LEMMA PastStep ==
  ASSUME Calm, [PathNext]_pathVars, NEW v \in Wrapper, at[v] \in {"sweep", "runs", "ended"}
  PROVE  at'[v] \in {"sweep", "runs", "ended"} \/ at'[v] = "died"
<1> USE DEF Calm, PathTypeOK, NobodyCleans, Goto
<1>1. ASSUME NEW u \in Wrapper, Mkdir(u) \/ LookHost(u) \/ LookHermetic(u) \/ Exists(u)
                                \/ Unlink(u)
      PROVE  at'[v] = at[v]
  BY <1>1 DEF Mkdir, LookHost, LookHermetic, Exists, Unlink, Advance
<1>2. ASSUME NEW u \in Wrapper, MakeLink(u) \/ MakeScript(u) \/ Chmod(u) \/ List(u)
      PROVE  at'[v] = at[v]
  BY <1>2 DEF MakeLink, MakeScript, Chmod, List, Advance
<1>3. ASSUME NEW u \in Wrapper, Sweep(u) \/ StartsRun(u) \/ RunEnds(u) \/ RemoveOne(u)
                                \/ RemoveDir(u)
      PROVE  at'[v] = at[v] \/ at'[v] \in {"died", "runs", "ended"}
  BY <1>3 DEF Sweep, StartsRun, RunEnds, RemoveOne, RemoveDir
<1>4. CASE UNCHANGED pathVars
  BY <1>4 DEF pathVars
<1> QED BY <1>1, <1>2, <1>3, <1>4 DEF PathNext, SetUp

\* Someone who is beyond a name: there is one after every step.
LEMMA BeyondStep ==
  ASSUME Calm, ScriptsOK, Survivors, [PathNext]_pathVars, NEW i \in Nat,
         NEW v \in Wrapper, Beyond(v, i)
  PROVE  \E u \in Wrapper : Beyond(u, i)'
<1>1. at[v] \in {"sweep", "runs", "ended"}
  BY DEF Beyond
<1>2. CASE at'[v] \in {"sweep", "runs", "ended"}
  <2>1. seen'[v] \subseteq seen[v]
    BY <1>1, SeenStep DEF List
  <2> QED BY <1>2, <2>1 DEF Beyond
<1>3. CASE at'[v] = "died"
  <2>1. at[v] = "sweep"
    BY <1>1, <1>3, DeathStep
  <2>2. CASE \E u \in Wrapper : Outlives(u, v)'
    <3>1. PICK u \in Wrapper : at'[u] # "died" /\ pos'[u] \in 1 .. Tools + 1
                               /\ (pos'[u] > pos'[v]
                                   \/ (pos'[u] = pos'[v] /\ at'[u] \in {"make", "chmod"}))
      BY <2>2, TypeNext DEF Outlives, Alive, Calm, PathTypeOK
    <3>2. pos'[v] = Tools + 1
      BY <1>3, <2>1, DeathStep DEF Calm, LoopsOK
    <3>3. LoopsOK'
      BY LoopsNext DEF Calm
    <3> QED BY <3>1, <3>2, <3>3, HermeticPathAssumption DEF LoopsOK
  <2>3. ASSUME NEW j \in seen[v], NEW u \in Wrapper, Beyond(u, j)' PROVE Beyond(u, i)'
    <3>1. i < j /\ j \in Nat /\ seen'[u] \subseteq Nat
      BY <2>3, TypeNext, HermeticPathAssumption DEF Beyond, Calm, PathTypeOK
    <3> QED BY <2>3, <3>1 DEF Beyond
  <2> QED BY <1>1, <1>3, <2>2, <2>3, DeathSucc
<1> QED BY <1>1, <1>2, <1>3, PastStep

LEMMA SweptNext == Calm /\ ScriptsOK /\ Survivors /\ [PathNext]_pathVars => SweptOK'
<1> SUFFICES ASSUME Calm, ScriptsOK, Survivors, [PathNext]_pathVars,
                    NEW w \in Wrapper, NEW i \in seen'[w], entry'[i] = "absent"
             PROVE  \E v \in Wrapper : Beyond(v, i)'
  BY DEF SweptOK
<1>1. NobodyCleans'
  BY NobodyCleansNext DEF Calm
<1>2. i \in Tools + 1 .. Names /\ i \in Nat
  BY <1>1, HermeticPathAssumption DEF NobodyCleans
<1>3. i \in seen[w]
  BY SeenStep
<1>4. CASE entry[i] = "absent"
  <2>1. PICK v \in Wrapper : Beyond(v, i)
    BY <1>3, <1>4 DEF Survivors, SweptOK
  <2> QED BY <1>2, <2>1, BeyondStep
<1>5. CASE entry[i] # "absent"
  <2>1. PICK v \in Wrapper : Sweep(v) /\ i = First(v) /\ seen[v] # {}
                             /\ seen' = [seen EXCEPT ![v] = @ \ {i}]
    BY <1>2, <1>5, StrayStep
  <2>2. \A j \in seen[v] : i <= j /\ j \in Nat
    <3>1. \A j \in seen[v] : First(v) <= j
      BY <2>1, FirstName DEF Calm
    <3>2. seen[v] \subseteq Nat
      BY HermeticPathAssumption DEF Calm, PathTypeOK
    <3> QED BY <2>1, <3>1, <3>2
  <2>3. at'[v] = "sweep"
    BY <1>5, <2>1 DEF Sweep
  <2>4. \A j \in seen'[v] : i < j
    BY <1>2, <2>1, <2>2 DEF Calm, PathTypeOK
  <2> QED BY <2>3, <2>4 DEF Beyond
<1> QED BY <1>4, <1>5

\* Who makes an entry goes on with it, goes on to the next tool, or dies.
LEMMA MakingStep ==
  ASSUME Calm, [PathNext]_pathVars, NEW v \in Wrapper, at[v] \in {"make", "chmod"},
         pos'[v] = pos[v], at'[v] # "died"
  PROVE  at'[v] \in {"make", "chmod"}
<1> USE HermeticPathAssumption DEF Calm, PathTypeOK, Goto
<1>1. ASSUME NEW u \in Wrapper, Mkdir(u) \/ LookHost(u) \/ LookHermetic(u) \/ Exists(u)
                                \/ Unlink(u)
      PROVE  at'[v] = at[v]
  BY <1>1 DEF Mkdir, LookHost, LookHermetic, Exists, Unlink, Advance
<1>2. ASSUME NEW u \in Wrapper, MakeLink(u) \/ MakeScript(u) \/ Chmod(u)
      PROVE  at'[v] \in {"make", "chmod"}
  BY <1>2 DEF MakeLink, MakeScript, Chmod, Advance
<1>3. ASSUME NEW u \in Wrapper, List(u) \/ Sweep(u) \/ StartsRun(u) \/ RunEnds(u)
                                \/ RemoveOne(u) \/ RemoveDir(u)
      PROVE  at'[v] = at[v]
  BY <1>3 DEF List, Sweep, StartsRun, RunEnds, RemoveOne, RemoveDir
<1>4. CASE UNCHANGED pathVars
  BY <1>4 DEF pathVars
<1> QED BY <1>1, <1>2, <1>3, <1>4 DEF PathNext, SetUp

\* The names a dead wrapper has not removed stay as they are.
LEMMA DeadStep ==
  ASSUME Calm, [PathNext]_pathVars, NEW w \in Wrapper, at[w] = "died"
  PROVE  seen'[w] = seen[w]
<1> USE DEF Calm, PathTypeOK
<1>1. ASSUME NEW v \in Wrapper, Mkdir(v) \/ LookHermetic(v) \/ LookHost(v) \/ Exists(v)
                                \/ StartsRun(v) \/ Chmod(v)
      PROVE  UNCHANGED seen
  BY <1>1 DEF Mkdir, LookHermetic, LookHost, Exists, StartsRun, Chmod
<1>2. ASSUME NEW v \in Wrapper, Unlink(v) \/ MakeLink(v) \/ MakeScript(v) \/ RemoveDir(v)
      PROVE  UNCHANGED seen
  BY <1>2 DEF Unlink, MakeLink, MakeScript, RemoveDir
<1>3. ASSUME NEW v \in Wrapper, List(v) \/ Sweep(v) \/ RunEnds(v) \/ RemoveOne(v)
      PROVE  seen'[w] = seen[w]
  BY <1>3 DEF List, Sweep, RunEnds, RemoveOne, Listed
<1>4. CASE UNCHANGED pathVars
  BY <1>4 DEF pathVars
<1> QED BY <1>1, <1>2, <1>3, <1>4 DEF PathNext, SetUp

LEMMA DiedNext == Calm /\ ScriptsOK /\ Survivors /\ [PathNext]_pathVars => DiedOK'
<1> SUFFICES ASSUME Calm, ScriptsOK, Survivors, [PathNext]_pathVars,
                    NEW w \in Wrapper, at'[w] = "died"
             PROVE  \/ \E v \in Wrapper : Outlives(v, w)'
                    \/ pos'[w] = Tools + 1 /\ \E i \in seen'[w] : entry'[i] = "absent"
  BY DEF DiedOK
<1>1. CASE at[w] # "died"
  <2>1. UNCHANGED <<entry, pos, seen>>
    BY <1>1, DeathStep
  <2> QED BY <1>1, <2>1, DeathSucc DEF Calm, LoopsOK
<1>2. CASE at[w] = "died"
  <2>1. pos'[w] = pos[w]
    BY <1>2, PosStep
  <2>2. pos[w] \in Nat
    BY HermeticPathAssumption DEF Calm, PathTypeOK
  <2>3. ASSUME NEW v \in Wrapper, Outlives(v, w) PROVE \E u \in Wrapper : Outlives(u, w)'
    <3>1. CASE pos[v] > pos[w]
      <4>1. PICK u \in Wrapper : Alive(u)' /\ pos'[u] > pos[w]
        BY <2>2, <2>3, <3>1, FurtherStep DEF Outlives
      <4> QED BY <2>1, <4>1 DEF Outlives
    <3>2. CASE pos[v] = pos[w] /\ at[v] \in {"make", "chmod"}
      <4>1. CASE pos'[v] # pos[v]
        BY <2>1, <2>2, <3>2, <4>1, PosStep DEF Outlives, Alive
      <4>2. CASE pos'[v] = pos[v] /\ at'[v] = "died"
        BY <2>1, <2>2, <2>3, <3>2, <4>2, DeathSucc DEF Outlives, Alive
      <4>3. CASE pos'[v] = pos[v] /\ at'[v] # "died"
        <5>1. at'[v] \in {"make", "chmod"}
          BY <3>2, <4>3, MakingStep
        <5> QED BY <2>1, <3>2, <4>3, <5>1 DEF Outlives, Alive
      <4> QED BY <4>1, <4>2, <4>3
    <3> QED BY <2>3, <3>1, <3>2 DEF Outlives
  <2>4. ASSUME pos[w] = Tools + 1, NEW i \in seen[w], entry[i] = "absent"
        PROVE  i \in seen'[w] /\ entry'[i] = "absent"
    <3>1. i \in Tools + 1 .. Names
      BY DEF Calm, NobodyCleans
    <3>2. entry'[i] = "absent"
      BY <2>4, <3>1, StrayStep
    <3>3. seen'[w] = seen[w]
      BY <1>2, DeadStep
    <3> QED BY <3>2, <3>3
  <2> QED BY <1>2, <2>1, <2>3, <2>4 DEF Survivors, DiedOK
<1> QED BY <1>1, <1>2

\* The two halves of the invariant together.
SurvivorInvariant == KeptInv /\ SurvivorInv

LEMMA SurvivorInit == PathInit => SurvivorInvariant
<1> SUFFICES ASSUME PathInit PROVE SurvivorInvariant
  OBVIOUS
<1>1. GoneOK /\ MadeOK /\ SweptOK /\ DiedOK
  BY DEF PathInit, GoneOK, MadeOK, SweptOK, DiedOK
<1>2. NothingDangles(old) => NothingDangles(entry)
  BY DEF PathInit
<1> QED BY <1>1, <1>2, KeptInit DEF SurvivorInvariant, SurvivorInv

LEMMA SurvivorNext == SurvivorInvariant /\ [PathNext]_pathVars => SurvivorInvariant'
<1> SUFFICES ASSUME SurvivorInvariant, [PathNext]_pathVars PROVE SurvivorInvariant'
  OBVIOUS
<1>1. UNCHANGED <<old, cleaner>>
  BY DEF PathNext, SetUp, Mkdir, LookHost, Exists, Unlink, MakeLink, MakeScript, Chmod,
         LookHermetic, List, Sweep, StartsRun, RunEnds, RemoveOne, RemoveDir, Listed, pathVars
<1>2. ASSUME cleaner = {}, NothingDangles(old)
      PROVE  NothingDangles(entry') /\ GoneOK' /\ MadeOK' /\ SweptOK' /\ DiedOK'
  <2>1. Calm /\ ScriptsOK /\ Survivors
    BY <1>2 DEF SurvivorInvariant, KeptInv, SurvivorInv, Calm, Survivors
  <2> QED BY <2>1, DanglesNext, GoneNext, MadeNext, SweptNext, DiedNext DEF Survivors
<1> QED BY <1>1, <1>2, KeptNext DEF SurvivorInvariant, SurvivorInv, NothingDangles

\* Of the wrappers that race over the directory, however many, one gets through, unless a
\* link to a hermetic tool dangled before or someone cleans.
THEOREM OneGetsThrough ==
  ASSUME Wrapper # {}
  PROVE  PathSpec => []OneStarts
<1>1. SurvivorInvariant => OneStarts
  <2> SUFFICES ASSUME SurvivorInvariant, \A w \in Wrapper : at[w] = "died", cleaner = {},
                      NothingDangles(old)
               PROVE  FALSE
    BY DEF OneStarts, NothingDangles
  <2>1. PICK w \in Wrapper : at[w] = "died"
    OBVIOUS
  <2>2. ASSUME NEW v \in Wrapper PROVE ~ Outlives(v, w)
    BY DEF Outlives, Alive
  <2>3. PICK i \in seen[w] : entry[i] = "absent"
    BY <2>1, <2>2 DEF SurvivorInvariant, SurvivorInv, DiedOK
  <2>4. PICK v \in Wrapper : Beyond(v, i)
    BY <2>3 DEF SurvivorInvariant, SurvivorInv, SweptOK
  <2> QED BY <2>4 DEF Beyond
<1> QED BY <1>1, SurvivorInit, SurvivorNext, PTL DEF PathSpec

-----------------------------------------------------------------------------
(* StampStatus *)

-----------------------------------------------------------------------------
(* What the program should come to *)

Have(x) == Dated(x) \cap x.present \cap x.scripts

Finds(x) == ~Env(x).localversion /\ Have(x) # {}

\* Whether a version is asked for.
Asks(x) == Env(x).localversion \/ Finds(x)

\* The children for versions and for dates.
ScmJobs(x) == IF Asks(x) THEN {"scm"} \X Versioned(x, Finds(x)) ELSE {}
DateJobs(x) == {"date"} \X Dated(x)

Run(x) == ScmJobs(x) \cup (IF x.dates = "git" THEN DateJobs(x) ELSE {})

BadManifest(x) == Env(x).manifest /\ x.manifest = "unreadable"

Started == {order[i] : i \in DOMAIN order}

\* What the two loops have begun.
Versions == IF Asks(world) THEN {"scm"} \X (Versioned(world, Finds(world)) \ left) ELSE {}
Dates == {"date"} \X (Dated(world) \ left)

-----------------------------------------------------------------------------
(* The invariant *)

Before == stampAt \in {"lists", "finds"}

\* How far the program is.
ProgressOK ==
    /\ Before => order = <<>>
    /\ stampAt # "lists" /\ stampAt # "ended" => ~BadManifest(world)
    /\ stampAt = "scm" =>
          /\ setloc = Finds(world)
          /\ left \subseteq Versioned(world, Finds(world))
          /\ Versioned(world, Finds(world)) \ left \subseteq world.present
          /\ Started = Versions
    /\ stampAt = "date" =>
          /\ left \subseteq Dated(world)
          /\ Started = ScmJobs(world) \cup Dates
    /\ stampAt = "collects" => Started = ScmJobs(world) \cup DateJobs(world)
    /\ stampAt \in {"date", "collects"} =>
          Versioned(world, Finds(world)) \subseteq world.present

\* Only dates are preset, and those that are have no child.
PresetOK ==
    \A j \in Job :
        /\ job[j] = "preset" => j[1] = "date" /\ world.dates # "git"
        /\ j \in Started /\ job[j] # "preset" => j[1] = "scm" \/ world.dates = "git"

\* No child that has been read had failed.
ReadOK == \A i \in 1 .. nread : order[i] \notin world.fails \/ job[order[i]] = "preset"

EndOK ==
    /\ stampAt # "ended" => stampCode = Unset /\ printed = {}
    /\ StampOutcome

StampInv == StampTypeOK /\ ProgressOK /\ PresetOK /\ ReadOK /\ EndOK

-----------------------------------------------------------------------------
(* Lemmas *)

LEMMA AppendRange ==
    ASSUME NEW S, NEW s \in Seq(S), NEW e \in S
    PROVE  /\ Append(s, e) \in Seq(S)
           /\ Len(Append(s, e)) = Len(s) + 1
           /\ \A i \in 1 .. Len(s) : Append(s, e)[i] = s[i]
           /\ {Append(s, e)[i] : i \in DOMAIN Append(s, e)} = {s[i] : i \in DOMAIN s} \cup {e}
<1>1. Append(s, e) \in Seq(S) /\ Len(Append(s, e)) = Len(s) + 1
      /\ DOMAIN Append(s, e) = 1 .. Len(s) + 1 /\ DOMAIN s = 1 .. Len(s) /\ Len(s) \in Nat
  OBVIOUS
<1>2. /\ \A i \in 1 .. Len(s) : Append(s, e)[i] = s[i]
      /\ Append(s, e)[Len(s) + 1] = e
  OBVIOUS
<1> QED
  BY <1>1, <1>2

\* The projects that have dates are among those that have versions.
LEMMA DatedVersioned ==
    ASSUME NEW x, NEW f
    PROVE  Dated(x) \subseteq Versioned(x, f)
  BY DEF Dated, Versioned, IfThere

LEMMA Projected ==
    ASSUME NEW x \in WorldType, NEW f
    PROVE  Versioned(x, f) \subseteq Project /\ Dated(x) \subseteq Project
  BY DEF Versioned, Dated, IfThere, Projects, WorldType

\* What is expected in terms of the definitions above.
LEMMA Expected ==
    ASSUME NEW x \in WorldType
    PROVE  Answer(x) = IF \/ BadManifest(x)
                          \/ ~(Versioned(x, Finds(x)) \subseteq x.present)
                          \/ Run(x) \cap x.fails # {}
                       THEN [code |-> 1, printed |-> {}]
                       ELSE [code |-> 0, printed |-> ScmJobs(x) \cup DateJobs(x)]
<1> DEFINE run == (IF Asks(x) THEN {"scm"} \X Versioned(x, Finds(x)) ELSE {})
                  \cup (IF x.dates = "git" THEN {"date"} \X Dated(x) ELSE {})
           preset == IF x.dates = "git" THEN {} ELSE {"date"} \X Dated(x)
<1>1. run = Run(x) /\ run \cup preset = ScmJobs(x) \cup DateJobs(x)
  BY DEF Run, ScmJobs, DateJobs
<1> QED
  BY <1>1 DEF Answer, Finds, Have, Asks, BadManifest, Run, ScmJobs, DateJobs

LEMMA WorldOK == StampTypeOK => world \in WorldType
  BY StampAssumption DEF StampTypeOK

LEMMA OrderOK ==
    ASSUME StampTypeOK
    PROVE  /\ DOMAIN order = 1 .. Len(order) /\ Len(order) \in Nat /\ Started \subseteq Job
           /\ nread \in Nat /\ nread <= Len(order)
  BY DEF StampTypeOK, Started

-----------------------------------------------------------------------------
(* Initial states *)

LEMMA StampInitially == StampInit => StampInv
<1> SUFFICES ASSUME StampInit PROVE StampInv
  OBVIOUS
<1>1. StampTypeOK
  <2>1. order \in Seq(Job) /\ Len(order) = 0
    BY DEF StampInit
  <2>2. job \in [Job -> {"none", "preset", "runs", "blocked", "done"}]
    BY DEF StampInit
  <2>3. nread \in 0 .. Len(order)
    BY <2>1 DEF StampInit
  <2>4. /\ world \in World /\ stampAt = "lists" /\ left = {} /\ setloc = FALSE
        /\ stampCode = Unset /\ printed = {}
    BY DEF StampInit
  <2> QED
    BY <2>1, <2>2, <2>3, <2>4 DEF StampTypeOK
<1>2. Started = {}
  BY DEF StampInit, Started
<1>3. ProgressOK /\ PresetOK
  BY <1>2 DEF StampInit, ProgressOK, PresetOK, Before
<1>4. ReadOK
  BY DEF StampInit, ReadOK
<1>5. EndOK
  BY DEF StampInit, EndOK, StampOutcome
<1> QED
  BY <1>1, <1>3, <1>4, <1>5 DEF StampInv

-----------------------------------------------------------------------------
(* An end that the machine explains *)

-----------------------------------------------------------------------------
(* Steps before the children *)

LEMMA StepListProjects == StampInv /\ ListProjects => StampInv'
<1> SUFFICES ASSUME StampInv, ListProjects PROVE StampInv'
  OBVIOUS
<1>1. world \in WorldType /\ order = <<>>
  BY WorldOK DEF StampInv, ProgressOK, Before, ListProjects
<1>2. StampTypeOK'
  BY DEF StampInv, StampTypeOK, ListProjects, StampExit, StampGoto
<1>3. BadManifest(world) => Answer(world) = [code |-> 1, printed |-> {}]
  BY <1>1, Expected
<1>4. PresetOK' /\ ReadOK'
  BY DEF StampInv, PresetOK, ReadOK, ListProjects, Started
<1>5. ProgressOK'
  BY <1>1 DEF StampInv, ProgressOK, ListProjects, Before, BadManifest, StampExit, StampGoto
<1>6. EndOK'
  BY <1>3 DEF StampInv, EndOK, ListProjects, StampExit, StampGoto, BadManifest, StampOutcome
<1> QED
  BY <1>2, <1>4, <1>5, <1>6 DEF StampInv

\* The search ends the program only where the loop after it would: a project of the
\* manifest that is not there is one that a version is asked for.
LEMMA StepFindSetlocalversion == StampInv /\ FindSetlocalversion => StampInv'
<1> SUFFICES ASSUME StampInv, FindSetlocalversion PROVE StampInv'
  OBVIOUS
<1>1. world \in WorldType /\ order = <<>> /\ Started = {} /\ stampAt = "finds"
  BY WorldOK DEF StampInv, ProgressOK, Before, FindSetlocalversion, Started
<1>2. PresetOK' /\ ReadOK'
  BY DEF StampInv, PresetOK, ReadOK, FindSetlocalversion, Started
<1> DEFINE lack == Dated(world) \ world.present
<1>3. CASE ~Env(world).localversion /\ lack # {} /\ StampExit(1) /\ UNCHANGED <<left, setloc>>
  <2>1. Answer(world) = [code |-> 1, printed |-> {}]
    BY <1>1, <1>3, Expected, DatedVersioned
  <2>2. StampTypeOK'
    BY <1>3 DEF StampInv, StampTypeOK, FindSetlocalversion, StampExit
  <2>3. ProgressOK'
    BY <1>1, <1>3 DEF StampInv, ProgressOK, FindSetlocalversion, Before, StampExit
  <2>4. EndOK'
    BY <1>1, <1>3, <2>1 DEF StampInv, EndOK, FindSetlocalversion, StampExit, StampOutcome
  <2> QED
    BY <1>2, <2>2, <2>3, <2>4 DEF StampInv
<1>4. CASE /\ \/ Env(world).localversion /\ setloc' = FALSE
              \/ ~Env(world).localversion /\ Have(world) # {} /\ setloc' = TRUE
              \/ ~Env(world).localversion /\ Have(world) = {} /\ lack = {} /\ setloc' = FALSE
           /\ left' = Versioned(world, setloc') /\ StampGoto("scm")
  <2>1. setloc' = Finds(world)
    BY <1>4 DEF Finds
  <2>2. left' = Versioned(world, Finds(world))
    BY <1>4, <2>1
  <2>3. setloc' \in BOOLEAN /\ left' \subseteq Project
    BY <1>1, <1>4, <2>2, Projected
  <2>4. StampTypeOK'
    BY <1>4, <2>3 DEF StampInv, StampTypeOK, FindSetlocalversion, StampGoto
  <2>5. Started' = {} /\ Versions' = {} /\ world' = world
    BY <1>1, <2>2 DEF FindSetlocalversion, Started, Versions
  <2>6. ProgressOK'
    BY <1>1, <1>4, <2>1, <2>2, <2>5
    DEF StampInv, ProgressOK, Before, StampGoto, BadManifest
  <2>7. EndOK'
    BY <1>1, <1>4 DEF StampInv, EndOK, FindSetlocalversion, StampGoto, StampOutcome
  <2> QED
    BY <1>2, <2>4, <2>6, <2>7 DEF StampInv
<1> QED
  BY <1>3, <1>4 DEF FindSetlocalversion, Have

-----------------------------------------------------------------------------
(* The loops that start children *)

\* A job that begins is one more that is started.
LEMMA Begun ==
    ASSUME StampTypeOK, NEW j \in Job, NEW st \in {"preset", "runs"}, Begin(j, st)
    PROVE  /\ Started' = Started \cup {j}
           /\ order' \in Seq(Job) /\ Len(order') = Len(order) + 1
           /\ \A i \in 1 .. Len(order) : order'[i] = order[i]
           /\ job' \in [Job -> {"none", "preset", "runs", "blocked", "done"}]
           /\ job'[j] = st /\ \A k \in Job \ {j} : job'[k] = job[k]
<1>1. order \in Seq(Job) /\ order' = Append(order, j)
  BY DEF StampTypeOK, Begin
<1>2. /\ order' \in Seq(Job) /\ Len(order') = Len(order) + 1
      /\ \A i \in 1 .. Len(order) : order'[i] = order[i]
      /\ Started' = Started \cup {j}
  BY <1>1, AppendRange DEF Started
<1>3. /\ job' \in [Job -> {"none", "preset", "runs", "blocked", "done"}]
      /\ job'[j] = st /\ \A k \in Job \ {j} : job'[k] = job[k]
  BY DEF StampTypeOK, Begin
<1> QED
  BY <1>2, <1>3

\* The jobs that were read stay read.
LEMMA BegunRead ==
    ASSUME StampTypeOK, ReadOK, NEW j \in Job, j \notin Started,
           NEW st \in {"preset", "runs"}, Begin(j, st), UNCHANGED <<nread, world>>
    PROVE  ReadOK'
<1> SUFFICES ASSUME NEW i \in 1 .. nread
             PROVE  order'[i] \notin world.fails \/ job'[order'[i]] = "preset"
  BY DEF ReadOK
<1>1. i \in 1 .. Len(order) /\ i \in DOMAIN order
  BY OrderOK
<1>2. order[i] \in Started /\ order[i] \in Job /\ order'[i] = order[i]
  BY <1>1, OrderOK, Begun DEF Started
<1>3. job'[order[i]] = job[order[i]]
  BY <1>2, Begun
<1> QED
  BY <1>2, <1>3 DEF ReadOK

LEMMA StepStartScm ==
    ASSUME StampInv, NEW p \in Project, StartScm(p)
    PROVE  StampInv'
<1>1. /\ world \in WorldType /\ stampAt = "scm" /\ p \in left /\ setloc = Finds(world)
      /\ ~BadManifest(world) /\ Started = Versions
      /\ left \subseteq Versioned(world, Finds(world))
  BY WorldOK DEF StampInv, ProgressOK, StartScm
<1> DEFINE j == <<"scm", p>>
<1>2. j \in Job /\ j[1] = "scm"
  BY DEF Job
<1>3. CASE p \notin world.present
  <2>1. Answer(world) = [code |-> 1, printed |-> {}]
    BY <1>1, <1>3, Expected
  <2>2. /\ StampExit(1) /\ UNCHANGED <<left, job, order, world, setloc, nread, printed>>
    BY <1>3 DEF StartScm
  <2>3. StampTypeOK'
    BY <2>2 DEF StampInv, StampTypeOK, StampExit
  <2>4. ProgressOK' /\ PresetOK' /\ ReadOK'
    BY <2>2 DEF StampInv, ProgressOK, PresetOK, ReadOK, Started, Before, StampExit
  <2>5. EndOK'
    BY <1>1, <2>1, <2>2 DEF StampInv, EndOK, StampExit, StampOutcome
  <2> QED
    BY <2>3, <2>4, <2>5 DEF StampInv
<1>4. CASE p \in world.present
  <2>1. left' = left \ {p} /\ UNCHANGED <<stampAt, stampCode, world, setloc, nread, printed>>
    BY <1>4 DEF StartScm
  <2>2. (Versioned(world, Finds(world)) \ left)'
        = (Versioned(world, Finds(world)) \ left) \cup {p}
    BY <1>1, <2>1
  <2>3. CASE Asks(world)
    <3>1. Begin(j, "runs")
      BY <1>1, <1>4, <2>3 DEF StartScm, Asks
    <3>2. j \notin Started
      BY <1>1 DEF Versions
    <3>3. Started' = Versions'
      <4>1. Versions = {"scm"} \X (Versioned(world, Finds(world)) \ left)
        BY <2>3 DEF Versions
      <4>2. Versions' = {"scm"} \X ((Versioned(world, Finds(world)) \ left) \cup {p})
        BY <2>1, <2>2, <2>3 DEF Versions
      <4>3. Started' = Started \cup {j}
        BY <1>2, <3>1, Begun DEF StampInv
      <4> QED
        BY <1>1, <4>1, <4>2, <4>3
    <3>4. StampTypeOK'
      <4>1. nread' \in 0 .. Len(order')
        BY <1>2, <2>1, <3>1, Begun, OrderOK DEF StampInv
      <4> QED
        BY <1>2, <2>1, <3>1, <4>1, Begun DEF StampInv, StampTypeOK
    <3>5. ReadOK'
      BY <1>2, <2>1, <3>1, <3>2, BegunRead DEF StampInv
    <3>6. PresetOK'
      BY <1>2, <2>1, <3>1, Begun DEF StampInv, PresetOK
    <3>7. ProgressOK'
      BY <1>1, <1>4, <2>1, <3>3 DEF StampInv, ProgressOK, Before
    <3>8. EndOK'
      BY <1>1, <2>1 DEF StampInv, EndOK, StampOutcome
    <3> QED
      BY <3>4, <3>5, <3>6, <3>7, <3>8 DEF StampInv
  <2>4. CASE ~Asks(world)
    <3>1. UNCHANGED <<job, order>>
      BY <1>1, <1>4, <2>4 DEF StartScm, Asks
    <3>2. Started' = Versions'
      BY <1>1, <2>1, <2>4, <3>1 DEF Versions, Started
    <3>3. StampTypeOK' /\ PresetOK' /\ ReadOK'
      BY <2>1, <3>1 DEF StampInv, StampTypeOK, PresetOK, ReadOK, Started
    <3>4. ProgressOK'
      BY <1>1, <1>4, <2>1, <3>2 DEF StampInv, ProgressOK, Before
    <3>5. EndOK'
      BY <1>1, <2>1 DEF StampInv, EndOK, StampOutcome
    <3> QED
      BY <3>3, <3>4, <3>5 DEF StampInv
  <2> QED
    BY <2>3, <2>4
<1> QED
  BY <1>3, <1>4

LEMMA StepScmStarted == StampInv /\ ScmStarted => StampInv'
<1> SUFFICES ASSUME StampInv, ScmStarted PROVE StampInv'
  OBVIOUS
<1>1. /\ world \in WorldType /\ stampAt = "scm" /\ left = {}
      /\ UNCHANGED <<world, setloc, order, job, nread, printed, stampCode>>
      /\ stampAt' = "date" /\ left' = Dated(world)
  BY WorldOK DEF StampInv, ScmStarted, StampGoto
<1>2. Started' = ScmJobs(world) /\ Dates' = {}
  BY <1>1 DEF StampInv, ProgressOK, Started, Versions, ScmJobs, Dates
<1>3. StampTypeOK' /\ PresetOK' /\ ReadOK'
  BY <1>1, Projected DEF StampInv, StampTypeOK, PresetOK, ReadOK, Started
<1>4. ProgressOK'
  BY <1>1, <1>2 DEF StampInv, ProgressOK, Before
<1>5. EndOK'
  BY <1>1 DEF StampInv, EndOK, StampOutcome
<1> QED
  BY <1>3, <1>4, <1>5 DEF StampInv

LEMMA StepStartDate ==
    ASSUME StampInv, NEW p \in Project, StartDate(p)
    PROVE  StampInv'
<1> DEFINE j == <<"date", p>>
           st == IF world.dates = "git" THEN "runs" ELSE "preset"
<1>1. /\ world \in WorldType /\ stampAt = "date" /\ p \in left
      /\ left' = left \ {p} /\ Begin(j, st)
      /\ UNCHANGED <<world, stampAt, setloc, nread, stampCode, printed>>
      /\ left \subseteq Dated(world) /\ Started = ScmJobs(world) \cup Dates
  BY WorldOK DEF StampInv, ProgressOK, StartDate
<1>2. j \in Job /\ j[1] = "date" /\ st \in {"preset", "runs"}
  BY DEF Job
<1>3. j \notin Started
  BY <1>1 DEF Dates, ScmJobs
<1>4. Started' = ScmJobs(world) \cup Dates'
  <2>1. Dates' = Dates \cup {j}
    BY <1>1 DEF Dates
  <2> QED
    BY <1>1, <1>2, <2>1, Begun DEF StampInv
<1>5. StampTypeOK'
  <2>1. nread' \in 0 .. Len(order')
    BY <1>1, <1>2, Begun, OrderOK DEF StampInv
  <2> QED
    BY <1>1, <1>2, <2>1, Begun DEF StampInv, StampTypeOK
<1>6. ReadOK'
  BY <1>1, <1>2, <1>3, BegunRead DEF StampInv
<1>7. PresetOK'
  BY <1>1, <1>2, Begun DEF StampInv, PresetOK
<1>8. ProgressOK'
  BY <1>1, <1>4 DEF StampInv, ProgressOK, Before
<1>9. EndOK'
  BY <1>1 DEF StampInv, EndOK, StampOutcome
<1> QED
  BY <1>5, <1>6, <1>7, <1>8, <1>9 DEF StampInv

LEMMA StepDateStarted == StampInv /\ DateStarted => StampInv'
<1> SUFFICES ASSUME StampInv, DateStarted PROVE StampInv'
  OBVIOUS
<1>1. /\ stampAt = "date" /\ left = {} /\ stampAt' = "collects"
      /\ UNCHANGED <<world, left, setloc, order, job, nread, printed, stampCode>>
  BY DEF DateStarted, StampGoto
<1>2. Started' = ScmJobs(world) \cup DateJobs(world)
  BY <1>1 DEF StampInv, ProgressOK, Started, Dates, DateJobs
<1>3. StampTypeOK' /\ PresetOK' /\ ReadOK'
  BY <1>1 DEF StampInv, StampTypeOK, PresetOK, ReadOK, Started
<1>4. ProgressOK'
  BY <1>1, <1>2 DEF StampInv, ProgressOK, Before
<1>5. EndOK'
  BY <1>1 DEF StampInv, EndOK, StampOutcome
<1> QED
  BY <1>3, <1>4, <1>5 DEF StampInv

-----------------------------------------------------------------------------
(* The children, and their results *)

LEMMA StepChild ==
    ASSUME StampInv, NEW j \in Job, StampChild(j)
    PROVE  StampInv'
<1>1. PICK st \in {"blocked", "done"} :
          /\ job[j] \in {"runs", "blocked"} /\ job' = [job EXCEPT ![j] = st]
          /\ UNCHANGED <<world, stampAt, left, setloc, order, nread, stampCode, printed>>
  BY DEF StampChild, ChildRuns, ChildUnblocked
<1>2. /\ job' \in [Job -> {"none", "preset", "runs", "blocked", "done"}]
      /\ \A k \in Job : (job'[k] = "preset") <=> (job[k] = "preset")
  BY <1>1 DEF StampInv, StampTypeOK
<1>3. StampTypeOK' /\ Started' = Started
  BY <1>1, <1>2 DEF StampInv, StampTypeOK, Started
<1>4. PresetOK'
  BY <1>1, <1>2, <1>3 DEF StampInv, PresetOK
<1>5. ReadOK'
  <2> SUFFICES ASSUME NEW i \in 1 .. nread
               PROVE  order[i] \notin world.fails \/ job'[order[i]] = "preset"
    BY <1>1 DEF ReadOK
  <2>1. order[i] \in Job
    BY OrderOK DEF StampInv, StampTypeOK
  <2> QED
    BY <1>2, <2>1 DEF StampInv, ReadOK
<1>6. ProgressOK' /\ EndOK'
  BY <1>1, <1>3 DEF StampInv, ProgressOK, EndOK, StampOutcome, Before, Versions, Dates
<1> QED
  BY <1>3, <1>4, <1>5, <1>6 DEF StampInv

\* A child that failed is one that ran: what is preset has no child.
LEMMA StepCollect == StampInv /\ Collect => StampInv'
<1> SUFFICES ASSUME StampInv, Collect PROVE StampInv'
  OBVIOUS
<1> DEFINE j == order[nread + 1]
<1>1. /\ world \in WorldType /\ stampAt = "collects" /\ nread < Len(order)
      /\ UNCHANGED <<world, left, setloc, order, job, printed>>
      /\ job[j] \in {"done", "preset"}
      /\ Started = ScmJobs(world) \cup DateJobs(world)
  BY WorldOK DEF StampInv, ProgressOK, Collect
<1>2. nread \in Nat /\ Len(order) \in Nat /\ nread + 1 \in DOMAIN order
      /\ j \in Started /\ j \in Job
  BY <1>1, OrderOK DEF StampInv, Started
<1>3. CASE Failed(j)
  <2>1. StampExit(1) /\ UNCHANGED nread
    BY <1>3 DEF Collect
  <2>2. j \in Run(world)
    BY <1>1, <1>2, <1>3 DEF StampInv, PresetOK, Failed, Run, DateJobs, ScmJobs
  <2>3. Answer(world) = [code |-> 1, printed |-> {}]
    BY <1>1, <1>3, <2>2, Expected DEF Failed
  <2>4. StampTypeOK' /\ PresetOK' /\ ReadOK' /\ ProgressOK'
    BY <1>1, <2>1
    DEF StampInv, StampTypeOK, PresetOK, ReadOK, ProgressOK, Started, StampExit, Before
  <2>5. EndOK'
    BY <1>1, <2>1, <2>3 DEF StampInv, EndOK, StampExit, StampOutcome
  <2> QED
    BY <2>4, <2>5 DEF StampInv
<1>4. CASE ~Failed(j)
  <2>1. nread' = nread + 1 /\ UNCHANGED <<stampAt, stampCode>>
    BY <1>4 DEF Collect
  <2>2. nread' \in 0 .. Len(order)
    BY <1>1, <1>2, <2>1
  <2>3. StampTypeOK' /\ PresetOK'
    BY <1>1, <2>1, <2>2 DEF StampInv, StampTypeOK, PresetOK, Started
  <2>4. j \notin world.fails \/ job[j] = "preset"
    BY <1>1, <1>4 DEF Failed
  <2>5. ReadOK'
    <3> SUFFICES ASSUME NEW i \in 1 .. nread + 1
                 PROVE  order[i] \notin world.fails \/ job[order[i]] = "preset"
      BY <1>1, <2>1 DEF ReadOK
    <3>1. i \in 1 .. nread \/ i = nread + 1
      BY <1>2
    <3> QED
      BY <2>4, <3>1 DEF StampInv, ReadOK
  <2>6. ProgressOK' /\ EndOK'
    BY <1>1, <2>1 DEF StampInv, ProgressOK, EndOK, StampOutcome, Before, Started
  <2> QED
    BY <2>3, <2>5, <2>6 DEF StampInv
<1> QED
  BY <1>3, <1>4

\* All have been read, so no child failed.
LEMMA StepPrintResult == StampInv /\ PrintResult => StampInv'
<1> SUFFICES ASSUME StampInv, PrintResult PROVE StampInv'
  OBVIOUS
<1>1. /\ world \in WorldType /\ stampAt = "collects" /\ nread = Len(order)
      /\ UNCHANGED <<world, left, setloc, order, job, nread>>
      /\ stampAt' = "ended" /\ stampCode' = 0 /\ printed' = Started
      /\ Started = ScmJobs(world) \cup DateJobs(world) /\ ~BadManifest(world)
      /\ Versioned(world, Finds(world)) \subseteq world.present
  BY WorldOK DEF StampInv, ProgressOK, PrintResult, StampExit, Started
<1>2. Run(world) \cap world.fails = {}
  <2> SUFFICES ASSUME NEW j \in Run(world), j \in world.fails PROVE FALSE
    OBVIOUS
  <2>1. j \in Started
    BY <1>1 DEF Run
  <2>2. PICK i \in DOMAIN order : j = order[i]
    BY <2>1 DEF Started
  <2>3. i \in 1 .. nread /\ j \in Job
    BY <1>1, <2>1, <2>2, OrderOK DEF StampInv
  <2>4. job[j] = "preset"
    BY <2>2, <2>3 DEF StampInv, ReadOK
  <2>5. j[1] = "date" /\ world.dates # "git"
    BY <2>3, <2>4 DEF StampInv, PresetOK
  <2> QED
    BY <2>5 DEF Run, ScmJobs
<1>3. Answer(world) = [code |-> 0, printed |-> Started]
  BY <1>1, <1>2, Expected
<1>4. StampTypeOK'
  BY <1>1, OrderOK DEF StampInv, StampTypeOK
<1>5. PresetOK' /\ ReadOK' /\ ProgressOK'
  BY <1>1 DEF StampInv, PresetOK, ReadOK, ProgressOK, Started, Before
<1>6. EndOK'
  BY <1>1, <1>3 DEF EndOK, StampOutcome
<1> QED
  BY <1>4, <1>5, <1>6 DEF StampInv

-----------------------------------------------------------------------------
(* The theorems *)

LEMMA StampStep == StampInv /\ [StampNext]_stampVars => StampInv'
<1> SUFFICES ASSUME StampInv, [StampNext]_stampVars PROVE StampInv'
  OBVIOUS
<1>1. CASE ListProjects
  BY <1>1, StepListProjects
<1>2. CASE FindSetlocalversion
  BY <1>2, StepFindSetlocalversion
<1>3. ASSUME NEW p \in Project, StartScm(p) PROVE StampInv'
  BY <1>3, StepStartScm
<1>4. CASE ScmStarted
  BY <1>4, StepScmStarted
<1>5. ASSUME NEW p \in Project, StartDate(p) PROVE StampInv'
  BY <1>5, StepStartDate
<1>6. CASE DateStarted
  BY <1>6, StepDateStarted
<1>7. ASSUME NEW j \in Job, StampChild(j) PROVE StampInv'
  BY <1>7, StepChild
<1>8. CASE Collect
  BY <1>8, StepCollect
<1>9. CASE PrintResult
  BY <1>9, StepPrintResult
<1>10. CASE UNCHANGED stampVars
  BY <1>10
  DEF stampVars, StampInv, StampTypeOK, ProgressOK, PresetOK, ReadOK, EndOK, StampOutcome,
      Started, Versions, Dates, Before
<1> QED
  BY <1>1, <1>2, <1>3, <1>4, <1>5, <1>6, <1>7, <1>8, <1>9, <1>10 DEF StampNext, StampProgram

\* What the loops have started is what the machine calls for, and no result that was read
\* is that of a child that failed.
THEOREM StampInvariant == StampSpec => []StampInv
  BY StampInitially, StampStep, PTL DEF StampSpec

\* For any projects, in whatever order the two loops and the children run, the exit code
\* and the results that workspace_status_stamp.py prints are those the machine determines.
THEOREM StampAnswers == StampSpec => []StampOutcome
<1>1. StampInv => StampOutcome
  BY DEF StampInv, EndOK
<1> QED
  BY <1>1, StampInvariant, PTL

-----------------------------------------------------------------------------
(* WrapperArgs: positions in a sequence of words *)

\* The words of a command line.
ArgvWord == StartupWord \cup Command \cup ArgWord

\* The folds over words that WrapperArgs is built from.
ParseFold == INSTANCE SequenceFolds WITH Op <- LAMBDA parser, p, w : ParseOne(parser, p, w)
PickFold == INSTANCE SequenceFolds WITH Op <- LAMBDA mine, picked, i : PickOwn(mine, picked, i)
AddedFold == INSTANCE SequenceFolds WITH Op <- LAMBDA x, kept, w : KeepUnlessAdded(kept, w)

\* A set of positions has a least one.
LEMMA HasLeast ==
  ASSUME NEW s \in SUBSET Nat, s # {}
  PROVE  Min(s) \in s /\ \A y \in s : Min(s) <= y
<1> DEFINE R == OpToRel(<, Nat)
<1>1. PICK x \in s : \A y \in s : ~(<<y, x>> \in R)
  <2>1. IsWellFoundedOn(R, Nat)
    BY NatLessThanWellFounded DEF R
  <2> QED BY <2>1, WFMin
<1>2. \A y \in s : x <= y
  <2> SUFFICES ASSUME NEW y \in s, y < x PROVE FALSE
    OBVIOUS
  <2>1. <<y, x>> \in R
    BY DEF R, OpToRel
  <2> QED BY <1>1, <2>1
<1> QED BY <1>2 DEF Min

\* What a search for the first position of a set finds.
FirstOf(s, k) ==
  /\ s = {} => k = 0
  /\ s # {} => k \in s /\ \A j \in s : k <= j

\* The command is the first word without "-" in front.
LEMMA CommandFound ==
  ASSUME NEW S, NEW a \in Seq(S)
  PROVE  FirstOf({i \in 1 .. Len(a) : a[i] \in Plain}, CommandIdx(a))
<1> DEFINE s == {i \in 1 .. Len(a) : a[i] \in Plain}
<1>1. s \in SUBSET Nat
  OBVIOUS
<1>2. CommandIdx(a) = IF s # {} THEN Min(s) ELSE 0
  BY DEF CommandIdx, SelectInSeq
<1> HIDE DEF s
<1>3. FirstOf(s, CommandIdx(a))
  <2>1. s = {} => CommandIdx(a) = 0
    BY <1>2
  <2>2. s # {} => CommandIdx(a) = Min(s)
    BY <1>2
  <2>3. s # {} => Min(s) \in s /\ \A y \in s : Min(s) <= y
    BY <1>1, HasLeast
  <2> QED BY <2>1, <2>2, <2>3 DEF FirstOf
<1> QED BY <1>3 DEF s

\* The first "--" of a sequence.
LEMMA DashesFound ==
  ASSUME NEW S, NEW a \in Seq(S)
  PROVE  /\ FirstOf({i \in 1 .. Len(a) : a[i] = "--"}, DashDash(a))
         /\ FirstDashDash(a) = DashDash(a)
<1> DEFINE s == {i \in 1 .. Len(a) : a[i] = "--"}
<1>1. s \in SUBSET Nat
  OBVIOUS
<1>2. /\ DashDash(a) = IF s # {} THEN Min(s) ELSE 0
      /\ FirstDashDash(a) = IF s # {} THEN Min(s) ELSE 0
  BY DEF DashDash, FirstDashDash, SelectInSeq
<1> HIDE DEF s
<1>3. FirstDashDash(a) = DashDash(a)
  BY <1>2
<1>4. FirstOf(s, DashDash(a))
  <2>1. s = {} => DashDash(a) = 0
    BY <1>2
  <2>2. s # {} => DashDash(a) = Min(s)
    BY <1>2
  <2>3. s # {} => Min(s) \in s /\ \A y \in s : Min(s) <= y
    BY <1>1, HasLeast
  <2> QED BY <2>1, <2>2, <2>3 DEF FirstOf
<1> QED BY <1>3, <1>4 DEF s

\* A part of a sequence.
LEMMA PartIs ==
  ASSUME NEW S, NEW a \in Seq(S), NEW m \in 1 .. (Len(a) + 1), NEW n \in (m - 1) .. Len(a)
  PROVE  /\ SubSeq(a, m, n) \in Seq(S) /\ Len(SubSeq(a, m, n)) = n - m + 1
         /\ \A j \in 1 .. (n - m + 1) : SubSeq(a, m, n)[j] = a[m + j - 1]
<1>1. \A i \in m .. n : a[i] \in S
  BY ElementOfSeq
<1>2. m \in Int /\ n \in Int /\ Len(a) \in Nat
  BY LenProperties
<1> QED BY <1>1, <1>2, SubSeqProperties

\* The positions where a command line is divided: cmd is the first word of the command, or
\* one past the end, and pat the first word of the patterns, or one past the end.
Divided(a, cmd, pat) ==
  /\ cmd \in 1 .. (Len(a) + 1) /\ pat \in 1 .. (Len(a) + 1) /\ cmd <= pat
  /\ cmd <= Len(a) => a[cmd] \in Plain /\ cmd < pat /\ CommandIdx(a) = cmd
  /\ cmd = Len(a) + 1 => CommandIdx(a) = 0
  /\ \A j \in 1 .. (cmd - 1) : a[j] \notin Plain
  /\ pat <= Len(a) => a[pat] = "--"
  /\ \A j \in (cmd + 1) .. (pat - 1) : a[j] # "--"

\* The parts of a divided command line.
LEMMA PartsAre ==
  ASSUME NEW S, NEW a \in Seq(S)
  PROVE  \E cmd, pat \in Nat :
            /\ Divided(a, cmd, pat)
            /\ StartupOptions(a) = SubSeq(a, 1, cmd - 1)
            /\ CommandOf(a) = IF cmd <= Len(a) THEN <<a[cmd]>> ELSE <<>>
            /\ CommandArgs(a) = SubSeq(a, cmd + 1, pat - 1)
            /\ TargetPatterns(a) = SubSeq(a, pat, Len(a))
<1> DEFINE n == Len(a)
           plain == {i \in 1 .. n : a[i] \in Plain}
           c == CommandIdx(a)
<1>1. n \in Nat /\ FirstOf(plain, c)
  BY LenProperties, CommandFound
<1>2. CASE plain = {}
  <2>1. c = 0 /\ \A j \in 1 .. n : a[j] \notin Plain
    BY <1>1, <1>2 DEF FirstOf
  <2>2. Divided(a, n + 1, n + 1)
    <3> HIDE DEF c
    <3> QED BY <1>1, <2>1 DEF Divided, c
  <2>3. /\ SubSeq(a, 1, (n + 1) - 1) = a /\ SubSeq(a, (n + 1) + 1, (n + 1) - 1) = <<>>
        /\ SubSeq(a, n + 1, n) = <<>>
    <3>1. (n + 1) - 1 = n /\ SubSeq(a, 1, n) = a
      BY <1>1, SubSeqFull
    <3> HIDE DEF n
    <3> QED BY <1>1, <3>1, SubSeqEmpty
  <2>4. Remaining(a) = <<>> /\ DashDash(<<>>) = 0
    <3>1. FirstOf({i \in 1 .. Len(<<>>) : <<>>[i] = "--"}, DashDash(<<>>))
      <4>1. <<>> \in Seq(S)
        OBVIOUS
      <4> QED BY <4>1, DashesFound
    <3>2. {i \in 1 .. Len(<<>>) : <<>>[i] = "--"} = {}
      OBVIOUS
    <3> QED BY <2>1, <3>1, <3>2 DEF Remaining, FirstOf
  <2>5. /\ StartupOptions(a) = a /\ CommandOf(a) = <<>> /\ CommandArgs(a) = <<>>
        /\ TargetPatterns(a) = <<>>
    BY <2>1, <2>4 DEF StartupOptions, CommandOf, CommandArgs, TargetPatterns
  <2>6. ~(n + 1 <= n) /\ n + 1 \in Nat
    BY <1>1
  <2> QED BY <2>2, <2>3, <2>5, <2>6
<1>3. CASE plain # {}
  <2>1. c \in 1 .. n /\ a[c] \in Plain /\ c # 0 /\ \A j \in 1 .. (c - 1) : a[j] \notin Plain
    <3>1. c \in plain /\ \A j \in plain : c <= j
      BY <1>1, <1>3 DEF FirstOf
    <3> HIDE DEF c
    <3> QED BY <1>1, <3>1
  <2> DEFINE r == SubSeq(a, c + 1, n)
             d == DashDash(r)
             dashes == {i \in 1 .. Len(r) : r[i] = "--"}
             pat == IF d = 0 THEN n + 1 ELSE c + d
  <2>2. r \in Seq(S) /\ Len(r) = n - c /\ \A j \in 1 .. (n - c) : r[j] = a[c + j]
    <3>1. c + 1 \in 1 .. (n + 1) /\ n \in ((c + 1) - 1) .. n /\ n - (c + 1) + 1 = n - c
          /\ \A j \in 1 .. (n - c) : (c + 1) + j - 1 = c + j
      <4> HIDE DEF c, n
      <4> QED BY <1>1, <2>1
    <3> HIDE DEF c
    <3> QED BY <3>1, PartIs
  <2>3. FirstOf(dashes, d)
    <3> HIDE DEF r
    <3> QED BY <2>2, DashesFound
  <2>4. /\ d = 0 => \A j \in 1 .. (n - c) : r[j] # "--"
        /\ d # 0 => d \in 1 .. (n - c) /\ r[d] = "--" /\ \A j \in 1 .. (d - 1) : r[j] # "--"
    <3> HIDE DEF r, d, c, n
    <3>1. \A j : j \in dashes <=> j \in 1 .. (n - c) /\ r[j] = "--"
      BY <2>2
    <3> HIDE DEF dashes
    <3>2. CASE dashes = {}
      <4>1. d = 0
        BY <2>3, <3>2 DEF FirstOf
      <4> QED BY <3>1, <3>2, <4>1
    <3>3. CASE dashes # {}
      <4>1. d \in dashes /\ \A j \in dashes : d <= j
        BY <2>3, <3>3 DEF FirstOf
      <4>2. d \in 1 .. (n - c) /\ r[d] = "--"
        BY <3>1, <4>1
      <4>3. \A j \in 1 .. (d - 1) : j \in 1 .. (n - c) /\ ~(d <= j)
        BY <1>1, <2>1, <4>2
      <4>4. d # 0
        BY <4>2
      <4> QED BY <3>1, <4>1, <4>2, <4>3, <4>4
    <3> QED BY <3>2, <3>3
  <2>5. /\ StartupOptions(a) = SubSeq(a, 1, c - 1) /\ CommandOf(a) = <<a[c]>>
        /\ CommandArgs(a) = IF d = 0 THEN r ELSE SubSeq(r, 1, d - 1)
        /\ TargetPatterns(a) = IF d = 0 THEN <<>> ELSE SubSeq(r, d, Len(r))
    BY <2>1 DEF StartupOptions, CommandOf, CommandArgs, TargetPatterns, Remaining
  <2> HIDE DEF c, d, n
  <2>6. CASE d = 0
    <3>1. Divided(a, c, n + 1)
      <4>1. \A j \in (c + 1) .. ((n + 1) - 1) : j - c \in 1 .. (n - c) /\ c + (j - c) = j
        BY <1>1, <2>1
      <4>2. \A j \in (c + 1) .. ((n + 1) - 1) : a[j] # "--"
        BY <2>2, <2>4, <2>6, <4>1
      <4> QED BY <1>1, <2>1, <4>2 DEF Divided, c, n
    <3>2. SubSeq(a, n + 1, n) = <<>> /\ (n + 1) - 1 = n /\ n + 1 \in Nat /\ c \in Nat /\ c <= n
      BY <1>1, <2>1, SubSeqEmpty
    <3> QED BY <2>5, <2>6, <3>1, <3>2 DEF n
  <2>7. CASE d # 0
    <3>1. d \in 1 .. (n - c) /\ r[d] = "--" /\ \A j \in 1 .. (d - 1) : r[j] # "--"
      BY <2>4, <2>7
    <3>2. c + d \in 1 .. n /\ c <= n /\ c < c + d /\ c \in Nat /\ c + d \in Nat
      BY <1>1, <2>1, <3>1
    <3>3. Divided(a, c, c + d)
      <4>1. \A j \in (c + 1) .. ((c + d) - 1) :
               j - c \in 1 .. (n - c) /\ j - c \in 1 .. (d - 1) /\ c + (j - c) = j
        BY <1>1, <2>1, <3>1
      <4>2. \A j \in (c + 1) .. ((c + d) - 1) : a[j] # "--"
        <5> TAKE j \in (c + 1) .. ((c + d) - 1)
        <5>1. j - c \in 1 .. (n - c) /\ j - c \in 1 .. (d - 1) /\ c + (j - c) = j
          BY <4>1
        <5>2. r[j - c] = a[j]
          BY <2>2, <5>1
        <5>3. r[j - c] # "--"
          BY <3>1, <5>1
        <5> QED BY <5>2, <5>3
      <4>3. a[c + d] = "--"
        BY <2>2, <3>1
      <4>4. c # n + 1 /\ c + d \in 1 .. (n + 1) /\ c \in 1 .. (n + 1)
        BY <1>1, <2>1, <3>2
      <4> QED BY <1>1, <2>1, <3>2, <4>2, <4>3, <4>4 DEF Divided, c, n
    <3>4. SubSeq(r, 1, d - 1) = SubSeq(a, c + 1, (c + d) - 1)
      <4> DEFINE x == SubSeq(r, 1, d - 1)  y == SubSeq(a, c + 1, (c + d) - 1)
      <4>1. x \in Seq(S) /\ Len(x) = d - 1 /\ \A j \in 1 .. (d - 1) : x[j] = r[j]
        <5>1. /\ 1 \in 1 .. (Len(r) + 1) /\ d - 1 \in (1 - 1) .. Len(r)
              /\ (d - 1) - 1 + 1 = d - 1 /\ \A j \in 1 .. (d - 1) : 1 + j - 1 = j
          BY <1>1, <2>1, <2>2, <3>1
        <5> HIDE DEF r
        <5> QED BY <2>2, <5>1, PartIs
      <4>2. y \in Seq(S) /\ Len(y) = d - 1 /\ \A j \in 1 .. (d - 1) : y[j] = a[c + j]
        <5>1. /\ c + 1 \in 1 .. (n + 1) /\ (c + d) - 1 \in ((c + 1) - 1) .. n
              /\ ((c + d) - 1) - (c + 1) + 1 = d - 1
              /\ \A j \in 1 .. (d - 1) : (c + 1) + j - 1 = c + j
          BY <1>1, <2>1, <3>1
        <5> QED BY <5>1, PartIs DEF n
      <4>3. \A j \in 1 .. (d - 1) : r[j] = a[c + j]
        BY <1>1, <2>1, <2>2, <3>1
      <4> HIDE DEF x, y
      <4> QED BY <4>1, <4>2, <4>3, SeqEqual DEF x, y
    <3>5. SubSeq(r, d, Len(r)) = SubSeq(a, c + d, n)
      <4> DEFINE x == SubSeq(r, d, Len(r))  y == SubSeq(a, c + d, n)  k == n - c - d + 1
      <4>1. x \in Seq(S) /\ Len(x) = k /\ \A j \in 1 .. k : x[j] = r[d + j - 1]
        <5>1. /\ d \in 1 .. (Len(r) + 1) /\ Len(r) \in (d - 1) .. Len(r)
              /\ Len(r) - d + 1 = k
          BY <1>1, <2>1, <2>2, <3>1
        <5> HIDE DEF r, k
        <5> QED BY <2>2, <5>1, PartIs
      <4>2. y \in Seq(S) /\ Len(y) = k /\ \A j \in 1 .. k : y[j] = a[c + d + j - 1]
        <5>1. /\ c + d \in 1 .. (n + 1) /\ n \in ((c + d) - 1) .. n
              /\ n - (c + d) + 1 = k
          BY <1>1, <2>1, <3>1
        <5> HIDE DEF k
        <5> QED BY <5>1, PartIs DEF n
      <4>3. \A j \in 1 .. k : r[d + j - 1] = a[c + d + j - 1]
        <5>1. \A j \in 1 .. k : d + j - 1 \in 1 .. (n - c) /\ c + (d + j - 1) = c + d + j - 1
          BY <1>1, <2>1, <3>1
        <5> QED BY <2>2, <5>1
      <4> HIDE DEF x, y, k
      <4> QED BY <4>1, <4>2, <4>3, SeqEqual DEF x, y
    <3> QED BY <2>5, <2>7, <3>2, <3>3, <3>4, <3>5 DEF n
  <2> QED BY <2>6, <2>7
<1> QED BY <1>2, <1>3

-----------------------------------------------------------------------------
(* What argparse does to a sequence of words *)

\* The two parsers.
Parser == {StartupParser, CommandParser}

\* What a parser may have read of words from X.
ParseStates(parser, X) ==
  [known : Seq(parser.flags \cup parser.valued), rest : Seq(X),
   wants : {""} \cup parser.valued, bad : BOOLEAN]

\* A word is left over: no option, nor the option with its value.
LeftOver(parser, w) == w \notin parser.flags \cup parser.valued \cup Joined(parser.valued)

\* The options with a value are words, and no flags.
LEMMA ParserFacts ==
  ASSUME NEW parser \in Parser
  PROVE  "" \notin parser.valued /\ parser.flags \cap parser.valued = {}
<1>1. /\ "" \notin StartupValued /\ StartupFlag \cap StartupValued = {}
      /\ "" \notin CommandValued /\ CommandFlag \cap CommandValued = {}
  BY DEF StartupFlag, StartupValued, CommandFlag, CommandValued
<1>2. CASE parser = StartupParser
  BY <1>1, <1>2 DEF StartupParser
<1>3. CASE parser = CommandParser
  BY <1>1, <1>3 DEF CommandParser
<1> QED BY <1>2, <1>3 DEF Parser

\* One word: a state it cannot leave, a value, an option, or a word that is left over.
ParsesTo(parser, X, p, w, q) ==
  /\ q \in ParseStates(parser, X)
  /\ p.bad => q.bad
  /\ p.wants # "" /\ ~q.bad => w \in Plain /\ q.wants = "" /\ q.rest = p.rest
  /\ p.wants = "" /\ ~q.bad =>
        /\ q.wants = IF w \in parser.valued THEN w ELSE ""
        /\ q.rest = IF LeftOver(parser, w) THEN Append(p.rest, w) ELSE p.rest

\* Every word leads from a state to such a state.
LEMMA ParseOneIs ==
  ASSUME NEW parser \in Parser, NEW X, NEW p \in ParseStates(parser, X), NEW w \in X
  PROVE  ParsesTo(parser, X, p, w, ParseOne(parser, p, w))
<1> DEFINE F == parser.flags  W == parser.valued  J == Joined(W)  Y == F \cup W
           q == ParseOne(parser, p, w)
<1>1. /\ p.known \in Seq(F \cup W) /\ p.rest \in Seq(X) /\ p.wants \in {""} \cup W
      /\ p.bad \in BOOLEAN
      /\ p = [known |-> p.known, rest |-> p.rest, wants |-> p.wants, bad |-> p.bad]
  BY DEF ParseStates
<1>2. "" \notin W /\ F \cap W = {}
  BY ParserFacts
<1>3. Append(p.rest, w) \in Seq(X)
  BY <1>1, AppendProperties
<1>4. \A y \in Y : Append(p.known, y) \in Seq(F \cup W)
  <2> HIDE DEF F, W
  <2> QED BY <1>1, AppendProperties
<1> DEFINE Is(k, r, v, b) == q = [known |-> k, rest |-> r, wants |-> v, bad |-> b]
<1>5. CASE p.wants # ""
  <2>1. CASE w = "VALUE" \/ (w \in Plain /\ p.wants \in TakesAnyWord)
    <3>1. Is(Append(p.known, p.wants), p.rest, "", p.bad)
      BY <1>1, <1>5, <2>1 DEF ParseOne
    <3>2. w \in Plain /\ Append(p.known, p.wants) \in Seq(F \cup W)
      BY <1>1, <1>4, <1>5, <2>1 DEF Plain
    <3> HIDE DEF q
    <3>3. q \in ParseStates(parser, X) /\ q.rest = p.rest /\ q.wants = "" /\ q.bad = p.bad
      BY <1>1, <3>1, <3>2 DEF ParseStates
    <3>4. ParsesTo(parser, X, p, w, q)
      BY <1>5, <3>2, <3>3 DEF ParsesTo
    <3> QED BY <3>4 DEF q
  <2>2. CASE ~(w = "VALUE" \/ (w \in Plain /\ p.wants \in TakesAnyWord))
    <3>1. Is(p.known, p.rest, p.wants, TRUE)
      BY <1>1, <1>5, <2>2 DEF ParseOne
    <3> HIDE DEF q
    <3>2. q \in ParseStates(parser, X) /\ q.bad = TRUE
      BY <1>1, <3>1 DEF ParseStates
    <3>3. ParsesTo(parser, X, p, w, q)
      BY <3>2 DEF ParsesTo
    <3> QED BY <3>3 DEF q
  <2> QED BY <2>1, <2>2
<1>6. CASE p.wants = "" /\ w \in F
  <2>1. Is(Append(p.known, w), p.rest, p.wants, p.bad)
    BY <1>1, <1>2, <1>6 DEF ParseOne
  <2>2. Append(p.known, w) \in Seq(F \cup W) /\ w \notin W
    BY <1>2, <1>4, <1>6
  <2> HIDE DEF q
  <2>3. q \in ParseStates(parser, X) /\ q.rest = p.rest /\ q.wants = "" /\ q.bad = p.bad
    BY <1>1, <1>6, <2>1, <2>2 DEF ParseStates
  <2>4. ~LeftOver(parser, w)
    BY <1>6 DEF LeftOver
  <2>5. ParsesTo(parser, X, p, w, q)
    BY <1>6, <2>2, <2>3, <2>4 DEF ParsesTo
  <2> QED BY <2>5 DEF q
<1>7. CASE p.wants = "" /\ w \in W
  <2>1. Is(p.known, p.rest, w, p.bad)
    BY <1>1, <1>2, <1>7 DEF ParseOne
  <2> HIDE DEF q
  <2>2. q \in ParseStates(parser, X) /\ q.rest = p.rest /\ q.wants = w /\ q.bad = p.bad
    BY <1>1, <1>7, <2>1 DEF ParseStates
  <2>3. ~LeftOver(parser, w)
    BY <1>7 DEF LeftOver
  <2>4. ParsesTo(parser, X, p, w, q)
    BY <1>7, <2>2, <2>3 DEF ParsesTo
  <2> QED BY <2>4 DEF q
<1>8. CASE p.wants = "" /\ w \notin F \cup W
  <2>1. CASE w \in J
    <3> DEFINE o == CHOOSE x \in W : Concat(x, "=") = w
    <3>1. o \in W
      BY <2>1 DEF Joined
    <3> HIDE DEF o
    <3>2. Is(Append(p.known, o), p.rest, p.wants, p.bad)
      BY <1>1, <1>8, <2>1 DEF ParseOne, o
    <3>3. Append(p.known, o) \in Seq(F \cup W)
      BY <1>4, <3>1
    <3> HIDE DEF q
    <3>4. q \in ParseStates(parser, X) /\ q.rest = p.rest /\ q.wants = "" /\ q.bad = p.bad
      BY <1>1, <1>8, <3>2, <3>3 DEF ParseStates
    <3>5. ~LeftOver(parser, w)
      BY <2>1 DEF LeftOver
    <3>6. ParsesTo(parser, X, p, w, q)
      BY <1>8, <3>4, <3>5 DEF ParsesTo
    <3> QED BY <3>6 DEF q
  <2>2. CASE w \notin J /\ w \in Refused(W)
    <3>1. Is(p.known, p.rest, p.wants, TRUE)
      BY <1>1, <1>8, <2>2 DEF ParseOne
    <3> HIDE DEF q
    <3>2. q \in ParseStates(parser, X) /\ q.bad = TRUE
      BY <1>1, <3>1 DEF ParseStates
    <3>3. ParsesTo(parser, X, p, w, q)
      BY <3>2 DEF ParsesTo
    <3> QED BY <3>3 DEF q
  <2>3. CASE w \notin J /\ w \notin Refused(W)
    <3>1. Is(p.known, Append(p.rest, w), p.wants, p.bad)
      BY <1>1, <1>8, <2>3 DEF ParseOne
    <3> HIDE DEF q
    <3>2. /\ q \in ParseStates(parser, X) /\ q.rest = Append(p.rest, w) /\ q.wants = ""
          /\ q.bad = p.bad
      BY <1>1, <1>3, <1>8, <3>1 DEF ParseStates
    <3>3. LeftOver(parser, w)
      BY <1>8, <2>3 DEF LeftOver
    <3>4. ParsesTo(parser, X, p, w, q)
      BY <1>8, <3>2, <3>3 DEF ParsesTo
    <3> QED BY <3>4 DEF q
  <2> QED BY <2>1, <2>2, <2>3
<1> QED BY <1>5, <1>6, <1>7, <1>8

\* The states on the way through the words.
LEMMA ParseTrace ==
  ASSUME NEW parser \in Parser, NEW X, NEW words \in Seq(X)
  PROVE  \E q \in [0 .. Len(words) -> ParseStates(parser, X)] :
            /\ q[0] = NothingParsed
            /\ \A i \in 1 .. Len(words) : q[i] = ParseOne(parser, q[i - 1], words[i])
            /\ q[Len(words)] = ParseKnown(words, parser)
<1> DEFINE V == ParseStates(parser, X)
<1>1. NothingParsed \in V
  <2>1. \A Y : <<>> \in Seq(Y)
    OBVIOUS
  <2> QED BY <2>1 DEF ParseStates, NothingParsed
<1>2. \A v \in V, x \in X : ParseOne(parser, v, x) \in V
  BY ParseOneIs DEF ParsesTo
<1>3. ParseKnown(words, parser) = ParseFold!FoldValue(parser, NothingParsed, words)
  BY DEF ParseKnown, FoldLeft, MapThenFoldSet, Max, ParseFold!FoldValue, ParseFold!Greatest
<1> HIDE DEF V
<1>4. PICK q \in [0 .. Len(words) -> V] :
         ParseFold!IsTrace(q, parser, NothingParsed, words)
  <2>1. ParseFold!Trace(parser, V, NothingParsed, words)
    BY <1>1, <1>2, ParseFold!FoldTrace
  <2> QED BY <2>1 DEF ParseFold!Trace
<1>5. /\ q[0] = NothingParsed
      /\ \A i \in 1 .. Len(words) : q[i] = ParseOne(parser, q[i - 1], words[i])
      /\ q[Len(words)] = ParseFold!FoldValue(parser, NothingParsed, words)
  BY <1>4 DEF ParseFold!IsTrace
<1> QED BY <1>3, <1>5 DEF V

\* What is left over is words that were given.
LEMMA ParseType ==
  ASSUME NEW parser \in Parser, NEW X, NEW words \in Seq(X)
  PROVE  ParseKnown(words, parser) \in ParseStates(parser, X)
         /\ ParseKnown(words, parser).rest \in Seq(X)
<1>1. Len(words) \in 0 .. Len(words)
  OBVIOUS
<1>2. ParseKnown(words, parser) \in ParseStates(parser, X)
  BY <1>1, ParseTrace
<1> QED BY <1>2 DEF ParseStates

-----------------------------------------------------------------------------
(* The user's own words *)

\* Which positions of a divided command line are the user's own.
LEMMA OwnIs ==
  ASSUME NEW S, NEW a \in Seq(S), NEW cmd \in Nat, NEW pat \in Nat, Divided(a, cmd, pat),
         NEW i \in 1 .. Len(a)
  PROVE  i \in UsersOwn(a) <=>
           \/ i = cmd \/ i >= pat
           \/ i < cmd /\ LeftOver(StartupParser, a[i])
           \/ /\ i > cmd /\ i < pat /\ LeftOver(CommandParser, a[i])
              /\ i - 1 > cmd => a[i - 1] \notin CommandValued
<1> DEFINE n == Len(a)
           c == IF CommandIdx(a) = 0 THEN n + 1 ELSE CommandIdx(a)
           s == {j \in (c + 1) .. n : a[j] = "--"}
           d == SelectInSubSeq(a, c + 1, n, LAMBDA w : w = "--")
           after == i > c /\ (d = 0 \/ i < d)
           mine == \/ i = c \/ (d # 0 /\ i >= d)
                   \/ i < c /\ a[i] \notin StartupFlag \cup (StartupValued \cup Joined(StartupValued))
                   \/ /\ after
                      /\ a[i] \notin CommandFlag \cup (CommandValued \cup Joined(CommandValued))
                      /\ i - 1 > c => a[i - 1] \notin CommandValued
<1>1. n \in Nat /\ DOMAIN a = 1 .. n
  BY LenProperties
<1>2. i \in UsersOwn(a) <=> mine
  BY <1>1 DEF UsersOwn
<1>3. c = cmd
  <2> HIDE DEF n
  <2>1. cmd <= n \/ cmd = n + 1
    BY <1>1 DEF Divided, n
  <2>2. cmd <= n => CommandIdx(a) = cmd /\ cmd # 0
    BY <1>1 DEF Divided, n
  <2> QED BY <1>1, <2>1, <2>2 DEF Divided, n
<1>4. d = IF s # {} THEN Min(s) ELSE 0
  BY DEF SelectInSubSeq
<1>5. /\ \A j : j \in s <=> j \in (cmd + 1) .. n /\ a[j] = "--"
      /\ s \in SUBSET Nat
  BY <1>1, <1>3
<1> HIDE DEF c, s, d, n
<1>6. \/ pat \in s /\ d = pat /\ d # 0
      \/ pat = n + 1 /\ d = 0
  <2>1. CASE pat <= n
    <3>1. pat \in s
      BY <1>1, <1>5, <2>1 DEF Divided, n
    <3>2. Min(s) \in s /\ Min(s) <= pat
      BY <1>5, <3>1, HasLeast
    <3>3. \A j \in s : j >= pat
      BY <1>1, <1>5 DEF Divided, n
    <3>4. Min(s) = pat
      BY <1>5, <3>2, <3>3
    <3>5. pat # 0
      BY DEF Divided
    <3> QED BY <1>4, <3>1, <3>4, <3>5
  <2>2. CASE pat = n + 1
    <3>1. s = {}
      BY <1>1, <1>5, <2>2 DEF Divided, n
    <3> QED BY <1>4, <2>2, <3>1
  <2>3. pat <= n \/ pat = n + 1
    BY <1>1 DEF Divided, n
  <2> QED BY <2>1, <2>2, <2>3
<1>7. (d # 0 /\ i >= d) <=> i >= pat
  BY <1>1, <1>6 DEF n
<1>8. (d = 0 \/ i < d) <=> i < pat
  BY <1>1, <1>6 DEF n
<1> QED BY <1>2, <1>3, <1>7, <1>8 DEF LeftOver, StartupParser, CommandParser

\* The user's own words up to each position.
OwnTrace(a, t) ==
  /\ t[0] = <<>>
  /\ \A i \in 1 .. Len(a) :
        t[i] = IF i \in UsersOwn(a) THEN Append(t[i - 1], a[i]) ELSE t[i - 1]

\* UsersWords is the last of them.
LEMMA UsersTrace ==
  ASSUME NEW S, NEW a \in Seq(S)
  PROVE  \E t \in [0 .. Len(a) -> Seq(S)] : OwnTrace(a, t) /\ t[Len(a)] = UsersWords(a)
<1> DEFINE n == Len(a)
           mine == [own |-> UsersOwn(a), of |-> a]
           places == [i \in 1 .. n |-> i]
           V == Seq(S)
<1>1. n \in Nat /\ (\A i \in 1 .. n : a[i] \in S) /\ <<>> \in V
  BY ElementOfSeq, LenProperties
<1>2. places \in Seq(1 .. n) /\ Len(places) = n /\ \A i \in 1 .. n : places[i] = i
  <2> HIDE DEF n
  <2> QED BY <1>1
<1>3. \A v \in V, i \in 1 .. n : PickOwn(mine, v, i) = IF i \in UsersOwn(a) THEN Append(v, a[i]) ELSE v
  BY DEF PickOwn
<1>4. ASSUME NEW v \in V, NEW i \in 1 .. n PROVE PickOwn(mine, v, i) \in V
  <2>1. a[i] \in S
    BY <1>1
  <2>2. Append(v, a[i]) \in V
    BY <2>1, AppendProperties
  <2> HIDE DEF mine, V
  <2> QED BY <1>3, <2>2
<1>5. UsersWords(a) = PickFold!FoldValue(mine, <<>>, places)
  BY DEF UsersWords, FoldLeft, MapThenFoldSet, Max, PickFold!FoldValue, PickFold!Greatest
<1> HIDE DEF mine, places, V, n
<1>6. PICK t \in [0 .. n -> V] : PickFold!IsTrace(t, mine, <<>>, places)
  <2>1. PickFold!Trace(mine, V, <<>>, places)
    BY <1>1, <1>2, <1>4, PickFold!FoldTrace
  <2> QED BY <1>2, <2>1 DEF PickFold!Trace
<1>7. /\ t[0] = <<>> /\ t[n] = PickFold!FoldValue(mine, <<>>, places)
      /\ \A i \in 1 .. n : t[i] = PickOwn(mine, t[i - 1], i)
  BY <1>2, <1>6 DEF PickFold!IsTrace
<1>8. \A i \in 1 .. n : t[i - 1] \in V
  BY <1>1, <1>6
<1> QED BY <1>3, <1>5, <1>6, <1>7, <1>8 DEF n, V, OwnTrace

\* Concatenation, from the left or from the right.
Joins(s, t, u) == (s \o t) \o u = s \o (t \o u)

\* Both are the same.
LEMMA JoinsEither ==
  ASSUME NEW S, NEW s \in Seq(S), NEW t \in Seq(S), NEW u \in Seq(S)
  PROVE  Joins(s, t, u)
BY ConcatAssociative DEF Joins

\* One word more at the end.
LEMMA AppendAfter ==
  ASSUME NEW S, NEW s \in Seq(S), NEW t \in Seq(S), NEW e \in S
  PROVE  s \o Append(t, e) = Append(s \o t, e)
<1>1. <<e>> \in Seq(S) /\ s \o t \in Seq(S)
  OBVIOUS
<1>2. Append(t, e) = t \o <<e>> /\ Append(s \o t, e) = (s \o t) \o <<e>>
  BY <1>1, AppendIsConcat
<1>3. (s \o t) \o <<e>> = s \o (t \o <<e>>)
  BY <1>1, ConcatAssociative
<1> QED BY <1>2, <1>3

\* What the parser leaves over before the command is the user's own.
LEMMA StartupWords ==
  ASSUME NEW S, NEW a \in Seq(S), NEW cmd \in Nat, NEW pat \in Nat, Divided(a, cmd, pat),
         NEW t \in [0 .. Len(a) -> Seq(S)], OwnTrace(a, t),
         NEW words, words = SubSeq(a, 1, cmd - 1),
         ~Rejected(ParseKnown(words, StartupParser))
  PROVE  t[cmd - 1] = ParseKnown(words, StartupParser).rest
<1> DEFINE n == Len(a)
           m == cmd - 1
<1>1. n \in Nat /\ m \in Nat /\ m \in 0 .. n /\ m <= n /\ cmd <= pat
  BY LenProperties DEF Divided
<1>2. words \in Seq(S) /\ Len(words) = m /\ \A j \in 1 .. m : words[j] = a[j]
  <2>1. /\ 1 \in 1 .. (n + 1) /\ m \in (1 - 1) .. n
        /\ m - 1 + 1 = m /\ \A j \in 1 .. m : 1 + j - 1 = j
    BY <1>1
  <2> QED BY <2>1, PartIs
<1>3. PICK q \in [0 .. m -> ParseStates(StartupParser, S)] :
         /\ q[0] = NothingParsed
         /\ \A i \in 1 .. m : q[i] = ParseOne(StartupParser, q[i - 1], words[i])
         /\ q[m] = ParseKnown(words, StartupParser)
  <2> HIDE DEF m
  <2>1. StartupParser \in Parser
    BY DEF Parser
  <2> QED BY <1>2, <2>1, ParseTrace
<1> DEFINE Good(i) == Rejected(q[i]) \/ q[i].rest = t[i]
           T == {i \in 0 .. m : Good(i)}
<1> HIDE DEF m, n
<1>4. 0 \in T
  <2>1. q[0].rest = t[0]
    <3>1. NothingParsed.rest = <<>>
      BY DEF NothingParsed
    <3>2. q[0] = NothingParsed
      BY <1>3
    <3> QED BY <3>1, <3>2 DEF OwnTrace
  <2> QED BY <1>1, <2>1
<1>5. ASSUME NEW i \in 0 .. (m - 1), i \in T PROVE i + 1 \in T
  <2>1. /\ i + 1 \in 1 .. m /\ (i + 1) - 1 = i /\ i \in 0 .. m /\ i + 1 \in 1 .. n
        /\ i + 1 < cmd /\ i + 1 \in 0 .. m /\ ~(i + 1 >= pat)
    BY <1>1 DEF m
  <2>2. words[i + 1] = a[i + 1] /\ a[i + 1] \in S /\ q[i] \in ParseStates(StartupParser, S)
    BY <1>2, <1>3, <2>1, ElementOfSeq DEF n
  <2>3. ParsesTo(StartupParser, S, q[i], a[i + 1], q[i + 1])
    <3>1. q[i + 1] = ParseOne(StartupParser, q[i], a[i + 1])
      BY <1>3, <2>1, <2>2
    <3> QED BY <2>2, <3>1, ParseOneIs DEF Parser
  <2>4. a[i + 1] \notin Plain
    BY <2>1 DEF Divided, m
  <2>5. CASE Rejected(q[i])
    <3>1. q[i].bad => q[i + 1].bad
      BY <2>3 DEF ParsesTo
    <3>2. q[i].wants # "" => q[i + 1].bad
      BY <2>2, <2>3, <2>4 DEF ParsesTo, ParseStates
    <3>3. Rejected(q[i + 1])
      BY <2>5, <3>1, <3>2 DEF Rejected
    <3> QED BY <2>1, <3>3
  <2>6. CASE ~Rejected(q[i]) /\ ~q[i + 1].bad
    <3>1. q[i].wants = "" /\ q[i].rest = t[i]
      BY <1>5, <2>6 DEF Rejected
    <3>2. q[i + 1].rest = IF LeftOver(StartupParser, a[i + 1]) THEN Append(t[i], a[i + 1]) ELSE t[i]
      BY <2>3, <2>6, <3>1 DEF ParsesTo
    <3>3. i + 1 \in UsersOwn(a) <=> LeftOver(StartupParser, a[i + 1])
      BY <2>1, OwnIs DEF n
    <3>4. q[i + 1].rest = t[i + 1]
      BY <2>1, <3>2, <3>3 DEF n, OwnTrace
    <3> QED BY <2>1, <3>4
  <2>7. CASE q[i + 1].bad
    BY <2>1, <2>7 DEF Rejected
  <2> QED BY <2>5, <2>6, <2>7
<1>6. m \in T
  <2> HIDE DEF T
  <2>1. 0 .. m \subseteq T
    BY <1>1, <1>4, <1>5, PickFold!UpTo
  <2> QED BY <1>1, <2>1
<1> QED BY <1>3, <1>6 DEF m

\* What the parser leaves over after the command is the user's own.
LEMMA CommandWords ==
  ASSUME NEW S, NEW a \in Seq(S), NEW cmd \in Nat, NEW pat \in Nat, Divided(a, cmd, pat),
         cmd <= Len(a),
         NEW t \in [0 .. Len(a) -> Seq(S)], OwnTrace(a, t),
         ~Rejected(ParseKnown(SubSeq(a, cmd + 1, pat - 1), CommandParser))
  PROVE  t[pat - 1] = t[cmd] \o ParseKnown(SubSeq(a, cmd + 1, pat - 1), CommandParser).rest
<1> DEFINE words == SubSeq(a, cmd + 1, pat - 1)
           n == Len(a)
           m == pat - 1 - cmd
           b == t[cmd]
<1>1. /\ n \in Nat /\ m \in Nat /\ m \in 0 .. m /\ cmd + m = pat - 1 /\ cmd < pat
      /\ pat - 1 <= n /\ cmd \in 0 .. n
  BY LenProperties DEF Divided
<1>2. words \in Seq(S) /\ Len(words) = m /\ \A j \in 1 .. m : words[j] = a[cmd + j]
  <2>1. /\ cmd + 1 \in 1 .. (n + 1) /\ pat - 1 \in ((cmd + 1) - 1) .. n
        /\ (pat - 1) - (cmd + 1) + 1 = m /\ \A j \in 1 .. m : (cmd + 1) + j - 1 = cmd + j
    BY <1>1
  <2> HIDE DEF m
  <2> QED BY <2>1, PartIs
<1> HIDE DEF words
<1>3. PICK q \in [0 .. m -> ParseStates(CommandParser, S)] :
         /\ q[0] = NothingParsed
         /\ \A i \in 1 .. m : q[i] = ParseOne(CommandParser, q[i - 1], words[i])
         /\ q[m] = ParseKnown(words, CommandParser)
  <2> HIDE DEF m
  <2>1. CommandParser \in Parser
    BY DEF Parser
  <2> QED BY <1>2, <2>1, ParseTrace
<1>0. b \in Seq(S)
  BY <1>1
<1> DEFINE Waits(i) == q[i].wants # "" <=> i > 0 /\ a[cmd + i] \in CommandValued
           Good(i) == q[i].bad \/ (Waits(i) /\ t[cmd + i] = b \o q[i].rest)
           T == {i \in 0 .. m : Good(i)}
<1> HIDE DEF m, n, b
<1>4. 0 \in T
  <2>1. NothingParsed.rest = <<>> /\ NothingParsed.wants = ""
    BY DEF NothingParsed
  <2>2. q[0].rest = <<>> /\ q[0].wants = ""
    BY <1>3, <2>1
  <2>3. b \o <<>> = b /\ cmd + 0 = cmd
    BY <1>0, ConcatEmptySeq
  <2>4. t[cmd + 0] = b \o q[0].rest
    <3>1. b \o q[0].rest = b
      BY <2>2, <2>3
    <3>2. t[cmd + 0] = b
      BY <2>3 DEF b
    <3> QED BY <3>1, <3>2
  <2>5. Waits(0)
    <3>1. q[0].wants = ""
      BY <2>2
    <3>2. ~(0 > 0)
      OBVIOUS
    <3> QED BY <3>1, <3>2
  <2> HIDE DEF Waits
  <2> QED BY <1>1, <2>4, <2>5
<1>5. ASSUME NEW i \in 0 .. (m - 1), i \in T PROVE i + 1 \in T
  <2>1. /\ i + 1 \in 1 .. m /\ (i + 1) - 1 = i /\ i \in 0 .. m /\ i + 1 \in 0 .. m
        /\ cmd + (i + 1) \in 1 .. n /\ cmd + (i + 1) > cmd /\ cmd + (i + 1) < pat
        /\ cmd + (i + 1) - 1 = cmd + i /\ (cmd + i > cmd <=> i > 0) /\ i + 1 > 0
        /\ cmd + (i + 1) # cmd /\ ~(cmd + (i + 1) < cmd) /\ ~(cmd + (i + 1) >= pat)
    BY <1>1 DEF m
  <2> DEFINE k == cmd + (i + 1)
             w == a[k]
  <2>2. words[i + 1] = w /\ w \in S /\ q[i] \in ParseStates(CommandParser, S)
    BY <1>2, <1>3, <2>1, ElementOfSeq DEF n
  <2> HIDE DEF w, k
  <2>3. ParsesTo(CommandParser, S, q[i], w, q[i + 1])
    <3>1. q[i + 1] = ParseOne(CommandParser, q[i], w)
      BY <1>3, <2>1, <2>2
    <3>2. CommandParser \in Parser
      BY DEF Parser
    <3> QED BY <2>2, <3>1, <3>2, ParseOneIs
  <2>4. k \in UsersOwn(a) <=> LeftOver(CommandParser, w) /\ (i > 0 => a[cmd + i] \notin CommandValued)
    <3>1. k \in 1 .. Len(a) /\ k # cmd /\ ~(k >= pat) /\ ~(k < cmd) /\ k > cmd /\ k < pat
          /\ (k - 1 > cmd <=> i > 0) /\ k - 1 = cmd + i
      BY <2>1 DEF k, n
    <3> QED BY <3>1, OwnIs DEF w
  <2>5. t[k] = IF k \in UsersOwn(a) THEN Append(t[cmd + i], w) ELSE t[cmd + i]
    <3>1. k \in 1 .. Len(a) /\ k - 1 = cmd + i
      BY <2>1 DEF k, n
    <3> QED BY <3>1 DEF w, OwnTrace
  <2>6. CASE q[i + 1].bad
    BY <2>1, <2>6
  <2>7. CASE ~q[i + 1].bad
    <3>1. ~q[i].bad /\ Waits(i) /\ t[cmd + i] = b \o q[i].rest
      BY <1>5, <2>3, <2>7 DEF ParsesTo
    <3>2. CASE q[i].wants # ""
      <4>1. w \in Plain /\ q[i + 1].wants = "" /\ q[i + 1].rest = q[i].rest
        BY <2>3, <2>7, <3>2 DEF ParsesTo
      <4>2. w \notin CommandValued
        BY <4>1, WrapperArgsAssumption DEF Plain, CommandValued
      <4>3. t[k] = b \o q[i + 1].rest
        BY <2>4, <2>5, <3>1, <3>2, <4>1
      <4> QED BY <2>1, <4>1, <4>2, <4>3 DEF k, w
    <3>3. CASE q[i].wants = ""
      <4>1. /\ q[i + 1].wants = IF w \in CommandValued THEN w ELSE ""
            /\ q[i + 1].rest = IF LeftOver(CommandParser, w) THEN Append(q[i].rest, w) ELSE q[i].rest
        BY <2>3, <2>7, <3>3 DEF ParsesTo, CommandParser
      <4>2. q[i + 1].wants # "" <=> w \in CommandValued
        BY <4>1 DEF CommandValued
      <4>3. k \in UsersOwn(a) <=> LeftOver(CommandParser, w)
        BY <2>4, <3>1, <3>3
      <4>4. b \o Append(q[i].rest, w) = Append(b \o q[i].rest, w)
        <5>1. q[i].rest \in Seq(S)
          BY <2>2 DEF ParseStates
        <5>2. w \in S
          BY <2>2
        <5> DEFINE r == q[i].rest
        <5>3. r \in Seq(S)
          BY <5>1
        <5> HIDE DEF r
        <5>4. b \o Append(r, w) = Append(b \o r, w)
          BY <1>0, <5>2, <5>3, AppendAfter
        <5> QED BY <5>4 DEF r
      <4>5. t[k] = b \o q[i + 1].rest
        BY <2>5, <3>1, <4>1, <4>3, <4>4
      <4> QED BY <2>1, <4>2, <4>5 DEF k, w
    <3> QED BY <3>2, <3>3
  <2> QED BY <2>6, <2>7
<1>6. m \in T
  <2> HIDE DEF T
  <2>1. 0 .. m \subseteq T
    BY <1>1, <1>4, <1>5, PickFold!UpTo
  <2> QED BY <1>1, <2>1
<1> QED BY <1>1, <1>3, <1>6 DEF b, words, Rejected

\* From the first "--" after the command on, all words are the user's own.
LEMMA PatternWords ==
  ASSUME NEW S, NEW a \in Seq(S), NEW cmd \in Nat, NEW pat \in Nat, Divided(a, cmd, pat),
         NEW t \in [0 .. Len(a) -> Seq(S)], OwnTrace(a, t)
  PROVE  t[Len(a)] = t[pat - 1] \o SubSeq(a, pat, Len(a))
<1> DEFINE n == Len(a)
           m == n - pat + 1
           b == t[pat - 1]
           Good(i) == t[pat - 1 + i] = b \o SubSeq(a, pat, pat - 1 + i)
           T == {i \in 0 .. m : Good(i)}
<1>1. n \in Nat /\ m \in Nat /\ m \in 0 .. m /\ pat - 1 \in 0 .. n /\ pat - 1 + m = n
      /\ pat - 1 + 0 = pat - 1 /\ pat >= 1 /\ pat - 1 < pat
  BY LenProperties DEF Divided
<1>2. b \in Seq(S)
  BY <1>1
<1> HIDE DEF m, n, b
<1>3. 0 \in T
  <2>1. SubSeq(a, pat, pat - 1 + 0) = <<>>
    BY <1>1, SubSeqEmpty
  <2>2. b \o <<>> = b
    BY <1>2, ConcatEmptySeq
  <2>3. t[pat - 1 + 0] = b
    BY <1>1 DEF b
  <2>4. Good(0)
    BY <2>1, <2>2, <2>3
  <2> HIDE DEF Good
  <2> QED BY <1>1, <2>4
<1>4. ASSUME NEW i \in 0 .. (m - 1), i \in T PROVE i + 1 \in T
  <2> DEFINE k == pat + i
  <2>1. /\ i + 1 \in 0 .. m /\ k \in 1 .. n /\ k \in pat .. n /\ pat \in 1 .. n /\ k >= pat
        /\ k - 1 = pat - 1 + i /\ pat - 1 + (i + 1) = k /\ k - 1 \in (pat - 1) .. n
        /\ pat \in 1 .. (n + 1)
    BY <1>1 DEF m
  <2> HIDE DEF k
  <2>2. k \in UsersOwn(a)
    BY <2>1, OwnIs DEF n
  <2>3. t[k] = Append(t[k - 1], a[k]) /\ a[k] \in S
    BY <2>1, <2>2, ElementOfSeq DEF n, OwnTrace
  <2>4. t[k - 1] = b \o SubSeq(a, pat, k - 1)
    BY <1>4, <2>1
  <2> DEFINE x == SubSeq(a, pat, k - 1)
  <2>5. x \in Seq(S)
    BY <2>1, PartIs DEF n
  <2>6. SubSeq(a, pat, k) = x \o <<a[k]>>
    BY <2>1, SubSeqRecursiveSecond DEF n
  <2> HIDE DEF x
  <2>7. x \o <<a[k]>> = Append(x, a[k]) /\ b \o Append(x, a[k]) = Append(b \o x, a[k])
    BY <1>2, <2>3, <2>5, AppendIsConcat, AppendAfter
  <2>8. t[k] = b \o SubSeq(a, pat, k)
    BY <2>3, <2>4, <2>6, <2>7 DEF x
  <2> QED BY <2>1, <2>8
<1>5. m \in T
  <2> HIDE DEF T
  <2>1. 0 .. m \subseteq T
    BY <1>1, <1>3, <1>4, PickFold!UpTo
  <2> QED BY <1>1, <2>1
<1>6. t[n] = b \o SubSeq(a, pat, n)
  BY <1>1, <1>5
<1> QED BY <1>6 DEF n, b

\* The user's own words are what the parsers leave over, the command between them, and
\* what comes after them.
LEMMA UsersWordsAre ==
  ASSUME NEW S, NEW a \in Seq(S), ~Rejected(KnownStartup(a)), ~Rejected(KnownArgs(a))
  PROVE  UsersWords(a) = ((KnownStartup(a).rest \o CommandOf(a)) \o KnownArgs(a).rest)
                         \o TargetPatterns(a)
<1> DEFINE n == Len(a)
           s == KnownStartup(a).rest
           k == KnownArgs(a).rest
<1>1. PICK cmd, pat \in Nat :
            /\ Divided(a, cmd, pat)
            /\ StartupOptions(a) = SubSeq(a, 1, cmd - 1)
            /\ CommandOf(a) = IF cmd <= Len(a) THEN <<a[cmd]>> ELSE <<>>
            /\ CommandArgs(a) = SubSeq(a, cmd + 1, pat - 1)
            /\ TargetPatterns(a) = SubSeq(a, pat, Len(a))
  BY PartsAre
<1>2. PICK t \in [0 .. Len(a) -> Seq(S)] : OwnTrace(a, t) /\ t[Len(a)] = UsersWords(a)
  BY UsersTrace
<1>3. t[cmd - 1] = s
  <2> DEFINE x == SubSeq(a, 1, cmd - 1)
  <2>1. KnownStartup(a) = ParseKnown(x, StartupParser)
    BY <1>1 DEF KnownStartup
  <2> HIDE DEF x
  <2>2. t[cmd - 1] = ParseKnown(x, StartupParser).rest
    BY <1>1, <1>2, <2>1, StartupWords DEF x
  <2> QED BY <2>1, <2>2
<1>4. UsersWords(a) = t[pat - 1] \o TargetPatterns(a)
  BY <1>1, <1>2, PatternWords
<1>5. n \in Nat /\ cmd - 1 \in 0 .. n
  BY <1>1, LenProperties DEF Divided
<1>6. s \in Seq(S)
  BY <1>2, <1>3, <1>5
<1>7. t[pat - 1] = (s \o CommandOf(a)) \o k
  <2>1. CASE cmd <= n
    <3>1. cmd \in 1 .. n /\ cmd - 1 \in 0 .. n
      BY <1>1, <1>5, <2>1 DEF Divided
    <3>2. cmd \in UsersOwn(a)
      BY <1>1, <3>1, OwnIs
    <3>3. t[cmd] = Append(s, a[cmd]) /\ a[cmd] \in S
      BY <1>2, <1>3, <3>1, <3>2, ElementOfSeq DEF OwnTrace
    <3>4. Append(s, a[cmd]) = s \o <<a[cmd]>>
      BY <1>6, <3>3, AppendIsConcat
    <3>5. t[pat - 1] = t[cmd] \o k
      <4>1. KnownArgs(a) = ParseKnown(SubSeq(a, cmd + 1, pat - 1), CommandParser)
        BY <1>1 DEF KnownArgs
      <4>2. ~Rejected(ParseKnown(SubSeq(a, cmd + 1, pat - 1), CommandParser))
        BY <4>1
      <4>3. Divided(a, cmd, pat) /\ OwnTrace(a, t) /\ cmd <= Len(a)
        BY <1>1, <1>2, <2>1
      <4>4. t[pat - 1] = t[cmd] \o ParseKnown(SubSeq(a, cmd + 1, pat - 1), CommandParser).rest
        BY <4>2, <4>3, CommandWords
      <4> QED BY <4>1, <4>4
    <3> QED BY <1>1, <2>1, <3>3, <3>4, <3>5
  <2>2. CASE cmd = n + 1
    <3>1. pat - 1 = cmd - 1 /\ pat - 1 < cmd + 1 /\ ~(cmd <= n)
      BY <1>1, <1>5, <2>2 DEF Divided
    <3>2. CommandOf(a) = <<>> /\ CommandArgs(a) = <<>>
      BY <1>1, <3>1, SubSeqEmpty
    <3>3. k = <<>>
      <4>1. /\ \E q \in [0 .. Len(<<>>) -> ParseStates(CommandParser, S)] :
                 q[0] = NothingParsed /\ q[Len(<<>>)] = ParseKnown(<<>>, CommandParser)
        <5>1. <<>> \in Seq(S) /\ CommandParser \in Parser
          BY EmptySeq DEF Parser
        <5> QED BY <5>1, ParseTrace
      <4>2. ParseKnown(<<>>, CommandParser) = NothingParsed
        BY <4>1
      <4>3. NothingParsed.rest = <<>>
        BY DEF NothingParsed
      <4> QED BY <3>2, <4>2, <4>3 DEF KnownArgs
    <3>4. s \o <<>> = s /\ (s \o <<>>) \o <<>> = s
      BY <1>6, ConcatEmptySeq
    <3> QED BY <1>3, <3>1, <3>2, <3>3, <3>4
  <2>3. cmd <= n \/ cmd = n + 1
    BY <1>1, <1>5 DEF Divided
  <2> QED BY <2>1, <2>2, <2>3
<1> QED BY <1>4, <1>7

-----------------------------------------------------------------------------
(* The words the wrapper adds *)

\* Added words, and words of generated files.
LEMMA AddedFacts ==
  /\ "--" \notin Added /\ "kleaf" \notin Added /\ "targets" \notin Added
  /\ \A rc \in Rc, r \in Rc : SourceRc[rc] # GenRc[r] /\ (GenRc[rc] = GenRc[r] => rc = r)
  /\ \A rc \in Rc : GenRc[rc] \notin
        {"--help", "--host_jvm_args=-Djava.io.tmpdir=", "--output_user_root=", "--color=yes",
         "--use_prebuilt_gki", "--config=internet", "query", "--keep_going",
         "--ui_event_filters=-error", "--noshow_progress", "kind(kernel_build)"}
  /\ \A rc \in Rc : SourceRc[rc] \in Added /\ GenRc[rc] \in Added
  /\ Rc = {"configs", "stamp", "stamp_extra", "release", "cache_dir", "hermetic_actions",
           "toolchains", "network", "common"}
BY DEF Added, Rc, SourceRc, GenRc

\* The filter of added words, one word at a time.
LEMMA NotAddedFacts ==
  ASSUME NEW S, NEW x \in Seq(S), NEW w \in S
  PROVE  /\ NotAdded(<<>>) = <<>> /\ NotAdded(x) \in Seq(S)
         /\ NotAdded(Append(x, w)) = KeepUnlessAdded(NotAdded(x), w)
<1> DEFINE V == Seq(S)
<1>1. <<>> \in V
  OBVIOUS
<1>2. \A v \in V, y \in S : KeepUnlessAdded(v, y) \in V
  BY AppendProperties DEF KeepUnlessAdded
<1>3. \A y : NotAdded(y) = AddedFold!FoldValue(0, <<>>, y)
  BY DEF NotAdded, FoldLeft, MapThenFoldSet, Max, AddedFold!FoldValue, AddedFold!Greatest
<1> HIDE DEF V
<1>4. AddedFold!FoldsOn(0, V, <<>>, x, w)
  BY <1>1, <1>2, AddedFold!FoldAppend
<1>5. /\ AddedFold!FoldValue(0, <<>>, <<>>) = <<>> /\ AddedFold!FoldValue(0, <<>>, x) \in V
      /\ AddedFold!FoldValue(0, <<>>, Append(x, w))
           = KeepUnlessAdded(AddedFold!FoldValue(0, <<>>, x), w)
  BY <1>4 DEF AddedFold!FoldsOn
<1> QED BY <1>3, <1>5 DEF V

\* The filter of added words leaves a sequence of the same words, and none of added words.
LEMMA NotAddedType ==
  ASSUME NEW S, NEW x \in Seq(S)
  PROVE  /\ NotAdded(x) \in Seq(S)
         /\ S \subseteq Added => NotAdded(x) = <<>>
<1> DEFINE n == Len(x)
           T == {i \in 0 .. n : /\ NotAdded(SubSeq(x, 1, i)) \in Seq(S)
                                /\ S \subseteq Added => NotAdded(SubSeq(x, 1, i)) = <<>>}
<1>1. /\ SubSeq(x, 1, 0) = <<>> /\ SubSeq(x, 1, n) = x /\ n \in Nat
      /\ \A i \in 1 .. n : /\ SubSeq(x, 1, i) = Append(SubSeq(x, 1, i - 1), x[i])
                           /\ SubSeq(x, 1, i - 1) \in Seq(S) /\ x[i] \in S
  BY PickFold!Prefixes, LenProperties, ElementOfSeq
<1> HIDE DEF n
<1>2. 0 \in T
  <2>1. NotAdded(<<>>) = <<>>
    <3>1. <<>> \in Seq({0}) /\ 0 \in {0}
      OBVIOUS
    <3> QED BY <3>1, NotAddedFacts
  <2>2. <<>> \in Seq(S) /\ 0 \in 0 .. n
    BY <1>1
  <2> QED BY <1>1, <2>1, <2>2
<1>3. ASSUME NEW i \in 0 .. (n - 1), i \in T PROVE i + 1 \in T
  <2>1. i + 1 \in 1 .. n /\ (i + 1) - 1 = i /\ i + 1 \in 0 .. n
    BY <1>1
  <2> DEFINE y == SubSeq(x, 1, i)  w == x[i + 1]
  <2>2. y \in Seq(S) /\ w \in S /\ SubSeq(x, 1, i + 1) = Append(y, w)
    BY <1>1, <2>1
  <2>3. NotAdded(y) \in Seq(S) /\ (S \subseteq Added => NotAdded(y) = <<>>)
    BY <1>3
  <2> HIDE DEF y, w
  <2>4. NotAdded(Append(y, w)) = KeepUnlessAdded(NotAdded(y), w)
    BY <2>2, NotAddedFacts
  <2>5. NotAdded(Append(y, w)) = IF w \in Added THEN NotAdded(y) ELSE Append(NotAdded(y), w)
    BY <2>4 DEF KeepUnlessAdded
  <2>6. Append(NotAdded(y), w) \in Seq(S)
    BY <2>2, <2>3, AppendProperties
  <2> QED BY <2>1, <2>2, <2>3, <2>5, <2>6
<1>4. n \in T
  <2> HIDE DEF T
  <2>1. 0 .. n \subseteq T
    BY <1>1, <1>2, <1>3, PickFold!UpTo
  <2> QED BY <1>1, <2>1
<1> QED BY <1>1, <1>4

\* The filter of added words is applied to each of two parts.
LEMMA NotAddedJoins ==
  ASSUME NEW S, NEW x \in Seq(S), NEW z \in Seq(S)
  PROVE  NotAdded(x \o z) = NotAdded(x) \o NotAdded(z)
<1> DEFINE n == Len(z)
           p(i) == SubSeq(z, 1, i)
           T == {i \in 0 .. n : NotAdded(x \o p(i)) = NotAdded(x) \o NotAdded(p(i))}
<1>1. /\ p(0) = <<>> /\ p(n) = z /\ n \in Nat
      /\ \A i \in 1 .. n : p(i) = Append(p(i - 1), z[i]) /\ p(i - 1) \in Seq(S) /\ z[i] \in S
  BY PickFold!Prefixes, LenProperties, ElementOfSeq
<1> HIDE DEF n, p
<1>2. 0 \in T
  <2>1. NotAdded(<<>>) = <<>>
    <3>1. <<>> \in Seq({0}) /\ 0 \in {0}
      OBVIOUS
    <3> QED BY <3>1, NotAddedFacts
  <2>2. x \o <<>> = x /\ NotAdded(x) \o <<>> = NotAdded(x)
    BY NotAddedType, ConcatEmptySeq
  <2>3. NotAdded(x \o p(0)) = NotAdded(x) \o NotAdded(p(0))
    BY <1>1, <2>1, <2>2
  <2> QED BY <1>1, <2>3
<1>3. ASSUME NEW i \in 0 .. (n - 1), i \in T PROVE i + 1 \in T
  <2>1. i + 1 \in 1 .. n /\ (i + 1) - 1 = i /\ i + 1 \in 0 .. n
    BY <1>1
  <2> DEFINE y == p(i)  w == z[i + 1]
  <2>2. y \in Seq(S) /\ w \in S /\ p(i + 1) = Append(y, w)
    BY <1>1, <2>1
  <2>3. NotAdded(x \o y) = NotAdded(x) \o NotAdded(y)
    BY <1>3
  <2> HIDE DEF y, w
  <2>4. x \o Append(y, w) = Append(x \o y, w) /\ x \o y \in Seq(S)
    BY <2>2, AppendAfter, ConcatProperties
  <2>5. /\ NotAdded(Append(y, w)) = KeepUnlessAdded(NotAdded(y), w)
        /\ NotAdded(Append(x \o y, w)) = KeepUnlessAdded(NotAdded(x \o y), w)
    BY <2>2, <2>4, NotAddedFacts
  <2>6. NotAdded(x) \in Seq(S) /\ NotAdded(y) \in Seq(S)
    BY <2>2, NotAddedType
  <2>7. NotAdded(x) \o Append(NotAdded(y), w) = Append(NotAdded(x) \o NotAdded(y), w)
    <3> DEFINE u == NotAdded(x)  v == NotAdded(y)
    <3>1. u \in Seq(S) /\ v \in Seq(S) /\ w \in S
      BY <2>2, <2>6
    <3> HIDE DEF u, v
    <3>2. u \o Append(v, w) = Append(u \o v, w)
      BY <3>1, AppendAfter
    <3> QED BY <3>2 DEF u, v
  <2>8. NotAdded(x \o Append(y, w)) = NotAdded(x) \o NotAdded(Append(y, w))
    BY <2>3, <2>4, <2>5, <2>7 DEF KeepUnlessAdded
  <2> QED BY <2>1, <2>2, <2>8
<1>4. n \in T
  <2> HIDE DEF T
  <2>1. 0 .. n \subseteq T
    BY <1>1, <1>2, <1>3, PickFold!UpTo
  <2> QED BY <1>1, <2>1
<1> QED BY <1>1, <1>4

\* A sequence without "--", and one that is empty or begins with it.
LEMMA DashSplit ==
  ASSUME NEW S, NEW x \in Seq(S), "--" \notin S, NEW R, NEW z \in Seq(R),
         z = <<>> \/ z[1] = "--"
  PROVE  BeforeDashes(x \o z) = x /\ FromDashes(x \o z) = z
<1> DEFINE Z == S \cup R
           y == x \o z
           m == Len(x)
           n == Len(z)
           s == {i \in 1 .. Len(y) : y[i] = "--"}
           d == FirstDashDash(y)
<1>1. x \in Seq(Z) /\ z \in Seq(Z) /\ m \in Nat /\ n \in Nat
  BY SeqMonotonic, LenProperties
<1>2. /\ y \in Seq(Z) /\ Len(y) = m + n
      /\ \A i \in 1 .. (m + n) : y[i] = IF i <= m THEN x[i] ELSE z[i - m]
  BY <1>1, ConcatProperties
<1>3. \A i \in 1 .. m : x[i] # "--"
  BY ElementOfSeq
<1>4. FirstOf(s, d)
  <2> HIDE DEF y
  <2> QED BY <1>2, DashesFound
<1>5. SubSeq(y, 1, m) = x
  <2> DEFINE a == SubSeq(y, 1, m)
  <2>1. a \in Seq(Z) /\ Len(a) = m /\ \A i \in 1 .. m : a[i] = y[i]
    <3>1. /\ 1 \in 1 .. (Len(y) + 1) /\ m \in (1 - 1) .. Len(y) /\ m - 1 + 1 = m
          /\ \A i \in 1 .. m : 1 + i - 1 = i
      BY <1>1, <1>2
    <3> HIDE DEF y, m
    <3> QED BY <1>2, <3>1, PartIs
  <2>2. \A i \in 1 .. m : y[i] = x[i]
    BY <1>1, <1>2
  <2> HIDE DEF a, y
  <2> QED BY <1>1, <2>1, <2>2, SeqEqual DEF a
<1>6. CASE z = <<>>
  <2>1. y = x
    BY <1>6, ConcatEmptySeq
  <2>2. s = {}
    BY <1>3, <2>1
  <2>3. d = 0
    BY <1>4, <2>2 DEF FirstOf
  <2> QED BY <1>6, <2>1, <2>3 DEF BeforeDashes, FromDashes
<1>7. CASE z # <<>> /\ z[1] = "--"
  <2>1. n >= 1
    BY <1>7, EmptySeq
  <2>2. m + 1 \in 1 .. (m + n) /\ ~(m + 1 <= m) /\ m + 1 - m = 1
    BY <1>1, <2>1
  <2>3. m + 1 \in s
    BY <1>2, <1>7, <2>2
  <2>4. \A i \in s : i >= m + 1
    BY <1>1, <1>2, <1>3
  <2>5. d = m + 1 /\ d # 0
    <3>1. d \in s /\ d <= m + 1
      BY <1>4, <2>3 DEF FirstOf
    <3>2. d \in Nat /\ d >= m + 1
      BY <1>1, <1>2, <2>4, <3>1
    <3> HIDE DEF d, m
    <3> QED BY <1>1, <3>1, <3>2
  <2>6. BeforeDashes(y) = SubSeq(y, 1, m) /\ FromDashes(y) = SubSeq(y, m + 1, m + n)
    <3>1. d - 1 = m
      BY <1>1, <2>5
    <3> QED BY <1>2, <2>5, <3>1 DEF BeforeDashes, FromDashes
  <2>7. SubSeq(y, m + 1, m + n) = z
    <3> DEFINE a == SubSeq(y, m + 1, m + n)
    <3>1. a \in Seq(Z) /\ Len(a) = n /\ \A i \in 1 .. n : a[i] = y[m + i]
      <4>1. /\ m + 1 \in 1 .. (Len(y) + 1) /\ m + n \in ((m + 1) - 1) .. Len(y)
            /\ (m + n) - (m + 1) + 1 = n /\ \A i \in 1 .. n : (m + 1) + i - 1 = m + i
        BY <1>1, <1>2
      <4> HIDE DEF y, m, n
      <4> QED BY <1>2, <4>1, PartIs
    <3>2. \A i \in 1 .. n : m + i \in 1 .. (m + n) /\ ~(m + i <= m) /\ m + i - m = i
      <4> HIDE DEF m, n
      <4> QED BY <1>1
    <3>3. ASSUME NEW i \in 1 .. n PROVE y[m + i] = z[i]
      <4> DEFINE k == m + i
      <4>1. k \in 1 .. (m + n) /\ ~(k <= m) /\ k - m = i
        BY <3>2
      <4> HIDE DEF k, y, m, n
      <4>2. y[k] = z[k - m]
        BY <1>2, <4>1
      <4> QED BY <4>1, <4>2 DEF k
    <3> HIDE DEF a, y
    <3> QED BY <1>1, <3>1, <3>3, SeqEqual DEF a
  <2> QED BY <1>5, <2>6, <2>7
<1> QED BY <1>6, <1>7

-----------------------------------------------------------------------------
(* What Bazel is given *)

\* The user's words, of which none comes as "--" before the command.
ArgvOK ==
  /\ argv \in Seq(ArgvWord)
  /\ \A j \in 1 .. Len(argv) : (\A i \in 1 .. j : argv[i] \notin Plain) => argv[j] # "--"

\* Words without "--".
NoDash == ArgvWord \ {"--"}

\* The parts of the user's command line.
LEMMA PartsTyped ==
  ASSUME ArgvOK
  PROVE  /\ KnownStartup(argv).rest \in Seq(NoDash) /\ KnownArgs(argv).rest \in Seq(NoDash)
         /\ CommandOf(argv) \in Seq(NoDash) /\ TargetPatterns(argv) \in Seq(ArgvWord)
         /\ TargetPatterns(argv) = <<>> \/ TargetPatterns(argv)[1] = "--"
<1> DEFINE n == Len(argv)
<1>1. PICK cmd, pat \in Nat :
            /\ Divided(argv, cmd, pat)
            /\ StartupOptions(argv) = SubSeq(argv, 1, cmd - 1)
            /\ CommandOf(argv) = IF cmd <= Len(argv) THEN <<argv[cmd]>> ELSE <<>>
            /\ CommandArgs(argv) = SubSeq(argv, cmd + 1, pat - 1)
            /\ TargetPatterns(argv) = SubSeq(argv, pat, Len(argv))
  BY PartsAre DEF ArgvOK
<1>2. n \in Nat /\ \A i \in 1 .. n : argv[i] \in ArgvWord
  BY ElementOfSeq, LenProperties DEF ArgvOK
<1>3. SubSeq(argv, 1, cmd - 1) \in Seq(NoDash)
  <2>1. ASSUME NEW i \in 1 .. (cmd - 1) PROVE argv[i] \in NoDash
    <3>1. i \in 1 .. n /\ \A j \in 1 .. i : j \in 1 .. (cmd - 1)
      BY <1>1, <1>2 DEF Divided
    <3>2. \A j \in 1 .. i : argv[j] \notin Plain
      BY <1>1, <3>1 DEF Divided
    <3> QED BY <1>2, <3>1, <3>2 DEF ArgvOK, NoDash
  <2>2. 1 \in Int /\ cmd - 1 \in Int
    OBVIOUS
  <2> QED BY <2>1, <2>2, SubSeqProperties
<1>4. SubSeq(argv, cmd + 1, pat - 1) \in Seq(NoDash)
  <2>1. ASSUME NEW i \in (cmd + 1) .. (pat - 1) PROVE argv[i] \in NoDash
    <3>1. i \in 1 .. n
      BY <1>1, <1>2 DEF Divided
    <3>2. argv[i] # "--"
      BY <1>1 DEF Divided
    <3> QED BY <1>2, <3>1, <3>2 DEF NoDash
  <2>2. cmd + 1 \in Int /\ pat - 1 \in Int
    OBVIOUS
  <2> QED BY <2>1, <2>2, SubSeqProperties
<1>5. CommandOf(argv) \in Seq(NoDash)
  <2>1. CASE cmd <= n
    <3>1. cmd \in 1 .. n /\ argv[cmd] \in Plain
      BY <1>1, <1>2, <2>1 DEF Divided
    <3>2. "--" \notin Plain
      BY WrapperArgsAssumption DEF Plain
    <3>3. argv[cmd] \in NoDash
      BY <1>2, <3>1, <3>2 DEF NoDash
    <3> QED BY <1>1, <2>1, <3>3
  <2>2. CASE ~(cmd <= n)
    BY <1>1, <2>2
  <2> QED BY <2>1, <2>2
<1>6. /\ TargetPatterns(argv) \in Seq(ArgvWord)
      /\ TargetPatterns(argv) = <<>> \/ TargetPatterns(argv)[1] = "--"
  <2>1. pat \in 1 .. (n + 1) /\ n \in (pat - 1) .. n
    BY <1>1, <1>2 DEF Divided
  <2>2. /\ SubSeq(argv, pat, n) \in Seq(ArgvWord)
        /\ Len(SubSeq(argv, pat, n)) = n - pat + 1
        /\ \A j \in 1 .. (n - pat + 1) : SubSeq(argv, pat, n)[j] = argv[pat + j - 1]
    BY <2>1, PartIs DEF ArgvOK
  <2>3. CASE pat <= n
    <3>1. 1 \in 1 .. (n - pat + 1) /\ pat + 1 - 1 = pat
      BY <1>2, <2>1, <2>3
    <3>2. argv[pat] = "--"
      BY <1>1, <2>3 DEF Divided
    <3> QED BY <1>1, <2>2, <3>1, <3>2
  <2>4. CASE ~(pat <= n)
    <3>1. n < pat /\ n \in Int /\ pat \in Int
      BY <1>2, <2>1, <2>4
    <3> HIDE DEF n
    <3>2. SubSeq(argv, pat, n) = <<>>
      BY <3>1, SubSeqEmpty
    <3> QED BY <1>1, <2>2, <3>2 DEF n
  <2> QED BY <2>3, <2>4
<1>7. StartupParser \in Parser /\ CommandParser \in Parser
  BY DEF Parser
<1>8. KnownStartup(argv).rest \in Seq(NoDash)
  BY <1>1, <1>3, <1>7, ParseType DEF KnownStartup
<1>9. KnownArgs(argv).rest \in Seq(NoDash)
  BY <1>1, <1>4, <1>7, ParseType DEF KnownArgs
<1> QED BY <1>5, <1>6, <1>8, <1>9

\* The words in front of and behind the user's options: of those that name a file of the
\* generated directory, the wrapper has written the file.
Frame(s) == {w \in Added : \A rc \in Rc : w = GenRc[rc] => rc \in s}

\* The files written for a command line, unless it asks for help.
WrittenFor(help, hermetic, top) == IF help THEN {} ELSE RcWritten(hermetic, top)

\* Words between others.
Surrounded(t, rest, s) == \E pre \in Seq(s), post \in Seq(s) : t = (pre \o rest) \o post

\* The startup options, around those of the user.
LEMMA StartupIs ==
  ASSUME NEW X, NEW rest \in Seq(X), NEW help \in BOOLEAN, NEW hermetic \in BOOLEAN, NEW top \in BOOLEAN
  PROVE  Surrounded(TransformedStartup(help, rest, hermetic, top), rest,
                    Frame(WrittenFor(help, hermetic, top)))
<1> DEFINE w == WrittenFor(help, hermetic, top)
<1>1. CASE help
  <2>1. "--help" \in Frame(w)
    BY AddedFacts DEF Frame, Added
  <2>2. <<"--help">> \in Seq(Frame(w)) /\ <<>> \in Seq(Frame(w))
    BY <2>1
  <2>3. rest \in Seq(X \cup {"--help"}) /\ <<"--help">> \in Seq(X \cup {"--help"})
    BY SeqMonotonic
  <2>4. (<<"--help">> \o rest) \o <<>> = <<"--help">> \o rest
    <3>1. <<"--help">> \o rest \in Seq(X \cup {"--help"})
      BY <2>3, ConcatProperties
    <3> QED BY <3>1, ConcatEmptySeq
  <2>5. TransformedStartup(help, rest, hermetic, top) = <<"--help">> \o rest
    BY <1>1 DEF TransformedStartup
  <2> HIDE DEF w
  <2>6. Surrounded(TransformedStartup(help, rest, hermetic, top), rest, Frame(w))
    BY <2>2, <2>4, <2>5 DEF Surrounded
  <2> QED BY <2>6 DEF w
<1>2. CASE ~help
  <2> DEFINE rcs == RcOrder(hermetic)
             written == RcWritten(hermetic, top)
             opts == [i \in DOMAIN rcs |-> RcOption(rcs[i], written)]
             pre == <<"--host_jvm_args=-Djava.io.tmpdir=">> \o opts
             post == <<"--output_user_root=">>
  <2>1. rcs \in Seq(Rc)
    <3>1. /\ <<"configs", "stamp", "stamp_extra", "release", "cache_dir">> \in Seq(Rc)
          /\ <<"hermetic_actions">> \in Seq(Rc) /\ <<"toolchains", "network", "common">> \in Seq(Rc)
          /\ <<>> \in Seq(Rc)
      BY AddedFacts
    <3> QED BY <3>1, ConcatProperties DEF RcOrder
  <2>2. w = written
    BY <1>2 DEF WrittenFor
  <2> HIDE DEF rcs, written, w
  <2>3. \A rc \in Rc : RcOption(rc, written) \in Frame(w)
    BY <2>2, AddedFacts DEF RcOption, Frame
  <2>4. opts \in Seq(Frame(w))
    <3>1. DOMAIN rcs = 1 .. Len(rcs) /\ Len(rcs) \in Nat /\ \A i \in 1 .. Len(rcs) : rcs[i] \in Rc
      BY <2>1, LenProperties, ElementOfSeq
    <3> QED BY <2>3, <3>1
  <2>5. /\ <<"--host_jvm_args=-Djava.io.tmpdir=">> \in Seq(Frame(w))
        /\ <<"--output_user_root=">> \in Seq(Frame(w))
    <3>1. "--host_jvm_args=-Djava.io.tmpdir=" \in Frame(w) /\ "--output_user_root=" \in Frame(w)
      BY AddedFacts DEF Frame, Added
    <3> QED BY <3>1
  <2>6. pre \in Seq(Frame(w)) /\ post \in Seq(Frame(w))
    <3> HIDE DEF opts
    <3> QED BY <2>4, <2>5, ConcatProperties
  <2>7. TransformedStartup(help, rest, hermetic, top)
          = <<"--host_jvm_args=-Djava.io.tmpdir=">> \o opts \o rest \o <<"--output_user_root=">>
    BY <1>2 DEF TransformedStartup, rcs, written
  <2>8. TransformedStartup(help, rest, hermetic, top) = (pre \o rest) \o post
    <3> DEFINE Y == Frame(w) \cup X
    <3>1. /\ <<"--host_jvm_args=-Djava.io.tmpdir=">> \in Seq(Y) /\ opts \in Seq(Y)
          /\ rest \in Seq(Y) /\ post \in Seq(Y)
      <4> HIDE DEF opts
      <4> QED BY <2>4, <2>5, SeqMonotonic
    <3> HIDE DEF opts, Y
    <3> QED BY <2>7, <3>1, ConcatAssociative, ConcatProperties
  <2> HIDE DEF pre, post
  <2>9. Surrounded(TransformedStartup(help, rest, hermetic, top), rest, Frame(w))
    BY <2>6, <2>8 DEF Surrounded
  <2> QED BY <2>9 DEF w
<1> QED BY <1>1, <1>2

\* What the wrapper's options stand for comes after the words left over.
LEMMA ArgsAre ==
  ASSUME NEW k, NEW X, k.rest \in Seq(X), NEW tty \in BOOLEAN
  PROVE  \E c \in Seq(Frame({})) : TransformedArgs(k, tty) = k.rest \o c
<1> DEFINE c1 == IF StripsExecroot(k) /\ tty THEN <<"--color=yes">> ELSE <<>>
           c2 == IF Given(k, "--use_prebuilt_gki")
                 THEN <<"--use_prebuilt_gki", "--config=internet">> ELSE <<>>
           Y == X \cup Frame({})
<1>1. {"--color=yes", "--use_prebuilt_gki", "--config=internet"} \subseteq Frame({})
  BY AddedFacts DEF Frame, Added
<1>2. c1 \in Seq(Frame({})) /\ c2 \in Seq(Frame({}))
  BY <1>1
<1>3. TransformedArgs(k, tty) = k.rest \o c1 \o c2
  BY DEF TransformedArgs
<1> HIDE DEF c1, c2
<1>4. k.rest \in Seq(Y) /\ c1 \in Seq(Y) /\ c2 \in Seq(Y)
  BY <1>2, SeqMonotonic
<1>5. (k.rest \o c1) \o c2 = k.rest \o (c1 \o c2)
  <2> DEFINE r == k.rest
  <2>1. r \in Seq(Y)
    BY <1>4
  <2> HIDE DEF r, Y
  <2>2. (r \o c1) \o c2 = r \o (c1 \o c2)
    BY <1>4, <2>1, ConcatAssociative
  <2> QED BY <2>2 DEF r
<1>6. c1 \o c2 \in Seq(Frame({}))
  BY <1>2, ConcatProperties
<1> QED BY <1>3, <1>5, <1>6

-----------------------------------------------------------------------------
(* The invariant of an invocation *)

\* The startup options are those of this command line, and the files they name are there.
StartupMade ==
  \E help, hermetic, top \in BOOLEAN :
     /\ startup = TransformedStartup(help, KnownStartup(argv).rest, hermetic, top)
     /\ ~help => RcWritten(hermetic, top) \subseteq rcFiles

\* Once parsed, no word was refused.
ParsedRight ==
  argsAt \in {"parsed", "ready"} =>
    /\ known.args = KnownArgs(argv)
    /\ ~Rejected(KnownStartup(argv)) /\ ~Rejected(KnownArgs(argv))
    /\ StartupMade

\* The command line of Bazel.
FinalRight ==
  argsAt = "ready" => \E tty \in BOOLEAN :
    final = startup \o CommandAndArgs(argv, TransformedArgs(KnownArgs(argv), tty))
            \o TargetPatterns(argv)

\* The files it names are there.
NamedFiles ==
  argsAt \in {"ready", "execed", "child"} =>
    \A i \in DOMAIN final : \A rc \in Rc : final[i] = GenRc[rc] => rc \in rcFiles

\* The directories, which only `clean` removes, and only as the parent of Bazel.
DirsRight ==
  /\ argsAt \in {"new", "parsed", "ready", "execed", "child", "ended"}
  /\ outDirs \subseteq {"cache", "path"}
  /\ argsAt \in {"ready", "execed", "child"} => (("cache" \in outDirs) <=> CommandOf(argv) # <<"clean">>)
  /\ argsAt = "execed" => CommandOf(argv) # <<"clean">>
  /\ argsAt = "ended" /\ exitCode = 0 /\ CommandOf(argv) = <<"clean">> =>
       rcFiles = {} /\ outDirs = {}

\* The inductive invariant of an invocation of the wrapper.
ArgsInv == ArgvOK /\ ParsedRight /\ FinalRight /\ NamedFiles /\ DirsRight

\* A command line of words comes as "--" after its command only.
LEMMA ArgsStart == ArgsInit => ArgsInv
<1> SUFFICES ASSUME ArgsInit PROVE ArgsInv
  OBVIOUS
<1>1. \A S, m : m \in Nat => \A s \in BoundedSeq(S, m) : s \in Seq(S)
  BY DEF BoundedSeq, SeqOf
<1>2. ArgvOK
  <2>1. ASSUME NEW s \in Seq(StartupWord)
        PROVE  /\ s \in Seq(ArgvWord) /\ \A j \in 1 .. Len(s) : s[j] # "--"
    <3>1. s \in Seq(ArgvWord)
      BY SeqMonotonic DEF ArgvWord
    <3> QED BY <3>1, ElementOfSeq, WrapperArgsAssumption
  <2>2. CASE \E s \in BoundedSeq(StartupWord, MaxStartup) : argv = s
    <3>1. argv \in Seq(StartupWord)
      BY <1>1, <2>2, WrapperArgsAssumption
    <3> QED BY <2>1, <3>1 DEF ArgvOK
  <2>3. CASE \E s \in BoundedSeq(StartupWord, MaxStartup) :
                \E c \in Command, r \in BoundedSeq(ArgWord, MaxArgs) : argv = s \o <<c>> \o r
    <3>1. PICK s \in Seq(StartupWord), c \in Command, r \in Seq(ArgWord) : argv = s \o <<c>> \o r
      BY <1>1, <2>3, WrapperArgsAssumption
    <3>2. s \in Seq(ArgvWord) /\ <<c>> \in Seq(ArgvWord) /\ r \in Seq(ArgvWord)
      <4>1. c \in ArgvWord
        BY DEF ArgvWord
      <4>2. r \in Seq(ArgvWord)
        BY SeqMonotonic DEF ArgvWord
      <4> QED BY <2>1, <4>1, <4>2
    <3> DEFINE m == Len(s)  x == s \o <<c>>
    <3>3. /\ x \in Seq(ArgvWord) /\ Len(x) = m + 1 /\ m \in Nat
          /\ (\A i \in 1 .. m : x[i] = s[i]) /\ x[m + 1] = c
      BY <3>2
    <3> HIDE DEF x
    <3>4. /\ argv \in Seq(ArgvWord) /\ Len(argv) >= m + 1
          /\ \A i \in 1 .. (m + 1) : argv[i] = x[i]
      BY <3>1, <3>2, <3>3 DEF x
    <3>5. ASSUME NEW j \in 1 .. Len(argv), \A i \in 1 .. j : argv[i] \notin Plain
          PROVE  argv[j] # "--"
      <4>1. argv[m + 1] \in Plain
        BY <3>3, <3>4 DEF Plain
      <4>2. j \in 1 .. m
        BY <3>3, <3>4, <3>5, <4>1
      <4>3. argv[j] = s[j]
        BY <3>3, <3>4, <4>2
      <4> QED BY <2>1, <4>2, <4>3
    <3> QED BY <3>4, <3>5 DEF ArgvOK
  <2> QED BY <2>2, <2>3 DEF ArgsInit
<1> QED BY <1>2 DEF ArgsInit, ArgsInv, ParsedRight, FinalRight, NamedFiles, DirsRight

\* Of the words of Bazel's command line, those that name generated files are the wrapper's.
LEMMA FinalNames ==
  ASSUME ArgvOK, StartupMade, NEW tty \in BOOLEAN
  PROVE  LET f == startup \o CommandAndArgs(argv, TransformedArgs(KnownArgs(argv), tty))
                  \o TargetPatterns(argv) IN
         \A i \in DOMAIN f : \A rc \in Rc : f[i] = GenRc[rc] => rc \in rcFiles
<1> DEFINE args == TransformedArgs(KnownArgs(argv), tty)
           query == {"query", "--keep_going", "--ui_event_filters=-error", "--noshow_progress",
                     "kind(kernel_build)"}
           Y == ArgvWord \cup Frame(rcFiles) \cup query
           x == CommandAndArgs(argv, args)
           f == startup \o x \o TargetPatterns(argv)
<1>1. \A w \in Y : \A rc \in Rc : w = GenRc[rc] => rc \in rcFiles
  <2>1. \A w \in ArgvWord : \A rc \in Rc : w # GenRc[rc]
    BY WrapperArgsAssumption DEF ArgvWord
  <2>2. \A w \in query : \A rc \in Rc : w # GenRc[rc]
    BY AddedFacts
  <2>3. \A w \in Frame(rcFiles) : \A rc \in Rc : w = GenRc[rc] => rc \in rcFiles
    BY DEF Frame
  <2> HIDE DEF query
  <2> QED BY <2>1, <2>2, <2>3
<1>2. NoDash \subseteq Y /\ ArgvWord \subseteq Y /\ Frame({}) \subseteq Y /\ query \subseteq Y
  BY DEF NoDash, Frame
<1>3. startup \in Seq(Y)
  <2>1. PICK help, hermetic, top \in BOOLEAN :
           /\ startup = TransformedStartup(help, KnownStartup(argv).rest, hermetic, top)
           /\ ~help => RcWritten(hermetic, top) \subseteq rcFiles
    BY DEF StartupMade
  <2> DEFINE w == WrittenFor(help, hermetic, top)
             rest == KnownStartup(argv).rest
  <2>2. rest \in Seq(NoDash)
    BY PartsTyped
  <2> HIDE DEF rest
  <2>c. help \in BOOLEAN /\ hermetic \in BOOLEAN /\ top \in BOOLEAN
    BY <2>1
  <2>a. Surrounded(TransformedStartup(help, rest, hermetic, top), rest, Frame(w))
    BY <2>2, <2>c, StartupIs
  <2>b. startup = TransformedStartup(help, rest, hermetic, top)
    BY <2>1 DEF rest
  <2>3. PICK pre \in Seq(Frame(w)), post \in Seq(Frame(w)) : startup = (pre \o rest) \o post
    BY <2>a, <2>b DEF Surrounded
  <2>4. Frame(w) \subseteq Y
    BY <2>1 DEF Frame, WrittenFor
  <2> HIDE DEF Y, w
  <2>5. pre \in Seq(Y) /\ post \in Seq(Y) /\ rest \in Seq(Y)
    BY <1>2, <2>2, <2>4, SeqMonotonic
  <2> QED BY <2>3, <2>5, ConcatProperties
<1>4. args \in Seq(Y)
  <2> DEFINE r == KnownArgs(argv).rest
  <2>1. r \in Seq(NoDash)
    BY PartsTyped
  <2>2. PICK c \in Seq(Frame({})) : args = r \o c
    BY <2>1, ArgsAre
  <2> HIDE DEF r, Y, args
  <2>3. r \in Seq(Y) /\ c \in Seq(Y)
    BY <1>2, <2>1, SeqMonotonic
  <2> QED BY <2>2, <2>3, ConcatProperties
<1>5. x \in Seq(Y)
  <2>1. CommandOf(argv) \in Seq(Y)
    <3> HIDE DEF Y
    <3> QED BY <1>2, PartsTyped, SeqMonotonic
  <2>2. <<"query", "--keep_going", "--ui_event_filters=-error", "--noshow_progress",
          "kind(kernel_build)">> \in Seq(Y)
    OBVIOUS
  <2>3. CommandOf(argv) \o args \in Seq(Y)
    <3> HIDE DEF Y, args
    <3> QED BY <1>4, <2>1, ConcatProperties
  <2> HIDE DEF Y, args
  <2> QED BY <2>2, <2>3 DEF CommandAndArgs
<1>6. TargetPatterns(argv) \in Seq(Y)
  <2> HIDE DEF Y
  <2> QED BY <1>2, PartsTyped, SeqMonotonic
<1> HIDE DEF Y, x
<1>7. f \in Seq(Y)
  <2>1. startup \o x \in Seq(Y)
    BY <1>3, <1>5, ConcatProperties
  <2> QED BY <1>6, <2>1, ConcatProperties
<1> HIDE DEF f
<1>8. \A i \in DOMAIN f : f[i] \in Y
  BY <1>7, LenProperties, ElementOfSeq
<1>9. \A i \in DOMAIN f : \A rc \in Rc : f[i] = GenRc[rc] => rc \in rcFiles
  BY <1>1, <1>8
<1> QED BY <1>9 DEF f, x, args

\* Every step keeps the invariant.
LEMMA ArgsKeepInv ==
  ASSUME ArgsInv, [ArgsNext]_argsVars
  PROVE  ArgsInv'
<1>1. CASE NoWorkspace
  BY <1>1 DEF NoWorkspace, EndArgs, ArgsInv, ArgvOK, ParsedRight, FinalRight, NamedFiles, DirsRight
<1>2. CASE Construct
  <2> DEFINE s == KnownStartup(argv)
             k == KnownArgs(argv)
             help == Given(s, "--help")
             hermetic == HermeticActions(k)
  <2>1. CASE Rejected(s) \/ Rejected(k)
    <3>1. argsAt' = "ended" /\ exitCode' = 2 /\ UNCHANGED <<argv, rcFiles, outDirs>>
      BY <1>2, <2>1 DEF Construct, EndArgs
    <3> QED BY <3>1 DEF ArgsInv, ArgvOK, ParsedRight, FinalRight, NamedFiles, DirsRight
  <2>2. CASE ~(Rejected(s) \/ Rejected(k))
    <3>1. PICK top \in BOOLEAN :
              /\ argsAt' = "parsed" /\ UNCHANGED exitCode
              /\ known' = [startup |-> s.known, args |-> k]
              /\ startup' = TransformedStartup(help, s.rest, hermetic, top)
              /\ rcFiles' = IF help THEN rcFiles ELSE rcFiles \cup RcWritten(hermetic, top)
              /\ outDirs' = outDirs \cup IF hermetic THEN {"path"} ELSE {}
      BY <1>2, <2>2 DEF Construct
    <3>2. argv' = argv
      BY <1>2 DEF Construct
    <3>3. help \in BOOLEAN /\ hermetic \in BOOLEAN
      BY DEF Given, Contains, HermeticActions, SwitchedOn
    <3>4. StartupMade'
      <4> HIDE DEF help, hermetic
      <4> QED BY <3>1, <3>2, <3>3 DEF StartupMade
    <3>5. ParsedRight'
      BY <2>2, <3>1, <3>2, <3>4 DEF ParsedRight
    <3>6. outDirs' \subseteq {"cache", "path"}
      BY <3>1 DEF ArgsInv, DirsRight
    <3> QED BY <3>1, <3>2, <3>5, <3>6 DEF ArgsInv, ArgvOK, FinalRight, NamedFiles, DirsRight
  <2> QED BY <2>1, <2>2
<1>3. CASE BuildFinalArgs
  <2>1. /\ argsAt = "parsed" /\ argsAt' = "ready"
        /\ UNCHANGED <<argv, known, startup, rcFiles, exitCode>>
    BY <1>3 DEF BuildFinalArgs
  <2>2. known.args = KnownArgs(argv) /\ StartupMade /\ ArgvOK
    BY <2>1 DEF ArgsInv, ParsedRight
  <2>3. PICK tty \in BOOLEAN :
           final' = startup \o CommandAndArgs(argv, TransformedArgs(KnownArgs(argv), tty))
                    \o TargetPatterns(argv)
    BY <1>3, <2>2 DEF BuildFinalArgs
  <2>4. \A i \in DOMAIN final' : \A rc \in Rc : final'[i] = GenRc[rc] => rc \in rcFiles
    BY <2>2, <2>3, FinalNames
  <2>5. FinalRight'
    BY <2>1, <2>3 DEF FinalRight
  <2>6. NamedFiles'
    BY <2>1, <2>4 DEF NamedFiles
  <2>7. ParsedRight'
    BY <2>1 DEF ArgsInv, ParsedRight, StartupMade
  <2>8. outDirs' = IF CommandOf(argv) = <<"clean">> THEN outDirs \ {"cache"} ELSE outDirs \cup {"cache"}
    BY <1>3 DEF BuildFinalArgs
  <2>9. DirsRight'
    BY <2>1, <2>8 DEF ArgsInv, DirsRight
  <2> QED BY <2>1, <2>2, <2>5, <2>6, <2>7, <2>9 DEF ArgsInv, ArgvOK
<1>4. CASE StartBazel
  <2>1. argsAt = "ready" /\ UNCHANGED <<argv, known, startup, final, rcFiles, outDirs>>
    BY <1>4 DEF StartBazel
  <2>2. ArgvOK' /\ ParsedRight' /\ FinalRight' /\ NamedFiles' /\ argsAt' \in {"ended", "execed", "child"}
    BY <1>4, <2>1 DEF StartBazel, EndArgs, ArgsInv, ArgvOK, ParsedRight, FinalRight, NamedFiles
  <2>3. argsAt' = "execed" => CommandOf(argv) # <<"clean">>
    BY <1>4 DEF StartBazel, ShouldRunAsSubprocess, EndArgs
  <2>4. argsAt' = "ended" => CommandOf(argv) # <<"clean">>
    <3>1. <<"help">> # <<"clean">>
      <4>1. <<"help">>[1] # <<"clean">>[1]
        OBVIOUS
      <4> QED BY <4>1
    <3>2. argsAt' = "ended" => CommandOf(argv) = <<"help">>
      BY <1>4 DEF StartBazel, AsksForKleaf, EndArgs
    <3> QED BY <3>1, <3>2
  <2>5. DirsRight'
    BY <2>1, <2>2, <2>3, <2>4 DEF ArgsInv, DirsRight
  <2> QED BY <2>2, <2>5 DEF ArgsInv
<1>5. CASE ExecedEnds
  BY <1>5 DEF ExecedEnds, EndArgs, ArgsInv, ArgvOK, ParsedRight, FinalRight, NamedFiles, DirsRight
<1>6. CASE ChildEnds
  <2>1. argsAt = "child" /\ argsAt' = "ended" /\ UNCHANGED argv
    BY <1>6 DEF ChildEnds, EndArgs
  <2>2. ArgvOK' /\ ParsedRight' /\ FinalRight' /\ NamedFiles'
    BY <2>1 DEF ArgsInv, ArgvOK, ParsedRight, FinalRight, NamedFiles
  <2>3. CASE CommandOf(argv) = <<"clean">> /\ Contains(known.startup, "--help")
    <3>1. exitCode' = 1 /\ outDirs' = outDirs
      BY <1>6, <2>3 DEF ChildEnds, EndArgs
    <3>2. DirsRight'
      BY <2>1, <3>1 DEF ArgsInv, DirsRight
    <3> QED BY <2>2, <3>2 DEF ArgsInv
  <2>4. CASE CommandOf(argv) = <<"clean">> /\ ~Contains(known.startup, "--help")
    <3>1. rcFiles' = {} /\ outDirs' = outDirs \ {"path"}
      BY <1>6, <2>4 DEF ChildEnds
    <3>2. outDirs' = {}
      BY <2>1, <2>4, <3>1 DEF ArgsInv, DirsRight
    <3>3. DirsRight'
      BY <2>1, <3>1, <3>2 DEF DirsRight
    <3> QED BY <2>2, <3>3 DEF ArgsInv
  <2>5. CASE CommandOf(argv) # <<"clean">>
    <3>1. outDirs' = outDirs
      BY <1>6, <2>5 DEF ChildEnds
    <3>2. DirsRight'
      BY <2>1, <2>5, <3>1 DEF ArgsInv, DirsRight
    <3> QED BY <2>2, <3>2 DEF ArgsInv
  <2> QED BY <2>3, <2>4, <2>5
<1>7. CASE UNCHANGED argsVars
  BY <1>7 DEF argsVars, ArgsInv, ArgvOK, ParsedRight, StartupMade, FinalRight, NamedFiles, DirsRight
<1> QED BY <1>1, <1>2, <1>3, <1>4, <1>5, <1>6, <1>7 DEF ArgsNext

\* The invariant holds in every state.
THEOREM ArgsInvariant == ArgsSpec => []ArgsInv
<1> QED BY ArgsStart, ArgsKeepInv, PTL DEF ArgsSpec

\* The files and directories a command line names, and those `clean` leaves.
THEOREM OutDirsAreRight == ArgsSpec => []OutDirsRight
<1>1. ArgsInv => OutDirsRight
  BY DEF ArgsInv, NamedFiles, DirsRight, OutDirsRight
<1> QED BY <1>1, ArgsInvariant, PTL

-----------------------------------------------------------------------------
(* The user's words on the command line of Bazel *)

\* The words of s are the first words of t.
Begins(s, t) == Len(s) <= Len(t) /\ \A i \in 1 .. Len(s) : s[i] = t[i]

\* A prefix, word by word.
LEMMA PrefixIs ==
  ASSUME NEW S, NEW s \in Seq(S), NEW t \in Seq(S)
  PROVE  IsPrefix(s, t) <=> Begins(s, t)
<1> DEFINE x == SubSeq(s, 1, Len(s))  y == SubSeq(t, 1, Len(s))
<1>1. Len(s) \in Nat /\ Len(t) \in Nat
  BY LenProperties
<1>2. CASE Len(s) <= Len(t)
  <2>1. /\ 1 \in 1 .. (Len(s) + 1) /\ Len(s) \in (1 - 1) .. Len(s)
        /\ 1 \in 1 .. (Len(t) + 1) /\ Len(s) \in (1 - 1) .. Len(t)
        /\ Len(s) - 1 + 1 = Len(s) /\ \A i \in 1 .. Len(s) : 1 + i - 1 = i
    BY <1>1, <1>2
  <2>2. x \in Seq(S) /\ Len(x) = Len(s) /\ \A i \in 1 .. Len(s) : x[i] = s[i]
    BY <2>1, PartIs
  <2>3. y \in Seq(S) /\ Len(y) = Len(s) /\ \A i \in 1 .. Len(s) : y[i] = t[i]
    BY <2>1, PartIs
  <2>4. IsPrefix(s, t) <=> x = y
    BY <1>2 DEF IsPrefix
  <2> HIDE DEF x, y
  <2>5. x = y <=> \A i \in 1 .. Len(s) : s[i] = t[i]
    BY <2>2, <2>3, SeqEqual
  <2> QED BY <1>2, <2>4, <2>5 DEF Begins
<1>3. CASE ~(Len(s) <= Len(t))
  BY <1>3 DEF IsPrefix, Begins
<1> QED BY <1>2, <1>3

\* What the wrapper adds does not ask for the targets.
LEMMA NotTargets ==
  ASSUME NEW a, NEW X, NEW r \in Seq(X), NEW c \in Seq(Added), ~AsksForTargets(a, r)
  PROVE  ~AsksForTargets(a, r \o c)
<1> DEFINE S == X \cup Added \cup {"kleaf", "targets"}
           y == r \o c
           kt == <<"kleaf", "targets">>
           kl == <<"kleaf">>
<1>1. X \subseteq S /\ Added \subseteq S /\ kt \in Seq(S) /\ kl \in Seq(S)
      /\ Len(kt) = 2 /\ kt[1] = "kleaf" /\ kt[2] = "targets" /\ Len(kl) = 1 /\ kl[1] = "kleaf"
  OBVIOUS
<1> HIDE DEF S, kt, kl
<1>2. r \in Seq(S) /\ c \in Seq(S) /\ Len(r) \in Nat /\ Len(c) \in Nat
  BY <1>1, SeqMonotonic, LenProperties
<1>3. /\ y \in Seq(S) /\ Len(y) = Len(r) + Len(c)
      /\ \A i \in 1 .. (Len(r) + Len(c)) : y[i] = IF i <= Len(r) THEN r[i] ELSE c[i - Len(r)]
  BY <1>2, ConcatProperties
<1>4. \A i \in 1 .. Len(c) : c[i] # "kleaf" /\ c[i] # "targets"
  BY AddedFacts, ElementOfSeq
<1> HIDE DEF y
<1> SUFFICES ASSUME IsPrefix(kl, y), IsPrefix(kt, y)
             PROVE  IsPrefix(kl, r) /\ IsPrefix(kt, r)
  BY DEF AsksForTargets, AsksForKleaf, y, kl, kt
<1>5. Len(y) >= 2 /\ y[1] = "kleaf" /\ y[2] = "targets"
  <2>1. Len(kt) <= Len(y) /\ \A i \in 1 .. Len(kt) : kt[i] = y[i]
    <3>1. kt \in Seq(S) /\ y \in Seq(S)
      BY <1>1, <1>3
    <3>2. IsPrefix(kt, y) <=> Begins(kt, y)
      BY <3>1, PrefixIs
    <3> QED BY <3>2 DEF Begins
  <2>2. 1 \in 1 .. Len(kt) /\ 2 \in 1 .. Len(kt)
    BY <1>1
  <2> QED BY <1>1, <1>2, <1>3, <2>1, <2>2
<1>6. Len(r) >= 2
  <2> SUFFICES ASSUME Len(r) < 2 PROVE FALSE
    BY <1>2
  <2>1. 2 - Len(r) \in 1 .. Len(c) /\ 2 \in 1 .. (Len(r) + Len(c))
    BY <1>2, <1>3, <1>5
  <2>2. c[2 - Len(r)] = "targets"
    BY <1>2, <1>3, <1>5, <2>1
  <2> QED BY <1>4, <2>1, <2>2
<1>7. r[1] = "kleaf" /\ r[2] = "targets"
  BY <1>2, <1>3, <1>5, <1>6
<1>8. IsPrefix(kt, r) <=> Begins(kt, r)
  <2>1. kt \in Seq(S) /\ r \in Seq(S)
    BY <1>1, <1>2
  <2> QED BY <2>1, PrefixIs
<1>9. IsPrefix(kl, r) <=> Begins(kl, r)
  BY <1>1, <1>2, PrefixIs
<1>10. /\ Len(kt) <= Len(r) /\ Len(kl) <= Len(r)
       /\ \A i \in 1 .. Len(kt) : kt[i] = r[i]
       /\ \A i \in 1 .. Len(kl) : kl[i] = r[i]
  BY <1>1, <1>2, <1>6, <1>7
<1> QED BY <1>8, <1>9, <1>10 DEF Begins

\* At most words the wrapper adds are between the user's.
LEMMA NotAddedBetween ==
  ASSUME NEW S, NEW pre \in Seq(Added), NEW s \in Seq(S), NEW post \in Seq(Added),
         NEW m \in Seq(S), NEW c \in Seq(Added)
  PROVE  NotAdded(((pre \o s) \o post) \o (m \o c)) = NotAdded(s \o m)
<1> DEFINE Y == S \cup Added
<1>1. S \subseteq Y /\ Added \subseteq Y
  OBVIOUS
<1> HIDE DEF Y
<1>2. pre \in Seq(Y) /\ s \in Seq(Y) /\ post \in Seq(Y) /\ m \in Seq(Y) /\ c \in Seq(Y)
  BY <1>1, SeqMonotonic
<1>3. NotAdded(pre) = <<>> /\ NotAdded(post) = <<>> /\ NotAdded(c) = <<>>
  BY NotAddedType
<1>4. NotAdded(s) \in Seq(Y) /\ NotAdded(m) \in Seq(Y)
  BY <1>2, NotAddedType
<1>5. <<>> \o NotAdded(s) = NotAdded(s) /\ NotAdded(s) \o <<>> = NotAdded(s)
      /\ NotAdded(m) \o <<>> = NotAdded(m)
  BY <1>4, ConcatEmptySeq
<1> DEFINE u == pre \o s  v == u \o post  e == m \o c
<1>6. u \in Seq(Y) /\ NotAdded(u) = NotAdded(pre) \o NotAdded(s)
  BY <1>2, NotAddedJoins, ConcatProperties
<1>7. e \in Seq(Y) /\ NotAdded(e) = NotAdded(m) \o NotAdded(c)
  BY <1>2, NotAddedJoins, ConcatProperties
<1> HIDE DEF u, e
<1>8. v \in Seq(Y) /\ NotAdded(v) = NotAdded(u) \o NotAdded(post)
  BY <1>2, <1>6, NotAddedJoins, ConcatProperties
<1> HIDE DEF v
<1>9. NotAdded(v \o e) = NotAdded(v) \o NotAdded(e)
  BY <1>7, <1>8, NotAddedJoins
<1>10. NotAdded(s \o m) = NotAdded(s) \o NotAdded(m)
  BY <1>2, NotAddedJoins
<1>11. NotAdded(v \o e) = NotAdded(s \o m)
  BY <1>3, <1>5, <1>6, <1>7, <1>8, <1>9, <1>10
<1> QED BY <1>11 DEF u, v, e

\* The user's words arrive at Bazel.
THEOREM ArgvIsKept == ArgsSpec => []ArgvKept
<1>1. ArgsInv => ArgvKept
  <2> SUFFICES ASSUME ArgsInv, argsAt = "ready", ~AsksForTargets(argv, known.args.rest)
               PROVE  /\ NotAdded(BeforeDashes(final)) = NotAdded(BeforeDashes(UsersWords(argv)))
                      /\ FromDashes(final) = FromDashes(UsersWords(argv))
    BY DEF ArgvKept
  <2> DEFINE s == KnownStartup(argv).rest
             k == KnownArgs(argv).rest
             cmd == CommandOf(argv)
             pat == TargetPatterns(argv)
  <2>1. /\ ArgvOK /\ known.args = KnownArgs(argv) /\ StartupMade
        /\ ~Rejected(KnownStartup(argv)) /\ ~Rejected(KnownArgs(argv))
    BY DEF ArgsInv, ParsedRight
  <2>2. PICK tty \in BOOLEAN :
           final = startup \o CommandAndArgs(argv, TransformedArgs(KnownArgs(argv), tty)) \o pat
    BY DEF ArgsInv, FinalRight
  <2>3. /\ s \in Seq(NoDash) /\ k \in Seq(NoDash) /\ cmd \in Seq(NoDash)
        /\ pat \in Seq(ArgvWord) /\ (pat = <<>> \/ pat[1] = "--")
    BY <2>1, PartsTyped
  <2>4. UsersWords(argv) = ((s \o cmd) \o k) \o pat
    BY <2>1, UsersWordsAre DEF ArgvOK
  <2> HIDE DEF s, cmd, pat
  <2>5. PICK pre \in Seq(Added), post \in Seq(Added) : startup = (pre \o s) \o post
    <3>1. PICK help, hermetic, top \in BOOLEAN :
             startup = TransformedStartup(help, s, hermetic, top)
      BY <2>1 DEF StartupMade, s
    <3>2. help \in BOOLEAN /\ hermetic \in BOOLEAN /\ top \in BOOLEAN
      BY <3>1
    <3> DEFINE w == WrittenFor(help, hermetic, top)
    <3>3. Surrounded(TransformedStartup(help, s, hermetic, top), s, Frame(w))
      BY <2>3, <3>2, StartupIs
    <3> HIDE DEF w
    <3>4. PICK pre \in Seq(Frame(w)), post \in Seq(Frame(w)) : startup = (pre \o s) \o post
      BY <3>1, <3>3 DEF Surrounded
    <3>5. Frame(w) \subseteq Added
      BY DEF Frame
    <3>6. pre \in Seq(Added) /\ post \in Seq(Added)
      BY <3>4, <3>5, SeqMonotonic
    <3> QED BY <3>4, <3>6
  <2>6. PICK c \in Seq(Added) : TransformedArgs(KnownArgs(argv), tty) = k \o c
    <3>1. tty \in BOOLEAN
      BY <2>2
    <3>2. PICK c \in Seq(Frame({})) : TransformedArgs(KnownArgs(argv), tty) = k \o c
      BY <2>3, <3>1, ArgsAre
    <3>3. Frame({}) \subseteq Added
      BY DEF Frame
    <3>4. c \in Seq(Added)
      BY <3>2, <3>3, SeqMonotonic
    <3> QED BY <3>2, <3>4
  <2>7. ~AsksForTargets(argv, k)
    BY <2>1
  <2> HIDE DEF k
  <2>8. CommandAndArgs(argv, TransformedArgs(KnownArgs(argv), tty)) = cmd \o (k \o c)
    <3>1. ~AsksForTargets(argv, k \o c)
      BY <2>3, <2>6, <2>7, NotTargets
    <3> QED BY <2>6, <3>1 DEF CommandAndArgs, cmd
  <2> DEFINE m == cmd \o k
             front == ((pre \o s) \o post) \o (m \o c)
             Y == NoDash \cup Added
  <2>9. NoDash \subseteq Y /\ Added \subseteq Y /\ "--" \notin Y
    BY AddedFacts DEF NoDash
  <2> HIDE DEF Y
  <2>10. /\ pre \in Seq(Y) /\ post \in Seq(Y) /\ c \in Seq(Y) /\ s \in Seq(Y) /\ cmd \in Seq(Y)
         /\ k \in Seq(Y)
    BY <2>3, <2>5, <2>6, <2>9, SeqMonotonic
  <2>11. cmd \o (k \o c) = m \o c /\ m \in Seq(Y)
    <3>1. (cmd \o k) \o c = cmd \o (k \o c)
      <4>1. cmd \in Seq(Y) /\ k \in Seq(Y) /\ c \in Seq(Y)
        BY <2>10
      <4>2. Joins(cmd, k, c)
        BY <4>1, JoinsEither
      <4> QED BY <4>2 DEF Joins
    <3>2. cmd \o k \in Seq(Y)
      BY <2>10, ConcatProperties
    <3> QED BY <3>1, <3>2
  <2>12. front \in Seq(Y) /\ final = front \o pat
    <3>1. final = ((pre \o s) \o post) \o (m \o c) \o pat
      BY <2>2, <2>5, <2>8, <2>11
    <3>2. pre \o s \in Seq(Y) /\ m \o c \in Seq(Y)
      BY <2>10, <2>11, ConcatProperties
    <3>3. (pre \o s) \o post \in Seq(Y)
      BY <2>10, <3>2, ConcatProperties
    <3>4. ((pre \o s) \o post) \o (m \o c) \in Seq(Y)
      BY <3>2, <3>3, ConcatProperties
    <3> QED BY <3>1, <3>4
  <2>13. m \in Seq(NoDash) /\ (s \o cmd) \o k = s \o m /\ s \o m \in Seq(Y)
    <3>1. cmd \o k \in Seq(NoDash)
      BY <2>3, ConcatProperties
    <3>2. (s \o cmd) \o k = s \o (cmd \o k)
      <4>1. s \in Seq(Y) /\ cmd \in Seq(Y) /\ k \in Seq(Y)
        BY <2>10
      <4>2. Joins(s, cmd, k)
        BY <4>1, JoinsEither
      <4> QED BY <4>2 DEF Joins
    <3>3. s \o m \in Seq(Y)
      <4> HIDE DEF m
      <4> QED BY <2>10, <2>11, ConcatProperties
    <3> QED BY <3>1, <3>2, <3>3
  <2>14. NotAdded(front) = NotAdded(s \o m)
    <3> HIDE DEF m
    <3> QED BY <2>3, <2>5, <2>6, <2>13, NotAddedBetween
  <2> HIDE DEF front, m
  <2>15. BeforeDashes(final) = front /\ FromDashes(final) = pat
    BY <2>3, <2>9, <2>12, DashSplit
  <2>16. BeforeDashes(UsersWords(argv)) = s \o m /\ FromDashes(UsersWords(argv)) = pat
    <3> DEFINE x == s \o m
    <3>1. UsersWords(argv) = x \o pat /\ x \in Seq(Y)
      BY <2>4, <2>13
    <3> HIDE DEF x
    <3>2. BeforeDashes(x \o pat) = x /\ FromDashes(x \o pat) = pat
      BY <2>3, <2>9, <3>1, DashSplit
    <3>3. BeforeDashes(UsersWords(argv)) = x /\ FromDashes(UsersWords(argv)) = pat
      BY <3>1, <3>2
    <3> QED BY <3>3 DEF x
  <2> QED BY <2>14, <2>15, <2>16
<1> QED BY <1>1, ArgsInvariant, PTL
=============================================================================
