------------------------------ MODULE BazelRun ------------------------------
(***************************************************************************)
(* The Bazel subprocess of the wrapper: BazelWrapper.run, OutputMutator and *)
(* the coroutine run of kleaf/bazel.py.  When an output filter or an        *)
(* allowlist is set, or the command is `clean`, the wrapper runs Bazel with *)
(* both output streams on pipes, pumps the two streams and waits for the    *)
(* process in three asyncio tasks, runs the epilog and turns what the tasks *)
(* raised into one exit code.                                              *)
(*                                                                         *)
(* Bazel writes a script of lines chosen at the start and blocks on a full  *)
(* pipe.  The event loop moves lines from a pipe to the buffer of the       *)
(* stream's reader until that is full, and tells the reader about the end.  *)
(***************************************************************************)
EXTENDS Integers, Sequences, FiniteSets

CONSTANTS
    Line,           \* kinds of lines Bazel may write, of {"ok", "bad", "long", "raw"}
    MaxScript,      \* bound: lines Bazel writes
    Code,           \* exit codes of Bazel
    PipeCap,        \* lines that fit in a pipe
    BufCap,         \* lines that fit in a reader's buffer
    Filter,         \* --strip_execroot is given
    Allowlist,      \* --stdout_stderr_regex_allowlist has at least one regex
    AllowsEmpty,    \* one of them matches the empty line
    IsClean         \* the command is `clean`

ASSUME BazelRunAssumption ==
    /\ Line \subseteq {"ok", "bad", "long", "raw"}
    /\ MaxScript \in Nat /\ Code \subseteq Nat
    /\ PipeCap \in Nat \ {0} /\ BufCap \in Nat \ {0}
    /\ {Filter, Allowlist, AllowsEmpty, IsClean} \subseteq BOOLEAN

Stream == {"out", "err"}

\* ok and bad lines are told apart by the allowlist; a long line exceeds the
\* reader's limit of 64 KiB; a raw line is not UTF-8.
Running   == -1
NoResult  == -1
Traceback == -2     \* an exception that BazelWrapper.run does not catch

VARIABLES
    script,     \* the <<stream, line>> pairs Bazel has not written yet
    child,      \* Running, or the exit code of Bazel
    pipe,       \* pipe[s]: lines in the pipe of s
    buf,        \* buf[s]: lines in the StreamReader of s
    eof,        \* eof[s]: the StreamReader of s was told of the end
    task,       \* task[s]: where mutate_stream is: "test", "read", "ended" or "died"
    unexpected, \* unexpected[s]: unexpected_line_count
    wrote,      \* wrote[s]: the lines passed on to the wrapper's own stream
    waited,     \* _wait_for_subprocess has ended
    epilog,     \* remove_gen_dirs has run
    result,     \* how BazelWrapper.run ended: an exit code or Traceback
    sent        \* history: sent[s] is every line Bazel wrote to s

vars == <<script, child, pipe, buf, eof, task, unexpected, wrote, waited, epilog, result, sent>>

Scripts == UNION {[1 .. n -> Stream \X Line] : n \in 0 .. MaxScript}

TypeOK ==
    /\ script \in Seq(Stream \X Line)
    /\ child \in Code \cup {Running}
    /\ pipe \in [Stream -> Seq(Line)] /\ buf \in [Stream -> Seq(Line)]
    /\ eof \in [Stream -> BOOLEAN]
    /\ task \in [Stream -> {"test", "read", "ended", "died"}]
    /\ unexpected \in [Stream -> Nat]
    /\ wrote \in [Stream -> Seq(Line)] /\ sent \in [Stream -> Seq(Line)]
    /\ waited \in BOOLEAN /\ epilog \in BOOLEAN
    /\ result \in Code \cup {1, NoResult, Traceback}

Init ==
    /\ script \in Scripts
    /\ child = Running
    /\ pipe = [s \in Stream |-> <<>>] /\ buf = [s \in Stream |-> <<>>]
    /\ eof = [s \in Stream |-> FALSE]
    /\ task = [s \in Stream |-> "test"]
    /\ unexpected = [s \in Stream |-> 0]
    /\ wrote = [s \in Stream |-> <<>>] /\ sent = [s \in Stream |-> <<>>]
    /\ waited = FALSE /\ epilog = FALSE
    /\ result = NoResult

-----------------------------------------------------------------------------
(* Bazel, the pipes and the event loop *)

ChildWrite ==
    /\ child = Running /\ script # <<>>
    /\ LET s == Head(script)[1]
           l == Head(script)[2] IN
       /\ Len(pipe[s]) < PipeCap
       /\ pipe' = [pipe EXCEPT ![s] = Append(@, l)]
       /\ sent' = [sent EXCEPT ![s] = Append(@, l)]
    /\ script' = Tail(script)
    /\ UNCHANGED <<child, buf, eof, task, unexpected, wrote, waited, epilog, result>>

ChildExit ==
    /\ child = Running /\ script = <<>>
    /\ child' \in Code
    /\ UNCHANGED <<script, pipe, buf, eof, task, unexpected, wrote, waited, epilog, result, sent>>

\* The transport pauses while the reader's buffer is full.
Feed(s) ==
    /\ pipe[s] # <<>> /\ Len(buf[s]) < BufCap
    /\ buf' = [buf EXCEPT ![s] = Append(@, Head(pipe[s]))]
    /\ pipe' = [pipe EXCEPT ![s] = Tail(@)]
    /\ UNCHANGED <<script, child, eof, task, unexpected, wrote, waited, epilog, result, sent>>

FeedEof(s) ==
    /\ child # Running /\ pipe[s] = <<>> /\ ~eof[s]
    /\ eof' = [eof EXCEPT ![s] = TRUE]
    /\ UNCHANGED <<script, child, pipe, buf, task, unexpected, wrote, waited, epilog, result, sent>>

-----------------------------------------------------------------------------
(* OutputMutator.mutate_stream *)

AtEof(s) == eof[s] /\ buf[s] = <<>>

\* Mutant: the streams are pumped one after the other.
TestStreamInTurn(s) ==
    /\ task[s] = "test"
    /\ s = "out" => task["err"] \in {"ended", "died"}
    /\ task' = [task EXCEPT ![s] = IF AtEof(s) THEN "ended" ELSE "read"]
    /\ UNCHANGED <<script, child, pipe, buf, eof, unexpected, wrote, waited, epilog, result, sent>>

\* while not input_stream.at_eof(); after the loop the task ends, raising
\* UnexpectedOutputLinesException if it has counted any.
TestStream(s) ==
    /\ task[s] = "test"
    /\ task' = [task EXCEPT ![s] = IF AtEof(s) THEN "ended" ELSE "read"]
    /\ UNCHANGED <<script, child, pipe, buf, eof, unexpected, wrote, waited, epilog, result, sent>>

Decodes == Filter \/ Allowlist

\* Mutant: an unexpected line is counted and dropped.
PassOnAllowedOnly(s, l) ==
    IF l = "bad" /\ Allowlist
    THEN /\ unexpected' = [unexpected EXCEPT ![s] = @ + 1]
         /\ UNCHANGED wrote
    ELSE /\ wrote' = [wrote EXCEPT ![s] = Append(@, l)]
         /\ UNCHANGED unexpected

\* Mutant: unexpected lines are only written out.
PassOnUncounted(s, l) ==
    /\ wrote' = [wrote EXCEPT ![s] = Append(@, l)]
    /\ UNCHANGED unexpected

\* A line read in full: counted if no regex matches it, and written out.
PassOn(s, l) ==
    /\ unexpected' = IF Allowlist /\ l # "ok" THEN [unexpected EXCEPT ![s] = @ + 1]
                                              ELSE unexpected
    /\ wrote' = [wrote EXCEPT ![s] = Append(@, l)]

\* readline() returns a line.  It raises ValueError for one beyond its limit, and
\* decode() raises UnicodeDecodeError: either ends the task and its reading.
ReadLine(s) ==
    /\ task[s] = "read" /\ buf[s] # <<>>
    /\ buf' = [buf EXCEPT ![s] = Tail(@)]
    /\ LET l == Head(buf[s]) IN
       IF l = "long" \/ (l = "raw" /\ Decodes)
       THEN task' = [task EXCEPT ![s] = "died"] /\ UNCHANGED <<unexpected, wrote>>
       ELSE task' = [task EXCEPT ![s] = "test"] /\ PassOn(s, l)
    /\ UNCHANGED <<script, child, pipe, eof, waited, epilog, result, sent>>

\* Mutant: the empty read is always counted.
ReadEofCounted(s) ==
    /\ task[s] = "read" /\ AtEof(s)
    /\ task' = [task EXCEPT ![s] = "test"]
    /\ unexpected' = IF Allowlist THEN [unexpected EXCEPT ![s] = @ + 1] ELSE unexpected
    /\ UNCHANGED <<script, child, pipe, buf, eof, wrote, waited, epilog, result, sent>>

\* readline() had begun to wait before the end was known: it returns b"", which
\* goes through the allowlist like a line.
ReadEof(s) ==
    /\ task[s] = "read" /\ AtEof(s)
    /\ task' = [task EXCEPT ![s] = "test"]
    /\ unexpected' = IF Allowlist /\ ~AllowsEmpty THEN [unexpected EXCEPT ![s] = @ + 1]
                                                  ELSE unexpected
    /\ UNCHANGED <<script, child, pipe, buf, eof, wrote, waited, epilog, result, sent>>

-----------------------------------------------------------------------------
(* The coroutine run and BazelWrapper.run *)

WaitForSubprocess ==
    /\ ~waited /\ child # Running
    /\ waited' = TRUE
    /\ UNCHANGED <<script, child, pipe, buf, eof, task, unexpected, wrote, epilog, result, sent>>

\* asyncio.wait(tasks, return_when=ALL_COMPLETED)
AllDone == waited /\ \A s \in Stream : task[s] \in {"ended", "died"}

\* Mutant: the epilog is one of the concurrent coroutines.
EpilogAnyTime == ~epilog /\ IsClean /\ result = NoResult

EpilogDue == AllDone /\ ~epilog /\ IsClean /\ result = NoResult

RunEpilog ==
    /\ EpilogDue
    /\ epilog' = TRUE
    /\ UNCHANGED <<script, child, pipe, buf, eof, task, unexpected, wrote, waited, result, sent>>

\* What the three tasks raised.
Errors ==
    {[kind |-> "unexpected", from |-> s, code |-> 1] :
        s \in {t \in Stream : task[t] = "ended" /\ unexpected[t] > 0}}
    \cup {[kind |-> "other", from |-> s, code |-> 1] : s \in {t \in Stream : task[t] = "died"}}
    \cup (IF child = 0 THEN {}
          ELSE {[kind |-> "subprocess", from |-> "bazel", code |-> child]})

Of(kind, errors) == {e \in errors : e.kind = kind}

\* Mutant: MultipleBazelWrapperException keeps every error.
KeepAll(errors) == errors

\* MultipleBazelWrapperException drops "unexpected lines" for a bad exit code.
Kept(errors) ==
    IF Of("subprocess", errors) # {} THEN errors \ Of("unexpected", errors) ELSE errors

\* Mutant: the exit code is the number of errors.
OutcomesCounted(errors) == {Cardinality(errors)}

\* The outcomes of match len(exceptions) and of the except clause of run: asyncio
\* returns the tasks as a set, so any of them can be errors[0].
Outcomes(errors) ==
    CASE errors = {} -> {0}
      [] Cardinality(errors) = 1 ->
            {IF e.kind = "other" THEN Traceback ELSE e.code : e \in errors}
      [] OTHER ->
            IF Of("other", errors) # {} THEN {Traceback} ELSE {e.code : e \in Kept(errors)}

Finish ==
    /\ AllDone /\ result = NoResult
    /\ IsClean => epilog
    /\ result' \in Outcomes(Errors)
    /\ UNCHANGED <<script, child, pipe, buf, eof, task, unexpected, wrote, waited, epilog, sent>>

Done == result # NoResult /\ UNCHANGED vars

Pump(s) == TestStream(s) \/ ReadLine(s) \/ ReadEof(s)
Loop(s) == Feed(s) \/ FeedEof(s)

Next ==
    \/ ChildWrite \/ ChildExit
    \/ \E s \in Stream : Loop(s) \/ Pump(s)
    \/ WaitForSubprocess \/ RunEpilog \/ Finish
    \/ Done

Spec == Init /\ [][Next]_vars

\* Bazel runs to its end unless it is blocked, and asyncio runs every ready task.
Fairness ==
    /\ WF_vars(ChildWrite \/ ChildExit)
    /\ \A s \in Stream : WF_vars(Loop(s)) /\ WF_vars(Pump(s))
    /\ WF_vars(WaitForSubprocess) /\ WF_vars(RunEpilog) /\ WF_vars(Finish)

FairSpec == Spec /\ Fairness

-----------------------------------------------------------------------------
(* Properties *)

NoneDied == \A s \in Stream : task[s] # "died"

WroteBad == \E s \in Stream : \E i \in DOMAIN sent[s] : sent[s][i] # "ok"

\* The wrapper ends with Bazel's exit code when that is not zero, whatever the
\* output filters found and in whatever order the tasks ended.
ExitCodePreserved ==
    result # NoResult /\ NoneDied /\ child # 0 => result = child

\* Success means that Bazel succeeded and that the allowlist covers all it wrote.
SuccessIsClean == result = 0 => child = 0 /\ (Allowlist => ~WroteBad)

\* The wrapper fails for unexpected lines only when Bazel has written one.
ErrorIsReal == result = 1 /\ child = 0 => WroteBad

\* Nothing Bazel wrote is lost or reordered when the wrapper ends.
AllPiped == result # NoResult /\ NoneDied => wrote = sent

\* The generated directories are removed after Bazel has ended and its output was
\* read, and before the wrapper ends.
EpilogLast ==
    /\ epilog => child # Running /\ (NoneDied => \A s \in Stream : AtEof(s))
    /\ result # NoResult /\ IsClean => epilog

\* The wrapper always ends: it never leaves Bazel blocked on a full pipe.
Ends == <>(result # NoResult)
-----------------------------------------------------------------------------
(* The inductive invariant behind the safety properties *)

\* A task that still reads has lost nothing: what it passed on, what its reader
\* holds and what is in the pipe is what Bazel wrote, in that order.
Flow == \A s \in Stream : task[s] # "died" => sent[s] = (wrote[s] \o buf[s]) \o pipe[s]

\* A stream is known to end only after Bazel has, with nothing left in the pipe.
EofOK ==
    /\ \A s \in Stream : eof[s] => child # Running /\ pipe[s] = <<>>
    /\ \A s \in Stream : task[s] = "ended" => AtEof(s)
    /\ waited => child # Running

\* With an allowlist that matches the empty line, unexpected lines are those passed
\* on that no regex matches; without that, there may be more.
AllOk(lines) == \A i \in DOMAIN lines : lines[i] = "ok"
CountOK ==
    \A s \in Stream :
        /\ Allowlist /\ unexpected[s] = 0 => AllOk(wrote[s])
        /\ unexpected[s] > 0 => Allowlist
        /\ AllowsEmpty /\ unexpected[s] > 0 => ~AllOk(wrote[s])

\* The result is one of those of the three tasks, all of which have ended.
ResultOK ==
    /\ epilog => AllDone
    /\ result # NoResult => AllDone /\ result \in Outcomes(Errors) /\ (IsClean => epilog)

IInv == TypeOK /\ Flow /\ EofOK /\ CountOK /\ ResultOK
=============================================================================
