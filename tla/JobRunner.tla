----------------------------- MODULE JobRunner -----------------------------
(***************************************************************************)
(* workers/job_runner.py: the calls of run_job for one job, each with the  *)
(* subprocess it waits for and whatever that starts in its turn.  The      *)
(* actors are the thread in subprocess.run, the child, and a helper: a     *)
(* process of the child's that inherited the pipes of its output and may   *)
(* outlive it, and the call, and run beside the next one.                  *)
(* communicate() returns at the end of the pipes, not of the child.        *)
(*                                                                         *)
(* A text is a sequence of characters, each given by its UTF-8 width but   *)
(* for the two that end a line; Bad stands for a byte that is no UTF-8.    *)
(* Both output streams are treated alike and modelled as one.              *)
(*                                                                         *)
(* Bounds: MaxChars, the length of an output, and MaxRuns, the calls.      *)
(***************************************************************************)
EXTENDS Integers, Sequences, SequencesExt

CONSTANTS
  Characters,     \* what a process may write
  MaxChars,
  MaxRuns,
  Limits,         \* values of settings.max_output_bytes; 0 stands for None too
  HelperPossible  \* may the child leave a helper that holds its pipes?

Bad == 0
LF  == 5
CR  == 6
Character == 0 .. 6

ASSUME RunnerAssumption ==
  /\ Characters \subseteq Character /\ MaxChars \in Nat /\ MaxRuns \in Nat \ {0}
  /\ Limits \subseteq Int /\ HelperPossible \in BOOLEAN

VARIABLES
  pc,         \* run_job: "launch", "wait", "kill" or "returned"
  limit,      \* settings.max_output_bytes
  child,      \* "none", "running", "exited" or "killed"
  exitCode,   \* returncode of a child that exited: 0 or another
  helper,     \* "none", "alive" or "gone"
  written,    \* all the text written to the pipes
  result,     \* the JobRunResult
  earlier     \* the calls before: how each ended, and its processes

vars == <<pc, limit, child, exitCode, helper, written, result, earlier>>

NoText == <<>>
NoCode == -1

Result(status, code, text, marked) ==
  [status |-> status, exitCode |-> code, text |-> text, marked |-> marked]
NoResult == Result("none", NoCode, NoText, FALSE)

-----------------------------------------------------------------------------
(* text=True, and _truncate *)

\* What communicate() makes of an output: "\r\n" and "\r" become "\n".
Translated(output) ==
  LET text[k \in 0 .. Len(output)] ==
        IF k = 0 THEN <<>>
        ELSE IF output[k] = LF /\ k > 1 /\ output[k - 1] = CR THEN text[k - 1]
        ELSE Append(text[k - 1], IF output[k] = CR THEN LF ELSE output[k])
  IN  text[Len(output)]

Size(char) == IF char \in {LF, CR} THEN 1 ELSE char

Width(text) ==
  LET bytes[k \in 0 .. Len(text)] == IF k = 0 THEN 0 ELSE bytes[k - 1] + Size(text[k])
  IN  bytes[Len(text)]

\* The bytes encoded[:n] keeps of a text: a negative n counts from its end.
Sliced(text, n) == IF n >= 0 THEN n ELSE Width(text) + n

\* Mutant: characters are counted instead of bytes.
FirstChars(text, n) == SubSeq(text, 1, Max({0} \cup {k \in 1 .. Len(text) : k <= n}))

\* The whole characters among the first n bytes: errors="ignore" drops the
\* character that the cut goes through.
WholeChars(text, n) ==
  SubSeq(text, 1, Max({0} \cup {k \in 1 .. Len(text) : Width(SubSeq(text, 1, k)) <= n}))

Fits(text) == limit = 0 \/ Width(text) <= limit

Truncate(text) == IF Fits(text) THEN text ELSE WholeChars(text, Sliced(text, limit))

-----------------------------------------------------------------------------
Init ==
  /\ pc = "launch" /\ limit \in Limits
  /\ child = "none" /\ exitCode = NoCode /\ helper = "none"
  /\ written = NoText /\ result = NoResult /\ earlier = <<>>

Return(r) == pc' = "returned" /\ result' = r

Launch ==
  /\ pc = "launch"
  /\ pc' = "wait" /\ child' = "running"
  /\ UNCHANGED <<limit, exitCode, helper, written, result, earlier>>

\* The generic except clause, for an error of Popen.
LaunchFails ==
  /\ pc = "launch"
  /\ Return(Result("failed", NoCode, NoText, FALSE))
  /\ UNCHANGED <<limit, child, exitCode, helper, written, earlier>>

EndOfPipes == child = "exited" /\ helper # "alive"
Undecodable == \E i \in DOMAIN written : written[i] = Bad
Text == Translated(written)

\* Mutant: the exit code is not looked at.
CompletesAlways ==
  /\ pc = "wait" /\ EndOfPipes
  /\ ~Undecodable
  /\ Return(Result("success", exitCode, Truncate(Text), ~Fits(Text)))
  /\ UNCHANGED <<limit, child, exitCode, helper, written, earlier>>

\* communicate() returns before the timeout.
Completes ==
  /\ pc = "wait" /\ EndOfPipes
  /\ ~Undecodable
  /\ Return(Result(IF exitCode = 0 THEN "success" ELSE "failed", exitCode,
                   Truncate(Text), ~Fits(Text)))
  /\ UNCHANGED <<limit, child, exitCode, helper, written, earlier>>

\* Mutant: a status that is none.
DecodeErrs ==
  /\ pc = "wait" /\ EndOfPipes
  /\ Undecodable
  /\ Return(Result("error", NoCode, NoText, FALSE))
  /\ UNCHANGED <<limit, child, exitCode, helper, written, earlier>>

\* The output cannot be decoded: the generic except clause again, after the
\* child has exited.
DecodeFails ==
  /\ pc = "wait" /\ EndOfPipes
  /\ Undecodable
  /\ Return(Result("failed", NoCode, NoText, FALSE))
  /\ UNCHANGED <<limit, child, exitCode, helper, written, earlier>>

\* timeout_seconds are over: communicate() raises TimeoutExpired, also if the
\* pipes have ended since it last looked.
Expires ==
  /\ pc = "wait"
  /\ pc' = "kill"
  /\ UNCHANGED <<limit, child, exitCode, helper, written, result, earlier>>

\* Mutant: the child is left running.
TimesOutUnkilled ==
  /\ pc = "kill"
  /\ Return(Result("timeout", NoCode, NoText, FALSE))
  /\ UNCHANGED <<limit, child, exitCode, helper, written, earlier>>

\* Mutant: the rest of the output is awaited after the kill.
TimesOutAtEndOfPipes ==
  /\ pc = "kill" /\ helper # "alive"
  /\ child' = IF child = "running" THEN "killed" ELSE child
  /\ Return(Result("timeout", NoCode, NoText, FALSE))
  /\ UNCHANGED <<limit, exitCode, helper, written, earlier>>

\* Then run() kills the child, unless it has exited meanwhile, reaps it, and
\* raises the exception again.  The output in a TimeoutExpired is bytes,
\* text=True or not, and the isinstance test drops it.
TimesOut ==
  /\ pc = "kill"
  /\ child' = IF child = "running" THEN "killed" ELSE child
  /\ Return(Result("timeout", NoCode, NoText, FALSE))
  /\ UNCHANGED <<limit, exitCode, helper, written, earlier>>

\* The scheduler calls run_job again, for a retry or in a later minute: the
\* name is free, whatever still runs of the call before.
CallAgain ==
  /\ pc = "returned" /\ Len(earlier) + 1 < MaxRuns
  /\ earlier' = Append(earlier, [status |-> result.status, child |-> child, helper |-> helper])
  /\ pc' = "launch" /\ child' = "none" /\ exitCode' = NoCode /\ helper' = "none"
  /\ written' = NoText /\ result' = NoResult
  /\ UNCHANGED limit

RunJob == Launch \/ LaunchFails \/ Completes \/ DecodeFails \/ Expires \/ TimesOut

\* The script
Write ==
  /\ child = "running" \/ helper = "alive"
  /\ Len(written) < MaxChars
  /\ \E char \in Characters : written' = Append(written, char)
  /\ UNCHANGED <<pc, limit, child, exitCode, helper, result, earlier>>

StartHelper ==
  /\ HelperPossible /\ child = "running" /\ helper = "none"
  /\ helper' = "alive"
  /\ UNCHANGED <<pc, limit, child, exitCode, written, result, earlier>>

Exit ==
  /\ child = "running"
  /\ child' = "exited" /\ exitCode' \in {0, 1}
  /\ UNCHANGED <<pc, limit, helper, written, result, earlier>>

HelperEnds ==
  /\ helper = "alive"
  /\ helper' = "gone"
  /\ UNCHANGED <<pc, limit, child, exitCode, written, result, earlier>>

EarlierHelperEnds ==
  \E i \in DOMAIN earlier :
    /\ earlier[i].helper = "alive"
    /\ earlier' = [earlier EXCEPT ![i].helper = "gone"]
    /\ UNCHANGED <<pc, limit, child, exitCode, helper, written, result>>

Next == RunJob \/ CallAgain \/ Write \/ StartHelper \/ Exit \/ HelperEnds \/ EarlierHelperEnds

\* The thread runs, and the timeout does expire.  Nothing is assumed of the
\* script.
Spec == Init /\ [][Next]_vars /\ WF_vars(RunJob)

-----------------------------------------------------------------------------
(* Properties *)

\* Type correctness: run_job returns one of the three outcomes.
TypeOK ==
  /\ pc \in {"launch", "wait", "kill", "returned"} /\ limit \in Limits
  /\ child \in {"none", "running", "exited", "killed"}
  /\ exitCode \in {NoCode, 0, 1} /\ helper \in {"none", "alive", "gone"}
  /\ written \in Seq(Characters)
  /\ result.status \in {"none", "success", "failed", "timeout"}
  /\ Len(earlier) < MaxRuns

\* A success is a child that exited with 0, of its own accord, with nothing
\* left running that it started and its output complete up to the limit.
SuccessIsReal ==
  result.status = "success" =>
    /\ child = "exited" /\ exitCode = 0 /\ helper # "alive"
    /\ IsPrefix(result.text, Text)
    /\ result.text = Text \/ result.marked

\* What _truncate keeps of a text over a (positive) limit is the longest
\* beginning of it that fits, whole characters only; only that is marked as
\* cut, and a text that is not marked is all there.  This is about the output
\* that communicate() returned: what becomes of it after a timeout, or if it
\* cannot be decoded, is the subject of OutputIsCaptured.
TruncationIsExact ==
  limit >= 0 /\ result.status \in {"success", "failed"} /\ ~Undecodable =>
    /\ result.marked => /\ IsPrefix(result.text, Text) /\ result.text # Text
                        /\ Width(result.text) <= limit
                        /\ LET longer == SubSeq(Text, 1, Len(result.text) + 1)
                           IN  Width(longer) > limit
    /\ ~result.marked => result.text = Text


\* The calls that have returned, with the processes they started.
Returned ==
  Range(earlier) \cup
    IF pc = "returned" THEN {[status |-> result.status, child |-> child, helper |-> helper]} ELSE {}

\* A job that is plain does not overlap itself, and yet may run beside a part
\* of its last run: but only beside a helper, never a child, and only after a
\* timeout.  Any other run has taken everything that held its pipes with it.
OnlyTimeoutsLeaveProcesses ==
  \A call \in Returned :
    /\ call.child # "running"
    /\ call.helper = "alive" => call.status = "timeout"

\* Every call of run_job returns, whatever the script does, however long its
\* helper keeps the pipes open, and whatever is left of the call before.
RunReturns == pc # "returned" ~> pc = "returned"

=============================================================================
