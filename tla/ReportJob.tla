----------------------------- MODULE ReportJob -----------------------------
(***************************************************************************)
(* The four scripts of scripts/ as the scheduler runs them: the attempts   *)
(* of one dispatch, each a fresh process that fetches data, has them       *)
(* summarized, and posts the summary to a Discord channel in messages of   *)
(* limited length.  They differ in what they fetch: three query schemas    *)
(* over one database connection, one asks an HTTP API.  Of the rest each   *)
(* has a copy.                                                             *)
(*                                                                         *)
(* A character of a report is the attempt that wrote it and its position.  *)
(* Bounds: MaxLength, the length of a report, and MaxAttempts.             *)
(***************************************************************************)
EXTENDS Integers, Sequences, SequencesExt

CONSTANTS
  Services,       \* LATEST_RUN_QUERIES of the ingestion report, in its order
  MessageLimit,   \* DISCORD_MESSAGE_LIMIT
  MaxLength,
  MaxAttempts     \* 1 + max_retries of the job

ASSUME ReportAssumption ==
  /\ Services \in Seq(Range(Services)) /\ IsInjective(Services)
  /\ MessageLimit \in Nat \ {0} /\ MaxLength \in Nat \ {0}
  /\ MaxAttempts \in Nat \ {0}

\* What a script fetches from, and whether over a database connection.
DailyIngestion  == [sources |-> Services, database |-> TRUE]
StreamingStatus == [sources |-> <<"replay_sessions">>, database |-> TRUE]
StickyNotes     == [sources |-> <<"sticky_notes">>, database |-> TRUE]
DailyTrades     == [sources |-> <<"pnl">>, database |-> FALSE]
Scripts == {DailyIngestion, StreamingStatus, StickyNotes, DailyTrades}

VARIABLES
  script,     \* the script that is run
  configured, \* are all its settings in the environment?
  pc,         \* main: "main", "connect", "fetch", "summarize", "post",
              \* "sent"; or "ended", and "over" when the scheduler makes no more attempts
  attempt,
  broken,     \* sources that fail at present
  failed,     \* history: sources that did fail in this attempt
  aborted,    \* does the open transaction refuse all further statements?
  results,    \* what the fetch has put down, in order
  chunks,     \* messages still to post
  report,     \* history: the report of each attempt
  channel,    \* the messages Discord has accepted
  fate        \* history: how each attempt ended

fetchVars == <<broken, failed, aborted, results>>
postVars  == <<chunks, report, channel>>
jobVars   == <<script, configured>>
vars == <<jobVars, pc, attempt, fetchVars, postVars, fate>>

Sources == Range(script.sources)

\* Mutant: the number of messages is rounded down.
ChunksWithoutRest(message) ==
  [c \in 1 .. Len(message) \div MessageLimit |->
     SubSeq(message, (c - 1) * MessageLimit + 1, c * MessageLimit)]

\* message[i : i + DISCORD_MESSAGE_LIMIT] for i in steps of the limit.
Chunks(message) ==
  [c \in 1 .. (Len(message) + MessageLimit - 1) \div MessageLimit |->
     SubSeq(message, (c - 1) * MessageLimit + 1,
            IF c * MessageLimit < Len(message) THEN c * MessageLimit ELSE Len(message))]

\* Mutant: the connection is that of the attempt before.
BeginConnected ==
  /\ pc' = "main"
  /\ failed' = {} /\ aborted' = aborted /\ results' = <<>> /\ chunks' = <<>>

\* The process of an attempt begins.
Begin ==
  /\ pc' = "main"
  /\ failed' = {} /\ aborted' = FALSE /\ results' = <<>> /\ chunks' = <<>>

Init ==
  /\ script \in Scripts /\ configured \in BOOLEAN
  /\ pc = "main" /\ attempt = 1 /\ broken \in SUBSET Sources
  /\ failed = {} /\ aborted = FALSE /\ results = <<>> /\ chunks = <<>>
  /\ report = <<<<>>>> /\ channel = <<>> /\ fate = <<>>

\* An exception leaves main, or main returns 0, or the process is killed.
End(how) == pc' = "ended" /\ fate' = Append(fate, how)

-----------------------------------------------------------------------------
(* main, and what each script fetches *)

\* _require_env, of every setting before anything else.
Start ==
  /\ pc = "main" /\ configured
  /\ pc' = IF script.database THEN "connect" ELSE "fetch"
  /\ UNCHANGED <<jobVars, attempt, fetchVars, postVars, fate>>

Misconfigured ==
  /\ pc = "main" /\ ~configured
  /\ End("error")
  /\ UNCHANGED <<jobVars, attempt, fetchVars, postVars>>

Connect ==
  /\ pc = "connect"
  /\ pc' = "fetch"
  /\ UNCHANGED <<jobVars, attempt, fetchVars, postVars, fate>>

\* Only the queries are in the inner try.
ConnectFails ==
  /\ pc = "connect"
  /\ End("error")
  /\ UNCHANGED <<jobVars, attempt, fetchVars, postVars>>

NextSource == script.sources[Len(results) + 1]
Fetching   == pc = "fetch" /\ Len(results) < Len(script.sources)

Fails(s) == failed' = IF s \in broken THEN failed \cup {s} ELSE failed

\* The first statement opens a transaction that nothing rolls back: after an
\* error PostgreSQL refuses every later statement in it.
Query ==
  /\ Fetching /\ script.database
  /\ IF aborted THEN UNCHANGED failed ELSE Fails(NextSource)
  /\ aborted' = (aborted \/ failed' # failed)
  /\ \E r \in IF aborted' THEN {"error"} ELSE {"row", "nothing"} :
       results' = Append(results, r)
  /\ UNCHANGED <<jobVars, pc, attempt, broken, postVars, fate>>

\* The PnL API, for the date the container's clock shows.  Whatever goes wrong
\* is reported in place of the data.
GetPnl ==
  /\ Fetching /\ ~script.database
  /\ Fails(NextSource)
  /\ results' = Append(results, IF NextSource \in broken THEN "error" ELSE "row")
  /\ UNCHANGED <<jobVars, pc, attempt, broken, aborted, postVars, fate>>

EndFetch ==
  /\ pc = "fetch" /\ Len(results) = Len(script.sources)
  /\ pc' = "summarize"
  /\ UNCHANGED <<jobVars, attempt, fetchVars, postVars, fate>>

-----------------------------------------------------------------------------
(* summarize_with_ollama and post_to_discord *)

\* The report is the title and a summary of any length.
Summarize ==
  /\ pc = "summarize"
  /\ \E n \in 1 .. MaxLength :
       LET message == [i \in 1 .. n |-> <<attempt, i>>] IN
       /\ report' = [report EXCEPT ![attempt] = message]
       /\ chunks' = Chunks(message)
  /\ pc' = "post"
  /\ UNCHANGED <<jobVars, attempt, fetchVars, channel, fate>>

SummarizeFails ==
  /\ pc = "summarize"
  /\ End("error")
  /\ UNCHANGED <<jobVars, attempt, fetchVars, postVars>>

\* Discord accepts the next message.
Post ==
  /\ pc = "post" /\ chunks # <<>>
  /\ channel' = Append(channel, Head(chunks))
  /\ chunks' = Tail(chunks)
  /\ pc' = "sent"
  /\ UNCHANGED <<jobVars, attempt, fetchVars, report, fate>>

\* It refuses it, or is not reached.
PostFails ==
  /\ pc = "post" /\ chunks # <<>>
  /\ End("error")
  /\ UNCHANGED <<jobVars, attempt, fetchVars, postVars>>

Acknowledged ==
  /\ pc = "sent"
  /\ pc' = "post"
  /\ UNCHANGED <<jobVars, attempt, fetchVars, postVars, fate>>

\* The response to a message that was accepted does not arrive.
Unanswered ==
  /\ pc = "sent"
  /\ End("unanswered")
  /\ UNCHANGED <<jobVars, attempt, fetchVars, postVars>>

\* main returns 0.
Succeed ==
  /\ pc = "post" /\ chunks = <<>>
  /\ End("success")
  /\ UNCHANGED <<jobVars, attempt, fetchVars, postVars>>

-----------------------------------------------------------------------------
(* The scheduler and the sources *)

\* run_job's timeout.
Kill ==
  /\ pc \notin {"ended", "over"}
  /\ End("killed")
  /\ UNCHANGED <<jobVars, attempt, fetchVars, postVars>>

\* Mutant: a success is repeated.
RetryAlways ==
  /\ pc = "ended" /\ attempt < MaxAttempts
  /\ Begin
  /\ attempt' = attempt + 1 /\ report' = Append(report, <<>>)
  /\ UNCHANGED <<jobVars, broken, channel, fate>>

\* Mutant: one attempt too many.
RetryOnceMore ==
  /\ pc = "ended" /\ fate[attempt] # "success" /\ attempt <= MaxAttempts
  /\ Begin
  /\ attempt' = attempt + 1 /\ report' = Append(report, <<>>)
  /\ UNCHANGED <<jobVars, broken, channel, fate>>

\* _execute_with_retries: every attempt begins from nothing.
Retry ==
  /\ pc = "ended" /\ fate[attempt] # "success" /\ attempt < MaxAttempts
  /\ Begin
  /\ attempt' = attempt + 1 /\ report' = Append(report, <<>>)
  /\ UNCHANGED <<jobVars, broken, channel, fate>>

GiveUp ==
  /\ pc = "ended" /\ (fate[attempt] = "success" \/ attempt = MaxAttempts)
  /\ pc' = "over"
  /\ UNCHANGED <<jobVars, attempt, fetchVars, postVars, fate>>

\* A source is repaired, or breaks.
SourceChanges ==
  /\ \E s \in Sources :
       broken' = IF s \in broken THEN broken \ {s} ELSE broken \cup {s}
  /\ UNCHANGED <<jobVars, pc, attempt, failed, aborted, results, postVars, fate>>

Next ==
  \/ Start \/ Misconfigured \/ Connect \/ ConnectFails
  \/ Query \/ GetPnl \/ EndFetch
  \/ Summarize \/ SummarizeFails
  \/ Post \/ PostFails \/ Acknowledged \/ Unanswered \/ Succeed
  \/ Kill \/ Retry \/ GiveUp \/ SourceChanges

Spec == Init /\ [][Next]_vars

-----------------------------------------------------------------------------
(* Properties *)

Attempts == 1 .. attempt

\* What an attempt wrote of some messages, and of the channel.
Posted(messages, a) ==
  LET upTo[k \in 0 .. Len(messages)] ==
        IF k = 0 THEN <<>>
        ELSE IF messages[k][1][1] = a THEN upTo[k - 1] \o messages[k]
        ELSE upTo[k - 1]
  IN  upTo[Len(messages)]

PostedBy(a) == Posted(channel, a)

\* Type correctness.
TypeOK ==
  /\ script \in Scripts /\ configured \in BOOLEAN
  /\ pc \in {"main", "connect", "fetch", "summarize", "post", "sent", "ended", "over"}
  /\ attempt \in 1 .. MaxAttempts /\ Len(report) = attempt
  /\ broken \subseteq Sources /\ failed \subseteq Sources
  /\ aborted \in BOOLEAN
  /\ results \in Seq({"row", "nothing", "error"}) /\ Len(results) <= Len(script.sources)
  /\ \A i \in DOMAIN fate : fate[i] \in {"success", "error", "unanswered", "killed"}
  /\ Len(fate) = IF pc \in {"ended", "over"} THEN attempt ELSE attempt - 1

\* The channel shows of every attempt a beginning of its report, in order and
\* without repetition, in messages of a length Discord takes, wherever the
\* attempt was cut short; and all of the report when the attempt succeeded.
ChannelIsFaithful ==
  /\ \A i \in DOMAIN channel : Len(channel[i]) \in 1 .. MessageLimit
  /\ \A a \in Attempts :
       /\ IsPrefix(PostedBy(a), report[a])
       /\ a \in DOMAIN fate /\ fate[a] = "success" => PostedBy(a) = report[a]

\* A report that is complete on the channel is posted again only when the
\* attempt could not know: its last message was never acknowledged, or it was
\* killed before it could exit.
RepeatsAreUnavoidable ==
  \A a \in Attempts :
    a < attempt /\ report[a] # <<>> /\ PostedBy(a) = report[a]
      => fate[a] \in {"unanswered", "killed"}

\* What the summary is told of a source is the source's own: a source with a
\* result did not fail, and of those reported as failing the first did.
FirstErrorIsGenuine ==
  LET errors == {i \in DOMAIN results : results[i] = "error"} IN
  \A i \in DOMAIN results :
    IF i \in errors /\ \A k \in errors : i <= k
      THEN script.sources[i] \in failed
      ELSE results[i] # "error" => script.sources[i] \notin failed

\* One service's failure never blocks the others.
FailuresAreIsolated ==
  \A i \in DOMAIN results : results[i] = "error" => script.sources[i] \in failed

=============================================================================
