------------------------------ MODULE RunsApi ------------------------------
(***************************************************************************)
(* api/routes/runs.py and the readers of repository/run_history.py: a      *)
(* client pages through /runs, and asks for single runs, while the pool    *)
(* threads of the scheduler go on inserting and completing rows.  Every    *)
(* request is one SELECT, a snapshot of the table.  One that fails or finds *)
(* nothing (500, 404) changes nothing, for the client neither, and so does *)
(* one for a single run: these are not modelled.                           *)
(*                                                                         *)
(* A thread reads the clock for started_at before it inserts its row, so   *)
(* rows may arrive out of order, and with equal times.  A parameter that   *)
(* is absent has its default; one that does not parse is as one that is    *)
(* out of range.  Bounds: Runs, and MaxTime, the clock.                    *)
(***************************************************************************)
EXTENDS Integers, Sequences, FiniteSets, SequencesExt

CONSTANTS
  Runs,           \* execution ids
  JobNames,
  Watched,        \* jobs whose latest run is asked for
  Outcomes,       \* statuses with which a run may end
  MaxTime,
  MaxLimit,       \* MAX_LIMIT
  Queries         \* parameters of /runs, but for the offset

NoFilter == "any"
ValidStatuses == {"started", "success", "failed", "timeout"}

ASSUME ApiAssumption ==
  /\ IsFiniteSet(Runs)
  /\ Watched \subseteq JobNames /\ Outcomes \subseteq ValidStatuses \ {"started"}
  /\ MaxTime \in Nat /\ MaxLimit \in Nat \ {0}
  /\ \A q \in Queries :
       /\ q.job \in JobNames \cup {NoFilter} /\ q.limit \in Int
       /\ q.from \in Int /\ q.to \in Int

VARIABLES
  clock,
  row,        \* execution id -> its row; not yet in the table if ~row.stored
  query,      \* what the client pages through
  offset,     \* of the page it asks for next
  paging,     \* "idle", "first", "more" or "done"
  seen,       \* runs on the pages so far
  present,    \* history: runs that matched when the first page was served
  matched,    \* history: runs that matched when the last page was served
  unstable,   \* history: has a run ceased to match between two pages, or did
              \* two runs on one of them start at the same time?
  latest      \* job -> started_at of the run last served as its latest

tableVars  == <<clock, row>>
clientVars == <<query, offset, paging, seen, present, matched, unstable>>
vars == <<tableVars, clientVars, latest>>

NoRow == [job |-> NoFilter, status |-> "started", startedAt |-> 0,
          stamped |-> FALSE, stored |-> FALSE]

Init ==
  /\ clock = 0 /\ row = [r \in Runs |-> NoRow]
  /\ query \in Queries /\ offset = 0 /\ paging = "idle"
  /\ seen = {} /\ present = {} /\ matched = {} /\ unstable = FALSE
  /\ latest = [j \in Watched |-> -1]

-----------------------------------------------------------------------------
(* The table and its writers *)

readersVars == <<clientVars, latest>>

Stamp(r) ==
  /\ ~row[r].stamped
  /\ \E j \in JobNames :
       row' = [row EXCEPT ![r].job = j, ![r].startedAt = clock, ![r].stamped = TRUE]
  /\ UNCHANGED <<clock, readersVars>>

\* Mutant: a row may be inserted before it has a job and a start.
InsertUnstamped(r) ==
  /\ ~row[r].stored
  /\ row' = [row EXCEPT ![r].stored = TRUE]
  /\ UNCHANGED <<clock, readersVars>>

Insert(r) ==
  /\ row[r].stamped /\ ~row[r].stored
  /\ row' = [row EXCEPT ![r].stored = TRUE]
  /\ UNCHANGED <<clock, readersVars>>

Complete(r) ==
  /\ row[r].stored /\ row[r].status = "started"
  /\ \E s \in Outcomes : row' = [row EXCEPT ![r].status = s]
  /\ UNCHANGED <<clock, readersVars>>

Tick ==
  /\ clock < MaxTime
  /\ clock' = clock + 1
  /\ UNCHANGED <<row, readersVars>>

-----------------------------------------------------------------------------
(* run_history.list_runs, get_run and get_latest_run *)

Matching(q) ==
  {r \in Runs :
     /\ row[r].stored
     /\ q.job \in {NoFilter, row[r].job} /\ q.status \in {NoFilter, row[r].status}
     /\ q.from <= row[r].startedAt /\ row[r].startedAt <= q.to}

\* Mutant: the order is ascending.
OldestFirst(s) ==
  \A i, k \in DOMAIN s : i < k => row[s[i]].startedAt <= row[s[k]].startedAt

NewestFirst(s) ==
  \A i, k \in DOMAIN s : i < k => row[s[i]].startedAt >= row[s[k]].startedAt

\* The orders in which the database may return runs: nothing decides between
\* two that started at the same time.
Listings(runs) == {s \in SetToSeqs(runs) : NewestFirst(s)}

\* Mutant: the offset is one too high.
PageOffByOne(listing, from, limit) ==
  SubSeq(listing, from + 2, Min({from + limit, Len(listing)}))

\* LIMIT and OFFSET
Page(listing, from, limit) ==
  SubSeq(listing, from + 1, Min({from + limit, Len(listing)}))

Tied(runs) == \E r, s \in runs : r # s /\ row[r].startedAt = row[s].startedAt

Of(job) == {r \in Runs : row[r].stored /\ row[r].job = job}

-----------------------------------------------------------------------------
(* The routes *)

Validates(q, from) ==
  /\ q.status \in ValidStatuses \cup {NoFilter}
  /\ q.limit \in 1 .. MaxLimit /\ from >= 0

\* The client begins to page: once, for any earlier paging leaves no trace.
BeginPaging ==
  /\ paging = "idle"
  /\ paging' = "first"
  /\ UNCHANGED <<tableVars, query, offset, seen, present, matched, unstable,
                 latest>>

\* GET /runs, and the client's step to the next page.
ListRuns ==
  /\ paging \in {"first", "more"} /\ Validates(query, offset)
  /\ \E listing \in Listings(Matching(query)) :
       LET page == Page(listing, offset, query.limit) IN
       /\ seen' = seen \cup Range(page)
       /\ paging' = IF Len(page) < query.limit THEN "done" ELSE "more"
       /\ offset' = offset + Len(page)
  /\ present' = IF paging = "first" THEN Matching(query) ELSE present
  /\ matched' = Matching(query)
  /\ unstable' = (unstable \/ ~(matched \subseteq matched') \/ Tied(matched'))
  /\ UNCHANGED <<tableVars, query, latest>>

\* The parameters are looked at before the database is.
ListRunsRejected ==
  /\ paging = "first" /\ ~Validates(query, offset)
  /\ paging' = "done"
  /\ UNCHANGED <<tableVars, query, offset, seen, present, matched, unstable, latest>>

\* GET /jobs/<job_name>/runs/latest, for a job that has one.
LatestRun(j) ==
  /\ \E listing \in Listings(Of(j)) :
       /\ listing # <<>>
       /\ latest' = [latest EXCEPT ![j] = row[Head(listing)].startedAt]
  /\ UNCHANGED <<tableVars, clientVars>>

Next ==
  \/ \E r \in Runs : Stamp(r) \/ Insert(r) \/ Complete(r)
  \/ \E j \in Watched : LatestRun(j)
  \/ Tick
  \/ BeginPaging \/ ListRuns \/ ListRunsRejected

Spec == Init /\ [][Next]_vars

-----------------------------------------------------------------------------
(* Properties *)

\* Type correctness.
TypeOK ==
  /\ clock \in 0 .. MaxTime
  /\ \A r \in Runs : /\ row[r].status \in ValidStatuses
                     /\ row[r].startedAt \in 0 .. clock
                     /\ row[r].stored => row[r].stamped /\ row[r].job \in JobNames
  /\ query \in Queries /\ offset \in 0 .. Cardinality(Runs)
  /\ paging \in {"idle", "first", "more", "done"}
  /\ seen \subseteq Runs /\ present \subseteq Runs /\ matched \subseteq Runs
  /\ unstable \in BOOLEAN
  /\ latest \in [Watched -> -1 .. MaxTime]

\* Paging by offset shows every run that was there from the first page on,
\* although runs are inserted above it meanwhile; unless runs have ceased to
\* match the query (one filtered by status), or started at the same time.
NothingIsSkipped == paging = "done" => present \subseteq seen \/ unstable

\* The latest run of a job never goes back in time from one answer to the
\* next, although rows arrive out of order.
LatestAdvances == [][\A j \in Watched : latest'[j] >= latest[j]]_vars

=============================================================================
