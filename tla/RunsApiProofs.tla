--------------------------- MODULE RunsApiProofs ---------------------------
(***************************************************************************)
(* What a client sees of the run history over several requests, while the  *)
(* table changes between them: for any runs, jobs, query and page size.    *)
(***************************************************************************)
EXTENDS RunsApi, FiniteSetTheorems, TLAPS

-----------------------------------------------------------------------------
(* Invariants *)

Row == [job : JobNames \cup {NoFilter}, status : ValidStatuses, startedAt : Nat,
        stamped : BOOLEAN, stored : BOOLEAN]

Stored == {r \in Runs : row[r].stored}

TableInv ==
  /\ clock \in 0 .. MaxTime
  /\ row \in [Runs -> Row]
  /\ \A r \in Runs : /\ row[r].startedAt <= clock
                     /\ row[r].stored => row[r].stamped
                     /\ row[r].stamped => row[r].job \in JobNames

\* Runs of the last page's listing that started after run p.
Newer(p) == {r \in matched : row[r].startedAt > row[p].startedAt}

\* A run the client has not been shown has at least as many newer ones as the
\* client has stepped over: it is on none of the pages before its next one.
PagingInv ==
  /\ query \in Queries /\ offset \in 0 .. Cardinality(Runs)
  /\ paging \in {"idle", "first", "more", "done"}
  /\ seen \subseteq Runs /\ present \subseteq Runs /\ matched \subseteq Stored
  /\ unstable \in BOOLEAN
  /\ paging \in {"idle", "first"} => offset = 0 /\ seen = {} /\ present = {} /\ matched = {}
  /\ ~unstable =>
       /\ present \subseteq matched
       /\ \A p \in present \ seen : paging # "done" /\ offset <= Cardinality(Newer(p))

\* What was served as a job's latest start is in the table, or a later one.
LatestInv ==
  /\ latest \in [Watched -> -1 .. MaxTime]
  /\ \A j \in Watched : latest[j] = -1 \/ \E r \in Of(j) : latest[j] <= row[r].startedAt

ApiInv == TableInv /\ PagingInv /\ LatestInv

-----------------------------------------------------------------------------
(* Listings and pages *)

\* The database returns every matching run once, in an order by start.
LEMMA ListingFacts ==
  ASSUME NEW S \in SUBSET Runs, NEW s \in Listings(S)
  PROVE  /\ IsFiniteSet(S) /\ Cardinality(S) \in 0 .. Cardinality(Runs)
         /\ s \in Seq(S) /\ Len(s) = Cardinality(S) /\ NewestFirst(s)
         /\ \A r \in S : \E i \in 1 .. Len(s) : s[i] = r
         /\ \A i, k \in 1 .. Len(s) : s[i] = s[k] => i = k
  <1> DEFINE n == Cardinality(S)
  <1>1. IsFiniteSet(S) /\ n \in Nat /\ Cardinality(Runs) \in Nat /\ n <= Cardinality(Runs)
    BY ApiAssumption, FS_Subset, FS_CardinalityType
  <1>2. /\ s \in [1 .. n -> S] /\ NewestFirst(s)
        /\ \A i, k \in 1 .. n : s[i] = s[k] => i = k
    BY DEF Listings, SetToSeqs
  <1>3. s \in Injection(1 .. n, S)
    BY <1>2 DEF Injection, IsInjective
  <1>4. IsFiniteSet(1 .. n) /\ Cardinality(1 .. n) = n
    BY <1>1, FS_Interval
  <1>5. s \in Surjection(1 .. n, S)
    BY <1>1, <1>3, <1>4, FS_Injection
  <1>6. \A r \in S : \E i \in 1 .. n : s[i] = r
    BY <1>5 DEF Surjection
  <1> HIDE DEF n
  <1>7. s \in Seq(S) /\ Len(s) = n
    BY <1>1, <1>2
  <1> QED BY <1>1, <1>2, <1>6, <1>7 DEF n

LEMMA OrderFacts ==
  ASSUME NEW S, NEW s \in Seq(S), NewestFirst(s), NEW i \in 1 .. Len(s), NEW k \in 1 .. Len(s), i < k
  PROVE  row[s[i]].startedAt >= row[s[k]].startedAt
  BY DEF NewestFirst

\* Without ties the place of a run is the number of runs newer than it.
LEMMA PlaceFacts ==
  ASSUME NEW S \in SUBSET Runs, NEW s \in Listings(S), row \in [Runs -> Row], ~Tied(S),
         NEW i \in 1 .. Len(s)
  PROVE  Cardinality({r \in S : row[r].startedAt > row[s[i]].startedAt}) = i - 1
  <1> DEFINE T == {r \in S : row[r].startedAt > row[s[i]].startedAt}
             f == [k \in 1 .. i - 1 |-> s[k]]
  <1>1. /\ s \in Seq(S) /\ NewestFirst(s) /\ i \in Nat
        /\ \A r \in S : \E k \in 1 .. Len(s) : s[k] = r
        /\ \A k, l \in 1 .. Len(s) : s[k] = s[l] => k = l
    BY ListingFacts
  <1>2. \A k \in 1 .. Len(s) : s[k] \in S /\ row[s[k]].startedAt \in Nat
    <2>1. \A k \in 1 .. Len(s) : s[k] \in S
      BY <1>1
    <2>2. \A r \in Runs : row[r].startedAt \in Nat
      BY DEF Row
    <2> QED BY <2>1, <2>2
  <1>3. \A k \in 1 .. Len(s) : k # i => row[s[k]].startedAt # row[s[i]].startedAt
    <2>1. \A r, q \in S : r # q => row[r].startedAt # row[q].startedAt
      BY DEF Tied
    <2>2. \A k \in 1 .. Len(s) : k # i => s[k] # s[i]
      BY <1>1
    <2> QED BY <1>2, <2>1, <2>2
  <1>4. \A k \in 1 .. Len(s) : s[k] \in T <=> k < i
    <2> SUFFICES ASSUME NEW k \in 1 .. Len(s) PROVE s[k] \in T <=> k < i
      OBVIOUS
    <2>1. CASE k < i
      <3>1. row[s[k]].startedAt >= row[s[i]].startedAt
        BY <1>1, <2>1, OrderFacts
      <3> QED BY <1>2, <1>3, <2>1, <3>1
    <2>2. CASE k >= i
      <3>1. k # i => row[s[i]].startedAt >= row[s[k]].startedAt
        BY <1>1, <2>2, OrderFacts
      <3> QED BY <1>2, <2>2, <3>1
    <2> QED BY <1>1, <2>1, <2>2
  <1>5. \A r \in T : \E k \in 1 .. i - 1 : s[k] = r
    <2> HIDE DEF T
    <2>1. T \subseteq S
      BY DEF T
    <2> QED BY <1>1, <1>4, <2>1
  <1>6. f \in Bijection(1 .. i - 1, T)
    <2> HIDE DEF T
    <2>1. f \in [1 .. i - 1 -> T]
      BY <1>1, <1>4
    <2>2. \A k, l \in 1 .. i - 1 : f[k] = f[l] => k = l
      <3>1. 1 .. i - 1 \subseteq 1 .. Len(s)
        BY <1>1
      <3>2. \A k \in 1 .. i - 1 : f[k] = s[k]
        OBVIOUS
      <3> HIDE DEF f
      <3> QED BY <1>1, <3>1, <3>2
    <2>3. \A r \in T : \E k \in 1 .. i - 1 : f[k] = r
      BY <1>5
    <2>4. f \in Injection(1 .. i - 1, T)
      <3> HIDE DEF f
      <3> QED BY <2>1, <2>2 DEF Injection, IsInjective
    <2>5. f \in Surjection(1 .. i - 1, T)
      <3> HIDE DEF f
      <3> QED BY <2>1, <2>3 DEF Surjection
    <2> HIDE DEF f
    <2> QED BY <2>4, <2>5 DEF Bijection
  <1>7. IsFiniteSet(1 .. i - 1) /\ Cardinality(1 .. i - 1) = i - 1
    <2>1. i - 1 \in Int /\ 1 \in Int /\ i >= 1
      BY <1>1
    <2>2. /\ IsFiniteSet(1 .. i - 1)
          /\ Cardinality(1 .. i - 1) = IF 1 > i - 1 THEN 0 ELSE (i - 1) - 1 + 1
      BY <2>1, FS_Interval
    <2> QED BY <2>1, <2>2
  <1> HIDE DEF T, f
  <1>8. Cardinality(T) = i - 1
    BY <1>6, <1>7, FS_Bijection DEF ExistsBijection
  <1> QED BY <1>8 DEF T

\* A page that is not full ends the listing.
LEMMA PageFacts ==
  ASSUME NEW S, NEW s \in Seq(S), NEW from \in Nat, NEW limit \in Nat \ {0}
  PROVE  LET page == Page(s, from, limit)
         IN  /\ Len(page) \in 0 .. limit /\ Range(page) \subseteq S
             /\ from + Len(page) <= Len(s) \/ Len(page) = 0
             /\ \A i \in 1 .. Len(s) : from < i /\ i <= from + Len(page) => s[i] \in Range(page)
             /\ Len(page) < limit => \A i \in 1 .. Len(s) : i <= from + Len(page) \/ i <= from
  <1> DEFINE n == Len(s)
             to == IF from + limit <= n THEN from + limit ELSE n
  <1>1. n \in Nat /\ from + limit \in Nat
    OBVIOUS
  <1>2. Min({from + limit, n}) = to
    <2> HIDE DEF n
    <2> QED BY <1>1 DEF Min
  <1> DEFINE page == SubSeq(s, from + 1, to)
  <1>3. to \in Nat /\ to <= n
    BY <1>1
  <1>4. Page(s, from, limit) = page
    BY <1>2 DEF Page
  <1>5. /\ Len(page) = IF from < to THEN to - from ELSE 0
        /\ \A k \in 1 .. Len(page) : page[k] = s[from + k]
    <2> HIDE DEF to
    <2> QED BY <1>3
  <1>6. page \in Seq(S)
    <2> HIDE DEF to
    <2> QED BY <1>3
  <1> HIDE DEF page
  <1>7. Range(page) \subseteq S
    BY <1>6 DEF Range
  <1>8. /\ from + Len(page) <= n \/ Len(page) = 0
        /\ Len(page) < limit => \A i \in 1 .. n : i <= from + Len(page) \/ i <= from
    BY <1>1, <1>5
  <1>9. ASSUME NEW i \in 1 .. n, from < i, i <= from + Len(page) PROVE s[i] \in Range(page)
    <2>1. Len(page) \in Nat
      BY <1>1, <1>5
    <2>2. i - from \in 1 .. Len(page) /\ from + (i - from) = i /\ DOMAIN page = 1 .. Len(page)
      BY <1>1, <1>6, <1>9, <2>1
    <2>3. page[i - from] = s[i]
      BY <1>5, <2>2
    <2> QED BY <2>2, <2>3 DEF Range
  <1>10. Len(page) \in 0 .. limit
    BY <1>1, <1>5
  <1> QED BY <1>4, <1>7, <1>8, <1>9, <1>10

-----------------------------------------------------------------------------
(* Steps *)

LEMMA ApiInit == Init => ApiInv
  <1> SUFFICES ASSUME Init PROVE ApiInv
    OBVIOUS
  <1>1. NoRow \in Row
    BY DEF NoRow, Row, ValidStatuses
  <1>2. TableInv
    <2>1. row \in [Runs -> Row] /\ \A r \in Runs : row[r] = NoRow
      BY <1>1 DEF Init
    <2>2. ~NoRow.stored /\ ~NoRow.stamped /\ NoRow.startedAt = 0
      BY DEF NoRow
    <2>3. clock = 0 /\ MaxTime \in Nat
      BY ApiAssumption DEF Init
    <2> QED BY <2>1, <2>2, <2>3 DEF TableInv
  <1>3. PagingInv
    <2>1. Cardinality(Runs) \in Nat
      BY ApiAssumption, FS_CardinalityType
    <2>2. /\ query \in Queries /\ offset = 0 /\ paging = "idle" /\ unstable = FALSE
          /\ seen = {} /\ present = {} /\ matched = {}
      BY DEF Init
    <2>3. offset \in 0 .. Cardinality(Runs)
      BY <2>1, <2>2
    <2> QED BY <2>2, <2>3 DEF PagingInv
  <1>4. LatestInv
    BY ApiAssumption DEF Init, LatestInv
  <1> QED BY <1>2, <1>3, <1>4 DEF ApiInv

\* A row in the table stays, and keeps its job and its start.
RowsKept == \A r \in Stored : /\ r \in Stored'
                              /\ row'[r].job = row[r].job
                              /\ row'[r].startedAt = row[r].startedAt

\* So the client, who learns nothing of the change, loses nothing by it.
LEMMA ReadersKeep ==
  ASSUME ApiInv, RowsKept, UNCHANGED readersVars
  PROVE  PagingInv' /\ LatestInv'
  <1> USE DEF readersVars, clientVars
  <1>1. \A r \in Stored : r \in Runs /\ row'[r].stored /\ row'[r].job = row[r].job
                          /\ row'[r].startedAt = row[r].startedAt
    BY DEF RowsKept, Stored
  <1>2. PagingInv'
    <2>1. ~unstable => \A p \in present \ seen : Newer(p)' = Newer(p)
      BY <1>1 DEF ApiInv, PagingInv, Newer
    <2>2. matched' \subseteq Stored'
      BY <1>1 DEF ApiInv, PagingInv, Stored
    <2> QED BY <2>1, <2>2 DEF ApiInv, PagingInv
  <1>3. LatestInv'
    <2>1. \A j : \A r \in Of(j) : r \in Of(j)' /\ row'[r].startedAt = row[r].startedAt
      BY <1>1 DEF Of, Stored
    <2> QED BY <2>1 DEF ApiInv, LatestInv
  <1> QED BY <1>2, <1>3

LEMMA TableSteps ==
  ASSUME ApiInv, (\E r \in Runs : Stamp(r) \/ Insert(r) \/ Complete(r)) \/ Tick \/ UNCHANGED vars
  PROVE  ApiInv'
  <1>1. /\ clock \in 0 .. MaxTime /\ clock \in Nat /\ row \in [Runs -> Row]
        /\ \A q \in Runs : /\ row[q] \in Row /\ row[q].startedAt <= clock
                           /\ row[q].stored => row[q].stamped
                           /\ row[q].stamped => row[q].job \in JobNames
    BY ApiAssumption DEF ApiInv, TableInv
  <1>2. ASSUME NEW r \in Runs, NEW new \in Row, row' = [row EXCEPT ![r] = new],
               UNCHANGED <<clock, readersVars>>, new.startedAt <= clock,
               new.stored => new.stamped, new.stamped => new.job \in JobNames,
               row[r].stored => new.stored /\ new.job = row[r].job /\ new.startedAt = row[r].startedAt
        PROVE  ApiInv'
    <2>1. /\ row' \in [Runs -> Row] /\ row'[r] = new
          /\ \A q \in Runs : q # r => row'[q] = row[q]
      BY <1>1, <1>2
    <2>2. TableInv'
      BY <1>1, <1>2, <2>1 DEF TableInv
    <2>3. RowsKept
      BY <1>2, <2>1 DEF RowsKept, Stored
    <2> QED BY <1>2, <2>2, <2>3, ReadersKeep DEF ApiInv
  <1>3. ASSUME NEW r \in Runs, Stamp(r) PROVE ApiInv'
    <2>1. PICK j \in JobNames :
            row' = [row EXCEPT ![r] = [row[r] EXCEPT !.job = j, !.startedAt = clock, !.stamped = TRUE]]
      BY <1>1, <1>3 DEF Stamp
    <2> DEFINE new == [row[r] EXCEPT !.job = j, !.startedAt = clock, !.stamped = TRUE]
    <2>2. /\ new \in Row /\ new.startedAt = clock /\ new.stamped /\ new.job = j
          /\ new.stored = row[r].stored
      BY <1>1 DEF Row
    <2>3. ~row[r].stamped /\ UNCHANGED <<clock, readersVars>>
      BY <1>3 DEF Stamp
    <2> HIDE DEF new
    <2>4. row' = [row EXCEPT ![r] = new]
      BY <2>1 DEF new
    <2>5. ~row[r].stored /\ ~new.stored
      BY <1>1, <2>2, <2>3
    <2>6. new.startedAt <= clock /\ new.job \in JobNames
      BY <1>1, <2>2
    <2> QED BY <1>2, <2>2, <2>3, <2>4, <2>5, <2>6
  <1>4. ASSUME NEW r \in Runs, Insert(r) PROVE ApiInv'
    <2> DEFINE new == [row[r] EXCEPT !.stored = TRUE]
    <2>1. /\ new \in Row /\ new.stored /\ new.startedAt = row[r].startedAt
          /\ new.job = row[r].job /\ new.stamped = row[r].stamped
      BY <1>1 DEF Row
    <2>2. row' = [row EXCEPT ![r] = new] /\ row[r].stamped /\ UNCHANGED <<clock, readersVars>>
      BY <1>1, <1>4 DEF Insert
    <2> HIDE DEF new
    <2> QED BY <1>1, <1>2, <2>1, <2>2
  <1>5. ASSUME NEW r \in Runs, Complete(r) PROVE ApiInv'
    <2>1. PICK s \in Outcomes : row' = [row EXCEPT ![r] = [row[r] EXCEPT !.status = s]]
      BY <1>1, <1>5 DEF Complete
    <2> DEFINE new == [row[r] EXCEPT !.status = s]
    <2>2. /\ new \in Row /\ new.stored = row[r].stored /\ new.startedAt = row[r].startedAt
          /\ new.job = row[r].job /\ new.stamped = row[r].stamped
      BY <1>1, ApiAssumption DEF Row
    <2>3. UNCHANGED <<clock, readersVars>>
      BY <1>5 DEF Complete
    <2> HIDE DEF new
    <2>4. row' = [row EXCEPT ![r] = new]
      BY <2>1 DEF new
    <2> QED BY <1>1, <1>2, <2>2, <2>3, <2>4
  <1>6. ASSUME Tick \/ UNCHANGED vars PROVE ApiInv'
    <2>1. /\ row' = row /\ UNCHANGED readersVars
          /\ clock' = clock \/ (clock < MaxTime /\ clock' = clock + 1)
      BY <1>6 DEF Tick, vars, tableVars, readersVars
    <2>2. clock' \in 0 .. MaxTime /\ clock <= clock'
      BY <1>1, <2>1, ApiAssumption
    <2>3. \A q \in Runs : row[q].startedAt \in Nat
      BY <1>1 DEF Row
    <2>4. TableInv'
      BY <1>1, <2>1, <2>2, <2>3 DEF TableInv
    <2>5. RowsKept
      BY <2>1 DEF RowsKept, Stored
    <2> QED BY <2>1, <2>4, <2>5, ReadersKeep DEF ApiInv
  <1> QED BY <1>3, <1>4, <1>5, <1>6

\* The page that is served, and the runs the client has not been shown.
LEMMA ListRunsKeeps ==
  ASSUME ApiInv, ListRuns
  PROVE  ApiInv'
  <1> DEFINE M == Matching(query)
  <1>1. /\ paging \in {"first", "more"} /\ Validates(query, offset)
        /\ present' = IF paging = "first" THEN M ELSE present
        /\ matched' = M
        /\ unstable' = (unstable \/ ~(matched \subseteq matched') \/ Tied(matched'))
        /\ UNCHANGED <<tableVars, query, latest>>
    BY DEF ListRuns
  <1>2. PICK listing \in Listings(M) :
          LET page == Page(listing, offset, query.limit)
          IN  /\ seen' = seen \cup Range(page)
              /\ paging' = IF Len(page) < query.limit THEN "done" ELSE "more"
              /\ offset' = offset + Len(page)
    BY DEF ListRuns
  <1> DEFINE limit == query.limit
             n == Len(listing)
             page == Page(listing, offset, limit)
  <1>3. limit \in Nat \ {0} /\ offset \in Nat /\ offset \in 0 .. Cardinality(Runs) /\ Cardinality(Runs) \in Nat
    <2>1. limit \in 1 .. MaxLimit /\ MaxLimit \in Nat
      BY <1>1, ApiAssumption DEF Validates
    <2>2. offset \in 0 .. Cardinality(Runs) /\ Cardinality(Runs) \in Nat
      BY ApiAssumption, FS_CardinalityType DEF ApiInv, PagingInv
    <2> QED BY <2>1, <2>2
  <1>4. M \in SUBSET Runs /\ M \subseteq Stored
    BY DEF Matching, Stored
  <1> HIDE DEF M
  <1>5. /\ IsFiniteSet(M) /\ listing \in Seq(M) /\ n \in 0 .. Cardinality(Runs)
        /\ \A r \in M : \E i \in 1 .. n : listing[i] = r
    BY <1>4, ListingFacts
  <1>6. /\ Len(page) \in 0 .. limit /\ Range(page) \subseteq M
        /\ offset + Len(page) <= n \/ Len(page) = 0
        /\ \A i \in 1 .. n : offset < i /\ i <= offset + Len(page) => listing[i] \in Range(page)
        /\ Len(page) < limit => \A i \in 1 .. n : i <= offset + Len(page) \/ i <= offset
    <2> HIDE DEF limit
    <2> QED BY <1>3, <1>5, PageFacts
  <1>7. /\ seen' = seen \cup Range(page) /\ offset' = offset + Len(page)
        /\ paging' = IF Len(page) < limit THEN "done" ELSE "more"
    BY <1>2
  <1> HIDE DEF limit, n, page
  <1>8. TableInv' /\ LatestInv'
    BY <1>1 DEF ApiInv, TableInv, LatestInv, Of, tableVars
  <1>9. ASSUME ~unstable'
        PROVE  /\ present' \subseteq M
               /\ \A p \in present' \ seen' : paging' # "done" /\ offset' <= Cardinality(Newer(p)')
    <2>1. ~unstable /\ matched \subseteq M /\ ~Tied(M)
      BY <1>1, <1>9
    <2>2. present' \subseteq M
      BY <1>1, <2>1 DEF ApiInv, PagingInv
    <2>3. ASSUME NEW p \in present' \ seen'
          PROVE  paging' # "done" /\ offset' <= Cardinality(Newer(p)')
      <3>1. PICK i \in 1 .. n : listing[i] = p
        BY <1>5, <2>2, <2>3
      <3>2. Newer(p)' = {r \in M : row[r].startedAt > row[p].startedAt}
        BY <1>1 DEF Newer, tableVars
      <3>3. Cardinality({r \in M : row[r].startedAt > row[listing[i]].startedAt}) = i - 1
        BY <1>4, <2>1, <3>1, PlaceFacts DEF ApiInv, TableInv, n
      <3>4. Cardinality(Newer(p)') = i - 1
        BY <3>1, <3>2, <3>3
      <3>5. offset <= i - 1
        <4>1. CASE paging = "first"
          BY <1>5, <3>1, <4>1 DEF ApiInv, PagingInv
        <4>2. CASE paging # "first"
          <5>1. p \in present \ seen
            BY <1>1, <1>7, <2>3, <4>2
          <5>2. offset <= Cardinality(Newer(p))
            BY <2>1, <5>1 DEF ApiInv, PagingInv
          <5>3. Newer(p) \in SUBSET Newer(p)' /\ IsFiniteSet(Newer(p)')
            <6>1. Newer(p)' \in SUBSET M
              BY <3>2
            <6>2. IsFiniteSet(Newer(p)')
              BY <1>5, <6>1, FS_Subset
            <6>3. Newer(p) \in SUBSET Newer(p)'
              BY <2>1, <3>2 DEF Newer
            <6> QED BY <6>2, <6>3
          <5>4. /\ Cardinality(Newer(p)) <= Cardinality(Newer(p)')
                /\ Cardinality(Newer(p)) \in Nat
            <6> DEFINE before == Newer(p)
                       after == Newer(p)'
            <6>1. IsFiniteSet(after) /\ before \in SUBSET after
              BY <5>3
            <6> HIDE DEF before, after
            <6>2. IsFiniteSet(before) /\ Cardinality(before) <= Cardinality(after)
              BY <6>1, FS_Subset
            <6>3. Cardinality(before) \in Nat
              BY <6>2, FS_CardinalityType
            <6> QED BY <6>2, <6>3 DEF before, after
          <5> QED BY <1>3, <3>1, <3>4, <5>2, <5>4
        <4> QED BY <4>1, <4>2
      <3>6. ~(i <= offset + Len(page))
        <4>1. p \notin Range(page)
          BY <1>7, <2>3
        <4>2. offset < i
          BY <1>3, <1>5, <3>1, <3>5
        <4> QED BY <1>6, <3>1, <4>1, <4>2
      <3>7. ~(Len(page) < limit)
        BY <1>3, <1>5, <1>6, <3>1, <3>5, <3>6
      <3> QED BY <1>3, <1>5, <1>6, <1>7, <3>1, <3>4, <3>6, <3>7
    <2> QED BY <2>2, <2>3
  <1>10. PagingInv'
    <2>1. offset' \in 0 .. Cardinality(Runs)
      BY <1>3, <1>5, <1>6, <1>7
    <2>2. paging' \in {"more", "done"}
      BY <1>7
    <2>3. /\ query' \in Queries /\ seen' \subseteq Runs /\ present' \subseteq Runs
          /\ unstable' \in BOOLEAN
      BY <1>1, <1>4, <1>6, <1>7 DEF ApiInv, PagingInv
    <2>4. matched' \subseteq Stored'
      BY <1>1, <1>4 DEF Stored, tableVars
    <2>5. ~unstable' => /\ present' \subseteq matched'
                        /\ \A p \in present' \ seen' : paging' # "done" /\ offset' <= Cardinality(Newer(p)')
      BY <1>1, <1>9
    <2> QED BY <2>1, <2>2, <2>3, <2>4, <2>5 DEF PagingInv
  <1> QED BY <1>8, <1>10 DEF ApiInv

LEMMA PagingSteps ==
  ASSUME ApiInv, BeginPaging \/ ListRunsRejected
  PROVE  ApiInv'
  <1>1. /\ UNCHANGED <<tableVars, query, offset, seen, present, matched, unstable, latest>>
        /\ \/ paging = "idle" /\ paging' = "first"
           \/ paging = "first" /\ paging' = "done"
    BY DEF BeginPaging, ListRunsRejected
  <1>2. TableInv' /\ LatestInv'
    BY <1>1 DEF ApiInv, TableInv, LatestInv, Of, tableVars
  <1>3. offset = 0 /\ seen = {} /\ present = {} /\ matched = {}
    BY <1>1 DEF ApiInv, PagingInv
  <1>4. PagingInv'
    BY <1>1, <1>3 DEF ApiInv, PagingInv
  <1> QED BY <1>2, <1>4 DEF ApiInv

\* The head of a listing by start is the latest.
LEMMA LatestFacts ==
  ASSUME ApiInv, NEW j \in Watched, LatestRun(j)
  PROVE  \E r \in Of(j) : /\ latest' = [latest EXCEPT ![j] = row[r].startedAt]
                          /\ row[r].startedAt \in 0 .. MaxTime
                          /\ \A q \in Of(j) : row[q].startedAt <= row[r].startedAt
  <1>1. PICK s \in Listings(Of(j)) : s # <<>> /\ latest' = [latest EXCEPT ![j] = row[Head(s)].startedAt]
    BY DEF LatestRun
  <1>2. Of(j) \in SUBSET Runs
    BY DEF Of
  <1>3. /\ s \in Seq(Of(j)) /\ NewestFirst(s) /\ Head(s) = s[1] /\ 1 \in 1 .. Len(s)
        /\ \A q \in Of(j) : \E i \in 1 .. Len(s) : s[i] = q
    BY <1>1, <1>2, ListingFacts
  <1>4. s[1] \in Of(j)
    BY <1>3
  <1>5. \A q \in Of(j) : row[q].startedAt \in 0 .. MaxTime
    <2>1. /\ clock \in 0 .. MaxTime /\ \A q \in Runs : row[q] \in Row /\ row[q].startedAt <= clock
      BY DEF ApiInv, TableInv
    <2>2. \A q \in Runs : row[q].startedAt \in Nat
      BY <2>1 DEF Row
    <2> QED BY <1>2, <2>1, <2>2, ApiAssumption
  <1>6. ASSUME NEW q \in Of(j) PROVE row[q].startedAt <= row[s[1]].startedAt
    <2>1. PICK i \in 1 .. Len(s) : s[i] = q
      BY <1>3
    <2>2. CASE i = 1
      BY <1>5, <2>1, <2>2
    <2>3. CASE i # 1
      <3>1. row[s[1]].startedAt >= row[s[i]].startedAt
        BY <1>3, <2>3, OrderFacts
      <3> QED BY <1>4, <1>5, <2>1, <3>1
    <2> QED BY <2>2, <2>3
  <1> QED BY <1>1, <1>3, <1>4, <1>5, <1>6

LEMMA LatestKeeps ==
  ASSUME ApiInv, NEW j \in Watched, LatestRun(j)
  PROVE  ApiInv'
  <1>1. UNCHANGED <<tableVars, clientVars>>
    BY DEF LatestRun
  <1>2. TableInv' /\ PagingInv'
    BY <1>1 DEF ApiInv, TableInv, PagingInv, Newer, Stored, tableVars, clientVars
  <1>3. PICK r \in Of(j) : /\ latest' = [latest EXCEPT ![j] = row[r].startedAt]
                           /\ row[r].startedAt \in 0 .. MaxTime
    BY LatestFacts
  <1>4. LatestInv'
    <2>1. /\ latest \in [Watched -> -1 .. MaxTime]
          /\ \A i \in Watched : latest[i] = -1 \/ \E q \in Of(i) : latest[i] <= row[q].startedAt
      BY DEF ApiInv, LatestInv
    <2>2. latest' \in [Watched -> -1 .. MaxTime]
      BY <1>3, <2>1
    <2>3. /\ latest'[j] = row[r].startedAt /\ latest'[j] <= row[r].startedAt
          /\ \A i \in Watched : i # j => latest'[i] = latest[i]
      BY <1>3, <2>1, ApiAssumption
    <2>4. row' = row /\ \A i : Of(i)' = Of(i)
      BY <1>1 DEF Of, tableVars
    <2> QED BY <2>1, <2>2, <2>3, <2>4 DEF LatestInv
  <1> QED BY <1>2, <1>4 DEF ApiInv

\* The invariant of the table and of the client's two conversations with it.
THEOREM ApiInvariance == Spec => []ApiInv
  <1>1. ApiInv /\ [Next]_vars => ApiInv'
    BY TableSteps, ListRunsKeeps, PagingSteps, LatestKeeps DEF Next
  <1> QED BY <1>1, ApiInit, PTL DEF Spec

\* Type correctness.
THEOREM ApiTypes == Spec => []TypeOK
  <1>1. ApiInv => TypeOK
    <2> SUFFICES ASSUME ApiInv PROVE TypeOK
      OBVIOUS
    <2>1. /\ clock \in 0 .. MaxTime /\ \A r \in Runs : /\ row[r] \in Row /\ row[r].startedAt <= clock
                                                       /\ row[r].stored => row[r].stamped
                                                       /\ row[r].stamped => row[r].job \in JobNames
      BY DEF ApiInv, TableInv
    <2>2. \A r \in Runs : row[r].status \in ValidStatuses /\ row[r].startedAt \in Nat
      BY <2>1 DEF Row
    <2>3. \A r \in Runs : row[r].startedAt \in 0 .. clock
      BY <2>1, <2>2, ApiAssumption
    <2> QED BY <2>1, <2>2, <2>3 DEF ApiInv, PagingInv, LatestInv, TypeOK, Stored
  <1> QED BY <1>1, ApiInvariance, PTL

\* A client that pages through /runs to the end has seen every run that matched
\* when it began, although runs are inserted and completed between its requests;
\* unless runs have left the result, or started at the same time.
THEOREM PagesShowEverything == Spec => []NothingIsSkipped
  <1>1. ApiInv => NothingIsSkipped
    BY DEF ApiInv, PagingInv, NothingIsSkipped
  <1> QED BY <1>1, ApiInvariance, PTL

\* The started_at of the latest run of a job never goes back between two
\* answers, in whatever order its rows are inserted.
THEOREM LatestNeverGoesBack == Spec => LatestAdvances
  <1>1. ApiInv /\ [Next]_vars => [\A j \in Watched : latest'[j] >= latest[j]]_vars
    <2> SUFFICES ASSUME ApiInv, Next PROVE \A j \in Watched : latest'[j] >= latest[j]
      OBVIOUS
    <2>1. latest \in [Watched -> -1 .. MaxTime] /\ MaxTime \in Nat
      BY ApiAssumption DEF ApiInv, LatestInv
    <2>2. ASSUME latest' = latest PROVE \A j \in Watched : latest'[j] >= latest[j]
      BY <2>1, <2>2
    <2>3. ASSUME NEW j \in Watched, LatestRun(j) PROVE \A i \in Watched : latest'[i] >= latest[i]
      <3>1. PICK r \in Of(j) : /\ latest' = [latest EXCEPT ![j] = row[r].startedAt]
                               /\ row[r].startedAt \in 0 .. MaxTime
                               /\ \A q \in Of(j) : row[q].startedAt <= row[r].startedAt
        BY <2>3, LatestFacts
      <3>2. \A q \in Of(j) : row[q].startedAt \in Nat
        BY DEF ApiInv, TableInv, Row, Of
      <3>3. latest[j] = -1 \/ \E q \in Of(j) : latest[j] <= row[q].startedAt
        BY DEF ApiInv, LatestInv
      <3>4. row[r].startedAt >= latest[j]
        BY <2>1, <3>1, <3>2, <3>3
      <3>5. latest'[j] = row[r].startedAt /\ \A i \in Watched : i # j => latest'[i] = latest[i]
        BY <2>1, <3>1
      <3> QED BY <2>1, <3>4, <3>5
    <2>4. latest' = latest \/ \E j \in Watched : LatestRun(j)
      BY DEF Next, Stamp, Insert, Complete, Tick, BeginPaging, ListRuns, ListRunsRejected, readersVars
    <2> QED BY <2>2, <2>3, <2>4
  <1> QED BY <1>1, ApiInvariance, PTL DEF Spec, LatestAdvances

=============================================================================
