-------------------------- MODULE ReportJobProofs --------------------------
(***************************************************************************)
(* What the attempts of a report job leave on the channel, and what the    *)
(* reports say of the sources that failed: for any services, length of the *)
(* reports, limit of a message and number of attempts.                     *)
(***************************************************************************)
EXTENDS ReportJob, WellFoundedInduction, TLAPS

-----------------------------------------------------------------------------
(* Induction over the naturals, for a set *)

Less == {p \in Nat \X Nat : p[1] < p[2]}

LEMMA SetInduction ==
  ASSUME NEW S, 0 \in S, \A n \in Nat : n \in S => n + 1 \in S
  PROVE  Nat \subseteq S
  <1> DEFINE T == Nat \ S
  <1> SUFFICES ASSUME T # {} PROVE FALSE
    OBVIOUS
  <1>1. IsWellFoundedOn(Less, Nat)
    BY NatLessThanWellFounded DEF OpToRel, Less
  <1>2. \E x \in T : \A y \in T : ~(<<y, x>> \in Less)
    <2>1. T \subseteq Nat
      OBVIOUS
    <2> HIDE DEF T
    <2> QED BY <1>1, <2>1, WFMin
  <1>3. PICK x \in T : \A y \in T : ~(y < x)
    BY <1>2 DEF Less
  <1>4. x - 1 \in Nat /\ x - 1 \in S
    BY <1>3
  <1> QED BY <1>3, <1>4

-----------------------------------------------------------------------------
(* What of the messages is an attempt's *)

Char == Nat \X Nat
Text == Seq(Char)

\* f[k] is what attempt a wrote of the first k messages, for k up to m.
Collects(f, messages, a, m) ==
  f = [k \in 0 .. m |-> IF k = 0 THEN <<>>
                        ELSE IF messages[k][1][1] = a THEN f[k - 1] \o messages[k]
                        ELSE f[k - 1]]

LEMMA CollectsEquation ==
  ASSUME NEW f, NEW messages, NEW a, NEW m \in Nat, Collects(f, messages, a, m), NEW k \in 0 .. m
  PROVE  f[k] = IF k = 0 THEN <<>>
                ELSE IF messages[k][1][1] = a THEN f[k - 1] \o messages[k]
                ELSE f[k - 1]
  BY DEF Collects

LEMMA PostedCollects ==
  ASSUME NEW messages \in Seq(Text), NEW a
  PROVE  \E f : /\ Collects(f, messages, a, Len(messages))
                /\ f[Len(messages)] = Posted(messages, a)
                /\ \A k \in 0 .. Len(messages) : f[k] \in Text
  <1> DEFINE n == Len(messages)
             A == {m \in Nat : m <= n => \E f : Collects(f, messages, a, m)}
  <1>0. n \in Nat
    OBVIOUS
  <1>1. 0 \in A
    <2>1. Collects([k \in 0 .. 0 |-> <<>>], messages, a, 0)
      BY DEF Collects
    <2> QED BY <2>1
  <1>2. ASSUME NEW m \in Nat, m \in A PROVE m + 1 \in A
    <2> SUFFICES ASSUME m + 1 <= n PROVE \E f : Collects(f, messages, a, m + 1)
      OBVIOUS
    <2>1. PICK f : Collects(f, messages, a, m)
      BY <1>0, <1>2
    <2> DEFINE next == IF messages[m + 1][1][1] = a THEN f[m] \o messages[m + 1] ELSE f[m]
               g == [k \in 0 .. m + 1 |-> IF k = m + 1 THEN next ELSE f[k]]
    <2>2. \A k \in 0 .. m : g[k] = f[k]
      BY <1>2
    <2> DEFINE Right(k) == g[k] = IF k = 0 THEN <<>>
                                  ELSE IF messages[k][1][1] = a THEN g[k - 1] \o messages[k]
                                  ELSE g[k - 1]
    <2>3. ASSUME NEW k \in 0 .. m PROVE Right(k)
      <3>1. g[k] = f[k] /\ (k # 0 => g[k - 1] = f[k - 1])
        BY <1>2, <2>2, <2>3
      <3> HIDE DEF g
      <3> QED BY <1>2, <2>1, <2>3, <3>1, CollectsEquation
    <2>4. Right(m + 1)
      <3>1. g[m + 1] = next /\ g[m + 1 - 1] = f[m] /\ m + 1 # 0
        BY <1>2, <2>2
      <3> HIDE DEF g
      <3> QED BY <3>1
    <2>5. Collects(g, messages, a, m + 1)
      <3>1. g = [k \in 0 .. m + 1 |-> g[k]]
        OBVIOUS
      <3>2. \A k \in 0 .. m + 1 : Right(k)
        <4> HIDE DEF g, Right
        <4>1. \A k \in 0 .. m + 1 : k \in 0 .. m \/ k = m + 1
          BY <1>2
        <4> QED BY <2>3, <2>4, <4>1
      <3> HIDE DEF g
      <3> QED BY <3>1, <3>2 DEF Collects
    <2> QED BY <2>5
  <1>3. Nat \subseteq A
    <2> HIDE DEF A
    <2> QED BY <1>1, <1>2, SetInduction
  <1> DEFINE upTo == CHOOSE f : Collects(f, messages, a, n)
  <1>4. Collects(upTo, messages, a, n)
    <2>1. \E f : Collects(f, messages, a, n)
      BY <1>0, <1>3
    <2> QED BY <2>1
  <1>5. Posted(messages, a) = upTo[n]
    BY DEF Posted, Collects
  <1> DEFINE B == {m \in Nat : m <= n => upTo[m] \in Text}
  <1>6. Nat \subseteq B
    <2> HIDE DEF upTo
    <2>1. 0 \in B
      BY <1>0, <1>4 DEF Collects, Text
    <2>2. ASSUME NEW m \in Nat, m \in B PROVE m + 1 \in B
      <3> SUFFICES ASSUME m + 1 <= n PROVE upTo[m + 1] \in Text
        OBVIOUS
      <3>1. upTo[m] \in Text /\ messages[m + 1] \in Text
        BY <1>0, <2>2
      <3>2. upTo[m + 1] = IF messages[m + 1][1][1] = a THEN upTo[m] \o messages[m + 1] ELSE upTo[m]
        BY <1>0, <1>4 DEF Collects
      <3> QED BY <3>1, <3>2 DEF Text
    <2> HIDE DEF B
    <2> QED BY <2>1, <2>2, SetInduction
  <1> HIDE DEF upTo
  <1> QED BY <1>4, <1>5, <1>6

LEMMA PostedType ==
  ASSUME NEW messages \in Seq(Text), NEW a
  PROVE  Posted(messages, a) \in Text
  BY PostedCollects

LEMMA PostedOfNothing ==
  ASSUME NEW a
  PROVE  Posted(<<>>, a) = <<>>
  <1>1. <<>> \in Seq(Text) /\ Len(<<>>) = 0
    OBVIOUS
  <1>2. PICK f : Collects(f, <<>>, a, 0) /\ f[0] = Posted(<<>>, a)
    BY <1>1, PostedCollects
  <1> QED BY <1>2 DEF Collects

\* A message more is one more of the attempt that wrote it, and of no other.
LEMMA PostedAppend ==
  ASSUME NEW messages \in Seq(Text), NEW message \in Text, NEW a
  PROVE  Posted(Append(messages, message), a) =
           IF message[1][1] = a THEN Posted(messages, a) \o message ELSE Posted(messages, a)
  <1> DEFINE n == Len(messages)
             longer == Append(messages, message)
  <1>1. /\ longer \in Seq(Text) /\ Len(longer) = n + 1 /\ n \in Nat
        /\ longer[n + 1] = message /\ \A k \in 1 .. n : longer[k] = messages[k]
    OBVIOUS
  <1> HIDE DEF longer
  <1>2. PICK f : Collects(f, messages, a, n) /\ f[n] = Posted(messages, a)
    BY PostedCollects
  <1>3. PICK g : Collects(g, longer, a, n + 1) /\ g[n + 1] = Posted(longer, a)
    BY <1>1, PostedCollects
  <1> DEFINE A == {k \in Nat : k <= n => f[k] = g[k]}
  <1>4. 0 \in A
    BY <1>1, <1>2, <1>3 DEF Collects
  <1>5. ASSUME NEW k \in Nat, k \in A PROVE k + 1 \in A
    <2> SUFFICES ASSUME k + 1 <= n PROVE f[k + 1] = g[k + 1]
      OBVIOUS
    <2>1. f[k] = g[k] /\ longer[k + 1] = messages[k + 1]
      BY <1>1, <1>5
    <2>2. f[k + 1] = IF messages[k + 1][1][1] = a THEN f[k] \o messages[k + 1] ELSE f[k]
      <3>1. k + 1 \in 0 .. n /\ k + 1 # 0 /\ (k + 1) - 1 = k
        BY <1>1
      <3> QED BY <1>1, <1>2, <3>1, CollectsEquation
    <2>3. g[k + 1] = IF longer[k + 1][1][1] = a THEN g[k] \o longer[k + 1] ELSE g[k]
      <3>1. k + 1 \in 0 .. n + 1 /\ k + 1 # 0 /\ (k + 1) - 1 = k /\ n + 1 \in Nat
        BY <1>1
      <3> QED BY <1>1, <1>3, <3>1, CollectsEquation
    <2> QED BY <2>1, <2>2, <2>3
  <1>6. Nat \subseteq A
    <2> HIDE DEF A
    <2> QED BY <1>4, <1>5, SetInduction
  <1>7. g[n] = f[n]
    BY <1>1, <1>6
  <1>8. g[n + 1] = IF message[1][1] = a THEN g[n] \o message ELSE g[n]
    BY <1>1, <1>3 DEF Collects
  <1> QED BY <1>2, <1>3, <1>7, <1>8 DEF longer

-----------------------------------------------------------------------------
(* The messages of a report *)

Number(message) == (Len(message) + MessageLimit - 1) \div MessageLimit

\* How much of a report its first k messages hold.
Held(message, k) ==
  IF k * MessageLimit < Len(message) THEN k * MessageLimit ELSE Len(message)

LEMMA NumberFacts ==
  ASSUME NEW n \in Nat \ {0}, NEW limit \in Nat \ {0}
  PROVE  LET count == (n + limit - 1) \div limit
         IN  /\ count \in Nat \ {0} /\ count * limit >= n
             /\ \A k \in Nat : k < count => k * limit < n
             /\ \A k \in Nat : k * limit \in Nat /\ (k + 1) * limit = k * limit + limit
  OBVIOUS

\* Each message is short enough, says something, and continues the ones before;
\* all of them hold the whole report.
LEMMA ChunkFacts ==
  ASSUME NEW message \in Text, message # <<>>
  PROVE  LET pieces == Chunks(message)
             count  == Number(message)
         IN  /\ pieces \in Seq(Text) /\ Len(pieces) = count /\ count \in Nat \ {0}
             /\ Held(message, 0) = 0 /\ Held(message, count) = Len(message)
             /\ \A k \in 0 .. count - 1 :
                  LET piece == pieces[k + 1]
                  IN  /\ Len(piece) \in 1 .. MessageLimit
                      /\ Held(message, k) < Len(message) /\ Held(message, k) \in Nat
                      /\ piece[1] = message[Held(message, k) + 1]
                      /\ SubSeq(message, 1, Held(message, k)) \o piece
                           = SubSeq(message, 1, Held(message, k + 1))
  <1> DEFINE n == Len(message)
             count == Number(message)
             pieces == Chunks(message)
  <1>1. n \in Nat \ {0} /\ MessageLimit \in Nat \ {0}
    BY ReportAssumption DEF Text
  <1>2. /\ count \in Nat \ {0} /\ count * MessageLimit >= n
        /\ \A k \in Nat : k < count => k * MessageLimit < n
        /\ \A k \in Nat : k * MessageLimit \in Nat /\ (k + 1) * MessageLimit = k * MessageLimit + MessageLimit
    BY <1>1, NumberFacts DEF Number
  <1>3. pieces = [c \in 1 .. count |->
                    SubSeq(message, (c - 1) * MessageLimit + 1,
                           IF c * MessageLimit < n THEN c * MessageLimit ELSE n)]
    BY DEF Chunks, Number
  <1>4. Held(message, 0) = 0 /\ Held(message, count) = n
    BY <1>1, <1>2 DEF Held
  <1> HIDE DEF count
  <1>5. ASSUME NEW k \in 0 .. count - 1
        PROVE  /\ pieces[k + 1] = SubSeq(message, Held(message, k) + 1, Held(message, k + 1))
               /\ Held(message, k) \in Nat /\ Held(message, k + 1) \in Nat
               /\ Held(message, k) < n /\ Held(message, k) < Held(message, k + 1)
               /\ Held(message, k + 1) <= n
               /\ Held(message, k + 1) <= Held(message, k) + MessageLimit
    <2> DEFINE before == k * MessageLimit
    <2>1. k \in Nat /\ k < count /\ k + 1 \in 1 .. count /\ (k + 1) - 1 = k
      BY <1>2
    <2>2. before \in Nat /\ before < n /\ (k + 1) * MessageLimit = before + MessageLimit
      BY <1>2, <2>1
    <2>3. Held(message, k) = before /\ Held(message, k + 1) = IF before + MessageLimit < n THEN before + MessageLimit ELSE n
      BY <2>2 DEF Held
    <2>4. pieces[k + 1] = SubSeq(message, before + 1, IF before + MessageLimit < n THEN before + MessageLimit ELSE n)
      BY <1>3, <2>1, <2>2
    <2> HIDE DEF before
    <2> QED BY <1>1, <2>2, <2>3, <2>4
  <1>6. ASSUME NEW k \in 0 .. count - 1
        PROVE  LET piece == pieces[k + 1]
               IN  /\ piece \in Text /\ Len(piece) \in 1 .. MessageLimit
                   /\ Held(message, k) < Len(message) /\ Held(message, k) \in Nat
                   /\ piece[1] = message[Held(message, k) + 1]
                   /\ SubSeq(message, 1, Held(message, k)) \o piece
                        = SubSeq(message, 1, Held(message, k + 1))
    <2> DEFINE a == Held(message, k)
               b == Held(message, k + 1)
               piece == SubSeq(message, a + 1, b)
    <2>1. /\ a \in Nat /\ b \in Nat /\ a < b /\ b <= n /\ b <= a + MessageLimit
          /\ pieces[k + 1] = piece
      BY <1>5
    <2> HIDE DEF a, b, pieces
    <2>2. /\ piece \in Text /\ Len(piece) = b - a
          /\ \A i \in 1 .. b - a : piece[i] = message[a + i]
      BY <1>1, <2>1 DEF Text
    <2>3. SubSeq(message, 1, a) \o piece = SubSeq(message, 1, b)
      BY <1>1, <2>1 DEF Text
    <2>4. Len(piece) \in 1 .. MessageLimit /\ piece[1] = message[a + 1]
      BY <1>1, <2>1, <2>2
    <2>5. pieces[k + 1] = piece /\ piece \in Text /\ a \in Nat /\ a < n
      BY <2>1, <2>2
    <2> HIDE DEF piece
    <2> QED BY <2>3, <2>4, <2>5 DEF a, b
  <1>7. pieces \in Seq(Text) /\ Len(pieces) = count
    <2>1. \A c \in 1 .. count : pieces[c] \in Text
      <3> SUFFICES ASSUME NEW c \in 1 .. count PROVE pieces[c] \in Text
        OBVIOUS
      <3>1. c - 1 \in 0 .. count - 1 /\ (c - 1) + 1 = c
        BY <1>2
      <3> HIDE DEF pieces
      <3> QED BY <1>6, <3>1
    <2>2. pieces = [c \in 1 .. count |-> pieces[c]]
      BY <1>3
    <2> HIDE DEF pieces
    <2> QED BY <1>2, <2>1, <2>2
  <1> HIDE DEF pieces
  <1> QED BY <1>2, <1>4, <1>6, <1>7 DEF count, pieces

-----------------------------------------------------------------------------
(* Invariants *)

Fates == {"success", "error", "unanswered", "killed"}

\* TypeOK, with the sequences.
JobType ==
  /\ TypeOK
  /\ report \in Seq(Text) /\ channel \in Seq(Text) /\ chunks \in Seq(Text)
  /\ fate \in Seq(Fates)

\* An attempt has written nothing before it has a report, and a later one
\* nothing at all; while it posts, the channel has as much of its report as the
\* messages that are left do not hold.
Unreported(a) == report[a] = <<>> /\ PostedBy(a) = <<>>

PostingInv ==
  /\ \A i \in DOMAIN channel : Len(channel[i]) \in 1 .. MessageLimit
  /\ \A a \in Nat : a > attempt => PostedBy(a) = <<>>
  /\ pc \in {"main", "connect", "fetch", "summarize"} => Unreported(attempt)
  /\ pc \in {"post", "sent"} =>
       LET message == report[attempt]
           count   == Number(message)
       IN  /\ message # <<>>
           /\ \A i \in DOMAIN message : message[i][1] = attempt
           /\ \E k \in 0 .. count :
                /\ chunks = SubSeq(Chunks(message), k + 1, count)
                /\ PostedBy(attempt) = SubSeq(message, 1, Held(message, k))

\* What the end of an attempt says of the channel: an error was noticed before
\* the last message was sent.
EndInv ==
  /\ \A a \in Attempts : IsPrefix(PostedBy(a), report[a])
  /\ \A a \in DOMAIN fate :
       /\ fate[a] = "success" => PostedBy(a) = report[a]
       /\ fate[a] = "error" => report[a] = <<>> \/ PostedBy(a) # report[a]
       /\ a < attempt => fate[a] # "success"

\* Only one source of an attempt fails; the transaction is lost with it.
FetchInv ==
  /\ failed = {} => ~aborted /\ \A i \in DOMAIN results : results[i] # "error"
  /\ failed # {} =>
       /\ script.database => aborted
       /\ \E i \in DOMAIN results :
            /\ failed = {script.sources[i]} /\ results[i] = "error"
            /\ \A k \in DOMAIN results : k < i => results[k] # "error"

JobInv == JobType /\ PostingInv /\ EndInv /\ FetchInv

LEMMA AppendFacts ==
  ASSUME NEW S, NEW s \in Seq(S), NEW e \in S
  PROVE  /\ Append(s, e) \in Seq(S) /\ Len(s) \in Nat /\ Len(Append(s, e)) = Len(s) + 1
         /\ DOMAIN s = 1 .. Len(s) /\ DOMAIN Append(s, e) = 1 .. Len(s) + 1
         /\ Append(s, e)[Len(s) + 1] = e
         /\ \A i \in 1 .. Len(s) : Append(s, e)[i] = s[i]
  OBVIOUS

LEMMA ScriptFacts ==
  ASSUME script \in Scripts
  PROVE  /\ script.sources \in Seq(Range(script.sources)) /\ script.database \in BOOLEAN
         /\ \A i, k \in DOMAIN script.sources : script.sources[i] = script.sources[k] => i = k
         /\ ~script.database => Len(script.sources) = 1
  <1>1. CASE script = DailyIngestion
    BY <1>1, ReportAssumption DEF DailyIngestion, IsInjective
  <1>2. ASSUME NEW s, script.sources = <<s>> PROVE /\ script.sources \in Seq(Range(script.sources))
                                                 /\ Len(script.sources) = 1
                                                 /\ DOMAIN script.sources = {1}
    BY <1>2 DEF Range
  <1>3. CASE script \in {StreamingStatus, StickyNotes, DailyTrades}
    <2>1. script = StreamingStatus => script.database \in BOOLEAN /\ script.sources = <<"replay_sessions">>
      BY DEF StreamingStatus
    <2>2. script = StickyNotes => script.database \in BOOLEAN /\ script.sources = <<"sticky_notes">>
      BY DEF StickyNotes
    <2>3. script = DailyTrades => script.database \in BOOLEAN /\ script.sources = <<"pnl">>
      BY DEF DailyTrades
    <2>4. script.database \in BOOLEAN /\ \E s : script.sources = <<s>>
      BY <1>3, <2>1, <2>2, <2>3
    <2> QED BY <2>4, <1>2
  <1> QED BY <1>1, <1>3 DEF Scripts

LEMMA JobInit == Init => JobInv
  <1> SUFFICES ASSUME Init PROVE JobInv
    OBVIOUS
  <1>1. /\ report = <<<<>>>> /\ channel = <<>> /\ chunks = <<>> /\ fate = <<>> /\ results = <<>>
        /\ failed = {} /\ aborted = FALSE /\ attempt = 1 /\ pc = "main" /\ script \in Scripts
    BY DEF Init
  <1>2. Len(script.sources) \in Nat
    BY <1>1, ScriptFacts
  <1>3. JobType
    <2>1. /\ report \in Seq(Text) /\ Len(report) = 1 /\ channel \in Seq(Text) /\ chunks \in Seq(Text)
          /\ fate \in Seq(Fates) /\ Len(fate) = 0
          /\ results \in Seq({"row", "nothing", "error"}) /\ Len(results) = 0
      <3>1. <<>> \in Text
        BY DEF Text
      <3> QED BY <1>1, <3>1
    <2>2. broken \subseteq Sources /\ configured \in BOOLEAN /\ attempt \in 1 .. MaxAttempts
      BY <1>1, ReportAssumption DEF Init
    <2>3. \A i \in DOMAIN fate : fate[i] \in Fates
      BY <1>1
    <2>4. Len(results) <= Len(script.sources) /\ Len(fate) = attempt - 1
      BY <1>1, <1>2, <2>1
    <2>5. TypeOK
      BY <1>1, <2>1, <2>2, <2>3, <2>4 DEF TypeOK, Fates
    <2> QED BY <2>1, <2>5 DEF JobType
  <1>4. \A a : PostedBy(a) = <<>>
    BY <1>1, PostedOfNothing DEF PostedBy
  <1>5. PostingInv
    BY <1>1, <1>4 DEF PostingInv, Unreported
  <1>6. EndInv
    BY <1>1, <1>4 DEF EndInv, Attempts, IsPrefix
  <1>7. FetchInv
    BY <1>1 DEF FetchInv
  <1> QED BY <1>3, <1>5, <1>6, <1>7 DEF JobInv

-----------------------------------------------------------------------------
(* Steps *)

\* main is still before its first message.
Preparing == {"main", "connect", "fetch", "summarize"}

LEMMA PreparingKeeps ==
  ASSUME JobInv, JobType', FetchInv', pc \in Preparing, pc' \in Preparing,
         UNCHANGED <<attempt, postVars, fate>>
  PROVE  JobInv'
  <1>1. \A a : PostedBy(a)' = PostedBy(a)
    BY DEF PostedBy, postVars
  <1>2. PostingInv'
    BY <1>1 DEF JobInv, PostingInv, Unreported, postVars, Preparing
  <1>3. EndInv'
    BY <1>1 DEF JobInv, EndInv, Attempts, postVars
  <1> QED BY <1>2, <1>3 DEF JobInv

LEMMA EndKeeps ==
  ASSUME JobInv, NEW how \in Fates, pc \notin {"ended", "over"}, End(how),
         UNCHANGED <<jobVars, attempt, fetchVars, postVars>>,
         how = "success" => PostedBy(attempt) = report[attempt],
         how = "error" => report[attempt] = <<>> \/ PostedBy(attempt) # report[attempt]
  PROVE  JobInv'
  <1>1. pc' = "ended" /\ fate' = Append(fate, how)
    BY DEF End
  <1>2. /\ fate \in Seq(Fates) /\ Len(fate) = attempt - 1 /\ attempt \in Nat \ {0}
    BY ReportAssumption DEF JobInv, JobType, TypeOK
  <1>3. /\ fate' \in Seq(Fates) /\ Len(fate') = attempt /\ DOMAIN fate' = 1 .. attempt
        /\ \A a \in DOMAIN fate' : IF a = attempt THEN fate'[a] = how
                                   ELSE a \in DOMAIN fate /\ fate'[a] = fate[a]
    BY <1>1, <1>2
  <1>4. \A a : PostedBy(a)' = PostedBy(a)
    BY DEF PostedBy, postVars
  <1>5. JobType'
    <2>1. TypeOK'
      BY <1>1, <1>3 DEF JobInv, JobType, TypeOK, jobVars, fetchVars, postVars, Fates, Sources
    <2> QED BY <1>3, <2>1 DEF JobInv, JobType, postVars
  <1>6. PostingInv'
    BY <1>1, <1>4 DEF JobInv, PostingInv, postVars
  <1>7. EndInv'
    <2>1. \A a \in Attempts' : IsPrefix(PostedBy(a), report[a])'
      BY <1>4 DEF JobInv, EndInv, Attempts, postVars
    <2>2. ASSUME NEW a \in DOMAIN fate'
          PROVE  /\ fate'[a] = "success" => PostedBy(a)' = report'[a]
                 /\ fate'[a] = "error" => report'[a] = <<>> \/ PostedBy(a)' # report'[a]
                 /\ a < attempt' => fate'[a] # "success"
      <3>1. CASE a = attempt
        BY <1>2, <1>3, <1>4, <3>1 DEF postVars
      <3>2. CASE a # attempt
        BY <1>3, <1>4, <3>2 DEF JobInv, EndInv, postVars
      <3> QED BY <3>1, <3>2
    <2> QED BY <2>1, <2>2 DEF EndInv
  <1>8. FetchInv'
    BY DEF JobInv, FetchInv, fetchVars, jobVars
  <1> QED BY <1>5, <1>6, <1>7, <1>8 DEF JobInv

\* A query or a request: the source that fails is the one it asked.
LEMMA FetchKeeps ==
  ASSUME JobInv, Query \/ GetPnl
  PROVE  JobInv'
  <1>1. /\ pc = "fetch" /\ pc' = "fetch" /\ Len(results) < Len(script.sources)
        /\ UNCHANGED <<jobVars, attempt, broken, postVars, fate>>
    BY DEF Query, GetPnl, Fetching
  <1>2. /\ script.sources \in Seq(Range(script.sources)) /\ script.database \in BOOLEAN
        /\ \A i, k \in DOMAIN script.sources : script.sources[i] = script.sources[k] => i = k
        /\ ~script.database => Len(script.sources) = 1
    BY ScriptFacts DEF JobInv, JobType, TypeOK
  <1> DEFINE n == Len(results)
  <1>3. results \in Seq({"row", "nothing", "error"}) /\ n \in Nat /\ DOMAIN results = 1 .. n
    BY DEF JobInv, JobType, TypeOK
  <1>4. n + 1 \in DOMAIN script.sources /\ NextSource \in Sources
    <2>1. n + 1 \in DOMAIN script.sources
      <3> HIDE DEF n
      <3> QED BY <1>1, <1>2, <1>3 DEF n
    <2> QED BY <2>1 DEF NextSource, Sources, Range
  <1>5. PICK r \in {"row", "nothing", "error"} : results' = Append(results, r)
    BY DEF Query, GetPnl
  <1>6. /\ Len(results') = n + 1 /\ DOMAIN results' = 1 .. n + 1 /\ results'[n + 1] = r
        /\ \A i \in 1 .. n : results'[i] = results[i]
        /\ results' \in Seq({"row", "nothing", "error"})
    <2>1. Append(results, r) \in Seq({"row", "nothing", "error"})
      BY <1>3
    <2> QED BY <1>3, <1>5, <2>1
  <1>7. NextSource = script.sources[n + 1]
    BY DEF NextSource
  <1> HIDE DEF n
  <1>8. CASE Query
    <2>1. /\ script.database
          /\ IF aborted THEN UNCHANGED failed ELSE Fails(NextSource)
          /\ aborted' = (aborted \/ failed' # failed)
          /\ aborted' <=> r = "error"
      <3>1. \E q \in IF aborted' THEN {"error"} ELSE {"row", "nothing"} : results' = Append(results, q)
        BY <1>8 DEF Query
      <3>2. r \in IF aborted' THEN {"error"} ELSE {"row", "nothing"}
        <4>1. PICK q \in IF aborted' THEN {"error"} ELSE {"row", "nothing"} : results' = Append(results, q)
          BY <3>1
        <4>2. Append(results, q)[n + 1] = q
          BY <1>3, AppendFacts DEF n
        <4> QED BY <1>6, <4>1, <4>2
      <3>3. aborted' = (aborted \/ failed' # failed)
        BY <1>8 DEF Query
      <3> QED BY <1>8, <3>2, <3>3 DEF Query
    <2>2. aborted \in BOOLEAN /\ (aborted <=> failed # {})
      BY <2>1 DEF JobInv, JobType, TypeOK, FetchInv
    <2>3. failed' \subseteq Sources /\ aborted' \in BOOLEAN
      BY <1>4, <2>1 DEF Fails, JobInv, JobType, TypeOK
    <2>4. JobType'
      BY <1>1, <1>2, <1>3, <1>6, <2>3 DEF JobInv, JobType, TypeOK, jobVars, postVars, Sources
    <2>5. FetchInv'
      <3>1. CASE aborted
        <4>1. failed' = failed /\ failed # {} /\ aborted'
          BY <2>1, <2>2, <3>1
        <4>2. PICK i \in DOMAIN results :
                /\ failed = {script.sources[i]} /\ results[i] = "error"
                /\ \A k \in DOMAIN results : k < i => results[k] # "error"
          BY <4>1 DEF JobInv, FetchInv
        <4>3. i \in DOMAIN results' /\ results'[i] = "error" /\ \A k \in DOMAIN results' : k < i => results'[k] # "error"
          BY <1>3, <1>6, <4>2
        <4> QED BY <1>1, <4>1, <4>2, <4>3 DEF FetchInv, jobVars
      <3>2. CASE ~aborted /\ NextSource \in broken
        <4>1. failed' = {NextSource} /\ aborted' /\ r = "error"
          BY <2>1, <2>2, <3>2 DEF Fails
        <4>2. \A k \in DOMAIN results' : k < n + 1 => results'[k] # "error"
          BY <1>3, <1>6, <2>2, <3>2 DEF JobInv, FetchInv
        <4>3. script'.sources[n + 1] = NextSource /\ n + 1 \in DOMAIN results'
          BY <1>1, <1>3, <1>6, <1>7 DEF jobVars
        <4> QED BY <1>6, <4>1, <4>2, <4>3 DEF FetchInv
      <3>3. CASE ~aborted /\ NextSource \notin broken
        <4>1. failed' = {} /\ ~aborted' /\ r # "error"
          BY <2>1, <2>2, <3>3 DEF Fails
        <4> QED BY <1>3, <1>6, <2>2, <3>3, <4>1 DEF FetchInv, JobInv
      <3> QED BY <2>2, <3>1, <3>2, <3>3
    <2> QED BY <1>1, <2>4, <2>5, PreparingKeeps DEF Preparing
  <1>9. CASE GetPnl
    <2>1. ~script.database /\ Fails(NextSource) /\ aborted' = aborted
      BY <1>9 DEF GetPnl
    <2>2. n = 0 /\ failed = {} /\ aborted = FALSE
      <3>1. n = 0
        BY <1>1, <1>2, <1>3, <2>1 DEF n
      <3> QED BY <1>3, <3>1 DEF JobInv, JobType, TypeOK, FetchInv
    <2>3. r = IF NextSource \in broken THEN "error" ELSE "row"
      <3>1. results' = Append(results, IF NextSource \in broken THEN "error" ELSE "row")
        BY <1>9 DEF GetPnl
      <3>2. Append(results, IF NextSource \in broken THEN "error" ELSE "row")[n + 1]
              = IF NextSource \in broken THEN "error" ELSE "row"
        BY <1>3 DEF n
      <3> QED BY <1>6, <3>1, <3>2
    <2>4. failed' = IF NextSource \in broken THEN {NextSource} ELSE {}
      BY <2>1, <2>2 DEF Fails
    <2>5. JobType'
      BY <1>1, <1>2, <1>3, <1>6, <2>1, <2>4 DEF JobInv, JobType, TypeOK, jobVars, postVars, Sources
    <2>6. DOMAIN results' = {1} /\ results'[1] = r /\ script'.sources[1] = NextSource
      BY <1>1, <1>6, <1>7, <2>2 DEF jobVars
    <2>7. FetchInv'
      BY <1>1, <2>1, <2>2, <2>3, <2>4, <2>6 DEF FetchInv, jobVars
    <2> QED BY <1>1, <2>5, <2>7, PreparingKeeps DEF Preparing
  <1> QED BY <1>8, <1>9

LEMMA PreparingSteps ==
  ASSUME JobInv, Start \/ Connect \/ EndFetch
  PROVE  JobInv'
  <1>1. /\ pc \in Preparing /\ pc' \in Preparing
        /\ UNCHANGED <<jobVars, attempt, fetchVars, postVars, fate>>
    BY DEF Start, Connect, EndFetch, Preparing
  <1>2. JobType'
    <2>1. TypeOK'
      BY <1>1 DEF JobInv, JobType, TypeOK, Preparing, jobVars, fetchVars, postVars, Sources
    <2> QED BY <1>1, <2>1 DEF JobInv, JobType, postVars
  <1>3. FetchInv'
    BY <1>1 DEF JobInv, FetchInv, fetchVars, jobVars
  <1> QED BY <1>1, <1>2, <1>3, PreparingKeeps

\* While messages are left, the channel does not have the whole report; when
\* none is left it has.
LEMMA PostingFacts ==
  ASSUME JobInv, pc = "post"
  PROVE  /\ chunks # <<>> => PostedBy(attempt) # report[attempt]
         /\ chunks = <<>> => PostedBy(attempt) = report[attempt]
  <1> DEFINE message == report[attempt]
             count == Number(message)
             pieces == Chunks(message)
  <1>1. message \in Text /\ message # <<>>
    <2>1. report \in Seq(Text) /\ attempt \in DOMAIN report
      BY ReportAssumption DEF JobInv, JobType, TypeOK
    <2> QED BY <2>1 DEF JobInv, PostingInv
  <1>2. PICK k \in 0 .. count : /\ chunks = SubSeq(pieces, k + 1, count)
                                /\ PostedBy(attempt) = SubSeq(message, 1, Held(message, k))
    BY DEF JobInv, PostingInv
  <1>3. /\ pieces \in Seq(Text) /\ Len(pieces) = count /\ count \in Nat \ {0}
        /\ Held(message, count) = Len(message)
        /\ k < count => Held(message, k) \in Nat /\ Held(message, k) < Len(message)
    BY <1>1, ChunkFacts
  <1> HIDE DEF message, count, pieces
  <1>4. CASE k < count
    <2>1. Len(chunks) = count - k /\ Len(chunks) > 0
      BY <1>2, <1>3, <1>4
    <2>2. Len(PostedBy(attempt)) = Held(message, k)
      BY <1>1, <1>2, <1>3, <1>4 DEF Text
    <2> QED BY <1>3, <1>4, <2>1, <2>2 DEF message
  <1>5. CASE k = count
    <2>1. chunks = <<>>
      BY <1>2, <1>3, <1>5
    <2>2. PostedBy(attempt) = message
      BY <1>1, <1>2, <1>3, <1>5 DEF Text
    <2> QED BY <2>1, <2>2 DEF message
  <1>6. k < count \/ k = count
    BY <1>3
  <1> QED BY <1>4, <1>5, <1>6

LEMMA EndingSteps ==
  ASSUME JobInv,
         \/ Misconfigured \/ ConnectFails \/ SummarizeFails \/ PostFails
         \/ Unanswered \/ Succeed \/ Kill
  PROVE  JobInv'
  <1>1. UNCHANGED <<jobVars, attempt, fetchVars, postVars>> /\ pc \notin {"ended", "over"}
    BY DEF Misconfigured, ConnectFails, SummarizeFails, PostFails, Unanswered, Succeed, Kill
  <1>2. CASE Misconfigured \/ ConnectFails \/ SummarizeFails
    <2>1. End("error") /\ report[attempt] = <<>>
      BY <1>2 DEF Misconfigured, ConnectFails, SummarizeFails, JobInv, PostingInv, Unreported
    <2> QED BY <1>1, <2>1, EndKeeps DEF Fates
  <1>3. CASE PostFails
    <2>1. End("error") /\ PostedBy(attempt) # report[attempt]
      BY <1>3, PostingFacts DEF PostFails
    <2> QED BY <1>1, <2>1, EndKeeps DEF Fates
  <1>4. CASE Unanswered
    BY <1>1, <1>4, EndKeeps DEF Unanswered, Fates
  <1>5. CASE Succeed
    <2>1. End("success") /\ PostedBy(attempt) = report[attempt]
      BY <1>5, PostingFacts DEF Succeed
    <2> QED BY <1>1, <2>1, EndKeeps DEF Fates
  <1>6. CASE Kill
    BY <1>1, <1>6, EndKeeps DEF Kill, Fates
  <1> QED BY <1>2, <1>3, <1>4, <1>5, <1>6

LEMMA AttemptFacts ==
  ASSUME JobInv
  PROVE  /\ attempt \in Nat \ {0} /\ DOMAIN report = 1 .. attempt /\ report[attempt] \in Text
         /\ DOMAIN fate = 1 .. IF pc \in {"ended", "over"} THEN attempt ELSE attempt - 1
         /\ \A a \in Attempts : report[a] \in Text
  <1>1. report \in Seq(Text) /\ Len(report) = attempt /\ attempt \in Nat \ {0} /\ fate \in Seq(Fates)
    BY ReportAssumption DEF JobInv, JobType, TypeOK
  <1>2. Len(fate) = IF pc \in {"ended", "over"} THEN attempt ELSE attempt - 1
    BY DEF JobInv, JobType, TypeOK
  <1> QED BY <1>1, <1>2 DEF Attempts

LEMMA SummarizeKeeps ==
  ASSUME JobInv, Summarize
  PROVE  JobInv'
  <1> DEFINE text(n) == [i \in 1 .. n |-> <<attempt, i>>]
  <1>1. PICK n \in 1 .. MaxLength : /\ report' = [report EXCEPT ![attempt] = text(n)]
                                   /\ chunks' = Chunks(text(n))
    BY DEF Summarize
  <1> DEFINE message == text(n)
             count == Number(message)
             pieces == Chunks(message)
  <1>2. pc = "summarize" /\ pc' = "post" /\ UNCHANGED <<jobVars, attempt, fetchVars, channel, fate>>
    BY DEF Summarize
  <1>3. /\ attempt \in Nat \ {0} /\ DOMAIN report = 1 .. attempt /\ report \in Seq(Text)
        /\ DOMAIN fate = 1 .. attempt - 1
    BY <1>2, AttemptFacts DEF JobInv, JobType
  <1>4. /\ message \in Text /\ message # <<>>
        /\ \A i \in DOMAIN message : message[i][1] = attempt
    <2>1. n \in Nat \ {0}
      BY ReportAssumption
    <2>2. \A i \in 1 .. n : <<attempt, i>> \in Char
      BY <1>3, <2>1 DEF Char
    <2> QED BY <2>1, <2>2 DEF Text
  <1> HIDE DEF message
  <1>5. /\ pieces \in Seq(Text) /\ Len(pieces) = count /\ count \in Nat \ {0} /\ Held(message, 0) = 0
    BY <1>4, ChunkFacts
  <1> HIDE DEF pieces, count
  <1>6. /\ report' \in Seq(Text) /\ Len(report') = attempt /\ report'[attempt] = message
        /\ \A a \in Attempts : a # attempt => report'[a] = report[a]
    BY <1>1, <1>3, <1>4 DEF Attempts, message
  <1>7. chunks' = pieces
    BY <1>1 DEF pieces, message
  <1>8. (\A a : PostedBy(a)' = PostedBy(a)) /\ PostedBy(attempt) = <<>>
    BY <1>2 DEF PostedBy, JobInv, PostingInv, Unreported
  <1>9. JobType'
    <2>1. TypeOK'
      BY <1>2, <1>6 DEF JobInv, JobType, TypeOK, jobVars, fetchVars, Sources
    <2> QED BY <1>2, <1>5, <1>6, <1>7, <2>1 DEF JobInv, JobType
  <1>10. PostingInv'
    <2>1. attempt' = attempt /\ report'[attempt'] = message
      BY <1>2, <1>6
    <2>2. /\ (\A i \in DOMAIN channel : Len(channel[i]) \in 1 .. MessageLimit)'
          /\ (\A a \in Nat : a > attempt => PostedBy(a) = <<>>)'
      BY <1>2, <1>8 DEF JobInv, PostingInv
    <2>3. /\ chunks' = SubSeq(Chunks(message), 0 + 1, Number(message))
          /\ PostedBy(attempt)' = SubSeq(message, 1, Held(message, 0))
          /\ 0 \in 0 .. Number(message)
      <3>1. pieces = SubSeq(pieces, 0 + 1, count) /\ 0 \in 0 .. count
        BY <1>5
      <3>2. SubSeq(message, 1, 0) = <<>>
        BY <1>4 DEF Text
      <3>3. PostedBy(attempt)' = <<>>
        BY <1>8, <2>1
      <3> QED BY <1>5, <1>7, <3>1, <3>2, <3>3 DEF pieces, count
    <2> QED BY <1>2, <1>4, <2>1, <2>2, <2>3 DEF PostingInv
  <1>11. EndInv'
    <2>1. ASSUME NEW a \in Attempts PROVE IsPrefix(PostedBy(a)', report'[a])
      <3>1. CASE a = attempt
        <4>1. PostedBy(a)' = <<>> /\ report'[a] \in Text
          BY <1>4, <1>6, <1>8, <3>1
        <4> QED BY <4>1 DEF IsPrefix, Text
      <3>2. CASE a # attempt
        BY <1>6, <1>8, <3>2 DEF JobInv, EndInv
      <3> QED BY <3>1, <3>2
    <2>2. \A a \in DOMAIN fate : a \in Attempts /\ a # attempt
      BY <1>3 DEF Attempts
    <2> QED BY <1>2, <1>6, <1>8, <2>1, <2>2 DEF JobInv, EndInv, Attempts
  <1>12. FetchInv'
    BY <1>2 DEF JobInv, FetchInv, fetchVars, jobVars
  <1> QED BY <1>9, <1>10, <1>11, <1>12 DEF JobInv

LEMMA HeldFacts ==
  ASSUME NEW message \in Text, NEW k \in Nat
  PROVE  /\ Held(message, k) \in 0 .. Len(message)
         /\ IsPrefix(SubSeq(message, 1, Held(message, k)), message)
  <1>1. k * MessageLimit \in Nat /\ Len(message) \in Nat
    BY ReportAssumption DEF Text
  <1>2. Held(message, k) \in 0 .. Len(message)
    BY <1>1 DEF Held
  <1>3. ASSUME NEW h \in 0 .. Len(message) PROVE IsPrefix(SubSeq(message, 1, h), message)
    <2>1. SubSeq(message, 1, h) \in Text /\ Len(SubSeq(message, 1, h)) = h
      BY DEF Text
    <2>2. SubSeq(SubSeq(message, 1, h), 1, h) = SubSeq(message, 1, h)
      BY <2>1 DEF Text
    <2> QED BY <1>1, <2>1, <2>2 DEF IsPrefix
  <1> QED BY <1>2, <1>3

LEMMA PostKeeps ==
  ASSUME JobInv, Post
  PROVE  JobInv'
  <1> DEFINE message == report[attempt]
             count == Number(message)
             pieces == Chunks(message)
  <1>1. /\ pc = "post" /\ pc' = "sent" /\ chunks # <<>>
        /\ channel' = Append(channel, Head(chunks)) /\ chunks' = Tail(chunks)
        /\ UNCHANGED <<jobVars, attempt, fetchVars, report, fate>>
    BY DEF Post
  <1>2. /\ attempt \in Nat \ {0} /\ attempt \in Attempts /\ message \in Text /\ message # <<>>
        /\ DOMAIN fate = 1 .. attempt - 1
        /\ \A i \in DOMAIN message : message[i][1] = attempt
    BY <1>1, AttemptFacts DEF JobInv, PostingInv, Attempts
  <1>3. PICK k \in 0 .. count : /\ chunks = SubSeq(pieces, k + 1, count)
                                /\ PostedBy(attempt) = SubSeq(message, 1, Held(message, k))
    BY <1>1 DEF JobInv, PostingInv
  <1>4. pieces \in Seq(Text) /\ Len(pieces) = count /\ count \in Nat \ {0}
    BY <1>2, ChunkFacts
  <1>5. k \in 0 .. count - 1
    <2> HIDE DEF message, pieces, count
    <2>1. k = count => chunks = <<>>
      BY <1>3, <1>4
    <2> QED BY <1>1, <1>3, <1>4, <2>1
  <1> DEFINE piece == pieces[k + 1]
  <1>6. /\ piece \in Text /\ Head(chunks) = piece
        /\ Tail(chunks) = SubSeq(pieces, (k + 1) + 1, count) /\ k + 1 \in 0 .. count
    <2> HIDE DEF message, pieces, count
    <2> QED BY <1>3, <1>4, <1>5
  <1>7. /\ Len(piece) \in 1 .. MessageLimit /\ piece[1][1] = attempt
        /\ SubSeq(message, 1, Held(message, k)) \o piece = SubSeq(message, 1, Held(message, k + 1))
    <2>1. /\ Len(piece) \in 1 .. MessageLimit
          /\ Held(message, k) < Len(message) /\ Held(message, k) \in Nat
          /\ piece[1] = message[Held(message, k) + 1]
          /\ SubSeq(message, 1, Held(message, k)) \o piece = SubSeq(message, 1, Held(message, k + 1))
      BY <1>2, <1>5, ChunkFacts
    <2>2. Held(message, k) + 1 \in DOMAIN message
      BY <1>2, <2>1 DEF Text
    <2> QED BY <1>2, <2>1, <2>2
  <1> HIDE DEF message, pieces, count, piece
  <1>8. channel \in Seq(Text)
    BY DEF JobInv, JobType
  <1>9. \A a : Posted(channel', a) = IF attempt = a THEN Posted(channel, a) \o piece ELSE Posted(channel, a)
    <2> SUFFICES ASSUME NEW a
                 PROVE  Posted(channel', a) = IF attempt = a THEN Posted(channel, a) \o piece ELSE Posted(channel, a)
      OBVIOUS
    <2>1. Posted(Append(channel, piece), a) =
            IF piece[1][1] = a THEN Posted(channel, a) \o piece ELSE Posted(channel, a)
      BY <1>6, <1>8, PostedAppend
    <2> QED BY <1>1, <1>6, <1>7, <2>1
  <1>10. /\ \A a : a # attempt => PostedBy(a)' = PostedBy(a)
         /\ Posted(channel', attempt) = SubSeq(message, 1, Held(message, k + 1))
    BY <1>3, <1>7, <1>9 DEF PostedBy
  <1>11. JobType'
    <2>1. channel' \in Seq(Text)
      BY <1>1, <1>6, <1>8
    <2>2. chunks' \in Seq(Text)
      <3>1. chunks \in Seq(Text)
        BY DEF JobInv, JobType
      <3> QED BY <1>1, <3>1
    <2>3. TypeOK'
      BY <1>1 DEF JobInv, JobType, TypeOK, jobVars, fetchVars, Sources
    <2> QED BY <1>1, <2>1, <2>2, <2>3 DEF JobInv, JobType
  <1>12. PostingInv'
    <2>1. attempt' = attempt /\ report'[attempt'] = message
      BY <1>1 DEF message
    <2>2. \A i \in DOMAIN channel' : Len(channel'[i]) \in 1 .. MessageLimit
      <3>1. \A i \in DOMAIN channel : Len(channel[i]) \in 1 .. MessageLimit
        BY DEF JobInv, PostingInv
      <3>2. channel' = Append(channel, piece)
        BY <1>1, <1>6
      <3>3. /\ DOMAIN channel' = 1 .. Len(channel) + 1 /\ DOMAIN channel = 1 .. Len(channel)
            /\ channel'[Len(channel) + 1] = piece /\ Len(channel) \in Nat
            /\ \A i \in 1 .. Len(channel) : channel'[i] = channel[i]
        BY <1>8, <3>2
      <3>4. \A i \in DOMAIN channel' : i \in DOMAIN channel \/ i = Len(channel) + 1
        BY <3>3
      <3> QED BY <1>7, <3>1, <3>3, <3>4
    <2>3. \A a \in Nat : a > attempt' => PostedBy(a)' = <<>>
      BY <1>1, <1>2, <1>10 DEF JobInv, PostingInv
    <2>4. /\ chunks' = SubSeq(Chunks(message), (k + 1) + 1, Number(message))
          /\ PostedBy(attempt)' = SubSeq(message, 1, Held(message, k + 1))
          /\ k + 1 \in 0 .. Number(message)
      BY <1>1, <1>6, <1>10 DEF pieces, count, PostedBy
    <2> QED BY <1>1, <1>2, <2>1, <2>2, <2>3, <2>4 DEF PostingInv
  <1>13. EndInv'
    <2>1. ASSUME NEW a \in Attempts PROVE IsPrefix(PostedBy(a)', report'[a])
      <3>1. CASE a = attempt
        <4>1. PostedBy(a)' = SubSeq(message, 1, Held(message, k + 1)) /\ report'[a] = message
          BY <1>1, <1>10, <3>1 DEF PostedBy, message
        <4>2. k + 1 \in Nat
          BY <1>4, <1>5
        <4> QED BY <1>2, <4>1, <4>2, HeldFacts
      <3>2. CASE a # attempt
        BY <1>1, <1>10, <3>2 DEF JobInv, EndInv
      <3> QED BY <3>1, <3>2
    <2>2. \A a \in DOMAIN fate : a # attempt
      BY <1>2
    <2> QED BY <1>1, <1>10, <2>1, <2>2 DEF JobInv, EndInv, Attempts
  <1>14. FetchInv'
    BY <1>1 DEF JobInv, FetchInv, fetchVars, jobVars
  <1> QED BY <1>11, <1>12, <1>13, <1>14 DEF JobInv

LEMMA WaitingSteps ==
  ASSUME JobInv, Acknowledged \/ GiveUp \/ SourceChanges \/ UNCHANGED vars
  PROVE  JobInv'
  <1>1. /\ UNCHANGED <<jobVars, attempt, failed, aborted, results, postVars, fate>>
        /\ broken' \subseteq Sources
        /\ pc' = pc \/ (pc = "sent" /\ pc' = "post") \/ (pc = "ended" /\ pc' = "over")
    BY DEF Acknowledged, GiveUp, SourceChanges, vars, fetchVars, JobInv, JobType, TypeOK
  <1>2. \A a : PostedBy(a)' = PostedBy(a)
    BY <1>1 DEF PostedBy, postVars
  <1>3. JobType'
    <2>1. TypeOK'
      BY <1>1 DEF JobInv, JobType, TypeOK, jobVars, postVars, Sources
    <2> QED BY <1>1, <2>1 DEF JobInv, JobType, postVars
  <1>4. PostingInv'
    BY <1>1, <1>2 DEF JobInv, PostingInv, Unreported, postVars
  <1>5. EndInv'
    BY <1>1, <1>2 DEF JobInv, EndInv, Attempts, postVars
  <1>6. FetchInv'
    BY <1>1 DEF JobInv, FetchInv, jobVars
  <1> QED BY <1>3, <1>4, <1>5, <1>6 DEF JobInv

LEMMA RetryKeeps ==
  ASSUME JobInv, Retry
  PROVE  JobInv'
  <1>1. /\ pc = "ended" /\ pc' = "main" /\ fate[attempt] # "success" /\ attempt < MaxAttempts
        /\ failed' = {} /\ aborted' = FALSE /\ results' = <<>> /\ chunks' = <<>>
        /\ attempt' = attempt + 1 /\ report' = Append(report, <<>>)
        /\ UNCHANGED <<jobVars, broken, channel, fate>>
    BY DEF Retry, Begin
  <1>2. attempt \in Nat \ {0} /\ report \in Seq(Text) /\ Len(report) = attempt /\ DOMAIN fate = 1 .. attempt
    BY <1>1, AttemptFacts DEF JobInv, JobType, TypeOK
  <1>3. /\ report' \in Seq(Text) /\ Len(report') = attempt + 1 /\ report'[attempt + 1] = <<>>
        /\ \A a \in 1 .. attempt : report'[a] = report[a]
    <2>1. <<>> \in Text
      BY DEF Text
    <2> QED BY <1>1, <1>2, <2>1
  <1>4. \A a : PostedBy(a)' = PostedBy(a)
    BY <1>1 DEF PostedBy
  <1>5. PostedBy(attempt + 1) = <<>>
    BY <1>2 DEF JobInv, PostingInv
  <1>6. JobType'
    <2>1. Len(script.sources) \in Nat
      BY ScriptFacts DEF JobInv, JobType, TypeOK
    <2>2. results' \in Seq({"row", "nothing", "error"}) /\ Len(results') = 0 /\ chunks' \in Seq(Text)
      BY <1>1
    <2>3. attempt' \in 1 .. MaxAttempts /\ Len(fate) = attempt
      BY <1>1, <1>2, ReportAssumption DEF JobInv, JobType, TypeOK
    <2>4. Len(report') = attempt' /\ Len(fate') = attempt' - 1 /\ Len(results') <= Len(script'.sources)
      BY <1>1, <1>2, <1>3, <2>1, <2>2, <2>3 DEF jobVars
    <2>5. /\ script' \in Scripts /\ configured' \in BOOLEAN /\ broken' \subseteq Sources'
          /\ \A i \in DOMAIN fate' : fate'[i] \in Fates
      BY <1>1 DEF JobInv, JobType, TypeOK, jobVars, Sources, Fates
    <2>6. TypeOK'
      BY <1>1, <2>2, <2>3, <2>4, <2>5 DEF TypeOK, Fates
    <2> QED BY <1>1, <1>3, <2>2, <2>6 DEF JobInv, JobType
  <1>7. PostingInv'
    <2>1. \A a \in Nat : a > attempt' => PostedBy(a)' = <<>>
      BY <1>1, <1>2, <1>4 DEF JobInv, PostingInv
    <2>2. Unreported(attempt)'
      <3>1. PostedBy(attempt)' = <<>>
        BY <1>1, <1>4, <1>5
      <3> QED BY <1>1, <1>3, <3>1 DEF Unreported
    <2> QED BY <1>1, <2>1, <2>2 DEF JobInv, PostingInv
  <1>8. EndInv'
    <2>1. ASSUME NEW a \in 1 .. attempt + 1 PROVE IsPrefix(PostedBy(a)', report'[a])
      <3>1. CASE a = attempt + 1
        BY <1>3, <1>4, <1>5, <3>1 DEF IsPrefix
      <3>2. CASE a \in 1 .. attempt
        BY <1>3, <1>4, <3>2 DEF JobInv, EndInv, Attempts
      <3> QED BY <1>2, <3>1, <3>2
    <2>2. ASSUME NEW a \in DOMAIN fate
          PROVE  /\ fate[a] = "success" => PostedBy(a)' = report'[a]
                 /\ fate[a] = "error" => report'[a] = <<>> \/ PostedBy(a)' # report'[a]
                 /\ fate[a] # "success"
      <3>1. /\ fate[a] = "success" => PostedBy(a) = report[a]
            /\ fate[a] = "error" => report[a] = <<>> \/ PostedBy(a) # report[a]
            /\ a < attempt => fate[a] # "success"
        BY DEF JobInv, EndInv
      <3>2. a \in 1 .. attempt /\ (a < attempt \/ a = attempt)
        BY <1>2
      <3> QED BY <1>1, <1>3, <1>4, <3>1, <3>2
    <2> QED BY <1>1, <2>1, <2>2 DEF EndInv, Attempts
  <1>9. FetchInv'
    BY <1>1 DEF FetchInv
  <1> QED BY <1>6, <1>7, <1>8, <1>9 DEF JobInv

\* The invariant holds of every attempt of every script, whatever fails.
THEOREM JobInvariance == Spec => []JobInv
  <1>1. Init => JobInv
    BY JobInit
  <1>2. JobInv /\ [Next]_vars => JobInv'
    <2> SUFFICES ASSUME JobInv, [Next]_vars PROVE JobInv'
      OBVIOUS
    <2>1. CASE Start \/ Connect \/ EndFetch
      BY <2>1, PreparingSteps
    <2>2. CASE Query \/ GetPnl
      BY <2>2, FetchKeeps
    <2>3. CASE Summarize
      BY <2>3, SummarizeKeeps
    <2>4. CASE Post
      BY <2>4, PostKeeps
    <2>5. CASE \/ Misconfigured \/ ConnectFails \/ SummarizeFails \/ PostFails
               \/ Unanswered \/ Succeed \/ Kill
      BY <2>5, EndingSteps
    <2>6. CASE Retry
      BY <2>6, RetryKeeps
    <2>7. CASE Acknowledged \/ GiveUp \/ SourceChanges \/ UNCHANGED vars
      BY <2>7, WaitingSteps
    <2> QED BY <2>1, <2>2, <2>3, <2>4, <2>5, <2>6, <2>7 DEF Next
  <1> QED BY <1>1, <1>2, PTL DEF Spec

\* Type correctness.
THEOREM JobTypes == Spec => []TypeOK
  <1>1. JobInv => TypeOK
    BY DEF JobInv, JobType
  <1> QED BY <1>1, JobInvariance, PTL

\* Whatever stops an attempt of main, Discord has a beginning of its report,
\* and all of it when main returned 0.
THEOREM ChannelShowsReports == Spec => []ChannelIsFaithful
  <1>1. JobInv => ChannelIsFaithful
    BY DEF JobInv, PostingInv, EndInv, ChannelIsFaithful
  <1> QED BY <1>1, JobInvariance, PTL

\* _execute_with_retries repeats a report Discord has completely only after an
\* end that hid it: an error is raised before the last message is accepted.
THEOREM RepeatsHaveAReason == Spec => []RepeatsAreUnavoidable
  <1>1. JobInv => RepeatsAreUnavoidable
    <2> SUFFICES ASSUME JobInv, NEW a \in Attempts, a < attempt,
                        report[a] # <<>>, PostedBy(a) = report[a]
                 PROVE  fate[a] \in {"unanswered", "killed"}
      BY DEF RepeatsAreUnavoidable
    <2>1. a \in DOMAIN fate
      BY AttemptFacts DEF Attempts
    <2>2. fate[a] \in Fates
      BY <2>1 DEF JobInv, JobType
    <2> QED BY <2>1, <2>2 DEF JobInv, EndInv, Fates
  <1> QED BY <1>1, JobInvariance, PTL

\* The summary is told the truth of every source up to the first that failed,
\* and never takes a source that failed for one with data.
THEOREM FirstErrorHolds == Spec => []FirstErrorIsGenuine
  <1>1. JobInv => FirstErrorIsGenuine
    <2> SUFFICES ASSUME JobInv PROVE FirstErrorIsGenuine
      OBVIOUS
    <2> DEFINE errors == {i \in DOMAIN results : results[i] = "error"}
    <2>1. CASE failed = {}
      BY <2>1 DEF JobInv, FetchInv, FirstErrorIsGenuine
    <2>2. CASE failed # {}
      <3>1. PICK j \in DOMAIN results :
              /\ failed = {script.sources[j]} /\ results[j] = "error"
              /\ \A k \in DOMAIN results : k < j => results[k] # "error"
        BY <2>2 DEF JobInv, FetchInv
      <3>2. /\ DOMAIN results \subseteq DOMAIN script.sources /\ DOMAIN results \subseteq Nat
            /\ \A i, k \in DOMAIN script.sources : script.sources[i] = script.sources[k] => i = k
        BY ScriptFacts DEF JobInv, JobType, TypeOK
      <3>3. ASSUME NEW i \in DOMAIN results
            PROVE  IF i \in errors /\ \A k \in errors : i <= k
                     THEN script.sources[i] \in failed
                     ELSE results[i] # "error" => script.sources[i] \notin failed
        <4>1. CASE i \in errors /\ \A k \in errors : i <= k
          <5>1. i <= j /\ ~(i < j)
            BY <3>1, <4>1
          <5>2. i = j
            BY <3>2, <5>1
          <5> QED BY <3>1, <4>1, <5>2
        <4>2. CASE ~(i \in errors /\ \A k \in errors : i <= k)
          BY <3>1, <3>2, <4>2
        <4> QED BY <4>1, <4>2
      <3> QED BY <3>3 DEF FirstErrorIsGenuine
    <2> QED BY <2>1, <2>2
  <1> QED BY <1>1, JobInvariance, PTL

=============================================================================
