-------------------------- MODULE JobRunnerProofs --------------------------
(***************************************************************************)
(* What a call of run_job leaves behind and what its result says of the    *)
(* child, for any outputs, any limit and any number of calls.              *)
(***************************************************************************)
EXTENDS JobRunner, WellFoundedInduction, TLAPS

-----------------------------------------------------------------------------
(* Induction over the naturals, for a set: the theorems of the library that *)
(* have an operator as their parameter cannot be used                       *)

Less == {p \in Nat \X Nat : p[1] < p[2]}

LEMMA SetInduction ==
  ASSUME NEW S, 0 \in S, \A n \in Nat : n \in S => n + 1 \in S
  PROVE  Nat \subseteq S
  <1> DEFINE T == Nat \ S
  <1> SUFFICES ASSUME T # {} PROVE FALSE
    OBVIOUS
  <1>1. IsWellFoundedOn(Less, Nat)
    BY NatLessThanWellFounded DEF OpToRel, Less
  <1>2. \E x \in T : \A y \in T : ~(<<y, x>> \in Less)
    <2>1. T \subseteq Nat
      OBVIOUS
    <2> HIDE DEF T
    <2> QED BY <1>1, <2>1, WFMin
  <1>3. PICK x \in T : \A y \in T : ~(y < x)
    BY <1>2 DEF Less
  <1>4. x - 1 \in Nat /\ x - 1 \in S
    BY <1>3
  <1> QED BY <1>3, <1>4

\* A bounded set of naturals has a greatest element, and Max is it.
LEMMA MaxOfBounded ==
  ASSUME NEW n \in Nat, NEW S \in SUBSET (0 .. n), S # {}
  PROVE  Max(S) \in S /\ \A k \in S : k <= Max(S)
  <1> DEFINE Bounded(b) == \A T \in SUBSET (0 .. b) : T # {} => \E m \in T : \A k \in T : m >= k
             A == {b \in Nat : Bounded(b)}
  <1>1. 0 \in A
    <2> SUFFICES ASSUME NEW T \in SUBSET (0 .. 0), T # {}
                 PROVE  \E m \in T : \A k \in T : m >= k
      OBVIOUS
    <2>1. \A k \in T : k = 0
      OBVIOUS
    <2>2. PICK k \in T : TRUE
      OBVIOUS
    <2> QED BY <2>1, <2>2
  <1>2. ASSUME NEW b \in Nat, b \in A PROVE b + 1 \in A
    <2> SUFFICES ASSUME NEW T \in SUBSET (0 .. b + 1), T # {}
                 PROVE  \E m \in T : \A k \in T : m >= k
      OBVIOUS
    <2>1. CASE b + 1 \in T
      BY <2>1
    <2>2. CASE b + 1 \notin T
      <3>1. T \in SUBSET (0 .. b)
        BY <2>2
      <3> QED BY <1>2, <3>1
    <2> QED BY <2>1, <2>2
  <1>3. Nat \subseteq A
    <2> HIDE DEF A
    <2> QED BY <1>1, <1>2, SetInduction
  <1>4. \E m \in S : \A k \in S : m >= k
    BY <1>3
  <1>5. Max(S) \in S /\ \A k \in S : Max(S) >= k
    BY <1>4 DEF Max
  <1> QED BY <1>5

-----------------------------------------------------------------------------
(* Newline translation, and _truncate *)

\* An output with its line ends translated is a text again.
LEMMA TranslatedType ==
  ASSUME NEW output \in Seq(Character)
  PROVE  /\ Translated(output) \in Seq(Character)
         /\ output = <<>> => Translated(output) = <<>>
  <1> DEFINE n == Len(output)
             Next1(f, k) == IF output[k] = LF /\ k > 1 /\ output[k - 1] = CR THEN f[k - 1]
                            ELSE Append(f[k - 1], IF output[k] = CR THEN LF ELSE output[k])
             Texts(f, m) == f = [k \in 0 .. m |-> IF k = 0 THEN <<>> ELSE Next1(f, k)]
             A == {m \in Nat : m <= n => \E f : Texts(f, m)}
  <1>1. 0 \in A
    <2>1. Texts([k \in 0 .. 0 |-> <<>>], 0)
      OBVIOUS
    <2> QED BY <2>1
  <1>2. ASSUME NEW m \in Nat, m \in A PROVE m + 1 \in A
    <2> SUFFICES ASSUME m + 1 <= n PROVE \E f : Texts(f, m + 1)
      <3> HIDE DEF Texts, n
      <3> QED OBVIOUS
    <2>1. PICK f : Texts(f, m)
      BY <1>2
    <2> DEFINE g == [k \in 0 .. m + 1 |-> IF k = m + 1 THEN Next1(f, k) ELSE f[k]]
    <2>2. \A k \in 0 .. m : g[k] = f[k] /\ g[k] = (IF k = 0 THEN <<>> ELSE Next1(f, k))
      <3> HIDE DEF Next1
      <3> QED BY <2>1
    <2>3. \A k \in 0 .. m + 1 : k # 0 => k - 1 \in 0 .. m /\ g[k - 1] = f[k - 1]
      BY <2>2
    <2>4. \A k \in 0 .. m + 1 : k # 0 => Next1(g, k) = Next1(f, k)
      <3> HIDE DEF g
      <3> QED BY <2>3
    <2>5. \A k \in 0 .. m + 1 : g[k] = IF k = 0 THEN <<>> ELSE Next1(g, k)
      <3>1. \A k \in 0 .. m + 1 : k \in 0 .. m \/ (k = m + 1 /\ k # 0)
        OBVIOUS
      <3>2. \A k \in 0 .. m + 1 : k = m + 1 => g[k] = Next1(f, k)
        <4> HIDE DEF Next1
        <4> QED OBVIOUS
      <3> HIDE DEF g, Next1
      <3> QED BY <2>2, <2>4, <3>1, <3>2
    <2>6. Texts(g, m + 1)
      <3>1. g = [k \in 0 .. m + 1 |-> g[k]]
        OBVIOUS
      <3> HIDE DEF g, Next1
      <3> QED BY <2>5, <3>1
    <2> QED BY <2>6
  <1>3. Nat \subseteq A
    <2> HIDE DEF A
    <2> QED BY <1>1, <1>2, SetInduction
  <1> DEFINE text == CHOOSE f : Texts(f, n)
  <1>4. Texts(text, n) /\ n \in Nat
    <2>1. n \in Nat /\ \E f : Texts(f, n)
      <3>1. n \in Nat
        OBVIOUS
      <3> HIDE DEF Texts, n
      <3> QED BY <1>3, <3>1
    <2> HIDE DEF Texts, n
    <2> QED BY <2>1
  <1>5. Translated(output) = text[n]
    BY DEF Translated
  <1> DEFINE B == {m \in Nat : m <= n => text[m] \in Seq(Character)}
  <1>6. Nat \subseteq B
    <2> HIDE DEF text
    <2>1. 0 \in B
      BY <1>4
    <2>2. ASSUME NEW m \in Nat, m \in B PROVE m + 1 \in B
      <3> SUFFICES ASSUME m + 1 <= n PROVE text[m + 1] \in Seq(Character)
        OBVIOUS
      <3>1. m + 1 \in 0 .. n /\ m + 1 # 0 /\ m + 1 - 1 = m
        BY <1>4, <2>2
      <3>2. text[m + 1] = Next1(text, m + 1)
        <4> HIDE DEF n, Next1
        <4> QED BY <1>4, <3>1
      <3>3. output[m + 1] \in Character /\ LF \in Character
        <4>1. \A i \in 1 .. n : output[i] \in Character
          OBVIOUS
        <4>2. m + 1 \in 1 .. n
          BY <3>1
        <4> HIDE DEF n
        <4> QED BY <4>1, <4>2 DEF Character, LF
      <3>4. text[m] \in Seq(Character)
        <4>1. m <= n
          BY <3>1
        <4> HIDE DEF n
        <4> QED BY <2>2, <4>1
      <3>5. (IF output[m + 1] = CR THEN LF ELSE output[m + 1]) \in Character
        BY <3>3
      <3> HIDE DEF n
      <3> QED BY <3>1, <3>2, <3>4, <3>5
    <2> HIDE DEF B
    <2> QED BY <2>1, <2>2, SetInduction
  <1> HIDE DEF text
  <1>7. text[0] = <<>>
    BY <1>4
  <1>8. output = <<>> => n = 0
    OBVIOUS
  <1>9. n \in Nat
    BY <1>4
  <1> HIDE DEF n
  <1> QED BY <1>5, <1>6, <1>7, <1>8, <1>9

\* The width of a text is a number, and the empty text has none.
LEMMA WidthType ==
  ASSUME NEW text \in Seq(Character)
  PROVE  Width(text) \in Nat /\ (text = <<>> => Width(text) = 0)
  <1> DEFINE n == Len(text)
             Sums(f, m) == f = [k \in 0 .. m |-> IF k = 0 THEN 0 ELSE f[k - 1] + Size(text[k])]
             A == {m \in Nat : m <= n => \E f : Sums(f, m)}
  <1>1. 0 \in A
    <2>1. Sums([k \in 0 .. 0 |-> 0], 0)
      OBVIOUS
    <2> QED BY <2>1
  <1>2. ASSUME NEW m \in Nat, m \in A PROVE m + 1 \in A
    <2> SUFFICES ASSUME m + 1 <= n PROVE \E f : Sums(f, m + 1)
      OBVIOUS
    <2>1. PICK f : Sums(f, m)
      BY <1>2
    <2> DEFINE g == [k \in 0 .. m + 1 |-> IF k = m + 1 THEN f[m] + Size(text[k]) ELSE f[k]]
    <2>2. \A k \in 0 .. m + 1 : g[k] = IF k = 0 THEN 0 ELSE g[k - 1] + Size(text[k])
      BY <2>1
    <2>3. Sums(g, m + 1)
      BY <2>2
    <2> QED BY <2>3
  <1>3. Nat \subseteq A
    <2> HIDE DEF A
    <2> QED BY <1>1, <1>2, SetInduction
  <1> DEFINE bytes == CHOOSE f : Sums(f, n)
  <1>4. Sums(bytes, n) /\ n \in Nat
    <2>1. n \in Nat /\ \E f : Sums(f, n)
      BY <1>3
    <2> HIDE DEF Sums, n
    <2> QED BY <2>1
  <1>5. Width(text) = bytes[n]
    BY DEF Width
  <1> DEFINE B == {m \in Nat : m <= n => bytes[m] \in Nat}
  <1>6. Nat \subseteq B
    <2> HIDE DEF bytes
    <2>1. 0 \in B
      BY <1>4
    <2>2. ASSUME NEW m \in Nat, m \in B PROVE m + 1 \in B
      <3> SUFFICES ASSUME m + 1 <= n PROVE bytes[m + 1] \in Nat
        OBVIOUS
      <3>1. m + 1 \in 0 .. n /\ m + 1 # 0 /\ m + 1 - 1 = m
        BY <1>4, <2>2
      <3>2. bytes[m + 1] = bytes[m] + Size(text[m + 1])
        <4> HIDE DEF n
        <4> QED BY <1>4, <3>1
      <3>3. Size(text[m + 1]) \in Nat
        <4>1. \A i \in 1 .. n : text[i] \in Character
          OBVIOUS
        <4>2. m + 1 \in 1 .. n
          BY <3>1
        <4> HIDE DEF n
        <4> QED BY <4>1, <4>2 DEF Size, Character
      <3>4. bytes[m] \in Nat
        <4>1. m <= n
          BY <3>1
        <4> HIDE DEF n
        <4> QED BY <2>2, <4>1
      <3> HIDE DEF n
      <3> QED BY <3>2, <3>3, <3>4
    <2> HIDE DEF B
    <2> QED BY <2>1, <2>2, SetInduction
  <1> HIDE DEF bytes
  <1> QED BY <1>4, <1>5, <1>6

-----------------------------------------------------------------------------
(* Invariants *)

Ended == [status : {"success", "failed", "timeout"},
          child : {"none", "running", "exited", "killed"}, helper : {"none", "alive", "gone"}]

\* What is left of one call.
Clean(call) ==
  /\ call.child # "running"
  /\ call.helper = "alive" => call.status = "timeout"

\* Nothing exists before the launch, and no more than what OnlyTimeoutsLeaveProcesses
\* allows after the return; so far it is inductive together with the same of
\* the calls before.
ProcessInv ==
  /\ pc = "launch" => child = "none" /\ helper = "none"
  /\ pc = "returned" =>
       Clean([status |-> result.status, child |-> child, helper |-> helper])
  /\ earlier \in Seq(Ended)
  /\ \A i \in DOMAIN earlier : Clean(earlier[i])

\* The kinds of the variables, as far as the steps depend on them.
RunnerType ==
  /\ pc \in {"launch", "wait", "kill", "returned"}
  /\ child \in {"none", "running", "exited", "killed"}
  /\ exitCode \in {NoCode, 0, 1} /\ helper \in {"none", "alive", "gone"}
  /\ written \in Seq(Characters)
  /\ pc = "returned" => result.status \in {"success", "failed", "timeout"}

RunnerInv == RunnerType /\ ProcessInv

LEMMA RunnerInit == Init => RunnerInv
  BY DEF Init, RunnerInv, RunnerType, ProcessInv, NoText, NoCode

LEMMA AppendKeeps ==
  ASSUME NEW S, NEW s \in Seq(S), NEW e \in S
  PROVE  /\ Append(s, e) \in Seq(S)
         /\ \A i \in DOMAIN s : i \in DOMAIN Append(s, e) /\ Append(s, e)[i] = s[i]
         /\ \A i \in DOMAIN Append(s, e) : i \in DOMAIN s \/ Append(s, e)[i] = e
  OBVIOUS

LEMMA ReturnKeeps ==
  ASSUME RunnerInv, NEW status \in {"success", "failed", "timeout"},
         NEW code, NEW text, NEW marked,
         Return(Result(status, code, text, marked)),
         UNCHANGED <<helper, written, earlier, exitCode>>,
         child' \in {"none", "exited", "killed"},
         helper = "alive" => status = "timeout"
  PROVE  RunnerInv'
  <1>1. pc' = "returned" /\ result'.status = status
    BY DEF Return, Result
  <1>2. RunnerType'
    BY <1>1 DEF RunnerInv, RunnerType
  <1>3. ProcessInv'
    BY <1>1 DEF RunnerInv, ProcessInv, Clean
  <1> QED BY <1>2, <1>3 DEF RunnerInv

LEMMA RunnerStep == RunnerInv /\ [Next]_vars => RunnerInv'
  <1> SUFFICES ASSUME RunnerInv, [Next]_vars PROVE RunnerInv'
    OBVIOUS
  <1>1. CASE Launch
    BY <1>1 DEF Launch, RunnerInv, RunnerType, ProcessInv
  <1>2. CASE LaunchFails
    <2>1. child' = "none" /\ helper = "none"
      BY <1>2 DEF LaunchFails, RunnerInv, ProcessInv
    <2> QED BY <1>2, <2>1, ReturnKeeps DEF LaunchFails
  <1>3. CASE Completes
    <2>1. (IF exitCode = 0 THEN "success" ELSE "failed") \in {"success", "failed", "timeout"}
      OBVIOUS
    <2> QED BY <1>3, <2>1, ReturnKeeps DEF Completes, EndOfPipes
  <1>4. CASE DecodeFails
    BY <1>4, ReturnKeeps DEF DecodeFails, EndOfPipes
  <1>5. CASE TimesOut
    <2>1. UNCHANGED <<helper, written, earlier, exitCode>>
      BY <1>5 DEF TimesOut
    <2>2. child' \in {"none", "exited", "killed"}
      BY <1>5 DEF TimesOut, RunnerInv, RunnerType
    <2> QED BY <1>5, <2>1, <2>2, ReturnKeeps DEF TimesOut
  <1>6. CASE CallAgain
    <2> DEFINE call == [status |-> result.status, child |-> child, helper |-> helper]
    <2>1. call \in Ended /\ Clean(call)
      BY <1>6 DEF CallAgain, RunnerInv, RunnerType, ProcessInv, Ended
    <2>2. earlier' = Append(earlier, call)
      BY <1>6 DEF CallAgain
    <2>3. earlier' \in Seq(Ended) /\ \A i \in DOMAIN earlier' : Clean(earlier'[i])
      <3> HIDE DEF call
      <3> QED BY <2>1, <2>2, AppendKeeps DEF RunnerInv, ProcessInv
    <2>4. pc' = "launch" /\ child' = "none" /\ helper' = "none" /\ exitCode' = NoCode /\ written' = <<>>
      BY <1>6 DEF CallAgain, NoText
    <2> QED BY <2>3, <2>4 DEF RunnerInv, RunnerType, ProcessInv
  <1>7. CASE Write
    <2>1. PICK char \in Characters : written' = Append(written, char)
      BY <1>7 DEF Write
    <2>2. written' \in Seq(Characters)
      BY <2>1, AppendKeeps DEF RunnerInv, RunnerType
    <2> QED
      BY <1>7, <2>2 DEF Write, RunnerInv, RunnerType, ProcessInv, Clean
  <1>8. CASE StartHelper
    BY <1>8 DEF StartHelper, RunnerInv, RunnerType, ProcessInv, Clean
  <1>9. CASE Exit
    BY <1>9 DEF Exit, RunnerInv, RunnerType, ProcessInv, Clean
  <1>10. CASE HelperEnds
    BY <1>10 DEF HelperEnds, RunnerInv, RunnerType, ProcessInv, Clean
  <1>11. CASE EarlierHelperEnds
    <2>1. PICK i \in DOMAIN earlier : earlier' = [earlier EXCEPT ![i].helper = "gone"]
      BY <1>11 DEF EarlierHelperEnds
    <2>2. earlier[i] \in Ended /\ [earlier[i] EXCEPT !.helper = "gone"] \in Ended
      <3>1. earlier[i] \in Ended
        BY DEF RunnerInv, ProcessInv
      <3> QED BY <3>1 DEF Ended
    <2>3. Clean([earlier[i] EXCEPT !.helper = "gone"])
      BY <2>2 DEF RunnerInv, ProcessInv, Clean, Ended
    <2>4. earlier' \in Seq(Ended) /\ \A k \in DOMAIN earlier' : Clean(earlier'[k])
      BY <2>1, <2>2, <2>3 DEF RunnerInv, ProcessInv
    <2> QED
      BY <1>11, <2>4 DEF EarlierHelperEnds, RunnerInv, RunnerType, ProcessInv
  <1>12. CASE UNCHANGED vars
    BY <1>12 DEF vars, RunnerInv, RunnerType, ProcessInv
  <1>13. CASE Expires
    BY <1>13 DEF Expires, RunnerInv, RunnerType, ProcessInv
  <1> QED
    BY <1>1, <1>2, <1>3, <1>4, <1>5, <1>6, <1>7, <1>8, <1>9, <1>10, <1>11, <1>12, <1>13
    DEF Next, RunJob

\* Whatever the script and its helper do, and however often the job is run:
\* only a timeout leaves processes behind, and never the child.
THEOREM LeftBehind == Spec => []OnlyTimeoutsLeaveProcesses
  <1>1. RunnerInv => OnlyTimeoutsLeaveProcesses
    BY DEF RunnerInv, ProcessInv, OnlyTimeoutsLeaveProcesses, Returned, Clean, Range
  <1> QED
    BY <1>1, RunnerInit, RunnerStep, PTL DEF Spec

-----------------------------------------------------------------------------
(* What a result says of the run *)

\* Nothing writes any more.
Silent == child # "running" /\ helper # "alive"

\* A result that was made of the output, with the exit code of the child.
Kept ==
  /\ result.text = Truncate(Text) /\ result.marked = ~Fits(Text)
  /\ result.status = "success" => child = "exited" /\ exitCode = 0
  /\ result.status \in {"success", "failed"}

\* One without output, after an error or a timeout.
Empty ==
  /\ result.text = NoText /\ ~result.marked
  /\ \/ result.status = "timeout"
     \/ result.status = "failed" /\ Silent /\ (Undecodable \/ written = NoText)

\* The output that a result was made of is never written to again.
ResultInv ==
  /\ limit \in Limits
  /\ pc = "launch" => written = NoText
  /\ pc \in {"wait", "kill"} => child \in {"running", "exited"}
  /\ exitCode # NoCode => child = "exited"
  /\ IF pc = "returned" THEN (Kept /\ Silent) \/ Empty ELSE result = NoResult
  /\ Len(earlier) < MaxRuns

LEMMA ResultInit == Init => ResultInv
  BY RunnerAssumption DEF Init, ResultInv

LEMMA ScriptResult ==
  ASSUME RunnerInv, ResultInv, Write \/ StartHelper \/ Exit \/ HelperEnds
  PROVE  ResultInv'
  <1>1. pc \in {"launch", "wait", "kill", "returned"}
    BY DEF RunnerInv, RunnerType
  <1>2. UNCHANGED <<pc, limit, result, earlier>> /\ pc # "launch"
    BY DEF Write, StartHelper, Exit, HelperEnds, RunnerInv, ProcessInv
  <1>3. pc = "returned" => child # "running"
    BY DEF RunnerInv, ProcessInv, Clean
  <1>4. /\ pc' \in {"wait", "kill"} => child' \in {"running", "exited"}
        /\ exitCode' # NoCode => child' = "exited"
    BY <1>1, <1>2, <1>3 DEF ResultInv, Write, StartHelper, Exit, HelperEnds
  <1>5. pc = "returned" /\ Silent => FALSE
    <2> SUFFICES ASSUME pc = "returned", Silent PROVE FALSE
      OBVIOUS
    <2> QED BY <1>3 DEF Silent, Write, StartHelper, Exit, HelperEnds
  <1>6. pc = "returned" /\ Empty => Empty'
    BY <1>2, <1>5 DEF Empty
  <1> QED BY <1>1, <1>2, <1>4, <1>5, <1>6 DEF ResultInv

LEMMA ResultStep == RunnerInv /\ ResultInv /\ [Next]_vars => ResultInv'
  <1> SUFFICES ASSUME RunnerInv, ResultInv, [Next]_vars PROVE ResultInv'
    OBVIOUS
  <1>1. CASE Launch
    BY <1>1 DEF Launch, ResultInv, RunnerInv, RunnerType, ProcessInv
  <1>2. CASE LaunchFails
    <2>1. Empty' /\ pc' = "returned"
      BY <1>2 DEF LaunchFails, Return, Result, Empty, Silent, NoText, ResultInv, RunnerInv, ProcessInv
    <2> QED BY <1>2, <2>1 DEF LaunchFails, ResultInv
  <1>3. CASE Completes
    <2>1. pc' = "returned" /\ UNCHANGED <<limit, child, exitCode, helper, written, earlier>>
      BY <1>3 DEF Completes, Return
    <2>2. Silent' /\ child = "exited"
      BY <1>3, <2>1 DEF Completes, EndOfPipes, Silent, ResultInv
    <2>3. result' = Result(IF exitCode = 0 THEN "success" ELSE "failed", exitCode,
                           Truncate(Text), ~Fits(Text))
      BY <1>3 DEF Completes, Return
    <2>4. Truncate(Text)' = Truncate(Text) /\ Fits(Text)' = Fits(Text)
      BY <2>1 DEF Text, Truncate, Fits
    <2>5. Kept'
      BY <2>1, <2>2, <2>3, <2>4 DEF Kept, Result
    <2> QED BY <2>1, <2>2, <2>5 DEF ResultInv
  <1>4. CASE DecodeFails
    <2>1. pc' = "returned" /\ UNCHANGED <<limit, child, exitCode, helper, written, earlier>>
      BY <1>4 DEF DecodeFails, Return
    <2>2. Silent' /\ Undecodable'
      BY <1>4, <2>1 DEF DecodeFails, EndOfPipes, Silent, Undecodable
    <2>3. Empty'
      BY <1>4, <2>2 DEF DecodeFails, Return, Result, Empty
    <2> QED BY <2>1, <2>3 DEF ResultInv
  <1>5. CASE TimesOut
    <2>1. Empty' /\ pc' = "returned"
      BY <1>5 DEF TimesOut, Return, Result, Empty
    <2>2. exitCode' # NoCode => child' = "exited"
      BY <1>5 DEF TimesOut, ResultInv
    <2> QED BY <1>5, <2>1, <2>2 DEF TimesOut, ResultInv
  <1>6. CASE CallAgain
    <2>1. Len(earlier') = Len(earlier) + 1 /\ Len(earlier) + 1 < MaxRuns
      BY <1>6 DEF CallAgain, RunnerInv, ProcessInv
    <2> QED BY <1>6, <2>1 DEF CallAgain, ResultInv
  <1>7. CASE Write \/ StartHelper \/ Exit \/ HelperEnds
    BY <1>7, ScriptResult
  <1>8. CASE EarlierHelperEnds
    <2>1. Len(earlier') = Len(earlier)
      BY <1>8 DEF EarlierHelperEnds, RunnerInv, ProcessInv
    <2>2. UNCHANGED <<pc, limit, child, exitCode, helper, written, result>>
      BY <1>8 DEF EarlierHelperEnds
    <2> QED
      BY <2>1, <2>2 DEF ResultInv, Kept, Empty, Silent, Undecodable, Text, Truncate, Fits
  <1>9. CASE UNCHANGED vars
    BY <1>9 DEF vars, ResultInv, Kept, Empty, Silent, Undecodable, Text, Truncate, Fits
  <1>10. CASE Expires
    BY <1>10 DEF Expires, ResultInv
  <1> QED
    BY <1>1, <1>2, <1>3, <1>4, <1>5, <1>6, <1>7, <1>8, <1>9, <1>10 DEF Next, RunJob

\* The invariant of a call and its result.
THEOREM RunnerInvariance == Spec => [](RunnerInv /\ ResultInv)
  BY RunnerInit, RunnerStep, ResultInit, ResultStep, PTL DEF Spec

\* Type correctness: run_job returns one of its three outcomes.
THEOREM RunnerTypes == Spec => []TypeOK
  <1>1. RunnerInv /\ ResultInv => TypeOK
    <2> SUFFICES ASSUME RunnerInv, ResultInv PROVE TypeOK
      OBVIOUS
    <2>1. result.status \in {"none", "success", "failed", "timeout"}
      BY DEF ResultInv, Kept, Empty, NoResult, Result
    <2> QED BY <2>1 DEF RunnerInv, RunnerType, ResultInv, TypeOK
  <1> QED
    BY <1>1, RunnerInvariance, PTL

\* WholeChars is a beginning of the text; if it is cut short in a text that is
\* too wide, it fits and the next character does not.
LEMMA WholeCharsFacts ==
  ASSUME NEW text \in Seq(Character), NEW n \in Int
  PROVE  /\ IsPrefix(WholeChars(text, n), text)
         /\ n >= 0 /\ Width(text) > n =>
              /\ WholeChars(text, n) # text
              /\ Width(WholeChars(text, n)) <= n
              /\ Width(SubSeq(text, 1, Len(WholeChars(text, n)) + 1)) > n
  <1> DEFINE fitting == {k \in 1 .. Len(text) : Width(SubSeq(text, 1, k)) <= n}
             m == Max({0} \cup fitting)
             kept == SubSeq(text, 1, m)
  <1>1. WholeChars(text, n) = kept
    BY DEF WholeChars
  <1>2. Len(text) \in Nat /\ {0} \cup fitting \in SUBSET (0 .. Len(text))
    OBVIOUS
  <1>3. m \in {0} \cup fitting /\ \A k \in fitting : k <= m
    <2> HIDE DEF fitting
    <2> QED BY <1>2, MaxOfBounded
  <1>4. m \in 0 .. Len(text)
    BY <1>2, <1>3
  <1>5. kept \in Seq(Character) /\ Len(kept) = m /\ \A i \in 1 .. m : kept[i] = text[i]
    <2> HIDE DEF m
    <2> QED BY <1>4
  <1>6. IsPrefix(kept, text)
    <2> HIDE DEF m
    <2> QED BY <1>4, <1>5 DEF IsPrefix
  <1>7. ASSUME n >= 0, Width(text) > n
        PROVE  /\ kept # text /\ Width(kept) <= n
               /\ Width(SubSeq(text, 1, m + 1)) > n
    <2>1. Width(kept) <= n
      <3>1. CASE m \in fitting
        BY <3>1
      <3>2. CASE m = 0
        <4>1. kept = <<>>
          <5> HIDE DEF m, kept
          <5> QED BY <1>5, <3>2
        <4> QED BY <1>7, <4>1, <1>5, WidthType
      <3> QED BY <1>3, <3>1, <3>2
    <2>2. kept # text
      <3>1. Width(kept) \in Nat /\ Width(text) \in Nat
        BY <1>5, WidthType
      <3> HIDE DEF kept
      <3> QED BY <1>7, <2>1, <3>1
    <2>3. m # Len(text)
      <3> HIDE DEF m
      <3> QED BY <1>4, <1>5, <2>2
    <2>4. m + 1 \in 1 .. Len(text) /\ m + 1 \notin fitting
      <3> HIDE DEF m, fitting
      <3> QED BY <1>2, <1>3, <1>4, <2>3
    <2>5. SubSeq(text, 1, m + 1) \in Seq(Character)
      <3> HIDE DEF m
      <3> QED BY <2>4
    <2>6. Width(SubSeq(text, 1, m + 1)) \in Nat
      BY <2>5, WidthType
    <2> QED BY <2>1, <2>2, <2>4, <2>6
  <1> HIDE DEF m
  <1> QED BY <1>1, <1>5, <1>6, <1>7

\* What a call makes of its output is a text.
LEMMA TextType == RunnerInv => Text \in Seq(Character)
  <1>1. Seq(Characters) \subseteq Seq(Character)
    BY RunnerAssumption
  <1> QED
    BY <1>1, TranslatedType DEF RunnerInv, RunnerType, Text

\* A success is a child that exited with 0 by itself, with nothing left running
\* and its output complete up to the limit, negative limits included.
THEOREM SuccessIsGenuine == Spec => []SuccessIsReal
  <1>1. RunnerInv /\ ResultInv => SuccessIsReal
    <2> SUFFICES ASSUME RunnerInv, ResultInv, result.status = "success"
                 PROVE  /\ child = "exited" /\ exitCode = 0 /\ helper # "alive"
                        /\ IsPrefix(result.text, Text)
                        /\ result.text = Text \/ result.marked
      BY DEF SuccessIsReal
    <2>1. Kept /\ Silent
      BY DEF ResultInv, Empty, NoResult, Result
    <2>2. Text \in Seq(Character) /\ limit \in Int
      BY RunnerAssumption, TextType DEF ResultInv
    <2>3. Fits(Text) => result.text = Text
      BY <2>1 DEF Kept, Truncate
    <2>4. ~Fits(Text) => result.text = WholeChars(Text, Sliced(Text, limit))
      BY <2>1 DEF Kept, Truncate
    <2>5. Sliced(Text, limit) \in Int
      BY <2>2, WidthType DEF Sliced
    <2>6. IsPrefix(Text, Text)
      BY <2>2 DEF IsPrefix
    <2>7. IsPrefix(result.text, Text)
      BY <2>2, <2>3, <2>4, <2>5, <2>6, WholeCharsFacts
    <2> QED BY <2>1, <2>3, <2>7 DEF Kept, Silent
  <1> QED
    BY <1>1, RunnerInvariance, PTL

\* _truncate keeps the longest beginning that fits, whole characters only, and
\* marks just what it has cut: for every output that communicate() returned,
\* width of its characters and limit that is not negative.
THEOREM TruncationKeepsWhatFits == Spec => []TruncationIsExact
  <1>1. RunnerInv /\ ResultInv => TruncationIsExact
    <2> SUFFICES ASSUME RunnerInv, ResultInv, limit >= 0,
                        result.status \in {"success", "failed"}, ~Undecodable
                 PROVE  /\ result.marked => /\ IsPrefix(result.text, Text) /\ result.text # Text
                                            /\ Width(result.text) <= limit
                                            /\ Width(SubSeq(Text, 1, Len(result.text) + 1)) > limit
                        /\ ~result.marked => result.text = Text
      BY DEF TruncationIsExact
    <2>1. (Kept /\ Silent) \/ Empty
      BY DEF ResultInv, NoResult, Result
    <2>2. CASE Empty
      <3>1. ~result.marked /\ result.text = <<>> /\ written = <<>>
        BY <2>2 DEF Empty, NoText
      <3>2. \A output \in Seq(Character) : output = <<>> => Translated(output) = <<>>
        BY TranslatedType
      <3>3. written \in Seq(Character)
        BY <3>1
      <3> QED BY <3>1, <3>2, <3>3 DEF Text
    <2>3. CASE Kept
      <3>1. Text \in Seq(Character) /\ limit \in Int
        BY RunnerAssumption, TextType DEF ResultInv
      <3>2. CASE Fits(Text)
        BY <2>3, <3>2 DEF Kept, Truncate
      <3>3. CASE ~Fits(Text)
        <4>1. result.marked /\ result.text = WholeChars(Text, limit)
          BY <2>3, <3>3 DEF Kept, Truncate, Sliced
        <4>2. Width(Text) > limit
          BY <3>1, <3>3, WidthType DEF Fits
        <4> QED BY <3>1, <4>1, <4>2, WholeCharsFacts
      <3> QED BY <3>2, <3>3
    <2> QED BY <2>1, <2>2, <2>3
  <1> QED
    BY <1>1, RunnerInvariance, PTL

=============================================================================
