------------------------- MODULE ModbusMasterProofs -------------------------
(***************************************************************************)
(* Proofs about the Modbus master, for every schedule and every modulus of *)
(* the transaction identifiers.                                            *)
(***************************************************************************)
EXTENDS ModbusMaster, TLAPS

(* The remainder of a number that is less than twice the modulus.          *)
LEMMA Remainder ==
  ASSUME NEW m \in Nat, m < 2 * TidMod
  PROVE  m % TidMod = IF m < TidMod THEN m ELSE m - TidMod
  <1>1. TidMod \in Nat \ {0}
    BY MasterAssumption
  <1> QED BY <1>1, SMTT(30)

(* What an answer under way shows of the requests sent since.              *)
Matches(f, t) ==
  t = IF f.tid + f.age + 1 < TidMod THEN f.tid + f.age + 1
                                    ELSE f.tid + f.age + 1 - TidMod

Answers == [tid : 0 .. TidMod - 1, age : 0 .. MaxAge]

(* The predecessor of identifier t is that of the answer of age 0 only.    *)
LEMMA PredecessorIsLatest ==
  ASSUME NEW i \in Nat, NEW a \in Nat, NEW t \in Nat, NEW M \in Nat, NEW B \in Nat,
         i < M, t < M, a <= B, B + 1 < M,
         t = IF i + a + 1 < M THEN i + a + 1 ELSE i + a + 1 - M,
         i = IF t = 0 THEN M - 1 ELSE t - 1
  PROVE  a = 0
  OBVIOUS

(* The identifier of an answer that is used is that of the latest request, *)
(* and only the answer to that request has it.                             *)
LEMMA AcceptedIsLatest ==
  ASSUME NEW f \in Answers, NEW t \in 0 .. TidMod - 1, Matches(f, t),
         f.tid = (t + (TidMod - 1)) % TidMod
  PROVE  f.age = 0
  <1>1. /\ TidMod \in Nat \ {0} /\ MaxAge \in Nat /\ MaxAge + 1 < TidMod
        /\ f.tid \in Nat /\ f.age \in Nat /\ t \in Nat
        /\ f.tid < TidMod /\ f.age <= MaxAge /\ t < TidMod
    BY MasterAssumption DEF Answers
  <1> DEFINE m == t + (TidMod - 1)
  <1>2. m \in Nat /\ m < 2 * TidMod
    BY <1>1
  <1>3. f.tid = m % TidMod
    OBVIOUS
  <1> HIDE DEF m
  <1>4. f.tid = IF m < TidMod THEN m ELSE m - TidMod
    BY <1>2, <1>3, Remainder
  <1>5. m = t + (TidMod - 1)
    BY DEF m
  <1>6. t = IF f.tid + f.age + 1 < TidMod THEN f.tid + f.age + 1
                                          ELSE f.tid + f.age + 1 - TidMod
    BY DEF Matches
  <1>7. f.tid = IF t = 0 THEN TidMod - 1 ELSE t - 1
    BY <1>1, <1>2, <1>4, <1>5
  <1> QED BY <1>1, <1>6, <1>7, PredecessorIsLatest, Zenon

(* Answers of the same age are the same answer.                            *)
LEMMA AgeIdentifies ==
  ASSUME NEW f \in Answers, NEW g \in Answers, NEW t \in 0 .. TidMod - 1,
         Matches(f, t), Matches(g, t), f.age = g.age
  PROVE  f = g
  <1>1. /\ TidMod \in Nat \ {0}
        /\ f.tid \in Nat /\ f.age \in Nat /\ g.tid \in Nat /\ t \in Nat
        /\ f.tid < TidMod /\ g.tid < TidMod
    BY MasterAssumption DEF Answers
  <1>2. f.tid = g.tid
    BY <1>1 DEF Matches
  <1> QED BY <1>2 DEF Answers
-----------------------------------------------------------------------------
(***************************************************************************)
(* The inductive invariant: the answers under way tell their age by their  *)
(* identifiers, and the connector works when there is no connection.       *)
(***************************************************************************)
AnswersMatch(air, t) ==
  air \subseteq Answers /\ \A f \in air : Matches(f, t)

IInv ==
  /\ TypeOK
  /\ AnswersMatch(flights, tid)
  /\ AnswersAreCurrent
  /\ KeepsPolling
  /\ Up => attempt = "none"

(* Sending a request makes the answers under way older.                    *)
LEMMA WireKeepsMatch ==
  ASSUME NEW air, AnswersMatch(air, tid), tid \in 0 .. TidMod - 1,
         NEW new \in OnWire(air)
  PROVE  /\ (tid + 1) % TidMod \in 0 .. TidMod - 1
         /\ AnswersMatch(new, (tid + 1) % TidMod)
  <1>1. /\ TidMod \in Nat \ {0} /\ MaxAge \in Nat /\ MaxAge + 1 < TidMod
        /\ tid \in Nat /\ tid < TidMod
    BY MasterAssumption
  <1> DEFINE t == (tid + 1) % TidMod
  <1>2. t = IF tid + 1 < TidMod THEN tid + 1 ELSE (tid + 1) - TidMod
    BY <1>1, Remainder
  <1>3. t \in 0 .. TidMod - 1
    BY <1>1, <1>2
  <1>4. PICK kept \in SUBSET {f \in air : f.age < MaxAge} :
           new = {[f EXCEPT !.age = @ + 1] : f \in kept}
                   \cup {[tid |-> tid, age |-> 0]}
    BY DEF OnWire
  <1> HIDE DEF t
  <1>5. ASSUME NEW g \in new
        PROVE  g \in Answers /\ Matches(g, t)
    <2>1. CASE g = [tid |-> tid, age |-> 0]
      <3>1. g \in Answers
        BY <2>1, <1>1 DEF Answers
      <3>2. g.tid = tid /\ g.age = 0
        BY <2>1
      <3> QED BY <3>1, <3>2, <1>1, <1>2 DEF Matches
    <2>2. ASSUME NEW f \in kept, g = [f EXCEPT !.age = @ + 1]
          PROVE  g \in Answers /\ Matches(g, t)
      <3>1. f \in Answers /\ Matches(f, tid) /\ f.age < MaxAge
        BY <1>4 DEF AnswersMatch
      <3>2. /\ f.tid \in Nat /\ f.tid < TidMod /\ f.age \in Nat
            /\ g.tid = f.tid /\ g.age = f.age + 1
        BY <2>2, <3>1, <1>1 DEF Answers
      <3>3. g = [tid |-> f.tid, age |-> f.age + 1]
        BY <2>2, <3>1 DEF Answers
      <3>4. g \in Answers
        BY <3>1, <3>2, <3>3, <1>1 DEF Answers
      <3> QED BY <3>1, <3>2, <3>4, <1>1, <1>2 DEF Matches
    <2> QED BY <1>4, <2>1, <2>2
  <1> QED BY <1>3, <1>5 DEF AnswersMatch, t

-----------------------------------------------------------------------------
LEMMA InitInv == Init => IInv
  <1> SUFFICES ASSUME Init PROVE IInv
    OBVIOUS
  <1>1. TypeOK
    <2>1. current \in 0 .. N - 1 /\ tid \in 0 .. TidMod - 1
      BY MasterAssumption DEF Init
    <2>2. flights \subseteq [tid : 0 .. TidMod - 1, age : 0 .. MaxAge]
      BY DEF Init
    <2> QED BY <2>1, <2>2 DEF Init, TypeOK
  <1>2. AnswersMatch(flights, tid)
    BY DEF Init, AnswersMatch
  <1>3. AnswersAreCurrent /\ KeepsPolling /\ (Up => attempt = "none")
    BY DEF Init, AnswersAreCurrent, KeepsPolling, Up
  <1> QED BY <1>1, <1>2, <1>3 DEF IInv

(* What modbus_master_driver_request leaves behind, whoever calls it.      *)
Good ==
  /\ link \in {"connecting", "connected"}
  /\ attempt \in {"none", "in_progress", "wait"}
  /\ current \in 0 .. N - 1
  /\ transaction \in BOOLEAN /\ wait \in BOOLEAN /\ asked \in BOOLEAN
  /\ tid \in 0 .. TidMod - 1
  /\ AnswersMatch(flights, tid)
  /\ KeepsPolling
  /\ Up => attempt = "none"

LEMMA GoodIsEnough ==
  ASSUME Good', taken' \in {0, NoAnswer}
  PROVE  IInv'
  BY MasterAssumption DEF Good, IInv, TypeOK, AnswersMatch, AnswersAreCurrent,
     Answers

LEMMA IInvParts ==
  ASSUME IInv
  PROVE  /\ link \in {"connecting", "connected"}
         /\ attempt \in {"none", "in_progress", "wait"}
         /\ current \in 0 .. N - 1
         /\ transaction \in BOOLEAN /\ wait \in BOOLEAN /\ asked \in BOOLEAN
         /\ tid \in 0 .. TidMod - 1
         /\ AnswersMatch(flights, tid)
         /\ KeepsPolling
         /\ Up => attempt = "none"
         /\ Up \in BOOLEAN
  BY DEF IInv, TypeOK, Up

LEMMA AsksGood ==
  ASSUME IInv, NEW e \in 0 .. N - 1, NEW w \in BOOLEAN, NEW up \in BOOLEAN,
         ~up => attempt # "none",
         NEW air, AnswersMatch(air, tid),
         Asks(e, w, up, air)
  PROVE  Good'
  <1>1. transaction' = TRUE /\ asked' = TRUE
    BY DEF Asks
  <1>2. CASE /\ link' = (IF up THEN "connected" ELSE "connecting")
             /\ attempt' = (IF up THEN "none" ELSE attempt)
             /\ current' = e /\ wait' = w /\ flights' = air
             /\ UNCHANGED tid
    BY <1>1, <1>2, IInvParts DEF Good, KeepsPolling, Up, AnswersMatch
  <1>3. CASE /\ tid' = (tid + 1) % TidMod
             /\ link' = "connected" /\ attempt' = "none"
             /\ current' = e /\ wait' = w /\ flights' \in OnWire(air)
    <2>1. tid \in 0 .. TidMod - 1
      BY IInvParts
    <2>2. tid' \in 0 .. TidMod - 1 /\ AnswersMatch(flights', tid')
      BY <1>3, <2>1, WireKeepsMatch, Zenon
    <2>3. KeepsPolling' /\ (Up => attempt = "none")'
      BY <1>1, <1>3 DEF KeepsPolling, Up
    <2>4. AnswersMatch(flights, tid)'
      BY <2>2 DEF AnswersMatch, Matches
    <2> QED BY <1>1, <1>3, <2>2, <2>3, <2>4 DEF Good
  <1>4. CASE tid' = (tid + 1) % TidMod /\ Disconnects
    <2>1. tid \in 0 .. TidMod - 1 /\ AnswersMatch({}, tid)
      BY IInvParts DEF AnswersMatch
    <2>2. PICK new \in OnWire({}) : TRUE
      <3>1. {} \in SUBSET {f \in {} : f.age < MaxAge}
        OBVIOUS
      <3> QED BY <3>1 DEF OnWire
    <2>3. tid' \in 0 .. TidMod - 1
      BY <1>4, <2>1, <2>2, WireKeepsMatch, Zenon
    <2>4. 0 \in 0 .. N - 1
      BY MasterAssumption
    <2>5. AnswersMatch(flights, tid)'
      BY <1>4 DEF Disconnects, AnswersMatch
    <2>6. KeepsPolling' /\ (Up => attempt = "none")'
      BY <1>4 DEF Disconnects, KeepsPolling, Up
    <2> QED BY <1>1, <1>4, <2>3, <2>4, <2>5, <2>6 DEF Good, Disconnects
  <1> QED BY <1>2, <1>3, <1>4 DEF Asks

LEMMA NextEntryType ==
  ASSUME current \in 0 .. N - 1
  PROVE  NextEntry \in 0 .. N - 1
  <1>1. N \in Nat /\ N > 0 /\ current + 1 \in Nat
    BY MasterAssumption
  <1> QED BY <1>1, SMTT(30) DEF NextEntry

LEMMA WaitsGood ==
  ASSUME IInv, NEW air, AnswersMatch(air, tid), WaitsForNext(air)
  PROVE  Good'
  <1>1. NextEntry \in 0 .. N - 1
    BY IInvParts, NextEntryType
  <1>2. AnswersMatch(flights, tid)'
    BY DEF WaitsForNext, AnswersMatch, Matches
  <1>3. KeepsPolling' /\ (Up => attempt = "none")'
    BY IInvParts DEF WaitsForNext, KeepsPolling, Up
  <1> QED BY <1>1, <1>2, <1>3, IInvParts DEF WaitsForNext, Good

LEMMA AsksForNextGood ==
  ASSUME IInv, NEW air, AnswersMatch(air, tid), AsksForNext(air)
  PROVE  Good'
  <1>1. NextEntry \in 0 .. N - 1
    BY IInvParts, NextEntryType
  <1>2. wait \in BOOLEAN /\ Up \in BOOLEAN /\ (~Up => attempt # "none")
    BY IInvParts DEF KeepsPolling
  <1> QED BY <1>1, <1>2, AsksGood, Zenon DEF AsksForNext
-----------------------------------------------------------------------------
LEMMA StepInv == IInv /\ [Next]_vars => IInv'
  <1> SUFFICES ASSUME IInv, [Next]_vars
               PROVE  IInv'
    OBVIOUS
  <1> USE MasterAssumption
  <1>0. 0 \in 0 .. N - 1
    OBVIOUS
  <1>1. CASE ConnectSucceeds
    <2>1. AnswersMatch({}, tid) /\ wait \in BOOLEAN
      BY IInvParts DEF AnswersMatch
    <2>2. Good'
      BY <1>0, <1>1, <2>1, AsksGood, Zenon DEF ConnectSucceeds
    <2> QED BY <1>1, <2>2, GoodIsEnough DEF ConnectSucceeds
  <1>2. CASE ConnectFails
    <2>1. ~Up
      BY <1>2, IInvParts DEF ConnectFails
    <2>2. Good'
      BY <1>2, <2>1, IInvParts DEF ConnectFails, Good, KeepsPolling, Up,
         AnswersMatch, Matches
    <2> QED BY <1>2, <2>2, GoodIsEnough DEF ConnectFails
  <1>3. CASE Retry
    <2>1. ~Up
      BY <1>3, IInvParts DEF Retry
    <2>2. Good'
      BY <1>3, <2>1, IInvParts DEF Retry, Good, KeepsPolling, Up,
         AnswersMatch, Matches
    <2> QED BY <1>3, <2>2, GoodIsEnough DEF Retry
  <1>4. CASE ConnectionLost
    <2>1. AnswersMatch(flights, tid)'
      BY <1>4 DEF ConnectionLost, Disconnects, AnswersMatch
    <2>2. Good'
      BY <1>0, <1>4, <2>1, IInvParts DEF ConnectionLost, Disconnects, Good,
         KeepsPolling, Up
    <2> QED BY <1>4, <2>2, GoodIsEnough DEF ConnectionLost
  <1>5. ASSUME NEW f \in flights, NEW valid \in BOOLEAN, Receive(f, valid)
        PROVE  IInv'
    <2> DEFINE air == flights \ {f}
    <2>1. AnswersMatch(air, tid)
      BY IInvParts DEF AnswersMatch
    <2>2. CASE Accepts(f) /\ taken' = f.age
               /\ (WaitsForNext(air) \/ AsksForNext(air))
      <3>1. f \in Answers /\ Matches(f, tid) /\ tid \in 0 .. TidMod - 1
        BY IInvParts DEF AnswersMatch
      <3>2. taken' = 0
        BY <2>2, <3>1, AcceptedIsLatest, Zenon DEF Accepts
      <3>3. Good'
        BY <2>1, <2>2, WaitsGood, AsksForNextGood, Zenon
      <3> QED BY <3>2, <3>3, GoodIsEnough
    <2>3. CASE /\ taken' = NoAnswer /\ flights' = air
               /\ UNCHANGED <<link, attempt, current, transaction, wait, tid,
                              asked>>
      <3>1. AnswersMatch(flights, tid)'
        BY <2>1, <2>3 DEF AnswersMatch, Matches
      <3>2. Good'
        BY <2>3, <3>1, IInvParts DEF Good, KeepsPolling, Up
      <3> QED BY <2>3, <3>2, GoodIsEnough
    <2> QED BY <1>5, <2>2, <2>3 DEF Receive
  <1>6. CASE TransactionTimeout
    <2>1. Good'
      BY <1>6, IInvParts, WaitsGood, AsksForNextGood DEF TransactionTimeout
    <2> QED BY <1>6, <2>1, GoodIsEnough DEF TransactionTimeout
  <1>7. CASE WaitTimeout
    <2>1. /\ current \in 0 .. N - 1 /\ FALSE \in BOOLEAN /\ Up \in BOOLEAN
          /\ ~Up => attempt # "none"
          /\ AnswersMatch(flights, tid)
      BY IInvParts DEF KeepsPolling
    <2>2. Good'
      BY <1>7, <2>1, AsksGood, Zenon DEF WaitTimeout
    <2> QED BY <1>7, <2>2, GoodIsEnough DEF WaitTimeout
  <1>8. CASE UNCHANGED vars
    BY <1>8 DEF vars, IInv, TypeOK, AnswersMatch, Matches, AnswersAreCurrent,
       KeepsPolling, Up
  <1> QED BY <1>1, <1>2, <1>3, <1>4, <1>5, <1>6, <1>7, <1>8 DEF Next

LEMMA Invariance == Spec => []IInv
  BY InitInv, StepInv, PTL DEF Spec

(* The master's variables keep their types, whatever arrives.              *)
THEOREM MasterTyping == Spec => []TypeOK
  <1>1. IInv => TypeOK
    BY DEF IInv
  <1> QED BY <1>1, Invariance, PTL

(* Only the answer to the latest request is ever used, for every modulus   *)
(* of the identifiers that exceeds the age of an answer, whatever the      *)
(* schedule and the delays are.                                            *)
THEOREM OnlyCurrentAnswers == Spec => []AnswersAreCurrent
  <1>1. IInv => AnswersAreCurrent
    BY DEF IInv
  <1> QED BY <1>1, Invariance, PTL

(* A connection always has a timer that will go on with the schedule, and  *)
(* the connector is at work when there is none: also after failed writes,  *)
(* for entries that send nothing, and for any delays.                      *)
THEOREM PollingGoesOn == Spec => []KeepsPolling
  <1>1. IInv => KeepsPolling
    BY DEF IInv
  <1> QED BY <1>1, Invariance, PTL
-----------------------------------------------------------------------------
(***************************************************************************)
(* What is true when the delay does not exceed the timeout: while the      *)
(* master waits, nothing that comes can be the answer to the latest        *)
(* request, and otherwise the current entry has been asked for.            *)
(***************************************************************************)
WaitsQuietly ==
  /\ wait => Up /\ ~transaction /\ \A f \in flights : f.age # 0
  /\ Up /\ ~wait => asked

LEMMA AsksQuietly ==
  ASSUME NEW e, NEW up, NEW air, Asks(e, FALSE, up, air)
  PROVE  WaitsQuietly' /\ (link' = "connected" => current' = e)
  <1>1. asked' = TRUE
    BY DEF Asks
  <1>2. wait' = FALSE
    BY DEF Asks, Disconnects
  <1>3. link' = "connected" => current' = e
    BY DEF Asks, Disconnects
  <1> QED BY <1>1, <1>2, <1>3 DEF WaitsQuietly

LEMMA QuietReceive ==
  ASSUME IInv, WaitsQuietly, NEW f \in flights, NEW valid, Receive(f, valid)
  PROVE  /\ WaitsQuietly'
         /\ link' = "connected" /\ current' # current
              => asked /\ current' = NextEntry
  <1> DEFINE air == flights \ {f}
  <1>1. CASE /\ flights' = air
             /\ UNCHANGED <<link, attempt, current, transaction, wait, tid, asked>>
    BY <1>1 DEF WaitsQuietly, Up
  <1>2. CASE Accepts(f) /\ (WaitsForNext(air) \/ AsksForNext(air))
    <2>1. /\ \A g \in flights : g \in Answers /\ Matches(g, tid)
          /\ tid \in 0 .. TidMod - 1
      BY IInvParts DEF AnswersMatch
    <2>2. f.age = 0
      BY <1>2, <2>1, AcceptedIsLatest, Zenon DEF Accepts
    <2>3. \A g \in air : g.age # 0
      BY <2>1, <2>2, AgeIdentifies, Zenon
    <2>4. Up /\ wait = FALSE /\ asked
      BY <2>2, IInvParts DEF Receive, WaitsQuietly
    <2>5. CASE WaitsForNext(air)
      BY <2>3, <2>4, <2>5 DEF WaitsForNext, WaitsQuietly, Up
    <2>6. CASE AsksForNext(air)
      BY <2>4, <2>6, AsksQuietly, Zenon DEF AsksForNext
    <2> QED BY <1>2, <2>5, <2>6
  <1> QED BY <1>1, <1>2 DEF Receive

LEMMA QuietStep ==
  ASSUME ~DelayExceedsTimeout, IInv, WaitsQuietly, [Next]_vars
  PROVE  /\ WaitsQuietly'
         /\ Up /\ link' = "connected" /\ current' # current
              => asked /\ current' = NextEntry
  <1>0. Up => attempt = "none"
    BY IInvParts
  <1>1. CASE ConnectSucceeds
    <2>1. ~Up /\ wait = FALSE
      BY <1>0, <1>1, IInvParts DEF ConnectSucceeds, WaitsQuietly
    <2>2. WaitsQuietly'
      BY <1>1, <2>1, AsksQuietly, Zenon DEF ConnectSucceeds
    <2> QED BY <2>1, <2>2
  <1>2. CASE ConnectFails \/ Retry
    BY <1>0, <1>2 DEF ConnectFails, Retry, WaitsQuietly, Up
  <1>3. CASE ConnectionLost
    BY <1>3 DEF ConnectionLost, Disconnects, WaitsQuietly, Up
  <1>4. ASSUME NEW f \in flights, NEW valid \in BOOLEAN, Receive(f, valid)
        PROVE  /\ WaitsQuietly'
               /\ link' = "connected" /\ current' # current
                    => asked /\ current' = NextEntry
    BY <1>4, QuietReceive, Zenon
  <1>5. CASE TransactionTimeout
    <2>1. wait = FALSE /\ (Up => asked)
      BY <1>5, IInvParts DEF TransactionTimeout, WaitsQuietly
    <2>2. Asks(NextEntry, FALSE, Up, flights)
      BY <1>5, <2>1 DEF TransactionTimeout, AsksForNext
    <2> QED BY <2>1, <2>2, AsksQuietly, Zenon
  <1>6. CASE WaitTimeout
    BY <1>6, AsksQuietly, Zenon DEF WaitTimeout
  <1>7. CASE UNCHANGED vars
    BY <1>7 DEF vars, WaitsQuietly, Up
  <1> QED BY <1>1, <1>2, <1>3, <1>4, <1>5, <1>6, <1>7 DEF Next

LEMMA InitQuiet == Init => WaitsQuietly
  BY DEF Init, WaitsQuietly, Up

(* As long as the delay does not exceed the timeout, the two timers never  *)
(* run together.                                                           *)
THEOREM NeverTwoTimers ==
  ASSUME ~DelayExceedsTimeout
  PROVE  Spec => []OneTimer
  <1>1. IInv /\ WaitsQuietly /\ [Next]_vars => WaitsQuietly'
    BY QuietStep
  <1>2. WaitsQuietly => OneTimer
    BY DEF WaitsQuietly, OneTimer
  <1> QED BY <1>1, <1>2, InitQuiet, Invariance, PTL DEF Spec

(* As long as the delay does not exceed the timeout, no entry is skipped   *)
(* on a connection, whatever the slave and the network do.                 *)
THEOREM ScheduleInOrder ==
  ASSUME ~DelayExceedsTimeout
  PROVE  Spec => NoEntrySkipped
  <1> DEFINE Step == Up /\ link' = "connected" /\ current' # current
                       => asked /\ current' = NextEntry
  <1>1. IInv /\ WaitsQuietly /\ [Next]_vars => WaitsQuietly' /\ [Step]_vars
    BY QuietStep
  <1>2. Spec => [][Step]_vars
    BY <1>1, InitQuiet, Invariance, PTL DEF Spec
  <1> QED BY <1>2 DEF NoEntrySkipped
=============================================================================
