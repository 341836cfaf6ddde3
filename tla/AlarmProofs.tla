---------------------------- MODULE AlarmProofs ----------------------------
(***************************************************************************)
(* What holds of an alarm for all values, set points and delays.           *)
(***************************************************************************)
EXTENDS Alarm, TLAPS

(* The alarm's state stays a state, whatever the event.                    *)
LEMMA NextStateType ==
  ASSUME NEW s \in AlarmStates, NEW ev \in Events
  PROVE  NextState(s, ev) \in AlarmStates
  BY DEF AlarmStates, Events, Conditions, NextState, OnOccur, OnClear, OnAck,
         Raised

(* What the delay filter does in each of its four situations.              *)
LEMMA DelayStepCases ==
  ASSUME NEW a \in AlarmRecord, NEW ev \in Conditions
  PROVE  /\ a.delay = 0 => DelayStep(a, ev) = a
         /\ a.delay # 0 /\ Lasted(a, ev) =>
              DelayStep(a, ev) = [a EXCEPT !.delay_state = Settled(ev)]
         /\ Restarts(a, ev) => DelayStep(a, ev) = Restart(a, ev)
         /\ a.delay # 0 /\ ~Lasted(a, ev)
            /\ a.delay_state \in {Timing(ev), Settled(ev)} =>
              DelayStep(a, ev) = a
<1>1. Lasted(a, ev) => a.delay_state = Timing(ev)
  BY DEF Lasted
<1> QED
  BY <1>1, Zenon DEF DelayStep, Restarts

(* A sample turns an alarm record into an alarm record.                    *)
LEMMA UpdateType ==
  ASSUME NEW a \in AlarmRecord, NEW ev \in Conditions
  PROVE  /\ HandleStateMachine(a, ev) \in AlarmRecord
         /\ HandleStateMachine(a, ev).delay = a.delay
         /\ HandleStateMachine(a, ev).delay_state = DelayStep(a, ev).delay_state
         /\ HandleStateMachine(a, ev).elapsed = DelayStep(a, ev).elapsed
         /\ HandleStateMachine(a, ev).state =
              IF Fires(a, ev) THEN NextState(a.state, ev) ELSE a.state
<1>1. /\ DelayStep(a, ev) \in AlarmRecord
      /\ DelayStep(a, ev).state = a.state
      /\ DelayStep(a, ev).delay = a.delay
  <2>1. Timing(ev) \in DelayStates /\ Settled(ev) \in DelayStates
    BY DEF Timing, Settled, DelayStates
  <2>2. DelayStep(a, ev) \in {a, [a EXCEPT !.delay_state = Settled(ev)],
                             Restart(a, ev)}
    BY DelayStepCases DEF Restarts
  <2>3. /\ [a EXCEPT !.delay_state = Settled(ev)] \in AlarmRecord
        /\ [a EXCEPT !.delay_state = Settled(ev)].state = a.state
        /\ [a EXCEPT !.delay_state = Settled(ev)].delay = a.delay
    BY <2>1 DEF AlarmRecord
  <2>4. /\ Restart(a, ev) \in AlarmRecord
        /\ Restart(a, ev).state = a.state
        /\ Restart(a, ev).delay = a.delay
    <3>1. 0 \in 0 .. MaxElapsed
      BY AlarmAssumption
    <3> QED
      BY <2>1, <3>1 DEF AlarmRecord, Restart
  <2> QED
    BY <2>2, <2>3, <2>4
<1>2. NextState(a.state, ev) \in AlarmStates
  BY NextStateType DEF AlarmRecord, Events
<1> QED
  BY <1>1, <1>2 DEF HandleStateMachine, HandleEvent, AlarmRecord

LEMMA ConditionType ==
  ASSUME NEW a, NEW v
  PROVE  Condition(a, v) \in Conditions
  BY DEF Condition, Conditions

(* Every field stays within its type in every reachable state.             *)
THEOREM Typing == Spec => []TypeOK
<1>1. Init => TypeOK
  BY AlarmAssumption
     DEF Init, TypeOK, NewAlarm, AlarmRecord, AlarmStates, DelayStates, Events,
         Conditions
<1>2. TypeOK /\ [Next]_vars => TypeOK'
  <2> SUFFICES ASSUME TypeOK, [Next]_vars
               PROVE  TypeOK'
    OBVIOUS
  <2>1. ASSUME NEW v \in Values, Sample(v)
        PROVE  TypeOK'
    <3>1. Condition(alarm, v) \in Conditions
      BY ConditionType
    <3>2. alarm' \in AlarmRecord
      BY <2>1, <3>1, UpdateType DEF Sample, AlarmUpdate, TypeOK
    <3>3. log' \in Events \cup {"none"}
      BY <2>1, <3>1 DEF Sample, UpdateLogged, Logged, Events
    <3> QED
      BY <2>1, <3>1, <3>2, <3>3, AlarmAssumption DEF Sample, TypeOK
  <2>2. CASE Ack
    <3>1. NextState(alarm.state, "ack") \in AlarmStates
      BY NextStateType DEF TypeOK, AlarmRecord, Events
    <3> QED
      BY <2>2, <3>1 DEF Ack, AlarmAck, HandleEvent, Logged, TypeOK, AlarmRecord,
                        Events
  <2>3. ASSUME NEW d \in Delays, NEW sp \in SetPoints, UpdateConfig(d, sp)
        PROVE  TypeOK'
    BY <2>3 DEF UpdateConfig, TypeOK, AlarmRecord
  <2>4. CASE Tick
    BY <2>4, AlarmAssumption DEF Tick, Age, TypeOK, AlarmRecord
  <2>5. CASE UNCHANGED vars
    BY <2>5 DEF vars, TypeOK
  <2> QED
    BY <2>1, <2>2, <2>3, <2>4, <2>5 DEF Next
<1> QED
  BY <1>1, <1>2, PTL DEF Spec
-----------------------------------------------------------------------------
(* The alarm log is a correct account of the alarm under every order of    *)
(* samples, acknowledgements and reconfigurations, delays of zero          *)
(* included: Alarm implements AlarmJournal.                                *)
THEOREM LogIsFaithful == Spec => JournalSpec
<1>1. Init => Journal!Init
  BY DEF Init, Journal!Init, NewAlarm, Raised, Unacked
<1>2. TypeOK /\ [Next]_vars => [Journal!Next]_Journal!vars
  <2> SUFFICES ASSUME TypeOK, [Next]_vars
               PROVE  [Journal!Next]_Journal!vars
    OBVIOUS
  <2> USE DEF Journal!Next, Journal!vars, Journal!Occur, Journal!Clear,
              Journal!Ack, Journal!Quiet
  <2>0. alarm.state \in AlarmStates
    BY DEF TypeOK, AlarmRecord
  <2>1. ASSUME NEW v \in Values, Sample(v)
        PROVE  Journal!Next
    <3> DEFINE ev == Condition(alarm, v)
    <3>1. ev \in Conditions
      BY ConditionType
    <3>2. alarm'.state =
            IF Fires(alarm, ev) THEN NextState(alarm.state, ev) ELSE alarm.state
      BY <2>1, <3>1, UpdateType DEF Sample, AlarmUpdate, TypeOK
    <3>3. log' = IF Fires(alarm, ev) THEN Logged(alarm, ev) ELSE "none"
      BY <2>1 DEF Sample, UpdateLogged
    <3> HIDE DEF ev
    <3> QED
      BY <2>0, <3>1, <3>2, <3>3
         DEF Logged, NextState, OnOccur, OnClear, Raised, Unacked, AlarmStates,
             Conditions
  <2>2. CASE Ack
    <3>1. /\ alarm'.state = NextState(alarm.state, "ack")
          /\ log' = Logged(alarm, "ack")
      BY <2>2 DEF Ack, AlarmAck, HandleEvent, TypeOK, AlarmRecord
    <3> QED
      BY <2>0, <3>1
         DEF Logged, NextState, OnAck, Raised, Unacked, AlarmStates
  <2>3. ASSUME NEW d \in Delays, NEW sp \in SetPoints, UpdateConfig(d, sp)
        PROVE  Journal!Quiet
    BY <2>3 DEF UpdateConfig, TypeOK, AlarmRecord
  <2>4. CASE Tick
    BY <2>4 DEF Tick, Age, TypeOK, AlarmRecord
  <2>5. CASE UNCHANGED vars
    BY <2>5 DEF vars
  <2> QED
    BY <2>1, <2>2, <2>3, <2>4, <2>5 DEF Next
<1> QED
  BY <1>1, <1>2, Typing, PTL DEF Spec, JournalSpec, Journal!Spec
-----------------------------------------------------------------------------
(* A sample keeps the two machines of an alarm with a delay consistent.    *)
LEMMA SampleKeepsDelayInv ==
  ASSUME TypeOK, DelayInv, NEW v \in Values, Sample(v)
  PROVE  DelayInv'
<1> DEFINE ev == Condition(alarm, v)
<1>1. ev \in Conditions
  BY ConditionType
<1>2. /\ alarm'.delay_state = DelayStep(alarm, ev).delay_state
      /\ alarm'.elapsed = DelayStep(alarm, ev).elapsed
      /\ alarm'.state =
           IF Fires(alarm, ev) THEN NextState(alarm.state, ev) ELSE alarm.state
  BY <1>1, UpdateType DEF Sample, AlarmUpdate, TypeOK
<1>3. /\ cond' = ev /\ held' = IF ev = cond THEN held ELSE 0
      /\ timed' = (timed \/ Restarts(alarm, ev))
      /\ alarm'.delay = alarm.delay
  BY <1>1, UpdateType DEF Sample, AlarmUpdate, TypeOK
<1> HIDE DEF ev
<1>0. held' \in 0 .. MaxElapsed
  BY <1>3, AlarmAssumption DEF TypeOK
<1>4. /\ alarm.state \in AlarmStates /\ alarm.delay_state \in DelayStates
      /\ cond \in Conditions
      /\ alarm \in AlarmRecord
  BY DEF TypeOK, AlarmRecord
<1>5. alarm.delay # 0 /\ Lasted(alarm, ev) =>
        /\ alarm'.delay_state = Settled(ev)
        /\ alarm'.state = NextState(alarm.state, ev)
  BY <1>1, <1>2, <1>4, DelayStepCases DEF Fires, AlarmRecord
<1>6. Restarts(alarm, ev) =>
        /\ alarm.delay # 0
        /\ alarm'.delay_state = Timing(ev)
        /\ alarm'.elapsed = 0
  <2>1. Restarts(alarm, ev) => DelayStep(alarm, ev) = Restart(alarm, ev)
    BY <1>1, <1>4, DelayStepCases
  <2>2. /\ Restart(alarm, ev).delay_state = Timing(ev)
        /\ Restart(alarm, ev).elapsed = 0
    BY <1>4 DEF Restart, AlarmRecord
  <2> QED
    BY <1>2, <2>1, <2>2 DEF Restarts
<1>7. alarm.delay # 0 /\ alarm.delay_state = Settled(ev) =>
        /\ alarm'.delay_state = Settled(ev)
        /\ alarm'.state = NextState(alarm.state, ev)
  BY <1>1, <1>2, <1>4
     DEF DelayStep, Restarts, Fires, Lasted, Timing, Settled, Conditions
<1>8. timed /\ alarm.delay_state = Timing(ev) /\ ~Lasted(alarm, ev) =>
        /\ alarm'.delay_state = Timing(ev)
        /\ alarm'.elapsed = alarm.elapsed
        /\ ev = cond
  BY <1>1, <1>2, <1>4
     DEF DelayStep, Restarts, Timing, Settled, Conditions, DelayInv
<1>9. ev = "occur" => Raised(NextState(alarm.state, ev))
  BY DEF NextState, OnOccur, Raised
<1>10. ev = "clear" => ~Raised(NextState(alarm.state, ev))
  BY <1>4 DEF NextState, OnClear, Raised, AlarmStates
<1> QED
  <2>1. CASE Restarts(alarm, ev)
    BY <2>1, <1>0, <1>1, <1>3, <1>6 DEF DelayInv, Timing, Settled, Conditions
  <2>2. CASE timed /\ (Lasted(alarm, ev) \/ alarm.delay_state = Settled(ev))
    BY <2>2, <1>1, <1>3, <1>5, <1>7, <1>9, <1>10
       DEF DelayInv, Timing, Settled, Conditions
  <2>3. CASE timed /\ alarm.delay_state = Timing(ev) /\ ~Lasted(alarm, ev)
    BY <2>3, <1>1, <1>3, <1>8 DEF DelayInv, Timing, Settled, Conditions
  <2>4. CASE ~timed /\ ~Restarts(alarm, ev)
    BY <2>4, <1>3 DEF DelayInv
  <2> QED
    BY <2>1, <2>2, <2>3, <2>4 DEF Restarts, DelayInv

(* Under a delay the delay state and the alarm agree in every reachable    *)
(* state, whatever configurations came before.                             *)
THEOREM DelayStateAgrees == Spec => []DelayInv
<1>1. Init => DelayInv
  <2> SUFFICES ASSUME Init, timed
               PROVE  DelayInv
    BY DEF DelayInv
  <2>1. /\ alarm.state = "inactive" /\ alarm.delay_state = "cleared"
        /\ cond = "clear"
    BY DEF Init, NewAlarm
  <2>2. alarm.delay # 0
    BY DEF Init
  <2> QED
    BY <2>1, <2>2 DEF DelayInv, Raised, Timing, Settled
<1>2. TypeOK /\ DelayInv /\ [Next]_vars => DelayInv'
  <2> SUFFICES ASSUME TypeOK, DelayInv, [Next]_vars
               PROVE  DelayInv'
    OBVIOUS
  <2>1. ASSUME NEW v \in Values, Sample(v)
        PROVE  DelayInv'
    BY <2>1, SampleKeepsDelayInv
  <2>2. CASE Ack
    <3>1. /\ alarm'.delay_state = alarm.delay_state
          /\ alarm'.elapsed = alarm.elapsed
          /\ alarm'.delay = alarm.delay
          /\ alarm'.state = NextState(alarm.state, "ack")
          /\ timed' = timed /\ cond' = cond /\ held' = held
      BY <2>2 DEF Ack, AlarmAck, HandleEvent, TypeOK, AlarmRecord
    <3>2. Raised(NextState(alarm.state, "ack")) = Raised(alarm.state)
      BY DEF TypeOK, AlarmRecord, AlarmStates, NextState, OnAck, Raised
    <3> QED
      BY <3>1, <3>2 DEF DelayInv, Raised, Timing, Settled
  <2>3. ASSUME NEW d \in Delays, NEW sp \in SetPoints, UpdateConfig(d, sp)
        PROVE  DelayInv'
    <3>1. /\ alarm'.delay_state = alarm.delay_state
          /\ alarm'.elapsed = alarm.elapsed
          /\ alarm'.state = alarm.state
          /\ alarm'.delay = d
          /\ cond' = cond /\ held' = held
      BY <2>3 DEF UpdateConfig, TypeOK, AlarmRecord
    <3>2. CASE timed'
      <4>1. timed /\ d # 0
        BY <2>3, <3>2 DEF UpdateConfig
      <4> QED
        BY <3>1, <4>1 DEF DelayInv, Raised, Timing, Settled
    <3>3. CASE ~timed'
      BY <3>3 DEF DelayInv
    <3> QED
      BY <3>2, <3>3
  <2>4. CASE Tick
    <3>1. /\ alarm'.delay_state = alarm.delay_state
          /\ alarm'.state = alarm.state
          /\ alarm'.elapsed = IF alarm.elapsed < MaxElapsed
                                THEN alarm.elapsed + 1 ELSE alarm.elapsed
          /\ alarm'.delay = alarm.delay
          /\ alarm.elapsed \in 0 .. MaxElapsed
      BY <2>4 DEF Tick, Age, TypeOK, AlarmRecord
    <3>2. /\ timed' = timed /\ cond' = cond /\ held \in 0 .. MaxElapsed
          /\ held' = IF held < MaxElapsed THEN held + 1 ELSE held
      BY <2>4 DEF Tick, TypeOK
    <3>3. alarm.elapsed <= held => alarm'.elapsed <= held'
      BY <3>1, <3>2, AlarmAssumption
    <3> QED
      BY <3>1, <3>2, <3>3 DEF DelayInv, Raised, Timing, Settled
  <2>5. CASE UNCHANGED vars
    BY <2>5 DEF vars, DelayInv, Raised
  <2> QED
    BY <2>1, <2>2, <2>3, <2>4, <2>5 DEF Next
<1> QED
  BY <1>1, <1>2, Typing, PTL DEF Spec

(* Under a delay the alarm is raised and cleared only after the samples    *)
(* have shown the condition for that delay.                                *)
THEOREM DelayIsHonoured == Spec => DelayHonoured
<1> DEFINE Honoured ==
      timed /\ Raised(alarm.state)' # Raised(alarm.state)
        => /\ Raised(alarm.state)' = (cond' = "occur")
           /\ held' >= alarm.delay
<1>1. TypeOK /\ DelayInv /\ [Next]_vars => [Honoured]_vars
  <2> SUFFICES ASSUME TypeOK, DelayInv, [Next]_vars
               PROVE  [Honoured]_vars
    OBVIOUS
  <2>0. /\ alarm.state \in AlarmStates /\ alarm.delay \in Delays
        /\ timed => alarm.delay # 0
    BY DEF TypeOK, AlarmRecord, DelayInv
  <2>1. ASSUME NEW v \in Values, Sample(v)
        PROVE  Honoured
    <3> DEFINE ev == Condition(alarm, v)
    <3>1. ev \in Conditions
      BY ConditionType
    <3>2. /\ alarm'.state = IF Fires(alarm, ev) THEN NextState(alarm.state, ev)
                                                ELSE alarm.state
          /\ cond' = ev /\ held' = IF ev = cond THEN held ELSE 0
      BY <2>1, <3>1, UpdateType DEF Sample, AlarmUpdate, TypeOK
    <3> HIDE DEF ev
    <3>3. timed /\ alarm.delay_state = Settled(ev) =>
            Raised(NextState(alarm.state, ev)) = Raised(alarm.state)
      BY <2>0, <3>1 DEF DelayInv, Settled, Conditions, NextState, OnOccur,
                        OnClear, Raised, AlarmStates
    <3>4. timed /\ Lasted(alarm, ev) => ev = cond /\ held >= alarm.delay
      <4>1. /\ alarm.elapsed \in 0 .. MaxElapsed /\ alarm.delay \in Delays
            /\ held \in 0 .. MaxElapsed /\ cond \in Conditions
        BY DEF TypeOK, AlarmRecord
      <4>2. timed /\ Lasted(alarm, ev) =>
              ev = cond /\ alarm.elapsed <= held /\ alarm.elapsed >= alarm.delay
        BY <3>1, <4>1
           DEF Lasted, DelayInv, Timing, Settled, Conditions
      <4>3. alarm.elapsed \in Int /\ alarm.delay \in Int /\ held \in Int
        <5>1. 0 .. MaxElapsed \subseteq Int
          BY AlarmAssumption
        <5> QED
          BY <4>1, <5>1, AlarmAssumption
      <4> QED
        BY <4>2, <4>3
    <3>5. Raised(NextState(alarm.state, ev)) = (ev = "occur")
      BY <2>0, <3>1 DEF Conditions, NextState, OnOccur, OnClear, Raised,
                        AlarmStates
    <3> QED
      BY <2>0, <3>2, <3>3, <3>4, <3>5 DEF Fires, Raised
  <2>2. CASE Ack
    <3>1. alarm'.state = NextState(alarm.state, "ack")
      BY <2>2 DEF Ack, AlarmAck, HandleEvent, TypeOK, AlarmRecord
    <3> QED
      BY <2>0, <3>1 DEF NextState, OnAck, Raised, AlarmStates
  <2>3. ASSUME NEW d \in Delays, NEW sp \in SetPoints, UpdateConfig(d, sp)
        PROVE  Honoured
    BY <2>3 DEF UpdateConfig, TypeOK, AlarmRecord, Raised
  <2>4. CASE Tick
    BY <2>4 DEF Tick, Age, TypeOK, AlarmRecord, Raised
  <2> QED
    BY <2>1, <2>2, <2>3, <2>4 DEF Next
<1>2. Spec => []TypeOK /\ []DelayInv
  BY Typing, DelayStateAgrees
<1> QED
  BY <1>1, <1>2, PTL DEF Spec, DelayHonoured
=============================================================================
