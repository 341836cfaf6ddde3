------------------------------- MODULE Alarm -------------------------------
(***************************************************************************)
(* One alarm of src/core/alarm.c as alarm_manager.c drives it: samples of  *)
(* the watched channel (__on_channel_update), acknowledgements             *)
(* (alarm_manager_ack_alarm) and changes of its delay and set point while  *)
(* the server runs (alarm_manager_update_alarm_config).  They come from    *)
(* the core, web and main threads; each of them runs under the alarm       *)
(* manager's lock, so each is one action.                                  *)
(***************************************************************************)
EXTENDS AlarmMachine

CONSTANTS
  Values,      (* values of the watched channel                            *)
  SetPoints,   (* set points a configuration may carry                     *)
  Delays,      (* delays a configuration may carry, 0 for no delay         *)
  MaxElapsed   (* cap on the elapsed times that are told apart             *)

ASSUME AlarmAssumption ==
  /\ Values \subseteq Int /\ SetPoints \subseteq Int
  /\ MaxElapsed \in Nat
  /\ Delays \subseteq 0 .. MaxElapsed

VARIABLES
  alarm,       (* the alarm_t                                              *)
  log,         (* the event the latest step queued to the log, or "none"   *)
  cond,        (* history: the condition the latest sample showed          *)
  held,        (* history: for how long every sample has shown cond        *)
  timed        (* history: has there been a delay ever since the condition *)
               (* that the delay state knows was first seen?               *)

vars == <<alarm, log, cond, held, timed>>

Init ==
  /\ \E t \in Triggers, sp \in SetPoints, d \in Delays :
       alarm = NewAlarm(t, sp, d, MaxElapsed)
  /\ log = "none"
  /\ cond = "clear"
  /\ held = 0
  /\ timed = (alarm.delay # 0)

Sample(v) ==
  /\ alarm' = AlarmUpdate(alarm, v)
  /\ log' = UpdateLogged(alarm, v)
  /\ cond' = Condition(alarm, v)
  /\ held' = IF Condition(alarm, v) = cond THEN held ELSE 0
  /\ timed' = (timed \/ Restarts(alarm, Condition(alarm, v)))

Ack ==
  /\ alarm' = AlarmAck(alarm)
  /\ log' = Logged(alarm, "ack")
  /\ UNCHANGED <<cond, held, timed>>

UpdateConfig(d, sp) ==
  /\ alarm' = [alarm EXCEPT !.delay = d, !.set_point = sp]
  /\ log' = "none"
  /\ timed' = (timed /\ d # 0)
  /\ UNCHANGED <<cond, held>>

Tick ==
  /\ alarm' = Age(alarm, MaxElapsed)
  /\ held' = IF held < MaxElapsed THEN held + 1 ELSE held
  /\ log' = "none"
  /\ UNCHANGED <<cond, timed>>

Next ==
  \/ \E v \in Values : Sample(v)
  \/ Ack
  \/ \E d \in Delays, sp \in SetPoints : UpdateConfig(d, sp)
  \/ Tick

Spec == Init /\ [][Next]_vars

(* The scan of src/main/core_driver.c:32-66 samples the channel again and  *)
(* again, and time passes; nobody has to acknowledge or reconfigure.       *)
Fairness == WF_vars(\E v \in Values : Sample(v)) /\ WF_vars(Tick)

FairSpec == Spec /\ Fairness
-----------------------------------------------------------------------------
AlarmRecord ==
  [state : AlarmStates, delay_state : DelayStates, trigger : Triggers,
   set_point : SetPoints, delay : Delays, elapsed : 0 .. MaxElapsed,
   alarm_var : AlarmStates]

TypeOK ==
  /\ alarm \in AlarmRecord
  /\ log \in Events \cup {"none"}
  /\ cond \in Conditions
  /\ held \in 0 .. MaxElapsed
  /\ timed \in BOOLEAN

(***************************************************************************)
(* The log tells the truth about the alarm, whatever the order of samples, *)
(* acknowledgements and reconfigurations: see AlarmJournal.  This is what  *)
(* the alarm log shown to the operator rests on.                           *)
(***************************************************************************)
Journal == INSTANCE AlarmJournal
             WITH raised <- Raised(alarm.state), unacked <- Unacked(alarm.state)

JournalSpec == Journal!Spec

(***************************************************************************)
(* An alarm is raised, or stops being raised, only after the samples have  *)
(* shown the condition for the delay in force (alarm.c:110-112, "measure   *)
(* time delay and generate alarm event accordingly").  The one exception   *)
(* is an alarm that had no delay for a while: the delay state it is left   *)
(* with may let one condition through unmeasured, until the samples bring  *)
(* a condition it does not know.                                           *)
(***************************************************************************)
DelayHonoured ==
  [][ timed /\ Raised(alarm.state)' # Raised(alarm.state)
        => /\ Raised(alarm.state)' = (cond' = "occur")
           /\ held' >= alarm.delay ]_vars

(***************************************************************************)
(* Under a delay the two machines tell the same story: a settled delay     *)
(* state agrees with the alarm, the delay state knows the condition of the *)
(* latest sample, and no more time is counted than the samples have shown  *)
(* that condition for.  This is what DelayHonoured rests on.               *)
(***************************************************************************)
DelayInv ==
  timed =>
    /\ alarm.delay # 0
    /\ alarm.delay_state = "occurred" => Raised(alarm.state)
    /\ alarm.delay_state = "cleared"  => ~Raised(alarm.state)
    /\ alarm.delay_state \in {Timing(cond), Settled(cond)}
    /\ alarm.delay_state = Timing(cond) => alarm.elapsed <= held

(***************************************************************************)
(* A condition that lasts always gets through: once the samples show it    *)
(* for good, the alarm follows it for good, even if its delay is changed   *)
(* again and again, to zero and back, while the condition is being timed.  *)
(***************************************************************************)
FollowsCondition ==
  \A ev \in Conditions :
    <>[](cond = ev) => <>[](Raised(alarm.state) <=> ev = "occur")
=============================================================================
