---------------------------- MODULE AlarmMachine ----------------------------
(***************************************************************************)
(* The two state machines of one alarm, src/core/alarm.c, as operators on  *)
(* an alarm record.  The inner machine (handle_alarm_event) holds the      *)
(* alarm's state; the outer one (handle_alarm_state_machine) filters the   *)
(* occur and clear conditions of successive samples through the alarm's    *)
(* delay.  start_time is kept as the time elapsed since it was taken: the  *)
(* code never uses it otherwise.  Alarm states one alarm as a state        *)
(* machine, Core puts alarms behind the channels they watch.               *)
(***************************************************************************)
EXTENDS Integers

AlarmStates == {"inactive", "active_pending", "inactive_pending", "active"}
DelayStates == {"occurring", "clearing", "occurred", "cleared"}
Triggers    == {"digital", "low", "high"}
Conditions  == {"occur", "clear"}
Events      == Conditions \cup {"ack"}

Raised(s)  == s \in {"active_pending", "active"}
Unacked(s) == s \in {"active_pending", "inactive_pending"}

(* The delay state in which ev is being timed, and the one where it holds. *)
Timing(ev)  == IF ev = "occur" THEN "occurring" ELSE "clearing"
Settled(ev) == IF ev = "occur" THEN "occurred"  ELSE "cleared"

NewAlarm(trigger, set_point, delay, never) ==
  [state |-> "inactive", delay_state |-> "cleared", trigger |-> trigger,
   set_point |-> set_point, delay |-> delay, elapsed |-> never,
   alarm_var |-> "inactive"]

(***************************************************************************)
(* handle_alarm_event.  Every branch of the code that moves the state also *)
(* queues the event to the alarm log, and no other does: an event is       *)
(* logged exactly when it moves the state.                                 *)
(***************************************************************************)
(* Mutant: an occurrence in inactive_pending skips the acknowledgement.    *)
OnOccurAcked(s) ==
  CASE s = "inactive" -> "active_pending"
    [] s = "inactive_pending" -> "active"
    [] OTHER -> s

OnOccur(s) == IF Raised(s) THEN s ELSE "active_pending"

OnClear(s) ==
  CASE s = "active_pending" -> "inactive_pending"
    [] s = "active"         -> "inactive"
    [] OTHER -> s

OnAck(s) ==
  CASE s = "active_pending"   -> "active"
    [] s = "inactive_pending" -> "inactive"
    [] OTHER -> s

NextState(s, ev) ==
  CASE ev = "occur" -> OnOccur(s)
    [] ev = "clear" -> OnClear(s)
    [] ev = "ack"   -> OnAck(s)

Logged(a, ev) == IF NextState(a.state, ev) = a.state THEN "none" ELSE ev

HandleEvent(a, ev) ==
  [a EXCEPT !.state     = NextState(a.state, ev),
            !.alarm_var = NextState(a.state, ev)]

(***************************************************************************)
(* handle_alarm_state_machine: one call per sample, ev being the condition *)
(* the sample shows.  A change of condition restarts the timing, the same  *)
(* condition reaches the alarm once it has lasted, and a settled condition *)
(* reaches it at every further sample.  With no delay the condition goes   *)
(* straight through and the delay state is left as it was.                 *)
(***************************************************************************)
Lasted(a, ev) == a.delay_state = Timing(ev) /\ a.elapsed >= a.delay

Restart(a, ev) == [a EXCEPT !.delay_state = Timing(ev), !.elapsed = 0]

Restarts(a, ev) ==
  a.delay # 0 /\ a.delay_state \notin {Timing(ev), Settled(ev)}

DelayStep(a, ev) ==
  CASE a.delay = 0 -> a
    [] a.delay # 0 /\ Lasted(a, ev) -> [a EXCEPT !.delay_state = Settled(ev)]
    [] Restarts(a, ev) -> Restart(a, ev)
    [] OTHER -> a

(* Mutant: a settled condition is not handed on again, so an alarm whose   *)
(* delay was zero for a while may never be told.                           *)
FiresOnce(a, ev) == a.delay = 0 \/ Lasted(a, ev)

(* Mutant: the elapsed time is not compared with the delay.                *)
FiresAtOnce(a, ev) ==
  a.delay = 0 \/ a.delay_state \in {Timing(ev), Settled(ev)}

Fires(a, ev) ==
  a.delay = 0 \/ a.delay_state = Settled(ev) \/ Lasted(a, ev)

HandleStateMachine(a, ev) ==
  IF Fires(a, ev) THEN HandleEvent(DelayStep(a, ev), ev) ELSE DelayStep(a, ev)

(* alarm_update: the condition that value v of the watched channel shows.  *)
Condition(a, v) ==
  IF \/ a.trigger = "digital" /\ v = a.set_point
     \/ a.trigger = "low"     /\ v < a.set_point
     \/ a.trigger = "high"    /\ v > a.set_point
  THEN "occur" ELSE "clear"

AlarmUpdate(a, v) == HandleStateMachine(a, Condition(a, v))

UpdateLogged(a, v) ==
  IF Fires(a, Condition(a, v)) THEN Logged(a, Condition(a, v)) ELSE "none"

AlarmAck(a) == HandleEvent(a, "ack")

(* Time passes for the alarm: start_time recedes.  Cap is the largest      *)
(* elapsed time that needs to be told apart.                               *)
Age(a, cap) == [a EXCEPT !.elapsed = IF @ < cap THEN @ + 1 ELSE @]
=============================================================================
