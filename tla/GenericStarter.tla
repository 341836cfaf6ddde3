--------------------------- MODULE GenericStarter ---------------------------
(***************************************************************************)
(* The motor starter of app/app_stdlib/generic_starter.c: one action is    *)
(* one call of generic_starter_run, with the inputs that the scan of the   *)
(* channels left.  Feedback, requests and interlocks come in any           *)
(* combination and change from scan to scan.                               *)
(***************************************************************************)
EXTENDS ControlLib

VARIABLE
  starter     (* generic_starter_t: status is the one of the flags stopped *)
              (* to stopping that is set, "none" before the first scan;    *)
              (* start and stop are the outputs; alerts the flags of       *)
              (* unexpected changes and failures; moved is history: how    *)
              (* long ago it left stopped or running                       *)

StarterInputs ==
  [running : BOOLEAN, stopped : BOOLEAN, start_req : BOOLEAN, stop_req : BOOLEAN,
   start_IL : BOOLEAN, stop_IL : BOOLEAN]

StarterMoves == {"starting", "stopping"}

StarterInit ==
  starter = [status |-> "none", start |-> FALSE, stop |-> FALSE, alerts |-> {},
             ftr_tmr |-> TINIT, alert_tmr |-> TINIT, moved |-> 0]
-----------------------------------------------------------------------------
(* The state the turn begins in: feedback counts unless the motor was      *)
(* starting or stopping.                                                   *)
StarterState(i) ==
  CASE starter.status \in StarterMoves -> starter.status
    [] starter.status \notin StarterMoves /\ i.running /\ ~i.stopped -> "running"
    [] starter.status \notin StarterMoves /\ i.stopped /\ ~i.running -> "stopped"
    [] starter.status \notin StarterMoves /\ i.running = i.stopped ->
         IF starter.status = "none" THEN "stopped" ELSE starter.status

StarterUnexpected(i) ==
  (IF i.running /\ ~i.stopped /\ starter.status = "stopped" THEN {"ux_start"} ELSE {})
  \cup
  (IF i.stopped /\ ~i.running /\ starter.status = "running" THEN {"ux_stop"} ELSE {})

(* The end of generic_starter_run: while there are alerts their timer      *)
(* runs, and when it is over all of them are cleared.                      *)
StarterAlerted(s) ==
  LET tmr == TSTART(s.alert_tmr)
  IN  IF s.alerts = {} THEN s
      ELSE IF TELAPSED(tmr) > AlertTimeout
      THEN [s EXCEPT !.alerts = {}, !.alert_tmr = TSTOP]
      ELSE [s EXCEPT !.alert_tmr = tmr]

(* The rest of the turn when the motor is found to be status; drives are   *)
(* the outputs that are on.                                                *)
StarterBecomes(i, status, drives, tmr, failed) ==
  starter' = StarterAlerted(
    [status |-> status, start |-> "start" \in drives, stop |-> "stop" \in drives,
     alerts |-> starter.alerts \cup StarterUnexpected(i) \cup failed,
     ftr_tmr |-> tmr, alert_tmr |-> starter.alert_tmr,
     moved |-> IF {status, starter.status} \subseteq StarterMoves THEN starter.moved ELSE 0])

(* The outputs that are on already.                                        *)
StarterDriven ==
  (IF starter.start THEN {"start"} ELSE {}) \cup (IF starter.stop THEN {"stop"} ELSE {})

StarterLate == TELAPSED(starter.ftr_tmr) > FtrTmr

StarterStopped(i) ==
  /\ StarterState(i) = "stopped"
  /\ IF i.start_req /\ i.start_IL
     THEN StarterBecomes(i, "starting", StarterDriven \cup {"start"},
                         TSTART(starter.ftr_tmr), {})
     ELSE StarterBecomes(i, "stopped", StarterDriven, starter.ftr_tmr, {})

StarterRunning(i) ==
  /\ StarterState(i) = "running"
  /\ IF i.stop_req /\ i.stop_IL
     THEN StarterBecomes(i, "stopping", StarterDriven \cup {"stop"},
                         TSTART(starter.ftr_tmr), {})
     ELSE StarterBecomes(i, "running", StarterDriven, starter.ftr_tmr, {})

(* Once the motor runs, its timer goes on; so it does after a failure.  A  *)
(* stop request takes over without the interlock and without more time.    *)
StarterStarting(i) ==
  /\ StarterState(i) = "starting"
  /\ \/ /\ i.running
        /\ StarterBecomes(i, "running", StarterDriven \ {"start"},
                          TSTART(starter.ftr_tmr), {})
     \/ /\ ~i.running /\ StarterLate
        /\ StarterBecomes(i, "stopped", StarterDriven \ {"start"}, starter.ftr_tmr,
                          {"failed_to_start"})
     \/ /\ ~i.running /\ ~StarterLate /\ i.stop_req
        /\ StarterBecomes(i, "stopping", (StarterDriven \ {"start"}) \cup {"stop"},
                          starter.ftr_tmr, {})
     \/ /\ ~i.running /\ ~StarterLate /\ ~i.stop_req
        /\ StarterBecomes(i, "starting", StarterDriven, starter.ftr_tmr, {})

(* Mutant: a start request during the stop gives the motor its time anew   *)
(* and leaves the stop output on.                                          *)
StarterStoppingKeepsOn(i) ==
  /\ StarterState(i) = "stopping"
  /\ \/ /\ i.stopped
        /\ StarterBecomes(i, "stopped", StarterDriven \ {"stop"}, TSTOP, {})
     \/ /\ ~i.stopped /\ StarterLate
        /\ StarterBecomes(i, "running", StarterDriven \ {"stop"}, TSTOP,
                          {"failed_to_stop"})
     \/ /\ ~i.stopped /\ ~StarterLate /\ i.start_req
        /\ StarterBecomes(i, "starting", StarterDriven \cup {"start"}, Started, {})
     \/ /\ ~i.stopped /\ ~StarterLate /\ ~i.start_req
        /\ StarterBecomes(i, "stopping", StarterDriven, starter.ftr_tmr, {})

StarterStopping(i) ==
  /\ StarterState(i) = "stopping"
  /\ \/ /\ i.stopped
        /\ StarterBecomes(i, "stopped", StarterDriven \ {"stop"}, TSTOP, {})
     \/ /\ ~i.stopped /\ StarterLate
        /\ StarterBecomes(i, "running", StarterDriven \ {"stop"}, TSTOP,
                          {"failed_to_stop"})
     \/ /\ ~i.stopped /\ ~StarterLate /\ i.start_req
        /\ StarterBecomes(i, "starting", (StarterDriven \ {"stop"}) \cup {"start"},
                          starter.ftr_tmr, {})
     \/ /\ ~i.stopped /\ ~StarterLate /\ ~i.start_req
        /\ StarterBecomes(i, "stopping", StarterDriven, starter.ftr_tmr, {})

generic_starter_run ==
  \E i \in StarterInputs :
    StarterStopped(i) \/ StarterRunning(i) \/ StarterStarting(i) \/ StarterStopping(i)

(* Time passes.                                                            *)
StarterAged ==
  [starter EXCEPT !.ftr_tmr = Aged(@), !.alert_tmr = Aged(@),
                  !.moved = IF starter.status \in StarterMoves THEN Older(@) ELSE @]
=============================================================================
