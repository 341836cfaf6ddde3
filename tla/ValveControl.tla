---------------------------- MODULE ValveControl ----------------------------
(***************************************************************************)
(* The valve of app/app_stdlib/valve_control.c: one action is one call of  *)
(* valve_control_run, with the inputs that the scan of the channels left.  *)
(***************************************************************************)
EXTENDS ControlLib

VARIABLE
  valve       (* valve_control_t: state is also the one of the flags       *)
              (* opened to closing that is set, none when indeterminate;   *)
              (* open and close are the outputs; alerts the other flags;   *)
              (* history: moved is how long it has been opening or         *)
              (* closing, crossed that both its requests were granted at   *)
              (* once and it has neither been closing nor had its close    *)
              (* output off since                                          *)

(* in_opening and in_closing are only ever asked for together.             *)
ValveInputs ==
  [opened : BOOLEAN, closed : BOOLEAN, moving : BOOLEAN, open_req : BOOLEAN,
   close_req : BOOLEAN, open_IL : BOOLEAN, close_IL : BOOLEAN]

ValveMoves == {"opening", "closing"}

ValveInit ==
  valve = [state |-> "indeterminate", open |-> FALSE, close |-> FALSE, alerts |-> {},
           ftr_tmr |-> TINIT, alert_tmr |-> TINIT, moved |-> 0, crossed |-> FALSE]
-----------------------------------------------------------------------------
(* The state the turn begins in: feedback counts unless the valve was      *)
(* opening or closing.                                                     *)
ValveState(i) ==
  CASE valve.state \in ValveMoves -> valve.state
    [] valve.state \notin ValveMoves /\ i.opened /\ ~i.closed -> "opened"
    [] valve.state \notin ValveMoves /\ i.closed /\ ~i.opened -> "closed"
    [] valve.state \notin ValveMoves /\ i.opened /\ i.closed -> "indeterminate"
    [] valve.state \notin ValveMoves /\ ~i.opened /\ ~i.closed ->
         IF i.moving THEN valve.state ELSE "indeterminate"

ValveUnexpected(i) ==
  (IF i.opened /\ ~i.closed /\ valve.state = "closed" THEN {"ux_opened"} ELSE {})
  \cup
  (IF i.closed /\ ~i.opened /\ valve.state = "opened" THEN {"ux_closed"} ELSE {})

(* The end of valve_control_run.                                           *)
ValveAlerted(v) ==
  LET tmr == TSTART(v.alert_tmr)
  IN  IF v.alerts = {} THEN [v EXCEPT !.alert_tmr = TSTOP]
      ELSE IF TELAPSED(tmr) > AlertTimeout
      THEN [v EXCEPT !.alerts = {}, !.alert_tmr = TSTOP]
      ELSE [v EXCEPT !.alert_tmr = tmr]

(* Both requests are granted in one scan, which only a valve whose state   *)
(* is indeterminate does.                                                  *)
BothGranted(i) ==
  /\ ValveState(i) = "indeterminate"
  /\ i.close_req /\ i.close_IL /\ i.open_req /\ i.open_IL

(* The rest of the turn when the valve goes to state, with these outputs   *)
(* and response timer; "fault" is status_indeterminate.                    *)
ValveBecomes(i, state, open, close, tmr, raised) ==
  valve' = ValveAlerted(
    [state |-> state, open |-> open, close |-> close,
     alerts |-> (valve.alerts \ {"fault"}) \cup ValveUnexpected(i) \cup raised,
     ftr_tmr |-> tmr, alert_tmr |-> valve.alert_tmr,
     moved |-> IF state = valve.state THEN valve.moved ELSE 0,
     crossed |-> (BothGranted(i) \/ valve.crossed) /\ close /\ state # "closing"])

ValveStays(i, state, raised) ==
  ValveBecomes(i, state, valve.open, valve.close, valve.ftr_tmr, raised)

ValveLate == TELAPSED(valve.ftr_tmr) > FtrTmr

ValveClosed(i) ==
  /\ ValveState(i) = "closed"
  /\ IF i.open_req /\ i.open_IL
     THEN ValveBecomes(i, "opening", TRUE, valve.close, TSTART(valve.ftr_tmr), {})
     ELSE ValveStays(i, "closed", {})

ValveOpened(i) ==
  /\ ValveState(i) = "opened"
  /\ IF i.close_req /\ i.close_IL
     THEN ValveBecomes(i, "closing", valve.open, TRUE, TSTART(valve.ftr_tmr), {})
     ELSE ValveStays(i, "opened", {})

(* Mutant: the way back after a failure has no time of its own.            *)
RestartedKeepsTime(tmr) == TSTART(tmr)

(* TSTOP and TSTART.                                                       *)
Restarted(tmr) == Started

(* Mutant: an open request that takes over leaves the close output on.     *)
ValveClosingKeepsClose(i) ==
  /\ ValveState(i) = "closing"
  /\ \/ /\ i.closed
        /\ ValveBecomes(i, "closed", valve.open, FALSE, TSTOP, {})
     \/ /\ ~i.closed /\ i.open_req
        /\ ValveBecomes(i, "opening", TRUE, valve.close, Restarted(valve.ftr_tmr), {})
     \/ /\ ~i.closed /\ ~i.open_req /\ ValveLate /\ ~i.open_IL
        /\ ValveBecomes(i, "indeterminate", FALSE, FALSE, TSTOP,
                        {"fail_to_close", "fault"})
     \/ /\ ~i.closed /\ ~i.open_req /\ ValveLate /\ i.open_IL
        /\ ValveBecomes(i, "opening", TRUE, FALSE, Restarted(valve.ftr_tmr),
                        {"fail_to_close"})
     \/ /\ ~i.closed /\ ~i.open_req /\ ~ValveLate
        /\ ValveStays(i, "closing", {})

(* An open request takes over without the interlock.  A valve that fails   *)
(* to close is opened again if its interlock allows it.                    *)
ValveClosing(i) ==
  /\ ValveState(i) = "closing"
  /\ \/ /\ i.closed
        /\ ValveBecomes(i, "closed", valve.open, FALSE, TSTOP, {})
     \/ /\ ~i.closed /\ i.open_req
        /\ ValveBecomes(i, "opening", TRUE, FALSE, Restarted(valve.ftr_tmr), {})
     \/ /\ ~i.closed /\ ~i.open_req /\ ValveLate /\ ~i.open_IL
        /\ ValveBecomes(i, "indeterminate", FALSE, FALSE, TSTOP,
                        {"fail_to_close", "fault"})
     \/ /\ ~i.closed /\ ~i.open_req /\ ValveLate /\ i.open_IL
        /\ ValveBecomes(i, "opening", TRUE, FALSE, Restarted(valve.ftr_tmr),
                        {"fail_to_close"})
     \/ /\ ~i.closed /\ ~i.open_req /\ ~ValveLate
        /\ ValveStays(i, "closing", {})

(* A close request takes over without the interlock, and with the close    *)
(* output off.                                                             *)
ValveOpening(i) ==
  /\ ValveState(i) = "opening"
  /\ \/ /\ i.opened
        /\ ValveBecomes(i, "opened", FALSE, valve.close, TSTOP, {})
     \/ /\ ~i.opened /\ i.close_req
        /\ ValveBecomes(i, "closing", FALSE, FALSE, Restarted(valve.ftr_tmr), {})
     \/ /\ ~i.opened /\ ~i.close_req /\ ValveLate /\ ~i.close_IL
        /\ ValveBecomes(i, "indeterminate", FALSE, FALSE, TSTOP,
                        {"fail_to_open", "fault"})
     \/ /\ ~i.opened /\ ~i.close_req /\ ValveLate /\ i.close_IL
        /\ ValveBecomes(i, "closing", FALSE, TRUE, Restarted(valve.ftr_tmr),
                        {"fail_to_open"})
     \/ /\ ~i.opened /\ ~i.close_req /\ ~ValveLate
        /\ ValveStays(i, "opening", {})

(* Both requests may be granted: first the one to close, then the one to   *)
(* open, with both outputs on.                                             *)
ValveIndeterminate(i) ==
  LET closes == i.close_req /\ i.close_IL
      opens == i.open_req /\ i.open_IL
  IN  /\ ValveState(i) = "indeterminate"
      /\ \/ /\ ~closes /\ ~opens
            /\ ValveStays(i, "indeterminate", {"fault"})
         \/ /\ closes \/ opens
            /\ ValveBecomes(i, IF opens THEN "opening" ELSE "closing",
                            valve.open \/ opens, valve.close \/ closes,
                            TSTART(valve.ftr_tmr), {"fault"})

valve_control_run ==
  \E i \in ValveInputs :
    \/ ValveClosed(i) \/ ValveOpened(i) \/ ValveClosing(i) \/ ValveOpening(i)
    \/ ValveIndeterminate(i)

(* Time passes.                                                            *)
ValveAged ==
  [valve EXCEPT !.ftr_tmr = Aged(@), !.alert_tmr = Aged(@),
                !.moved = IF valve.state \in ValveMoves THEN Older(@) ELSE @]
=============================================================================
