------------------------- MODULE ApplicationProofs -------------------------
(***************************************************************************)
(* Proofs about the PLC library, for all times.                            *)
(***************************************************************************)
EXTENDS Application, TLAPS

LEMMA TimersOk ==
  ASSUME NEW t \in Timers
  PROVE  /\ TINIT \in Timers /\ TSTOP \in Timers /\ Started \in Timers
         /\ TSTART(t) \in Timers /\ Aged(t) \in Timers
  <1>1. 0 \in 0 .. MaxElapsed
    BY TimesAssumption
  <1>2. TINIT \in Timers /\ TSTOP \in Timers /\ Started \in Timers
    BY <1>1 DEF Timers, TINIT, TSTOP, Started
  <1>3. TSTART(t) \in Timers
    BY DEF Timers, TSTART
  <1>4. t.elapsed \in 0 .. MaxElapsed
    BY DEF Timers
  <1>5. Older(t.elapsed) \in 0 .. MaxElapsed
    BY <1>4, TimesAssumption DEF Older
  <1>6. Aged(t) \in Timers
    BY <1>5 DEF Timers, Aged
  <1> QED BY <1>2, <1>3, <1>6

LEMMA StartedFromStop ==
  TSTART(TSTOP) = Started
  <1>1. TSTART(TSTOP) = [TSTOP EXCEPT !.running = TRUE]
    BY Zenon DEF TSTART
  <1>2. TSTOP = [running |-> FALSE, elapsed |-> 0]
    BY DEF TSTOP
  <1> QED BY <1>1, <1>2, Zenon DEF Started

LEMMA RunningAges ==
  ASSUME NEW n
  PROVE  Aged([running |-> TRUE, elapsed |-> n]) = [running |-> TRUE, elapsed |-> Older(n)]
  <1> DEFINE t == [running |-> TRUE, elapsed |-> n]
  <1>1. t.running = TRUE /\ t.elapsed = n
    OBVIOUS
  <1>2. Aged(t) = [t EXCEPT !.elapsed = Older(t.elapsed)]
    BY <1>1, Zenon DEF Aged
  <1> QED BY <1>1, <1>2, Zenon

LEMMA OlderOk ==
  ASSUME NEW n \in 0 .. MaxElapsed
  PROVE  Older(n) \in 0 .. MaxElapsed /\ Older(n) >= n
  BY TimesAssumption DEF Older
-----------------------------------------------------------------------------
(* The valve.                                                              *)

ValveStates == {"indeterminate", "closed", "opened"} \cup ValveMoves
ValveAlerts == {"ux_opened", "ux_closed", "fail_to_open", "fail_to_close", "fault"}

(* One output at most but when both requests were granted at once, and a response timer   *)
(* that runs while the valve moves, since it began to move that way.       *)
ValveDriven ==
  /\ valve.open <=> valve.state = "opening"
  /\ valve.close => valve.state = "closing" \/ valve.crossed

ValveTimed ==
  IF valve.state \in ValveMoves
  THEN valve.ftr_tmr = [running |-> TRUE, elapsed |-> valve.moved]
  ELSE valve.ftr_tmr = TSTOP

ValveInv == valve \in ValveRecord /\ ValveDriven /\ ValveTimed

(* Whether the turn leaves the valve crossed.                              *)
Crossed(i, state, close) ==
  (BothGranted(i) \/ valve.crossed) /\ close /\ state # "closing"

(* What a turn leaves, whatever the alerts are at its end.                 *)
LEMMA ValveTurn ==
  ASSUME valve \in ValveRecord, NEW i \in ValveInputs, NEW state \in ValveStates,
         NEW open \in BOOLEAN, NEW close \in BOOLEAN, NEW tmr \in Timers,
         NEW raised \in SUBSET ValveAlerts,
         ValveBecomes(i, state, open, close, tmr, raised)
  PROVE  /\ valve' \in ValveRecord
         /\ valve'.state = state /\ valve'.ftr_tmr = tmr
         /\ valve'.open = open /\ valve'.close = close
         /\ valve'.moved = IF state = valve.state THEN valve.moved ELSE 0
         /\ valve'.crossed = Crossed(i, state, close)
         /\ valve'.alerts \subseteq valve.alerts \cup ValveUnexpected(i) \cup raised
  <1> DEFINE v == [state |-> state, open |-> open, close |-> close,
                   alerts |-> (valve.alerts \ {"fault"}) \cup ValveUnexpected(i)
                                \cup raised,
                   ftr_tmr |-> tmr, alert_tmr |-> valve.alert_tmr,
                   moved |-> IF state = valve.state THEN valve.moved ELSE 0,
                   crossed |-> Crossed(i, state, close)]
  <1>1. valve' = ValveAlerted(v)
    BY DEF ValveBecomes, Crossed
  <1>2. ValveUnexpected(i) \subseteq ValveAlerts
    BY DEF ValveUnexpected, ValveAlerts
  <1>3. v \in ValveRecord
    <2>1. /\ valve.moved \in 0 .. MaxElapsed /\ 0 \in 0 .. MaxElapsed
          /\ valve.alerts \in SUBSET ValveAlerts /\ valve.alert_tmr \in Timers
      BY TimesAssumption DEF ValveRecord, ValveAlerts
    <2>2. (IF state = valve.state THEN valve.moved ELSE 0) \in 0 .. MaxElapsed
      BY <2>1
    <2>3. ((valve.alerts \ {"fault"}) \cup ValveUnexpected(i) \cup raised)
            \in SUBSET ValveAlerts
      BY <1>2, <2>1
    <2>4. Crossed(i, state, close) \in BOOLEAN
      BY DEF Crossed
    <2>5. state \in {"indeterminate", "closed", "opened"} \cup ValveMoves
      BY DEF ValveStates
    <2> QED BY <2>1, <2>2, <2>3, <2>4, <2>5, Zenon DEF ValveRecord, ValveAlerts
  <1>4. v.alerts \subseteq valve.alerts \cup ValveUnexpected(i) \cup raised
    OBVIOUS
  <1>5. /\ v.state = state /\ v.ftr_tmr = tmr /\ v.open = open /\ v.close = close
        /\ v.moved = IF state = valve.state THEN valve.moved ELSE 0
        /\ v.crossed = Crossed(i, state, close)
    OBVIOUS
  <1> HIDE DEF v
  <1>6. v.alert_tmr \in Timers
    BY <1>3 DEF ValveRecord
  <1>7. \E a \in SUBSET v.alerts, t \in Timers :
          ValveAlerted(v) = [v EXCEPT !.alerts = a, !.alert_tmr = t]
    <2>1. /\ TSTOP \in Timers /\ TSTART(v.alert_tmr) \in Timers
      BY <1>6, TimersOk
    <2>2. \A t \in Timers : [v EXCEPT !.alert_tmr = t]
                              = [v EXCEPT !.alerts = v.alerts, !.alert_tmr = t]
      BY <1>3 DEF ValveRecord
    <2>3. CASE v.alerts = {}
      BY <2>1, <2>2, <2>3 DEF ValveAlerted
    <2>4. CASE v.alerts # {} /\ TELAPSED(TSTART(v.alert_tmr)) > AlertTimeout
      <3>1. ValveAlerted(v) = [v EXCEPT !.alerts = {}, !.alert_tmr = TSTOP]
        BY <2>4 DEF ValveAlerted
      <3> QED BY <3>1, <2>1
    <2>5. CASE v.alerts # {} /\ ~(TELAPSED(TSTART(v.alert_tmr)) > AlertTimeout)
      <3>1. ValveAlerted(v) = [v EXCEPT !.alert_tmr = TSTART(v.alert_tmr)]
        BY <2>5 DEF ValveAlerted
      <3> QED BY <3>1, <2>1, <2>2
    <2> QED BY <2>3, <2>4, <2>5
  <1>8. PICK a \in SUBSET v.alerts, t \in Timers :
          valve' = [v EXCEPT !.alerts = a, !.alert_tmr = t]
    BY <1>1, <1>7
  <1>9. valve' \in ValveRecord
    BY <1>3, <1>8 DEF ValveRecord
  <1> QED BY <1>3, <1>4, <1>5, <1>8, <1>9 DEF ValveRecord

(* No failure is reported before the valve had its time.                   *)
ValveReports ==
  \A f \in {"fail_to_open", "fail_to_close"} :
    f \in valve'.alerts \ valve.alerts => valve.moved > FtrTmr

(* What a turn has to do to keep the invariant and to report in time.      *)
ValveKeeps(i, state, open, close, tmr, raised) ==
  /\ state \in ValveStates /\ open \in BOOLEAN /\ close \in BOOLEAN
  /\ tmr \in Timers /\ raised \in SUBSET ValveAlerts
  /\ open <=> state = "opening"
  /\ close => state = "closing" \/ BothGranted(i) \/ valve.crossed
  /\ state \in ValveMoves /\ state # valve.state => tmr = Started
  /\ state = valve.state => tmr = valve.ftr_tmr
  /\ state \notin ValveMoves => tmr = TSTOP
  /\ raised \cap {"fail_to_open", "fail_to_close"} # {} => valve.moved > FtrTmr

LEMMA ValveTurnKeeps ==
  ASSUME ValveInv, NEW i \in ValveInputs, NEW state, NEW open, NEW close, NEW tmr,
         NEW raised, ValveKeeps(i, state, open, close, tmr, raised),
         ValveBecomes(i, state, open, close, tmr, raised)
  PROVE  ValveInv' /\ ValveReports
  <1>0. /\ valve \in ValveRecord /\ state \in ValveStates /\ open \in BOOLEAN
        /\ close \in BOOLEAN /\ tmr \in Timers /\ raised \in SUBSET ValveAlerts
    BY DEF ValveInv, ValveKeeps
  <1>1. /\ valve' \in ValveRecord
        /\ valve'.state = state /\ valve'.ftr_tmr = tmr
        /\ valve'.open = open /\ valve'.close = close
        /\ valve'.moved = IF state = valve.state THEN valve.moved ELSE 0
        /\ valve'.crossed = Crossed(i, state, close)
        /\ valve'.alerts \subseteq valve.alerts \cup ValveUnexpected(i) \cup raised
    BY <1>0, ValveTurn
  <1>2. ValveDriven'
    BY <1>1, Zenon DEF ValveDriven, ValveKeeps, Crossed
  <1>3. ValveTimed'
    <2>1. CASE state = valve.state
      BY <2>1, <1>1 DEF ValveInv, ValveTimed, ValveKeeps
    <2>2. CASE state # valve.state
      BY <2>2, <1>1 DEF ValveTimed, Started, ValveKeeps
    <2> QED BY <2>1, <2>2
  <1>4. ValveReports
    <2>1. \A f \in {"fail_to_open", "fail_to_close"} : f \notin ValveUnexpected(i)
      BY DEF ValveUnexpected
    <2> QED BY <2>1, <1>1 DEF ValveReports, ValveKeeps
  <1> QED BY <1>1, <1>2, <1>3, <1>4 DEF ValveInv

(* A valve is found late only after it moved for longer than its time.     *)
LEMMA ValveIsLate ==
  ASSUME ValveInv, valve.state \in ValveMoves, ValveLate
  PROVE  valve.moved > FtrTmr
  BY DEF ValveInv, ValveTimed, ValveLate, TELAPSED

(* The state that the feedback shows is the one before if the valve moves. *)
LEMMA ValveFound ==
  ASSUME valve \in ValveRecord, NEW i \in ValveInputs
  PROVE  /\ ValveState(i) \in ValveStates
         /\ ValveState(i) \in ValveMoves <=> valve.state \in ValveMoves
         /\ ValveState(i) \in ValveMoves => ValveState(i) = valve.state
  <1>1. valve.state \in ValveStates
    BY DEF ValveRecord, ValveStates
  <1>2. i.opened \in BOOLEAN /\ i.closed \in BOOLEAN
    BY DEF ValveInputs
  <1>3. CASE valve.state \in ValveMoves
    BY <1>1, <1>3 DEF ValveState
  <1>4. CASE valve.state \notin ValveMoves
    BY <1>1, <1>2, <1>4 DEF ValveState, ValveStates, ValveMoves
  <1> QED BY <1>3, <1>4

LEMMA ValveRun ==
  ASSUME ValveInv, valve_control_run
  PROVE  ValveInv' /\ ValveReports
  <1> PICK i \in ValveInputs :
        \/ ValveClosed(i) \/ ValveOpened(i) \/ ValveClosing(i) \/ ValveOpening(i)
        \/ ValveIndeterminate(i)
    BY DEF valve_control_run
  <1>1. /\ valve \in ValveRecord /\ valve.state \in ValveStates
        /\ valve.open \in BOOLEAN /\ valve.close \in BOOLEAN
        /\ valve.ftr_tmr \in Timers /\ valve.crossed \in BOOLEAN
    BY DEF ValveInv, ValveRecord, ValveStates
  <1>2. /\ TSTOP \in Timers /\ Started \in Timers
        /\ TSTART(TSTOP) = Started /\ Restarted(valve.ftr_tmr) = Started
    <2>1. TSTOP \in Timers /\ Started \in Timers
      BY <1>1, TimersOk
    <2>2. TSTART(TSTOP) = Started /\ Restarted(valve.ftr_tmr) = Started
      BY StartedFromStop DEF Restarted
    <2> QED BY <2>1, <2>2
  <1>3. /\ {} \in SUBSET ValveAlerts /\ {"fault"} \in SUBSET ValveAlerts
        /\ {"fail_to_open"} \in SUBSET ValveAlerts
        /\ {"fail_to_close"} \in SUBSET ValveAlerts
        /\ {"fail_to_open", "fault"} \in SUBSET ValveAlerts
        /\ {"fail_to_close", "fault"} \in SUBSET ValveAlerts
    BY DEF ValveAlerts
  <1>4. CASE ValveClosed(i)
    <2>1. valve.state \notin ValveMoves /\ valve.ftr_tmr = TSTOP
      BY <1>1, <1>4, ValveFound DEF ValveClosed, ValveMoves, ValveInv, ValveTimed
    <2>2. ~valve.open /\ (valve.close => valve.crossed)
      BY <2>1 DEF ValveInv, ValveDriven, ValveMoves
    <2>3. CASE ValveBecomes(i, "opening", TRUE, valve.close, TSTART(valve.ftr_tmr), {})
      <3>1. ValveKeeps(i, "opening", TRUE, valve.close, TSTART(valve.ftr_tmr), {})
        BY <1>1, <1>2, <1>3, <2>1, <2>2, <2>3 DEF ValveKeeps, ValveStates, ValveMoves
      <3> QED BY <2>3, <3>1, ValveTurnKeeps, Zenon
    <2>4. CASE ValveStays(i, "closed", {})
      <3>1. ValveKeeps(i, "closed", valve.open, valve.close, valve.ftr_tmr, {})
        BY <1>1, <1>2, <1>3, <2>1, <2>2, <2>4 DEF ValveKeeps, ValveStates, ValveMoves
      <3> QED BY <2>4, <3>1, ValveTurnKeeps, Zenon DEF ValveStays
    <2> QED BY <1>4, <2>3, <2>4 DEF ValveClosed
  <1>5. CASE ValveOpened(i)
    <2>1. valve.state \notin ValveMoves /\ valve.ftr_tmr = TSTOP
      BY <1>1, <1>5, ValveFound DEF ValveOpened, ValveMoves, ValveInv, ValveTimed
    <2>2. ~valve.open /\ (valve.close => valve.crossed)
      BY <2>1 DEF ValveInv, ValveDriven, ValveMoves
    <2>3. CASE ValveBecomes(i, "closing", valve.open, TRUE, TSTART(valve.ftr_tmr), {})
      <3>1. ValveKeeps(i, "closing", valve.open, TRUE, TSTART(valve.ftr_tmr), {})
        BY <1>1, <1>2, <1>3, <2>1, <2>2, <2>3 DEF ValveKeeps, ValveStates, ValveMoves
      <3> QED BY <2>3, <3>1, ValveTurnKeeps, Zenon
    <2>4. CASE ValveStays(i, "opened", {})
      <3>1. ValveKeeps(i, "opened", valve.open, valve.close, valve.ftr_tmr, {})
        BY <1>1, <1>2, <1>3, <2>1, <2>2, <2>4 DEF ValveKeeps, ValveStates, ValveMoves
      <3> QED BY <2>4, <3>1, ValveTurnKeeps, Zenon DEF ValveStays
    <2> QED BY <1>5, <2>3, <2>4 DEF ValveOpened
  <1>6. CASE ValveClosing(i)
    <2>1. valve.state = "closing" /\ ~valve.open
      BY <1>1, <1>6, ValveFound
         DEF ValveClosing, ValveMoves, ValveInv, ValveDriven
    <2>2. ValveLate => valve.moved > FtrTmr
      BY <2>1, ValveIsLate DEF ValveMoves
    <2>3. CASE ValveBecomes(i, "closed", valve.open, FALSE, TSTOP, {})
      <3>1. ValveKeeps(i, "closed", valve.open, FALSE, TSTOP, {})
        BY <1>1, <1>2, <1>3, <2>1, <2>3 DEF ValveKeeps, ValveStates, ValveMoves
      <3> QED BY <2>3, <3>1, ValveTurnKeeps, Zenon
    <2>4. CASE ValveBecomes(i, "opening", TRUE, FALSE, Restarted(valve.ftr_tmr), {})
      <3>1. ValveKeeps(i, "opening", TRUE, FALSE, Restarted(valve.ftr_tmr), {})
        BY <1>1, <1>2, <1>3, <2>1, <2>4 DEF ValveKeeps, ValveStates, ValveMoves
      <3> QED BY <2>4, <3>1, ValveTurnKeeps, Zenon
    <2>5. CASE ValveLate /\ ValveBecomes(i, "indeterminate", FALSE, FALSE, TSTOP,
                                         {"fail_to_close", "fault"})
      <3>1. ValveKeeps(i, "indeterminate", FALSE, FALSE, TSTOP, {"fail_to_close", "fault"})
        BY <1>1, <1>2, <1>3, <2>1, <2>2, <2>5 DEF ValveKeeps, ValveStates, ValveMoves
      <3> QED BY <2>5, <3>1, ValveTurnKeeps, Zenon
    <2>6. CASE ValveLate /\ ValveBecomes(i, "opening", TRUE, FALSE,
                                         Restarted(valve.ftr_tmr), {"fail_to_close"})
      <3>1. ValveKeeps(i, "opening", TRUE, FALSE, Restarted(valve.ftr_tmr), {"fail_to_close"})
        BY <1>1, <1>2, <1>3, <2>1, <2>2, <2>6 DEF ValveKeeps, ValveStates, ValveMoves
      <3> QED BY <2>6, <3>1, ValveTurnKeeps, Zenon
    <2>7. CASE ValveStays(i, "closing", {})
      <3>1. ValveKeeps(i, "closing", valve.open, valve.close, valve.ftr_tmr, {})
        BY <1>1, <1>3, <2>1, <2>7 DEF ValveKeeps, ValveStates, ValveMoves
      <3> QED BY <2>7, <3>1, ValveTurnKeeps, Zenon DEF ValveStays
    <2> QED BY <1>6, <2>3, <2>4, <2>5, <2>6, <2>7 DEF ValveClosing
  <1>7. CASE ValveOpening(i)
    <2>1. valve.state = "opening" /\ valve.open /\ (valve.close => valve.crossed)
      BY <1>1, <1>7, ValveFound
         DEF ValveOpening, ValveMoves, ValveInv, ValveDriven
    <2>2. ValveLate => valve.moved > FtrTmr
      BY <2>1, ValveIsLate DEF ValveMoves
    <2>3. CASE ValveBecomes(i, "opened", FALSE, valve.close, TSTOP, {})
      <3>1. ValveKeeps(i, "opened", FALSE, valve.close, TSTOP, {})
        BY <1>1, <1>2, <1>3, <2>1, <2>3 DEF ValveKeeps, ValveStates, ValveMoves
      <3> QED BY <2>3, <3>1, ValveTurnKeeps, Zenon
    <2>4. CASE ValveBecomes(i, "closing", FALSE, FALSE, Restarted(valve.ftr_tmr), {})
      <3>1. ValveKeeps(i, "closing", FALSE, FALSE, Restarted(valve.ftr_tmr), {})
        BY <1>1, <1>2, <1>3, <2>1, <2>4 DEF ValveKeeps, ValveStates, ValveMoves
      <3> QED BY <2>4, <3>1, ValveTurnKeeps, Zenon
    <2>5. CASE ValveLate /\ ValveBecomes(i, "indeterminate", FALSE, FALSE, TSTOP,
                                         {"fail_to_open", "fault"})
      <3>1. ValveKeeps(i, "indeterminate", FALSE, FALSE, TSTOP, {"fail_to_open", "fault"})
        BY <1>1, <1>2, <1>3, <2>1, <2>2, <2>5 DEF ValveKeeps, ValveStates, ValveMoves
      <3> QED BY <2>5, <3>1, ValveTurnKeeps, Zenon
    <2>6. CASE ValveLate /\ ValveBecomes(i, "closing", FALSE, TRUE,
                                         Restarted(valve.ftr_tmr), {"fail_to_open"})
      <3>1. ValveKeeps(i, "closing", FALSE, TRUE, Restarted(valve.ftr_tmr), {"fail_to_open"})
        BY <1>1, <1>2, <1>3, <2>1, <2>2, <2>6 DEF ValveKeeps, ValveStates, ValveMoves
      <3> QED BY <2>6, <3>1, ValveTurnKeeps, Zenon
    <2>7. CASE ValveStays(i, "opening", {})
      <3>1. ValveKeeps(i, "opening", valve.open, valve.close, valve.ftr_tmr, {})
        BY <1>1, <1>3, <2>1, <2>7 DEF ValveKeeps, ValveStates, ValveMoves
      <3> QED BY <2>7, <3>1, ValveTurnKeeps, Zenon DEF ValveStays
    <2> QED BY <1>7, <2>3, <2>4, <2>5, <2>6, <2>7 DEF ValveOpening
  <1>8. CASE ValveIndeterminate(i)
    <2>1. valve.state \notin ValveMoves /\ valve.ftr_tmr = TSTOP
      BY <1>1, <1>8, ValveFound
         DEF ValveIndeterminate, ValveMoves, ValveInv, ValveTimed
    <2>2. ~valve.open /\ (valve.close => valve.crossed)
      BY <2>1 DEF ValveInv, ValveDriven, ValveMoves
    <2> DEFINE closes == i.close_req /\ i.close_IL
               opens == i.open_req /\ i.open_IL
    <2>3. CASE ValveStays(i, "indeterminate", {"fault"})
      <3>1. ValveKeeps(i, "indeterminate", valve.open, valve.close, valve.ftr_tmr, {"fault"})
        BY <1>1, <1>2, <1>3, <2>1, <2>2, <2>3 DEF ValveKeeps, ValveStates, ValveMoves
      <3> QED BY <2>3, <3>1, ValveTurnKeeps, Zenon DEF ValveStays
    <2>4. CASE /\ closes \/ opens
               /\ ValveBecomes(i, IF opens THEN "opening" ELSE "closing",
                               valve.open \/ opens, valve.close \/ closes,
                               TSTART(valve.ftr_tmr), {"fault"})
      <3>1. CASE opens
        <4>1. ValveBecomes(i, "opening", TRUE, valve.close \/ closes, Started, {"fault"})
          BY <3>1, <2>1, <2>4, <1>2 DEF ValveBecomes
        <4>2. (valve.close \/ closes) \in BOOLEAN
          OBVIOUS
        <4>3. valve.close \/ closes => BothGranted(i) \/ valve.crossed
          BY <1>8, <2>2, <3>1, Zenon DEF ValveIndeterminate, BothGranted
        <4> HIDE DEF closes, opens
        <4>4. ValveKeeps(i, "opening", TRUE, valve.close \/ closes, Started, {"fault"})
          BY <1>1, <1>2, <1>3, <2>1, <4>2, <4>3 DEF ValveKeeps, ValveStates, ValveMoves
        <4> QED BY <4>1, <4>4, ValveTurnKeeps, Zenon
      <3>2. CASE ~opens
        <4>1. ValveBecomes(i, "closing", FALSE, TRUE, Started, {"fault"})
          BY <3>2, <2>1, <2>2, <2>4, <1>1, <1>2 DEF ValveBecomes
        <4>2. ValveKeeps(i, "closing", FALSE, TRUE, Started, {"fault"})
          BY <1>2, <1>3, <2>1 DEF ValveKeeps, ValveStates, ValveMoves
        <4> QED BY <4>1, <4>2, ValveTurnKeeps, Zenon
      <3> QED BY <3>1, <3>2
    <2> QED BY <1>8, <2>3, <2>4 DEF ValveIndeterminate
  <1> QED BY <1>4, <1>5, <1>6, <1>7, <1>8

LEMMA ValveTick ==
  ASSUME ValveInv, valve' = ValveAged
  PROVE  ValveInv' /\ valve'.alerts = valve.alerts
  <1>1. /\ valve.ftr_tmr \in Timers /\ valve.alert_tmr \in Timers
        /\ valve.moved \in 0 .. MaxElapsed
    BY DEF ValveInv, ValveRecord
  <1>2. /\ Aged(valve.ftr_tmr) \in Timers /\ Aged(valve.alert_tmr) \in Timers
        /\ Older(valve.moved) \in 0 .. MaxElapsed
    BY <1>1, TimersOk, OlderOk
  <1> DEFINE m == IF valve.state \in ValveMoves THEN Older(valve.moved) ELSE valve.moved
  <1>3. valve' = [valve EXCEPT !.ftr_tmr = Aged(valve.ftr_tmr),
                               !.alert_tmr = Aged(valve.alert_tmr), !.moved = m]
    BY DEF ValveAged, ValveInv, ValveRecord
  <1>4. m \in 0 .. MaxElapsed
    BY <1>1, <1>2
  <1> HIDE DEF m
  <1>5. valve' \in ValveRecord
    BY <1>2, <1>3, <1>4 DEF ValveInv, ValveRecord
  <1>6. /\ valve'.state = valve.state /\ valve'.alerts = valve.alerts
        /\ valve'.open = valve.open /\ valve'.close = valve.close
        /\ valve'.crossed = valve.crossed
        /\ valve'.ftr_tmr = Aged(valve.ftr_tmr) /\ valve'.moved = m
    BY <1>3 DEF ValveInv, ValveRecord
  <1>7. ValveDriven'
    BY <1>6, Zenon DEF ValveInv, ValveDriven
  <1>8. ValveTimed'
    <2>1. CASE valve.state \in ValveMoves
      <3>1. valve.ftr_tmr = [running |-> TRUE, elapsed |-> valve.moved]
        BY <2>1 DEF ValveInv, ValveTimed
      <3>2. m = Older(valve.moved)
        BY <2>1 DEF m
      <3>3. Aged(valve.ftr_tmr) = [running |-> TRUE, elapsed |-> Older(valve.moved)]
        BY <3>1, RunningAges, Zenon
      <3> QED BY <1>6, <2>1, <3>2, <3>3 DEF ValveTimed
    <2>2. CASE valve.state \notin ValveMoves
      BY <1>6, <2>2 DEF ValveInv, ValveTimed, Aged, TSTOP
    <2> QED BY <2>1, <2>2
  <1> QED BY <1>5, <1>6, <1>7, <1>8 DEF ValveInv
-----------------------------------------------------------------------------
(* The starter.                                                            *)

StarterStates == {"none", "stopped", "running"} \cup StarterMoves
StarterAlerts == {"ux_start", "ux_stop", "failed_to_start", "failed_to_stop"}

StarterDrivenOneWay ==
  /\ starter.start <=> starter.status = "starting"
  /\ starter.stop <=> starter.status = "stopping"

StarterInv == starter \in StarterRecord /\ StarterDrivenOneWay

LEMMA StarterTurn ==
  ASSUME starter \in StarterRecord, NEW i \in StarterInputs,
         NEW status \in StarterStates \ {"none"}, NEW drives, NEW tmr \in Timers,
         NEW failed \in SUBSET StarterAlerts,
         StarterBecomes(i, status, drives, tmr, failed),
         "start" \in drives <=> status = "starting",
         "stop" \in drives <=> status = "stopping"
  PROVE  StarterInv'
  <1> DEFINE m == IF {status, starter.status} \subseteq StarterMoves
                  THEN starter.moved ELSE 0
             al == starter.alerts \cup StarterUnexpected(i) \cup failed
             s == [status |-> status, start |-> "start" \in drives,
                   stop |-> "stop" \in drives, alerts |-> al, ftr_tmr |-> tmr,
                   alert_tmr |-> starter.alert_tmr, moved |-> m]
  <1>1. starter' = StarterAlerted(s)
    BY DEF StarterBecomes
  <1>2. /\ starter.moved \in 0 .. MaxElapsed /\ 0 \in 0 .. MaxElapsed
        /\ starter.alerts \in SUBSET StarterAlerts /\ starter.alert_tmr \in Timers
    BY TimesAssumption DEF StarterRecord, StarterAlerts
  <1>3. al \in SUBSET StarterAlerts
    BY <1>2 DEF StarterUnexpected, StarterAlerts
  <1>4. m \in 0 .. MaxElapsed
    BY <1>2
  <1> HIDE DEF m, al
  <1>5. /\ status \in {"none", "stopped", "running"} \cup StarterMoves
        /\ ("start" \in drives) \in BOOLEAN /\ ("stop" \in drives) \in BOOLEAN
    BY DEF StarterStates
  <1>6. s \in StarterRecord
    BY <1>2, <1>3, <1>4, <1>5, Zenon DEF StarterRecord, StarterAlerts
  <1>7. /\ s.status = status /\ s.alert_tmr = starter.alert_tmr
        /\ s.start = ("start" \in drives) /\ s.stop = ("stop" \in drives)
    BY Zenon
  <1> HIDE DEF s
  <1>8. \E a \in SUBSET s.alerts, t \in Timers :
          StarterAlerted(s) = [s EXCEPT !.alerts = a, !.alert_tmr = t]
    <2>1. /\ TSTOP \in Timers /\ TSTART(s.alert_tmr) \in Timers
          /\ s.alert_tmr \in Timers
      BY <1>2, <1>7, TimersOk
    <2>2. \A t \in Timers : [s EXCEPT !.alert_tmr = t]
                              = [s EXCEPT !.alerts = s.alerts, !.alert_tmr = t]
      BY <1>6 DEF StarterRecord
    <2>3. CASE s.alerts = {}
      <3>1. s = [s EXCEPT !.alerts = s.alerts, !.alert_tmr = s.alert_tmr]
        BY <1>6 DEF StarterRecord
      <3>2. StarterAlerted(s) = s
        BY <2>3 DEF StarterAlerted
      <3> QED BY <3>1, <3>2, <2>1
    <2>4. CASE s.alerts # {} /\ TELAPSED(TSTART(s.alert_tmr)) > AlertTimeout
      <3>1. StarterAlerted(s) = [s EXCEPT !.alerts = {}, !.alert_tmr = TSTOP]
        BY <2>4 DEF StarterAlerted
      <3> QED BY <3>1, <2>1
    <2>5. CASE s.alerts # {} /\ ~(TELAPSED(TSTART(s.alert_tmr)) > AlertTimeout)
      <3>1. StarterAlerted(s) = [s EXCEPT !.alert_tmr = TSTART(s.alert_tmr)]
        BY <2>5 DEF StarterAlerted
      <3> QED BY <3>1, <2>1, <2>2
    <2> QED BY <2>3, <2>4, <2>5
  <1>9. PICK a \in SUBSET s.alerts, t \in Timers :
          starter' = [s EXCEPT !.alerts = a, !.alert_tmr = t]
    BY <1>1, <1>8
  <1>10. starter' \in StarterRecord
    BY <1>6, <1>9 DEF StarterRecord
  <1>11. /\ starter'.status = status
         /\ starter'.start = ("start" \in drives) /\ starter'.stop = ("stop" \in drives)
    BY <1>6, <1>7, <1>9 DEF StarterRecord
  <1>12. StarterDrivenOneWay'
    BY <1>11, Zenon DEF StarterDrivenOneWay
  <1> QED BY <1>10, <1>12 DEF StarterInv

LEMMA StarterRun ==
  ASSUME StarterInv, generic_starter_run
  PROVE  StarterInv'
  <1> PICK i \in StarterInputs :
        StarterStopped(i) \/ StarterRunning(i) \/ StarterStarting(i) \/ StarterStopping(i)
    BY DEF generic_starter_run
  <1>1. /\ starter \in StarterRecord /\ starter.status \in StarterStates
        /\ starter.ftr_tmr \in Timers
    BY DEF StarterInv, StarterRecord, StarterStates
  <1>2. /\ TSTOP \in Timers /\ TSTART(starter.ftr_tmr) \in Timers
    BY <1>1, TimersOk
  <1>3. /\ {} \in SUBSET StarterAlerts /\ {"failed_to_start"} \in SUBSET StarterAlerts
        /\ {"failed_to_stop"} \in SUBSET StarterAlerts
    BY DEF StarterAlerts
  <1>4. /\ "start" \in StarterDriven <=> starter.status = "starting"
        /\ "stop" \in StarterDriven <=> starter.status = "stopping"
    BY DEF StarterDriven, StarterInv, StarterDrivenOneWay
  <1>5. i.running \in BOOLEAN /\ i.stopped \in BOOLEAN
    BY DEF StarterInputs
  <1>6. /\ StarterState(i) \in StarterMoves => StarterState(i) = starter.status
        /\ StarterState(i) \notin StarterMoves => starter.status \notin StarterMoves
    <2>1. CASE starter.status \in StarterMoves
      BY <2>1 DEF StarterState
    <2>2. CASE starter.status \notin StarterMoves
      BY <1>1, <1>5, <2>2 DEF StarterState, StarterStates, StarterMoves
    <2> QED BY <2>1, <2>2
  <1>7. CASE StarterStopped(i)
    <2>1. starter.status \notin StarterMoves
      BY <1>6, <1>7 DEF StarterStopped, StarterMoves
    <2>2. "start" \notin StarterDriven /\ "stop" \notin StarterDriven
      BY <2>1, <1>4 DEF StarterMoves
    <2> QED BY <1>1, <1>2, <1>3, <1>7, <2>2, StarterTurn
            DEF StarterStopped, StarterStates, StarterMoves
  <1>8. CASE StarterRunning(i)
    <2>1. starter.status \notin StarterMoves
      BY <1>6, <1>8 DEF StarterRunning, StarterMoves
    <2>2. "start" \notin StarterDriven /\ "stop" \notin StarterDriven
      BY <2>1, <1>4 DEF StarterMoves
    <2> QED BY <1>1, <1>2, <1>3, <1>8, <2>2, StarterTurn
            DEF StarterRunning, StarterStates, StarterMoves
  <1>9. CASE StarterStarting(i)
    <2>1. "start" \in StarterDriven /\ "stop" \notin StarterDriven
      BY <1>4, <1>6, <1>9 DEF StarterStarting, StarterMoves
    <2> QED BY <1>1, <1>2, <1>3, <1>9, <2>1, StarterTurn
            DEF StarterStarting, StarterStates, StarterMoves
  <1>10. CASE StarterStopping(i)
    <2>1. "stop" \in StarterDriven /\ "start" \notin StarterDriven
      BY <1>4, <1>6, <1>10 DEF StarterStopping, StarterMoves
    <2> QED BY <1>1, <1>2, <1>3, <1>10, <2>1, StarterTurn
            DEF StarterStopping, StarterStates, StarterMoves
  <1> QED BY <1>7, <1>8, <1>9, <1>10

LEMMA StarterTick ==
  ASSUME StarterInv, starter' = StarterAged
  PROVE  StarterInv'
  <1>1. /\ starter.ftr_tmr \in Timers /\ starter.alert_tmr \in Timers
        /\ starter.moved \in 0 .. MaxElapsed
    BY DEF StarterInv, StarterRecord
  <1>2. /\ Aged(starter.ftr_tmr) \in Timers /\ Aged(starter.alert_tmr) \in Timers
        /\ Older(starter.moved) \in 0 .. MaxElapsed
    BY <1>1, TimersOk, OlderOk
  <1> DEFINE m == IF starter.status \in StarterMoves THEN Older(starter.moved)
                  ELSE starter.moved
  <1>3. starter' = [starter EXCEPT !.ftr_tmr = Aged(starter.ftr_tmr),
                                   !.alert_tmr = Aged(starter.alert_tmr), !.moved = m]
    BY DEF StarterAged, StarterInv, StarterRecord
  <1>4. m \in 0 .. MaxElapsed
    BY <1>1, <1>2
  <1> HIDE DEF m
  <1>5. starter' \in StarterRecord
    BY <1>2, <1>3, <1>4 DEF StarterInv, StarterRecord
  <1>6. /\ starter'.status = starter.status
        /\ starter'.start = starter.start /\ starter'.stop = starter.stop
    BY <1>3 DEF StarterInv, StarterRecord
  <1>7. StarterDrivenOneWay'
    BY <1>6, Zenon DEF StarterInv, StarterDrivenOneWay
  <1> QED BY <1>5, <1>7 DEF StarterInv
-----------------------------------------------------------------------------
(* The blocks that keep time.                                              *)

LEMMA EdgeOk ==
  ASSUME NEW b \in Blocks, NEW in \in BOOLEAN, NEW starts \in BOOLEAN, NEW q \in BOOLEAN
  PROVE  Edge(b, in, starts, q) \in Blocks
  <1>1. TSTOP \in Timers /\ Started \in Timers
    BY TimersOk DEF Blocks
  <1> QED BY <1>1 DEF Edge, Blocks

LEMMA EndsOk ==
  ASSUME NEW b \in Blocks, NEW pt, NEW q \in BOOLEAN
  PROVE  Ends(b, pt, q) \in Blocks
  <1>1. TSTOP \in Timers
    BY TimersOk DEF Blocks
  <1> QED BY <1>1 DEF Ends, Blocks

LEMMA BlocksOk ==
  ASSUME NEW b \in Blocks, NEW in \in BOOLEAN, NEW pt
  PROVE  /\ TON(b, in, pt) \in Blocks /\ TOFF(b, in, pt) \in Blocks
         /\ TP(b, in, pt) \in Blocks /\ BLINK(b, in, pt) \in Blocks
  <1>1. TSTOP \in Timers /\ Started \in Timers /\ TINIT \in Timers
    BY TimersOk DEF Blocks
  <1>2. TON(b, in, pt) \in Blocks /\ TOFF(b, in, pt) \in Blocks
    BY EdgeOk, EndsOk DEF TON, TOFF
  <1>3. TP(b, in, pt) \in Blocks
    <2>1. Ends(b, pt, FALSE) \in Blocks
      BY EndsOk
    <2>2. /\ [Ends(b, pt, FALSE) EXCEPT !.prev_in = in] \in Blocks
          /\ [q |-> TRUE, prev_in |-> in, tmr |-> Started] \in Blocks
          /\ [b EXCEPT !.prev_in = in] \in Blocks
      BY <1>1, <2>1 DEF Blocks
    <2> QED BY <2>2, Zenon DEF TP
  <1>4. BLINK(b, in, pt) \in Blocks
    <2> DEFINE on == IF in /\ ~b.prev_in
                     THEN [q |-> FALSE, prev_in |-> TRUE, tmr |-> Started] ELSE b
    <2>1. [q |-> FALSE, prev_in |-> TRUE, tmr |-> Started] \in Blocks
      BY <1>1 DEF Blocks
    <2>2. on \in Blocks
      BY <2>1, Zenon
    <2>3. BLINK(b, in, pt) = (IF ~in THEN Block(FALSE)
            ELSE IF TELAPSED(on.tmr) >= pt \div 2
            THEN [on EXCEPT !.q = ~on.q, !.tmr = Started] ELSE on)
      BY Zenon DEF BLINK
    <2> HIDE DEF on
    <2>4. [on EXCEPT !.q = ~on.q, !.tmr = Started] \in Blocks
      BY <1>1, <2>2 DEF Blocks
    <2>5. Block(FALSE) \in Blocks
      BY <1>1 DEF Block, Blocks
    <2> QED BY <2>2, <2>3, <2>4, <2>5, Zenon
  <1> QED BY <1>2, <1>3, <1>4

(* What ton and toff know of an input that is on or not, was in the latest *)
(* scan for the time lasted and is for the time lasts.                     *)
TonKnows(b, on, lasted, lasts) ==
  /\ b.prev_in <=> on
  /\ b.q <=> on /\ lasted >= PT
  /\ b.tmr.running <=> on /\ lasted < PT
  /\ b.tmr.running => b.tmr.elapsed = lasts

ToffKnows(b, on, lasted, lasts, was_on) ==
  /\ b.prev_in <=> on
  /\ b.q <=> on \/ lasted < PT \/ ~was_on
  /\ b.tmr.running <=> ~on /\ was_on /\ lasted < PT
  /\ b.tmr.running => b.tmr.elapsed = lasts

(* What tp knows of a pulse that is as old as aged, and blink of an output *)
(* that has been as it is for the time aged.                               *)
TpKnows(b, on, aged) ==
  /\ b.prev_in <=> on
  /\ b.tmr.running <=> b.q
  /\ b.q => b.tmr.elapsed = aged

BlinkKnows(b, on, aged) ==
  /\ b.prev_in <=> on
  /\ b.tmr.running <=> on
  /\ on => b.tmr.elapsed = aged
  /\ ~on => ~b.q /\ aged = 0

LEMMA TpTurn ==
  ASSUME NEW b \in Blocks, NEW in \in BOOLEAN, NEW on \in BOOLEAN, NEW aged \in Nat,
         TpKnows(b, on, aged)
  PROVE  /\ TP(b, in, PT).q <=> IF b.q THEN aged < PT ELSE in /\ ~on
         /\ TpKnows(TP(b, in, PT), in, IF b.q /\ TP(b, in, PT).q THEN aged ELSE 0)
  <1>1. PT \in Nat
    BY TimesAssumption
  <1>2. CASE b.q
    <2>1. b.tmr.running /\ TELAPSED(b.tmr) = aged
      BY <1>2 DEF TpKnows, TELAPSED
    <2>2. CASE aged < PT
      <3>1. TP(b, in, PT) = [b EXCEPT !.prev_in = in]
        BY <1>1, <1>2, <2>1, <2>2 DEF TP, Ends
      <3> QED BY <1>1, <1>2, <2>2, <3>1 DEF TpKnows, Blocks
    <2>3. CASE ~(aged < PT)
      <3> DEFINE e == [b EXCEPT !.q = FALSE, !.tmr = TSTOP]
      <3>1. Ends(b, PT, FALSE) = e
        BY <1>1, <1>2, <2>1, <2>3 DEF Ends
      <3>2. ~e.q /\ ~e.tmr.running /\ e \in Blocks
        BY EndsOk, <3>1 DEF Blocks, TSTOP
      <3> HIDE DEF e
      <3>3. TP(b, in, PT) = [e EXCEPT !.prev_in = in]
        BY <1>2, <3>1, Zenon DEF TP
      <3>4. /\ TP(b, in, PT).prev_in = in /\ ~TP(b, in, PT).q
            /\ ~TP(b, in, PT).tmr.running
        BY <3>2, <3>3 DEF Blocks
      <3>5. ~(IF b.q THEN aged < PT ELSE in /\ ~on)
        BY <1>2, <2>3
      <3> DEFINE r == TP(b, in, PT)
      <3>6. TpKnows(r, in, IF b.q /\ r.q THEN aged ELSE 0)
        BY <3>4, Zenon DEF TpKnows
      <3> QED BY <3>4, <3>5, <3>6, Zenon
    <2> QED BY <2>2, <2>3
  <1>3. CASE ~b.q
    <2>1. CASE in /\ ~on
      <3>1. TP(b, in, PT) = [q |-> TRUE, prev_in |-> in, tmr |-> Started]
        BY <1>3, <2>1 DEF TP, TpKnows
      <3> DEFINE r == TP(b, in, PT)
      <3>2. r.q /\ r.prev_in = in /\ r.tmr.running /\ r.tmr.elapsed = 0
        BY <3>1 DEF Started
      <3>3. TpKnows(r, in, IF b.q /\ r.q THEN aged ELSE 0)
        BY <1>3, <3>2, Zenon DEF TpKnows
      <3> QED BY <1>3, <2>1, <3>2, <3>3, Zenon
    <2>2. CASE ~(in /\ ~on)
      <3>1. TP(b, in, PT) = [b EXCEPT !.prev_in = in]
        BY <1>3, <2>2 DEF TP, TpKnows
      <3> QED BY <1>3, <2>2, <3>1 DEF TpKnows, Blocks
    <2> QED BY <2>1, <2>2
  <1> QED BY <1>2, <1>3

LEMMA BlinkTurn ==
  ASSUME NEW b \in Blocks, NEW in \in BOOLEAN, NEW on \in BOOLEAN, NEW aged \in Nat,
         BlinkKnows(b, on, aged)
  PROVE  /\ BLINK(b, in, PT).q <=> in /\ b.q # (aged >= PT \div 2)
         /\ BlinkKnows(BLINK(b, in, PT), in,
                       IF in /\ on /\ BLINK(b, in, PT).q = b.q THEN aged ELSE 0)
  <1>1. PT \div 2 \in Nat /\ (0 >= PT \div 2 <=> PT \div 2 = 0)
    BY TimesAssumption
  <1> DEFINE half == PT \div 2
  <1> HIDE DEF half
  <1>2. CASE ~in
    <2>1. BLINK(b, in, PT) = Block(FALSE)
      BY <1>2 DEF BLINK
    <2> QED BY <1>2, <2>1 DEF Block, TINIT, BlinkKnows
  <1>3. CASE in
    <2> DEFINE first == [q |-> FALSE, prev_in |-> TRUE, tmr |-> Started]
               begun == IF ~on THEN first ELSE b
    <2>1. BLINK(b, in, PT) = IF TELAPSED(begun.tmr) >= half
                             THEN [begun EXCEPT !.q = ~begun.q, !.tmr = Started] ELSE begun
      BY <1>3 DEF BLINK, BlinkKnows, half
    <2>2. /\ begun.q = b.q /\ begun.prev_in /\ begun.tmr.running
          /\ begun.tmr.elapsed = aged /\ begun \in Blocks
      <3>1. Started \in Timers
        BY TimersOk DEF Blocks
      <3> QED BY <1>3, <3>1 DEF BlinkKnows, Blocks, Started
    <2> HIDE DEF begun
    <2>3. TELAPSED(begun.tmr) = aged
      BY <2>2 DEF TELAPSED
    <2>4. CASE aged >= half
      <3> DEFINE t == [begun EXCEPT !.q = ~begun.q, !.tmr = Started]
      <3>1. /\ t.q = ~b.q /\ t.prev_in /\ t.tmr.running /\ t.tmr.elapsed = 0
        BY <2>2 DEF Blocks, Started
      <3>2. BLINK(b, in, PT) = t
        BY <2>1, <2>3, <2>4
      <3> HIDE DEF t
      <3>3. t.q # b.q
        BY <3>1, <2>2 DEF Blocks
      <3>4. t.q <=> in /\ b.q # (aged >= half)
        BY <1>3, <2>4, <3>1 DEF Blocks
      <3> QED BY <1>3, <3>1, <3>2, <3>3, <3>4, Zenon DEF BlinkKnows, half
    <2>5. CASE ~(aged >= half)
      <3>1. BLINK(b, in, PT) = begun
        BY <2>1, <2>3, <2>5
      <3>2. begun.q <=> in /\ b.q # (aged >= half)
        BY <1>3, <2>2, <2>5 DEF Blocks
      <3>3. BlinkKnows(begun, in, aged)
        BY <1>3, <2>2, Zenon DEF BlinkKnows
      <3>4. (IF in /\ on /\ begun.q = b.q THEN aged ELSE 0) = aged
        BY <1>3, <2>2, Zenon DEF BlinkKnows
      <3> QED BY <3>1, <3>2, <3>3, <3>4, Zenon DEF half
    <2> QED BY <2>4, <2>5
  <1> QED BY <1>2, <1>3

LEMMA TonTurn ==
  ASSUME NEW b \in Blocks, NEW in \in BOOLEAN, NEW on \in BOOLEAN,
         NEW lasted \in Nat, NEW lasts \in Nat, lasted <= lasts,
         TonKnows(b, on, lasted, lasts)
  PROVE  TonKnows(TON(b, in, PT), in, IF in = on THEN lasts ELSE 0,
                  IF in = on THEN lasts ELSE 0)
  <1> DEFINE n == IF in = on THEN lasts ELSE 0
  <1>1. PT \in Nat
    BY TimesAssumption
  <1>2. (in <=> on) => n = lasts
    BY Zenon
  <1>3. (in <=> ~on) => n = 0
    BY Zenon
  <1> HIDE DEF n
  <1>4. ASSUME in /\ on PROVE TonKnows(TON(b, in, PT), in, n, n)
    <2>1. Edge(b, in, TRUE, FALSE) = b
      BY <1>4 DEF Edge, TonKnows
    <2>2. TON(b, in, PT) = IF b.tmr.running /\ lasts >= PT
                           THEN [b EXCEPT !.q = TRUE, !.tmr = TSTOP] ELSE b
      BY <2>1 DEF TON, Ends, TELAPSED, TonKnows
    <2>3. CASE b.tmr.running /\ lasts >= PT
      <3> DEFINE r == [b EXCEPT !.q = TRUE, !.tmr = TSTOP]
      <3>1. r.q /\ r.prev_in = b.prev_in /\ ~r.tmr.running
        BY DEF Blocks, TSTOP
      <3>2. TON(b, in, PT) = r
        BY <2>2, <2>3
      <3> HIDE DEF r
      <3>3. r.prev_in <=> in
        BY <3>1, <1>4 DEF TonKnows, Blocks
      <3>4. n \in Nat /\ n >= PT /\ ~(n < PT)
        BY <1>1, <1>2, <1>4, <2>3
      <3>5. TonKnows(r, in, n, n)
        BY <1>4, <3>1, <3>3, <3>4, Zenon DEF TonKnows
      <3> QED BY <3>2, <3>5
    <2>4. CASE ~(b.tmr.running /\ lasts >= PT)
      <3>1. TON(b, in, PT) = b
        BY <2>2, <2>4, Zenon
      <3>2. n = lasts /\ n >= lasted /\ n \in Nat
        BY <1>2, <1>4
      <3>3. /\ b.tmr.running => n < PT /\ lasted < PT /\ ~(n >= PT) /\ ~(lasted >= PT)
            /\ ~b.tmr.running => n >= PT /\ lasted >= PT /\ ~(n < PT)
        BY <1>1, <1>4, <2>4, <3>2 DEF TonKnows
      <3>4. TonKnows(b, in, n, n)
        BY <1>4, <3>2, <3>3, Zenon DEF TonKnows
      <3> QED BY <3>1, <3>4
    <2> QED BY <2>3, <2>4
  <1>5. ASSUME in /\ ~on PROVE TonKnows(TON(b, in, PT), in, n, n)
    <2>1. Edge(b, in, TRUE, FALSE) = [b EXCEPT !.prev_in = in, !.tmr = Started]
      BY <1>5 DEF Edge, TonKnows
    <2> DEFINE e == [b EXCEPT !.prev_in = in, !.tmr = Started]
    <2>2. /\ e.prev_in = in /\ e.q = b.q /\ e.tmr.running /\ e.tmr.elapsed = 0
          /\ e \in Blocks
      BY EdgeOk, <2>1 DEF Blocks, Started
    <2>3. TON(b, in, PT) = IF 0 >= PT THEN [e EXCEPT !.q = TRUE, !.tmr = TSTOP] ELSE e
      BY <2>1, <2>2 DEF TON, Ends, TELAPSED
    <2> HIDE DEF e
    <2>4. CASE 0 >= PT
      <3> DEFINE r == [e EXCEPT !.q = TRUE, !.tmr = TSTOP]
      <3>1. r.q /\ r.prev_in = e.prev_in /\ ~r.tmr.running
        BY <2>2 DEF Blocks, TSTOP
      <3>2. TON(b, in, PT) = r
        BY <2>3, <2>4
      <3> HIDE DEF r
      <3>3. r.prev_in <=> in
        BY <3>1, <2>2
      <3>4. n >= PT /\ ~(n < PT)
        BY <1>1, <1>3, <1>5, <2>4
      <3>5. TonKnows(r, in, n, n)
        BY <1>5, <3>1, <3>3, <3>4, Zenon DEF TonKnows
      <3> QED BY <3>2, <3>5
    <2>5. CASE ~(0 >= PT)
      <3>1. TON(b, in, PT) = e
        BY <2>3, <2>5, Zenon
      <3>2. n = 0 /\ n < PT /\ ~(n >= PT)
        BY <1>1, <1>3, <1>5, <2>5
      <3>3. (e.prev_in <=> in) /\ ~e.q
        BY <1>5, <2>2 DEF TonKnows
      <3>4. TonKnows(e, in, n, n)
        BY <1>5, <2>2, <3>2, <3>3, Zenon DEF TonKnows
      <3> QED BY <3>1, <3>4
    <2> QED BY <2>4, <2>5
  <1>6. ASSUME ~in /\ on PROVE TonKnows(TON(b, in, PT), in, n, n)
    <2>1. Edge(b, in, TRUE, FALSE) = [b EXCEPT !.prev_in = in, !.tmr = TSTOP, !.q = FALSE]
      BY <1>6 DEF Edge, TonKnows
    <2> DEFINE e == [b EXCEPT !.prev_in = in, !.tmr = TSTOP, !.q = FALSE]
    <2>2. e.prev_in = in /\ ~e.q /\ ~e.tmr.running
      BY DEF Blocks, TSTOP
    <2>3. TON(b, in, PT) = e
      BY <2>1, <2>2 DEF TON, Ends
    <2> HIDE DEF e
    <2> QED BY <1>6, <1>3, <2>2, <2>3 DEF TonKnows
  <1>7. ASSUME ~in /\ ~on PROVE TonKnows(TON(b, in, PT), in, n, n)
    <2>1. Edge(b, in, TRUE, FALSE) = b
      <3>1. in = b.prev_in
        BY <1>7, Zenon DEF TonKnows, Blocks
      <3> QED BY <3>1, Zenon DEF Edge
    <2>2. TON(b, in, PT) = b
      BY <1>7, <2>1 DEF TON, Ends, TonKnows
    <2> QED BY <1>7, <1>2, <2>2 DEF TonKnows
  <1>8. TonKnows(TON(b, in, PT), in, n, n)
    BY <1>4, <1>5, <1>6, <1>7
  <1> QED BY <1>8 DEF n

LEMMA ToffTurn ==
  ASSUME NEW b \in Blocks, NEW in \in BOOLEAN, NEW on \in BOOLEAN, NEW was_on \in BOOLEAN,
         NEW lasted \in Nat, NEW lasts \in Nat, lasted <= lasts, on => was_on,
         ToffKnows(b, on, lasted, lasts, was_on)
  PROVE  ToffKnows(TOFF(b, in, PT), in, IF in = on THEN lasts ELSE 0,
                   IF in = on THEN lasts ELSE 0, was_on \/ in)
  <1> DEFINE n == IF in = on THEN lasts ELSE 0
  <1>1. PT \in Nat
    BY TimesAssumption
  <1>2. (in <=> on) => n = lasts
    BY Zenon
  <1>3. (in <=> ~on) => n = 0
    BY Zenon
  <1> HIDE DEF n
  <1>4. ASSUME ~in /\ ~on PROVE ToffKnows(TOFF(b, in, PT), in, n, n, was_on \/ in)
    <2>1. Edge(b, in, FALSE, TRUE) = b
      <3>1. in = b.prev_in
        BY <1>4, Zenon DEF ToffKnows, Blocks
      <3> QED BY <3>1, Zenon DEF Edge
    <2>2. TOFF(b, in, PT) = IF b.tmr.running /\ lasts >= PT
                            THEN [b EXCEPT !.q = FALSE, !.tmr = TSTOP] ELSE b
      BY <2>1 DEF TOFF, Ends, TELAPSED, ToffKnows
    <2> QED BY <1>1, <1>4, <1>2, <2>2 DEF ToffKnows, Blocks, TSTOP
  <1>5. ASSUME ~in /\ on PROVE ToffKnows(TOFF(b, in, PT), in, n, n, was_on \/ in)
    <2>1. Edge(b, in, FALSE, TRUE) = [b EXCEPT !.prev_in = in, !.tmr = Started]
      BY <1>5 DEF Edge, ToffKnows
    <2> DEFINE e == [b EXCEPT !.prev_in = in, !.tmr = Started]
    <2>2. /\ e.prev_in = in /\ e.q = b.q /\ e.tmr.running /\ e.tmr.elapsed = 0
          /\ e \in Blocks
      BY EdgeOk, <2>1 DEF Blocks, Started
    <2>3. TOFF(b, in, PT) = IF 0 >= PT THEN [e EXCEPT !.q = FALSE, !.tmr = TSTOP] ELSE e
      BY <2>1, <2>2 DEF TOFF, Ends, TELAPSED
    <2> HIDE DEF e
    <2> QED BY <1>1, <1>5, <1>3, <2>2, <2>3 DEF ToffKnows, Blocks, TSTOP
  <1>6. ASSUME in /\ ~on PROVE ToffKnows(TOFF(b, in, PT), in, n, n, was_on \/ in)
    <2>1. Edge(b, in, FALSE, TRUE) = [b EXCEPT !.prev_in = in, !.tmr = TSTOP, !.q = TRUE]
      BY <1>6 DEF Edge, ToffKnows
    <2> DEFINE e == [b EXCEPT !.prev_in = in, !.tmr = TSTOP, !.q = TRUE]
    <2>2. e.prev_in = in /\ e.q /\ ~e.tmr.running
      BY DEF Blocks, TSTOP
    <2>3. TOFF(b, in, PT) = e
      BY <2>1, <2>2 DEF TOFF, Ends
    <2> HIDE DEF e
    <2> QED BY <1>6, <1>3, <2>2, <2>3 DEF ToffKnows
  <1>7. ASSUME in /\ on PROVE ToffKnows(TOFF(b, in, PT), in, n, n, was_on \/ in)
    <2>1. Edge(b, in, FALSE, TRUE) = b
      BY <1>7 DEF Edge, ToffKnows
    <2>2. TOFF(b, in, PT) = b
      BY <1>7, <2>1 DEF TOFF, Ends, ToffKnows
    <2> QED BY <1>7, <1>2, <2>2 DEF ToffKnows
  <1>8. ToffKnows(TOFF(b, in, PT), in, n, n, was_on \/ in)
    BY <1>4, <1>5, <1>6, <1>7
  <1> QED BY <1>8 DEF n
-----------------------------------------------------------------------------
(* The application.                                                        *)

BlockInv ==
  /\ block \in [{"ton", "toff", "tp", "blink"} -> Blocks]
  /\ input \in [on : BOOLEAN, lasted : 0 .. MaxElapsed, lasts : 0 .. MaxElapsed,
                was_on : BOOLEAN]
  /\ input.lasted <= input.lasts
  /\ input.on => input.was_on
  /\ TonKnows(block.ton, input.on, input.lasted, input.lasts)
  /\ ToffKnows(block.toff, input.on, input.lasted, input.lasts, input.was_on)
  /\ program # "block" => ~block.ton.tmr.running /\ ~block.toff.tmr.running

PulseInv ==
  /\ span \in [tp : 0 .. MaxElapsed, blink : 0 .. MaxElapsed]
  /\ TpKnows(block.tp, input.on, span.tp)
  /\ BlinkKnows(block.blink, input.on, span.blink)

Inv == program \in Programs /\ StarterInv /\ ValveInv /\ BlockInv /\ PulseInv

LEMMA InvImplies ==
  Inv => TypeOK /\ DrivesOneWay /\ TimersKeepTime
  <1> SUFFICES ASSUME Inv PROVE TypeOK /\ DrivesOneWay /\ TimersKeepTime
    OBVIOUS
  <1>1. TypeOK
    BY DEF Inv, StarterInv, ValveInv, BlockInv, PulseInv, TypeOK
  <1>2. DrivesOneWay
    BY Zenon DEF Inv, StarterInv, StarterDrivenOneWay, ValveInv, ValveDriven, DrivesOneWay
  <1>3. TimersKeepTime
    BY Zenon DEF Inv, BlockInv, TonKnows, ToffKnows, TimersKeepTime
  <1> QED BY <1>1, <1>2, <1>3

LEMMA FourBlocks ==
  ASSUME NEW a \in Blocks, NEW b \in Blocks, NEW c \in Blocks, NEW d \in Blocks
  PROVE  [ton |-> a, toff |-> b, tp |-> c, blink |-> d]
           \in [{"ton", "toff", "tp", "blink"} -> Blocks]
  OBVIOUS

LEMMA InitInv ==
  Init => Inv
  <1> SUFFICES ASSUME Init PROVE Inv
    OBVIOUS
  <1>1. 0 \in 0 .. MaxElapsed /\ PT \in Nat
    BY TimesAssumption
  <1>2. TINIT \in Timers /\ TSTOP = TINIT
    BY <1>1 DEF TINIT, TSTOP, Timers
  <1>3. StarterInv
    BY <1>1, <1>2 DEF Init, StarterInit, StarterInv, StarterRecord, StarterDrivenOneWay
  <1>4. ValveInv
    BY <1>1, <1>2
       DEF Init, ValveInit, ValveInv, ValveRecord, ValveMoves, ValveDriven, ValveTimed
  <1>5. Block(FALSE) \in Blocks /\ Block(TRUE) \in Blocks
    BY <1>2 DEF Block, Blocks
  <1>6. /\ block.ton = Block(FALSE) /\ block.toff = Block(TRUE)
        /\ input = [on |-> FALSE, lasted |-> 0, lasts |-> 0, was_on |-> FALSE]
    BY DEF Init
  <1>7. TonKnows(block.ton, input.on, input.lasted, input.lasts)
    BY <1>6 DEF TonKnows, Block, TINIT
  <1>8. ToffKnows(block.toff, input.on, input.lasted, input.lasts, input.was_on)
    BY <1>6 DEF ToffKnows, Block, TINIT
  <1>9. BlockInv
    <2>1. block \in [{"ton", "toff", "tp", "blink"} -> Blocks]
      <3>1. block = [ton |-> Block(FALSE), toff |-> Block(TRUE), tp |-> Block(FALSE),
                     blink |-> Block(FALSE)]
        BY DEF Init
      <3> QED BY <1>5, <3>1, FourBlocks, Zenon
    <2>2. /\ input \in [on : BOOLEAN, lasted : 0 .. MaxElapsed, lasts : 0 .. MaxElapsed,
                         was_on : BOOLEAN]
          /\ input.lasted <= input.lasts /\ ~input.on
      BY <1>1, <1>6
    <2>3. ~block.ton.tmr.running /\ ~block.toff.tmr.running
      BY <1>6 DEF Block, TINIT
    <2> QED BY <1>7, <1>8, <2>1, <2>2, <2>3, Zenon DEF BlockInv
  <1>10. PulseInv
    <2>1. /\ block.tp = Block(FALSE) /\ block.blink = Block(FALSE)
          /\ span = [tp |-> 0, blink |-> 0] /\ ~input.on
      BY DEF Init
    <2>2. /\ TpKnows(block.tp, input.on, span.tp)
          /\ BlinkKnows(block.blink, input.on, span.blink)
      BY <2>1 DEF TpKnows, BlinkKnows, Block, TINIT
    <2> QED BY <1>1, <2>1, <2>2 DEF PulseInv
  <1> QED BY <1>3, <1>4, <1>9, <1>10 DEF Init, Inv

LEMMA BlockScanKeeps ==
  ASSUME BlockInv, BlockScan
  PROVE  BlockInv'
  <1> PICK in \in BOOLEAN :
        LET lasts == IF in = input.on THEN input.lasts ELSE 0
        IN  /\ block' = [ton |-> TON(block.ton, in, PT), toff |-> TOFF(block.toff, in, PT),
                         tp |-> TP(block.tp, in, PT), blink |-> BLINK(block.blink, in, PT)]
            /\ input' = [on |-> in, lasted |-> lasts, lasts |-> lasts,
                         was_on |-> input.was_on \/ in]
    BY DEF BlockScan
  <1> DEFINE n == IF in = input.on THEN input.lasts ELSE 0
             w == input.was_on \/ in
  <1>1. /\ block.ton \in Blocks /\ block.toff \in Blocks
        /\ block.tp \in Blocks /\ block.blink \in Blocks
        /\ input.on \in BOOLEAN /\ input.was_on \in BOOLEAN
        /\ input.lasted \in Nat /\ input.lasts \in Nat /\ input.lasts \in 0 .. MaxElapsed
        /\ input.lasted <= input.lasts /\ (input.on => input.was_on)
        /\ 0 \in 0 .. MaxElapsed /\ 0 \in Nat
    BY TimesAssumption DEF BlockInv
  <1>2. TonKnows(TON(block.ton, in, PT), in, n, n)
    BY <1>1, TonTurn, Zenon DEF BlockInv
  <1>3. ToffKnows(TOFF(block.toff, in, PT), in, n, n, w)
    <2>1. ToffKnows(block.toff, input.on, input.lasted, input.lasts, input.was_on)
      BY DEF BlockInv
    <2> QED BY <1>1, <2>1, ToffTurn
  <1>4. n \in 0 .. MaxElapsed /\ n \in Nat
    BY <1>1
  <1>5. /\ TON(block.ton, in, PT) \in Blocks /\ TOFF(block.toff, in, PT) \in Blocks
        /\ TP(block.tp, in, PT) \in Blocks /\ BLINK(block.blink, in, PT) \in Blocks
    BY <1>1, BlocksOk
  <1>6. /\ block' = [ton |-> TON(block.ton, in, PT), toff |-> TOFF(block.toff, in, PT),
                     tp |-> TP(block.tp, in, PT), blink |-> BLINK(block.blink, in, PT)]
        /\ input' = [on |-> in, lasted |-> n, lasts |-> n, was_on |-> w]
    BY Zenon
  <1>9. w \in BOOLEAN /\ (in => w)
    BY <1>1
  <1> HIDE DEF n, w
  <1>7. block' \in [{"ton", "toff", "tp", "blink"} -> Blocks]
    BY <1>5, <1>6
  <1>8. /\ input'.on = in /\ input'.lasted = n /\ input'.lasts = n
        /\ input'.was_on = w
        /\ input' \in [on : BOOLEAN, lasted : 0 .. MaxElapsed, lasts : 0 .. MaxElapsed,
                       was_on : BOOLEAN]
    BY <1>4, <1>6, <1>9
  <1>10. block'.ton = TON(block.ton, in, PT) /\ block'.toff = TOFF(block.toff, in, PT)
    BY <1>6
  <1>11. n <= n
    BY <1>4
  <1>12. input'.lasted <= input'.lasts /\ (input'.on => input'.was_on)
    BY <1>8, <1>9, <1>11, Zenon
  <1>13. program' = "block"
    BY DEF BlockScan
  <1>14. /\ TonKnows(block'.ton, input'.on, input'.lasted, input'.lasts)
         /\ ToffKnows(block'.toff, input'.on, input'.lasted, input'.lasts, input'.was_on)
    BY <1>2, <1>3, <1>8, <1>10, Zenon
  <1> QED BY <1>7, <1>8, <1>12, <1>13, <1>14, Zenon DEF BlockInv

(* tp and blink keep their time in a scan.                                 *)
PulseTurn ==
  /\ block'.tp.q <=> IF block.tp.q THEN span.tp < PT ELSE input'.on /\ ~input.on
  /\ block'.blink.q <=> input'.on /\ block.blink.q # (span.blink >= PT \div 2)

LEMMA PulseScanKeeps ==
  ASSUME BlockInv, PulseInv, BlockScan
  PROVE  PulseInv' /\ PulseTurn
  <1> PICK in \in BOOLEAN :
        LET lasts == IF in = input.on THEN input.lasts ELSE 0
        IN  /\ block' = [ton |-> TON(block.ton, in, PT), toff |-> TOFF(block.toff, in, PT),
                         tp |-> TP(block.tp, in, PT), blink |-> BLINK(block.blink, in, PT)]
            /\ input' = [on |-> in, lasted |-> lasts, lasts |-> lasts,
                         was_on |-> input.was_on \/ in]
            /\ span' = [tp |-> IF block.tp.q /\ block'.tp.q THEN span.tp ELSE 0,
                        blink |-> IF in /\ input.on /\ block'.blink.q = block.blink.q
                                  THEN span.blink ELSE 0]
    BY DEF BlockScan
  <1>1. /\ block.tp \in Blocks /\ block.blink \in Blocks /\ input.on \in BOOLEAN
    BY DEF BlockInv
  <1>2. /\ span.tp \in 0 .. MaxElapsed /\ span.blink \in 0 .. MaxElapsed
        /\ span.tp \in Nat /\ span.blink \in Nat /\ 0 \in 0 .. MaxElapsed
    BY TimesAssumption DEF PulseInv
  <1>3. /\ block'.tp = TP(block.tp, in, PT) /\ block'.blink = BLINK(block.blink, in, PT)
        /\ input'.on = in
    OBVIOUS
  <1>4. /\ span'.tp = IF block.tp.q /\ block'.tp.q THEN span.tp ELSE 0
        /\ span'.blink = IF in /\ input.on /\ block'.blink.q = block.blink.q
                         THEN span.blink ELSE 0
        /\ span' \in [tp : 0 .. MaxElapsed, blink : 0 .. MaxElapsed]
    BY <1>2
  <1>5. /\ block'.tp.q <=> IF block.tp.q THEN span.tp < PT ELSE in /\ ~input.on
        /\ TpKnows(block'.tp, in, span'.tp)
    <2>1. TpKnows(block.tp, input.on, span.tp)
      BY DEF PulseInv
    <2>2. /\ TP(block.tp, in, PT).q
               <=> IF block.tp.q THEN span.tp < PT ELSE in /\ ~input.on
          /\ TpKnows(TP(block.tp, in, PT), in,
                     IF block.tp.q /\ TP(block.tp, in, PT).q THEN span.tp ELSE 0)
      BY <1>1, <1>2, <2>1, TpTurn
    <2> QED BY <1>3, <1>4, <2>2, Zenon
  <1>6. /\ block'.blink.q <=> in /\ block.blink.q # (span.blink >= PT \div 2)
        /\ BlinkKnows(block'.blink, in, span'.blink)
    <2>1. BlinkKnows(block.blink, input.on, span.blink)
      BY DEF PulseInv
    <2>2. /\ BLINK(block.blink, in, PT).q
               <=> in /\ block.blink.q # (span.blink >= PT \div 2)
          /\ BlinkKnows(BLINK(block.blink, in, PT), in,
                        IF in /\ input.on /\ BLINK(block.blink, in, PT).q = block.blink.q
                        THEN span.blink ELSE 0)
      BY <1>1, <1>2, <2>1, BlinkTurn
    <2> QED BY <1>3, <1>4, <2>2, Zenon
  <1> QED BY <1>3, <1>4, <1>5, <1>6, Zenon DEF PulseInv, PulseTurn

(* A block while time passes.                                              *)
LEMMA AgedBlock ==
  ASSUME NEW b \in Blocks
  PROVE  LET a == [b EXCEPT !.tmr = Aged(b.tmr)]
         IN  /\ a \in Blocks /\ a.q = b.q /\ a.prev_in = b.prev_in
             /\ a.tmr.running = b.tmr.running
             /\ b.tmr.running => a.tmr.elapsed = Older(b.tmr.elapsed)
  <1>1. b.tmr \in Timers /\ Aged(b.tmr) \in Timers
    BY TimersOk DEF Blocks
  <1>2. Aged(b.tmr).running = b.tmr.running
    BY <1>1 DEF Aged, Timers
  <1>3. b.tmr.running => Aged(b.tmr).elapsed = Older(b.tmr.elapsed)
    BY <1>1 DEF Aged, Timers
  <1> QED BY <1>1, <1>2, <1>3 DEF Blocks

LEMMA BlockTickKeeps ==
  ASSUME BlockInv, Tick
  PROVE  BlockInv'
  <1> DEFINE Agd(b) == [b EXCEPT !.tmr = Aged(b.tmr)]
  <1>1. /\ block.ton \in Blocks /\ block.toff \in Blocks
        /\ block.tp \in Blocks /\ block.blink \in Blocks
        /\ input.lasts \in 0 .. MaxElapsed
    BY DEF BlockInv
  <1>2. /\ block' \in [{"ton", "toff", "tp", "blink"} -> Blocks]
        /\ block'.ton = Agd(block.ton) /\ block'.toff = Agd(block.toff)
    <2>1. \A b \in Blocks : Agd(b) \in Blocks
      BY AgedBlock
    <2>2. block' = [x \in {"ton", "toff", "tp", "blink"} |-> Agd(block[x])]
      BY DEF Tick, BlockInv
    <2>3. \A x \in {"ton", "toff", "tp", "blink"} : block[x] \in Blocks
      BY DEF BlockInv
    <2> HIDE DEF Agd
    <2> QED BY <2>1, <2>2, <2>3
  <1>3. /\ Agd(block.ton).q = block.ton.q
        /\ Agd(block.ton).prev_in = block.ton.prev_in
        /\ Agd(block.ton).tmr.running = block.ton.tmr.running
        /\ block.ton.tmr.running
             => Agd(block.ton).tmr.elapsed = Older(block.ton.tmr.elapsed)
    BY <1>1, AgedBlock
  <1>4. /\ Agd(block.toff).q = block.toff.q
        /\ Agd(block.toff).prev_in = block.toff.prev_in
        /\ Agd(block.toff).tmr.running = block.toff.tmr.running
        /\ block.toff.tmr.running
             => Agd(block.toff).tmr.elapsed = Older(block.toff.tmr.elapsed)
    BY <1>1, AgedBlock
  <1> HIDE DEF Agd
  <1>5. /\ input' \in [on : BOOLEAN, lasted : 0 .. MaxElapsed, lasts : 0 .. MaxElapsed,
                       was_on : BOOLEAN]
        /\ input'.on = input.on /\ input'.lasted = input.lasted
        /\ input'.was_on = input.was_on
        /\ input'.lasts = IF program = "block" THEN Older(input.lasts) ELSE input.lasts
    <2>1. Older(input.lasts) \in 0 .. MaxElapsed
      BY <1>1, OlderOk
    <2>2. CASE program = "block"
      BY <2>1, <2>2 DEF Tick, BlockInv
    <2>3. CASE program # "block"
      BY <2>3 DEF Tick, BlockInv
    <2> QED BY <2>2, <2>3
  <1>6. input'.lasted <= input'.lasts
    <2>1. Older(input.lasts) \in Nat /\ Older(input.lasts) >= input.lasts
      BY <1>1, OlderOk
    <2> QED BY <1>5, <2>1 DEF BlockInv
  <1>7. program' = program
    BY DEF Tick
  <1>8. block.ton.tmr.running \/ block.toff.tmr.running => program = "block"
    BY DEF BlockInv
  <1>9. TonKnows(block'.ton, input'.on, input'.lasted, input'.lasts)
    BY <1>2, <1>3, <1>5, <1>8, Zenon DEF BlockInv, TonKnows
  <1>10. ToffKnows(block'.toff, input'.on, input'.lasted, input'.lasts, input'.was_on)
    BY <1>2, <1>4, <1>5, <1>8, Zenon DEF BlockInv, ToffKnows
  <1>11. /\ input'.on => input'.was_on
         /\ program' # "block" => ~block'.ton.tmr.running /\ ~block'.toff.tmr.running
    BY <1>2, <1>3, <1>4, <1>5, <1>7, Zenon DEF BlockInv
  <1> QED BY <1>2, <1>5, <1>6, <1>9, <1>10, <1>11, Zenon DEF BlockInv

LEMMA PulseTickKeeps ==
  ASSUME BlockInv, PulseInv, Tick
  PROVE  PulseInv'
  <1> DEFINE Agd(b) == [b EXCEPT !.tmr = Aged(b.tmr)]
  <1>1. /\ block.tp \in Blocks /\ block.blink \in Blocks /\ input.on \in BOOLEAN
    BY DEF BlockInv
  <1>2. block'.tp = Agd(block.tp) /\ block'.blink = Agd(block.blink)
    BY DEF Tick, BlockInv
  <1>3. /\ Agd(block.tp).q = block.tp.q
        /\ Agd(block.tp).prev_in = block.tp.prev_in
        /\ Agd(block.tp).tmr.running = block.tp.tmr.running
        /\ block.tp.tmr.running
             => Agd(block.tp).tmr.elapsed = Older(block.tp.tmr.elapsed)
    BY <1>1, AgedBlock
  <1>4. /\ Agd(block.blink).q = block.blink.q
        /\ Agd(block.blink).prev_in = block.blink.prev_in
        /\ Agd(block.blink).tmr.running = block.blink.tmr.running
        /\ block.blink.tmr.running
             => Agd(block.blink).tmr.elapsed = Older(block.blink.tmr.elapsed)
    BY <1>1, AgedBlock
  <1> HIDE DEF Agd
  <1>5. input'.on = input.on
    BY DEF Tick, BlockInv
  <1>6. /\ span'.tp = IF block.tp.q THEN Older(span.tp) ELSE span.tp
        /\ span'.blink = IF input.on THEN Older(span.blink) ELSE span.blink
        /\ span' \in [tp : 0 .. MaxElapsed, blink : 0 .. MaxElapsed]
    <2>1. /\ span.tp \in 0 .. MaxElapsed /\ Older(span.tp) \in 0 .. MaxElapsed
          /\ span.blink \in 0 .. MaxElapsed /\ Older(span.blink) \in 0 .. MaxElapsed
      BY OlderOk DEF PulseInv
    <2> QED BY <2>1 DEF Tick
  <1>7. TpKnows(block'.tp, input'.on, span'.tp)
    BY <1>2, <1>3, <1>5, <1>6, Zenon DEF PulseInv, TpKnows
  <1>8. BlinkKnows(block'.blink, input'.on, span'.blink)
    BY <1>2, <1>4, <1>5, <1>6, Zenon DEF PulseInv, BlinkKnows
  <1> QED BY <1>6, <1>7, <1>8 DEF PulseInv

LEMMA NextInv ==
  ASSUME Inv, [Next]_vars
  PROVE  Inv' /\ (ValveReports \/ UNCHANGED valve) /\ (BlockScan => PulseTurn)
  <1>1. CASE StarterScan
    <2>1. UNCHANGED <<valve, program, block, input, span>> /\ StarterInv'
      BY <1>1, StarterRun DEF StarterScan, Inv
    <2>2. ~BlockScan
      BY <1>1 DEF StarterScan, BlockScan
    <2> QED BY <2>1, <2>2
            DEF Inv, ValveInv, ValveDriven, ValveTimed, BlockInv, PulseInv
  <1>2. CASE ValveScan
    <2>1. UNCHANGED <<starter, program, block, input, span>> /\ ValveInv' /\ ValveReports
      BY <1>2, ValveRun DEF ValveScan, Inv
    <2>2. ~BlockScan
      BY <1>2 DEF ValveScan, BlockScan
    <2> QED BY <2>1, <2>2 DEF Inv, StarterInv, StarterDrivenOneWay, BlockInv, PulseInv
  <1>3. CASE BlockScan
    <2>1. UNCHANGED <<starter, valve, program>> /\ BlockInv' /\ PulseInv' /\ PulseTurn
      BY <1>3, BlockScanKeeps, PulseScanKeeps DEF BlockScan, Inv
    <2> QED BY <2>1
            DEF Inv, StarterInv, StarterDrivenOneWay, ValveInv, ValveDriven, ValveTimed
  <1>4. CASE Tick /\ ~BlockScan
    <2>1. program' = program /\ starter' = StarterAged /\ valve' = ValveAged
      BY <1>4 DEF Tick
    <2>2. /\ StarterInv' /\ ValveInv' /\ BlockInv' /\ PulseInv'
          /\ valve'.alerts = valve.alerts
      BY <1>4, <2>1, StarterTick, ValveTick, BlockTickKeeps, PulseTickKeeps DEF Inv
    <2> QED BY <1>4, <2>1, <2>2 DEF Inv, ValveReports
  <1>5. CASE UNCHANGED vars /\ ~BlockScan
    BY <1>5 DEF vars, Inv, StarterInv, StarterDrivenOneWay, ValveInv, ValveDriven,
                ValveTimed, BlockInv, PulseInv
  <1> QED BY <1>1, <1>2, <1>3, <1>4, <1>5 DEF Next, Scan

LEMMA Invariance ==
  Spec => []Inv
  <1>1. Init => Inv
    BY InitInv
  <1>2. Inv /\ [Next]_vars => Inv'
    BY NextInv
  <1> QED BY <1>1, <1>2, PTL DEF Spec
-----------------------------------------------------------------------------
(* Every variable of the application keeps to its type, whatever the scans *)
(* find and however much time passes between them.                         *)
THEOREM ApplicationTyping ==
  Spec => []TypeOK
  <1>1. Inv => TypeOK
    BY InvImplies
  <1> QED BY <1>1, Invariance, PTL

(* A motor or valve is driven one way only, and only while it is on its    *)
(* way there; a valve's close output is on besides only since both its     *)
(* requests were granted in one scan that found its state indeterminate.   *)
THEOREM DrivenOneWay ==
  Spec => []DrivesOneWay
  <1>1. Inv => DrivesOneWay
    BY InvImplies
  <1> QED BY <1>1, Invariance, PTL

(* ton and toff keep their time, for every programmed time.                *)
THEOREM TimersAreRight ==
  Spec => []TimersKeepTime
  <1>1. Inv => TimersKeepTime
    BY InvImplies
  <1> QED BY <1>1, Invariance, PTL

(* tp and blink keep their time, for every programmed time.                *)
THEOREM PulsesAreRight ==
  Spec => PulsesKeepTime
  <1>1. Inv /\ [Next]_vars =>
          [ BlockScan =>
              /\ block'.tp.q <=> IF block.tp.q THEN span.tp < PT ELSE input'.on /\ ~input.on
              /\ block'.blink.q
                   <=> input'.on /\ block.blink.q # (span.blink >= PT \div 2) ]_vars
    BY NextInv DEF PulseTurn
  <1> QED BY <1>1, Invariance, PTL DEF Spec, PulsesKeepTime

(* A valve is reported to have failed only after it had its time.          *)
THEOREM ValveHasItsTime ==
  Spec => ValveFailsInTime
  <1>1. Inv /\ [Next]_vars =>
          [\A f \in {"fail_to_open", "fail_to_close"} :
             f \in valve'.alerts \ valve.alerts => valve.moved > FtrTmr]_vars
    BY NextInv DEF ValveReports
  <1> QED BY <1>1, Invariance, PTL DEF Spec, ValveFailsInTime
=============================================================================
