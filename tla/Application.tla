---------------------------- MODULE Application ----------------------------
(***************************************************************************)
(* An application (app/app.c) that calls blocks of the PLC library once a  *)
(* scan: the starter of a motor, a valve, or a timer block.  They share    *)
(* nothing, so each application has one of them.                           *)
(***************************************************************************)
EXTENDS GenericStarter, ValveControl

VARIABLES
  program,    (* what the application consists of                          *)
  block,      (* ton, toff, tp and blink on one input                      *)
  input,      (* history: the value of the input in the latest scan, how   *)
              (* long it has had it then and now, and whether it was ever  *)
              (* on                                                        *)
  span        (* history: how long the output of tp has been on, and how   *)
              (* long that of blink has been as it is while blink runs     *)

vars == <<starter, valve, program, block, input, span>>

Programs == {"starter", "valve", "block"}

Init ==
  /\ program \in Programs
  /\ StarterInit /\ ValveInit
  /\ block = [ton |-> Block(FALSE), toff |-> Block(TRUE), tp |-> Block(FALSE),
              blink |-> Block(FALSE)]
  /\ input = [on |-> FALSE, lasted |-> 0, lasts |-> 0, was_on |-> FALSE]
  /\ span = [tp |-> 0, blink |-> 0]
-----------------------------------------------------------------------------
StarterScan ==
  /\ program = "starter" /\ generic_starter_run
  /\ UNCHANGED <<valve, program, block, input, span>>

ValveScan ==
  /\ program = "valve" /\ valve_control_run
  /\ UNCHANGED <<starter, program, block, input, span>>

BlockScan ==
  /\ program = "block"
  /\ \E in \in BOOLEAN :
       LET lasts == IF in = input.on THEN input.lasts ELSE 0
       IN  /\ block' = [ton |-> TON(block.ton, in, PT), toff |-> TOFF(block.toff, in, PT),
                        tp |-> TP(block.tp, in, PT), blink |-> BLINK(block.blink, in, PT)]
           /\ input' = [on |-> in, lasted |-> lasts, lasts |-> lasts,
                        was_on |-> input.was_on \/ in]
           /\ span' = [tp |-> IF block.tp.q /\ block'.tp.q THEN span.tp ELSE 0,
                       blink |-> IF in /\ input.on /\ block'.blink.q = block.blink.q
                                 THEN span.blink ELSE 0]
  /\ UNCHANGED <<starter, valve, program>>

Scan == StarterScan \/ ValveScan \/ BlockScan

Tick ==
  /\ starter' = StarterAged /\ valve' = ValveAged
  /\ block' = [b \in DOMAIN block |-> [block[b] EXCEPT !.tmr = Aged(@)]]
  /\ input' = IF program = "block" THEN [input EXCEPT !.lasts = Older(@)] ELSE input
  /\ span' = [tp |-> IF block.tp.q THEN Older(span.tp) ELSE span.tp,
              blink |-> IF input.on THEN Older(span.blink) ELSE span.blink]
  /\ UNCHANGED program

Next == Scan \/ Tick

Spec == Init /\ [][Next]_vars

(* The scan comes again and again (core_driver.c:65), and time passes.     *)
Fairness == WF_vars(Scan) /\ WF_vars(Tick)

FairSpec == Spec /\ Fairness
-----------------------------------------------------------------------------
StarterRecord ==
  [status : {"none", "stopped", "running"} \cup StarterMoves,
   start : BOOLEAN, stop : BOOLEAN,
   alerts : SUBSET {"ux_start", "ux_stop", "failed_to_start", "failed_to_stop"},
   ftr_tmr : Timers, alert_tmr : Timers, moved : 0 .. MaxElapsed]

ValveRecord ==
  [state : {"indeterminate", "closed", "opened"} \cup ValveMoves,
   open : BOOLEAN, close : BOOLEAN,
   alerts : SUBSET {"ux_opened", "ux_closed", "fail_to_open", "fail_to_close", "fault"},
   ftr_tmr : Timers, alert_tmr : Timers, moved : 0 .. MaxElapsed, crossed : BOOLEAN]

TypeOK ==
  /\ program \in Programs
  /\ starter \in StarterRecord
  /\ valve \in ValveRecord
  /\ block \in [{"ton", "toff", "tp", "blink"} -> Blocks]
  /\ input \in [on : BOOLEAN, lasted : 0 .. MaxElapsed, lasts : 0 .. MaxElapsed,
                was_on : BOOLEAN]
  /\ span \in [tp : 0 .. MaxElapsed, blink : 0 .. MaxElapsed]

(***************************************************************************)
(* A motor or valve is never driven both ways, and never without being on  *)
(* its way there: the outputs are taken back on every way out of a move,   *)
(* by arrival, failure or a request for the opposite.  The one exception   *)
(* is a valve whose requests were both granted in one scan that found its  *)
(* state indeterminate: crossed, until its close output goes off or it     *)
(* closes.                                                                 *)
(***************************************************************************)
DrivesOneWay ==
  /\ starter.start <=> starter.status = "starting"
  /\ starter.stop <=> starter.status = "stopping"
  /\ valve.open <=> valve.state = "opening"
  /\ valve.close => valve.state = "closing" \/ valve.crossed

(***************************************************************************)
(* Nothing moves for ever.  A motor that is asked back and forth gets no   *)
(* more time by that: it comes to rest in one of its states.  A valve      *)
(* arrives or turns back.                                                  *)
(***************************************************************************)
MovesEnd ==
  /\ starter.status \in StarterMoves ~> starter.status \in {"stopped", "running"}
  /\ \A move \in ValveMoves : valve.state = move ~> valve.state # move

(***************************************************************************)
(* A valve is reported to have failed only after it had its time, counted  *)
(* from when it began to move that way.                                    *)
(***************************************************************************)
ValveFailsInTime ==
  [][ \A f \in {"fail_to_open", "fail_to_close"} :
        f \in valve'.alerts \ valve.alerts => valve.moved > FtrTmr ]_vars

(***************************************************************************)
(* The timers against what control_lib.h says of them: in a scan, ton is   *)
(* on when its input has been on for the programmed time, and toff is off  *)
(* when its input has been off for that time since it was on.              *)
(***************************************************************************)
TimersKeepTime ==
  /\ block.ton.q <=> input.on /\ input.lasted >= PT
  /\ block.toff.q <=> input.on \/ input.lasted < PT \/ ~input.was_on

(***************************************************************************)
(* control_lib.h:160-195 of the other two: tp is turned on by a rising     *)
(* edge and stays on for the programmed time, in which "Any change on IN   *)
(* during counting has no effect", the scan that ends it included; blink,  *)
(* for which the cycle is "one complete off/on period", is off unless its  *)
(* input is on and else changes over after every half of the cycle, off    *)
(* first.                                                                  *)
(***************************************************************************)
PulsesKeepTime ==
  [][ BlockScan =>
        /\ block'.tp.q <=> IF block.tp.q THEN span.tp < PT ELSE input'.on /\ ~input.on
        /\ block'.blink.q <=> input'.on /\ block.blink.q # (span.blink >= PT \div 2) ]_vars

(***************************************************************************)
(* generic_starter.h:50 calls FTR_TMR "failed to respond timer in ms", and *)
(* generic_starter.c:143 says "failed to stopped within timeout": a motor  *)
(* is reported not to have responded when that time is over, counted from  *)
(* when it was last at rest or running.                                    *)
(***************************************************************************)
StarterFailsInTime ==
  [][ \A f \in {"failed_to_start", "failed_to_stop"} :
        f \in starter'.alerts \ starter.alerts => starter.moved > FtrTmr ]_vars
=============================================================================
