----------------------------- MODULE ControlLib -----------------------------
(***************************************************************************)
(* The function blocks of app/app_stdlib/control_lib.c that keep time, as  *)
(* operators on their records.  A running timer is kept as the time since  *)
(* it was started, since the code only ever uses the difference.           *)
(***************************************************************************)
EXTENDS Integers

CONSTANTS
  MaxElapsed,           (* bound: no longer times are told apart           *)
  FtrTmr,               (* FTR_TMR: the time a motor or valve may take     *)
  AlertTimeout,         (* how long their alerts last                      *)
  PT                    (* the programmed time of ton, toff and tp         *)

ASSUME TimesAssumption ==
  /\ FtrTmr \in Nat /\ AlertTimeout \in Nat /\ PT \in Nat /\ MaxElapsed \in Nat
  /\ MaxElapsed > FtrTmr /\ MaxElapsed > AlertTimeout /\ MaxElapsed > PT

TINIT == [running |-> FALSE, elapsed |-> 0]

TSTOP == [running |-> FALSE, elapsed |-> 0]

(* A timer that runs already goes on.                                      *)
TSTART(t) == [t EXCEPT !.running = TRUE]

TELAPSED(t) == IF t.running THEN t.elapsed ELSE 0

Started == [running |-> TRUE, elapsed |-> 0]

Older(n) == IF n < MaxElapsed THEN n + 1 ELSE n

(* The timer when time has passed.                                         *)
Aged(t) == IF t.running THEN [t EXCEPT !.elapsed = Older(@)] ELSE t

Timers == [running : BOOLEAN, elapsed : 0 .. MaxElapsed]
-----------------------------------------------------------------------------
(* ton, toff, tp and blink: one call per scan with the input in.           *)

Block(q) == [q |-> q, prev_in |-> FALSE, tmr |-> TINIT]

(* A block whose timer is over, or not.                                    *)
Ends(b, pt, q) ==
  IF b.tmr.running /\ TELAPSED(b.tmr) >= pt
  THEN [b EXCEPT !.q = q, !.tmr = TSTOP] ELSE b

(* Mutant: the timer is not started anew by the edge.                      *)
EdgeKeepsTime(b, in, starts, q) ==
  IF in = b.prev_in THEN b
  ELSE IF in = starts THEN [b EXCEPT !.prev_in = in, !.tmr = TSTART(@)]
  ELSE [b EXCEPT !.prev_in = in, !.q = q]

(* What the edges of the input do to ton, whose timer starts when the      *)
(* input rises, and toff, whose timer starts when it falls: the other edge *)
(* stops the timer and resets the output to q.                             *)
Edge(b, in, starts, q) ==
  IF in = b.prev_in THEN b
  ELSE IF in = starts THEN [b EXCEPT !.prev_in = in, !.tmr = Started]
  ELSE [b EXCEPT !.prev_in = in, !.tmr = TSTOP, !.q = q]

TON(b, in, pt) == Ends(Edge(b, in, TRUE, FALSE), pt, TRUE)

TOFF(b, in, pt) == Ends(Edge(b, in, FALSE, TRUE), pt, FALSE)

(* Mutant: a rising edge during the pulse starts the time anew.            *)
TPRestarts(b, in, pt) ==
  IF in /\ ~b.prev_in THEN [q |-> TRUE, prev_in |-> in, tmr |-> Started]
  ELSE [Ends(b, pt, FALSE) EXCEPT !.prev_in = in]

(* An edge during the pulse, also in the scan that ends it, has no effect. *)
TP(b, in, pt) ==
  IF b.q THEN [Ends(b, pt, FALSE) EXCEPT !.prev_in = in]
  ELSE IF in /\ ~b.prev_in THEN [q |-> TRUE, prev_in |-> in, tmr |-> Started]
  ELSE [b EXCEPT !.prev_in = in]

(* prev_in is running.                                                     *)
BLINK(b, run, cycle) ==
  LET on == IF run /\ ~b.prev_in THEN [q |-> FALSE, prev_in |-> TRUE, tmr |-> Started]
            ELSE b
  IN  IF ~run THEN Block(FALSE)
      ELSE IF TELAPSED(on.tmr) >= cycle \div 2
      THEN [on EXCEPT !.q = ~@, !.tmr = Started] ELSE on

Blocks == [q : BOOLEAN, prev_in : BOOLEAN, tmr : Timers]
=============================================================================
