---------------------------- MODULE AlarmJournal ----------------------------
(***************************************************************************)
(* What an alarm promises to those who only see its log (README.md,        *)
(* Milestone 3, "alarm event logging"): the log of one alarm is a correct  *)
(* account of it.  An occurrence is logged when, and only when, the alarm  *)
(* becomes raised, and leaves it unacknowledged; a clearance is logged     *)
(* when and only when it stops being raised, and acknowledges nothing; an  *)
(* acknowledgement is logged once, and only after an occurrence that       *)
(* nobody acknowledged.                                                    *)
(***************************************************************************)
VARIABLES raised, unacked, log

vars == <<raised, unacked, log>>

Init == ~raised /\ ~unacked /\ log = "none"

Occur == ~raised /\ raised' /\ unacked' /\ log' = "occur"

Clear == raised /\ ~raised' /\ unacked' = unacked /\ log' = "clear"

Ack == unacked /\ ~unacked' /\ raised' = raised /\ log' = "ack"

Quiet == UNCHANGED <<raised, unacked>> /\ log' = "none"

Next == Occur \/ Clear \/ Ack \/ Quiet

Spec == Init /\ [][Next]_vars
=============================================================================
