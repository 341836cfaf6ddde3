---------------------------- MODULE ModbusMaster ----------------------------
(***************************************************************************)
(* A Modbus TCP master: its driver, src/main/modbus_master_driver.c, which *)
(* works through a schedule of requests, and its connection,               *)
(* src/modbus/modbus_tcp_master.c, with the automatic connector.  All of   *)
(* it runs on one event loop, so that a handler is one step.  The slave    *)
(* answers when it likes, in any order, once or never.                     *)
(***************************************************************************)
EXTENDS Naturals, FiniteSets

CONSTANTS
  N,                   (* the number of entries in the schedule            *)
  Unmapped,            (* the entries that write a register without a      *)
                       (* channel: nothing is sent for them                *)
  DelayExceedsTimeout, (* is inter_request_delay longer than timeout?      *)
  TidMod,              (* transaction identifiers: 65536                   *)
  MaxAge,              (* bound: answers come before this many requests    *)
                       (* more have been sent                              *)
  NoAnswer

ASSUME MasterAssumption ==
  /\ N \in Nat \ {0} /\ Unmapped \subseteq 0 .. N - 1
  /\ DelayExceedsTimeout \in BOOLEAN
  /\ TidMod \in Nat \ {0} /\ MaxAge \in Nat
  /\ MaxAge + 1 < TidMod
  /\ NoAnswer \notin Nat

VARIABLES
  link,         (* tcp_state: "connecting" or "connected"                  *)
  attempt,      (* the connector: "none", "in_progress", or "wait"         *)
  current,      (* current_request                                         *)
  transaction,  (* is the transaction timer running?                       *)
  wait,         (* is the wait timer running?                              *)
  tid,          (* the identifier of the next request                      *)
  flights,      (* the answers that may still come on this connection,     *)
                (* with the number of requests sent since                  *)
  asked,        (* history: has the current entry been asked for?          *)
  taken         (* history: the age of the answer used in the latest step  *)

vars == <<link, attempt, current, transaction, wait, tid, flights, asked,
          taken>>

Init ==
  /\ link = "connecting" /\ attempt = "in_progress"
  /\ current = 0 /\ transaction = FALSE /\ wait = FALSE
  /\ tid = 0 /\ flights = {}
  /\ asked = FALSE /\ taken = NoAnswer
-----------------------------------------------------------------------------
(* The slave may never answer some of the requests under way.              *)
OnWire(air) ==
  {{[f EXCEPT !.age = @ + 1] : f \in kept} \cup {[tid |-> tid, age |-> 0]} :
     kept \in SUBSET {f \in air : f.age < MaxAge}}

(* __modbus_master_event_cb is told of the disconnection, and              *)
(* modbus_tcp_master_start_reconnect starts the connector, whose attempt   *)
(* may fail at once.                                                       *)
Disconnects ==
  /\ link' = "connecting" /\ attempt' \in {"in_progress", "wait"}
  /\ wait' = FALSE /\ current' = 0
  /\ flights' = {}

(* Mutant: the timer is started only when a request is sent.               *)
AsksTimedWhenSent(e, w, up, air) ==
  /\ asked' = TRUE
  /\ \/ /\ ~up \/ e \in Unmapped
        /\ link' = (IF up THEN "connected" ELSE "connecting")
        /\ attempt' = (IF up THEN "none" ELSE attempt)
        /\ current' = e /\ wait' = w /\ flights' = air
        /\ UNCHANGED <<tid, transaction>>
     \/ /\ up /\ e \notin Unmapped
        /\ transaction' = TRUE
        /\ tid' = (tid + 1) % TidMod
        /\ \/ /\ link' = "connected" /\ attempt' = "none"
              /\ current' = e /\ wait' = w /\ flights' \in OnWire(air)
           \/ Disconnects

(* modbus_master_driver_request for entry e, with the wait timer in state  *)
(* w, the connection up or not, and the answers in air.  Nothing is sent   *)
(* without a connection or for an unmapped entry; the transaction timer is *)
(* started in any case, also after a write that failed and took the TCP    *)
(* connection down.                                                        *)
Asks(e, w, up, air) ==
  /\ transaction' = TRUE /\ asked' = TRUE
  /\ \/ /\ ~up \/ e \in Unmapped
        /\ link' = (IF up THEN "connected" ELSE "connecting")
        /\ attempt' = (IF up THEN "none" ELSE attempt)
        /\ current' = e /\ wait' = w /\ flights' = air
        /\ UNCHANGED tid
     \/ /\ up /\ e \notin Unmapped
        /\ tid' = (tid + 1) % TidMod
        /\ \/ /\ link' = "connected" /\ attempt' = "none"
              /\ current' = e /\ wait' = w /\ flights' \in OnWire(air)
           \/ Disconnects

Up == link = "connected"

(* Mutant: the end of the schedule is not noticed.                         *)
NextEntryUnbounded == current + 1

NextEntry == (current + 1) % N

(* modbus_driver_master_next when the delay is not over yet.  Starting a   *)
(* timer that runs already changes nothing.                                *)
WaitsForNext(air) ==
  /\ current' = NextEntry /\ asked' = FALSE
  /\ transaction' = FALSE /\ wait' = TRUE /\ flights' = air
  /\ UNCHANGED <<link, attempt, tid>>

(* The same when the delay is over.                                        *)
AsksForNext(air) == Asks(NextEntry, wait, Up, air)
-----------------------------------------------------------------------------
(* The connector reports success.                                          *)
ConnectSucceeds ==
  /\ attempt = "in_progress"
  /\ Asks(0, wait, TRUE, {})
  /\ taken' = NoAnswer

(* The connection fails: the connector waits before it tries again.  After *)
(* a timeout it tries again at once.                                       *)
ConnectFails ==
  /\ attempt = "in_progress"
  /\ attempt' = "wait" /\ taken' = NoAnswer
  /\ UNCHANGED <<link, current, transaction, wait, tid, flights, asked>>

Retry ==
  /\ attempt = "wait"
  /\ attempt' = "in_progress" /\ taken' = NoAnswer
  /\ UNCHANGED <<link, current, transaction, wait, tid, flights, asked>>

(* The end of the connection, or an error on it.                           *)
ConnectionLost ==
  /\ Up
  /\ Disconnects
  /\ transaction' = FALSE /\ asked' = FALSE /\ taken' = NoAnswer
  /\ UNCHANGED tid

(* Mutant: any answer is used.                                             *)
AcceptsAny(f) == TRUE

(* modbus_tcp_master_got_frame compares the identifier with the latest.    *)
Accepts(f) == f.tid = (tid + TidMod - 1) % TidMod

(* An answer arrives.  It is valid if modbus_rtu_validate_response finds   *)
(* that it fits the latest request; an exception of the slave is not.      *)
Receive(f, valid) ==
  /\ Up
  /\ LET air == flights \ {f}
     IN  \/ /\ Accepts(f) /\ valid
            /\ taken' = f.age
            /\ WaitsForNext(air) \/ AsksForNext(air)
         \/ /\ ~(Accepts(f) /\ valid)
            /\ taken' = NoAnswer /\ flights' = air
            /\ UNCHANGED <<link, attempt, current, transaction, wait, tid,
                           asked>>

(* Mutant: the entry that was not answered is asked for again.             *)
TransactionTimeoutRetries ==
  /\ transaction
  /\ Asks(current, wait, Up, flights)
  /\ taken' = NoAnswer

(* modbus_master_transaction_timeout.  No delay is left then, unless it    *)
(* exceeds the timeout.                                                    *)
TransactionTimeout ==
  /\ transaction
  /\ \/ AsksForNext(flights)
     \/ DelayExceedsTimeout /\ WaitsForNext(flights)
  /\ taken' = NoAnswer

(* modbus_master_wait_timeout                                              *)
WaitTimeout ==
  /\ wait
  /\ Asks(current, FALSE, Up, flights)
  /\ taken' = NoAnswer

Next ==
  \/ ConnectSucceeds \/ ConnectFails \/ Retry \/ ConnectionLost
  \/ \E f \in flights, valid \in BOOLEAN : Receive(f, valid)
  \/ TransactionTimeout \/ WaitTimeout

Spec == Init /\ [][Next]_vars

(* Timers expire.                                                          *)
Fairness == WF_vars(TransactionTimeout) /\ WF_vars(WaitTimeout)
LiveSpec == Spec /\ Fairness
-----------------------------------------------------------------------------
TypeOK ==
  /\ link \in {"connecting", "connected"}
  /\ attempt \in {"none", "in_progress", "wait"}
  /\ current \in 0 .. N - 1
  /\ transaction \in BOOLEAN /\ wait \in BOOLEAN /\ asked \in BOOLEAN
  /\ tid \in 0 .. TidMod - 1
  /\ flights \subseteq [tid : 0 .. TidMod - 1, age : 0 .. MaxAge]
  /\ taken \in 0 .. MaxAge \cup {NoAnswer}

(***************************************************************************)
(* An answer is used only as the answer to the latest request, however     *)
(* late it comes: the registers it is decoded into are those of that       *)
(* request.  The transaction identifiers see to it, as long as fewer       *)
(* requests than there are identifiers are unanswered.                     *)
(***************************************************************************)
AnswersAreCurrent == taken \in {0, NoAnswer}

(***************************************************************************)
(* The master never falls asleep: a connection is polled by one of the     *)
(* timers, and without one the connector is at work.                       *)
(***************************************************************************)
KeepsPolling == IF Up THEN transaction \/ wait ELSE attempt # "none"

(***************************************************************************)
(* At most one of the two timers runs, also across reconnections, so that  *)
(* there are never two requests where the schedule has one, as long as the *)
(* delay does not exceed the timeout.                                      *)
(***************************************************************************)
OneTimer == ~(transaction /\ wait)

(***************************************************************************)
(* On a connection, every entry of the schedule is asked for before the    *)
(* next one is, as long as the delay does not exceed the timeout.          *)
(***************************************************************************)
NoEntrySkipped ==
  [][ Up /\ link' = "connected" /\ current' # current
        => asked /\ current' = NextEntry ]_vars

(***************************************************************************)
(* A connection that lasts is polled for every entry again and again,      *)
(* whether the slave answers or not.                                       *)
(***************************************************************************)
ScheduleGoesRound ==
  \A e \in 0 .. N - 1 : <>[]Up => []<>(current = e /\ asked)
=============================================================================
