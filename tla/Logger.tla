------------------------------- MODULE Logger -------------------------------
(***************************************************************************)
(* The logger, src/main/logger.c, and the threads that use it.  The core   *)
(* thread logs the traced channels in rounds (channel_manager_do_log).     *)
(* Alarm events are logged by the core thread's scan and by the threads    *)
(* where an alarm is acknowledged, the main thread (the command line) and  *)
(* the web server's thread.  The main thread and the web server's second   *)
(* thread, loggerif, also ask for a new set of traced channels and wait    *)
(* until the logger has dealt with it.  A request travels in a buffer of a *)
(* fixed pool, through a queue and an async signal, to the logger thread,  *)
(* which owns the connection to the database.                              *)
(*                                                                         *)
(* The database, src/main/logger_sql3_common.c, is what is on disk         *)
(* ("saved") and what the connection sees ("work"): they differ while a    *)
(* transaction is open.  Every operation says BEGIN, which fails unnoticed *)
(* inside an open transaction, and END, whose result is ignored too; an    *)
(* operation that fails returns before END and never rolls back.           *)
(* Of the alarms, one is followed, whose events are numbered.              *)
(***************************************************************************)
EXTENDS Naturals, Sequences, FiniteSets

CONSTANTS
  Reporters,     (* the threads that log alarm events, "core" among them   *)
  Requesters,    (* the threads that ask for a new set of traced channels  *)
  Buffers,       (* the request pool: LOGGER_REQUEST_SIZE, 1024, buffers   *)
  Channels,      (* the channels                                           *)
  TraceSets,     (* the sets of channels that may be asked for             *)
  Failures,      (* what may go wrong: "commit", "statement", "memory"     *)
  None,          (* no buffer: NULL                                        *)
  MaxEvents      (* bound on the number of alarm events                    *)

ASSUME LoggerAssumption ==
  /\ "core" \in Reporters /\ "core" \notin Requesters
  /\ "logger" \notin Reporters \cup Requesters
  /\ None \notin Buffers
  /\ TraceSets \subseteq SUBSET Channels
  /\ Failures \subseteq {"commit", "statement", "memory"}
  /\ MaxEvents \in Nat

VARIABLES
  pool,        (* the free buffers                                         *)
  req,         (* the request in each buffer                               *)
  queue,       (* the buffers in the thread queue                          *)
  batch,       (* the buffers the logger took from it: tmp_list            *)
  signalled,   (* the async signal: sent, and not noticed yet              *)
  at,          (* where each thread is                                     *)
  hand,        (* the buffer each thread has in its hands                  *)
  round,       (* the traced channels the core's round has yet to log      *)
  locked,      (* does the core thread hold the trace lock?                *)
  wanted,      (* the set each requester asks for, if any: {} or {s}       *)
  posted,      (* the completion each requester waits for                  *)
  trace,       (* the traced channels as the channel manager knows them    *)
  traced,      (* and as the logger knows them                             *)
  saved, work, (* the database                                             *)
  events       (* history: the number of alarm events                      *)

lists   == <<queue, batch>>
tracing == <<trace, traced>>
db      == <<saved, work>>
client  == <<round, locked, wanted>>
vars == <<pool, req, lists, signalled, at, hand, client, posted, tracing, db,
          events>>

Callers == Reporters \cup Requesters
Threads == Callers \cup {"logger"}

ChannelRequest(c) == [kind |-> "channel", channel |-> c]
AlarmRequest(n)   == [kind |-> "alarm", event |-> n]
SetRequest(t, s)  == [kind |-> "set", channels |-> s, from |-> t]

(* logger_init has loaded the traced channels, and all threads run.        *)
Init ==
  /\ pool = Buffers /\ hand = [t \in Threads |-> None]
  /\ req = [b \in Buffers |-> AlarmRequest(0)]
  /\ queue = <<>> /\ batch = <<>> /\ signalled = FALSE
  /\ at = [t \in Threads |-> "idle"]
  /\ round = {} /\ locked = FALSE
  /\ wanted = [t \in Requesters |-> {}] /\ posted = [t \in Requesters |-> FALSE]
  /\ trace \in TraceSets /\ traced = trace
  /\ saved = [trace |-> trace, rows |-> {}, alarms |-> <<>>] /\ work = saved
  /\ events = 0

Goes(t, place) == at' = [at EXCEPT ![t] = place]
-----------------------------------------------------------------------------
(* logger_req_buffer_pool_get, and the request is written into the buffer. *)
Take(t, r) ==
  \E b \in pool :
    /\ pool' = pool \ {b}
    /\ req' = [req EXCEPT ![b] = r]
    /\ hand' = [hand EXCEPT ![t] = b]
    /\ Goes(t, "add")

(* Mutant: the result is not compared with NULL.                           *)
TakeUnchecked(t, r) ==
  \/ Take(t, r)
  \/ pool = {} /\ Goes(t, "add") /\ UNCHANGED <<pool, req, hand>>

(* Nothing is logged when no buffer is free.                               *)
TakeOrDrop(t, r) ==
  \/ Take(t, r)
  \/ pool = {} /\ UNCHANGED <<pool, req, hand, at>>

(* Mutant: the alarm is not locked.                                        *)
AlarmNotLocked == FALSE

(* handle_alarm_event calls logger_alarm_log with the alarm locked, so     *)
(* that no two threads log events of one alarm at the same time.           *)
AlarmLocked ==
  \E u \in Callers : hand[u] \in {b \in Buffers : req[b].kind = "alarm"}

(* logger_alarm_log, called by the scan of the core thread or by an        *)
(* acknowledgement in another thread.                                      *)
LogAlarm(t) ==
  /\ at[t] = "idle" /\ ~AlarmLocked /\ events < MaxEvents
  /\ events' = events + 1
  /\ TakeOrDrop(t, AlarmRequest(events'))
  /\ UNCHANGED <<lists, signalled, client, posted, tracing, db>>

(* channel_manager_do_log takes the trace lock for the whole round.        *)
StartRound ==
  /\ at["core"] = "idle"
  /\ locked' = TRUE /\ round' = trace
  /\ Goes("core", "round")
  /\ UNCHANGED <<pool, req, lists, signalled, hand, wanted, posted, tracing,
                 db, events>>

(* logger_signal_log for the next channel of the round.                    *)
LogChannel ==
  /\ at["core"] = "round"
  /\ \E c \in round :
       /\ round' = round \ {c}
       /\ TakeOrDrop("core", ChannelRequest(c))
  /\ UNCHANGED <<lists, signalled, locked, wanted, posted, tracing, db,
                 events>>

EndRound ==
  /\ at["core"] = "round" /\ round = {}
  /\ locked' = FALSE
  /\ Goes("core", "idle")
  /\ UNCHANGED <<pool, req, lists, signalled, hand, round, wanted, posted,
                 tracing, db, events>>

(* logger_signal_trace_set_chnls.  When no buffer is free it returns at    *)
(* once, and its callers cannot tell.                                      *)
RequestSet(t, s) ==
  /\ at[t] = "idle"
  /\ wanted' = [wanted EXCEPT ![t] = {s}]
  /\ Take(t, SetRequest(t, s))
  /\ UNCHANGED <<lists, signalled, round, locked, posted, tracing, db, events>>

(* thread_queue_add                                                        *)
Add(t) ==
  /\ at[t] = "add"
  /\ queue' = Append(queue, hand[t])
  /\ hand' = [hand EXCEPT ![t] = None]
  /\ Goes(t, "send")
  /\ UNCHANGED <<pool, req, batch, signalled, client, posted, tracing, db,
                 events>>

(* Where the caller goes on after ev_async_send.                           *)
Back(t) ==
  IF t = "core" THEN IF locked THEN "round" ELSE "idle"
  ELSE IF t \in Requesters THEN IF wanted[t] # {} THEN "wait" ELSE "idle"
  ELSE "idle"

(* Mutant: the logger is told only of the first request in the queue.      *)
SendOnlyFirst(t) ==
  /\ at[t] = "send"
  /\ signalled' = (signalled \/ Len(queue) = 1)
  /\ Goes(t, Back(t))
  /\ UNCHANGED <<pool, req, lists, hand, client, posted, tracing, db, events>>

(* ev_async_send                                                           *)
Send(t) ==
  /\ at[t] = "send"
  /\ signalled' = TRUE
  /\ Goes(t, Back(t))
  /\ UNCHANGED <<pool, req, lists, hand, client, posted, tracing, db, events>>

(* completion_wait returns, and so does logger_signal_trace_set_chnls.     *)
Released(t) ==
  /\ at[t] = "wait" /\ posted[t]
  /\ posted' = [posted EXCEPT ![t] = FALSE]
  /\ wanted' = [wanted EXCEPT ![t] = {}]
  /\ Goes(t, "idle")
  /\ UNCHANGED <<pool, req, lists, signalled, hand, round, locked, tracing,
                 db, events>>
-----------------------------------------------------------------------------
(* The database executes an operation that leads to w, up to its END.      *)
Executes(w) ==
  /\ work' = w
  /\ saved' = w \/ ("commit" \in Failures /\ saved' = saved)

(* An operation that got as far as w fails.  The database may roll back on *)
(* its own account; the code does not.                                     *)
FailsAt(w) ==
  /\ "statement" \in Failures
  /\ work' \in {w, saved}
  /\ UNCHANGED saved

(* The loop notices the signal and calls logger_req_q_noti_callback ...    *)
Wake ==
  /\ at["logger"] = "idle" /\ signalled
  /\ signalled' = FALSE
  /\ Goes("logger", "cut")
  /\ UNCHANGED <<pool, req, lists, hand, client, posted, tracing, db, events>>

(* ... which takes everything that is in the queue ...                     *)
Cut ==
  /\ at["logger"] = "cut"
  /\ batch' = queue /\ queue' = <<>>
  /\ Goes("logger", "next")
  /\ UNCHANGED <<pool, req, signalled, hand, client, posted, tracing, db,
                 events>>

(* ... and handles one request after the other.                            *)
NextRequest ==
  /\ at["logger"] = "next" /\ batch # <<>>
  /\ hand' = [hand EXCEPT !["logger"] = Head(batch)]
  /\ batch' = Tail(batch)
  /\ Goes("logger", req[Head(batch)].kind)
  /\ UNCHANGED <<pool, req, queue, signalled, client, posted, tracing, db,
                 events>>

BatchDone ==
  /\ at["logger"] = "next" /\ batch = <<>>
  /\ Goes("logger", "idle")
  /\ UNCHANGED <<pool, req, lists, signalled, hand, client, posted, tracing,
                 db, events>>

InHand == req[hand["logger"]]

(* logger_alarm_log_req_handler: logger_db_insert_alarm                    *)
HandleAlarm ==
  /\ at["logger"] = "alarm"
  /\ \/ Executes([work EXCEPT !.alarms = Append(@, InHand.event)])
     \/ FailsAt(work)
  /\ Goes("logger", "put")
  /\ UNCHANGED <<pool, req, lists, signalled, hand, client, posted, tracing,
                 events>>

(* Mutant: the check whether the channel is still traced is left out.      *)
HandleChannelUnchecked ==
  /\ at["logger"] = "channel"
  /\ \/ Executes([work EXCEPT !.rows = @ \cup {InHand.channel}])
     \/ FailsAt(work)
  /\ Goes("logger", "put")
  /\ UNCHANGED <<pool, req, lists, signalled, hand, client, posted, tracing,
                 events>>

(* logger_chnl_log_req_handler: a channel that is not traced any more is   *)
(* skipped, logger_db_insert_chnl for the others.                          *)
HandleChannel ==
  /\ at["logger"] = "channel"
  /\ \/ InHand.channel \notin traced /\ UNCHANGED db
     \/ /\ InHand.channel \in traced
        /\ \/ Executes([work EXCEPT !.rows = @ \cup {InHand.channel}])
           \/ FailsAt(work)
  /\ Goes("logger", "put")
  /\ UNCHANGED <<pool, req, lists, signalled, hand, client, posted, tracing,
                 events>>

(* Mutant: a failure is not reported to the waiting thread.                *)
HandleSetSilently ==
  /\ at["logger"] = "set"
  /\ LET s == InHand.channels
     IN  \/ /\ Executes([work EXCEPT !.trace = s, !.rows = {}])
            /\ Goes("logger", "publish")
         \/ /\ \/ FailsAt(work)
               \/ \E done \in SUBSET s : FailsAt([work EXCEPT !.trace = done])
            /\ Goes("logger", "put")
  /\ UNCHANGED <<pool, req, lists, signalled, hand, client, posted, tracing,
                 events>>

(* logger_signal_trace_set_chnls_handler: logger_db_set_trace_channels     *)
(* deletes the old set, inserts the new one and deletes all rows of        *)
(* channel_log; any of this may fail.                                      *)
HandleSet ==
  /\ at["logger"] = "set"
  /\ LET s == InHand.channels
     IN  \/ /\ Executes([work EXCEPT !.trace = s, !.rows = {}])
            /\ Goes("logger", "publish")
         \/ /\ \/ FailsAt(work)
               \/ \E done \in SUBSET s : FailsAt([work EXCEPT !.trace = done])
            /\ Goes("logger", "signal")
  /\ UNCHANGED <<pool, req, lists, signalled, hand, client, posted, tracing,
                 events>>

(* Mutant: the waiting thread is told before the copy is made.             *)
PublishAndSignal ==
  /\ at["logger"] = "publish" /\ ~locked
  /\ trace' = InHand.channels
  /\ posted' = [posted EXCEPT ![InHand.from] = TRUE]
  /\ Goes("logger", "copy")
  /\ UNCHANGED <<pool, req, lists, signalled, hand, client, traced, db, events>>

(* channel_manager_set_trace_channels                                      *)
Publish ==
  /\ at["logger"] = "publish" /\ ~locked
  /\ trace' = InHand.channels \/ ("memory" \in Failures /\ trace' = trace)
  /\ Goes("logger", "copy")
  /\ UNCHANGED <<pool, req, lists, signalled, hand, client, posted, traced,
                 db, events>>

(* The logger's own copy of the set.                                       *)
Copy ==
  /\ at["logger"] = "copy"
  /\ traced' = InHand.channels \/ ("memory" \in Failures /\ traced' = {})
  /\ Goes("logger", "signal")
  /\ UNCHANGED <<pool, req, lists, signalled, hand, client, posted, trace, db,
                 events>>

(* completion_signal                                                       *)
Signal ==
  /\ at["logger"] = "signal"
  /\ posted' = [posted EXCEPT ![InHand.from] = TRUE]
  /\ Goes("logger", "put")
  /\ UNCHANGED <<pool, req, lists, signalled, hand, client, tracing, db, events>>

(* Mutant: the buffer is returned before the thread has let go of it.      *)
PutBackHeld ==
  /\ at["logger"] = "put"
  /\ pool' = pool \cup {hand["logger"]}
  /\ Goes("logger", "next")
  /\ UNCHANGED <<req, lists, signalled, hand, client, posted, tracing, db,
                 events>>

(* logger_req_buffer_pool_put.  What is in a free buffer does not matter.  *)
PutBack ==
  /\ at["logger"] = "put"
  /\ pool' = pool \cup {hand["logger"]}
  /\ req' = [req EXCEPT ![hand["logger"]] = AlarmRequest(0)]
  /\ hand' = [hand EXCEPT !["logger"] = None]
  /\ Goes("logger", "next")
  /\ UNCHANGED <<lists, signalled, client, posted, tracing, db, events>>

(* logger_do_cleanup deletes old rows of the traced channels and old alarm *)
(* events.                                                                 *)
Cleanup ==
  /\ at["logger"] = "idle"
  /\ \E old \in SUBSET (work.rows \cap traced), k \in 0 .. Len(work.alarms) :
       LET w == [work EXCEPT !.rows = @ \ old,
                   !.alarms = SubSeq(@, k + 1, Len(@))]
       IN  Executes(w) \/ FailsAt(w)
  /\ UNCHANGED <<pool, req, lists, signalled, at, hand, client, posted,
                 tracing, events>>

(* The server stops at any moment and is started again: the traced         *)
(* channels are loaded from the database, and an open transaction is lost. *)
Restart ==
  /\ pool' = Buffers /\ hand' = [t \in Threads |-> None]
  /\ queue' = <<>> /\ batch' = <<>> /\ signalled' = FALSE
  /\ at' = [t \in Threads |-> "idle"]
  /\ round' = {} /\ locked' = FALSE
  /\ wanted' = [t \in Requesters |-> {}]
  /\ posted' = [t \in Requesters |-> FALSE]
  /\ trace' = saved.trace /\ traced' = saved.trace
  /\ req' = [b \in Buffers |-> AlarmRequest(0)] /\ work' = saved
  /\ UNCHANGED <<saved, events>>
-----------------------------------------------------------------------------
CallerStep(t) == Add(t) \/ Send(t)

LoggerStep ==
  \/ Wake \/ Cut \/ NextRequest \/ BatchDone
  \/ HandleAlarm \/ HandleChannel \/ HandleSet
  \/ Publish \/ Copy \/ Signal \/ PutBack

Next ==
  \/ \E t \in Reporters : LogAlarm(t)
  \/ \E t \in Callers : CallerStep(t)
  \/ StartRound \/ LogChannel \/ EndRound
  \/ \E t \in Requesters : Released(t) \/ \E s \in TraceSets : RequestSet(t, s)
  \/ LoggerStep
  \/ Cleanup
  \/ Restart

(* Every thread goes on with what it has begun.  The core thread leaves    *)
(* the trace lock alone between two ticks of the logging timer, so that    *)
(* the logger gets it.                                                     *)
Fairness ==
  /\ \A t \in Callers : WF_vars(CallerStep(t))
  /\ WF_vars(LogChannel \/ EndRound)
  /\ \A t \in Requesters : WF_vars(Released(t))
  /\ WF_vars(LoggerStep) /\ SF_vars(Publish)

Spec == Init /\ [][Next]_vars
LiveSpec == Spec /\ Fairness
-----------------------------------------------------------------------------
Requests == {ChannelRequest(c) : c \in Channels}
              \cup {AlarmRequest(n) : n \in 0 .. MaxEvents}
              \cup {SetRequest(t, s) : t \in Requesters, s \in TraceSets}

Databases == [trace : SUBSET Channels, rows : SUBSET Channels,
              alarms : Seq(0 .. MaxEvents)]

TypeOK ==
  /\ pool \subseteq Buffers
  /\ req \in [Buffers -> Requests]
  /\ queue \in Seq(Buffers) /\ batch \in Seq(Buffers)
  /\ signalled \in BOOLEAN /\ locked \in BOOLEAN
  /\ wanted \in [Requesters -> SUBSET TraceSets]
  /\ posted \in [Requesters -> BOOLEAN]
  /\ at \in [Threads -> {"idle", "round", "add", "send", "wait", "cut", "next",
                         "alarm", "channel", "set", "publish", "copy",
                         "signal", "put"}]
  /\ hand \in [Threads -> Buffers \cup {None}]
  /\ round \subseteq Channels
  /\ trace \subseteq Channels /\ traced \subseteq Channels
  /\ saved \in Databases /\ work \in Databases
  /\ events \in 0 .. MaxEvents

(***************************************************************************)
(* No buffer is lost and none is used twice: each is free, or in the hands *)
(* of one thread, or once in one of the two lists.                         *)
(***************************************************************************)
Held == {hand[t] : t \in Threads} \ {None}
InList(list) == {list[i] : i \in 1 .. Len(list)}
NoRepeats(list) == \A i, j \in 1 .. Len(list) : list[i] = list[j] => i = j

EveryBufferInOnePlace ==
  /\ Buffers = pool \cup Held \cup InList(queue) \cup InList(batch)
  /\ pool \cap (Held \cup InList(queue) \cup InList(batch)) = {}
  /\ Held \cap (InList(queue) \cup InList(batch)) = {}
  /\ InList(queue) \cap InList(batch) = {}
  /\ NoRepeats(queue) /\ NoRepeats(batch)
  /\ \A t, u \in Threads : hand[t] = hand[u] /\ hand[t] # None => t = u

(***************************************************************************)
(* The database holds values of traced channels only (logger.c:200-205 and *)
(* logger_sql3_common.c, "delete all channel_logs that are not traced"),   *)
(* also in the middle of a transaction and after a restart: the rows of a  *)
(* channel that is not traced would never be cleaned up.                   *)
(***************************************************************************)
TracedRowsOnly ==
  /\ saved.rows \subseteq saved.trace
  /\ work.rows \subseteq work.trace

(***************************************************************************)
(* The events of an alarm are stored in the order in which they happened,  *)
(* whichever threads report them; events may be missing, when no buffer    *)
(* was free or the server was stopped.                                     *)
(***************************************************************************)
AlarmLogInOrder ==
  \A d \in {saved, work} :
    \A i, j \in 1 .. Len(d.alarms) : i < j => d.alarms[i] < d.alarms[j]

(***************************************************************************)
(* A requester is told that its set was taken over at a moment when it is  *)
(* in force everywhere: in the channel manager, in the logger and in the   *)
(* database.  (Another requester's set may follow before it goes on.)      *)
(***************************************************************************)
SetInForce ==
  [][\A t \in Requesters :
       posted'[t] /\ ~posted[t] => /\ wanted[t] = {traced'}
                                  /\ trace' = traced'
                                  /\ work'.trace = traced']_vars

(***************************************************************************)
(* The trace table is replaced as a whole: what is on disk is a set that   *)
(* somebody asked for ("step 1. clear channels", "step 2. add all new      *)
(* channels", logger_sql3_common.c).                                       *)
(***************************************************************************)
SetIsAllOrNothing == saved.trace \in TraceSets

(***************************************************************************)
(* Every request is served: a buffer that is taken returns to the pool.    *)
(* No signal is lost between the queue and the logger's loop.              *)
(***************************************************************************)
EveryRequestIsServed ==
  \A b \in Buffers : b \notin pool ~> b \in pool

(***************************************************************************)
(* No thread waits for ever for its new set, whatever fails.               *)
(***************************************************************************)
RequestersAreReleased ==
  \A t \in Requesters : at[t] = "wait" ~> at[t] = "idle"

(***************************************************************************)
(* Nobody waits for something that does not come, whatever fails: while    *)
(* there are requests in the queue the logger has been told of them or is  *)
(* about to be, it does not go idle on those it took, the trace lock is    *)
(* held by a core thread that goes on, and the request of every thread     *)
(* that waits is answered, in one of the lists or in the logger's hands.   *)
(***************************************************************************)
NobodyWaitsInVain ==
  /\ queue # <<>> =>
       signalled \/ at["logger"] = "cut" \/ \E t \in Callers : at[t] = "send"
  /\ batch # <<>> => at["logger"] \notin {"idle", "cut"}
  /\ locked => at["core"] \in {"round", "add", "send"}
  /\ \A t \in Requesters : at[t] = "wait" =>
       \/ posted[t]
       \/ \E b \in InList(queue) \cup InList(batch) :
            req[b].kind = "set" /\ req[b].from = t
       \/ at["logger"] \in {"set", "publish", "copy", "signal"} /\ InHand.from = t
=============================================================================
