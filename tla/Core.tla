-------------------------------- MODULE Core --------------------------------
(***************************************************************************)
(* The channels of src/core/channel.c and channel_manager.c and the alarms *)
(* that watch them, as the server's threads drive them:                    *)
(*   - the app_core thread scans the input channels, runs the application  *)
(*     and scans the output channels, again and again (core_driver.c);     *)
(*   - the Modbus threads leave raw values in the channels (set_raw_value) *)
(*     and fetch the raw values of the outputs;                            *)
(*   - the web server's thread (webserver_driver.c) sets engineering       *)
(*     values; it and the main thread, which serves the command line,      *)
(*     change channel configurations.                                      *)
(* The channel lock is a variable, since the scan keeps it across several  *)
(* steps; set_eng_value notifies the alarms after it has let go of it.     *)
(* The alarm manager's lock is taken and released within one step each     *)
(* time (__on_channel_update), so it is not a variable.                    *)
(***************************************************************************)
EXTENDS AlarmMachine, FiniteSets

CONSTANTS
  Inputs, Outputs, Virtuals,   (* the channels, by direction               *)
  Bound,                       (* the channels bound to an application     *)
                               (* variable (io_var)                        *)
  Writable,                    (* the channels a Modbus register writes to *)
  Raws, Engs,                  (* raw and engineering values               *)
  EngOf,                       (* conversion of a raw value                *)
  RawOf,                       (* and of an engineering value              *)
  InitValue,                   (* init_value of the configuration          *)
  Alarms, Watches,             (* the alarms and the channel of each       *)
  AlarmConfig,                 (* trigger, set point and delay of each     *)
  MaxElapsed                   (* cap on the elapsed times told apart      *)

Channels == Inputs \cup Outputs \cup Virtuals

ASSUME CoreAssumption ==
  /\ Inputs \cap Outputs = {} /\ (Inputs \cup Outputs) \cap Virtuals = {}
  /\ Bound \subseteq Channels /\ Writable \subseteq Channels
  /\ Raws \subseteq Int /\ Engs \subseteq Int /\ 0 \in Raws \cap Engs
  /\ EngOf \in [Raws -> Engs] /\ RawOf \in [Engs -> Raws]
  /\ InitValue \in [Channels -> Engs]
  /\ Watches \in [Alarms -> Channels]
  /\ MaxElapsed \in Nat
  /\ AlarmConfig \in [Alarms -> [trigger : Triggers, set_point : Engs,
                                 delay : 0 .. MaxElapsed]]

VARIABLES
  chnl,        (* the channel_t of each channel, with its io variable      *)
  alarm,       (* the alarm_t of each alarm                                *)
  chnl_lock,   (* holder of _chnl_mgr_lock: "none" or "core"               *)
  core,        (* where the app_core thread stands                         *)
  web,         (* the notification the web thread still has to give        *)
  consumed     (* history: the channels whose value the scan took from a   *)
               (* raw value, with no engineering value set since           *)

vars == <<chnl, alarm, chnl_lock, core, web, consumed>>

Watchers(c) == {a \in Alarms : Watches[a] = c}

(* channel_set_eng_value: steps 1 to 3.  Values are taken to be ones that  *)
(* their io variable can hold: an integer variable would cut them short.   *)
SetEng(ch, v) ==
  [ch EXCEPT !.eng = v, !.raw = RawOf[v], !.io_var = IF ch.bound THEN v ELSE @]

(* channel_update_input.                                                   *)
FromRaw(ch) ==
  [ch EXCEPT !.eng = EngOf[ch.raw], !.io_var = IF ch.bound THEN EngOf[ch.raw] ELSE @]

(* Mutant: the scan of an output does not hand the raw value to Modbus.    *)
ToRawNotQueued(ch) ==
  LET v == IF ch.bound THEN ch.io_var ELSE ch.eng
  IN  [ch EXCEPT !.eng = v, !.raw = RawOf[v]]

(* channel_update_output, and the raw value handed to Modbus.              *)
ToRaw(ch) ==
  LET v == IF ch.bound THEN ch.io_var ELSE ch.eng
  IN  [ch EXCEPT !.eng = v, !.raw = RawOf[v], !.raw_value_queued = RawOf[v]]

(***************************************************************************)
(* core_driver_init has loaded the channels and the alarms, given every    *)
(* channel its init_value and bound the io variables before any thread     *)
(* runs.  No raw value is queued yet, for the outputs neither.             *)
(***************************************************************************)
Init ==
  /\ chnl = [c \in Channels |->
       [eng |-> InitValue[c], raw |-> RawOf[InitValue[c]], raw_value_queued |-> 0,
        raw_value_avail |-> FALSE, io_var |-> InitValue[c], bound |-> c \in Bound]]
  /\ alarm = [a \in Alarms |->
       NewAlarm(AlarmConfig[a].trigger, AlarmConfig[a].set_point,
                AlarmConfig[a].delay, MaxElapsed)]
  /\ chnl_lock = "none"
  /\ core = [pc |-> "next", scan |-> "input", todo |-> Inputs, at |-> {},
             notify |-> {}, eng_v |-> 0]
  /\ web = [notify |-> {}, eng_v |-> 0]
  /\ consumed = {}
-----------------------------------------------------------------------------
(* The app_core thread: app_core_udpate in core_driver.c.                  *)

(* The scan turns to channel c, with the lock taken.                       *)
Turn(scan, c) ==
  /\ core.pc = "next" /\ core.scan = scan /\ c \in core.todo
  /\ chnl_lock = "none"
  /\ chnl_lock' = "core"

(* The observers of c are next, and they are given the value v.            *)
ToNotify(c, v) ==
  core' = [core EXCEPT !.pc = "notify", !.todo = @ \ {c}, !.at = {c},
                       !.notify = Watchers(c), !.eng_v = v]

(* Mutant: only an input with a new raw value is passed on to the alarms.  *)
InputTurnOnlyNew(c) ==
  /\ Turn("input", c)
  /\ IF chnl[c].raw_value_avail
     THEN /\ chnl' = [chnl EXCEPT ![c].raw = chnl[c].raw_value_queued]
          /\ core' = [core EXCEPT !.pc = "convert", !.at = {c}]
     ELSE /\ core' = [core EXCEPT !.pc = "notify", !.todo = @ \ {c}, !.at = {c}]
          /\ UNCHANGED chnl
  /\ UNCHANGED <<alarm, web, consumed>>

(* channel_manager_update_input, one turn: a raw value that came in since  *)
(* the last scan is taken; without one the value stays as it is.           *)
InputTurn(c) ==
  /\ Turn("input", c)
  /\ IF chnl[c].raw_value_avail
     THEN /\ chnl' = [chnl EXCEPT ![c].raw = chnl[c].raw_value_queued]
          /\ core' = [core EXCEPT !.pc = "convert", !.at = {c}]
     ELSE /\ ToNotify(c, chnl[c].eng)
          /\ UNCHANGED chnl
  /\ UNCHANGED <<alarm, web, consumed>>

(* The raw value taken is converted, and the queue marked empty.           *)
InputConvert(c) ==
  /\ core.pc = "convert" /\ c \in core.at
  /\ chnl' = [chnl EXCEPT ![c] = [FromRaw(@) EXCEPT !.raw_value_avail = FALSE]]
  /\ ToNotify(c, EngOf[chnl[c].raw])
  /\ consumed' = consumed \cup {c}
  /\ UNCHANGED <<alarm, chnl_lock, web>>

(* channel_manager_update_output, one turn.                                *)
OutputTurn(c) ==
  /\ Turn("output", c)
  /\ chnl' = [chnl EXCEPT ![c] = ToRaw(@)]
  /\ ToNotify(c, ToRaw(chnl[c]).eng)
  /\ UNCHANGED <<alarm, web, consumed>>

(* publisher_exec_notify under the channel lock: alarm a sees the value.   *)
CoreNotify(a) ==
  /\ core.pc = "notify" /\ a \in core.notify
  /\ alarm' = [alarm EXCEPT ![a] = AlarmUpdate(@, core.eng_v)]
  /\ core' = [core EXCEPT !.notify = @ \ {a}]
  /\ UNCHANGED <<chnl, chnl_lock, web, consumed>>

(* Every observer was notified: the lock is released.                      *)
EndTurn ==
  /\ core.pc = "notify" /\ core.notify = {}
  /\ chnl_lock' = "none"
  /\ core' = [core EXCEPT !.pc = "next", !.at = {}]
  /\ UNCHANGED <<chnl, alarm, web, consumed>>

(* app_run: the application drives the outputs it is bound to, without the *)
(* lock.  What it writes is its own business: any value, or nothing.       *)
AppRun ==
  /\ core.pc = "next" /\ core.scan = "input" /\ core.todo = {}
  /\ \/ UNCHANGED chnl
     \/ \E c \in Outputs \cap Bound, v \in Engs :
          chnl' = [chnl EXCEPT ![c].io_var = v]
  /\ core' = [core EXCEPT !.scan = "output", !.todo = Outputs]
  /\ UNCHANGED <<alarm, chnl_lock, web, consumed>>

(* The scan is over and the update timer starts the next one.              *)
NextScan ==
  /\ core.pc = "next" /\ core.scan = "output" /\ core.todo = {}
  /\ core' = [core EXCEPT !.scan = "input", !.todo = Inputs]
  /\ UNCHANGED <<chnl, alarm, chnl_lock, web, consumed>>

CoreThread ==
  \/ \E c \in Inputs : InputTurn(c) \/ InputConvert(c)
  \/ \E c \in Outputs : OutputTurn(c)
  \/ \E a \in Alarms : CoreNotify(a)
  \/ EndTurn \/ AppRun \/ NextScan
-----------------------------------------------------------------------------
(* The Modbus threads.                                                     *)

(* Mutant: the lock is not taken.                                          *)
SetRawValueUnlocked(c, r) ==
  /\ chnl' = [chnl EXCEPT ![c].raw_value_queued = r, ![c].raw_value_avail = TRUE]
  /\ UNCHANGED <<alarm, chnl_lock, core, web, consumed>>

(* channel_manager_set_raw_value, for a register that came in.             *)
SetRawValue(c, r) ==
  /\ chnl_lock = "none"
  /\ chnl' = [chnl EXCEPT ![c].raw_value_queued = r, ![c].raw_value_avail = TRUE]
  /\ UNCHANGED <<alarm, chnl_lock, core, web, consumed>>
-----------------------------------------------------------------------------
(* The web server's thread (webserver_api.c).                              *)

WebIdle == web.notify = {}

(* Mutant: setting a value drops the raw value that is still queued.       *)
SetEngValueDropsQueued(c, v) ==
  /\ WebIdle /\ chnl_lock = "none"
  /\ chnl' = [chnl EXCEPT ![c] = [SetEng(@, v) EXCEPT !.raw_value_avail = FALSE]]
  /\ web' = [notify |-> Watchers(c), eng_v |-> v]
  /\ consumed' = consumed \ {c}
  /\ UNCHANGED <<alarm, chnl_lock, core>>

(* channel_manager_set_eng_value up to the release of the lock.            *)
SetEngValue(c, v) ==
  /\ WebIdle /\ chnl_lock = "none"
  /\ chnl' = [chnl EXCEPT ![c] = SetEng(@, v)]
  /\ web' = [notify |-> Watchers(c), eng_v |-> v]
  /\ consumed' = consumed \ {c}
  /\ UNCHANGED <<alarm, chnl_lock, core>>

(* Its last line: the observers are notified without the channel lock, of  *)
(* the value that was copied under the lock, whatever happened since.      *)
WebNotify(a) ==
  /\ a \in web.notify
  /\ alarm' = [alarm EXCEPT ![a] = AlarmUpdate(@, web.eng_v)]
  /\ web' = [web EXCEPT !.notify = @ \ {a}]
  /\ UNCHANGED <<chnl, chnl_lock, core, consumed>>

(* channel_manager_update_channel_config: the new init_value becomes the   *)
(* value of the running channel at once, and no observer is told.  The web *)
(* thread does it, or the main thread in between, for the command line.    *)
UpdateChannelConfig(c, v) ==
  /\ chnl_lock = "none"
  /\ chnl' = [chnl EXCEPT ![c] = SetEng(@, v)]
  /\ consumed' = consumed \ {c}
  /\ UNCHANGED <<alarm, chnl_lock, core, web>>
-----------------------------------------------------------------------------
Tick ==
  /\ alarm' = [a \in Alarms |-> Age(alarm[a], MaxElapsed)]
  /\ UNCHANGED <<chnl, chnl_lock, core, web, consumed>>

Next ==
  \/ CoreThread
  \/ \E c \in Writable, r \in Raws : SetRawValue(c, r)
  \/ \E c \in Channels, v \in Engs : SetEngValue(c, v)
  \/ \E c \in Channels, v \in Engs : UpdateChannelConfig(c, v)
  \/ \E a \in Alarms : WebNotify(a)
  \/ Tick

Spec == Init /\ [][Next]_vars

(* The app_core thread restarts its update timer at the end of every scan, *)
(* and the web thread finishes a call it began.   Nothing forces anyone to *)
(* set a value.                                                            *)
Fairness ==
  /\ WF_vars(CoreThread)
  /\ WF_vars(\E a \in Alarms : WebNotify(a))
  /\ WF_vars(Tick)

FairSpec == Spec /\ Fairness
-----------------------------------------------------------------------------
ChannelRecord ==
  [eng : Engs, raw : Raws, raw_value_queued : Raws, raw_value_avail : BOOLEAN,
   io_var : Engs, bound : BOOLEAN]

AlarmRecord ==
  [state : AlarmStates, delay_state : DelayStates, trigger : Triggers,
   set_point : Engs, delay : 0 .. MaxElapsed, elapsed : 0 .. MaxElapsed,
   alarm_var : AlarmStates]

TypeOK ==
  /\ chnl \in [Channels -> ChannelRecord]
  /\ alarm \in [Alarms -> AlarmRecord]
  /\ chnl_lock \in {"none", "core"}
  /\ core \in [pc : {"next", "convert", "notify"}, scan : {"input", "output"},
               todo : SUBSET Channels, at : SUBSET Channels,
               notify : SUBSET Alarms, eng_v : Engs]
  /\ web \in [notify : SUBSET Alarms, eng_v : Engs]
  /\ consumed \subseteq Inputs

(***************************************************************************)
(* The hand-over of raw values from the Modbus threads to the scan loses   *)
(* none: an input that the scan took its value from, with no value set by  *)
(* hand since and nothing queued, shows the newest raw value that was      *)
(* left for it, converted, and so does its application variable.           *)
(***************************************************************************)
InputShowsNewestRaw ==
  \A c \in Inputs :
    c \in consumed /\ ~chnl[c].raw_value_avail =>
      /\ chnl[c].raw = chnl[c].raw_value_queued
      /\ chnl[c].eng = EngOf[chnl[c].raw]
      /\ c \in Bound => chnl[c].io_var = chnl[c].eng

(***************************************************************************)
(* While the scan notifies the alarms of a channel it holds the lock, so   *)
(* that what it passes on is the value the channel has.                    *)
(***************************************************************************)
ScanNotifiesCurrentValue ==
  core.pc = "notify" =>
    /\ chnl_lock = "core"
    /\ \A c \in core.at : chnl[c].eng = core.eng_v

(***************************************************************************)
(* The queue of a channel is marked empty by the scan alone, and only when *)
(* the value in it has been taken and converted: no raw value is dropped   *)
(* between taking and converting, whoever leaves values or sets one by     *)
(* hand meanwhile.                                                         *)
(***************************************************************************)
RawValuesAreTaken ==
  [][\A c \in Channels :
       chnl[c].raw_value_avail /\ ~chnl'[c].raw_value_avail =>
         /\ c \in core.at
         /\ chnl'[c].raw = chnl[c].raw_value_queued
         /\ chnl'[c].eng = EngOf[chnl[c].raw_value_queued]]_vars

(***************************************************************************)
(* A raw value left for an input reaches it at a later scan, unless a      *)
(* newer one replaces it, even when the value is also set by hand.         *)
(***************************************************************************)
RawValueArrives ==
  \A c \in Inputs, r \in Raws :
    (chnl[c].raw_value_avail /\ chnl[c].raw_value_queued = r)
      ~> (chnl[c].eng = EngOf[r] \/ chnl[c].raw_value_queued # r)

(***************************************************************************)
(* An output that keeps its value is read back by Modbus as that value,    *)
(* whoever set it: the application, the web API or a new configuration.    *)
(***************************************************************************)
OutputReachesModbus ==
  \A c \in Outputs \ Writable, v \in Engs :
    <>[](chnl[c].eng = v) => <>[](chnl[c].raw_value_queued = RawOf[v])

(***************************************************************************)
(* An alarm follows the channel it watches: once the channel's value shows *)
(* a condition for good, the alarm is raised, or not, accordingly for      *)
(* good, although the web thread may notify it of an outdated value after  *)
(* the scan notified it of a newer one.                                    *)
(***************************************************************************)
Follows(a) ==
  \A ev \in Conditions :
    <>[](Condition(alarm[a], chnl[Watches[a]].eng) = ev)
      => <>[](Raised(alarm[a].state) <=> ev = "occur")

ScannedAlarmsFollow ==
  \A a \in Alarms : Watches[a] \in Inputs \cup Outputs => Follows(a)
=============================================================================
