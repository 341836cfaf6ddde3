----------------------------- MODULE CoreProofs -----------------------------
(***************************************************************************)
(* What holds of the channels and their scan for any number of channels    *)
(* and alarms, all conversions and all values.                             *)
(***************************************************************************)
EXTENDS Core, TLAPS

(* What an alarm becomes keeps the type of an alarm.                       *)
LEMMA UpdateKeepsType ==
  ASSUME NEW a \in AlarmRecord, NEW v
  PROVE  AlarmUpdate(a, v) \in AlarmRecord
<1> DEFINE ev == Condition(a, v)
<1>1. ev \in Conditions
  BY DEF Condition, Conditions
<1> HIDE DEF ev
<1>2. DelayStep(a, ev) \in AlarmRecord
  <2>1. Timing(ev) \in DelayStates /\ Settled(ev) \in DelayStates
    BY DEF Timing, Settled, DelayStates
  <2>2. [a EXCEPT !.delay_state = Settled(ev)] \in AlarmRecord
    BY <2>1 DEF AlarmRecord
  <2>3. Restart(a, ev) \in AlarmRecord
    <3>1. 0 \in 0 .. MaxElapsed
      BY CoreAssumption
    <3> QED BY <2>1, <3>1 DEF Restart, AlarmRecord
  <2>4. DelayStep(a, ev) \in {a, [a EXCEPT !.delay_state = Settled(ev)],
                              Restart(a, ev)}
    <3>1. Lasted(a, ev) \in BOOLEAN
      BY DEF Lasted
    <3> QED BY <3>1, Zenon DEF DelayStep
  <2> QED BY <2>2, <2>3, <2>4
<1>3. NextState(a.state, ev) \in AlarmStates
  BY <1>1 DEF AlarmRecord, AlarmStates, Conditions, NextState, OnOccur, OnClear,
              OnAck, Raised
<1>4. DelayStep(a, ev).state = a.state
  <2>1. DelayStep(a, ev) \in {a, [a EXCEPT !.delay_state = Settled(ev)],
                              Restart(a, ev)}
    BY Zenon DEF DelayStep
  <2> QED BY <2>1 DEF Restart, AlarmRecord
<1> QED
  BY <1>2, <1>3, <1>4 DEF AlarmUpdate, HandleStateMachine, HandleEvent, AlarmRecord, ev

LEMMA NotifyKeepsType ==
  ASSUME alarm \in [Alarms -> AlarmRecord], NEW a \in Alarms, NEW v,
         alarm' = [alarm EXCEPT ![a] = AlarmUpdate(@, v)]
  PROVE  alarm' \in [Alarms -> AlarmRecord]
  BY UpdateKeepsType

(* The three ways in which the value of a channel changes.                 *)
LEMMA SetEngFields ==
  ASSUME NEW ch \in ChannelRecord, NEW v \in Engs
  PROVE  /\ SetEng(ch, v) \in ChannelRecord
         /\ SetEng(ch, v).bound = ch.bound
  BY CoreAssumption DEF SetEng, ChannelRecord

LEMMA FromRawFields ==
  ASSUME NEW ch \in ChannelRecord
  PROVE  LET new == [FromRaw(ch) EXCEPT !.raw_value_avail = FALSE]
         IN  /\ new \in ChannelRecord
             /\ new.bound = ch.bound
             /\ new.raw = ch.raw
             /\ new.raw_value_queued = ch.raw_value_queued
             /\ new.eng = EngOf[ch.raw]
             /\ ch.bound => new.io_var = new.eng
  BY CoreAssumption DEF FromRaw, ChannelRecord

LEMMA ToRawFields ==
  ASSUME NEW ch \in ChannelRecord
  PROVE  /\ ToRaw(ch) \in ChannelRecord
         /\ ToRaw(ch).bound = ch.bound
  BY CoreAssumption DEF ToRaw, ChannelRecord
-----------------------------------------------------------------------------
(***************************************************************************)
(* The inductive invariant.  The lock belongs to the scan exactly while it *)
(* is at a channel, so that nobody else changes the channel's value in     *)
(* between; and the raw value that is being converted is the newest.       *)
(***************************************************************************)
LockIsHeld ==
  /\ chnl_lock = "core" <=> core.pc # "next"
  /\ core.pc = "notify" => \A c \in core.at : chnl[c].eng = core.eng_v

ConvertsNewest ==
  core.pc = "convert" =>
    \A c \in core.at : chnl[c].raw_value_avail
                         /\ chnl[c].raw = chnl[c].raw_value_queued

BindingsStay == \A c \in Channels : chnl[c].bound <=> c \in Bound

CoreInv ==
  TypeOK /\ LockIsHeld /\ ConvertsNewest /\ BindingsStay /\ InputShowsNewestRaw

USE DEF Channels

LEMMA InitCore == Init => CoreInv
<1> SUFFICES ASSUME Init PROVE CoreInv
  OBVIOUS
<1>1. TypeOK
  <2>1. chnl \in [Channels -> ChannelRecord]
    <3> DEFINE new(c) ==
          [eng |-> InitValue[c], raw |-> RawOf[InitValue[c]],
           raw_value_queued |-> 0, raw_value_avail |-> FALSE,
           io_var |-> InitValue[c], bound |-> c \in Bound]
    <3>1. ASSUME NEW c \in Channels
          PROVE  new(c) \in ChannelRecord
      <4>1. InitValue[c] \in Engs /\ RawOf[InitValue[c]] \in Raws /\ 0 \in Raws
        BY CoreAssumption
      <4>2. (c \in Bound) \in BOOLEAN
        OBVIOUS
      <4> QED BY <4>1, <4>2, Zenon DEF ChannelRecord
    <3>2. chnl = [c \in Channels |-> new(c)]
      BY DEF Init
    <3> HIDE DEF new
    <3> QED BY <3>1, <3>2, Zenon
  <2>2. alarm \in [Alarms -> AlarmRecord]
    BY CoreAssumption DEF Init, NewAlarm, AlarmRecord, AlarmStates, DelayStates
  <2> QED
    BY <2>1, <2>2, CoreAssumption DEF Init, TypeOK
<1> QED
  BY <1>1 DEF Init, CoreInv, LockIsHeld, ConvertsNewest, BindingsStay,
              InputShowsNewestRaw

CoreRecord ==
  [pc : {"next", "convert", "notify"}, scan : {"input", "output"},
   todo : SUBSET Channels, at : SUBSET Channels,
   notify : SUBSET Alarms, eng_v : Engs]

(* The turn to the observers of a channel.                                 *)
LEMMA ToNotifyFields ==
  ASSUME core \in CoreRecord, NEW c \in Channels, NEW v \in Engs, ToNotify(c, v)
  PROVE  /\ core' \in CoreRecord
         /\ core'.pc = "notify" /\ core'.at = {c} /\ core'.eng_v = v
<1>1. Watchers(c) \subseteq Alarms
  BY DEF Watchers
<1>2. core.todo \ {c} \subseteq Channels /\ {c} \subseteq Channels
  BY DEF CoreRecord
<1>3. core' = [pc |-> "notify", scan |-> core.scan, todo |-> core.todo \ {c},
               at |-> {c}, notify |-> Watchers(c), eng_v |-> v]
  BY DEF ToNotify, CoreRecord
<1> HIDE DEF Channels
<1> QED BY <1>1, <1>2, <1>3 DEF CoreRecord

(***************************************************************************)
(* A change of one channel c that leaves its binding alone, and leaves the *)
(* other channels alone, keeps the parts that speak of the channels.       *)
(***************************************************************************)
LEMMA ChannelChange ==
  ASSUME CoreInv, NEW c \in Channels, NEW new \in ChannelRecord,
         chnl' = [chnl EXCEPT ![c] = new], new.bound = chnl[c].bound
  PROVE  /\ chnl' \in [Channels -> ChannelRecord]
         /\ BindingsStay'
         /\ chnl'[c] = new
         /\ \A d \in Channels : d # c => chnl'[d] = chnl[d]
<1>1. chnl \in [Channels -> ChannelRecord]
  BY DEF CoreInv, TypeOK
<1>2. /\ chnl'[c] = new
      /\ \A d \in Channels : d # c => chnl'[d] = chnl[d]
  BY <1>1
<1>3. \A d \in Channels : chnl'[d].bound = chnl[d].bound
  BY <1>2
<1> QED
  BY <1>1, <1>2, <1>3 DEF CoreInv, BindingsStay

LEMMA InputTurnStep ==
  ASSUME CoreInv, NEW c \in Inputs, InputTurn(c)
  PROVE  CoreInv'
<1> USE DEF InputTurn, Turn, ToNotify
<1>1. chnl[c] \in ChannelRecord /\ Watchers(c) \subseteq Alarms
  BY DEF CoreInv, TypeOK, Watchers
<1>2. CASE chnl[c].raw_value_avail
  <2> DEFINE new == [chnl[c] EXCEPT !.raw = chnl[c].raw_value_queued]
  <2>1. chnl' = [chnl EXCEPT ![c] = new]
    BY <1>2
  <2>2. /\ new \in ChannelRecord
        /\ new.bound = chnl[c].bound
        /\ new.raw_value_avail
        /\ new.raw = new.raw_value_queued
    BY <1>1, <1>2 DEF ChannelRecord
  <2> HIDE DEF new
  <2>3. /\ chnl' \in [Channels -> ChannelRecord] /\ BindingsStay'
        /\ chnl'[c] = new
        /\ \A d \in Channels : d # c => chnl'[d] = chnl[d]
    BY <2>1, <2>2, ChannelChange
  <2>4. core' = [core EXCEPT !.pc = "convert", !.at = {c}]
    BY <1>2
  <2>5. TypeOK'
    BY <2>3, <2>4 DEF CoreInv, TypeOK
  <2>6. core'.pc = "convert" /\ core'.at = {c}
    BY <2>4 DEF CoreInv, TypeOK
  <2>7. LockIsHeld' /\ ConvertsNewest'
    BY <2>2, <2>3, <2>6 DEF LockIsHeld, ConvertsNewest
  <2>8. InputShowsNewestRaw'
    BY <2>2, <2>3 DEF CoreInv, InputShowsNewestRaw
  <2> QED BY <2>3, <2>5, <2>7, <2>8 DEF CoreInv
<1>3. CASE ~chnl[c].raw_value_avail
  <2>1. ToNotify(c, chnl[c].eng) /\ UNCHANGED chnl
    BY <1>3
  <2>2. chnl[c].eng \in Engs /\ core \in CoreRecord
    BY <1>1 DEF ChannelRecord, CoreInv, TypeOK, CoreRecord
  <2>3. /\ core' \in CoreRecord
        /\ core'.pc = "notify" /\ core'.at = {c} /\ core'.eng_v = chnl[c].eng
    BY <2>1, <2>2, ToNotifyFields, Zenon
  <2>4. TypeOK'
    BY <2>1, <2>3 DEF CoreInv, TypeOK, CoreRecord
  <2>5. LockIsHeld' /\ ConvertsNewest'
    BY <2>1, <2>3 DEF LockIsHeld, ConvertsNewest
  <2>6. BindingsStay' /\ InputShowsNewestRaw'
    BY <2>1 DEF CoreInv, BindingsStay, InputShowsNewestRaw
  <2> QED BY <2>4, <2>5, <2>6 DEF CoreInv
<1> QED BY <1>2, <1>3

LEMMA InputConvertStep ==
  ASSUME CoreInv, NEW c \in Inputs, InputConvert(c)
  PROVE  CoreInv'
<1> USE DEF InputConvert, ToNotify
<1> DEFINE new == [FromRaw(chnl[c]) EXCEPT !.raw_value_avail = FALSE]
<1>1. chnl[c] \in ChannelRecord /\ Watchers(c) \subseteq Alarms
  BY DEF CoreInv, TypeOK, Watchers
<1>2. /\ new \in ChannelRecord
      /\ new.bound = chnl[c].bound
      /\ new.raw = chnl[c].raw
      /\ new.raw_value_queued = chnl[c].raw_value_queued
      /\ new.eng = EngOf[chnl[c].raw]
      /\ chnl[c].bound => new.io_var = new.eng
  BY <1>1, FromRawFields
<1>3. chnl' = [chnl EXCEPT ![c] = new]
  OBVIOUS
<1> HIDE DEF new
<1>4. /\ chnl' \in [Channels -> ChannelRecord] /\ BindingsStay'
      /\ chnl'[c] = new
      /\ \A d \in Channels : d # c => chnl'[d] = chnl[d]
  BY <1>2, <1>3, ChannelChange
<1>5. EngOf[chnl[c].raw] \in Engs
  BY <1>1, CoreAssumption DEF ChannelRecord
<1>6. core \in CoreRecord
  BY DEF CoreInv, TypeOK, CoreRecord
<1>7. /\ core' \in CoreRecord
      /\ core'.pc = "notify" /\ core'.at = {c}
      /\ core'.eng_v = EngOf[chnl[c].raw]
  BY <1>5, <1>6, ToNotifyFields, Zenon DEF InputConvert
<1>8. TypeOK'
  BY <1>4, <1>7 DEF CoreInv, TypeOK, CoreRecord
<1>9. LockIsHeld' /\ ConvertsNewest'
  BY <1>2, <1>4, <1>7 DEF CoreInv, LockIsHeld, ConvertsNewest
<1>10. chnl[c].raw = chnl[c].raw_value_queued
  BY DEF CoreInv, ConvertsNewest
<1>11. InputShowsNewestRaw'
  <2>1. c \in Bound => chnl[c].bound
    BY DEF CoreInv, BindingsStay
  <2> QED BY <1>2, <1>4, <1>10, <2>1 DEF CoreInv, InputShowsNewestRaw
<1> QED BY <1>4, <1>8, <1>9, <1>11 DEF CoreInv

LEMMA OutputTurnStep ==
  ASSUME CoreInv, NEW c \in Outputs, OutputTurn(c)
  PROVE  CoreInv'
<1> USE DEF OutputTurn, Turn, ToNotify
<1> DEFINE new == ToRaw(chnl[c])
<1>1. chnl[c] \in ChannelRecord /\ Watchers(c) \subseteq Alarms
  BY DEF CoreInv, TypeOK, Watchers
<1>2. new \in ChannelRecord /\ new.bound = chnl[c].bound /\ new.eng \in Engs
  <2>1. new \in ChannelRecord /\ new.bound = chnl[c].bound
    BY <1>1, ToRawFields
  <2> QED BY <2>1 DEF ChannelRecord
<1>3. chnl' = [chnl EXCEPT ![c] = new]
  OBVIOUS
<1>4. core \in CoreRecord /\ ToNotify(c, new.eng)
  BY DEF CoreInv, TypeOK, CoreRecord
<1> HIDE DEF new, ToNotify
<1>5. /\ core' \in CoreRecord
      /\ core'.pc = "notify" /\ core'.at = {c} /\ core'.eng_v = new.eng
  BY <1>2, <1>4, ToNotifyFields, Zenon
<1>6. /\ chnl' \in [Channels -> ChannelRecord] /\ BindingsStay'
      /\ chnl'[c] = new
      /\ \A d \in Channels : d # c => chnl'[d] = chnl[d]
  BY <1>2, <1>3, ChannelChange
<1>7. TypeOK'
  BY <1>5, <1>6 DEF CoreInv, TypeOK, CoreRecord
<1>8. LockIsHeld' /\ ConvertsNewest'
  BY <1>5, <1>6 DEF LockIsHeld, ConvertsNewest
<1>9. InputShowsNewestRaw'
  BY <1>6, CoreAssumption DEF CoreInv, InputShowsNewestRaw
<1> QED BY <1>6, <1>7, <1>8, <1>9 DEF CoreInv

(* The scan notifies one alarm, or ends its turn, or goes on.              *)
LEMMA ScanStep ==
  ASSUME CoreInv,
         \/ \E a \in Alarms : CoreNotify(a)
         \/ EndTurn \/ NextScan
  PROVE  CoreInv'
<1>1. ASSUME NEW a \in Alarms, CoreNotify(a)
      PROVE  CoreInv'
  <2>1. alarm' \in [Alarms -> AlarmRecord]
    BY <1>1, NotifyKeepsType DEF CoreNotify, CoreInv, TypeOK
  <2>2. TypeOK'
    BY <1>1, <2>1 DEF CoreNotify, CoreInv, TypeOK
  <2>3. core'.pc = core.pc /\ core'.at = core.at /\ core'.eng_v = core.eng_v
    BY <1>1 DEF CoreNotify, CoreInv, TypeOK
  <2> QED
    BY <1>1, <2>2, <2>3 DEF CoreNotify, CoreInv, LockIsHeld, ConvertsNewest,
                            BindingsStay, InputShowsNewestRaw
<1>2. CASE EndTurn
  <2>1. TypeOK' /\ core'.pc = "next"
    BY <1>2 DEF EndTurn, CoreInv, TypeOK
  <2> QED
    BY <1>2, <2>1 DEF EndTurn, CoreInv, LockIsHeld, ConvertsNewest,
                      BindingsStay, InputShowsNewestRaw
<1>3. CASE NextScan
  <2>1. TypeOK' /\ core'.pc = "next"
    BY <1>3 DEF NextScan, CoreInv, TypeOK
  <2> QED
    BY <1>3, <2>1 DEF NextScan, CoreInv, LockIsHeld, ConvertsNewest,
                      BindingsStay, InputShowsNewestRaw
<1> QED BY <1>1, <1>2, <1>3
(* The application writes the variables of outputs only.                   *)
LEMMA AppRunStep ==
  ASSUME CoreInv, AppRun
  PROVE  CoreInv'
<1>1. core' \in CoreRecord /\ core'.pc = "next" /\ core.pc = "next"
  BY CoreAssumption DEF AppRun, CoreInv, TypeOK, CoreRecord
<1>2. CASE UNCHANGED chnl
  <2>1. TypeOK'
    BY <1>1, <1>2 DEF AppRun, CoreInv, TypeOK, CoreRecord
  <2> QED
    BY <1>1, <1>2, <2>1 DEF AppRun, CoreInv, LockIsHeld, ConvertsNewest,
                            BindingsStay, InputShowsNewestRaw
<1>3. ASSUME NEW c \in Outputs \cap Bound, NEW v \in Engs,
             chnl' = [chnl EXCEPT ![c].io_var = v]
      PROVE  CoreInv'
  <2> DEFINE new == [chnl[c] EXCEPT !.io_var = v]
  <2>1. chnl' = [chnl EXCEPT ![c] = new]
    BY <1>3
  <2>2. new \in ChannelRecord /\ new.bound = chnl[c].bound
    BY DEF CoreInv, TypeOK, ChannelRecord
  <2> HIDE DEF new
  <2>3. /\ chnl' \in [Channels -> ChannelRecord] /\ BindingsStay'
        /\ \A d \in Channels : d # c => chnl'[d] = chnl[d]
    BY <2>1, <2>2, ChannelChange
  <2>4. TypeOK'
    BY <1>1, <2>3 DEF AppRun, CoreInv, TypeOK, CoreRecord
  <2>5. InputShowsNewestRaw'
    BY <2>3, CoreAssumption DEF AppRun, CoreInv, InputShowsNewestRaw
  <2> QED
    BY <1>1, <2>3, <2>4, <2>5 DEF AppRun, CoreInv, LockIsHeld, ConvertsNewest
<1> QED BY <1>2, <1>3 DEF AppRun

(* A raw value is left for a channel.                                      *)
LEMMA SetRawValueStep ==
  ASSUME CoreInv, NEW c \in Writable, NEW r \in Raws, SetRawValue(c, r)
  PROVE  CoreInv'
<1> DEFINE new == [chnl[c] EXCEPT !.raw_value_queued = r, !.raw_value_avail = TRUE]
<1>1. c \in Channels
  BY CoreAssumption
<1>2. chnl' = [chnl EXCEPT ![c] = new]
  BY <1>1 DEF SetRawValue, CoreInv, TypeOK
<1>3. /\ new \in ChannelRecord /\ new.bound = chnl[c].bound
      /\ new.raw_value_avail
  BY <1>1 DEF CoreInv, TypeOK, ChannelRecord
<1> HIDE DEF new
<1>4. /\ chnl' \in [Channels -> ChannelRecord] /\ BindingsStay'
      /\ chnl'[c] = new
      /\ \A d \in Channels : d # c => chnl'[d] = chnl[d]
  BY <1>1, <1>2, <1>3, ChannelChange
<1>5. TypeOK'
  BY <1>4 DEF SetRawValue, CoreInv, TypeOK
<1>6. InputShowsNewestRaw'
  BY <1>3, <1>4 DEF SetRawValue, CoreInv, InputShowsNewestRaw
<1>7. core.pc = "next" /\ core' = core
  BY DEF SetRawValue, CoreInv, LockIsHeld
<1> QED
  BY <1>4, <1>5, <1>6, <1>7
     DEF SetRawValue, CoreInv, LockIsHeld, ConvertsNewest

(* An engineering value is set by the web thread.                          *)
LEMMA EngValueStep ==
  ASSUME CoreInv, NEW c \in Channels, NEW v \in Engs,
         SetEngValue(c, v) \/ UpdateChannelConfig(c, v)
  PROVE  CoreInv'
<1> DEFINE new == SetEng(chnl[c], v)
<1>1. chnl' = [chnl EXCEPT ![c] = new]
  BY DEF SetEngValue, UpdateChannelConfig
<1>2. new \in ChannelRecord /\ new.bound = chnl[c].bound
  BY SetEngFields DEF CoreInv, TypeOK
<1> HIDE DEF new
<1>3. /\ chnl' \in [Channels -> ChannelRecord] /\ BindingsStay'
      /\ \A d \in Channels : d # c => chnl'[d] = chnl[d]
  BY <1>1, <1>2, ChannelChange
<1>4. /\ consumed' = consumed \ {c} /\ core' = core
      /\ chnl_lock = "none" /\ chnl_lock' = chnl_lock /\ alarm' = alarm
  BY DEF SetEngValue, UpdateChannelConfig
<1>5. web' \in [notify : SUBSET Alarms, eng_v : Engs]
  <2>1. Watchers(c) \subseteq Alarms
    BY DEF Watchers
  <2> QED BY <2>1 DEF SetEngValue, UpdateChannelConfig, CoreInv, TypeOK
<1>6. TypeOK'
  BY <1>3, <1>4, <1>5 DEF CoreInv, TypeOK
<1>7. InputShowsNewestRaw'
  BY <1>3, <1>4 DEF CoreInv, InputShowsNewestRaw
<1>8. core.pc = "next"
  BY <1>4 DEF CoreInv, LockIsHeld
<1> QED
  BY <1>3, <1>4, <1>6, <1>7, <1>8 DEF CoreInv, LockIsHeld, ConvertsNewest

(* Steps that leave the channels and the scan alone.                       *)
LEMMA AlarmOnlyStep ==
  ASSUME CoreInv, Tick \/ \E a \in Alarms : WebNotify(a)
  PROVE  CoreInv'
<1>1. UNCHANGED <<chnl, chnl_lock, core, consumed>>
  BY DEF Tick, WebNotify
<1>2. alarm' \in [Alarms -> AlarmRecord]
  <2>1. CASE Tick
    <3>1. \A a \in Alarms : Age(alarm[a], MaxElapsed) \in AlarmRecord
      BY CoreAssumption DEF CoreInv, TypeOK, Age, AlarmRecord
    <3> QED BY <2>1, <3>1 DEF Tick
  <2>2. ASSUME NEW a \in Alarms, WebNotify(a)
        PROVE  alarm' \in [Alarms -> AlarmRecord]
    BY <2>2, NotifyKeepsType DEF WebNotify, CoreInv, TypeOK
  <2> QED BY <2>1, <2>2
<1>3. web' \in [notify : SUBSET Alarms, eng_v : Engs]
  BY DEF Tick, WebNotify, CoreInv, TypeOK
<1> QED
  BY <1>1, <1>2, <1>3 DEF CoreInv, TypeOK, LockIsHeld, ConvertsNewest,
                          BindingsStay, InputShowsNewestRaw

LEMMA CoreStep == CoreInv /\ [Next]_vars => CoreInv'
<1> SUFFICES ASSUME CoreInv, [Next]_vars
             PROVE  CoreInv'
  OBVIOUS
<1>1. CASE UNCHANGED vars
  BY <1>1 DEF vars, CoreInv, TypeOK, LockIsHeld, ConvertsNewest, BindingsStay,
              InputShowsNewestRaw
<1> QED
  BY <1>1, InputTurnStep, InputConvertStep, OutputTurnStep, ScanStep,
     AppRunStep, SetRawValueStep, EngValueStep, AlarmOnlyStep, Zenon
     DEF Next, CoreThread
-----------------------------------------------------------------------------
(* Channels, alarms and threads keep their types, for any number of        *)
(* channels and alarms (channel.c, alarm.c).                               *)
THEOREM CoreTyping == Spec => []TypeOK
<1>1. CoreInv => TypeOK
  BY DEF CoreInv
<1> QED BY <1>1, InitCore, CoreStep, PTL DEF Spec

(* No raw value is lost on its way from the Modbus threads to the scan:    *)
(* what channel_manager_update_input took from the queue last is the       *)
(* newest that channel_manager_set_raw_value left there.                   *)
THEOREM NewestRawIsShown == Spec => []InputShowsNewestRaw
<1>1. CoreInv => InputShowsNewestRaw
  BY DEF CoreInv
<1> QED BY <1>1, InitCore, CoreStep, PTL DEF Spec

(* While channel_manager_update_input and _output notify the observers     *)
(* they hold the channel lock, and what they pass on is the value that the *)
(* channel still has.                                                      *)
THEOREM ScanTellsCurrentValue == Spec => []ScanNotifiesCurrentValue
<1>1. CoreInv => ScanNotifiesCurrentValue
  BY DEF CoreInv, LockIsHeld, ScanNotifiesCurrentValue
<1> QED BY <1>1, InitCore, CoreStep, PTL DEF Spec

(* Setting a value, or handing one over to Modbus, leaves the queue alone. *)
LEMMA AvailKept ==
  ASSUME CoreInv, NEW c \in Channels, chnl[c].raw_value_avail,
         NEW d \in Channels, NEW v \in Engs,
         \/ chnl' = [chnl EXCEPT ![d] = SetEng(@, v)]
         \/ chnl' = [chnl EXCEPT ![d] = ToRaw(@)]
         \/ chnl' = [chnl EXCEPT ![d].io_var = v]
         \/ chnl' = [chnl EXCEPT ![d].raw = chnl[d].raw_value_queued]
         \/ \E r \in Raws : chnl' = [chnl EXCEPT ![d].raw_value_queued = r,
                                                 ![d].raw_value_avail = TRUE]
  PROVE  chnl'[c].raw_value_avail
<1>1. chnl \in [Channels -> ChannelRecord] /\ chnl[d] \in ChannelRecord
  BY DEF CoreInv, TypeOK
<1>2. /\ SetEng(chnl[d], v).raw_value_avail = chnl[d].raw_value_avail
      /\ ToRaw(chnl[d]).raw_value_avail = chnl[d].raw_value_avail
  BY <1>1 DEF SetEng, ToRaw, ChannelRecord
<1>3. CASE c # d
  BY <1>1, <1>3
<1>4. CASE c = d
  BY <1>1, <1>2, <1>4 DEF ChannelRecord
<1> QED BY <1>3, <1>4

(* channel_manager_update_input marks the queue empty only when it has     *)
(* converted what is in it, the newest value left there, and nobody else   *)
(* does (channel_manager_set_eng_value, a new configuration).              *)
THEOREM RawValuesTaken == Spec => RawValuesAreTaken
<1> DEFINE Taken ==
      \A c \in Channels :
        chnl[c].raw_value_avail /\ ~chnl'[c].raw_value_avail =>
          /\ c \in core.at
          /\ chnl'[c].raw = chnl[c].raw_value_queued
          /\ chnl'[c].eng = EngOf[chnl[c].raw_value_queued]
<1>1. CoreInv /\ [Next]_vars => [Taken]_vars
  <2> SUFFICES ASSUME CoreInv, Next, NEW c \in Channels,
                      chnl[c].raw_value_avail, ~chnl'[c].raw_value_avail
               PROVE  /\ c \in core.at
                      /\ chnl'[c].raw = chnl[c].raw_value_queued
                      /\ chnl'[c].eng = EngOf[chnl[c].raw_value_queued]
    OBVIOUS
  <2>1. chnl \in [Channels -> ChannelRecord] /\ Channels = Inputs \cup Outputs \cup Virtuals
        /\ Writable \subseteq Channels
    BY CoreAssumption DEF CoreInv, TypeOK, Channels
  <2>2. chnl' # chnl
    OBVIOUS
  <2>3. ASSUME NEW d \in Inputs, InputTurn(d)
        PROVE  FALSE
    <3>1. chnl' = [chnl EXCEPT ![d].raw = chnl[d].raw_value_queued]
      BY <2>2, <2>3 DEF InputTurn
    <3>2. d \in Channels /\ 0 \in Engs
      BY <2>1, CoreAssumption
    <3> QED BY <3>1, <3>2, AvailKept
  <2>4. ASSUME NEW d \in Outputs, OutputTurn(d)
        PROVE  FALSE
    <3>1. d \in Channels /\ 0 \in Engs
      BY <2>1, CoreAssumption
    <3> QED BY <2>4, <3>1, AvailKept DEF OutputTurn
  <2>5. ASSUME NEW d \in Channels, NEW v \in Engs,
               SetEngValue(d, v) \/ UpdateChannelConfig(d, v)
        PROVE  FALSE
    BY <2>5, AvailKept DEF SetEngValue, UpdateChannelConfig
  <2>6. ASSUME NEW d \in Writable, NEW r \in Raws, SetRawValue(d, r)
        PROVE  FALSE
    <3>1. d \in Channels /\ 0 \in Engs
      BY <2>1, CoreAssumption
    <3> QED BY <2>6, <3>1, AvailKept DEF SetRawValue
  <2>7. CASE AppRun
    <3>1. PICK d \in Outputs \cap Bound, v \in Engs : chnl' = [chnl EXCEPT ![d].io_var = v]
      BY <2>2, <2>7 DEF AppRun
    <3> QED BY <2>1, <3>1, AvailKept
  <2>8. CASE EndTurn \/ NextScan \/ Tick \/ \E a \in Alarms : CoreNotify(a) \/ WebNotify(a)
    BY <2>2, <2>8 DEF EndTurn, NextScan, Tick, CoreNotify, WebNotify
  <2>9. ASSUME NEW d \in Inputs, InputConvert(d)
        PROVE  /\ c \in core.at
               /\ chnl'[c].raw = chnl[c].raw_value_queued
               /\ chnl'[c].eng = EngOf[chnl[c].raw_value_queued]
    <3> DEFINE new == [FromRaw(chnl[d]) EXCEPT !.raw_value_avail = FALSE]
    <3>1. chnl' = [chnl EXCEPT ![d] = new] /\ d \in core.at /\ core.pc = "convert"
      BY <2>1, <2>9 DEF InputConvert
    <3>2. new.raw = chnl[d].raw /\ new.eng = EngOf[chnl[d].raw]
      BY <2>1, FromRawFields
    <3> HIDE DEF new
    <3>3. chnl[d].raw = chnl[d].raw_value_queued
      BY <3>1 DEF CoreInv, ConvertsNewest
    <3>4. c = d
      BY <2>1, <3>1
    <3> QED BY <2>1, <3>1, <3>2, <3>3, <3>4
  <2> QED
    BY <2>3, <2>4, <2>5, <2>6, <2>7, <2>8, <2>9 DEF Next, CoreThread
<1> HIDE DEF Taken
<1>2. [][Taken]_vars => RawValuesAreTaken
  BY PTL DEF Taken, RawValuesAreTaken
<1> QED BY <1>1, <1>2, InitCore, CoreStep, PTL DEF Spec
=============================================================================
