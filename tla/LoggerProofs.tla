---------------------------- MODULE LoggerProofs ----------------------------
(***************************************************************************)
(* What holds of the logger for any number of buffers, channels, sets of   *)
(* channels and alarm events.                                              *)
(***************************************************************************)
EXTENDS Logger, SequenceTheorems, TLAPS

(* The core thread is a caller, the logger is not.                         *)
LEMMA ThreadNames ==
  /\ "core" \in Callers /\ "core" \notin Requesters
  /\ "logger" \notin Callers /\ "logger" \in Threads
  /\ Reporters \subseteq Callers /\ Requesters \subseteq Callers
  /\ Callers \subseteq Threads
  BY LoggerAssumption DEF Callers, Threads

USE ThreadNames

(* Where the logger has a request in its hands.                            *)
Working == {"alarm", "channel", "set", "publish", "copy", "signal", "put"}

(***************************************************************************)
(* The place of a thread says what it holds: a caller holds a buffer       *)
(* between taking it and adding it to the queue, the logger while it works *)
(* on a request, which is of the kind that its place says.                 *)
(***************************************************************************)
Places ==
  /\ \A t \in Callers :
       /\ at[t] \in {"idle", "round", "add", "send", "wait"}
       /\ hand[t] # None <=> at[t] = "add"
  /\ at["logger"] \in {"idle", "cut", "next"} \cup Working
  /\ hand["logger"] # None <=> at["logger"] \in Working
  /\ at["logger"] \in {"alarm", "channel", "set"} => InHand.kind = at["logger"]
  /\ at["logger"] \in {"publish", "copy", "signal"} => InHand.kind = "set"
  /\ at["logger"] \in {"idle", "cut"} => batch = <<>>

LoggerInv == TypeOK /\ Places /\ EveryBufferInOnePlace

LEMMA RequestFields ==
  ASSUME NEW r \in Requests
  PROVE  /\ r.kind \in {"channel", "alarm", "set"}
         /\ r.kind = "channel" => r.channel \in Channels
         /\ r.kind = "alarm" => r.event \in 0 .. MaxEvents
         /\ r.kind = "set" => r.channels \in TraceSets /\ r.from \in Requesters
  BY DEF Requests, ChannelRequest, AlarmRequest, SetRequest

LEMMA RequestTypes ==
  /\ \A c \in Channels : ChannelRequest(c) \in Requests
  /\ \A n \in 0 .. MaxEvents : AlarmRequest(n) \in Requests
  /\ \A t \in Requesters, s \in TraceSets : SetRequest(t, s) \in Requests
  BY DEF Requests

(* A thread goes from one place to another.                                *)
LEMMA GoesTo ==
  ASSUME TypeOK, NEW t \in Threads, NEW place, Goes(t, place)
  PROVE  /\ at'[t] = place
         /\ \A u \in Threads : u # t => at'[u] = at[u]
  BY DEF Goes, TypeOK

LEMMA InitLogger == Init => LoggerInv
<1> SUFFICES ASSUME Init PROVE LoggerInv
  OBVIOUS
<1>1. \A b \in Buffers : req[b] \in Requests
  BY RequestTypes, LoggerAssumption DEF Init
<1>2. req \in [Buffers -> Requests]
  BY <1>1 DEF Init
<1>3. saved \in Databases /\ work \in Databases /\ trace \subseteq Channels
  BY LoggerAssumption DEF Init, Databases
<1>4. queue \in Seq(Buffers) /\ batch \in Seq(Buffers)
  BY DEF Init
<1>5. hand \in [Threads -> Buffers \cup {None}]
  BY DEF Init
<1>6. events \in 0 .. MaxEvents
  BY LoggerAssumption DEF Init
<1>7. TypeOK
  BY <1>2, <1>3, <1>4, <1>5, <1>6 DEF Init, TypeOK
<1>8. Places
  BY DEF Init, Places, Threads, Callers, Working
<1>9. EveryBufferInOnePlace
  BY DEF Init, EveryBufferInOnePlace, Held, InList, NoRepeats
<1> QED BY <1>7, <1>8, <1>9 DEF LoggerInv

(* A thread gets a buffer, or does not.                                    *)
LEMMA TakeFields ==
  ASSUME LoggerInv, NEW t \in Callers, at[t] # "add",
         NEW r \in Requests, TakeOrDrop(t, r)
  PROVE  /\ pool' \subseteq Buffers
         /\ req' \in [Buffers -> Requests]
         /\ hand' \in [Threads -> Buffers \cup {None}]
         /\ at' \in [Threads -> {"idle", "round", "add", "send", "wait", "cut",
                                 "next", "alarm", "channel", "set", "publish",
                                 "copy", "signal", "put"}]
         /\ \A u \in Threads : u # t => at'[u] = at[u] /\ hand'[u] = hand[u]
         /\ hand'[t] # None <=> at'[t] = "add"
         /\ at'[t] \in {at[t], "add"}
<1>1. CASE UNCHANGED <<pool, req, hand, at>>
  BY <1>1 DEF LoggerInv, TypeOK, Places, Callers, Threads
<1>2. CASE Take(t, r)
  <2>1. PICK b \in pool : /\ pool' = pool \ {b}
                          /\ req' = [req EXCEPT ![b] = r]
                          /\ hand' = [hand EXCEPT ![t] = b]
                          /\ Goes(t, "add")
    BY <1>2 DEF Take
  <2>2. b \in Buffers /\ b # None
    BY LoggerAssumption DEF LoggerInv, TypeOK
  <2> QED
    BY <2>1, <2>2 DEF Goes, LoggerInv, TypeOK, Threads
<1> QED BY <1>1, <1>2 DEF TakeOrDrop

(* The logger's request is not touched by a caller.                        *)
LEMMA TakeKeepsInHand ==
  ASSUME LoggerInv, NEW t \in Callers,
         NEW r \in Requests, TakeOrDrop(t, r), hand["logger"] # None
  PROVE  InHand' = InHand
<1>1. CASE UNCHANGED <<pool, req, hand, at>>
  BY <1>1 DEF InHand
<1>2. CASE Take(t, r)
  <2>1. PICK b \in pool : /\ req' = [req EXCEPT ![b] = r]
                          /\ hand' = [hand EXCEPT ![t] = b]
    BY <1>2 DEF Take
  <2>2. hand["logger"] \in Held
    BY DEF Held, Threads
  <2>3. hand["logger"] # b
    BY <2>1, <2>2 DEF LoggerInv, EveryBufferInOnePlace
  <2>4. hand'["logger"] = hand["logger"] /\ hand["logger"] \in Buffers
    BY <2>1 DEF LoggerInv, TypeOK, Threads, Callers
  <2> QED BY <2>1, <2>3, <2>4 DEF InHand, LoggerInv, TypeOK
<1> QED BY <1>1, <1>2 DEF TakeOrDrop
-----------------------------------------------------------------------------
(* How the buffers in hand and the buffers in a list change.               *)
Distinct ==
  \A t, u \in Threads : hand[t] = hand[u] /\ hand[t] # None => t = u

LEMMA HeldTakes ==
  ASSUME TypeOK, Distinct, NEW t \in Threads, hand[t] = None,
         NEW b, b # None, b \notin Held, hand' = [hand EXCEPT ![t] = b]
  PROVE  Held' = Held \cup {b} /\ Distinct'
<1>1. hand'[t] = b /\ \A u \in Threads : u # t => hand'[u] = hand[u]
  BY DEF TypeOK
<1>2. \A u \in Threads : hand[u] # b
  BY DEF Held
<1> QED BY <1>1, <1>2 DEF Held, Distinct

LEMMA HeldLetsGo ==
  ASSUME TypeOK, Distinct, NEW t \in Threads, hand[t] # None,
         hand' = [hand EXCEPT ![t] = None]
  PROVE  Held' = Held \ {hand[t]} /\ Distinct' /\ hand[t] \in Held
<1>1. hand'[t] = None /\ \A u \in Threads : u # t => hand'[u] = hand[u]
  BY DEF TypeOK
<1> QED BY <1>1 DEF Held, Distinct

LEMMA AppendList ==
  ASSUME NEW s \in Seq(Buffers), NEW b \in Buffers, b \notin InList(s),
         NoRepeats(s)
  PROVE  /\ Append(s, b) \in Seq(Buffers)
         /\ InList(Append(s, b)) = InList(s) \cup {b}
         /\ NoRepeats(Append(s, b))
<1>1. /\ Len(Append(s, b)) = Len(s) + 1 /\ Len(s) \in Nat
      /\ \A i \in 1 .. Len(s) : Append(s, b)[i] = s[i]
      /\ Append(s, b)[Len(s) + 1] = b
  OBVIOUS
<1>2. 1 .. Len(s) + 1 = (1 .. Len(s)) \cup {Len(s) + 1}
  BY <1>1
<1> QED BY <1>1, <1>2 DEF InList, NoRepeats

LEMMA TailList ==
  ASSUME NEW s \in Seq(Buffers), s # <<>>, NoRepeats(s)
  PROVE  /\ Head(s) \in InList(s) /\ Head(s) \in Buffers
         /\ Tail(s) \in Seq(Buffers)
         /\ InList(Tail(s)) = InList(s) \ {Head(s)}
         /\ NoRepeats(Tail(s))
<1>1. /\ Len(s) \in Nat \ {0} /\ Head(s) = s[1]
      /\ Tail(s) \in Seq(Buffers) /\ Len(Tail(s)) = Len(s) - 1
      /\ \A i \in 1 .. Len(s) - 1 : Tail(s)[i] = s[i + 1]
  OBVIOUS
<1>2. \A i \in 1 .. Len(s) : i = 1 \/ (i - 1 \in 1 .. Len(s) - 1 /\ s[i] = Tail(s)[i - 1])
  BY <1>1
<1>3. Head(s) \in InList(s) /\ Head(s) \in Buffers
  BY <1>1 DEF InList
<1>4. NoRepeats(Tail(s))
  BY <1>1 DEF NoRepeats
<1>5. ASSUME NEW b \in InList(Tail(s))
      PROVE  b \in InList(s) \ {Head(s)}
  <2>1. PICK i \in 1 .. Len(s) - 1 : b = s[i + 1]
    BY <1>1 DEF InList
  <2>2. i + 1 \in 1 .. Len(s) /\ i + 1 # 1 /\ 1 \in 1 .. Len(s)
    BY <1>1, <2>1
  <2> QED BY <1>1, <2>1, <2>2 DEF InList, NoRepeats
<1>6. ASSUME NEW b \in InList(s) \ {Head(s)}
      PROVE  b \in InList(Tail(s))
  <2>1. PICK i \in 1 .. Len(s) : b = s[i]
    BY DEF InList
  <2> QED BY <1>1, <1>2, <2>1 DEF InList
<1> QED BY <1>1, <1>3, <1>4, <1>5, <1>6

LEMMA EmptyList ==
  <<>> \in Seq(Buffers) /\ InList(<<>>) = {} /\ NoRepeats(<<>>)
  BY DEF InList, NoRepeats
-----------------------------------------------------------------------------
(* A caller that takes a buffer, or finds none, keeps the invariant.       *)
LEMMA TakeStep ==
  ASSUME LoggerInv, NEW t \in Callers, at[t] # "add",
         NEW r \in Requests, TakeOrDrop(t, r), UNCHANGED lists
  PROVE  Places' /\ EveryBufferInOnePlace'
<1> USE DEF lists
<1>1. Places'
  <2>1. \A u \in Threads : u # t => at'[u] = at[u] /\ hand'[u] = hand[u]
    BY TakeFields
  <2>2. /\ hand'[t] # None <=> at'[t] = "add"
        /\ at'[t] \in {at[t], "add"}
    BY TakeFields
  <2>3. hand["logger"] # None => InHand' = InHand
    BY TakeKeepsInHand
  <2>4. at'["logger"] = at["logger"] /\ hand'["logger"] = hand["logger"]
    BY <2>1 DEF Threads, Callers
  <2> QED
    BY <2>1, <2>2, <2>3, <2>4 DEF LoggerInv, Places, Threads, Callers, Working
<1>2. EveryBufferInOnePlace'
  <2>1. CASE UNCHANGED <<pool, req, hand, at>>
    BY <2>1 DEF LoggerInv, EveryBufferInOnePlace, Held
  <2>2. CASE Take(t, r)
    <3>1. PICK b \in pool : /\ pool' = pool \ {b}
                            /\ hand' = [hand EXCEPT ![t] = b]
      BY <2>2 DEF Take
    <3>2. /\ b \in Buffers /\ b # None /\ b \notin Held
          /\ TypeOK /\ Distinct /\ hand[t] = None /\ t \in Threads
      BY LoggerAssumption DEF LoggerInv, TypeOK, Places, EveryBufferInOnePlace,
                              Distinct, Threads
    <3>3. Held' = Held \cup {b} /\ Distinct'
      BY <3>1, <3>2, HeldTakes
    <3> QED
      BY <3>1, <3>2, <3>3 DEF LoggerInv, EveryBufferInOnePlace, Distinct
  <2> QED BY <2>1, <2>2 DEF TakeOrDrop
<1> QED BY <1>1, <1>2

LEMMA LogAlarmStep ==
  ASSUME LoggerInv, NEW t \in Callers, LogAlarm(t)
  PROVE  LoggerInv'
<1>1. events' \in 0 .. MaxEvents
  BY LoggerAssumption DEF LogAlarm, LoggerInv, TypeOK
<1>2. AlarmRequest(events') \in Requests
  BY <1>1, RequestTypes
<1>3. at[t] # "add" /\ TakeOrDrop(t, AlarmRequest(events')) /\ UNCHANGED lists
  BY DEF LogAlarm
<1>4. Places' /\ EveryBufferInOnePlace'
  BY <1>2, <1>3, TakeStep, Zenon
<1>5. TypeOK'
  BY <1>1, <1>2, <1>3, TakeFields
     DEF LogAlarm, LoggerInv, TypeOK, lists, client, tracing, db
<1> QED BY <1>4, <1>5 DEF LoggerInv

LEMMA LogChannelStep ==
  ASSUME LoggerInv, LogChannel
  PROVE  LoggerInv'
<1>1. PICK c \in round : /\ round' = round \ {c}
                         /\ TakeOrDrop("core", ChannelRequest(c))
  BY DEF LogChannel
<1>2. ChannelRequest(c) \in Requests /\ "core" \in Callers
  BY RequestTypes DEF LoggerInv, TypeOK, Callers
<1>3. at["core"] # "add" /\ UNCHANGED lists
  BY DEF LogChannel
<1>4. Places' /\ EveryBufferInOnePlace'
  BY <1>1, <1>2, <1>3, TakeStep, Zenon
<1>5. TypeOK'
  BY <1>1, <1>2, <1>3, TakeFields
     DEF LogChannel, LoggerInv, TypeOK, lists, tracing, db
<1> QED BY <1>4, <1>5 DEF LoggerInv

LEMMA RequestSetStep ==
  ASSUME LoggerInv, NEW t \in Requesters, NEW s \in TraceSets, RequestSet(t, s)
  PROVE  LoggerInv'
<1>1. SetRequest(t, s) \in Requests /\ t \in Callers
  BY RequestTypes
<1>2. at[t] # "add" /\ TakeOrDrop(t, SetRequest(t, s)) /\ UNCHANGED lists
  BY DEF RequestSet, TakeOrDrop
<1>3. Places' /\ EveryBufferInOnePlace'
  BY <1>1, <1>2, TakeStep, Zenon
<1>4. TypeOK'
  BY <1>1, <1>2, TakeFields
     DEF RequestSet, LoggerInv, TypeOK, lists, tracing, db
<1> QED BY <1>3, <1>4 DEF LoggerInv

(* Nothing but the place of a caller that holds no buffer changes.         *)
LEMMA CallerMoves ==
  ASSUME LoggerInv, NEW t \in Callers, at[t] # "add",
         NEW place \in {"idle", "round", "send", "wait"}, Goes(t, place),
         UNCHANGED <<pool, req, queue, batch, hand>>
  PROVE  /\ Places' /\ EveryBufferInOnePlace'
         /\ at' \in [Threads -> {"idle", "round", "add", "send", "wait", "cut",
                                 "next", "alarm", "channel", "set", "publish",
                                 "copy", "signal", "put"}]
<1>1. at'[t] = place /\ \A u \in Threads : u # t => at'[u] = at[u]
  BY DEF Goes, LoggerInv, TypeOK, Threads
<1>2. Places'
  BY <1>1 DEF LoggerInv, Places, InHand, Threads, Callers
<1>3. EveryBufferInOnePlace'
  BY DEF LoggerInv, EveryBufferInOnePlace, Held
<1> QED BY <1>2, <1>3 DEF Goes, LoggerInv, TypeOK

LEMMA CallerStepKeeps ==
  ASSUME LoggerInv,
         \/ StartRound \/ EndRound
         \/ \E t \in Requesters : Released(t)
         \/ \E t \in Callers : Send(t)
  PROVE  LoggerInv'
<1> USE DEF lists, client, tracing, db
<1>1. CASE StartRound
  BY <1>1, CallerMoves DEF StartRound, LoggerInv, TypeOK
<1>2. CASE EndRound
  BY <1>2, CallerMoves DEF EndRound, LoggerInv, TypeOK
<1>3. ASSUME NEW t \in Requesters, Released(t)
      PROVE  LoggerInv'
  BY <1>3, CallerMoves DEF Released, LoggerInv, TypeOK
<1>4. ASSUME NEW t \in Callers, Send(t)
      PROVE  LoggerInv'
  <2>1. Back(t) \in {"idle", "round", "send", "wait"}
    BY DEF Back
  <2> QED BY <1>4, <2>1, CallerMoves DEF Send, LoggerInv, TypeOK
<1> QED BY <1>1, <1>2, <1>3, <1>4

LEMMA AddStep ==
  ASSUME LoggerInv, NEW t \in Callers, Add(t)
  PROVE  LoggerInv'
<1> USE DEF lists, client, tracing, db
<1>1. /\ hand[t] \in Buffers /\ hand[t] # None /\ hand[t] \in Held
      /\ hand[t] \notin InList(queue) /\ t \in Threads
      /\ queue \in Seq(Buffers) /\ NoRepeats(queue)
  BY LoggerAssumption
     DEF Add, LoggerInv, TypeOK, Places, Held, Threads, EveryBufferInOnePlace
<1>2. /\ queue' \in Seq(Buffers) /\ NoRepeats(queue')
      /\ InList(queue') = InList(queue) \cup {hand[t]}
  BY <1>1, AppendList DEF Add
<1>3. Held' = Held \ {hand[t]} /\ Distinct'
  BY <1>1, HeldLetsGo DEF Add, LoggerInv, Distinct, EveryBufferInOnePlace
<1>4. EveryBufferInOnePlace'
  BY <1>1, <1>2, <1>3 DEF Add, LoggerInv, EveryBufferInOnePlace, Distinct
<1>5. /\ at'[t] = "send" /\ hand'[t] = None
      /\ \A u \in Threads : u # t => at'[u] = at[u] /\ hand'[u] = hand[u]
  BY <1>1 DEF Add, Goes, LoggerInv, TypeOK
<1>6. Places'
  BY <1>5 DEF Add, LoggerInv, Places, InHand, Threads, Callers
<1>7. TypeOK'
  BY <1>2 DEF Add, Goes, LoggerInv, TypeOK
<1> QED BY <1>4, <1>6, <1>7 DEF LoggerInv
-----------------------------------------------------------------------------
(* The logger goes from one place to another, its hands as they are.       *)
LEMMA LoggerMoves ==
  ASSUME LoggerInv, UNCHANGED <<pool, req, queue, batch, hand>>,
         NEW place, Goes("logger", place),
         hand["logger"] # None => place \in Working,
         hand["logger"] = None => place \in {"idle", "cut", "next"},
         place \in {"alarm", "channel", "set"} => InHand.kind = place,
         place \in {"publish", "copy", "signal"} => InHand.kind = "set",
         place \in {"idle", "cut"} => batch = <<>>
  PROVE  LoggerInv' <=> TypeOK'
<1>1. at'["logger"] = place /\ \A u \in Threads : u # "logger" => at'[u] = at[u]
  BY DEF Goes, LoggerInv, TypeOK, Threads
<1>2. Places'
  BY <1>1 DEF LoggerInv, Places, InHand, Threads, Callers, Working
<1>3. EveryBufferInOnePlace'
  BY DEF LoggerInv, EveryBufferInOnePlace, Held
<1> QED BY <1>2, <1>3 DEF LoggerInv

LEMMA WakeStep ==
  ASSUME LoggerInv, Wake \/ BatchDone
  PROVE  LoggerInv'
<1> USE DEF lists, client, tracing, db
<1>1. hand["logger"] = None /\ batch = <<>>
  BY DEF Wake, BatchDone, LoggerInv, Places, Working
<1>2. CASE Wake
  <2>1. at' \in [Threads -> {"idle", "round", "add", "send", "wait", "cut",
                             "next", "alarm", "channel", "set", "publish",
                             "copy", "signal", "put"}]
    BY <1>2 DEF Wake, Goes, LoggerInv, TypeOK
  <2>2. TypeOK'
    BY <1>2, <2>1 DEF Wake, LoggerInv, TypeOK
  <2> QED BY <1>1, <1>2, <2>2, LoggerMoves DEF Wake
<1>3. CASE BatchDone
  <2>1. at' \in [Threads -> {"idle", "round", "add", "send", "wait", "cut",
                             "next", "alarm", "channel", "set", "publish",
                             "copy", "signal", "put"}]
    BY <1>3 DEF BatchDone, Goes, LoggerInv, TypeOK
  <2>2. TypeOK'
    BY <1>3, <2>1 DEF BatchDone, LoggerInv, TypeOK
  <2> QED BY <1>1, <1>3, <2>2, LoggerMoves DEF BatchDone
<1> QED BY <1>2, <1>3

LEMMA CutStep ==
  ASSUME LoggerInv, Cut
  PROVE  LoggerInv'
<1> USE DEF lists, client, tracing, db
<1>1. TypeOK'
  <2>1. queue' \in Seq(Buffers) /\ batch' \in Seq(Buffers)
    BY DEF Cut, LoggerInv, TypeOK
  <2>2. at' \in [Threads -> {"idle", "round", "add", "send", "wait", "cut",
                             "next", "alarm", "channel", "set", "publish",
                             "copy", "signal", "put"}]
    BY DEF Cut, Goes, LoggerInv, TypeOK
  <2> QED BY <2>1, <2>2 DEF Cut, LoggerInv, TypeOK
<1>2. EveryBufferInOnePlace'
  <2>1. batch = <<>>
    BY DEF Cut, LoggerInv, Places
  <2> QED BY <2>1, EmptyList DEF Cut, LoggerInv, EveryBufferInOnePlace, Held
<1>3. at'["logger"] = "next" /\ \A u \in Callers : at'[u] = at[u]
  BY DEF Cut, Goes, LoggerInv, TypeOK, Threads, Callers
<1>4. Places'
  BY <1>3 DEF Cut, LoggerInv, Places, InHand, Callers, Working
<1> QED BY <1>1, <1>2, <1>4 DEF LoggerInv

LEMMA NextRequestStep ==
  ASSUME LoggerInv, NextRequest
  PROVE  LoggerInv'
<1> USE DEF lists, client, tracing, db
<1> DEFINE b == Head(batch)
<1>1. /\ b \in InList(batch) /\ b \in Buffers /\ b # None
      /\ batch' \in Seq(Buffers) /\ NoRepeats(batch')
      /\ InList(batch') = InList(batch) \ {b}
  BY TailList, LoggerAssumption
     DEF NextRequest, LoggerInv, TypeOK, EveryBufferInOnePlace
<1>2. /\ hand' = [hand EXCEPT !["logger"] = b]
      /\ Goes("logger", req[b].kind)
  BY DEF NextRequest
<1> HIDE DEF b
<1>3. hand["logger"] = None /\ "logger" \in Threads /\ b \notin Held
  BY <1>1 DEF NextRequest, LoggerInv, Places, Working, Threads,
              EveryBufferInOnePlace
<1>4. Held' = Held \cup {b} /\ Distinct'
  BY <1>1, <1>2, <1>3, HeldTakes DEF LoggerInv, Distinct, EveryBufferInOnePlace
<1>5. EveryBufferInOnePlace'
  BY <1>1, <1>3, <1>4
     DEF NextRequest, LoggerInv, EveryBufferInOnePlace, Distinct
<1>6. req[b].kind \in {"channel", "alarm", "set"}
  BY <1>1, RequestFields DEF LoggerInv, TypeOK
<1>7. /\ at'["logger"] = req[b].kind /\ hand'["logger"] = b
      /\ \A t \in Callers : at'[t] = at[t] /\ hand'[t] = hand[t]
  BY <1>2 DEF Goes, LoggerInv, TypeOK, Threads, Callers
<1>8. Places'
  BY <1>1, <1>6, <1>7 DEF NextRequest, LoggerInv, Places, InHand, Working
<1>9. TypeOK'
  BY <1>1, <1>2, <1>6 DEF NextRequest, Goes, LoggerInv, TypeOK
<1> QED BY <1>5, <1>8, <1>9 DEF LoggerInv

(* The result of an operation on the database is a database.               *)
LEMMA DatabaseTypes ==
  ASSUME TypeOK, NEW w \in Databases, Executes(w) \/ FailsAt(w) \/ UNCHANGED db
  PROVE  saved' \in Databases /\ work' \in Databases
  BY DEF Executes, FailsAt, db, TypeOK
(* The request in hand has the fields of its kind.                         *)
LEMMA InHandFields ==
  ASSUME LoggerInv
  PROVE  /\ at["logger"] = "alarm" => InHand.event \in 0 .. MaxEvents
         /\ at["logger"] = "channel" => InHand.channel \in Channels
         /\ at["logger"] \in {"set", "publish", "copy", "signal"} =>
              InHand.kind = "set" /\ InHand.channels \in TraceSets
         /\ at["logger"] \in Working => hand["logger"] # None
<1>1. at["logger"] \in Working => hand["logger"] \in Buffers
  BY DEF LoggerInv, TypeOK, Places, Threads
<1>2. at["logger"] \in Working => InHand \in Requests
  BY <1>1 DEF LoggerInv, TypeOK, InHand
<1> QED BY <1>2, RequestFields DEF LoggerInv, Places, Working

LEMMA HandleAlarmStep ==
  ASSUME LoggerInv, HandleAlarm
  PROVE  LoggerInv'
<1> USE DEF lists, client, tracing
<1> DEFINE w == [work EXCEPT !.alarms = Append(@, InHand.event)]
<1>1. w \in Databases /\ work \in Databases
  <2>1. InHand.event \in 0 .. MaxEvents /\ work \in Databases
    BY InHandFields DEF HandleAlarm, LoggerInv, TypeOK
  <2>2. Append(work.alarms, InHand.event) \in Seq(0 .. MaxEvents)
    BY <2>1 DEF Databases
  <2> QED BY <2>1, <2>2 DEF Databases
<1>2. Executes(w) \/ FailsAt(work)
  BY DEF HandleAlarm
<1> HIDE DEF w
<1>3. saved' \in Databases /\ work' \in Databases
  BY <1>1, <1>2, DatabaseTypes DEF LoggerInv
<1>4. TypeOK'
  BY <1>3 DEF HandleAlarm, Goes, LoggerInv, TypeOK
<1> QED BY <1>4, LoggerMoves, InHandFields DEF HandleAlarm, Working

LEMMA HandleChannelStep ==
  ASSUME LoggerInv, HandleChannel
  PROVE  LoggerInv'
<1> USE DEF lists, client, tracing
<1> DEFINE w == [work EXCEPT !.rows = @ \cup {InHand.channel}]
<1>1. w \in Databases /\ work \in Databases
  BY InHandFields DEF HandleChannel, LoggerInv, TypeOK, Databases
<1>2. Executes(w) \/ FailsAt(work) \/ UNCHANGED db
  BY DEF HandleChannel
<1> HIDE DEF w
<1>3. saved' \in Databases /\ work' \in Databases
  BY <1>1, <1>2, DatabaseTypes DEF LoggerInv
<1>4. TypeOK'
  BY <1>3 DEF HandleChannel, Goes, LoggerInv, TypeOK
<1> QED BY <1>4, LoggerMoves, InHandFields DEF HandleChannel, Working

LEMMA HandleSetStep ==
  ASSUME LoggerInv, HandleSet
  PROVE  LoggerInv'
<1> USE DEF lists, client, tracing
<1> DEFINE s == InHand.channels
           replaced == [work EXCEPT !.trace = s, !.rows = {}]
           partial(done) == [work EXCEPT !.trace = done]
<1>1. s \subseteq Channels
  BY InHandFields, LoggerAssumption DEF HandleSet
<1>2. /\ replaced \in Databases /\ work \in Databases
      /\ \A done \in SUBSET s : partial(done) \in Databases
  BY <1>1 DEF LoggerInv, TypeOK, Databases
<1>3. \/ Executes(replaced) /\ Goes("logger", "publish")
      \/ FailsAt(work) /\ Goes("logger", "signal")
      \/ \E done \in SUBSET s : FailsAt(partial(done)) /\ Goes("logger", "signal")
  BY DEF HandleSet
<1> HIDE DEF s, replaced, partial
<1>4. saved' \in Databases /\ work' \in Databases
  BY <1>2, <1>3, DatabaseTypes DEF LoggerInv
<1>5. PICK place \in {"publish", "signal"} : Goes("logger", place)
  BY <1>3
<1>6. TypeOK'
  BY <1>4, <1>5 DEF HandleSet, Goes, LoggerInv, TypeOK
<1> QED BY <1>5, <1>6, LoggerMoves, InHandFields DEF HandleSet, Working

LEMMA SetGoesOn ==
  ASSUME LoggerInv, Publish \/ Copy \/ Signal
  PROVE  LoggerInv'
<1> USE DEF lists, client, db, tracing
<1>1. CASE Publish
  <2>1. InHand.channels \subseteq Channels
    BY <1>1, InHandFields, LoggerAssumption DEF Publish
  <2>2. TypeOK'
    BY <1>1, <2>1 DEF Publish, Goes, LoggerInv, TypeOK
  <2> QED BY <1>1, <2>2, LoggerMoves, InHandFields DEF Publish, Working
<1>2. CASE Copy
  <2>1. InHand.channels \subseteq Channels
    BY <1>2, InHandFields, LoggerAssumption DEF Copy
  <2>2. TypeOK'
    BY <1>2, <2>1 DEF Copy, Goes, LoggerInv, TypeOK
  <2> QED BY <1>2, <2>2, LoggerMoves, InHandFields DEF Copy, Working
<1>3. CASE Signal
  <2>1. TypeOK'
    BY <1>3 DEF Signal, Goes, LoggerInv, TypeOK
  <2> QED BY <1>3, <2>1, LoggerMoves, InHandFields DEF Signal, Working
<1> QED BY <1>1, <1>2, <1>3

LEMMA PutBackStep ==
  ASSUME LoggerInv, PutBack
  PROVE  LoggerInv'
<1> USE DEF lists, client, db, tracing
<1> DEFINE b == hand["logger"]
<1>1. b # None /\ b \in Buffers /\ "logger" \in Threads
  BY InHandFields DEF PutBack, Working, LoggerInv, TypeOK, Threads
<1>2. Held' = Held \ {b} /\ Distinct' /\ b \in Held
  BY <1>1, HeldLetsGo DEF PutBack, LoggerInv, Distinct, EveryBufferInOnePlace
<1>3. EveryBufferInOnePlace'
  BY <1>1, <1>2 DEF PutBack, LoggerInv, EveryBufferInOnePlace, Distinct
<1>4. /\ at'["logger"] = "next" /\ hand'["logger"] = None
      /\ \A t \in Callers : at'[t] = at[t] /\ hand'[t] = hand[t]
  BY DEF PutBack, Goes, LoggerInv, TypeOK, Threads, Callers
<1>5. Places'
  BY <1>4 DEF LoggerInv, Places, Callers, Working
<1>6. AlarmRequest(0) \in Requests
  BY RequestTypes, LoggerAssumption
<1>7. TypeOK'
  BY <1>1, <1>6 DEF PutBack, Goes, LoggerInv, TypeOK
<1> QED BY <1>3, <1>5, <1>7 DEF LoggerInv
(* What is left of a list when its first k elements are removed.           *)
LEMMA Suffix ==
  ASSUME NEW S, NEW s \in Seq(S), NEW k \in 0 .. Len(s)
  PROVE  /\ SubSeq(s, k + 1, Len(s)) \in Seq(S)
         /\ Len(SubSeq(s, k + 1, Len(s))) = Len(s) - k
         /\ \A i \in 1 .. Len(s) - k : SubSeq(s, k + 1, Len(s))[i] = s[k + i]
<1>1. k + 1 \in Int /\ Len(s) \in Int
  OBVIOUS
<1>2. \A i \in k + 1 .. Len(s) : s[i] \in S
  OBVIOUS
<1>3. /\ SubSeq(s, k + 1, Len(s)) \in Seq(S)
      /\ Len(SubSeq(s, k + 1, Len(s))) =
           IF k + 1 <= Len(s) THEN Len(s) - (k + 1) + 1 ELSE 0
      /\ \A i \in 1 .. Len(s) - (k + 1) + 1 :
           SubSeq(s, k + 1, Len(s))[i] = s[(k + 1) + i - 1]
  BY <1>1, <1>2, SubSeqProperties
<1> DEFINE r == SubSeq(s, k + 1, Len(s))
<1> HIDE DEF r
<1>4. /\ r \in Seq(S)
      /\ Len(r) = IF k + 1 <= Len(s) THEN Len(s) - (k + 1) + 1 ELSE 0
      /\ \A i \in 1 .. Len(s) - (k + 1) + 1 : r[i] = s[(k + 1) + i - 1]
  BY <1>3, Zenon DEF r
<1>5. Len(s) - (k + 1) + 1 = Len(s) - k
  BY <1>1
<1>6. \A i \in 1 .. Len(s) - k : (k + 1) + i - 1 = k + i
  BY <1>1
<1>7. Len(r) = Len(s) - k
  BY <1>4, <1>1
<1>8. \A i \in 1 .. Len(s) - k : r[i] = s[k + i]
  BY <1>4, <1>5, <1>6
<1> QED BY <1>4, <1>7, <1>8, Zenon DEF r

LEMMA CleanupStep ==
  ASSUME LoggerInv, Cleanup
  PROVE  LoggerInv'
<1> USE DEF lists, client, tracing
<1>1. PICK old \in SUBSET (work.rows \cap traced), k \in 0 .. Len(work.alarms) :
        LET w == [work EXCEPT !.rows = @ \ old,
                    !.alarms = SubSeq(@, k + 1, Len(@))]
        IN  Executes(w) \/ FailsAt(w)
  BY DEF Cleanup
<1> DEFINE w == [work EXCEPT !.rows = @ \ old,
                   !.alarms = SubSeq(@, k + 1, Len(@))]
<1>2. w \in Databases
  <2>1. work \in Databases /\ work.alarms \in Seq(0 .. MaxEvents)
    BY DEF LoggerInv, TypeOK, Databases
  <2>2. SubSeq(work.alarms, k + 1, Len(work.alarms)) \in Seq(0 .. MaxEvents)
    BY <2>1, Suffix, Zenon
  <2> QED BY <2>1, <2>2 DEF Databases
<1>3. Executes(w) \/ FailsAt(w)
  BY <1>1
<1> HIDE DEF w
<1>4. saved' \in Databases /\ work' \in Databases
  BY <1>2, <1>3, DatabaseTypes DEF LoggerInv
<1>5. TypeOK'
  BY <1>4 DEF Cleanup, LoggerInv, TypeOK
<1>6. Places' /\ EveryBufferInOnePlace'
  BY DEF Cleanup, LoggerInv, Places, InHand, EveryBufferInOnePlace, Held
<1> QED BY <1>5, <1>6 DEF LoggerInv

LEMMA RestartStep ==
  ASSUME LoggerInv, Restart
  PROVE  LoggerInv'
<1>1. AlarmRequest(0) \in Requests
  BY RequestTypes, LoggerAssumption
<1>2. req' \in [Buffers -> Requests] /\ hand' \in [Threads -> Buffers \cup {None}]
  BY <1>1 DEF Restart
<1>3. queue' \in Seq(Buffers) /\ batch' \in Seq(Buffers)
  BY DEF Restart
<1>4. trace' \subseteq Channels /\ traced' \subseteq Channels
  BY DEF Restart, LoggerInv, TypeOK, Databases
<1>5. TypeOK'
  BY <1>2, <1>3, <1>4 DEF Restart, LoggerInv, TypeOK
<1>6. Places'
  BY DEF Restart, Places, Threads, Callers, Working
<1>7. EveryBufferInOnePlace'
  BY EmptyList DEF Restart, EveryBufferInOnePlace, Held, Threads
<1> QED BY <1>5, <1>6, <1>7 DEF LoggerInv

LEMMA LoggerStutter == LoggerInv /\ UNCHANGED vars => LoggerInv'
  BY DEF vars, lists, client, tracing, db, LoggerInv, TypeOK, Places, InHand,
         EveryBufferInOnePlace, Held

LEMMA LoggerStepKeeps == LoggerInv /\ [Next]_vars => LoggerInv'
  BY LogAlarmStep, LogChannelStep, RequestSetStep, CallerStepKeeps, AddStep,
     WakeStep, CutStep, NextRequestStep, HandleAlarmStep, HandleChannelStep,
     HandleSetStep, SetGoesOn, PutBackStep, CleanupStep, RestartStep,
     LoggerStutter, Zenon
     DEF Next, CallerStep, LoggerStep
-----------------------------------------------------------------------------
(* The state of the logger keeps its type, for a pool of any size.         *)
THEOREM LoggerTyping == Spec => []TypeOK
<1>1. LoggerInv => TypeOK
  BY DEF LoggerInv
<1> QED BY <1>1, InitLogger, LoggerStepKeeps, PTL DEF Spec

(* No buffer of the request pool is lost or used twice, whatever fails and *)
(* however the threads interleave (logger_req_buffer_pool_get and _put).   *)
THEOREM NoBufferIsLost == Spec => []EveryBufferInOnePlace
<1>1. LoggerInv => EveryBufferInOnePlace
  BY DEF LoggerInv
<1> QED BY <1>1, InitLogger, LoggerStepKeeps, PTL DEF Spec
-----------------------------------------------------------------------------
(***************************************************************************)
(* The order of alarm events.  On its way to the database an event passes  *)
(* from the hands of the thread that reports it through the queue and the  *)
(* batch to the hands of the logger, and everywhere the events ahead of it *)
(* are older: only one thread at a time reports events of the alarm, since *)
(* it keeps the alarm locked until its event is in the queue.              *)
(***************************************************************************)
IsAlarm(b) == req[b].kind = "alarm"
Event(b)   == req[b].event

CallersHold == {hand[t] : t \in Callers} \ {None}
BeingStored == IF at["logger"] = "alarm" THEN {hand["logger"]} ELSE {}
OnTheWay    == CallersHold \cup InList(queue) \cup InList(batch) \cup BeingStored

AllBefore(S, T) ==
  \A b \in S, c \in T : IsAlarm(b) /\ IsAlarm(c) => Event(b) < Event(c)

ListInOrder(list) ==
  \A i, j \in 1 .. Len(list) :
    i < j /\ IsAlarm(list[i]) /\ IsAlarm(list[j])
      => Event(list[i]) < Event(list[j])

WayInOrder ==
  /\ ListInOrder(queue) /\ ListInOrder(batch)
  /\ AllBefore(InList(queue), CallersHold)
  /\ AllBefore(InList(batch), InList(queue) \cup CallersHold)
  /\ AllBefore(BeingStored, InList(batch) \cup InList(queue) \cup CallersHold)

OneReporter ==
  \A t, u \in Callers :
    /\ hand[t] # None /\ hand[u] # None
    /\ IsAlarm(hand[t]) /\ IsAlarm(hand[u])
    => t = u

Ascending(s) == \A i, j \in 1 .. Len(s) : i < j => s[i] < s[j]
Below(s, n)  == \A i \in 1 .. Len(s) : s[i] < n

StoredInOrder ==
  /\ Ascending(saved.alarms) /\ Ascending(work.alarms)
  /\ Below(saved.alarms, events + 1) /\ Below(work.alarms, events + 1)

NewerThanStored ==
  \A b \in OnTheWay :
    IsAlarm(b) => /\ Event(b) <= events
                  /\ Below(saved.alarms, Event(b)) /\ Below(work.alarms, Event(b))

OrderInv == WayInOrder /\ OneReporter /\ StoredInOrder /\ NewerThanStored

LEMMA InitOrder == Init => OrderInv
  BY DEF Init, OrderInv, WayInOrder, ListInOrder, AllBefore, InList,
         CallersHold, BeingStored, OneReporter, StoredInOrder, Ascending,
         Below, NewerThanStored, OnTheWay, Threads, Callers

(* The buffers on their way are in use, and hold requests.                 *)
LEMMA OnTheWayInUse ==
  ASSUME LoggerInv
  PROVE  /\ OnTheWay \subseteq Buffers /\ OnTheWay \cap pool = {}
         /\ CallersHold \cap (InList(queue) \cup InList(batch)) = {}
         /\ \A t \in Callers : hand[t] # None => hand[t] \in CallersHold
         /\ \A b \in OnTheWay : b \in Held \/ b \in InList(queue) \/ b \in InList(batch)
         /\ \A b \in OnTheWay : IsAlarm(b) => Event(b) \in 0 .. MaxEvents
         /\ events \in Nat
<1>1. CallersHold \subseteq Held
  BY DEF CallersHold, Held, Threads, Callers
<1>2. BeingStored \subseteq Held
  BY DEF BeingStored, Held, Threads, LoggerInv, Places, Working
<1>3. OnTheWay \subseteq Buffers /\ OnTheWay \cap pool = {}
  BY <1>1, <1>2 DEF OnTheWay, LoggerInv, EveryBufferInOnePlace
<1>4. \A b \in OnTheWay : IsAlarm(b) => Event(b) \in 0 .. MaxEvents
  BY <1>3, RequestFields DEF LoggerInv, TypeOK, IsAlarm, Event
<1>5. CallersHold \cap (InList(queue) \cup InList(batch)) = {}
  BY <1>1 DEF LoggerInv, EveryBufferInOnePlace
<1>6. \A t \in Callers : hand[t] # None => hand[t] \in CallersHold
  BY DEF CallersHold
<1>7. \A b \in OnTheWay : b \in Held \/ b \in InList(queue) \/ b \in InList(batch)
  BY <1>1, <1>2 DEF OnTheWay
<1>8. events \in Nat
  BY DEF LoggerInv, TypeOK
<1> QED BY <1>3, <1>4, <1>5, <1>6, <1>7, <1>8

(* A step that moves no buffer on its way, and leaves the database alone.  *)
LEMMA OrderFrame ==
  ASSUME OrderInv, LoggerInv,
         UNCHANGED <<queue, batch, events, saved, work>>,
         \A t \in Callers : hand'[t] = hand[t],
         BeingStored' \subseteq BeingStored,
         \A b \in OnTheWay : req'[b] = req[b]
  PROVE  OrderInv'
<1>1. CallersHold' = CallersHold
  BY DEF CallersHold
<1>2. OnTheWay' \subseteq OnTheWay
  BY <1>1 DEF OnTheWay
<1>3. \A b \in OnTheWay : (IsAlarm(b))' = IsAlarm(b) /\ (Event(b))' = Event(b)
  BY DEF IsAlarm, Event
<1>4. /\ \A i \in 1 .. Len(queue) : queue[i] \in OnTheWay
      /\ \A i \in 1 .. Len(batch) : batch[i] \in OnTheWay
  BY DEF OnTheWay, InList
<1>5. ListInOrder(queue)' /\ ListInOrder(batch)'
  BY <1>3, <1>4 DEF OrderInv, WayInOrder, ListInOrder
<1>6. WayInOrder'
  BY <1>1, <1>3, <1>5 DEF OrderInv, WayInOrder, AllBefore, OnTheWay
<1>7. OneReporter'
  BY <1>3, OnTheWayInUse DEF OrderInv, OneReporter, OnTheWay
<1>8. StoredInOrder' /\ NewerThanStored'
  BY <1>2, <1>3 DEF OrderInv, StoredInOrder, NewerThanStored
<1> QED BY <1>6, <1>7, <1>8 DEF OrderInv
LEMMA ElementOf ==
  ASSUME NEW S, NEW s \in Seq(S), NEW i \in 1 .. Len(s)
  PROVE  s[i] \in S
  OBVIOUS

LEMMA StoredTypes ==
  ASSUME TypeOK
  PROVE  /\ saved.alarms \in Seq(0 .. MaxEvents) /\ work.alarms \in Seq(0 .. MaxEvents)
         /\ \A i \in 1 .. Len(saved.alarms) : saved.alarms[i] \in Nat
         /\ \A i \in 1 .. Len(work.alarms) : work.alarms[i] \in Nat
<1>1. saved.alarms \in Seq(0 .. MaxEvents) /\ work.alarms \in Seq(0 .. MaxEvents)
  BY DEF TypeOK, Databases
<1>2. ASSUME NEW s \in Seq(0 .. MaxEvents), NEW i \in 1 .. Len(s)
      PROVE  s[i] \in Nat
  <2>1. s[i] \in 0 .. MaxEvents
    BY ElementOf
  <2> QED BY <2>1
<1> QED BY <1>1, <1>2

(* A caller takes a buffer for the newest event, or for something else.    *)
LEMMA OrderTake ==
  ASSUME OrderInv, LoggerInv, NEW t \in Callers, at[t] # "add",
         NEW r \in Requests, TakeOrDrop(t, r),
         UNCHANGED <<queue, batch, saved, work>>,
         events' \in {events, events + 1},
         r.kind = "alarm" => r.event = events + 1 /\ events' = events + 1
                               /\ ~AlarmLocked
  PROVE  OrderInv'
<1>1. StoredInOrder'
  BY StoredTypes, OnTheWayInUse
     DEF LoggerInv, OrderInv, StoredInOrder, Below
<1>2. CASE UNCHANGED <<pool, req, hand, at>>
  <2>1. WayInOrder' /\ OneReporter'
    BY <1>2 DEF OrderInv, WayInOrder, ListInOrder, AllBefore, InList, IsAlarm,
                Event, OneReporter, CallersHold, BeingStored
  <2>2. OnTheWay' = OnTheWay /\ \A b \in OnTheWay : (IsAlarm(b))' = IsAlarm(b) /\ (Event(b))' = Event(b)
    BY <1>2 DEF OnTheWay, CallersHold, BeingStored, IsAlarm, Event
  <2>3. NewerThanStored'
    BY <2>2, OnTheWayInUse DEF OrderInv, NewerThanStored
  <2> QED BY <1>1, <2>1, <2>3 DEF OrderInv
<1>3. CASE Take(t, r)
  <2>1. PICK b \in pool : /\ req' = [req EXCEPT ![b] = r]
                          /\ hand' = [hand EXCEPT ![t] = b]
                          /\ Goes(t, "add")
    BY <1>3 DEF Take
  <2>2. /\ b \in Buffers /\ b # None /\ b \notin OnTheWay /\ hand[t] = None
        /\ t \in Threads /\ t # "logger"
    BY OnTheWayInUse, LoggerAssumption
       DEF LoggerInv, TypeOK, Places, Threads, Callers
  <2>3. /\ \A c \in OnTheWay : ((IsAlarm(c))' <=> IsAlarm(c)) /\ (Event(c))' = Event(c)
        /\ ((IsAlarm(b))' <=> r.kind = "alarm") /\ (Event(b))' = r.event
    BY <2>1, <2>2, OnTheWayInUse DEF IsAlarm, Event, LoggerInv, TypeOK
  <2>4. /\ hand'[t] = b /\ \A u \in Threads : u # t => hand'[u] = hand[u]
        /\ at'["logger"] = at["logger"]
    BY <2>1, <2>2 DEF Goes, LoggerInv, TypeOK, Threads
  <2>5. CallersHold' = CallersHold \cup {b} /\ BeingStored' = BeingStored
    BY <2>2, <2>4 DEF CallersHold, BeingStored, Threads, Callers
  <2>6. OnTheWay' = OnTheWay \cup {b}
    BY <2>5 DEF OnTheWay
  <2>7. /\ \A i \in 1 .. Len(queue) : queue[i] \in OnTheWay
        /\ \A i \in 1 .. Len(batch) : batch[i] \in OnTheWay
    BY DEF OnTheWay, InList
  <2>8. ListInOrder(queue)' /\ ListInOrder(batch)'
    BY <2>3, <2>7 DEF OrderInv, WayInOrder, ListInOrder
  <2>9. \A c \in OnTheWay : IsAlarm(c) /\ r.kind = "alarm" => Event(c) < r.event
    BY OnTheWayInUse DEF OrderInv, NewerThanStored
  <2>10. WayInOrder'
    BY <2>3, <2>5, <2>8, <2>9 DEF OrderInv, WayInOrder, AllBefore, OnTheWay
  <2>11. OneReporter'
    <3>1. \A u \in Callers : hand[u] # None /\ IsAlarm(hand[u]) => AlarmLocked
      BY DEF AlarmLocked, IsAlarm, LoggerInv, TypeOK, Threads
    <3>2. \A u \in Callers : u # t /\ hand[u] # None => hand[u] \in OnTheWay
      BY OnTheWayInUse DEF OnTheWay
    <3> QED
      BY <2>3, <2>4, <3>1, <3>2 DEF OrderInv, OneReporter, Threads
  <2>12. NewerThanStored'
    <3>1. r.kind = "alarm" => Below(saved.alarms, r.event) /\ Below(work.alarms, r.event)
      BY DEF OrderInv, StoredInOrder
    <3> QED
      BY <2>3, <2>6, <3>1, OnTheWayInUse DEF OrderInv, NewerThanStored
  <2> QED BY <1>1, <2>10, <2>11, <2>12 DEF OrderInv
<1> QED BY <1>2, <1>3 DEF TakeOrDrop

(* A buffer is added to the queue.                                         *)
LEMMA OrderAdd ==
  ASSUME OrderInv, LoggerInv, NEW t \in Callers, Add(t)
  PROVE  OrderInv'
<1> USE DEF lists, db
<1> DEFINE b == hand[t]
<1>1. /\ b \in Buffers /\ b # None /\ b \in CallersHold /\ t \in Threads
      /\ queue \in Seq(Buffers)
  BY OnTheWayInUse, LoggerAssumption DEF Add, LoggerInv, TypeOK, Places, Threads
<1>2. /\ queue' = Append(queue, b) /\ batch' = batch /\ req' = req
      /\ hand' = [hand EXCEPT ![t] = None] /\ events' = events
      /\ saved' = saved /\ work' = work
  BY DEF Add
<1>3. /\ hand'[t] = None /\ \A u \in Threads : u # t => hand'[u] = hand[u]
      /\ at'["logger"] = at["logger"]
  BY <1>1, <1>2 DEF Add, Goes, LoggerInv, TypeOK, Threads, Callers
<1>4. CallersHold' \subseteq CallersHold /\ BeingStored' = BeingStored
  BY <1>3 DEF CallersHold, BeingStored, Threads, Callers
<1>5. IsAlarm(b) => \A c \in CallersHold' : ~IsAlarm(c)
  BY <1>1, <1>3 DEF OrderInv, OneReporter, CallersHold, Threads
<1> HIDE DEF b
<1>6. InList(queue') = InList(queue) \cup {b}
  <2>1. b \notin InList(queue) /\ NoRepeats(queue)
    BY <1>1, OnTheWayInUse DEF LoggerInv, EveryBufferInOnePlace
  <2> QED BY <1>1, <1>2, <2>1, AppendList
<1>7. OnTheWay' \subseteq OnTheWay
  BY <1>1, <1>2, <1>4, <1>6 DEF OnTheWay
<1>8. ListInOrder(queue')
  <2>1. /\ Len(queue) \in Nat /\ Len(queue') = Len(queue) + 1
        /\ \A i \in 1 .. Len(queue) : queue'[i] = queue[i] /\ queue[i] \in InList(queue)
        /\ queue'[Len(queue) + 1] = b
    BY <1>1, <1>2 DEF InList
  <2>2. \A c \in InList(queue) : IsAlarm(c) /\ IsAlarm(b) => Event(c) < Event(b)
    BY <1>1 DEF OrderInv, WayInOrder, AllBefore
  <2> SUFFICES ASSUME NEW i \in 1 .. Len(queue'), NEW j \in 1 .. Len(queue'),
                      i < j, IsAlarm(queue'[i]), IsAlarm(queue'[j])
               PROVE  Event(queue'[i]) < Event(queue'[j])
    BY DEF ListInOrder
  <2>3. i \in 1 .. Len(queue)
    BY <2>1
  <2>4. CASE j \in 1 .. Len(queue)
    BY <2>1, <2>3, <2>4 DEF OrderInv, WayInOrder, ListInOrder
  <2>5. CASE j = Len(queue) + 1
    BY <2>1, <2>2, <2>3, <2>5
  <2> QED BY <2>1, <2>4, <2>5
<1>9. (\A c : (IsAlarm(c))' = IsAlarm(c)) /\ \A c : (Event(c))' = Event(c)
  BY <1>2 DEF IsAlarm, Event
<1>10. ListInOrder(queue)' /\ ListInOrder(batch)'
  BY <1>2, <1>8, <1>9 DEF ListInOrder, OrderInv, WayInOrder
<1>11. WayInOrder'
  BY <1>1, <1>2, <1>4, <1>5, <1>6, <1>9, <1>10 DEF OrderInv, WayInOrder, AllBefore
<1>12. OneReporter'
  BY <1>3, <1>9 DEF OrderInv, OneReporter, Threads
<1>13. StoredInOrder' /\ NewerThanStored'
  BY <1>2, <1>7, <1>9 DEF OrderInv, StoredInOrder, NewerThanStored
<1> QED BY <1>11, <1>12, <1>13 DEF OrderInv
(* The steps of the callers.                                               *)
LEMMA OrderCallers ==
  ASSUME OrderInv, LoggerInv,
         \/ \E t \in Callers : LogAlarm(t) \/ CallerStep(t)
         \/ StartRound \/ LogChannel \/ EndRound
         \/ \E t \in Requesters :
              Released(t) \/ \E s \in TraceSets : RequestSet(t, s)
  PROVE  OrderInv'
<1> USE DEF lists, db, client, tracing
<1>1. ASSUME NEW t \in Callers, LogAlarm(t)
      PROVE  OrderInv'
  <2> DEFINE r == AlarmRequest(events + 1)
  <2>1. r \in Requests /\ r.kind = "alarm" /\ r.event = events + 1
    <3>1. events + 1 \in 0 .. MaxEvents
      BY <1>1, LoggerAssumption DEF LogAlarm, LoggerInv, TypeOK
    <3> QED BY <3>1, RequestTypes DEF AlarmRequest
  <2>2. /\ TakeOrDrop(t, r) /\ at[t] # "add" /\ ~AlarmLocked
        /\ UNCHANGED <<queue, batch, saved, work>> /\ events' = events + 1
    BY <1>1 DEF LogAlarm
  <2> HIDE DEF r
  <2> QED BY <2>1, <2>2, OrderTake
<1>2. ASSUME NEW t \in Callers, Add(t)
      PROVE  OrderInv'
  BY <1>2, OrderAdd
<1>3. CASE LogChannel
  <2>1. PICK c \in round : TakeOrDrop("core", ChannelRequest(c))
    BY <1>3 DEF LogChannel
  <2>2. ChannelRequest(c) \in Requests /\ ChannelRequest(c).kind = "channel"
    BY RequestTypes DEF LoggerInv, TypeOK, ChannelRequest
  <2>3. /\ at["core"] # "add" /\ UNCHANGED <<queue, batch, saved, work>>
        /\ events' = events
    BY <1>3 DEF LogChannel
  <2> QED BY <2>1, <2>2, <2>3, OrderTake
<1>4. ASSUME NEW t \in Requesters, NEW s \in TraceSets, RequestSet(t, s)
      PROVE  OrderInv'
  <2>1. TakeOrDrop(t, SetRequest(t, s))
    BY <1>4 DEF RequestSet, TakeOrDrop
  <2>2. SetRequest(t, s) \in Requests /\ SetRequest(t, s).kind = "set"
    BY RequestTypes DEF SetRequest
  <2>3. /\ at[t] # "add" /\ UNCHANGED <<queue, batch, saved, work>>
        /\ events' = events
    BY <1>4 DEF RequestSet
  <2> QED BY <2>1, <2>2, <2>3, OrderTake
<1>5. CASE \/ StartRound \/ EndRound
           \/ \E t \in Requesters : Released(t)
           \/ \E t \in Callers : Send(t)
  <2>1. /\ UNCHANGED <<queue, batch, events, saved, work, hand, req>>
    BY <1>5 DEF StartRound, EndRound, Released, Send
  <2>2. \E t \in Callers : \E place : Goes(t, place)
    BY <1>5 DEF StartRound, EndRound, Released, Send
  <2>3. at'["logger"] = at["logger"]
    BY <2>2 DEF Goes, LoggerInv, TypeOK, Threads
  <2>4. BeingStored' = BeingStored
    BY <2>1, <2>3 DEF BeingStored
  <2> QED BY <2>1, <2>4, OrderFrame
<1> QED BY <1>1, <1>2, <1>3, <1>4, <1>5 DEF CallerStep

(* The logger takes the queue as its next batch.                           *)
LEMMA OrderCut ==
  ASSUME OrderInv, LoggerInv, Cut
  PROVE  OrderInv'
<1> USE DEF lists, db
<1>1. /\ batch = <<>> /\ batch' = queue /\ queue' = <<>>
      /\ UNCHANGED <<req, hand, events, saved, work>>
  BY DEF Cut, LoggerInv, Places
<1>2. /\ InList(batch) = {} /\ InList(batch') = InList(queue) /\ InList(queue') = {}
      /\ CallersHold' = CallersHold
  BY <1>1, EmptyList DEF CallersHold
<1>3. BeingStored' = {}
  BY DEF Cut, Goes, LoggerInv, TypeOK, BeingStored, Threads
<1>4. OnTheWay' \subseteq OnTheWay
  BY <1>2, <1>3 DEF OnTheWay
<1>5. (\A c : (IsAlarm(c))' <=> IsAlarm(c)) /\ \A c : (Event(c))' = Event(c)
  BY <1>1 DEF IsAlarm, Event
<1>6. ListInOrder(queue)' /\ ListInOrder(batch)'
  BY <1>1, <1>5 DEF OrderInv, WayInOrder, ListInOrder
<1>7. WayInOrder'
  BY <1>2, <1>3, <1>5, <1>6 DEF OrderInv, WayInOrder, AllBefore
<1>8. OneReporter' /\ StoredInOrder'
  BY <1>1, <1>5 DEF OrderInv, OneReporter, StoredInOrder
<1>9. NewerThanStored'
  BY <1>1, <1>4, <1>5 DEF OrderInv, NewerThanStored
<1> QED BY <1>7, <1>8, <1>9 DEF OrderInv

(* The logger takes the next request of the batch into its hands.          *)
LEMMA OrderNext ==
  ASSUME OrderInv, LoggerInv, NextRequest
  PROVE  OrderInv'
<1> USE DEF lists, db
<1> DEFINE b == Head(batch)
<1>1. /\ batch \in Seq(Buffers) /\ batch # <<>> /\ NoRepeats(batch)
      /\ batch' = Tail(batch) /\ UNCHANGED <<queue, req, events, saved, work>>
      /\ \A t \in Callers : hand'[t] = hand[t]
      /\ hand'["logger"] = b /\ at'["logger"] = req[b].kind
  BY DEF NextRequest, Goes, LoggerInv, TypeOK, EveryBufferInOnePlace, Threads,
         Callers
<1>2. b \in InList(batch) /\ InList(batch') = InList(batch) \ {b}
  BY <1>1, TailList
<1>3. CallersHold' = CallersHold
  BY <1>1 DEF CallersHold
<1>4. BeingStored' \subseteq {b}
  BY <1>1 DEF BeingStored
<1>5. /\ \A i \in 1 .. Len(batch') : i + 1 \in 1 .. Len(batch) /\ batch'[i] = batch[i + 1]
      /\ b = batch[1] /\ 1 \in 1 .. Len(batch) /\ Len(batch') \in Nat
      /\ Len(batch) = Len(batch') + 1
  BY <1>1
<1> HIDE DEF b
<1>6. OnTheWay' \subseteq OnTheWay
  BY <1>1, <1>2, <1>3, <1>4 DEF OnTheWay
<1>7. (\A c : (IsAlarm(c))' <=> IsAlarm(c)) /\ \A c : (Event(c))' = Event(c)
  BY <1>1 DEF IsAlarm, Event
<1>8. ListInOrder(queue)' /\ ListInOrder(batch)'
  <2>1. ListInOrder(batch')
    <3> SUFFICES ASSUME NEW i \in 1 .. Len(batch'), NEW j \in 1 .. Len(batch'),
                        i < j, IsAlarm(batch'[i]), IsAlarm(batch'[j])
                 PROVE  Event(batch'[i]) < Event(batch'[j])
      BY DEF ListInOrder
    <3>1. i + 1 < j + 1 /\ i + 1 \in 1 .. Len(batch) /\ j + 1 \in 1 .. Len(batch)
      BY <1>5
    <3> QED BY <1>5, <3>1 DEF OrderInv, WayInOrder, ListInOrder
  <2> QED BY <1>1, <1>7, <2>1 DEF OrderInv, WayInOrder, ListInOrder
<1>9. AllBefore({b}, InList(batch'))
  <2> SUFFICES ASSUME NEW c \in InList(batch'), IsAlarm(b), IsAlarm(c)
               PROVE  Event(b) < Event(c)
    BY DEF AllBefore
  <2>1. PICK i \in 1 .. Len(batch') : c = batch'[i]
    BY DEF InList
  <2>2. 1 < i + 1 /\ i + 1 \in 1 .. Len(batch) /\ c = batch[i + 1]
    BY <1>5, <2>1
  <2> QED BY <1>5, <2>2 DEF OrderInv, WayInOrder, ListInOrder
<1>10. AllBefore({b}, InList(queue) \cup CallersHold)
  BY <1>2 DEF OrderInv, WayInOrder, AllBefore
<1>11. WayInOrder'
  BY <1>1, <1>2, <1>3, <1>4, <1>7, <1>8, <1>9, <1>10
     DEF OrderInv, WayInOrder, AllBefore
<1>12. OneReporter' /\ StoredInOrder'
  BY <1>1, <1>7 DEF OrderInv, OneReporter, StoredInOrder
<1>13. NewerThanStored'
  BY <1>1, <1>6, <1>7 DEF OrderInv, NewerThanStored
<1> QED BY <1>11, <1>12, <1>13 DEF OrderInv
(* An operation that leads to w stores nothing that is out of order.       *)
LEMMA OrderStored ==
  ASSUME StoredInOrder, NEW w, Ascending(w.alarms), Below(w.alarms, events + 1),
         Executes(w) \/ FailsAt(w) \/ UNCHANGED db, events' = events
  PROVE  /\ StoredInOrder'
         /\ \A n : /\ Below(saved.alarms, n) /\ Below(work.alarms, n)
                   /\ Below(w.alarms, n)
                 => Below(saved'.alarms, n) /\ Below(work'.alarms, n)
<1>1. saved' \in {saved, w} /\ work' \in {saved, work, w}
  BY DEF Executes, FailsAt, db
<1> QED BY <1>1 DEF StoredInOrder

(* The logger has worked on the request in its hands.                      *)
LEMMA OrderHandled ==
  ASSUME OrderInv, LoggerInv, UNCHANGED <<req, queue, batch, hand, events>>,
         BeingStored' = {}, NEW w,
         Ascending(w.alarms), Below(w.alarms, events + 1),
         \A b \in CallersHold \cup InList(queue) \cup InList(batch) :
           IsAlarm(b) => Below(w.alarms, Event(b)),
         Executes(w) \/ FailsAt(w) \/ UNCHANGED db
  PROVE  OrderInv'
<1>1. CallersHold' = CallersHold
  BY DEF CallersHold
<1>2. OnTheWay' = CallersHold \cup InList(queue) \cup InList(batch)
  BY <1>1 DEF OnTheWay
<1>3. (\A c : (IsAlarm(c))' <=> IsAlarm(c)) /\ \A c : (Event(c))' = Event(c)
  BY DEF IsAlarm, Event
<1>4. ListInOrder(queue)' /\ ListInOrder(batch)'
  BY <1>3 DEF OrderInv, WayInOrder, ListInOrder
<1>5. WayInOrder'
  BY <1>1, <1>3, <1>4 DEF OrderInv, WayInOrder, AllBefore
<1>6. OneReporter'
  BY <1>3 DEF OrderInv, OneReporter
<1>7. /\ StoredInOrder'
      /\ \A n : /\ Below(saved.alarms, n) /\ Below(work.alarms, n)
                /\ Below(w.alarms, n)
              => Below(saved'.alarms, n) /\ Below(work'.alarms, n)
  BY OrderStored DEF OrderInv
<1>8. ASSUME NEW b \in OnTheWay', (IsAlarm(b))'
      PROVE  /\ (Event(b))' <= events'
             /\ Below(saved'.alarms, Event(b)) /\ Below(work'.alarms, Event(b))
  <2>1. b \in OnTheWay /\ IsAlarm(b) /\ Below(w.alarms, Event(b))
    BY <1>2, <1>3, <1>8 DEF OnTheWay
  <2>2. /\ Event(b) <= events
        /\ Below(saved.alarms, Event(b)) /\ Below(work.alarms, Event(b))
    BY <2>1 DEF OrderInv, NewerThanStored
  <2> QED BY <1>3, <1>7, <2>1, <2>2
<1>9. NewerThanStored'
  BY <1>3, <1>8 DEF NewerThanStored, Below
<1> QED BY <1>5, <1>6, <1>7, <1>9 DEF OrderInv
(* An event is stored behind the older ones.                               *)
LEMMA OrderHandleAlarm ==
  ASSUME OrderInv, LoggerInv, HandleAlarm
  PROVE  OrderInv'
<1> USE DEF lists, tracing, client
<1> DEFINE b == hand["logger"]
           w == [work EXCEPT !.alarms = Append(@, InHand.event)]
<1>1. /\ b \in BeingStored /\ IsAlarm(b) /\ InHand.event = Event(b)
      /\ Event(b) \in Nat
  BY InHandFields DEF HandleAlarm, LoggerInv, Places, BeingStored, InHand, IsAlarm, Event
<1>2. /\ Event(b) <= events
      /\ Below(saved.alarms, Event(b)) /\ Below(work.alarms, Event(b))
  BY <1>1 DEF OrderInv, NewerThanStored, OnTheWay
<1>3. w.alarms = Append(work.alarms, Event(b))
  BY <1>1 DEF LoggerInv, TypeOK, Databases
<1>4. work.alarms \in Seq(Nat) /\ \A i \in 1 .. Len(work.alarms) : work.alarms[i] \in Nat
  <2>1. work.alarms \in Seq(0 .. MaxEvents)
    BY StoredTypes DEF LoggerInv
  <2>2. \A i \in 1 .. Len(work.alarms) : work.alarms[i] \in Nat
    BY StoredTypes DEF LoggerInv
  <2> QED BY <2>1, <2>2
<1>5. UNCHANGED <<req, queue, batch, hand, events>>
  BY DEF HandleAlarm
<1>6. BeingStored' = {}
  BY DEF HandleAlarm, Goes, LoggerInv, TypeOK, Threads, BeingStored
<1>7. Executes(w) \/ FailsAt(work)
  BY DEF HandleAlarm
<1> HIDE DEF b, w
<1>8. /\ Len(w.alarms) = Len(work.alarms) + 1 /\ Len(work.alarms) \in Nat
      /\ \A i \in 1 .. Len(work.alarms) : w.alarms[i] = work.alarms[i]
      /\ w.alarms[Len(work.alarms) + 1] = Event(b)
  BY <1>1, <1>3, <1>4
<1>9. \A i \in 1 .. Len(w.alarms) : i \in 1 .. Len(work.alarms) \/ i = Len(work.alarms) + 1
  BY <1>8
<1>10. events \in Nat
  BY OnTheWayInUse
<1>11. ASSUME NEW n \in Nat, Event(b) < n
       PROVE  Below(w.alarms, n)
  BY <1>1, <1>2, <1>4, <1>8, <1>9, <1>11 DEF Below
<1>12. Ascending(w.alarms)
  <2> SUFFICES ASSUME NEW i \in 1 .. Len(w.alarms), NEW j \in 1 .. Len(w.alarms),
                      i < j
               PROVE  w.alarms[i] < w.alarms[j]
    BY DEF Ascending
  <2>1. i \in 1 .. Len(work.alarms)
    BY <1>8
  <2>2. CASE j \in 1 .. Len(work.alarms)
    BY <1>8, <2>1, <2>2 DEF OrderInv, StoredInOrder, Ascending
  <2>3. CASE j = Len(work.alarms) + 1
    BY <1>2, <1>8, <2>1, <2>3 DEF Below
  <2> QED BY <1>9, <2>2, <2>3
<1>13. Below(w.alarms, events + 1)
  BY <1>1, <1>2, <1>10, <1>11
<1>14. \A c \in CallersHold \cup InList(queue) \cup InList(batch) :
         IsAlarm(c) => Below(w.alarms, Event(c))
  <2>1. \A c \in CallersHold \cup InList(queue) \cup InList(batch) :
          IsAlarm(c) => Event(b) < Event(c) /\ Event(c) \in Nat
    BY <1>1, OnTheWayInUse DEF OrderInv, WayInOrder, AllBefore, OnTheWay
  <2> QED BY <1>11, <2>1
<1>15. CASE Executes(w)
  BY <1>5, <1>6, <1>12, <1>13, <1>14, <1>15, OrderHandled
<1>16. CASE FailsAt(work)
  <2>1. /\ Ascending(work.alarms) /\ Below(work.alarms, events + 1)
        /\ \A c \in CallersHold \cup InList(queue) \cup InList(batch) :
             IsAlarm(c) => Below(work.alarms, Event(c))
    BY DEF OrderInv, StoredInOrder, NewerThanStored, OnTheWay
  <2> QED BY <1>5, <1>6, <1>16, <2>1, OrderHandled
<1> QED BY <1>7, <1>15, <1>16

(* Operations on the rows and the trace set leave the alarm events alone.  *)
LEMMA OrderOtherTables ==
  ASSUME OrderInv, LoggerInv, HandleChannel \/ HandleSet
  PROVE  OrderInv'
<1> USE DEF lists, tracing, client
<1>1. UNCHANGED <<req, queue, batch, hand, events>>
  BY DEF HandleChannel, HandleSet
<1>2. BeingStored' = {}
  BY DEF HandleChannel, HandleSet, Goes, LoggerInv, TypeOK, Threads, BeingStored
<1>3. \E w : /\ w.alarms = work.alarms
             /\ Executes(w) \/ FailsAt(w) \/ UNCHANGED db
  BY DEF HandleChannel, HandleSet, LoggerInv, TypeOK, Databases
<1>4. /\ Ascending(work.alarms) /\ Below(work.alarms, events + 1)
      /\ \A c \in CallersHold \cup InList(queue) \cup InList(batch) :
           IsAlarm(c) => Below(work.alarms, Event(c))
  BY DEF OrderInv, StoredInOrder, NewerThanStored, OnTheWay
<1> QED BY <1>1, <1>2, <1>3, <1>4, OrderHandled

(* Old events are deleted.                                                 *)
LEMMA OrderCleanup ==
  ASSUME OrderInv, LoggerInv, Cleanup
  PROVE  OrderInv'
<1> USE DEF lists, tracing, client
<1>1. PICK old \in SUBSET (work.rows \cap traced), k \in 0 .. Len(work.alarms) :
        LET w == [work EXCEPT !.rows = @ \ old,
                    !.alarms = SubSeq(@, k + 1, Len(@))]
        IN  Executes(w) \/ FailsAt(w)
  BY DEF Cleanup
<1> DEFINE w == [work EXCEPT !.rows = @ \ old,
                   !.alarms = SubSeq(@, k + 1, Len(@))]
<1>2. Executes(w) \/ FailsAt(w)
  BY <1>1
<1>3. w.alarms = SubSeq(work.alarms, k + 1, Len(work.alarms))
  BY DEF LoggerInv, TypeOK, Databases
<1> HIDE DEF w
<1>4. work.alarms \in Seq(0 .. MaxEvents)
  BY StoredTypes DEF LoggerInv
<1>5. /\ Len(w.alarms) = Len(work.alarms) - k
      /\ \A i \in 1 .. Len(work.alarms) - k : w.alarms[i] = work.alarms[k + i]
  BY <1>3, <1>4, Suffix
<1>6. /\ k \in Nat /\ k <= Len(work.alarms) /\ Len(work.alarms) \in Nat
  BY <1>4
<1>7. \A i \in 1 .. Len(w.alarms) : /\ k + i \in 1 .. Len(work.alarms)
                                     /\ w.alarms[i] = work.alarms[k + i]
  BY <1>5, <1>6
<1>8. Ascending(w.alarms)
  <2>1. \A i, j \in 1 .. Len(w.alarms) : i < j => k + i < k + j
    BY <1>6
  <2> QED BY <1>7, <2>1 DEF Ascending, OrderInv, StoredInOrder
<1>9. \A n : Below(work.alarms, n) => Below(w.alarms, n)
  BY <1>7 DEF Below
<1>10. /\ Below(w.alarms, events + 1)
       /\ \A c \in CallersHold \cup InList(queue) \cup InList(batch) :
            IsAlarm(c) => Below(w.alarms, Event(c))
  BY <1>9 DEF OrderInv, StoredInOrder, NewerThanStored, OnTheWay
<1>11. /\ UNCHANGED <<req, queue, batch, hand, events>> /\ BeingStored' = {}
  BY DEF Cleanup, BeingStored
<1> QED BY <1>2, <1>8, <1>10, <1>11, OrderHandled

(* The other steps of the logger, and the end of the server.               *)
LEMMA OrderOthers ==
  ASSUME OrderInv, LoggerInv,
         \/ Wake \/ BatchDone \/ Publish \/ Copy \/ Signal \/ PutBack
  PROVE  OrderInv'
<1> USE DEF lists, tracing, client, db
<1>1. UNCHANGED <<queue, batch, events, saved, work>>
  BY DEF Wake, BatchDone, Publish, Copy, Signal, PutBack
<1>2. \A t \in Callers : hand'[t] = hand[t]
  BY DEF Wake, BatchDone, Publish, Copy, Signal, PutBack, LoggerInv, TypeOK,
         Threads, Callers
<1>3. BeingStored' = {}
  BY DEF Wake, BatchDone, Publish, Copy, Signal, PutBack, Goes, LoggerInv,
         TypeOK, Threads, BeingStored
<1>4. \A b \in OnTheWay : req'[b] = req[b]
  <2>1. CASE PutBack
    <3>1. hand["logger"] \notin OnTheWay
      <4>1. at["logger"] = "put" /\ hand["logger"] # None /\ hand["logger"] \in Held
        BY <2>1, InHandFields DEF PutBack, Working, Held, Threads
      <4>2. BeingStored = {}
        BY <4>1 DEF BeingStored
      <4>3. hand["logger"] \notin CallersHold
        BY <4>1 DEF CallersHold, LoggerInv, EveryBufferInOnePlace, Threads, Callers
      <4> QED
        BY <4>1, <4>2, <4>3 DEF OnTheWay, LoggerInv, EveryBufferInOnePlace
    <3> QED BY <2>1, <3>1, OnTheWayInUse DEF PutBack, LoggerInv, TypeOK
  <2>2. CASE ~PutBack
    BY <2>2 DEF Wake, BatchDone, Publish, Copy, Signal
  <2> QED BY <2>1, <2>2
<1> QED BY <1>1, <1>2, <1>3, <1>4, OrderFrame

LEMMA OrderRestart ==
  ASSUME OrderInv, LoggerInv, Restart
  PROVE  OrderInv'
<1>1. CallersHold' = {} /\ BeingStored' = {} /\ InList(queue') = {} /\ InList(batch') = {}
  BY EmptyList DEF Restart, CallersHold, BeingStored, Threads, Callers
<1>2. WayInOrder'
  BY <1>1 DEF Restart, WayInOrder, ListInOrder, AllBefore
<1>3. OneReporter'
  BY DEF Restart, OneReporter, Threads, Callers
<1>4. NewerThanStored'
  BY <1>1 DEF NewerThanStored, OnTheWay
<1>5. StoredInOrder'
  BY DEF Restart, OrderInv, StoredInOrder
<1> QED BY <1>2, <1>3, <1>4, <1>5 DEF OrderInv

LEMMA OrderStep == LoggerInv /\ OrderInv /\ [Next]_vars => OrderInv'
<1> SUFFICES ASSUME LoggerInv, OrderInv, [Next]_vars
             PROVE  OrderInv'
  OBVIOUS
<1>1. CASE UNCHANGED vars
  <2>1. BeingStored' = BeingStored
    BY <1>1 DEF vars, BeingStored
  <2> QED BY <1>1, <2>1, OrderFrame DEF vars, lists, db
<1> QED
  BY <1>1, OrderCallers, OrderCut, OrderNext, OrderHandleAlarm,
     OrderOtherTables, OrderCleanup, OrderOthers, OrderRestart, Zenon
     DEF Next, LoggerStep

(* Whichever threads report the events of an alarm, and whatever fails,    *)
(* they are stored in the order in which they happened.                    *)
THEOREM AlarmEventsInOrder == Spec => []AlarmLogInOrder
<1>1. OrderInv => AlarmLogInOrder
  BY DEF OrderInv, StoredInOrder, Ascending, AlarmLogInOrder
<1> QED BY <1>1, InitLogger, InitOrder, LoggerStepKeeps, OrderStep, PTL DEF Spec
-----------------------------------------------------------------------------
(***************************************************************************)
(* The set of traced channels, as long as no statement fails and memory    *)
(* does not run out (commits may fail).  At most one request of a thread   *)
(* is on its way, the thread waits for it, and until it is answered the    *)
(* manager, the logger and the database take over its set one by one.      *)
(***************************************************************************)
InChange == IF at["logger"] \in {"set", "publish", "copy", "signal"}
            THEN {hand["logger"]} ELSE {}
Asked    == {b \in CallersHold \cup InList(queue) \cup InList(batch) \cup InChange :
               req[b].kind = "set"}

OneRequest ==
  /\ \A t \in Requesters : /\ at[t] = "idle" => wanted[t] = {}
                           /\ posted[t] => wanted[t] # {}
  /\ \A b \in Asked : /\ wanted[req[b].from] = {req[b].channels}
                      /\ ~posted[req[b].from]
  /\ \A b, c \in Asked : req[b].from = req[c].from => b = c

InStep ==
  /\ at["logger"] \notin {"publish", "copy"} => trace = traced /\ work.trace = traced
  /\ at["logger"] = "publish" => work.trace = InHand.channels
  /\ at["logger"] = "copy" => work.trace = InHand.channels /\ trace = InHand.channels
  /\ at["logger"] = "signal" => traced = InHand.channels

SetInv == OneRequest /\ InStep /\ TracedRowsOnly

(* None of the operations that go wrong halfway does so.                   *)
NothingFails == Failures \subseteq {"commit"}

LEMMA InitSet == Init => SetInv
  BY DEF Init, SetInv, OneRequest, Asked, CallersHold, InList, InChange, InStep,
         TracedRowsOnly, Threads, Callers

(* The requests that are asked for are in use and not free.                *)
LEMMA AskedInUse ==
  ASSUME LoggerInv
  PROVE  /\ Asked \subseteq Buffers /\ Asked \cap pool = {}
         /\ at["logger"] \in {"set", "publish", "copy", "signal"} =>
              hand["logger"] \in Asked /\ InHand = req[hand["logger"]]
         /\ at["logger"] \notin {"set", "publish", "copy", "signal"} =>
              hand["logger"] \notin Asked
<1>1. CallersHold \subseteq Held /\ InChange \subseteq Held
  BY DEF CallersHold, InChange, Held, Threads, Callers, LoggerInv, Places, Working
<1>2. Asked \subseteq Buffers /\ Asked \cap pool = {}
  BY <1>1 DEF Asked, LoggerInv, EveryBufferInOnePlace
<1>3. at["logger"] \in {"set", "publish", "copy", "signal"} =>
        hand["logger"] \in Asked /\ InHand = req[hand["logger"]]
  BY DEF Asked, InChange, InHand, LoggerInv, Places
<1>4. at["logger"] \notin {"set", "publish", "copy", "signal"} =>
        hand["logger"] \notin Asked
  <2> SUFFICES ASSUME at["logger"] \notin {"set", "publish", "copy", "signal"},
                      hand["logger"] \in Asked
               PROVE  FALSE
    OBVIOUS
  <2>1. InChange = {}
    BY DEF InChange
  <2>2. hand["logger"] \in Buffers /\ hand["logger"] # None
    BY <1>2, LoggerAssumption
  <2>3. hand["logger"] \in Held
    BY <2>2 DEF Held, Threads
  <2>4. hand["logger"] \notin CallersHold
    BY <2>2 DEF CallersHold, LoggerInv, EveryBufferInOnePlace, Threads, Callers
  <2> QED BY <2>1, <2>3, <2>4 DEF Asked, LoggerInv, EveryBufferInOnePlace
<1> QED BY <1>2, <1>3, <1>4

(* Nothing changes for the set when requests only move on or disappear.    *)
LEMMA SetFrame ==
  ASSUME SetInv, LoggerInv, Asked' \subseteq Asked,
         \A b \in Asked : req'[b] = req[b],
         UNCHANGED <<posted, wanted, trace, traced>>,
         work'.trace = work.trace, TracedRowsOnly',
         \A t \in Requesters : at'[t] = "idle" => wanted[t] = {},
         \/ /\ at'["logger"] = at["logger"]
            /\ hand["logger"] # None => InHand' = InHand
         \/ /\ at["logger"] \notin {"publish", "copy"}
            /\ at'["logger"] \notin {"publish", "copy", "signal"}
  PROVE  SetInv'
<1>1. OneRequest'
  BY DEF SetInv, OneRequest
<1>2. at["logger"] \in {"publish", "copy", "signal"} => hand["logger"] # None
  BY DEF LoggerInv, Places, Working
<1>3. InStep'
  BY <1>2 DEF SetInv, InStep
<1> QED BY <1>1, <1>3 DEF SetInv
(* A caller takes a buffer for something that is not a new set.            *)
LEMMA SetTake ==
  ASSUME SetInv, LoggerInv, NEW t \in Callers, at[t] # "add",
         NEW r \in Requests, r.kind # "set", TakeOrDrop(t, r),
         UNCHANGED <<queue, batch, wanted, posted, trace, traced, saved, work>>
  PROVE  SetInv'
<1>1. /\ \A u \in Threads : u # t => at'[u] = at[u] /\ hand'[u] = hand[u]
      /\ at'[t] \in {at[t], "add"}
  BY TakeFields
<1>2. "logger" # t
  OBVIOUS
<1>3. \A u \in Requesters : at'[u] = "idle" => wanted[u] = {}
  BY <1>1 DEF SetInv, OneRequest
<1>4. hand["logger"] # None => InHand' = InHand
  BY TakeKeepsInHand
<1>5. at'["logger"] = at["logger"] /\ InChange' = InChange
  BY <1>1, <1>2 DEF InChange
<1>6. TracedRowsOnly'
  BY DEF SetInv, TracedRowsOnly
<1>7. Asked' \subseteq Asked /\ \A b \in Asked : req'[b] = req[b]
  <2>1. CASE UNCHANGED <<pool, req, hand, at>>
    BY <2>1 DEF Asked, CallersHold, InChange
  <2>2. CASE Take(t, r)
    <3>1. PICK b \in pool : /\ req' = [req EXCEPT ![b] = r]
                            /\ hand' = [hand EXCEPT ![t] = b]
      BY <2>2 DEF Take
    <3>2. /\ b \in Buffers /\ req'[b] = r
          /\ \A c \in Buffers : c # b => req'[c] = req[c]
      BY <3>1 DEF LoggerInv, TypeOK
    <3>3. CallersHold' \subseteq CallersHold \cup {b}
      BY <1>1, <3>1 DEF CallersHold, LoggerInv, TypeOK, Threads
    <3>4. Asked' \subseteq Buffers
      <4>1. CallersHold \subseteq Buffers /\ InChange \subseteq Buffers
        BY DEF CallersHold, InChange, LoggerInv, TypeOK, Places, Working, Threads
      <4>2. InList(queue) \subseteq Buffers /\ InList(batch) \subseteq Buffers
        BY DEF LoggerInv, EveryBufferInOnePlace
      <4> QED BY <1>5, <3>2, <3>3, <4>1, <4>2 DEF Asked
    <3> QED BY <1>5, <3>2, <3>3, <3>4, AskedInUse DEF Asked
  <2> QED BY <2>1, <2>2 DEF TakeOrDrop
<1> QED BY <1>3, <1>4, <1>5, <1>6, <1>7, SetFrame

(* A thread asks for a set.                                                *)
LEMMA SetRequested ==
  ASSUME SetInv, LoggerInv, NEW t \in Requesters, NEW s \in TraceSets,
         RequestSet(t, s)
  PROVE  SetInv'
<1> USE DEF lists, tracing, db
<1>1. wanted[t] = {} /\ ~posted[t] /\ \A c \in Asked : req[c].from # t
  BY DEF RequestSet, SetInv, OneRequest
<1>2. PICK b \in pool : /\ req' = [req EXCEPT ![b] = SetRequest(t, s)]
                        /\ hand' = [hand EXCEPT ![t] = b]
                        /\ Goes(t, "add")
  BY DEF RequestSet, Take
<1>3. /\ req'[b] = SetRequest(t, s) /\ \A c \in Buffers : c # b => req'[c] = req[c]
      /\ b \in Buffers /\ b # None
  BY <1>2, LoggerAssumption DEF LoggerInv, TypeOK
<1>4. /\ \A u \in Threads : u # t => at'[u] = at[u] /\ hand'[u] = hand[u]
      /\ hand'[t] = b /\ at'[t] = "add"
  BY <1>2 DEF Goes, LoggerInv, TypeOK
<1>5. /\ wanted'[t] = {s} /\ posted' = posted
      /\ \A u \in Requesters : u # t => wanted'[u] = wanted[u]
  BY DEF RequestSet, LoggerInv, TypeOK
<1>6. CallersHold' \subseteq CallersHold \cup {b} /\ InChange' = InChange
  BY <1>4 DEF CallersHold, InChange
<1>7. Asked' \subseteq Asked \cup {b} /\ Asked \subseteq Buffers /\ b \notin Asked
  <2>1. CallersHold \subseteq Buffers /\ InChange \subseteq Buffers
    BY DEF CallersHold, InChange, LoggerInv, TypeOK, Places, Working
  <2>2. InList(queue) \subseteq Buffers /\ InList(batch) \subseteq Buffers
    BY DEF LoggerInv, EveryBufferInOnePlace
  <2> QED BY <1>3, <1>6, <2>1, <2>2, AskedInUse DEF Asked, RequestSet
<1>8. SetRequest(t, s).channels = s /\ SetRequest(t, s).from = t
  BY DEF SetRequest
<1>9. \A c \in Asked : req[c].from \in Requesters /\ req'[c] = req[c]
  BY <1>3, <1>7, RequestFields DEF Asked, LoggerInv, TypeOK
<1>10. OneRequest'
  BY <1>1, <1>3, <1>4, <1>5, <1>7, <1>8, <1>9 DEF SetInv, OneRequest
<1>11. InHand' = InHand \/ at["logger"] \notin Working
  BY <1>2, <1>3, <1>4 DEF InHand, Working, LoggerInv, Places, TypeOK, Held, Threads,
                     EveryBufferInOnePlace
<1>12. at'["logger"] = at["logger"]
  BY <1>4
<1>13. InStep' /\ TracedRowsOnly'
  BY <1>11, <1>12 DEF RequestSet, SetInv, InStep, TracedRowsOnly, Working
<1> QED BY <1>10, <1>13 DEF SetInv

(* The other steps of the callers.                                         *)
LEMMA SetCallers ==
  ASSUME SetInv, LoggerInv,
         \/ \E t \in Callers : LogAlarm(t) \/ CallerStep(t)
         \/ StartRound \/ LogChannel \/ EndRound
  PROVE  SetInv'
<1> USE DEF lists, db, client, tracing
<1>0. /\ "core" \in Callers /\ "logger" \notin Callers
      /\ Callers \subseteq Threads
  BY DEF Callers, Threads
<1>1. ASSUME NEW t \in Callers, LogAlarm(t)
      PROVE  SetInv'
  <2>1. /\ AlarmRequest(events') \in Requests
        /\ AlarmRequest(events').kind # "set"
    <3>1. events' \in 0 .. MaxEvents
      BY <1>1, LoggerAssumption DEF LogAlarm, LoggerInv, TypeOK
    <3> QED BY <3>1, RequestTypes DEF AlarmRequest
  <2>2. /\ at[t] # "add" /\ TakeOrDrop(t, AlarmRequest(events'))
        /\ UNCHANGED <<queue, batch, wanted, posted, trace, traced, saved, work>>
    BY <1>1 DEF LogAlarm
  <2> QED BY <2>1, <2>2, SetTake
<1>2. CASE LogChannel
  <2>1. PICK c \in round : TakeOrDrop("core", ChannelRequest(c))
    BY <1>2 DEF LogChannel
  <2>2. ChannelRequest(c) \in Requests /\ ChannelRequest(c).kind # "set"
    BY RequestTypes DEF LoggerInv, TypeOK, ChannelRequest
  <2>3. /\ at["core"] # "add"
        /\ UNCHANGED <<queue, batch, wanted, posted, trace, traced, saved, work>>
    BY <1>2 DEF LogChannel
  <2> QED BY <1>0, <2>1, <2>2, <2>3, SetTake
<1>3. ASSUME NEW t \in Callers, Add(t)
      PROVE  SetInv'
  <2>1. /\ at'[t] = "send" /\ \A u \in Threads : u # t => at'[u] = at[u]
        /\ hand'[t] = None /\ \A u \in Threads : u # t => hand'[u] = hand[u]
    BY <1>0, <1>3 DEF Add, Goes, LoggerInv, TypeOK
  <2>2. at'["logger"] = at["logger"] /\ InHand' = InHand /\ InChange' = InChange
    BY <1>0, <1>3, <2>1 DEF Add, InHand, InChange, Threads
  <2>3. InList(queue') = InList(queue) \cup {hand[t]} /\ hand[t] \in CallersHold
    <3>1. /\ hand[t] \in Buffers /\ hand[t] # None /\ hand[t] \in CallersHold
      BY <1>0, <1>3, LoggerAssumption DEF Add, LoggerInv, TypeOK, Places, CallersHold
    <3>2. hand[t] \notin InList(queue) /\ NoRepeats(queue) /\ queue \in Seq(Buffers)
      BY <3>1, OnTheWayInUse DEF LoggerInv, EveryBufferInOnePlace, TypeOK
    <3> QED BY <1>3, <3>1, <3>2, AppendList DEF Add
  <2>4. CallersHold' \subseteq CallersHold
    BY <1>0, <2>1 DEF CallersHold
  <2>5. Asked' \subseteq Asked
    BY <1>3, <2>2, <2>3, <2>4 DEF Add, Asked
  <2>6. \A u \in Requesters : at'[u] = "idle" => wanted[u] = {}
    BY <2>1 DEF SetInv, OneRequest
  <2>7. TracedRowsOnly'
    BY <1>3 DEF Add, SetInv, TracedRowsOnly
  <2> QED BY <1>3, <2>2, <2>5, <2>6, <2>7, SetFrame DEF Add
<1>4. ASSUME NEW t \in Callers, NEW place, Goes(t, place), at[t] # "add",
             UNCHANGED <<queue, batch, hand, req, posted, trace, traced, saved,
                         work, wanted>>,
             t \in Requesters /\ place = "idle" => wanted[t] = {}
      PROVE  SetInv'
  <2>1. /\ at'[t] = place /\ \A u \in Threads : u # t => at'[u] = at[u]
    BY <1>0, <1>4 DEF Goes, LoggerInv, TypeOK
  <2>2. at'["logger"] = at["logger"]
    BY <1>0, <2>1 DEF Threads
  <2>3. InHand' = InHand /\ Asked' = Asked
    BY <1>4, <2>2 DEF InHand, Asked, InChange, CallersHold
  <2>4. \A u \in Requesters : at'[u] = "idle" => wanted[u] = {}
    BY <1>4, <2>1 DEF SetInv, OneRequest
  <2>5. TracedRowsOnly'
    BY <1>4 DEF SetInv, TracedRowsOnly
  <2> QED BY <1>4, <2>2, <2>3, <2>4, <2>5, SetFrame
<1>5. CASE StartRound \/ EndRound
  BY <1>0, <1>4, <1>5 DEF StartRound, EndRound
<1>6. ASSUME NEW t \in Callers, Send(t)
      PROVE  SetInv'
  <2>1. t \in Requesters /\ Back(t) = "idle" => wanted[t] = {}
    BY DEF Back
  <2> QED BY <1>4, <1>6, <2>1 DEF Send
<1> QED BY <1>1, <1>2, <1>3, <1>5, <1>6 DEF CallerStep
(* A requester goes on.                                                    *)
LEMMA SetReleased ==
  ASSUME SetInv, LoggerInv, NEW t \in Requesters, Released(t)
  PROVE  SetInv'
<1> USE DEF lists, db, tracing
<1>1. \A b \in Asked : req[b].from # t
  BY DEF Released, SetInv, OneRequest
<1>2. /\ at'[t] = "idle" /\ \A u \in Threads : u # t => at'[u] = at[u]
      /\ ~posted'[t] /\ wanted'[t] = {}
      /\ \A u \in Requesters :
           u # t => posted'[u] = posted[u] /\ wanted'[u] = wanted[u]
  BY DEF Released, Goes, LoggerInv, TypeOK
<1>3. at'["logger"] = at["logger"] /\ InHand' = InHand /\ Asked' = Asked
  BY <1>2 DEF Released, InHand, Asked, InChange, CallersHold
<1>4. \A b \in Asked : req[b].from \in Requesters /\ req'[b] = req[b]
  BY AskedInUse, RequestFields DEF Released, Asked, LoggerInv, TypeOK
<1>5. OneRequest'
  BY <1>1, <1>2, <1>3, <1>4 DEF SetInv, OneRequest
<1>6. InStep' /\ TracedRowsOnly'
  BY <1>3 DEF Released, SetInv, InStep, TracedRowsOnly
<1> QED BY <1>5, <1>6 DEF SetInv

(* Requests move on to the logger's hands, and handled ones out of them.   *)
LEMMA SetMovesOn ==
  ASSUME SetInv, LoggerInv,
         Wake \/ Cut \/ NextRequest \/ BatchDone \/ PutBack
  PROVE  SetInv'
<1> USE DEF lists, db, tracing, client
<1>1. /\ UNCHANGED <<posted, wanted, trace, traced, saved, work>>
      /\ \A t \in Requesters : at'[t] = at[t]
      /\ \A t \in Callers : hand'[t] = hand[t]
      /\ at["logger"] \notin {"publish", "copy"}
  BY DEF Wake, Cut, NextRequest, BatchDone, PutBack, Goes, LoggerInv, TypeOK,
         Threads, Callers
<1>2. CallersHold' = CallersHold
  BY <1>1 DEF CallersHold
<1>3. \A t \in Requesters : at'[t] = "idle" => wanted[t] = {}
  BY <1>1 DEF SetInv, OneRequest
<1>4. TracedRowsOnly'
  BY <1>1 DEF SetInv, TracedRowsOnly
<1>5. CASE Wake \/ BatchDone \/ Cut
  <2>1. at'["logger"] \in {"idle", "cut", "next"} /\ req' = req
    BY <1>5 DEF Wake, BatchDone, Cut, Goes, LoggerInv, TypeOK, Threads
  <2>2. InList(queue') \cup InList(batch') \subseteq InList(queue) \cup InList(batch)
    BY <1>5, EmptyList DEF Wake, BatchDone, Cut
  <2>3. Asked' \subseteq Asked
    BY <1>2, <2>1, <2>2 DEF Asked, InChange
  <2> QED BY <1>1, <1>3, <1>4, <2>1, <2>3, SetFrame
<1>6. CASE NextRequest
  <2> DEFINE b == Head(batch)
  <2>1. /\ hand'["logger"] = b /\ at'["logger"] = req[b].kind
        /\ req' = req /\ queue' = queue
    BY <1>6 DEF NextRequest, Goes, LoggerInv, TypeOK, Threads
  <2>2. b \in InList(batch) /\ b \in Buffers /\ InList(batch') = InList(batch) \ {b}
    BY <1>6, TailList DEF NextRequest, LoggerInv, TypeOK, EveryBufferInOnePlace
  <2> HIDE DEF b
  <2>3. at'["logger"] \in {"channel", "alarm", "set"}
    BY <2>1, <2>2, RequestFields DEF LoggerInv, TypeOK
  <2>4. InChange' \subseteq {b}
    BY <2>1 DEF InChange
  <2>5. Asked' \subseteq Asked
    BY <1>2, <2>1, <2>2, <2>4 DEF Asked
  <2> QED BY <1>1, <1>3, <1>4, <2>1, <2>3, <2>5, SetFrame
<1>7. CASE PutBack
  <2>1. /\ at'["logger"] = "next" /\ queue' = queue /\ batch' = batch
        /\ \A c \in Buffers : c # hand["logger"] => req'[c] = req[c]
    BY <1>7 DEF PutBack, Goes, LoggerInv, TypeOK, Threads
  <2>2. hand["logger"] \notin Asked /\ Asked \subseteq Buffers
    BY <1>7, AskedInUse DEF PutBack
  <2>3. hand["logger"] \notin CallersHold \cup InList(queue) \cup InList(batch)
    <3>1. hand["logger"] # None /\ hand["logger"] \in Held
      BY <1>7, InHandFields DEF PutBack, Working, Held, Threads
    <3>2. hand["logger"] \notin CallersHold
      BY <3>1 DEF CallersHold, LoggerInv, EveryBufferInOnePlace, Threads, Callers
    <3> QED BY <3>1, <3>2 DEF LoggerInv, EveryBufferInOnePlace
  <2>4. CallersHold \cup InList(queue) \cup InList(batch) \subseteq Buffers
    BY DEF CallersHold, LoggerInv, TypeOK, EveryBufferInOnePlace, Threads, Callers
  <2>5. Asked' \subseteq Asked
    BY <1>2, <2>1, <2>3, <2>4 DEF Asked, InChange
  <2> QED BY <1>1, <1>3, <1>4, <2>1, <2>2, <2>5, SetFrame
<1> QED BY <1>5, <1>6, <1>7

(* Rows are stored for traced channels, and other rows are left alone.     *)
LEMMA SetTables ==
  ASSUME SetInv, LoggerInv, NothingFails,
         HandleAlarm \/ HandleChannel \/ Cleanup
  PROVE  SetInv'
<1> USE DEF lists, tracing, client
<1>1. /\ UNCHANGED <<posted, wanted, trace, traced, req, queue, batch, hand>>
      /\ \A t \in Requesters : at'[t] = at[t]
      /\ at["logger"] \notin {"publish", "copy"}
      /\ at'["logger"] \in {"put", "idle"}
  <2>1. CASE HandleAlarm \/ HandleChannel
    <3>1. /\ UNCHANGED <<posted, wanted, trace, traced, req, queue, batch, hand>>
          /\ Goes("logger", "put") /\ at["logger"] \in {"alarm", "channel"}
      BY <2>1 DEF HandleAlarm, HandleChannel
    <3> QED BY <3>1, GoesTo DEF LoggerInv, Threads, Callers
  <2>2. CASE Cleanup
    BY <2>2 DEF Cleanup
  <2> QED BY <2>1, <2>2
<1>2. Asked' \subseteq Asked
  BY <1>1 DEF Asked, InChange, CallersHold
<1>3. \A t \in Requesters : at'[t] = "idle" => wanted[t] = {}
  BY <1>1 DEF SetInv, OneRequest
<1>4. work.trace = traced
  BY <1>1 DEF SetInv, InStep
<1>5. work \in Databases /\ "statement" \notin Failures
  BY DEF LoggerInv, TypeOK, NothingFails
<1>6. UNCHANGED db \/ \E w : /\ Executes(w) /\ w.trace = work.trace
                             /\ w.rows \subseteq work.rows \cup traced
  <2>1. CASE HandleAlarm
    <3> DEFINE w == [work EXCEPT !.alarms = Append(@, InHand.event)]
    <3>1. Executes(w)
      BY <1>5, <2>1 DEF HandleAlarm, FailsAt
    <3>2. w.trace = work.trace /\ w.rows = work.rows
      BY <1>5 DEF Databases
    <3> QED BY <3>1, <3>2
  <2>2. CASE HandleChannel
    <3> DEFINE w == [work EXCEPT !.rows = @ \cup {InHand.channel}]
    <3>1. UNCHANGED db \/ (InHand.channel \in traced /\ Executes(w))
      BY <1>5, <2>2 DEF HandleChannel, FailsAt
    <3>2. w.trace = work.trace /\ w.rows = work.rows \cup {InHand.channel}
      BY <1>5 DEF Databases
    <3> QED BY <3>1, <3>2
  <2>3. CASE Cleanup
    <3>1. PICK old \in SUBSET (work.rows \cap traced), k \in 0 .. Len(work.alarms) :
            Executes([work EXCEPT !.rows = @ \ old,
                        !.alarms = SubSeq(@, k + 1, Len(@))])
      BY <1>5, <2>3 DEF Cleanup, FailsAt
    <3> DEFINE w == [work EXCEPT !.rows = @ \ old,
                       !.alarms = SubSeq(@, k + 1, Len(@))]
    <3>2. w.trace = work.trace /\ w.rows \subseteq work.rows
      BY <1>5 DEF Databases
    <3> QED BY <3>1, <3>2
  <2> QED BY <2>1, <2>2, <2>3
<1>7. work'.trace = work.trace /\ TracedRowsOnly'
  BY <1>4, <1>6 DEF Executes, db, SetInv, TracedRowsOnly
<1> QED BY <1>1, <1>2, <1>3, <1>7, SetFrame

(* The set is taken over: by the database, the manager and the logger.     *)
LEMMA SetTakenOver ==
  ASSUME SetInv, LoggerInv, NothingFails,
         HandleSet \/ Publish \/ Copy \/ Signal
  PROVE  SetInv'
<1> USE DEF lists, tracing, client, db
<1> DEFINE b == hand["logger"]
<1>1. /\ b \in Asked /\ InHand = req[b]
      /\ wanted[InHand.from] = {InHand.channels} /\ ~posted[InHand.from]
      /\ InHand.from \in Requesters
  <2>1. at["logger"] \in {"set", "publish", "copy", "signal"}
    BY DEF HandleSet, Publish, Copy, Signal
  <2>2. b \in Asked /\ InHand = req[b] /\ b \in Buffers /\ InHand.kind = "set"
    BY <2>1, AskedInUse DEF Asked
  <2> QED BY <2>2, RequestFields DEF LoggerInv, TypeOK, SetInv, OneRequest
<1>2. /\ UNCHANGED <<wanted, req, queue, batch, hand>> /\ InHand' = InHand
      /\ \A t \in Requesters : at'[t] = at[t]
  <2>1. UNCHANGED <<wanted, req, queue, batch, hand>>
    BY DEF HandleSet, Publish, Copy, Signal
  <2>2. \E place : Goes("logger", place)
    BY DEF HandleSet, Publish, Copy, Signal
  <2>3. \A t \in Requesters : at'[t] = at[t]
    BY <2>2, GoesTo DEF LoggerInv
  <2> QED BY <2>1, <2>3 DEF InHand
<1>3. "statement" \notin Failures /\ "memory" \notin Failures
  BY DEF NothingFails
<1>4. \A t \in Requesters : at'[t] = "idle" => wanted[t] = {}
  BY <1>2 DEF SetInv, OneRequest
<1>5. CallersHold' = CallersHold
  BY <1>2 DEF CallersHold
<1>6. CASE HandleSet
  <2>1. /\ at'["logger"] = "publish"
        /\ UNCHANGED <<posted, trace, traced>>
    BY <1>3, <1>6 DEF HandleSet, FailsAt, Goes, LoggerInv, TypeOK, Threads
  <2>2. work'.trace = InHand.channels /\ TracedRowsOnly'
    <3>1. Executes([work EXCEPT !.trace = InHand.channels, !.rows = {}])
      BY <1>3, <1>6 DEF HandleSet, FailsAt
    <3> QED BY <3>1 DEF Executes, LoggerInv, TypeOK, Databases, SetInv, TracedRowsOnly
  <2>3. Asked' \subseteq Asked
    BY <1>1, <1>2, <1>5 DEF Asked, InChange
  <2>4. OneRequest'
    BY <1>2, <1>4, <2>1, <2>3 DEF SetInv, OneRequest
  <2>5. InStep'
    BY <1>1, <1>2, <2>1, <2>2 DEF InStep
  <2> QED BY <2>2, <2>4, <2>5 DEF SetInv
<1>7. CASE Publish
  <2>1. /\ at["logger"] = "publish" /\ at'["logger"] = "copy"
        /\ UNCHANGED <<posted, traced, saved, work>> /\ trace' = InHand.channels
    BY <1>3, <1>7 DEF Publish, Goes, LoggerInv, TypeOK, Threads
  <2>2. Asked' \subseteq Asked
    BY <1>1, <1>2, <1>5 DEF Asked, InChange
  <2>3. OneRequest'
    BY <1>2, <1>4, <2>1, <2>2 DEF SetInv, OneRequest
  <2>4. InStep' /\ TracedRowsOnly'
    BY <1>1, <1>2, <2>1 DEF SetInv, InStep, TracedRowsOnly
  <2> QED BY <2>3, <2>4 DEF SetInv
<1>8. CASE Copy
  <2>1. /\ at["logger"] = "copy" /\ at'["logger"] = "signal"
        /\ UNCHANGED <<posted, trace, saved, work>> /\ traced' = InHand.channels
    BY <1>3, <1>8 DEF Copy, Goes, LoggerInv, TypeOK, Threads
  <2>2. Asked' \subseteq Asked
    BY <1>1, <1>2, <1>5 DEF Asked, InChange
  <2>3. OneRequest'
    BY <1>2, <1>4, <2>1, <2>2 DEF SetInv, OneRequest
  <2>4. InStep' /\ TracedRowsOnly'
    BY <1>1, <1>2, <2>1 DEF SetInv, InStep, TracedRowsOnly
  <2> QED BY <2>3, <2>4 DEF SetInv
<1>9. CASE Signal
  <2>1. /\ at["logger"] = "signal" /\ at'["logger"] = "put"
        /\ UNCHANGED <<trace, traced, saved, work>>
        /\ posted' = [posted EXCEPT ![InHand.from] = TRUE]
    BY <1>9 DEF Signal, Goes, LoggerInv, TypeOK
  <2>2. Asked' \subseteq Asked \ {b}
    <3>1. Asked' \subseteq Asked
      BY <1>1, <1>2, <1>5, <2>1 DEF Asked, InChange
    <3>2. b \notin Asked'
      <4>1. b # None
        BY <1>1, AskedInUse, LoggerAssumption
      <4>2. b \in Held /\ b \notin CallersHold
        BY <4>1 DEF Held, CallersHold, LoggerInv, EveryBufferInOnePlace
      <4>3. InChange' = {}
        BY <2>1 DEF InChange
      <4> QED
        BY <1>2, <1>5, <4>2, <4>3 DEF Asked, LoggerInv, EveryBufferInOnePlace
    <3> QED BY <3>1, <3>2
  <2>3. \A c \in Asked' : req[c].from # InHand.from
    BY <1>1, <2>2 DEF SetInv, OneRequest
  <2>4. /\ posted'[InHand.from]
        /\ \A t \in Requesters : t # InHand.from => posted'[t] = posted[t]
    BY <1>1, <2>1 DEF LoggerInv, TypeOK
  <2>5. \A c \in Asked : req[c].from \in Requesters
    BY AskedInUse, RequestFields DEF Asked, LoggerInv, TypeOK
  <2>6. OneRequest'
    BY <1>1, <1>2, <1>4, <2>2, <2>3, <2>4, <2>5 DEF SetInv, OneRequest
  <2>7. InStep' /\ TracedRowsOnly'
    BY <1>1, <1>2, <2>1 DEF SetInv, InStep, TracedRowsOnly
  <2> QED BY <2>6, <2>7 DEF SetInv
<1> QED BY <1>6, <1>7, <1>8, <1>9

LEMMA SetRestart ==
  ASSUME SetInv, Restart
  PROVE  SetInv'
<1>1. Asked' = {}
  BY EmptyList DEF Restart, Asked, CallersHold, InChange, Threads, Callers
<1>2. OneRequest'
  BY <1>1 DEF Restart, OneRequest
<1>3. InStep' /\ TracedRowsOnly'
  BY DEF Restart, SetInv, InStep, TracedRowsOnly, Threads
<1> QED BY <1>2, <1>3 DEF SetInv

LEMMA SetStep ==
  ASSUME NothingFails
  PROVE  LoggerInv /\ SetInv /\ [Next]_vars => SetInv'
<1> SUFFICES ASSUME LoggerInv, SetInv, [Next]_vars
             PROVE  SetInv'
  OBVIOUS
<1>1. CASE UNCHANGED vars
  <2>1. Asked' = Asked /\ InHand' = InHand
    BY <1>1 DEF vars, lists, Asked, CallersHold, InChange, InHand
  <2> QED
    BY <1>1, <2>1 DEF vars, lists, client, tracing, db, SetInv, OneRequest,
                      InStep, TracedRowsOnly
<1> QED
  BY <1>1, SetCallers, SetRequested, SetReleased, SetMovesOn, SetTables,
     SetTakenOver, SetRestart, Zenon
     DEF Next, LoggerStep

(* As long as no statement fails, the database holds values of traced      *)
(* channels only, whenever the server is stopped and whichever commits     *)
(* fail: the check in logger_chnl_log_req_handler and the deletion of the  *)
(* rows in logger_db_set_trace_channels leave no gap.                      *)
THEOREM OnlyTracedRows ==
  ASSUME NothingFails
  PROVE  Spec => []TracedRowsOnly
<1>1. SetInv => TracedRowsOnly
  BY DEF SetInv
<1> QED BY <1>1, InitLogger, InitSet, LoggerStepKeeps, SetStep, PTL DEF Spec

(* A requester is told by nothing but completion_signal.                   *)
LEMMA OnlySignalPosts ==
  ASSUME LoggerInv, Next, NEW t \in Requesters, posted'[t], ~posted[t]
  PROVE  Signal
<1> SUFFICES ASSUME posted'[t] # posted[t] PROVE Signal
  OBVIOUS
<1>1. ASSUME \/ \E u \in Reporters : LogAlarm(u)
             \/ \E u \in Callers : CallerStep(u)
             \/ StartRound \/ LogChannel \/ EndRound
             \/ \E u \in Requesters, s \in TraceSets : RequestSet(u, s)
      PROVE  FALSE
  BY <1>1 DEF LogAlarm, CallerStep, Add, Send, StartRound, LogChannel, EndRound,
              RequestSet
<1>2. ASSUME NEW u \in Requesters, Released(u)
      PROVE  FALSE
  BY <1>2 DEF Released, LoggerInv, TypeOK
<1>3. ASSUME \/ Wake \/ Cut \/ NextRequest \/ BatchDone
             \/ HandleAlarm \/ HandleChannel \/ HandleSet
             \/ Publish \/ Copy \/ PutBack \/ Cleanup
      PROVE  FALSE
  BY <1>3 DEF Wake, Cut, NextRequest, BatchDone, HandleAlarm, HandleChannel,
              HandleSet, Publish, Copy, PutBack, Cleanup
<1>4. CASE Restart
  BY <1>4 DEF Restart
<1> QED BY <1>1, <1>2, <1>3, <1>4 DEF Next, LoggerStep

(* Under the same assumption, the set that a thread asked for is in force  *)
(* everywhere when the logger tells it so (completion_signal).             *)
THEOREM RequestedSetInForce ==
  ASSUME NothingFails
  PROVE  Spec => SetInForce
<1> DEFINE InForce ==
      \A t \in Requesters :
        posted'[t] /\ ~posted[t] => /\ wanted[t] = {traced'}
                                   /\ trace' = traced' /\ work'.trace = traced'
<1>1. LoggerInv /\ SetInv /\ [Next]_vars => [InForce]_vars
  <2> SUFFICES ASSUME LoggerInv, SetInv, Next,
                      NEW t \in Requesters, posted'[t], ~posted[t]
               PROVE  /\ wanted[t] = {traced'}
                      /\ trace' = traced' /\ work'.trace = traced'
    OBVIOUS
  <2>1. Signal
    BY OnlySignalPosts
  <2>2. /\ at["logger"] = "signal" /\ UNCHANGED <<trace, traced, work>>
        /\ posted' = [posted EXCEPT ![InHand.from] = TRUE]
    BY <2>1 DEF Signal, tracing, db
  <2>3. t = InHand.from
    BY <2>2 DEF LoggerInv, TypeOK
  <2>4. wanted[t] = {InHand.channels}
    BY <2>2, <2>3, AskedInUse DEF SetInv, OneRequest
  <2> QED BY <2>2, <2>4 DEF SetInv, InStep
<1> QED
  BY <1>1, InitLogger, InitSet, LoggerStepKeeps, SetStep, PTL DEF Spec, SetInForce
-----------------------------------------------------------------------------
(* Who waits for what, whatever fails.                                     *)

(* What is in the queue is noticed, and who has the trace lock goes on.    *)
SignalInv ==
  /\ queue # <<>> =>
       signalled \/ at["logger"] = "cut" \/ \E t \in Callers : at[t] = "send"
  /\ locked => at["core"] \in {"round", "add", "send"}

(* A thread that waits has asked, and was not answered yet.  The request   *)
(* that a thread has in its hands is its own.                              *)
WaitInv ==
  /\ \A t \in Requesters :
       /\ at[t] = "idle" => wanted[t] = {}
       /\ at[t] = "wait" => wanted[t] # {}
       /\ wanted[t] # {} => posted[t] \/ \E b \in Asked : req[b].from = t
  /\ \A u \in Callers :
       hand[u] # None /\ req[hand[u]].kind = "set" => req[hand[u]].from = u

(* A thread that has nothing to tell the logger moves on.                  *)
LEMMA SignalFrame ==
  ASSUME SignalInv, LoggerInv, NEW t \in Threads, at[t] \notin {"send", "cut"},
         \A u \in Threads : u # t => at'[u] = at[u],
         queue' = queue, signalled' = signalled,
         locked' => at'["core"] \in {"round", "add", "send"}
  PROVE  SignalInv'
  BY DEF SignalInv, Threads

LEMMA SignalTake ==
  ASSUME SignalInv, LoggerInv, NEW t \in Callers, at[t] \in {"idle", "round"},
         NEW r \in Requests, TakeOrDrop(t, r), UNCHANGED <<queue, signalled, locked>>
  PROVE  SignalInv'
<1>1. /\ \A u \in Threads : u # t => at'[u] = at[u]
      /\ at'[t] \in {at[t], "add"}
  BY TakeFields
<1>2. locked' => at'["core"] \in {"round", "add", "send"}
  BY <1>1 DEF SignalInv, Threads
<1> QED BY <1>1, <1>2, SignalFrame

LEMMA SignalStep == LoggerInv /\ SignalInv /\ [Next]_vars => SignalInv'
<1> SUFFICES ASSUME LoggerInv, SignalInv, [Next]_vars
             PROVE  SignalInv'
  OBVIOUS
<1> USE DEF lists, client
<1>1. ASSUME NEW t \in Callers, LogAlarm(t)
      PROVE  SignalInv'
  <2>1. events' \in 0 .. MaxEvents
    BY <1>1, LoggerAssumption DEF LogAlarm, LoggerInv, TypeOK
  <2>2. AlarmRequest(events') \in Requests
    BY <2>1, RequestTypes
  <2>3. /\ at[t] = "idle" /\ TakeOrDrop(t, AlarmRequest(events'))
        /\ UNCHANGED <<queue, signalled, locked>>
    BY <1>1 DEF LogAlarm
  <2> QED BY <2>2, <2>3, SignalTake
<1>2. CASE LogChannel
  <2>1. PICK c \in round : TakeOrDrop("core", ChannelRequest(c))
    BY <1>2 DEF LogChannel
  <2>2. ChannelRequest(c) \in Requests
    BY RequestTypes DEF LoggerInv, TypeOK
  <2>3. at["core"] = "round" /\ UNCHANGED <<queue, signalled, locked>>
    BY <1>2 DEF LogChannel
  <2> QED BY <2>1, <2>2, <2>3, SignalTake
<1>3. ASSUME NEW t \in Requesters, NEW s \in TraceSets, RequestSet(t, s)
      PROVE  SignalInv'
  <2>1. SetRequest(t, s) \in Requests /\ TakeOrDrop(t, SetRequest(t, s))
    BY <1>3, RequestTypes DEF RequestSet, TakeOrDrop
  <2>2. at[t] = "idle" /\ UNCHANGED <<queue, signalled, locked>>
    BY <1>3 DEF RequestSet
  <2> QED BY <2>1, <2>2, SignalTake
<1>4. ASSUME NEW t \in Callers, Add(t)
      PROVE  SignalInv'
  <2>1. at'[t] = "send" /\ \A u \in Threads : u # t => at'[u] = at[u]
    BY <1>4, GoesTo DEF Add, LoggerInv
  <2> QED BY <1>4, <2>1 DEF Add, SignalInv
<1>5. ASSUME NEW t \in Callers, Send(t)
      PROVE  SignalInv'
  <2>1. at'[t] = Back(t) /\ \A u \in Threads : u # t => at'[u] = at[u]
    BY <1>5, GoesTo DEF Send, LoggerInv
  <2>2. locked' => at'["core"] \in {"round", "add", "send"}
    BY <1>5, <2>1 DEF Send, Back, SignalInv
  <2> QED BY <1>5, <2>2 DEF Send, SignalInv
<1>6. CASE StartRound \/ EndRound
  <2>1. /\ at["core"] \in {"idle", "round"} /\ queue' = queue /\ signalled' = signalled
        /\ \A u \in Threads : u # "core" => at'[u] = at[u]
        /\ locked' => at'["core"] = "round"
    BY <1>6, GoesTo DEF StartRound, EndRound, LoggerInv
  <2> QED BY <2>1, SignalFrame
<1>7. ASSUME NEW t \in Requesters, Released(t)
      PROVE  SignalInv'
  <2>1. /\ at[t] = "wait" /\ UNCHANGED <<queue, signalled, locked>>
        /\ \A u \in Threads : u # t => at'[u] = at[u]
    BY <1>7, GoesTo DEF Released, LoggerInv
  <2>2. t # "core"
    BY LoggerAssumption
  <2>3. locked' => at'["core"] \in {"round", "add", "send"}
    BY <2>1, <2>2 DEF SignalInv
  <2> QED BY <2>1, <2>3, SignalFrame
<1>8. CASE Wake \/ Cut
  <2>1. /\ \A u \in Threads : u # "logger" => at'[u] = at[u]
        /\ locked' = locked
        /\ Wake => at'["logger"] = "cut"
        /\ Cut => queue' = <<>>
    BY <1>8, GoesTo DEF Wake, Cut, LoggerInv
  <2>2. "core" # "logger"
    OBVIOUS
  <2> QED BY <1>8, <2>1, <2>2 DEF SignalInv
<1>9. CASE \/ NextRequest \/ BatchDone \/ HandleAlarm \/ HandleChannel \/ HandleSet
           \/ Publish \/ Copy \/ Signal \/ PutBack
  <2>1. /\ \E place : Goes("logger", place)
        /\ at["logger"] \notin {"send", "cut"} /\ UNCHANGED <<queue, signalled, locked>>
    BY <1>9 DEF NextRequest, BatchDone, HandleAlarm, HandleChannel, HandleSet, Publish,
                Copy, Signal, PutBack
  <2>2. \A u \in Threads : u # "logger" => at'[u] = at[u]
    BY <2>1, GoesTo DEF LoggerInv
  <2>3. "core" # "logger"
    OBVIOUS
  <2>4. locked' => at'["core"] \in {"round", "add", "send"}
    BY <2>1, <2>2, <2>3 DEF SignalInv
  <2> QED BY <2>1, <2>2, <2>4, SignalFrame
<1>10. CASE Cleanup
  BY <1>10 DEF Cleanup, SignalInv
<1>11. CASE Restart
  BY <1>11 DEF Restart, SignalInv
<1>12. CASE UNCHANGED vars
  BY <1>12 DEF vars, SignalInv
<1> QED
  BY <1>1, <1>2, <1>3, <1>4, <1>5, <1>6, <1>7, <1>8, <1>9, <1>10, <1>11, <1>12,
     Zenon DEF Next, CallerStep, LoggerStep

(* Requests that were asked for stay so, as long as they are not answered. *)
LEMMA WaitFrame ==
  ASSUME WaitInv, LoggerInv, Asked \subseteq Asked',
         \A b \in Asked : req'[b] = req[b], UNCHANGED <<posted, wanted>>,
         \A t \in Requesters : at'[t] = at[t] \/ at'[t] \notin {"idle", "wait"},
         \A u \in Callers : hand'[u] # None /\ req'[hand'[u]].kind = "set" =>
           req'[hand'[u]].from = u
  PROVE  WaitInv'
  BY DEF WaitInv

(* Requests in the lists and in the hands of others stay what they are.    *)
LEMMA OthersHold ==
  ASSUME LoggerInv, NEW b \in pool, \A c \in Buffers : c # b => req'[c] = req[c],
         NEW u \in Callers, hand[u] # None
  PROVE  hand[u] # b /\ req'[hand[u]] = req[hand[u]]
<1>1. hand[u] \in Held /\ hand[u] \in Buffers
  BY DEF Held, LoggerInv, TypeOK
<1> QED BY <1>1 DEF LoggerInv, EveryBufferInOnePlace

LEMMA WaitTake ==
  ASSUME WaitInv, LoggerInv, NEW t \in Callers, at[t] \in {"idle", "round"},
         NEW r \in Requests, r.kind # "set", TakeOrDrop(t, r),
         UNCHANGED <<queue, batch, posted, wanted>>
  PROVE  WaitInv'
<1>1. CASE UNCHANGED <<pool, req, hand, at>>
  <2>1. Asked' = Asked
    BY <1>1 DEF Asked, CallersHold, InChange
  <2> QED BY <1>1, <2>1, WaitFrame DEF WaitInv
<1>2. CASE Take(t, r)
  <2>1. PICK b \in pool : /\ req' = [req EXCEPT ![b] = r]
                          /\ hand' = [hand EXCEPT ![t] = b]
                          /\ Goes(t, "add")
    BY <1>2 DEF Take
  <2>2. /\ b \in Buffers /\ req'[b] = r /\ hand'[t] = b
        /\ \A c \in Buffers : c # b => req'[c] = req[c]
        /\ \A u \in Threads : u # t => hand'[u] = hand[u]
    BY <2>1 DEF LoggerInv, TypeOK
  <2>3. at'[t] = "add" /\ \A u \in Threads : u # t => at'[u] = at[u]
    BY <2>1, GoesTo DEF LoggerInv
  <2>4. hand[t] = None /\ t # "logger"
    BY DEF LoggerInv, Places
  <2>5. CallersHold \subseteq CallersHold'
    BY <2>2, <2>4 DEF CallersHold
  <2>6. InChange' = InChange
    BY <2>2, <2>3, <2>4 DEF InChange
  <2>7. \A c \in Asked : req'[c] = req[c]
    BY <2>2, AskedInUse
  <2>8. Asked \subseteq Asked'
    BY <2>5, <2>6, <2>7 DEF Asked
  <2>9. ASSUME NEW u \in Callers, hand'[u] # None, req'[hand'[u]].kind = "set"
        PROVE  req'[hand'[u]].from = u
    <3>1. u # t
      BY <2>2, <2>9
    <3>2. hand'[u] = hand[u]
      BY <2>2, <3>1
    <3>3. req'[hand[u]] = req[hand[u]]
      BY <2>2, <2>9, <3>2, OthersHold
    <3> QED BY <2>9, <3>2, <3>3 DEF WaitInv
  <2> QED BY <2>3, <2>7, <2>8, <2>9, WaitFrame
<1> QED BY <1>1, <1>2 DEF TakeOrDrop

LEMMA WaitRequested ==
  ASSUME WaitInv, LoggerInv, NEW t \in Requesters, NEW s \in TraceSets, RequestSet(t, s)
  PROVE  WaitInv'
<1> USE DEF lists
<1>1. PICK b \in pool : /\ req' = [req EXCEPT ![b] = SetRequest(t, s)]
                        /\ hand' = [hand EXCEPT ![t] = b]
                        /\ Goes(t, "add")
  BY DEF RequestSet, Take
<1>2. /\ b \in Buffers /\ b # None /\ req'[b] = SetRequest(t, s) /\ hand'[t] = b
      /\ \A c \in Buffers : c # b => req'[c] = req[c]
      /\ \A u \in Threads : u # t => hand'[u] = hand[u]
  BY <1>1, LoggerAssumption DEF LoggerInv, TypeOK
<1>3. at'[t] = "add" /\ \A u \in Threads : u # t => at'[u] = at[u]
  BY <1>1, GoesTo DEF LoggerInv
<1>4. /\ wanted'[t] = {s} /\ posted' = posted /\ queue' = queue /\ batch' = batch
      /\ \A u \in Requesters : u # t => wanted'[u] = wanted[u]
  BY DEF RequestSet, LoggerInv, TypeOK
<1>5. hand[t] = None /\ t # "logger"
  BY DEF RequestSet, LoggerInv, Places
<1>6. SetRequest(t, s).kind = "set" /\ SetRequest(t, s).from = t
  BY DEF SetRequest
<1>7. \A c \in Asked : req'[c] = req[c]
  BY <1>2, AskedInUse
<1>8. CallersHold \subseteq CallersHold' /\ b \in CallersHold' /\ InChange' = InChange
  BY <1>2, <1>3, <1>5 DEF CallersHold, InChange
<1>9. Asked \subseteq Asked' /\ b \in Asked'
  BY <1>2, <1>4, <1>6, <1>7, <1>8 DEF Asked
<1>10. ASSUME NEW u \in Callers, hand'[u] # None, req'[hand'[u]].kind = "set"
       PROVE  req'[hand'[u]].from = u
  <2>1. CASE u = t
    BY <1>2, <1>6, <2>1
  <2>2. CASE u # t
    <3>1. hand'[u] = hand[u]
      BY <1>2, <2>2
    <3>2. req'[hand[u]] = req[hand[u]]
      BY <1>2, <1>10, <3>1, OthersHold
    <3> QED BY <1>10, <3>1, <3>2 DEF WaitInv
  <2> QED BY <2>1, <2>2
<1>11. ASSUME NEW u \in Requesters
       PROVE  /\ at'[u] = "idle" => wanted'[u] = {}
              /\ at'[u] = "wait" => wanted'[u] # {}
              /\ wanted'[u] # {} => posted'[u] \/ \E c \in Asked' : req'[c].from = u
  <2>1. CASE u = t
    BY <1>2, <1>3, <1>4, <1>6, <1>9, <2>1
  <2>2. CASE u # t
    BY <1>3, <1>4, <1>7, <1>9, <2>2 DEF WaitInv
  <2> QED BY <2>1, <2>2
<1> QED BY <1>10, <1>11 DEF WaitInv

(* The other steps of the callers.                                         *)
LEMMA WaitCallers ==
  ASSUME WaitInv, LoggerInv,
         \/ \E t \in Callers : LogAlarm(t) \/ CallerStep(t)
         \/ StartRound \/ LogChannel \/ EndRound
         \/ \E t \in Requesters : Released(t)
  PROVE  WaitInv'
<1> USE DEF lists, client
<1>1. ASSUME NEW t \in Callers, LogAlarm(t)
      PROVE  WaitInv'
  <2>1. events' \in 0 .. MaxEvents
    BY <1>1, LoggerAssumption DEF LogAlarm, LoggerInv, TypeOK
  <2>2. AlarmRequest(events') \in Requests /\ AlarmRequest(events').kind # "set"
    BY <2>1, RequestTypes DEF AlarmRequest
  <2>3. /\ at[t] = "idle" /\ TakeOrDrop(t, AlarmRequest(events'))
        /\ UNCHANGED <<queue, batch, posted, wanted>>
    BY <1>1 DEF LogAlarm
  <2> QED BY <2>2, <2>3, WaitTake
<1>2. CASE LogChannel
  <2>1. PICK c \in round : TakeOrDrop("core", ChannelRequest(c))
    BY <1>2 DEF LogChannel
  <2>2. ChannelRequest(c) \in Requests /\ ChannelRequest(c).kind # "set"
    BY RequestTypes DEF LoggerInv, TypeOK, ChannelRequest
  <2>3. at["core"] = "round" /\ UNCHANGED <<queue, batch, posted, wanted>>
    BY <1>2 DEF LogChannel
  <2> QED BY <2>1, <2>2, <2>3, WaitTake
<1>3. ASSUME NEW t \in Callers, Add(t)
      PROVE  WaitInv'
  <2>1. at'[t] = "send" /\ \A u \in Threads : u # t => at'[u] = at[u]
    BY <1>3, GoesTo DEF Add, LoggerInv
  <2>2. hand'[t] = None /\ \A u \in Threads : u # t => hand'[u] = hand[u]
    BY <1>3 DEF Add, LoggerInv, TypeOK
  <2>3. /\ queue' = Append(queue, hand[t]) /\ batch' = batch
        /\ UNCHANGED <<req, posted, wanted>>
    BY <1>3 DEF Add
  <2>4. InChange' = InChange
    BY <2>1, <2>2 DEF InChange
  <2>5. InList(queue') = InList(queue) \cup {hand[t]}
    <3>1. /\ hand[t] \in Buffers /\ hand[t] # None /\ hand[t] \in CallersHold
      BY <1>3, LoggerAssumption DEF Add, LoggerInv, TypeOK, Places, CallersHold
    <3>2. hand[t] \notin InList(queue) /\ NoRepeats(queue) /\ queue \in Seq(Buffers)
      BY <3>1, OnTheWayInUse DEF LoggerInv, EveryBufferInOnePlace, TypeOK
    <3> QED BY <2>3, <3>1, <3>2, AppendList
  <2>6. CallersHold \subseteq CallersHold' \cup {hand[t]}
    BY <2>2 DEF CallersHold
  <2>7. Asked \subseteq Asked'
    BY <2>3, <2>4, <2>5, <2>6 DEF Asked
  <2> QED BY <2>1, <2>2, <2>3, <2>7, WaitFrame DEF WaitInv
<1>4. ASSUME NEW t \in Callers, NEW place, Goes(t, place),
             UNCHANGED <<queue, batch, hand, req, posted, wanted>>,
             t \in Requesters /\ place = "idle" => wanted[t] = {},
             t \in Requesters /\ place = "wait" => wanted[t] # {}
      PROVE  WaitInv'
  <2>1. at'[t] = place /\ \A u \in Threads : u # t => at'[u] = at[u]
    BY <1>4, GoesTo DEF LoggerInv
  <2>2. Asked' = Asked
    BY <1>4, <2>1 DEF Asked, InChange, CallersHold
  <2> QED BY <1>4, <2>1, <2>2 DEF WaitInv
<1>5. CASE StartRound \/ EndRound
  BY <1>4, <1>5 DEF StartRound, EndRound
<1>6. ASSUME NEW t \in Callers, Send(t)
      PROVE  WaitInv'
  <2>1. /\ t \in Requesters /\ Back(t) = "idle" => wanted[t] = {}
        /\ t \in Requesters /\ Back(t) = "wait" => wanted[t] # {}
    BY DEF Back
  <2> QED BY <1>4, <1>6, <2>1 DEF Send
<1>7. ASSUME NEW t \in Requesters, Released(t)
      PROVE  WaitInv'
  <2>1. at'[t] = "idle" /\ \A u \in Threads : u # t => at'[u] = at[u]
    BY <1>7, GoesTo DEF Released, LoggerInv
  <2>2. /\ wanted'[t] = {} /\ UNCHANGED <<queue, batch, hand, req>>
        /\ \A u \in Requesters :
             u # t => posted'[u] = posted[u] /\ wanted'[u] = wanted[u]
    BY <1>7 DEF Released, LoggerInv, TypeOK
  <2>3. Asked' = Asked
    BY <2>1, <2>2 DEF Asked, InChange, CallersHold
  <2> QED BY <2>1, <2>2, <2>3 DEF WaitInv
<1> QED BY <1>1, <1>2, <1>3, <1>5, <1>6, <1>7 DEF CallerStep

(* The steps of the logger.                                                *)
LEMMA WaitLogger ==
  ASSUME WaitInv, LoggerInv, LoggerStep
  PROVE  WaitInv'
<1> USE DEF lists, client, LoggerStep
<1>1. /\ wanted' = wanted /\ \E place : Goes("logger", place)
      /\ ~Signal => posted' = posted
  BY DEF Wake, Cut, NextRequest, BatchDone, HandleAlarm, HandleChannel, HandleSet,
         Publish, Copy, Signal, PutBack
<1>2. \A t \in Callers : at'[t] = at[t]
  BY <1>1, GoesTo DEF LoggerInv
<1>3. \A t \in Callers : hand'[t] = hand[t]
  BY DEF Wake, Cut, NextRequest, BatchDone, HandleAlarm, HandleChannel, HandleSet,
         Publish, Copy, Signal, PutBack, LoggerInv, TypeOK
<1>4. CallersHold' = CallersHold
  BY <1>3 DEF CallersHold
<1>5. ASSUME Asked \subseteq Asked', req' = req, posted' = posted
      PROVE  WaitInv'
  BY <1>1, <1>2, <1>3, <1>5, WaitFrame DEF WaitInv
<1>6. CASE Wake \/ BatchDone \/ Cut
  <2>1. at["logger"] \in {"idle", "cut", "next"} /\ req' = req /\ posted' = posted
    BY <1>6 DEF Wake, BatchDone, Cut
  <2>2. InList(queue) \cup InList(batch) \subseteq InList(queue') \cup InList(batch')
    BY <1>6, EmptyList DEF Wake, BatchDone, Cut, LoggerInv, Places
  <2>3. Asked \subseteq Asked'
    BY <1>4, <2>1, <2>2 DEF Asked, InChange
  <2> QED BY <1>5, <2>1, <2>3
<1>7. CASE NextRequest
  <2> DEFINE b == Head(batch)
  <2>1. /\ hand'["logger"] = b /\ at'["logger"] = req[b].kind
        /\ req' = req /\ queue' = queue /\ posted' = posted /\ at["logger"] = "next"
    BY <1>7 DEF NextRequest, Goes, LoggerInv, TypeOK
  <2>2. b \in InList(batch) /\ InList(batch') = InList(batch) \ {b}
    BY <1>7, TailList DEF NextRequest, LoggerInv, TypeOK, EveryBufferInOnePlace
  <2> HIDE DEF b
  <2>3. req[b].kind = "set" => b \in InChange'
    BY <2>1 DEF InChange
  <2>4. Asked \subseteq Asked'
    BY <1>4, <2>1, <2>2, <2>3 DEF Asked, InChange
  <2> QED BY <1>5, <2>1, <2>4
<1>8. CASE HandleAlarm \/ HandleChannel \/ HandleSet \/ Publish \/ Copy
  <2>1. /\ UNCHANGED <<queue, batch, hand, req, posted>>
        /\ at["logger"] \in {"set", "publish", "copy", "signal"} =>
             at'["logger"] \in {"set", "publish", "copy", "signal"}
    BY <1>8 DEF HandleAlarm, HandleChannel, HandleSet, Publish, Copy, Goes,
                LoggerInv, TypeOK
  <2>2. Asked \subseteq Asked'
    BY <1>4, <2>1 DEF Asked, InChange
  <2> QED BY <1>5, <2>1, <2>2
<1>9. CASE Signal
  <2>1. /\ UNCHANGED <<queue, batch, hand, req>> /\ at["logger"] = "signal"
        /\ posted' = [posted EXCEPT ![InHand.from] = TRUE]
    BY <1>9 DEF Signal
  <2>2. Asked \subseteq Asked' \cup {hand["logger"]} /\ InHand = req[hand["logger"]]
    BY <1>4, <2>1 DEF Asked, InChange, InHand
  <2>3. ASSUME NEW t \in Requesters
        PROVE  /\ t = InHand.from => posted'[t]
               /\ t # InHand.from => posted'[t] = posted[t]
    BY <2>1 DEF LoggerInv, TypeOK
  <2>4. ASSUME NEW t \in Requesters, wanted[t] # {}
        PROVE  posted'[t] \/ \E b \in Asked' : req[b].from = t
    BY <2>2, <2>3, <2>4 DEF WaitInv
  <2> QED BY <1>1, <1>2, <1>3, <2>1, <2>4 DEF WaitInv
<1>10. CASE PutBack
  <2>1. /\ UNCHANGED <<queue, batch, posted>> /\ at["logger"] = "put"
        /\ \A c \in Buffers : c # hand["logger"] => req'[c] = req[c]
    BY <1>10 DEF PutBack, LoggerInv, TypeOK
  <2>2. hand["logger"] \notin Asked /\ Asked \subseteq Buffers
    BY <2>1, AskedInUse
  <2>3. \A c \in Asked : req'[c] = req[c]
    BY <2>1, <2>2
  <2>4. Asked \subseteq Asked'
    BY <1>4, <2>1, <2>3 DEF Asked, InChange
  <2>5. ASSUME NEW u \in Callers, hand'[u] # None, req'[hand'[u]].kind = "set"
        PROVE  req'[hand'[u]].from = u
    <3>1. hand'[u] = hand[u] /\ hand[u] \in Buffers
      BY <1>3, <2>5 DEF LoggerInv, TypeOK
    <3>2. hand[u] # hand["logger"]
      BY <2>5, <3>1 DEF LoggerInv, EveryBufferInOnePlace
    <3>3. req'[hand[u]] = req[hand[u]]
      BY <2>1, <3>1, <3>2
    <3> QED BY <2>5, <3>1, <3>3 DEF WaitInv
  <2> QED BY <1>1, <1>2, <2>1, <2>3, <2>4, <2>5, WaitFrame
<1> QED BY <1>6, <1>7, <1>8, <1>9, <1>10

LEMMA WaitStep == LoggerInv /\ WaitInv /\ [Next]_vars => WaitInv'
<1> SUFFICES ASSUME LoggerInv, WaitInv, [Next]_vars
             PROVE  WaitInv'
  OBVIOUS
<1>1. CASE Cleanup
  <2>1. UNCHANGED <<queue, batch, hand, req, at, posted, wanted>>
    BY <1>1 DEF Cleanup, lists, client
  <2>2. Asked' = Asked
    BY <2>1 DEF Asked, InChange, CallersHold
  <2> QED BY <2>1, <2>2 DEF WaitInv
<1>2. CASE Restart
  <2>1. \A t \in Requesters : at'[t] = "idle" /\ wanted'[t] = {}
    BY <1>2 DEF Restart
  <2>2. \A t \in Callers : hand'[t] = None
    BY <1>2 DEF Restart
  <2> QED BY <2>1, <2>2 DEF WaitInv
<1>3. CASE UNCHANGED vars
  <2>1. UNCHANGED <<queue, batch, hand, req, at, posted, wanted>>
    BY <1>3 DEF vars, lists, client
  <2>2. Asked' = Asked
    BY <2>1 DEF Asked, InChange, CallersHold
  <2> QED BY <2>1, <2>2 DEF WaitInv
<1> QED BY <1>1, <1>2, <1>3, WaitRequested, WaitCallers, WaitLogger, Zenon DEF Next

(* Whatever fails, nobody waits for something that does not come: no       *)
(* signal is lost between thread_queue_add, ev_async_send and the callback *)
(* that empties the queue, and no request of a thread in completion_wait.  *)
THEOREM NoVainWait == Spec => []NobodyWaitsInVain
<1>1. Init => SignalInv /\ WaitInv
  BY DEF Init, SignalInv, WaitInv
<1>2. LoggerInv /\ SignalInv /\ WaitInv => NobodyWaitsInVain
  <2> SUFFICES ASSUME LoggerInv, SignalInv, WaitInv
               PROVE  NobodyWaitsInVain
    OBVIOUS
  <2>1. ASSUME NEW t \in Requesters, at[t] = "wait", ~posted[t]
        PROVE  \/ \E b \in InList(queue) \cup InList(batch) :
                    req[b].kind = "set" /\ req[b].from = t
               \/ /\ at["logger"] \in {"set", "publish", "copy", "signal"}
                  /\ InHand.from = t
    <3>1. PICK b \in Asked : req[b].from = t
      BY <2>1 DEF WaitInv
    <3>2. req[b].kind = "set"
      BY <3>1 DEF Asked
    <3>3. b \notin CallersHold
      <4> SUFFICES ASSUME NEW u \in Callers, hand[u] = b, b # None
                   PROVE  FALSE
        BY DEF CallersHold
      <4>1. u = t
        BY <3>1, <3>2 DEF WaitInv
      <4> QED BY <2>1, <4>1 DEF LoggerInv, Places
    <3>4. CASE b \in InChange
      <4>1. at["logger"] \in {"set", "publish", "copy", "signal"} /\ b = hand["logger"]
        BY <3>4 DEF InChange
      <4> QED BY <3>1, <4>1 DEF InHand
    <3> QED BY <3>1, <3>2, <3>3, <3>4 DEF Asked
  <2> QED BY <2>1 DEF NobodyWaitsInVain, SignalInv, LoggerInv, Places
<1> QED BY <1>1, <1>2, InitLogger, LoggerStepKeeps, SignalStep, WaitStep, PTL DEF Spec

(* The tables hold a set that somebody asked for.                          *)
WholeSets == saved.trace \in TraceSets /\ work.trace \in TraceSets

(* What logger_atomic refutes in general holds as long as no statement     *)
(* fails: logger_db_set_trace_channels replaces the set on disk as a       *)
(* whole, whichever commits fail and whenever the server is stopped.       *)
THEOREM SetReplacedWhole ==
  ASSUME NothingFails
  PROVE  Spec => []SetIsAllOrNothing
<1>1. Init => WholeSets
  BY DEF Init, WholeSets
<1>2. LoggerInv /\ WholeSets /\ [Next]_vars => WholeSets'
  <2> SUFFICES ASSUME LoggerInv, WholeSets, [Next]_vars
               PROVE  WholeSets'
    OBVIOUS
  <2>1. "statement" \notin Failures /\ work \in Databases
    BY DEF NothingFails, LoggerInv, TypeOK
  <2>2. ASSUME NEW w, Executes(w), w.trace \in TraceSets
        PROVE  WholeSets'
    BY <2>2 DEF Executes, WholeSets
  <2>3. CASE db' = db
    BY <2>3 DEF db, WholeSets
  <2>4. CASE HandleAlarm
    <3>1. Executes([work EXCEPT !.alarms = Append(@, InHand.event)])
      BY <2>1, <2>4 DEF HandleAlarm, FailsAt
    <3>2. [work EXCEPT !.alarms = Append(@, InHand.event)].trace = work.trace
      BY <2>1 DEF Databases
    <3> QED BY <2>2, <3>1, <3>2 DEF WholeSets
  <2>5. CASE HandleChannel
    <3>1. db' = db \/ Executes([work EXCEPT !.rows = @ \cup {InHand.channel}])
      BY <2>1, <2>5 DEF HandleChannel, FailsAt
    <3>2. [work EXCEPT !.rows = @ \cup {InHand.channel}].trace = work.trace
      BY <2>1 DEF Databases
    <3> QED BY <2>2, <2>3, <3>1, <3>2 DEF WholeSets
  <2>6. CASE Cleanup
    <3>1. PICK old \in SUBSET (work.rows \cap traced), k \in 0 .. Len(work.alarms) :
            Executes([work EXCEPT !.rows = @ \ old,
                        !.alarms = SubSeq(@, k + 1, Len(@))])
      BY <2>1, <2>6 DEF Cleanup, FailsAt
    <3>2. [work EXCEPT !.rows = @ \ old,
             !.alarms = SubSeq(@, k + 1, Len(@))].trace = work.trace
      BY <2>1 DEF Databases
    <3> QED BY <2>2, <3>1, <3>2 DEF WholeSets
  <2>7. CASE HandleSet
    <3>1. Executes([work EXCEPT !.trace = InHand.channels, !.rows = {}])
      BY <2>1, <2>7 DEF HandleSet, FailsAt
    <3>2. InHand.channels \in TraceSets
      <4>1. at["logger"] = "set"
        BY <2>7 DEF HandleSet
      <4>2. hand["logger"] \in Buffers /\ InHand.kind = "set"
        BY <4>1 DEF LoggerInv, Places, TypeOK, Working
      <4> QED BY <4>2, RequestFields DEF InHand, LoggerInv, TypeOK
    <3>3. [work EXCEPT !.trace = InHand.channels, !.rows = {}].trace = InHand.channels
      BY <2>1 DEF Databases
    <3> QED BY <2>2, <3>1, <3>2, <3>3
  <2>8. CASE Restart
    BY <2>8 DEF Restart, WholeSets
  <2>9. \/ db' = db \/ HandleAlarm \/ HandleChannel \/ HandleSet \/ Cleanup \/ Restart
    BY DEF Next, CallerStep, LoggerStep, LogAlarm, Add, Send, StartRound, LogChannel,
           EndRound, Released, RequestSet, Wake, Cut, NextRequest, BatchDone, Publish,
           Copy, Signal, PutBack, vars
  <2> QED BY <2>3, <2>4, <2>5, <2>6, <2>7, <2>8, <2>9
<1>3. WholeSets => SetIsAllOrNothing
  BY DEF WholeSets, SetIsAllOrNothing
<1> QED BY <1>1, <1>2, <1>3, InitLogger, LoggerStepKeeps, PTL DEF Spec
=============================================================================
