----------------------------- MODULE ModbusSlave -----------------------------
(***************************************************************************)
(* The Modbus slaves: one thread (main/modbus_slave_driver.c) serves every *)
(* TCP connection and every serial line.  It cuts the incoming bytes into  *)
(* frames (modbus/mbap_reader.c, modbus_rtu_slave.c), checks the request   *)
(* (modbus_rtu_request_handler.c and the modbus_func_*.c) and then goes    *)
(* through the registers one by one, with the channel lock taken for each  *)
(* access only: the scan of the app_core thread runs in between.           *)
(*                                                                         *)
(* A peer's bytes are those of the frames it sent: a head (MBAP header, or *)
(* the serial address) and the units of the PDU with what follows it.      *)
(* Registers' 16-bit addresses count modulo AddrSpace.                     *)
(***************************************************************************)
EXTENDS Integers, Sequences, FiniteSets

CONSTANTS
  TcpLinks, RtuLinks,     (* connections and serial lines                  *)
  Menu,                   (* the requests that the peer of each link may   *)
                          (* send first, second, ...; bound: no more       *)
  MayDrop,                (* links whose stream_write may fail             *)
  HeadSize,               (* units before the PDU: the MBAP header's 7     *)
  MaxFrame,               (* MB_TCP_PDU_SIZE_MAX, MB_SER_RTU_PDU_SIZE_MAX  *)
  MinRtu,                 (* MB_SER_RTU_PDU_SIZE_MIN                       *)
  RxMax,                  (* what a serial line delivers at most at once   *)
  AddrSpace,              (* 2^16                                          *)
  LowByte,                (* 2^8                                           *)
  MaxQuantity,            (* what each function takes at most              *)
  RegMap,                 (* the registers mapped: <<type, address>> to    *)
                          (* [alarm, num, data, status]                    *)
  DataMod,                (* values of a register's data bits              *)
  Inputs, Outputs,        (* the channels, in the order of the scan        *)
  MaxVersion              (* bound: values the application gives           *)

Links == TcpLinks \cup RtuLinks
InputSet == {Inputs[i] : i \in 1 .. Len(Inputs)}
OutputSet == {Outputs[i] : i \in 1 .. Len(Outputs)}
Channels == InputSet \cup OutputSet

Addresses == 0 .. AddrSpace - 1
Words == 0 .. 2 * DataMod - 1
Singles == {"write_register", "write_coil"}
Multiples == {"write_registers", "write_coils"}
Writes == Singles \cup Multiples \cup {"read_write"}
Reads == {"read_holding", "read_input", "read_coils", "read_discrete", "read_write"}

TypeOf(fn) ==
  CASE fn \in {"read_coils"} \cup {"write_coil", "write_coils"} -> "coil"
    [] fn = "read_discrete" -> "discrete"
    [] fn = "read_input" -> "input"
    [] OTHER -> "holding"

Ranges == [start : Addresses, n : Nat]

(* A frame: its function, unit address, ranges, values to write, whether   *)
(* the length, byte count and single coil's value in it fit or it is too   *)
(* short for its fields, the units after the head and the count of them    *)
(* that the length field announces.                                        *)
Fits == {"yes", "no", "short"}
Requests ==
  [fn : Reads \cup Writes \cup {"unknown"}, uid : {"mine", "broadcast", "other"},
   read : Ranges, write : Ranges, values : Seq(Words), fits : Fits,
   body : Nat \ {0}, length : Nat]

(* A channel is in one of the two lists, and once.                         *)
ASSUME SlaveAssumption ==
  /\ TcpLinks \cap RtuLinks = {} /\ MayDrop \subseteq Links
  /\ Menu \in [Links -> Seq(SUBSET Requests)]
  /\ MinRtu \in Nat /\ MaxVersion \in Nat
  /\ RxMax \in 1 .. MaxFrame - 1
  /\ HeadSize \in Nat \ {0} /\ MaxFrame \in Nat /\ MaxFrame > HeadSize
  /\ AddrSpace \in Nat \ {0} /\ LowByte \in Nat \ {0} /\ DataMod \in Nat \ {0}
  /\ Inputs \in Seq(Channels) /\ Outputs \in Seq(Channels)
  /\ InputSet \cap OutputSet = {}
  /\ \A i, j \in DOMAIN Inputs : Inputs[i] = Inputs[j] => i = j
  /\ \A i, j \in DOMAIN Outputs : Outputs[i] = Outputs[j] => i = j

VARIABLES
  sent,       (* the requests the peer of each link sent                   *)
  open,       (* the links whose connection exists                         *)
  pos,        (* how far the slave has read each link: the frame it is in  *)
              (* and how many of its units are read                        *)
  reader,     (* mbap_reader_t, or the buffer and t35 timer of a line; from *)
              (* is the frame whose first unit it began with, 0 if none    *)
  srv,        (* the thread: the request it handles                        *)
  answers,    (* the answers on each link: for which frame, of what kind   *)
  chnl,       (* raw_value_queued, raw_value_avail, sensor_fault of each   *)
              (* channel; by and taken are history: the write request that *)
              (* queued the value, and that of the value the scan took     *)
  core,       (* the app_core thread: where its scan stands, and the value *)
              (* the application gives to the outputs                      *)
  serial      (* history: write requests begun                             *)

vars == <<sent, open, pos, reader, srv, answers, chnl, core, serial>>
linkVars == <<sent, open, pos, reader, answers>>
-----------------------------------------------------------------------------
(* Requests.                                                               *)

Menued(l) == UNION {Menu[l][i] : i \in DOMAIN Menu[l]}

Size(r) == HeadSize + r.body
WellFormed(r) == r.length = r.body + 1 /\ Size(r) <= MaxFrame

(* Only the low byte of a read's count of holding registers is used.       *)
Quantity(r) == IF r.fn = "read_holding" THEN r.read.n % LowByte ELSE r.read.n

(* The limit is exclusive for all reads but that of holding registers.     *)
QuantityOk(r) ==
  /\ r.fn \in Reads =>
       /\ Quantity(r) >= 1
       /\ IF r.fn \in {"read_holding", "read_write"}
          THEN Quantity(r) <= MaxQuantity["read_holding"]
          ELSE Quantity(r) < MaxQuantity[r.fn]
  /\ r.fn \in Multiples \cup {"read_write"} =>
       r.write.n >= 1 /\ r.write.n <= MaxQuantity[r.fn]

(* What a handler says before it turns to the registers; "go on" if it     *)
(* does.  A read/write request that is too short is answered with itself.  *)
Checked(r) ==
  CASE r.fn = "unknown" -> "illegal function"
    [] r.fn = "read_write" /\ r.fits = "short" -> "normal"
    [] r.fn \notin {"unknown", "read_write"} /\ r.fits = "short" -> "illegal value"
    [] r.fn # "unknown" /\ r.fits # "short" ->
         IF r.fits = "yes" /\ QuantityOk(r) THEN "go on" ELSE "illegal value"

FirstPhase(r) == IF r.fn \in Writes THEN "write" ELSE "read"

NRegs(r, phase) ==
  IF phase = "read" THEN Quantity(r)
  ELSE IF r.fn \in Singles THEN 1 ELSE r.write.n
Start(r, phase) == IF phase = "read" THEN r.read.start ELSE r.write.start

(* Mutant: the range ends one register too late.                           *)
EndOffByOne(r, phase) == (Start(r, phase) + NRegs(r, phase)) % AddrSpace

(* end_addr, 16 bits wide.                                                 *)
End(r, phase) == (Start(r, phase) + NRegs(r, phase) - 1) % AddrSpace

(* The slave answers what was sent to it alone.                            *)
Replies(r) == r.uid = "mine"
-----------------------------------------------------------------------------
FreshReader == [state |-> "header", remaining |-> HeadSize, ndx |-> 0, from |-> 0]

Idle == [pc |-> "idle", link |-> "none"]

Init ==
  /\ sent = [l \in Links |-> <<>>]
  /\ open = Links
  /\ pos = [l \in Links |-> [frame |-> 1, off |-> 0]]
  /\ reader = [l \in Links |-> FreshReader]
  /\ srv = Idle
  /\ answers = [l \in Links |-> <<>>]
  /\ chnl = [c \in Channels |-> [raw_value_queued |-> 0, raw_value_avail |-> FALSE,
                                 sensor_fault |-> FALSE, by |-> 0, taken |-> 0]]
  /\ core = [at |-> 1, version |-> 0]
  /\ serial = 0
-----------------------------------------------------------------------------
(* The peer sends a request, whether those before it are answered or not.  *)
Send(l, r) ==
  /\ l \in open /\ Len(sent[l]) < Len(Menu[l]) /\ r \in Menu[l][Len(sent[l]) + 1]
  /\ sent' = [sent EXCEPT ![l] = Append(@, r)]
  /\ UNCHANGED <<open, pos, reader, srv, answers, chnl, core, serial>>

(* stream_event_eof and _err of a connection; a serial line ignores both.  *)
Close(l) ==
  /\ srv.pc = "idle" /\ l \in open \cap TcpLinks
  /\ open' = open \ {l}
  /\ UNCHANGED <<sent, pos, reader, srv, answers, chnl, core, serial>>

Readable(l) == srv.pc = "idle" /\ l \in open /\ pos[l].frame <= Len(sent[l])

(* The position k units further, within the frame.                         *)
Advance(l, k) ==
  IF pos[l].off + k = Size(sent[l][pos[l].frame])
  THEN [frame |-> pos[l].frame + 1, off |-> 0]
  ELSE [frame |-> pos[l].frame, off |-> pos[l].off + k]

(* The frame that a reader begins with when its buffer is empty.           *)
From(l, ndx) ==
  IF ndx # 0 THEN reader[l].from
  ELSE IF pos[l].off = 0 THEN pos[l].frame ELSE 0

(* modbus_rtu_handler_request_rx for a request of frame id of link l, up   *)
(* to the loop over the registers if there is one.  Write requests are     *)
(* numbered as they begin.                                                 *)
Handle(l, r, id) ==
  LET phase == FirstPhase(r)
      goes_on == Checked(r) = "go on"
  IN  /\ srv' = [pc |-> IF goes_on THEN "regs" ELSE "reply", link |-> l,
                 req |-> r, id |-> id,
                 kind |-> IF goes_on THEN "normal" ELSE Checked(r),
                 phase |-> phase, cur |-> Start(r, phase), end |-> End(r, phase),
                 ndx |-> 1, part |-> "data", half |-> 0, words |-> <<>>, wrote |-> {}]
      /\ serial' = IF goes_on /\ phase = "write" THEN serial + 1 ELSE serial

(* A frame for another unit is passed over.                                *)
PassOver == srv' = Idle /\ UNCHANGED serial
-----------------------------------------------------------------------------
(* TCP: mbap_reader_feed takes a chunk byte by byte, so a chunk is its     *)
(* units read one after the other.                                         *)

(* The length that the header read last announces: its frame's, or, out of *)
(* step with the frames, whatever bytes are found in that place.           *)
Lengths(l) ==
  IF reader[l].ndx = 0 \/ reader[l].from # 0
  THEN {sent[l][pos[l].frame].length} ELSE 0 .. MaxFrame

(* Mutant: the unit address is not counted.                                *)
PduUnitsOneTooMany(length) == length

(* data_remaining: the length counts the unit address too.                 *)
PduUnits(length) == length - 1

(* mbap_state_machine in the state header.                                 *)
FeedHeader(l) ==
  /\ l \in TcpLinks /\ Readable(l) /\ reader[l].state = "header"
  /\ \/ /\ reader[l].remaining > 1
        /\ reader' = [reader EXCEPT ![l] =
             [reader[l] EXCEPT !.remaining = @ - 1, !.ndx = @ + 1,
                               !.from = From(l, reader[l].ndx)]]
     \/ /\ reader[l].remaining = 1
        /\ \E length \in Lengths(l) :
             reader' = [reader EXCEPT ![l] =
               [state |-> "pdu", remaining |-> PduUnits(length),
                ndx |-> reader[l].ndx + 1, from |-> From(l, reader[l].ndx)]]
  /\ pos' = [pos EXCEPT ![l] = Advance(l, 1)]
  /\ UNCHANGED <<sent, open, srv, answers, chnl, core, serial>>

(* The requests that a complete frame may hold: the one sent, if it was    *)
(* cut as it should; if not, one that does not fit or, begun in the middle *)
(* of a frame, any.                                                        *)
Contents(l) ==
  LET from == reader[l].from
  IN  IF from # 0
      THEN IF WellFormed(sent[l][from]) THEN {sent[l][from]}
           ELSE {[sent[l][from] EXCEPT !.fits = b] : b \in Fits}
      ELSE Menued(l)

(* mbap_state_machine in the state pdu: the buffer is full, the frame goes *)
(* on, or it is complete and modbus_tcp_slave_handle_rx_frame is called.   *)
FeedPdu(l) ==
  /\ l \in TcpLinks /\ Readable(l) /\ reader[l].state = "pdu"
  /\ pos' = [pos EXCEPT ![l] = Advance(l, 1)]
  /\ \/ /\ reader[l].ndx >= MaxFrame
        /\ reader' = [reader EXCEPT ![l] = FreshReader]
        /\ UNCHANGED <<srv, serial>>
     \/ /\ reader[l].ndx < MaxFrame /\ reader[l].remaining # 1
        /\ reader' = [reader EXCEPT ![l] =
             [reader[l] EXCEPT !.remaining = @ - 1, !.ndx = @ + 1]]
        /\ UNCHANGED <<srv, serial>>
     \/ /\ reader[l].ndx < MaxFrame /\ reader[l].remaining = 1
        /\ reader' = [reader EXCEPT ![l] = FreshReader]
        /\ \E r \in Contents(l) :
             IF r.uid = "other" THEN PassOver ELSE Handle(l, r, reader[l].from)
  /\ UNCHANGED <<sent, open, answers, chnl, core>>
-----------------------------------------------------------------------------
(* Serial lines.                                                           *)

(* modbus_rtu_rx: a chunk of k units; the timer t35 is started anew.       *)
RxRtu(l, k) ==
  LET ndx == IF reader[l].ndx + k >= MaxFrame THEN 0 ELSE reader[l].ndx
  IN  /\ l \in RtuLinks /\ Readable(l)
      /\ k <= Size(sent[l][pos[l].frame]) - pos[l].off
      /\ reader' = [reader EXCEPT ![l] =
           [reader[l] EXCEPT !.state = "t35", !.ndx = ndx + k, !.from = From(l, ndx)]]
      /\ pos' = [pos EXCEPT ![l] = Advance(l, k)]
      /\ UNCHANGED <<sent, open, srv, answers, chnl, core, serial>>

(* The checksum is right: the buffer holds one frame and no more.          *)
CrcOk(l) == reader[l].from # 0 /\ pos[l] = [frame |-> reader[l].from + 1, off |-> 0]

(* t35_timeout_handler: the line was silent, what is in the buffer is a    *)
(* frame or is given up.                                                   *)
Silence(l) ==
  /\ srv.pc = "idle" /\ l \in RtuLinks /\ reader[l].state = "t35"
  /\ reader' = [reader EXCEPT ![l] = FreshReader]
  /\ IF reader[l].ndx >= MinRtu /\ CrcOk(l)
     THEN LET r == sent[l][reader[l].from]
          IN  IF r.uid = "other" THEN PassOver ELSE Handle(l, r, reader[l].from)
     ELSE PassOver
  /\ UNCHANGED <<sent, open, pos, answers, chnl, core>>
-----------------------------------------------------------------------------
(* __handle_modbus_u16 and __handle_modbus_u1, register by register.       *)

Here == <<TypeOf(srv.req.fn), srv.cur>>
InRange == srv.pc = "regs" /\ srv.cur <= srv.end

(* No such register: the request is given up where it stands.              *)
Unmapped ==
  /\ InRange /\ Here \notin DOMAIN RegMap
  /\ srv' = [srv EXCEPT !.pc = "reply", !.kind = "failure"]
  /\ UNCHANGED <<linkVars, chnl, core, serial>>

(* Mutant: the address is wider than 16 bits.                              *)
MovesOnWide(s) ==
  [s EXCEPT !.cur = @ + 1, !.ndx = @ + 1, !.part = "data", !.half = 0]

(* current_addr++, 16 bits wide.                                           *)
MovesOn(s) ==
  [s EXCEPT !.cur = (@ + 1) % AddrSpace, !.ndx = @ + 1, !.part = "data", !.half = 0]

(* The word w was read from the register; coils and inputs are one bit.    *)
WordRead(s, w) ==
  LET bit == TypeOf(s.req.fn) \in {"coil", "discrete"}
  IN  [s EXCEPT !.words = Append(@, IF bit /\ w # 0 THEN 1 ELSE w)]

(* The data bits of a register, taken from the channel's raw value.        *)
DataBits(reg) ==
  IF reg.data /\ reg.num \in Channels THEN chnl[reg.num].raw_value_queued % DataMod
  ELSE 0

StatusBits(reg) ==
  IF reg.num \in Channels /\ chnl[reg.num].sensor_fault THEN DataMod ELSE 0

(* __encode_modbus_register: the state of an alarm, whatever it is; or the *)
(* raw value and then, under the lock once more, the status.               *)
ReadRegister ==
  /\ InRange /\ srv.phase = "read" /\ Here \in DOMAIN RegMap
  /\ LET reg == RegMap[Here] IN
     \/ /\ reg.alarm
        /\ \E state \in 0 .. DataMod - 1 : srv' = MovesOn(WordRead(srv, state))
     \/ /\ ~reg.alarm /\ srv.part = "data" /\ ~reg.status
        /\ srv' = MovesOn(WordRead(srv, DataBits(reg)))
     \/ /\ ~reg.alarm /\ srv.part = "data" /\ reg.status
        /\ srv' = [srv EXCEPT !.part = "status", !.half = DataBits(reg)]
     \/ /\ ~reg.alarm /\ srv.part = "status"
        /\ srv' = MovesOn(WordRead(srv, srv.half + StatusBits(reg)))
  /\ UNCHANGED <<linkVars, chnl, core, serial>>

(* The value a request has for the register it is at.  A range that goes   *)
(* past the last address goes on behind the request's values.              *)
Value(s) ==
  LET v == s.values[srv.ndx]
  IN  IF srv.ndx > Len(s.values) THEN Words
      ELSE {IF TypeOf(s.fn) = "coil" THEN v % 2 ELSE v}

(* channel_manager_set_raw_value.                                          *)
Queued(num, v) ==
  [chnl EXCEPT ![num].raw_value_queued = v, ![num].raw_value_avail = TRUE,
               ![num].by = serial]

Written(s) == [MovesOn(s) EXCEPT !.wrote = @ \cup {s.cur}]

(* __decode_modbus_register: the raw value and then, under the lock once   *)
(* more, the status.  It does not look whether the register stands for an  *)
(* alarm: the channel with the alarm's number is set.                      *)
WriteRegister ==
  /\ InRange /\ srv.phase = "write" /\ Here \in DOMAIN RegMap
  /\ LET reg == RegMap[Here] IN
     \E v \in Value(srv.req) :
       \/ /\ srv.part = "data"
          /\ chnl' = (IF reg.data /\ reg.num \in Channels
                      THEN Queued(reg.num, v % DataMod) ELSE chnl)
          /\ srv' = IF reg.status THEN [srv EXCEPT !.part = "status"] ELSE Written(srv)
       \/ /\ srv.part = "status"
          /\ chnl' = (IF reg.num \in Channels
                      THEN [chnl EXCEPT ![reg.num].sensor_fault = v \div DataMod = 1]
                      ELSE chnl)
          /\ srv' = Written(srv)
  /\ UNCHANGED <<linkVars, core, serial>>

(* The loop is over: a read/write request reads now.                       *)
RangeOver ==
  /\ srv.pc = "regs" /\ srv.cur > srv.end
  /\ srv' = IF srv.phase = "write" /\ srv.req.fn \in Reads
            THEN [srv EXCEPT !.phase = "read", !.cur = Start(srv.req, "read"),
                             !.end = End(srv.req, "read"), !.ndx = 1]
            ELSE [srv EXCEPT !.pc = "reply"]
  /\ UNCHANGED <<linkVars, chnl, core, serial>>

(* The answer is written to the stream, which may have no room for it.     *)
Reply ==
  LET l == srv.link
      answer == [id |-> srv.id, kind |-> srv.kind]
  IN  /\ srv.pc = "reply"
      /\ \/ /\ Replies(srv.req)
            /\ answers' = [answers EXCEPT ![l] = Append(@, answer)]
         \/ /\ ~Replies(srv.req) \/ l \in MayDrop
            /\ UNCHANGED answers
      /\ srv' = Idle
      /\ UNCHANGED <<sent, open, pos, reader, chnl, core, serial>>
-----------------------------------------------------------------------------
(* The app_core thread, one channel after the other (module Core).         *)

(* Mutant: the scan goes through the channels backwards.                   *)
ScannedBackwards ==
  IF core.at <= Len(Inputs) THEN Inputs[Len(Inputs) + 1 - core.at]
  ELSE Outputs[Len(Inputs) + Len(Outputs) + 2 - core.at]

Scanned == IF core.at <= Len(Inputs) THEN Inputs[core.at]
           ELSE Outputs[core.at - Len(Inputs) - 1]

NextTurn == IF core.at = Len(Inputs) + 1 + Len(Outputs) THEN 1 ELSE core.at + 1

(* An input's new raw value is taken.                                      *)
ScanInput ==
  /\ core.at <= Len(Inputs)
  /\ chnl' = [chnl EXCEPT ![Scanned].raw_value_avail = FALSE,
                          ![Scanned].taken = IF chnl[Scanned].raw_value_avail
                                             THEN chnl[Scanned].by ELSE @]
  /\ core' = [core EXCEPT !.at = NextTurn]
  /\ UNCHANGED <<linkVars, srv, serial>>

(* The application gives its outputs a new value, or the old one.          *)
AppRun ==
  /\ core.at = Len(Inputs) + 1
  /\ \E v \in {core.version, core.version + 1} :
       v <= MaxVersion /\ core' = [at |-> NextTurn, version |-> v]
  /\ UNCHANGED <<linkVars, srv, chnl, serial>>

(* An output's value is handed over to Modbus.                             *)
ScanOutput ==
  /\ core.at > Len(Inputs) + 1
  /\ chnl' = [chnl EXCEPT ![Scanned].raw_value_queued = core.version]
  /\ core' = [core EXCEPT !.at = NextTurn]
  /\ UNCHANGED <<linkVars, srv, serial>>

Scan == ScanInput \/ AppRun \/ ScanOutput
-----------------------------------------------------------------------------
Receive(l) ==
  \/ FeedHeader(l) \/ FeedPdu(l)
  \/ \E k \in 1 .. RxMax : RxRtu(l, k)

Serve == Unmapped \/ ReadRegister \/ WriteRegister \/ RangeOver \/ Reply

Next ==
  \/ \E l \in Links : (\E r \in Menued(l) : Send(l, r)) \/ Close(l)
  \/ \E l \in Links : Receive(l) \/ Silence(l)
  \/ Serve \/ Scan

Spec == Init /\ [][Next]_vars

(* The event loop calls back for every connection that is readable, and a  *)
(* callback runs to its end.  Peers send or do not, and lines fall silent  *)
(* or do not.                                                              *)
Fairness ==
  /\ \A l \in TcpLinks : SF_vars(Receive(l))
  /\ WF_vars(Serve)

FairSpec == Spec /\ Fairness
-----------------------------------------------------------------------------
Kinds == {"normal", "illegal function", "illegal value", "failure"}

HandlingRecord ==
  [pc : {"regs", "reply"}, link : Links, req : Requests, id : Nat, kind : Kinds,
   phase : {"read", "write"}, cur : Addresses, end : Addresses, ndx : Nat \ {0},
   part : {"data", "status"}, half : 0 .. DataMod - 1, words : Seq(Words),
   wrote : SUBSET Addresses]

ChannelRecord ==
  [raw_value_queued : Nat, raw_value_avail : BOOLEAN, sensor_fault : BOOLEAN,
   by : Nat, taken : Nat]

TypeOK ==
  /\ sent \in [Links -> Seq(Requests)]
  /\ open \subseteq Links
  /\ pos \in [Links -> [frame : Nat \ {0}, off : Nat]]
  /\ reader \in [Links -> [state : {"header", "pdu", "t35"}, remaining : Int,
                           ndx : 0 .. MaxFrame, from : Nat]]
  /\ srv = Idle \/ srv \in HandlingRecord
  /\ answers \in [Links -> Seq([id : Nat, kind : Kinds])]
  /\ chnl \in [Channels -> ChannelRecord]
  /\ core \in [at : 1 .. Len(Inputs) + 1 + Len(Outputs), version : 0 .. MaxVersion]
  /\ serial \in Nat

(* Every frame up to the f-th is well formed.                              *)
InStep(l, f) == \A i \in 1 .. f : i \in DOMAIN sent[l] => WellFormed(sent[l][i])

(* The thread has frame f of link l in its hands.                          *)
InHand(l, f) == srv # Idle /\ srv.link = l /\ srv.id = f

Answered(l, f) == \E j \in DOMAIN answers[l] : answers[l][j].id = f

(***************************************************************************)
(* Answers come in the order of the requests, one for each at most.  On a  *)
(* connection whose peer keeps to the frame format, every request for this *)
(* unit that was read has been answered, apart from the one in hand, and   *)
(* nothing else has: the reader is never out of step with the frames.      *)
(***************************************************************************)
AnswersInOrder ==
  \A l \in Links :
    InStep(l, Len(sent[l])) =>
      /\ \A j, k \in DOMAIN answers[l] : j < k => answers[l][j].id < answers[l][k].id
      /\ \A f \in DOMAIN sent[l] :
           /\ Answered(l, f) => f < pos[l].frame /\ Replies(sent[l][f]) /\ ~InHand(l, f)
           /\ l \in TcpLinks \ MayDrop /\ f < pos[l].frame /\ Replies(sent[l][f])
                => Answered(l, f) \/ InHand(l, f)

(* The addresses of a range that ends before the last address.             *)
RangeOf(r, phase) == Start(r, phase) .. Start(r, phase) + NRegs(r, phase) - 1
Plain(r, phase) == Start(r, phase) + NRegs(r, phase) < AddrSpace
Mapped(r, a) == <<TypeOf(r.fn), a>> \in DOMAIN RegMap

(***************************************************************************)
(* What a write has done when it is answered, for a range that ends before *)
(* the last address: a normal answer means that all of its registers are   *)
(* set; a failure means that those before the first one that is not mapped *)
(* are set and no other is.                                                *)
(***************************************************************************)
WriteSetsThePrefix ==
  srv.pc = "reply" /\ srv.req.fn \in Writes /\ Checked(srv.req) = "go on"
      /\ Plain(srv.req, "write") =>
    LET r == srv.req
        range == RangeOf(r, "write")
        reached == {a \in range : \A b \in range : b <= a => Mapped(r, b)}
    IN  /\ srv.wrote = reached
        /\ srv.kind = "normal" => reached = range
        /\ r.fn \notin Reads /\ srv.kind = "failure" => reached # range

(* A write whose range ends on the last address goes on at address 0, and  *)
(* gets to address a if no register of the range and none before a is      *)
(* missing from the map.                                                   *)
ComesRoundTo(r, a) ==
  /\ End(r, "write") = AddrSpace - 1
  /\ \A b \in (Start(r, "write") .. AddrSpace - 1) \cup (0 .. a - 1) : Mapped(r, b)

(***************************************************************************)
(* A peer sets only the channels of registers in the range of a request    *)
(* that was found good: neither the others of the map nor, while the loop  *)
(* goes on, one behind the range.  Only a range that ends on the last      *)
(* address goes on behind it, with the registers that are mapped without a *)
(* gap from address 0.                                                     *)
(***************************************************************************)
WritesInRange ==
  [][\A c \in Channels :
       chnl'[c].by # chnl[c].by \/ chnl'[c].sensor_fault # chnl[c].sensor_fault =>
         LET r == srv.req
         IN  /\ srv.pc = "regs" /\ r.fn \in Writes /\ Checked(r) = "go on"
             /\ \E a \in Addresses :
                  /\ a \in RangeOf(r, "write") \/ ComesRoundTo(r, a)
                  /\ Mapped(r, a) /\ RegMap[<<TypeOf(r.fn), a>>].num = c]_vars

(* The register at address a stands for the value of channel c.            *)
Holds(r, a, c) ==
  Mapped(r, a) /\ LET reg == RegMap[<<TypeOf(r.fn), a>>] IN reg.data /\ reg.num = c

(* The pairs <<d, f>> of channels such that the peers announce d by f: a   *)
(* request that sets f sets d too, at a lower address, and no request     *)
(* comes round to f.                                                       *)
Announced ==
  {pair \in InputSet \X InputSet :
     \A l \in Links : \A r \in Menued(l) : r.fn \in Writes =>
       /\ \A a \in RangeOf(r, "write") : Holds(r, a, pair[2]) =>
            \E b \in RangeOf(r, "write") : b < a /\ Holds(r, b, pair[1])
       /\ \A a \in Addresses : ComesRoundTo(r, a) => ~Holds(r, a, pair[2])}

(* d comes after f in the scan of the inputs.                              *)
ScannedAfter(d, f) ==
  \E i, j \in DOMAIN Inputs : i < j /\ Inputs[i] = f /\ Inputs[j] = d

(***************************************************************************)
(* A peer that sends data and, at a higher address, the flag that the data *)
(* are new, can count on their order: the flag in the channel is never     *)
(* newer than the data.  The scan takes the channels one by one between    *)
(* the accesses; the application sees the data too if the flag's channel   *)
(* comes first in the scan.                                                *)
(***************************************************************************)
FlagFollowsData ==
  \A pair \in Announced :
    LET d == pair[1]
        f == pair[2]
    IN  /\ chnl[f].by <= chnl[d].by
        /\ ScannedAfter(d, f) /\ core.at = Len(Inputs) + 1 =>
             chnl[f].taken <= chnl[d].taken

(* A register that peers can write stands for channel c.                   *)
Settable(c) ==
  \E reg \in DOMAIN RegMap : reg[1] \in {"coil", "holding"} /\ RegMap[reg].num = c

(* Word i of the answer to a read is the raw value of channel c.           *)
ShowsRaw(i, c) ==
  LET a == Start(srv.req, "read") + i - 1
  IN  /\ i \in DOMAIN srv.words /\ Holds(srv.req, a, c)
      /\ LET reg == RegMap[<<TypeOf(srv.req.fn), a>>] IN ~reg.alarm /\ ~reg.status
      /\ TypeOf(srv.req.fn) \in {"holding", "input"}

(***************************************************************************)
(* A read is not a snapshot of the channels, but an answer never shows a   *)
(* newer value of an output at a lower address than of one at a higher     *)
(* address that the scan hands over before it.  It holds for outputs that  *)
(* only the scan sets, as long as the values fit their registers.          *)
(***************************************************************************)
ReadKeepsOrder ==
  srv.pc = "reply" /\ Checked(srv.req) = "go on" /\ Plain(srv.req, "read")
      /\ core.version < DataMod =>
    \A i, j \in DOMAIN srv.words, m, n \in DOMAIN Outputs :
      i < j /\ m < n /\ ShowsRaw(i, Outputs[n]) /\ ShowsRaw(j, Outputs[m])
          /\ ~Settable(Outputs[m]) /\ ~Settable(Outputs[n]) =>
        srv.words[i] <= srv.words[j]

(***************************************************************************)
(* Every request for this unit on a connection whose peer keeps to the     *)
(* format is answered, unless the connection ends.                         *)
(***************************************************************************)
RequestsAnswered ==
  \A l \in TcpLinks \ MayDrop : \A f \in 1 .. Len(Menu[l]) :
    (f \in DOMAIN sent[l] /\ InStep(l, f) /\ sent[l][f].uid = "mine")
      ~> (l \notin open \/ Answered(l, f))
=============================================================================
