-------------------------- MODULE ModbusSlaveProofs --------------------------
(***************************************************************************)
(* Proofs about the Modbus slaves, for any number of connections and       *)
(* lines, any requests, register map and sizes.                            *)
(***************************************************************************)
EXTENDS ModbusSlave, SequenceTheorems, TLAPS

Sizes ==
  /\ HeadSize \in Nat /\ HeadSize > 0 /\ MaxFrame \in Nat /\ MaxFrame > HeadSize
  /\ RxMax \in 1 .. MaxFrame - 1
  /\ AddrSpace \in Nat /\ AddrSpace > 0 /\ LowByte \in Nat /\ LowByte > 0
  /\ DataMod \in Nat /\ DataMod > 0 /\ MaxVersion \in Nat

LEMMA SizesHold == Sizes
  BY SlaveAssumption DEF Sizes

LEMMA Modulo ==
  ASSUME NEW a \in Int, NEW m \in Nat, m > 0
  PROVE  a % m \in 0 .. m - 1
  BY SMTT(30)

LEMMA RequestTypes ==
  ASSUME NEW r \in Requests, NEW phase
  PROVE  /\ Quantity(r) \in Nat /\ NRegs(r, phase) \in Nat
         /\ Start(r, phase) \in Addresses /\ End(r, phase) \in Addresses
         /\ r.body \in Nat /\ r.body > 0 /\ Size(r) \in Nat /\ Size(r) > HeadSize
         /\ r.length \in Nat
  <1>1. /\ r.read \in Ranges /\ r.write \in Ranges
        /\ r.body \in Nat \ {0} /\ r.length \in Nat
    BY DEF Requests
  <1>2. r.read.n \in Nat /\ r.write.n \in Nat
        /\ r.read.start \in Addresses /\ r.write.start \in Addresses
    BY <1>1 DEF Ranges
  <1>3. r.read.n % LowByte \in Nat
    BY <1>2, SizesHold, Modulo DEF Sizes
  <1>4. Quantity(r) \in Nat
    BY <1>2, <1>3 DEF Quantity
  <1>5. NRegs(r, phase) \in Nat /\ Start(r, phase) \in Addresses
    BY <1>2, <1>4 DEF NRegs, Start
  <1>6. Start(r, phase) + NRegs(r, phase) - 1 \in Int
    BY <1>5 DEF Addresses
  <1>7. End(r, phase) \in Addresses
    BY <1>6, SizesHold, Modulo DEF End, Addresses, Sizes
  <1>8. Size(r) \in Nat /\ Size(r) > HeadSize
    BY <1>1, SizesHold DEF Size, Sizes
  <1> QED BY <1>1, <1>4, <1>5, <1>7, <1>8

LEMMA CheckedKinds ==
  ASSUME NEW r \in Requests
  PROVE  Checked(r) \in Kinds \cup {"go on"}
  <1>1. r.fits \in {"yes", "no", "short"}
    BY DEF Requests, Fits
  <1> QED BY <1>1 DEF Checked, Kinds

LEMMA HandleTypes ==
  ASSUME NEW l \in Links, NEW r \in Requests, NEW id \in Nat,
         serial \in Nat, Handle(l, r, id)
  PROVE  srv' \in HandlingRecord /\ serial' \in Nat
  <1> DEFINE phase == FirstPhase(r)
  <1>1. phase \in {"read", "write"}
    BY DEF FirstPhase
  <1>2. Start(r, phase) \in Addresses /\ End(r, phase) \in Addresses
    BY RequestTypes
  <1>3. Checked(r) \in Kinds \cup {"go on"} /\ "normal" \in Kinds
    BY CheckedKinds DEF Kinds
  <1>4. 0 \in 0 .. DataMod - 1
    BY SizesHold DEF Sizes
  <1> HIDE DEF phase
  <1>5. <<>> \in Seq(Words) /\ {} \in SUBSET Addresses /\ 1 \in Nat \ {0}
    OBVIOUS
  <1>6. srv' \in HandlingRecord
    BY <1>1, <1>2, <1>3, <1>4, <1>5 DEF Handle, HandlingRecord, phase
  <1>7. serial' = serial + 1 \/ serial' = serial
    BY Zenon DEF Handle
  <1>8. serial' \in Nat
    BY <1>7
  <1> QED BY <1>6, <1>8

LEMMA MovesOnTypes ==
  ASSUME NEW s \in HandlingRecord
  PROVE  /\ MovesOn(s) \in HandlingRecord
         /\ MovesOn(s).cur = (s.cur + 1) % AddrSpace
         /\ MovesOn(s).pc = s.pc /\ MovesOn(s).link = s.link
         /\ MovesOn(s).req = s.req /\ MovesOn(s).id = s.id
         /\ MovesOn(s).kind = s.kind /\ MovesOn(s).phase = s.phase
         /\ MovesOn(s).end = s.end /\ MovesOn(s).wrote = s.wrote
         /\ Written(s) \in HandlingRecord
         /\ Written(s) = [MovesOn(s) EXCEPT !.wrote = s.wrote \cup {s.cur}]
  <1>1. (s.cur + 1) % AddrSpace \in Addresses
    BY SizesHold, Modulo DEF Sizes, HandlingRecord, Addresses
  <1>2. s.ndx + 1 \in Nat \ {0} /\ 0 \in 0 .. DataMod - 1
    BY SizesHold DEF Sizes, HandlingRecord
  <1>3. MovesOn(s) \in HandlingRecord
    BY <1>1, <1>2 DEF MovesOn, HandlingRecord
  <1>4. s.wrote \cup {s.cur} \in SUBSET Addresses
    BY DEF HandlingRecord
  <1>5. MovesOn(s).wrote = s.wrote
    BY DEF MovesOn, HandlingRecord
  <1>6. Written(s) = [MovesOn(s) EXCEPT !.wrote = s.wrote \cup {s.cur}]
    BY <1>5 DEF Written
  <1>7. Written(s) \in HandlingRecord
    BY <1>3, <1>4, <1>6 DEF HandlingRecord
  <1> QED BY <1>3, <1>6, <1>7 DEF MovesOn, HandlingRecord

LEMMA WordReadTypes ==
  ASSUME NEW s \in HandlingRecord, NEW w \in Words
  PROVE  /\ WordRead(s, w) \in HandlingRecord
         /\ WordRead(s, w).pc = s.pc /\ WordRead(s, w).link = s.link
         /\ WordRead(s, w).req = s.req /\ WordRead(s, w).id = s.id
         /\ WordRead(s, w).kind = s.kind /\ WordRead(s, w).phase = s.phase
         /\ WordRead(s, w).end = s.end /\ WordRead(s, w).wrote = s.wrote
         /\ WordRead(s, w).cur = s.cur
  <1>1. 1 \in Words
    BY SizesHold DEF Sizes, Words
  <1> DEFINE bit == TypeOf(s.req.fn) \in {"coil", "discrete"}
             v == IF bit /\ w # 0 THEN 1 ELSE w
  <1>2. v \in Words
    BY <1>1
  <1> HIDE DEF v
  <1>3. Append(s.words, v) \in Seq(Words)
    BY <1>2, AppendProperties DEF HandlingRecord
  <1> QED BY <1>3 DEF WordRead, HandlingRecord, v
-----------------------------------------------------------------------------
(* Types.                                                                  *)

(* A header that is not complete fits the buffer, and a frame begun was    *)
(* sent.                                                                   *)
ReaderOk(l) ==
  /\ reader[l].state = "header" =>
       reader[l].remaining \in 1 .. HeadSize
       /\ reader[l].ndx = HeadSize - reader[l].remaining
  /\ reader[l].from \in 0 .. Len(sent[l])

TypeInv == TypeOK /\ \A l \in Links : ReaderOk(l)

(* What is read of a link with units left.                                 *)
LEMMA ReadableTypes ==
  ASSUME TypeInv, NEW l \in Links, pos[l].frame <= Len(sent[l]), NEW k \in Nat
  PROVE  /\ sent[l][pos[l].frame] \in Requests
         /\ Advance(l, k) \in [frame : Nat \ {0}, off : Nat]
         /\ \A ndx : From(l, ndx) \in 0 .. Len(sent[l])
         /\ \A length \in Lengths(l) : length \in Nat
  <1>1. /\ pos[l].frame \in Nat \ {0} /\ pos[l].off \in Nat
        /\ Len(sent[l]) \in Nat /\ sent[l] \in Seq(Requests)
        /\ pos[l] \in [frame : Nat \ {0}, off : Nat]
    BY DEF TypeInv, TypeOK
  <1>2. sent[l][pos[l].frame] \in Requests
    BY <1>1, ElementOfSeq
  <1>3. pos[l].frame + 1 \in Nat \ {0} /\ pos[l].off + k \in Nat /\ 0 \in Nat
    BY <1>1
  <1>4. Advance(l, k) \in [frame : Nat \ {0}, off : Nat]
    BY <1>1, <1>3 DEF Advance
  <1>5. ASSUME NEW ndx PROVE From(l, ndx) \in 0 .. Len(sent[l])
    BY <1>1 DEF From, TypeInv, ReaderOk
  <1>6. ASSUME NEW length \in Lengths(l) PROVE length \in Nat
    <2>1. sent[l][pos[l].frame].length \in Nat
      BY <1>2, RequestTypes
    <2>2. length = sent[l][pos[l].frame].length \/ length \in 0 .. MaxFrame
      BY <1>6 DEF Lengths
    <2> QED BY <2>1, <2>2, SizesHold DEF Sizes
  <1> QED BY <1>2, <1>4, <1>5, <1>6

LEMMA MenuTypes ==
  ASSUME NEW l \in Links
  PROVE  Menued(l) \subseteq Requests
  <1>1. Menu[l] \in Seq(SUBSET Requests)
    BY SlaveAssumption
  <1>2. \A i \in DOMAIN Menu[l] : Menu[l][i] \in SUBSET Requests
    BY <1>1
  <1> QED BY <1>2 DEF Menued

LEMMA MisfitTypes ==
  ASSUME NEW r \in Requests, NEW b \in Fits
  PROVE  [r EXCEPT !.fits = b] \in Requests
  BY DEF Requests

LEMMA ContentsTypes ==
  ASSUME TypeInv, NEW l \in Links
  PROVE  Contents(l) \subseteq Requests
  <1>1. reader[l].from \in 0 .. Len(sent[l]) /\ sent[l] \in Seq(Requests)
        /\ Len(sent[l]) \in Nat
    BY DEF TypeInv, TypeOK, ReaderOk
  <1>2. reader[l].from # 0 => sent[l][reader[l].from] \in Requests
    BY <1>1, ElementOfSeq
  <1> QED BY <1>2, MenuTypes, MisfitTypes DEF Contents

(* The thread's own steps over the registers.                              *)
LEMMA ServeTypes ==
  ASSUME TypeOK, Unmapped \/ ReadRegister \/ WriteRegister \/ RangeOver
  PROVE  srv' \in HandlingRecord /\ chnl' \in [Channels -> ChannelRecord]
         /\ serial' = serial /\ linkVars' = linkVars /\ core' = core
  <1>1. srv \in HandlingRecord
    BY DEF TypeOK, Idle, Unmapped, ReadRegister, WriteRegister, RangeOver, InRange
  <1>2. chnl \in [Channels -> ChannelRecord] /\ serial \in Nat
    BY DEF TypeOK
  <1>3. CASE Unmapped
    BY <1>1, <1>2, <1>3 DEF Unmapped, HandlingRecord, Kinds
  <1>4. CASE RangeOver
    <2>1. srv.req \in Requests
      BY <1>1 DEF HandlingRecord
    <2>2. Start(srv.req, "read") \in Addresses /\ End(srv.req, "read") \in Addresses
          /\ 1 \in Nat \ {0}
      BY <2>1, RequestTypes
    <2>3. srv' = [srv EXCEPT !.pc = "reply"]
          \/ srv' = [srv EXCEPT !.phase = "read", !.cur = Start(srv.req, "read"),
                                !.end = End(srv.req, "read"), !.ndx = 1]
      BY <1>4 DEF RangeOver
    <2>4. srv' \in HandlingRecord
      BY <1>1, <2>2, <2>3 DEF HandlingRecord
    <2> QED BY <1>2, <1>4, <2>4 DEF RangeOver
  <1>5. CASE ReadRegister
    <2> DEFINE reg == RegMap[Here]
    <2>1. DataBits(reg) \in 0 .. DataMod - 1
      <3>1. CASE reg.data /\ reg.num \in Channels
        <4>1. chnl[reg.num].raw_value_queued \in Nat
          BY <1>2, <3>1 DEF ChannelRecord
        <4>2. chnl[reg.num].raw_value_queued % DataMod \in 0 .. DataMod - 1
          BY <4>1, SizesHold, Modulo DEF Sizes
        <4> QED BY <3>1, <4>2 DEF DataBits
      <3>2. CASE ~(reg.data /\ reg.num \in Channels)
        BY <3>2, SizesHold DEF DataBits, Sizes
      <3> QED BY <3>1, <3>2
    <2>2. StatusBits(reg) \in {0, DataMod}
      BY DEF StatusBits
    <2>3. srv.half \in 0 .. DataMod - 1
      BY <1>1 DEF HandlingRecord
    <2> HIDE DEF reg
    <2>4. 0 .. DataMod - 1 \subseteq Words
      BY SizesHold DEF Sizes, Words
    <2>5. srv.half + StatusBits(reg) \in Words
      BY <2>2, <2>3, SizesHold DEF Sizes, Words
    <2>6. \A w \in Words : MovesOn(WordRead(srv, w)) \in HandlingRecord
      BY <1>1, WordReadTypes, MovesOnTypes
    <2>7. (\E w \in Words : srv' = MovesOn(WordRead(srv, w)))
          \/ srv' = [srv EXCEPT !.part = "status", !.half = DataBits(reg)]
      BY <1>5, <2>1, <2>4, <2>5 DEF ReadRegister, reg
    <2>8. srv' \in HandlingRecord
      BY <1>1, <2>1, <2>6, <2>7 DEF HandlingRecord
    <2> QED BY <1>2, <1>5, <2>8 DEF ReadRegister
  <1>6. CASE WriteRegister
    <2> DEFINE reg == RegMap[Here]
    <2>1. PICK v \in Value(srv.req) :
            \/ /\ chnl' = (IF reg.data /\ reg.num \in Channels
                           THEN Queued(reg.num, v % DataMod) ELSE chnl)
               /\ srv' = IF reg.status THEN [srv EXCEPT !.part = "status"]
                         ELSE Written(srv)
            \/ /\ chnl' = (IF reg.num \in Channels
                           THEN [chnl EXCEPT ![reg.num].sensor_fault = v \div DataMod = 1]
                           ELSE chnl)
               /\ srv' = Written(srv)
      BY <1>6 DEF WriteRegister
    <2>2. v \in Int
      <3>1. srv.req.values \in Seq(Words) /\ srv.ndx \in Nat \ {0}
        BY <1>1 DEF HandlingRecord, Requests
      <3>2. srv.ndx <= Len(srv.req.values) => srv.req.values[srv.ndx] \in Words
        BY <3>1, ElementOfSeq
      <3>3. \A w \in Words : w \in Int /\ w % 2 \in Int
        BY SizesHold DEF Words, Sizes
      <3> QED BY <3>1, <3>2, <3>3 DEF Value
    <2>3. v % DataMod \in Nat
      BY <2>2, SizesHold, Modulo DEF Sizes
    <2> HIDE DEF reg
    <2>4. srv' \in HandlingRecord
      <3>1. [srv EXCEPT !.part = "status"] \in HandlingRecord
        BY <1>1 DEF HandlingRecord
      <3> QED BY <1>1, <2>1, <3>1, MovesOnTypes
    <2>5. chnl' \in [Channels -> ChannelRecord]
      <3>1. ASSUME reg.num \in Channels
            PROVE  Queued(reg.num, v % DataMod) \in [Channels -> ChannelRecord]
        BY <1>2, <2>3, <3>1 DEF Queued, ChannelRecord
      <3>2. ASSUME reg.num \in Channels
            PROVE  [chnl EXCEPT ![reg.num].sensor_fault = v \div DataMod = 1]
                     \in [Channels -> ChannelRecord]
        BY <1>2, <3>2 DEF ChannelRecord
      <3> QED BY <1>2, <2>1, <3>1, <3>2
    <2> QED BY <1>6, <2>4, <2>5 DEF WriteRegister
  <1> QED BY <1>3, <1>4, <1>5, <1>6

LEMMA SendTypes ==
  ASSUME TypeInv, NEW l \in Links, NEW r \in Menued(l), Send(l, r)
  PROVE  TypeInv'
  <1>1. r \in Requests /\ sent \in [Links -> Seq(Requests)]
    BY MenuTypes DEF TypeInv, TypeOK
  <1>2. Append(sent[l], r) \in Seq(Requests)
        /\ Len(Append(sent[l], r)) = Len(sent[l]) + 1 /\ Len(sent[l]) \in Nat
    BY <1>1, AppendProperties
  <1>3. sent' \in [Links -> Seq(Requests)]
    BY <1>1, <1>2 DEF Send
  <1>4. TypeOK'
    BY <1>3 DEF TypeInv, TypeOK, Send
  <1>5. ASSUME NEW m \in Links PROVE ReaderOk(m)'
    <2>1. Len(sent'[m]) \in Nat /\ Len(sent[m]) \in Nat /\ Len(sent'[m]) >= Len(sent[m])
      BY <1>1, <1>2 DEF Send
    <2> QED BY <2>1 DEF TypeInv, ReaderOk, Send
  <1> QED BY <1>4, <1>5 DEF TypeInv

(* A new state of one reader, and of the position.                         *)
LEMMA ReaderTypes ==
  ASSUME TypeInv, NEW l \in Links, NEW rd, NEW p,
         rd \in [state : {"header", "pdu", "t35"}, remaining : Int,
                 ndx : 0 .. MaxFrame, from : 0 .. Len(sent[l])],
         rd.state = "header" => /\ rd.remaining \in 1 .. HeadSize
                                /\ rd.ndx = HeadSize - rd.remaining,
         p \in [frame : Nat \ {0}, off : Nat],
         reader' = [reader EXCEPT ![l] = rd], pos' = [pos EXCEPT ![l] = p],
         sent' = sent, open' = open, answers' = answers, chnl' = chnl, core' = core,
         srv' = Idle \/ srv' \in HandlingRecord, serial' \in Nat
  PROVE  TypeInv'
  <1>1. Len(sent[l]) \in Nat
    BY DEF TypeInv, TypeOK
  <1>2. 0 .. Len(sent[l]) \subseteq Nat
    BY <1>1
  <1>3. rd \in [state : {"header", "pdu", "t35"}, remaining : Int,
                ndx : 0 .. MaxFrame, from : Nat]
    BY <1>2
  <1>4. reader' \in [Links -> [state : {"header", "pdu", "t35"}, remaining : Int,
                               ndx : 0 .. MaxFrame, from : Nat]]
    BY <1>3 DEF TypeInv, TypeOK
  <1>5. pos' \in [Links -> [frame : Nat \ {0}, off : Nat]]
    BY DEF TypeInv, TypeOK
  <1>6. TypeOK'
    BY <1>4, <1>5 DEF TypeInv, TypeOK
  <1>7. ASSUME NEW m \in Links PROVE ReaderOk(m)'
    <2>1. CASE m = l
      <3>1. reader'[m] = rd /\ sent'[m] = sent[l]
        BY <2>1 DEF TypeInv, TypeOK
      <3> QED BY <3>1 DEF ReaderOk
    <2>2. CASE m # l
      <3>1. reader'[m] = reader[m] /\ sent'[m] = sent[m]
        BY <2>2 DEF TypeInv, TypeOK
      <3> QED BY <3>1 DEF ReaderOk, TypeInv
    <2> QED BY <2>1, <2>2
  <1> QED BY <1>6, <1>7 DEF TypeInv

LEMMA FreshTypes ==
  /\ \A n \in Nat : FreshReader \in [state : {"header", "pdu", "t35"}, remaining : Int,
                                     ndx : 0 .. MaxFrame, from : 0 .. n]
  /\ FreshReader.state = "header" /\ FreshReader.remaining \in 1 .. HeadSize
  /\ FreshReader.ndx = HeadSize - FreshReader.remaining
  BY SizesHold DEF FreshReader, Sizes

LEMMA FeedHeaderTypes ==
  ASSUME TypeInv, NEW l \in Links, FeedHeader(l)
  PROVE  TypeInv'
  <1> DEFINE rd == reader[l]
             from == From(l, rd.ndx)
  <1>1. /\ pos[l].frame <= Len(sent[l]) /\ rd.state = "header"
        /\ rd.remaining \in 1 .. HeadSize /\ rd.ndx = HeadSize - rd.remaining
        /\ rd \in [state : {"header", "pdu", "t35"}, remaining : Int,
                   ndx : 0 .. MaxFrame, from : Nat]
    BY DEF FeedHeader, Readable, TypeInv, TypeOK, ReaderOk
  <1>2. /\ Advance(l, 1) \in [frame : Nat \ {0}, off : Nat]
        /\ from \in 0 .. Len(sent[l])
        /\ \A length \in Lengths(l) : length \in Nat
    BY <1>1, ReadableTypes
  <1>3. rd.ndx + 1 \in 0 .. MaxFrame /\ rd.remaining - 1 \in Int
        /\ rd.ndx + 1 = HeadSize - (rd.remaining - 1)
    BY <1>1, SizesHold DEF Sizes
  <1>4. /\ pos' = [pos EXCEPT ![l] = Advance(l, 1)]
        /\ sent' = sent /\ open' = open /\ answers' = answers /\ chnl' = chnl
        /\ core' = core /\ (srv' = Idle \/ srv' \in HandlingRecord) /\ serial' \in Nat
    BY DEF FeedHeader, TypeInv, TypeOK
  <1>5. ASSUME rd.remaining > 1,
               reader' = [reader EXCEPT ![l] =
                 [rd EXCEPT !.remaining = @ - 1, !.ndx = @ + 1, !.from = from]]
        PROVE  TypeInv'
    <2> DEFINE new == [rd EXCEPT !.remaining = @ - 1, !.ndx = @ + 1, !.from = from]
    <2>1. reader' = [reader EXCEPT ![l] = new]
      BY <1>5
    <2> HIDE DEF from
    <2>2. /\ new \in [state : {"header", "pdu", "t35"}, remaining : Int,
                      ndx : 0 .. MaxFrame, from : 0 .. Len(sent[l])]
          /\ new.remaining = rd.remaining - 1 /\ new.ndx = rd.ndx + 1
      BY <1>1, <1>2, <1>3
    <2>3. new.remaining \in 1 .. HeadSize /\ new.ndx = HeadSize - new.remaining
      <3>1. rd.remaining > 1
        BY <1>5
      <3> HIDE DEF new, rd
      <3> QED BY <1>1, <1>3, <2>2, <3>1, SizesHold DEF Sizes
    <2> HIDE DEF new, rd
    <2> QED BY <1>2, <1>4, <2>1, <2>2, <2>3, ReaderTypes
  <1>6. ASSUME NEW length \in Lengths(l),
               reader' = [reader EXCEPT ![l] =
                 [state |-> "pdu", remaining |-> PduUnits(length),
                  ndx |-> rd.ndx + 1, from |-> from]]
        PROVE  TypeInv'
    <2> DEFINE new == [state |-> "pdu", remaining |-> PduUnits(length),
                       ndx |-> rd.ndx + 1, from |-> from]
    <2>1. PduUnits(length) \in Int
      BY <1>2 DEF PduUnits
    <2> HIDE DEF from
    <2>2. /\ new \in [state : {"header", "pdu", "t35"}, remaining : Int,
                      ndx : 0 .. MaxFrame, from : 0 .. Len(sent[l])]
          /\ new.state = "pdu"
      BY <1>2, <1>3, <2>1
    <2>3. reader' = [reader EXCEPT ![l] = new]
      BY <1>6
    <2> HIDE DEF new, rd
    <2> QED BY <1>2, <1>4, <2>2, <2>3, ReaderTypes
  <1>7. \/ /\ rd.remaining > 1
           /\ reader' = [reader EXCEPT ![l] =
                [rd EXCEPT !.remaining = @ - 1, !.ndx = @ + 1, !.from = from]]
        \/ \E length \in Lengths(l) :
             reader' = [reader EXCEPT ![l] =
               [state |-> "pdu", remaining |-> PduUnits(length),
                ndx |-> rd.ndx + 1, from |-> from]]
    BY DEF FeedHeader
  <1> QED BY <1>5, <1>6, <1>7

LEMMA FeedPduTypes ==
  ASSUME TypeInv, NEW l \in Links, FeedPdu(l)
  PROVE  TypeInv'
  <1> DEFINE rd == reader[l]
             Reader == [state : {"header", "pdu", "t35"}, remaining : Int,
                        ndx : 0 .. MaxFrame, from : 0 .. Len(sent[l])]
             more == [rd EXCEPT !.remaining = @ - 1, !.ndx = @ + 1]
  <1>1. /\ pos[l].frame <= Len(sent[l]) /\ rd.state = "pdu"
        /\ rd \in [state : {"header", "pdu", "t35"}, remaining : Int,
                   ndx : 0 .. MaxFrame, from : Nat]
        /\ rd.from \in 0 .. Len(sent[l]) /\ Len(sent[l]) \in Nat
    BY DEF FeedPdu, Readable, TypeInv, TypeOK, ReaderOk
  <1>2. Advance(l, 1) \in [frame : Nat \ {0}, off : Nat]
    BY <1>1, ReadableTypes
  <1>3. /\ pos' = [pos EXCEPT ![l] = Advance(l, 1)]
        /\ sent' = sent /\ open' = open /\ answers' = answers /\ chnl' = chnl
        /\ core' = core /\ serial \in Nat /\ (srv = Idle \/ srv \in HandlingRecord)
    BY DEF FeedPdu, TypeInv, TypeOK
  <1>4. srv' = srv \/ srv' = Idle \/ srv' \in HandlingRecord
    BY <1>1, <1>3, ContentsTypes, HandleTypes DEF FeedPdu, PassOver
  <1>5. serial' \in Nat
    BY <1>1, <1>3, ContentsTypes, HandleTypes DEF FeedPdu, PassOver
  <1>6. \/ reader' = [reader EXCEPT ![l] = FreshReader]
        \/ rd.ndx < MaxFrame /\ reader' = [reader EXCEPT ![l] = more]
    BY DEF FeedPdu
  <1>7. CASE reader' = [reader EXCEPT ![l] = FreshReader]
    <2>1. FreshReader \in Reader
      BY <1>1, FreshTypes
    <2> HIDE DEF rd, more
    <2> QED BY <1>2, <1>3, <1>4, <1>5, <1>7, <2>1, FreshTypes, ReaderTypes
  <1>8. CASE rd.ndx < MaxFrame /\ reader' = [reader EXCEPT ![l] = more]
    <2>1. rd.ndx < MaxFrame
      BY <1>8
    <2>2. rd.ndx + 1 \in 0 .. MaxFrame /\ rd.remaining - 1 \in Int
      BY <1>1, <2>1, SizesHold DEF Sizes
    <2>3. more \in Reader /\ more.state = "pdu"
      BY <1>1, <2>2
    <2>4. reader' = [reader EXCEPT ![l] = more]
      BY <1>8
    <2> HIDE DEF rd, more
    <2> QED BY <1>2, <1>3, <1>4, <1>5, <2>3, <2>4, ReaderTypes
  <1> QED BY <1>6, <1>7, <1>8

LEMMA RxRtuTypes ==
  ASSUME TypeInv, NEW l \in Links, NEW k \in 1 .. RxMax, RxRtu(l, k)
  PROVE  TypeInv'
  <1> DEFINE rd == reader[l]
             ndx == IF rd.ndx + k >= MaxFrame THEN 0 ELSE rd.ndx
             from == From(l, ndx)
             new == [rd EXCEPT !.state = "t35", !.ndx = ndx + k, !.from = from]
  <1>1. /\ pos[l].frame <= Len(sent[l]) /\ k \in Nat
        /\ rd \in [state : {"header", "pdu", "t35"}, remaining : Int,
                   ndx : 0 .. MaxFrame, from : Nat]
    BY SizesHold DEF RxRtu, Readable, TypeInv, TypeOK, Sizes
  <1>2. Advance(l, k) \in [frame : Nat \ {0}, off : Nat] /\ from \in 0 .. Len(sent[l])
    BY <1>1, ReadableTypes
  <1>3. ndx + k \in 0 .. MaxFrame
    BY <1>1, SizesHold DEF Sizes
  <1>4. /\ pos' = [pos EXCEPT ![l] = Advance(l, k)]
        /\ reader' = [reader EXCEPT ![l] = new]
        /\ sent' = sent /\ open' = open /\ answers' = answers /\ chnl' = chnl
        /\ core' = core /\ (srv' = Idle \/ srv' \in HandlingRecord) /\ serial' \in Nat
    BY DEF RxRtu, TypeInv, TypeOK
  <1> HIDE DEF ndx, from
  <1>5. /\ new \in [state : {"header", "pdu", "t35"}, remaining : Int,
                    ndx : 0 .. MaxFrame, from : 0 .. Len(sent[l])]
        /\ new.state = "t35"
    BY <1>1, <1>2, <1>3
  <1> HIDE DEF new, rd
  <1> QED BY <1>2, <1>4, <1>5, ReaderTypes

LEMMA SilenceTypes ==
  ASSUME TypeInv, NEW l \in Links, Silence(l)
  PROVE  TypeInv'
  <1>1. /\ reader[l].from \in 0 .. Len(sent[l]) /\ sent[l] \in Seq(Requests)
        /\ Len(sent[l]) \in Nat /\ serial \in Nat
        /\ pos[l] \in [frame : Nat \ {0}, off : Nat]
    BY DEF TypeInv, TypeOK, ReaderOk
  <1>2. reader[l].from # 0 => sent[l][reader[l].from] \in Requests /\ reader[l].from \in Nat
    BY <1>1, ElementOfSeq
  <1>3. (srv' = Idle \/ srv' \in HandlingRecord) /\ serial' \in Nat
    BY <1>1, <1>2, HandleTypes DEF Silence, PassOver, CrcOk
  <1>4. pos' = [pos EXCEPT ![l] = pos[l]]
    BY DEF Silence, TypeInv, TypeOK
  <1>5. /\ reader' = [reader EXCEPT ![l] = FreshReader]
        /\ sent' = sent /\ open' = open /\ answers' = answers /\ chnl' = chnl
        /\ core' = core
    BY DEF Silence
  <1> QED BY <1>1, <1>3, <1>4, <1>5, FreshTypes, ReaderTypes

LEMMA ReplyTypes ==
  ASSUME TypeInv, Reply
  PROVE  TypeInv'
  <1>1. srv \in HandlingRecord
    BY DEF TypeInv, TypeOK, Reply, Idle
  <1>2. srv.link \in Links /\ [id |-> srv.id, kind |-> srv.kind] \in [id : Nat, kind : Kinds]
    BY <1>1 DEF HandlingRecord
  <1>3. answers' \in [Links -> Seq([id : Nat, kind : Kinds])]
    <2> DEFINE l == srv.link
               answer == [id |-> srv.id, kind |-> srv.kind]
    <2>1. answers \in [Links -> Seq([id : Nat, kind : Kinds])]
      BY DEF TypeInv, TypeOK
    <2>2. Append(answers[l], answer) \in Seq([id : Nat, kind : Kinds])
      BY <1>2, <2>1, AppendProperties
    <2>3. answers' = answers \/ answers' = [answers EXCEPT ![l] = Append(@, answer)]
      BY DEF Reply
    <2> HIDE DEF l, answer
    <2> QED BY <2>1, <2>2, <2>3
  <1>4. TypeOK'
    BY <1>3 DEF Reply, TypeInv, TypeOK
  <1> QED BY <1>4 DEF Reply, TypeInv, ReaderOk

LEMMA ScanTypes ==
  ASSUME TypeInv, Scan
  PROVE  TypeInv'
  <1>1. /\ Inputs \in Seq(Channels) /\ Outputs \in Seq(Channels)
        /\ Len(Inputs) \in Nat /\ Len(Outputs) \in Nat
        /\ core \in [at : 1 .. Len(Inputs) + 1 + Len(Outputs), version : 0 .. MaxVersion]
        /\ chnl \in [Channels -> ChannelRecord]
    BY SlaveAssumption DEF TypeInv, TypeOK
  <1>2. NextTurn \in 1 .. Len(Inputs) + 1 + Len(Outputs)
    BY <1>1 DEF NextTurn
  <1>3. CASE ScanInput
    <2>1. Inputs[core.at] \in Channels /\ Scanned = Inputs[core.at]
      BY <1>1, <1>3, ElementOfSeq DEF ScanInput, Scanned
    <2> DEFINE c == Scanned
               new == [chnl[c] EXCEPT !.raw_value_avail = FALSE,
                                      !.taken = IF chnl[c].raw_value_avail
                                                THEN chnl[c].by ELSE @]
    <2>4. c \in Channels /\ chnl[c] \in ChannelRecord
      BY <1>1, <2>1
    <2>5. chnl' = [chnl EXCEPT ![c] = new]
      BY <1>1, <1>3, <2>4 DEF ScanInput, ChannelRecord
    <2> HIDE DEF c
    <2>6. new \in ChannelRecord
      BY <2>4 DEF ChannelRecord
    <2> HIDE DEF new
    <2>2. chnl' \in [Channels -> ChannelRecord]
      BY <1>1, <2>4, <2>5, <2>6
    <2>3. core' \in [at : 1 .. Len(Inputs) + 1 + Len(Outputs), version : 0 .. MaxVersion]
      BY <1>1, <1>2, <1>3 DEF ScanInput
    <2> QED BY <1>3, <2>2, <2>3 DEF ScanInput, linkVars, TypeInv, TypeOK, ReaderOk
  <1>4. CASE AppRun
    <2>1. core' \in [at : 1 .. Len(Inputs) + 1 + Len(Outputs), version : 0 .. MaxVersion]
      BY <1>1, <1>2, <1>4, SizesHold DEF AppRun, Sizes
    <2> QED BY <1>4, <2>1 DEF AppRun, linkVars, TypeInv, TypeOK, ReaderOk
  <1>5. CASE ScanOutput
    <2>1. Outputs[core.at - Len(Inputs) - 1] \in Channels
          /\ Scanned = Outputs[core.at - Len(Inputs) - 1]
      BY <1>1, <1>5, ElementOfSeq DEF ScanOutput, Scanned
    <2>2. core.version \in Nat
      BY <1>1, SizesHold DEF Sizes
    <2>3. chnl' \in [Channels -> ChannelRecord]
      BY <1>1, <1>5, <2>1, <2>2 DEF ScanOutput, ChannelRecord
    <2>4. core' \in [at : 1 .. Len(Inputs) + 1 + Len(Outputs), version : 0 .. MaxVersion]
      BY <1>1, <1>2, <1>5 DEF ScanOutput
    <2> QED BY <1>5, <2>3, <2>4 DEF ScanOutput, linkVars, TypeInv, TypeOK, ReaderOk
  <1> QED BY <1>3, <1>4, <1>5 DEF Scan

LEMMA TypeStep ==
  ASSUME TypeInv, [Next]_vars
  PROVE  TypeInv'
  <1>1. ASSUME NEW l \in Links, NEW r \in Menued(l), Send(l, r) PROVE TypeInv'
    BY <1>1, SendTypes
  <1>2. ASSUME NEW l \in Links, Close(l) PROVE TypeInv'
    BY <1>2 DEF Close, TypeInv, TypeOK, ReaderOk
  <1>3. ASSUME NEW l \in Links, Receive(l) \/ Silence(l) PROVE TypeInv'
    BY <1>3, FeedHeaderTypes, FeedPduTypes, RxRtuTypes, SilenceTypes DEF Receive
  <1>4. CASE Unmapped \/ ReadRegister \/ WriteRegister \/ RangeOver
    <2>1. TypeOK
      BY DEF TypeInv
    <2>2. /\ srv' \in HandlingRecord /\ chnl' \in [Channels -> ChannelRecord]
          /\ serial' = serial /\ linkVars' = linkVars /\ core' = core
      BY <1>4, <2>1, ServeTypes
    <2> QED BY <2>2 DEF linkVars, TypeInv, TypeOK, ReaderOk
  <1>5. CASE UNCHANGED vars
    BY <1>5 DEF vars, TypeInv, TypeOK, ReaderOk
  <1> QED BY <1>1, <1>2, <1>3, <1>4, <1>5, ReplyTypes, ScanTypes DEF Next, Serve

LEMMA TypeInit ==
  ASSUME Init
  PROVE  TypeInv
  <1>1. \A n \in Nat : FreshReader \in [state : {"header", "pdu", "t35"},
                                        remaining : Int, ndx : 0 .. MaxFrame, from : 0 .. n]
    BY FreshTypes
  <1>2. FreshReader \in [state : {"header", "pdu", "t35"}, remaining : Int,
                         ndx : 0 .. MaxFrame, from : Nat]
    BY <1>1
  <1>3. Len(Inputs) \in Nat /\ Len(Outputs) \in Nat /\ 0 \in 0 .. MaxVersion
    BY SlaveAssumption, SizesHold DEF Sizes
  <1>4. TypeOK
    BY <1>2, <1>3 DEF Init, TypeOK, ChannelRecord
  <1>5. ASSUME NEW l \in Links PROVE ReaderOk(l)
    BY <1>3, FreshTypes DEF Init, ReaderOk, FreshReader
  <1> QED BY <1>4, <1>5 DEF TypeInv

(***************************************************************************)
(* Links, reader and thread keep their types: in particular nothing is     *)
(* stored beyond the end of a reader's buffer, whatever lengths the frames *)
(* announce, and the register address stays within 16 bits.                *)
(***************************************************************************)
THEOREM SlaveTyping == Spec => []TypeOK
  <1>1. Init => TypeInv
    BY TypeInit
  <1>2. TypeInv /\ [Next]_vars => TypeInv'
    BY TypeStep
  <1>3. TypeInv => TypeOK
    BY DEF TypeInv
  <1> QED BY <1>1, <1>2, <1>3, PTL DEF Spec
-----------------------------------------------------------------------------
(* What a write sets.                                                      *)

Reached(r) ==
  {a \in RangeOf(r, "write") : \A b \in RangeOf(r, "write") : b <= a => Mapped(r, b)}

(* A write of a range that ends before the last address, as far as it is.  *)
PrefixInv ==
  srv # Idle /\ srv.req.fn \in Writes /\ Checked(srv.req) = "go on"
      /\ Plain(srv.req, "write") =>
    LET r == srv.req
        start == Start(r, "write")
        n == NRegs(r, "write")
    IN  /\ srv.pc = "regs" => srv.kind = "normal"
        /\ srv.pc = "regs" /\ srv.phase = "write" =>
             /\ srv.end = start + n - 1 /\ srv.cur \in start .. start + n
             /\ srv.wrote = start .. srv.cur - 1
             /\ \A a \in srv.wrote : Mapped(r, a)
        /\ srv.pc = "regs" /\ srv.phase = "read" =>
             /\ r.fn \in Reads /\ srv.wrote = RangeOf(r, "write")
             /\ \A a \in srv.wrote : Mapped(r, a)
        /\ srv.pc = "reply" =>
             /\ srv.wrote = Reached(r)
             /\ srv.kind = "normal" => Reached(r) = RangeOf(r, "write")
             /\ r.fn \notin Reads /\ srv.kind = "failure" =>
                  Reached(r) # RangeOf(r, "write")

LEMMA SmallModulo ==
  ASSUME NEW m \in Nat, NEW x \in 0 .. m - 1
  PROVE  x % m = x
  BY SMTT(30)

(* A loop from start over n addresses, at cur, below the last of m.        *)
LEMMA LoopBegin ==
  ASSUME NEW start \in Nat, NEW n \in Nat, NEW m \in Nat, start + n < m
  PROVE  /\ n >= 1 => start + n - 1 \in 0 .. m - 1
         /\ start \in start .. start + n /\ start .. start - 1 = {}
  OBVIOUS

LEMMA LoopCount ==
  ASSUME NEW start \in Nat, NEW n \in Nat, NEW len \in Nat, NEW cur, cur = start + len,
         cur <= start + n - 1, NEW m \in Nat, start + n < m
  PROVE  cur + 1 \in 0 .. m - 1 /\ cur + 1 = start + (len + 1)
  OBVIOUS

LEMMA LoopIn ==
  ASSUME NEW start \in Nat, NEW n \in Nat, NEW cur \in start .. start + n,
         cur <= start + n - 1
  PROVE  cur \in start .. start + n - 1 /\ cur \notin start .. cur - 1
  OBVIOUS

LEMMA LoopNext ==
  ASSUME NEW start \in Nat, NEW n \in Nat, NEW cur \in start .. start + n,
         cur <= start + n - 1
  PROVE  /\ cur + 1 \in start .. start + n
         /\ start .. (cur + 1) - 1 = (start .. cur - 1) \cup {cur}
  OBVIOUS

LEMMA LoopBelow ==
  ASSUME NEW start \in Nat, NEW n \in Nat, NEW cur \in start .. start + n,
         cur <= start + n - 1, NEW m \in Nat, start + n < m
  PROVE  cur + 1 \in 0 .. m - 1
  OBVIOUS

LEMMA LoopBefore ==
  ASSUME NEW start \in Nat, NEW n \in Nat, NEW cur \in start .. start + n,
         cur <= start + n - 1, NEW a \in start .. cur - 1
  PROVE  /\ a \in start .. start + n - 1
         /\ \A b \in start .. start + n - 1 : b <= a => b \in start .. cur - 1
  OBVIOUS

LEMMA LoopAfter ==
  ASSUME NEW start \in Nat, NEW n \in Nat, NEW cur \in start .. start + n,
         cur <= start + n - 1, NEW a \in start .. start + n - 1
  PROVE  a \in start .. cur - 1 \/ cur <= a
  OBVIOUS

LEMMA LoopEnd ==
  ASSUME NEW start \in Nat, NEW n \in Nat, NEW cur \in start .. start + n,
         cur > start + n - 1
  PROVE  start .. cur - 1 = start .. start + n - 1
  <1>1. cur = start + n
    OBVIOUS
  <1> QED BY <1>1

LEMMA AddressesAreNat == Addresses \subseteq Nat /\ 1 >= 1
  BY SizesHold DEF Addresses, Sizes

LEMMA PlainTypes ==
  ASSUME NEW r \in Requests, r.fn \in Writes, Checked(r) = "go on", Plain(r, "write")
  PROVE  /\ NRegs(r, "write") \in Nat /\ NRegs(r, "write") >= 1
         /\ Start(r, "write") \in Nat
         /\ Start(r, "write") + NRegs(r, "write") < AddrSpace
         /\ End(r, "write") = Start(r, "write") + NRegs(r, "write") - 1
         /\ FirstPhase(r) = "write"
  <1>1. Start(r, "write") \in Nat /\ NRegs(r, "write") \in Nat
    <2>1. Start(r, "write") \in Addresses /\ NRegs(r, "write") \in Nat
      BY RequestTypes, Zenon
    <2> QED BY <2>1, AddressesAreNat, Zenon
  <1>2. QuantityOk(r)
    <2>1. r.fn # "unknown"
      BY DEF Writes, Singles, Multiples
    <2>2. r.fits # "short"
      BY <2>1 DEF Checked
    <2> QED BY <2>1, <2>2 DEF Checked
  <1>3. NRegs(r, "write") >= 1
    <2>1. r.fn \notin Singles => r.fn \in Multiples \cup {"read_write"}
      BY DEF Writes
    <2>2. r.fn \notin Singles => r.write.n >= 1
      BY <1>2, <2>1 DEF QuantityOk
    <2>3. NRegs(r, "write") = IF r.fn \in Singles THEN 1 ELSE r.write.n
      BY DEF NRegs
    <2>4. r.fn \in Singles => NRegs(r, "write") = 1
      BY <2>3
    <2>5. r.fn \notin Singles => NRegs(r, "write") = r.write.n
      BY <2>3
    <2> QED BY <2>2, <2>4, <2>5, AddressesAreNat, Zenon
  <1>4. Start(r, "write") + NRegs(r, "write") < AddrSpace
    BY DEF Plain
  <1> DEFINE start == Start(r, "write")
             n == NRegs(r, "write")
  <1>5. start \in Nat /\ n \in Nat /\ n >= 1 /\ start + n < AddrSpace
        /\ AddrSpace \in Nat
    BY <1>1, <1>3, <1>4, SizesHold DEF Sizes
  <1>6. start + n - 1 \in 0 .. AddrSpace - 1
    BY <1>5, LoopBegin, Zenon
  <1>7. End(r, "write") = start + n - 1
    BY <1>5, <1>6, SmallModulo DEF End
  <1> QED BY <1>1, <1>3, <1>4, <1>7 DEF FirstPhase

LEMMA PrefixBegins ==
  ASSUME NEW l \in Links, NEW r \in Requests, NEW id \in Nat, Handle(l, r, id)
  PROVE  PrefixInv'
  <1> SUFFICES ASSUME r.fn \in Writes, Checked(r) = "go on", Plain(r, "write")
               PROVE  PrefixInv'
    BY DEF Handle, PrefixInv, Plain
  <1> DEFINE start == Start(r, "write")
             n == NRegs(r, "write")
  <1>1. /\ n \in Nat /\ n >= 1 /\ start \in Nat /\ End(r, "write") = start + n - 1
        /\ FirstPhase(r) = "write"
    BY PlainTypes
  <1>2. /\ srv'.pc = "regs" /\ srv'.phase = "write" /\ srv'.kind = "normal"
        /\ srv'.req = r /\ srv'.cur = start /\ srv'.end = End(r, "write")
        /\ srv'.wrote = {}
    BY <1>1 DEF Handle
  <1> HIDE DEF start, n
  <1>3. start \in Nat /\ n \in Nat /\ start + n < AddrSpace /\ AddrSpace \in Nat
    BY <1>1, SizesHold, PlainTypes DEF Sizes, start, n
  <1>4. start \in start .. start + n /\ start .. start - 1 = {}
    BY <1>3, LoopBegin, Zenon
  <1> QED BY <1>1, <1>2, <1>4 DEF PrefixInv, start, n

LEMMA PrefixServe ==
  ASSUME TypeOK, PrefixInv, Unmapped \/ ReadRegister \/ WriteRegister \/ RangeOver
  PROVE  PrefixInv'
  <1> DEFINE r == srv.req
             start == Start(r, "write")
             n == NRegs(r, "write")
             range == RangeOf(r, "write")
  <1>1. srv \in HandlingRecord /\ srv.pc = "regs" /\ srv # Idle
    BY DEF TypeOK, Idle, Unmapped, ReadRegister, WriteRegister, RangeOver, InRange,
           HandlingRecord
  <1>2. r \in Requests /\ srv.phase \in {"read", "write"} /\ srv.cur \in Nat
        /\ srv.end \in Nat /\ srv.half \in 0 .. DataMod - 1
    BY <1>1, SizesHold DEF HandlingRecord, Addresses, Sizes
  <1>3. srv'.req = r
    <2>1. CASE Unmapped \/ RangeOver
      BY <1>1, <2>1 DEF Unmapped, RangeOver, HandlingRecord
    <2>2. CASE WriteRegister
      <3>1. srv' = [srv EXCEPT !.part = "status"] \/ srv' = Written(srv)
        BY <2>2 DEF WriteRegister
      <3>2. Written(srv).req = r
        BY <1>1, MovesOnTypes DEF HandlingRecord
      <3> QED BY <1>1, <3>1, <3>2 DEF HandlingRecord
    <2>3. CASE ReadRegister
      BY <1>1, <2>3 DEF ReadRegister, MovesOn, WordRead, HandlingRecord
    <2> QED BY <2>1, <2>2, <2>3
  <1> SUFFICES ASSUME r.fn \in Writes, Checked(r) = "go on", Plain(r, "write")
               PROVE  PrefixInv'
    BY <1>3 DEF PrefixInv
  <1>4. /\ n \in Nat /\ n >= 1 /\ start \in Nat /\ start + n < AddrSpace
    BY <1>2, PlainTypes
  <1>5. /\ srv.kind = "normal"
        /\ srv.phase = "write" =>
             /\ srv.end = start + n - 1 /\ srv.cur \in start .. start + n
             /\ srv.wrote = start .. srv.cur - 1
             /\ \A a \in srv.wrote : Mapped(r, a)
        /\ srv.phase = "read" =>
             /\ r.fn \in Reads /\ srv.wrote = range
             /\ \A a \in srv.wrote : Mapped(r, a)
    BY <1>1 DEF PrefixInv
  <1>6. range = start .. start + n - 1
    BY DEF RangeOf
  <1>7. Reached(r) = {a \in range : \A b \in range : b <= a => Mapped(r, b)}
    BY DEF Reached
  <1>8. (\A a \in range : Mapped(r, a)) => Reached(r) = range
    BY <1>7
  <1> DEFINE cur == srv.cur
             end == srv.end
             wrote == srv.wrote
  <1>15. AddrSpace \in Nat
    BY SizesHold DEF Sizes
  <1>13. cur \in Nat /\ end \in Nat
    BY <1>2
  <1>14. srv.phase = "write" =>
           end = start + n - 1 /\ cur \in start .. start + n /\ wrote = start .. cur - 1
    BY <1>5
  <1>9. CASE Unmapped
    <2>1. /\ srv'.pc = "reply" /\ srv'.kind = "failure" /\ srv'.wrote = srv.wrote
          /\ ~Mapped(r, srv.cur) /\ srv.cur <= srv.end
      BY <1>1, <1>9 DEF Unmapped, HandlingRecord, Here, Mapped, InRange
    <2>2. CASE srv.phase = "read"
      <3>1. Reached(r) = range /\ srv.wrote = range /\ r.fn \in Reads
        BY <1>5, <1>8, <2>2
      <3> QED BY <1>3, <2>1, <3>1 DEF PrefixInv
    <2>3. CASE srv.phase = "write"
      <3>0. end = start + n - 1 /\ cur \in start .. start + n /\ cur <= end
            /\ wrote = start .. cur - 1 /\ \A a \in wrote : Mapped(r, a)
        BY <1>5, <2>1, <2>3
      <3>6. ~Mapped(r, cur)
        BY <2>1
      <3> HIDE DEF r, start, n, range, cur, end, wrote
      <3>1. cur <= start + n - 1
        BY <3>0
      <3>7. cur \in start .. start + n
        BY <3>0
      <3>8. wrote = start .. cur - 1
        BY <3>0
      <3>2. Reached(r) = start .. cur - 1
        <4>1. ASSUME NEW a \in start .. cur - 1 PROVE a \in Reached(r)
          <5>2. /\ a \in start .. start + n - 1
                /\ \A b \in start .. start + n - 1 : b <= a => b \in start .. cur - 1
            BY <1>4, <3>1, <3>7, <4>1, LoopBefore, Zenon
          <5>1. a \in range /\ \A b \in range : b <= a => b \in wrote
            BY <1>6, <3>8, <5>2, Zenon
          <5> QED BY <1>7, <3>0, <5>1
        <4>2. ASSUME NEW a \in Reached(r) PROVE a \in start .. cur - 1
          <5>1. cur \in range
            BY <1>4, <1>6, <3>1, <3>7, LoopIn, Zenon
          <5>2. a \in range /\ (cur <= a => Mapped(r, cur))
            BY <1>7, <4>2, <5>1
          <5>3. ~(cur <= a)
            BY <3>6, <5>2
          <5>4. a \in start .. start + n - 1
            BY <1>6, <5>2, Zenon
          <5>5. \A x \in start .. start + n - 1 : x \in start .. cur - 1 \/ cur <= x
            BY <1>4, <3>1, <3>7, LoopAfter, Zenon
          <5> QED BY <5>3, <5>4, <5>5, Zenon
        <4> QED BY <4>1, <4>2
      <3>3. cur \in range /\ cur \notin start .. cur - 1
        BY <1>4, <1>6, <3>1, <3>7, LoopIn, Zenon
      <3>4. Reached(r) # range
        BY <3>2, <3>3
      <3>5. srv'.wrote = Reached(r)
        BY <2>1, <3>0, <3>2 DEF wrote
      <3> QED BY <1>3, <2>1, <3>4, <3>5 DEF PrefixInv, r, range
    <2> QED BY <1>2, <2>2, <2>3
  <1>10. CASE RangeOver
    <2>1. srv.cur > srv.end
      BY <1>10 DEF RangeOver
    <2>2. srv.wrote = range /\ \A a \in range : Mapped(r, a)
      <3>1. CASE srv.phase = "write"
        <4>1. end = start + n - 1 /\ cur \in start .. start + n /\ cur > end
              /\ wrote = start .. cur - 1 /\ \A a \in wrote : Mapped(r, a)
          BY <1>5, <2>1, <3>1
        <4> HIDE DEF r, start, n, range, cur, end, wrote
        <4>2. cur > start + n - 1
          BY <4>1
        <4>6. cur \in start .. start + n
          BY <4>1
        <4>4. start .. cur - 1 = start .. start + n - 1
          BY <1>4, <1>15, <4>2, <4>6, LoopEnd, Zenon
        <4>5. wrote = start .. cur - 1
          BY <4>1
        <4>3. wrote = range
          BY <1>6, <4>4, <4>5, Zenon
        <4> QED BY <4>1, <4>3 DEF wrote
      <3>2. CASE srv.phase = "read"
        BY <1>5, <3>2
      <3> QED BY <1>2, <3>1, <3>2
    <2>3. Reached(r) = range
      BY <1>8, <2>2
    <2>4. \/ /\ r.fn \in Reads /\ srv'.pc = "regs" /\ srv'.phase = "read"
             /\ srv'.kind = srv.kind /\ srv'.wrote = srv.wrote
          \/ srv'.pc = "reply" /\ srv'.kind = srv.kind /\ srv'.wrote = srv.wrote
      BY <1>1, <1>10 DEF RangeOver, HandlingRecord
    <2> HIDE DEF r, range
    <2> QED BY <1>3, <1>5, <2>2, <2>3, <2>4 DEF PrefixInv, r, range
  <1>11. CASE ReadRegister
    <2>1. /\ srv'.pc = "regs" /\ srv'.phase = "read" /\ srv'.kind = srv.kind
          /\ srv'.wrote = srv.wrote /\ srv.phase = "read"
      BY <1>1, <1>11 DEF ReadRegister, MovesOn, WordRead, HandlingRecord
    <2> QED BY <1>3, <1>5, <2>1 DEF PrefixInv
  <1>12. CASE WriteRegister
    <2>1. /\ srv.phase = "write" /\ srv.cur <= srv.end /\ Mapped(r, srv.cur)
      BY <1>12 DEF WriteRegister, InRange, Here, Mapped
    <2>2. srv' = [srv EXCEPT !.part = "status"] \/ srv' = Written(srv)
      BY <1>12 DEF WriteRegister
    <2>3. CASE srv' = [srv EXCEPT !.part = "status"]
      <3>1. /\ srv'.pc = "regs" /\ srv'.phase = "write" /\ srv'.kind = srv.kind
            /\ srv'.wrote = srv.wrote /\ srv'.cur = srv.cur /\ srv'.end = srv.end
        BY <1>1, <2>1, <2>3 DEF HandlingRecord
      <3> QED BY <1>3, <1>5, <2>1, <3>1 DEF PrefixInv
    <2>4. CASE srv' = Written(srv)
      <3>1. /\ srv'.pc = "regs" /\ srv'.phase = "write" /\ srv'.kind = srv.kind
            /\ srv'.end = srv.end /\ srv'.cur = (srv.cur + 1) % AddrSpace
            /\ srv'.wrote = srv.wrote \cup {srv.cur}
        <4> DEFINE moved == MovesOn(srv)
        <4>1. /\ moved \in HandlingRecord /\ moved.cur = (srv.cur + 1) % AddrSpace
              /\ moved.pc = srv.pc /\ moved.kind = srv.kind
              /\ moved.phase = srv.phase /\ moved.end = srv.end
              /\ Written(srv) = [moved EXCEPT !.wrote = srv.wrote \cup {srv.cur}]
          BY <1>1, MovesOnTypes
        <4> HIDE DEF moved
        <4>2. srv' = [moved EXCEPT !.wrote = srv.wrote \cup {srv.cur}]
          BY <2>4, <4>1
        <4> QED BY <1>1, <2>1, <4>1, <4>2 DEF HandlingRecord
      <3>2. end = start + n - 1 /\ cur \in start .. start + n /\ cur <= end
            /\ wrote = start .. cur - 1 /\ \A a \in wrote : Mapped(r, a)
        BY <1>5, <2>1
      <3>11. Mapped(r, cur)
        BY <2>1
      <3>3. srv'.cur = (cur + 1) % AddrSpace /\ srv'.wrote = wrote \cup {cur}
            /\ srv'.end = end
        BY <3>1
      <3> HIDE DEF r, start, n, range, cur, end, wrote
      <3>10. cur <= start + n - 1
        BY <3>2
      <3>12. cur \in start .. start + n
        BY <3>2
      <3>4. AddrSpace \in Nat /\ cur + 1 \in 0 .. AddrSpace - 1
        BY <1>4, <1>15, <3>10, <3>12, LoopBelow, Zenon
      <3>5. srv'.cur = cur + 1
        BY <3>3, <3>4, SmallModulo
      <3>6. cur + 1 \in start .. start + n
            /\ (start .. cur - 1) \cup {cur} = start .. (cur + 1) - 1
        BY <1>4, <3>10, <3>12, LoopNext, Zenon
      <3>7. srv'.cur \in start .. start + n /\ srv'.wrote = start .. srv'.cur - 1
        <4>1. srv'.wrote = wrote \cup {cur}
          BY <3>3
        <4>2. wrote = start .. cur - 1
          BY <3>2
        <4>3. srv'.wrote = start .. (cur + 1) - 1
          BY <3>6, <4>1, <4>2
        <4>4. cur + 1 \in start .. start + n
          BY <3>6
        <4>5. srv'.cur \in start .. start + n
          BY <3>5, <4>4, Zenon
        <4>6. srv'.wrote = start .. srv'.cur - 1
          BY <3>5, <4>3, Zenon
        <4> QED BY <4>5, <4>6, Zenon
      <3>8. \A a \in srv'.wrote : Mapped(r, a)
        <4>1. srv'.wrote = wrote \cup {cur}
          BY <3>3
        <4>2. \A a \in wrote : Mapped(r, a)
          BY <3>2
        <4> QED BY <3>11, <4>1, <4>2, Zenon
      <3>9. srv'.end = start + n - 1
        BY <3>2, <3>3
      <3> QED BY <1>3, <1>5, <3>1, <3>7, <3>8, <3>9 DEF PrefixInv, r, start, n
    <2> QED BY <2>2, <2>3, <2>4
  <1> QED BY <1>9, <1>10, <1>11, <1>12

LEMMA PrefixStep ==
  ASSUME TypeInv, PrefixInv, [Next]_vars
  PROVE  PrefixInv'
  <1>1. CASE srv' = srv
    BY <1>1 DEF PrefixInv, Reached, Plain
  <1>2. CASE srv' = Idle
    BY <1>2 DEF PrefixInv
  <1>3. ASSUME NEW l \in Links, FeedPdu(l) PROVE PrefixInv'
    <2>1. reader[l].from \in 0 .. Len(sent[l]) /\ Len(sent[l]) \in Nat
      BY DEF TypeInv, TypeOK, ReaderOk
    <2>2. reader[l].from \in Nat
      BY <2>1
    <2>3. srv' = srv \/ srv' = Idle
          \/ \E r \in Contents(l) : Handle(l, r, reader[l].from)
      BY <1>3 DEF FeedPdu, PassOver
    <2> QED BY <1>1, <1>2, <2>2, <2>3, ContentsTypes, PrefixBegins
  <1>4. ASSUME NEW l \in Links, Silence(l) PROVE PrefixInv'
    <2>1. reader[l].from \in 0 .. Len(sent[l]) /\ sent[l] \in Seq(Requests)
          /\ Len(sent[l]) \in Nat
      BY DEF TypeInv, TypeOK, ReaderOk
    <2>2. reader[l].from # 0 =>
            sent[l][reader[l].from] \in Requests /\ reader[l].from \in Nat
      BY <2>1, ElementOfSeq
    <2>3. srv' = Idle \/ (reader[l].from # 0
                           /\ Handle(l, sent[l][reader[l].from], reader[l].from))
      BY <1>4 DEF Silence, PassOver, CrcOk
    <2> QED BY <1>2, <2>2, <2>3, PrefixBegins
  <1>5. CASE Unmapped \/ ReadRegister \/ WriteRegister \/ RangeOver
    BY <1>5, PrefixServe DEF TypeInv
  <1>6. CASE Reply
    BY <1>2, <1>6 DEF Reply
  <1>7. CASE Scan
    BY <1>1, <1>7 DEF Scan, ScanInput, AppRun, ScanOutput
  <1>8. ASSUME NEW l \in Links,
               (\E r \in Menued(l) : Send(l, r)) \/ Close(l) \/ FeedHeader(l)
               \/ \E k \in 1 .. RxMax : RxRtu(l, k)
        PROVE  PrefixInv'
    BY <1>1, <1>8 DEF Send, Close, FeedHeader, RxRtu
  <1>9. CASE UNCHANGED vars
    BY <1>1, <1>9 DEF vars
  <1> QED BY <1>3, <1>4, <1>5, <1>6, <1>7, <1>8, <1>9 DEF Next, Receive, Serve

(***************************************************************************)
(* What a write has done when it is answered: all of its registers set, or *)
(* those before the first one that is not mapped and no other, for every   *)
(* register map and every range that ends before the last address.         *)
(***************************************************************************)
THEOREM WritesSetThePrefix == Spec => []WriteSetsThePrefix
  <1>1. Init => TypeInv /\ PrefixInv
    BY TypeInit DEF Init, PrefixInv
  <1>2. TypeInv /\ PrefixInv /\ [Next]_vars => TypeInv' /\ PrefixInv'
    BY TypeStep, PrefixStep
  <1>3. TypeInv /\ PrefixInv => WriteSetsThePrefix
    <2> SUFFICES ASSUME PrefixInv, srv.pc = "reply" PROVE WriteSetsThePrefix
      BY DEF WriteSetsThePrefix
    <2>1. srv # Idle
      BY DEF Idle
    <2> QED BY <2>1 DEF PrefixInv, WriteSetsThePrefix, Reached
  <1> QED BY <1>1, <1>2, <1>3, PTL DEF Spec
-----------------------------------------------------------------------------
(* Answers.                                                                *)

(* A link is read up to a unit of a frame that was sent, or to the end.    *)
PosOk(l) ==
  /\ pos[l].frame <= Len(sent[l]) + 1
  /\ pos[l].frame <= Len(sent[l]) => pos[l].off < Size(sent[l][pos[l].frame])
  /\ pos[l].frame > Len(sent[l]) => pos[l].off = 0

Busy(l) == srv # Idle /\ srv.link = l

(* The reader of a connection is at the same unit as the link.             *)
TcpStep(l) ==
  /\ reader[l].state \in {"header", "pdu"}
  /\ reader[l].state = "header" =>
       /\ pos[l].off = reader[l].ndx
       /\ reader[l].ndx # 0 => reader[l].from = pos[l].frame
  /\ reader[l].state = "pdu" =>
       /\ pos[l].frame <= Len(sent[l]) /\ reader[l].from = pos[l].frame
       /\ pos[l].off = reader[l].ndx
       /\ reader[l].remaining = Size(sent[l][pos[l].frame]) - reader[l].ndx

(* What a line's buffer begins with was not answered before.               *)
RtuStep(l) ==
  /\ reader[l].from <= pos[l].frame
  /\ reader[l].from # 0 =>
       ~Busy(l) /\ \A j \in DOMAIN answers[l] : answers[l][j].id < reader[l].from

HandStep(l) ==
  Busy(l) =>
    /\ srv.id \in 1 .. pos[l].frame - 1 /\ srv.req = sent[l][srv.id]
    /\ \A j \in DOMAIN answers[l] : answers[l][j].id < srv.id

AnswerStep(l) ==
  /\ \A j, k \in DOMAIN answers[l] : j < k => answers[l][j].id < answers[l][k].id
  /\ \A j \in DOMAIN answers[l] :
       /\ answers[l][j].id \in 1 .. pos[l].frame - 1
       /\ Replies(sent[l][answers[l][j].id])
  /\ l \in TcpLinks \ MayDrop =>
       \A f \in 1 .. pos[l].frame - 1 :
         Replies(sent[l][f]) => Answered(l, f) \/ InHand(l, f)

LinkInv(l) ==
  InStep(l, Len(sent[l])) =>
    /\ l \in TcpLinks => TcpStep(l)
    /\ l \in RtuLinks => RtuStep(l)
    /\ HandStep(l) /\ AnswerStep(l)

OrderInv == \A l \in Links : PosOk(l) /\ LinkInv(l)

LEMMA LinkTypes ==
  ASSUME TypeInv, NEW l \in Links
  PROVE  /\ sent[l] \in Seq(Requests) /\ Len(sent[l]) \in Nat
         /\ DOMAIN sent[l] = 1 .. Len(sent[l])
         /\ \A i \in 1 .. Len(sent[l]) : sent[l][i] \in Requests
         /\ pos[l].frame \in Nat /\ pos[l].frame >= 1 /\ pos[l].off \in Nat
         /\ reader[l].ndx \in Nat /\ reader[l].from \in Nat
         /\ reader[l].remaining \in Int
         /\ answers[l] \in Seq([id : Nat, kind : Kinds]) /\ Len(answers[l]) \in Nat
         /\ DOMAIN answers[l] = 1 .. Len(answers[l])
         /\ \A j \in DOMAIN answers[l] : answers[l][j].id \in Nat
  <1>1. sent[l] \in Seq(Requests) /\ answers[l] \in Seq([id : Nat, kind : Kinds])
    BY DEF TypeInv, TypeOK
  <1>2. /\ Len(sent[l]) \in Nat /\ DOMAIN sent[l] = 1 .. Len(sent[l])
        /\ \A i \in 1 .. Len(sent[l]) : sent[l][i] \in Requests
    BY <1>1, ElementOfSeq
  <1>3. /\ Len(answers[l]) \in Nat /\ DOMAIN answers[l] = 1 .. Len(answers[l])
        /\ \A j \in DOMAIN answers[l] : answers[l][j].id \in Nat
    <2> DEFINE S == [id : Nat, kind : Kinds]
    <2>1. \A e \in S : e.id \in Nat
      OBVIOUS
    <2>2. answers[l] \in Seq(S)
      BY <1>1
    <2> HIDE DEF S
    <2>3. /\ Len(answers[l]) \in Nat /\ DOMAIN answers[l] = 1 .. Len(answers[l])
          /\ \A j \in DOMAIN answers[l] : answers[l][j] \in S
      BY <2>2, ElementOfSeq
    <2> QED BY <2>1, <2>3
  <1>4. pos[l].frame \in Nat /\ pos[l].frame >= 1 /\ pos[l].off \in Nat
    BY DEF TypeInv, TypeOK
  <1>5. /\ reader[l].ndx \in Nat /\ reader[l].from \in Nat
        /\ reader[l].remaining \in Int
    BY SizesHold DEF TypeInv, TypeOK, Sizes
  <1> QED BY <1>1, <1>2, <1>3, <1>4, <1>5

(* A link on which nothing happens.                                        *)
LEMMA OtherLink ==
  ASSUME NEW m \in Links, LinkInv(m), PosOk(m),
         sent'[m] = sent[m], pos'[m] = pos[m], reader'[m] = reader[m],
         answers'[m] = answers[m],
         Busy(m)' <=> Busy(m), Busy(m) => srv'.id = srv.id /\ srv'.req = srv.req
  PROVE  LinkInv(m)' /\ PosOk(m)'
  <1>1. PosOk(m)'
    BY DEF PosOk
  <1>2. InStep(m, Len(sent[m]))' <=> InStep(m, Len(sent[m]))
    BY DEF InStep
  <1>3. (TcpStep(m) => TcpStep(m)') /\ (RtuStep(m) => RtuStep(m)')
    BY DEF TcpStep, RtuStep
  <1>4. HandStep(m) => HandStep(m)'
    BY DEF HandStep
  <1>6. ASSUME AnswerStep(m) PROVE AnswerStep(m)'
    <2>1. ASSUME m \in TcpLinks \ MayDrop, NEW f \in (1 .. pos[m].frame - 1)',
                 Replies(sent[m][f])'
          PROVE  Answered(m, f)' \/ InHand(m, f)'
      <3>1. f \in 1 .. pos[m].frame - 1 /\ Replies(sent[m][f])
        BY <2>1 DEF Replies
      <3>2. Answered(m, f) \/ InHand(m, f)
        BY <1>6, <2>1, <3>1 DEF AnswerStep
      <3>3. (Answered(m, f)' <=> Answered(m, f)) /\ (InHand(m, f)' <=> InHand(m, f))
        BY DEF Answered, InHand, Busy
      <3> QED BY <3>2, <3>3
    <2>2. (/\ \A j, k \in DOMAIN answers[m] : j < k => answers[m][j].id < answers[m][k].id
           /\ \A j \in DOMAIN answers[m] :
                /\ answers[m][j].id \in 1 .. pos[m].frame - 1
                /\ Replies(sent[m][answers[m][j].id]))'
      BY <1>6 DEF AnswerStep
    <2> QED BY <2>1, <2>2 DEF AnswerStep
  <1>7. ASSUME InStep(m, Len(sent[m]))'
        PROVE  (m \in TcpLinks => TcpStep(m)') /\ (m \in RtuLinks => RtuStep(m)')
               /\ HandStep(m)' /\ AnswerStep(m)'
    BY <1>2, <1>3, <1>4, <1>6, <1>7 DEF LinkInv
  <1> QED BY <1>1, <1>7 DEF LinkInv

(* The position k units further.                                           *)
LEMMA AdvanceOk ==
  ASSUME TypeInv, NEW l \in Links, PosOk(l), pos[l].frame <= Len(sent[l]),
         NEW k \in Nat, k >= 1, k <= Size(sent[l][pos[l].frame]) - pos[l].off,
         pos' = [pos EXCEPT ![l] = Advance(l, k)], sent' = sent
  PROVE  /\ PosOk(l)'
         /\ pos[l].off + k < Size(sent[l][pos[l].frame]) =>
              pos'[l].frame = pos[l].frame /\ pos'[l].off = pos[l].off + k
         /\ pos[l].off + k = Size(sent[l][pos[l].frame]) =>
              pos'[l].frame = pos[l].frame + 1 /\ pos'[l].off = 0
  <1> DEFINE frame == pos[l].frame
             off == pos[l].off
             size == Size(sent[l][frame])
  <1>1. /\ frame \in Nat /\ frame >= 1 /\ off \in Nat /\ Len(sent[l]) \in Nat
        /\ \A i \in 1 .. Len(sent[l]) : sent[l][i] \in Requests
    BY LinkTypes
  <1>2. \A i \in 1 .. Len(sent[l]) : Size(sent[l][i]) \in Nat /\ Size(sent[l][i]) > 0
    <2>1. \A i \in 1 .. Len(sent[l]) :
            Size(sent[l][i]) \in Nat /\ Size(sent[l][i]) > HeadSize
      BY <1>1, RequestTypes
    <2> QED BY <2>1, SizesHold DEF Sizes
  <1>3. frame \in 1 .. Len(sent[l])
    BY <1>1
  <1>4. size \in Nat
    BY <1>2, <1>3
  <1>5. /\ off + k < size => pos'[l] = [frame |-> frame, off |-> off + k]
        /\ off + k = size => pos'[l] = [frame |-> frame + 1, off |-> 0]
    BY <1>1, <1>4 DEF Advance, TypeInv, TypeOK
  <1>6. k <= size - off
    OBVIOUS
  <1>7. off + k < size \/ off + k = size
    <2> HIDE DEF frame, off, size
    <2> QED BY <1>1, <1>4, <1>6
  <1>8. CASE off + k < size
    <2>1. pos'[l].frame = frame /\ pos'[l].off = off + k /\ off + k # size
      BY <1>1, <1>4, <1>5, <1>8
    <2>2. PosOk(l)'
      BY <1>1, <1>8, <2>1 DEF PosOk
    <2> QED BY <1>8, <2>1, <2>2
  <1>9. CASE off + k = size
    <2>1. pos'[l].frame = frame + 1 /\ pos'[l].off = 0
      BY <1>5, <1>9
    <2>2. \A i \in 1 .. Len(sent'[l]) : 0 < Size(sent'[l][i])
      BY <1>2
    <2>3. frame + 1 <= Len(sent'[l]) + 1
          /\ (frame + 1 <= Len(sent'[l]) => frame + 1 \in 1 .. Len(sent'[l]))
      BY <1>1
    <2>4. PosOk(l)'
      BY <2>1, <2>2, <2>3 DEF PosOk
    <2>5. ~(off + k < size)
      BY <1>1, <1>4, <1>9
    <2> QED BY <1>9, <2>1, <2>4, <2>5
  <1> QED BY <1>7, <1>8, <1>9

(* Answers, when frames are read and none is answered.                     *)
LEMMA AnswersKept ==
  ASSUME TypeInv, NEW l \in Links, AnswerStep(l), srv = Idle,
         answers' = answers, sent' = sent,
         pos'[l].frame \in Nat, pos'[l].frame >= pos[l].frame,
         l \in TcpLinks \ MayDrop =>
           \A f \in pos[l].frame .. pos'[l].frame - 1 :
             Replies(sent[l][f]) => InHand(l, f)'
  PROVE  AnswerStep(l)'
  <1>1. /\ pos[l].frame \in Nat /\ \A j \in DOMAIN answers[l] : answers[l][j].id \in Nat
    BY LinkTypes
  <1>2. ASSUME l \in TcpLinks \ MayDrop, NEW f \in (1 .. pos[l].frame - 1)',
               Replies(sent[l][f])'
        PROVE  Answered(l, f)' \/ InHand(l, f)'
    <2>1. Replies(sent[l][f])
      BY <1>2 DEF Replies
    <2>2. CASE f <= pos[l].frame - 1
      <3>1. f \in 1 .. pos[l].frame - 1
        BY <1>1, <1>2, <2>2
      <3>2. Answered(l, f) \/ InHand(l, f)
        BY <1>2, <2>1, <3>1 DEF AnswerStep
      <3> QED BY <3>2 DEF InHand, Answered
    <2>3. CASE ~(f <= pos[l].frame - 1)
      <3>1. f \in pos[l].frame .. pos'[l].frame - 1
        BY <1>1, <1>2, <2>3
      <3> QED BY <1>2, <2>1, <3>1
    <2> QED BY <2>2, <2>3
  <1>3. \A j \in DOMAIN answers'[l] :
          answers'[l][j].id \in 1 .. pos'[l].frame - 1 /\ Replies(sent'[l][answers'[l][j].id])
    <2>1. 1 .. pos[l].frame - 1 \subseteq 1 .. pos'[l].frame - 1
      BY <1>1
    <2> QED BY <2>1 DEF AnswerStep, Replies
  <1>4. \A j, k \in DOMAIN answers'[l] : j < k => answers'[l][j].id < answers'[l][k].id
    BY DEF AnswerStep
  <1> QED BY <1>2, <1>3, <1>4 DEF AnswerStep

LEMMA SendOrder ==
  ASSUME TypeInv, OrderInv, NEW l \in Links, NEW r \in Menued(l), Send(l, r)
  PROVE  OrderInv'
  <1>1. ASSUME NEW m \in Links, m # l PROVE PosOk(m)' /\ LinkInv(m)'
    <2>1. /\ sent'[m] = sent[m] /\ pos' = pos /\ reader' = reader
          /\ answers' = answers /\ srv' = srv
      BY <1>1 DEF Send, TypeInv, TypeOK
    <2> QED BY <2>1, OtherLink DEF OrderInv, Busy
  <1> DEFINE n == Len(sent[l])
  <1>2. /\ n \in Nat /\ sent[l] \in Seq(Requests) /\ DOMAIN sent[l] = 1 .. n
        /\ pos[l].frame \in Nat /\ pos[l].frame >= 1
        /\ \A j \in DOMAIN answers[l] : answers[l][j].id \in Nat
    BY LinkTypes
  <1>3. r \in Requests
    BY MenuTypes
  <1>4. sent'[l] = Append(sent[l], r)
    BY DEF Send, TypeInv, TypeOK
  <1>5. /\ Len(sent'[l]) = n + 1 /\ \A i \in 1 .. n : sent'[l][i] = sent[l][i]
        /\ sent'[l][n + 1] = r /\ DOMAIN sent'[l] = 1 .. n + 1
    BY <1>2, <1>3, <1>4, AppendProperties
  <1>6. /\ pos' = pos /\ reader' = reader /\ answers' = answers /\ srv' = srv
    BY DEF Send
  <1>7. pos[l].frame <= n => pos[l].frame \in 1 .. n
    BY <1>2
  <1>8. PosOk(l)'
    <2>1. Size(r) > 0 /\ Size(r) \in Nat
      <3>1. Size(r) \in Nat /\ Size(r) > HeadSize
        BY <1>3, RequestTypes
      <3> QED BY <3>1, SizesHold DEF Sizes
    <2>2. PosOk(l)
      BY DEF OrderInv
    <2>3. CASE pos[l].frame <= n
      <3>1. sent'[l][pos[l].frame] = sent[l][pos[l].frame]
        BY <1>5, <1>7, <2>3
      <3>2. pos[l].frame <= n + 1 /\ pos[l].frame <= n + 1 + 1
        BY <1>2, <2>3
      <3> QED BY <1>2, <1>5, <1>6, <2>2, <2>3, <3>1, <3>2 DEF PosOk
    <2>4. CASE ~(pos[l].frame <= n)
      <3>1. pos[l].frame = n + 1 /\ pos[l].off = 0
        BY <1>2, <2>2, <2>4 DEF PosOk
      <3> QED BY <1>2, <1>5, <1>6, <2>1, <3>1 DEF PosOk
    <2> QED BY <2>3, <2>4
  <1>9. ASSUME InStep(l, Len(sent[l]))' PROVE InStep(l, n)
    <2>1. \A i \in 1 .. n : i \in 1 .. n + 1
      BY <1>2
    <2> QED BY <1>2, <1>5, <1>9, <2>1 DEF InStep, WellFormed
  <1>10. ASSUME InStep(l, Len(sent[l]))'
         PROVE  /\ l \in TcpLinks => TcpStep(l)'
                /\ l \in RtuLinks => RtuStep(l)'
                /\ HandStep(l)' /\ AnswerStep(l)'
    <2>1. /\ l \in TcpLinks => TcpStep(l)
          /\ l \in RtuLinks => RtuStep(l)
          /\ HandStep(l) /\ AnswerStep(l) /\ PosOk(l)
      BY <1>9, <1>10 DEF OrderInv, LinkInv
    <2>2. 1 .. pos[l].frame - 1 \subseteq 1 .. n
      BY <1>2, <2>1 DEF PosOk
    <2>3. ASSUME l \in TcpLinks PROVE TcpStep(l)'
      <3>1. reader[l].state = "pdu" =>
              /\ sent'[l][pos[l].frame] = sent[l][pos[l].frame]
              /\ pos[l].frame <= n + 1
        BY <1>2, <1>5, <1>7, <2>1, <2>3 DEF TcpStep
      <3> QED BY <1>5, <1>6, <2>1, <2>3, <3>1 DEF TcpStep
    <2>4. RtuStep(l)' <=> RtuStep(l)
      BY <1>6 DEF RtuStep, Busy
    <2>5. HandStep(l)'
      BY <1>5, <1>6, <2>1, <2>2 DEF HandStep, Busy
    <2>6. AnswerStep(l)'
      <3>1. ASSUME l \in TcpLinks \ MayDrop, NEW f \in (1 .. pos[l].frame - 1)',
                   Replies(sent[l][f])'
            PROVE  Answered(l, f)' \/ InHand(l, f)'
        <4>1. f \in 1 .. pos[l].frame - 1 /\ Replies(sent[l][f])
          BY <1>5, <1>6, <2>2, <3>1 DEF Replies
        <4>2. Answered(l, f) \/ InHand(l, f)
          BY <2>1, <3>1, <4>1 DEF AnswerStep
        <4> QED BY <1>6, <4>2 DEF Answered, InHand
      <3>2. \A j \in DOMAIN answers'[l] :
              /\ answers'[l][j].id \in 1 .. pos'[l].frame - 1
              /\ Replies(sent'[l][answers'[l][j].id])
        BY <1>5, <1>6, <2>1, <2>2 DEF AnswerStep, Replies
      <3>3. \A j, k \in DOMAIN answers'[l] : j < k => answers'[l][j].id < answers'[l][k].id
        BY <1>6, <2>1 DEF AnswerStep
      <3> QED BY <3>1, <3>2, <3>3 DEF AnswerStep
    <2> QED BY <2>1, <2>3, <2>4, <2>5, <2>6
  <1>11. LinkInv(l)'
    BY <1>10 DEF LinkInv
  <1> QED BY <1>1, <1>8, <1>11 DEF OrderInv

LEMMA AnswersSame ==
  ASSUME TypeInv, NEW l \in Links, AnswerStep(l), srv = Idle,
         answers' = answers, sent' = sent, pos'[l].frame = pos[l].frame
  PROVE  AnswerStep(l)'
  <1>1. pos[l].frame \in Nat
    BY LinkTypes
  <1>2. pos'[l].frame \in Nat /\ pos'[l].frame >= pos[l].frame
        /\ pos[l].frame .. pos'[l].frame - 1 = {}
    BY <1>1
  <1> QED BY <1>2, AnswersKept

(* A step of one link, taken by the thread when it is idle.                *)
LEMMA OwnLink ==
  ASSUME TypeInv, OrderInv, NEW l \in Links, srv = Idle,
         sent' = sent, answers' = answers,
         NEW p, pos' = [pos EXCEPT ![l] = p], NEW rd, reader' = [reader EXCEPT ![l] = rd],
         srv' = Idle \/ srv'.link = l, PosOk(l)', LinkInv(l)'
  PROVE  OrderInv'
  <1>1. ASSUME NEW m \in Links, m # l PROVE PosOk(m)' /\ LinkInv(m)'
    <2>1. /\ sent' = sent /\ pos'[m] = pos[m] /\ reader'[m] = reader[m]
          /\ answers' = answers /\ ~Busy(m) /\ ~Busy(m)'
      BY <1>1 DEF TypeInv, TypeOK, Busy
    <2> QED BY <2>1, OtherLink DEF OrderInv
  <1> QED BY <1>1 DEF OrderInv

(* What holds of a link with a unit left, read by the idle thread.         *)
LEMMA NextUnit ==
  ASSUME TypeInv, OrderInv, NEW l \in Links, Readable(l)
  PROVE  /\ srv = Idle /\ pos[l].frame \in 1 .. Len(sent[l]) /\ pos[l].frame \in Nat
         /\ pos[l].off \in Nat /\ reader[l].ndx \in Nat
         /\ sent[l][pos[l].frame] \in Requests
         /\ Size(sent[l][pos[l].frame]) \in Nat
         /\ Size(sent[l][pos[l].frame]) > HeadSize
         /\ pos[l].off < Size(sent[l][pos[l].frame])
         /\ reader[l] \in [state : {"header", "pdu", "t35"}, remaining : Int,
                            ndx : 0 .. MaxFrame, from : Nat]
         /\ DOMAIN reader = Links
  <1>1. srv = Idle /\ pos[l].frame <= Len(sent[l])
    BY DEF Readable, TypeInv, TypeOK, HandlingRecord
  <1>2. /\ pos[l].frame \in 1 .. Len(sent[l]) /\ pos[l].frame \in Nat
        /\ pos[l].off \in Nat /\ reader[l].ndx \in Nat
        /\ sent[l][pos[l].frame] \in Requests
    BY <1>1, LinkTypes
  <1>3. /\ Size(sent[l][pos[l].frame]) \in Nat
        /\ Size(sent[l][pos[l].frame]) > HeadSize
    BY <1>2, RequestTypes
  <1>4. pos[l].off < Size(sent[l][pos[l].frame])
    BY <1>1 DEF OrderInv, PosOk
  <1> QED BY <1>1, <1>2, <1>3, <1>4 DEF TypeInv, TypeOK

LEMMA OneUnit ==
  ASSUME TypeInv, OrderInv, NEW l \in Links, Readable(l),
         pos' = [pos EXCEPT ![l] = Advance(l, 1)], sent' = sent
  PROVE  /\ PosOk(l)'
         /\ pos[l].off + 1 < Size(sent[l][pos[l].frame]) =>
              pos'[l].frame = pos[l].frame /\ pos'[l].off = pos[l].off + 1
         /\ pos[l].off + 1 = Size(sent[l][pos[l].frame]) =>
              pos'[l].frame = pos[l].frame + 1 /\ pos'[l].off = 0
  <1> DEFINE off == pos[l].off
             size == Size(sent[l][pos[l].frame])
  <1>1. off \in Nat /\ size \in Nat /\ off < size
    BY NextUnit
  <1>2. 1 <= size - off /\ 1 \in Nat /\ 1 >= 1
    <2> HIDE DEF off, size
    <2> QED BY <1>1
  <1>3. pos[l].frame <= Len(sent[l]) /\ PosOk(l)
    BY DEF Readable, OrderInv
  <1> QED BY <1>2, <1>3, AdvanceOk

LEMMA FeedHeaderOrder ==
  ASSUME TypeInv, OrderInv, NEW l \in Links, FeedHeader(l)
  PROVE  OrderInv'
  <1> DEFINE rd == reader[l]
             frame == pos[l].frame
             off == pos[l].off
             size == Size(sent[l][frame])
             from == From(l, rd.ndx)
  <1>1. /\ l \in TcpLinks /\ l \notin RtuLinks /\ Readable(l)
        /\ rd.state = "header" /\ rd.remaining \in 1 .. HeadSize
        /\ rd.ndx = HeadSize - rd.remaining
        /\ pos' = [pos EXCEPT ![l] = Advance(l, 1)] /\ sent' = sent
        /\ answers' = answers /\ srv' = srv
    BY SlaveAssumption DEF FeedHeader, TypeInv, ReaderOk
  <1>2. /\ srv = Idle /\ frame \in 1 .. Len(sent[l]) /\ frame \in Nat /\ off \in Nat
        /\ rd.ndx \in Nat /\ sent[l][frame] \in Requests
        /\ size \in Nat /\ size > HeadSize /\ off < size
        /\ DOMAIN reader = Links
    BY <1>1, NextUnit
  <1>3. /\ PosOk(l)'
        /\ off + 1 < size => pos'[l].frame = frame /\ pos'[l].off = off + 1
    BY <1>1, OneUnit
  <1>4. PICK new : reader' = [reader EXCEPT ![l] = new]
    BY DEF FeedHeader
  <1>5. ASSUME InStep(l, Len(sent[l]))
        PROVE  TcpStep(l)' /\ HandStep(l)' /\ AnswerStep(l)'
    <2>1. TcpStep(l) /\ HandStep(l) /\ AnswerStep(l)
      BY <1>1, <1>5 DEF OrderInv, LinkInv
    <2>2. off = rd.ndx /\ (rd.ndx # 0 => rd.from = frame)
      BY <1>1, <2>1 DEF TcpStep
    <2>3. from = frame
      BY <2>2 DEF From
    <2>4. off + 1 < size
      <3> DEFINE left == rd.remaining
      <3>1. off = HeadSize - left /\ left >= 1 /\ left \in Int /\ HeadSize \in Nat
        BY <1>1, <2>2, SizesHold DEF Sizes
      <3> HIDE DEF off, size, left
      <3> QED BY <1>2, <3>1
    <2>5. pos'[l].frame = frame /\ pos'[l].off = off + 1
      BY <1>3, <2>4
    <2>6. AnswerStep(l)'
      BY <1>1, <1>2, <2>1, <2>5, AnswersSame
    <2>7. HandStep(l)'
      BY <1>1, <1>2 DEF HandStep, Busy
    <2>8. CASE /\ rd.remaining > 1
               /\ reader' = [reader EXCEPT ![l] =
                    [reader[l] EXCEPT !.remaining = @ - 1, !.ndx = @ + 1, !.from = from]]
      <3>1. /\ reader'[l].state = "header" /\ reader'[l].ndx = rd.ndx + 1
            /\ reader'[l].from = from
        BY <1>1, <1>2, <2>8, NextUnit
      <3>2. TcpStep(l)'
        BY <2>2, <2>3, <2>5, <3>1 DEF TcpStep
      <3> QED BY <2>6, <2>7, <3>2
    <2>9. ASSUME rd.remaining = 1, NEW length \in Lengths(l),
                 reader' = [reader EXCEPT ![l] =
                   [state |-> "pdu", remaining |-> PduUnits(length),
                    ndx |-> rd.ndx + 1, from |-> from]]
          PROVE  TcpStep(l)'
      <3>1. /\ reader'[l].state = "pdu" /\ reader'[l].ndx = rd.ndx + 1
            /\ reader'[l].from = from /\ reader'[l].remaining = PduUnits(length)
        BY <1>2, <2>9
      <3>2. rd.ndx + 1 = HeadSize
        BY <1>1, <2>9, SizesHold DEF Sizes
      <3>3. length = sent[l][frame].length
        BY <1>2, <2>2, <2>9 DEF Lengths
      <3>4. WellFormed(sent[l][frame])
        <4>1. frame \in DOMAIN sent[l]
          BY <1>2, LinkTypes
        <4> QED BY <1>2, <1>5, <4>1 DEF InStep
      <3>5. PduUnits(length) = size - HeadSize
        <4> DEFINE body == sent[l][frame].body
        <4>1. body \in Nat /\ length = body + 1 /\ size = HeadSize + body
          BY <1>2, <3>3, <3>4, RequestTypes DEF WellFormed, Size
        <4> HIDE DEF body, size
        <4> QED BY <4>1, SizesHold DEF PduUnits, Sizes
      <3> QED BY <1>1, <1>2, <2>2, <2>3, <2>5, <3>1, <3>2, <3>5 DEF TcpStep
    <2>10. \/ /\ rd.remaining > 1
              /\ reader' = [reader EXCEPT ![l] =
                   [reader[l] EXCEPT !.remaining = @ - 1, !.ndx = @ + 1, !.from = from]]
           \/ /\ rd.remaining = 1
              /\ \E length \in Lengths(l) :
                   reader' = [reader EXCEPT ![l] =
                     [state |-> "pdu", remaining |-> PduUnits(length),
                      ndx |-> rd.ndx + 1, from |-> from]]
      BY DEF FeedHeader
    <2> QED BY <2>6, <2>7, <2>8, <2>9, <2>10
  <1>6. LinkInv(l)'
    BY <1>1, <1>5 DEF LinkInv, InStep
  <1> QED BY <1>1, <1>2, <1>3, <1>4, <1>6, OwnLink

LEMMA HandledIs ==
  ASSUME NEW l, NEW r, NEW id, Handle(l, r, id)
  PROVE  srv' # Idle /\ srv'.link = l /\ srv'.id = id /\ srv'.req = r
  <1>1. srv'.pc \in {"regs", "reply"} /\ srv'.link = l /\ srv'.id = id /\ srv'.req = r
    BY DEF Handle
  <1> QED BY <1>1 DEF Idle

LEMMA FeedPduOrder ==
  ASSUME TypeInv, OrderInv, NEW l \in Links, FeedPdu(l)
  PROVE  OrderInv'
  <1> DEFINE rd == reader[l]
             frame == pos[l].frame
             off == pos[l].off
             size == Size(sent[l][frame])
  <1>1. /\ l \in TcpLinks /\ l \notin RtuLinks /\ Readable(l) /\ rd.state = "pdu"
        /\ pos' = [pos EXCEPT ![l] = Advance(l, 1)] /\ sent' = sent
        /\ answers' = answers
    BY SlaveAssumption DEF FeedPdu
  <1>2. /\ srv = Idle /\ frame \in 1 .. Len(sent[l]) /\ frame \in Nat /\ off \in Nat
        /\ rd.ndx \in Nat /\ sent[l][frame] \in Requests
        /\ size \in Nat /\ size > HeadSize /\ off < size
        /\ DOMAIN reader = Links
    BY <1>1, NextUnit
  <1>3. /\ PosOk(l)'
        /\ off + 1 < size => pos'[l].frame = frame /\ pos'[l].off = off + 1
        /\ off + 1 = size => pos'[l].frame = frame + 1 /\ pos'[l].off = 0
    BY <1>1, OneUnit
  <1>4. PICK new : reader' = [reader EXCEPT ![l] = new]
    BY DEF FeedPdu
  <1>5. srv' = Idle \/ srv'.link = l
    BY <1>2, HandledIs DEF FeedPdu, PassOver
  <1>6. ASSUME InStep(l, Len(sent[l]))
        PROVE  TcpStep(l)' /\ HandStep(l)' /\ AnswerStep(l)'
    <2>1. TcpStep(l) /\ HandStep(l) /\ AnswerStep(l)
      BY <1>1, <1>6 DEF OrderInv, LinkInv
    <2>2. rd.from = frame /\ off = rd.ndx /\ rd.remaining = size - rd.ndx
      BY <1>1, <2>1 DEF TcpStep
    <2>3. WellFormed(sent[l][frame])
      <3>1. frame \in DOMAIN sent[l]
        BY <1>2, LinkTypes
      <3> QED BY <1>2, <1>6, <3>1 DEF InStep
    <2>4. rd.ndx < MaxFrame
      <3> DEFINE ndx == rd.ndx
      <3>1. size <= MaxFrame /\ ndx < size /\ ndx \in Nat /\ MaxFrame \in Nat
        BY <1>2, <2>2, <2>3, SizesHold DEF WellFormed, Sizes
      <3> HIDE DEF size, ndx
      <3>2. ndx < MaxFrame
        BY <1>2, <3>1
      <3> QED BY <3>2 DEF ndx
    <2>5. \/ /\ rd.remaining # 1
             /\ reader' = [reader EXCEPT ![l] =
                  [reader[l] EXCEPT !.remaining = @ - 1, !.ndx = @ + 1]]
             /\ srv' = srv
          \/ /\ rd.remaining = 1
             /\ reader' = [reader EXCEPT ![l] = FreshReader]
             /\ \E r \in Contents(l) :
                  IF r.uid = "other" THEN PassOver ELSE Handle(l, r, frame)
      <3>1. \/ rd.ndx >= MaxFrame
            \/ /\ rd.remaining # 1
               /\ reader' = [reader EXCEPT ![l] =
                    [reader[l] EXCEPT !.remaining = @ - 1, !.ndx = @ + 1]]
               /\ srv' = srv
            \/ /\ rd.remaining = 1
               /\ reader' = [reader EXCEPT ![l] = FreshReader]
               /\ \E r \in Contents(l) :
                    IF r.uid = "other" THEN PassOver ELSE Handle(l, r, rd.from)
        BY Zenon DEF FeedPdu
      <3>2. ~(rd.ndx >= MaxFrame)
        BY <1>2, <2>4, SizesHold DEF Sizes
      <3> QED BY <2>2, <3>1, <3>2, Zenon
    <2>6. CASE /\ rd.remaining # 1
               /\ reader' = [reader EXCEPT ![l] =
                    [reader[l] EXCEPT !.remaining = @ - 1, !.ndx = @ + 1]]
               /\ srv' = srv
      <3>1. off + 1 < size
        <4> DEFINE left == rd.remaining
        <4>1. left = size - off /\ left # 1
          BY <2>2, <2>6
        <4> HIDE DEF off, size, left
        <4> QED BY <1>2, <4>1
      <3>2. pos'[l].frame = frame /\ pos'[l].off = off + 1
        BY <1>3, <3>1
      <3>3. /\ reader'[l].state = "pdu" /\ reader'[l].ndx = rd.ndx + 1
            /\ reader'[l].from = frame /\ reader'[l].remaining = rd.remaining - 1
        BY <1>1, <1>2, <2>2, <2>6, NextUnit
      <3>4. rd.remaining - 1 = size - (rd.ndx + 1)
        <4> DEFINE left == rd.remaining
                   ndx == rd.ndx
        <4>1. left = size - ndx /\ ndx \in Nat
          BY <1>2, <2>2
        <4> HIDE DEF ndx, size, left
        <4>2. left - 1 = size - (ndx + 1)
          BY <1>2, <4>1
        <4> QED BY <4>2 DEF left, ndx
      <3>5. TcpStep(l)'
        BY <1>1, <1>2, <2>2, <3>2, <3>3, <3>4 DEF TcpStep
      <3>6. AnswerStep(l)'
        BY <1>1, <1>2, <2>1, <3>2, AnswersSame
      <3>7. HandStep(l)'
        BY <1>2, <2>6 DEF HandStep, Busy
      <3> QED BY <3>5, <3>6, <3>7
    <2>7. CASE /\ rd.remaining = 1
               /\ reader' = [reader EXCEPT ![l] = FreshReader]
               /\ \E r \in Contents(l) :
                    IF r.uid = "other" THEN PassOver ELSE Handle(l, r, frame)
      <3>1. off + 1 = size
        <4> DEFINE left == rd.remaining
        <4>1. left = size - off /\ left = 1
          BY <2>2, <2>7
        <4> HIDE DEF off, size, left
        <4> QED BY <1>2, <4>1
      <3>2. pos'[l].frame = frame + 1 /\ pos'[l].off = 0
        BY <1>3, <3>1
      <3>3. reader'[l] = FreshReader
        BY <1>2, <2>7
      <3>4. TcpStep(l)'
        BY <3>2, <3>3 DEF TcpStep, FreshReader
      <3>5. Contents(l) = {sent[l][frame]}
        BY <1>2, <2>2, <2>3 DEF Contents
      <3>6. IF sent[l][frame].uid = "other" THEN PassOver
            ELSE Handle(l, sent[l][frame], frame)
        BY <2>7, <3>5
      <3>7. HandStep(l)'
        <4>1. CASE sent[l][frame].uid = "other"
          BY <3>6, <4>1 DEF PassOver, HandStep, Busy
        <4>2. CASE sent[l][frame].uid # "other"
          <5>1. srv'.id = frame /\ srv'.req = sent[l][frame]
            BY <3>6, <4>2, HandledIs
          <5>2. frame \in 1 .. pos'[l].frame - 1
            BY <1>2, <3>2
          <5>3. \A j \in DOMAIN answers[l] : answers[l][j].id < frame
            BY <1>2, <2>1 DEF AnswerStep
          <5> QED BY <1>1, <5>1, <5>2, <5>3 DEF HandStep
        <4> QED BY <4>1, <4>2
      <3>8. ASSUME Replies(sent[l][frame])
            PROVE  srv' # Idle /\ srv'.link = l /\ srv'.id = frame
        BY <3>6, <3>8, HandledIs DEF Replies
      <3>9. /\ pos'[l].frame \in Nat /\ pos'[l].frame >= frame
            /\ frame .. pos'[l].frame - 1 = {frame}
        BY <1>2, <3>2
      <3>10. \A f \in frame .. pos'[l].frame - 1 :
               Replies(sent[l][f]) => InHand(l, f)'
        BY <3>8, <3>9 DEF InHand
      <3>11. AnswerStep(l)'
        BY <1>1, <1>2, <2>1, <3>9, <3>10, AnswersKept
      <3> QED BY <3>4, <3>7, <3>11
    <2> QED BY <2>5, <2>6, <2>7
  <1>7. LinkInv(l)'
    BY <1>1, <1>6 DEF LinkInv, InStep
  <1> QED BY <1>1, <1>2, <1>3, <1>4, <1>5, <1>7, OwnLink

LEMMA RxRtuOrder ==
  ASSUME TypeInv, OrderInv, NEW l \in Links, NEW k \in 1 .. RxMax, RxRtu(l, k)
  PROVE  OrderInv'
  <1> DEFINE rd == reader[l]
             frame == pos[l].frame
             off == pos[l].off
             size == Size(sent[l][frame])
             ndx == IF rd.ndx + k >= MaxFrame THEN 0 ELSE rd.ndx
             from == From(l, ndx)
  <1>1. /\ l \in RtuLinks /\ l \notin TcpLinks /\ Readable(l) /\ k <= size - off
        /\ pos' = [pos EXCEPT ![l] = Advance(l, k)] /\ sent' = sent
        /\ answers' = answers /\ srv' = srv /\ k \in Nat /\ k >= 1
    BY SlaveAssumption, SizesHold DEF RxRtu, Sizes
  <1>2. /\ srv = Idle /\ frame \in 1 .. Len(sent[l]) /\ frame \in Nat /\ off \in Nat
        /\ size \in Nat /\ DOMAIN reader = Links
    BY <1>1, NextUnit
  <1>3. PosOk(l)' /\ pos'[l].frame \in Nat /\ pos'[l].frame >= frame
    <2>1. /\ PosOk(l)'
          /\ off + k < size => pos'[l].frame = frame
          /\ off + k = size => pos'[l].frame = frame + 1
      <3>1. PosOk(l) /\ frame <= Len(sent[l])
        BY <1>1 DEF OrderInv, Readable
      <3> QED BY <1>1, <3>1, AdvanceOk
    <2>2. off + k < size \/ off + k = size
      <3> HIDE DEF off, size
      <3> QED BY <1>1, <1>2
    <2>3. pos'[l].frame = frame \/ pos'[l].frame = frame + 1
      BY <2>1, <2>2
    <2> QED BY <1>2, <2>1, <2>3
  <1>4. reader' = [reader EXCEPT ![l] =
          [reader[l] EXCEPT !.state = "t35", !.ndx = ndx + k, !.from = from]]
    BY DEF RxRtu
  <1>5. reader'[l].from = from
    BY <1>1, <1>2, <1>4, NextUnit
  <1>6. ASSUME InStep(l, Len(sent[l]))
        PROVE  RtuStep(l)' /\ HandStep(l)' /\ AnswerStep(l)'
    <2>1. RtuStep(l) /\ HandStep(l) /\ AnswerStep(l)
      BY <1>1, <1>6 DEF OrderInv, LinkInv
    <2>2. from \in {rd.from, frame, 0}
      BY DEF From
    <2>3. from <= frame /\ from \in Nat
      BY <1>2, <2>1, <2>2, LinkTypes DEF RtuStep
    <2>4. from # 0 => \A j \in DOMAIN answers[l] : answers[l][j].id < from
      <3>1. \A j \in DOMAIN answers[l] : answers[l][j].id < frame
        BY <1>2, <2>1 DEF AnswerStep
      <3> QED BY <2>1, <2>2, <3>1 DEF RtuStep
    <2> HIDE DEF from, ndx
    <2>5. from <= pos'[l].frame
      <3> DEFINE next == pos'[l].frame
      <3>1. next \in Nat /\ next >= frame
        BY <1>3
      <3> HIDE DEF next, frame
      <3>2. from <= next
        BY <1>2, <2>3, <3>1
      <3> QED BY <3>2 DEF next
    <2>6. RtuStep(l)'
      BY <1>1, <1>2, <1>5, <2>4, <2>5 DEF RtuStep, Busy
    <2>7. HandStep(l)'
      BY <1>1, <1>2 DEF HandStep, Busy
    <2>8. AnswerStep(l)'
      BY <1>1, <1>2, <1>3, <2>1, AnswersKept
    <2> QED BY <2>6, <2>7, <2>8
  <1>7. LinkInv(l)'
    BY <1>1, <1>6 DEF LinkInv, InStep
  <1> HIDE DEF from, ndx
  <1> QED BY <1>1, <1>2, <1>3, <1>4, <1>7, OwnLink

LEMMA SilenceOrder ==
  ASSUME TypeInv, OrderInv, NEW l \in Links, Silence(l)
  PROVE  OrderInv'
  <1> DEFINE from == reader[l].from
             r == sent[l][from]
  <1>1. /\ l \in RtuLinks /\ l \notin TcpLinks /\ srv = Idle
        /\ sent' = sent /\ answers' = answers /\ pos' = pos
        /\ reader' = [reader EXCEPT ![l] = FreshReader]
    BY SlaveAssumption DEF Silence, TypeInv, TypeOK, HandlingRecord
  <1>2. pos' = [pos EXCEPT ![l] = pos[l]] /\ reader'[l] = FreshReader
    BY <1>1 DEF TypeInv, TypeOK
  <1>3. PosOk(l)'
    BY <1>1 DEF OrderInv, PosOk
  <1>4. from \in Nat /\ pos[l].frame \in Nat
    BY LinkTypes
  <1>5. \/ srv' = Idle
        \/ from # 0 /\ pos[l].frame = from + 1 /\ Handle(l, r, from)
    BY DEF Silence, PassOver, CrcOk
  <1>6. srv' = Idle \/ srv'.link = l
    BY <1>5, HandledIs
  <1>7. ASSUME InStep(l, Len(sent[l]))
        PROVE  RtuStep(l)' /\ HandStep(l)' /\ AnswerStep(l)'
    <2>1. RtuStep(l) /\ HandStep(l) /\ AnswerStep(l)
      BY <1>1, <1>7 DEF OrderInv, LinkInv
    <2>2. RtuStep(l)'
      <3>1. reader'[l].from = 0 /\ 0 <= pos'[l].frame
        BY <1>1, <1>2, <1>4 DEF FreshReader
      <3> QED BY <3>1 DEF RtuStep
    <2>3. HandStep(l)'
      <3>1. CASE srv' = Idle
        BY <3>1 DEF HandStep, Busy
      <3>2. CASE from # 0 /\ pos[l].frame = from + 1 /\ Handle(l, r, from)
        <4>1. srv'.id = from /\ srv'.req = r
          BY <3>2, HandledIs
        <4>2. from \in 1 .. pos'[l].frame - 1
          BY <1>1, <1>4, <3>2
        <4>3. \A j \in DOMAIN answers[l] : answers[l][j].id < from
          BY <2>1, <3>2 DEF RtuStep
        <4> QED BY <1>1, <4>1, <4>2, <4>3 DEF HandStep
      <3> QED BY <1>5, <3>1, <3>2
    <2>4. AnswerStep(l)'
      BY <1>1, <2>1, AnswersSame
    <2> QED BY <2>2, <2>3, <2>4
  <1>8. LinkInv(l)'
    BY <1>1, <1>7 DEF LinkInv, InStep
  <1> QED BY <1>1, <1>2, <1>3, <1>6, <1>8, OwnLink

LEMMA ReplyOrder ==
  ASSUME TypeInv, OrderInv, Reply
  PROVE  OrderInv'
  <1> DEFINE l == srv.link
             answer == [id |-> srv.id, kind |-> srv.kind]
             n == Len(answers[l])
  <1>1. /\ srv # Idle /\ srv \in HandlingRecord /\ srv' = Idle
        /\ sent' = sent /\ pos' = pos /\ reader' = reader
    BY DEF Reply, Idle, TypeInv, TypeOK
  <1>2. l \in Links /\ srv.id \in Nat /\ Busy(l)
    BY <1>1 DEF HandlingRecord, Busy
  <1>3. /\ answers[l] \in Seq([id : Nat, kind : Kinds]) /\ n \in Nat
        /\ DOMAIN answers[l] = 1 .. n /\ pos[l].frame \in Nat
        /\ \A j \in DOMAIN answers[l] : answers[l][j].id \in Nat
    BY <1>2, LinkTypes
  <1>4. answer \in [id : Nat, kind : Kinds]
    BY <1>1 DEF HandlingRecord
  <1>5. \/ /\ Replies(srv.req) /\ answers' = [answers EXCEPT ![l] = Append(answers[l], answer)]
        \/ /\ ~Replies(srv.req) \/ l \in MayDrop
           /\ answers' = answers
    BY DEF Reply
  <1>6. ASSUME NEW m \in Links, m # l PROVE PosOk(m)' /\ LinkInv(m)'
    <2>1. /\ sent' = sent /\ pos' = pos /\ reader' = reader
          /\ answers'[m] = answers[m] /\ ~Busy(m) /\ ~Busy(m)'
      BY <1>1, <1>5, <1>6 DEF TypeInv, TypeOK, Busy
    <2> QED BY <2>1, OtherLink DEF OrderInv
  <1>8. ASSUME InStep(l, Len(sent[l]))
        PROVE  (/\ l \in TcpLinks => TcpStep(l)
                /\ l \in RtuLinks => RtuStep(l)
                /\ HandStep(l) /\ AnswerStep(l))
               /\ \A m \in Links : m = l => LinkInv(m)'
    <2>1. /\ l \in TcpLinks => TcpStep(l)
          /\ l \in RtuLinks => RtuStep(l)
          /\ HandStep(l) /\ AnswerStep(l)
      BY <1>2, <1>8 DEF OrderInv, LinkInv
    <2>2. /\ srv.id \in 1 .. pos[l].frame - 1 /\ srv.req = sent[l][srv.id]
          /\ \A j \in DOMAIN answers[l] : answers[l][j].id < srv.id
      BY <1>2, <2>1 DEF HandStep
    <2> SUFFICES ASSUME NEW m \in Links, m = l PROVE LinkInv(m)'
      BY <2>1
    <2>3. /\ m \in TcpLinks => TcpStep(m)'
          /\ HandStep(m)'
      BY <1>1, <2>1 DEF TcpStep, HandStep, Busy
    <2>4. m \in RtuLinks => RtuStep(m)'
      BY <1>1, <1>2, <2>1 DEF RtuStep, Busy
    <2>5. CASE /\ Replies(srv.req)
               /\ answers' = [answers EXCEPT ![l] = Append(answers[l], answer)]
      <3>1. answers'[m] = Append(answers[m], answer)
        BY <1>2, <2>5 DEF TypeInv, TypeOK
      <3>2. /\ Len(answers'[m]) = n + 1 /\ DOMAIN answers'[m] = 1 .. n + 1
            /\ answers'[m][n + 1] = answer
            /\ \A j \in 1 .. n : answers'[m][j] = answers[m][j]
        BY <1>3, <1>4, <3>1, AppendProperties
      <3>3. answers'[m][n + 1].id = srv.id
        BY <3>2
      <3>4. \A j \in 1 .. n + 1 : j \in 1 .. n \/ j = n + 1
        BY <1>3
      <3>5. \A j, k \in DOMAIN answers'[m] : j < k => answers'[m][j].id < answers'[m][k].id
        <4> SUFFICES ASSUME NEW j \in 1 .. n + 1, NEW k \in 1 .. n + 1, j < k
                     PROVE  answers'[m][j].id < answers'[m][k].id
          BY <3>2
        <4>1. j \in 1 .. n
          BY <1>3
        <4>2. CASE k \in 1 .. n
          BY <1>3, <2>1, <3>2, <4>1, <4>2 DEF AnswerStep
        <4>3. CASE k = n + 1
          BY <1>3, <2>2, <3>2, <3>3, <4>1, <4>3
        <4> QED BY <3>4, <4>2, <4>3
      <3>6. \A j \in DOMAIN answers'[m] :
              /\ answers'[m][j].id \in 1 .. pos'[m].frame - 1
              /\ Replies(sent'[m][answers'[m][j].id])
        <4> SUFFICES ASSUME NEW j \in 1 .. n + 1
                     PROVE  /\ answers'[m][j].id \in 1 .. pos'[m].frame - 1
                            /\ Replies(sent'[m][answers'[m][j].id])
          BY <3>2
        <4>1. CASE j \in 1 .. n
          BY <1>1, <1>3, <2>1, <3>2, <4>1 DEF AnswerStep
        <4>2. CASE j = n + 1
          BY <1>1, <2>2, <2>5, <3>3, <4>2
        <4> QED BY <3>4, <4>1, <4>2
      <3>7. ASSUME m \in TcpLinks \ MayDrop, NEW f \in (1 .. pos[m].frame - 1)',
                   Replies(sent[m][f])'
            PROVE  Answered(m, f)' \/ InHand(m, f)'
        <4>1. f \in 1 .. pos[m].frame - 1 /\ Replies(sent[m][f])
          BY <1>1, <3>7 DEF Replies
        <4>2. Answered(m, f) \/ InHand(m, f)
          BY <2>1, <3>7, <4>1 DEF AnswerStep
        <4>3. CASE Answered(m, f)
          <5>1. PICK j \in 1 .. n : answers[m][j].id = f
            BY <1>3, <4>3 DEF Answered
          <5>2. j \in 1 .. n + 1 /\ answers'[m][j].id = f
            BY <1>3, <3>2, <5>1
          <5> QED BY <3>2, <5>2 DEF Answered
        <4>4. CASE InHand(m, f)
          <5>1. n + 1 \in 1 .. n + 1 /\ answers'[m][n + 1].id = f
            BY <1>3, <3>3, <4>4 DEF InHand
          <5> QED BY <3>2, <5>1 DEF Answered
        <4> QED BY <4>2, <4>3, <4>4
      <3>8. AnswerStep(m)'
        BY <3>5, <3>6, <3>7 DEF AnswerStep
      <3> QED BY <2>3, <2>4, <3>8 DEF LinkInv
    <2>6. CASE /\ ~Replies(srv.req) \/ l \in MayDrop
               /\ answers' = answers
      <3>1. ASSUME m \in TcpLinks \ MayDrop, NEW f \in (1 .. pos[m].frame - 1)',
                   Replies(sent[m][f])'
            PROVE  Answered(m, f)' \/ InHand(m, f)'
        <4>1. f \in 1 .. pos[m].frame - 1 /\ Replies(sent[m][f])
          BY <1>1, <3>1 DEF Replies
        <4>2. Answered(m, f) \/ InHand(m, f)
          BY <2>1, <3>1, <4>1 DEF AnswerStep
        <4>3. ~InHand(m, f)
          BY <2>2, <2>6, <3>1, <4>1 DEF InHand
        <4> QED BY <2>6, <4>2, <4>3 DEF Answered
      <3>2. AnswerStep(m)'
        BY <1>1, <2>1, <2>6, <3>1 DEF AnswerStep, Replies
      <3> QED BY <2>3, <2>4, <3>2 DEF LinkInv
    <2> QED BY <1>5, <2>5, <2>6
  <1>9. ASSUME NEW m \in Links, m = l PROVE LinkInv(m)'
    <2>1. InStep(m, Len(sent[m]))' => InStep(l, Len(sent[l]))
      BY <1>1, <1>9 DEF InStep
    <2>2. CASE InStep(l, Len(sent[l]))
      BY <1>8, <1>9, <2>2
    <2>3. CASE ~InStep(l, Len(sent[l]))
      BY <2>1, <2>3 DEF LinkInv
    <2> QED BY <2>2, <2>3
  <1>10. ASSUME NEW m \in Links, m = l PROVE PosOk(m)'
    BY <1>1, <1>10 DEF OrderInv, PosOk
  <1> QED BY <1>6, <1>9, <1>10 DEF OrderInv

LEMMA OrderStep ==
  ASSUME TypeInv, OrderInv, [Next]_vars
  PROVE  OrderInv'
  <1>1. ASSUME NEW l \in Links, NEW r \in Menued(l), Send(l, r) PROVE OrderInv'
    BY <1>1, SendOrder
  <1>2. ASSUME NEW l \in Links, Receive(l) \/ Silence(l) PROVE OrderInv'
    BY <1>2, FeedHeaderOrder, FeedPduOrder, RxRtuOrder, SilenceOrder DEF Receive
  <1>3. ASSUME linkVars' = linkVars \/ \E l \in Links : Close(l),
               srv' = srv \/ (srv # Idle /\ srv' # Idle /\ srv'.link = srv.link
                             /\ srv'.id = srv.id /\ srv'.req = srv.req)
        PROVE  OrderInv'
    <2> SUFFICES ASSUME NEW m \in Links PROVE PosOk(m)' /\ LinkInv(m)'
      BY DEF OrderInv
    <2>1. sent' = sent /\ pos' = pos /\ reader' = reader /\ answers' = answers
      BY <1>3 DEF linkVars, Close
    <2>2. (Busy(m)' <=> Busy(m)) /\ (Busy(m) => srv'.id = srv.id /\ srv'.req = srv.req)
      BY <1>3 DEF Busy
    <2> QED BY <2>1, <2>2, OtherLink DEF OrderInv
  <1>4. CASE \E l \in Links : Close(l)
    BY <1>3, <1>4 DEF Close
  <1>5. CASE Unmapped \/ ReadRegister \/ WriteRegister \/ RangeOver
    <2>1. srv \in HandlingRecord /\ linkVars' = linkVars
      BY <1>5 DEF TypeInv, TypeOK, Idle, Unmapped, ReadRegister, WriteRegister, RangeOver,
                  InRange
    <2>2. \A s \in HandlingRecord : s # Idle
      BY DEF HandlingRecord, Idle
    <2>3. \A s \in HandlingRecord :
            /\ Written(s).link = s.link /\ Written(s).id = s.id /\ Written(s).req = s.req
      <3>1. ASSUME NEW s \in HandlingRecord
            PROVE  Written(s).link = s.link /\ Written(s).id = s.id /\ Written(s).req = s.req
        <4> DEFINE moved == MovesOn(s)
        <4>1. /\ moved \in HandlingRecord /\ moved.link = s.link /\ moved.id = s.id
              /\ moved.req = s.req
              /\ Written(s) = [moved EXCEPT !.wrote = s.wrote \cup {s.cur}]
          BY MovesOnTypes
        <4> HIDE DEF moved
        <4> QED BY <4>1 DEF HandlingRecord
      <3> QED BY <3>1
    <2>4. srv'.link = srv.link /\ srv'.id = srv.id /\ srv'.req = srv.req
      <3>1. CASE Unmapped \/ RangeOver
        BY <2>1, <3>1 DEF Unmapped, RangeOver, HandlingRecord
      <3>2. CASE WriteRegister
        <4>1. srv' = [srv EXCEPT !.part = "status"] \/ srv' = Written(srv)
          BY <3>2 DEF WriteRegister
        <4> QED BY <2>1, <2>3, <4>1 DEF HandlingRecord
      <3>3. CASE ReadRegister
        BY <2>1, <3>3 DEF ReadRegister, MovesOn, WordRead, HandlingRecord
      <3> QED BY <1>5, <3>1, <3>2, <3>3
    <2>5. srv' \in HandlingRecord
      BY <1>5, ServeTypes DEF TypeInv
    <2> QED BY <1>3, <2>1, <2>2, <2>4, <2>5
  <1>6. CASE Scan
    BY <1>3, <1>6 DEF Scan, ScanInput, AppRun, ScanOutput
  <1>7. CASE UNCHANGED vars
    BY <1>3, <1>7 DEF vars, linkVars
  <1> QED BY <1>1, <1>2, <1>4, <1>5, <1>6, <1>7, ReplyOrder DEF Next, Serve

(***************************************************************************)
(* Answers come in the order of the requests, and on a connection whose    *)
(* peer keeps to the frame format each request has its answer: the reader  *)
(* is never out of step, however requests arrive and however often they    *)
(* are cut.                                                                *)
(***************************************************************************)
THEOREM AnswersStayInOrder == Spec => []AnswersInOrder
  <1>1. Init => TypeInv /\ OrderInv
    <2> SUFFICES ASSUME Init PROVE TypeInv /\ OrderInv
      OBVIOUS
    <2>1. TypeInv
      BY TypeInit
    <2>2. ASSUME NEW l \in Links PROVE PosOk(l) /\ LinkInv(l)
      <3>1. /\ sent[l] = <<>> /\ pos[l].frame = 1 /\ pos[l].off = 0 /\ Len(sent[l]) = 0
            /\ reader[l] = FreshReader /\ answers[l] = <<>> /\ srv = Idle
            /\ DOMAIN answers[l] = {} /\ 1 .. pos[l].frame - 1 = {}
        BY DEF Init
      <3>2. PosOk(l)
        BY <3>1 DEF PosOk
      <3>3. TcpStep(l) /\ RtuStep(l) /\ HandStep(l) /\ AnswerStep(l)
        BY <3>1 DEF TcpStep, RtuStep, HandStep, AnswerStep, Busy, FreshReader
      <3> QED BY <3>2, <3>3 DEF LinkInv
    <2> QED BY <2>1, <2>2 DEF OrderInv
  <1>2. TypeInv /\ OrderInv /\ [Next]_vars => TypeInv' /\ OrderInv'
    BY TypeStep, OrderStep
  <1>3. TypeInv /\ OrderInv => AnswersInOrder
    <2> SUFFICES ASSUME TypeInv, OrderInv, NEW l \in Links, InStep(l, Len(sent[l]))
                 PROVE  /\ \A j, k \in DOMAIN answers[l] :
                             j < k => answers[l][j].id < answers[l][k].id
                        /\ \A f \in DOMAIN sent[l] :
                             /\ Answered(l, f) =>
                                  f < pos[l].frame /\ Replies(sent[l][f]) /\ ~InHand(l, f)
                             /\ l \in TcpLinks \ MayDrop /\ f < pos[l].frame
                                   /\ Replies(sent[l][f])
                                  => Answered(l, f) \/ InHand(l, f)
      BY DEF AnswersInOrder
    <2>1. HandStep(l) /\ AnswerStep(l)
      BY DEF OrderInv, LinkInv
    <2>2. ASSUME NEW f \in DOMAIN sent[l], Answered(l, f)
          PROVE  f < pos[l].frame /\ Replies(sent[l][f]) /\ ~InHand(l, f)
      <3>1. PICK j \in DOMAIN answers[l] : answers[l][j].id = f
        BY <2>2 DEF Answered
      <3>2. f \in 1 .. pos[l].frame - 1 /\ Replies(sent[l][f])
        BY <2>1, <3>1 DEF AnswerStep
      <3>3. f < pos[l].frame
        BY <3>2, LinkTypes
      <3>4. ~InHand(l, f)
        <4> SUFFICES ASSUME InHand(l, f) PROVE FALSE
          OBVIOUS
        <4>1. f < f
          BY <2>1, <3>1 DEF HandStep, Busy, InHand
        <4>2. f \in Int
          BY <3>2
        <4> QED BY <4>1, <4>2
      <3> QED BY <3>2, <3>3, <3>4
    <2>3. ASSUME NEW f \in DOMAIN sent[l], l \in TcpLinks \ MayDrop, f < pos[l].frame,
                 Replies(sent[l][f])
          PROVE  Answered(l, f) \/ InHand(l, f)
      <3>1. f \in 1 .. pos[l].frame - 1
        BY <2>3, LinkTypes
      <3> QED BY <2>1, <2>3, <3>1 DEF AnswerStep
    <2>4. \A j, k \in DOMAIN answers[l] : j < k => answers[l][j].id < answers[l][k].id
      BY <2>1 DEF AnswerStep
    <2> QED BY <2>2, <2>3, <2>4
  <1> QED BY <1>1, <1>2, <1>3, PTL DEF Spec
-----------------------------------------------------------------------------
(* The accesses to the channels.                                           *)

(* The loop over the registers is that of a request which was found good.  *)
PhaseInv ==
  srv # Idle =>
    LET r == srv.req
    IN  /\ srv.phase = "write" => r.fn \in Writes
        /\ srv.pc = "regs" =>
             /\ Checked(r) = "go on" /\ srv.end = End(r, srv.phase)
             /\ srv.phase = "read" => r.fn \in Reads
             /\ srv.part = "status" =>
                  srv.cur <= srv.end /\ Here \in DOMAIN RegMap /\ RegMap[Here].status

(* Outputs that only the scan sets are never ahead of those it sets before *)
(* them, nor of the application.                                           *)
OutputInv ==
  \A n \in DOMAIN Outputs : ~Settable(Outputs[n]) =>
    LET v == chnl[Outputs[n]].raw_value_queued
    IN  /\ v <= core.version
        /\ core.at > Len(Inputs) + 1 + n => v = core.version
        /\ \A m \in DOMAIN Outputs : m < n /\ ~Settable(Outputs[m]) =>
             v <= chnl[Outputs[m]].raw_value_queued

(* A word that shows an output is not ahead of the outputs set before it.  *)
WordInv ==
  \A i \in DOMAIN srv.words, m, n \in DOMAIN Outputs :
    m < n /\ ShowsRaw(i, Outputs[n]) /\ ~Settable(Outputs[m]) /\ ~Settable(Outputs[n]) =>
      /\ srv.words[i] <= chnl[Outputs[m]].raw_value_queued
      /\ \A j \in DOMAIN srv.words :
           i < j /\ ShowsRaw(j, Outputs[m]) => srv.words[i] <= srv.words[j]

ReadInv ==
  srv # Idle /\ Checked(srv.req) = "go on" /\ Plain(srv.req, "read") =>
    /\ srv.phase = "write" => srv.words = <<>>
    /\ srv.phase = "read" /\ srv.pc = "regs" =>
         srv.cur = Start(srv.req, "read") + Len(srv.words)
    /\ core.version < DataMod => WordInv

AccessInv == PhaseInv /\ OutputInv /\ ReadInv

(* What is handled is a request of the menus, up to what does not fit.     *)
Asked(r) == \E l \in Links : \E q \in Menued(l) : r.fn = q.fn /\ r.write = q.write

SentInv ==
  /\ \A l \in Links : \A i \in DOMAIN sent[l] : sent[l][i] \in Menued(l)
  /\ srv # Idle => Asked(srv.req)

(* The history of the values: the scan takes the newest one.               *)
TakenInv ==
  \A c \in Channels :
    /\ chnl[c].by <= serial /\ chnl[c].taken <= chnl[c].by
    /\ ~chnl[c].raw_value_avail => chnl[c].taken = chnl[c].by

(* The write in hand has found mapped, and set, the registers it went      *)
(* through, or it has come round.                                          *)
Behind ==
  /\ srv.cur >= Start(srv.req, "write")
  /\ \A b \in Start(srv.req, "write") .. srv.cur - 1 :
       /\ Mapped(srv.req, b)
       /\ \A c \in Channels : Holds(srv.req, b, c) => chnl[c].by = serial
  /\ srv.part = "status" =>
       \A c \in Channels : Holds(srv.req, srv.cur, c) => chnl[c].by = serial

BehindInv ==
  srv # Idle /\ srv.pc = "regs" /\ srv.phase = "write" =>
    Behind \/ ComesRoundTo(srv.req, srv.cur)

PairInv(d, f) ==
  /\ chnl[f].by <= chnl[d].by
  /\ \A i, j \in DOMAIN Inputs :
       i < j /\ Inputs[i] = f /\ Inputs[j] = d /\ core.at > j
           /\ core.at <= Len(Inputs) + 1 =>
         chnl[f].taken <= chnl[d].taken

(* The thread takes up a request that was asked for.                       *)
Begins == \E l \in Links, r \in Requests, id \in Nat : Handle(l, r, id) /\ Asked(r)

LEMMA ContentsAsked ==
  ASSUME TypeInv, SentInv, NEW l \in Links, NEW r \in Contents(l)
  PROVE  r \in Requests /\ Asked(r)
  <1>1. reader[l].from \in 0 .. Len(sent[l]) /\ sent[l] \in Seq(Requests)
        /\ Len(sent[l]) \in Nat
    BY DEF TypeInv, TypeOK, ReaderOk
  <1>2. CASE reader[l].from = 0
    BY <1>2, ContentsTypes DEF Contents, Asked
  <1>3. CASE reader[l].from # 0
    <2> DEFINE q == sent[l][reader[l].from]
    <2>1. reader[l].from \in DOMAIN sent[l]
      BY <1>1, <1>3
    <2>2. q \in Menued(l) /\ q \in Requests
      BY <1>1, <2>1, ElementOfSeq DEF SentInv
    <2> HIDE DEF q
    <2>3. r = q \/ \E b \in Fits : r = [q EXCEPT !.fits = b]
      BY <1>3 DEF Contents, q
    <2>4. r.fn = q.fn /\ r.write = q.write
      BY <2>2, <2>3 DEF Requests
    <2> QED BY <2>2, <2>4, ContentsTypes DEF Asked
  <1> QED BY <1>2, <1>3

(* What a step does to the request in hand and to the channels.            *)
LEMMA StepKinds ==
  ASSUME TypeInv, SentInv, [Next]_vars
  PROVE  \/ (srv' = srv \/ srv' = Idle) /\ UNCHANGED <<chnl, core, serial>>
         \/ Begins /\ UNCHANGED <<chnl, core>>
         \/ Unmapped \/ ReadRegister \/ WriteRegister \/ RangeOver
         \/ Scan
  <1>1. ASSUME NEW l \in Links, FeedPdu(l)
        PROVE  \/ (srv' = srv \/ srv' = Idle) /\ UNCHANGED <<chnl, core, serial>>
               \/ Begins /\ UNCHANGED <<chnl, core>>
    <2>1. reader[l].from \in Nat
      BY DEF TypeInv, TypeOK
    <2> QED BY <1>1, <2>1, ContentsAsked DEF FeedPdu, PassOver, Begins
  <1>2. ASSUME NEW l \in Links, Silence(l)
        PROVE  \/ (srv' = srv \/ srv' = Idle) /\ UNCHANGED <<chnl, core, serial>>
               \/ Begins /\ UNCHANGED <<chnl, core>>
    <2>1. reader[l].from \in 0 .. Len(sent[l]) /\ sent[l] \in Seq(Requests)
          /\ Len(sent[l]) \in Nat
      BY DEF TypeInv, TypeOK, ReaderOk
    <2>2. reader[l].from # 0 => reader[l].from \in DOMAIN sent[l] /\ reader[l].from \in Nat
      BY <2>1
    <2>3. reader[l].from # 0 =>
            sent[l][reader[l].from] \in Requests /\ Asked(sent[l][reader[l].from])
      BY <2>1, <2>2, ElementOfSeq DEF SentInv, Asked
    <2> QED BY <1>2, <2>2, <2>3 DEF Silence, PassOver, CrcOk, Begins
  <1>3. ASSUME NEW l \in Links,
               (\E r \in Menued(l) : Send(l, r)) \/ Close(l) \/ FeedHeader(l)
               \/ \E k \in 1 .. RxMax : RxRtu(l, k)
        PROVE  srv' = srv /\ UNCHANGED <<chnl, core, serial>>
    BY <1>3 DEF Send, Close, FeedHeader, RxRtu
  <1>4. CASE Reply
    BY <1>4 DEF Reply
  <1>5. CASE UNCHANGED vars
    BY <1>5 DEF vars
  <1> QED BY <1>1, <1>2, <1>3, <1>4, <1>5 DEF Next, Receive, Serve

(* The request in hand stays the one it is.                                *)
LEMMA SameRequest ==
  ASSUME TypeOK, Unmapped \/ ReadRegister \/ WriteRegister \/ RangeOver
  PROVE  /\ srv \in HandlingRecord /\ srv.pc = "regs" /\ srv # Idle
         /\ srv'.req = srv.req
  <1>1. srv \in HandlingRecord /\ srv.pc = "regs" /\ srv # Idle
    BY DEF TypeOK, Idle, Unmapped, ReadRegister, WriteRegister, RangeOver, InRange,
           HandlingRecord
  <1>2. CASE Unmapped \/ RangeOver
    BY <1>1, <1>2 DEF Unmapped, RangeOver, HandlingRecord
  <1>3. CASE WriteRegister
    <2>1. srv' = [srv EXCEPT !.part = "status"] \/ srv' = Written(srv)
      BY <1>3 DEF WriteRegister
    <2>2. Written(srv).req = srv.req
      BY <1>1, MovesOnTypes DEF HandlingRecord
    <2> QED BY <1>1, <2>1, <2>2 DEF HandlingRecord
  <1>4. CASE ReadRegister
    BY <1>1, <1>4 DEF ReadRegister, MovesOn, WordRead, HandlingRecord
  <1> QED BY <1>1, <1>2, <1>3, <1>4

LEMMA SentStep ==
  ASSUME TypeInv, SentInv, [Next]_vars
  PROVE  SentInv'
  <1>1. ASSUME NEW m \in Links PROVE \A i \in DOMAIN sent'[m] : sent'[m][i] \in Menued(m)
    <2>1. CASE sent' = sent
      BY <2>1 DEF SentInv
    <2>2. ASSUME NEW l \in Links, NEW r \in Menued(l), Send(l, r)
          PROVE  \A i \in DOMAIN sent'[m] : sent'[m][i] \in Menued(m)
      <3>1. sent \in [Links -> Seq(Requests)] /\ r \in Requests /\ sent[m] \in Seq(Requests)
        BY MenuTypes DEF TypeInv, TypeOK
      <3>2. sent'[m] = IF m = l THEN Append(sent[m], r) ELSE sent[m]
        BY <2>2, <3>1 DEF Send
      <3>3. \A i \in DOMAIN sent[m] : sent[m][i] \in Menued(m)
        BY DEF SentInv
      <3>4. /\ Len(Append(sent[m], r)) = Len(sent[m]) + 1 /\ Len(sent[m]) \in Nat
            /\ \A i \in 1 .. Len(sent[m]) : Append(sent[m], r)[i] = sent[m][i]
            /\ Append(sent[m], r)[Len(sent[m]) + 1] = r
            /\ DOMAIN sent[m] = 1 .. Len(sent[m])
            /\ DOMAIN Append(sent[m], r) = 1 .. Len(sent[m]) + 1
        BY <3>1, AppendProperties
      <3>5. \A i \in 1 .. Len(sent[m]) + 1 : i \in 1 .. Len(sent[m]) \/ i = Len(sent[m]) + 1
        BY <3>4
      <3> QED BY <2>2, <3>2, <3>3, <3>4, <3>5
    <2>3. sent' = sent \/ \E l \in Links : \E r \in Menued(l) : Send(l, r)
      BY DEF Next, Receive, Serve, Scan, Close, FeedHeader, FeedPdu, RxRtu, Silence,
             Unmapped, ReadRegister, WriteRegister, RangeOver, Reply, ScanInput, AppRun,
             ScanOutput, linkVars, vars
    <2> QED BY <2>1, <2>2, <2>3
  <1>2. srv' # Idle => Asked(srv'.req)
    <2>1. CASE srv' = srv \/ srv' = Idle
      BY <2>1 DEF SentInv
    <2>2. CASE Begins
      BY <2>2, HandledIs DEF Begins
    <2>3. CASE Unmapped \/ ReadRegister \/ WriteRegister \/ RangeOver
      BY <2>3, SameRequest DEF SentInv, TypeInv
    <2>4. CASE Scan
      BY <2>1, <2>4 DEF Scan, ScanInput, AppRun, ScanOutput
    <2> QED BY <2>1, <2>2, <2>3, <2>4, StepKinds
  <1> QED BY <1>1, <1>2 DEF SentInv

LEMMA GoodRequest ==
  ASSUME NEW r \in Requests, Checked(r) = "go on"
  PROVE  r.fn # "unknown" /\ QuantityOk(r)
  <1>1. r.fn # "unknown"
    BY DEF Checked
  <1>2. r.fits # "short"
    BY <1>1 DEF Checked
  <1> QED BY <1>1, <1>2 DEF Checked

(* The request that the thread takes up.                                   *)
LEMMA BeginsAt ==
  ASSUME Begins
  PROVE  \E r \in Requests :
           /\ Asked(r) /\ srv'.req = r /\ srv' # Idle
           /\ srv'.words = <<>> /\ srv'.part = "data"
           /\ srv'.phase = FirstPhase(r) /\ srv'.cur = Start(r, srv'.phase)
           /\ srv'.pc = "regs" =>
                Checked(r) = "go on" /\ srv'.end = End(r, srv'.phase)
           /\ serial' = IF srv'.pc = "regs" /\ srv'.phase = "write"
                        THEN serial + 1 ELSE serial
  <1>1. PICK l \in Links, r \in Requests, id \in Nat : Handle(l, r, id) /\ Asked(r)
    BY DEF Begins
  <1>2. srv'.req = r /\ srv' # Idle
    BY <1>1, HandledIs
  <1>3. /\ srv'.words = <<>> /\ srv'.part = "data" /\ srv'.phase = FirstPhase(r)
        /\ srv'.cur = Start(r, FirstPhase(r)) /\ srv'.end = End(r, FirstPhase(r))
        /\ srv'.pc = IF Checked(r) = "go on" THEN "regs" ELSE "reply"
        /\ serial' = IF Checked(r) = "go on" /\ FirstPhase(r) = "write"
                     THEN serial + 1 ELSE serial
    BY <1>1 DEF Handle
  <1> QED BY <1>1, <1>2, <1>3

(* A step of the loop that reads, and one that writes.                     *)
LEMMA ReadsWord ==
  ASSUME TypeOK, ReadRegister
  PROVE  /\ srv.phase = "read" /\ srv.cur <= srv.end /\ Here \in DOMAIN RegMap
         /\ srv'.pc = srv.pc /\ srv'.phase = srv.phase /\ srv'.end = srv.end
         /\ \/ /\ RegMap[Here].status /\ srv'.part = "status"
               /\ srv'.cur = srv.cur /\ srv'.words = srv.words
            \/ /\ srv'.part = "data" /\ srv'.cur = (srv.cur + 1) % AddrSpace
               /\ \E w \in Words :
                    /\ srv'.words = Append(srv.words, w)
                    /\ ~RegMap[Here].alarm /\ srv.part = "data"
                         /\ TypeOf(srv.req.fn) \in {"holding", "input"} =>
                       w = DataBits(RegMap[Here])
  <1> DEFINE reg == RegMap[Here]
             bit == TypeOf(srv.req.fn) \in {"coil", "discrete"}
             Shown(w) == IF bit /\ w # 0 THEN 1 ELSE w
  <1>1. srv \in HandlingRecord
    BY SameRequest
  <1>2. /\ srv.phase = "read" /\ srv.cur <= srv.end /\ Here \in DOMAIN RegMap
    BY DEF ReadRegister, InRange
  <1>3. 0 .. DataMod - 1 \subseteq Words /\ 1 \in Words
    BY SizesHold DEF Sizes, Words
  <1>4. DataBits(reg) \in 0 .. DataMod - 1
    <2>1. CASE reg.data /\ reg.num \in Channels
      <3>1. chnl[reg.num].raw_value_queued \in Nat
        BY <2>1 DEF ChannelRecord, TypeOK
      <3>2. chnl[reg.num].raw_value_queued % DataMod \in 0 .. DataMod - 1
        BY <3>1, SizesHold, Modulo DEF Sizes
      <3> QED BY <2>1, <3>2 DEF DataBits
    <2>2. CASE ~(reg.data /\ reg.num \in Channels)
      BY <2>2, SizesHold DEF DataBits, Sizes
    <2> QED BY <2>1, <2>2
  <1>5. srv.half + StatusBits(reg) \in Words
    <2>1. StatusBits(reg) \in {0, DataMod}
      BY DEF StatusBits
    <2>2. srv.half \in 0 .. DataMod - 1
      BY <1>1 DEF HandlingRecord
    <2> QED BY <2>1, <2>2, SizesHold DEF Sizes, Words
  <1>6. \/ reg.status /\ srv' = [srv EXCEPT !.part = "status", !.half = DataBits(reg)]
        \/ \E w \in Words : /\ srv' = MovesOn(WordRead(srv, w))
                            /\ ~reg.alarm /\ srv.part = "data" => w = DataBits(reg)
    <2>1. CASE reg.alarm /\ \E state \in 0 .. DataMod - 1 :
                              srv' = MovesOn(WordRead(srv, state))
      BY <1>3, <2>1
    <2>2. CASE ~reg.alarm /\ srv.part = "data" /\ ~reg.status
               /\ srv' = MovesOn(WordRead(srv, DataBits(reg)))
      BY <1>3, <1>4, <2>2
    <2>3. CASE ~reg.alarm /\ srv.part = "data" /\ reg.status
               /\ srv' = [srv EXCEPT !.part = "status", !.half = DataBits(reg)]
      BY <2>3
    <2>4. CASE ~reg.alarm /\ srv.part = "status"
               /\ srv' = MovesOn(WordRead(srv, srv.half + StatusBits(reg)))
      BY <1>5, <2>4
    <2> QED BY <2>1, <2>2, <2>3, <2>4 DEF ReadRegister
  <1>7. ASSUME NEW w \in Words, srv' = MovesOn(WordRead(srv, w))
        PROVE  /\ srv'.pc = srv.pc /\ srv'.phase = srv.phase /\ srv'.end = srv.end
               /\ srv'.part = "data" /\ srv'.cur = (srv.cur + 1) % AddrSpace
               /\ srv'.words = Append(srv.words, Shown(w)) /\ Shown(w) \in Words
    <2> DEFINE read == WordRead(srv, w)
    <2>1. /\ read \in HandlingRecord /\ read.pc = srv.pc /\ read.phase = srv.phase
          /\ read.end = srv.end /\ read.cur = srv.cur
      BY <1>1, WordReadTypes
    <2>2. read.words = Append(srv.words, Shown(w))
      BY <1>1 DEF WordRead, HandlingRecord
    <2> HIDE DEF read
    <2>3. /\ MovesOn(read).cur = (read.cur + 1) % AddrSpace
          /\ MovesOn(read).pc = read.pc /\ MovesOn(read).phase = read.phase
          /\ MovesOn(read).end = read.end
      BY <2>1, MovesOnTypes
    <2>4. MovesOn(read).part = "data" /\ MovesOn(read).words = read.words
      BY <2>1 DEF MovesOn, HandlingRecord
    <2>5. srv' = MovesOn(read)
      BY <1>7 DEF read
    <2> QED BY <1>3, <2>1, <2>2, <2>3, <2>4, <2>5
  <1>8. CASE reg.status /\ srv' = [srv EXCEPT !.part = "status", !.half = DataBits(reg)]
    <2>1. /\ srv'.pc = srv.pc /\ srv'.phase = srv.phase /\ srv'.end = srv.end
          /\ srv'.part = "status" /\ srv'.cur = srv.cur /\ srv'.words = srv.words
      BY <1>1, <1>8 DEF HandlingRecord
    <2> QED BY <1>2, <1>8, <2>1
  <1>9. CASE \E w \in Words : /\ srv' = MovesOn(WordRead(srv, w))
                              /\ ~reg.alarm /\ srv.part = "data" => w = DataBits(reg)
    <2>1. PICK w \in Words : /\ srv' = MovesOn(WordRead(srv, w))
                             /\ ~reg.alarm /\ srv.part = "data" => w = DataBits(reg)
      BY <1>9
    <2>2. TypeOf(srv.req.fn) \in {"holding", "input"} => Shown(w) = w
      OBVIOUS
    <2> HIDE DEF reg, bit, Shown
    <2>3. ~reg.alarm /\ srv.part = "data" /\ TypeOf(srv.req.fn) \in {"holding", "input"}
            => Shown(w) = DataBits(reg)
      BY <2>1, <2>2
    <2>4. /\ srv'.pc = srv.pc /\ srv'.phase = srv.phase /\ srv'.end = srv.end
          /\ srv'.part = "data" /\ srv'.cur = (srv.cur + 1) % AddrSpace
          /\ srv'.words = Append(srv.words, Shown(w)) /\ Shown(w) \in Words
      BY <1>7, <2>1
    <2> QED BY <1>2, <2>3, <2>4 DEF reg
  <1> QED BY <1>6, <1>8, <1>9

LEMMA WritesWord ==
  ASSUME TypeOK, WriteRegister
  PROVE  /\ srv.phase = "write" /\ srv.cur <= srv.end /\ Here \in DOMAIN RegMap
         /\ srv'.pc = srv.pc /\ srv'.phase = srv.phase /\ srv'.end = srv.end
         /\ srv'.words = srv.words
         /\ \/ RegMap[Here].status /\ srv'.part = "status" /\ srv'.cur = srv.cur
            \/ srv'.part = "data" /\ srv'.cur = (srv.cur + 1) % AddrSpace
  <1>1. srv \in HandlingRecord
    BY SameRequest
  <1>2. /\ srv.phase = "write" /\ srv.cur <= srv.end /\ Here \in DOMAIN RegMap
    BY DEF WriteRegister, InRange
  <1>3. \/ RegMap[Here].status /\ srv' = [srv EXCEPT !.part = "status"]
        \/ srv' = Written(srv)
    BY DEF WriteRegister
  <1>4. CASE RegMap[Here].status /\ srv' = [srv EXCEPT !.part = "status"]
    BY <1>1, <1>2, <1>4 DEF HandlingRecord
  <1>5. CASE srv' = Written(srv)
    <2> DEFINE moved == MovesOn(srv)
    <2>1. /\ moved \in HandlingRecord /\ moved.cur = (srv.cur + 1) % AddrSpace
          /\ moved.pc = srv.pc /\ moved.phase = srv.phase /\ moved.end = srv.end
          /\ Written(srv) = [moved EXCEPT !.wrote = srv.wrote \cup {srv.cur}]
      BY <1>1, MovesOnTypes
    <2>2. moved.part = "data" /\ moved.words = srv.words
      BY <1>1 DEF MovesOn, HandlingRecord
    <2> HIDE DEF moved
    <2> QED BY <1>2, <1>5, <2>1, <2>2 DEF HandlingRecord
  <1> QED BY <1>3, <1>4, <1>5

LEMMA PhaseStep ==
  ASSUME TypeInv, SentInv, PhaseInv, [Next]_vars
  PROVE  PhaseInv'
  <1>1. CASE srv' = srv \/ srv' = Idle
    BY <1>1 DEF PhaseInv, Here
  <1>2. CASE Begins
    <2>1. PICK r \in Requests :
            /\ srv'.req = r /\ srv'.phase = FirstPhase(r) /\ srv'.part = "data"
            /\ srv'.pc = "regs" => Checked(r) = "go on" /\ srv'.end = End(r, srv'.phase)
      BY <1>2, BeginsAt
    <2>2. srv'.phase = "write" => r.fn \in Writes
      BY <2>1 DEF FirstPhase
    <2>3. srv'.phase = "read" /\ srv'.pc = "regs" => r.fn \in Reads
      <3>1. srv'.phase = "read" => r.fn \notin Writes
        BY <2>1 DEF FirstPhase
      <3>2. r.fn \in Reads \cup Writes \cup {"unknown"}
        BY DEF Requests
      <3> QED BY <2>1, <3>1, <3>2, GoodRequest
    <2> QED BY <2>1, <2>2, <2>3 DEF PhaseInv
  <1>3. CASE Unmapped \/ ReadRegister \/ WriteRegister \/ RangeOver
    <2>1. srv \in HandlingRecord /\ srv.pc = "regs" /\ srv # Idle /\ srv'.req = srv.req
      BY <1>3, SameRequest DEF TypeInv
    <2>2. /\ srv.phase = "write" => srv.req.fn \in Writes
          /\ Checked(srv.req) = "go on" /\ srv.end = End(srv.req, srv.phase)
          /\ srv.phase = "read" => srv.req.fn \in Reads
          /\ srv.part = "status" =>
               srv.cur <= srv.end /\ Here \in DOMAIN RegMap /\ RegMap[Here].status
          /\ srv.phase \in {"read", "write"} /\ srv.part \in {"data", "status"}
      BY <2>1 DEF PhaseInv, HandlingRecord
    <2>3. CASE Unmapped
      <3>1. srv'.pc = "reply" /\ srv'.phase = srv.phase
        BY <2>1, <2>3 DEF Unmapped, HandlingRecord
      <3> QED BY <2>1, <2>2, <3>1 DEF PhaseInv
    <2>4. CASE RangeOver
      <3>1. CASE srv' = [srv EXCEPT !.pc = "reply"]
        <4>1. srv'.pc = "reply" /\ srv'.phase = srv.phase
          BY <2>1, <3>1 DEF HandlingRecord
        <4> QED BY <2>1, <2>2, <4>1 DEF PhaseInv
      <3>2. CASE /\ srv.req.fn \in Reads /\ srv.part = "data"
                 /\ srv' = [srv EXCEPT !.phase = "read", !.cur = Start(srv.req, "read"),
                                       !.end = End(srv.req, "read"), !.ndx = 1]
        <4>1. srv'.phase = "read" /\ srv'.end = End(srv.req, "read") /\ srv'.part = "data"
          BY <2>1, <3>2 DEF HandlingRecord
        <4> QED BY <2>1, <2>2, <3>2, <4>1 DEF PhaseInv
      <3>3. srv.part = "data"
        <4>1. ~(srv.cur <= srv.end)
          BY <2>1, <2>4, AddressesAreNat DEF RangeOver, HandlingRecord
        <4> QED BY <2>2, <4>1
      <3> QED BY <2>4, <3>1, <3>2, <3>3 DEF RangeOver
    <2>5. CASE ReadRegister \/ WriteRegister
      <3>1. /\ srv'.phase = srv.phase /\ srv'.pc = srv.pc /\ srv'.end = srv.end
            /\ \/ /\ RegMap[Here].status /\ srv'.part = "status" /\ srv'.cur = srv.cur
                  /\ Here \in DOMAIN RegMap /\ srv.cur <= srv.end
               \/ srv'.part = "data"
        BY <2>5, ReadsWord, WritesWord DEF TypeInv
      <3>2. srv'.part = "status" => Here' = Here
        BY <2>1, <3>1 DEF Here
      <3> QED BY <2>1, <2>2, <3>1, <3>2 DEF PhaseInv
    <2> QED BY <1>3, <2>3, <2>4, <2>5
  <1>4. CASE Scan
    BY <1>1, <1>4 DEF Scan, ScanInput, AppRun, ScanOutput
  <1> QED BY <1>1, <1>2, <1>3, <1>4, StepKinds

(* What the scan does to one channel.                                      *)
LEMMA ScansInput ==
  ASSUME TypeOK, ScanInput
  PROVE  /\ core.at \in DOMAIN Inputs /\ Inputs[core.at] \in InputSet
         /\ core'.version = core.version /\ core'.at = core.at + 1
         /\ \A c \in Channels :
              /\ chnl'[c].raw_value_queued = chnl[c].raw_value_queued
              /\ chnl'[c].by = chnl[c].by
              /\ c # Inputs[core.at] => chnl'[c] = chnl[c]
              /\ c = Inputs[core.at] =>
                   /\ chnl'[c].taken = IF chnl[c].raw_value_avail THEN chnl[c].by
                                       ELSE chnl[c].taken
                   /\ chnl'[c].raw_value_avail = FALSE
  <1>1. /\ Inputs \in Seq(Channels) /\ Len(Inputs) \in Nat /\ Len(Outputs) \in Nat
        /\ DOMAIN Inputs = 1 .. Len(Inputs)
        /\ core \in [at : 1 .. Len(Inputs) + 1 + Len(Outputs), version : 0 .. MaxVersion]
        /\ chnl \in [Channels -> ChannelRecord] /\ core.at <= Len(Inputs)
    BY SlaveAssumption DEF TypeOK, ScanInput
  <1>2. core.at \in DOMAIN Inputs /\ Scanned = Inputs[core.at] /\ Scanned \in Channels
    BY <1>1, ElementOfSeq DEF Scanned
  <1>3. Inputs[core.at] \in InputSet
    BY <1>1, <1>2 DEF InputSet
  <1>4. core'.version = core.version /\ core'.at = core.at + 1
    BY <1>1 DEF ScanInput, NextTurn
  <1> DEFINE s == Scanned
             new == [chnl[s] EXCEPT !.raw_value_avail = FALSE,
                                    !.taken = IF chnl[s].raw_value_avail
                                              THEN chnl[s].by ELSE @]
  <1>5. chnl' = [chnl EXCEPT ![s] = new]
    BY <1>1, <1>2 DEF ScanInput, ChannelRecord
  <1>6. chnl[s] \in ChannelRecord
    BY <1>1, <1>2
  <1>7. /\ new.raw_value_queued = chnl[s].raw_value_queued /\ new.by = chnl[s].by
        /\ new.taken = IF chnl[s].raw_value_avail THEN chnl[s].by ELSE chnl[s].taken
        /\ new.raw_value_avail = FALSE
    BY <1>6 DEF ChannelRecord
  <1> HIDE DEF new, s
  <1>8. s = Inputs[core.at]
    BY <1>2 DEF s
  <1> QED BY <1>1, <1>2, <1>3, <1>4, <1>5, <1>7, <1>8

LEMMA ScansOutput ==
  ASSUME TypeOK, ScanOutput
  PROVE  LET k == core.at - Len(Inputs) - 1 IN
         /\ k \in DOMAIN Outputs /\ core'.version = core.version
         /\ core'.at = 1 \/ core'.at = core.at + 1
         /\ \A c \in Channels :
              /\ chnl'[c].by = chnl[c].by /\ chnl'[c].taken = chnl[c].taken
              /\ chnl'[c].raw_value_avail = chnl[c].raw_value_avail
              /\ chnl'[c].raw_value_queued =
                   IF c = Outputs[k] THEN core.version ELSE chnl[c].raw_value_queued
  <1> DEFINE k == core.at - Len(Inputs) - 1
  <1>1. /\ Outputs \in Seq(Channels) /\ Len(Inputs) \in Nat /\ Len(Outputs) \in Nat
        /\ DOMAIN Outputs = 1 .. Len(Outputs)
        /\ core \in [at : 1 .. Len(Inputs) + 1 + Len(Outputs), version : 0 .. MaxVersion]
        /\ chnl \in [Channels -> ChannelRecord] /\ core.at > Len(Inputs) + 1
    BY SlaveAssumption DEF TypeOK, ScanOutput
  <1>2. k \in DOMAIN Outputs /\ Scanned = Outputs[k] /\ Scanned \in Channels
    BY <1>1, ElementOfSeq DEF Scanned
  <1>4. core'.version = core.version /\ (core'.at = 1 \/ core'.at = core.at + 1)
    BY <1>1 DEF ScanOutput, NextTurn
  <1>5. chnl' = [chnl EXCEPT ![Scanned].raw_value_queued = core.version]
    BY DEF ScanOutput
  <1> HIDE DEF k
  <1>6. \A c \in Channels :
              /\ chnl'[c].by = chnl[c].by /\ chnl'[c].taken = chnl[c].taken
              /\ chnl'[c].raw_value_avail = chnl[c].raw_value_avail
              /\ chnl'[c].raw_value_queued =
                   IF c = Outputs[k] THEN core.version ELSE chnl[c].raw_value_queued
    BY <1>1, <1>2, <1>5 DEF ChannelRecord
  <1> QED BY <1>2, <1>4, <1>6 DEF k

LEMMA AppRuns ==
  ASSUME TypeOK, AppRun
  PROVE  /\ core.at = Len(Inputs) + 1 /\ chnl' = chnl
         /\ core'.version \in Nat /\ core'.version >= core.version
         /\ core'.at = 1 \/ core'.at = core.at + 1
  <1>1. /\ Len(Inputs) \in Nat /\ Len(Outputs) \in Nat
        /\ core \in [at : 1 .. Len(Inputs) + 1 + Len(Outputs), version : 0 .. MaxVersion]
    BY SlaveAssumption DEF TypeOK
  <1>2. core.version \in Nat
    BY <1>1, SizesHold DEF Sizes
  <1>3. /\ core.at = Len(Inputs) + 1 /\ chnl' = chnl /\ core'.at = NextTurn
        /\ core'.version \in {core.version, core.version + 1}
    BY DEF AppRun
  <1> QED BY <1>1, <1>2, <1>3 DEF NextTurn

(* What a write does to the channels: the data queue a value for that of   *)
(* the register, the status leaves the values alone.                       *)
LEMMA WritesChannel ==
  ASSUME TypeOK, WriteRegister, NEW c \in Channels
  PROVE  LET reg == RegMap[Here] IN
         /\ chnl'[c].taken = chnl[c].taken
         /\ \/ /\ reg.data /\ reg.num = c
               /\ chnl'[c].by = serial /\ chnl'[c].raw_value_avail = TRUE
            \/ /\ ~(srv.part = "data" /\ reg.data /\ reg.num = c)
               /\ chnl'[c].raw_value_queued = chnl[c].raw_value_queued
               /\ chnl'[c].by = chnl[c].by
               /\ chnl'[c].raw_value_avail = chnl[c].raw_value_avail
  <1> DEFINE reg == RegMap[Here]
  <1>1. chnl \in [Channels -> ChannelRecord]
    BY DEF TypeOK
  <1>2. PICK v \in Value(srv.req) :
           \/ /\ srv.part = "data"
              /\ chnl' = (IF reg.data /\ reg.num \in Channels
                          THEN Queued(reg.num, v % DataMod) ELSE chnl)
           \/ /\ srv.part = "status"
              /\ chnl' = (IF reg.num \in Channels
                          THEN [chnl EXCEPT ![reg.num].sensor_fault = v \div DataMod = 1]
                          ELSE chnl)
    BY DEF WriteRegister
  <1> HIDE DEF reg
  <1>3. CASE reg.data /\ reg.num \in Channels /\ chnl' = Queued(reg.num, v % DataMod)
    <2>1. reg.num = c => /\ chnl'[c].taken = chnl[c].taken /\ chnl'[c].by = serial
                         /\ chnl'[c].raw_value_avail = TRUE
      BY <1>1, <1>3 DEF Queued, ChannelRecord
    <2>2. reg.num # c => chnl'[c] = chnl[c]
      BY <1>1, <1>3 DEF Queued, ChannelRecord
    <2> QED BY <1>3, <2>1, <2>2 DEF reg
  <1>4. CASE /\ ~(srv.part = "data" /\ reg.data /\ reg.num \in Channels)
             /\ \/ chnl' = chnl
                \/ chnl' = [chnl EXCEPT ![reg.num].sensor_fault = v \div DataMod = 1]
    <2>1. /\ chnl'[c].taken = chnl[c].taken /\ chnl'[c].by = chnl[c].by
          /\ chnl'[c].raw_value_queued = chnl[c].raw_value_queued
          /\ chnl'[c].raw_value_avail = chnl[c].raw_value_avail
      BY <1>1, <1>4 DEF ChannelRecord
    <2>2. ~(srv.part = "data" /\ reg.data /\ reg.num = c)
      BY <1>4
    <2> QED BY <2>1, <2>2 DEF reg
  <1>5. \/ reg.data /\ reg.num \in Channels /\ chnl' = Queued(reg.num, v % DataMod)
        \/ /\ ~(srv.part = "data" /\ reg.data /\ reg.num \in Channels)
           /\ \/ chnl' = chnl
              \/ chnl' = [chnl EXCEPT ![reg.num].sensor_fault = v \div DataMod = 1]
    BY <1>2
  <1> QED BY <1>3, <1>4, <1>5

(* No other step of the thread touches the channels.                       *)
LEMMA OnlyWrites ==
  ASSUME TypeOK, Unmapped \/ ReadRegister \/ WriteRegister \/ RangeOver
  PROVE  /\ core' = core /\ serial' = serial
         /\ ~WriteRegister => chnl' = chnl
  BY DEF Unmapped, ReadRegister, WriteRegister, RangeOver

LEMMA TakenStep ==
  ASSUME TypeInv, SentInv, TakenInv, [Next]_vars
  PROVE  TakenInv'
  <1> SUFFICES ASSUME NEW c \in Channels
               PROVE  /\ chnl'[c].by <= serial' /\ chnl'[c].taken <= chnl'[c].by
                      /\ ~chnl'[c].raw_value_avail => chnl'[c].taken = chnl'[c].by
    BY DEF TakenInv
  <1>1. /\ TypeOK /\ serial \in Nat /\ chnl[c].by \in Nat /\ chnl[c].taken \in Nat
        /\ chnl[c].by <= serial /\ chnl[c].taken <= chnl[c].by
        /\ ~chnl[c].raw_value_avail => chnl[c].taken = chnl[c].by
        /\ chnl[c].raw_value_avail \in BOOLEAN
    BY DEF TypeInv, TypeOK, ChannelRecord, TakenInv
  <1>2. CASE chnl' = chnl /\ (serial' = serial \/ serial' = serial + 1)
    <2>1. chnl[c].by <= serial'
      BY <1>1, <1>2
    <2> QED BY <1>1, <1>2, <2>1, Zenon
  <1>3. CASE Begins /\ UNCHANGED <<chnl, core>>
    BY <1>2, <1>3, BeginsAt
  <1>4. CASE WriteRegister
    <2>1. serial' = serial
      BY <1>1, <1>4, OnlyWrites
    <2>2. /\ chnl'[c].taken = chnl[c].taken
          /\ \/ chnl'[c].by = serial /\ chnl'[c].raw_value_avail = TRUE
             \/ chnl'[c].by = chnl[c].by /\ chnl'[c].raw_value_avail = chnl[c].raw_value_avail
      BY <1>1, <1>4, WritesChannel
    <2>3. chnl[c].taken <= serial /\ serial <= serial
      BY <1>1
    <2>4. CASE chnl'[c].by = serial /\ chnl'[c].raw_value_avail = TRUE
      <3>1. chnl'[c].raw_value_avail
        BY <2>4
      <3>2. chnl'[c].by <= serial'
        BY <2>1, <2>3, <2>4
      <3>3. chnl'[c].taken <= chnl'[c].by
        BY <2>2, <2>3, <2>4
      <3> QED BY <3>1, <3>2, <3>3, Zenon
    <2>5. CASE chnl'[c].by = chnl[c].by /\ chnl'[c].raw_value_avail = chnl[c].raw_value_avail
      BY <1>1, <2>1, <2>2, <2>5, Zenon
    <2> QED BY <2>2, <2>4, <2>5, Zenon
  <1>5. CASE Unmapped \/ ReadRegister \/ RangeOver
    BY <1>2, <1>5 DEF Unmapped, ReadRegister, RangeOver
  <1>6. CASE Scan
    <2>1. CASE ScanInput
      <3>1. serial' = serial /\ chnl'[c].by = chnl[c].by
        BY <1>1, <2>1, ScansInput DEF ScanInput
      <3>2. CASE c # Inputs[core.at]
        <4>1. chnl'[c] = chnl[c]
          BY <1>1, <2>1, <3>2, ScansInput
        <4> QED BY <1>1, <3>1, <4>1, Zenon
      <3>3. CASE c = Inputs[core.at]
        <4>1. chnl'[c].taken = IF chnl[c].raw_value_avail THEN chnl[c].by ELSE chnl[c].taken
          BY <1>1, <2>1, <3>3, ScansInput
        <4>2. chnl'[c].taken = chnl[c].by
          BY <1>1, <4>1, Zenon
        <4>3. chnl'[c].by <= serial' /\ chnl'[c].taken <= chnl'[c].by
          BY <1>1, <3>1, <4>2
        <4> QED BY <3>1, <4>2, <4>3, Zenon
      <3> QED BY <3>2, <3>3
    <2>2. CASE ScanOutput
      BY <1>1, <2>2, ScansOutput DEF ScanOutput
    <2>3. CASE AppRun
      BY <1>2, <2>3 DEF AppRun
    <2> QED BY <1>6, <2>1, <2>2, <2>3 DEF Scan
  <1> QED BY <1>2, <1>3, <1>4, <1>5, <1>6, StepKinds

(* A loop over a plain range.                                              *)
LEMMA ReadRange ==
  ASSUME NEW r \in Requests, Checked(r) = "go on", r.fn \in Reads, Plain(r, "read")
  PROVE  /\ Start(r, "read") \in Nat /\ NRegs(r, "read") \in Nat
         /\ Start(r, "read") + NRegs(r, "read") < AddrSpace
         /\ End(r, "read") = Start(r, "read") + NRegs(r, "read") - 1
  <1> DEFINE start == Start(r, "read")
             n == NRegs(r, "read")
  <1>1. start \in Nat /\ n \in Nat
    <2>1. start \in Addresses /\ n \in Nat
      BY RequestTypes, Zenon
    <2> QED BY <2>1, AddressesAreNat, Zenon
  <1>2. n >= 1
    <2>1. Quantity(r) >= 1
      BY GoodRequest DEF QuantityOk
    <2> QED BY <2>1 DEF NRegs
  <1>3. start + n < AddrSpace /\ AddrSpace \in Nat
    BY SizesHold DEF Plain, Sizes
  <1> HIDE DEF start, n
  <1>4. start + n - 1 \in 0 .. AddrSpace - 1
    BY <1>1, <1>2, <1>3, LoopBegin, Zenon
  <1>5. (start + n - 1) % AddrSpace = start + n - 1
    BY <1>3, <1>4, SmallModulo
  <1> QED BY <1>1, <1>3, <1>5 DEF End, start, n

(* Only what a register stands for is set.                                 *)
LEMMA NotSettable ==
  ASSUME TypeOK, PhaseInv, WriteRegister, NEW c \in Channels, ~Settable(c)
  PROVE  chnl'[c].raw_value_queued = chnl[c].raw_value_queued
  <1>1. srv.req.fn \in Writes /\ Here \in DOMAIN RegMap
    BY SameRequest, WritesWord DEF PhaseInv
  <1>2. Here[1] \in {"coil", "holding"}
    BY <1>1 DEF Here, TypeOf, Writes, Singles, Multiples
  <1>3. RegMap[Here].num # c
    BY <1>1, <1>2 DEF Settable
  <1> QED BY <1>3, WritesChannel

LEMMA OutputChannels ==
  ASSUME NEW n \in DOMAIN Outputs
  PROVE  /\ Outputs[n] \in Channels /\ n \in Nat /\ n >= 1 /\ n <= Len(Outputs)
         /\ Outputs[n] \notin InputSet
         /\ \A m \in DOMAIN Outputs : Outputs[m] = Outputs[n] => m = n
  <1>1. Outputs \in Seq(Channels) /\ DOMAIN Outputs = 1 .. Len(Outputs)
        /\ Len(Outputs) \in Nat
    BY SlaveAssumption
  <1>2. Outputs[n] \in OutputSet
    BY <1>1 DEF OutputSet
  <1> QED BY <1>1, <1>2, ElementOfSeq, SlaveAssumption DEF Channels

LEMMA CoreTypes ==
  ASSUME TypeOK
  PROVE  /\ Len(Inputs) \in Nat /\ Len(Outputs) \in Nat
         /\ core.at \in Nat /\ core.at >= 1 /\ core.at <= Len(Inputs) + 1 + Len(Outputs)
         /\ core.version \in Nat
         /\ \A c \in Channels : /\ chnl[c].raw_value_queued \in Nat /\ chnl[c].by \in Nat
                                /\ chnl[c].taken \in Nat
  <1>1. /\ Len(Inputs) \in Nat /\ Len(Outputs) \in Nat
        /\ core \in [at : 1 .. Len(Inputs) + 1 + Len(Outputs), version : 0 .. MaxVersion]
        /\ chnl \in [Channels -> ChannelRecord]
    BY SlaveAssumption DEF TypeOK
  <1>2. /\ core.at \in 1 .. Len(Inputs) + 1 + Len(Outputs)
        /\ core.version \in 0 .. MaxVersion /\ MaxVersion \in Nat
    BY <1>1, SizesHold DEF Sizes
  <1>3. \A c \in Channels : /\ chnl[c].raw_value_queued \in Nat /\ chnl[c].by \in Nat
                            /\ chnl[c].taken \in Nat
    BY <1>1 DEF ChannelRecord
  <1> QED BY <1>1, <1>2, <1>3

(* Outputs and the application only go forward, in the order of the scan.  *)
LEMMA OutputStep ==
  ASSUME TypeInv, SentInv, PhaseInv, OutputInv, [Next]_vars
  PROVE  /\ OutputInv'
         /\ core'.version >= core.version
         /\ \A n \in DOMAIN Outputs : ~Settable(Outputs[n]) =>
              chnl[Outputs[n]].raw_value_queued <= chnl'[Outputs[n]].raw_value_queued
  <1> DEFINE Free(n) == n \in DOMAIN Outputs /\ ~Settable(Outputs[n])
             q(n) == chnl[Outputs[n]].raw_value_queued
             p(n) == chnl'[Outputs[n]].raw_value_queued
             base == Len(Inputs) + 1
             at == core.at
             ver == core.version
             next_at == core'.at
             next_ver == core'.version
  <1>1. /\ TypeOK /\ base \in Nat /\ at \in Nat /\ at >= 1 /\ ver \in Nat
    BY CoreTypes DEF TypeInv
  <1>2. ASSUME NEW n, Free(n)
        PROVE  /\ q(n) \in Nat /\ n \in Nat /\ n >= 1
               /\ q(n) <= ver /\ (at > base + n => q(n) = ver)
               /\ \A m : Free(m) /\ m < n => q(n) <= q(m)
    BY <1>1, <1>2, CoreTypes, OutputChannels DEF OutputInv
  <1>3. ASSUME next_ver >= ver,
               \A n : Free(n) =>
                 /\ q(n) <= p(n) /\ p(n) <= next_ver
                 /\ next_at > base + n => p(n) = next_ver
                 /\ \A m : Free(m) /\ m < n => p(n) <= p(m)
        PROVE  /\ OutputInv' /\ next_ver >= ver
               /\ \A n \in DOMAIN Outputs : ~Settable(Outputs[n]) => q(n) <= p(n)
    <2>1. ASSUME NEW n \in DOMAIN Outputs, ~Settable(Outputs[n])
          PROVE  /\ q(n) <= p(n) /\ p(n) <= next_ver
                 /\ next_at > base + n => p(n) = next_ver
                 /\ \A m \in DOMAIN Outputs : m < n /\ ~Settable(Outputs[m]) => p(n) <= p(m)
      BY <1>3, <2>1, Zenon
    <2>2. OutputInv'
      BY <2>1 DEF OutputInv
    <2> QED BY <1>3, <2>1, <2>2
  <1>4. ASSUME \A n : Free(n) => p(n) = q(n),
               core' = core \/ (at <= base /\ next_at <= base + 1 /\ next_at \in Nat
                                /\ next_ver \in Nat /\ next_ver >= ver)
        PROVE  /\ OutputInv' /\ next_ver >= ver
               /\ \A n \in DOMAIN Outputs : ~Settable(Outputs[n]) => q(n) <= p(n)
    <2>1. next_ver \in Nat /\ next_ver >= ver
      BY <1>1, <1>4
    <2>2. ASSUME NEW n, Free(n)
          PROVE  /\ q(n) <= p(n) /\ p(n) <= next_ver
                 /\ next_at > base + n => p(n) = next_ver
                 /\ \A m : Free(m) /\ m < n => p(n) <= p(m)
      <3>1. p(n) = q(n) /\ q(n) \in Nat /\ q(n) <= ver /\ n \in Nat /\ n >= 1
            /\ (at > base + n => q(n) = ver)
        BY <1>2, <1>4, <2>2
      <3>2. \A m : Free(m) /\ m < n => p(n) <= p(m)
        BY <1>2, <1>4, <2>2
      <3>3. core' = core => next_at = at /\ next_ver = ver
        OBVIOUS
      <3> HIDE DEF Free, q, p, base, at, ver, next_at, next_ver
      <3>4. next_at > base + n => p(n) = next_ver
        BY <1>1, <1>4, <3>1, <3>3
      <3> QED BY <1>1, <2>1, <3>1, <3>2, <3>4
    <2> HIDE DEF Free, q, p, base, at, ver, next_at, next_ver
    <2> QED BY <1>3, <2>1, <2>2
  <1>5. CASE ScanOutput
    <2> DEFINE k == core.at - Len(Inputs) - 1
    <2>1. /\ k \in DOMAIN Outputs /\ next_ver = ver
          /\ next_at = 1 \/ next_at = at + 1
          /\ \A c \in Channels :
              chnl'[c].raw_value_queued =
                   IF c = Outputs[k] THEN core.version ELSE chnl[c].raw_value_queued
      BY <1>1, <1>5, ScansOutput
    <2>2. \A n : Free(n) => p(n) = IF n = k THEN ver ELSE q(n)
      BY <2>1, OutputChannels
    <2>3. k \in Nat /\ k >= 1 /\ at = base + k
      BY <1>1, <2>1, OutputChannels
    <2> HIDE DEF Free, q, p, base, at, ver, next_at, next_ver, k
    <2>4. ASSUME NEW n, Free(n)
          PROVE  /\ q(n) <= p(n) /\ p(n) <= next_ver
                 /\ next_at > base + n => p(n) = next_ver
                 /\ \A m : Free(m) /\ m < n => p(n) <= p(m)
      <3>1. /\ p(n) = (IF n = k THEN ver ELSE q(n)) /\ q(n) \in Nat /\ n \in Nat /\ n >= 1
            /\ q(n) <= ver /\ (at > base + n => q(n) = ver)
        BY <1>2, <2>2, <2>4
      <3>2. q(n) <= p(n) /\ p(n) <= next_ver
        BY <1>1, <2>1, <3>1
      <3>3. next_at > base + n => p(n) = next_ver
        BY <1>1, <2>1, <2>3, <3>1
      <3>4. ASSUME NEW m, Free(m), m < n PROVE p(n) <= p(m)
        <4>1. /\ p(m) = (IF m = k THEN ver ELSE q(m)) /\ q(m) \in Nat /\ m \in Nat
              /\ (at > base + m => q(m) = ver) /\ q(n) <= q(m) /\ q(m) <= ver
          BY <1>2, <2>2, <2>4, <3>4
        <4> QED BY <1>1, <2>3, <3>1, <3>4, <4>1
      <3> QED BY <3>2, <3>3, <3>4
    <2>5. next_ver >= ver
      BY <1>1, <2>1
    <2> QED BY <1>3, <2>4, <2>5 DEF q, p, ver, next_ver
  <1>6. CASE AppRun
    <2>1. \A n : Free(n) => p(n) = q(n)
      BY <1>1, <1>6, AppRuns
    <2>2. at <= base /\ next_at <= base + 1 /\ next_at \in Nat
          /\ next_ver \in Nat /\ next_ver >= ver
      BY <1>1, <1>6, AppRuns
    <2> QED BY <1>4, <2>1, <2>2
  <1>7. CASE ScanInput
    <2>1. \A n : Free(n) => p(n) = q(n)
      BY <1>1, <1>7, ScansInput, OutputChannels
    <2>2. at <= base /\ next_at <= base + 1 /\ next_at \in Nat
          /\ next_ver \in Nat /\ next_ver >= ver
      <3>1. core'.version = core.version /\ core'.at = core.at + 1
        BY <1>1, <1>7, ScansInput
      <3>2. core.at <= Len(Inputs) /\ Len(Inputs) \in Nat
        BY <1>1, <1>7, CoreTypes DEF ScanInput
      <3> QED BY <1>1, <3>1, <3>2
    <2> QED BY <1>4, <2>1, <2>2
  <1>8. CASE WriteRegister
    <2>1. \A n : Free(n) => p(n) = q(n)
      BY <1>1, <1>8, NotSettable, OutputChannels
    <2> QED BY <1>1, <1>4, <1>8, <2>1, OnlyWrites
  <1>9. CASE UNCHANGED <<chnl, core>>
    BY <1>4, <1>9
  <1> QED BY <1>5, <1>6, <1>7, <1>8, <1>9, StepKinds DEF Scan, Unmapped, ReadRegister,
          RangeOver

LEMMA WordKept ==
  ASSUME srv \in HandlingRecord, srv'.words = srv.words, srv'.req = srv.req, WordInv,
         \A c \in Channels : /\ chnl[c].raw_value_queued \in Nat
                             /\ chnl'[c].raw_value_queued \in Nat,
         \A n \in DOMAIN Outputs : ~Settable(Outputs[n]) =>
           chnl[Outputs[n]].raw_value_queued <= chnl'[Outputs[n]].raw_value_queued
  PROVE  WordInv'
  <1> SUFFICES ASSUME NEW i \in DOMAIN srv.words,
                      NEW m \in DOMAIN Outputs, NEW n \in DOMAIN Outputs,
                      m < n, ShowsRaw(i, Outputs[n]), ~Settable(Outputs[m]),
                      ~Settable(Outputs[n])
               PROVE  /\ srv.words[i] <= chnl'[Outputs[m]].raw_value_queued
                      /\ \A j \in DOMAIN srv.words :
                           i < j /\ ShowsRaw(j, Outputs[m]) => srv.words[i] <= srv.words[j]
    BY DEF WordInv, ShowsRaw
  <1>1. srv.words[i] \in Nat
    BY SizesHold DEF HandlingRecord, Words, Sizes
  <1>2. Outputs[m] \in Channels
    BY OutputChannels
  <1>3. /\ srv.words[i] <= chnl[Outputs[m]].raw_value_queued
        /\ \A j \in DOMAIN srv.words :
             i < j /\ ShowsRaw(j, Outputs[m]) => srv.words[i] <= srv.words[j]
    BY DEF WordInv
  <1>4. chnl[Outputs[m]].raw_value_queued <= chnl'[Outputs[m]].raw_value_queued
    OBVIOUS
  <1> QED BY <1>1, <1>2, <1>3, <1>4

(* The word that a step of the loop reads.                                 *)
LEMMA WordAppended ==
  ASSUME TypeOK, srv \in HandlingRecord, srv # Idle, srv.pc = "regs", PhaseInv, OutputInv,
         core.version < DataMod, core' = core, chnl' = chnl, srv'.req = srv.req,
         WordInv, srv.cur = Start(srv.req, "read") + Len(srv.words),
         NEW w \in Words, srv'.words = Append(srv.words, w),
         ~RegMap[Here].alarm /\ srv.part = "data"
           /\ TypeOf(srv.req.fn) \in {"holding", "input"} => w = DataBits(RegMap[Here])
  PROVE  WordInv'
  <1> DEFINE last == Len(srv.words) + 1
             words == srv.words
             next == srv'.words
             q(c) == chnl[c].raw_value_queued
  <1>1. /\ words \in Seq(Words) /\ Len(words) \in Nat
        /\ DOMAIN words = 1 .. Len(words) /\ DOMAIN next = 1 .. last
        /\ next[last] = w /\ \A i \in 1 .. Len(words) : next[i] = words[i]
        /\ \A i \in DOMAIN next : i \in DOMAIN words \/ i = last
    <2>1. words \in Seq(Words) /\ Len(words) \in Nat /\ DOMAIN words = 1 .. Len(words)
      BY DEF HandlingRecord
    <2> QED BY <2>1, AppendProperties
  <1>2. ASSUME NEW i \in DOMAIN words, NEW c
        PROVE  ShowsRaw(i, c)' => ShowsRaw(i, c)
    BY DEF ShowsRaw
  <1>3. ASSUME NEW n \in DOMAIN Outputs, ~Settable(Outputs[n]), NEW i, i = last,
               ShowsRaw(i, Outputs[n])'
        PROVE  w = q(Outputs[n])
    <2> DEFINE reg == RegMap[Here]
    <2>1. Start(srv.req, "read") + i - 1 = srv.cur
      <3>1. Start(srv.req, "read") \in Addresses
        BY RequestTypes DEF HandlingRecord
      <3> QED BY <1>1, <1>3, <3>1, AddressesAreNat
    <2>2. /\ Holds(srv.req, srv.cur, Outputs[n]) /\ ~reg.alarm /\ ~reg.status
          /\ TypeOf(srv.req.fn) \in {"holding", "input"}
      BY <1>3, <2>1 DEF ShowsRaw, Here
    <2>3. reg.data /\ reg.num = Outputs[n]
      BY <2>2 DEF Holds, Here
    <2>4. srv.part = "data"
      BY <2>2 DEF PhaseInv, HandlingRecord
    <2>5. w = DataBits(reg)
      BY <2>2, <2>4
    <2>6. Outputs[n] \in Channels
      BY OutputChannels
    <2>7. w = q(Outputs[n]) % DataMod
      BY <2>3, <2>5, <2>6 DEF DataBits
    <2>8. q(Outputs[n]) \in Nat /\ q(Outputs[n]) <= core.version /\ core.version \in Nat
      BY <1>3, <2>6, CoreTypes DEF OutputInv
    <2>9. q(Outputs[n]) \in 0 .. DataMod - 1 /\ DataMod \in Nat
      BY <2>8, SizesHold DEF Sizes
    <2> HIDE DEF q
    <2> QED BY <2>7, <2>9, SmallModulo
  <1> SUFFICES ASSUME NEW i \in DOMAIN next,
                      NEW m \in DOMAIN Outputs, NEW n \in DOMAIN Outputs,
                      m < n, ShowsRaw(i, Outputs[n])', ~Settable(Outputs[m]),
                      ~Settable(Outputs[n])
               PROVE  /\ next[i] <= q(Outputs[m])
                      /\ \A j \in DOMAIN next :
                           i < j /\ ShowsRaw(j, Outputs[m])' => next[i] <= next[j]
    BY DEF WordInv
  <1>4. CASE i \in DOMAIN words
    <2>1. ShowsRaw(i, Outputs[n])
      BY <1>2, <1>4
    <2>2. /\ words[i] <= q(Outputs[m])
          /\ \A j \in DOMAIN words :
               i < j /\ ShowsRaw(j, Outputs[m]) => words[i] <= words[j]
      BY <1>4, <2>1 DEF WordInv
    <2>3. next[i] = words[i]
      BY <1>1, <1>4
    <2>4. ASSUME NEW j \in DOMAIN next, i < j, ShowsRaw(j, Outputs[m])'
          PROVE  next[i] <= next[j]
      <3>1. CASE j \in DOMAIN words
        <4>1. next[j] = words[j] /\ ShowsRaw(j, Outputs[m])
          BY <1>1, <1>2, <2>4, <3>1
        <4> QED BY <2>2, <2>3, <2>4, <3>1, <4>1
      <3>2. CASE j = last
        <4>1. next[j] = q(Outputs[m])
          BY <1>1, <1>3, <2>4, <3>2
        <4> QED BY <2>2, <2>3, <4>1
      <3> QED BY <1>1, <3>1, <3>2
    <2> QED BY <2>2, <2>3, <2>4
  <1>5. CASE i = last
    <2>1. next[i] = q(Outputs[n])
      <3>1. w = q(Outputs[n])
        BY <1>3, <1>5
      <3> QED BY <1>1, <1>5, <3>1
    <2>2. q(Outputs[n]) <= q(Outputs[m])
      BY DEF OutputInv
    <2>3. ASSUME NEW j \in DOMAIN next PROVE ~(i < j)
      BY <1>1, <1>5
    <2> QED BY <2>1, <2>2, <2>3
  <1> QED BY <1>1, <1>4, <1>5

LEMMA ReadStep ==
  ASSUME TypeInv, TypeInv', SentInv, AccessInv, [Next]_vars
  PROVE  ReadInv'
  <1> DEFINE Good == Checked(srv.req) = "go on" /\ Plain(srv.req, "read")
             Words_ok == core.version < DataMod => WordInv
  <1>1. /\ TypeOK /\ PhaseInv /\ OutputInv /\ core.version \in Nat /\ core'.version \in Nat
        /\ DataMod \in Nat
        /\ \A c \in Channels : /\ chnl[c].raw_value_queued \in Nat
                               /\ chnl'[c].raw_value_queued \in Nat
    <2>1. /\ core.version \in Nat
          /\ \A c \in Channels : chnl[c].raw_value_queued \in Nat
      BY CoreTypes DEF TypeInv
    <2>2. /\ core'.version \in Nat
          /\ \A c \in Channels : chnl'[c].raw_value_queued \in Nat
      <3>1. core' \in [at : 1 .. Len(Inputs) + 1 + Len(Outputs), version : 0 .. MaxVersion]
            /\ chnl' \in [Channels -> ChannelRecord]
        BY DEF TypeInv, TypeOK
      <3> QED BY <3>1, SizesHold DEF Sizes, ChannelRecord
    <2> QED BY <2>1, <2>2, SizesHold DEF TypeInv, AccessInv, Sizes
  <1>2. /\ core'.version >= core.version
        /\ \A n \in DOMAIN Outputs : ~Settable(Outputs[n]) =>
             chnl[Outputs[n]].raw_value_queued <= chnl'[Outputs[n]].raw_value_queued
    BY <1>1, OutputStep
  <1>3. core'.version < DataMod => core.version < DataMod
    BY <1>1, <1>2
  <1>4. ASSUME srv # Idle, Good
        PROVE  /\ srv \in HandlingRecord
               /\ srv.phase = "write" => srv.words = <<>>
               /\ srv.phase = "read" /\ srv.pc = "regs" =>
                    srv.cur = Start(srv.req, "read") + Len(srv.words)
               /\ Words_ok
    BY <1>1, <1>4 DEF AccessInv, ReadInv, TypeOK
  <1>5. CASE srv' = Idle
    BY <1>5 DEF ReadInv
  <1>6. CASE srv' = srv
    <2> SUFFICES ASSUME srv # Idle, Good PROVE ReadInv'
      BY <1>6 DEF ReadInv, Plain
    <2>1. Words_ok'
      BY <1>1, <1>2, <1>3, <1>4, <1>6, WordKept
    <2> QED BY <1>4, <1>6, <2>1 DEF ReadInv
  <1>7. CASE Begins
    <2>1. PICK r \in Requests : /\ srv'.req = r /\ srv'.words = <<>>
                                /\ srv'.cur = Start(r, srv'.phase)
      BY <1>7, BeginsAt
    <2>2. Len(<<>>) = 0 /\ Start(r, "read") \in Nat
      <3>1. Start(r, "read") \in Addresses
        BY RequestTypes
      <3> QED BY <3>1, AddressesAreNat
    <2>3. WordInv'
      BY <2>1 DEF WordInv
    <2>4. srv'.phase = "read" => srv'.cur = Start(r, "read") + Len(srv'.words)
      BY <2>1, <2>2
    <2> QED BY <2>1, <2>3, <2>4 DEF ReadInv
  <1>8. CASE Unmapped \/ ReadRegister \/ WriteRegister \/ RangeOver
    <2>1. srv \in HandlingRecord /\ srv.pc = "regs" /\ srv # Idle /\ srv'.req = srv.req
      BY <1>1, <1>8, SameRequest
    <2> SUFFICES ASSUME Good PROVE ReadInv'
      BY <2>1 DEF ReadInv, Plain
    <2> HIDE DEF Good
    <2>2. /\ srv.phase = "write" => srv.words = <<>>
          /\ srv.phase = "read" => srv.cur = Start(srv.req, "read") + Len(srv.words)
          /\ Words_ok
          /\ srv.phase \in {"read", "write"}
      BY <1>4, <2>1 DEF HandlingRecord
    <2>3. srv'.words = srv.words => Words_ok'
      BY <1>1, <1>2, <1>3, <2>1, <2>2, WordKept
    <2>4. CASE Unmapped
      <3>1. srv'.pc = "reply" /\ srv'.phase = srv.phase /\ srv'.words = srv.words
        BY <2>1, <2>4 DEF Unmapped, HandlingRecord
      <3> QED BY <2>1, <2>2, <2>3, <3>1 DEF ReadInv
    <2>5. CASE RangeOver
      <3>1. CASE srv' = [srv EXCEPT !.pc = "reply"]
        <4>1. srv'.pc = "reply" /\ srv'.phase = srv.phase /\ srv'.words = srv.words
          BY <2>1, <3>1 DEF HandlingRecord
        <4> QED BY <2>1, <2>2, <2>3, <4>1 DEF ReadInv
      <3>2. CASE /\ srv.phase = "write"
                 /\ srv' = [srv EXCEPT !.phase = "read", !.cur = Start(srv.req, "read"),
                                       !.end = End(srv.req, "read"), !.ndx = 1]
        <4>1. srv'.phase = "read" /\ srv'.cur = Start(srv.req, "read")
              /\ srv'.words = srv.words
          BY <2>1, <3>2 DEF HandlingRecord
        <4>2. srv.words = <<>> /\ Start(srv.req, "read") \in Nat
          <5>1. Start(srv.req, "read") \in Addresses
            BY <2>1, RequestTypes DEF HandlingRecord
          <5> QED BY <2>2, <3>2, <5>1, AddressesAreNat
        <4>4. srv'.words = <<>> /\ Len(<<>>) = 0
          BY <4>1, <4>2
        <4>5. Len(srv'.words) = 0
          BY <4>4
        <4>3. Start(srv.req, "read") + Len(srv'.words) = Start(srv.req, "read")
          BY <4>2, <4>5
        <4> QED BY <2>1, <2>3, <4>1, <4>3 DEF ReadInv
      <3> QED BY <2>5, <3>1, <3>2 DEF RangeOver
    <2>6. CASE WriteRegister
      <3>1. srv.phase = "write" /\ srv'.phase = "write" /\ srv'.words = srv.words
        BY <1>1, <2>6, WritesWord
      <3> QED BY <2>1, <2>2, <2>3, <3>1 DEF ReadInv
    <2>7. CASE ReadRegister
      <3>1. /\ srv.phase = "read" /\ srv.cur <= srv.end /\ srv'.phase = "read"
            /\ srv'.pc = "regs" /\ core' = core /\ chnl' = chnl
        BY <1>1, <2>1, <2>7, ReadsWord DEF ReadRegister
      <3>2. CASE srv'.cur = srv.cur /\ srv'.words = srv.words
        BY <2>1, <2>2, <2>3, <3>1, <3>2 DEF ReadInv
      <3>3. ASSUME NEW w \in Words, srv'.words = Append(srv.words, w),
                   srv'.cur = (srv.cur + 1) % AddrSpace,
                   ~RegMap[Here].alarm /\ srv.part = "data"
                     /\ TypeOf(srv.req.fn) \in {"holding", "input"} =>
                       w = DataBits(RegMap[Here])
            PROVE  ReadInv'
        <4>1. Words_ok'
          BY <1>1, <1>3, <2>1, <2>2, <3>1, <3>3, WordAppended
        <4> DEFINE start == Start(srv.req, "read")
                   n == NRegs(srv.req, "read")
                   len == Len(srv.words)
        <4>2. /\ start \in Nat /\ n \in Nat /\ start + n < AddrSpace /\ AddrSpace \in Nat
              /\ srv.end = start + n - 1
          <5>1. srv.req.fn \in Reads /\ srv.end = End(srv.req, "read")
                /\ srv.req \in Requests
            BY <1>1, <2>1, <3>1 DEF PhaseInv, HandlingRecord
          <5> QED BY <5>1, ReadRange, SizesHold DEF Sizes, Good
        <4>3. len \in Nat /\ Len(srv'.words) = len + 1
          <5>1. srv.words \in Seq(Words)
            BY <2>1 DEF HandlingRecord
          <5>2. Len(srv.words) \in Nat /\ Len(Append(srv.words, w)) = Len(srv.words) + 1
            BY <5>1, AppendProperties
          <5> QED BY <3>3, <5>2, Zenon
        <4>4. srv.cur = start + len /\ srv.cur <= start + n - 1
          BY <2>2, <3>1, <4>2
        <4> HIDE DEF start, n, len
        <4>5. srv.cur + 1 \in 0 .. AddrSpace - 1 /\ srv.cur + 1 = start + (len + 1)
          BY <4>2, <4>3, <4>4, LoopCount
        <4>6. srv'.cur = srv.cur + 1
          BY <3>3, <4>2, <4>5, SmallModulo
        <4>7. srv'.cur = start + Len(srv'.words)
          BY <4>3, <4>5, <4>6, Zenon
        <4> QED BY <2>1, <3>1, <4>1, <4>7 DEF ReadInv, start
      <3> QED BY <1>1, <2>7, <3>2, <3>3, ReadsWord
    <2> QED BY <1>8, <2>4, <2>5, <2>6, <2>7
  <1>9. CASE Scan
    BY <1>6, <1>9 DEF Scan, ScanInput, AppRun, ScanOutput
  <1> QED BY <1>5, <1>6, <1>7, <1>8, <1>9, StepKinds

(***************************************************************************)
(* An answer to a read never shows a newer value of an output at a lower   *)
(* address than of one at a higher address that the scan hands over before *)
(* it: for any register map, any outputs that only the scan sets and any   *)
(* interleaving of the accesses with the scan.                             *)
(***************************************************************************)
THEOREM ReadsKeepOrder == Spec => []ReadKeepsOrder
  <1> DEFINE Inv == TypeInv /\ SentInv /\ AccessInv
  <1>1. Init => Inv
    <2> SUFFICES ASSUME Init PROVE Inv
      OBVIOUS
    <2>1. SentInv
      BY DEF Init, SentInv
    <2>2. PhaseInv /\ ReadInv
      BY DEF Init, PhaseInv, ReadInv
    <2>3. OutputInv
      <3>1. core = [at |-> 1, version |-> 0] /\ Len(Inputs) \in Nat
        BY SlaveAssumption DEF Init
      <3>2. ASSUME NEW n \in DOMAIN Outputs
            PROVE  chnl[Outputs[n]].raw_value_queued = 0 /\ n \in Nat /\ n >= 1
        BY OutputChannels DEF Init
      <3>3. \A n \in DOMAIN Outputs : ~(core.at > Len(Inputs) + 1 + n)
        BY <3>1, <3>2
      <3> QED BY <3>1, <3>2, <3>3 DEF OutputInv
    <2> QED BY <2>1, <2>2, <2>3, TypeInit DEF AccessInv
  <1>2. Inv /\ [Next]_vars => Inv'
    BY TypeStep, SentStep, PhaseStep, OutputStep, ReadStep DEF AccessInv
  <1>3. Inv => ReadKeepsOrder
    <2>1. srv.pc = "reply" => srv # Idle
      BY DEF Idle
    <2> SUFFICES ASSUME Inv, srv.pc = "reply", Checked(srv.req) = "go on",
                        Plain(srv.req, "read"), core.version < DataMod
                 PROVE  ReadKeepsOrder
      BY DEF ReadKeepsOrder
    <2>2. WordInv
      BY <2>1 DEF AccessInv, ReadInv
    <2> QED BY <2>2 DEF WordInv, ReadKeepsOrder
  <1> HIDE DEF Inv
  <1> QED BY <1>1, <1>2, <1>3, PTL DEF Spec

LEMMA ModuloBelow ==
  ASSUME NEW x \in Nat, NEW m \in Nat, m > 0
  PROVE  x % m \in Nat /\ x % m <= x
  BY SMTT(30)

LEMMA ModuloSelf ==
  ASSUME NEW m \in Nat, m > 0
  PROVE  m % m = 0
  BY SMTT(30)

(* A loop that ends before it comes round, though its end may have wrapped *)
(* around, stays within the range.                                         *)
LEMMA LoopWraps ==
  ASSUME NEW start \in Nat, NEW n \in Nat, n >= 1, NEW m \in Nat, m > 0,
         NEW cur \in Nat, cur >= start, cur <= (start + n - 1) % m
  PROVE  cur \in start .. start + n - 1
  <1>1. start + n - 1 \in Nat
    OBVIOUS
  <1>2. (start + n - 1) % m \in Nat /\ (start + n - 1) % m <= start + n - 1
    BY <1>1, ModuloBelow
  <1>3. ASSUME NEW e \in Nat, cur <= e, e <= start + n - 1
        PROVE  cur <= start + n - 1
    BY <1>3
  <1>4. cur <= start + n - 1
    BY <1>2, <1>3, Zenon
  <1> QED BY <1>4

(* 16 bits come round at the last address and nowhere else.                *)
LEMMA NextAddress ==
  ASSUME NEW m \in Nat, m > 0, NEW cur \in Nat, cur < m
  PROVE  \/ (cur + 1) % m = cur + 1
         \/ ((cur + 1) % m = 0 /\ cur = m - 1)
  <1>1. CASE cur + 1 < m
    <2>1. cur + 1 \in 0 .. m - 1
      BY <1>1
    <2> QED BY <2>1, SmallModulo
  <1>2. CASE cur + 1 = m
    <2>1. (cur + 1) % m = 0 /\ cur = m - 1
      BY <1>2, ModuloSelf
    <2> QED BY <2>1
  <1> QED BY <1>1, <1>2

(* Only a range that ends on the last address gets there.                  *)
LEMMA LastIsLast ==
  ASSUME NEW m \in Nat, NEW last \in 0 .. m - 1, NEW cur \in Nat, cur <= last
  PROVE  cur = m - 1 => last = m - 1
  OBVIOUS

LEMMA AddressBounds ==
  /\ AddrSpace \in Nat /\ AddrSpace > 0
  /\ \A a \in Addresses : a \in Nat /\ a < AddrSpace
  BY SizesHold DEF Sizes, Addresses

(* What is written lies in the range, and the loop comes round only from   *)
(* the last address.                                                       *)
LEMMA WriteRange ==
  ASSUME NEW r \in Requests, Checked(r) = "go on", r.fn \in Writes,
         NEW cur \in Addresses, cur <= End(r, "write"), cur >= Start(r, "write")
  PROVE  /\ Start(r, "write") \in Nat /\ cur \in Nat
         /\ cur \in RangeOf(r, "write")
         /\ \/ (cur + 1) % AddrSpace = cur + 1
            \/ ((cur + 1) % AddrSpace = 0 /\ cur = AddrSpace - 1)
         /\ cur = AddrSpace - 1 => End(r, "write") = AddrSpace - 1
  <1> DEFINE start == Start(r, "write")
             n == NRegs(r, "write")
  <1>1. start \in Nat /\ n \in Nat
    <2>1. start \in Addresses /\ n \in Nat
      BY RequestTypes, Zenon
    <2> QED BY <2>1, AddressesAreNat, Zenon
  <1>2. n >= 1
    <2>1. r.fn \notin Singles => r.write.n >= 1
      BY GoodRequest DEF QuantityOk, Writes
    <2>2. NRegs(r, "write") = IF r.fn \in Singles THEN 1 ELSE r.write.n
      BY DEF NRegs
    <2>3. r.fn \in Singles => n = 1
      BY <2>2
    <2>4. r.fn \notin Singles => n = r.write.n
      BY <2>2
    <2> QED BY <2>1, <2>3, <2>4, AddressesAreNat, Zenon
  <1>3. End(r, "write") = (start + n - 1) % AddrSpace
    BY DEF End
  <1>4. /\ AddrSpace \in Nat /\ AddrSpace > 0
        /\ \A a \in Addresses : a \in Nat /\ a < AddrSpace
    BY AddressBounds, Zenon
  <1>5. cur <= (start + n - 1) % AddrSpace /\ cur >= start
    BY <1>3, Zenon
  <1> HIDE DEF start, n
  <1>6. /\ cur \in start .. start + n - 1
        /\ \/ (cur + 1) % AddrSpace = cur + 1
           \/ ((cur + 1) % AddrSpace = 0 /\ cur = AddrSpace - 1)
    <2>1. cur \in Nat /\ cur < AddrSpace /\ AddrSpace \in Nat /\ AddrSpace > 0
      BY <1>4, Zenon
    <2>2. \/ (cur + 1) % AddrSpace = cur + 1
          \/ ((cur + 1) % AddrSpace = 0 /\ cur = AddrSpace - 1)
      BY <2>1, NextAddress
    <2>3. cur \in start .. start + n - 1
      BY <1>1, <1>2, <1>5, <2>1, LoopWraps
    <2> QED BY <2>2, <2>3
  <1>7. cur = AddrSpace - 1 => End(r, "write") = AddrSpace - 1
    <2>1. End(r, "write") \in Addresses
      BY RequestTypes, Zenon
    <2>2. End(r, "write") \in 0 .. AddrSpace - 1
      BY <2>1 DEF Addresses
    <2>3. cur <= End(r, "write")
      OBVIOUS
    <2> QED BY <1>4, <2>2, <2>3, LastIsLast, Zenon
  <1> QED BY <1>1, <1>4, <1>6, <1>7, Zenon DEF RangeOf, start, n

(* What was asked for keeps to the announcement.                           *)
LEMMA AskedAnnounces ==
  ASSUME NEW pair \in Announced, NEW r, Asked(r), r.fn \in Writes
  PROVE  /\ \A a \in RangeOf(r, "write") : Holds(r, a, pair[2]) =>
              \E b \in RangeOf(r, "write") : b < a /\ Holds(r, b, pair[1])
         /\ \A a \in Addresses : ComesRoundTo(r, a) => ~Holds(r, a, pair[2])
  <1>1. PICK l \in Links : \E q \in Menued(l) : r.fn = q.fn /\ r.write = q.write
    BY DEF Asked
  <1>2. PICK q \in Menued(l) : r.fn = q.fn /\ r.write = q.write
    BY <1>1
  <1>3. /\ RangeOf(r, "write") = RangeOf(q, "write")
        /\ \A a, c : Holds(r, a, c) <=> Holds(q, a, c)
        /\ \A a : ComesRoundTo(r, a) <=> ComesRoundTo(q, a)
    BY <1>2 DEF RangeOf, ComesRoundTo, Holds, Mapped, Start, End, NRegs
  <1>4. /\ \A a \in RangeOf(q, "write") : Holds(q, a, pair[2]) =>
              \E b \in RangeOf(q, "write") : b < a /\ Holds(q, b, pair[1])
        /\ \A a \in Addresses : ComesRoundTo(q, a) => ~Holds(q, a, pair[2])
    BY <1>2 DEF Announced
  <1> QED BY <1>3, <1>4

(* A register that is written: where it lies, and what is behind it.       *)
LEMMA WriteBehind ==
  ASSUME TypeOK, SentInv, PhaseInv, BehindInv, WriteRegister
  PROVE  LET r == srv.req IN
         /\ srv \in HandlingRecord /\ r.fn \in Writes /\ Asked(r) /\ Checked(r) = "go on"
         /\ Start(r, "write") \in Nat /\ srv.cur \in Nat /\ srv.cur \in Addresses
         /\ Mapped(r, srv.cur)
         /\ \/ (srv.cur + 1) % AddrSpace = srv.cur + 1
            \/ ((srv.cur + 1) % AddrSpace = 0 /\ srv.cur = AddrSpace - 1)
         /\ \/ /\ Behind /\ srv.cur \in RangeOf(r, "write")
               /\ srv.cur = AddrSpace - 1 => End(r, "write") = AddrSpace - 1
            \/ ComesRoundTo(r, srv.cur)
  <1> DEFINE r == srv.req
  <1>1. srv \in HandlingRecord /\ srv # Idle /\ srv.pc = "regs"
    BY SameRequest
  <1>2. srv.phase = "write" /\ srv.cur <= srv.end /\ Here \in DOMAIN RegMap
    BY WritesWord
  <1>3. Mapped(r, srv.cur)
    BY <1>2 DEF Mapped, Here
  <1>4. /\ r.fn \in Writes /\ Checked(r) = "go on" /\ srv.end = End(r, "write")
        /\ r \in Requests /\ srv.cur \in Addresses /\ Asked(r)
    BY <1>1, <1>2 DEF PhaseInv, SentInv, HandlingRecord
  <1>5. Start(r, "write") \in Nat /\ srv.cur \in Nat
    BY <1>4, RequestTypes, AddressesAreNat
  <1>6. \/ (srv.cur + 1) % AddrSpace = srv.cur + 1
        \/ ((srv.cur + 1) % AddrSpace = 0 /\ srv.cur = AddrSpace - 1)
    <2>1. /\ srv.cur \in Nat /\ srv.cur < AddrSpace
          /\ AddrSpace \in Nat /\ AddrSpace > 0
      BY <1>4, AddressBounds
    <2> QED BY <2>1, NextAddress
  <1>7. CASE Behind
    <2>1. srv.cur >= Start(r, "write")
      BY <1>7 DEF Behind
    <2>2. /\ srv.cur \in RangeOf(r, "write")
          /\ srv.cur = AddrSpace - 1 => End(r, "write") = AddrSpace - 1
      BY <1>2, <1>4, <2>1, WriteRange
    <2> QED BY <1>1, <1>3, <1>4, <1>5, <1>6, <1>7, <2>2
  <1>8. CASE ComesRoundTo(r, srv.cur)
    BY <1>1, <1>3, <1>4, <1>5, <1>6, <1>8
  <1>9. Behind \/ ComesRoundTo(r, srv.cur)
    BY <1>1, <1>2 DEF BehindInv
  <1> QED BY <1>7, <1>8, <1>9

LEMMA BehindStep ==
  ASSUME TypeInv, SentInv, PhaseInv, BehindInv, [Next]_vars
  PROVE  BehindInv'
  <1>1. CASE srv' = srv /\ serial' = serial /\ \A c \in Channels : chnl'[c].by = chnl[c].by
    BY <1>1 DEF BehindInv, Behind, Holds, Mapped, ComesRoundTo
  <1>2. CASE srv' = Idle
    BY <1>2 DEF BehindInv
  <1>3. CASE Begins
    <2>1. PICK r \in Requests :
            /\ srv'.req = r /\ srv'.part = "data" /\ srv'.cur = Start(r, srv'.phase)
      BY <1>3, BeginsAt
    <2>2. Start(r, "write") \in Nat
      BY RequestTypes, AddressesAreNat
    <2>3. Start(r, "write") >= Start(r, "write")
          /\ Start(r, "write") .. Start(r, "write") - 1 = {}
      BY <2>2
    <2> QED BY <2>1, <2>3 DEF BehindInv, Behind
  <1>4. CASE Unmapped \/ RangeOver
    <2>1. srv'.pc = "reply" \/ srv'.phase = "read"
      BY <1>4, SameRequest DEF Unmapped, RangeOver, HandlingRecord, TypeInv
    <2> QED BY <2>1 DEF BehindInv
  <1>5. CASE ReadRegister
    BY <1>5, ReadsWord DEF BehindInv, TypeInv
  <1>6. CASE WriteRegister
    <2> DEFINE r == srv.req
               start == Start(r, "write")
               cur == srv.cur
    <2>1. /\ start \in Nat /\ cur \in Nat /\ Mapped(r, cur)
          /\ \/ (cur + 1) % AddrSpace = cur + 1
             \/ (cur + 1) % AddrSpace = 0 /\ cur = AddrSpace - 1
          /\ \/ Behind /\ (cur = AddrSpace - 1 => End(r, "write") = AddrSpace - 1)
             \/ ComesRoundTo(r, cur)
      BY <1>6, WriteBehind DEF TypeInv
    <2>2. /\ srv'.req = r /\ serial' = serial
          /\ \/ srv'.part = "status" /\ srv'.cur = cur
             \/ srv'.part = "data" /\ srv'.cur = (cur + 1) % AddrSpace
      BY <1>6, SameRequest, WritesWord, OnlyWrites DEF TypeInv
    <2>3. \A c \in Channels : chnl[c].by = serial => chnl'[c].by = serial
      BY <1>6, WritesChannel DEF TypeInv
    <2>4. CASE Behind
      <3>1. /\ cur >= start
            /\ \A b \in start .. cur - 1 :
                 Mapped(r, b) /\ \A c \in Channels : Holds(r, b, c) => chnl'[c].by = serial
            /\ srv.part = "status" =>
                 \A c \in Channels : Holds(r, cur, c) => chnl[c].by = serial
        BY <2>3, <2>4 DEF Behind
      <3>2. ASSUME NEW c \in Channels, Holds(r, cur, c) PROVE chnl'[c].by = serial
        <4>1. RegMap[Here].data /\ RegMap[Here].num = c
          BY <3>2 DEF Holds, Here
        <4>2. srv.part \in {"data", "status"}
          BY <1>6, SameRequest DEF HandlingRecord, TypeInv
        <4> QED BY <1>6, <2>3, <3>1, <3>2, <4>1, <4>2, WritesChannel DEF TypeInv
      <3>3. CASE srv'.part = "status" /\ srv'.cur = cur
        BY <2>2, <3>1, <3>2, <3>3 DEF BehindInv, Behind, Holds, Mapped
      <3>4. CASE srv'.part = "data" /\ srv'.cur = cur + 1
        <4>1. cur + 1 >= start
              /\ \A b \in start .. (cur + 1) - 1 : b \in start .. cur - 1 \/ b = cur
          BY <2>1, <3>1
        <4>2. \A b \in start .. (cur + 1) - 1 :
                Mapped(r, b) /\ \A c \in Channels : Holds(r, b, c) => chnl'[c].by = serial
          BY <2>1, <3>1, <3>2, <4>1
        <4> QED BY <2>2, <3>4, <4>1, <4>2 DEF BehindInv, Behind, Holds, Mapped
      <3>5. CASE srv'.cur = 0 /\ cur = AddrSpace - 1
        <4>1. End(r, "write") = AddrSpace - 1
          BY <2>1, <3>5 DEF ComesRoundTo
        <4>2. \A b \in (start .. AddrSpace - 1) \cup (0 .. 0 - 1) :
                b \in start .. cur - 1 \/ b = cur
          BY <2>1, <3>5, SizesHold DEF Sizes
        <4>3. ComesRoundTo(r, 0)
          BY <2>1, <3>1, <4>1, <4>2 DEF ComesRoundTo
        <4> QED BY <2>2, <3>5, <4>3 DEF BehindInv
      <3> QED BY <2>1, <2>2, <3>3, <3>4, <3>5
    <2>5. CASE ComesRoundTo(r, cur)
      <3>1. CASE srv'.cur = cur
        BY <2>2, <2>5, <3>1 DEF BehindInv
      <3>2. CASE srv'.cur = cur + 1
        <4>1. \A b \in 0 .. (cur + 1) - 1 : b \in 0 .. cur - 1 \/ b = cur
          BY <2>1
        <4>2. ComesRoundTo(r, cur + 1)
          BY <2>1, <2>5, <4>1 DEF ComesRoundTo
        <4> QED BY <2>2, <3>2, <4>2 DEF BehindInv
      <3>3. CASE srv'.cur = 0
        <4>1. \A b \in 0 .. 0 - 1 : b \in 0 .. cur - 1
          BY <2>1
        <4>2. ComesRoundTo(r, 0)
          BY <2>5, <4>1 DEF ComesRoundTo
        <4> QED BY <2>2, <3>3, <4>2 DEF BehindInv
      <3> QED BY <2>1, <2>2, <3>1, <3>2, <3>3
    <2> QED BY <2>1, <2>4, <2>5
  <1>7. CASE Scan
    <2>1. srv' = srv /\ serial' = serial
      BY <1>7 DEF Scan, ScanInput, AppRun, ScanOutput
    <2>2. \A c \in Channels : chnl'[c].by = chnl[c].by
      BY <1>7, ScansInput, ScansOutput, AppRuns DEF Scan, TypeInv
    <2> QED BY <1>1, <2>1, <2>2
  <1> QED BY <1>1, <1>2, <1>3, <1>4, <1>5, <1>6, <1>7, StepKinds

LEMMA BetweenAt ==
  ASSUME NEW start \in Nat, NEW n \in Nat, NEW cur \in Nat,
         NEW b \in start .. start + n - 1, b < cur
  PROVE  b \in start .. cur - 1
  OBVIOUS

(* No step puts the flag ahead of the data.                                *)
LEMMA PairStep ==
  ASSUME TypeInv, SentInv, PhaseInv, TakenInv, BehindInv, [Next]_vars,
         NEW pair \in Announced, NEW d, NEW f, d = pair[1], f = pair[2], PairInv(d, f)
  PROVE  PairInv(d, f)'
  <1>1. d \in Channels /\ f \in Channels
    BY DEF Announced, Channels
  <1>2. /\ TypeOK /\ serial \in Nat
        /\ chnl[f].by \in Nat /\ chnl[d].by \in Nat
        /\ chnl[f].taken \in Nat /\ chnl[d].taken \in Nat
        /\ chnl[f].by <= serial /\ chnl[d].by <= serial /\ chnl[f].taken <= chnl[f].by
        /\ ~chnl[d].raw_value_avail => chnl[d].taken = chnl[d].by
    BY <1>1 DEF TypeInv, TypeOK, ChannelRecord, TakenInv
  <1>3. chnl[f].by <= chnl[d].by
    BY DEF PairInv
  <1>4. /\ Len(Inputs) \in Nat /\ Len(Outputs) \in Nat /\ DOMAIN Inputs = 1 .. Len(Inputs)
        /\ core.at \in Nat
    BY <1>2, SlaveAssumption DEF TypeOK
  <1>5. ASSUME core' = core, chnl'[f].taken = chnl[f].taken, chnl'[d].taken = chnl[d].taken,
               chnl'[f].by <= chnl'[d].by
        PROVE  PairInv(d, f)'
    BY <1>5 DEF PairInv
  <1>6. CASE UNCHANGED <<chnl, core>>
    BY <1>3, <1>5, <1>6
  <1>7. CASE Unmapped \/ ReadRegister \/ RangeOver
    BY <1>6, <1>7 DEF Unmapped, ReadRegister, RangeOver
  <1>8. CASE WriteRegister
    <2> DEFINE r == srv.req
    <2>1. /\ core' = core
          /\ chnl'[f].taken = chnl[f].taken /\ chnl'[d].taken = chnl[d].taken
          /\ chnl'[d].by = chnl[d].by \/ chnl'[d].by = serial
          /\ \/ chnl'[f].by = chnl[f].by
             \/ RegMap[Here].data /\ RegMap[Here].num = f /\ chnl'[f].by = serial
      BY <1>1, <1>2, <1>8, WritesChannel, OnlyWrites
    <2>2. CASE chnl'[f].by = chnl[f].by
      <3>1. chnl'[f].by <= chnl'[d].by
        BY <1>2, <1>3, <2>1, <2>2
      <3> QED BY <1>5, <2>1, <3>1
    <2>3. CASE RegMap[Here].data /\ RegMap[Here].num = f /\ chnl'[f].by = serial
      <3>0. /\ r.fn \in Writes /\ Asked(r) /\ Start(r, "write") \in Nat /\ srv.cur \in Nat
            /\ srv.cur \in Addresses /\ Mapped(r, srv.cur) /\ r \in Requests
            /\ \/ Behind /\ srv.cur \in RangeOf(r, "write")
               \/ ComesRoundTo(r, srv.cur)
        BY <1>2, <1>8, WriteBehind DEF HandlingRecord
      <3>2. Holds(r, srv.cur, f)
        BY <2>3, <3>0 DEF Holds, Here
      <3>1. /\ r.fn \in Writes /\ Asked(r) /\ Start(r, "write") \in Nat /\ srv.cur \in Nat
            /\ srv.cur \in RangeOf(r, "write") /\ r \in Requests
            /\ \A b \in Start(r, "write") .. srv.cur - 1, c \in Channels :
                 Holds(r, b, c) => chnl[c].by = serial
        BY <3>0, <3>2, AskedAnnounces DEF Behind
      <3>3. PICK b \in RangeOf(r, "write") : b < srv.cur /\ Holds(r, b, d)
        BY <3>1, <3>2, AskedAnnounces
      <3>4. b \in Start(r, "write") .. srv.cur - 1
        <4>1. NRegs(r, "write") \in Nat
          BY <3>1, RequestTypes
        <4> QED BY <3>1, <3>3, <4>1, BetweenAt DEF RangeOf
      <3>5. chnl[d].by = serial
        BY <1>1, <3>1, <3>3, <3>4
      <3>6. chnl'[f].by <= chnl'[d].by
        BY <1>2, <2>1, <2>3, <3>5
      <3> QED BY <1>5, <2>1, <3>6
    <2> QED BY <2>1, <2>2, <2>3
  <1>9. CASE ScanInput
    <2> DEFINE k == core.at
    <2>1. /\ k \in DOMAIN Inputs /\ core'.at = k + 1
          /\ \A c \in Channels :
               /\ chnl'[c].by = chnl[c].by
               /\ c # Inputs[k] => chnl'[c] = chnl[c]
               /\ c = Inputs[k] =>
                    chnl'[c].taken = IF chnl[c].raw_value_avail THEN chnl[c].by
                                     ELSE chnl[c].taken
      BY <1>2, <1>9, ScansInput
    <2>2. chnl'[f].by <= chnl'[d].by
      BY <1>1, <1>3, <2>1
    <2>3. ASSUME NEW i \in DOMAIN Inputs, NEW j \in DOMAIN Inputs,
                 i < j, Inputs[i] = f, Inputs[j] = d, core'.at > j
          PROVE  chnl'[f].taken <= chnl'[d].taken
      <3>1. /\ i # j /\ i \in Nat /\ j \in Nat /\ k \in Nat /\ (k > j \/ k = j)
            /\ k <= Len(Inputs)
        BY <1>4, <2>1, <2>3
      <3>2. \A m, n \in DOMAIN Inputs : Inputs[m] = Inputs[n] => m = n
        BY SlaveAssumption
      <3>3. k # i /\ f # Inputs[k]
        BY <2>1, <2>3, <3>1, <3>2
      <3>4. chnl'[f].taken = chnl[f].taken
        BY <1>1, <2>1, <3>3
      <3>5. CASE k > j
        <4>1. d # Inputs[k]
          BY <2>1, <2>3, <3>1, <3>2, <3>5
        <4>2. chnl'[d].taken = chnl[d].taken
          BY <1>1, <2>1, <4>1
        <4>3. chnl[f].taken <= chnl[d].taken
          BY <1>4, <2>3, <3>1, <3>5 DEF PairInv
        <4> QED BY <3>4, <4>2, <4>3
      <3>6. CASE k = j
        <4>1. chnl'[d].taken = chnl[d].by
          BY <1>1, <1>2, <2>1, <2>3, <3>6
        <4>2. chnl[f].taken <= chnl[d].by
          BY <1>2, <1>3
        <4> QED BY <3>4, <4>1, <4>2
      <3> QED BY <3>1, <3>5, <3>6
    <2> QED BY <2>2, <2>3 DEF PairInv
  <1>10. CASE AppRun \/ ScanOutput
    <2>1. /\ core'.at = 1 \/ core'.at > Len(Inputs) + 1
          /\ core'.at \in Nat
          /\ \A c \in Channels : chnl'[c].by = chnl[c].by
      <3>1. CASE AppRun
        BY <1>2, <1>4, <3>1, AppRuns DEF AppRun
      <3>2. CASE ScanOutput
        BY <1>2, <1>4, <3>2, ScansOutput DEF ScanOutput
      <3> QED BY <1>10, <3>1, <3>2
    <2>2. chnl'[f].by <= chnl'[d].by
      BY <1>1, <1>3, <2>1
    <2>3. ASSUME NEW j \in DOMAIN Inputs, core'.at > j, core'.at <= Len(Inputs) + 1
          PROVE  FALSE
      <3>1. j \in Nat /\ j >= 1
        BY <1>4, <2>3
      <3> QED BY <1>4, <2>1, <2>3, <3>1
    <2> QED BY <2>2, <2>3 DEF PairInv
  <1> QED BY <1>6, <1>7, <1>8, <1>9, <1>10, StepKinds DEF Scan

(***************************************************************************)
(* A peer can count on the order in which it announces its data: the flag  *)
(* in its channel is never newer than the data, and the application never  *)
(* sees the flag without the data if the flag comes first in the scan: for *)
(* any requests, any register map and any number of peers whose writes     *)
(* cross.                                                                  *)
(***************************************************************************)
THEOREM FlagsFollowData == Spec => []FlagFollowsData
  <1> DEFINE Inv == /\ TypeInv /\ SentInv /\ PhaseInv /\ TakenInv /\ BehindInv
                    /\ \A pair \in Announced : PairInv(pair[1], pair[2])
  <1>1. Init => Inv
    <2> SUFFICES ASSUME Init PROVE Inv
      OBVIOUS
    <2>1. SentInv /\ PhaseInv /\ BehindInv
      BY DEF Init, SentInv, PhaseInv, BehindInv
    <2>2. \A c \in Channels : chnl[c].by = 0 /\ chnl[c].taken = 0
      BY DEF Init
    <2>3. TakenInv
      BY <2>2 DEF Init, TakenInv
    <2>4. ASSUME NEW pair \in Announced PROVE PairInv(pair[1], pair[2])
      <3>1. pair[1] \in Channels /\ pair[2] \in Channels
        BY DEF Announced, Channels
      <3> QED BY <2>2, <3>1 DEF PairInv
    <2> QED BY <2>1, <2>3, <2>4, TypeInit
  <1>2. Inv /\ [Next]_vars => Inv'
    <2> SUFFICES ASSUME Inv, [Next]_vars PROVE Inv'
      OBVIOUS
    <2>1. ASSUME NEW pair \in Announced PROVE PairInv(pair[1], pair[2])'
      BY PairStep
    <2> QED BY <2>1, TypeStep, SentStep, PhaseStep, TakenStep, BehindStep
  <1>3. Inv => FlagFollowsData
    <2> SUFFICES ASSUME Inv, NEW pair \in Announced
                 PROVE  /\ chnl[pair[2]].by <= chnl[pair[1]].by
                        /\ ScannedAfter(pair[1], pair[2]) /\ core.at = Len(Inputs) + 1 =>
                             chnl[pair[2]].taken <= chnl[pair[1]].taken
      BY DEF FlagFollowsData
    <2>1. PairInv(pair[1], pair[2])
      OBVIOUS
    <2>2. /\ DOMAIN Inputs = 1 .. Len(Inputs) /\ Len(Inputs) \in Nat
      BY SlaveAssumption
    <2>3. \A j \in DOMAIN Inputs : core.at = Len(Inputs) + 1 =>
            core.at > j /\ core.at <= Len(Inputs) + 1
      BY <2>2
    <2> QED BY <2>1, <2>3 DEF PairInv, ScannedAfter
  <1> HIDE DEF Inv
  <1> QED BY <1>1, <1>2, <1>3, PTL DEF Spec

(* A write changes no channel but that of the register it is at.           *)
LEMMA WritesHere ==
  ASSUME TypeOK, WriteRegister, NEW c \in Channels, RegMap[Here].num # c
  PROVE  chnl'[c] = chnl[c]
  <1> DEFINE reg == RegMap[Here]
  <1>1. chnl \in [Channels -> ChannelRecord]
    BY DEF TypeOK
  <1>2. PICK v \in Value(srv.req) :
           \/ chnl' = Queued(reg.num, v % DataMod)
           \/ chnl' = chnl
           \/ chnl' = [chnl EXCEPT ![reg.num].sensor_fault = v \div DataMod = 1]
    BY DEF WriteRegister
  <1> HIDE DEF reg
  <1>3. reg.num # c
    BY DEF reg
  <1> QED BY <1>1, <1>2, <1>3 DEF Queued

(* A step that is not a write leaves what writes set.                      *)
LEMMA NoWrite ==
  ASSUME TypeInv, SentInv, [Next]_vars, ~WriteRegister, NEW c \in Channels
  PROVE  chnl'[c].by = chnl[c].by /\ chnl'[c].sensor_fault = chnl[c].sensor_fault
  <1>1. chnl \in [Channels -> ChannelRecord]
    BY DEF TypeInv, TypeOK
  <1>0. chnl[c] \in ChannelRecord
    BY <1>1
  <1>2. CASE Scan
    <2>1. CASE ScanInput
      BY <1>0, <1>1, <2>1 DEF ScanInput, ChannelRecord
    <2>2. CASE AppRun
      BY <2>2 DEF AppRun
    <2>3. CASE ScanOutput
      BY <1>0, <1>1, <2>3 DEF ScanOutput, ChannelRecord
    <2> QED BY <1>2, <2>1, <2>2, <2>3 DEF Scan
  <1>3. CASE chnl' = chnl
    BY <1>3
  <1> QED BY <1>2, <1>3, StepKinds, OnlyWrites DEF TypeInv

(***************************************************************************)
(* No write reaches a channel that its request does not name, but for a    *)
(* range that ends on the last address: it goes on with the registers that *)
(* are mapped without a gap from address 0.  It holds for any register map *)
(* and any requests, well formed or not.                                   *)
(***************************************************************************)
THEOREM WritesStayInRange == Spec => WritesInRange
  <1> DEFINE Inv == TypeInv /\ SentInv /\ PhaseInv /\ BehindInv
             r == srv.req
             Named(c) ==
               /\ srv.pc = "regs" /\ r.fn \in Writes /\ Checked(r) = "go on"
               /\ \E a \in Addresses :
                    /\ a \in RangeOf(r, "write") \/ ComesRoundTo(r, a)
                    /\ Mapped(r, a) /\ RegMap[<<TypeOf(r.fn), a>>].num = c
             AllNamed ==
               \A c \in Channels :
                 chnl'[c].by # chnl[c].by \/ chnl'[c].sensor_fault # chnl[c].sensor_fault =>
                   Named(c)
  <1>1. Init => Inv
    BY TypeInit DEF Init, SentInv, PhaseInv, BehindInv
  <1>2. Inv /\ [Next]_vars => Inv'
    BY TypeStep, SentStep, PhaseStep, BehindStep
  <1>3. Inv /\ [Next]_vars => [AllNamed]_vars
    <2> SUFFICES ASSUME Inv, [Next]_vars, NEW c \in Channels,
                        chnl'[c].by # chnl[c].by
                        \/ chnl'[c].sensor_fault # chnl[c].sensor_fault
                 PROVE  Named(c)
      OBVIOUS
    <2>1. WriteRegister
      BY NoWrite
    <2>2. RegMap[Here].num = c
      BY <2>1, WritesHere DEF TypeInv
    <2>3. srv.pc = "regs" /\ Here \in DOMAIN RegMap
      BY <2>1, SameRequest, WritesWord DEF TypeInv
    <2>4. /\ r.fn \in Writes /\ Checked(r) = "go on" /\ srv.cur \in Addresses
          /\ srv.cur \in RangeOf(r, "write") \/ ComesRoundTo(r, srv.cur)
      BY <2>1, WriteBehind DEF TypeInv
    <2>5. Mapped(r, srv.cur) /\ RegMap[<<TypeOf(r.fn), srv.cur>>].num = c
      BY <2>2, <2>3 DEF Mapped, Here
    <2> QED BY <2>3, <2>4, <2>5
  <1> HIDE DEF Inv
  <1>4. [][AllNamed]_vars => WritesInRange
    BY PTL DEF AllNamed, Named, WritesInRange
  <1> QED BY <1>1, <1>2, <1>3, <1>4, PTL DEF Spec

=============================================================================
