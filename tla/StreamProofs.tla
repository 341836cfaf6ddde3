---------------------------- MODULE StreamProofs ----------------------------
(***************************************************************************)
(* Proofs about the circular buffer and the stream, for every buffer size, *)
(* write length and number of bytes.                                       *)
(***************************************************************************)
EXTENDS Stream, SequenceTheorems, TLAPS

Buffers(S) ==
  [begin : Cells, end : Cells, data_size : 0 .. Size, buffer : [Cells -> S]]

(* The index past the newest byte is where the next byte goes.             *)
Aligned(cb) == cb.end = (cb.begin + cb.data_size) % Size

LEMMA Remainder ==
  ASSUME NEW m \in Nat, m < Size + Size
  PROVE  m % Size = IF m < Size THEN m ELSE m - Size
  BY SizeAssumption, SMTT(30)

(* Going on from a cell by at most Size leaves the buffer at most once.    *)
LEMMA Wrap ==
  ASSUME NEW a \in Cells, NEW n \in 0 .. Size
  PROVE  /\ (a + n) % Size = IF a + n < Size THEN a + n ELSE a + n - Size
         /\ (a + n) % Size \in Cells
  <1>1. /\ a \in Nat /\ n \in Nat /\ Size \in Nat /\ Size > 0
        /\ a + n \in Nat /\ a + n < Size + Size
    BY SizeAssumption DEF Cells
  <1>3. (a + n) % Size = IF a + n < Size THEN a + n ELSE a + n - Size
    BY <1>1, Remainder
  <1> DEFINE w == (a + n) % Size
  <1>4. w = IF a + n < Size THEN a + n ELSE a + n - Size
    BY <1>3
  <1> HIDE DEF w
  <1>5. w \in Cells
    BY <1>1, <1>4 DEF Cells
  <1> QED BY <1>3, <1>5 DEF w

(* circ_buffer_put appends the data to what is queued, and nothing that is *)
(* queued is overwritten.                                                  *)
LEMMA PutAppends ==
  ASSUME NEW S, NEW cb \in Buffers(S), Aligned(cb),
         NEW data \in Seq(S), CanPut(cb, Len(data))
  PROVE  /\ Put(cb, data) \in Buffers(S)
         /\ Aligned(Put(cb, data))
         /\ Put(cb, data).data_size = cb.data_size + Len(data)
         /\ \A i \in 1 .. cb.data_size + Len(data) :
              Contents(Put(cb, data))[i] =
                IF i <= cb.data_size THEN Contents(cb)[i] ELSE data[i - cb.data_size]
  <1> DEFINE n == Len(data)
             b == cb.begin
             e == cb.end
             d == cb.data_size
             e2 == (e + n) % Size
             new == Put(cb, data)
  <1>1. /\ n \in Nat /\ d \in 0 .. Size /\ d + n <= Size /\ n \in 0 .. Size
        /\ d + n \in 0 .. Size
        /\ b \in Cells /\ e \in Cells /\ Size \in Nat /\ Size > 0
    BY SizeAssumption DEF Buffers, CanPut
  <1>2. e = IF b + d < Size THEN b + d ELSE b + d - Size
    BY <1>1, Wrap, Zenon DEF Aligned
  <1>3. e2 = (IF e + n < Size THEN e + n ELSE e + n - Size) /\ e2 \in Cells
    BY <1>1, Wrap, Zenon
  <1>4. (b + (d + n)) % Size =
          IF b + (d + n) < Size THEN b + (d + n) ELSE b + (d + n) - Size
    BY <1>1, Wrap, Zenon
  <1>5. /\ new.begin = b /\ new.end = e2 /\ new.data_size = d + n
        /\ new.buffer = [i \in Cells |->
             IF CellNumber(cb, i) < n THEN data[CellNumber(cb, i) + 1]
                                      ELSE cb.buffer[i]]
    BY DEF Put
  <1>6. new.buffer \in [Cells -> S]
    <2> SUFFICES ASSUME NEW i \in Cells
                 PROVE  (IF CellNumber(cb, i) < n THEN data[CellNumber(cb, i) + 1]
                                                  ELSE cb.buffer[i]) \in S
      BY <1>5, Zenon
    <2>1. CellNumber(cb, i) \in Nat
      BY <1>1 DEF CellNumber, Cells
    <2>2. CellNumber(cb, i) < n => CellNumber(cb, i) + 1 \in 1 .. n
      BY <2>1, <1>1
    <2>3. cb.buffer[i] \in S
      BY DEF Buffers
    <2> QED BY <2>2, <2>3, ElementOfSeq, Zenon
  <1>7. new \in Buffers(S)
    BY <1>1, <1>3, <1>5, <1>6 DEF Put, Buffers
  <1>8. Aligned(new)
    <2>1. e2 = IF b + (d + n) < Size THEN b + (d + n) ELSE b + (d + n) - Size
      <3> HIDE DEF e2, e, b, d, n
      <3> QED BY <1>1, <1>2, <1>3 DEF Cells
    <2> QED BY <2>1, <1>4, <1>5 DEF Aligned
  <1>9. ASSUME NEW i \in 1 .. d + n
        PROVE  Contents(new)[i] = IF i <= d THEN Contents(cb)[i] ELSE data[i - d]
    <2> DEFINE c == (b + (i - 1)) % Size
    <2>1. i - 1 \in 0 .. Size /\ i \in Nat
      BY <1>1
    <2>2. c = (IF b + (i - 1) < Size THEN b + (i - 1) ELSE b + (i - 1) - Size)
          /\ c \in Cells
      BY <1>1, <2>1, Wrap, Zenon
    <2>3. Contents(new)[i] = new.buffer[c]
      BY <1>5 DEF Contents, Peek
    <2>4. i <= d => Contents(cb)[i] = cb.buffer[c]
      BY <1>1 DEF Contents, Peek
    <2> HIDE DEF c
    <2>5. CellNumber(cb, c) = IF i <= d THEN Size - d + (i - 1) ELSE i - d - 1
      <3>1. CellNumber(cb, c) = IF c >= e THEN c - e ELSE c + Size - e
        BY DEF CellNumber
      <3> HIDE DEF e, b, d, n
      <3> QED BY <1>1, <1>2, <2>1, <2>2, <3>1 DEF Cells
    <2>6. new.buffer[c] = IF CellNumber(cb, c) < n THEN data[CellNumber(cb, c) + 1]
                          ELSE cb.buffer[c]
      BY <2>2, <1>5, Zenon
    <2>7. CASE i <= d
      <3>1. ~(CellNumber(cb, c) < n)
        BY <2>5, <2>7, <1>1
      <3> QED BY <3>1, <2>3, <2>4, <2>6, <2>7, Zenon
    <2>8. CASE ~(i <= d)
      <3>1. CellNumber(cb, c) < n /\ CellNumber(cb, c) + 1 = i - d
        BY <2>5, <2>8, <1>1
      <3> QED BY <3>1, <2>3, <2>6, <2>8, Zenon
    <2> QED BY <2>7, <2>8
  <1> QED BY <1>5, <1>7, <1>8, <1>9

(* circ_buffer_advance drops the oldest bytes and keeps the others.        *)
LEMMA AdvanceDrops ==
  ASSUME NEW S, NEW cb \in Buffers(S), Aligned(cb), NEW k \in 0 .. cb.data_size
  PROVE  /\ Advance(cb, k) \in Buffers(S)
         /\ Aligned(Advance(cb, k))
         /\ Advance(cb, k).data_size = cb.data_size - k
         /\ \A i \in 1 .. cb.data_size - k :
              Contents(Advance(cb, k))[i] = Contents(cb)[i + k]
  <1> DEFINE b == cb.begin
             d == cb.data_size
             b2 == (b + k) % Size
             new == Advance(cb, k)
  <1>1. /\ d \in 0 .. Size /\ b \in Cells /\ cb.end \in Cells /\ k \in 0 .. d
        /\ k \in 0 .. Size /\ d - k \in 0 .. Size
        /\ Size \in Nat /\ Size > 0
    BY SizeAssumption DEF Buffers
  <1>2. b2 = (IF b + k < Size THEN b + k ELSE b + k - Size) /\ b2 \in Cells
    BY <1>1, Wrap, Zenon
  <1>3. cb.end = IF b + d < Size THEN b + d ELSE b + d - Size
    BY <1>1, Wrap, Zenon DEF Aligned
  <1>4. /\ new.begin = b2 /\ new.end = cb.end
        /\ new.data_size = d - k /\ new.buffer = cb.buffer
    BY DEF Advance
  <1>5. new \in Buffers(S)
    BY <1>1, <1>2, <1>4 DEF Advance, Buffers
  <1>6. Aligned(new)
    <2>1. (b2 + (d - k)) % Size =
            IF b2 + (d - k) < Size THEN b2 + (d - k) ELSE b2 + (d - k) - Size
      BY <1>1, <1>2, Wrap, Zenon
    <2>2. cb.end = IF b2 + (d - k) < Size THEN b2 + (d - k) ELSE b2 + (d - k) - Size
      <3> HIDE DEF b2
      <3> QED BY <1>1, <1>2, <1>3 DEF Cells
    <2> QED BY <2>1, <2>2, <1>4 DEF Aligned
  <1>7. ASSUME NEW i \in 1 .. d - k
        PROVE  Contents(new)[i] = Contents(cb)[i + k]
    <2>1. /\ i - 1 \in 0 .. Size /\ (i + k) - 1 \in 0 .. Size
          /\ i \in 1 .. d - k /\ i + k \in 1 .. d
      BY <1>1
    <2>2. (b2 + (i - 1)) % Size =
            IF b2 + (i - 1) < Size THEN b2 + (i - 1) ELSE b2 + (i - 1) - Size
      BY <1>2, <2>1, Wrap, Zenon
    <2>3. (b + ((i + k) - 1)) % Size =
            IF b + ((i + k) - 1) < Size THEN b + ((i + k) - 1)
            ELSE b + ((i + k) - 1) - Size
      BY <1>1, <2>1, Wrap, Zenon
    <2>4. (b2 + (i - 1)) % Size = (b + ((i + k) - 1)) % Size
      <3> DEFINE x == (b2 + (i - 1)) % Size
                 y == (b + ((i + k) - 1)) % Size
      <3>1. /\ x = IF b2 + (i - 1) < Size THEN b2 + (i - 1) ELSE b2 + (i - 1) - Size
            /\ y = IF b + ((i + k) - 1) < Size THEN b + ((i + k) - 1)
                   ELSE b + ((i + k) - 1) - Size
        BY <2>2, <2>3
      <3> HIDE DEF x, y, b2
      <3>2. x = y
        BY <3>1, <1>1, <1>2, <2>1 DEF Cells
      <3> QED BY <3>2 DEF x, y
    <2>5. Contents(new)[i] = cb.buffer[(b2 + (i - 1)) % Size]
      BY <1>4 DEF Contents, Peek
    <2>6. Contents(cb)[i + k] = cb.buffer[(b + ((i + k) - 1)) % Size]
      BY <2>1 DEF Contents, Peek
    <2> QED BY <2>4, <2>5, <2>6, Zenon
  <1> QED BY <1>4, <1>5, <1>6, <1>7
-----------------------------------------------------------------------------
(* What a queue holds comes after byte l and is in order.                  *)
Ordered(cb, l) ==
  \A i \in 1 .. cb.data_size :
    /\ Contents(cb)[i] > l
    /\ \A j \in 1 .. i - 1 : Contents(cb)[j] < Contents(cb)[i]

LEMMA BuffersGrow ==
  ASSUME NEW S, NEW T, S \subseteq T, NEW cb \in Buffers(S)
  PROVE  cb \in Buffers(T)
  BY DEF Buffers

LEMMA ContentsType ==
  ASSUME NEW S, NEW cb \in Buffers(S), NEW i \in 1 .. cb.data_size
  PROVE  Contents(cb)[i] \in S
  <1>1. cb.begin \in Cells /\ i - 1 \in 0 .. Size /\ cb.data_size \in 0 .. Size
    BY SizeAssumption DEF Buffers
  <1>2. (cb.begin + (i - 1)) % Size \in Cells
    BY <1>1, Wrap, Zenon
  <1>3. Contents(cb)[i] = cb.buffer[(cb.begin + (i - 1)) % Size]
    BY DEF Contents, Peek
  <1> QED BY <1>2, <1>3 DEF Buffers

LEMMA BytesType ==
  ASSUME NEW f \in Nat, NEW n \in Nat
  PROVE  /\ Bytes(f, n) \in Seq(f .. f + n - 1)
         /\ Len(Bytes(f, n)) = n
         /\ \A i \in 1 .. n : Bytes(f, n)[i] = f + i - 1
  <1>1. \A i \in 1 .. n : f + i - 1 \in f .. f + n - 1
    OBVIOUS
  <1>2. Bytes(f, n) \in [1 .. n -> f .. f + n - 1]
    BY <1>1 DEF Bytes
  <1>3. Bytes(f, n) \in Seq(f .. f + n - 1)
    BY <1>2, IsASeq DEF Bytes
  <1>4. DOMAIN Bytes(f, n) = 1 .. n
    BY DEF Bytes
  <1>5. Len(Bytes(f, n)) = n
    BY <1>3, <1>4, LenProperties
  <1> QED BY <1>3, <1>5 DEF Bytes

(* New bytes keep a queue in order.                                        *)
LEMMA PutKeepsOrder ==
  ASSUME NEW f \in Nat, f > 0, NEW l \in 0 .. f - 1, NEW n \in Nat,
         NEW cb \in Buffers(0 .. f - 1), Aligned(cb), Ordered(cb, l), CanPut(cb, n)
  PROVE  /\ Put(cb, Bytes(f, n)) \in Buffers(0 .. f + n - 1)
         /\ Aligned(Put(cb, Bytes(f, n)))
         /\ Ordered(Put(cb, Bytes(f, n)), l)
         /\ Put(cb, Bytes(f, n)).data_size = cb.data_size + n
  <1> DEFINE data == Bytes(f, n)
             new == Put(cb, data)
             d == cb.data_size
  <1>1. /\ data \in Seq(f .. f + n - 1) /\ Len(data) = n
        /\ \A i \in 1 .. n : data[i] = f + i - 1
    BY BytesType
  <1>2. data \in Seq(0 .. f + n - 1)
    BY <1>1, SeqMonotonic
  <1>3. cb \in Buffers(0 .. f + n - 1)
    BY BuffersGrow
  <1>4. CanPut(cb, Len(data))
    BY <1>1
  <1>5. /\ new \in Buffers(0 .. f + n - 1) /\ Aligned(new) /\ new.data_size = d + n
        /\ \A i \in 1 .. d + n :
             Contents(new)[i] = IF i <= d THEN Contents(cb)[i] ELSE data[i - d]
    <2> HIDE DEF data
    <2> QED BY <1>1, <1>2, <1>3, <1>4, PutAppends
  <1>6. d \in Nat /\ \A i \in 1 .. d : Contents(cb)[i] \in 0 .. f - 1
    <2>1. d \in Nat
      BY DEF Buffers
    <2> QED BY <2>1, ContentsType, Zenon
  <1>7. Ordered(new, l)
    <2> SUFFICES ASSUME NEW i \in 1 .. d + n
                 PROVE  /\ Contents(new)[i] > l
                        /\ \A j \in 1 .. i - 1 : Contents(new)[j] < Contents(new)[i]
      BY <1>5, Zenon DEF Ordered
    <2>1. CASE i <= d
      <3>1. i \in 1 .. d /\ \A j \in 1 .. i - 1 : j \in 1 .. d + n /\ j <= d
        BY <2>1, <1>6
      <3>2. /\ Contents(new)[i] = Contents(cb)[i]
            /\ \A j \in 1 .. i - 1 : Contents(new)[j] = Contents(cb)[j]
        BY <1>5, <2>1, <3>1, Zenon
      <3> QED BY <3>1, <3>2 DEF Ordered
    <2>2. CASE ~(i <= d)
      <3>1. i - d \in 1 .. n
        BY <2>2, <1>6
      <3>2. Contents(new)[i] = f + (i - d) - 1
        BY <1>1, <1>5, <2>2, <3>1
      <3>3. Contents(new)[i] > l
        BY <3>1, <3>2, <1>6
      <3>4. ASSUME NEW j \in 1 .. i - 1
            PROVE  Contents(new)[j] < Contents(new)[i]
        <4>1. j \in 1 .. d + n
          BY <1>6
        <4>2. CASE j <= d
          <5>1. Contents(new)[j] = Contents(cb)[j] /\ j \in 1 .. d
            BY <1>5, <1>6, <4>1, <4>2
          <5>2. Contents(new)[j] \in 0 .. f - 1
            BY <5>1, <1>6
          <5> QED BY <5>2, <3>1, <3>2
        <4>3. CASE ~(j <= d)
          <5>1. j - d \in 1 .. n
            BY <4>1, <4>3, <1>6
          <5>2. Contents(new)[j] = f + (j - d) - 1
            BY <1>1, <1>5, <4>1, <4>3, <5>1
          <5> QED BY <5>2, <3>2, <1>6
        <4> QED BY <4>2, <4>3
      <3> QED BY <3>3, <3>4
    <2> QED BY <2>1, <2>2
  <1> QED BY <1>5, <1>7

(* Taking the oldest k bytes away keeps the rest in order behind them.     *)
LEMMA AdvanceKeepsOrder ==
  ASSUME NEW m \in Nat, NEW cb \in Buffers(0 .. m), Aligned(cb),
         NEW l \in Nat, Ordered(cb, l), NEW k \in 0 .. cb.data_size
  PROVE  /\ Advance(cb, k) \in Buffers(0 .. m)
         /\ Aligned(Advance(cb, k))
         /\ Ordered(Advance(cb, k), IF k = 0 THEN l ELSE Contents(cb)[k])
         /\ Advance(cb, k).data_size = cb.data_size - k
  <1> DEFINE new == Advance(cb, k)
             d == cb.data_size
             front == IF k = 0 THEN l ELSE Contents(cb)[k]
  <1>1. /\ new \in Buffers(0 .. m) /\ Aligned(new) /\ new.data_size = d - k
        /\ \A i \in 1 .. d - k : Contents(new)[i] = Contents(cb)[i + k]
    BY AdvanceDrops
  <1>2. d \in Nat
    BY DEF Buffers
  <1>3. Ordered(new, front)
    <2> SUFFICES ASSUME NEW i \in 1 .. d - k
                 PROVE  /\ Contents(new)[i] > front
                        /\ \A j \in 1 .. i - 1 : Contents(new)[j] < Contents(new)[i]
      BY <1>1, Zenon DEF Ordered
    <2>1. i + k \in 1 .. d /\ \A j \in 1 .. i - 1 : j \in 1 .. d - k /\ j + k \in 1 .. (i + k) - 1
      BY <1>2
    <2>2. Contents(new)[i] > front
      <3>1. CASE k = 0
        BY <1>1, <2>1, <3>1 DEF Ordered
      <3>2. CASE k # 0
        <4>1. k \in 1 .. (i + k) - 1
          BY <3>2, <1>2
        <4>2. Contents(cb)[k] < Contents(cb)[i + k]
          BY <2>1, <4>1 DEF Ordered
        <4>3. Contents(cb)[k] \in 0 .. m /\ Contents(cb)[i + k] \in 0 .. m
          BY <2>1, <4>1, <3>2, ContentsType
        <4> QED BY <1>1, <3>2, <4>2, <4>3
      <3> QED BY <3>1, <3>2
    <2>3. \A j \in 1 .. i - 1 : Contents(new)[j] < Contents(new)[i]
      BY <1>1, <2>1 DEF Ordered
    <2> QED BY <2>2, <2>3
  <1> QED BY <1>1, <1>3
-----------------------------------------------------------------------------
InOrder(s, l) == \A i \in 1 .. Len(s) : s[i] > IF i = 1 THEN l ELSE s[i - 1]

LEMMA SendsNothing ==
  ASSUME Sends(<<>>)
  PROVE  sent' = <<>> /\ last' = last /\ InOrder(sent', last)
  BY DEF Sends, InOrder

LEMMA SendsBytes ==
  ASSUME NEW k \in Nat, next \in Nat \ {0}, last \in 0 .. next - 1,
         Sends(Bytes(next, k))
  PROVE  /\ sent' \in Seq(1 .. next + k - 1)
         /\ last' = IF k = 0 THEN last ELSE next + k - 1
         /\ InOrder(sent', last)
  <1> DEFINE s == Bytes(next, k)
  <1>1. /\ s \in Seq(next .. next + k - 1) /\ Len(s) = k
        /\ \A i \in 1 .. k : s[i] = next + i - 1
    BY BytesType
  <1>2. sent' = s /\ last' = IF s = <<>> THEN last ELSE s[Len(s)]
    BY DEF Sends
  <1>3. s = <<>> <=> k = 0
    BY <1>1, EmptySeq
  <1>4. sent' \in Seq(1 .. next + k - 1)
    BY <1>1, <1>2, SeqMonotonic
  <1>5. last' = IF k = 0 THEN last ELSE next + k - 1
    BY <1>1, <1>2, <1>3
  <1>6. InOrder(s, last)
    <2> SUFFICES ASSUME NEW i \in 1 .. k
                 PROVE  s[i] > IF i = 1 THEN last ELSE s[i - 1]
      BY <1>1, Zenon DEF InOrder
    <2>1. CASE i = 1
      BY <1>1, <2>1
    <2>2. CASE i # 1
      <3>1. i - 1 \in 1 .. k
        BY <2>2
      <3> QED BY <1>1, <2>2, <3>1
    <2> QED BY <2>1, <2>2
  <1> QED BY <1>2, <1>4, <1>5, <1>6

LEMMA SendsPeek ==
  ASSUME NEW m \in Nat, tx_buf \in Buffers(0 .. m), last \in Nat,
         Ordered(tx_buf, last), NEW k \in 0 .. tx_buf.data_size,
         Sends(Peek(tx_buf, k))
  PROVE  /\ sent' \in Seq(1 .. m)
         /\ last' = IF k = 0 THEN last ELSE Contents(tx_buf)[k]
         /\ InOrder(sent', last)
  <1> DEFINE s == Peek(tx_buf, k)
             c == Contents(tx_buf)
  <1>1. tx_buf.data_size \in Nat /\ k \in Nat /\ 1 .. k \subseteq 1 .. tx_buf.data_size
    BY DEF Buffers
  <1>2. \A i \in 1 .. k : s[i] = c[i]
    BY <1>1 DEF Peek, Contents
  <1>3. \A i \in 1 .. k : c[i] \in 0 .. m
    BY <1>1, ContentsType, Zenon
  <1>4. \A i \in 1 .. k : s[i] \in 1 .. m
    BY <1>1, <1>2, <1>3 DEF Ordered
  <1>5. s \in [1 .. k -> 1 .. m]
    BY <1>4 DEF Peek
  <1>6. s \in Seq(1 .. m) /\ Len(s) = k
    <2>1. s \in Seq(1 .. m)
      BY <1>1, <1>5, IsASeq DEF Peek
    <2>2. DOMAIN s = 1 .. k
      BY DEF Peek
    <2> QED BY <2>1, <2>2, <1>1, LenProperties
  <1>7. sent' = s /\ last' = IF s = <<>> THEN last ELSE s[Len(s)]
    BY DEF Sends
  <1>8. s = <<>> <=> k = 0
    BY <1>6, EmptySeq
  <1>9. last' = IF k = 0 THEN last ELSE c[k]
    <2>1. k # 0 => k \in 1 .. k
      BY <1>1
    <2> QED BY <2>1, <1>2, <1>6, <1>7, <1>8
  <1>10. InOrder(s, last)
    <2> SUFFICES ASSUME NEW i \in 1 .. k
                 PROVE  s[i] > IF i = 1 THEN last ELSE s[i - 1]
      BY <1>6, Zenon DEF InOrder
    <2>1. CASE i = 1
      BY <1>1, <1>2, <2>1 DEF Ordered
    <2>2. CASE i # 1
      <3>1. i - 1 \in 1 .. i - 1 /\ i - 1 \in 1 .. k /\ i \in 1 .. tx_buf.data_size
        BY <1>1, <2>2
      <3>2. c[i - 1] < c[i]
        BY <3>1 DEF Ordered
      <3>3. s[i - 1] = c[i - 1] /\ s[i] = c[i]
        BY <1>2, <3>1
      <3> QED BY <1>3, <2>2, <3>1, <3>2, <3>3
    <2> QED BY <2>1, <2>2
  <1> QED BY <1>6, <1>7, <1>9, <1>10

(* The inductive invariant: types, and a queue that follows the wire.      *)
StreamInv == TypeOK /\ QueueFollowsWire

(* The same in the form in which the steps establish it.                   *)
LEMMA StreamInvParts ==
  StreamInv <=>
    /\ caller \in Callers
    /\ tx_buf \in Buffers(0 .. next - 1) /\ tx \in BOOLEAN
    /\ status \in {"open", "closed", "crashed"}
    /\ next \in 1 .. Total + 1 /\ last \in 0 .. next - 1
    /\ sent \in Seq(1 .. next - 1)
    /\ status = "open" => Aligned(tx_buf) /\ Ordered(tx_buf, last)
  BY DEF StreamInv, TypeOK, QueueFollowsWire, Buffers, Aligned, Ordered

LEMMA StreamInvPartsNext ==
  StreamInv' <=>
    /\ caller' \in Callers
    /\ tx_buf' \in Buffers(0 .. next' - 1) /\ tx' \in BOOLEAN
    /\ status' \in {"open", "closed", "crashed"}
    /\ next' \in 1 .. Total + 1 /\ last' \in 0 .. next' - 1
    /\ sent' \in Seq(1 .. next' - 1)
    /\ status' = "open" => Aligned(tx_buf') /\ Ordered(tx_buf', last')
  BY DEF StreamInv, TypeOK, QueueFollowsWire, Buffers, Aligned, Ordered, Contents, Peek

LEMMA EmptyBufferType ==
  /\ EmptyBuffer(0) \in Buffers(0 .. 0)
  /\ Aligned(EmptyBuffer(0))
  /\ \A l : Ordered(EmptyBuffer(0), l)
  <1>1. 0 \in Cells /\ 0 \in 0 .. Size
    BY SizeAssumption DEF Cells
  <1>2. EmptyBuffer(0) \in Buffers(0 .. 0)
    BY <1>1 DEF EmptyBuffer, Buffers
  <1>3. Aligned(EmptyBuffer(0))
    <2>1. 0 % Size = 0
      BY SizeAssumption, Remainder
    <2> QED BY <2>1 DEF Aligned, EmptyBuffer
  <1>4. \A l : Ordered(EmptyBuffer(0), l)
    BY DEF Ordered, EmptyBuffer
  <1> QED BY <1>2, <1>3, <1>4

LEMMA InitStreamInv == Init => StreamInv
  <1> SUFFICES ASSUME Init PROVE StreamInv
    OBVIOUS
  <1>1. tx_buf \in Buffers(0 .. next - 1) /\ Aligned(tx_buf) /\ Ordered(tx_buf, last)
    BY EmptyBufferType DEF Init
  <1>2. /\ next \in 1 .. Total + 1 /\ last \in 0 .. next - 1
        /\ sent \in Seq(1 .. next - 1) /\ tx \in BOOLEAN /\ status = "open"
        /\ caller \in Callers
    <2>1. sent \in Seq(1 .. next - 1)
      BY EmptySeq DEF Init
    <2>2. next \in 1 .. Total + 1 /\ last \in 0 .. next - 1
      BY StreamAssumption DEF Init
    <2> QED BY <2>1, <2>2 DEF Init
  <1> QED BY <1>1, <1>2, StreamInvParts

(* Every step keeps the invariant and sends in order.                      *)
LEMMA StreamStep ==
  ASSUME StreamInv, Next
  PROVE  StreamInv' /\ InOrder(sent', last)
  <1>1. /\ tx_buf \in Buffers(0 .. next - 1) /\ tx \in BOOLEAN
        /\ next \in Nat \ {0} /\ next \in 1 .. Total + 1 /\ last \in 0 .. next - 1
        /\ status = "open" => Aligned(tx_buf) /\ Ordered(tx_buf, last)
        /\ tx_buf.data_size \in 0 .. Size /\ Total \in Nat
        /\ caller \in Callers /\ caller' \in Callers
    <2>1. tx_buf \in Buffers(0 .. next - 1) => tx_buf.data_size \in 0 .. Size
      BY DEF Buffers
    <2> QED BY <2>1, StreamInvParts, StreamAssumption DEF Next
  <1>2. /\ \A len \in Nat : next + len <= Total + 1 => next + len \in 1 .. Total + 1
        /\ \A len \in 1 .. MaxLen[caller] : len \in Nat
        /\ \A len \in Nat : tx_buf \in Buffers(0 .. (next + len) - 1)
    <2>1. \A len \in Nat : 0 .. next - 1 \subseteq 0 .. (next + len) - 1
      BY <1>1
    <2>2. MaxLen[caller] \in Nat
      BY <1>1, StreamAssumption
    <2> QED BY <1>1, <2>1, <2>2, BuffersGrow
  <1>3. ASSUME NEW len \in 1 .. MaxLen[caller], WriteBehind(len)
        PROVE  StreamInv' /\ InOrder(sent', last)
    <2>1. /\ next' = next + len /\ next' \in 1 .. Total + 1
          /\ sent' = <<>> /\ last' = last /\ InOrder(sent', last)
          /\ Aligned(tx_buf) /\ Ordered(tx_buf, last)
      BY <1>1, <1>2, <1>3, SendsNothing DEF WriteBehind
    <2>2. last' \in 0 .. next' - 1 /\ sent' \in Seq(1 .. next' - 1)
      BY <1>1, <1>2, <2>1, EmptySeq
    <2>3. CASE CanPut(tx_buf, len)
      <3>1. Returns(TRUE, Put(tx_buf, Bytes(next, len)), tx)
        BY <1>3, <2>3 DEF WriteBehind
      <3>2. /\ Put(tx_buf, Bytes(next, len)) \in Buffers(0 .. next + len - 1)
            /\ Aligned(Put(tx_buf, Bytes(next, len)))
            /\ Ordered(Put(tx_buf, Bytes(next, len)), last)
        BY <1>1, <1>2, <2>1, <2>3, PutKeepsOrder
      <3> QED BY <1>1, <2>1, <2>2, <3>1, <3>2, StreamInvPartsNext DEF Returns
    <2>4. CASE ~CanPut(tx_buf, len)
      <3>1. Returns(FALSE, tx_buf, tx)
        BY <1>3, <2>4 DEF WriteBehind
      <3> QED BY <1>1, <1>2, <2>1, <2>2, <3>1, StreamInvPartsNext DEF Returns
    <2> QED BY <2>3, <2>4
  <1>4. ASSUME NEW len \in 1 .. MaxLen[caller], WriteError(len)
        PROVE  StreamInv' /\ InOrder(sent', last)
    <2>1. /\ next' = next + len /\ next' \in 1 .. Total + 1
          /\ sent' = <<>> /\ last' = last /\ InOrder(sent', last)
          /\ Aligned(tx_buf) /\ Ordered(tx_buf, last)
          /\ Returns(FALSE, tx_buf, tx)
      BY <1>1, <1>2, <1>4, SendsNothing DEF WriteError
    <2>2. last' \in 0 .. next' - 1 /\ sent' \in Seq(1 .. next' - 1)
      BY <1>1, <1>2, <2>1, EmptySeq
    <2> QED BY <1>1, <1>2, <2>1, <2>2, StreamInvPartsNext DEF Returns
  <1>5. ASSUME NEW len \in 1 .. MaxLen[caller], NEW k \in 0 .. len, WriteNow(len, k)
        PROVE  StreamInv' /\ InOrder(sent', last)
    <2>1. /\ k \in Nat /\ len \in Nat /\ len - k \in Nat
          /\ next' = next + len /\ next' \in 1 .. Total + 1
          /\ Sends(Bytes(next, k)) /\ IsEmpty(tx_buf)
          /\ Aligned(tx_buf) /\ Ordered(tx_buf, last)
      BY <1>1, <1>2, <1>5 DEF WriteNow
    <2>2. /\ sent' \in Seq(1 .. next + k - 1)
          /\ last' = IF k = 0 THEN last ELSE next + k - 1
          /\ InOrder(sent', last)
      BY <1>1, <2>1, SendsBytes
    <2>3. last' \in 0 .. next' - 1 /\ sent' \in Seq(1 .. next' - 1)
      <3> DEFINE older == 1 .. next + k - 1
                 newer == 1 .. next' - 1
      <3>1. older \subseteq newer
        BY <1>1, <2>1
      <3>2. sent' \in Seq(newer)
        <4>1. sent' \in Seq(older)
          BY <2>2
        <4> HIDE DEF older, newer
        <4> QED BY <3>1, <4>1, SeqMonotonic
      <3> QED BY <1>1, <2>1, <2>2, <3>2
    <2>4. \A l : Ordered(tx_buf, l)
      BY <2>1 DEF Ordered, IsEmpty
    <2>5. CASE k = len
      <3>1. Returns(TRUE, tx_buf, tx)
        BY <1>5, <2>5 DEF WriteNow
      <3> QED BY <1>1, <1>2, <2>1, <2>2, <2>3, <2>4, <3>1, StreamInvPartsNext DEF Returns
    <2>6. CASE k # len /\ CanPut(tx_buf, len - k)
      <3> DEFINE new == Put(tx_buf, Bytes(next + k, len - k))
      <3>1. Returns(FALSE, new, tx)
        BY <1>5, <2>6 DEF WriteNow
      <3>2. /\ next + k \in Nat /\ next + k > 0 /\ last' \in 0 .. (next + k) - 1
            /\ tx_buf \in Buffers(0 .. (next + k) - 1)
            /\ (next + k) + (len - k) - 1 = next' - 1
        <4>1. tx_buf \in Buffers(0 .. (next + k) - 1)
          <5>1. k \in Nat /\ \A n \in Nat : tx_buf \in Buffers(0 .. (next + n) - 1)
            BY <1>2, <2>1
          <5> QED BY <5>1, Zenon
        <4>2. /\ next + k \in Nat /\ next + k > 0 /\ last' \in 0 .. (next + k) - 1
              /\ (next + k) + (len - k) - 1 = next' - 1
          BY <1>1, <2>1, <2>2
        <4> QED BY <4>1, <4>2
      <3>3. /\ new \in Buffers(0 .. next' - 1) /\ Aligned(new) /\ Ordered(new, last')
        BY <2>1, <2>4, <2>6, <3>2, PutKeepsOrder
      <3> QED BY <1>1, <2>1, <2>2, <2>3, <3>1, <3>3, StreamInvPartsNext DEF Returns
    <2>7. CASE k # len /\ ~CanPut(tx_buf, len - k)
      <3>1. Returns(TRUE, tx_buf, TRUE)
        BY <1>5, <2>7 DEF WriteNow
      <3> QED BY <1>1, <1>2, <2>1, <2>2, <2>3, <2>4, <3>1, StreamInvPartsNext DEF Returns
    <2> QED BY <2>5, <2>6, <2>7
  <1>6. ASSUME NEW k \in 0 .. Chunk, TxEvent(k)
        PROVE  StreamInv' /\ InOrder(sent', last)
    <2>1. /\ next' = next /\ status' = "open" /\ status = "open"
          /\ Aligned(tx_buf) /\ Ordered(tx_buf, last)
          /\ Sends(Peek(tx_buf, k)) /\ tx_buf' = Advance(tx_buf, k)
          /\ tx' \in BOOLEAN
      BY <1>1, <1>6 DEF TxEvent
    <2>2. k \in 0 .. tx_buf.data_size /\ next - 1 \in Nat /\ last \in Nat
      BY <1>1, <1>6, StreamAssumption DEF TxEvent, ChunkOf
    <2>3. /\ sent' \in Seq(1 .. next - 1)
          /\ last' = IF k = 0 THEN last ELSE Contents(tx_buf)[k]
          /\ InOrder(sent', last)
      BY <1>1, <2>1, <2>2, SendsPeek
    <2>4. /\ Advance(tx_buf, k) \in Buffers(0 .. next - 1)
          /\ Aligned(Advance(tx_buf, k))
          /\ Ordered(Advance(tx_buf, k), last')
      BY <1>1, <2>1, <2>2, <2>3, AdvanceKeepsOrder
    <2>5. last' \in 0 .. next - 1
      <3>1. k # 0 => k \in 1 .. tx_buf.data_size
        BY <2>2
      <3>2. k # 0 => Contents(tx_buf)[k] \in 0 .. next - 1
        BY <1>1, <3>1, ContentsType
      <3> QED BY <1>1, <2>3, <3>2
    <2> QED BY <1>1, <2>1, <2>3, <2>4, <2>5, StreamInvPartsNext
  <1>7. ASSUME TxEventFails
        PROVE  StreamInv' /\ InOrder(sent', last)
    <2>1. /\ tx_buf' = tx_buf /\ tx' = tx /\ next' = next /\ status' = "crashed"
          /\ sent' = <<>> /\ last' = last /\ InOrder(sent', last)
      BY <1>7, SendsNothing DEF TxEventFails
    <2> QED BY <1>1, <2>1, EmptySeq, StreamInvPartsNext
  <1>8. ASSUME PeerCloses
        PROVE  StreamInv' /\ InOrder(sent', last)
    <2>1. /\ tx_buf' = tx_buf /\ tx' = FALSE /\ next' = next /\ status' = "closed"
          /\ sent' = <<>> /\ last' = last /\ InOrder(sent', last)
      BY <1>8, SendsNothing DEF PeerCloses
    <2> QED BY <1>1, <2>1, EmptySeq, StreamInvPartsNext
  <1>9. ASSUME Reopen
        PROVE  StreamInv' /\ InOrder(sent', last)
    <2>1. /\ tx_buf' = EmptyBuffer(0) /\ tx' = FALSE /\ next' = next
          /\ status' = "open" /\ sent' = <<>> /\ last' = next - 1
      BY <1>9 DEF Reopen
    <2>2. InOrder(sent', last)
      BY <2>1 DEF InOrder
    <2>3. 0 .. 0 \subseteq 0 .. next - 1
      BY <1>1
    <2>4. EmptyBuffer(0) \in Buffers(0 .. next - 1)
      BY <2>3, EmptyBufferType, BuffersGrow
    <2>5. /\ tx_buf' \in Buffers(0 .. next' - 1) /\ last' \in 0 .. next' - 1
          /\ Aligned(tx_buf') /\ Ordered(tx_buf', last')
      BY <1>1, <2>1, <2>4, EmptyBufferType
    <2>6. sent' \in Seq(1 .. next' - 1)
      BY <2>1, EmptySeq
    <2> QED BY <1>1, <2>1, <2>2, <2>5, <2>6, StreamInvPartsNext
  <1> QED BY <1>3, <1>4, <1>5, <1>6, <1>7, <1>8, <1>9 DEF Next, Step

LEMMA StreamStutter == StreamInv /\ UNCHANGED vars => StreamInv'
  BY StreamInvParts, StreamInvPartsNext DEF vars

(* The queue and the watcher stay within their types, for every size of    *)
(* buffer and every length of write.                                       *)
THEOREM StreamTyping == Spec => []TypeOK
  <1>1. StreamInv /\ [Next]_vars => StreamInv'
    BY StreamStep, StreamStutter
  <1>2. StreamInv => TypeOK
    BY DEF StreamInv
  <1> QED BY <1>1, <1>2, InitStreamInv, PTL DEF Spec

(* However the buffer wraps around, what is queued is what comes next, in  *)
(* the order in which it was written (circ_buffer.c, stream_write and the  *)
(* tx event together).                                                     *)
THEOREM QueueIsInOrder == Spec => []QueueFollowsWire
  <1>1. StreamInv /\ [Next]_vars => StreamInv'
    BY StreamStep, StreamStutter
  <1>2. StreamInv => QueueFollowsWire
    BY DEF StreamInv
  <1> QED BY <1>1, <1>2, InitStreamInv, PTL DEF Spec

(* A peer never receives a byte twice, or an older byte after a newer one. *)
THEOREM WireIsInOrder == Spec => WireInOrder
  <1> DEFINE InSequence == \A i \in 1 .. Len(sent') :
                       sent'[i] > IF i = 1 THEN last ELSE sent'[i - 1]
  <1>1. StreamInv /\ [Next]_vars => StreamInv'
    BY StreamStep, StreamStutter
  <1>2. StreamInv /\ [Next]_vars => [InSequence]_vars
    BY StreamStep DEF InOrder
  <1>3. Spec => [][InSequence]_vars
    BY <1>1, <1>2, InitStreamInv, PTL DEF Spec
  <1> QED BY <1>3 DEF WireInOrder
-----------------------------------------------------------------------------
(* A caller that closes the stream on FALSE, the Modbus TCP master, never  *)
(* has anything queued on an open stream: stream_write answers FALSE       *)
(* whenever it queues a rest.                                              *)
NeverQueues == status = "open" => tx_buf.data_size = 0 /\ last = next - 1

LEMMA NeverQueuesStep ==
  ASSUME ~IgnoresFailure, StreamInv, NeverQueues, [Next]_vars
  PROVE  NeverQueues'
  <1>1. /\ tx_buf.data_size \in Nat /\ next \in Nat \ {0} /\ last \in Nat
        /\ MaxLen[caller] \in Nat /\ Size \in Nat /\ MaxLen[caller] <= Size
    BY StreamInvParts, StreamAssumption, SizeAssumption
       DEF Buffers, IgnoresFailure, Callers
  <1>2. ASSUME NEW len \in 1 .. MaxLen[caller], WriteBehind(len)
        PROVE  NeverQueues'
    BY <1>1, <1>2 DEF WriteBehind, NeverQueues, IsEmpty
  <1>3. ASSUME NEW len \in 1 .. MaxLen[caller], WriteError(len)
        PROVE  NeverQueues'
    BY <1>3 DEF WriteError, Returns, NeverQueues
  <1>4. ASSUME NEW len \in 1 .. MaxLen[caller], NEW k \in 0 .. len, WriteNow(len, k)
        PROVE  NeverQueues'
    <2>1. len \in Nat \ {0} /\ len - k \in Nat /\ len - k <= Size /\ k \in Nat
      BY <1>1
    <2>2. tx_buf.data_size = 0 /\ next' = next + len /\ Sends(Bytes(next, k))
      BY <1>4 DEF WriteNow, IsEmpty
    <2>3. CASE k = len
      <3>1. Returns(TRUE, tx_buf, tx)
        BY <1>4, <2>3 DEF WriteNow
      <3>2. next \in Nat \ {0} /\ last \in 0 .. next - 1
        BY StreamInvParts
      <3>3. last' = next + k - 1
        BY <2>1, <2>2, <2>3, <3>2, SendsBytes
      <3> QED BY <1>1, <2>1, <2>2, <2>3, <3>1, <3>3 DEF Returns, NeverQueues
    <2>4. CASE k # len
      <3>1. CanPut(tx_buf, len - k)
        BY <1>1, <2>1, <2>2 DEF CanPut
      <3>2. status' = "closed"
        BY <1>4, <2>4, <3>1 DEF WriteNow, Returns
      <3> QED BY <3>2 DEF NeverQueues
    <2> QED BY <2>3, <2>4
  <1>5. ASSUME NEW k \in 0 .. Chunk, TxEvent(k)
        PROVE  NeverQueues'
    <2>1. k = 0 /\ status = "open" /\ tx_buf' = Advance(tx_buf, k)
          /\ Sends(Peek(tx_buf, k)) /\ next' = next
      BY <1>1, <1>5, StreamAssumption DEF TxEvent, ChunkOf, NeverQueues
    <2>2. last' = last
      BY <2>1 DEF Sends, Peek
    <2> QED BY <1>1, <2>1, <2>2 DEF NeverQueues, Advance
  <1>6. ASSUME TxEventFails
        PROVE  NeverQueues'
    BY <1>6 DEF TxEventFails, NeverQueues
  <1>7. ASSUME PeerCloses
        PROVE  NeverQueues'
    BY <1>7 DEF PeerCloses, NeverQueues
  <1>8. ASSUME Reopen
        PROVE  NeverQueues'
    BY <1>8 DEF Reopen, NeverQueues, EmptyBuffer
  <1>9. CASE UNCHANGED vars
    BY <1>9 DEF vars, NeverQueues
  <1> QED BY <1>2, <1>3, <1>4, <1>5, <1>6, <1>7, <1>8, <1>9 DEF Next, Step

(* The connection of a Modbus TCP master has no gap: while it is open, all *)
(* that was written on it has been sent or is in the buffer, in order.     *)
THEOREM NothingIsLost == Spec => []NothingLost
  <1> DEFINE I == StreamInv /\ (~IgnoresFailure => NeverQueues)
  <1>1. Init => I
    BY InitStreamInv DEF Init, NeverQueues, EmptyBuffer
  <1>2. I /\ [Next]_vars => I'
    <2> SUFFICES ASSUME I, [Next]_vars
                 PROVE  I'
      OBVIOUS
    <2>1. caller' = caller
      BY DEF Next, vars
    <2>2. StreamInv'
      BY StreamStep, StreamStutter
    <2>3. ~IgnoresFailure => NeverQueues'
      BY NeverQueuesStep
    <2> QED BY <2>1, <2>2, <2>3 DEF IgnoresFailure
  <1>3. I => NothingLost
    <2>1. StreamInv => next \in Nat /\ last \in Nat
      BY StreamInvParts
    <2> QED BY <2>1 DEF NeverQueues, NothingLost
  <1> QED BY <1>1, <1>2, <1>3, PTL DEF Spec
=============================================================================
