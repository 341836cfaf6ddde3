------------------------------- MODULE Stream -------------------------------
(***************************************************************************)
(* The sending side of a stream_t, src/utils/stream.c, with its watcher    *)
(* and the socket below it.  Modbus TCP, Modbus RTU and the command line   *)
(* send through it, one thread to a stream.  The bytes that are written    *)
(* are numbered in the order of the calls, so that what the peer receives  *)
(* can be compared with what was written.                                  *)
(***************************************************************************)
EXTENDS CircBuffer

CONSTANTS
  MaxLen,     (* longest write of each kind of caller                      *)
  Chunk,      (* bytes one tx event tries to send: 128 in the code         *)
  Total       (* bound on the number of bytes written                      *)

(* The Modbus TCP master closes the stream when stream_write is FALSE, and *)
(* its longest request is half of its queue of 512 bytes                   *)
(* (modbus_master.h:6, modbus_tcp_master.c:145).  The others, the command  *)
(* line and the Modbus slaves, trace the failure and go on.                *)
Callers == {"master", "other"}

ASSUME StreamAssumption ==
  /\ MaxLen \in [Callers -> Nat \ {0}] /\ MaxLen["master"] <= Size
  /\ Chunk \in Nat \ {0} /\ Total \in Nat

VARIABLES
  caller,     (* who writes to this stream                                 *)
  tx_buf,     (* the circular buffer                                       *)
  tx,         (* is the tx watcher on?                                     *)
  status,     (* "open", "closed", or "crashed" for the whole server       *)
  next,       (* history: the number of the next byte to be written        *)
  last,       (* history: the newest byte the peer has got                 *)
  sent        (* history: the bytes the socket took in the latest step     *)

vars == <<caller, tx_buf, tx, status, next, last, sent>>

Init ==
  /\ caller \in Callers
  /\ tx_buf = EmptyBuffer(0)
  /\ tx = FALSE
  /\ status = "open"
  /\ next = 1 /\ last = 0 /\ sent = <<>>

IgnoresFailure == caller # "master"

Bytes(first, len) == [i \in 1 .. len |-> first + i - 1]

(* The socket takes data, which may be nothing.                            *)
Sends(data) ==
  /\ sent' = data
  /\ last' = IF data = <<>> THEN last ELSE data[Len(data)]

(* Mutant: the caller keeps the stream open whatever the result.           *)
ReturnsIgnored(ret, buf, w) == tx_buf' = buf /\ tx' = w /\ status' = "open"

(* stream_write returns ret and leaves the queue buf and the watcher w.    *)
(* A caller that minds FALSE, the Modbus TCP master, closes the stream at  *)
(* once and reconnects.                                                    *)
Returns(ret, buf, w) ==
  /\ tx_buf' = buf
  /\ tx' = (w /\ (ret \/ IgnoresFailure))
  /\ status' = IF ret \/ IgnoresFailure THEN "open" ELSE "closed"

(* stream_write behind data that are queued already: all of it is queued,  *)
(* or none.                                                                *)
WriteBehind(len) ==
  /\ status = "open" /\ ~IsEmpty(tx_buf)
  /\ next + len <= Total + 1
  /\ next' = next + len
  /\ Sends(<<>>)
  /\ IF CanPut(tx_buf, len)
     THEN Returns(TRUE, Put(tx_buf, Bytes(next, len)), tx)
     ELSE Returns(FALSE, tx_buf, tx)

(* stream_write with nothing queued.  The socket takes the first k bytes,  *)
(* none of them when it would block.  The result of circ_buffer_put, 0 for *)
(* success, is compared with FALSE: a rest that was queued is reported as  *)
(* a failure and the tx watcher stays as it was; a rest that did not fit   *)
(* is reported as a success.                                               *)
WriteNow(len, k) ==
  /\ status = "open" /\ IsEmpty(tx_buf)
  /\ next + len <= Total + 1
  /\ next' = next + len
  /\ Sends(Bytes(next, k))
  /\ IF k = len
     THEN Returns(TRUE, tx_buf, tx)
     ELSE IF CanPut(tx_buf, len - k)
          THEN Returns(FALSE, Put(tx_buf, Bytes(next + k, len - k)), tx)
          ELSE Returns(TRUE, tx_buf, TRUE)

(* stream_write when the socket reports an error.                          *)
WriteError(len) ==
  /\ status = "open" /\ IsEmpty(tx_buf)
  /\ next + len <= Total + 1
  /\ next' = next + len
  /\ Sends(<<>>)
  /\ Returns(FALSE, tx_buf, tx)

ChunkOf(cb) == IF cb.data_size < Chunk THEN cb.data_size ELSE Chunk

(* stream_handle_tx_event when the socket takes k bytes, or when nothing   *)
(* is queued.                                                              *)
TxEvent(k) ==
  /\ status = "open" /\ tx /\ k <= ChunkOf(tx_buf)
  /\ k = 0 => IsEmpty(tx_buf)
  /\ Sends(Peek(tx_buf, k))
  /\ tx_buf' = Advance(tx_buf, k)
  /\ tx' = ~IsEmpty(tx_buf')
  /\ UNCHANGED <<status, next>>

(* The same when the write fails: CRASH() ends the server.                 *)
TxEventFails ==
  /\ status = "open" /\ tx /\ ~IsEmpty(tx_buf)
  /\ status' = "crashed"
  /\ Sends(<<>>)
  /\ UNCHANGED <<tx_buf, tx, next>>

(* stream_watcher_callback sees the end of the connection, or an error,    *)
(* and the owner closes the stream.                                        *)
PeerCloses ==
  /\ status = "open"
  /\ status' = "closed" /\ tx' = FALSE
  /\ Sends(<<>>)
  /\ UNCHANGED <<tx_buf, next>>

(* stream_init_with_fd for a new connection.  circ_buffer_init allocates   *)
(* memory whose contents are not known: byte 0 is nobody's.  Its failure,  *)
(* which the code does not look at, is left out: memory suffices.          *)
Reopen ==
  /\ status = "closed"
  /\ tx_buf' = EmptyBuffer(0) /\ tx' = FALSE /\ status' = "open"
  /\ sent' = <<>> /\ last' = next - 1
  /\ UNCHANGED next

Step ==
  \/ \E len \in 1 .. MaxLen[caller] :
       \/ WriteBehind(len)
       \/ WriteError(len)
       \/ \E k \in 0 .. len : WriteNow(len, k)
  \/ \E k \in 0 .. Chunk : TxEvent(k)
  \/ TxEventFails
  \/ PeerCloses
  \/ Reopen

Next == Step /\ UNCHANGED caller

Spec == Init /\ [][Next]_vars
-----------------------------------------------------------------------------
TypeOK ==
  /\ tx_buf \in [begin : Cells, end : Cells, data_size : 0 .. Size,
                 buffer : [Cells -> 0 .. next - 1]]
  /\ caller \in Callers
  /\ tx \in BOOLEAN
  /\ status \in {"open", "closed", "crashed"}
  /\ next \in 1 .. Total + 1 /\ last \in 0 .. next - 1
  /\ sent \in Seq(1 .. next - 1)

(***************************************************************************)
(* What the socket takes is always newer than what it took before, and in  *)
(* the order of the calls: nothing is repeated or overtaken, however the   *)
(* queue wraps around and whatever was lost.  A Modbus peer could not make *)
(* sense of anything else.                                                 *)
(***************************************************************************)
WireInOrder ==
  [][ \A i \in 1 .. Len(sent') :
        sent'[i] > IF i = 1 THEN last ELSE sent'[i - 1] ]_vars

(***************************************************************************)
(* The queue continues where the wire stopped: what is queued is newer     *)
(* than what the peer has got, in order, and the indices agree.            *)
(***************************************************************************)
QueueFollowsWire ==
  status = "open" =>
    /\ tx_buf.end = (tx_buf.begin + tx_buf.data_size) % Size
    /\ \A i \in 1 .. tx_buf.data_size :
         /\ Contents(tx_buf)[i] > last
         /\ \A j \in 1 .. i - 1 : Contents(tx_buf)[j] < Contents(tx_buf)[i]

(***************************************************************************)
(* Nothing that the Modbus TCP master wrote on an open connection is       *)
(* missing: it reached the peer or it is queued, in spite of the wrong     *)
(* results of stream_write.                                                *)
(***************************************************************************)
NothingLost ==
  ~IgnoresFailure /\ status = "open" => last + tx_buf.data_size = next - 1

(***************************************************************************)
(* Queued data are waiting for a tx event, so that they will be sent       *)
(* (stream.c:133-134, "something got queued up due to socket buffer full", *)
(* "tx watcher is alreadt started in this case").                          *)
(***************************************************************************)
QueuedIsWatched ==
  status = "open" /\ ~IsEmpty(tx_buf) => tx
=============================================================================
