----------------------------- MODULE CircBuffer -----------------------------
(***************************************************************************)
(* The circular buffer of src/utils/circ_buffer.c, as operators on the     *)
(* circ_buffer_t record.  Cells are numbered from 0 as in the code.        *)
(***************************************************************************)
EXTENDS Integers, Sequences

CONSTANT Size            (* the size given to circ_buffer_init             *)

ASSUME SizeAssumption == Size \in Nat \ {0}

Cells == 0 .. Size - 1

(* Fresh memory holds whatever malloc returns: junk stands for it.         *)
EmptyBuffer(junk) ==
  [begin |-> 0, end |-> 0, data_size |-> 0, buffer |-> [i \in Cells |-> junk]]

IsEmpty(cb) == cb.data_size = 0

CanPut(cb, n) == cb.data_size + n <= Size

(* How far cell i lies behind end, going round the buffer.                 *)
CellNumber(cb, i) == IF i >= cb.end THEN i - cb.end ELSE i + Size - cb.end

(* Mutant: the part behind the wrap is copied from the start of the data. *)
PutWrapsFromStart(cb, data) ==
  [begin |-> cb.begin,
   end |-> (cb.end + Len(data)) % Size,
   data_size |-> cb.data_size + Len(data),
   buffer |-> [i \in Cells |->
     LET j == IF i >= cb.end THEN i - cb.end ELSE i
     IN  IF CellNumber(cb, i) < Len(data) THEN data[j + 1] ELSE cb.buffer[i]]]

(* circ_buffer_put when the data fit: the two copies before and after the  *)
(* wrap put each byte into the cell that lies as far behind end.           *)
Put(cb, data) ==
  [begin |-> cb.begin,
   end |-> (cb.end + Len(data)) % Size,
   data_size |-> cb.data_size + Len(data),
   buffer |-> [i \in Cells |->
     IF CellNumber(cb, i) < Len(data) THEN data[CellNumber(cb, i) + 1]
                                      ELSE cb.buffer[i]]]

(* circ_buffer_peek of n bytes that are there.                             *)
Peek(cb, n) == [i \in 1 .. n |-> cb.buffer[(cb.begin + (i - 1)) % Size]]

(* circ_buffer_advance.                                                    *)
Advance(cb, n) ==
  [begin |-> (cb.begin + n) % Size, end |-> cb.end,
   data_size |-> cb.data_size - n, buffer |-> cb.buffer]

(* Everything that is queued, oldest first.                                *)
Contents(cb) == Peek(cb, cb.data_size)
=============================================================================
