---------------------------- MODULE MCModbusSlave ----------------------------
EXTENDS ModbusSlave, TLC

NoRange == [start |-> 0, n |-> 0]
Frame(fn, read, write, values) ==
  [fn |-> fn, uid |-> "mine", read |-> read, write |-> write, values |-> values,
   fits |-> "yes", body |-> 1, length |-> 2]

At(start, n) == [start |-> start, n |-> n]

(* Data and flag together; one register too many; the last address, from   *)
(* where the loop comes round to address 0; data alone, and the flag read  *)
(* back; a count with more than its low byte.                              *)
Announce == Frame("write_registers", NoRange, At(2, 2), <<1, 1>>)
TooMany == Frame("write_registers", NoRange, At(2, 3), <<2, 2, 2>>)
Last == Frame("write_register", NoRange, At(7, 1), <<1>>)
Both == Frame("read_write", At(3, 1), At(2, 1), <<3>>)
Poll == Frame("read_input", At(0, 2), NoRange, <<>>)
PollMany == Frame("read_holding", At(2, 5), NoRange, <<>>)
Alarms == Frame("read_coils", At(0, 2), NoRange, <<>>)

(* The frame Alarms on the connection has a length that is one too small;  *)
(* the last frame of the line is too long.                                 *)
MCMenu ==
  [l \in {"conn", "line"} |->
    CASE l = "conn" -> <<{[Announce EXCEPT !.body = 2, !.length = 3], Both,
                          [Alarms EXCEPT !.body = 2]},
                         {[Poll EXCEPT !.body = 2, !.length = 3]}>>
      [] l = "line" -> <<{[TooMany EXCEPT !.uid = "broadcast"], Last,
                          [PollMany EXCEPT !.uid = "other"],
                          [PollMany EXCEPT !.body = 2]}>>]

Reg(num) == [alarm |-> FALSE, num |-> num, data |-> TRUE, status |-> FALSE]
(* Register 7 is mapped to a channel that does not exist.                  *)
MCRegMap ==
  (<<"holding", 0>> :> [Reg("flag") EXCEPT !.data = FALSE, !.status = TRUE]
   @@ <<"holding", 2>> :> Reg("data") @@ <<"holding", 3>> :> Reg("flag")
   @@ <<"holding", 7>> :> Reg("none")
   @@ <<"input", 0>> :> Reg("out_flag") @@ <<"input", 1>> :> Reg("out_data")
   @@ <<"coil", 0>> :> [Reg("flag") EXCEPT !.alarm = TRUE]
   @@ <<"coil", 1>> :> [Reg("data") EXCEPT !.status = TRUE])

MCInputs == <<"flag", "data">>
MCOutputs == <<"out_data", "out_flag">>

MCMaxQuantity ==
  [fn \in Reads \cup Writes |-> IF fn = "read_coils" THEN 4 ELSE 3]
=============================================================================
