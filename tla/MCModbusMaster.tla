--------------------------- MODULE MCModbusMaster ---------------------------
(* Bounds for the Modbus master: a schedule of three entries, one of which *)
(* sends nothing, and five transaction identifiers.                        *)
EXTENDS ModbusMaster

OneUnmapped == {1}
=============================================================================
