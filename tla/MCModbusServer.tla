---------------------------- MODULE MCModbusServer ---------------------------
(* The server alone, with messages of a few bytes.                           *)
EXTENDS ModbusServer

MCBodyLength == [request |-> 4, response |-> 5, exception |-> 1]
==============================================================================
