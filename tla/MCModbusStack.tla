---------------------------- MODULE MCModbusStack ----------------------------
(* Messages of a few bytes, so that every way to cut them up is explored.    *)
EXTENDS ModbusStack

MCBodyLength == [request |-> 4, response |-> 5, exception |-> 1]
==============================================================================
