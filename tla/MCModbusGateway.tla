--------------------------- MODULE MCModbusGateway ---------------------------
(* Small instances of the gateway for TLC. *)
EXTENDS ModbusGateway

(* Faults under which a frame is still either received whole or not at all. *)
WholeFrameFaults == FaultKinds \ {"split", "noise"}

AllFaults == FaultKinds

NoFaults == {}
=============================================================================
