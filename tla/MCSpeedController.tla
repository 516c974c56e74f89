-------------------------- MODULE MCSpeedController --------------------------
(* Small instances of the control loop for TLC. *)
EXTENDS SpeedController

Single(a, v) == [to |-> SlaveId, whole |-> TRUE, fcode |-> MB_FC_WRITE_REG,
                 field1 |-> a, field2 |-> v, bytecount |-> 0, data |-> <<>>]

Block(a, words) == [to |-> SlaveId, whole |-> TRUE, fcode |-> MB_FC_WRITE_REGS,
                    field1 |-> a, field2 |-> Len(words), bytecount |-> 2 * Len(words),
                    data |-> words]

ReadOf(a, n) == [to |-> SlaveId, whole |-> TRUE, fcode |-> MB_FC_READ_REGS,
                 field1 |-> a, field2 |-> n, bytecount |-> 0, data |-> <<>>]

(* Control off and on, a demand, both settings of the control law, a         *)
(* coefficient out of range, a status register and one that does not exist;  *)
(* blocks: control and demand at once, some settings, the last register, one *)
(* past it, one with a wrong count, none and too many; reads likewise; and   *)
(* frames for all, for another slave, damaged, and of an unknown function,   *)
(* the exception to which has the code of a read.                            *)
SomeTraffic ==
    { Single(0, 0), Single(0, 2), Single(2, 1), Single(4, 0), Single(5, 0), Single(6, 15),
      Single(3, 5), Single(10, 1),
      Block(0, <<2, 0, 2>>), Block(4, <<1, 10>>), Block(9, <<3>>), Block(9, <<3, 3>>),
      Block(0, <<>>), [Block(5, <<1>>) EXCEPT !.bytecount = 1],
      ReadOf(0, 10), ReadOf(0, 3), ReadOf(9, 3), ReadOf(4, 0), ReadOf(1, 13),
      [Single(0, 2) EXCEPT !.to = Broadcast], [Single(0, 0) EXCEPT !.to = SlaveId + 1],
      [Single(0, 0) EXCEPT !.whole = FALSE], [ReadOf(0, 1) EXCEPT !.fcode = 131] }

(* Few enough of them to leave room for the closed loop: orders one at a     *)
(* time, all at once and for all, a write of every other kind, and a read.   *)
Orders ==
    { Single(0, 0), Single(2, 1), Block(0, <<2, 0, 3>>), Block(5, <<9, 31>>),
      Single(3, 9), Block(9, <<3, 3>>), ReadOf(0, 10),
      [Single(0, 2) EXCEPT !.to = Broadcast], [Single(0, 0) EXCEPT !.whole = FALSE] }

Noisy == {-1, 0, 1}
Exact == {0}
=============================================================================
