-------------------------- MODULE MCRadioTransmitter --------------------------
(* Short messages, shaped like the code's, for TLC. *)
EXTENDS RadioTransmitter

SmallBits == [m \in {"faster", "slower"} |->
                 IF m = "faster" THEN <<0, 1, 1, 0>> ELSE <<0, 1, 0, 1>>]
SmallCounterMin == -6
SmallGarbage == {0, 2, 5}   \* CounterMax is 5
=============================================================================
