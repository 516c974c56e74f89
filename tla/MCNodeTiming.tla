---------------------------- MODULE MCNodeTiming ----------------------------
(* The web server and its timers. *)
EXTENDS NodeTiming, MCNodeServer

(* Long enough that requests pile up if they are added faster than they are  *)
(* sent; with a pause, whose speed is not sent.                              *)
LongWorkout == << <<[speed |-> 10, duration |-> 4], [speed |-> 0, duration |-> 1],
                    [speed |-> 40, duration |-> 4]>> >>

(* The last section is entered ahead of its time. *)
NearEnd == {7}
=============================================================================
