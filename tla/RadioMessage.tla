----------------------------- MODULE RadioMessage -----------------------------
(***************************************************************************)
(* What the radio promises the pump's receiver: messages go out one at a   *)
(* time, each as the complete train of its pulses, every pulse of the      *)
(* width its bit asks for and after the pause the bit before it asks for,  *)
(* except that the first pulse may be spoiled (FirstWidths).               *)
(* RadioTransmitter implements this with a timer interrupt.                *)
(***************************************************************************)
EXTENDS Naturals, Sequences

CONSTANTS
    N,            \* bits in a message; 28 in the code
    Bits,         \* the bits of each message
    SHORT, LONG,  \* RADIO_SHORT_CYCLE_COUNT, RADIO_LONG_CYCLE_COUNT
    FirstWidths   \* widths that the first pulse may have by mistake

Messages == {"faster", "slower"}
NoMessage == "none"

(* A 1 is a long pulse and a short pause, a 0 a short pulse and a long pause. *)
HighCount(m, i) == IF Bits[m][i] = 1 THEN LONG ELSE SHORT
LowCount(m, i)  == IF Bits[m][i] = 1 THEN SHORT ELSE LONG

Widths(m, i) == {HighCount(m, i)} \union IF i = 1 THEN FirstWidths ELSE {}

(* Pulse i of a message and the pause before it; nothing is promised of the  *)
(* pause before the first one.                                               *)
Pulses(m, i) == {[high |-> w, gap |-> IF i = 1 THEN 0 ELSE LowCount(m, i - 1)] : w \in Widths(m, i)}

VARIABLES
    message,   \* the message on the air, or NoMessage
    pulses     \* the pulses of it that have gone out

Init == message = NoMessage /\ pulses = <<>>

Start(m) ==
    /\ message = NoMessage
    /\ message' = m
    /\ pulses' = <<>>

Emit ==
    /\ message # NoMessage
    /\ \E p \in Pulses(message, Len(pulses) + 1) : pulses' = Append(pulses, p)
    /\ message' = IF Len(pulses) + 1 = N THEN NoMessage ELSE message

Next == Emit \/ \E m \in Messages : Start(m)

(* A message once begun is sent to its end. *)
Spec == Init /\ [][Next]_<<message, pulses>> /\ WF_<<message, pulses>>(Emit)
=============================================================================
