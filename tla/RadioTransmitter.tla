--------------------------- MODULE RadioTransmitter ---------------------------
(***************************************************************************)
(* The radio of the Arduino (SwimSpeedController.ino): a timer interrupt   *)
(* every 350 microseconds (radioTimerISR) keys the transmitter's pin, and  *)
(* the main loop hands it messages by storing a pointer and a counter that *)
(* the interrupt also writes.  Interrupts stay enabled during the stores,  *)
(* and a pointer takes two byte stores on the AVR: the interrupt may come  *)
(* between any two of them.  The stores take less than a microsecond, so   *)
(* it comes at most once.                                                  *)
(***************************************************************************)
EXTENDS Integers, Sequences

CONSTANTS
    N,            \* bits in a message; 28 in the code
    Bits,         \* slower and faster, the bits of the two messages
    SHORT, LONG,  \* RADIO_SHORT_CYCLE_COUNT, RADIO_LONG_CYCLE_COUNT; 1 and 3
    CounterMin,   \* least value of radio_ISR_counter, a long; -2^31 in the code
    Garbage       \* bytes that a half-stored pointer may point to

CounterMax == -(CounterMin + 1)

ASSUME TransmitterAssumption ==
    /\ N \in Nat \ {0}
    /\ Bits \in [{"faster", "slower"} -> [1..N -> {0, 1}]]
    /\ SHORT \in Nat \ {0}
    /\ LONG \in Nat \ {0}
    /\ CounterMin \in Int
    /\ SHORT <= CounterMax /\ LONG <= CounterMax
    /\ Garbage \subseteq 0..CounterMax

VARIABLES
    next_radio_bit,       \* where the interrupt reads its next bit, or NULL
    radio_bit_countdown,  \* bits left to send
    radio_pin_state,
    radio_ISR_counter,    \* ticks until something is due
    store,                \* which of its stores the loop is about to do
    ticks,                \* interrupts since the loop's first store, up to 1
    run,                  \* ghost: ticks since the pin last changed
    gap,                  \* ghost: the pause before the pulse on the air
    air                   \* ghost: the pulses of the message on the air

isr  == <<next_radio_bit, radio_bit_countdown, radio_pin_state, radio_ISR_counter>>
mon  == <<run, gap, air>>
vars == <<isr, store, ticks, mon>>

Messages == {"faster", "slower"}
NULL     == [msg |-> "none", index |-> 0, part |-> "whole"]
Pointers == [msg : Messages, index : 1..N, part : {"whole", "half"}] \union {NULL}

HighCount(p) == IF Bits[p.msg][p.index] = 1 THEN LONG ELSE SHORT
LowCount(p)  == IF Bits[p.msg][p.index] = 1 THEN SHORT ELSE LONG

TypeOK ==
    /\ next_radio_bit \in Pointers
    /\ radio_bit_countdown \in 0..N
    /\ radio_pin_state \in {"LOW", "HIGH"}
    /\ radio_ISR_counter \in CounterMin..CounterMax
    /\ store \in {"none", "pointer", "countdown"}
    /\ ticks \in {0, 1}
    /\ run \in Nat
    /\ gap \in Nat
    /\ air \in Seq([high : Nat, gap : Nat])

Init ==
    /\ next_radio_bit = NULL
    /\ radio_bit_countdown = 0
    /\ radio_pin_state = "LOW"
    /\ radio_ISR_counter = 0
    /\ store = "none"
    /\ ticks = 0
    /\ run = 0
    /\ gap = 0
    /\ air = <<>>

-----------------------------------------------------------------------------
(* The interrupt. *)

MayTick == store # "none" => ticks = 0

(* radio_ISR_counter--, which wraps round when nothing has been sent for     *)
(* 2^31 ticks: it is decremented on every tick, idle or not.                 *)
Decremented ==
    IF radio_ISR_counter = CounterMin THEN CounterMax ELSE radio_ISR_counter - 1

(* What is compared with 1.  The overflow of a signed number is undefined in *)
(* C, and the compiler may compare the value before or after it wraps.       *)
Compared == {Decremented, radio_ISR_counter - 1}

Due     == next_radio_bit # NULL /\ \E c \in Compared : c < 1
Waiting == next_radio_bit # NULL => \E c \in Compared : c >= 1

(* Run lengths above this bound are told apart no more. *)
RunBound == SHORT + LONG + 1
Longer(n) == IF n < RunBound THEN n + 1 ELSE RunBound

TickWait ==
    /\ MayTick
    /\ Waiting
    /\ radio_ISR_counter' = Decremented
    /\ ticks' = IF store = "none" THEN 0 ELSE 1
    /\ run' = Longer(run)
    /\ UNCHANGED <<next_radio_bit, radio_bit_countdown, radio_pin_state, store, gap, air>>

(* A pulse begins.  A half-stored pointer points to an unrelated byte. *)
TickRise ==
    /\ MayTick
    /\ Due
    /\ radio_pin_state = "LOW"
    /\ radio_pin_state' = "HIGH"
    /\ radio_ISR_counter' \in
           IF next_radio_bit.part = "half" THEN Garbage ELSE {HighCount(next_radio_bit)}
    /\ ticks' = IF store = "none" THEN 0 ELSE 1
    /\ run' = 0
    /\ gap' = Longer(run)
    /\ UNCHANGED <<next_radio_bit, radio_bit_countdown, store, air>>

(* A pulse ends; the bit's pause begins and the next bit is looked up. *)
TickFallLeaving(left, more) ==
    /\ MayTick
    /\ Due
    /\ radio_pin_state = "HIGH"
    /\ radio_pin_state' = "LOW"
    /\ radio_ISR_counter' = LowCount(next_radio_bit)
    /\ radio_bit_countdown' = left
    /\ next_radio_bit' = IF more THEN [next_radio_bit EXCEPT !.index = @ + 1] ELSE NULL
    /\ ticks' = IF store = "none" THEN 0 ELSE 1
    /\ run' = 0
    /\ air' = Append(air, [high |-> Longer(run), gap |-> IF air = <<>> THEN 0 ELSE gap])
    /\ UNCHANGED <<store, gap>>

TickFallTooFar ==   \* mutant: radio_bit_countdown >= 0
    TickFallLeaving(radio_bit_countdown - 1, radio_bit_countdown - 1 >= 0)

TickFallTooShort ==   \* mutant: radio_bit_countdown > 1
    TickFallLeaving(radio_bit_countdown - 1, radio_bit_countdown - 1 > 1)

TickFall == TickFallLeaving(radio_bit_countdown - 1, radio_bit_countdown - 1 > 0)

-----------------------------------------------------------------------------
(* The end of loop(): a message is handed to the interrupt. *)

(* A pointer that is stored at once leaves no garbage to be read. *)
StoredParts == IF Garbage = {} THEN {"whole"} ELSE {"whole", "half"}

(* mutant: without "Only try sending if not already" *)
LoopPointAlways ==
    /\ store = "none"
    /\ \E m \in Messages, part \in StoredParts :
           /\ next_radio_bit' = [msg |-> m, index |-> 1, part |-> part]
           /\ store' = IF part = "half" THEN "pointer" ELSE "countdown"
    /\ ticks' = 0
    /\ air' = <<>>
    /\ UNCHANGED <<radio_bit_countdown, radio_pin_state, radio_ISR_counter, run, gap>>

LoopPoint ==
    /\ store = "none"
    /\ next_radio_bit = NULL
    /\ \E m \in Messages, part \in StoredParts :
           /\ next_radio_bit' = [msg |-> m, index |-> 1, part |-> part]
           /\ store' = IF part = "half" THEN "pointer" ELSE "countdown"
    /\ ticks' = 0
    /\ air' = <<>>
    /\ UNCHANGED <<radio_bit_countdown, radio_pin_state, radio_ISR_counter, run, gap>>

LoopPointRest ==
    /\ store = "pointer"
    /\ next_radio_bit' = [next_radio_bit EXCEPT !.part = "whole"]
    /\ store' = "countdown"
    /\ UNCHANGED <<radio_bit_countdown, radio_pin_state, radio_ISR_counter, ticks, mon>>

LoopCountdownOf(n) ==
    /\ store = "countdown"
    /\ radio_bit_countdown' = n
    /\ store' = "none"
    /\ UNCHANGED <<next_radio_bit, radio_pin_state, radio_ISR_counter, ticks, mon>>

LoopCountdownOffByOne == LoopCountdownOf(N + 1)   \* mutant

LoopCountdown == LoopCountdownOf(N)

-----------------------------------------------------------------------------
Tick == TickWait \/ TickRise \/ TickFall
Loop == LoopPoint \/ LoopPointRest \/ LoopCountdown
Next == Tick \/ Loop

Spec == Init /\ [][Next]_vars

(* The timer keeps running and loop() gets to the end of what it began; it   *)
(* need not send anything.                                                   *)
FairSpec == Spec /\ WF_vars(Tick) /\ WF_vars(LoopPointRest \/ LoopCountdown)

-----------------------------------------------------------------------------
(* A pulse lasts as many ticks as were counted, one at least. *)
Capped(n) == IF n < RunBound THEN n ELSE RunBound
Ticks(count) == IF count < 1 THEN 1 ELSE count
SpoiledWidths == {Capped(Ticks(g)) : g \in Garbage}

(* The radio keeps what RadioMessage promises: every message goes out whole, *)
(* once, and not mixed with another, and every pulse and pause has the width *)
(* of its bit but perhaps the first, which a half-stored pointer may spoil.  *)
Promise == INSTANCE RadioMessage WITH
    message     <- next_radio_bit.msg,
    pulses      <- air,
    FirstWidths <- SpoiledWidths

SendsMessages == Promise!Spec

(* The interrupt never reads past slower_bits or faster_bits, although the   *)
(* end of the message is told by a counter it shares with the loop and not   *)
(* by the pointer.                                                           *)
InBounds ==
    next_radio_bit # NULL =>
        /\ next_radio_bit.index \in 1..N
        /\ store = "none" => next_radio_bit.index + radio_bit_countdown = N + 1
=============================================================================
