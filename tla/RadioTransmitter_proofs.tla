------------------------ MODULE RadioTransmitter_proofs ------------------------
(***************************************************************************)
(* Proofs about the radio, for messages of every length, every width of    *)
(* the pulses and every range of the counter.                              *)
(*                                                                         *)
(*   Typing         every behaviour is type correct                        *)
(*   StaysInBounds  the interrupt never reads past a message, even when it *)
(*                  sees half of a stored pointer                          *)
(*   Implements     every step of the interrupt and of the loop is a step  *)
(*                  of RadioMessage or a stutter                           *)
(***************************************************************************)
EXTENDS RadioTransmitter, SequenceTheorems, TLAPS

(* How the loop and the interrupt share the pointer and the countdown: while *)
(* the loop has not finished its stores the interrupt can at most begin the  *)
(* first pulse, which looks at neither.                                      *)
Handover ==
    /\ next_radio_bit = NULL => radio_pin_state = "LOW" /\ store = "none"
    /\ store # "none" =>
           /\ next_radio_bit # NULL
           /\ next_radio_bit.index = 1
           /\ air = <<>>
           /\ ticks = 0 => radio_pin_state = "LOW"
    /\ next_radio_bit.part = "half" => store = "pointer"
    /\ next_radio_bit # NULL /\ store = "none" =>
           next_radio_bit.index + radio_bit_countdown = N + 1

BoundsInv == TypeOK /\ Handover

LEMMA PointerFacts ==
    /\ \A p \in Pointers : p # NULL =>
              /\ p.msg \in Messages /\ p.index \in 1..N /\ p.part \in {"whole", "half"}
              /\ HighCount(p) \in {SHORT, LONG}
              /\ LowCount(p) \in {SHORT, LONG}
    /\ NULL.msg = "none" /\ NULL.index = 0 /\ NULL.part = "whole"
    /\ NULL \in Pointers
  BY DEF Pointers, NULL, HighCount, LowCount

(* A pointer moved within its message, or made whole, is a pointer.          *)
LEMMA PointerMoved ==
    ASSUME NEW p \in Pointers, p # NULL, NEW i \in 1..N, NEW q, q = [p EXCEPT !.index = i]
    PROVE  /\ q \in Pointers /\ q # NULL
           /\ q.msg = p.msg /\ q.index = i /\ q.part = p.part
<1>1. p \in [msg : Messages, index : 1..N, part : {"whole", "half"}]
  BY DEF Pointers
<1>2. q \in [msg : Messages, index : 1..N, part : {"whole", "half"}]
  BY <1>1
<1>3. q.msg = p.msg /\ q.index = i /\ q.part = p.part
  BY <1>1
<1> QED BY <1>2, <1>3 DEF Pointers, NULL

LEMMA PointerMended ==
    ASSUME NEW p \in Pointers, p # NULL, NEW q, q = [p EXCEPT !.part = "whole"]
    PROVE  /\ q \in Pointers /\ q # NULL
           /\ q.msg = p.msg /\ q.index = p.index /\ q.part = "whole"
<1>1. p \in [msg : Messages, index : 1..N, part : {"whole", "half"}]
  BY DEF Pointers
<1>2. q \in [msg : Messages, index : 1..N, part : {"whole", "half"}]
  BY <1>1
<1>3. q.msg = p.msg /\ q.index = p.index /\ q.part = "whole"
  BY <1>1
<1> QED BY <1>1, <1>2, <1>3 DEF Pointers, NULL

LEMMA CounterFacts ==
    /\ CounterMax \in Int /\ CounterMin < 0
    /\ SHORT \in CounterMin..CounterMax
    /\ LONG \in CounterMin..CounterMax
    /\ \A c \in CounterMin..CounterMax :
           (IF c = CounterMin THEN CounterMax ELSE c - 1) \in CounterMin..CounterMax
  BY TransmitterAssumption DEF CounterMax

LEMMA BoundsInit == Init => BoundsInv
<1> SUFFICES ASSUME Init PROVE BoundsInv
  OBVIOUS
<1>1. /\ next_radio_bit = NULL /\ NULL \in Pointers /\ NULL.part = "whole"
      /\ radio_ISR_counter \in CounterMin..CounterMax
  BY PointerFacts, CounterFacts, TransmitterAssumption DEF Init
<1>2. <<>> \in Seq([high : Nat, gap : Nat])
  OBVIOUS
<1>3. TypeOK
  BY <1>1, <1>2, TransmitterAssumption DEF Init, TypeOK
<1>4. Handover
  BY <1>1 DEF Init, Handover
<1> QED BY <1>3, <1>4 DEF BoundsInv

LEMMA BoundsStep ==
    ASSUME BoundsInv, [Next]_vars
    PROVE  BoundsInv'
<1> USE TransmitterAssumption DEF BoundsInv
<1>0. Longer(run) \in Nat
  BY DEF TypeOK, Longer, RunBound
<1>1. CASE TickWait
  <2>1. Decremented \in CounterMin..CounterMax
    BY CounterFacts DEF Decremented, TypeOK
  <2> QED BY <1>0, <1>1, <2>1 DEF TickWait, TypeOK, Handover, MayTick
<1>2. CASE TickRise
  <2>1. next_radio_bit \in Pointers /\ next_radio_bit # NULL
    BY <1>2 DEF TickRise, Due, TypeOK
  <2>2. radio_ISR_counter' \in CounterMin..CounterMax
    BY <1>2, <2>1, PointerFacts, CounterFacts DEF TickRise, CounterMax
  <2> QED BY <1>0, <1>2, <2>1, <2>2 DEF TickRise, TypeOK, Handover, MayTick
<1>3. CASE TickFall
  <2>1. /\ next_radio_bit \in Pointers /\ next_radio_bit # NULL
        /\ store = "none" /\ radio_pin_state' = "LOW"
    BY <1>3 DEF TickFall, TickFallLeaving, Due, MayTick, TypeOK, Handover
  <2>2. /\ next_radio_bit.index \in 1..N /\ next_radio_bit.part = "whole"
        /\ next_radio_bit.index + radio_bit_countdown = N + 1
        /\ radio_bit_countdown \in 1..N
    BY <2>1, PointerFacts DEF TypeOK, Handover
  <2>3. radio_ISR_counter' \in CounterMin..CounterMax
    BY <1>3, <2>1, PointerFacts, CounterFacts DEF TickFall, TickFallLeaving
  <2>4. air' \in Seq([high : Nat, gap : Nat])
    <3> DEFINE p == [high |-> Longer(run), gap |-> IF air = <<>> THEN 0 ELSE gap]
    <3>1. p \in [high : Nat, gap : Nat]
      BY <1>0 DEF TypeOK
    <3>2. air' = Append(air, p)
      BY <1>3 DEF TickFall, TickFallLeaving
    <3> HIDE DEF p
    <3> QED BY <3>1, <3>2 DEF TypeOK
  <2>5. /\ radio_bit_countdown' = radio_bit_countdown - 1
        /\ store' = "none" /\ ticks' = 0 /\ run' = 0 /\ gap' = gap
    BY <1>3, <2>1 DEF TickFall, TickFallLeaving
  <2>6. CASE radio_bit_countdown - 1 > 0
    <3>1. next_radio_bit' = [next_radio_bit EXCEPT !.index = @ + 1]
      BY <1>3, <2>6 DEF TickFall, TickFallLeaving
    <3>2. /\ next_radio_bit' \in Pointers /\ next_radio_bit' # NULL
          /\ next_radio_bit'.index = next_radio_bit.index + 1
          /\ next_radio_bit'.part = "whole"
      <4>1. next_radio_bit.index + 1 \in 1..N
        BY <2>2, <2>6, TransmitterAssumption
      <4>2. next_radio_bit' = [next_radio_bit EXCEPT !.index = next_radio_bit.index + 1]
        BY <3>1
      <4> QED BY ONLY <2>1, <2>2, <4>1, <4>2, PointerMoved
    <3>3. TypeOK'
      BY <2>1, <2>2, <2>3, <2>4, <2>5, <3>2 DEF TypeOK
    <3>4. Handover'
      BY <2>1, <2>2, <2>5, <3>2 DEF Handover
    <3> QED BY <3>3, <3>4
  <2>7. CASE ~(radio_bit_countdown - 1 > 0)
    <3>1. next_radio_bit' = NULL
      BY <1>3, <2>7 DEF TickFall, TickFallLeaving
    <3>2. TypeOK'
      BY <2>1, <2>2, <2>3, <2>4, <2>5, <3>1, PointerFacts DEF TypeOK
    <3>3. Handover'
      BY <2>1, <2>5, <3>1, PointerFacts DEF Handover
    <3> QED BY <3>2, <3>3
  <2> QED BY <2>6, <2>7
<1>4. CASE LoopPoint
  <2>1. PICK m \in Messages, part \in StoredParts :
            /\ next_radio_bit' = [msg |-> m, index |-> 1, part |-> part]
            /\ store' = IF part = "half" THEN "pointer" ELSE "countdown"
    BY <1>4 DEF LoopPoint
  <2>2. /\ next_radio_bit' \in Pointers /\ next_radio_bit' # NULL
        /\ next_radio_bit'.index = 1 /\ next_radio_bit'.part = part
    BY <2>1, TransmitterAssumption DEF Pointers, NULL, Messages, StoredParts
  <2>3. radio_pin_state' = "LOW"
    BY <1>4 DEF LoopPoint, Handover
  <2> QED BY <1>4, <2>1, <2>2, <2>3, EmptySeq DEF LoopPoint, TypeOK, Handover, isr, mon
<1>5. CASE LoopPointRest
  <2>1. next_radio_bit \in Pointers /\ next_radio_bit # NULL
    BY <1>5 DEF LoopPointRest, TypeOK, Handover
  <2>2. /\ next_radio_bit' \in Pointers /\ next_radio_bit' # NULL
        /\ next_radio_bit'.index = next_radio_bit.index /\ next_radio_bit'.part = "whole"
    <3>1. next_radio_bit' = [next_radio_bit EXCEPT !.part = "whole"]
      BY <1>5 DEF LoopPointRest
    <3> QED BY ONLY <2>1, <3>1, PointerMended
  <2> QED BY <1>5, <2>2 DEF LoopPointRest, TypeOK, Handover, mon
<1>6. CASE LoopCountdown
  BY <1>6 DEF LoopCountdown, LoopCountdownOf, TypeOK, Handover, mon
<1>7. CASE UNCHANGED vars
  BY <1>7 DEF vars, isr, mon, TypeOK, Handover
<1> QED BY <1>1, <1>2, <1>3, <1>4, <1>5, <1>6, <1>7 DEF Next, Tick, Loop

(* The pointer, the countdown and the counter keep their types: a half-stored *)
(* pointer never makes the countdown negative or the counter leave its range. *)
THEOREM Typing == Spec => []TypeOK
<1>1. BoundsInv => TypeOK
  BY DEF BoundsInv
<1> QED BY <1>1, BoundsInit, BoundsStep, PTL DEF Spec

(* The pointer, if there is one, points into its message, and the countdown  *)
(* tells exactly what is left of it.                                         *)
THEOREM StaysInBounds == Spec => []InBounds
<1>1. BoundsInv => InBounds
  BY PointerFacts DEF BoundsInv, Handover, InBounds, TypeOK
<1> QED BY <1>1, BoundsInit, BoundsStep, PTL DEF Spec

-----------------------------------------------------------------------------
(* What the interrupt's counter has still to count, and what it has counted, *)
(* make up the pulse or the pause of the bit it is in; or a pulse spoiled by *)
(* a half-stored pointer, which is the first one.                            *)
Pending == Capped(Ticks(radio_ISR_counter) + run)

PulseInv ==
    /\ next_radio_bit # NULL => Len(air) = next_radio_bit.index - 1
    /\ radio_pin_state = "HIGH" =>
           /\ radio_ISR_counter >= 0
           /\ Pending \in Promise!Widths(next_radio_bit.msg, next_radio_bit.index)
           /\ air # <<>> => gap = Promise!LowCount(next_radio_bit.msg, next_radio_bit.index - 1)
    /\ radio_pin_state = "LOW" /\ next_radio_bit # NULL /\ air # <<>> =>
           /\ radio_ISR_counter >= 1
           /\ radio_ISR_counter + run
                  = Promise!LowCount(next_radio_bit.msg, next_radio_bit.index - 1)

LEMMA WidthFacts ==
    ASSUME NEW m \in Messages, NEW i \in 1..N
    PROVE  /\ Promise!HighCount(m, i) \in 1..(SHORT + LONG)
           /\ Promise!LowCount(m, i) \in 1..(SHORT + LONG)
  BY TransmitterAssumption DEF Promise!HighCount, Promise!LowCount

LEMMA SameWidths ==
    ASSUME NEW p \in Pointers, p # NULL
    PROVE  /\ HighCount(p) = Promise!HighCount(p.msg, p.index)
           /\ LowCount(p) = Promise!LowCount(p.msg, p.index)
  BY DEF HighCount, LowCount, Promise!HighCount, Promise!LowCount

(* Counting on: one less to count, one more counted. *)
LEMMA CountsOn ==
    ASSUME NEW w \in 1..(SHORT + LONG), radio_ISR_counter \in Int, run \in Nat,
           radio_ISR_counter >= 1, radio_ISR_counter + run = w
    PROVE  Decremented = radio_ISR_counter - 1 /\ Longer(run) = run + 1
  BY TransmitterAssumption, CounterFacts DEF Decremented, Longer, RunBound

(* The same of a pulse of any width. *)
LEMMA PendingCounts ==
    ASSUME radio_ISR_counter \in Int, run \in Nat, radio_ISR_counter >= 0
    PROVE  /\ Decremented = radio_ISR_counter - 1
           /\ Decremented >= 1 => Capped(Ticks(Decremented) + Longer(run)) = Pending
           /\ Decremented < 1 => Longer(run) = Pending
  BY TransmitterAssumption, CounterFacts
     DEF Decremented, Longer, RunBound, Capped, Ticks, Pending

(* A step that changes neither what is sent nor where it stands. *)
LEMMA PulseInvKept ==
    ASSUME PulseInv, next_radio_bit'.msg = next_radio_bit.msg,
           next_radio_bit'.index = next_radio_bit.index,
           next_radio_bit' # NULL => next_radio_bit # NULL,
           UNCHANGED <<radio_pin_state, radio_ISR_counter, mon>>
    PROVE  PulseInv'
<1>1. Pending' = Pending /\ air' = air /\ gap' = gap /\ run' = run
  BY DEF Pending, mon
<1>2. /\ Promise!Widths(next_radio_bit.msg, next_radio_bit.index)'
             = Promise!Widths(next_radio_bit.msg, next_radio_bit.index)
      /\ Promise!LowCount(next_radio_bit.msg, next_radio_bit.index - 1)'
             = Promise!LowCount(next_radio_bit.msg, next_radio_bit.index - 1)
  BY DEF Promise!Widths, Promise!HighCount, Promise!LowCount, SpoiledWidths, Capped, Ticks
<1> QED BY <1>1, <1>2 DEF PulseInv

LEMMA PulseInvWait ==
    ASSUME BoundsInv, PulseInv, TickWait
    PROVE  PulseInv'
<1> DEFINE p == next_radio_bit
           w == Promise!LowCount(p.msg, p.index - 1)
<1>1. /\ store' = store /\ next_radio_bit' = p /\ air' = air /\ gap' = gap
      /\ radio_pin_state' = radio_pin_state /\ run' = Longer(run)
      /\ radio_ISR_counter' = Decremented
      /\ p # NULL => Decremented >= 1
  <2>1. ASSUME NEW c \in Compared, c >= 1
        PROVE  Decremented >= 1
    BY <2>1, CounterFacts, TransmitterAssumption DEF BoundsInv, TypeOK, Compared, Decremented
  <2> QED BY <2>1 DEF TickWait, Waiting
<1>2. radio_ISR_counter \in Int /\ run \in Nat
  BY TransmitterAssumption, CounterFacts DEF BoundsInv, TypeOK
<1>3. CASE radio_pin_state = "HIGH"
  <2>1. p \in Pointers /\ p # NULL /\ Decremented >= 1 /\ radio_ISR_counter >= 0
    BY <1>1, <1>3 DEF BoundsInv, TypeOK, Handover, PulseInv
  <2>2. Capped(Ticks(Decremented) + Longer(run)) = Pending
    BY <1>2, <2>1, PendingCounts
  <2>3. Pending' = Pending
    BY <1>1, <2>2 DEF Pending, Capped, Ticks, RunBound
  <2>4. radio_ISR_counter' >= 0
    BY <1>1, <1>2, <2>1, PendingCounts
  <2>5. Promise!Widths(p.msg, p.index)' = Promise!Widths(p.msg, p.index) /\ w' = w
    BY <1>1 DEF Promise!Widths, Promise!HighCount, Promise!LowCount, SpoiledWidths, Capped, Ticks
  <2> QED BY <1>1, <1>3, <2>1, <2>3, <2>4, <2>5 DEF PulseInv
<1>4. CASE radio_pin_state = "LOW" /\ p # NULL /\ air # <<>>
  <2>1. p \in Pointers /\ p.msg \in Messages /\ p.index - 1 \in 1..N
    <3>1. p \in Pointers /\ p.msg \in Messages /\ p.index \in 1..N
      BY <1>4, PointerFacts DEF BoundsInv, TypeOK
    <3>2. Len(air) \in Nat \ {0} /\ Len(air) = p.index - 1
      BY <1>4, EmptySeq DEF BoundsInv, TypeOK, PulseInv
    <3> QED BY <3>1, <3>2, TransmitterAssumption
  <2>2. w \in 1..(SHORT + LONG)
    BY <2>1, WidthFacts
  <2>3. Decremented = radio_ISR_counter - 1 /\ Longer(run) = run + 1
    BY <1>2, <1>4, <2>2, CountsOn DEF PulseInv
  <2>4. radio_ISR_counter' >= 1 /\ radio_ISR_counter' + run' = w
    BY <1>1, <1>2, <1>4, <2>3 DEF PulseInv
  <2> QED BY <1>1, <1>4, <2>4 DEF PulseInv, Promise!LowCount
<1>5. CASE radio_pin_state = "LOW" /\ (p = NULL \/ air = <<>>)
  BY <1>1, <1>5 DEF PulseInv
<1> QED BY <1>3, <1>4, <1>5 DEF BoundsInv, TypeOK

LEMMA PulseInvRise ==
    ASSUME BoundsInv, PulseInv, TickRise
    PROVE  PulseInv'
<1> DEFINE p == next_radio_bit
           w == Promise!LowCount(p.msg, p.index - 1)
<1>1. p \in Pointers /\ p # NULL /\ p.msg \in Messages /\ p.index \in 1..N
  BY PointerFacts DEF TickRise, Due, BoundsInv, TypeOK
<1>2. /\ store' = store /\ p' = p /\ air' = air /\ gap' = Longer(run)
      /\ radio_pin_state' = "HIGH" /\ run' = 0
      /\ radio_ISR_counter' \in IF p.part = "half" THEN Garbage ELSE {HighCount(p)}
      /\ radio_pin_state = "LOW" /\ (Decremented < 1 \/ radio_ISR_counter - 1 < 1)
  BY DEF TickRise, Due, Compared
<1>3. ASSUME air # <<>> PROVE gap' = w
  <2>1. p.index - 1 \in 1..N
    <3>1. Len(air) \in Nat \ {0} /\ Len(air) = p.index - 1
      BY <1>1, <1>3, EmptySeq DEF BoundsInv, TypeOK, PulseInv
    <3> QED BY <1>1, <3>1, TransmitterAssumption
  <2>2. w \in 1..(SHORT + LONG)
    BY <1>1, <2>1, WidthFacts
  <2>3. /\ radio_ISR_counter \in Int /\ run \in Nat
        /\ radio_ISR_counter >= 1 /\ radio_ISR_counter + run = w
    BY <1>1, <1>2, <1>3, TransmitterAssumption, CounterFacts DEF BoundsInv, TypeOK, PulseInv
  <2>4. Decremented = radio_ISR_counter - 1 /\ Longer(run) = run + 1
    BY <2>2, <2>3, CountsOn
  <2> QED BY <1>2, <2>3, <2>4
<1>4. radio_ISR_counter' >= 0 /\ Pending' \in Promise!Widths(p.msg, p.index)
  <2>1. CASE p.part = "half"
    <3>1. radio_ISR_counter' \in Garbage /\ p.index = 1
      BY <1>1, <1>2, <2>1 DEF BoundsInv, Handover
    <3>2. radio_ISR_counter' \in Nat
      BY <3>1, TransmitterAssumption, CounterFacts
    <3>3. Pending' = Capped(Ticks(radio_ISR_counter'))
      BY <1>2, <3>2 DEF Pending, Capped, Ticks, RunBound
    <3> QED BY <3>1, <3>2, <3>3 DEF Promise!Widths, SpoiledWidths
  <2>2. CASE p.part # "half"
    <3>1. radio_ISR_counter' = HighCount(p) /\ HighCount(p) \in 1..(SHORT + LONG)
      BY <1>1, <1>2, <2>2, SameWidths, WidthFacts
    <3>2. Pending' = HighCount(p)
      BY <1>2, <3>1, TransmitterAssumption DEF Pending, Capped, Ticks, RunBound
    <3> QED BY <1>1, <3>1, <3>2, SameWidths, TransmitterAssumption DEF Promise!Widths
  <2> QED BY <2>1, <2>2
<1>5. Promise!Widths(p.msg, p.index)' = Promise!Widths(p.msg, p.index) /\ w' = w
  BY <1>2 DEF Promise!Widths, Promise!HighCount, Promise!LowCount, SpoiledWidths, Capped, Ticks
<1> QED BY <1>1, <1>2, <1>3, <1>4, <1>5 DEF PulseInv

(* The pulse that ends is the next one RadioMessage expects. *)
LEMMA PulseEnds ==
    ASSUME BoundsInv, PulseInv, TickFall
    PROVE  /\ next_radio_bit \in Pointers /\ next_radio_bit # NULL
           /\ store = "none" /\ Len(air) = next_radio_bit.index - 1
           /\ \E pulse \in Promise!Pulses(next_radio_bit.msg, Len(air) + 1) :
                  air' = Append(air, pulse)
<1> DEFINE p == next_radio_bit
           w == Promise!LowCount(p.msg, p.index - 1)
<1>1. /\ p \in Pointers /\ p # NULL /\ store = "none" /\ radio_pin_state = "HIGH"
      /\ Decremented < 1 \/ radio_ISR_counter - 1 < 1
      /\ Len(air) = p.index - 1
  BY DEF TickFall, TickFallLeaving, Due, Compared, MayTick, BoundsInv, TypeOK, Handover, PulseInv
<1>2. p.msg \in Messages /\ p.index \in 1..N
  BY <1>1, PointerFacts
<1>3. /\ radio_ISR_counter \in Int /\ run \in Nat /\ radio_ISR_counter >= 0
      /\ Pending \in Promise!Widths(p.msg, p.index)
  BY <1>1, TransmitterAssumption, CounterFacts DEF BoundsInv, TypeOK, PulseInv
<1>4. Longer(run) \in Promise!Widths(p.msg, p.index)
  BY <1>1, <1>3, PendingCounts
<1>5. Len(air) + 1 = p.index
  BY <1>1, <1>2, TransmitterAssumption
<1>6. air = <<>> <=> p.index = 1
  BY <1>1, <1>2, EmptySeq, TransmitterAssumption DEF BoundsInv, TypeOK
<1>7. (IF air = <<>> THEN 0 ELSE gap) = IF p.index = 1 THEN 0 ELSE w
  BY <1>1, <1>6 DEF PulseInv
<1>8. air' = Append(air, [high |-> Longer(run), gap |-> IF air = <<>> THEN 0 ELSE gap])
  BY DEF TickFall, TickFallLeaving
<1>9. [high |-> Longer(run), gap |-> IF air = <<>> THEN 0 ELSE gap]
          \in Promise!Pulses(p.msg, p.index)
  BY <1>4, <1>7 DEF Promise!Pulses
<1> QED BY <1>1, <1>5, <1>8, <1>9

LEMMA PulseInvFall ==
    ASSUME BoundsInv, PulseInv, TickFall
    PROVE  PulseInv'
<1> DEFINE p == next_radio_bit
<1>1. /\ p \in Pointers /\ p # NULL /\ store = "none" /\ Len(air) = p.index - 1
      /\ \E pulse : air' = Append(air, pulse)
  BY PulseEnds
<1>2. /\ radio_pin_state' = "LOW" /\ store' = "none" /\ run' = 0
      /\ radio_ISR_counter' = LowCount(p)
  BY <1>1 DEF TickFall, TickFallLeaving
<1>3. p.msg \in Messages /\ p.index \in 1..N
      /\ LowCount(p) = Promise!LowCount(p.msg, p.index) /\ LowCount(p) \in 1..(SHORT + LONG)
  BY <1>1, PointerFacts, SameWidths, WidthFacts
<1>4. CASE p' = NULL
  BY <1>2, <1>4 DEF PulseInv
<1>5. CASE p' # NULL
  <2>1. p' = [p EXCEPT !.index = p.index + 1]
    BY <1>5 DEF TickFall, TickFallLeaving
  <2>2. p'.msg = p.msg /\ p'.index = p.index + 1
    BY <1>1, <2>1 DEF Pointers
  <2>3. Len(air') = p'.index - 1 /\ p'.index - 1 = p.index
    <3>1. air \in Seq([high : Nat, gap : Nat])
      BY DEF BoundsInv, TypeOK
    <3>2. Len(air') = Len(air) + 1
      BY <1>1, <3>1
    <3> QED BY <1>1, <1>3, <2>2, <3>2, TransmitterAssumption
  <2>4. radio_ISR_counter' >= 1 /\ radio_ISR_counter' + run' = Promise!LowCount(p'.msg, p'.index - 1)
    BY <1>2, <1>3, <2>2, <2>3, TransmitterAssumption
  <2> QED BY <1>2, <2>3, <2>4 DEF PulseInv, Promise!LowCount
<1> QED BY <1>4, <1>5

LEMMA PulseInvInit == Init => PulseInv
  BY PointerFacts DEF Init, PulseInv

LEMMA PulseInvStep ==
    ASSUME BoundsInv, PulseInv, [Next]_vars
    PROVE  PulseInv'
<1>1. CASE LoopPoint
  <2>1. PICK m \in Messages, part \in StoredParts :
            /\ next_radio_bit' = [msg |-> m, index |-> 1, part |-> part]
            /\ store' = IF part = "half" THEN "pointer" ELSE "countdown"
    BY <1>1 DEF LoopPoint
  <2>2. next_radio_bit'.index = 1 /\ air' = <<>>
    BY <1>1, <2>1 DEF LoopPoint
  <2>3. radio_pin_state' = "LOW"
    BY <1>1 DEF LoopPoint, BoundsInv, Handover
  <2> QED BY <2>2, <2>3 DEF PulseInv
<1>2. CASE LoopPointRest
  <2>1. next_radio_bit \in Pointers /\ next_radio_bit # NULL
    BY <1>2 DEF LoopPointRest, BoundsInv, TypeOK, Handover
  <2>2. next_radio_bit' = [next_radio_bit EXCEPT !.part = "whole"]
    BY <1>2 DEF LoopPointRest
  <2>3. next_radio_bit'.msg = next_radio_bit.msg /\ next_radio_bit'.index = next_radio_bit.index
    BY <2>1, <2>2 DEF Pointers
  <2> QED BY <1>2, <2>1, <2>3, PulseInvKept DEF LoopPointRest
<1>3. CASE LoopCountdown
  BY <1>3, PulseInvKept DEF LoopCountdown, LoopCountdownOf
<1>4. CASE UNCHANGED vars
  <2>1. next_radio_bit' = next_radio_bit
        /\ UNCHANGED <<radio_pin_state, radio_ISR_counter, mon>>
    BY <1>4 DEF vars, isr
  <2> QED BY <2>1, PulseInvKept
<1> QED BY <1>1, <1>2, <1>3, <1>4, PulseInvWait, PulseInvRise, PulseInvFall
        DEF Next, Tick, Loop

(* Every step of the interrupt and of the loop is a step of RadioMessage or  *)
(* changes nothing that it speaks of: every message goes out pulse by pulse, *)
(* none is cut short, mixed with another or sent too long, and a half-stored *)
(* pointer spoils no pulse but the first (the safety half of SendsMessages). *)
THEOREM Implements ==
    Spec => Promise!Init /\ [][Promise!Next]_<<next_radio_bit.msg, air>>
<1>1. Init => Promise!Init
  BY PointerFacts DEF Init, Promise!Init, Promise!NoMessage
<1>2. BoundsInv /\ PulseInv /\ [Next]_vars
          => [Promise!Next]_<<next_radio_bit.msg, air>>
  <2> SUFFICES ASSUME BoundsInv, PulseInv, [Next]_vars
               PROVE  [Promise!Next]_<<next_radio_bit.msg, air>>
    OBVIOUS
  <2>1. CASE TickFall
    <3> DEFINE p == next_radio_bit
    <3>1. /\ p \in Pointers /\ p # NULL /\ store = "none" /\ Len(air) = p.index - 1
          /\ \E pulse \in Promise!Pulses(p.msg, Len(air) + 1) : air' = Append(air, pulse)
      BY <2>1, PulseEnds
    <3>2. /\ p.msg \in Messages /\ p.msg # Promise!NoMessage /\ p.index \in 1..N
          /\ p.index + radio_bit_countdown = N + 1 /\ radio_bit_countdown \in 0..N
      BY <3>1, PointerFacts DEF BoundsInv, TypeOK, Handover, Messages, Promise!NoMessage
    <3>3. p'.msg = IF Len(air) + 1 = N THEN Promise!NoMessage ELSE p.msg
      <4>1. radio_bit_countdown - 1 > 0 <=> Len(air) + 1 # N
        BY <3>1, <3>2, TransmitterAssumption
      <4>2. p' = IF radio_bit_countdown - 1 > 0 THEN [p EXCEPT !.index = @ + 1] ELSE NULL
        BY <2>1 DEF TickFall, TickFallLeaving
      <4>3. [p EXCEPT !.index = @ + 1].msg = p.msg
        BY <3>1 DEF Pointers
      <4> QED BY <4>1, <4>2, <4>3, PointerFacts DEF Promise!NoMessage
    <3> QED BY <3>1, <3>2, <3>3 DEF Promise!Next, Promise!Emit
  <2>2. CASE LoopPoint
    <3>1. PICK m \in Messages, part \in StoredParts :
              next_radio_bit' = [msg |-> m, index |-> 1, part |-> part]
      BY <2>2 DEF LoopPoint
    <3>2. next_radio_bit.msg = Promise!NoMessage /\ next_radio_bit'.msg = m /\ air' = <<>>
      BY <2>2, <3>1, PointerFacts DEF LoopPoint, Promise!NoMessage
    <3> QED BY <3>2 DEF Promise!Next, Promise!Start, Promise!Messages, Messages
  <2>3. CASE LoopPointRest
    <3>1. next_radio_bit \in Pointers /\ next_radio_bit # NULL
      BY <2>3 DEF LoopPointRest, BoundsInv, TypeOK, Handover
    <3>2. next_radio_bit' = [next_radio_bit EXCEPT !.part = "whole"] /\ air' = air
      BY <2>3 DEF LoopPointRest, mon
    <3> QED BY <3>1, <3>2 DEF Pointers
  <2>4. CASE TickWait \/ TickRise \/ LoopCountdown \/ UNCHANGED vars
    BY <2>4 DEF TickWait, TickRise, LoopCountdown, LoopCountdownOf, vars, isr, mon
  <2> QED BY <2>1, <2>2, <2>3, <2>4 DEF Next, Tick, Loop
<1> QED BY <1>1, <1>2, BoundsInit, BoundsStep, PulseInvInit, PulseInvStep, PTL DEF Spec
=============================================================================
