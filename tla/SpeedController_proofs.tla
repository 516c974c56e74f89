------------------------ MODULE SpeedController_proofs ------------------------
(***************************************************************************)
(* Proofs about the control loop, for words of every width, all settings,  *)
(* any traffic and any noise.                                              *)
(*                                                                         *)
(*   Typing           the words stay words, however squares wrap and       *)
(*                    whatever a division by zero yields                   *)
(*   DelayKept        messages are MIN_DELAY apart                         *)
(*   ReadsCurrent     reads see the writes before them                     *)
(*   OnlyWanted       no message is begun against the last orders          *)
(***************************************************************************)
EXTENDS SpeedController, ModbusSlave_proofs

LEMMA QuotientBound ==
    ASSUME NEW a \in Nat, NEW b \in Nat, b # 0
    PROVE  a \div b \in 0..a
<1>1. /\ a \div b \in Int
      /\ b * (a \div b) <= a /\ a < b * (a \div b) + b
  OBVIOUS
<1>2. a \div b >= 0
  BY <1>1
<1> QED BY <1>1, <1>2

LEMMA Cancel ==
    ASSUME NEW n \in Nat, n # 0, NEW x \in Nat, NEW y \in Nat, x <= n * y
    PROVE  x \div n \in 0..y
<1> DEFINE q == x \div n
<1>1. q \in Int /\ n * q <= x /\ q >= 0
  BY QuotientBound
<1>2. ASSUME q > y PROVE FALSE
  <2>1. PICK d \in Nat : q = y + d /\ d >= 1
    BY <1>1, <1>2
  <2>2. n * q = n * y + n * d
    BY <2>1
  <2>3. n * d >= n
    BY <2>1
  <2> QED BY <1>1, <2>2, <2>3
<1> QED BY <1>1, <1>2

(* A weighted mean of two values lies between 0 and their bound.             *)
LEMMA Mean ==
    ASSUME NEW n \in Nat, n # 0, NEW c \in 0..n,
           NEW x \in Nat, NEW y \in Nat, NEW b \in Nat, x <= b, y <= b
    PROVE  ((n - c) * x + c * y) \div n \in 0..b
<1>1. (n - c) * x \in Nat /\ (n - c) * x <= (n - c) * b
  OBVIOUS
<1>2. c * y \in Nat /\ c * y <= c * b
  OBVIOUS
<1>3. (n - c) * b + c * b = n * b
  OBVIOUS
<1>4. (n - c) * x + c * y \in Nat /\ (n - c) * x + c * y <= n * b
  BY <1>1, <1>2, <1>3
<1> QED BY <1>4, Cancel

-----------------------------------------------------------------------------
LEMMA TypingInit == Init => TypeOK
<1> SUFFICES ASSUME Init PROVE TypeOK
  OBVIOUS
<1>1. SetupTime \in Nat /\ MIN_DELAY \in MIN_DELAY..(WordSize - 1) /\ 0 \in Word
  BY ControllerAssumption, SlaveAssumption DEF SetupTime, Word
<1>2. /\ A0_filter_value \in 0..(FilterScale * MaxPump) /\ speed_actual \in 0..MaxPump
      /\ coeff \in [{6, 8} -> 0..MaxCoeff]
  BY ControllerAssumption, SlaveAssumption DEF Init, Word
<1>3. registers \in Banks /\ written \in [Addresses -> Word] /\ reply \in Replies
  <2>1. Deadband \in Word /\ Timeconst \in Word /\ Coeff \in Word
    BY ControllerAssumption, SlaveAssumption DEF Word
  <2> QED BY <1>1, <2>1 DEF Init, Banks, Replies, Silence
<1> QED BY <1>1, <1>2, <1>3, ControllerAssumption, SlaveAssumption DEF Init, TypeOK

(* Sampling keeps the filter within the range of the readings.               *)
LEMMA SampleTyping ==
    ASSUME TypeOK, NEW ms \in Nat, Sample(ms)
    PROVE  /\ A0_filter_value' \in 0..(FilterScale * MaxPump)
           /\ speed_actual' \in 0..MaxPump
           /\ supply_voltage' \in Word
           /\ sampled' \in Nat
<1>1. CASE sampled + ms >= SAMPLE_INTERVAL
  <2>1. PICK r \in Readings : A0_filter_value' = Filtered(r)
    BY <1>1 DEF Sample
  <2> DEFINE n == MaxCoeff + 1
             c == coeff[6]
             b == FilterScale * MaxPump
  <2>2. /\ n \in Nat /\ n # 0 /\ c \in 0..n /\ r \in Nat /\ r <= MaxPump
        /\ FilterScale \in Nat /\ FilterScale # 0 /\ MaxPump \in Nat
    BY ControllerAssumption, SlaveAssumption DEF TypeOK, Readings, Word
  <2>3. /\ b \in Nat /\ FilterScale * r \in Nat /\ FilterScale * r <= b
        /\ A0_filter_value \in Nat /\ A0_filter_value <= b
    BY <2>2 DEF TypeOK
  <2>4. (n - c) * FilterScale * r = (n - c) * (FilterScale * r)
    BY <2>2
  <2>5. ((n - c) * (FilterScale * r) + c * A0_filter_value) \div n \in 0..b
    <3> HIDE DEF n, c, b
    <3> QED BY <2>2, <2>3, Mean
  <2>6. Filtered(r) \in 0..b
    BY <2>4, <2>5 DEF Filtered
  <2>7. A0_filter_value' \in Nat /\ A0_filter_value' <= FilterScale * MaxPump
    BY <2>1, <2>3, <2>6
  <2>8. A0_filter_value' \div FilterScale \in 0..MaxPump
    BY <2>2, <2>7, Cancel
  <2>9. A0_filter_value' \in 0..(FilterScale * MaxPump)
    BY <2>1, <2>6
  <2>10. speed_actual' \in 0..MaxPump /\ supply_voltage' \in Word /\ sampled' \in Nat
    <3> HIDE DEF n, c, b
    <3> QED BY <1>1, <2>8, ControllerAssumption, SlaveAssumption DEF Sample
  <2> QED BY <2>9, <2>10
<1>2. CASE ~(sampled + ms >= SAMPLE_INTERVAL)
  BY <1>2 DEF Sample, TypeOK
<1> QED BY <1>1, <1>2

LEMMA LoadedTyping ==
    ASSUME TypeOK, speed_actual' \in 0..MaxPump, supply_voltage' \in Word
    PROVE  Loaded \in Banks
<1>1. 0 \in Word /\ 2 \in Word /\ speed_actual' \in Word /\ radioTX_interval \in Word
  BY ControllerAssumption, SlaveAssumption DEF TypeOK, Word, NUM_REGISTERS
<1>2. coeff[6] \in Word /\ coeff[8] \in Word
  BY ControllerAssumption, SlaveAssumption DEF TypeOK, Word
<1> QED BY <1>1, <1>2 DEF Loaded, TypeOK, Banks

(* The Modbus slave and the settings; and what the loop knows of the writes. *)
LEMMA TaskTyping ==
    ASSUME TypeOK, Task, ReadBack, speed_actual' \in 0..MaxPump, supply_voltage' \in Word
    PROVE  /\ registers' \in Banks
           /\ written' \in [Addresses -> Word]
           /\ reply' \in Replies
           /\ control_deadband' \in Word /\ control_timeconst' \in Word
           /\ coeff' \in [{6, 8} -> 0..MaxCoeff]
<1>1. Loaded \in Banks
  BY LoadedTyping
<1>2. \A v \in Word : Smaller(v, MaxCoeff) \in Word /\ Smaller(v, MaxCoeff) \in 0..MaxCoeff
  BY ControllerAssumption, SlaveAssumption DEF Smaller, Word
<1>3. registers' \in Banks /\ written' \in [Addresses -> Word] /\ reply' \in Replies
  <2>1. CASE Idle
    BY <1>1, <2>1 DEF Idle, TypeOK, Silence, Replies
  <2>2. ASSUME NEW f \in Traffic, Serve(f)
        PROVE  registers' \in Banks /\ written' \in [Addresses -> Word] /\ reply' \in Replies
    <3> DEFINE result == task(Loaded, f)
    <3>1. InOrder(Loaded, f, result)
      BY <1>1, ControllerAssumption, TaskInOrder
    <3>2. /\ registers' = result.bank /\ reply' = result.reply
          /\ written' = [a \in Addresses |-> IF a \in result.set THEN Kept(a, result.bank[a])
                                             ELSE written[a]]
      BY <2>2 DEF Serve
    <3> HIDE DEF result
    <3>3. result.bank \in Banks /\ result.reply \in Replies
      BY <3>1 DEF InOrder
    <3>4. \A a \in Addresses : Kept(a, result.bank[a]) \in Word
      BY <1>2, <3>3 DEF Kept, Banks
    <3> QED BY <3>2, <3>3, <3>4 DEF TypeOK
  <2> QED BY <2>1, <2>2 DEF Task
<1>4. \A a \in {4, 5, 6, 8} : registers'[a] \in Word
  BY <1>3 DEF Addresses, Banks, NUM_REGISTERS
<1> QED BY <1>2, <1>3, <1>4 DEF ReadBack

(* The intervals that the control law asks for are never too short.          *)
LEMMA IntervalTyping ==
    ASSUME NEW ms \in Nat, Control(ms), control_timeconst' \in Word,
           speed_demand' \in Word, speed_actual' \in Word
    PROVE  radioTX_interval' \in MIN_DELAY..(WordSize - 1)
<1> DEFINE e == ControlError(speed_demand', speed_actual')
<1>1. WordSize \in Nat /\ WordSize > 2 /\ MIN_DELAY \in 1..(WordSize - 1)
  BY ControllerAssumption, SlaveAssumption DEF NUM_REGISTERS
<1>2. e \in Nat
  <2>1. speed_actual' - speed_demand' \in Int
    BY <1>1 DEF Word
  <2>2. \A d \in Int : d % WordSize \in Nat
    BY <1>1
  <2> QED BY <2>1, <2>2 DEF ControlError
<1>3. Square(e) \in Nat
  <2>1. e * e \in Nat
    BY <1>2
  <2> QED BY <1>1, <2>1 DEF Square
<1>4. \A q \in Quotients(control_timeconst', Square(e)) : q \in Word
  <2>1. CASE Square(e) = 0
    BY <2>1, ControllerAssumption, SlaveAssumption DEF Quotients
  <2>2. CASE Square(e) # 0
    <3>1. control_timeconst' \in Nat /\ control_timeconst' < WordSize
      BY <1>1 DEF Word
    <3>2. control_timeconst' \div Square(e) \in 0..control_timeconst'
      BY <1>3, <2>2, <3>1, QuotientBound
    <3>3. control_timeconst' \div Square(e) \in Word
      BY <1>1, <3>1, <3>2 DEF Word
    <3> QED BY <2>2, <3>3 DEF Quotients
  <2> QED BY <2>1, <2>2
<1>5. \A i \in Intervals(e) : i \in MIN_DELAY..(WordSize - 1)
  BY <1>1, <1>4 DEF Intervals, Larger, Word
<1> QED BY <1>1, <1>5 DEF Control, MaxInterval

(* What loop() does with the radio: a message begins only after the interval *)
(* and the wait begins anew with it.                                         *)
LEMMA Transmission ==
    ASSUME TypeOK, NEW ms \in Nat, Control(ms),
           radioTX_interval' \in MIN_DELAY..(WordSize - 1)
    PROVE  /\ waited' \in Nat
           /\ waited' = 0 \/ (waited' = Smaller(waited + ms, WordSize) /\ sending' = sending)
           /\ sending' # sending =>
                  /\ waited + ms >= MIN_DELAY
                  /\ waited' = 0
                  /\ sending = "none" /\ IsActive(registers'[0])
                  /\ sending' = Message(speed_demand', speed_actual')
           /\ sending' \in {"none", "faster", "slower"}
<1>1. WordSize \in Nat /\ WordSize > 2 /\ MIN_DELAY \in 1..(WordSize - 1) /\ waited \in Nat
  BY ControllerAssumption, SlaveAssumption DEF TypeOK, NUM_REGISTERS
<1>2. ASSUME NEW wait \in Nat, Transmit(wait)
      PROVE  /\ (waited' = 0 /\ wait >= radioTX_interval' /\ Send)
                  \/ (waited' = wait /\ sending' = sending)
  BY <1>2 DEF Transmit
<1>3. Later(waited, ms) \in Nat /\ Later(waited, ms) <= waited + ms
      /\ Later(waited, ms) = Smaller(waited + ms, WordSize)
  BY <1>1 DEF Later, Smaller
<1>4. CASE Transmit(Later(waited, ms))
  <2>1. CASE waited' = Later(waited, ms) /\ sending' = sending
    BY <1>3, <2>1 DEF TypeOK
  <2>2. CASE waited' = 0 /\ Later(waited, ms) >= radioTX_interval' /\ Send
    <3>1. waited + ms >= MIN_DELAY
      BY <1>1, <1>3, <2>2
    <3> QED BY <2>2, <3>1 DEF Send, Message, TypeOK
  <2> QED BY <1>2, <1>3, <1>4, <2>1, <2>2
<1>5. CASE Transmit(0) /\ radioTX_interval' = MaxInterval
  <2>1. ~(0 >= radioTX_interval')
    BY <1>1
  <2>2. waited' = 0 /\ sending' = sending
    BY <1>5, <2>1 DEF Transmit
  <2> QED BY <2>2 DEF TypeOK
<1> QED BY <1>4, <1>5 DEF Control

LEMMA TypingStep ==
    ASSUME TypeOK, [Next]_vars
    PROVE  TypeOK'
<1>1. ASSUME NEW ms \in Passes, Loop(ms)
      PROVE  TypeOK'
  <2>1. ms \in Nat
    BY ControllerAssumption, SlaveAssumption
  <2>2. /\ A0_filter_value' \in 0..(FilterScale * MaxPump) /\ speed_actual' \in 0..MaxPump
        /\ supply_voltage' \in Word /\ sampled' \in Nat
    BY <1>1, <2>1, SampleTyping DEF Loop
  <2>3. /\ registers' \in Banks /\ written' \in [Addresses -> Word] /\ reply' \in Replies
        /\ control_deadband' \in Word /\ control_timeconst' \in Word
        /\ coeff' \in [{6, 8} -> 0..MaxCoeff]
    BY <1>1, <2>2, TaskTyping DEF Loop
  <2>4. speed_demand' \in Word /\ speed_actual' \in Word
    BY <2>2, <2>3, ControllerAssumption, SlaveAssumption DEF speed_demand, Addresses, Banks, NUM_REGISTERS, Word
  <2>5. radioTX_interval' \in MIN_DELAY..(WordSize - 1)
    BY <1>1, <2>1, <2>3, <2>4, IntervalTyping DEF Loop
  <2>6. waited' \in Nat /\ sending' \in {"none", "faster", "slower"}
    BY <1>1, <2>1, <2>5, Transmission DEF Loop
  <2>7. quiet' \in Nat /\ gap' \in Nat /\ pump' = pump
    BY <1>1, <2>1, ControllerAssumption, SlaveAssumption DEF Loop, Smaller, TypeOK
  <2> QED BY <2>2, <2>3, <2>5, <2>6, <2>7 DEF TypeOK
<1>2. CASE RadioDone
  <2>1. pump' \in 0..MaxPump
    BY <1>2, ControllerAssumption, SlaveAssumption DEF RadioDone, Smaller, Larger, TypeOK, Word
  <2> QED BY <1>2, <2>1 DEF RadioDone, program, TypeOK
<1>3. CASE UNCHANGED vars
  BY <1>3 DEF vars, program, TypeOK
<1> QED BY <1>1, <1>2, <1>3 DEF Next

(* The types hold.                                                           *)
THEOREM Typing == Spec => []TypeOK
  BY TypingInit, TypingStep, PTL DEF Spec

-----------------------------------------------------------------------------
(* While the wait since the last message is short of MIN_DELAY it is no      *)
(* longer than the time that has really passed.                              *)
DelayInv ==
    /\ gap >= MIN_DELAY
    /\ Smaller(waited, MIN_DELAY) <= quiet

LEMMA DelayInit == Init => DelayInv
<1>1. MIN_DELAY \in Nat /\ SetupTime \in Nat
  BY ControllerAssumption, SlaveAssumption DEF SetupTime
<1> QED BY <1>1 DEF Init, DelayInv, Smaller

LEMMA DelayStep ==
    ASSUME TypeOK, TypeOK', DelayInv, [Next]_vars
    PROVE  DelayInv'
<1>1. ASSUME NEW ms \in Passes, Loop(ms)
      PROVE  DelayInv'
  <2>1. /\ ms \in Nat /\ MIN_DELAY \in Nat /\ WordSize \in Nat /\ MIN_DELAY < WordSize
        /\ waited \in Nat /\ quiet \in Nat /\ gap \in Nat
    BY ControllerAssumption, SlaveAssumption DEF TypeOK
  <2>2. radioTX_interval' \in MIN_DELAY..(WordSize - 1)
    BY DEF TypeOK
  <2>3. /\ waited' = 0 \/ (waited' = Smaller(waited + ms, WordSize) /\ sending' = sending)
        /\ sending' # sending => waited + ms >= MIN_DELAY /\ waited' = 0
    BY <1>1, <2>1, <2>2, Transmission DEF Loop
  <2>4. /\ quiet' = IF sending' # sending THEN 0 ELSE Smaller(quiet + ms, MIN_DELAY)
        /\ gap' = IF sending' # sending THEN Smaller(quiet + ms, MIN_DELAY) ELSE gap
    BY <1>1 DEF Loop
  <2>5. CASE sending' # sending
    BY <2>1, <2>3, <2>4, <2>5 DEF DelayInv, Smaller
  <2>6. CASE sending' = sending
    BY <2>1, <2>3, <2>4, <2>6 DEF DelayInv, Smaller
  <2> QED BY <2>5, <2>6
<1>2. CASE RadioDone \/ UNCHANGED vars
  BY <1>2 DEF RadioDone, vars, program, DelayInv, Smaller
<1> QED BY <1>1, <1>2 DEF Next

(* No two messages are begun less than MIN_DELAY apart, whatever the         *)
(* settings, the squares of the errors and the divisions by zero come to.    *)
THEOREM DelayKept == Spec => []MinDelayKept
<1>1. DelayInv => MinDelayKept
  BY DEF DelayInv, MinDelayKept
<1> QED BY <1>1, TypingInit, TypingStep, DelayInit, DelayStep, PTL DEF Spec

-----------------------------------------------------------------------------
(* Between passes the registers of the orders and the program's settings     *)
(* hold what was last written.                                               *)
OrdersKept ==
    /\ registers[0] = written[0] /\ registers[2] = written[2]
    /\ control_deadband = written[4] /\ control_timeconst = written[5]
    /\ coeff[6] = written[6] /\ coeff[8] = written[8]

LEMMA OrdersInit == Init => OrdersKept /\ ReadsAreCurrent
  BY DEF Init, OrdersKept, ReadsAreCurrent, Addresses, Silence, NUM_REGISTERS

LEMMA LoadedFacts ==
    ASSUME TypeOK, OrdersKept
    PROVE  /\ DOMAIN Loaded = Addresses
           /\ \A a \in {0, 2} : Loaded[a] = written[a]
           /\ \A a \in {4, 5} : Loaded[a] = written[a]
           /\ \A a \in {6, 8} : Loaded[a] = written[a] /\ Smaller(written[a], MaxCoeff) = written[a]
           /\ IsActive(Loaded[1]) <=> IsActive(written[0])
           /\ Loaded[3] = speed_actual' /\ Loaded[7] = supply_voltage'
<1>1. IsActive(2) /\ ~IsActive(0)
  BY DEF IsActive
<1>2. /\ DOMAIN Loaded = Addresses
      /\ Loaded[0] = registers[0] /\ Loaded[2] = registers[2]
      /\ Loaded[1] = IF IsActive(registers[0]) THEN 2 ELSE 0
      /\ Loaded[3] = speed_actual' /\ Loaded[7] = supply_voltage'
      /\ Loaded[4] = control_deadband /\ Loaded[5] = control_timeconst
      /\ Loaded[6] = coeff[6] /\ Loaded[8] = coeff[8]
  BY DEF Loaded, TypeOK, Banks, Addresses, NUM_REGISTERS
<1>3. \A a \in {6, 8} : Smaller(coeff[a], MaxCoeff) = coeff[a]
  BY ControllerAssumption, SlaveAssumption DEF Smaller, TypeOK, Word
<1> QED BY <1>1, <1>2, <1>3 DEF OrdersKept

LEMMA OrdersLoop ==
    ASSUME TypeOK, TypeOK', OrdersKept, Task, ReadBack
    PROVE  OrdersKept' /\ ReadsAreCurrent'
<1>1. /\ control_deadband' = registers'[4] /\ control_timeconst' = registers'[5]
      /\ coeff'[6] = Smaller(registers'[6], MaxCoeff)
      /\ coeff'[8] = Smaller(registers'[8], MaxCoeff)
  BY DEF ReadBack
<1>2. CASE Idle
  BY <1>1, <1>2, LoadedFacts DEF Idle, OrdersKept, ReadsAreCurrent, Silence
<1>3. ASSUME NEW f \in Traffic, Serve(f)
      PROVE  OrdersKept' /\ ReadsAreCurrent'
  <2> DEFINE result == task(Loaded, f)
  <2>1. InOrder(Loaded, f, result)
    <3>1. Loaded \in Banks
      BY LoadedTyping, ControllerAssumption DEF TypeOK
    <3> QED BY <3>1, ControllerAssumption, TaskInOrder
  <2>2. /\ registers' = result.bank /\ reply' = result.reply
        /\ written' = [a \in Addresses |-> IF a \in result.set THEN Kept(a, result.bank[a])
                                           ELSE written[a]]
    BY <1>3 DEF Serve
  <2> HIDE DEF result
  <2>3. \A a \in Addresses \ result.set : registers'[a] = Loaded[a] /\ written'[a] = written[a]
    BY <2>1, <2>2 DEF InOrder
  <2>4. \A a \in Addresses \cap result.set : written'[a] = Kept(a, registers'[a])
    BY <2>2
  <2>5. {0, 2, 4, 5, 6, 8} \subseteq Addresses
    BY DEF Addresses, NUM_REGISTERS
  <2>6. \A a \in {0, 2, 4, 5} : registers'[a] = written'[a]
    <3> SUFFICES ASSUME NEW a \in {0, 2, 4, 5} PROVE registers'[a] = written'[a]
      OBVIOUS
    <3>1. CASE a \in result.set
      BY <2>4, <2>5, <3>1 DEF Kept
    <3>2. CASE a \notin result.set
      BY <2>3, <2>5, <3>2, LoadedFacts
    <3> QED BY <3>1, <3>2
  <2>7. \A a \in {6, 8} : Smaller(registers'[a], MaxCoeff) = written'[a]
    <3> SUFFICES ASSUME NEW a \in {6, 8} PROVE Smaller(registers'[a], MaxCoeff) = written'[a]
      OBVIOUS
    <3>1. CASE a \in result.set
      BY <2>4, <2>5, <3>1 DEF Kept
    <3>2. CASE a \notin result.set
      BY <2>3, <2>5, <3>2, LoadedFacts
    <3> QED BY <3>1, <3>2
  <2>8. OrdersKept'
    BY <1>1, <2>6, <2>7 DEF OrdersKept
  <2>9. ASSUME reply'.kind = "read", NEW i \in DOMAIN reply'.values
        PROVE  LET a == reply'.start + i - 1
                   v == reply'.values[i]
               IN  /\ a \in Addresses /\ v = Loaded[a] /\ written' = written
    <3>1. result.set = {}
      BY <2>1, <2>2, <2>9 DEF InOrder
    <3>2. /\ reply'.start + i - 1 \in Addresses
          /\ reply'.values[i] = registers'[reply'.start + i - 1]
      BY <2>1, <2>2, <2>9 DEF InOrder
    <3>3. written' = written
      BY <2>2, <3>1 DEF TypeOK
    <3> QED BY <2>3, <3>1, <3>2, <3>3
  <2> QED BY <2>8, <2>9, LoadedFacts DEF ReadsAreCurrent, Settings
<1> QED BY <1>2, <1>3 DEF Task

LEMMA OrdersStep ==
    ASSUME TypeOK, TypeOK', OrdersKept, ReadsAreCurrent, [Next]_vars
    PROVE  OrdersKept' /\ ReadsAreCurrent'
<1>1. CASE \E ms \in Passes : Loop(ms)
  BY <1>1, OrdersLoop DEF Loop
<1>2. CASE RadioDone \/ UNCHANGED vars
  BY <1>2 DEF RadioDone, vars, program, OrdersKept, ReadsAreCurrent, IsActive
<1> QED BY <1>1, <1>2 DEF Next

(* What a master reads is what it wrote last, and the state of the program   *)
(* in the same pass, the response bit included.                              *)
THEOREM ReadsCurrent == Spec => []ReadsAreCurrent
  BY TypingInit, TypingStep, OrdersInit, OrdersStep, PTL DEF Spec

(* A message is begun only when the last orders ask for it, even if they     *)
(* came in the pass that begins it.                                          *)
THEOREM OnlyWanted == Spec => MessagesWanted
<1> DEFINE Wanted == \A m \in {"faster", "slower"} : sending # m /\ sending' = m =>
                         /\ IsActive(written'[0])
                         /\ IF m = "faster" THEN written'[2] > speed_actual'
                                            ELSE written'[2] < speed_actual'
<1>1. TypeOK /\ TypeOK' /\ OrdersKept' /\ [Next]_vars => [Wanted]_vars
  <2> SUFFICES ASSUME TypeOK, TypeOK', OrdersKept', [Next]_vars PROVE [Wanted]_vars
    OBVIOUS
  <2>1. ASSUME NEW ms \in Passes, Loop(ms)
        PROVE  Wanted
    <3>1. ms \in Nat /\ radioTX_interval' \in MIN_DELAY..(WordSize - 1)
      BY ControllerAssumption, SlaveAssumption DEF TypeOK
    <3>2. sending' # sending =>
              IsActive(registers'[0]) /\ sending' = Message(speed_demand', speed_actual')
      BY <2>1, <3>1, Transmission DEF Loop
    <3> QED BY <3>2 DEF OrdersKept, Message, speed_demand
  <2>2. CASE RadioDone \/ UNCHANGED vars
    BY <2>2 DEF RadioDone, vars
  <2> QED BY <2>1, <2>2 DEF Next
<1> QED BY <1>1, TypingInit, TypingStep, OrdersInit, OrdersStep, PTL DEF Spec, MessagesWanted
=============================================================================
