---------------------------- MODULE SpeedController ----------------------------
(***************************************************************************)
(* The control loop of the Arduino (SwimSpeedController.ino, loop()) with  *)
(* the registers it shares with the Modbus slave (module ModbusSlave).  One *)
(* step is one pass of loop(): sample the sensors, answer the Modbus frame *)
(* that may have come, compute how often to send, and perhaps hand a radio *)
(* message to the interrupt.  RadioTransmitter models how it is sent; here *)
(* the interrupt only says when a message is over, and the pump then turns *)
(* a little faster or slower.                                              *)
(***************************************************************************)
EXTENDS Integers, ModbusSlave

CONSTANTS
    MIN_DELAY,        \* MIN_DELAY_BETWEEN_MESSAGES; 100 ms
    SAMPLE_INTERVAL,  \* sample_interval; 10 ms
    MaxCoeff,         \* 0x7FFF
    Deadband, Timeconst, Coeff,   \* what the registers hold after a reset
    Passes,           \* milliseconds that a pass of loop() may take
    Traffic,          \* the frames that arrive on the serial line
    FilterScale,      \* A0_filter_value, a float, is counted in parts of 1 / FilterScale
    Noise,            \* by how much the sensor may miss the pump's speed
    DivByZero,        \* what a division by zero may yield
    MaxPump,          \* the largest reading the pump's speed gives; 1023
    Supplies          \* readings of the supply voltage

Settings == {4, 5, 6, 8}

ASSUME ControllerAssumption ==
    /\ MIN_DELAY \in 1..(WordSize - 1)
    /\ SAMPLE_INTERVAL \in Nat
    /\ MaxCoeff \in Word
    /\ Deadband \in Word /\ Timeconst \in Word /\ Coeff \in 0..MaxCoeff
    /\ Passes \subseteq Nat
    /\ Traffic \subseteq Frames
    /\ \A f \in Traffic : Fits(f) /\ Carries(f)
    /\ FilterScale \in Nat \ {0}
    /\ Noise \subseteq Int
    /\ DivByZero \subseteq Word /\ DivByZero # {}
    /\ MaxPump \in Word
    /\ Supplies \subseteq Word /\ 0 \in Supplies

VARIABLES
    registers,          \* mbs.registers
    A0_filter_value,    \* the speed filter, in parts of 1 / FilterScale
    speed_actual,       \* the filtered speed
    supply_voltage,     \* the filtered supply voltage
    sampled,            \* milliseconds since the last sample
    control_deadband, control_timeconst,
    coeff,              \* A0_filter_coeff and A1_filter_coeff, by register
    radioTX_interval,
    waited,             \* currentMillis - radioTX_previousMillis
    sending,            \* the message the interrupt has, or "none"
    pump,               \* the speed of the water, as the sensor would read it
    reply,              \* ghost: what the last pass answered
    written,            \* ghost: what each register was last set to
    quiet,              \* ghost: milliseconds since a message was last begun
    gap                 \* ghost: the same when the last message was begun

program == <<registers, A0_filter_value, speed_actual, supply_voltage, sampled, control_deadband,
             control_timeconst, coeff, radioTX_interval, waited>>
vars    == <<program, sending, pump, reply, written, quiet, gap>>

TypeOK ==
    /\ registers \in Banks
    /\ A0_filter_value \in 0..(FilterScale * MaxPump)
    /\ speed_actual \in 0..MaxPump
    /\ supply_voltage \in Word
    /\ sampled \in Nat
    /\ control_deadband \in Word
    /\ control_timeconst \in Word
    /\ coeff \in [{6, 8} -> 0..MaxCoeff]
    /\ radioTX_interval \in MIN_DELAY..(WordSize - 1)
    /\ waited \in Nat
    /\ sending \in {"none", "faster", "slower"}
    /\ pump \in 0..MaxPump
    /\ reply \in Replies
    /\ written \in [Addresses -> Word]
    /\ quiet \in Nat
    /\ gap \in Nat

SetupTime == 20 * MIN_DELAY   \* ModbusSlave::config waits for 2000 ms

Init ==
    /\ registers = [a \in Addresses |-> 0]
    /\ A0_filter_value = 0
    /\ speed_actual = 0
    /\ supply_voltage = 0
    /\ sampled = SetupTime
    /\ control_deadband = Deadband
    /\ control_timeconst = Timeconst
    /\ coeff = [a \in {6, 8} |-> Coeff]
    /\ radioTX_interval = MIN_DELAY
    /\ waited = SetupTime
    /\ sending = "none"
    /\ pump \in 0..MaxPump
    /\ reply = Silence
    /\ written = [a \in Addresses |->
                      CASE a = 4 -> Deadband [] a = 5 -> Timeconst
                        [] a \in {6, 8} -> Coeff [] OTHER -> 0]
    /\ quiet = MIN_DELAY
    /\ gap = MIN_DELAY

-----------------------------------------------------------------------------
(* Sampling.  The sensor reads the pump's speed with some noise and a       *)
(* first-order filter smooths it; the filtered value is rounded down, and    *)
(* may lag behind, or stop below, a speed that stays as it is.               *)
(* Of the supply voltage's filter only that it yields some value is kept.    *)

Readings == {r \in 0..MaxPump : r - pump \in Noise}

Filtered(reading) ==
    LET one == MaxCoeff + 1   \* 0x8000
    IN  ((one - coeff[6]) * FilterScale * reading + coeff[6] * A0_filter_value) \div one

Sample(ms) ==
    IF sampled + ms >= SAMPLE_INTERVAL
    THEN /\ sampled' = 0
         /\ A0_filter_value' \in {Filtered(r) : r \in Readings}
         /\ speed_actual' = A0_filter_value' \div FilterScale
         /\ supply_voltage' \in Supplies
    ELSE /\ sampled' = sampled + ms
         /\ UNCHANGED <<A0_filter_value, speed_actual, supply_voltage>>

-----------------------------------------------------------------------------
(* The Modbus slave. *)

IsActive(word) == (word \div 2) % 2 = 1   \* getBitState(.., CONTROL_BIT)

(* mutant: the settings are not loaded back after they were clamped *)
LoadedStale == [registers EXCEPT
    ![1] = IF IsActive(registers[0]) THEN 2 ELSE 0,
    ![3] = speed_actual',
    ![7] = supply_voltage',
    ![9] = radioTX_interval]

(* The registers as loop() fills them in before mbs.task().  Bit 1 of the    *)
(* response is what the control bit was when the last pass ended; registers  *)
(* 0 and 2 keep what was written to them.                                    *)
Loaded == [registers EXCEPT
    ![1] = IF IsActive(registers[0]) THEN 2 ELSE 0,
    ![3] = speed_actual',
    ![4] = control_deadband,
    ![5] = control_timeconst,
    ![6] = coeff[6],
    ![7] = supply_voltage',
    ![8] = coeff[8],
    ![9] = radioTX_interval]

Smaller(x, y) == IF x <= y THEN x ELSE y
Larger(x, y)  == IF x >= y THEN x ELSE y

Idle ==
    /\ registers' = Loaded
    /\ reply' = Silence
    /\ UNCHANGED written

(* What register a comes to hold when v is written to it. *)
Kept(a, v) == IF a \in {6, 8} THEN Smaller(v, MaxCoeff) ELSE v

(* What a master writes to the registers that loop() fills in lasts until    *)
(* its next pass.                                                            *)
Serve(f) ==
    LET result == task(Loaded, f)
    IN  /\ registers' = result.bank
        /\ reply' = result.reply
        /\ written' = [a \in Addresses |-> IF a \in result.set THEN Kept(a, result.bank[a])
                                           ELSE written[a]]

Task == Idle \/ \E f \in Traffic : Serve(f)

ReadBackUnclamped ==   \* mutant: no min() for the coefficients
    /\ control_deadband' = registers'[4]
    /\ control_timeconst' = registers'[5]
    /\ coeff' = [a \in {6, 8} |-> registers'[a]]

ReadBack ==
    /\ control_deadband' = registers'[4]
    /\ control_timeconst' = registers'[5]
    /\ coeff' = [a \in {6, 8} |-> Smaller(registers'[a], MaxCoeff)]

-----------------------------------------------------------------------------
(* How often to send.  abs() is a macro, and the difference of two words is  *)
(* a word: it is not negative, so that nothing is left for abs() to do.      *)

speed_demand == registers[2]

ControlError(demand, actual) == (actual - demand) % WordSize

Square(error) == (error * error) % WordSize

Quotients(a, b) == IF b = 0 THEN DivByZero ELSE {a \div b}

IntervalsUnlimited(error) == Quotients(control_timeconst', Square(error))   \* mutant: no max()

Intervals(error) == {Larger(i, MIN_DELAY) : i \in Quotients(control_timeconst', Square(error))}

MaxInterval == WordSize - 1

(* Waits longer than every interval are told apart no more. *)
Later(wait, ms) == Smaller(wait + ms, WordSize)

-----------------------------------------------------------------------------
(* The radio. *)

MessageSwapped(demand, actual) ==   \* mutant: the comparisons are the wrong way round
    IF demand < actual THEN "faster" ELSE IF demand > actual THEN "slower" ELSE "none"

Message(demand, actual) ==
    IF demand > actual THEN "faster" ELSE IF demand < actual THEN "slower" ELSE "none"

(* mutant: the active bit of the last pass decides *)
SendLate ==
    IF sending = "none" /\ IsActive(registers[0])
    THEN sending' = Message(speed_demand', speed_actual')
    ELSE UNCHANGED sending

Send ==
    IF sending = "none" /\ IsActive(registers'[0])
    THEN sending' = Message(speed_demand', speed_actual')
    ELSE UNCHANGED sending

Transmit(wait) ==
    IF wait >= radioTX_interval'
    THEN waited' = 0 /\ Send
    ELSE waited' = wait /\ UNCHANGED sending

Control(ms) ==
    LET error == ControlError(speed_demand', speed_actual')
    IN  IF error > control_deadband'
        THEN radioTX_interval' \in Intervals(error) /\ Transmit(Later(waited, ms))
        ELSE radioTX_interval' = MaxInterval /\ Transmit(0)

Loop(ms) ==
    /\ Sample(ms)
    /\ Task
    /\ ReadBack
    /\ Control(ms)
    /\ quiet' = IF sending' # sending THEN 0 ELSE Smaller(quiet + ms, MIN_DELAY)
    /\ gap' = IF sending' # sending THEN Smaller(quiet + ms, MIN_DELAY) ELSE gap
    /\ UNCHANGED pump

(* The interrupt has sent the last bit and the pump reacts. *)
RadioDone ==
    /\ sending # "none"
    /\ sending' = "none"
    /\ pump' = IF sending = "faster" THEN Smaller(pump + 1, MaxPump) ELSE Larger(pump - 1, 0)
    /\ UNCHANGED <<program, reply, written, quiet, gap>>

Next == (\E ms \in Passes : Loop(ms)) \/ RadioDone

Spec == Init /\ [][Next]_vars

(* loop() is called over and over and time passes; the interrupt ends what   *)
(* it began.                                                                 *)
FairSpec ==
    /\ Spec
    /\ WF_vars(\E ms \in Passes \ {0} : Loop(ms))
    /\ WF_vars(RadioDone)

-----------------------------------------------------------------------------
(* What a master reads, in whatever blocks: of the registers it may write,   *)
(* what it wrote last (the filter coefficients clamped); of the status       *)
(* registers, the state of the program in the same pass, whatever it wrote   *)
(* to them.  The response bit has caught up with the control bit by the      *)
(* first read after a write.                                                 *)
ReadsAreCurrent ==
    reply.kind = "read" =>
        \A i \in DOMAIN reply.values :
            LET a == reply.start + i - 1
                v == reply.values[i]
            IN  /\ a \in {0, 2} \union Settings => v = written[a]
                /\ a = 1 => (IsActive(v) <=> IsActive(written[0]))
                /\ a = 3 => v = speed_actual
                /\ a = 7 => v = supply_voltage

(* No two messages are begun less than MIN_DELAY_BETWEEN_MESSAGES apart,     *)
(* however the demand, the settings and the speed change in between.         *)
MinDelayKept == gap >= MIN_DELAY

(* A message is begun only if the last write of the control register         *)
(* activated control, and in the direction of the last demand written.       *)
MessagesWanted ==
    [][\A m \in {"faster", "slower"} : sending # m /\ sending' = m =>
           /\ IsActive(written'[0])
           /\ IF m = "faster" THEN written'[2] > speed_actual'
                              ELSE written'[2] < speed_actual']_vars

(* With control left active and the settings alone, the messages and the     *)
(* lagging filter do not chase each other for ever: the measured speed comes *)
(* to the demand, or to within the deadband above it, and stays there, and   *)
(* no message is sent any more.                                              *)
InBand == speed_actual >= speed_demand /\ speed_actual - speed_demand <= control_deadband

Converges ==
    \A v \in 0..MaxPump :
        <>[](/\ IsActive(registers[0]) /\ speed_demand = v
             /\ control_deadband = Deadband /\ control_timeconst = Timeconst
             /\ coeff[6] = Coeff)
            => <>[](sending = "none" /\ InBand)

(* Within the deadband the speed counts as correct and nothing is sent       *)
(* ("Act as if we sent a message as the speed is correct").                  *)
Distance(x, y) == IF x >= y THEN x - y ELSE y - x

DeadbandQuiet ==
    [][sending' \notin {"none", sending} =>
           Distance(speed_demand', speed_actual') > control_deadband']_vars
=============================================================================
