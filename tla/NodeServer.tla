------------------------------ MODULE NodeServer ------------------------------
(***************************************************************************)
(* The web server of the pool (NodeWebServer/modbus4.js), between the      *)
(* browsers and the Modbus gateway.  It keeps a copy of the Arduino's      *)
(* registers, a queue of requests of which one at a time is sent, and the  *)
(* workout that steers the speed.  Node runs one callback at a time: every *)
(* timer, HTTP request and response is one action.                         *)
(*                                                                         *)
(* The gateway and the Arduino are abstracted to the registers and to      *)
(* whether a request is answered.                                          *)
(***************************************************************************)
EXTENDS Integers, Sequences

CONSTANTS
    Workouts,        \* the workouts that initialiseSystem has loaded
    Found,           \* what the Arduino may hold when the server starts
    FilterRegister,  \* the register that each filter frequency is rounded to
    Puts,            \* [name, value] pairs that browsers PUT
    RuntimePuts,     \* run times, in seconds, that browsers PUT
    SupplyLevels,    \* readings of the supply voltage
    Elapsed,         \* seconds by which the wall clock moves between two reads
    Faults,          \* what goes wrong, of LinkFaults and "malformed"
    MaxQueue,        \* bound: read_registers adds nothing to a longer queue
    MaxPuts,         \* bound: requests of browsers
    MinRuntime       \* bound: how far a clock set back takes a run time

MaxWord  == 65535
Word     == 0..MaxWord
Control         == 0
SpeedDemand     == 2
Deadband        == 4
Timeconst       == 5
SpeedFilter     == 6
SupplyPower     == 7
SupplyFilter    == 8
Writable  == {Control, SpeedDemand, Deadband, Timeconst, SpeedFilter, SupplyFilter}
Addresses == Writable \union {SupplyPower}

Names == {"speed_demand_register", "speed_demand_volts", "speed_demand",
          "speed_actual_filter_COF", "supply_power_filter_COF", "control_active",
          "control_deadband_volts", "control_timeconst"}

Sections   == [speed : Nat, duration : Nat]
LinkFaults == {"lost", "error"}

ASSUME ServerAssumption ==
    /\ Workouts \in Seq(Seq(Sections)) \ {<<>>}
    /\ Found \subseteq [Addresses -> Word]
    /\ 25 \in DOMAIN FilterRegister
    /\ DOMAIN FilterRegister \subseteq Nat
    /\ \A f \in DOMAIN FilterRegister : FilterRegister[f] \in Word
    /\ Puts \subseteq [name : Names, value : Nat]
    /\ RuntimePuts \subseteq Int
    /\ SupplyLevels \subseteq Word
    /\ Elapsed \subseteq Int
    /\ Faults \subseteq LinkFaults \union {"malformed"}
    /\ MaxQueue \in Nat /\ MaxPuts \in Nat /\ MinRuntime \in Int

VARIABLES
    up,                    \* FALSE once an exception has ended the process
    modbus_queue,          \* its last element is the next to be sent
    modbus_busy,
    holding_registers,     \* the registers as last read
    last_time,             \* "null" before the first read
    active_workout_index,
    mode, runtime,         \* of the active workout
    wire,                  \* requests sent and not answered yet, oldest first
    registers,             \* the registers of the Arduino
    puts,                  \* bound: requests of browsers so far
    asked,                 \* ghost: what each register was last set to
    winner,                \* ghost: what it will hold when nothing is queued
    blind,                 \* ghost: control_active was set before the first read
    steered                \* ghost: when the workout put the speed that is to win

node  == <<up, modbus_queue, modbus_busy, holding_registers, last_time,
           active_workout_index, mode, runtime>>
ghost == <<asked, winner, blind, steered>>
vars  == <<node, wire, registers, puts, ghost>>

Requests == [fc : {"read"}] \union [fc : {"write"}, address : Writable, value : Word]
Wires    == [st : {"request", "lost", "error"}, req : Requests]
            \union [st : {"response"}, req : Requests, data : [Addresses -> Word]]

(* The workout that set a speed, and its run time then. *)
Steerings == [wo : 0..Len(Workouts), at : Int]
Nobody    == [wo |-> 0, at |-> 0]

TypeOK ==
    /\ up \in BOOLEAN
    /\ modbus_queue \in Seq(Requests)
    /\ modbus_busy \in BOOLEAN
    /\ holding_registers \in [Addresses -> Word]
    /\ last_time \in {"null", "set"}
    /\ active_workout_index \in DOMAIN Workouts
    /\ mode \in {"OFF", "ON", "AUTO"}
    /\ runtime \in Int
    /\ wire \in Seq(Wires)
    /\ registers \in [Addresses -> Word]
    /\ puts \in Nat
    /\ asked \in [Writable -> Word]
    /\ winner \in [Writable -> Word]
    /\ blind \in BOOLEAN
    /\ steered \in Steerings

-----------------------------------------------------------------------------
(* What a PUT value is turned into.  Voltages are in hundredths of a volt,   *)
(* filter frequencies in hundredths of a hertz and speeds are whole numbers; *)
(* control_active is 0 or 1.                                                 *)

Address(name) ==
    CASE name \in {"speed_demand_register", "speed_demand_volts", "speed_demand"} -> SpeedDemand
      [] name = "speed_actual_filter_COF" -> SpeedFilter
      [] name = "supply_power_filter_COF" -> SupplyFilter
      [] name = "control_active"          -> Control
      [] name = "control_deadband_volts"  -> Deadband
      [] name = "control_timeconst"       -> Timeconst

AcceptsAnyNumber(name, value) == value # 0   \* mutant: no upper bounds

(* setValue takes nothing for 0: `value &&' is false for it. *)
Accepts(name, value) ==
    \/ name = "speed_demand_register" /\ value \in 1..1023
    \/ name = "speed_demand" /\ value \in 1..55
    \/ name = "control_active" /\ value \in 0..1
    \/ name = "control_timeconst" /\ value \in 1..MaxWord
    \/ /\ name \in {"speed_demand_volts", "control_deadband_volts"}
       /\ value \in 1..500
    \/ /\ name \in {"speed_actual_filter_COF", "supply_power_filter_COF"}
       /\ value # 0
       /\ value \in DOMAIN FilterRegister

Volts(value)         == LET counts == (value * 2048 + 500) \div 1000
                        IN  IF counts > 1023 THEN 1023 ELSE counts
SpeedRegister(value) == ((value - 1) * 2048 + 150) \div 300 + 256

IsActive(word)    == (word \div 2) % 2 = 1
Deactivated(word) == IF IsActive(word) THEN word - 2 ELSE word

(* mutant: the control register is not looked at *)
ConvertedAlone(name, value) ==
    CASE name \in {"speed_demand_register", "control_timeconst"} -> value
      [] name \in {"speed_demand_volts", "control_deadband_volts"} -> Volts(value)
      [] name = "speed_demand"          -> SpeedRegister(value)
      [] name = "control_active"        -> 2 * value
      [] name \in {"speed_actual_filter_COF", "supply_power_filter_COF"} -> FilterRegister[value]

(* control_active changes one bit of the register as last read. *)
Converted(name, value) ==
    CASE name \in {"speed_demand_register", "control_timeconst"} -> value
      [] name \in {"speed_demand_volts", "control_deadband_volts"} -> Volts(value)
      [] name = "speed_demand"          -> SpeedRegister(value)
      [] name = "control_active"        -> Deactivated(holding_registers[Control]) + 2 * value
      [] name \in {"speed_actual_filter_COF", "supply_power_filter_COF"} -> FilterRegister[value]

Write(a, v) == [fc |-> "write", address |-> a, value |-> v]
Read        == [fc |-> "read"]

IsQueued(a) == \E i \in DOMAIN modbus_queue :
                   modbus_queue[i].fc = "write" /\ modbus_queue[i].address = a

(* setValue, for a value it takes: the request is put on top of the queue. *)
SetValue(a, v) ==
    /\ modbus_queue' = Append(modbus_queue, Write(a, v))
    /\ asked' = [asked EXCEPT ![a] = v]
    /\ winner' = IF IsQueued(a) THEN winner ELSE [winner EXCEPT ![a] = v]

-----------------------------------------------------------------------------
(* The workouts that initialiseSystem takes from the files it finds: those   *)
(* that have all three fields and a speed and a duration in every section;   *)
(* and a dummy when there is none.                                           *)
Fields == {"name", "description", "sections"}

WellFormed(file) ==
    /\ Fields \subseteq file.fields
    /\ \A i \in DOMAIN file.sections : {"speed", "duration"} \subseteq DOMAIN file.sections[i]

Loaded(files) ==
    LET good == SelectSeq(files, WellFormed)
    IN  IF good = <<>> THEN <<<<[speed |-> 0, duration |-> 0]>>>>
                       ELSE [i \in DOMAIN good |-> good[i].sections]

(* The Arduino as its setup() leaves it.  When the server starts the Arduino *)
(* may have been running, and hold what an earlier server or another client  *)
(* of the gateway wrote.                                                     *)
PowerOn == [a \in Addresses |->
                CASE a = Deadband  -> 10
                  [] a = Timeconst -> 10000
                  [] a \in {SpeedFilter, SupplyFilter} -> 32000
                  [] OTHER -> 0]

(* The four requests that initialiseSystem queues before any timer runs. *)
Initial == <<Write(SpeedFilter, FilterRegister[25]), Write(SupplyFilter, FilterRegister[25]),
             Write(Deadband, Volts(3)), Write(Timeconst, 10000)>>

InitAsked(found) ==
              [a \in Writable |->
                  CASE a = Deadband  -> Volts(3)
                    [] a = Timeconst -> 10000
                    [] a \in {SpeedFilter, SupplyFilter} -> FilterRegister[25]
                    [] OTHER -> found[a]]

Init ==
    /\ up = TRUE
    /\ modbus_queue = Initial
    /\ modbus_busy = FALSE
    /\ holding_registers = [a \in Addresses |-> 0]
    /\ last_time = "null"
    /\ active_workout_index = 1
    /\ mode = "OFF"
    /\ runtime = 0
    /\ wire = <<>>
    /\ registers \in Found
    /\ puts = 0
    /\ asked = InitAsked(registers)
    /\ winner = InitAsked(registers)
    /\ blind = FALSE
    /\ steered = Nobody

-----------------------------------------------------------------------------
(* The queue. *)

SendLast ==
    LET last == modbus_queue[Len(modbus_queue)]
    IN  /\ modbus_busy' = TRUE
        /\ wire' = Append(wire, [st |-> "request", req |-> last])
        /\ modbus_queue' = SubSeq(modbus_queue, 1, Len(modbus_queue) - 1)
        /\ UNCHANGED <<up, holding_registers, last_time, active_workout_index,
                       mode, runtime, registers, puts, ghost>>

service_modbus_queue_pipelined ==   \* mutant: modbus_busy is not looked at
    up /\ modbus_queue # <<>> /\ SendLast

service_modbus_queue_fifo ==   \* mutant: the oldest request is sent first
    /\ up
    /\ ~modbus_busy
    /\ modbus_queue # <<>>
    /\ modbus_busy' = TRUE
    /\ wire' = Append(wire, [st |-> "request", req |-> Head(modbus_queue)])
    /\ modbus_queue' = Tail(modbus_queue)
    /\ UNCHANGED <<up, holding_registers, last_time, active_workout_index,
                   mode, runtime, registers, puts, ghost>>

service_modbus_queue_kept ==   \* mutant: without modbus_queue_len--
    /\ up
    /\ ~modbus_busy
    /\ modbus_queue # <<>>
    /\ modbus_busy' = TRUE
    /\ wire' = Append(wire, [st |-> "request", req |-> modbus_queue[Len(modbus_queue)]])
    /\ UNCHANGED <<up, modbus_queue, holding_registers, last_time, active_workout_index,
                   mode, runtime, registers, puts, ghost>>

service_modbus_queue == up /\ ~modbus_busy /\ modbus_queue # <<>> /\ SendLast

read_registers ==
    /\ up
    /\ Len(modbus_queue) < MaxQueue
    /\ modbus_queue' = Append(modbus_queue, Read)
    /\ UNCHANGED <<up, modbus_busy, holding_registers, last_time, active_workout_index,
                   mode, runtime, wire, registers, puts, ghost>>

-----------------------------------------------------------------------------
(* The gateway and the Arduino. *)

Execute ==
    /\ \E i \in DOMAIN wire :
           LET req == wire[i].req IN
           /\ wire[i].st = "request"
           /\ \A j \in 1..(i - 1) : wire[j].st # "request"
           /\ registers' = IF req.fc = "write"
                           THEN [registers EXCEPT ![req.address] = req.value]
                           ELSE registers
           /\ wire' = [wire EXCEPT ![i] =
                          [st |-> "response", req |-> req, data |-> registers]]
    /\ UNCHANGED <<node, puts, ghost>>

(* The gateway gives a request up, before or after the Arduino did what it   *)
(* asks: it answers nothing and closes its connections.  Opening the port    *)
(* again may restart the Arduino.  Or an exception comes back.               *)
Fail ==
    /\ wire # <<>>
    /\ Head(wire).st \in {"request", "response"}
    /\ \E f \in Faults \intersect LinkFaults :
           /\ wire' = <<[st |-> f, req |-> Head(wire).req]>> \o Tail(wire)
           /\ registers' \in IF f = "lost" THEN {registers, PowerOn} ELSE {registers}
    /\ UNCHANGED <<node, puts, ghost>>

SupplySwitch ==
    /\ \E v \in SupplyLevels \ {registers[SupplyPower]} :
           registers' = [registers EXCEPT ![SupplyPower] = v]
    /\ UNCHANGED <<node, wire, puts, ghost>>

-----------------------------------------------------------------------------
(* The workout. *)

Active == Workouts[active_workout_index]

(* Time before section i of workout w. *)
CumTimes(w) == LET cum[i \in 0..Len(w)] == IF i = 0 THEN 0 ELSE cum[i - 1] + w[i].duration
               IN  cum
CumTime(w, i) == CumTimes(w)[i - 1]
TotalTime(w)  == CumTimes(w)[Len(w)]

SupplyPowerOn(data) == data[SupplyPower] * 5 > 2 * 1024

Steering(data) ==
    /\ mode = "ON" \/ (SupplyPowerOn(data) /\ mode = "AUTO")
    /\ runtime < TotalTime(Active)

(* mutant: a section is left one reading late *)
InSectionInclusive(t, i) == t >= CumTime(Active, i) /\ t <= CumTime(Active, i) + Active[i].duration

InSection(t, i) == t >= CumTime(Active, i) /\ t < CumTime(Active, i) + Active[i].duration

(* The speed of the first section that time t falls in is set, if setValue   *)
(* takes it; an earlier write that is still queued will undo it.             *)
SteerAt(t) ==
    LET found == {i \in DOMAIN Active : InSection(t, i)}
        speed == Active[CHOOSE i \in found : \A j \in found : i <= j].speed
    IN  IF found # {} /\ Accepts("speed_demand", speed)
        THEN /\ SetValue(SpeedDemand, SpeedRegister(speed))
             /\ steered' = IF IsQueued(SpeedDemand) THEN steered
                           ELSE [wo |-> active_workout_index, at |-> t]
        ELSE UNCHANGED <<modbus_queue, asked, winner, steered>>

ReadResponseTimed(time) ==
    /\ up
    /\ wire # <<>>
    /\ Head(wire).st = "response"
    /\ Head(wire).req.fc = "read"
    /\ modbus_busy' = FALSE
    /\ wire' = Tail(wire)
    /\ holding_registers' = Head(wire).data
    /\ last_time' = time
    /\ IF Steering(Head(wire).data)
       THEN \E e \in IF last_time = "null" THEN {0} ELSE Elapsed :
                /\ runtime + e >= MinRuntime
                /\ runtime' = runtime + e
                /\ SteerAt(runtime + e)
       ELSE UNCHANGED <<runtime, modbus_queue, asked, winner, steered>>
    /\ UNCHANGED <<up, active_workout_index, mode, registers, puts, blind>>

ReadResponseUntimed == ReadResponseTimed(last_time)   \* mutant: without last_time = time

ReadResponse == ReadResponseTimed("set")

-----------------------------------------------------------------------------
(* Other responses. *)

WriteResponseStuck ==   \* mutant: without modbus_busy = false
    /\ up
    /\ wire # <<>>
    /\ Head(wire).st = "response"
    /\ Head(wire).req.fc = "write"
    /\ wire' = Tail(wire)
    /\ UNCHANGED <<node, registers, puts, ghost>>

WriteResponse ==
    /\ up
    /\ wire # <<>>
    /\ Head(wire).st = "response"
    /\ Head(wire).req.fc = "write"
    /\ modbus_busy' = FALSE
    /\ wire' = Tail(wire)
    /\ UNCHANGED <<up, modbus_queue, holding_registers, last_time, active_workout_index,
                   mode, runtime, registers, puts, ghost>>

(* if (err) throw err: nothing catches it. *)
ErrorResponse ==
    /\ up
    /\ wire # <<>>
    /\ Head(wire).st = "error"
    /\ up' = FALSE
    /\ modbus_busy' = FALSE
    /\ wire' = Tail(wire)
    /\ UNCHANGED <<modbus_queue, holding_registers, last_time, active_workout_index,
                   mode, runtime, registers, puts, ghost>>

-----------------------------------------------------------------------------
(* The requests of the browsers. *)

Put == up /\ puts < MaxPuts /\ puts' = puts + 1

(* A value that setValue does not take is answered with 400 and changes      *)
(* nothing.                                                                  *)
PutValue ==
    /\ Put
    /\ \E p \in Puts :
           /\ Accepts(p.name, p.value)
           /\ SetValue(Address(p.name), Converted(p.name, p.value))
           /\ blind' = (blind \/ (Address(p.name) = Control /\ last_time = "null"))
           /\ steered' = IF Address(p.name) = SpeedDemand /\ ~IsQueued(SpeedDemand)
                         THEN Nobody ELSE steered
    /\ UNCHANGED <<up, modbus_busy, holding_registers, last_time, active_workout_index,
                   mode, runtime, wire, registers>>

(* set_active_workout_index *)
PutIndex ==
    /\ Put
    /\ active_workout_index' \in DOMAIN Workouts
    /\ mode' = "OFF"
    /\ runtime' = 0
    /\ UNCHANGED <<up, modbus_queue, modbus_busy, holding_registers, last_time,
                   wire, registers, ghost>>

PutRuntime ==
    /\ Put
    /\ \E t \in RuntimePuts :
           /\ t >= 0 /\ t <= TotalTime(Active)
           /\ runtime' = t
    /\ UNCHANGED <<up, modbus_queue, modbus_busy, holding_registers, last_time,
                   active_workout_index, mode, wire, registers, ghost>>

PutMode ==
    /\ Put
    /\ mode' \in {"OFF", "ON", "AUTO"}
    /\ UNCHANGED <<up, modbus_queue, modbus_busy, holding_registers, last_time,
                   active_workout_index, runtime, wire, registers, ghost>>

(* JSON.parse throws on a body that is not JSON, and the assignment to mode  *)
(* on an index between two workouts: nothing catches either.                 *)
PutMalformed ==
    /\ Put
    /\ "malformed" \in Faults
    /\ up' = FALSE
    /\ UNCHANGED <<modbus_queue, modbus_busy, holding_registers, last_time,
                   active_workout_index, mode, runtime, wire, registers, ghost>>

-----------------------------------------------------------------------------
Link == Execute \/ Fail \/ SupplySwitch
Respond == ReadResponse \/ WriteResponse \/ ErrorResponse
Browser == PutValue \/ PutIndex \/ PutRuntime \/ PutMode \/ PutMalformed
Next == service_modbus_queue \/ read_registers \/ Link \/ Respond \/ Browser

Spec == Init /\ [][Next]_vars

-----------------------------------------------------------------------------
(* The Modbus client matches no answer to its request: it works only because *)
(* modbus_busy lets one request at a time be outstanding.                    *)
OneOutstanding == Len(wire) = IF modbus_busy THEN 1 ELSE 0

Lost      == \E i \in DOMAIN wire : wire[i].st = "lost"
Restarted == Lost /\ \A a \in Writable : registers[a] = PowerOn[a]

(* Whatever is queued and however old the copy is that control_active was    *)
(* set in, no write changes another bit of the Arduino's control register,   *)
(* once the registers have been read.  (What is set before is set in a copy  *)
(* that is not there yet, and clears the other bits.)                        *)
OneBitWritten ==
    [][~blind' /\ ~Lost' =>
           Deactivated(registers'[Control]) = Deactivated(registers[Control])]_vars

InFlight(a) == \E i \in DOMAIN wire :
    /\ wire[i].st # "response"
    /\ wire[i].req.fc = "write"
    /\ wire[i].req.address = a

Settled(a) == ~IsQueued(a) /\ ~InFlight(a)

(* Once nothing is left to be written to a register it holds the first value *)
(* of the last burst of writes to it: the queue is a stack, and a write that *)
(* is put on another one of the same register is undone by it.  Only when an *)
(* answer was lost, and the Arduino restarted for it, is everything gone.    *)
FirstOfBurstWins ==
    up => Restarted \/ \A a \in Writable : Settled(a) => registers[a] = winner[a]

(* Once nothing is left to be written to the speed demand, and the first     *)
(* write of the last burst was the workout's, the demand is the speed of the *)
(* section the workout was in when it put that write: one of a section it    *)
(* entered while the write was still queued is undone by it, and so is what  *)
(* a browser put on it.  (A section of speed 0 has no write of its own:      *)
(* setValue does not take its speed.)                                        *)
SectionTime(w, i) == CumTimes(w)[i - 1]..(CumTimes(w)[i] - 1)

SteeredTo(value) ==
    LET w == Workouts[steered.wo]
    IN  \E i \in DOMAIN w : steered.at \in SectionTime(w, i) /\ value = SpeedRegister(w[i].speed)

WorkoutFollowed ==
    up /\ Settled(SpeedDemand) /\ steered # Nobody
        => Restarted \/ SteeredTo(registers[SpeedDemand])

(* The control is off when the last button pressed, and answered with 204,   *)
(* was "Deactivate Control".                                                 *)
DeactivateHolds ==
    (Settled(Control) /\ ~IsActive(asked[Control])) => ~IsActive(registers[Control])
=============================================================================
