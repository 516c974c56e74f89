--------------------------- MODULE NodeServer_proofs ---------------------------
(***************************************************************************)
(* What holds of the web server for any workouts, any values browsers PUT, *)
(* any clock and any loss or error of the link; and, last, of the server   *)
(* with its timers.                                                        *)
(***************************************************************************)
EXTENDS NodeTiming, SequenceTheorems, FiniteSetTheorems, WellFoundedInduction, TLAPS

-----------------------------------------------------------------------------
(* Conversions stay within a register. *)

LEMMA Words == \A w : w \in Word <=> w \in Int /\ 0 <= w /\ w <= 65535
<1>1. MaxWord = 65535
  BY DEF MaxWord
<1>2. MaxWord \in Nat
  BY DEF MaxWord
<1>3. \A w : w \in Word <=> w \in Int /\ 0 <= w /\ w <= MaxWord
  BY <1>2 DEF Word
<1> QED BY <1>1, <1>3

LEMMA AddressOf == \A name \in Names : Address(name) \in Writable
BY DEF Address, Names, Writable, Control, SpeedDemand, Deadband, Timeconst,
       SpeedFilter, SupplyFilter

LEMMA SpeedRegisterType ==
    \A v \in Int : 1 <= v /\ v <= 55 => SpeedRegister(v) \in Word
<1>1. \A v \in Int : 1 <= v /\ v <= 55
          => /\ 0 <= ((v - 1) * 2048 + 150) \div 300
             /\ ((v - 1) * 2048 + 150) \div 300 <= 369
  OBVIOUS
<1> QED BY <1>1, Words DEF SpeedRegister

LEMMA VoltsType == \A v \in Int : 1 <= v /\ v <= 500 => Volts(v) \in Word
<1>1. \A v \in Int : 1 <= v /\ v <= 500
          => /\ 0 <= (v * 2048 + 500) \div 1000
             /\ (v * 2048 + 500) \div 1000 <= 1024
  OBVIOUS
<1> QED BY <1>1, Words DEF Volts

LEMMA ControlType ==
    \A w \in Word, b \in 0..1 : Deactivated(w) + 2 * b \in Word
<1>1. \A w \in Word : 0 <= Deactivated(w) /\ Deactivated(w) <= 65533 /\ Deactivated(w) \in Int
  BY Words DEF Deactivated, IsActive
<1> QED BY <1>1, Words

LEMMA ConvertedType ==
    ASSUME TypeOK, NEW name \in Names, NEW v \in Nat, Accepts(name, v)
    PROVE  Converted(name, v) \in Word
<1>1. CASE name = "speed_demand"
  <2>1. 1 <= v /\ v <= 55
    BY <1>1 DEF Accepts
  <2> QED BY <1>1, <2>1, SpeedRegisterType DEF Converted
<1>2. CASE name = "control_active"
  <2>1. holding_registers[Control] \in Word
    BY DEF TypeOK, Addresses, Writable
  <2>2. v \in 0..1
    BY <1>2 DEF Accepts
  <2>3. Deactivated(holding_registers[Control]) + 2 * v \in Word
    BY <2>1, <2>2, ControlType
  <2> QED BY <1>2, <2>3 DEF Converted
<1>3. CASE name \in {"speed_demand_volts", "control_deadband_volts"}
  <2>1. 1 <= v /\ v <= 500
    BY <1>3 DEF Accepts
  <2> QED BY <1>3, <2>1, VoltsType DEF Converted
<1>4. CASE name \in {"speed_actual_filter_COF", "supply_power_filter_COF"}
  <2>1. v \in DOMAIN FilterRegister
    BY <1>4 DEF Accepts
  <2> QED BY <1>4, <2>1, ServerAssumption DEF Converted
<1>5. CASE name \in {"speed_demand_register", "control_timeconst"}
  <2>1. MaxWord \in Nat /\ MaxWord >= 1023
    BY DEF MaxWord
  <2>2. 0 <= v /\ v <= MaxWord
    BY <1>5, <2>1 DEF Accepts
  <2> QED BY <1>5, <2>1, <2>2 DEF Converted, Word
<1> QED BY <1>1, <1>2, <1>3, <1>4, <1>5 DEF Names

-----------------------------------------------------------------------------
(* Requests, and the sequences that hold them. *)

LEMMA WriteType == \A a \in Writable, v \in Word : Write(a, v) \in Requests
BY DEF Write, Requests

LEMMA ReadType == Read \in Requests
BY DEF Read, Requests

LEMMA SetValueType ==
    ASSUME TypeOK, NEW a \in Writable, NEW v \in Word, SetValue(a, v)
    PROVE  /\ modbus_queue' \in Seq(Requests)
           /\ asked' \in [Writable -> Word]
           /\ winner' \in [Writable -> Word]
<1>1. modbus_queue' \in Seq(Requests)
  <2>1. Write(a, v) \in Requests
    BY WriteType
  <2> HIDE DEF Write
  <2> QED BY <2>1 DEF TypeOK, SetValue
<1>2. asked' \in [Writable -> Word]
  BY DEF TypeOK, SetValue
<1>3. winner' \in [Writable -> Word]
  BY DEF TypeOK, SetValue
<1> QED BY <1>1, <1>2, <1>3

LEMMA InitTyped ==
    /\ PowerOn \in [Addresses -> Word]
    /\ \A found \in [Addresses -> Word] : InitAsked(found) \in [Writable -> Word]
    /\ Initial \in Seq(Requests)
<1>1. /\ 0 \in Word /\ 10 \in Word /\ 10000 \in Word /\ 32000 \in Word
      /\ FilterRegister[25] \in Word /\ Volts(3) \in Word
  <2>1. 0 \in Word /\ 10 \in Word /\ 10000 \in Word /\ 32000 \in Word
    BY Words
  <2>2. FilterRegister[25] \in Word
    BY ServerAssumption
  <2>3. Volts(3) \in Word
    BY VoltsType
  <2> QED BY <2>1, <2>2, <2>3
<1>2. PowerOn \in [Addresses -> Word]
  BY <1>1 DEF PowerOn
<1>3. \A found \in [Addresses -> Word] : InitAsked(found) \in [Writable -> Word]
  BY <1>1 DEF InitAsked, Addresses
<1>4. /\ Write(SpeedFilter, FilterRegister[25]) \in Requests
      /\ Write(SupplyFilter, FilterRegister[25]) \in Requests
      /\ Write(Deadband, Volts(3)) \in Requests
      /\ Write(Timeconst, 10000) \in Requests
  BY <1>1, WriteType DEF Writable
<1>5. Initial \in Seq(Requests)
  <2> HIDE DEF Write, Requests, Deadband, Timeconst, SpeedFilter, SupplyFilter
  <2> QED BY <1>4, SMTT(20) DEF Initial
<1> QED BY <1>2, <1>3, <1>5

LEMMA NobodySteers == Nobody \in Steerings
<1>1. Len(Workouts) \in Nat
  BY ServerAssumption
<1> QED BY <1>1 DEF Nobody, Steerings

LEMMA SomebodySteers ==
    \A i \in DOMAIN Workouts, t \in Int :
        [wo |-> i, at |-> t] \in Steerings /\ [wo |-> i, at |-> t] # Nobody
<1>1. Len(Workouts) \in Nat /\ DOMAIN Workouts = 1..Len(Workouts)
  BY ServerAssumption
<1>2. \A i \in DOMAIN Workouts : i \in 0..Len(Workouts) /\ i # 0
  BY <1>1
<1> QED BY <1>2 DEF Nobody, Steerings

LEMMA TypeInit == Init => TypeOK
<1> SUFFICES ASSUME Init PROVE TypeOK
  OBVIOUS
<1>1. holding_registers \in [Addresses -> Word]
  BY Words DEF Init
<1>2. active_workout_index \in DOMAIN Workouts
  <2>1. Workouts \in Seq(Seq(Sections)) /\ Workouts # <<>>
    BY ServerAssumption
  <2>2. Len(Workouts) \in Nat /\ Len(Workouts) >= 1 /\ DOMAIN Workouts = 1..Len(Workouts)
    BY <2>1
  <2> QED BY <2>2 DEF Init
<1>3. wire \in Seq(Wires)
  BY DEF Init
<1>4. modbus_queue \in Seq(Requests) /\ registers \in [Addresses -> Word]
      /\ asked \in [Writable -> Word] /\ winner \in [Writable -> Word]
  <2>1. registers \in [Addresses -> Word]
    BY ServerAssumption DEF Init
  <2> QED BY <2>1, InitTyped DEF Init
<1>5. up \in BOOLEAN /\ modbus_busy \in BOOLEAN /\ blind \in BOOLEAN
  BY Zenon DEF Init
<1>7. steered \in Steerings
  BY NobodySteers DEF Init
<1>6. /\ last_time \in {"null", "set"} /\ mode \in {"OFF", "ON", "AUTO"}
      /\ runtime \in Int /\ puts \in Nat
  BY DEF Init
<1> QED BY <1>1, <1>2, <1>3, <1>4, <1>5, <1>6, <1>7, Zenon DEF TypeOK

(* Elements and ends of sequences. *)
LEMMA HeadTail ==
    ASSUME NEW S, NEW q \in Seq(S), q # <<>>
    PROVE  /\ Head(q) \in S /\ Head(q) = q[1]
           /\ Tail(q) \in Seq(S)
           /\ Len(q) \in Nat /\ Len(q) >= 1
           /\ Len(Tail(q)) = Len(q) - 1
           /\ \A i \in 1..(Len(q) - 1) : Tail(q)[i] = q[i + 1]
OBVIOUS

LEMMA AllButLast ==
    ASSUME NEW S, NEW q \in Seq(S), q # <<>>
    PROVE  /\ q[Len(q)] \in S
           /\ SubSeq(q, 1, Len(q) - 1) \in Seq(S)
           /\ Len(SubSeq(q, 1, Len(q) - 1)) = Len(q) - 1
           /\ \A i \in 1..(Len(q) - 1) : SubSeq(q, 1, Len(q) - 1)[i] = q[i]
<1>1. Len(q) \in Nat /\ Len(q) >= 1
  OBVIOUS
<1>2. \A i \in 1..Len(q) : q[i] \in S
  OBVIOUS
<1>3. \A i \in 1..(Len(q) - 1) : q[i] \in S
  BY <1>1, <1>2
<1>4. /\ SubSeq(q, 1, Len(q) - 1) \in Seq(S)
      /\ Len(SubSeq(q, 1, Len(q) - 1)) =
             IF 1 <= Len(q) - 1 THEN (Len(q) - 1) - 1 + 1 ELSE 0
      /\ \A i \in 1..((Len(q) - 1) - 1 + 1) : SubSeq(q, 1, Len(q) - 1)[i] = q[1 + i - 1]
  <2>1. 1 \in Int /\ Len(q) - 1 \in Int
    BY <1>1
  <2> QED BY <1>3, <2>1, SubSeqProperties
<1>5. Len(SubSeq(q, 1, Len(q) - 1)) = Len(q) - 1
  <2> DEFINE n == Len(q)  front == SubSeq(q, 1, n - 1)  k == Len(front)
  <2>1. n \in Nat /\ n >= 1 /\ k = IF 1 <= n - 1 THEN (n - 1) - 1 + 1 ELSE 0
    BY <1>1, <1>4
  <2> HIDE DEF n, k
  <2>2. k = n - 1
    BY <2>1
  <2> QED BY <2>2 DEF n, k
<1>6. \A i \in 1..(Len(q) - 1) : SubSeq(q, 1, Len(q) - 1)[i] = q[i]
  <2>1. \A i \in 1..(Len(q) - 1) : i \in 1..((Len(q) - 1) - 1 + 1) /\ 1 + i - 1 = i
    BY <1>1
  <2> QED BY <1>4, <2>1
<1> QED BY <1>1, <1>2, <1>4, <1>5, <1>6

-----------------------------------------------------------------------------
(* Type correctness, the flags apart from the rest. *)

TypeFlags ==
    up \in BOOLEAN /\ modbus_busy \in BOOLEAN /\ blind \in BOOLEAN

TypeData ==
    /\ modbus_queue \in Seq(Requests)
    /\ holding_registers \in [Addresses -> Word]
    /\ last_time \in {"null", "set"}
    /\ active_workout_index \in DOMAIN Workouts
    /\ mode \in {"OFF", "ON", "AUTO"}
    /\ runtime \in Int
    /\ wire \in Seq(Wires)
    /\ registers \in [Addresses -> Word]
    /\ puts \in Nat
    /\ asked \in [Writable -> Word]
    /\ winner \in [Writable -> Word]
    /\ steered \in Steerings

LEMMA TypeParts == TypeOK <=> TypeFlags /\ TypeData
BY Zenon DEF TypeOK, TypeFlags, TypeData

LEMMA FlagsStep == TypeFlags /\ [Next]_vars => TypeFlags'
<1> SUFFICES ASSUME TypeFlags, [Next]_vars PROVE TypeFlags'
  OBVIOUS
<1> USE DEF TypeFlags
<1>1. CASE service_modbus_queue
  BY <1>1, Zenon DEF service_modbus_queue, SendLast, ghost
<1>2. CASE read_registers
  BY <1>2, Zenon DEF read_registers, ghost
<1>3. CASE Execute
  BY <1>3, Zenon DEF Execute, node, ghost
<1>4. CASE Fail \/ SupplySwitch
  BY <1>4, Zenon DEF Fail, SupplySwitch, node, ghost
<1>5. CASE ReadResponse
  BY <1>5, Zenon DEF ReadResponse, ReadResponseTimed
<1>6. CASE WriteResponse \/ ErrorResponse
  BY <1>6, Zenon DEF WriteResponse, ErrorResponse, ghost
<1>7. CASE PutValue
  BY <1>7, Zenon DEF PutValue, Put
<1>8. CASE PutIndex \/ PutRuntime \/ PutMode \/ PutMalformed
  BY <1>8, Zenon DEF PutIndex, PutRuntime, PutMode, PutMalformed, Put, ghost
<1>9. CASE UNCHANGED vars
  BY <1>9, Zenon DEF vars, node, ghost
<1> QED BY <1>1, <1>2, <1>3, <1>4, <1>5, <1>6, <1>7, <1>8, <1>9, Zenon
        DEF Next, Link, Respond, Browser

LEMMA WireType ==
    \A r \in Requests :
        /\ [st |-> "request", req |-> r] \in Wires
        /\ \A f \in {"lost", "error"} : [st |-> f, req |-> r] \in Wires
        /\ \A d \in [Addresses -> Word] :
               [st |-> "response", req |-> r, data |-> d] \in Wires
<1> HIDE DEF Requests
<1> QED BY DEF Wires

LEMMA WireFields ==
    \A w \in Wires : /\ w.req \in Requests
                     /\ w.st = "response" => w.data \in [Addresses -> Word]
BY DEF Wires

LEMMA RequestFields ==
    \A r \in Requests : r.fc = "write" => r.address \in Writable /\ r.value \in Word
BY DEF Requests

LEMMA TypeDataSend == TypeData /\ modbus_queue # <<>> /\ SendLast => TypeData'
<1> SUFFICES ASSUME TypeData, modbus_queue # <<>>, SendLast PROVE TypeData'
  OBVIOUS
<1> DEFINE last == modbus_queue[Len(modbus_queue)]
<1>1. last \in Requests /\ SubSeq(modbus_queue, 1, Len(modbus_queue) - 1) \in Seq(Requests)
  BY AllButLast DEF TypeData
<1>2. [st |-> "request", req |-> last] \in Wires
  BY <1>1, WireType
<1>3. modbus_queue' \in Seq(Requests)
  BY <1>1 DEF SendLast
<1>4. wire' \in Seq(Wires)
  <2> DEFINE w == [st |-> "request", req |-> last]
  <2>1. w \in Wires /\ wire \in Seq(Wires) /\ wire' = Append(wire, w)
    BY <1>2 DEF SendLast, TypeData
  <2> HIDE DEF w
  <2> QED BY <2>1
<1>5. UNCHANGED <<holding_registers, last_time, active_workout_index,
                  mode, runtime, registers, puts, asked, winner, steered>>
  BY DEF SendLast, ghost
<1> QED BY <1>3, <1>4, <1>5 DEF TypeData

LEMMA TypeDataExecute == TypeData /\ Execute => TypeData'
<1> SUFFICES ASSUME TypeData, Execute PROVE TypeData'
  OBVIOUS
<1>1. PICK i \in DOMAIN wire :
          LET req == wire[i].req IN
          /\ registers' = IF req.fc = "write"
                          THEN [registers EXCEPT ![req.address] = req.value]
                          ELSE registers
          /\ wire' = [wire EXCEPT ![i] =
                         [st |-> "response", req |-> req, data |-> registers]]
  BY DEF Execute
<1> DEFINE req == wire[i].req  w == [st |-> "response", req |-> req, data |-> registers]
<1>2. req \in Requests /\ registers \in [Addresses -> Word]
  BY WireFields DEF TypeData
<1>3. registers' \in [Addresses -> Word]
  <2>1. CASE req.fc = "write"
    <3>1. req.address \in Addresses /\ req.value \in Word
      BY <1>2, <2>1, RequestFields DEF Addresses
    <3>2. registers' = [registers EXCEPT ![req.address] = req.value]
      BY <1>1, <2>1
    <3> HIDE DEF req
    <3> QED BY <1>2, <3>1, <3>2
  <2>2. CASE req.fc # "write"
    BY <1>1, <1>2, <2>2
  <2> QED BY <2>1, <2>2
<1>4. wire' \in Seq(Wires)
  <2>1. w \in Wires /\ wire \in Seq(Wires) /\ wire' = [wire EXCEPT ![i] = w]
    BY <1>1, <1>2, WireType DEF TypeData
  <2> HIDE DEF w
  <2> QED BY <2>1
<1>5. UNCHANGED <<modbus_queue, holding_registers, last_time, active_workout_index,
                  mode, runtime, puts, asked, winner, steered>>
  BY DEF Execute, node, ghost
<1> QED BY <1>3, <1>4, <1>5 DEF TypeData

LEMMA TypeDataFail == TypeData /\ Fail => TypeData'
<1> SUFFICES ASSUME TypeData, Fail PROVE TypeData'
  OBVIOUS
<1>1. PICK f \in LinkFaults : wire' = <<[st |-> f, req |-> Head(wire).req]>> \o Tail(wire)
  BY DEF Fail
<1> DEFINE w == [st |-> f, req |-> Head(wire).req]
<1>2. wire \in Seq(Wires) /\ wire # <<>>
  BY DEF TypeData, Fail
<1>3. Head(wire) \in Wires /\ Tail(wire) \in Seq(Wires)
  BY <1>2, HeadTail
<1>4. w \in Wires
  <2>1. f \in {"lost", "error"} /\ Head(wire).req \in Requests
    BY <1>3, WireFields DEF LinkFaults
  <2> QED BY <2>1, WireType
<1>5. wire' \in Seq(Wires)
  <2>1. wire' = <<w>> \o Tail(wire)
    BY <1>1
  <2> HIDE DEF w
  <2>2. <<w>> \in Seq(Wires)
    BY <1>4
  <2> QED BY <1>3, <2>1, <2>2, ConcatProperties
<1>6. UNCHANGED <<modbus_queue, holding_registers, last_time, active_workout_index,
                  mode, runtime, puts, asked, winner, steered>>
  BY DEF Fail, node, ghost
<1>7. registers' \in [Addresses -> Word]
  <2>1. registers' \in {registers, PowerOn}
    BY DEF Fail
  <2> QED BY <2>1, InitTyped DEF TypeData
<1> QED BY <1>5, <1>6, <1>7 DEF TypeData

LEMMA TypeDataRead == TypeOK /\ ReadResponse => TypeData'
<1> SUFFICES ASSUME TypeOK, ReadResponse PROVE TypeData'
  OBVIOUS
<1>0. TypeData
  BY TypeParts
<1>1. wire \in Seq(Wires) /\ wire # <<>> /\ Head(wire).st = "response"
  BY <1>0 DEF ReadResponse, ReadResponseTimed, TypeData
<1>2. Head(wire) \in Wires /\ Tail(wire) \in Seq(Wires)
  BY <1>1, HeadTail
<1>3. Head(wire).data \in [Addresses -> Word]
  BY <1>1, <1>2, WireFields
<1>4. wire' \in Seq(Wires) /\ holding_registers' \in [Addresses -> Word]
      /\ last_time' \in {"null", "set"}
  BY <1>2, <1>3 DEF ReadResponse, ReadResponseTimed
<1>5. /\ runtime' \in Int
      /\ modbus_queue' \in Seq(Requests)
      /\ asked' \in [Writable -> Word] /\ winner' \in [Writable -> Word]
      /\ steered' \in Steerings
  <2>1. CASE UNCHANGED <<runtime, modbus_queue, asked, winner, steered>>
    BY <1>0, <2>1 DEF TypeData
  <2>2. CASE \E e \in IF last_time = "null" THEN {0} ELSE Elapsed :
                 runtime' = runtime + e /\ SteerAt(runtime + e)
    <3>1. PICK e \in IF last_time = "null" THEN {0} ELSE Elapsed :
              runtime' = runtime + e /\ SteerAt(runtime + e)
      BY <2>2
    <3>2. e \in Int
      BY ServerAssumption
    <3>3. runtime' \in Int
      BY <1>0, <3>1, <3>2 DEF TypeData
    <3>6. steered' \in Steerings
      <4>1. steered' \in {steered, [wo |-> active_workout_index, at |-> runtime + e]}
        BY <3>1 DEF SteerAt
      <4>2. runtime + e \in Int
        BY <3>1, <3>3
      <4> QED BY <1>0, <4>1, <4>2, SomebodySteers DEF TypeData
    <3>4. CASE UNCHANGED <<modbus_queue, asked, winner>>
      BY <1>0, <3>3, <3>4, <3>6 DEF TypeData
    <3>5. CASE \E s : Accepts("speed_demand", s) /\ SetValue(SpeedDemand, SpeedRegister(s))
      <4>1. PICK s : Accepts("speed_demand", s) /\ SetValue(SpeedDemand, SpeedRegister(s))
        BY <3>5
      <4>2. s \in Int /\ 1 <= s /\ s <= 55
        BY <4>1 DEF Accepts
      <4>3. SpeedRegister(s) \in Word /\ SpeedDemand \in Writable
        BY <4>2, SpeedRegisterType DEF Writable
      <4> QED BY <3>3, <3>6, <4>1, <4>3, SetValueType
    <3> QED BY <3>1, <3>4, <3>5 DEF SteerAt
  <2> QED BY <2>1, <2>2 DEF ReadResponse, ReadResponseTimed
<1>6. UNCHANGED <<active_workout_index, mode, registers, puts>>
  BY DEF ReadResponse, ReadResponseTimed
<1> QED BY <1>0, <1>4, <1>5, <1>6 DEF TypeData

LEMMA TypeDataPuts == TypeOK /\ Browser => TypeData'
<1> SUFFICES ASSUME TypeOK, Browser PROVE TypeData'
  OBVIOUS
<1>0. TypeData
  BY TypeParts
<1>1. CASE PutValue
  <2>1. PICK p \in Puts :
            Accepts(p.name, p.value)
            /\ SetValue(Address(p.name), Converted(p.name, p.value))
    BY <1>1 DEF PutValue
  <2>2. p.name \in Names /\ p.value \in Nat
    BY ServerAssumption
  <2>3. Address(p.name) \in Writable
    BY <2>2, AddressOf
  <2>4. Converted(p.name, p.value) \in Word
    BY <2>1, <2>2, ConvertedType
  <2>5. /\ modbus_queue' \in Seq(Requests)
        /\ asked' \in [Writable -> Word] /\ winner' \in [Writable -> Word]
    BY <2>1, <2>3, <2>4, SetValueType
  <2>6. /\ puts' \in Nat
        /\ UNCHANGED <<holding_registers, last_time, active_workout_index,
                       mode, runtime, wire, registers>>
    BY <1>0, <1>1 DEF PutValue, Put, TypeData
  <2>7. steered' \in Steerings
    <3>1. steered' \in {steered, Nobody}
      BY <1>1 DEF PutValue
    <3> QED BY <1>0, <3>1, NobodySteers DEF TypeData
  <2> QED BY <1>0, <2>5, <2>6, <2>7 DEF TypeData
<1>2. CASE PutIndex
  BY <1>0, <1>2 DEF PutIndex, Put, TypeData, ghost
<1>3. CASE PutRuntime
  <2>1. runtime' \in Int
    BY <1>3, ServerAssumption DEF PutRuntime
  <2> QED BY <1>0, <1>3, <2>1 DEF PutRuntime, Put, TypeData, ghost
<1>4. CASE PutMode
  BY <1>0, <1>4 DEF PutMode, Put, TypeData, ghost
<1>5. CASE PutMalformed
  BY <1>0, <1>5 DEF PutMalformed, Put, TypeData, ghost
<1> QED BY <1>1, <1>2, <1>3, <1>4, <1>5 DEF Browser

LEMMA TypeDataStep == TypeOK /\ [Next]_vars => TypeData'
<1> SUFFICES ASSUME TypeOK, [Next]_vars PROVE TypeData'
  OBVIOUS
<1>0. TypeData
  BY TypeParts
<1>1. CASE service_modbus_queue
  BY <1>0, <1>1, TypeDataSend DEF service_modbus_queue
<1>2. CASE read_registers
  <2>1. modbus_queue' \in Seq(Requests)
    <3> HIDE DEF Read
    <3> QED BY <1>0, <1>2, ReadType DEF read_registers, TypeData
  <2> QED BY <1>0, <1>2, <2>1 DEF read_registers, ghost, TypeData
<1>3. CASE SupplySwitch
  <2>1. PICK v \in SupplyLevels : registers' = [registers EXCEPT ![SupplyPower] = v]
    BY <1>3 DEF SupplySwitch
  <2>2. v \in Word
    BY ServerAssumption
  <2> QED BY <1>0, <1>3, <2>1, <2>2 DEF SupplySwitch, node, ghost, TypeData
<1>4. CASE WriteResponse \/ ErrorResponse
  <2>1. wire \in Seq(Wires) /\ wire # <<>> /\ wire' = Tail(wire)
    BY <1>0, <1>4 DEF WriteResponse, ErrorResponse, TypeData
  <2>2. wire' \in Seq(Wires)
    BY <2>1, HeadTail
  <2> QED BY <1>0, <1>4, <2>2 DEF WriteResponse, ErrorResponse, ghost, TypeData
<1>5. CASE UNCHANGED vars
  BY <1>0, <1>5 DEF vars, node, ghost, TypeData
<1> QED BY <1>0, <1>1, <1>2, <1>3, <1>4, <1>5,
           TypeDataExecute, TypeDataFail, TypeDataRead, TypeDataPuts
        DEF Next, Link, Respond

(* Every variable of the server keeps its type; in particular no request     *)
(* that is queued or sent holds a value too large for a register.            *)
THEOREM Typing == Spec => []TypeOK
<1>1. TypeOK /\ [Next]_vars => TypeOK'
  <2> SUFFICES ASSUME TypeOK, [Next]_vars PROVE TypeOK'
    OBVIOUS
  <2>1. TypeFlags' /\ TypeData'
    BY TypeParts, FlagsStep, TypeDataStep
  <2> QED BY <2>1, Zenon DEF TypeOK, TypeFlags, TypeData
<1> QED BY <1>1, TypeInit, PTL DEF Spec

-----------------------------------------------------------------------------
(* One request at a time. *)

LEMMA OneStep == TypeOK /\ OneOutstanding /\ [Next]_vars => OneOutstanding'
<1> SUFFICES ASSUME TypeOK, OneOutstanding, [Next]_vars PROVE OneOutstanding'
  OBVIOUS
<1>0. TypeData /\ wire \in Seq(Wires)
  BY TypeParts DEF TypeData
<1>1. CASE service_modbus_queue
  <2>1. ~modbus_busy /\ Len(wire) = 0
    BY <1>1 DEF OneOutstanding, service_modbus_queue
  <2>2. Len(wire') = 1
    <3> DEFINE w == [st |-> "request", req |-> modbus_queue[Len(modbus_queue)]]
    <3>1. wire' = Append(wire, w)
      BY <1>1 DEF service_modbus_queue, SendLast
    <3> HIDE DEF w
    <3> QED BY <1>0, <2>1, <3>1
  <2>3. modbus_busy'
    BY <1>1, Zenon DEF service_modbus_queue, SendLast
  <2> QED BY <2>2, <2>3 DEF OneOutstanding
<1>2. CASE Execute \/ Fail
  <2>1. Len(wire') = Len(wire)
    <3>1. CASE Execute
      <4>1. PICK i \in DOMAIN wire : wire' = [wire EXCEPT ![i] =
                [st |-> "response", req |-> wire[i].req, data |-> registers]]
        BY <3>1 DEF Execute
      <4> DEFINE w == [st |-> "response", req |-> wire[i].req, data |-> registers]
      <4>2. wire' = [wire EXCEPT ![i] = w]
        BY <4>1
      <4> HIDE DEF w
      <4> QED BY <1>0, <4>2
    <3>2. CASE Fail
      <4>1. PICK f \in LinkFaults :
                wire' = <<[st |-> f, req |-> Head(wire).req]>> \o Tail(wire)
        BY <3>2 DEF Fail
      <4> DEFINE w == [st |-> f, req |-> Head(wire).req]
      <4>2. wire' = <<w>> \o Tail(wire) /\ wire # <<>>
        BY <3>2, <4>1 DEF Fail
      <4>3. Tail(wire) \in Seq(Wires) /\ Len(Tail(wire)) = Len(wire) - 1
            /\ Len(wire) \in Nat
        BY <1>0, <4>2, HeadTail
      <4> HIDE DEF w
      <4>4. Len(wire') = 1 + Len(Tail(wire))
        <5>1. <<w>> \in Seq({w} \union Wires) /\ Tail(wire) \in Seq({w} \union Wires)
              /\ Len(<<w>>) = 1
          BY <4>3
        <5> QED BY <4>2, <5>1, ConcatProperties
      <4> QED BY <4>3, <4>4
    <3> QED BY <1>2, <3>1, <3>2
  <2>2. modbus_busy' = modbus_busy
    BY <1>2, Zenon DEF Execute, Fail, node
  <2> QED BY <2>1, <2>2, Zenon DEF OneOutstanding
<1>3. CASE Respond
  <2>1. wire # <<>> /\ wire' = Tail(wire)
    BY <1>3 DEF Respond, ReadResponse, ReadResponseTimed, WriteResponse, ErrorResponse
  <2>2. ~modbus_busy'
    BY <1>3, Zenon DEF Respond, ReadResponse, ReadResponseTimed, WriteResponse, ErrorResponse
  <2>3. Len(wire) >= 1 /\ Len(wire) \in Nat /\ Len(Tail(wire)) = Len(wire) - 1
    BY <1>0, <2>1, HeadTail
  <2>4. Len(wire) = 1
    BY <2>3 DEF OneOutstanding
  <2> QED BY <2>1, <2>2, <2>3, <2>4 DEF OneOutstanding
<1>4. CASE read_registers \/ SupplySwitch \/ Browser \/ UNCHANGED vars
  <2>1. wire' = wire /\ modbus_busy' = modbus_busy
    BY <1>4, Zenon DEF read_registers, SupplySwitch, Browser, PutValue, PutIndex, PutRuntime,
              PutMode, PutMalformed, vars, node
  <2> QED BY <2>1, Zenon DEF OneOutstanding
<1> QED BY <1>1, <1>2, <1>3, <1>4 DEF Next, Link

(* The server never has two requests outstanding, and modbus_busy says       *)
(* whether it has one, whatever is lost or fails.                            *)
THEOREM OneAtATime == Spec => []OneOutstanding
<1>1. Init => OneOutstanding
  BY DEF Init, OneOutstanding
<1> QED BY <1>1, OneStep, Typing, PTL DEF Spec

-----------------------------------------------------------------------------
(* The outstanding request. *)

(* At most one request is outstanding: the only element of the wire. *)
LEMMA OneWire ==
    ASSUME TypeOK, OneOutstanding
    PROVE  /\ wire = <<>> \/ (Len(wire) = 1 /\ DOMAIN wire = {1})
           /\ wire # <<>> => Head(wire) = wire[1] /\ Tail(wire) = <<>>
           /\ wire \in Seq(Wires)
           /\ modbus_busy \/ wire = <<>>
<1>1. wire \in Seq(Wires)
  BY DEF TypeOK
<1>2. Len(wire) \in {0, 1} /\ (modbus_busy \/ Len(wire) = 0)
  BY DEF OneOutstanding
<1>3. wire = <<>> \/ (Len(wire) = 1 /\ DOMAIN wire = {1})
  BY <1>1, <1>2
<1>4. ASSUME wire # <<>> PROVE Head(wire) = wire[1] /\ Tail(wire) = <<>>
  <2>1. Head(wire) = wire[1] /\ Tail(wire) \in Seq(Wires) /\ Len(Tail(wire)) = Len(wire) - 1
    BY <1>1, <1>4, HeadTail
  <2>2. Len(wire) = 1
    BY <1>3, <1>4
  <2> HIDE DEF Wires
  <2>3. Len(Tail(wire)) = 0
    BY <2>1, <2>2
  <2> QED BY <2>1, <2>3, EmptySeq
<1>5. modbus_busy \/ wire = <<>>
  BY <1>2, <1>3
<1> QED BY <1>1, <1>3, <1>4, <1>5

(* What is on the wire after each step that changes it. *)
LEMMA NewWire ==
    ASSUME TypeOK, OneOutstanding
    PROVE  /\ service_modbus_queue =>
                  /\ wire = <<>> /\ DOMAIN wire' = {1}
                  /\ wire'[1] = [st |-> "request", req |-> modbus_queue[Len(modbus_queue)]]
           /\ Execute =>
                  /\ DOMAIN wire = {1} /\ DOMAIN wire' = {1} /\ wire[1].st = "request"
                  /\ wire'[1] = [st |-> "response", req |-> wire[1].req, data |-> registers]
           /\ Fail =>
                  /\ DOMAIN wire = {1} /\ DOMAIN wire' = {1}
                  /\ wire'[1].st \in {"lost", "error"} /\ wire'[1].req = wire[1].req
                  /\ wire[1].st \in {"request", "response"}
                  /\ \/ registers' = registers
                     \/ wire'[1].st = "lost" /\ registers' = PowerOn
           /\ Respond => wire' = <<>> /\ DOMAIN wire' = {} /\ DOMAIN wire = {1}
<1>1. ASSUME service_modbus_queue
      PROVE  /\ wire = <<>> /\ DOMAIN wire' = {1}
             /\ wire'[1] = [st |-> "request", req |-> modbus_queue[Len(modbus_queue)]]
  <2> DEFINE w == [st |-> "request", req |-> modbus_queue[Len(modbus_queue)]]
  <2>1. wire = <<>> /\ wire' = Append(wire, w)
    BY <1>1, OneWire DEF service_modbus_queue, SendLast
  <2> HIDE DEF w
  <2>2. wire' = <<w>> /\ wire = <<>>
    BY <2>1
  <2> QED BY <2>2 DEF w
<1>2. ASSUME Execute
      PROVE  /\ DOMAIN wire = {1} /\ DOMAIN wire' = {1} /\ wire[1].st = "request"
             /\ wire'[1] = [st |-> "response", req |-> wire[1].req, data |-> registers]
  <2>1. PICK i \in DOMAIN wire :
            /\ wire[i].st = "request"
            /\ wire' = [wire EXCEPT ![i] =
                           [st |-> "response", req |-> wire[i].req, data |-> registers]]
    BY <1>2 DEF Execute
  <2>2. DOMAIN wire = {1} /\ i = 1
    BY <2>1, OneWire
  <2> DEFINE w == [st |-> "response", req |-> wire[1].req, data |-> registers]
  <2>3. wire' = [wire EXCEPT ![1] = w]
    BY <2>1, <2>2
  <2> HIDE DEF w
  <2>4. DOMAIN wire' = {1} /\ wire'[1] = w
    BY <2>2, <2>3
  <2> QED BY <2>1, <2>2, <2>4 DEF w
<1>3. ASSUME Fail
      PROVE  /\ DOMAIN wire = {1} /\ DOMAIN wire' = {1}
             /\ wire'[1].st \in {"lost", "error"} /\ wire'[1].req = wire[1].req
             /\ wire[1].st \in {"request", "response"}
             /\ registers' = registers \/ (wire'[1].st = "lost" /\ registers' = PowerOn)
  <2>1. PICK f \in LinkFaults :
            /\ wire' = <<[st |-> f, req |-> Head(wire).req]>> \o Tail(wire)
            /\ registers' \in IF f = "lost" THEN {registers, PowerOn} ELSE {registers}
    BY <1>3 DEF Fail
  <2>2. DOMAIN wire = {1} /\ Head(wire) = wire[1] /\ Tail(wire) = <<>>
    BY <1>3, OneWire DEF Fail
  <2> DEFINE w == [st |-> f, req |-> wire[1].req]
  <2>3. wire' = <<w>> \o <<>>
    BY <2>1, <2>2
  <2>4. w.st \in {"lost", "error"} /\ w.req = wire[1].req /\ w.st = f
    BY DEF LinkFaults
  <2>6. Head(wire).st \in {"request", "response"}
    BY <1>3 DEF Fail
  <2> HIDE DEF w
  <2>5. wire' = <<w>>
    BY <2>3
  <2>7. wire'[1] = w /\ DOMAIN wire' = {1}
    BY <2>5
  <2> QED BY <2>1, <2>2, <2>4, <2>6, <2>7
<1>4. ASSUME Respond
      PROVE  wire' = <<>> /\ DOMAIN wire' = {} /\ DOMAIN wire = {1}
  <2>1. wire # <<>> /\ wire' = Tail(wire)
    BY <1>4 DEF Respond, ReadResponse, ReadResponseTimed, WriteResponse, ErrorResponse
  <2> QED BY <2>1, OneWire
<1> QED BY <1>1, <1>2, <1>3, <1>4

(* What executing it does. *)
LEMMA ExecuteEffect ==
    ASSUME TypeOK, OneOutstanding, Execute
    PROVE  registers' = IF wire[1].req.fc = "write"
                        THEN [registers EXCEPT ![wire[1].req.address] = wire[1].req.value]
                        ELSE registers
<1>1. PICK i \in DOMAIN wire :
          registers' = IF wire[i].req.fc = "write"
                       THEN [registers EXCEPT ![wire[i].req.address] = wire[i].req.value]
                       ELSE registers
  BY DEF Execute
<1>2. DOMAIN wire = {1}
  BY NewWire
<1> QED BY <1>1, <1>2

(* After an answer was lost nothing happens on the wire any more.            *)
LEMMA LostStays ==
    ASSUME TypeOK, OneOutstanding, Lost, [Next]_vars
    PROVE  UNCHANGED wire /\ \A a \in Writable : registers'[a] = registers[a]
<1>1. wire # <<>> /\ DOMAIN wire = {1} /\ wire[1].st = "lost" /\ Head(wire) = wire[1]
      /\ modbus_busy
  BY OneWire DEF Lost
<1>2. ~service_modbus_queue /\ ~Execute /\ ~Fail /\ ~Respond
  BY <1>1 DEF service_modbus_queue, Execute, Fail, Respond, ReadResponse, ReadResponseTimed,
              WriteResponse, ErrorResponse
<1>3. CASE SupplySwitch
  <2>1. PICK v : registers' = [registers EXCEPT ![SupplyPower] = v]
    BY <1>3 DEF SupplySwitch
  <2>2. \A a \in Writable : registers'[a] = registers[a]
    BY <2>1 DEF TypeOK, Addresses, Writable, SupplyPower, Control, SpeedDemand, Deadband,
              Timeconst, SpeedFilter, SupplyFilter
  <2> QED BY <1>3, <2>2 DEF SupplySwitch
<1>4. CASE read_registers \/ Browser \/ UNCHANGED vars
  BY <1>4 DEF read_registers, Browser, PutValue, PutIndex, PutRuntime, PutMode, PutMalformed,
              vars
<1> QED BY <1>2, <1>3, <1>4 DEF Next, Link

LEMMA RestartedStays == TypeOK /\ OneOutstanding /\ Restarted /\ [Next]_vars => Restarted'
<1> SUFFICES ASSUME TypeOK, OneOutstanding, Restarted, [Next]_vars PROVE Restarted'
  OBVIOUS
<1>1. UNCHANGED wire /\ \A a \in Writable : registers'[a] = registers[a]
  BY LostStays DEF Restarted
<1> QED BY <1>1 DEF Restarted, Lost

-----------------------------------------------------------------------------
(* The other bits of the control register. *)

LEMMA OtherBits ==
    \A w \in Word, b \in 0..1 : Deactivated(Deactivated(w) + 2 * b) = Deactivated(w)
<1>1. ASSUME NEW w \in Int, NEW d \in Int, 0 <= w,
             d = IF (w \div 2) % 2 = 1 THEN w - 2 ELSE w
      PROVE  (d \div 2) % 2 = 0 /\ ((d + 2) \div 2) % 2 = 1
  <2>1. \A x \in Int : 0 <= x /\ (x \div 2) % 2 = 0 => ((x + 2) \div 2) % 2 = 1
    OBVIOUS
  <2>2. \A x \in Int : 0 <= x /\ (x \div 2) % 2 = 1 => 2 <= x /\ ((x - 2) \div 2) % 2 = 0
    OBVIOUS
  <2>3. \A x \in Int : 0 <= x => (x \div 2) % 2 \in {0, 1}
    OBVIOUS
  <2>4. 0 <= d /\ (d \div 2) % 2 = 0
    BY <1>1, <2>2, <2>3
  <2> QED BY <2>1, <2>4
<1> SUFFICES ASSUME NEW w \in Word, NEW b \in 0..1
             PROVE  Deactivated(Deactivated(w) + 2 * b) = Deactivated(w)
  OBVIOUS
<1>2. w \in Int /\ 0 <= w
  BY Words
<1> DEFINE d == Deactivated(w)
<1>3. d \in Int /\ d = IF (w \div 2) % 2 = 1 THEN w - 2 ELSE w
  BY <1>2 DEF Deactivated, IsActive
<1>4. (d \div 2) % 2 = 0 /\ ((d + 2) \div 2) % 2 = 1
  BY <1>1, <1>2, <1>3
<1> HIDE DEF d
<1>5. Deactivated(d) = d /\ Deactivated(d + 2) = d
  BY <1>3, <1>4 DEF Deactivated, IsActive
<1>6. b = 0 \/ b = 1
  OBVIOUS
<1>7. d + 2 * b = IF b = 0 THEN d ELSE d + 2
  BY <1>3, <1>6
<1> QED BY <1>5, <1>6, <1>7 DEF d

(* A value of the control register agrees with the Arduino's but for the one *)
(* bit; and so do all there are: the copy, once the registers were read, the *)
(* answer to a read, and the writes that are queued or outstanding.          *)
Agrees(w) == Deactivated(w) = Deactivated(registers[Control])

IsControl(r) == r.fc = "write" /\ r.address = Control

CopyAgrees    == last_time = "set" => Agrees(holding_registers[Control])
AnswersAgree  == \A i \in DOMAIN wire :
                     wire[i].st = "response" /\ wire[i].req.fc = "read"
                         => Agrees(wire[i].data[Control])
RequestsAgree == \A i \in DOMAIN wire : IsControl(wire[i].req) => Agrees(wire[i].req.value)
QueueAgrees   == \A i \in DOMAIN modbus_queue :
                     IsControl(modbus_queue[i]) => Agrees(modbus_queue[i].value)

ControlInv == CopyAgrees /\ AnswersAgree /\ RequestsAgree /\ QueueAgrees

(* What is in the queue when a request has been put on it. *)
LEMMA QueueTop ==
    ASSUME TypeOK, NEW r, r \in Requests, modbus_queue' = Append(modbus_queue, r)
    PROVE  /\ DOMAIN modbus_queue \subseteq DOMAIN modbus_queue'
           /\ Len(modbus_queue) + 1 \in DOMAIN modbus_queue'
           /\ modbus_queue'[Len(modbus_queue) + 1] = r
           /\ \A i \in DOMAIN modbus_queue : modbus_queue'[i] = modbus_queue[i]
           /\ \A i \in DOMAIN modbus_queue' :
                  i \in DOMAIN modbus_queue \/ i = Len(modbus_queue) + 1
           /\ \A i \in DOMAIN modbus_queue : i \in Int /\ i < Len(modbus_queue) + 1
<1>1. modbus_queue \in Seq(Requests)
  BY DEF TypeOK
<1> HIDE DEF Requests
<1> QED BY <1>1

(* What is put on the queue, if it is a write of the register, agrees.       *)
LEMMA ControlAppend ==
    ASSUME TypeOK, NEW r \in Requests, modbus_queue' = Append(modbus_queue, r),
           QueueAgrees, IsControl(r) => Agrees(r.value),
           registers'[Control] = registers[Control]
    PROVE  QueueAgrees'
<1>1. /\ \A i \in DOMAIN modbus_queue :
             i \in DOMAIN modbus_queue' /\ modbus_queue'[i] = modbus_queue[i]
      /\ \A i \in DOMAIN modbus_queue' :
             i \in DOMAIN modbus_queue \/ i = Len(modbus_queue) + 1
      /\ modbus_queue'[Len(modbus_queue) + 1] = r
  BY QueueTop
<1> QED BY <1>1 DEF QueueAgrees, IsControl, Agrees

LEMMA ControlExecute ==
    ASSUME TypeOK, OneOutstanding, ControlInv, Execute
    PROVE  ControlInv' /\ Agrees(registers'[Control])
<1>1. /\ DOMAIN wire = {1} /\ DOMAIN wire' = {1} /\ wire[1].st = "request"
      /\ wire'[1].req = wire[1].req /\ wire'[1].data = registers
  BY NewWire
<1>2. registers' = IF wire[1].req.fc = "write"
                   THEN [registers EXCEPT ![wire[1].req.address] = wire[1].req.value]
                   ELSE registers
  BY ExecuteEffect
<1>3. UNCHANGED <<modbus_queue, holding_registers, last_time>>
  BY DEF Execute, node
<1>4. registers \in [Addresses -> Word] /\ Control \in Addresses
  BY DEF TypeOK, Addresses, Writable
<1>5. Deactivated(registers'[Control]) = Deactivated(registers[Control])
  <2>1. CASE IsControl(wire[1].req)
    <3>1. registers'[Control] = wire[1].req.value
      BY <1>2, <1>4, <2>1 DEF IsControl
    <3> QED BY <1>1, <2>1, <3>1 DEF ControlInv, RequestsAgree, Agrees
  <2>2. CASE ~IsControl(wire[1].req)
    <3>1. registers'[Control] = registers[Control]
      BY <1>2, <1>4, <2>2 DEF IsControl
    <3> QED BY <3>1
  <2> QED BY <2>1, <2>2
<1>6. \A w : Deactivated(w) = Deactivated(registers[Control])
                 => Deactivated(w) = Deactivated(registers'[Control])
  BY <1>5
<1>7. CopyAgrees'
  BY <1>3, <1>6 DEF ControlInv, CopyAgrees, Agrees
<1>8. AnswersAgree'
  <2> SUFFICES ASSUME NEW i \in DOMAIN wire', wire'[i].st = "response"
               PROVE  Deactivated(wire'[i].data[Control]) = Deactivated(registers'[Control])
    BY DEF AnswersAgree, Agrees
  <2> QED BY <1>1, <1>5
<1>9. RequestsAgree'
  <2> SUFFICES ASSUME NEW i \in DOMAIN wire', IsControl(wire'[i].req)
               PROVE  Deactivated(wire'[i].req.value) = Deactivated(registers'[Control])
    BY DEF RequestsAgree, Agrees, IsControl
  <2>1. Deactivated(wire[1].req.value) = Deactivated(registers[Control])
    BY <1>1 DEF ControlInv, RequestsAgree, Agrees
  <2> QED BY <1>1, <1>6, <2>1
<1>10. QueueAgrees'
  BY <1>3, <1>6 DEF ControlInv, QueueAgrees, Agrees, IsControl
<1> QED BY <1>5, <1>7, <1>8, <1>9, <1>10 DEF ControlInv, Agrees

LEMMA ControlSend ==
    ASSUME TypeOK, OneOutstanding, ControlInv, service_modbus_queue
    PROVE  ControlInv'
<1> DEFINE n == Len(modbus_queue)  r == modbus_queue[n]
<1>1. /\ modbus_queue \in Seq(Requests) /\ modbus_queue # <<>>
      /\ modbus_queue' = SubSeq(modbus_queue, 1, n - 1)
      /\ UNCHANGED <<registers, holding_registers, last_time>>
  BY DEF service_modbus_queue, SendLast, TypeOK, ghost
<1>2. n \in Nat /\ n >= 1 /\ DOMAIN modbus_queue = 1..n
  BY <1>1
<1>3. /\ modbus_queue' \in Seq(Requests) /\ Len(modbus_queue') = n - 1
      /\ \A i \in 1..(n - 1) : modbus_queue'[i] = modbus_queue[i]
  BY <1>1, AllButLast
<1>4. \A i \in DOMAIN modbus_queue' :
          i \in DOMAIN modbus_queue /\ modbus_queue'[i] = modbus_queue[i]
  BY <1>2, <1>3
<1>5. n \in DOMAIN modbus_queue
  BY <1>2
<1>6. DOMAIN wire' = {1} /\ wire'[1] = [st |-> "request", req |-> r]
  BY NewWire
<1>7. wire'[1].st = "request" /\ wire'[1].req = r
  BY <1>6
<1>8. IsControl(r) => Agrees(r.value)
  BY <1>5 DEF ControlInv, QueueAgrees
<1> HIDE DEF n, r
<1>9. CopyAgrees'
  BY <1>1 DEF ControlInv, CopyAgrees, Agrees
<1>10. AnswersAgree'
  BY <1>6, <1>7 DEF AnswersAgree
<1>11. RequestsAgree'
  BY <1>1, <1>6, <1>7, <1>8 DEF RequestsAgree, Agrees, IsControl
<1>12. QueueAgrees'
  BY <1>1, <1>4 DEF ControlInv, QueueAgrees, Agrees, IsControl
<1> QED BY <1>9, <1>10, <1>11, <1>12 DEF ControlInv

LEMMA ControlRead ==
    ASSUME TypeOK, OneOutstanding, ControlInv, ReadResponse
    PROVE  ControlInv'
<1>1. DOMAIN wire' = {} /\ wire # <<>> /\ wire[1] = Head(wire) /\ 1 \in DOMAIN wire
  BY NewWire, OneWire DEF Respond, ReadResponse, ReadResponseTimed
<1>2. /\ wire[1].st = "response" /\ wire[1].req.fc = "read"
      /\ holding_registers' = wire[1].data /\ registers' = registers
  BY <1>1 DEF ReadResponse, ReadResponseTimed
<1>3. CopyAgrees'
  BY <1>1, <1>2 DEF ControlInv, CopyAgrees, AnswersAgree, Agrees
<1>4. AnswersAgree' /\ RequestsAgree'
  BY <1>1 DEF AnswersAgree, RequestsAgree
<1>5. QueueAgrees'
  <2>1. CASE UNCHANGED modbus_queue
    BY <1>2, <2>1 DEF ControlInv, QueueAgrees, Agrees, IsControl
  <2>2. CASE \E s : Accepts("speed_demand", s) /\ SetValue(SpeedDemand, SpeedRegister(s))
    <3>1. PICK s : Accepts("speed_demand", s) /\ SetValue(SpeedDemand, SpeedRegister(s))
      BY <2>2
    <3>2. s \in Int /\ 1 <= s /\ s <= 55
      BY <3>1 DEF Accepts
    <3>3. SpeedRegister(s) \in Word /\ SpeedDemand \in Writable
      BY <3>2, SpeedRegisterType DEF Writable
    <3> DEFINE r == Write(SpeedDemand, SpeedRegister(s))
    <3>4. r \in Requests /\ ~IsControl(r)
      BY <3>3, WriteType DEF Write, IsControl, SpeedDemand, Control
    <3>5. modbus_queue' = Append(modbus_queue, r)
      BY <3>1 DEF SetValue
    <3> HIDE DEF r
    <3> QED BY <1>2, <3>4, <3>5, ControlAppend DEF ControlInv
  <2> QED BY <2>1, <2>2 DEF ReadResponse, ReadResponseTimed, SteerAt
<1> QED BY <1>3, <1>4, <1>5 DEF ControlInv

LEMMA ControlPut ==
    ASSUME TypeOK, ControlInv, PutValue, ~blind'
    PROVE  ControlInv'
<1>1. PICK p \in Puts :
          /\ Accepts(p.name, p.value)
          /\ SetValue(Address(p.name), Converted(p.name, p.value))
          /\ blind' = (blind \/ (Address(p.name) = Control /\ last_time = "null"))
  BY DEF PutValue
<1>2. p.name \in Names /\ p.value \in Nat
  BY ServerAssumption
<1>3. Address(p.name) \in Writable /\ Converted(p.name, p.value) \in Word
  BY <1>1, <1>2, AddressOf, ConvertedType
<1> DEFINE r == Write(Address(p.name), Converted(p.name, p.value))
<1>4. r \in Requests
  BY <1>3, WriteType
<1>5. modbus_queue' = Append(modbus_queue, r)
  BY <1>1 DEF SetValue
<1>6. UNCHANGED <<wire, registers, holding_registers, last_time>>
  BY DEF PutValue
<1>7. IsControl(r) => Agrees(r.value)
  <2> SUFFICES ASSUME IsControl(r) PROVE Agrees(Converted(p.name, p.value))
    BY DEF Write
  <2>1. Address(p.name) = Control
    BY DEF IsControl, Write
  <2>2. p.name = "control_active"
    BY <1>2, <2>1 DEF Address, Names, Control, SpeedDemand, Deadband, Timeconst,
                      SpeedFilter, SupplyFilter
  <2>3. last_time = "set"
    BY <1>1, <2>1 DEF TypeOK
  <2>4. holding_registers[Control] \in Word /\ p.value \in 0..1
    BY <1>1, <2>2 DEF TypeOK, Addresses, Writable, Accepts
  <2>5. Converted(p.name, p.value) = Deactivated(holding_registers[Control]) + 2 * p.value
    BY <2>2 DEF Converted
  <2>6. Deactivated(Converted(p.name, p.value)) = Deactivated(holding_registers[Control])
    BY <2>4, <2>5, OtherBits
  <2> QED BY <2>3, <2>6 DEF ControlInv, CopyAgrees, Agrees
<1> HIDE DEF r
<1>8. QueueAgrees'
  BY <1>4, <1>5, <1>6, <1>7, ControlAppend DEF ControlInv
<1> QED BY <1>6, <1>8 DEF ControlInv, CopyAgrees, AnswersAgree, RequestsAgree, Agrees, IsControl

LEMMA ControlFail ==
    ASSUME TypeOK, OneOutstanding, ControlInv, Fail, ~Lost'
    PROVE  ControlInv' /\ registers' = registers
<1>1. /\ DOMAIN wire = {1} /\ DOMAIN wire' = {1}
      /\ wire'[1].st \in {"lost", "error"} /\ wire'[1].req = wire[1].req
      /\ registers' = registers \/ (wire'[1].st = "lost" /\ registers' = PowerOn)
  BY NewWire
<1>2. registers' = registers
  BY <1>1 DEF Lost
<1>3. UNCHANGED <<modbus_queue, holding_registers, last_time>>
  BY DEF Fail, node
<1> QED BY <1>1, <1>2, <1>3 DEF ControlInv, CopyAgrees, AnswersAgree, RequestsAgree,
                               QueueAgrees, Agrees, IsControl

LEMMA ControlStep ==
    ASSUME TypeOK, TypeOK', OneOutstanding, ~blind /\ ~Lost => ControlInv, [Next]_vars
    PROVE  ~blind' /\ ~Lost' =>
               ControlInv' /\ Deactivated(registers'[Control]) = Deactivated(registers[Control])
<1> SUFFICES ASSUME ~blind', ~Lost'
             PROVE  ControlInv' /\ Deactivated(registers'[Control])
                                       = Deactivated(registers[Control])
  OBVIOUS
<1>1. ~blind
  <2>1. CASE PutValue
    BY <2>1 DEF PutValue
  <2>2. CASE ~PutValue
    <3>1. UNCHANGED blind
      BY <2>2 DEF Next, service_modbus_queue, SendLast, read_registers, Link, Execute, Fail,
                  SupplySwitch, Respond, ReadResponse, ReadResponseTimed, WriteResponse,
                  ErrorResponse, Browser, PutIndex, PutRuntime, PutMode, PutMalformed,
                  vars, ghost
    <3> QED BY <3>1
  <2> QED BY <2>1, <2>2
<1>2. ~Lost
  <2> SUFFICES ASSUME Lost PROVE FALSE
    OBVIOUS
  <2>1. UNCHANGED wire
    BY LostStays
  <2> QED BY <2>1 DEF Lost
<1>3. ControlInv
  BY <1>1, <1>2
<1>4. CASE service_modbus_queue
  BY <1>3, <1>4, ControlSend DEF service_modbus_queue, SendLast
<1>5. CASE Execute
  BY <1>3, <1>5, ControlExecute DEF Agrees
<1>6. CASE Fail
  BY <1>3, <1>6, ControlFail
<1>7. CASE SupplySwitch
  <2>1. PICK v : registers' = [registers EXCEPT ![SupplyPower] = v]
    BY <1>7 DEF SupplySwitch
  <2>2. registers'[Control] = registers[Control]
    BY <2>1 DEF TypeOK, SupplyPower, Control
  <2>3. UNCHANGED <<wire, modbus_queue, holding_registers, last_time>>
    BY <1>7 DEF SupplySwitch, node
  <2> QED BY <1>3, <2>2, <2>3 DEF ControlInv, CopyAgrees, AnswersAgree, RequestsAgree,
                               QueueAgrees, Agrees, IsControl
<1>8. CASE ReadResponse
  BY <1>3, <1>8, ControlRead DEF ReadResponse, ReadResponseTimed
<1>9. CASE WriteResponse \/ ErrorResponse
  <2>1. DOMAIN wire' = {}
    BY <1>9, NewWire DEF Respond
  <2>2. UNCHANGED <<registers, modbus_queue, holding_registers, last_time>>
    BY <1>9 DEF WriteResponse, ErrorResponse
  <2> QED BY <1>3, <2>1, <2>2 DEF ControlInv, CopyAgrees, AnswersAgree, RequestsAgree,
                               QueueAgrees, Agrees, IsControl
<1>10. CASE PutValue
  BY <1>3, <1>10, ControlPut DEF PutValue
<1>11. CASE read_registers
  <2>1. modbus_queue' = Append(modbus_queue, Read) /\ Read \in Requests /\ ~IsControl(Read)
    BY <1>11, ReadType DEF read_registers, IsControl, Read
  <2>2. UNCHANGED <<wire, registers, holding_registers, last_time>>
    BY <1>11 DEF read_registers
  <2> HIDE DEF Read
  <2>3. QueueAgrees'
    BY <1>3, <2>1, <2>2, ControlAppend DEF ControlInv
  <2> QED BY <1>3, <2>2, <2>3 DEF ControlInv, CopyAgrees, AnswersAgree, RequestsAgree,
                               Agrees, IsControl
<1>12. CASE PutIndex \/ PutRuntime \/ PutMode \/ PutMalformed \/ UNCHANGED vars
  <2>1. UNCHANGED <<wire, registers, modbus_queue, holding_registers, last_time>>
    BY <1>12 DEF PutIndex, PutRuntime, PutMode, PutMalformed, vars, node
  <2> QED BY <1>3, <2>1 DEF ControlInv, CopyAgrees, AnswersAgree, RequestsAgree,
                               QueueAgrees, Agrees, IsControl
<1> QED BY <1>4, <1>5, <1>6, <1>7, <1>8, <1>9, <1>10, <1>11, <1>12
        DEF Next, Link, Respond, Browser

(* Whatever is queued, and however old the copy of the register is that they *)
(* are made from, the server's writes to the control register change none of *)
(* its bits but the one.                                                     *)
THEOREM OtherBitsStay == Spec => OneBitWritten
<1>1. Init => (~blind /\ ~Lost => ControlInv)
  <2> SUFFICES ASSUME Init PROVE ControlInv
    OBVIOUS
  <2>1. /\ wire = <<>> /\ last_time = "null" /\ DOMAIN modbus_queue = 1..4
        /\ modbus_queue = Initial
    BY DEF Init, Initial
  <2>2. \A i \in DOMAIN modbus_queue : ~IsControl(modbus_queue[i])
    BY <2>1 DEF Initial, Write, IsControl, Control, Deadband, Timeconst, SpeedFilter,
                SupplyFilter
  <2> QED BY <2>1, <2>2 DEF ControlInv, CopyAgrees, AnswersAgree, RequestsAgree, QueueAgrees
<1>2. /\ TypeOK /\ TypeOK' /\ OneOutstanding /\ (~blind /\ ~Lost => ControlInv) /\ [Next]_vars
      => (~blind /\ ~Lost => ControlInv)'
  BY ControlStep
<1>3. /\ TypeOK /\ TypeOK' /\ OneOutstanding /\ (~blind /\ ~Lost => ControlInv) /\ [Next]_vars
      => [~blind' /\ ~Lost' =>
              Deactivated(registers'[Control]) = Deactivated(registers[Control])]_vars
  BY ControlStep
<1> QED BY <1>1, <1>2, <1>3, Typing, OneAtATime, PTL DEF Spec, OneBitWritten

-----------------------------------------------------------------------------
(* Bursts of writes. *)

IsWrite(r, a) == r.fc = "write" /\ r.address = a

(* The write of a register nearest the bottom of the stack, or the one that  *)
(* is outstanding when none is left there, has the value that wins.          *)
IsBottom(i, a) ==
    /\ IsWrite(modbus_queue[i], a)
    /\ \A j \in DOMAIN modbus_queue : j < i => ~IsWrite(modbus_queue[j], a)

BottomWins ==
    \A a \in Writable : \A i \in DOMAIN modbus_queue :
        IsBottom(i, a) => modbus_queue[i].value = winner[a]

OutstandingWins ==
    \A a \in Writable : \A i \in DOMAIN wire :
        IsWrite(wire[i].req, a) => IsQueued(a) \/ wire[i].req.value = winner[a]

SettledWins == \A a \in Writable : Settled(a) => registers[a] = winner[a]

BurstInv == up => BottomWins /\ OutstandingWins /\ SettledWins

LEMMA QueuedIs == \A a : IsQueued(a) <=> \E i \in DOMAIN modbus_queue : IsWrite(modbus_queue[i], a)
BY DEF IsQueued, IsWrite

(* A write put on the queue keeps the invariant. *)
LEMMA SetValueBurst ==
    ASSUME TypeOK, BurstInv, up, NEW a \in Writable, NEW v \in Word, SetValue(a, v),
           registers' = registers,
           \A i \in DOMAIN wire' : i \in DOMAIN wire /\ wire'[i] = wire[i],
           \A b \in Writable : InFlight(b)' <=> InFlight(b)
    PROVE  BurstInv'
<1> DEFINE r == Write(a, v)  top == Len(modbus_queue) + 1
<1>1. r \in Requests /\ r.value = v /\ \A b : IsWrite(r, b) <=> b = a
  BY WriteType DEF Write, IsWrite
<1>2. modbus_queue' = Append(modbus_queue, r)
  BY DEF SetValue
<1> HIDE DEF r
<1>3. /\ DOMAIN modbus_queue \subseteq DOMAIN modbus_queue'
      /\ top \in DOMAIN modbus_queue' /\ modbus_queue'[top] = r
      /\ \A i \in DOMAIN modbus_queue : modbus_queue'[i] = modbus_queue[i]
      /\ \A i \in DOMAIN modbus_queue' : i \in DOMAIN modbus_queue \/ i = top
      /\ \A i \in DOMAIN modbus_queue : i \in Int /\ i < top
  BY <1>1, <1>2, QueueTop
<1> HIDE DEF top
<1>4. \A b \in Writable : b # a => winner'[b] = winner[b]
  BY DEF SetValue, TypeOK
<1>5. IsQueued(a) => winner' = winner
  BY DEF SetValue
<1>6. ~IsQueued(a) => winner'[a] = v
  BY DEF SetValue, TypeOK
<1>7. \A b : IsQueued(b)' <=> \E i \in DOMAIN modbus_queue' : IsWrite(modbus_queue'[i], b)
  BY DEF IsQueued, IsWrite
<1>8. IsQueued(a)' /\ \A b : IsQueued(b) => IsQueued(b)'
  BY <1>1, <1>3, <1>7, QueuedIs
<1>9. \A b : b # a => (IsQueued(b)' <=> IsQueued(b))
  BY <1>1, <1>3, <1>7, QueuedIs
<1>10. BottomWins'
  <2> SUFFICES ASSUME NEW b \in Writable, NEW i \in DOMAIN modbus_queue', IsBottom(i, b)'
               PROVE  modbus_queue'[i].value = winner'[b]
    BY DEF BottomWins
  <2>0. IsWrite(modbus_queue'[i], b)
        /\ \A j \in DOMAIN modbus_queue' : j < i => ~IsWrite(modbus_queue'[j], b)
    BY DEF IsBottom, IsWrite
  <2>1. CASE i \in DOMAIN modbus_queue
    <3>1. IsBottom(i, b)
      BY <1>3, <2>0, <2>1 DEF IsBottom
    <3>2. modbus_queue[i].value = winner[b] /\ IsQueued(b)
      BY <2>1, <3>1, QueuedIs DEF BurstInv, BottomWins, IsBottom
    <3> QED BY <1>3, <1>4, <1>5, <2>1, <3>2
  <2>2. CASE i = top
    <3>1. b = a
      BY <1>1, <1>3, <2>0, <2>2
    <3>2. ~IsQueued(a)
      BY <1>3, <2>0, <2>2, <3>1, QueuedIs
    <3> QED BY <1>1, <1>3, <1>6, <2>2, <3>1, <3>2
  <2> QED BY <1>3, <2>1, <2>2
<1>11. OutstandingWins'
  <2> SUFFICES ASSUME NEW b \in Writable, NEW i \in DOMAIN wire',
                      IsWrite(wire'[i].req, b), ~IsQueued(b)'
               PROVE  wire'[i].req.value = winner'[b]
    BY DEF OutstandingWins, IsWrite
  <2>1. b # a /\ ~IsQueued(b)
    BY <1>8
  <2>2. wire[i].req.value = winner[b]
    BY <2>1 DEF BurstInv, OutstandingWins
  <2> QED BY <1>4, <2>1, <2>2
<1>12. SettledWins'
  <2> SUFFICES ASSUME NEW b \in Writable, Settled(b)'
               PROVE  registers'[b] = winner'[b]
    BY DEF SettledWins
  <2>1. b # a /\ ~IsQueued(b) /\ ~InFlight(b)
    BY <1>8 DEF Settled
  <2>2. registers[b] = winner[b]
    BY <2>1 DEF BurstInv, SettledWins, Settled
  <2> QED BY <1>4, <2>1, <2>2
<1> QED BY <1>10, <1>11, <1>12 DEF BurstInv

(* Steps that leave the queue, the registers and the winners alone. *)
LEMMA BurstKept ==
    ASSUME BurstInv, up' => up, UNCHANGED <<modbus_queue, winner, registers>>,
           \A i \in DOMAIN wire' : i \in DOMAIN wire /\ wire'[i].req = wire[i].req,
           \A b \in Writable : InFlight(b) => InFlight(b)'
    PROVE  BurstInv'
<1>1. \A b : IsQueued(b)' <=> IsQueued(b)
  BY DEF IsQueued
<1> QED BY <1>1 DEF BurstInv, BottomWins, IsBottom, IsWrite, OutstandingWins,
                    SettledWins, Settled

LEMMA BurstSend ==
    ASSUME TypeOK, OneOutstanding, BurstInv, service_modbus_queue
    PROVE  BurstInv'
<1> DEFINE q == modbus_queue  n == Len(q)  r == q[n]
<1>1. q \in Seq(Requests) /\ q # <<>> /\ q' = SubSeq(q, 1, n - 1) /\ up
      /\ UNCHANGED <<winner, registers>>
  BY DEF service_modbus_queue, SendLast, TypeOK, ghost
<1>2. n \in Nat /\ n >= 1 /\ DOMAIN q = 1..n
  BY <1>1
<1>3. q' \in Seq(Requests) /\ Len(q') = n - 1 /\ \A i \in 1..(n - 1) : q'[i] = q[i]
  BY <1>1, AllButLast
<1>4. DOMAIN q' = 1..(n - 1)
  BY <1>3
<1>5. \A i \in DOMAIN q' : i \in DOMAIN q /\ i < n /\ q'[i] = q[i]
  BY <1>2, <1>3, <1>4
<1>6. \A i \in DOMAIN q : i \in DOMAIN q' \/ i = n
  BY <1>2, <1>4
<1>7. \A i, j \in DOMAIN q : i \in DOMAIN q' /\ j < i => j \in DOMAIN q'
  BY <1>2, <1>4
<1>8. n \in DOMAIN q
  BY <1>2
<1>9. /\ wire = <<>> /\ DOMAIN wire = {} /\ DOMAIN wire' = {1}
      /\ wire'[1] = [st |-> "request", req |-> r]
  BY NewWire
<1>10. wire'[1].req = r /\ wire'[1].st = "request"
  BY <1>9
<1> HIDE DEF n, r
<1>11. \A b : IsQueued(b)' <=> \E i \in DOMAIN q' : IsWrite(q'[i], b)
  BY DEF IsQueued, IsWrite
<1>12. r = q[n]
  BY DEF r
<1> HIDE DEF q
<1>13. \A b : ~IsQueued(b)' => \A i \in DOMAIN q : i # n => ~IsWrite(q[i], b)
  BY <1>5, <1>6, <1>11
<1>14. BottomWins'
  <2> SUFFICES ASSUME NEW b \in Writable, NEW i \in DOMAIN q', IsBottom(i, b)'
               PROVE  q'[i].value = winner'[b]
    BY DEF BottomWins, q
  <2>1. IsWrite(q'[i], b) /\ \A j \in DOMAIN q' : j < i => ~IsWrite(q'[j], b)
    BY DEF IsBottom, IsWrite, q
  <2>2. IsBottom(i, b)
    <3>1. IsWrite(q[i], b) /\ \A j \in DOMAIN q : j < i => ~IsWrite(q[j], b)
      BY <1>5, <1>7, <2>1
    <3> QED BY <3>1 DEF IsBottom, q
  <2>3. q[i].value = winner[b]
    BY <1>1, <1>5, <2>2 DEF BurstInv, BottomWins, q
  <2> QED BY <1>1, <1>5, <2>3
<1>15. OutstandingWins'
  <2> SUFFICES ASSUME NEW b \in Writable, NEW i \in DOMAIN wire',
                      IsWrite(wire'[i].req, b), ~IsQueued(b)'
               PROVE  wire'[i].req.value = winner'[b]
    BY DEF OutstandingWins, IsWrite
  <2>1. i = 1 /\ IsWrite(r, b)
    BY <1>9, <1>10
  <2>2. \A j \in DOMAIN q : j < n => ~IsWrite(q[j], b)
    <3>1. \A j \in DOMAIN q : j < n => j # n
      BY <1>2 DEF q
    <3> QED BY <3>1, <1>13
  <2>3. IsBottom(n, b)
    BY <2>1, <2>2, <1>12 DEF IsBottom, q
  <2>4. q[n].value = winner[b]
    BY <1>1, <1>8, <2>3 DEF BurstInv, BottomWins, q
  <2> QED BY <1>1, <1>10, <1>12, <2>1, <2>4
<1>16. SettledWins'
  <2> SUFFICES ASSUME NEW b \in Writable, Settled(b)'
               PROVE  registers'[b] = winner'[b]
    BY DEF SettledWins
  <2>1. ~IsWrite(r, b)
    BY <1>9, <1>10 DEF Settled, InFlight, IsWrite
  <2>2. \A i \in DOMAIN q : ~IsWrite(q[i], b)
    BY <1>12, <1>13, <2>1 DEF Settled
  <2>3. ~IsQueued(b)
    BY <2>2, QueuedIs DEF q
  <2>4. ~InFlight(b)
    BY <1>9 DEF InFlight
  <2> QED BY <1>1, <2>3, <2>4 DEF BurstInv, SettledWins, Settled
<1> QED BY <1>14, <1>15, <1>16 DEF BurstInv

LEMMA BurstExecute ==
    ASSUME TypeOK, OneOutstanding, BurstInv, Execute
    PROVE  BurstInv'
<1> SUFFICES ASSUME up PROVE BurstInv'
  BY DEF BurstInv, Execute, node
<1>1. /\ DOMAIN wire = {1} /\ DOMAIN wire' = {1} /\ wire[1].st = "request"
      /\ wire'[1].req = wire[1].req /\ wire'[1].st = "response"
  BY NewWire
<1>2. UNCHANGED <<modbus_queue, winner>>
  BY DEF Execute, node, ghost
<1>3. registers' = IF wire[1].req.fc = "write"
                   THEN [registers EXCEPT ![wire[1].req.address] = wire[1].req.value]
                   ELSE registers
  BY <1>1, ExecuteEffect
<1>4. \A b : IsQueued(b)' <=> IsQueued(b)
  BY <1>2 DEF IsQueued
<1>5. BottomWins'
  BY <1>2 DEF BurstInv, BottomWins, IsBottom, IsWrite
<1>6. OutstandingWins'
  BY <1>1, <1>2, <1>4 DEF BurstInv, OutstandingWins, IsWrite
<1>7. SettledWins'
  <2> SUFFICES ASSUME NEW b \in Writable, Settled(b)'
               PROVE  registers'[b] = winner'[b]
    BY DEF SettledWins
  <2>1. ~IsQueued(b) /\ registers \in [Addresses -> Word] /\ b \in Addresses
    BY <1>4 DEF Settled, TypeOK, Addresses
  <2>2. CASE IsWrite(wire[1].req, b)
    <3>1. wire[1].req.value = winner[b]
      BY <1>1, <2>1, <2>2 DEF BurstInv, OutstandingWins
    <3> QED BY <1>2, <1>3, <2>1, <2>2, <3>1 DEF IsWrite
  <2>3. CASE ~IsWrite(wire[1].req, b)
    <3>1. registers'[b] = registers[b]
      BY <1>3, <2>1, <2>3 DEF IsWrite
    <3>2. ~InFlight(b)
      BY <1>1, <2>3 DEF InFlight, IsWrite
    <3> QED BY <1>2, <2>1, <3>1, <3>2 DEF BurstInv, SettledWins, Settled
  <2> QED BY <2>2, <2>3
<1> QED BY <1>5, <1>6, <1>7 DEF BurstInv

LEMMA BurstStep ==
    TypeOK /\ OneOutstanding /\ BurstInv /\ [Next]_vars => BurstInv' \/ Restarted'
<1> SUFFICES ASSUME TypeOK, OneOutstanding, BurstInv, [Next]_vars
             PROVE  BurstInv' \/ Restarted'
  OBVIOUS
<1>1. CASE read_registers
  <2> DEFINE top == Len(modbus_queue) + 1
  <2>1. modbus_queue' = Append(modbus_queue, Read)
    BY <1>1 DEF read_registers
  <2>2. /\ \A i \in DOMAIN modbus_queue :
               i \in DOMAIN modbus_queue' /\ modbus_queue'[i] = modbus_queue[i]
        /\ \A i \in DOMAIN modbus_queue' : i \in DOMAIN modbus_queue \/ i = top
        /\ modbus_queue'[top] = Read
    BY <2>1, ReadType, QueueTop
  <2> HIDE DEF top
  <2>3. \A b : ~IsWrite(Read, b)
    BY DEF IsWrite, Read
  <2>4. UNCHANGED <<up, wire, registers, winner>>
    BY <1>1 DEF read_registers, ghost
  <2>5. \A b : IsQueued(b)' <=> \E i \in DOMAIN modbus_queue' : IsWrite(modbus_queue'[i], b)
    BY DEF IsQueued, IsWrite
  <2>6. \A b : IsQueued(b)' <=> IsQueued(b)
    BY <2>2, <2>3, <2>5, QueuedIs
  <2>7. BottomWins => BottomWins'
    <3> SUFFICES ASSUME BottomWins, NEW b \in Writable, NEW i \in DOMAIN modbus_queue',
                        IsBottom(i, b)'
                 PROVE  modbus_queue'[i].value = winner'[b]
      BY DEF BottomWins
    <3>1. IsWrite(modbus_queue'[i], b)
          /\ \A j \in DOMAIN modbus_queue' : j < i => ~IsWrite(modbus_queue'[j], b)
      BY DEF IsBottom, IsWrite
    <3>2. i \in DOMAIN modbus_queue /\ IsBottom(i, b)
      BY <2>2, <2>3, <3>1 DEF IsBottom
    <3> QED BY <2>2, <2>4, <3>2 DEF BottomWins
  <2>8. OutstandingWins => OutstandingWins'
    BY <2>4, <2>6 DEF OutstandingWins, IsWrite
  <2>9. SettledWins => SettledWins'
    BY <2>4, <2>6 DEF SettledWins, Settled, InFlight
  <2> QED BY <2>4, <2>7, <2>8, <2>9 DEF BurstInv
<1>2. CASE Fail
  <2>1. /\ DOMAIN wire = {1} /\ DOMAIN wire' = {1}
        /\ wire'[1].st # "response" /\ wire'[1].req = wire[1].req
    BY <1>2, NewWire
  <2>2. \A b : InFlight(b) => InFlight(b)'
    BY <2>1 DEF InFlight
  <2>3. UNCHANGED <<up, modbus_queue, winner>>
    BY <1>2 DEF Fail, node, ghost
  <2>4. registers' = registers \/ (wire'[1].st = "lost" /\ registers' = PowerOn)
    BY <1>2, NewWire
  <2>5. CASE registers' = registers
    BY <2>1, <2>2, <2>3, <2>5, BurstKept
  <2>6. CASE wire'[1].st = "lost" /\ registers' = PowerOn
    BY <2>1, <2>6 DEF Restarted, Lost
  <2> QED BY <2>4, <2>5, <2>6
<1>3. CASE SupplySwitch
  <2>1. PICK v : registers' = [registers EXCEPT ![SupplyPower] = v]
    BY <1>3 DEF SupplySwitch
  <2>2. \A a \in Writable : registers'[a] = registers[a]
    BY <2>1 DEF TypeOK, Addresses, Writable, SupplyPower, Control, SpeedDemand, Deadband,
              Timeconst, SpeedFilter, SupplyFilter
  <2>3. UNCHANGED <<up, modbus_queue, wire, winner>>
    BY <1>3 DEF SupplySwitch, node, ghost
  <2> QED BY <2>2, <2>3 DEF BurstInv, BottomWins, IsBottom, IsWrite, OutstandingWins,
                    SettledWins, Settled, IsQueued, InFlight
<1>4. CASE ReadResponse \/ WriteResponse
  <2>1. /\ DOMAIN wire' = {} /\ DOMAIN wire = {1} /\ wire[1].st = "response"
    <3>1. wire # <<>> /\ Head(wire).st = "response"
      BY <1>4 DEF ReadResponse, ReadResponseTimed, WriteResponse
    <3> QED BY <1>4, <3>1, NewWire, OneWire DEF Respond
  <2>2. \A b : ~InFlight(b) /\ ~InFlight(b)'
    BY <2>1 DEF InFlight
  <2>3. UNCHANGED <<up, registers>>
    BY <1>4 DEF ReadResponse, ReadResponseTimed, WriteResponse
  <2>4. CASE UNCHANGED <<modbus_queue, winner>>
    BY <2>1, <2>2, <2>3, <2>4, BurstKept
  <2>5. CASE \E s : Accepts("speed_demand", s) /\ SetValue(SpeedDemand, SpeedRegister(s))
    <3>1. PICK s : Accepts("speed_demand", s) /\ SetValue(SpeedDemand, SpeedRegister(s))
      BY <2>5
    <3>2. SpeedRegister(s) \in Word /\ SpeedDemand \in Writable
      <4>1. s \in Int /\ 1 <= s /\ s <= 55
        BY <3>1 DEF Accepts
      <4> QED BY <4>1, SpeedRegisterType DEF Writable
    <3>3. up
      BY <1>4 DEF ReadResponse, ReadResponseTimed, WriteResponse
    <3> QED BY <2>1, <2>2, <2>3, <3>1, <3>2, <3>3, SetValueBurst
  <2> QED BY <1>4, <2>4, <2>5 DEF ReadResponse, ReadResponseTimed, SteerAt, WriteResponse, ghost
<1>5. CASE ErrorResponse
  BY <1>5 DEF ErrorResponse, BurstInv
<1>6. CASE PutValue
  <2>1. PICK p \in Puts :
            Accepts(p.name, p.value)
            /\ SetValue(Address(p.name), Converted(p.name, p.value))
    BY <1>6 DEF PutValue
  <2>2. Address(p.name) \in Writable /\ Converted(p.name, p.value) \in Word
    BY <2>1, AddressOf, ConvertedType, ServerAssumption
  <2>3. up /\ UNCHANGED <<wire, registers>>
    BY <1>6 DEF PutValue, Put
  <2>4. \A b : InFlight(b)' <=> InFlight(b)
    BY <2>3 DEF InFlight
  <2> QED BY <2>1, <2>2, <2>3, <2>4, SetValueBurst
<1>7. CASE PutIndex \/ PutRuntime \/ PutMode \/ UNCHANGED vars
  <2>1. UNCHANGED <<up, modbus_queue, wire, winner, registers>>
    BY <1>7 DEF PutIndex, PutRuntime, PutMode, vars, node, ghost
  <2>2. \A b : InFlight(b)' <=> InFlight(b)
    BY <2>1 DEF InFlight
  <2> QED BY <2>1, <2>2, BurstKept
<1>8. CASE PutMalformed
  BY <1>8 DEF PutMalformed, BurstInv
<1> QED BY <1>1, <1>2, <1>3, <1>4, <1>5, <1>6, <1>7, <1>8, BurstSend, BurstExecute
        DEF Next, Link, Respond, Browser

LEMMA BurstInit == Init => BurstInv
<1> SUFFICES ASSUME Init PROVE BurstInv
  OBVIOUS
<1>1. /\ modbus_queue = Initial /\ DOMAIN modbus_queue = 1..4
      /\ wire = <<>> /\ winner = InitAsked(registers)
  BY DEF Init, Initial
<1>2. /\ modbus_queue[1] = Write(SpeedFilter, FilterRegister[25])
      /\ modbus_queue[2] = Write(SupplyFilter, FilterRegister[25])
      /\ modbus_queue[3] = Write(Deadband, Volts(3))
      /\ modbus_queue[4] = Write(Timeconst, 10000)
  BY <1>1 DEF Initial
<1>3. /\ winner[SpeedFilter] = FilterRegister[25] /\ winner[SupplyFilter] = FilterRegister[25]
      /\ winner[Deadband] = Volts(3) /\ winner[Timeconst] = 10000
      /\ winner[Control] = registers[Control] /\ winner[SpeedDemand] = registers[SpeedDemand]
  BY <1>1 DEF InitAsked, Writable, Control, SpeedDemand, Deadband, Timeconst,
              SpeedFilter, SupplyFilter
<1>5. \A a, v : /\ Write(a, v).fc = "write" /\ Write(a, v).address = a
                /\ Write(a, v).value = v
  BY DEF Write
<1> HIDE DEF Write
<1>6. BottomWins
  <2> SUFFICES ASSUME NEW a \in Writable, NEW i \in DOMAIN modbus_queue, IsBottom(i, a)
               PROVE  modbus_queue[i].value = winner[a]
    BY DEF BottomWins
  <2>1. modbus_queue[i].address = a
    BY DEF IsBottom, IsWrite
  <2>2. i = 1 \/ i = 2 \/ i = 3 \/ i = 4
    BY <1>1
  <2> QED BY <1>2, <1>3, <1>5, <2>1, <2>2
<1>7. OutstandingWins
  BY <1>1 DEF OutstandingWins
<1>8. SettledWins
  <2>1. 1 \in DOMAIN modbus_queue /\ 2 \in DOMAIN modbus_queue
        /\ 3 \in DOMAIN modbus_queue /\ 4 \in DOMAIN modbus_queue
    BY <1>1
  <2>2. IsQueued(SpeedFilter) /\ IsQueued(SupplyFilter) /\ IsQueued(Deadband)
        /\ IsQueued(Timeconst)
    BY <1>2, <1>5, <2>1 DEF IsQueued
  <2> QED BY <1>3, <2>2 DEF SettledWins, Settled, Writable
<1> QED BY <1>6, <1>7, <1>8 DEF BurstInv

LEMMA BurstAlways == Spec => [](BurstInv \/ Restarted)
<1>1. TypeOK /\ OneOutstanding /\ Restarted /\ [Next]_vars => Restarted'
  BY RestartedStays
<1> QED BY <1>1, BurstInit, BurstStep, Typing, OneAtATime, PTL DEF Spec

(* What a register ends up with is the first write of the last burst to it,  *)
(* not the last: the queue is a stack.                                       *)
THEOREM FirstWins == Spec => []FirstOfBurstWins
<1>1. BurstInv \/ Restarted => FirstOfBurstWins
  BY DEF BurstInv, SettledWins, FirstOfBurstWins
<1> QED BY <1>1, BurstAlways, PTL

-----------------------------------------------------------------------------
(* Induction over the natural numbers, for a set: the least number that is   *)
(* not in it would have a predecessor that is.                               *)
LEMMA SetInduction ==
    ASSUME NEW S, 0 \in S, \A n \in Nat : n \in S => n + 1 \in S
    PROVE  Nat \subseteq S
<1> DEFINE T == Nat \ S
<1> SUFFICES ASSUME T # {} PROVE FALSE
  OBVIOUS
<1>1. PICK x \in T : \A y \in T : ~ (<<y, x>> \in OpToRel(<, Nat))
  BY NatLessThanWellFounded, WFMin, Zenon
<1>2. \A y \in T : ~ (y < x)
  BY <1>1, Zenon DEF OpToRel
<1>3. x \in Nat /\ x # 0
  OBVIOUS
<1>4. x - 1 \in S
  BY <1>2, <1>3
<1> QED BY <1>3, <1>4

(* What cum is, up to section n of workout w. *)
IsCum(cum, w, n) ==
    cum = [i \in 0..n |-> IF i = 0 THEN 0 ELSE cum[i - 1] + w[i].duration]

LEMMA SectionTypes ==
    ASSUME NEW w \in Seq(Sections)
    PROVE  \A i \in 1..Len(w) : w[i].speed \in Nat /\ w[i].duration \in Nat
<1>1. \A i \in 1..Len(w) : w[i] \in Sections
  <2> HIDE DEF Sections
  <2> QED OBVIOUS
<1>2. \A s \in Sections : s.speed \in Nat /\ s.duration \in Nat
  BY DEF Sections
<1> HIDE DEF Sections
<1> QED BY <1>1, <1>2

(* The recursive definition of CumTimes does define a function: it is built  *)
(* section by section.                                                       *)
LEMMA CumExists ==
    ASSUME NEW w \in Seq(Sections)
    PROVE  \E cum \in [0..Len(w) -> Nat] : IsCum(cum, w, Len(w))
<1> DEFINE L == Len(w)
           S == {n \in Nat : n <= L => \E cum \in [0..n -> Nat] : IsCum(cum, w, n)}
<1>0. L \in Nat /\ \A i \in 1..L : w[i].duration \in Nat
  BY SectionTypes
<1> HIDE DEF L
<1>1. 0 \in S
  <2> DEFINE one == [i \in 0..0 |-> 0]
  <2>1. one \in [0..0 -> Nat]
    OBVIOUS
  <2>2. IsCum(one, w, 0)
    BY DEF IsCum
  <2> HIDE DEF one
  <2> QED BY <2>1, <2>2
<1>2. \A n \in Nat : n \in S => n + 1 \in S
  <2> SUFFICES ASSUME NEW n \in Nat, n \in S, n + 1 <= L
               PROVE  \E cum \in [0..(n + 1) -> Nat] : IsCum(cum, w, n + 1)
    OBVIOUS
  <2>1. PICK cum \in [0..n -> Nat] : IsCum(cum, w, n)
    BY <1>0
  <2>2. \A i \in 0..n : cum[i] = IF i = 0 THEN 0 ELSE cum[i - 1] + w[i].duration
    <3> DEFINE body(i) == IF i = 0 THEN 0 ELSE cum[i - 1] + w[i].duration
    <3>1. cum = [i \in 0..n |-> body(i)]
      BY <2>1 DEF IsCum
    <3> HIDE DEF body
    <3>2. \A i \in 0..n : cum[i] = body(i)
      BY <3>1
    <3> QED BY <3>2 DEF body
  <2> DEFINE last == cum[n] + w[n + 1].duration
             more == [i \in 0..(n + 1) |-> IF i = n + 1 THEN last ELSE cum[i]]
  <2>3. last \in Nat
    BY <1>0
  <2>4. more \in [0..(n + 1) -> Nat]
    <3> HIDE DEF last
    <3> QED BY <2>3
  <2>5. \A i \in 0..(n + 1) :
            more[i] = IF i = 0 THEN 0 ELSE more[i - 1] + w[i].duration
    <3> SUFFICES ASSUME NEW i \in 0..(n + 1)
                 PROVE  more[i] = IF i = 0 THEN 0 ELSE more[i - 1] + w[i].duration
      OBVIOUS
    <3>1. CASE i = n + 1
      BY <3>1
    <3>2. CASE i # n + 1
      BY <2>2, <3>2
    <3> QED BY <3>1, <3>2
  <2> HIDE DEF more
  <2>6. IsCum(more, w, n + 1)
    BY <2>4, <2>5 DEF IsCum
  <2> QED BY <2>4, <2>6
<1>3. Nat \subseteq S
  <2> HIDE DEF S
  <2> QED BY <1>1, <1>2, SetInduction
<1>4. L \in S
  BY <1>0, <1>3
<1> QED BY <1>0, <1>4 DEF L

(* The time before a section is that before the section before it and the    *)
(* duration of that one: it grows from section to section.                   *)
LEMMA CumFacts ==
    ASSUME NEW w \in Seq(Sections)
    PROVE  /\ \A i \in 0..Len(w) : CumTimes(w)[i] \in Nat
           /\ \A i \in 1..Len(w) : CumTimes(w)[i] = CumTimes(w)[i - 1] + w[i].duration
<1> DEFINE cum == CumTimes(w)
           body(i) == IF i = 0 THEN 0 ELSE cum[i - 1] + w[i].duration
<1>1. Len(w) \in Nat
  OBVIOUS
<1>2. PICK f \in [0..Len(w) -> Nat] : IsCum(f, w, Len(w))
  BY CumExists
<1>3. IsCum(cum, w, Len(w))
  <2>1. cum = CHOOSE g : IsCum(g, w, Len(w))
    BY DEF CumTimes, IsCum
  <2> QED BY <1>2, <2>1
<1>4. \A i \in 0..Len(w) : cum[i] = body(i)
  <2>1. cum = [i \in 0..Len(w) |-> body(i)]
    BY <1>3 DEF IsCum
  <2> HIDE DEF body, cum
  <2> QED BY <2>1
<1>5. \A i \in 1..Len(w) : cum[i] = cum[i - 1] + w[i].duration
  <2>1. \A i \in 1..Len(w) : i \in 0..Len(w) /\ i # 0
    BY <1>1
  <2> HIDE DEF cum
  <2> QED BY <1>4, <2>1
<1>6. \A i \in 1..Len(w) : w[i].duration \in Nat
  BY SectionTypes
<1>7. \A i \in 0..Len(w) : cum[i] \in Nat
  <2> DEFINE S == {i \in Nat : i <= Len(w) => cum[i] \in Nat}
  <2> HIDE DEF cum
  <2>1. 0 \in S
    BY <1>1, <1>4
  <2>2. \A i \in Nat : i \in S => i + 1 \in S
    <3> SUFFICES ASSUME NEW i \in Nat, i \in S, i + 1 <= Len(w)
                 PROVE  cum[i + 1] \in Nat
      OBVIOUS
    <3>1. cum[i] \in Nat /\ i + 1 \in 1..Len(w) /\ (i + 1) - 1 = i
      BY <1>1
    <3> QED BY <1>5, <1>6, <3>1
  <2>3. Nat \subseteq S
    <3> HIDE DEF S
    <3> QED BY <2>1, <2>2, SetInduction
  <2> QED BY <1>1, <2>3
<1> QED BY <1>5, <1>7

LEMMA CumGrows ==
    ASSUME NEW w \in Seq(Sections), NEW i \in 0..Len(w), NEW j \in i..Len(w)
    PROVE  CumTimes(w)[i] <= CumTimes(w)[j]
<1> DEFINE cum == CumTimes(w)
           S == {d \in Nat : i + d <= Len(w) => cum[i] <= cum[i + d]}
<1>1. Len(w) \in Nat /\ i \in Nat /\ j \in Nat /\ j - i \in Nat /\ j <= Len(w)
  OBVIOUS
<1>2. \A k \in 1..Len(w) : w[k].duration \in Nat
  BY SectionTypes
<1>3. /\ \A k \in 0..Len(w) : cum[k] \in Nat
      /\ \A k \in 1..Len(w) : cum[k] = cum[k - 1] + w[k].duration
  BY CumFacts
<1> HIDE DEF cum
<1>4. 0 \in S
  BY <1>1, <1>3
<1>5. \A d \in Nat : d \in S => d + 1 \in S
  <2> SUFFICES ASSUME NEW d \in Nat, d \in S, i + (d + 1) <= Len(w)
               PROVE  cum[i] <= cum[i + (d + 1)]
    OBVIOUS
  <2> DEFINE k == i + (d + 1)
  <2>1. k \in 1..Len(w) /\ k - 1 = i + d /\ i + d \in 0..Len(w)
    BY <1>1
  <2>2. cum[i] <= cum[i + d]
    BY <1>1
  <2>3. cum[k] = cum[i + d] + w[k].duration
    BY <1>3, <2>1
  <2> QED BY <1>2, <1>3, <2>1, <2>2, <2>3
<1>6. Nat \subseteq S
  <2> HIDE DEF S
  <2> QED BY <1>4, <1>5, SetInduction
<1>7. j - i \in S
  <2> HIDE DEF S
  <2> QED BY <1>1, <1>6
<1>8. i + (j - i) = j
  BY <1>1
<1>9. cum[i] <= cum[i + (j - i)]
  BY <1>1, <1>7
<1> QED BY <1>8, <1>9 DEF cum

(* A moment falls in one section at most, and CumTimes and InSection agree   *)
(* which one it is.                                                          *)
LEMMA OneSection ==
    ASSUME active_workout_index \in DOMAIN Workouts, NEW t \in Int,
           NEW i \in DOMAIN Active, InSection(t, i)
    PROVE  /\ \A j \in DOMAIN Active : InSection(t, j) <=> j = i
           /\ t \in SectionTime(Active, i)
<1> DEFINE cum == CumTimes(Active)
<1>1. Active \in Seq(Sections)
  BY ServerAssumption DEF Active
<1>2. DOMAIN Active = 1..Len(Active) /\ Len(Active) \in Nat
  BY <1>1
<1>3. /\ \A k \in 0..Len(Active) : cum[k] \in Nat
      /\ \A k \in 1..Len(Active) : cum[k] = cum[k - 1] + Active[k].duration
  BY <1>1, CumFacts
<1>4. \A k \in DOMAIN Active : InSection(t, k) <=> cum[k - 1] <= t /\ t < cum[k]
  <2> SUFFICES ASSUME NEW k \in DOMAIN Active
               PROVE  InSection(t, k) <=> cum[k - 1] <= t /\ t < cum[k]
    OBVIOUS
  <2>1. cum[k] = cum[k - 1] + Active[k].duration /\ cum[k - 1] \in Nat /\ cum[k] \in Nat
    BY <1>2, <1>3
  <2>2. InSection(t, k) <=> t >= cum[k - 1] /\ t < cum[k - 1] + Active[k].duration
    BY DEF InSection, CumTime
  <2> HIDE DEF cum
  <2> QED BY <2>1, <2>2
<1>5. \A m, k \in DOMAIN Active : m < k => cum[m] <= cum[k - 1]
  <2> SUFFICES ASSUME NEW m \in DOMAIN Active, NEW k \in DOMAIN Active, m < k
               PROVE  cum[m] <= cum[k - 1]
    OBVIOUS
  <2>1. m \in 0..Len(Active) /\ k - 1 \in m..Len(Active)
    BY <1>2
  <2> QED BY <1>1, <2>1, CumGrows
<1>6. \A j \in DOMAIN Active : cum[j - 1] <= t /\ t < cum[j] => j = i
  <2> HIDE DEF cum
  <2> SUFFICES ASSUME NEW j \in DOMAIN Active, cum[j - 1] <= t, t < cum[j]
               PROVE  j = i
    OBVIOUS
  <2>1. cum[i - 1] <= t /\ t < cum[i]
    BY <1>4
  <2>2. /\ i - 1 \in 0..Len(Active) /\ j - 1 \in 0..Len(Active)
        /\ i \in 0..Len(Active) /\ j \in 0..Len(Active)
    BY <1>2
  <2>3. cum[i - 1] \in Nat /\ cum[j - 1] \in Nat /\ cum[i] \in Nat /\ cum[j] \in Nat
    BY <1>3, <2>2
  <2>4. ~ (i < j) /\ ~ (j < i)
    BY <1>5, <2>1, <2>3
  <2> QED BY <1>2, <2>4
<1>7. t \in SectionTime(Active, i)
  <2>1. cum[i - 1] <= t /\ t < cum[i] /\ cum[i - 1] \in Nat /\ cum[i] \in Nat
    BY <1>2, <1>3, <1>4
  <2>2. SectionTime(Active, i) = cum[i - 1]..(cum[i] - 1)
    BY DEF SectionTime
  <2> HIDE DEF cum
  <2> QED BY <2>1, <2>2
<1> QED BY <1>4, <1>6, <1>7

-----------------------------------------------------------------------------
(* The workout is followed. *)

(* Where the workout put the write that is to win, it put the speed of the   *)
(* section that CumTimes names for the time it had.                          *)
FollowInv == steered # Nobody => SteeredTo(winner[SpeedDemand])

LEMMA FollowKept ==
    ASSUME FollowInv, steered' \in {steered, Nobody},
           steered' # Nobody => winner'[SpeedDemand] = winner[SpeedDemand]
    PROVE  FollowInv'
BY DEF FollowInv, SteeredTo

(* What SteerAt sets is the speed of the one section that its time is in. *)
LEMMA FollowSteer ==
    ASSUME TypeOK, FollowInv, NEW t \in Int, SteerAt(t)
    PROVE  FollowInv'
<1> DEFINE found == {i \in DOMAIN Active : InSection(t, i)}
           first == CHOOSE i \in found : \A j \in found : i <= j
<1>1. CASE UNCHANGED <<modbus_queue, asked, winner, steered>>
  BY <1>1, FollowKept
<1>2. CASE /\ found # {}
           /\ SetValue(SpeedDemand, SpeedRegister(Active[first].speed))
           /\ steered' = IF IsQueued(SpeedDemand) THEN steered
                         ELSE [wo |-> active_workout_index, at |-> t]
  <2>1. CASE IsQueued(SpeedDemand)
    <3>1. winner' = winner /\ steered' = steered
      BY <1>2, <2>1 DEF SetValue
    <3> QED BY <3>1, FollowKept
  <2>2. CASE ~IsQueued(SpeedDemand)
    <3>1. PICK i \in DOMAIN Active : InSection(t, i)
      BY <1>2
    <3>2. /\ \A j \in DOMAIN Active : InSection(t, j) <=> j = i
          /\ t \in SectionTime(Active, i)
      BY <3>1, OneSection DEF TypeOK
    <3>3. found = {i}
      BY <3>2
    <3>4. i <= i
      <4>1. Active \in Seq(Sections)
        BY ServerAssumption DEF Active, TypeOK
      <4>2. i \in Int
        BY <4>1
      <4> QED BY <4>2
    <3>5. first = i
      BY <3>3, <3>4
    <3>6. winner'[SpeedDemand] = SpeedRegister(Active[i].speed)
      BY <1>2, <2>2, <3>5 DEF SetValue, TypeOK, Writable
    <3>7. steered'.wo = active_workout_index /\ steered'.at = t
      BY <1>2, <2>2
    <3>8. FollowInv' <=>
              (steered' # Nobody
                   => LET w == Workouts[steered'.wo]
                      IN  \E k \in DOMAIN w : /\ steered'.at \in SectionTime(w, k)
                                              /\ winner'[SpeedDemand] = SpeedRegister(w[k].speed))
      BY DEF FollowInv, SteeredTo
    <3> QED BY <3>2, <3>6, <3>7, <3>8 DEF Active
  <2> QED BY <2>1, <2>2
<1> QED BY <1>1, <1>2 DEF SteerAt

LEMMA FollowStep == TypeOK /\ FollowInv /\ [Next]_vars => FollowInv'
<1> SUFFICES ASSUME TypeOK, FollowInv, [Next]_vars PROVE FollowInv'
  OBVIOUS
<1>1. CASE service_modbus_queue \/ read_registers \/ Link \/ WriteResponse \/ ErrorResponse
           \/ PutIndex \/ PutRuntime \/ PutMode \/ PutMalformed \/ UNCHANGED vars
  <2>1. UNCHANGED <<winner, steered>>
    BY <1>1, Zenon DEF service_modbus_queue, SendLast, read_registers, Link, Execute, Fail,
              SupplySwitch, WriteResponse, ErrorResponse, PutIndex, PutRuntime, PutMode,
              PutMalformed, vars, node, ghost
  <2> QED BY <2>1, FollowKept
<1>2. CASE ReadResponse
  <2>1. CASE UNCHANGED <<runtime, modbus_queue, asked, winner, steered>>
    BY <2>1, FollowKept
  <2>2. CASE \E e \in IF last_time = "null" THEN {0} ELSE Elapsed : SteerAt(runtime + e)
    <3>1. PICK e \in IF last_time = "null" THEN {0} ELSE Elapsed : SteerAt(runtime + e)
      BY <2>2
    <3>2. runtime + e \in Int
      <4>1. e \in Int
        BY ServerAssumption
      <4> QED BY <4>1 DEF TypeOK
    <3> QED BY <3>1, <3>2, FollowSteer
  <2> QED BY <1>2, <2>1, <2>2 DEF ReadResponse, ReadResponseTimed
<1>3. CASE PutValue
  <2>1. PICK p \in Puts :
            /\ SetValue(Address(p.name), Converted(p.name, p.value))
            /\ steered' = IF Address(p.name) = SpeedDemand /\ ~IsQueued(SpeedDemand)
                          THEN Nobody ELSE steered
    BY <1>3 DEF PutValue
  <2>2. ASSUME steered' # Nobody PROVE winner'[SpeedDemand] = winner[SpeedDemand]
    <3>1. Address(p.name) # SpeedDemand \/ IsQueued(SpeedDemand)
      BY <2>1, <2>2
    <3> QED BY <2>1, <3>1 DEF SetValue, TypeOK
  <2> QED BY <2>1, <2>2, FollowKept
<1> QED BY <1>1, <1>2, <1>3 DEF Next, Respond, Browser

(* While the server is up, the Arduino was not restarted for a lost answer,  *)
(* and the first write of the last burst to the speed demand was the         *)
(* workout's, the demand is the speed of the section that the run time was   *)
(* in when the workout put it (modbus4.js:55,199): whatever it or a browser  *)
(* put on top of that write is undone by it.                                 *)
THEOREM WorkoutIsFollowed == Spec => []WorkoutFollowed
<1>1. Init => FollowInv
  BY DEF Init, FollowInv
<1>2. (BurstInv \/ Restarted) /\ FollowInv => WorkoutFollowed
  BY DEF BurstInv, SettledWins, WorkoutFollowed, FollowInv, Writable
<1> QED BY <1>1, <1>2, FollowStep, BurstAlways, Typing, PTL DEF Spec

-----------------------------------------------------------------------------
(* With timers. *)

(* Every step of the server with its timers is one of the server without, or *)
(* changes nothing of it.                                                    *)
LEMMA TimedStep == [TimedNext]_timedVars => [Next]_vars
<1> SUFFICES ASSUME [TimedNext]_timedVars PROVE [Next]_vars
  OBVIOUS
<1>1. CASE Tick
  BY <1>1, Zenon DEF Tick
<1>2. CASE ServiceDue
  BY <1>2, Zenon DEF ServiceDue, Next
<1>3. CASE ReadDue
  BY <1>3, Zenon DEF ReadDue, Next
<1>4. CASE Answered
  BY <1>4, Zenon DEF Answered, Next
<1>5. CASE Aside
  BY <1>5, Zenon DEF Aside, Next
<1>6. CASE UNCHANGED timedVars
  BY <1>6, Zenon DEF timedVars
<1> QED BY <1>1, <1>2, <1>3, <1>4, <1>5, <1>6, Zenon DEF TimedNext

(* What is proved of the server holds of it whatever its timers do.          *)
THEOREM TimersAside == TimedSpec => Spec
<1>1. TimedInit => Init
  BY Zenon DEF TimedInit
<1> QED BY <1>1, TimedStep, PTL DEF TimedSpec, Spec

(* The ticks a request may take until the next one is sent. *)
Round == MaxDelay + 1

(* The requests that a queue will give rise to: a read makes the workout set *)
(* a speed.                                                                  *)
Reads(q)  == {i \in DOMAIN q : q[i].fc = "read"}
Weight(q) == Len(q) + Cardinality(Reads(q))

(* The ticks until the outstanding request, and what it gives rise to, is    *)
(* done with, at most; between an answer and the next chance to send, one.   *)
Outstanding ==
    IF wire = <<>> THEN IF "service" \in due THEN 0 ELSE 1
    ELSE (Round - waited) + IF wire[1].req.fc = "read" THEN Round ELSE 0

Work == Round * Weight(modbus_queue) + Outstanding

(* The ticks since the last read was queued, as far as two requests need     *)
(* them.                                                                     *)
Progress == IF phase # 0 THEN phase ELSE IF "read" \in due THEN ReadEvery ELSE 0
Credit   == IF Progress <= 2 * Round THEN Progress ELSE 2 * Round

ClockInv ==
    /\ phase \in 0..(ReadEvery - 1)
    /\ due \subseteq {"service", "read"}
    /\ waited \in 0..MaxDelay
    /\ delay \in 1..MaxDelay
    /\ wire = <<>> => waited = 0
    /\ "read" \in due => phase = 0

Allowed == Round * (4 + puts) + 1

WorkInv == up => Work <= Allowed - Credit

LEMMA ClockStep == TypeOK /\ OneOutstanding /\ ClockInv /\ [TimedNext]_timedVars => ClockInv'
<1> SUFFICES ASSUME TypeOK, OneOutstanding, ClockInv, [TimedNext]_timedVars PROVE ClockInv'
  OBVIOUS
<1>1. CASE Tick
  <2>1. /\ due = {}
        /\ wire = <<>> \/ waited < delay
        /\ phase' = (phase + 1) % ReadEvery
        /\ due' = Callbacks(phase')
        /\ waited' = IF wire = <<>> THEN 0 ELSE waited + 1
        /\ wire' = wire /\ delay' = delay
    BY <1>1 DEF Tick, vars
  <2>2. phase' \in 0..(ReadEvery - 1)
    BY <2>1, TimingAssumption DEF ClockInv
  <2>3. due' \subseteq {"service", "read"} /\ ("read" \in due' => phase' = 0)
    BY <2>1 DEF Callbacks
  <2>4. waited' \in 0..MaxDelay /\ (wire' = <<>> => waited' = 0)
    BY <2>1, TimingAssumption DEF ClockInv
  <2> QED BY <2>1, <2>2, <2>3, <2>4 DEF ClockInv
<1>2. CASE ServiceDue
  <2>1. due' \subseteq due /\ UNCHANGED <<phase, waited, delay>>
    BY <1>2 DEF ServiceDue, Runs
  <2>2. wire' = <<>> => wire = <<>>
    <3>1. CASE service_modbus_queue
      <4>1. DOMAIN wire' = {1}
        BY <3>1, NewWire
      <4> QED BY <4>1
    <3>2. CASE UNCHANGED vars
      BY <3>2 DEF vars
    <3> QED BY <1>2, <3>1, <3>2 DEF ServiceDue
  <2> QED BY <2>1, <2>2 DEF ClockInv
<1>3. CASE ReadDue
  <2>1. due' \subseteq due /\ UNCHANGED <<phase, waited, delay, wire>>
    BY <1>3 DEF ReadDue, Runs, read_registers, vars
  <2> QED BY <2>1 DEF ClockInv
<1>4. CASE Answered
  <2>1. waited' = 0 /\ UNCHANGED <<phase, due, delay>>
    BY <1>4 DEF Answered
  <2> QED BY <2>1, TimingAssumption DEF ClockInv
<1>5. CASE Aside
  <2>1. UNCHANGED <<phase, due, waited, delay>>
    BY <1>5 DEF Aside, clock
  <2>2. wire' = <<>> => wire = <<>>
    <3>1. CASE Execute \/ Fail
      <4>1. DOMAIN wire' = {1}
        BY <3>1, NewWire
      <4> QED BY <4>1
    <3>2. CASE SupplySwitch \/ Browser
      BY <3>2 DEF SupplySwitch, Browser, PutValue, PutIndex, PutRuntime, PutMode,
                  PutMalformed
    <3> QED BY <1>5, <3>1, <3>2 DEF Aside, Link
  <2> QED BY <2>1, <2>2 DEF ClockInv
<1>6. CASE UNCHANGED timedVars
  <2>1. UNCHANGED <<phase, due, waited, delay, wire>>
    BY <1>6 DEF timedVars, clock, vars
  <2> QED BY <2>1 DEF ClockInv
<1> QED BY <1>1, <1>2, <1>3, <1>4, <1>5, <1>6 DEF TimedNext

LEMMA WeightType ==
    ASSUME NEW q \in Seq(Requests)
    PROVE  /\ IsFiniteSet(Reads(q)) /\ Cardinality(Reads(q)) \in Nat
           /\ Weight(q) \in Nat /\ Len(q) <= Weight(q)
<1>1. Len(q) \in Nat /\ DOMAIN q = 1..Len(q)
  OBVIOUS
<1>2. IsFiniteSet(1..Len(q))
  BY <1>1, FS_Interval
<1>3. IsFiniteSet(Reads(q))
  <2>1. Reads(q) \in SUBSET (1..Len(q))
    BY <1>1 DEF Reads
  <2> QED BY <1>2, <2>1, FS_Subset
<1>4. Cardinality(Reads(q)) \in Nat
  BY <1>3, FS_CardinalityType
<1> QED BY <1>1, <1>3, <1>4 DEF Weight

(* What putting one request on top adds. *)
Extra(r) == IF r.fc = "read" THEN 2 ELSE 1

LEMMA WeightTop ==
    ASSUME NEW q \in Seq(Requests), NEW p \in Seq(Requests), NEW r \in Requests,
           Len(p) = Len(q) + 1, p[Len(p)] = r, \A i \in 1..Len(q) : p[i] = q[i]
    PROVE  Weight(p) = Weight(q) + Extra(r)
<1> DEFINE n == Len(p)
<1>1. /\ Len(q) \in Nat /\ n \in Nat /\ n = Len(q) + 1
      /\ DOMAIN q = 1..Len(q) /\ DOMAIN p = 1..n
  OBVIOUS
<1>2. n \notin Reads(q)
  <2> HIDE DEF n
  <2> QED BY <1>1 DEF Reads
<1>3. Reads(p) = Reads(q) \union (IF r.fc = "read" THEN {n} ELSE {})
  <2>1. \A i : i \in 1..n <=> i \in 1..Len(q) \/ i = n
    <3> HIDE DEF n
    <3> QED BY <1>1
  <2>2. p[n] = r
    OBVIOUS
  <2> HIDE DEF n
  <2> QED BY <1>1, <2>1, <2>2 DEF Reads
<1>4. Cardinality(Reads(p)) = Cardinality(Reads(q)) + IF r.fc = "read" THEN 1 ELSE 0
  <2>1. IsFiniteSet(Reads(q)) /\ Cardinality(Reads(q)) \in Nat
    BY WeightType
  <2>2. CASE r.fc = "read"
    <3>1. Reads(p) = Reads(q) \union {n}
      BY <1>3, <2>2
    <3> HIDE DEF n
    <3>2. Cardinality(Reads(q) \union {n}) = Cardinality(Reads(q)) + 1
      BY <1>2, <2>1, FS_AddElement
    <3> QED BY <2>2, <3>1, <3>2
  <2>3. CASE r.fc # "read"
    <3>1. Reads(p) = Reads(q)
      BY <1>3, <2>3
    <3> QED BY <2>1, <2>3, <3>1
  <2> QED BY <2>2, <2>3
<1> QED BY <1>1, <1>4, WeightType DEF Weight, Extra

LEMMA WeightAppend ==
    ASSUME NEW q \in Seq(Requests), NEW r \in Requests
    PROVE  /\ Append(q, r) \in Seq(Requests)
           /\ Weight(Append(q, r)) = Weight(q) + Extra(r)
<1> DEFINE p == Append(q, r)
<1>1. /\ p \in Seq(Requests) /\ Len(p) = Len(q) + 1 /\ p[Len(q) + 1] = r
      /\ \A i \in 1..Len(q) : p[i] = q[i]
  <2> HIDE DEF Requests
  <2> QED OBVIOUS
<1> HIDE DEF p
<1>2. p[Len(p)] = r
  BY <1>1
<1>3. Weight(p) = Weight(q) + Extra(r)
  BY <1>1, <1>2, WeightTop
<1> QED BY <1>1, <1>3 DEF p

LEMMA WeightSend ==
    ASSUME NEW q \in Seq(Requests), q # <<>>
    PROVE  /\ q[Len(q)] \in Requests
           /\ SubSeq(q, 1, Len(q) - 1) \in Seq(Requests)
           /\ Weight(q) = Weight(SubSeq(q, 1, Len(q) - 1)) + Extra(q[Len(q)])
<1> DEFINE p == SubSeq(q, 1, Len(q) - 1)  r == q[Len(q)]
<1>1. /\ r \in Requests /\ p \in Seq(Requests) /\ Len(p) = Len(q) - 1
      /\ \A i \in 1..(Len(q) - 1) : p[i] = q[i]
  BY AllButLast
<1>2. Len(q) \in Nat
  OBVIOUS
<1> HIDE DEF p
<1>3. Len(q) = Len(p) + 1 /\ \A i \in 1..Len(p) : q[i] = p[i]
  BY <1>1, <1>2
<1>4. Weight(q) = Weight(p) + Extra(r)
  BY <1>1, <1>3, WeightTop
<1> QED BY <1>1, <1>4 DEF p

LEMMA RoundTimes ==
    /\ Round \in Nat /\ Round >= 2
    /\ \A n \in Nat : /\ Round * n \in Nat
                      /\ n <= Round * n
                      /\ Round * (n + 1) = Round * n + Round
                      /\ Round * (n + 2) = Round * n + 2 * Round
<1>1. Round \in Nat /\ Round >= 2
  BY TimingAssumption DEF Round
<1> HIDE DEF Round
<1> QED BY <1>1

LEMMA CreditType ==
    ASSUME ClockInv
    PROVE  Credit \in Nat /\ Credit <= 2 * Round /\ Progress \in Nat
<1>1. Progress \in Nat
  BY TimingAssumption DEF ClockInv, Progress
<1> HIDE DEF Progress
<1> QED BY <1>1, RoundTimes DEF Credit

LEMMA AllowedType ==
    ASSUME NEW p \in Nat
    PROVE  /\ Round * (4 + p) \in Nat
           /\ Round * (4 + p) >= 4 * Round
           /\ Round * (4 + (p + 1)) = Round * (4 + p) + Round
<1>1. Round \in Nat
  BY RoundTimes
<1> HIDE DEF Round
<1>2. Round * (4 + p) = 4 * Round + Round * p /\ Round * p \in Nat
  BY <1>1
<1>3. Round * (4 + (p + 1)) = 4 * Round + Round * p + Round
  BY <1>1
<1> QED BY <1>1, <1>2, <1>3

LEMMA OutstandingType ==
    ASSUME ClockInv
    PROVE  /\ Outstanding \in Nat
           /\ wire # <<>> => Outstanding >= 1 + IF wire[1].req.fc = "read" THEN Round ELSE 0
<1>1. waited \in Nat /\ Round - waited \in Nat /\ Round - waited >= 1 /\ Round \in Nat
  BY TimingAssumption DEF ClockInv, Round
<1> HIDE DEF Round
<1> QED BY <1>1 DEF Outstanding

LEMMA NextTypes ==
    ClockInv' => (Outstanding \in Nat /\ Credit \in Nat /\ Credit <= 2 * Round)'
<1>1. ClockInv => Outstanding \in Nat /\ Credit \in Nat /\ Credit <= 2 * Round
  BY OutstandingType, CreditType
<1> QED BY <1>1, PTL

LEMMA WorkTypes ==
    TypeOK /\ ClockInv => /\ Work \in Nat /\ Allowed \in Nat
                          /\ Round * Weight(modbus_queue) \in Nat
                          /\ Work = Round * Weight(modbus_queue) + Outstanding
<1> SUFFICES ASSUME TypeOK, ClockInv
             PROVE  /\ Work \in Nat /\ Allowed \in Nat
                    /\ Round * Weight(modbus_queue) \in Nat
                    /\ Work = Round * Weight(modbus_queue) + Outstanding
  OBVIOUS
<1>1. Weight(modbus_queue) \in Nat /\ puts \in Nat
  BY WeightType DEF TypeOK
<1>2. Round * Weight(modbus_queue) \in Nat /\ Round * (4 + puts) \in Nat
  BY <1>1, RoundTimes, AllowedType
<1> QED BY <1>2, OutstandingType DEF Work, Allowed

LEMMA WorkTypesNext == TypeOK' /\ ClockInv' => (Work \in Nat /\ Allowed \in Nat)'
<1>1. TypeOK /\ ClockInv => Work \in Nat /\ Allowed \in Nat
  BY WorkTypes
<1> QED BY <1>1, PTL

(* What a step adds to the work it may take from the credit or be allowed.   *)
LEMMA WorkFrom ==
    ASSUME TypeOK, TypeOK', ClockInv, ClockInv', WorkInv, up' => up,
           Work' + Credit' + Allowed <= Work + Credit + Allowed'
    PROVE  WorkInv'
<1> SUFFICES ASSUME up' PROVE Work' <= Allowed' - Credit'
  BY DEF WorkInv
<1>1. /\ Work \in Nat /\ Allowed \in Nat /\ Credit \in Nat
      /\ Work' \in Nat /\ Allowed' \in Nat /\ Credit' \in Nat
  BY WorkTypes, WorkTypesNext, CreditType, NextTypes
<1>2. Work <= Allowed - Credit
  <2>1. up
    BY Zenon
  <2> QED BY <2>1, Zenon DEF WorkInv
<1>3. Work' + Credit' + Allowed <= Work + Credit + Allowed'
  OBVIOUS
<1>4. \A w, w1, a, a1, c, c1 \in Nat :
          w <= a - c /\ w1 + c1 + a <= w + c + a1 => w1 <= a1 - c1
  OBVIOUS
<1> QED BY ONLY <1>1, <1>2, <1>3, <1>4

(* A step that queues nothing, or one write for a request of a browser.      *)
LEMMA WorkKept ==
    ASSUME TypeOK, TypeOK', ClockInv, ClockInv', WorkInv, up' => up,
           \/ modbus_queue' = modbus_queue /\ (puts' = puts \/ puts' = puts + 1)
           \/ /\ Weight(modbus_queue') = Weight(modbus_queue) + 1
              /\ puts' = puts + 1,
           Outstanding' + Credit' <= Outstanding + Credit
    PROVE  WorkInv'
<1> DEFINE W == Round * Weight(modbus_queue)  A == Round * (4 + puts)
           W1 == Round * Weight(modbus_queue')  A1 == Round * (4 + puts')
<1>1. Weight(modbus_queue) \in Nat /\ puts \in Nat /\ puts' \in Nat
  BY WeightType DEF TypeOK
<1>2. Weight(modbus_queue') \in Nat
  BY WeightType DEF TypeOK
<1>3. W \in Nat /\ W1 \in Nat /\ Round \in Nat /\ A \in Nat /\ A1 \in Nat
  BY <1>1, <1>2, RoundTimes, AllowedType
<1>4. W1 + A <= W + A1
  <2>1. puts' = puts + 1 => A1 = A + Round
    BY <1>1, AllowedType
  <2>2. Weight(modbus_queue') = Weight(modbus_queue) + 1 => W1 = W + Round
    BY <1>1, RoundTimes
  <2>3. modbus_queue' = modbus_queue => W1 = W
    OBVIOUS
  <2>4. puts' = puts => A1 = A
    OBVIOUS
  <2> HIDE DEF W, W1, A, A1
  <2> QED BY <1>3, <2>1, <2>2, <2>3, <2>4
<1>5. Outstanding \in Nat /\ Outstanding' \in Nat /\ Credit \in Nat /\ Credit' \in Nat
  BY OutstandingType, CreditType, NextTypes
<1>6. /\ Work = W + Outstanding /\ Allowed = A + 1
      /\ Work' = W1 + Outstanding' /\ Allowed' = A1 + 1
  BY DEF Work, Allowed
<1>7. Work' + Credit' + Allowed <= Work + Credit + Allowed'
  <2>1. Outstanding' + Credit' <= Outstanding + Credit
    OBVIOUS
  <2>2. \A w, w1, a, a1, o, o1, c, c1 \in Nat :
            w1 + a <= w + a1 /\ o1 + c1 <= o + c
                => (w1 + o1) + c1 + (a + 1) <= (w + o) + c + (a1 + 1)
    OBVIOUS
  <2> HIDE DEF W, W1, A, A1
  <2> QED BY ONLY <1>3, <1>4, <1>5, <1>6, <2>1, <2>2
<1> QED BY <1>7, WorkFrom

LEMMA WorkTick ==
    ASSUME TypeOK, TypeOK', ClockInv, ClockInv', WorkInv, Tick
    PROVE  WorkInv'
<1>1. /\ due = {}
      /\ wire = <<>> \/ waited < MaxDelay
      /\ phase' = (phase + 1) % ReadEvery
      /\ due' = Callbacks(phase')
      /\ waited' = IF wire = <<>> THEN 0 ELSE waited + 1
      /\ UNCHANGED <<up, modbus_queue, wire, puts>>
  <2>1. /\ due = {}
        /\ wire = <<>> \/ waited < delay
        /\ phase' = (phase + 1) % ReadEvery
        /\ due' = Callbacks(phase')
        /\ waited' = IF wire = <<>> THEN 0 ELSE waited + 1
        /\ UNCHANGED <<up, modbus_queue, wire, puts>>
    BY DEF Tick, vars, node
  <2>2. waited < delay => waited < MaxDelay
    BY TimingAssumption DEF ClockInv
  <2> QED BY <2>1, <2>2
<1>2. Outstanding' + 1 = Outstanding
  <2>1. "service" \in due' /\ "service" \notin due
    BY <1>1 DEF Callbacks
  <2>2. waited \in Nat /\ Round \in Nat /\ Round - waited \in Int
    BY RoundTimes, TimingAssumption DEF ClockInv
  <2> HIDE DEF Round
  <2> QED BY <1>1, <2>1, <2>2 DEF Outstanding
<1>3. Credit' <= Credit + 1
  <2>1. phase' = phase + 1 \/ (phase + 1 = ReadEvery /\ phase' = 0)
    BY <1>1, TimingAssumption DEF ClockInv
  <2>2. "read" \in due' <=> phase' = 0
    BY <1>1 DEF Callbacks
  <2>3. "read" \notin due
    BY <1>1
  <2>4. Progress' = Progress + 1
    BY <2>1, <2>2, <2>3, TimingAssumption DEF Progress, ClockInv
  <2>5. Progress \in Nat
    BY CreditType
  <2> HIDE DEF Progress
  <2>6. 2 * Round \in Nat
    BY RoundTimes
  <2> HIDE DEF Round
  <2> QED BY <2>4, <2>5, <2>6 DEF Credit
<1>4. Outstanding \in Nat /\ Outstanding' \in Nat /\ Credit \in Nat /\ Credit' \in Nat
  BY OutstandingType, CreditType, NextTypes
<1>5. Outstanding' + Credit' <= Outstanding + Credit
  <2>1. \A o, o1, c, c1 \in Nat : o1 + 1 = o /\ c1 <= c + 1 => o1 + c1 <= o + c
    OBVIOUS
  <2> QED BY ONLY <1>2, <1>3, <1>4, <2>1
<1> QED BY <1>1, <1>5, WorkKept

LEMMA ReadIs == \A r \in Requests : Extra(r) \in {1, 2} /\ (r.fc = "read" <=> Extra(r) = 2)
BY DEF Extra

LEMMA WorkService ==
    ASSUME TypeOK, TypeOK', OneOutstanding, ClockInv, ClockInv', WorkInv, ServiceDue
    PROVE  WorkInv'
<1>1. /\ "service" \in due /\ due' = due \ {"service"}
      /\ UNCHANGED <<phase, waited>>
  BY DEF ServiceDue, Runs
<1>2. Credit' = Credit
  BY <1>1 DEF Credit, Progress
<1>3. CASE service_modbus_queue
  <2> DEFINE q == modbus_queue  p == SubSeq(q, 1, Len(q) - 1)  r == q[Len(q)]
  <2>1. q \in Seq(Requests) /\ q # <<>> /\ modbus_queue' = p /\ UNCHANGED <<up, puts>>
    BY <1>3 DEF service_modbus_queue, SendLast, TypeOK
  <2>2. r \in Requests /\ p \in Seq(Requests) /\ Weight(q) = Weight(p) + Extra(r)
    BY <2>1, WeightSend
  <2>3. Weight(p) \in Nat
    BY <2>2, WeightType
  <2>4. wire = <<>> /\ wire' # <<>> /\ wire'[1].req = r
    <3>1. wire = <<>> /\ DOMAIN wire' = {1} /\ wire'[1] = [st |-> "request", req |-> r]
      BY <1>3, NewWire
    <3> QED BY <3>1
  <2>5. waited = 0 /\ waited' = 0
    BY <1>1, <2>4 DEF ClockInv
  <2>6. Outstanding = 0 /\ Outstanding' = IF r.fc = "read" THEN 2 * Round ELSE Round
    <3>1. Round \in Nat /\ Round - 0 = Round
      BY RoundTimes
    <3> HIDE DEF r, Round
    <3>2. Outstanding' = (Round - 0) + IF r.fc = "read" THEN Round ELSE 0
      BY <2>4, <2>5 DEF Outstanding
    <3>3. Outstanding = 0
      BY <1>1, <2>4 DEF Outstanding
    <3> QED BY ONLY <3>1, <3>2, <3>3
  <2> HIDE DEF p, r
  <2>7. Round * Weight(q) = Round * Weight(p) + Outstanding'
    BY <2>2, <2>3, <2>6, RoundTimes, ReadIs
  <2>8. Work' = Work /\ Allowed' = Allowed
    <3>1. Round * Weight(p) \in Nat /\ Outstanding' \in Nat
      BY <2>3, RoundTimes, NextTypes
    <3> QED BY <2>1, <2>6, <2>7, <3>1 DEF Work, Allowed
  <2>9. Work' + Credit' + Allowed <= Work + Credit + Allowed'
    BY <1>2, <2>8, WorkTypes, CreditType
  <2>10. up' => up
    BY <2>1, Zenon
  <2> QED BY <2>9, <2>10, WorkFrom
<1>4. CASE UNCHANGED vars /\ ~(up /\ ~modbus_busy /\ modbus_queue # <<>>)
  <2>1. UNCHANGED <<up, modbus_queue, modbus_busy, wire, puts>>
    BY <1>4 DEF vars, node
  <2>2. CASE ~up
    BY <2>1, <2>2, Zenon DEF WorkInv
  <2>3. CASE modbus_busy
    <3>1. wire # <<>>
      <4>1. Len(wire) = 1
        BY <2>3, Zenon DEF OneOutstanding
      <4> QED BY <4>1
    <3>2. Outstanding' = Outstanding
      BY <1>1, <2>1, <3>1 DEF Outstanding
    <3>3. Outstanding' + Credit' <= Outstanding + Credit
      BY <1>2, <3>2, OutstandingType, CreditType
    <3>4. up' => up
      BY <2>1, Zenon
    <3> QED BY <2>1, <3>3, <3>4, WorkKept
  <2>4. CASE ~modbus_busy /\ modbus_queue = <<>>
    <3>1. wire = <<>>
      BY <2>4, OneWire DEF OneOutstanding, TypeOK
    <3>2. Outstanding' = 1
      BY <1>1, <2>1, <3>1 DEF Outstanding
    <3>3. Weight(<<>>) = 0
      <4>1. Reads(<<>>) = {}
        BY DEF Reads
      <4> QED BY <4>1, FS_EmptySet DEF Weight
    <3>4. Round * Weight(<<>>) = 0
      BY <3>3, RoundTimes
    <3>5. Work' = 1
      BY <2>1, <2>4, <3>2, <3>4 DEF Work
    <3>6. Allowed' >= 4 * Round + 1 /\ Allowed' \in Int
      <4>1. puts \in Nat
        BY DEF TypeOK
      <4> QED BY <2>1, <4>1, AllowedType, RoundTimes DEF Allowed
    <3>7. Credit' \in Nat /\ Credit' <= 2 * Round
      BY <1>2, CreditType
    <3>8. Work' <= Allowed' - Credit'
      <4>1. Round \in Nat
        BY RoundTimes
      <4>2. Work' \in Nat /\ Allowed' \in Nat
        BY WorkTypesNext
      <4>3. \A w, a, c, n \in Nat :
                w = 1 /\ a >= 4 * n + 1 /\ c <= 2 * n => w <= a - c
        OBVIOUS
      <4> HIDE DEF Round
      <4> QED BY ONLY <3>5, <3>6, <3>7, <4>1, <4>2, <4>3
    <3> QED BY <3>8 DEF WorkInv
  <2> QED BY <1>4, <2>2, <2>3, <2>4, Zenon
<1> QED BY <1>3, <1>4, Zenon DEF ServiceDue

LEMMA WorkRead ==
    ASSUME 2 * Round <= ReadEvery,
           TypeOK, TypeOK', ClockInv, ClockInv', WorkInv, ReadDue
    PROVE  WorkInv'
<1>1. /\ "read" \in due /\ due' = due \ {"read"}
      /\ UNCHANGED <<phase, waited>>
  BY DEF ReadDue, Runs
<1>2. UNCHANGED <<up, wire, puts>>
  BY DEF ReadDue, read_registers, vars, node
<1>3. Outstanding' = Outstanding
  BY <1>1, <1>2 DEF Outstanding
<1>4. Credit = 2 * Round /\ Credit' = 0
  <2>1. Progress = ReadEvery /\ Progress' = 0
    BY <1>1 DEF Progress, ClockInv
  <2>2. ReadEvery \in Nat /\ 2 * Round \in Nat
    BY TimingAssumption, RoundTimes
  <2> HIDE DEF Progress, Round
  <2> QED BY <2>1, <2>2 DEF Credit
<1>5. CASE modbus_queue' = modbus_queue
  <2>1. Outstanding' + Credit' <= Outstanding + Credit
    BY <1>3, <1>4, OutstandingType, RoundTimes
  <2>2. up' => up
    BY <1>2, Zenon
  <2> QED BY <1>2, <1>5, <2>1, <2>2, WorkKept
<1>6. CASE modbus_queue' = Append(modbus_queue, Read)
  <2>1. Weight(modbus_queue') = Weight(modbus_queue) + 2
    <3>1. modbus_queue \in Seq(Requests) /\ Read \in Requests
      BY ReadType DEF TypeOK
    <3>2. Extra(Read) = 2
      BY DEF Extra, Read
    <3> QED BY <1>6, <3>1, <3>2, WeightAppend
  <2>2. Weight(modbus_queue) \in Nat
    BY WeightType DEF TypeOK
  <2>3. Round * Weight(modbus_queue') = Round * Weight(modbus_queue) + 2 * Round
    BY <2>1, <2>2, RoundTimes
  <2>4. Work' = Work + 2 * Round
    <3>1. Round * Weight(modbus_queue) \in Nat /\ Outstanding \in Nat /\ 2 * Round \in Nat
      BY <2>2, RoundTimes, OutstandingType
    <3>2. /\ Work = Round * Weight(modbus_queue) + Outstanding
          /\ Work' = (Round * Weight(modbus_queue) + 2 * Round) + Outstanding
      BY <1>3, <2>3 DEF Work
    <3>3. \A w, o, c \in Nat : (w + c) + o = (w + o) + c
      OBVIOUS
    <3> QED BY ONLY <3>1, <3>2, <3>3
  <2>5. Allowed' = Allowed
    BY <1>2 DEF Allowed
  <2>6. Work' + Credit' + Allowed <= Work + Credit + Allowed'
    <3>1. Work \in Nat /\ Allowed \in Nat /\ 2 * Round \in Nat
      BY WorkTypes, RoundTimes
    <3> QED BY ONLY <1>4, <2>4, <2>5, <3>1
  <2>7. up' => up
    BY <1>2, Zenon
  <2> QED BY <2>6, <2>7, WorkFrom
<1> QED BY <1>5, <1>6 DEF ReadDue, read_registers, vars, node

(* What setValue queues is one write. *)
LEMMA WeightSetValue ==
    ASSUME TypeOK, NEW a \in Writable, NEW v \in Word, SetValue(a, v)
    PROVE  Weight(modbus_queue') = Weight(modbus_queue) + 1
<1>1. modbus_queue \in Seq(Requests) /\ Write(a, v) \in Requests
  BY WriteType DEF TypeOK
<1>2. Extra(Write(a, v)) = 1
  BY DEF Extra, Write
<1>3. modbus_queue' = Append(modbus_queue, Write(a, v))
  BY DEF SetValue
<1> QED BY <1>1, <1>2, <1>3, WeightAppend

LEMMA WorkAnswered ==
    ASSUME TypeOK, TypeOK', OneOutstanding, ClockInv, ClockInv', WorkInv, Answered
    PROVE  WorkInv'
<1>1. Respond /\ UNCHANGED <<phase, due>>
  BY DEF Answered
<1>2. Credit' = Credit
  BY <1>1 DEF Credit, Progress
<1>3. wire # <<>> /\ wire' = <<>> /\ Head(wire) = wire[1]
  <2>1. DOMAIN wire = {1} /\ wire' = <<>>
    BY <1>1, NewWire
  <2>2. wire # <<>>
    BY <2>1
  <2> QED BY <2>1, <2>2, OneWire
<1>4. Outstanding' \in 0..1
  BY <1>3 DEF Outstanding
<1>5. UNCHANGED puts
  BY <1>1 DEF Respond, ReadResponse, ReadResponseTimed, WriteResponse, ErrorResponse
<1>6. Outstanding \in Nat /\ Credit \in Nat
  BY OutstandingType, CreditType
<1>7. CASE ErrorResponse
  BY <1>7, Zenon DEF ErrorResponse, WorkInv
<1>8. CASE modbus_queue' = modbus_queue /\ (up' => up)
  <2>1. Outstanding >= 1
    BY <1>3, OutstandingType, RoundTimes
  <2>2. Outstanding' + Credit' <= Outstanding + Credit
    <3>1. \A o, c \in Nat, o1 \in 0..1 : o >= 1 => o1 + c <= o + c
      OBVIOUS
    <3> QED BY ONLY <1>2, <1>4, <1>6, <2>1, <3>1
  <2> QED BY <1>5, <1>8, <2>2, WorkKept
<1>9. CASE ReadResponse /\ \E s : Accepts("speed_demand", s)
                                  /\ SetValue(SpeedDemand, SpeedRegister(s))
  <2>1. PICK s : Accepts("speed_demand", s) /\ SetValue(SpeedDemand, SpeedRegister(s))
    BY <1>9
  <2>2. SpeedRegister(s) \in Word /\ SpeedDemand \in Writable
    <3>1. s \in Int /\ 1 <= s /\ s <= 55
      BY <2>1 DEF Accepts
    <3> QED BY <3>1, SpeedRegisterType DEF Writable
  <2>3. Weight(modbus_queue') = Weight(modbus_queue) + 1
    BY <2>1, <2>2, WeightSetValue
  <2>4. Weight(modbus_queue) \in Nat
    BY WeightType DEF TypeOK
  <2>5. Outstanding >= 1 + Round
    <3>1. wire[1].req.fc = "read"
      BY <1>3, <1>9 DEF ReadResponse, ReadResponseTimed
    <3> QED BY <1>3, <3>1, OutstandingType
  <2>6. Round * Weight(modbus_queue') = Round * Weight(modbus_queue) + Round
    BY <2>3, <2>4, RoundTimes
  <2>7. Work' <= Work
    <3>1. Round * Weight(modbus_queue) \in Nat /\ Round \in Nat
      BY <2>4, RoundTimes
    <3>2. /\ Work = Round * Weight(modbus_queue) + Outstanding
          /\ Work' = (Round * Weight(modbus_queue) + Round) + Outstanding'
      BY <2>6 DEF Work
    <3>3. \A w, n, o \in Nat, o1 \in 0..1 : o >= 1 + n => (w + n) + o1 <= w + o
      OBVIOUS
    <3> QED BY ONLY <1>4, <1>6, <2>5, <3>1, <3>2, <3>3
  <2>8. Allowed' = Allowed
    BY <1>5 DEF Allowed
  <2>9. Work' + Credit' + Allowed <= Work + Credit + Allowed'
    <3>1. Work \in Nat /\ Work' \in Nat /\ Allowed \in Nat
      BY WorkTypes, WorkTypesNext
    <3>2. \A w, w1, c, a \in Nat : w1 <= w => w1 + c + a <= w + c + a
      OBVIOUS
    <3> QED BY ONLY <1>2, <1>6, <2>7, <2>8, <3>1, <3>2
  <2>10. up' => up
    BY <1>9, Zenon DEF ReadResponse, ReadResponseTimed
  <2> QED BY <2>9, <2>10, WorkFrom
<1>10. CASE WriteResponse
  <2>1. modbus_queue' = modbus_queue
    BY <1>10 DEF WriteResponse
  <2>2. up' => up
    BY <1>10, Zenon DEF WriteResponse
  <2> QED BY <1>8, <2>1, <2>2
<1>11. CASE ReadResponse
  <2>1. up' => up
    BY <1>11, Zenon DEF ReadResponse, ReadResponseTimed
  <2>2. \/ modbus_queue' = modbus_queue
        \/ \E s : Accepts("speed_demand", s) /\ SetValue(SpeedDemand, SpeedRegister(s))
    BY <1>11 DEF ReadResponse, ReadResponseTimed, SteerAt
  <2> QED BY <1>8, <1>9, <1>11, <2>1, <2>2
<1> QED BY <1>1, <1>7, <1>10, <1>11 DEF Respond

LEMMA WorkAside ==
    ASSUME TypeOK, TypeOK', OneOutstanding, ClockInv, ClockInv', WorkInv, Aside
    PROVE  WorkInv'
<1>1. UNCHANGED <<phase, due, waited>>
  BY DEF Aside, clock
<1>2. Credit' = Credit
  BY <1>1 DEF Credit, Progress
<1>3. /\ (wire' = <<>>) <=> (wire = <<>>)
      /\ wire # <<>> => wire'[1].req = wire[1].req
  <2>1. CASE Execute \/ Fail
    <3>1. DOMAIN wire = {1} /\ DOMAIN wire' = {1} /\ wire'[1].req = wire[1].req
      BY <2>1, NewWire
    <3> QED BY <3>1
  <2>2. CASE SupplySwitch \/ Browser
    <3>1. wire' = wire
      BY <2>2 DEF SupplySwitch, Browser, PutValue, PutIndex, PutRuntime, PutMode,
                  PutMalformed
    <3> QED BY <3>1
  <2> QED BY <2>1, <2>2 DEF Aside, Link
<1>4. Outstanding' = Outstanding
  BY <1>1, <1>3 DEF Outstanding
<1>5. Outstanding' + Credit' <= Outstanding + Credit
  BY <1>2, <1>4, OutstandingType, CreditType
<1>6. CASE PutMalformed
  BY <1>6, Zenon DEF PutMalformed, WorkInv
<1>7. CASE PutValue
  <2>1. PICK p \in Puts :
            Accepts(p.name, p.value)
            /\ SetValue(Address(p.name), Converted(p.name, p.value))
    BY <1>7 DEF PutValue
  <2>2. Address(p.name) \in Writable /\ Converted(p.name, p.value) \in Word
    BY <2>1, AddressOf, ConvertedType, ServerAssumption
  <2>3. Weight(modbus_queue') = Weight(modbus_queue) + 1
    BY <2>1, <2>2, WeightSetValue
  <2>4. puts' = puts + 1
    BY <1>7 DEF PutValue, Put
  <2>5. up' => up
    BY <1>7, Zenon DEF PutValue
  <2> QED BY <1>5, <2>3, <2>4, <2>5, WorkKept
<1>8. CASE Link \/ PutIndex \/ PutRuntime \/ PutMode
  <2>1. modbus_queue' = modbus_queue /\ (puts' = puts \/ puts' = puts + 1)
    BY <1>8 DEF Link, Execute, Fail, SupplySwitch, PutIndex, PutRuntime, PutMode, Put, node
  <2>2. up' => up
    BY <1>8, Zenon DEF Link, Execute, Fail, SupplySwitch, PutIndex, PutRuntime, PutMode, node
  <2> QED BY <1>5, <2>1, <2>2, WorkKept
<1> QED BY <1>6, <1>7, <1>8 DEF Aside, Browser

LEMMA WorkStep ==
    2 * Round <= ReadEvery =>
        (TypeOK /\ TypeOK' /\ OneOutstanding /\ ClockInv /\ ClockInv' /\ WorkInv
           /\ [TimedNext]_timedVars => WorkInv')
<1> SUFFICES ASSUME 2 * Round <= ReadEvery, TypeOK, TypeOK', OneOutstanding, ClockInv,
                    ClockInv', WorkInv, [TimedNext]_timedVars
             PROVE  WorkInv'
  OBVIOUS
<1>1. CASE UNCHANGED timedVars
  BY <1>1, Zenon DEF timedVars, vars, node, clock, WorkInv, Work, Allowed, Credit, Progress,
                     Outstanding
<1> QED BY <1>1, WorkTick, WorkService, WorkRead, WorkAnswered, WorkAside DEF TimedNext

(* Once the process has ended nothing is queued. *)
LEMMA QueueStays ==
    ASSUME [Next]_vars, ~up'
    PROVE  modbus_queue' = modbus_queue /\ (puts' = puts \/ puts' = puts + 1)
<1>1. CASE ~up
  BY <1>1, Zenon DEF Next, service_modbus_queue, read_registers, Link, Execute, Fail,
         SupplySwitch, Respond, ReadResponse, ReadResponseTimed, WriteResponse,
         ErrorResponse, Browser, PutValue, PutIndex, PutRuntime, PutMode, PutMalformed, Put,
         vars, node
<1>2. CASE up
  <2>1. PutMalformed \/ ErrorResponse
    BY <1>2, Zenon DEF Next, service_modbus_queue, SendLast, read_registers, Link, Execute,
           Fail, SupplySwitch, Respond, ReadResponse, ReadResponseTimed, WriteResponse,
           Browser, PutValue, PutIndex, PutRuntime, PutMode, vars, node
  <2> QED BY <2>1, Zenon DEF PutMalformed, Put, ErrorResponse
<1> QED BY <1>1, <1>2

LEMMA LenInitial == Len(Initial) = 4
BY DEF Initial

(* The requests that are still to be done bound those that are queued. *)
LEMMA WorkBounds == TypeOK /\ ClockInv /\ WorkInv /\ up => QueueBounded
<1> SUFFICES ASSUME TypeOK, ClockInv, WorkInv, up PROVE QueueBounded
  OBVIOUS
<1> DEFINE L == Len(modbus_queue)  W == Weight(modbus_queue)  n == 4 + puts
<1>1. L \in Nat /\ W \in Nat /\ L <= W /\ puts \in Nat
  BY WeightType DEF TypeOK
<1>2. Round * W <= Round * n + 1
  <2>1. Work <= Allowed - Credit
    BY Zenon DEF WorkInv
  <2>2. Work = Round * W + Outstanding /\ Allowed = Round * n + 1
    BY DEF Work, Allowed
  <2>3. Round * W \in Nat /\ Round * n \in Nat
    BY <1>1, RoundTimes, AllowedType
  <2>4. \A w, o, a, c \in Nat : w + o <= a + 1 - c => w <= a + 1
    OBVIOUS
  <2>5. Outstanding \in Nat /\ Credit \in Nat
    BY OutstandingType, CreditType
  <2> HIDE DEF W, n
  <2> QED BY ONLY <2>1, <2>2, <2>3, <2>4, <2>5
<1>3. W <= n
  <2> SUFFICES ASSUME ~(W <= n) PROVE FALSE
    OBVIOUS
  <2> DEFINE d == W - (n + 1)
  <2>1. d \in Nat /\ n \in Nat /\ W = (n + 1) + d
    BY <1>1
  <2>2. Round \in Nat /\ Round >= 2
    BY RoundTimes
  <2> HIDE DEF W, n, d, Round
  <2>3. Round * ((n + 1) + d) = Round * n + Round + Round * d
    BY <2>1, <2>2
  <2>4. Round * d \in Nat /\ Round * n \in Nat
    BY <2>1, <2>2
  <2> QED BY <1>2, <2>1, <2>2, <2>3, <2>4
<1> QED BY <1>1, <1>3, LenInitial DEF QueueBounded

(* The queue, a stack on which the reads are put whether the last one was    *)
(* sent or not, does not grow but for what browsers ask, whatever goes wrong *)
(* with the link: a request is sent every MaxDelay + 1 ticks as long as one  *)
(* waits, and at most two are queued in ReadEvery.                           *)
THEOREM QueueStaysShort ==
    ASSUME 2 * (MaxDelay + 1) <= ReadEvery
    PROVE  TimedSpec => []QueueBounded
<1> DEFINE Inv == ClockInv /\ WorkInv /\ QueueBounded
<1>0. 2 * Round <= ReadEvery
  BY DEF Round
<1>1. TimedInit => Inv
  <2> SUFFICES ASSUME TimedInit PROVE Inv
    OBVIOUS
  <2>1. /\ Init /\ phase = 0 /\ due = {} /\ waited = 0 /\ puts = 0 /\ wire = <<>>
        /\ modbus_queue = Initial /\ delay \in 1..MaxDelay
    BY DEF TimedInit, Init
  <2>2. ClockInv
    BY <2>1, TimingAssumption DEF ClockInv
  <2>3. Weight(Initial) = 4
    <3>1. \A i \in 1..4 : Initial[i].fc = "write"
      BY DEF Initial, Write
    <3>2. DOMAIN Initial = 1..4
      BY DEF Initial
    <3>3. Reads(Initial) = {}
      BY <3>1, <3>2 DEF Reads
    <3> QED BY <3>3, LenInitial, FS_EmptySet DEF Weight
  <2>4. WorkInv
    <3>1. Credit = 0
      BY <2>1, RoundTimes DEF Credit, Progress
    <3>2. Outstanding = 1
      BY <2>1 DEF Outstanding
    <3>3. Work = Round * 4 + 1 /\ Allowed = Round * 4 + 1
      BY <2>1, <2>3, <3>2 DEF Work, Allowed
    <3>4. Round * 4 \in Nat
      BY RoundTimes
    <3> QED BY <3>1, <3>3, <3>4 DEF WorkInv
  <2>5. QueueBounded
    BY <2>1, LenInitial DEF QueueBounded
  <2> QED BY <2>2, <2>4, <2>5
<1>2. TypeOK /\ TypeOK' /\ OneOutstanding /\ Inv /\ [TimedNext]_timedVars => Inv'
  <2> SUFFICES ASSUME TypeOK, TypeOK', OneOutstanding, Inv, [TimedNext]_timedVars
               PROVE  Inv'
    OBVIOUS
  <2>1. ClockInv'
    BY ClockStep
  <2>2. WorkInv'
    BY <1>0, <2>1, WorkStep
  <2>3. QueueBounded'
    <3>1. CASE up'
      <4>1. (TypeOK /\ ClockInv /\ WorkInv /\ up => QueueBounded)'
        BY WorkBounds, PTL
      <4> QED BY <2>1, <2>2, <3>1, <4>1
    <3>2. CASE ~up'
      <4>1. modbus_queue' = modbus_queue /\ (puts' = puts \/ puts' = puts + 1)
        BY <3>2, TimedStep, QueueStays
      <4>2. puts \in Nat /\ Len(modbus_queue) \in Nat
        BY DEF TypeOK
      <4> QED BY <4>1, <4>2, LenInitial DEF QueueBounded
    <3> QED BY <3>1, <3>2
  <2> QED BY <2>1, <2>2, <2>3
<1> QED BY <1>1, <1>2, TimersAside, Typing, OneAtATime, PTL DEF TimedSpec
=============================================================================
