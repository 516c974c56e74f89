---------------------------- MODULE Workout_proofs ----------------------------
(***************************************************************************)
(* What holds of the workout of the old web server for any lists that      *)
(* browsers put, any time the passes of the main loop take, and wherever   *)
(* the two threads get between each other's loads and stores.              *)
(***************************************************************************)
EXTENDS Workout, SequenceTheorems, TLAPS

-----------------------------------------------------------------------------
(* The fields of T_WORKOUT and what may be stored in them. *)

Data      == {"warmup_speed", "warmup_duration", "low_speed", "low_duration", "high_speed",
              "high_duration", "repeats", "warmdown_speed", "warmdown_duration"}
AllFields == Data \union {"running_state", "running_timer", "next_transition", "sequence",
                          "interval_counter"}

Value(f) == CASE f = "running_state"    -> RunStates
              [] f = "sequence"         -> Sections
              [] f \in {"running_timer", "next_transition"} -> 0..(TimerSize - 1)
              [] f = "interval_counter" -> Nat
              [] f \in Data             -> Int

Stores == UNION {{f} \X Value(f) : f \in AllFields}

LEMMA StoreIs == \A p : p \in Stores <=> \E f \in AllFields : \E v \in Value(f) : p = <<f, v>>
BY DEF Stores

LEMMA Values ==
    /\ Value("running_state") = RunStates
    /\ Value("sequence") = Sections
    /\ Value("running_timer") = 0..(TimerSize - 1)
    /\ Value("next_transition") = 0..(TimerSize - 1)
    /\ Value("interval_counter") = Nat
    /\ \A f \in Data : Value(f) = Int
BY DEF Value, Data

LEMMA FieldsAre ==
    /\ DOMAIN Fields = 1..9 /\ \A i \in 1..9 : Fields[i] \in Data
    /\ Data \subseteq AllFields
<1>1. DOMAIN Fields = 1..9
  BY DEF Fields
<1>2. \A i \in 1..9 : Fields[i] \in Data
  <2> SUFFICES ASSUME NEW i \in 1..9 PROVE Fields[i] \in Data
    OBVIOUS
  <2>1. i = 1 \/ i = 2 \/ i = 3 \/ i = 4 \/ i = 5 \/ i = 6 \/ i = 7 \/ i = 8 \/ i = 9
    OBVIOUS
  <2> QED BY <2>1 DEF Fields, Data
<1> QED BY <1>1, <1>2 DEF AllFields

IsWorkout(w) ==
    /\ w = [f \in AllFields |-> w[f]]
    /\ \A f \in AllFields : w[f] \in Value(f)

IsQueue(q) ==
    /\ q \in Seq(SUBSET Stores)
    /\ \A i \in DOMAIN q : q[i] # {}

TypeInv ==
    /\ IsWorkout(workout)
    /\ new_demand_speed \in Int
    /\ IsQueue(http)
    /\ requests \in 0..MaxRequests
    /\ pc \in {"sleep", "speed", "load", "add", "compare", "advance", "commit"}
    /\ timer \in 0..(TimerSize - 1)
    /\ main \in SUBSET Stores
    /\ since \in Nat
    /\ done \in Seq([section : Sections, lasted : BOOLEAN])

LEMMA WorkoutFields ==
    ASSUME NEW w, IsWorkout(w)
    PROVE  /\ DOMAIN w = AllFields
           /\ w["running_state"] \in RunStates /\ w["sequence"] \in Sections
           /\ w["running_timer"] \in 0..(TimerSize - 1)
           /\ w["next_transition"] \in 0..(TimerSize - 1)
           /\ w["interval_counter"] \in Nat
           /\ \A f \in Data : w[f] \in Int
<1>1. DOMAIN w = AllFields
  BY Zenon DEF IsWorkout
<1>2. \A f \in AllFields : w[f] \in Value(f)
  BY DEF IsWorkout
<1>3. /\ "running_state" \in AllFields /\ "sequence" \in AllFields
      /\ "running_timer" \in AllFields /\ "next_transition" \in AllFields
      /\ "interval_counter" \in AllFields /\ Data \subseteq AllFields
  BY DEF AllFields
<1> QED BY <1>1, <1>2, <1>3, Values

(* A store of a pair changes one field. *)
LEMMA WorkoutStore ==
    ASSUME NEW w, IsWorkout(w), NEW p \in Stores
    PROVE  /\ IsWorkout([w EXCEPT ![p[1]] = p[2]])
           /\ \A f \in AllFields :
                  [w EXCEPT ![p[1]] = p[2]][f] = IF f = p[1] THEN p[2] ELSE w[f]
<1> DEFINE u == [w EXCEPT ![p[1]] = p[2]]
<1>1. p[1] \in AllFields /\ p[2] \in Value(p[1])
  BY StoreIs
<1>2. DOMAIN w = AllFields
  BY WorkoutFields
<1>3. u = [f \in AllFields |-> IF f = p[1] THEN p[2] ELSE w[f]]
  BY <1>1, <1>2
<1> HIDE DEF u
<1>4. \A f \in AllFields : u[f] = IF f = p[1] THEN p[2] ELSE w[f]
  BY <1>3
<1>5. u = [f \in AllFields |-> u[f]]
  BY <1>3, <1>4
<1>6. \A f \in AllFields : u[f] \in Value(f)
  BY <1>1, <1>4 DEF IsWorkout
<1> QED BY <1>4, <1>5, <1>6 DEF IsWorkout, u

(* The first set of the queue loses a store, or is done with. *)
LEMMA QueueStore ==
    ASSUME NEW q, IsQueue(q), q # <<>>, NEW p \in Head(q)
    PROVE  /\ p \in Stores
           /\ Head(q) = {p} => IsQueue(Tail(q))
           /\ Head(q) # {p} => IsQueue([q EXCEPT ![1] = @ \ {p}])
<1>1. q \in Seq(SUBSET Stores) /\ \A i \in DOMAIN q : q[i] # {}
  BY DEF IsQueue
<1>2. /\ Len(q) \in Nat /\ Len(q) >= 1 /\ DOMAIN q = 1..Len(q) /\ Head(q) = q[1]
      /\ Head(q) \in SUBSET Stores
      /\ Tail(q) \in Seq(SUBSET Stores) /\ Len(Tail(q)) = Len(q) - 1
      /\ \A i \in 1..(Len(q) - 1) : Tail(q)[i] = q[i + 1]
  BY <1>1
<1>3. IsQueue(Tail(q))
  <2>1. DOMAIN Tail(q) = 1..(Len(q) - 1)
    BY <1>2
  <2>2. \A i \in DOMAIN Tail(q) : Tail(q)[i] # {}
    <3> SUFFICES ASSUME NEW i \in DOMAIN Tail(q) PROVE Tail(q)[i] # {}
      OBVIOUS
    <3>1. i \in 1..(Len(q) - 1) /\ i + 1 \in 1..Len(q)
      BY <1>2, <2>1
    <3> QED BY <1>1, <1>2, <3>1
  <2> QED BY <1>2, <2>2 DEF IsQueue
<1>4. ASSUME Head(q) # {p} PROVE IsQueue([q EXCEPT ![1] = @ \ {p}])
  <2> DEFINE u == [q EXCEPT ![1] = @ \ {p}]
  <2>1. /\ u \in Seq(SUBSET Stores) /\ DOMAIN u = DOMAIN q
        /\ u[1] = Head(q) \ {p} /\ \A i \in DOMAIN q : i # 1 => u[i] = q[i]
    <3>1. q[1] \ {p} \in SUBSET Stores
      BY <1>2
    <3>2. u = [q EXCEPT ![1] = q[1] \ {p}]
      OBVIOUS
    <3> HIDE DEF u
    <3> QED BY <1>1, <1>2, <3>1, <3>2
  <2>2. Head(q) \ {p} # {}
    BY <1>4
  <2> HIDE DEF u
  <2>3. IsQueue(u)
    BY <1>1, <2>1, <2>2 DEF IsQueue
  <2> QED BY <2>3 DEF u
<1> QED BY <1>2, <1>3, <1>4

LEMMA TypeInit == Init => TypeInv
<1> SUFFICES ASSUME Init PROVE TypeInv
  OBVIOUS
<1>1. \A i \in 1..9 : Loaded[i] \in Int
  <2>1. Loaded \in Seq(Int) /\ Len(Loaded) = 9
    BY WorkoutAssumption, Zenon
  <2>2. \A i \in 1..Len(Loaded) : Loaded[i] \in Int
    BY <2>1, ElementOfSeq
  <2> QED BY <2>1, <2>2, Zenon
<1>2. 0 \in 0..(TimerSize - 1)
  BY WorkoutAssumption
<1>3. IsWorkout(workout)
  <2>1. workout = [running_state |-> "initial", running_timer |-> 0, next_transition |-> 0,
                   sequence |-> "warmup", interval_counter |-> 0,
                   warmup_speed |-> Loaded[1], warmup_duration |-> Loaded[2],
                   low_speed |-> Loaded[3], low_duration |-> Loaded[4],
                   high_speed |-> Loaded[5], high_duration |-> Loaded[6],
                   repeats |-> Loaded[7],
                   warmdown_speed |-> Loaded[8], warmdown_duration |-> Loaded[9]]
    BY DEF Init
  <2>2. DOMAIN workout = AllFields
    BY <2>1 DEF AllFields, Data
  <2>3. workout = [f \in AllFields |-> workout[f]]
    BY <2>1, <2>2
  <2>4. /\ workout["running_state"] \in RunStates /\ workout["sequence"] \in Sections
        /\ workout["running_timer"] \in 0..(TimerSize - 1)
        /\ workout["next_transition"] \in 0..(TimerSize - 1)
        /\ workout["interval_counter"] \in Nat
    BY <1>2, <2>1 DEF RunStates, Sections
  <2>5. \A f \in Data : workout[f] \in Int
    BY <1>1, <2>1 DEF Data
  <2>6. \A f \in AllFields : workout[f] \in Value(f)
    BY <2>4, <2>5, Values DEF AllFields
  <2> QED BY <2>3, <2>6 DEF IsWorkout
<1>4. IsQueue(http)
  BY DEF Init, IsQueue
<1>5. /\ new_demand_speed = 0 /\ requests = 0 /\ pc = "sleep" /\ timer = 0
      /\ main = {} /\ since = 0 /\ done = <<>>
  BY Zenon DEF Init
<1>6. requests \in 0..MaxRequests
  BY <1>5, WorkoutAssumption
<1>7. done \in Seq([section : Sections, lasted : BOOLEAN])
  BY <1>5
<1>8. timer \in 0..(TimerSize - 1) /\ new_demand_speed \in Int /\ since \in Nat
  BY <1>2, <1>5
<1>9. main \in SUBSET Stores
         /\ pc \in {"sleep", "speed", "load", "add", "compare", "advance", "commit"}
  BY <1>5
<1> QED BY <1>3, <1>4, <1>6, <1>7, <1>8, <1>9, Zenon DEF TypeInv

(* What Load and Reset are about to store. *)
LEMMA LoadTyped ==
    ASSUME NEW list \in Lists
    PROVE  IsQueue([i \in DOMAIN list |-> {<<Fields[i], list[i]>>}])
<1> DEFINE q == [i \in DOMAIN list |-> {<<Fields[i], list[i]>>}]
<1>1. list \in Seq(Int) /\ Len(list) \in Nat /\ Len(list) <= 9 /\ DOMAIN list = 1..Len(list)
  BY WorkoutAssumption
<1>2. \A i \in 1..Len(list) : <<Fields[i], list[i]>> \in Stores
  <2> SUFFICES ASSUME NEW i \in 1..Len(list) PROVE <<Fields[i], list[i]>> \in Stores
    OBVIOUS
  <2>1. Fields[i] \in Data /\ list[i] \in Int
    BY <1>1, FieldsAre
  <2>2. Fields[i] \in AllFields /\ list[i] \in Value(Fields[i])
    BY <2>1, FieldsAre, Values
  <2> QED BY <2>2, StoreIs
<1>3. q \in Seq(SUBSET Stores)
  <2>1. q = [i \in 1..Len(list) |-> {<<Fields[i], list[i]>>}]
    BY <1>1
  <2>2. \A i \in 1..Len(list) : {<<Fields[i], list[i]>>} \in SUBSET Stores
    BY <1>2
  <2> QED BY <1>1, <2>1, <2>2
<1>4. \A i \in DOMAIN q : q[i] # {}
  OBVIOUS
<1> QED BY <1>3, <1>4 DEF IsQueue

LEMMA WarmupDue ==
    ASSUME IsWorkout(workout)
    PROVE  (workout.warmup_duration * SECOND) % TimerSize \in 0..(TimerSize - 1)
<1>1. workout.warmup_duration \in Int
  BY WorkoutFields DEF Data
<1>2. workout.warmup_duration * SECOND \in Int
  BY <1>1, WorkoutAssumption
<1> QED BY <1>2, WorkoutAssumption

LEMMA OneSet ==
    ASSUME NEW S \in SUBSET Stores, S # {}
    PROVE  IsQueue(<<S>>)
<1>1. <<S>> \in Seq(SUBSET Stores) /\ \A i \in DOMAIN <<S>> : <<S>>[i] = S
  OBVIOUS
<1> QED BY <1>1 DEF IsQueue

LEMMA ResetTyped ==
    ASSUME IsWorkout(workout)
    PROVE  IsQueue(<<{<<"running_state", "initial">>, <<"running_timer", 0>>,
                      <<"sequence", "warmup">>,
                      <<"next_transition", (workout.warmup_duration * SECOND) % TimerSize>>,
                      <<"interval_counter", 0>>}>>)
<1> DEFINE due == (workout.warmup_duration * SECOND) % TimerSize
           S == {<<"running_state", "initial">>, <<"running_timer", 0>>,
                 <<"sequence", "warmup">>, <<"next_transition", due>>,
                 <<"interval_counter", 0>>}
<1>1. due \in 0..(TimerSize - 1)
  BY WarmupDue
<1> HIDE DEF due
<1>2. /\ "running_state" \in AllFields /\ "sequence" \in AllFields
      /\ "running_timer" \in AllFields /\ "next_transition" \in AllFields
      /\ "interval_counter" \in AllFields
  BY DEF AllFields
<1>3. /\ "initial" \in Value("running_state") /\ 0 \in Value("running_timer")
      /\ "warmup" \in Value("sequence") /\ due \in Value("next_transition")
      /\ 0 \in Value("interval_counter")
  BY <1>1, Values, WorkoutAssumption DEF RunStates, Sections
<1>4. S \in SUBSET Stores /\ S # {}
  BY <1>2, <1>3, StoreIs
<1> HIDE DEF S
<1>5. IsQueue(<<S>>)
  BY <1>4, OneSet
<1> QED BY <1>5 DEF S, due

LEMMA SpeedDuration ==
    ASSUME IsWorkout(workout), NEW s \in Sections
    PROVE  Speed[s] \in Int /\ Duration[s] \in Int
<1>1. \A f \in Data : workout[f] \in Int
  BY WorkoutFields
<1> QED BY <1>1 DEF Speed, Duration, Sections, Data

LEMMA DueType ==
    ASSUME IsWorkout(workout), NEW s \in Sections, NEW t \in Int
    PROVE  Due(t, s) \in 0..(TimerSize - 1)
<1>1. Duration[s] \in Int /\ SECOND \in Int
  BY SpeedDuration, WorkoutAssumption
<1>2. t + Duration[s] * SECOND \in Int
  BY <1>1
<1> QED BY <1>2, WorkoutAssumption DEF Due

LEMMA PairTyped ==
    /\ \A s \in Sections : <<"sequence", s>> \in Stores
    /\ \A t \in 0..(TimerSize - 1) : <<"next_transition", t>> \in Stores
    /\ \A n \in Nat : <<"interval_counter", n>> \in Stores
    /\ \A s \in RunStates : <<"running_state", s>> \in Stores
<1>1. /\ "running_state" \in AllFields /\ "sequence" \in AllFields
      /\ "next_transition" \in AllFields /\ "interval_counter" \in AllFields
  BY DEF AllFields
<1> QED BY <1>1, Values, StoreIs

LEMMA TypeBrowser == TypeInv /\ Browser => TypeInv'
<1> SUFFICES ASSUME TypeInv, Browser PROVE TypeInv'
  OBVIOUS
<1>1. UNCHANGED <<workout, pc, timer, main>> /\ requests' \in 0..MaxRequests
  <2>1. Request
    BY DEF Browser, SetDemand, Load, Reset, RunOrPause
  <2> QED BY <2>1, WorkoutAssumption DEF Request, TypeInv
<1>2. new_demand_speed' \in Int
  BY WorkoutAssumption DEF Browser, SetDemand, Load, Reset, RunOrPause, TypeInv
<1>3. IsQueue(http')
  <2>1. CASE SetDemand
    BY <2>1 DEF SetDemand, TypeInv
  <2>2. CASE Load
    BY <2>2, LoadTyped DEF Load
  <2>3. CASE Reset
    BY <2>3, ResetTyped DEF Reset, TypeInv
  <2>4. CASE RunOrPause
    <3>1. PICK s \in {"running", "paused"} : http' = <<{<<"running_state", s>>}>>
      BY <2>4 DEF RunOrPause
    <3>2. <<"running_state", s>> \in Stores
      BY PairTyped DEF RunStates
    <3> QED BY <3>1, <3>2, OneSet
  <2> QED BY <2>1, <2>2, <2>3, <2>4 DEF Browser
<1>4. since' \in Nat /\ done' \in Seq([section : Sections, lasted : BOOLEAN])
  <2>1. CASE SetDemand \/ RunOrPause
    BY <2>1 DEF SetDemand, RunOrPause, TypeInv, ghosts
  <2>2. CASE Load \/ Reset
    <3>1. since' = 0 /\ done' = <<>>
      BY <2>2, Zenon DEF Load, Reset
    <3> QED BY <3>1
  <2> QED BY <2>1, <2>2 DEF Browser
<1> QED BY <1>1, <1>2, <1>3, <1>4 DEF TypeInv

LEMMA EndedTyped ==
    ASSUME TypeInv
    PROVE  Ended \in Seq([section : Sections, lasted : BOOLEAN])
<1> DEFINE d == [section |-> workout.sequence,
                 lasted |-> since >= Duration[workout.sequence] * SECOND]
<1>1. workout.sequence \in Sections
  BY WorkoutFields DEF TypeInv
<1>2. d \in [section : Sections, lasted : BOOLEAN]
  BY <1>1
<1>3. done \in Seq([section : Sections, lasted : BOOLEAN]) /\ Ended = Append(done, d)
  BY DEF TypeInv, Ended
<1> HIDE DEF d
<1> QED BY <1>2, <1>3

LEMMA EnterTyped ==
    ASSUME TypeInv, NEW s \in Sections, NEW counted \in SUBSET Stores, Enter(s, counted)
    PROVE  /\ main' \in SUBSET Stores /\ pc' = "commit" /\ since' \in Nat
           /\ done' \in Seq([section : Sections, lasted : BOOLEAN])
<1>1. PICK t \in Timers :
          main' = {<<"sequence", s>>, <<"next_transition", Due(t, s)>>} \union counted
  BY DEF Enter
<1>2. t \in Int
  BY WorkoutFields DEF Timers, TypeInv
<1>3. <<"sequence", s>> \in Stores /\ <<"next_transition", Due(t, s)>> \in Stores
  BY <1>2, PairTyped, DueType DEF TypeInv
<1>4. done' = Ended \/ done' = done
  BY Zenon DEF Enter
<1>5. pc' = "commit" /\ since' = 0
  BY DEF Enter
<1> QED BY <1>1, <1>3, <1>4, <1>5, EndedTyped DEF TypeInv

LEMMA TypeAdvance == TypeInv /\ Advance => TypeInv'
<1> SUFFICES ASSUME TypeInv, Advance PROVE TypeInv'
  OBVIOUS
<1>1. UNCHANGED <<workout, new_demand_speed, http, requests>> /\ timer' = 0
  BY DEF Advance, browsers
<1>2. timer' \in 0..(TimerSize - 1)
  BY <1>1, WorkoutAssumption
<1>3. /\ main' \in SUBSET Stores /\ since' \in Nat
      /\ pc' \in {"sleep", "commit"}
      /\ done' \in Seq([section : Sections, lasted : BOOLEAN])
  <2>1. CASE Stay
    BY <2>1 DEF Stay, TypeInv
  <2>2. CASE Finish
    <3>1. done' = Ended \/ done' = done
      BY <2>2, Zenon DEF Finish
    <3>2. main' = {<<"running_state", "finished">>} /\ pc' = "commit" /\ since' = since
      BY <2>2 DEF Finish
    <3>3. <<"running_state", "finished">> \in Stores
      BY PairTyped DEF RunStates
    <3> QED BY <3>1, <3>2, <3>3, EndedTyped DEF TypeInv
  <2>3. CASE \E s \in Sections, n \in Nat :
                 Enter(s, {}) \/ Enter(s, {<<"interval_counter", n>>})
    <3>1. PICK s \in Sections, n \in Nat :
              Enter(s, {}) \/ Enter(s, {<<"interval_counter", n>>})
      BY <2>3
    <3>2. {} \in SUBSET Stores /\ {<<"interval_counter", n>>} \in SUBSET Stores
      BY PairTyped
    <3> QED BY <3>1, <3>2, EnterTyped
  <2>4. workout.interval_counter + 1 \in Nat /\ 0 \in Nat
    BY WorkoutFields DEF TypeInv
  <2> QED BY <2>1, <2>2, <2>3, <2>4 DEF Advance, RoundCounted, Sections
<1> QED BY <1>1, <1>2, <1>3 DEF TypeInv

LEMMA TypeStep == TypeInv /\ [Next]_vars => TypeInv'
<1> SUFFICES ASSUME TypeInv, [Next]_vars PROVE TypeInv'
  OBVIOUS
<1>1. CASE HttpStore
  <2>1. http # <<>> /\ UNCHANGED <<new_demand_speed, requests, pc, timer, main, since, done>>
    BY <1>1 DEF HttpStore, ghosts
  <2>2. PICK s \in Head(http) :
            /\ workout' = [workout EXCEPT ![s[1]] = s[2]]
            /\ http' = IF Head(http) = {s} THEN Tail(http)
                       ELSE [http EXCEPT ![1] = @ \ {s}]
    BY <1>1 DEF HttpStore
  <2>3. s \in Stores /\ IsQueue(http')
    BY <2>1, <2>2, QueueStore DEF TypeInv
  <2>4. IsWorkout(workout')
    BY <2>2, <2>3, WorkoutStore DEF TypeInv
  <2> QED BY <2>1, <2>3, <2>4 DEF TypeInv
<1>2. CASE Check
  BY <1>2 DEF Check, TypeInv, browsers
<1>3. CASE SetSpeed
  <2>1. new_demand_speed' \in Int
    BY <1>3, WorkoutFields, SpeedDuration DEF SetSpeed, TypeInv
  <2> QED BY <1>3, <2>1 DEF SetSpeed, TypeInv, browsers, ghosts
<1>4. CASE \E ms \in Elapsed : LoadTimer(ms)
  <2>1. PICK ms \in Elapsed : LoadTimer(ms)
    BY <1>4
  <2>2. timer' \in 0..(TimerSize - 1)
    <3>1. workout.running_timer + ms \in Int
      BY WorkoutFields, WorkoutAssumption DEF TypeInv
    <3> QED BY <2>1, <3>1, WorkoutAssumption DEF LoadTimer, Added
  <2>3. since' \in Nat
    <3>1. since' = since \/ since' = since + ms
      BY <2>1 DEF LoadTimer
    <3> QED BY <3>1, WorkoutAssumption DEF TypeInv
  <2> QED BY <2>1, <2>2, <2>3 DEF LoadTimer, TypeInv, browsers
<1>5. CASE StoreTimer
  <2>1. workout' = [workout EXCEPT !["running_timer"] = timer]
    BY <1>5 DEF StoreTimer
  <2>2. <<"running_timer", timer>> \in Stores
    BY Values, StoreIs DEF AllFields, TypeInv
  <2> DEFINE p == <<"running_timer", timer>>
  <2>3. IsWorkout([workout EXCEPT ![p[1]] = p[2]])
    BY <2>2, WorkoutStore DEF TypeInv
  <2>4. IsWorkout(workout')
    BY <2>1, <2>3
  <2> QED BY <1>5, <2>4 DEF StoreTimer, TypeInv, browsers, ghosts
<1>6. CASE Compare
  <2>1. timer' \in 0..(TimerSize - 1) /\ pc' \in {"advance", "sleep"}
    BY <1>6, WorkoutAssumption DEF Compare, TypeInv
  <2> QED BY <1>6, <2>1 DEF Compare, TypeInv, browsers, ghosts
<1>7. CASE MainStore
  <2>1. PICK s \in main : /\ workout' = [workout EXCEPT ![s[1]] = s[2]]
                          /\ main' = main \ {s}
                          /\ pc' = IF main = {s} THEN "sleep" ELSE "commit"
    BY <1>7 DEF MainStore
  <2>2. s \in Stores
    BY DEF TypeInv
  <2>3. IsWorkout(workout')
    BY <2>1, <2>2, WorkoutStore DEF TypeInv
  <2> QED BY <1>7, <2>1, <2>3 DEF MainStore, TypeInv, browsers, ghosts
<1>8. CASE UNCHANGED vars
  BY <1>8 DEF vars, browsers, ghosts, TypeInv
<1> QED BY <1>1, <1>2, <1>3, <1>4, <1>5, <1>6, <1>7, <1>8, TypeBrowser, TypeAdvance
        DEF Next, Pass

LEMMA CleanStep == clean \in BOOLEAN /\ [Next]_vars => (clean \in BOOLEAN)'
BY Zenon DEF Next, Browser, SetDemand, Load, Reset, RunOrPause, HttpStore, Pass, Check,
   SetSpeed, LoadTimer, StoreTimer, Compare, Advance, MainStore, vars, ghosts

(* Whatever the threads do to each other, no field gets a value that is not  *)
(* one of its own.                                                           *)
THEOREM Typing == Spec => []TypeOK
<1>1. Init => clean \in BOOLEAN
  BY Zenon DEF Init
<1>2. TypeInv /\ clean \in BOOLEAN => TypeOK
  BY WorkoutFields, FieldsAre DEF TypeInv, TypeOK
<1> QED BY <1>1, <1>2, TypeInit, TypeStep, CleanStep, PTL DEF Spec

-----------------------------------------------------------------------------
(* What the two threads are about to store. *)

(* While a workout is clean, the browsers' thread is about to store a state  *)
(* of RunOrPause or a reset, and then the main thread sleeps.                *)
ResetPair(p) == \/ p = <<"running_state", "initial">>
                \/ p[1] \in {"running_timer", "sequence", "next_transition", "interval_counter"}
RunPair(p)   == p[1] = "running_state" /\ p # <<"running_state", "initial">>

HttpInv ==
    clean /\ http # <<>> =>
        /\ Len(http) = 1
        /\ \/ \A p \in Head(http) : RunPair(p)
           \/ /\ \A p \in Head(http) : ResetPair(p)
              /\ pc = "sleep" /\ done = <<>> /\ since = 0

MainInv ==
    main # {} =>
        /\ pc = "commit"
        /\ \A p \in main : p[1] \in {"sequence", "next_transition", "interval_counter",
                                     "running_state"}

HttpPending == IF http = <<>> THEN {} ELSE Head(http)
Pending     == main \union HttpPending

(* Field f has value v as soon as what is pending is stored. *)
Will(f, v) ==
    /\ \A p \in Pending : p[1] = f => p[2] = v
    /\ <<f, v>> \in Pending \/ workout[f] = v

LEMMA MainStep == MainInv /\ [Next]_vars => MainInv'
<1> SUFFICES ASSUME MainInv, [Next]_vars PROVE MainInv'
  OBVIOUS
<1>1. CASE MainStore
  <2>1. PICK s \in main : main' = main \ {s} /\ pc' = IF main = {s} THEN "sleep" ELSE "commit"
    BY <1>1 DEF MainStore
  <2> QED BY <2>1 DEF MainInv
<1>2. CASE Advance
  <2>1. main = {} /\ pc = "advance"
    BY <1>2 DEF Advance, MainInv
  <2>2. CASE Stay
    BY <2>1, <2>2 DEF Stay, MainInv
  <2>3. CASE Finish
    <3>1. main' = {<<"running_state", "finished">>} /\ pc' = "commit"
      BY <2>3 DEF Finish
    <3> QED BY <3>1 DEF MainInv
  <2>4. CASE \E s, n : Enter(s, {}) \/ Enter(s, {<<"interval_counter", n>>})
    <3>1. PICK s, n : Enter(s, {}) \/ Enter(s, {<<"interval_counter", n>>})
      BY <2>4
    <3>2. \E t : main' \in {{<<"sequence", s>>, <<"next_transition", Due(t, s)>>},
                            {<<"sequence", s>>, <<"next_transition", Due(t, s)>>,
                             <<"interval_counter", n>>}}
      BY <3>1 DEF Enter
    <3>3. pc' = "commit"
      BY <3>1 DEF Enter
    <3> QED BY <3>2, <3>3 DEF MainInv
  <2> QED BY <1>2, <2>2, <2>3, <2>4 DEF Advance, RoundCounted
<1>3. CASE UNCHANGED main /\ (pc = "commit" => pc' = "commit")
  BY <1>3 DEF MainInv
<1>4. CASE Browser
  BY <1>3, <1>4 DEF Browser, SetDemand, Load, Reset, RunOrPause, Request
<1>5. CASE HttpStore \/ Check \/ SetSpeed \/ StoreTimer \/ Compare \/ UNCHANGED vars
  BY <1>3, <1>5 DEF HttpStore, Check, SetSpeed, StoreTimer, Compare, vars, ghosts
<1>6. CASE \E ms \in Elapsed : LoadTimer(ms)
  BY <1>3, <1>6 DEF LoadTimer
<1> QED BY <1>1, <1>2, <1>4, <1>5, <1>6 DEF Next, Pass

LEMMA HttpKept ==
    ASSUME HttpInv, clean' => clean, http' = http,
           UNCHANGED <<pc, done, since>> \/ (clean' => ~Resetting)
    PROVE  HttpInv'
<1> SUFFICES ASSUME clean', http # <<>>
             PROVE  /\ Len(http) = 1
                    /\ \/ \A p \in Head(http) : RunPair(p)
                       \/ /\ \A p \in Head(http) : ResetPair(p)
                          /\ pc' = "sleep" /\ done' = <<>> /\ since' = 0
  BY DEF HttpInv
<1>1. clean
  BY Zenon
<1>2. /\ Len(http) = 1
      /\ \/ \A p \in Head(http) : RunPair(p)
         \/ /\ \A p \in Head(http) : ResetPair(p)
            /\ pc = "sleep" /\ done = <<>> /\ since = 0
  BY <1>1 DEF HttpInv
<1>3. CASE UNCHANGED <<pc, done, since>>
  BY <1>2, <1>3
<1>4. CASE ~Resetting
  <2>1. \A p \in Head(http) : ~ResetPair(p)
    BY <1>4, Zenon DEF Resetting, ResetPair
  <2>2. (\A p \in Head(http) : ResetPair(p)) => \A p \in Head(http) : RunPair(p)
    BY <2>1
  <2> QED BY <1>2, <2>2
<1> QED BY <1>3, <1>4, Zenon

LEMMA HttpStep == TypeInv /\ HttpInv /\ [Next]_vars => HttpInv'
<1> SUFFICES ASSUME TypeInv, HttpInv, [Next]_vars PROVE HttpInv'
  OBVIOUS
<1>1. CASE HttpStore
  <2>1. http # <<>> /\ UNCHANGED <<pc, clean, since, done>>
    BY <1>1 DEF HttpStore, ghosts
  <2>2. PICK s \in Head(http) :
            http' = IF Head(http) = {s} THEN Tail(http) ELSE [http EXCEPT ![1] = @ \ {s}]
    BY <1>1 DEF HttpStore
  <2> SUFFICES ASSUME clean, http' # <<>> PROVE HttpInv'
    BY <2>1 DEF HttpInv
  <2>3. Len(http) = 1 /\ http \in Seq(SUBSET Stores)
    BY <2>1 DEF HttpInv, TypeInv, IsQueue
  <2>4. Tail(http) = <<>>
    <3>1. Tail(http) \in Seq(SUBSET Stores) /\ Len(Tail(http)) = 0
      BY <2>1, <2>3
    <3> QED BY <3>1, EmptySeq
  <2>5. http' = [http EXCEPT ![1] = @ \ {s}]
    BY <2>2, <2>4
  <2>6. Len(http') = 1 /\ Head(http') = Head(http) \ {s}
    BY <2>3, <2>5
  <2> QED BY <2>1, <2>6 DEF HttpInv
<1>2. CASE SetDemand
  BY <1>2, HttpKept DEF SetDemand, Request, ghosts
<1>3. CASE Load
  BY <1>3 DEF Load, HttpInv
<1>4. CASE Reset
  <2> DEFINE S == {<<"running_state", "initial">>, <<"running_timer", 0>>,
                   <<"sequence", "warmup">>,
                   <<"next_transition", (workout.warmup_duration * SECOND) % TimerSize>>,
                   <<"interval_counter", 0>>}
  <2>1. /\ http' = <<S>> /\ clean' = (pc = "sleep") /\ since' = 0 /\ done' = <<>> /\ pc' = pc
    BY <1>4, Zenon DEF Reset, Request
  <2>2. \A p \in S : ResetPair(p)
    BY DEF ResetPair
  <2> HIDE DEF S
  <2>3. Len(http') = 1 /\ Head(http') = S
    BY <2>1
  <2>4. clean' => pc' = "sleep"
    BY <2>1, Zenon
  <2> QED BY <2>1, <2>2, <2>3, <2>4 DEF HttpInv
<1>5. CASE RunOrPause
  <2>1. PICK s \in {"running", "paused"} : http' = <<{<<"running_state", s>>}>>
    BY <1>5 DEF RunOrPause
  <2>2. Len(http') = 1 /\ Head(http') = {<<"running_state", s>>}
    BY <2>1
  <2>3. RunPair(<<"running_state", s>>)
    BY DEF RunPair
  <2> QED BY <2>2, <2>3 DEF HttpInv
<1>6. CASE Check
  <2>1. http' = http /\ clean' = (clean /\ ~Resetting)
    BY <1>6, Zenon DEF Check, browsers
  <2>2. clean' => clean /\ ~Resetting
    BY <2>1, Zenon
  <2> QED BY <2>1, <2>2, HttpKept
<1>7. CASE UNCHANGED vars
  BY <1>7, HttpKept DEF vars, browsers, ghosts
<1>8. CASE SetSpeed \/ (\E ms \in Elapsed : LoadTimer(ms)) \/ StoreTimer \/ Compare
           \/ Advance \/ MainStore
  <2>1. http' = http /\ clean' = clean /\ pc # "sleep"
    BY <1>8, Zenon DEF SetSpeed, LoadTimer, StoreTimer, Compare, Advance, MainStore,
                browsers, ghosts
  <2>2. clean => ~Resetting
    <3> SUFFICES ASSUME clean, http # <<>> PROVE \A p \in Head(http) : ~ResetPair(p)
      BY Zenon DEF Resetting, ResetPair
    <3>1. \A p \in Head(http) : RunPair(p)
      BY <2>1 DEF HttpInv
    <3> QED BY <3>1 DEF RunPair, ResetPair
  <2> QED BY <2>1, <2>2, HttpKept
<1> QED BY <1>1, <1>2, <1>3, <1>4, <1>5, <1>6, <1>7, <1>8 DEF Next, Browser, Pass

Controls == {"running_state", "running_timer", "sequence", "next_transition",
             "interval_counter"}

LEMMA FieldParts ==
    /\ AllFields = Data \union Controls
    /\ \A f \in Data : f \notin Controls
    /\ "repeats" \in Data
BY DEF AllFields, Data, Controls

LEMMA PendingFields ==
    ASSUME HttpInv, MainInv, clean, NEW p \in Pending
    PROVE  p[1] \in Controls
<1>1. CASE p \in main
  BY <1>1 DEF MainInv, Controls
<1>2. CASE http # <<>> /\ p \in Head(http)
  <2>1. RunPair(p) \/ ResetPair(p)
    BY <1>2 DEF HttpInv
  <2> QED BY <2>1 DEF RunPair, ResetPair, Controls
<1> QED BY <1>1, <1>2 DEF Pending, HttpPending

(* Between passes, and within one, nothing but a state of RunOrPause is      *)
(* pending unless a reset or the end of a pass is being stored.              *)
LEMMA Quiet ==
    ASSUME HttpInv, MainInv, clean, ~Resetting, pc # "commit", NEW p \in Pending
    PROVE  p[1] = "running_state"
<1>1. main = {}
  BY DEF MainInv
<1>2. http # <<>> /\ p \in Head(http)
  BY <1>1 DEF Pending, HttpPending
<1>3. ~ResetPair(p)
  BY <1>2, Zenon DEF Resetting, ResetPair
<1>4. RunPair(p) \/ ResetPair(p)
  BY <1>2 DEF HttpInv
<1> QED BY <1>3, <1>4 DEF RunPair

LEMMA PassQuiet ==
    ASSUME HttpInv, clean, pc # "sleep"
    PROVE  ~Resetting
<1> SUFFICES ASSUME http # <<>> PROVE \A p \in Head(http) : ~ResetPair(p)
  BY Zenon DEF Resetting, ResetPair
<1>1. \A p \in Head(http) : RunPair(p)
  BY DEF HttpInv
<1> QED BY <1>1 DEF RunPair, ResetPair

LEMMA PendingStore ==
    ASSUME TypeInv, HttpInv, clean, HttpStore \/ MainStore
    PROVE  \E p \in Pending :
               /\ workout' = [workout EXCEPT ![p[1]] = p[2]]
               /\ Pending \ {p} \subseteq Pending' /\ Pending' \subseteq Pending
<1>1. CASE MainStore
  <2>1. PICK p \in main : workout' = [workout EXCEPT ![p[1]] = p[2]] /\ main' = main \ {p}
    BY <1>1 DEF MainStore
  <2>2. HttpPending' = HttpPending
    BY <1>1 DEF MainStore, browsers, HttpPending
  <2> QED BY <2>1, <2>2 DEF Pending
<1>2. CASE HttpStore
  <2>1. http # <<>> /\ main' = main
    BY <1>2 DEF HttpStore
  <2>2. PICK p \in Head(http) :
            /\ workout' = [workout EXCEPT ![p[1]] = p[2]]
            /\ http' = IF Head(http) = {p} THEN Tail(http) ELSE [http EXCEPT ![1] = @ \ {p}]
    BY <1>2 DEF HttpStore
  <2>3. Len(http) = 1 /\ http \in Seq(SUBSET Stores)
    BY <2>1 DEF HttpInv, TypeInv, IsQueue
  <2>4. HttpPending' = HttpPending \ {p}
    <3>1. CASE Head(http) = {p}
      <4>1. Tail(http) \in Seq(SUBSET Stores) /\ Len(Tail(http)) = 0
        BY <2>1, <2>3
      <4>2. http' = <<>>
        BY <2>2, <3>1, <4>1, EmptySeq
      <4> QED BY <2>1, <3>1, <4>2 DEF HttpPending
    <3>2. CASE Head(http) # {p}
      <4>1. http' = [http EXCEPT ![1] = @ \ {p}]
        BY <2>2, <3>2
      <4>2. Len(http') = 1 /\ Head(http') = Head(http) \ {p}
        BY <2>3, <4>1
      <4>3. http' # <<>>
        BY <4>2
      <4> QED BY <2>1, <4>2, <4>3 DEF HttpPending
    <3> QED BY <3>1, <3>2
  <2>5. p \in Pending
    BY <2>1 DEF Pending, HttpPending
  <2> QED BY <2>1, <2>2, <2>4, <2>5 DEF Pending
<1> QED BY <1>1, <1>2

LEMMA WillStored ==
    ASSUME TypeInv, HttpInv, clean, HttpStore \/ MainStore,
           NEW f \in AllFields, NEW v, Will(f, v)
    PROVE  Will(f, v)'
<1>1. PICK p \in Pending :
          /\ workout' = [workout EXCEPT ![p[1]] = p[2]]
          /\ Pending \ {p} \subseteq Pending' /\ Pending' \subseteq Pending
  BY PendingStore
<1>2. p \in Stores
  BY DEF Pending, HttpPending, TypeInv, IsQueue
<1>3. workout'[f] = IF f = p[1] THEN p[2] ELSE workout[f]
  BY <1>1, <1>2, WorkoutStore DEF TypeInv
<1>4. \A q \in Pending : q[1] = f => q[2] = v
  BY DEF Will
<1>5. <<f, v>> \in Pending' \/ workout'[f] = v
  <2>1. CASE <<f, v>> \in Pending
    <3>1. CASE p = <<f, v>>
      BY <1>3, <3>1
    <3>2. CASE p # <<f, v>>
      BY <1>1, <2>1, <3>2
    <3> QED BY <3>1, <3>2
  <2>2. CASE workout[f] = v
    BY <1>3, <1>4, <2>2
  <2> QED BY <2>1, <2>2 DEF Will
<1> QED BY <1>1, <1>4, <1>5 DEF Will

LEMMA WillKept ==
    ASSUME NEW f, NEW v, Will(f, v), workout'[f] = workout[f],
           \A p : p[1] = f => (p \in Pending' <=> p \in Pending)
    PROVE  Will(f, v)'
<1>1. <<f, v>>[1] = f
  OBVIOUS
<1> QED BY <1>1 DEF Will

LEMMA WillNow ==
    ASSUME NEW f, NEW v, Will(f, v), \A p \in Pending : p[1] # f
    PROVE  workout[f] = v
<1>1. <<f, v>>[1] = f
  OBVIOUS
<1> QED BY <1>1 DEF Will

(* The steps that leave it as it was which value field f is to have. *)
LEMMA WillStep ==
    ASSUME TypeInv, HttpInv, MainInv, clean, clean', [Next]_vars, ~Reset, ~Advance,
           NEW f \in AllFields \ {"running_state"}, f # "running_timer" \/ ~StoreTimer,
           NEW v, Will(f, v)
    PROVE  Will(f, v)'
<1>1. CASE HttpStore \/ MainStore
  BY <1>1, WillStored
<1>2. CASE UNCHANGED <<workout, main, http>>
  BY <1>2 DEF Will, Pending, HttpPending
<1>3. CASE SetDemand \/ Check \/ SetSpeed \/ (\E ms \in Elapsed : LoadTimer(ms)) \/ Compare
           \/ UNCHANGED vars
  BY <1>2, <1>3, Zenon DEF SetDemand, Request, Check, SetSpeed, LoadTimer, Compare, vars, browsers
<1>4. CASE StoreTimer
  <2>1. workout' = [workout EXCEPT !["running_timer"] = timer]
    BY <1>4 DEF StoreTimer
  <2>2. workout'[f] = workout[f]
    <3>1. workout = [g \in AllFields |-> workout[g]]
      BY DEF TypeInv, IsWorkout
    <3>2. f # "running_timer" /\ f \in AllFields
      BY <1>4
    <3> QED BY <2>1, <3>1, <3>2
  <2>3. Pending' = Pending
    BY <1>4 DEF StoreTimer, Pending, HttpPending, browsers
  <2> QED BY <2>2, <2>3, WillKept
<1>5. CASE RunOrPause
  <2>1. PICK s \in {"running", "paused"} : http' = <<{<<"running_state", s>>}>>
    BY <1>5 DEF RunOrPause
  <2>2. http = <<>> /\ UNCHANGED <<workout, main>>
    BY <1>5 DEF RunOrPause, Request
  <2>3. Pending' = Pending \union {<<"running_state", s>>}
    <3>1. HttpPending = {} /\ HttpPending' = {<<"running_state", s>>}
      BY <2>1, <2>2 DEF HttpPending
    <3> QED BY <2>2, <3>1 DEF Pending
  <2>4. \A p : p[1] = f => (p \in Pending' <=> p \in Pending)
    BY <2>3
  <2> QED BY <2>2, <2>4, WillKept
<1>6. CASE Load
  BY <1>6, Zenon DEF Load
<1> QED BY <1>1, <1>3, <1>4, <1>5, <1>6 DEF Next, Browser, Pass

(* The times, speeds and repeats of a clean workout stay as they are. *)
LEMMA DataKept ==
    ASSUME TypeInv, HttpInv, MainInv, clean, [Next]_vars, NEW f \in Data
    PROVE  workout'[f] = workout[f]
<1>1. f \in AllFields /\ f \notin Controls
  BY FieldParts
<1>2. CASE HttpStore \/ MainStore
  <2>1. PICK p \in Pending : workout' = [workout EXCEPT ![p[1]] = p[2]]
    BY <1>2, PendingStore
  <2>2. p[1] # f
    BY <1>1, PendingFields
  <2>3. p \in Stores
    BY DEF Pending, HttpPending, TypeInv, IsQueue
  <2> QED BY <1>1, <2>1, <2>2, <2>3, WorkoutStore DEF TypeInv
<1>3. CASE StoreTimer
  <2>1. workout' = [workout EXCEPT !["running_timer"] = timer] /\ f # "running_timer"
    BY <1>1, <1>3 DEF StoreTimer, Controls
  <2>2. workout = [g \in AllFields |-> workout[g]]
    BY DEF TypeInv, IsWorkout
  <2> QED BY <1>1, <2>1, <2>2
<1>4. CASE Browser \/ Check \/ SetSpeed \/ (\E ms \in Elapsed : LoadTimer(ms)) \/ Compare
           \/ Advance \/ UNCHANGED vars
  <2>1. workout' = workout
    BY <1>4 DEF Browser, SetDemand, Load, Reset, RunOrPause, Request, Check, SetSpeed,
                LoadTimer, Compare, Advance, vars
  <2> QED BY <2>1
<1> QED BY <1>2, <1>3, <1>4 DEF Next, Pass

-----------------------------------------------------------------------------
(* The order of the sections. *)

(* The place in the plan of the section under way, and the rounds counted    *)
(* when place k is reached.                                                  *)
Now       == Len(done) + 1
Rounds(k) == IF k = 1 THEN 0
             ELSE IF k > 2 * workout.repeats + 1 THEN workout.repeats ELSE (k - 2) \div 2

Places == IF workout.repeats > 0 THEN 2 * workout.repeats + 2 ELSE 0

PlanInv ==
    clean =>
        /\ Len(done) <= Places
        /\ \A i \in DOMAIN done : done[i].section = Planned(i)
        /\ Will("sequence", Planned(Now))
        /\ Will("interval_counter", Rounds(Now))

(* FollowsPlan but for how long the sections lasted. *)
InOrder ==
    clean =>
        /\ Len(done) <= Places
        /\ \A i \in DOMAIN done : done[i].section = Planned(i)
        /\ ~Resetting /\ pc # "commit" => workout.sequence = Planned(Now)

LEMMA PlanSays == HttpInv /\ MainInv /\ PlanInv => InOrder
<1> SUFFICES ASSUME HttpInv, MainInv, PlanInv, clean PROVE InOrder
  BY DEF InOrder
<1>1. ASSUME ~Resetting, pc # "commit" PROVE workout.sequence = Planned(Now)
  <2>1. Will("sequence", Planned(Now))
    BY DEF PlanInv
  <2>2. \A p \in Pending : p[1] # "sequence"
    BY <1>1, Quiet
  <2> QED BY <2>1, <2>2, WillNow
<1> QED BY <1>1 DEF PlanInv, InOrder

LEMMA PlanInit == Init => PlanInv
BY Zenon DEF Init, PlanInv

LEMMA PlanKept ==
    ASSUME TypeInv, HttpInv, MainInv, PlanInv, [Next]_vars, clean' => clean, done' = done,
           ~Reset, ~Advance
    PROVE  PlanInv'
<1> SUFFICES ASSUME clean' PROVE PlanInv'
  BY DEF PlanInv
<1>1. clean
  BY Zenon
<1>2. workout'["repeats"] = workout["repeats"]
  BY <1>1, DataKept, FieldParts
<1>3. /\ Now' = Now /\ Places' = Places
      /\ \A i : Planned(i)' = Planned(i) /\ Rounds(i)' = Rounds(i)
  BY <1>2 DEF Now, Places, Planned, Rounds
<1>4. /\ "sequence" \in AllFields \ {"running_state"}
      /\ "interval_counter" \in AllFields \ {"running_state"}
      /\ "sequence" # "running_timer" /\ "interval_counter" # "running_timer"
  BY DEF AllFields
<1>5. \A v : Will("sequence", v) => Will("sequence", v)'
  BY <1>1, <1>4, WillStep
<1>6. \A v : Will("interval_counter", v) => Will("interval_counter", v)'
  BY <1>1, <1>4, WillStep
<1>7. Will("sequence", Planned(Now))' /\ Will("interval_counter", Rounds(Now))'
  <2> DEFINE s == Planned(Now)  n == Rounds(Now)
  <2>1. Will("sequence", s) /\ Will("interval_counter", n)
    BY <1>1 DEF PlanInv
  <2>2. s' = s /\ n' = n
    BY <1>3
  <2> HIDE DEF s, n
  <2>3. Will("sequence", s)' /\ Will("interval_counter", n)'
    BY <1>5, <1>6, <2>1, <2>2 DEF Will
  <2> QED BY <2>3 DEF s, n
<1>8. Len(done') <= Places' /\ \A i \in DOMAIN done' : done'[i].section = Planned(i)'
  BY <1>1, <1>3 DEF PlanInv
<1> QED BY <1>7, <1>8 DEF PlanInv

LEMMA PlacesType ==
    ASSUME TypeInv
    PROVE  /\ workout.repeats \in Int /\ Places \in Nat
           /\ workout.repeats > 0 => Places = 2 * workout.repeats + 2
           /\ Len(done) \in Nat /\ DOMAIN done = 1..Len(done)
<1>1. workout.repeats \in Int
  BY WorkoutFields, FieldParts DEF TypeInv
<1>2. Len(done) \in Nat /\ DOMAIN done = 1..Len(done)
  BY DEF TypeInv
<1> QED BY <1>1, <1>2 DEF Places

(* After a reset all five fields are as at the beginning once its stores are *)
(* done.                                                                     *)
LEMMA ResetWill ==
    ASSUME MainInv, Reset, pc = "sleep"
    PROVE  /\ Will("running_timer", 0)' /\ Will("sequence", "warmup")'
           /\ Will("next_transition", (workout.warmup_duration * SECOND) % TimerSize)'
           /\ Will("interval_counter", 0)'
<1> DEFINE due == (workout.warmup_duration * SECOND) % TimerSize
           S == {<<"running_state", "initial">>, <<"running_timer", 0>>,
                 <<"sequence", "warmup">>, <<"next_transition", due>>,
                 <<"interval_counter", 0>>}
<1>1. http' = <<S>> /\ UNCHANGED <<main, workout>>
  BY DEF Reset, Request
<1>2. main = {}
  BY DEF MainInv
<1>3. due' = due
  BY <1>1
<1> HIDE DEF due
<1>4. Pending' = S
  <2> HIDE DEF S
  <2>1. http' # <<>> /\ Head(http') = S
    BY <1>1
  <2> QED BY <1>1, <1>2, <2>1 DEF Pending, HttpPending
<1>5. /\ Will("running_timer", 0)' /\ Will("sequence", "warmup")'
      /\ Will("interval_counter", 0)'
  BY <1>4 DEF Will
<1>6. Will("next_transition", due)'
  BY <1>3, <1>4 DEF Will
<1> QED BY <1>5, <1>6 DEF due

LEMMA PlanReset == TypeInv /\ MainInv /\ Reset => PlanInv'
<1> SUFFICES ASSUME TypeInv, MainInv, Reset, clean' PROVE PlanInv'
  BY DEF PlanInv
<1>1. pc = "sleep"
  BY Zenon DEF Reset
<1>2. done' = <<>> /\ workout' = workout
  BY DEF Reset, Request
<1>3. Now' = 1 /\ Len(done') = 0 /\ DOMAIN done' = {}
  BY <1>2 DEF Now
<1>4. Planned(Now)' = "warmup" /\ Rounds(Now)' = 0
  BY <1>3 DEF Planned, Rounds
<1>5. Places' = Places /\ Places \in Nat
  BY <1>2, PlacesType DEF Places
<1>6. Will("sequence", Planned(Now))' /\ Will("interval_counter", Rounds(Now))'
  <2>1. Will("sequence", "warmup")' /\ Will("interval_counter", 0)'
    BY <1>1, ResetWill
  <2> QED BY <1>4, <2>1 DEF Will
<1> QED BY <1>3, <1>5, <1>6 DEF PlanInv

(* Entering the next section of the plan. *)
LEMMA PlanEnter ==
    ASSUME TypeInv, HttpInv, MainInv, PlanInv, clean, pc = "advance",
           UNCHANGED <<workout, http>>,
           NEW s \in Sections, NEW counted, Enter(s, counted), clean' = clean,
           Now < Places,
           s = Planned(Now + 1),
           \/ counted = {<<"interval_counter", Rounds(Now + 1)>>}
           \/ counted = {} /\ Rounds(Now + 1) = Rounds(Now)
    PROVE  PlanInv'
<1>1. ~Resetting /\ workout.sequence = Planned(Now)
  BY PassQuiet, PlanSays DEF InOrder
<1>2. /\ done' = Append(done, [section |-> workout.sequence,
                               lasted |-> since >= Duration[workout.sequence] * SECOND])
      /\ \E t : main' = {<<"sequence", s>>, <<"next_transition", Due(t, s)>>} \union counted
  BY DEF Enter, Ended
<1>3. /\ Len(done) \in Nat /\ DOMAIN done = 1..Len(done)
      /\ Len(done') = Len(done) + 1 /\ DOMAIN done' = 1..(Len(done) + 1)
      /\ done'[Len(done) + 1].section = workout.sequence
      /\ \A i \in 1..Len(done) : done'[i] = done[i]
  <2> DEFINE d == [section |-> workout.sequence,
                   lasted |-> since >= Duration[workout.sequence] * SECOND]
  <2>1. d.section = workout.sequence
    OBVIOUS
  <2>2. done' = Append(done, d)
    BY <1>2
  <2> HIDE DEF d
  <2>3. done \in Seq([section : Sections, lasted : BOOLEAN])
    BY DEF TypeInv
  <2> QED BY <2>1, <2>2, <2>3
<1>4. /\ Places' = Places
      /\ \A i : Planned(i)' = Planned(i) /\ Rounds(i)' = Rounds(i)
  BY DEF Places, Planned, Rounds
<1>5. Now' = Now + 1 /\ Now \in Nat /\ Now = Len(done) + 1
  BY <1>3 DEF Now
<1>6. Len(done') <= Places'
  BY <1>3, <1>4, <1>5, PlacesType
<1>7. \A i \in DOMAIN done' : done'[i].section = Planned(i)'
  BY <1>1, <1>3, <1>4, <1>5 DEF PlanInv
<1>8. \A p \in HttpPending : p[1] = "running_state"
  BY <1>1, Quiet DEF Pending
<1>9. HttpPending' = HttpPending
  BY DEF HttpPending
<1>10. Will("sequence", s)'
  BY <1>2, <1>8, <1>9 DEF Pending, Will
<1>11. PICK n : n = Rounds(Now + 1)
  OBVIOUS
<1>12. Will("interval_counter", n)'
  <2>1. CASE counted = {<<"interval_counter", n>>}
    BY <1>2, <1>8, <1>9, <2>1 DEF Pending, Will
  <2>2. CASE counted = {} /\ n = Rounds(Now)
    <3>1. Will("interval_counter", n)
      BY <2>2 DEF PlanInv
    <3>2. \A p \in Pending : p[1] # "interval_counter"
      BY <1>1, Quiet
    <3>3. workout["interval_counter"] = n
      BY <3>1, <3>2, WillNow
    <3>4. \A p \in Pending' : p[1] # "interval_counter"
      BY <1>2, <1>8, <1>9, <2>2 DEF Pending
    <3> QED BY <3>3, <3>4 DEF Will
  <2> QED BY <1>11, <2>1, <2>2
<1>13. Planned(Now)' = s /\ Rounds(Now)' = n
  BY <1>4, <1>5, <1>11
<1>14. Will("sequence", Planned(Now))' /\ Will("interval_counter", Rounds(Now))'
  BY <1>10, <1>12, <1>13 DEF Will
<1> QED BY <1>6, <1>7, <1>14 DEF PlanInv

(* The arithmetic of the plan: what comes after each place. *)
LEMMA NextPlace ==
    ASSUME NEW r \in Int, workout.repeats = r, NEW k \in Nat, k >= 1
    PROVE  /\ Planned(k) = "warmup" => k = 1 /\ Rounds(k) = 0
           /\ Planned(k) = "warmup" /\ r > 0 => Planned(k + 1) = "low" /\ Rounds(k + 1) = 0
           /\ Planned(k) = "low" =>
                  k <= 2 * r /\ Planned(k + 1) = "high" /\ Rounds(k + 1) = Rounds(k)
           /\ Planned(k) = "high" =>
                  /\ k <= 2 * r + 1 /\ r > 0
                  /\ Rounds(k) + 1 >= r =>
                         k = 2 * r + 1 /\ Planned(k + 1) = "warmdown"
                  /\ Rounds(k) + 1 < r => Planned(k + 1) = "low"
                  /\ Rounds(k + 1) = Rounds(k) + 1
           /\ Planned(k) = "warmdown" => k > 2 * r + 1 /\ k > 1
<1>1. \A i \in Nat : /\ Planned(i) = IF i = 1 THEN "warmup"
                                     ELSE IF i > 2 * r + 1 THEN "warmdown"
                                     ELSE IF i % 2 = 0 THEN "low" ELSE "high"
                     /\ Rounds(i) = IF i = 1 THEN 0
                                    ELSE IF i > 2 * r + 1 THEN r ELSE (i - 2) \div 2
  BY DEF Planned, Rounds
<1>2. k + 1 \in Nat
  OBVIOUS
<1>3. CASE k = 1
  BY <1>1, <1>2, <1>3
<1>4. CASE k > 1 /\ k > 2 * r + 1
  BY <1>1, <1>2, <1>4
<1>5. CASE k > 1 /\ k <= 2 * r + 1 /\ k % 2 = 0
  <2>1. k <= 2 * r /\ (k + 1) % 2 # 0 /\ (k - 2) \div 2 = ((k + 1) - 2) \div 2
    BY <1>5
  <2> QED BY <1>1, <1>2, <1>5, <2>1
<1>6. CASE k > 1 /\ k <= 2 * r + 1 /\ k % 2 # 0
  <2>1. (k + 1) % 2 = 0 /\ ((k + 1) - 2) \div 2 = (k - 2) \div 2 + 1
    BY <1>6
  <2>2. (k - 2) \div 2 + 1 >= r => k = 2 * r + 1
    BY <1>6
  <2>3. k = 2 * r + 1 => (k - 2) \div 2 + 1 = r
    BY <1>6
  <2> QED BY <1>1, <1>2, <1>6, <2>1, <2>2, <2>3
<1> QED BY <1>3, <1>4, <1>5, <1>6

LEMMA DoneEnded ==
    ASSUME TypeInv, done' = Ended
    PROVE  /\ Len(done') = Len(done) + 1 /\ DOMAIN done' = 1..(Len(done) + 1)
           /\ done'[Len(done) + 1] = [section |-> workout.sequence,
                                      lasted |-> since >= Duration[workout.sequence] * SECOND]
           /\ \A i \in 1..Len(done) : done'[i] = done[i]
<1> DEFINE d == [section |-> workout.sequence,
                 lasted |-> since >= Duration[workout.sequence] * SECOND]
<1>1. done' = Append(done, d)
  BY DEF Ended
<1> HIDE DEF d
<1>2. done \in Seq([section : Sections, lasted : BOOLEAN])
  BY DEF TypeInv
<1>3. /\ Len(done') = Len(done) + 1 /\ DOMAIN done' = 1..(Len(done) + 1)
      /\ done'[Len(done) + 1] = d
      /\ \A i \in 1..Len(done) : done'[i] = done[i]
  BY <1>1, <1>2
<1> QED BY <1>3 DEF d

OrderInv == TypeInv /\ HttpInv /\ MainInv /\ PlanInv

(* Within a pass, workout.sequence is the section under way and the fields   *)
(* have the values they are to have.                                         *)
LEMMA InPass ==
    ASSUME OrderInv, clean, pc \notin {"sleep", "commit"}
    PROVE  /\ workout.sequence = Planned(Now)
           /\ \A f \in AllFields \ {"running_state"} : \A v : Will(f, v) => workout[f] = v
<1>1. ~Resetting
  BY PassQuiet DEF OrderInv
<1>2. workout.sequence = Planned(Now)
  BY <1>1, PlanSays DEF OrderInv, InOrder
<1>3. ASSUME NEW f \in AllFields \ {"running_state"}, NEW v, Will(f, v) PROVE workout[f] = v
  <2>1. \A p \in Pending : p[1] # f
    BY <1>1, Quiet DEF OrderInv
  <2> QED BY <1>3, <2>1, WillNow
<1> QED BY <1>2, <1>3

(* What Advance may do, told by the plan: stay in a workout without rounds,  *)
(* enter the next section, or finish, where the warm-down ends only once.    *)
LEMMA AdvanceIs ==
    ASSUME OrderInv, clean, Advance
    PROVE  \/ Stay /\ Places = 0
           \/ /\ Len(done) + 1 < Places
              /\ \E s \in Sections : \E counted :
                     /\ Enter(s, counted) /\ s = Planned(Now + 1)
                     /\ \/ counted = {<<"interval_counter", Rounds(Now + 1)>>}
                        \/ counted = {} /\ Rounds(Now + 1) = Rounds(Now)
           \/ /\ Finish /\ workout.sequence = "warmdown" /\ Places = 2 * workout.repeats + 2
              /\ \/ done' = Ended /\ Len(done) + 1 = Places
                 \/ done' = done /\ Len(done) = Places
<1>1. pc = "advance" /\ UNCHANGED <<workout, http>>
  BY DEF Advance, browsers
<1>2. /\ workout.repeats \in Int /\ Now \in Nat /\ Now >= 1 /\ Now = Len(done) + 1
      /\ workout.repeats > 0 => Places = 2 * workout.repeats + 2
      /\ workout.repeats <= 0 => Places = 0
  BY PlacesType DEF OrderInv, Now, Places
<1>3. workout.sequence = Planned(Now)
  BY <1>1, InPass
<1>4. workout.interval_counter = Rounds(Now) /\ Rounds(Now) \in Nat
  <2>1. Will("interval_counter", Rounds(Now))
    BY DEF OrderInv, PlanInv
  <2>2. "interval_counter" \in AllFields \ {"running_state"}
    BY DEF AllFields
  <2>3. workout["interval_counter"] = Rounds(Now)
    BY <1>1, <2>1, <2>2, InPass
  <2> QED BY <2>3, WorkoutFields DEF OrderInv, TypeInv
<1>5. CASE workout.sequence = "warmup" /\ workout.repeats > 0
             /\ Enter("low", {<<"interval_counter", 0>>})
  <2>1. Now = 1 /\ Planned(Now + 1) = "low" /\ Rounds(Now + 1) = 0
    BY <1>2, <1>3, <1>5, NextPlace
  <2>2. Len(done) + 1 < Places
    BY <1>2, <1>5, <2>1
  <2> QED BY <1>5, <2>1, <2>2 DEF Sections
<1>6. CASE workout.sequence = "warmup" /\ workout.repeats <= 0 /\ Stay
  BY <1>2, <1>6
<1>7. CASE workout.sequence = "low" /\ Enter("high", {})
  <2>1. Planned(Now + 1) = "high" /\ Rounds(Now + 1) = Rounds(Now)
        /\ Now <= 2 * workout.repeats
    BY <1>2, <1>3, <1>7, NextPlace
  <2>2. Len(done) + 1 < Places
    BY <1>2, <2>1
  <2> QED BY <1>7, <2>1, <2>2 DEF Sections
<1>8. CASE workout.sequence = "high"
             /\ \E s \in {"low", "warmdown"} :
                    (s = "warmdown" <=> LastRound) /\ Enter(s, RoundCounted)
  <2>1. PICK s \in {"low", "warmdown"} :
            (s = "warmdown" <=> LastRound) /\ Enter(s, RoundCounted)
    BY <1>8
  <2>2. /\ Now <= 2 * workout.repeats + 1 /\ workout.repeats > 0
        /\ Rounds(Now + 1) = Rounds(Now) + 1
        /\ Rounds(Now) + 1 >= workout.repeats => Planned(Now + 1) = "warmdown"
        /\ Rounds(Now) + 1 < workout.repeats => Planned(Now + 1) = "low"
    <3>1. Planned(Now) = "high"
      BY <1>3, <1>8
    <3> QED BY ONLY <1>2, <3>1, NextPlace
  <2>3. Len(done) + 1 < Places
    BY <1>2, <2>2
  <2>4. LastRound <=> Rounds(Now) + 1 >= workout.repeats
    BY <1>4 DEF LastRound
  <2>5. s = Planned(Now + 1) /\ s \in Sections
    BY <1>2, <1>4, <2>1, <2>2, <2>4 DEF Sections
  <2>6. RoundCounted = {<<"interval_counter", Rounds(Now + 1)>>}
    BY <1>4, <2>2 DEF RoundCounted
  <2> QED BY <2>1, <2>3, <2>5, <2>6
<1>9. CASE workout.sequence = "warmdown" /\ Finish
  <2>1. Len(done) + 1 > 2 * workout.repeats + 1 /\ Len(done) + 1 > 1
    BY <1>2, <1>3, <1>9, NextPlace
  <2>2. Len(done) <= Places /\ Len(done) \in Nat /\ DOMAIN done = 1..Len(done)
    BY PlacesType DEF OrderInv, PlanInv
  <2>3. Places = 2 * workout.repeats + 2
    BY <1>2, <2>1, <2>2
  <2>4. Len(done) + 1 = Places \/ Len(done) = Places
    BY <1>2, <2>1, <2>2, <2>3
  <2>6. CASE Len(done) = Places
    <3>1. Len(done) \in DOMAIN done /\ Len(done) \in Nat
      BY <2>1, <2>2
    <3>2. Planned(Len(done)) = "warmdown"
      BY <1>2, <2>2, <2>3, <2>6 DEF Planned
    <3>3. done[Len(done)].section = "warmdown" /\ done # <<>>
      BY <2>1, <2>2, <3>1, <3>2 DEF OrderInv, PlanInv
    <3>4. done' = done
      BY <1>9, <3>3, Zenon DEF Finish
    <3> QED BY <1>9, <2>3, <2>6, <3>4
  <2>7. CASE Len(done) + 1 = Places
    <3>1. done' = Ended
      <4>1. CASE done = <<>>
        BY <1>9, <4>1, Zenon DEF Finish
      <4>2. CASE done # <<>>
        <5>1. Len(done) \in DOMAIN done /\ Len(done) = 2 * workout.repeats + 1
              /\ Len(done) \in Nat
          BY <1>2, <2>1, <2>2, <2>3, <2>7
        <5>2. Planned(Len(done)) # "warmdown"
          BY <5>1, <1>2 DEF Planned
        <5>3. done[Len(done)].section # "warmdown"
          BY <5>1, <5>2 DEF OrderInv, PlanInv
        <5> QED BY <1>9, <5>3, Zenon DEF Finish
      <4> QED BY <4>1, <4>2
    <3> QED BY <1>9, <2>3, <2>7, <3>1
  <2> QED BY <2>4, <2>6, <2>7
<1> QED BY <1>5, <1>6, <1>7, <1>8, <1>9, Zenon DEF Advance

LEMMA PlanFinish ==
    ASSUME OrderInv, clean, pc = "advance", UNCHANGED <<workout, http>>,
           workout.sequence = "warmdown", Finish, Places = 2 * workout.repeats + 2,
           \/ done' = Ended /\ Len(done) + 1 = Places
           \/ done' = done /\ Len(done) = Places
    PROVE  PlanInv'
<1> DEFINE r == workout.repeats
<1>1. /\ r \in Int /\ Places \in Nat /\ Len(done) \in Nat /\ DOMAIN done = 1..Len(done)
      /\ Now = Len(done) + 1
  BY PlacesType DEF OrderInv, Now
<1>2. /\ Places' = Places
      /\ \A i : Planned(i)' = Planned(i) /\ Rounds(i)' = Rounds(i)
  BY DEF Places, Planned, Rounds
<1>3. Planned(Now) = "warmdown" /\ Rounds(Now) = r
  <2>1. Planned(Now) = "warmdown"
    BY InPass
  <2> QED BY <1>1, <2>1 DEF Planned, Rounds
<1>4. Planned(Places + 1) = "warmdown" /\ Rounds(Places + 1) = r
  <2>1. Places + 1 > 2 * r + 1 /\ Places + 1 # 1
    BY <1>1, <1>3 DEF Planned
  <2> QED BY <2>1 DEF Planned, Rounds
<1>5. Len(done') <= Places' /\ \A i \in DOMAIN done' : done'[i].section = Planned(i)'
  <2>1. CASE done' = done
    BY <1>2, <2>1 DEF OrderInv, PlanInv
  <2>2. CASE done' = Ended /\ Len(done) + 1 = Places
    <3>1. /\ Len(done') = Len(done) + 1 /\ DOMAIN done' = 1..(Len(done) + 1)
          /\ done'[Len(done) + 1].section = "warmdown"
          /\ \A i \in 1..Len(done) : done'[i] = done[i]
      BY <2>2, DoneEnded DEF OrderInv
    <3> QED BY <1>1, <1>2, <1>3, <2>2, <3>1 DEF OrderInv, PlanInv
  <2> QED BY <2>1, <2>2
<1>6. Now' = Places + 1
  BY <1>1, DoneEnded DEF OrderInv, Now
<1>7. Will("sequence", "warmdown")' /\ Will("interval_counter", r)'
  <2>1. main' = {<<"running_state", "finished">>} /\ main = {}
    BY DEF Finish, OrderInv, MainInv
  <2>2. HttpPending' = HttpPending
    BY DEF HttpPending
  <2>3. \A p : p[1] # "running_state" => (p \in Pending' <=> p \in Pending)
    BY <2>1, <2>2 DEF Pending
  <2>4. ASSUME NEW f \in {"sequence", "interval_counter"}, NEW v, Will(f, v)
        PROVE  Will(f, v)'
    BY <2>3, <2>4, WillKept
  <2>5. Will("sequence", "warmdown") /\ Will("interval_counter", r)
    BY <1>3 DEF OrderInv, PlanInv
  <2>6. r' = r
    OBVIOUS
  <2> HIDE DEF r
  <2>7. \A n : Will("interval_counter", n) => Will("interval_counter", n)'
    BY <2>4
  <2> QED BY <2>4, <2>5, <2>6, <2>7 DEF Will
<1>8. Planned(Now)' = "warmdown" /\ Rounds(Now)' = r'
  <2>1. Planned(Now)' = Planned(Now') /\ Rounds(Now)' = Rounds(Now')
    BY <1>2
  <2> QED BY <1>4, <1>6, <2>1
<1>9. Will("sequence", Planned(Now))' /\ Will("interval_counter", Rounds(Now))'
  BY <1>7, <1>8 DEF Will
<1> QED BY <1>5, <1>9 DEF PlanInv

LEMMA PlanAdvance == OrderInv /\ Advance => PlanInv'
<1> SUFFICES ASSUME OrderInv, Advance, clean' PROVE PlanInv'
  BY DEF PlanInv
<1>1. pc = "advance" /\ clean' = clean /\ UNCHANGED <<workout, http>> /\ clean
  BY Zenon DEF Advance, browsers
<1>2. CASE Stay
  <2>1. done' = done /\ main' = main
    BY <1>2 DEF Stay
  <2>2. /\ Now' = Now /\ Places' = Places /\ Pending' = Pending
        /\ \A i : Planned(i)' = Planned(i) /\ Rounds(i)' = Rounds(i)
    BY <1>1, <2>1 DEF Now, Places, Planned, Rounds, Pending, HttpPending
  <2>3. Planned(Now)' = Planned(Now) /\ Rounds(Now)' = Rounds(Now)
    BY <2>2
  <2>4. Will("sequence", Planned(Now))' /\ Will("interval_counter", Rounds(Now))'
    BY <1>1, <2>2, <2>3 DEF OrderInv, PlanInv, Will
  <2> QED BY <1>1, <2>1, <2>2, <2>4 DEF OrderInv, PlanInv
<1>3. ASSUME NEW s \in Sections, NEW counted, Enter(s, counted), s = Planned(Now + 1),
             \/ counted = {<<"interval_counter", Rounds(Now + 1)>>}
             \/ counted = {} /\ Rounds(Now + 1) = Rounds(Now),
             Len(done) + 1 < Places
      PROVE  PlanInv'
  BY <1>1, <1>3, PlanEnter DEF OrderInv, Now
<1>4. CASE /\ Finish /\ workout.sequence = "warmdown" /\ Places = 2 * workout.repeats + 2
           /\ \/ done' = Ended /\ Len(done) + 1 = Places
              \/ done' = done /\ Len(done) = Places
  BY <1>1, <1>4, PlanFinish
<1>5. CASE /\ Len(done) + 1 < Places
           /\ \E s \in Sections : \E counted :
                  /\ Enter(s, counted) /\ s = Planned(Now + 1)
                  /\ \/ counted = {<<"interval_counter", Rounds(Now + 1)>>}
                     \/ counted = {} /\ Rounds(Now + 1) = Rounds(Now)
  BY <1>3, <1>5
<1> QED BY <1>1, <1>2, <1>4, <1>5, AdvanceIs, Zenon

LEMMA CleanKept ==
    ASSUME [Next]_vars, ~Reset
    PROVE  clean' => clean
BY Zenon DEF Next, Browser, SetDemand, Load, RunOrPause, HttpStore, Pass, Check,
   SetSpeed, LoadTimer, StoreTimer, Compare, Advance, MainStore, vars, ghosts

LEMMA PlanStep ==
    TypeInv /\ HttpInv /\ MainInv /\ PlanInv /\ [Next]_vars => PlanInv'
<1> SUFFICES ASSUME TypeInv, HttpInv, MainInv, PlanInv, [Next]_vars, clean' PROVE PlanInv'
  BY DEF PlanInv
<1>1. CASE Reset
  BY <1>1, PlanReset
<1>2. CASE Advance
  BY <1>2, PlanAdvance DEF OrderInv
<1>3. CASE ~Reset /\ ~Advance
  <2>1. clean' => clean
    BY <1>3, CleanKept, Zenon
  <2>2. ~Load
    BY Zenon DEF Load
  <2>3. done' = done
    BY <1>3, <2>2, Zenon DEF Next, Browser, SetDemand, RunOrPause, HttpStore, Pass, Check,
       SetSpeed, LoadTimer, StoreTimer, Compare, MainStore, vars, ghosts
  <2> QED BY <1>3, <2>1, <2>3, PlanKept
<1> QED BY <1>1, <1>2, <1>3

LEMMA QuietInit == Init => HttpInv /\ MainInv
BY Zenon DEF Init, HttpInv, MainInv

(* A workout that was reset goes through its sections in their order, with   *)
(* as many rounds as it says and no section twice or left out, for any list  *)
(* and any times, wherever in a pass browsers pause it and let it run again. *)
THEOREM SectionsInOrder == Spec => []InOrder
<1>1. Init => TypeInv /\ HttpInv /\ MainInv /\ PlanInv
  BY TypeInit, QuietInit, PlanInit
<1>2. TypeInv /\ HttpInv /\ MainInv /\ PlanInv /\ [Next]_vars
          => (TypeInv /\ HttpInv /\ MainInv /\ PlanInv)'
  BY TypeStep, HttpStep, MainStep, PlanStep
<1> QED BY <1>1, <1>2, PlanSays, PTL DEF Spec

-----------------------------------------------------------------------------
(* How long the sections last, of workouts that end before the timer wraps:  *)
(* the lists that are put have durations of up to MaxDuration seconds and up *)
(* to MaxRounds rounds, and a pass takes up to MaxElapsed milliseconds.      *)

CONSTANTS MaxDuration, MaxRounds, MaxElapsed

DurationFields == {"warmup_duration", "low_duration", "high_duration", "warmdown_duration"}

Fits(f, v) == /\ f \in DurationFields => v \in 0..MaxDuration
              /\ f = "repeats" => v <= MaxRounds

(* A section and what the last pass of the one before it ran over.           *)
Each == MaxDuration * SECOND + MaxElapsed

NoWrap ==
    /\ MaxDuration \in Nat /\ MaxRounds \in Nat /\ MaxElapsed \in Nat
    /\ Elapsed \subseteq 0..MaxElapsed
    /\ \A list \in Lists \union {Loaded} : \A i \in DOMAIN list : Fits(Fields[i], list[i])
    /\ (2 * MaxRounds + 2) * Each < TimerSize

FieldInv ==
    /\ \A f \in Data : Fits(f, workout[f])
    /\ \A i \in DOMAIN http : \A p \in http[i] : Fits(p[1], p[2])

LEMMA ControlsFit == \A f, v : f \in Controls => Fits(f, v)
BY DEF Controls, Fits, DurationFields

LEMMA FieldInit == NoWrap /\ Init => FieldInv
<1> SUFFICES ASSUME NoWrap, Init PROVE FieldInv
  OBVIOUS
<1>1. Loaded \in Seq(Int) /\ Len(Loaded) = 9
  BY WorkoutAssumption, Zenon
<1>2. \A i \in 1..9 : Fits(Fields[i], Loaded[i])
  <2>1. DOMAIN Loaded = 1..9
    BY <1>1
  <2> QED BY <2>1 DEF NoWrap
<1>3. \A i \in 1..9 : workout[Fields[i]] = Loaded[i]
  <2> SUFFICES ASSUME NEW i \in 1..9 PROVE workout[Fields[i]] = Loaded[i]
    OBVIOUS
  <2>1. i = 1 \/ i = 2 \/ i = 3 \/ i = 4 \/ i = 5 \/ i = 6 \/ i = 7 \/ i = 8 \/ i = 9
    OBVIOUS
  <2>2. workout = [running_state |-> "initial", running_timer |-> 0, next_transition |-> 0,
                   sequence |-> "warmup", interval_counter |-> 0,
                   warmup_speed |-> Loaded[1], warmup_duration |-> Loaded[2],
                   low_speed |-> Loaded[3], low_duration |-> Loaded[4],
                   high_speed |-> Loaded[5], high_duration |-> Loaded[6],
                   repeats |-> Loaded[7],
                   warmdown_speed |-> Loaded[8], warmdown_duration |-> Loaded[9]]
    BY DEF Init
  <2> QED BY <2>1, <2>2 DEF Fields
<1>4. \A f \in Data : \E i \in 1..9 : f = Fields[i]
  <2>1. /\ 1 \in 1..9 /\ 2 \in 1..9 /\ 3 \in 1..9 /\ 4 \in 1..9 /\ 5 \in 1..9
        /\ 6 \in 1..9 /\ 7 \in 1..9 /\ 8 \in 1..9 /\ 9 \in 1..9
    OBVIOUS
  <2> QED BY <2>1 DEF Fields, Data
<1>5. \A f \in Data : Fits(f, workout[f])
  BY <1>2, <1>3, <1>4
<1>6. http = <<>>
  BY Zenon DEF Init
<1> QED BY <1>5, <1>6 DEF FieldInv

LEMMA FieldStep ==
    NoWrap /\ TypeInv /\ MainInv /\ FieldInv /\ [Next]_vars => FieldInv'
<1> SUFFICES ASSUME NoWrap, TypeInv, MainInv, FieldInv, [Next]_vars PROVE FieldInv'
  OBVIOUS
<1>1. ASSUME NEW p \in Stores, workout' = [workout EXCEPT ![p[1]] = p[2]], Fits(p[1], p[2])
      PROVE  \A f \in Data : Fits(f, workout'[f])
  BY <1>1, WorkoutStore, FieldParts DEF FieldInv, TypeInv
<1>2. CASE HttpStore
  <2>1. http # <<>> /\ http \in Seq(SUBSET Stores)
    BY <1>2 DEF HttpStore, TypeInv, IsQueue
  <2>2. PICK p \in Head(http) :
            /\ workout' = [workout EXCEPT ![p[1]] = p[2]]
            /\ http' = IF Head(http) = {p} THEN Tail(http) ELSE [http EXCEPT ![1] = @ \ {p}]
    BY <1>2 DEF HttpStore
  <2>3. 1 \in DOMAIN http /\ Head(http) = http[1]
    BY <2>1
  <2>4. p \in Stores /\ Fits(p[1], p[2])
    BY <2>1, <2>2, <2>3 DEF FieldInv
  <2>5. \A i \in DOMAIN http' : \E j \in DOMAIN http : http'[i] \subseteq http[j]
    <3>1. CASE Head(http) = {p}
      <4>1. http' = Tail(http)
        BY <2>2, <3>1
      <4>2. /\ Len(http) \in Nat /\ DOMAIN http = 1..Len(http)
            /\ DOMAIN http' = 1..(Len(http) - 1)
            /\ \A i \in 1..(Len(http) - 1) : http'[i] = http[i + 1]
        BY <2>1, <4>1
      <4>3. \A i \in 1..(Len(http) - 1) : i + 1 \in 1..Len(http)
        BY <4>2
      <4> QED BY <4>2, <4>3
    <3>2. CASE Head(http) # {p}
      <4>1. http' = [http EXCEPT ![1] = http[1] \ {p}]
        BY <2>2, <3>2
      <4>2. DOMAIN http' = DOMAIN http
            /\ \A i \in DOMAIN http : http'[i] = IF i = 1 THEN http[1] \ {p} ELSE http[i]
        BY <2>1, <4>1
      <4> QED BY <4>2
    <3> QED BY <3>1, <3>2
  <2>6. \A i \in DOMAIN http' : \A q \in http'[i] : Fits(q[1], q[2])
    BY <2>5 DEF FieldInv
  <2> QED BY <1>1, <2>2, <2>4, <2>6 DEF FieldInv
<1>3. CASE MainStore
  <2>1. PICK p \in main : workout' = [workout EXCEPT ![p[1]] = p[2]]
    BY <1>3 DEF MainStore
  <2>2. p \in Stores /\ p[1] \in Controls
    BY <2>1 DEF TypeInv, MainInv, Controls
  <2>3. Fits(p[1], p[2])
    BY <2>2, ControlsFit
  <2>4. http' = http
    BY <1>3 DEF MainStore, browsers
  <2> QED BY <1>1, <2>1, <2>2, <2>3, <2>4 DEF FieldInv
<1>4. CASE StoreTimer
  <2> DEFINE p == <<"running_timer", timer>>
  <2>1. workout' = [workout EXCEPT ![p[1]] = p[2]] /\ http' = http
    BY <1>4 DEF StoreTimer, browsers
  <2>2. p \in Stores /\ p[1] \in Controls
    BY Values, StoreIs DEF AllFields, TypeInv, Controls
  <2>3. Fits(p[1], p[2])
    BY <2>2, ControlsFit
  <2> HIDE DEF p
  <2> QED BY <1>1, <2>1, <2>2, <2>3 DEF FieldInv
<1>5. CASE Load
  <2>1. PICK list \in Lists : http' = [i \in DOMAIN list |-> {<<Fields[i], list[i]>>}]
    BY <1>5 DEF Load
  <2>2. \A i \in DOMAIN list : Fits(Fields[i], list[i])
    BY DEF NoWrap
  <2>3. \A i \in DOMAIN http' : \A q \in http'[i] : Fits(q[1], q[2])
    BY <2>1, <2>2
  <2>4. workout' = workout
    BY <1>5 DEF Load, Request
  <2> QED BY <2>3, <2>4 DEF FieldInv
<1>6. CASE Reset \/ RunOrPause
  <2>1. PICK S : http' = <<S>> /\ \A p \in S : p[1] \in Controls
    BY <1>6 DEF Reset, RunOrPause, Controls
  <2>2. \A i \in DOMAIN http' : http'[i] = S
    BY <2>1
  <2>3. \A i \in DOMAIN http' : \A q \in http'[i] : Fits(q[1], q[2])
    BY <2>1, <2>2, ControlsFit
  <2>4. workout' = workout
    BY <1>6 DEF Reset, RunOrPause, Request
  <2> QED BY <2>3, <2>4 DEF FieldInv
<1>7. CASE SetDemand \/ Check \/ SetSpeed \/ (\E ms \in Elapsed : LoadTimer(ms)) \/ Compare
           \/ Advance \/ UNCHANGED vars
  <2>1. workout' = workout /\ http' = http
    BY <1>7, Zenon DEF SetDemand, Request, Check, SetSpeed, LoadTimer, Compare, Advance,
       vars, browsers
  <2> QED BY <2>1 DEF FieldInv
<1> QED BY <1>2, <1>3, <1>4, <1>5, <1>6, <1>7 DEF Next, Browser, Pass

(* The arithmetic of the timer. *)

LEMMA ProductLE ==
    ASSUME NEW a \in Nat, NEW b \in Nat, NEW e \in Nat, a <= b
    PROVE  a * e \in Nat /\ b * e \in Nat /\ a * e <= b * e
<1>1. \A x, y \in Nat : x * y \in Nat
  OBVIOUS
<1>2. b - a \in Nat /\ (b - a) * e \in Nat
  BY <1>1
<1>3. b * e = a * e + (b - a) * e
  <2>1. \A x, y, z \in Nat : (x + y) * z = x * z + y * z
    OBVIOUS
  <2>2. b = a + (b - a)
    OBVIOUS
  <2> QED BY <1>2, <2>1, <2>2
<1> QED BY <1>1, <1>2, <1>3

LEMMA EachFacts ==
    ASSUME NoWrap
    PROVE  /\ MaxDuration * SECOND \in Nat /\ MaxElapsed \in Nat /\ Each \in Nat
           /\ Each = MaxDuration * SECOND + MaxElapsed
<1>1. \A x, y \in Nat : x * y \in Nat
  OBVIOUS
<1>2. MaxDuration * SECOND \in Nat
  BY <1>1, WorkoutAssumption DEF NoWrap
<1> QED BY <1>2 DEF NoWrap, Each

(* How long section k of the plan is to last. *)
Lasts(k) == Duration[Planned(k)] * SECOND

LEMMA SectionLasts ==
    ASSUME NoWrap, FieldInv, NEW s \in Sections
    PROVE  Duration[s] * SECOND \in 0..(MaxDuration * SECOND)
<1>1. Duration[s] \in 0..MaxDuration
  BY DEF FieldInv, Fits, Data, DurationFields, Duration, Sections
<1>2. Duration[s] \in Nat /\ MaxDuration \in Nat /\ SECOND \in Nat /\ Duration[s] <= MaxDuration
  BY <1>1, WorkoutAssumption DEF NoWrap
<1> QED BY <1>2, ProductLE

LEMMA PlannedSection == \A k : Planned(k) \in Sections
BY DEF Planned, Sections

(* There is room in the timer for the section under way and the next one. *)
LEMMA Room ==
    ASSUME NoWrap, TypeInv, FieldInv, Len(done) < Places,
           NEW N \in Nat, N <= Len(done) * Each + MaxDuration * SECOND
    PROVE  /\ N + MaxElapsed < TimerSize
           /\ Len(done) + 1 < Places =>
                  /\ N + MaxElapsed + MaxDuration * SECOND < TimerSize
                  /\ N + MaxElapsed + MaxDuration * SECOND
                         <= (Len(done) + 1) * Each + MaxDuration * SECOND
<1>1. /\ Len(done) \in Nat /\ Places \in Nat /\ workout.repeats \in Int
      /\ workout.repeats > 0 => Places = 2 * workout.repeats + 2
  BY PlacesType
<1>2. workout.repeats <= MaxRounds /\ MaxRounds \in Nat
  BY FieldParts DEF FieldInv, Fits, NoWrap
<1>3. Places <= 2 * MaxRounds + 2 /\ 2 * MaxRounds + 2 \in Nat
  BY <1>1, <1>2 DEF Places
<1>4. /\ MaxDuration * SECOND \in Nat /\ MaxElapsed \in Nat /\ Each \in Nat
      /\ Each = MaxDuration * SECOND + MaxElapsed
  BY EachFacts
<1>5. Places * Each \in Nat /\ Places * Each < TimerSize
  <2>1. Places * Each <= (2 * MaxRounds + 2) * Each /\ Places * Each \in Nat
        /\ (2 * MaxRounds + 2) * Each \in Nat
    BY <1>1, <1>3, <1>4, ProductLE
  <2> QED BY <2>1, WorkoutAssumption DEF NoWrap
<1>6. \A a \in Nat : /\ (a + 1) * Each = a * Each + Each
                     /\ (a + 2) * Each = a * Each + Each + Each
                     /\ a * Each \in Nat
  <2>1. \A a, e \in Nat : /\ (a + 1) * e = a * e + e
                         /\ (a + 2) * e = a * e + e + e
                         /\ a * e \in Nat
    OBVIOUS
  <2> QED BY <1>4, <2>1
<1>7. (Len(done) + 1) * Each <= Places * Each
  <2>1. Len(done) + 1 \in Nat /\ Len(done) + 1 <= Places
    BY <1>1
  <2> QED BY <1>1, <1>4, <2>1, ProductLE
<1>8. Len(done) + 1 < Places => (Len(done) + 2) * Each <= Places * Each
  <2>1. Len(done) + 2 \in Nat /\ (Len(done) + 1 < Places => Len(done) + 2 <= Places)
    BY <1>1
  <2> QED BY <1>1, <1>4, <2>1, ProductLE
<1>9. TimerSize \in Nat
  BY WorkoutAssumption
<1> DEFINE n == Len(done)  P == Places * Each  D == MaxDuration * SECOND  nE == n * Each
<1>10. /\ nE \in Nat /\ D \in Nat /\ P \in Nat /\ P < TimerSize /\ N <= nE + D
       /\ (n + 1) * Each = nE + Each /\ (n + 2) * Each = nE + Each + Each
       /\ nE + Each <= P /\ (n + 1 < Places => nE + Each + Each <= P)
  BY <1>1, <1>4, <1>5, <1>6, <1>7, <1>8
<1>11. Each = D + MaxElapsed
  BY <1>4
<1>12. Each \in Nat /\ MaxElapsed \in Nat
  BY <1>4
<1> HIDE DEF P, D, nE
<1>13. /\ N + MaxElapsed < TimerSize
       /\ n + 1 < Places => /\ N + MaxElapsed + D < TimerSize
                            /\ N + MaxElapsed + D <= (n + 1) * Each + D
  BY ONLY <1>1, <1>9, <1>10, <1>11, <1>12, N \in Nat
<1> QED BY <1>13 DEF D

(* The section under way started with running_timer at N minus its time and  *)
(* ends when running_timer reaches N; t is running_timer, or what StoreTimer *)
(* is about to make of it.                                                   *)
Held(N, t) ==
    /\ Will("next_transition", N)
    /\ pc # "add" => Will("running_timer", t)
    /\ pc \in {"add", "compare", "advance"} => timer = t

Slack == IF pc \in {"add", "compare", "advance"} THEN MaxElapsed ELSE 0

OnTime(N, t) ==
    /\ since >= Lasts(Now) \/ N + since = t + Lasts(Now)
    /\ t <= N + Slack
    /\ pc = "advance" => t >= N
    /\ N <= Len(done) * Each + MaxDuration * SECOND

TimeInv ==
    clean /\ Len(done) < Places =>
        \E N, t \in 0..(TimerSize - 1) : Held(N, t) /\ OnTime(N, t)

LastedInv == clean => \A i \in DOMAIN done : done[i].lasted

Before == OrderInv /\ FieldInv

LEMMA PlanFixed ==
    ASSUME Before, clean, [Next]_vars
    PROVE  /\ Places' = Places
           /\ \A k : Planned(k)' = Planned(k) /\ Lasts(k)' = Lasts(k)
<1>1. \A f \in Data : workout'[f] = workout[f]
  BY DataKept DEF Before, OrderInv
<1>2. /\ workout.repeats' = workout.repeats
      /\ workout.warmup_duration' = workout.warmup_duration
      /\ workout.low_duration' = workout.low_duration
      /\ workout.high_duration' = workout.high_duration
      /\ workout.warmdown_duration' = workout.warmdown_duration
  BY <1>1 DEF Data
<1>3. Duration' = Duration
  BY <1>2 DEF Duration
<1>4. Places' = Places /\ \A k : Planned(k)' = Planned(k)
  BY <1>2 DEF Places, Planned
<1>5. \A k : Lasts(k)' = Lasts(k)
  <2> TAKE k
  <2>1. Planned(k)' = Planned(k)
    BY <1>4
  <2> QED BY <1>3, <2>1 DEF Lasts
<1> QED BY <1>4, <1>5

LEMMA TimeKept ==
    ASSUME Before, [Next]_vars, clean, clean', ~Reset, ~Advance, ~StoreTimer,
           HttpStore \/ SetDemand \/ RunOrPause \/ Check \/ SetSpeed \/ MainStore
               \/ UNCHANGED vars,
           NEW N \in Int, NEW t \in Int, Held(N, t), OnTime(N, t)
    PROVE  Held(N, t)' /\ OnTime(N, t)'
<1>1. UNCHANGED <<timer, since, done>>
  BY Zenon DEF HttpStore, SetDemand, RunOrPause, Request, Check, SetSpeed, MainStore, vars, ghosts
<1>2. pc' = pc \/ (pc \notin {"add", "compare", "advance"}
                     /\ pc' \notin {"add", "compare", "advance"})
  BY DEF HttpStore, SetDemand, RunOrPause, Request, Check, SetSpeed, MainStore, vars
<1>3. \A v : Will("next_transition", v) => Will("next_transition", v)'
  BY WillStep DEF Before, OrderInv, AllFields
<1>4. \A v : Will("running_timer", v) => Will("running_timer", v)'
  BY WillStep DEF Before, OrderInv, AllFields
<1>5. Held(N, t)'
  BY <1>1, <1>2, <1>3, <1>4 DEF Held
<1>6. Now' = Now /\ Lasts(Now)' = Lasts(Now) /\ Slack' = Slack /\ (pc' = "advance" => pc = "advance")
  BY <1>1, <1>2, PlanFixed DEF Now, Slack
<1>7. /\ since >= Lasts(Now) \/ N + since = t + Lasts(Now)
      /\ t <= N + Slack
      /\ pc = "advance" => t >= N
      /\ N <= Len(done) * Each + MaxDuration * SECOND
  BY DEF OnTime
<1>8. /\ since' >= Lasts(Now)' \/ N + since' = t + Lasts(Now)'
      /\ t <= N + Slack'
      /\ pc' = "advance" => t >= N
      /\ N <= Len(done') * Each + MaxDuration * SECOND
  BY <1>1, <1>6, <1>7
<1> QED BY <1>5, <1>8 DEF OnTime, Each

LEMMA TimeLoaded ==
    ASSUME NoWrap, Before, [Next]_vars, clean, clean', ~Reset, ~Advance, ~StoreTimer,
           Len(done) < Places, NEW ms \in Elapsed, LoadTimer(ms),
           NEW N \in Nat, NEW t \in Nat, Held(N, t), OnTime(N, t)
    PROVE  t + ms \in 0..(TimerSize - 1) /\ Held(N, t + ms)' /\ OnTime(N, t + ms)'
<1>1. /\ pc = "load" /\ pc' = "add" /\ done' = done /\ timer' = Added(ms)
      /\ since' = IF clean /\ since < Duration[workout.sequence] * SECOND THEN since + ms
                  ELSE since
  BY DEF LoadTimer
<1>2. workout.running_timer = t /\ Duration[workout.sequence] * SECOND = Lasts(Now)
  <2>1. pc = "load"
    BY DEF LoadTimer
  <2>2. Will("running_timer", t)
    BY <2>1 DEF Held
  <2>3. "running_timer" \in AllFields \ {"running_state"}
    BY DEF AllFields
  <2> QED BY <2>1, <2>2, <2>3, InPass DEF Before, Lasts
<1>3. ms \in Nat /\ ms <= MaxElapsed /\ MaxElapsed \in Nat /\ TimerSize \in Nat \ {0}
  <2>1. Elapsed \subseteq 0..MaxElapsed /\ MaxElapsed \in Nat
    BY DEF NoWrap
  <2>2. TimerSize \in Nat \ {0}
    BY WorkoutAssumption
  <2> QED BY <2>1, <2>2
<1>4. N + MaxElapsed < TimerSize
  BY Room DEF Before, OrderInv, OnTime
<1>5. t <= N
  BY <1>1 DEF OnTime, Slack
<1>6. t + ms \in 0..(TimerSize - 1) /\ timer' = t + ms
  <2>1. t + ms \in Nat /\ t + ms < TimerSize
    BY <1>3, <1>4, <1>5
  <2>2. (t + ms) % TimerSize = t + ms
    BY <1>3, <2>1
  <2> QED BY <1>1, <1>2, <1>3, <2>1, <2>2 DEF Added
<1>7. Held(N, t + ms)'
  <2>1. Will("next_transition", N)'
    BY WillStep DEF Before, OrderInv, AllFields, Held
  <2> QED BY <1>1, <1>6, <2>1 DEF Held
<1>8. Now' = Now /\ Lasts(Now)' = Lasts(Now) /\ Slack' = MaxElapsed
  BY <1>1, PlanFixed DEF Now, Slack
<1>9. Lasts(Now) \in Nat /\ since \in Nat
  <2>1. Lasts(Now) \in 0..(MaxDuration * SECOND) /\ MaxDuration * SECOND \in Nat
    BY SectionLasts, PlannedSection, EachFacts DEF Before, OrderInv, Lasts
  <2> QED BY <2>1 DEF Before, OrderInv, TypeInv
<1>10. since' >= Lasts(Now) \/ N + since' = (t + ms) + Lasts(Now)
  <2>1. CASE since < Lasts(Now)
    <3>1. N + since = t + Lasts(Now) /\ since' = since + ms
      BY <1>1, <1>2, <1>9, <2>1 DEF OnTime
    <3> QED BY <1>3, <1>9, <3>1
  <2>2. CASE ~(since < Lasts(Now))
    BY <1>1, <1>2, <1>9, <2>2
  <2> QED BY <2>1, <2>2
<1>11. t + ms <= N + MaxElapsed
  BY <1>3, <1>5
<1>12. /\ since' >= Lasts(Now)' \/ N + since' = (t + ms) + Lasts(Now)'
       /\ t + ms <= N + Slack'
       /\ pc' # "advance"
       /\ N <= Len(done') * Each + MaxDuration * SECOND
  BY <1>1, <1>8, <1>10, <1>11 DEF OnTime
<1> QED BY <1>6, <1>7, <1>12 DEF OnTime, Each

LEMMA TimeStored ==
    ASSUME Before, [Next]_vars, clean, clean', ~Reset, ~Advance, StoreTimer,
           NEW N \in Nat, NEW t \in Nat, Held(N, t), OnTime(N, t)
    PROVE  Held(N, t)' /\ OnTime(N, t)'
<1>1. /\ pc = "add" /\ pc' = "compare" /\ UNCHANGED <<timer, http, main, since, done>>
      /\ workout' = [workout EXCEPT !["running_timer"] = timer]
  BY DEF StoreTimer, browsers, ghosts
<1>2. Will("next_transition", N)'
  <2>1. Will("next_transition", N) /\ "next_transition" # "running_timer"
    BY DEF Held
  <2> QED BY <2>1, WillStep DEF Before, OrderInv, AllFields
<1>3. Will("running_timer", t)'
  <2>1. timer = t
    BY <1>1 DEF Held
  <2>2. Pending' = Pending
    BY <1>1 DEF Pending, HttpPending
  <2>3. \A p \in Pending : p[1] = "running_state"
    BY <1>1, PassQuiet, Quiet DEF Before, OrderInv
  <2>4. workout'["running_timer"] = timer
    <3>1. "running_timer" \in DOMAIN workout
      BY WorkoutFields DEF Before, OrderInv, TypeInv, AllFields
    <3> QED BY <1>1, <3>1
  <2> QED BY <2>1, <2>2, <2>3, <2>4 DEF Will
<1>4. Held(N, t)'
  BY <1>1, <1>2, <1>3 DEF Held
<1>5. Now' = Now /\ Lasts(Now)' = Lasts(Now) /\ Slack' = Slack
  BY <1>1, PlanFixed DEF Now, Slack
<1>6. /\ since' >= Lasts(Now)' \/ N + since' = t + Lasts(Now)'
      /\ t <= N + Slack'
      /\ pc' # "advance"
      /\ N <= Len(done') * Each + MaxDuration * SECOND
  BY <1>1, <1>5 DEF OnTime
<1> QED BY <1>4, <1>6 DEF OnTime, Each

LEMMA TimeCompared ==
    ASSUME Before, [Next]_vars, clean, clean', ~Reset, ~Advance, ~StoreTimer, Compare,
           NEW N \in Nat, NEW t \in Nat, Held(N, t), OnTime(N, t)
    PROVE  Held(N, t)' /\ OnTime(N, t)'
<1>1. pc = "compare" /\ UNCHANGED <<workout, http, main, since, done>>
  BY DEF Compare, browsers, ghosts
<1>2. timer = t /\ workout.running_timer = t /\ workout.next_transition = N
  BY <1>1, InPass DEF Before, Held, AllFields
<1>3. \/ pc' = "advance" /\ t >= N /\ timer' = t
      \/ pc' = "sleep" /\ t < N
  BY <1>2 DEF Compare, Timers
<1>4. Will("next_transition", N)' /\ Will("running_timer", t)'
  <2>1. Pending' = Pending
    BY <1>1 DEF Pending, HttpPending
  <2> QED BY <1>1, <2>1 DEF Held, Will
<1>5. Held(N, t)'
  BY <1>3, <1>4 DEF Held
<1>6. Now' = Now /\ Lasts(Now)' = Lasts(Now)
  BY <1>1, PlanFixed DEF Now
<1>7. /\ t <= N + Slack'
      /\ pc' = "advance" => t >= N
  BY <1>1, <1>3 DEF OnTime, Slack
<1>8. /\ since' >= Lasts(Now)' \/ N + since' = t + Lasts(Now)'
      /\ N <= Len(done') * Each + MaxDuration * SECOND
  BY <1>1, <1>6 DEF OnTime
<1> QED BY <1>5, <1>7, <1>8 DEF OnTime, Each

(* A section ends no sooner than it should.                                  *)
LEMMA DueTime ==
    ASSUME NoWrap, Before, clean, pc = "advance", NEW N \in Nat, NEW t \in Nat,
           Held(N, t), OnTime(N, t)
    PROVE  /\ Timers = {t}
           /\ since >= Duration[workout.sequence] * SECOND
           /\ t <= N + MaxElapsed
<1>1. timer = t /\ workout.running_timer = t
  BY InPass DEF Before, Held, AllFields
<1>2. Duration[workout.sequence] * SECOND = Lasts(Now)
  BY InPass DEF Before, Lasts
<1>3. Lasts(Now) \in Nat /\ since \in Nat
  <2>1. Lasts(Now) \in 0..(MaxDuration * SECOND) /\ MaxDuration * SECOND \in Nat
    BY SectionLasts, PlannedSection, EachFacts DEF Before, OrderInv, Lasts
  <2> QED BY <2>1 DEF Before, OrderInv, TypeInv
<1>4. t >= N /\ t <= N + MaxElapsed
      /\ (since >= Lasts(Now) \/ N + since = t + Lasts(Now))
  BY DEF OnTime, Slack
<1>5. since >= Lasts(Now)
  BY <1>3, <1>4
<1> QED BY <1>1, <1>2, <1>4, <1>5 DEF Timers

LEMMA TimeEntered ==
    ASSUME NoWrap, Before, [Next]_vars, clean, clean', pc = "advance",
           UNCHANGED <<workout, http>>,
           NEW s \in Sections, NEW counted, Enter(s, counted),
           \A p \in counted : p[1] = "interval_counter",
           Len(done) + 1 < Places, workout.sequence = Planned(Now), s = Planned(Now + 1),
           NEW N \in Nat, NEW t \in Nat, Held(N, t), OnTime(N, t)
    PROVE  \E M \in 0..(TimerSize - 1) : Held(M, t)' /\ OnTime(M, t)'
<1> PICK M : M = t + Duration[s] * SECOND
  OBVIOUS
<1>1. Timers = {t} /\ t <= N + MaxElapsed
  BY DueTime
<1>2. /\ main' = {<<"sequence", s>>, <<"next_transition", Due(t, s)>>} \union counted
      /\ pc' = "commit" /\ since' = 0 /\ done' = Ended
  BY <1>1 DEF Enter
<1>3. /\ Duration[s] * SECOND \in Nat /\ MaxDuration * SECOND \in Nat
      /\ Duration[s] * SECOND <= MaxDuration * SECOND
  BY SectionLasts, EachFacts DEF Before, OrderInv
<1>4. Len(done') = Len(done) + 1 /\ Len(done) \in Nat
  BY <1>2, DoneEnded, PlacesType DEF Before, OrderInv
<1>5. /\ N + MaxElapsed + MaxDuration * SECOND < TimerSize
      /\ N + MaxElapsed + MaxDuration * SECOND
             <= (Len(done) + 1) * Each + MaxDuration * SECOND
  <2>1. N <= Len(done) * Each + MaxDuration * SECOND /\ Len(done) < Places
    BY <1>4, PlacesType DEF OnTime, Before, OrderInv
  <2> QED BY <2>1, Room DEF Before, OrderInv
<1>6. MaxElapsed \in Nat /\ TimerSize \in Nat \ {0}
  BY WorkoutAssumption DEF NoWrap
<1>7. M \in Nat /\ M < TimerSize /\ M <= N + MaxElapsed + MaxDuration * SECOND
  BY <1>1, <1>3, <1>5, <1>6
<1>8. Due(t, s) = M
  <2>1. M % TimerSize = M
    BY <1>6, <1>7
  <2> QED BY <2>1 DEF Due
<1>9. Now' = Now + 1 /\ Lasts(Now)' = Duration[s] * SECOND
  <2>1. Now' = Now + 1
    BY <1>4 DEF Now
  <2>2. Lasts(Now)' = Lasts(Now')
    BY PlanFixed
  <2> QED BY <2>1, <2>2 DEF Lasts
<1>10. Held(M, t)'
  <2>1. \A p \in HttpPending' : p[1] = "running_state"
    <3>1. \A p \in HttpPending : p[1] = "running_state"
      BY PassQuiet, Quiet DEF Before, OrderInv, Pending
    <3>2. HttpPending' = HttpPending
      BY DEF HttpPending
    <3> QED BY <3>1, <3>2
  <2>2. workout.running_timer = t
    BY InPass DEF Before, Held, AllFields
  <2>3. Will("next_transition", M)'
    BY <1>2, <1>8, <2>1 DEF Pending, Will
  <2>4. Will("running_timer", t)'
    BY <1>2, <2>1, <2>2 DEF Pending, Will
  <2> QED BY <1>2, <2>3, <2>4 DEF Held
<1>11. /\ M + since' = t + Lasts(Now)'
       /\ t <= M + Slack'
       /\ pc' # "advance"
  BY <1>2, <1>3, <1>9 DEF Slack
<1>12. M <= Len(done') * Each + MaxDuration * SECOND
  <2>1. N + MaxElapsed + MaxDuration * SECOND <= Len(done') * Each + MaxDuration * SECOND
    BY <1>4, <1>5
  <2>2. Len(done') * Each \in Nat
    <3>1. \A x, y \in Nat : x * y \in Nat
      OBVIOUS
    <3>2. Len(done') \in Nat /\ Each \in Nat
      BY <1>4, EachFacts
    <3> QED BY <3>1, <3>2
  <2> QED BY <1>3, <1>6, <1>7, <2>1, <2>2
<1>13. M \in 0..(TimerSize - 1)
  BY <1>6, <1>7
<1>14. OnTime(M, t)'
  BY <1>11, <1>12 DEF OnTime, Each
<1> QED BY <1>10, <1>13, <1>14

LEMMA TimeAdvance ==
    ASSUME NoWrap, Before, TimeInv, LastedInv, Advance
    PROVE  TimeInv' /\ LastedInv'
<1> SUFFICES ASSUME clean'
             PROVE  /\ \A i \in DOMAIN done' : done'[i].lasted
                    /\ Len(done') < Places' =>
                           \E M, t \in 0..(TimerSize - 1) : Held(M, t)' /\ OnTime(M, t)'
  BY DEF TimeInv, LastedInv
<1>1. clean
  BY Zenon DEF Advance
<1>2. pc = "advance" /\ UNCHANGED <<workout, http>> /\ [Next]_vars
  BY Zenon DEF Advance, browsers, Next, Pass
<1>3. Places' = Places
  BY <1>2 DEF Places
<1>4. Len(done) \in Nat /\ Places \in Nat /\ DOMAIN done = 1..Len(done)
  BY PlacesType DEF Before, OrderInv
<1>5. ASSUME Len(done) < Places
      PROVE  \E N, t \in Nat : Held(N, t) /\ OnTime(N, t)
  <2>1. PICK N, t \in 0..(TimerSize - 1) : Held(N, t) /\ OnTime(N, t)
    BY <1>1, <1>5, Zenon DEF TimeInv
  <2> QED BY <2>1, WorkoutAssumption
<1>6. ASSUME Len(done) < Places, done' = Ended PROVE \A i \in DOMAIN done' : done'[i].lasted
  <2>1. PICK N, t \in Nat : Held(N, t) /\ OnTime(N, t)
    BY <1>5, <1>6
  <2>2. since >= Duration[workout.sequence] * SECOND
    BY <1>1, <1>2, <2>1, DueTime
  <2>3. /\ DOMAIN done' = 1..(Len(done) + 1)
        /\ done'[Len(done) + 1] = [section |-> workout.sequence,
                                   lasted |-> since >= Duration[workout.sequence] * SECOND]
        /\ \A i \in 1..Len(done) : done'[i] = done[i]
    BY <1>6, DoneEnded DEF Before, OrderInv
  <2>4. done'[Len(done) + 1].lasted
    <3>1. (since >= Duration[workout.sequence] * SECOND) = TRUE
      BY <2>2
    <3>2. done'[Len(done) + 1] = [section |-> workout.sequence, lasted |-> TRUE]
      BY <2>3, <3>1, Zenon
    <3> QED BY <3>2
  <2>5. \A i \in 1..Len(done) : done'[i].lasted
    <3>1. \A i \in 1..Len(done) : done[i].lasted
      BY <1>1, <1>4, Zenon DEF LastedInv
    <3> QED BY <2>3, <3>1, Zenon
  <2>6. \A i \in 1..(Len(done) + 1) : i = Len(done) + 1 \/ i \in 1..Len(done)
    BY <1>4
  <2> QED BY <2>3, <2>4, <2>5, <2>6, Zenon
<1>7. CASE Stay /\ Places = 0
  <2>1. done' = done
    BY <1>7 DEF Stay
  <2>2. ~(Len(done') < Places')
    BY <1>3, <1>4, <1>7, <2>1
  <2> QED BY <1>1, <2>1, <2>2, Zenon DEF LastedInv
<1>8. CASE /\ Len(done) + 1 < Places
           /\ \E s \in Sections : \E counted :
                  /\ Enter(s, counted) /\ s = Planned(Now + 1)
                  /\ \/ counted = {<<"interval_counter", Rounds(Now + 1)>>}
                     \/ counted = {} /\ Rounds(Now + 1) = Rounds(Now)
  <2>1. PICK s, counted :
            /\ s \in Sections /\ Enter(s, counted) /\ s = Planned(Now + 1)
            /\ \A p \in counted : p[1] = "interval_counter"
    BY <1>8
  <2>2. Len(done) < Places
    BY <1>4, <1>8
  <2>3. done' = Ended
    BY <1>1, <2>1, Zenon DEF Enter
  <2>4. PICK N, t \in 0..(TimerSize - 1) : Held(N, t) /\ OnTime(N, t)
    BY <1>1, <2>2, Zenon DEF TimeInv
  <2>5. N \in Nat /\ t \in Nat
    BY <2>4, WorkoutAssumption
  <2>6. workout.sequence = Planned(Now)
    BY <1>1, <1>2, InPass DEF Before
  <2>7. \E M \in 0..(TimerSize - 1) : Held(M, t)' /\ OnTime(M, t)'
    BY <1>1, <1>2, <1>8, <2>1, <2>4, <2>5, <2>6, TimeEntered
  <2> QED BY <1>6, <2>2, <2>3, <2>4, <2>7
<1>9. CASE /\ Finish /\ workout.sequence = "warmdown" /\ Places = 2 * workout.repeats + 2
           /\ \/ done' = Ended /\ Len(done) + 1 = Places
              \/ done' = done /\ Len(done) = Places
  <2>1. CASE done' = Ended /\ Len(done) + 1 = Places
    <3>1. Len(done') = Len(done) + 1
      BY <2>1, DoneEnded DEF Before, OrderInv
    <3>2. ~(Len(done') < Places') /\ Len(done) < Places
      BY <1>3, <1>4, <2>1, <3>1
    <3> QED BY <1>6, <2>1, <3>2
  <2>2. CASE done' = done /\ Len(done) = Places
    <3>1. ~(Len(done') < Places')
      BY <1>3, <1>4, <2>2
    <3> QED BY <1>1, <2>2, <3>1, Zenon DEF LastedInv
  <2> QED BY <1>9, <2>1, <2>2
<1>10. OrderInv
  BY DEF Before
<1> QED BY <1>1, <1>7, <1>8, <1>9, <1>10, AdvanceIs, Zenon

LEMMA TimeReset ==
    ASSUME NoWrap, Before, Reset, clean'
    PROVE  TimeInv' /\ LastedInv'
<1>1. pc = "sleep" /\ pc' = "sleep" /\ done' = <<>> /\ since' = 0 /\ UNCHANGED workout
  BY Zenon DEF Reset, Request
<1>2. LastedInv'
  BY <1>1 DEF LastedInv
<1>3. Len(done') = 0 /\ Now' = 1
  BY <1>1 DEF Now
<1> PICK N : N = workout.warmup_duration * SECOND
  OBVIOUS
<1>4. Lasts(1) = N /\ N \in 0..(MaxDuration * SECOND) /\ MaxDuration * SECOND \in Nat
  <2>1. Lasts(1) = N
    BY DEF Lasts, Planned, Duration
  <2>2. "warmup" \in Sections /\ Planned(1) = "warmup"
    BY DEF Sections, Planned
  <2> QED BY <2>1, <2>2, SectionLasts, EachFacts DEF Before, Lasts
<1>5. ASSUME Len(done') < Places' PROVE MaxDuration * SECOND < TimerSize
  <2>1. Places' = Places /\ Places \in Nat /\ Places <= 2 * MaxRounds + 2 /\ MaxRounds \in Nat
    <3>1. workout.repeats <= MaxRounds /\ MaxRounds \in Nat
      BY FieldParts DEF Before, FieldInv, Fits, NoWrap
    <3> QED BY <1>1, <3>1, PlacesType DEF Before, OrderInv, Places
  <2>2. 1 * Each <= (2 * MaxRounds + 2) * Each /\ (2 * MaxRounds + 2) * Each \in Nat
    <3>1. 2 * MaxRounds + 2 \in Nat /\ 1 <= 2 * MaxRounds + 2 /\ Each \in Nat
      BY <2>1, EachFacts
    <3> QED BY <3>1, ProductLE
  <2>3. 1 * Each = Each /\ Each = MaxDuration * SECOND + MaxElapsed
        /\ MaxElapsed \in Nat /\ MaxDuration * SECOND \in Nat
    BY EachFacts
  <2>4. (2 * MaxRounds + 2) * Each < TimerSize
    BY DEF NoWrap
  <2> QED BY <2>2, <2>3, <2>4, WorkoutAssumption
<1>6. TimeInv'
  <2> SUFFICES ASSUME Len(done') < Places'
               PROVE  \E M, t \in 0..(TimerSize - 1) : Held(M, t)' /\ OnTime(M, t)'
    BY DEF TimeInv
  <2>1. N \in 0..(TimerSize - 1) /\ 0 \in 0..(TimerSize - 1) /\ N % TimerSize = N
    <3>1. N \in Nat /\ N < TimerSize /\ TimerSize \in Nat \ {0}
      BY <1>4, <1>5, WorkoutAssumption
    <3> QED BY <3>1
  <2>2. Will("running_timer", 0)' /\ Will("next_transition", N)'
    <3> DEFINE due == (workout.warmup_duration * SECOND) % TimerSize
    <3>1. Will("running_timer", 0)' /\ Will("next_transition", due)'
      BY <1>1, ResetWill DEF Before, OrderInv
    <3>2. due' = N
      BY <1>1, <2>1
    <3> HIDE DEF due
    <3> QED BY <3>1, <3>2 DEF Will
  <2>3. Held(N, 0)'
    BY <1>1, <2>2 DEF Held
  <2>4. Lasts(Now)' = N
    <3>1. Lasts(Now)' = Lasts(1)'
      BY <1>3 DEF Lasts, Planned
    <3>2. Lasts(1)' = Lasts(1)
      BY <1>1 DEF Lasts, Planned, Duration
    <3> QED BY <1>4, <3>1, <3>2
  <2>5. OnTime(N, 0)'
    <3>1. /\ N + since' = 0 + Lasts(Now)'
          /\ 0 <= N + Slack'
          /\ pc' # "advance"
      BY <1>1, <1>4, <2>4 DEF Slack
    <3>2. N <= Len(done') * Each + MaxDuration * SECOND
      <4>1. Len(done') * Each = 0
        BY <1>3, EachFacts
      <4> QED BY <1>4, <4>1
    <3> QED BY <3>1, <3>2 DEF OnTime, Each
  <2> QED BY <2>1, <2>3, <2>5
<1> QED BY <1>2, <1>6

LEMMA TimeStep ==
    NoWrap /\ Before /\ TimeInv /\ LastedInv /\ [Next]_vars => TimeInv' /\ LastedInv'
<1> SUFFICES ASSUME NoWrap, Before, TimeInv, LastedInv, [Next]_vars, clean'
             PROVE  TimeInv' /\ LastedInv'
  BY DEF TimeInv, LastedInv
<1>1. CASE Reset
  BY <1>1, TimeReset
<1>2. CASE Advance
  BY <1>2, TimeAdvance
<1>3. CASE ~Reset /\ ~Advance
  <2>1. clean
    BY <1>3, CleanKept, Zenon
  <2>2. ~Load
    BY Zenon DEF Load
  <2>3. done' = done
    BY <1>3, <2>2, Zenon DEF Next, Browser, SetDemand, RunOrPause, HttpStore, Pass, Check,
       SetSpeed, LoadTimer, StoreTimer, Compare, MainStore, vars, ghosts
  <2>4. LastedInv'
    BY <2>1, <2>3, Zenon DEF LastedInv
  <2>5. Places' = Places
    BY <2>1, PlanFixed
  <2>6. TimeInv'
    <3> SUFFICES ASSUME Len(done) < Places
                 PROVE  \E M, u \in 0..(TimerSize - 1) : Held(M, u)' /\ OnTime(M, u)'
      BY <2>3, <2>5 DEF TimeInv
    <3>1. PICK N, t \in 0..(TimerSize - 1) : Held(N, t) /\ OnTime(N, t)
      BY <2>1, Zenon DEF TimeInv
    <3>2. N \in Nat /\ t \in Nat /\ N \in Int /\ t \in Int
      BY <3>1, WorkoutAssumption
    <3>3. CASE StoreTimer
      BY <1>3, <2>1, <3>1, <3>2, <3>3, TimeStored
    <3>4. CASE ~StoreTimer /\ \E ms \in Elapsed : LoadTimer(ms)
      <4>1. PICK ms \in Elapsed : LoadTimer(ms)
        BY <3>4
      <4>2. t + ms \in 0..(TimerSize - 1) /\ Held(N, t + ms)' /\ OnTime(N, t + ms)'
        BY <1>3, <2>1, <3>1, <3>2, <3>4, <4>1, TimeLoaded
      <4> QED BY <3>1, <4>2
    <3>5. CASE ~StoreTimer /\ Compare
      BY <1>3, <2>1, <3>1, <3>2, <3>5, TimeCompared
    <3>6. CASE ~StoreTimer /\ (HttpStore \/ SetDemand \/ RunOrPause \/ Check \/ SetSpeed
                                 \/ MainStore \/ UNCHANGED vars)
      BY <1>3, <2>1, <3>1, <3>2, <3>6, TimeKept
    <3> QED BY <1>3, <2>2, <3>3, <3>4, <3>5, <3>6 DEF Next, Browser, Pass
  <2> QED BY <2>4, <2>6
<1> QED BY <1>1, <1>2, <1>3

LEMMA PlanFollowedNow == OrderInv /\ LastedInv => FollowsPlan
<1> SUFFICES ASSUME OrderInv, LastedInv, clean PROVE FollowsPlan
  BY DEF FollowsPlan
<1>1. /\ Len(done) <= Places
      /\ \A i \in DOMAIN done : done[i].section = Planned(i)
      /\ ~Resetting /\ pc # "commit" => workout.sequence = Planned(Now)
  BY PlanSays DEF OrderInv, InOrder
<1>2. \A i \in DOMAIN done : done[i].lasted
  BY Zenon DEF LastedInv
<1> QED BY <1>1, <1>2, Zenon DEF FollowsPlan, Places, Now

(* A workout that was reset goes through the sections of its plan and each   *)
(* lasts at least its time, if the whole workout and what its passes run     *)
(* over fit the timer.                                                       *)
THEOREM PlanFollowed == ASSUME NoWrap PROVE Spec => []FollowsPlan
<1>1. Init => Before /\ TimeInv /\ LastedInv
  <2> SUFFICES ASSUME Init PROVE Before /\ TimeInv /\ LastedInv
    OBVIOUS
  <2>1. TimeInv /\ LastedInv
    BY Zenon DEF Init, TimeInv, LastedInv
  <2> QED BY <2>1, TypeInit, QuietInit, PlanInit, FieldInit DEF Before, OrderInv
<1>2. Before /\ [Next]_vars => Before'
  BY TypeStep, HttpStep, MainStep, PlanStep, FieldStep DEF Before, OrderInv
<1>3. TimeInv /\ LastedInv /\ Before /\ [Next]_vars => (TimeInv /\ LastedInv)'
  BY TimeStep
<1>4. Before /\ LastedInv => FollowsPlan
  BY PlanFollowedNow DEF Before
<1> QED BY <1>1, <1>2, <1>3, <1>4, PTL DEF Spec
===============================================================================
