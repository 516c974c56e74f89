-------------------------------- MODULE Workout --------------------------------
(***************************************************************************)
(* The workout of the old web server (WebServer.c), which did the work of  *)
(* the gateway and of the Node server: one thread answers browsers, and    *)
(* the main thread advances the workout in each pass of its loop.  They    *)
(* share its fields without any lock: loads and stores of a shared field   *)
(* are steps of their own where the other thread can tell, and stores with *)
(* no call between them may be made in any order.                          *)
(***************************************************************************)
EXTENDS Integers, Sequences

CONSTANTS
    SECOND,      \* 1000 milliseconds
    TimerSize,   \* values of an unsigned long; 2^32 on the Raspberry Pi
    Elapsed,     \* milliseconds that a pass of the main loop may take
    Loaded,      \* the list that was put after ?workout= first
    Lists,       \* lists that browsers put there later; they may end early
    Demands,     \* what browsers put after ?demand=
    MaxRequests  \* bound on the number of requests

ASSUME WorkoutAssumption ==
    /\ SECOND \in Nat \ {0}
    /\ TimerSize \in Nat \ {0}
    /\ Elapsed \subseteq Nat
    /\ Loaded \in Seq(Int) /\ Len(Loaded) = 9
    /\ \A list \in Lists : list \in Seq(Int) /\ Len(list) <= 9
    /\ Demands \subseteq Int
    /\ MaxRequests \in Nat

VARIABLES
    workout,           \* the fields of T_WORKOUT
    new_demand_speed,
    http,              \* sets of stores that the browsers' thread is about to do
    requests,          \* how many requests were made
    pc,                \* where the main thread is
    timer,             \* the sum in workout.running_timer += elapsed, while it is used
    main,              \* the stores that the main thread is about to do
    clean,             \* ghost: the workout was reset since it was last loaded, and
                       \* no pass of the main loop overlapped the reset
    since,             \* ghost: for how long the present section has run
    done               \* ghost: the sections that have ended since the reset, and
                       \* whether they lasted as long as they should

browsers == <<http, requests>>
ghosts   == <<clean, since, done>>
vars     == <<workout, new_demand_speed, browsers, pc, timer, main, ghosts>>

Sections  == {"warmup", "low", "high", "warmdown"}
RunStates == {"initial", "paused", "running", "finished"}

(* The fields in the order of the list after ?workout=. *)
Fields == <<"warmup_speed", "warmup_duration", "low_speed", "low_duration", "high_speed",
            "high_duration", "repeats", "warmdown_speed", "warmdown_duration">>

Speed    == [warmup |-> workout.warmup_speed, low |-> workout.low_speed,
             high |-> workout.high_speed, warmdown |-> workout.warmdown_speed]
Duration == [warmup |-> workout.warmup_duration, low |-> workout.low_duration,
             high |-> workout.high_duration, warmdown |-> workout.warmdown_duration]

TypeOK ==
    /\ workout.running_state \in RunStates
    /\ workout.sequence \in Sections
    /\ workout.running_timer \in 0..(TimerSize - 1)
    /\ workout.next_transition \in 0..(TimerSize - 1)
    /\ workout.interval_counter \in Nat
    /\ \A i \in DOMAIN Fields : workout[Fields[i]] \in Int
    /\ new_demand_speed \in Int
    /\ requests \in 0..MaxRequests
    /\ pc \in {"sleep", "speed", "load", "add", "compare", "advance", "commit"}
    /\ timer \in 0..(TimerSize - 1)
    /\ clean \in BOOLEAN

(* All is zero when the program starts; then the first workout is loaded.    *)
Init ==
    /\ workout = [running_state |-> "initial", running_timer |-> 0, next_transition |-> 0,
                  sequence |-> "warmup", interval_counter |-> 0,
                  warmup_speed |-> Loaded[1], warmup_duration |-> Loaded[2],
                  low_speed |-> Loaded[3], low_duration |-> Loaded[4],
                  high_speed |-> Loaded[5], high_duration |-> Loaded[6],
                  repeats |-> Loaded[7],
                  warmdown_speed |-> Loaded[8], warmdown_duration |-> Loaded[9]]
    /\ new_demand_speed = 0
    /\ http = <<>>
    /\ requests = 0
    /\ pc = "sleep"
    /\ timer = 0
    /\ main = {}
    /\ clean = FALSE
    /\ since = 0
    /\ done = <<>>

-----------------------------------------------------------------------------
(* The browsers' thread. *)

Request ==
    /\ http = <<>>
    /\ requests < MaxRequests
    /\ requests' = requests + 1
    /\ UNCHANGED <<workout, pc, timer, main>>

SetDemand ==
    /\ Request
    /\ new_demand_speed' \in Demands
    /\ UNCHANGED <<http, ghosts>>

(* Calls of atoi between them keep these stores in order. *)
Load ==
    /\ Request
    /\ \E list \in Lists : http' = [i \in DOMAIN list |-> {<<Fields[i], list[i]>>}]
    /\ clean' = FALSE
    /\ since' = 0
    /\ done' = <<>>
    /\ UNCHANGED new_demand_speed

Reset ==
    /\ Request
    /\ http' = <<{<<"running_state", "initial">>, <<"running_timer", 0>>, <<"sequence", "warmup">>,
                  <<"next_transition", (workout.warmup_duration * SECOND) % TimerSize>>,
                  <<"interval_counter", 0>>}>>
    /\ clean' = (pc = "sleep")
    /\ since' = 0
    /\ done' = <<>>
    /\ UNCHANGED new_demand_speed

RunOrPause ==
    /\ Request
    /\ \E s \in {"running", "paused"} : http' = <<{<<"running_state", s>>}>>
    /\ UNCHANGED <<new_demand_speed, ghosts>>

Resetting == http # <<>> /\ \E s \in Head(http) :
                 s = <<"running_state", "initial">>
                     \/ s[1] \in {"running_timer", "sequence", "next_transition", "interval_counter"}

HttpStore ==
    /\ http # <<>>
    /\ \E s \in Head(http) :
           /\ workout' = [workout EXCEPT ![s[1]] = s[2]]
           /\ http' = IF Head(http) = {s} THEN Tail(http)
                      ELSE [http EXCEPT ![1] = @ \ {s}]
    /\ UNCHANGED <<new_demand_speed, requests, pc, timer, main, ghosts>>

-----------------------------------------------------------------------------
(* The main thread: a pass of its loop while the workout is running. *)

Check ==
    /\ pc = "sleep"
    /\ workout.running_state = "running"
    /\ pc' = "speed"
    /\ clean' = (clean /\ ~Resetting)
    /\ UNCHANGED <<workout, new_demand_speed, browsers, timer, main, since, done>>

SetSpeed ==
    /\ pc = "speed"
    /\ new_demand_speed' = Speed[workout.sequence]
    /\ pc' = "load"
    /\ UNCHANGED <<workout, browsers, timer, main, ghosts>>

AddedUnwrapped(ms) == workout.running_timer + ms   \* mutant: a timer that does not wrap

Added(ms) == (workout.running_timer + ms) % TimerSize

(* ms have elapsed since the last pass, up to one pass of them while the     *)
(* workout was paused: time is what the program counts.  since counts no     *)
(* further than a section lasts.                                             *)
LoadTimer(ms) ==
    /\ pc = "load"
    /\ timer' = Added(ms)
    /\ since' = IF clean /\ since < Duration[workout.sequence] * SECOND THEN since + ms ELSE since
    /\ pc' = "add"
    /\ UNCHANGED <<workout, new_demand_speed, browsers, main, clean, done>>

StoreTimer ==
    /\ pc = "add"
    /\ workout' = [workout EXCEPT !.running_timer = timer]
    /\ pc' = "compare"
    /\ UNCHANGED <<new_demand_speed, browsers, timer, main, ghosts>>

(* The compiler may load running_timer again or keep it. *)
Timers == {timer, workout.running_timer}

Compare ==
    /\ pc = "compare"
    /\ \E t \in Timers :
           \/ t >= workout.next_transition /\ pc' = "advance" /\ UNCHANGED timer
           \/ t < workout.next_transition /\ pc' = "sleep" /\ timer' = 0
    /\ UNCHANGED <<workout, new_demand_speed, browsers, main, ghosts>>

DueFromNext(t, s) ==   \* mutant: counted from the transition that was due
    (workout.next_transition + Duration[s] * SECOND) % TimerSize

Due(t, s) == (t + Duration[s] * SECOND) % TimerSize

RoundNotCounted == {}   \* mutant: no interval_counter++
RoundCounted == {<<"interval_counter", workout.interval_counter + 1>>}

LastRound == workout.interval_counter + 1 >= workout.repeats

Ended == Append(done, [section |-> workout.sequence,
                       lasted |-> since >= Duration[workout.sequence] * SECOND])

Enter(s, counted) ==
    /\ \E t \in Timers : main' = {<<"sequence", s>>, <<"next_transition", Due(t, s)>>} \union counted
    /\ pc' = "commit"
    /\ since' = 0
    /\ done' = IF clean THEN Ended ELSE done

(* A workout without repeats stays in its warm-up. *)
Stay ==
    /\ pc' = "sleep"
    /\ UNCHANGED <<main, since, done>>

Finish ==
    /\ main' = {<<"running_state", "finished">>}
    /\ pc' = "commit"
    /\ done' = IF clean /\ (done = <<>> \/ done[Len(done)].section # "warmdown") THEN Ended ELSE done
    /\ UNCHANGED since

Advance ==
    /\ pc = "advance"
    /\ \/ workout.sequence = "warmup" /\ workout.repeats > 0 /\ Enter("low", {<<"interval_counter", 0>>})
       \/ workout.sequence = "warmup" /\ workout.repeats <= 0 /\ Stay
       \/ workout.sequence = "low" /\ Enter("high", {})
       \/ workout.sequence = "high" /\ LastRound /\ Enter("warmdown", RoundCounted)
       \/ workout.sequence = "high" /\ ~LastRound /\ Enter("low", RoundCounted)
       \/ workout.sequence = "warmdown" /\ Finish
    /\ timer' = 0
    /\ UNCHANGED <<workout, new_demand_speed, browsers, clean>>

MainStore ==
    /\ pc = "commit"
    /\ \E s \in main :
           /\ workout' = [workout EXCEPT ![s[1]] = s[2]]
           /\ main' = main \ {s}
           /\ pc' = IF main = {s} THEN "sleep" ELSE "commit"
    /\ UNCHANGED <<new_demand_speed, browsers, timer, ghosts>>

-----------------------------------------------------------------------------
Browser == SetDemand \/ Load \/ Reset \/ RunOrPause
Pass    == \/ Check \/ SetSpeed \/ (\E ms \in Elapsed : LoadTimer(ms))
           \/ StoreTimer \/ Compare \/ Advance \/ MainStore
Next    == Browser \/ HttpStore \/ Pass

Spec == Init /\ [][Next]_vars

(* Both threads run.                                                         *)
FairSpec == Spec /\ WF_vars(Pass) /\ WF_vars(HttpStore)

-----------------------------------------------------------------------------
(* A workout that was reset after it was loaded, by a reset that met no pass *)
(* of the main loop, goes through its sections in their order, with as many  *)
(* rounds as it says, and each lasts at least its time; wherever in a pass   *)
(* browsers pause it and let it run again.                                   *)
Planned(i) == IF i = 1 THEN "warmup"
              ELSE IF i > 2 * workout.repeats + 1 THEN "warmdown"
              ELSE IF i % 2 = 0 THEN "low" ELSE "high"

FollowsPlan ==
    clean =>
        /\ Len(done) <= IF workout.repeats > 0 THEN 2 * workout.repeats + 2 ELSE 0
        /\ \A i \in DOMAIN done :
               done[i].section = Planned(i) /\ done[i].lasted
        /\ ~Resetting /\ pc # "commit" => workout.sequence = Planned(Len(done) + 1)

(* Such a workout, if it has rounds and is let run, ends.                    *)
WorkoutFinishes ==
    clean /\ workout.running_state = "running" /\ workout.repeats > 0
        ~> ~clean \/ workout.running_state # "running"
=============================================================================
