---------------------------- MODULE MCNodeServer ----------------------------
(* Small instances of the web server for TLC. *)
EXTENDS NodeServer, TLC

(* 32768 * exp(-2 Pi f / 100) for f = 0.25 Hz and 1 Hz *)
TwoFilters == (25 :> 32257) @@ (100 :> 30772)

(* The dummy workout. *)
NoWorkout == Loaded(<<>>)

(* Four files: a short ramp, a workout with a pause, whose speed 0 setValue  *)
(* does not take, and an empty section; and two that are not taken.          *)
Files ==
    << [fields |-> Fields,
        sections |-> <<[speed |-> 10, duration |-> 2], [speed |-> 40, duration |-> 1]>>],
       [fields |-> Fields,
        sections |-> <<[speed |-> 5, duration |-> 1], [duration |-> 1]>>],
       [fields |-> Fields,
        sections |-> <<[speed |-> 30, duration |-> 1], [speed |-> 0, duration |-> 1],
                       [speed |-> 20, duration |-> 0], [speed |-> 55, duration |-> 2]>>],
       [fields |-> {"name", "sections"}, sections |-> <<>>] >>

TwoWorkouts == Loaded(Files)

None == {}

JustStarted == {PowerOn}

(* Started with the server; or running, controlled and with its other command *)
(* bit (START_STOP_BIT) set.                                                 *)
Running == {PowerOn, [PowerOn EXCEPT ![Control] = 3, ![SpeedDemand] = 300]}

EveryPut == { [name |-> "control_active", value |-> 0], [name |-> "control_active", value |-> 1],
              [name |-> "speed_demand", value |-> 0], [name |-> "speed_demand", value |-> 55],
              [name |-> "speed_demand_volts", value |-> 500],
              [name |-> "speed_demand_register", value |-> 300],
              [name |-> "control_deadband_volts", value |-> 10],
              [name |-> "control_timeconst", value |-> 20000],
              [name |-> "control_timeconst", value |-> 70000],
              [name |-> "speed_actual_filter_COF", value |-> 100],
              [name |-> "supply_power_filter_COF", value |-> 100] }

SpeedPuts == { [name |-> "speed_demand", value |-> 1] }

Buttons == { [name |-> "control_active", value |-> 0], [name |-> "control_active", value |-> 1] }

SomeRuntimes == {1, 9}
MinusOne == -1
ClockSteps == {-1, 1, 3}
OneSecond == {1, 2}
OffOn == {0, 1023}
Off == {0}
=============================================================================
