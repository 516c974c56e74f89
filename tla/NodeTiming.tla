------------------------------ MODULE NodeTiming ------------------------------
(***************************************************************************)
(* NodeServer with its two intervals (modbus4.js:45,130) and the time the  *)
(* gateway takes: service_modbus_queue is due every tenth of a second,     *)
(* read_registers every ReadEvery-th of those ticks, and a request is      *)
(* answered within a number of ticks that each behaviour chooses.  Every   *)
(* behaviour of it is one of NodeServer, so what holds there holds here;   *)
(* what is asked here is whether the queue, a stack to which a read is     *)
(* added every second whether the last one was sent or not, is ever        *)
(* emptied, and whether the workout's own writes meet in it.               *)
(***************************************************************************)
EXTENDS NodeServer

CONSTANTS
    ReadEvery,       \* ticks from one read to the next; 10 in the code
    MaxDelay         \* the longest delay of an answer, in ticks

ASSUME TimingAssumption ==
    /\ ReadEvery \in Nat \ {0}
    /\ MaxDelay \in Nat \ {0}

VARIABLES
    phase,           \* ticks since read_registers was last due
    due,             \* the callbacks that have come due and not run yet
    waited,          \* ticks that the outstanding request has been waiting
    delay            \* ticks within which a request is answered; it never changes

clock     == <<phase, due, waited, delay>>
timedVars == <<vars, clock>>

TimedInit ==
    /\ Init
    /\ phase = 0
    /\ due = {}
    /\ waited = 0
    /\ delay \in 1..MaxDelay

CallbacksEveryTick(p) == {"service", "read"}   \* mutant: read_registers every 100 ms

Callbacks(p) == {"service"} \union (IF p = 0 THEN {"read"} ELSE {})

(* A tenth of a second passes.  Before the next one does, the callbacks run  *)
(* and an answer that is due comes.                                          *)
Tick ==
    /\ due = {}
    /\ wire = <<>> \/ waited < delay
    /\ phase' = (phase + 1) % ReadEvery
    /\ due' = Callbacks(phase')
    /\ waited' = IF wire = <<>> THEN 0 ELSE waited + 1
    /\ UNCHANGED <<vars, delay>>

Runs(callback) ==
    /\ callback \in due
    /\ due' = due \ {callback}
    /\ UNCHANGED <<phase, waited, delay>>

ServiceDue ==
    /\ Runs("service")
    /\ IF up /\ ~modbus_busy /\ modbus_queue # <<>>
       THEN service_modbus_queue
       ELSE UNCHANGED vars

ReadDue ==
    /\ Runs("read")
    /\ IF up /\ Len(modbus_queue) < MaxQueue
       THEN read_registers
       ELSE UNCHANGED vars

Answered == Respond /\ waited' = 0 /\ UNCHANGED <<phase, due, delay>>
Aside    == (Link \/ Browser) /\ UNCHANGED clock

TimedNext == Tick \/ ServiceDue \/ ReadDue \/ Answered \/ Aside

(* Time passes, callbacks that are due run, and the Arduino answers.         *)
(* Browsers, faults and the supply need not do anything.                     *)
TimedSpec ==
    /\ TimedInit /\ [][TimedNext]_timedVars
    /\ WF_timedVars(Tick) /\ WF_timedVars(ServiceDue) /\ WF_timedVars(ReadDue)
    /\ WF_timedVars(Execute /\ UNCHANGED clock) /\ WF_timedVars(Answered)

-----------------------------------------------------------------------------
(* The queue never holds more than what it began with and one request for    *)
(* each PUT: the reads and the speeds of the workout, two a second, are sent *)
(* as fast as they are added (modbus4.js:60).  That takes an answer in less  *)
(* than half a second (MaxDelay at most 4).  It also says that the bound     *)
(* MaxQueue is not met.                                                      *)
QueueBounded == Len(modbus_queue) <= Len(Initial) + puts

(* The queue is emptied over and over: what lies at its bottom is sent, no   *)
(* matter that reads keep being put on top of it.                            *)
QueueDrains == []<>(modbus_queue = <<>>)

(* The workout never puts a speed on its own older one, which would undo it, *)
(* as long as all there may be to send between two reads is answered in time *)
(* for the next: the request under way, the read, the speed, and what        *)
(* browsers have PUT.                                                        *)
UndoesItself ==
    /\ wire # <<>> /\ Head(wire).req.fc = "read"
    /\ IsQueued(SpeedDemand) /\ steered # Nobody
    /\ Answered /\ modbus_queue' # modbus_queue

NeverUndoesItself ==
    [][(2 + puts) * (delay + 1) < ReadEvery => ~UndoesItself]_timedVars

(* The registers are read over and over, as long as no answer is lost and no *)
(* error ends the process.                                                   *)
KeepsReading == []<>(\E i \in DOMAIN wire : wire[i].req.fc = "read")
                /\ []<>(wire = <<>>)

(* A workout left running comes to its end. *)
WorkoutEnds == <>[](mode = "ON") => <>[](runtime >= TotalTime(Active))
===============================================================================
