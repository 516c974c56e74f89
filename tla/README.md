# A verification of the EndlessPool controller

The repository controls the current of a swimming pool. A browser talks to a web
server on a Raspberry Pi; the server talks Modbus/TCP to a gateway on the same
Raspberry Pi; the gateway talks Modbus over a serial line to an Arduino; and the
Arduino, which measures the speed of the water, presses the pump's "faster" and
"slower" by radio.

    browsers --HTTP--> modbus4.js --Modbus/TCP--> modbus_gateway.c
                                                      | serial
                pump  <--radio-- SwimSpeedController.ino + ModbusSlave.cpp

This directory holds TLA+ modules of these programs, the configurations with which
TLC checks them on small instances, and proofs, checked by TLAPS, of what matters
most for every value of the constants. `PROJECT.json` lists the components, the runs,
the mutants that show that each property can fail, the source lines of each
definition, the findings, the hazards and the theorems.

- `tlc -config X.cfg M` checks a run; `tlapm M_proofs.tla` checks a module's proofs.

## 1. Inventory

Paths are relative to `src/`.

| Component | State | Operations | Talks to |
|---|---|---|---|
| Modbus gateway, `RaspberryPi/ModbusGateway/modbus_gateway.c` | the port, the client's socket, one request, attempts left | open and flush the port; accept; read a request; write it, wait, read, check, retry or forward; reset | the server's socket, the serial line |
| Modbus slave, `ArduinoUno/SwimSpeedController/ModbusSlave.cpp` | ten registers, a frame | `task()`: read and write registers, exceptions | the gateway, `loop()` |
| Control loop, `SwimSpeedController.ino` `loop()` | filters, settings, demand, interval and time of the last message | sample, exchange registers with the slave, compute the interval, begin a message | the slave, the interrupt |
| Radio transmitter, `SwimSpeedController.ino` `radioTimerISR()` | pointer to the next bit, bits left, pin, ticks left | one tick of 350 us | `loop()`, through two shared variables |
| Node server, `RaspberryPi/NodeWebServer/modbus4.js` | request stack, busy flag, copy of the registers, workouts, mode and run time | two timers, three kinds of answers, eight PUTs of values, three of the workout, GETs | browsers, the Modbus client |
| Modbus client, `NodeWebServer/modbus-stack/client.js`, `modbus-stack.js` 65-161 | per call: a buffer, the header, the function code, whether it listens | make a request, read a response chunk by chunk | the server, a TCP connection |
| Modbus server, `NodeWebServer/modbus-stack/server.js`, `modbus-stack.js` 165-253 | per request: the same, and whether it was read | read a request, call a handler, write a response or an exception | a TCP connection, the program's handlers |
| Old web server, `RaspberryPi/WebServer/WebServer.c` | a workout, orders and status, shared by two threads | serve a request; poll the serial line and advance the workout | browsers, an older Arduino program |
| Simulator, `ModbusArduinoSimulator/main.c` | registers, a simple pump | a Modbus/TCP request | the server |
| Browser pages, `NodeWebServer/*.html`, `loader.js` | what is shown | poll and PUT | the server |
| Test program `WebServer/modbus_master.c`; build files; the stack's examples and tests; TimerOne | none of interest | | |

What is hard about them:

- **No matching of answers to requests.** Serial frames have no sequence number, and the
  Modbus client ignores transaction ids and gives every chunk to every reader that is still
  attached. All rely on there being one request at
  a time (the gateway's loop, the server's `modbus_busy`), in the presence of lost,
  late, damaged and split frames, retries and resets.
- **An interrupt without locks.** The loop hands the interrupt a message in two
  variables, one of them two bytes long on the AVR, with interrupts enabled.
- **A queue that is a stack.** `service_modbus_queue` sends the newest request first, and
  what is added each second has to be sent within it.
- **A stream of bytes** that arrives in chunks of any size and is cut into messages by counting.
- **Copies.** The server keeps a copy of the registers and writes one bit of it back;
  the Arduino keeps its settings twice and copies them to and fro in each pass.
- **Numbers of 16 and 32 bits**: differences, squares and counters that wrap.
- **A control loop** with delay, noise and a deadband, which should come to rest.
- **A workout** driven by the wall clock, by answers and by browsers at once.
- **Two unsynchronised threads** in the old web server.

What makes each of them correct: the gateway passes each answer to the request and the
connection it is for, and comes back into service for the next client; the radio sends whole messages with
exact pulses; the control loop acts on the latest orders, keeps its messages apart
and comes to rest; the server sends one request at a time, never changes a bit it was not
asked to with an old copy, and has the pool follow the workout; the Modbus library gives each call its own
answer, once. The `hazards` of `PROJECT.json` list,
line by line, where each of these could go wrong.

## 2. Modules

### ModbusGateway

`pc` is where `main()` stands: `open_usb` (208-268), `accept` (271), `request`
(285-309), `write` (312), `first_char` (324-332), `rest` (340-352). Around it are the
client's socket (`client`, `tcp_in`, `tcp_out`), the serial line in both directions
(`to_slave`, `line`), the kernel's input buffer (`tty`), and the slave's task with one
register (`reg`). Each action is one stretch of `main()` between two system calls.

Bytes are abstracted to *fragments*: what arrives in one burst is a whole frame, its
head, its tail, or bytes that no CRC matches. A frame carries, as a ghost, the
request it was made for (`of`); the gateway never looks at it. `CrcOK` says which
buffers check out: one whole frame, or a head followed by its own tail. Faults are
chosen by the constant `Faults`: requests and answers get lost, answers are damaged
or split, noise comes in, the port or `accept()` fails, opening the port restarts the Arduino.
A client may close at any time: before it is accepted (`accept()` returns its connection all the same, and
the end of the stream is read from it, `HangUp`), or with requests on their way. `ended` is the process
ended, by a failed `accept()` or by SIGPIPE. An `open()` of the port that fails is tried again and changes
nothing: it is a stuttering step.

Assumptions: after the ten seconds of sleep in `OpenUSB` the slave has said all it had to
say (its reply takes milliseconds); a CRC never matches a damaged frame; a `write()` to a client that
has gone succeeds, fails, or raises SIGPIPE; `sleep`s are not otherwise timed, so that
`RESPONSE_TIMEOUT` may pass at any moment at which no byte is there.

### RadioMessage and RadioTransmitter

`RadioMessage` is what the radio promises: one message at a time, as a complete train of
pulses of the right widths, each after the right pause; only the first may be of one of
`FirstWidths` instead. `RadioTransmitter` has the
variables of the program, and one action for each way through `radioTimerISR` (nothing
due, a pulse begins, a pulse ends) and for each of the loop's stores. An
interrupt may come between any two stores; since they take less than a microsecond and it
comes every 350, at most one does. The
pointer's two bytes are stored separately, and the half-stored pointer points to a byte of
`Garbage` (with none, pointers are stored at once). The ghosts `run`, `gap` and `air` record what is
on the air; `air` and the message pointed to are the refinement mapping (`Promise`).
`radio_ISR_counter` has its width, `CounterMin`, and wraps; since the overflow of a signed number
is undefined in C, the comparison after it sees the value before or after the wrap (`Compared`).

### NodeServer

Node runs one callback at a time, so each timer, answer and PUT is one action:
`service_modbus_queue`, `read_registers`, `ReadResponse`, `WriteResponse`,
`ErrorResponse`, `PutValue`, `PutIndex`, `PutRuntime`, `PutMode`, `PutMalformed`. A queued closure
is a record of what it will send. `Accepts` and `Converted` are `setValue`'s conditions
and conversions (volts in hundredths, speeds in whole numbers; the filter's exponential is
the table `FilterRegister`). `ReadResponse` includes the workout's step (176-205). The
gateway and the Arduino are their registers and `Execute`, `Fail`. The ghosts record what
was asked for (`asked`), what will be left when nothing is queued (`winner`), at what run time of which workout the
write that is to win was put, if the workout put it (`steered`), and whether `control_active` was set before the
registers were first read (`blind`).

The Arduino may already be running when the server starts: `Found` is what it may hold then. A lost answer is a
reset of the gateway (`modbus_gateway.c:393-406`), before or after the Arduino has done what it was asked, and
opening the port again may restart the Arduino: `Fail` takes the registers to `PowerOn`, or leaves them. The
server does not notice the reset and waits for ever; `Restarted` is the state in which the registers are
those of `setup()` for this reason.

`Loaded` is what `initialiseSystem` takes from the files of workouts (`MCNodeServer.Files` are four,
two of them not well formed); the constant `Workouts` is its result. `PutMalformed` is a body that is
no JSON, or an index between two workouts: the exception ends the process (`up`). The faults a run
allows, `Faults`, are a lost answer, an error, and such a body.

Not modelled: GETs, and PUTs that change nothing; the computed copies in `system_state`, which
are only shown.

A section of speed 0 is *not* followed: `setValue` takes no 0, so a pause keeps the speed of
the section before it. At the end of a workout the speed stays, too.

### NodeTiming

`NodeServer` with its two intervals. A `Tick` is a tenth of a second; `service_modbus_queue` is due in
each, `read_registers` in every `ReadEvery`-th, and a request is answered within `delay` ticks, which each behaviour chooses
from 1 to `MaxDelay`. What
is due runs before the next tick; PUTs come at any time. A step of `NodeTiming` is a step of
`NodeServer` or leaves its variables alone.

### Workout

The workout of the old web server. The browsers' thread has a list of stores still to do (`http`): those
of a new workout in order, since `atoi` is called between them, those of a reset in any order. The
main thread's pass goes through `pc`: `speed` (428-443), `load` and `add` (the two halves of 445),
`compare` (446), `advance` (448-484) and `commit`, its stores, in any order, too. Where the
compiler may load `running_timer` again or keep it, both happen (`Timers`); `sequence` is
read once in a transition. A pass that finds the workout not running changes
nothing and is no step. The ghost `clean` says that the workout was reset after it was loaded and
that no pass overlapped the reset; `since` and `done` record which sections have run and whether
they lasted, in the time the program counts: the first pass after a pause counts what has elapsed since the
last one (421-423), paused or not. Initially a whole workout has been loaded; a list that ends early leaves the rest of
the fields as they were. `elapsed` is what the clock has gone forward; setting it back is left
out.

### ModbusSlave and SpeedController

`ModbusSlave` has no state but the bank of ten registers: `task(bank, f)` is what one call of
`task()` makes of frame `f`, namely the new bank, the registers set, and the reply, with one operator for each
member function and the same order of checks. A frame that is not whole (its CRC does not match) or is
for another slave is dropped; one for all is done without a reply. The sum of start and count is
taken modulo `WordSize`, as in the code; `Fits` excludes blocks for which it wraps, since the
code then goes on behind the bank, and no master in the repository asks for one. Function codes are all those
of a byte: that of an exception, `fcode + 0x80`, wraps in it.

One step of `SpeedController` is one pass of `loop()`: `Sample`, `Task` between `Loaded` and `ReadBack`, `Control`
with `Transmit` and `Send`. A word has `WordSize` values and arithmetic is done modulo it, as
on the AVR: the error is a difference of words, its square wraps, and a division by zero
yields anything in `DivByZero`. The speed filter is kept in parts of `1 / FilterScale` and
rounded down; the supply voltage's filter only yields some value. `Task` is a pass without a
frame, or one that serves a frame of `Traffic`. Time is
`sampled` and `waited`, the milliseconds since the last sample and since
`radioTX_previousMillis`; the subtraction of unsigned times makes their own wrapping
invisible. The interrupt is abstracted to `RadioDone`: the message is over and the pump
turns by one step. (RadioTransmitter shows that a message once begun is sent to its end.)

### ModbusStream, ModbusClient, ModbusServer, ModbusStack and ModbusExchange

The library `modbus-stack` on one TCP connection. `ModbusStream` has the bytes on their way in both
directions (`up`, `down`) and the reader that both sides share: it collects chunks (`buffer`), takes the header
when it is there, then the function code, and is complete when the body is. A byte is a pair of the
message it belongs to and its place in it; `Meaning` of bytes that do not stand at the place
the reader believes is `Garbage`. What the values in a body are is left out. Lengths are those
of the code: 7 for the header, 1 for the function code, and bodies that differ in length.

`ModbusClient` has one record for each `ModbusRequestStack`, that is for each call of `Client.request`.
`ClientData` gives a chunk to *every* stack that is attached, as the events of
Node do. A call with arguments that do not fit calls back with the error and leaves its stack attached, as the code
does. Every call has a callback, as all of `modbus4.js` have, and the peers send no response that `RESPONSES` fails
to parse. `ModbusServer` has one record for each `ModbusResponseStack`: `ServerData` reads, refuses function codes that have
no handler, attaches the stack for the next request, and dies of a code it cannot parse;
`HandlerAnswer` is `writeResponse` or `writeException` at any later time. `ModbusStack` joins
the client with one of two peers: this server, or the gateway, of which only `GatewayAnswer` (a whole request
gets a response or an exception, and a write of a register that does not exist the exception of a read, `CodeOf`) and
`GatewayReset` are needed. After a reset the client, which has no handler for it, waits for ever.

`ModbusExchange` is the promise: calls, each given an answer once and told it once, none told what
another was given; each is told its own, unless the gateway resets the connection. Only the calls with fitting arguments take part in the refinement (`Calls`).
`Window` is how many calls a program keeps waiting: 1 for `modbus4.js` (`OneOutstanding`), and the
library says itself that it does not support more (`client.js:18`).

## 3. Runs

| Run | Checks | Instance |
|---|---|---|
| `gateway_safety` | `TypeOK`, `OneFrame`, `Aligned`, `ReadYourWrites` | 4 requests, 2 outstanding, 2 attempts, all faults but split frames and noise |
| `gateway_faults` | `NoCrossConnection`, `NoRequestSkipped`, `BackInService`, `NextClientServed` | 2 requests, 2 outstanding, 2 attempts, all faults; fairness |
| `gateway_split` | finds `GotRestOfMessage` violated | all faults |
| `radio_messages` | `TypeOK`, `InBounds`, `SendsMessages` (refinement, with liveness) | 4-bit messages, counter -6..5, half-stored pointers; fairness |
| `workout` | `TypeOK`, `FollowsPlan`, `WorkoutFinishes` | two rounds, 4 requests, a timer of 20 values; fairness |
| `node_server` | `TypeOK`, `OneOutstanding`, `FirstOfBurstWins`, `WorkoutFollowed`, `OneBitWritten` | an Arduino just started or running, two PUTs of every kind, malformed ones too, two workouts, reads queued up to 2, lost answers (with restarts of the Arduino) and errors, the clock set back, the supply switched |
| `node_timed` | `QueueBounded`, `NeverUndoesItself`, `QueueDrains`, `KeepsReading`, `WorkoutEnds` | reads every 10 ticks, answers within 1, 2, 3 or 4, a workout of nine seconds, two PUTs, no faults; fairness |
| `node_deactivate` | finds `DeactivateHolds` violated | two presses of the control buttons |
| `control` | `TypeOK`, `ReadsAreCurrent`, `MinDelayKept`, `MessagesWanted`, `Converges` | words of 32 values, nine kinds of frames, speeds 0..4, passes of 1 or 5 ms; fairness |
| `control_deadband` | finds `DeadbandQuiet` violated | 23 kinds of frames, noise of 1 |
| `stack_exchange` | `TypeOK`, `Aligned`, `NoLeak`, `ImplementsExchange` (refinement, with liveness) | 3 calls, headers of 7 bytes and bodies of 1, 4 and 5 cut anywhere, both peers, resets by the gateway; fairness |
| `stack_illegal` | finds `IllegalFunctionAnswered` violated | function codes 4, 6 and 16, a handler for 4 |

What they show:

- **Gateway.** As long as a frame comes whole or not at all, at most one frame is under way,
  and it belongs to the request in service; therefore each answer is the one to its
  request, and a read sees the last write before it, although attempts are repeated. The
  reset on a timeout (instead of a retry) is what makes this true: the mutant
  `TimeoutRetry` breaks it. Whatever the line does, a reset keeps connections apart, and a client that has left
  does not keep the next one waiting (`NextClientServed`; the mutant `HangUpUnseen` reads the end of its stream for
  ever). `BackInService` and `NextClientServed` count the end of the process as an end: SIGPIPE may bring it. When
  frames are split, the tail of an answer is left for the next attempt: `gateway_split` shows
  where that begins.
- **Radio.** An interrupt between the store of the pointer and the store of the count does no
  harm: the pin is low then, and a tick can only raise it. A half-stored pointer can spoil the width
  of the first pulse, and nothing else. After 2^31 idle ticks the counter wraps:
  the message is still sent right, but perhaps only after as long again.
- **Old web server.** Pausing and running are harmless wherever they meet the main loop, and so is
  a reset that meets no pass of it. A reset that does meet one may be undone in part: the mixed
  workout is in the model, and the properties, by `clean`, say nothing of it.
- **Server.** `modbus_busy` keeps one request outstanding, so an answer is never taken
  for another's. Of a burst of writes to one register the *first* one lasts (`FirstOfBurstWins` states exactly
  which), which is not what the user of the buttons sees (`node_deactivate`). The workout is no exception: a
  speed that it puts on its own older one is undone by it, and the demand is that of the section
  whose speed came first (`WorkoutFollowed`); `NeverUndoesItself` says that this does not happen as long as
  the request under way, the read, the speed and what browsers have PUT are answered within the time from
  one read to the next. A PUT of `control_active` writes a whole register from a copy that may be older than
  everything in the queue; `OneBitWritten` says that it changes no other bit
  all the same, since every other write of the register keeps those bits too. It begins with the first read: a
  PUT before it writes zeros to them.
  A lost answer stops the server for good, and everything written may be gone with it; `node_timed` therefore
  checks the link without faults. When an exception ends the process, what was queued is gone; only
  `OneBitWritten` says anything of what is done afterwards.
  With answers within four tenths of a second the stack never holds more than the PUTs put on it, and
  is emptied over and over (`QueueBounded`, `QueueDrains`): a second adds two requests at most, a read and
  the speed of a workout, and sends at least two. In this workout of nine seconds
  `MaxDelay = 5` is already too much: TLC finds
  the bound exceeded.
- **Control.** Reads are current, the response bit included; messages are
  `MIN_DELAY_BETWEEN_MESSAGES` apart, however the wrapped square comes out; and
  no message is begun against the orders of the same pass. `Converges` is about the given settings
  and the frames of this instance only: other coefficients and time constants may make the loop hunt.
  A block write that ends one past the bank is refused (the mutant `BeyondBankByOne`
  lets it through, and is found out by `TypeOK`). The deadband works above the demand only (`control_deadband`).
- **Modbus library.** The reader is right for every way to cut a stream (`Aligned`). A stack whose
  call failed early takes part in the next answer and is cleaned up with it (`NoLeak`), because it
  reads from the same byte on; it then calls its callback a second time, with somebody else's answer,
  which is why `ModbusExchange` is about the other calls. A function code without a parser ends its process (`stack_illegal`).

### Bounds

Counters that only count (requests issued, PUTs) are bounded in the guards by named constants. Two
or more requests outstanding, two attempts, and a client that reconnects are enough for an answer
to meet the wrong request, the wrong attempt and the wrong connection; four requests allow a
write, its repetition, a second write and a read. Messages of four bits have a first, a last and
inner bits, both values of a bit and both successions of two; a counter down to -6 wraps
within an idle stretch. Two rounds of a workout have a first and a last one; its sections
last no whole number of passes, and four requests are a reset, a start, a pause and
another start, or two resets that meet a running workout. Two PUTs, and reads queued
while fewer than two requests are, let reads and writes of two registers, or of one twice,
interleave in every order. Delays of one to four ticks are all those for which the queue is bounded; the condition of
`NeverUndoesItself` holds, for some number of PUTs, of each but the longest. In `node_timed` the queue's bound is larger than `QueueBounded` allows, so that it is never met. Words
of 32 values make differences and squares wrap, and squares come out as 0. Three calls are one that
fails, the one whose answer it hears, and one that would hear it if it were left attached.

### Fairness

- `ModbusGateway!FairSpec`: the gateway's process runs, the Arduino's loop calls `task()`,
  and what was sent arrives. Nothing is asked of clients or faults. The gateway's
  actions are taken together: which of a timeout and a byte comes first is left open. The port can be opened
  in the end.
- `RadioTransmitter!FairSpec`: the timer ticks, and the loop finishes its stores; it need not
  begin any.
- `Workout!FairSpec`: both threads run. Nothing is asked of browsers.
- `NodeTiming!TimedSpec`: time passes, both callbacks run when they are due, the Arduino answers, Node runs
  the callbacks of answers. Nothing is asked of browsers.
- `SpeedController!FairSpec`: `loop()` runs and time passes (a pass that takes no whole millisecond
  is possible, but not for ever), and the interrupt ends the message it has.
- `ModbusStack!Fairness`: TCP delivers, and the peer, its handlers included, answers, unless the gateway resets the
  connection. Nothing is asked of callers.

Deadlock is checked for the radio and the control loop, which never stop, and in
`node_timed`. It is not for the old web server (a finished workout rests when the requests of the bound
are used up), nor for the gateway (clients may have issued all the requests of the
bound and left), nor for the other runs of the server (an error ends the process, a
lost answer with a full stack stops it, and the clock has a bound), nor for the Modbus
library (the calls of the bound may all be answered).

## 4. Proofs

All theorems hold for every value of the constants under the assumptions named in the modules
(`ConstantsAssumption`, `TransmitterAssumption`, `ServerAssumption`, `SlaveAssumption`,
`ControllerAssumption`, `StreamAssumption`, `WorkoutAssumption`) and, where a theorem says so, under a
hypothesis of its own (`WholeFrames`, `NoWrap`, the delay of `QueueStaysShort`, `Window <= 1`).

- `ModbusGateway_proofs`: `Typing`. `OneFrameAtATime` assumes that frames are neither split nor
  joined by noise (`WholeFrames`) and shows that `OneFrame` is inductive as it stands, together
  with the types; it is the reason for `AnswersAligned`: in `rest`, what was read is
  one answer to the request in service. `NoCrossing` needs no assumption about faults; its
  invariant `CrossInv` says that whatever is on the serial side belongs to a
  request of the present connection, or there is none, and uses the flush of `OpenUSB`.
  `NoneSkipped` needs no such assumption either: `InOrder` follows the requests of a client
  from its socket through the gateway's hands, so that the number of a request tells its place.
  `ReadsSeeWrites` rests on `AnswersAligned`: `RegisterInv` says what the register holds while a write is
  on its way, has been done without its answer having come back, or is attempted again, and that a
  read answered since then saw it.
- `RadioTransmitter_proofs`: `StaysInBounds` from `BoundsInv`, which relates the index of the pointer
  to the bits left, and says that while the loop has not finished its stores the interrupt can
  at most have begun the first pulse.
  `Implements` is the safety half of the refinement: `PulseInv` says that
  the pulses on the air are those of the message so far, and that the run of the
  pin and the counter add up to the width due, or, in the first pulse, to a spoiled one.
- `NodeServer_proofs`: `Typing` (every converted value fits its register); `OneAtATime`;
  `OtherBitsStay` from `ControlInv`: the copy, the answer on its way and every write of the control register,
  queued or outstanding, have the other bits that the register has;
  `FirstWins` from `BurstInv`: the lowest queued write of a register carries the
  winner, and if none is queued, the one outstanding does, and if none is, the register does (all that as long
  as the Arduino has not restarted, and `RestartedStays`: afterwards nothing changes the registers any more).
  `WorkoutIsFollowed` needs that the sums of the sections' times exist at all and grow:
  `CumExists` shows by induction that the recursive function `CumTimes` has a value at every place
  (`SetInduction`, the least-element principle applied to a set instead of a predicate);
  `FollowInv` adds that a winner that the workout put is the speed of the section of the time it had then.
  `TimersAside`: each step of `NodeTiming` is one of `NodeServer`, or moves the clock alone.
  `QueueStaysShort` weighs what is in the stack and under way against the time left until the next
  read and the next second (`WorkInv`): if two answers take no longer than the time from one read to the
  next, the work that PUTs did not bring is done before more of it comes.
- `Workout_proofs`: `Typing`. `SectionsInOrder` (`FollowsPlan` but for how long sections last) is about
  two threads without a lock, so the invariant is about what *will* be in a field
  when the stores that are pending are done: `Will(f, v)`. `PlanInv` says that the number of ended sections
  determines which section and which count of rounds will be stored; `HttpInv` says that while a
  workout is clean, the browsers' thread has nothing pending but a state, or a reset while the main thread
  sleeps. `PlanFollowed` adds the times: `TimeInv` says that the time for which the section has run, the timer
  and the next transition add up, under `NoWrap`: the workout and what each of its sections runs over
  its time by fit the timer. With milliseconds in 32 bits that is seven weeks; without it,
  a transition beyond the wrap would be met at once.
- `ModbusSlave_proofs`: `TaskInOrder`, with one lemma for each function code: for every bank and every frame
  (that `Fits` and `Carries` its words) the bank keeps its ten registers; an acknowledged write set what it
  asked for and nothing else changed; a read or an exception sets nothing; and what was read is what the
  bank holds. The range check of the code, in the arithmetic of words, is what the bounds rest on.
- `ModbusStream_proofs`: `ChunksDoNotMatter`. `ReaderAt(m, j)` is the reader that has got the first `j`
  bytes of `m`: header, function code and the rest of the bytes (`Part`). Given the bytes from `k` to
  `j`, in one chunk, `ReaderAt(m, k)` becomes `ReaderAt(m, j)`; so the chunks do not matter.
  `CompleteAtTheEnd`: it is complete at the last byte and not before, and hands on `m`.
- `ModbusStack_proofs`: for a program that keeps at most one call waiting, as `modbus4.js` does (`Window <= 1`;
  the library promises nothing to others, `client.js:18`), `Typing`, `NeverMiscounts`, `NothingLeaks`,
  `ServerSurvives` and `OwnAnswers`. None of these is inductive alone: a reader that is anywhere but
  where its message is would break all of them. The invariant `IInv` adds `Phase`: the connection is `Idle`, or the first
  `k` bytes of a request have been read (`Asking`), or the request waits for its handler (`Serving`), or `k` bytes of its
  answer have been read (`Hearing`), and in each the bytes and *every* attached reader are determined, by
  `ReaderAt` of `ModbusStream_proofs`: those of failed calls stand at the same place as that of the call. `OnDataOn` says
  that a reader does not depend on what else its stack holds, so `ChunksDoNotMatter` applies to both ends.
  `Implements` is the safety half of `ImplementsExchange`, one lemma for each action: requests are `Ask`,
  what a handler or the gateway writes is `Give`, the last chunk of an answer is `Hear`, the rest, a reset too, changes no call.
- `SpeedController_proofs`: `Typing`, on `TaskInOrder` and on lemmas about division and weighted means (the filter stays
  within the readings, the intervals are words); `DelayKept` from `DelayInv`, which says that a
  wait short of `MIN_DELAY` never exceeds the time that has passed; `ReadsCurrent` and
  `OnlyWanted` from `OrdersKept`: between passes the registers and the settings hold what was written.

Only model-checked: `NeverUndoesItself`, and everything under fairness (`BackInService`, `NextClientServed`, the liveness halves of
`SendsMessages` and `ImplementsExchange`, `QueueDrains`, `WorkoutFinishes`, `KeepsReading`, `WorkoutEnds`, `Converges`),
since the provers have no rules for `ENABLED`. Every invariant that a passing run checks is proved, those of the
Modbus library for one call at a time, which is how the runs check them too. Where a proof needs an induction over data, it is
made over a set of places or of lengths; the induction theorems of the library take an operator, which the
provers cannot instantiate.

## 5. Findings

Four runs end in a violation, each of what a comment, a page or a document of the repository says:
`gateway_split`, `node_deactivate`, `control_deadband`, `stack_illegal`. The
`findings` of `PROJECT.json` say what each one shows. Noted while reading, and not the
subject of a run: a half-stored pointer makes the first pulse of a message as wide as an unrelated
byte says (`SwimSpeedController.ino:228,233`); `radio_ISR_counter` overflows after 2^31 ticks
(8.7 days) without a message, and on the AVR the next message may wait for as long again
(`SwimSpeedController.ino:40`); a speed of 0 in a workout is ignored (`modbus4.js:240`); the exceptions of
`ModbusSlave.cpp:170,190` carry the function code of a read; the client has no parser for the
responses to `READ_COILS`, `READ_DISCRETE_INPUTS` and `WRITE_SINGLE_COIL`, which `API.md` lists among its requests; the simulator reads `last_time` before it is
set; `setTimeout(f(), 500)` in `index.html:145` runs `f` at once.

## 6. Not modelled

- The old web server's other half (`WebServer.c`: its orders to an older Arduino program until the status
  agrees with them). That program is not in the repository.
- The simulator and the test program `modbus_master.c`: stand-ins, not part of the installed system.
- The pages' own state, GETs, and the values computed for display.
- Blocks of registers whose end does not fit a word (see `Fits`).
- Calls of `Client.request` with a function code it does not know: they throw in the caller; calls without a
  callback, whose errors have no listener; responses that cannot be parsed. More than one
  call waiting at a time, which the client does not support, and masters that send a request before the last one is
  answered, which the server does not refuse: such a request is read by two stacks, and what follows is not looked
  into.
- The libraries: StreamStack, Put, BufferList, TimerOne, libmodbus, loader.js. What is used of
  them appears as an action or as fairness.
- The command line and the sockets' set-up in the gateway; the bytes and CRCs of serial frames.

## 7. Plan

Written so far, in the order of importance: the gateway, the radio, the server's queue and
workout, the control loop with the Modbus slave, the old web server's workout, the Modbus library
on both sides, and the timing of the server's queue. What is left:

1. `EndlessPool`: the server over the gateway over the slave; that the gateway implements
   the link that `NodeServer` assumes and the peer of `ModbusStack`.
2. `Conversions`: `setValue` and the computed values of `system_state` as functions; round trips,
   monotony, ranges over all inputs.
3. The old web server's other half, the simulator.
