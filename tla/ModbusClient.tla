----------------------------- MODULE ModbusClient -----------------------------
(***************************************************************************)
(* The client of modbus-stack (modbus-stack/client.js and the              *)
(* ModbusRequestStack of modbus-stack.js) on one connection.  Each call of *)
(* Client.request attaches a ModbusRequestStack of its own to the          *)
(* connection: every chunk is given to every attached stack, and nothing   *)
(* compares the transaction id of an answer with that of the request.  The *)
(* stack that is cleaned up in time and the caller that waits for its      *)
(* answer are all that keeps one call from hearing the answer of another.  *)
(***************************************************************************)
EXTENDS ModbusStream, FiniteSets

CONSTANTS
    MaxCalls,        \* bound: calls of Client.request in a behaviour
    Window           \* calls a caller keeps waiting (1 for modbus4.js)

(* client.js, REQUESTS and RESPONSES.  A call with any other function code   *)
(* throws in its caller.                                                     *)
ClientREQUESTS  == 1..6
ClientRESPONSES == {3, 4, 6}
Picky           == {5, 6}   \* check the type of their argument

ASSUME ClientAssumption ==
    /\ MaxCalls \in Nat
    /\ Window \in Nat
    /\ FunctionCodes \subseteq ClientREQUESTS

VARIABLE stacks      \* the ModbusRequestStacks, one a call; stream._reqNum is their number

BadArgument == [of |-> 0, kind |-> "bad argument", code |-> 0]

Stacks == [attached : BOOLEAN, asked : FunctionCodes, heard : Seq(Readings \union {BadArgument}),
           buffer : Seq(StreamBytes), header : Readings, fcode : Readings]

NewStack(code) == [attached |-> TRUE, asked |-> code, heard |-> <<>>,
                   buffer |-> <<>>, header |-> NoMessage, fcode |-> NoMessage]

ClientTypeOK == stacks \in Seq(Stacks)
ClientInit   == stacks = <<>>

(* The calls whose callback has not been called. *)
Pending == {i \in DOMAIN stacks : stacks[i].heard = <<>>}

(* Client.request: the stack is attached first, which counts the call.  When *)
(* the arguments do not fit, the callback is called with the error, nothing  *)
(* is written, and the stack stays where it is.  Every call has a callback,  *)
(* as all of modbus4.js have; the error of one without has no listener.      *)
request(code, fits) ==
    LET reqNum == Len(stacks) + 1
        asked  == [of |-> reqNum, kind |-> "request", code |-> code]
    IN  /\ reqNum <= MaxCalls
        /\ Cardinality(Pending) < Window
        /\ fits \/ code \in Picky
        /\ stacks' = Append(stacks, [NewStack(code) EXCEPT
                                        !.heard = IF fits THEN <<>> ELSE <<BadArgument>>])
        /\ up' = IF fits THEN up \o Bytes(asked) ELSE up
        /\ UNCHANGED <<down, written>>

hearOnly(s) ==   \* mutant: cleanup() for a response only, not for an exception
    [s EXCEPT !.heard = Append(@, Parsed(s)), !.attached = s.fcode.kind = "exception",
              !.buffer = Beyond(@, lengthLeft(s))]

(* A complete response: an exception or a response that RESPONSES can parse  *)
(* is the last thing the stack hears.  Any other is reported as an error,    *)
(* and the stack stays attached with all it holds.  The peers send no        *)
(* response that RESPONSES fails to parse.                                   *)
hear(s) ==
    IF s.fcode.kind = "exception" \/ s.fcode.code \in ClientRESPONSES
    THEN [s EXCEPT !.heard = Append(@, Parsed(s)), !.attached = FALSE,
                   !.buffer = Beyond(@, lengthLeft(s))]
    ELSE [s EXCEPT !.heard = Append(@, s.fcode)]

ClientData(n) ==
    LET read == [i \in DOMAIN stacks |->
                    IF stacks[i].attached THEN onData(stacks[i], First(down, n)) ELSE stacks[i]]
    IN  /\ n \in 1..Len(down)
        /\ down' = Beyond(down, n)
        /\ stacks' = [i \in DOMAIN read |->
                         IF read[i].attached /\ Complete(read[i]) THEN hear(read[i]) ELSE read[i]]
        /\ UNCHANGED <<up, written>>

ClientNext ==
    \/ \E code \in FunctionCodes, fits \in BOOLEAN : request(code, fits)
    \/ \E n \in 1..Len(down) : ClientData(n)

-----------------------------------------------------------------------------
(* No leak: once a call has been answered, every stack up to it has been     *)
(* cleaned up (modbus-stack.js:159), those of the calls with bad arguments   *)
(* too.  A stack left behind would be given every later chunk.               *)
NoLeak ==
    \A i, j \in DOMAIN stacks :
        i <= j /\ (\E m \in DOMAIN stacks[j].heard : stacks[j].heard[m] # BadArgument)
            => ~stacks[i].attached
===============================================================================
