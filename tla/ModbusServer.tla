----------------------------- MODULE ModbusServer -----------------------------
(***************************************************************************)
(* The server of modbus-stack (modbus-stack/server.js and the              *)
(* ModbusResponseStack of modbus-stack.js) on one connection.  Each        *)
(* request is read and answered by a ModbusResponseStack of its own; the   *)
(* next one is attached to the connection once a request has been read.    *)
(* The handlers, which the program that uses the library provides, answer  *)
(* when they please.                                                       *)
(***************************************************************************)
EXTENDS ModbusStream, FiniteSets, SequencesExt

CONSTANT Handlers    \* the function codes the program has given a handler for

(* server.js, REQUESTS and RESPONSES: what can be parsed and what written. *)
ServerREQUESTS  == 1..7 \union {11, 12, 17}
ServerRESPONSES == {4}

VARIABLES
    responders,      \* the ModbusResponseStacks made for the connection, in order
    server_up        \* FALSE once an error nobody listens to has ended the process

server == <<responders, server_up>>

Responders == [attached : BOOLEAN, gotRequest : BOOLEAN, request : Readings,
               buffer : Seq(StreamBytes), header : Readings, fcode : Readings]

NewResponder == [attached |-> TRUE, gotRequest |-> FALSE, request |-> NoMessage,
                 buffer |-> <<>>, header |-> NoMessage, fcode |-> NoMessage]

ServerTypeOK ==
    /\ responders \in Seq(Responders)
    /\ server_up \in BOOLEAN

ServerInit ==
    /\ responders = <<NewResponder>>
    /\ server_up = TRUE

Attached == {k \in DOMAIN responders : responders[k].attached}
Waiting  == {k \in Attached : responders[k].gotRequest}

Answer(r, kind) == [of |-> r.request.of, kind |-> kind, code |-> r.request.code]

Cleanup(r) == [r EXCEPT !.attached = FALSE]

(* The 'request' event: the function code has to be one that can be parsed.  *)
parseRequest(r) ==
    IF Complete(r) /\ r.fcode.code \in ServerREQUESTS
    THEN [r EXCEPT !.gotRequest = TRUE, !.request = Parsed(r),
                   !.buffer = Beyond(@, lengthLeft(r))]
    ELSE r

(* A chunk arrives, and every attached stack is given it.  For a request it  *)
(* completes, _handler is called: without a handler for the code it writes   *)
(* exception 1 at once; with one the request waits.  Then _setupConn         *)
(* attaches the next stack, which has no part in this chunk.  A code that    *)
(* REQUESTS has no parser for is an 'error' event on a stack that nobody     *)
(* listens to: that ends the process.                                        *)
ServerData(n) ==
    LET read    == [k \in DOMAIN responders |->
                        IF k \in Attached THEN onData(responders[k], First(up, n))
                                          ELSE responders[k]]
        done    == {k \in Attached : Complete(read[k])}
        unknown == {k \in done : read[k].fcode.code \notin ServerREQUESTS}
        refused == {k \in done \ unknown : read[k].fcode.code \notin Handlers}
        parsed  == [k \in DOMAIN read |-> IF k \in done THEN parseRequest(read[k]) ELSE read[k]]
        illegal == FlattenSeq([k \in DOMAIN read |->
                        IF k \in refused THEN <<Answer(parsed[k], "exception")>> ELSE <<>>])
    IN  /\ server_up
        /\ n \in 1..Len(up)
        /\ up' = Beyond(up, n)
        /\ responders' = [k \in DOMAIN read |->
                              IF k \in refused THEN Cleanup(parsed[k]) ELSE parsed[k]]
                         \o [k \in 1..Cardinality(done \ unknown) |-> NewResponder]
        /\ server_up' = (unknown = {})
        /\ written' = written \o illegal
        /\ down' = down \o FlattenSeq([i \in DOMAIN illegal |-> Bytes(illegal[i])])

(* A handler answers the request of stack k: writeException for any code,    *)
(* writeResponse for a code that RESPONSES can write.                        *)
HandlerAnswer(k, kind) ==
    /\ server_up
    /\ k \in Waiting
    /\ kind = "response" => responders[k].request.code \in ServerRESPONSES
    /\ written' = Append(written, Answer(responders[k], kind))
    /\ down' = down \o Bytes(Answer(responders[k], kind))
    /\ responders' = [responders EXCEPT ![k] = Cleanup(@)]
    /\ UNCHANGED <<up, server_up>>

ServerNext ==
    \/ \E n \in 1..Len(up) : ServerData(n)
    \/ \E k \in DOMAIN responders, kind \in AnswerKinds : HandlerAnswer(k, kind)

-----------------------------------------------------------------------------
(* Safety. *)

(* API.md:149 says that any request whose function code has no handler is    *)
(* answered with the exception "Illegal Function".                           *)
IllegalFunctionAnswered ==
    \A k \in DOMAIN responders :
        LET r == responders[k] IN
        (r.gotRequest \/ Complete(r)) /\ r.fcode.code \notin Handlers
            => \E i \in DOMAIN written : written[i] = [r.fcode EXCEPT !.kind = "exception"]

-----------------------------------------------------------------------------
(* The server with a master that is not modbus-stack's own client: one that  *)
(* may use any function code.  It waits for each answer, which server.js     *)
(* does not ask of it (the next stack is there to read a request while a     *)
(* handler has the last one), but the question asked here needs no more.     *)

MasterRequest(code) ==
    /\ Waiting = {} /\ up = <<>>
    /\ \A k \in Attached : responders[k] = NewResponder
    /\ Len(responders) <= Cardinality(FunctionCodes)
    /\ up' = Bytes([of |-> Len(responders), kind |-> "request", code |-> code])
    /\ down' = <<>>
    /\ UNCHANGED <<written, server>>

MasterInit == StreamInit /\ ServerInit
MasterNext == ServerNext \/ \E code \in FunctionCodes : MasterRequest(code)
MasterSpec == MasterInit /\ [][MasterNext]_<<stream, server>>
===============================================================================
