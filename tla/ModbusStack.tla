------------------------------ MODULE ModbusStack ------------------------------
(***************************************************************************)
(* The client of modbus-stack on a connection with one of the two peers    *)
(* the repository has for it: modbus-stack's own server, or the gateway to *)
(* the speed controller, of which only the answers are modelled here       *)
(* (ModbusGateway models how it comes by them).  The two ends share the    *)
(* bytes on their way and nothing else.                                    *)
(***************************************************************************)
EXTENDS ModbusClient, ModbusServer

CONSTANT Peers       \* the peers considered, of "server" and "gateway"

(* Some of the controller's answers have the function code of a read. *)
ASSUME PeersAssumption ==
    /\ Peers \subseteq {"server", "gateway"}
    /\ "gateway" \in Peers => 3 \in FunctionCodes

VARIABLE peer        \* which one the connection is with; "closed" when it resets it

vars == <<stream, stacks, server, peer>>

TypeOK ==
    /\ StreamTypeOK
    /\ ClientTypeOK
    /\ ServerTypeOK
    /\ peer \in Peers \union {"closed"}

Init == StreamInit /\ ClientInit /\ ServerInit /\ peer \in Peers

(* The controller's function codes (ModbusSlave.cpp): others get an          *)
(* exception.  A write of a register that does not exist gets the exception  *)
(* of a read (ModbusSlave.cpp:170).                                          *)
SlaveCodes == {3, 6, 16}

CodeOf(asked, kind) == IF kind = "exception" /\ asked.code = 6 THEN 3 ELSE asked.code

WholeRequest == up # <<>> /\ Len(up) >= LengthOf(up[1].msg)

(* The gateway takes a whole request and answers it. *)
GatewayAnswer(kind) ==
    LET asked  == up[1].msg
        answer == [of |-> asked.of, kind |-> kind, code |-> CodeOf(asked, kind)]
    IN  /\ peer = "gateway"
        /\ WholeRequest
        /\ kind = "response" => asked.code \in SlaveCodes
        /\ up' = Beyond(up, LengthOf(asked))
        /\ down' = down \o Bytes(answer)
        /\ written' = Append(written, answer)
        /\ UNCHANGED <<stacks, server, peer>>

(* The gateway gives a request up, and resets the connection.  The client    *)
(* has no handler for its end: what waits for an answer waits for ever.      *)
GatewayReset ==
    /\ peer = "gateway"
    /\ WholeRequest
    /\ peer' = "closed"
    /\ UNCHANGED <<stream, stacks, server>>

ClientStep  == ClientNext /\ UNCHANGED <<server, peer>>
ServerStep  == peer = "server" /\ ServerNext /\ UNCHANGED <<stacks, peer>>
GatewayStep == \E kind \in AnswerKinds : GatewayAnswer(kind)

Next == ClientStep \/ ServerStep \/ GatewayStep \/ GatewayReset

(* TCP delivers what it was given; the peer answers what it was asked.       *)
Fairness ==
    /\ WF_vars(\E n \in 1..Len(down) : ClientData(n) /\ UNCHANGED <<server, peer>>)
    /\ WF_vars(ServerStep)
    /\ WF_vars(GatewayStep)

Spec == Init /\ [][Next]_vars /\ Fairness

-----------------------------------------------------------------------------
(* Safety. *)

(* Counting never goes wrong: whatever the chunks, every header, function    *)
(* code and body is read where one stands (modbus-stack.js:120-160,174-210). *)
Aligned ==
    /\ \A i \in DOMAIN stacks :
           /\ Garbage \notin {stacks[i].header, stacks[i].fcode}
           /\ \A k \in DOMAIN stacks[i].heard : stacks[i].heard[k] # Garbage
    /\ \A k \in DOMAIN responders :
           Garbage \notin {responders[k].header, responders[k].fcode, responders[k].request}

-----------------------------------------------------------------------------
(* Refinement: the calls whose arguments fit are a ModbusExchange. *)

GivenTo(i) == {a \in {written[k] : k \in DOMAIN written} : a.of = i}

OneOf(answers) == IF answers = {} THEN NoMessage ELSE CHOOSE a \in answers : TRUE

Fitting == {i \in DOMAIN stacks : stacks[i].heard = <<>> \/ stacks[i].heard[1] # BadArgument}

Calls == [i \in Fitting |-> [given |-> OneOf(GivenTo(i)), heard |-> stacks[i].heard]]

Exchange == INSTANCE ModbusExchange
                WITH calls <- Calls, Numbers <- 1..MaxCalls, NoAnswer <- NoMessage,
                     Answers <- [of : 1..MaxCalls, kind : AnswerKinds, code : FunctionCodes]

(* Each call made with fitting arguments hears its own answer, once, and     *)
(* does hear it unless the gateway resets the connection: with no            *)
(* transaction id compared (client.js:18), bytes arriving in any chunks, and *)
(* stacks of failed calls listening too.                                     *)
ImplementsExchange ==
    /\ Exchange!Init /\ [][Exchange!Next]_Calls
    /\ [](peer # "closed") => Exchange!Fairness
===============================================================================
