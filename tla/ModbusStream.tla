----------------------------- MODULE ModbusStream -----------------------------
(***************************************************************************)
(* Modbus/TCP messages on a TCP connection, as                             *)
(* RaspberryPi/NodeWebServer/modbus-stack/modbus-stack.js writes and reads *)
(* them.  TCP keeps the bytes and their order but not where one write ends *)
(* and the next begins: a reader gets them in chunks of any size, and      *)
(* finds the messages again by counting.  A byte is known by the message   *)
(* it belongs to and its place in it, so that a reader that miscounts      *)
(* reads Garbage.                                                          *)
(***************************************************************************)
EXTENDS Naturals, Sequences

CONSTANTS
    MBAP_LENGTH,     \* bytes of the header; 7 in the code
    BodyLength,      \* bytes after the function code, for a message of each kind
    FunctionCodes    \* the function codes that requests are made with

FUNCTION_CODE_LENGTH == 1

(* The kind of an answer is the EXCEPTION_BIT of its function code. *)
AnswerKinds == {"response", "exception"}
Kinds       == {"request"} \union AnswerKinds

ASSUME StreamAssumption ==
    /\ MBAP_LENGTH \in Nat \ {0}
    /\ BodyLength \in [Kinds -> Nat]
    /\ BodyLength["exception"] = 1
    /\ FunctionCodes \subseteq Nat \ {0}

VARIABLES
    up,       \* bytes on their way from the client to the server
    down,     \* bytes on their way from the server to the client
    written   \* ghost: the answers written, oldest first

stream == <<up, down, written>>

(* `of` is the transaction id: the client's count of the requests it made. *)
Messages  == [of : Nat, kind : Kinds, code : FunctionCodes]
NoMessage == [of |-> 0, kind |-> "none", code |-> 0]
Garbage   == [of |-> 0, kind |-> "garbage", code |-> 0]
Readings  == Messages \union {NoMessage, Garbage}

LengthOf(m) == MBAP_LENGTH + FUNCTION_CODE_LENGTH + BodyLength[m.kind]
Bytes(m)    == [k \in 1..LengthOf(m) |-> [msg |-> m, pos |-> k]]
StreamBytes == [msg : Messages, pos : Nat]

First(bytes, n)  == SubSeq(bytes, 1, n)
Beyond(bytes, n) == SubSeq(bytes, n + 1, Len(bytes))

(* What a reader takes the first n bytes for, when it believes to stand at   *)
(* byte `place` of a message.                                                *)
Meaning(bytes, place, n) ==
    LET m == bytes[1].msg IN
    IF \A k \in 1..n : bytes[k] = [msg |-> m, pos |-> place + k - 1] THEN m ELSE Garbage

StreamTypeOK ==
    /\ up \in Seq(StreamBytes)
    /\ down \in Seq(StreamBytes)
    /\ written \in Seq(Messages)

StreamInit ==
    /\ up = <<>>
    /\ down = <<>>
    /\ written = <<>>

-----------------------------------------------------------------------------
(* The reader that ModbusRequestStack and ModbusResponseStack share: it      *)
(* buffers what comes, takes the header as soon as it is there, then the     *)
(* function code, and is complete when the header's length is.               *)

ReaderFields == [buffer : Seq(StreamBytes), header : Readings, fcode : Readings]

readMBAP(s) ==
    IF s.header = NoMessage /\ Len(s.buffer) >= MBAP_LENGTH
    THEN [s EXCEPT !.header = Meaning(s.buffer, 1, MBAP_LENGTH),
                   !.buffer = Beyond(@, MBAP_LENGTH)]
    ELSE s

readFunctionCodeByte(s) ==   \* mutant: take(1) without [0]
    IF s.fcode = NoMessage /\ s.header # NoMessage /\ s.buffer # <<>>
    THEN [s EXCEPT !.fcode  = s.buffer[1],
                   !.buffer = Beyond(@, FUNCTION_CODE_LENGTH)]
    ELSE s

readFunctionCode(s) ==
    IF s.fcode = NoMessage /\ s.header # NoMessage /\ s.buffer # <<>>
    THEN [s EXCEPT !.fcode  = Meaning(s.buffer, MBAP_LENGTH + 1, FUNCTION_CODE_LENGTH),
                   !.buffer = Beyond(@, FUNCTION_CODE_LENGTH)]
    ELSE s

onDataOnce(s, chunk) ==   \* mutant: what is left of the chunk waits for the next one
    LET t == [s EXCEPT !.buffer = @ \o chunk] IN
    IF s.header = NoMessage THEN readMBAP(t) ELSE readFunctionCode(t)

(* _onData calls itself after each part it takes, for the next may be there  *)
(* already.                                                                  *)
onData(s, chunk) == readFunctionCode(readMBAP([s EXCEPT !.buffer = @ \o chunk]))

(* header.length counts the unit identifier and the function code too; what  *)
(* a header of garbage counts is of no interest, for there never is one.     *)
lengthLeft(s) == IF s.header \in {NoMessage, Garbage} THEN 0 ELSE BodyLength[s.header.kind]

CompleteEarly(s) ==   \* mutant: header.length-3
    /\ s.header # NoMessage
    /\ s.fcode # NoMessage
    /\ Len(s.buffer) + 1 >= lengthLeft(s)

Complete(s) ==
    /\ s.header # NoMessage
    /\ s.fcode # NoMessage
    /\ Len(s.buffer) >= lengthLeft(s)

(* The message a complete reader hands on. *)
Parsed(s) ==
    IF /\ s.fcode = s.header
       /\ Len(s.buffer) >= lengthLeft(s)
       /\ \A k \in 1..lengthLeft(s) :
              s.buffer[k] = [msg |-> s.header, pos |-> MBAP_LENGTH + FUNCTION_CODE_LENGTH + k]
    THEN s.header
    ELSE Garbage
===============================================================================
