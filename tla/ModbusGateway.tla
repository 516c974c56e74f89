---------------------------- MODULE ModbusGateway ----------------------------
(***************************************************************************)
(* The Modbus gateway (RaspberryPi/ModbusGateway/modbus_gateway.c): one    *)
(* process that takes Modbus/TCP requests from one client at a time, sends *)
(* each over a serial line to the Arduino, and writes the answer back.     *)
(* Modelled with it are the two ends it talks to: the client's socket, and *)
(* the slave's task (ArduinoUno/SwimSpeedController/ModbusSlave.cpp).      *)
(*                                                                         *)
(* A serial frame carries no sequence number, so nothing in an answer says *)
(* which request it answers.  The gateway relies on there being at most    *)
(* one frame under way; the ghost field `of` of an answer names the        *)
(* request it was really made for.                                         *)
(***************************************************************************)
EXTENDS Naturals, Sequences

CONSTANTS
    MaxRequests,     \* bound: requests the client issues in a behaviour
    Window,          \* requests a client keeps outstanding (1 for NodeServer)
    SERIAL_RETRIES,  \* attempts per request; 5 in the code
    BufLen,          \* fragments that fit ser_rsp_buf; 1024 bytes in the code
    Faults           \* the faults of the line and the port that happen

FaultKinds == {"lose_request", "lose_response", "corrupt", "usb_error",
               "accept_error", "slave_reset", "split", "noise"}

ASSUME ConstantsAssumption ==
    /\ MaxRequests \in Nat
    /\ Window \in Nat
    /\ SERIAL_RETRIES \in Nat \ {0}
    /\ BufLen \in Nat \ {0}
    /\ Faults \subseteq FaultKinds

VARIABLES
    pc,              \* where main()'s loop stands
    client,          \* the client's end of the connection
    tcp_in,          \* requests sent and not yet read by the gateway
    tcp_out,         \* responses written and not yet read by the client
    cur,             \* the request in ser_req_buf (and its MBAP in tcp_buf)
    serial_retries,  \* attempts left
    rx,              \* what ser_rsp_buf holds
    tty,             \* the kernel's input buffer of /dev/ttyUSB0
    line,            \* what the slave has sent and has not arrived yet
    to_slave,        \* frames waiting in the slave's receive buffer
    reg,             \* the slave's register: the id of the write it holds
    issued,          \* id of the last request issued
    base,            \* ghost: value of issued when the client connected
    last_write       \* ghost: last write issued on this connection, or 0

serial  == <<tty, line, to_slave>>
tcp     == <<client, tcp_in, tcp_out, issued, base, last_write>>
vars    == <<pc, cur, serial_retries, rx, reg, serial, tcp>>

(* A request knows, as a ghost, the write a read of it must report. *)
Requests  == [id : 1..MaxRequests, op : {"read", "write"}, expect : 0..MaxRequests]
NoRequest == [id |-> 0, op |-> "none", expect |-> 0]

(* What arrives on the serial port in one uninterrupted burst: a frame, one  *)
(* of its halves, or bytes that no CRC matches.                              *)
Fragments == [of   : Requests \union {NoRequest},
              val  : 0..MaxRequests,
              part : {"whole", "head", "tail", "bad"}]

(* A response as the client sees it: the MBAP header is the one of the       *)
(* request in tcp_buf, the PDU comes from the serial answer.                 *)
Responses == [to : Requests, of : Requests \union {NoRequest}, val : 0..MaxRequests]

PCs == {"open_usb", "accept", "request", "write", "first_char", "rest", "ended"}

TypeOK ==
    /\ pc \in PCs
    /\ client \in {"down", "up", "gone", "closing"}
    /\ tcp_in \in Seq(Requests)
    /\ tcp_out \in Seq(Responses)
    /\ cur \in Requests \union {NoRequest}
    /\ pc \in {"write", "first_char", "rest"} => cur \in Requests
    /\ serial_retries \in 0..SERIAL_RETRIES
    /\ rx \in Seq(Fragments)
    /\ tty \in Seq(Fragments)
    /\ line \in Seq(Fragments)
    /\ to_slave \in Seq(Requests)
    /\ reg \in 0..MaxRequests
    /\ issued \in 0..MaxRequests
    /\ base \in 0..MaxRequests
    /\ last_write \in 0..MaxRequests

Init ==
    /\ pc = "open_usb"
    /\ client = "down"
    /\ tcp_in = <<>>
    /\ tcp_out = <<>>
    /\ cur = NoRequest
    /\ serial_retries = 0
    /\ rx = <<>>
    /\ tty = <<>>
    /\ line = <<>>
    /\ to_slave = <<>>
    /\ reg = 0
    /\ issued = 0
    /\ base = 0
    /\ last_write = 0

-----------------------------------------------------------------------------
(* The client's socket. *)

(* listen() queues connections whatever main() is doing, as long as it runs. *)
Connect ==
    /\ client = "down"
    /\ pc # "ended"
    /\ client' = "up"
    /\ base' = issued
    /\ last_write' = 0
    /\ UNCHANGED <<pc, cur, serial_retries, rx, reg, serial, tcp_in, tcp_out, issued>>

InService == IF pc \in {"write", "first_char", "rest"} THEN 1 ELSE 0

ClientSend(op) ==
    /\ client = "up"
    /\ issued < MaxRequests
    /\ Len(tcp_in) + InService + Len(tcp_out) < Window
    /\ issued' = issued + 1
    /\ last_write' = IF op = "write" THEN issued + 1 ELSE last_write
    /\ tcp_in' = Append(tcp_in, [id |-> issued + 1, op |-> op, expect |-> last_write])
    /\ UNCHANGED <<pc, cur, serial_retries, rx, reg, serial, client, tcp_out, base>>

ClientReceive ==
    /\ tcp_out # <<>>
    /\ tcp_out' = Tail(tcp_out)
    /\ UNCHANGED <<pc, cur, serial_retries, rx, reg, serial,
                   client, tcp_in, issued, base, last_write>>

(* The client closes its end; or it learns that the gateway closed its own.  *)
ClientClose ==
    /\ client \in {"up", "closing"}
    /\ client' = IF client = "up" THEN "gone" ELSE "down"
    /\ tcp_out' = <<>>
    /\ UNCHANGED <<pc, cur, serial_retries, rx, reg, serial, tcp_in, issued, base, last_write>>

-----------------------------------------------------------------------------
(* The gateway's loop. *)

(* The socket is closed, and what was not read of it is dropped. *)
Disconnect ==
    /\ client' = CASE client = "up" -> "closing" [] client = "gone" -> "down" [] OTHER -> client
    /\ tcp_in' = <<>>

(* result = FALSE: leave the inner loops, close the port and the socket.     *)
Reset == pc' = "open_usb" /\ Disconnect

(* The process ends, and the kernel closes both for it. *)
Die == pc' = "ended" /\ Disconnect

(* The port is opened, set up, and its input flushed after ten seconds of    *)
(* sleep.  By then a slave that was late has answered or never will: what it *)
(* had to say is in tty, and goes.  Opening may restart the Arduino.  When   *)
(* open() fails it is tried again five seconds later: nothing has changed.   *)
OpenUSBFlush(flushed) ==
    /\ pc = "open_usb"
    /\ to_slave = <<>> /\ line = <<>>
    /\ tty' = flushed
    /\ reg' \in IF "slave_reset" \in Faults THEN {reg, 0} ELSE {reg}
    /\ pc' = "accept"
    /\ UNCHANGED <<cur, serial_retries, rx, line, to_slave, tcp>>

OpenUSBNoFlush == OpenUSBFlush(tty)   \* mutant: no tcflush

OpenUSB == OpenUSBFlush(<<>>)

(* accept() returns the connection in the queue, one that the client has     *)
(* closed in the meantime too.                                               *)
Accept ==
    /\ pc = "accept"
    /\ client \in {"up", "gone"}
    /\ pc' = "request"
    /\ UNCHANGED <<cur, serial_retries, rx, reg, serial, tcp>>

(* error() ends the process. *)
AcceptFails ==
    /\ "accept_error" \in Faults
    /\ pc = "accept"
    /\ Die
    /\ UNCHANGED <<cur, serial_retries, rx, reg, serial, tcp_out, issued, base, last_write>>

(* The header and the body of a request are read, and its serial frame made. *)
ReadRequestWith(attempts) ==
    /\ pc = "request"
    /\ tcp_in # <<>>
    /\ cur' = Head(tcp_in)
    /\ tcp_in' = Tail(tcp_in)
    /\ serial_retries' = attempts
    /\ pc' = "write"
    /\ UNCHANGED <<rx, reg, serial, client, tcp_out, issued, base, last_write>>

ReadRequestOffByOne == ReadRequestWith(SERIAL_RETRIES + 1)   \* mutant

ReadRequest == ReadRequestWith(SERIAL_RETRIES)

(* mutant: result = (n >= 0), and the end of the stream is read over and over *)
HangUpUnseen ==
    /\ pc = "request"
    /\ tcp_in = <<>>
    /\ client = "gone"
    /\ UNCHANGED vars

(* read() returns 0: the client closed the connection. *)
HangUp ==
    /\ pc = "request"
    /\ tcp_in = <<>>
    /\ client = "gone"
    /\ Reset
    /\ UNCHANGED <<cur, serial_retries, rx, reg, serial, tcp_out, issued, base, last_write>>

WriteSerialLeaving(retries) ==
    /\ pc = "write"
    /\ serial_retries > 0
    /\ serial_retries' = retries
    /\ rx' = <<>>
    /\ to_slave' = Append(to_slave, cur)
    /\ pc' = "first_char"
    /\ UNCHANGED <<cur, reg, tty, line, tcp>>

WriteSerialForever == WriteSerialLeaving(serial_retries)   \* mutant: no decrement

WriteSerial == WriteSerialLeaving(serial_retries - 1)

(* write() to the port fails or is short, or read() from it fails. *)
SerialError ==
    /\ "usb_error" \in Faults
    /\ pc \in {"write", "first_char", "rest"}
    /\ Reset
    /\ UNCHANGED <<cur, serial_retries, rx, reg, serial, tcp_out, issued, base, last_write>>

FirstChar ==
    /\ pc = "first_char"
    /\ tty # <<>>
    /\ rx' = tty
    /\ tty' = <<>>
    /\ pc' = "rest"
    /\ UNCHANGED <<cur, serial_retries, reg, line, to_slave, tcp>>

(* RESPONSE_TIMEOUT passes without a byte: no retry, the connections go.     *)
TimeoutReset ==
    /\ pc = "first_char"
    /\ tty = <<>>
    /\ Reset
    /\ UNCHANGED <<cur, serial_retries, rx, reg, serial, tcp_out, issued, base, last_write>>

(* mutant: a timeout is retried on the same connections, like a CRC mismatch *)
TimeoutRetry ==
    /\ pc = "first_char"
    /\ tty = <<>>
    /\ IF serial_retries > 0 THEN pc' = "write" /\ UNCHANGED <<client, tcp_in>> ELSE Reset
    /\ UNCHANGED <<cur, serial_retries, rx, reg, serial, tcp_out, issued, base, last_write>>

Timeout == TimeoutReset

(* Bytes that arrived within INTER_CHAR_DELAY of the last ones are added. *)
RestRead ==
    /\ pc = "rest"
    /\ tty # <<>>
    /\ Len(rx) < BufLen
    /\ rx' = rx \o tty
    /\ tty' = <<>>
    /\ UNCHANGED <<pc, cur, serial_retries, reg, line, to_slave, tcp>>

(* read() returns 0: nothing arrived for INTER_CHAR_DELAY, or no room is left. *)
Ended == pc = "rest" /\ (tty = <<>> \/ Len(rx) >= BufLen)

(* calc_crc() over everything received is 0. *)
CrcOK(buf) ==
    \/ Len(buf) = 1 /\ buf[1].part = "whole"
    \/ /\ Len(buf) = 2
       /\ buf[1].part = "head" /\ buf[2].part = "tail"
       /\ buf[1].of = buf[2].of /\ buf[1].val = buf[2].val

(* mutant: result = (serial_retries >= 0), and the while loop then ends with  *)
(* result TRUE and nothing sent                                              *)
CrcRetryOffByOne ==
    /\ Ended
    /\ ~CrcOK(rx)
    /\ pc' = IF serial_retries > 0 THEN "write" ELSE "request"
    /\ UNCHANGED <<cur, serial_retries, rx, reg, serial, tcp>>

CrcRetry ==
    /\ Ended
    /\ ~CrcOK(rx)
    /\ IF serial_retries > 0 THEN pc' = "write" /\ UNCHANGED <<client, tcp_in>> ELSE Reset
    /\ UNCHANGED <<cur, serial_retries, rx, reg, serial, tcp_out, issued, base, last_write>>

(* The answer goes back under the MBAP header of the request.  A write to a  *)
(* client that has gone succeeds or fails, or raises SIGPIPE, which nothing  *)
(* handles.                                                                  *)
Forward ==
    /\ Ended
    /\ CrcOK(rx)
    /\ serial_retries' = 0
    /\ \/ /\ client = "up"
          /\ tcp_out' = Append(tcp_out, [to |-> cur, of |-> rx[1].of, val |-> rx[1].val])
          /\ pc' = "request"
          /\ UNCHANGED <<client, tcp_in>>
       \/ /\ client = "gone"
          /\ pc' = "request"
          /\ UNCHANGED <<client, tcp_in, tcp_out>>
       \/ /\ client = "gone"
          /\ Reset \/ Die
          /\ UNCHANGED tcp_out
    /\ UNCHANGED <<cur, rx, reg, serial, issued, base, last_write>>

-----------------------------------------------------------------------------
(* The slave and the serial line. *)

(* ModbusSlave::task takes all the bytes that are waiting as one frame; two  *)
(* requests in one burst fail its CRC check and are dropped without a reply. *)
SlaveTask ==
    /\ to_slave # <<>>
    /\ to_slave' = <<>>
    /\ IF Len(to_slave) = 1
       THEN LET req == Head(to_slave) IN
            /\ reg' = IF req.op = "write" THEN req.id ELSE reg
            /\ line' = Append(line, [of |-> req, val |-> reg', part |-> "whole"])
       ELSE UNCHANGED <<reg, line>>
    /\ UNCHANGED <<pc, cur, serial_retries, rx, tty, tcp>>

Deliver ==
    /\ line # <<>>
    /\ tty' = Append(tty, Head(line))
    /\ line' = Tail(line)
    /\ UNCHANGED <<pc, cur, serial_retries, rx, reg, to_slave, tcp>>

(* A frame arrives in two bursts: its tail is still to come. *)
Split ==
    /\ "split" \in Faults
    /\ line # <<>>
    /\ Head(line).part = "whole"
    /\ tty' = Append(tty, [Head(line) EXCEPT !.part = "head"])
    /\ line' = <<[Head(line) EXCEPT !.part = "tail"]>> \o Tail(line)
    /\ UNCHANGED <<pc, cur, serial_retries, rx, reg, to_slave, tcp>>

Corrupt ==
    /\ "corrupt" \in Faults
    /\ line # <<>>
    /\ line' = [line EXCEPT ![1].part = "bad"]
    /\ UNCHANGED <<pc, cur, serial_retries, rx, reg, tty, to_slave, tcp>>

LoseResponse ==
    /\ "lose_response" \in Faults
    /\ line # <<>>
    /\ line' = Tail(line)
    /\ UNCHANGED <<pc, cur, serial_retries, rx, reg, tty, to_slave, tcp>>

(* The slave's CRC check refuses a request that was damaged on its way. *)
LoseRequest ==
    /\ "lose_request" \in Faults
    /\ to_slave # <<>>
    /\ to_slave' = <<>>
    /\ UNCHANGED <<pc, cur, serial_retries, rx, reg, tty, line, tcp>>

(* Bytes nobody sent arrive on the port; one burst of them at a time. *)
Noise ==
    /\ "noise" \in Faults
    /\ tty = <<>>
    /\ tty' = <<[of |-> NoRequest, val |-> 0, part |-> "bad"]>>
    /\ UNCHANGED <<pc, cur, serial_retries, rx, reg, line, to_slave, tcp>>

-----------------------------------------------------------------------------
Client  == Connect \/ (\E op \in {"read", "write"} : ClientSend(op))
           \/ ClientReceive \/ ClientClose
Gateway == OpenUSB \/ Accept \/ AcceptFails \/ ReadRequest \/ HangUp \/ WriteSerial \/ SerialError
           \/ FirstChar \/ Timeout \/ RestRead \/ CrcRetry \/ Forward
Line    == SlaveTask \/ Deliver \/ Split \/ Corrupt \/ LoseResponse \/ LoseRequest \/ Noise

Next == Client \/ Gateway \/ Line

Spec == Init /\ [][Next]_vars

(* The gateway's process gets its turns, the port can be opened, the         *)
(* Arduino's loop calls task() over and over, and what was sent arrives.     *)
(* Nothing is asked of the client.                                           *)
FairSpec == Spec /\ WF_vars(Gateway) /\ WF_vars(SlaveTask) /\ WF_vars(Deliver)

-----------------------------------------------------------------------------
AnswersTo(req) == {f \in Fragments : f.of = req /\ f.part \in {"whole", "bad"}}

(* Outside a frame-splitting line and noise, at most one frame is under way  *)
(* between the gateway and the slave, and it belongs to the request in       *)
(* service; between requests the line is silent.  That is what lets the      *)
(* gateway do without sequence numbers.                                      *)
OneFrame ==
    /\ pc \in {"accept", "request", "write"} =>
           to_slave = <<>> /\ line = <<>> /\ tty = <<>>
    /\ pc = "first_char" =>
           /\ Len(to_slave) + Len(line) + Len(tty) <= 1
           /\ to_slave \in Seq({cur})
           /\ line \in Seq(AnswersTo(cur))
           /\ tty \in Seq(AnswersTo(cur))
    /\ pc = "rest" =>
           /\ to_slave = <<>> /\ line = <<>> /\ tty = <<>>
           /\ Len(rx) = 1 /\ rx[1].of = cur

(* An answer handed to the client under a request's header is the answer the *)
(* slave gave to that request (Forward, memcpy into tcp_buf).                *)
Aligned == \A i \in DOMAIN tcp_out : tcp_out[i].of = tcp_out[i].to

(* A read is answered by a read of the last value written before it on the   *)
(* same connection: no retransmission of an earlier write can undo a later   *)
(* one, and no request on the way was silently lost.                         *)
ReadYourWrites ==
    \A i \in DOMAIN tcp_out :
        tcp_out[i].to.op = "read" /\ tcp_out[i].to.expect # 0
            => tcp_out[i].of.op = "read" /\ tcp_out[i].val = tcp_out[i].to.expect

(* The ids of a connection's requests that the client waits for. *)
Unanswered ==
    [i \in DOMAIN tcp_out |-> tcp_out[i].to.id]
    \o (IF InService = 1 THEN <<cur.id>> ELSE <<>>)
    \o [i \in DOMAIN tcp_in |-> tcp_in[i].id]

(* While a connection lasts, no request on it is skipped, answered twice or  *)
(* overtaken: a client that counts answers knows which request each is for,  *)
(* whatever the line does.                                                   *)
NoRequestSkipped ==
    client = "up" =>
        \A i \in DOMAIN Unanswered : Unanswered[i] = issued - Len(Unanswered) + i

(* An answer to a request of an earlier connection never reaches the client  *)
(* of a later one, whatever the line does: the port is reopened and flushed  *)
(* whenever a connection ends.                                               *)
NoCrossConnection == \A i \in DOMAIN tcp_out : tcp_out[i].of.id > base

(* When the gateway stops reading and checks what it has, the rest of a      *)
(* message it has begun to read is not still to come ("Get rest of message"). *)
GotRestOfMessage ==
    [][Ended /\ pc' \in {"write", "request"} => rx[Len(rx)].part # "head"]_vars

(* Every request taken from the client is over after finitely many attempts, *)
(* unless SIGPIPE ends the process.                                          *)
BackInService ==
    pc \notin {"accept", "request", "ended"} ~> pc \in {"accept", "request", "ended"}

(* The queue of connections moves on: a client that connects and stays is    *)
(* served, and one that has left, though it were before it was accepted or   *)
(* with requests on their way, does not keep the next one waiting.           *)
NextClientServed ==
    /\ client = "up" ~> client # "up" \/ pc = "request"
    /\ client = "gone" ~> client # "gone"
=============================================================================
