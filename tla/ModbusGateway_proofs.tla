------------------------ MODULE ModbusGateway_proofs ------------------------
(***************************************************************************)
(* Proofs about the gateway, for every number of requests, window, number  *)
(* of retries and buffer size.                                             *)
(*                                                                         *)
(*   Typing            every behaviour is type correct                     *)
(*   OneFrameAtATime   unless frames are split or noise arrives, at most   *)
(*                     one frame is under way, the one of the request      *)
(*   AnswersAligned    hence every answer is the one to its request        *)
(*   NoCrossing        whatever the line does, no answer crosses from one  *)
(*                     connection to the next                              *)
(*   NoneSkipped       whatever the line does, no request is skipped,      *)
(*                     answered twice or overtaken on its connection       *)
(*   ReadsSeeWrites    while frames stay whole, a read is answered with    *)
(*                     the last write before it on its connection          *)
(***************************************************************************)
EXTENDS ModbusGateway, SequenceTheorems, TLAPS

LEMMA RequestFacts ==
    ASSUME NEW r \in Requests
    PROVE  r.id \in 1..MaxRequests /\ r.op \in {"read", "write"}
  BY DEF Requests

LEMMA LenFacts ==
    ASSUME NEW S, NEW s \in Seq(S)
    PROVE  Len(s) \in Nat /\ (s = <<>> <=> Len(s) = 0)
  BY EmptySeq

LEMMA SerialLens ==
    ASSUME TypeOK
    PROVE  /\ Len(to_slave) \in Nat /\ (to_slave = <<>> <=> Len(to_slave) = 0)
           /\ Len(line) \in Nat /\ (line = <<>> <=> Len(line) = 0)
           /\ Len(tty) \in Nat /\ (tty = <<>> <=> Len(tty) = 0)
<1>1. to_slave \in Seq(Requests) /\ line \in Seq(Fragments) /\ tty \in Seq(Fragments)
  BY DEF TypeOK
<1>2. Len(to_slave) \in Nat /\ (to_slave = <<>> <=> Len(to_slave) = 0)
  BY <1>1, LenFacts
<1>3. Len(line) \in Nat /\ (line = <<>> <=> Len(line) = 0)
  BY <1>1, LenFacts
<1>4. Len(tty) \in Nat /\ (tty = <<>> <=> Len(tty) = 0)
  BY <1>1, LenFacts
<1> QED BY <1>2, <1>3, <1>4

(* Type correctness of the gateway's loop, the line and the client. *)
THEOREM Typing == Spec => []TypeOK
<1>1. Init => TypeOK
  BY ConstantsAssumption DEF Init, TypeOK, PCs
<1>2. TypeOK /\ [Next]_vars => TypeOK'
  <2> SUFFICES ASSUME TypeOK, [Next]_vars PROVE TypeOK'
    OBVIOUS
  <2> USE ConstantsAssumption DEF TypeOK, PCs, serial, tcp
  <2>1. CASE Connect
    BY <2>1 DEF Connect
  <2>2. ASSUME NEW op \in {"read", "write"}, ClientSend(op) PROVE TypeOK'
    <3>1. [id |-> issued + 1, op |-> op, expect |-> last_write] \in Requests
      BY <2>2 DEF ClientSend, Requests
    <3> QED BY <2>2, <3>1 DEF ClientSend
  <2>3. CASE ClientReceive
    BY <2>3 DEF ClientReceive
  <2>4. CASE ClientClose
    BY <2>4 DEF ClientClose
  <2>5. CASE OpenUSB
    BY <2>5 DEF OpenUSB, OpenUSBFlush
  <2>6. CASE Accept
    BY <2>6 DEF Accept
  <2>7. CASE ReadRequest
    BY <2>7 DEF ReadRequest, ReadRequestWith
  <2>8. CASE HangUp
    BY <2>8 DEF HangUp, Reset, Disconnect
  <2>9. CASE WriteSerial
    BY <2>9 DEF WriteSerial, WriteSerialLeaving
  <2>10. CASE SerialError
    BY <2>10 DEF SerialError, Reset, Disconnect
  <2>11. CASE FirstChar
    BY <2>11 DEF FirstChar
  <2>12. CASE Timeout
    BY <2>12 DEF Timeout, TimeoutReset, Reset, Disconnect
  <2>13. CASE RestRead
    BY <2>13 DEF RestRead
  <2>14. CASE CrcRetry
    <3>1. CASE serial_retries > 0
      BY <2>14, <3>1 DEF CrcRetry, Ended
    <3>2. CASE ~(serial_retries > 0)
      BY <2>14, <3>2 DEF CrcRetry, Ended, Reset, Disconnect
    <3> QED BY <3>1, <3>2
  <2>15. CASE Forward
    <3> DEFINE rsp == [to |-> cur, of |-> rx[1].of, val |-> rx[1].val]
    <3>1. pc = "rest" /\ CrcOK(rx)
      BY <2>15 DEF Forward, Ended
    <3>2. Len(rx) >= 1
      BY <3>1 DEF CrcOK
    <3>3. rx[1] \in Fragments
      BY <3>2, ElementOfSeq
    <3>4. rsp \in Responses
      BY <3>1, <3>3 DEF Fragments, Responses
    <3> HIDE DEF rsp
    <3>5. Append(tcp_out, rsp) \in Seq(Responses)
      BY <3>4
    <3>6. /\ pc' \in {"request", "open_usb", "ended"}
          /\ client' \in {"down", "up", "gone", "closing"}
          /\ tcp_in' \in {tcp_in, <<>>}
          /\ tcp_out' \in {tcp_out, Append(tcp_out, rsp)}
          /\ serial_retries' = 0
          /\ UNCHANGED <<cur, rx, reg, serial, issued, base, last_write>>
      BY <2>15 DEF Forward, Reset, Die, Disconnect, rsp
    <3>7. tcp_in' \in Seq(Requests)
      BY <3>6, EmptySeq
    <3>8. tcp_out' \in Seq(Responses)
      BY <3>5, <3>6
    <3> QED BY <3>6, <3>7, <3>8
  <2>16. CASE SlaveTask
    <3>1. CASE Len(to_slave) = 1
      <4> DEFINE req == Head(to_slave)
      <4>1. req \in Requests
        BY <2>16 DEF SlaveTask
      <4>2. reg' \in 0..MaxRequests
        BY <2>16, <3>1, <4>1, RequestFacts DEF SlaveTask
      <4> DEFINE rsp == [of |-> req, val |-> reg', part |-> "whole"]
      <4>3. rsp \in Fragments
        BY <4>1, <4>2 DEF Fragments
      <4>4. line' = Append(line, rsp)
        BY <2>16, <3>1 DEF SlaveTask
      <4> HIDE DEF req, rsp
      <4>5. line' \in Seq(Fragments)
        BY <4>3, <4>4
      <4> QED BY <2>16, <4>2, <4>5 DEF SlaveTask
    <3>2. CASE Len(to_slave) # 1
      BY <2>16, <3>2 DEF SlaveTask
    <3> QED BY <3>1, <3>2
  <2>17. CASE Deliver
    BY <2>17 DEF Deliver
  <2>18. CASE Split
    <3>1. Head(line) \in Fragments
      BY <2>18 DEF Split
    <3>2. /\ [Head(line) EXCEPT !.part = "head"] \in Fragments
          /\ [Head(line) EXCEPT !.part = "tail"] \in Fragments
      BY <3>1 DEF Fragments
    <3> QED BY <2>18, <3>2 DEF Split
  <2>19. CASE Corrupt
    <3>1. line[1] \in Fragments
      BY <2>19 DEF Corrupt
    <3>2. [line[1] EXCEPT !.part = "bad"] \in Fragments
      BY <3>1 DEF Fragments
    <3> QED BY <2>19, <3>2 DEF Corrupt
  <2>20. CASE LoseResponse
    BY <2>20 DEF LoseResponse
  <2>21. CASE LoseRequest
    BY <2>21 DEF LoseRequest
  <2>22. CASE Noise
    <3>1. [of |-> NoRequest, val |-> 0, part |-> "bad"] \in Fragments
      BY DEF Fragments
    <3> QED BY <2>22, <3>1 DEF Noise
  <2>23. CASE AcceptFails
    BY <2>23 DEF AcceptFails, Die, Disconnect
  <2>24. CASE UNCHANGED vars
    BY <2>24 DEF vars
  <2> QED BY <2>1, <2>2, <2>3, <2>4, <2>5, <2>6, <2>7, <2>8, <2>9, <2>10, <2>11, <2>12,
             <2>13, <2>14, <2>15, <2>16, <2>17, <2>18, <2>19, <2>20, <2>21, <2>22, <2>23, <2>24
          DEF Next, Client, Gateway, Line
<1> QED BY <1>1, <1>2, PTL DEF Spec

-----------------------------------------------------------------------------
(* What some of the theorems assume of the line: a frame arrives whole,      *)
(* damaged or not at all, and nothing arrives that nobody sent.              *)
WholeFrames == Faults \cap {"split", "noise"} = {}

Silent == to_slave = <<>> /\ line = <<>> /\ tty = <<>>

LEMMA OneFrameInit == Init => OneFrame
  BY DEF Init, OneFrame

(* Of the slave's buffer, the line and the port's buffer, one is in use.      *)
LEMMA OneBusy ==
    ASSUME TypeOK, OneFrame, pc = "first_char"
    PROVE  /\ to_slave # <<>> => Len(to_slave) = 1 /\ line = <<>> /\ tty = <<>>
           /\ line # <<>> => to_slave = <<>> /\ Len(line) = 1 /\ tty = <<>>
           /\ tty # <<>> => to_slave = <<>> /\ line = <<>> /\ Len(tty) = 1
<1> DEFINE s == Len(to_slave)
           l == Len(line)
           t == Len(tty)
<1>1. s + l + t <= 1
  BY DEF OneFrame
<1>2. /\ s \in Nat /\ (to_slave = <<>> <=> s = 0)
      /\ l \in Nat /\ (line = <<>> <=> l = 0)
      /\ t \in Nat /\ (tty = <<>> <=> t = 0)
  BY SerialLens
<1> HIDE DEF s, l, t
<1>3. /\ s # 0 => s = 1 /\ l = 0 /\ t = 0
      /\ l # 0 => s = 0 /\ l = 1 /\ t = 0
      /\ t # 0 => s = 0 /\ l = 0 /\ t = 1
  BY <1>1, <1>2
<1> QED BY <1>2, <1>3 DEF s, l, t

(* A step of the gateway's loop keeps at most one frame under way. *)
LEMMA OneFrameGateway ==
    ASSUME TypeOK, OneFrame, Gateway
    PROVE  OneFrame'
<1>0. pc = "first_char" /\ tty # <<>> => to_slave = <<>> /\ line = <<>> /\ Len(tty) = 1
  BY OneBusy
<1> USE DEF TypeOK, OneFrame, serial, tcp
<1>1. CASE OpenUSB
  BY <1>1 DEF OpenUSB, OpenUSBFlush
<1>2. CASE Accept
  BY <1>2 DEF Accept
<1>3. CASE ReadRequest
  BY <1>3 DEF ReadRequest, ReadRequestWith
<1>4. CASE HangUp
  BY <1>4 DEF HangUp, Reset, Disconnect
<1>5. CASE WriteSerial
  <2>1. /\ to_slave' = Append(<<>>, cur) /\ line' = <<>> /\ tty' = <<>>
        /\ cur' = cur /\ pc' = "first_char"
    BY <1>5 DEF WriteSerial, WriteSerialLeaving
  <2>2. to_slave' = <<cur>>
    BY <2>1
  <2>3. <<cur>> \in Seq({cur}) /\ Len(<<cur>>) = 1
    OBVIOUS
  <2> QED BY <2>1, <2>2, <2>3, EmptySeq
<1>6. CASE SerialError
  BY <1>6 DEF SerialError, Reset, Disconnect
<1>7. CASE FirstChar
  <2>1. to_slave = <<>> /\ line = <<>> /\ Len(tty) = 1
    BY <1>0, <1>7 DEF FirstChar
  <2>2. tty[1] \in AnswersTo(cur)
    BY <1>7, <2>1, ElementOfSeq DEF FirstChar, AnswersTo
  <2> QED BY <1>7, <2>1, <2>2 DEF FirstChar, AnswersTo
<1>8. CASE Timeout
  BY <1>8 DEF Timeout, TimeoutReset, Reset, Disconnect
<1>9. CASE RestRead
  BY <1>9 DEF RestRead
<1>10. CASE CrcRetry
  <2>1. Silent /\ pc' \in {"write", "open_usb"} /\ UNCHANGED serial
    BY <1>10 DEF CrcRetry, Ended, Reset, Disconnect, Silent
  <2> QED BY <2>1 DEF Silent
<1>11. CASE Forward
  <2>1. Silent /\ pc' \in {"request", "open_usb", "ended"} /\ UNCHANGED serial
    BY <1>11 DEF Forward, Ended, Reset, Die, Disconnect, Silent
  <2> QED BY <2>1 DEF Silent
<1>12. CASE AcceptFails
  BY <1>12 DEF AcceptFails, Die
<1> QED BY <1>1, <1>2, <1>3, <1>4, <1>5, <1>6, <1>7, <1>8, <1>9, <1>10, <1>11, <1>12 DEF Gateway

(* So does a step of the slave or of the line, when frames stay whole. *)
LEMMA OneFrameLine ==
    ASSUME TypeOK, OneFrame, WholeFrames, Line
    PROVE  OneFrame'
<1>0. pc = "first_char" =>
          /\ to_slave # <<>> => Len(to_slave) = 1 /\ line = <<>> /\ tty = <<>>
          /\ line # <<>> => to_slave = <<>> /\ Len(line) = 1 /\ tty = <<>>
  BY OneBusy
<1> USE DEF TypeOK, OneFrame, tcp
<1>1. ASSUME pc \in {"accept", "request", "write", "rest"},
             UNCHANGED <<pc, cur, rx>>, UNCHANGED serial
      PROVE  OneFrame'
  BY <1>1 DEF serial
<1>2. ASSUME pc = "open_usb", pc' = pc PROVE OneFrame'
  BY <1>2
<1>3. ~Split /\ ~Noise
  BY DEF WholeFrames, Split, Noise
<1>4. UNCHANGED <<pc, cur, rx>>
  BY <1>3 DEF Line, SlaveTask, Deliver, Corrupt, LoseResponse, LoseRequest
<1>5. CASE pc \in {"accept", "request", "write", "rest"}
  <2>1. to_slave = <<>> /\ line = <<>>
    BY <1>5
  <2> QED BY <1>3, <2>1 DEF Line, SlaveTask, Deliver, Corrupt, LoseResponse, LoseRequest
<1>6. CASE pc = "first_char"
  <2> USE <1>6
  <2>1. CASE SlaveTask
    <3> DEFINE rsp == [of |-> cur, val |-> reg', part |-> "whole"]
    <3>1. Len(to_slave) = 1 /\ line = <<>> /\ tty = <<>> /\ to_slave' = <<>> /\ tty' = <<>>
      BY <1>0, <2>1 DEF SlaveTask
    <3>2. Head(to_slave) = cur
      BY <2>1 DEF SlaveTask
    <3>3. line' = Append(<<>>, rsp)
      BY <2>1, <3>1, <3>2 DEF SlaveTask
    <3>4. reg' \in 0..MaxRequests
      BY <2>1, <3>1, <3>2, RequestFacts DEF SlaveTask
    <3>5. rsp \in AnswersTo(cur)
      BY <3>4 DEF Fragments, AnswersTo
    <3> HIDE DEF rsp
    <3>6. line' = <<rsp>>
      BY <3>3
    <3>7. line' \in Seq(AnswersTo(cur)) /\ Len(line') = 1
      BY <3>5, <3>6
    <3> QED BY <1>4, <3>1, <3>7, EmptySeq
  <2>2. CASE Deliver
    <3>1. Head(line) \in AnswersTo(cur) /\ tty = <<>> /\ to_slave = <<>> /\ Len(line) = 1
      BY <1>0, <2>2 DEF Deliver
    <3>2. tty' = <<Head(line)>> /\ to_slave' = <<>>
      BY <2>2, <3>1 DEF Deliver
    <3>3. line' = <<>>
      BY <2>2, <3>1 DEF Deliver
    <3>4. tty' \in Seq(AnswersTo(cur)) /\ Len(tty') = 1
      BY <3>1, <3>2
    <3> QED BY <1>4, <3>2, <3>3, <3>4, EmptySeq
  <2>3. CASE Corrupt
    <3>1. Len(line) = 1 /\ UNCHANGED <<to_slave, tty>>
      BY <1>0, <2>3 DEF Corrupt
    <3>2. line[1] \in AnswersTo(cur)
      <4>1. line \in Seq(AnswersTo(cur)) /\ 1 \in 1..Len(line)
        BY <3>1
      <4> QED BY <4>1, ElementOfSeq
    <3>3. [line[1] EXCEPT !.part = "bad"] \in AnswersTo(cur)
      BY <3>2 DEF Fragments, AnswersTo
    <3>4. line' \in Seq(AnswersTo(cur)) /\ Len(line') = Len(line)
      BY <2>3, <3>1, <3>3, ExceptSeq DEF Corrupt
    <3> QED BY <1>4, <3>1, <3>4
  <2>4. CASE LoseResponse
    <3>1. line' = <<>> /\ UNCHANGED <<to_slave, tty>>
      BY <1>0, <2>4 DEF LoseResponse
    <3> QED BY <1>4, <1>0, <3>1, EmptySeq
  <2>5. CASE LoseRequest
    BY <1>4, <1>0, <2>5, EmptySeq DEF LoseRequest
  <2> QED BY <1>3, <2>1, <2>2, <2>3, <2>4, <2>5 DEF Line
<1> QED BY <1>2, <1>4, <1>5, <1>6 DEF PCs

(* The client touches neither the line nor the gateway's buffers. *)
LEMMA OneFrameClient ==
    ASSUME OneFrame, Client \/ UNCHANGED vars
    PROVE  OneFrame'
  BY DEF OneFrame, Client, Connect, ClientSend, ClientReceive, ClientClose, vars, serial

(* While frames stay whole, the gateway and the slave never have more than   *)
(* one frame between them, and it is the one of the request in service.      *)
THEOREM OneFrameAtATime ==
    ASSUME WholeFrames
    PROVE  Spec => []OneFrame
<1>1. Init => OneFrame
  BY OneFrameInit
<1>2. TypeOK /\ OneFrame /\ [Next]_vars => OneFrame'
  BY OneFrameGateway, OneFrameLine, OneFrameClient DEF Next
<1> QED BY <1>1, <1>2, Typing, PTL DEF Spec

(* What any step may do to the answers that wait for the client.             *)
LEMMA TcpOutStep ==
    ASSUME [Next]_vars
    PROVE  UNCHANGED tcp_out \/ tcp_out' = <<>> \/ ClientReceive \/ Forward
  BY DEF Next, Client, Connect, ClientSend, ClientClose, vars, tcp,
         Gateway, OpenUSB, OpenUSBFlush, Accept, AcceptFails, ReadRequest, ReadRequestWith, HangUp,
         WriteSerial, WriteSerialLeaving, SerialError, FirstChar, Timeout, TimeoutReset,
         RestRead, CrcRetry, Line, SlaveTask, Deliver, Split, Corrupt, LoseResponse,
         LoseRequest, Noise

(* While frames stay whole, the answer written to the client under a         *)
(* request's header is the answer the slave gave to that request.            *)
THEOREM AnswersAligned ==
    ASSUME WholeFrames
    PROVE  Spec => []Aligned
<1>1. Init => Aligned
  BY DEF Init, Aligned
<1>2. TypeOK /\ OneFrame /\ Aligned /\ [Next]_vars => Aligned'
  <2> SUFFICES ASSUME TypeOK, OneFrame, Aligned, [Next]_vars PROVE Aligned'
    OBVIOUS
  <2>0. tcp_out \in Seq(Responses)
    BY DEF TypeOK
  <2>1. CASE UNCHANGED tcp_out
    BY <2>1 DEF Aligned
  <2>2. CASE tcp_out' = <<>>
    BY <2>2 DEF Aligned
  <2>3. CASE ClientReceive
    BY <2>0, <2>3 DEF Aligned, ClientReceive
  <2>4. CASE Forward
    <3> DEFINE rsp == [to |-> cur, of |-> rx[1].of, val |-> rx[1].val]
    <3>1. rsp.of = rsp.to
      BY <2>4 DEF OneFrame, Forward, Ended
    <3>2. tcp_out' \in {tcp_out, Append(tcp_out, rsp)}
      BY <2>4 DEF Forward
    <3> HIDE DEF rsp
    <3> QED BY <2>0, <3>1, <3>2 DEF Aligned
  <2>5. UNCHANGED tcp_out \/ tcp_out' = <<>> \/ ClientReceive \/ Forward
    BY TcpOutStep
  <2> QED BY <2>1, <2>2, <2>3, <2>4, <2>5
<1> QED BY <1>1, <1>2, Typing, OneFrameAtATime, PTL DEF Spec

-----------------------------------------------------------------------------
(* The invariant behind NoCrossConnection.  It speaks of what is newer than  *)
(* a number b, the last request issued before the connection was made.       *)
NewerRequests(b)  == {r \in Requests : r.id > b}
NewerFragments(b) == {f \in Fragments : f.part = "bad" \/ f.of.id > b}
NewerResponses(b) == {r \in Responses : r.of.id > b}
Garbage           == {f \in Fragments : f.part = "bad"}

ClientInv ==
    /\ base <= issued
    /\ client \in {"down", "closing"} =>
           pc \in {"open_usb", "accept", "ended"} /\ tcp_in = <<>>
    /\ client \in {"down", "gone"} => tcp_out = <<>>
    /\ tcp_in \in Seq(NewerRequests(base))
    /\ tcp_out \in Seq(NewerResponses(base))

(* After the flush nothing of an earlier connection is left on the line.     *)
LineInv ==
    /\ pc = "accept" => to_slave = <<>> /\ line = <<>> /\ tty \in Seq(Garbage)
    /\ pc \in {"request", "write", "first_char", "rest"} =>
           /\ to_slave \in Seq(NewerRequests(base))
           /\ line \in Seq(NewerFragments(base))
           /\ tty \in Seq(NewerFragments(base))
    /\ pc \in {"write", "first_char", "rest"} => cur \in NewerRequests(base)
    /\ pc = "rest" => rx \in Seq(NewerFragments(base))

CrossInv == ClientInv /\ LineInv

LEMMA CrossInvInit == Init => CrossInv
  BY EmptySeq, ConstantsAssumption DEF Init, CrossInv, ClientInv, LineInv

LEMMA CrossInvClient ==
    ASSUME TypeOK, CrossInv, Client
    PROVE  CrossInv'
<1> USE DEF CrossInv, ClientInv, LineInv, serial
<1>1. CASE Connect
  <2>1. base' = issued /\ pc \in {"open_usb", "accept"} /\ tcp_in' = <<>> /\ tcp_out' = <<>>
    BY <1>1 DEF Connect
  <2> QED BY <1>1, <2>1, EmptySeq DEF Connect, TypeOK
<1>2. ASSUME NEW op \in {"read", "write"}, ClientSend(op) PROVE CrossInv'
  <2> DEFINE req == [id |-> issued + 1, op |-> op, expect |-> last_write]
  <2>1. req \in NewerRequests(base)
    BY <1>2, ConstantsAssumption DEF ClientSend, TypeOK, Requests, NewerRequests
  <2> HIDE DEF req
  <2>2. tcp_in' \in Seq(NewerRequests(base))
    BY <1>2, <2>1 DEF ClientSend, req
  <2> QED BY <1>2, <2>2 DEF ClientSend, TypeOK
<1>3. CASE ClientReceive
  BY <1>3 DEF ClientReceive
<1>4. CASE ClientClose
  BY <1>4, EmptySeq DEF ClientClose
<1> QED BY <1>1, <1>2, <1>3, <1>4 DEF Client

(* Closing the connections keeps the invariant, whatever is on the line.     *)
LEMMA CrossInvReset ==
    ASSUME TypeOK, CrossInv, Reset, pc \in {"request", "write", "first_char", "rest"},
           UNCHANGED <<tcp_out, issued, base>>
    PROVE  CrossInv'
<1>1. client \in {"up", "gone"}
  BY DEF CrossInv, ClientInv, TypeOK
<1> QED BY <1>1, EmptySeq DEF CrossInv, ClientInv, LineInv, Reset, Disconnect

LEMMA CrossInvDie ==
    ASSUME TypeOK, CrossInv, Die, UNCHANGED <<tcp_out, issued, base>>
    PROVE  CrossInv'
  BY EmptySeq DEF TypeOK, CrossInv, ClientInv, LineInv, Die, Disconnect

LEMMA CrossInvGateway ==
    ASSUME TypeOK, CrossInv, Gateway
    PROVE  CrossInv'
<1> USE DEF serial, tcp
<1>1. CASE OpenUSB
  BY <1>1, EmptySeq DEF OpenUSB, OpenUSBFlush, CrossInv, ClientInv, LineInv
<1>2. CASE Accept
  <2>1. to_slave = <<>> /\ line = <<>> /\ tty \in Seq(Garbage)
    BY <1>2 DEF Accept, CrossInv, LineInv
  <2>2. Garbage \subseteq NewerFragments(base)
    BY DEF Garbage, NewerFragments
  <2>3. tty \in Seq(NewerFragments(base))
    BY <2>1, <2>2, SeqMonotonic
  <2> QED BY <1>2, <2>1, <2>3, EmptySeq DEF Accept, CrossInv, ClientInv, LineInv
<1>3. CASE ReadRequest
  BY <1>3 DEF ReadRequest, ReadRequestWith, CrossInv, ClientInv, LineInv
<1>4. CASE HangUp
  BY <1>4, CrossInvReset DEF HangUp
<1>5. CASE WriteSerial
  BY <1>5 DEF WriteSerial, WriteSerialLeaving, CrossInv, ClientInv, LineInv
<1>6. CASE SerialError
  BY <1>6, CrossInvReset DEF SerialError
<1>7. CASE FirstChar
  BY <1>7, EmptySeq DEF FirstChar, CrossInv, ClientInv, LineInv
<1>8. CASE Timeout
  BY <1>8, CrossInvReset DEF Timeout, TimeoutReset
<1>9. CASE RestRead
  <2>1. rx' \in Seq(NewerFragments(base))
    BY <1>9, ConcatProperties DEF RestRead, CrossInv, LineInv
  <2> QED BY <1>9, <2>1, EmptySeq DEF RestRead, CrossInv, ClientInv, LineInv
<1>10. CASE CrcRetry
  <2>1. CASE serial_retries > 0
    BY <1>10, <2>1 DEF CrcRetry, Ended, CrossInv, ClientInv, LineInv
  <2>2. CASE ~(serial_retries > 0)
    BY <1>10, <2>2, CrossInvReset DEF CrcRetry, Ended
  <2> QED BY <2>1, <2>2
<1>11. CASE Forward
  <2> DEFINE rsp == [to |-> cur, of |-> rx[1].of, val |-> rx[1].val]
  <2>1. pc = "rest" /\ CrcOK(rx) /\ cur \in Requests
    BY <1>11 DEF Forward, Ended, TypeOK
  <2>2. rx[1] \in NewerFragments(base) /\ rx[1].part # "bad"
    <3>1. rx \in Seq(NewerFragments(base)) /\ 1 \in 1..Len(rx)
      BY <2>1 DEF CrcOK, CrossInv, LineInv
    <3> QED BY <2>1, <3>1, ElementOfSeq DEF CrcOK
  <2>3. rsp \in NewerResponses(base)
    BY <2>1, <2>2 DEF NewerFragments, NewerResponses, Fragments, Responses
  <2> HIDE DEF rsp
  <2>4. CASE Reset
    BY <1>11, <2>1, <2>4, CrossInvReset DEF Forward, Reset, Die, Disconnect
  <2>5. CASE pc' = "request" /\ UNCHANGED <<client, tcp_in>>
    <3>1. tcp_out' \in {tcp_out, Append(tcp_out, rsp)} /\ (client = "gone" => tcp_out' = tcp_out)
      BY <1>11, <2>5 DEF Forward, Reset, Die, Disconnect, rsp
    <3>2. tcp_out' \in Seq(NewerResponses(base))
      BY <2>3, <3>1 DEF CrossInv, ClientInv
    <3> QED BY <1>11, <2>1, <2>5, <3>1, <3>2
            DEF Forward, CrossInv, ClientInv, LineInv
  <2>6. CASE Die
    BY <1>11, <2>1, <2>6, CrossInvDie DEF Forward, Die
  <2> QED BY <1>11, <2>4, <2>5, <2>6 DEF Forward
<1>12. CASE AcceptFails
  BY <1>12, CrossInvDie DEF AcceptFails
<1> QED BY <1>1, <1>2, <1>3, <1>4, <1>5, <1>6, <1>7, <1>8, <1>9, <1>10, <1>11, <1>12 DEF Gateway

LEMMA CrossInvLine ==
    ASSUME TypeOK, CrossInv, Line
    PROVE  CrossInv'
<1> USE DEF serial, tcp
<1>1. /\ UNCHANGED <<pc, cur, rx>>
      /\ UNCHANGED tcp
  BY DEF Line, SlaveTask, Deliver, Split, Corrupt, LoseResponse, LoseRequest, Noise
<1>2. ClientInv'
  BY <1>1 DEF CrossInv, ClientInv
<1>3. CASE pc \in {"open_usb", "ended"}
  BY <1>1, <1>2, <1>3 DEF CrossInv, LineInv
<1>4. CASE pc = "accept"
  <2>1. to_slave = <<>> /\ line = <<>> /\ tty \in Seq(Garbage)
    BY <1>4 DEF CrossInv, LineInv
  <2>2. Noise
    BY <2>1 DEF Line, SlaveTask, Deliver, Split, Corrupt, LoseResponse, LoseRequest
  <2> DEFINE burst == [of |-> NoRequest, val |-> 0, part |-> "bad"]
  <2>3. burst \in Garbage
    BY ConstantsAssumption DEF Garbage, Fragments
  <2> HIDE DEF burst
  <2>4. tty' = <<burst>>
    BY <2>2 DEF Noise, burst
  <2>5. tty' \in Seq(Garbage)
    BY <2>3, <2>4
  <2> QED BY <1>1, <1>2, <1>4, <2>1, <2>2, <2>5 DEF Noise, CrossInv, LineInv
<1>5. CASE pc \in {"request", "write", "first_char", "rest"}
  <2> DEFINE F == NewerFragments(base)
  <2>0. /\ to_slave \in Seq(NewerRequests(base)) /\ line \in Seq(F) /\ tty \in Seq(F)
        /\ NewerFragments(base') = F
    BY <1>1, <1>5 DEF CrossInv, LineInv
  <2>1. SUFFICES /\ to_slave' \in Seq(NewerRequests(base))
                 /\ line' \in Seq(F)
                 /\ tty' \in Seq(F)
    BY <1>1, <1>2, <1>5 DEF CrossInv, LineInv
  <2>2. CASE SlaveTask
    <3>1. CASE Len(to_slave) = 1
      <4> DEFINE rsp == [of |-> Head(to_slave), val |-> reg', part |-> "whole"]
      <4>1. Head(to_slave) \in NewerRequests(base)
        BY <2>0, <2>2 DEF SlaveTask
      <4>2. reg' \in 0..MaxRequests
        BY <2>2, <3>1, <4>1, RequestFacts, ConstantsAssumption
           DEF SlaveTask, TypeOK, NewerRequests
      <4>3. rsp \in F
        BY <4>1, <4>2 DEF NewerRequests, NewerFragments, Fragments
      <4>4. line' = Append(line, rsp)
        BY <2>2, <3>1 DEF SlaveTask
      <4> HIDE DEF rsp, F
      <4>5. line' \in Seq(F)
        BY <2>0, <4>3, <4>4
      <4> QED BY <2>0, <2>2, <4>5, EmptySeq DEF SlaveTask
    <3>2. CASE Len(to_slave) # 1
      BY <2>0, <2>2, <3>2, EmptySeq DEF SlaveTask
    <3> QED BY <3>1, <3>2
  <2>3. CASE Deliver
    BY <2>0, <2>3 DEF Deliver
  <2>4. CASE Split
    <3> DEFINE part(p) == [Head(line) EXCEPT !.part = p]
    <3>1. Head(line) \in F /\ Head(line).part = "whole"
      BY <2>0, <2>4 DEF Split
    <3>2. part("head") \in F /\ part("tail") \in F
      BY <3>1 DEF NewerFragments, Fragments
    <3>3. tty' = Append(tty, part("head")) /\ line' = <<part("tail")>> \o Tail(line)
          /\ line # <<>> /\ to_slave' = to_slave
      BY <2>4 DEF Split
    <3> HIDE DEF part, F
    <3>4. <<part("tail")>> \in Seq(F) /\ Tail(line) \in Seq(F)
      BY <2>0, <3>2, <3>3
    <3>5. line' \in Seq(F)
      BY <3>3, <3>4, ConcatProperties
    <3> QED BY <2>0, <3>2, <3>3, <3>5
  <2>5. CASE Corrupt
    <3>1. 1 \in 1..Len(line) /\ line' = [line EXCEPT ![1] = [line[1] EXCEPT !.part = "bad"]]
      BY <2>0, <2>5, EmptySeq DEF Corrupt
    <3>2. line[1] \in F
      BY <2>0, <3>1, ElementOfSeq
    <3>3. [line[1] EXCEPT !.part = "bad"] \in F
      BY <3>2 DEF NewerFragments, Fragments
    <3> HIDE DEF F
    <3>4. line' \in Seq(F)
      BY <2>0, <3>1, <3>3, ExceptSeq
    <3> QED BY <2>0, <2>5, <3>4 DEF Corrupt
  <2>6. CASE LoseResponse
    BY <2>0, <2>6 DEF LoseResponse
  <2>7. CASE LoseRequest
    BY <2>0, <2>7, EmptySeq DEF LoseRequest
  <2>8. CASE Noise
    <3> DEFINE burst == [of |-> NoRequest, val |-> 0, part |-> "bad"]
    <3>1. burst \in F
      BY ConstantsAssumption DEF NewerFragments, Fragments
    <3>2. tty' = <<burst>>
      BY <2>8 DEF Noise
    <3> HIDE DEF burst, F
    <3> QED BY <2>0, <2>8, <3>1, <3>2 DEF Noise
  <2> QED BY <2>2, <2>3, <2>4, <2>5, <2>6, <2>7, <2>8 DEF Line
<1> QED BY <1>3, <1>4, <1>5 DEF TypeOK, PCs

LEMMA CrossInvAlways == Spec => []CrossInv
<1>1. Init => CrossInv
  BY CrossInvInit
<1>2. TypeOK /\ CrossInv /\ [Next]_vars => CrossInv'
  <2>1. CrossInv /\ UNCHANGED vars => CrossInv'
    BY DEF CrossInv, ClientInv, LineInv, vars, serial, tcp
  <2> QED BY <2>1, CrossInvClient, CrossInvGateway, CrossInvLine DEF Next
<1> QED BY <1>1, <1>2, Typing, PTL DEF Spec

(* Whatever the line loses, damages, splits or makes up, an answer to a      *)
(* request of one connection never reaches the client of a later one.        *)
THEOREM NoCrossing == Spec => []NoCrossConnection
<1>1. CrossInv => NoCrossConnection
  <2> SUFFICES ASSUME CrossInv, NEW i \in DOMAIN tcp_out PROVE tcp_out[i].of.id > base
    BY DEF NoCrossConnection
  <2>1. tcp_out \in Seq(NewerResponses(base))
    BY DEF CrossInv, ClientInv
  <2>2. tcp_out[i] \in NewerResponses(base)
    BY <2>1, ElementOfSeq, LenProperties
  <2> QED BY <2>2 DEF NewerResponses
<1> QED BY <1>1, CrossInvAlways, PTL

-----------------------------------------------------------------------------
(* The invariant behind NoRequestSkipped: while the connection lasts, the    *)
(* ids waiting for the client, the one in service and those the gateway has  *)
(* not read are the last ones issued, without a gap.                         *)
WrittenInOrder ==
    \A i \in 1..Len(tcp_out) :
        tcp_out[i].to.id = issued - Len(tcp_in) - InService - Len(tcp_out) + i
ServedInOrder == InService = 1 => cur.id = issued - Len(tcp_in)
SentInOrder   == \A i \in 1..Len(tcp_in) : tcp_in[i].id = issued - Len(tcp_in) + i

InOrder == client = "up" => WrittenInOrder /\ ServedInOrder /\ SentInOrder

(* The sequences of the connection are sequences, and a request is in        *)
(* service or not.                                                           *)
LEMMA ConnectionTyping ==
    ASSUME TypeOK
    PROVE  /\ tcp_in \in Seq(Requests) /\ tcp_out \in Seq(Responses)
           /\ Len(tcp_in) \in Nat /\ Len(tcp_out) \in Nat
           /\ issued \in Nat /\ InService \in {0, 1}
  BY ConstantsAssumption DEF TypeOK, InService

(* What any step may do to a connection that lasts.                          *)
LEMMA ConnectionStep ==
    ASSUME TypeOK, [Next]_vars
    PROVE  \/ client' # "up"
           \/ Connect \/ (\E op \in {"read", "write"} : ClientSend(op))
           \/ ClientReceive \/ ReadRequest
           \/ Forward /\ client = "up" /\ pc' = "request"
           \/ /\ UNCHANGED <<client, tcp_in, tcp_out, cur, issued, last_write>>
              /\ InService' = InService
              /\ pc' \in {"open_usb", "accept"} => pc \in {"open_usb", "accept"}
<1> DEFINE Quiet == /\ UNCHANGED <<client, tcp_in, tcp_out, cur, issued, last_write>>
                    /\ InService' = InService
                    /\ pc' \in {"open_usb", "accept"} => pc \in {"open_usb", "accept"}
<1>1. CASE Client
  BY <1>1 DEF Client, ClientClose
<1>2. CASE Line
  <2>1. UNCHANGED <<pc, cur>> /\ UNCHANGED tcp
    BY <1>2 DEF Line, SlaveTask, Deliver, Split, Corrupt, LoseResponse, LoseRequest, Noise
  <2> QED BY <2>1 DEF tcp, InService
<1>3. CASE OpenUSB \/ Accept \/ WriteSerial \/ FirstChar \/ RestRead
  <2>1. Quiet
    BY <1>3 DEF OpenUSB, OpenUSBFlush, Accept, WriteSerial, WriteSerialLeaving, FirstChar,
                RestRead, tcp, InService
  <2> QED BY <2>1
<1>4. CASE HangUp \/ SerialError \/ Timeout \/ AcceptFails
  BY <1>4 DEF HangUp, SerialError, Timeout, TimeoutReset, AcceptFails, Reset, Die, Disconnect
<1>5. CASE CrcRetry
  <2>1. CASE serial_retries > 0
    BY <1>5, <2>1 DEF CrcRetry, Ended, InService
  <2>2. CASE ~(serial_retries > 0)
    BY <1>5, <2>2 DEF CrcRetry, Reset, Disconnect
  <2> QED BY <2>1, <2>2
<1>6. CASE Forward
  BY <1>6 DEF Forward, Reset, Die, Disconnect
<1>7. CASE UNCHANGED vars
  BY <1>7 DEF vars, tcp, InService
<1> QED BY <1>1, <1>2, <1>3, <1>4, <1>5, <1>6, <1>7 DEF Next, Gateway

LEMMA AppendFacts ==
    ASSUME NEW S, NEW s \in Seq(S), NEW e \in S, NEW t, t = Append(s, e)
    PROVE  /\ t \in Seq(S) /\ Len(t) = Len(s) + 1
           /\ \A i \in 1..Len(s) : t[i] = s[i]
           /\ t[Len(s) + 1] = e
  BY AppendProperties

LEMMA TailFacts ==
    ASSUME NEW S, NEW s \in Seq(S), s # <<>>, NEW t, t = Tail(s)
    PROVE  /\ t \in Seq(S) /\ Len(t) = Len(s) - 1 /\ Len(s) >= 1
           /\ \A i \in 1..Len(t) : t[i] = s[i + 1]
           /\ Head(s) = s[1] /\ s[1] \in S
  BY HeadTailProperties, EmptySeq

LEMMA IsSequence ==
    ASSUME NEW S, NEW n \in Nat, NEW f \in [1..n -> S]
    PROVE  f \in Seq(S) /\ Len(f) = n
<1>1. f \in Seq(S)
  BY SeqDef
<1>2. Len(f) \in Nat /\ DOMAIN f = 1..Len(f) /\ DOMAIN f = 1..n
  BY <1>1, LenProperties
<1> QED BY <1>1, <1>2

LEMMA ThreeParts ==
    ASSUME NEW S, NEW a \in Seq(S), NEW b \in Seq(S), NEW c \in Seq(S),
           NEW u, u = (a \o b) \o c
    PROVE  /\ Len(u) = Len(a) + Len(b) + Len(c) /\ DOMAIN u = 1..Len(u)
           /\ \A i \in 1..Len(u) :
                  u[i] = IF i <= Len(a) THEN a[i]
                         ELSE IF i <= Len(a) + Len(b) THEN b[i - Len(a)]
                         ELSE c[i - Len(a) - Len(b)]
<1>1. /\ a \o b \in Seq(S) /\ Len(a \o b) = Len(a) + Len(b)
      /\ \A k \in 1..(Len(a) + Len(b)) :
             (a \o b)[k] = IF k <= Len(a) THEN a[k] ELSE b[k - Len(a)]
  BY ConcatProperties
<1>2. /\ u \in Seq(S) /\ Len(u) = Len(a \o b) + Len(c)
      /\ \A k \in 1..(Len(a \o b) + Len(c)) :
             u[k] = IF k <= Len(a \o b) THEN (a \o b)[k] ELSE c[k - Len(a \o b)]
  BY <1>1, ConcatProperties
<1>3. DOMAIN u = 1..Len(u) /\ Len(a) \in Nat /\ Len(b) \in Nat /\ Len(c) \in Nat
  BY <1>2, LenProperties
<1> QED BY <1>1, <1>2, <1>3

LEMMA InOrderStep ==
    ASSUME TypeOK, TypeOK', CrossInv, InOrder, [Next]_vars
    PROVE  InOrder'
<1>0. /\ tcp_in \in Seq(Requests) /\ tcp_out \in Seq(Responses)
      /\ Len(tcp_in) \in Nat /\ Len(tcp_out) \in Nat
      /\ issued \in Nat /\ InService \in {0, 1}
  BY ConnectionTyping
<1>1. CASE client' # "up"
  BY <1>1 DEF InOrder
<1>2. CASE Connect
  <2>1. /\ tcp_in' = <<>> /\ tcp_out' = <<>> /\ InService' = 0
    BY <1>2 DEF Connect, CrossInv, ClientInv, InService
  <2> QED BY <2>1 DEF InOrder, WrittenInOrder, ServedInOrder, SentInOrder
<1>3. ASSUME NEW op \in {"read", "write"}, ClientSend(op) PROVE InOrder'
  <2> DEFINE req == [id |-> issued + 1, op |-> op, expect |-> last_write]
  <2>1. /\ client = "up" /\ issued' = issued + 1 /\ tcp_in' = Append(tcp_in, req)
        /\ UNCHANGED <<client, tcp_out, cur>> /\ InService' = InService
    BY <1>3 DEF ClientSend, InService
  <2>2. req.id = issued + 1 /\ req \in Requests
    BY <1>0, <1>3, ConstantsAssumption DEF ClientSend, TypeOK, Requests
  <2> HIDE DEF req
  <2>3. /\ Len(tcp_in') = Len(tcp_in) + 1
        /\ \A i \in 1..Len(tcp_in) : tcp_in'[i] = tcp_in[i]
        /\ tcp_in'[Len(tcp_in) + 1] = req
    BY <1>0, <2>1, <2>2, AppendFacts
  <2>4. client = "up" => WrittenInOrder'
    BY <1>0, <2>1, <2>2, <2>3 DEF InOrder, WrittenInOrder
  <2>5. client = "up" => ServedInOrder'
    BY <1>0, <2>1, <2>2, <2>3 DEF InOrder, ServedInOrder, SentInOrder
  <2>6. client = "up" => SentInOrder'
    BY <1>0, <2>1, <2>2, <2>3 DEF InOrder, SentInOrder
  <2> QED BY <2>1, <2>4, <2>5, <2>6 DEF InOrder
<1>4. CASE ClientReceive
  <2>1. /\ tcp_out # <<>> /\ tcp_out' = Tail(tcp_out)
        /\ UNCHANGED <<client, tcp_in, cur, issued>> /\ InService' = InService
    BY <1>4 DEF ClientReceive, InService
  <2>2. /\ Len(tcp_out') = Len(tcp_out) - 1
        /\ \A i \in 1..Len(tcp_out') : tcp_out'[i] = tcp_out[i + 1]
    BY <1>0, <2>1, TailFacts
  <2>4. client = "up" => WrittenInOrder'
    BY <1>0, <2>1, <2>2 DEF InOrder, WrittenInOrder
  <2>5. client = "up" => ServedInOrder'
    BY <1>0, <2>1, <2>2 DEF InOrder, ServedInOrder, SentInOrder
  <2>6. client = "up" => SentInOrder'
    BY <1>0, <2>1, <2>2 DEF InOrder, SentInOrder
  <2> QED BY <2>1, <2>4, <2>5, <2>6 DEF InOrder
<1>5. CASE ReadRequest
  <2>1. /\ tcp_in # <<>> /\ tcp_in' = Tail(tcp_in) /\ cur' = tcp_in[1]
        /\ UNCHANGED <<client, tcp_out, issued>> /\ InService = 0 /\ InService' = 1
    BY <1>5 DEF ReadRequest, ReadRequestWith, InService
  <2>2. /\ Len(tcp_in') = Len(tcp_in) - 1
        /\ \A i \in 1..Len(tcp_in') : tcp_in'[i] = tcp_in[i + 1]
    BY <1>0, <2>1, TailFacts
  <2>4. client = "up" => WrittenInOrder'
    BY <1>0, <2>1, <2>2 DEF InOrder, WrittenInOrder
  <2>5. client = "up" => ServedInOrder'
    BY <1>0, <2>1, <2>2 DEF InOrder, ServedInOrder, SentInOrder
  <2>6. client = "up" => SentInOrder'
    BY <1>0, <2>1, <2>2 DEF InOrder, SentInOrder
  <2> QED BY <2>1, <2>4, <2>5, <2>6 DEF InOrder
<1>6. CASE Forward /\ client = "up" /\ pc' = "request"
  <2> DEFINE rsp == [to |-> cur, of |-> rx[1].of, val |-> rx[1].val]
  <2>1. /\ tcp_out' = Append(tcp_out, rsp) /\ rsp.to = cur
        /\ UNCHANGED <<client, tcp_in, cur, issued>> /\ InService = 1 /\ InService' = 0
    BY <1>6 DEF Forward, Reset, Die, Disconnect, Ended, InService
  <2> HIDE DEF rsp
  <2>2. /\ Len(tcp_out') = Len(tcp_out) + 1
        /\ \A i \in 1..Len(tcp_out) : tcp_out'[i] = tcp_out[i]
        /\ tcp_out'[Len(tcp_out) + 1] = rsp
    BY <1>0, <2>1
  <2>4. client = "up" => WrittenInOrder'
    <3> SUFFICES ASSUME client = "up", NEW i \in 1..Len(tcp_out')
                 PROVE  tcp_out'[i].to.id = issued - Len(tcp_in) - Len(tcp_out') + i
      BY <1>0, <2>1, <2>2 DEF WrittenInOrder
    <3>1. CASE i \in 1..Len(tcp_out)
      BY <1>0, <2>1, <2>2, <3>1 DEF InOrder, WrittenInOrder
    <3>2. CASE i = Len(tcp_out) + 1
      BY <1>0, <2>1, <2>2, <3>2 DEF InOrder, ServedInOrder
    <3> QED BY <1>0, <2>2, <3>1, <3>2
  <2>5. client = "up" => ServedInOrder'
    BY <1>0, <2>1, <2>2 DEF InOrder, ServedInOrder, SentInOrder
  <2>6. client = "up" => SentInOrder'
    BY <1>0, <2>1, <2>2 DEF InOrder, SentInOrder
  <2> QED BY <2>1, <2>4, <2>5, <2>6 DEF InOrder
<1>7. CASE UNCHANGED <<client, tcp_in, tcp_out, cur, issued, last_write>>
           /\ InService' = InService
  BY <1>7 DEF InOrder, WrittenInOrder, ServedInOrder, SentInOrder
<1> QED BY <1>1, <1>2, <1>3, <1>4, <1>5, <1>6, <1>7, ConnectionStep

(* While a connection lasts no request on it is skipped, answered twice or   *)
(* overtaken, whatever the line and the port do: what the client waits for   *)
(* are the last requests it issued, in their order and without a gap.        *)
THEOREM NoneSkipped == Spec => []NoRequestSkipped
<1>1. Init => InOrder
  BY DEF Init, InOrder
<1>2. TypeOK /\ TypeOK' /\ CrossInv /\ InOrder /\ [Next]_vars => InOrder'
  BY InOrderStep
<1>3. TypeOK /\ InOrder => NoRequestSkipped
  <2> SUFFICES ASSUME TypeOK, InOrder, client = "up", NEW i \in DOMAIN Unanswered
               PROVE  Unanswered[i] = issued - Len(Unanswered) + i
    BY DEF NoRequestSkipped
  <2> DEFINE o == Len(tcp_out)
             n == Len(tcp_in)
             A == [k \in DOMAIN tcp_out |-> tcp_out[k].to.id]
             B == IF InService = 1 THEN <<cur.id>> ELSE <<>>
             C == [k \in DOMAIN tcp_in |-> tcp_in[k].id]
  <2>0. /\ o \in Nat /\ n \in Nat /\ issued \in Nat /\ InService \in {0, 1}
        /\ DOMAIN tcp_out = 1..o /\ DOMAIN tcp_in = 1..n
    BY ConnectionTyping
  <2> DEFINE V == {tcp_out[k].to.id : k \in 1..o} \union {cur.id} \union {tcp_in[k].id : k \in 1..n}
  <2>1. A \in Seq(V) /\ Len(A) = o
    <3>1. A \in [1..o -> V]
      BY <2>0
    <3> QED BY <2>0, <3>1, IsSequence
  <2>2. B \in Seq(V) /\ Len(B) = InService
    <3>1. cur.id \in V
      OBVIOUS
    <3> HIDE DEF V
    <3>2. <<cur.id>> \in Seq(V) /\ Len(<<cur.id>>) = 1
      BY <3>1
    <3> QED BY <2>0, <3>2, EmptySeq
  <2>3. C \in Seq(V) /\ Len(C) = n
    <3>1. C \in [1..n -> V]
      BY <2>0
    <3> QED BY <2>0, <3>1, IsSequence
  <2>4. Unanswered = (A \o B) \o C
    BY DEF Unanswered
  <2> HIDE DEF V
  <2>6. /\ Len(Unanswered) = o + InService + n /\ i \in 1..Len(Unanswered)
        /\ Unanswered[i] = IF i <= o THEN A[i]
                           ELSE IF i <= o + InService THEN B[i - o]
                           ELSE C[i - o - InService]
    <3> HIDE DEF A, B, C, o, n
    <3>1. /\ Len(Unanswered) = Len(A) + Len(B) + Len(C)
          /\ DOMAIN Unanswered = 1..Len(Unanswered)
          /\ \A j \in 1..Len(Unanswered) :
                 Unanswered[j] = IF j <= Len(A) THEN A[j]
                                 ELSE IF j <= Len(A) + Len(B) THEN B[j - Len(A)]
                                 ELSE C[j - Len(A) - Len(B)]
      <4>1. A \in Seq(V) /\ B \in Seq(V) /\ C \in Seq(V)
        BY <2>1, <2>2, <2>3
      <4> QED BY ONLY <4>1, <2>4, ThreeParts
    <3> QED BY <2>1, <2>2, <2>3, <3>1
  <2>7. CASE i <= o
    <3>0. i \in 1..o
      BY <2>0, <2>6, <2>7
    <3>1. Unanswered[i] = tcp_out[i].to.id
      BY <2>0, <2>6, <2>7, <3>0
    <3> QED BY <2>0, <2>6, <3>0, <3>1 DEF InOrder, WrittenInOrder
  <2>8. CASE i > o /\ i <= o + InService
    <3>1. InService = 1 /\ i = o + 1
      BY <2>0, <2>6, <2>8
    <3>2. Unanswered[i] = cur.id
      BY <2>0, <2>6, <2>8, <3>1
    <3> QED BY <2>0, <2>6, <3>1, <3>2 DEF InOrder, ServedInOrder, SentInOrder
  <2>9. CASE i > o + InService
    <3>1. i - o - InService \in 1..n
      BY <2>0, <2>6, <2>9
    <3>2. Unanswered[i] = tcp_in[i - o - InService].id
      BY <2>0, <2>6, <2>9, <3>1
    <3> QED BY <2>0, <2>6, <3>1, <3>2 DEF InOrder, ServedInOrder, SentInOrder
  <2> QED BY <2>0, <2>6, <2>7, <2>8, <2>9
<1>4. Spec => []CrossInv
  BY CrossInvAlways
<1> QED BY <1>1, <1>2, <1>3, <1>4, Typing, PTL DEF Spec

-----------------------------------------------------------------------------
(* The invariant behind ReadYourWrites: on a connection that lasts, every    *)
(* request is told the write before it, and the slave's register holds the   *)
(* last write that was served, or the one that is being served.              *)
After(req) == IF req.op = "write" THEN req.id ELSE req.expect

(* The write that the next request to be served was made after.              *)
NextExpect == IF tcp_in = <<>> THEN last_write ELSE tcp_in[1].expect

Chain ==
    /\ \A i \in 1..Len(tcp_in) :
           After(tcp_in[i]) = IF i = Len(tcp_in) THEN last_write ELSE tcp_in[i + 1].expect
    /\ InService = 1 => NextExpect = After(cur)
    /\ pc \in {"open_usb", "accept"} => NextExpect = 0

Right(f) ==
    f.part = "whole" =>
        /\ cur.op = "write" => reg = cur.id
        /\ cur.op = "read" /\ cur.expect # 0 => f.val = cur.expect

Held ==
    /\ pc = "request" /\ NextExpect # 0 => reg = NextExpect
    /\ InService = 1 /\ cur.expect # 0 =>
           reg = cur.expect \/ (cur.op = "write" /\ reg = cur.id)
    /\ pc = "first_char" =>
           /\ line # <<>> => Right(line[1])
           /\ tty # <<>> => Right(tty[1])
    /\ pc = "rest" => Right(rx[1])

RegisterInv == client = "up" => Chain /\ Held

LEMMA ChainStep ==
    ASSUME TypeOK, CrossInv, client = "up" => Chain, [Next]_vars
    PROVE  client' = "up" => Chain'
<1>0. /\ tcp_in \in Seq(Requests) /\ Len(tcp_in) \in Nat /\ InService \in {0, 1}
      /\ tcp_in = <<>> <=> Len(tcp_in) = 0
  BY ConnectionTyping, LenFacts
<1>1. CASE Connect
  <2>1. /\ tcp_in' = <<>> /\ InService' = 0 /\ last_write' = 0
    BY <1>1 DEF Connect, CrossInv, ClientInv, InService
  <2> QED BY <2>1 DEF Chain, NextExpect
<1>2. ASSUME NEW op \in {"read", "write"}, ClientSend(op) PROVE Chain'
  <2> DEFINE req == [id |-> issued + 1, op |-> op, expect |-> last_write]
  <2>1. /\ client = "up" /\ tcp_in' = Append(tcp_in, req) /\ last_write' = After(req)
        /\ UNCHANGED <<pc, cur>> /\ InService' = InService
    BY <1>2 DEF ClientSend, InService, After
  <2>2. req.expect = last_write /\ req \in Requests
    BY <1>2, ConstantsAssumption DEF ClientSend, TypeOK, Requests
  <2> HIDE DEF req
  <2>3. /\ Len(tcp_in') = Len(tcp_in) + 1
        /\ \A i \in 1..Len(tcp_in) : tcp_in'[i] = tcp_in[i]
        /\ tcp_in'[Len(tcp_in) + 1] = req
    BY <1>0, <2>1, <2>2, AppendFacts
  <2>4. tcp_in' # <<>> /\ NextExpect' = NextExpect
    BY <1>0, <2>1, <2>2, <2>3 DEF NextExpect
  <2>5. ASSUME NEW i \in 1..Len(tcp_in')
        PROVE  After(tcp_in'[i])
                   = IF i = Len(tcp_in') THEN last_write' ELSE tcp_in'[i + 1].expect
    <3>1. CASE i = Len(tcp_in) + 1
      BY <2>1, <2>3, <3>1
    <3>2. CASE i = Len(tcp_in)
      BY <1>0, <2>1, <2>2, <2>3, <3>2 DEF Chain
    <3>3. CASE i < Len(tcp_in)
      BY <1>0, <2>1, <2>3, <3>3 DEF Chain
    <3> QED BY <1>0, <2>3, <3>1, <3>2, <3>3
  <2>6. (\A i \in 1..Len(tcp_in) :
            After(tcp_in[i]) = IF i = Len(tcp_in) THEN last_write ELSE tcp_in[i + 1].expect)'
    BY <2>5 DEF After
  <2> QED BY <2>1, <2>4, <2>6 DEF Chain, After
<1>3. CASE ReadRequest
  <2>1. /\ tcp_in # <<>> /\ tcp_in' = Tail(tcp_in) /\ cur' = tcp_in[1]
        /\ UNCHANGED <<client, last_write>> /\ pc' = "write"
    BY <1>3 DEF ReadRequest, ReadRequestWith
  <2>2. /\ Len(tcp_in') = Len(tcp_in) - 1
        /\ \A i \in 1..Len(tcp_in') : tcp_in'[i] = tcp_in[i + 1]
        /\ tcp_in' \in Seq(Requests)
    BY <1>0, <2>1, TailFacts
  <2>3. tcp_in' = <<>> <=> Len(tcp_in') = 0
    BY <2>2, LenFacts
  <2>4. ASSUME client = "up", NEW i \in 1..Len(tcp_in)
        PROVE  After(tcp_in[i]) = IF i = Len(tcp_in) THEN last_write ELSE tcp_in[i + 1].expect
    <3>1. Chain
      BY <2>4
    <3> QED BY <3>1 DEF Chain
  <2>5. client = "up" => NextExpect' = After(cur')
    <3> SUFFICES ASSUME client = "up" PROVE NextExpect' = After(cur')
      OBVIOUS
    <3>1. 1 \in 1..Len(tcp_in)
      BY <1>0, <2>1
    <3>2. After(cur') = IF 1 = Len(tcp_in) THEN last_write ELSE tcp_in[1 + 1].expect
      BY <2>1, <2>4, <3>1
    <3>3. CASE Len(tcp_in') = 0
      BY <1>0, <2>1, <2>2, <2>3, <3>2, <3>3 DEF NextExpect
    <3>4. CASE Len(tcp_in') > 0
      BY <1>0, <2>1, <2>2, <2>3, <3>2, <3>4 DEF NextExpect
    <3> QED BY <1>0, <2>2, <3>3, <3>4
  <2>6. ASSUME client = "up", NEW i \in 1..Len(tcp_in')
        PROVE  After(tcp_in'[i])
                   = IF i = Len(tcp_in') THEN last_write' ELSE tcp_in'[i + 1].expect
    <3>1. i + 1 \in 1..Len(tcp_in) /\ (i = Len(tcp_in') <=> i + 1 = Len(tcp_in))
      BY <1>0, <2>2
    <3>2. After(tcp_in[i + 1])
              = IF i + 1 = Len(tcp_in) THEN last_write ELSE tcp_in[i + 1 + 1].expect
      BY <2>4, <2>6, <3>1
    <3>3. tcp_in'[i] = tcp_in[i + 1] /\ (i # Len(tcp_in') => tcp_in'[i + 1] = tcp_in[i + 1 + 1])
      BY <1>0, <2>2
    <3> QED BY <2>1, <3>1, <3>2, <3>3
  <2>7. client = "up" =>
            (\A i \in 1..Len(tcp_in) :
                 After(tcp_in[i]) = IF i = Len(tcp_in) THEN last_write
                                    ELSE tcp_in[i + 1].expect)'
    BY <2>6 DEF After
  <2> QED BY <2>1, <2>5, <2>7 DEF Chain, After
<1>4. CASE ClientReceive \/ (Forward /\ client = "up" /\ pc' = "request")
  <2>1. /\ UNCHANGED <<client, tcp_in, cur, last_write>>
        /\ InService' = 1 => InService = 1
        /\ pc' \in {"open_usb", "accept"} => pc \in {"open_usb", "accept"}
    BY <1>4 DEF ClientReceive, Forward, Ended, Reset, Die, Disconnect, InService
  <2> QED BY <2>1 DEF Chain, NextExpect, After
<1>5. CASE /\ UNCHANGED <<client, tcp_in, tcp_out, cur, issued, last_write>>
           /\ InService' = InService
           /\ pc' \in {"open_usb", "accept"} => pc \in {"open_usb", "accept"}
  BY <1>5 DEF Chain, NextExpect, After
<1> QED BY <1>1, <1>2, <1>3, <1>4, <1>5, ConnectionStep

(* Steps of the gateway's loop, while frames stay whole. *)
LEMMA HeldGateway ==
    ASSUME TypeOK, OneFrame, CrossInv, client = "up", Chain, Held, Gateway, client' = "up"
    PROVE  Held'
<1> USE DEF serial, tcp
<1>1. CASE OpenUSB
  BY <1>1 DEF OpenUSB, OpenUSBFlush, Held, InService
<1>2. CASE Accept
  BY <1>2 DEF Accept, Held, Chain, NextExpect, InService
<1>3. CASE ReadRequest
  <2>1. NextExpect = tcp_in[1].expect /\ cur' = tcp_in[1]
    BY <1>3 DEF ReadRequest, ReadRequestWith, NextExpect
  <2> QED BY <1>3, <2>1 DEF ReadRequest, ReadRequestWith, Held, InService
<1>4. CASE HangUp \/ SerialError \/ Timeout \/ AcceptFails
  BY <1>4 DEF HangUp, SerialError, Timeout, TimeoutReset, AcceptFails, Reset, Die, Disconnect
<1>5. CASE WriteSerial
  <2>1. line' = <<>> /\ tty' = <<>>
    BY <1>5 DEF WriteSerial, WriteSerialLeaving, OneFrame
  <2> QED BY <1>5, <2>1 DEF WriteSerial, WriteSerialLeaving, Held, InService
<1>6. CASE FirstChar
  <2>1. rx'[1] = tty[1] /\ tty # <<>> /\ pc = "first_char" /\ pc' = "rest"
        /\ UNCHANGED <<cur, reg>>
    BY <1>6 DEF FirstChar
  <2> QED BY <2>1 DEF Held, InService, Right
<1>7. CASE RestRead
  BY <1>7 DEF RestRead, OneFrame
<1>8. CASE CrcRetry
  <2>1. CASE serial_retries > 0
    BY <1>8, <2>1 DEF CrcRetry, Ended, Held, InService
  <2>2. CASE ~(serial_retries > 0)
    BY <1>8, <2>2 DEF CrcRetry, Reset, Disconnect
  <2> QED BY <2>1, <2>2
<1>9. CASE Forward
  <2>1. /\ pc = "rest" /\ pc' = "request" /\ rx[1].part = "whole"
        /\ UNCHANGED <<cur, reg, tcp_in, last_write>>
    BY <1>9 DEF Forward, Reset, Die, Disconnect, Ended, OneFrame, CrcOK
  <2>2. NextExpect' = After(cur) /\ InService' = 0 /\ InService = 1
    BY <2>1 DEF Chain, NextExpect, InService
  <2>3. cur.op \in {"read", "write"}
    BY <2>1, RequestFacts DEF TypeOK
  <2> QED BY <2>1, <2>2, <2>3 DEF Held, Right, After
<1> QED BY <1>1, <1>2, <1>3, <1>4, <1>5, <1>6, <1>7, <1>8, <1>9 DEF Gateway

(* Steps of the slave and the line, while frames stay whole. *)
LEMMA HeldLine ==
    ASSUME TypeOK, OneFrame, WholeFrames, Held, Line
    PROVE  Held'
<1>1. /\ ~Split /\ ~Noise
      /\ UNCHANGED <<pc, cur, rx, tcp_in, last_write>>
  BY DEF WholeFrames, Line, SlaveTask, Deliver, Split, Corrupt, LoseResponse, LoseRequest,
         Noise, tcp
<1>2. NextExpect' = NextExpect /\ InService' = InService
  BY <1>1 DEF NextExpect, InService
<1>3. CASE pc \in {"open_usb", "accept", "ended"}
  BY <1>1, <1>2, <1>3 DEF Held, InService
<1>4. CASE pc \in {"request", "write", "rest"}
  <2>1. UNCHANGED reg
    BY <1>1, <1>4 DEF OneFrame, Line, SlaveTask, Deliver, Corrupt, LoseResponse, LoseRequest
  <2> QED BY <1>1, <1>2, <1>4, <2>1 DEF Held, Right
<1>5. CASE pc = "first_char"
  <2>0. /\ to_slave # <<>> => Len(to_slave) = 1 /\ line = <<>> /\ tty = <<>>
        /\ line # <<>> => to_slave = <<>> /\ Len(line) = 1 /\ tty = <<>>
        /\ tty # <<>> => to_slave = <<>> /\ line = <<>> /\ Len(tty) = 1
    BY <1>5, OneBusy
  <2>1. InService = 1 /\ pc' = "first_char"
    BY <1>1, <1>5 DEF InService
  <2>2. CASE SlaveTask
    <3> DEFINE rsp == [of |-> cur, val |-> reg', part |-> "whole"]
    <3>1. /\ Len(to_slave) = 1 /\ line = <<>> /\ tty' = <<>>
      BY <2>0, <2>2 DEF SlaveTask
    <3>2. Head(to_slave) = cur
      BY <1>5, <2>2, <3>1 DEF SlaveTask, OneFrame
    <3>3. line' = <<rsp>> /\ reg' = IF cur.op = "write" THEN cur.id ELSE reg
      BY <2>2, <3>1, <3>2 DEF SlaveTask
    <3>4. line'[1].part = "whole" /\ line'[1].val = reg'
      BY <3>3
    <3> QED BY <1>1, <1>2, <2>1, <3>1, <3>3, <3>4 DEF Held, Right
  <2>3. CASE Deliver
    <3>1. tty' = <<line[1]>> /\ line # <<>> /\ reg' = reg
      BY <2>0, <2>3 DEF Deliver
    <3>2. line' = <<>>
      BY <2>0, <2>3 DEF Deliver, TypeOK
    <3>3. tty'[1] = line[1]
      BY <3>1
    <3> QED BY <1>1, <1>2, <1>5, <2>1, <3>1, <3>2, <3>3 DEF Held, Right
  <2>4. CASE Corrupt
    <3>1. line' = [line EXCEPT ![1].part = "bad"] /\ line # <<>> /\ UNCHANGED <<tty, reg>>
      BY <2>4 DEF Corrupt
    <3>2. line[1] \in Fragments /\ 1 \in DOMAIN line
      BY <2>0, <3>1, ElementOfSeq DEF TypeOK
    <3>3. line'[1].part = "bad"
      BY <3>1, <3>2 DEF Fragments
    <3>4. tty' = <<>>
      BY <2>0, <3>1
    <3> QED BY <1>1, <1>2, <2>1, <3>1, <3>3, <3>4 DEF Held, Right
  <2>5. CASE LoseResponse
    <3>1. line' = <<>> /\ UNCHANGED <<tty, reg>>
      BY <2>0, <2>5 DEF LoseResponse, TypeOK
    <3> QED BY <1>1, <1>2, <1>5, <2>1, <3>1 DEF Held, Right
  <2>6. CASE LoseRequest
    <3>1. UNCHANGED <<line, tty, reg>>
      BY <2>6 DEF LoseRequest
    <3> QED BY <1>1, <1>2, <1>5, <2>1, <3>1 DEF Held, Right
  <2> QED BY <1>1, <2>2, <2>3, <2>4, <2>5, <2>6 DEF Line
<1> QED BY <1>3, <1>4, <1>5 DEF TypeOK, PCs

LEMMA HeldClient ==
    ASSUME TypeOK, CrossInv, client = "up" => Held, Client \/ UNCHANGED vars
    PROVE  client' = "up" => Held'
<1>0. tcp_in \in Seq(Requests)
  BY ConnectionTyping
<1>1. CASE Connect
  BY <1>1 DEF Connect, CrossInv, ClientInv, Held, InService
<1>2. ASSUME NEW op \in {"read", "write"}, ClientSend(op) PROVE Held'
  <2> DEFINE req == [id |-> issued + 1, op |-> op, expect |-> last_write]
  <2>1. /\ client = "up" /\ tcp_in' = Append(tcp_in, req)
        /\ UNCHANGED <<pc, cur, rx, reg, line, tty>>
    BY <1>2 DEF ClientSend, serial
  <2>2. req.expect = last_write /\ req \in Requests
    BY <1>2, ConstantsAssumption DEF ClientSend, TypeOK, Requests
  <2> HIDE DEF req
  <2>3. /\ Len(tcp_in') = Len(tcp_in) + 1
        /\ \A i \in 1..Len(tcp_in) : tcp_in'[i] = tcp_in[i]
        /\ tcp_in'[Len(tcp_in) + 1] = req
        /\ Len(tcp_in) \in Nat /\ (tcp_in = <<>> <=> Len(tcp_in) = 0)
    BY <1>0, <2>1, <2>2, AppendFacts, LenFacts
  <2>4. NextExpect' = NextExpect
    BY <2>1, <2>2, <2>3 DEF NextExpect
  <2> QED BY <2>1, <2>4 DEF Held, Right, InService
<1>3. CASE ClientReceive \/ ClientClose \/ UNCHANGED vars
  BY <1>3 DEF ClientReceive, ClientClose, vars, serial, tcp, Held, Right, NextExpect, InService
<1> QED BY <1>1, <1>2, <1>3 DEF Client

(* While frames stay whole, a read is answered with the last value written   *)
(* before it on its connection: no request was lost on the way without the   *)
(* connection ending, and no write was sent again after a later one.         *)
THEOREM ReadsSeeWrites ==
    ASSUME WholeFrames
    PROVE  Spec => []ReadYourWrites
<1>1. Init => RegisterInv /\ ReadYourWrites
  BY DEF Init, RegisterInv, ReadYourWrites
<1>2. TypeOK /\ OneFrame /\ CrossInv /\ RegisterInv /\ [Next]_vars => RegisterInv'
  <2> SUFFICES ASSUME TypeOK, OneFrame, CrossInv, RegisterInv, [Next]_vars, client' = "up"
               PROVE  Chain' /\ Held'
    BY DEF RegisterInv
  <2>1. Chain'
    BY ChainStep DEF RegisterInv
  <2>2. CASE Client \/ UNCHANGED vars
    BY <2>2, HeldClient, <2>1 DEF RegisterInv
  <2>3. CASE Gateway
    <3>1. client = "up"
      BY <2>3 DEF Gateway, OpenUSB, OpenUSBFlush, Accept, AcceptFails, ReadRequest, ReadRequestWith, HangUp,
                  AcceptFails, WriteSerial, WriteSerialLeaving, SerialError, FirstChar, Timeout,
                  TimeoutReset, RestRead, CrcRetry, Forward, Reset, Die, Disconnect, tcp
    <3> QED BY <2>1, <2>3, <3>1, HeldGateway DEF RegisterInv
  <2>4. CASE Line
    <3>1. client = "up"
      BY <2>4 DEF Line, SlaveTask, Deliver, Split, Corrupt, LoseResponse, LoseRequest, Noise, tcp
    <3> QED BY <2>1, <2>4, <3>1, HeldLine DEF RegisterInv
  <2> QED BY <2>2, <2>3, <2>4 DEF Next
<1>3. TypeOK /\ OneFrame /\ RegisterInv /\ ReadYourWrites /\ [Next]_vars => ReadYourWrites'
  <2> SUFFICES ASSUME TypeOK, OneFrame, RegisterInv, ReadYourWrites, [Next]_vars
               PROVE  ReadYourWrites'
    OBVIOUS
  <2>0. tcp_out \in Seq(Responses)
    BY DEF TypeOK
  <2>1. CASE UNCHANGED tcp_out \/ tcp_out' = <<>>
    BY <2>1 DEF ReadYourWrites
  <2>2. CASE ClientReceive
    BY <2>0, <2>2 DEF ReadYourWrites, ClientReceive
  <2>3. CASE Forward
    <3> DEFINE rsp == [to |-> cur, of |-> rx[1].of, val |-> rx[1].val]
    <3>1. /\ pc = "rest" /\ rx[1].of = cur /\ rx[1].part = "whole"
          /\ tcp_out' = tcp_out \/ (client = "up" /\ tcp_out' = Append(tcp_out, rsp))
      BY <2>3 DEF Forward, Ended, OneFrame, CrcOK
    <3>2. /\ client = "up" /\ rsp.to.op = "read" /\ rsp.to.expect # 0
              => rsp.of.op = "read" /\ rsp.val = rsp.to.expect
      BY <3>1 DEF RegisterInv, Held, Right
    <3> HIDE DEF rsp
    <3> QED BY <2>0, <3>1, <3>2 DEF ReadYourWrites
  <2>4. UNCHANGED tcp_out \/ tcp_out' = <<>> \/ ClientReceive \/ Forward
    BY TcpOutStep
  <2> QED BY <2>1, <2>2, <2>3, <2>4
<1> QED BY <1>1, <1>2, <1>3, Typing, OneFrameAtATime, CrossInvAlways, PTL DEF Spec
=============================================================================
