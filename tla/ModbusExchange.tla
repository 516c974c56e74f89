---------------------------- MODULE ModbusExchange ----------------------------
(***************************************************************************)
(* What modbus-stack promises a program that makes Modbus calls, with      *)
(* nothing of bytes, chunks or stacks: a call is answered once, its        *)
(* callback is called once, and what it hears is the answer to that very   *)
(* call.  A caller has fewer than Window calls waiting when it makes one.  *)
(***************************************************************************)
EXTENDS Naturals, FiniteSets

CONSTANTS Numbers, Window, Answers, NoAnswer

VARIABLE calls       \* by number, the calls so far: the answer given to each, and what it heard

Waiting == {i \in DOMAIN calls : calls[i].heard = <<>>}

Init == DOMAIN calls = {}

Ask(i) ==
    /\ i \notin DOMAIN calls
    /\ Cardinality(Waiting) < Window
    /\ calls' = [k \in DOMAIN calls \union {i} |->
                    IF k = i THEN [given |-> NoAnswer, heard |-> <<>>] ELSE calls[k]]

Give(i) ==
    /\ i \in DOMAIN calls
    /\ calls[i].given = NoAnswer
    /\ \E a \in Answers : calls' = [calls EXCEPT ![i].given = a]

Hear(i) ==
    /\ i \in DOMAIN calls
    /\ calls[i].given # NoAnswer
    /\ calls[i].heard = <<>>
    /\ calls' = [calls EXCEPT ![i].heard = <<calls[i].given>>]

Next ==
    \/ \E i \in Numbers : Ask(i)
    \/ \E i \in DOMAIN calls : Give(i) \/ Hear(i)

(* The server answers and the callback is called, sooner or later. *)
Fairness == WF_calls(\E i \in DOMAIN calls : Give(i)) /\ WF_calls(\E i \in DOMAIN calls : Hear(i))

Spec == Init /\ [][Next]_calls /\ Fairness
===============================================================================
