-------------------------- MODULE ModbusSlave_proofs --------------------------
(***************************************************************************)
(* Proofs about the Modbus slave: what task() makes of any frame that fits *)
(* the bank's addresses in a word and brings the data it announces.        *)
(***************************************************************************)
EXTENDS ModbusSlave, Integers, TLAPS

(* The word that a write asks register a to be set to.                       *)
Ordered(f, a) == IF f.fcode = MB_FC_WRITE_REG THEN f.field2 ELSE f.data[a - f.field1 + 1]

(* A result r for frame f is in order: the bank has all of its registers and *)
(* no other, those that were set hold what f asked for and the others what   *)
(* they held; a write that is acknowledged has set all it asked for, a read  *)
(* or an exception has set nothing; and what was read is what the bank holds. *)
InOrder(bank, f, r) ==
    /\ r.bank \in Banks
    /\ r.set \subseteq Addresses
    /\ r.reply \in Replies
    /\ \A a \in r.set : r.bank[a] = Ordered(f, a)
    /\ \A a \in Addresses \ r.set : r.bank[a] = bank[a]
    /\ r.reply.kind \in {"read", "exception"} => r.set = {}
    /\ r.reply.kind = "echo" => r.set = {f.field1}
    /\ r.reply.kind = "written" => r.set = f.field1..(f.field1 + f.field2 - 1)
    /\ r.reply.kind = "read" =>
           \A i \in DOMAIN r.reply.values :
               /\ r.reply.start + i - 1 \in Addresses
               /\ r.reply.values[i] = r.bank[r.reply.start + i - 1]

LEMMA ExceptionInOrder ==
    ASSUME NEW bank \in Banks, NEW f \in Frames, NEW fcode \in 0..255, NEW excode \in 1..3
    PROVE  InOrder(bank, f, exceptionResponse(bank, fcode, excode))
<1> DEFINE r == exceptionResponse(bank, fcode, excode)
<1>1. /\ r.bank = bank /\ r.set = {}
      /\ r.reply = [kind |-> "exception", fcode |-> (fcode + EXCEPTION) % 256,
                    excode |-> excode]
  BY DEF exceptionResponse, Result
<1>2. r.reply \in Replies
  <2>1. (fcode + EXCEPTION) % 256 \in 0..255
    BY DEF EXCEPTION
  <2> QED BY <1>1, <2>1 DEF Replies
<1> QED BY <1>1, <1>2 DEF InOrder

LEMMA ReadInOrder ==
    ASSUME NEW bank \in Banks, NEW f \in Frames, NEW startreg \in Word, NEW numregs \in Word,
           startreg + numregs < WordSize
    PROVE  InOrder(bank, f, readRegisters(bank, startreg, numregs))
<1> DEFINE values == [i \in 1..numregs |-> bank[startreg + i - 1]]
           r == readRegisters(bank, startreg, numregs)
<1>0. MB_FC_READ_REGS \in 0..255 /\ 2 \in 1..3 /\ 3 \in 1..3 /\ WordSize \in Nat
      /\ startreg \in Nat /\ numregs \in Nat
  BY SlaveAssumption DEF MB_FC_READ_REGS, Word
<1>1. CASE numregs < 1 \/ numregs > MaxRead
  BY <1>0, <1>1, ExceptionInOrder DEF readRegisters
<1>2. CASE ~(numregs < 1 \/ numregs > MaxRead) /\ BeyondBank(startreg, numregs)
  BY <1>0, <1>2, ExceptionInOrder DEF readRegisters
<1>3. CASE ~(numregs < 1 \/ numregs > MaxRead) /\ ~BeyondBank(startreg, numregs)
  <2>1. startreg + numregs <= NUM_REGISTERS
    BY <1>0, <1>3 DEF BeyondBank, NUM_REGISTERS
  <2>2. \A i \in 1..numregs : startreg + i - 1 \in Addresses
    BY <1>0, <2>1 DEF Addresses, NUM_REGISTERS
  <2>3. \A i \in 1..numregs : bank[startreg + i - 1] \in Word
    BY <2>2 DEF Banks
  <2>4. values \in Seq(Word)
    BY <1>0, <2>3
  <2>5. /\ r.bank = bank /\ r.set = {}
        /\ r.reply = [kind |-> "read", start |-> startreg, values |-> values]
    BY <1>3 DEF readRegisters, Result
  <2>6. r.reply \in Replies
    BY <2>4, <2>5 DEF Replies
  <2> QED BY <2>2, <2>5, <2>6 DEF InOrder
<1> QED BY <1>1, <1>2, <1>3

LEMMA SingleInOrder ==
    ASSUME NEW bank \in Banks, NEW f \in Frames, f.fcode = MB_FC_WRITE_REG
    PROVE  InOrder(bank, f, writeSingleRegister(bank, f.field1, f.field2))
<1> DEFINE reg == f.field1
           value == f.field2
           r == writeSingleRegister(bank, reg, value)
<1>0. MB_FC_READ_REGS \in 0..255 /\ 2 \in 1..3 /\ reg \in Nat /\ value \in Word
  BY SlaveAssumption DEF MB_FC_READ_REGS, Frames, Word
<1>1. CASE reg >= NUM_REGISTERS
  BY <1>0, <1>1, ExceptionInOrder DEF writeSingleRegister
<1>2. CASE ~(reg >= NUM_REGISTERS)
  <2>1. reg \in Addresses
    BY <1>0, <1>2 DEF Addresses, NUM_REGISTERS
  <2>2. /\ r.bank = [bank EXCEPT ![reg] = value] /\ r.set = {reg}
        /\ r.reply = [kind |-> "echo"]
    BY <1>2 DEF writeSingleRegister, Result
  <2>3. r.bank \in Banks /\ r.bank[reg] = value /\ \A a \in Addresses \ {reg} : r.bank[a] = bank[a]
    <3> HIDE DEF r, reg, value
    <3> QED BY <1>0, <2>1, <2>2 DEF Banks
  <2>4. r.reply \in Replies /\ r.reply.kind = "echo"
    BY <2>2 DEF Replies
  <2>5. value = Ordered(f, reg) /\ reg = f.field1
    BY DEF Ordered
  <2>6. InOrder(bank, f, r)
    <3> HIDE DEF r, reg, value
    <3> QED BY <2>1, <2>2, <2>3, <2>4, <2>5 DEF InOrder
  <2> QED BY <2>6
<1> QED BY <1>1, <1>2

LEMMA BlockInOrder ==
    ASSUME NEW bank \in Banks, NEW f \in Frames, f.fcode = MB_FC_WRITE_REGS, Fits(f), Carries(f)
    PROVE  InOrder(bank, f, writeMultipleRegisters(bank, f.field1, f.field2, f.bytecount, f.data))
<1> DEFINE startreg == f.field1
           numregs == f.field2
           r == writeMultipleRegisters(bank, startreg, numregs, f.bytecount, f.data)
           block == startreg..(startreg + numregs - 1)
           refused == numregs < 1 \/ numregs > MaxWritten \/ f.bytecount # 2 * numregs
<1>0. /\ MB_FC_READ_REGS \in 0..255 /\ MB_FC_WRITE_REGS \in 0..255 /\ 2 \in 1..3 /\ 3 \in 1..3
      /\ startreg \in Word /\ numregs \in Word /\ startreg \in Nat /\ numregs \in Nat
      /\ WordSize \in Nat /\ startreg + numregs < WordSize /\ f.data \in Seq(Word)
  BY SlaveAssumption DEF MB_FC_READ_REGS, MB_FC_WRITE_REGS, Frames, Word, Fits
<1>1. CASE refused
  BY <1>0, <1>1, ExceptionInOrder DEF writeMultipleRegisters
<1>2. CASE ~refused /\ BeyondBank(startreg, numregs)
  BY <1>0, <1>2, ExceptionInOrder DEF writeMultipleRegisters
<1>3. CASE ~refused /\ ~BeyondBank(startreg, numregs)
  <2>1. startreg + numregs <= NUM_REGISTERS
    <3>1. (startreg + numregs) % WordSize = startreg + numregs
      <4> HIDE DEF startreg, numregs
      <4> QED BY <1>0
    <3>2. ~((startreg + numregs) % WordSize > NUM_REGISTERS)
      BY <1>3 DEF BeyondBank
    <3> HIDE DEF startreg, numregs
    <3> QED BY <1>0, <3>1, <3>2 DEF NUM_REGISTERS
  <2>2. block \subseteq Addresses
    <3> HIDE DEF startreg, numregs
    <3> QED BY <1>0, <2>1 DEF Addresses, NUM_REGISTERS
  <2>3. \A a \in block : f.data[a - startreg + 1] \in Word
    <3>1. numregs <= Len(f.data)
      BY <1>3 DEF Carries
    <3>2. startreg \in Nat /\ numregs \in Nat /\ Len(f.data) \in Nat
          /\ \A i \in 1..Len(f.data) : f.data[i] \in Word
      BY <1>0
    <3>3. ASSUME NEW a \in block
          PROVE  a - startreg + 1 \in 1..Len(f.data)
      <4> HIDE DEF startreg, numregs
      <4>1. a \in Int /\ startreg <= a /\ a <= startreg + numregs - 1
        BY <3>2, <3>3
      <4> QED BY <3>1, <3>2, <4>1
    <3> QED BY <3>2, <3>3
  <2>4. /\ r.bank = [a \in DOMAIN bank \union block |->
                         IF a \in block THEN f.data[a - startreg + 1] ELSE bank[a]]
        /\ r.set = block
        /\ r.reply = [kind |-> "written", start |-> startreg, count |-> numregs]
    BY <1>3 DEF writeMultipleRegisters, Result
  <2>5. DOMAIN bank \union block = Addresses
    BY <2>2 DEF Banks
  <2>6. r.bank \in Banks
    BY <2>3, <2>4, <2>5 DEF Banks
  <2>7. r.reply \in Replies
    BY <1>0, <2>4 DEF Replies
  <2>8. \A a \in r.set : r.bank[a] = Ordered(f, a)
    BY <2>4 DEF Ordered, MB_FC_WRITE_REG, MB_FC_WRITE_REGS
  <2>9. \A a \in Addresses \ r.set : r.bank[a] = bank[a]
    BY <2>4, <2>5
  <2>10. r.reply.kind = "written" /\ r.set = f.field1..(f.field1 + f.field2 - 1)
    BY <2>4
  <2>11. InOrder(bank, f, r)
    <3>1. r.set \subseteq Addresses
      BY <2>2, <2>4
    <3> HIDE DEF r
    <3> QED BY <3>1, <2>6, <2>7, <2>8, <2>9, <2>10 DEF InOrder
  <2> QED BY <2>11
<1> QED BY <1>1, <1>2, <1>3

LEMMA PDUInOrder ==
    ASSUME NEW bank \in Banks, NEW f \in Frames, Fits(f), Carries(f)
    PROVE  InOrder(bank, f, receivePDU(bank, f))
<1>1. /\ f.fcode \in 0..255 /\ f.field1 \in Word /\ f.field2 \in Word /\ 1 \in 1..3
      /\ MB_FC_WRITE_REG # MB_FC_READ_REGS /\ MB_FC_WRITE_REGS # MB_FC_READ_REGS
      /\ MB_FC_WRITE_REGS # MB_FC_WRITE_REG
  BY DEF Frames, MB_FC_READ_REGS, MB_FC_WRITE_REG, MB_FC_WRITE_REGS
<1>2. CASE f.fcode = MB_FC_WRITE_REG
  BY <1>1, <1>2, SingleInOrder DEF receivePDU
<1>3. CASE f.fcode = MB_FC_READ_REGS
  BY <1>1, <1>3, ReadInOrder DEF receivePDU, Fits
<1>4. CASE f.fcode = MB_FC_WRITE_REGS
  BY <1>1, <1>4, BlockInOrder DEF receivePDU
<1>5. CASE f.fcode \notin {MB_FC_WRITE_REG, MB_FC_READ_REGS, MB_FC_WRITE_REGS}
  BY <1>1, <1>5, ExceptionInOrder DEF receivePDU
<1> QED BY <1>2, <1>3, <1>4, <1>5

(* Whatever frame comes, task() leaves a bank of the same registers, sets    *)
(* what the frame asks for and nothing else, and replies with what the bank  *)
(* holds; the last register of a block is never past the bank's.             *)
THEOREM TaskInOrder ==
    ASSUME NEW bank \in Banks, NEW f \in Frames, Fits(f), Carries(f)
    PROVE  InOrder(bank, f, task(bank, f))
<1> DEFINE done == receivePDU(bank, f)
<1>1. CASE ~f.whole \/ f.to \notin {Broadcast, SlaveId}
  BY <1>1 DEF task, InOrder, Result, Silence, Replies
<1>2. CASE f.whole /\ f.to = Broadcast
  <2>1. InOrder(bank, f, done)
    BY PDUInOrder
  <2>2. /\ task(bank, f).bank = done.bank /\ task(bank, f).set = done.set
        /\ task(bank, f).reply = Silence
    BY <1>2 DEF task, receivePDU, Result, exceptionResponse, readRegisters, writeSingleRegister,
                writeMultipleRegisters
  <2>3. Silence \in Replies /\ Silence.kind = "none"
    BY DEF Silence, Replies
  <2> QED BY <2>1, <2>2, <2>3 DEF InOrder
<1>3. CASE f.whole /\ f.to # Broadcast /\ f.to = SlaveId
  BY <1>3, PDUInOrder DEF task
<1> QED BY <1>1, <1>2, <1>3
===============================================================================
