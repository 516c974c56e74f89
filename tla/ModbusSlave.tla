------------------------------ MODULE ModbusSlave ------------------------------
(***************************************************************************)
(* The Modbus slave of the Arduino (ModbusSlave.cpp): what one call of     *)
(* task() makes of the frame it finds, given the bank of registers.  It    *)
(* keeps no state but the bank, so that it is a function of the two; who   *)
(* calls it when is SpeedController's matter.                              *)
(***************************************************************************)
EXTENDS Naturals, Sequences

CONSTANTS
    WordSize,        \* 65536: `word' is unsigned int, 16 bits wide on the AVR
    SlaveId,         \* 1
    MaxRead,         \* 0x7D registers
    MaxWritten       \* 0x7B registers

NUM_REGISTERS == 10
Broadcast     == 255

MB_FC_READ_REGS  == 3
MB_FC_WRITE_REG  == 6
MB_FC_WRITE_REGS == 16
EXCEPTION        == 128

Word      == 0..(WordSize - 1)
Addresses == 0..(NUM_REGISTERS - 1)
Banks     == [Addresses -> Word]

ASSUME SlaveAssumption ==
    /\ WordSize \in Nat /\ WordSize > NUM_REGISTERS
    /\ SlaveId \in 0..254
    /\ MaxRead \in Nat /\ MaxWritten \in Nat

(* What a burst of bytes holds: the address, the function code, two fields,  *)
(* and for a block write the byte count and the words that follow.  It is    *)
(* whole when the CRC matches.                                               *)
Frames == [to : 0..255, whole : BOOLEAN, fcode : 0..255,
           field1 : Word, field2 : Word, bytecount : 0..255, data : Seq(Word)]

(* The sum of two words is a word.  Of a block whose end is not one, the     *)
(* code would go on behind the bank; no master in the repository asks for    *)
(* one, and the model has no memory there.                                   *)
Fits(f) == f.fcode \in {MB_FC_READ_REGS, MB_FC_WRITE_REGS} => f.field1 + f.field2 < WordSize

(* A block write that is accepted brings its words along. *)
Carries(f) == f.fcode = MB_FC_WRITE_REGS /\ f.bytecount = 2 * f.field2 => f.field2 <= Len(f.data)

-----------------------------------------------------------------------------
(* A result: the bank, the registers that were set, and the reply. *)

Replies ==
    [kind : {"none", "echo"}]
    \union [kind : {"read"}, start : Word, values : Seq(Word)]
    \union [kind : {"written"}, start : Word, count : Word]
    \union [kind : {"exception"}, fcode : 0..255, excode : 1..3]

Silence == [kind |-> "none"]

Result(bank, set, reply) == [bank |-> bank, set |-> set, reply |-> reply]

(* The function code of the reply is a byte. *)
exceptionResponse(bank, fcode, excode) ==
    Result(bank, {}, [kind |-> "exception", fcode |-> (fcode + EXCEPTION) % 256, excode |-> excode])

BeyondBankByOne(startreg, numregs) ==   \* mutant: the last register is one too far
    (startreg + numregs) % WordSize > NUM_REGISTERS + 1

BeyondBank(startreg, numregs) == (startreg + numregs) % WordSize > NUM_REGISTERS

readRegisters(bank, startreg, numregs) ==
    IF numregs < 1 \/ numregs > MaxRead
    THEN exceptionResponse(bank, MB_FC_READ_REGS, 3)
    ELSE IF BeyondBank(startreg, numregs)
    THEN exceptionResponse(bank, MB_FC_READ_REGS, 2)
    ELSE Result(bank, {}, [kind |-> "read", start |-> startreg,
                           values |-> [i \in 1..numregs |-> bank[startreg + i - 1]]])

(* The exception for a register that does not exist has the function code of *)
(* a read, in both kinds of write.                                           *)
writeSingleRegister(bank, reg, value) ==
    IF reg >= NUM_REGISTERS
    THEN exceptionResponse(bank, MB_FC_READ_REGS, 2)
    ELSE Result([bank EXCEPT ![reg] = value], {reg}, [kind |-> "echo"])

writeMultipleRegisters(bank, startreg, numregs, bytecount, data) ==
    LET block == startreg..(startreg + numregs - 1) IN
    IF numregs < 1 \/ numregs > MaxWritten \/ bytecount # 2 * numregs
    THEN exceptionResponse(bank, MB_FC_WRITE_REGS, 3)
    ELSE IF BeyondBank(startreg, numregs)
    THEN exceptionResponse(bank, MB_FC_READ_REGS, 2)
    ELSE Result([a \in DOMAIN bank \union block |->
                     IF a \in block THEN data[a - startreg + 1] ELSE bank[a]],
                block,
                [kind |-> "written", start |-> startreg, count |-> numregs])

receivePDU(bank, f) ==
    CASE f.fcode = MB_FC_WRITE_REG  -> writeSingleRegister(bank, f.field1, f.field2)
      [] f.fcode = MB_FC_READ_REGS  -> readRegisters(bank, f.field1, f.field2)
      [] f.fcode = MB_FC_WRITE_REGS ->
             writeMultipleRegisters(bank, f.field1, f.field2, f.bytecount, f.data)
      [] OTHER -> exceptionResponse(bank, f.fcode, 1)

(* task() and receive(): a frame that is not whole or not meant for this     *)
(* slave is dropped; one that is meant for all is done, and not replied to.  *)
task(bank, f) ==
    IF ~f.whole \/ f.to \notin {Broadcast, SlaveId}
    THEN Result(bank, {}, Silence)
    ELSE IF f.to = Broadcast
    THEN [receivePDU(bank, f) EXCEPT !.reply = Silence]
    ELSE receivePDU(bank, f)
===============================================================================
