------------------------------ MODULE Bytecode ------------------------------
(***************************************************************************)
(* The instruction set shared by the compiler (compiler.c), which writes   *)
(* it, and the virtual machine (runtime.c), which reads it: the opcodes,   *)
(* the operands of each, and the byte encodings of numbers.                *)
(*                                                                         *)
(* A function's code is a sequence of bytes.  The byte at offset o, counted*)
(* from 0 as in the C code, is code[o + 1].                                *)
(***************************************************************************)
EXTENDS Integers, Sequences

CONSTANTS
  Byte,   \* number of values of a uint8_t (256)
  Word    \* number of values of a uint64_t (2^64)

\* A byte numbers the 18 opcodes; a word is not narrower than a byte and
\* not wider than the eight bytes of LOADI_64.
ASSUME BytecodeAssumption ==
  /\ Byte \in Nat /\ Byte >= 18
  /\ Word \in Nat /\ Word >= Byte

Bytes == 0 .. (Byte - 1)
Words == 0 .. (Word - 1)

-----------------------------------------------------------------------------
(***************************************************************************)
(* The opcodes, numbered in the order of opcodes.inc, and their operands.  *)
(***************************************************************************)
OP == [RET       |-> 0,  LOADI_8     |-> 1,  LOADI_16  |-> 2,
       LOADI_32  |-> 3,  LOADI_64    |-> 4,  LOADA_64  |-> 5,
       STOREA_64 |-> 6,  NEW_CLOSURE |-> 7,  NEW_TUPLE |-> 8,
       CALL      |-> 9,  ADD         |-> 10, SUB       |-> 11,
       MUL       |-> 12, NEG         |-> 13, EQ        |-> 14,
       JMP       |-> 15, JZ          |-> 16, MOV       |-> 17]

\* Operands[op + 1] are the operands of opcode op.
Operands == << <<>>,
  <<"U8", "DREG">>, <<"U16", "DREG">>, <<"U32", "DREG">>, <<"U64", "DREG">>,
  <<"REG", "IDX", "DREG">>, <<"REG", "IDX", "REG">>,
  <<"REG", "DREG">>, <<"REG", "DREG">>, <<"REG", "REG", "DREG">>,
  <<"REG", "REG", "DREG">>, <<"REG", "REG", "DREG">>,
  <<"REG", "REG", "DREG">>, <<"REG", "DREG">>, <<"REG", "REG", "DREG">>,
  <<"OFF">>, <<"REG", "OFF">>, <<"REG", "DREG">> >>

Width == [U8 |-> 1, U16 |-> 2, U32 |-> 4, U64 |-> 8,
          REG |-> 1, DREG |-> 1, IDX |-> 2, OFF |-> 2]

\* Offset of the k-th operand of op behind its opcode; of the next
\* instruction when k is one more than their number.
OperandOffset(op, k) ==
  LET args == Operands[op + 1]
  IN 1 + (IF k > 1 THEN Width[args[1]] ELSE 0)
       + (IF k > 2 THEN Width[args[2]] ELSE 0)
       + (IF k > 3 THEN Width[args[3]] ELSE 0)

InstructionLength(op) == OperandOffset(op, Len(Operands[op + 1]) + 1)

-----------------------------------------------------------------------------
(***************************************************************************)
(* Little-endian numbers, as _WriteCodeU* lay them down.                   *)
(***************************************************************************)
U16(v) == << v % Byte, (v \div Byte) % Byte >>
U32(v) == U16(v) \o U16((v \div Byte) \div Byte)
U64(v) == U32(v) \o U32((((v \div Byte) \div Byte) \div Byte) \div Byte)

\* _ReadU*: the number at offset o.
ReadU8(code, o)  == code[o + 1]
ReadU16(code, o) == code[o + 1] + Byte * code[o + 2]
ReadU32(code, o) == ReadU16(code, o) + Byte * Byte * ReadU16(code, o + 2)
ReadU64(code, o) ==
  ReadU32(code, o) + Byte * Byte * Byte * Byte * ReadU32(code, o + 4)

\* The cast of a uint16_t to int16_t.
Int16(v) == IF 2 * v < Byte * Byte THEN v ELSE v - Byte * Byte

\* Mutation: `<=' for `<' where the width is chosen.
LoadImmediateTooShort(v, reg) ==
  IF v <= Byte THEN << OP.LOADI_8, v, reg >>
               ELSE << OP.LOADI_64 >> \o U64(v) \o << reg >>

\* The instruction that loads the word v into register reg: the shortest of
\* the four that holds v.
LoadImmediate(v, reg) ==
  CASE v < Byte               -> << OP.LOADI_8, v, reg >>
    [] v >= Byte /\ v < Byte * Byte
                              -> << OP.LOADI_16 >> \o U16(v) \o << reg >>
    [] v >= Byte * Byte /\ v < Byte * Byte * Byte * Byte
                              -> << OP.LOADI_32 >> \o U32(v) \o << reg >>
    [] OTHER                  -> << OP.LOADI_64 >> \o U64(v) \o << reg >>

=============================================================================
