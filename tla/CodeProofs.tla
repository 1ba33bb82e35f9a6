----------------------------- MODULE CodeProofs -----------------------------
(***************************************************************************)
(* The code of a function can be run: it decodes into instructions from    *)
(* its first byte to one RET at its end, which name only registers that    *)
(* the function has and jump only forwards and to the start of another     *)
(* (CodeWellFormed).                                                       *)
(***************************************************************************)
EXTENDS ClosureProofs

-----------------------------------------------------------------------------
(***************************************************************************)
(* The instructions, by their opcodes.                                     *)
(***************************************************************************)
IsJump(op) == op \in {OP.JMP, OP.JZ}

LEMMA Lengths ==
  /\ InstructionLength(1) = 3 /\ InstructionLength(2) = 4 /\ InstructionLength(3) = 6
  /\ InstructionLength(4) = 10 /\ InstructionLength(5) = 5 /\ InstructionLength(6) = 5
  /\ InstructionLength(7) = 3 /\ InstructionLength(8) = 3 /\ InstructionLength(9) = 4
  /\ InstructionLength(10) = 4 /\ InstructionLength(11) = 4 /\ InstructionLength(12) = 4
  /\ InstructionLength(13) = 3 /\ InstructionLength(14) = 4 /\ InstructionLength(15) = 3
  /\ InstructionLength(16) = 4 /\ InstructionLength(17) = 3 /\ InstructionLength(0) = 1
BY DEF InstructionLength, OperandOffset, Operands, Width

LEMMA Offsets ==
  /\ RegisterOffsets(1) = {2} /\ RegisterOffsets(2) = {3} /\ RegisterOffsets(3) = {5}
  /\ RegisterOffsets(4) = {9} /\ RegisterOffsets(5) = {1, 4} /\ RegisterOffsets(6) = {1, 4}
  /\ RegisterOffsets(7) = {1, 2} /\ RegisterOffsets(8) = {1, 2}
  /\ RegisterOffsets(9) = {1, 2, 3} /\ RegisterOffsets(10) = {1, 2, 3}
  /\ RegisterOffsets(11) = {1, 2, 3} /\ RegisterOffsets(12) = {1, 2, 3}
  /\ RegisterOffsets(13) = {1, 2} /\ RegisterOffsets(14) = {1, 2, 3}
  /\ RegisterOffsets(0) = {} /\ RegisterOffsets(15) = {} /\ RegisterOffsets(16) = {1} /\ RegisterOffsets(17) = {1, 2}
BY DEF RegisterOffsets, OperandOffset, Operands, Width


\* What the proofs need of the tables: an instruction is longer than where its
\* registers are; the last two bytes of a jump are its distance.
LEMMA Layout ==
  ASSUME NEW op \in 1 .. OP.MOV
  PROVE  /\ InstructionLength(op) \in 3 .. 10
         /\ RegisterOffsets(op) \subseteq 1 .. InstructionLength(op) - 1
         /\ IsJump(op) => RegisterOffsets(op) \subseteq 1 .. InstructionLength(op) - 3
<1>1. op \in {1, 2, 3, 4, 5, 6, 7, 8, 9, 10, 11, 12, 13, 14, 15, 16, 17}
  BY DEF OP
<1>2. /\ RegisterOffsets(op) \subseteq 1 .. InstructionLength(op) - 1
      /\ InstructionLength(op) \in 3 .. 10
  BY <1>1, Lengths, Offsets
<1>3. IsJump(op) => RegisterOffsets(op) \subseteq 1 .. InstructionLength(op) - 3
  BY Lengths, Offsets DEF IsJump, OP
<1> QED
  BY <1>2, <1>3

\* A number of two bytes is read as it was written.
LEMMA ReadsBack ==
  ASSUME NEW v \in Nat, 2 * v < Byte * Byte, NEW code, NEW o \in Nat,
         code[o + 1] = U16(v)[1], code[o + 2] = U16(v)[2]
  PROVE  Int16(ReadU16(code, o)) = v
<1> DEFINE q == v \div Byte
           r == v % Byte
<1>1. /\ q \in Nat /\ r \in 0 .. Byte - 1
      /\ v = Byte * q + r
  BY BytecodeAssumption
<1> HIDE DEF q, r
<1>2. q < Byte
  <2> SUFFICES ASSUME q >= Byte PROVE FALSE
    BY <1>1, BytecodeAssumption
  <2>1. Byte * q >= Byte * Byte
    BY <1>1, BytecodeAssumption
  <2> QED
    BY <1>1, <2>1, BytecodeAssumption
<1>3. q % Byte = q
  BY <1>1, <1>2, BytecodeAssumption
<1>4. U16(v)[1] = r /\ U16(v)[2] = q
  BY <1>3 DEF U16, q, r
<1>5. ReadU16(code, o) = v
  BY <1>1, <1>4, BytecodeAssumption DEF ReadU16
<1> QED
  BY <1>5 DEF Int16


-----------------------------------------------------------------------------
(***************************************************************************)
(* Code under way.  S has the offsets of its instructions and of its end,  *)
(* n registers are counted, and H has the offsets of the distances that    *)
(* are still to be written.                                                *)
(***************************************************************************)
Decodes(code, S) ==
  /\ 0 \in S /\ Len(code) \in S /\ S \subseteq 0 .. Len(code)
  /\ \A o \in S \ {Len(code)} :
       /\ code[o + 1] \in 1 .. OP.MOV /\ Behind(code, o) \in S
       /\ \A p \in S : o < p => Behind(code, o) <= p

Registered(code, S, n) ==
  \A o \in S \ {Len(code)} : \A r \in RegistersOf(code, o) : r < n

\* A distance fits an int16_t.
Short(code) == 2 * Len(code) <= Byte * Byte

Lands(code, S, o) == JumpTarget(code, o) \in S \cap (o + 1 .. Len(code))

Jumps(code, S, H) ==
  \A o \in S \ {Len(code)} :
    IsJump(code[o + 1]) => Behind(code, o) - 2 \in H \/ Lands(code, S, o)

Holes(code, S, H) ==
  \A h \in H : \E o \in S \ {Len(code)} :
    IsJump(code[o + 1]) /\ h = Behind(code, o) - 2

Fine(code, S, n, H) ==
  /\ Decodes(code, S) /\ Registered(code, S, n) /\ Holes(code, S, H)
  /\ Short(code) => Jumps(code, S, H)

\* The bytes of one instruction, with registers below n.
IsInstruction(ins, n) ==
  /\ ins \in Seq(Bytes) /\ ins[1] \in 1 .. OP.MOV
  /\ Len(ins) = InstructionLength(ins[1])
  /\ \A offset \in RegisterOffsets(ins[1]) : ins[1 + offset] < n

\* An instruction within the code.
LEMMA InstructionWithin ==
  ASSUME NEW code \in Seq(Bytes), NEW S, Decodes(code, S), NEW o \in S \ {Len(code)}
  PROVE  /\ o \in Nat /\ Len(code) \in Nat /\ o < Len(code)
         /\ code[o + 1] \in 1 .. OP.MOV
         /\ Behind(code, o) \in Nat /\ Behind(code, o) <= Len(code)
         /\ Behind(code, o) = o + InstructionLength(code[o + 1])
         /\ InstructionLength(code[o + 1]) \in 3 .. 10
         /\ Behind(code, o) >= o + 3
<1>1. Len(code) \in Nat /\ o \in 0 .. Len(code) /\ o # Len(code)
  BY LenProperties DEF Decodes
<1>2. code[o + 1] \in 1 .. OP.MOV /\ Behind(code, o) \in 0 .. Len(code)
  BY DEF Decodes
<1> DEFINE k == InstructionLength(code[o + 1])
<1>3. k \in 3 .. 10 /\ Behind(code, o) = o + k
  BY <1>2, Layout DEF Behind
<1> HIDE DEF k
<1>4. Behind(code, o) >= o + 3
  BY <1>1, <1>3
<1> QED
  BY <1>1, <1>2, <1>3, <1>4 DEF k

\* Code that agrees with code on the instruction at o, but for what may be
\* written into the distance of a jump.
LEMMA SameInstruction ==
  ASSUME NEW code \in Seq(Bytes), NEW S, Decodes(code, S), NEW o \in S \ {Len(code)},
         NEW other,
         \A k \in o + 1 .. Behind(code, o) :
           \/ other[k] = code[k]
           \/ IsJump(code[o + 1]) /\ k > Behind(code, o) - 2
  PROVE  /\ other[o + 1] = code[o + 1] /\ Behind(other, o) = Behind(code, o)
         /\ RegistersOf(other, o) = RegistersOf(code, o)
<1>1. /\ o \in Nat /\ code[o + 1] \in 1 .. OP.MOV
      /\ Behind(code, o) = o + InstructionLength(code[o + 1])
      /\ InstructionLength(code[o + 1]) \in 3 .. 10
  BY InstructionWithin
<1>2. other[o + 1] = code[o + 1]
  BY <1>1
<1>3. \A offset \in RegisterOffsets(code[o + 1]) : other[o + 1 + offset] = code[o + 1 + offset]
  <2> TAKE offset \in RegisterOffsets(code[o + 1])
  <2>1. /\ offset \in 1 .. InstructionLength(code[o + 1]) - 1
        /\ IsJump(code[o + 1]) => offset \in 1 .. InstructionLength(code[o + 1]) - 3
    BY <1>1, Layout
  <2>2. o + 1 + offset \in o + 1 .. Behind(code, o)
        /\ (IsJump(code[o + 1]) => ~(o + 1 + offset > Behind(code, o) - 2))
    BY <1>1, <2>1
  <2> QED
    BY <2>2
<1> QED
  BY <1>2, <1>3 DEF Behind, RegistersOf


LEMMA SameJump ==
  ASSUME NEW code \in Seq(Bytes), NEW S, Decodes(code, S), NEW o \in S \ {Len(code)},
         NEW other, \A k \in o + 1 .. Behind(code, o) : other[k] = code[k]
  PROVE  JumpTarget(other, o) = JumpTarget(code, o)
<1>1. /\ o \in Nat /\ Behind(code, o) = o + InstructionLength(code[o + 1])
      /\ InstructionLength(code[o + 1]) \in 3 .. 10
  BY InstructionWithin
<1>2. Behind(other, o) = Behind(code, o)
  BY SameInstruction
<1> DEFINE b == Behind(code, o)
<1>3. b - 2 + 1 \in o + 1 .. b /\ b - 2 + 2 \in o + 1 .. b
  <2>1. b \in Int /\ b >= o + 3
    BY <1>1
  <2> HIDE DEF b
  <2> QED
    BY <1>1, <2>1
<1>4. ReadU16(other, b - 2) = ReadU16(code, b - 2)
  BY <1>3 DEF ReadU16
<1> QED
  BY <1>2, <1>4 DEF JumpTarget, Width

LEMMA RegistersAreNumbers ==
  ASSUME NEW code \in Seq(Bytes), NEW S, Decodes(code, S), NEW o \in S \ {Len(code)},
         NEW r \in RegistersOf(code, o)
  PROVE  r \in Nat
<1>1. PICK offset \in RegisterOffsets(code[o + 1]) : r = code[o + 1 + offset]
  BY DEF RegistersOf
<1>2. /\ o \in Nat /\ code[o + 1] \in 1 .. OP.MOV /\ Len(code) \in Nat
      /\ o + InstructionLength(code[o + 1]) <= Len(code)
      /\ offset \in 1 .. InstructionLength(code[o + 1]) - 1
      /\ InstructionLength(code[o + 1]) \in 3 .. 10
  BY <1>1, InstructionWithin, Layout
<1>3. o + 1 + offset \in 1 .. Len(code)
  BY <1>2
<1> QED
  BY <1>1, <1>3, ElementOfSeq, BytesWithin

\* One instruction more.
LEMMA InstructionAppended ==
  ASSUME NEW code \in Seq(Bytes), NEW S, NEW n \in Nat, NEW H, Fine(code, S, n, H),
         NEW m \in Nat, n <= m, NEW ins, IsInstruction(ins, m)
  PROVE  LET more == code \o ins
             end == Len(more)
         IN Fine(more, S \union {end}, m,
                 IF IsJump(ins[1]) THEN H \union {end - 2} ELSE H)
<1> DEFINE more == code \o ins
           len == Len(code)
           end == Len(more)
           T == S \union {end}
           L == InstructionLength(ins[1])
           G == IF IsJump(ins[1]) THEN H \union {end - 2} ELSE H
<1>1. /\ len \in Nat /\ L \in 3 .. 10 /\ end = len + L /\ end \in Nat
      /\ \A k \in 1 .. len : more[k] = code[k]
      /\ \A k \in 1 .. L : more[len + k] = ins[k]
  <2>1. len \in Nat /\ L \in 3 .. 10 /\ Len(ins) = L
    BY LenProperties, Layout DEF IsInstruction
  <2> QED
    BY <2>1, ConcatProperties DEF IsInstruction
<1>2. Decodes(code, S) /\ len \in S /\ S \subseteq 0 .. len
  BY DEF Fine, Decodes
<1> HIDE DEF more, len, end, L
<1>3. ASSUME NEW o \in S, o # len
      PROVE  /\ o < len /\ o \in Nat /\ more[o + 1] = code[o + 1]
             /\ more[o + 1] \in 1 .. OP.MOV
             /\ Behind(more, o) = Behind(code, o) /\ Behind(more, o) \in S
             /\ Behind(more, o) <= len
             /\ RegistersOf(more, o) = RegistersOf(code, o)
             /\ JumpTarget(more, o) = JumpTarget(code, o)
  <2>1. o \in S \ {Len(code)}
    BY <1>3 DEF len
  <2>2. /\ o \in Nat /\ o < len /\ Behind(code, o) \in Nat /\ Behind(code, o) <= len
        /\ Behind(code, o) \in S /\ code[o + 1] \in 1 .. OP.MOV
    BY <1>2, <2>1, InstructionWithin DEF len, Decodes
  <2>3. \A k \in o + 1 .. Behind(code, o) : more[k] = code[k]
    BY <1>1, <2>2
  <2>4. /\ more[o + 1] = code[o + 1] /\ Behind(more, o) = Behind(code, o)
        /\ RegistersOf(more, o) = RegistersOf(code, o)
    BY <1>2, <2>1, <2>3, SameInstruction
  <2>5. JumpTarget(more, o) = JumpTarget(code, o)
    BY <1>2, <2>1, <2>3, SameJump
  <2> QED
    BY <2>2, <2>4, <2>5
<1>4. /\ more[len + 1] = ins[1] /\ Behind(more, len) = end
      /\ \A r \in RegistersOf(more, len) : r < m
  <2>1. more[len + 1] = ins[1]
    BY <1>1
  <2>2. \A offset \in RegisterOffsets(ins[1]) : more[len + 1 + offset] = ins[1 + offset]
    <3> TAKE offset \in RegisterOffsets(ins[1])
    <3>1. offset \in 1 .. L - 1
      BY Layout DEF IsInstruction, L
    <3>2. 1 + offset \in 1 .. L /\ len + 1 + offset = len + (1 + offset)
      BY <1>1, <3>1
    <3> QED
      BY <1>1, <3>2
  <2> QED
    BY <1>1, <2>1, <2>2 DEF Behind, RegistersOf, IsInstruction, L
<1>5. T \subseteq 0 .. end /\ \A o \in T \ {end} : o = len \/ (o \in S /\ o # len)
  BY <1>1, <1>2
<1>6. Decodes(more, T)
  <2>1. 0 \in T /\ end \in T
    BY <1>2 DEF Decodes
  <2>2. ASSUME NEW o \in T \ {end}
        PROVE  /\ more[o + 1] \in 1 .. OP.MOV /\ Behind(more, o) \in T
               /\ \A p \in T : o < p => Behind(more, o) <= p
    <3>1. CASE o = len
      <4>1. \A p \in T : len < p => p = end
        BY <1>1, <1>2
      <4> QED
        BY <1>1, <1>4, <3>1, <4>1 DEF IsInstruction
    <3>2. CASE o \in S /\ o # len
      <4>1. \A p \in S : o < p => Behind(code, o) <= p
        BY <1>2, <3>2 DEF Decodes, len
      <4>2. Behind(more, o) = Behind(code, o) /\ Behind(more, o) \in S /\ Behind(more, o) <= len
            /\ more[o + 1] \in 1 .. OP.MOV
        BY <1>3, <3>2
      <4>3. Behind(more, o) <= end
        <5>1. Behind(more, o) \in 0 .. len
          BY <1>2, <4>2
        <5>2. len \in Nat /\ len <= end /\ end \in Nat
          BY <1>1
        <5> QED
          BY <5>1, <5>2
      <4>4. \A p \in T : o < p => Behind(more, o) <= p
        BY <4>1, <4>2, <4>3
      <4> QED
        BY <4>2, <4>4
    <3> QED
      BY <1>5, <3>1, <3>2
  <2> QED
    BY <1>5, <2>1, <2>2 DEF Decodes, end
<1>7. Registered(more, T, m)
  <2>1. ASSUME NEW o \in T \ {end}, NEW r \in RegistersOf(more, o) PROVE r < m
    <3>1. CASE o = len
      BY <1>4, <2>1, <3>1
    <3>2. CASE o \in S /\ o # len
      <4>1. r < n /\ r \in Int
        <5>1. r \in RegistersOf(code, o) /\ o \in S \ {Len(code)}
          BY <1>3, <2>1, <3>2 DEF len
        <5>2. r < n
          BY <5>1 DEF Fine, Registered
        <5>3. r \in Nat
          BY <1>2, <5>1, RegistersAreNumbers
        <5> QED
          BY <5>2, <5>3
      <4> QED
        BY <4>1
    <3> QED
      BY <1>5, <3>1, <3>2
  <2> QED
    BY <2>1 DEF Registered, end
<1>8. Holes(more, T, G)
  <2>1. ASSUME NEW h \in G
        PROVE  \E o \in T \ {end} : IsJump(more[o + 1]) /\ h = Behind(more, o) - 2
    <3>1. CASE h \in H
      <4>1. PICK o \in S \ {len} : IsJump(code[o + 1]) /\ h = Behind(code, o) - 2
        BY <3>1 DEF Fine, Holes, len
      <4>2. o \in T \ {end}
        BY <1>1, <1>3, <4>1
      <4> QED
        BY <1>3, <4>1, <4>2
    <3>2. CASE h \notin H
      <4>1. IsJump(ins[1]) /\ h = end - 2
        BY <2>1, <3>2
      <4>2. len \in T \ {end}
        BY <1>1, <1>2
      <4> QED
        BY <1>4, <4>1, <4>2
    <3> QED
      BY <3>1, <3>2
  <2> QED
    BY <2>1 DEF Holes, end
<1>9. Short(more) => Jumps(more, T, G)
  <2>1. ASSUME Short(more), NEW o \in T \ {end}, IsJump(more[o + 1])
        PROVE  Behind(more, o) - 2 \in G \/ Lands(more, T, o)
    <3>1. CASE o = len
      BY <1>4, <2>1, <3>1
    <3>2. CASE o \in S /\ o # len
      <4>1. Short(code)
        BY <1>1, <2>1, BytecodeAssumption DEF Short, len, end
      <4>2. Behind(code, o) - 2 \in H \/ Lands(code, S, o)
        BY <1>3, <2>1, <3>2, <4>1 DEF Fine, Jumps, len
      <4>3. ASSUME Lands(code, S, o) PROVE Lands(more, T, o)
        <5>1. JumpTarget(code, o) \in S \cap (o + 1 .. len)
          BY <4>3 DEF Lands, len
        <5> QED
          BY <1>1, <1>3, <3>2, <5>1 DEF Lands, end
      <4> QED
        BY <1>3, <3>2, <4>2, <4>3
    <3> QED
      BY <1>5, <3>1, <3>2
  <2> QED
    BY <2>1 DEF Jumps, end
<1>10. Fine(more, T, m, G)
  BY <1>6, <1>7, <1>8, <1>9 DEF Fine
<1> QED
  BY <1>10 DEF more, end


\* The distance of a jump from behind it to the end of the code is written.
LEMMA DistanceWritten ==
  ASSUME NEW code \in Seq(Bytes), NEW S, NEW n \in Nat, NEW H, Fine(code, S, n, H),
         NEW loc \in H, NEW G \in SUBSET H, H \subseteq G \union {loc}
  PROVE  LET offset == U16(Len(code) - loc - 2)
             more == [code EXCEPT ![loc + 1] = offset[1], ![loc + 2] = offset[2]]
         IN Fine(more, S, n, G) /\ Len(more) = Len(code)
<1> DEFINE len == Len(code)
           v == len - loc - 2
           offset == U16(v)
           more == [code EXCEPT ![loc + 1] = offset[1], ![loc + 2] = offset[2]]
<1>1. Decodes(code, S) /\ len \in S /\ len \in Nat /\ S \subseteq 0 .. len
  BY LenProperties DEF Fine, Decodes
<1>2. PICK j \in S \ {len} : IsJump(code[j + 1]) /\ loc = Behind(code, j) - 2
  BY DEF Fine, Holes
<1>3. /\ j \in Nat /\ j < len /\ loc \in Nat /\ j < loc /\ loc + 2 = Behind(code, j)
      /\ loc + 2 <= len /\ v \in Nat
  <2>1. /\ j \in Nat /\ j < len /\ Behind(code, j) \in Nat /\ Behind(code, j) <= len
        /\ Behind(code, j) >= j + 3
    BY <1>1, InstructionWithin
  <2> QED
    BY <1>1, <1>2, <2>1
<1> HIDE DEF v, offset
<1>4. /\ more \in Seq(Bytes) /\ Len(more) = len
      /\ more[loc + 1] = offset[1] /\ more[loc + 2] = offset[2]
      /\ \A k \in 1 .. len : k # loc + 1 /\ k # loc + 2 => more[k] = code[k]
  <2>1. offset[1] \in Bytes /\ offset[2] \in Bytes
    BY <1>3, U16Type DEF offset
  <2> DEFINE once == [code EXCEPT ![loc + 1] = offset[1]]
  <2>2. /\ more \in Seq(Bytes) /\ Len(more) = len
    <3>1. once \in Seq(Bytes) /\ Len(once) = len
      BY <2>1, ExceptType, LenProperties
    <3>2. [once EXCEPT ![loc + 2] = offset[2]] \in Seq(Bytes)
      BY <2>1, <3>1, ExceptType
    <3>3. more = [once EXCEPT ![loc + 2] = offset[2]]
      OBVIOUS
    <3> HIDE DEF once, more
    <3>4. DOMAIN more = DOMAIN once
      BY <3>3
    <3> QED
      BY <3>1, <3>2, <3>3, <3>4, LenProperties
  <2>3. DOMAIN code = 1 .. len
    BY LenProperties
  <2>4. loc + 1 \in 1 .. len /\ loc + 2 \in 1 .. len /\ loc + 1 # loc + 2
    BY <1>1, <1>3
  <2> QED
    BY <2>2, <2>3, <2>4
<1> HIDE DEF more, len
<1>5. ASSUME NEW o \in S, o # len
      PROVE  /\ o \in Nat /\ o < len /\ Behind(code, o) \in Nat /\ Behind(code, o) <= len
             /\ (o = j \/ Behind(code, o) <= loc \/ loc + 2 <= o)
  <2>1. /\ o \in Nat /\ o < len /\ Behind(code, o) \in Nat /\ Behind(code, o) <= len
    BY <1>1, <1>5, InstructionWithin DEF len
  <2>2. o < j => Behind(code, o) <= j
    BY <1>1, <1>2, <1>5 DEF Decodes, len
  <2>3. j < o => Behind(code, j) <= o
    BY <1>1, <1>2, <1>5 DEF Decodes, len
  <2> QED
    BY <1>3, <2>1, <2>2, <2>3
<1>6. ASSUME NEW o \in S, o # len
      PROVE  /\ more[o + 1] = code[o + 1] /\ Behind(more, o) = Behind(code, o)
             /\ RegistersOf(more, o) = RegistersOf(code, o)
  <2>1. \A k \in o + 1 .. Behind(code, o) :
          \/ more[k] = code[k]
          \/ IsJump(code[o + 1]) /\ k > Behind(code, o) - 2
    <3> TAKE k \in o + 1 .. Behind(code, o)
    <3>1. k \in 1 .. len
      BY <1>1, <1>5, <1>6
    <3>2. CASE o = j
      BY <1>2, <1>3, <1>4, <3>1, <3>2
    <3>3. CASE o # j
      BY <1>3, <1>4, <1>5, <1>6, <3>1, <3>3
    <3> QED
      BY <3>2, <3>3
  <2> QED
    BY <1>1, <1>6, <2>1, SameInstruction DEF len
<1>7. ASSUME NEW o \in S, o # len, o # j
      PROVE  JumpTarget(more, o) = JumpTarget(code, o)
  <2>1. \A k \in o + 1 .. Behind(code, o) : more[k] = code[k]
    <3> TAKE k \in o + 1 .. Behind(code, o)
    <3>1. k \in 1 .. len
      BY <1>1, <1>5, <1>7
    <3> QED
      BY <1>3, <1>4, <1>5, <1>7, <3>1
  <2> QED
    BY <1>1, <1>7, <2>1, SameJump DEF len
<1>8. Short(code) => Lands(more, S, j)
  <2> SUFFICES ASSUME Short(code) PROVE Lands(more, S, j)
    OBVIOUS
  <2>1. 2 * v < Byte * Byte
    <3>1. 2 * len <= Byte * Byte
      BY DEF Short, len
    <3>2. 2 * v < 2 * len /\ 2 * v \in Nat
      BY <1>1, <1>3 DEF v
    <3>3. Byte * Byte \in Int
      BY BytecodeAssumption
    <3> QED
      BY <1>1, <3>1, <3>2, <3>3
  <2>2. Int16(ReadU16(more, loc)) = v
    BY <1>3, <1>4, <2>1, ReadsBack DEF offset
  <2>3. Behind(more, j) - Width.OFF = loc /\ Behind(more, j) = loc + 2
    BY <1>2, <1>3, <1>6 DEF Width
  <2>4. JumpTarget(more, j) = len
    BY <1>1, <1>3, <2>2, <2>3 DEF JumpTarget, v
  <2> QED
    BY <1>1, <1>3, <1>4, <2>4 DEF Lands
<1>9. Decodes(more, S)
  BY <1>1, <1>4, <1>6 DEF Decodes, len
<1>10. Registered(more, S, n)
  BY <1>4, <1>6 DEF Registered, Fine, len
<1>11. Holes(more, S, G)
  <2>1. ASSUME NEW h \in G
        PROVE  \E o \in S \ {len} : IsJump(more[o + 1]) /\ h = Behind(more, o) - 2
    <3>1. PICK o \in S \ {len} : IsJump(code[o + 1]) /\ h = Behind(code, o) - 2
      BY <2>1 DEF Fine, Holes, len
    <3> QED
      BY <1>6, <3>1
  <2> QED
    BY <1>4, <2>1 DEF Holes
<1>12. Short(more) => Jumps(more, S, G)
  <2>1. ASSUME Short(more), NEW o \in S \ {len}, IsJump(more[o + 1])
        PROVE  Behind(more, o) - 2 \in G \/ Lands(more, S, o)
    <3>1. Short(code)
      BY <1>4, <2>1 DEF Short, len
    <3>2. CASE o = j
      BY <1>8, <3>1, <3>2
    <3>3. CASE o # j
      <4>1. Behind(code, o) - 2 \in H \/ Lands(code, S, o)
        BY <1>6, <2>1, <3>1 DEF Fine, Jumps, len
      <4>2. Behind(code, o) - 2 # loc
        <5>1. o \in S \ {Len(code)}
          BY DEF len
        <5>2. /\ o \in Nat /\ Behind(code, o) \in Nat /\ Behind(code, o) >= o + 3
          BY ONLY <1>1, <5>1, code \in Seq(Bytes), InstructionWithin
        <5>3. Behind(code, o) <= loc \/ loc + 2 <= o
          BY <1>5, <3>3
        <5> QED
          BY <1>3, <5>2, <5>3
      <4>3. Lands(code, S, o) => Lands(more, S, o)
        BY <1>4, <1>7, <3>3 DEF Lands, len
      <4> QED
        BY <1>6, <4>1, <4>2, <4>3
    <3> QED
      BY <3>2, <3>3
  <2> QED
    BY <1>4, <2>1 DEF Jumps
<1>13. Fine(more, S, n, G)
  BY <1>9, <1>10, <1>11, <1>12 DEF Fine
<1> QED
  BY <1>4, <1>13 DEF more, len, offset, v


-----------------------------------------------------------------------------
(***************************************************************************)
(* Where the instructions of a finished function start.                    *)
(***************************************************************************)
\* A walk from o: to where next leads, up to a place where it stops.
IsWalk(g, D, next, stops) ==
  g = [o \in D |-> IF o \in stops THEN {o} ELSE {o} \union g[next[o]]]

\* There is one: what is in every set that has o and is closed under next.
LEMMA WalkExists ==
  ASSUME NEW D, NEW next, NEW stops, \A o \in D : o \notin stops => next[o] \in D
  PROVE  \E g : IsWalk(g, D, next, stops)
<1> DEFINE Closed(C) == \A q \in C : q \notin stops => next[q] \in C
           From(o) == { p \in D : \A C \in SUBSET D : o \in C /\ Closed(C) => p \in C }
           g == [o \in D |-> From(o)]
<1>1. ASSUME NEW o \in D PROVE o \in From(o)
  BY <1>1
<1>2. ASSUME NEW o \in D, o \in stops PROVE From(o) = {o}
  <2>1. Closed({o}) /\ {o} \in SUBSET D
    BY <1>2
  <2> QED
    BY <1>1, <1>2, <2>1
<1>3. ASSUME NEW o \in D, o \notin stops PROVE From(o) = {o} \union From(next[o])
  <2>1. next[o] \in D
    BY <1>3
  <2>2. From(next[o]) \subseteq From(o)
    <3>1. ASSUME NEW C \in SUBSET D, o \in C, Closed(C) PROVE next[o] \in C
      BY <1>3, <3>1
    <3> QED
      BY <3>1
  <2>3. From(o) \subseteq {o} \union From(next[o])
    <3> DEFINE C == {o} \union From(next[o])
    <3>1. C \in SUBSET D /\ o \in C
      OBVIOUS
    <3>2. ASSUME NEW q \in From(next[o]), q \notin stops PROVE next[q] \in From(next[o])
      <4>1. next[q] \in D
        BY <3>2
      <4>2. ASSUME NEW B \in SUBSET D, next[o] \in B, Closed(B) PROVE next[q] \in B
        BY <3>2, <4>2
      <4> QED
        BY <4>1, <4>2
    <3>3. next[o] \in From(next[o])
      BY <1>1, <2>1
    <3>4. Closed(C)
      BY <3>2, <3>3
    <3> HIDE DEF C, Closed
    <3>5. From(o) \subseteq C
      BY <3>1, <3>4
    <3> QED
      BY <3>5 DEF C
  <2> QED
    BY <1>1, <2>2, <2>3
<1> HIDE DEF From
<1>4. \A o \in D : g[o] = From(o) /\ (o \notin stops => g[next[o]] = From(next[o]))
  OBVIOUS
<1>5. \A o \in D : From(o) = IF o \in stops THEN {o} ELSE {o} \union g[next[o]]
  BY <1>2, <1>3, <1>4
<1>6. IsWalk(g, D, next, stops)
  BY <1>5 DEF IsWalk
<1> QED
  BY <1>6


\* A walk through finished code meets all its instructions.
Follow(S, n, next) ==
  /\ n \in Nat /\ 0 \in S /\ n \in S /\ S \subseteq 0 .. n
  /\ \A o \in S : o # n =>
       next[o] \in S /\ o < next[o] /\ \A p \in S : o < p => next[o] <= p

LEMMA WalkMeets ==
  ASSUME NEW S, NEW n, NEW next, Follow(S, n, next),
         NEW D, S \subseteq D, NEW stops, S \cap stops = {n},
         NEW g, IsWalk(g, D, next, stops)
  PROVE  g[0] = S
<1> DEFINE After(o) == { p \in S : p >= o }
           Wrong == { k \in Nat : \E o \in S : k = n - o /\ g[o] # After(o) }
<1>0. /\ n \in Nat /\ 0 \in S /\ n \in S /\ S \subseteq 0 .. n
      /\ \A p \in S : p \in Nat /\ p <= n
  BY DEF Follow
<1>1. SUFFICES ASSUME Wrong # {} PROVE FALSE
  <2>1. After(0) = S
    <3>1. \A p \in S : p >= 0
      BY <1>0
    <3> QED
      BY <3>1
  <2>2. n - 0 \in Nat
    BY <1>0
  <2>3. Wrong = {} => g[0] = After(0)
    BY <1>0, <2>2
  <2> QED
    BY <2>1, <2>3
<1>2. PICK k \in Wrong : \A m \in Wrong : k <= m
  <2> HIDE DEF After
  <2>1. Wrong \in SUBSET Nat
    OBVIOUS
  <2> QED
    BY <1>1, <2>1, LeastNatural
<1>3. PICK o \in S : k = n - o /\ g[o] # After(o)
  OBVIOUS
<1>4. o \in 0 .. n
  BY <1>0
<1>5. g[o] = IF o \in stops THEN {o} ELSE {o} \union g[next[o]]
  BY DEF IsWalk
<1>6. CASE o = n
  <2>1. \A p \in S : p >= o <=> p = o
    BY <1>0, <1>6
  <2>2. After(o) = {o}
    BY <2>1
  <2> QED
    BY <1>3, <1>5, <1>6, <2>2
<1>7. CASE o # n
  <2> DEFINE b == next[o]
  <2>1. b \in S /\ o < b /\ \A p \in S : o < p => b <= p
    BY <1>7 DEF Follow
  <2>2. g[o] = {o} \union g[b]
    BY <1>5, <1>7
  <2> HIDE DEF b
  <2>3. b \in 0 .. n
    BY <1>0, <2>1
  <2>4. g[b] = After(b)
    <3>1. n - b \in Nat /\ n - b < k
      BY <1>0, <1>3, <1>4, <2>1, <2>3
    <3>2. n - b \notin Wrong
      <4> HIDE DEF Wrong
      <4>1. k \in Nat
        BY DEF Wrong
      <4> QED
        BY <1>2, <3>1, <4>1
    <3> HIDE DEF After
    <3> QED
      BY <2>1, <3>1, <3>2
  <2>5. After(o) = {o} \union After(b)
    <3>1. \A p \in S : p >= o <=> p = o \/ p >= b
      BY <1>0, <1>4, <2>1, <2>3
    <3> QED
      BY <2>1, <3>1
  <2> QED
    BY <1>3, <2>2, <2>4, <2>5
<1> QED
  BY <1>6, <1>7

LEMMA BoundariesAre ==
  ASSUME NEW code \in Seq(Bytes), NEW S, Decodes(code, S)
  PROVE  Boundaries(Append(code, OP.RET)) = S \union {Len(code) + 1}
<1> DEFINE f == Append(code, OP.RET)
           len == Len(code)
           n == len + 1
           T == S \union {n}
           D == 0 .. Len(f)
           stops == { o \in D : o = Len(f) \/ f[o + 1] > OP.MOV \/ Behind(f, o) > Len(f) }
           next == [o \in D |-> Behind(f, o)]
           IsFrom(g) == g = [o \in 0 .. Len(f) |->
             IF o = Len(f) \/ f[o + 1] > OP.MOV \/ Behind(f, o) > Len(f)
             THEN {o} ELSE {o} \union g[Behind(f, o)]]
           from == CHOOSE g : IsFrom(g)
<1>1. Boundaries(f) = from[0]
  BY Zenon DEF Boundaries
<1>2. /\ len \in Nat /\ f \in Seq(Bytes) /\ Len(f) = n /\ f[n] = 0
      /\ \A k \in 1 .. len : f[k] = code[k]
  BY AppendProperties, LenProperties, BytesWithin DEF OP
<1>3. \A g : IsFrom(g) <=> IsWalk(g, D, next, stops)
  BY DEF IsWalk
<1> HIDE DEF f
<1>4. \A o \in D : o \notin stops => next[o] \in D
  <2> SUFFICES ASSUME NEW o \in D, o \notin stops PROVE Behind(f, o) \in D
    OBVIOUS
  <2>1. o \in 0 .. n /\ o # n /\ ~(f[o + 1] > OP.MOV) /\ ~(Behind(f, o) > n)
    BY <1>2
  <2>2. f[o + 1] \in Bytes
    <3>1. o + 1 \in 1 .. Len(f)
      BY <1>2, <2>1
    <3> QED
      BY <1>2, <3>1, ElementOfSeq
  <2> DEFINE op == f[o + 1]
  <2>3. op \in 1 .. OP.MOV \/ op = 0
    <3>1. op \in Nat /\ ~(op > OP.MOV)
      BY <2>1, <2>2, BytesWithin
    <3> HIDE DEF op
    <3> QED
      BY <3>1 DEF OP
  <2>4. InstructionLength(f[o + 1]) \in Nat
    <3> HIDE DEF op
    <3>1. CASE op = 0
      BY <3>1, Lengths DEF op
    <3>2. CASE op \in 1 .. OP.MOV
      <4>1. InstructionLength(op) \in 3 .. 10
        BY <3>2, Layout
      <4> QED
        BY <4>1 DEF op
    <3> QED
      BY <2>3, <3>1, <3>2
  <2>5. Behind(f, o) \in Nat
    BY <2>1, <2>4 DEF Behind
  <2> QED
    BY <1>2, <2>1, <2>5
<1>5. ASSUME NEW o \in S, o # len
      PROVE  /\ Behind(f, o) = Behind(code, o) /\ f[o + 1] = code[o + 1]
             /\ code[o + 1] \in 1 .. OP.MOV
             /\ Behind(code, o) \in S /\ o < Behind(code, o) /\ Behind(code, o) <= len
             /\ \A p \in S : o < p => Behind(code, o) <= p
  <2>1. o \in S \ {Len(code)}
    BY <1>5
  <2>2. /\ o \in Nat /\ o < len /\ Behind(code, o) \in Nat /\ Behind(code, o) <= len
        /\ Behind(code, o) >= o + 3 /\ code[o + 1] \in 1 .. OP.MOV
    BY <2>1, InstructionWithin
  <2>3. f[o + 1] = code[o + 1]
    BY <1>2, <2>2
  <2>4. Behind(f, o) = Behind(code, o)
    BY <2>3 DEF Behind
  <2> QED
    BY <2>1, <2>2, <2>3, <2>4 DEF Decodes
<1>6. f[len + 1] = 0 /\ Behind(f, len) = n
  BY <1>2, Lengths DEF Behind
<1>7. S \subseteq 0 .. len /\ 0 \in S /\ len \in S
  BY DEF Decodes
<1>8. ASSUME NEW o \in T, o # n
      PROVE  /\ next[o] \in T /\ o < next[o] /\ \A p \in T : o < p => next[o] <= p
             /\ o \notin stops
  <2>1. o \in 0 .. len /\ o \in S
    BY <1>2, <1>7, <1>8
  <2>2. next[o] = Behind(f, o) /\ o \in D
    BY <1>2, <2>1
  <2> HIDE DEF next, D
  <2>3. CASE o = len
    <3>1. next[o] = n
      BY <1>6, <2>2, <2>3
    <3>2. ~(f[o + 1] > OP.MOV)
      BY <1>6, <2>3 DEF OP
    <3>3. \A p \in T : len < p => n <= p
      BY <1>2, <1>7
    <3>4. o \notin stops
      BY <1>2, <1>6, <1>8, <2>3, <3>2
    <3> HIDE DEF stops
    <3>5. n \in T /\ o < n
      BY <1>2, <2>3
    <3> QED
      BY <2>3, <3>1, <3>3, <3>4, <3>5
  <2>4. CASE o # len
    <3>1. /\ next[o] \in S /\ o < next[o] /\ next[o] <= len
          /\ f[o + 1] \in 1 .. OP.MOV /\ \A p \in S : o < p => next[o] <= p
      BY <1>5, <2>1, <2>2, <2>4
    <3>2. next[o] \in 0 .. len
      BY <1>7, <3>1
    <3>3. next[o] <= n /\ ~(next[o] > n)
      BY <1>2, <3>1, <3>2
    <3>4. ~(f[o + 1] > OP.MOV)
      BY <3>1 DEF OP
    <3>5. o \notin stops
      BY <1>2, <1>8, <2>2, <3>3, <3>4
    <3> HIDE DEF stops
    <3> QED
      BY <3>1, <3>3, <3>5
  <2> QED
    BY <2>3, <2>4
<1>9. T \subseteq D /\ n \in Nat /\ 0 \in T /\ n \in T /\ T \subseteq 0 .. n /\ n \in stops
  <2>1. D = 0 .. n /\ n \in D /\ n = Len(f)
    BY <1>2
  <2>2. T \subseteq 0 .. n /\ 0 \in T /\ n \in T /\ n \in Nat
    <3>1. n \in Nat /\ \A o \in 0 .. len : o \in 0 .. n
      BY <1>2
    <3>2. n \in 0 .. n
      BY <3>1
    <3> QED
      BY <1>7, <3>1, <3>2
  <2>3. n \in stops
    BY <2>1
  <2> QED
    BY <2>1, <2>2, <2>3
<1>10. T \cap stops = {n}
  BY <1>8, <1>9
<1> HIDE DEF D, stops, next, T
<1>11. \E g : IsFrom(g)
  <2>1. \E g : IsWalk(g, D, next, stops)
    BY <1>4, WalkExists
  <2> QED
    BY <1>3, <2>1
<1>12. IsFrom(from)
  <2> HIDE DEF IsFrom
  <2> QED
    BY <1>11, Zenon
<1>13. IsWalk(from, D, next, stops)
  BY <1>3, <1>12
<1> HIDE DEF IsFrom, from, n
<1>14. from[0] = T
  <2>1. Follow(T, n, next)
    BY <1>8, <1>9 DEF Follow
  <2> QED
    BY <1>9, <1>10, <1>13, <2>1, WalkMeets
<1> QED
  BY <1>1, <1>14 DEF T, f, n


-----------------------------------------------------------------------------
(***************************************************************************)
(* A context whose code is right so far, but for the distances in H; when  *)
(* none is left, it makes a function that can be run.                      *)
(***************************************************************************)
Ready(c, H) == \E S : Fine(c.code, S, c.max_registers, H)

LEMMA FinishWellFormed ==
  ASSUME NEW c \in ContextType, Ready(c, {}), NEW r, r < c.max_registers, NEW id,
         Short(FinishCompile(c, r, id).code)
  PROVE  WellFormedFunction(FinishCompile(c, r, id))
<1> DEFINE code == c.code
           len == Len(code)
           f == Append(code, OP.RET)
           n == c.max_registers
           result == FinishCompile(c, r, id)
<1>1. PICK S : Fine(code, S, n, {})
  BY DEF Ready
<1>2. code \in Seq(Bytes) /\ Decodes(code, S) /\ S \subseteq 0 .. len /\ len \in S
  BY <1>1 DEF ContextType, Fine, Decodes
<1>3. /\ len \in Nat /\ Len(f) = len + 1 /\ f[len + 1] = 0
      /\ \A k \in 1 .. len : f[k] = code[k]
  <2> DEFINE zero == OP.RET
  <2>1. zero \in Bytes /\ zero = 0
    BY BytesWithin DEF OP
  <2> HIDE DEF zero, code
  <2>2. code \in Seq(Bytes) /\ f = Append(code, zero)
    BY <1>2 DEF zero
  <2> HIDE DEF f
  <2> QED
    BY <2>1, <2>2, AppendProperties, LenProperties
<1>4. result.code = f /\ result.register_count = n /\ result.result_register = r
  BY DEF FinishCompile
<1>5. Boundaries(f) = S \union {len + 1}
  BY <1>2, BoundariesAre
<1> HIDE DEF f, result
<1>6. Jumps(code, S, {})
  <2>1. Short(code)
    <3>1. 2 * Len(f) <= Byte * Byte
      BY <1>4 DEF Short, result
    <3> QED
      BY <1>3, <3>1, BytecodeAssumption DEF Short
  <2> QED
    BY <1>1, <2>1 DEF Fine
<1> HIDE DEF len
<1>7. ASSUME NEW o \in S, o # len
      PROVE  /\ f[o + 1] \in 1 .. OP.MOV
             /\ \A k \in RegistersOf(f, o) : k < n
             /\ f[o + 1] \in {OP.JMP, OP.JZ} =>
                  JumpTarget(f, o) \in S \cap (o + 1 .. len)
  <2>1. o \in S \ {Len(code)}
    BY <1>7 DEF len
  <2>2. /\ o \in Nat /\ o < len /\ Behind(code, o) \in Nat /\ Behind(code, o) <= len
        /\ code[o + 1] \in 1 .. OP.MOV
    BY <1>2, <2>1, InstructionWithin DEF len
  <2>3. \A k \in o + 1 .. Behind(code, o) : f[k] = code[k]
    BY <1>3, <2>2
  <2>4. /\ f[o + 1] = code[o + 1] /\ RegistersOf(f, o) = RegistersOf(code, o)
        /\ JumpTarget(f, o) = JumpTarget(code, o)
    BY <1>2, <2>1, <2>3, SameInstruction, SameJump
  <2>5. \A k \in RegistersOf(code, o) : k < n
    BY <1>1, <2>1 DEF Fine, Registered
  <2>6. IsJump(code[o + 1]) => Lands(code, S, o)
    BY <1>6, <2>1 DEF Jumps
  <2> QED
    BY <2>2, <2>4, <2>5, <2>6 DEF IsJump, Lands, len
<1>8. RegistersOf(f, len) = {}
  BY <1>3, Offsets DEF RegistersOf
<1> DEFINE starts == S \union {len + 1}
           last == Len(f) - 1
<1>9. last = len /\ last + 1 = len + 1
  BY <1>3
<1> HIDE DEF last
<1>10. \A o \in starts \ {last + 1} :
         /\ f[o + 1] \in 0 .. OP.MOV
         /\ f[o + 1] = OP.RET => o = last
         /\ \A k \in RegistersOf(f, o) : k < n
         /\ f[o + 1] \in {OP.JMP, OP.JZ} => JumpTarget(f, o) \in starts \cap (o + 1 .. last)
  <2> TAKE o \in starts \ {last + 1}
  <2>1. o \in S
    BY <1>9
  <2>2. CASE o = len
    BY <1>3, <1>8, <1>9, <2>2 DEF OP
  <2>3. CASE o # len
    <3>1. f[o + 1] \in 1 .. OP.MOV
      BY <1>7, <2>1, <2>3
    <3>2. f[o + 1] \in 0 .. OP.MOV /\ f[o + 1] # OP.RET
      BY <3>1 DEF OP
    <3> QED
      BY <1>7, <1>9, <2>1, <2>3, <3>2
  <2> QED
    BY <2>2, <2>3
<1>11. last \in starts /\ f[last + 1] = OP.RET
  BY <1>2, <1>3, <1>9 DEF OP, len
<1>12. Boundaries(f) = starts
  BY <1>5 DEF len
<1> HIDE DEF starts
<1>13. WellFormedFunction(result)
  BY <1>4, <1>10, <1>11, <1>12 DEF WellFormedFunction, last
<1> QED
  BY <1>13 DEF result


-----------------------------------------------------------------------------
(***************************************************************************)
(* The instructions the compiler writes.                                   *)
(***************************************************************************)
\* Three pieces of code, one behind the other.
LEMMA Pieces ==
  ASSUME NEW p \in Seq(Bytes), NEW m \in Seq(Bytes), NEW q \in Seq(Bytes)
  PROVE  LET x == p \o m \o q
         IN /\ x \in Seq(Bytes) /\ Len(x) = Len(p) + Len(m) + Len(q)
            /\ \A i \in 1 .. Len(p) : x[i] = p[i]
            /\ \A i \in 1 .. Len(q) : x[Len(p) + Len(m) + i] = q[i]
<1> DEFINE y == p \o m
           x == y \o q
<1>1. Len(p) \in Nat /\ Len(m) \in Nat /\ Len(q) \in Nat
  BY LenProperties
<1>2. /\ y \in Seq(Bytes) /\ Len(y) = Len(p) + Len(m)
      /\ \A i \in 1 .. Len(p) : y[i] = p[i]
  BY <1>1, ConcatProperties
<1> HIDE DEF y
<1>3. /\ x \in Seq(Bytes) /\ Len(x) = Len(y) + Len(q)
      /\ \A i \in 1 .. Len(y) : x[i] = y[i]
      /\ \A i \in 1 .. Len(q) : x[Len(y) + i] = q[i]
  <2>1. /\ x \in Seq(Bytes) /\ Len(x) = Len(y) + Len(q)
        /\ \A i \in 1 .. Len(y) + Len(q) :
             x[i] = IF i <= Len(y) THEN y[i] ELSE q[i - Len(y)]
    <3>1. y \in Seq(Bytes)
      BY <1>2
    <3> QED
      BY <3>1, ConcatProperties, Zenon
  <2> HIDE DEF x
  <2>2. Len(y) \in Nat
    BY <1>1, <1>2
  <2>3. ASSUME NEW i \in 1 .. Len(y) PROVE x[i] = y[i]
    BY <1>1, <2>1, <2>2
  <2>4. ASSUME NEW i \in 1 .. Len(q) PROVE x[Len(y) + i] = q[i]
    <3> DEFINE k == Len(y) + i
    <3>1. k \in 1 .. Len(y) + Len(q) /\ ~(k <= Len(y)) /\ k - Len(y) = i
      BY <1>1, <2>2
    <3> HIDE DEF k
    <3>2. x[k] = q[k - Len(y)]
      BY <2>1, <3>1
    <3> QED
      BY <3>1, <3>2 DEF k
  <2> QED
    BY <2>1, <2>3, <2>4
<1> HIDE DEF x
<1>4. \A i \in 1 .. Len(p) : i \in 1 .. Len(y)
  BY <1>1, <1>2
<1> QED
  BY <1>2, <1>3, <1>4 DEF x, y

LEMMA Joined ==
  ASSUME NEW p \in Seq(Bytes), NEW q \in Seq(Bytes)
  PROVE  LET x == p \o q
         IN /\ x \in Seq(Bytes) /\ Len(x) = Len(p) + Len(q)
            /\ \A i \in 1 .. Len(p) : x[i] = p[i]
            /\ \A i \in 1 .. Len(q) : x[Len(p) + i] = q[i]
<1> DEFINE x == p \o q
<1>1. /\ x \in Seq(Bytes) /\ Len(x) = Len(p) + Len(q)
      /\ \A i \in 1 .. Len(p) + Len(q) :
           x[i] = IF i <= Len(p) THEN p[i] ELSE q[i - Len(p)]
  BY ConcatProperties, Zenon
<1> HIDE DEF x
<1>2. Len(p) \in Nat /\ Len(q) \in Nat
  BY LenProperties
<1>3. \A i \in 1 .. Len(p) : x[i] = p[i]
  BY <1>1, <1>2
<1>4. ASSUME NEW i \in 1 .. Len(q) PROVE x[Len(p) + i] = q[i]
  <2> DEFINE k == Len(p) + i
  <2>1. k \in 1 .. Len(p) + Len(q) /\ ~(k <= Len(p)) /\ k - Len(p) = i
    BY <1>2
  <2> HIDE DEF k
  <2>2. x[k] = q[k - Len(p)]
    BY <1>1, <2>1
  <2> QED
    BY <2>1, <2>2 DEF k
<1> QED
  BY <1>1, <1>3, <1>4 DEF x

\* An opcode and its operands.
LEMMA Headed ==
  ASSUME NEW op \in Bytes, NEW q \in Seq(Bytes)
  PROVE  LET x == <<op>> \o q
         IN /\ x \in Seq(Bytes) /\ Len(x) = 1 + Len(q) /\ x[1] = op
            /\ \A i \in 1 .. Len(q) : x[1 + i] = q[i]
<1> DEFINE p == <<op>>
           x == p \o q
<1>1. p \in Seq(Bytes) /\ Len(p) = 1 /\ p[1] = op
  OBVIOUS
<1> HIDE DEF p
<1>2. /\ x \in Seq(Bytes) /\ Len(x) = Len(p) + Len(q)
      /\ \A i \in 1 .. Len(p) : x[i] = p[i]
      /\ \A i \in 1 .. Len(q) : x[Len(p) + i] = q[i]
  BY <1>1, Joined
<1> HIDE DEF x
<1> QED
  BY <1>1, <1>2 DEF x, p

\* An opcode, an operand and a register: a load.
LEMMA Framed ==
  ASSUME NEW op \in Bytes, NEW m \in Seq(Bytes), NEW r \in Bytes
  PROVE  LET x == <<op>> \o m \o <<r>>
         IN /\ x \in Seq(Bytes) /\ Len(x) = Len(m) + 2
            /\ x[1] = op /\ x[Len(m) + 2] = r
<1> DEFINE p == <<op>>
           q == <<r>>
           x == p \o m \o q
<1>1. /\ p \in Seq(Bytes) /\ q \in Seq(Bytes) /\ Len(p) = 1 /\ Len(q) = 1
      /\ p[1] = op /\ q[1] = r /\ Len(m) \in Nat
  BY LenProperties
<1> HIDE DEF p, q
<1>2. /\ x \in Seq(Bytes) /\ Len(x) = Len(p) + Len(m) + Len(q)
      /\ \A i \in 1 .. Len(p) : x[i] = p[i]
      /\ \A i \in 1 .. Len(q) : x[Len(p) + Len(m) + i] = q[i]
  BY <1>1, Pieces
<1> HIDE DEF x
<1>3. 1 \in 1 .. 1 /\ Len(p) + Len(m) + 1 = Len(m) + 2
  BY <1>1
<1> QED
  BY <1>1, <1>2, <1>3 DEF x, p, q

\* A load of a literal.
LEMMA ImmediateWrites ==
  ASSUME NEW v \in Nat, NEW r \in Bytes, NEW n \in Nat, r < n
  PROVE  /\ IsInstruction(LoadImmediate(v, r), n)
         /\ ~ IsJump(LoadImmediate(v, r)[1])
<1>1. \A w \in Int : w \div Byte \in Int
  BY BytecodeAssumption
<1>2. \A w \in Int : U16(w) \in Seq(Bytes) /\ Len(U16(w)) = 2
  BY U16Type
<1>3. \A w \in Int : U32(w) \in Seq(Bytes) /\ Len(U32(w)) = 4
  <2> TAKE w \in Int
  <2>1. (w \div Byte) \div Byte \in Int
    BY <1>1
  <2> DEFINE u == (w \div Byte) \div Byte
  <2> HIDE DEF u
  <2> DEFINE p == U16(w)
             q == U16(u)
  <2>2. U32(w) = p \o q /\ u \in Int
    BY <2>1 DEF U32, u
  <2>3. p \in Seq(Bytes) /\ Len(p) = 2 /\ q \in Seq(Bytes) /\ Len(q) = 2
    BY <1>2, <2>2
  <2> HIDE DEF p, q
  <2>4. p \o q \in Seq(Bytes) /\ Len(p \o q) = Len(p) + Len(q)
    BY <2>3, Joined
  <2> QED
    BY <2>2, <2>3, <2>4
<1>4. U64(v) \in Seq(Bytes) /\ Len(U64(v)) = 8
  <2> DEFINE u == (((v \div Byte) \div Byte) \div Byte) \div Byte
  <2>1. u \in Int
    BY <1>1
  <2> HIDE DEF u
  <2> DEFINE p == U32(v)
             q == U32(u)
  <2>2. U64(v) = p \o q
    BY DEF U64, u
  <2>3. p \in Seq(Bytes) /\ Len(p) = 4 /\ q \in Seq(Bytes) /\ Len(q) = 4
    BY <1>3, <2>1
  <2> HIDE DEF p, q
  <2>4. p \o q \in Seq(Bytes) /\ Len(p \o q) = Len(p) + Len(q)
    BY <2>3, Joined
  <2> QED
    BY <2>2, <2>3, <2>4
<1> DEFINE Wide(op, m) == <<op>> \o m \o <<r>>
           Loads(x) == IsInstruction(x, n) /\ ~ IsJump(x[1])
           K2 == Byte * Byte
           K4 == Byte * Byte * Byte * Byte
<1>5. ASSUME NEW op \in {2, 3, 4}, NEW m \in Seq(Bytes),
             Len(m) + 2 = InstructionLength(op), RegisterOffsets(op) = {Len(m) + 1}
      PROVE  Loads(Wide(op, m))
  <2> DEFINE x == Wide(op, m)
  <2>1. op \in Bytes /\ op \in 1 .. OP.MOV /\ ~ IsJump(op) /\ Len(m) \in Nat
    BY BytecodeAssumption, LenProperties DEF Bytes, OP, IsJump
  <2>2. x \in Seq(Bytes) /\ Len(x) = Len(m) + 2 /\ x[1] = op /\ x[Len(m) + 2] = r
    BY <2>1, Framed
  <2> HIDE DEF x
  <2>3. 1 + (Len(m) + 1) = Len(m) + 2
    BY <2>1
  <2>4. IsInstruction(x, n) /\ ~ IsJump(x[1])
    BY <1>5, <2>1, <2>2, <2>3 DEF IsInstruction
  <2> QED
    BY <2>4 DEF x
<1>6. v < Byte => Loads(<<1, v, r>>)
  <2>1. v < Byte => v \in Bytes
    BY BytecodeAssumption DEF Bytes
  <2> QED
    BY <2>1, Lengths, Offsets, BytesWithin DEF IsInstruction, OP, IsJump
<1>7. Loads(Wide(2, U16(v))) /\ Loads(Wide(3, U32(v))) /\ Loads(Wide(4, U64(v)))
  <2> HIDE DEF Loads, Wide
  <2>1. /\ U16(v) \in Seq(Bytes) /\ Len(U16(v)) = 2
        /\ U32(v) \in Seq(Bytes) /\ Len(U32(v)) = 4
    BY <1>2, <1>3
  <2>2. Len(U16(v)) + 2 = InstructionLength(2) /\ RegisterOffsets(2) = {Len(U16(v)) + 1}
    BY <2>1, Lengths, Offsets
  <2>3. Len(U32(v)) + 2 = InstructionLength(3) /\ RegisterOffsets(3) = {Len(U32(v)) + 1}
    BY <2>1, Lengths, Offsets
  <2>4. Len(U64(v)) + 2 = InstructionLength(4) /\ RegisterOffsets(4) = {Len(U64(v)) + 1}
    BY <1>4, Lengths, Offsets
  <2> QED
    BY <1>4, <1>5, <2>1, <2>2, <2>3, <2>4
<1> HIDE DEF Loads
<1>8. \/ v < Byte
      \/ v >= Byte /\ v < K2
      \/ v >= K2 /\ v < K4
      \/ ~ (v < Byte) /\ ~ (v >= Byte /\ v < K2) /\ ~ (v >= K2 /\ v < K4)
  OBVIOUS
<1>9. \/ v < Byte /\ LoadImmediate(v, r) = <<1, v, r>>
      \/ LoadImmediate(v, r) = Wide(2, U16(v))
      \/ LoadImmediate(v, r) = Wide(3, U32(v))
      \/ LoadImmediate(v, r) = Wide(4, U64(v))
  <2>1. OP.LOADI_8 = 1 /\ OP.LOADI_16 = 2 /\ OP.LOADI_32 = 3 /\ OP.LOADI_64 = 4
    BY DEF OP
  <2>2. LoadImmediate(v, r) =
          CASE v < Byte -> <<1, v, r>>
            [] v >= Byte /\ v < K2 -> Wide(2, U16(v))
            [] v >= K2 /\ v < K4 -> Wide(3, U32(v))
            [] OTHER -> Wide(4, U64(v))
    BY <2>1 DEF LoadImmediate
  <2> HIDE DEF Wide, K2, K4
  <2>3. Byte \in Nat /\ K2 \in Nat
    BY BytecodeAssumption DEF K2
  <2>4. v < Byte => ~(v >= Byte)
    BY <2>3
  <2>5. v < K2 => ~(v >= K2)
    BY <2>3
  <2>6. CASE v < Byte
    <3>1. v >= K2 => FALSE
      <4>1. K2 >= Byte
        BY BytecodeAssumption DEF K2
      <4> QED
        BY <2>3, <2>6, <4>1
    <3> QED
      BY <2>2, <2>4, <2>6, <3>1
  <2>7. CASE ~(v < Byte)
    BY <1>8, <2>2, <2>5, <2>7
  <2> QED
    BY <2>6, <2>7
<1> QED
  BY <1>6, <1>7, <1>9 DEF Loads


\* A read or a write of a closure or a tuple.
LEMMA SlotWrites ==
  ASSUME NEW op \in {OP.LOADA_64, OP.STOREA_64}, NEW a \in Bytes, NEW b \in Bytes,
         NEW x \in Int, NEW n \in Nat, a < n, b < n
  PROVE  LET ins == <<op, a>> \o U16(x) \o <<b>>
         IN IsInstruction(ins, n) /\ ~ IsJump(ins[1])
<1> DEFINE p == <<op, a>>
           m == U16(x)
           q == <<b>>
           ins == p \o m \o q
<1>1. op \in {5, 6} /\ op \in Bytes
  BY BytesWithin DEF OP
<1>2. /\ p \in Seq(Bytes) /\ q \in Seq(Bytes) /\ m \in Seq(Bytes)
      /\ Len(p) = 2 /\ Len(m) = 2 /\ Len(q) = 1
      /\ p[1] = op /\ p[2] = a /\ q[1] = b
  BY <1>1, U16Type
<1> HIDE DEF p, m, q
<1>3. /\ ins \in Seq(Bytes) /\ Len(ins) = Len(p) + Len(m) + Len(q)
      /\ \A i \in 1 .. Len(p) : ins[i] = p[i]
      /\ \A i \in 1 .. Len(q) : ins[Len(p) + Len(m) + i] = q[i]
  BY <1>2, Pieces
<1> HIDE DEF ins
<1>4. Len(ins) = 5 /\ ins[1] = op /\ ins[2] = a /\ ins[5] = b
  BY <1>2, <1>3
<1>5. /\ InstructionLength(op) = 5 /\ RegisterOffsets(op) = {1, 4}
      /\ op \in 1 .. OP.MOV /\ ~ IsJump(op)
  BY <1>1, Lengths, Offsets DEF OP, IsJump
<1>6. \A offset \in {1, 4} : ins[1 + offset] < n
  <2>1. 1 + 1 = 2 /\ 1 + 4 = 5
    OBVIOUS
  <2> QED
    BY <1>4, <2>1
<1>7. \A offset \in RegisterOffsets(ins[1]) : ins[1 + offset] < n
  BY <1>4, <1>5, <1>6
<1>8. /\ ins[1] \in 1 .. OP.MOV /\ ~ IsJump(ins[1])
      /\ Len(ins) = InstructionLength(ins[1])
  BY <1>4, <1>5
<1>9. IsInstruction(ins, n) /\ ~ IsJump(ins[1])
  BY <1>3, <1>7, <1>8 DEF IsInstruction
<1> QED
  BY <1>9 DEF ins, p, m, q

\* A new closure or tuple, and a move.
LEMMA PairWrites ==
  ASSUME NEW op \in {OP.NEW_CLOSURE, OP.NEW_TUPLE, OP.MOV},
         NEW a \in Bytes, NEW b \in Bytes, NEW n \in Nat, a < n, b < n
  PROVE  IsInstruction(<<op, a, b>>, n) /\ ~ IsJump(<<op, a, b>>[1])
<1>1. op \in {7, 8, 17} /\ op \in Bytes
  BY BytesWithin DEF OP
<1>2. /\ InstructionLength(op) = 3 /\ RegisterOffsets(op) = {1, 2}
      /\ op \in 1 .. OP.MOV /\ ~ IsJump(op)
  BY <1>1, Lengths, Offsets DEF OP, IsJump
<1> DEFINE ins == <<op, a, b>>
<1>3. /\ ins \in Seq(Bytes) /\ Len(ins) = 3
      /\ ins[1] = op /\ ins[2] = a /\ ins[3] = b
  BY <1>1
<1> HIDE DEF ins
<1>4. IsInstruction(ins, n) /\ ~ IsJump(ins[1])
  BY <1>2, <1>3 DEF IsInstruction
<1> QED
  BY <1>4 DEF ins

\* An application, a binary operator and a negation.
LEMMA OperatorWrites ==
  ASSUME NEW e \in Expression, e.type \in {"APPLY", "BINARY"}, OperatorCode(e) # <<>>,
         NEW a \in Bytes, NEW b \in Bytes, NEW r \in Bytes,
         NEW n \in Nat, a < n, b < n, r < n
  PROVE  LET ins == OperatorCode(e) \o <<a, b, r>>
         IN IsInstruction(ins, n) /\ ~ IsJump(ins[1])
<1>1. PICK op \in {9, 10, 11, 12, 14} : OperatorCode(e) = <<op>>
  BY DEF OperatorCode, OP
<1>2. op \in Bytes
  BY <1>1, BytecodeAssumption DEF Bytes
<1>3. /\ InstructionLength(op) = 4 /\ RegisterOffsets(op) = {1, 2, 3}
      /\ op \in 1 .. OP.MOV /\ ~ IsJump(op)
  BY <1>1, Lengths, Offsets DEF OP, IsJump
<1> DEFINE ins == <<op>> \o <<a, b, r>>
<1> DEFINE q == <<a, b, r>>
<1>4. /\ q \in Seq(Bytes) /\ Len(q) = 3
      /\ q[1] = a /\ q[2] = b /\ q[3] = r
  OBVIOUS
<1>5. /\ ins \in Seq(Bytes) /\ Len(ins) = 4
      /\ ins[1] = op /\ ins[2] = a /\ ins[3] = b /\ ins[4] = r
  <2> HIDE DEF q
  <2>1. LET x == <<op>> \o q
        IN /\ x \in Seq(Bytes) /\ Len(x) = 1 + Len(q) /\ x[1] = op
           /\ \A i \in 1 .. Len(q) : x[1 + i] = q[i]
    BY <1>2, <1>4, Headed
  <2> DEFINE y == <<op>> \o q
  <2>2. /\ y \in Seq(Bytes) /\ Len(y) = 1 + Len(q) /\ y[1] = op
        /\ \A i \in 1 .. Len(q) : y[1 + i] = q[i]
    BY <2>1
  <2> HIDE DEF y
  <2>3. Len(y) = 4 /\ y[2] = a /\ y[3] = b /\ y[4] = r
    <3>1. 1 + 1 = 2 /\ 1 + 2 = 3 /\ 1 + 3 = 4
      OBVIOUS
    <3>2. y[1 + 1] = a /\ y[1 + 2] = b /\ y[1 + 3] = r
      BY <1>4, <2>2
    <3> QED
      BY <1>4, <2>2, <3>1, <3>2
  <2>4. ins = y
    BY DEF q, y
  <2> HIDE DEF ins
  <2> QED
    BY <2>2, <2>3, <2>4
<1> HIDE DEF ins
<1>6. IsInstruction(ins, n) /\ ~ IsJump(ins[1])
  BY <1>3, <1>5 DEF IsInstruction
<1> QED
  BY <1>1, <1>6 DEF ins

LEMMA NegationWrites ==
  ASSUME NEW a \in Bytes, NEW r \in Bytes, NEW n \in Nat, a < n, r < n
  PROVE  LET ins == <<OP.NEG>> \o <<a, r>>
         IN IsInstruction(ins, n) /\ ~ IsJump(ins[1])
<1> DEFINE ins == <<OP.NEG>> \o <<a, r>>
<1>1. /\ InstructionLength(13) = 3 /\ RegisterOffsets(13) = {1, 2}
      /\ 13 \in 1 .. OP.MOV /\ ~ IsJump(13) /\ 13 \in Bytes /\ OP.NEG = 13
  BY Lengths, Offsets, BytecodeAssumption DEF OP, IsJump, Bytes
<1> DEFINE q == <<a, r>>
<1>2. /\ q \in Seq(Bytes) /\ Len(q) = 2 /\ q[1] = a /\ q[2] = r
  OBVIOUS
<1>3. /\ ins \in Seq(Bytes) /\ Len(ins) = 3
      /\ ins[1] = 13 /\ ins[2] = a /\ ins[3] = r
  <2> HIDE DEF q
  <2> DEFINE y == <<13>> \o q
  <2>1. /\ y \in Seq(Bytes) /\ Len(y) = 1 + Len(q) /\ y[1] = 13
        /\ \A i \in 1 .. Len(q) : y[1 + i] = q[i]
    BY <1>1, <1>2, Headed
  <2> HIDE DEF y
  <2>2. Len(y) = 3 /\ y[2] = a /\ y[3] = r
    <3>1. 1 + 1 = 2 /\ 1 + 2 = 3
      OBVIOUS
    <3>2. y[1 + 1] = a /\ y[1 + 2] = r
      BY <1>2, <2>1
    <3> QED
      BY <1>2, <2>1, <3>1, <3>2
  <2>3. ins = y
    BY <1>1 DEF q, y
  <2> HIDE DEF ins
  <2> QED
    BY <2>1, <2>2, <2>3
<1> HIDE DEF ins
<1>4. IsInstruction(ins, n) /\ ~ IsJump(ins[1])
  BY <1>1, <1>3 DEF IsInstruction
<1> QED
  BY <1>4 DEF ins

\* The jumps of a conditional.
LEMMA JumpWrites ==
  ASSUME NEW a \in Bytes, NEW n \in Nat, a < n
  PROVE  LET test == <<OP.JZ, a>> \o Hole
             over == <<OP.JMP>> \o Hole
         IN /\ IsInstruction(test, n) /\ IsJump(test[1]) /\ Len(test) = 4
            /\ IsInstruction(over, n) /\ IsJump(over[1]) /\ Len(over) = 3
<1> DEFINE test == <<OP.JZ, a>> \o Hole
           over == <<OP.JMP>> \o Hole
<1>1. /\ InstructionLength(16) = 4 /\ RegisterOffsets(16) = {1}
      /\ 16 \in 1 .. OP.MOV /\ IsJump(16) /\ 16 \in Bytes /\ OP.JZ = 16
  BY Lengths, Offsets, BytecodeAssumption DEF OP, IsJump, Bytes
<1>2. /\ InstructionLength(15) = 3 /\ RegisterOffsets(15) = {}
      /\ 15 \in 1 .. OP.MOV /\ IsJump(15) /\ 15 \in Bytes /\ OP.JMP = 15
  BY Lengths, Offsets, BytecodeAssumption DEF OP, IsJump, Bytes
<1>3. Hole \in Seq(Bytes) /\ Len(Hole) = 2
  BY BytesWithin DEF Hole
<1> DEFINE p == <<OP.JZ, a>>
<1>31. p \in Seq(Bytes) /\ Len(p) = 2 /\ p[1] = 16 /\ p[2] = a
  BY <1>1
<1> DEFINE t == p \o Hole
           o == <<15>> \o Hole
<1> HIDE DEF p
<1>32. /\ t \in Seq(Bytes) /\ Len(t) = Len(p) + Len(Hole)
       /\ \A i \in 1 .. Len(p) : t[i] = p[i]
  BY <1>3, <1>31, Joined
<1>33. /\ o \in Seq(Bytes) /\ Len(o) = 1 + Len(Hole) /\ o[1] = 15
  BY <1>2, <1>3, Headed
<1>34. test = t /\ over = o
  BY <1>2 DEF p
<1> HIDE DEF test, over, t, o
<1>4. test \in Seq(Bytes) /\ Len(test) = 4 /\ test[1] = 16 /\ test[2] = a
  BY <1>3, <1>31, <1>32, <1>34
<1>5. over \in Seq(Bytes) /\ Len(over) = 3 /\ over[1] = 15
  BY <1>3, <1>33, <1>34
<1>6. IsInstruction(test, n) /\ IsInstruction(over, n)
  <2>1. 1 + 1 = 2
    OBVIOUS
  <2>2. \A offset \in RegisterOffsets(test[1]) : test[1 + offset] < n
    BY <1>1, <1>4, <2>1
  <2> QED
    BY <1>1, <1>2, <1>4, <1>5, <2>2 DEF IsInstruction
<1> QED
  BY <1>1, <1>2, <1>4, <1>5, <1>6 DEF test, over



-----------------------------------------------------------------------------
(***************************************************************************)
(* The helpers keep a context ready.                                       *)
(***************************************************************************)
\* Registers are counted, and no code is written.
LEMMA ReadyMore ==
  ASSUME NEW c \in ContextType, NEW d \in ContextType, NEW H, Ready(c, H),
         d.code = c.code, c.max_registers <= d.max_registers
  PROVE  Ready(d, H)
<1> DEFINE code == c.code
           n == c.max_registers
           m == d.max_registers
<1>1. PICK S : Fine(code, S, n, H)
  BY DEF Ready
<1>2. code \in Seq(Bytes) /\ n \in Nat /\ m \in Nat /\ n <= m /\ d.code = code
  BY DEF ContextType
<1> HIDE DEF code, n, m
<1>3. Decodes(code, S) /\ Registered(code, S, n)
  BY <1>1 DEF Fine
<1>4. ASSUME NEW o \in S \ {Len(code)}, NEW r \in RegistersOf(code, o)
      PROVE  r < m
  <2>1. r < n
    BY <1>3 DEF Registered
  <2>2. r \in Nat
    BY <1>2, <1>3, RegistersAreNumbers
  <2> QED
    BY <1>2, <2>1, <2>2
<1>5. Registered(code, S, m)
  BY <1>4 DEF Registered
<1>6. Fine(code, S, m, H)
  BY <1>1, <1>5 DEF Fine
<1> QED
  BY <1>2, <1>6 DEF Ready, m

\* An instruction is written, and registers are counted.
Wrote(c, d, ins) ==
  /\ d \in ContextType /\ d.code = c.code \o ins
  /\ c.max_registers <= d.max_registers /\ IsInstruction(ins, d.max_registers)

LEMMA ReadyWrites ==
  ASSUME NEW c \in ContextType, NEW d, NEW H, Ready(c, H),
         NEW ins, Wrote(c, d, ins)
  PROVE  Ready(d, IF IsJump(ins[1]) THEN H \union {Len(d.code) - 2} ELSE H)
<1> DEFINE code == c.code
           n == c.max_registers
           m == d.max_registers
<1>1. PICK S : Fine(code, S, n, H)
  BY DEF Ready
<1>2. code \in Seq(Bytes) /\ n \in Nat /\ m \in Nat /\ n <= m
  BY DEF ContextType, Wrote
<1>3. d.code = code \o ins /\ IsInstruction(ins, m)
  BY DEF Wrote
<1> HIDE DEF code, n, m
<1> DEFINE more == code \o ins
           end == Len(more)
<1>4. Fine(more, S \union {end}, m,
           IF IsJump(ins[1]) THEN H \union {end - 2} ELSE H)
  BY <1>1, <1>2, <1>3, InstructionAppended
<1>5. d.code = more
  BY <1>3
<1> HIDE DEF more
<1> QED
  BY <1>4, <1>5 DEF Ready, m

LEMMA WriteCodeWrote ==
  ASSUME NEW c \in ContextType, NEW d \in ContextType,
         d.code = c.code, c.max_registers <= d.max_registers,
         NEW ins, IsInstruction(ins, d.max_registers)
  PROVE  Wrote(c, WriteCode(d, ins), ins)
<1>1. WriteCode(d, ins) \in ContextType
  BY WriteCodeType DEF IsInstruction
<1>2. /\ WriteCode(d, ins).code = d.code \o ins
      /\ WriteCode(d, ins).max_registers = d.max_registers
  BY DEF WriteCode, ContextType
<1> QED
  BY <1>1, <1>2 DEF Wrote

LEMMA RegisterReady ==
  ASSUME NEW c \in ContextType, Sound(c), NEW H, Ready(c, H)
  PROVE  Ready(GetFreeIntRegister(c), H)
<1> DEFINE d == GetFreeIntRegister(c)
<1>1. d \in ContextType /\ c.max_registers <= d.max_registers
  BY GetFreeIntRegisterSound DEF Follows
<1>2. d.code = c.code
  BY DEF GetFreeIntRegister, ContextType
<1> HIDE DEF d
<1>3. Ready(d, H)
  BY <1>1, <1>2, ReadyMore
<1> QED
  BY <1>3 DEF d

\* An instruction that takes a register and is no jump.
LEMMA RegisterWritten ==
  ASSUME NEW c \in ContextType, Sound(c), NEW H, Ready(c, H), NEW ins,
         IsInstruction(ins, GetFreeIntRegister(c).max_registers), ~ IsJump(ins[1])
  PROVE  Ready(WriteCode(GetFreeIntRegister(c), ins), H)
<1> DEFINE d == GetFreeIntRegister(c)
<1>1. d \in ContextType /\ c.max_registers <= d.max_registers
  BY GetFreeIntRegisterSound DEF Follows
<1>2. d.code = c.code
  BY DEF GetFreeIntRegister, ContextType
<1> HIDE DEF d
<1>3. IsInstruction(ins, d.max_registers)
  BY DEF d
<1>4. Wrote(c, WriteCode(d, ins), ins)
  BY <1>1, <1>2, <1>3, WriteCodeWrote
<1>5. Ready(WriteCode(d, ins), H)
  BY <1>4, ReadyWrites
<1> QED
  BY <1>5 DEF d

\* An instruction among the registers there are, that is no jump.
LEMMA InstructionWritten ==
  ASSUME NEW c \in ContextType, NEW H, Ready(c, H), NEW ins,
         IsInstruction(ins, c.max_registers), ~ IsJump(ins[1])
  PROVE  Ready(WriteCode(c, ins), H)
<1>1. c.max_registers <= c.max_registers
  BY ContextFields
<1>2. Wrote(c, WriteCode(c, ins), ins)
  BY <1>1, WriteCodeWrote
<1> QED
  BY <1>2, ReadyWrites

LEMMA LoadReady ==
  ASSUME NEW c \in ContextType, Sound(c), NEW H, Ready(c, H), NEW value \in Nat
  PROVE  Ready(WriteLoadLiteral(c, value), H)
<1> DEFINE r == c.integer_registers
           n == GetFreeIntRegister(c).max_registers
           ins == LoadImmediate(value, r)
<1>1. r \in Bytes /\ n \in Nat /\ r < n
  <2>1. GetFreeIntRegister(c) \in ContextType
    BY GetFreeIntRegisterType
  <2> QED
    BY <2>1, GetFreeIntRegisterSound DEF ContextType
<1> HIDE DEF r, n
<1>2. IsInstruction(ins, n) /\ ~ IsJump(ins[1])
  BY <1>1, ImmediateWrites
<1>3. WriteLoadLiteral(c, value) = WriteCode(GetFreeIntRegister(c), ins)
  BY DEF WriteLoadLiteral, r
<1> HIDE DEF ins
<1> QED
  BY <1>2, <1>3, RegisterWritten DEF n

LEMMA PushReady ==
  ASSUME NEW c \in ContextType, NEW H, Ready(c, H), NEW id \in Symbol, NEW r \in Bytes
  PROVE  Ready(PushBinding(c, id, r), H)
<1> DEFINE d == PushBinding(c, id, r)
<1>1. d \in ContextType
  BY PushBindingType
<1>2. d.code = c.code /\ d.max_registers = c.max_registers
  BY DEF PushBinding, ContextType
<1> HIDE DEF d
<1>3. c.max_registers <= d.max_registers
  BY <1>2, ContextFields
<1>4. Ready(d, H)
  BY <1>1, <1>2, <1>3, ReadyMore
<1> QED
  BY <1>4 DEF d

LEMMA PopReady ==
  ASSUME NEW c \in ContextType, NEW H, Ready(c, H)
  PROVE  Ready(PopBinding(c), H)
<1> DEFINE d == PopBinding(c)
<1>1. d \in ContextType
  BY PopBindingType
<1>2. d.code = c.code /\ d.max_registers = c.max_registers
  BY DEF PopBinding, ContextType
<1> HIDE DEF d
<1>3. c.max_registers <= d.max_registers
  BY <1>2, ContextFields
<1>4. Ready(d, H)
  BY <1>1, <1>2, <1>3, ReadyMore
<1> QED
  BY <1>4 DEF d

\* One of the distances is written.
LEMMA PatchReady ==
  ASSUME NEW c \in ContextType, NEW H, Ready(c, H),
         NEW loc \in H, NEW G \in SUBSET H, H \subseteq G \union {loc}
  PROVE  Ready(PatchJump(c, loc), G)
<1> DEFINE code == c.code
           n == c.max_registers
           d == PatchJump(c, loc)
<1>1. PICK S : Fine(code, S, n, H)
  BY DEF Ready
<1>2. code \in Seq(Bytes) /\ n \in Nat
  BY DEF ContextType
<1> DEFINE offset == U16(Len(code) - loc - 2)
           more == [code EXCEPT ![loc + 1] = offset[1], ![loc + 2] = offset[2]]
<1>3. d.code = more /\ d.max_registers = n
  BY DEF PatchJump, ContextType
<1> HIDE DEF code, n, d, offset
<1>4. Fine(more, S, n, G)
  BY <1>1, <1>2, DistanceWritten DEF offset
<1> HIDE DEF more
<1>5. Ready(d, G)
  BY <1>3, <1>4 DEF Ready
<1> QED
  BY <1>5 DEF d

LEMMA IdentifierReady ==
  ASSUME NEW c \in ContextType, Sound(c), NEW H, Ready(c, H), NEW id \in Symbol
  PROVE  Ready(IdentifierContext(c, id), H)
<1>1. CASE Bound(c, id) # {}
  BY <1>1 DEF IdentifierContext
<1>2. CASE Bound(c, id) = {}
  <2> DEFINE offset == ClosureOffset(c, id)
             r == c.integer_registers
             names == IF offset = Len(c.closure_symbols)
                      THEN Append(c.closure_symbols, id)
                      ELSE c.closure_symbols
             closed == [c EXCEPT !.closure_symbols = names]
             n == GetFreeIntRegister(closed).max_registers
             slot == ClosureSlot(offset)
             ins == <<OP.LOADA_64, 0>> \o U16(slot) \o <<r>>
  <2>1. IdentifierContext(c, id) = WriteCode(GetFreeIntRegister(closed), ins)
    BY <1>2 DEF IdentifierContext, LoadClosed
  <2>2. names \in Seq(Symbol)
    <3>1. c.closure_symbols \in Seq(Symbol)
      BY DEF ContextType
    <3> QED
      BY <3>1, AppendProperties
  <2>3. slot \in Int
    BY ClosureOffsetType DEF ClosureSlot
  <2> HIDE DEF names, slot
  <2>4. /\ closed \in ContextType /\ Sound(closed) /\ closed.integer_registers = r
        /\ closed.code = c.code /\ closed.max_registers = c.max_registers
    BY <2>2 DEF ContextType, Sound
  <2> HIDE DEF closed
  <2>5. r \in Bytes /\ n \in Nat /\ r < n
    <3>1. GetFreeIntRegister(closed) \in ContextType
      BY <2>4, GetFreeIntRegisterType
    <3> QED
      BY <2>4, <3>1, GetFreeIntRegisterSound DEF ContextType
  <2> HIDE DEF r, n
  <2>6. 0 \in Bytes /\ 0 < n
    BY <2>5, BytesWithin
  <2>7. IsInstruction(ins, n) /\ ~ IsJump(ins[1])
    BY <2>3, <2>5, <2>6, SlotWrites
  <2> HIDE DEF ins
  <2>8. Ready(closed, H)
    BY <2>4 DEF Ready
  <2>9. Ready(WriteCode(GetFreeIntRegister(closed), ins), H)
    BY <2>4, <2>7, <2>8, RegisterWritten DEF n
  <2> QED
    BY <2>1, <2>9
<1> QED
  BY <1>1, <1>2



-----------------------------------------------------------------------------
(***************************************************************************)
(* The distances that are still to be written into the code of a context   *)
(* are those that the activations of conditionals hold.                    *)
(***************************************************************************)
Unpatched(a, d) ==
  IF a.at \in {"if_then", "if_else"} /\ a.context = d THEN {a.loc} ELSE {}

unpatched(d) == [a \in Placed |-> Unpatched(a, d)]

Left(s, d) == Gathered(unpatched(d), s)

LEMMA LeftAppend ==
  ASSUME NEW s \in Seq(Placed), NEW a \in Placed, NEW d
  PROVE  Left(Append(s, a), d) = Left(s, d) \union Unpatched(a, d)
<1>1. unpatched(d)[a] = Unpatched(a, d)
  BY DEF unpatched
<1> QED
  BY <1>1, GatheredAppend DEF Left

\* The stack with at most two activations in place of its top, which hold
\* distances of the running context only.
Local(a) == a \in Placed /\ (a.context = top.context \/ a.at = "enter")

Layered(s) ==
  \/ s = Front(calls)
  \/ \E a : Local(a) /\ s = Append(Front(calls), a)
  \/ \E a, b : Local(a) /\ Local(b) /\ s = Append(Append(Front(calls), a), b)

LEMMA LeftElsewhere ==
  ASSUME CompilerInv, calls # <<>>, NEW s, Layered(s), NEW d, d # top.context
  PROVE  Left(s, d) = Left(Front(calls), d)
<1> DEFINE base == Front(calls)
<1>1. base \in Seq(Placed)
  BY Base
<1> HIDE DEF base
<1>2. ASSUME NEW t \in Seq(Placed), NEW a, Local(a)
      PROVE  Append(t, a) \in Seq(Placed) /\ Left(Append(t, a), d) = Left(t, d)
  <2>1. a \in Placed /\ Unpatched(a, d) = {}
    BY <1>2 DEF Local, Unpatched
  <2>2. Left(Append(t, a), d) = Left(t, d) \union Unpatched(a, d)
    BY <2>1, LeftAppend
  <2> QED
    BY <2>1, <2>2, AppendProperties
<1>3. CASE s = base
  BY <1>3 DEF base
<1>4. CASE \E a : Local(a) /\ s = Append(base, a)
  BY <1>1, <1>2, <1>4 DEF base
<1>5. CASE \E a, b : Local(a) /\ Local(b) /\ s = Append(Append(base, a), b)
  <2>1. PICK a, b : Local(a) /\ Local(b) /\ s = Append(Append(base, a), b)
    BY <1>5
  <2> DEFINE t == Append(base, a)
  <2>2. t \in Seq(Placed) /\ Left(t, d) = Left(base, d)
    BY <1>1, <1>2, <2>1
  <2> HIDE DEF t
  <2>3. s = Append(t, b)
    BY <2>1 DEF t
  <2> QED
    BY <1>2, <2>1, <2>2, <2>3 DEF base
<1> QED
  BY <1>3, <1>4, <1>5 DEF Layered, base

LEMMA TopLeft ==
  ASSUME CompilerInv, calls # <<>>
  PROVE  /\ Layered(calls) /\ top \in Placed /\ Front(calls) \in Seq(Placed)
         /\ \A d : Left(calls, d) = Left(Front(calls), d) \union Unpatched(top, d)
<1>1. top \in Placed /\ Front(calls) \in Seq(Placed) /\ calls = Append(Front(calls), top)
  BY Base, TopFacts
<1>2. Layered(calls)
  BY <1>1 DEF Local, Layered
<1>3. \A d : Left(Append(Front(calls), top), d) =
               Left(Front(calls), d) \union Unpatched(top, d)
  BY <1>1, LeftAppend
<1> QED
  BY <1>1, <1>2, <1>3

-----------------------------------------------------------------------------
(***************************************************************************)
(* CodeWellFormed, of code under way: the code of every context is ready   *)
(* but for the distances its conditionals hold, and that of every function *)
(* that is written, if its distances fit, can be run.                      *)
(***************************************************************************)
FunctionReady(f) == f # Blank /\ Short(f.code) => WellFormedFunction(f)

CodeReady ==
  /\ \A d \in 1 .. Len(contexts) : Ready(contexts[d], Left(calls, d))
  /\ \A id \in DOMAIN functions : FunctionReady(functions[id])

CodeInv == errors = 0 => CodeReady

\* A step in the running context.
LEMMA CodeUpdated ==
  ASSUME CompilerInv, calls # <<>>, CodeReady, Layered(calls'),
         NEW c, Updated(c), Ready(c, Left(calls', top.context)),
         functions' = functions
  PROVE  CodeReady'
<1>1. ASSUME NEW d \in 1 .. Len(contexts')
      PROVE  Ready(contexts'[d], Left(calls', d))
  <2>1. /\ d \in 1 .. Len(contexts)
        /\ contexts'[d] = IF d = top.context THEN c ELSE contexts[d]
    BY DEF Updated
  <2>2. CASE d = top.context
    BY <2>1, <2>2
  <2>3. CASE d # top.context
    <3>1. /\ Left(calls', d) = Left(Front(calls), d)
          /\ Left(calls, d) = Left(Front(calls), d)
      BY <2>3, TopLeft, LeftElsewhere
    <3>2. Ready(contexts[d], Left(calls, d))
      BY <2>1 DEF CodeReady
    <3> QED
      BY <2>1, <2>3, <3>1, <3>2
  <2> QED
    BY <2>2, <2>3
<1>2. \A id \in DOMAIN functions' : FunctionReady(functions'[id])
  BY DEF CodeReady
<1> QED
  BY <1>1, <1>2 DEF CodeReady

\* What the running activation starts from.
LEMMA TopReady ==
  ASSUME CompilerInv, calls # <<>>, CodeReady
  PROVE  Ready(context, Left(calls, top.context))
BY TopFacts DEF CodeReady, context

\* A step that leaves the distances there are.
Plain ==
  Layered(calls') /\ Left(calls', top.context) = Left(calls, top.context)

LEMMA CodePlain ==
  ASSUME CompilerInv, calls # <<>>, CodeReady, Plain,
         NEW c, SetContext(c), Ready(c, Left(calls, top.context)),
         functions' = functions
  PROVE  CodeReady'
<1>1. Updated(c)
  BY ContextUpdated
<1>2. Layered(calls') /\ Ready(c, Left(calls', top.context))
  BY DEF Plain
<1> QED
  BY <1>1, <1>2, CodeUpdated

LEMMA CodeSame ==
  ASSUME CompilerInv, Running, CodeReady, Plain,
         contexts' = contexts, functions' = functions
  PROVE  CodeReady'
<1>1. calls # <<>> /\ SetContext(context)
  BY ContextUnchanged DEF Running
<1> QED
  BY <1>1, TopReady, CodePlain

\* Steps that are plain: a call, a return, and a move to another place, when
\* neither comes to a jump nor leaves one.
Conditional == {"if_then", "if_else"}

LEMMA PlainReturn ==
  ASSUME CompilerInv, calls # <<>>, top.at \notin Conditional, Returns
  PROVE  Plain
<1>1. Layered(calls') /\ calls' = Front(calls)
  BY DEF Returns, Layered
<1>2. Unpatched(top, top.context) = {}
  BY DEF Unpatched, Conditional
<1>3. Left(calls, top.context) = Left(Front(calls), top.context) \union Unpatched(top, top.context)
  BY TopLeft
<1> QED
  BY <1>1, <1>2, <1>3 DEF Plain

LEMMA PlainBecome ==
  ASSUME CompilerInv, calls # <<>>, top.at \notin Conditional,
         NEW a, Continues(a, top), a.at \notin Conditional,
         calls' = Append(Front(calls), a)
  PROVE  Plain
<1> DEFINE base == Front(calls)
           h == top.context
<1>1. a \in Placed /\ a.context = h
  BY DEF Continues
<1>2. Layered(calls')
  BY <1>1 DEF Layered, Local
<1>3. Unpatched(top, h) = {} /\ Unpatched(a, h) = {}
  BY DEF Unpatched, Conditional
<1>4. base \in Seq(Placed) /\ Left(calls, h) = Left(base, h) \union Unpatched(top, h)
  BY TopLeft
<1> HIDE DEF base, h
<1>5. Left(Append(base, a), h) = Left(base, h) \union Unpatched(a, h)
  BY <1>1, <1>4, LeftAppend
<1> QED
  BY <1>2, <1>3, <1>4, <1>5 DEF Plain, base, h

\* A call, of an activation that holds what a does.
LEMMA LeftPush ==
  ASSUME CompilerInv, calls # <<>>, NEW a \in Placed, a.context = top.context,
         NEW b \in Placed, b.at \notin Conditional,
         b.context = top.context \/ b.at = "enter",
         calls' = Append(Append(Front(calls), a), b)
  PROVE  /\ Layered(calls')
         /\ \A d : Left(calls', d) = Left(Front(calls), d) \union Unpatched(a, d)
<1> DEFINE base == Front(calls)
           t == Append(base, a)
<1>1. Layered(calls')
  BY DEF Layered, Local
<1>2. base \in Seq(Placed)
  BY TopLeft
<1> HIDE DEF base
<1>3. t \in Seq(Placed) /\ \A d : Left(t, d) = Left(base, d) \union Unpatched(a, d)
  BY <1>2, LeftAppend, AppendProperties
<1>4. calls' = Append(t, b)
  BY DEF base
<1> HIDE DEF t
<1>5. ASSUME NEW d PROVE Left(calls', d) = Left(base, d) \union Unpatched(a, d)
  <2>1. Unpatched(b, d) = {}
    BY DEF Unpatched, Conditional
  <2>2. Left(Append(t, b), d) = Left(t, d) \union Unpatched(b, d)
    BY <1>3, LeftAppend
  <2> QED
    BY <1>3, <1>4, <2>1, <2>2
<1> QED
  BY <1>1, <1>5 DEF base

LEMMA PlainDescent ==
  ASSUME CompilerInv, calls # <<>>, Descent,
         top.at \notin Conditional \union {"if_test"}
  PROVE  Plain
<1> DEFINE h == top.context
<1>1. PICK a, b \in Placed : /\ Descends(top, a, b)
                             /\ calls' = Append(Append(Front(calls), a), b)
  BY DEF Descent
<1>2. /\ a.context = h /\ b.context = h
      /\ a.at \notin Conditional /\ b.at \notin Conditional
  BY <1>1 DEF Descends, Calls, Conditional
<1>3. Unpatched(top, h) = {} /\ Unpatched(a, h) = {}
  BY <1>2 DEF Unpatched, Conditional
<1>4. Left(calls, h) = Left(Front(calls), h) \union Unpatched(top, h)
  BY TopLeft
<1>5. /\ Layered(calls')
      /\ \A d : Left(calls', d) = Left(Front(calls), d) \union Unpatched(a, d)
  BY <1>1, <1>2, LeftPush
<1> QED
  BY <1>3, <1>4, <1>5 DEF Plain



-----------------------------------------------------------------------------
(***************************************************************************)
(* The steps that come to no jump and leave none.                          *)
(***************************************************************************)
LEMMA Fits ==
  ASSUME NEW c \in ContextType, NEW d \in ContextType,
         c.max_registers <= d.max_registers, NEW r \in Bytes, r < c.max_registers
  PROVE  r < d.max_registers
<1>1. r \in Nat
  BY BytesWithin
<1> QED
  BY <1>1, ContextFields

LEMMA LiteralCode ==
  ASSUME CompilerInv, Reserved, CodeReady, CompileLiteral
  PROVE  CodeReady'
<1> DEFINE c == WriteLoadLiteral(context, LiteralValue(top.expr))
<1>1. /\ calls # <<>> /\ top.at = "enter" /\ SetContext(c) /\ Returns
      /\ functions' = functions
  BY DEF CompileLiteral, Enter, At, Return, Returns
<1>2. LiteralValue(top.expr) \in Nat
  BY <1>1, TopFacts, Subexpressions DEF LiteralValue, CompileLiteral, Enter
<1>3. Ready(c, Left(calls, top.context))
  BY <1>1, <1>2, TopReady, TopSound, LoadReady
<1> HIDE DEF c
<1>4. Plain
  BY <1>1, PlainReturn DEF Conditional
<1> QED
  BY <1>1, <1>3, <1>4, CodePlain

LEMMA IdentifierCode ==
  ASSUME CompilerInv, Reserved, CodeReady, CompileIdentifier
  PROVE  CodeReady'
<1> DEFINE c == IdentifierContext(context, top.expr.identifier_id)
<1>1. /\ calls # <<>> /\ top.at = "enter" /\ SetContext(c) /\ Returns
      /\ functions' = functions
  BY DEF CompileIdentifier, Enter, At, Return, Returns
<1>2. top.expr.identifier_id \in Symbol
  BY <1>1, TopFacts, Subexpressions DEF CompileIdentifier, Enter
<1>3. Ready(c, Left(calls, top.context))
  BY <1>1, <1>2, TopReady, TopSound, IdentifierReady
<1> HIDE DEF c
<1>4. Plain
  BY <1>1, PlainReturn DEF Conditional
<1> QED
  BY <1>1, <1>3, <1>4, CodePlain

LEMMA LambdaCode ==
  ASSUME CompilerInv, Reserved, CodeReady, CompileLambda
  PROVE  CodeReady'
<1> DEFINE c == GetFreeIntRegister(context)
<1>1. /\ calls # <<>> /\ top.at = "enter" /\ SetContext(c) /\ functions' = functions
  BY DEF CompileLambda, Enter, At
<1>2. Ready(c, Left(calls, top.context))
  BY <1>1, TopReady, TopSound, RegisterReady
<1> HIDE DEF c
<1>3. PICK a : /\ Continues(a, top) /\ a.at = "lambda"
               /\ calls' = Append(Front(calls), a)
  BY LambdaShape
<1>4. Plain
  BY <1>1, <1>3, PlainBecome DEF Conditional
<1> QED
  BY <1>1, <1>2, <1>4, CodePlain

LEMMA CloseVariableCode ==
  ASSUME CompilerInv, Reserved, CodeReady, CloseVariable
  PROVE  CodeReady'
<1> DEFINE id == top.closure[top.i + 1]
           k == IdentifierContext(context, id)
           x == ClosureSlot(top.i)
           r == IdentifierRegister(context, id)
           ins == <<OP.STOREA_64, top.reg>> \o U16(x) \o <<r>>
           c == WriteCode(k, ins)
           H == Left(calls, top.context)
<1>1. /\ calls # <<>> /\ top.at = "closed" /\ SetContext(c) /\ functions' = functions
  BY DEF CloseVariable, At
<1>2. id \in Symbol /\ x \in Int
  <2>1. top.i \in Nat /\ top.closure \in Seq(Symbol)
    BY <1>1, TopFacts DEF ActivationType
  <2>2. top.i + 1 \in 1 .. Len(top.closure)
    BY <2>1, LenProperties DEF CloseVariable
  <2> QED
    BY <2>1, <2>2, ElementOfSeq DEF ClosureSlot
<1>3. context \in ContextType /\ Sound(context) /\ top.reg \in Bytes
      /\ top.reg < context.max_registers /\ Ready(context, H)
  BY <1>1, TopFacts, TopSound, TopReady DEF HoldsRegister
<1> HIDE DEF id, x, H
<1>4. /\ Follows(context, k) /\ r < k.max_registers /\ Ready(k, H) /\ r \in Bytes
  BY <1>2, <1>3, IdentifierSound, IdentifierReady, IdentifierTypes
<1> HIDE DEF k, r
<1>5. k \in ContextType /\ k.max_registers \in Nat /\ top.reg < k.max_registers
  BY <1>3, <1>4, ContextFields, Fits DEF Follows
<1>6. IsInstruction(ins, k.max_registers) /\ ~ IsJump(ins[1])
  BY <1>2, <1>3, <1>4, <1>5, SlotWrites
<1> HIDE DEF ins
<1>7. Ready(c, H)
  BY <1>4, <1>5, <1>6, InstructionWritten
<1> HIDE DEF c
<1>8. PICK a : /\ Continues(a, top) /\ a.at = "closed"
               /\ calls' = Append(Front(calls), a)
  BY CloseShape
<1>9. Plain
  BY <1>1, <1>8, PlainBecome DEF Conditional
<1> QED
  BY <1>1, <1>7, <1>9, CodePlain DEF H

\* The steps that write nothing.
LEMMA QuietCode ==
  ASSUME CompilerInv, CodeReady,
         \/ CompileLet \/ CompileFirst \/ CompileUnary \/ CompileIf \/ LetRecBody
         \/ CompileSecond \/ ReturnClosure
  PROVE  CodeReady'
<1>1. /\ Running /\ calls # <<>> /\ contexts' = contexts /\ functions' = functions
      /\ top.at \notin Conditional \union {"if_test"}
  BY DEF CompileLet, CompileFirst, CompileUnary, CompileIf, LetRecBody, CompileSecond,
         ReturnClosure, Enter, At, Running, Conditional
<1>2. CASE ReturnClosure
  <2>1. Returns
    BY <1>2 DEF ReturnClosure, Return, Returns
  <2>2. Plain
    BY <1>1, <2>1, PlainReturn
  <2> QED
    BY <1>1, <2>2, CodeSame
<1>3. CASE \/ CompileLet \/ CompileFirst \/ CompileUnary \/ CompileIf \/ LetRecBody
           \/ CompileSecond
  <2>1. Descent
    BY <1>3, Descending
  <2>2. Plain
    BY <1>1, <2>1, PlainDescent
  <2> QED
    BY <1>1, <2>2, CodeSame
<1> QED
  BY <1>2, <1>3

LEMMA BindLetCode ==
  ASSUME CompilerInv, CodeReady, BindLet
  PROVE  CodeReady'
<1> DEFINE c == PushBinding(context, top.expr.let_id, ret)
<1>1. /\ calls # <<>> /\ top.at = "let_value" /\ SetContext(c) /\ functions' = functions
  BY DEF BindLet, At
<1>2. top.expr.type = "LET" /\ top.expr \in Expression /\ ret \in Bytes
      /\ context \in ContextType
  BY <1>1, TopFacts DEF Placed, ExpressionType
<1>3. top.expr.let_id \in Symbol
  BY <1>2, Subexpressions
<1>4. Ready(c, Left(calls, top.context))
  BY <1>1, <1>2, <1>3, TopReady, PushReady
<1> HIDE DEF c
<1>5. Plain
  BY <1>1, Descending, PlainDescent DEF Conditional
<1> QED
  BY <1>1, <1>4, <1>5, CodePlain

LEMMA EndLetCode ==
  ASSUME CompilerInv, CodeReady, EndLet
  PROVE  CodeReady'
<1> DEFINE c == PopBinding(context)
<1>1. /\ calls # <<>> /\ top.at = "let_body" /\ SetContext(c) /\ Returns
      /\ functions' = functions
  BY DEF EndLet, At, Return, Returns
<1>2. Ready(c, Left(calls, top.context))
  BY <1>1, TopFacts, TopReady, PopReady
<1> HIDE DEF c
<1>3. Plain
  BY <1>1, PlainReturn DEF Conditional
<1> QED
  BY <1>1, <1>2, <1>3, CodePlain

LEMMA LetRecCode ==
  ASSUME CompilerInv, Reserved, CodeReady, CompileLetRec
  PROVE  CodeReady'
<1> DEFINE r == context.integer_registers
           d == GetFreeIntRegister(context)
           c == PushBinding(d, top.expr.let_id, r)
<1>1. /\ calls # <<>> /\ top.at = "enter" /\ SetContext(c) /\ functions' = functions
  BY DEF CompileLetRec, Enter, At
<1>2. /\ top.expr.type = "LETREC" /\ top.expr \in Expression /\ r \in Bytes
      /\ context \in ContextType /\ Sound(context)
  BY <1>1, TopFacts, TopSound DEF CompileLetRec, Enter
<1>3. top.expr.let_id \in Symbol
  BY <1>2, Subexpressions
<1>4. d \in ContextType /\ Ready(d, Left(calls, top.context))
  BY <1>1, <1>2, TopReady, GetFreeIntRegisterType, RegisterReady
<1> HIDE DEF d, r
<1>5. Ready(c, Left(calls, top.context))
  BY <1>2, <1>3, <1>4, PushReady
<1> HIDE DEF c
<1>6. Plain
  BY <1>1, Descending, PlainDescent DEF Conditional
<1> QED
  BY <1>1, <1>5, <1>6, CodePlain

\* An operator that is not rejected.
LEMMA OperatorCodeKept ==
  ASSUME CompilerInv, Reserved, CodeReady, CompileOperator, errors' = errors
  PROVE  CodeReady'
<1> DEFINE out == context.integer_registers
           d == GetFreeIntRegister(context)
           n == d.max_registers
           code == OperatorCode(top.expr)
           ins == code \o <<top.reg, ret, out>>
           c == WriteCode(d, ins)
           H == Left(calls, top.context)
<1>1. /\ Running /\ calls # <<>> /\ top.at = "second" /\ SetContext(c) /\ Returns
      /\ functions' = functions /\ code # <<>>
  BY DEF CompileOperator, At, Running, Return, Returns, CompilerInv
<1>2. /\ context \in ContextType /\ Sound(context) /\ Ready(context, H)
      /\ top.expr \in Expression /\ top.expr.type \in {"APPLY", "BINARY"}
      /\ top.reg \in Bytes /\ ret \in Bytes /\ out \in Bytes
      /\ top.reg < context.max_registers /\ ret < context.max_registers
  BY <1>1, TopFacts, TopSound, TopReady
     DEF HoldsRegister, AwaitsResult, ExpressionType, Placed
<1>3. /\ n \in Nat /\ out < n /\ top.reg < n /\ ret < n
  <2>1. /\ d \in ContextType /\ out < n /\ context.max_registers <= n
    BY <1>2, GetFreeIntRegisterSound DEF Follows
  <2> HIDE DEF d
  <2> QED
    BY <1>2, <2>1, Fits, ContextFields
<1> HIDE DEF out, n, H
<1>4. IsInstruction(ins, n) /\ ~ IsJump(ins[1])
  BY <1>1, <1>2, <1>3, OperatorWrites
<1> HIDE DEF ins, code
<1>5. Ready(c, H)
  BY <1>2, <1>4, RegisterWritten DEF n
<1> HIDE DEF c
<1>6. Plain
  BY <1>1, PlainReturn DEF Conditional
<1> QED
  BY <1>1, <1>5, <1>6, CodePlain DEF H

LEMMA NegationCodeKept ==
  ASSUME CompilerInv, Reserved, CodeReady, CompileUnaryOperator, errors' = errors
  PROVE  CodeReady'
<1> DEFINE out == context.integer_registers
           d == GetFreeIntRegister(context)
           n == d.max_registers
           ins == <<OP.NEG>> \o <<ret, out>>
           c == WriteCode(d, ins)
           H == Left(calls, top.context)
<1>1. /\ Running /\ calls # <<>> /\ top.at = "operand" /\ Returns
      /\ functions' = functions /\ UnaryCode(top.expr) # <<>>
      /\ SetContext(WriteCode(d, UnaryCode(top.expr) \o <<ret, out>>))
  BY DEF CompileUnaryOperator, At, Running, Return, Returns, CompilerInv
<1>2. UnaryCode(top.expr) = <<OP.NEG>>
  BY <1>1 DEF UnaryCode
<1>3. SetContext(c)
  BY <1>1, <1>2
<1>4. /\ context \in ContextType /\ Sound(context) /\ Ready(context, H)
      /\ ret \in Bytes /\ out \in Bytes /\ ret < context.max_registers
  BY <1>1, TopFacts, TopSound, TopReady DEF AwaitsResult, ExpressionType
<1>5. /\ n \in Nat /\ out < n /\ ret < n
  <2>1. /\ d \in ContextType /\ out < n /\ context.max_registers <= n
    BY <1>4, GetFreeIntRegisterSound DEF Follows
  <2> HIDE DEF d
  <2> QED
    BY <1>4, <2>1, ContextFields, BytesWithin
<1> HIDE DEF out, n, H
<1>6. IsInstruction(ins, n) /\ ~ IsJump(ins[1])
  BY <1>4, <1>5, NegationWrites
<1> HIDE DEF ins
<1>7. Ready(c, H)
  BY <1>4, <1>6, RegisterWritten DEF n
<1> HIDE DEF c
<1>8. Plain
  BY <1>1, PlainReturn DEF Conditional
<1> QED
  BY <1>1, <1>3, <1>7, <1>8, CodePlain DEF H

LEMMA TupleCode ==
  ASSUME CompilerInv, Reserved, CodeReady, CompileTuple
  PROVE  CodeReady'
<1> DEFINE len == context.integer_registers
           loaded == WriteLoadLiteral(context, top.expr.tuple_length)
           out == loaded.integer_registers
           d == GetFreeIntRegister(loaded)
           n == d.max_registers
           ins == <<OP.NEW_TUPLE, len, out>>
           c == WriteCode(d, ins)
           H == Left(calls, top.context)
<1>1. /\ calls # <<>> /\ top.at = "enter" /\ SetContext(c) /\ functions' = functions
      /\ top.expr.type = "TUPLE"
  BY DEF CompileTuple, Enter, At
<1>2. /\ context \in ContextType /\ Sound(context) /\ Ready(context, H)
      /\ top.expr.tuple_length \in Nat /\ len \in Bytes
  BY <1>1, TopFacts, TopSound, TopReady, Subexpressions
<1>3. /\ loaded \in ContextType /\ Sound(loaded) /\ Ready(loaded, H)
      /\ len < loaded.max_registers
  BY <1>2, WriteLoadLiteralSound, LoadReady DEF Follows
<1> HIDE DEF loaded, len, H
<1>4. out \in Bytes /\ n \in Nat /\ len < n /\ out < n
  <2>1. /\ d \in ContextType /\ out < n /\ loaded.max_registers <= n /\ out \in Bytes
    BY <1>3, GetFreeIntRegisterSound DEF Follows, ContextType
  <2> HIDE DEF d, out
  <2> QED
    BY <1>2, <1>3, <2>1, ContextFields, BytesWithin
<1> HIDE DEF out, n
<1>5. IsInstruction(ins, n) /\ ~ IsJump(ins[1])
  BY <1>2, <1>4, PairWrites
<1> HIDE DEF ins
<1>6. Ready(c, H)
  BY <1>3, <1>5, RegisterWritten DEF n
<1> HIDE DEF c
<1>7. Plain
  BY <1>1, Descending, PlainDescent DEF Conditional
<1> QED
  BY <1>1, <1>6, <1>7, CodePlain DEF H

LEMMA MemberCode ==
  ASSUME CompilerInv, Reserved, CodeReady, NextMember \/ EndTuple
  PROVE  CodeReady'
<1> DEFINE i == top.i
           n == context.max_registers
           ins == <<OP.STOREA_64, top.reg>> \o U16(i) \o <<ret>>
           H == Left(calls, top.context)
<1>1. /\ Running /\ calls # <<>> /\ top.at = "member" /\ functions' = functions
      /\ SetContext(StoreMember)
  BY DEF NextMember, EndTuple, At, Running
<1>2. /\ context \in ContextType /\ n \in Nat /\ Ready(context, H)
      /\ top.reg \in Bytes /\ ret \in Bytes /\ i \in Int
      /\ top.reg < n /\ ret < n
  BY <1>1, TopFacts, TopSound, TopReady, ContextFields
     DEF HoldsRegister, AwaitsResult, ExpressionType, ActivationType
<1> HIDE DEF n, i, H
<1>3. IsInstruction(ins, n) /\ ~ IsJump(ins[1])
  BY <1>2, SlotWrites
<1>4. StoreMember = WriteCode(context, ins)
  BY DEF StoreMember, i
<1> HIDE DEF ins
<1>5. Ready(StoreMember, H)
  BY <1>2, <1>3, <1>4, InstructionWritten DEF n
<1>6. Plain
  <2>1. EndTuple => Returns
    BY DEF EndTuple, Return, Returns
  <2>2. NextMember => Descent
    BY Descending
  <2> QED
    BY <1>1, <2>1, <2>2, PlainReturn, PlainDescent DEF Conditional
<1> QED
  BY <1>1, <1>5, <1>6, CodePlain DEF H

-----------------------------------------------------------------------------
(***************************************************************************)
(* Conditionals: the jumps and their distances.                            *)
(***************************************************************************)
\* A jump is written, its distance is not.
LEMMA JumpWritten ==
  ASSUME NEW c \in ContextType, NEW H, Ready(c, H), NEW ins,
         IsInstruction(ins, c.max_registers), IsJump(ins[1])
  PROVE  /\ WriteCode(c, ins) \in ContextType
         /\ Ready(WriteCode(c, ins), H \union {Len(c.code) + Len(ins) - 2})
<1> DEFINE d == WriteCode(c, ins)
           code == c.code
<1>1. c.max_registers <= c.max_registers
  BY ContextFields
<1>2. Wrote(c, d, ins)
  BY <1>1, WriteCodeWrote
<1>3. d \in ContextType /\ d.code = code \o ins
  BY <1>2 DEF Wrote
<1>4. Ready(d, H \union {Len(d.code) - 2})
  BY <1>2, ReadyWrites
<1> HIDE DEF d
<1>5. Len(d.code) = Len(code) + Len(ins)
  <2>1. code \in Seq(Bytes) /\ ins \in Seq(Bytes)
    BY DEF ContextType, IsInstruction
  <2> HIDE DEF code
  <2> QED
    BY <1>3, <2>1, ConcatProperties
<1> HIDE DEF code
<1>6. Ready(d, H \union {Len(code) + Len(ins) - 2})
  BY <1>4, <1>5
<1> QED
  BY <1>3, <1>6 DEF d, code

\* A branch is compiled while the jump over it waits for its distance.
LEMMA BranchCalled ==
  ASSUME CompilerInv, Running, NEW a, GoesOn(a), a.at \in Conditional,
         a.self_id = top.self_id, NEW e \in Expression, CallFrom(a, e)
  PROVE  /\ Layered(calls')
         /\ Left(calls', top.context) = Left(Front(calls), top.context) \union {a.loc}
<1>1. PICK b \in Placed : /\ b.context = top.context /\ b.self_id = INVALID_SYMBOL
                          /\ b.at = "enter" /\ b.expr = e /\ b.i = 0
                          /\ calls' = Append(Append(Front(calls), a), b)
  BY DescentByLabel
<1>2. a \in Placed /\ a.context = top.context /\ calls # <<>> /\ b.at \notin Conditional
  BY <1>1 DEF GoesOn, Running, Conditional
<1>3. Unpatched(a, top.context) = {a.loc}
  BY <1>2 DEF Unpatched, Conditional
<1>4. /\ Layered(calls')
      /\ \A d : Left(calls', d) = Left(Front(calls), d) \union Unpatched(a, d)
  BY <1>1, <1>2, LeftPush
<1> QED
  BY <1>3, <1>4

LEMMA ThenCode ==
  ASSUME CompilerInv, Reserved, CodeReady, CompileThen
  PROVE  CodeReady'
<1> DEFINE h == top.context
           B == Left(Front(calls), h)
           ins == <<OP.JZ, ret>> \o Hole
           n == Len(context.code) + 2
           a == [top EXCEPT !.at = "if_then", !.loc = n]
           c == WriteCode(context, ins)
<1>1. /\ Running /\ calls # <<>> /\ top.at = "if_test" /\ SetContext(c)
      /\ CallFrom(a, top.expr.if_then) /\ functions' = functions
  BY DEF CompileThen, At, Running
<1>2. /\ context \in ContextType /\ top \in Placed /\ top \in ActivationType
      /\ top.expr \in Expression /\ top.expr.type = "IF" /\ ret \in Bytes
      /\ ret < context.max_registers
      /\ Ready(context, Left(calls, h))
  BY <1>1, TopFacts, TopSound, TopReady DEF AwaitsResult, Placed, ExpressionType
<1>3. Left(calls, h) = B
  BY <1>1, TopLeft DEF Unpatched
<1>4. /\ top.expr.if_then \in Expression
      /\ "if_then" \in DOMAIN ExpressionType /\ top.expr.type \in ExpressionType["if_then"]
  BY <1>2, Subexpressions DEF ExpressionType
<1>5. n \in Nat
  BY <1>1, TopFacts, LenProperties
<1>6. context.max_registers \in Nat
  BY <1>2, ContextFields
<1>7. IsInstruction(ins, context.max_registers) /\ IsJump(ins[1]) /\ Len(ins) = 4
  BY <1>2, <1>6, JumpWrites
<1> HIDE DEF ins
<1>8. Len(context.code) + Len(ins) - 2 = n
  BY <1>5, <1>7
<1> HIDE DEF n
<1>9. GoesOn(a) /\ a.at = "if_then" /\ a.self_id = top.self_id /\ a.loc = n
  BY <1>1, <1>2, <1>4, <1>5, GoesOnLabel, SelfStays DEF ActivationType
<1> HIDE DEF a, B, h
<1>10. Ready(context, B)
  BY <1>2, <1>3
<1>11. Ready(c, B \union {n})
  <2>1. Ready(c, B \union {Len(context.code) + Len(ins) - 2})
    BY <1>2, <1>7, <1>10, JumpWritten
  <2> QED
    BY <1>8, <2>1
<1>12. Layered(calls') /\ Left(calls', h) = B \union {n}
  <2>1. a.at \in Conditional
    BY <1>9 DEF Conditional
  <2> QED
    BY <1>1, <1>4, <1>9, <2>1, BranchCalled DEF B, h
<1> HIDE DEF c
<1>13. Updated(c) /\ Ready(c, Left(calls', h))
  BY <1>1, <1>11, <1>12, ContextUpdated
<1> QED
  BY <1>1, <1>12, <1>13, CodeUpdated DEF h

LEMMA ElseCode ==
  ASSUME CompilerInv, Reserved, CodeReady, CompileElse
  PROVE  CodeReady'
<1> DEFINE h == top.context
           B == Left(Front(calls), h)
           ins == <<OP.JMP>> \o Hole
           n == Len(context.code) + 1
           a == [top EXCEPT !.at = "if_else", !.reg = ret, !.loc = n]
           k == WriteCode(context, ins)
           c == PatchJump(k, top.loc)
<1>1. /\ Running /\ calls # <<>> /\ top.at = "if_then" /\ SetContext(c)
      /\ CallFrom(a, top.expr.if_else) /\ functions' = functions
  BY DEF CompileElse, At, Running
<1>2. /\ context \in ContextType /\ top \in Placed /\ top \in ActivationType
      /\ top.expr \in Expression /\ top.expr.type = "IF" /\ ret \in Bytes
      /\ ret < context.max_registers
      /\ Ready(context, Left(calls, h))
  BY <1>1, TopFacts, TopSound, TopReady DEF AwaitsResult, Placed, ExpressionType
<1>3. Left(calls, h) = B \union {top.loc}
  BY <1>1, TopLeft DEF Unpatched
<1>4. /\ top.expr.if_else \in Expression
      /\ "if_else" \in DOMAIN ExpressionType /\ top.expr.type \in ExpressionType["if_else"]
  BY <1>2, Subexpressions DEF ExpressionType
<1>5. n \in Nat
  BY <1>1, TopFacts, LenProperties
<1>6. context.max_registers \in Nat
  BY <1>2, ContextFields
<1>7. IsInstruction(ins, context.max_registers) /\ IsJump(ins[1]) /\ Len(ins) = 3
  BY <1>2, <1>6, JumpWrites
<1> HIDE DEF ins
<1>8. Len(context.code) + Len(ins) - 2 = n
  BY <1>5, <1>7
<1> HIDE DEF n
<1>9. GoesOn(a) /\ a.at = "if_else" /\ a.self_id = top.self_id /\ a.loc = n
  BY <1>1, <1>2, <1>4, <1>5, GoesOnLabel, SelfStays DEF ActivationType
<1> HIDE DEF a, B, h
<1> DEFINE L == B \union {top.loc}
<1>10. Ready(context, L)
  BY <1>2, <1>3
<1>11. k \in ContextType /\ Ready(k, L \union {n})
  <2> HIDE DEF L
  <2>1. Ready(k, L \union {Len(context.code) + Len(ins) - 2}) /\ k \in ContextType
    BY <1>2, <1>7, <1>10, JumpWritten
  <2> QED
    BY <1>8, <2>1
<1> HIDE DEF k
<1>12. Ready(c, B \union {n})
  <2>1. /\ top.loc \in L \union {n} /\ B \union {n} \in SUBSET (L \union {n})
        /\ L \union {n} \subseteq (B \union {n}) \union {top.loc}
    OBVIOUS
  <2> HIDE DEF L
  <2> QED
    BY <1>11, <2>1, PatchReady
<1>13. Layered(calls') /\ Left(calls', h) = B \union {n}
  <2>1. a.at \in Conditional
    BY <1>9 DEF Conditional
  <2> QED
    BY <1>1, <1>4, <1>9, <2>1, BranchCalled DEF B, h
<1> HIDE DEF c
<1>14. Updated(c) /\ Ready(c, Left(calls', h))
  BY <1>1, <1>12, <1>13, ContextUpdated
<1> QED
  BY <1>1, <1>13, <1>14, CodeUpdated DEF h

LEMMA EndIfCode ==
  ASSUME CompilerInv, Reserved, CodeReady, EndIf
  PROVE  CodeReady'
<1> DEFINE h == top.context
           B == Left(Front(calls), h)
           move == IF ret # top.reg THEN <<OP.MOV, ret, top.reg>> ELSE <<>>
           k == WriteCode(context, move)
           c == PatchJump(k, top.loc)
<1>1. /\ Running /\ calls # <<>> /\ top.at = "if_else" /\ SetContext(c)
      /\ calls' = Front(calls) /\ functions' = functions
  BY DEF EndIf, At, Running, Return
<1>2. /\ context \in ContextType /\ top.reg \in Bytes /\ ret \in Bytes
      /\ ret < context.max_registers /\ top.reg < context.max_registers
      /\ Ready(context, Left(calls, h))
  BY <1>1, TopFacts, TopSound, TopReady DEF AwaitsResult, HoldsRegister, ExpressionType
<1>3. Left(calls, h) = B \union {top.loc}
  BY <1>1, TopLeft DEF Unpatched
<1>4. context.max_registers \in Nat
  BY <1>2, ContextFields
<1> HIDE DEF B, h
<1> DEFINE L == B \union {top.loc}
<1>5. k \in ContextType /\ Ready(k, L)
  <2>1. CASE ret # top.reg
    <3> DEFINE ins == <<OP.MOV, ret, top.reg>>
    <3>1. IsInstruction(ins, context.max_registers) /\ ~ IsJump(ins[1]) /\ move = ins
      BY <1>2, <1>4, <2>1, PairWrites
    <3>2. ins \in Seq(Bytes)
      BY <3>1 DEF IsInstruction
    <3> HIDE DEF ins, move, L
    <3>3. Ready(context, L)
      BY <1>2, <1>3 DEF L
    <3> QED
      BY <1>2, <3>1, <3>2, <3>3, InstructionWritten, WriteCodeType
  <2>2. CASE ret = top.reg
    <3>1. move = <<>> /\ <<>> \in Seq(Bytes)
      BY <2>2, EmptySeq
    <3>2. k \in ContextType
      BY <1>2, <3>1, WriteCodeType
    <3>3. k.code = context.code \o <<>> /\ k.max_registers = context.max_registers
      BY <1>2, <3>1 DEF WriteCode, ContextType
    <3>4. context.code \o <<>> = context.code
      BY <1>2 DEF ContextType
    <3> HIDE DEF k, move, L
    <3> QED
      BY <1>2, <1>3, <3>2, <3>3, <3>4 DEF Ready, L
  <2> QED
    BY <2>1, <2>2
<1> HIDE DEF k
<1>6. Ready(c, B)
  <2>1. top.loc \in L /\ B \in SUBSET L /\ L \subseteq B \union {top.loc}
    OBVIOUS
  <2> HIDE DEF L
  <2> QED
    BY <1>5, <2>1, PatchReady
<1> HIDE DEF c
<1>7. Layered(calls') /\ Left(calls', h) = B
  BY <1>1 DEF Layered, B
<1>8. Updated(c) /\ Ready(c, Left(calls', h))
  BY <1>1, <1>6, <1>7, ContextUpdated
<1> QED
  BY <1>1, <1>7, <1>8, CodeUpdated DEF h

-----------------------------------------------------------------------------
(***************************************************************************)
(* Functions: their contexts come without code, and go when it is whole.   *)
(***************************************************************************)
\* No distance is left in a context above that of the running activation.
LEMMA NothingLeftAbove ==
  ASSUME CompilerInv, calls # <<>>, NEW h, h = top.context
  PROVE  Left(Front(calls), h + 1) = {}
<1> DEFINE base == Front(calls)
           m == h + 1
<1>1. /\ base \in Seq(Placed) /\ h \in Nat
      /\ \A i \in 1 .. Len(base) : InnerContext(base[i]) \in Nat /\ InnerContext(base[i]) <= h
  BY Base, TopFacts DEF Placed, ActivationType
<1>2. m \in Nat /\ h < m
  BY <1>1
<1> HIDE DEF base
<1>3. ASSUME NEW i \in 1 .. Len(base)
      PROVE  base[i] \in Placed /\ Unpatched(base[i], m) = {}
  <2>1. base[i] \in Placed
    BY <1>1, ElementOfSeq
  <2>2. base[i].context \in Nat /\ base[i].context <= InnerContext(base[i])
    BY <2>1 DEF Placed, ActivationType, InnerContext
  <2>3. InnerContext(base[i]) \in Nat /\ InnerContext(base[i]) <= h
    BY <1>1
  <2>4. base[i].context # m
    BY <1>1, <1>2, <2>2, <2>3
  <2> QED
    BY <2>1, <2>4 DEF Unpatched
<1> HIDE DEF m
<1>4. \A i \in 1 .. Len(base) : unpatched(m)[base[i]] = {}
  BY <1>3 DEF unpatched
<1>5. Left(base, m) = {}
  BY <1>4 DEF Left, Gathered
<1> QED
  BY <1>5 DEF base, m

LEMMA BlankReady ==
  ASSUME NEW c, c.code = <<>>
  PROVE  Ready(c, {})
<1> DEFINE code == c.code
<1>1. Len(code) = 0
  BY EmptySeq
<1>2. {0} \ {Len(code)} = {} /\ 0 .. Len(code) = {0}
  BY <1>1
<1> HIDE DEF code
<1>3. Decodes(code, {0})
  BY <1>1, <1>2 DEF Decodes
<1>4. Fine(code, {0}, c.max_registers, {})
  BY <1>2, <1>3 DEF Fine, Registered, Holes, Jumps
<1> QED
  BY <1>4 DEF Ready, code

LEMMA EnterCode ==
  ASSUME CompilerInv, CodeReady, EnterLambda
  PROVE  CodeReady'
<1> DEFINE n == top.context
<1>1. calls # <<>> /\ top.at = "lambda" /\ functions' = Append(functions, Blank)
  BY DEF EnterLambda, At, AddFunction
<1>2. PICK new : Opens(n, new)
  BY LambdaOpens
<1>3. PICK a, b \in Placed :
        /\ Continues(a, top) /\ a.at = "body" /\ b.at = "enter"
        /\ calls' = Append(Append(Front(calls), a), b)
  BY EnterShape
<1>4. n \in Nat
  BY <1>1, TopFacts DEF ActivationType
<1>5. a.context = n /\ a.at \notin Conditional /\ b.at \notin Conditional
  BY <1>3 DEF Continues, Conditional
<1>6. \A d : Left(calls', d) = Left(Front(calls), d) \union Unpatched(a, d)
  BY <1>1, <1>3, <1>5, LeftPush
<1>7. \A d : Unpatched(a, d) = {} /\ Unpatched(top, d) = {}
  BY <1>1, <1>5 DEF Unpatched, Conditional
<1>8. \A d : Left(calls', d) = Left(Front(calls), d) /\ Left(calls, d) = Left(Front(calls), d)
  BY <1>1, <1>6, <1>7, TopLeft
<1>9. Left(Front(calls), n + 1) = {}
  BY <1>1, NothingLeftAbove
<1> HIDE DEF n
<1>10. ASSUME NEW d \in 1 .. Len(contexts') PROVE Ready(contexts'[d], Left(calls', d))
  <2>1. /\ Len(contexts) = n /\ Len(contexts') = n + 1 /\ contexts'[n + 1] = new
        /\ \A x \in 1 .. n : contexts'[x] = contexts[x]
        /\ new.code = <<>>
    BY <1>2 DEF Opens
  <2>2. CASE d = n + 1
    BY <1>8, <1>9, <2>1, <2>2, BlankReady
  <2>3. CASE d # n + 1
    <3>1. d \in 1 .. n
      BY <1>4, <2>1, <2>3
    <3>2. contexts'[d] = contexts[d] /\ Ready(contexts[d], Left(calls, d))
      BY <2>1, <3>1 DEF CodeReady
    <3> QED
      BY <1>8, <3>2
  <2> QED
    BY <2>2, <2>3
<1>11. ASSUME NEW id \in DOMAIN functions' PROVE FunctionReady(functions'[id])
  <2> DEFINE m == Len(functions)
  <2>1. functions \in Seq(FunctionType) /\ m \in Nat /\ DOMAIN functions = 1 .. m
    BY LenProperties DEF CompilerInv
  <2>2. /\ functions' \in Seq(FunctionType) /\ Len(functions') = m + 1
        /\ \A k \in 1 .. m : functions'[k] = functions[k]
        /\ functions'[m + 1] = Blank
    BY <1>1, <2>1, BlankType, AppendProperties
  <2>3. DOMAIN functions' = 1 .. m + 1
    BY <2>2, LenProperties
  <2> HIDE DEF m
  <2>4. CASE id = m + 1
    BY <2>2, <2>4 DEF FunctionReady
  <2>5. CASE id # m + 1
    <3>1. id \in 1 .. m
      BY <2>1, <2>3, <2>5
    <3> QED
      BY <2>1, <2>2, <3>1 DEF CodeReady
  <2> QED
    BY <2>4, <2>5
<1> QED
  BY <1>10, <1>11 DEF CodeReady

\* A finished function, wherever it is written.
LEMMA ResultReady ==
  ASSUME CompilerInv, CodeReady, NEW f, FunctionReady(f), WriteResult(f)
  PROVE  \A id \in DOMAIN functions' : FunctionReady(functions'[id])
<1> DEFINE m == Len(functions)
<1>1. functions \in [1 .. m -> FunctionType]
  BY LenProperties DEF CompilerInv
<1> HIDE DEF m
<1> QED
  BY <1>1 DEF CodeReady, WriteResult

LEMMA FinishedReady ==
  ASSUME NEW c \in ContextType, Ready(c, {}), NEW r, r < c.max_registers, NEW id
  PROVE  FunctionReady(FinishCompile(c, r, id))
BY FinishWellFormed DEF FunctionReady

LEMMA ClosureReady ==
  ASSUME CompilerInv, Reserved, calls # <<>>, top.at = "body",
         NEW H, Ready(context, H)
  PROVE  Ready(ClosureMade, H)
<1> DEFINE r == context.integer_registers
           k == WriteLoadLiteral(context, top.func_id)
           n == k.max_registers
           ins == <<OP.NEW_CLOSURE, r, top.reg>>
           c == WriteCode(k, ins)
<1>1. /\ context \in ContextType /\ Sound(context) /\ top.reg \in Bytes /\ r \in Bytes
      /\ top.reg < context.max_registers /\ top.func_id \in Nat
  BY TopFacts, TopSound DEF HoldsRegister, ActivationType
<1>2. Follows(context, k) /\ r < n /\ Ready(k, H)
  BY <1>1, WriteLoadLiteralSound, LoadReady
<1> HIDE DEF k, r
<1>3. k \in ContextType /\ n \in Nat /\ top.reg < n
  BY <1>1, <1>2, Fits, ContextFields DEF Follows
<1> HIDE DEF n
<1>4. IsInstruction(ins, n) /\ ~ IsJump(ins[1])
  BY <1>1, <1>2, <1>3, PairWrites
<1> HIDE DEF ins
<1>5. Ready(c, H)
  BY <1>2, <1>3, <1>4, InstructionWritten DEF n
<1> QED
  BY <1>5 DEF ClosureMade, c, k, r, ins

LEMMA FinishCode ==
  ASSUME CompilerInv, Reserved, CodeReady, FinishLambda
  PROVE  CodeReady'
<1> DEFINE h == top.context
           child == contexts[h + 1]
<1>1. calls # <<>> /\ top.at = "body"
  BY DEF FinishLambda, At
<1>2. Closing(h)
  BY LambdaCloses
<1>3. PICK a : /\ Continues(a, top) /\ a.at = "closed" /\ calls' = Append(Front(calls), a)
  BY FinishShape
<1>4. a \in Placed /\ \A d : Unpatched(a, d) = {} /\ Unpatched(top, d) = {}
  BY <1>1, <1>3 DEF Continues, Unpatched
<1>5. \A d : Left(calls', d) = Left(Front(calls), d) /\ Left(calls, d) = Left(Front(calls), d)
  <2>1. Front(calls) \in Seq(Placed)
    BY <1>1, TopLeft
  <2>2. \A d : Left(Append(Front(calls), a), d) = Left(Front(calls), d) \union Unpatched(a, d)
    BY <1>4, <2>1, LeftAppend
  <2> QED
    BY <1>1, <1>3, <1>4, <2>2, TopLeft
<1>6. Left(calls, h + 1) = {}
  BY <1>1, <1>5, NothingLeftAbove
<1>7. /\ Len(contexts) = h + 1 /\ Len(contexts') = h /\ h \in Nat \ {0}
      /\ \A d \in 1 .. h : contexts'[d] = IF d = h THEN ClosureMade ELSE contexts[d]
  BY <1>2 DEF Closing
<1>8. h + 1 \in 1 .. Len(contexts)
  BY <1>7
<1>9. child \in ContextType /\ Ready(child, {})
  <2>1. contexts \in Seq(ContextType)
    BY DEF CompilerInv
  <2>2. child \in ContextType
    BY <1>8, <2>1, ElementOfSeq
  <2>3. Ready(child, Left(calls, h + 1))
    BY <1>8 DEF CodeReady
  <2> HIDE DEF child
  <2> QED
    BY <1>6, <2>2, <2>3
<1>10. ret < child.max_registers
  <2>1. top.at \in AwaitsResult /\ InnerContext(top) = h + 1
    BY <1>1 DEF AwaitsResult, ExpressionType, InnerContext
  <2> QED
    BY <1>1, <2>1 DEF Reserved
<1>11. WriteResult(FinishCompile(child, ret, top.func_id))
  <2>1. Last(contexts) = child
    BY <1>7 DEF Last
  <2> QED
    BY <2>1 DEF FinishLambda
<1>12. \A id \in DOMAIN functions' : FunctionReady(functions'[id])
  <2> DEFINE f == FinishCompile(child, ret, top.func_id)
  <2>1. FunctionReady(f)
    BY <1>9, <1>10, FinishedReady
  <2>2. WriteResult(f)
    BY <1>11
  <2> HIDE DEF f, child
  <2> QED
    BY <2>1, <2>2, ResultReady
<1> HIDE DEF child
<1>13. ASSUME NEW d \in 1 .. Len(contexts') PROVE Ready(contexts'[d], Left(calls', d))
  <2>1. d \in 1 .. h /\ d \in 1 .. Len(contexts)
    BY <1>7
  <2>2. Ready(contexts[d], Left(calls, d)) /\ Left(calls', d) = Left(calls, d)
    BY <1>5, <2>1 DEF CodeReady
  <2>3. CASE d = h
    <3>1. Ready(context, Left(calls, d))
      BY <2>2, <2>3 DEF context
    <3>2. Ready(ClosureMade, Left(calls, d))
      BY <1>1, <3>1, ClosureReady
    <3> QED
      BY <1>7, <2>1, <2>2, <2>3, <3>2
  <2>4. CASE d # h
    BY <1>7, <2>1, <2>2, <2>4
  <2> QED
    BY <2>3, <2>4
<1> QED
  BY <1>12, <1>13 DEF CodeReady

LEMMA FinishModuleCode ==
  ASSUME CompilerInv, Reserved, CodeReady, FinishModule
  PROVE  CodeReady'
<1>1. /\ calls # <<>> /\ top.at = "module" /\ contexts' = <<>>
      /\ WriteResult(FinishCompile(context, ret, top.func_id))
  BY DEF FinishModule, At
<1>2. Front(calls) = <<>>
  BY <1>1, StackFront DEF CompilerInv, top
<1>3. Left(calls, top.context) = {}
  <2>1. Left(<<>>, top.context) = {}
    BY GatheredNone DEF Left
  <2>2. Unpatched(top, top.context) = {}
    BY <1>1 DEF Unpatched
  <2> QED
    BY <1>1, <1>2, <2>1, <2>2, TopLeft
<1>4. context \in ContextType /\ Ready(context, {}) /\ ret < context.max_registers
  <2>1. top.at \in AwaitsResult /\ InnerContext(top) = top.context
    BY <1>1 DEF AwaitsResult, InnerContext
  <2>2. ret < context.max_registers
    BY <1>1, <2>1 DEF Reserved, context
  <2> QED
    BY <1>1, <1>3, <2>2, TopReady, TopFacts
<1> DEFINE f == FinishCompile(context, ret, top.func_id)
<1>5. FunctionReady(f) /\ WriteResult(f)
  BY <1>1, <1>4, FinishedReady
<1> HIDE DEF f
<1>6. \A id \in DOMAIN functions' : FunctionReady(functions'[id])
  BY <1>5, ResultReady
<1>7. 1 .. Len(contexts') = {}
  BY <1>1, EmptySeq
<1> QED
  BY <1>6, <1>7 DEF CodeReady

-----------------------------------------------------------------------------
(***************************************************************************)
(* The invariant holds at the start, and every step keeps it.              *)
(***************************************************************************)
LEMMA CodeFirst == Init => CodeInv
<1> SUFFICES ASSUME Init PROVE CodeReady
  BY DEF CodeInv
<1>1. PICK main, enter : Starting(main, enter)
  BY Starts
<1>2. \A d : Left(calls, d) = {}
  <2> TAKE d
  <2> DEFINE one == Append(<<>>, main)
  <2>1. /\ main \in Placed /\ enter \in Placed /\ <<>> \in Seq(Placed) /\ one \in Seq(Placed)
        /\ main.at = "module" /\ enter.at = "enter" /\ calls = Append(one, enter)
    BY <1>1 DEF Starting
  <2>2. Left(<<>>, d) = {} /\ Unpatched(main, d) = {} /\ Unpatched(enter, d) = {}
    BY <2>1, GatheredNone DEF Left, Unpatched
  <2>3. Left(one, d) = Left(<<>>, d) \union Unpatched(main, d)
    BY <2>1, LeftAppend
  <2> HIDE DEF one
  <2>4. Left(Append(one, enter), d) = Left(one, d) \union Unpatched(enter, d)
    BY <2>1, LeftAppend
  <2> QED
    BY <2>1, <2>2, <2>3, <2>4
<1>3. ASSUME NEW d \in 1 .. Len(contexts) PROVE Ready(contexts[d], Left(calls, d))
  <2>1. d = 1 /\ contexts[1] = InitCompileContext(<<>>)
    BY DEF Init
  <2>2. contexts[1].code = <<>>
    BY <2>1 DEF InitCompileContext
  <2> QED
    BY <1>2, <2>1, <2>2, BlankReady
<1>4. \A id \in DOMAIN functions : functions[id] = Blank
  BY DEF Init
<1>5. \A id \in DOMAIN functions : FunctionReady(functions[id])
  BY <1>4 DEF FunctionReady
<1> QED
  BY <1>3, <1>5 DEF CodeReady

\* An error that is reported is never taken back.
LEMMA ErrorsOnlyGrow ==
  ASSUME CompilerInv, [CompileNext]_vars
  PROVE  errors' = 0 => errors' = errors
<1>1. errors \in Nat
  BY DEF CompilerInv
<1>2. errors' \in {errors, errors + 1}
  BY DEF CompileNext, vars, CompileLiteral, CompileIdentifier, CompileLambda, EnterLambda,
         FinishLambda, CloseVariable, ReturnClosure, CompileLet, BindLet, EndLet,
         RejectLetRec, CompileLetRec, LetRecBody, CompileFirst, CompileSecond,
         CompileOperator, CompileUnary, CompileUnaryOperator, CompileIf, CompileThen,
         CompileElse, EndIf, CompileTuple, NextMember, EndTuple, FinishModule
<1> QED
  BY <1>1, <1>2

LEMMA CodeStep ==
  ASSUME CompilerInv, Reserved, CodeInv, [CompileNext]_vars
  PROVE  CodeInv'
<1> SUFFICES ASSUME errors' = 0 PROVE CodeReady'
  BY DEF CodeInv
<1>1. errors' = errors /\ CodeReady
  BY ErrorsOnlyGrow DEF CodeInv
<1>2. CASE UNCHANGED vars
  <2>1. calls' = calls /\ contexts' = contexts /\ functions' = functions
    BY <1>2 DEF vars
  <2>2. \A d : Left(calls, d)' = Left(calls, d)
    BY <2>1 DEF Left, Gathered, unpatched
  <2> QED
    BY <1>1, <2>1, <2>2 DEF CodeReady
<1>3. CASE RejectLetRec
  <2>1. errors \in Nat /\ errors' = errors + 1
    BY <1>3 DEF CompilerInv, RejectLetRec
  <2> QED
    BY <1>1, <2>1
<1>4. CASE \/ CompileLet \/ CompileFirst \/ CompileUnary \/ CompileIf \/ LetRecBody
           \/ CompileSecond \/ ReturnClosure
  BY <1>1, <1>4, QuietCode
<1>5. CASE CompileOperator \/ CompileUnaryOperator
  BY <1>1, <1>5, OperatorCodeKept, NegationCodeKept
<1>6. CASE NextMember \/ EndTuple
  BY <1>1, <1>6, MemberCode
<1> QED
  BY <1>1, <1>2, <1>3, <1>4, <1>5, <1>6, LiteralCode, IdentifierCode, LambdaCode,
     EnterCode, FinishCode, CloseVariableCode, BindLetCode, EndLetCode, LetRecCode,
     ThenCode, ElseCode, EndIfCode, TupleCode, FinishModuleCode DEF CompileNext

LEMMA CodeSuffices ==
  ASSUME CodeInv, ModuleComplete, \A id \in DOMAIN functions : Short(functions[id].code)
  PROVE  CodeWellFormed
<1> SUFFICES ASSUME Compiled, errors = 0, NEW id \in DOMAIN functions
             PROVE  WellFormedFunction(functions[id])
  BY DEF CodeWellFormed
<1>1. functions[id].code # <<>>
  BY DEF ModuleComplete, FunctionWritten
<1>2. functions[id] # Blank
  BY <1>1 DEF Blank
<1> QED
  BY <1>2 DEF CodeInv, CodeReady, FunctionReady

\* The code of a module compiled without an error can be run: every function
\* decodes from its first byte to one RET at its end, names only registers it
\* has, and jumps only forwards and to the start of an instruction, however
\* its conditionals nest: _CompileIf leaves a distance open while it compiles
\* a branch, and writes it when it knows how long that is.  The functions
\* array has not moved (or a function stays empty), no freed memory is handed
\* out again, and no function is longer than the int16_t of a distance holds:
\* the compiler checks none of the three.
THEOREM CodeAlwaysWellFormed ==
  ASSUME Recycled = FALSE
  PROVE  CompileSpec =>
           [](array = 1 /\ (\A id \in DOMAIN functions : Short(functions[id].code))
                => CodeWellFormed)
<1>1. Init => CompilerInv /\ Reserved /\ CodeInv
  BY CompilerInit, ReservedInit, CodeFirst
<1>2. CompilerInv /\ Reserved /\ CodeInv /\ [CompileNext]_vars =>
        (CompilerInv /\ Reserved /\ CodeInv)'
  BY CompilerStep, ReservedStep, CodeStep
<1>3. CodeInv /\ (array = 1 => ModuleComplete) =>
        (array = 1 /\ (\A id \in DOMAIN functions : Short(functions[id].code))
           => CodeWellFormed)
  BY CodeSuffices
<1> QED
  BY <1>1, <1>2, <1>3, EveryFunctionWritten, PTL DEF CompileSpec

=============================================================================
