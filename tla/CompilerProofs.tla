--------------------------- MODULE CompilerProofs ---------------------------
(***************************************************************************)
(* What the compiler keeps, whatever programs are compiled, however wide a *)
(* byte is and whatever malloc and realloc do.                             *)
(*                                                                         *)
(* First, its types, and its contexts nest: TypeOK and ContextsNest.  The  *)
(* inductive invariant, CompilerInv, is the two together, with what they   *)
(* say of the C stack brought into one predicate, Stack, that the lemmas   *)
(* take through a push, a return and a change of the running activation.   *)
(* Then there is one lemma for each action.                                *)
(*                                                                         *)
(* Second, every function is written in the end: ModuleComplete.           *)
(*                                                                         *)
(* Third, what its contexts keep.  Every register number the compiler uses *)
(* is one it has counted, so one that the machine allocates:               *)
(* RegistersReserved.  The live bindings of a context are the names in     *)
(* scope, and only names bound outside it are closed over: ScopesMatch.    *)
(* The stack of contexts is compared with the stack of activations, from   *)
(* the list of the names that each activation binds (Binders) up to the    *)
(* inductive invariant, ScopesInv.                                         *)
(***************************************************************************)
EXTENDS Compiler, SequenceTheorems, WellFoundedInduction, TLAPS

-----------------------------------------------------------------------------
\* A set of natural numbers has a least element.
LEMMA LeastNatural ==
  ASSUME NEW S \in SUBSET Nat, S # {}
  PROVE  \E m \in S : \A k \in S : m <= k
<1> DEFINE R == OpToRel(<, Nat)
<1>1. \E m \in S : \A k \in S : ~ (<<k, m>> \in R)
  <2>1. IsWellFoundedOn(R, Nat)
    BY NatLessThanWellFounded
  <2> HIDE DEF R
  <2> QED
    BY <2>1, WFMin
<1>2. \A k, m \in Nat : k < m => <<k, m>> \in R
  BY DEF OpToRel
<1> HIDE DEF R
<1>3. PICK m \in S : \A k \in S : ~ (<<k, m>> \in R)
  BY <1>1
<1>4. \A k \in S : ~ (k < m)
  <2> TAKE k \in S
  <2>1. k \in Nat /\ m \in Nat
    OBVIOUS
  <2> QED
    BY <1>2, <1>3, <2>1
<1> QED
  BY <1>4

\* Min of ClosureOffset: the slot it finds is a slot there is.
LEMMA MinProperty ==
  ASSUME NEW S \in SUBSET Nat, S # {}
  PROVE  Min(S) \in S
BY LeastNatural DEF Min

\* Max of IdentifierRegister: the binding it finds is a binding there is.
LEMMA MaxProperty ==
  ASSUME NEW n \in Nat, NEW S \in SUBSET (1 .. n), S # {}
  PROVE  Max(S) \in S
<1> DEFINE T == { n - k : k \in S }
<1>1. T \in SUBSET Nat /\ T # {}
  <2>1. \A k \in S : n - k \in Nat
    OBVIOUS
  <2>2. PICK k \in S : TRUE
    OBVIOUS
  <2>3. n - k \in T
    OBVIOUS
  <2> QED
    BY <2>1, <2>3
<1>2. PICK m \in T : \A k \in T : m <= k
  BY <1>1, LeastNatural
<1>3. PICK x \in S : m = n - x
  BY <1>2
<1>4. \A y \in S : x >= y
  <2> TAKE y \in S
  <2>1. n - y \in T
    OBVIOUS
  <2>2. m <= n - y
    BY <1>2, <2>1
  <2> QED
    BY <1>3, <2>2
<1> QED
  BY <1>3, <1>4 DEF Max

-----------------------------------------------------------------------------
\* _WriteCodeU16 writes two bytes.
LEMMA U16Type ==
  ASSUME NEW v \in Int
  PROVE  /\ U16(v) \in Seq(Bytes) /\ Len(U16(v)) = 2
         /\ U16(v)[1] \in Bytes /\ U16(v)[2] \in Bytes
<1>1. v \div Byte \in Int
  BY BytecodeAssumption
<1>2. v % Byte \in Bytes /\ (v \div Byte) % Byte \in Bytes
  BY <1>1, BytecodeAssumption DEF Bytes
<1> QED
  BY <1>2 DEF U16

\* The load of a literal is made of bytes, in all four widths.
LEMMA LoadImmediateType ==
  ASSUME NEW v \in Nat, NEW reg \in Bytes
  PROVE  LoadImmediate(v, reg) \in Seq(Bytes)
<1>1. \A w \in Int : w \div Byte \in Int /\ U16(w) \in Seq(Bytes)
  BY U16Type, BytecodeAssumption
<1>2. \A w \in Int : U32(w) \in Seq(Bytes)
  BY <1>1, ConcatProperties DEF U32
<1>3. \A w \in Int : U64(w) \in Seq(Bytes)
  BY <1>1, <1>2, ConcatProperties DEF U64
<1>4. \A o \in {OP.LOADI_8, OP.LOADI_16, OP.LOADI_32, OP.LOADI_64} :
        o \in Bytes
  BY BytecodeAssumption DEF OP, Bytes
<1>5. \A o \in Bytes, s \in Seq(Bytes) : << o >> \o s \o << reg >> \in Seq(Bytes)
  <2>1. \A o \in Bytes, s \in Seq(Bytes) : << o >> \o s \in Seq(Bytes)
    BY ConcatProperties
  <2> QED
    BY <2>1, ConcatProperties
<1>6. v < Byte => << OP.LOADI_8, v, reg >> \in Seq(Bytes)
  BY <1>4, BytecodeAssumption DEF Bytes
<1> DEFINE K2 == Byte * Byte
           K4 == Byte * Byte * Byte * Byte
<1>7. \/ v < Byte
      \/ v >= Byte /\ v < K2
      \/ v >= K2 /\ v < K4
      \/ ~ (v < Byte) /\ ~ (v >= Byte /\ v < K2) /\ ~ (v >= K2 /\ v < K4)
  OBVIOUS
<1> QED
  BY <1>1, <1>2, <1>3, <1>4, <1>5, <1>6, <1>7 DEF LoadImmediate

-----------------------------------------------------------------------------
\* What fits a byte: the opcodes and the registers 0 and 1 among others.
LEMMA BytesWithin ==
  /\ Bytes \subseteq Nat /\ 0 \in Bytes /\ 1 \in Bytes
  /\ \A o \in DOMAIN OP : OP[o] \in Bytes
  /\ \A n \in Int : n % Byte \in Bytes
BY BytecodeAssumption DEF Bytes, OP

\* _InitCompileContext, whatever malloc leaves in the bindings array.
LEMMA BlankContextType ==
  ASSUME NEW garbage \in Seq(Binding)
  PROVE  InitCompileContext(garbage) \in ContextType
BY BytesWithin DEF InitCompileContext, ContextType

\* The helpers keep the type of a context: a register stays a uint8_t.
LEMMA GetFreeIntRegisterType ==
  ASSUME NEW c \in ContextType
  PROVE  GetFreeIntRegister(c) \in ContextType
<1>1. c.integer_registers \in Nat /\ c.max_registers \in Nat
  BY BytesWithin DEF ContextType
<1>2. (c.integer_registers + 1) % Byte \in Bytes
  BY <1>1, BytesWithin
<1>3. \A r \in Bytes, m \in Nat :
        [c EXCEPT !.integer_registers = r, !.max_registers = m] \in ContextType
  BY DEF ContextType
<1>4. c.max_registers + 1 \in Nat
  BY <1>1
<1> QED
  BY <1>2, <1>3, <1>4, Zenon DEF GetFreeIntRegister

LEMMA WriteCodeType ==
  ASSUME NEW c \in ContextType, NEW bytes \in Seq(Bytes)
  PROVE  WriteCode(c, bytes) \in ContextType
<1>1. c.code \o bytes \in Seq(Bytes)
  BY ConcatProperties DEF ContextType
<1> QED
  BY <1>1 DEF WriteCode, ContextType

LEMMA WriteLoadLiteralType ==
  ASSUME NEW c \in ContextType, NEW value \in Nat
  PROVE  WriteLoadLiteral(c, value) \in ContextType
<1>1. c.integer_registers \in Bytes
  BY DEF ContextType
<1> QED
  BY <1>1, GetFreeIntRegisterType, WriteCodeType, LoadImmediateType
     DEF WriteLoadLiteral

\* A write to a sequence; one out of its bounds does nothing.
LEMMA ExceptType ==
  ASSUME NEW S, NEW s \in Seq(S), NEW k, NEW e \in S
  PROVE  [s EXCEPT ![k] = e] \in Seq(S)
<1>1. s \in [1 .. Len(s) -> S] /\ Len(s) \in Nat
  BY LenProperties
<1>2. [s EXCEPT ![k] = e] \in [1 .. Len(s) -> S]
  BY <1>1
<1> QED
  BY <1>1, <1>2

LEMMA PushBindingType ==
  ASSUME NEW c \in ContextType, NEW id \in Symbol, NEW r \in Bytes
  PROVE  PushBinding(c, id, r) \in ContextType
<1> DEFINE b == [symbol |-> id, reg |-> r]
           s == IF c.binding_top < Len(c.bindings)
                THEN [c.bindings EXCEPT ![c.binding_top + 1] = b]
                ELSE Append(c.bindings, b)
<1>1. b \in Binding
  BY DEF Binding
<1>2. c.bindings \in Seq(Binding) /\ c.binding_top + 1 \in Int
  BY DEF ContextType
<1>3. s \in Seq(Binding)
  BY <1>1, <1>2, AppendProperties, ExceptType
<1>4. PushBinding(c, id, r) =
        [c EXCEPT !.binding_top = c.binding_top + 1, !.bindings = s]
  BY DEF PushBinding
<1> HIDE DEF s
<1>5. \A n \in Int, t \in Seq(Binding) :
        [c EXCEPT !.binding_top = n, !.bindings = t] \in ContextType
  BY DEF ContextType
<1> QED
  BY <1>2, <1>3, <1>4, <1>5

LEMMA PopBindingType ==
  ASSUME NEW c \in ContextType
  PROVE  PopBinding(c) \in ContextType
BY DEF PopBinding, ContextType

LEMMA PatchJumpType ==
  ASSUME NEW c \in ContextType, NEW loc \in Nat
  PROVE  PatchJump(c, loc) \in ContextType
<1> DEFINE offset == U16(Len(c.code) - loc - 2)
           code == [c.code EXCEPT ![loc + 1] = offset[1],
                                  ![loc + 2] = offset[2]]
<1>1. c.code \in Seq(Bytes) /\ Len(c.code) \in Nat
  BY LenProperties DEF ContextType
<1>2. offset[1] \in Bytes /\ offset[2] \in Bytes
  BY <1>1, U16Type
<1>3. code \in Seq(Bytes)
  <2> HIDE DEF offset
  <2>1. [c.code EXCEPT ![loc + 1] = offset[1]] \in Seq(Bytes)
    BY <1>1, <1>2, ExceptType
  <2> QED
    BY <1>2, <2>1, ExceptType
<1>4. PatchJump(c, loc) = [c EXCEPT !.code = code]
  BY DEF PatchJump
<1> HIDE DEF code
<1>5. \A t \in Seq(Bytes) : [c EXCEPT !.code = t] \in ContextType
  BY DEF ContextType
<1> QED
  BY <1>3, <1>4, <1>5

LEMMA ClosureOffsetType ==
  ASSUME NEW c \in ContextType, NEW id \in Symbol
  PROVE  ClosureOffset(c, id) \in Nat
<1> DEFINE known == { k \in DOMAIN c.closure_symbols :
                        c.closure_symbols[k] = id }
<1>1. /\ Len(c.closure_symbols) \in Nat
      /\ DOMAIN c.closure_symbols = 1 .. Len(c.closure_symbols)
  BY LenProperties DEF ContextType
<1>2. known # {} => Min(known) \in 1 .. Len(c.closure_symbols)
  <2> SUFFICES ASSUME known # {}
               PROVE  Min(known) \in 1 .. Len(c.closure_symbols)
    OBVIOUS
  <2>1. known \in SUBSET Nat
    BY <1>1
  <2>2. Min(known) \in known
    BY <2>1, MinProperty
  <2> QED
    BY <1>1, <2>2
<1> QED
  BY <1>1, <1>2 DEF ClosureOffset

LEMMA LoadClosedType ==
  ASSUME NEW c \in ContextType, NEW id \in Symbol
  PROVE  LoadClosed(c, id) \in ContextType
<1> DEFINE offset == ClosureOffset(c, id)
           target == c.integer_registers
           names  == IF offset = Len(c.closure_symbols)
                     THEN Append(c.closure_symbols, id) ELSE c.closure_symbols
           closed == [c EXCEPT !.closure_symbols = names]
           bytes  == <<OP.LOADA_64, 0>> \o U16(ClosureSlot(offset)) \o <<target>>
<1>1. ClosureSlot(offset) \in Int
  BY ClosureOffsetType DEF ClosureSlot
<1>2. names \in Seq(Symbol)
  <2>1. c.closure_symbols \in Seq(Symbol)
    BY DEF ContextType
  <2> QED
    BY <2>1, AppendProperties
<1>3. bytes \in Seq(Bytes)
  <2> HIDE DEF offset
  <2>1. OP.LOADA_64 \in Bytes /\ 0 \in Bytes /\ target \in Bytes
    BY BytesWithin DEF OP, ContextType
  <2>2. <<OP.LOADA_64, 0>> \in Seq(Bytes) /\ <<target>> \in Seq(Bytes)
    BY <2>1
  <2>3. U16(ClosureSlot(offset)) \in Seq(Bytes)
    BY <1>1, U16Type
  <2>4. <<OP.LOADA_64, 0>> \o U16(ClosureSlot(offset)) \in Seq(Bytes)
    BY <2>2, <2>3, ConcatProperties
  <2> QED
    BY <2>2, <2>4, ConcatProperties
<1>4. LoadClosed(c, id) = WriteCode(GetFreeIntRegister(closed), bytes)
  BY DEF LoadClosed
<1>5. closed \in ContextType
  <2> HIDE DEF names
  <2> QED
    BY <1>2 DEF ContextType
<1> HIDE DEF closed, bytes
<1> QED
  BY <1>3, <1>4, <1>5, GetFreeIntRegisterType, WriteCodeType

LEMMA IdentifierTypes ==
  ASSUME NEW c \in ContextType, NEW id \in Symbol
  PROVE  /\ IdentifierContext(c, id) \in ContextType
         /\ IdentifierRegister(c, id) \in Bytes
<1>1. /\ Len(c.bindings) \in Nat
      /\ DOMAIN c.bindings = 1 .. Len(c.bindings)
      /\ c.bindings \in Seq(Binding)
      /\ c.integer_registers \in Bytes
  BY LenProperties DEF ContextType
<1>2. Bound(c, id) \in SUBSET (1 .. Len(c.bindings))
  BY <1>1 DEF Bound
<1>3. Bound(c, id) # {} => c.bindings[Max(Bound(c, id))].reg \in Bytes
  <2> SUFFICES ASSUME Bound(c, id) # {}
               PROVE  c.bindings[Max(Bound(c, id))].reg \in Bytes
    OBVIOUS
  <2>1. Max(Bound(c, id)) \in 1 .. Len(c.bindings)
    BY <1>1, <1>2, MaxProperty
  <2>2. c.bindings[Max(Bound(c, id))] \in Binding
    BY <1>1, <2>1, ElementOfSeq
  <2> QED
    BY <2>2 DEF Binding
<1> QED
  BY <1>1, <1>3, LoadClosedType DEF IdentifierContext, IdentifierRegister

LEMMA FinishCompileType ==
  ASSUME NEW c \in ContextType, NEW r \in Bytes, NEW id \in Nat
  PROVE  /\ FinishCompile(c, r, id) \in FunctionType
         /\ FinishCompile(c, r, id).closure \in Seq(Symbol)
<1>1. OP.RET \in Bytes
  BY BytesWithin DEF OP
<1>2. /\ c.code \in Seq(Bytes) /\ c.closure_symbols \in Seq(Symbol)
      /\ c.max_registers \in Nat
  BY DEF ContextType
<1>3. Append(c.code, OP.RET) \in Seq(Bytes)
  BY <1>1, <1>2, AppendProperties
<1> QED
  BY <1>2, <1>3 DEF FinishCompile, FunctionType

-----------------------------------------------------------------------------
\* An activation that stands where its expression allows.
Placed ==
  { a \in ActivationType : a.at \in DOMAIN ExpressionType =>
                             a.expr.type \in ExpressionType[a.at] }

\* The number of contexts a stack needs.
Depth(s) == IF s = <<>> THEN 0 ELSE InnerContext(Last(s))

\* TypeOK and ContextsNest, of a stack alone.
Stack(s) ==
  /\ s \in Seq(Placed)
  /\ \A j \in 1 .. Len(s) :
       /\ s[j].at = "module" <=> j = 1
       /\ s[j].context = IF j = 1 THEN 1 ELSE InnerContext(s[j - 1])
  /\ \A i, j \in 1 .. Len(s) : i < j => InnerContext(s[i]) <= s[j].context

\* Contexts of the activations, from the bottom of a stack to its top.
LEMMA StackEntry ==
  ASSUME NEW s, Stack(s), NEW j \in 1 .. Len(s)
  PROVE  /\ s[j] \in Placed /\ s[j].context \in Nat
         /\ InnerContext(s[j]) \in Nat
         /\ s[j].context <= InnerContext(s[j])
         /\ 1 <= s[j].context /\ InnerContext(s[j]) <= Depth(s)
<1>1. s \in Seq(Placed) /\ s # <<>> /\ Len(s) \in Nat \ {0}
  BY EmptySeq, LenProperties DEF Stack
<1>2. \A k \in 1 .. Len(s) : s[k] \in Placed /\ s[k].context \in Nat
  <2>1. \A k \in 1 .. Len(s) : s[k] \in Placed
    BY <1>1, ElementOfSeq
  <2>2. \A a \in Placed : a.context \in Nat
    BY DEF Placed, ActivationType
  <2> QED
    BY <2>1, <2>2
<1>3. \A k \in 1 .. Len(s) : /\ InnerContext(s[k]) \in Nat
                             /\ s[k].context <= InnerContext(s[k])
  BY <1>2 DEF InnerContext
<1>4. 1 \in 1 .. Len(s) /\ Len(s) \in 1 .. Len(s)
  BY <1>1
<1>5. s[1].context = 1
  BY <1>4 DEF Stack
<1>6. 1 <= s[j].context
  <2>1. CASE j = 1
    BY <1>5, <2>1
  <2>2. CASE j # 1
    <3>1. InnerContext(s[1]) <= s[j].context
      BY <1>4, <2>2 DEF Stack
    <3> QED
      BY <1>2, <1>3, <1>4, <1>5, <3>1
  <2> QED
    BY <2>1, <2>2
<1>7. InnerContext(s[j]) <= InnerContext(s[Len(s)])
  <2>1. CASE j = Len(s)
    BY <1>3, <2>1
  <2>2. CASE j # Len(s)
    <3>1. InnerContext(s[j]) <= s[Len(s)].context
      BY <1>1, <1>4, <2>2 DEF Stack
    <3> QED
      BY <1>2, <1>3, <1>4, <3>1
  <2> QED
    BY <2>1, <2>2
<1> QED
  BY <1>1, <1>2, <1>3, <1>6, <1>7 DEF Depth, Last

\* The running activation.
LEMMA StackTop ==
  ASSUME NEW s, Stack(s), s # <<>>
  PROVE  /\ Len(s) \in Nat \ {0} /\ Len(s) \in 1 .. Len(s)
         /\ Last(s) \in Placed /\ Last(s).context \in Nat
         /\ 1 <= Last(s).context /\ Last(s).context <= Depth(s)
         /\ Depth(s) = InnerContext(Last(s)) /\ Depth(s) \in Nat
         /\ Last(s).at = "module" <=> Len(s) = 1
<1>1. Len(s) \in Nat \ {0}
  BY EmptySeq DEF Stack
<1>2. Len(s) \in 1 .. Len(s)
  BY <1>1
<1> QED
  BY <1>1, <1>2, StackEntry DEF Depth, Last, Stack

\* The running activation moves on.
LEMMA StackBecome ==
  ASSUME NEW s, Stack(s), s # <<>>, NEW a \in Placed,
         a.context = Last(s).context,
         a.at = "module" <=> Last(s).at = "module"
  PROVE  LET t == [s EXCEPT ![Len(s)] = a]
         IN  /\ Stack(t) /\ t # <<>> /\ Last(t) = a /\ Len(t) = Len(s)
             /\ Depth(t) = InnerContext(a)
<1> DEFINE t == [s EXCEPT ![Len(s)] = a]
<1>1. s \in Seq(Placed) /\ Len(s) \in Nat \ {0} /\ Len(s) \in 1 .. Len(s)
  BY StackTop DEF Stack
<1>2. /\ t \in Seq(Placed) /\ Len(t) = Len(s)
      /\ \A j \in 1 .. Len(s) : t[j] = IF j = Len(s) THEN a ELSE s[j]
  BY <1>1, ExceptSeq
<1> HIDE DEF t
<1>3. \A j \in 1 .. Len(s) :
        /\ t[j].at = "module" <=> j = 1
        /\ t[j].context = IF j = 1 THEN 1 ELSE InnerContext(t[j - 1])
  <2> TAKE j \in 1 .. Len(s)
  <2>1. t[j].context = s[j].context /\ (t[j].at = "module" <=> s[j].at = "module")
    BY <1>1, <1>2 DEF Last
  <2>2. j # 1 => j - 1 \in 1 .. Len(s) /\ j - 1 # Len(s)
    BY <1>1
  <2>3. j # 1 => t[j - 1] = s[j - 1]
    BY <1>2, <2>2
  <2> QED
    BY <2>1, <2>3 DEF Stack
<1>4. \A i, j \in 1 .. Len(s) : i < j => InnerContext(t[i]) <= t[j].context
  <2> SUFFICES ASSUME NEW i \in 1 .. Len(s), NEW j \in 1 .. Len(s), i < j
               PROVE  InnerContext(t[i]) <= t[j].context
    OBVIOUS
  <2>1. i # Len(s)
    BY <1>1
  <2>2. t[i] = s[i] /\ t[j].context = s[j].context
    BY <1>2, <2>1 DEF Last
  <2> QED
    BY <2>2 DEF Stack
<1>5. t # <<>> /\ Last(t) = a
  BY <1>1, <1>2, EmptySeq DEF Last
<1> QED
  BY <1>2, <1>3, <1>4, <1>5 DEF Stack, Depth, t

\* A call, on the innermost context.
LEMMA StackAppend ==
  ASSUME NEW s, Stack(s), s # <<>>, NEW a \in Placed,
         a.context = Depth(s), a.at # "module"
  PROVE  LET t == Append(s, a)
         IN  /\ Stack(t) /\ t # <<>> /\ Last(t) = a /\ Len(t) = Len(s) + 1
             /\ Depth(t) = InnerContext(a)
<1> DEFINE t == Append(s, a)
<1>1. s \in Seq(Placed) /\ Len(s) \in Nat \ {0} /\ Len(s) \in 1 .. Len(s)
  BY StackTop DEF Stack
<1>2. /\ t \in Seq(Placed) /\ t # <<>> /\ Len(t) = Len(s) + 1
      /\ \A j \in 1 .. Len(s) : t[j] = s[j]
      /\ t[Len(s) + 1] = a
  BY <1>1, AppendProperties
<1> HIDE DEF t
<1>3. \A j \in 1 .. Len(t) :
        /\ t[j].at = "module" <=> j = 1
        /\ t[j].context = IF j = 1 THEN 1 ELSE InnerContext(t[j - 1])
  <2> TAKE j \in 1 .. Len(t)
  <2>1. CASE j \in 1 .. Len(s)
    <3>1. j # 1 => j - 1 \in 1 .. Len(s)
      BY <1>1, <2>1
    <3> QED
      BY <1>2, <2>1, <3>1 DEF Stack
  <2>2. CASE j = Len(s) + 1
    <3>1. t[j - 1] = Last(s) /\ j # 1
      BY <1>1, <1>2, <2>2 DEF Last
    <3> QED
      BY <1>2, <2>2, <3>1 DEF Depth
  <2> QED
    BY <1>1, <1>2, <2>1, <2>2
<1>4. \A i, j \in 1 .. Len(t) : i < j => InnerContext(t[i]) <= t[j].context
  <2> SUFFICES ASSUME NEW i \in 1 .. Len(t), NEW j \in 1 .. Len(t), i < j
               PROVE  InnerContext(t[i]) <= t[j].context
    OBVIOUS
  <2>1. i \in 1 .. Len(s) /\ t[i] = s[i]
    BY <1>1, <1>2
  <2>2. CASE j \in 1 .. Len(s)
    BY <1>2, <2>1, <2>2 DEF Stack
  <2>3. CASE j = Len(s) + 1
    BY <1>2, <2>1, <2>3, StackEntry
  <2> QED
    BY <1>1, <1>2, <2>2, <2>3
<1>5. Last(t) = a
  BY <1>2 DEF Last
<1> QED
  BY <1>2, <1>3, <1>4, <1>5 DEF Stack, Depth, t

\* A return: the caller is on the context that was the callee's.
LEMMA StackFront ==
  ASSUME NEW s, Stack(s), s # <<>>
  PROVE  LET t == Front(s)
         IN  /\ Stack(t) /\ Len(t) = Len(s) - 1
             /\ Last(s).at # "module" => t # <<>> /\ Depth(t) = Last(s).context
             /\ Last(s).at = "module" => t = <<>>
             /\ \A j \in 1 .. Len(t) : t[j] = s[j]
<1> DEFINE t == Front(s)
<1>1. s \in Seq(Placed) /\ Len(s) \in Nat \ {0} /\ Len(s) \in 1 .. Len(s)
  BY StackTop DEF Stack
<1>2. /\ t \in Seq(Placed) /\ Len(t) = Len(s) - 1
      /\ \A j \in 1 .. Len(s) - 1 : t[j] = s[j]
  <2>1. \A i \in 1 .. Len(s) - 1 : s[i] \in Placed
    BY <1>1, ElementOfSeq
  <2> DEFINE n == Len(s) - 1
  <2>2. n \in Nat
    BY <1>1
  <2>3. 1 \in Int /\ n \in Int
    BY <2>2
  <2>4. n - 1 + 1 = n /\ (1 <= n \/ n = 0)
    BY <2>2
  <2>5. t = SubSeq(s, 1, n)
    BY DEF Front
  <2>6. \A i \in 1 .. n : s[i] \in Placed
    BY <2>1
  <2> HIDE DEF n, t
  <2>7. /\ SubSeq(s, 1, n) \in Seq(Placed)
        /\ Len(SubSeq(s, 1, n)) = IF 1 <= n THEN n - 1 + 1 ELSE 0
        /\ \A j \in 1 .. n - 1 + 1 : SubSeq(s, 1, n)[j] = s[1 + j - 1]
    BY <2>3, <2>6, SubSeqProperties
  <2>8. t \in Seq(Placed) /\ Len(t) = n
    BY <2>2, <2>4, <2>5, <2>7
  <2>9. \A j \in 1 .. n : t[j] = s[j]
    <3> TAKE j \in 1 .. n
    <3>1. j \in 1 .. n - 1 + 1 /\ 1 + j - 1 = j
      BY <2>2
    <3> QED
      BY <2>5, <2>7, <3>1
  <2> QED
    BY <2>8, <2>9 DEF n
<1> HIDE DEF t
<1>3. Stack(t)
  <2>1. \A j \in 1 .. Len(t) : j \in 1 .. Len(s)
    BY <1>1, <1>2
  <2>2. \A j \in 1 .. Len(t) : j # 1 => j - 1 \in 1 .. Len(t)
    BY <1>1, <1>2
  <2> QED
    BY <1>2, <2>1, <2>2 DEF Stack
<1>4. Last(s).at # "module" => t # <<>> /\ Depth(t) = Last(s).context
  <2> SUFFICES ASSUME Last(s).at # "module"
               PROVE  t # <<>> /\ Depth(t) = Last(s).context
    OBVIOUS
  <2>1. Len(s) # 1
    BY StackTop
  <2>2. Len(t) # 0 /\ Len(t) \in 1 .. Len(s) - 1
    BY <1>1, <1>2, <2>1
  <2>3. t # <<>>
    BY <2>2, EmptySeq
  <2>4. t[Len(t)] = s[Len(s) - 1]
    BY <1>2, <2>2
  <2>5. Last(s).context = InnerContext(s[Len(s) - 1])
    BY <1>1, <2>1 DEF Stack, Last
  <2> QED
    BY <2>3, <2>4, <2>5 DEF Depth, Last
<1>5. Last(s).at = "module" => t = <<>>
  <2> SUFFICES ASSUME Last(s).at = "module"
               PROVE  t = <<>>
    OBVIOUS
  <2>1. Len(s) = 1
    BY StackTop
  <2> QED
    BY <1>2, <2>1, EmptySeq
<1> QED
  BY <1>2, <1>3, <1>4, <1>5 DEF t

-----------------------------------------------------------------------------
\* What the parser guarantees of the subexpressions that are compiled.
LEMMA Subexpressions ==
  ASSUME NEW e \in Expression
  PROVE  /\ e.type = "LAMBDA" =>
              e.lambda_id \in Symbol /\ e.lambda_body \in Expression
         /\ e.type = "IDENTIFIER" => e.identifier_id \in Symbol
         /\ e.type = "INTEGER_CONSTANT" => e.literal_value \in Nat
         /\ e.type \in {"APPLY", "BINARY"} =>
              FirstOperand(e) \in Expression /\ SecondOperand(e) \in Expression
         /\ e.type = "UNARY" => e.unary_arg \in Expression
         /\ e.type \in {"LET", "LETREC"} =>
              /\ e.let_id \in Symbol
              /\ e.let_value \in Expression /\ e.let_body \in Expression
         /\ e.type = "IF" => /\ e.if_test \in Expression
                             /\ e.if_then \in Expression
                             /\ e.if_else \in Expression
         /\ e.type = "TUPLE" =>
              e.tuple_first \in Expression /\ e.tuple_length \in Nat
<1>1. WellFormed(e, Expression)
  BY CompilerAssumption
<1>2. Children(e) \subseteq Expression
  BY <1>1 DEF WellFormed
<1>3. e.type = "LAMBDA" => Children(e) = {e.lambda_body}
  BY DEF Children
<1>4. e.type = "APPLY" => Children(e) = {e.apply_function, e.apply_argument}
  BY DEF Children
<1>5. e.type \in {"LET", "LETREC"} => Children(e) = {e.let_value, e.let_body}
  BY DEF Children
<1>6. e.type = "IF" => Children(e) = {e.if_test, e.if_then, e.if_else}
  BY DEF Children
<1>7. e.type = "BINARY" => Children(e) = {e.binary_left, e.binary_right}
  BY DEF Children
<1>8. e.type = "UNARY" => Children(e) = {e.unary_arg}
  BY DEF Children
<1>9. e.type = "TUPLE" => Children(e) = {e.tuple_first, e.tuple_rest}
  BY DEF Children
<1>10. e.type \in {"APPLY", "BINARY"} =>
         FirstOperand(e) \in Expression /\ SecondOperand(e) \in Expression
  BY <1>2, <1>4, <1>7 DEF FirstOperand, SecondOperand
<1> QED
  BY <1>1, <1>2, <1>3, <1>5, <1>6, <1>8, <1>9, <1>10 DEF WellFormed

\* The inductive invariant.
CompilerInv ==
  /\ program \in Programs
  /\ functions \in Seq(FunctionType)
  /\ capacity \in Nat /\ array \in Nat
  /\ contexts \in Seq(ContextType) /\ Len(contexts) = Depth(calls)
  /\ Stack(calls)
  /\ ret \in Nat /\ (calls # <<>> => ret \in Bytes)
  /\ errors \in Nat
  /\ freed \in SUBSET Seq(Binding)

\* CompilerInv gives the two properties.
LEMMA InvariantSuffices == CompilerInv => TypeOK /\ ContextsNest
<1> SUFFICES ASSUME CompilerInv
             PROVE  TypeOK /\ ContextsNest
  OBVIOUS
<1>1. calls \in Seq(Placed) /\ DOMAIN calls = 1 .. Len(calls)
  BY LenProperties DEF CompilerInv, Stack
<1>2. calls \in Seq(ActivationType)
  <2>1. Placed \subseteq ActivationType
    BY DEF Placed
  <2> QED
    BY <1>1, <2>1, SeqMonotonic
<1>3. \A j \in DOMAIN calls :
        calls[j].at \in DOMAIN ExpressionType =>
          calls[j].expr.type \in ExpressionType[calls[j].at]
  <2>1. \A j \in DOMAIN calls : calls[j] \in Placed
    BY <1>1, ElementOfSeq
  <2> QED
    BY <2>1 DEF Placed
<1>4. TypeOK
  BY <1>2, <1>3 DEF CompilerInv, TypeOK
<1>5. ContextsNest
  BY <1>1 DEF CompilerInv, Stack, Depth, ContextsNest, top
<1> QED
  BY <1>4, <1>5

\* What the running activation can rely on.
LEMMA TopFacts ==
  ASSUME CompilerInv, calls # <<>>
  PROVE  /\ top \in Placed /\ top \in ActivationType
         /\ top.expr \in Expression /\ top.reg \in Bytes
         /\ top.context \in 1 .. Len(contexts)
         /\ context \in ContextType /\ context.integer_registers \in Bytes
         /\ context.code \in Seq(Bytes) /\ context.bindings \in Seq(Binding)
         /\ ret \in Bytes
<1>1. top \in Placed /\ top.context \in 1 .. Len(contexts)
  BY StackTop DEF CompilerInv, top
<1>2. context \in ContextType
  BY <1>1, ElementOfSeq DEF CompilerInv, context
<1>3. top \in ActivationType
  BY <1>1 DEF Placed
<1>4. top.expr \in Expression /\ top.reg \in Bytes
  BY <1>3 DEF ActivationType
<1> QED
  BY <1>1, <1>2, <1>3, <1>4 DEF CompilerInv, ContextType

-----------------------------------------------------------------------------
\* An update of the context of the running activation.
LEMMA SetContextStep ==
  ASSUME CompilerInv, calls # <<>>, NEW c \in ContextType, SetContext(c)
  PROVE  contexts' \in Seq(ContextType) /\ Len(contexts') = Len(contexts)
BY TopFacts, ExceptSeq DEF CompilerInv, SetContext

\* The activation that runs between two calls.
Running == calls # <<>> /\ top.at \notin {"module", "body"}

LEMMA RunningDepth ==
  ASSUME CompilerInv, Running
  PROVE  top.context = Depth(calls) /\ Depth(calls) = Len(contexts)
BY StackTop DEF CompilerInv, Running, InnerContext, top

\* What the stack is after a step that leaves the contexts nested as they are.
Nested == Stack(calls') /\ Depth(calls') = Len(contexts)

LEMMA ReturnStep ==
  ASSUME CompilerInv, Running, NEW r \in Bytes, Return(r)
  PROVE  Nested /\ ret' \in Bytes
BY StackFront, RunningDepth DEF CompilerInv, Running, Return, Nested, top

LEMMA BecomeStep ==
  ASSUME CompilerInv, Running, NEW a \in Placed,
         a.context = top.context, a.at \notin {"module", "body"},
         calls' = Become(a)
  PROVE  Nested
<1>1. a.at = "module" <=> Last(calls).at = "module"
  BY DEF Running, top
<1> QED
  BY <1>1, StackBecome, RunningDepth
     DEF CompilerInv, Running, Become, Nested, InnerContext, top

\* A call of _CompileExpression.
LEMMA EnterPlaced ==
  ASSUME NEW e \in Expression, NEW d \in Nat
  PROVE  /\ Activation("enter", e, d) \in Placed
         /\ Activation("enter", e, d).at = "enter"
         /\ Activation("enter", e, d).context = d
         /\ InnerContext(Activation("enter", e, d)) = d
<1>1. <<>> \in Seq(Symbol) /\ 0 \in Bytes
  BY BytesWithin
<1> QED
  BY <1>1 DEF Activation, Placed, ActivationType, ExpressionType, InnerContext

LEMMA PushStep ==
  ASSUME CompilerInv, Running, NEW a \in Placed,
         a.context = top.context, a.at \notin {"module", "body"},
         NEW b \in Placed,
         b.context = top.context, b.at \notin {"module", "body"},
         calls' = Append(Become(a), b)
  PROVE  Nested
<1>1. a.at = "module" <=> Last(calls).at = "module"
  BY DEF Running, top
<1>2. /\ Stack(Become(a)) /\ Become(a) # <<>>
      /\ Depth(Become(a)) = Len(contexts)
  BY <1>1, StackBecome, RunningDepth
     DEF CompilerInv, Running, Become, InnerContext, top
<1>3. b.context = Depth(Become(a))
  BY <1>2, RunningDepth
<1> QED
  BY <1>2, <1>3, StackAppend DEF Nested, InnerContext

LEMMA CallStep ==
  ASSUME CompilerInv, Running, NEW a \in Placed,
         a.context = top.context, a.at \notin {"module", "body"},
         NEW e \in Expression, CallFrom(a, e)
  PROVE  Nested
<1>1. a.context \in Nat
  BY TopFacts, LenProperties DEF Running, CompilerInv
<1> DEFINE b == Activation("enter", e, a.context)
<1>2. /\ b \in Placed /\ b.context = top.context
      /\ b.at \notin {"module", "body"}
  BY <1>1, EnterPlaced
<1>3. calls' = Append(Become(a), b)
  BY DEF CallFrom
<1> HIDE DEF b
<1> QED
  BY <1>2, <1>3, PushStep

\* What most steps leave alone.
Quiet == /\ UNCHANGED <<program, functions, capacity, array, freed>>
         /\ errors' \in Nat

LEMMA QuietStep ==
  ASSUME CompilerInv, Quiet, Nested,
         contexts' \in Seq(ContextType), Len(contexts') = Len(contexts),
         ret' \in Bytes
  PROVE  CompilerInv'
BY BytesWithin DEF CompilerInv, Quiet, Nested, Stack, Depth

\* The running activation may move to any place its expression has.
LEMMA LabelPlaced ==
  ASSUME CompilerInv, calls # <<>>,
         NEW l \in DOMAIN ExpressionType, top.expr.type \in ExpressionType[l]
  PROVE  LET a == [top EXCEPT !.at = l]
         IN  /\ a \in Placed /\ a.context = top.context /\ a.at = l
             /\ a.expr = top.expr
             /\ \A r \in Bytes :
                  /\ [a EXCEPT !.reg = r] \in Placed
                  /\ \A n \in Nat : [a EXCEPT !.reg = r, !.loc = n] \in Placed
             /\ \A n \in Nat : [a EXCEPT !.loc = n] \in Placed
             /\ \A n \in Nat : [a EXCEPT !.i = n] \in Placed
<1>1. top \in ActivationType
  BY TopFacts
<1> DEFINE a == [top EXCEPT !.at = l]
<1>2. /\ a \in ActivationType /\ a.at = l /\ a.expr = top.expr
      /\ a.context = top.context
  BY <1>1 DEF ActivationType
<1> HIDE DEF a
<1>3. \A b \in ActivationType :
        b.at = l /\ b.expr = top.expr => b \in Placed
  BY DEF Placed
<1>4. /\ \A r \in Bytes :
           LET b == [a EXCEPT !.reg = r]
           IN  b \in ActivationType /\ b.at = l /\ b.expr = top.expr
      /\ \A r \in Bytes, n \in Nat :
           LET b == [a EXCEPT !.reg = r, !.loc = n]
           IN  b \in ActivationType /\ b.at = l /\ b.expr = top.expr
      /\ \A n \in Nat :
           LET b == [a EXCEPT !.loc = n]
           IN  b \in ActivationType /\ b.at = l /\ b.expr = top.expr
      /\ \A n \in Nat :
           LET b == [a EXCEPT !.i = n]
           IN  b \in ActivationType /\ b.at = l /\ b.expr = top.expr
  BY <1>2 DEF ActivationType
<1> QED
  BY <1>2, <1>3, <1>4 DEF a

-----------------------------------------------------------------------------
\* Constants and identifiers, lambdas.
LEMMA LiteralStep ==
  ASSUME CompilerInv, CompileLiteral
  PROVE  CompilerInv'
<1>1. Running
  BY DEF CompileLiteral, Enter, At, Running
<1>2. LiteralValue(top.expr) \in Nat
  BY <1>1, TopFacts, Subexpressions
     DEF CompileLiteral, Enter, At, Running, LiteralValue
<1>3. WriteLoadLiteral(context, LiteralValue(top.expr)) \in ContextType
  BY <1>1, <1>2, TopFacts, WriteLoadLiteralType DEF Running
<1>4. context.integer_registers \in Bytes
  BY <1>1, TopFacts DEF Running
<1>5. Nested /\ ret' \in Bytes
  BY <1>1, <1>4, ReturnStep DEF CompileLiteral
<1>6. contexts' \in Seq(ContextType) /\ Len(contexts') = Len(contexts)
  BY <1>1, <1>3, SetContextStep DEF CompileLiteral, Running
<1>7. Quiet
  BY DEF CompileLiteral, Quiet, CompilerInv
<1> QED
  BY <1>5, <1>6, <1>7, QuietStep

LEMMA IdentifierStep ==
  ASSUME CompilerInv, CompileIdentifier
  PROVE  CompilerInv'
<1> DEFINE id == top.expr.identifier_id
<1>1. Running /\ calls # <<>>
  BY DEF CompileIdentifier, Enter, At, Running
<1>2. id \in Symbol
  BY <1>1, TopFacts, Subexpressions DEF CompileIdentifier, Enter, At
<1>3. /\ IdentifierContext(context, id) \in ContextType
      /\ IdentifierRegister(context, id) \in Bytes
  BY <1>1, <1>2, TopFacts, IdentifierTypes
<1>4. Nested /\ ret' \in Bytes
  BY <1>1, <1>3, ReturnStep DEF CompileIdentifier
<1>5. contexts' \in Seq(ContextType) /\ Len(contexts') = Len(contexts)
  BY <1>1, <1>3, SetContextStep DEF CompileIdentifier
<1>6. Quiet
  BY DEF CompileIdentifier, Quiet, CompilerInv
<1> QED
  BY <1>4, <1>5, <1>6, QuietStep

LEMMA LambdaStep ==
  ASSUME CompilerInv, CompileLambda
  PROVE  CompilerInv'
<1> DEFINE a == [top EXCEPT !.at = "lambda", !.reg = context.integer_registers]
<1>1. Running /\ calls # <<>>
  BY DEF CompileLambda, Enter, At, Running
<1>2. top.expr.type \in ExpressionType["lambda"]
      /\ "lambda" \in DOMAIN ExpressionType
  BY DEF CompileLambda, Enter, ExpressionType
<1>3. a \in Placed /\ a.context = top.context /\ a.at = "lambda"
  BY <1>1, <1>2, LabelPlaced, TopFacts DEF ActivationType
<1>4. calls' = Become(a)
  BY DEF CompileLambda
<1> HIDE DEF a
<1>5. Nested
  BY <1>1, <1>3, <1>4, BecomeStep
<1>6. contexts' \in Seq(ContextType) /\ Len(contexts') = Len(contexts)
  BY <1>1, TopFacts, GetFreeIntRegisterType, SetContextStep DEF CompileLambda
<1>7. Quiet /\ ret' = ret
  BY DEF CompileLambda, Quiet, CompilerInv
<1> QED
  BY <1>1, <1>5, <1>6, <1>7, QuietStep, TopFacts

LEMMA CloseVariableStep ==
  ASSUME CompilerInv, CloseVariable
  PROVE  CompilerInv'
<1> DEFINE id == top.closure[top.i + 1]
           c  == IdentifierContext(context, id)
           r  == IdentifierRegister(context, id)
           slot == U16(ClosureSlot(top.i))
           a  == [top EXCEPT !.i = top.i + 1]
<1>1. Running /\ calls # <<>>
  BY DEF CloseVariable, At, Running
<1>2. top \in ActivationType /\ top.at = "closed" /\ top.i \in Nat
      /\ top.closure \in Seq(Symbol) /\ top.reg \in Bytes
  BY <1>1, TopFacts DEF CloseVariable, At, ActivationType
<1>3. id \in Symbol
  <2>1. top.i + 1 \in 1 .. Len(top.closure)
    BY <1>2, LenProperties DEF CloseVariable
  <2> QED
    BY <1>2, <2>1, ElementOfSeq
<1>4. c \in ContextType /\ r \in Bytes
  <2> HIDE DEF id
  <2> QED
    BY <1>1, <1>3, TopFacts, IdentifierTypes
<1>5. <<OP.STOREA_64, top.reg>> \o slot \o <<r>> \in Seq(Bytes)
  <2> HIDE DEF r, slot
  <2>1. OP.STOREA_64 \in Bytes
    BY BytesWithin DEF OP
  <2>2. slot \in Seq(Bytes)
    BY <1>2, U16Type DEF slot, ClosureSlot
  <2>3. <<OP.STOREA_64, top.reg>> \in Seq(Bytes) /\ <<r>> \in Seq(Bytes)
    BY <1>2, <1>4, <2>1
  <2>4. <<OP.STOREA_64, top.reg>> \o slot \in Seq(Bytes)
    BY <2>2, <2>3, ConcatProperties
  <2> QED
    BY <2>3, <2>4, ConcatProperties
<1> DEFINE d == WriteCode(c, <<OP.STOREA_64, top.reg>> \o slot \o <<r>>)
<1>6. d \in ContextType
  <2> HIDE DEF c, r, slot
  <2> QED
    BY <1>4, <1>5, WriteCodeType
<1>7. SetContext(d) /\ calls' = Become(a)
  BY DEF CloseVariable
<1>8. a \in Placed /\ a.context = top.context /\ a.at = "closed"
  <2>1. top.i + 1 \in Nat
    BY <1>2
  <2>2. /\ a \in ActivationType /\ a.expr = top.expr
        /\ a.at = top.at /\ a.context = top.context
    BY <1>2, <2>1 DEF ActivationType
  <2>3. top \in Placed
    BY <1>1, TopFacts
  <2> HIDE DEF a
  <2> QED
    BY <1>2, <2>2, <2>3 DEF Placed
<1> HIDE DEF a, d
<1>9. Nested
  BY <1>1, <1>7, <1>8, BecomeStep
<1>10. contexts' \in Seq(ContextType) /\ Len(contexts') = Len(contexts)
  BY <1>1, <1>6, <1>7, SetContextStep
<1>11. Quiet /\ ret' = ret
  BY DEF CloseVariable, Quiet, CompilerInv
<1> QED
  BY <1>1, <1>9, <1>10, <1>11, QuietStep, TopFacts

LEMMA ReturnClosureStep ==
  ASSUME CompilerInv, ReturnClosure
  PROVE  CompilerInv'
<1>1. Running /\ calls # <<>>
  BY DEF ReturnClosure, At, Running
<1>2. Nested /\ ret' \in Bytes
  BY <1>1, TopFacts, ReturnStep DEF ReturnClosure
<1>3. Quiet /\ contexts' = contexts
  BY DEF ReturnClosure, Quiet, CompilerInv
<1> QED
  BY <1>2, <1>3, QuietStep DEF CompilerInv

-----------------------------------------------------------------------------
\* The steps that do nothing but call _CompileExpression.
LEMMA DescendStep ==
  ASSUME CompilerInv, Running,
         NEW l \in DOMAIN ExpressionType, l # "body",
         top.expr.type \in ExpressionType[l],
         NEW e \in Expression, CallFrom([top EXCEPT !.at = l], e),
         Quiet, ret' = ret, contexts' = contexts
  PROVE  CompilerInv'
<1> DEFINE a == [top EXCEPT !.at = l]
<1>1. calls # <<>> /\ l # "module"
  BY DEF Running, ExpressionType
<1>2. a \in Placed /\ a.context = top.context /\ a.at = l
  BY <1>1, LabelPlaced
<1> HIDE DEF a
<1>3. CallFrom(a, e)
  BY DEF a
<1>4. Nested
  BY <1>1, <1>2, <1>3, CallStep
<1> QED
  BY <1>1, <1>4, QuietStep, TopFacts DEF CompilerInv

LEMMA LetStep ==
  ASSUME CompilerInv, CompileLet
  PROVE  CompilerInv'
<1>1. Running /\ calls # <<>>
  BY DEF CompileLet, Enter, At, Running
<1>2. /\ "let_value" \in DOMAIN ExpressionType /\ "let_value" # "body"
      /\ top.expr.type \in ExpressionType["let_value"]
  BY <1>1, TopFacts DEF CompileLet, Enter, At, ExpressionType, Placed
<1>3. top.expr.let_value \in Expression
  BY <1>1, <1>2, TopFacts, Subexpressions DEF ExpressionType
<1>4. Quiet /\ ret' = ret /\ contexts' = contexts
  BY DEF CompileLet, Quiet, CompilerInv
<1> QED
  BY <1>1, <1>2, <1>3, <1>4, DescendStep DEF CompileLet

LEMMA LetRecBodyStep ==
  ASSUME CompilerInv, LetRecBody
  PROVE  CompilerInv'
<1>1. Running /\ calls # <<>>
  BY DEF LetRecBody, At, Running
<1>2. /\ "let_body" \in DOMAIN ExpressionType /\ "let_body" # "body"
      /\ top.expr.type \in ExpressionType["let_body"]
  BY <1>1, TopFacts DEF LetRecBody, At, ExpressionType, Placed
<1>3. top.expr.let_body \in Expression
  BY <1>1, <1>2, TopFacts, Subexpressions DEF ExpressionType
<1>4. Quiet /\ ret' = ret /\ contexts' = contexts
  BY DEF LetRecBody, Quiet, CompilerInv
<1> QED
  BY <1>1, <1>2, <1>3, <1>4, DescendStep DEF LetRecBody

LEMMA FirstStep ==
  ASSUME CompilerInv, CompileFirst
  PROVE  CompilerInv'
<1>1. Running /\ calls # <<>>
  BY DEF CompileFirst, Enter, At, Running
<1>2. /\ "first" \in DOMAIN ExpressionType /\ "first" # "body"
      /\ top.expr.type \in ExpressionType["first"]
  BY <1>1, TopFacts DEF CompileFirst, Enter, At, ExpressionType, Placed
<1>3. FirstOperand(top.expr) \in Expression
  BY <1>1, <1>2, TopFacts, Subexpressions DEF ExpressionType
<1>4. Quiet /\ ret' = ret /\ contexts' = contexts
  BY DEF CompileFirst, Quiet, CompilerInv
<1> QED
  BY <1>1, <1>2, <1>3, <1>4, DescendStep DEF CompileFirst

LEMMA UnaryStep ==
  ASSUME CompilerInv, CompileUnary
  PROVE  CompilerInv'
<1>1. Running /\ calls # <<>>
  BY DEF CompileUnary, Enter, At, Running
<1>2. /\ "operand" \in DOMAIN ExpressionType /\ "operand" # "body"
      /\ top.expr.type \in ExpressionType["operand"]
  BY <1>1, TopFacts DEF CompileUnary, Enter, At, ExpressionType, Placed
<1>3. top.expr.unary_arg \in Expression
  BY <1>1, <1>2, TopFacts, Subexpressions DEF ExpressionType
<1>4. Quiet /\ ret' = ret /\ contexts' = contexts
  BY DEF CompileUnary, Quiet, CompilerInv
<1> QED
  BY <1>1, <1>2, <1>3, <1>4, DescendStep DEF CompileUnary

LEMMA IfStep ==
  ASSUME CompilerInv, CompileIf
  PROVE  CompilerInv'
<1>1. Running /\ calls # <<>>
  BY DEF CompileIf, Enter, At, Running
<1>2. /\ "if_test" \in DOMAIN ExpressionType /\ "if_test" # "body"
      /\ top.expr.type \in ExpressionType["if_test"]
  BY <1>1, TopFacts DEF CompileIf, Enter, At, ExpressionType, Placed
<1>3. top.expr.if_test \in Expression
  BY <1>1, <1>2, TopFacts, Subexpressions DEF ExpressionType
<1>4. Quiet /\ ret' = ret /\ contexts' = contexts
  BY DEF CompileIf, Quiet, CompilerInv
<1> QED
  BY <1>1, <1>2, <1>3, <1>4, DescendStep DEF CompileIf

LEMMA EndLetStep ==
  ASSUME CompilerInv, EndLet
  PROVE  CompilerInv'
<1>1. Running /\ calls # <<>>
  BY DEF EndLet, At, Running
<1>2. Nested /\ ret' \in Bytes
  BY <1>1, TopFacts, ReturnStep DEF EndLet
<1>3. contexts' \in Seq(ContextType) /\ Len(contexts') = Len(contexts)
  BY <1>1, TopFacts, PopBindingType, SetContextStep DEF EndLet
<1>4. Quiet
  BY DEF EndLet, Quiet, CompilerInv
<1> QED
  BY <1>2, <1>3, <1>4, QuietStep

LEMMA RejectLetRecStep ==
  ASSUME CompilerInv, RejectLetRec
  PROVE  CompilerInv'
<1>1. Running /\ calls # <<>>
  BY DEF RejectLetRec, Enter, At, Running
<1>2. Nested /\ ret' \in Bytes
  BY <1>1, TopFacts, ReturnStep DEF RejectLetRec
<1>3. contexts' \in Seq(ContextType) /\ Len(contexts') = Len(contexts)
  BY <1>1, TopFacts, GetFreeIntRegisterType, SetContextStep DEF RejectLetRec
<1>4. Quiet
  BY DEF RejectLetRec, Quiet, CompilerInv
<1> QED
  BY <1>2, <1>3, <1>4, QuietStep

LEMMA BindLetStep ==
  ASSUME CompilerInv, BindLet
  PROVE  CompilerInv'
<1> DEFINE a == [top EXCEPT !.at = "let_body"]
<1>1. Running /\ calls # <<>>
  BY DEF BindLet, At, Running
<1>2. /\ "let_body" \in DOMAIN ExpressionType
      /\ top.expr.type \in ExpressionType["let_body"]
  BY <1>1, TopFacts DEF BindLet, At, ExpressionType, Placed
<1>3. top.expr.let_body \in Expression /\ top.expr.let_id \in Symbol
  BY <1>1, <1>2, TopFacts, Subexpressions DEF ExpressionType
<1>4. a \in Placed /\ a.context = top.context /\ a.at = "let_body"
  BY <1>1, <1>2, LabelPlaced
<1>5. CallFrom(a, top.expr.let_body)
  BY DEF BindLet
<1> HIDE DEF a
<1>6. Nested
  BY <1>1, <1>3, <1>4, <1>5, CallStep
<1>7. contexts' \in Seq(ContextType) /\ Len(contexts') = Len(contexts)
  BY <1>1, <1>3, TopFacts, PushBindingType, SetContextStep DEF BindLet
<1>8. Quiet /\ ret' = ret
  BY DEF BindLet, Quiet, CompilerInv
<1> QED
  BY <1>1, <1>6, <1>7, <1>8, QuietStep, TopFacts

LEMMA LetRecStep ==
  ASSUME CompilerInv, CompileLetRec
  PROVE  CompilerInv'
<1> DEFINE a == [top EXCEPT !.at = "rec_value"]
           dest == context.integer_registers
           b == [Activation("lambda", top.expr.let_value, top.context) EXCEPT
                   !.self_id = top.expr.let_id, !.reg = dest]
<1>1. Running /\ calls # <<>>
  BY DEF CompileLetRec, Enter, At, Running
<1>2. /\ "rec_value" \in DOMAIN ExpressionType
      /\ top.expr.type \in ExpressionType["rec_value"]
      /\ top.expr.type = "LETREC" /\ top.expr.let_value.type = "LAMBDA"
  BY DEF CompileLetRec, Enter, At, ExpressionType
<1>3. top.expr.let_value \in Expression /\ top.expr.let_id \in Symbol
  BY <1>1, <1>2, TopFacts, Subexpressions
<1>4. a \in Placed /\ a.context = top.context /\ a.at = "rec_value"
  BY <1>1, <1>2, LabelPlaced
<1>5. b \in Placed /\ b.context = top.context /\ b.at = "lambda"
  <2>1. <<>> \in Seq(Symbol) /\ 0 \in Bytes
    BY BytesWithin
  <2>2. top.context \in Nat /\ dest \in Bytes
    BY <1>1, TopFacts DEF ActivationType
  <2> HIDE DEF dest
  <2>3. /\ b \in ActivationType /\ b.at = "lambda" /\ b.context = top.context
        /\ b.expr = top.expr.let_value
    BY <1>3, <2>1, <2>2 DEF Activation, ActivationType, ExpressionType
  <2> HIDE DEF b
  <2> QED
    BY <1>2, <2>3 DEF Placed, ExpressionType
<1>6. calls' = Append(Become(a), b)
  BY DEF CompileLetRec
<1>7. SetContext(PushBinding(GetFreeIntRegister(context), top.expr.let_id, dest))
  BY DEF CompileLetRec
<1>8. contexts' \in Seq(ContextType) /\ Len(contexts') = Len(contexts)
  BY <1>1, <1>3, <1>7, TopFacts, GetFreeIntRegisterType, PushBindingType,
     SetContextStep
<1> HIDE DEF a, b
<1>9. Nested
  BY <1>1, <1>4, <1>5, <1>6, PushStep
<1>10. Quiet /\ ret' = ret
  BY DEF CompileLetRec, Quiet, CompilerInv
<1> QED
  BY <1>1, <1>8, <1>9, <1>10, QuietStep, TopFacts

-----------------------------------------------------------------------------
\* Operators and conditionals.
LEMMA SecondStep ==
  ASSUME CompilerInv, CompileSecond
  PROVE  CompilerInv'
<1> DEFINE a == [top EXCEPT !.at = "second", !.reg = ret]
<1>1. Running /\ calls # <<>>
  BY DEF CompileSecond, At, Running
<1>2. /\ "second" \in DOMAIN ExpressionType
      /\ top.expr.type \in ExpressionType["second"]
  BY <1>1, TopFacts DEF CompileSecond, At, ExpressionType, Placed
<1>3. SecondOperand(top.expr) \in Expression
  BY <1>1, <1>2, TopFacts, Subexpressions DEF ExpressionType
<1>4. a \in Placed /\ a.context = top.context /\ a.at = "second"
  BY <1>1, <1>2, LabelPlaced, TopFacts DEF ActivationType
<1>5. CallFrom(a, SecondOperand(top.expr))
  BY DEF CompileSecond
<1> HIDE DEF a
<1>6. Nested
  BY <1>1, <1>3, <1>4, <1>5, CallStep
<1>7. Quiet /\ ret' = ret /\ contexts' = contexts
  BY DEF CompileSecond, Quiet, CompilerInv
<1> QED
  BY <1>1, <1>6, <1>7, QuietStep, TopFacts DEF CompilerInv

LEMMA OperatorStep ==
  ASSUME CompilerInv, CompileOperator
  PROVE  CompilerInv'
<1> DEFINE out  == context.integer_registers
           code == OperatorCode(top.expr)
           c    == WriteCode(GetFreeIntRegister(context),
                             code \o <<top.reg, ret, out>>)
<1>1. Running /\ calls # <<>>
  BY DEF CompileOperator, At, Running
<1>2. out \in Bytes /\ top.reg \in Bytes /\ ret \in Bytes
  BY <1>1, TopFacts
<1>3. code \in Seq(Bytes)
  <2>1. \A o \in Bytes : <<o>> \in Seq(Bytes)
    OBVIOUS
  <2>2. /\ OP.CALL \in Bytes /\ OP.ADD \in Bytes /\ OP.SUB \in Bytes
        /\ OP.EQ \in Bytes /\ OP.MUL \in Bytes
    BY BytesWithin DEF OP
  <2> QED
    BY <2>1, <2>2 DEF OperatorCode
<1>4. c \in ContextType
  <2> HIDE DEF code, out
  <2>1. <<top.reg, ret, out>> \in Seq(Bytes)
    BY <1>2
  <2>2. code \o <<top.reg, ret, out>> \in Seq(Bytes)
    BY <1>3, <2>1, ConcatProperties
  <2> QED
    BY <1>1, <2>2, TopFacts, GetFreeIntRegisterType, WriteCodeType
<1>5. SetContext(c) /\ Return(out)
  BY DEF CompileOperator
<1>6. Quiet
  BY DEF CompileOperator, Quiet, CompilerInv
<1> HIDE DEF c, out
<1>7. Nested /\ ret' \in Bytes
  BY <1>1, <1>2, <1>5, ReturnStep
<1>8. contexts' \in Seq(ContextType) /\ Len(contexts') = Len(contexts)
  BY <1>1, <1>4, <1>5, SetContextStep
<1> QED
  BY <1>6, <1>7, <1>8, QuietStep

LEMMA UnaryOperatorStep ==
  ASSUME CompilerInv, CompileUnaryOperator
  PROVE  CompilerInv'
<1> DEFINE out  == context.integer_registers
           code == UnaryCode(top.expr)
           c    == WriteCode(GetFreeIntRegister(context), code \o <<ret, out>>)
<1>1. Running /\ calls # <<>>
  BY DEF CompileUnaryOperator, At, Running
<1>2. out \in Bytes /\ ret \in Bytes
  BY <1>1, TopFacts
<1>3. code \in Seq(Bytes)
  BY BytesWithin DEF UnaryCode, OP
<1>4. c \in ContextType
  <2> HIDE DEF code, out
  <2>1. <<ret, out>> \in Seq(Bytes)
    BY <1>2
  <2>2. code \o <<ret, out>> \in Seq(Bytes)
    BY <1>3, <2>1, ConcatProperties
  <2> QED
    BY <1>1, <2>2, TopFacts, GetFreeIntRegisterType, WriteCodeType
<1>5. SetContext(c) /\ Return(out)
  BY DEF CompileUnaryOperator
<1>6. Quiet
  BY DEF CompileUnaryOperator, Quiet, CompilerInv
<1> HIDE DEF c, out
<1>7. Nested /\ ret' \in Bytes
  BY <1>1, <1>2, <1>5, ReturnStep
<1>8. contexts' \in Seq(ContextType) /\ Len(contexts') = Len(contexts)
  BY <1>1, <1>4, <1>5, SetContextStep
<1> QED
  BY <1>6, <1>7, <1>8, QuietStep

\* Code with room for a jump offset is code.
LEMMA HoleType ==
  ASSUME NEW s \in Seq(Bytes)
  PROVE  s \o Hole \in Seq(Bytes)
<1>1. Hole \in Seq(Bytes)
  BY BytesWithin DEF Hole
<1> QED
  BY <1>1, ConcatProperties

LEMMA ThenStep ==
  ASSUME CompilerInv, CompileThen
  PROVE  CompilerInv'
<1> DEFINE n == Len(context.code) + 2
           a == [top EXCEPT !.at = "if_then", !.loc = n]
           c == WriteCode(context, <<OP.JZ, ret>> \o Hole)
<1>1. Running /\ calls # <<>>
  BY DEF CompileThen, At, Running
<1>2. /\ "if_then" \in DOMAIN ExpressionType
      /\ top.expr.type \in ExpressionType["if_then"]
  BY <1>1, TopFacts DEF CompileThen, At, ExpressionType, Placed
<1>3. top.expr.if_then \in Expression
  BY <1>1, <1>2, TopFacts, Subexpressions DEF ExpressionType
<1>4. n \in Nat
  BY <1>1, TopFacts, LenProperties
<1>5. a \in Placed /\ a.context = top.context /\ a.at = "if_then"
  <2> HIDE DEF n
  <2> QED
    BY <1>1, <1>2, <1>4, LabelPlaced, TopFacts DEF ActivationType
<1>6. c \in ContextType
  <2>1. <<OP.JZ, ret>> \in Seq(Bytes)
    BY <1>1, TopFacts, BytesWithin DEF OP
  <2> QED
    BY <1>1, <2>1, TopFacts, HoleType, WriteCodeType
<1>7. SetContext(c) /\ CallFrom(a, top.expr.if_then)
  BY DEF CompileThen
<1>8. Quiet /\ ret' = ret
  BY DEF CompileThen, Quiet, CompilerInv
<1> HIDE DEF a, c
<1>9. Nested
  BY <1>1, <1>3, <1>5, <1>7, CallStep
<1>10. contexts' \in Seq(ContextType) /\ Len(contexts') = Len(contexts)
  BY <1>1, <1>6, <1>7, SetContextStep
<1> QED
  BY <1>1, <1>8, <1>9, <1>10, QuietStep, TopFacts

LEMMA ElseStep ==
  ASSUME CompilerInv, CompileElse
  PROVE  CompilerInv'
<1> DEFINE n == Len(context.code) + 1
           a == [top EXCEPT !.at = "if_else", !.reg = ret, !.loc = n]
           c == PatchJump(WriteCode(context, <<OP.JMP>> \o Hole), top.loc)
<1>1. Running /\ calls # <<>>
  BY DEF CompileElse, At, Running
<1>2. /\ "if_else" \in DOMAIN ExpressionType
      /\ top.expr.type \in ExpressionType["if_else"]
  BY <1>1, TopFacts DEF CompileElse, At, ExpressionType, Placed
<1>3. top.expr.if_else \in Expression
  BY <1>1, <1>2, TopFacts, Subexpressions DEF ExpressionType
<1>4. n \in Nat
  BY <1>1, TopFacts, LenProperties
<1>5. a \in Placed /\ a.context = top.context /\ a.at = "if_else"
  <2> HIDE DEF n
  <2> QED
    BY <1>1, <1>2, <1>4, LabelPlaced, TopFacts DEF ActivationType
<1>6. c \in ContextType
  <2>1. <<OP.JMP>> \in Seq(Bytes) /\ top.loc \in Nat
    BY <1>1, TopFacts, BytesWithin DEF OP, ActivationType
  <2> QED
    BY <1>1, <2>1, TopFacts, HoleType, WriteCodeType, PatchJumpType
<1>7. SetContext(c) /\ CallFrom(a, top.expr.if_else)
  BY DEF CompileElse
<1>8. Quiet /\ ret' = ret
  BY DEF CompileElse, Quiet, CompilerInv
<1> HIDE DEF a, c
<1>9. Nested
  BY <1>1, <1>3, <1>5, <1>7, CallStep
<1>10. contexts' \in Seq(ContextType) /\ Len(contexts') = Len(contexts)
  BY <1>1, <1>6, <1>7, SetContextStep
<1> QED
  BY <1>1, <1>8, <1>9, <1>10, QuietStep, TopFacts

LEMMA EndIfStep ==
  ASSUME CompilerInv, EndIf
  PROVE  CompilerInv'
<1> DEFINE move == IF ret # top.reg THEN <<OP.MOV, ret, top.reg>> ELSE <<>>
           c    == PatchJump(WriteCode(context, move), top.loc)
<1>1. Running /\ calls # <<>>
  BY DEF EndIf, At, Running
<1>2. move \in Seq(Bytes) /\ top.loc \in Nat /\ top.reg \in Bytes
  BY <1>1, TopFacts, BytesWithin DEF OP, ActivationType
<1>3. c \in ContextType
  <2> HIDE DEF move
  <2> QED
    BY <1>1, <1>2, TopFacts, WriteCodeType, PatchJumpType
<1>4. SetContext(c) /\ Return(top.reg)
  BY DEF EndIf
<1>5. Quiet
  BY DEF EndIf, Quiet, CompilerInv
<1> HIDE DEF c
<1>6. Nested /\ ret' \in Bytes
  BY <1>1, <1>2, <1>4, ReturnStep
<1>7. contexts' \in Seq(ContextType) /\ Len(contexts') = Len(contexts)
  BY <1>1, <1>3, <1>4, SetContextStep
<1> QED
  BY <1>5, <1>6, <1>7, QuietStep

\* Tuples.
LEMMA TupleStep ==
  ASSUME CompilerInv, CompileTuple
  PROVE  CompilerInv'
<1> DEFINE len    == context.integer_registers
           loaded == WriteLoadLiteral(context, top.expr.tuple_length)
           out    == loaded.integer_registers
           a      == [top EXCEPT !.at = "member", !.reg = out]
           c      == WriteCode(GetFreeIntRegister(loaded),
                               <<OP.NEW_TUPLE, len, out>>)
<1>1. Running /\ calls # <<>>
  BY DEF CompileTuple, Enter, At, Running
<1>2. /\ "member" \in DOMAIN ExpressionType
      /\ top.expr.type \in ExpressionType["member"]
      /\ top.expr.type = "TUPLE"
  BY DEF CompileTuple, Enter, ExpressionType
<1>3. top.expr.tuple_first \in Expression /\ top.expr.tuple_length \in Nat
  BY <1>1, <1>2, TopFacts, Subexpressions
<1>4. loaded \in ContextType
  BY <1>1, <1>3, TopFacts, WriteLoadLiteralType
<1>5. out \in Bytes /\ len \in Bytes
  <2> HIDE DEF loaded
  <2> QED
    BY <1>1, <1>4, TopFacts DEF ContextType
<1>6. a \in Placed /\ a.context = top.context /\ a.at = "member"
  <2> HIDE DEF out
  <2> QED
    BY <1>1, <1>2, <1>5, LabelPlaced, TopFacts DEF ActivationType
<1>7. c \in ContextType
  <2> HIDE DEF loaded, len, out
  <2>1. <<OP.NEW_TUPLE, len, out>> \in Seq(Bytes)
    BY <1>5, BytesWithin DEF OP
  <2> QED
    BY <1>4, <2>1, GetFreeIntRegisterType, WriteCodeType
<1>8. SetContext(c) /\ CallFrom(a, top.expr.tuple_first)
  BY DEF CompileTuple
<1>9. Quiet /\ ret' = ret
  BY DEF CompileTuple, Quiet, CompilerInv
<1> HIDE DEF a, c
<1>10. Nested
  BY <1>1, <1>3, <1>6, <1>8, CallStep
<1>11. contexts' \in Seq(ContextType) /\ Len(contexts') = Len(contexts)
  BY <1>1, <1>7, <1>8, SetContextStep
<1> QED
  BY <1>1, <1>9, <1>10, <1>11, QuietStep, TopFacts

LEMMA StoreMemberType ==
  ASSUME CompilerInv, calls # <<>>
  PROVE  StoreMember \in ContextType
<1> DEFINE slot == U16(top.i)
<1>1. slot \in Seq(Bytes)
  <2>1. top.i \in Int
    BY TopFacts DEF ActivationType
  <2> QED
    BY <2>1, U16Type
<1> HIDE DEF slot
<1>2. <<OP.STOREA_64, top.reg>> \in Seq(Bytes) /\ <<ret>> \in Seq(Bytes)
  BY TopFacts, BytesWithin DEF OP
<1>3. <<OP.STOREA_64, top.reg>> \o slot \in Seq(Bytes)
  BY <1>1, <1>2, ConcatProperties
<1>4. <<OP.STOREA_64, top.reg>> \o slot \o <<ret>> \in Seq(Bytes)
  BY <1>2, <1>3, ConcatProperties
<1> QED
  BY <1>4, TopFacts, WriteCodeType DEF StoreMember, slot

LEMMA NextMemberStep ==
  ASSUME CompilerInv, NextMember
  PROVE  CompilerInv'
<1> DEFINE a == [top EXCEPT !.i = top.i + 1]
<1>1. Running /\ calls # <<>> /\ top.at = "member"
  BY DEF NextMember, At, Running
<1>2. /\ "member" \in DOMAIN ExpressionType
      /\ top.expr.type \in ExpressionType["member"]
      /\ top.expr.type = "TUPLE"
  BY <1>1, TopFacts DEF ExpressionType, Placed
<1>3. top.expr.tuple_first \in Expression
  BY <1>1, <1>2, TopFacts, Subexpressions
<1>4. a \in Placed /\ a.context = top.context /\ a.at = "member"
  <2>1. top.i + 1 \in Nat
    BY <1>1, TopFacts DEF ActivationType
  <2>2. /\ a \in ActivationType /\ a.expr = top.expr
        /\ a.at = "member" /\ a.context = top.context
    BY <1>1, <2>1, TopFacts DEF ActivationType
  <2> HIDE DEF a
  <2> QED
    BY <1>2, <2>2 DEF Placed
<1>5. SetContext(StoreMember) /\ CallFrom(a, top.expr.tuple_first)
  BY DEF NextMember
<1>6. Quiet /\ ret' = ret
  BY DEF NextMember, Quiet, CompilerInv
<1> HIDE DEF a
<1>7. Nested
  BY <1>1, <1>3, <1>4, <1>5, CallStep
<1>8. contexts' \in Seq(ContextType) /\ Len(contexts') = Len(contexts)
  BY <1>1, <1>5, StoreMemberType, SetContextStep
<1> QED
  BY <1>1, <1>6, <1>7, <1>8, QuietStep, TopFacts

LEMMA EndTupleStep ==
  ASSUME CompilerInv, EndTuple
  PROVE  CompilerInv'
<1>1. Running /\ calls # <<>>
  BY DEF EndTuple, At, Running
<1>2. Nested /\ ret' \in Bytes
  BY <1>1, TopFacts, ReturnStep DEF EndTuple
<1>3. contexts' \in Seq(ContextType) /\ Len(contexts') = Len(contexts)
  BY <1>1, StoreMemberType, SetContextStep DEF EndTuple
<1>4. Quiet
  BY DEF EndTuple, Quiet, CompilerInv
<1> QED
  BY <1>2, <1>3, <1>4, QuietStep

-----------------------------------------------------------------------------
\* The steps that enter and leave a function.
LEMMA BlankType == Blank \in FunctionType
BY BytesWithin DEF Blank, FunctionType, NoFunction

LEMMA LambdaContextType ==
  ASSUME NEW garbage \in Seq(Binding), NEW id \in Symbol \union {INVALID_SYMBOL},
         NEW e \in Expression, e.type = "LAMBDA"
  PROVE  LambdaContext(garbage, id, e) \in ContextType
<1> DEFINE c == GetFreeIntRegister(InitCompileContext(garbage))
           s == IF id # INVALID_SYMBOL THEN PushBinding(c, id, 0) ELSE c
<1>1. c \in ContextType
  BY BlankContextType, GetFreeIntRegisterType
<1>2. s \in ContextType
  <2> HIDE DEF c
  <2> QED
    BY <1>1, PushBindingType, BytesWithin
<1>3. e.lambda_id \in Symbol
  BY Subexpressions
<1>4. LambdaContext(garbage, id, e) =
        PushBinding(GetFreeIntRegister(s), e.lambda_id, 1)
  BY DEF LambdaContext
<1> HIDE DEF s
<1> QED
  BY <1>2, <1>3, <1>4, GetFreeIntRegisterType, PushBindingType, BytesWithin

LEMMA EnterLambdaStep ==
  ASSUME CompilerInv, EnterLambda
  PROVE  CompilerInv'
<1> DEFINE a == [top EXCEPT !.at = "body", !.array = array',
                            !.func_id = Len(functions)]
           b == Activation("enter", top.expr.lambda_body, Len(contexts) + 1)
<1>1. Running /\ calls # <<>> /\ top.at = "lambda"
  BY DEF EnterLambda, At, Running
<1>2. top.expr.type = "LAMBDA"
  BY <1>1, TopFacts DEF Placed, ExpressionType
<1>3. capacity' \in Nat /\ array' \in Nat
  BY DEF EnterLambda, AddFunction, CompilerInv
<1>4. functions' \in Seq(FunctionType) /\ Len(functions) \in Nat
  BY BlankType, AppendProperties, LenProperties
     DEF EnterLambda, AddFunction, CompilerInv
<1>5. a \in Placed /\ a.context = top.context /\ a.at = "body"
  <2>1. /\ a \in ActivationType /\ a.context = top.context /\ a.at = "body"
        /\ a.expr = top.expr
    BY <1>1, <1>3, <1>4, TopFacts DEF ActivationType, ExpressionType
  <2> HIDE DEF a
  <2> QED
    BY <1>2, <2>1 DEF Placed, ExpressionType
<1>6. PICK garbage \in {<<>>} \union (IF Recycled THEN freed ELSE {}) :
        contexts' = Append(contexts,
                           LambdaContext(garbage, top.self_id, top.expr))
  BY DEF EnterLambda
<1>7. contexts' \in Seq(ContextType) /\ Len(contexts') = Len(contexts) + 1
  <2>1. garbage \in Seq(Binding)
    <3>1. <<>> \in Seq(Binding)
      BY EmptySeq
    <3>2. freed \subseteq Seq(Binding)
      BY DEF CompilerInv
    <3> QED
      BY <3>1, <3>2, Zenon
  <2>2. top.self_id \in Symbol \union {INVALID_SYMBOL}
    BY <1>1, TopFacts DEF ActivationType
  <2>3. LambdaContext(garbage, top.self_id, top.expr) \in ContextType
    BY <1>1, <1>2, <2>1, <2>2, TopFacts, LambdaContextType
  <2> QED
    BY <1>6, <2>3, AppendProperties DEF CompilerInv
<1>8. /\ b \in Placed /\ b.at = "enter" /\ b.context = Len(contexts) + 1
      /\ InnerContext(b) = Len(contexts) + 1
  <2>1. top.expr.lambda_body \in Expression
    BY <1>1, <1>2, TopFacts, Subexpressions
  <2>2. Len(contexts) + 1 \in Nat
    BY LenProperties DEF CompilerInv
  <2> QED
    BY <2>1, <2>2, EnterPlaced
<1>9. calls' = Append(Become(a), b)
  BY DEF EnterLambda
<1> HIDE DEF a, b
<1>10. /\ Stack(Become(a)) /\ Become(a) # <<>>
       /\ Depth(Become(a)) = Len(contexts) + 1
  <2>1. a.at = "module" <=> Last(calls).at = "module"
    BY <1>1, <1>5 DEF top
  <2> QED
    BY <1>1, <1>5, <2>1, StackBecome, RunningDepth
       DEF CompilerInv, Become, InnerContext, top
<1>11. Stack(calls') /\ Depth(calls') = Len(contexts) + 1
  BY <1>8, <1>9, <1>10, StackAppend
<1>12. ret \in Bytes /\ UNCHANGED <<program, ret, errors, freed>>
  BY <1>1, TopFacts DEF EnterLambda
<1> QED
  BY <1>3, <1>4, <1>7, <1>11, <1>12 DEF CompilerInv, Stack, Depth

LEMMA WriteResultType ==
  ASSUME CompilerInv, NEW f \in FunctionType, WriteResult(f)
  PROVE  functions' \in Seq(FunctionType)
BY ExceptType DEF CompilerInv, WriteResult

LEMMA FinishLambdaStep ==
  ASSUME CompilerInv, FinishLambda
  PROVE  CompilerInv'
<1> DEFINE child  == Last(contexts)
           result == FinishCompile(child, ret, top.func_id)
           loaded == WriteLoadLiteral(context, top.func_id)
           a == [top EXCEPT !.at = "closed", !.closure = result.closure]
           c == WriteCode(loaded, <<OP.NEW_CLOSURE, context.integer_registers,
                                    top.reg>>)
<1>1. calls # <<>> /\ top.at = "body"
  BY DEF FinishLambda, At
<1>2. top.expr.type = "LAMBDA" /\ top.func_id \in Nat
  BY <1>1, TopFacts DEF Placed, ActivationType, ExpressionType
<1>3. /\ Len(contexts) = top.context + 1 /\ top.context \in Nat \ {0}
      /\ Len(contexts) \in 1 .. Len(contexts)
  BY <1>1, StackTop DEF CompilerInv, InnerContext, top
<1>4. child \in ContextType
  BY <1>3, ElementOfSeq DEF CompilerInv, Last
<1>5. result \in FunctionType /\ result.closure \in Seq(Symbol)
  <2> HIDE DEF child
  <2> QED
    BY <1>1, <1>2, <1>4, TopFacts, FinishCompileType
<1>6. functions' \in Seq(FunctionType)
  <2> HIDE DEF result
  <2>1. WriteResult(result)
    BY DEF FinishLambda, result
  <2> QED
    BY <1>5, <2>1, WriteResultType
<1>7. c \in ContextType
  <2>1. loaded \in ContextType
    BY <1>1, <1>2, TopFacts, WriteLoadLiteralType
  <2>2. <<OP.NEW_CLOSURE, context.integer_registers, top.reg>> \in Seq(Bytes)
    BY <1>1, TopFacts, BytesWithin DEF OP
  <2> HIDE DEF loaded
  <2> QED
    BY <2>1, <2>2, WriteCodeType
<1>8. contexts' = [Front(contexts) EXCEPT ![top.context] = c]
  BY DEF FinishLambda
<1> HIDE DEF c
<1>9. contexts' \in Seq(ContextType) /\ Len(contexts') = top.context
  <2>1. \A i \in 1 .. top.context : contexts[i] \in ContextType
    BY <1>3, ElementOfSeq DEF CompilerInv
  <2>2. Front(contexts) = SubSeq(contexts, 1, top.context)
    BY <1>3 DEF Front
  <2>3. 1 \in Int /\ top.context \in Int
    BY <1>3
  <2>4. /\ SubSeq(contexts, 1, top.context) \in Seq(ContextType)
        /\ Len(SubSeq(contexts, 1, top.context)) =
             IF 1 <= top.context THEN top.context - 1 + 1 ELSE 0
    BY <2>1, <2>3, SubSeqProperties
  <2>5. Front(contexts) \in Seq(ContextType) /\ Len(Front(contexts)) = top.context
    BY <1>3, <2>2, <2>4
  <2> QED
    BY <1>3, <1>7, <1>8, <2>5, ExceptSeq
<1>10. a \in Placed /\ a.context = top.context /\ a.at = "closed"
  <2> HIDE DEF result
  <2>1. /\ a \in ActivationType /\ a.context = top.context /\ a.at = "closed"
        /\ a.expr = top.expr
    BY <1>1, <1>5, TopFacts DEF ActivationType, ExpressionType
  <2> HIDE DEF a
  <2> QED
    BY <1>2, <2>1 DEF Placed, ExpressionType
<1>11. calls' = Become(a)
  BY DEF FinishLambda
<1> HIDE DEF a
<1>12. Stack(calls') /\ calls' # <<>> /\ Depth(calls') = top.context
  <2>1. a.at = "module" <=> Last(calls).at = "module"
    BY <1>1, <1>10 DEF top
  <2> QED
    BY <1>1, <1>10, <1>11, <2>1, StackBecome
       DEF CompilerInv, Become, InnerContext, top
<1>13. freed' \in SUBSET Seq(Binding)
  <2>1. child.bindings \in Seq(Binding)
    BY <1>4 DEF ContextType
  <2> QED
    BY <2>1 DEF FinishLambda, CompilerInv
<1>14. ret \in Bytes /\ UNCHANGED <<program, capacity, array, ret, errors>>
  BY <1>1, TopFacts DEF FinishLambda
<1> QED
  BY <1>6, <1>9, <1>12, <1>13, <1>14 DEF CompilerInv, Stack, Depth

LEMMA FinishModuleStep ==
  ASSUME CompilerInv, FinishModule
  PROVE  CompilerInv'
<1>1. calls # <<>> /\ top.at = "module"
  BY DEF FinishModule, At
<1>2. top.func_id \in Nat
  BY <1>1, TopFacts DEF ActivationType
<1>3. functions' \in Seq(FunctionType)
  <2> DEFINE f == FinishCompile(context, ret, top.func_id)
  <2>1. f \in FunctionType
    BY <1>1, <1>2, TopFacts, FinishCompileType
  <2>2. WriteResult(f)
    BY DEF FinishModule
  <2> HIDE DEF f
  <2> QED
    BY <2>1, <2>2, WriteResultType
<1>4. Stack(calls') /\ calls' = <<>>
  BY <1>1, StackFront DEF CompilerInv, FinishModule, Return, top
<1>5. contexts' \in Seq(ContextType) /\ Len(contexts') = Depth(calls')
  BY <1>4, EmptySeq DEF FinishModule, Depth
<1>6. freed' \in SUBSET Seq(Binding)
  BY <1>1, TopFacts DEF FinishModule, CompilerInv
<1>7. ret' \in Nat /\ UNCHANGED <<program, capacity, array, errors>>
  BY <1>2 DEF FinishModule, Return
<1> QED
  BY <1>3, <1>4, <1>5, <1>6, <1>7 DEF CompilerInv, Stack, Depth

-----------------------------------------------------------------------------
\* The invariant holds at the start and every step keeps it.
LEMMA CompilerInit == Init => CompilerInv
<1> SUFFICES ASSUME Init
             PROVE  CompilerInv
  OBVIOUS
<1> DEFINE m == [Activation("module", program, 1) EXCEPT !.array = 1]
           b == Activation("enter", program, 1)
<1>1. program \in Expression /\ program \in Programs
  BY CompilerAssumption DEF Init
<1>2. b \in Placed /\ b.at = "enter" /\ b.context = 1 /\ InnerContext(b) = 1
  BY <1>1, EnterPlaced
<1>3. m \in Placed /\ m.at = "module" /\ m.context = 1 /\ InnerContext(m) = 1
  <2>1. <<>> \in Seq(Symbol) /\ 0 \in Bytes
    BY BytesWithin
  <2>2. m \in ActivationType /\ m.at = "module" /\ m.context = 1
    BY <1>1, <2>1 DEF Activation, ActivationType
  <2> HIDE DEF m
  <2> QED
    BY <2>2 DEF Placed, ExpressionType, InnerContext
<1>4. calls = <<m, b>>
  BY DEF Init
<1> HIDE DEF m, b
<1>5. calls \in Seq(Placed) /\ Len(calls) = 2 /\ calls[1] = m /\ calls[2] = b
  BY <1>2, <1>3, <1>4
<1>6. Stack(calls) /\ calls # <<>> /\ Depth(calls) = 1
  BY <1>2, <1>3, <1>5 DEF Stack, Depth, Last
<1>7. contexts \in Seq(ContextType) /\ Len(contexts) = 1
  <2>1. InitCompileContext(<<>>) \in ContextType
    BY EmptySeq, BlankContextType
  <2> QED
    BY <2>1 DEF Init
<1>8. functions \in Seq(FunctionType)
  BY BlankType DEF Init
<1>9. capacity \in Nat /\ array \in Nat /\ ret \in Bytes /\ ret \in Nat
      /\ errors \in Nat /\ freed \in SUBSET Seq(Binding)
  BY CompilerAssumption, BytesWithin DEF Init
<1> QED
  BY <1>1, <1>6, <1>7, <1>8, <1>9 DEF CompilerInv

LEMMA CompilerStep == CompilerInv /\ [CompileNext]_vars => CompilerInv'
<1> SUFFICES ASSUME CompilerInv, [CompileNext]_vars
             PROVE  CompilerInv'
  OBVIOUS
<1>1. CASE UNCHANGED vars
  BY <1>1 DEF vars, CompilerInv, Stack, Depth
<1>2. CASE CompileNext
  BY <1>2, LiteralStep, IdentifierStep, LambdaStep, EnterLambdaStep,
     FinishLambdaStep, CloseVariableStep, ReturnClosureStep, LetStep,
     BindLetStep, EndLetStep, RejectLetRecStep, LetRecStep, LetRecBodyStep,
     FirstStep, SecondStep, OperatorStep, UnaryStep, UnaryOperatorStep,
     IfStep, ThenStep, ElseStep, EndIfStep, TupleStep, NextMemberStep,
     EndTupleStep, FinishModuleStep
     DEF CompileNext
<1> QED
  BY <1>1, <1>2

\* CompilerInv holds in every state of the compiler.
THEOREM CompilerInvariant == CompileSpec => []CompilerInv
BY CompilerInit, CompilerStep, PTL DEF CompileSpec

\* Every register, opcode and operand the compiler writes or holds fits the
\* uint8_t it is kept in, and a compile function goes on with the expression
\* it was called for (_CompileExpression and the functions it dispatches to).
THEOREM TypeCorrect == CompileSpec => []TypeOK
BY CompilerInvariant, InvariantSuffices, PTL

\* The contexts are those of the activations that are running, innermost
\* last: no compile function writes to a context that its caller has not
\* set up, or that _CompileLambdaImpl has already finished and freed.
THEOREM ContextsAlwaysNest == CompileSpec => []ContextsNest
BY CompilerInvariant, InvariantSuffices, PTL

-----------------------------------------------------------------------------
(***************************************************************************)
(* Every function is written in the end.  While it is not, the activation  *)
(* that will write it is on the stack, and points into the functions array *)
(* that is there: as long as realloc has not moved it.                     *)
(***************************************************************************)
\* An activation that has a function to write: CompileExpression, or
\* _CompileLambdaImpl once it has added its function.
Writes(a) == a.at \in {"module", "body"}

\* Each function is written, or has the activation that will write it; and the
\* pointer of every one of those is into the array.
Pending ==
  /\ \A id \in DOMAIN functions :
       \/ FunctionWritten(id)
       \/ \E j \in DOMAIN calls : Writes(calls[j]) /\ calls[j].func_id + 1 = id
  /\ \A j \in DOMAIN calls :
       Writes(calls[j]) => calls[j].array = array /\ calls[j].func_id < Len(functions)

\* The array is where it was allocated, or realloc has moved it.
ModuleInv == array > 0 /\ (array = 1 => Pending)

\* The stack t has the activations of s that will write a function, and only
\* those.
SameWriters(s, t) ==
  /\ \A j \in DOMAIN s : Writes(s[j]) => j \in DOMAIN t /\ t[j] = s[j]
  /\ \A j \in DOMAIN t : Writes(t[j]) => j \in DOMAIN s /\ t[j] = s[j]

\* The running activation, which writes nothing, returns, moves or calls.
LEMMA WritersStay ==
  ASSUME CompilerInv, Running, NEW a, ~Writes(a), NEW b, ~Writes(b)
  PROVE  /\ SameWriters(calls, Front(calls))
         /\ SameWriters(calls, Become(a))
         /\ SameWriters(calls, Append(Become(a), b))
<1> DEFINE n == Len(calls)
           S == ActivationType \union {a, b}
<1>1. /\ calls \in Seq(S) /\ n \in Nat /\ n > 0 /\ DOMAIN calls = 1 .. n
      /\ ~Writes(calls[n])
  <2>1. TypeOK
    BY InvariantSuffices
  <2>2. calls \in Seq(S) /\ calls # <<>>
    BY <2>1, SeqMonotonic DEF TypeOK, Running
  <2>3. n \in Nat /\ n > 0 /\ DOMAIN calls = 1 .. n
    BY <2>2, EmptySeq, LenProperties
  <2> QED
    BY <2>2, <2>3 DEF Running, top, Last, Writes
<1>2. n = Len(calls)
  OBVIOUS
<1>3. a \in S /\ b \in S
  OBVIOUS
<1> HIDE DEF n, S
<1>4. SameWriters(calls, Front(calls))
  <2>1. /\ DOMAIN Front(calls) = 1 .. n - 1
        /\ \A j \in 1 .. n - 1 : Front(calls)[j] = calls[j]
    BY <1>2, <1>1, SubSeqProperties DEF Front
  <2>2. \A j \in 1 .. n : j \in 1 .. n - 1 \/ j = n
    BY <1>1
  <2> QED
    BY <1>1, <2>1, <2>2 DEF SameWriters
<1>5. /\ Become(a) \in Seq(S) /\ Len(Become(a)) = n
      /\ DOMAIN Become(a) = 1 .. n
      /\ \A j \in 1 .. n : Become(a)[j] = IF j = n THEN a ELSE calls[j]
  <2>1. Become(a) \in [1 .. n -> S]
        /\ \A j \in 1 .. n : Become(a)[j] = IF j = n THEN a ELSE calls[j]
    BY <1>2, <1>1, <1>3 DEF Become
  <2>2. Become(a) \in Seq(S)
    BY <1>1, <2>1, SeqDef
  <2>3. DOMAIN Become(a) = 1 .. n
    BY <2>1
  <2>4. Len(Become(a)) = n
    BY <1>1, <2>2, <2>3, LenProperties
  <2> QED
    BY <2>1, <2>2, <2>3, <2>4
<1>6. SameWriters(calls, Become(a))
  BY <1>1, <1>5 DEF SameWriters
<1>7. SameWriters(calls, Append(Become(a), b))
  <2> DEFINE s == Become(a)
             t == Append(s, b)
  <2>1. /\ DOMAIN t = 1 .. n + 1 /\ t[n + 1] = b
        /\ \A j \in 1 .. n : t[j] = s[j]
    BY <1>1, <1>5, <1>3, AppendProperties, LenProperties
  <2>2. \A j \in 1 .. n + 1 : j \in 1 .. n \/ j = n + 1
    BY <1>1
  <2> HIDE DEF t
  <2>3. \A j \in 1 .. n : j \in 1 .. n + 1
    BY <1>1
  <2>4. SameWriters(calls, t)
    BY <1>1, <1>5, <2>1, <2>2, <2>3 DEF SameWriters
  <2> QED
    BY <2>4 DEF t
<1> QED
  BY <1>4, <1>6, <1>7

LEMMA PendingStays ==
  ASSUME ModuleInv, functions' = functions, array' = array, SameWriters(calls, calls')
  PROVE  ModuleInv'
<1> USE DEF ModuleInv
<1>1. ASSUME array = 1 PROVE Pending'
  BY <1>1 DEF Pending, SameWriters, FunctionWritten
<1> QED
  BY <1>1

\* A compile function that has no function to write returns.
LEMMA ReturnWrites ==
  ASSUME CompilerInv, ModuleInv, Running, NEW r, Return(r),
         UNCHANGED <<functions, array>>
  PROVE  ModuleInv'
<1>1. SameWriters(calls, Front(calls))
  <2> DEFINE a == [at |-> "enter"]
  <2>1. ~Writes(a)
    BY DEF Writes
  <2> QED
    BY <2>1, WritersStay
<1> QED
  BY <1>1, PendingStays DEF Return

LEMMA BecomeWrites ==
  ASSUME CompilerInv, ModuleInv, Running, NEW a, a.at \notin {"module", "body"},
         calls' = Become(a), UNCHANGED <<functions, array>>
  PROVE  ModuleInv'
BY WritersStay, PendingStays DEF Writes

LEMMA CallWrites ==
  ASSUME CompilerInv, ModuleInv, Running, NEW a, a.at \notin {"module", "body"},
         NEW e, CallFrom(a, e), UNCHANGED <<functions, array>>
  PROVE  ModuleInv'
<1> DEFINE b == Activation("enter", e, a.context)
<1>1. b.at = "enter" /\ calls' = Append(Become(a), b)
  BY DEF Activation, CallFrom
<1> HIDE DEF b
<1>2. ~Writes(a) /\ ~Writes(b)
  BY <1>1 DEF Writes
<1> QED
  BY <1>1, <1>2, WritersStay, PendingStays

LEMMA ReturningWrites ==
  ASSUME CompilerInv, ModuleInv,
         \/ CompileLiteral \/ CompileIdentifier \/ ReturnClosure \/ EndLet \/ RejectLetRec
         \/ CompileOperator \/ CompileUnaryOperator \/ EndIf \/ EndTuple
  PROVE  ModuleInv'
<1>1. Running /\ UNCHANGED <<functions, array>> /\ \E r : Return(r)
  BY DEF CompileLiteral, CompileIdentifier, ReturnClosure, EndLet, RejectLetRec,
         CompileOperator, CompileUnaryOperator, EndIf, EndTuple, Enter, At, Running
<1> QED
  BY <1>1, ReturnWrites

LEMMA MovingWrites ==
  ASSUME CompilerInv, ModuleInv, CompileLambda \/ CloseVariable
  PROVE  ModuleInv'
<1>1. calls # <<>> /\ top.at \notin {"module", "body"} /\ UNCHANGED <<functions, array>>
  BY DEF CompileLambda, CloseVariable, Enter, At
<1>2. top \in ActivationType
  BY <1>1, TopFacts
<1>3. CASE CompileLambda
  <2> DEFINE a == [top EXCEPT !.at = "lambda", !.reg = context.integer_registers]
  <2>1. a.at = "lambda"
    BY <1>2 DEF ActivationType
  <2>2. calls' = Become(a)
    BY <1>3 DEF CompileLambda
  <2> HIDE DEF a
  <2> QED
    BY <1>1, <2>1, <2>2, BecomeWrites DEF Running
<1>4. CASE CloseVariable
  <2> DEFINE a == [top EXCEPT !.i = @ + 1]
  <2>1. a.at = top.at
    BY <1>2 DEF ActivationType
  <2>2. calls' = Become(a)
    BY <1>4 DEF CloseVariable
  <2> HIDE DEF a
  <2> QED
    BY <1>1, <2>1, <2>2, BecomeWrites DEF Running
<1> QED
  BY <1>3, <1>4

LEMMA CallingWrites ==
  ASSUME CompilerInv, ModuleInv,
         \/ CompileLet \/ BindLet \/ LetRecBody
         \/ CompileFirst \/ CompileSecond \/ CompileUnary
         \/ CompileIf \/ CompileThen \/ CompileElse \/ CompileTuple \/ NextMember
  PROVE  ModuleInv'
<1>1. /\ calls # <<>> /\ top.at \notin {"module", "body"}
      /\ UNCHANGED <<functions, array>>
  BY DEF CompileLet, BindLet, LetRecBody, CompileFirst, CompileSecond, CompileUnary,
         CompileIf, CompileThen, CompileElse, CompileTuple, NextMember, Enter, At
<1>2. top \in ActivationType
  BY <1>1, TopFacts
<1>3. CASE CompileLet
  <2> DEFINE a == [top EXCEPT !.at = "let_value"]
  <2>1. a.at = "let_value"
    BY <1>2 DEF ActivationType
  <2>2. CallFrom(a, top.expr.let_value)
    BY <1>3 DEF CompileLet
  <2> HIDE DEF a
  <2> QED
    BY <1>1, <2>1, <2>2, CallWrites DEF Running
<1>4. CASE BindLet
  <2> DEFINE a == [top EXCEPT !.at = "let_body"]
  <2>1. a.at = "let_body"
    BY <1>2 DEF ActivationType
  <2>2. CallFrom(a, top.expr.let_body)
    BY <1>4 DEF BindLet
  <2> HIDE DEF a
  <2> QED
    BY <1>1, <2>1, <2>2, CallWrites DEF Running
<1>5. CASE LetRecBody
  <2> DEFINE a == [top EXCEPT !.at = "let_body"]
  <2>1. a.at = "let_body"
    BY <1>2 DEF ActivationType
  <2>2. CallFrom(a, top.expr.let_body)
    BY <1>5 DEF LetRecBody
  <2> HIDE DEF a
  <2> QED
    BY <1>1, <2>1, <2>2, CallWrites DEF Running
<1>6. CASE CompileFirst
  <2> DEFINE a == [top EXCEPT !.at = "first"]
  <2>1. a.at = "first"
    BY <1>2 DEF ActivationType
  <2>2. CallFrom(a, FirstOperand(top.expr))
    BY <1>6 DEF CompileFirst
  <2> HIDE DEF a
  <2> QED
    BY <1>1, <2>1, <2>2, CallWrites DEF Running
<1>7. CASE CompileSecond
  <2> DEFINE a == [top EXCEPT !.at = "second", !.reg = ret]
  <2>1. a.at = "second"
    BY <1>2 DEF ActivationType
  <2>2. CallFrom(a, SecondOperand(top.expr))
    BY <1>7 DEF CompileSecond
  <2> HIDE DEF a
  <2> QED
    BY <1>1, <2>1, <2>2, CallWrites DEF Running
<1>8. CASE CompileUnary
  <2> DEFINE a == [top EXCEPT !.at = "operand"]
  <2>1. a.at = "operand"
    BY <1>2 DEF ActivationType
  <2>2. CallFrom(a, top.expr.unary_arg)
    BY <1>8 DEF CompileUnary
  <2> HIDE DEF a
  <2> QED
    BY <1>1, <2>1, <2>2, CallWrites DEF Running
<1>9. CASE CompileIf
  <2> DEFINE a == [top EXCEPT !.at = "if_test"]
  <2>1. a.at = "if_test"
    BY <1>2 DEF ActivationType
  <2>2. CallFrom(a, top.expr.if_test)
    BY <1>9 DEF CompileIf
  <2> HIDE DEF a
  <2> QED
    BY <1>1, <2>1, <2>2, CallWrites DEF Running
<1>10. CASE CompileThen
  <2> DEFINE a == [top EXCEPT !.at = "if_then", !.loc = Len(context.code) + 2]
  <2>1. a.at = "if_then"
    BY <1>2 DEF ActivationType
  <2>2. CallFrom(a, top.expr.if_then)
    BY <1>10 DEF CompileThen
  <2> HIDE DEF a
  <2> QED
    BY <1>1, <2>1, <2>2, CallWrites DEF Running
<1>11. CASE CompileElse
  <2> DEFINE a == [top EXCEPT !.at = "if_else", !.reg = ret,
                               !.loc = Len(context.code) + 1]
  <2>1. a.at = "if_else"
    BY <1>2 DEF ActivationType
  <2>2. CallFrom(a, top.expr.if_else)
    BY <1>11 DEF CompileElse
  <2> HIDE DEF a
  <2> QED
    BY <1>1, <2>1, <2>2, CallWrites DEF Running
<1>12. CASE CompileTuple
  <2> DEFINE out == WriteLoadLiteral(context, top.expr.tuple_length).integer_registers
             a == [top EXCEPT !.at = "member", !.reg = out]
  <2>1. a.at = "member"
    BY <1>2 DEF ActivationType
  <2>2. CallFrom(a, top.expr.tuple_first)
    BY <1>12 DEF CompileTuple
  <2> HIDE DEF a
  <2> QED
    BY <1>1, <2>1, <2>2, CallWrites DEF Running
<1>13. CASE NextMember
  <2> DEFINE a == [top EXCEPT !.i = @ + 1]
  <2>1. a.at = top.at
    BY <1>2 DEF ActivationType
  <2>2. CallFrom(a, top.expr.tuple_first)
    BY <1>13 DEF NextMember
  <2> HIDE DEF a
  <2> QED
    BY <1>1, <2>1, <2>2, CallWrites DEF Running
<1> QED
  BY <1>3, <1>4, <1>5, <1>6, <1>7, <1>8, <1>9, <1>10, <1>11, <1>12, <1>13

LEMMA LetRecWrites ==
  ASSUME CompilerInv, ModuleInv, CompileLetRec
  PROVE  ModuleInv'
<1> DEFINE a == [top EXCEPT !.at = "rec_value"]
           bare == Activation("lambda", top.expr.let_value, top.context)
           b == [bare EXCEPT !.self_id = top.expr.let_id, !.reg = context.integer_registers]
<1>1. /\ calls # <<>> /\ top.at \notin {"module", "body"} /\ UNCHANGED <<functions, array>>
      /\ calls' = Append(Become(a), b)
  BY DEF CompileLetRec, Enter, At
<1>2. top \in ActivationType
  BY <1>1, TopFacts
<1>3. a.at = "rec_value" /\ b.at = "lambda"
  BY <1>2 DEF ActivationType, Activation
<1> HIDE DEF a, b
<1>4. ~Writes(a) /\ ~Writes(b)
  BY <1>3 DEF Writes
<1> QED
  BY <1>1, <1>4, WritersStay, PendingStays DEF Running

\* The running activation writes its function, and has no more to write.
LEMMA FunctionIsWritten ==
  ASSUME CompilerInv, ModuleInv, calls # <<>>, Writes(top), UNCHANGED array,
         NEW f, WriteResult(f), f.code # <<>>,
         f.static_closure = IF f.closure = <<>> THEN top.func_id ELSE NoFunction,
         \A j \in DOMAIN calls :
           j # Len(calls) => j \in DOMAIN calls' /\ calls'[j] = calls[j],
         \A j \in DOMAIN calls' :
           Writes(calls'[j]) => j \in DOMAIN calls /\ calls'[j] = calls[j]
  PROVE  ModuleInv'
<1>1. /\ functions \in Seq(FunctionType) /\ DOMAIN functions = 1 .. Len(functions)
      /\ Len(functions) \in Nat /\ Len(calls) \in DOMAIN calls /\ top.func_id \in Nat
      /\ top = calls[Len(calls)]
  <2>1. functions \in Seq(FunctionType) /\ calls \in Seq(ActivationType)
    BY InvariantSuffices DEF TypeOK
  <2>2. Len(calls) \in DOMAIN calls
    BY <2>1, EmptySeq, LenProperties
  <2> QED
    BY <2>1, <2>2, TopFacts, LenProperties DEF ActivationType, top, Last
<1>2. ASSUME array = 1 PROVE Pending'
  <2>1. top.array = array /\ top.func_id < Len(functions) /\ Pending
    BY <1>1, <1>2 DEF ModuleInv, Pending
  <2> PICK k \in Nat : k = top.func_id + 1
    BY <1>1
  <2>2. functions' = [functions EXCEPT ![k] = f]
    BY <2>1 DEF WriteResult
  <2>3. /\ k \in 1 .. Len(functions) /\ k - 1 = top.func_id
        /\ functions' \in [1 .. Len(functions) -> FunctionType \union {f}]
    BY <1>1, <2>1, <2>2, LenProperties
  <2>4. DOMAIN functions' = 1 .. Len(functions) /\ Len(functions') = Len(functions)
    BY <1>1, <2>3
  <2>5. /\ functions'[k] = f
        /\ \A id \in 1 .. Len(functions) : id # k => functions'[id] = functions[id]
    BY <1>1, <2>2, <2>3
  <2>6. FunctionWritten(k)'
    BY <2>3, <2>5 DEF FunctionWritten
  <2>7. ASSUME NEW id \in DOMAIN functions'
        PROVE  \/ FunctionWritten(id)'
               \/ \E j \in DOMAIN calls' : Writes(calls'[j]) /\ calls'[j].func_id + 1 = id
    <3>1. CASE id = k
      BY <2>6, <3>1
    <3>2. CASE id # k
      <4>1. CASE FunctionWritten(id)
        BY <2>4, <2>5, <3>2, <4>1 DEF FunctionWritten
      <4>2. ASSUME NEW j \in DOMAIN calls, Writes(calls[j]), calls[j].func_id + 1 = id
            PROVE  j \in DOMAIN calls' /\ calls'[j] = calls[j]
        BY <1>1, <3>2, <4>2
      <4> QED
        BY <1>1, <2>1, <2>4, <4>1, <4>2 DEF Pending
    <3> QED
      BY <3>1, <3>2
  <2>8. ASSUME NEW j \in DOMAIN calls', Writes(calls'[j])
        PROVE  calls'[j].array = array' /\ calls'[j].func_id < Len(functions')
    BY <2>1, <2>4, <2>8 DEF Pending
  <2> QED
    BY <2>7, <2>8 DEF Pending
<1> QED
  BY <1>2 DEF ModuleInv

\* What _FinishCompile writes.
LEMMA FinishedFunction ==
  ASSUME NEW c \in ContextType, NEW r, NEW id
  PROVE  LET f == FinishCompile(c, r, id)
         IN /\ f.code # <<>>
            /\ f.static_closure = IF f.closure = <<>> THEN id ELSE NoFunction
<1> DEFINE code == Append(c.code, OP.RET)
           f == FinishCompile(c, r, id)
<1>1. code # <<>>
  <2> DEFINE S == Bytes \union {OP.RET}
  <2>1. c.code \in Seq(S) /\ OP.RET \in S
    BY SeqMonotonic DEF ContextType
  <2> HIDE DEF S
  <2> QED
    BY <2>1, AppendProperties
<1>2. /\ f.code = code /\ f.closure = c.closure_symbols
      /\ f.static_closure = IF c.closure_symbols = <<>> THEN id ELSE NoFunction
  BY DEF FinishCompile
<1> HIDE DEF f, code
<1>3. /\ f.code # <<>>
      /\ f.static_closure = IF f.closure = <<>> THEN id ELSE NoFunction
  BY <1>1, <1>2
<1> QED
  BY <1>3 DEF f

LEMMA FinishLambdaWrites ==
  ASSUME CompilerInv, ModuleInv, FinishLambda
  PROVE  ModuleInv'
<1> DEFINE f == FinishCompile(Last(contexts), ret, top.func_id)
           a == [top EXCEPT !.at = "closed", !.closure = f.closure]
<1>1. /\ calls # <<>> /\ top.at = "body" /\ WriteResult(f) /\ UNCHANGED array
      /\ calls' = Become(a)
  BY DEF FinishLambda, At
<1>2. Last(contexts) \in ContextType
  <2>1. contexts \in Seq(ContextType) /\ contexts # <<>>
    BY <1>1, TopFacts, InvariantSuffices DEF TypeOK
  <2>2. Len(contexts) \in 1 .. Len(contexts)
    BY <2>1, EmptySeq, LenProperties
  <2> QED
    BY <2>1, <2>2, ElementOfSeq DEF Last
<1>3. top \in ActivationType
  BY <1>1, TopFacts
<1>4. a.at = "closed"
  BY <1>3 DEF ActivationType
<1>5. /\ f.code # <<>>
      /\ f.static_closure = IF f.closure = <<>> THEN top.func_id ELSE NoFunction
  BY <1>2, FinishedFunction
<1> HIDE DEF a, f
<1>6. /\ DOMAIN calls' = DOMAIN calls
      /\ \A j \in DOMAIN calls : calls'[j] = IF j = Len(calls) THEN a ELSE calls[j]
  BY <1>1 DEF Become
<1>7. Writes(top) /\ ~Writes(a)
  BY <1>1, <1>4 DEF Writes
<1> QED
  BY <1>1, <1>5, <1>6, <1>7, FunctionIsWritten

LEMMA FinishModuleWrites ==
  ASSUME CompilerInv, ModuleInv, FinishModule
  PROVE  ModuleInv'
<1> DEFINE f == FinishCompile(context, ret, top.func_id)
<1>1. calls # <<>> /\ top.at = "module" /\ WriteResult(f) /\ UNCHANGED array
  BY DEF FinishModule, At
<1>2. calls' = <<>> /\ Len(calls) = 1
  <2>1. calls \in Seq(ActivationType) /\ ContextsNest
    BY InvariantSuffices DEF TypeOK
  <2>2. Len(calls) \in DOMAIN calls
    BY <1>1, <2>1, EmptySeq, LenProperties
  <2>3. Len(calls) = 1
    BY <1>1, <2>1, <2>2 DEF ContextsNest, top, Last
  <2>4. calls' = Front(calls)
    BY DEF FinishModule, Return
  <2>5. SubSeq(calls, 1, 0) \in Seq(ActivationType) /\ Len(SubSeq(calls, 1, 0)) = 0
    BY <2>1, <2>3, SubSeqProperties
  <2> QED
    BY <2>3, <2>4, <2>5, EmptySeq DEF Front
<1>3. /\ f.code # <<>>
      /\ f.static_closure = IF f.closure = <<>> THEN top.func_id ELSE NoFunction
  BY <1>1, TopFacts, FinishedFunction
<1> HIDE DEF f
<1>4. DOMAIN calls = 1 .. 1 /\ DOMAIN calls' = {}
  <2>1. calls \in Seq(ActivationType)
    BY InvariantSuffices DEF TypeOK
  <2> QED
    BY <1>2, <2>1, EmptySeq, LenProperties
<1>5. Writes(top)
  BY <1>1 DEF Writes
<1> QED
  BY <1>1, <1>2, <1>3, <1>4, <1>5, FunctionIsWritten

LEMMA EnterLambdaWrites ==
  ASSUME CompilerInv, ModuleInv, EnterLambda
  PROVE  ModuleInv'
<1> DEFINE n == Len(calls)
           m == Len(functions)
           a == [top EXCEPT !.at = "body", !.array = array', !.func_id = m]
           b == Activation("enter", top.expr.lambda_body, Len(contexts) + 1)
<1>1. /\ calls # <<>> /\ top.at = "lambda" /\ functions' = Append(functions, Blank)
      /\ calls' = Append(Become(a), b) /\ array' \in {array, array + 1}
  BY DEF EnterLambda, At, AddFunction
<1>2. /\ functions \in Seq(FunctionType) /\ calls \in Seq(ActivationType) /\ array \in Nat
      /\ top \in ActivationType
  BY <1>1, TopFacts, InvariantSuffices DEF TypeOK
<1>3. /\ a.at = "body" /\ a.array = array' /\ a.func_id = m /\ b.at = "enter"
  BY <1>2 DEF ActivationType, Activation
<1>4. /\ n \in Nat /\ n > 0 /\ DOMAIN calls = 1 .. n /\ ~Writes(calls[n])
      /\ m \in Nat /\ DOMAIN functions = 1 .. m
  <2>1. n \in Nat /\ n > 0 /\ DOMAIN calls = 1 .. n
    BY <1>1, <1>2, EmptySeq, LenProperties
  <2>2. ~Writes(calls[n])
    BY <1>1 DEF top, Last, Writes
  <2> QED
    BY <1>2, <2>1, <2>2, LenProperties
<1>5. /\ DOMAIN functions' = 1 .. m + 1 /\ Len(functions') = m + 1
      /\ \A id \in 1 .. m : functions'[id] = functions[id]
  <2> DEFINE S == FunctionType \union {Blank}
  <2>1. functions \in Seq(S) /\ Blank \in S
    BY <1>2, SeqMonotonic
  <2> HIDE DEF S
  <2> QED
    BY <1>1, <2>1, AppendProperties, LenProperties
<1>6. array = 1 \/ array' # 1
  BY <1>1, <1>2 DEF ModuleInv
<1>7. n = Len(calls)
  OBVIOUS
<1> HIDE DEF a, b, m, n
<1>8. /\ DOMAIN calls' = 1 .. n + 1
      /\ \A j \in 1 .. n - 1 : calls'[j] = calls[j]
      /\ calls'[n] = a /\ calls'[n + 1] = b
  <2> DEFINE S == ActivationType \union {a, b}
             s == Become(a)
  <2>1. calls \in Seq(S) /\ a \in S /\ b \in S
    BY <1>2, SeqMonotonic
  <2> HIDE DEF S
  <2>2. s \in Seq(S) /\ DOMAIN s = 1 .. n /\ Len(s) = n
        /\ \A j \in 1 .. n : s[j] = IF j = n THEN a ELSE calls[j]
    <3>1. s \in [1 .. n -> S] /\ \A j \in 1 .. n : s[j] = IF j = n THEN a ELSE calls[j]
      BY <1>4, <1>7, <2>1, LenProperties DEF Become
    <3>2. s \in Seq(S)
      BY <1>4, <3>1, SeqDef
    <3>3. DOMAIN s = 1 .. n
      BY <3>1
    <3> HIDE DEF s
    <3>4. Len(s) = n
      BY <1>4, <3>2, <3>3, LenProperties
    <3> QED
      BY <3>1, <3>2, <3>3, <3>4
  <2> HIDE DEF s
  <2>3. calls' = Append(s, b)
    BY <1>1 DEF s
  <2>4. /\ Len(calls') = n + 1 /\ calls' \in Seq(S) /\ calls'[n + 1] = b
        /\ \A j \in 1 .. n : calls'[j] = s[j]
    BY <1>4, <2>1, <2>2, <2>3, AppendProperties
  <2>5. DOMAIN calls' = 1 .. n + 1
    BY <2>4, LenProperties
  <2>6. n \in 1 .. n /\ \A j \in 1 .. n - 1 : j \in 1 .. n /\ j # n
    BY <1>4
  <2> QED
    BY <2>2, <2>4, <2>5, <2>6
<1>9. ASSUME array' = 1 PROVE Pending'
  <2>1. array = 1 /\ Pending
    BY <1>6, <1>9 DEF ModuleInv
  <2>2. /\ \A j \in 1 .. n : j \in 1 .. n - 1 \/ j = n
        /\ \A j \in 1 .. n + 1 : j \in 1 .. n - 1 \/ j = n \/ j = n + 1
        /\ \A j \in 1 .. n - 1 : j \in 1 .. n /\ j \in 1 .. n + 1
        /\ n \in 1 .. n + 1
    BY <1>4
  <2>3. ASSUME NEW id \in DOMAIN functions'
        PROVE  \/ FunctionWritten(id)'
               \/ \E j \in DOMAIN calls' : Writes(calls'[j]) /\ calls'[j].func_id + 1 = id
    <3>1. CASE id = m + 1
      BY <1>3, <1>8, <2>2, <3>1 DEF Writes
    <3>2. CASE id \in 1 .. m
      <4>1. CASE FunctionWritten(id)
        BY <1>5, <3>2, <4>1 DEF FunctionWritten
      <4>2. CASE \E j \in DOMAIN calls : Writes(calls[j]) /\ calls[j].func_id + 1 = id
        <5>1. PICK j \in DOMAIN calls : Writes(calls[j]) /\ calls[j].func_id + 1 = id
          BY <4>2
        <5>2. j \in 1 .. n - 1 /\ j \in DOMAIN calls'
          BY <1>4, <1>8, <2>2, <5>1
        <5> QED
          BY <1>8, <5>1, <5>2
      <4> QED
        BY <1>4, <2>1, <3>2, <4>1, <4>2 DEF Pending
    <3> QED
      BY <1>4, <1>5, <3>1, <3>2
  <2>4. ASSUME NEW j \in DOMAIN calls', Writes(calls'[j])
        PROVE  calls'[j].array = array' /\ calls'[j].func_id < Len(functions')
    <3>1. CASE j = n
      BY <1>3, <1>4, <1>5, <1>8, <3>1
    <3>2. CASE j = n + 1
      BY <1>3, <1>8, <2>4, <3>2 DEF Writes
    <3>3. CASE j \in 1 .. n - 1
      <4>1. calls[j].array = array /\ calls[j].func_id < m /\ j \in 1 .. n
        BY <1>4, <1>8, <2>1, <2>2, <2>4, <3>3 DEF Pending, m
      <4>2. calls[j].func_id \in Nat
        <5>1. calls[j] \in ActivationType
          BY <1>2, <1>4, <1>7, <4>1, ElementOfSeq
        <5> QED
          BY <5>1 DEF ActivationType
      <4> QED
        BY <1>4, <1>5, <1>8, <1>9, <2>1, <3>3, <4>1, <4>2
    <3> QED
      BY <1>8, <2>2, <3>1, <3>2, <3>3
  <2> QED
    BY <2>3, <2>4 DEF Pending
<1>10. array' > 0
  BY <1>1, <1>2 DEF ModuleInv
<1> QED
  BY <1>9, <1>10 DEF ModuleInv

LEMMA ModuleInvFirst == Init => ModuleInv
<1> SUFFICES ASSUME Init PROVE ModuleInv
  OBVIOUS
<1> DEFINE main == [Activation("module", program, 1) EXCEPT !.array = 1]
           enter == Activation("enter", program, 1)
<1>1. /\ functions = <<Blank>> /\ array = 1 /\ calls = <<main, enter>>
  BY DEF Init
<1>2. /\ main.at = "module" /\ main.func_id = 0 /\ main.array = 1 /\ enter.at = "enter"
  BY DEF Activation
<1> HIDE DEF main, enter
<1>3. /\ DOMAIN functions = {1} /\ Len(functions) = 1
      /\ DOMAIN calls = 1 .. 2 /\ calls[1] = main /\ calls[2] = enter
  BY <1>1
<1>4. Pending
  BY <1>1, <1>2, <1>3 DEF Pending, Writes
<1> QED
  BY <1>1, <1>4 DEF ModuleInv

LEMMA ModuleInvKept ==
  ASSUME CompilerInv, ModuleInv, [CompileNext]_vars
  PROVE  ModuleInv'
<1>1. CASE UNCHANGED vars
  BY <1>1 DEF vars, ModuleInv, Pending, FunctionWritten
<1>2. CASE CompileNext
  BY <1>2, ReturningWrites, MovingWrites, CallingWrites, LetRecWrites, EnterLambdaWrites,
     FinishLambdaWrites, FinishModuleWrites DEF CompileNext
<1> QED
  BY <1>1, <1>2

\* When CompileExpression returns, every entry of the functions array has been
\* written, with its code, and with its id or the symbols of its closure: no
\* activation is left that would, and each has written to its own entry.  That
\* holds as long as no realloc has moved the array away from the pointers that
\* the pending activations keep (_AddFunction, CompileExpression, compiler.c).
THEOREM EveryFunctionWritten == CompileSpec => [](array = 1 => ModuleComplete)
<1>1. Init => CompilerInv /\ ModuleInv
  BY CompilerInit, ModuleInvFirst
<1>2. CompilerInv /\ ModuleInv /\ [CompileNext]_vars => (CompilerInv /\ ModuleInv)'
  BY CompilerStep, ModuleInvKept
<1>3. CompilerInv /\ ModuleInv => (array = 1 => ModuleComplete)
  <2> SUFFICES ASSUME ModuleInv, array = 1, calls = <<>>, NEW id \in DOMAIN functions
               PROVE  FunctionWritten(id)
    BY DEF ModuleComplete, Compiled
  <2>1. DOMAIN calls = {}
    OBVIOUS
  <2> QED
    BY <2>1 DEF ModuleInv, Pending
<1> QED
  BY <1>1, <1>2, <1>3, PTL DEF CompileSpec

-----------------------------------------------------------------------------
(***************************************************************************)
(* A context is sound when no register number in it, not even one left     *)
(* behind in a binding that is over, exceeds its count.                    *)
(***************************************************************************)
Sound(c) ==
  /\ c.integer_registers <= c.max_registers
  /\ \A j \in DOMAIN c.bindings : c.bindings[j].reg < c.max_registers

\* d comes after c in the compilation of one function.
Follows(c, d) ==
  d \in ContextType /\ Sound(d) /\ c.max_registers <= d.max_registers

\* The types of the fields that count registers.
LEMMA ContextFields ==
  ASSUME NEW c \in ContextType
  PROVE  /\ c.integer_registers \in Nat /\ c.max_registers \in Nat
         /\ DOMAIN c.bindings = 1 .. Len(c.bindings) /\ Len(c.bindings) \in Nat
         /\ \A j \in DOMAIN c.bindings : c.bindings[j].reg \in Nat
<1>1. c.bindings \in Seq(Binding)
  BY DEF ContextType
<1>2. DOMAIN c.bindings = 1 .. Len(c.bindings) /\ Len(c.bindings) \in Nat
  BY <1>1, LenProperties
<1>3. \A j \in DOMAIN c.bindings : c.bindings[j] \in Binding
  BY <1>1, <1>2, ElementOfSeq
<1>4. \A j \in DOMAIN c.bindings : c.bindings[j].reg \in Nat
  BY <1>3, BytesWithin DEF Binding
<1> QED
  BY <1>2, <1>4, BytesWithin DEF ContextType

\* The new register is counted.
LEMMA GetFreeIntRegisterSound ==
  ASSUME NEW c \in ContextType, Sound(c)
  PROVE  /\ Follows(c, GetFreeIntRegister(c))
         /\ c.integer_registers < GetFreeIntRegister(c).max_registers
<1> DEFINE d == GetFreeIntRegister(c)
           n == (c.integer_registers + 1) % Byte
<1>1. d \in ContextType
  BY GetFreeIntRegisterType
<1>2. n <= c.integer_registers + 1 /\ n \in Nat
  <2>1. c.integer_registers \in 0 .. Byte - 1
    BY DEF ContextType, Bytes
  <2>2. CASE c.integer_registers + 1 < Byte
    <3>1. n = c.integer_registers + 1
      BY <2>1, <2>2, BytecodeAssumption
    <3> QED
      BY <2>1, <3>1
  <2>3. CASE c.integer_registers + 1 = Byte
    <3>1. n = 0
      BY <2>3, BytecodeAssumption
    <3> QED
      BY <2>1, <3>1
  <2> QED
    BY <2>1, <2>2, <2>3, BytecodeAssumption
<1> HIDE DEF n
<1>3. /\ d.integer_registers = n /\ d.max_registers = c.max_registers + 1
      /\ d.bindings = c.bindings
  BY DEF GetFreeIntRegister, ContextType, n
<1> HIDE DEF d
<1> QED
  BY <1>1, <1>2, <1>3, ContextFields DEF Follows, Sound, d

\* The other helpers use no register they are not given.
LEMMA WriteCodeSound ==
  ASSUME NEW c \in ContextType, Sound(c), NEW bytes,
         WriteCode(c, bytes) \in ContextType
  PROVE  /\ Follows(c, WriteCode(c, bytes))
         /\ WriteCode(c, bytes).max_registers = c.max_registers
<1> DEFINE d == WriteCode(c, bytes)
<1>1. /\ d.integer_registers = c.integer_registers
      /\ d.max_registers = c.max_registers /\ d.bindings = c.bindings
  BY DEF WriteCode, ContextType
<1> HIDE DEF d
<1>2. d \in ContextType
  BY DEF d
<1> QED
  BY <1>1, <1>2, ContextFields DEF Follows, Sound, d

LEMMA WriteLoadLiteralSound ==
  ASSUME NEW c \in ContextType, Sound(c), NEW value \in Nat
  PROVE  /\ Follows(c, WriteLoadLiteral(c, value))
         /\ c.integer_registers < WriteLoadLiteral(c, value).max_registers
<1> DEFINE d == GetFreeIntRegister(c)
           bytes == LoadImmediate(value, c.integer_registers)
<1>1. Follows(c, d) /\ c.integer_registers < d.max_registers
  BY GetFreeIntRegisterSound
<1>2. bytes \in Seq(Bytes)
  BY LoadImmediateType DEF ContextType
<1> HIDE DEF d, bytes
<1>3. /\ Follows(d, WriteCode(d, bytes))
      /\ WriteCode(d, bytes).max_registers = d.max_registers
  BY <1>1, <1>2, WriteCodeSound, WriteCodeType DEF Follows
<1>4. WriteLoadLiteral(c, value) = WriteCode(d, bytes)
  BY DEF WriteLoadLiteral, d, bytes
<1> QED
  BY <1>1, <1>3, <1>4 DEF Follows

LEMMA PushBindingSound ==
  ASSUME NEW c \in ContextType, Sound(c), NEW id \in Symbol, NEW r \in Bytes,
         r < c.max_registers
  PROVE  /\ Follows(c, PushBinding(c, id, r))
         /\ PushBinding(c, id, r).max_registers = c.max_registers
<1> DEFINE b == [symbol |-> id, reg |-> r]
           d == PushBinding(c, id, r)
           s == IF c.binding_top < Len(c.bindings)
                THEN [c.bindings EXCEPT ![c.binding_top + 1] = b]
                ELSE Append(c.bindings, b)
<1>1. b.reg = r /\ b \in Binding
  BY DEF Binding
<1>2. c.bindings \in Seq(Binding)
  BY DEF ContextType
<1> HIDE DEF b
<1>3. \A j \in DOMAIN s : s[j] = b \/ (j \in DOMAIN c.bindings /\ s[j] = c.bindings[j])
  <2>1. CASE c.binding_top < Len(c.bindings)
    BY <1>2, <2>1
  <2>2. CASE ~ (c.binding_top < Len(c.bindings))
    <3>1. s = Append(c.bindings, b)
      BY <2>2
    <3>2. /\ DOMAIN s = 1 .. Len(c.bindings) + 1
          /\ \A j \in 1 .. Len(c.bindings) : s[j] = c.bindings[j]
          /\ s[Len(c.bindings) + 1] = b
      BY <1>1, <1>2, <3>1, AppendProperties, LenProperties
    <3> HIDE DEF s
    <3> QED
      BY <3>2, ContextFields
  <2> QED
    BY <2>1, <2>2
<1> HIDE DEF s
<1>4. /\ d.integer_registers = c.integer_registers
      /\ d.max_registers = c.max_registers /\ d.bindings = s
  BY DEF PushBinding, ContextType, s, b
<1>5. d \in ContextType
  BY PushBindingType
<1> HIDE DEF d
<1>6. \A j \in DOMAIN d.bindings : d.bindings[j].reg < d.max_registers
  BY <1>1, <1>3, <1>4 DEF Sound
<1> QED
  BY <1>4, <1>5, <1>6, ContextFields DEF Follows, Sound, d

LEMMA PopBindingSound ==
  ASSUME NEW c \in ContextType, Sound(c)
  PROVE  Follows(c, PopBinding(c))
<1> DEFINE d == PopBinding(c)
<1>1. /\ d.integer_registers = c.integer_registers
      /\ d.max_registers = c.max_registers /\ d.bindings = c.bindings
  BY DEF PopBinding, ContextType
<1>2. d \in ContextType
  BY PopBindingType
<1> HIDE DEF d
<1> QED
  BY <1>1, <1>2, ContextFields DEF Follows, Sound, d

LEMMA PatchJumpSound ==
  ASSUME NEW c \in ContextType, Sound(c), NEW loc \in Nat
  PROVE  /\ Follows(c, PatchJump(c, loc))
         /\ PatchJump(c, loc).max_registers = c.max_registers
<1> DEFINE d == PatchJump(c, loc)
<1>1. /\ d.integer_registers = c.integer_registers
      /\ d.max_registers = c.max_registers /\ d.bindings = c.bindings
  BY DEF PatchJump, ContextType
<1>2. d \in ContextType
  BY PatchJumpType
<1> HIDE DEF d
<1> QED
  BY <1>1, <1>2, ContextFields DEF Follows, Sound, d

\* One update after another.
LEMMA FollowsTransitive ==
  ASSUME NEW c \in ContextType, NEW d, Follows(c, d), NEW e, Follows(d, e)
  PROVE  Follows(c, e)
BY ContextFields DEF Follows

\* The register of a name: that of a binding, or a new one.
LEMMA IdentifierSound ==
  ASSUME NEW c \in ContextType, Sound(c), NEW id \in Symbol
  PROVE  /\ Follows(c, IdentifierContext(c, id))
         /\ IdentifierRegister(c, id) < IdentifierContext(c, id).max_registers
<1>1. CASE Bound(c, id) # {}
  <2>1. Bound(c, id) \in SUBSET (1 .. Len(c.bindings))
    BY ContextFields DEF Bound
  <2>2. Max(Bound(c, id)) \in DOMAIN c.bindings
    BY <1>1, <2>1, MaxProperty, ContextFields
  <2>3. c.bindings[Max(Bound(c, id))].reg < c.max_registers
    BY <2>2 DEF Sound
  <2>4. Follows(c, c)
    BY ContextFields DEF Follows
  <2> QED
    BY <1>1, <2>3, <2>4 DEF IdentifierContext, IdentifierRegister
<1>2. CASE Bound(c, id) = {}
  <2> DEFINE offset == ClosureOffset(c, id)
             target == c.integer_registers
             names  == IF offset = Len(c.closure_symbols)
                       THEN Append(c.closure_symbols, id)
                       ELSE c.closure_symbols
             closed == [c EXCEPT !.closure_symbols = names]
             d      == GetFreeIntRegister(closed)
             bytes  == <<OP.LOADA_64, 0>> \o U16(ClosureSlot(offset)) \o <<target>>
  <2>1. names \in Seq(Symbol)
    <3>1. c.closure_symbols \in Seq(Symbol)
      BY DEF ContextType
    <3> QED
      BY <3>1, AppendProperties
  <2>2. bytes \in Seq(Bytes)
    <3>1. ClosureSlot(offset) \in Int
      BY ClosureOffsetType DEF ClosureSlot
    <3> HIDE DEF offset
    <3>2. U16(ClosureSlot(offset)) \in Seq(Bytes)
      BY <3>1, U16Type
    <3>3. <<OP.LOADA_64, 0>> \in Seq(Bytes) /\ <<target>> \in Seq(Bytes)
      BY BytesWithin DEF OP, ContextType
    <3>4. <<OP.LOADA_64, 0>> \o U16(ClosureSlot(offset)) \in Seq(Bytes)
      BY <3>2, <3>3, ConcatProperties
    <3> QED
      BY <3>3, <3>4, ConcatProperties
  <2>3. LoadClosed(c, id) = WriteCode(d, bytes)
    BY DEF LoadClosed
  <2> HIDE DEF names, bytes
  <2>4. /\ closed \in ContextType /\ Sound(closed)
        /\ closed.integer_registers = target
        /\ closed.max_registers = c.max_registers
    BY <2>1 DEF ContextType, Sound
  <2> HIDE DEF closed
  <2>5. Follows(closed, d) /\ target < d.max_registers
    BY <2>4, GetFreeIntRegisterSound
  <2> HIDE DEF d
  <2>6. /\ Follows(d, WriteCode(d, bytes))
        /\ WriteCode(d, bytes).max_registers = d.max_registers
    BY <2>2, <2>5, WriteCodeSound, WriteCodeType DEF Follows
  <2>7. /\ IdentifierContext(c, id) = WriteCode(d, bytes)
        /\ IdentifierRegister(c, id) = target
    BY <1>2, <2>3 DEF IdentifierContext, IdentifierRegister
  <2> HIDE DEF target
  <2> QED
    BY <2>4, <2>5, <2>6, <2>7 DEF Follows
<1> QED
  BY <1>1, <1>2

-----------------------------------------------------------------------------
(***************************************************************************)
(* RegistersReserved, strengthened to the bindings that are over.          *)
(***************************************************************************)
Held(s, cs) ==
  \A j \in 1 .. Len(s) :
    s[j].at \in HoldsRegister => s[j].reg < cs[s[j].context].max_registers

ResultReserved(f) == f # Blank => f.result_register < f.register_count

Reserved ==
  /\ \A d \in 1 .. Len(contexts) : Sound(contexts[d])
  /\ Held(calls, contexts)
  /\ calls # <<>> /\ top.at \in AwaitsResult =>
       ret < contexts[InnerContext(top)].max_registers
  /\ \A id \in DOMAIN functions : ResultReserved(functions[id])

\* The strengthened invariant gives the property.
LEMMA ReservedSuffices == CompilerInv /\ Reserved => RegistersReserved
<1> SUFFICES ASSUME CompilerInv, Reserved
             PROVE  RegistersReserved
  OBVIOUS
<1>1. DOMAIN contexts = 1 .. Len(contexts) /\ DOMAIN calls = 1 .. Len(calls)
  BY LenProperties DEF CompilerInv, Stack
<1>2. \A d \in DOMAIN contexts : \A j \in DOMAIN contexts[d].bindings :
        contexts[d].bindings[j].reg < contexts[d].max_registers
  BY <1>1 DEF Reserved, Sound
<1> QED
  BY <1>1, <1>2 DEF Reserved, RegistersReserved, Held, ResultReserved

\* After a step that lets the context of the running activation become c.
Grew(c) ==
  /\ c \in ContextType /\ contexts'[top.context] = c
  /\ Len(contexts') = Len(contexts)
  /\ \A d \in 1 .. Len(contexts) : Follows(contexts[d], contexts'[d])

\* What the running activation can rely on.
LEMMA TopSound ==
  ASSUME CompilerInv, Reserved, calls # <<>>
  PROVE  /\ context \in ContextType /\ Sound(context)
         /\ top.at \in HoldsRegister => top.reg < context.max_registers
         /\ Running /\ top.at \in AwaitsResult => ret < context.max_registers
<1>1. Len(calls) \in 1 .. Len(calls)
  BY StackTop DEF CompilerInv
<1>2. top.at \in HoldsRegister => top.reg < context.max_registers
  BY <1>1 DEF Reserved, Held, top, context, Last
<1>3. Running => InnerContext(top) = top.context
  BY DEF Running, InnerContext
<1> QED
  BY <1>2, <1>3, TopFacts DEF Reserved, context

\* An update of the context of the running activation, and none.
LEMMA SetContextGrows ==
  ASSUME CompilerInv, Reserved, calls # <<>>,
         NEW c, Follows(context, c), SetContext(c)
  PROVE  Grew(c)
<1>1. c \in ContextType /\ top.context \in 1 .. Len(contexts)
  BY TopFacts DEF Follows
<1>2. /\ Len(contexts') = Len(contexts)
      /\ \A d \in 1 .. Len(contexts) :
           contexts'[d] = IF d = top.context THEN c ELSE contexts[d]
  BY <1>1, ExceptSeq DEF CompilerInv, SetContext
<1>3. \A d \in 1 .. Len(contexts) : contexts[d] \in ContextType
  BY ElementOfSeq DEF CompilerInv
<1>4. \A d \in 1 .. Len(contexts) : Follows(contexts[d], contexts[d])
  BY <1>3, ContextFields DEF Follows, Reserved
<1> QED
  BY <1>1, <1>2, <1>4 DEF Grew, context

LEMMA SameGrows ==
  ASSUME CompilerInv, Reserved, calls # <<>>, contexts' = contexts
  PROVE  Grew(context)
<1>1. \A d \in 1 .. Len(contexts) : contexts[d] \in ContextType
  BY ElementOfSeq DEF CompilerInv
<1>2. \A d \in 1 .. Len(contexts) : Follows(contexts[d], contexts[d])
  BY <1>1, ContextFields DEF Follows, Reserved
<1> QED
  BY <1>2, TopFacts DEF Grew, context

\* The registers that the activations hold stay reserved.
LEMMA HeldGrows ==
  ASSUME CompilerInv, Reserved, NEW c, Grew(c)
  PROVE  Held(calls, contexts')
<1> SUFFICES ASSUME NEW j \in 1 .. Len(calls), calls[j].at \in HoldsRegister
             PROVE  calls[j].reg < contexts'[calls[j].context].max_registers
  BY DEF Held
<1> DEFINE d == calls[j].context
<1>1. d \in 1 .. Len(contexts) /\ calls[j] \in Placed
  BY StackEntry, LenProperties DEF CompilerInv
<1>2. calls[j].reg \in Nat
  BY <1>1, BytesWithin DEF Placed, ActivationType
<1>3. calls[j].reg < contexts[d].max_registers
  BY DEF Reserved, Held
<1>4. contexts[d] \in ContextType /\ Follows(contexts[d], contexts'[d])
  BY <1>1, ElementOfSeq DEF Grew, CompilerInv
<1> QED
  BY <1>2, <1>3, <1>4, ContextFields DEF Follows

\* A return, a move to another place, and a call.
LEMMA ReservedReturn ==
  ASSUME CompilerInv, Reserved, Running, NEW c, Grew(c),
         NEW r, r < c.max_registers, Return(r), functions' = functions
  PROVE  Reserved'
<1>1. Held(calls', contexts')
  <2>1. /\ Len(calls') = Len(calls) - 1 /\ Len(calls) \in Nat \ {0}
        /\ \A j \in 1 .. Len(calls') : calls'[j] = calls[j]
    BY StackFront, StackTop DEF CompilerInv, Running, Return
  <2>2. Held(calls, contexts')
    BY HeldGrows
  <2> QED
    BY <2>1, <2>2 DEF Held
<1>2. InnerContext(Last(calls')) = top.context
  BY StackFront DEF CompilerInv, Running, Return, Depth, top
<1> QED
  BY <1>1, <1>2 DEF Reserved, Grew, Return, Follows, Held, top

LEMMA ReservedBecome ==
  ASSUME CompilerInv, Reserved, Running, NEW c, Grew(c),
         NEW a, a.context = top.context, a.at \notin {"module", "body"},
         a.at \in HoldsRegister => a.reg < c.max_registers,
         a.at \in AwaitsResult => ret' < c.max_registers,
         calls' = Become(a), functions' = functions
  PROVE  Reserved'
<1>1. /\ Len(calls') = Len(calls) /\ Len(calls) \in 1 .. Len(calls)
      /\ \A j \in 1 .. Len(calls) :
           calls'[j] = IF j = Len(calls) THEN a ELSE calls[j]
  BY StackTop, LenProperties DEF CompilerInv, Stack, Running, Become
<1>2. Held(calls', contexts')
  BY <1>1, HeldGrows DEF Held, Grew
<1>3. InnerContext(Last(calls')) = top.context /\ Last(calls') = a
  BY <1>1 DEF Last, InnerContext
<1> QED
  BY <1>2, <1>3 DEF Reserved, Grew, Follows, Held, top

LEMMA ReservedPush ==
  ASSUME CompilerInv, Reserved, Running, NEW c, Grew(c),
         NEW a, a.context = top.context, a.at \notin {"module", "body"},
         a.at \in HoldsRegister => a.reg < c.max_registers,
         NEW b, b.context = top.context, b.at \notin AwaitsResult,
         b.at \in HoldsRegister => b.reg < c.max_registers,
         calls' = Append(Become(a), b), functions' = functions
  PROVE  Reserved'
<1> DEFINE n == Len(calls)
<1>1. n \in 1 .. n /\ n \in Nat /\ calls \in Seq(Placed)
  BY StackTop DEF CompilerInv, Stack, Running
<1>2. /\ Len(calls') = n + 1 /\ calls'[n + 1] = b
      /\ \A j \in 1 .. n : calls'[j] = IF j = n THEN a ELSE calls[j]
  <2> DEFINE S == Placed \union {a, b}
  <2>1. Placed \subseteq S /\ a \in S /\ b \in S
    OBVIOUS
  <2> HIDE DEF S
  <2>2. calls \in Seq(S)
    BY <1>1, <2>1, SeqMonotonic
  <2>3. /\ Become(a) \in Seq(S) /\ Len(Become(a)) = n
        /\ \A j \in 1 .. n : Become(a)[j] = IF j = n THEN a ELSE calls[j]
    BY <1>1, <2>1, <2>2, ExceptSeq DEF Become
  <2> QED
    BY <1>1, <2>1, <2>3, AppendProperties
<1>3. Held(calls', contexts')
  <2>1. \A j \in 1 .. n + 1 : j \in 1 .. n \/ j = n + 1
    BY <1>1
  <2> QED
    BY <1>1, <1>2, <2>1, HeldGrows DEF Held, Grew
<1>4. Last(calls') = b
  BY <1>2 DEF Last
<1> QED
  BY <1>3, <1>4 DEF Reserved, Grew, Follows, Held, top

LEMMA ReservedCall ==
  ASSUME CompilerInv, Reserved, Running, NEW c, Grew(c),
         NEW a, a.context = top.context, a.at \notin {"module", "body"},
         a.at \in HoldsRegister => a.reg < c.max_registers,
         NEW e, CallFrom(a, e), functions' = functions
  PROVE  Reserved'
<1> DEFINE b == Activation("enter", e, a.context)
<1>1. /\ b.context = top.context
      /\ b.at \notin AwaitsResult /\ b.at \notin HoldsRegister
  BY DEF Activation, AwaitsResult, HoldsRegister, ExpressionType
<1>2. calls' = Append(Become(a), b)
  BY DEF CallFrom
<1> HIDE DEF b
<1> QED
  BY <1>1, <1>2, ReservedPush

\* The context a step leaves has its type, by the invariant of the types.
LEMMA SetContextType ==
  ASSUME CompilerInv, CompilerInv', calls # <<>>, NEW c, SetContext(c)
  PROVE  c \in ContextType
<1>1. top.context \in 1 .. Len(contexts) /\ contexts \in Seq(ContextType)
  BY TopFacts DEF CompilerInv
<1>2. DOMAIN contexts' = DOMAIN contexts /\ contexts'[top.context] = c
  BY <1>1, LenProperties DEF SetContext
<1>3. DOMAIN contexts = 1 .. Len(contexts) /\ DOMAIN contexts' = 1 .. Len(contexts')
  BY LenProperties DEF CompilerInv
<1> QED
  BY <1>1, <1>2, <1>3, ElementOfSeq DEF CompilerInv

-----------------------------------------------------------------------------
\* One lemma for each action.
LEMMA LiteralReserved ==
  ASSUME CompilerInv, Reserved, CompileLiteral
  PROVE  Reserved'
<1> DEFINE c == WriteLoadLiteral(context, LiteralValue(top.expr))
           r == context.integer_registers
<1>1. Running /\ calls # <<>>
  BY DEF CompileLiteral, Enter, At, Running
<1>2. LiteralValue(top.expr) \in Nat
  BY <1>1, TopFacts, Subexpressions
     DEF CompileLiteral, Enter, At, LiteralValue
<1>3. Follows(context, c) /\ r < c.max_registers
  BY <1>1, <1>2, TopSound, WriteLoadLiteralSound
<1>4. SetContext(c) /\ Return(r) /\ functions' = functions
  BY DEF CompileLiteral
<1> HIDE DEF c, r
<1> QED
  BY <1>1, <1>3, <1>4, SetContextGrows, ReservedReturn

LEMMA IdentifierReserved ==
  ASSUME CompilerInv, Reserved, CompileIdentifier
  PROVE  Reserved'
<1> DEFINE id == top.expr.identifier_id
           c == IdentifierContext(context, id)
           r == IdentifierRegister(context, id)
<1>1. Running /\ calls # <<>>
  BY DEF CompileIdentifier, Enter, At, Running
<1>2. id \in Symbol
  BY <1>1, TopFacts, Subexpressions DEF CompileIdentifier, Enter, At
<1>3. Follows(context, c) /\ r < c.max_registers
  BY <1>1, <1>2, TopSound, IdentifierSound
<1>4. SetContext(c) /\ Return(r) /\ functions' = functions
  BY DEF CompileIdentifier
<1> HIDE DEF c, r
<1> QED
  BY <1>1, <1>3, <1>4, SetContextGrows, ReservedReturn

LEMMA LambdaReserved ==
  ASSUME CompilerInv, Reserved, CompileLambda
  PROVE  Reserved'
<1> DEFINE c == GetFreeIntRegister(context)
           a == [top EXCEPT !.at = "lambda", !.reg = context.integer_registers]
<1>1. Running /\ calls # <<>>
  BY DEF CompileLambda, Enter, At, Running
<1>2. /\ a.context = top.context /\ a.at = "lambda"
      /\ a.reg = context.integer_registers
  BY <1>1, TopFacts DEF ActivationType
<1>3. Follows(context, c) /\ context.integer_registers < c.max_registers
  BY <1>1, TopSound, GetFreeIntRegisterSound
<1>4. SetContext(c) /\ calls' = Become(a) /\ functions' = functions
  BY DEF CompileLambda
<1>5. a.at \notin AwaitsResult
  BY <1>2 DEF AwaitsResult
<1> HIDE DEF a, c
<1> QED
  BY <1>1, <1>2, <1>3, <1>4, <1>5, SetContextGrows, ReservedBecome

LEMMA CloseVariableReserved ==
  ASSUME CompilerInv, CompilerInv', Reserved, CloseVariable
  PROVE  Reserved'
<1> DEFINE id == top.closure[top.i + 1]
           k  == IdentifierContext(context, id)
           bytes == <<OP.STOREA_64, top.reg>> \o U16(ClosureSlot(top.i))
                      \o <<IdentifierRegister(context, id)>>
           c  == WriteCode(k, bytes)
           a  == [top EXCEPT !.i = top.i + 1]
<1>1. Running /\ calls # <<>> /\ top.at = "closed"
  BY DEF CloseVariable, At, Running
<1>2. id \in Symbol
  <2>1. top.i \in Nat /\ top.closure \in Seq(Symbol)
    BY <1>1, TopFacts DEF ActivationType
  <2>2. top.i + 1 \in 1 .. Len(top.closure)
    BY <2>1, LenProperties DEF CloseVariable
  <2> QED
    BY <2>1, <2>2, ElementOfSeq
<1>3. Follows(context, k)
  <2> HIDE DEF id
  <2> QED
    BY <1>1, <1>2, TopSound, IdentifierSound
<1>4. SetContext(c) /\ calls' = Become(a) /\ functions' = functions
  BY DEF CloseVariable
<1>5. a.context = top.context /\ a.at = "closed" /\ a.reg = top.reg
  BY <1>1, TopFacts DEF ActivationType
<1> HIDE DEF a, bytes, k
<1>6. Follows(context, c)
  <2>1. c \in ContextType
    BY <1>1, <1>4, SetContextType
  <2>2. Follows(k, c)
    BY <1>3, <2>1, WriteCodeSound DEF Follows
  <2> QED
    BY <1>1, <1>3, <2>2, TopFacts, FollowsTransitive
<1> HIDE DEF c
<1>7. a.reg < c.max_registers /\ a.at \notin AwaitsResult
  <2>1. top.reg \in Nat /\ top.reg < context.max_registers
    BY <1>1, TopFacts, TopSound, BytesWithin DEF HoldsRegister
  <2> QED
    BY <1>1, <1>5, <1>6, <2>1, TopFacts, ContextFields
       DEF Follows, AwaitsResult
<1> QED
  BY <1>1, <1>4, <1>5, <1>6, <1>7, SetContextGrows, ReservedBecome

LEMMA ReturnClosureReserved ==
  ASSUME CompilerInv, Reserved, ReturnClosure
  PROVE  Reserved'
<1>1. Running /\ calls # <<>> /\ top.at = "closed"
  BY DEF ReturnClosure, At, Running
<1>2. top.reg < context.max_registers
  BY <1>1, TopSound DEF HoldsRegister
<1>3. Return(top.reg) /\ functions' = functions /\ contexts' = contexts
  BY DEF ReturnClosure
<1> QED
  BY <1>1, <1>2, <1>3, SameGrows, ReservedReturn

\* The steps that only call _CompileExpression.
LEMMA DescendReserved ==
  ASSUME CompilerInv, Reserved, Running,
         NEW l \in {"let_value", "let_body", "first", "operand", "if_test"},
         NEW e, CallFrom([top EXCEPT !.at = l], e),
         contexts' = contexts, functions' = functions
  PROVE  Reserved'
<1> DEFINE a == [top EXCEPT !.at = l]
<1>1. calls # <<>>
  BY DEF Running
<1>2. a.context = top.context /\ a.at = l
  BY <1>1, TopFacts DEF ActivationType
<1>3. a.at \notin HoldsRegister /\ a.at \notin {"module", "body"}
  BY <1>2 DEF HoldsRegister
<1> HIDE DEF a
<1>4. CallFrom(a, e)
  BY DEF a
<1> QED
  BY <1>1, <1>2, <1>3, <1>4, SameGrows, ReservedCall

LEMMA DescendingReserved ==
  ASSUME CompilerInv, Reserved,
         \/ CompileLet \/ LetRecBody \/ CompileFirst
         \/ CompileUnary \/ CompileIf
  PROVE  Reserved'
<1>1. Running /\ contexts' = contexts /\ functions' = functions
  BY DEF CompileLet, LetRecBody, CompileFirst, CompileUnary, CompileIf,
         Enter, At, Running
<1> QED
  BY <1>1, DescendReserved
     DEF CompileLet, LetRecBody, CompileFirst, CompileUnary, CompileIf

LEMMA BindLetReserved ==
  ASSUME CompilerInv, Reserved, BindLet
  PROVE  Reserved'
<1> DEFINE a == [top EXCEPT !.at = "let_body"]
           c == PushBinding(context, top.expr.let_id, ret)
<1>1. Running /\ calls # <<>> /\ top.at = "let_value"
  BY DEF BindLet, At, Running
<1>2. ret \in Bytes /\ ret < context.max_registers
  BY <1>1, TopFacts, TopSound DEF AwaitsResult, ExpressionType
<1>3. top.expr.let_id \in Symbol
  BY <1>1, TopFacts, Subexpressions DEF Placed, ExpressionType
<1>4. Follows(context, c)
  BY <1>1, <1>2, <1>3, TopSound, PushBindingSound
<1>5. a.context = top.context /\ a.at = "let_body" /\ a.at \notin HoldsRegister
  BY <1>1, TopFacts DEF ActivationType, HoldsRegister
<1>6. /\ SetContext(c) /\ CallFrom(a, top.expr.let_body)
      /\ functions' = functions
  BY DEF BindLet
<1> HIDE DEF a, c
<1> QED
  BY <1>1, <1>4, <1>5, <1>6, SetContextGrows, ReservedCall

LEMMA EndLetReserved ==
  ASSUME CompilerInv, Reserved, EndLet
  PROVE  Reserved'
<1> DEFINE c == PopBinding(context)
<1>1. Running /\ calls # <<>> /\ top.at = "let_body"
  BY DEF EndLet, At, Running
<1>2. ret \in Nat /\ ret < context.max_registers
  BY <1>1, TopFacts, TopSound, BytesWithin DEF AwaitsResult, ExpressionType
<1>3. Follows(context, c)
  BY <1>1, TopSound, PopBindingSound
<1>4. SetContext(c) /\ Return(ret) /\ functions' = functions
  BY DEF EndLet
<1> HIDE DEF c
<1>5. ret < c.max_registers
  BY <1>1, <1>2, <1>3, TopFacts, ContextFields DEF Follows
<1> QED
  BY <1>1, <1>3, <1>4, <1>5, SetContextGrows, ReservedReturn

LEMMA RejectLetRecReserved ==
  ASSUME CompilerInv, Reserved, RejectLetRec
  PROVE  Reserved'
<1> DEFINE c == GetFreeIntRegister(context)
           r == context.integer_registers
<1>1. Running /\ calls # <<>>
  BY DEF RejectLetRec, Enter, At, Running
<1>2. Follows(context, c) /\ r < c.max_registers
  BY <1>1, TopSound, GetFreeIntRegisterSound
<1>3. SetContext(c) /\ Return(r) /\ functions' = functions
  BY DEF RejectLetRec
<1> HIDE DEF c, r
<1> QED
  BY <1>1, <1>2, <1>3, SetContextGrows, ReservedReturn

LEMMA LetRecReserved ==
  ASSUME CompilerInv, Reserved, CompileLetRec
  PROVE  Reserved'
<1> DEFINE dest == context.integer_registers
           d == GetFreeIntRegister(context)
           c == PushBinding(d, top.expr.let_id, dest)
           a == [top EXCEPT !.at = "rec_value"]
           b == [Activation("lambda", top.expr.let_value, top.context) EXCEPT
                   !.self_id = top.expr.let_id, !.reg = dest]
<1>1. Running /\ calls # <<>> /\ top.expr.type = "LETREC"
  BY DEF CompileLetRec, Enter, At, Running
<1>2. top.expr.let_id \in Symbol /\ dest \in Bytes
  BY <1>1, TopFacts, Subexpressions
<1>3. Follows(context, d) /\ dest < d.max_registers
  BY <1>1, TopSound, GetFreeIntRegisterSound
<1>4. a.context = top.context /\ a.at = "rec_value"
  BY <1>1, TopFacts DEF ActivationType
<1>5. b.context = top.context /\ b.at = "lambda" /\ b.reg = dest
  BY DEF Activation
<1>6. /\ SetContext(c) /\ calls' = Append(Become(a), b)
      /\ functions' = functions
  BY DEF CompileLetRec
<1>7. a.at \notin HoldsRegister /\ b.at \notin AwaitsResult
  BY <1>4, <1>5 DEF HoldsRegister, AwaitsResult
<1> HIDE DEF a, b, d, dest
<1>8. Follows(d, c) /\ c.max_registers = d.max_registers
  BY <1>2, <1>3, PushBindingSound DEF Follows
<1> HIDE DEF c
<1>9. Follows(context, c)
  BY <1>1, <1>3, <1>8, TopFacts, FollowsTransitive
<1>10. Grew(c)
  BY <1>1, <1>6, <1>9, SetContextGrows
<1>11. b.reg < c.max_registers /\ a.at \notin {"module", "body"}
  BY <1>3, <1>4, <1>5, <1>8
<1> QED
  BY <1>1, <1>4, <1>5, <1>6, <1>7, <1>10, <1>11, ReservedPush

LEMMA SecondReserved ==
  ASSUME CompilerInv, Reserved, CompileSecond
  PROVE  Reserved'
<1> DEFINE a == [top EXCEPT !.at = "second", !.reg = ret]
<1>1. Running /\ calls # <<>> /\ top.at = "first"
  BY DEF CompileSecond, At, Running
<1>2. ret < context.max_registers
  BY <1>1, TopSound DEF AwaitsResult, ExpressionType
<1>3. a.context = top.context /\ a.at = "second" /\ a.reg = ret
  BY <1>1, TopFacts DEF ActivationType
<1>4. /\ CallFrom(a, SecondOperand(top.expr))
      /\ contexts' = contexts /\ functions' = functions
  BY DEF CompileSecond
<1> HIDE DEF a
<1> QED
  BY <1>1, <1>2, <1>3, <1>4, SameGrows, ReservedCall

\* A step that writes an operator: the result goes to a new register.
LEMMA OperatorReserved ==
  ASSUME CompilerInv, CompilerInv', Reserved,
         CompileOperator \/ CompileUnaryOperator
  PROVE  Reserved'
<1> DEFINE d == GetFreeIntRegister(context)
           r == context.integer_registers
<1>1. Running /\ calls # <<>>
  BY DEF CompileOperator, CompileUnaryOperator, At, Running
<1>2. Follows(context, d) /\ r < d.max_registers
  BY <1>1, TopSound, GetFreeIntRegisterSound
<1>3. PICK bytes : SetContext(WriteCode(d, bytes))
  BY DEF CompileOperator, CompileUnaryOperator
<1>4. Return(r) /\ functions' = functions
  BY DEF CompileOperator, CompileUnaryOperator
<1> DEFINE c == WriteCode(d, bytes)
<1> HIDE DEF d, r
<1>5. c \in ContextType
  BY <1>1, <1>3, SetContextType
<1>6. Follows(d, c) /\ c.max_registers = d.max_registers
  BY <1>2, <1>5, WriteCodeSound DEF Follows
<1>7. SetContext(c)
  BY <1>3
<1> HIDE DEF c
<1>8. Follows(context, c)
  BY <1>1, <1>2, <1>6, TopFacts, FollowsTransitive
<1> QED
  BY <1>1, <1>2, <1>4, <1>6, <1>7, <1>8, SetContextGrows, ReservedReturn

LEMMA ThenReserved ==
  ASSUME CompilerInv, CompilerInv', Reserved, CompileThen
  PROVE  Reserved'
<1> DEFINE a == [top EXCEPT !.at = "if_then", !.loc = Len(context.code) + 2]
           c == WriteCode(context, <<OP.JZ, ret>> \o Hole)
<1>1. Running /\ calls # <<>>
  BY DEF CompileThen, At, Running
<1>2. a.context = top.context /\ a.at = "if_then" /\ a.at \notin HoldsRegister
  BY <1>1, TopFacts DEF ActivationType, HoldsRegister
<1>3. /\ SetContext(c) /\ CallFrom(a, top.expr.if_then)
      /\ functions' = functions
  BY DEF CompileThen
<1>4. Follows(context, c)
  BY <1>1, <1>3, TopSound, SetContextType, WriteCodeSound
<1> HIDE DEF a, c
<1> QED
  BY <1>1, <1>2, <1>3, <1>4, SetContextGrows, ReservedCall

\* Both jumps are patched in code that has just been written to.
LEMMA PatchedFollows ==
  ASSUME CompilerInv, Reserved, calls # <<>>,
         NEW bytes \in Seq(Bytes)
  PROVE  LET c == PatchJump(WriteCode(context, bytes), top.loc)
         IN  Follows(context, c) /\ c.max_registers = context.max_registers
<1> DEFINE k == WriteCode(context, bytes)
<1>1. k \in ContextType
  BY TopFacts, WriteCodeType
<1>2. Follows(context, k) /\ k.max_registers = context.max_registers
  BY <1>1, TopSound, WriteCodeSound
<1>3. top.loc \in Nat
  BY TopFacts DEF ActivationType
<1> HIDE DEF k
<1>4. /\ Follows(k, PatchJump(k, top.loc))
      /\ PatchJump(k, top.loc).max_registers = k.max_registers
  BY <1>1, <1>2, <1>3, PatchJumpSound DEF Follows
<1>5. Follows(context, PatchJump(k, top.loc))
  BY <1>2, <1>4, TopFacts, FollowsTransitive
<1> QED
  BY <1>2, <1>4, <1>5 DEF k

LEMMA ElseReserved ==
  ASSUME CompilerInv, Reserved, CompileElse
  PROVE  Reserved'
<1> DEFINE a == [top EXCEPT !.at = "if_else", !.reg = ret,
                            !.loc = Len(context.code) + 1]
           c == PatchJump(WriteCode(context, <<OP.JMP>> \o Hole), top.loc)
<1>1. Running /\ calls # <<>> /\ top.at = "if_then"
  BY DEF CompileElse, At, Running
<1>2. ret < context.max_registers
  BY <1>1, TopSound DEF AwaitsResult, ExpressionType
<1>3. a.context = top.context /\ a.at = "if_else" /\ a.reg = ret
  BY <1>1, TopFacts DEF ActivationType
<1>4. /\ SetContext(c) /\ CallFrom(a, top.expr.if_else)
      /\ functions' = functions
  BY DEF CompileElse
<1>5. Follows(context, c) /\ c.max_registers = context.max_registers
  <2>1. <<OP.JMP>> \in Seq(Bytes)
    BY BytesWithin DEF OP
  <2>2. <<OP.JMP>> \o Hole \in Seq(Bytes)
    BY <2>1, HoleType
  <2> QED
    BY <1>1, <2>2, PatchedFollows
<1> HIDE DEF a, c
<1> QED
  BY <1>1, <1>2, <1>3, <1>4, <1>5, SetContextGrows, ReservedCall

LEMMA EndIfReserved ==
  ASSUME CompilerInv, Reserved, EndIf
  PROVE  Reserved'
<1> DEFINE move == IF ret # top.reg THEN <<OP.MOV, ret, top.reg>> ELSE <<>>
           c    == PatchJump(WriteCode(context, move), top.loc)
<1>1. Running /\ calls # <<>> /\ top.at = "if_else"
  BY DEF EndIf, At, Running
<1>2. top.reg < context.max_registers
  BY <1>1, TopSound DEF HoldsRegister
<1>3. move \in Seq(Bytes)
  BY <1>1, TopFacts, BytesWithin DEF OP
<1>4. SetContext(c) /\ Return(top.reg) /\ functions' = functions
  BY DEF EndIf
<1> HIDE DEF move
<1>5. Follows(context, c) /\ c.max_registers = context.max_registers
  BY <1>1, <1>3, PatchedFollows
<1> HIDE DEF c
<1> QED
  BY <1>1, <1>2, <1>4, <1>5, SetContextGrows, ReservedReturn

LEMMA TupleReserved ==
  ASSUME CompilerInv, CompilerInv', Reserved, CompileTuple
  PROVE  Reserved'
<1> DEFINE loaded == WriteLoadLiteral(context, top.expr.tuple_length)
           d == GetFreeIntRegister(loaded)
           out == loaded.integer_registers
           bytes == <<OP.NEW_TUPLE, context.integer_registers, out>>
           c == WriteCode(d, bytes)
           a == [top EXCEPT !.at = "member", !.reg = out]
<1>1. Running /\ calls # <<>> /\ top.expr.type = "TUPLE"
  BY DEF CompileTuple, Enter, At, Running
<1>2. top.expr.tuple_length \in Nat
  BY <1>1, TopFacts, Subexpressions
<1>3. Follows(context, loaded)
  BY <1>1, <1>2, TopSound, WriteLoadLiteralSound
<1>4. a.context = top.context /\ a.at = "member" /\ a.reg = out
  BY <1>1, TopFacts DEF ActivationType
<1>5. /\ SetContext(c) /\ CallFrom(a, top.expr.tuple_first)
      /\ functions' = functions
  BY DEF CompileTuple
<1>6. c \in ContextType
  BY <1>1, <1>5, SetContextType
<1> HIDE DEF a, bytes, loaded
<1>7. Follows(loaded, d) /\ out < d.max_registers
  BY <1>3, GetFreeIntRegisterSound DEF Follows
<1> HIDE DEF d, out
<1>8. Follows(d, c) /\ c.max_registers = d.max_registers
  BY <1>6, <1>7, WriteCodeSound DEF Follows
<1> HIDE DEF c
<1>9. Follows(context, c)
  BY <1>1, <1>3, <1>7, <1>8, TopFacts, FollowsTransitive
<1>10. Grew(c)
  BY <1>1, <1>5, <1>9, SetContextGrows
<1>11. a.reg < c.max_registers /\ a.at \notin {"module", "body"}
  BY <1>4, <1>7, <1>8
<1> QED
  BY <1>1, <1>4, <1>5, <1>10, <1>11, ReservedCall

\* A store into a tuple takes no register.
LEMMA StoreMemberFollows ==
  ASSUME CompilerInv, Reserved, calls # <<>>
  PROVE  /\ Follows(context, StoreMember)
         /\ StoreMember.max_registers = context.max_registers
BY TopSound, StoreMemberType, WriteCodeSound DEF StoreMember

LEMMA NextMemberReserved ==
  ASSUME CompilerInv, Reserved, NextMember
  PROVE  Reserved'
<1> DEFINE a == [top EXCEPT !.i = top.i + 1]
<1>1. Running /\ calls # <<>> /\ top.at = "member"
  BY DEF NextMember, At, Running
<1>2. top.reg < context.max_registers
  BY <1>1, TopSound DEF HoldsRegister
<1>3. a.context = top.context /\ a.at = "member" /\ a.reg = top.reg
  BY <1>1, TopFacts DEF ActivationType
<1>4. /\ SetContext(StoreMember) /\ CallFrom(a, top.expr.tuple_first)
      /\ functions' = functions
  BY DEF NextMember
<1>5. Grew(StoreMember)
  BY <1>1, <1>4, StoreMemberFollows, SetContextGrows
<1>6. a.reg < StoreMember.max_registers /\ a.at \notin {"module", "body"}
  BY <1>1, <1>2, <1>3, StoreMemberFollows
<1> HIDE DEF a
<1> QED
  BY <1>1, <1>3, <1>4, <1>5, <1>6, ReservedCall

LEMMA EndTupleReserved ==
  ASSUME CompilerInv, Reserved, EndTuple
  PROVE  Reserved'
<1>1. Running /\ calls # <<>> /\ top.at = "member"
  BY DEF EndTuple, At, Running
<1>2. top.reg < context.max_registers
  BY <1>1, TopSound DEF HoldsRegister
<1>3. SetContext(StoreMember) /\ Return(top.reg) /\ functions' = functions
  BY DEF EndTuple
<1> QED
  BY <1>1, <1>2, <1>3, StoreMemberFollows, SetContextGrows, ReservedReturn

-----------------------------------------------------------------------------
\* The context of a new function, when no freed memory is used again.
LEMMA LambdaContextSound ==
  ASSUME NEW id \in Symbol \union {INVALID_SYMBOL},
         NEW e \in Expression, e.type = "LAMBDA"
  PROVE  Sound(LambdaContext(<<>>, id, e))
<1> DEFINE z == InitCompileContext(<<>>)
           c == GetFreeIntRegister(z)
           s == IF id # INVALID_SYMBOL THEN PushBinding(c, id, 0) ELSE c
           d == GetFreeIntRegister(s)
<1>1. z \in ContextType /\ Sound(z)
  <2>1. z \in ContextType
    BY EmptySeq, BlankContextType
  <2>2. z.integer_registers = 0 /\ z.max_registers = 0 /\ z.bindings = <<>>
    BY DEF InitCompileContext
  <2> HIDE DEF z
  <2> QED
    BY <2>1, <2>2 DEF Sound
<1>2. z.integer_registers = 0 /\ z.max_registers = 0
  BY DEF InitCompileContext
<1> HIDE DEF z
<1>3. /\ c \in ContextType /\ Sound(c) /\ 0 < c.max_registers
  BY <1>1, <1>2, GetFreeIntRegisterSound DEF Follows
<1>4. c.max_registers = 1 /\ c.integer_registers = 1
  <2>1. (0 + 1) % Byte = 1
    BY BytecodeAssumption
  <2> QED
    BY <1>1, <1>2, <2>1 DEF GetFreeIntRegister, ContextType
<1> HIDE DEF c
<1>5. /\ s \in ContextType /\ Sound(s) /\ s.integer_registers = 1
  <2>1. CASE id = INVALID_SYMBOL
    BY <1>3, <1>4, <2>1
  <2>2. CASE id # INVALID_SYMBOL
    <3>1. Follows(c, PushBinding(c, id, 0))
      BY <1>3, <2>2, PushBindingSound, BytesWithin
    <3>2. PushBinding(c, id, 0).integer_registers = c.integer_registers
      BY <1>3 DEF PushBinding, ContextType
    <3> QED
      BY <1>4, <2>2, <3>1, <3>2 DEF Follows
  <2> QED
    BY <2>1, <2>2
<1>6. LambdaContext(<<>>, id, e) = PushBinding(d, e.lambda_id, 1)
  BY DEF LambdaContext, c, z
<1> HIDE DEF s
<1>7. Follows(s, d) /\ 1 < d.max_registers
  BY <1>5, GetFreeIntRegisterSound
<1>8. e.lambda_id \in Symbol
  BY Subexpressions
<1> HIDE DEF d
<1>9. Follows(d, PushBinding(d, e.lambda_id, 1))
  BY <1>7, <1>8, PushBindingSound, BytesWithin DEF Follows
<1> QED
  BY <1>6, <1>9 DEF Follows

LEMMA EnterLambdaReserved ==
  ASSUME Recycled = FALSE, CompilerInv, Reserved, EnterLambda
  PROVE  Reserved'
<1> DEFINE n == Len(calls)
           m == Len(contexts)
           new == LambdaContext(<<>>, top.self_id, top.expr)
           a == [top EXCEPT !.at = "body", !.array = array',
                            !.func_id = Len(functions)]
           b == Activation("enter", top.expr.lambda_body, m + 1)
<1>1. Running /\ calls # <<>> /\ top.at = "lambda"
  BY DEF EnterLambda, At, Running
<1>2. new \in ContextType /\ Sound(new)
  <2>1. top.self_id \in Symbol \union {INVALID_SYMBOL}
    BY <1>1, TopFacts DEF ActivationType
  <2>2. top.expr \in Expression /\ top.expr.type = "LAMBDA"
    BY <1>1, TopFacts DEF Placed, ExpressionType
  <2> QED
    BY <2>1, <2>2, EmptySeq, LambdaContextType, LambdaContextSound
<1>3. contexts' = Append(contexts, new)
  BY DEF EnterLambda
<1>4. /\ a.context = top.context /\ a.at = "body" /\ a.reg = top.reg
      /\ b.at = "enter"
  BY <1>1, TopFacts DEF ActivationType, Activation
<1>5. calls' = Append(Become(a), b)
  BY DEF EnterLambda
<1>6. functions' = Append(functions, Blank)
  BY DEF EnterLambda, AddFunction
<1> HIDE DEF a, b, new
<1>7. m \in Nat /\ Len(contexts') = m + 1 /\ contexts'[m + 1] = new
      /\ \A d \in 1 .. m : contexts'[d] = contexts[d]
  BY <1>2, <1>3, AppendProperties, LenProperties DEF CompilerInv
<1>8. n \in Nat /\ n \in 1 .. n /\ calls \in Seq(Placed)
  BY <1>1, StackTop DEF CompilerInv, Stack
<1>9. /\ Len(calls') = n + 1 /\ calls'[n + 1] = b
      /\ \A j \in 1 .. n : calls'[j] = IF j = n THEN a ELSE calls[j]
  <2> DEFINE S == Placed \union {a, b}
  <2>1. Placed \subseteq S /\ a \in S /\ b \in S
    OBVIOUS
  <2> HIDE DEF S
  <2>2. calls \in Seq(S)
    BY <1>8, <2>1, SeqMonotonic
  <2>3. /\ Become(a) \in Seq(S) /\ Len(Become(a)) = n
        /\ \A j \in 1 .. n : Become(a)[j] = IF j = n THEN a ELSE calls[j]
    BY <1>8, <2>1, <2>2, ExceptSeq DEF Become
  <2> QED
    BY <1>5, <1>8, <2>1, <2>3, AppendProperties
<1>10. \A d \in 1 .. Len(contexts') : Sound(contexts'[d])
  <2>1. \A d \in 1 .. m + 1 : d \in 1 .. m \/ d = m + 1
    BY <1>7
  <2> QED
    BY <1>2, <1>7, <2>1 DEF Reserved
<1>11. Held(calls', contexts')
  <2> SUFFICES ASSUME NEW j \in 1 .. n + 1, calls'[j].at \in HoldsRegister
               PROVE  calls'[j].reg < contexts'[calls'[j].context].max_registers
    BY <1>9 DEF Held
  <2>1. j # n + 1
    BY <1>4, <1>9 DEF HoldsRegister
  <2>2. j \in 1 .. n
    BY <1>8, <2>1
  <2>3. calls'[j].reg = calls[j].reg /\ calls'[j].context = calls[j].context
    BY <1>4, <1>9, <2>2 DEF top, Last
  <2>4. calls[j].at \in HoldsRegister
    BY <1>1, <1>9, <2>2 DEF HoldsRegister, top, Last
  <2>5. calls[j].context \in 1 .. m
    BY <2>2, StackEntry, <1>7 DEF CompilerInv
  <2> QED
    BY <1>7, <2>2, <2>3, <2>4, <2>5 DEF Reserved, Held
<1>12. top' = b
  BY <1>9 DEF top, Last
<1>13. \A id \in DOMAIN functions' : ResultReserved(functions'[id])
  <2>1. /\ DOMAIN functions' = 1 .. Len(functions) + 1
        /\ DOMAIN functions = 1 .. Len(functions)
        /\ \A id \in 1 .. Len(functions) : functions'[id] = functions[id]
        /\ functions'[Len(functions) + 1] = Blank
        /\ Len(functions) \in Nat
    BY <1>6, BlankType, AppendProperties, LenProperties DEF CompilerInv
  <2>2. \A id \in 1 .. Len(functions) + 1 :
          id \in 1 .. Len(functions) \/ id = Len(functions) + 1
    BY <2>1
  <2> QED
    BY <2>1, <2>2 DEF Reserved, ResultReserved
<1>14. top'.at \notin AwaitsResult
  BY <1>4, <1>12 DEF AwaitsResult, ExpressionType
<1> QED
  BY <1>10, <1>11, <1>13, <1>14 DEF Reserved

\* Finished functions.
LEMMA WriteResultReserved ==
  ASSUME CompilerInv, Reserved, NEW f \in FunctionType, ResultReserved(f),
         WriteResult(f)
  PROVE  \A id \in DOMAIN functions' : ResultReserved(functions'[id])
<1>1. functions \in [1 .. Len(functions) -> FunctionType]
  BY LenProperties DEF CompilerInv
<1> QED
  BY <1>1 DEF Reserved, WriteResult

LEMMA FinishReserved ==
  ASSUME NEW c \in ContextType, NEW r, r < c.max_registers, NEW id
  PROVE  ResultReserved(FinishCompile(c, r, id))
BY DEF ResultReserved, FinishCompile

LEMMA FinishLambdaReserved ==
  ASSUME CompilerInv, CompilerInv', Reserved, FinishLambda
  PROVE  Reserved'
<1> DEFINE n == Len(calls)
           h == top.context
           child == Last(contexts)
           result == FinishCompile(child, ret, top.func_id)
           loaded == WriteLoadLiteral(context, top.func_id)
           c == WriteCode(loaded, <<OP.NEW_CLOSURE, context.integer_registers,
                                    top.reg>>)
           a == [top EXCEPT !.at = "closed", !.closure = result.closure]
<1>1. calls # <<>> /\ top.at = "body"
  BY DEF FinishLambda, At
<1>2. top.func_id \in Nat /\ top.reg \in Nat
  BY <1>1, TopFacts, BytesWithin DEF ActivationType
<1>3. n \in Nat /\ n \in 1 .. n /\ calls \in Seq(Placed)
  BY <1>1, StackTop DEF CompilerInv, Stack
<1>4. Len(contexts) = h + 1 /\ h \in Nat \ {0} /\ h \in 1 .. h
  BY <1>1, StackTop DEF CompilerInv, InnerContext, top
<1>5. /\ child = contexts[h + 1] /\ h + 1 \in 1 .. Len(contexts)
      /\ child \in ContextType /\ ret < child.max_registers
  <2>1. h + 1 \in 1 .. Len(contexts)
    BY <1>4
  <2>2. ret < contexts[InnerContext(top)].max_registers
    BY <1>1 DEF Reserved, AwaitsResult, ExpressionType
  <2> QED
    BY <1>1, <1>4, <2>1, <2>2, ElementOfSeq DEF CompilerInv, InnerContext, Last
<1>6. \A id \in DOMAIN functions' : ResultReserved(functions'[id])
  <2>1. ret \in Bytes
    BY <1>1, TopFacts
  <2> HIDE DEF child
  <2>2. result \in FunctionType /\ ResultReserved(result)
    BY <1>2, <1>5, <2>1, FinishCompileType, FinishReserved
  <2>3. WriteResult(result)
    BY DEF FinishLambda, child
  <2> HIDE DEF result
  <2> QED
    BY <2>2, <2>3, WriteResultReserved
<1>7. Follows(context, c)
  <2>1. Follows(context, loaded)
    BY <1>1, <1>2, TopSound, WriteLoadLiteralSound
  <2>2. <<OP.NEW_CLOSURE, context.integer_registers, top.reg>> \in Seq(Bytes)
    BY <1>1, TopFacts, BytesWithin DEF OP
  <2> HIDE DEF loaded
  <2>3. Follows(loaded, c)
    BY <2>1, <2>2, WriteCodeType, WriteCodeSound DEF Follows
  <2> HIDE DEF c
  <2> QED
    BY <1>1, <2>1, <2>3, TopFacts, FollowsTransitive
<1>8. contexts' = [Front(contexts) EXCEPT ![h] = c]
  BY DEF FinishLambda
<1>9. calls' = Become(a)
  BY DEF FinishLambda
<1>10. a.context = h /\ a.at = "closed" /\ a.reg = top.reg
  BY <1>1, TopFacts DEF ActivationType
<1>11. /\ Len(calls') = n
       /\ \A j \in 1 .. n : calls'[j] = IF j = n THEN a ELSE calls[j]
  BY <1>3, <1>9, LenProperties DEF Become
<1> HIDE DEF a, c
<1>12. /\ Len(contexts') = h
       /\ \A d \in 1 .. h : contexts'[d] = IF d = h THEN c ELSE contexts[d]
  <2>1. \A d \in 1 .. h : contexts[d] \in ContextType
    BY <1>4, ElementOfSeq DEF CompilerInv
  <2>2. Front(contexts) = SubSeq(contexts, 1, h)
    BY <1>4 DEF Front
  <2>3. 1 \in Int /\ h \in Int
    BY <1>4
  <2> DEFINE t == SubSeq(contexts, 1, h)
  <2>4. /\ t \in Seq(ContextType)
        /\ Len(t) = IF 1 <= h THEN h - 1 + 1 ELSE 0
        /\ \A d \in 1 .. h - 1 + 1 : t[d] = contexts[1 + d - 1]
    <3> HIDE DEF h
    <3> QED
      BY <2>1, <2>3, SubSeqProperties
  <2> HIDE DEF t
  <2>5. Len(t) = h
    BY <1>4, <2>4
  <2>6. \A d \in 1 .. h : t[d] = contexts[d]
    <3> TAKE d \in 1 .. h
    <3>1. d \in 1 .. h - 1 + 1 /\ 1 + d - 1 = d
      BY <1>4
    <3> QED
      BY <2>4, <3>1
  <2>7. contexts' = [t EXCEPT ![h] = c] /\ c \in ContextType
    BY <1>7, <1>8, <2>2 DEF t, Follows
  <2> HIDE DEF h
  <2> QED
    BY <1>4, <2>4, <2>5, <2>6, <2>7, ExceptSeq
<1>13. \A d \in 1 .. Len(contexts') : Sound(contexts'[d])
  BY <1>4, <1>7, <1>12 DEF Reserved, Follows
<1>14. context.max_registers <= c.max_registers /\ context.max_registers \in Nat
       /\ c.max_registers \in Nat
  BY <1>1, <1>7, TopFacts, ContextFields DEF Follows
<1>15. Held(calls', contexts')
  <2> SUFFICES ASSUME NEW j \in 1 .. n, calls'[j].at \in HoldsRegister
               PROVE  calls'[j].reg < contexts'[calls'[j].context].max_registers
    BY <1>11 DEF Held
  <2>1. CASE j = n
    <3>1. calls'[j] = a /\ contexts'[a.context] = c
      BY <1>4, <1>10, <1>11, <1>12, <2>1
    <3>2. top.reg < context.max_registers
      BY <1>1, TopSound DEF HoldsRegister
    <3> QED
      BY <1>2, <1>10, <1>14, <3>1, <3>2
  <2>2. CASE j # n
    <3> DEFINE d == calls[j].context
    <3>1. calls'[j] = calls[j] /\ j < n
      BY <1>3, <1>11, <2>2
    <3>2. InnerContext(calls[j]) <= h
      BY <1>3, <3>1 DEF CompilerInv, Stack, top, Last
    <3>3. d \in 1 .. h /\ calls[j] \in Placed
      <4>1. /\ calls[j] \in Placed /\ d \in Nat /\ InnerContext(calls[j]) \in Nat
            /\ 1 <= d /\ d <= InnerContext(calls[j])
        BY StackEntry DEF CompilerInv
      <4> HIDE DEF d, h
      <4> QED
        BY <1>4, <3>2, <4>1
    <3>4. calls[j].reg \in Nat
      BY <3>3, BytesWithin DEF Placed, ActivationType
    <3>5. calls[j].reg < contexts[d].max_registers
      BY <3>1 DEF Reserved, Held
    <3>6. contexts'[d].max_registers >= contexts[d].max_registers
          /\ contexts[d].max_registers \in Nat
          /\ contexts'[d].max_registers \in Nat
      <4>1. CASE d = h
        BY <1>4, <1>12, <1>14, <4>1 DEF context
      <4>2. CASE d # h
        <5>1. contexts'[d] = contexts[d] /\ d \in 1 .. Len(contexts)
          BY <1>4, <1>12, <3>3, <4>2
        <5>2. contexts[d] \in ContextType
          BY <5>1, ElementOfSeq DEF CompilerInv
        <5> QED
          BY <5>1, <5>2, ContextFields
      <4> QED
        BY <4>1, <4>2
    <3> HIDE DEF d
    <3> QED
      BY <3>1, <3>4, <3>5, <3>6 DEF d
  <2> QED
    BY <2>1, <2>2
<1>16. top'.at \notin AwaitsResult
  <2>1. top' = a
    BY <1>3, <1>11 DEF top, Last
  <2> QED
    BY <1>10, <2>1 DEF AwaitsResult
<1> QED
  BY <1>6, <1>13, <1>15, <1>16 DEF Reserved

LEMMA FinishModuleReserved ==
  ASSUME CompilerInv, Reserved, FinishModule
  PROVE  Reserved'
<1>1. calls # <<>> /\ top.at = "module"
  BY DEF FinishModule, At
<1>2. top.func_id \in Nat /\ ret \in Bytes /\ context \in ContextType
  BY <1>1, TopFacts DEF ActivationType
<1>3. ret < context.max_registers
  BY <1>1 DEF Reserved, AwaitsResult, InnerContext, context
<1> DEFINE f == FinishCompile(context, ret, top.func_id)
<1>4. f \in FunctionType /\ ResultReserved(f)
  BY <1>2, <1>3, FinishCompileType, FinishReserved
<1>5. WriteResult(f)
  BY DEF FinishModule
<1> HIDE DEF f
<1>6. \A id \in DOMAIN functions' : ResultReserved(functions'[id])
  BY <1>4, <1>5, WriteResultReserved
<1>7. calls' = <<>> /\ contexts' = <<>>
  BY <1>1, StackFront DEF CompilerInv, FinishModule, Return, top
<1> QED
  BY <1>6, <1>7, EmptySeq DEF Reserved, Held

-----------------------------------------------------------------------------
\* The invariant holds at the start and every step keeps it.
LEMMA ReservedInit == Init => Reserved
<1> SUFFICES ASSUME Init
             PROVE  Reserved
  OBVIOUS
<1> DEFINE z == InitCompileContext(<<>>)
<1>1. Sound(z)
  <2>1. z.integer_registers = 0 /\ z.max_registers = 0 /\ z.bindings = <<>>
    BY DEF InitCompileContext
  <2> HIDE DEF z
  <2> QED
    BY <2>1 DEF Sound
<1>2. Len(contexts) = 1 /\ contexts[1] = z
  BY DEF Init
<1>3. calls[1].at = "module" /\ calls[2].at = "enter" /\ Len(calls) = 2
  BY DEF Init, Activation
<1>4. Held(calls, contexts)
  BY <1>3 DEF Held, HoldsRegister
<1>5. top.at \notin AwaitsResult
  BY <1>3 DEF top, Last, AwaitsResult, ExpressionType
<1>6. \A id \in DOMAIN functions : ResultReserved(functions[id])
  BY DEF Init, ResultReserved
<1> HIDE DEF z
<1> QED
  BY <1>1, <1>2, <1>4, <1>5, <1>6 DEF Reserved

LEMMA ReservedStep ==
  ASSUME Recycled = FALSE, CompilerInv, Reserved, [CompileNext]_vars
  PROVE  Reserved'
<1>1. CompilerInv'
  BY CompilerStep
<1>2. CASE UNCHANGED vars
  BY <1>2 DEF vars, Reserved, Held, top
<1>3. CASE CompileNext
  BY <1>1, <1>3, LiteralReserved, IdentifierReserved, LambdaReserved,
     EnterLambdaReserved, FinishLambdaReserved, CloseVariableReserved,
     ReturnClosureReserved, DescendingReserved, BindLetReserved,
     EndLetReserved, RejectLetRecReserved, LetRecReserved, SecondReserved,
     OperatorReserved, ThenReserved, ElseReserved, EndIfReserved,
     TupleReserved, NextMemberReserved, EndTupleReserved, FinishModuleReserved
     DEF CompileNext
<1> QED
  BY <1>2, <1>3

\* Every register number in use in the compiler is below the number of
\* registers counted for its function, and so one that the machine allocates:
\* _GetFreeIntRegister counts, _PushBinding and the compile functions hold.
\* Freed memory that malloc hands out again is excluded: the lookup in
\* _CompileIdentifierImpl reads one binding too many.
THEOREM RegistersAlwaysReserved ==
  ASSUME Recycled = FALSE
  PROVE  CompileSpec => []RegistersReserved
<1>1. Init => CompilerInv /\ Reserved
  BY CompilerInit, ReservedInit
<1>2. CompilerInv /\ Reserved /\ [CompileNext]_vars => (CompilerInv /\ Reserved)'
  BY CompilerStep, ReservedStep
<1>3. CompilerInv /\ Reserved => RegistersReserved
  BY ReservedSuffices
<1> QED
  BY <1>1, <1>2, <1>3, PTL DEF CompileSpec

-----------------------------------------------------------------------------
(***************************************************************************)
(* Flattening a sequence of sequences: a recursive function, which exists  *)
(* for every length and depends only on what it flattens.                  *)
(***************************************************************************)
IsFlatten(f, ss, n) ==
  f = [i \in 1 .. n |-> IF i = 1 THEN ss[i] ELSE f[i - 1] \o ss[i]]

Agree(f, g, n) == \A i \in 1 .. n : f[i] = g[i]

LEMMA FlattenRound ==
  ASSUME NEW ss, NEW n \in Nat, NEW f, IsFlatten(f, ss, n), NEW i \in 1 .. n
  PROVE  f[i] = IF i = 1 THEN ss[i] ELSE f[i - 1] \o ss[i]
BY DEF IsFlatten

LEMMA FlattenExists ==
  ASSUME NEW S, NEW ss, NEW n \in Nat, \A i \in 1 .. n : ss[i] \in Seq(S)
  PROVE  \E f \in [1 .. n -> Seq(S)] : IsFlatten(f, ss, n)
<1> DEFINE Fails == { m \in 0 .. n : ~ \E f \in [1 .. m -> Seq(S)] : IsFlatten(f, ss, m) }
<1>1. ASSUME Fails # {}
      PROVE  FALSE
  <2>1. Fails \in SUBSET Nat
    OBVIOUS
  <2>2. PICK m \in Fails : \A k \in Fails : m <= k
    <3> HIDE DEF Fails
    <3> QED
      BY <1>1, <2>1, LeastNatural
  <2>3. m \in 0 .. n
    OBVIOUS
  <2>4. m # 0
    <3> DEFINE f == [i \in 1 .. 0 |-> <<>>]
    <3>1. 1 .. 0 = {}
      OBVIOUS
    <3>2. f \in [1 .. 0 -> Seq(S)] /\ IsFlatten(f, ss, 0)
      BY <3>1 DEF IsFlatten
    <3> QED
      BY <3>2
  <2>5. PICK f \in [1 .. m - 1 -> Seq(S)] : IsFlatten(f, ss, m - 1)
    <3>1. m - 1 \in 0 .. n
      BY <2>3, <2>4
    <3>2. m - 1 \notin Fails
      <4> HIDE DEF Fails
      <4> QED
        BY <2>2, <2>3
    <3> QED
      BY <3>1, <3>2
  <2> DEFINE last == IF m = 1 THEN ss[m] ELSE f[m - 1] \o ss[m]
             g == [i \in 1 .. m |-> IF i < m THEN f[i] ELSE last]
  <2>6. last \in Seq(S)
    <3>1. m \in 1 .. n
      BY <2>3, <2>4
    <3>2. CASE m = 1
      BY <3>1, <3>2
    <3>3. CASE m # 1
      <4>1. m - 1 \in 1 .. m - 1
        BY <3>1, <3>3
      <4> QED
        BY <3>1, <3>3, <4>1, ConcatProperties
    <3> QED
      BY <3>2, <3>3
  <2> HIDE DEF last
  <2>7. g \in [1 .. m -> Seq(S)] /\ DOMAIN g = 1 .. m
    BY <2>3, <2>6
  <2>8. \A i \in 1 .. m - 1 : g[i] = f[i] /\ i < m /\ i \in 1 .. m
    BY <2>3
  <2>9. g[m] = last
    BY <2>3, <2>4
  <2>10. \A i \in 1 .. m : g[i] = IF i = 1 THEN ss[i] ELSE g[i - 1] \o ss[i]
    <3> TAKE i \in 1 .. m
    <3>1. CASE i = m
      <4>1. m # 1 => m - 1 \in 1 .. m - 1
        BY <2>3, <2>4
      <4> QED
        BY <2>8, <2>9, <3>1, <4>1 DEF last
    <3>2. CASE i # m
      <4>1. i \in 1 .. m - 1 /\ (i # 1 => i - 1 \in 1 .. m - 1)
        BY <2>3, <3>2
      <4>2. f[i] = IF i = 1 THEN ss[i] ELSE f[i - 1] \o ss[i]
        BY <2>5, <4>1 DEF IsFlatten
      <4> QED
        BY <2>8, <4>1, <4>2
    <3> QED
      BY <3>1, <3>2
  <2> HIDE DEF g
  <2>11. g = [i \in 1 .. m |-> IF i = 1 THEN ss[i] ELSE g[i - 1] \o ss[i]]
    BY <2>7, <2>10
  <2> QED
    BY <2>2, <2>7, <2>11 DEF IsFlatten
<1>2. n \in 0 .. n
  OBVIOUS
<1> QED
  BY <1>1, <1>2

LEMMA FlattenUnique ==
  ASSUME NEW m \in Nat, NEW n \in Nat, m <= n,
         NEW ss, NEW tt, Agree(ss, tt, m),
         NEW f, IsFlatten(f, ss, m), NEW g, IsFlatten(g, tt, n)
  PROVE  Agree(f, g, m)
<1> USE DEF Agree
<1> DEFINE Differ == { i \in 1 .. m : f[i] # g[i] }
<1>1. ASSUME Differ # {}
      PROVE  FALSE
  <2>1. Differ \in SUBSET Nat
    OBVIOUS
  <2>2. PICK i \in Differ : \A k \in Differ : i <= k
    <3> HIDE DEF Differ
    <3> QED
      BY <1>1, <2>1, LeastNatural
  <2>3. i \in 1 .. m /\ i \in 1 .. n
    OBVIOUS
  <2>4. /\ f[i] = IF i = 1 THEN ss[i] ELSE f[i - 1] \o ss[i]
        /\ g[i] = IF i = 1 THEN tt[i] ELSE g[i - 1] \o tt[i]
    BY <2>3, FlattenRound
  <2>5. i # 1 => f[i - 1] = g[i - 1]
    <3>1. i - 1 \notin Differ
      <4> HIDE DEF Differ
      <4> QED
        BY <2>2, <2>3
    <3> QED
      BY <2>3, <3>1
  <2> QED
    BY <2>3, <2>4, <2>5
<1> QED
  BY <1>1

\* What FlattenSeq picks.
LEMMA FlattenIs ==
  ASSUME NEW S, NEW ss \in Seq(Seq(S)), ss # <<>>
  PROVE  \E f : /\ f \in [1 .. Len(ss) -> Seq(S)] /\ IsFlatten(f, ss, Len(ss))
                /\ FlattenSeq(ss) = f[Len(ss)]
<1> DEFINE n == Len(ss)
           f == CHOOSE f : IsFlatten(f, ss, n)
<1>1. n \in Nat /\ n # 0
  BY EmptySeq, LenProperties
<1>2. FlattenSeq(ss) = f[n]
  BY <1>1, Zenon DEF FlattenSeq, IsFlatten
<1>3. \A i \in 1 .. n : ss[i] \in Seq(S)
  BY ElementOfSeq
<1> HIDE DEF n
<1>4. PICK g \in [1 .. n -> Seq(S)] : IsFlatten(g, ss, n)
  BY <1>1, <1>3, FlattenExists
<1>5. IsFlatten(f, ss, n)
  <2>1. \E h : IsFlatten(h, ss, n)
    BY <1>4
  <2> QED
    BY <2>1, Zenon
<1> HIDE DEF f
<1>6. Agree(f, g, n)
  <2>1. Agree(ss, ss, n) /\ n <= n
    BY <1>1 DEF Agree
  <2> QED
    BY <1>1, <1>4, <1>5, <2>1, FlattenUnique
<1>7. n \in 1 .. n
  BY <1>1
<1> QED
  BY <1>2, <1>4, <1>6, <1>7 DEF n, Agree

LEMMA FlattenOneMore ==
  ASSUME NEW S, NEW ss \in Seq(Seq(S)), NEW tt \in Seq(Seq(S)), NEW s \in Seq(S),
         NEW n \in Nat, n = Len(ss), NEW k \in Nat, k = n + 1, k = Len(tt),
         tt[k] = s, Agree(ss, tt, n)
  PROVE  /\ FlattenSeq(ss) \in Seq(S)
         /\ FlattenSeq(tt) = FlattenSeq(ss) \o s
<1>1. PICK g : IsFlatten(g, tt, k) /\ FlattenSeq(tt) = g[k]
  <2>1. tt # <<>>
    BY EmptySeq
  <2> QED
    BY <2>1, FlattenIs
<1>2. g[k] = IF k = 1 THEN s ELSE g[n] \o s
  <2>1. k \in 1 .. k /\ k - 1 = n
    OBVIOUS
  <2>2. g[k] = IF k = 1 THEN tt[k] ELSE g[k - 1] \o tt[k]
    BY <1>1, <2>1, FlattenRound
  <2> QED
    BY <2>1, <2>2
<1>3. CASE n = 0
  <2>1. ss = <<>> /\ FlattenSeq(ss) = <<>>
    BY <1>3, EmptySeq DEF FlattenSeq
  <2>2. FlattenSeq(tt) = s /\ <<>> \o s = s /\ <<>> \in Seq(S)
    BY <1>1, <1>2, <1>3, ConcatEmptySeq, EmptySeq
  <2> QED
    BY <2>1, <2>2
<1>4. CASE n # 0
  <2>1. PICK f : f \in [1 .. n -> Seq(S)] /\ IsFlatten(f, ss, n) /\ FlattenSeq(ss) = f[n]
    <3>1. ss # <<>>
      BY <1>4, EmptySeq
    <3> QED
      BY <3>1, FlattenIs
  <2>2. n \in 1 .. n /\ n <= k /\ k # 1
    BY <1>4
  <2>3. Agree(f, g, n)
    BY <1>1, <2>1, <2>2, FlattenUnique
  <2>4. f[n] = g[n] /\ f[n] \in Seq(S)
    BY <2>1, <2>2, <2>3 DEF Agree
  <2> QED
    BY <1>1, <1>2, <2>1, <2>2, <2>4
<1> QED
  BY <1>3, <1>4

LEMMA FlattenAppend ==
  ASSUME NEW S, NEW ss \in Seq(Seq(S)), NEW s \in Seq(S)
  PROVE  /\ FlattenSeq(ss) \in Seq(S)
         /\ FlattenSeq(Append(ss, s)) = FlattenSeq(ss) \o s
<1> PICK n \in Nat : n = Len(ss)
  BY LenProperties
<1> PICK k \in Nat : k = n + 1
  OBVIOUS
<1>1. SUFFICES ASSUME NEW tt, tt = Append(ss, s)
               PROVE  /\ FlattenSeq(ss) \in Seq(S)
                      /\ FlattenSeq(tt) = FlattenSeq(ss) \o s
  OBVIOUS
<1>2. tt \in Seq(Seq(S)) /\ k = Len(tt) /\ tt[k] = s /\ Agree(ss, tt, n)
  BY <1>1, AppendProperties DEF Agree
<1> QED
  BY <1>2, FlattenOneMore

-----------------------------------------------------------------------------
\* What an activation binds are names.
LEMMA BindersType ==
  ASSUME NEW a \in Placed, NEW d
  PROVE  Binders(a, d) \in Seq(Symbol)
<1>1. /\ a \in ActivationType /\ a.expr \in Expression
      /\ a.self_id \in Symbol \union {INVALID_SYMBOL}
  BY DEF Placed, ActivationType
<1>2. /\ a.at \in {"let_body", "rec_value"} => a.expr.let_id \in Symbol
      /\ a.at = "body" => a.expr.lambda_id \in Symbol
  <2>1. /\ a.at \in {"let_body", "rec_value"} => a.expr.type \in {"LET", "LETREC"}
        /\ a.at = "body" => a.expr.type = "LAMBDA"
    BY DEF Placed, ExpressionType
  <2> QED
    BY <1>1, <2>1, CompilerAssumption DEF WellFormed
<1>3. \A id \in Symbol : <<id>> \in Seq(Symbol) /\ <<>> \in Seq(Symbol)
  BY EmptySeq
<1>4. \A id, self \in Symbol : <<self>> \o <<id>> \in Seq(Symbol)
                               /\ <<>> \o <<id>> \in Seq(Symbol)
  BY <1>3, ConcatProperties
<1>5. CASE a.at \in {"let_body", "rec_value"}
  BY <1>2, <1>3, <1>5 DEF Binders
<1>6. CASE a.at = "body"
  BY <1>1, <1>2, <1>3, <1>4, <1>6 DEF Binders
<1>7. CASE a.at \notin {"let_body", "rec_value", "body"}
  BY <1>3, <1>7 DEF Binders
<1> QED
  BY <1>5, <1>6, <1>7

\* One activation more: the names it binds come last.
LEMMA ScopeAppend ==
  ASSUME NEW s \in Seq(Placed), NEW a \in Placed, NEW d
  PROVE  /\ NamesInScope(s, d) \in Seq(Symbol)
         /\ NamesInScope(Append(s, a), d) = NamesInScope(s, d) \o Binders(a, d)
<1> DEFINE ss == [k \in DOMAIN s |-> Binders(s[k], d)]
           t == Append(s, a)
           tt == [k \in DOMAIN t |-> Binders(t[k], d)]
           n == Len(s)
           b == Binders(a, d)
<1>1. /\ n \in Nat /\ DOMAIN s = 1 .. n /\ DOMAIN t = 1 .. n + 1
      /\ t[n + 1] = a /\ \A k \in 1 .. n : t[k] = s[k] /\ s[k] \in Placed
  BY AppendProperties, LenProperties, ElementOfSeq
<1>2. b \in Seq(Symbol) /\ \A k \in 1 .. n : Binders(s[k], d) \in Seq(Symbol)
  BY <1>1, BindersType
<1> HIDE DEF t, n
<1>3. ss \in Seq(Seq(Symbol)) /\ Len(ss) = n
  <2>1. ss \in [1 .. n -> Seq(Symbol)]
    BY <1>1, <1>2
  <2>2. ss \in Seq(Seq(Symbol))
    BY <1>1, <2>1, SeqDef
  <2> QED
    BY <1>1, <2>1, <2>2, LenProperties
<1>4. tt = Append(ss, b)
  <2> DEFINE u == Append(ss, b)
  <2>1. /\ u \in Seq(Seq(Symbol)) /\ Len(u) = n + 1 /\ u[n + 1] = b
        /\ \A k \in 1 .. n : u[k] = ss[k]
    BY <1>1, <1>2, <1>3, AppendProperties
  <2>2. DOMAIN u = 1 .. n + 1
    BY <2>1, LenProperties
  <2>3. u = [k \in 1 .. n + 1 |-> u[k]]
    <3> HIDE DEF u
    <3> QED
      BY <2>1, <2>2, LenProperties
  <2>4. /\ tt[n + 1] = b /\ DOMAIN tt = 1 .. n + 1
        /\ \A k \in 1 .. n : tt[k] = ss[k]
    BY <1>1
  <2>5. \A k \in 1 .. n + 1 : k \in 1 .. n \/ k = n + 1
    BY <1>1
  <2>6. tt = [k \in 1 .. n + 1 |-> tt[k]]
    BY <1>1
  <2> HIDE DEF u, tt, ss, b
  <2>7. \A k \in 1 .. n + 1 : tt[k] = u[k]
    BY <2>1, <2>4, <2>5
  <2> QED
    BY <2>3, <2>6, <2>7 DEF u
<1> HIDE DEF ss, tt, b
<1>5. FlattenSeq(ss) \in Seq(Symbol) /\ FlattenSeq(tt) = FlattenSeq(ss) \o b
  BY <1>2, <1>3, <1>4, FlattenAppend
<1> QED
  BY <1>5 DEF NamesInScope, ss, tt, t, b

LEMMA ScopesType ==
  ASSUME NEW s \in Seq(Placed), NEW d
  PROVE  NamesInScope(s, d) \in Seq(Symbol)
<1>1. CASE s = <<>>
  <2>1. [k \in DOMAIN s |-> Binders(s[k], d)] = <<>>
    BY <1>1
  <2> QED
    BY <2>1, EmptySeq DEF NamesInScope, FlattenSeq
<1>2. CASE s # <<>>
  <2>1. PICK t \in Seq(Placed), a \in Placed : s = Append(t, a)
    BY <1>2, SequenceEmptyOrAppend
  <2> QED
    BY <2>1, ScopeAppend, BindersType, ConcatProperties
<1> QED
  BY <1>1, <1>2

\* An activation that binds nothing.
Binds(a) == a.at \in {"let_body", "rec_value", "body"}

LEMMA ScopeSame ==
  ASSUME NEW s \in Seq(Placed), NEW a \in Placed, NEW d, Binders(a, d) = <<>>
  PROVE  NamesInScope(Append(s, a), d) = NamesInScope(s, d)
BY ScopeAppend, ConcatEmptySeq

LEMMA NoBinders ==
  ASSUME NEW a, NEW d, ~ Binds(a)
  PROVE  Binders(a, d) = <<>>
BY DEF Binds, Binders

LEMMA ScopeNoBinders ==
  ASSUME NEW s \in Seq(Placed), NEW a \in Placed, NEW d, ~ Binds(a)
  PROVE  NamesInScope(Append(s, a), d) = NamesInScope(s, d)
<1>1. Binders(a, d) = <<>>
  BY NoBinders
<1> QED
  BY <1>1, ScopeSame

-----------------------------------------------------------------------------
(***************************************************************************)
(* The bindings of a context are names when it has bound just those.       *)
(***************************************************************************)
HasBound(c, names) ==
  /\ c.binding_top \in Nat /\ c.binding_top <= Len(c.bindings)
  /\ Len(names) = c.binding_top
  /\ \A k \in 1 .. c.binding_top : c.bindings[k].symbol = names[k]

LEMMA HasBoundSuffices ==
  ASSUME NEW c \in ContextType, NEW names \in Seq(Symbol), HasBound(c, names)
  PROVE  LiveNames(c) = names
<1> DEFINE n == c.binding_top
           live == SubSeq(c.bindings, 1, n)
<1>1. /\ c.bindings \in Seq(Binding) /\ n \in Nat
      /\ Len(c.bindings) \in Nat /\ n <= Len(c.bindings)
  BY LenProperties DEF HasBound, ContextType
<1>2. \A k \in 1 .. n : c.bindings[k] \in Binding
  <2>1. \A k \in 1 .. n : k \in 1 .. Len(c.bindings)
    BY <1>1
  <2> QED
    BY <1>1, <2>1, ElementOfSeq
<1>3. /\ live \in Seq(Binding)
      /\ Len(live) = IF 1 <= n THEN n - 1 + 1 ELSE 0
      /\ \A k \in 1 .. n - 1 + 1 : live[k] = c.bindings[1 + k - 1]
  <2> HIDE DEF n
  <2> QED
    BY <1>1, <1>2, SubSeqProperties
<1>4. DOMAIN live = 1 .. n /\ \A k \in 1 .. n : live[k] = c.bindings[k]
  <2>1. Len(live) = n /\ n - 1 + 1 = n /\ \A k \in 1 .. n : 1 + k - 1 = k
    BY <1>1, <1>3
  <2> HIDE DEF live, n
  <2> QED
    BY <1>3, <2>1, LenProperties
<1>5. names \in [1 .. n -> Symbol] /\ \A k \in 1 .. n : c.bindings[k].symbol = names[k]
  <2>1. Len(names) = n /\ DOMAIN names = 1 .. Len(names)
    BY LenProperties DEF HasBound
  <2> QED
    BY <2>1 DEF HasBound
<1> HIDE DEF live, n
<1>6. names = [k \in 1 .. n |-> live[k].symbol]
  BY <1>4, <1>5
<1> QED
  BY <1>4, <1>6 DEF LiveNames, live, n

LEMMA PushBindingBinds ==
  ASSUME NEW c \in ContextType, NEW names \in Seq(Symbol), HasBound(c, names),
         NEW id \in Symbol, NEW r \in Bytes
  PROVE  /\ HasBound(PushBinding(c, id, r), names \o <<id>>)
         /\ PushBinding(c, id, r).closure_symbols = c.closure_symbols
<1> DEFINE b == [symbol |-> id, reg |-> r]
           n == c.binding_top
           d == PushBinding(c, id, r)
           s == IF n < Len(c.bindings) THEN [c.bindings EXCEPT ![n + 1] = b]
                                       ELSE Append(c.bindings, b)
           more == names \o <<id>>
<1>1. b.symbol = id /\ b \in Binding
  BY DEF Binding
<1>2. /\ c.bindings \in Seq(Binding) /\ n \in Nat /\ Len(c.bindings) \in Nat
      /\ DOMAIN c.bindings = 1 .. Len(c.bindings) /\ n <= Len(c.bindings)
      /\ Len(names) = n /\ \A k \in 1 .. n : c.bindings[k].symbol = names[k]
  BY LenProperties DEF HasBound, ContextType
<1>3. /\ d.binding_top = n + 1 /\ d.bindings = s
      /\ d.closure_symbols = c.closure_symbols
  BY DEF PushBinding, ContextType
<1> HIDE DEF b, d, n
<1>4. /\ n + 1 <= Len(s) /\ s[n + 1] = b /\ \A k \in 1 .. n : s[k] = c.bindings[k]
  <2>1. CASE n < Len(c.bindings)
    <3>1. s = [c.bindings EXCEPT ![n + 1] = b]
      BY <2>1
    <3>2. s \in Seq(Binding) /\ DOMAIN s = DOMAIN c.bindings
      BY <1>1, <1>2, <3>1, ExceptSeq
    <3>3. n + 1 \in 1 .. Len(c.bindings) /\ \A k \in 1 .. n : k # n + 1 /\ k \in 1 .. Len(c.bindings)
      BY <1>2, <2>1
    <3>4. Len(s) = Len(c.bindings)
      <4> HIDE DEF s
      <4> QED
        BY <1>2, <3>2, LenProperties
    <3> QED
      BY <1>2, <3>1, <3>3, <3>4
  <2>2. CASE ~ (n < Len(c.bindings))
    <3>1. s = Append(c.bindings, b) /\ n = Len(c.bindings)
      BY <1>2, <2>2
    <3> HIDE DEF s
    <3> QED
      BY <1>1, <1>2, <3>1, AppendProperties
  <2> QED
    BY <2>1, <2>2
<1>5. /\ Len(more) = n + 1 /\ more[n + 1] = id
      /\ \A k \in 1 .. n : more[k] = names[k]
  <2>1. <<id>> \in Seq(Symbol) /\ Len(<<id>>) = 1 /\ <<id>>[1] = id
    OBVIOUS
  <2> DEFINE one == <<id>>
  <2> HIDE DEF one
  <2>2. /\ Len(names \o one) = n + 1
        /\ \A k \in 1 .. n + 1 :
             (names \o one)[k] = IF k <= n THEN names[k] ELSE one[k - n]
    BY <1>2, <2>1, ConcatProperties DEF one
  <2>3. n + 1 \in 1 .. n + 1 /\ ~ (n + 1 <= n) /\ n + 1 - n = 1
    BY <1>2
  <2>4. \A k \in 1 .. n : k \in 1 .. n + 1 /\ k <= n
    BY <1>2
  <2> QED
    BY <2>1, <2>2, <2>3, <2>4 DEF one
<1> HIDE DEF s, more
<1>6. \A k \in 1 .. n + 1 : k \in 1 .. n \/ k = n + 1
  BY <1>2
<1>7. HasBound(d, more)
  BY <1>1, <1>2, <1>3, <1>4, <1>5, <1>6 DEF HasBound
<1> QED
  BY <1>3, <1>7 DEF d, more

LEMMA PopBindingBinds ==
  ASSUME NEW c \in ContextType, NEW names \in Seq(Symbol), NEW id \in Symbol,
         HasBound(c, names \o <<id>>)
  PROVE  /\ HasBound(PopBinding(c), names)
         /\ PopBinding(c).closure_symbols = c.closure_symbols
<1> DEFINE n == Len(names)
           d == PopBinding(c)
           more == names \o <<id>>
           one == <<id>>
<1>1. n \in Nat /\ one \in Seq(Symbol) /\ Len(one) = 1
  BY LenProperties
<1> HIDE DEF one
<1>2. /\ Len(more) = n + 1
      /\ \A k \in 1 .. n + 1 : more[k] = IF k <= n THEN names[k] ELSE one[k - n]
  BY <1>1, ConcatProperties DEF one
<1>3. \A k \in 1 .. n : k \in 1 .. n + 1 /\ k <= n
  BY <1>1
<1>4. /\ d.binding_top = c.binding_top - 1 /\ d.bindings = c.bindings
      /\ d.closure_symbols = c.closure_symbols
  BY DEF PopBinding, ContextType
<1>5. /\ c.binding_top \in Nat /\ c.binding_top <= Len(c.bindings)
      /\ Len(more) = c.binding_top
      /\ \A k \in 1 .. c.binding_top : c.bindings[k].symbol = more[k]
  BY DEF HasBound
<1>6. Len(c.bindings) \in Nat
  BY LenProperties DEF ContextType
<1> HIDE DEF d, n, more
<1>7. c.binding_top = n + 1 /\ d.binding_top = n /\ n <= Len(c.bindings)
  BY <1>1, <1>2, <1>4, <1>5, <1>6
<1>8. HasBound(d, names)
  BY <1>1, <1>2, <1>3, <1>4, <1>5, <1>7 DEF HasBound, n
<1> QED
  BY <1>4, <1>8 DEF d

-----------------------------------------------------------------------------
\* The other helpers change no binding and no closure.
Shape(c) == {"bindings", "binding_top", "closure_symbols"} \subseteq DOMAIN c

SameBindings(c, d) ==
  Shape(d) /\ d.bindings = c.bindings /\ d.binding_top = c.binding_top

SameScope(c, d) == SameBindings(c, d) /\ d.closure_symbols = c.closure_symbols

LEMMA ContextShape ==
  ASSUME NEW c \in ContextType
  PROVE  Shape(c)
BY DEF ContextType, Shape

LEMMA WriteCodeScope ==
  ASSUME NEW c, Shape(c), NEW bytes
  PROVE  SameScope(c, WriteCode(c, bytes))
BY DEF SameScope, SameBindings, WriteCode, Shape

LEMMA HelpersKeepScope ==
  ASSUME NEW c, Shape(c)
  PROVE  /\ SameScope(c, c)
         /\ SameScope(c, GetFreeIntRegister(c))
         /\ \A v : SameScope(c, WriteLoadLiteral(c, v))
         /\ \A loc : SameScope(c, PatchJump(c, loc))
<1>1. SameScope(c, GetFreeIntRegister(c))
  BY DEF SameScope, SameBindings, GetFreeIntRegister, Shape
<1>2. ASSUME NEW loc
      PROVE  SameScope(c, PatchJump(c, loc))
  BY DEF SameScope, SameBindings, PatchJump, Shape
<1>3. ASSUME NEW v
      PROVE  SameScope(c, WriteLoadLiteral(c, v))
  <2> DEFINE d == GetFreeIntRegister(c)
             bytes == LoadImmediate(v, c.integer_registers)
  <2>1. Shape(d)
    BY <1>1 DEF SameScope, SameBindings
  <2>2. WriteLoadLiteral(c, v) = WriteCode(d, bytes)
    BY DEF WriteLoadLiteral
  <2> HIDE DEF d, bytes
  <2>3. SameScope(d, WriteCode(d, bytes))
    BY <2>1, WriteCodeScope
  <2> QED
    BY <1>1, <2>2, <2>3 DEF SameScope, SameBindings, d
<1>4. SameScope(c, c)
  BY DEF SameScope, SameBindings
<1> QED
  BY <1>1, <1>2, <1>3, <1>4

LEMMA ScopesCompose ==
  ASSUME NEW c, NEW d, SameScope(c, d), NEW e, SameScope(d, e)
  PROVE  SameScope(c, e)
BY DEF SameScope, SameBindings

LEMMA SameBindingsBound ==
  ASSUME NEW c, NEW d, SameBindings(c, d), NEW names, HasBound(c, names)
  PROVE  HasBound(d, names)
BY DEF SameBindings, HasBound

\* A name that is bound is found; one that is not becomes a closed variable.
LEMMA IdentifierScope ==
  ASSUME NEW c \in ContextType, NEW id \in Symbol
  PROVE  /\ SameBindings(c, IdentifierContext(c, id))
         /\ ToSet(IdentifierContext(c, id).closure_symbols)
              \subseteq ToSet(c.closure_symbols) \union {id}
         /\ \A k \in 1 .. c.binding_top :
              k \in DOMAIN c.bindings /\ c.bindings[k].symbol = id =>
                SameScope(c, IdentifierContext(c, id))
<1>1. CASE Bound(c, id) # {}
  BY <1>1, ContextShape DEF IdentifierContext, SameScope, SameBindings
<1>2. CASE Bound(c, id) = {}
  <2> DEFINE offset == ClosureOffset(c, id)
             names == IF offset = Len(c.closure_symbols)
                      THEN Append(c.closure_symbols, id) ELSE c.closure_symbols
             closed == [c EXCEPT !.closure_symbols = names]
             d == GetFreeIntRegister(closed)
             bytes == <<OP.LOADA_64, 0>> \o U16(ClosureSlot(offset))
                        \o <<c.integer_registers>>
  <2>1. c.closure_symbols \in Seq(Symbol)
    BY DEF ContextType
  <2>2. ToSet(names) \subseteq ToSet(c.closure_symbols) \union {id}
    <3>1. CASE names = c.closure_symbols
      BY <3>1
    <3>2. CASE names = Append(c.closure_symbols, id)
      <4> DEFINE m == Len(c.closure_symbols)
      <4>1. /\ DOMAIN c.closure_symbols = 1 .. m /\ m \in Nat
            /\ DOMAIN names = 1 .. m + 1 /\ names[m + 1] = id
            /\ \A k \in 1 .. m : names[k] = c.closure_symbols[k]
        <5> HIDE DEF names
        <5> QED
          BY <2>1, <3>2, AppendProperties, LenProperties
      <4> HIDE DEF m, names
      <4>2. \A k \in 1 .. m + 1 : k \in 1 .. m \/ k = m + 1
        BY <4>1
      <4> QED
        BY <4>1, <4>2 DEF ToSet
    <3> QED
      BY <3>1, <3>2
  <2> HIDE DEF names
  <2>3. SameBindings(c, closed) /\ closed.closure_symbols = names
    BY ContextShape DEF Shape, SameBindings
  <2> HIDE DEF closed, bytes
  <2>4. SameScope(closed, d)
    BY <2>3, HelpersKeepScope DEF SameBindings
  <2>5. IdentifierContext(c, id) = WriteCode(d, bytes)
    BY <1>2 DEF IdentifierContext, LoadClosed, closed, names, bytes
  <2> HIDE DEF d
  <2>6. SameScope(d, WriteCode(d, bytes))
    BY <2>4, WriteCodeScope DEF SameScope, SameBindings
  <2>7. \A k \in 1 .. c.binding_top :
          ~ (k \in DOMAIN c.bindings /\ c.bindings[k].symbol = id)
    <3>1. c.binding_top \in Int
      BY DEF ContextType
    <3>2. \A k \in 1 .. c.binding_top : k <= c.binding_top + 1
      BY <3>1
    <3> QED
      BY <1>2, <3>2 DEF Bound
  <2> QED
    BY <2>2, <2>3, <2>4, <2>5, <2>6, <2>7 DEF SameScope, SameBindings
<1> QED
  BY <1>1, <1>2

-----------------------------------------------------------------------------
(***************************************************************************)
(* Well-scoped expressions: the parts of one are well scoped, with the     *)
(* names it binds.                                                         *)
(***************************************************************************)
LEMMA ScopedParts ==
  ASSUME NEW e \in Expression, NEW N, WellScoped(e, N)
  PROVE  /\ e.type = "IDENTIFIER" => e.identifier_id \in N
         /\ e.type = "LAMBDA" => WellScoped(e.lambda_body, N \union {e.lambda_id})
         /\ e.type = "LET" => /\ WellScoped(e.let_value, N)
                              /\ WellScoped(e.let_body, N \union {e.let_id})
         /\ e.type = "LETREC" => /\ WellScoped(e.let_value, N \union {e.let_id})
                                 /\ WellScoped(e.let_body, N \union {e.let_id})
         /\ e.type \notin {"LAMBDA", "LET", "LETREC"} =>
              \A child \in Children(e) : WellScoped(child, N)
<1>1. PICK R \in SUBSET (Expression \X SUBSET Symbol) :
        IsScoping(R) /\ <<e, N>> \in R
  BY DEF WellScoped
<1>2. \A part, names : <<part, names>> \in R => WellScoped(part, names)
  BY <1>1 DEF WellScoped
<1>3. /\ e.type = "IDENTIFIER" => e.identifier_id \in N
      /\ e.type = "LAMBDA" => <<e.lambda_body, N \union {e.lambda_id}>> \in R
      /\ e.type = "LET" => /\ <<e.let_value, N>> \in R
                           /\ <<e.let_body, N \union {e.let_id}>> \in R
      /\ e.type = "LETREC" => /\ <<e.let_value, N \union {e.let_id}>> \in R
                              /\ <<e.let_body, N \union {e.let_id}>> \in R
      /\ e.type \notin {"LAMBDA", "LET", "LETREC"} =>
           \A child \in Children(e) : <<child, N>> \in R
  BY <1>1 DEF IsScoping
<1> QED
  BY <1>2, <1>3

\* The parts that are compiled with no name more.
LEMMA ScopedOperands ==
  ASSUME NEW e \in Expression, NEW N, WellScoped(e, N)
  PROVE  /\ e.type \in {"APPLY", "BINARY"} => /\ WellScoped(FirstOperand(e), N)
                                              /\ WellScoped(SecondOperand(e), N)
         /\ e.type = "UNARY" => WellScoped(e.unary_arg, N)
         /\ e.type = "IF" => /\ WellScoped(e.if_test, N)
                             /\ WellScoped(e.if_then, N)
                             /\ WellScoped(e.if_else, N)
         /\ e.type = "TUPLE" => WellScoped(e.tuple_first, N)
<1>1. e.type \in {"APPLY", "BINARY", "UNARY", "IF", "TUPLE"} =>
        \A child \in Children(e) : WellScoped(child, N)
  BY ScopedParts
<1>2. /\ e.type \in {"APPLY", "BINARY"} => {FirstOperand(e), SecondOperand(e)} \subseteq Children(e)
      /\ e.type = "UNARY" => e.unary_arg \in Children(e)
      /\ e.type = "IF" => {e.if_test, e.if_then, e.if_else} \subseteq Children(e)
      /\ e.type = "TUPLE" => e.tuple_first \in Children(e)
  BY DEF Children, FirstOperand, SecondOperand
<1> QED
  BY <1>1, <1>2

-----------------------------------------------------------------------------
(***************************************************************************)
(* Names by activation: those an activation has bound for the calls above  *)
(* it, those bound by a whole stack, and those bound outside a context.    *)
(***************************************************************************)
Names(a) ==
  CASE a.at \in {"let_body", "rec_value"} -> {a.expr.let_id}
    [] a.at = "body"                      -> {a.expr.lambda_id}
    [] OTHER                              -> {}

NamesOf(s) == UNION { Names(s[i]) : i \in 1 .. Len(s) }

Visible(s, j) == UNION { Names(s[i]) : i \in 1 .. j - 1 }

Outside(a, d) == IF InnerContext(a) < d THEN Names(a) ELSE {}

Outer(s, d) == UNION { Outside(s[i], d) : i \in 1 .. Len(s) }

\* An activation compiles in the scope of those below it, and a closure that
\* is filled in holds variables of that scope.
ScopedAt(a, N) ==
  WellScoped(a.expr, N) /\ (a.at = "closed" => ToSet(a.closure) \subseteq N)

Scoped(s) == \A j \in 1 .. Len(s) : ScopedAt(s[j], Visible(s, j))

LEMMA NamesAppend ==
  ASSUME NEW s \in Seq(Placed), NEW a \in Placed
  PROVE  /\ NamesOf(Append(s, a)) = NamesOf(s) \union Names(a)
         /\ \A d : Outer(Append(s, a), d) = Outer(s, d) \union Outside(a, d)
         /\ Scoped(Append(s, a)) <=> Scoped(s) /\ ScopedAt(a, NamesOf(s))
<1> DEFINE n == Len(s)
           t == Append(s, a)
<1>1. /\ n \in Nat /\ Len(t) = n + 1 /\ t[n + 1] = a
      /\ \A i \in 1 .. n : t[i] = s[i]
  BY AppendProperties, LenProperties
<1>2. /\ \A i \in 1 .. n + 1 : i \in 1 .. n \/ i = n + 1
      /\ \A i \in 1 .. n : i \in 1 .. n + 1
      /\ n + 1 \in 1 .. n + 1 /\ n + 1 - 1 = n
      /\ \A i \in 1 .. n : \A k \in 1 .. i - 1 : k \in 1 .. n
  BY <1>1
<1> HIDE DEF t, n
<1>3. NamesOf(t) = NamesOf(s) \union Names(a)
  BY <1>1, <1>2 DEF NamesOf, n
<1>4. ASSUME NEW d
      PROVE  Outer(t, d) = Outer(s, d) \union Outside(a, d)
  BY <1>1, <1>2 DEF Outer, n
<1>5. /\ Visible(t, n + 1) = NamesOf(s)
      /\ \A j \in 1 .. n : Visible(t, j) = Visible(s, j)
  BY <1>1, <1>2 DEF Visible, NamesOf, n
<1>6. Scoped(t) <=> Scoped(s) /\ ScopedAt(a, NamesOf(s))
  BY <1>1, <1>2, <1>5 DEF Scoped, n
<1> QED
  BY <1>3, <1>4, <1>6 DEF t

\* What an activation binds, it binds in its inner context.
LEMMA BindersElsewhere ==
  ASSUME NEW a \in Placed, NEW d \in Nat, InnerContext(a) # d
  PROVE  Binders(a, d) = <<>>
<1>1. a.context \in Nat
  BY DEF Placed, ActivationType
<1> QED
  BY <1>1 DEF Binders, InnerContext

LEMMA ToSetConcat ==
  ASSUME NEW S, NEW s \in Seq(S), NEW t \in Seq(S)
  PROVE  ToSet(s \o t) = ToSet(s) \union ToSet(t)
<1> DEFINE m == Len(s)
           n == Len(t)
           u == s \o t
<1>1. /\ m \in Nat /\ n \in Nat
      /\ DOMAIN s = 1 .. m /\ DOMAIN t = 1 .. n
  BY LenProperties
<1>2. u \in Seq(S) /\ Len(u) = m + n
      /\ \A i \in 1 .. m + n : u[i] = IF i <= m THEN s[i] ELSE t[i - m]
  BY ConcatProperties
<1> HIDE DEF u, m, n
<1>3. DOMAIN u = 1 .. m + n
  BY <1>2, LenProperties
<1>4. \A i \in 1 .. m : i \in 1 .. m + n /\ u[i] = s[i]
  BY <1>1, <1>2
<1>5. \A i \in 1 .. n : i + m \in 1 .. m + n /\ u[i + m] = t[i]
  <2> TAKE i \in 1 .. n
  <2> DEFINE k == i + m
  <2>1. k \in 1 .. m + n /\ ~ (k <= m) /\ k - m = i
    BY <1>1
  <2> HIDE DEF k
  <2>2. k \in 1 .. m + n /\ u[k] = t[i]
    BY <1>2, <2>1
  <2> QED
    BY <2>2 DEF k
<1>6. \A i \in 1 .. m + n : \/ i \in 1 .. m
                            \/ ~ (i <= m) /\ i - m \in 1 .. n
  BY <1>1
<1>7. ToSet(u) \subseteq ToSet(s) \union ToSet(t)
  BY <1>1, <1>2, <1>3, <1>4, <1>6 DEF ToSet
<1>8. ToSet(s) \subseteq ToSet(u) /\ ToSet(t) \subseteq ToSet(u)
  BY <1>1, <1>3, <1>4, <1>5 DEF ToSet
<1> QED
  BY <1>7, <1>8 DEF u

LEMMA NamesBound ==
  ASSUME NEW a \in Placed, NEW d, InnerContext(a) = d
  PROVE  Names(a) \subseteq ToSet(Binders(a, d))
<1>1. a.context \in Nat
  BY DEF Placed, ActivationType
<1>2. \A x : ToSet(<<x>>) = {x}
  BY DEF ToSet
<1>3. CASE a.at \in {"let_body", "rec_value"}
  BY <1>2, <1>3 DEF Names, Binders, InnerContext
<1>4. CASE a.at = "body"
  <2> DEFINE self == IF a.self_id = INVALID_SYMBOL THEN <<>> ELSE <<a.self_id>>
             id == a.expr.lambda_id
  <2>1. Binders(a, d) = self \o <<id>> /\ Names(a) = {id}
    BY <1>1, <1>4 DEF Names, Binders, InnerContext
  <2>2. /\ a.self_id \in Symbol \union {INVALID_SYMBOL} /\ id \in Symbol
    <3>1. a.expr \in Expression /\ a.expr.type = "LAMBDA"
      BY <1>4 DEF Placed, ActivationType, ExpressionType
    <3> QED
      BY <3>1, Subexpressions DEF Placed, ActivationType
  <2>3. self \in Seq(Symbol) /\ <<id>> \in Seq(Symbol)
    BY <2>2, EmptySeq
  <2> HIDE DEF self, id
  <2>4. ToSet(self \o <<id>>) = ToSet(self) \union ToSet(<<id>>)
    BY <2>3, ToSetConcat
  <2> QED
    BY <1>2, <2>1, <2>4
<1>5. CASE ~ Binds(a)
  BY <1>5 DEF Binds, Names
<1> QED
  BY <1>3, <1>4, <1>5 DEF Binds

\* The names a stack has bound in context d.
In(s, d) == UNION { Names(s[i]) : i \in { k \in 1 .. Len(s) : InnerContext(s[k]) = d } }

LEMMA InAppend ==
  ASSUME NEW s \in Seq(Placed), NEW a \in Placed, NEW d
  PROVE  In(Append(s, a), d) =
           In(s, d) \union (IF InnerContext(a) = d THEN Names(a) ELSE {})
<1> DEFINE n == Len(s)
           t == Append(s, a)
<1>1. /\ n \in Nat /\ Len(t) = n + 1 /\ t[n + 1] = a
      /\ \A i \in 1 .. n : t[i] = s[i]
  BY AppendProperties, LenProperties
<1>2. /\ \A i \in 1 .. n + 1 : i \in 1 .. n \/ i = n + 1
      /\ \A i \in 1 .. n : i \in 1 .. n + 1
      /\ n + 1 \in 1 .. n + 1
  BY <1>1
<1> HIDE DEF t, n
<1>3. In(t, d) \subseteq In(s, d) \union (IF InnerContext(a) = d THEN Names(a) ELSE {})
  BY <1>1, <1>2 DEF In, n
<1>4. In(s, d) \subseteq In(t, d)
  BY <1>1, <1>2 DEF In, n
<1>5. InnerContext(a) = d => Names(a) \subseteq In(t, d)
  BY <1>1, <1>2 DEF In, n
<1> QED
  BY <1>3, <1>4, <1>5 DEF t

LEMMA NoNames ==
  /\ \A d : NamesInScope(<<>>, d) = <<>>
  /\ NamesOf(<<>>) = {}
  /\ \A d : In(<<>>, d) = {} /\ Outer(<<>>, d) = {}
  /\ Scoped(<<>>)
<1>1. 1 .. Len(<<>>) = {} /\ DOMAIN <<>> = {}
  OBVIOUS
<1>2. ASSUME NEW d PROVE NamesInScope(<<>>, d) = <<>>
  <2>1. [k \in DOMAIN <<>> |-> Binders(<<>>[k], d)] = <<>>
    BY <1>1
  <2> QED
    BY <2>1 DEF NamesInScope, FlattenSeq
<1> QED
  BY <1>1, <1>2 DEF NamesOf, In, Outer, Scoped

\* All that a stack has bound in context d is in the list of its names, and
\* the list is empty when no activation is in the context.
ListsBound(s, d) ==
  /\ In(s, d) \subseteq ToSet(NamesInScope(s, d))
  /\ (\A i \in 1 .. Len(s) : InnerContext(s[i]) # d) => NamesInScope(s, d) = <<>>

LEMMA NamesListed ==
  ASSUME NEW s \in Seq(Placed), NEW d \in Nat
  PROVE  ListsBound(s, d)
<1> DEFINE Fails == { m \in Nat : \E t \in Seq(Placed) : Len(t) = m /\ ~ ListsBound(t, d) }
<1>1. ASSUME Fails # {} PROVE FALSE
  <2>1. PICK m \in Fails : \A k \in Fails : m <= k
    <3>1. Fails \in SUBSET Nat
      OBVIOUS
    <3> HIDE DEF Fails
    <3> QED
      BY <1>1, <3>1, LeastNatural
  <2>2. PICK t \in Seq(Placed) : Len(t) = m /\ ~ ListsBound(t, d)
    OBVIOUS
  <2>3. CASE t = <<>>
    BY <2>2, <2>3, NoNames DEF ListsBound
  <2>4. CASE t # <<>>
    <3>1. PICK u \in Seq(Placed), a \in Placed : t = Append(u, a)
      BY <2>4, SequenceEmptyOrAppend
    <3> DEFINE n == Len(u)
    <3>2. /\ n \in Nat /\ m = n + 1 /\ t[n + 1] = a
          /\ \A i \in 1 .. n : t[i] = u[i]
      BY <2>2, <3>1, AppendProperties, LenProperties
    <3> HIDE DEF n
    <3>3. ListsBound(u, d)
      <4>1. n \notin Fails
        <5> HIDE DEF Fails
        <5> QED
          BY <2>1, <3>2
      <4> QED
        BY <3>2, <4>1 DEF n
    <3> HIDE DEF Fails
    <3>4. /\ NamesInScope(u, d) \in Seq(Symbol) /\ Binders(a, d) \in Seq(Symbol)
          /\ NamesInScope(t, d) = NamesInScope(u, d) \o Binders(a, d)
      BY <3>1, ScopeAppend, BindersType
    <3>5. ToSet(NamesInScope(t, d)) = ToSet(NamesInScope(u, d)) \union ToSet(Binders(a, d))
      BY <3>4, ToSetConcat
    <3>6. In(t, d) \subseteq ToSet(NamesInScope(t, d))
      BY <3>1, <3>3, <3>5, InAppend, NamesBound DEF ListsBound
    <3>7. ASSUME \A i \in 1 .. Len(t) : InnerContext(t[i]) # d
          PROVE  NamesInScope(t, d) = <<>>
      <4>1. n + 1 \in 1 .. Len(t) /\ \A i \in 1 .. Len(u) : i \in 1 .. Len(t)
        BY <2>2, <3>2 DEF n
      <4>2. InnerContext(a) # d /\ \A i \in 1 .. Len(u) : InnerContext(u[i]) # d
        BY <3>2, <3>7, <4>1 DEF n
      <4>3. NamesInScope(u, d) = <<>> /\ Binders(a, d) = <<>>
        BY <3>3, <4>2, BindersElsewhere DEF ListsBound
      <4> QED
        BY <3>4, <4>3, ConcatEmptySeq
    <3> QED
      BY <2>2, <3>6, <3>7 DEF ListsBound
  <2> QED
    BY <2>3, <2>4
<1> QED
  BY <1>1, LenProperties

-----------------------------------------------------------------------------
(***************************************************************************)
(* The inductive invariant: a context has bound the names that the stack   *)
(* binds in it, and closes over names bound outside it; and every          *)
(* activation compiles an expression in the scope of those below it.       *)
(***************************************************************************)
ContextScoped(s, d, c) ==
  /\ HasBound(c, NamesInScope(s, d))
  /\ ToSet(c.closure_symbols) \subseteq Outer(s, d)

ScopesInv ==
  /\ \A d \in 1 .. Len(contexts) : ContextScoped(calls, d, contexts[d])
  /\ Scoped(calls)

LEMMA ScopesSuffice == CompilerInv /\ ScopesInv => ScopesMatch
<1> SUFFICES ASSUME CompilerInv, ScopesInv
             PROVE  ScopesMatch
  OBVIOUS
<1>1. /\ contexts \in Seq(ContextType) /\ calls \in Seq(Placed)
      /\ DOMAIN contexts = 1 .. Len(contexts)
  BY LenProperties DEF CompilerInv, Stack
<1>2. ASSUME NEW d \in DOMAIN contexts
      PROVE  LiveNames(contexts[d]) = NamesInScope(calls, d)
  <2>1. contexts[d] \in ContextType
    BY <1>1, ElementOfSeq
  <2>2. NamesInScope(calls, d) \in Seq(Symbol)
    BY <1>1, ScopesType
  <2>3. HasBound(contexts[d], NamesInScope(calls, d))
    BY <1>1, <1>2 DEF ScopesInv, ContextScoped
  <2> QED
    BY <2>1, <2>2, <2>3, HasBoundSuffices
<1>3. ASSUME contexts # <<>>
      PROVE  contexts[1].closure_symbols = <<>>
  <2>1. Len(contexts) \in Nat \ {0}
    BY <1>1, <1>3, EmptySeq
  <2>2. 1 \in 1 .. Len(contexts)
    BY <2>1
  <2>3. contexts[1] \in ContextType
    BY <1>1, <2>2, ElementOfSeq
  <2>4. ToSet(contexts[1].closure_symbols) \subseteq Outer(calls, 1)
    BY <2>2 DEF ScopesInv, ContextScoped
  <2>5. \A i \in 1 .. Len(calls) : Outside(calls[i], 1) = {}
    <3> TAKE i \in 1 .. Len(calls)
    <3>1. /\ calls[i].context \in Nat /\ 1 <= calls[i].context
          /\ InnerContext(calls[i]) \in Nat
          /\ calls[i].context <= InnerContext(calls[i])
      BY StackEntry DEF CompilerInv
    <3>2. ~ (InnerContext(calls[i]) < 1)
      BY <3>1
    <3> QED
      BY <3>2 DEF Outside
  <2>6. Outer(calls, 1) = {}
    BY <2>5 DEF Outer
  <2>7. contexts[1].closure_symbols \in Seq(Symbol)
    BY <2>3 DEF ContextType
  <2>8. ASSUME contexts[1].closure_symbols # <<>> PROVE FALSE
    <3> DEFINE q == contexts[1].closure_symbols
    <3>1. Len(q) \in Nat \ {0} /\ DOMAIN q = 1 .. Len(q)
      BY <2>7, <2>8, EmptySeq, LenProperties
    <3>2. 1 \in DOMAIN q
      BY <3>1
    <3>3. q[1] \in ToSet(q)
      BY <3>2 DEF ToSet
    <3> QED
      BY <2>4, <2>6, <3>3
  <2> QED
    BY <2>8
<1> QED
  BY <1>2, <1>3 DEF ScopesMatch

-----------------------------------------------------------------------------
\* The stack, as the running activation over a base.
LEMMA Base ==
  ASSUME CompilerInv, calls # <<>>
  PROVE  /\ Front(calls) \in Seq(Placed) /\ calls = Append(Front(calls), top)
         /\ \A a \in Placed : Become(a) = Append(Front(calls), a)
         /\ \A i \in 1 .. Len(Front(calls)) :
              /\ InnerContext(Front(calls)[i]) \in Nat
              /\ InnerContext(Front(calls)[i]) <= top.context
<1> DEFINE b == Front(calls)
           n == Len(calls)
<1>1. Stack(calls) /\ calls \in Seq(Placed) /\ n \in Nat \ {0} /\ top \in Placed
  BY StackTop, TopFacts DEF CompilerInv, Stack
<1>2. Stack(b) /\ Len(b) = n - 1 /\ \A j \in 1 .. Len(b) : b[j] = calls[j]
  BY <1>1, StackFront
<1>3. b \in Seq(Placed)
  BY <1>2 DEF Stack
<1>4. top = calls[n]
  BY DEF top, Last
<1> HIDE DEF b, n
<1>5. ASSUME NEW a \in Placed, NEW s \in Seq(Placed), Len(s) = n, s[n] = a,
             \A j \in 1 .. n - 1 : s[j] = calls[j]
      PROVE  s = Append(b, a)
  <2>1. /\ Append(b, a) \in Seq(Placed) /\ Len(Append(b, a)) = n
        /\ Append(b, a)[n] = a /\ \A j \in 1 .. n - 1 : Append(b, a)[j] = b[j]
    <3>1. Len(b) + 1 = n
      BY <1>1, <1>2
    <3> QED
      BY <1>1, <1>2, <1>3, <3>1, AppendProperties
  <2>2. \A j \in 1 .. n : j \in 1 .. n - 1 \/ j = n
    BY <1>1
  <2>3. \A j \in 1 .. n : s[j] = Append(b, a)[j]
    BY <1>2, <1>5, <2>1, <2>2
  <2> QED
    BY <1>5, <2>1, <2>3, SeqEqual
<1>6. calls = Append(b, top)
  BY <1>1, <1>4, <1>5 DEF n
<1>7. ASSUME NEW a \in Placed
      PROVE  Become(a) = Append(b, a)
  <2> DEFINE s == [calls EXCEPT ![n] = a]
  <2>1. n \in 1 .. n /\ \A j \in 1 .. n - 1 : j \in 1 .. n /\ j # n
    BY <1>1
  <2>2. /\ s \in Seq(Placed) /\ Len(s) = n
        /\ \A j \in 1 .. n : s[j] = IF j = n THEN a ELSE calls[j]
    BY <1>1, <2>1, ExceptSeq DEF n
  <2> HIDE DEF s
  <2>3. s = Append(b, a)
    BY <1>5, <2>1, <2>2
  <2> QED
    BY <2>3 DEF Become, s, n
<1>8. ASSUME NEW i \in 1 .. Len(b)
      PROVE  InnerContext(b[i]) \in Nat /\ InnerContext(b[i]) <= top.context
  <2>1. i \in 1 .. n /\ n \in 1 .. n /\ i < n
    BY <1>1, <1>2
  <2> QED
    BY <1>1, <1>2, <1>4, <2>1, StackEntry DEF Stack, n
<1> QED
  BY <1>3, <1>6, <1>7, <1>8 DEF b

\* The base with at most two activations of the running context over it.
Level(a) == a \in Placed /\ InnerContext(a) = top.context

Over(s) ==
  \/ s = Front(calls)
  \/ \E a : Level(a) /\ s = Append(Front(calls), a)
  \/ \E a, b : /\ Level(a) /\ Level(b)
               /\ s = Append(Append(Front(calls), a), b)

LEMMA OverElsewhere ==
  ASSUME CompilerInv, calls # <<>>, NEW s, Over(s), NEW d \in Nat
  PROVE  /\ d <= top.context => Outer(s, d) = Outer(Front(calls), d)
         /\ d # top.context => NamesInScope(s, d) = NamesInScope(Front(calls), d)
<1> DEFINE base == Front(calls)
<1>1. base \in Seq(Placed) /\ top.context \in Nat
  BY Base, TopFacts DEF ActivationType
<1> HIDE DEF base
<1>2. ASSUME NEW t \in Seq(Placed), NEW a, Level(a)
      PROVE  /\ Append(t, a) \in Seq(Placed)
             /\ d <= top.context => Outer(Append(t, a), d) = Outer(t, d)
             /\ d # top.context => NamesInScope(Append(t, a), d) = NamesInScope(t, d)
  <2>1. a \in Placed /\ InnerContext(a) = top.context
    BY <1>2 DEF Level
  <2>2. d <= top.context => Outside(a, d) = {}
    BY <1>1, <2>1 DEF Outside
  <2>3. d # top.context => Binders(a, d) = <<>>
    BY <2>1, BindersElsewhere
  <2>4. Outer(Append(t, a), d) = Outer(t, d) \union Outside(a, d)
    BY <2>1, NamesAppend
  <2>5. Append(t, a) \in Seq(Placed)
    BY <2>1, AppendProperties
  <2>6. d # top.context => NamesInScope(Append(t, a), d) = NamesInScope(t, d)
    BY <2>1, <2>3, ScopeSame
  <2> QED
    BY <2>2, <2>4, <2>5, <2>6
<1>3. CASE s = base
  BY <1>3 DEF base
<1>4. CASE \E a : Level(a) /\ s = Append(base, a)
  BY <1>1, <1>2, <1>4 DEF base
<1>5. CASE \E a, b : Level(a) /\ Level(b) /\ s = Append(Append(base, a), b)
  <2>1. PICK a, b : Level(a) /\ Level(b) /\ s = Append(Append(base, a), b)
    BY <1>5
  <2> DEFINE t == Append(base, a)
  <2>2. /\ t \in Seq(Placed)
        /\ d <= top.context => Outer(t, d) = Outer(base, d)
        /\ d # top.context => NamesInScope(t, d) = NamesInScope(base, d)
    BY <1>1, <1>2, <2>1
  <2> HIDE DEF t
  <2>3. s = Append(t, b)
    BY <2>1 DEF t
  <2> QED
    BY <1>2, <2>1, <2>2, <2>3 DEF base
<1> QED
  BY <1>3, <1>4, <1>5 DEF Over, base

\* A step that stays in the running context, whose context becomes c.
LEMMA ContextStep ==
  ASSUME CompilerInv, Running, ScopesInv, NEW c, SetContext(c),
         Over(calls'), Scoped(calls'),
         HasBound(c, NamesInScope(calls', top.context)),
         ToSet(c.closure_symbols) \subseteq Outer(Front(calls), top.context)
  PROVE  ScopesInv'
<1> DEFINE n == top.context
<1>1. /\ calls # <<>> /\ n = Len(contexts) /\ n \in Nat /\ contexts \in Seq(ContextType)
      /\ DOMAIN contexts = 1 .. Len(contexts)
  BY RunningDepth, TopFacts, LenProperties DEF Running, CompilerInv, ActivationType
<1>2. Over(calls)
  <2>1. Level(top) /\ calls = Append(Front(calls), top)
    BY <1>1, Base, TopFacts DEF Level, InnerContext, Running
  <2> QED
    BY <2>1 DEF Over
<1>3. /\ contexts' \in [1 .. n -> ContextType \union {c}] /\ n \in 1 .. n
      /\ \A d \in 1 .. n : contexts'[d] = IF d = n THEN c ELSE contexts[d]
  BY <1>1, TopFacts, LenProperties DEF SetContext
<1>4. Len(contexts') = n
  <2>1. contexts' \in Seq(ContextType \union {c}) /\ DOMAIN contexts' = 1 .. n
    BY <1>1, <1>3, SeqDef
  <2> QED
    BY <1>1, <2>1, LenProperties
<1>5. ASSUME NEW d \in 1 .. n
      PROVE  ContextScoped(calls', d, contexts'[d])
  <2>1. d \in Nat /\ d <= n
    BY <1>1
  <2>2. Outer(calls', d) = Outer(Front(calls), d) /\ Outer(calls, d) = Outer(Front(calls), d)
    BY <1>1, <1>2, <2>1, OverElsewhere
  <2>3. CASE d = n
    BY <1>3, <2>2, <2>3 DEF ContextScoped
  <2>4. CASE d # n
    <3>1. NamesInScope(calls', d) = NamesInScope(calls, d)
      BY <1>1, <1>2, <2>1, <2>4, OverElsewhere
    <3>2. ContextScoped(calls, d, contexts[d])
      BY <1>1 DEF ScopesInv
    <3> QED
      BY <1>3, <2>2, <2>4, <3>1, <3>2 DEF ContextScoped
  <2> QED
    BY <2>3, <2>4
<1> QED
  BY <1>4, <1>5 DEF ScopesInv

-----------------------------------------------------------------------------
(***************************************************************************)
(* Steps that bind nothing: the running context keeps its bindings.        *)
(***************************************************************************)
\* What the running activation may use: the names of those below it.
InScope == NamesOf(Front(calls))

LEMMA TopScoped ==
  ASSUME CompilerInv, calls # <<>>, ScopesInv
  PROVE  /\ Scoped(Front(calls)) /\ ScopedAt(top, InScope)
         /\ WellScoped(top.expr, InScope)
BY Base, TopFacts, NamesAppend DEF ScopesInv, InScope, ScopedAt

\* The names of the running context, and what it closes over, when the running
\* activation has bound none.
LEMMA RunningScope ==
  ASSUME CompilerInv, Running, ScopesInv
  PROVE  /\ ToSet(context.closure_symbols) \subseteq Outer(Front(calls), top.context)
         /\ HasBound(context, NamesInScope(calls, top.context))
         /\ ~ Binds(top) =>
              HasBound(context, NamesInScope(Front(calls), top.context))
<1>1. /\ calls # <<>> /\ top.context \in 1 .. Len(contexts) /\ top \in Placed
      /\ top.context \in Nat /\ InnerContext(top) = top.context
  BY TopFacts DEF Running, ActivationType, InnerContext
<1>2. ContextScoped(calls, top.context, context)
  BY <1>1 DEF ScopesInv, context
<1>3. Over(calls)
  BY <1>1, Base DEF Level, Over
<1>4. Outer(calls, top.context) = Outer(Front(calls), top.context)
  BY <1>1, <1>3, OverElsewhere
<1>5. ASSUME ~ Binds(top)
      PROVE  NamesInScope(calls, top.context) = NamesInScope(Front(calls), top.context)
  <2>1. Front(calls) \in Seq(Placed) /\ calls = Append(Front(calls), top)
    BY <1>1, Base
  <2>2. NamesInScope(Append(Front(calls), top), top.context) =
          NamesInScope(Front(calls), top.context)
    BY <1>1, <1>5, <2>1, ScopeNoBinders
  <2> QED
    BY <2>1, <2>2
<1> QED
  BY <1>2, <1>4, <1>5 DEF ContextScoped

\* A context that has bound the same, and closes over nothing of its own.
Keeps(c) ==
  /\ SameBindings(context, c)
  /\ ToSet(c.closure_symbols) \subseteq Outer(Front(calls), top.context)

LEMMA SameScopeKeeps ==
  ASSUME CompilerInv, Running, ScopesInv, NEW c, SameScope(context, c)
  PROVE  Keeps(c)
BY RunningScope DEF Keeps, SameScope

\* A context that is not written.
LEMMA ContextUnchanged ==
  ASSUME CompilerInv, Running, contexts' = contexts
  PROVE  SetContext(context) /\ SameScope(context, context)
<1>1. calls # <<>> /\ contexts \in Seq(ContextType) /\ context \in ContextType
  BY TopFacts DEF Running, CompilerInv
<1>2. contexts = [contexts EXCEPT ![top.context] = contexts[top.context]]
  BY <1>1, LenProperties
<1> QED
  BY <1>1, <1>2, ContextShape, HelpersKeepScope DEF SetContext, context

LEMMA ReturnScoped ==
  ASSUME CompilerInv, Running, ScopesInv, ~ Binds(top),
         NEW c, SetContext(c), Keeps(c), NEW r, Return(r)
  PROVE  ScopesInv'
<1>1. calls' = Front(calls) /\ calls # <<>>
  BY DEF Return, Running
<1>2. Over(calls') /\ Scoped(calls')
  BY <1>1, TopScoped DEF Over
<1>3. HasBound(c, NamesInScope(calls', top.context))
  BY <1>1, RunningScope, SameBindingsBound DEF Keeps
<1> QED
  BY <1>2, <1>3, ContextStep DEF Keeps

\* An activation that goes on in the place of the running one.
GoesOn(a) ==
  /\ a \in Placed /\ a.context = top.context /\ a.at \notin {"module", "body"}
  /\ a.expr = top.expr
  /\ a.at = "closed" => ToSet(a.closure) \subseteq InScope

LEMMA GoesOnScoped ==
  ASSUME CompilerInv, Running, ScopesInv, NEW a, GoesOn(a)
  PROVE  /\ Level(a) /\ Become(a) = Append(Front(calls), a)
         /\ Append(Front(calls), a) \in Seq(Placed)
         /\ Scoped(Append(Front(calls), a))
         /\ NamesOf(Append(Front(calls), a)) = InScope \union Names(a)
         /\ NamesInScope(Append(Front(calls), a), top.context) =
              NamesInScope(Front(calls), top.context) \o Binders(a, top.context)
<1>1. calls # <<>> /\ a \in Placed /\ Front(calls) \in Seq(Placed)
  BY Base DEF Running, GoesOn
<1>2. Level(a)
  BY DEF GoesOn, Level, InnerContext
<1>3. ScopedAt(a, InScope)
  BY <1>1, TopScoped DEF GoesOn, ScopedAt
<1> QED
  BY <1>1, <1>2, <1>3, Base, TopScoped, NamesAppend, ScopeAppend, AppendProperties
     DEF InScope

LEMMA BecomeScoped ==
  ASSUME CompilerInv, Running, ScopesInv, ~ Binds(top),
         NEW c, SetContext(c), Keeps(c),
         NEW a, GoesOn(a), ~ Binds(a), calls' = Become(a)
  PROVE  ScopesInv'
<1>1. a \in Placed /\ Front(calls) \in Seq(Placed)
  BY Base DEF Running, GoesOn
<1>2. Over(calls') /\ Scoped(calls')
  BY GoesOnScoped DEF Over
<1>3. NamesInScope(calls', top.context) = NamesInScope(Front(calls), top.context)
  <2>1. NamesInScope(Append(Front(calls), a), top.context) =
          NamesInScope(Front(calls), top.context)
    BY <1>1, ScopeNoBinders
  <2> QED
    BY <2>1, GoesOnScoped
<1>4. HasBound(c, NamesInScope(calls', top.context))
  BY <1>3, RunningScope, SameBindingsBound DEF Keeps
<1> QED
  BY <1>2, <1>4, ContextStep DEF Keeps

\* A call from it, of a compile function for b.
Called(b, a) ==
  /\ b \in Placed /\ b.context = top.context
  /\ b.at \in {"enter", "lambda"}
  /\ WellScoped(b.expr, InScope \union Names(a))

LEMMA PushScoped ==
  ASSUME CompilerInv, Running, ScopesInv,
         NEW a, GoesOn(a), NEW b, Called(b, a), calls' = Append(Become(a), b)
  PROVE  /\ Over(calls') /\ Scoped(calls')
         /\ NamesInScope(calls', top.context) =
              NamesInScope(Front(calls), top.context) \o Binders(a, top.context)
<1> DEFINE s == Append(Front(calls), a)
<1>1. /\ s \in Seq(Placed) /\ Level(a) /\ Scoped(s) /\ Become(a) = s
      /\ NamesOf(s) = InScope \union Names(a)
      /\ NamesInScope(s, top.context) =
           NamesInScope(Front(calls), top.context) \o Binders(a, top.context)
  BY GoesOnScoped
<1>2. b \in Placed /\ Level(b) /\ ~ Binds(b)
  BY DEF Called, Level, InnerContext, Binds
<1>3. Over(calls')
  BY <1>1, <1>2 DEF Over
<1> HIDE DEF s
<1>4. ScopedAt(b, NamesOf(s))
  BY <1>1 DEF Called, ScopedAt
<1>5. Scoped(Append(s, b)) /\ NamesInScope(Append(s, b), top.context) = NamesInScope(s, top.context)
  <2>1. Scoped(Append(s, b))
    BY <1>1, <1>2, <1>4, NamesAppend
  <2>2. NamesInScope(Append(s, b), top.context) = NamesInScope(s, top.context)
    BY <1>1, <1>2, ScopeNoBinders
  <2> QED
    BY <2>1, <2>2
<1> QED
  BY <1>1, <1>3, <1>5

LEMMA CallScoped ==
  ASSUME CompilerInv, Running, ScopesInv, ~ Binds(top),
         NEW c, SetContext(c), Keeps(c),
         NEW a, GoesOn(a), ~ Binds(a),
         NEW e \in Expression, WellScoped(e, InScope), CallFrom(a, e)
  PROVE  ScopesInv'
<1> DEFINE b == Activation("enter", e, a.context)
<1>1. a.context = top.context /\ a \in Placed /\ top.context \in Nat /\ Names(a) = {}
  BY TopFacts DEF Running, GoesOn, ActivationType, Binds, Names
<1>2. /\ b \in Placed /\ b.at = "enter" /\ b.context = top.context
      /\ b.expr = e
  BY <1>1, EnterPlaced DEF Activation
<1>3. calls' = Append(Become(a), b)
  BY DEF CallFrom
<1> HIDE DEF b
<1>4. Called(b, a)
  BY <1>1, <1>2 DEF Called
<1>5. /\ Over(calls') /\ Scoped(calls')
      /\ NamesInScope(calls', top.context) =
           NamesInScope(Front(calls), top.context) \o Binders(a, top.context)
  BY <1>3, <1>4, PushScoped
<1>6. NamesInScope(calls', top.context) = NamesInScope(Front(calls), top.context)
  <2>1. Front(calls) \in Seq(Placed)
    BY Base DEF Running
  <2>2. NamesInScope(Front(calls), top.context) \in Seq(Symbol)
    BY <2>1, ScopesType
  <2> QED
    BY <1>5, <2>2, NoBinders, ConcatEmptySeq
<1>7. HasBound(c, NamesInScope(calls', top.context))
  BY <1>6, RunningScope, SameBindingsBound DEF Keeps
<1> QED
  BY <1>5, <1>7, ContextStep DEF Keeps

\* An identifier in scope is bound in the running context, or outside it.
LEMMA LookupScoped ==
  ASSUME CompilerInv, Running, ScopesInv, ~ Binds(top),
         NEW id \in Symbol, id \in InScope
  PROVE  Keeps(IdentifierContext(context, id))
<1> DEFINE base == Front(calls)
           n == top.context
           names == NamesInScope(base, n)
           d == IdentifierContext(context, id)
<1>1. calls # <<>> /\ context \in ContextType /\ base \in Seq(Placed) /\ n \in Nat
  BY Base, TopFacts DEF Running, ActivationType
<1>2. names \in Seq(Symbol) /\ HasBound(context, names)
      /\ ToSet(context.closure_symbols) \subseteq Outer(base, n)
  BY <1>1, ScopesType, RunningScope
<1>3. SameBindings(context, d)
  BY <1>1, IdentifierScope
<1>4. PICK i \in 1 .. Len(base) : id \in Names(base[i])
  BY DEF InScope, NamesOf
<1>5. InnerContext(base[i]) \in Nat /\ InnerContext(base[i]) <= n
  BY <1>1, Base
<1>6. CASE InnerContext(base[i]) = n
  <2>1. id \in In(base, n)
    BY <1>4, <1>6 DEF In
  <2>2. id \in ToSet(names)
    BY <1>1, <2>1, NamesListed DEF ListsBound
  <2>3. PICK k \in DOMAIN names : names[k] = id
    BY <2>2 DEF ToSet
  <2>4. k \in 1 .. context.binding_top /\ context.bindings[k].symbol = id
        /\ k \in DOMAIN context.bindings
    <3>1. /\ context.binding_top \in Nat /\ context.binding_top <= Len(context.bindings)
          /\ Len(names) = context.binding_top
          /\ \A j \in 1 .. context.binding_top : context.bindings[j].symbol = names[j]
      BY <1>2 DEF HasBound
    <3>2. DOMAIN names = 1 .. Len(names)
      BY <1>2, LenProperties
    <3>3. DOMAIN context.bindings = 1 .. Len(context.bindings) /\ Len(context.bindings) \in Nat
      BY <1>1, LenProperties DEF ContextType
    <3> HIDE DEF names
    <3>4. k \in 1 .. context.binding_top /\ k \in 1 .. Len(context.bindings)
      BY <2>3, <3>1, <3>2, <3>3
    <3> QED
      BY <2>3, <3>1, <3>3, <3>4
  <2>5. SameScope(context, d)
    BY <1>1, <2>4, IdentifierScope
  <2> QED
    BY <1>2, <2>5 DEF Keeps, SameScope
<1>7. CASE InnerContext(base[i]) < n
  <2>1. id \in Outer(base, n)
    BY <1>4, <1>7 DEF Outer, Outside
  <2>2. ToSet(d.closure_symbols) \subseteq ToSet(context.closure_symbols) \union {id}
    BY <1>1, IdentifierScope
  <2> QED
    BY <1>2, <1>3, <2>1, <2>2 DEF Keeps
<1> QED
  BY <1>1, <1>5, <1>6, <1>7

-----------------------------------------------------------------------------
\* The running activation goes on at another place in the same function.
LEMMA GoesOnLabel ==
  ASSUME CompilerInv, Running,
         NEW l \in DOMAIN ExpressionType, l \notin {"body", "closed"},
         top.expr.type \in ExpressionType[l]
  PROVE  /\ GoesOn([top EXCEPT !.at = l]) /\ [top EXCEPT !.at = l].at = l
         /\ \A r \in Bytes :
              LET a == [top EXCEPT !.at = l, !.reg = r]
              IN GoesOn(a) /\ a.at = l
         /\ \A n \in Nat :
              LET a == [top EXCEPT !.at = l, !.loc = n]
              IN GoesOn(a) /\ a.at = l
         /\ \A r \in Bytes, n \in Nat :
              LET a == [top EXCEPT !.at = l, !.reg = r, !.loc = n]
              IN GoesOn(a) /\ a.at = l
<1>1. calls # <<>> /\ l # "module"
  BY DEF Running, ExpressionType
<1>2. top \in ActivationType
  BY <1>1, TopFacts
<1>3. ASSUME NEW a \in Placed, a.at = l, a.expr = top.expr, a.context = top.context
      PROVE  GoesOn(a)
  BY <1>1, <1>3 DEF GoesOn
<1>4. GoesOn([top EXCEPT !.at = l]) /\ [top EXCEPT !.at = l].at = l
  <2>1. /\ [top EXCEPT !.at = l] \in Placed /\ [top EXCEPT !.at = l].at = l
        /\ [top EXCEPT !.at = l].expr = top.expr
        /\ [top EXCEPT !.at = l].context = top.context
    BY <1>1, LabelPlaced
  <2> QED
    BY <1>3, <2>1
<1>5. ASSUME NEW r \in Bytes
      PROVE  LET a == [top EXCEPT !.at = l, !.reg = r] IN GoesOn(a) /\ a.at = l
  <2> DEFINE a == [top EXCEPT !.at = l, !.reg = r]
  <2>1. a \in Placed
    BY <1>1, LabelPlaced
  <2>2. a.at = l /\ a.expr = top.expr /\ a.context = top.context
    BY <1>2 DEF ActivationType
  <2> QED
    BY <1>3, <2>1, <2>2
<1>6. ASSUME NEW n \in Nat
      PROVE  LET a == [top EXCEPT !.at = l, !.loc = n] IN GoesOn(a) /\ a.at = l
  <2> DEFINE a == [top EXCEPT !.at = l, !.loc = n]
  <2>1. a \in Placed
    BY <1>1, LabelPlaced
  <2>2. a.at = l /\ a.expr = top.expr /\ a.context = top.context
    BY <1>2 DEF ActivationType
  <2> QED
    BY <1>3, <2>1, <2>2
<1>7. ASSUME NEW r \in Bytes, NEW n \in Nat
      PROVE  LET a == [top EXCEPT !.at = l, !.reg = r, !.loc = n]
             IN GoesOn(a) /\ a.at = l
  <2> DEFINE a == [top EXCEPT !.at = l, !.reg = r, !.loc = n]
  <2>1. a \in Placed
    BY <1>1, LabelPlaced
  <2>2. a.at = l /\ a.expr = top.expr /\ a.context = top.context
    BY <1>2 DEF ActivationType
  <2> QED
    BY <1>3, <2>1, <2>2
<1> QED
  BY <1>4, <1>5, <1>6, <1>7

\* What a context is after the helpers that bind nothing.
LEMMA QuietContexts ==
  ASSUME NEW c, Shape(c)
  PROVE  /\ \A bytes : SameScope(c, WriteCode(c, bytes))
         /\ \A bytes : SameScope(c, WriteCode(GetFreeIntRegister(c), bytes))
         /\ \A bytes, loc : SameScope(c, PatchJump(WriteCode(c, bytes), loc))
         /\ \A v, bytes : SameScope(c,
              WriteCode(GetFreeIntRegister(WriteLoadLiteral(c, v)), bytes))
<1>1. ASSUME NEW d, SameScope(c, d)
      PROVE  /\ SameScope(c, GetFreeIntRegister(d))
             /\ \A bytes : SameScope(c, WriteCode(d, bytes))
             /\ \A loc : SameScope(c, PatchJump(d, loc))
  <2>1. Shape(d)
    BY <1>1 DEF SameScope, SameBindings
  <2>2. /\ SameScope(d, GetFreeIntRegister(d))
        /\ \A bytes : SameScope(d, WriteCode(d, bytes))
        /\ \A loc : SameScope(d, PatchJump(d, loc))
    BY <2>1, HelpersKeepScope, WriteCodeScope
  <2> QED
    BY <1>1, <2>2, ScopesCompose
<1>2. SameScope(c, c) /\ \A v : SameScope(c, WriteLoadLiteral(c, v))
  BY HelpersKeepScope
<1>3. \A bytes : SameScope(c, WriteCode(c, bytes))
  BY <1>1, <1>2
<1>4. ASSUME NEW bytes
      PROVE  SameScope(c, WriteCode(GetFreeIntRegister(c), bytes))
  <2>1. SameScope(c, GetFreeIntRegister(c))
    BY <1>1, <1>2
  <2> QED
    BY <1>1, <2>1
<1>5. ASSUME NEW bytes, NEW loc
      PROVE  SameScope(c, PatchJump(WriteCode(c, bytes), loc))
  <2>1. SameScope(c, WriteCode(c, bytes))
    BY <1>3
  <2> QED
    BY <1>1, <2>1
<1>6. ASSUME NEW v, NEW bytes
      PROVE  SameScope(c, WriteCode(GetFreeIntRegister(WriteLoadLiteral(c, v)), bytes))
  <2>1. SameScope(c, WriteLoadLiteral(c, v))
    BY <1>2
  <2>2. SameScope(c, GetFreeIntRegister(WriteLoadLiteral(c, v)))
    BY <1>1, <2>1
  <2> QED
    BY <1>1, <2>2
<1> QED
  BY <1>3, <1>4, <1>5, <1>6

LEMMA RunningContext ==
  ASSUME CompilerInv, Running
  PROVE  calls # <<>> /\ context \in ContextType /\ Shape(context)
BY TopFacts, ContextShape DEF Running

-----------------------------------------------------------------------------
\* The steps that return, and bind nothing.
LEMMA LeafScoped ==
  ASSUME CompilerInv, ScopesInv,
         CompileLiteral \/ RejectLetRec \/ CompileOperator \/ CompileUnaryOperator
           \/ EndIf \/ EndTuple
  PROVE  ScopesInv'
<1>1. Running /\ ~ Binds(top)
  BY DEF CompileLiteral, RejectLetRec, CompileOperator, CompileUnaryOperator,
         EndIf, EndTuple, Enter, At, Running, Binds
<1>2. Shape(context)
  BY <1>1, RunningContext
<1>3. ASSUME NEW c, SameScope(context, c), SetContext(c), NEW r, Return(r)
      PROVE  ScopesInv'
  BY <1>1, <1>3, SameScopeKeeps, ReturnScoped
<1>4. CASE CompileLiteral
  BY <1>2, <1>3, <1>4, HelpersKeepScope DEF CompileLiteral
<1>5. CASE RejectLetRec
  BY <1>2, <1>3, <1>5, HelpersKeepScope DEF RejectLetRec
<1>6. CASE CompileOperator
  BY <1>2, <1>3, <1>6, QuietContexts DEF CompileOperator
<1>7. CASE CompileUnaryOperator
  BY <1>2, <1>3, <1>7, QuietContexts DEF CompileUnaryOperator
<1>8. CASE EndIf
  <2> DEFINE move == IF ret # top.reg THEN <<OP.MOV, ret, top.reg>> ELSE <<>>
  <2>1. SetContext(PatchJump(WriteCode(context, move), top.loc)) /\ Return(top.reg)
    BY <1>8 DEF EndIf
  <2> HIDE DEF move
  <2> QED
    BY <1>2, <1>3, <2>1, QuietContexts
<1>9. CASE EndTuple
  BY <1>2, <1>3, <1>9, QuietContexts DEF EndTuple, StoreMember
<1> QED
  BY <1>4, <1>5, <1>6, <1>7, <1>8, <1>9

LEMMA IdentifierScoped ==
  ASSUME CompilerInv, ScopesInv, CompileIdentifier
  PROVE  ScopesInv'
<1> DEFINE id == top.expr.identifier_id
<1>1. Running /\ ~ Binds(top) /\ top.expr.type = "IDENTIFIER"
  BY DEF CompileIdentifier, Enter, At, Running, Binds
<1>2. calls # <<>> /\ top.expr \in Expression
  BY <1>1, TopFacts DEF Running
<1>3. id \in Symbol /\ id \in InScope
  BY <1>1, <1>2, TopScoped, Subexpressions, ScopedParts
<1>4. /\ SetContext(IdentifierContext(context, id))
      /\ Return(IdentifierRegister(context, id))
  BY DEF CompileIdentifier
<1> HIDE DEF id
<1>5. Keeps(IdentifierContext(context, id))
  BY <1>1, <1>3, LookupScoped
<1> QED
  BY <1>1, <1>4, <1>5, ReturnScoped

LEMMA LambdaScoped ==
  ASSUME CompilerInv, ScopesInv, CompileLambda
  PROVE  ScopesInv'
<1> DEFINE a == [top EXCEPT !.at = "lambda", !.reg = context.integer_registers]
<1>1. Running /\ ~ Binds(top) /\ top.expr.type \in ExpressionType["lambda"]
      /\ "lambda" \in DOMAIN ExpressionType /\ calls # <<>>
  BY DEF CompileLambda, Enter, At, Running, Binds, ExpressionType
<1>2. context.integer_registers \in Bytes /\ Shape(context)
  BY <1>1, TopFacts, RunningContext
<1>3. GoesOn(a) /\ a.at = "lambda"
  BY <1>1, <1>2, GoesOnLabel
<1>4. calls' = Become(a) /\ SetContext(GetFreeIntRegister(context))
  BY DEF CompileLambda
<1> HIDE DEF a
<1>5. Keeps(GetFreeIntRegister(context))
  BY <1>1, <1>2, HelpersKeepScope, SameScopeKeeps
<1>6. ~ Binds(a)
  BY <1>3 DEF Binds
<1> QED
  BY <1>1, <1>3, <1>4, <1>5, <1>6, BecomeScoped

LEMMA CloseVariableScoped ==
  ASSUME CompilerInv, ScopesInv, CloseVariable
  PROVE  ScopesInv'
<1> DEFINE id == top.closure[top.i + 1]
           c  == IdentifierContext(context, id)
           bytes == <<OP.STOREA_64, top.reg>> \o U16(ClosureSlot(top.i))
                      \o <<IdentifierRegister(context, id)>>
           a  == [top EXCEPT !.i = top.i + 1]
<1>1. Running /\ calls # <<>> /\ ~ Binds(top) /\ top.at = "closed"
  BY DEF CloseVariable, At, Running, Binds
<1>2. top \in ActivationType /\ top.i \in Nat /\ top.closure \in Seq(Symbol)
  BY <1>1, TopFacts DEF ActivationType
<1>3. id \in Symbol /\ id \in InScope
  <2>1. /\ top.i + 1 \in 1 .. Len(top.closure)
        /\ DOMAIN top.closure = 1 .. Len(top.closure)
    BY <1>2, LenProperties DEF CloseVariable
  <2>2. id \in Symbol
    BY <1>2, <2>1, ElementOfSeq
  <2>3. id \in ToSet(top.closure)
    BY <2>1 DEF ToSet
  <2>4. ToSet(top.closure) \subseteq InScope
    BY <1>1, TopScoped DEF ScopedAt
  <2> QED
    BY <2>2, <2>3, <2>4
<1>4. SetContext(WriteCode(c, bytes)) /\ calls' = Become(a)
  BY DEF CloseVariable
<1>5. GoesOn(a) /\ a.at = "closed"
  <2>1. top.i + 1 \in Nat
    BY <1>2
  <2>2. /\ a \in ActivationType /\ a.expr = top.expr /\ a.closure = top.closure
        /\ a.at = top.at /\ a.context = top.context
    BY <1>2, <2>1 DEF ActivationType
  <2>3. top \in Placed /\ ScopedAt(top, InScope)
    BY <1>1, TopFacts, TopScoped
  <2> HIDE DEF a
  <2> QED
    BY <1>1, <2>2, <2>3 DEF Placed, GoesOn, ScopedAt
<1> HIDE DEF a, bytes, id
<1>6. Keeps(c)
  BY <1>1, <1>3, LookupScoped
<1> HIDE DEF c
<1>7. Keeps(WriteCode(c, bytes))
  BY <1>6, WriteCodeScope DEF Keeps, SameScope, SameBindings
<1>8. ~ Binds(a)
  BY <1>5 DEF Binds
<1> QED
  BY <1>1, <1>4, <1>5, <1>7, <1>8, BecomeScoped

LEMMA ReturnClosureScoped ==
  ASSUME CompilerInv, ScopesInv, ReturnClosure
  PROVE  ScopesInv'
<1>1. Running /\ ~ Binds(top)
  BY DEF ReturnClosure, At, Running, Binds
<1>2. SetContext(context) /\ SameScope(context, context)
  BY <1>1, ContextUnchanged DEF ReturnClosure
<1> QED
  BY <1>1, <1>2, SameScopeKeeps, ReturnScoped DEF ReturnClosure

-----------------------------------------------------------------------------
\* The steps that call, and bind nothing.
LEMMA QuietCallScoped ==
  ASSUME CompilerInv, Running, ScopesInv, ~ Binds(top),
         NEW c, SetContext(c), SameScope(context, c),
         NEW a, GoesOn(a), ~ Binds(a),
         NEW e \in Expression, WellScoped(e, InScope), CallFrom(a, e)
  PROVE  ScopesInv'
BY SameScopeKeeps, CallScoped

\* The parts of the running activation's expression.
LEMMA TopParts ==
  ASSUME CompilerInv, Running, ScopesInv
  PROVE  /\ top.expr.type = "LET" =>
              WellScoped(top.expr.let_value, InScope)
         /\ top.expr.type \in {"LET", "LETREC"} =>
              /\ top.expr.let_id \in Symbol
              /\ top.expr.let_value \in Expression /\ top.expr.let_body \in Expression
              /\ WellScoped(top.expr.let_body, InScope \union {top.expr.let_id})
         /\ top.expr.type = "LETREC" =>
              WellScoped(top.expr.let_value, InScope \union {top.expr.let_id})
         /\ top.expr.type = "LAMBDA" =>
              /\ top.expr.lambda_id \in Symbol /\ top.expr.lambda_body \in Expression
              /\ WellScoped(top.expr.lambda_body, InScope \union {top.expr.lambda_id})
         /\ top.expr.type \in {"APPLY", "BINARY"} =>
              \A e \in {FirstOperand(top.expr), SecondOperand(top.expr)} :
                e \in Expression /\ WellScoped(e, InScope)
         /\ top.expr.type = "UNARY" =>
              top.expr.unary_arg \in Expression /\ WellScoped(top.expr.unary_arg, InScope)
         /\ top.expr.type = "IF" =>
              \A e \in {top.expr.if_test, top.expr.if_then, top.expr.if_else} :
                e \in Expression /\ WellScoped(e, InScope)
         /\ top.expr.type = "TUPLE" =>
              /\ top.expr.tuple_first \in Expression
              /\ WellScoped(top.expr.tuple_first, InScope)
<1> DEFINE e == top.expr
<1>1. e \in Expression /\ WellScoped(e, InScope)
  BY TopFacts, TopScoped DEF Running
<1> HIDE DEF e
<1>2. /\ e.type = "LAMBDA" => WellScoped(e.lambda_body, InScope \union {e.lambda_id})
      /\ e.type = "LET" => /\ WellScoped(e.let_value, InScope)
                           /\ WellScoped(e.let_body, InScope \union {e.let_id})
      /\ e.type = "LETREC" => /\ WellScoped(e.let_value, InScope \union {e.let_id})
                              /\ WellScoped(e.let_body, InScope \union {e.let_id})
  BY <1>1, ScopedParts
<1> QED
  BY <1>1, <1>2, ScopedOperands, Subexpressions DEF e

LEMMA DescendingScoped ==
  ASSUME CompilerInv, ScopesInv, CompileLet \/ CompileFirst \/ CompileUnary \/ CompileIf
  PROVE  ScopesInv'
<1>1. Running /\ ~ Binds(top) /\ contexts' = contexts
  BY DEF CompileLet, CompileFirst, CompileUnary, CompileIf, Enter, At, Running, Binds
<1>2. SetContext(context) /\ SameScope(context, context)
  BY <1>1, ContextUnchanged
<1>3. ASSUME NEW l \in {"let_value", "first", "operand", "if_test"},
             top.expr.type \in ExpressionType[l],
             NEW e \in Expression, WellScoped(e, InScope),
             CallFrom([top EXCEPT !.at = l], e)
      PROVE  ScopesInv'
  <2> DEFINE a == [top EXCEPT !.at = l]
  <2>1. l \in DOMAIN ExpressionType /\ l \notin {"body", "closed"}
    BY DEF ExpressionType
  <2>2. GoesOn(a) /\ a.at = l
    BY <1>1, <1>3, <2>1, GoesOnLabel
  <2> HIDE DEF a
  <2>3. ~ Binds(a) /\ CallFrom(a, e)
    BY <1>3, <2>2 DEF Binds, a
  <2> QED
    BY <1>1, <1>2, <1>3, <2>2, <2>3, QuietCallScoped
<1>4. CASE CompileLet
  <2>1. top.expr.type = "LET" /\ CallFrom([top EXCEPT !.at = "let_value"], top.expr.let_value)
    BY <1>4 DEF CompileLet, Enter
  <2> QED
    BY <1>1, <1>3, <2>1, TopParts DEF ExpressionType
<1>5. CASE CompileFirst
  <2>1. /\ top.expr.type \in {"APPLY", "BINARY"}
        /\ CallFrom([top EXCEPT !.at = "first"], FirstOperand(top.expr))
    BY <1>5 DEF CompileFirst, Enter
  <2> QED
    BY <1>1, <1>3, <2>1, TopParts DEF ExpressionType
<1>6. CASE CompileUnary
  <2>1. top.expr.type = "UNARY" /\ CallFrom([top EXCEPT !.at = "operand"], top.expr.unary_arg)
    BY <1>6 DEF CompileUnary, Enter
  <2> QED
    BY <1>1, <1>3, <2>1, TopParts DEF ExpressionType
<1>7. CASE CompileIf
  <2>1. top.expr.type = "IF" /\ CallFrom([top EXCEPT !.at = "if_test"], top.expr.if_test)
    BY <1>7 DEF CompileIf, Enter
  <2> QED
    BY <1>1, <1>3, <2>1, TopParts DEF ExpressionType
<1> QED
  BY <1>4, <1>5, <1>6, <1>7

LEMMA SecondScoped ==
  ASSUME CompilerInv, ScopesInv, CompileSecond
  PROVE  ScopesInv'
<1> DEFINE a == [top EXCEPT !.at = "second", !.reg = ret]
<1>1. Running /\ calls # <<>> /\ ~ Binds(top) /\ contexts' = contexts
  BY DEF CompileSecond, At, Running, Binds
<1>2. /\ "second" \in DOMAIN ExpressionType /\ top.expr.type \in {"APPLY", "BINARY"}
      /\ top.expr.type \in ExpressionType["second"] /\ ret \in Bytes
  BY <1>1, TopFacts DEF CompileSecond, At, ExpressionType, Placed
<1>3. GoesOn(a) /\ a.at = "second"
  BY <1>1, <1>2, GoesOnLabel
<1>4. CallFrom(a, SecondOperand(top.expr))
  BY DEF CompileSecond
<1> HIDE DEF a
<1>5. ~ Binds(a)
  BY <1>3 DEF Binds
<1>6. SetContext(context) /\ SameScope(context, context)
  BY <1>1, ContextUnchanged
<1>7. SecondOperand(top.expr) \in Expression /\ WellScoped(SecondOperand(top.expr), InScope)
  BY <1>1, <1>2, TopParts
<1> QED
  BY <1>1, <1>3, <1>4, <1>5, <1>6, <1>7, QuietCallScoped

LEMMA ThenScoped ==
  ASSUME CompilerInv, ScopesInv, CompileThen
  PROVE  ScopesInv'
<1> DEFINE n == Len(context.code) + 2
           a == [top EXCEPT !.at = "if_then", !.loc = n]
           c == WriteCode(context, <<OP.JZ, ret>> \o Hole)
<1>1. Running /\ calls # <<>> /\ ~ Binds(top)
  BY DEF CompileThen, At, Running, Binds
<1>2. /\ "if_then" \in DOMAIN ExpressionType /\ top.expr.type = "IF"
      /\ top.expr.type \in ExpressionType["if_then"]
  BY <1>1, TopFacts DEF CompileThen, At, ExpressionType, Placed
<1>3. n \in Nat
  BY <1>1, TopFacts, LenProperties
<1>4. GoesOn(a) /\ a.at = "if_then"
  <2> HIDE DEF n
  <2> QED
    BY <1>1, <1>2, <1>3, GoesOnLabel
<1>5. SetContext(c) /\ CallFrom(a, top.expr.if_then)
  BY DEF CompileThen
<1>6. SameScope(context, c)
  BY <1>1, RunningContext, QuietContexts
<1>7. top.expr.if_then \in Expression /\ WellScoped(top.expr.if_then, InScope)
  BY <1>1, <1>2, TopParts
<1> HIDE DEF a, c
<1>8. ~ Binds(a)
  BY <1>4 DEF Binds
<1> QED
  BY <1>1, <1>4, <1>5, <1>6, <1>7, <1>8, QuietCallScoped

LEMMA ElseScoped ==
  ASSUME CompilerInv, ScopesInv, CompileElse
  PROVE  ScopesInv'
<1> DEFINE n == Len(context.code) + 1
           a == [top EXCEPT !.at = "if_else", !.reg = ret, !.loc = n]
           c == PatchJump(WriteCode(context, <<OP.JMP>> \o Hole), top.loc)
<1>1. Running /\ calls # <<>> /\ ~ Binds(top)
  BY DEF CompileElse, At, Running, Binds
<1>2. /\ "if_else" \in DOMAIN ExpressionType /\ top.expr.type = "IF"
      /\ top.expr.type \in ExpressionType["if_else"]
  BY <1>1, TopFacts DEF CompileElse, At, ExpressionType, Placed
<1>3. n \in Nat /\ ret \in Bytes
  BY <1>1, TopFacts, LenProperties
<1>4. GoesOn(a) /\ a.at = "if_else"
  <2> HIDE DEF n
  <2> QED
    BY <1>1, <1>2, <1>3, GoesOnLabel
<1>5. SetContext(c) /\ CallFrom(a, top.expr.if_else)
  BY DEF CompileElse
<1>6. SameScope(context, c)
  BY <1>1, RunningContext, QuietContexts
<1>7. top.expr.if_else \in Expression /\ WellScoped(top.expr.if_else, InScope)
  BY <1>1, <1>2, TopParts
<1> HIDE DEF a, c
<1>8. ~ Binds(a)
  BY <1>4 DEF Binds
<1> QED
  BY <1>1, <1>4, <1>5, <1>6, <1>7, <1>8, QuietCallScoped

LEMMA TupleScoped ==
  ASSUME CompilerInv, ScopesInv, CompileTuple
  PROVE  ScopesInv'
<1> DEFINE len    == context.integer_registers
           loaded == WriteLoadLiteral(context, top.expr.tuple_length)
           out    == loaded.integer_registers
           a      == [top EXCEPT !.at = "member", !.reg = out]
           c      == WriteCode(GetFreeIntRegister(loaded), <<OP.NEW_TUPLE, len, out>>)
<1>1. Running /\ calls # <<>> /\ ~ Binds(top)
  BY DEF CompileTuple, Enter, At, Running, Binds
<1>2. /\ "member" \in DOMAIN ExpressionType /\ top.expr.type = "TUPLE"
      /\ top.expr.type \in ExpressionType["member"]
  BY DEF CompileTuple, Enter, ExpressionType
<1>3. out \in Bytes
  <2>1. top.expr.tuple_length \in Nat
    BY <1>1, <1>2, TopFacts, Subexpressions
  <2>2. loaded \in ContextType
    BY <1>1, <2>1, TopFacts, WriteLoadLiteralType
  <2> HIDE DEF loaded
  <2> QED
    BY <2>2 DEF ContextType
<1>4. GoesOn(a) /\ a.at = "member"
  <2> HIDE DEF out
  <2> QED
    BY <1>1, <1>2, <1>3, GoesOnLabel
<1>5. SetContext(c) /\ CallFrom(a, top.expr.tuple_first)
  BY DEF CompileTuple
<1>6. SameScope(context, c)
  BY <1>1, RunningContext, QuietContexts
<1>7. top.expr.tuple_first \in Expression /\ WellScoped(top.expr.tuple_first, InScope)
  BY <1>1, <1>2, TopParts
<1> HIDE DEF a, c
<1>8. ~ Binds(a)
  BY <1>4 DEF Binds
<1> QED
  BY <1>1, <1>4, <1>5, <1>6, <1>7, <1>8, QuietCallScoped

LEMMA NextMemberScoped ==
  ASSUME CompilerInv, ScopesInv, NextMember
  PROVE  ScopesInv'
<1> DEFINE a == [top EXCEPT !.i = top.i + 1]
<1>1. Running /\ calls # <<>> /\ ~ Binds(top) /\ top.at = "member"
  BY DEF NextMember, At, Running, Binds
<1>2. top.expr.type = "TUPLE" /\ top \in ActivationType /\ top \in Placed
  BY <1>1, TopFacts DEF ExpressionType, Placed
<1>3. GoesOn(a) /\ a.at = "member"
  <2>1. top.i + 1 \in Nat
    BY <1>2 DEF ActivationType
  <2>2. /\ a \in ActivationType /\ a.expr = top.expr
        /\ a.at = "member" /\ a.context = top.context
    BY <1>1, <1>2, <2>1 DEF ActivationType
  <2> HIDE DEF a
  <2> QED
    BY <1>1, <1>2, <2>2 DEF Placed, GoesOn
<1>4. SetContext(StoreMember) /\ CallFrom(a, top.expr.tuple_first)
  BY DEF NextMember
<1>5. SameScope(context, StoreMember)
  BY <1>1, RunningContext, QuietContexts DEF StoreMember
<1>6. top.expr.tuple_first \in Expression /\ WellScoped(top.expr.tuple_first, InScope)
  BY <1>1, <1>2, TopParts
<1> HIDE DEF a
<1>7. ~ Binds(a)
  BY <1>3 DEF Binds
<1> QED
  BY <1>1, <1>3, <1>4, <1>5, <1>6, <1>7, QuietCallScoped

-----------------------------------------------------------------------------
\* let and let rec: the bindings they push are the names their activations
\* bind, and the one that ends pops it.
LEMMA BindLetScoped ==
  ASSUME CompilerInv, ScopesInv, BindLet
  PROVE  ScopesInv'
<1> DEFINE id == top.expr.let_id
           a == [top EXCEPT !.at = "let_body"]
           b == Activation("enter", top.expr.let_body, top.context)
           c == PushBinding(context, id, ret)
           n == top.context
           names == NamesInScope(Front(calls), n)
<1>1. Running /\ calls # <<>> /\ ~ Binds(top)
  BY DEF BindLet, At, Running, Binds
<1>2. /\ "let_body" \in DOMAIN ExpressionType
      /\ top.expr.type \in {"LET", "LETREC"}
      /\ top.expr.type \in ExpressionType["let_body"]
  BY <1>1, TopFacts DEF BindLet, At, ExpressionType, Placed
<1>3. GoesOn(a) /\ a.at = "let_body"
  BY <1>1, <1>2, GoesOnLabel
<1>4. a.expr = top.expr /\ a.context = n /\ n \in Nat
  BY <1>1, <1>3, TopFacts DEF GoesOn, ActivationType
<1>5. id \in Symbol /\ top.expr.let_body \in Expression
      /\ WellScoped(top.expr.let_body, InScope \union {id})
  BY <1>1, <1>2, TopParts
<1>6. Binders(a, n) = <<id>> /\ Names(a) = {id}
  BY <1>3, <1>4 DEF Binders, Names
<1>7. b \in Placed /\ b.at = "enter" /\ b.context = n /\ b.expr = top.expr.let_body
  BY <1>4, <1>5, EnterPlaced DEF Activation
<1>8. SetContext(c) /\ calls' = Append(Become(a), b)
  BY <1>4 DEF BindLet, CallFrom
<1> HIDE DEF a, b
<1>9. Called(b, a)
  BY <1>5, <1>6, <1>7 DEF Called
<1>10. Over(calls') /\ Scoped(calls') /\ NamesInScope(calls', n) = names \o <<id>>
  BY <1>1, <1>3, <1>6, <1>8, <1>9, PushScoped
<1>11. names \in Seq(Symbol) /\ HasBound(context, names)
  <2>1. Front(calls) \in Seq(Placed)
    BY <1>1, Base
  <2> QED
    BY <1>1, <2>1, ScopesType, RunningScope
<1>12. HasBound(c, names \o <<id>>) /\ c.closure_symbols = context.closure_symbols
  <2> HIDE DEF names, id
  <2> QED
    BY <1>1, <1>5, <1>11, TopFacts, PushBindingBinds
<1> HIDE DEF c, names, id
<1>13. ToSet(c.closure_symbols) \subseteq Outer(Front(calls), n)
  BY <1>1, <1>12, RunningScope
<1> QED
  BY <1>1, <1>8, <1>10, <1>12, <1>13, ContextStep

LEMMA EndLetScoped ==
  ASSUME CompilerInv, ScopesInv, EndLet
  PROVE  ScopesInv'
<1> DEFINE id == top.expr.let_id
           c == PopBinding(context)
           n == top.context
           names == NamesInScope(Front(calls), n)
<1>1. Running /\ calls # <<>> /\ top.at = "let_body"
  BY DEF EndLet, At, Running
<1>2. top.expr.type \in {"LET", "LETREC"} /\ top \in Placed /\ context \in ContextType
  BY <1>1, TopFacts DEF Placed, ExpressionType
<1>3. id \in Symbol
  BY <1>1, <1>2, TopParts
<1>4. Front(calls) \in Seq(Placed) /\ calls = Append(Front(calls), top)
  BY <1>1, Base
<1>5. names \in Seq(Symbol) /\ NamesInScope(calls, n) = names \o <<id>>
  <2>1. Binders(top, n) = <<id>>
    BY <1>1 DEF Binders
  <2>2. NamesInScope(Append(Front(calls), top), n) = names \o Binders(top, n)
    BY <1>2, <1>4, ScopeAppend
  <2> QED
    BY <1>4, <2>1, <2>2, ScopesType
<1>6. HasBound(context, names \o <<id>>)
  BY <1>1, <1>5, RunningScope
<1>7. SetContext(c) /\ calls' = Front(calls)
  BY DEF EndLet, Return
<1> HIDE DEF id, names
<1>8. HasBound(c, names) /\ c.closure_symbols = context.closure_symbols
  BY <1>2, <1>3, <1>5, <1>6, PopBindingBinds
<1>9. Over(calls') /\ Scoped(calls')
  BY <1>1, <1>7, TopScoped DEF Over
<1>10. NamesInScope(calls', n) = names
  BY <1>7 DEF names
<1> HIDE DEF c
<1>11. ToSet(c.closure_symbols) \subseteq Outer(Front(calls), n)
  BY <1>1, <1>8, RunningScope
<1> QED
  BY <1>1, <1>7, <1>8, <1>9, <1>10, <1>11, ContextStep

LEMMA LetRecBodyScoped ==
  ASSUME CompilerInv, ScopesInv, LetRecBody
  PROVE  ScopesInv'
<1> DEFINE id == top.expr.let_id
           a == [top EXCEPT !.at = "let_body"]
           b == Activation("enter", top.expr.let_body, top.context)
           n == top.context
<1>1. Running /\ calls # <<>> /\ top.at = "rec_value" /\ contexts' = contexts
  BY DEF LetRecBody, At, Running
<1>2. /\ "let_body" \in DOMAIN ExpressionType
      /\ top.expr.type \in {"LET", "LETREC"}
      /\ top.expr.type \in ExpressionType["let_body"] /\ top \in Placed
  BY <1>1, TopFacts DEF ExpressionType, Placed
<1>3. GoesOn(a) /\ a.at = "let_body"
  BY <1>1, <1>2, GoesOnLabel
<1>4. a.expr = top.expr /\ a.context = n /\ n \in Nat
  BY <1>1, <1>3, TopFacts DEF GoesOn, ActivationType
<1>5. top.expr.let_body \in Expression /\ WellScoped(top.expr.let_body, InScope \union {id})
  BY <1>1, <1>2, TopParts
<1>6. Binders(a, n) = <<id>> /\ Names(a) = {id} /\ Binders(top, n) = <<id>>
  BY <1>1, <1>3, <1>4 DEF Binders, Names
<1>7. b \in Placed /\ b.at = "enter" /\ b.context = n /\ b.expr = top.expr.let_body
  BY <1>4, <1>5, EnterPlaced DEF Activation
<1>8. calls' = Append(Become(a), b)
  BY <1>4 DEF LetRecBody, CallFrom
<1> HIDE DEF a, b, id
<1>9. Called(b, a)
  BY <1>5, <1>6, <1>7 DEF Called
<1>10. Over(calls') /\ Scoped(calls')
       /\ NamesInScope(calls', n) = NamesInScope(Front(calls), n) \o <<id>>
  BY <1>1, <1>3, <1>6, <1>8, <1>9, PushScoped
<1>11. NamesInScope(calls, n) = NamesInScope(Front(calls), n) \o <<id>>
  <2>1. Front(calls) \in Seq(Placed) /\ calls = Append(Front(calls), top)
    BY <1>1, Base
  <2>2. NamesInScope(Append(Front(calls), top), n) = NamesInScope(Front(calls), n) \o <<id>>
    BY <1>2, <1>6, <2>1, ScopeAppend
  <2> QED
    BY <2>1, <2>2
<1>12. SetContext(context)
  BY <1>1, ContextUnchanged
<1> QED
  BY <1>1, <1>10, <1>11, <1>12, RunningScope, ContextStep

LEMMA LetRecScoped ==
  ASSUME CompilerInv, ScopesInv, CompileLetRec
  PROVE  ScopesInv'
<1> DEFINE id == top.expr.let_id
           dest == context.integer_registers
           a == [top EXCEPT !.at = "rec_value"]
           b == [Activation("lambda", top.expr.let_value, top.context) EXCEPT
                   !.self_id = top.expr.let_id, !.reg = dest]
           d == GetFreeIntRegister(context)
           c == PushBinding(d, id, dest)
           n == top.context
           names == NamesInScope(Front(calls), n)
<1>1. Running /\ calls # <<>> /\ ~ Binds(top)
  BY DEF CompileLetRec, Enter, At, Running, Binds
<1>2. /\ "rec_value" \in DOMAIN ExpressionType
      /\ top.expr.type \in ExpressionType["rec_value"]
      /\ top.expr.type = "LETREC" /\ top.expr.let_value.type = "LAMBDA"
  BY DEF CompileLetRec, Enter, ExpressionType
<1>3. /\ top.expr.let_value \in Expression /\ id \in Symbol
      /\ WellScoped(top.expr.let_value, InScope \union {id})
  BY <1>1, <1>2, TopParts
<1>4. GoesOn(a) /\ a.at = "rec_value"
  BY <1>1, <1>2, GoesOnLabel
<1>5. a.expr = top.expr /\ a.context = n /\ n \in Nat
  BY <1>1, <1>4, TopFacts DEF GoesOn, ActivationType
<1>6. Binders(a, n) = <<id>> /\ Names(a) = {id}
  BY <1>4, <1>5 DEF Binders, Names
<1>7. /\ b \in Placed /\ b.context = n /\ b.at = "lambda"
      /\ b.expr = top.expr.let_value
  <2>1. <<>> \in Seq(Symbol) /\ 0 \in Bytes
    BY BytesWithin
  <2>2. dest \in Bytes
    BY <1>1, TopFacts
  <2> HIDE DEF dest
  <2>3. /\ b \in ActivationType /\ b.at = "lambda" /\ b.context = n
        /\ b.expr = top.expr.let_value
    BY <1>3, <1>5, <2>1, <2>2 DEF Activation, ActivationType, ExpressionType
  <2> HIDE DEF b
  <2> QED
    BY <1>2, <2>3 DEF Placed, ExpressionType
<1>8. SetContext(c) /\ calls' = Append(Become(a), b)
  BY DEF CompileLetRec
<1> HIDE DEF a, b
<1>9. Called(b, a)
  BY <1>3, <1>6, <1>7 DEF Called
<1>10. Over(calls') /\ Scoped(calls') /\ NamesInScope(calls', n) = names \o <<id>>
  BY <1>1, <1>4, <1>6, <1>8, <1>9, PushScoped
<1>11. names \in Seq(Symbol) /\ HasBound(context, names)
  <2>1. Front(calls) \in Seq(Placed)
    BY <1>1, Base
  <2> QED
    BY <1>1, <2>1, ScopesType, RunningScope
<1>12. /\ d \in ContextType /\ dest \in Bytes /\ HasBound(d, names)
       /\ d.closure_symbols = context.closure_symbols
  <2>1. SameScope(context, d) /\ d \in ContextType /\ dest \in Bytes
    BY <1>1, TopFacts, RunningContext, HelpersKeepScope, GetFreeIntRegisterType
  <2> HIDE DEF d, names
  <2> QED
    BY <1>11, <2>1, SameBindingsBound DEF SameScope
<1>13. HasBound(c, names \o <<id>>) /\ c.closure_symbols = context.closure_symbols
  <2> HIDE DEF names, id, d, dest
  <2> QED
    BY <1>3, <1>11, <1>12, PushBindingBinds
<1> HIDE DEF c, names, id
<1>14. ToSet(c.closure_symbols) \subseteq Outer(Front(calls), n)
  BY <1>1, <1>13, RunningScope
<1> QED
  BY <1>1, <1>8, <1>10, <1>13, <1>14, ContextStep

-----------------------------------------------------------------------------
(***************************************************************************)
(* The steps that enter and leave a function.                              *)
(***************************************************************************)
SelfName(id) == IF id = INVALID_SYMBOL THEN <<>> ELSE <<id>>

\* The new context has bound the lambda's own name, if any, and its argument,
\* whatever malloc left in its bindings array.
LEMMA LambdaContextBound ==
  ASSUME NEW garbage \in Seq(Binding), NEW id \in Symbol \union {INVALID_SYMBOL},
         NEW e \in Expression, e.type = "LAMBDA"
  PROVE  LET c == LambdaContext(garbage, id, e)
         IN /\ HasBound(c, SelfName(id) \o <<e.lambda_id>>)
            /\ c.closure_symbols = <<>>
<1> DEFINE blank == InitCompileContext(garbage)
           c == GetFreeIntRegister(blank)
           s == IF id # INVALID_SYMBOL THEN PushBinding(c, id, 0) ELSE c
           f == GetFreeIntRegister(s)
           arg == e.lambda_id
           self == SelfName(id)
<1>1. blank \in ContextType /\ HasBound(blank, <<>>) /\ blank.closure_symbols = <<>>
  <2>1. Len(garbage) \in Nat /\ Len(<<>>) = 0
    BY LenProperties, EmptySeq
  <2> QED
    BY <2>1, BlankContextType DEF InitCompileContext, HasBound
<1> HIDE DEF blank
<1>2. ASSUME NEW x \in ContextType, NEW names, HasBound(x, names)
      PROVE  /\ GetFreeIntRegister(x) \in ContextType
             /\ HasBound(GetFreeIntRegister(x), names)
             /\ GetFreeIntRegister(x).closure_symbols = x.closure_symbols
  <2>1. SameScope(x, GetFreeIntRegister(x))
    BY ContextShape, HelpersKeepScope
  <2> QED
    BY <1>2, <2>1, GetFreeIntRegisterType, SameBindingsBound DEF SameScope
<1>3. c \in ContextType /\ HasBound(c, <<>>) /\ c.closure_symbols = <<>>
  BY <1>1, <1>2
<1> HIDE DEF c
<1>4. self \in Seq(Symbol) /\ arg \in Symbol
  BY Subexpressions, EmptySeq DEF SelfName
<1>5. s \in ContextType /\ HasBound(s, self) /\ s.closure_symbols = <<>>
  <2>1. CASE id = INVALID_SYMBOL
    BY <1>3, <2>1 DEF SelfName
  <2>2. CASE id # INVALID_SYMBOL
    <3>1. id \in Symbol /\ s = PushBinding(c, id, 0) /\ self = <<id>> /\ 0 \in Bytes
      BY <2>2, BytesWithin DEF SelfName
    <3>2. <<>> \in Seq(Symbol) /\ <<>> \o <<id>> = <<id>>
      <4>1. <<id>> \in Seq(Symbol)
        BY <3>1
      <4> QED
        BY <4>1, EmptySeq, ConcatEmptySeq
    <3>3. /\ HasBound(PushBinding(c, id, 0), <<>> \o <<id>>)
          /\ PushBinding(c, id, 0).closure_symbols = c.closure_symbols
      BY <1>3, <3>1, <3>2, PushBindingBinds
    <3>4. PushBinding(c, id, 0) \in ContextType
      BY <1>3, <3>1, PushBindingType
    <3> QED
      BY <1>3, <3>1, <3>2, <3>3, <3>4
  <2> QED
    BY <2>1, <2>2
<1>6. LambdaContext(garbage, id, e) = PushBinding(f, arg, 1)
  BY DEF LambdaContext, c, blank
<1> HIDE DEF s
<1>7. f \in ContextType /\ HasBound(f, self) /\ f.closure_symbols = <<>>
  BY <1>2, <1>5
<1> HIDE DEF f, self, arg
<1>8. /\ HasBound(PushBinding(f, arg, 1), self \o <<arg>>)
      /\ PushBinding(f, arg, 1).closure_symbols = <<>>
  BY <1>4, <1>7, PushBindingBinds, BytesWithin
<1> QED
  BY <1>6, <1>8 DEF self, arg

LEMMA EnterLambdaScoped ==
  ASSUME CompilerInv, ScopesInv, EnterLambda
  PROVE  ScopesInv'
<1> DEFINE a == [top EXCEPT !.at = "body", !.array = array',
                            !.func_id = Len(functions)]
           b == Activation("enter", top.expr.lambda_body, Len(contexts) + 1)
           n == Len(contexts)
           base == Front(calls)
           id == top.expr.lambda_id
<1>1. Running /\ calls # <<>> /\ top.at = "lambda" /\ ~ Binds(top)
  BY DEF EnterLambda, At, Running, Binds
<1>2. /\ top.expr.type = "LAMBDA" /\ top \in Placed /\ top.expr \in Expression
      /\ top.context = n /\ n \in Nat /\ contexts \in Seq(ContextType)
      /\ top.self_id \in Symbol \union {INVALID_SYMBOL}
  BY <1>1, TopFacts, RunningDepth DEF CompilerInv, Placed, ExpressionType, ActivationType
<1>3. /\ id \in Symbol /\ top.expr.lambda_body \in Expression
      /\ WellScoped(top.expr.lambda_body, InScope \union {id})
  BY <1>1, <1>2, TopParts
<1>4. /\ a \in Placed /\ a.at = "body" /\ a.context = n /\ a.expr = top.expr
      /\ a.self_id = top.self_id
  <2>1. array' \in Nat /\ Len(functions) \in Nat
    BY LenProperties DEF EnterLambda, AddFunction, CompilerInv
  <2>2. /\ a \in ActivationType /\ a.at = "body" /\ a.context = n
        /\ a.expr = top.expr /\ a.self_id = top.self_id
    BY <1>1, <1>2, <2>1, TopFacts DEF ActivationType, ExpressionType
  <2> HIDE DEF a
  <2> QED
    BY <1>2, <2>2 DEF Placed, ExpressionType
<1>5. /\ b \in Placed /\ b.at = "enter" /\ b.expr = top.expr.lambda_body
      /\ ~ Binds(b) /\ Names(b) = {}
  BY <1>2, <1>3, EnterPlaced DEF Activation, Binds, Names
<1>6. calls' = Append(Append(base, a), b) /\ base \in Seq(Placed) /\ calls = Append(base, top)
  <2>1. calls' = Append(Become(a), b)
    BY DEF EnterLambda
  <2> HIDE DEF a, b
  <2> QED
    BY <1>1, <1>4, <2>1, Base
<1>7. PICK garbage \in Seq(Binding) :
        contexts' = Append(contexts, LambdaContext(garbage, top.self_id, top.expr))
  <2>1. <<>> \in Seq(Binding) /\ freed \subseteq Seq(Binding)
    BY EmptySeq DEF CompilerInv
  <2>2. ({<<>>} \union (IF Recycled THEN freed ELSE {})) \subseteq Seq(Binding)
    BY <2>1
  <2> QED
    BY <2>2 DEF EnterLambda
<1> DEFINE new == LambdaContext(garbage, top.self_id, top.expr)
           s == Append(base, a)
<1>8. /\ InnerContext(a) = n + 1 /\ Names(a) = {id}
      /\ Binders(a, n + 1) = SelfName(top.self_id) \o <<id>>
  BY <1>2, <1>4 DEF InnerContext, Names, Binders, SelfName
<1>9. /\ new \in ContextType /\ new.closure_symbols = <<>>
      /\ HasBound(new, SelfName(top.self_id) \o <<id>>)
  BY <1>2, LambdaContextType, LambdaContextBound
<1> HIDE DEF a, b, new
<1>10. /\ Len(contexts') = n + 1 /\ contexts'[n + 1] = new
       /\ \A d \in 1 .. n : contexts'[d] = contexts[d]
  <2>1. contexts' = Append(contexts, new)
    BY <1>7 DEF new
  <2> QED
    BY <1>2, <1>9, <2>1, AppendProperties
<1>11. s \in Seq(Placed)
  BY <1>4, <1>6, AppendProperties
<1>12. Scoped(calls')
  <2>1. Scoped(base) /\ ScopedAt(top, InScope) /\ InScope = NamesOf(base)
    BY <1>1, TopScoped DEF InScope
  <2>2. ScopedAt(a, NamesOf(base))
    BY <1>4, <2>1 DEF ScopedAt
  <2>3. Scoped(s) /\ NamesOf(s) = InScope \union {id}
    BY <1>4, <1>6, <1>8, <2>1, <2>2, NamesAppend
  <2>4. ScopedAt(b, NamesOf(s))
    BY <1>3, <1>5, <2>3 DEF ScopedAt
  <2> HIDE DEF s
  <2>5. Scoped(Append(s, b))
    BY <1>5, <1>11, <2>3, <2>4, NamesAppend
  <2> QED
    BY <1>6, <2>5 DEF s
<1>13. ASSUME NEW d
       PROVE  /\ NamesInScope(calls', d) = NamesInScope(base, d) \o Binders(a, d)
              /\ Outer(calls', d) = Outer(base, d) \union Outside(a, d)
              /\ NamesInScope(calls, d) = NamesInScope(base, d)
              /\ Outer(calls, d) = Outer(base, d)
  <2>1. /\ NamesInScope(s, d) = NamesInScope(base, d) \o Binders(a, d)
        /\ Outer(s, d) = Outer(base, d) \union Outside(a, d)
    BY <1>4, <1>6, ScopeAppend, NamesAppend
  <2> HIDE DEF s
  <2>2. NamesInScope(Append(s, b), d) = NamesInScope(s, d)
    BY <1>5, <1>11, ScopeNoBinders
  <2>3. Outer(Append(s, b), d) = Outer(s, d)
    <3>1. Outer(Append(s, b), d) = Outer(s, d) \union Outside(b, d)
      BY <1>5, <1>11, NamesAppend
    <3> QED
      BY <1>5, <3>1 DEF Outside
  <2>4. NamesInScope(Append(base, top), d) = NamesInScope(base, d)
    BY <1>1, <1>2, <1>6, ScopeNoBinders
  <2>5. Outer(Append(base, top), d) = Outer(base, d)
    <3>1. Outer(Append(base, top), d) = Outer(base, d) \union Outside(top, d)
      BY <1>2, <1>6, NamesAppend
    <3>2. Names(top) = {}
      BY <1>1 DEF Names
    <3> QED
      BY <3>1, <3>2 DEF Outside
  <2> QED
    BY <1>6, <2>1, <2>2, <2>3, <2>4, <2>5 DEF s
<1> HIDE DEF s, base
<1>14. ASSUME NEW d \in 1 .. n
       PROVE  ContextScoped(calls', d, contexts'[d])
  <2>1. d \in Nat /\ n + 1 # d /\ ~ (n + 1 < d)
    BY <1>2
  <2>2. Binders(a, d) = <<>> /\ Outside(a, d) = {}
    BY <1>4, <1>8, <2>1, BindersElsewhere DEF Outside
  <2>3. NamesInScope(base, d) \o <<>> = NamesInScope(base, d)
    BY <1>6, ScopesType, ConcatEmptySeq
  <2>4. NamesInScope(calls', d) = NamesInScope(calls, d) /\ Outer(calls', d) = Outer(calls, d)
    BY <1>13, <2>2, <2>3
  <2>5. ContextScoped(calls, d, contexts[d])
    BY DEF ScopesInv
  <2> QED
    BY <1>10, <2>4, <2>5 DEF ContextScoped
<1>15. ContextScoped(calls', n + 1, contexts'[n + 1])
  <2>1. NamesInScope(base, n + 1) = <<>>
    <3>1. n + 1 \in Nat
      BY <1>2
    <3>2. \A i \in 1 .. Len(base) : InnerContext(base[i]) # n + 1
      <4>1. \A i \in 1 .. Len(base) :
              InnerContext(base[i]) \in Nat /\ InnerContext(base[i]) <= n
        BY <1>1, <1>2, Base DEF base
      <4> QED
        BY <1>2, <4>1
    <3> QED
      BY <1>6, <3>1, <3>2, NamesListed DEF ListsBound
  <2>2. Binders(a, n + 1) \in Seq(Symbol)
    BY <1>4, BindersType
  <2>3. NamesInScope(calls', n + 1) = SelfName(top.self_id) \o <<id>>
    BY <1>8, <1>13, <2>1, <2>2, ConcatEmptySeq
  <2>4. ToSet(<<>>) = {}
    BY DEF ToSet
  <2> QED
    BY <1>9, <1>10, <2>3, <2>4 DEF ContextScoped
<1>16. \A d \in 1 .. n + 1 : d \in 1 .. n \/ d = n + 1
  BY <1>2
<1> QED
  BY <1>10, <1>12, <1>14, <1>15, <1>16 DEF ScopesInv

LEMMA FinishLambdaScoped ==
  ASSUME CompilerInv, ScopesInv, FinishLambda
  PROVE  ScopesInv'
<1> DEFINE h == top.context
           child == Last(contexts)
           result == FinishCompile(child, ret, top.func_id)
           loaded == WriteLoadLiteral(context, top.func_id)
           bytes == <<OP.NEW_CLOSURE, context.integer_registers, top.reg>>
           c == WriteCode(loaded, bytes)
           a == [top EXCEPT !.at = "closed", !.closure = result.closure]
           base == Front(calls)
<1>1. calls # <<>> /\ top.at = "body"
  BY DEF FinishLambda, At
<1>2. /\ top \in Placed /\ context \in ContextType /\ top.func_id \in Nat
      /\ top.expr.type = "LAMBDA" /\ contexts \in Seq(ContextType)
  BY <1>1, TopFacts DEF CompilerInv, Placed, ActivationType, ExpressionType
<1>3. /\ Len(contexts) = h + 1 /\ h \in Nat \ {0} /\ InnerContext(top) = h + 1
      /\ h \in 1 .. Len(contexts)
  BY <1>1, StackTop DEF CompilerInv, InnerContext, top
<1>4. child = contexts[h + 1] /\ h + 1 \in 1 .. Len(contexts) /\ child \in ContextType
  <2>1. h + 1 \in 1 .. Len(contexts)
    BY <1>3
  <2> QED
    BY <1>2, <1>3, <2>1, ElementOfSeq DEF Last
<1>5. result.closure = child.closure_symbols /\ child.closure_symbols \in Seq(Symbol)
  BY <1>4 DEF FinishCompile, ContextType
<1>6. /\ a \in Placed /\ a.at = "closed" /\ a.context = h /\ a.expr = top.expr
      /\ a.closure = child.closure_symbols
  <2> HIDE DEF result, child
  <2>1. /\ a \in ActivationType /\ a.at = "closed" /\ a.context = h
        /\ a.expr = top.expr /\ a.closure = child.closure_symbols
    BY <1>1, <1>5, TopFacts DEF ActivationType, ExpressionType
  <2> HIDE DEF a
  <2> QED
    BY <1>2, <2>1 DEF Placed, ExpressionType
<1>7. calls' = Become(a) /\ contexts' = [Front(contexts) EXCEPT ![h] = c]
  BY DEF FinishLambda
<1>8. SameScope(context, c)
  <2>1. SameScope(context, loaded)
    BY <1>2, ContextShape, HelpersKeepScope
  <2> HIDE DEF loaded, bytes
  <2>2. SameScope(loaded, c)
    BY <2>1, WriteCodeScope DEF SameScope, SameBindings
  <2> HIDE DEF c
  <2> QED
    BY <2>1, <2>2, ScopesCompose
<1> HIDE DEF a, c
<1>9. calls' = Append(base, a) /\ base \in Seq(Placed) /\ calls = Append(base, top)
  BY <1>1, <1>6, <1>7, Base
<1>10. /\ Len(contexts') = h
       /\ \A d \in 1 .. h : contexts'[d] = IF d = h THEN c ELSE contexts[d]
  <2>1. \A d \in 1 .. h : contexts[d] \in ContextType
    BY <1>2, <1>3, ElementOfSeq
  <2>2. Front(contexts) = SubSeq(contexts, 1, h)
    BY <1>3 DEF Front
  <2>3. 1 \in Int /\ h \in Int
    BY <1>3
  <2> DEFINE t == SubSeq(contexts, 1, h)
             S == ContextType \union {c}
  <2>4. /\ t \in Seq(ContextType)
        /\ Len(t) = IF 1 <= h THEN h - 1 + 1 ELSE 0
        /\ \A d \in 1 .. h - 1 + 1 : t[d] = contexts[1 + d - 1]
    <3> HIDE DEF h
    <3> QED
      BY <2>1, <2>3, SubSeqProperties
  <2> HIDE DEF t
  <2>5. Len(t) = h /\ t \in Seq(S) /\ c \in S
    BY <1>3, <2>4, SeqMonotonic
  <2>6. \A d \in 1 .. h : t[d] = contexts[d]
    <3> TAKE d \in 1 .. h
    <3>1. d \in 1 .. h - 1 + 1 /\ 1 + d - 1 = d
      BY <1>3
    <3> QED
      BY <2>4, <3>1
  <2>7. contexts' = [t EXCEPT ![h] = c]
    BY <1>7, <2>2 DEF t
  <2> HIDE DEF h, S
  <2> QED
    BY <1>3, <2>5, <2>6, <2>7, ExceptSeq
<1>11. ASSUME NEW d \in 1 .. h
       PROVE  /\ NamesInScope(calls', d) = NamesInScope(calls, d)
              /\ Outer(calls', d) = Outer(calls, d)
  <2>1. d \in Nat /\ h + 1 # d /\ ~ (h + 1 < d) /\ ~ (h < d)
    BY <1>3
  <2>2. Binders(top, d) = <<>> /\ Outside(top, d) = {}
    BY <1>2, <1>3, <2>1, BindersElsewhere DEF Outside
  <2>3. Binders(a, d) = <<>> /\ Outside(a, d) = {}
    BY <1>6 DEF Outside, Binders, Names
  <2> HIDE DEF base
  <2>4. NamesInScope(Append(base, a), d) = NamesInScope(base, d)
    BY <1>6, <1>9, <2>3, ScopeSame
  <2>5. NamesInScope(Append(base, top), d) = NamesInScope(base, d)
    BY <1>2, <1>9, <2>2, ScopeSame
  <2>6. Outer(Append(base, a), d) = Outer(base, d)
    <3>1. Outer(Append(base, a), d) = Outer(base, d) \union Outside(a, d)
      BY <1>6, <1>9, NamesAppend
    <3> QED
      BY <2>3, <3>1
  <2>7. Outer(Append(base, top), d) = Outer(base, d)
    <3>1. Outer(Append(base, top), d) = Outer(base, d) \union Outside(top, d)
      BY <1>2, <1>9, NamesAppend
    <3> QED
      BY <2>2, <3>1
  <2> QED
    BY <1>9, <2>4, <2>5, <2>6, <2>7
<1>12. ToSet(child.closure_symbols) \subseteq NamesOf(base)
  <2>1. ToSet(child.closure_symbols) \subseteq Outer(calls, h + 1)
    BY <1>4 DEF ScopesInv, ContextScoped
  <2>2. Outside(top, h + 1) = {}
    <3>1. ~ (h + 1 < h + 1)
      BY <1>3
    <3> QED
      BY <1>3, <3>1 DEF Outside
  <2> HIDE DEF base
  <2>3. Outer(Append(base, top), h + 1) = Outer(base, h + 1) \union Outside(top, h + 1)
    BY <1>2, <1>9, NamesAppend
  <2>4. Outer(base, h + 1) \subseteq NamesOf(base)
    BY DEF Outer, Outside, NamesOf
  <2> QED
    BY <1>9, <2>1, <2>2, <2>3, <2>4
<1>13. Scoped(calls')
  <2>1. Scoped(base) /\ ScopedAt(top, NamesOf(base))
    BY <1>1, TopScoped DEF InScope
  <2>2. ScopedAt(a, NamesOf(base))
    BY <1>6, <1>12, <2>1 DEF ScopedAt
  <2> HIDE DEF base
  <2> QED
    BY <1>6, <1>9, <2>1, <2>2, NamesAppend
<1>14. ASSUME NEW d \in 1 .. h
       PROVE  ContextScoped(calls', d, contexts'[d])
  <2>1. ContextScoped(calls, d, contexts[d])
    <3>1. d \in 1 .. Len(contexts)
      BY <1>3
    <3> QED
      BY <3>1 DEF ScopesInv
  <2>2. SameScope(contexts[d], contexts'[d])
    <3>1. CASE d = h
      BY <1>8, <1>10, <3>1 DEF context
    <3>2. CASE d # h
      <4>1. contexts'[d] = contexts[d] /\ d \in 1 .. Len(contexts)
        BY <1>3, <1>10, <3>2
      <4>2. contexts[d] \in ContextType
        BY <1>2, <4>1, ElementOfSeq
      <4> QED
        BY <4>1, <4>2, ContextShape, HelpersKeepScope
    <3> QED
      BY <3>1, <3>2
  <2>3. HasBound(contexts'[d], NamesInScope(calls, d))
    BY <2>1, <2>2, SameBindingsBound DEF ContextScoped, SameScope
  <2> QED
    BY <1>11, <2>1, <2>2, <2>3 DEF ContextScoped, SameScope
<1> QED
  BY <1>10, <1>13, <1>14 DEF ScopesInv

LEMMA FinishModuleScoped ==
  ASSUME CompilerInv, ScopesInv, FinishModule
  PROVE  ScopesInv'
<1>1. calls # <<>> /\ calls' = Front(calls) /\ contexts' = <<>>
  BY DEF FinishModule, At, Return
<1>2. Scoped(calls')
  BY <1>1, TopScoped
<1>3. 1 .. Len(contexts') = {}
  BY <1>1
<1> QED
  BY <1>2, <1>3 DEF ScopesInv

-----------------------------------------------------------------------------
LEMMA ScopesFirst ==
  ASSUME \A p \in Programs : WellScoped(p, {}), Init
  PROVE  ScopesInv
<1> DEFINE main == [Activation("module", program, 1) EXCEPT !.array = 1]
           enter == Activation("enter", program, 1)
           one == <<main>>
           blank == InitCompileContext(<<>>)
<1>1. /\ CompilerInv /\ calls = <<main, enter>> /\ contexts = <<blank>>
      /\ program \in Programs
  BY CompilerInit DEF Init
<1>2. /\ main.at = "module" /\ main.expr = program
      /\ enter.at = "enter" /\ enter.expr = program
  BY DEF Activation
<1>3. HasBound(blank, <<>>) /\ blank.closure_symbols = <<>>
  BY EmptySeq DEF InitCompileContext, HasBound
<1> HIDE DEF main, enter, blank
<1>4. main \in Placed /\ enter \in Placed
  <2>1. calls \in Seq(Placed) /\ Len(calls) = 2 /\ calls[1] = main /\ calls[2] = enter
    BY <1>1 DEF CompilerInv, Stack
  <2>2. 1 \in 1 .. Len(calls) /\ 2 \in 1 .. Len(calls)
    BY <2>1
  <2> QED
    BY <2>1, <2>2, ElementOfSeq
<1>5. /\ ~ Binds(main) /\ ~ Binds(enter) /\ Names(main) = {}
      /\ ScopedAt(main, {}) /\ ScopedAt(enter, {})
  BY <1>1, <1>2 DEF Binds, Names, ScopedAt
<1>6. one = Append(<<>>, main) /\ calls = Append(one, enter) /\ <<>> \in Seq(Placed)
  BY <1>1, EmptySeq
<1> HIDE DEF one
<1>7. one \in Seq(Placed)
  BY <1>4, <1>6, AppendProperties
<1>8. ASSUME NEW d PROVE NamesInScope(calls, d) = <<>>
  <2>1. NamesInScope(one, d) = <<>>
    BY <1>4, <1>5, <1>6, NoNames, ScopeNoBinders
  <2> QED
    BY <1>4, <1>5, <1>6, <1>7, <2>1, ScopeNoBinders
<1>9. Scoped(calls)
  <2>1. Scoped(<<>>) /\ NamesOf(<<>>) = {}
    BY NoNames
  <2>2. Scoped(one) /\ NamesOf(one) = {}
    BY <1>4, <1>5, <1>6, <2>1, NamesAppend
  <2>3. Scoped(Append(one, enter))
    BY <1>4, <1>5, <1>7, <2>2, NamesAppend
  <2> QED
    BY <1>6, <2>3
<1>10. Len(contexts) = 1 /\ contexts[1] = blank /\ 1 .. 1 = {1}
  BY <1>1
<1>11. ContextScoped(calls, 1, contexts[1])
  <2>1. ToSet(<<>>) = {}
    BY DEF ToSet
  <2> QED
    BY <1>3, <1>8, <1>10, <2>1 DEF ContextScoped
<1> QED
  BY <1>9, <1>10, <1>11 DEF ScopesInv

LEMMA ScopesKept ==
  ASSUME CompilerInv, ScopesInv, [CompileNext]_vars
  PROVE  ScopesInv'
<1>1. CASE UNCHANGED vars
  BY <1>1 DEF vars, ScopesInv, ContextScoped
<1>2. CASE CompileNext
  BY <1>2, LeafScoped, IdentifierScoped, LambdaScoped, EnterLambdaScoped,
     FinishLambdaScoped, CloseVariableScoped, ReturnClosureScoped,
     DescendingScoped, BindLetScoped, EndLetScoped, LetRecScoped,
     LetRecBodyScoped, SecondScoped, ThenScoped, ElseScoped, TupleScoped,
     NextMemberScoped, FinishModuleScoped DEF CompileNext
<1> QED
  BY <1>1, <1>2

\* When every name in the programs is bound, as the type checker says, the
\* live bindings of every context on the C stack are the names that the
\* pending activations have bound in it, in order, and the outermost context
\* closes over nothing: the pushes and pops of _CompileLetImpl,
\* _CompileLetRecImpl and _CompileLambdaImpl (compiler.c) match.
THEOREM ScopesAlwaysMatch ==
  ASSUME \A p \in Programs : WellScoped(p, {})
  PROVE  CompileSpec => []ScopesMatch
<1>1. Init => CompilerInv /\ ScopesInv
  BY CompilerInit, ScopesFirst
<1>2. CompilerInv /\ ScopesInv /\ [CompileNext]_vars => (CompilerInv /\ ScopesInv)'
  BY CompilerStep, ScopesKept
<1>3. CompilerInv /\ ScopesInv => ScopesMatch
  BY ScopesSuffice
<1> QED
  BY <1>1, <1>2, <1>3, PTL DEF CompileSpec

=============================================================================
