------------------------------- MODULE Runtime ------------------------------
(***************************************************************************)
(* The virtual machine (EvaluateCode in runtime.c).  `frames' is the C     *)
(* stack of EvaluateCode, the running one last; each step executes one     *)
(* instruction of its function.                                            *)
(*                                                                         *)
(* A value is a uint64_t, which the machine does not tag; the tags here    *)
(* record what it was made as.  An instruction that takes a value for what *)
(* it is not is undefined behaviour in C and is not enabled here, so the   *)
(* machine is stuck.                                                       *)
(***************************************************************************)
EXTENDS Bytecode, SequencesExt

VARIABLES
  functions,  \* module->functions, as the compiler leaves them
  frames,     \* the activations of EvaluateCode, the running one last
  heap,       \* the closures and tuples allocated; none is ever freed
  answer      \* what the outermost EvaluateCode returned

-----------------------------------------------------------------------------
\* Values.  A closure without closed variables is the static_closure of its
\* function; other objects are on the heap.  malloc does not clear a slot.
Number(n) == <<"number", n>>
Static(id) == <<"static", id>>
Object(a) == <<"object", a>>
Junk == <<"junk">>

IsNumber(v) == v[1] = "number"
IsObject(v) == v[1] = "object"

\* A word read as a signed number, so that products stay small.
Signed(n) == IF 2 * n < Word THEN n ELSE n - Word

-----------------------------------------------------------------------------
frame == Last(frames)
function == functions[frame.func_id + 1]
opcode == function.code[frame.ip + 1]
nextIp == frame.ip + InstructionLength(opcode)

\* The k-th operand of the instruction, and the register it names.
Operand(k) ==
  LET kind == Operands[opcode + 1][k]
      o == frame.ip + OperandOffset(opcode, k)
  IN CASE kind \in {"U8", "REG", "DREG"} -> ReadU8(function.code, o)
       [] kind = "U16"                   -> ReadU16(function.code, o)
       [] kind = "U32"                   -> ReadU32(function.code, o)
       [] kind = "U64"                   -> ReadU64(function.code, o)
       [] kind \in {"IDX", "OFF"}        -> Int16(ReadU16(function.code, o))

Register(k) == frame.registers[Operand(k)]

Fetch(ops) ==
  /\ frames # <<>>
  /\ frame.ip \in 0 .. Len(function.code) - 1
  /\ opcode \in ops

\* The instruction ends with value v in register r.
Store(r, v) ==
  frames' = Append(Front(frames),
              [frame EXCEPT !.ip = nextIp, !.registers[r] = v])

\* Mutation: the instruction pointer stays behind.
GotoNowhere(ip) == frames' = frames

Goto(ip) == frames' = Append(Front(frames), [frame EXCEPT !.ip = ip])

\* Mutation: the argument is in r0 and the closure in r1.
NewFrameSwapped(func_id, closure, arg0, ret_reg) ==
  LET last == functions[func_id + 1].register_count - 1
  IN [func_id |-> func_id, ip |-> 0, ret_reg |-> ret_reg,
      registers |-> [r \in 0 .. (IF last > 1 THEN last ELSE 1) |->
        IF r = 0 THEN arg0 ELSE IF r = 1 THEN closure ELSE Number(0)]]

\* The frame of EvaluateCode(func_id, closure, arg0): registers[0] and
\* registers[1] are written whatever register_count is.
NewFrame(func_id, closure, arg0, ret_reg) ==
  LET last == functions[func_id + 1].register_count - 1
  IN [func_id |-> func_id, ip |-> 0, ret_reg |-> ret_reg,
      registers |-> [r \in 0 .. (IF last > 1 THEN last ELSE 1) |->
        IF r = 0 THEN closure ELSE IF r = 1 THEN arg0 ELSE Number(0)]]

-----------------------------------------------------------------------------
LoadConstant ==
  /\ Fetch({OP.LOADI_8, OP.LOADI_16, OP.LOADI_32, OP.LOADI_64})
  /\ Store(Operand(2), Number(Operand(1)))
  /\ UNCHANGED <<functions, heap, answer>>

Arithmetic ==
  /\ Fetch({OP.ADD, OP.SUB, OP.MUL})
  /\ IsNumber(Register(1)) /\ IsNumber(Register(2))
  /\ LET a == Signed(Register(1)[2])
         b == Signed(Register(2)[2])
     IN Store(Operand(3), Number((CASE opcode = OP.ADD -> a + b
                                    [] opcode = OP.SUB -> a - b
                                    [] opcode = OP.MUL -> a * b) % Word))
  /\ UNCHANGED <<functions, heap, answer>>

Negate ==
  /\ Fetch({OP.NEG})
  /\ IsNumber(Register(1))
  /\ Store(Operand(2), Number((-Register(1)[2]) % Word))
  /\ UNCHANGED <<functions, heap, answer>>

\* Pointers are compared as pointers; what a junk word equals is open.
Equal ==
  /\ Fetch({OP.EQ})
  /\ \E same \in BOOLEAN :
       /\ Junk \notin {Register(1), Register(2)}
            => same = (Register(1) = Register(2))
       /\ Store(Operand(3), Number(IF same THEN 1 ELSE 0))
  /\ UNCHANGED <<functions, heap, answer>>

Move ==
  /\ Fetch({OP.MOV})
  /\ Store(Operand(2), Register(1))
  /\ UNCHANGED <<functions, heap, answer>>

Jump ==
  /\ Fetch({OP.JMP})
  /\ Goto(nextIp + Operand(1))
  /\ UNCHANGED <<functions, heap, answer>>

\* A pointer is never zero.
JumpIfZero ==
  /\ Fetch({OP.JZ})
  /\ \E zero \in BOOLEAN :
       /\ Register(1) # Junk => zero = (Register(1) = Number(0))
       /\ Goto(IF zero THEN nextIp + Operand(2) ELSE nextIp)
  /\ UNCHANGED <<functions, heap, answer>>

NewClosure ==
  /\ Fetch({OP.NEW_CLOSURE})
  /\ IsNumber(Register(1))
  /\ Register(1)[2] + 1 \in DOMAIN functions
  /\ LET func_id == Register(1)[2]
         length == Len(functions[func_id + 1].closure)
     IN IF length > 0
        THEN /\ heap' = Append(heap, <<Number(func_id)>> \o
                                     [i \in 1 .. length |-> Junk])
             /\ Store(Operand(2), Object(Len(heap) + 1))
        ELSE /\ Store(Operand(2), Static(func_id))
             /\ UNCHANGED heap
  /\ UNCHANGED <<functions, answer>>

NewTuple ==
  /\ Fetch({OP.NEW_TUPLE})
  /\ IsNumber(Register(1))
  /\ heap' = Append(heap, [i \in 1 .. Register(1)[2] |-> Junk])
  /\ Store(Operand(2), Object(Len(heap) + 1))
  /\ UNCHANGED <<functions, answer>>

\* The slot an array instruction addresses.
Slot == <<Register(1)[2], Operand(2) + 1>>
SlotExists ==
  /\ IsObject(Register(1))
  /\ Operand(2) + 1 \in DOMAIN heap[Register(1)[2]]

LoadArray ==
  /\ Fetch({OP.LOADA_64})
  /\ SlotExists
  /\ Store(Operand(3), heap[Slot[1]][Slot[2]])
  /\ UNCHANGED <<functions, heap, answer>>

StoreArray ==
  /\ Fetch({OP.STOREA_64})
  /\ SlotExists
  /\ heap' = [heap EXCEPT ![Slot[1]][Slot[2]] = Register(3)]
  /\ Goto(nextIp)
  /\ UNCHANGED <<functions, answer>>

\* The function id in the first word of a closure.
FunctionId(closure) ==
  IF IsObject(closure) THEN heap[closure[2]][1]
                       ELSE Number(functions[closure[2] + 1].static_closure)

\* The caller waits with its ip behind the CALL.
Call ==
  /\ Fetch({OP.CALL})
  /\ Register(1)[1] \in {"static", "object"}
  /\ IsNumber(FunctionId(Register(1)))
  /\ LET id == FunctionId(Register(1))[2]
     IN /\ id + 1 \in DOMAIN functions
        /\ frames' = Front(frames) \o
             << [frame EXCEPT !.ip = nextIp],
                NewFrame(id, Register(1), Register(2), Operand(3)) >>
  /\ UNCHANGED <<functions, heap, answer>>

\* RET; an unknown instruction halts the frame as well.
Halting == (0 .. Byte - 1) \ { OP[name] : name \in DOMAIN OP \ {"RET"} }

Return ==
  /\ Fetch(Halting)
  /\ LET result == frame.registers[function.result_register]
         caller == frames[Len(frames) - 1]
     IN IF Len(frames) = 1
        THEN /\ frames' = <<>>
             /\ answer' = result
        ELSE /\ frames' = Append(Front(Front(frames)),
                  [caller EXCEPT !.registers[frame.ret_reg] = result])
             /\ UNCHANGED answer
  /\ UNCHANGED <<functions, heap>>

Next ==
  \/ LoadConstant \/ Arithmetic \/ Negate \/ Equal \/ Move
  \/ Jump \/ JumpIfZero \/ NewClosure \/ NewTuple
  \/ LoadArray \/ StoreArray \/ Call \/ Return

=============================================================================
