------------------------------ MODULE Compiler ------------------------------
(***************************************************************************)
(* The bytecode compiler (compiler.c).  CompileExpression walks an         *)
(* expression by recursive descent: `calls' is the C stack of compile      *)
(* functions, the running one last, and a step runs it from one recursive  *)
(* call to the next.  The contexts its activations work on are local       *)
(* variables of CompileExpression and of _CompileLambdaImpl, so they form  *)
(* a stack too.  Contexts write code; finished code goes to the functions  *)
(* array of the module.                                                    *)
(*                                                                         *)
(* Memory is modelled where the code depends on it: the entries of the     *)
(* bindings array that are not live keep what was last written there, and  *)
(* a realloc that moves the functions array leaves the pointers of the     *)
(* pending activations behind.                                             *)
(***************************************************************************)
EXTENDS Bytecode, Ast, FiniteSetsExt, SequencesExt

CONSTANTS
  Expression,        \* the expressions that can be met: Programs and parts
  Programs,          \* the expressions given to CompileExpression
  FunctionCapacity,  \* first capacity of the functions array (10)
  Realloc,           \* what realloc may do: "in place", "moved"
  Recycled           \* whether malloc may return memory that was freed

ASSUME CompilerAssumption ==
  /\ Programs \subseteq Expression
  /\ LET E == Expression IN \A e \in E : WellFormed(e, E)
  /\ FunctionCapacity \in Nat \ {0}
  /\ Realloc \in SUBSET {"in place", "moved"}
  /\ Recycled \in BOOLEAN

VARIABLES
  program,    \* the expression being compiled
  functions,  \* module->functions; functions[id + 1] is the function id
  capacity,   \* module->function_capacity
  array,      \* which block of memory the functions array is in
  contexts,   \* the compile contexts on the C stack, the innermost last
  calls,      \* the activations on the C stack, the running one last
  ret,        \* what the last compile function returned
  errors,     \* number of errors reported
  freed       \* what the bindings arrays held when they were freed

vars == <<program, functions, capacity, array, contexts, calls, ret, errors,
          freed>>

-----------------------------------------------------------------------------
(***************************************************************************)
(* Compile contexts.  A helper maps a context to a context.                *)
(***************************************************************************)
\* malloc leaves in a bindings array what it held before.
InitCompileContext(garbage) ==
  [code |-> <<>>, integer_registers |-> 0, max_registers |-> 0,
   bindings |-> garbage, binding_top |-> 0, closure_symbols |-> <<>>]

\* Mutation: the high-water mark lags one register behind.
GetFreeIntRegisterUncounted(c) ==
  [c EXCEPT !.integer_registers = (@ + 1) % Byte,
            !.max_registers = c.integer_registers]

\* The register is the number of those in use; the counter is a uint8_t.
GetFreeIntRegister(c) ==
  [c EXCEPT !.integer_registers = (@ + 1) % Byte, !.max_registers = @ + 1]

WriteCode(c, bytes) == [c EXCEPT !.code = @ \o bytes]

WriteLoadLiteral(c, value) ==
  WriteCode(GetFreeIntRegister(c), LoadImmediate(value, c.integer_registers))

PushBinding(c, id, r) ==
  LET b == [symbol |-> id, reg |-> r]
  IN [c EXCEPT !.binding_top = @ + 1,
               !.bindings = IF c.binding_top < Len(@)
                            THEN [@ EXCEPT ![c.binding_top + 1] = b]
                            ELSE Append(@, b)]

\* Mutation: the binding is not popped.
PopBindingForgotten(c) == c

PopBinding(c) == [c EXCEPT !.binding_top = @ - 1]

\* Mutation: the distance is counted from the operand, not from behind it.
PatchJumpFromOperand(c, loc) ==
  LET offset == U16(Len(c.code) - loc)
  IN [c EXCEPT !.code = [@ EXCEPT ![loc + 1] = offset[1],
                                  ![loc + 2] = offset[2]]]

\* The two bytes at offset loc become the distance from behind them to the
\* end of the code.
PatchJump(c, loc) ==
  LET offset == U16(Len(c.code) - loc - 2)
  IN [c EXCEPT !.code = [@ EXCEPT ![loc + 1] = offset[1],
                                  ![loc + 2] = offset[2]]]

\* Mutation: the loop starts one below the last live binding.
BoundSkipsLast(c, id) ==
  { k \in DOMAIN c.bindings : k < c.binding_top /\ c.bindings[k].symbol = id }

\* The entries of the bindings array the lookup takes for id.  The loop
\* starts at index binding_top, one past the last live binding.
Bound(c, id) ==
  { k \in DOMAIN c.bindings : k <= c.binding_top + 1
                              /\ c.bindings[k].symbol = id }

\* Mutation: a closed variable is never found again.
ClosureOffsetFresh(c, id) == Len(c.closure_symbols)

\* The slot of id among the closed variables; a new one when it has none.
ClosureOffset(c, id) ==
  LET known == { k \in DOMAIN c.closure_symbols : c.closure_symbols[k] = id }
  IN IF known = {} THEN Len(c.closure_symbols) ELSE Min(known) - 1

\* Mutation: the word for the function id is not skipped.
ClosureSlotUnshifted(i) == i

\* Where the i-th closed variable is in a closure: behind the function id.
ClosureSlot(i) == i + 1

LoadClosed(c, id) ==
  LET offset == ClosureOffset(c, id)
      target == c.integer_registers
      closed == [c EXCEPT !.closure_symbols =
                   IF offset = Len(@) THEN Append(@, id) ELSE @]
  IN WriteCode(GetFreeIntRegister(closed),
               <<OP.LOADA_64, 0>> \o U16(ClosureSlot(offset)) \o <<target>>)

\* _CompileIdentifierImpl: the context it leaves and the register it returns.
IdentifierContext(c, id) == IF Bound(c, id) # {} THEN c ELSE LoadClosed(c, id)

IdentifierRegister(c, id) ==
  IF Bound(c, id) # {} THEN c.bindings[Max(Bound(c, id))].reg
                       ELSE c.integer_registers

\* A new entry of the functions array, before _FinishCompile fills it in.
NoFunction == -1
Blank == [code |-> <<>>, register_count |-> 0, closure |-> <<>>,
          static_closure |-> NoFunction, result_register |-> 0]

\* Mutation: the function has a static closure even if it closes variables.
FinishCompileStatic(c, r, id) ==
  [code |-> Append(c.code, OP.RET), register_count |-> c.max_registers,
   closure |-> c.closure_symbols, static_closure |-> id, result_register |-> r]

FinishCompile(c, r, id) ==
  [code |-> Append(c.code, OP.RET), register_count |-> c.max_registers,
   closure |-> c.closure_symbols,
   static_closure |-> IF c.closure_symbols = <<>> THEN id ELSE NoFunction,
   result_register |-> r]

-----------------------------------------------------------------------------
(***************************************************************************)
(* Activations.  `at' is where the activation stands, `context' the index  *)
(* of its context, `reg' the register it holds, `loc' the offset of the    *)
(* jump it has to patch, `i' its loop counter.  CompileExpression and      *)
(* _CompileLambdaImpl also hold func_id, the block their result pointer    *)
(* points into, and the closure they read through it.                      *)
(***************************************************************************)
Activation(label, e, d) ==
  [at |-> label, expr |-> e, context |-> d, self_id |-> INVALID_SYMBOL,
   reg |-> 0, loc |-> 0, i |-> 0, func_id |-> 0, array |-> 0, closure |-> <<>>]

top == Last(calls)
context == contexts[top.context]

At(label) == calls # <<>> /\ top.at = label
Enter(types) == At("enter") /\ top.expr.type \in types

\* The running activation becomes a; and calls _CompileExpression on e.
Become(a) == [calls EXCEPT ![Len(calls)] = a]
\* Mutation: the callee is handed the outermost context.
CallFromOutermost(a, e) ==
  calls' = Append(Become(a), Activation("enter", e, 1))

CallFrom(a, e) ==
  calls' = Append(Become(a), Activation("enter", e, a.context))

Return(r) == calls' = Front(calls) /\ ret' = r

SetContext(c) == contexts' = [contexts EXCEPT ![top.context] = c]

\* A write through the result pointer: lost once the array has moved away.
WriteResult(f) ==
  functions' = IF top.array = array
               THEN [functions EXCEPT ![top.func_id + 1] = f] ELSE functions

Init ==
  /\ program \in Programs
  /\ functions = <<Blank>>
  /\ capacity = FunctionCapacity
  /\ array = 1
  /\ contexts = <<InitCompileContext(<<>>)>>
  /\ calls = << [Activation("module", program, 1) EXCEPT !.array = 1],
                Activation("enter", program, 1) >>
  /\ ret = 0
  /\ errors = 0
  /\ freed = {}

-----------------------------------------------------------------------------
(***************************************************************************)
(* Constants and identifiers.                                              *)
(***************************************************************************)
LiteralValue(e) == CASE e.type = "TRUE"  -> 1
                     [] e.type = "FALSE" -> 0
                     [] OTHER            -> e.literal_value

CompileLiteral ==
  /\ Enter({"INTEGER_CONSTANT", "TRUE", "FALSE"})
  /\ SetContext(WriteLoadLiteral(context, LiteralValue(top.expr)))
  /\ Return(context.integer_registers)
  /\ UNCHANGED <<program, functions, capacity, array, errors, freed>>

CompileIdentifier ==
  /\ Enter({"IDENTIFIER"})
  /\ SetContext(IdentifierContext(context, top.expr.identifier_id))
  /\ Return(IdentifierRegister(context, top.expr.identifier_id))
  /\ UNCHANGED <<program, functions, capacity, array, errors, freed>>

(***************************************************************************)
(* Lambdas.  _CompileLambdaImpl stands at "lambda" when called, at "body"  *)
(* while the child context compiles the body, and at "closed" while the    *)
(* enclosing context fills in the closure object.                          *)
(***************************************************************************)
CompileLambda ==
  /\ Enter({"LAMBDA"})
  /\ SetContext(GetFreeIntRegister(context))
  /\ calls' = Become([top EXCEPT !.at = "lambda",
                                 !.reg = context.integer_registers])
  /\ UNCHANGED <<program, functions, capacity, array, ret, errors, freed>>

\* Mutation: the functions array is not grown.
AddFunctionUngrown ==
  /\ Len(functions) < capacity
  /\ functions' = Append(functions, Blank)
  /\ UNCHANGED <<capacity, array>>

\* _AddFunction.
AddFunction ==
  /\ functions' = Append(functions, Blank)
  /\ \/ /\ Len(functions) < capacity
        /\ UNCHANGED <<capacity, array>>
     \/ /\ Len(functions) = capacity
        /\ capacity' = 2 * capacity
        /\ \E outcome \in Realloc :
             array' = IF outcome = "moved" THEN array + 1 ELSE array

\* Register 0 is for the closure, register 1 for the argument.
LambdaContext(garbage, self_id, e) ==
  LET c == GetFreeIntRegister(InitCompileContext(garbage))
      s == IF self_id # INVALID_SYMBOL THEN PushBinding(c, self_id, 0) ELSE c
  IN PushBinding(GetFreeIntRegister(s), e.lambda_id, 1)

EnterLambda ==
  /\ At("lambda")
  /\ AddFunction
  /\ \E garbage \in {<<>>} \union (IF Recycled THEN freed ELSE {}) :
       contexts' = Append(contexts,
                          LambdaContext(garbage, top.self_id, top.expr))
  /\ calls' = Append(Become([top EXCEPT !.at = "body", !.array = array',
                                        !.func_id = Len(functions)]),
               Activation("enter", top.expr.lambda_body, Len(contexts) + 1))
  /\ UNCHANGED <<program, ret, errors, freed>>

FinishLambda ==
  /\ At("body")
  /\ LET child == Last(contexts)
         result == FinishCompile(child, ret, top.func_id)
         loaded == WriteLoadLiteral(context, top.func_id)
     IN /\ WriteResult(result)
        /\ contexts' = [Front(contexts) EXCEPT ![top.context] =
             WriteCode(loaded, <<OP.NEW_CLOSURE, context.integer_registers,
                                 top.reg>>)]
        /\ freed' = freed \union {child.bindings}
        /\ calls' = Become([top EXCEPT !.at = "closed",
                                       !.closure = result.closure])
  /\ UNCHANGED <<program, capacity, array, ret, errors>>

CloseVariable ==
  /\ At("closed")
  /\ top.i < Len(top.closure)
  /\ LET id == top.closure[top.i + 1]
     IN SetContext(WriteCode(IdentifierContext(context, id),
          <<OP.STOREA_64, top.reg>> \o U16(ClosureSlot(top.i))
                              \o <<IdentifierRegister(context, id)>>))
  /\ calls' = Become([top EXCEPT !.i = @ + 1])
  /\ UNCHANGED <<program, functions, capacity, array, ret, errors, freed>>

\* Mutation: the loop ends before the last closed variable.
ReturnClosureEarly ==
  /\ At("closed")
  /\ top.i + 1 >= Len(top.closure)
  /\ Return(top.reg)
  /\ UNCHANGED <<program, functions, capacity, array, contexts, errors, freed>>

ReturnClosure ==
  /\ At("closed")
  /\ top.i = Len(top.closure)
  /\ Return(top.reg)
  /\ UNCHANGED <<program, functions, capacity, array, contexts, errors, freed>>

(***************************************************************************)
(* let and let rec.                                                        *)
(***************************************************************************)
CompileLet ==
  /\ Enter({"LET"})
  /\ CallFrom([top EXCEPT !.at = "let_value"], top.expr.let_value)
  /\ UNCHANGED <<program, functions, capacity, array, contexts, ret, errors,
                 freed>>

BindLet ==
  /\ At("let_value")
  /\ SetContext(PushBinding(context, top.expr.let_id, ret))
  /\ CallFrom([top EXCEPT !.at = "let_body"], top.expr.let_body)
  /\ UNCHANGED <<program, functions, capacity, array, ret, errors, freed>>

\* The end of both.
EndLet ==
  /\ At("let_body")
  /\ SetContext(PopBinding(context))
  /\ Return(ret)
  /\ UNCHANGED <<program, functions, capacity, array, errors, freed>>

RejectLetRec ==
  /\ Enter({"LETREC"})
  /\ top.expr.let_value.type # "LAMBDA"
  /\ errors' = errors + 1
  /\ SetContext(GetFreeIntRegister(context))
  /\ Return(context.integer_registers)
  /\ UNCHANGED <<program, functions, capacity, array, freed>>

CompileLetRec ==
  /\ Enter({"LETREC"})
  /\ top.expr.let_value.type = "LAMBDA"
  /\ LET dest == context.integer_registers
         impl == [Activation("lambda", top.expr.let_value, top.context) EXCEPT
                    !.self_id = top.expr.let_id, !.reg = dest]
     IN /\ SetContext(PushBinding(GetFreeIntRegister(context),
                                  top.expr.let_id, dest))
        /\ calls' = Append(Become([top EXCEPT !.at = "rec_value"]), impl)
  /\ UNCHANGED <<program, functions, capacity, array, ret, errors, freed>>

LetRecBody ==
  /\ At("rec_value")
  /\ CallFrom([top EXCEPT !.at = "let_body"], top.expr.let_body)
  /\ UNCHANGED <<program, functions, capacity, array, contexts, ret, errors,
                 freed>>

(***************************************************************************)
(* Application and operators.  The register of the first operand is kept   *)
(* in the activation while the second is compiled.                         *)
(***************************************************************************)
FirstOperand(e) ==
  IF e.type = "APPLY" THEN e.apply_function ELSE e.binary_left
\* Mutation: the left operand is compiled twice.
SecondOperandLeft(e) ==
  IF e.type = "APPLY" THEN e.apply_argument ELSE e.binary_left

SecondOperand(e) ==
  IF e.type = "APPLY" THEN e.apply_argument ELSE e.binary_right

CompileFirst ==
  /\ Enter({"APPLY", "BINARY"})
  /\ CallFrom([top EXCEPT !.at = "first"], FirstOperand(top.expr))
  /\ UNCHANGED <<program, functions, capacity, array, contexts, ret, errors,
                 freed>>

CompileSecond ==
  /\ At("first")
  /\ CallFrom([top EXCEPT !.at = "second", !.reg = ret],
              SecondOperand(top.expr))
  /\ UNCHANGED <<program, functions, capacity, array, contexts, ret, errors,
                 freed>>

\* Mutation: a division is not rejected; it falls through to the product.
OperatorCodeFallsThrough(e) ==
  CASE e.type = "APPLY"                                  -> <<OP.CALL>>
    [] e.type = "BINARY" /\ e.binary_operator = "PLUS"   -> <<OP.ADD>>
    [] e.type = "BINARY" /\ e.binary_operator = "MINUS"  -> <<OP.SUB>>
    [] e.type = "BINARY" /\ e.binary_operator = "EQUALS" -> <<OP.EQ>>
    [] OTHER                                             -> <<OP.MUL>>

\* The opcode of an application or binary operator: none for a division.
OperatorCode(e) ==
  CASE e.type = "APPLY"                                  -> <<OP.CALL>>
    [] e.type = "BINARY" /\ e.binary_operator = "PLUS"   -> <<OP.ADD>>
    [] e.type = "BINARY" /\ e.binary_operator = "MINUS"  -> <<OP.SUB>>
    [] e.type = "BINARY" /\ e.binary_operator = "EQUALS" -> <<OP.EQ>>
    [] e.type = "BINARY" /\ e.binary_operator = "STAR"   -> <<OP.MUL>>
    [] OTHER                                             -> <<>>

CompileOperator ==
  /\ At("second")
  /\ LET out == context.integer_registers
         code == OperatorCode(top.expr)
     IN /\ SetContext(WriteCode(GetFreeIntRegister(context),
                                code \o <<top.reg, ret, out>>))
        /\ errors' = IF code = <<>> THEN errors + 1 ELSE errors
        /\ Return(out)
  /\ UNCHANGED <<program, functions, capacity, array, freed>>

CompileUnary ==
  /\ Enter({"UNARY"})
  /\ CallFrom([top EXCEPT !.at = "operand"], top.expr.unary_arg)
  /\ UNCHANGED <<program, functions, capacity, array, contexts, ret, errors,
                 freed>>

UnaryCode(e) == IF e.unary_operator = "MINUS" THEN <<OP.NEG>> ELSE <<>>

CompileUnaryOperator ==
  /\ At("operand")
  /\ LET out == context.integer_registers
         code == UnaryCode(top.expr)
     IN /\ SetContext(WriteCode(GetFreeIntRegister(context),
                                code \o <<ret, out>>))
        /\ errors' = IF code = <<>> THEN errors + 1 ELSE errors
        /\ Return(out)
  /\ UNCHANGED <<program, functions, capacity, array, freed>>

(***************************************************************************)
(* Conditionals.  Room is left for the two jump offsets, which are written *)
(* when their targets are known.                                           *)
(***************************************************************************)
Hole == <<0, 0>>

CompileIf ==
  /\ Enter({"IF"})
  /\ CallFrom([top EXCEPT !.at = "if_test"], top.expr.if_test)
  /\ UNCHANGED <<program, functions, capacity, array, contexts, ret, errors,
                 freed>>

CompileThen ==
  /\ At("if_test")
  /\ SetContext(WriteCode(context, <<OP.JZ, ret>> \o Hole))
  /\ CallFrom([top EXCEPT !.at = "if_then", !.loc = Len(context.code) + 2],
              top.expr.if_then)
  /\ UNCHANGED <<program, functions, capacity, array, ret, errors, freed>>

CompileElse ==
  /\ At("if_then")
  /\ SetContext(PatchJump(WriteCode(context, <<OP.JMP>> \o Hole), top.loc))
  /\ CallFrom([top EXCEPT !.at = "if_else", !.reg = ret,
                          !.loc = Len(context.code) + 1], top.expr.if_else)
  /\ UNCHANGED <<program, functions, capacity, array, ret, errors, freed>>

EndIf ==
  /\ At("if_else")
  /\ LET move == IF ret # top.reg THEN <<OP.MOV, ret, top.reg>> ELSE <<>>
     IN SetContext(PatchJump(WriteCode(context, move), top.loc))
  /\ Return(top.reg)
  /\ UNCHANGED <<program, functions, capacity, array, errors, freed>>

(***************************************************************************)
(* Tuples.  Every round of the loop compiles tuple_first of the same node. *)
(***************************************************************************)
CompileTuple ==
  /\ Enter({"TUPLE"})
  /\ LET len == context.integer_registers
         loaded == WriteLoadLiteral(context, top.expr.tuple_length)
         out == loaded.integer_registers
     IN /\ SetContext(WriteCode(GetFreeIntRegister(loaded),
                                <<OP.NEW_TUPLE, len, out>>))
        /\ CallFrom([top EXCEPT !.at = "member", !.reg = out],
                    top.expr.tuple_first)
  /\ UNCHANGED <<program, functions, capacity, array, ret, errors, freed>>

StoreMember ==
  WriteCode(context, <<OP.STOREA_64, top.reg>> \o U16(top.i) \o <<ret>>)

NextMember ==
  /\ At("member")
  /\ top.i + 1 < top.expr.tuple_length
  /\ SetContext(StoreMember)
  /\ CallFrom([top EXCEPT !.i = @ + 1], top.expr.tuple_first)
  /\ UNCHANGED <<program, functions, capacity, array, ret, errors, freed>>

EndTuple ==
  /\ At("member")
  /\ top.i + 1 = top.expr.tuple_length
  /\ SetContext(StoreMember)
  /\ Return(top.reg)
  /\ UNCHANGED <<program, functions, capacity, array, errors, freed>>

(***************************************************************************)
(* The end of CompileExpression: it returns the id of the main function.   *)
(***************************************************************************)
FinishModule ==
  /\ At("module")
  /\ WriteResult(FinishCompile(context, ret, top.func_id))
  /\ contexts' = <<>>
  /\ freed' = freed \union {context.bindings}
  /\ Return(top.func_id)
  /\ UNCHANGED <<program, capacity, array, errors>>

CompileNext ==
  \/ CompileLiteral \/ CompileIdentifier
  \/ CompileLambda \/ EnterLambda \/ FinishLambda
  \/ CloseVariable \/ ReturnClosure
  \/ CompileLet \/ BindLet \/ EndLet
  \/ RejectLetRec \/ CompileLetRec \/ LetRecBody
  \/ CompileFirst \/ CompileSecond \/ CompileOperator
  \/ CompileUnary \/ CompileUnaryOperator
  \/ CompileIf \/ CompileThen \/ CompileElse \/ EndIf
  \/ CompileTuple \/ NextMember \/ EndTuple
  \/ FinishModule

\* One thread that nothing blocks.
CompileSpec == Init /\ [][CompileNext]_vars /\ WF_vars(CompileNext)

Compiled == calls = <<>>

\* Every expression is compiled, however it nests.
CompilationEnds == <>Compiled

-----------------------------------------------------------------------------
Binding == [symbol : Symbol, reg : Bytes]

\* What an activation is doing, by where it stands.
ExpressionType ==
  [lambda |-> {"LAMBDA"}, body |-> {"LAMBDA"}, closed |-> {"LAMBDA"},
   let_value |-> {"LET"}, rec_value |-> {"LETREC"},
   let_body |-> {"LET", "LETREC"}, first |-> {"APPLY", "BINARY"},
   second |-> {"APPLY", "BINARY"}, operand |-> {"UNARY"},
   if_test |-> {"IF"}, if_then |-> {"IF"}, if_else |-> {"IF"},
   member |-> {"TUPLE"}]

ContextType ==
  [code : Seq(Bytes), integer_registers : Bytes, max_registers : Nat,
   bindings : Seq(Binding), binding_top : Int, closure_symbols : Seq(Symbol)]

FunctionType ==
  [code : Seq(Bytes), register_count : Nat, closure : Seq(Symbol),
   static_closure : Nat \union {NoFunction}, result_register : Bytes]

ActivationType ==
  [at : {"module", "enter"} \union DOMAIN ExpressionType,
   expr : Expression, context : Nat, self_id : Symbol \union {INVALID_SYMBOL},
   reg : Bytes, loc : Nat, i : Nat, func_id : Nat, array : Nat,
   closure : Seq(Symbol)]

\* The types of the variables: in particular every register and every byte of
\* code fits a uint8_t, and an activation stands where its expression allows.
TypeOK ==
  /\ program \in Programs
  /\ functions \in Seq(FunctionType)
  /\ capacity \in Nat /\ array \in Nat
  /\ contexts \in Seq(ContextType)
  /\ calls \in Seq(ActivationType)
  /\ \A j \in DOMAIN calls :
       calls[j].at \in DOMAIN ExpressionType =>
         calls[j].expr.type \in ExpressionType[calls[j].at]
  /\ ret \in Nat /\ (calls # <<>> => ret \in Bytes)
  /\ errors \in Nat
  /\ freed \in SUBSET Seq(Binding)

\* The contexts are those of the activations on the stack: an activation
\* works on the context of its caller, but for the body of a lambda, which
\* has the next.  CompileExpression itself is at the bottom.
InnerContext(a) == IF a.at = "body" THEN a.context + 1 ELSE a.context

ContextsNest ==
  /\ Len(contexts) = IF calls = <<>> THEN 0 ELSE InnerContext(top)
  /\ \A j \in DOMAIN calls :
       /\ calls[j].at = "module" <=> j = 1
       /\ calls[j].context = IF j = 1 THEN 1 ELSE InnerContext(calls[j - 1])
  /\ \A i, j \in DOMAIN calls :
       i < j => InnerContext(calls[i]) <= calls[j].context

\* Every register number in use is one of the registers counted for its
\* context, and so one the machine allocates: that of a live binding, that
\* an activation holds or has just been returned, and a function's result.
HoldsRegister == {"lambda", "body", "closed", "second", "if_else", "member"}
AwaitsResult == {"module"} \union
  (DOMAIN ExpressionType \ {"lambda", "closed", "rec_value"})

RegistersReserved ==
  /\ \A d \in DOMAIN contexts : \A j \in DOMAIN contexts[d].bindings :
       j <= contexts[d].binding_top =>
         contexts[d].bindings[j].reg < contexts[d].max_registers
  /\ \A j \in DOMAIN calls :
       calls[j].at \in HoldsRegister =>
         calls[j].reg < contexts[calls[j].context].max_registers
  /\ calls # <<>> /\ top.at \in AwaitsResult =>
       ret < contexts[InnerContext(top)].max_registers
  /\ \A id \in DOMAIN functions :
       functions[id] # Blank =>
         functions[id].result_register < functions[id].register_count

\* Every lambda of the program is compiled, and each function is written:
\* it knows its id, or the symbols in its closure, as platform.h has it.
FunctionWritten(id) ==
  /\ functions[id].code # <<>>
  /\ functions[id].static_closure =
       IF functions[id].closure = <<>> THEN id - 1 ELSE NoFunction

ModuleComplete == Compiled => \A id \in DOMAIN functions : FunctionWritten(id)

-----------------------------------------------------------------------------
\* What an activation in context d has bound: the names of the let bodies it
\* is in, and for the lambda the context is for, its own name and argument.
Binders(a, d) ==
  CASE a.context = d /\ a.at = "let_body"  -> <<a.expr.let_id>>
    [] a.context = d /\ a.at = "rec_value" -> <<a.expr.let_id>>
    [] a.context = d - 1 /\ a.at = "body"  ->
         (IF a.self_id = INVALID_SYMBOL THEN <<>> ELSE <<a.self_id>>)
           \o <<a.expr.lambda_id>>
    [] OTHER -> <<>>

NamesInScope(s, d) == FlattenSeq([k \in DOMAIN s |-> Binders(s[k], d)])

LiveNames(c) ==
  LET live == SubSeq(c.bindings, 1, c.binding_top)
  IN [k \in DOMAIN live |-> live[k].symbol]

\* The live bindings of every context are the names in scope, in the order
\* they were bound: the pushes and pops of all the compile functions match.
\* A name that is not among them is a variable of a closure, so that the
\* outermost context, which has none, closes over nothing.  ("the type
\* checker said it was", l. 276.)
ScopesMatch ==
  /\ \A d \in DOMAIN contexts : LiveNames(contexts[d]) = NamesInScope(calls, d)
  /\ contexts # <<>> => contexts[1].closure_symbols = <<>>

\* What the type checker said: in e every name is bound, by a binder in e or
\* by the context, which binds the names in N.  (Which pairs of e and N are
\* so is settled by their parts.)
IsScoping(R) ==
  \A pair \in R :
    LET e == pair[1]
        N == pair[2]
        In(part, names) == <<part, names>> \in R
    IN /\ e.type = "IDENTIFIER" => e.identifier_id \in N
       /\ e.type = "LAMBDA" => In(e.lambda_body, N \union {e.lambda_id})
       /\ e.type = "LET" => /\ In(e.let_value, N)
                            /\ In(e.let_body, N \union {e.let_id})
       /\ e.type = "LETREC" => /\ In(e.let_value, N \union {e.let_id})
                               /\ In(e.let_body, N \union {e.let_id})
       /\ e.type \notin {"LAMBDA", "LET", "LETREC"} =>
            \A child \in Children(e) : In(child, N)

WellScoped(e, N) ==
  \E R \in SUBSET (Expression \X SUBSET Symbol) :
    IsScoping(R) /\ <<e, N>> \in R

-----------------------------------------------------------------------------
(***************************************************************************)
(* Properties of whole expressions, as functions on the expressions there  *)
(* are: the parts of an expression, the names free in it and those it      *)
(* binds.                                                                  *)
(***************************************************************************)
parts[e \in Expression] == {e} \union UNION { parts[c] : c \in Children(e) }

freeVariables[e \in Expression] ==
  CASE e.type = "IDENTIFIER" -> {e.identifier_id}
    [] e.type = "LAMBDA"     -> freeVariables[e.lambda_body] \ {e.lambda_id}
    [] e.type = "LET"        -> freeVariables[e.let_value] \union
                                (freeVariables[e.let_body] \ {e.let_id})
    [] e.type = "LETREC"     -> (freeVariables[e.let_value] \union
                                 freeVariables[e.let_body]) \ {e.let_id}
    [] OTHER -> UNION { freeVariables[c] : c \in Children(e) }

boundNames[e \in Expression] ==
  (IF IsBinder(e) THEN {BoundName(e)} ELSE {}) \union
    UNION { boundNames[c] : c \in Children(e) }

\* An expression is a finite tree.
TreesFinite ==
  \E size \in [Expression -> Nat] :
    \A e \in Expression : \A c \in Children(e) : size[c] < size[e]

\* The elements of a tuple are all the same.
TuplesUniform ==
  \A e \in Expression :
    e.type = "TUPLE" => e.tuple_rest.tuple_first = e.tuple_first

\* No two binders of e bind the same name.  (The elements of a tuple, which
\* are compiled as often as there are elements, have none.)
BindsOnce(e) ==
  /\ e.type = "LAMBDA" => e.lambda_id \notin boundNames[e.lambda_body]
  /\ e.type \in {"LET", "LETREC"} =>
       /\ boundNames[e.let_value] \intersect boundNames[e.let_body] = {}
       /\ e.let_id \notin boundNames[e.let_value] \union boundNames[e.let_body]
  /\ e.type = "APPLY" =>
       boundNames[e.apply_function] \intersect boundNames[e.apply_argument] = {}
  /\ e.type = "BINARY" =>
       boundNames[e.binary_left] \intersect boundNames[e.binary_right] = {}
  /\ e.type = "IF" =>
       /\ boundNames[e.if_test] \intersect boundNames[e.if_then] = {}
       /\ (boundNames[e.if_test] \union boundNames[e.if_then])
            \intersect boundNames[e.if_else] = {}
  /\ e.type = "TUPLE" => boundNames[e.tuple_first] = {}

\* What the compiler rejects: a division, a unary plus and a let rec that
\* does not bind a function.
Unsupported(e) ==
  \/ e.type = "BINARY" /\ e.binary_operator = "SLASH"
  \/ e.type = "UNARY" /\ e.unary_operator = "PLUS"
  \/ e.type = "LETREC" /\ e.let_value.type # "LAMBDA"

\* Compilation reports an error exactly when the program has an expression
\* the compiler does not support.
ErrorsAreExact ==
  Compiled => (errors > 0 <=> \E e \in parts[program] : Unsupported(e))

\* A closure that is filled in holds free variables of its lambda, each once,
\* and not the function itself in a let rec; it holds all of them, unless an
\* expression was rejected and not compiled.  ("closure_symbols is effectively
\* the list of free variables", l. 291.)
ClosuresAreFreeVariables ==
  At("closed") =>
    LET free == freeVariables[top.expr] \ {top.self_id}
    IN /\ IsInjective(top.closure) /\ ToSet(top.closure) \subseteq free
       /\ errors = 0 => free \subseteq ToSet(top.closure)

-----------------------------------------------------------------------------
(***************************************************************************)
(* What the machine relies on in a function it is given.                   *)
(***************************************************************************)
\* The offset behind the instruction at offset o.
Behind(code, o) == o + InstructionLength(code[o + 1])

\* The offsets of the instructions of a piece of code, and behind the last.
Boundaries(code) ==
  LET from[o \in 0 .. Len(code)] ==
        IF o = Len(code) \/ code[o + 1] > OP.MOV \/ Behind(code, o) > Len(code)
        THEN {o} ELSE {o} \union from[Behind(code, o)]
  IN from[0]

\* Where the registers among the operands of op are, behind its opcode.
RegisterOffsets(op) ==
  { OperandOffset(op, k) :
      k \in { j \in DOMAIN Operands[op + 1] :
                Operands[op + 1][j] \in {"REG", "DREG"} } }

RegistersOf(code, o) ==
  { code[o + 1 + offset] : offset \in RegisterOffsets(code[o + 1]) }

\* The offset of a jump is its last operand.
JumpTarget(code, o) ==
  Behind(code, o) + Int16(ReadU16(code, Behind(code, o) - Width.OFF))

WellFormedFunction(f) ==
  LET starts == Boundaries(f.code)
      last == Len(f.code) - 1
  IN /\ last \in starts /\ f.code[last + 1] = OP.RET
     /\ f.result_register < f.register_count
     /\ \A o \in starts \ {last + 1} :
          /\ f.code[o + 1] \in 0 .. OP.MOV
          /\ f.code[o + 1] = OP.RET => o = last
          /\ \A r \in RegistersOf(f.code, o) : r < f.register_count
          /\ f.code[o + 1] \in {OP.JMP, OP.JZ} =>
               JumpTarget(f.code, o) \in starts \cap (o + 1 .. last)

\* Once compilation ends without an error, every function decodes from its
\* first byte to one RET at its end, names only registers it has, and jumps
\* only forwards and to the start of an instruction.
CodeWellFormed ==
  Compiled /\ errors = 0 =>
    \A id \in DOMAIN functions : WellFormedFunction(functions[id])

=============================================================================
