------------------------------- MODULE Millie -------------------------------
(***************************************************************************)
(* The back end of the program: main in millie.c compiles the expression   *)
(* and, if that reports no error, evaluates function func_id of the module.*)
(***************************************************************************)
EXTENDS Compiler, Semantics

VARIABLES frames, heap, answer

VM == INSTANCE Runtime

allvars == <<vars, frames, heap, answer>>

None == <<"none">>

MillieInit ==
  /\ Init
  /\ frames = <<>>
  /\ heap = <<>>
  /\ answer = None

Compile == CompileNext /\ UNCHANGED <<frames, heap, answer>>

\* EvaluateCode(&module, func_id, 0, 0), with the id the compiler returned.
StartEvaluation ==
  /\ Compiled /\ errors = 0
  /\ frames = <<>> /\ answer = None
  /\ frames' = <<VM!NewFrame(ret, VM!Number(0), VM!Number(0), 0)>>
  /\ UNCHANGED <<vars, heap, answer>>

Evaluate ==
  /\ VM!Next
  /\ UNCHANGED <<program, capacity, array, contexts, calls, ret, errors, freed>>

\* The process has printed the value, or the errors.
Exited == Compiled /\ (answer # None \/ errors > 0)
Exit == Exited /\ UNCHANGED allvars

MillieNext == Compile \/ StartEvaluation \/ Evaluate \/ Exit

\* One thread that nothing blocks: it takes a step whenever it can.
Spec == MillieInit /\ [][MillieNext]_allvars /\ WF_allvars(MillieNext)

-----------------------------------------------------------------------------
\* A machine value stands for a value of the language: a word for itself, a
\* pointer to slots for a tuple, a pointer to a closure for a function.
RECURSIVE Represents(_, _)
Represents(v, value) ==
  CASE value.kind = "word"  -> v = VM!Number(value.word)
    [] value.kind = "tuple" ->
         /\ VM!IsObject(v)
         /\ DOMAIN heap[v[2]] = DOMAIN value.elements
         /\ \A i \in DOMAIN value.elements :
              Represents(heap[v[2]][i], value.elements[i])
    [] value.kind = "function" -> v[1] \in {"static", "object"}

\* The value the machine ends with is the meaning of the program.
ResultCorrect == answer # None => Represents(answer, Meaning(program))

\* A program that compiles is evaluated to the end: the machine neither runs
\* away nor gets stuck.
Finishes == <>Exited

\* A function runs with its own closure in r0 from its first instruction to
\* its last, every slot of the closure has been filled in, and it has the
\* two registers the closure and the argument are written to.  ("our
\* closure, which is always in r0", compiler.c l. 309.)
ClosureInR0 ==
  \A k \in 2 .. Len(frames) :
    LET closure == frames[k].registers[0]
    IN /\ functions[frames[k].func_id + 1].register_count >= 2
       /\ closure[1] \in {"static", "object"}
       /\ VM!FunctionId(closure) = VM!Number(frames[k].func_id)
       /\ VM!IsObject(closure) => VM!Junk \notin Range(heap[closure[2]])

\* Objects are immutable: an instruction that is about to store into a slot
\* finds it uninitialized, one that is about to load from a slot finds it
\* filled in, and so an uninitialized word never reaches a register.  (The
\* stores that fill a closure and the loads from it are written by different
\* activations of the compiler, which number the slots each for itself.)
SlotsWrittenOnce ==
  /\ VM!Fetch({OP.STOREA_64, OP.LOADA_64}) /\ VM!SlotExists =>
       LET word == heap[VM!Slot[1]][VM!Slot[2]]
       IN VM!opcode = OP.STOREA_64 <=> word = VM!Junk
  /\ \A k \in DOMAIN frames : VM!Junk \notin Range(frames[k].registers)

=============================================================================
