--------------------------- MODULE CompilerChecks ---------------------------
(***************************************************************************)
(* What TLC checks of the compiler beside the properties of Compiler: the  *)
(* sizes of the arrays of its contexts.  They are allocated 64 bytes each, *)
(* while the code counts 64 entries.  The arrays of the model have no end, *)
(* so that what is behind them in memory stays as it is.                   *)
(***************************************************************************)
EXTENDS Compiler

CONSTANTS
  BindingSlots,  \* entries that fit in a bindings array (malloc(64): 8)
  ClosureSlots   \* symbols that fit in a closure_symbols array (16)

-----------------------------------------------------------------------------
\* The most names bound at once while the code of one function is written
\* for e, its own name and argument aside.
nesting[e \in Expression] ==
  CASE IsBinder(e) /\ e.type # "LAMBDA" ->
         Max({nesting[e.let_value], 1 + nesting[e.let_body]})
    [] e.type = "LAMBDA" -> 0
    [] e.type = "TUPLE"  -> nesting[e.tuple_first]
    [] OTHER -> Max({0} \union { nesting[c] : c \in Children(e) })

\* In a function that calls itself or not, or at top level, where self is the
\* number of its own names: c has written past the end of one of its arrays.
WritesPast(c, self, body, closed) ==
  /\ Len(c.bindings) > BindingSlots <=> self + nesting[body] > BindingSlots
  /\ Len(c.closure_symbols) > ClosureSlots <=> closed > ClosureSlots

\* An array of a context is written past its end exactly where the program
\* asks for it: by a function that has more than eight names bound at once,
\* itself and its argument included, or that closes over more than sixteen
\* variables, however often it mentions them and however many bindings it has
\* one after the other.  No other code overruns an array (compiler.c l. 79,
\* 83), and such code always does.  (An entry of bindings is written when it
\* is live for the first time, and stays.)
OverrunsExact ==
  errors = 0 =>
    /\ At("body") =>
         WritesPast(Last(contexts), IF top.self_id = INVALID_SYMBOL THEN 1 ELSE 2,
                    top.expr.lambda_body,
                    Cardinality(freeVariables[top.expr] \ {top.self_id}))
    /\ At("module") => WritesPast(context, 0, program, 0)

=============================================================================
