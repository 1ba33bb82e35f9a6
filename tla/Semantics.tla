----------------------------- MODULE Semantics ------------------------------
(***************************************************************************)
(* What a Millie expression means: the reference that compiled code is     *)
(* compared with.  Millie is "a small, strict functional language"         *)
(* (readme.md): a function's argument is evaluated before its body, and a  *)
(* name means the value its innermost binder gave it.                      *)
(***************************************************************************)
EXTENDS Ast, Bytecode, FiniteSets, TLC

\* The elements of a tuple, in order.
RECURSIVE TupleElements(_)
TupleElements(e) ==
  IF e.type = "TUPLE" THEN <<e.tuple_first>> \o TupleElements(e.tuple_rest)
                      ELSE <<e.tuple_first>>

RECURSIVE FreeVariables(_)
FreeVariables(e) ==
  CASE e.type = "IDENTIFIER" -> {e.identifier_id}
    [] e.type = "LAMBDA"     -> FreeVariables(e.lambda_body) \ {e.lambda_id}
    [] e.type = "LET"        -> FreeVariables(e.let_value) \union
                                (FreeVariables(e.let_body) \ {e.let_id})
    [] e.type = "LETREC"     -> (FreeVariables(e.let_value) \union
                                 FreeVariables(e.let_body)) \ {e.let_id}
    [] OTHER -> UNION { FreeVariables(child) : child \in Children(e) }

RECURSIVE Parts(_)
Parts(e) == {e} \union UNION { Parts(child) : child \in Children(e) }

-----------------------------------------------------------------------------
\* Values: words (true is 1, false 0), tuples, and functions with the
\* environment they were made in and their own name, if they have one.
WordValue(n) == [kind |-> "word", word |-> n]
FunctionValue(e, env, self) ==
  [kind |-> "function", fn |-> e, env |-> env, self |-> self]
TupleValue(elements) == [kind |-> "tuple", elements |-> elements]

Arithmetic(op, a, b) ==
  CASE op = "PLUS"   -> (a + b) % Word
    [] op = "MINUS"  -> (a - b) % Word
    [] op = "STAR"   -> (a * b) % Word
    [] op = "EQUALS" -> IF a = b THEN 1 ELSE 0

RECURSIVE Eval(_, _)
Eval(e, env) ==
  CASE e.type = "INTEGER_CONSTANT" -> WordValue(e.literal_value)
    [] e.type = "TRUE"       -> WordValue(1)
    [] e.type = "FALSE"      -> WordValue(0)
    [] e.type = "IDENTIFIER" -> env[e.identifier_id]
    [] e.type = "LAMBDA"     -> FunctionValue(e, env, INVALID_SYMBOL)
    [] e.type = "LET" ->
         Eval(e.let_body, (e.let_id :> Eval(e.let_value, env)) @@ env)
    [] e.type = "LETREC" ->
         Eval(e.let_body,
              (e.let_id :> FunctionValue(e.let_value, env, e.let_id)) @@ env)
    [] e.type = "APPLY" ->
         LET f == Eval(e.apply_function, env)
             arg == f.fn.lambda_id :> Eval(e.apply_argument, env)
         IN Eval(f.fn.lambda_body, arg @@ (f.self :> f) @@ f.env)
    [] e.type = "IF" ->
         IF Eval(e.if_test, env).word # 0 THEN Eval(e.if_then, env)
                                          ELSE Eval(e.if_else, env)
    [] e.type = "BINARY" ->
         WordValue(Arithmetic(e.binary_operator,
                              Eval(e.binary_left, env).word,
                              Eval(e.binary_right, env).word))
    [] e.type = "UNARY" -> WordValue((-Eval(e.unary_arg, env).word) % Word)
    [] e.type = "TUPLE" ->
         LET elements == TupleElements(e)
         IN TupleValue([i \in DOMAIN elements |-> Eval(elements[i], env)])

Meaning(e) == Eval(e, <<>>)

-----------------------------------------------------------------------------
(***************************************************************************)
(* The programs the compiler is right about.  It goes wrong when a name is *)
(* bound twice, when a tuple's elements differ, and when the result of a   *)
(* then branch may be the register of a variable.                          *)
(***************************************************************************)
RECURSIVE ReturnsVariable(_)
ReturnsVariable(e) ==
  CASE e.type = "IDENTIFIER"        -> TRUE
    [] e.type \in {"LET", "LETREC"} -> ReturnsVariable(e.let_body)
    [] e.type = "IF"                -> ReturnsVariable(e.if_then)
    [] OTHER                        -> FALSE

Regular(e) ==
  LET binders == { b \in Parts(e) : IsBinder(b) }
  IN /\ Cardinality({ BoundName(b) : b \in binders }) = Cardinality(binders)
     /\ \A t \in Parts(e) :
          /\ t.type = "IF" => ~ReturnsVariable(t.if_then)
          /\ t.type = "TUPLE" =>
               \A element \in {TupleElements(t)[i] :
                               i \in DOMAIN TupleElements(t)} :
                 element = t.tuple_first

=============================================================================
