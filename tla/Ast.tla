-------------------------------- MODULE Ast ---------------------------------
(***************************************************************************)
(* Abstract syntax (struct Expression in platform.h, constructors in       *)
(* ast.c).  Fields keep their C names; token positions are left out.       *)
(* Symbols are positive numbers, as the symbol table deals them out.       *)
(***************************************************************************)
EXTENDS Naturals, Sequences

INVALID_SYMBOL == 0
Symbol == Nat \ {INVALID_SYMBOL}

MakeLambda(variable, body) ==
  [type |-> "LAMBDA", lambda_id |-> variable, lambda_body |-> body]

MakeIdentifier(id) == [type |-> "IDENTIFIER", identifier_id |-> id]

MakeApply(func_expr, arg_expr) ==
  [type |-> "APPLY", apply_function |-> func_expr, apply_argument |-> arg_expr]

MakeLet(variable, value, body) ==
  [type |-> "LET", let_id |-> variable, let_value |-> value, let_body |-> body]

MakeLetRec(variable, value, body) ==
  [MakeLet(variable, value, body) EXCEPT !.type = "LETREC"]

MakeIf(test, then_branch, else_branch) ==
  [type |-> "IF", if_test |-> test, if_then |-> then_branch,
   if_else |-> else_branch]

MakeBinary(op, left, right) ==
  [type |-> "BINARY", binary_operator |-> op, binary_left |-> left,
   binary_right |-> right]

MakeUnary(op, arg) ==
  [type |-> "UNARY", unary_operator |-> op, unary_arg |-> arg]

MakeBooleanLiteral(value) == [type |-> IF value THEN "TRUE" ELSE "FALSE"]

MakeIntegerLiteral(value) ==
  [type |-> "INTEGER_CONSTANT", literal_value |-> value]

MakeTuple(first, rest, length) ==
  [type |-> "TUPLE", tuple_first |-> first, tuple_rest |-> rest,
   tuple_length |-> length]

MakeTupleFinal(expr) == [type |-> "TUPLE_FINAL", tuple_first |-> expr]

-----------------------------------------------------------------------------
\* The subexpressions a node points to.
Children(e) ==
  CASE e.type = "LAMBDA"            -> {e.lambda_body}
    [] e.type = "APPLY"             -> {e.apply_function, e.apply_argument}
    [] e.type \in {"LET", "LETREC"} -> {e.let_value, e.let_body}
    [] e.type = "IF"                -> {e.if_test, e.if_then, e.if_else}
    [] e.type = "BINARY"            -> {e.binary_left, e.binary_right}
    [] e.type = "UNARY"             -> {e.unary_arg}
    [] e.type = "TUPLE"             -> {e.tuple_first, e.tuple_rest}
    [] e.type = "TUPLE_FINAL"       -> {e.tuple_first}
    [] OTHER                        -> {}

\* The expressions that bind a name, and the name.
IsBinder(e) == e.type \in {"LAMBDA", "LET", "LETREC"}
BoundName(e) == IF e.type = "LAMBDA" THEN e.lambda_id ELSE e.let_id

\* The shape the parser gives a node whose subexpressions come from E.
\* (EXP_ERROR does not get past the parser.)
WellFormed(e, E) ==
  /\ e.type \in {"LAMBDA", "IDENTIFIER", "APPLY", "LET", "LETREC",
                 "INTEGER_CONSTANT", "TRUE", "FALSE", "IF", "BINARY",
                 "UNARY", "TUPLE", "TUPLE_FINAL"}
  /\ Children(e) \subseteq E
  /\ e.type = "LAMBDA" => e.lambda_id \in Symbol
  /\ e.type = "IDENTIFIER" => e.identifier_id \in Symbol
  /\ e.type \in {"LET", "LETREC"} => e.let_id \in Symbol
  /\ e.type = "INTEGER_CONSTANT" => e.literal_value \in Nat
  /\ e.type = "BINARY" =>
       e.binary_operator \in {"PLUS", "MINUS", "STAR", "SLASH", "EQUALS"}
  /\ e.type = "UNARY" => e.unary_operator \in {"PLUS", "MINUS"}
  /\ e.type = "TUPLE" => /\ e.tuple_length \in Nat \ {0, 1}
                         /\ e.tuple_rest.type \in {"TUPLE", "TUPLE_FINAL"}

=============================================================================
