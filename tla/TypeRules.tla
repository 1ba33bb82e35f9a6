----------------------------- MODULE TypeRules ------------------------------
(***************************************************************************)
(* The type of a Millie expression by the Hindley-Milner rules, the        *)
(* reference for the type checker: "a small, strict functional language    *)
(* with type inference" (readme.md).  A type is <<"INT">>, <<"BOOL">>,     *)
(* <<"VARIABLE", name>> or a constructor with its parts.  An expression    *)
(* gives equations between types, and its type is the most general one     *)
(* that solves them.  A name that let binds stands for its value, which is *)
(* typed anew for every use: that is what polymorphism means here.         *)
(***************************************************************************)
EXTENDS Ast, FiniteSets, TLC

Int == <<"INT">>
Bool == <<"BOOL">>
Var(name) == <<"VARIABLE", name>>
Func(from, to) == <<"FUNC", from, to>>

\* What a name stands for: one type, or an expression where it was bound.
Mono(type) == [type |-> type]
Scheme(e, env) == [e |-> e, env |-> env]

\* The type and the equations of e; path names its place in the program, and
\* so the variables that are its own.
RECURSIVE Judge(_, _, _)
Judge(e, env, path) ==
  LET part(child, i) == Judge(child, env, Append(path, i))
      judged(type, equations) ==
        [type |-> type, equations |-> equations, bound |-> TRUE]
      under(sub, type, equations) ==
        [type |-> type, equations |-> sub.equations \o equations,
         bound |-> sub.bound]
      both(a, b, type, equations) ==
        [type |-> type, equations |-> a.equations \o b.equations \o equations,
         bound |-> a.bound /\ b.bound]
  IN
  CASE e.type = "INTEGER_CONSTANT" -> judged(Int, <<>>)
    [] e.type \in {"TRUE", "FALSE"}  -> judged(Bool, <<>>)
    [] e.type = "IDENTIFIER" ->
         IF e.identifier_id \notin DOMAIN env
         THEN [judged(Int, <<>>) EXCEPT !.bound = FALSE]
         ELSE LET entry == env[e.identifier_id]
              IN IF "type" \in DOMAIN entry THEN judged(entry.type, <<>>)
                 ELSE Judge(entry.e, entry.env, Append(path, 0))
    [] e.type = "LAMBDA" ->
         LET argument == Var(path)
             body == Judge(e.lambda_body, (e.lambda_id :> Mono(argument)) @@ env,
                           Append(path, 1))
         IN under(body, Func(argument, body.type), <<>>)
    [] e.type = "APPLY" ->
         LET function == part(e.apply_function, 1)
             argument == part(e.apply_argument, 2)
         IN both(function, argument, Var(path),
                 << <<function.type, Func(argument.type, Var(path))>> >>)
    [] e.type = "LET" ->
         LET value == part(e.let_value, 1)
             body == Judge(e.let_body,
                           (e.let_id :> Scheme(e.let_value, env)) @@ env,
                           Append(path, 2))
         IN both(value, body, body.type, <<>>)
    [] e.type = "LETREC" ->
         LET fixed == [type |-> "FIX", id |-> e.let_id, value |-> e.let_value]
             value == part(fixed, 1)
             body == Judge(e.let_body, (e.let_id :> Scheme(fixed, env)) @@ env,
                           Append(path, 2))
         IN both(value, body, body.type, <<>>)
    [] e.type = "FIX" ->
         LET value == Judge(e.value, (e.id :> Mono(Var(path))) @@ env,
                            Append(path, 1))
         IN under(value, Var(path), << <<Var(path), value.type>> >>)
    [] e.type = "IF" ->
         LET test == part(e.if_test, 1)
             branches == both(part(e.if_then, 2), part(e.if_else, 3),
                              part(e.if_then, 2).type,
                              << <<part(e.if_then, 2).type,
                                   part(e.if_else, 3).type>> >>)
         IN both(test, branches, branches.type, << <<test.type, Bool>> >>)
    [] e.type = "BINARY" ->
         LET left == part(e.binary_left, 1)
             right == part(e.binary_right, 2)
         IN IF e.binary_operator = "EQUALS"
            THEN both(left, right, Bool, << <<left.type, right.type>> >>)
            ELSE both(left, right, Int,
                      << <<left.type, Int>>, <<right.type, Int>> >>)
    [] e.type = "UNARY" -> part(e.unary_arg, 1)
    [] e.type = "TUPLE" ->
         LET first == part(e.tuple_first, 1)
             rest == part(e.tuple_rest, 2)
         IN both(first, rest, <<"TUPLE", first.type, rest.type>>, <<>>)
    [] e.type = "TUPLE_FINAL" ->
         LET first == part(e.tuple_first, 1)
         IN under(first, <<"TUPLE_FINAL", first.type>>, <<>>)

-----------------------------------------------------------------------------
\* Solutions: a function from the names of some variables to types.
IsVar(type) == type[1] = "VARIABLE"
Args(type) == IF IsVar(type) THEN <<>> ELSE Tail(type)

RECURSIVE Resolved(_, _)
Resolved(type, solution) ==
  IF IsVar(type) /\ type[2] \in DOMAIN solution
  THEN Resolved(solution[type[2]], solution) ELSE type

RECURSIVE Occurs(_, _, _)
Occurs(name, type, solution) ==
  LET head == Resolved(type, solution)
  IN IF IsVar(head) THEN head[2] = name
     ELSE \E i \in DOMAIN Args(head) : Occurs(name, Args(head)[i], solution)

\* The most general solution of the equations that agrees with one.
RECURSIVE Solve(_, _)
Solve(equations, solution) ==
  IF equations = <<>> THEN [solvable |-> TRUE, solution |-> solution]
  ELSE
  LET left == Resolved(equations[1][1], solution)
      right == Resolved(equations[1][2], solution)
      rest == Tail(equations)
      unsolvable == [solvable |-> FALSE, solution |-> solution]
      bind(name, type) ==
        IF Occurs(name, type, solution) THEN unsolvable
        ELSE Solve(rest, (name :> type) @@ solution)
  IN CASE IsVar(left) /\ IsVar(right) /\ left[2] = right[2] ->
            Solve(rest, solution)
       [] IsVar(left) /\ ~(IsVar(right) /\ left[2] = right[2]) ->
            bind(left[2], right)
       [] ~IsVar(left) /\ IsVar(right) -> bind(right[2], left)
       [] ~IsVar(left) /\ ~IsVar(right) ->
            IF left[1] # right[1] THEN unsolvable
            ELSE Solve([i \in DOMAIN Args(left) |->
                          <<Args(left)[i], Args(right)[i]>>] \o rest, solution)

\* A type with everything a solution says put in its place.
RECURSIVE Solved(_, _)
Solved(type, solution) ==
  LET head == Resolved(type, solution)
  IN IF IsVar(head) THEN head
     ELSE <<head[1]>> \o [i \in DOMAIN Args(head) |-> Solved(Args(head)[i], solution)]

\* The names of a type's variables from left to right, each as often as it
\* occurs; and the type with each variable named by where it occurs first.
RECURSIVE VariablesOf(_)
VariablesOf(type) ==
  IF IsVar(type) THEN <<type[2]>>
  ELSE LET upto[i \in 0 .. Len(Args(type))] ==
             IF i = 0 THEN <<>> ELSE upto[i - 1] \o VariablesOf(Args(type)[i])
       IN upto[Len(Args(type))]

RECURSIVE Renamed(_, _)
Renamed(type, names) ==
  IF IsVar(type)
  THEN Var(CHOOSE i \in DOMAIN names :
             names[i] = type[2] /\ \A j \in 1 .. i - 1 : names[j] # type[2])
  ELSE <<type[1]>> \o [i \in DOMAIN Args(type) |-> Renamed(Args(type)[i], names)]

Canonical(type) == Renamed(type, VariablesOf(type))

\* What the rules say of a whole program.
Judgement(e) ==
  LET judged == Judge(e, <<>>, <<>>)
      result == Solve(judged.equations, <<>>)
  IN IF judged.bound /\ result.solvable
     THEN [typable |-> TRUE,
           type |-> Canonical(Solved(judged.type, result.solution))]
     ELSE [typable |-> FALSE, type |-> Int]

=============================================================================
