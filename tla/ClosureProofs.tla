---------------------------- MODULE ClosureProofs ---------------------------
(***************************************************************************)
(* What compilation makes of a whole expression: it reports an error just  *)
(* when the expression has a part that is not supported (ErrorsAreExact),  *)
(* and the closure of a lambda is the set of its free variables            *)
(* (ClosuresAreFreeVariables).                                             *)
(***************************************************************************)
EXTENDS CompilerProofs

-----------------------------------------------------------------------------
(***************************************************************************)
(* Expressions are finite trees, so that recursive functions on them exist *)
(* and what holds of a node when it holds of its children holds of all.    *)
(***************************************************************************)
LEMMA ChildrenAre ==
  ASSUME NEW e \in Expression
  PROVE  Children(e) \subseteq Expression
BY CompilerAssumption DEF WellFormed

LEMMA TreeInduction ==
  ASSUME TreesFinite, NEW S,
         \A e \in Expression : Children(e) \subseteq S => e \in S
  PROVE  Expression \subseteq S
<1>1. PICK size \in [Expression -> Nat] :
        \A e \in Expression : \A c \in Children(e) : size[c] < size[e]
  BY DEF TreesFinite
<1> DEFINE Fails == { size[e] : e \in Expression \ S }
<1>2. Fails = {}
  <2> SUFFICES ASSUME Fails # {} PROVE FALSE
    OBVIOUS
  <2>1. Fails \in SUBSET Nat
    BY <1>1
  <2>2. PICK m \in Fails : \A k \in Fails : m <= k
    BY <2>1, LeastNatural
  <2>3. PICK e \in Expression \ S : m = size[e]
    BY <2>2
  <2>4. \A c \in Children(e) : c \in S
    <3> SUFFICES ASSUME NEW c \in Children(e), c \notin S PROVE FALSE
      OBVIOUS
    <3>1. c \in Expression \ S
      BY <2>3, ChildrenAre
    <3>2. size[c] \in Fails
      BY <3>1
    <3> QED
      BY <1>1, <2>2, <2>3, <3>1, <3>2
  <2> QED
    BY <2>3, <2>4
<1> QED
  BY <1>2

\* A function f that is recursive by F: F gives its value at e from its values
\* at the children of e.
IsRecursive(F, U) ==
  /\ F \in [Expression \X [Expression -> SUBSET U] -> SUBSET U]
  /\ \A e \in Expression : \A g, h \in [Expression -> SUBSET U] :
       (\A c \in Children(e) : g[c] = h[c]) => F[<<e, g>>] = F[<<e, h>>]

LEMMA RecursionExists ==
  ASSUME TreesFinite, NEW U, NEW F, IsRecursive(F, U)
  PROVE  \E f \in [Expression -> SUBSET U] : \A e \in Expression : f[e] = F[<<e, f>>]
<1>1. PICK size \in [Expression -> Nat] :
        \A e \in Expression : \A c \in Children(e) : size[c] < size[e]
  BY DEF TreesFinite
<1> DEFINE Fun == [Expression -> SUBSET U]
           Upto(n, g) == \A e \in Expression : size[e] < n => g[e] = F[<<e, g>>]
<1>2. /\ \A e \in Expression : \A g \in Fun : F[<<e, g>>] \in SUBSET U
      /\ \A e \in Expression : \A g, h \in Fun :
           (\A c \in Children(e) : g[c] = h[c]) => F[<<e, g>>] = F[<<e, h>>]
  BY DEF IsRecursive
<1>3. ASSUME NEW n \in Nat PROVE \E g \in Fun : Upto(n, g)
  <2> DEFINE Fails == { m \in Nat : ~ \E g \in Fun : Upto(m, g) }
  <2>1. Fails = {}
    <3> SUFFICES ASSUME Fails # {} PROVE FALSE
      OBVIOUS
    <3>1. PICK m \in Fails : \A k \in Fails : m <= k
      BY LeastNatural
    <3>2. m # 0
      <4> DEFINE none == [e \in Expression |-> {}]
      <4>1. none \in Fun /\ Upto(0, none)
        BY <1>1
      <4> QED
        BY <3>1, <4>1
    <3>3. m - 1 \in Nat /\ m - 1 < m
      BY <3>1, <3>2
    <3>4. PICK g \in Fun : Upto(m - 1, g)
      BY <3>1, <3>3
    <3> DEFINE h == [e \in Expression |-> F[<<e, g>>]]
    <3>5. h \in Fun /\ \A e \in Expression : h[e] = F[<<e, g>>]
      BY <1>2
    <3> HIDE DEF h
    <3>6. Upto(m, h)
      <4> SUFFICES ASSUME NEW e \in Expression, size[e] < m
                   PROVE  h[e] = F[<<e, h>>]
        OBVIOUS
      <4>1. \A c \in Children(e) : c \in Expression /\ size[c] < m - 1
        BY <1>1, <3>1, ChildrenAre
      <4>2. \A c \in Children(e) : g[c] = h[c]
        BY <3>4, <3>5, <4>1
      <4> QED
        BY <1>2, <3>5, <4>2
    <3> QED
      BY <3>1, <3>5, <3>6
  <2> QED
    BY <2>1
<1>4. ASSUME NEW m \in Nat, NEW n \in Nat, NEW g \in Fun, NEW h \in Fun,
             Upto(m, g), Upto(n, h)
      PROVE  \A e \in Expression : size[e] < m /\ size[e] < n => g[e] = h[e]
  <2> DEFINE S == { e \in Expression : size[e] < m /\ size[e] < n => g[e] = h[e] }
  <2>1. ASSUME NEW e \in Expression, Children(e) \subseteq S
        PROVE  e \in S
    <3> SUFFICES ASSUME size[e] < m, size[e] < n PROVE g[e] = h[e]
      OBVIOUS
    <3>1. \A c \in Children(e) : g[c] = h[c]
      <4> TAKE c \in Children(e)
      <4>1. c \in Expression /\ size[c] < size[e] /\ size[c] \in Nat /\ size[e] \in Nat
        BY <1>1, ChildrenAre
      <4> QED
        BY <2>1, <4>1
    <3> QED
      BY <1>2, <1>4, <3>1
  <2> HIDE DEF S
  <2>2. Expression \subseteq S
    BY <2>1, TreeInduction
  <2> QED
    BY <2>2 DEF S
<1> DEFINE G(e) == CHOOSE g \in Fun : Upto(size[e] + 1, g)
           f == [e \in Expression |-> G(e)[e]]
<1>5. ASSUME NEW e \in Expression
      PROVE  G(e) \in Fun /\ Upto(size[e] + 1, G(e))
  <2>1. size[e] + 1 \in Nat
    BY <1>1
  <2>2. \E g \in Fun : Upto(size[e] + 1, g)
    BY <1>3, <2>1
  <2> HIDE DEF Upto, Fun
  <2> QED
    BY <2>2
<1>6. f \in Fun /\ \A e \in Expression : f[e] = G(e)[e]
  BY <1>5
<1> HIDE DEF f, G
<1>7. ASSUME NEW e \in Expression
      PROVE  f[e] = F[<<e, f>>]
  <2> DEFINE g == G(e)
  <2>1. g \in Fun /\ Upto(size[e] + 1, g) /\ size[e] \in Nat
    BY <1>1, <1>5
  <2>2. g[e] = F[<<e, g>>]
    BY <2>1
  <2>3. \A c \in Children(e) : g[c] = f[c]
    <3> TAKE c \in Children(e)
    <3>1. c \in Expression /\ size[c] < size[e] /\ size[c] \in Nat
      BY <1>1, ChildrenAre
    <3>2. G(c) \in Fun /\ Upto(size[c] + 1, G(c)) /\ size[c] + 1 \in Nat /\ size[e] + 1 \in Nat
      BY <1>5, <2>1, <3>1
    <3>3. size[c] < size[e] + 1 /\ size[c] < size[c] + 1
      BY <2>1, <3>1
    <3> HIDE DEF Upto, Fun
    <3>4. g[c] = G(c)[c]
      BY <1>4, <2>1, <3>1, <3>2, <3>3
    <3> QED
      BY <1>6, <3>1, <3>4
  <2> HIDE DEF g
  <2> QED
    BY <1>2, <1>6, <2>1, <2>2, <2>3 DEF g
<1> QED
  BY <1>6, <1>7

-----------------------------------------------------------------------------
(***************************************************************************)
(* The three recursive functions on expressions satisfy their definitions. *)
(***************************************************************************)
PartsAt(e, g) == {e} \union UNION { g[c] : c \in Children(e) }

FreeAt(e, g) ==
  CASE e.type = "IDENTIFIER" -> {e.identifier_id}
    [] e.type = "LAMBDA"     -> g[e.lambda_body] \ {e.lambda_id}
    [] e.type = "LET"        -> g[e.let_value] \union (g[e.let_body] \ {e.let_id})
    [] e.type = "LETREC"     -> (g[e.let_value] \union g[e.let_body]) \ {e.let_id}
    [] OTHER -> UNION { g[c] : c \in Children(e) }

BoundAt(e, g) ==
  (IF IsBinder(e) THEN {BoundName(e)} ELSE {}) \union
    UNION { g[c] : c \in Children(e) }

\* A node has the children that its fields name.
LEMMA ChildrenByType ==
  ASSUME NEW e \in Expression
  PROVE  /\ e.type \in {"IDENTIFIER", "INTEGER_CONSTANT", "TRUE", "FALSE"} =>
              Children(e) = {}
         /\ e.type = "LAMBDA" => Children(e) = {e.lambda_body}
         /\ e.type \in {"LET", "LETREC"} =>
              Children(e) = {e.let_value, e.let_body}
         /\ e.type \in {"APPLY", "BINARY"} =>
              Children(e) = {FirstOperand(e), SecondOperand(e)}
         /\ e.type = "UNARY" => Children(e) = {e.unary_arg}
         /\ e.type = "IF" => Children(e) = {e.if_test, e.if_then, e.if_else}
         /\ e.type = "TUPLE" => Children(e) = {e.tuple_first, e.tuple_rest}
         /\ e.type = "TUPLE_FINAL" => Children(e) = {e.tuple_first}
         /\ e.type \in {"LAMBDA", "IDENTIFIER", "APPLY", "LET", "LETREC",
                        "INTEGER_CONSTANT", "TRUE", "FALSE", "IF", "BINARY",
                        "UNARY", "TUPLE", "TUPLE_FINAL"}
<1>1. WellFormed(e, Expression)
  BY CompilerAssumption
<1>2. e.type \in {"IDENTIFIER", "INTEGER_CONSTANT", "TRUE", "FALSE"} => Children(e) = {}
  BY DEF Children
<1>3. e.type \in {"LET", "LETREC"} => Children(e) = {e.let_value, e.let_body}
  BY DEF Children
<1>4. e.type \in {"APPLY", "BINARY"} => Children(e) = {FirstOperand(e), SecondOperand(e)}
  BY DEF Children, FirstOperand, SecondOperand
<1>5. /\ e.type = "LAMBDA" => Children(e) = {e.lambda_body}
      /\ e.type = "UNARY" => Children(e) = {e.unary_arg}
      /\ e.type = "IF" => Children(e) = {e.if_test, e.if_then, e.if_else}
  BY DEF Children
<1>6. /\ e.type = "TUPLE" => Children(e) = {e.tuple_first, e.tuple_rest}
      /\ e.type = "TUPLE_FINAL" => Children(e) = {e.tuple_first}
  BY DEF Children
<1> QED
  BY <1>1, <1>2, <1>3, <1>4, <1>5, <1>6 DEF WellFormed

\* The values of a function at the children of a node.
LEMMA BelowAgrees ==
  ASSUME NEW e \in Expression, NEW g, NEW h, \A c \in Children(e) : g[c] = h[c]
  PROVE  UNION { g[c] : c \in Children(e) } = UNION { h[c] : c \in Children(e) }
<1>1. { g[c] : c \in Children(e) } = { h[c] : c \in Children(e) }
  OBVIOUS
<1> QED
  BY <1>1

LEMMA PartsAre ==
  ASSUME TreesFinite
  PROVE  /\ parts \in [Expression -> SUBSET Expression]
         /\ \A e \in Expression : parts[e] = PartsAt(e, parts)
<1> DEFINE Fun == [Expression -> SUBSET Expression]
           F == [p \in Expression \X Fun |-> PartsAt(p[1], p[2])]
<1>1. \A e \in Expression : \A g \in Fun : PartsAt(e, g) \in SUBSET Expression
  BY ChildrenAre DEF PartsAt
<1>2. \A e \in Expression : \A g \in Fun : F[<<e, g>>] = PartsAt(e, g)
  OBVIOUS
<1>3. F \in [Expression \X Fun -> SUBSET Expression]
  BY <1>1
<1>4. \A e \in Expression : \A g, h \in Fun :
        (\A c \in Children(e) : g[c] = h[c]) => PartsAt(e, g) = PartsAt(e, h)
  BY BelowAgrees DEF PartsAt
<1> HIDE DEF F
<1>5. IsRecursive(F, Expression)
  BY <1>2, <1>3, <1>4 DEF IsRecursive
<1>6. PICK f \in Fun : \A e \in Expression : f[e] = F[<<e, f>>]
  BY <1>5, RecursionExists
<1>7. f = [e \in Expression |-> PartsAt(e, f)]
  BY <1>2, <1>6
<1>8. parts = [e \in Expression |-> PartsAt(e, parts)]
  BY <1>7, Zenon DEF parts, PartsAt
<1>9. \A e \in Expression : parts[e] = PartsAt(e, parts)
  BY <1>8
<1> DEFINE S == { e \in Expression : parts[e] \in SUBSET Expression }
<1>10. \A e \in Expression : Children(e) \subseteq S => e \in S
  BY <1>9 DEF PartsAt
<1> HIDE DEF S
<1>11. Expression \subseteq S
  BY <1>10, TreeInduction
<1> QED
  BY <1>8, <1>9, <1>11 DEF S

LEMMA BoundNamesAre ==
  ASSUME TreesFinite
  PROVE  /\ boundNames \in [Expression -> SUBSET Symbol]
         /\ \A e \in Expression : boundNames[e] = BoundAt(e, boundNames)
<1> DEFINE Fun == [Expression -> SUBSET Symbol]
           F == [p \in Expression \X Fun |-> BoundAt(p[1], p[2])]
<1>1. \A e \in Expression : IsBinder(e) => BoundName(e) \in Symbol
  BY CompilerAssumption DEF WellFormed, IsBinder, BoundName
<1>2. \A e \in Expression : \A g \in Fun : BoundAt(e, g) \in SUBSET Symbol
  BY <1>1, ChildrenAre DEF BoundAt
<1>3. \A e \in Expression : \A g \in Fun : F[<<e, g>>] = BoundAt(e, g)
  OBVIOUS
<1>4. F \in [Expression \X Fun -> SUBSET Symbol]
  BY <1>2
<1>5. \A e \in Expression : \A g, h \in Fun :
        (\A c \in Children(e) : g[c] = h[c]) => BoundAt(e, g) = BoundAt(e, h)
  BY BelowAgrees DEF BoundAt
<1> HIDE DEF F
<1>6. IsRecursive(F, Symbol)
  BY <1>3, <1>4, <1>5 DEF IsRecursive
<1>7. PICK f \in Fun : \A e \in Expression : f[e] = F[<<e, f>>]
  BY <1>6, RecursionExists
<1>8. f = [e \in Expression |-> BoundAt(e, f)]
  BY <1>3, <1>7
<1>9. boundNames = [e \in Expression |-> BoundAt(e, boundNames)]
  BY <1>8, Zenon DEF boundNames, BoundAt
<1>10. \A e \in Expression : boundNames[e] = BoundAt(e, boundNames)
  BY <1>9
<1> DEFINE S == { e \in Expression : boundNames[e] \in SUBSET Symbol }
<1>11. \A e \in Expression : Children(e) \subseteq S => e \in S
  BY <1>1, <1>10 DEF BoundAt
<1> HIDE DEF S
<1>12. Expression \subseteq S
  BY <1>11, TreeInduction
<1> QED
  BY <1>9, <1>10, <1>12 DEF S

\* The value of FreeAt, by the type of the node.
LEMMA FreeAtByType ==
  ASSUME NEW e \in Expression, NEW g
  PROVE  /\ e.type = "IDENTIFIER" => FreeAt(e, g) = {e.identifier_id}
         /\ e.type = "LAMBDA" => FreeAt(e, g) = g[e.lambda_body] \ {e.lambda_id}
         /\ e.type = "LET" =>
              FreeAt(e, g) = g[e.let_value] \union (g[e.let_body] \ {e.let_id})
         /\ e.type = "LETREC" =>
              FreeAt(e, g) = (g[e.let_value] \union g[e.let_body]) \ {e.let_id}
         /\ e.type \notin {"IDENTIFIER", "LAMBDA", "LET", "LETREC"} =>
              FreeAt(e, g) = UNION { g[c] : c \in Children(e) }
BY DEF FreeAt

LEMMA FreeAtType ==
  ASSUME NEW e \in Expression, NEW g, \A c \in Children(e) : g[c] \in SUBSET Symbol
  PROVE  FreeAt(e, g) \in SUBSET Symbol
<1>1. CASE e.type = "IDENTIFIER"
  BY <1>1, FreeAtByType, Subexpressions
<1>2. CASE e.type \in {"LAMBDA", "LET", "LETREC"}
  BY <1>2, FreeAtByType, ChildrenByType
<1>3. CASE e.type \notin {"IDENTIFIER", "LAMBDA", "LET", "LETREC"}
  BY <1>3, FreeAtByType
<1> QED
  BY <1>1, <1>2, <1>3

LEMMA FreeAtAgrees ==
  ASSUME NEW e \in Expression, NEW g, NEW h, \A c \in Children(e) : g[c] = h[c]
  PROVE  FreeAt(e, g) = FreeAt(e, h)
<1>1. UNION { g[c] : c \in Children(e) } = UNION { h[c] : c \in Children(e) }
  BY BelowAgrees
<1>2. /\ e.type = "LAMBDA" => g[e.lambda_body] = h[e.lambda_body]
      /\ e.type \in {"LET", "LETREC"} =>
           g[e.let_value] = h[e.let_value] /\ g[e.let_body] = h[e.let_body]
  BY ChildrenByType
<1> QED
  BY <1>1, <1>2 DEF FreeAt

LEMMA FreeVariablesAre ==
  ASSUME TreesFinite
  PROVE  /\ freeVariables \in [Expression -> SUBSET Symbol]
         /\ \A e \in Expression : freeVariables[e] = FreeAt(e, freeVariables)
<1> DEFINE Fun == [Expression -> SUBSET Symbol]
           F == [p \in Expression \X Fun |-> FreeAt(p[1], p[2])]
<1>1. \A e \in Expression : \A g \in Fun : FreeAt(e, g) \in SUBSET Symbol
  BY ChildrenAre, FreeAtType
<1>2. \A e \in Expression : \A g \in Fun : F[<<e, g>>] = FreeAt(e, g)
  OBVIOUS
<1>3. F \in [Expression \X Fun -> SUBSET Symbol]
  BY <1>1
<1>4. \A e \in Expression : \A g, h \in Fun :
        (\A c \in Children(e) : g[c] = h[c]) => FreeAt(e, g) = FreeAt(e, h)
  BY FreeAtAgrees
<1> HIDE DEF F
<1>5. IsRecursive(F, Symbol)
  BY <1>2, <1>3, <1>4 DEF IsRecursive
<1>6. PICK f \in Fun : \A e \in Expression : f[e] = F[<<e, f>>]
  BY <1>5, RecursionExists
<1>7. f = [e \in Expression |-> FreeAt(e, f)]
  BY <1>2, <1>6
<1>8. freeVariables = [e \in Expression |-> FreeAt(e, freeVariables)]
  BY <1>7, Zenon DEF freeVariables, FreeAt
<1>9. \A e \in Expression : freeVariables[e] = FreeAt(e, freeVariables)
  BY <1>8
<1> DEFINE S == { e \in Expression : freeVariables[e] \in SUBSET Symbol }
<1>10. ASSUME NEW e \in Expression, Children(e) \subseteq S PROVE e \in S
  BY <1>9, <1>10, FreeAtType
<1> HIDE DEF S
<1>11. Expression \subseteq S
  BY <1>10, TreeInduction
<1> QED
  BY <1>8, <1>9, <1>11 DEF S

-----------------------------------------------------------------------------
(***************************************************************************)
(* Their values, type by type.  All the elements of a tuple are the same,  *)
(* so that what is said of its first is said of all.                       *)
(***************************************************************************)
\* The parts of e that the compiler rejects, and e itself when it does.
Bad(e) == { u \in parts[e] : Unsupported(u) }
BadNode(e) == IF Unsupported(e) THEN {e} ELSE {}

LEMMA BadChildren ==
  ASSUME TreesFinite, NEW e \in Expression
  PROVE  Bad(e) = BadNode(e) \union UNION { Bad(c) : c \in Children(e) }
<1>1. parts[e] = PartsAt(e, parts)
  BY PartsAre
<1> QED
  BY <1>1 DEF PartsAt, Bad, BadNode

LEMMA TupleValues ==
  ASSUME TreesFinite, TuplesUniform, NEW e \in Expression, e.type = "TUPLE"
  PROVE  /\ Bad(e) = Bad(e.tuple_first)
         /\ freeVariables[e] = freeVariables[e.tuple_first]
<1> DEFINE Same(x) == /\ Bad(x) = Bad(x.tuple_first)
                      /\ freeVariables[x] = freeVariables[x.tuple_first]
           S == { x \in Expression : x.type = "TUPLE" => Same(x) }
<1>1. ASSUME NEW x \in Expression, Children(x) \subseteq S PROVE x \in S
  <2> SUFFICES ASSUME x.type = "TUPLE" PROVE Same(x)
    OBVIOUS
  <2> DEFINE first == x.tuple_first
             rest == x.tuple_rest
  <2>1. /\ Children(x) = {first, rest} /\ first \in Expression /\ rest \in Expression
        /\ rest.tuple_first = first /\ rest.type \in {"TUPLE", "TUPLE_FINAL"}
    <3>1. WellFormed(x, Expression)
      BY CompilerAssumption
    <3> QED
      BY <3>1, ChildrenByType, ChildrenAre DEF WellFormed, TuplesUniform
  <2>2. BadNode(x) = {} /\ BadNode(rest) = {}
    BY <2>1 DEF BadNode, Unsupported
  <2>3. Bad(x) = Bad(first) \union Bad(rest)
    BY <2>1, <2>2, BadChildren
  <2>4. freeVariables[x] = freeVariables[first] \union freeVariables[rest]
    <3>1. freeVariables[x] = FreeAt(x, freeVariables)
      BY FreeVariablesAre
    <3> QED
      BY <2>1, <3>1, FreeAtByType
  <2>5. Same(rest)
    <3>1. CASE rest.type = "TUPLE"
      BY <1>1, <2>1, <3>1
    <3>2. CASE rest.type = "TUPLE_FINAL"
      <4>1. Children(rest) = {rest.tuple_first}
        BY <2>1, <3>2, ChildrenByType
      <4>2. freeVariables[rest] = FreeAt(rest, freeVariables)
        BY <2>1, FreeVariablesAre
      <4>3. Bad(rest) = BadNode(rest) \union UNION { Bad(c) : c \in Children(rest) }
        BY <2>1, BadChildren
      <4>4. Bad(rest) = Bad(first)
        BY <2>1, <2>2, <4>1, <4>3
      <4>5. freeVariables[rest] = freeVariables[first]
        <5>1. FreeAt(rest, freeVariables) = UNION { freeVariables[c] : c \in Children(rest) }
          BY <2>1, <3>2, FreeAtByType
        <5> QED
          BY <2>1, <4>1, <4>2, <5>1
      <4> QED
        BY <2>1, <4>4, <4>5
    <3> QED
      BY <2>1, <3>1, <3>2
  <2> QED
    BY <2>1, <2>3, <2>4, <2>5
<1> HIDE DEF S
<1>2. Expression \subseteq S
  BY <1>1, TreeInduction
<1> QED
  BY <1>2 DEF S

LEMMA BadByType ==
  ASSUME TreesFinite, TuplesUniform, NEW e \in Expression
  PROVE  /\ e.type \in {"IDENTIFIER", "INTEGER_CONSTANT", "TRUE", "FALSE"} => Bad(e) = {}
         /\ e.type = "LAMBDA" => Bad(e) = Bad(e.lambda_body)
         /\ e.type = "LET" => Bad(e) = Bad(e.let_value) \union Bad(e.let_body)
         /\ e.type = "LETREC" =>
              Bad(e) = BadNode(e) \union Bad(e.let_value) \union Bad(e.let_body)
         /\ e.type = "APPLY" =>
              Bad(e) = Bad(FirstOperand(e)) \union Bad(SecondOperand(e))
         /\ e.type = "BINARY" =>
              Bad(e) = BadNode(e) \union Bad(FirstOperand(e)) \union Bad(SecondOperand(e))
         /\ e.type = "UNARY" => Bad(e) = BadNode(e) \union Bad(e.unary_arg)
         /\ e.type = "IF" =>
              Bad(e) = Bad(e.if_test) \union Bad(e.if_then) \union Bad(e.if_else)
         /\ e.type = "TUPLE" => Bad(e) = Bad(e.tuple_first)
<1>1. e.type \notin {"BINARY", "UNARY", "LETREC"} => BadNode(e) = {}
  BY DEF BadNode, Unsupported
<1>2. Bad(e) = BadNode(e) \union UNION { Bad(c) : c \in Children(e) }
  BY BadChildren
<1>3. e.type = "TUPLE" => Bad(e) = Bad(e.tuple_first)
  BY TupleValues
<1> HIDE DEF Bad, BadNode
<1>4. e.type \in {"IDENTIFIER", "INTEGER_CONSTANT", "TRUE", "FALSE"} => Bad(e) = {}
  BY <1>1, <1>2, ChildrenByType
<1>5. e.type = "LAMBDA" => Bad(e) = Bad(e.lambda_body)
  BY <1>1, <1>2, ChildrenByType
<1>6. e.type \in {"LET", "LETREC"} =>
        Bad(e) = BadNode(e) \union Bad(e.let_value) \union Bad(e.let_body)
  BY <1>1, <1>2, ChildrenByType
<1>7. e.type \in {"APPLY", "BINARY"} =>
        Bad(e) = BadNode(e) \union Bad(FirstOperand(e)) \union Bad(SecondOperand(e))
  BY <1>1, <1>2, ChildrenByType
<1>8. e.type = "UNARY" => Bad(e) = BadNode(e) \union Bad(e.unary_arg)
  BY <1>1, <1>2, ChildrenByType
<1>9. e.type = "IF" =>
        Bad(e) = Bad(e.if_test) \union Bad(e.if_then) \union Bad(e.if_else)
  BY <1>1, <1>2, ChildrenByType
<1> QED
  BY <1>1, <1>3, <1>4, <1>5, <1>6, <1>7, <1>8, <1>9

LEMMA FreeByType ==
  ASSUME TreesFinite, TuplesUniform, NEW e \in Expression
  PROVE  LET Free(x) == freeVariables[x]
         IN  /\ Free(e) \in SUBSET Symbol
             /\ e.type \in {"INTEGER_CONSTANT", "TRUE", "FALSE"} => Free(e) = {}
             /\ e.type = "IDENTIFIER" => Free(e) = {e.identifier_id}
             /\ e.type = "LAMBDA" => Free(e) = Free(e.lambda_body) \ {e.lambda_id}
             /\ e.type = "LET" =>
                  Free(e) = Free(e.let_value) \union (Free(e.let_body) \ {e.let_id})
             /\ e.type = "LETREC" =>
                  Free(e) = (Free(e.let_value) \union Free(e.let_body)) \ {e.let_id}
             /\ e.type \in {"APPLY", "BINARY"} =>
                  Free(e) = Free(FirstOperand(e)) \union Free(SecondOperand(e))
             /\ e.type = "UNARY" => Free(e) = Free(e.unary_arg)
             /\ e.type = "IF" =>
                  Free(e) = Free(e.if_test) \union Free(e.if_then) \union Free(e.if_else)
             /\ e.type = "TUPLE" => Free(e) = Free(e.tuple_first)
<1>1. freeVariables[e] = FreeAt(e, freeVariables) /\ freeVariables[e] \in SUBSET Symbol
  BY FreeVariablesAre
<1>2. e.type = "TUPLE" => freeVariables[e] = freeVariables[e.tuple_first]
  BY TupleValues
<1>3. /\ e.type = "IDENTIFIER" => freeVariables[e] = {e.identifier_id}
      /\ e.type = "LAMBDA" =>
           freeVariables[e] = freeVariables[e.lambda_body] \ {e.lambda_id}
      /\ e.type = "LET" => freeVariables[e] =
           freeVariables[e.let_value] \union (freeVariables[e.let_body] \ {e.let_id})
      /\ e.type = "LETREC" => freeVariables[e] =
           (freeVariables[e.let_value] \union freeVariables[e.let_body]) \ {e.let_id}
  BY <1>1, FreeAtByType
<1>4. e.type \notin {"IDENTIFIER", "LAMBDA", "LET", "LETREC"} =>
        freeVariables[e] = UNION { freeVariables[c] : c \in Children(e) }
  BY <1>1, FreeAtByType
<1>5. /\ e.type \in {"INTEGER_CONSTANT", "TRUE", "FALSE"} => freeVariables[e] = {}
      /\ e.type = "UNARY" => freeVariables[e] = freeVariables[e.unary_arg]
  <2>1. ASSUME Children(e) = {} PROVE UNION { freeVariables[c] : c \in Children(e) } = {}
    BY <2>1
  <2>2. ASSUME NEW x, Children(e) = {x}
        PROVE  UNION { freeVariables[c] : c \in Children(e) } = freeVariables[x]
    BY <2>2
  <2>3. e.type = "UNARY" => Children(e) = {e.unary_arg}
    BY ChildrenByType
  <2>4. e.type \in {"INTEGER_CONSTANT", "TRUE", "FALSE"} => Children(e) = {}
    BY ChildrenByType
  <2> QED
    BY <1>4, <2>1, <2>2, <2>3, <2>4
<1>6. e.type \in {"APPLY", "BINARY"} => freeVariables[e] =
        freeVariables[FirstOperand(e)] \union freeVariables[SecondOperand(e)]
  BY <1>4, ChildrenByType
<1>7. e.type = "IF" => freeVariables[e] =
        freeVariables[e.if_test] \union freeVariables[e.if_then]
                                 \union freeVariables[e.if_else]
  BY <1>4, ChildrenByType
<1> QED
  BY <1>1, <1>2, <1>3, <1>5, <1>6, <1>7

LEMMA BoundByType ==
  ASSUME TreesFinite, NEW e \in Expression
  PROVE  /\ boundNames[e] \in SUBSET Symbol
         /\ e.type = "LAMBDA" =>
              boundNames[e] = {e.lambda_id} \union boundNames[e.lambda_body]
         /\ e.type \in {"LET", "LETREC"} =>
              boundNames[e] = {e.let_id} \union boundNames[e.let_value]
                                         \union boundNames[e.let_body]
         /\ e.type \in {"APPLY", "BINARY"} =>
              boundNames[e] = boundNames[FirstOperand(e)] \union boundNames[SecondOperand(e)]
         /\ e.type = "UNARY" => boundNames[e] = boundNames[e.unary_arg]
         /\ e.type = "IF" =>
              boundNames[e] = boundNames[e.if_test] \union boundNames[e.if_then]
                                                    \union boundNames[e.if_else]
<1>1. boundNames[e] = BoundAt(e, boundNames) /\ boundNames[e] \in SUBSET Symbol
  BY BoundNamesAre
<1>2. /\ e.type \in {"LAMBDA", "LET", "LETREC"} => IsBinder(e)
      /\ e.type \notin {"LAMBDA", "LET", "LETREC"} => ~ IsBinder(e)
      /\ e.type = "LAMBDA" => BoundName(e) = e.lambda_id
      /\ e.type \in {"LET", "LETREC"} => BoundName(e) = e.let_id
  BY DEF IsBinder, BoundName
<1> QED
  BY <1>1, <1>2, ChildrenByType DEF BoundAt

\* The free variables of an expression are among the names it is scoped in.
LEMMA FreeInScope ==
  ASSUME TreesFinite, TuplesUniform, NEW e \in Expression, NEW N, WellScoped(e, N)
  PROVE  freeVariables[e] \subseteq N
<1> DEFINE S == { x \in Expression :
                    \A M : WellScoped(x, M) => freeVariables[x] \subseteq M }
<1>1. ASSUME NEW x \in Expression, Children(x) \subseteq S PROVE x \in S
  <2> SUFFICES ASSUME NEW M, WellScoped(x, M) PROVE freeVariables[x] \subseteq M
    OBVIOUS
  <2>1. \A c \in Children(x) : \A K : WellScoped(c, K) => freeVariables[c] \subseteq K
    BY <1>1
  <2>2. freeVariables[x] = FreeAt(x, freeVariables)
    BY FreeVariablesAre
  <2> HIDE DEF S
  <2>3. CASE x.type = "IDENTIFIER"
    <3>1. x.identifier_id \in M
      BY <2>3, ScopedParts
    <3>2. freeVariables[x] = {x.identifier_id}
      BY <2>2, <2>3, FreeAtByType
    <3> QED
      BY <3>1, <3>2
  <2>4. CASE x.type = "LAMBDA"
    <3>1. x.lambda_body \in Children(x)
      BY <2>4, ChildrenByType
    <3>2. freeVariables[x.lambda_body] \subseteq M \union {x.lambda_id}
      BY <2>1, <2>4, <3>1, ScopedParts
    <3> QED
      BY <2>2, <2>4, <3>2, FreeAtByType
  <2>5. CASE x.type \in {"LET", "LETREC"}
    <3>1. x.let_value \in Children(x) /\ x.let_body \in Children(x)
      BY <2>5, ChildrenByType
    <3>2. freeVariables[x.let_body] \subseteq M \union {x.let_id}
      BY <2>1, <2>5, <3>1, ScopedParts
    <3>3. /\ x.type = "LET" => freeVariables[x.let_value] \subseteq M
          /\ x.type = "LETREC" => freeVariables[x.let_value] \subseteq M \union {x.let_id}
      BY <2>1, <3>1, ScopedParts
    <3> QED
      BY <2>2, <2>5, <3>2, <3>3, FreeAtByType
  <2>6. CASE x.type \notin {"IDENTIFIER", "LAMBDA", "LET", "LETREC"}
    <3>1. \A c \in Children(x) : freeVariables[c] \subseteq M
      BY <2>1, <2>6, ScopedParts
    <3> QED
      BY <2>2, <2>6, <3>1, FreeAtByType
  <2> QED
    BY <2>3, <2>4, <2>5, <2>6
<1> HIDE DEF S
<1>2. Expression \subseteq S
  BY <1>1, TreeInduction
<1> QED
  BY <1>2 DEF S

-----------------------------------------------------------------------------
(***************************************************************************)
(* What a step does to the stack: it calls (a descent), goes on, or        *)
(* returns.                                                                *)
(***************************************************************************)
\* t calls _CompileExpression on e, to go on at l.
Calls(t, l, e) ==
  \/ t.at = "enter" /\ t.expr.type = "LET" /\ l = "let_value" /\ e = t.expr.let_value
  \/ t.at = "enter" /\ t.expr.type \in {"APPLY", "BINARY"} /\ l = "first"
       /\ e = FirstOperand(t.expr)
  \/ t.at = "enter" /\ t.expr.type = "UNARY" /\ l = "operand" /\ e = t.expr.unary_arg
  \/ t.at = "enter" /\ t.expr.type = "IF" /\ l = "if_test" /\ e = t.expr.if_test
  \/ t.at = "enter" /\ t.expr.type = "TUPLE" /\ l = "member" /\ e = t.expr.tuple_first
  \/ t.at = "member" /\ l = "member" /\ e = t.expr.tuple_first
  \/ t.at \in {"let_value", "rec_value"} /\ l = "let_body" /\ e = t.expr.let_body
  \/ t.at = "first" /\ l = "second" /\ e = SecondOperand(t.expr)
  \/ t.at = "if_test" /\ l = "if_then" /\ e = t.expr.if_then
  \/ t.at = "if_then" /\ l = "if_else" /\ e = t.expr.if_else

\* t calls: it goes on as a when b returns.
Descends(t, a, b) ==
  /\ a.expr = t.expr /\ a.context = t.context /\ a.self_id = t.self_id
  /\ b.context = t.context /\ b.i = 0
  /\ \/ b.at = "enter" /\ b.self_id = INVALID_SYMBOL /\ Calls(t, a.at, b.expr)
     \/ /\ t.at = "enter" /\ t.expr.type = "LETREC" /\ a.at = "rec_value"
        /\ b.at = "lambda" /\ b.expr = t.expr.let_value
        /\ b.self_id = t.expr.let_id /\ t.expr.let_value.type = "LAMBDA"

Descent ==
  \E a, b \in Placed : /\ Descends(top, a, b)
                       /\ calls' = Append(Append(Front(calls), a), b)

LEMMA DescentByLabel ==
  ASSUME CompilerInv, Running, NEW a, GoesOn(a), a.self_id = top.self_id,
         NEW e \in Expression, CallFrom(a, e)
  PROVE  \E b \in Placed : /\ b.context = top.context /\ b.self_id = INVALID_SYMBOL
                           /\ b.at = "enter" /\ b.expr = e /\ b.i = 0
                           /\ calls' = Append(Append(Front(calls), a), b)
<1> DEFINE b == Activation("enter", e, a.context)
<1>1. a \in Placed /\ a.context = top.context /\ top.context \in Nat /\ calls # <<>>
  BY TopFacts DEF GoesOn, Running, ActivationType
<1>2. b \in Placed /\ b.context = top.context /\ b.at = "enter" /\ b.expr = e
      /\ b.self_id = INVALID_SYMBOL /\ b.i = 0
  BY <1>1, EnterPlaced DEF Activation
<1>3. calls' = Append(Become(a), b)
  BY DEF CallFrom
<1> HIDE DEF b
<1>4. Become(a) = Append(Front(calls), a)
  BY <1>1, Base
<1> QED
  BY <1>2, <1>3, <1>4

\* The changes of the running activation leave it the name of its function.
LEMMA SelfStays ==
  ASSUME CompilerInv, calls # <<>>
  PROVE  \A l, r, n : /\ [top EXCEPT !.at = l].self_id = top.self_id
                      /\ [top EXCEPT !.i = n].self_id = top.self_id
                      /\ [top EXCEPT !.at = l, !.reg = r].self_id = top.self_id
                      /\ [top EXCEPT !.at = l, !.loc = n].self_id = top.self_id
                      /\ [top EXCEPT !.at = l, !.reg = r, !.loc = n].self_id = top.self_id
<1>1. top \in ActivationType
  BY TopFacts
<1> QED
  BY <1>1 DEF ActivationType

\* A call of _CompileExpression by an activation that goes on as a.
LEMMA DescentTo ==
  ASSUME CompilerInv, Running, NEW a, GoesOn(a), a.self_id = top.self_id,
         NEW e \in Expression, CallFrom(a, e), Calls(top, a.at, e)
  PROVE  Descent
<1>1. PICK b \in Placed : /\ b.context = top.context /\ b.self_id = INVALID_SYMBOL
                          /\ b.at = "enter" /\ b.expr = e /\ b.i = 0
                          /\ calls' = Append(Append(Front(calls), a), b)
  BY DescentByLabel
<1>2. Descends(top, a, b)
  BY <1>1 DEF Descends, GoesOn
<1> QED
  BY <1>1, <1>2 DEF Descent, GoesOn

LEMMA DescentsQuiet ==
  ASSUME CompilerInv,
         \/ CompileLet \/ CompileFirst \/ CompileUnary \/ CompileIf \/ LetRecBody
         \/ BindLet
  PROVE  Descent
<1>1. Running /\ calls # <<>> /\ top \in Placed /\ top.expr \in Expression
  BY TopFacts DEF CompileLet, CompileFirst, CompileUnary, CompileIf, LetRecBody, BindLet,
                  Enter, At, Running
<1>2. ASSUME NEW l \in {"let_value", "let_body", "first", "operand", "if_test"},
             top.expr.type \in ExpressionType[l],
             NEW e \in Expression, CallFrom([top EXCEPT !.at = l], e), Calls(top, l, e)
      PROVE  Descent
  <2> DEFINE a == [top EXCEPT !.at = l]
  <2>1. l \in DOMAIN ExpressionType /\ l \notin {"body", "closed"}
    BY DEF ExpressionType
  <2>2. GoesOn(a) /\ a.at = l /\ a.self_id = top.self_id
    BY <1>1, <1>2, <2>1, GoesOnLabel, SelfStays
  <2>3. CallFrom(a, e)
    BY <1>2
  <2> HIDE DEF a
  <2> QED
    BY <1>1, <1>2, <2>2, <2>3, DescentTo
<1>3. CASE CompileLet
  <2>1. /\ top.at = "enter" /\ top.expr.type = "LET"
        /\ CallFrom([top EXCEPT !.at = "let_value"], top.expr.let_value)
    BY <1>3 DEF CompileLet, Enter, At
  <2>2. Calls(top, "let_value", top.expr.let_value) /\ top.expr.let_value \in Expression
    BY <1>1, <2>1, Subexpressions DEF Calls
  <2> QED
    BY <1>2, <2>1, <2>2 DEF ExpressionType
<1>4. CASE CompileFirst
  <2>1. /\ top.at = "enter" /\ top.expr.type \in {"APPLY", "BINARY"}
        /\ CallFrom([top EXCEPT !.at = "first"], FirstOperand(top.expr))
    BY <1>4 DEF CompileFirst, Enter, At
  <2>2. Calls(top, "first", FirstOperand(top.expr)) /\ FirstOperand(top.expr) \in Expression
    BY <1>1, <2>1, Subexpressions DEF Calls
  <2> QED
    BY <1>2, <2>1, <2>2 DEF ExpressionType
<1>5. CASE CompileUnary
  <2>1. /\ top.at = "enter" /\ top.expr.type = "UNARY"
        /\ CallFrom([top EXCEPT !.at = "operand"], top.expr.unary_arg)
    BY <1>5 DEF CompileUnary, Enter, At
  <2>2. Calls(top, "operand", top.expr.unary_arg) /\ top.expr.unary_arg \in Expression
    BY <1>1, <2>1, Subexpressions DEF Calls
  <2> QED
    BY <1>2, <2>1, <2>2 DEF ExpressionType
<1>6. CASE CompileIf
  <2>1. /\ top.at = "enter" /\ top.expr.type = "IF"
        /\ CallFrom([top EXCEPT !.at = "if_test"], top.expr.if_test)
    BY <1>6 DEF CompileIf, Enter, At
  <2>2. Calls(top, "if_test", top.expr.if_test) /\ top.expr.if_test \in Expression
    BY <1>1, <2>1, Subexpressions DEF Calls
  <2> QED
    BY <1>2, <2>1, <2>2 DEF ExpressionType
<1>7. CASE LetRecBody \/ BindLet
  <2>1. /\ top.at \in {"let_value", "rec_value"}
        /\ CallFrom([top EXCEPT !.at = "let_body"], top.expr.let_body)
    BY <1>7 DEF LetRecBody, BindLet, At
  <2>2. top.expr.type \in {"LET", "LETREC"}
    BY <1>1, <2>1 DEF Placed, ExpressionType
  <2>3. Calls(top, "let_body", top.expr.let_body) /\ top.expr.let_body \in Expression
    BY <1>1, <2>1, <2>2, Subexpressions DEF Calls
  <2> QED
    BY <1>2, <2>1, <2>2, <2>3 DEF ExpressionType
<1> QED
  BY <1>3, <1>4, <1>5, <1>6, <1>7

LEMMA DescentsHolding ==
  ASSUME CompilerInv,
         \/ CompileSecond \/ CompileThen \/ CompileElse
         \/ CompileTuple \/ NextMember
  PROVE  Descent
<1>1. Running /\ calls # <<>> /\ top \in Placed /\ top.expr \in Expression /\ ret \in Bytes
      /\ top \in ActivationType
  BY TopFacts DEF CompileSecond, CompileThen, CompileElse, CompileTuple, NextMember,
                  Enter, At, Running
<1>3. CASE CompileSecond
  <2> DEFINE a == [top EXCEPT !.at = "second", !.reg = ret]
  <2>1. top.at = "first" /\ CallFrom(a, SecondOperand(top.expr))
    BY <1>3 DEF CompileSecond, At
  <2>2. top.expr.type \in {"APPLY", "BINARY"} /\ "second" \in DOMAIN ExpressionType
        /\ top.expr.type \in ExpressionType["second"]
    BY <1>1, <2>1 DEF Placed, ExpressionType
  <2>3. GoesOn(a) /\ a.at = "second"
    BY <1>1, <2>2, GoesOnLabel
  <2>4. a.self_id = top.self_id
    BY <1>1, SelfStays
  <2> HIDE DEF a
  <2>5. SecondOperand(top.expr) \in Expression
    BY <1>1, <2>2, Subexpressions
  <2>6. Calls(top, a.at, SecondOperand(top.expr))
    BY <2>1, <2>3 DEF Calls
  <2> QED
    BY <1>1, <2>1, <2>3, <2>4, <2>5, <2>6, DescentTo
<1>4. CASE CompileThen
  <2> DEFINE n == Len(context.code) + 2
             a == [top EXCEPT !.at = "if_then", !.loc = n]
  <2>1. top.at = "if_test" /\ CallFrom(a, top.expr.if_then)
    BY <1>4 DEF CompileThen, At
  <2>2. top.expr.type = "IF" /\ "if_then" \in DOMAIN ExpressionType
        /\ top.expr.type \in ExpressionType["if_then"]
    BY <1>1, <2>1 DEF Placed, ExpressionType
  <2>3. n \in Nat
    BY <1>1, TopFacts, LenProperties
  <2> HIDE DEF n
  <2>4. GoesOn(a) /\ a.at = "if_then"
    BY <1>1, <2>2, <2>3, GoesOnLabel
  <2>5. a.self_id = top.self_id
    BY <1>1, SelfStays
  <2> HIDE DEF a
  <2>6. top.expr.if_then \in Expression
    BY <1>1, <2>2, Subexpressions
  <2>7. Calls(top, a.at, top.expr.if_then)
    BY <2>1, <2>4 DEF Calls
  <2> QED
    BY <1>1, <2>1, <2>4, <2>5, <2>6, <2>7, DescentTo
<1>5. CASE CompileElse
  <2> DEFINE n == Len(context.code) + 1
             a == [top EXCEPT !.at = "if_else", !.reg = ret, !.loc = n]
  <2>1. top.at = "if_then" /\ CallFrom(a, top.expr.if_else)
    BY <1>5 DEF CompileElse, At
  <2>2. top.expr.type = "IF" /\ "if_else" \in DOMAIN ExpressionType
        /\ top.expr.type \in ExpressionType["if_else"]
    BY <1>1, <2>1 DEF Placed, ExpressionType
  <2>3. n \in Nat
    BY <1>1, TopFacts, LenProperties
  <2> HIDE DEF n
  <2>4. GoesOn(a) /\ a.at = "if_else"
    BY <1>1, <2>2, <2>3, GoesOnLabel
  <2>5. a.self_id = top.self_id
    BY <1>1, SelfStays
  <2> HIDE DEF a
  <2>6. top.expr.if_else \in Expression
    BY <1>1, <2>2, Subexpressions
  <2>7. Calls(top, a.at, top.expr.if_else)
    BY <2>1, <2>4 DEF Calls
  <2> QED
    BY <1>1, <2>1, <2>4, <2>5, <2>6, <2>7, DescentTo
<1>6. CASE CompileTuple
  <2> DEFINE out == WriteLoadLiteral(context, top.expr.tuple_length).integer_registers
             a == [top EXCEPT !.at = "member", !.reg = out]
  <2>1. top.at = "enter" /\ top.expr.type = "TUPLE" /\ CallFrom(a, top.expr.tuple_first)
    BY <1>6 DEF CompileTuple, Enter, At
  <2>2. "member" \in DOMAIN ExpressionType /\ top.expr.type \in ExpressionType["member"]
    BY <2>1 DEF ExpressionType
  <2>3. top.expr.tuple_first \in Expression /\ out \in Bytes
    <3>1. top.expr.tuple_length \in Nat /\ top.expr.tuple_first \in Expression
      BY <1>1, <2>1, Subexpressions
    <3>2. WriteLoadLiteral(context, top.expr.tuple_length) \in ContextType
      BY <1>1, <3>1, TopFacts, WriteLoadLiteralType
    <3> QED
      BY <3>1, <3>2 DEF ContextType
  <2> HIDE DEF out
  <2>4. GoesOn(a) /\ a.at = "member"
    BY <1>1, <2>2, <2>3, GoesOnLabel
  <2>5. a.self_id = top.self_id
    BY <1>1, SelfStays
  <2> HIDE DEF a
  <2>6. Calls(top, a.at, top.expr.tuple_first)
    BY <2>1, <2>4 DEF Calls
  <2> QED
    BY <1>1, <2>1, <2>3, <2>4, <2>5, <2>6, DescentTo
<1>7. CASE NextMember
  <2> DEFINE a == [top EXCEPT !.i = top.i + 1]
  <2>1. top.at = "member" /\ CallFrom(a, top.expr.tuple_first)
    BY <1>7 DEF NextMember, At
  <2>2. top.expr.type = "TUPLE" /\ top.expr.tuple_first \in Expression
    <3>1. top.expr.type = "TUPLE"
      BY <1>1, <2>1 DEF Placed, ExpressionType
    <3> QED
      BY <1>1, <3>1, Subexpressions
  <2>3. /\ a \in ActivationType /\ a.expr = top.expr /\ a.at = "member"
        /\ a.context = top.context /\ a.self_id = top.self_id
    <3>1. top.i + 1 \in Nat
      BY <1>1 DEF ActivationType
    <3> QED
      BY <1>1, <2>1, <3>1 DEF ActivationType
  <2> HIDE DEF a
  <2>4. a \in Placed
    BY <1>1, <2>1, <2>2, <2>3 DEF Placed, ExpressionType
  <2>5. GoesOn(a)
    BY <2>3, <2>4 DEF GoesOn
  <2>6. Calls(top, a.at, top.expr.tuple_first)
    BY <2>1, <2>3 DEF Calls
  <2> QED
    BY <1>1, <2>1, <2>2, <2>3, <2>5, <2>6, DescentTo
<1> QED
  BY <1>3, <1>4, <1>5, <1>6, <1>7

LEMMA DescentLetRec ==
  ASSUME CompilerInv, CompileLetRec
  PROVE  Descent
<1> DEFINE id == top.expr.let_id
           dest == context.integer_registers
           a == [top EXCEPT !.at = "rec_value"]
           b == [Activation("lambda", top.expr.let_value, top.context) EXCEPT
                   !.self_id = id, !.reg = dest]
<1>1. Running /\ calls # <<>> /\ top.at = "enter" /\ top \in Placed
      /\ top.expr \in Expression /\ top.context \in Nat
  BY TopFacts DEF CompileLetRec, Enter, At, Running, ActivationType
<1>2. /\ "rec_value" \in DOMAIN ExpressionType
      /\ top.expr.type \in ExpressionType["rec_value"]
      /\ top.expr.type = "LETREC" /\ top.expr.let_value.type = "LAMBDA"
  BY DEF CompileLetRec, Enter, ExpressionType
<1>3. top.expr.let_value \in Expression /\ id \in Symbol
  BY <1>1, <1>2, Subexpressions
<1>4. GoesOn(a) /\ a.at = "rec_value" /\ a.self_id = top.self_id
  BY <1>1, <1>2, GoesOnLabel, SelfStays
<1>5. /\ b \in Placed /\ b.context = top.context /\ b.at = "lambda"
      /\ b.expr = top.expr.let_value /\ b.self_id = id /\ b.i = 0
  <2>1. <<>> \in Seq(Symbol) /\ 0 \in Bytes
    BY BytesWithin
  <2>2. dest \in Bytes
    BY <1>1, TopFacts
  <2> HIDE DEF dest, id
  <2>3. /\ b \in ActivationType /\ b.at = "lambda" /\ b.context = top.context
        /\ b.expr = top.expr.let_value /\ b.self_id = id /\ b.i = 0
    BY <1>1, <1>3, <2>1, <2>2 DEF Activation, ActivationType, ExpressionType
  <2> HIDE DEF b
  <2> QED
    BY <1>2, <2>3 DEF Placed, ExpressionType
<1>6. calls' = Append(Become(a), b)
  BY DEF CompileLetRec
<1> HIDE DEF a, b
<1>7. a \in Placed /\ Become(a) = Append(Front(calls), a)
  BY <1>1, <1>4, Base DEF GoesOn
<1>8. Descends(top, a, b)
  BY <1>1, <1>2, <1>4, <1>5 DEF Descends, GoesOn
<1> QED
  BY <1>5, <1>6, <1>7, <1>8 DEF Descent

\* What else a step does to the stack: it returns, or goes on as a.
Returns == calls' = Front(calls)

Becomes(a) == a \in Placed /\ calls' = Append(Front(calls), a)

\* The steps that call another activation, and those that do not.
LEMMA Descending ==
  ASSUME CompilerInv,
         \/ CompileLet \/ CompileFirst \/ CompileUnary \/ CompileIf \/ LetRecBody
         \/ BindLet \/ CompileSecond \/ CompileThen \/ CompileElse
         \/ CompileTuple \/ NextMember \/ CompileLetRec
  PROVE  Descent
BY DescentsQuiet, DescentsHolding, DescentLetRec

-----------------------------------------------------------------------------
(***************************************************************************)
(* What a stack has: the sum of what its activations have.                 *)
(***************************************************************************)
Gathered(f, s) == UNION { f[s[i]] : i \in 1 .. Len(s) }

\* What those below the j-th have.
Below(f, s, j) == UNION { f[s[i]] : i \in 1 .. j - 1 }

LEMMA GatheredAppend ==
  ASSUME NEW s \in Seq(Placed), NEW a \in Placed, NEW f
  PROVE  Gathered(f, Append(s, a)) = Gathered(f, s) \union f[a]
<1> DEFINE n == Len(s)
           t == Append(s, a)
<1>1. /\ n \in Nat /\ Len(t) = n + 1 /\ t[n + 1] = a
      /\ \A i \in 1 .. n : t[i] = s[i]
  BY AppendProperties, LenProperties
<1>2. /\ \A i \in 1 .. n + 1 : i \in 1 .. n \/ i = n + 1
      /\ \A i \in 1 .. n : i \in 1 .. n + 1
      /\ n + 1 \in 1 .. n + 1
  BY <1>1
<1> HIDE DEF t, n
<1>3. Gathered(f, t) \subseteq Gathered(f, s) \union f[a]
  BY <1>1, <1>2 DEF Gathered, n
<1>4. Gathered(f, s) \union f[a] \subseteq Gathered(f, t)
  BY <1>1, <1>2 DEF Gathered, n
<1> QED
  BY <1>3, <1>4 DEF t

LEMMA GatheredNone == \A f : Gathered(f, <<>>) = {}
<1>1. 1 .. Len(<<>>) = {}
  OBVIOUS
<1> QED
  BY <1>1 DEF Gathered

\* Every activation of s compiles an expression whose rejected parts are in P.
Within(s, P) == \A i \in 1 .. Len(s) : Bad(s[i].expr) \subseteq P

LEMMA WithinAppend ==
  ASSUME NEW s \in Seq(Placed), NEW a \in Placed, NEW P
  PROVE  Within(Append(s, a), P) <=> Within(s, P) /\ Bad(a.expr) \subseteq P
<1> DEFINE n == Len(s)
           t == Append(s, a)
<1>1. /\ n \in Nat /\ Len(t) = n + 1 /\ t[n + 1] = a
      /\ \A i \in 1 .. n : t[i] = s[i]
  BY AppendProperties, LenProperties
<1>2. /\ \A i \in 1 .. n + 1 : i \in 1 .. n \/ i = n + 1
      /\ \A i \in 1 .. n : i \in 1 .. n + 1
      /\ n + 1 \in 1 .. n + 1
  BY <1>1
<1> HIDE DEF t, n
<1> QED
  BY <1>1, <1>2 DEF Within, n, t

-----------------------------------------------------------------------------
(***************************************************************************)
(* Errors.  While there are none, the parts that will be rejected are in   *)
(* what the activations on the stack have not yet compiled.                *)
(***************************************************************************)
Awaited(a) ==
  CASE a.at \in {"enter", "lambda"}         -> Bad(a.expr)
    [] a.at \in {"let_value", "rec_value"}  -> Bad(a.expr.let_body)
    [] a.at = "first"   -> BadNode(a.expr) \union Bad(SecondOperand(a.expr))
    [] a.at \in {"second", "operand"}       -> BadNode(a.expr)
    [] a.at = "if_test" -> Bad(a.expr.if_then) \union Bad(a.expr.if_else)
    [] a.at = "if_then" -> Bad(a.expr.if_else)
    [] OTHER            -> {}

awaited == [a \in Placed |-> Awaited(a)]

ErrorsInv ==
  /\ Within(calls, Bad(program))
  /\ errors > 0 => Bad(program) # {}
  /\ errors = 0 => Bad(program) \subseteq Gathered(awaited, calls)

\* What is awaited of the running activation is awaited of those it becomes.
LEMMA DescentAwaits ==
  ASSUME TreesFinite, TuplesUniform, NEW t \in Placed, NEW a \in Placed,
         NEW b \in Placed, Descends(t, a, b)
  PROVE  /\ Awaited(t) \subseteq Awaited(a) \union Awaited(b)
         /\ Bad(a.expr) \subseteq Bad(t.expr) /\ Bad(b.expr) \subseteq Bad(t.expr)
<1>1. t.expr \in Expression
  BY DEF Placed, ActivationType
<1>2. a.expr = t.expr
  BY DEF Descends
<1> HIDE DEF Bad, BadNode
<1>3. CASE b.at = "enter" /\ Calls(t, a.at, b.expr)
  <2>1. Awaited(b) = Bad(b.expr)
    BY <1>3 DEF Awaited
  <2>2. CASE t.at = "enter" /\ t.expr.type \in {"LET", "UNARY", "TUPLE"}
    BY <1>1, <1>2, <1>3, <2>1, <2>2, BadByType DEF Calls, Awaited
  <2>3. CASE t.at = "enter" /\ t.expr.type \in {"APPLY", "BINARY"}
    BY <1>1, <1>2, <1>3, <2>1, <2>3, BadByType DEF Calls, Awaited
  <2>4. CASE t.at = "enter" /\ t.expr.type = "IF"
    BY <1>1, <1>2, <1>3, <2>1, <2>4, BadByType DEF Calls, Awaited
  <2>5. CASE t.at \in {"let_value", "rec_value"}
    <3>1. t.expr.type \in {"LET", "LETREC"}
      BY <2>5 DEF Placed, ExpressionType
    <3> QED
      BY <1>1, <1>2, <1>3, <2>1, <2>5, <3>1, BadByType DEF Calls, Awaited
  <2>6. CASE t.at = "first"
    <3>1. t.expr.type \in {"APPLY", "BINARY"}
      BY <2>6 DEF Placed, ExpressionType
    <3> QED
      BY <1>1, <1>2, <1>3, <2>1, <2>6, <3>1, BadByType DEF Calls, Awaited
  <2>7. CASE t.at \in {"if_test", "if_then"}
    <3>1. t.expr.type = "IF"
      BY <2>7 DEF Placed, ExpressionType
    <3> QED
      BY <1>1, <1>2, <1>3, <2>1, <2>7, <3>1, BadByType DEF Calls, Awaited
  <2>8. CASE t.at = "member"
    <3>1. t.expr.type = "TUPLE"
      BY <2>8 DEF Placed, ExpressionType
    <3> QED
      BY <1>1, <1>2, <1>3, <2>1, <2>8, <3>1, BadByType DEF Calls, Awaited
  <2> QED
    BY <1>3, <2>2, <2>3, <2>4, <2>5, <2>6, <2>7, <2>8 DEF Calls
<1>4. CASE /\ t.at = "enter" /\ t.expr.type = "LETREC" /\ a.at = "rec_value"
           /\ b.at = "lambda" /\ b.expr = t.expr.let_value
           /\ t.expr.let_value.type = "LAMBDA"
  <2>1. BadNode(t.expr) = {}
    BY <1>4 DEF BadNode, Unsupported
  <2>2. /\ Awaited(b) = Bad(b.expr) /\ Awaited(t) = Bad(t.expr)
        /\ Awaited(a) = Bad(t.expr.let_body)
    BY <1>2, <1>4 DEF Awaited
  <2> QED
    BY <1>1, <1>2, <1>4, <2>1, <2>2, BadByType
<1> QED
  BY <1>3, <1>4 DEF Descends

LEMMA ErrorsDescend ==
  ASSUME TreesFinite, TuplesUniform, CompilerInv, ErrorsInv, calls # <<>>, Descent,
         errors' = errors, program' = program
  PROVE  ErrorsInv'
<1> DEFINE base == Front(calls)
           P == Bad(program)
<1>1. base \in Seq(Placed) /\ calls = Append(base, top) /\ top \in Placed
  BY Base, TopFacts
<1>2. PICK a, b \in Placed : Descends(top, a, b) /\ calls' = Append(Append(base, a), b)
  BY DEF Descent
<1>3. /\ Awaited(top) \subseteq Awaited(a) \union Awaited(b)
      /\ Bad(a.expr) \subseteq Bad(top.expr) /\ Bad(b.expr) \subseteq Bad(top.expr)
  BY <1>1, <1>2, DescentAwaits
<1>4. \A x \in Placed : awaited[x] = Awaited(x)
  BY DEF awaited
<1> HIDE DEF base, P
<1>5. Append(base, a) \in Seq(Placed)
  BY <1>1, AppendProperties
<1>6. /\ Gathered(awaited, calls) = Gathered(awaited, base) \union Awaited(top)
      /\ Gathered(awaited, calls') =
           Gathered(awaited, base) \union Awaited(a) \union Awaited(b)
  <2>1. Gathered(awaited, calls) = Gathered(awaited, base) \union Awaited(top)
    BY <1>1, <1>4, GatheredAppend
  <2>2. Gathered(awaited, Append(base, a)) = Gathered(awaited, base) \union Awaited(a)
    BY <1>1, <1>4, GatheredAppend
  <2>3. Gathered(awaited, Append(Append(base, a), b)) =
          Gathered(awaited, Append(base, a)) \union Awaited(b)
    BY <1>4, <1>5, GatheredAppend
  <2> QED
    BY <1>2, <2>1, <2>2, <2>3
<1>7. Within(base, P) /\ Bad(top.expr) \subseteq P
  BY <1>1, WithinAppend DEF ErrorsInv, P
<1>8. Within(calls', P)
  <2>1. Within(Append(base, a), P)
    BY <1>1, <1>3, <1>7, WithinAppend
  <2>2. Within(Append(Append(base, a), b), P)
    BY <1>3, <1>5, <1>7, <2>1, WithinAppend
  <2> QED
    BY <1>2, <2>2
<1> QED
  BY <1>3, <1>6, <1>8 DEF ErrorsInv, P

\* A step that returns, when nothing more is awaited of the activation or it
\* has reported that it is rejected.
LEMMA ErrorsReturn ==
  ASSUME CompilerInv, ErrorsInv, calls # <<>>, Returns, program' = program,
         \/ errors' = errors /\ Awaited(top) = {}
         \/ errors' = errors + 1 /\ Bad(top.expr) # {}
  PROVE  ErrorsInv'
<1> DEFINE base == Front(calls)
           P == Bad(program)
<1>1. base \in Seq(Placed) /\ calls = Append(base, top) /\ top \in Placed
  BY Base, TopFacts
<1>2. calls' = base /\ errors \in Nat
  BY DEF Returns, CompilerInv
<1> HIDE DEF base, P
<1>3. Gathered(awaited, calls) = Gathered(awaited, base) \union Awaited(top)
  BY <1>1, GatheredAppend DEF awaited
<1>4. Within(base, P) /\ Bad(top.expr) \subseteq P
  BY <1>1, WithinAppend DEF ErrorsInv, P
<1> QED
  BY <1>2, <1>3, <1>4 DEF ErrorsInv, P

\* A step that goes on with the same expression.
LEMMA ErrorsBecome ==
  ASSUME CompilerInv, ErrorsInv, calls # <<>>, NEW a, Becomes(a),
         a.expr = top.expr, Awaited(top) \subseteq Awaited(a),
         errors' = errors, program' = program
  PROVE  ErrorsInv'
<1> DEFINE base == Front(calls)
           P == Bad(program)
<1>1. base \in Seq(Placed) /\ calls = Append(base, top) /\ top \in Placed
  BY Base, TopFacts
<1>2. calls' = Append(base, a) /\ a \in Placed
  BY DEF Becomes
<1> HIDE DEF base, P
<1>3. /\ Gathered(awaited, calls) = Gathered(awaited, base) \union Awaited(top)
      /\ Gathered(awaited, calls') = Gathered(awaited, base) \union Awaited(a)
  BY <1>1, <1>2, GatheredAppend DEF awaited
<1>4. Within(base, P) /\ Bad(top.expr) \subseteq P
  BY <1>1, WithinAppend DEF ErrorsInv, P
<1>5. Within(calls', P)
  BY <1>1, <1>2, <1>4, WithinAppend
<1> QED
  BY <1>3, <1>4, <1>5 DEF ErrorsInv, P

\* The operators without an opcode are those that are rejected.
LEMMA NoCodeRejected ==
  ASSUME NEW e \in Expression
  PROVE  /\ e.type \in {"APPLY", "BINARY"} => (OperatorCode(e) = <<>> <=> Unsupported(e))
         /\ e.type = "UNARY" => (UnaryCode(e) = <<>> <=> Unsupported(e))
<1>1. WellFormed(e, Expression)
  BY CompilerAssumption
<1>2. /\ e.type = "BINARY" =>
           e.binary_operator \in {"PLUS", "MINUS", "STAR", "SLASH", "EQUALS"}
      /\ e.type = "UNARY" => e.unary_operator \in {"PLUS", "MINUS"}
  BY <1>1 DEF WellFormed
<1>3. \A x : <<x>> # <<>>
  OBVIOUS
<1>4. CASE e.type = "APPLY"
  BY <1>3, <1>4 DEF OperatorCode, Unsupported
<1>5. CASE e.type = "BINARY"
  <2>1. /\ e.binary_operator = "PLUS" => OperatorCode(e) = <<OP.ADD>>
        /\ e.binary_operator = "MINUS" => OperatorCode(e) = <<OP.SUB>>
        /\ e.binary_operator = "EQUALS" => OperatorCode(e) = <<OP.EQ>>
        /\ e.binary_operator = "STAR" => OperatorCode(e) = <<OP.MUL>>
        /\ e.binary_operator = "SLASH" => OperatorCode(e) = <<>>
    BY <1>5 DEF OperatorCode
  <2>2. Unsupported(e) <=> e.binary_operator = "SLASH"
    BY <1>5 DEF Unsupported
  <2> QED
    BY <1>2, <1>3, <1>5, <2>1, <2>2
<1>6. CASE e.type = "UNARY"
  BY <1>2, <1>3, <1>6 DEF UnaryCode, Unsupported
<1> QED
  BY <1>4, <1>5, <1>6

LEMMA ErrorsAtReturn ==
  ASSUME TreesFinite, TuplesUniform, CompilerInv, ErrorsInv,
         \/ CompileLiteral \/ CompileIdentifier \/ ReturnClosure \/ EndLet \/ EndIf
         \/ EndTuple \/ FinishModule
  PROVE  ErrorsInv'
<1>1. calls # <<>> /\ Returns /\ errors' = errors /\ program' = program
  BY DEF CompileLiteral, CompileIdentifier, ReturnClosure, EndLet, EndIf, EndTuple,
         FinishModule, Enter, At, Return, Returns
<1>2. top.expr \in Expression
  BY <1>1, TopFacts
<1>3. \/ /\ top.at = "enter"
         /\ top.expr.type \in {"IDENTIFIER", "INTEGER_CONSTANT", "TRUE", "FALSE"}
      \/ top.at \in {"closed", "let_body", "if_else", "member", "module"}
  BY DEF CompileLiteral, CompileIdentifier, ReturnClosure, EndLet, EndIf, EndTuple,
         FinishModule, Enter, At
<1>4. Awaited(top) = {}
  <2> HIDE DEF Bad
  <2> QED
    BY <1>2, <1>3, BadByType DEF Awaited
<1> QED
  BY <1>1, <1>4, ErrorsReturn

LEMMA ErrorsAtOperator ==
  ASSUME TreesFinite, TuplesUniform, CompilerInv, ErrorsInv,
         CompileOperator \/ CompileUnaryOperator \/ RejectLetRec
  PROVE  ErrorsInv'
<1>1. calls # <<>> /\ Returns /\ program' = program
  BY DEF CompileOperator, CompileUnaryOperator, RejectLetRec, Enter, At, Return, Returns
<1>2. top.expr \in Expression /\ top \in Placed
  BY <1>1, TopFacts
<1>3. Unsupported(top.expr) => Bad(top.expr) # {}
  BY <1>2, BadChildren DEF BadNode
<1>4. CASE RejectLetRec
  <2>1. Unsupported(top.expr) /\ errors' = errors + 1
    BY <1>4 DEF RejectLetRec, Enter, Unsupported
  <2> QED
    BY <1>1, <1>3, <2>1, ErrorsReturn
<1>5. CASE CompileOperator
  <2>1. /\ top.at = "second"
        /\ errors' = IF OperatorCode(top.expr) = <<>> THEN errors + 1 ELSE errors
    BY <1>5 DEF CompileOperator, At
  <2>2. top.expr.type \in {"APPLY", "BINARY"}
    BY <1>2, <2>1 DEF Placed, ExpressionType
  <2>3. OperatorCode(top.expr) = <<>> <=> Unsupported(top.expr)
    BY <1>2, <2>2, NoCodeRejected
  <2>4. ~ Unsupported(top.expr) => Awaited(top) = {}
    BY <2>1 DEF Awaited, BadNode
  <2> QED
    BY <1>1, <1>3, <2>1, <2>3, <2>4, ErrorsReturn
<1>6. CASE CompileUnaryOperator
  <2>1. /\ top.at = "operand"
        /\ errors' = IF UnaryCode(top.expr) = <<>> THEN errors + 1 ELSE errors
    BY <1>6 DEF CompileUnaryOperator, At
  <2>2. top.expr.type = "UNARY"
    BY <1>2, <2>1 DEF Placed, ExpressionType
  <2>3. UnaryCode(top.expr) = <<>> <=> Unsupported(top.expr)
    BY <1>2, <2>2, NoCodeRejected
  <2>4. ~ Unsupported(top.expr) => Awaited(top) = {}
    BY <2>1 DEF Awaited, BadNode
  <2> QED
    BY <1>1, <1>3, <2>1, <2>3, <2>4, ErrorsReturn
<1> QED
  BY <1>4, <1>5, <1>6

-----------------------------------------------------------------------------
(***************************************************************************)
(* What the steps of a lambda do to the stack.                             *)
(***************************************************************************)
\* a goes on with the expression of t, in its context.
Continues(a, t) ==
  /\ a \in Placed /\ a.expr = t.expr /\ a.context = t.context /\ a.self_id = t.self_id

LEMMA LambdaShape ==
  ASSUME CompilerInv, CompileLambda
  PROVE  \E a : /\ Continues(a, top) /\ a.at = "lambda" /\ a.i = top.i
                /\ calls' = Append(Front(calls), a)
<1> DEFINE r == context.integer_registers
           a == [top EXCEPT !.at = "lambda", !.reg = r]
<1>1. calls # <<>> /\ top.expr.type = "LAMBDA" /\ calls' = Become(a)
  BY DEF CompileLambda, Enter, At
<1>2. top \in ActivationType /\ r \in Bytes
  BY <1>1, TopFacts
<1> HIDE DEF r
<1>3. /\ a \in ActivationType /\ a.at = "lambda" /\ a.expr = top.expr /\ a.i = top.i
      /\ a.context = top.context /\ a.self_id = top.self_id
  BY <1>2 DEF ActivationType, ExpressionType
<1> HIDE DEF a
<1>4. a \in Placed
  BY <1>1, <1>3 DEF Placed, ExpressionType
<1> QED
  BY <1>1, <1>3, <1>4, Base DEF Continues

LEMMA EnterShape ==
  ASSUME CompilerInv, EnterLambda
  PROVE  \E a, b \in Placed :
           /\ Continues(a, top) /\ a.at = "body" /\ a.i = top.i
           /\ b.at = "enter" /\ b.expr = top.expr.lambda_body /\ b.i = 0
           /\ b.context = top.context + 1 /\ b.self_id = INVALID_SYMBOL
           /\ calls' = Append(Append(Front(calls), a), b)
<1> DEFINE n == Len(functions)
           m == array'
           a == [top EXCEPT !.at = "body", !.array = m, !.func_id = n]
           b == Activation("enter", top.expr.lambda_body, Len(contexts) + 1)
<1>1. Running /\ calls # <<>> /\ top.at = "lambda" /\ calls' = Append(Become(a), b)
  BY DEF EnterLambda, At, Running
<1>2. /\ top \in ActivationType /\ top \in Placed /\ top.expr.type = "LAMBDA"
      /\ top.context = Len(contexts) /\ top.context \in Nat
  BY <1>1, TopFacts, RunningDepth DEF Placed, ActivationType, ExpressionType
<1>3. n \in Nat /\ m \in Nat
  BY LenProperties DEF EnterLambda, AddFunction, CompilerInv
<1>4. /\ b \in Placed /\ b.at = "enter" /\ b.expr = top.expr.lambda_body
      /\ b.context = top.context + 1 /\ b.self_id = INVALID_SYMBOL /\ b.i = 0
  <2>1. top.expr.lambda_body \in Expression /\ top.context + 1 \in Nat
    BY <1>1, <1>2, TopFacts, Subexpressions
  <2> QED
    BY <1>2, <2>1, EnterPlaced DEF Activation
<1> HIDE DEF b, n, m
<1>5. /\ a \in ActivationType /\ a.at = "body" /\ a.expr = top.expr /\ a.i = top.i
      /\ a.context = top.context /\ a.self_id = top.self_id
  BY <1>2, <1>3 DEF ActivationType, ExpressionType
<1> HIDE DEF a
<1>6. a \in Placed
  BY <1>2, <1>5 DEF Placed, ExpressionType
<1>7. Become(a) = Append(Front(calls), a)
  BY <1>1, <1>6, Base
<1> QED
  BY <1>1, <1>4, <1>5, <1>6, <1>7 DEF Continues

LEMMA FinishShape ==
  ASSUME CompilerInv, FinishLambda
  PROVE  \E a : /\ Continues(a, top) /\ a.at = "closed" /\ a.i = top.i
                /\ a.closure = contexts[top.context + 1].closure_symbols
                /\ calls' = Append(Front(calls), a)
<1> DEFINE child == Last(contexts)
           result == FinishCompile(child, ret, top.func_id)
           q == result.closure
           a == [top EXCEPT !.at = "closed", !.closure = q]
<1>1. calls # <<>> /\ top.at = "body" /\ calls' = Become(a)
  BY DEF FinishLambda, At
<1>2. /\ top \in ActivationType /\ top \in Placed /\ top.expr.type = "LAMBDA"
      /\ contexts \in Seq(ContextType)
  BY <1>1, TopFacts DEF CompilerInv, Placed, ExpressionType
<1>3. Len(contexts) = top.context + 1 /\ top.context \in Nat
  BY <1>1, StackTop DEF CompilerInv, InnerContext, top, Placed, ActivationType
<1>4. child = contexts[top.context + 1] /\ child \in ContextType
  <2>1. top.context + 1 \in 1 .. Len(contexts)
    BY <1>3
  <2> QED
    BY <1>2, <1>3, <2>1, ElementOfSeq DEF Last
<1>5. q = child.closure_symbols /\ q \in Seq(Symbol)
  BY <1>4 DEF FinishCompile, ContextType
<1> HIDE DEF q, result, child
<1>6. /\ a \in ActivationType /\ a.at = "closed" /\ a.expr = top.expr /\ a.i = top.i
      /\ a.context = top.context /\ a.self_id = top.self_id /\ a.closure = q
  BY <1>2, <1>5 DEF ActivationType, ExpressionType
<1> HIDE DEF a
<1>7. a \in Placed
  BY <1>2, <1>6 DEF Placed, ExpressionType
<1> QED
  BY <1>1, <1>4, <1>5, <1>6, <1>7, Base DEF Continues

LEMMA CloseShape ==
  ASSUME CompilerInv, CloseVariable
  PROVE  \E a : /\ Continues(a, top) /\ a.at = "closed" /\ a.i = top.i + 1
                /\ a.closure = top.closure
                /\ calls' = Append(Front(calls), a)
<1> DEFINE n == top.i + 1
           a == [top EXCEPT !.i = n]
<1>1. calls # <<>> /\ top.at = "closed" /\ calls' = Become(a)
  BY DEF CloseVariable, At
<1>2. top \in ActivationType /\ top \in Placed /\ n \in Nat
  BY <1>1, TopFacts DEF ActivationType
<1> HIDE DEF n
<1>3. /\ a \in ActivationType /\ a.at = "closed" /\ a.expr = top.expr /\ a.i = n
      /\ a.context = top.context /\ a.self_id = top.self_id /\ a.closure = top.closure
  BY <1>1, <1>2 DEF ActivationType
<1> HIDE DEF a
<1>4. a \in Placed
  BY <1>1, <1>2, <1>3 DEF Placed
<1> QED
  BY <1>1, <1>3, <1>4, Base DEF Continues, n

-----------------------------------------------------------------------------
LEMMA ErrorsAtLambda ==
  ASSUME TreesFinite, TuplesUniform, CompilerInv, ErrorsInv,
         CompileLambda \/ FinishLambda \/ CloseVariable
  PROVE  ErrorsInv'
<1>1. calls # <<>> /\ errors' = errors /\ program' = program
  BY DEF CompileLambda, FinishLambda, CloseVariable, Enter, At
<1>2. CASE CompileLambda
  <2>1. PICK a : /\ Continues(a, top) /\ a.at = "lambda"
                 /\ calls' = Append(Front(calls), a)
    BY <1>2, LambdaShape
  <2>2. top.at = "enter"
    BY <1>2 DEF CompileLambda, Enter, At
  <2> QED
    BY <1>1, <2>1, <2>2, ErrorsBecome DEF Continues, Becomes, Awaited
<1>3. CASE FinishLambda \/ CloseVariable
  <2>1. PICK a : Continues(a, top) /\ calls' = Append(Front(calls), a)
    BY <1>3, FinishShape, CloseShape
  <2>2. top.at \in {"body", "closed"}
    BY <1>3 DEF FinishLambda, CloseVariable, At
  <2>3. Awaited(top) = {}
    BY <2>2 DEF Awaited
  <2> QED
    BY <1>1, <2>1, <2>3, ErrorsBecome DEF Continues, Becomes
<1> QED
  BY <1>2, <1>3

LEMMA ErrorsAtBody ==
  ASSUME TreesFinite, TuplesUniform, CompilerInv, ErrorsInv, EnterLambda
  PROVE  ErrorsInv'
<1> DEFINE base == Front(calls)
           P == Bad(program)
<1>1. calls # <<>> /\ errors' = errors /\ program' = program /\ top.at = "lambda"
  BY DEF EnterLambda, At
<1>2. base \in Seq(Placed) /\ calls = Append(base, top) /\ top \in Placed
      /\ top.expr \in Expression /\ top.expr.type = "LAMBDA"
  BY <1>1, Base, TopFacts DEF Placed, ExpressionType
<1>3. PICK a, b \in Placed :
        /\ Continues(a, top) /\ a.at = "body"
        /\ b.at = "enter" /\ b.expr = top.expr.lambda_body
        /\ calls' = Append(Append(base, a), b)
  BY EnterShape
<1> HIDE DEF base, P
<1>4. Bad(b.expr) = Bad(top.expr) /\ a.expr = top.expr
  <2> HIDE DEF Bad
  <2> QED
    BY <1>2, <1>3, BadByType DEF Continues
<1>5. Awaited(top) = Bad(top.expr) /\ Awaited(b) = Bad(b.expr)
  BY <1>1, <1>3 DEF Awaited
<1>6. \A x \in Placed : awaited[x] = Awaited(x)
  BY DEF awaited
<1>7. Append(base, a) \in Seq(Placed)
  BY <1>2, AppendProperties
<1>8. Gathered(awaited, calls) = Gathered(awaited, base) \union Awaited(top)
  BY <1>2, <1>6, GatheredAppend
<1>9. Gathered(awaited, base) \union Awaited(b) \subseteq Gathered(awaited, calls')
  <2>1. Gathered(awaited, base) \subseteq Gathered(awaited, Append(base, a))
    BY <1>2, GatheredAppend
  <2>2. Gathered(awaited, Append(Append(base, a), b)) =
          Gathered(awaited, Append(base, a)) \union Awaited(b)
    BY <1>6, <1>7, GatheredAppend
  <2> QED
    BY <1>3, <2>1, <2>2
<1>10. Within(base, P) /\ Bad(top.expr) \subseteq P
  BY <1>2, WithinAppend DEF ErrorsInv, P
<1>11. Within(calls', P)
  <2>1. Within(Append(base, a), P)
    BY <1>2, <1>4, <1>10, WithinAppend
  <2>2. Within(Append(Append(base, a), b), P)
    BY <1>4, <1>7, <1>10, <2>1, WithinAppend
  <2> QED
    BY <1>3, <2>2
<1> QED
  BY <1>1, <1>4, <1>5, <1>8, <1>9, <1>11 DEF ErrorsInv, P

LEMMA ErrorsFirst == Init => ErrorsInv
<1> SUFFICES ASSUME Init PROVE ErrorsInv
  OBVIOUS
<1> DEFINE a == calls[1]
           b == calls[2]
<1>1. /\ calls \in Seq(Placed) /\ Len(calls) = 2 /\ errors = 0
      /\ a \in Placed /\ b \in Placed
  <2>1. Stack(calls)
    BY CompilerInit DEF CompilerInv
  <2>2. Len(calls) = 2 /\ errors = 0
    BY DEF Init
  <2> QED
    BY <2>1, <2>2, ElementOfSeq DEF Stack
<1>2. a.expr = program /\ b.expr = program /\ b.at = "enter"
  BY DEF Init, Activation
<1>3. awaited[b] = Bad(program)
  BY <1>1, <1>2 DEF awaited, Awaited
<1>4. 1 .. 2 = {1, 2}
  OBVIOUS
<1>5. Within(calls, Bad(program))
  BY <1>1, <1>2, <1>4 DEF Within
<1>6. Bad(program) \subseteq Gathered(awaited, calls)
  BY <1>1, <1>3, <1>4 DEF Gathered
<1> QED
  BY <1>1, <1>5, <1>6 DEF ErrorsInv

LEMMA ErrorsKept ==
  ASSUME TreesFinite, TuplesUniform, CompilerInv, ErrorsInv, [CompileNext]_vars
  PROVE  ErrorsInv'
<1>1. CASE UNCHANGED vars
  BY <1>1 DEF vars, ErrorsInv, Within, Gathered
<1>2. CASE \/ CompileLet \/ CompileFirst \/ CompileUnary \/ CompileIf \/ LetRecBody
           \/ BindLet \/ CompileSecond \/ CompileThen \/ CompileElse
           \/ CompileTuple \/ NextMember \/ CompileLetRec
  <2>1. calls # <<>> /\ errors' = errors /\ program' = program
    BY <1>2 DEF CompileLet, CompileFirst, CompileUnary, CompileIf, LetRecBody, BindLet,
                CompileSecond, CompileThen, CompileElse, CompileTuple, NextMember,
                CompileLetRec, Enter, At
  <2> QED
    BY <1>2, <2>1, Descending, ErrorsDescend
<1>3. CASE \/ CompileLiteral \/ CompileIdentifier \/ ReturnClosure \/ EndLet \/ EndIf
           \/ EndTuple \/ FinishModule
  BY <1>3, ErrorsAtReturn
<1>4. CASE CompileOperator \/ CompileUnaryOperator \/ RejectLetRec
  BY <1>4, ErrorsAtOperator
<1>5. CASE CompileLambda \/ FinishLambda \/ CloseVariable
  BY <1>5, ErrorsAtLambda
<1>6. CASE EnterLambda
  BY <1>6, ErrorsAtBody
<1> QED
  BY <1>1, <1>2, <1>3, <1>4, <1>5, <1>6 DEF CompileNext

\* Whatever the program, compilation ends with an error reported exactly when
\* a division, a unary plus or a let rec of something that is no function
\* occurs in it: the code of no such part is left out of the compiler's walk,
\* and nothing else is rejected (_CompileBinaryExpressionImpl,
\* _CompileUnaryExpressionImpl and _CompileLetRecImpl, compiler.c).
THEOREM ErrorsAlwaysExact ==
  ASSUME TreesFinite, TuplesUniform
  PROVE  CompileSpec => []ErrorsAreExact
<1>1. Init => CompilerInv /\ ErrorsInv
  BY CompilerInit, ErrorsFirst
<1>2. CompilerInv /\ ErrorsInv /\ [CompileNext]_vars => (CompilerInv /\ ErrorsInv)'
  BY CompilerStep, ErrorsKept
<1>3. CompilerInv /\ ErrorsInv => ErrorsAreExact
  <2> SUFFICES ASSUME CompilerInv, ErrorsInv, calls = <<>>
               PROVE  errors > 0 <=> \E e \in parts[program] : Unsupported(e)
    BY DEF ErrorsAreExact, Compiled
  <2>1. Gathered(awaited, calls) = {}
    BY GatheredNone
  <2>2. errors \in Nat
    BY DEF CompilerInv
  <2> QED
    BY <2>1, <2>2 DEF ErrorsInv, Bad
<1> QED
  BY <1>1, <1>2, <1>3, PTL DEF CompileSpec

-----------------------------------------------------------------------------
(***************************************************************************)
(* Closures.  What they close over: the names of which the closure of a    *)
(* lambda on the stack is to be made, by the context of its body.          *)
(***************************************************************************)
\* The free variables of the lambda whose body context d is for.
Opened(a, d) ==
  IF a.at = "body" /\ a.context + 1 = d
  THEN freeVariables[a.expr] \ {a.self_id} ELSE {}

opened(d) == [a \in Placed |-> Opened(a, d)]
Wanted(s, d) == Gathered(opened(d), s)

\* The names that an activation of context d above s may use.
binders(d) == [a \in Placed |-> ToSet(Binders(a, d))]
known(d) == [a \in Placed |-> Opened(a, d) \union ToSet(Binders(a, d))]
Known(s, d) == Gathered(known(d), s)

KnownBelow(s, j, d) == Below(known(d), s, j)

Reads(s) ==
  \A j \in 1 .. Len(s) :
    freeVariables[s[j].expr] \subseteq KnownBelow(s, j, s[j].context)

\* The elements of s differ.
Distinct(s) == IsInjective(s)

\* A closure that is filled in holds free variables, each once.
Holds(a) ==
  a.at = "closed" => /\ Distinct(a.closure)
                     /\ ToSet(a.closure) \subseteq freeVariables[a.expr] \ {a.self_id}

Holding(s) == \A j \in 1 .. Len(s) : Holds(s[j])

HoldsInv ==
  /\ Reads(calls) /\ Holding(calls)
  /\ \A d \in 1 .. Len(contexts) :
       /\ Distinct(contexts[d].closure_symbols)
       /\ ToSet(contexts[d].closure_symbols) \subseteq Wanted(calls, d)

-----------------------------------------------------------------------------
\* The names that an activation and those it has yet to call bind.
Coming(a) ==
  CASE a.at \in {"enter", "lambda"} -> boundNames[a.expr]
    [] a.at \in {"let_value", "rec_value"} ->
         {a.expr.let_id} \union boundNames[a.expr.let_body]
    [] a.at = "let_body" -> {a.expr.let_id}
    [] a.at = "body"     -> {a.expr.lambda_id}
    [] a.at = "first"    -> boundNames[SecondOperand(a.expr)]
    [] a.at = "if_test"  -> boundNames[a.expr.if_then] \union boundNames[a.expr.if_else]
    [] a.at = "if_then"  -> boundNames[a.expr.if_else]
    [] OTHER             -> {}

coming == [a \in Placed |-> Coming(a)]
ComingOf(s) == Gathered(coming, s)

ComingBelow(s, j) == Below(coming, s, j)
Apart(s) == \A j \in 1 .. Len(s) : coming[s[j]] \intersect ComingBelow(s, j) = {}

\* The names in the entries of a bindings array from n on.
Entries(bindings, n) ==
  { bindings[k].symbol : k \in { j \in DOMAIN bindings : j >= n } }

\* The names whose bindings are over, but still in a bindings array.
Buried(c) == Entries(c.bindings, c.binding_top + 1)

Spent == (UNION { Buried(contexts[d]) : d \in 1 .. Len(contexts) })
           \union UNION { Entries(f, 2) : f \in freed }

\* Every part of e binds a name of its own.
Tame(e) == \A u \in parts[e] : BindsOnce(u)

AllTame(s) == \A j \in 1 .. Len(s) : Tame(s[j].expr)

SpentInv ==
  /\ AllTame(calls) /\ Apart(calls)
  /\ Spent \intersect ComingOf(calls) = {}

-----------------------------------------------------------------------------
\* The free variables that an activation has yet to look up in context d.
Asked(a, d) ==
  IF a.context # d THEN {} ELSE
  CASE a.at \in {"enter", "lambda", "body"} -> freeVariables[a.expr] \ {a.self_id}
    [] a.at \in {"let_value", "rec_value"} ->
         freeVariables[a.expr.let_body] \ {a.expr.let_id}
    [] a.at = "first"   -> freeVariables[SecondOperand(a.expr)]
    [] a.at = "if_test" ->
         freeVariables[a.expr.if_then] \union freeVariables[a.expr.if_else]
    [] a.at = "if_then" -> freeVariables[a.expr.if_else]
    [] a.at = "closed"  ->
         { a.closure[k] : k \in { j \in DOMAIN a.closure : j > a.i } }
    [] OTHER            -> {}

asked(d) == [a \in Placed |-> Asked(a, d)]

\* A closure that is to be filled in has them all, if there are n = 0 errors.
Full(a, n) ==
  /\ a.at \in {"enter", "lambda", "body"} => a.i = 0
  /\ a.at = "closed" /\ n = 0 =>
       freeVariables[a.expr] \ {a.self_id} \subseteq ToSet(a.closure)

AllFull(s, n) == \A j \in 1 .. Len(s) : Full(s[j], n)

CoversInv ==
  /\ AllFull(calls, errors)
  /\ errors = 0 => \A d \in 1 .. Len(contexts) :
       Wanted(calls, d) \subseteq
         ToSet(contexts[d].closure_symbols) \union Gathered(asked(d), calls)

-----------------------------------------------------------------------------
(***************************************************************************)
(* One activation more.                                                    *)
(***************************************************************************)
LEMMA WantedAppend ==
  ASSUME NEW s \in Seq(Placed), NEW a \in Placed, NEW d
  PROVE  /\ Wanted(Append(s, a), d) = Wanted(s, d) \union Opened(a, d)
         /\ Known(Append(s, a), d) =
              Known(s, d) \union Opened(a, d) \union ToSet(Binders(a, d))
         /\ ComingOf(Append(s, a)) = ComingOf(s) \union Coming(a)
         /\ Gathered(asked(d), Append(s, a)) = Gathered(asked(d), s) \union Asked(a, d)
<1>1. /\ opened(d)[a] = Opened(a, d)
      /\ known(d)[a] = Opened(a, d) \union ToSet(Binders(a, d))
      /\ coming[a] = Coming(a) /\ asked(d)[a] = Asked(a, d)
  BY DEF opened, known, coming, asked
<1> QED
  BY <1>1, GatheredAppend DEF Wanted, Known, ComingOf

LEMMA BelowAppend ==
  ASSUME NEW s \in Seq(Placed), NEW a \in Placed, NEW f
  PROVE  /\ Below(f, Append(s, a), Len(s) + 1) = Gathered(f, s)
         /\ \A j \in 1 .. Len(s) : Below(f, Append(s, a), j) = Below(f, s, j)
<1> DEFINE n == Len(s)
           t == Append(s, a)
<1>1. n \in Nat /\ \A i \in 1 .. n : t[i] = s[i]
  BY AppendProperties, LenProperties
<1>2. n + 1 - 1 = n /\ \A i \in 1 .. n : \A k \in 1 .. i - 1 : k \in 1 .. n
  BY <1>1
<1> HIDE DEF t, n
<1>3. Below(f, t, n + 1) = Gathered(f, s)
  <2> DEFINE m == n + 1
  <2>3. m - 1 = n
    BY <1>1
  <2> HIDE DEF m
  <2>1. Below(f, t, m) = UNION { f[t[i]] : i \in 1 .. n }
    BY <2>3 DEF Below
  <2>2. UNION { f[t[i]] : i \in 1 .. n } = UNION { f[s[i]] : i \in 1 .. n }
    BY <1>1
  <2> QED
    BY <2>1, <2>2 DEF Gathered, n, m
<1>4. ASSUME NEW j \in 1 .. n PROVE Below(f, t, j) = Below(f, s, j)
  BY <1>1, <1>2 DEF Below
<1> QED
  BY <1>3, <1>4 DEF n, t

LEMMA SequencesAppend ==
  ASSUME NEW s \in Seq(Placed), NEW a \in Placed
  PROVE  /\ Reads(Append(s, a)) <=>
              /\ Reads(s)
              /\ freeVariables[a.expr] \subseteq Known(s, a.context)
         /\ Holding(Append(s, a)) <=> Holding(s) /\ Holds(a)
         /\ Apart(Append(s, a)) <=> Apart(s) /\ Coming(a) \intersect ComingOf(s) = {}
<1> DEFINE n == Len(s)
           t == Append(s, a)
<1>1. /\ n \in Nat /\ Len(t) = n + 1 /\ t[n + 1] = a
      /\ \A i \in 1 .. n : t[i] = s[i]
  BY AppendProperties, LenProperties
<1>2. /\ \A i \in 1 .. n + 1 : i \in 1 .. n \/ i = n + 1
      /\ \A i \in 1 .. n : i \in 1 .. n + 1
      /\ n + 1 \in 1 .. n + 1 /\ n + 1 - 1 = n
      /\ \A i \in 1 .. n : \A k \in 1 .. i - 1 : k \in 1 .. n
  BY <1>1
<1> HIDE DEF t, n
<1>3. Holding(t) <=> Holding(s) /\ Holds(a)
  BY <1>1, <1>2 DEF Holding, n
<1>4. \A d : /\ KnownBelow(t, n + 1, d) = Known(s, d)
             /\ \A j \in 1 .. n : KnownBelow(t, j, d) = KnownBelow(s, j, d)
  BY BelowAppend DEF KnownBelow, Known, t, n
<1>5. Reads(t) <=> Reads(s) /\ freeVariables[a.expr] \subseteq Known(s, a.context)
  BY <1>1, <1>2, <1>4 DEF Reads, n
<1>6. /\ ComingBelow(t, n + 1) = ComingOf(s)
      /\ \A j \in 1 .. n : ComingBelow(t, j) = ComingBelow(s, j)
  BY BelowAppend DEF ComingBelow, ComingOf, t, n
<1>7. coming[a] = Coming(a)
  BY DEF coming
<1>8. Apart(t) <=> Apart(s) /\ Coming(a) \intersect ComingOf(s) = {}
  BY <1>1, <1>2, <1>6, <1>7 DEF Apart, n
<1> QED
  BY <1>3, <1>5, <1>8 DEF t

\* The list of the names in scope, as a set.
NamesAre(s, d) == ToSet(NamesInScope(s, d)) = Gathered(binders(d), s)

LEMMA NamesGathered ==
  ASSUME NEW s \in Seq(Placed), NEW d
  PROVE  NamesAre(s, d)
<1> DEFINE Fails == { m \in Nat : \E t \in Seq(Placed) : Len(t) = m /\ ~ NamesAre(t, d) }
<1>1. ASSUME Fails # {} PROVE FALSE
  <2>1. PICK m \in Fails : \A k \in Fails : m <= k
    <3>1. Fails \in SUBSET Nat
      OBVIOUS
    <3> HIDE DEF Fails
    <3> QED
      BY <1>1, <3>1, LeastNatural
  <2>2. PICK t \in Seq(Placed) : Len(t) = m /\ ~ NamesAre(t, d)
    OBVIOUS
  <2>3. CASE t = <<>>
    <3>1. ToSet(<<>>) = {}
      BY DEF ToSet
    <3> QED
      BY <2>2, <2>3, <3>1, NoNames, GatheredNone DEF NamesAre
  <2>4. CASE t # <<>>
    <3>1. PICK u \in Seq(Placed), a \in Placed : t = Append(u, a)
      BY <2>4, SequenceEmptyOrAppend
    <3>2. Len(u) \in Nat /\ m = Len(u) + 1
      BY <2>2, <3>1, AppendProperties, LenProperties
    <3>3. NamesAre(u, d)
      <4>1. Len(u) \notin Fails
        <5> HIDE DEF Fails
        <5> QED
          BY <2>1, <3>2
      <4> QED
        BY <3>2, <4>1
    <3> HIDE DEF Fails
    <3>4. /\ NamesInScope(u, d) \in Seq(Symbol) /\ Binders(a, d) \in Seq(Symbol)
          /\ NamesInScope(t, d) = NamesInScope(u, d) \o Binders(a, d)
      BY <3>1, ScopeAppend, BindersType
    <3>5. ToSet(NamesInScope(t, d)) = ToSet(NamesInScope(u, d)) \union ToSet(Binders(a, d))
      BY <3>4, ToSetConcat
    <3>6. binders(d)[a] = ToSet(Binders(a, d))
      BY DEF binders
    <3>7. Gathered(binders(d), t) = Gathered(binders(d), u) \union binders(d)[a]
      BY <3>1, GatheredAppend
    <3> QED
      BY <2>2, <3>3, <3>5, <3>6, <3>7 DEF NamesAre
  <2> QED
    BY <2>3, <2>4
<1> QED
  BY <1>1, LenProperties

LEMMA KnownIs ==
  ASSUME NEW s \in Seq(Placed), NEW d
  PROVE  Known(s, d) = Wanted(s, d) \union ToSet(NamesInScope(s, d))
<1>1. ToSet(NamesInScope(s, d)) = Gathered(binders(d), s)
  BY NamesGathered DEF NamesAre
<1>2. \A i \in 1 .. Len(s) : s[i] \in Placed
  BY ElementOfSeq
<1>3. \A i \in 1 .. Len(s) : known(d)[s[i]] = opened(d)[s[i]] \union binders(d)[s[i]]
  BY <1>2 DEF known, opened, binders
<1> DEFINE k == known(d)
           o == opened(d)
           b == binders(d)
<1> HIDE DEF k, o, b
<1>4. ASSUME \A i \in 1 .. Len(s) : k[s[i]] = o[s[i]] \union b[s[i]]
      PROVE  Gathered(k, s) = Gathered(o, s) \union Gathered(b, s)
  BY <1>4 DEF Gathered
<1> QED
  BY <1>1, <1>3, <1>4 DEF Known, Wanted, k, o, b

-----------------------------------------------------------------------------
(***************************************************************************)
(* What a step does to the contexts.  A tidy one, in the running context,  *)
(* closes over nothing, and ends no binding.                               *)
(***************************************************************************)
\* The running context becomes c.
Updated(c) ==
  /\ Len(contexts') = Len(contexts)
  /\ \A d \in 1 .. Len(contexts) :
       contexts'[d] = IF d = top.context THEN c ELSE contexts[d]

Tidies(b, c) ==
  c.closure_symbols = b.closure_symbols /\ Buried(c) \subseteq Buried(b)

Tidy == \E c : Updated(c) /\ Tidies(context, c)

LEMMA ContextUpdated ==
  ASSUME CompilerInv, NEW c, SetContext(c)
  PROVE  Updated(c)
<1> DEFINE n == Len(contexts)
<1>1. contexts \in Seq(ContextType) /\ n \in Nat /\ DOMAIN contexts = 1 .. n
  BY LenProperties DEF CompilerInv
<1>2. /\ contexts' \in [1 .. n -> ContextType \union {c}]
      /\ \A d \in 1 .. n : contexts'[d] = IF d = top.context THEN c ELSE contexts[d]
  BY <1>1, LenProperties DEF SetContext
<1>3. Len(contexts') = n
  <2>1. contexts' \in Seq(ContextType \union {c}) /\ DOMAIN contexts' = 1 .. n
    BY <1>1, <1>2, SeqDef
  <2> QED
    BY <1>1, <2>1, LenProperties
<1> QED
  BY <1>2, <1>3 DEF Updated

LEMMA SameScopeTidies ==
  ASSUME NEW b, NEW c, SameScope(b, c)
  PROVE  Tidies(b, c)
BY DEF SameScope, SameBindings, Tidies, Buried

\* Binding a name writes over the first entry that is not live.
LEMMA PushBuries ==
  ASSUME NEW c \in ContextType, c.binding_top \in Nat, c.binding_top <= Len(c.bindings),
         NEW id \in Symbol, NEW r \in Bytes
  PROVE  /\ Buried(PushBinding(c, id, r)) \subseteq Entries(c.bindings, c.binding_top + 2)
         /\ PushBinding(c, id, r).closure_symbols = c.closure_symbols
         /\ PushBinding(c, id, r).binding_top = c.binding_top + 1
         /\ \A k \in DOMAIN PushBinding(c, id, r).bindings : k > c.binding_top + 1 =>
              k \in DOMAIN c.bindings /\ PushBinding(c, id, r).bindings[k] = c.bindings[k]
<1> DEFINE b == [symbol |-> id, reg |-> r]
           n == c.binding_top
           d == PushBinding(c, id, r)
           s == IF n < Len(c.bindings) THEN [c.bindings EXCEPT ![n + 1] = b]
                                       ELSE Append(c.bindings, b)
<1>1. b \in Binding
  BY DEF Binding
<1>2. /\ c.bindings \in Seq(Binding) /\ n \in Nat /\ Len(c.bindings) \in Nat
      /\ DOMAIN c.bindings = 1 .. Len(c.bindings) /\ n <= Len(c.bindings)
  BY LenProperties DEF ContextType
<1>3. /\ d.binding_top = n + 1 /\ d.bindings = s
      /\ d.closure_symbols = c.closure_symbols
  BY DEF PushBinding, ContextType
<1> HIDE DEF b, d, n
<1>4. \A k \in DOMAIN s : k > n + 1 => k \in DOMAIN c.bindings /\ s[k] = c.bindings[k]
  <2>1. CASE n < Len(c.bindings)
    <3>1. s = [c.bindings EXCEPT ![n + 1] = b]
      BY <2>1
    <3>2. DOMAIN s = DOMAIN c.bindings
      BY <1>1, <1>2, <3>1, ExceptSeq
    <3> QED
      BY <1>2, <3>1, <3>2
  <2>2. CASE ~ (n < Len(c.bindings))
    <3>1. s = Append(c.bindings, b) /\ n = Len(c.bindings)
      BY <1>2, <2>2
    <3>2. DOMAIN s = 1 .. n + 1
      <4> HIDE DEF s
      <4> QED
        BY <1>1, <1>2, <3>1, AppendProperties, LenProperties
    <3> QED
      BY <1>2, <3>2
  <2> QED
    BY <2>1, <2>2
<1> HIDE DEF s
<1>5. \A k \in DOMAIN s : k >= n + 1 + 1 => k > n + 1 /\ k >= n + 2
  <2>1. DOMAIN s \subseteq Int
    <3>1. s \in Seq(Binding)
      BY <1>1, <1>2, AppendProperties, ExceptSeq DEF s
    <3> QED
      BY <3>1, LenProperties
  <2> QED
    BY <1>2, <2>1
<1>6. Buried(d) \subseteq Entries(c.bindings, n + 2)
  <2> SUFFICES ASSUME NEW x \in Buried(d) PROVE x \in Entries(c.bindings, n + 2)
    OBVIOUS
  <2>1. PICK k \in DOMAIN s : k >= n + 1 + 1 /\ x = s[k].symbol
    BY <1>3 DEF Buried, Entries
  <2>2. k > n + 1 /\ k >= n + 2
    BY <1>5, <2>1
  <2>3. k \in DOMAIN c.bindings /\ x = c.bindings[k].symbol
    BY <1>4, <2>1, <2>2
  <2> QED
    BY <2>2, <2>3 DEF Entries
<1> QED
  BY <1>3, <1>4, <1>6 DEF d, n

LEMMA PushTidies ==
  ASSUME NEW c \in ContextType, c.binding_top \in Nat, c.binding_top <= Len(c.bindings),
         NEW id \in Symbol, NEW r \in Bytes
  PROVE  Tidies(c, PushBinding(c, id, r))
<1>1. Entries(c.bindings, c.binding_top + 2) \subseteq Entries(c.bindings, c.binding_top + 1)
  <2>1. DOMAIN c.bindings \subseteq Int
    BY LenProperties DEF ContextType
  <2>2. \A k \in DOMAIN c.bindings : k >= c.binding_top + 2 => k >= c.binding_top + 1
    BY <2>1
  <2> QED
    BY <2>2 DEF Entries
<1> QED
  BY <1>1, PushBuries DEF Tidies, Buried

LEMMA TidyWrites ==
  ASSUME CompilerInv,
         \/ CompileLambda \/ CompileThen \/ CompileElse \/ CompileTuple \/ NextMember
         \/ CompileLiteral \/ RejectLetRec \/ CompileOperator \/ CompileUnaryOperator
         \/ EndIf \/ EndTuple
  PROVE  Tidy
<1>1. Running
  BY DEF CompileLambda, CompileThen, CompileElse, CompileTuple, NextMember,
         CompileLiteral, RejectLetRec, CompileOperator, CompileUnaryOperator,
         EndIf, EndTuple, Enter, At, Running
<1>2. Shape(context)
  BY <1>1, RunningContext
<1>3. ASSUME NEW c, SameScope(context, c), SetContext(c)
      PROVE  Tidy
  BY <1>3, ContextUpdated, SameScopeTidies DEF Tidy
<1>4. CASE CompileLambda
  BY <1>2, <1>3, <1>4, HelpersKeepScope DEF CompileLambda
<1>5. CASE CompileThen
  BY <1>2, <1>3, <1>5, QuietContexts DEF CompileThen
<1>6. CASE CompileElse
  BY <1>2, <1>3, <1>6, QuietContexts DEF CompileElse
<1>7. CASE CompileTuple
  <2> DEFINE len == context.integer_registers
             loaded == WriteLoadLiteral(context, top.expr.tuple_length)
             out == loaded.integer_registers
             bytes == <<OP.NEW_TUPLE, len, out>>
  <2>1. SetContext(WriteCode(GetFreeIntRegister(loaded), bytes))
    BY <1>7 DEF CompileTuple
  <2> HIDE DEF bytes
  <2>2. SameScope(context, WriteCode(GetFreeIntRegister(loaded), bytes))
    BY <1>2, QuietContexts
  <2> QED
    BY <1>3, <2>1, <2>2
<1>8. CASE NextMember
  BY <1>2, <1>3, <1>8, QuietContexts DEF NextMember, StoreMember
<1>9. CASE CompileLiteral
  BY <1>2, <1>3, <1>9, HelpersKeepScope DEF CompileLiteral
<1>10. CASE RejectLetRec
  BY <1>2, <1>3, <1>10, HelpersKeepScope DEF RejectLetRec
<1>11. CASE CompileOperator
  BY <1>2, <1>3, <1>11, QuietContexts DEF CompileOperator
<1>12. CASE CompileUnaryOperator
  BY <1>2, <1>3, <1>12, QuietContexts DEF CompileUnaryOperator
<1>13. CASE EndIf
  <2> DEFINE move == IF ret # top.reg THEN <<OP.MOV, ret, top.reg>> ELSE <<>>
  <2>1. SetContext(PatchJump(WriteCode(context, move), top.loc))
    BY <1>13 DEF EndIf
  <2> HIDE DEF move
  <2> QED
    BY <1>2, <1>3, <2>1, QuietContexts
<1>14. CASE EndTuple
  BY <1>2, <1>3, <1>14, QuietContexts DEF EndTuple, StoreMember
<1> QED
  BY <1>4, <1>5, <1>6, <1>7, <1>8, <1>9, <1>10, <1>11, <1>12, <1>13, <1>14

LEMMA TidyReads ==
  ASSUME CompilerInv,
         \/ CompileLet \/ CompileFirst \/ CompileUnary \/ CompileIf \/ LetRecBody
         \/ CompileSecond \/ ReturnClosure
  PROVE  Tidy
<1>1. Running /\ contexts' = contexts
  BY DEF CompileLet, CompileFirst, CompileUnary, CompileIf, LetRecBody, CompileSecond,
         ReturnClosure, Enter, At, Running
<1> QED
  BY <1>1, ContextUnchanged, ContextUpdated, SameScopeTidies DEF Tidy

LEMMA TidyBinds ==
  ASSUME CompilerInv, ScopesInv, BindLet \/ CompileLetRec
  PROVE  Tidy
<1>1. Running /\ calls # <<>> /\ top \in Placed /\ top.expr \in Expression
      /\ context \in ContextType /\ context.integer_registers \in Bytes /\ ret \in Bytes
  BY TopFacts DEF BindLet, CompileLetRec, Enter, At, Running
<1>2. context.binding_top \in Nat /\ context.binding_top <= Len(context.bindings)
  BY <1>1, RunningScope DEF HasBound
<1>3. top.expr.let_id \in Symbol
  <2>1. top.expr.type \in {"LET", "LETREC"}
    BY <1>1 DEF BindLet, CompileLetRec, Enter, At, Placed, ExpressionType
  <2> QED
    BY <1>1, <2>1, Subexpressions
<1>4. CASE BindLet
  <2>1. SetContext(PushBinding(context, top.expr.let_id, ret))
    BY <1>4 DEF BindLet
  <2> QED
    BY <1>1, <1>2, <1>3, <2>1, ContextUpdated, PushTidies DEF Tidy
<1>5. CASE CompileLetRec
  <2> DEFINE c == GetFreeIntRegister(context)
             r == context.integer_registers
  <2>1. SetContext(PushBinding(c, top.expr.let_id, r))
    BY <1>5 DEF CompileLetRec
  <2>2. c \in ContextType /\ SameScope(context, c)
    BY <1>1, GetFreeIntRegisterType, HelpersKeepScope, ContextShape
  <2> HIDE DEF c
  <2>3. c.binding_top \in Nat /\ c.binding_top <= Len(c.bindings)
    BY <1>2, <2>2 DEF SameScope, SameBindings
  <2>4. Tidies(context, c) /\ Tidies(c, PushBinding(c, top.expr.let_id, r))
    BY <1>1, <1>3, <2>2, <2>3, PushTidies, SameScopeTidies
  <2>5. Tidies(context, PushBinding(c, top.expr.let_id, r))
    BY <2>4 DEF Tidies
  <2> QED
    BY <2>1, <2>5, ContextUpdated DEF Tidy
<1> QED
  BY <1>4, <1>5

\* The steps that are tidy, and what they do to the stack.
LEMMA TidyDescents ==
  ASSUME CompilerInv, ScopesInv,
         \/ CompileLet \/ CompileFirst \/ CompileUnary \/ CompileIf \/ LetRecBody
         \/ BindLet \/ CompileSecond \/ CompileThen \/ CompileElse
         \/ CompileTuple \/ NextMember \/ CompileLetRec
  PROVE  /\ Tidy /\ Descent /\ Running
         /\ program' = program /\ errors' = errors /\ freed' = freed
<1>1. /\ program' = program /\ errors' = errors /\ freed' = freed /\ Running
  BY DEF CompileLet, CompileFirst, CompileUnary, CompileIf, LetRecBody, BindLet,
         CompileSecond, CompileThen, CompileElse, CompileTuple, NextMember,
         CompileLetRec, Enter, At, Running
<1>2. Tidy
  BY TidyWrites, TidyReads, TidyBinds
<1> QED
  BY <1>1, <1>2, Descending

\* A step that returns, and asks for no more variables.
LEMMA TidyReturns ==
  ASSUME CompilerInv,
         \/ CompileLiteral \/ RejectLetRec \/ CompileOperator \/ CompileUnaryOperator
         \/ EndIf \/ EndTuple \/ ReturnClosure
  PROVE  /\ Tidy /\ Returns /\ Running
         /\ program' = program /\ errors' \in {errors, errors + 1} /\ freed' = freed
<1>1. /\ program' = program /\ errors' \in {errors, errors + 1} /\ freed' = freed
      /\ Returns /\ Running
  BY DEF CompileLiteral, RejectLetRec, CompileOperator, CompileUnaryOperator, EndIf,
         EndTuple, ReturnClosure, Enter, At, Running, Return, Returns
<1>2. Tidy
  BY TidyWrites, TidyReads
<1> QED
  BY <1>1, <1>2

-----------------------------------------------------------------------------
(***************************************************************************)
(* Looking a variable up.                                                  *)
(***************************************************************************)
\* A name of d's closure is found or added to it, once.
LookedUp(b, c, id) ==
  /\ c.bindings = b.bindings /\ c.binding_top = b.binding_top
  /\ Bound(b, id) # {} => c.closure_symbols = b.closure_symbols
  /\ Bound(b, id) = {} =>
       /\ ToSet(c.closure_symbols) = ToSet(b.closure_symbols) \union {id}
       /\ Distinct(b.closure_symbols) => Distinct(c.closure_symbols)

LEMMA AppendToSet ==
  ASSUME NEW S, NEW s \in Seq(S), NEW x \in S
  PROVE  ToSet(Append(s, x)) = ToSet(s) \union {x}
<1> DEFINE n == Len(s)
           t == Append(s, x)
<1>1. /\ n \in Nat /\ DOMAIN s = 1 .. n /\ DOMAIN t = 1 .. n + 1 /\ t[n + 1] = x
      /\ \A k \in 1 .. n : t[k] = s[k]
  BY AppendProperties, LenProperties
<1>2. \A k \in 1 .. n + 1 : k \in 1 .. n \/ k = n + 1
  BY <1>1
<1>3. n + 1 \in 1 .. n + 1 /\ \A k \in 1 .. n : k \in 1 .. n + 1
  BY <1>1
<1> HIDE DEF t, n
<1>4. ToSet(t) = ToSet(s) \union {x}
  BY <1>1, <1>2, <1>3 DEF ToSet
<1> QED
  BY <1>4 DEF t

LEMMA AppendDistinct ==
  ASSUME NEW S, NEW s \in Seq(S), NEW x \in S, Distinct(s), x \notin ToSet(s)
  PROVE  Distinct(Append(s, x))
<1> DEFINE n == Len(s)
           t == Append(s, x)
<1>1. /\ n \in Nat /\ DOMAIN s = 1 .. n /\ DOMAIN t = 1 .. n + 1 /\ t[n + 1] = x
      /\ \A k \in 1 .. n : t[k] = s[k]
  BY AppendProperties, LenProperties
<1>2. \A k \in 1 .. n + 1 : k \in 1 .. n \/ k = n + 1
  BY <1>1
<1> HIDE DEF t, n
<1>3. \A k \in 1 .. n : s[k] # x
  BY <1>1 DEF ToSet
<1>4. \A j, k \in 1 .. n : s[j] = s[k] => j = k
  BY <1>1 DEF Distinct, IsInjective
<1>5. Distinct(t)
  BY <1>1, <1>2, <1>3, <1>4 DEF Distinct, IsInjective
<1> QED
  BY <1>5 DEF t

LEMMA LookupKnows ==
  ASSUME NEW b \in ContextType, NEW id \in Symbol
  PROVE  LookedUp(b, IdentifierContext(b, id), id)
<1> DEFINE c == IdentifierContext(b, id)
           q == b.closure_symbols
           offset == ClosureOffset(b, id)
           names == IF offset = Len(q) THEN Append(q, id) ELSE q
<1>1. c.bindings = b.bindings /\ c.binding_top = b.binding_top
  BY IdentifierScope DEF SameBindings
<1>2. CASE Bound(b, id) # {}
  BY <1>1, <1>2 DEF LookedUp, IdentifierContext
<1>3. CASE Bound(b, id) = {}
  <2>1. q \in Seq(Symbol) /\ Len(q) \in Nat /\ DOMAIN q = 1 .. Len(q)
    BY LenProperties DEF ContextType
  <2>2. c.closure_symbols = names
    BY <1>3 DEF IdentifierContext, LoadClosed, WriteCode, GetFreeIntRegister, ContextType
  <2> DEFINE at == { k \in DOMAIN q : q[k] = id }
  <2>3. CASE at = {}
    <3>1. offset = Len(q) /\ id \notin ToSet(q)
      BY <2>3 DEF ClosureOffset, ToSet
    <3>2. names = Append(q, id)
      BY <3>1
    <3> HIDE DEF names, q, at, offset, c
    <3>3. /\ ToSet(names) = ToSet(q) \union {id}
          /\ Distinct(q) => Distinct(names)
      <4>1. ToSet(Append(q, id)) = ToSet(q) \union {id}
        BY <2>1, AppendToSet
      <4>2. ASSUME Distinct(q) PROVE Distinct(Append(q, id))
        BY <2>1, <3>1, <4>2, AppendDistinct
      <4> QED
        BY <3>2, <4>1, <4>2
    <3> QED
      BY <1>1, <1>3, <2>2, <3>3 DEF LookedUp, c, q
  <2>4. CASE at # {}
    <3>1. Min(at) \in at
      <4>1. at \in SUBSET Nat
        BY <2>1
      <4> HIDE DEF at
      <4> QED
        BY <2>4, <4>1, MinProperty
    <3>2. offset = Min(at) - 1
      BY <2>4 DEF ClosureOffset
    <3>3. Min(at) \in 1 .. Len(q) /\ q[Min(at)] = id
      BY <2>1, <3>1
    <3>4. offset # Len(q)
      <4> HIDE DEF at, offset, q
      <4> QED
        BY <2>1, <3>2, <3>3
    <3>5. names = q /\ id \in ToSet(q)
      BY <2>1, <3>3, <3>4 DEF ToSet
    <3> HIDE DEF names, q, at, offset, c
    <3>6. ToSet(q) = ToSet(q) \union {id}
      BY <3>5
    <3> QED
      BY <1>1, <1>3, <2>2, <3>5, <3>6 DEF LookedUp, c, q
  <2> QED
    BY <2>3, <2>4
<1> QED
  BY <1>2, <1>3


-----------------------------------------------------------------------------
(***************************************************************************)
(* A call: the callee uses, asks for and binds what its caller would.      *)
(***************************************************************************)
LEMMA BindersAre ==
  ASSUME NEW a \in Placed
  PROVE  /\ a.at \in {"let_body", "rec_value"} =>
              ToSet(Binders(a, a.context)) = {a.expr.let_id}
         /\ a.at \notin {"let_body", "rec_value"} => ToSet(Binders(a, a.context)) = {}
         /\ a.at = "body" => ToSet(Binders(a, a.context + 1)) =
              {a.expr.lambda_id} \union ({a.self_id} \ {INVALID_SYMBOL})
<1>1. a.context \in Nat /\ a.context # a.context - 1 /\ a.context + 1 - 1 = a.context
      /\ a.context # a.context + 1
  BY DEF Placed, ActivationType
<1>2. \A x : ToSet(<<x>>) = {x}
  BY DEF ToSet
<1>3. ToSet(<<>>) = {}
  BY DEF ToSet
<1>4. CASE a.at \in {"let_body", "rec_value"}
  BY <1>1, <1>2, <1>4 DEF Binders
<1>5. CASE a.at \notin {"let_body", "rec_value", "body"}
  BY <1>3, <1>5 DEF Binders
<1>6. CASE a.at = "body"
  <2> DEFINE self == IF a.self_id = INVALID_SYMBOL THEN <<>> ELSE <<a.self_id>>
             id == a.expr.lambda_id
  <2>1. Binders(a, a.context + 1) = self \o <<id>> /\ Binders(a, a.context) = <<>>
    BY <1>1, <1>6 DEF Binders
  <2>2. /\ a.self_id \in Symbol \union {INVALID_SYMBOL} /\ id \in Symbol
    <3>1. a.expr \in Expression /\ a.expr.type = "LAMBDA"
      BY <1>6 DEF Placed, ActivationType, ExpressionType
    <3> QED
      BY <3>1, Subexpressions DEF Placed, ActivationType
  <2>3. self \in Seq(Symbol) /\ <<id>> \in Seq(Symbol)
    BY <2>2, EmptySeq
  <2>4. ToSet(self) = {a.self_id} \ {INVALID_SYMBOL}
    BY <1>2, <1>3
  <2> HIDE DEF self
  <2>5. ToSet(self \o <<id>>) = ToSet(self) \union ToSet(<<id>>)
    BY <2>3, ToSetConcat
  <2> HIDE DEF id
  <2>6. ToSet(<<id>>) = {id}
    BY <1>2
  <2>7. ToSet(Binders(a, a.context + 1)) = {id} \union ({a.self_id} \ {INVALID_SYMBOL})
    BY <2>1, <2>4, <2>5, <2>6
  <2> QED
    BY <1>3, <1>6, <2>1, <2>7 DEF id
<1> QED
  BY <1>4, <1>5, <1>6

LEMMA DescentFree ==
  ASSUME TreesFinite, TuplesUniform, NEW t \in Placed, NEW a \in Placed,
         NEW b \in Placed, Descends(t, a, b)
  PROVE  freeVariables[b.expr] \subseteq
           freeVariables[t.expr] \union ToSet(Binders(a, t.context))
<1> DEFINE B == ToSet(Binders(a, t.context))
<1>1. t.expr \in Expression /\ a.expr = t.expr /\ a.context = t.context
  BY DEF Descends, Placed, ActivationType
<1>2. a.at \in {"let_body", "rec_value"} => B = {t.expr.let_id}
  BY <1>1, BindersAre
<1> HIDE DEF B
<1>3. CASE b.at = "enter" /\ Calls(t, a.at, b.expr)
  <2>1. CASE t.at = "enter" /\ t.expr.type \in {"LET", "UNARY", "TUPLE"}
    BY <1>1, <1>3, <2>1, FreeByType DEF Calls
  <2>2. CASE t.at = "enter" /\ t.expr.type \in {"APPLY", "BINARY"}
    BY <1>1, <1>3, <2>2, FreeByType DEF Calls
  <2>3. CASE t.at = "enter" /\ t.expr.type = "IF"
    BY <1>1, <1>3, <2>3, FreeByType DEF Calls
  <2>4. CASE t.at \in {"let_value", "rec_value"}
    <3>1. t.expr.type \in {"LET", "LETREC"}
      BY <2>4 DEF Placed, ExpressionType
    <3>2. B = {t.expr.let_id} /\ b.expr = t.expr.let_body
      BY <1>2, <1>3, <2>4 DEF Calls
    <3> QED
      BY <1>1, <3>1, <3>2, FreeByType DEF B
  <2>5. CASE t.at = "first"
    <3>1. t.expr.type \in {"APPLY", "BINARY"}
      BY <2>5 DEF Placed, ExpressionType
    <3> QED
      BY <1>1, <1>3, <2>5, <3>1, FreeByType DEF Calls
  <2>6. CASE t.at \in {"if_test", "if_then"}
    <3>1. t.expr.type = "IF"
      BY <2>6 DEF Placed, ExpressionType
    <3> QED
      BY <1>1, <1>3, <2>6, <3>1, FreeByType DEF Calls
  <2>7. CASE t.at = "member"
    <3>1. t.expr.type = "TUPLE"
      BY <2>7 DEF Placed, ExpressionType
    <3> QED
      BY <1>1, <1>3, <2>7, <3>1, FreeByType DEF Calls
  <2> QED
    BY <1>3, <2>1, <2>2, <2>3, <2>4, <2>5, <2>6, <2>7 DEF Calls
<1>4. CASE t.expr.type = "LETREC" /\ a.at = "rec_value" /\ b.expr = t.expr.let_value
  BY <1>1, <1>2, <1>4, FreeByType DEF B
<1> QED
  BY <1>3, <1>4 DEF Descends

LEMMA DescentAsks ==
  ASSUME TreesFinite, TuplesUniform, NEW t \in Placed, NEW a \in Placed,
         NEW b \in Placed, Descends(t, a, b), NEW d
  PROVE  Asked(t, d) \subseteq Asked(a, d) \union Asked(b, d)
<1>1. t.expr \in Expression /\ b.expr \in Expression /\ a.expr = t.expr
      /\ a.context = t.context /\ b.context = t.context
  BY DEF Descends, Placed, ActivationType
<1>2. CASE t.context # d
  BY <1>2 DEF Asked
<1>3. CASE t.context = d /\ b.at = "enter" /\ b.self_id = INVALID_SYMBOL
           /\ Calls(t, a.at, b.expr)
  <2>1. Asked(b, d) = freeVariables[b.expr]
    <3>1. freeVariables[b.expr] \in SUBSET Symbol
      BY <1>1, FreeByType
    <3> QED
      BY <1>1, <1>3, <3>1 DEF Asked, Symbol
  <2>2. t.at = "enter" => Asked(t, d) \subseteq freeVariables[t.expr]
    BY <1>3 DEF Asked
  <2>3. CASE t.at = "enter" /\ t.expr.type = "LET"
    <3>1. Asked(a, d) = freeVariables[t.expr.let_body] \ {t.expr.let_id}
      BY <1>1, <1>3, <2>3 DEF Calls, Asked
    <3>2. b.expr = t.expr.let_value
      BY <1>3, <2>3 DEF Calls
    <3> QED
      BY <1>1, <2>1, <2>2, <2>3, <3>1, <3>2, FreeByType
  <2>4. CASE t.at = "enter" /\ t.expr.type \in {"UNARY", "TUPLE"}
    BY <1>1, <1>3, <2>1, <2>2, <2>4, FreeByType DEF Calls
  <2>5. CASE t.at = "enter" /\ t.expr.type \in {"APPLY", "BINARY"}
    <3>1. Asked(a, d) = freeVariables[SecondOperand(t.expr)]
      BY <1>1, <1>3, <2>5 DEF Calls, Asked
    <3>2. b.expr = FirstOperand(t.expr)
      BY <1>3, <2>5 DEF Calls
    <3> QED
      BY <1>1, <2>1, <2>2, <2>5, <3>1, <3>2, FreeByType
  <2>6. CASE t.at = "enter" /\ t.expr.type = "IF"
    <3>1. Asked(a, d) =
            freeVariables[t.expr.if_then] \union freeVariables[t.expr.if_else]
      BY <1>1, <1>3, <2>6 DEF Calls, Asked
    <3>2. b.expr = t.expr.if_test
      BY <1>3, <2>6 DEF Calls
    <3> QED
      BY <1>1, <2>1, <2>2, <2>6, <3>1, <3>2, FreeByType
  <2>7. CASE t.at \in {"let_value", "rec_value", "first"}
    BY <1>1, <1>3, <2>1, <2>7 DEF Calls, Asked
  <2>8. CASE t.at \in {"if_test", "if_then"}
    BY <1>1, <1>3, <2>1, <2>8 DEF Calls, Asked
  <2>9. CASE t.at = "member"
    BY <2>9 DEF Asked
  <2> QED
    BY <1>3, <2>3, <2>4, <2>5, <2>6, <2>7, <2>8, <2>9 DEF Calls
<1>4. CASE /\ t.context = d /\ t.at = "enter" /\ t.expr.type = "LETREC"
           /\ a.at = "rec_value" /\ b.at = "lambda" /\ b.expr = t.expr.let_value
           /\ b.self_id = t.expr.let_id
  <2>1. /\ Asked(b, d) = freeVariables[t.expr.let_value] \ {t.expr.let_id}
        /\ Asked(a, d) = freeVariables[t.expr.let_body] \ {t.expr.let_id}
        /\ Asked(t, d) \subseteq freeVariables[t.expr]
    BY <1>1, <1>4 DEF Asked
  <2> QED
    BY <1>1, <1>4, <2>1, FreeByType
<1> QED
  BY <1>2, <1>3, <1>4 DEF Descends


LEMMA DescentComes ==
  ASSUME TreesFinite, NEW t \in Placed, NEW a \in Placed,
         NEW b \in Placed, Descends(t, a, b), BindsOnce(t.expr)
  PROVE  /\ Coming(a) \union Coming(b) \subseteq Coming(t)
         /\ Coming(a) \intersect Coming(b) = {}
<1>1. t.expr \in Expression /\ a.expr = t.expr
  BY DEF Descends, Placed, ActivationType
<1>2. CASE b.at = "enter" /\ Calls(t, a.at, b.expr)
  <2>1. Coming(b) = boundNames[b.expr]
    BY <1>2 DEF Coming
  <2>2. t.at = "enter" => Coming(t) = boundNames[t.expr]
    BY DEF Coming
  <2>3. CASE t.at = "enter" /\ t.expr.type = "LET"
    <3>1. Coming(a) = {t.expr.let_id} \union boundNames[t.expr.let_body]
      BY <1>1, <1>2, <2>3 DEF Calls, Coming
    <3>2. b.expr = t.expr.let_value
      BY <1>2, <2>3 DEF Calls
    <3>3. /\ boundNames[t.expr.let_value] \intersect boundNames[t.expr.let_body] = {}
          /\ t.expr.let_id \notin boundNames[t.expr.let_value]
      BY <2>3 DEF BindsOnce
    <3> QED
      BY <1>1, <2>1, <2>2, <2>3, <3>1, <3>2, <3>3, BoundByType
  <2>4. CASE t.at = "enter" /\ t.expr.type = "UNARY"
    <3>1. Coming(a) = {} /\ b.expr = t.expr.unary_arg
      BY <1>2, <2>4 DEF Calls, Coming
    <3> QED
      BY <1>1, <2>1, <2>2, <2>4, <3>1, BoundByType
  <2>5. CASE t.expr.type = "TUPLE" /\ a.at = "member" /\ b.expr = t.expr.tuple_first
    <3>1. Coming(a) = {} /\ boundNames[b.expr] = {}
      BY <2>5 DEF BindsOnce, Coming
    <3> QED
      BY <2>1, <3>1
  <2>6. CASE t.at = "enter" /\ t.expr.type \in {"APPLY", "BINARY"}
    <3>1. Coming(a) = boundNames[SecondOperand(t.expr)] /\ b.expr = FirstOperand(t.expr)
      BY <1>1, <1>2, <2>6 DEF Calls, Coming
    <3>2. boundNames[FirstOperand(t.expr)] \intersect boundNames[SecondOperand(t.expr)] = {}
      BY <2>6 DEF BindsOnce, FirstOperand, SecondOperand
    <3> QED
      BY <1>1, <2>1, <2>2, <2>6, <3>1, <3>2, BoundByType
  <2>7. CASE t.at = "enter" /\ t.expr.type = "IF"
    <3>1. /\ Coming(a) = boundNames[t.expr.if_then] \union boundNames[t.expr.if_else]
          /\ b.expr = t.expr.if_test
      BY <1>1, <1>2, <2>7 DEF Calls, Coming
    <3>2. /\ boundNames[t.expr.if_test] \intersect boundNames[t.expr.if_then] = {}
          /\ (boundNames[t.expr.if_test] \union boundNames[t.expr.if_then])
               \intersect boundNames[t.expr.if_else] = {}
      BY <2>7 DEF BindsOnce
    <3> QED
      BY <1>1, <2>1, <2>2, <2>7, <3>1, <3>2, BoundByType
  <2>8. CASE t.at \in {"let_value", "rec_value"}
    <3>1. t.expr.type \in {"LET", "LETREC"}
      BY <2>8 DEF Placed, ExpressionType
    <3>2. /\ Coming(t) = {t.expr.let_id} \union boundNames[t.expr.let_body]
          /\ Coming(a) = {t.expr.let_id} /\ b.expr = t.expr.let_body
      BY <1>1, <1>2, <2>8 DEF Calls, Coming
    <3>3. t.expr.let_id \notin boundNames[t.expr.let_body]
      BY <3>1 DEF BindsOnce
    <3> QED
      BY <2>1, <3>2, <3>3
  <2>9. CASE t.at = "first"
    BY <1>1, <1>2, <2>1, <2>9 DEF Calls, Coming
  <2>10. CASE t.at = "if_test"
    <3>1. t.expr.type = "IF"
      BY <2>10 DEF Placed, ExpressionType
    <3>2. /\ Coming(t) = boundNames[t.expr.if_then] \union boundNames[t.expr.if_else]
          /\ Coming(a) = boundNames[t.expr.if_else] /\ b.expr = t.expr.if_then
      BY <1>1, <1>2, <2>10 DEF Calls, Coming
    <3>3. boundNames[t.expr.if_then] \intersect boundNames[t.expr.if_else] = {}
      BY <3>1 DEF BindsOnce
    <3> QED
      BY <2>1, <3>2, <3>3
  <2>11. CASE t.at = "if_then"
    BY <1>1, <1>2, <2>1, <2>11 DEF Calls, Coming
  <2>12. t.at = "member" => t.expr.type = "TUPLE"
    BY DEF Placed, ExpressionType
  <2> QED
    BY <1>2, <2>3, <2>4, <2>5, <2>6, <2>7, <2>8, <2>9, <2>10, <2>11, <2>12 DEF Calls
<1>3. CASE /\ t.at = "enter" /\ t.expr.type = "LETREC" /\ a.at = "rec_value"
           /\ b.at = "lambda" /\ b.expr = t.expr.let_value
  <2>1. /\ Coming(b) = boundNames[t.expr.let_value]
        /\ Coming(a) = {t.expr.let_id} \union boundNames[t.expr.let_body]
        /\ Coming(t) = boundNames[t.expr]
    BY <1>1, <1>3 DEF Coming
  <2>2. /\ boundNames[t.expr.let_value] \intersect boundNames[t.expr.let_body] = {}
        /\ t.expr.let_id \notin boundNames[t.expr.let_value]
    BY <1>3 DEF BindsOnce
  <2> QED
    BY <1>1, <1>3, <2>1, <2>2, BoundByType
<1> QED
  BY <1>2, <1>3 DEF Descends

\* The parts of an expression are tame when it is.
LEMMA PartsTame ==
  ASSUME TreesFinite, NEW e \in Expression, Tame(e)
  PROVE  BindsOnce(e) /\ \A c \in Children(e) : Tame(c)
<1>1. parts[e] = PartsAt(e, parts)
  BY PartsAre
<1> QED
  BY <1>1 DEF Tame, PartsAt

LEMMA DescentTame ==
  ASSUME TreesFinite, NEW t \in Placed, NEW a \in Placed,
         NEW b \in Placed, Descends(t, a, b), Tame(t.expr)
  PROVE  Tame(a.expr) /\ Tame(b.expr)
<1>1. t.expr \in Expression /\ a.expr = t.expr
  BY DEF Descends, Placed, ActivationType
<1>2. /\ t.at \in {"let_value", "rec_value"} => t.expr.type \in {"LET", "LETREC"}
      /\ t.at = "first" => t.expr.type \in {"APPLY", "BINARY"}
      /\ t.at \in {"if_test", "if_then"} => t.expr.type = "IF"
      /\ t.at = "member" => t.expr.type = "TUPLE"
  BY DEF Placed, ExpressionType
<1>3. b.expr \in Children(t.expr)
  <2>1. CASE Calls(t, a.at, b.expr)
    BY <1>1, <1>2, <2>1, ChildrenByType DEF Calls
  <2>2. CASE t.expr.type = "LETREC" /\ b.expr = t.expr.let_value
    BY <1>1, <2>2, ChildrenByType
  <2> QED
    BY <2>1, <2>2 DEF Descends
<1> QED
  BY <1>1, <1>3, PartsTame


-----------------------------------------------------------------------------
(***************************************************************************)
(* The closures hold free variables: the steps that stay in the running    *)
(* context.                                                                *)
(***************************************************************************)
\* The stack with at most two activations, not of a body, in place of its top.
Inside(a) == a \in Placed /\ a.at # "body"

Grown(s) ==
  \/ s = Front(calls)
  \/ \E a : Inside(a) /\ s = Append(Front(calls), a)
  \/ \E a, b : Inside(a) /\ Inside(b) /\ s = Append(Append(Front(calls), a), b)

LEMMA WantedStays ==
  ASSUME CompilerInv, calls # <<>>, NEW s, Grown(s), NEW d
  PROVE  Wanted(s, d) = Wanted(Front(calls), d)
<1> DEFINE base == Front(calls)
<1>1. base \in Seq(Placed)
  BY Base
<1> HIDE DEF base
<1>2. ASSUME NEW t \in Seq(Placed), NEW a, Inside(a)
      PROVE  Append(t, a) \in Seq(Placed) /\ Wanted(Append(t, a), d) = Wanted(t, d)
  <2>1. a \in Placed /\ Opened(a, d) = {}
    BY <1>2 DEF Inside, Opened
  <2>2. Wanted(Append(t, a), d) = Wanted(t, d) \union Opened(a, d)
    BY <2>1, WantedAppend
  <2> QED
    BY <2>1, <2>2, AppendProperties
<1>3. CASE s = base
  BY <1>3 DEF base
<1>4. CASE \E a : Inside(a) /\ s = Append(base, a)
  BY <1>1, <1>2, <1>4 DEF base
<1>5. CASE \E a, b : Inside(a) /\ Inside(b) /\ s = Append(Append(base, a), b)
  <2>1. PICK a, b : Inside(a) /\ Inside(b) /\ s = Append(Append(base, a), b)
    BY <1>5
  <2> DEFINE t == Append(base, a)
  <2>2. t \in Seq(Placed) /\ Wanted(t, d) = Wanted(base, d)
    BY <1>1, <1>2, <2>1
  <2> HIDE DEF t
  <2>3. s = Append(t, b)
    BY <2>1 DEF t
  <2> QED
    BY <1>2, <2>1, <2>2, <2>3 DEF base
<1> QED
  BY <1>3, <1>4, <1>5 DEF Grown, base

LEMMA RunningGrown ==
  ASSUME CompilerInv, Running
  PROVE  /\ Grown(calls) /\ calls # <<>> /\ top.context \in 1 .. Len(contexts)
         /\ \A d : Wanted(calls, d) = Wanted(Front(calls), d)
<1>1. calls # <<>> /\ top \in Placed /\ calls = Append(Front(calls), top)
      /\ top.context \in 1 .. Len(contexts)
  BY Base, TopFacts DEF Running
<1>2. Inside(top)
  BY <1>1 DEF Inside, Running
<1>3. Grown(calls)
  BY <1>1, <1>2 DEF Grown
<1> QED
  BY <1>1, <1>3, WantedStays

\* The running context becomes c, that closes over variables wanted of it.
Kept(c) ==
  /\ Updated(c) /\ Distinct(c.closure_symbols)
  /\ ToSet(c.closure_symbols) \subseteq Wanted(Front(calls), top.context)

LEMMA HoldsKept ==
  ASSUME CompilerInv, Running, HoldsInv, NEW c, Kept(c), Grown(calls'),
         Reads(calls'), Holding(calls')
  PROVE  HoldsInv'
<1>1. ASSUME NEW d \in 1 .. Len(contexts)
      PROVE  /\ Distinct(contexts'[d].closure_symbols)
             /\ ToSet(contexts'[d].closure_symbols) \subseteq Wanted(calls', d)
  <2>1. contexts'[d] = IF d = top.context THEN c ELSE contexts[d]
    BY DEF Kept, Updated
  <2>2. Wanted(calls', d) = Wanted(Front(calls), d) /\ Wanted(calls, d) = Wanted(Front(calls), d)
    BY RunningGrown, WantedStays
  <2>3. CASE d = top.context
    BY <2>1, <2>2, <2>3 DEF Kept
  <2>4. CASE d # top.context
    <3>1. /\ Distinct(contexts[d].closure_symbols)
          /\ ToSet(contexts[d].closure_symbols) \subseteq Wanted(calls, d)
      BY DEF HoldsInv
    <3> QED
      BY <2>1, <2>2, <2>4, <3>1
  <2> QED
    BY <2>3, <2>4
<1>2. Len(contexts') = Len(contexts)
  BY DEF Kept, Updated
<1> QED
  BY <1>1, <1>2 DEF HoldsInv

LEMMA TidyKept ==
  ASSUME CompilerInv, Running, HoldsInv, Tidy
  PROVE  \E c : Kept(c)
<1>1. PICK c : Updated(c) /\ Tidies(context, c)
  BY DEF Tidy
<1>2. /\ Distinct(context.closure_symbols)
      /\ ToSet(context.closure_symbols) \subseteq Wanted(calls, top.context)
  BY RunningGrown DEF HoldsInv, context
<1> QED
  BY <1>1, <1>2, RunningGrown DEF Kept, Tidies

LEMMA TopReads ==
  ASSUME CompilerInv, calls # <<>>, HoldsInv
  PROVE  /\ Reads(Front(calls)) /\ Holding(Front(calls)) /\ Holds(top)
         /\ freeVariables[top.expr] \subseteq Known(Front(calls), top.context)
<1> DEFINE base == Front(calls)
<1>1. base \in Seq(Placed) /\ calls = Append(base, top) /\ top \in Placed
  BY Base, TopFacts
<1>2. Reads(calls) /\ Holding(calls)
  BY DEF HoldsInv
<1> HIDE DEF base
<1>3. /\ Reads(Append(base, top)) =>
           Reads(base) /\ freeVariables[top.expr] \subseteq Known(base, top.context)
      /\ Holding(Append(base, top)) => Holding(base) /\ Holds(top)
  BY <1>1, SequencesAppend
<1> QED
  BY <1>1, <1>2, <1>3 DEF base

LEMMA HoldsReturn ==
  ASSUME CompilerInv, Running, HoldsInv, NEW c, Kept(c), Returns
  PROVE  HoldsInv'
<1>1. Grown(calls') /\ calls' = Front(calls)
  BY DEF Returns, Grown
<1>2. Reads(Front(calls)) /\ Holding(Front(calls))
  BY TopReads DEF Running
<1> QED
  BY <1>1, <1>2, HoldsKept

LEMMA HoldsBecome ==
  ASSUME CompilerInv, Running, HoldsInv, NEW c, Kept(c), NEW a, Continues(a, top),
         a.at # "body", Holds(a), calls' = Append(Front(calls), a)
  PROVE  HoldsInv'
<1> DEFINE base == Front(calls)
<1>1. base \in Seq(Placed) /\ a \in Placed /\ calls # <<>>
  BY Base DEF Running, Continues
<1>2. Grown(calls')
  BY <1>1 DEF Grown, Inside
<1>3. /\ Reads(base) /\ Holding(base)
      /\ freeVariables[a.expr] \subseteq Known(base, a.context)
  BY <1>1, TopReads DEF Continues
<1> HIDE DEF base
<1>4. Reads(Append(base, a)) /\ Holding(Append(base, a))
  BY <1>1, <1>3, SequencesAppend
<1>5. Reads(calls') /\ Holding(calls')
  BY <1>4 DEF base
<1> QED
  BY <1>2, <1>5, HoldsKept

LEMMA HoldsDescend ==
  ASSUME TreesFinite, TuplesUniform, CompilerInv, Running, HoldsInv, NEW c, Kept(c),
         Descent
  PROVE  HoldsInv'
<1> DEFINE base == Front(calls)
           h == top.context
<1>1. base \in Seq(Placed) /\ top \in Placed /\ calls # <<>>
  BY Base, TopFacts DEF Running
<1>2. PICK a, b \in Placed : Descends(top, a, b) /\ calls' = Append(Append(base, a), b)
  BY DEF Descent
<1>3. /\ a.expr = top.expr /\ a.context = h /\ b.context = h
      /\ a.at \notin {"body", "closed"} /\ b.at \notin {"body", "closed"}
  BY <1>2 DEF Descends, Calls
<1>4. Grown(calls')
  BY <1>2, <1>3 DEF Grown, Inside
<1>5. Reads(base) /\ Holding(base) /\ freeVariables[top.expr] \subseteq Known(base, h)
  BY <1>1, TopReads
<1>6. freeVariables[b.expr] \subseteq freeVariables[top.expr] \union ToSet(Binders(a, h))
  BY <1>1, <1>2, DescentFree
<1>7. Holds(a) /\ Holds(b)
  BY <1>3 DEF Holds
<1> HIDE DEF base, h
<1>8. Append(base, a) \in Seq(Placed)
  BY <1>1, AppendProperties
<1>9. Reads(Append(base, a)) /\ Holding(Append(base, a))
  BY <1>1, <1>3, <1>5, <1>7, SequencesAppend
<1>10. freeVariables[b.expr] \subseteq Known(Append(base, a), h)
  <2>1. Known(Append(base, a), h) =
          Known(base, h) \union Opened(a, h) \union ToSet(Binders(a, h))
    BY <1>1, WantedAppend
  <2> QED
    BY <1>5, <1>6, <2>1
<1>11. Reads(calls') /\ Holding(calls')
  <2>1. Reads(Append(Append(base, a), b)) /\ Holding(Append(Append(base, a), b))
    BY <1>3, <1>7, <1>8, <1>9, <1>10, SequencesAppend
  <2> QED
    BY <1>2, <2>1
<1> QED
  BY <1>4, <1>11, HoldsKept


-----------------------------------------------------------------------------
(***************************************************************************)
(* The steps that look a variable up.                                      *)
(***************************************************************************)
\* The running activation looks id up, and its context becomes c.
Looks(c, id) ==
  /\ Running /\ ~ Binds(top) /\ id \in Symbol
  /\ Updated(c) /\ LookedUp(context, c, id)

LEMMA IdentifierLooks ==
  ASSUME CompilerInv, CompileIdentifier
  PROVE  /\ \E c : Looks(c, top.expr.identifier_id)
         /\ top.at = "enter" /\ top.expr.type = "IDENTIFIER" /\ Returns
<1> DEFINE id == top.expr.identifier_id
           c == IdentifierContext(context, id)
<1>1. /\ Running /\ ~ Binds(top) /\ Returns
      /\ top.at = "enter" /\ top.expr.type = "IDENTIFIER"
  BY DEF CompileIdentifier, Enter, At, Running, Binds, Return, Returns
<1>2. id \in Symbol /\ context \in ContextType
  BY <1>1, TopFacts, Subexpressions DEF Running
<1>3. SetContext(c)
  BY DEF CompileIdentifier
<1> HIDE DEF id
<1>4. LookedUp(context, c, id)
  BY <1>2, LookupKnows
<1> HIDE DEF c
<1>5. Updated(c)
  BY <1>3, ContextUpdated
<1> QED
  BY <1>1, <1>2, <1>4, <1>5 DEF Looks, id

LEMMA CloseLooks ==
  ASSUME CompilerInv, CloseVariable
  PROVE  /\ \E c : Looks(c, top.closure[top.i + 1])
         /\ top.at = "closed" /\ top.i \in Nat /\ top.i < Len(top.closure)
         /\ top.closure \in Seq(Symbol)
<1> DEFINE id == top.closure[top.i + 1]
           c == IdentifierContext(context, id)
           bytes == <<OP.STOREA_64, top.reg>> \o U16(ClosureSlot(top.i))
                      \o <<IdentifierRegister(context, id)>>
<1>1. Running /\ calls # <<>> /\ ~ Binds(top) /\ top.at = "closed"
  BY DEF CloseVariable, At, Running, Binds
<1>2. /\ top.i \in Nat /\ top.closure \in Seq(Symbol) /\ top.i < Len(top.closure)
      /\ context \in ContextType
  BY <1>1, TopFacts DEF ActivationType, CloseVariable
<1>3. id \in Symbol
  <2>1. top.i + 1 \in 1 .. Len(top.closure)
    BY <1>2, LenProperties
  <2> QED
    BY <1>2, <2>1, ElementOfSeq
<1>4. SetContext(WriteCode(c, bytes))
  BY DEF CloseVariable
<1> HIDE DEF bytes, id
<1>5. LookedUp(context, c, id) /\ SameBindings(context, c)
  BY <1>2, <1>3, LookupKnows, IdentifierScope
<1> HIDE DEF c
<1>6. SameScope(c, WriteCode(c, bytes))
  BY <1>5, WriteCodeScope DEF SameBindings
<1>7. LookedUp(context, WriteCode(c, bytes), id)
  BY <1>5, <1>6 DEF LookedUp, SameScope, SameBindings
<1>8. Updated(WriteCode(c, bytes))
  BY <1>4, ContextUpdated
<1> QED
  BY <1>1, <1>2, <1>3, <1>7, <1>8 DEF Looks, id

\* The running context has bound the names in its scope.
LEMMA NamesBoundHere ==
  ASSUME CompilerInv, ScopesInv, Running, ~ Binds(top), NEW id
  PROVE  id \in ToSet(NamesInScope(Front(calls), top.context)) <=>
           \E k \in 1 .. context.binding_top :
             k \in DOMAIN context.bindings /\ context.bindings[k].symbol = id
<1> DEFINE names == NamesInScope(Front(calls), top.context)
<1>1. context \in ContextType /\ Front(calls) \in Seq(Placed)
  BY Base, TopFacts DEF Running
<1>2. HasBound(context, names) /\ names \in Seq(Symbol)
  BY <1>1, RunningScope, ScopesType
<1> HIDE DEF names
<1>3. /\ context.binding_top \in Nat /\ context.binding_top <= Len(context.bindings)
      /\ Len(names) = context.binding_top
      /\ \A j \in 1 .. context.binding_top : context.bindings[j].symbol = names[j]
  BY <1>2 DEF HasBound
<1>4. DOMAIN names = 1 .. context.binding_top
  BY <1>2, <1>3, LenProperties
<1>5. DOMAIN context.bindings = 1 .. Len(context.bindings) /\ Len(context.bindings) \in Nat
  BY <1>1, LenProperties DEF ContextType
<1>6. \A j \in 1 .. context.binding_top : j \in DOMAIN context.bindings
  BY <1>3, <1>5
<1>7. id \in ToSet(names) <=>
        \E k \in 1 .. context.binding_top :
          k \in DOMAIN context.bindings /\ context.bindings[k].symbol = id
  BY <1>3, <1>4, <1>6 DEF ToSet
<1> QED
  BY <1>7 DEF names

\* A variable that is not bound in the running context is wanted of it.
LEMMA UnboundWanted ==
  ASSUME CompilerInv, ScopesInv, HoldsInv, Running, ~ Binds(top),
         NEW id \in freeVariables[top.expr], Bound(context, id) = {}
  PROVE  id \in Wanted(Front(calls), top.context)
<1> DEFINE base == Front(calls)
           h == top.context
<1>1. base \in Seq(Placed) /\ context \in ContextType /\ calls # <<>>
  BY Base, TopFacts DEF Running
<1>2. id \in Known(base, h)
  BY <1>1, TopReads
<1>3. Known(base, h) = Wanted(base, h) \union ToSet(NamesInScope(base, h))
  BY <1>1, KnownIs
<1>4. ASSUME id \in ToSet(NamesInScope(base, h)) PROVE FALSE
  <2>1. PICK k \in 1 .. context.binding_top :
          k \in DOMAIN context.bindings /\ context.bindings[k].symbol = id
    BY <1>4, NamesBoundHere
  <2>2. k <= context.binding_top + 1
    BY <1>1, <2>1 DEF ContextType
  <2>3. k \in Bound(context, id)
    BY <2>1, <2>2 DEF Bound
  <2> QED
    BY <2>3
<1> QED
  BY <1>2, <1>3, <1>4

LEMMA LookupKept ==
  ASSUME CompilerInv, ScopesInv, HoldsInv, NEW c, NEW id, Looks(c, id),
         id \in freeVariables[top.expr]
  PROVE  Kept(c)
<1>1. Running /\ ~ Binds(top) /\ Updated(c) /\ LookedUp(context, c, id)
  BY DEF Looks
<1>2. /\ Distinct(context.closure_symbols)
      /\ ToSet(context.closure_symbols) \subseteq Wanted(Front(calls), top.context)
  BY <1>1, RunningGrown DEF HoldsInv, context
<1>3. Bound(context, id) = {} => id \in Wanted(Front(calls), top.context)
  BY <1>1, UnboundWanted
<1> QED
  BY <1>1, <1>2, <1>3 DEF LookedUp, Kept

LEMMA IdentifierHolds ==
  ASSUME TreesFinite, TuplesUniform, CompilerInv, ScopesInv, HoldsInv, CompileIdentifier
  PROVE  HoldsInv'
<1> DEFINE id == top.expr.identifier_id
<1>1. PICK c : Looks(c, id)
  BY IdentifierLooks
<1>2. Running /\ Returns /\ top.expr.type = "IDENTIFIER" /\ top.expr \in Expression
  BY <1>1, IdentifierLooks, TopFacts DEF Looks, Running
<1>3. id \in freeVariables[top.expr]
  BY <1>2, FreeByType
<1> HIDE DEF id
<1> QED
  BY <1>1, <1>2, <1>3, LookupKept, HoldsReturn

LEMMA CloseHolds ==
  ASSUME CompilerInv, ScopesInv, HoldsInv, CloseVariable
  PROVE  HoldsInv'
<1> DEFINE id == top.closure[top.i + 1]
<1>1. PICK c : Looks(c, id)
  BY CloseLooks
<1>2. /\ Running /\ calls # <<>> /\ top.at = "closed" /\ top.i \in Nat
      /\ top.i < Len(top.closure) /\ top.closure \in Seq(Symbol)
  BY <1>1, CloseLooks DEF Looks, Running
<1>3. Holds(top)
  BY <1>2, TopReads
<1>4. id \in freeVariables[top.expr]
  <2>1. top.i + 1 \in DOMAIN top.closure
    BY <1>2, LenProperties
  <2>2. id \in ToSet(top.closure)
    BY <2>1 DEF ToSet
  <2> QED
    BY <1>2, <1>3, <2>2 DEF Holds
<1> HIDE DEF id
<1>5. PICK a : /\ Continues(a, top) /\ a.at = "closed" /\ a.closure = top.closure
               /\ calls' = Append(Front(calls), a)
  BY CloseShape
<1>6. Holds(a)
  BY <1>2, <1>3, <1>5 DEF Holds, Continues
<1> QED
  BY <1>1, <1>2, <1>4, <1>5, <1>6, LookupKept, HoldsBecome


-----------------------------------------------------------------------------
(***************************************************************************)
(* The contexts of functions come and go.                                  *)
(***************************************************************************)
\* The entries of a new bindings array: above the first are those it had.
LEMMA NewBuries ==
  ASSUME NEW garbage \in Seq(Binding), NEW id \in Symbol \union {INVALID_SYMBOL},
         NEW e \in Expression, e.type = "LAMBDA"
  PROVE  Buried(LambdaContext(garbage, id, e)) \subseteq Entries(garbage, 2)
<1> DEFINE blank == InitCompileContext(garbage)
           c == GetFreeIntRegister(blank)
           s == IF id # INVALID_SYMBOL THEN PushBinding(c, id, 0) ELSE c
           f == GetFreeIntRegister(s)
           arg == e.lambda_id
           new == PushBinding(f, arg, 1)
<1>1. blank \in ContextType /\ blank.bindings = garbage /\ blank.binding_top = 0
  BY BlankContextType DEF InitCompileContext
<1> HIDE DEF blank
<1>2. ASSUME NEW x \in ContextType
      PROVE  /\ GetFreeIntRegister(x) \in ContextType
             /\ GetFreeIntRegister(x).bindings = x.bindings
             /\ GetFreeIntRegister(x).binding_top = x.binding_top
  <2>1. SameScope(x, GetFreeIntRegister(x))
    BY ContextShape, HelpersKeepScope
  <2> QED
    BY <2>1, GetFreeIntRegisterType DEF SameScope, SameBindings
<1>3. c \in ContextType /\ c.bindings = garbage /\ c.binding_top = 0
  BY <1>1, <1>2
<1> HIDE DEF c
<1>4. Len(garbage) \in Nat /\ DOMAIN garbage = 1 .. Len(garbage) /\ arg \in Symbol
      /\ 0 \in Bytes /\ 1 \in Bytes
  BY LenProperties, Subexpressions, BytesWithin
<1>5. /\ s \in ContextType /\ s.binding_top \in {0, 1}
      /\ s.binding_top <= Len(s.bindings)
      /\ \A k \in DOMAIN s.bindings : k > s.binding_top =>
           k \in DOMAIN garbage /\ s.bindings[k] = garbage[k]
  <2>1. CASE id = INVALID_SYMBOL
    BY <1>3, <1>4, <2>1
  <2>2. CASE id # INVALID_SYMBOL
    <3>1. id \in Symbol /\ s = PushBinding(c, id, 0)
      BY <2>2
    <3> HIDE DEF s
    <3>2. c.binding_top \in Nat /\ c.binding_top <= Len(c.bindings)
      BY <1>3, <1>4
    <3>3. /\ s.binding_top = c.binding_top + 1
          /\ \A k \in DOMAIN s.bindings : k > c.binding_top + 1 =>
               k \in DOMAIN c.bindings /\ s.bindings[k] = c.bindings[k]
      BY <1>3, <1>4, <3>1, <3>2, PushBuries
    <3>4. s \in ContextType
      BY <1>3, <1>4, <3>1, PushBindingType
    <3>5. s.binding_top <= Len(s.bindings)
      <4>1. HasBound(c, <<>>) /\ <<>> \in Seq(Symbol)
        BY <1>3, <1>4, EmptySeq DEF HasBound
      <4>2. HasBound(s, <<>> \o <<id>>)
        BY <1>3, <1>4, <3>1, <4>1, PushBindingBinds
      <4> QED
        BY <4>2 DEF HasBound
    <3> QED
      BY <1>3, <3>3, <3>4, <3>5
  <2> QED
    BY <2>1, <2>2
<1> HIDE DEF s
<1>6. f \in ContextType /\ f.bindings = s.bindings /\ f.binding_top = s.binding_top
  BY <1>2, <1>5
<1> HIDE DEF f, arg
<1>7. Buried(new) \subseteq Entries(f.bindings, f.binding_top + 2)
  BY <1>4, <1>5, <1>6, PushBuries
<1>8. Entries(f.bindings, f.binding_top + 2) \subseteq Entries(garbage, 2)
  <2> SUFFICES ASSUME NEW x \in Entries(f.bindings, f.binding_top + 2)
               PROVE  x \in Entries(garbage, 2)
    OBVIOUS
  <2>1. PICK k \in DOMAIN f.bindings : k >= f.binding_top + 2 /\ x = f.bindings[k].symbol
    BY DEF Entries
  <2>2. k \in Int
    BY <1>6, LenProperties DEF ContextType
  <2>3. k > s.binding_top /\ k >= 2
    BY <1>5, <1>6, <2>1, <2>2
  <2>4. k \in DOMAIN garbage /\ x = garbage[k].symbol
    BY <1>5, <1>6, <2>1, <2>3
  <2> QED
    BY <2>3, <2>4 DEF Entries
<1>9. LambdaContext(garbage, id, e) = new
  BY DEF LambdaContext, f, s, c, blank, arg
<1> QED
  BY <1>7, <1>8, <1>9

\* It has no code.
LEMMA NewIsBlank ==
  ASSUME NEW garbage \in Seq(Binding), NEW id \in Symbol \union {INVALID_SYMBOL},
         NEW e \in Expression, e.type = "LAMBDA"
  PROVE  LambdaContext(garbage, id, e).code = <<>>
<1> DEFINE blank == InitCompileContext(garbage)
           c == GetFreeIntRegister(blank)
           s == IF id # INVALID_SYMBOL THEN PushBinding(c, id, 0) ELSE c
           f == GetFreeIntRegister(s)
           new == PushBinding(f, e.lambda_id, 1)
<1>1. blank \in ContextType /\ blank.code = <<>>
  BY BlankContextType DEF InitCompileContext
<1> HIDE DEF blank
<1>2. ASSUME NEW x \in ContextType, x.code = <<>>
      PROVE  GetFreeIntRegister(x) \in ContextType /\ GetFreeIntRegister(x).code = <<>>
  BY <1>2, GetFreeIntRegisterType DEF GetFreeIntRegister, ContextType
<1>3. ASSUME NEW x \in ContextType, x.code = <<>>, NEW name \in Symbol, NEW r \in Bytes
      PROVE  PushBinding(x, name, r) \in ContextType /\ PushBinding(x, name, r).code = <<>>
  BY <1>3, PushBindingType DEF PushBinding, ContextType
<1>4. c \in ContextType /\ c.code = <<>>
  BY <1>1, <1>2
<1> HIDE DEF c
<1>5. 0 \in Bytes /\ 1 \in Bytes /\ e.lambda_id \in Symbol
  BY Subexpressions, BytesWithin
<1>6. s \in ContextType /\ s.code = <<>>
  BY <1>3, <1>4, <1>5
<1> HIDE DEF s
<1>7. f \in ContextType /\ f.code = <<>>
  BY <1>2, <1>6
<1> HIDE DEF f
<1>8. new.code = <<>>
  BY <1>3, <1>5, <1>7
<1> QED
  BY <1>8 DEF LambdaContext, f, s, c, blank

\* The context of a function is put on top of the others.
Opens(n, new) ==
  /\ new \in ContextType /\ new.code = <<>>
  /\ Len(contexts) = n /\ Len(contexts') = n + 1 /\ contexts'[n + 1] = new
  /\ \A d \in 1 .. n : contexts'[d] = contexts[d]
  /\ new.closure_symbols = <<>>
  /\ Buried(new) \subseteq UNION { Entries(f, 2) : f \in freed }

LEMMA LambdaOpens ==
  ASSUME CompilerInv, EnterLambda
  PROVE  \E new : Opens(top.context, new)
<1> DEFINE n == Len(contexts)
<1>1. Running /\ calls # <<>> /\ top.at = "lambda"
  BY DEF EnterLambda, At, Running
<1>2. /\ top.expr.type = "LAMBDA" /\ top.expr \in Expression
      /\ top.context = n /\ n \in Nat /\ contexts \in Seq(ContextType)
      /\ top.self_id \in Symbol \union {INVALID_SYMBOL}
  BY <1>1, TopFacts, RunningDepth DEF CompilerInv, Placed, ExpressionType, ActivationType
<1>3. PICK garbage \in Seq(Binding) :
        /\ garbage = <<>> \/ garbage \in freed
        /\ contexts' = Append(contexts, LambdaContext(garbage, top.self_id, top.expr))
  <2>1. <<>> \in Seq(Binding) /\ freed \subseteq Seq(Binding)
    BY EmptySeq DEF CompilerInv
  <2> QED
    BY <2>1 DEF EnterLambda
<1> DEFINE new == LambdaContext(garbage, top.self_id, top.expr)
<1>4. new \in ContextType /\ new.closure_symbols = <<>> /\ new.code = <<>>
  BY <1>2, LambdaContextType, LambdaContextBound, NewIsBlank
<1>5. Buried(new) \subseteq Entries(garbage, 2)
  BY <1>2, NewBuries
<1>6. Entries(garbage, 2) \subseteq UNION { Entries(f, 2) : f \in freed }
  <2>1. Entries(<<>>, 2) = {}
    BY DEF Entries
  <2> QED
    BY <1>3, <2>1
<1> HIDE DEF new
<1>7. /\ Len(contexts') = n + 1 /\ contexts'[n + 1] = new
      /\ \A d \in 1 .. n : contexts'[d] = contexts[d]
  <2>1. contexts' = Append(contexts, new)
    BY <1>3 DEF new
  <2> QED
    BY <1>2, <1>4, <2>1, AppendProperties
<1> QED
  BY <1>2, <1>4, <1>5, <1>6, <1>7 DEF Opens

\* The enclosing context allocates the closure.
ClosureMade ==
  WriteCode(WriteLoadLiteral(context, top.func_id),
            <<OP.NEW_CLOSURE, context.integer_registers, top.reg>>)

\* The context of a function is taken off.
Closing(h) ==
  /\ Len(contexts) = h + 1 /\ Len(contexts') = h /\ h \in Nat \ {0}
  /\ \A d \in 1 .. h : contexts'[d] = IF d = h THEN ClosureMade ELSE contexts[d]
  /\ \A d \in 1 .. h : SameScope(contexts[d], contexts'[d])
  /\ freed' = freed \union {contexts[h + 1].bindings}

LEMMA LambdaCloses ==
  ASSUME CompilerInv, FinishLambda
  PROVE  Closing(top.context)
<1> DEFINE h == top.context
           loaded == WriteLoadLiteral(context, top.func_id)
           bytes == <<OP.NEW_CLOSURE, context.integer_registers, top.reg>>
           c == WriteCode(loaded, bytes)
<1>1. calls # <<>> /\ top.at = "body"
  BY DEF FinishLambda, At
<1>2. /\ context \in ContextType /\ contexts \in Seq(ContextType)
  BY <1>1, TopFacts DEF CompilerInv
<1>3. /\ Len(contexts) = h + 1 /\ h \in Nat \ {0} /\ h \in 1 .. Len(contexts)
  BY <1>1, StackTop DEF CompilerInv, InnerContext, top
<1>4. Last(contexts) = contexts[h + 1]
  BY <1>3 DEF Last
<1>5. SameScope(context, c)
  <2>1. SameScope(context, loaded)
    BY <1>2, ContextShape, HelpersKeepScope
  <2> HIDE DEF loaded, bytes
  <2>2. SameScope(loaded, c)
    BY <2>1, WriteCodeScope DEF SameScope, SameBindings
  <2> HIDE DEF c
  <2> QED
    BY <2>1, <2>2, ScopesCompose
<1>6. /\ contexts' = [Front(contexts) EXCEPT ![h] = c]
      /\ freed' = freed \union {contexts[h + 1].bindings}
  BY <1>4 DEF FinishLambda
<1> HIDE DEF c
<1>7. /\ Len(contexts') = h
      /\ \A d \in 1 .. h : contexts'[d] = IF d = h THEN c ELSE contexts[d]
  <2>1. \A d \in 1 .. h : contexts[d] \in ContextType
    BY <1>2, <1>3, ElementOfSeq
  <2>2. Front(contexts) = SubSeq(contexts, 1, h)
    BY <1>3 DEF Front
  <2>3. 1 \in Int /\ h \in Int
    BY <1>3
  <2> DEFINE t == SubSeq(contexts, 1, h)
             S == ContextType \union {c}
  <2>4. /\ t \in Seq(ContextType)
        /\ Len(t) = IF 1 <= h THEN h - 1 + 1 ELSE 0
        /\ \A d \in 1 .. h - 1 + 1 : t[d] = contexts[1 + d - 1]
    <3> HIDE DEF h
    <3> QED
      BY <2>1, <2>3, SubSeqProperties
  <2> HIDE DEF t
  <2>5. Len(t) = h /\ t \in Seq(S) /\ c \in S
    BY <1>3, <2>4, SeqMonotonic
  <2>6. \A d \in 1 .. h : t[d] = contexts[d]
    <3> TAKE d \in 1 .. h
    <3>1. d \in 1 .. h - 1 + 1 /\ 1 + d - 1 = d
      BY <1>3
    <3> QED
      BY <2>4, <3>1
  <2>7. contexts' = [t EXCEPT ![h] = c]
    BY <1>6, <2>2 DEF t
  <2> HIDE DEF h, S
  <2> QED
    BY <1>3, <2>5, <2>6, <2>7, ExceptSeq
<1>8. ASSUME NEW d \in 1 .. h PROVE SameScope(contexts[d], contexts'[d])
  <2>1. CASE d = h
    BY <1>5, <1>7, <2>1 DEF context
  <2>2. CASE d # h
    <3>1. contexts'[d] = contexts[d] /\ d \in 1 .. Len(contexts)
      BY <1>3, <1>7, <2>2
    <3>2. contexts[d] \in ContextType
      BY <1>2, <3>1, ElementOfSeq
    <3> QED
      BY <3>1, <3>2, ContextShape, HelpersKeepScope
  <2> QED
    BY <2>1, <2>2
<1> QED
  BY <1>3, <1>6, <1>7, <1>8 DEF Closing, ClosureMade, c

\* The end of a let: the last binding is over.
LEMMA EndLetEnds ==
  ASSUME CompilerInv, EndLet
  PROVE  /\ Updated(PopBinding(context)) /\ Returns /\ Running /\ top.at = "let_body"
         /\ PopBinding(context).closure_symbols = context.closure_symbols
<1>1. Running /\ Returns /\ top.at = "let_body" /\ SetContext(PopBinding(context))
  BY DEF EndLet, At, Running, Return, Returns
<1>2. context \in ContextType
  BY <1>1, TopFacts DEF Running
<1>3. PopBinding(context).closure_symbols = context.closure_symbols
  BY <1>2 DEF PopBinding, ContextType
<1> QED
  BY <1>1, <1>3, ContextUpdated


-----------------------------------------------------------------------------
(***************************************************************************)
(* The closures hold free variables: the other steps.                      *)
(***************************************************************************)
LEMMA EndLetHolds ==
  ASSUME CompilerInv, HoldsInv, EndLet
  PROVE  HoldsInv'
<1> DEFINE c == PopBinding(context)
<1>1. Updated(c) /\ Returns /\ Running /\ c.closure_symbols = context.closure_symbols
  BY EndLetEnds
<1>2. /\ Distinct(context.closure_symbols)
      /\ ToSet(context.closure_symbols) \subseteq Wanted(calls, top.context)
  BY <1>1, RunningGrown DEF HoldsInv, context
<1> HIDE DEF c
<1>3. Kept(c)
  BY <1>1, <1>2, RunningGrown DEF Kept
<1> QED
  BY <1>1, <1>3, HoldsReturn

LEMMA LambdaHolds ==
  ASSUME CompilerInv, HoldsInv, CompileLambda
  PROVE  HoldsInv'
<1>1. Running
  BY DEF CompileLambda, Enter, At, Running
<1>2. PICK c : Kept(c)
  BY <1>1, TidyWrites, TidyKept
<1>3. PICK a : /\ Continues(a, top) /\ a.at = "lambda"
               /\ calls' = Append(Front(calls), a)
  BY LambdaShape
<1>4. Holds(a)
  BY <1>3 DEF Holds
<1> QED
  BY <1>1, <1>2, <1>3, <1>4, HoldsBecome

\* The body of a lambda, in a context of its own, of which all that is free
\* in the lambda is wanted.
BodyEntered(n, a, b) ==
  /\ Continues(a, top) /\ a.at = "body" /\ a.i = top.i /\ a.context = n
  /\ b \in Placed /\ b.at = "enter" /\ b.expr = top.expr.lambda_body /\ b.i = 0
  /\ b.context = n + 1 /\ b.self_id = INVALID_SYMBOL
  /\ calls' = Append(Append(Front(calls), a), b)
  /\ Append(Front(calls), a) \in Seq(Placed)
  /\ Opened(a, n + 1) = freeVariables[top.expr] \ {top.self_id}
  /\ ToSet(Binders(a, n + 1)) =
       {top.expr.lambda_id} \union ({top.self_id} \ {INVALID_SYMBOL})
  /\ freeVariables[top.expr] = freeVariables[b.expr] \ {top.expr.lambda_id}
  /\ INVALID_SYMBOL \notin freeVariables[b.expr]
  /\ \A d : /\ Wanted(calls', d) = Wanted(calls, d) \union Opened(a, d)
            /\ Opened(a, d) # {} => d = n + 1

LEMMA BodyEnters ==
  ASSUME TreesFinite, TuplesUniform, CompilerInv, EnterLambda
  PROVE  \E a, b : BodyEntered(top.context, a, b)
<1> DEFINE base == Front(calls)
           n == top.context
<1>1. Running /\ calls # <<>> /\ top.at = "lambda"
  BY DEF EnterLambda, At, Running
<1>2. /\ base \in Seq(Placed) /\ top \in Placed /\ n \in Nat
      /\ top.expr \in Expression /\ top.expr.type = "LAMBDA"
  BY <1>1, Base, TopFacts DEF Placed, ActivationType, ExpressionType
<1>3. PICK a, b \in Placed :
        /\ Continues(a, top) /\ a.at = "body" /\ a.i = top.i
        /\ b.at = "enter" /\ b.expr = top.expr.lambda_body /\ b.i = 0
        /\ b.context = top.context + 1 /\ b.self_id = INVALID_SYMBOL
        /\ calls' = Append(Append(Front(calls), a), b)
  BY EnterShape
<1>4. a.expr = top.expr /\ a.context = n /\ a.self_id = top.self_id
  BY <1>3 DEF Continues
<1>5. \A d : Wanted(calls, d) = Wanted(base, d)
  BY <1>1, RunningGrown
<1> HIDE DEF base, n
<1>6. Append(base, a) \in Seq(Placed)
  BY <1>2, <1>3, AppendProperties
<1>7. /\ Opened(a, n + 1) = freeVariables[top.expr] \ {top.self_id}
      /\ \A d : Opened(a, d) # {} => d = n + 1
      /\ \A d : Opened(b, d) = {}
  BY <1>3, <1>4 DEF Opened
<1>8. ToSet(Binders(a, n + 1)) =
        {top.expr.lambda_id} \union ({top.self_id} \ {INVALID_SYMBOL})
  BY <1>3, <1>4, BindersAre
<1>9. /\ freeVariables[top.expr] = freeVariables[b.expr] \ {top.expr.lambda_id}
      /\ INVALID_SYMBOL \notin freeVariables[b.expr]
  <2>1. b.expr \in Expression
    BY <1>3 DEF Placed, ActivationType
  <2>2. freeVariables[b.expr] \in SUBSET Symbol
    BY <2>1, FreeByType
  <2> QED
    BY <1>2, <1>3, <2>2, FreeByType DEF Symbol
<1>10. ASSUME NEW d PROVE Wanted(calls', d) = Wanted(calls, d) \union Opened(a, d)
  <2>1. Wanted(Append(base, a), d) = Wanted(base, d) \union Opened(a, d)
    BY <1>2, <1>3, WantedAppend
  <2>2. Wanted(Append(Append(base, a), b), d) =
          Wanted(Append(base, a), d) \union Opened(b, d)
    BY <1>3, <1>6, WantedAppend
  <2>3. calls' = Append(Append(base, a), b)
    BY <1>3 DEF base
  <2> QED
    BY <1>5, <1>7, <2>1, <2>2, <2>3
<1> QED
  BY <1>3, <1>4, <1>6, <1>7, <1>8, <1>9, <1>10 DEF BodyEntered, base, n

LEMMA EnterHolds ==
  ASSUME TreesFinite, TuplesUniform, CompilerInv, HoldsInv, EnterLambda
  PROVE  HoldsInv'
<1> DEFINE base == Front(calls)
           n == top.context
<1>1. PICK new : Opens(n, new)
  BY LambdaOpens
<1>2. PICK a, b : BodyEntered(n, a, b)
  BY BodyEnters
<1>3. calls # <<>> /\ base \in Seq(Placed)
  BY Base DEF EnterLambda, At
<1>4. Reads(base) /\ Holding(base) /\ freeVariables[top.expr] \subseteq Known(base, n)
  BY <1>3, TopReads
<1>5. /\ a \in Placed /\ b \in Placed /\ Append(base, a) \in Seq(Placed)
      /\ calls' = Append(Append(base, a), b) /\ a.context = n /\ b.context = n + 1
      /\ a.expr = top.expr /\ Holds(a) /\ Holds(b)
  BY <1>2 DEF BodyEntered, Continues, Holds
<1> HIDE DEF base, n
<1>6. Reads(Append(base, a)) /\ Holding(Append(base, a))
  BY <1>3, <1>4, <1>5, SequencesAppend
<1>7. freeVariables[b.expr] \subseteq Known(Append(base, a), n + 1)
  <2>1. Known(Append(base, a), n + 1) =
          Known(base, n + 1) \union Opened(a, n + 1) \union ToSet(Binders(a, n + 1))
    BY <1>3, <1>5, WantedAppend
  <2> QED
    BY <1>2, <2>1 DEF BodyEntered
<1>8. Reads(calls') /\ Holding(calls')
  BY <1>5, <1>6, <1>7, SequencesAppend
<1>9. ASSUME NEW d \in 1 .. Len(contexts')
      PROVE  /\ Distinct(contexts'[d].closure_symbols)
             /\ ToSet(contexts'[d].closure_symbols) \subseteq Wanted(calls', d)
  <2>1. n \in Nat /\ Len(contexts) = n /\ Len(contexts') = n + 1
    BY <1>1, <1>3, TopFacts DEF Opens, ActivationType, n
  <2>2. CASE d = n + 1
    <3>1. contexts'[d].closure_symbols = <<>>
      BY <1>1, <2>2 DEF Opens
    <3>2. ToSet(<<>>) = {} /\ Distinct(<<>>)
      BY DEF ToSet, Distinct, IsInjective
    <3> QED
      BY <3>1, <3>2
  <2>3. CASE d \in 1 .. n
    <3>1. contexts'[d] = contexts[d] /\ d \in 1 .. Len(contexts)
      BY <1>1, <2>1, <2>3 DEF Opens
    <3>2. Wanted(calls, d) \subseteq Wanted(calls', d)
      BY <1>2 DEF BodyEntered
    <3> QED
      BY <3>1, <3>2 DEF HoldsInv
  <2> QED
    BY <2>1, <2>2, <2>3
<1> QED
  BY <1>8, <1>9 DEF HoldsInv


\* Below the running activation nothing is of the contexts above its own.
LEMMA NothingAbove ==
  ASSUME CompilerInv, calls # <<>>, NEW h, h = top.context
  PROVE  /\ Wanted(Front(calls), h + 1) = {}
         /\ Gathered(asked(h + 1), Front(calls)) = {}
         /\ NamesInScope(Front(calls), h + 1) = <<>>
<1> DEFINE base == Front(calls)
           m == h + 1
<1>1. /\ base \in Seq(Placed) /\ h \in Nat
      /\ \A i \in 1 .. Len(base) : InnerContext(base[i]) \in Nat /\ InnerContext(base[i]) <= h
  BY Base, TopFacts DEF Placed, ActivationType
<1>2. m \in Nat /\ m # h /\ h < m
  BY <1>1
<1> HIDE DEF base
<1>3. ASSUME NEW i \in 1 .. Len(base)
      PROVE  /\ base[i] \in Placed /\ InnerContext(base[i]) # m
             /\ Opened(base[i], m) = {} /\ Asked(base[i], m) = {}
  <2>1. base[i] \in Placed
    BY <1>1, ElementOfSeq
  <2>2. base[i].context \in Nat /\ base[i].context <= InnerContext(base[i])
    BY <2>1 DEF Placed, ActivationType, InnerContext
  <2>3. InnerContext(base[i]) \in Nat /\ InnerContext(base[i]) <= h
    BY <1>1
  <2>4. InnerContext(base[i]) # m /\ base[i].context # m
    BY <1>1, <1>2, <2>2, <2>3
  <2>5. base[i].at = "body" => base[i].context + 1 # m
    BY <2>4 DEF InnerContext
  <2> QED
    BY <2>1, <2>4, <2>5 DEF Opened, Asked
<1>4. Wanted(base, m) = {} /\ Gathered(asked(m), base) = {}
  <2>1. \A i \in 1 .. Len(base) : opened(m)[base[i]] = {} /\ asked(m)[base[i]] = {}
    BY <1>3 DEF opened, asked
  <2> QED
    BY <2>1 DEF Wanted, Gathered
<1>5. NamesInScope(base, m) = <<>>
  BY <1>1, <1>2, <1>3, NamesListed DEF ListsBound
<1> QED
  BY <1>4, <1>5 DEF base

\* When a body is finished, its context was wanted for no other lambda, and no
\* activation on the stack is to look anything up in it.
LEMMA FinishWanted ==
  ASSUME CompilerInv, FinishLambda, NEW h, h = top.context
  PROVE  /\ Wanted(calls, h + 1) = freeVariables[top.expr] \ {top.self_id}
         /\ Gathered(asked(h + 1), calls) = {}
         /\ \A d : d # h + 1 => Wanted(calls, d) = Wanted(Front(calls), d)
<1> DEFINE base == Front(calls)
           m == h + 1
<1>1. calls # <<>> /\ top.at = "body"
  BY DEF FinishLambda, At
<1>2. base \in Seq(Placed) /\ top \in Placed /\ h \in Nat /\ calls = Append(base, top)
  BY <1>1, Base, TopFacts DEF Placed, ActivationType
<1>3. Wanted(base, m) = {} /\ Gathered(asked(m), base) = {}
  BY <1>1, NothingAbove
<1> HIDE DEF base
<1>4. m # h
  BY <1>2
<1>5. /\ Opened(top, m) = freeVariables[top.expr] \ {top.self_id}
      /\ \A d : d # m => Opened(top, d) = {}
      /\ Asked(top, m) = {}
  BY <1>1, <1>4 DEF Opened, Asked
<1>6. \A d : /\ Wanted(calls, d) = Wanted(base, d) \union Opened(top, d)
             /\ Gathered(asked(d), calls) = Gathered(asked(d), base) \union Asked(top, d)
  BY <1>2, WantedAppend
<1> QED
  BY <1>3, <1>5, <1>6 DEF base

LEMMA FinishHolds ==
  ASSUME CompilerInv, HoldsInv, FinishLambda
  PROVE  HoldsInv'
<1> DEFINE base == Front(calls)
           h == top.context
<1>1. calls # <<>> /\ top.at = "body" /\ base \in Seq(Placed)
  BY Base DEF FinishLambda, At
<1>2. Closing(h)
  BY LambdaCloses
<1>3. PICK a : /\ Continues(a, top) /\ a.at = "closed"
               /\ a.closure = contexts[top.context + 1].closure_symbols
               /\ calls' = Append(Front(calls), a)
  BY FinishShape
<1>4. /\ Wanted(calls, h + 1) = freeVariables[top.expr] \ {top.self_id}
      /\ \A d : d # h + 1 => Wanted(calls, d) = Wanted(base, d)
  BY FinishWanted
<1>5. h \in Nat /\ h + 1 \in 1 .. Len(contexts)
  BY <1>2 DEF Closing
<1>6. Holds(a)
  <2>1. /\ Distinct(contexts[h + 1].closure_symbols)
        /\ ToSet(contexts[h + 1].closure_symbols) \subseteq Wanted(calls, h + 1)
    BY <1>5 DEF HoldsInv
  <2> QED
    BY <1>3, <1>4, <2>1 DEF Holds, Continues
<1>7. Reads(base) /\ Holding(base) /\ freeVariables[top.expr] \subseteq Known(base, h)
  BY <1>1, TopReads
<1>8. /\ a \in Placed /\ a.expr = top.expr /\ a.context = h
      /\ calls' = Append(base, a) /\ \A d : Opened(a, d) = {}
  BY <1>3 DEF Continues, Opened
<1> HIDE DEF base, h
<1>9. Reads(calls') /\ Holding(calls')
  BY <1>1, <1>6, <1>7, <1>8, SequencesAppend
<1>10. ASSUME NEW d \in 1 .. Len(contexts')
       PROVE  /\ Distinct(contexts'[d].closure_symbols)
              /\ ToSet(contexts'[d].closure_symbols) \subseteq Wanted(calls', d)
  <2>1. /\ d \in 1 .. Len(contexts) /\ d # h + 1
        /\ contexts'[d].closure_symbols = contexts[d].closure_symbols
    <3>1. d \in 1 .. h /\ Len(contexts) = h + 1
      BY <1>2 DEF Closing
    <3>2. d \in 1 .. Len(contexts) /\ d # h + 1
      BY <1>5, <3>1
    <3> QED
      BY <1>2, <3>1, <3>2 DEF Closing, SameScope
  <2>2. /\ Distinct(contexts[d].closure_symbols)
        /\ ToSet(contexts[d].closure_symbols) \subseteq Wanted(calls, d)
    BY <2>1 DEF HoldsInv
  <2>3. Wanted(calls', d) = Wanted(base, d) \union Opened(a, d)
    BY <1>1, <1>8, WantedAppend
  <2> QED
    BY <1>4, <1>8, <2>1, <2>2, <2>3
<1> QED
  BY <1>9, <1>10 DEF HoldsInv

LEMMA FinishModuleHolds ==
  ASSUME CompilerInv, HoldsInv, FinishModule
  PROVE  HoldsInv'
<1>1. calls # <<>> /\ calls' = Front(calls) /\ contexts' = <<>>
  BY DEF FinishModule, At, Return
<1>2. Reads(calls') /\ Holding(calls')
  BY <1>1, TopReads
<1>3. 1 .. Len(contexts') = {}
  BY <1>1
<1> QED
  BY <1>2, <1>3 DEF HoldsInv

\* The stack of CompileExpression's first call, and its context.
Starting(main, enter) ==
  /\ main \in Placed /\ main.at = "module" /\ main.expr = program /\ main.context = 1
  /\ enter \in Placed /\ enter.at = "enter" /\ enter.expr = program /\ enter.context = 1
  /\ enter.i = 0 /\ enter.self_id = INVALID_SYMBOL
  /\ program \in Programs /\ program \in Expression /\ errors = 0 /\ freed = {}
  /\ Append(<<>>, main) \in Seq(Placed) /\ <<>> \in Seq(Placed)
  /\ calls = Append(Append(<<>>, main), enter)
  /\ Len(contexts) = 1 /\ contexts[1].closure_symbols = <<>>
  /\ contexts[1].bindings = <<>>

LEMMA Starts ==
  ASSUME Init
  PROVE  \E main, enter : Starting(main, enter)
<1> DEFINE main == [Activation("module", program, 1) EXCEPT !.array = 1]
           enter == Activation("enter", program, 1)
           blank == InitCompileContext(<<>>)
<1>1. /\ CompilerInv /\ calls = <<main, enter>> /\ contexts = <<blank>>
      /\ program \in Programs /\ errors = 0 /\ freed = {}
  BY CompilerInit DEF Init
<1>2. /\ main.at = "module" /\ main.expr = program /\ main.context = 1
      /\ enter.at = "enter" /\ enter.expr = program /\ enter.context = 1
      /\ enter.i = 0 /\ enter.self_id = INVALID_SYMBOL
  BY DEF Activation
<1>3. blank.closure_symbols = <<>> /\ blank.bindings = <<>>
  BY DEF InitCompileContext
<1> HIDE DEF main, enter, blank
<1>4. main \in Placed /\ enter \in Placed
  <2>1. calls \in Seq(Placed) /\ Len(calls) = 2 /\ calls[1] = main /\ calls[2] = enter
    BY <1>1 DEF CompilerInv, Stack
  <2>2. 1 \in 1 .. Len(calls) /\ 2 \in 1 .. Len(calls)
    BY <2>1
  <2> QED
    BY <2>1, <2>2, ElementOfSeq
<1>5. program \in Expression
  BY <1>2, <1>4 DEF Placed, ActivationType
<1>6. /\ calls = Append(Append(<<>>, main), enter) /\ <<>> \in Seq(Placed)
      /\ Append(<<>>, main) \in Seq(Placed)
  BY <1>1, <1>4, EmptySeq, AppendProperties
<1>7. Len(contexts) = 1 /\ contexts[1] = blank
  BY <1>1
<1> QED
  BY <1>1, <1>2, <1>3, <1>4, <1>5, <1>6, <1>7 DEF Starting

LEMMA HoldsFirst ==
  ASSUME TreesFinite, TuplesUniform, \A p \in Programs : WellScoped(p, {}), Init
  PROVE  HoldsInv
<1>1. PICK main, enter : Starting(main, enter)
  BY Starts
<1> DEFINE one == Append(<<>>, main)
<1>2. freeVariables[program] = {}
  BY <1>1, FreeInScope DEF Starting
<1>3. Reads(<<>>) /\ Holding(<<>>)
  BY DEF Reads, Holding
<1>4. Reads(one) /\ Holding(one) /\ one \in Seq(Placed)
  BY <1>1, <1>2, <1>3, SequencesAppend DEF Starting, Holds
<1> HIDE DEF one
<1>5. Reads(Append(one, enter)) /\ Holding(Append(one, enter))
  BY <1>1, <1>2, <1>4, SequencesAppend DEF Starting, Holds
<1>6. ASSUME NEW d \in 1 .. Len(contexts)
      PROVE  /\ Distinct(contexts[d].closure_symbols)
             /\ ToSet(contexts[d].closure_symbols) \subseteq Wanted(calls, d)
  <2>1. d = 1
    BY <1>1 DEF Starting
  <2>2. ToSet(<<>>) = {} /\ Distinct(<<>>)
    BY DEF ToSet, Distinct, IsInjective
  <2> QED
    BY <1>1, <2>1, <2>2 DEF Starting
<1> QED
  BY <1>1, <1>5, <1>6 DEF HoldsInv, Starting, one

LEMMA HoldsStep ==
  ASSUME TreesFinite, TuplesUniform, CompilerInv, ScopesInv, HoldsInv, [CompileNext]_vars
  PROVE  HoldsInv'
<1>1. CASE UNCHANGED vars
  BY <1>1 DEF vars, HoldsInv, Wanted, Reads, Holding
<1>2. CASE \/ CompileLet \/ CompileFirst \/ CompileUnary \/ CompileIf \/ LetRecBody
           \/ BindLet \/ CompileSecond \/ CompileThen \/ CompileElse
           \/ CompileTuple \/ NextMember \/ CompileLetRec
  <2>1. Tidy /\ Descent /\ Running
    BY <1>2, TidyDescents
  <2>2. PICK c : Kept(c)
    BY <2>1, TidyKept
  <2> QED
    BY <2>1, <2>2, HoldsDescend
<1>3. CASE \/ CompileLiteral \/ RejectLetRec \/ CompileOperator \/ CompileUnaryOperator
           \/ EndIf \/ EndTuple \/ ReturnClosure
  <2>1. Tidy /\ Returns /\ Running
    BY <1>3, TidyReturns
  <2>2. PICK c : Kept(c)
    BY <2>1, TidyKept
  <2> QED
    BY <2>1, <2>2, HoldsReturn
<1> QED
  BY <1>1, <1>2, <1>3, IdentifierHolds, CloseHolds, EndLetHolds, LambdaHolds,
     EnterHolds, FinishHolds, FinishModuleHolds DEF CompileNext


-----------------------------------------------------------------------------
(***************************************************************************)
(* Spent names do not come again, when every binder has a name of its own. *)
(***************************************************************************)
LEMMA TameAppend ==
  ASSUME NEW s \in Seq(Placed), NEW a \in Placed
  PROVE  AllTame(Append(s, a)) <=> AllTame(s) /\ Tame(a.expr)
<1> DEFINE n == Len(s)
           t == Append(s, a)
<1>1. /\ n \in Nat /\ Len(t) = n + 1 /\ t[n + 1] = a
      /\ \A i \in 1 .. n : t[i] = s[i]
  BY AppendProperties, LenProperties
<1>2. /\ \A i \in 1 .. n + 1 : i \in 1 .. n \/ i = n + 1
      /\ \A i \in 1 .. n : i \in 1 .. n + 1
      /\ n + 1 \in 1 .. n + 1
  BY <1>1
<1> HIDE DEF t, n
<1> QED
  BY <1>1, <1>2 DEF AllTame, n, t

LEMMA TopComes ==
  ASSUME CompilerInv, calls # <<>>, SpentInv
  PROVE  /\ AllTame(Front(calls)) /\ Tame(top.expr) /\ Apart(Front(calls))
         /\ Coming(top) \intersect ComingOf(Front(calls)) = {}
         /\ Spent \intersect (ComingOf(Front(calls)) \union Coming(top)) = {}
<1> DEFINE base == Front(calls)
<1>1. base \in Seq(Placed) /\ calls = Append(base, top) /\ top \in Placed
  BY Base, TopFacts
<1> HIDE DEF base
<1>2. /\ AllTame(Append(base, top)) => AllTame(base) /\ Tame(top.expr)
      /\ Apart(Append(base, top)) =>
           Apart(base) /\ Coming(top) \intersect ComingOf(base) = {}
      /\ ComingOf(Append(base, top)) = ComingOf(base) \union Coming(top)
  BY <1>1, TameAppend, SequencesAppend, WantedAppend
<1> QED
  BY <1>1, <1>2 DEF SpentInv, base

LEMMA SpentReturn ==
  ASSUME CompilerInv, calls # <<>>, SpentInv, Returns,
         Spent' \subseteq Spent \union Coming(top)
  PROVE  SpentInv'
<1>1. calls' = Front(calls)
  BY DEF Returns
<1> QED
  BY <1>1, TopComes DEF SpentInv, AllTame, Apart, ComingOf, ComingBelow

LEMMA SpentBecome ==
  ASSUME CompilerInv, calls # <<>>, SpentInv, NEW a, Becomes(a), a.expr = top.expr,
         Coming(a) \subseteq Coming(top),
         Spent' \subseteq Spent \union (Coming(top) \ Coming(a))
  PROVE  SpentInv'
<1> DEFINE base == Front(calls)
<1>1. base \in Seq(Placed) /\ a \in Placed /\ calls' = Append(base, a)
  BY Base DEF Becomes
<1>2. /\ AllTame(base) /\ Tame(top.expr) /\ Apart(base)
      /\ Coming(top) \intersect ComingOf(base) = {}
      /\ Spent \intersect (ComingOf(base) \union Coming(top)) = {}
  BY TopComes
<1> HIDE DEF base
<1>3. /\ AllTame(Append(base, a)) /\ Apart(Append(base, a))
      /\ ComingOf(Append(base, a)) = ComingOf(base) \union Coming(a)
  BY <1>1, <1>2, TameAppend, SequencesAppend, WantedAppend
<1>4. AllTame(calls') /\ Apart(calls') /\ ComingOf(calls') = ComingOf(base) \union Coming(a)
  BY <1>1, <1>3
<1> QED
  BY <1>2, <1>4 DEF SpentInv, AllTame, Apart, ComingOf, ComingBelow

LEMMA SpentPush ==
  ASSUME CompilerInv, calls # <<>>, SpentInv, NEW a \in Placed, NEW b \in Placed,
         a.expr = top.expr, Tame(b.expr),
         Coming(a) \union Coming(b) \subseteq Coming(top),
         Coming(a) \intersect Coming(b) = {},
         Spent' \subseteq Spent, calls' = Append(Append(Front(calls), a), b)
  PROVE  SpentInv'
<1> DEFINE base == Front(calls)
<1>1. base \in Seq(Placed) /\ calls' = Append(Append(base, a), b)
  BY Base
<1>2. /\ AllTame(base) /\ Tame(top.expr) /\ Apart(base)
      /\ Coming(top) \intersect ComingOf(base) = {}
      /\ Spent \intersect (ComingOf(base) \union Coming(top)) = {}
  BY TopComes
<1> HIDE DEF base
<1> DEFINE one == Append(base, a)
<1>3. /\ one \in Seq(Placed) /\ AllTame(one) /\ Apart(one)
      /\ ComingOf(one) = ComingOf(base) \union Coming(a)
  BY <1>1, <1>2, TameAppend, SequencesAppend, WantedAppend, AppendProperties
<1>4. calls' = Append(one, b)
  BY <1>1
<1> HIDE DEF one
<1>5. /\ AllTame(Append(one, b)) /\ Apart(Append(one, b))
      /\ ComingOf(Append(one, b)) = ComingOf(one) \union Coming(b)
  BY <1>2, <1>3, TameAppend, SequencesAppend, WantedAppend
<1>6. /\ AllTame(calls') /\ Apart(calls')
      /\ ComingOf(calls') = ComingOf(base) \union Coming(a) \union Coming(b)
  BY <1>3, <1>4, <1>5
<1> QED
  BY <1>2, <1>6 DEF SpentInv, AllTame, Apart, ComingOf, ComingBelow

\* What the step of the running context alone buries.
LEMMA SpentUpdated ==
  ASSUME NEW c, Updated(c), NEW E, Buried(c) \subseteq Buried(context) \union E,
         freed' = freed
  PROVE  Spent' \subseteq Spent \union E
<1> SUFFICES ASSUME NEW x \in Spent' PROVE x \in Spent \union E
  OBVIOUS
<1>1. CASE \E d \in 1 .. Len(contexts') : x \in Buried(contexts'[d])
  <2>1. PICK d \in 1 .. Len(contexts') : x \in Buried(contexts'[d])
    BY <1>1
  <2>2. /\ d \in 1 .. Len(contexts)
        /\ contexts'[d] = IF d = top.context THEN c ELSE contexts[d]
    BY <2>1 DEF Updated
  <2>3. x \in Buried(contexts[d]) \union E
    BY <2>1, <2>2 DEF context
  <2> QED
    BY <2>2, <2>3 DEF Spent
<1>2. CASE \E f \in freed : x \in Entries(f, 2)
  BY <1>2 DEF Spent
<1> QED
  BY <1>1, <1>2 DEF Spent

LEMMA SpentTidy ==
  ASSUME Tidy, freed' = freed
  PROVE  Spent' \subseteq Spent
<1>1. PICK c : Updated(c) /\ Tidies(context, c)
  BY DEF Tidy
<1> QED
  BY <1>1, SpentUpdated DEF Tidies

LEMMA SpentLookup ==
  ASSUME NEW c, NEW id, Looks(c, id), freed' = freed
  PROVE  Spent' \subseteq Spent
BY SpentUpdated DEF Looks, LookedUp, Buried

LEMMA SpentDescends ==
  ASSUME TreesFinite, CompilerInv, SpentInv, Running, Descent, Tidy, freed' = freed
  PROVE  SpentInv'
<1>1. PICK a, b \in Placed :
        Descends(top, a, b) /\ calls' = Append(Append(Front(calls), a), b)
  BY DEF Descent
<1>2. calls # <<>> /\ top \in Placed /\ top.expr \in Expression
  BY TopFacts DEF Running
<1>3. Tame(top.expr) /\ BindsOnce(top.expr)
  BY <1>2, TopComes, PartsTame
<1>4. /\ Coming(a) \union Coming(b) \subseteq Coming(top)
      /\ Coming(a) \intersect Coming(b) = {}
      /\ Tame(b.expr) /\ a.expr = top.expr
  BY <1>1, <1>2, <1>3, DescentComes, DescentTame DEF Descends
<1> QED
  BY <1>1, <1>2, <1>4, SpentTidy, SpentPush

\* The last name that a context has bound, and the names from there on.
LEMMA LastBound ==
  ASSUME NEW c \in ContextType, NEW names \in Seq(Symbol), NEW id \in Symbol,
         HasBound(c, names \o <<id>>)
  PROVE  /\ c.binding_top = Len(names) + 1
         /\ Entries(c.bindings, c.binding_top) \subseteq Buried(c) \union {id}
<1> DEFINE n == Len(names)
           more == names \o <<id>>
           one == <<id>>
<1>1. n \in Nat /\ one \in Seq(Symbol) /\ Len(one) = 1 /\ one[1] = id
  BY LenProperties
<1> HIDE DEF one
<1>2. /\ Len(more) = n + 1
      /\ \A k \in 1 .. n + 1 : more[k] = IF k <= n THEN names[k] ELSE one[k - n]
  BY <1>1, ConcatProperties DEF one
<1>3. /\ c.binding_top \in Nat /\ Len(more) = c.binding_top
      /\ \A k \in 1 .. c.binding_top : c.bindings[k].symbol = more[k]
  BY DEF HasBound
<1> HIDE DEF n, more
<1>4. c.binding_top = n + 1
  BY <1>2, <1>3
<1>5. c.bindings[n + 1].symbol = id
  <2>1. n + 1 \in 1 .. n + 1 /\ ~ (n + 1 <= n) /\ n + 1 - n = 1
    BY <1>1
  <2> QED
    BY <1>1, <1>2, <1>3, <1>4, <2>1
<1>6. DOMAIN c.bindings \subseteq Int
  BY LenProperties DEF ContextType
<1>7. \A k \in DOMAIN c.bindings : k >= n + 1 => k >= n + 1 + 1 \/ k = n + 1
  BY <1>1, <1>6
<1> QED
  BY <1>4, <1>5, <1>7 DEF Entries, Buried, n

LEMMA EndLetSpends ==
  ASSUME CompilerInv, ScopesInv, SpentInv, EndLet
  PROVE  SpentInv'
<1> DEFINE id == top.expr.let_id
           c == PopBinding(context)
           n == top.context
           names == NamesInScope(Front(calls), n)
<1>1. Running /\ calls # <<>> /\ top.at = "let_body" /\ Updated(c) /\ Returns
      /\ freed' = freed
  BY EndLetEnds DEF EndLet, Running
<1>2. top.expr.type \in {"LET", "LETREC"} /\ top \in Placed /\ context \in ContextType
  BY <1>1, TopFacts DEF Placed, ExpressionType
<1>3. id \in Symbol
  BY <1>1, <1>2, TopParts
<1>4. Front(calls) \in Seq(Placed) /\ calls = Append(Front(calls), top)
  BY <1>1, Base
<1>5. names \in Seq(Symbol) /\ NamesInScope(calls, n) = names \o <<id>>
  <2>1. Binders(top, n) = <<id>>
    BY <1>1 DEF Binders
  <2>2. NamesInScope(Append(Front(calls), top), n) = names \o Binders(top, n)
    BY <1>2, <1>4, ScopeAppend
  <2> QED
    BY <1>4, <2>1, <2>2, ScopesType
<1>6. HasBound(context, names \o <<id>>)
  BY <1>1, <1>5, RunningScope
<1>7. Coming(top) = {id}
  BY <1>1 DEF Coming
<1>8. c.bindings = context.bindings /\ c.binding_top + 1 = context.binding_top
  BY <1>2 DEF PopBinding, ContextType
<1> HIDE DEF id, names, c
<1>9. Buried(c) \subseteq Buried(context) \union Coming(top)
  <2>1. Entries(context.bindings, context.binding_top) \subseteq Buried(context) \union {id}
    BY <1>2, <1>3, <1>5, <1>6, LastBound
  <2> QED
    BY <1>7, <1>8, <2>1 DEF Buried
<1> QED
  BY <1>1, <1>9, SpentUpdated, SpentReturn


LEMMA LookupSpends ==
  ASSUME CompilerInv, SpentInv, CompileIdentifier \/ CloseVariable
  PROVE  SpentInv'
<1>1. calls # <<>> /\ freed' = freed
  BY DEF CompileIdentifier, CloseVariable, Enter, At
<1>2. CASE CompileIdentifier
  <2>1. PICK c : Looks(c, top.expr.identifier_id)
    BY <1>2, IdentifierLooks
  <2>2. Returns
    BY <1>2, IdentifierLooks
  <2> QED
    BY <1>1, <2>1, <2>2, SpentLookup, SpentReturn
<1>3. CASE CloseVariable
  <2>1. PICK c : Looks(c, top.closure[top.i + 1])
    BY <1>3, CloseLooks
  <2>2. PICK a : /\ Continues(a, top) /\ a.at = "closed"
                 /\ calls' = Append(Front(calls), a)
    BY <1>3, CloseShape
  <2>3. Coming(a) = {} /\ Becomes(a) /\ a.expr = top.expr
    BY <2>2 DEF Coming, Becomes, Continues
  <2> QED
    BY <1>1, <2>1, <2>3, SpentLookup, SpentBecome
<1> QED
  BY <1>2, <1>3

LEMMA LambdaSpends ==
  ASSUME CompilerInv, SpentInv, CompileLambda
  PROVE  SpentInv'
<1>1. calls # <<>> /\ freed' = freed /\ top.at = "enter"
  BY DEF CompileLambda, Enter, At
<1>2. Spent' \subseteq Spent
  BY <1>1, TidyWrites, SpentTidy
<1>3. PICK a : /\ Continues(a, top) /\ a.at = "lambda"
               /\ calls' = Append(Front(calls), a)
  BY LambdaShape
<1>4. Coming(a) = Coming(top) /\ Becomes(a) /\ a.expr = top.expr
  BY <1>1, <1>3 DEF Coming, Becomes, Continues
<1> QED
  BY <1>1, <1>2, <1>4, SpentBecome

LEMMA EnterSpends ==
  ASSUME TreesFinite, TuplesUniform, CompilerInv, SpentInv, EnterLambda
  PROVE  SpentInv'
<1> DEFINE n == top.context
<1>1. calls # <<>> /\ freed' = freed /\ top.at = "lambda"
  BY DEF EnterLambda, At
<1>2. top \in Placed /\ top.expr \in Expression /\ top.expr.type = "LAMBDA" /\ n \in Nat
  BY <1>1, TopFacts DEF Placed, ActivationType, ExpressionType
<1>3. PICK new : Opens(n, new)
  BY LambdaOpens
<1>4. PICK a, b : BodyEntered(n, a, b)
  BY BodyEnters
<1>5. Tame(top.expr) /\ BindsOnce(top.expr) /\ Tame(top.expr.lambda_body)
  BY <1>1, <1>2, TopComes, PartsTame, ChildrenByType
<1>6. /\ Coming(a) = {top.expr.lambda_id} /\ Coming(b) = boundNames[top.expr.lambda_body]
      /\ Coming(top) = {top.expr.lambda_id} \union boundNames[top.expr.lambda_body]
  <2>1. /\ Coming(a) = {top.expr.lambda_id} /\ Coming(b) = boundNames[top.expr.lambda_body]
        /\ Coming(top) = boundNames[top.expr]
    BY <1>1, <1>4 DEF Coming, BodyEntered, Continues
  <2> QED
    BY <1>2, <2>1, BoundByType
<1>7. top.expr.lambda_id \notin boundNames[top.expr.lambda_body]
  BY <1>2, <1>5 DEF BindsOnce
<1>8. Spent' \subseteq Spent
  <2> SUFFICES ASSUME NEW x \in Spent' PROVE x \in Spent
    OBVIOUS
  <2>1. CASE \E d \in 1 .. Len(contexts') : x \in Buried(contexts'[d])
    <3>1. PICK d \in 1 .. Len(contexts') : x \in Buried(contexts'[d])
      BY <2>1
    <3>2. d \in 1 .. Len(contexts) \/ d = n + 1
      BY <1>2, <1>3 DEF Opens
    <3>3. CASE d \in 1 .. Len(contexts)
      BY <1>3, <3>1, <3>3 DEF Opens, Spent
    <3>4. CASE d = n + 1
      <4>1. x \in UNION { Entries(f, 2) : f \in freed }
        BY <1>3, <3>1, <3>4 DEF Opens
      <4> QED
        BY <4>1 DEF Spent
    <3> QED
      BY <3>2, <3>3, <3>4
  <2>2. CASE \E f \in freed : x \in Entries(f, 2)
    BY <2>2 DEF Spent
  <2> QED
    BY <1>1, <2>1, <2>2 DEF Spent
<1> QED
  BY <1>1, <1>4, <1>5, <1>6, <1>7, <1>8, SpentPush DEF BodyEntered, Continues

LEMMA FinishSpends ==
  ASSUME CompilerInv, ScopesInv, SpentInv, FinishLambda
  PROVE  SpentInv'
<1> DEFINE h == top.context
           child == contexts[h + 1]
           id == top.expr.lambda_id
           self == SelfName(top.self_id)
           base == Front(calls)
<1>1. calls # <<>> /\ top.at = "body"
  BY DEF FinishLambda, At
<1>2. /\ top \in Placed /\ top.expr.type = "LAMBDA" /\ top.expr \in Expression
      /\ contexts \in Seq(ContextType) /\ top.self_id \in Symbol \union {INVALID_SYMBOL}
      /\ base \in Seq(Placed) /\ calls = Append(base, top)
  BY <1>1, Base, TopFacts DEF CompilerInv, Placed, ActivationType, ExpressionType
<1>3. Closing(h)
  BY LambdaCloses
<1>4. h \in Nat \ {0} /\ h + 1 \in 1 .. Len(contexts)
  BY <1>3 DEF Closing
<1>5. child \in ContextType /\ id \in Symbol
  BY <1>2, <1>4, ElementOfSeq, Subexpressions
<1>6. self \in Seq(Symbol) /\ Len(self) \in {0, 1}
  BY <1>2, EmptySeq DEF SelfName
<1>7. HasBound(child, self \o <<id>>)
  <2>1. Binders(top, h + 1) = self \o <<id>>
    <3> DEFINE m == h + 1
    <3>1. m - 1 = h /\ h # m
      BY <1>4
    <3> HIDE DEF m
    <3>2. Binders(top, m) =
            (IF top.self_id = INVALID_SYMBOL THEN <<>> ELSE <<top.self_id>>) \o <<id>>
      BY <1>1, <3>1 DEF Binders
    <3> QED
      BY <3>2 DEF m, SelfName
  <2>2. NamesInScope(base, h + 1) = <<>>
    BY <1>1, NothingAbove
  <2>3. NamesInScope(Append(base, top), h + 1) = <<>> \o Binders(top, h + 1)
    BY <1>2, <2>2, ScopeAppend
  <2>4. NamesInScope(calls, h + 1) = Binders(top, h + 1)
    <3>1. Binders(top, h + 1) \in Seq(Symbol)
      BY <1>2, BindersType
    <3> QED
      BY <1>2, <2>3, <3>1, ConcatEmptySeq
  <2>5. HasBound(child, NamesInScope(calls, h + 1))
    BY <1>4 DEF ScopesInv, ContextScoped
  <2> QED
    BY <2>1, <2>4, <2>5
<1> HIDE DEF self, id
<1>8. Entries(child.bindings, 2) \subseteq Buried(child) \union {id}
  <2>1. /\ child.binding_top = Len(self) + 1
        /\ Entries(child.bindings, child.binding_top) \subseteq Buried(child) \union {id}
    BY <1>5, <1>6, <1>7, LastBound
  <2>2. child.binding_top \in {1, 2}
    <3> DEFINE k == Len(self)
               t == child.binding_top
    <3>1. t = k + 1 /\ k \in {0, 1}
      BY <1>6, <2>1
    <3> HIDE DEF k, t
    <3>2. t \in {1, 2}
      BY <3>1
    <3> QED
      BY <3>2 DEF t
  <2>3. \A k \in DOMAIN child.bindings : k >= 2 => k >= child.binding_top
    <3>1. DOMAIN child.bindings \subseteq Int
      BY <1>5, LenProperties DEF ContextType
    <3> QED
      BY <2>2, <3>1
  <2> QED
    BY <2>1, <2>3 DEF Entries
<1>9. Coming(top) = {id}
  BY <1>1 DEF Coming, id
<1>10. PICK a : /\ Continues(a, top) /\ a.at = "closed"
                /\ calls' = Append(Front(calls), a)
  BY FinishShape
<1>11. Coming(a) = {} /\ Becomes(a) /\ a.expr = top.expr
  BY <1>10 DEF Coming, Becomes, Continues
<1>12. Spent' \subseteq Spent \union {id}
  <2> SUFFICES ASSUME NEW x \in Spent' PROVE x \in Spent \union {id}
    OBVIOUS
  <2>1. CASE \E d \in 1 .. Len(contexts') : x \in Buried(contexts'[d])
    <3>1. PICK d \in 1 .. Len(contexts') : x \in Buried(contexts'[d])
      BY <2>1
    <3>2. SameScope(contexts[d], contexts'[d]) /\ d \in 1 .. Len(contexts)
      BY <1>3, <3>1 DEF Closing
    <3>3. x \in Buried(contexts[d])
      BY <3>1, <3>2 DEF SameScope, SameBindings, Buried
    <3> QED
      BY <3>2, <3>3 DEF Spent
  <2>2. CASE \E f \in freed' : x \in Entries(f, 2)
    <3>1. PICK f \in freed \union {child.bindings} : x \in Entries(f, 2)
      BY <1>3, <2>2 DEF Closing
    <3>2. CASE f \in freed
      BY <3>1, <3>2 DEF Spent
    <3>3. CASE f = child.bindings
      <4>1. x \in Buried(child) \union {id}
        BY <1>8, <3>1, <3>3
      <4> QED
        BY <1>4, <4>1 DEF Spent
    <3> QED
      BY <3>2, <3>3
  <2> QED
    BY <2>1, <2>2 DEF Spent
<1> QED
  BY <1>1, <1>9, <1>11, <1>12, SpentBecome

LEMMA FinishModuleSpends ==
  ASSUME CompilerInv, SpentInv, FinishModule
  PROVE  SpentInv'
<1>1. calls # <<>> /\ calls' = Front(calls) /\ top.at = "module"
  BY DEF FinishModule, At, Return
<1>2. calls' = <<>>
  BY <1>1, StackFront DEF CompilerInv, top
<1>3. ComingOf(<<>>) = {} /\ 1 .. Len(<<>>) = {}
  BY GatheredNone DEF ComingOf
<1> QED
  BY <1>2, <1>3 DEF SpentInv, AllTame, Apart, ComingOf

LEMMA SpentFirst ==
  ASSUME Init, Tame(program)
  PROVE  SpentInv
<1>1. PICK main, enter : Starting(main, enter)
  BY Starts
<1> DEFINE one == Append(<<>>, main)
<1>2. AllTame(<<>>) /\ Apart(<<>>) /\ ComingOf(<<>>) = {}
  BY GatheredNone DEF AllTame, Apart, ComingOf
<1>3. Coming(main) = {}
  BY <1>1 DEF Starting, Coming
<1>4. AllTame(one) /\ Apart(one) /\ ComingOf(one) = {} /\ one \in Seq(Placed)
  <2>1. main \in Placed /\ <<>> \in Seq(Placed) /\ one \in Seq(Placed) /\ Tame(main.expr)
    BY <1>1 DEF Starting
  <2>2. AllTame(one) /\ ComingOf(one) = {}
    BY <1>2, <1>3, <2>1, TameAppend, WantedAppend
  <2>3. Apart(one)
    BY <1>2, <1>3, <2>1, SequencesAppend
  <2> QED
    BY <2>1, <2>2, <2>3
<1> HIDE DEF one
<1>5. AllTame(Append(one, enter)) /\ Apart(Append(one, enter))
  BY <1>1, <1>4, TameAppend, SequencesAppend DEF Starting
<1>6. Spent = {}
  <2>1. DOMAIN <<>> = {}
    OBVIOUS
  <2>2. Buried(contexts[1]) = {}
    BY <1>1, <2>1 DEF Starting, Buried, Entries
  <2>3. 1 .. Len(contexts) = {1} /\ freed = {}
    BY <1>1 DEF Starting
  <2> QED
    BY <2>2, <2>3 DEF Spent
<1> QED
  BY <1>1, <1>5, <1>6 DEF SpentInv, Starting, one

LEMMA SpentStep ==
  ASSUME TreesFinite, TuplesUniform, CompilerInv, ScopesInv, SpentInv, [CompileNext]_vars
  PROVE  SpentInv'
<1>1. CASE UNCHANGED vars
  BY <1>1 DEF vars, SpentInv, AllTame, Apart, ComingOf, Spent, ComingBelow
<1>2. CASE \/ CompileLet \/ CompileFirst \/ CompileUnary \/ CompileIf \/ LetRecBody
           \/ BindLet \/ CompileSecond \/ CompileThen \/ CompileElse
           \/ CompileTuple \/ NextMember \/ CompileLetRec
  BY <1>2, TidyDescents, SpentDescends
<1>3. CASE \/ CompileLiteral \/ RejectLetRec \/ CompileOperator \/ CompileUnaryOperator
           \/ EndIf \/ EndTuple \/ ReturnClosure
  <2>1. Tidy /\ Returns /\ Running /\ freed' = freed
    BY <1>3, TidyReturns
  <2> QED
    BY <2>1, SpentTidy, SpentReturn DEF Running
<1> QED
  BY <1>1, <1>2, <1>3, LookupSpends, EndLetSpends, LambdaSpends, EnterSpends,
     FinishSpends, FinishModuleSpends DEF CompileNext


-----------------------------------------------------------------------------
(***************************************************************************)
(* A variable that a closure wants is not found among the bindings of its  *)
(* context: neither alive, as the names differ, nor spent.                 *)
(***************************************************************************)
LEMMA BindersNames ==
  ASSUME NEW a \in Placed, NEW d \in Nat, NEW id \in ToSet(Binders(a, d))
  PROVE  /\ InnerContext(a) = d
         /\ id \in Names(a) \/ (a.at = "body" /\ id = a.self_id)
<1>1. InnerContext(a) = d
  <2>1. ToSet(<<>>) = {}
    BY DEF ToSet
  <2> QED
    BY <2>1, BindersElsewhere
<1>2. CASE a.at = "body"
  BY <1>1, <1>2, BindersAre DEF InnerContext, Names
<1>3. CASE a.at # "body"
  <2>1. d = a.context
    BY <1>1, <1>3 DEF InnerContext
  <2>2. a.at \in {"let_body", "rec_value"} /\ id = a.expr.let_id
    BY <2>1, BindersAre
  <2>3. Names(a) = {a.expr.let_id}
    BY <2>2 DEF Names
  <2> QED
    BY <1>1, <2>2, <2>3
<1> QED
  BY <1>1, <1>2, <1>3

LEMMA NamesCome ==
  ASSUME NEW a \in Placed
  PROVE  Names(a) \subseteq coming[a]
<1>1. coming[a] = Coming(a)
  BY DEF coming
<1>2. Names(a) \subseteq Coming(a)
  BY DEF Names, Coming
<1> QED
  BY <1>1, <1>2

\* Of the activations of a stack whose names are apart, one names id.
LEMMA NamedOnce ==
  ASSUME NEW s \in Seq(Placed), Apart(s), NEW i \in 1 .. Len(s), NEW j \in 1 .. Len(s),
         NEW id, id \in Names(s[i]), id \in Names(s[j])
  PROVE  i = j
<1>1. Len(s) \in Nat /\ s[i] \in Placed /\ s[j] \in Placed
  BY ElementOfSeq, LenProperties
<1>2. id \in coming[s[i]] /\ id \in coming[s[j]]
  BY <1>1, NamesCome
<1>3. ASSUME i < j PROVE FALSE
  <2>1. i \in 1 .. j - 1
    BY <1>1, <1>3
  <2>2. id \in ComingBelow(s, j)
    BY <1>2, <2>1 DEF ComingBelow, Below
  <2> QED
    BY <1>2, <2>2 DEF Apart
<1>4. ASSUME j < i PROVE FALSE
  <2>1. j \in 1 .. i - 1
    BY <1>1, <1>4
  <2>2. id \in ComingBelow(s, i)
    BY <1>2, <2>1 DEF ComingBelow, Below
  <2> QED
    BY <1>2, <2>2 DEF Apart
<1> QED
  BY <1>1, <1>3, <1>4

LEMMA WantedUnbound ==
  ASSUME TreesFinite, TuplesUniform, CompilerInv, ScopesInv, SpentInv,
         Running, ~ Binds(top), NEW id \in Wanted(Front(calls), top.context)
  PROVE  Bound(context, id) = {}
<1> DEFINE base == Front(calls)
           h == top.context
           n == Len(base)
<1>1. /\ base \in Seq(Placed) /\ calls # <<>> /\ context \in ContextType
      /\ h \in 1 .. Len(contexts) /\ h \in Nat /\ n \in Nat
  BY Base, TopFacts, LenProperties DEF Running, ActivationType
<1>2. Stack(base)
  BY <1>1, StackFront DEF CompilerInv
<1>3. /\ \A j \in 1 .. n : base[j] \in Placed /\ base[j].context \in Nat
                           /\ InnerContext(base[j]) \in Nat
      /\ \A i, j \in 1 .. n : i < j => InnerContext(base[i]) <= base[j].context
  <2>1. \A j \in 1 .. n : base[j] \in Placed
    BY <1>1, ElementOfSeq
  <2>2. \A a \in Placed : a.context \in Nat /\ InnerContext(a) \in Nat
    BY DEF Placed, ActivationType, InnerContext
  <2> QED
    BY <1>2, <2>1, <2>2 DEF Stack
<1>4. Scoped(base) /\ Apart(base) /\ Spent \intersect ComingOf(base) = {}
  BY <1>1, TopScoped, TopComes
<1>5. PICK j \in 1 .. n : id \in opened(h)[base[j]]
  BY DEF Wanted, Gathered
<1>6. /\ base[j].at = "body" /\ base[j].context + 1 = h
      /\ id \in freeVariables[base[j].expr] /\ id # base[j].self_id
  BY <1>3, <1>5 DEF opened, Opened
<1>7. PICK i \in 1 .. j - 1 : id \in Names(base[i])
  <2>1. WellScoped(base[j].expr, Visible(base, j)) /\ base[j].expr \in Expression
    BY <1>3, <1>4 DEF Scoped, ScopedAt, Placed, ActivationType
  <2>2. id \in Visible(base, j)
    BY <1>6, <2>1, FreeInScope
  <2> QED
    BY <2>2 DEF Visible
<1>8. i \in 1 .. n /\ InnerContext(base[i]) < h
  <2>1. i \in 1 .. n /\ i < j
    BY <1>1, <1>7
  <2>2. InnerContext(base[i]) <= base[j].context
    BY <1>3, <2>1
  <2>3. InnerContext(base[i]) \in Nat /\ base[j].context \in Nat
    BY <1>3, <2>1
  <2> QED
    BY <1>1, <1>6, <2>1, <2>2, <2>3
<1>9. id \in ComingOf(base)
  <2>1. id \in coming[base[i]]
    BY <1>3, <1>7, <1>8, NamesCome
  <2> QED
    BY <1>8, <2>1 DEF ComingOf, Gathered
<1> SUFFICES ASSUME NEW k \in Bound(context, id) PROVE FALSE
  OBVIOUS
<1>10. /\ k \in DOMAIN context.bindings /\ k \in Nat /\ context.bindings[k].symbol = id
       /\ k <= context.binding_top + 1 /\ context.binding_top \in Nat
  <2>1. DOMAIN context.bindings \subseteq Nat
    BY <1>1, LenProperties DEF ContextType
  <2>2. context.binding_top \in Nat
    BY RunningScope DEF HasBound
  <2> QED
    BY <2>1, <2>2 DEF Bound
<1>11. CASE k >= context.binding_top + 1
  <2>1. id \in Buried(context)
    BY <1>10, <1>11 DEF Buried, Entries
  <2>2. id \in Spent
    BY <1>1, <2>1 DEF Spent, context
  <2> QED
    BY <1>4, <1>9, <2>2
<1>12. CASE k <= context.binding_top
  <2>1. k \in 1 .. context.binding_top
    <3>1. k >= 1
      BY <1>1, <1>10, LenProperties DEF ContextType
    <3> QED
      BY <1>10, <1>12, <3>1
  <2>2. id \in ToSet(NamesInScope(base, h))
    BY <1>10, <2>1, NamesBoundHere
  <2>3. id \in Gathered(binders(h), base)
    BY <1>1, <2>2, NamesGathered DEF NamesAre
  <2>4. PICK m \in 1 .. n : id \in binders(h)[base[m]]
    BY <2>3 DEF Gathered
  <2>5. /\ InnerContext(base[m]) = h
        /\ id \in Names(base[m]) \/ (base[m].at = "body" /\ id = base[m].self_id)
    <3>1. base[m] \in Placed /\ id \in ToSet(Binders(base[m], h))
      BY <1>3, <2>4 DEF binders
    <3> QED
      BY <1>1, <3>1, BindersNames
  <2>6. CASE id \in Names(base[m])
    <3>1. m = i
      BY <1>1, <1>4, <1>7, <1>8, <2>6, NamedOnce
    <3> QED
      BY <1>1, <1>3, <1>8, <2>5, <3>1
  <2>7. CASE base[m].at = "body" /\ id = base[m].self_id
    <3>1. base[m].context + 1 = h
      BY <2>5, <2>7 DEF InnerContext
    <3>2. InnerContext(base[j]) = h
      BY <1>6 DEF InnerContext
    <3>3. m # j
      BY <1>6, <2>7
    <3>4. \/ InnerContext(base[m]) <= base[j].context
          \/ InnerContext(base[j]) <= base[m].context
      BY <1>1, <1>3, <3>3
    <3>5. base[j].context \in Nat /\ base[m].context \in Nat
      BY <1>3
    <3> HIDE DEF base, h, n
    <3> QED
      BY <1>1, <1>6, <2>5, <3>1, <3>2, <3>4, <3>5
  <2> QED
    BY <2>5, <2>6, <2>7
<1> QED
  BY <1>10, <1>11, <1>12


-----------------------------------------------------------------------------
(***************************************************************************)
(* The closures cover the free variables: the steps that stay in the       *)
(* running context.                                                        *)
(***************************************************************************)
LEMMA FullAppend ==
  ASSUME NEW s \in Seq(Placed), NEW a \in Placed, NEW k
  PROVE  AllFull(Append(s, a), k) <=> AllFull(s, k) /\ Full(a, k)
<1> DEFINE n == Len(s)
           t == Append(s, a)
<1>1. /\ n \in Nat /\ Len(t) = n + 1 /\ t[n + 1] = a
      /\ \A i \in 1 .. n : t[i] = s[i]
  BY AppendProperties, LenProperties
<1>2. /\ \A i \in 1 .. n + 1 : i \in 1 .. n \/ i = n + 1
      /\ \A i \in 1 .. n : i \in 1 .. n + 1
      /\ n + 1 \in 1 .. n + 1
  BY <1>1
<1> HIDE DEF t, n
<1> QED
  BY <1>1, <1>2 DEF AllFull, n, t

\* A step reports at most one error.
Reports == errors' \in {errors, errors + 1}

LEMMA TopFull ==
  ASSUME CompilerInv, calls # <<>>, CoversInv, Reports
  PROVE  /\ AllFull(Front(calls), errors') /\ Full(top, errors')
         /\ errors' = 0 => errors = 0
<1> DEFINE base == Front(calls)
<1>1. base \in Seq(Placed) /\ calls = Append(base, top) /\ top \in Placed
  BY Base, TopFacts
<1>2. errors' = 0 => errors = 0
  <2>1. errors \in Nat
    BY DEF CompilerInv
  <2> QED
    BY <2>1 DEF Reports
<1> HIDE DEF base
<1>3. AllFull(base, errors) /\ Full(top, errors)
  BY <1>1, FullAppend DEF CoversInv
<1>4. AllFull(base, errors') /\ Full(top, errors')
  BY <1>2, <1>3 DEF AllFull, Full
<1> QED
  BY <1>2, <1>4 DEF base

\* What the running context, become c, holds for the closures of context d.
Given(c, d) == IF d = top.context THEN ToSet(c.closure_symbols) ELSE {}

\* A step of the running context: what the running activation was asked for,
\* is given or still asked for.
LEMMA CoversUpdated ==
  ASSUME CompilerInv, Running, CoversInv, Reports, NEW c, Updated(c), Grown(calls'),
         ToSet(context.closure_symbols) \subseteq ToSet(c.closure_symbols),
         AllFull(calls', errors'),
         errors' = 0 => \A d :
           Gathered(asked(d), Front(calls))
             \union (Asked(top, d) \intersect Wanted(Front(calls), d))
               \subseteq Gathered(asked(d), calls') \union Given(c, d)
  PROVE  CoversInv'
<1>1. ASSUME errors' = 0, NEW d \in 1 .. Len(contexts)
      PROVE  Wanted(calls', d) \subseteq
               ToSet(contexts'[d].closure_symbols) \union Gathered(asked(d), calls')
  <2>1. calls # <<>> /\ errors = 0
    BY <1>1, TopFull DEF Running
  <2>2. contexts'[d] = IF d = top.context THEN c ELSE contexts[d]
    BY DEF Updated
  <2>3. /\ Wanted(calls', d) = Wanted(Front(calls), d)
        /\ Wanted(calls, d) = Wanted(Front(calls), d)
    BY <2>1, RunningGrown, WantedStays
  <2>4. Wanted(calls, d) \subseteq
          ToSet(contexts[d].closure_symbols) \union Gathered(asked(d), calls)
    BY <2>1 DEF CoversInv
  <2>5. Gathered(asked(d), calls) =
          Gathered(asked(d), Front(calls)) \union Asked(top, d)
    <3>1. Front(calls) \in Seq(Placed) /\ calls = Append(Front(calls), top) /\ top \in Placed
      BY <2>1, Base, TopFacts
    <3>2. Gathered(asked(d), Append(Front(calls), top)) =
            Gathered(asked(d), Front(calls)) \union Asked(top, d)
      BY <3>1, WantedAppend
    <3> QED
      BY <3>1, <3>2
  <2>6. Gathered(asked(d), Front(calls))
          \union (Asked(top, d) \intersect Wanted(Front(calls), d))
            \subseteq Gathered(asked(d), calls') \union Given(c, d)
    BY <1>1
  <2>7. ToSet(contexts[d].closure_symbols) \union Given(c, d) \subseteq
          ToSet(contexts'[d].closure_symbols)
    BY <2>2 DEF Given, context
  <2> QED
    BY <2>3, <2>4, <2>5, <2>6, <2>7
<1>2. Len(contexts') = Len(contexts)
  BY DEF Updated
<1> QED
  BY <1>1, <1>2 DEF CoversInv

LEMMA CoversReturn ==
  ASSUME CompilerInv, Running, CoversInv, Reports, NEW c, Updated(c), Returns,
         ToSet(context.closure_symbols) \subseteq ToSet(c.closure_symbols),
         errors' = 0 => \A d :
           Asked(top, d) \intersect Wanted(Front(calls), d) \subseteq Given(c, d)
  PROVE  CoversInv'
<1>1. calls' = Front(calls) /\ Grown(calls')
  BY DEF Returns, Grown
<1>2. AllFull(Front(calls), errors')
  BY TopFull DEF Running
<1> QED
  BY <1>1, <1>2, CoversUpdated

LEMMA CoversBecome ==
  ASSUME CompilerInv, Running, CoversInv, Reports, NEW c, Updated(c), NEW a, Becomes(a),
         a.at # "body", Full(a, errors'),
         ToSet(context.closure_symbols) \subseteq ToSet(c.closure_symbols),
         errors' = 0 => \A d :
           Asked(top, d) \intersect Wanted(Front(calls), d)
             \subseteq Asked(a, d) \union Given(c, d)
  PROVE  CoversInv'
<1> DEFINE base == Front(calls)
<1>1. base \in Seq(Placed) /\ a \in Placed /\ calls' = Append(base, a)
  BY Base DEF Running, Becomes
<1>2. Grown(calls')
  BY <1>1 DEF Grown, Inside
<1>3. AllFull(base, errors')
  BY TopFull DEF Running
<1> HIDE DEF base
<1>4. AllFull(calls', errors')
  BY <1>1, <1>3, FullAppend
<1>5. \A d : Gathered(asked(d), calls') = Gathered(asked(d), base) \union Asked(a, d)
  BY <1>1, WantedAppend
<1> QED
  BY <1>2, <1>4, <1>5, CoversUpdated DEF base

LEMMA CoversDescend ==
  ASSUME TreesFinite, TuplesUniform, CompilerInv, Running, CoversInv, errors' = errors,
         Descent, Tidy
  PROVE  CoversInv'
<1> DEFINE base == Front(calls)
<1>1. base \in Seq(Placed) /\ top \in Placed
  BY Base, TopFacts DEF Running
<1>2. PICK a, b \in Placed : Descends(top, a, b) /\ calls' = Append(Append(base, a), b)
  BY DEF Descent
<1>3. PICK c : Updated(c) /\ Tidies(context, c)
  BY DEF Tidy
<1>4. /\ a.at \notin {"enter", "lambda", "body", "closed"}
      /\ b.at \in {"enter", "lambda"} /\ b.i = 0
  BY <1>2 DEF Descends, Calls
<1>5. Full(a, errors') /\ Full(b, errors') /\ Grown(calls')
  BY <1>2, <1>4 DEF Full, Grown, Inside
<1>6. AllFull(base, errors') /\ Reports
  BY TopFull DEF Running, Reports
<1> HIDE DEF base
<1> DEFINE one == Append(base, a)
<1>7. /\ one \in Seq(Placed) /\ AllFull(one, errors')
      /\ \A d : Gathered(asked(d), one) = Gathered(asked(d), base) \union Asked(a, d)
  BY <1>1, <1>5, <1>6, FullAppend, WantedAppend, AppendProperties
<1>8. calls' = Append(one, b)
  BY <1>2
<1> HIDE DEF one
<1>9. /\ AllFull(calls', errors')
      /\ \A d : Gathered(asked(d), calls') = Gathered(asked(d), one) \union Asked(b, d)
  BY <1>5, <1>7, <1>8, FullAppend, WantedAppend
<1>10. \A d : Asked(top, d) \subseteq Asked(a, d) \union Asked(b, d)
  BY <1>1, <1>2, DescentAsks
<1>11. \A d : Gathered(asked(d), base) \union (Asked(top, d) \intersect Wanted(base, d))
                \subseteq Gathered(asked(d), calls') \union Given(c, d)
  BY <1>7, <1>9, <1>10
<1> QED
  BY <1>3, <1>5, <1>6, <1>9, <1>11, CoversUpdated DEF base, Tidies


LEMMA LeafCovers ==
  ASSUME TreesFinite, TuplesUniform, CompilerInv, CoversInv,
         \/ CompileLiteral \/ RejectLetRec \/ CompileOperator \/ CompileUnaryOperator
         \/ EndIf \/ EndTuple \/ ReturnClosure
  PROVE  CoversInv'
<1>1. Tidy /\ Returns /\ Running /\ Reports
  BY TidyReturns DEF Reports
<1>2. PICK c : Updated(c) /\ Tidies(context, c)
  BY <1>1 DEF Tidy
<1>3. top \in Placed /\ top.expr \in Expression
  BY <1>1, TopFacts DEF Running
<1>4. ASSUME errors' = 0, NEW d PROVE Asked(top, d) = {}
  <2>1. CASE CompileLiteral
    <3>1. top.at = "enter" /\ freeVariables[top.expr] = {}
      BY <1>3, <2>1, FreeByType DEF CompileLiteral, Enter, At
    <3> QED
      BY <3>1 DEF Asked
  <2>2. CASE RejectLetRec
    <3>1. errors' = errors + 1 /\ errors \in Nat
      BY <2>2 DEF RejectLetRec, CompilerInv
    <3> QED
      BY <1>4, <3>1
  <2>3. CASE CompileOperator \/ CompileUnaryOperator \/ EndIf \/ EndTuple
    <3>1. top.at \in {"second", "operand", "if_else", "member"}
      BY <2>3 DEF CompileOperator, CompileUnaryOperator, EndIf, EndTuple, At
    <3> QED
      BY <3>1 DEF Asked
  <2>4. CASE ReturnClosure
    <3>1. top.at = "closed" /\ top.i = Len(top.closure) /\ top.closure \in Seq(Symbol)
      BY <1>3, <2>4 DEF ReturnClosure, At, Placed, ActivationType
    <3>2. \A k \in DOMAIN top.closure : ~ (k > top.i)
      BY <3>1, LenProperties
    <3> QED
      BY <3>1, <3>2 DEF Asked
  <2> QED
    BY <2>1, <2>2, <2>3, <2>4
<1> QED
  BY <1>1, <1>2, <1>4, CoversReturn DEF Tidies

LEMMA EndLetCovers ==
  ASSUME CompilerInv, CoversInv, EndLet
  PROVE  CoversInv'
<1> DEFINE c == PopBinding(context)
<1>1. /\ Updated(c) /\ Returns /\ Running /\ top.at = "let_body"
      /\ c.closure_symbols = context.closure_symbols
  BY EndLetEnds
<1>2. Reports
  BY DEF EndLet, Reports
<1>3. \A d : Asked(top, d) = {}
  BY <1>1 DEF Asked
<1> HIDE DEF c
<1> QED
  BY <1>1, <1>2, <1>3, CoversReturn

LEMMA LambdaCovers ==
  ASSUME CompilerInv, CoversInv, CompileLambda
  PROVE  CoversInv'
<1>1. Running /\ calls # <<>> /\ Reports /\ top.at = "enter"
  BY DEF CompileLambda, Enter, At, Running, Reports
<1>2. PICK c : Updated(c) /\ Tidies(context, c)
  BY TidyWrites DEF Tidy
<1>3. PICK a : /\ Continues(a, top) /\ a.at = "lambda" /\ a.i = top.i
               /\ calls' = Append(Front(calls), a)
  BY LambdaShape
<1>4. Full(a, errors')
  BY <1>1, <1>3, TopFull DEF Full
<1>5. \A d : Asked(a, d) = Asked(top, d)
  BY <1>1, <1>3 DEF Asked, Continues
<1> QED
  BY <1>1, <1>2, <1>3, <1>4, <1>5, CoversBecome DEF Tidies, Becomes, Continues

\* What is looked up and wanted is given.
LEMMA LookupGives ==
  ASSUME TreesFinite, TuplesUniform, CompilerInv, ScopesInv, SpentInv,
         NEW c, NEW id, Looks(c, id)
  PROVE  /\ ToSet(context.closure_symbols) \subseteq ToSet(c.closure_symbols)
         /\ id \in Wanted(Front(calls), top.context) => id \in ToSet(c.closure_symbols)
<1>1. Running /\ ~ Binds(top) /\ LookedUp(context, c, id)
  BY DEF Looks
<1>2. ToSet(context.closure_symbols) \subseteq ToSet(c.closure_symbols)
  BY <1>1 DEF LookedUp
<1>3. ASSUME id \in Wanted(Front(calls), top.context)
      PROVE  id \in ToSet(c.closure_symbols)
  <2>1. Bound(context, id) = {}
    BY <1>1, <1>3, WantedUnbound
  <2> QED
    BY <1>1, <2>1 DEF LookedUp
<1> QED
  BY <1>2, <1>3

LEMMA IdentifierCovers ==
  ASSUME TreesFinite, TuplesUniform, CompilerInv, ScopesInv, SpentInv, CoversInv,
         CompileIdentifier
  PROVE  CoversInv'
<1> DEFINE id == top.expr.identifier_id
<1>1. PICK c : Looks(c, id)
  BY IdentifierLooks
<1>2. /\ Running /\ calls # <<>> /\ Returns /\ Reports /\ Updated(c)
      /\ top.at = "enter" /\ top.expr.type = "IDENTIFIER"
  BY <1>1, IdentifierLooks DEF Looks, Running, CompileIdentifier, Reports
<1>3. freeVariables[top.expr] = {id}
  BY <1>2, TopFacts, FreeByType
<1>4. \A d : Asked(top, d) \subseteq (IF d = top.context THEN {id} ELSE {})
  BY <1>2, <1>3 DEF Asked
<1> HIDE DEF id
<1>5. /\ ToSet(context.closure_symbols) \subseteq ToSet(c.closure_symbols)
      /\ id \in Wanted(Front(calls), top.context) => id \in ToSet(c.closure_symbols)
  BY <1>1, LookupGives
<1>6. \A d : Asked(top, d) \intersect Wanted(Front(calls), d) \subseteq Given(c, d)
  BY <1>4, <1>5 DEF Given
<1> QED
  BY <1>2, <1>5, <1>6, CoversReturn

LEMMA CloseCovers ==
  ASSUME TreesFinite, TuplesUniform, CompilerInv, ScopesInv, SpentInv, CoversInv,
         CloseVariable
  PROVE  CoversInv'
<1> DEFINE id == top.closure[top.i + 1]
<1>1. PICK c : Looks(c, id)
  BY CloseLooks
<1>2. /\ Running /\ calls # <<>> /\ Reports /\ Updated(c) /\ top.at = "closed"
      /\ top.i \in Nat /\ top.i < Len(top.closure) /\ top.closure \in Seq(Symbol)
  BY <1>1, CloseLooks DEF Looks, Running, CloseVariable, Reports
<1>3. PICK a : /\ Continues(a, top) /\ a.at = "closed" /\ a.i = top.i + 1
               /\ a.closure = top.closure
               /\ calls' = Append(Front(calls), a)
  BY CloseShape
<1>4. Full(a, errors')
  <2>1. Full(top, errors')
    BY <1>2, TopFull
  <2> QED
    BY <1>2, <1>3, <2>1 DEF Full, Continues
<1>5. \A d : Asked(top, d) \subseteq
               Asked(a, d) \union (IF d = top.context THEN {id} ELSE {})
  <2>1. \A k \in DOMAIN top.closure : k > top.i => k > top.i + 1 \/ k = top.i + 1
    BY <1>2, LenProperties
  <2> QED
    BY <1>2, <1>3, <2>1 DEF Asked, Continues
<1> HIDE DEF id
<1>6. /\ ToSet(context.closure_symbols) \subseteq ToSet(c.closure_symbols)
      /\ id \in Wanted(Front(calls), top.context) => id \in ToSet(c.closure_symbols)
  BY <1>1, LookupGives
<1>7. \A d : Asked(top, d) \intersect Wanted(Front(calls), d)
               \subseteq Asked(a, d) \union Given(c, d)
  BY <1>5, <1>6 DEF Given
<1> QED
  BY <1>2, <1>3, <1>4, <1>6, <1>7, CoversBecome DEF Becomes, Continues

-----------------------------------------------------------------------------
(***************************************************************************)
(* The closures cover the free variables: the contexts of functions.       *)
(***************************************************************************)
LEMMA EnterCovers ==
  ASSUME TreesFinite, TuplesUniform, CompilerInv, CoversInv, EnterLambda
  PROVE  CoversInv'
<1> DEFINE base == Front(calls)
           n == top.context
<1>1. Running /\ calls # <<>> /\ Reports /\ top.at = "lambda"
  BY DEF EnterLambda, At, Running, Reports
<1>2. base \in Seq(Placed) /\ top \in Placed /\ n \in Nat /\ calls = Append(base, top)
  BY <1>1, Base, TopFacts DEF Placed, ActivationType
<1>3. PICK new : Opens(n, new)
  BY LambdaOpens
<1>4. PICK a, b : BodyEntered(n, a, b)
  BY BodyEnters
<1>5. AllFull(base, errors') /\ Full(top, errors') /\ (errors' = 0 => errors = 0)
  BY <1>1, TopFull
<1>6. Wanted(calls, n + 1) = {}
  <2>1. Wanted(base, n + 1) = {}
    BY <1>1, NothingAbove
  <2> QED
    BY <1>1, <2>1, RunningGrown
<1>7. /\ a \in Placed /\ b \in Placed /\ Append(base, a) \in Seq(Placed)
      /\ calls' = Append(Append(base, a), b)
      /\ a.at = "body" /\ a.expr = top.expr /\ a.context = n /\ a.self_id = top.self_id
      /\ b.at = "enter" /\ b.context = n + 1 /\ b.self_id = INVALID_SYMBOL
      /\ a.i = top.i /\ b.i = 0
  BY <1>4 DEF BodyEntered, Continues
<1>8. Full(a, errors') /\ Full(b, errors')
  BY <1>1, <1>5, <1>7 DEF Full
<1>9. /\ \A d : Asked(a, d) = Asked(top, d)
      /\ Asked(b, n + 1) = freeVariables[b.expr] \ {INVALID_SYMBOL}
  BY <1>1, <1>7 DEF Asked
<1> HIDE DEF base, n
<1>10. AllFull(calls', errors')
  <2>1. AllFull(Append(base, a), errors')
    BY <1>2, <1>5, <1>7, <1>8, FullAppend
  <2> QED
    BY <1>7, <1>8, <2>1, FullAppend
<1>11. \A d : /\ Gathered(asked(d), calls') =
                   Gathered(asked(d), base) \union Asked(a, d) \union Asked(b, d)
              /\ Gathered(asked(d), calls) = Gathered(asked(d), base) \union Asked(top, d)
  <2>1. \A d : Gathered(asked(d), Append(base, a)) =
                 Gathered(asked(d), base) \union Asked(a, d)
    BY <1>2, <1>7, WantedAppend
  <2>2. \A d : Gathered(asked(d), calls') =
                 Gathered(asked(d), Append(base, a)) \union Asked(b, d)
    BY <1>7, WantedAppend
  <2>3. \A d : Gathered(asked(d), calls) =
                 Gathered(asked(d), base) \union Asked(top, d)
    BY <1>2, WantedAppend
  <2> QED
    BY <2>1, <2>2, <2>3
<1>12. ASSUME errors' = 0, NEW d \in 1 .. Len(contexts')
       PROVE  Wanted(calls', d) \subseteq
                ToSet(contexts'[d].closure_symbols) \union Gathered(asked(d), calls')
  <2>1. Len(contexts) = n /\ Len(contexts') = n + 1
    BY <1>3 DEF Opens
  <2>2. CASE d = n + 1
    <3>1. Wanted(calls', n + 1) = freeVariables[top.expr] \ {top.self_id}
      BY <1>4, <1>6 DEF BodyEntered
    <3>2. freeVariables[top.expr] \subseteq Asked(b, n + 1)
      BY <1>4, <1>9 DEF BodyEntered
    <3> QED
      BY <1>11, <2>2, <3>1, <3>2
  <2>3. CASE d \in 1 .. n
    <3>1. contexts'[d] = contexts[d] /\ d \in 1 .. Len(contexts) /\ d # n + 1
      BY <1>2, <1>3, <2>1, <2>3 DEF Opens
    <3>4. Opened(a, d) = {} /\ Wanted(calls', d) = Wanted(calls, d) \union Opened(a, d)
      BY <1>4, <3>1 DEF BodyEntered
    <3>2. Wanted(calls', d) = Wanted(calls, d)
      BY <3>4
    <3>3. Wanted(calls, d) \subseteq
            ToSet(contexts[d].closure_symbols) \union Gathered(asked(d), calls)
      BY <1>5, <1>12, <3>1 DEF CoversInv
    <3> QED
      BY <1>9, <1>11, <3>1, <3>2, <3>3
  <2> QED
    BY <1>2, <2>1, <2>2, <2>3
<1> QED
  BY <1>10, <1>12 DEF CoversInv

LEMMA FinishCovers ==
  ASSUME CompilerInv, CoversInv, FinishLambda
  PROVE  CoversInv'
<1> DEFINE base == Front(calls)
           h == top.context
<1>1. calls # <<>> /\ Reports /\ top.at = "body"
  BY DEF FinishLambda, At, Reports
<1>2. base \in Seq(Placed) /\ top \in Placed /\ calls = Append(base, top)
  BY <1>1, Base, TopFacts
<1>3. Closing(h)
  BY LambdaCloses
<1>4. h \in Nat \ {0} /\ h + 1 \in 1 .. Len(contexts)
  BY <1>3 DEF Closing
<1>5. PICK a : /\ Continues(a, top) /\ a.at = "closed" /\ a.i = top.i
               /\ a.closure = contexts[top.context + 1].closure_symbols
               /\ calls' = Append(Front(calls), a)
  BY FinishShape
<1>6. AllFull(base, errors') /\ Full(top, errors') /\ (errors' = 0 => errors = 0)
  BY <1>1, TopFull
<1>7. /\ Wanted(calls, h + 1) = freeVariables[top.expr] \ {top.self_id}
      /\ Gathered(asked(h + 1), calls) = {}
      /\ \A d : d # h + 1 => Wanted(calls, d) = Wanted(base, d)
  BY FinishWanted
<1>8. /\ a \in Placed /\ a.expr = top.expr /\ a.context = h /\ a.self_id = top.self_id
      /\ a.i = 0 /\ a.at = "closed" /\ a.closure = contexts[h + 1].closure_symbols
      /\ calls' = Append(base, a)
  BY <1>1, <1>5, <1>6 DEF Continues, Full
<1>9. errors' = 0 =>
        freeVariables[top.expr] \ {top.self_id} \subseteq ToSet(a.closure)
  BY <1>4, <1>6, <1>7, <1>8 DEF CoversInv
<1>10. Full(a, errors')
  BY <1>8, <1>9 DEF Full
<1>11. errors' = 0 => \A d : Asked(top, d) \subseteq Asked(a, d)
  <2>1. \A k \in DOMAIN a.closure : k > 0
    <3>1. a.closure \in Seq(Symbol)
      BY <1>8 DEF Placed, ActivationType
    <3> QED
      BY <3>1, LenProperties
  <2>2. \A d : d = h => Asked(a, d) = ToSet(a.closure)
    BY <1>8, <2>1 DEF Asked, ToSet
  <2>3. \A d : Asked(top, d) \subseteq
                 (IF d = h THEN freeVariables[top.expr] \ {top.self_id} ELSE {})
    BY <1>1 DEF Asked
  <2> QED
    BY <1>9, <2>2, <2>3
<1> HIDE DEF base, h
<1>12. AllFull(calls', errors')
  BY <1>2, <1>6, <1>8, <1>10, FullAppend
<1>13. ASSUME errors' = 0, NEW d \in 1 .. Len(contexts')
       PROVE  Wanted(calls', d) \subseteq
                ToSet(contexts'[d].closure_symbols) \union Gathered(asked(d), calls')
  <2>1. /\ d \in 1 .. Len(contexts) /\ d # h + 1
        /\ contexts'[d].closure_symbols = contexts[d].closure_symbols
    <3>1. d \in 1 .. h /\ Len(contexts) = h + 1
      BY <1>3 DEF Closing
    <3>2. d \in 1 .. Len(contexts) /\ d # h + 1
      BY <1>4, <3>1
    <3> QED
      BY <1>3, <3>1, <3>2 DEF Closing, SameScope
  <2>2. Wanted(calls, d) \subseteq
          ToSet(contexts[d].closure_symbols) \union Gathered(asked(d), calls)
    BY <1>6, <1>13, <2>1 DEF CoversInv
  <2>3. Opened(a, d) = {}
    BY <1>8 DEF Opened
  <2>4. /\ Wanted(calls', d) = Wanted(base, d) \union Opened(a, d)
        /\ Gathered(asked(d), calls') = Gathered(asked(d), base) \union Asked(a, d)
        /\ Gathered(asked(d), calls) = Gathered(asked(d), base) \union Asked(top, d)
    BY <1>2, <1>8, WantedAppend
  <2>5. Wanted(calls', d) = Wanted(calls, d)
    BY <1>7, <2>1, <2>3, <2>4
  <2>6. Gathered(asked(d), calls) \subseteq Gathered(asked(d), calls')
    BY <1>11, <1>13, <2>4
  <2> QED
    BY <2>1, <2>2, <2>5, <2>6
<1> QED
  BY <1>12, <1>13 DEF CoversInv

LEMMA FinishModuleCovers ==
  ASSUME CompilerInv, CoversInv, FinishModule
  PROVE  CoversInv'
<1>1. calls # <<>> /\ calls' = Front(calls) /\ contexts' = <<>> /\ Reports
  BY DEF FinishModule, At, Return, Reports
<1>2. AllFull(calls', errors')
  BY <1>1, TopFull
<1>3. 1 .. Len(contexts') = {}
  BY <1>1
<1> QED
  BY <1>2, <1>3 DEF CoversInv

LEMMA CoversFirst ==
  ASSUME Init
  PROVE  CoversInv
<1>1. PICK main, enter : Starting(main, enter)
  BY Starts
<1> DEFINE one == Append(<<>>, main)
<1>2. AllFull(<<>>, errors) /\ \A d : Wanted(<<>>, d) = {}
  BY GatheredNone DEF AllFull, Wanted
<1>3. /\ Full(main, errors) /\ Full(enter, errors)
      /\ \A d : Opened(main, d) = {} /\ Opened(enter, d) = {}
  BY <1>1 DEF Starting, Full, Opened
<1>4. main \in Placed /\ enter \in Placed /\ <<>> \in Seq(Placed) /\ one \in Seq(Placed)
  BY <1>1 DEF Starting
<1>5. AllFull(one, errors) /\ \A d : Wanted(one, d) = {}
  <2>1. AllFull(one, errors)
    BY <1>2, <1>3, <1>4, FullAppend
  <2>2. \A d : Wanted(one, d) = Wanted(<<>>, d) \union Opened(main, d)
    BY <1>4, WantedAppend
  <2> QED
    BY <1>2, <1>3, <2>1, <2>2
<1> HIDE DEF one
<1>6. AllFull(Append(one, enter), errors) /\ \A d : Wanted(Append(one, enter), d) = {}
  BY <1>3, <1>4, <1>5, FullAppend, WantedAppend
<1>7. AllFull(calls, errors) /\ \A d : Wanted(calls, d) = {}
  BY <1>1, <1>6 DEF Starting, one
<1> QED
  BY <1>7 DEF CoversInv


LEMMA CoversStep ==
  ASSUME TreesFinite, TuplesUniform, CompilerInv, ScopesInv, SpentInv, CoversInv,
         [CompileNext]_vars
  PROVE  CoversInv'
<1>1. CASE UNCHANGED vars
  <2>1. errors' = errors /\ calls' = calls /\ contexts' = contexts
    BY <1>1 DEF vars
  <2>2. AllFull(calls, errors)'
    BY <2>1 DEF CoversInv, AllFull, Full
  <2>3. \A d : Wanted(calls, d)' = Wanted(calls, d)
    BY <2>1 DEF Wanted, Gathered, opened
  <2>4. \A d : Gathered(asked(d), calls)' = Gathered(asked(d), calls)
    BY <2>1 DEF Gathered, asked
  <2> QED
    BY <2>1, <2>2, <2>3, <2>4 DEF CoversInv
<1>2. CASE \/ CompileLet \/ CompileFirst \/ CompileUnary \/ CompileIf \/ LetRecBody
           \/ BindLet \/ CompileSecond \/ CompileThen \/ CompileElse
           \/ CompileTuple \/ NextMember \/ CompileLetRec
  BY <1>2, TidyDescents, CoversDescend
<1>3. CASE \/ CompileLiteral \/ RejectLetRec \/ CompileOperator \/ CompileUnaryOperator
           \/ EndIf \/ EndTuple \/ ReturnClosure
  BY <1>3, LeafCovers
<1> QED
  BY <1>1, <1>2, <1>3, IdentifierCovers, CloseCovers, EndLetCovers, LambdaCovers,
     EnterCovers, FinishCovers, FinishModuleCovers DEF CompileNext

-----------------------------------------------------------------------------
ClosuresInv ==
  /\ CompilerInv /\ ScopesInv /\ HoldsInv
  /\ Tame(program) => SpentInv /\ CoversInv

LEMMA ClosuresStep ==
  ASSUME TreesFinite, TuplesUniform, ClosuresInv, [CompileNext]_vars
  PROVE  ClosuresInv'
<1>1. CompilerInv' /\ ScopesInv' /\ HoldsInv'
  BY CompilerStep, ScopesKept, HoldsStep DEF ClosuresInv
<1>2. program' = program
  BY DEF CompileNext, vars, CompileLiteral, CompileIdentifier, CompileLambda, EnterLambda,
         FinishLambda, CloseVariable, ReturnClosure, CompileLet, BindLet, EndLet,
         RejectLetRec, CompileLetRec, LetRecBody, CompileFirst, CompileSecond,
         CompileOperator, CompileUnary, CompileUnaryOperator, CompileIf, CompileThen,
         CompileElse, EndIf, CompileTuple, NextMember, EndTuple, FinishModule
<1>3. ASSUME Tame(program) PROVE SpentInv' /\ CoversInv'
  BY <1>3, SpentStep, CoversStep DEF ClosuresInv
<1> QED
  BY <1>1, <1>2, <1>3 DEF ClosuresInv

LEMMA ClosuresFirst ==
  ASSUME TreesFinite, TuplesUniform, \A p \in Programs : WellScoped(p, {}), Init
  PROVE  ClosuresInv
BY CompilerInit, ScopesFirst, HoldsFirst, SpentFirst, CoversFirst DEF ClosuresInv

\* A closure that is filled in holds free variables of its lambda, each once.
ClosuresFree ==
  At("closed") =>
    /\ IsInjective(top.closure)
    /\ ToSet(top.closure) \subseteq freeVariables[top.expr] \ {top.self_id}

\* When every name in the programs is bound, as the type checker says, no
\* closure takes up a name that is not free in its lambda, none its own
\* function in a let rec, and none twice: what _CompileIdentifierImpl adds to
\* closure_symbols in a context, however deep the lambdas nest and in whatever
\* order their bodies ask (compiler.c).
THEOREM ClosuresAlwaysFree ==
  ASSUME TreesFinite, TuplesUniform, \A p \in Programs : WellScoped(p, {})
  PROVE  CompileSpec => []ClosuresFree
<1>1. Init => ClosuresInv
  BY ClosuresFirst
<1>2. ClosuresInv /\ [CompileNext]_vars => ClosuresInv'
  BY ClosuresStep
<1>3. ClosuresInv => ClosuresFree
  <2> SUFFICES ASSUME ClosuresInv, At("closed")
               PROVE  /\ IsInjective(top.closure)
                      /\ ToSet(top.closure) \subseteq freeVariables[top.expr] \ {top.self_id}
    BY DEF ClosuresFree
  <2>1. calls # <<>> /\ top.at = "closed"
    BY DEF At
  <2>2. Holds(top)
    BY <2>1, TopReads DEF ClosuresInv
  <2> QED
    BY <2>1, <2>2 DEF Holds, Distinct
<1> QED
  BY <1>1, <1>2, <1>3, PTL DEF CompileSpec

\* And in a program whose binders all bind names of their own, every closure
\* holds all the free variables of its lambda, if no error was reported: each
\* variable a body asks for is looked up in the context of the body, found in
\* no binding and added, and what an inner closure is filled in with is looked
\* up in the context around it in turn.  (Where two binders share a name the
\* loop of _CompileIdentifierImpl, which starts at the entry past the last
\* live binding, can find one that is over.)
THEOREM ClosuresAlwaysFreeVariables ==
  ASSUME TreesFinite, TuplesUniform, \A p \in Programs : WellScoped(p, {})
  PROVE  CompileSpec => [](Tame(program) => ClosuresAreFreeVariables)
<1>1. Init => ClosuresInv
  BY ClosuresFirst
<1>2. ClosuresInv /\ [CompileNext]_vars => ClosuresInv'
  BY ClosuresStep
<1>3. ClosuresInv => (Tame(program) => ClosuresAreFreeVariables)
  <2> SUFFICES ASSUME ClosuresInv, Tame(program), At("closed")
               PROVE  /\ IsInjective(top.closure)
                      /\ ToSet(top.closure) \subseteq freeVariables[top.expr] \ {top.self_id}
                      /\ errors = 0 =>
                           freeVariables[top.expr] \ {top.self_id} \subseteq ToSet(top.closure)
    BY DEF ClosuresAreFreeVariables
  <2>1. calls # <<>> /\ top.at = "closed"
    BY DEF At
  <2>2. Holds(top)
    BY <2>1, TopReads DEF ClosuresInv
  <2>3. Full(top, errors)
    <3>1. Front(calls) \in Seq(Placed) /\ calls = Append(Front(calls), top) /\ top \in Placed
      BY <2>1, Base, TopFacts DEF ClosuresInv
    <3>2. AllFull(calls, errors)
      BY DEF ClosuresInv, CoversInv
    <3> QED
      BY <3>1, <3>2, FullAppend
  <2> QED
    BY <2>1, <2>2, <2>3 DEF Holds, Distinct, Full
<1> QED
  BY <1>1, <1>2, <1>3, PTL DEF CompileSpec

=============================================================================
