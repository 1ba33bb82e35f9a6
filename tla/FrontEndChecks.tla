--------------------------- MODULE FrontEndChecks ---------------------------
(***************************************************************************)
(* What the parser is to make of the words of a text: a reference for the  *)
(* grammar, and the properties of the parser that need it.                 *)
(***************************************************************************)
EXTENDS ScannerChecks

-----------------------------------------------------------------------------
(***************************************************************************)
(* The grammar, as a reference for the parser: Trees(level, i, j) are the  *)
(* trees that the tokens from i to before j are a phrase of a level for.   *)
(* A leaf holds the text of its name and the value of its digits.          *)
(***************************************************************************)
Is(i, type) == token_array[i + 1].type = type

Leaf(i) ==
  CASE Is(i, "ID")          -> {MakeIdentifier(ExtractToken(i))}
    [] Is(i, "INT_LITERAL") ->
         {MakeIntegerLiteral(Number(ExtractToken(i)) % Word)}
    [] Is(i, "TRUE")        -> {MakeBooleanLiteral(TRUE)}
    [] Is(i, "FALSE")       -> {MakeBooleanLiteral(FALSE)}
    [] OTHER                -> {}

TupleLength(rest) ==
  IF rest.type = "TUPLE" THEN rest.tuple_length + 1 ELSE 2

RECURSIVE Trees(_, _, _)
Trees(level, i, j) ==
  LET inside(type, a, b) == { k \in a + 1 .. b - 1 : Is(k, type) }
  IN IF i >= j THEN {} ELSE
  CASE level = "Expr" ->
         Trees("Comparison", i, j) \union
         (CASE Is(i, "LET") ->
               LET name == IF Is(i + 1, "REC") THEN i + 2 ELSE i + 1
                   make(v, e) ==
                     IF name = i + 2 THEN MakeLetRec(ExtractToken(name), v, e)
                                     ELSE MakeLet(ExtractToken(name), v, e)
               IN IF name + 1 < j /\ Is(name, "ID") /\ Is(name + 1, "EQUALS")
                  THEN UNION { { make(v, e) : v \in Trees("Expr", name + 2, k),
                                              e \in Trees("Expr", k + 1, j) } :
                               k \in inside("IN", name + 1, j) }
                  ELSE {}
            [] Is(i, "IF") ->
               UNION { { MakeIf(t, a, b) : t \in Trees("Expr", i + 1, k),
                                           a \in Trees("Expr", k + 1, m),
                                           b \in Trees("Expr", m + 1, j) } :
                       k \in inside("THEN", i, j), m \in inside("ELSE", i, j) }
            [] Is(i, "FN") ->
               IF i + 2 < j /\ Is(i + 1, "ID") /\ Is(i + 2, "ARROW")
               THEN { MakeLambda(ExtractToken(i + 1), e) :
                      e \in Trees("Expr", i + 3, j) }
               ELSE {}
            [] OTHER -> {})
    [] level \in Level ->
         Trees(Operand(level), i, j) \union
         UNION { { MakeBinary(op, l, r) : l \in Trees(level, i, k),
                                          r \in Trees(Operand(level), k + 1, j) } :
                 <<op, k>> \in { <<o, p>> \in Operators(level) \X (i + 1 .. j - 1) :
                                 Is(p, o) } }
    [] level = "Unary" ->
         Trees("Application", i, j) \union
         { MakeUnary(op, e) : op \in { o \in {"PLUS", "MINUS"} : Is(i, o) },
                              e \in Trees("Unary", i + 1, j) }
    [] level = "Application" ->
         Trees("Primary", i, j) \union
         UNION { { MakeApply(f, a) : f \in Trees("Application", i, k),
                                     a \in Trees("Primary", k, j) } :
                 k \in { p \in i + 1 .. j - 1 : p = j - 1 \/ Is(p, "LPAREN") } }
    [] level = "Primary" ->
         IF j = i + 1 THEN Leaf(i)
         ELSE IF ~Is(i, "LPAREN") \/ ~Is(j - 1, "RPAREN") THEN {}
         ELSE Trees("Expr", i + 1, j - 1) \union
              UNION { { MakeTuple(e, rest, TupleLength(rest)) :
                          e \in Trees("Expr", i + 1, k),
                          rest \in Trees("Tuple", k + 1, j - 1) } :
                      k \in inside("COMMA", i, j - 1) }
    [] level = "Tuple" ->
         { MakeTupleFinal(e) : e \in Trees("Expr", i, j) } \union
         UNION { { MakeTuple(e, rest, TupleLength(rest)) :
                     e \in Trees("Expr", i, k),
                     rest \in Trees("Tuple", k + 1, j) } :
                 k \in inside("COMMA", i, j) }

\* A node of the parser's tree without its tokens, its names spelled out.
RECURSIVE Named(_)
Named(e) ==
  CASE e.type = "IDENTIFIER" -> MakeIdentifier(context.symbols[e.identifier_id])
    [] e.type = "LAMBDA" ->
         MakeLambda(context.symbols[e.lambda_id], Named(e.lambda_body))
    [] e.type = "APPLY" ->
         MakeApply(Named(e.apply_function), Named(e.apply_argument))
    [] e.type = "LET" -> MakeLet(context.symbols[e.let_id],
                                 Named(e.let_value), Named(e.let_body))
    [] e.type = "LETREC" -> MakeLetRec(context.symbols[e.let_id],
                                       Named(e.let_value), Named(e.let_body))
    [] e.type = "IF" ->
         MakeIf(Named(e.if_test), Named(e.if_then), Named(e.if_else))
    [] e.type = "BINARY" ->
         MakeBinary(e.binary_operator, Named(e.binary_left), Named(e.binary_right))
    [] e.type = "UNARY" -> MakeUnary(e.unary_operator, Named(e.unary_arg))
    [] e.type = "TUPLE" ->
         MakeTuple(Named(e.tuple_first), Named(e.tuple_rest), e.tuple_length)
    [] e.type = "TUPLE_FINAL" -> MakeTupleFinal(Named(e.tuple_first))
    [] e.type = "INTEGER_CONSTANT" -> MakeIntegerLiteral(e.literal_value)
    [] OTHER -> [type |-> e.type]

Continuing == Primaries \union UNION { Operators(fn) : fn \in Level }

\* The parser takes the longest expression at the start of the text, and its
\* tree is the one that the grammar has for it; when there is none, it
\* reports that.  (Tokens behind the expression are ignored: ParseExpression
\* does not ask for the end of the input.)
ParsesTheGrammar ==
  Parsed =>
    LET ends == { j \in 1 .. Len(token_array) - 1 :
                  /\ PeekToken([pos |-> j]) \notin Continuing
                  /\ Trees("Expr", 0, j) # {} }
    IN IF ends = {} THEN context.errors # <<>>
       ELSE /\ ends = {context.pos}
            /\ \A i \in DOMAIN context.errors :
                 context.errors[i].message = "OVERFLOW"
            /\ context.errors = <<>> =>
                 Trees("Expr", 0, context.pos) = {Named(ret)}

RECURSIVE Nodes(_)
Nodes(e) == {e} \union UNION { Nodes(child) : child \in Children(e) }

\* A node's tokens, which the reports of the later phases point at, lie
\* around those of its parts, which do not overlap; they begin with its
\* keyword or sign, and of what lies between two operands only the operator
\* is not a parenthesis.
SpansNest ==
  Parsed /\ context.errors = <<>> =>
    \A e \in Nodes(ret) :
      /\ 0 <= e.start_token /\ e.end_token < context.pos
      /\ \A child \in Children(e) :
           e.start_token <= child.start_token /\ child.end_token <= e.end_token
      /\ \A a, b \in Children(e) :
           a = b \/ a.end_token < b.start_token \/ b.end_token < a.start_token
      /\ e.type \in {"LET", "LETREC"} => Is(e.start_token, "LET")
      /\ e.type = "LAMBDA" => Is(e.start_token, "FN")
      /\ e.type = "IF" => Is(e.start_token, "IF")
      /\ e.type = "UNARY" => Is(e.start_token, e.unary_operator)
      /\ e.type = "BINARY" =>
           LET between == { k \in e.binary_left.end_token + 1 ..
                                  e.binary_right.start_token - 1 :
                            ~Is(k, "LPAREN") /\ ~Is(k, "RPAREN") }
           IN \E k \in between : between = {k} /\ Is(k, e.binary_operator)

\* The front end comes to an end on every text: no loop of the scanner or
\* the parser goes round without reading on.
FrontEnds == <>FrontDone

=============================================================================
