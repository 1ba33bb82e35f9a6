------------------------------- MODULE Parser -------------------------------
(***************************************************************************)
(* The recursive-descent parser (parser.c) over the tokens the scanner     *)
(* made.  calls is the stack of the _Parse functions that are running;     *)
(* each action takes the innermost one from a call, or the return of a     *)
(* call, to its next call or its own return.  A function that ends in a    *)
(* call of another one is replaced by it.                                  *)
(***************************************************************************)
EXTENDS Lexer, Ast, TLC

CONSTANT Word  \* number of values of a uint64_t (2^64)
ASSUME WordAssumption == Word \in Nat \ {0}

VARIABLES
  context,  \* struct ParseContext: pos, lost_count, and the table of symbols
            \* and the error reports it points to
  calls,    \* the activations of _Parse functions, outermost first
  ret       \* what the last one returned

parsevars == <<context, calls, ret>>

None == [type |-> "none"]
RESYNC_TOKENS == 4

-----------------------------------------------------------------------------
(***************************************************************************)
(* The helper functions, as operators from a context to the next one.      *)
(***************************************************************************)
PeekToken(c) == token_array[c.pos + 1].type
Check(c, type) == PeekToken(c) = type
Advance(c) == [c EXCEPT !.pos = @ + 1]

SyntaxErrorToken(c, pos, message) ==
  LET token == token_array[pos + 1]
      reports == IF c.lost_count = 0
                 THEN AddError(c.errors, token.start,
                               token.start + token.length, message)
                 ELSE c.errors
  IN [c EXCEPT !.lost_count = RESYNC_TOKENS, !.errors = reports]

SyntaxError(c, message) == SyntaxErrorToken(c, c.pos, message)

\* Mutation: one match is enough.
MatchedAtOnce(c) == Advance([c EXCEPT !.lost_count = 0])

\* Every match makes the parser a little more confident.
Matched(c) ==
  Advance([c EXCEPT !.lost_count = IF @ = 0 THEN 0 ELSE @ - 1])

Match(c, type) == IF Check(c, type) THEN Matched(c) ELSE c

\* Mutation: the wrong token is skipped, be it the last.
ExpectAndSkip(c, type) ==
  IF Check(c, type) THEN Matched(c) ELSE Advance(SyntaxError(c, type))

Expect(c, type) ==
  IF Check(c, type) THEN Matched(c) ELSE SyntaxError(c, type)

\* The table deals out the numbers 1, 2, ... for names in the order in which
\* it meets them.
FindOrCreateSymbol(c) ==
  LET name == ExtractToken(c.pos)
  IN IF \E s \in DOMAIN c.symbols : c.symbols[s] = name THEN c.symbols
     ELSE Append(c.symbols, name)

ParseSymbol(c) ==
  IF Check(c, "ID")
  THEN LET table == FindOrCreateSymbol(c)
       IN [symbol  |-> CHOOSE s \in DOMAIN table : table[s] = ExtractToken(c.pos),
           context |-> Matched([c EXCEPT !.symbols = table])]
  ELSE [symbol |-> INVALID_SYMBOL, context |-> SyntaxError(c, "ID")]

-----------------------------------------------------------------------------
\* The number a literal stands for, computed digit by digit in a uint64_t.
\* The loop is left when the next value is smaller.
DigitValue(digit) ==
  CHOOSE d \in 0 .. 9 :
    digit = <<"0", "1", "2", "3", "4", "5", "6", "7", "8", "9">>[d + 1]

NextValue(value, digit) == (value * 10 + DigitValue(digit)) % Word

\* Mutation: a value that stays is an overflow.
LiteralValuesNotLarger(digits) ==
  LET value[i \in 0 .. Len(digits)] ==
        IF i = 0 THEN [value |-> 0, overflow |-> FALSE]
        ELSE LET last == value[i - 1]
                 new_value == NextValue(last.value, digits[i])
             IN IF last.overflow \/ new_value <= last.value
                THEN [last EXCEPT !.overflow = TRUE]
                ELSE [last EXCEPT !.value = new_value]
  IN value[Len(digits)]

\* value[i] is the value after i digits, which stays when the loop is left.
LiteralValues(digits) ==
  LET value[i \in 0 .. Len(digits)] ==
        IF i = 0 THEN [value |-> 0, overflow |-> FALSE]
        ELSE LET last == value[i - 1]
                 new_value == NextValue(last.value, digits[i])
             IN IF last.overflow \/ new_value < last.value
                THEN [last EXCEPT !.overflow = TRUE]
                ELSE [last EXCEPT !.value = new_value]
  IN value[Len(digits)]

-----------------------------------------------------------------------------
(***************************************************************************)
(* Nodes with the first and the last of their tokens (ast.c).              *)
(***************************************************************************)
Spanned(node, start, end) ==
  node @@ [start_token |-> start, end_token |-> end]

\* Mutation: a node ends with its first part.
AroundFirst(node, first, last) ==
  Spanned(node, first.start_token, first.end_token)

Around(node, first, last) == Spanned(node, first.start_token, last.end_token)

MakeSyntaxError(position) == Spanned([type |-> "ERROR"], position, position)

Apply(function, argument) ==
  Around(MakeApply(function, argument), function, argument)

Binary(op, left, right) == Around(MakeBinary(op, left, right), left, right)

Tuple(first, rest) ==
  LET length == IF rest.type = "TUPLE" THEN rest.tuple_length + 1 ELSE 2
  IN Around(MakeTuple(first, rest, length), first, rest)

TupleFinal(expr) == Around(MakeTupleFinal(expr), expr, expr)

-----------------------------------------------------------------------------
(***************************************************************************)
(* Activations: the function, where in it, and its local variables.        *)
(***************************************************************************)
Activation(fn) ==
  [fn |-> fn, at |-> "start", token_pos |-> 0, variable |-> INVALID_SYMBOL,
   is_let_rec |-> FALSE, operator |-> "EOF", kept |-> <<>>]

top == calls[Len(calls)]
callers == SubSeq(calls, 1, Len(calls) - 1)

Running(fn, at) == calls # <<>> /\ top.fn = fn /\ top.at = at
Starting(fn) == Running(fn, "start")

\* activation, the innermost one in its new state, calls fn.
CallFrom(activation, fn) ==
  /\ calls' = callers \o <<activation, Activation(fn)>>
  /\ ret' = None

Become(activation) == calls' = Append(callers, activation) /\ ret' = None

Return(node) == calls' = callers /\ ret' = node

ParseInit ==
  /\ context = [pos |-> 0, lost_count |-> 0, symbols |-> <<>>, errors |-> <<>>]
  /\ calls = <<>>
  /\ ret = None

Parsed == calls = <<>> /\ ret # None

StartParsing ==
  /\ calls = <<>> /\ ret = None
  /\ calls' = <<Activation("Expr")>>
  /\ UNCHANGED <<context, ret>>

-----------------------------------------------------------------------------
(***************************************************************************)
(* _ParseExpr is _ParseLet, which is _ParseIf when there is no let, and so *)
(* on down to _ParseComparison; a test that fails changes nothing.       *)
(***************************************************************************)
ParseLet ==
  /\ Starting("Expr") /\ Check(context, "LET")
  /\ LET after_let == Matched(context)
         parsed == ParseSymbol(Match(after_let, "REC"))
     IN /\ context' = Expect(parsed.context, "EQUALS")
        /\ CallFrom([top EXCEPT !.fn = "Let", !.at = "value",
                                !.token_pos = context.pos,
                                !.variable = parsed.symbol,
                                !.is_let_rec = Check(after_let, "REC")],
                    "Expr")

ParseLetBody ==
  /\ Running("Let", "value") /\ ret # None
  /\ context' = Expect(context, "IN")
  /\ CallFrom([top EXCEPT !.at = "body", !.kept = <<ret>>], "Expr")

FinishLet ==
  /\ Running("Let", "body") /\ ret # None
  /\ LET node == IF top.is_let_rec
                 THEN MakeLetRec(top.variable, top.kept[1], ret)
                 ELSE MakeLet(top.variable, top.kept[1], ret)
     IN Return(Spanned(node, top.token_pos, ret.end_token))
  /\ UNCHANGED context

ParseIf ==
  /\ Starting("Expr") /\ Check(context, "IF")
  /\ context' = Matched(context)
  /\ CallFrom([top EXCEPT !.fn = "If", !.at = "test",
                          !.token_pos = context.pos], "Expr")

ParseIfThen ==
  /\ Running("If", "test") /\ ret # None
  /\ context' = Expect(context, "THEN")
  /\ CallFrom([top EXCEPT !.at = "then", !.kept = <<ret>>], "Expr")

ParseIfElse ==
  /\ Running("If", "then") /\ ret # None
  /\ context' = Expect(context, "ELSE")
  /\ CallFrom([top EXCEPT !.at = "else", !.kept = Append(@, ret)], "Expr")

FinishIf ==
  /\ Running("If", "else") /\ ret # None
  /\ Return(Spanned(MakeIf(top.kept[1], top.kept[2], ret),
                    top.token_pos, ret.end_token))
  /\ UNCHANGED context

ParseFn ==
  /\ Starting("Expr") /\ Check(context, "FN")
  /\ LET parsed == ParseSymbol(Matched(context))
     IN /\ context' = Expect(parsed.context, "ARROW")
        /\ CallFrom([top EXCEPT !.fn = "Fn", !.at = "body",
                                !.token_pos = context.pos,
                                !.variable = parsed.symbol], "Expr")

FinishFn ==
  /\ Running("Fn", "body") /\ ret # None
  /\ Return(Spanned(MakeLambda(top.variable, ret),
                    top.token_pos, ret.end_token))
  /\ UNCHANGED context

ParseComparison ==
  /\ Starting("Expr") /\ PeekToken(context) \notin {"LET", "IF", "FN"}
  /\ Become(Activation("Comparison"))
  /\ UNCHANGED context

-----------------------------------------------------------------------------
(***************************************************************************)
(* Comparison, term and factor are one loop each over operands of the next *)
(* level.  Only the comparison counts its operators as matches.            *)
(***************************************************************************)
Level == {"Comparison", "Term", "Factor"}

Operators(fn) ==
  CASE fn = "Comparison" -> {"EQUALS"}
    [] fn = "Term"       -> {"PLUS", "MINUS"}
    [] fn = "Factor"     -> {"STAR", "SLASH"}

Operand(fn) ==
  CASE fn = "Comparison" -> "Term"
    [] fn = "Term"       -> "Factor"
    [] fn = "Factor"     -> "Unary"

MatchOperator(c, fn) == IF fn = "Comparison" THEN Matched(c) ELSE Advance(c)

\* Mutation: operators that group to the right.
JoinedRight ==
  IF top.at = "left" THEN ret ELSE Binary(top.operator, ret, top.kept[1])

\* The operand that has come back, joined to what stands left of it.
Joined ==
  IF top.at = "left" THEN ret ELSE Binary(top.operator, top.kept[1], ret)

ParseLeft ==
  \E fn \in Level :
    /\ Starting(fn)
    /\ CallFrom([top EXCEPT !.at = "left"], Operand(fn))
    /\ UNCHANGED context

ParseRight ==
  \E fn \in Level :
    /\ Running(fn, "left") \/ Running(fn, "right")
    /\ ret # None /\ PeekToken(context) \in Operators(fn)
    /\ context' = MatchOperator(context, fn)
    /\ CallFrom([top EXCEPT !.at = "right", !.operator = PeekToken(context),
                            !.kept = <<Joined>>], Operand(fn))

FinishLevel ==
  \E fn \in Level :
    /\ Running(fn, "left") \/ Running(fn, "right")
    /\ ret # None /\ PeekToken(context) \notin Operators(fn)
    /\ Return(Joined)
    /\ UNCHANGED context

ParseUnary ==
  /\ Starting("Unary") /\ PeekToken(context) \in {"PLUS", "MINUS"}
  /\ context' = Advance(context)
  /\ CallFrom([top EXCEPT !.at = "operand", !.token_pos = context.pos,
                          !.operator = PeekToken(context)], "Unary")

FinishUnary ==
  /\ Running("Unary", "operand") /\ ret # None
  /\ Return(Spanned(MakeUnary(top.operator, ret),
                    top.token_pos, ret.end_token))
  /\ UNCHANGED context

\* The tokens from TOK_FIRST_PRIMARY to TOK_LAST_PRIMARY.
Primaries == {"ID", "INT_LITERAL", "TRUE", "FALSE", "LPAREN"}

ParseApplication ==
  /\ Starting("Unary") /\ PeekToken(context) \notin {"PLUS", "MINUS"}
  /\ CallFrom([top EXCEPT !.fn = "Application", !.at = "function"], "Primary")
  /\ UNCHANGED context

Applied == IF top.at = "function" THEN ret ELSE Apply(top.kept[1], ret)

ParseArgument ==
  /\ Running("Application", "function") \/ Running("Application", "argument")
  /\ ret # None /\ PeekToken(context) \in Primaries
  /\ CallFrom([top EXCEPT !.at = "argument", !.kept = <<Applied>>], "Primary")
  /\ UNCHANGED context

FinishApplication ==
  /\ Running("Application", "function") \/ Running("Application", "argument")
  /\ ret # None /\ PeekToken(context) \notin Primaries
  /\ Return(Applied)
  /\ UNCHANGED context

-----------------------------------------------------------------------------
ParseBoolean ==
  /\ Starting("Primary") /\ PeekToken(context) \in {"FALSE", "TRUE"}
  /\ context' = Matched(context)
  /\ Return(Spanned(MakeBooleanLiteral(PeekToken(context) = "TRUE"),
                    context.pos, context.pos))

ParseInteger ==
  /\ Starting("Primary") /\ Check(context, "INT_LITERAL")
  /\ LET literal == LiteralValues(ExtractToken(context.pos))
         matched == Matched(context)
     IN /\ context' = IF literal.overflow
                      THEN SyntaxErrorToken(matched, context.pos, "OVERFLOW")
                      ELSE matched
        /\ Return(Spanned(MakeIntegerLiteral(literal.value),
                          context.pos, context.pos))

ParseIdentifier ==
  /\ Starting("Primary") /\ Check(context, "ID")
  /\ LET parsed == ParseSymbol(context)
     IN /\ context' = parsed.context
        /\ Return(Spanned(MakeIdentifier(parsed.symbol),
                          context.pos, context.pos))

ParseParen ==
  /\ Starting("Primary") /\ Check(context, "LPAREN")
  /\ context' = Matched(context)
  /\ CallFrom([top EXCEPT !.at = "expr"], "Expr")

\* A comma makes it a tuple, whose rest TupleNext is called for with the
\* first element.
ParseParenTuple ==
  /\ Running("Primary", "expr") /\ ret # None /\ Check(context, "COMMA")
  /\ context' = Matched(context)
  /\ calls' = callers \o
       <<[top EXCEPT !.at = "tuple"],
         [Activation("TupleNext") EXCEPT !.at = "rest", !.kept = <<ret>>],
         Activation("Tuple")>>
  /\ ret' = None

FinishParen ==
  /\ \/ Running("Primary", "expr") /\ ~Check(context, "COMMA")
     \/ Running("Primary", "tuple")
  /\ ret # None
  /\ context' = Expect(context, "RPAREN")
  /\ Return(ret)

\* The token that begins no expression is not consumed.
ParseNothing ==
  /\ Starting("Primary") /\ PeekToken(context) \notin Primaries
  /\ context' = SyntaxError(context, "EXPRESSION")
  /\ Return(MakeSyntaxError(context.pos))

ParseElement ==
  /\ Starting("Tuple")
  /\ CallFrom([top EXCEPT !.at = "car"], "Expr")
  /\ UNCHANGED context

ParseTupleNext ==
  /\ Running("Tuple", "car") /\ ret # None /\ Check(context, "COMMA")
  /\ context' = Matched(context)
  /\ CallFrom([Activation("TupleNext") EXCEPT !.at = "rest",
                                              !.kept = <<ret>>], "Tuple")

FinishTuple ==
  /\ Running("Tuple", "car") /\ ret # None /\ ~Check(context, "COMMA")
  /\ Return(TupleFinal(ret))
  /\ UNCHANGED context

FinishTupleNext ==
  /\ Running("TupleNext", "rest") /\ ret # None
  /\ Return(Tuple(top.kept[1], ret))
  /\ UNCHANGED context

ParseNext ==
  \/ ParseLet \/ ParseLetBody \/ FinishLet
  \/ ParseIf \/ ParseIfThen \/ ParseIfElse \/ FinishIf
  \/ ParseFn \/ FinishFn
  \/ ParseComparison \/ ParseLeft \/ ParseRight \/ FinishLevel
  \/ ParseUnary \/ FinishUnary
  \/ ParseApplication \/ ParseArgument \/ FinishApplication
  \/ ParseBoolean \/ ParseInteger \/ ParseIdentifier \/ ParseNothing
  \/ ParseParen \/ ParseParenTuple \/ FinishParen
  \/ ParseElement \/ ParseTupleNext \/ FinishTuple \/ FinishTupleNext

=============================================================================
