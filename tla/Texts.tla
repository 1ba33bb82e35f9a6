------------------------------- MODULE Texts --------------------------------
(***************************************************************************)
(* Programs as texts: a tree of the corpus is written as words, with       *)
(* parentheses where the grammar needs them, and the words as characters.  *)
(***************************************************************************)
EXTENDS ProgramCorpus

Names ==
  (f :> "f") @@ (g :> "g") @@ (n :> "n") @@ (m :> "m") @@ (k :> "k") @@
  (x :> "x") @@ (y :> "y") @@ (z :> "z")

Digit == <<"0", "1", "2", "3", "4", "5", "6", "7", "8", "9">>

RECURSIVE Decimal(_)
Decimal(i) ==
  IF i < 10 THEN <<Digit[i + 1]>> ELSE Decimal(i \div 10) \o Decimal(i % 10)

\* The words that are not a single character.
Spellings ==
  ("let" :> <<"l", "e", "t">>) @@ ("rec" :> <<"r", "e", "c">>) @@
  ("in" :> <<"i", "n">>) @@ ("if" :> <<"i", "f">>) @@
  ("then" :> <<"t", "h", "e", "n">>) @@ ("else" :> <<"e", "l", "s", "e">>) @@
  ("fn" :> <<"f", "n">>) @@ ("=>" :> <<"=", ">">>) @@
  ("true" :> <<"t", "r", "u", "e">>) @@
  ("false" :> <<"f", "a", "l", "s", "e">>) @@
  ("# note\n" :> <<"#", " ", "n", "o", "t", "e", "\n">>) @@
  ("inner" :> <<"i", "n", "n", "e", "r">>)

Spell(word) == IF word \in DOMAIN Spellings THEN Spellings[word] ELSE <<word>>

\* The words one after the other, a separator behind each but the last.
RECURSIVE Spaced(_, _)
Spaced(words, separator) ==
  IF Len(words) <= 1 THEN (IF words = <<>> THEN <<>> ELSE words[1])
  ELSE words[1] \o separator \o Spaced(Tail(words), separator)

Spelt(list) == [i \in DOMAIN list |-> Spell(list[i])]

Sign(op) ==
  CASE op = "PLUS" -> "+" [] op = "MINUS" -> "-" [] op = "STAR" -> "*"
    [] op = "SLASH" -> "/" [] op = "EQUALS" -> "="

\* The level of the grammar a node is written at.
Rank(e) ==
  CASE e.type \in {"LET", "LETREC", "IF", "LAMBDA"} -> 0
    [] e.type = "BINARY" -> (CASE e.binary_operator = "EQUALS" -> 1
                               [] e.binary_operator \in {"PLUS", "MINUS"} -> 2
                               [] OTHER -> 3)
    [] e.type = "UNARY" -> 4
    [] e.type = "APPLY" -> 5
    [] OTHER -> 6

\* The words of e where the grammar wants a phrase of at least some rank.
RECURSIVE Written(_, _), WrittenElements(_)
Written(e, rank) ==
  IF Rank(e) < rank THEN Spelt(<<"(">>) \o Written(e, 0) \o Spelt(<<")">>)
  ELSE
  CASE e.type = "LAMBDA" ->
         Spelt(<<"fn", Names[e.lambda_id], "=>">>) \o Written(e.lambda_body, 0)
    [] e.type \in {"LET", "LETREC"} ->
         Spelt(IF e.type = "LET" THEN <<"let">> ELSE <<"let", "rec">>)
         \o Spelt(<<Names[e.let_id], "=">>) \o Written(e.let_value, 0)
         \o Spelt(<<"in">>) \o Written(e.let_body, 0)
    [] e.type = "IF" ->
         Spelt(<<"if">>) \o Written(e.if_test, 0) \o Spelt(<<"then">>)
         \o Written(e.if_then, 0) \o Spelt(<<"else">>) \o Written(e.if_else, 0)
    [] e.type = "BINARY" ->
         Written(e.binary_left, Rank(e)) \o Spelt(<<Sign(e.binary_operator)>>)
         \o Written(e.binary_right, Rank(e) + 1)
    [] e.type = "UNARY" ->
         Spelt(<<Sign(e.unary_operator)>>) \o Written(e.unary_arg, 4)
    [] e.type = "APPLY" ->
         Written(e.apply_function, 5) \o Written(e.apply_argument, 6)
    [] e.type = "TUPLE" -> Spelt(<<"(">>) \o WrittenElements(e) \o Spelt(<<")">>)
    [] e.type = "IDENTIFIER" -> Spelt(<<Names[e.identifier_id]>>)
    [] e.type = "TRUE" -> Spelt(<<"true">>)
    [] e.type = "FALSE" -> Spelt(<<"false">>)
    [] e.type = "INTEGER_CONSTANT" -> <<Decimal(e.literal_value)>>
WrittenElements(e) ==
  IF e.type = "TUPLE"
  THEN Written(e.tuple_first, 0) \o Spelt(<<",">>) \o WrittenElements(e.tuple_rest)
  ELSE Written(e.tuple_first, 0)

=============================================================================
