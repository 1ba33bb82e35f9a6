--------------------------- MODULE ScannerChecks ----------------------------
(***************************************************************************)
(* What the scanner is to make of a text: a reference for the words, what  *)
(* becomes of the characters that are in none, and what reports are about. *)
(***************************************************************************)
EXTENDS FrontEnd

-----------------------------------------------------------------------------
\* The scanner is done; nothing touches the tokens after that.
JustLexed == Ended /\ calls = <<>> /\ ret = None

(***************************************************************************)
(* The words of the language, as a reference for the scanner.              *)
(***************************************************************************)
Class(word) ==
  IF \E t \in Keyword : Keywords[t] = word
  THEN CHOOSE t \in Keyword : Keywords[t] = word
  ELSE IF \E t \in DOMAIN Signs : Signs[t] = word
  THEN CHOOSE t \in DOMAIN Signs : Signs[t] = word
  ELSE IF word = <<"=">> THEN "EQUALS"
  ELSE IF word = <<"=", ">">> THEN "ARROW"
  ELSE IF \A i \in DOMAIN word : word[i] \in Digits THEN "INT_LITERAL"
  ELSE IF /\ word[1] \in IdentifierStart
          /\ \A i \in DOMAIN word : word[i] \in IdentifierCharacter THEN "ID"
  ELSE "NONE"

\* Every token but the last is a word of its type, and the longest that
\* stands there: with the next character it would not be a word.
\* (_TryAddKeyword, "in" against "inner"; "=" against "=>".)
LongestWords ==
  \A i \in DOMAIN token_array :
    JustLexed /\ token_array[i].type # "EOF" =>
      LET word == ExtractToken(i - 1)
          next == At(token_array[i].start + token_array[i].length)
      IN /\ Class(word) = token_array[i].type
         /\ Class(Append(word, next)) = "NONE"

\* What a character is, from the characters before it alone.
InComment(p) ==
  \E q \in 0 .. p : At(q) = "#" /\ \A r \in q .. p : At(r) # "\n"
InIdentifier(p) ==
  \E q \in 0 .. p : /\ At(q) \in IdentifierStart
                    /\ \A r \in q .. p : At(r) \in IdentifierCharacter
Stray(p) ==
  /\ ~InComment(p) /\ ~InIdentifier(p)
  /\ At(p) \notin Expected
  /\ ~(At(p) = ">" /\ p > 0 /\ At(p - 1) = "=")
InToken(p) ==
  \E i \in DOMAIN token_array :
    p - token_array[i].start \in 0 .. token_array[i].length - 1

\* What a character is found to be: one thing, when the scanner is right.
KindsOf(p) ==
  { kind \in {"token", "newline", "blank", "comment", "stray"} :
    \/ kind = "token" /\ InToken(p)
    \/ kind = "newline" /\ \E i \in DOMAIN line_array : line_array[i] = p
    \/ kind = "blank" /\ ~InComment(p) /\ At(p) \in Blanks
    \/ kind = "comment" /\ InComment(p)
    \/ kind = "stray" /\ Stray(p) }

\* Nothing is lost and nothing is read twice: in the end every
\* character belongs to one token, or is a recorded newline, a blank, part
\* of a comment or a stray one; and the tokens are in order.
EveryCharacterOnce ==
  JustLexed =>
    /\ \A p \in 0 .. Length - 1 : Cardinality(KindsOf(p)) = 1
    /\ \A i \in 2 .. Len(token_array) :
         token_array[i].start >=
           token_array[i - 1].start + token_array[i - 1].length

\* What the scanner makes of a text: no token ends early or late, "in" is not
\* found in "inner", and no character is in two tokens or in none.
ScansTheText == LongestWords /\ EveryCharacterOnce

\* A run of stray characters, from a to the one before b.
StrayRun(a, b) ==
  /\ a < b /\ \A p \in a .. b - 1 : Stray(p)
  /\ ~Stray(b) /\ (a > 0 => ~Stray(a - 1))

\* The reports are the runs of stray characters, each run once, as long as
\* it is, in order; but for a run that ends the text, which is forgotten.
\* ("collapse all errors until we scan *something*", lexer.c l. 290.)
ErrorsAreRuns ==
  LET reported == { <<errors[i].start_pos, errors[i].end_pos>> :
                    i \in DOMAIN errors }
      positions == 0 .. Length - 1
  IN JustLexed =>
       /\ reported = { run \in positions \X positions : StrayRun(run[1], run[2]) }
       /\ \A i, j \in DOMAIN errors : i < j =>
            errors[i].end_pos < errors[j].start_pos

\* A position is on the line, and in the column, that counting newlines
\* gives; the text of the line can be had, but for a last one that does not
\* end in a newline, when it is not the only one.
PlacesRight ==
  JustLexed =>
    \A p \in 0 .. Length :
      LET before == { q \in 0 .. p - 1 : At(q) = "\n" }
          first == CHOOSE q \in 0 .. p :
                     /\ q = 0 \/ q - 1 \in before
                     /\ \A r \in before : r < q
          line == LineForPosition(p)
      IN /\ line = Cardinality(before) + 1
         /\ ColumnForPosition(p) = p - first + 1
         /\ LET text == ExtractLine(line)
                newline == { q \in p .. Length : At(q) = "\n" }
            IN IF newline = {} /\ before # {} THEN text = Arbitrary
               ELSE /\ \A i \in DOMAIN text : text[i] = At(first + i - 1)
                                              /\ text[i] # "\n"
                    /\ At(first + Len(text)) \in {"\n", NUL}

-----------------------------------------------------------------------------
\* The number that digits denote, without the width of a word.
Number(digits) ==
  LET number[i \in 0 .. Len(digits)] ==
        IF i = 0 THEN 0 ELSE 10 * number[i - 1] + DigitValue(digits[i])
  IN number[Len(digits)]

\* A literal that is reported does not fit a word.  (The converse is false:
\* the product by ten may wrap to a larger number.)
OverflowReportsTrue ==
  \A i \in DOMAIN context.errors :
    LET report == context.errors[i]
    IN report.message = "OVERFLOW" =>
         Number(SubSeq(buffer, report.start_pos + 1, report.end_pos)) >= Word

=============================================================================
