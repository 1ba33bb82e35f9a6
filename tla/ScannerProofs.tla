---------------------------- MODULE ScannerProofs ---------------------------
(***************************************************************************)
(* The scanner finds the longest words, puts every character where it      *)
(* belongs and reports the runs of stray ones: for any text.  And what its *)
(* reports and the parser's say is true.                                   *)
(***************************************************************************)
EXTENDS ScannerChecks, FrontEndProofs, FiniteSetTheorems, WellFoundedInduction

(***************************************************************************)
(* What the characters of a text t are, apart from the variables.          *)
(***************************************************************************)
\* The character at position p, or the NUL behind the text.
C(t, p) == IF p < Len(t) THEN t[p + 1] ELSE NUL

\* InComment, InIdentifier and Stray of that text.
Commented(t, p) ==
  \E q \in 0 .. p : C(t, q) = "#" /\ \A r \in q .. p : C(t, r) # "\n"
InName(t, p) ==
  \E q \in 0 .. p : /\ C(t, q) \in IdentifierStart
                    /\ \A r \in q .. p : C(t, r) \in IdentifierCharacter
StrayAt(t, p) ==
  /\ ~Commented(t, p) /\ ~InName(t, p)
  /\ C(t, p) \notin Expected
  /\ ~(C(t, p) = ">" /\ p > 0 /\ C(t, p - 1) = "=")

\* A character that belongs to a word.
InWord(t, p) ==
  /\ ~Commented(t, p) /\ ~StrayAt(t, p)
  /\ C(t, p) \notin Blanks /\ C(t, p) # "\n"

\* Nothing before position p bears on what stands there.
CleanAt(t, p) ==
  /\ Commented(t, p) => C(t, p) = "#"
  /\ InName(t, p) => C(t, p) \in IdentifierStart
  /\ ~(C(t, p) = ">" /\ p > 0 /\ C(t, p - 1) = "=")

\* A token is a word of its type, and the longest.
GoodWord(t, token) ==
  LET word == SubSeq(t, token.start + 1, token.start + token.length)
      next == C(t, token.start + token.length)
  IN Class(word) = token.type /\ Class(Append(word, next)) = "NONE"

\* Position p is in one of the tokens.
Covered(tokens, p) ==
  \E i \in DOMAIN tokens : p - tokens[i].start \in 0 .. tokens[i].length - 1

\* A run of stray characters, from a to the one before b.
Run(t, a, b) ==
  /\ a < b /\ \A p \in a .. b - 1 : StrayAt(t, p)
  /\ ~StrayAt(t, b) /\ (a > 0 => ~StrayAt(t, a - 1))

-----------------------------------------------------------------------------
(***************************************************************************)
(* Where the scanner stands at p: it has made of the text before p what is *)
(* to be made of it.                                                       *)
(***************************************************************************)
\* The tokens so far are the words before p, in order, and nothing else.
WordsRead(t, p, tokens) ==
  /\ IsSequence(tokens)
  /\ \A i \in DOMAIN tokens :
       /\ tokens[i].start \in Nat /\ tokens[i].length \in Nat
       /\ tokens[i].start + tokens[i].length <= p
       /\ tokens[i].start + tokens[i].length <= Len(t)
       /\ tokens[i].type # "EOF" => GoodWord(t, tokens[i])
       /\ tokens[i].type = "EOF" =>
            tokens[i].start = Len(t) /\ tokens[i].length = 0
  /\ \A i \in DOMAIN tokens : i > 1 =>
       tokens[i].start >= tokens[i - 1].start + tokens[i - 1].length
  /\ \A q \in 0 .. Len(t) - 1 : q < p => (Covered(tokens, q) <=> InWord(t, q))

\* The recorded newlines are the newlines before p, in order.
LinesRead(t, p, lines) ==
  /\ IsSequence(lines)
  /\ \A i \in DOMAIN lines : lines[i] \in 0 .. p - 1 /\ lines[i] < Len(t)
  /\ \A i, j \in DOMAIN lines : i < j => lines[i] < lines[j]
  /\ \A q \in 0 .. Len(t) - 1 : q < p =>
       ((\E i \in DOMAIN lines : lines[i] = q) <=> C(t, q) = "\n")

\* Where the run of stray characters that goes up to p began, if one does.
PendingRun(t, p, start) ==
  IF start = UINT_MAX THEN 0 < p /\ p <= Len(t) => ~StrayAt(t, p - 1)
  ELSE /\ start \in 0 .. p - 1 /\ p <= Len(t)
       /\ \A q \in start .. p - 1 : StrayAt(t, q)
       /\ start > 0 => ~StrayAt(t, start - 1)

\* The reports are the runs that ended before p, in order.
RunsReported(t, p, reports) ==
  /\ IsSequence(reports)
  /\ \A i \in DOMAIN reports :
       /\ reports[i].start_pos \in Nat /\ reports[i].end_pos \in Nat
       /\ reports[i].end_pos < p /\ reports[i].end_pos < Len(t)
       /\ Run(t, reports[i].start_pos, reports[i].end_pos)
  /\ \A a, b \in 0 .. Len(t) - 1 : b < p /\ Run(t, a, b) =>
       \E i \in DOMAIN reports :
         reports[i].start_pos = a /\ reports[i].end_pos = b
  /\ \A i, j \in DOMAIN reports : i < j =>
       reports[i].end_pos < reports[j].start_pos

\* All of it.
ReadSoFar(t, p, tokens, lines, start, reports) ==
  /\ p <= Len(t) => CleanAt(t, p)
  /\ WordsRead(t, p, tokens)
  /\ LinesRead(t, p, lines)
  /\ PendingRun(t, p, start)
  /\ RunsReported(t, p, reports)

\* The invariant of the scanner: one that was stopped has nothing to keep,
\* and one that ran on behind the text does not start afresh.
ScanInv ==
  /\ buffer \in Seq(STRING) /\ ptr \in Nat
  /\ Ended => ptr \in {Length, Astray}
  /\ ptr # Fault =>
       ReadSoFar(buffer, ptr, token_array, line_array, error_start, errors)

-----------------------------------------------------------------------------
(***************************************************************************)
(* Characters.                                                             *)
(***************************************************************************)
\* Characters of which no identifier is made, and blanks.
Marks == {"(", ")", "+", "-", "*", "/", ",", "=", ">", "\n", "#", NUL}

\* The classes of characters are apart where they should be.
LEMMA Characters ==
  /\ IdentifierStart \subseteq IdentifierCharacter
  /\ Digits \subseteq IdentifierCharacter
  /\ \A c \in IdentifierStart : c \notin Digits
  /\ \A c \in Marks : c \notin IdentifierCharacter /\ c \notin Blanks
  /\ \A c \in Blanks : c \notin IdentifierCharacter
  /\ \A c \in Marks : c # ">" /\ c # NUL => c \in Expected
  /\ "#" \in Expected /\ "\n" \in Expected
  /\ IdentifierStart \subseteq Expected /\ Digits \subseteq Expected
  /\ Blanks \subseteq Expected
  /\ ">" \notin Expected /\ NUL \notin Expected
<1>1. /\ IdentifierStart \subseteq IdentifierCharacter
      /\ Digits \subseteq IdentifierCharacter
  BY Zenon DEF IdentifierCharacter
<1>2. /\ IdentifierStart \subseteq Expected /\ Digits \subseteq Expected
      /\ Blanks \subseteq Expected
  BY Zenon DEF Expected
<1>3. \A c \in IdentifierStart : c \notin Digits
  <2>1. \A c \in Digits : c \notin IdentifierStart
    BY ZenonT(60) DEF IdentifierStart, Digits
  <2> QED
    BY <2>1
<1>4. \A c \in Marks : c \notin IdentifierCharacter /\ c \notin Blanks
  <2>1. \A c \in Marks : c \notin IdentifierStart
    BY ZenonT(60) DEF Marks, NUL, IdentifierStart
  <2>2. \A c \in Marks : c \notin Digits
    BY DEF Marks, NUL, Digits
  <2>3. \A c \in Marks : c \notin {"'", "\""} /\ c \notin Blanks
    BY DEF Marks, NUL, Blanks
  <2> QED
    BY <2>1, <2>2, <2>3 DEF IdentifierCharacter
<1>5. \A c \in Blanks : c \notin IdentifierCharacter
  BY ZenonT(60) DEF IdentifierCharacter, IdentifierStart, Digits, Blanks
<1>6. /\ \A c \in Marks : c # ">" /\ c # NUL => c \in Expected
      /\ "#" \in Expected /\ "\n" \in Expected
  BY ZenonT(60) DEF Marks, Expected
<1>7. ">" \notin Expected /\ NUL \notin Expected
  BY DEF Expected, NUL, IdentifierStart, Digits, Blanks
<1> QED
  BY <1>1, <1>2, <1>3, <1>4, <1>5, <1>6, <1>7

\* A character that is not the start of an identifier, blank or mark, has no
\* comment or identifier around it where the scanner starts afresh.
LEMMA Afresh ==
  ASSUME NEW t, NEW p \in Nat, CleanAt(t, p)
  PROVE  /\ C(t, p) # "#" => ~Commented(t, p)
         /\ C(t, p) \notin IdentifierStart => ~InName(t, p)
         /\ C(t, p) \notin Expected => StrayAt(t, p)
<1>1. C(t, p) \notin Expected => C(t, p) # "#" /\ C(t, p) \notin IdentifierStart
  BY Characters
<1> QED
  BY <1>1 DEF CleanAt, StrayAt

\* What follows an expected character that is not in a comment, or a stray
\* one, may start afresh.
LEMMA StaysClean ==
  ASSUME NEW t, NEW p \in Nat, ~Commented(t, p), C(t, p) # "=" \/ C(t, p + 1) # ">",
         InName(t, p) => C(t, p + 1) \notin IdentifierCharacter
                         \/ C(t, p + 1) \in IdentifierStart
  PROVE  CleanAt(t, p + 1)
<1>1. ASSUME Commented(t, p + 1) PROVE C(t, p + 1) = "#"
  <2>1. PICK q \in 0 .. p + 1 : C(t, q) = "#" /\ \A r \in q .. p + 1 : C(t, r) # "\n"
    BY <1>1 DEF Commented
  <2>2. CASE q <= p
    <3>1. q \in 0 .. p /\ \A r \in q .. p : C(t, r) # "\n"
      BY <2>1, <2>2
    <3> QED
      BY <2>1, <3>1 DEF Commented
  <2>3. q = p + 1 \/ q <= p
    OBVIOUS
  <2> QED
    BY <2>1, <2>2, <2>3
<1>2. ASSUME InName(t, p + 1) PROVE C(t, p + 1) \in IdentifierStart
  <2>1. PICK q \in 0 .. p + 1 :
               /\ C(t, q) \in IdentifierStart
               /\ \A r \in q .. p + 1 : C(t, r) \in IdentifierCharacter
    BY <1>2 DEF InName
  <2>2. CASE q <= p
    <3>1. q \in 0 .. p /\ (\A r \in q .. p : C(t, r) \in IdentifierCharacter)
          /\ p + 1 \in q .. p + 1
      BY <2>1, <2>2
    <3>2. InName(t, p) /\ C(t, p + 1) \in IdentifierCharacter
      BY <2>1, <3>1 DEF InName
    <3> QED
      BY <3>2
  <2>3. q = p + 1 \/ q <= p
    OBVIOUS
  <2> QED
    BY <2>1, <2>2, <2>3
<1>3. p + 1 - 1 = p
  OBVIOUS
<1> QED
  BY <1>1, <1>2, <1>3 DEF CleanAt

-----------------------------------------------------------------------------
(***************************************************************************)
(* Words: what is one, and of what type.                                   *)
(***************************************************************************)
\* How keywords are spelled, in as far as it matters.
Letters(w) == /\ w \in Seq(IdentifierStart) /\ Len(w) \in Nat /\ Len(w) >= 2
              /\ \A i \in 1 .. Len(w) : w[i] \in IdentifierStart

\* Two to five letters are letters.
LEMMA LettersAre ==
  ASSUME NEW a \in IdentifierStart, NEW b \in IdentifierStart,
         NEW c \in IdentifierStart, NEW d \in IdentifierStart,
         NEW e \in IdentifierStart
  PROVE  /\ Letters(<<a, b>>) /\ Letters(<<a, b, c>>)
         /\ Letters(<<a, b, c, d>>) /\ Letters(<<a, b, c, d, e>>)
<1>1. Letters(<<a, b>>)
  BY DEF Letters
<1>2. Letters(<<a, b, c>>)
  BY DEF Letters
<1>3. Letters(<<a, b, c, d>>)
  BY DEF Letters
<1>4. Letters(<<a, b, c, d, e>>)
  BY DEF Letters
<1> QED
  BY <1>1, <1>2, <1>3, <1>4

\* A keyword is made of letters, two at least, and no other is the same.
LEMMA KeywordSpelling ==
  ASSUME NEW k \in Keyword
  PROVE  Letters(Keywords[k]) /\ \A j \in Keyword : Keywords[j] = Keywords[k] => j = k
<1> DEFINE Own == \A j \in Keyword : Keywords[j] = Keywords[k] => j = k
<1>1. \A x \in {"a", "c", "e", "f", "h", "i", "l", "n", "r", "s", "t", "u"} :
        x \in IdentifierStart
  BY DEF IdentifierStart
<1>2. CASE k = "ELSE"
  <2>1. Letters(<<"e", "l", "s", "e">>)
    BY <1>1, LettersAre
  <2>2. Keywords[k] = <<"e", "l", "s", "e">> /\ Own
    BY <1>2 DEF Keyword, Keywords
  <2> QED
    BY <2>1, <2>2
<1>3. CASE k = "FALSE"
  <2>1. Letters(<<"f", "a", "l", "s", "e">>)
    BY <1>1, LettersAre
  <2>2. Keywords[k] = <<"f", "a", "l", "s", "e">> /\ Own
    BY <1>3 DEF Keyword, Keywords
  <2> QED
    BY <2>1, <2>2
<1>4. CASE k = "FN"
  <2>1. Letters(<<"f", "n">>)
    BY <1>1, LettersAre
  <2>2. Keywords[k] = <<"f", "n">> /\ Own
    BY <1>4 DEF Keyword, Keywords
  <2> QED
    BY <2>1, <2>2
<1>5. CASE k = "IF"
  <2>1. Letters(<<"i", "f">>)
    BY <1>1, LettersAre
  <2>2. Keywords[k] = <<"i", "f">> /\ Own
    BY <1>5 DEF Keyword, Keywords
  <2> QED
    BY <2>1, <2>2
<1>6. CASE k = "IN"
  <2>1. Letters(<<"i", "n">>)
    BY <1>1, LettersAre
  <2>2. Keywords[k] = <<"i", "n">> /\ Own
    BY <1>6 DEF Keyword, Keywords
  <2> QED
    BY <2>1, <2>2
<1>7. CASE k = "LET"
  <2>1. Letters(<<"l", "e", "t">>)
    BY <1>1, LettersAre
  <2>2. Keywords[k] = <<"l", "e", "t">> /\ Own
    BY <1>7 DEF Keyword, Keywords
  <2> QED
    BY <2>1, <2>2
<1>8. CASE k = "REC"
  <2>1. Letters(<<"r", "e", "c">>)
    BY <1>1, LettersAre
  <2>2. Keywords[k] = <<"r", "e", "c">> /\ Own
    BY <1>8 DEF Keyword, Keywords
  <2> QED
    BY <2>1, <2>2
<1>9. CASE k = "THEN"
  <2>1. Letters(<<"t", "h", "e", "n">>)
    BY <1>1, LettersAre
  <2>2. Keywords[k] = <<"t", "h", "e", "n">> /\ Own
    BY <1>9 DEF Keyword, Keywords
  <2> QED
    BY <2>1, <2>2
<1>10. CASE k = "TRUE"
  <2>1. Letters(<<"t", "r", "u", "e">>)
    BY <1>1, LettersAre
  <2>2. Keywords[k] = <<"t", "r", "u", "e">> /\ Own
    BY <1>10 DEF Keyword, Keywords
  <2> QED
    BY <2>1, <2>2
<1> QED
  BY <1>2, <1>3, <1>4, <1>5, <1>6, <1>7, <1>8, <1>9, <1>10 DEF Keyword

\* A sign is one character of which no identifier is made, not the equals
\* sign, and no other is the same.
LEMMA SignSpelling ==
  ASSUME NEW k \in DOMAIN Signs
  PROVE  /\ \E c \in Marks : /\ Signs[k] = <<c>> /\ c # "=" /\ c # "\n" /\ c # "#"
                            /\ c \in Expected
         /\ \A j \in DOMAIN Signs : Signs[j] = Signs[k] => j = k
<1>1. DOMAIN Signs = {"LPAREN", "RPAREN", "PLUS", "MINUS", "STAR", "SLASH", "COMMA"}
  BY DEF Signs
<1>2. \A c \in {"(", ")", "+", "-", "*", "/", ","} :
        c \in Marks /\ c # "=" /\ c # "\n" /\ c # "#"
  BY DEF Marks
<1>3. \A c \in {"(", ")", "+", "-", "*", "/", ","} : c \in Expected
  BY DEF Expected
<1>4. /\ Signs["LPAREN"] = <<"(">> /\ Signs["RPAREN"] = <<")">>
      /\ Signs["PLUS"] = <<"+">> /\ Signs["MINUS"] = <<"-">>
      /\ Signs["STAR"] = <<"*">> /\ Signs["SLASH"] = <<"/">>
      /\ Signs["COMMA"] = <<",">>
  BY DEF Signs
<1>5. PICK c \in {"(", ")", "+", "-", "*", "/", ","} : Signs[k] = <<c>>
  BY <1>1, <1>4
<1>6. \A j \in DOMAIN Signs : Signs[j] = Signs[k] => j = k
  <2>1. /\ Signs["LPAREN"][1] = "(" /\ Signs["RPAREN"][1] = ")"
        /\ Signs["PLUS"][1] = "+" /\ Signs["MINUS"][1] = "-"
        /\ Signs["STAR"][1] = "*" /\ Signs["SLASH"][1] = "/"
        /\ Signs["COMMA"][1] = ","
    <3>1. \A x : <<x>>[1] = x
      OBVIOUS
    <3> QED
      BY <1>4, <3>1, Zenon
  <2> QED
    BY <1>1, <2>1
<1> QED
  BY <1>2, <1>3, <1>5, <1>6

\* No keyword is a word of one character or with a character that is not in
\* identifiers; no sign is of more than one.
LEMMA NotSpecial ==
  ASSUME NEW w
  PROVE  /\ Len(w) = 1 => \A k \in Keyword : Keywords[k] # w
         /\ \A i \in 1 .. Len(w) :
              w[i] \notin IdentifierStart => \A k \in Keyword : Keywords[k] # w
         /\ Len(w) # 1 => \A k \in DOMAIN Signs : Signs[k] # w
         /\ \A i \in 1 .. Len(w) : w[i] \in IdentifierCharacter =>
              \A k \in DOMAIN Signs : Signs[k] # w
<1>1. \A k \in Keyword : Letters(Keywords[k])
  BY KeywordSpelling
<1>2. \A k \in DOMAIN Signs : \E c \in Marks : Signs[k] = <<c>>
  BY SignSpelling
<1>3. \A c : Len(<<c>>) = 1 /\ <<c>>[1] = c
  OBVIOUS
<1>4. \A k \in DOMAIN Signs : Len(Signs[k]) = 1 /\ Signs[k][1] \notin IdentifierCharacter
  <2>1. ASSUME NEW k \in DOMAIN Signs
        PROVE  Len(Signs[k]) = 1 /\ Signs[k][1] \notin IdentifierCharacter
    <3>1. PICK c \in Marks : Signs[k] = <<c>>
      BY <1>2
    <3>2. c \notin IdentifierCharacter
      BY Characters
    <3> QED
      BY <1>3, <3>1, <3>2, Zenon
  <2> QED
    BY <2>1
<1>5. \A i \in 1 .. Len(w) : w[i] \in IdentifierCharacter =>
        \A k \in DOMAIN Signs : Signs[k] # w
  BY <1>4
<1> QED
  BY <1>1, <1>4, <1>5 DEF Letters

\* Keywords and signs are of their types.
LEMMA ClassOfSpecial ==
  /\ \A k \in Keyword : Class(Keywords[k]) = k
  /\ \A k \in DOMAIN Signs : Class(Signs[k]) = k
<1>1. ASSUME NEW k \in Keyword PROVE Class(Keywords[k]) = k
  <2>1. (CHOOSE t \in Keyword : Keywords[t] = Keywords[k]) = k
    BY KeywordSpelling
  <2> QED
    BY <2>1 DEF Class
<1>2. ASSUME NEW k \in DOMAIN Signs PROVE Class(Signs[k]) = k
  <2>1. (CHOOSE t \in DOMAIN Signs : Signs[t] = Signs[k]) = k
    BY SignSpelling
  <2>2. Len(Signs[k]) = 1
    BY SignSpelling
  <2>3. ~\E t \in Keyword : Keywords[t] = Signs[k]
    BY <2>2, NotSpecial
  <2> QED
    BY <2>1, <2>3 DEF Class
<1> QED
  BY <1>1, <1>2

\* The equals sign and the arrow are of their types.
LEMMA ClassOfEquals ==
  Class(<<"=">>) = "EQUALS" /\ Class(<<"=", ">">>) = "ARROW"
<1>1. Len(<<"=">>) = 1 /\ <<"=">>[1] = "=" /\ Len(<<"=", ">">>) = 2
      /\ <<"=", ">">>[1] = "="
  OBVIOUS
<1>2. "=" \notin IdentifierStart
  BY Characters DEF Marks
<1>3. \A k \in Keyword : Keywords[k] # <<"=">> /\ Keywords[k] # <<"=", ">">>
  <2>1. \A k \in Keyword : Keywords[k] # <<"=">>
    BY <1>1, NotSpecial
  <2>2. ASSUME NEW k \in Keyword PROVE Keywords[k][1] \in IdentifierStart
    <3>1. Letters(Keywords[k])
      BY KeywordSpelling
    <3> QED
      BY <3>1 DEF Letters
  <2> QED
    BY <1>1, <1>2, <2>1, <2>2
<1>4. \A k \in DOMAIN Signs : Signs[k] # <<"=">> /\ Signs[k] # <<"=", ">">>
  <2>1. ASSUME NEW k \in DOMAIN Signs PROVE Signs[k] # <<"=">>
    <3>1. PICK c \in Marks : Signs[k] = <<c>> /\ c # "="
      BY SignSpelling
    <3> QED
      BY <3>1
  <2> QED
    BY <1>1, <2>1, NotSpecial
<1>5. <<"=", ">">> # <<"=">>
  BY <1>1
<1> QED
  BY <1>3, <1>4, <1>5 DEF Class

\* Digits are a number.
LEMMA ClassOfDigits ==
  ASSUME NEW w, DOMAIN w = 1 .. Len(w), Len(w) \in Nat, Len(w) >= 1,
         \A i \in 1 .. Len(w) : w[i] \in Digits
  PROVE  Class(w) = "INT_LITERAL"
<1>1. w[1] \in Digits /\ 1 \in 1 .. Len(w)
  OBVIOUS
<1>2. w[1] \notin IdentifierStart /\ w[1] \in IdentifierCharacter /\ w[1] # "="
  BY <1>1, Characters DEF Marks
<1>3. (\A k \in Keyword : Keywords[k] # w) /\ (\A k \in DOMAIN Signs : Signs[k] # w)
  BY <1>1, <1>2, NotSpecial
<1>4. w # <<"=">> /\ w # <<"=", ">">>
  BY <1>2
<1> QED
  BY <1>3, <1>4 DEF Class

\* A start of an identifier and characters of one are one, or a keyword.
LEMMA ClassOfName ==
  ASSUME NEW w, DOMAIN w = 1 .. Len(w), Len(w) \in Nat, Len(w) >= 1,
         w[1] \in IdentifierStart, \A k \in Keyword : Keywords[k] # w,
         \A i \in 1 .. Len(w) : w[i] \in IdentifierCharacter
  PROVE  Class(w) = "ID"
<1>1. w[1] \in IdentifierCharacter /\ 1 \in 1 .. Len(w) /\ w[1] \notin Digits
  BY Characters
<1>2. \A k \in DOMAIN Signs : Signs[k] # w
  BY <1>1, NotSpecial
<1>3. w[1] # "="
  BY <1>1, Characters DEF Marks
<1>4. w # <<"=">> /\ w # <<"=", ">">>
  BY <1>3
<1> QED
  BY <1>1, <1>2, <1>4 DEF Class

\* Two characters or more are no word when one is in no identifier, but for
\* the arrow; and neither is a digit with something behind it that is not.
LEMMA NoClass ==
  ASSUME NEW w, DOMAIN w = 1 .. Len(w), Len(w) \in Nat, Len(w) >= 2,
         NEW i \in 1 .. Len(w), w # <<"=", ">">>,
         \/ w[i] \notin IdentifierCharacter
         \/ w[i] \notin Digits /\ w[1] \in Digits
  PROVE  Class(w) = "NONE"
<1>1. 1 \in 1 .. Len(w) /\ (w[1] \in Digits => w[1] \notin IdentifierStart)
  BY Characters
<1>2. \A k \in DOMAIN Signs : Signs[k] # w
  BY NotSpecial
<1>3. \A k \in Keyword : Keywords[k] # w
  BY <1>1, Characters, NotSpecial
<1>4. w # <<"=">>
  <2>1. Len(<<"=">>) = 1
    OBVIOUS
  <2> QED
    BY <2>1
<1>5. w[i] \notin Digits
  BY Characters
<1>6. ~(w[1] \in IdentifierStart /\ \A j \in DOMAIN w : w[j] \in IdentifierCharacter)
  BY <1>1
<1> QED
  BY <1>2, <1>3, <1>4, <1>5, <1>6 DEF Class

-----------------------------------------------------------------------------
(***************************************************************************)
(* The tokens that the rounds of the scanner make are good words.          *)
(***************************************************************************)
\* The n characters of a text from position p on, and one more.
WordAt(t, p, n) == SubSeq(t, p + 1, p + n)
WordAndNext(t, p, n) == Append(WordAt(t, p, n), C(t, p + n))

\* Their characters.
LEMMA Slice ==
  ASSUME NEW t \in Seq(STRING), NEW p \in Nat, NEW n \in Nat, n > 0,
         p + n <= Len(t)
  PROVE  /\ WordAt(t, p, n) \in Seq(STRING)
         /\ Len(WordAt(t, p, n)) = n /\ DOMAIN WordAt(t, p, n) = 1 .. n
         /\ \A i \in 1 .. n : WordAt(t, p, n)[i] = C(t, p + i - 1)
         /\ Len(WordAndNext(t, p, n)) = n + 1 /\ DOMAIN WordAndNext(t, p, n) = 1 .. n + 1
         /\ \A i \in 1 .. n : WordAndNext(t, p, n)[i] = C(t, p + i - 1)
         /\ WordAndNext(t, p, n)[n + 1] = C(t, p + n)
<1> DEFINE word == WordAt(t, p, n)
           next == C(t, p + n)
           longer == Append(word, next)
<1>1. Len(t) \in Nat /\ p + 1 \in 1 .. Len(t) + 1 /\ p + n \in p .. Len(t)
      /\ p + n - (p + 1) + 1 = n
  BY LenProperties
<1>2. /\ word \in Seq(STRING) /\ Len(word) = n /\ DOMAIN word = 1 .. n
      /\ \A i \in 1 .. n : word[i] = t[p + 1 + i - 1]
  <2> DEFINE a == p + 1
             b == p + n
  <2>1. a \in Int /\ b \in Int /\ a <= b /\ b - a + 1 = n
    BY <1>1
  <2>2. \A i \in a .. b : t[i] \in STRING
    BY <1>1
  <2>3. word = SubSeq(t, a, b)
    BY DEF WordAt
  <2> HIDE DEF a, b, word
  <2>4. /\ word \in Seq(STRING) /\ Len(word) = n
        /\ \A i \in 1 .. n : word[i] = t[a + i - 1]
    BY <2>1, <2>2, <2>3, SubSeqProperties
  <2>5. DOMAIN word = 1 .. n
    BY <2>4, LenProperties
  <2> QED
    BY <2>4, <2>5 DEF a
<1>3. \A i \in 1 .. n : t[p + 1 + i - 1] = C(t, p + i - 1)
  <2>1. ASSUME NEW i \in 1 .. n
        PROVE  t[p + 1 + i - 1] = C(t, p + i - 1)
    <3>1. p + i - 1 < Len(t) /\ p + 1 + i - 1 = (p + i - 1) + 1
      BY <1>1
    <3> QED
      BY <3>1 DEF C
  <2> QED
    BY <2>1
<1> HIDE DEF word, next
<1>4. /\ Len(longer) = n + 1 /\ DOMAIN longer = 1 .. n + 1
      /\ longer[n + 1] = next /\ \A i \in 1 .. n : longer[i] = word[i]
  <2> DEFINE S == STRING \union {next}
  <2>1. word \in Seq(S)
    BY <1>2, SeqMonotonic
  <2> QED
    BY <1>2, <2>1, AppendProperties, LenProperties
<1>5. longer = WordAndNext(t, p, n)
  BY DEF WordAndNext, word, next
<1> HIDE DEF longer
<1> QED
  BY <1>2, <1>3, <1>4, <1>5 DEF word, next

\* The first two.
LEMMA SliceStart ==
  ASSUME NEW t \in Seq(STRING), NEW p \in Nat, NEW n \in Nat, n > 0,
         p + n <= Len(t)
  PROVE  /\ WordAt(t, p, n) \in Seq(STRING) /\ Len(WordAt(t, p, n)) = n
         /\ WordAt(t, p, n)[1] = C(t, p)
         /\ n > 1 => WordAt(t, p, n)[2] = C(t, p + 1)
<1>1. 1 \in 1 .. n /\ p + 1 - 1 = p /\ (n > 1 => 2 \in 1 .. n) /\ p + 2 - 1 = p + 1
  OBVIOUS
<1> QED
  BY <1>1, Slice

\* A spelled word is the slice of the text at its place.
LEMMA SpelledSlice ==
  ASSUME NEW t \in Seq(STRING), NEW p \in Nat, NEW S, NEW w \in Seq(S), Len(w) > 0,
         p + Len(w) <= Len(t), \A i \in 1 .. Len(w) : t[p + i] = w[i]
  PROVE  WordAt(t, p, Len(w)) = w
<1> DEFINE word == WordAt(t, p, Len(w))
<1>1. Len(w) \in Nat /\ Len(t) \in Nat
  BY LenProperties
<1>2. /\ word \in Seq(STRING) /\ Len(word) = Len(w)
      /\ \A i \in 1 .. Len(w) : word[i] = C(t, p + i - 1)
  BY <1>1, Slice
<1>3. \A i \in 1 .. Len(w) : C(t, p + i - 1) = w[i]
  BY <1>1 DEF C
<1> HIDE DEF word
<1>4. word \in Seq(STRING \union S) /\ w \in Seq(STRING \union S)
  BY <1>2, SeqMonotonic
<1>5. word = w
  BY <1>2, <1>3, <1>4, SeqEqual
<1> QED
  BY <1>5 DEF word

\* Words of one character, and of two.
LEMMA ShortWords ==
  ASSUME NEW S, NEW w \in Seq(S)
  PROVE  /\ Len(w) = 1 => w = <<w[1]>>
         /\ Len(w) = 2 => w = <<w[1], w[2]>>
<1>1. ASSUME Len(w) = 1 PROVE w = <<w[1]>>
  <2>1. w[1] \in S
    <3>1. 1 \in 1 .. Len(w)
      BY <1>1
    <3> QED
      BY <3>1, ElementOfSeq
  <2>2. <<w[1]>> \in Seq(S) /\ Len(<<w[1]>>) = 1 /\ <<w[1]>>[1] = w[1]
    BY <2>1
  <2> DEFINE v == <<w[1]>>
  <2> HIDE DEF v
  <2>3. v \in Seq(S) /\ Len(v) = 1 /\ v[1] = w[1]
    BY <2>2 DEF v
  <2>4. v = w
    BY <1>1, <2>3, SeqEqual
  <2> QED
    BY <2>4 DEF v
<1>2. ASSUME Len(w) = 2 PROVE w = <<w[1], w[2]>>
  <2>1. w[1] \in S /\ w[2] \in S
    BY <1>2, ElementOfSeq
  <2> DEFINE v == <<w[1], w[2]>>
  <2>2. v \in Seq(S) /\ Len(v) = 2 /\ v[1] = w[1] /\ v[2] = w[2]
    BY <2>1
  <2> HIDE DEF v
  <2>3. v = w
    BY <1>2, <2>2, SeqEqual
  <2> QED
    BY <2>3 DEF v
<1> QED
  BY <1>1, <1>2

\* The one character at p, and the two.
LEMMA FirstCharacters ==
  ASSUME NEW t \in Seq(STRING), NEW p \in Nat, NEW n \in Nat, n > 0,
         p + n <= Len(t)
  PROVE  /\ n = 1 => WordAt(t, p, n) = <<C(t, p)>>
         /\ n = 2 => WordAt(t, p, n) = <<C(t, p), C(t, p + 1)>>
<1> DEFINE word == WordAt(t, p, n)
<1>1. /\ word \in Seq(STRING) /\ Len(word) = n
      /\ word[1] = C(t, p) /\ (n > 1 => word[2] = C(t, p + 1))
  BY SliceStart
<1> HIDE DEF word
<1>2. /\ Len(word) = 1 => word = <<word[1]>>
      /\ Len(word) = 2 => word = <<word[1], word[2]>>
  BY <1>1, ShortWords
<1>3. /\ n = 1 => word = <<C(t, p)>>
      /\ n = 2 => word = <<C(t, p), C(t, p + 1)>>
  BY <1>1, <1>2
<1> QED
  BY <1>3 DEF word

\* A token of one type from p on.
Token(type, p, n) == [type |-> type, start |-> p, length |-> n]

\* It is good when its word is of the type and no longer one is a word.
LEMMA GoodToken ==
  ASSUME NEW t, NEW type, NEW p, NEW n,
         Class(WordAt(t, p, n)) = type, Class(WordAndNext(t, p, n)) = "NONE"
  PROVE  GoodWord(t, Token(type, p, n))
BY DEF GoodWord, Token, WordAt, WordAndNext

\* With one more character a word is none.
LEMMA TooLong ==
  ASSUME NEW t \in Seq(STRING), NEW p \in Nat, NEW n \in Nat, n > 0, p + n <= Len(t),
         n > 1 \/ C(t, p) # "=" \/ C(t, p + 1) # ">",
         \/ C(t, p) \notin IdentifierCharacter
         \/ C(t, p + n) \notin IdentifierCharacter
         \/ C(t, p) \in Digits /\ C(t, p + n) \notin Digits
  PROVE  Class(WordAndNext(t, p, n)) = "NONE"
<1> DEFINE w == WordAndNext(t, p, n)
<1>1. /\ Len(w) = n + 1 /\ DOMAIN w = 1 .. n + 1 /\ w[1] = C(t, p)
      /\ w[n + 1] = C(t, p + n) /\ 1 \in 1 .. n
  <2>1. 1 \in 1 .. n /\ p + 1 - 1 = p
    OBVIOUS
  <2> QED
    BY <2>1, Slice
<1> HIDE DEF w
<1>2. w # <<"=", ">">>
  <2>1. Len(<<"=", ">">>) = 2 /\ <<"=", ">">>[1] = "=" /\ <<"=", ">">>[2] = ">"
    OBVIOUS
  <2>2. n > 1 => Len(w) # 2
    BY <1>1
  <2>3. n = 1 => w[2] = C(t, p + 1)
    BY <1>1
  <2>4. n > 1 \/ n = 1
    OBVIOUS
  <2> QED
    BY <1>1, <2>1, <2>2, <2>3, <2>4
<1>3. 1 \in 1 .. Len(w) /\ n + 1 \in 1 .. Len(w) /\ Len(w) \in Nat /\ Len(w) >= 2
      /\ DOMAIN w = 1 .. Len(w)
  BY <1>1
<1>4. Class(w) = "NONE"
  BY <1>1, <1>2, <1>3, NoClass
<1> QED
  BY <1>4 DEF w

\* ScanSign.
LEMMA GoodSign ==
  ASSUME NEW t \in Seq(STRING), NEW p \in Nat, NEW type \in DOMAIN Signs, p + 1 <= Len(t),
         Signs[type] = <<C(t, p)>>
  PROVE  GoodWord(t, Token(type, p, 1))
<1>1. Class(WordAt(t, p, 1)) = type
  BY FirstCharacters, ClassOfSpecial
<1>2. PICK c \in Marks : Signs[type] = <<c>> /\ c # "="
  BY SignSpelling
<1>3. C(t, p) = c
  BY <1>2
<1>4. Class(WordAndNext(t, p, 1)) = "NONE"
  BY <1>2, <1>3, Characters, TooLong
<1> QED
  BY <1>1, <1>4, GoodToken

\* ScanEquals.
LEMMA GoodEquals ==
  ASSUME NEW t \in Seq(STRING), NEW p \in Nat, p + 1 <= Len(t), C(t, p) = "="
  PROVE  /\ C(t, p + 1) # ">" => GoodWord(t, Token("EQUALS", p, 1))
         /\ C(t, p + 1) = ">" /\ p + 2 <= Len(t) => GoodWord(t, Token("ARROW", p, 2))
<1>1. C(t, p) \notin IdentifierCharacter
  BY Characters DEF Marks
<1>2. /\ WordAt(t, p, 1) = <<"=">>
      /\ C(t, p + 1) = ">" /\ p + 2 <= Len(t) => WordAt(t, p, 2) = <<"=", ">">>
  BY FirstCharacters
<1>3. ASSUME C(t, p + 1) # ">" PROVE GoodWord(t, Token("EQUALS", p, 1))
  <2>1. Class(WordAndNext(t, p, 1)) = "NONE"
    BY <1>1, <1>3, TooLong
  <2> QED
    BY <1>2, <2>1, ClassOfEquals, GoodToken
<1>4. ASSUME C(t, p + 1) = ">", p + 2 <= Len(t)
      PROVE  GoodWord(t, Token("ARROW", p, 2))
  <2>1. Class(WordAndNext(t, p, 2)) = "NONE"
    BY <1>1, <1>4, TooLong
  <2> QED
    BY <1>2, <1>4, <2>1, ClassOfEquals, GoodToken
<1> QED
  BY <1>3, <1>4

\* ScanKeyword.
LEMMA GoodKeyword ==
  ASSUME NEW t \in Seq(STRING), NEW p \in Nat, NEW k \in Keyword,
         p + Len(Keywords[k]) <= Len(t),
         \A i \in 1 .. Len(Keywords[k]) : t[p + i] = Keywords[k][i],
         C(t, p + Len(Keywords[k])) \notin IdentifierCharacter
  PROVE  GoodWord(t, Token(k, p, Len(Keywords[k])))
<1> DEFINE w == Keywords[k]
<1>1. Len(w) \in Nat /\ Len(w) >= 2 /\ w \in Seq(IdentifierStart)
  BY KeywordSpelling DEF Letters
<1>2. WordAt(t, p, Len(w)) = w
  <2>1. Len(w) > 0 /\ p + Len(w) <= Len(t) /\ \A i \in 1 .. Len(w) : t[p + i] = w[i]
    BY <1>1
  <2> HIDE DEF w
  <2> QED
    BY <1>1, <2>1, SpelledSlice
<1>3. Class(w) = k
  BY ClassOfSpecial
<1>4. Class(WordAndNext(t, p, Len(w))) = "NONE"
  <2>1. Len(w) > 1 /\ Len(w) > 0
    BY <1>1
  <2> QED
    BY <1>1, <2>1, TooLong
<1> QED
  BY <1>2, <1>3, <1>4, GoodToken

\* ScanIdentifier.
LEMMA GoodName ==
  ASSUME NEW t \in Seq(STRING), NEW p \in Nat, NEW n \in Nat, n > 0, p + n <= Len(t),
         C(t, p) \in IdentifierStart,
         \A q \in p .. p + n - 1 : C(t, q) \in IdentifierCharacter,
         C(t, p + n) \notin IdentifierCharacter,
         \A k \in Keyword : WordAt(t, p, n) # Keywords[k]
  PROVE  GoodWord(t, Token("ID", p, n))
<1> DEFINE word == WordAt(t, p, n)
<1>1. /\ word \in Seq(STRING) /\ Len(word) = n /\ DOMAIN word = 1 .. n
      /\ \A i \in 1 .. n : word[i] = C(t, p + i - 1)
  BY Slice
<1> HIDE DEF word
<1>2. word[1] = C(t, p)
  BY SliceStart DEF word
<1>3. \A i \in 1 .. n : word[i] \in IdentifierCharacter
  <2>1. \A i \in 1 .. n : p + i - 1 \in p .. p + n - 1
    OBVIOUS
  <2> QED
    BY <1>1, <2>1
<1>4. Class(word) = "ID"
  <2>1. \A k \in Keyword : Keywords[k] # word
    BY DEF word
  <2> QED
    BY <1>1, <1>2, <1>3, <2>1, ClassOfName
<1>5. Class(WordAndNext(t, p, n)) = "NONE"
  <2>1. C(t, p) # "="
    BY Characters DEF Marks
  <2> QED
    BY <2>1, TooLong
<1> QED
  BY <1>4, <1>5, GoodToken DEF word

\* ScanInteger.
LEMMA GoodInteger ==
  ASSUME NEW t \in Seq(STRING), NEW p \in Nat, NEW n \in Nat, n > 0, p + n <= Len(t),
         \A q \in p .. p + n - 1 : C(t, q) \in Digits,
         C(t, p + n) \notin Digits
  PROVE  GoodWord(t, Token("INT_LITERAL", p, n))
<1> DEFINE word == WordAt(t, p, n)
<1>1. /\ word \in Seq(STRING) /\ Len(word) = n /\ DOMAIN word = 1 .. n
      /\ \A i \in 1 .. n : word[i] = C(t, p + i - 1)
  BY Slice
<1> HIDE DEF word
<1>2. \A i \in 1 .. n : word[i] \in Digits
  <2>1. \A i \in 1 .. n : p + i - 1 \in p .. p + n - 1
    OBVIOUS
  <2> QED
    BY <1>1, <2>1
<1>3. Class(word) = "INT_LITERAL"
  BY <1>1, <1>2, ClassOfDigits
<1>4. Class(WordAndNext(t, p, n)) = "NONE"
  <2>1. p \in p .. p + n - 1
    OBVIOUS
  <2>2. C(t, p) \in Digits
    BY <2>1
  <2>3. C(t, p) # "="
    BY <2>2, Characters DEF Marks
  <2> QED
    BY <2>2, <2>3, TooLong
<1> QED
  BY <1>3, <1>4, GoodToken DEF word

-----------------------------------------------------------------------------
(***************************************************************************)
(* What a round makes of the characters it passes.                         *)
(***************************************************************************)
\* No comment begins in the middle of a word.
LEMMA NotCommented ==
  ASSUME NEW t, NEW p \in Nat, NEW e \in Nat, CleanAt(t, p),
         \A r \in p .. e - 1 : C(t, r) # "#"
  PROVE  \A r \in p .. e - 1 : ~Commented(t, r)
<1> SUFFICES ASSUME NEW r \in p .. e - 1, Commented(t, r) PROVE FALSE
  OBVIOUS
<1>1. PICK q \in 0 .. r : C(t, q) = "#" /\ \A s \in q .. r : C(t, s) # "\n"
  BY DEF Commented
<1>2. CASE q >= p
  <2>1. q \in p .. e - 1
    BY <1>2
  <2> QED
    BY <1>1, <2>1
<1>3. CASE q < p
  <2>1. q \in 0 .. p /\ p \in p .. e - 1 /\ \A s \in q .. p : C(t, s) # "\n"
    BY <1>1, <1>3
  <2>2. Commented(t, p) /\ C(t, p) # "#"
    BY <1>1, <2>1 DEF Commented
  <2> QED
    BY <2>2 DEF CleanAt
<1> QED
  BY <1>2, <1>3

\* Nor does an identifier in the middle of a number.
LEMMA NotInName ==
  ASSUME NEW t, NEW p \in Nat, NEW e \in Nat, CleanAt(t, p),
         \A r \in p .. e - 1 : C(t, r) \notin IdentifierStart
  PROVE  \A r \in p .. e - 1 : ~InName(t, r)
<1> SUFFICES ASSUME NEW r \in p .. e - 1, InName(t, r) PROVE FALSE
  OBVIOUS
<1>1. PICK q \in 0 .. r : /\ C(t, q) \in IdentifierStart
                          /\ \A s \in q .. r : C(t, s) \in IdentifierCharacter
  BY DEF InName
<1>2. CASE q >= p
  <2>1. q \in p .. e - 1
    BY <1>2
  <2> QED
    BY <1>1, <2>1
<1>3. CASE q < p
  <2>1. q \in 0 .. p /\ p \in p .. e - 1
        /\ \A s \in q .. p : C(t, s) \in IdentifierCharacter
    BY <1>1, <1>3
  <2>2. InName(t, p) /\ C(t, p) \notin IdentifierStart
    BY <1>1, <2>1 DEF InName
  <2> QED
    BY <2>2 DEF CleanAt
<1> QED
  BY <1>2, <1>3

\* The characters of an identifier are in it.
LEMMA AllInName ==
  ASSUME NEW t, NEW p \in Nat, NEW e \in Nat, C(t, p) \in IdentifierStart,
         \A r \in p .. e - 1 : C(t, r) \in IdentifierCharacter
  PROVE  \A r \in p .. e - 1 : InName(t, r)
<1>1. ASSUME NEW r \in p .. e - 1 PROVE InName(t, r)
  <2>1. p \in 0 .. r /\ \A s \in p .. r : C(t, s) \in IdentifierCharacter
    OBVIOUS
  <2> QED
    BY <2>1 DEF InName
<1> QED
  BY <1>1

\* What is in an identifier is a character of one.
LEMMA InNameCharacter ==
  ASSUME NEW t, NEW p \in Nat, InName(t, p)
  PROVE  C(t, p) \in IdentifierCharacter
<1>1. PICK q \in 0 .. p : \A s \in q .. p : C(t, s) \in IdentifierCharacter
  BY DEF InName
<1>2. p \in q .. p
  OBVIOUS
<1> QED
  BY <1>1, <1>2

\* A character of a word.
NoBlank(t, r) ==
  /\ C(t, r) # "#" /\ C(t, r) # "\n" /\ C(t, r) \notin Blanks
  /\ \/ C(t, r) \in Expected
     \/ InName(t, r)
     \/ C(t, r) = ">" /\ r > 0 /\ C(t, r - 1) = "="

\* The n characters that a token takes are in a word, and the scanner may
\* start afresh behind them.
LEMMA WordTaken ==
  ASSUME NEW t, NEW p \in Nat, NEW n \in Nat, n > 0, CleanAt(t, p),
         \A r \in p .. p + n - 1 : NoBlank(t, r),
         C(t, p + n - 1) # "=" \/ C(t, p + n) # ">",
         InName(t, p + n - 1) => C(t, p + n) \notin IdentifierCharacter
  PROVE  /\ \A r \in p .. p + n - 1 : InWord(t, r)
         /\ CleanAt(t, p + n)
<1>1. \A r \in p .. p + n - 1 : ~Commented(t, r)
  <2>1. \A r \in p .. p + n - 1 : C(t, r) # "#"
    BY DEF NoBlank
  <2>2. p + n \in Nat
    OBVIOUS
  <2> QED
    BY <2>1, <2>2, NotCommented
<1>2. \A r \in p .. p + n - 1 : InWord(t, r)
  BY <1>1 DEF NoBlank, InWord, StrayAt
<1>3. p + n - 1 \in Nat /\ p + n - 1 \in p .. p + n - 1 /\ p + n - 1 + 1 = p + n
  OBVIOUS
<1> DEFINE last == p + n - 1
<1>4. last \in Nat /\ ~Commented(t, last)
  BY <1>1, <1>3
<1>5. (C(t, last) # "=" \/ C(t, last + 1) # ">")
      /\ (InName(t, last) => C(t, last + 1) \notin IdentifierCharacter)
  BY <1>3
<1> HIDE DEF last
<1>6. CleanAt(t, last + 1)
  BY <1>4, <1>5, StaysClean
<1>7. CleanAt(t, p + n)
  BY <1>3, <1>6 DEF last
<1> QED
  BY <1>2, <1>7

\* A sign or an equals sign alone is taken.
LEMMA MarkTaken ==
  ASSUME NEW t, NEW p \in Nat, CleanAt(t, p), C(t, p) \in Marks, C(t, p) \in Expected,
         C(t, p) # "#", C(t, p) # "\n", C(t, p) # "=" \/ C(t, p + 1) # ">"
  PROVE  InWord(t, p) /\ CleanAt(t, p + 1)
<1>1. C(t, p) \notin IdentifierCharacter /\ C(t, p) \notin Blanks
  BY Characters
<1>2. ~InName(t, p)
  BY <1>1, InNameCharacter
<1>3. ~Commented(t, p)
  BY Afresh
<1>4. InWord(t, p)
  BY <1>1, <1>3 DEF InWord, StrayAt
<1>5. CleanAt(t, p + 1)
  BY <1>2, <1>3, StaysClean
<1> QED
  BY <1>4, <1>5

\* The arrow is.
LEMMA ArrowTaken ==
  ASSUME NEW t, NEW p \in Nat, CleanAt(t, p), C(t, p) = "=", C(t, p + 1) = ">"
  PROVE  (\A r \in p .. p + 2 - 1 : InWord(t, r)) /\ CleanAt(t, p + 2)
<1>1. /\ "=" # "#" /\ "=" # "\n" /\ "=" \notin Blanks /\ "=" \in Expected
      /\ ">" # "#" /\ ">" # "\n" /\ ">" \notin Blanks /\ ">" # "="
      /\ ">" \notin IdentifierCharacter
  <2>1. "=" \in Marks /\ ">" \in Marks
    BY DEF Marks
  <2>2. "=" \in Expected
    BY DEF Expected
  <2> QED
    BY <2>1, <2>2, Characters
<1>2. NoBlank(t, p)
  BY <1>1 DEF NoBlank
<1>3. NoBlank(t, p + 1)
  <2>1. p + 1 > 0 /\ p + 1 - 1 = p
    OBVIOUS
  <2> QED
    BY <1>1, <2>1 DEF NoBlank
<1>4. \A r \in p .. p + 2 - 1 : NoBlank(t, r)
  <2>1. \A r \in p .. p + 2 - 1 : r = p \/ r = p + 1
    OBVIOUS
  <2> QED
    BY <1>2, <1>3, <2>1
<1>5. ~InName(t, p + 1)
  BY <1>1, InNameCharacter
<1>6. p + 2 - 1 = p + 1 /\ 2 \in Nat /\ 2 > 0
  OBVIOUS
<1>7. ~InName(t, p + 2 - 1) /\ C(t, p + 2 - 1) # "="
  BY <1>1, <1>5, <1>6
<1> HIDE DEF NoBlank
<1> QED
  BY <1>4, <1>6, <1>7, WordTaken

\* A keyword or an identifier is.
LEMMA NameTaken ==
  ASSUME NEW t, NEW p \in Nat, NEW n \in Nat, n > 0, CleanAt(t, p),
         C(t, p) \in IdentifierStart,
         \A r \in p .. p + n - 1 : C(t, r) \in IdentifierCharacter,
         C(t, p + n) \notin IdentifierCharacter
  PROVE  (\A r \in p .. p + n - 1 : InWord(t, r)) /\ CleanAt(t, p + n)
<1>1. \A r \in p .. p + n - 1 : InName(t, r)
  BY AllInName
<1>2. \A c \in IdentifierCharacter : c # "#" /\ c # "\n" /\ c # "=" /\ c \notin Blanks
  BY Characters DEF Marks
<1>3. \A r \in p .. p + n - 1 : NoBlank(t, r)
  BY <1>1, <1>2 DEF NoBlank
<1>4. p + n - 1 \in p .. p + n - 1
  OBVIOUS
<1>5. C(t, p + n - 1) # "="
  BY <1>2, <1>4
<1> QED
  BY <1>3, <1>5, WordTaken

\* A number is.
LEMMA NumberTaken ==
  ASSUME NEW t, NEW p \in Nat, NEW n \in Nat, n > 0, CleanAt(t, p),
         \A r \in p .. p + n - 1 : C(t, r) \in Digits
  PROVE  (\A r \in p .. p + n - 1 : InWord(t, r)) /\ CleanAt(t, p + n)
<1>1. \A c \in Digits : /\ c # "#" /\ c # "\n" /\ c # "=" /\ c \notin Blanks
                        /\ c \in Expected /\ c \notin IdentifierStart
  <2>1. \A c \in Digits : c # "#" /\ c # "\n" /\ c # "="
    BY Characters DEF Marks
  <2> QED
    BY <2>1, Characters
<1>2. \A r \in p .. p + n - 1 : NoBlank(t, r)
  BY <1>1 DEF NoBlank
<1>3. \A r \in p .. p + n - 1 : ~InName(t, r)
  <2>1. \A r \in p .. p + n - 1 : C(t, r) \notin IdentifierStart
    BY <1>1
  <2>2. p + n \in Nat
    OBVIOUS
  <2> QED
    BY <2>1, <2>2, NotInName
<1>4. p + n - 1 \in p .. p + n - 1
  OBVIOUS
<1>5. C(t, p + n - 1) # "=" /\ ~InName(t, p + n - 1)
  BY <1>1, <1>3, <1>4
<1> QED
  BY <1>2, <1>5, WordTaken

\* Blanks, newlines and stray characters are passed, and are in no word.
LEMMA OnePassed ==
  ASSUME NEW t, NEW p \in Nat, CleanAt(t, p),
         C(t, p) \in Blanks \/ C(t, p) = "\n" \/ C(t, p) \notin Expected
  PROVE  ~InWord(t, p) /\ CleanAt(t, p + 1)
<1>1. C(t, p) # "#" /\ C(t, p) \notin IdentifierStart /\ C(t, p) # "="
  <2>1. "#" \in Marks /\ "=" \in Marks /\ "=" \in Expected
    BY DEF Marks, Expected
  <2>2. "\n" # "#" /\ "\n" # "=" /\ "\n" \notin IdentifierCharacter
    BY Characters DEF Marks
  <2> QED
    BY <2>1, <2>2, Characters
<1>2. ~Commented(t, p) /\ ~InName(t, p) /\ (C(t, p) \notin Expected => StrayAt(t, p))
  BY <1>1, Afresh
<1>3. ~InWord(t, p)
  BY <1>2 DEF InWord
<1>4. CleanAt(t, p + 1)
  BY <1>1, <1>2, StaysClean
<1> QED
  BY <1>3, <1>4

\* A comment is.
LEMMA CommentPassed ==
  ASSUME NEW t, NEW p \in Nat, NEW e \in Nat, C(t, p) = "#",
         \A r \in p .. e - 1 : C(t, r) # "\n"
  PROVE  /\ \A r \in p .. e - 1 : ~InWord(t, r) /\ ~StrayAt(t, r)
         /\ C(t, e) = "\n" => CleanAt(t, e)
<1>1. ASSUME NEW r \in p .. e - 1 PROVE Commented(t, r)
  <2>1. p \in 0 .. r /\ \A s \in p .. r : C(t, s) # "\n"
    OBVIOUS
  <2> QED
    BY <2>1 DEF Commented
<1>2. ASSUME C(t, e) = "\n" PROVE CleanAt(t, e)
  <2>1. ~Commented(t, e)
    <3>1. \A q \in 0 .. e : e \in q .. e
      OBVIOUS
    <3> QED
      BY <1>2, <3>1 DEF Commented
  <2>2. "\n" \notin IdentifierCharacter /\ "\n" # ">"
    BY Characters DEF Marks
  <2>3. ~InName(t, e)
    BY <1>2, <2>2, InNameCharacter
  <2> QED
    BY <1>2, <2>1, <2>2, <2>3 DEF CleanAt
<1> QED
  BY <1>1, <1>2 DEF InWord, StrayAt

-----------------------------------------------------------------------------
(***************************************************************************)
(* Tokens, newlines and reports go on as the scanner does.                 *)
(***************************************************************************)
\* A token is added for the n characters from p on.
LEMMA TokenRead ==
  ASSUME NEW t \in Seq(STRING), NEW p \in Nat, NEW n \in Nat, n > 0, p + n <= Len(t),
         NEW tokens, WordsRead(t, p, tokens), NEW type, type # "EOF",
         GoodWord(t, Token(type, p, n)), \A r \in p .. p + n - 1 : InWord(t, r)
  PROVE  WordsRead(t, p + n, Append(tokens, Token(type, p, n)))
<1> DEFINE new == Token(type, p, n)
           more == Append(tokens, new)
           len == Len(tokens)
<1>1. /\ IsSequence(more) /\ len \in Nat
      /\ DOMAIN tokens = 1 .. len /\ DOMAIN more = 1 .. len + 1
      /\ \A i \in 1 .. len : more[i] = tokens[i]
      /\ more[len + 1] = new
  BY Appended DEF WordsRead
<1>2. new.start = p /\ new.length = n /\ new.type = type
  BY DEF Token
<1>3. GoodWord(t, new) /\ Len(t) \in Nat
  BY LenProperties
<1> HIDE DEF new, more, len
<1>4. \A i \in 1 .. len :
        /\ tokens[i].start \in Nat /\ tokens[i].length \in Nat
        /\ tokens[i].start + tokens[i].length <= p
        /\ tokens[i].start + tokens[i].length <= Len(t)
        /\ tokens[i].type # "EOF" => GoodWord(t, tokens[i])
        /\ tokens[i].type = "EOF" =>
             tokens[i].start = Len(t) /\ tokens[i].length = 0
  BY <1>1 DEF WordsRead
<1>5. ASSUME NEW i \in DOMAIN more
      PROVE  /\ more[i].start \in Nat /\ more[i].length \in Nat
             /\ more[i].start + more[i].length <= p + n
             /\ more[i].start + more[i].length <= Len(t)
             /\ more[i].type # "EOF" => GoodWord(t, more[i])
             /\ more[i].type = "EOF" => more[i].start = Len(t) /\ more[i].length = 0
  <2>1. CASE i \in 1 .. len
    BY <1>1, <1>3, <1>4, <2>1
  <2>2. CASE i = len + 1
    BY <1>1, <1>2, <1>3, <2>2
  <2> QED
    BY <1>1, <2>1, <2>2
<1>6. ASSUME NEW i \in DOMAIN more, i > 1
      PROVE  more[i].start >= more[i - 1].start + more[i - 1].length
  <2>1. CASE i \in 1 .. len
    <3>1. i - 1 \in 1 .. len /\ i \in DOMAIN tokens
      BY <1>1, <1>6, <2>1
    <3> QED
      BY <1>1, <1>6, <2>1, <3>1 DEF WordsRead
  <2>2. CASE i = len + 1
    <3>1. i - 1 \in 1 .. len
      BY <1>1, <1>6, <2>2
    <3> QED
      BY <1>1, <1>2, <1>4, <2>2, <3>1
  <2> QED
    BY <1>1, <2>1, <2>2
<1>7. ASSUME NEW q \in 0 .. Len(t) - 1, q < p + n
      PROVE  Covered(more, q) <=> InWord(t, q)
  <2>1. Covered(more, q) <=> Covered(tokens, q) \/ q \in p .. p + n - 1
    <3>1. q - new.start \in 0 .. new.length - 1 <=> q \in p .. p + n - 1
      BY <1>2
    <3>2. Covered(more, q) <=>
            \/ \E i \in 1 .. len : q - more[i].start \in 0 .. more[i].length - 1
            \/ q - new.start \in 0 .. new.length - 1
      BY <1>1, SMTT(60) DEF Covered
    <3> QED
      BY <1>1, <3>1, <3>2 DEF Covered
  <2>2. CASE q < p
    <3>1. q \notin p .. p + n - 1
      BY <2>2
    <3> QED
      BY <2>1, <2>2, <3>1 DEF WordsRead
  <2>3. CASE q >= p
    <3>1. q \in p .. p + n - 1
      BY <1>7, <2>3
    <3> QED
      BY <2>1, <3>1
  <2> QED
    BY <2>2, <2>3
<1>8. WordsRead(t, p + n, more)
  BY <1>1, <1>5, <1>6, <1>7 DEF WordsRead
<1> QED
  BY <1>8 DEF more, new

\* No token is added for characters that are in no word.
LEMMA NoTokenRead ==
  ASSUME NEW t \in Seq(STRING), NEW p \in Nat, NEW e \in Nat, p <= e,
         NEW tokens, WordsRead(t, p, tokens),
         \A r \in p .. e - 1 : r < Len(t) => ~InWord(t, r)
  PROVE  WordsRead(t, e, tokens)
<1>1. IsSequence(tokens) /\ Len(t) \in Nat
  BY LenProperties DEF WordsRead
<1>2. \A i \in DOMAIN tokens :
        /\ tokens[i].start \in Nat /\ tokens[i].length \in Nat
        /\ tokens[i].start + tokens[i].length <= e
  BY DEF WordsRead
<1>3. ASSUME NEW q \in 0 .. Len(t) - 1, q < e
      PROVE  Covered(tokens, q) <=> InWord(t, q)
  <2>1. CASE q < p
    BY <2>1 DEF WordsRead
  <2>2. CASE q >= p
    <3>1. q \in p .. e - 1 /\ q < Len(t)
      BY <1>3, <2>2
    <3>2. ~Covered(tokens, q)
      <4>1. ASSUME NEW i \in DOMAIN tokens
            PROVE  q - tokens[i].start \notin 0 .. tokens[i].length - 1
        <5>1. tokens[i].start + tokens[i].length <= p
          BY DEF WordsRead
        <5> QED
          BY <1>2, <2>2, <5>1
      <4> QED
        BY <4>1 DEF Covered
    <3> QED
      BY <3>1, <3>2
  <2> QED
    BY <2>1, <2>2
<1> QED
  BY <1>1, <1>2, <1>3 DEF WordsRead

\* The end of the input is added behind the text.
LEMMA EndRead ==
  ASSUME NEW t \in Seq(STRING), NEW p \in Nat, p >= Len(t),
         NEW tokens, WordsRead(t, p, tokens)
  PROVE  WordsRead(t, p, Append(tokens, Token("EOF", Len(t), 0)))
<1> DEFINE new == Token("EOF", Len(t), 0)
           more == Append(tokens, new)
           len == Len(tokens)
<1>1. /\ IsSequence(more) /\ len \in Nat
      /\ DOMAIN tokens = 1 .. len /\ DOMAIN more = 1 .. len + 1
      /\ \A i \in 1 .. len : more[i] = tokens[i]
      /\ more[len + 1] = new
  BY Appended DEF WordsRead
<1>2. new.start = Len(t) /\ new.length = 0 /\ new.type = "EOF" /\ Len(t) \in Nat
  BY LenProperties DEF Token
<1> HIDE DEF new, more, len
<1>3. \A i \in 1 .. len :
        /\ tokens[i].start \in Nat /\ tokens[i].length \in Nat
        /\ tokens[i].start + tokens[i].length <= p
        /\ tokens[i].start + tokens[i].length <= Len(t)
        /\ tokens[i].type # "EOF" => GoodWord(t, tokens[i])
        /\ tokens[i].type = "EOF" =>
             tokens[i].start = Len(t) /\ tokens[i].length = 0
  BY <1>1 DEF WordsRead
<1>4. ASSUME NEW i \in DOMAIN more
      PROVE  /\ more[i].start \in Nat /\ more[i].length \in Nat
             /\ more[i].start + more[i].length <= p
             /\ more[i].start + more[i].length <= Len(t)
             /\ more[i].type # "EOF" => GoodWord(t, more[i])
             /\ more[i].type = "EOF" => more[i].start = Len(t) /\ more[i].length = 0
  <2>1. CASE i \in 1 .. len
    BY <1>1, <1>3, <2>1
  <2>2. CASE i = len + 1
    BY <1>1, <1>2, <2>2
  <2> QED
    BY <1>1, <2>1, <2>2
<1>5. ASSUME NEW i \in DOMAIN more, i > 1
      PROVE  more[i].start >= more[i - 1].start + more[i - 1].length
  <2>1. CASE i \in 1 .. len
    <3>1. i - 1 \in 1 .. len /\ i \in DOMAIN tokens
      BY <1>1, <1>5, <2>1
    <3> QED
      BY <1>1, <1>5, <2>1, <3>1 DEF WordsRead
  <2>2. CASE i = len + 1
    <3>1. i - 1 \in 1 .. len
      BY <1>1, <1>5, <2>2
    <3> QED
      BY <1>1, <1>2, <1>3, <2>2, <3>1
  <2> QED
    BY <1>1, <2>1, <2>2
<1>6. \A q \in 0 .. Len(t) - 1 : Covered(more, q) <=> Covered(tokens, q)
  <2>1. ASSUME NEW q \in 0 .. Len(t) - 1
        PROVE  Covered(more, q) <=> Covered(tokens, q)
    <3>1. q - new.start \notin 0 .. new.length - 1
      BY <1>2
    <3>2. Covered(more, q) <=>
            \/ \E i \in 1 .. len : q - more[i].start \in 0 .. more[i].length - 1
            \/ q - new.start \in 0 .. new.length - 1
      BY <1>1, SMTT(60) DEF Covered
    <3> QED
      BY <1>1, <3>1, <3>2 DEF Covered
  <2> QED
    BY <2>1
<1>7. WordsRead(t, p, more)
  BY <1>1, <1>4, <1>5, <1>6 DEF WordsRead
<1> QED
  BY <1>7 DEF more, new

\* A newline is recorded.
LEMMA NewlineRead ==
  ASSUME NEW t, NEW p \in Nat, NEW lines, LinesRead(t, p, lines), C(t, p) = "\n"
  PROVE  LinesRead(t, p + 1, Append(lines, p))
<1> DEFINE more == Append(lines, p)
           len == Len(lines)
<1>1. /\ IsSequence(more) /\ len \in Nat
      /\ DOMAIN lines = 1 .. len /\ DOMAIN more = 1 .. len + 1
      /\ \A i \in 1 .. len : more[i] = lines[i]
      /\ more[len + 1] = p
  BY Appended DEF LinesRead
<1> HIDE DEF more, len
<1>2. \A i \in DOMAIN more : more[i] \in 0 .. p + 1 - 1 /\ more[i] < Len(t)
  <2>1. p < Len(t)
    BY DEF C, NUL
  <2> QED
    BY <1>1, <2>1 DEF LinesRead
<1>5. \A i, j \in DOMAIN more : i < j => more[i] < more[j]
  BY <1>1 DEF LinesRead
<1>3. ASSUME NEW q \in 0 .. Len(t) - 1, q < p + 1
      PROVE  (\E i \in DOMAIN more : more[i] = q) <=> C(t, q) = "\n"
  <2>1. CASE q = p
    BY <1>1, <2>1
  <2>2. CASE q < p
    <3>1. (\E i \in DOMAIN lines : lines[i] = q) <=> C(t, q) = "\n"
      BY <2>2 DEF LinesRead
    <3>2. (\E i \in DOMAIN more : more[i] = q) <=> \E i \in DOMAIN lines : lines[i] = q
      BY <1>1, <2>2
    <3> QED
      BY <3>1, <3>2
  <2> QED
    BY <1>3, <2>1, <2>2
<1>4. LinesRead(t, p + 1, more)
  BY <1>1, <1>2, <1>3, <1>5 DEF LinesRead
<1> QED
  BY <1>4 DEF more

\* Other characters are not.
LEMMA NoNewlineRead ==
  ASSUME NEW t, NEW p \in Nat, NEW e \in Nat, p <= e, NEW lines,
         LinesRead(t, p, lines), \A r \in p .. e - 1 : r < Len(t) => C(t, r) # "\n"
  PROVE  LinesRead(t, e, lines)
<1>1. /\ IsSequence(lines)
      /\ \A i \in DOMAIN lines : lines[i] \in 0 .. p - 1 /\ lines[i] < Len(t)
      /\ \A i, j \in DOMAIN lines : i < j => lines[i] < lines[j]
  BY DEF LinesRead
<1>2. \A i \in DOMAIN lines : lines[i] \in 0 .. e - 1 /\ lines[i] < Len(t)
  BY <1>1
<1>3. ASSUME NEW q \in 0 .. Len(t) - 1, q < e
      PROVE  (\E i \in DOMAIN lines : lines[i] = q) <=> C(t, q) = "\n"
  <2>1. CASE q < p
    BY <2>1 DEF LinesRead
  <2>2. CASE q >= p
    <3>1. q \in p .. e - 1 /\ q < Len(t)
      BY <1>3, <2>2
    <3>2. \A i \in DOMAIN lines : lines[i] # q
      BY <1>1, <2>2
    <3> QED
      BY <3>1, <3>2
  <2> QED
    BY <2>1, <2>2
<1> QED
  BY <1>1, <1>2, <1>3 DEF LinesRead

\* What a round that finds something leaves of the run before it.
Reported(reports, start, p) ==
  IF start = UINT_MAX THEN reports
  ELSE AddError(reports, start, p, "Unexpected characters")

\* The run that goes up to a character that is not stray is the pending one.
LEMMA OnlyPending ==
  ASSUME NEW t \in Seq(STRING), NEW p \in Nat, NEW start, PendingRun(t, p, start),
         NEW a \in Nat, p < Len(t), Run(t, a, p)
  PROVE  start = a
<1>1. a <= p - 1 /\ p - 1 \in a .. p - 1 /\ p <= Len(t) /\ 0 < p /\ Len(t) \in Nat
  BY LenProperties DEF Run
<1>2. StrayAt(t, p - 1)
  BY <1>1 DEF Run
<1>3. start # UINT_MAX
  BY <1>1, <1>2 DEF PendingRun
<1>4. start \in 0 .. p - 1
  BY <1>3 DEF PendingRun
<1>5. CASE a < start
  <2>1. start - 1 \in a .. p - 1 /\ start > 0
    BY <1>4, <1>5
  <2> QED
    BY <1>3, <2>1 DEF Run, PendingRun
<1>6. CASE a > start
  <2>1. a - 1 \in start .. p - 1 /\ a > 0
    BY <1>1, <1>4, <1>6
  <2> QED
    BY <1>3, <2>1 DEF Run, PendingRun
<1> QED
  BY <1>4, <1>5, <1>6

\* A round that finds something reports the run before it, if there is one.
LEMMA RunEnded ==
  ASSUME NEW t \in Seq(STRING), NEW p \in Nat, NEW e \in Nat, p < e, p < Len(t),
         NEW start, PendingRun(t, p, start),
         NEW reports, RunsReported(t, p, reports),
         \A r \in p .. e - 1 : r < Len(t) => ~StrayAt(t, r)
  PROVE  /\ PendingRun(t, e, UINT_MAX)
         /\ RunsReported(t, e, Reported(reports, start, p))
<1>0. Len(t) \in Nat
  BY LenProperties
<1>1. PendingRun(t, e, UINT_MAX)
  <2>1. e - 1 \in p .. e - 1 /\ (e <= Len(t) => e - 1 < Len(t))
    BY <1>0
  <2> QED
    BY <2>1 DEF PendingRun
<1>2. ~StrayAt(t, p)
  <2>1. p \in p .. e - 1
    OBVIOUS
  <2> QED
    BY <2>1
<1>3. ASSUME NEW a \in 0 .. Len(t) - 1, NEW b \in 0 .. Len(t) - 1, b < e, Run(t, a, b)
      PROVE  b < p \/ (b = p /\ a = start)
  <2>1. CASE b > p
    <3>1. b - 1 \in p .. e - 1 /\ b - 1 < Len(t) /\ b - 1 \in a .. b - 1
      BY <1>0, <1>3, <2>1 DEF Run
    <3> QED
      BY <3>1, <1>3 DEF Run
  <2>2. CASE b = p
    BY <1>3, <2>2, OnlyPending
  <2> QED
    BY <2>1, <2>2
<1>4. /\ \A i \in DOMAIN reports :
           /\ reports[i].start_pos \in Nat /\ reports[i].end_pos \in Nat
           /\ reports[i].end_pos < p /\ reports[i].end_pos < Len(t)
           /\ Run(t, reports[i].start_pos, reports[i].end_pos)
      /\ \A i, j \in DOMAIN reports : i < j =>
           reports[i].end_pos < reports[j].start_pos
      /\ \A a, b \in 0 .. Len(t) - 1 : b < p /\ Run(t, a, b) =>
           \E i \in DOMAIN reports :
             reports[i].start_pos = a /\ reports[i].end_pos = b
  BY DEF RunsReported
<1>5. CASE start = UINT_MAX
  <2>1. \A a, b \in 0 .. Len(t) - 1 : b < e /\ Run(t, a, b) => b < p
    BY <1>3, <1>5 DEF UINT_MAX
  <2>2. RunsReported(t, e, reports)
    <3>1. \A i \in DOMAIN reports : reports[i].end_pos < e
      BY <1>4
    <3>2. \A a, b \in 0 .. Len(t) - 1 : b < e /\ Run(t, a, b) =>
            \E i \in DOMAIN reports :
              reports[i].start_pos = a /\ reports[i].end_pos = b
      BY <1>4, <2>1
    <3> QED
      BY <1>4, <3>1, <3>2 DEF RunsReported
  <2> QED
    BY <1>1, <1>5, <2>2 DEF Reported
<1>6. CASE start # UINT_MAX
  <2> DEFINE new == [start_pos |-> start, end_pos |-> p,
                     message |-> "Unexpected characters"]
             more == Append(reports, new)
             len == Len(reports)
  <2>1. new.start_pos = start /\ new.end_pos = p
    OBVIOUS
  <2>2. more = Reported(reports, start, p)
    BY <1>6 DEF Reported, AddError
  <2>3. IsSequence(reports)
    BY DEF RunsReported
  <2> HIDE DEF new
  <2>4. /\ IsSequence(more) /\ len \in Nat
        /\ DOMAIN reports = 1 .. len /\ DOMAIN more = 1 .. len + 1
        /\ \A i \in 1 .. len : more[i] = reports[i]
        /\ more[len + 1] = new
    BY <2>3, Appended
  <2>5. start \in 0 .. p - 1 /\ Run(t, start, p)
    BY <1>2, <1>6 DEF PendingRun, Run
  <2> HIDE DEF more, len
  <2>6. ASSUME NEW i \in DOMAIN more
        PROVE  /\ more[i].start_pos \in Nat /\ more[i].end_pos \in Nat
               /\ more[i].end_pos < e /\ more[i].end_pos < Len(t)
               /\ Run(t, more[i].start_pos, more[i].end_pos)
    <3>1. CASE i \in 1 .. len
      BY <1>4, <2>4, <3>1
    <3>2. CASE i = len + 1
      BY <2>4, <2>1, <2>5, <3>2
    <3> QED
      BY <2>4, <3>1, <3>2
  <2>7. ASSUME NEW a \in 0 .. Len(t) - 1, NEW b \in 0 .. Len(t) - 1, b < e, Run(t, a, b)
        PROVE  \E i \in DOMAIN more : more[i].start_pos = a /\ more[i].end_pos = b
    <3>1. CASE b < p
      <4>1. PICK i \in 1 .. len : reports[i].start_pos = a /\ reports[i].end_pos = b
        BY <1>4, <2>4, <2>7, <3>1
      <4> QED
        BY <2>4, <4>1
    <3>2. CASE b = p /\ a = start
      <4>1. len + 1 \in DOMAIN more
        BY <2>4
      <4> QED
        BY <2>4, <2>1, <3>2, <4>1
    <3> QED
      BY <1>3, <2>7, <3>1, <3>2
  <2>8. ASSUME NEW i \in DOMAIN more, NEW j \in DOMAIN more, i < j
        PROVE  more[i].end_pos < more[j].start_pos
    <3>1. i \in 1 .. len
      BY <2>4, <2>8
    <3>2. CASE j \in 1 .. len
      BY <1>4, <2>4, <2>8, <3>1, <3>2
    <3>3. CASE j = len + 1
      <4>1. reports[i].end_pos \in Nat /\ reports[i].end_pos < p
            /\ ~StrayAt(t, reports[i].end_pos)
        BY <1>4, <2>4, <3>1 DEF Run
      <4>2. reports[i].end_pos < start
        <5>1. reports[i].end_pos >= start => reports[i].end_pos \in start .. p - 1
          BY <2>5, <4>1
        <5>2. \A q \in start .. p - 1 : StrayAt(t, q)
          BY <2>5 DEF Run
        <5> QED
          BY <2>5, <4>1, <5>1, <5>2
      <4> QED
        BY <2>4, <2>1, <3>1, <3>3, <4>2
    <3> QED
      BY <2>4, <3>2, <3>3
  <2>9. RunsReported(t, e, more)
    BY <2>4, <2>7, <2>8, <2>6 DEF RunsReported
  <2> QED
    BY <1>1, <2>2, <2>9
<1> QED
  BY <1>5, <1>6

\* A stray character begins a run or goes on with it.
LEMMA RunGoesOn ==
  ASSUME NEW t \in Seq(STRING), NEW p \in Nat, p < Len(t), StrayAt(t, p),
         NEW start, PendingRun(t, p, start),
         NEW reports, RunsReported(t, p, reports)
  PROVE  /\ PendingRun(t, p + 1, IF start = UINT_MAX THEN p ELSE start)
         /\ RunsReported(t, p + 1, reports)
<1>0. Len(t) \in Nat /\ p + 1 <= Len(t) /\ p + 1 - 1 = p
  BY LenProperties
<1> DEFINE begun == IF start = UINT_MAX THEN p ELSE start
<1>1. ASSUME start = UINT_MAX PROVE PendingRun(t, p + 1, begun)
  <2>1. p # UINT_MAX /\ \A q \in p .. p : StrayAt(t, q)
    BY DEF UINT_MAX
  <2>2. p > 0 => ~StrayAt(t, p - 1)
    BY <1>0, <1>1 DEF PendingRun
  <2>3. p \in 0 .. p
    OBVIOUS
  <2>4. PendingRun(t, p + 1, p)
    BY <1>0, <2>1, <2>2, <2>3 DEF PendingRun
  <2> QED
    BY <1>1, <2>4
<1>2. ASSUME start # UINT_MAX PROVE PendingRun(t, p + 1, begun)
  <2>1. start \in 0 .. p - 1 /\ (\A q \in start .. p - 1 : StrayAt(t, q))
        /\ (start > 0 => ~StrayAt(t, start - 1))
    BY <1>2 DEF PendingRun
  <2>2. start \in 0 .. p /\ \A q \in start .. p : q = p \/ q \in start .. p - 1
    BY <2>1
  <2>3. PendingRun(t, p + 1, start)
    BY <1>0, <1>2, <2>1, <2>2 DEF PendingRun
  <2> QED
    BY <1>2, <2>3
<1>3. RunsReported(t, p + 1, reports)
  <2>1. \A a, b \in 0 .. Len(t) - 1 : b < p + 1 /\ Run(t, a, b) => b < p
    BY DEF Run
  <2>2. \A i \in DOMAIN reports : reports[i].end_pos < p + 1
    BY DEF RunsReported
  <2> QED
    BY <2>1, <2>2 DEF RunsReported
<1> QED
  BY <1>1, <1>2, <1>3

\* A round that makes a token.
LEMMA TokenRound ==
  ASSUME NEW t \in Seq(STRING), NEW p \in Nat, NEW n \in Nat, n > 0, p + n <= Len(t),
         NEW tokens, NEW lines, NEW start, NEW reports,
         ReadSoFar(t, p, tokens, lines, start, reports),
         \A r \in p .. p + n - 1 : InWord(t, r), CleanAt(t, p + n),
         NEW type, type # "EOF", GoodWord(t, Token(type, p, n))
  PROVE  ReadSoFar(t, p + n, Append(tokens, Token(type, p, n)), lines, UINT_MAX,
                   Reported(reports, start, p))
<1>1. /\ WordsRead(t, p, tokens) /\ LinesRead(t, p, lines)
      /\ PendingRun(t, p, start) /\ RunsReported(t, p, reports)
  BY DEF ReadSoFar
<1>2. p + n \in Nat /\ p <= p + n /\ p < p + n /\ p < Len(t)
  BY LenProperties
<1>3. \A r \in p .. p + n - 1 : C(t, r) # "\n" /\ ~StrayAt(t, r)
  BY DEF InWord
<1>4. WordsRead(t, p + n, Append(tokens, Token(type, p, n)))
  BY <1>1, TokenRead
<1>5. LinesRead(t, p + n, lines)
  BY <1>1, <1>2, <1>3, NoNewlineRead
<1>6. /\ PendingRun(t, p + n, UINT_MAX)
      /\ RunsReported(t, p + n, Reported(reports, start, p))
  BY <1>1, <1>2, <1>3, RunEnded
<1> QED
  BY <1>4, <1>5, <1>6 DEF ReadSoFar

\* A round that makes none and finds nothing stray.
LEMMA SkipRound ==
  ASSUME NEW t \in Seq(STRING), NEW p \in Nat, NEW e \in Nat, p < e, p < Len(t),
         NEW tokens, NEW lines, NEW start, NEW reports,
         ReadSoFar(t, p, tokens, lines, start, reports),
         \A r \in p .. e - 1 : r < Len(t) => ~InWord(t, r) /\ ~StrayAt(t, r),
         e <= Len(t) => CleanAt(t, e)
  PROVE  /\ (\A r \in p .. e - 1 : r < Len(t) => C(t, r) # "\n") =>
              ReadSoFar(t, e, tokens, lines, UINT_MAX, Reported(reports, start, p))
         /\ C(t, p) = "\n" /\ e = p + 1 =>
              ReadSoFar(t, e, tokens, Append(lines, p), UINT_MAX,
                        Reported(reports, start, p))
<1>1. /\ WordsRead(t, p, tokens) /\ LinesRead(t, p, lines)
      /\ PendingRun(t, p, start) /\ RunsReported(t, p, reports)
  BY DEF ReadSoFar
<1>2. p <= e
  OBVIOUS
<1>3. WordsRead(t, e, tokens)
  BY <1>1, <1>2, NoTokenRead
<1>4. /\ PendingRun(t, e, UINT_MAX)
      /\ RunsReported(t, e, Reported(reports, start, p))
  BY <1>1, RunEnded
<1>5. (\A r \in p .. e - 1 : r < Len(t) => C(t, r) # "\n") => LinesRead(t, e, lines)
  BY <1>1, <1>2, NoNewlineRead
<1>6. C(t, p) = "\n" /\ e = p + 1 => LinesRead(t, e, Append(lines, p))
  BY <1>1, NewlineRead
<1> QED
  BY <1>3, <1>4, <1>5, <1>6 DEF ReadSoFar

\* A round that finds a stray character.
LEMMA StrayRound ==
  ASSUME NEW t \in Seq(STRING), NEW p \in Nat, p < Len(t),
         NEW tokens, NEW lines, NEW start, NEW reports,
         ReadSoFar(t, p, tokens, lines, start, reports), C(t, p) \notin Expected
  PROVE  ReadSoFar(t, p + 1, tokens, lines,
                   IF start = UINT_MAX THEN p ELSE start, reports)
<1>1. /\ WordsRead(t, p, tokens) /\ LinesRead(t, p, lines)
      /\ PendingRun(t, p, start) /\ RunsReported(t, p, reports)
  BY DEF ReadSoFar
<1>2. p <= Len(t) /\ p + 1 \in Nat /\ p <= p + 1 /\ \A r \in p .. p + 1 - 1 : r = p
  BY LenProperties
<1>3. CleanAt(t, p)
  BY <1>2 DEF ReadSoFar
<1>4. StrayAt(t, p) /\ ~InWord(t, p) /\ CleanAt(t, p + 1) /\ C(t, p) # "\n"
  BY <1>3, Afresh, OnePassed, Characters
<1>5. WordsRead(t, p + 1, tokens)
  BY <1>1, <1>2, <1>4, NoTokenRead
<1>6. LinesRead(t, p + 1, lines)
  BY <1>1, <1>2, <1>4, NoNewlineRead
<1>7. /\ PendingRun(t, p + 1, IF start = UINT_MAX THEN p ELSE start)
      /\ RunsReported(t, p + 1, reports)
  BY <1>1, <1>4, RunGoesOn
<1> QED
  BY <1>4, <1>5, <1>6, <1>7 DEF ReadSoFar

-----------------------------------------------------------------------------
(***************************************************************************)
(* Each round of LexBuffer keeps the invariant.                            *)
(***************************************************************************)
\* The text, and where a round finds the scanner.
LEMMA InRound ==
  ASSUME ScanInv, Scanning
  PROVE  /\ buffer \in Seq(STRING) /\ ptr \in Nat /\ ptr < Len(buffer)
         /\ Len(buffer) \in Nat /\ Length = Len(buffer)
         /\ \A p : At(p) = C(buffer, p)
         /\ ReadSoFar(buffer, ptr, token_array, line_array, error_start, errors)
         /\ CleanAt(buffer, ptr) /\ ~Ended /\ IsSequence(token_array)
<1>1. buffer \in Seq(STRING) /\ ptr \in Nat /\ ptr < Len(buffer) /\ ~Ended
      /\ Len(buffer) \in Nat /\ Length = Len(buffer) /\ Fault = Len(buffer) + 2
  BY LenProperties DEF ScanInv, Scanning, Length, Fault
<1>2. \A p : At(p) = C(buffer, p)
  BY DEF At, C, Length
<1>3. ReadSoFar(buffer, ptr, token_array, line_array, error_start, errors)
  BY <1>1 DEF ScanInv
<1>4. ptr <= Len(buffer)
  BY <1>1
<1>5. CleanAt(buffer, ptr) /\ IsSequence(token_array)
  BY <1>3, <1>4 DEF ReadSoFar, WordsRead
<1> QED
  BY <1>1, <1>2, <1>3, <1>5

\* The invariant after a round.
LEMMA RoundKeeps ==
  ASSUME ScanInv, Scanning, ~Ended', ptr' \in Nat,
         ptr' # Fault => ReadSoFar(buffer, ptr', token_array', line_array',
                                   error_start', errors')
  PROVE  ScanInv'
BY DEF ScanInv, Scanning, Fault, Length

\* The error state machine reports a run.
LEMMA Reports ==
  ASSUME NoErrorNow
  PROVE  error_start' = UINT_MAX /\ errors' = Reported(errors, error_start, ptr)
BY DEF NoErrorNow, Reported

\* A token is made.
LEMMA TokenKeeps ==
  ASSUME ScanInv, Scanning, NEW type, type # "EOF", NEW n \in Nat, n > 0,
         ptr + n <= Length, AddToken(type, n),
         \A r \in ptr .. ptr + n - 1 : InWord(buffer, r), CleanAt(buffer, ptr + n),
         GoodWord(buffer, Token(type, ptr, n))
  PROVE  ScanInv'
<1>1. /\ buffer \in Seq(STRING) /\ ptr \in Nat /\ ptr + n <= Len(buffer)
      /\ ReadSoFar(buffer, ptr, token_array, line_array, error_start, errors)
      /\ IsSequence(token_array)
  BY InRound
<1>2. /\ token_array' = Append(token_array, Token(type, ptr, n))
      /\ ptr' = ptr + n /\ line_array' = line_array
      /\ error_start' = UINT_MAX /\ errors' = Reported(errors, error_start, ptr)
  BY Reports DEF AddToken, ArrayListAdd, Token
<1>3. ReadSoFar(buffer, ptr', token_array', line_array', error_start', errors')
  BY <1>1, <1>2, TokenRound
<1>4. ~Ended'
  <2> DEFINE new == Token(type, ptr, n)
  <2>1. new.type # "EOF"
    BY DEF Token
  <2> HIDE DEF new
  <2>2. token_array' = Append(token_array, new)
    BY <1>2 DEF new
  <2>3. Len(token_array') = Len(token_array) + 1
        /\ token_array'[Len(token_array) + 1] = new
    BY <1>1, <2>2, Appended
  <2> QED
    BY <2>1, <2>3 DEF Ended
<1> QED
  BY <1>1, <1>2, <1>3, <1>4, RoundKeeps

\* Something is passed.
LEMMA SkipStays ==
  ASSUME ScanInv, Scanning, NEW e \in Nat, ptr < e, Skip(e), NoErrorNow,
         \A r \in ptr .. e - 1 : r < Length =>
           ~InWord(buffer, r) /\ ~StrayAt(buffer, r),
         e <= Length => CleanAt(buffer, e),
         \/ /\ UNCHANGED line_array
            /\ \A r \in ptr .. e - 1 : r < Length => C(buffer, r) # "\n"
         \/ /\ line_array' = Append(line_array, ptr) /\ e = ptr + 1
            /\ C(buffer, ptr) = "\n"
  PROVE  ScanInv'
<1>1. /\ buffer \in Seq(STRING) /\ ptr \in Nat /\ ptr < Len(buffer)
      /\ ReadSoFar(buffer, ptr, token_array, line_array, error_start, errors)
      /\ Length = Len(buffer) /\ ~Ended
  BY InRound
<1>2. /\ token_array' = token_array /\ ptr' = e
      /\ error_start' = UINT_MAX /\ errors' = Reported(errors, error_start, ptr)
  BY Reports DEF Skip
<1>3. ReadSoFar(buffer, e, token_array, line_array', UINT_MAX,
                Reported(errors, error_start, ptr))
  BY <1>1, SkipRound
<1>4. ~Ended'
  BY <1>1, <1>2 DEF Ended
<1> QED
  BY <1>2, <1>3, <1>4, RoundKeeps

\* ScanSign and ScanEquals.
LEMMA MarksKeep ==
  ASSUME ScanInv, ScanSign \/ ScanEquals
  PROVE  ScanInv'
<1>0. Scanning
  BY DEF ScanSign, ScanEquals
<1>1. /\ buffer \in Seq(STRING) /\ ptr \in Nat /\ ptr < Len(buffer)
      /\ Len(buffer) \in Nat /\ Length = Len(buffer)
      /\ \A p : At(p) = C(buffer, p) /\ CleanAt(buffer, ptr)
  BY <1>0, InRound
<1>2. ptr + 1 <= Length /\ ptr + 1 <= Len(buffer)
      /\ \A r \in ptr .. ptr + 1 - 1 : r = ptr
  BY <1>1
<1>3. CASE ScanSign
  <2>1. PICK type \in DOMAIN Signs : Spelled(Signs[type], ptr) /\ AddToken(type, 1)
    BY <1>3 DEF ScanSign
  <2>2. PICK c \in Marks : /\ Signs[type] = <<c>> /\ c # "=" /\ c # "\n" /\ c # "#"
                           /\ c \in Expected
    BY SignSpelling
  <2>3. C(buffer, ptr) = c
    <3>1. Len(<<c>>) = 1 /\ <<c>>[1] = c /\ 1 \in 1 .. 1
      OBVIOUS
    <3>2. buffer[ptr + 1] = c
      BY <2>1, <2>2, <3>1 DEF Spelled
    <3> QED
      BY <1>1, <3>2 DEF C
  <2>4. InWord(buffer, ptr) /\ CleanAt(buffer, ptr + 1)
    BY <1>1, <2>2, <2>3, MarkTaken
  <2>5. GoodWord(buffer, Token(type, ptr, 1))
    BY <1>1, <1>2, <2>2, <2>3, GoodSign
  <2>6. type # "EOF"
    BY DEF Signs
  <2> QED
    BY <1>0, <1>2, <2>1, <2>4, <2>5, <2>6, TokenKeeps
<1>4. CASE ScanEquals
  <2>1. C(buffer, ptr) = "="
    BY <1>1, <1>4 DEF ScanEquals
  <2>2. CASE C(buffer, ptr + 1) = ">"
    <3>1. AddToken("ARROW", 2)
      BY <1>1, <1>4, <2>2 DEF ScanEquals
    <3>2. ptr + 2 <= Length /\ ptr + 2 <= Len(buffer)
      <4>1. ">" # NUL
        BY DEF NUL
      <4> QED
        BY <1>1, <2>2, <4>1 DEF C
    <3>3. (\A r \in ptr .. ptr + 2 - 1 : InWord(buffer, r)) /\ CleanAt(buffer, ptr + 2)
      BY <1>1, <2>1, <2>2, ArrowTaken
    <3>4. GoodWord(buffer, Token("ARROW", ptr, 2))
      BY <1>1, <1>2, <2>1, <2>2, <3>2, GoodEquals
    <3> QED
      BY <1>0, <3>1, <3>2, <3>3, <3>4, TokenKeeps
  <2>3. CASE C(buffer, ptr + 1) # ">"
    <3>1. AddToken("EQUALS", 1)
      BY <1>1, <1>4, <2>3 DEF ScanEquals
    <3>2. "=" \in Marks /\ "=" \in Expected /\ "=" # "#" /\ "=" # "\n"
      BY DEF Marks, Expected
    <3>3. InWord(buffer, ptr) /\ CleanAt(buffer, ptr + 1)
      BY <1>1, <2>1, <2>3, <3>2, MarkTaken
    <3>4. GoodWord(buffer, Token("EQUALS", ptr, 1))
      BY <1>1, <1>2, <2>1, <2>3, GoodEquals
    <3> QED
      BY <1>0, <1>2, <3>1, <3>3, <3>4, TokenKeeps
  <2> QED
    BY <2>2, <2>3
<1> QED
  BY <1>3, <1>4

\* A keyword stands where its letters do.
LEMMA KeywordStands ==
  ASSUME ScanInv, Scanning, NEW k \in Keyword, Spelled(Keywords[k], ptr)
  PROVE  /\ Len(Keywords[k]) \in Nat /\ Len(Keywords[k]) > 0
         /\ ptr + Len(Keywords[k]) <= Len(buffer)
         /\ \A i \in 1 .. Len(Keywords[k]) : buffer[ptr + i] = Keywords[k][i]
         /\ C(buffer, ptr) \in IdentifierStart
         /\ \A r \in ptr .. ptr + Len(Keywords[k]) - 1 :
              C(buffer, r) \in IdentifierCharacter
<1> DEFINE w == Keywords[k]
<1>1. /\ buffer \in Seq(STRING) /\ ptr \in Nat /\ ptr < Len(buffer)
      /\ Len(buffer) \in Nat /\ Length = Len(buffer)
  BY InRound
<1>2. Len(w) \in Nat /\ Len(w) >= 2 /\ \A i \in 1 .. Len(w) : w[i] \in IdentifierStart
  BY KeywordSpelling DEF Letters
<1>3. ptr + Len(w) <= Len(buffer) /\ \A i \in 1 .. Len(w) : buffer[ptr + i] = w[i]
  BY <1>1 DEF Spelled
<1> HIDE DEF w
<1>4. \A r \in ptr .. ptr + Len(w) - 1 : C(buffer, r) \in IdentifierStart
  <2>1. ASSUME NEW r \in ptr .. ptr + Len(w) - 1
        PROVE  C(buffer, r) \in IdentifierStart
    <3> DEFINE i == r - ptr + 1
    <3>1. i \in 1 .. Len(w) /\ ptr + i = r + 1 /\ r < Len(buffer)
      BY <1>1, <1>2, <1>3
    <3> HIDE DEF i
    <3>2. buffer[r + 1] \in IdentifierStart
      BY <1>2, <1>3, <3>1
    <3> QED
      BY <3>1, <3>2 DEF C
  <2> QED
    BY <2>1
<1>5. ptr \in ptr .. ptr + Len(w) - 1
  BY <1>1, <1>2
<1>6. Len(w) > 0
  BY <1>2
<1> QED
  BY <1>2, <1>3, <1>4, <1>5, <1>6, Characters DEF w

\* ScanKeyword.
LEMMA KeywordKeeps ==
  ASSUME ScanInv, ScanKeyword
  PROVE  ScanInv'
<1>0. Scanning
  BY DEF ScanKeyword
<1>1. /\ buffer \in Seq(STRING) /\ ptr \in Nat /\ Length = Len(buffer)
      /\ \A p : At(p) = C(buffer, p) /\ CleanAt(buffer, ptr)
  BY <1>0, InRound
<1>2. PICK k \in Keyword : IsKeyword(Keywords[k], ptr) /\ AddToken(k, Len(Keywords[k]))
  BY DEF ScanKeyword
<1> DEFINE n == Len(Keywords[k])
<1>3. /\ n \in Nat /\ n > 0 /\ ptr + n <= Len(buffer)
      /\ \A i \in 1 .. n : buffer[ptr + i] = Keywords[k][i]
      /\ C(buffer, ptr) \in IdentifierStart
      /\ \A r \in ptr .. ptr + n - 1 : C(buffer, r) \in IdentifierCharacter
  BY <1>0, <1>2, KeywordStands DEF IsKeyword
<1>4. C(buffer, ptr + n) \notin IdentifierCharacter
  BY <1>1, <1>2 DEF IsKeyword
<1>5. GoodWord(buffer, Token(k, ptr, n))
  BY <1>1, <1>3, <1>4, GoodKeyword
<1>6. k # "EOF"
  BY DEF Keyword
<1> HIDE DEF n
<1>7. (\A r \in ptr .. ptr + n - 1 : InWord(buffer, r)) /\ CleanAt(buffer, ptr + n)
  BY <1>1, <1>3, <1>4, NameTaken
<1>8. AddToken(k, n)
  BY <1>2 DEF n
<1> QED
  BY <1>0, <1>1, <1>3, <1>5, <1>6, <1>7, <1>8, TokenKeeps

\* ScanIdentifier and ScanInteger.
LEMMA RunsKeep ==
  ASSUME ScanInv, ScanIdentifier \/ ScanInteger
  PROVE  ScanInv'
<1>0. Scanning
  BY DEF ScanIdentifier, ScanInteger
<1>1. /\ buffer \in Seq(STRING) /\ ptr \in Nat /\ ptr < Len(buffer)
      /\ Len(buffer) \in Nat /\ Length = Len(buffer)
      /\ \A p : At(p) = C(buffer, p) /\ CleanAt(buffer, ptr)
  BY <1>0, InRound
<1>2. ASSUME NEW end \in ptr + 1 .. Length
      PROVE  /\ end - ptr \in Nat /\ end - ptr > 0 /\ ptr + (end - ptr) = end
             /\ ptr + (end - ptr) <= Len(buffer) /\ ptr + (end - ptr) <= Length
             /\ ptr \in ptr .. end - 1
  BY <1>1
<1>3. CASE ScanIdentifier
  <2>1. PICK end \in ptr + 1 .. Length :
               RunEnds(IdentifierCharacter, ptr, end) /\ AddToken("ID", end - ptr)
    BY <1>3 DEF ScanIdentifier
  <2> DEFINE n == end - ptr
  <2>2. n \in Nat /\ n > 0 /\ ptr + n = end /\ ptr + n <= Len(buffer) /\ ptr + n <= Length
    BY <1>2
  <2>3. (\A q \in ptr .. ptr + n - 1 : C(buffer, q) \in IdentifierCharacter)
        /\ C(buffer, ptr + n) \notin IdentifierCharacter
    BY <1>1, <2>1, <2>2 DEF RunEnds
  <2>4. C(buffer, ptr) \in IdentifierStart
    BY <1>1, <1>3 DEF ScanIdentifier
  <2>5. AddToken("ID", n)
    BY <2>1
  <2> HIDE DEF n
  <2>6. ASSUME NEW k \in Keyword, WordAt(buffer, ptr, n) = Keywords[k] PROVE FALSE
    <3>1. /\ Len(Keywords[k]) = n
          /\ \A i \in 1 .. n : Keywords[k][i] = C(buffer, ptr + i - 1)
      BY <1>1, <2>2, <2>6, Slice, SMTT(60)
    <3>2. \A i \in 1 .. n : C(buffer, ptr + i - 1) = buffer[ptr + i]
      <4>1. ASSUME NEW i \in 1 .. n PROVE C(buffer, ptr + i - 1) = buffer[ptr + i]
        <5>1. ptr + i - 1 < Len(buffer) /\ (ptr + i - 1) + 1 = ptr + i
          BY <1>1, <2>2
        <5> QED
          BY <5>1 DEF C
      <4> QED
        BY <4>1
    <3>3. IsKeyword(Keywords[k], ptr)
      BY <1>1, <2>2, <2>3, <3>1, <3>2 DEF IsKeyword, Spelled
    <3> QED
      BY <1>3, <3>3 DEF ScanIdentifier
  <2>7. GoodWord(buffer, Token("ID", ptr, n))
    BY <1>1, <2>2, <2>3, <2>4, <2>6, GoodName
  <2>8. (\A r \in ptr .. ptr + n - 1 : InWord(buffer, r)) /\ CleanAt(buffer, ptr + n)
    BY <1>1, <2>2, <2>3, <2>4, NameTaken
  <2> QED
    BY <1>0, <2>2, <2>5, <2>7, <2>8, TokenKeeps
<1>4. CASE ScanInteger
  <2>1. PICK end \in ptr + 1 .. Length :
               RunEnds(Digits, ptr, end) /\ AddToken("INT_LITERAL", end - ptr)
    BY <1>4 DEF ScanInteger
  <2> DEFINE n == end - ptr
  <2>2. n \in Nat /\ n > 0 /\ ptr + n = end /\ ptr + n <= Len(buffer) /\ ptr + n <= Length
    BY <1>2
  <2>3. (\A q \in ptr .. ptr + n - 1 : C(buffer, q) \in Digits)
        /\ C(buffer, ptr + n) \notin Digits
    BY <1>1, <2>1, <2>2 DEF RunEnds
  <2>4. AddToken("INT_LITERAL", n)
    BY <2>1
  <2> HIDE DEF n
  <2>5. GoodWord(buffer, Token("INT_LITERAL", ptr, n))
    BY <1>1, <2>2, <2>3, GoodInteger
  <2>6. (\A r \in ptr .. ptr + n - 1 : InWord(buffer, r)) /\ CleanAt(buffer, ptr + n)
    BY <1>1, <2>2, <2>3, NumberTaken
  <2> QED
    BY <1>0, <2>2, <2>4, <2>5, <2>6, TokenKeeps
<1> QED
  BY <1>3, <1>4

\* ScanBlank, ScanNewline and ScanUnexpected.
LEMMA OnesKeep ==
  ASSUME ScanInv, ScanBlank \/ ScanNewline \/ ScanUnexpected
  PROVE  ScanInv'
<1>0. Scanning
  BY DEF ScanBlank, ScanNewline, ScanUnexpected
<1>1. /\ buffer \in Seq(STRING) /\ ptr \in Nat /\ ptr < Len(buffer)
      /\ Len(buffer) \in Nat /\ Length = Len(buffer) /\ ~Ended
      /\ ReadSoFar(buffer, ptr, token_array, line_array, error_start, errors)
      /\ \A p : At(p) = C(buffer, p) /\ CleanAt(buffer, ptr)
  BY <1>0, InRound
<1> DEFINE e == ptr + 1
<1>2. e \in Nat /\ ptr < e /\ e = ptr + 1 /\ \A r \in ptr .. e - 1 : r = ptr
  BY <1>1
<1>3. CASE ScanBlank
  <2>1. C(buffer, ptr) \in Blanks /\ Skip(e) /\ NoErrorNow /\ UNCHANGED line_array
    BY <1>1, <1>3 DEF ScanBlank
  <2>2. C(buffer, ptr) # "\n" /\ ~StrayAt(buffer, ptr)
    BY <2>1, Characters DEF Blanks, StrayAt
  <2>3. ~InWord(buffer, ptr) /\ CleanAt(buffer, e)
    BY <1>1, <2>1, OnePassed
  <2> HIDE DEF e
  <2> QED
    BY <1>0, <1>2, <2>1, <2>2, <2>3, SkipStays
<1>4. CASE ScanNewline
  <2>1. C(buffer, ptr) = "\n" /\ Skip(e) /\ NoErrorNow
        /\ line_array' = Append(line_array, ptr)
    BY <1>1, <1>4 DEF ScanNewline, ArrayListAdd
  <2>2. ~StrayAt(buffer, ptr)
    BY <2>1, Characters DEF StrayAt
  <2>3. ~InWord(buffer, ptr) /\ CleanAt(buffer, e)
    BY <1>1, <2>1, OnePassed
  <2> HIDE DEF e
  <2> QED
    BY <1>0, <1>2, <2>1, <2>2, <2>3, SkipStays
<1>5. CASE ScanUnexpected
  <2>1. C(buffer, ptr) \notin Expected /\ ptr' = ptr + 1
        /\ UNCHANGED <<token_array, line_array, errors>>
        /\ error_start' = IF error_start = UINT_MAX THEN ptr ELSE error_start
    BY <1>1, <1>5 DEF ScanUnexpected, Skip, ErrorNow
  <2>2. ReadSoFar(buffer, ptr', token_array', line_array', error_start', errors')
    BY <1>1, <2>1, StrayRound
  <2>3. ~Ended'
    BY <1>1, <2>1 DEF Ended
  <2> QED
    BY <1>0, <1>2, <2>1, <2>2, <2>3, RoundKeeps
<1> QED
  BY <1>3, <1>4, <1>5

\* ScanComment and ScanOpenComment.
LEMMA CommentsKeep ==
  ASSUME ScanInv, ScanComment \/ ScanOpenComment
  PROVE  ScanInv'
<1>0. Scanning
  BY DEF ScanComment, ScanOpenComment
<1>1. /\ buffer \in Seq(STRING) /\ ptr \in Nat /\ ptr < Len(buffer)
      /\ Len(buffer) \in Nat /\ Length = Len(buffer) /\ ~Ended
      /\ \A p : At(p) = C(buffer, p)
  BY <1>0, InRound
<1>2. C(buffer, ptr) = "#" /\ "#" # "\n"
  BY <1>1 DEF ScanComment, ScanOpenComment
<1>3. CASE ScanComment
  <2>1. PICK end \in ptr .. Length - 1 :
               /\ C(buffer, end) = "\n" /\ \A p \in ptr .. end - 1 : C(buffer, p) # "\n"
               /\ Skip(end)
    BY <1>1, <1>3 DEF ScanComment
  <2>2. UNCHANGED line_array /\ NoErrorNow
    BY <1>3 DEF ScanComment
  <2>3. end \in Nat /\ ptr < end
    BY <1>1, <1>2, <2>1
  <2>4. /\ \A r \in ptr .. end - 1 : ~InWord(buffer, r) /\ ~StrayAt(buffer, r)
        /\ CleanAt(buffer, end)
    BY <1>1, <1>2, <2>1, <2>3, CommentPassed
  <2> QED
    BY <1>0, <2>1, <2>2, <2>3, <2>4, SkipStays
<1>4. CASE ScanOpenComment
  <2>1. (\A p \in ptr .. Length - 1 : C(buffer, p) # "\n") /\ UNCHANGED line_array
    BY <1>1, <1>4 DEF ScanOpenComment
  <2>2. \A r \in ptr .. Length - 1 : ~InWord(buffer, r) /\ ~StrayAt(buffer, r)
    BY <1>1, <1>2, <2>1, CommentPassed
  <2>3. Astray \in Nat /\ ptr < Astray /\ ~(Astray <= Length)
        /\ \A r \in ptr .. Astray - 1 : r < Length => r \in ptr .. Length - 1
    BY <1>1 DEF Astray
  <2>4. CASE Skip(Astray) /\ NoErrorNow
    BY <1>0, <2>1, <2>2, <2>3, <2>4, SkipStays
  <2>5. CASE Skip(Fault)
    <3>1. ptr' = Fault /\ Fault \in Nat /\ UNCHANGED token_array
      BY <1>1, <2>5 DEF Skip, Fault
    <3> QED
      BY <1>0, <1>1, <3>1, RoundKeeps DEF Ended
  <2> QED
    BY <1>4, <2>4, <2>5 DEF ScanOpenComment
<1> QED
  BY <1>3, <1>4

\* FinishLexing.
LEMMA EndKeeps ==
  ASSUME ScanInv, FinishLexing
  PROVE  ScanInv'
<1>1. /\ buffer \in Seq(STRING) /\ ptr \in Nat /\ ptr \in {Length, Astray}
      /\ UNCHANGED <<buffer, ptr, error_start, line_array, errors>>
      /\ token_array' = Append(token_array, Token("EOF", Length, 0))
  BY DEF ScanInv, FinishLexing, ArrayListAdd, Token
<1>2. Length = Len(buffer) /\ Length \in Nat /\ ptr # Fault /\ ptr >= Len(buffer)
  BY <1>1, LenProperties DEF Length, Astray, Fault
<1>3. ReadSoFar(buffer, ptr, token_array, line_array, error_start, errors)
  BY <1>2 DEF ScanInv
<1>4. WordsRead(buffer, ptr, token_array')
  BY <1>1, <1>2, <1>3, EndRead DEF ReadSoFar
<1>5. ReadSoFar(buffer, ptr', token_array', line_array', error_start', errors')
  BY <1>1, <1>3, <1>4 DEF ReadSoFar
<1> QED
  BY <1>1, <1>5 DEF ScanInv, Length, Astray, Fault

-----------------------------------------------------------------------------
(***************************************************************************)
(* The theorems.                                                           *)
(***************************************************************************)
\* Nothing has been read.
LEMMA ScanInitially ==
  ASSUME FrontInit
  PROVE  ScanInv
<1>1. /\ buffer \in Seq(STRING) /\ ptr = 0 /\ error_start = UINT_MAX
      /\ token_array = <<>> /\ line_array = <<>> /\ errors = <<>>
  BY BuffersAssumption DEF FrontInit, LexInit
<1>2. IsSequence(<<>>) /\ DOMAIN <<>> = {}
  BY DEF IsSequence
<1>3. CleanAt(buffer, 0)
  <2>1. ASSUME Commented(buffer, 0) PROVE C(buffer, 0) = "#"
    BY <2>1 DEF Commented
  <2>2. ASSUME InName(buffer, 0) PROVE C(buffer, 0) \in IdentifierStart
    BY <2>2 DEF InName
  <2> QED
    BY <2>1, <2>2 DEF CleanAt
<1>4. WordsRead(buffer, 0, <<>>) /\ LinesRead(buffer, 0, <<>>)
      /\ RunsReported(buffer, 0, <<>>) /\ PendingRun(buffer, 0, UINT_MAX)
  BY <1>2 DEF WordsRead, LinesRead, RunsReported, PendingRun
<1> QED
  BY <1>1, <1>3, <1>4 DEF ScanInv, ReadSoFar, Ended

\* Every step of the front end keeps the invariant.
LEMMA ScanKeeps ==
  ASSUME ScanInv, [FrontNext]_frontvars
  PROVE  ScanInv'
<1>1. CASE LexNext
  BY <1>1, MarksKeep, KeywordKeeps, RunsKeep, OnesKeep, CommentsKeep, EndKeeps
  DEF LexNext
<1>2. CASE UNCHANGED lexvars
  BY <1>2 DEF lexvars, ScanInv, Ended, Length, Astray, Fault
<1> QED
  BY <1>1, <1>2 DEF FrontNext, FrontStep, Lex, BeginParsing, Parse, frontvars, lexvars

\* What a character is in this text.
LEMMA Kinds ==
  \A p : /\ At(p) = C(buffer, p)
         /\ InComment(p) <=> Commented(buffer, p)
         /\ Stray(p) <=> StrayAt(buffer, p)
         /\ InToken(p) <=> Covered(token_array, p)
<1>1. \A p : At(p) = C(buffer, p)
  BY DEF At, C, Length
<1>2. \A p : InComment(p) <=> Commented(buffer, p)
  BY <1>1 DEF InComment, Commented
<1>3. \A p : InIdentifier(p) <=> InName(buffer, p)
  BY <1>1 DEF InIdentifier, InName
<1>4. \A p : Stray(p) <=> StrayAt(buffer, p)
  BY <1>1, <1>2, <1>3 DEF Stray, StrayAt
<1>5. \A p : InToken(p) <=> Covered(token_array, p)
  BY DEF InToken, Covered
<1> QED
  BY <1>1, <1>2, <1>4, <1>5

\* At the end the scanner has read the whole text.
LEMMA AllRead ==
  ASSUME ScanInv, Ended
  PROVE  /\ Length = Len(buffer) /\ Length \in Nat /\ ptr \in Nat /\ ptr >= Length
         /\ ReadSoFar(buffer, ptr, token_array, line_array, error_start, errors)
<1>1. Length = Len(buffer) /\ Length \in Nat /\ ptr \in {Length, Astray}
  BY LenProperties DEF ScanInv, Length
<1> QED
  BY <1>1 DEF ScanInv, Astray, Fault

\* Each character is of one kind.
LEMMA OneKind ==
  ASSUME ScanInv, Ended, NEW p \in 0 .. Length - 1
  PROVE  Cardinality(KindsOf(p)) = 1
<1> DEFINE newline == \E i \in DOMAIN line_array : line_array[i] = p
<1>1. /\ p \in 0 .. Len(buffer) - 1 /\ p < ptr
      /\ WordsRead(buffer, ptr, token_array) /\ LinesRead(buffer, ptr, line_array)
  BY AllRead DEF ReadSoFar
<1>2. /\ InToken(p) <=> InWord(buffer, p)
      /\ newline <=> C(buffer, p) = "\n"
      /\ InComment(p) <=> Commented(buffer, p)
      /\ Stray(p) <=> StrayAt(buffer, p)
      /\ At(p) = C(buffer, p)
  BY <1>1, Kinds DEF WordsRead, LinesRead
<1>3. ~(C(buffer, p) = "\n" /\ Commented(buffer, p))
  <2>1. \A q \in 0 .. p : p \in q .. p
    BY <1>1
  <2> QED
    BY <2>1 DEF Commented
<1>4. "\n" \in Expected /\ "\n" \notin Blanks /\ Blanks \subseteq Expected
  BY Characters DEF Marks
<1>5. /\ InToken(p) <=> /\ ~InComment(p) /\ ~Stray(p) /\ At(p) \notin Blanks
                        /\ ~newline
      /\ Stray(p) => ~InComment(p) /\ At(p) \notin Blanks /\ ~newline
      /\ newline => ~InComment(p) /\ At(p) \notin Blanks
  BY <1>2, <1>3, <1>4 DEF InWord, StrayAt
<1> HIDE DEF newline
<1>6. KindsOf(p) =
        { kind \in {"token", "newline", "blank", "comment", "stray"} :
          \/ kind = "token" /\ InToken(p)
          \/ kind = "newline" /\ newline
          \/ kind = "blank" /\ ~InComment(p) /\ At(p) \in Blanks
          \/ kind = "comment" /\ InComment(p)
          \/ kind = "stray" /\ Stray(p) }
  BY DEF KindsOf, newline
<1>7. \E k : KindsOf(p) = {k}
  <2>1. CASE InComment(p)
    <3>1. KindsOf(p) = {"comment"}
      BY <1>5, <1>6, <2>1
    <3> QED
      BY <3>1
  <2>2. CASE ~InComment(p) /\ newline
    <3>1. KindsOf(p) = {"newline"}
      BY <1>5, <1>6, <2>2
    <3> QED
      BY <3>1
  <2>3. CASE ~InComment(p) /\ ~newline /\ At(p) \in Blanks
    <3>1. KindsOf(p) = {"blank"}
      BY <1>5, <1>6, <2>3
    <3> QED
      BY <3>1
  <2>4. CASE ~InComment(p) /\ ~newline /\ At(p) \notin Blanks /\ Stray(p)
    <3>1. KindsOf(p) = {"stray"}
      BY <1>5, <1>6, <2>4
    <3> QED
      BY <3>1
  <2>5. CASE ~InComment(p) /\ ~newline /\ At(p) \notin Blanks /\ ~Stray(p)
    <3>1. KindsOf(p) = {"token"}
      BY <1>5, <1>6, <2>5
    <3> QED
      BY <3>1
  <2> QED
    BY <2>1, <2>2, <2>3, <2>4, <2>5
<1> QED
  BY <1>7, FS_Singleton

\* At the end the tokens are the longest words.
LEMMA WordsAreLongest ==
  ASSUME ScanInv
  PROVE  LongestWords
<1> SUFFICES ASSUME NEW i \in DOMAIN token_array, Ended, token_array[i].type # "EOF"
             PROVE  LET word == ExtractToken(i - 1)
                        next == At(token_array[i].start + token_array[i].length)
                    IN /\ Class(word) = token_array[i].type
                       /\ Class(Append(word, next)) = "NONE"
  BY DEF LongestWords, JustLexed
<1>1. WordsRead(buffer, ptr, token_array)
  BY AllRead DEF ReadSoFar
<1>2. GoodWord(buffer, token_array[i]) /\ i - 1 + 1 = i
  BY <1>1, LenProperties DEF WordsRead, IsSequence
<1>3. \A p : At(p) = C(buffer, p)
  BY Kinds
<1> QED
  BY <1>2, <1>3 DEF GoodWord, ExtractToken

\* Whatever the text, each token is the longest word that stands there, and
\* each character is in one token, or is a newline that was recorded, a
\* blank, in a comment or stray.
THEOREM TextIsScanned == FrontSpec => []ScansTheText
<1>1. FrontInit => ScanInv
  BY ScanInitially
<1>2. ScanInv /\ [FrontNext]_frontvars => ScanInv'
  BY ScanKeeps
<1>3. ScanInv => ScansTheText
  <2> SUFFICES ASSUME ScanInv PROVE ScansTheText
    OBVIOUS
  <2>1. LongestWords
    BY WordsAreLongest
  <2>2. ASSUME Ended PROVE \A p \in 0 .. Length - 1 : Cardinality(KindsOf(p)) = 1
    BY <2>2, OneKind
  <2>3. ASSUME Ended
        PROVE  \A i \in 2 .. Len(token_array) :
                 token_array[i].start >=
                   token_array[i - 1].start + token_array[i - 1].length
    <3>1. WordsRead(buffer, ptr, token_array)
      BY <2>3, AllRead DEF ReadSoFar
    <3>2. DOMAIN token_array = 1 .. Len(token_array) /\ Len(token_array) \in Nat
      BY <3>1, LenProperties DEF WordsRead, IsSequence
    <3>3. \A i \in DOMAIN token_array : i > 1 =>
            token_array[i].start >=
              token_array[i - 1].start + token_array[i - 1].length
      BY <3>1 DEF WordsRead
    <3>4. \A i \in 2 .. Len(token_array) : i \in DOMAIN token_array /\ i > 1
      BY <3>2
    <3> QED
      BY <3>3, <3>4
  <2> QED
    BY <2>1, <2>2, <2>3 DEF ScansTheText, EveryCharacterOnce, JustLexed
<1> QED
  BY <1>1, <1>2, <1>3, PTL DEF FrontSpec

\* The reports at the end are the runs of stray characters.
LEMMA ReportsAreRuns ==
  ASSUME ScanInv
  PROVE  ErrorsAreRuns
<1> DEFINE reported == { <<errors[i].start_pos, errors[i].end_pos>> :
                         i \in DOMAIN errors }
           positions == 0 .. Length - 1
           runs == { run \in positions \X positions : StrayRun(run[1], run[2]) }
<1> SUFFICES ASSUME Ended
             PROVE  /\ reported = runs
                    /\ \A i, j \in DOMAIN errors : i < j =>
                         errors[i].end_pos < errors[j].start_pos
  BY DEF ErrorsAreRuns, JustLexed
<1>1. RunsReported(buffer, ptr, errors) /\ Length = Len(buffer) /\ Length \in Nat
      /\ ptr \in Nat /\ ptr >= Length
  BY AllRead DEF ReadSoFar
<1>2. \A a, b : StrayRun(a, b) <=> Run(buffer, a, b)
  BY Kinds DEF StrayRun, Run
<1>3. ASSUME NEW i \in DOMAIN errors
      PROVE  <<errors[i].start_pos, errors[i].end_pos>> \in runs
  <2>1. /\ errors[i].start_pos \in Nat /\ errors[i].end_pos \in Nat
        /\ errors[i].end_pos < Length
        /\ Run(buffer, errors[i].start_pos, errors[i].end_pos)
    BY <1>1 DEF RunsReported
  <2>2. errors[i].start_pos < errors[i].end_pos
    BY <2>1 DEF Run
  <2>3. errors[i].start_pos \in positions /\ errors[i].end_pos \in positions
    BY <1>1, <2>1, <2>2
  <2> QED
    BY <1>2, <2>1, <2>3
<1>4. ASSUME NEW a \in positions, NEW b \in positions, Run(buffer, a, b)
      PROVE  <<a, b>> \in reported
  <2>1. \E i \in DOMAIN errors : errors[i].start_pos = a /\ errors[i].end_pos = b
    BY <1>1, <1>4 DEF RunsReported
  <2> QED
    BY <2>1
<1>5. reported \subseteq runs
  BY <1>3
<1>6. runs \subseteq reported
  <2>1. ASSUME NEW run \in runs PROVE run \in reported
    <3>1. run[1] \in positions /\ run[2] \in positions /\ run = <<run[1], run[2]>>
          /\ StrayRun(run[1], run[2])
      OBVIOUS
    <3>2. Run(buffer, run[1], run[2])
      BY <1>2, <3>1
    <3> HIDE DEF reported, positions
    <3>3. <<run[1], run[2]>> \in reported
      BY <1>4, <3>1, <3>2
    <3> QED
      BY <3>1, <3>3
  <2> QED
    BY <2>1
<1> QED
  BY <1>1, <1>5, <1>6 DEF RunsReported

\* Whatever the text, the scanner reports the runs of stray characters, each
\* once and in order, but for one that ends the text.
THEOREM RunsAreReported == FrontSpec => []ErrorsAreRuns
<1>1. FrontInit => ScanInv
  BY ScanInitially
<1>2. ScanInv /\ [FrontNext]_frontvars => ScanInv'
  BY ScanKeeps
<1>3. ScanInv => ErrorsAreRuns
  BY ReportsAreRuns
<1> QED
  BY <1>1, <1>2, <1>3, PTL DEF FrontSpec

-----------------------------------------------------------------------------
(***************************************************************************)
(* What reports say is true, for any text.                                 *)
(*                                                                         *)
(* Their lines and columns are right: the binary search in the positions   *)
(* of the newlines finds how many come before a position, and so where its *)
(* line begins and ends.                                                   *)
(*                                                                         *)
(* And a literal that is reported is too large: a value that has not       *)
(* wrapped around never gets smaller by a digit.                           *)
(***************************************************************************)
\* A set of natural numbers has a least element.
LEMMA LeastNatural ==
  ASSUME NEW S \in SUBSET Nat, S # {}
  PROVE  \E m \in S : \A n \in S : m <= n
<1> DEFINE Less == OpToRel(<, Nat)
<1>1. IsWellFoundedOn(Less, Nat)
  BY NatLessThanWellFounded
<1>2. \A n, m \in Nat : n < m => <<n, m>> \in Less
  BY DEF OpToRel
<1> HIDE DEF Less
<1>3. PICK m \in S : \A n \in S : ~ (<<n, m>> \in Less)
  BY <1>1, WFMin
<1>4. ASSUME NEW n \in S PROVE ~(n < m) /\ n \in Nat /\ m \in Nat
  BY <1>2, <1>3
<1>5. \A n \in S : m <= n
  BY <1>4
<1> QED
  BY <1>5

-----------------------------------------------------------------------------
(***************************************************************************)
(* The search, apart from the variables.                                   *)
(***************************************************************************)
\* The positions of newlines, in order.
Rising(lines) ==
  /\ IsSequence(lines)
  /\ \A i \in DOMAIN lines : lines[i] \in Nat
  /\ \A i, j \in DOMAIN lines : i < j => lines[i] < lines[j]

\* The first k newlines are those before the position.
Split(lines, position, k) ==
  /\ k \in 0 .. Len(lines)
  /\ \A i \in DOMAIN lines : lines[i] < position <=> i <= k

\* The ranges searched, and what the search makes of one, given what it
\* makes of smaller ones.
Ranges(lines) == (0 .. Len(lines)) \X (-1 .. Len(lines) - 1)
Halve(lines, position, search, range) ==
  LET min == range[1]
      max == range[2]
      mid == (max + min) \div 2
      line_position == lines[mid + 1]
  IN IF min > max THEN min
     ELSE IF line_position = position THEN mid
     ELSE IF line_position < position THEN search[<<mid + 1, max>>]
     ELSE search[<<min, mid - 1>>]

\* What it is to find in a range: k, or the end of the range that is nearer.
Nearest(k, range) ==
  IF range[1] > range[2] \/ k < range[1] THEN range[1]
  ELSE IF k > range[2] + 1 THEN range[2] + 1 ELSE k

\* There is such a k.
LEMMA SplitExists ==
  ASSUME NEW lines, Rising(lines), NEW position \in Nat
  PROVE  \E k : Split(lines, position, k)
<1> DEFINE len == Len(lines)
           Ks == { k \in 0 .. len : \A i \in k + 1 .. len : lines[i] >= position }
<1>1. len \in Nat /\ DOMAIN lines = 1 .. len
  BY DEF Rising, IsSequence
<1>2. Ks \in SUBSET Nat /\ len \in Ks
  BY <1>1
<1>3. PICK k \in Ks : \A m \in Ks : k <= m
  BY <1>2, LeastNatural
<1>4. ASSUME NEW i \in DOMAIN lines, i <= k PROVE lines[i] < position
  <2>1. k \in 1 .. len /\ k - 1 \notin Ks /\ k - 1 \in 0 .. len
    <3>1. k \in 1 .. len
      BY <1>1, <1>3, <1>4
    <3>2. ~(k <= k - 1)
      BY <3>1
    <3> HIDE DEF Ks
    <3> QED
      BY <1>1, <1>3, <3>1, <3>2
  <2>2. PICK j \in k .. len : ~(lines[j] >= position)
    BY <2>1
  <2>3. j = k
    BY <1>3, <2>1, <2>2
  <2>4. lines[k] \in Nat /\ lines[k] < position
    BY <1>1, <2>1, <2>2, <2>3 DEF Rising
  <2>5. lines[i] \in Nat /\ (i = k \/ lines[i] < lines[k])
    BY <1>1, <1>4, <2>1 DEF Rising
  <2> QED
    BY <2>4, <2>5
<1>5. ASSUME NEW i \in DOMAIN lines, i > k PROVE lines[i] >= position /\ lines[i] \in Nat
  BY <1>1, <1>3, <1>5 DEF Rising
<1>6. \A i \in DOMAIN lines : lines[i] < position <=> i <= k
  BY <1>1, <1>4, <1>5
<1> QED
  BY <1>3, <1>6 DEF Split

\* One round of the search is right when the next one is.
LEMMA HalveIsRight ==
  ASSUME NEW lines, Rising(lines), NEW position \in Nat,
         NEW k, Split(lines, position, k), NEW search, NEW range \in Ranges(lines),
         \A r \in Ranges(lines) :
           r[2] - r[1] < range[2] - range[1] => search[r] = Nearest(k, r)
  PROVE  Halve(lines, position, search, range) = Nearest(k, range)
<1> DEFINE len == Len(lines)
           min == range[1]
           max == range[2]
           mid == (max + min) \div 2
<1>1. /\ len \in Nat /\ DOMAIN lines = 1 .. len /\ k \in 0 .. len
      /\ min \in 0 .. len /\ max \in -1 .. len - 1
  BY DEF Rising, IsSequence, Split, Ranges
<1>2. CASE min > max
  BY <1>2 DEF Halve, Nearest
<1>3. CASE min <= max
  <2>1. mid \in min .. max
    BY <1>1, <1>3
  <2> HIDE DEF mid
  <2>2. /\ mid + 1 \in DOMAIN lines /\ lines[mid + 1] \in Nat
        /\ lines[mid + 1] < position <=> mid + 1 <= k
    <3>1. mid + 1 \in 1 .. len
      BY <1>1, <2>1
    <3>2. mid + 1 \in DOMAIN lines
      BY <1>1, <3>1
    <3> QED
      BY <3>2 DEF Rising, Split
  <2> HIDE DEF min, max
  <2>3. Halve(lines, position, search, range) =
          IF lines[mid + 1] = position THEN mid
          ELSE IF lines[mid + 1] < position THEN search[<<mid + 1, max>>]
          ELSE search[<<min, mid - 1>>]
    BY <1>1, <1>3 DEF Halve, min, max, mid
  <2>4. Nearest(k, range) = IF k < min THEN min
                            ELSE IF k > max + 1 THEN max + 1 ELSE k
    BY <1>1, <1>3 DEF Nearest, min, max
  <2>5. CASE lines[mid + 1] = position
    <3>1. ASSUME k # mid PROVE FALSE
      <4>1. k <= mid /\ k + 1 <= mid /\ k + 1 \in DOMAIN lines
        BY <1>1, <2>1, <2>2, <2>5, <3>1
      <4>2. lines[k + 1] < lines[mid + 1] /\ lines[k + 1] \in Nat
        BY <1>1, <2>1, <2>2, <4>1 DEF Rising
      <4>3. ~(lines[k + 1] < position)
        BY <4>1, <1>1 DEF Split
      <4> QED
        BY <4>2, <4>3, <2>5
    <3> QED
      BY <1>1, <2>1, <2>3, <2>4, <2>5, <3>1
  <2>6. CASE lines[mid + 1] < position
    <3> DEFINE r == <<mid + 1, max>>
    <3>1. r \in Ranges(lines) /\ r[1] = mid + 1 /\ r[2] = max
      BY <1>1, <2>1 DEF Ranges
    <3>2. r[2] - r[1] < range[2] - range[1]
      BY <1>1, <2>1, <3>1 DEF min, max
    <3> HIDE DEF r
    <3>3. search[r] = Nearest(k, r)
      BY <3>1, <3>2
    <3>4. Halve(lines, position, search, range) = search[r]
      BY <2>2, <2>3, <2>6 DEF r
    <3>5. Nearest(k, r) = Nearest(k, range)
      BY <1>1, <2>1, <2>2, <2>4, <2>6, <3>1 DEF Nearest
    <3> QED
      BY <3>3, <3>4, <3>5
  <2>7. CASE lines[mid + 1] > position
    <3> DEFINE r == <<min, mid - 1>>
    <3>1. r \in Ranges(lines) /\ r[1] = min /\ r[2] = mid - 1
      BY <1>1, <2>1 DEF Ranges
    <3>2. r[2] - r[1] < range[2] - range[1]
      BY <1>1, <2>1, <3>1 DEF min, max
    <3> HIDE DEF r
    <3>3. search[r] = Nearest(k, r)
      BY <3>1, <3>2
    <3>4. Halve(lines, position, search, range) = search[r]
      BY <2>2, <2>3, <2>7 DEF r
    <3>5. Nearest(k, r) = Nearest(k, range)
      BY <1>1, <2>1, <2>2, <2>4, <2>7, <3>1 DEF Nearest
    <3> QED
      BY <3>3, <3>4, <3>5
  <2> QED
    BY <2>2, <2>5, <2>6, <2>7
<1> QED
  BY <1>1, <1>2, <1>3

\* A function that satisfies the equation of the search finds k in any range.
LEMMA SearchIsRight ==
  ASSUME NEW lines, Rising(lines), NEW position \in Nat,
         NEW k, Split(lines, position, k), NEW search,
         search = [range \in Ranges(lines) |-> Halve(lines, position, search, range)]
  PROVE  \A range \in Ranges(lines) : search[range] = Nearest(k, range)
<1> DEFINE len == Len(lines)
           Size(range) == range[2] - range[1] + len + 1
           Wrong == { range \in Ranges(lines) : search[range] # Nearest(k, range) }
           Sizes == { Size(range) : range \in Wrong }
<1>1. len \in Nat
  BY DEF Rising, IsSequence
<1>2. ASSUME NEW range \in Ranges(lines)
      PROVE  Size(range) \in Nat /\ range[1] \in Int /\ range[2] \in Int
  BY <1>1 DEF Ranges
<1>3. ASSUME NEW range \in Wrong PROVE FALSE
  <2>1. Sizes \in SUBSET Nat /\ Sizes # {}
    BY <1>2, <1>3
  <2>2. PICK n \in Sizes : \A m \in Sizes : n <= m
    BY <2>1, LeastNatural
  <2>3. PICK least \in Wrong : n = Size(least)
    BY <2>2
  <2>4. ASSUME NEW r \in Ranges(lines), r[2] - r[1] < least[2] - least[1]
        PROVE  search[r] = Nearest(k, r)
    <3>1. Size(r) < Size(least)
      BY <1>1, <1>2, <2>3, <2>4
    <3>2. Size(r) \in Nat /\ Size(least) \in Nat
      BY <1>2, <2>3
    <3> HIDE DEF Size
    <3>3. r \notin Wrong
      BY <2>2, <2>3, <3>1, <3>2
    <3> QED
      BY <2>4, <3>3
  <2>5. Halve(lines, position, search, least) = Nearest(k, least)
    BY <2>3, <2>4, HalveIsRight
  <2>6. search[least] = Halve(lines, position, search, least)
    BY <2>3
  <2> QED
    BY <2>3, <2>5, <2>6
<1> QED
  BY <1>3

\* There is such a function.
LEMMA SearchExists ==
  ASSUME NEW lines, Rising(lines), NEW position \in Nat,
         NEW k, Split(lines, position, k)
  PROVE  \E search : search =
           [range \in Ranges(lines) |-> Halve(lines, position, search, range)]
<1> DEFINE found == [range \in Ranges(lines) |-> Nearest(k, range)]
<1>1. \A range \in Ranges(lines) : found[range] = Nearest(k, range)
  OBVIOUS
<1> HIDE DEF found
<1>2. \A range \in Ranges(lines) :
        Halve(lines, position, found, range) = Nearest(k, range)
  BY <1>1, HalveIsRight
<1>3. found = [range \in Ranges(lines) |-> Halve(lines, position, found, range)]
  BY <1>2 DEF found
<1> QED
  BY <1>3

\* LineIndex is the number of newlines before the position.
LEMMA IndexIsRight ==
  ASSUME Rising(line_array), NEW position \in Nat,
         NEW k, Split(line_array, position, k)
  PROVE  LineIndex(position) = k
<1> DEFINE whole == <<0, Len(line_array) - 1>>
           IsSearch(f) ==
             f = [range \in Ranges(line_array) |->
                    Halve(line_array, position, f, range)]
           search == CHOOSE f : IsSearch(f)
<1>1. LineIndex(position) = search[whole]
  BY Zenon DEF LineIndex, Halve, Ranges
<1>2. \E f : IsSearch(f)
  BY SearchExists
<1>3. IsSearch(search)
  <2> HIDE DEF IsSearch
  <2> QED
    BY <1>2, Zenon
<1>4. Len(line_array) \in Nat
  BY DEF Rising, IsSequence
<1>5. whole \in Ranges(line_array)
  BY <1>4 DEF Ranges
<1> HIDE DEF search
<1>6. search[whole] = Nearest(k, whole)
  BY <1>3, <1>5, SearchIsRight
<1>7. Nearest(k, whole) = k
  BY <1>4 DEF Nearest, Split
<1> QED
  BY <1>1, <1>6, <1>7

-----------------------------------------------------------------------------
(***************************************************************************)
(* Lines and columns.                                                      *)
(***************************************************************************)
\* At the end the recorded newlines are all there are.
LEMMA NewlinesRecorded ==
  ASSUME ScanInv, Ended
  PROVE  /\ Rising(line_array)
         /\ \A i \in DOMAIN line_array : /\ line_array[i] \in 0 .. Length - 1
                                         /\ At(line_array[i]) = "\n"
         /\ \A q \in 0 .. Length : At(q) = "\n" =>
              \E i \in DOMAIN line_array : line_array[i] = q
<1>1. /\ Length = Len(buffer) /\ Length \in Nat /\ ptr \in Nat /\ ptr >= Length
      /\ LinesRead(buffer, ptr, line_array)
  BY AllRead DEF ReadSoFar
<1>2. /\ IsSequence(line_array)
      /\ \A i \in DOMAIN line_array : line_array[i] \in 0 .. Length - 1
      /\ \A i, j \in DOMAIN line_array : i < j => line_array[i] < line_array[j]
  BY <1>1 DEF LinesRead
<1>3. Rising(line_array)
  BY <1>1, <1>2 DEF Rising
<1>4. \A q \in 0 .. Length - 1 :
        (\E i \in DOMAIN line_array : line_array[i] = q) <=> At(q) = "\n"
  BY <1>1, Kinds DEF LinesRead
<1>5. At(Length) # "\n"
  BY <1>1 DEF At, NUL
<1> QED
  BY <1>1, <1>2, <1>3, <1>4, <1>5

\* The newlines before p are the first k; the last of them ends the line
\* before that of p.
LEMMA NewlinesBefore ==
  ASSUME ScanInv, Ended, NEW p \in 0 .. Length, NEW k, Split(line_array, p, k)
  PROVE  LET before == { q \in 0 .. p - 1 : At(q) = "\n" }
             first == CHOOSE q \in 0 .. p :
                        /\ q = 0 \/ q - 1 \in before
                        /\ \A r \in before : r < q
         IN /\ Cardinality(before) = k /\ (before = {} <=> k = 0)
            /\ first = IF k = 0 THEN 0 ELSE line_array[k] + 1
<1> DEFINE before == { q \in 0 .. p - 1 : At(q) = "\n" }
           IsFirst(q) == /\ q \in 0 .. p
                         /\ q = 0 \/ q - 1 \in before
                         /\ \A r \in before : r < q
           begin == IF k = 0 THEN 0 ELSE line_array[k] + 1
           len == Len(line_array)
<1>1. /\ Length \in Nat /\ p \in Nat /\ p <= Length
      /\ len \in Nat /\ DOMAIN line_array = 1 .. len /\ k \in 0 .. len
  BY AllRead, NewlinesRecorded DEF Rising, IsSequence, Split
<1>2. \A i \in 1 .. k : line_array[i] \in before
  <2>1. ASSUME NEW i \in 1 .. k PROVE line_array[i] \in before
    <3>1. i \in DOMAIN line_array /\ i <= k
      BY <1>1
    <3> QED
      BY <1>1, <3>1, NewlinesRecorded DEF Split
  <2> QED
    BY <2>1
<1>3. \A q \in before : \E i \in 1 .. k : line_array[i] = q
  <2>1. ASSUME NEW q \in before PROVE \E i \in 1 .. k : line_array[i] = q
    <3>1. q \in 0 .. Length /\ At(q) = "\n" /\ q < p
      BY <1>1
    <3>2. PICK i \in DOMAIN line_array : line_array[i] = q
      BY <3>1, NewlinesRecorded
    <3> QED
      BY <1>1, <3>1, <3>2 DEF Split
  <2> QED
    BY <2>1
<1>4. \A i, j \in 1 .. k : i < j => line_array[i] < line_array[j]
  BY <1>1, NewlinesRecorded DEF Rising
<1>5. \A q \in before : q \in Nat /\ q < p
  BY <1>1
<1> HIDE DEF before
<1>6. Cardinality(before) = k
  <2> DEFINE f == [i \in 1 .. k |-> line_array[i]]
  <2>1. \A i, j \in 1 .. k : i # j => line_array[i] # line_array[j]
    BY <1>1, <1>2, <1>4, <1>5
  <2>2. f \in Bijection(1 .. k, before)
    BY <1>2, <1>3, <2>1 DEF Bijection, Injection, Surjection, IsInjective
  <2>3. ExistsBijection(1 .. k, before)
    BY <2>2 DEF ExistsBijection
  <2>4. IsFiniteSet(1 .. k) /\ Cardinality(1 .. k) = k
    BY <1>1, FS_Interval
  <2> QED
    BY <2>3, <2>4, FS_Bijection
<1>7. before = {} <=> k = 0
  BY <1>1, <1>2, <1>3
<1>8. IsFirst(begin)
  <2>1. CASE k = 0
    BY <1>1, <1>7, <2>1
  <2>2. CASE k # 0
    <3>1. k \in 1 .. k
      BY <1>1, <2>2
    <3>2. line_array[k] \in before
      BY <1>2, <3>1
    <3>3. line_array[k] \in Nat /\ line_array[k] < p
      BY <1>5, <3>2
    <3>4. \A r \in before : r <= line_array[k]
      <4>1. ASSUME NEW r \in before PROVE r <= line_array[k]
        <5>1. PICK i \in 1 .. k : line_array[i] = r
          BY <1>3
        <5>2. i = k \/ i < k
          BY <1>1
        <5>3. r \in Nat /\ (r = line_array[k] \/ r < line_array[k])
          BY <1>4, <1>5, <3>1, <5>1, <5>2
        <5> QED
          BY <3>3, <5>3
      <4> QED
        BY <4>1
    <3>5. begin = line_array[k] + 1
      BY <2>2
    <3> HIDE DEF begin
    <3> QED
      BY <1>1, <1>5, <3>2, <3>3, <3>4, <3>5
  <2> QED
    BY <2>1, <2>2
<1>9. ASSUME NEW q, IsFirst(q), NEW r, IsFirst(r) PROVE q = r
  BY <1>5, <1>9
<1>10. (CHOOSE q \in 0 .. p : /\ q = 0 \/ q - 1 \in before
                              /\ \A r \in before : r < q) = begin
  <2> DEFINE first == CHOOSE q : IsFirst(q)
  <2>1. (CHOOSE q \in 0 .. p : /\ q = 0 \/ q - 1 \in before
                               /\ \A r \in before : r < q) = first
    OBVIOUS
  <2> HIDE DEF IsFirst
  <2>2. IsFirst(first)
    BY <1>8, Zenon
  <2> QED
    BY <1>8, <1>9, <2>1, <2>2
<1> QED
  BY <1>6, <1>7, <1>10 DEF before

\* The text of the line that begins at first, when newline k + 1 ends it.
LEMMA LineExtracted ==
  ASSUME ScanInv, Ended, NEW p \in 0 .. Length, NEW k, Split(line_array, p, k),
         k < Len(line_array), NEW first,
         first = IF k = 0 THEN 0 ELSE line_array[k] + 1
  PROVE  LET text == ExtractLine(k + 1)
         IN /\ \A i \in DOMAIN text :
                 text[i] = At(first + i - 1) /\ text[i] # "\n"
            /\ At(first + Len(text)) = "\n"
<1> DEFINE text == ExtractLine(k + 1)
           len == Len(line_array)
           end == line_array[k + 1]
           b == first + 1
<1>1. /\ Length = Len(buffer) /\ Length \in Nat /\ p \in Nat /\ k \in 0 .. len
      /\ len \in Nat /\ DOMAIN line_array = 1 .. len /\ k + 1 \in DOMAIN line_array
      /\ k < len
  BY AllRead, NewlinesRecorded DEF Rising, IsSequence, Split
<1> HIDE DEF len
<1>2. end \in p .. Length - 1 /\ At(end) = "\n"
  BY <1>1, NewlinesRecorded, SMTT(60) DEF Split
<1>3. first \in 0 .. p
  <2>1. CASE k = 0
    BY <1>1, <2>1
  <2>2. CASE k # 0
    <3>1. k \in DOMAIN line_array /\ k <= k
      BY <1>1, <2>2
    <3>2. line_array[k] \in 0 .. Length - 1 /\ line_array[k] < p
      BY <3>1, NewlinesRecorded DEF Split
    <3> QED
      BY <1>1, <2>2, <3>2
  <2> QED
    BY <2>1, <2>2
<1>4. text = SubSeq(buffer, b, end)
  <2>1. line_array # <<>> /\ ~(k + 1 > len)
    BY <1>1
  <2> DEFINE n == k + 1
             start == IF n > 1 THEN line_array[n - 1] + 1 ELSE 0
  <2>2. text = SubSeq(buffer, start + 1, end)
    <3>1. line_array # <<>> /\ ~(n > Len(line_array))
      BY <2>1 DEF len
    <3>2. text = ExtractLine(n) /\ end = line_array[n]
      OBVIOUS
    <3> HIDE DEF text, end, n
    <3> QED
      BY <3>1, <3>2, Zenon DEF ExtractLine
  <2>3. start = first
    <3>1. n - 1 = k /\ (n > 1 <=> k # 0)
      BY <1>1
    <3> HIDE DEF n
    <3> QED
      BY <3>1
  <2> QED
    BY <2>2, <2>3
<1>5. \A q \in first .. end - 1 : At(q) = buffer[q + 1] /\ At(q) # "\n"
  <2>1. ASSUME NEW q \in first .. end - 1, At(q) = "\n" PROVE FALSE
    <3>1. PICK i \in DOMAIN line_array : line_array[i] = q
      BY <1>1, <1>2, <1>3, <2>1, NewlinesRecorded
    <3>2. i \in Nat /\ q \in Nat /\ end \in Nat /\ q < end
      BY <1>1, <1>2, <1>3
    <3>3. i <= k
      <4>1. k + 1 < i => end < q
        BY <1>1, <3>1, NewlinesRecorded DEF Rising
      <4>2. i # k + 1
        BY <3>1, <3>2
      <4> QED
        BY <1>1, <3>2, <4>1, <4>2
    <3>4. k \in DOMAIN line_array /\ k # 0 /\ line_array[k] \in Nat
      <4>1. k \in 1 .. len
        BY <1>1, <3>2, <3>3
      <4> QED
        BY <1>1, <4>1, NewlinesRecorded DEF Rising
    <3>5. q <= line_array[k]
      <4>1. i < k => line_array[i] < line_array[k]
        BY <3>1, <3>4, NewlinesRecorded DEF Rising
      <4>2. i = k \/ i < k
        BY <1>1, <3>2, <3>3
      <4>3. i = k => q = line_array[k]
        BY <3>1
      <4> QED
        BY <3>1, <3>2, <3>4, <4>1, <4>2, <4>3
    <3> QED
      BY <1>1, <1>3, <3>2, <3>4, <3>5
  <2>2. \A q \in first .. end - 1 : q < Length
    BY <1>1, <1>2, <1>3
  <2> QED
    BY <2>1, <2>2 DEF At
<1> HIDE DEF text, end
<1>6. /\ Len(text) = end - first /\ DOMAIN text = 1 .. end - first
      /\ \A i \in 1 .. end - first : text[i] = buffer[first + i]
  <2>1. \A i \in b .. end : buffer[i] \in STRING
    <3>1. \A i \in b .. end : i \in 1 .. Len(buffer)
      BY <1>1, <1>2, <1>3
    <3>2. buffer \in Seq(STRING)
      BY DEF ScanInv
    <3> QED
      BY <3>1, <3>2
  <2>2. b \in Int /\ end \in Int /\ end - b + 1 = end - first
        /\ (IF b <= end THEN end - b + 1 ELSE 0) = end - first
    BY <1>1, <1>2, <1>3
  <2>3. \A i \in 1 .. end - first : buffer[b + i - 1] = buffer[first + i]
    <3>1. \A i \in 1 .. end - first : b + i - 1 = first + i
      BY <1>1, <1>2, <1>3
    <3> QED
      BY <3>1
  <2> HIDE DEF b
  <2>4. /\ text \in Seq(STRING) /\ Len(text) = end - first
        /\ \A i \in 1 .. end - first : text[i] = buffer[b + i - 1]
    BY <1>4, <2>1, <2>2, SubSeqProperties
  <2>5. DOMAIN text = 1 .. end - first
    BY <2>4, LenProperties
  <2> QED
    BY <2>3, <2>4, <2>5
<1>7. ASSUME NEW i \in DOMAIN text
      PROVE  text[i] = At(first + i - 1) /\ text[i] # "\n"
  <2>1. /\ i \in 1 .. end - first /\ first + i - 1 \in first .. end - 1
        /\ first + i - 1 + 1 = first + i
    BY <1>2, <1>3, <1>6
  <2> QED
    BY <1>5, <1>6, <2>1
<1>8. first + Len(text) = end
  BY <1>2, <1>3, <1>6
<1> QED
  BY <1>2, <1>7, <1>8 DEF text

\* At the end lines and columns are right.
LEMMA PlacesAreRight ==
  ASSUME ScanInv
  PROVE  PlacesRight
<1> SUFFICES ASSUME Ended, NEW p \in 0 .. Length
             PROVE
      LET before == { q \in 0 .. p - 1 : At(q) = "\n" }
          first == CHOOSE q \in 0 .. p :
                     /\ q = 0 \/ q - 1 \in before
                     /\ \A r \in before : r < q
          line == LineForPosition(p)
      IN /\ line = Cardinality(before) + 1
         /\ ColumnForPosition(p) = p - first + 1
         /\ LET text == ExtractLine(line)
                newline == { q \in p .. Length : At(q) = "\n" }
            IN IF newline = {} /\ before # {} THEN text = Arbitrary
               ELSE /\ \A i \in DOMAIN text : text[i] = At(first + i - 1)
                                              /\ text[i] # "\n"
                    /\ At(first + Len(text)) \in {"\n", NUL}
  BY DEF PlacesRight, JustLexed
<1> DEFINE before == { q \in 0 .. p - 1 : At(q) = "\n" }
           first == CHOOSE q \in 0 .. p :
                      /\ q = 0 \/ q - 1 \in before
                      /\ \A r \in before : r < q
           newline == { q \in p .. Length : At(q) = "\n" }
           len == Len(line_array)
<1>1. /\ Length = Len(buffer) /\ Length \in Nat /\ p \in Nat
      /\ len \in Nat /\ DOMAIN line_array = 1 .. len
  BY AllRead, NewlinesRecorded DEF Rising, IsSequence
<1> HIDE DEF len
<1>2. PICK k : Split(line_array, p, k)
  BY <1>1, SplitExists, NewlinesRecorded
<1>3. k \in 0 .. len
  BY <1>2 DEF Split, len
<1>4. /\ Cardinality(before) = k /\ (before = {} <=> k = 0)
      /\ first = IF k = 0 THEN 0 ELSE line_array[k] + 1
  BY <1>2, NewlinesBefore
<1>5. LineIndex(p) = k
  BY <1>1, <1>2, IndexIsRight, NewlinesRecorded
<1>6. newline = {} <=> k = len
  <2>1. ASSUME k # len PROVE newline # {}
    <3>1. k + 1 \in DOMAIN line_array /\ ~(k + 1 <= k)
      <4>1. k + 1 \in 1 .. len /\ ~(k + 1 <= k)
        BY <1>1, <1>3, <2>1
      <4> QED
        BY <1>1, <4>1
    <3>2. line_array[k + 1] \in p .. Length /\ At(line_array[k + 1]) = "\n"
      BY <1>1, <1>2, <3>1, NewlinesRecorded, SMTT(60) DEF Split
    <3> QED
      BY <3>2
  <2>2. ASSUME k = len, NEW q \in newline PROVE FALSE
    <3>1. q \in 0 .. Length /\ At(q) = "\n" /\ q >= p
      BY <1>1, <2>2
    <3>2. PICK i \in DOMAIN line_array : line_array[i] = q
      BY <3>1, NewlinesRecorded
    <3>3. i <= k
      BY <1>1, <2>2
    <3>4. q < p
      BY <1>2, <3>2, <3>3 DEF Split
    <3> QED
      BY <1>1, <3>1, <3>4
  <2> QED
    BY <2>1, <2>2
<1> HIDE DEF before, first, newline
<1>7. LineForPosition(p) = k + 1
  BY <1>5 DEF LineForPosition
<1>8. ColumnForPosition(p) = p - first + 1
  <2>1. CASE k = 0
    BY <1>1, <1>4, <1>5, <2>1 DEF ColumnForPosition
  <2>2. CASE k # 0
    <3>1. k \in DOMAIN line_array /\ k > 0
      BY <1>1, <1>3, <2>2
    <3>2. line_array[k] \in Nat
      BY <3>1, NewlinesRecorded DEF Rising
    <3>3. ColumnForPosition(p) = p - line_array[k]
      BY <1>5, <3>1 DEF ColumnForPosition
    <3> QED
      BY <1>1, <1>4, <2>2, <3>2, <3>3
  <2> QED
    BY <2>1, <2>2
<1>9. CASE k < len
  <2> DEFINE text == ExtractLine(k + 1)
  <2>1. /\ \A i \in DOMAIN text : text[i] = At(first + i - 1) /\ text[i] # "\n"
        /\ At(first + Len(text)) = "\n"
    BY <1>2, <1>4, <1>9, LineExtracted DEF len
  <2> HIDE DEF text
  <2>2. ~(newline = {} /\ before # {})
    <3>1. k # len
      BY <1>1, <1>3, <1>9
    <3> QED
      BY <1>6, <3>1, Zenon
  <2> QED
    BY <1>4, <1>7, <1>8, <2>1, <2>2 DEF before, first, newline, text
<1>10. CASE k = len /\ len # 0
  <2>1. newline = {} /\ before # {}
    BY <1>4, <1>6, <1>10
  <2>2. ExtractLine(k + 1) = Arbitrary
    <3>1. line_array # <<>> /\ k + 1 > len
      BY <1>1, <1>10
    <3> QED
      BY <3>1 DEF ExtractLine, len
  <2> QED
    BY <1>4, <1>7, <1>8, <2>1, <2>2 DEF before, first, newline
<1>11. CASE len = 0
  <2> DEFINE text == ExtractLine(k + 1)
  <2>1. k = 0 /\ first = 0 /\ before = {}
    BY <1>3, <1>4, <1>11
  <2>2. line_array = <<>>
    BY <1>1, <1>11, NewlinesRecorded DEF Rising, IsSequence, len
  <2>3. text = buffer
    BY <2>2 DEF ExtractLine
  <2>4. \A i \in DOMAIN buffer : buffer[i] = At(first + i - 1) /\ buffer[i] # "\n"
    <3>1. ASSUME NEW i \in DOMAIN buffer
          PROVE  buffer[i] = At(first + i - 1) /\ buffer[i] # "\n"
      <4>1. i \in 1 .. Length
        BY <1>1, LenProperties DEF ScanInv
      <4>2. 0 + i - 1 = i - 1 /\ i - 1 < Length /\ i - 1 + 1 = i /\ i - 1 \in 0 .. Length
        BY <1>1, <4>1
      <4>3. At(i - 1) = buffer[i]
        BY <4>2 DEF At
      <4>4. At(i - 1) # "\n"
        BY <1>1, <1>11, <4>2, NewlinesRecorded
      <4> QED
        BY <2>1, <4>2, <4>3, <4>4
    <3> QED
      BY <3>1
  <2>5. At(first + Len(buffer)) = NUL
    BY <1>1, <2>1 DEF At
  <2> HIDE DEF text
  <2> QED
    BY <1>4, <1>7, <1>8, <2>1, <2>3, <2>4, <2>5 DEF before, first, newline, text
<1>12. k < len \/ (k = len /\ len # 0) \/ len = 0
  BY <1>1, <1>3
<1> QED
  BY <1>9, <1>10, <1>11, <1>12, Zenon

\* Whatever the text, the line and the column of a position are the ones that
\* counting newlines gives, and the text of a line that ends is that line.
THEOREM PlacesAlwaysRight == FrontSpec => []PlacesRight
<1>1. FrontInit => ScanInv
  BY ScanInitially
<1>2. ScanInv /\ [FrontNext]_frontvars => ScanInv'
  BY ScanKeeps
<1>3. ScanInv => PlacesRight
  BY PlacesAreRight
<1> QED
  BY <1>1, <1>2, <1>3, PTL DEF FrontSpec

-----------------------------------------------------------------------------
(***************************************************************************)
(* Literals: what the digits say, and what is made of them in a word.      *)
(***************************************************************************)
\* A function that is given at 0 and leads on from there.
IsFold(f, n, X, start, step) ==
  /\ f \in [0 .. n -> X]
  /\ f[0] = start
  /\ \A i \in 1 .. n : f[i] = step[<<f[i - 1], i>>]

\* There is one, as far as one likes.
LEMMA FoldExists ==
  ASSUME NEW n \in Nat, NEW X, NEW start \in X, NEW step \in [X \X (1 .. n) -> X]
  PROVE  \E f : IsFold(f, n, X, start, step)
<1> DEFINE Good(f, m) ==
             f[0] = start /\ \A i \in 1 .. m : f[i] = step[<<f[i - 1], i>>]
           Missing == { m \in 0 .. n : ~ \E f \in [0 .. m -> X] : Good(f, m) }
<1>1. ASSUME Missing # {} PROVE FALSE
  <2>1. PICK m \in Missing : \A k \in Missing : m <= k
    <3>1. Missing \in SUBSET Nat
      OBVIOUS
    <3> HIDE DEF Missing
    <3> QED
      BY <1>1, <3>1, LeastNatural
  <2>2. m \in 0 .. n /\ ~ \E f \in [0 .. m -> X] : Good(f, m)
    OBVIOUS
  <2>3. m # 0
    <3>1. ASSUME m = 0 PROVE FALSE
      <4> DEFINE f == [i \in 0 .. 0 |-> start]
      <4>1. f \in [0 .. 0 -> X] /\ Good(f, 0)
        OBVIOUS
      <4> QED
        BY <2>2, <3>1, <4>1
    <3> QED
      BY <3>1
  <2>4. m - 1 \in 0 .. n /\ m - 1 \notin Missing
    <3>1. m - 1 \in 0 .. n /\ m \in Nat /\ ~(m <= m - 1)
      BY <2>2, <2>3
    <3> HIDE DEF Missing
    <3> QED
      BY <2>1, <3>1
  <2>5. PICK f \in [0 .. m - 1 -> X] : Good(f, m - 1)
    BY <2>4
  <2> DEFINE g == [i \in 0 .. m |-> IF i = m THEN step[<<f[m - 1], m>>] ELSE f[i]]
  <2>6. step[<<f[m - 1], m>>] \in X
    BY <2>2, <2>3, <2>5
  <2>7. g \in [0 .. m -> X]
    BY <2>2, <2>5, <2>6
  <2>8. g[0] = start
    BY <2>2, <2>3, <2>5
  <2>9. ASSUME NEW i \in 1 .. m PROVE g[i] = step[<<g[i - 1], i>>]
    <3>1. CASE i = m
      <4>1. m \in 0 .. m /\ m - 1 \in 0 .. m /\ m - 1 # m
        BY <2>2, <2>3
      <4>2. g[m] = step[<<f[m - 1], m>>] /\ g[m - 1] = f[m - 1]
        BY <4>1
      <4> QED
        BY <3>1, <4>2
    <3>2. CASE i # m
      <4>1. i \in 1 .. m - 1 /\ i \in 0 .. m /\ i - 1 \in 0 .. m /\ i - 1 # m
        BY <2>2, <3>2
      <4>2. f[i] = step[<<f[i - 1], i>>]
        BY <2>5, <4>1
      <4> QED
        BY <3>2, <4>1, <4>2
    <3> QED
      BY <3>1, <3>2
  <2> HIDE DEF g
  <2> QED
    BY <2>2, <2>7, <2>8, <2>9
<1>2. n \notin Missing
  BY <1>1
<1> QED
  BY <1>2 DEF IsFold

\* The value of a digit.
LEMMA ValueOfDigit ==
  ASSUME NEW digit \in Digits
  PROVE  DigitValue(digit) \in 0 .. 9
<1> DEFINE Is(d) == digit = <<"0", "1", "2", "3", "4", "5", "6", "7", "8", "9">>[d + 1]
<1>1. Is(0) \/ Is(1) \/ Is(2) \/ Is(3) \/ Is(4) \/ Is(5) \/ Is(6) \/ Is(7) \/ Is(8)
      \/ Is(9)
  BY DEF Digits
<1> HIDE DEF Is
<1>2. \E d \in 0 .. 9 : Is(d)
  BY <1>1
<1>3. (CHOOSE d \in 0 .. 9 : Is(d)) \in 0 .. 9
  BY <1>2
<1> QED
  BY <1>3 DEF DigitValue, Is

\* What the first i digits denote, digit by digit.
LEMMA NumberIs ==
  ASSUME NEW digits, Len(digits) \in Nat,
         \A i \in 1 .. Len(digits) : digits[i] \in Digits
  PROVE  \E f \in [0 .. Len(digits) -> Nat] :
           /\ Number(digits) = f[Len(digits)] /\ f[0] = 0
           /\ \A i \in 1 .. Len(digits) :
                f[i] = 10 * f[i - 1] + DigitValue(digits[i])
<1> DEFINE n == Len(digits)
           IsNumber(f) ==
             f = [i \in 0 .. n |->
                    IF i = 0 THEN 0 ELSE 10 * f[i - 1] + DigitValue(digits[i])]
           step == [p \in Nat \X (1 .. n) |-> 10 * p[1] + DigitValue(digits[p[2]])]
           number == CHOOSE f : IsNumber(f)
<1>1. step \in [Nat \X (1 .. n) -> Nat]
  <2>1. ASSUME NEW p \in Nat \X (1 .. n)
        PROVE  10 * p[1] + DigitValue(digits[p[2]]) \in Nat
    <3>1. DigitValue(digits[p[2]]) \in 0 .. 9
      BY ValueOfDigit
    <3> QED
      BY <3>1
  <2> QED
    BY <2>1
<1>2. PICK f \in [0 .. n -> Nat] :
        f[0] = 0 /\ \A i \in 1 .. n : f[i] = step[<<f[i - 1], i>>]
  <2>1. n \in Nat /\ 0 \in Nat
    OBVIOUS
  <2> HIDE DEF step, n
  <2>2. \E f : IsFold(f, n, Nat, 0, step)
    BY <1>1, <2>1, FoldExists
  <2> QED
    BY <2>2 DEF IsFold
<1>3. \A i \in 1 .. n : f[i] = 10 * f[i - 1] + DigitValue(digits[i])
  <2>1. ASSUME NEW i \in 1 .. n PROVE f[i] = 10 * f[i - 1] + DigitValue(digits[i])
    <3>1. f[i - 1] \in Nat
      BY <1>2
    <3> QED
      BY <1>2, <3>1
  <2> QED
    BY <2>1
<1>4. IsNumber(f)
  BY <1>2, <1>3
<1>5. IsNumber(number)
  <2> HIDE DEF IsNumber
  <2> QED
    BY <1>4, Zenon
<1>6. Number(digits) = number[n]
  BY Zenon DEF Number
<1> HIDE DEF number
<1>7. /\ DOMAIN number = 0 .. n /\ number[0] = 0
      /\ \A i \in 1 .. n : number[i] = 10 * number[i - 1] + DigitValue(digits[i])
  BY <1>5
<1>8. number = f
  <2> DEFINE Wrong == { i \in 0 .. n : number[i] # f[i] }
  <2>1. ASSUME Wrong # {} PROVE FALSE
    <3>1. PICK i \in Wrong : \A k \in Wrong : i <= k
      <4>1. Wrong \in SUBSET Nat
        OBVIOUS
      <4> HIDE DEF Wrong
      <4> QED
        BY <2>1, <4>1, LeastNatural
    <3>2. i \in 1 .. n /\ number[i] # f[i]
      BY <1>2, <1>7, <3>1
    <3>3. i - 1 \notin Wrong
      <4>1. ~(i <= i - 1)
        BY <3>2
      <4> HIDE DEF Wrong
      <4> QED
        BY <3>1, <4>1
    <3>4. number[i - 1] = f[i - 1]
      BY <3>2, <3>3
    <3> QED
      BY <1>3, <1>7, <3>2, <3>4
  <2>2. \A i \in 0 .. n : number[i] = f[i]
    BY <2>1
  <2> QED
    BY <1>2, <1>5, <2>2
<1> QED
  BY <1>2, <1>3, <1>6, <1>8

\* A round of the loop over the digits, and what it starts from.
AfterDigit(last, digit) ==
  LET new_value == NextValue(last.value, digit)
  IN IF last.overflow \/ new_value < last.value
     THEN [last EXCEPT !.overflow = TRUE]
     ELSE [last EXCEPT !.value = new_value]

BeforeDigits == [value |-> 0, overflow |-> FALSE]

LiteralState == [value : Nat, overflow : BOOLEAN]

LEMMA AfterDigitType ==
  ASSUME NEW last \in LiteralState, NEW digit \in Digits
  PROVE  AfterDigit(last, digit) \in LiteralState
<1>1. NextValue(last.value, digit) \in Nat
  <2>1. DigitValue(digit) \in 0 .. 9 /\ last.value \in Nat
    BY ValueOfDigit DEF LiteralState
  <2>2. last.value * 10 + DigitValue(digit) \in Nat
    BY <2>1
  <2> HIDE DEF DigitValue
  <2> QED
    BY <2>2, WordAssumption DEF NextValue
<1> QED
  BY <1>1 DEF AfterDigit, LiteralState

\* The function of the loop is there.
LEMMA LiteralIs ==
  ASSUME NEW digits, Len(digits) \in Nat,
         \A i \in 1 .. Len(digits) : digits[i] \in Digits
  PROVE  \E v : /\ LiteralValues(digits) = v[Len(digits)] /\ v[0] = BeforeDigits
                /\ \A i \in 1 .. Len(digits) : v[i] = AfterDigit(v[i - 1], digits[i])
<1> DEFINE n == Len(digits)
           X == LiteralState
           IsReading(f) ==
             f = [i \in 0 .. n |-> IF i = 0 THEN BeforeDigits
                                   ELSE AfterDigit(f[i - 1], digits[i])]
           step == [p \in X \X (1 .. n) |-> AfterDigit(p[1], digits[p[2]])]
           reading == CHOOSE f : IsReading(f)
<1>1. step \in [X \X (1 .. n) -> X]
  BY AfterDigitType
<1>2. PICK f \in [0 .. n -> X] :
        f[0] = BeforeDigits /\ \A i \in 1 .. n : f[i] = step[<<f[i - 1], i>>]
  <2>1. n \in Nat /\ BeforeDigits \in X
    BY DEF BeforeDigits, LiteralState
  <2> HIDE DEF step, n, X
  <2>2. \E f : IsFold(f, n, X, BeforeDigits, step)
    BY <1>1, <2>1, FoldExists
  <2> QED
    BY <2>2 DEF IsFold
<1>3. ASSUME NEW i \in 1 .. n PROVE f[i] = AfterDigit(f[i - 1], digits[i])
  <2>1. f[i - 1] \in X
    BY <1>2
  <2> HIDE DEF X
  <2> QED
    BY <1>2, <2>1
<1>4. IsReading(f)
  <2> HIDE DEF X
  <2> QED
    BY <1>2, <1>3
<1>5. IsReading(reading)
  <2> HIDE DEF IsReading
  <2> QED
    BY <1>4, Zenon
<1>6. LiteralValues(digits) = reading[n]
  BY Zenon DEF LiteralValues, AfterDigit, BeforeDigits
<1> HIDE DEF reading
<1>7. /\ reading[0] = BeforeDigits
      /\ \A i \in 1 .. n : reading[i] = AfterDigit(reading[i - 1], digits[i])
  BY <1>5
<1> QED
  BY <1>6, <1>7

\* While what the digits denote fits a word, it is what the loop has, and
\* the next value is no smaller.
LEMMA OverflowIsTrue ==
  ASSUME NEW digits, Len(digits) \in Nat,
         \A i \in 1 .. Len(digits) : digits[i] \in Digits,
         LiteralValues(digits).overflow
  PROVE  Number(digits) >= Word
<1> DEFINE n == Len(digits)
<1>1. PICK f \in [0 .. n -> Nat] :
        /\ Number(digits) = f[n] /\ f[0] = 0
        /\ \A i \in 1 .. n : f[i] = 10 * f[i - 1] + DigitValue(digits[i])
  BY NumberIs
<1>2. PICK v :
        /\ LiteralValues(digits) = v[n] /\ v[0] = BeforeDigits
        /\ \A i \in 1 .. n : v[i] = AfterDigit(v[i - 1], digits[i])
  BY LiteralIs
<1> DEFINE Right(i) == v[i] \in LiteralState /\ v[i].value = f[i] /\ ~v[i].overflow
           Wrong == { i \in 0 .. n : f[i] < Word /\ ~Right(i) }
<1>3. ASSUME Wrong # {} PROVE FALSE
  <2>1. PICK i \in Wrong : \A k \in Wrong : i <= k
    <3>1. Wrong \in SUBSET Nat
      OBVIOUS
    <3> HIDE DEF Wrong
    <3> QED
      BY <1>3, <3>1, LeastNatural
  <2>2. i \in 1 .. n /\ f[i] < Word /\ ~Right(i)
    <3>1. i \in 0 .. n /\ f[i] < Word /\ ~Right(i)
      OBVIOUS
    <3>2. Right(0)
      BY <1>1, <1>2 DEF BeforeDigits, LiteralState
    <3> HIDE DEF Wrong, Right
    <3>3. i # 0
      BY <3>1, <3>2
    <3> QED
      BY <3>1, <3>3
  <2>3. i - 1 \in 0 .. n /\ i - 1 \notin Wrong
    <3>1. ~(i <= i - 1) /\ i - 1 \in 0 .. n
      BY <2>2
    <3> HIDE DEF Wrong
    <3> QED
      BY <2>1, <3>1
  <2> DEFINE d == DigitValue(digits[i])
             old == f[i - 1]
             new == f[i]
  <2>4. d \in 0 .. 9
    BY <2>2, ValueOfDigit
  <2>5. old \in Nat /\ new \in Nat /\ new = 10 * old + d /\ new < Word
    BY <1>1, <2>2, <2>3
  <2>6. Right(i - 1)
    <3>1. old < Word
      BY <2>4, <2>5, WordAssumption
    <3> QED
      BY <2>3, <3>1
  <2>7. NextValue(old, digits[i]) = new /\ ~(new < old)
    <3> HIDE DEF d, old, new
    <3>1. (old * 10 + d) = new
      BY <2>4, <2>5
    <3>2. new % Word = new
      <4>1. new \in 0 .. Word - 1 /\ Word \in Nat /\ Word > 0
        BY <2>5, WordAssumption
      <4> QED
        BY <4>1
    <3>4. ~(new < old)
      BY <2>4, <2>5
    <3>3. NextValue(old, digits[i]) = (old * 10 + d) % Word
      BY DEF NextValue, d
    <3> QED
      BY <3>1, <3>2, <3>3, <3>4
  <2>8. v[i] = AfterDigit(v[i - 1], digits[i])
    BY <1>2, <2>2
  <2> HIDE DEF d, old, new
  <2>9. v[i] \in LiteralState
    <3>1. v[i - 1] \in LiteralState /\ digits[i] \in Digits
      BY <2>2, <2>6
    <3> QED
      BY <2>8, <3>1, AfterDigitType
  <2>10. v[i].value = new /\ ~v[i].overflow
    <3> DEFINE last == v[i - 1]
    <3>1. last \in LiteralState /\ last.value = old /\ ~last.overflow
      BY <2>6 DEF old
    <3> HIDE DEF last
    <3>2. v[i] = [last EXCEPT !.value = new]
      BY <2>7, <2>8, <3>1 DEF AfterDigit, last
    <3> QED
      BY <3>1, <3>2 DEF LiteralState
  <2> QED
    BY <2>2, <2>9, <2>10 DEF new
<1>4. n \in 0 .. n
  OBVIOUS
<1>5. ~(f[n] < Word)
  BY <1>2, <1>3, <1>4
<1> QED
  BY <1>1, <1>4, <1>5, WordAssumption

\* The text of a literal is digits.
LEMMA LiteralDigits ==
  ASSUME ScanInv, Ended, NEW pos \in Nat, pos + 1 \in DOMAIN token_array,
         token_array[pos + 1].type = "INT_LITERAL"
  PROVE  /\ Len(ExtractToken(pos)) \in Nat
         /\ \A i \in 1 .. Len(ExtractToken(pos)) : ExtractToken(pos)[i] \in Digits
<1> DEFINE token == token_array[pos + 1]
           word == ExtractToken(pos)
<1>1. /\ token.start \in Nat /\ token.length \in Nat
      /\ token.start + token.length <= Len(buffer)
      /\ GoodWord(buffer, token)
  BY AllRead DEF ReadSoFar, WordsRead
<1>2. word \in Seq(STRING)
  <2>1. buffer \in Seq(STRING)
    BY DEF ScanInv
  <2>2. \A i \in token.start + 1 .. token.start + token.length : buffer[i] \in STRING
    BY <1>1, <2>1, ElementOfSeq
  <2> HIDE DEF token
  <2>3. SubSeq(buffer, token.start + 1, token.start + token.length) \in Seq(STRING)
    BY <1>1, <2>2, SubSeqProperties
  <2> QED
    BY <2>3 DEF ExtractToken, token
<1>3. Class(word) = "INT_LITERAL"
  BY <1>1 DEF GoodWord, ExtractToken
<1> HIDE DEF word
<1>4. \A i \in DOMAIN word : word[i] \in Digits
  <2>1. ~ \E k \in Keyword : Keywords[k] = word
    BY <1>3 DEF Class, Keyword
  <2>2. ~ \E k \in DOMAIN Signs : Signs[k] = word
    BY <1>3, <2>1 DEF Class, Signs
  <2> QED
    BY <1>3, <2>1, <2>2 DEF Class
<1>5. Len(word) \in Nat /\ DOMAIN word = 1 .. Len(word)
  BY <1>2, LenProperties
<1> QED
  BY <1>4, <1>5 DEF word

-----------------------------------------------------------------------------
(***************************************************************************)
(* Only a literal adds a report of one; all else the parser does keeps     *)
(* such reports as they are.                                               *)
(***************************************************************************)
\* Fields that are updated are there.
Reporting(c) ==
  {"pos", "lost_count", "errors"} \subseteq DOMAIN c /\ IsSequence(c.errors)

\* The literals that d reports are reported by c.
NoneAdded(c, d) ==
  /\ Reporting(d)
  /\ \A i \in DOMAIN d.errors : d.errors[i].message = "OVERFLOW" =>
       \E j \in DOMAIN c.errors : c.errors[j] = d.errors[i]

\* One after the other.
LEMMA NoneAddedTwice ==
  ASSUME NEW c, NEW d, NEW e, NoneAdded(c, d), NoneAdded(d, e)
  PROVE  NoneAdded(c, e)
<1>1. ASSUME NEW i \in DOMAIN e.errors, e.errors[i].message = "OVERFLOW"
      PROVE  \E j \in DOMAIN c.errors : c.errors[j] = e.errors[i]
  <2>1. PICK j \in DOMAIN d.errors : d.errors[j] = e.errors[i]
    BY <1>1 DEF NoneAdded
  <2> QED
    BY <1>1, <2>1 DEF NoneAdded
<1> QED
  BY <1>1 DEF NoneAdded

\* Going on, with a match or without.
LEMMA MatchAddsNone ==
  ASSUME NEW c, Reporting(c)
  PROVE  /\ NoneAdded(c, c) /\ NoneAdded(c, Advance(c)) /\ NoneAdded(c, Matched(c))
         /\ \A type : NoneAdded(c, Match(c, type))
<1>1. NoneAdded(c, c)
  BY DEF NoneAdded
<1>2. Advance(c).errors = c.errors /\ DOMAIN Advance(c) = DOMAIN c
  BY DEF Reporting, Advance
<1>3. Matched(c).errors = c.errors /\ DOMAIN Matched(c) = DOMAIN c
  BY DEF Reporting, Advance, Matched
<1>4. NoneAdded(c, Advance(c))
  BY <1>1, <1>2 DEF NoneAdded, Reporting
<1>5. NoneAdded(c, Matched(c))
  BY <1>1, <1>3 DEF NoneAdded, Reporting
<1> QED
  BY <1>1, <1>4, <1>5 DEF Match

\* A report at the end: all there are but the last were there before.
AtMostAdded(c, d, report) ==
  /\ Reporting(d)
  /\ \A i \in DOMAIN d.errors :
       (\E j \in DOMAIN c.errors : c.errors[j] = d.errors[i]) \/ d.errors[i] = report

ReportOf(pos, message) ==
  [start_pos |-> token_array[pos + 1].start,
   end_pos   |-> token_array[pos + 1].start + token_array[pos + 1].length,
   message   |-> message]

LEMMA ReportAdded ==
  ASSUME NEW c, Reporting(c), NEW pos, NEW message
  PROVE  AtMostAdded(c, SyntaxErrorToken(c, pos, message), ReportOf(pos, message))
<1> DEFINE d == SyntaxErrorToken(c, pos, message)
           report == ReportOf(pos, message)
<1>1. DOMAIN d = DOMAIN c
      /\ d.errors = IF c.lost_count = 0 THEN Append(c.errors, report) ELSE c.errors
  BY DEF Reporting, SyntaxErrorToken, AddError, ReportOf
<1> HIDE DEF report, d
<1>2. CASE c.lost_count # 0
  BY <1>1, <1>2 DEF Reporting, AtMostAdded, d, report
<1>3. CASE c.lost_count = 0
  <2>1. /\ IsSequence(d.errors)
        /\ DOMAIN c.errors = 1 .. Len(c.errors) /\ Len(c.errors) \in Nat
        /\ DOMAIN d.errors = 1 .. Len(c.errors) + 1
        /\ \A i \in 1 .. Len(c.errors) : d.errors[i] = c.errors[i]
        /\ d.errors[Len(c.errors) + 1] = report
    BY <1>1, <1>3, Appended DEF Reporting
  <2>2. ASSUME NEW i \in DOMAIN d.errors
        PROVE  (\E j \in DOMAIN c.errors : c.errors[j] = d.errors[i])
                 \/ d.errors[i] = report
    <3>1. i \in DOMAIN c.errors \/ i = Len(c.errors) + 1
      BY <2>1
    <3> QED
      BY <2>1, <3>1
  <2> QED
    BY <1>1, <2>1, <2>2 DEF Reporting, AtMostAdded, d, report
<1> QED
  BY <1>2, <1>3

\* A token that is missing is another report.
LEMMA ExpectAddsNone ==
  ASSUME NEW c, Reporting(c), NEW message, message # "OVERFLOW"
  PROVE  NoneAdded(c, SyntaxError(c, message)) /\ NoneAdded(c, Expect(c, message))
<1> DEFINE d == SyntaxErrorToken(c, c.pos, message)
           report == ReportOf(c.pos, message)
<1>2. AtMostAdded(c, d, report) /\ report.message = message
  BY ReportAdded DEF ReportOf
<1>1. NoneAdded(c, SyntaxError(c, message))
  <2> HIDE DEF d, report
  <2>1. NoneAdded(c, d)
    BY <1>2 DEF NoneAdded, AtMostAdded
  <2> QED
    BY <2>1 DEF SyntaxError, d
<1> QED
  BY <1>1, MatchAddsNone DEF Expect

\* So is a missing name.
LEMMA SymbolAddsNone ==
  ASSUME NEW c, Reporting(c)
  PROVE  NoneAdded(c, ParseSymbol(c).context)
<1>1. CASE Check(c, "ID")
  <2> DEFINE d == [c EXCEPT !.symbols = FindOrCreateSymbol(c)]
  <2>1. DOMAIN d = DOMAIN c /\ d.errors = c.errors
    BY DEF Reporting
  <2>2. NoneAdded(c, d)
    BY <2>1, MatchAddsNone DEF NoneAdded, Reporting
  <2> HIDE DEF d
  <2>3. NoneAdded(d, Matched(d))
    BY <2>2, MatchAddsNone DEF NoneAdded
  <2>4. ParseSymbol(c).context = Matched(d)
    BY <1>1 DEF ParseSymbol, d
  <2> QED
    BY <2>2, <2>3, <2>4, NoneAddedTwice
<1>2. CASE ~Check(c, "ID")
  BY <1>2, ExpectAddsNone DEF ParseSymbol
<1> QED
  BY <1>1, <1>2

\* All productions but that of a literal.
LEMMA ParseAddsNone ==
  ASSUME Reporting(context), ParseNext, ~ParseInteger
  PROVE  NoneAdded(context, context')
<1>1. /\ NoneAdded(context, context) /\ NoneAdded(context, Advance(context))
      /\ NoneAdded(context, Matched(context))
  BY MatchAddsNone
<1>2. CASE ParseLet
  <2> DEFINE b == Matched(context)
             c == Match(b, "REC")
             d == ParseSymbol(c).context
  <2>1. NoneAdded(context, b)
    BY <1>1
  <2>2. NoneAdded(b, c)
    BY <2>1, MatchAddsNone DEF NoneAdded
  <2>3. NoneAdded(c, d)
    BY <2>2, SymbolAddsNone DEF NoneAdded
  <2>4. NoneAdded(d, Expect(d, "EQUALS"))
    BY <2>3, ExpectAddsNone DEF NoneAdded
  <2>5. context' = Expect(d, "EQUALS")
    BY <1>2 DEF ParseLet
  <2> HIDE DEF b, c, d
  <2> QED
    BY <2>1, <2>2, <2>3, <2>4, <2>5, NoneAddedTwice
<1>3. CASE ParseFn
  <2> DEFINE b == Matched(context)
             d == ParseSymbol(b).context
  <2>1. NoneAdded(context, b)
    BY <1>1
  <2>2. NoneAdded(b, d)
    BY <2>1, SymbolAddsNone DEF NoneAdded
  <2>3. NoneAdded(d, Expect(d, "ARROW"))
    BY <2>2, ExpectAddsNone DEF NoneAdded
  <2>4. context' = Expect(d, "ARROW")
    BY <1>3 DEF ParseFn
  <2> HIDE DEF b, d
  <2> QED
    BY <2>1, <2>2, <2>3, <2>4, NoneAddedTwice
<1>4. CASE ParseLetBody \/ ParseIfThen \/ ParseIfElse \/ FinishParen \/ ParseNothing
  BY <1>4, ExpectAddsNone
  DEF ParseLetBody, ParseIfThen, ParseIfElse, FinishParen, ParseNothing
<1>5. CASE ParseIdentifier
  BY <1>5, SymbolAddsNone DEF ParseIdentifier
<1>6. CASE ParseIf \/ ParseRight \/ ParseUnary \/ ParseBoolean \/ ParseParen
           \/ ParseParenTuple \/ ParseTupleNext
  BY <1>1, <1>6 DEF ParseIf, ParseRight, MatchOperator, ParseUnary, ParseBoolean,
     ParseParen, ParseParenTuple, ParseTupleNext
<1>7. CASE FinishLet \/ FinishIf \/ FinishFn \/ ParseComparison \/ ParseLeft
           \/ FinishLevel \/ FinishUnary \/ ParseApplication \/ ParseArgument
           \/ FinishApplication \/ ParseElement \/ FinishTuple \/ FinishTupleNext
  BY <1>1, <1>7 DEF FinishLet, FinishIf, FinishFn, ParseComparison, ParseLeft,
     FinishLevel, FinishUnary, ParseApplication, ParseArgument, FinishApplication,
     ParseElement, FinishTuple, FinishTupleNext
<1> QED
  BY <1>2, <1>3, <1>4, <1>5, <1>6, <1>7 DEF ParseNext

\* A report is true when the literal it is of, if it is of one, is too large.
TrueReport(report) ==
  report.message = "OVERFLOW" =>
    Number(SubSeq(buffer, report.start_pos + 1, report.end_pos)) >= Word

\* A literal that is reported is too large.
LEMMA LiteralReportsTrue ==
  ASSUME FrontInv, ScanInv, ParseInteger, UNCHANGED lexvars, OverflowReportsTrue
  PROVE  OverflowReportsTrue'
<1> DEFINE word == ExtractToken(context.pos)
           matched == Matched(context)
           token == token_array[context.pos + 1]
<1>1. UNCHANGED buffer /\ calls # <<>> /\ token.type = "INT_LITERAL"
  BY DEF lexvars, ParseInteger, Starting, Running, Check, PeekToken
<1>2. Ended /\ TokensOK /\ InTokens(context)
  BY <1>1, Innermost
<1>3. context.pos \in Nat /\ context.pos + 1 \in DOMAIN token_array
  BY <1>2, LenProperties DEF InTokens, ContextOK, TokensOK, IsSequence
<1>4. /\ Len(word) \in Nat
      /\ \A i \in 1 .. Len(word) : word[i] \in Digits
  BY <1>1, <1>2, <1>3, LiteralDigits
<1>5. LiteralValues(word).overflow => Number(word) >= Word
  <2> HIDE DEF word
  <2> QED
    BY <1>4, OverflowIsTrue
<1>6. Reporting(context)
  BY <1>2 DEF InTokens, ContextOK, SpreadOK, Reporting
<1>7. NoneAdded(context, matched)
  BY <1>6, MatchAddsNone
<1>8. context' = IF LiteralValues(word).overflow
                 THEN SyntaxErrorToken(matched, context.pos, "OVERFLOW") ELSE matched
  BY DEF ParseInteger
<1> HIDE DEF matched
<1>9. \A i \in DOMAIN matched.errors : TrueReport(matched.errors[i])
  BY <1>7 DEF NoneAdded, OverflowReportsTrue, TrueReport
<1>10. \A i \in DOMAIN context'.errors : TrueReport(context'.errors[i])
  <2>1. CASE LiteralValues(word).overflow
    <3> DEFINE report == ReportOf(context.pos, "OVERFLOW")
    <3>1. \A i \in DOMAIN context'.errors :
            \/ \E j \in DOMAIN matched.errors : matched.errors[j] = context'.errors[i]
            \/ context'.errors[i] = report
      <4>1. Reporting(matched)
        BY <1>7 DEF NoneAdded
      <4> QED
        BY <1>8, <2>1, <4>1, ReportAdded DEF AtMostAdded
    <3>2. TrueReport(report)
      <4>1. SubSeq(buffer, report.start_pos + 1, report.end_pos) = word
        BY DEF ExtractToken, ReportOf
      <4> QED
        BY <1>5, <2>1, <4>1 DEF TrueReport
    <3> HIDE DEF report
    <3> QED
      BY <1>9, <3>1, <3>2
  <2>2. CASE ~LiteralValues(word).overflow
    BY <1>8, <1>9, <2>2
  <2> QED
    BY <2>1, <2>2
<1> QED
  BY <1>1, <1>10 DEF OverflowReportsTrue, TrueReport

\* No other step adds such a report, or changes the text.
LEMMA ReportsStayTrue ==
  ASSUME FrontInv, ScanInv, OverflowReportsTrue, [FrontNext]_frontvars
  PROVE  OverflowReportsTrue'
<1>1. CASE Parse /\ ParseInteger
  BY <1>1, LiteralReportsTrue DEF Parse
<1>2. CASE Parse /\ ~ParseInteger
  <2>1. Reporting(context)
    BY DEF FrontInv, ParseInv, ContextOK, SpreadOK, Reporting
  <2>2. NoneAdded(context, context') /\ UNCHANGED buffer
    BY <1>2, <2>1, ParseAddsNone DEF Parse, lexvars
  <2> QED
    BY <2>2 DEF NoneAdded, OverflowReportsTrue
<1>3. CASE Lex
  <2>1. UNCHANGED buffer /\ UNCHANGED context
    BY <1>3 DEF Lex, parsevars, LexNext, Scanning, ScanSign, ScanEquals, ScanBlank,
       ScanNewline, ScanComment, ScanOpenComment, ScanKeyword, ScanIdentifier,
       ScanInteger, ScanUnexpected, FinishLexing
  <2> QED
    BY <2>1 DEF OverflowReportsTrue
<1>4. CASE BeginParsing \/ UNCHANGED frontvars
  BY <1>4 DEF BeginParsing, StartParsing, frontvars, parsevars, lexvars,
     OverflowReportsTrue
<1> QED
  BY <1>1, <1>2, <1>3, <1>4 DEF FrontNext, FrontStep

\* Whatever the text and the width of a word, a literal that the parser
\* reports as an overflow (_ParseIntegerLiteral, parser.c) denotes a number
\* that does not fit a word: that a new value is smaller than the last is
\* never said of a literal that fits.
THEOREM OverflowsAlwaysTrue == FrontSpec => []OverflowReportsTrue
<1> DEFINE Inv == FrontInv /\ ScanInv /\ OverflowReportsTrue
<1>1. FrontInit => Inv
  <2>1. FrontInit => context.errors = <<>>
    BY DEF FrontInit, ParseInit
  <2>2. FrontInit => OverflowReportsTrue
    BY <2>1 DEF OverflowReportsTrue
  <2> QED
    BY <2>2, FrontInitially, ScanInitially
<1>2. Inv /\ [FrontNext]_frontvars => Inv'
  BY FrontKeeps, ScanKeeps, ReportsStayTrue
<1>3. Inv => OverflowReportsTrue
  OBVIOUS
<1> HIDE DEF Inv
<1> QED
  BY <1>1, <1>2, <1>3, PTL DEF FrontSpec

=============================================================================
