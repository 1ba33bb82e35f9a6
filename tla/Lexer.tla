------------------------------- MODULE Lexer --------------------------------
(***************************************************************************)
(* The scanner (LexBuffer in lexer.c).  A buffer is a sequence of          *)
(* characters; the character at position p, counted from 0 as in the C     *)
(* code, is buffer[p + 1], and a NUL stands behind the last one.  Each     *)
(* action is one round of the scanner's loop: a case of its switch and the *)
(* error state machine behind it.                                          *)
(***************************************************************************)
EXTENDS Integers, Sequences, FiniteSets, Errors

CONSTANT Buffers  \* the texts the scanner may be given
ASSUME BuffersAssumption == Buffers \subseteq Seq(STRING)

VARIABLES
  buffer, ptr,    \* the text, and the position of the scanner in it
  error_start,    \* where a run of unexpected characters began
  token_array,    \* the tokens: type, start and length
  line_array,     \* the positions of the newlines
  errors          \* the list of error reports

lexvars == <<buffer, ptr, error_start, token_array, line_array, errors>>

UINT_MAX == -1  \* no position
NUL == "NUL"
Length == Len(buffer)
At(p) == IF p < Length THEN buffer[p + 1] ELSE NUL

-----------------------------------------------------------------------------
\* Classes of characters.
Digits == {"0", "1", "2", "3", "4", "5", "6", "7", "8", "9"}
IdentifierStart ==
  {"a", "b", "c", "d", "e", "f", "g", "h", "i", "j", "k", "l", "m", "n", "o",
   "p", "q", "r", "s", "t", "u", "v", "w", "x", "y", "z", "A", "B", "C", "D",
   "E", "F", "G", "H", "I", "J", "K", "L", "M", "N", "O", "P", "Q", "R", "S",
   "T", "U", "V", "W", "X", "Y", "Z", "_"}
IdentifierCharacter == Digits \union IdentifierStart \union {"'", "\""}
Blanks == {" ", "\t", "\r"}

\* The tokens of one spelling.
Signs ==
  [LPAREN |-> <<"(">>, RPAREN |-> <<")">>, PLUS |-> <<"+">>, MINUS |-> <<"-">>,
   STAR |-> <<"*">>, SLASH |-> <<"/">>, COMMA |-> <<",">>]
Keyword ==
  {"ELSE", "FALSE", "FN", "IF", "IN", "LET", "REC", "THEN", "TRUE"}
Keywords ==
  [type \in Keyword |->
     CASE type = "ELSE"  -> <<"e", "l", "s", "e">>
       [] type = "FALSE" -> <<"f", "a", "l", "s", "e">>
       [] type = "FN"    -> <<"f", "n">>
       [] type = "IF"    -> <<"i", "f">>
       [] type = "IN"    -> <<"i", "n">>
       [] type = "LET"   -> <<"l", "e", "t">>
       [] type = "REC"   -> <<"r", "e", "c">>
       [] type = "THEN"  -> <<"t", "h", "e", "n">>
       [] type = "TRUE"  -> <<"t", "r", "u", "e">>]

\* The word stands at position p, within the text.
Spelled(word, p) ==
  /\ p + Len(word) <= Length
  /\ \A i \in 1 .. Len(word) : buffer[p + i] = word[i]

\* Mutation: a keyword that is the beginning of a longer identifier.
IsKeywordPrefix(word, p) == Spelled(word, p)

\* A keyword is not the beginning of a longer identifier.
IsKeyword(word, p) ==
  Spelled(word, p) /\ At(p + Len(word)) \notin IdentifierCharacter

\* The longest run of characters of a class from p on ends before q.
RunEnds(class, p, q) ==
  (\A i \in p .. q - 1 : At(i) \in class) /\ At(q) \notin class

-----------------------------------------------------------------------------
LexInit ==
  /\ buffer \in Buffers
  /\ ptr = 0
  /\ error_start = UINT_MAX
  /\ token_array = <<>>
  /\ line_array = <<>>
  /\ errors = <<>>

Ended == token_array # <<>> /\ token_array[Len(token_array)].type = "EOF"

Scanning == ~Ended /\ ptr < Length /\ UNCHANGED buffer

\* The error state machine: a run of unexpected characters is reported by
\* the first round that finds something else.
ErrorNow ==
  /\ error_start' = IF error_start = UINT_MAX THEN ptr ELSE error_start
  /\ UNCHANGED errors

\* Mutation: error_start is not reset.
NoErrorNowKept ==
  /\ UNCHANGED error_start
  /\ errors' = IF error_start = UINT_MAX THEN errors
               ELSE AddError(errors, error_start, ptr, "Unexpected characters")

NoErrorNow ==
  /\ error_start' = UINT_MAX
  /\ errors' = IF error_start = UINT_MAX THEN errors
               ELSE AddError(errors, error_start, ptr, "Unexpected characters")

AddToken(type, length) ==
  /\ token_array' = ArrayListAdd(token_array,
                       [type |-> type, start |-> ptr, length |-> length])
  /\ ptr' = ptr + length
  /\ UNCHANGED line_array
  /\ NoErrorNow

Skip(end) == ptr' = end /\ UNCHANGED token_array

ScanSign ==
  /\ Scanning
  /\ \E type \in DOMAIN Signs : Spelled(Signs[type], ptr) /\ AddToken(type, 1)

ScanEquals ==
  /\ Scanning /\ At(ptr) = "="
  /\ IF At(ptr + 1) = ">" THEN AddToken("ARROW", 2) ELSE AddToken("EQUALS", 1)

ScanBlank ==
  /\ Scanning /\ At(ptr) \in Blanks
  /\ Skip(ptr + 1)
  /\ UNCHANGED line_array
  /\ NoErrorNow

ScanNewline ==
  /\ Scanning /\ At(ptr) = "\n"
  /\ line_array' = ArrayListAdd(line_array, ptr)
  /\ Skip(ptr + 1)
  /\ NoErrorNow

\* Mutation: the newline goes with the comment.
ScanCommentAndNewline ==
  /\ Scanning /\ At(ptr) = "#"
  /\ \E end \in ptr .. Length - 1 :
       /\ At(end) = "\n"
       /\ \A p \in ptr .. end - 1 : At(p) # "\n"
       /\ Skip(end + 1)
  /\ UNCHANGED line_array
  /\ NoErrorNow

\* A comment runs to the next newline.
ScanComment ==
  /\ Scanning /\ At(ptr) = "#"
  /\ \E end \in ptr .. Length - 1 :
       /\ At(end) = "\n"
       /\ \A p \in ptr .. end - 1 : At(p) # "\n"
       /\ Skip(end)
  /\ UNCHANGED line_array
  /\ NoErrorNow

\* Without one it runs on into the memory behind the text: to a newline that
\* happens to be there, or until the process is stopped by a fault.
Astray == Length + 1
Fault == Length + 2
ScanOpenComment ==
  /\ Scanning /\ At(ptr) = "#"
  /\ \A p \in ptr .. Length - 1 : At(p) # "\n"
  /\ UNCHANGED line_array
  /\ \/ Skip(Astray) /\ NoErrorNow
     \/ Skip(Fault) /\ UNCHANGED <<error_start, errors>>

ScanKeyword ==
  /\ Scanning
  /\ \E type \in Keyword :
       /\ IsKeyword(Keywords[type], ptr)
       /\ AddToken(type, Len(Keywords[type]))

ScanIdentifier ==
  /\ Scanning /\ At(ptr) \in IdentifierStart
  /\ \A type \in Keyword : ~IsKeyword(Keywords[type], ptr)
  /\ \E end \in ptr + 1 .. Length :
       RunEnds(IdentifierCharacter, ptr, end) /\ AddToken("ID", end - ptr)

ScanInteger ==
  /\ Scanning /\ At(ptr) \in Digits
  /\ \E end \in ptr + 1 .. Length :
       RunEnds(Digits, ptr, end) /\ AddToken("INT_LITERAL", end - ptr)

Expected ==
  {"(", ")", "+", "-", "*", "/", ",", "=", "\n", "#"}
    \union Blanks \union Digits \union IdentifierStart

\* Mutation: ptr is not moved on.
ScanUnexpectedStays ==
  /\ Scanning /\ At(ptr) \notin Expected
  /\ Skip(ptr)
  /\ UNCHANGED line_array
  /\ ErrorNow

ScanUnexpected ==
  /\ Scanning /\ At(ptr) \notin Expected
  /\ Skip(ptr + 1)
  /\ UNCHANGED line_array
  /\ ErrorNow

\* The end of the input: a run of unexpected characters is forgotten.
FinishLexing ==
  /\ ~Ended /\ ptr \in {Length, Astray}
  /\ token_array' = ArrayListAdd(token_array,
                       [type |-> "EOF", start |-> Length, length |-> 0])
  /\ UNCHANGED <<buffer, ptr, error_start, line_array, errors>>

LexNext ==
  \/ ScanSign \/ ScanEquals \/ ScanBlank \/ ScanNewline \/ ScanComment
  \/ ScanOpenComment \/ ScanKeyword \/ ScanIdentifier \/ ScanInteger
  \/ ScanUnexpected \/ FinishLexing

-----------------------------------------------------------------------------
(***************************************************************************)
(* Lines and columns, both counted from 1, by binary search in the         *)
(* positions of the newlines.                                              *)
(***************************************************************************)
\* Mutation: a position on a newline belongs to the next line.
LineIndexAfter(position) ==
  Cardinality({ i \in DOMAIN line_array : line_array[i] <= position })

LineIndex(position) ==
  LET search[range \in (0 .. Len(line_array)) \X (-1 .. Len(line_array) - 1)] ==
        LET min == range[1]
            max == range[2]
            mid == (max + min) \div 2
            line_position == line_array[mid + 1]
        IN IF min > max THEN min
           ELSE IF line_position = position THEN mid
           ELSE IF line_position < position THEN search[<<mid + 1, max>>]
           ELSE search[<<min, mid - 1>>]
  IN search[<<0, Len(line_array) - 1>>]

LineForPosition(position) == LineIndex(position) + 1
ColumnForPosition(position) ==
  LET min == LineIndex(position)
  IN IF min > 0 THEN position - line_array[min] ELSE position + 1

\* ExtractLine takes the end of a line from line_array, which has no entry
\* for a last line without a newline: the length is then arbitrary.
Arbitrary == "arbitrary"
ExtractLine(line) ==
  LET line_start == IF line > 1 THEN line_array[line - 1] + 1 ELSE 0
  IN IF line_array = <<>> THEN buffer
     ELSE IF line > Len(line_array) THEN Arbitrary
     ELSE SubSeq(buffer, line_start + 1, line_array[line])

ExtractToken(pos) ==
  SubSeq(buffer, token_array[pos + 1].start + 1,
         token_array[pos + 1].start + token_array[pos + 1].length)

=============================================================================
