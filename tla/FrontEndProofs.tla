--------------------------- MODULE FrontEndProofs ---------------------------
(***************************************************************************)
(* The scanner stays within the text and the parser within the tokens,     *)
(* whatever the text and however often the parser is lost.                 *)
(***************************************************************************)
EXTENDS FrontEnd, SequenceTheorems, TLAPS

\* A sequence of some elements.
IsSequence(s) == s \in Seq(Range(s))

\* The tokens are in order, no two at one place.
TokensOK ==
  /\ IsSequence(token_array)
  /\ \A i \in DOMAIN token_array : token_array[i].start \in Nat
  /\ \A i, j \in DOMAIN token_array :
       i < j => token_array[i].start < token_array[j].start

\* The scanner, its tokens and the newlines it has seen are within the text.
LexInv ==
  /\ buffer \in Seq(STRING)
  /\ ptr \in 0 .. Fault
  /\ error_start \in UINT_MAX .. Length
  /\ TokensOK
  /\ \A i \in DOMAIN token_array :
       /\ token_array[i].start + token_array[i].length \in 0 .. Length
       /\ Ended \/ (token_array[i].start < ptr /\ token_array[i].start < Length)
  /\ IsSequence(line_array)
  /\ \A i \in DOMAIN line_array : At(line_array[i]) = "\n"

\* Fields that are updated are there.
ContextOK(c) ==
  /\ {"pos", "lost_count", "errors"} \subseteq DOMAIN c
  /\ c.pos \in Nat
  /\ c.lost_count \in 0 .. RESYNC_TOKENS

\* The reports so far are spread, and each match since the last one has
\* taken the parser on by a token.
SpreadOK(c) ==
  /\ IsSequence(c.errors)
  /\ \A i \in DOMAIN c.errors : Place(c.errors[i]) \in DOMAIN token_array
  /\ \A i \in DOMAIN c.errors : i > 1 =>
       Place(c.errors[i]) >= Place(c.errors[i - 1])
                             + (IF c.errors[i].message = "OVERFLOW"
                                THEN RESYNC_TOKENS - 1 ELSE RESYNC_TOKENS)
  /\ c.errors # <<>> =>
       c.pos + 1 >= Place(c.errors[Len(c.errors)]) + RESYNC_TOKENS - c.lost_count

InTokens(c) == ContextOK(c) /\ c.pos < Len(token_array) /\ SpreadOK(c)

ActivationOK(activation, pos) ==
  /\ {"at", "token_pos"} \subseteq DOMAIN activation
  /\ activation.token_pos \in 0 .. pos

\* A stack of activations: all but the innermost are in a call.
Stacked(stack, pos) ==
  /\ IsSequence(stack)
  /\ \A k \in DOMAIN stack :
       /\ ActivationOK(stack[k], pos)
       /\ k < Len(stack) => stack[k].at # "start"

\* The last activation of a stack, if any, is in a call.
Waiting(stack) == stack # <<>> => stack[Len(stack)].at # "start"

\* The parser stands at a token, before the first one at worst; it runs, and
\* reports, once the tokens are complete.
ParseInv ==
  /\ ContextOK(context)
  /\ context.pos = 0 \/ context.pos < Len(token_array)
  /\ Stacked(calls, context.pos)
  /\ SpreadOK(context)
  /\ calls # <<>> \/ context.errors # <<>> => Ended
  /\ ret # None => Waiting(calls)

FrontInv == LexInv /\ ParseInv

-----------------------------------------------------------------------------
\* Appending to a sequence leaves the elements before.
LEMMA Appended ==
  ASSUME NEW s, IsSequence(s), NEW e
  PROVE  /\ IsSequence(Append(s, e)) /\ Append(s, e) # <<>>
         /\ Len(s) \in Nat /\ Len(Append(s, e)) = Len(s) + 1
         /\ DOMAIN s = 1 .. Len(s)
         /\ DOMAIN Append(s, e) = 1 .. Len(s) + 1
         /\ \A i \in 1 .. Len(s) : Append(s, e)[i] = s[i]
         /\ Append(s, e)[Len(s) + 1] = e
<1> DEFINE S == Range(s) \union {e}
<1>1. s \in Seq(S)
  BY SeqMonotonic DEF IsSequence
<1>2. Append(s, e) \in Seq(S) /\ Append(s, e) # <<>>
  BY <1>1, AppendProperties
<1>3. IsSequence(Append(s, e))
  BY <1>2, SeqOfRange DEF IsSequence
<1> QED
  BY <1>1, <1>2, <1>3, AppendProperties, LenProperties

\* Without its last element.
LEMMA Shortened ==
  ASSUME NEW s, IsSequence(s), s # <<>>
  PROVE  LET r == SubSeq(s, 1, Len(s) - 1)
         IN /\ IsSequence(r)
            /\ Len(s) \in Nat /\ Len(s) > 0 /\ DOMAIN s = 1 .. Len(s)
            /\ Len(r) = Len(s) - 1 /\ DOMAIN r = 1 .. Len(s) - 1
            /\ \A i \in 1 .. Len(s) - 1 : r[i] = s[i]
<1> DEFINE r == SubSeq(s, 1, Len(s) - 1)
<1>1. Len(s) \in Nat /\ Len(s) > 0 /\ DOMAIN s = 1 .. Len(s)
  BY EmptySeq, LenProperties DEF IsSequence
<1>2. r \in Seq(Range(s)) /\ Len(r) = Len(s) - 1 /\ DOMAIN r = 1 .. Len(s) - 1
      /\ \A i \in 1 .. Len(s) - 1 : r[i] = s[i]
  BY <1>1, SubSeqProperties DEF IsSequence
<1>3. IsSequence(r)
  BY <1>2, SeqOfRange DEF IsSequence
<1> QED
  BY <1>1, <1>2, <1>3

\* The innermost activation returns to one that waits for it.
LEMMA Popped ==
  ASSUME NEW s, NEW pos \in Nat, Stacked(s, pos), s # <<>>,
         NEW new_pos \in Nat, new_pos >= pos
  PROVE  /\ Stacked(SubSeq(s, 1, Len(s) - 1), new_pos)
         /\ Waiting(SubSeq(s, 1, Len(s) - 1))
<1> DEFINE r == SubSeq(s, 1, Len(s) - 1)
<1>1. /\ IsSequence(r) /\ Len(s) \in Nat /\ Len(s) > 0
      /\ DOMAIN s = 1 .. Len(s) /\ Len(r) = Len(s) - 1 /\ DOMAIN r = 1 .. Len(s) - 1
      /\ \A i \in 1 .. Len(s) - 1 : r[i] = s[i]
  BY Shortened DEF Stacked
<1>2. r # <<>> => Len(r) > 0
  BY <1>1, EmptySeq DEF IsSequence
<1>3. \A k \in DOMAIN s : ActivationOK(s[k], new_pos) /\ (k < Len(s) => s[k].at # "start")
  BY DEF Stacked, ActivationOK
<1> HIDE DEF r
<1> QED
  BY <1>1, <1>2, <1>3 DEF Stacked, Waiting, r

\* A function is called.
LEMMA Called ==
  ASSUME NEW s, NEW pos \in Nat, Stacked(s, pos), Waiting(s),
         NEW a, ActivationOK(a, pos)
  PROVE  /\ Stacked(Append(s, a), pos)
         /\ a.at # "start" => Waiting(Append(s, a))
         /\ Append(s, a) # <<>>
<1> DEFINE t == Append(s, a)
<1>1. /\ IsSequence(t) /\ t # <<>> /\ Len(s) \in Nat /\ Len(t) = Len(s) + 1
      /\ DOMAIN s = 1 .. Len(s) /\ DOMAIN t = 1 .. Len(s) + 1
      /\ t[Len(s) + 1] = a /\ \A i \in 1 .. Len(s) : t[i] = s[i]
  BY Appended DEF Stacked
<1>2. s = <<>> => Len(s) = 0
  OBVIOUS
<1> HIDE DEF t
<1>3. Stacked(t, pos)
  BY <1>1, <1>2 DEF Stacked, Waiting
<1> QED
  BY <1>1, <1>3 DEF Waiting, t

\* The innermost activation changes, or is replaced.
LEMMA Replaced ==
  ASSUME NEW s, NEW pos \in Nat, Stacked(s, pos), s # <<>>,
         NEW a, ActivationOK(a, pos)
  PROVE  Stacked(Append(SubSeq(s, 1, Len(s) - 1), a), pos)
BY Popped, Called

\* The innermost activation calls another.
LEMMA Pushed ==
  ASSUME NEW s, NEW pos \in Nat, Stacked(s, pos), s # <<>>,
         NEW new_pos \in Nat, new_pos >= pos,
         NEW a, NEW b, ActivationOK(a, new_pos), ActivationOK(b, new_pos),
         a.at # "start"
  PROVE  /\ Stacked(SubSeq(s, 1, Len(s) - 1) \o <<a, b>>, new_pos)
         /\ SubSeq(s, 1, Len(s) - 1) \o <<a, b>> # <<>>
<1> DEFINE r == SubSeq(s, 1, Len(s) - 1)
           t == Append(r, a)
<1>1. Stacked(r, new_pos) /\ Waiting(r)
  BY Popped
<1>2. r \o <<a, b>> = Append(t, b)
  <2> DEFINE S == Range(r) \union {a, b}
  <2>1. r \in Seq(S)
    BY <1>1, SeqMonotonic DEF IsSequence, Stacked
  <2> HIDE DEF r
  <2> QED
    BY <2>1, AppendIsConcat, ConcatAssociative, AppendProperties
<1> HIDE DEF r
<1>3. Stacked(t, new_pos) /\ Waiting(t)
  BY <1>1, Called
<1> HIDE DEF t
<1>4. Stacked(Append(t, b), new_pos) /\ Append(t, b) # <<>>
  BY <1>3, Called
<1> QED
  BY <1>2, <1>4 DEF r

-----------------------------------------------------------------------------
(***************************************************************************)
(* The helper functions of the parser leave it at a token, never earlier.  *)
(***************************************************************************)
\* From the context c to the context d.
Onward(c, d) == InTokens(d) /\ d.pos >= c.pos

\* One step onward after another.
LEMMA OnwardTwice ==
  ASSUME NEW c, NEW d, NEW e, InTokens(c), Onward(c, d), Onward(d, e)
  PROVE  Onward(c, e)
<1>1. c.pos \in Nat /\ d.pos \in Nat /\ e.pos \in Nat
  BY DEF Onward, InTokens, ContextOK
<1> QED
  BY <1>1 DEF Onward

\* The last token is the end of the input: a token that is not is followed
\* by another.
LEMMA NotAtEnd ==
  ASSUME Ended, TokensOK, NEW c, InTokens(c),
         PeekToken(c) # "EOF"
  PROVE  c.pos + 1 < Len(token_array)
<1>1. Len(token_array) \in Nat
  BY LenProperties DEF IsSequence, TokensOK
<1>2. c.pos \in Nat /\ c.pos < Len(token_array)
  BY DEF InTokens, ContextOK
<1>3. token_array[Len(token_array)].type = "EOF"
  BY DEF Ended
<1> QED
  BY <1>1, <1>2, <1>3 DEF PeekToken

\* The same reports, further on, or as far and as lost.
LEMMA StaysSpread ==
  ASSUME TokensOK, NEW c, InTokens(c), NEW d, ContextOK(d), d.errors = c.errors,
         d.pos + d.lost_count >= c.pos + c.lost_count
  PROVE  SpreadOK(d)
<1>1. c.pos \in Nat /\ c.lost_count \in Nat /\ d.pos \in Nat /\ d.lost_count \in Nat
  BY DEF InTokens, ContextOK, RESYNC_TOKENS
<1>2. /\ IsSequence(d.errors)
      /\ \A i \in DOMAIN d.errors : Place(d.errors[i]) \in DOMAIN token_array
      /\ \A i \in DOMAIN d.errors : i > 1 =>
           Place(d.errors[i]) >= Place(d.errors[i - 1])
                                 + (IF d.errors[i].message = "OVERFLOW"
                                    THEN RESYNC_TOKENS - 1 ELSE RESYNC_TOKENS)
  BY DEF InTokens, SpreadOK
<1>3. ASSUME d.errors # <<>>
      PROVE  d.pos + 1 >= Place(d.errors[Len(d.errors)]) + RESYNC_TOKENS - d.lost_count
  <2> DEFINE last == Place(c.errors[Len(c.errors)])
  <2>1. Len(c.errors) \in DOMAIN c.errors
    BY <1>3, Shortened DEF InTokens, SpreadOK
  <2>2. last \in Nat
    BY <2>1, LenProperties DEF InTokens, SpreadOK, TokensOK, IsSequence
  <2>3. c.pos + 1 >= last + RESYNC_TOKENS - c.lost_count
    BY <1>3 DEF InTokens, SpreadOK
  <2> HIDE DEF last
  <2>4. d.pos + 1 >= last + RESYNC_TOKENS - d.lost_count
    BY <1>1, <2>2, <2>3 DEF RESYNC_TOKENS
  <2> QED
    BY <2>4 DEF last
<1> QED
  BY <1>2, <1>3 DEF SpreadOK

\* _Advance: a token on, and no more confident.
LEMMA AdvanceOnward ==
  ASSUME Ended, TokensOK, NEW c, InTokens(c),
         PeekToken(c) # "EOF"
  PROVE  Onward(c, Advance(c))
<1> DEFINE d == Advance(c)
<1>1. c.pos + 1 < Len(token_array) /\ c.pos \in Nat
      /\ c.lost_count \in 0 .. RESYNC_TOKENS
  BY NotAtEnd DEF InTokens, ContextOK
<1>2. DOMAIN d = DOMAIN c /\ d.pos = c.pos + 1 /\ d.lost_count = c.lost_count
      /\ d.errors = c.errors
  BY DEF InTokens, ContextOK, Advance
<1> HIDE DEF d
<1>3. ContextOK(d)
  BY <1>1, <1>2 DEF InTokens, ContextOK
<1>4. SpreadOK(d)
  BY <1>1, <1>2, <1>3, StaysSpread DEF RESYNC_TOKENS
<1>5. Onward(c, d)
  BY <1>1, <1>2, <1>3, <1>4 DEF Onward, InTokens
<1> QED
  BY <1>5 DEF d

\* A match: a token on, and a little less lost.
LEMMA MatchedOnward ==
  ASSUME Ended, TokensOK, NEW c, InTokens(c),
         PeekToken(c) # "EOF"
  PROVE  Onward(c, Matched(c))
<1> DEFINE d == Matched(c)
<1>1. c.pos + 1 < Len(token_array) /\ c.pos \in Nat
      /\ c.lost_count \in 0 .. RESYNC_TOKENS
  BY NotAtEnd DEF InTokens, ContextOK
<1>2. DOMAIN d = DOMAIN c /\ d.pos = c.pos + 1 /\ d.errors = c.errors
      /\ d.lost_count = (IF c.lost_count = 0 THEN 0 ELSE c.lost_count - 1)
  BY DEF InTokens, ContextOK, Advance, Matched
<1> HIDE DEF d
<1>3. d.lost_count \in 0 .. RESYNC_TOKENS
      /\ d.pos + d.lost_count >= c.pos + c.lost_count
  BY <1>1, <1>2 DEF RESYNC_TOKENS
<1>4. ContextOK(d)
  BY <1>1, <1>2, <1>3 DEF InTokens, ContextOK
<1>5. SpreadOK(d)
  BY <1>1, <1>2, <1>3, <1>4, StaysSpread
<1>6. Onward(c, d)
  BY <1>1, <1>2, <1>4, <1>5 DEF Onward, InTokens
<1> QED
  BY <1>6 DEF d

\* A report of a token is about that token.
LEMMA PlaceOfReport ==
  ASSUME TokensOK, NEW i \in DOMAIN token_array, NEW report,
         report.start_pos = token_array[i].start
  PROVE  Place(report) = i
<1>1. \A j \in DOMAIN token_array : token_array[j].start = report.start_pos => j = i
  <2>1. DOMAIN token_array \subseteq Nat
    BY LenProperties DEF TokensOK, IsSequence
  <2>2. \A j \in DOMAIN token_array : j < i \/ j = i \/ i < j
    BY <2>1
  <2> QED
    BY <2>2 DEF TokensOK
<1> QED
  BY <1>1 DEF Place

\* A report at pos, far enough from the last.
LEMMA ReportOnward ==
  ASSUME TokensOK, NEW c, InTokens(c), NEW pos \in 0 .. c.pos, NEW message,
         c.lost_count = 0 =>
           pos + RESYNC_TOKENS
             >= c.pos + (IF message = "OVERFLOW"
                         THEN RESYNC_TOKENS - 1 ELSE RESYNC_TOKENS)
  PROVE  Onward(c, SyntaxErrorToken(c, pos, message))
<1> DEFINE d == SyntaxErrorToken(c, pos, message)
           gap == IF message = "OVERFLOW" THEN RESYNC_TOKENS - 1 ELSE RESYNC_TOKENS
<1>1. c.pos \in Nat /\ c.lost_count \in 0 .. RESYNC_TOKENS /\ pos + 1 \in DOMAIN token_array
      /\ Len(token_array) \in Nat /\ DOMAIN token_array = 1 .. Len(token_array)
  BY LenProperties DEF InTokens, ContextOK, TokensOK, IsSequence
<1>2. DOMAIN d = DOMAIN c /\ d.pos = c.pos /\ d.lost_count = RESYNC_TOKENS
  BY DEF InTokens, ContextOK, SyntaxErrorToken
<1>3. ContextOK(d)
  BY <1>1, <1>2 DEF InTokens, ContextOK, RESYNC_TOKENS
<1>4. CASE c.lost_count # 0
  <2>1. d.errors = c.errors
    BY <1>4 DEF InTokens, ContextOK, SyntaxErrorToken
  <2> HIDE DEF d
  <2>2. SpreadOK(d)
    BY <1>1, <1>2, <1>3, <2>1, StaysSpread DEF RESYNC_TOKENS
  <2>3. Onward(c, d)
    BY <1>1, <1>2, <1>3, <2>2 DEF Onward, InTokens
  <2> QED
    BY <2>3 DEF d
<1>5. CASE c.lost_count = 0
  <2> DEFINE token == token_array[pos + 1]
             report == [start_pos |-> token.start,
                        end_pos |-> token.start + token.length,
                        message |-> message]
  <2>1. /\ report.start_pos = token_array[pos + 1].start
        /\ report.message = message
        /\ d.errors = Append(c.errors, report)
    BY <1>5 DEF InTokens, ContextOK, SyntaxErrorToken, AddError
  <2> HIDE DEF report
  <2>2. Place(report) = pos + 1
    BY <1>1, <2>1, PlaceOfReport
  <2> HIDE DEF d
  <2> DEFINE n == Len(c.errors)
  <2>3. /\ IsSequence(d.errors) /\ d.errors # <<>> /\ n \in Nat
        /\ Len(d.errors) = n + 1 /\ DOMAIN c.errors = 1 .. n
        /\ DOMAIN d.errors = 1 .. n + 1 /\ d.errors[n + 1] = report
        /\ \A i \in 1 .. n : d.errors[i] = c.errors[i]
    <3>1. IsSequence(c.errors)
      BY DEF InTokens, SpreadOK
    <3> QED
      BY <2>1, <3>1, Appended
  <2>4. \A i \in DOMAIN d.errors : Place(d.errors[i]) \in DOMAIN token_array
    BY <1>1, <2>2, <2>3 DEF InTokens, SpreadOK
  <2>5. n > 0 => Place(report) >= Place(c.errors[n]) + gap
    <3>1. n > 0 => c.errors # <<>>
      BY <2>3
    <3>2. n > 0 => c.pos + 1 >= Place(c.errors[n]) + RESYNC_TOKENS
      <4>1. n > 0 => c.pos + 1 >= Place(c.errors[n]) + RESYNC_TOKENS - c.lost_count
        BY <3>1 DEF InTokens, SpreadOK
      <4>2. n > 0 => Place(c.errors[n]) \in Nat
        BY <1>1, <2>3 DEF InTokens, SpreadOK
      <4> QED
        BY <1>1, <1>5, <4>1, <4>2 DEF RESYNC_TOKENS
    <3>3. n > 0 => Place(c.errors[n]) \in Nat
      BY <1>1, <2>3 DEF InTokens, SpreadOK
    <3>4. pos + 1 \in Nat /\ pos + RESYNC_TOKENS >= c.pos + gap
      BY <1>1, <1>5
    <3> QED
      BY <1>1, <2>2, <3>2, <3>3, <3>4 DEF RESYNC_TOKENS
  <2>6. ASSUME NEW i \in DOMAIN d.errors, i > 1
        PROVE  Place(d.errors[i]) >= Place(d.errors[i - 1])
                 + (IF d.errors[i].message = "OVERFLOW"
                    THEN RESYNC_TOKENS - 1 ELSE RESYNC_TOKENS)
    <3>1. CASE i = n + 1
      <4>1. n > 0 /\ i - 1 = n /\ d.errors[i - 1] = c.errors[n] /\ d.errors[i] = report
        BY <2>3, <2>6, <3>1
      <4> QED
        BY <2>1, <2>5, <4>1
    <3>2. CASE i \in 1 .. n
      <4>1. d.errors[i] = c.errors[i] /\ d.errors[i - 1] = c.errors[i - 1]
        BY <2>3, <2>6, <3>2
      <4> QED
        BY <2>3, <2>6, <3>2, <4>1 DEF InTokens, SpreadOK
    <3> QED
      BY <2>3, <2>6, <3>1, <3>2
  <2>7. d.pos + 1 >= Place(d.errors[Len(d.errors)]) + RESYNC_TOKENS - d.lost_count
    BY <1>1, <1>2, <2>2, <2>3 DEF RESYNC_TOKENS
  <2>8. SpreadOK(d)
    BY <2>3, <2>4, <2>6, <2>7 DEF SpreadOK
  <2>9. Onward(c, d)
    BY <1>1, <1>2, <1>3, <2>8 DEF Onward, InTokens
  <2> QED
    BY <2>9 DEF d
<1> QED
  BY <1>4, <1>5

\* _SyntaxError: the report is about the token the parser stands at.
LEMMA ErrorOnward ==
  ASSUME TokensOK, NEW c, InTokens(c), NEW message, message # "OVERFLOW"
  PROVE  Onward(c, SyntaxError(c, message))
<1>1. c.pos \in 0 .. c.pos /\ c.pos + RESYNC_TOKENS >= c.pos + RESYNC_TOKENS
  BY DEF InTokens, ContextOK, RESYNC_TOKENS
<1> QED
  BY <1>1, ReportOnward DEF SyntaxError

\* _Match and _Expect, for any token but the end of the input.
LEMMA MatchOnward ==
  ASSUME Ended, TokensOK, NEW c, InTokens(c),
         NEW type, type \notin {"EOF", "OVERFLOW"}
  PROVE  Onward(c, Match(c, type)) /\ Onward(c, Expect(c, type))
<1>1. Onward(c, c)
  BY DEF Onward, InTokens, ContextOK
<1>2. Onward(c, SyntaxError(c, type))
  BY ErrorOnward
<1>3. Check(c, type) => Onward(c, Matched(c))
  BY MatchedOnward DEF Check
<1> QED
  BY <1>1, <1>2, <1>3 DEF Match, Expect

\* _ParseSymbol, with the name there or missing.
LEMMA SymbolOnward ==
  ASSUME Ended, TokensOK, NEW c, InTokens(c)
  PROVE  Onward(c, ParseSymbol(c).context)
<1>1. CASE Check(c, "ID")
  <2> DEFINE d == [c EXCEPT !.symbols = FindOrCreateSymbol(c)]
  <2>1. DOMAIN d = DOMAIN c /\ d.pos = c.pos /\ d.lost_count = c.lost_count
        /\ d.errors = c.errors
    BY DEF InTokens, ContextOK
  <2>2. InTokens(d) /\ PeekToken(d) # "EOF"
    BY <1>1, <2>1 DEF InTokens, ContextOK, PeekToken, Check, SpreadOK
  <2> HIDE DEF d
  <2>3. Onward(d, Matched(d))
    BY <2>2, MatchedOnward
  <2>4. ParseSymbol(c).context = Matched(d)
    BY <1>1 DEF ParseSymbol, d
  <2> QED
    BY <2>1, <2>3, <2>4 DEF Onward
<1>2. CASE ~Check(c, "ID")
  BY <1>2, ErrorOnward DEF ParseSymbol
<1> QED
  BY <1>1, <1>2

-----------------------------------------------------------------------------
(***************************************************************************)
(* The steps of the parser: a call, a return, and a function that becomes  *)
(* another.                                                                *)
(***************************************************************************)
\* While a function runs, there are tokens and the parser stands at one.
LEMMA Innermost ==
  ASSUME FrontInv, calls # <<>>
  PROVE  /\ Ended /\ TokensOK
         /\ InTokens(context) /\ Onward(context, context)
         /\ ActivationOK(top, context.pos)
         /\ Stacked(calls, context.pos) /\ context.pos \in Nat
<1>1. Ended /\ TokensOK /\ ContextOK(context)
      /\ Stacked(calls, context.pos)
  BY DEF FrontInv, LexInv, ParseInv
<1>2. Len(token_array) > 0
  BY <1>1, EmptySeq, LenProperties DEF Ended, IsSequence, TokensOK
<1>3. InTokens(context) /\ Onward(context, context)
  BY <1>1, <1>2 DEF InTokens, Onward, FrontInv, ParseInv, ContextOK
<1>4. Len(calls) \in DOMAIN calls
  BY <1>1, Shortened DEF Stacked
<1> QED
  BY <1>1, <1>3, <1>4 DEF Stacked, top, ContextOK

\* The context is as good in the next state as in this one.
LEMMA Lands ==
  ASSUME FrontInv, calls # <<>>, UNCHANGED token_array,
         Onward(context, context')
  PROVE  /\ ContextOK(context)' /\ SpreadOK(context)' /\ Ended'
         /\ (context.pos < Len(token_array))'
<1>1. Ended
  BY Innermost
<1> QED
  BY <1>1 DEF Onward, InTokens, ContextOK, SpreadOK, Place, Ended

\* The innermost function returns.
LEMMA Returns ==
  ASSUME FrontInv, calls # <<>>, UNCHANGED token_array,
         Onward(context, context'), calls' = callers
  PROVE  ParseInv'
<1>1. Stacked(calls, context.pos) /\ context.pos \in Nat /\ Ended
  BY Innermost
<1>2. context'.pos \in Nat /\ context'.pos >= context.pos
      /\ ContextOK(context') /\ context'.pos < Len(token_array)
  BY DEF Onward, InTokens, ContextOK
<1>3. Stacked(calls', context'.pos) /\ Waiting(calls')
  BY <1>1, <1>2, Popped DEF callers
<1> QED
  BY <1>3, Lands DEF ParseInv

\* The innermost function calls another.
LEMMA Calls ==
  ASSUME FrontInv, calls # <<>>, UNCHANGED token_array,
         Onward(context, context'), ret' = None,
         NEW a, ActivationOK(a, context'.pos), a.at # "start",
         NEW b, ActivationOK(b, context'.pos),
         calls' = callers \o <<a, b>>
  PROVE  ParseInv'
<1>1. Stacked(calls, context.pos) /\ context.pos \in Nat /\ Ended
  BY Innermost
<1>2. context'.pos \in Nat /\ context'.pos >= context.pos
      /\ ContextOK(context') /\ context'.pos < Len(token_array)
  BY DEF Onward, InTokens, ContextOK
<1>3. Stacked(calls', context'.pos)
  BY <1>1, <1>2, Pushed DEF callers
<1> QED
  BY <1>3, Lands DEF ParseInv

\* The innermost function is replaced by another, or goes on.
LEMMA Becomes ==
  ASSUME FrontInv, calls # <<>>, UNCHANGED token_array,
         Onward(context, context'), ret' = None,
         NEW a, ActivationOK(a, context'.pos),
         calls' = Append(callers, a)
  PROVE  ParseInv'
<1>1. Stacked(calls, context.pos) /\ context.pos \in Nat /\ Ended
  BY Innermost
<1>2. context'.pos \in Nat /\ context'.pos >= context.pos
      /\ ContextOK(context') /\ context'.pos < Len(token_array)
  BY DEF Onward, InTokens, ContextOK
<1>3. Stacked(callers, context'.pos) /\ Waiting(callers)
  BY <1>1, <1>2, Popped DEF callers
<1>4. Stacked(calls', context'.pos)
  BY <1>2, <1>3, Called
<1> QED
  BY <1>4, Lands DEF ParseInv

\* A new activation, at a position of the parser.
LEMMA NewActivation ==
  ASSUME NEW fn, NEW pos \in Nat
  PROVE  ActivationOK(Activation(fn), pos)
BY DEF ActivationOK, Activation

\* Each step of the parser keeps it at a token, and the activations where
\* their functions wait.
LEMMA ParseKeeps ==
  ASSUME FrontInv, ParseNext, UNCHANGED lexvars
  PROVE  ParseInv'
<1>1. UNCHANGED token_array
  BY DEF lexvars
<1>2. calls # <<>>
  BY DEF ParseNext, Running, Starting, ParseLet, ParseLetBody, FinishLet, ParseIf,
     ParseIfThen, ParseIfElse, FinishIf, ParseFn, FinishFn, ParseComparison,
     ParseLeft, ParseRight, FinishLevel, ParseUnary, FinishUnary,
     ParseApplication, ParseArgument, FinishApplication, ParseBoolean,
     ParseInteger, ParseIdentifier, ParseNothing, ParseParen, ParseParenTuple,
     FinishParen, ParseElement, ParseTupleNext, FinishTuple, FinishTupleNext
<1>3. /\ Ended /\ TokensOK
      /\ InTokens(context) /\ Onward(context, context)
      /\ ActivationOK(top, context.pos)
      /\ Stacked(calls, context.pos) /\ context.pos \in Nat
  BY <1>2, Innermost
\* What the innermost activation becomes when it calls another.
<1>4. ASSUME NEW a, ActivationOK(a, context.pos), Onward(context, context')
      PROVE  ActivationOK(a, context'.pos)
  BY <1>3, <1>4 DEF ActivationOK, Onward, InTokens, ContextOK
<1>5. ASSUME NEW fn, Onward(context, context')
      PROVE  ActivationOK(Activation(fn), context'.pos)
  BY <1>5, NewActivation DEF Onward, InTokens, ContextOK
<1>6. ASSUME PeekToken(context) # "EOF"
      PROVE  Onward(context, Matched(context)) /\ Onward(context, Advance(context))
  BY <1>3, <1>6, MatchedOnward, AdvanceOnward
<1>7. ASSUME NEW type, type \notin {"EOF", "OVERFLOW"}
      PROVE  Onward(context, Expect(context, type))
  BY <1>3, <1>7, MatchOnward
<1>8. CASE FinishLet \/ FinishIf \/ FinishFn \/ FinishUnary
         \/ FinishApplication \/ FinishLevel \/ FinishTuple \/ FinishTupleNext
  <2>1. context' = context /\ calls' = callers
    BY <1>8 DEF Return, FinishLet, FinishIf, FinishFn, FinishUnary, FinishApplication, FinishLevel, FinishTuple, FinishTupleNext
  <2> QED
    BY <1>1, <1>2, <1>3, <2>1, Returns
<1>9. CASE ParseLet
  <2> DEFINE a == [top EXCEPT !.fn = "Let", !.at = "value", !.token_pos = context.pos,
                      !.variable = ParseSymbol(Match(Matched(context), "REC")).symbol,
                      !.is_let_rec = Check(Matched(context), "REC")]
  <2>1. PICK fn : calls' = callers \o <<a, Activation(fn)>> /\ ret' = None
    BY <1>9 DEF CallFrom, ParseLet
  <2>2. Onward(context, context')
    <3> DEFINE b == Matched(context)
               c == Match(b, "REC")
               d == ParseSymbol(c).context
    <3>1. Onward(context, b)
      BY <1>9, <1>6 DEF ParseLet, Check
    <3>2. Onward(b, c)
      BY <1>3, <3>1, MatchOnward DEF Onward
    <3>3. Onward(c, d)
      BY <1>3, <3>2, SymbolOnward DEF Onward
    <3>4. Onward(d, Expect(d, "EQUALS"))
      BY <1>3, <3>3, MatchOnward DEF Onward
    <3>5. context' = Expect(d, "EQUALS")
      BY <1>9 DEF ParseLet
    <3> HIDE DEF b, c, d
    <3>6. Onward(context, d)
      BY <1>3, <3>1, <3>2, <3>3, OnwardTwice DEF Onward
    <3> QED
      BY <1>3, <3>4, <3>5, <3>6, OnwardTwice DEF Onward
  <2>3. ActivationOK(a, context'.pos) /\ a.at # "start"
    BY <1>3, <2>2 DEF ActivationOK, Onward, InTokens, ContextOK
  <2> HIDE DEF a
  <2> QED
    BY <1>1, <1>2, <1>5, <2>1, <2>2, <2>3, Calls
<1>10. CASE ParseLetBody
  <2> DEFINE a == [top EXCEPT !.at = "body", !.kept = <<ret>>]
  <2>1. PICK fn : calls' = callers \o <<a, Activation(fn)>> /\ ret' = None
    BY <1>10 DEF CallFrom, ParseLetBody
  <2>2. Onward(context, context')
    BY <1>10, <1>7 DEF ParseLetBody
  <2>3. ActivationOK(a, context'.pos) /\ a.at # "start"
    BY <1>3, <1>4, <2>2 DEF ActivationOK
  <2> HIDE DEF a
  <2> QED
    BY <1>1, <1>2, <1>5, <2>1, <2>2, <2>3, Calls
<1>11. CASE ParseIf
  <2> DEFINE a == [top EXCEPT !.fn = "If", !.at = "test", !.token_pos = context.pos]
  <2>1. PICK fn : calls' = callers \o <<a, Activation(fn)>> /\ ret' = None
    BY <1>11 DEF CallFrom, ParseIf
  <2>2. Onward(context, context')
    BY <1>11, <1>6 DEF ParseIf, Check
  <2>3. ActivationOK(a, context'.pos) /\ a.at # "start"
    BY <1>3, <2>2 DEF ActivationOK, Onward, InTokens, ContextOK
  <2> HIDE DEF a
  <2> QED
    BY <1>1, <1>2, <1>5, <2>1, <2>2, <2>3, Calls
<1>12. CASE ParseIfThen
  <2> DEFINE a == [top EXCEPT !.at = "then", !.kept = <<ret>>]
  <2>1. PICK fn : calls' = callers \o <<a, Activation(fn)>> /\ ret' = None
    BY <1>12 DEF CallFrom, ParseIfThen
  <2>2. Onward(context, context')
    BY <1>12, <1>7 DEF ParseIfThen
  <2>3. ActivationOK(a, context'.pos) /\ a.at # "start"
    BY <1>3, <1>4, <2>2 DEF ActivationOK
  <2> HIDE DEF a
  <2> QED
    BY <1>1, <1>2, <1>5, <2>1, <2>2, <2>3, Calls
<1>13. CASE ParseIfElse
  <2> DEFINE a == [top EXCEPT !.at = "else", !.kept = Append(@, ret)]
  <2>1. PICK fn : calls' = callers \o <<a, Activation(fn)>> /\ ret' = None
    BY <1>13 DEF CallFrom, ParseIfElse
  <2>2. Onward(context, context')
    BY <1>13, <1>7 DEF ParseIfElse
  <2>3. ActivationOK(a, context'.pos) /\ a.at # "start"
    BY <1>3, <1>4, <2>2 DEF ActivationOK
  <2> HIDE DEF a
  <2> QED
    BY <1>1, <1>2, <1>5, <2>1, <2>2, <2>3, Calls
<1>14. CASE ParseFn
  <2> DEFINE a == [top EXCEPT !.fn = "Fn", !.at = "body", !.token_pos = context.pos,
                      !.variable = ParseSymbol(Matched(context)).symbol]
  <2>1. PICK fn : calls' = callers \o <<a, Activation(fn)>> /\ ret' = None
    BY <1>14 DEF CallFrom, ParseFn
  <2>2. Onward(context, context')
    <3> DEFINE b == Matched(context)
               d == ParseSymbol(b).context
    <3>1. Onward(context, b)
      BY <1>14, <1>6 DEF ParseFn, Check
    <3>2. Onward(b, d)
      BY <1>3, <3>1, SymbolOnward DEF Onward
    <3>3. Onward(d, Expect(d, "ARROW"))
      BY <1>3, <3>2, MatchOnward DEF Onward
    <3>4. context' = Expect(d, "ARROW")
      BY <1>14 DEF ParseFn
    <3> HIDE DEF b, d
    <3>5. Onward(context, d)
      BY <1>3, <3>1, <3>2, OnwardTwice
    <3> QED
      BY <1>3, <3>3, <3>4, <3>5, OnwardTwice
  <2>3. ActivationOK(a, context'.pos) /\ a.at # "start"
    BY <1>3, <2>2 DEF ActivationOK, Onward, InTokens, ContextOK
  <2> HIDE DEF a
  <2> QED
    BY <1>1, <1>2, <1>5, <2>1, <2>2, <2>3, Calls
<1>15. CASE ParseLeft
  <2> DEFINE a == [top EXCEPT !.at = "left"]
  <2>1. PICK fn : calls' = callers \o <<a, Activation(fn)>> /\ ret' = None
    BY <1>15 DEF CallFrom, ParseLeft
  <2>2. Onward(context, context')
    BY <1>15, <1>3 DEF ParseLeft
  <2>3. ActivationOK(a, context'.pos) /\ a.at # "start"
    BY <1>3, <1>4, <2>2 DEF ActivationOK
  <2> HIDE DEF a
  <2> QED
    BY <1>1, <1>2, <1>5, <2>1, <2>2, <2>3, Calls
<1>16. CASE ParseRight
  <2> DEFINE a == [top EXCEPT !.at = "right", !.operator = PeekToken(context),
                      !.kept = <<Joined>>]
  <2>1. PICK fn : calls' = callers \o <<a, Activation(fn)>> /\ ret' = None
    BY <1>16 DEF CallFrom, ParseRight
  <2>2. Onward(context, context')
    BY <1>16, <1>6 DEF ParseRight, MatchOperator, Operators, Level
  <2>3. ActivationOK(a, context'.pos) /\ a.at # "start"
    BY <1>3, <1>4, <2>2 DEF ActivationOK
  <2> HIDE DEF a
  <2> QED
    BY <1>1, <1>2, <1>5, <2>1, <2>2, <2>3, Calls
<1>17. CASE ParseUnary
  <2> DEFINE a == [top EXCEPT !.at = "operand", !.token_pos = context.pos,
                      !.operator = PeekToken(context)]
  <2>1. PICK fn : calls' = callers \o <<a, Activation(fn)>> /\ ret' = None
    BY <1>17 DEF CallFrom, ParseUnary
  <2>2. Onward(context, context')
    BY <1>17, <1>6 DEF ParseUnary
  <2>3. ActivationOK(a, context'.pos) /\ a.at # "start"
    BY <1>3, <2>2 DEF ActivationOK, Onward, InTokens, ContextOK
  <2> HIDE DEF a
  <2> QED
    BY <1>1, <1>2, <1>5, <2>1, <2>2, <2>3, Calls
<1>18. CASE ParseApplication
  <2> DEFINE a == [top EXCEPT !.fn = "Application", !.at = "function"]
  <2>1. PICK fn : calls' = callers \o <<a, Activation(fn)>> /\ ret' = None
    BY <1>18 DEF CallFrom, ParseApplication
  <2>2. Onward(context, context')
    BY <1>18, <1>3 DEF ParseApplication
  <2>3. ActivationOK(a, context'.pos) /\ a.at # "start"
    BY <1>3, <1>4, <2>2 DEF ActivationOK
  <2> HIDE DEF a
  <2> QED
    BY <1>1, <1>2, <1>5, <2>1, <2>2, <2>3, Calls
<1>19. CASE ParseArgument
  <2> DEFINE a == [top EXCEPT !.at = "argument", !.kept = <<Applied>>]
  <2>1. PICK fn : calls' = callers \o <<a, Activation(fn)>> /\ ret' = None
    BY <1>19 DEF CallFrom, ParseArgument
  <2>2. Onward(context, context')
    BY <1>19, <1>3 DEF ParseArgument
  <2>3. ActivationOK(a, context'.pos) /\ a.at # "start"
    BY <1>3, <1>4, <2>2 DEF ActivationOK
  <2> HIDE DEF a
  <2> QED
    BY <1>1, <1>2, <1>5, <2>1, <2>2, <2>3, Calls
<1>20. CASE ParseParen
  <2> DEFINE a == [top EXCEPT !.at = "expr"]
  <2>1. PICK fn : calls' = callers \o <<a, Activation(fn)>> /\ ret' = None
    BY <1>20 DEF CallFrom, ParseParen
  <2>2. Onward(context, context')
    BY <1>20, <1>6 DEF ParseParen, Check
  <2>3. ActivationOK(a, context'.pos) /\ a.at # "start"
    BY <1>3, <1>4, <2>2 DEF ActivationOK
  <2> HIDE DEF a
  <2> QED
    BY <1>1, <1>2, <1>5, <2>1, <2>2, <2>3, Calls
<1>21. CASE ParseElement
  <2> DEFINE a == [top EXCEPT !.at = "car"]
  <2>1. PICK fn : calls' = callers \o <<a, Activation(fn)>> /\ ret' = None
    BY <1>21 DEF CallFrom, ParseElement
  <2>2. Onward(context, context')
    BY <1>21, <1>3 DEF ParseElement
  <2>3. ActivationOK(a, context'.pos) /\ a.at # "start"
    BY <1>3, <1>4, <2>2 DEF ActivationOK
  <2> HIDE DEF a
  <2> QED
    BY <1>1, <1>2, <1>5, <2>1, <2>2, <2>3, Calls
<1>22. CASE ParseComparison
  <2>1. context' = context /\ ret' = None
        /\ calls' = Append(callers, Activation("Comparison"))
    BY <1>22 DEF ParseComparison, Become
  <2> QED
    BY <1>1, <1>2, <1>3, <1>5, <2>1, Becomes
<1>23. CASE ParseBoolean
  <2>1. Onward(context, context') /\ calls' = callers
    BY <1>23, <1>6 DEF ParseBoolean, Return
  <2> QED
    BY <1>1, <1>2, <2>1, Returns
<1>24. CASE FinishParen
  <2>1. Onward(context, context') /\ calls' = callers
    BY <1>24, <1>7 DEF FinishParen, Return
  <2> QED
    BY <1>1, <1>2, <2>1, Returns
<1>25. CASE ParseNothing
  <2>1. Onward(context, context') /\ calls' = callers
    BY <1>25, <1>3, ErrorOnward DEF ParseNothing, Return
  <2> QED
    BY <1>1, <1>2, <2>1, Returns
<1>26. CASE ParseIdentifier
  <2>1. Onward(context, context') /\ calls' = callers
    BY <1>26, <1>3, SymbolOnward DEF ParseIdentifier, Return
  <2> QED
    BY <1>1, <1>2, <2>1, Returns
<1>27. CASE ParseInteger
  <2> DEFINE b == Matched(context)
             d == SyntaxErrorToken(b, context.pos, "OVERFLOW")
  <2>1. calls' = callers /\ context' \in {b, d}
    BY <1>27 DEF ParseInteger, Return
  <2>2. Onward(context, b)
    BY <1>27, <1>6 DEF ParseInteger, Check
  <2>3. Onward(b, d)
    <3>1. b.pos = context.pos + 1
      BY <1>3 DEF InTokens, ContextOK, Matched, Advance
    <3>2. context.pos \in 0 .. b.pos
          /\ context.pos + RESYNC_TOKENS >= b.pos + (RESYNC_TOKENS - 1)
      BY <1>3, <3>1 DEF RESYNC_TOKENS
    <3> QED
      BY <1>3, <2>2, <3>2, ReportOnward DEF Onward
  <2> HIDE DEF b, d
  <2>4. Onward(context, d)
    BY <1>3, <2>2, <2>3, OnwardTwice
  <2> QED
    BY <1>1, <1>2, <2>1, <2>2, <2>4, Returns
<1>28. CASE ParseTupleNext
  <2> DEFINE a == [Activation("TupleNext") EXCEPT !.at = "rest", !.kept = <<ret>>]
  <2>1. calls' = callers \o <<a, Activation("Tuple")>> /\ ret' = None
    BY <1>28 DEF CallFrom, ParseTupleNext
  <2>2. Onward(context, context')
    BY <1>28, <1>6 DEF ParseTupleNext, Check
  <2>3. ActivationOK(a, context'.pos) /\ a.at # "start"
    BY <2>2 DEF ActivationOK, Activation, Onward, InTokens, ContextOK
  <2> HIDE DEF a
  <2> QED
    BY <1>1, <1>2, <1>5, <2>1, <2>2, <2>3, Calls
<1>29. CASE ParseParenTuple
  <2> DEFINE a == [top EXCEPT !.at = "tuple"]
             b == [Activation("TupleNext") EXCEPT !.at = "rest", !.kept = <<ret>>]
             c == Activation("Tuple")
  <2>1. calls' = callers \o <<a, b, c>> /\ ret' = None
    BY <1>29 DEF ParseParenTuple
  <2>2. Onward(context, context')
    BY <1>29, <1>6 DEF ParseParenTuple, Check
  <2>3. ActivationOK(a, context'.pos) /\ a.at # "start"
    BY <1>3, <1>4, <2>2 DEF ActivationOK
  <2>4. ActivationOK(b, context'.pos) /\ b.at # "start"
    BY <2>2 DEF ActivationOK, Activation, Onward, InTokens, ContextOK
  <2>5. ActivationOK(c, context'.pos)
    BY <1>5, <2>2
  <2> HIDE DEF a, b, c
  <2>6. context'.pos \in Nat /\ context'.pos >= context.pos
        /\ ContextOK(context') /\ context'.pos < Len(token_array)
    BY <2>2 DEF Onward, InTokens, ContextOK
  <2>7. Stacked(callers, context'.pos) /\ Waiting(callers)
    BY <1>2, <1>3, <2>6, Popped DEF callers
  <2>8. callers \o <<a, b, c>> = Append(Append(Append(callers, a), b), c)
    <3> DEFINE S == Range(callers) \union {a, b, c}
    <3>1. callers \in Seq(S)
      BY <2>7, SeqMonotonic DEF IsSequence, Stacked
    <3> QED
      BY <3>1, AppendIsConcat, ConcatAssociative, AppendProperties
  <2>9. Stacked(Append(callers, a), context'.pos) /\ Waiting(Append(callers, a))
    BY <2>3, <2>6, <2>7, Called
  <2>10. Stacked(Append(Append(callers, a), b), context'.pos)
         /\ Waiting(Append(Append(callers, a), b))
    BY <2>4, <2>6, <2>9, Called
  <2>11. Stacked(calls', context'.pos)
    BY <2>1, <2>5, <2>6, <2>8, <2>10, Called
  <2> QED
    BY <1>1, <1>2, <2>1, <2>2, <2>11, Lands DEF ParseInv
<1> QED
  BY <1>8, <1>9, <1>10, <1>11, <1>12, <1>13, <1>14, <1>15, <1>16, <1>17, <1>18, <1>19, <1>20, <1>21, <1>22, <1>23, <1>24, <1>25, <1>26, <1>27, <1>28, <1>29 DEF ParseNext

-----------------------------------------------------------------------------
(***************************************************************************)
(* The rounds of the scanner keep it and its tokens within the text.       *)
(***************************************************************************)
\* No keyword is empty.
LEMMA KeywordLengths ==
  ASSUME NEW type \in Keyword
  PROVE  Len(Keywords[type]) \in Nat \ {0}
<1>1. CASE type = "ELSE"
  BY <1>1 DEF Keyword, Keywords
<1>2. CASE type = "FALSE"
  BY <1>2 DEF Keyword, Keywords
<1>3. CASE type = "FN"
  BY <1>3 DEF Keyword, Keywords
<1>4. CASE type = "IF"
  BY <1>4 DEF Keyword, Keywords
<1>5. CASE type = "IN"
  BY <1>5 DEF Keyword, Keywords
<1>6. CASE type = "LET"
  BY <1>6 DEF Keyword, Keywords
<1>7. CASE type = "REC"
  BY <1>7 DEF Keyword, Keywords
<1>8. CASE type = "THEN"
  BY <1>8 DEF Keyword, Keywords
<1>9. CASE type = "TRUE"
  BY <1>9 DEF Keyword, Keywords
<1> QED
  BY <1>1, <1>2, <1>3, <1>4, <1>5, <1>6, <1>7, <1>8, <1>9 DEF Keyword

\* What a round leaves as it found it.
LEMMA SameText ==
  ASSUME LexInv, UNCHANGED buffer
  PROVE  /\ Length \in Nat /\ Length' = Length /\ Fault' = Fault
         /\ Fault = Length + 2
         /\ \A p : At(p)' = At(p)
BY DEF LexInv, Length, Fault, At

\* A new token comes behind those there are, within the text.
LEMMA TokenFits ==
  ASSUME LexInv, UNCHANGED buffer, ~Ended, NEW type,
         NEW start \in Nat, NEW length \in Nat, start + length \in 0 .. Length,
         start >= ptr \/ start = Length, ptr' \in Nat,
         token_array' = ArrayListAdd(token_array,
                          [type |-> type, start |-> start, length |-> length]),
         Ended' \/ (start + length <= ptr' /\ length > 0 /\ ptr' >= ptr)
  PROVE  /\ TokensOK'
         /\ Len(token_array') >= Len(token_array)
         /\ Len(token_array') \in Nat
         /\ \A i \in DOMAIN token_array' :
              /\ token_array'[i].start + token_array'[i].length \in 0 .. Length
              /\ Ended' \/ (token_array'[i].start < ptr' /\ token_array'[i].start < Length)
<1> DEFINE e == [type |-> type, start |-> start, length |-> length]
<1>1. /\ IsSequence(token_array') /\ Len(token_array) \in Nat
      /\ Len(token_array') = Len(token_array) + 1
      /\ DOMAIN token_array = 1 .. Len(token_array)
      /\ DOMAIN token_array' = 1 .. Len(token_array) + 1
      /\ \A i \in 1 .. Len(token_array) : token_array'[i] = token_array[i]
      /\ token_array'[Len(token_array) + 1] = e
  BY Appended DEF LexInv, TokensOK, ArrayListAdd
<1>2. e.start + e.length \in 0 .. Length /\ e.start = start /\ e.length = length
  OBVIOUS
<1>3. Length \in Nat /\ ptr \in Nat
  BY SameText DEF LexInv
<1> HIDE DEF e
<1>4. ASSUME NEW i \in DOMAIN token_array
      PROVE  /\ token_array[i].start \in Nat /\ token_array[i].start < start
             /\ token_array[i].start + token_array[i].length \in 0 .. Length
             /\ token_array[i].start < ptr /\ token_array[i].start < Length
  BY <1>3 DEF LexInv, TokensOK
<1>5. ASSUME NEW i \in DOMAIN token_array'
      PROVE  /\ token_array'[i].start \in Nat
             /\ token_array'[i].start + token_array'[i].length \in 0 .. Length
             /\ Ended' \/ (token_array'[i].start < ptr' /\ token_array'[i].start < Length)
  <2>1. CASE i = Len(token_array) + 1
    BY <1>1, <1>2, <1>3, <2>1
  <2>2. CASE i \in DOMAIN token_array
    BY <1>1, <1>3, <1>4, <2>2
  <2> QED
    BY <1>1, <1>5, <2>1, <2>2
<1>6. ASSUME NEW i \in DOMAIN token_array', NEW j \in DOMAIN token_array', i < j
      PROVE  token_array'[i].start < token_array'[j].start
  <2>1. CASE j = Len(token_array) + 1
    <3>1. i \in DOMAIN token_array
      BY <1>1, <1>6, <2>1
    <3> QED
      BY <1>1, <1>2, <1>4, <2>1, <3>1
  <2>2. CASE j \in DOMAIN token_array
    <3>1. i \in DOMAIN token_array
      BY <1>1, <1>6, <2>2
    <3>2. token_array[i].start < token_array[j].start
      BY <1>6, <2>2, <3>1 DEF LexInv, TokensOK
    <3> QED
      BY <1>1, <2>2, <3>1, <3>2
  <2> QED
    BY <1>1, <1>6, <2>1, <2>2
<1> QED
  BY <1>1, <1>5, <1>6 DEF TokensOK

\* Tokens only come to those there are.
Longer == Len(token_array) \in Nat /\ Len(token_array') \in Nat
          /\ Len(token_array') >= Len(token_array)

\* _AddToken.
LEMMA AddTokenKeeps ==
  ASSUME LexInv, Scanning, NEW type, NEW length \in Nat \ {0},
         ptr + length <= Length, AddToken(type, length)
  PROVE  LexInv' /\ Longer
<1>1. UNCHANGED buffer /\ UNCHANGED line_array /\ error_start' = UINT_MAX
      /\ ptr' = ptr + length /\ ~Ended /\ ptr < Length
  BY DEF Scanning, AddToken, NoErrorNow
<1>2. /\ Length \in Nat /\ Length' = Length /\ Fault' = Fault
      /\ Fault = Length + 2 /\ \A p : At(p)' = At(p)
  BY <1>1, SameText
<1>3. ptr \in Nat /\ ptr + length \in 0 .. Length /\ ptr' \in Nat /\ ptr' >= ptr
  BY <1>1, <1>2 DEF LexInv
<1>4. /\ TokensOK' /\ Len(token_array') >= Len(token_array)
      /\ Len(token_array') \in Nat
      /\ \A i \in DOMAIN token_array' :
           /\ token_array'[i].start + token_array'[i].length \in 0 .. Length
           /\ Ended' \/ (token_array'[i].start < ptr' /\ token_array'[i].start < Length)
  <2>1. length \in Nat /\ length > 0 /\ ptr + length <= ptr' /\ ptr >= ptr
    BY <1>1, <1>3
  <2> QED
    BY <1>1, <1>3, <2>1, TokenFits DEF AddToken
<1>5. ptr' \in 0 .. Fault' /\ error_start' \in UINT_MAX .. Length'
  BY <1>1, <1>2, <1>3 DEF UINT_MAX
<1>6. Len(token_array) \in Nat
  BY LenProperties DEF LexInv, IsSequence, TokensOK
<1> QED
  BY <1>1, <1>2, <1>4, <1>5, <1>6 DEF LexInv, Longer

\* The tokens are good in the next state.
TokensInTextThen ==
  /\ TokensOK'
  /\ \A i \in DOMAIN token_array' :
       /\ token_array'[i].start + token_array'[i].length \in 0 .. Length
       /\ Ended' \/ (token_array'[i].start < ptr' /\ token_array'[i].start < Length)

\* They are when the scanner moves on without making one.
LEMMA TokensStay ==
  ASSUME LexInv, UNCHANGED <<buffer, token_array>>, ptr' \in ptr .. Fault
  PROVE  TokensInTextThen
<1>1. TokensOK' /\ Ended' = Ended /\ Fault \in Nat
  BY SameText DEF LexInv, TokensOK, Ended
<1>2. ptr' >= ptr /\ ptr \in Nat /\ ptr' \in Nat
  BY <1>1 DEF LexInv
<1>3. ASSUME NEW i \in DOMAIN token_array
      PROVE  /\ token_array[i].start + token_array[i].length \in 0 .. Length
             /\ Ended \/ (token_array[i].start < ptr' /\ token_array[i].start < Length)
  BY <1>2 DEF LexInv, TokensOK
<1> QED
  BY <1>1, <1>3 DEF TokensInTextThen

\* A round that makes no token.
LEMMA SkipKeeps ==
  ASSUME LexInv, UNCHANGED <<buffer, token_array>>, ptr' \in ptr .. Fault,
         error_start' \in UINT_MAX .. Length, UNCHANGED line_array
  PROVE  LexInv' /\ Longer
<1>1. /\ Length \in Nat /\ Length' = Length /\ Fault' = Fault
      /\ Fault = Length + 2 /\ \A p : At(p)' = At(p)
  BY SameText
<1>2. Len(token_array) \in Nat
  BY LenProperties DEF LexInv, IsSequence, TokensOK
<1>3. TokensInTextThen
  BY TokensStay
<1>4. ptr' \in 0 .. Fault
  BY <1>1 DEF LexInv
<1> QED
  BY <1>1, <1>2, <1>3, <1>4 DEF LexInv, Longer, TokensInTextThen

\* Each round of LexBuffer keeps the tokens, the lines and the position.
LEMMA LexKeeps ==
  ASSUME LexInv, LexNext
  PROVE  LexInv' /\ Longer
<1>1. UNCHANGED buffer
  BY DEF LexNext, Scanning, ScanSign, ScanEquals, ScanBlank, ScanNewline,
     ScanComment, ScanOpenComment, ScanKeyword, ScanIdentifier, ScanInteger,
     ScanUnexpected, FinishLexing
<1>2. /\ Length \in Nat /\ Length' = Length /\ Fault' = Fault
      /\ Fault = Length + 2 /\ Astray = Length + 1 /\ \A p : At(p)' = At(p)
  BY <1>1, SameText DEF Astray
<1>3. ptr \in 0 .. Fault /\ error_start \in UINT_MAX .. Length
  BY DEF LexInv
<1>4. ASSUME NoErrorNow PROVE error_start' \in UINT_MAX .. Length
  <2>1. error_start' = UINT_MAX
    BY <1>4 DEF NoErrorNow
  <2> QED
    BY <1>2, <2>1 DEF UINT_MAX
<1>5. CASE ScanSign
  BY <1>2, <1>3, <1>5, AddTokenKeeps DEF ScanSign, Scanning
<1>6. CASE ScanEquals
  <2>1. At(ptr + 1) = ">" => ptr + 2 <= Length
    BY <1>2, <1>3 DEF At, NUL
  <2> QED
    BY <1>2, <1>3, <1>6, <2>1, AddTokenKeeps DEF ScanEquals, Scanning
<1>7. CASE ScanBlank
  BY <1>1, <1>2, <1>3, <1>4, <1>7, SkipKeeps DEF ScanBlank, Scanning, Skip
<1>8. CASE ScanNewline
  <2>1. UNCHANGED token_array /\ ptr' = ptr + 1 /\ ptr < Length
        /\ error_start' \in UINT_MAX .. Length /\ At(ptr) = "\n"
        /\ line_array' = Append(line_array, ptr)
    BY <1>4, <1>8 DEF ScanNewline, Scanning, Skip, ArrayListAdd
  <2>2. /\ IsSequence(line_array') /\ Len(line_array) \in Nat
        /\ DOMAIN line_array = 1 .. Len(line_array)
        /\ DOMAIN line_array' = 1 .. Len(line_array) + 1
        /\ \A i \in 1 .. Len(line_array) : line_array'[i] = line_array[i]
        /\ line_array'[Len(line_array) + 1] = ptr
    BY <2>1, Appended DEF LexInv
  <2>3. \A i \in DOMAIN line_array' : At(line_array'[i]) = "\n"
    BY <2>1, <2>2 DEF LexInv
  <2>4. Len(token_array) \in Nat
    BY LenProperties DEF LexInv, IsSequence, TokensOK
  <2>5. (\A i \in DOMAIN line_array : At(line_array[i]) = "\n")'
    BY <1>1, <2>3 DEF At, Length
  <2>6. ptr' \in ptr .. Fault
    BY <1>2, <1>3, <2>1
  <2>7. TokensInTextThen
    BY <1>1, <2>1, <2>6, TokensStay
  <2>8. (ptr \in 0 .. Fault)' /\ (error_start \in UINT_MAX .. Length)'
    BY <1>2, <1>3, <2>1 DEF UINT_MAX
  <2> QED
    BY <1>1, <1>2, <2>1, <2>2, <2>4, <2>5, <2>7, <2>8
    DEF LexInv, Longer, TokensInTextThen
<1>9. CASE ScanComment
  BY <1>1, <1>2, <1>3, <1>4, <1>9, SkipKeeps DEF ScanComment, Scanning, Skip
<1>10. CASE ScanOpenComment
  BY <1>1, <1>2, <1>3, <1>4, <1>10, SkipKeeps DEF ScanOpenComment, Scanning, Skip
<1>11. CASE ScanKeyword
  <2>1. PICK type \in Keyword : /\ ptr + Len(Keywords[type]) <= Length
                                /\ AddToken(type, Len(Keywords[type]))
    BY <1>11 DEF ScanKeyword, IsKeyword, Spelled
  <2> QED
    BY <1>11, <2>1, KeywordLengths, AddTokenKeeps DEF ScanKeyword
<1>12. CASE ScanIdentifier \/ ScanInteger
  <2>1. PICK type \in {"ID", "INT_LITERAL"}, end \in ptr + 1 .. Length :
               Scanning /\ AddToken(type, end - ptr)
    <3>1. CASE ScanIdentifier
      BY <3>1 DEF ScanIdentifier
    <3>2. CASE ScanInteger
      BY <3>2 DEF ScanInteger
    <3> QED
      BY <1>12, <3>1, <3>2
  <2>2. end - ptr \in Nat \ {0} /\ ptr + (end - ptr) <= Length
    BY <1>2, <1>3, <2>1
  <2> QED
    BY <2>1, <2>2, AddTokenKeeps
<1>13. CASE ScanUnexpected
  <2>1. error_start' \in UINT_MAX .. Length
    BY <1>2, <1>3, <1>13 DEF ScanUnexpected, ErrorNow, Scanning, UINT_MAX
  <2> QED
    BY <1>1, <1>2, <1>3, <1>13, <2>1, SkipKeeps DEF ScanUnexpected, Scanning, Skip
<1>14. CASE FinishLexing
  <2> DEFINE e == [type |-> "EOF", start |-> Length, length |-> 0]
  <2>0. token_array' = Append(token_array, e) /\ ~Ended
        /\ UNCHANGED <<ptr, error_start, line_array>>
    BY <1>14 DEF FinishLexing, ArrayListAdd
  <2>1. TokensInTextThen /\ Len(token_array') >= Len(token_array)
        /\ Len(token_array') \in Nat
    <3>1. Ended'
      <4>1. IsSequence(token_array) /\ e.type = "EOF"
        BY DEF LexInv, TokensOK
      <4> HIDE DEF e
      <4>2. /\ token_array' # <<>> /\ Len(token_array') = Len(token_array) + 1
            /\ token_array'[Len(token_array) + 1] = e
        BY <2>0, <4>1, Appended
      <4> QED
        BY <4>1, <4>2 DEF Ended
    <3>2. Length + 0 \in 0 .. Length /\ ptr' \in Nat
      BY <1>2, <1>3, <2>0
    <3> QED
      BY <1>1, <1>2, <2>0, <3>1, <3>2, TokenFits DEF TokensInTextThen, ArrayListAdd
  <2>2. Len(token_array) \in Nat
    BY LenProperties DEF LexInv, IsSequence, TokensOK
  <2> QED
    BY <1>1, <1>2, <2>0, <2>1, <2>2 DEF LexInv, Longer, TokensInTextThen
<1> QED
  BY <1>5, <1>6, <1>7, <1>8, <1>9, <1>10, <1>11, <1>12, <1>13, <1>14 DEF LexNext

-----------------------------------------------------------------------------
\* Nothing has been read, nothing reported.
LEMMA FrontInitially ==
  ASSUME FrontInit
  PROVE  FrontInv
<1>1. LexInv
  <2>1. buffer \in Seq(STRING) /\ Length \in Nat
    BY BuffersAssumption DEF FrontInit, LexInit, Length
  <2>2. IsSequence(<<>>) /\ DOMAIN <<>> = {}
    BY DEF IsSequence
  <2> QED
    BY <2>1, <2>2 DEF FrontInit, LexInit, LexInv, UINT_MAX, Fault, TokensOK
<1>2. ParseInv
  <2>1. IsSequence(<<>>) /\ DOMAIN <<>> = {}
    BY DEF IsSequence
  <2> QED
    BY <2>1 DEF FrontInit, ParseInit, ParseInv, ContextOK, RESYNC_TOKENS, Stacked,
       Waiting, SpreadOK
<1> QED
  BY <1>1, <1>2 DEF FrontInv

\* Every step of the front end keeps the invariant.
LEMMA FrontKeeps ==
  ASSUME FrontInv, [FrontNext]_frontvars
  PROVE  FrontInv'
<1>1. CASE Lex
  <2>1. LexInv' /\ Longer /\ UNCHANGED parsevars
    BY <1>1, LexKeeps DEF Lex, FrontInv
  <2>2. ~Ended
    BY <1>1 DEF Lex, LexNext, Scanning, ScanSign, ScanEquals, ScanBlank,
       ScanNewline, ScanComment, ScanOpenComment, ScanKeyword, ScanIdentifier,
       ScanInteger, ScanUnexpected, FinishLexing
  <2>3. calls' = <<>> /\ context' = context /\ ret' = ret
        /\ context'.errors = <<>>
    BY <2>1, <2>2 DEF FrontInv, ParseInv, parsevars
  <2>4. ContextOK(context') /\ Stacked(calls', context'.pos) /\ Waiting(calls')
    BY <2>1, <2>3 DEF FrontInv, ParseInv, parsevars, Waiting
  <2>5. context'.pos = 0 \/ context'.pos < Len(token_array')
    BY <2>1, <2>3 DEF FrontInv, ParseInv, ContextOK, Longer
  <2>6. SpreadOK(context)'
    BY <2>3 DEF SpreadOK, IsSequence
  <2> QED
    BY <2>1, <2>3, <2>4, <2>5, <2>6 DEF FrontInv, ParseInv
<1>2. CASE BeginParsing
  <2>1. UNCHANGED lexvars /\ UNCHANGED <<context, ret>>
        /\ calls' = <<Activation("Expr")>> /\ Ended /\ ret = None /\ calls = <<>>
    BY <1>2 DEF BeginParsing, StartParsing
  <2>2. LexInv'
    BY <2>1 DEF FrontInv, LexInv, lexvars, Length, Fault, At, TokensOK, Ended
  <2>3. context.pos \in Nat /\ Stacked(calls, context.pos) /\ Waiting(calls)
    BY <2>1 DEF FrontInv, ParseInv, ContextOK, Waiting
  <2>4. ActivationOK(Activation("Expr"), context.pos)
    BY <2>3, NewActivation
  <2>5. Stacked(Append(calls, Activation("Expr")), context.pos)
    BY <2>3, <2>4, Called
  <2>6. Append(calls, Activation("Expr")) = <<Activation("Expr")>>
    BY <2>1
  <2>7. Stacked(calls', context'.pos)
    BY <2>1, <2>5, <2>6
  <2> QED
    BY <2>1, <2>2, <2>7 DEF FrontInv, ParseInv, lexvars, Ended, SpreadOK, Place
<1>3. CASE Parse
  <2>1. LexInv'
    BY <1>3 DEF Parse, FrontInv, LexInv, lexvars, Length, Fault, At, TokensOK, Ended
  <2> QED
    BY <1>3, <2>1, ParseKeeps DEF Parse, FrontInv
<1>4. CASE UNCHANGED frontvars
  <2>1. LexInv'
    BY <1>4 DEF FrontInv, LexInv, frontvars, lexvars, Length, Fault, At, TokensOK,
       Ended
  <2>2. ParseInv'
    BY <1>4 DEF FrontInv, ParseInv, frontvars, lexvars, parsevars, Ended, SpreadOK,
       Place
  <2> QED
    BY <2>1, <2>2 DEF FrontInv
<1> QED
  BY <1>1, <1>2, <1>3, <1>4 DEF FrontNext, FrontStep

\* The invariant implies the types.
LEMMA FrontStays ==
  ASSUME FrontInv
  PROVE  FrontTypeOK
<1>1. context.pos < Len(token_array) \/ calls = <<>>
  BY Innermost DEF InTokens
<1>2. \A k \in DOMAIN calls :
        k < Len(calls) => calls[k].at # "start" /\ calls[k].token_pos <= context.pos
  BY DEF FrontInv, ParseInv, Stacked, ActivationOK, ContextOK
<1>3. ret # None => calls = <<>> \/ top.at # "start"
  BY DEF FrontInv, ParseInv, Waiting, top
<1> QED
  BY <1>1, <1>2, <1>3 DEF FrontInv, LexInv, ParseInv, ContextOK, FrontTypeOK

\* Whatever the text, the scanner and its tokens stay within it (but for a
\* comment that nothing ends), and the parser never looks behind the last
\* token, however often it has lost its way.
THEOREM FrontEndStaysInBounds == FrontSpec => []FrontTypeOK
<1>1. FrontInit => FrontInv
  BY FrontInitially
<1>2. FrontInv /\ [FrontNext]_frontvars => FrontInv'
  BY FrontKeeps
<1>3. FrontInv => FrontTypeOK
  BY FrontStays
<1> QED
  BY <1>1, <1>2, <1>3, PTL DEF FrontSpec

\* The invariant implies that reports are apart.
LEMMA FrontSpreads ==
  ASSUME FrontInv
  PROVE  ErrorsSpread
<1>1. SpreadOK(context)
  BY DEF FrontInv, ParseInv
<1>2. DOMAIN context.errors = 1 .. Len(context.errors) /\ Len(context.errors) \in Nat
  BY <1>1, LenProperties DEF SpreadOK, IsSequence
<1> QED
  BY <1>1, <1>2 DEF SpreadOK, ErrorsSpread

\* Whatever the text, two reports of the parser are about tokens at least
\* three apart, or four.
THEOREM ReportsAlwaysSpread == FrontSpec => []ErrorsSpread
<1>1. FrontInit => FrontInv
  BY FrontInitially
<1>2. FrontInv /\ [FrontNext]_frontvars => FrontInv'
  BY FrontKeeps
<1>3. FrontInv => ErrorsSpread
  BY FrontSpreads
<1> QED
  BY <1>1, <1>2, <1>3, PTL DEF FrontSpec

=============================================================================
