------------------------------ MODULE FrontEnd ------------------------------
(***************************************************************************)
(* The scanner and, when it reports nothing, the parser (main in millie.c, *)
(* l. 230-244).                                                            *)
(***************************************************************************)
EXTENDS Parser

frontvars == <<lexvars, parsevars>>

FrontInit == LexInit /\ ParseInit

Lex == LexNext /\ UNCHANGED parsevars
BeginParsing == Ended /\ errors = <<>> /\ StartParsing /\ UNCHANGED lexvars
Parse == ParseNext /\ UNCHANGED lexvars
FrontStep == Lex \/ BeginParsing \/ Parse

\* The process has stopped: with reports, with a tree, or by a fault.
FrontDone == (Ended /\ errors # <<>>) \/ Parsed \/ ptr = Fault

FrontNext == FrontStep \/ (FrontDone /\ UNCHANGED frontvars)

\* One thread that waits for nothing.
FrontSpec == FrontInit /\ [][FrontNext]_frontvars /\ WF_frontvars(FrontStep)

-----------------------------------------------------------------------------
\* The variables keep their types: in particular the parser stands at a
\* token and never behind the last, an activation waits where its function
\* calls another, and only the innermost one has something returned to it.
FrontTypeOK ==
  /\ ptr \in 0 .. Fault /\ error_start \in UINT_MAX .. Length
  /\ \A i \in DOMAIN token_array :
       token_array[i].start + token_array[i].length \in 0 .. Length
  /\ \A i \in DOMAIN line_array : At(line_array[i]) = "\n"
  /\ context.pos < Len(token_array) \/ calls = <<>>
  /\ context.lost_count \in 0 .. RESYNC_TOKENS
  /\ \A k \in DOMAIN calls :
       k < Len(calls) => calls[k].at # "start" /\ calls[k].token_pos <= context.pos
  /\ ret # None => calls = <<>> \/ top.at # "start"

\* The token that a report of the parser is about.
Place(report) ==
  CHOOSE i \in DOMAIN token_array : token_array[i].start = report.start_pos

\* After a report the parser finds its feet again before it reports the next
\* one: four tokens on, or three when that is a literal, which counts as one
\* of the four itself.  (lost_count, RESYNC_TOKENS.)
ErrorsSpread ==
  \A i \in 2 .. Len(context.errors) :
    LET report == context.errors[i]
        gap == IF report.message = "OVERFLOW" THEN RESYNC_TOKENS - 1
               ELSE RESYNC_TOKENS
    IN Place(report) >= Place(context.errors[i - 1]) + gap

=============================================================================
