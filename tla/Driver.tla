------------------------------- MODULE Driver -------------------------------
(***************************************************************************)
(* The whole program: main in millie.c runs the scanner, the parser, the   *)
(* type checker, the compiler and the machine one after the other, each on *)
(* what the one before it left behind.  After a phase that has reported an *)
(* error it prints the reports and exits with status 1.                    *)
(***************************************************************************)
EXTENDS Integers, Sequences

CONSTANTS
  Texts,                   \* the contents the input file may have
  Byte, Word,              \* values of a uint8_t and of a uint64_t
  FunctionCapacity, Realloc, Recycled

VARIABLES
  print_type,              \* the switch -t
  buffer, ptr, error_start, token_array, line_array, lex_errors,
  parse_context, parse_calls, expression,
  types, unify, type_calls, type, type_errors,
  functions, capacity, array, contexts, compile_calls, func_id,
  compile_errors, freed,
  frames, heap, answer,
  status,                  \* of the process
  reports,                 \* what PrintErrors wrote to stderr
  output                   \* what was written to stdout

frontvars == <<buffer, ptr, error_start, token_array, line_array, lex_errors,
               parse_context, parse_calls, expression>>
typevars == <<types, unify, type_calls, type, type_errors>>
compilevars == <<functions, capacity, array, contexts, compile_calls, func_id,
                 compile_errors, freed>>
machinevars == <<frames, heap, answer>>
mainvars == <<print_type, status, reports, output>>
allvars == <<frontvars, typevars, compilevars, machinevars, mainvars>>

Front == INSTANCE FrontEndChecks WITH
  Buffers <- Texts, context <- parse_context, calls <- parse_calls,
  ret <- expression, errors <- lex_errors

Checker == INSTANCE TypeChecks WITH
  Programs <- {}, program <- expression, calls <- type_calls, ret <- type,
  errors <- type_errors

Back == INSTANCE Millie WITH
  Programs <- {}, Expression <- {}, program <- expression,
  calls <- compile_calls, ret <- func_id, errors <- compile_errors

-----------------------------------------------------------------------------
DriverInit ==
  /\ print_type \in BOOLEAN
  /\ Front!FrontInit
  /\ types = <<>> /\ type_calls = <<>> /\ type_errors = <<>>
  /\ type = Checker!None
  /\ unify = [expression |-> expression, error_code |-> "NONE",
              original_one |-> Checker!NULL, original_two |-> Checker!NULL]
  /\ functions = <<>> /\ capacity = FunctionCapacity /\ array = 1
  /\ contexts = <<>> /\ compile_calls = <<>> /\ func_id = 0
  /\ compile_errors = 0 /\ freed = {}
  /\ frames = <<>> /\ heap = <<>> /\ answer = Back!None
  /\ status = "running" /\ reports = <<>> /\ output = <<>>

Running == status = "running"

\* LexBuffer and ParseExpression.
RunFrontEnd ==
  /\ Running /\ Front!FrontStep
  /\ UNCHANGED <<typevars, compilevars, machinevars, mainvars>>

ParsedWell == Front!Parsed /\ parse_context.errors = <<>>

\* GetExpressionType(arena, expression, tokens, &errors)
BeginTyping ==
  /\ Running /\ ParsedWell /\ types = <<>>
  /\ types' = Checker!Statics
  /\ type_calls' = <<Checker!Analyze(expression, <<>>, <<>>)>>
  /\ UNCHANGED <<frontvars, unify, type, type_errors, compilevars, machinevars,
                 mainvars>>

RunTypeChecker ==
  /\ Running /\ Checker!TypeNext
  /\ UNCHANGED <<frontvars, compilevars, machinevars, mainvars>>

\* Mutation: main goes on after the reports of the type checker.
TypedWellOrNot == Checker!Typed

TypedWell == Checker!Typed /\ type_errors = <<>>

\* ModuleInit, and CompileExpression(expression, tokens, &errors, &module)
BeginCompiling ==
  /\ Running /\ TypedWell /\ ~print_type /\ functions = <<>>
  /\ functions' = <<Back!Blank>>
  /\ contexts' = <<Back!InitCompileContext(<<>>)>>
  /\ compile_calls' =
       << [Back!Activation("module", expression, 1) EXCEPT !.array = 1],
          Back!Activation("enter", expression, 1) >>
  /\ UNCHANGED <<frontvars, typevars, capacity, array, func_id, compile_errors,
                 freed, machinevars, mainvars>>

RunCompiler ==
  /\ Running /\ Back!CompileNext
  /\ UNCHANGED <<frontvars, typevars, machinevars, mainvars>>

CompiledWell == functions # <<>> /\ Back!Compiled /\ compile_errors = 0

\* EvaluateCode(&module, func_id, 0, 0)
RunMachine ==
  /\ Running /\ CompiledWell
  /\ Back!StartEvaluation \/ Back!Evaluate
  /\ UNCHANGED <<frontvars, typevars, compilevars, mainvars>>

-----------------------------------------------------------------------------
(***************************************************************************)
(* FormatValue: a value is read as the type says.  Words are sequences, a  *)
(* number <<"int", n>>; the layout is left out.                            *)
(***************************************************************************)
Invalid == <<"<<Invalid>>">>
BadRead == <<"bad read">>

\* Mutation: the word is printed without its sign.
WholeUnsigned(value) == value[2]

\* MStringPrintF("%lld", value)
Whole(value) == Back!VM!Signed(value[2])

RECURSIVE FormatValue(_, _), FormatElements(_, _, _)
FormatValue(value, a) ==
  LET b == Checker!Prune(a)
      t == types[b].type
  IN CASE t = "VARIABLE" -> <<BadRead>>  \* the end of the chain is NULL
       [] t = "BOOL" ->
            << <<IF value = Back!VM!Number(0) THEN "false" ELSE "true">> >>
       [] t = "INT" -> << <<"int", Whole(value)>> >>
       [] t = "FUNC" -> << <<"A FUNCTION">> >>
       [] t = "TUPLE" ->
            IF Back!VM!IsObject(value)
            THEN << <<"(">> >> \o FormatElements(value, 1, b) ELSE <<BadRead>>
       [] OTHER -> <<Invalid>>

\* The loop over a tuple does not look for instances of its rest, and asserts
\* that what it comes to is the last element.
FormatElements(value, i, a) ==
  LET first == FormatValue(heap[value[2]][i], types[a].arg_first)
  IN CASE types[a].type = "TUPLE" ->
            first \o << <<",">> >> \o FormatElements(value, i + 1, types[a].arg_second)
       [] types[a].type = "TUPLE_FINAL" -> first \o << <<")">> >>
       [] OTHER -> <<BadRead>>

-----------------------------------------------------------------------------
\* Where the expression is: from its first token to the end of its last.
PlaceOf(e) ==
  [start_pos |-> token_array[e.start_token + 1].start,
   end_pos |-> token_array[e.end_token + 1].start + token_array[e.end_token + 1].length]

\* What the phase that has ended with errors reports.  The module of the
\* compiler only counts its reports: each is of some part of the expression
\* that it does not support.
Rejected == { e \in Back!Parts(expression) : Back!Unsupported(e) }
Reported ==
  CASE Front!Ended /\ lex_errors # <<>> -> { lex_errors }
    [] Front!Parsed /\ parse_context.errors # <<>> -> { parse_context.errors }
    [] Checker!Typed /\ type_errors # <<>> ->
         { [i \in DOMAIN type_errors |-> PlaceOf(type_errors[i].expression)] }
    [] functions # <<>> /\ Back!Compiled /\ compile_errors > 0 ->
         [1 .. compile_errors -> { PlaceOf(e) : e \in Rejected }]
    [] OTHER -> {}

\* The line that is printed for a report and the columns marked in it, from
\* the first to before the last.
ReportAt(place, line, end_line, text) ==
  [start_line |-> line, start_col |-> Front!ColumnForPosition(place.start_pos),
   end_col |-> IF end_line = line THEN Front!ColumnForPosition(place.end_pos)
               ELSE IF text = Front!Arbitrary THEN 0 ELSE Len(text),
   text |-> text]
Report(place, line) ==
  ReportAt(place, line, Front!LineForPosition(place.end_pos), Front!ExtractLine(line))

\* Mutation: main does not return when a line cannot be printed.
AfterReportsStuck(written) ==
  IF \E i \in DOMAIN written : written[i].text = Front!Arbitrary
  THEN {"running"} ELSE {"1"}

\* A line of an arbitrary length may be read past the end of memory.
AfterReports(written) ==
  IF \E i \in DOMAIN written : written[i].text = Front!Arbitrary
  THEN {"1", "fault"} ELSE {"1"}

PrintErrors ==
  /\ Running
  /\ \E places \in Reported :
       LET written == [i \in DOMAIN places |->
                         Report(places[i], Front!LineForPosition(places[i].start_pos))]
       IN reports' = written /\ status' \in AfterReports(written)
  /\ UNCHANGED <<print_type, frontvars, typevars, compilevars, machinevars, output>>

-----------------------------------------------------------------------------
Exit(code) ==
  /\ status' = code
  /\ UNCHANGED <<print_type, frontvars, typevars, compilevars, machinevars, reports>>

PrintType ==
  /\ Running /\ TypedWell /\ print_type /\ ~Checker!Endless(type)
  /\ output' = Checker!FormatTypeExpression(type)
  /\ Exit("0")

PrintValue ==
  /\ Running /\ answer # Back!None
  /\ LET words == FormatValue(answer, type)
     IN IF BadRead \in { words[i] : i \in DOMAIN words }
        THEN UNCHANGED output /\ Exit("fault")
        ELSE output' = words /\ Exit("0")

DriverStep ==
  \/ RunFrontEnd \/ BeginTyping \/ RunTypeChecker \/ BeginCompiling
  \/ RunCompiler \/ RunMachine
  \/ PrintErrors \/ PrintType \/ PrintValue

Exited == status # "running" \/ ptr = Front!Fault

\* The type checker, or the printing of the type, goes around a cycle.
Hangs ==
  Running /\ (Checker!Diverges \/ (TypedWell /\ print_type /\ Checker!Endless(type)))

DriverStop == (Exited \/ Hangs) /\ UNCHANGED allvars

DriverNext == DriverStep \/ DriverStop

\* One thread that waits for nothing.
DriverSpec == DriverInit /\ [][DriverNext]_allvars /\ WF_allvars(DriverStep)

-----------------------------------------------------------------------------
\* The text begins with an expression of the grammar that has a type and,
\* unless only the type is asked for, that the compiler supports; and no
\* stray character has anything but stray characters behind it.
Accepted ==
  /\ \A p \in 0 .. Len(buffer) - 2 : Front!Stray(p) => Front!Stray(p + 1)
  /\ \E j \in 1 .. Len(token_array) - 1 :
       /\ Front!PeekToken([pos |-> j]) \notin Front!Continuing
       /\ \E tree \in Front!Trees("Expr", 0, j) :
            /\ Checker!Rules!Judgement(tree).typable
            /\ print_type \/ ~\E e \in Back!Parts(tree) : Back!Unsupported(e)

\* The status tells what the text is: 0 with something on stdout when it is
\* accepted, 1 with a report when it is not; and the process is stopped by a
\* bad read only where a text that is not accepted ends without a newline.
\* No phase trips over what the one before it lets through.
ExitStatusRight ==
  /\ status = "0" => Accepted /\ output # <<>> /\ reports = <<>>
  /\ status = "1" => ~Accepted /\ output = <<>> /\ reports # <<>>
  /\ status = "fault" =>
       ~Accepted /\ output = <<>> /\ buffer[Len(buffer)] # "\n"

\* What is to be printed for a value of the language of some type.
RECURSIVE Shown(_, _), ShownElements(_, _, _)
Shown(value, t) ==
  CASE t[1] = "BOOL" -> << <<IF value.word = 0 THEN "false" ELSE "true">> >>
    [] t[1] = "INT"  -> << <<"int", Back!VM!Signed(value.word)>> >>
    [] t[1] = "FUNC" -> << <<"A FUNCTION">> >>
    [] t[1] = "TUPLE" -> << <<"(">> >> \o ShownElements(value.elements, 1, t)
ShownElements(elements, i, t) ==
  Shown(elements[i], t[2]) \o
    IF t[1] = "TUPLE_FINAL" THEN << <<")">> >>
    ELSE << <<",">> >> \o ShownElements(elements, i + 1, t[3])

\* And for a type, its variables named after the order they come in.
RECURSIVE ShownType(_, _)
ShownType(t, names) ==
  CASE t[1] = "VARIABLE" ->
         << Checker!type_names[Back!Cardinality({ names[i] : i \in 1 .. t[2] })] >>
    [] t[1] = "INT" -> <<"int">>
    [] t[1] = "BOOL" -> <<"bool">>
    [] t[1] = "FUNC" -> <<"(">> \o ShownType(t[2], names) \o <<"->">>
                          \o ShownType(t[3], names) \o <<")">>
    [] t[1] = "TUPLE" -> ShownType(t[2], names) \o <<"*">> \o ShownType(t[3], names)
    [] t[1] = "TUPLE_FINAL" -> ShownType(t[2], names)

\* The program prints the meaning of the expression, read as its type by the
\* rules says; or, with -t, that type.  (readme.md: "It compiles to bytecode
\* which is then executed".)
PrintsMeaning ==
  status = "0" =>
    LET t == Checker!Rules!Judgement(expression).type
    IN output = IF print_type THEN ShownType(t, Checker!Rules!VariablesOf(t))
                ELSE Shown(Back!Meaning(expression), t)

\* The process ends, or is in one of the loops that do not.
Exits == <>(Exited \/ Hangs)

=============================================================================
