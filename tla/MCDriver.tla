------------------------------ MODULE MCDriver ------------------------------
(***************************************************************************)
(* Instances of the whole program.  As in MCMillie a byte has 32 values    *)
(* and a word 2^21.                                                        *)
(***************************************************************************)
EXTENDS Driver

MCByte == 32
MCWord == 2097152

T == INSTANCE Texts WITH Byte <- MCByte, Word <- MCWord

Written(e) == T!Written(e, 0)

\* Programs that run, that do not compile, and that have no type.
Runs == T!Classics
Untyped == {
  T!App(T!Fn(T!x, T!App(T!Id(T!x), T!Id(T!x))), T!Lit(1)),
  T!Plus(T!Id(T!y), T!Lit(1)),
  T!If(T!Lit(1), T!Id(T!z), T!MakeBooleanLiteral(TRUE)),
  T!Let(T!f, T!Fn(T!x, T!Id(T!x)),
        T!If(T!App(T!Id(T!f), T!MakeBooleanLiteral(TRUE)), T!Id(T!f), T!Lit(2))) }

\* Types with variables, of functions in tuples and of tuples in functions.
Typed == {
  T!Fn(T!x, T!Fn(T!y, T!Pair(T!Id(T!y), T!Id(T!x)))),
  T!Let(T!f, T!Fn(T!x, T!Id(T!x)), T!Pair(T!Id(T!f), T!Id(T!f))),
  T!LetRec(T!f, T!Fn(T!x, T!App(T!Id(T!f), T!Id(T!x))), T!Id(T!f)),
  T!Fn(T!x, T!LetRec(T!f, T!App(T!Id(T!x), T!Id(T!f)), T!Id(T!x))),
  T!Fn(T!x, T!LetRec(T!f, T!App(T!Id(T!x), T!Id(T!f)), T!Id(T!f))) }

Programs == Runs \union T!Rejected \union Untyped \union Typed

\* On one line that ends, and on many of which the last does not end.
Layouts(e) ==
  { T!Spaced(Written(e), <<" ">>) \o <<"\n">>, T!Spaced(Written(e), <<"\n">>) }
ProgramTexts ==
  UNION { Layouts(e) : e \in Programs }

\* Texts that are no program, and texts with something behind the program.
OtherTexts ==
  { T!Spaced(T!Spelt(s), <<" ">>) : s \in {
    <<"1", "$", "2", "\n">>, <<"1", "\n", "$", "2">>, <<"1", "$">>, <<"$", "\n">>,
    <<"let", "x", "=", "in", "x", "\n">>, <<"(", "1", ",">>, <<"\n", ")">>,
    <<"1", "2", "\n">>, <<"(", "1", ")", "then">>, <<"1", "#">>, <<"# note\n", "3">>,
    <<>> } }

MCTexts == ProgramTexts \union OtherTexts

=============================================================================
