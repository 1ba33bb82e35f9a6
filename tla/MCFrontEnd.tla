----------------------------- MODULE MCFrontEnd -----------------------------
(***************************************************************************)
(* Instances of the front end.  A word has 256 values, so that a literal   *)
(* of three digits can be too large.                                       *)
(***************************************************************************)
EXTENDS FrontEndChecks

T == INSTANCE Texts WITH Byte <- 18

CONSTANT MaxLength

\* Every text of up to MaxLength characters out of these.
Alphabet == {"i", "n", "1", "=", ">", "\n", "#", "$", "'", "("}
ShortTexts == UNION { [1 .. i -> Alphabet] : i \in 0 .. MaxLength }

\* Programs of every construct.
Programs ==
  { e \in T!Classics \union T!Rejected \union T!MixedTuples :
    \A p \in T!Parts(e) : p.type = "INTEGER_CONSTANT" => p.literal_value < 100 }
ProgramTexts == { T!Spaced(T!Written(e, 0), <<" ">>) : e \in Programs }

\* Sentences that lean on precedence, and layout between the words.
Sentences ==
  { T!Spelt(s) : s \in {
    <<"x", "-", "y", "-", "1">>, <<"x", "-", "(", "y", "-", "1", ")">>,
    <<"x", "=", "y", "*", "2", "=", "-", "f", "x", "(", "y", ")">>,
    <<"-", "-", "x", "/", "+", "2", "+", "(", "(", "1", ",", "2", ",", "3", ")", ")">>,
    <<"fn", "inner", "=>", "if", "true", "then", "inner", "else", "fn", "x", "=>", "x">>,
    <<"let", "x", "=", "y", "=", "1", "in", "x", "in", "2">>,
    <<"1", "let", "x">>, <<"(", "1", ",", ")">>, <<"x", "fn", "y", "=>", "y">> } }
LaidOut ==
  { T!Spaced(s, <<"\n">>) \o <<"\n">> : s \in Sentences }
    \union { T!Spaced(s, <<"\t", " ", "\r">>) : s \in Sentences }
    \union { T!Spaced(s, T!Spell("# note\n")) : s \in Sentences }

\* Literals at and over the end of a word of 256 values: reported, and not.
Literals ==
  { T!Spaced(<<T!Decimal(i)>>, <<>>) : i \in {0, 99, 255, 256, 259, 260, 999, 1000} }
    \union { T!Spaced(T!Spelt(<<"f", "(", "x", "=", "(">>)
                        \o <<T!Decimal(i)>> \o T!Spelt(<<"+", "in">>), <<" ">>) :
             i \in {255, 256, 999} }
    \union { T!Spaced(T!Spelt(<<"let", "x", "y", "y", "y">>)
                        \o <<T!Decimal(999)>>, <<" ">>) }

\* One token lost, or two, or one doubled or in the place of another.
Without(s, i) == [j \in 1 .. Len(s) - 1 |-> IF j < i THEN s[j] ELSE s[j + 1]]
Whole ==
  T!Spelt(<<"let", "rec", "f", "=", "fn", "x", "=>", "if", "x", "=", "1",
            "then", "(", "x", ",", "2", ")", "else", "f", "(", "x", "-", "1",
            ")", "in", "f", "3">>)
Damaged ==
  LET once == { Without(Whole, i) : i \in DOMAIN Whole }
      twice == { Without(Without(Whole, i), j) :
                 i \in {4, 9, 18}, j \in 10 .. Len(Whole) - 1 }
      replaced == { [Whole EXCEPT ![i] = Whole[j]] : i \in DOMAIN Whole,
                                                     j \in {4, 9, 17, 25} }
  IN { T!Spaced(s, <<" ">>) : s \in once \union twice \union replaced }

MCBuffers == ShortTexts \union ProgramTexts \union LaidOut \union Literals
               \union Damaged

=============================================================================
