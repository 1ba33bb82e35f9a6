---------------------------- MODULE ProgramCorpus ----------------------------
(***************************************************************************)
(* The programs the models are run on: every small integer expression, and *)
(* programs written for what the compiler and the machine find hard.       *)
(***************************************************************************)
EXTENDS Semantics

Lit(n) == MakeIntegerLiteral(n)
Id(s) == MakeIdentifier(s)
Fn(s, body) == MakeLambda(s, body)
App(f, a) == MakeApply(f, a)
Let(s, v, b) == MakeLet(s, v, b)
LetRec(s, v, b) == MakeLetRec(s, v, b)
If(t, a, b) == MakeIf(t, a, b)
Plus(a, b) == MakeBinary("PLUS", a, b)
Minus(a, b) == MakeBinary("MINUS", a, b)
Times(a, b) == MakeBinary("STAR", a, b)
Equals(a, b) == MakeBinary("EQUALS", a, b)
Pair(a, b) == MakeTuple(a, MakeTupleFinal(b), 2)
Triple(a, b, c) == MakeTuple(a, MakeTuple(b, MakeTupleFinal(c), 2), 3)

-----------------------------------------------------------------------------
(***************************************************************************)
(* The integer expressions of n nodes over literal 40, the integer         *)
(* variables S and the functions F.  Each name is bound once: a binder is  *)
(* named after its path p from the root, a function's argument 1000 + p.   *)
(* (A conditional tests a variable or literal against 0, one node.)        *)
(***************************************************************************)
RECURSIVE Sized(_, _, _, _)
Sized(n, S, F, p) ==
  LET atoms == {Lit(40)} \union { Id(s) : s \in S }
      shorter == IF n = 1 THEN {} ELSE Sized(n - 1, S, F, 2 * p)
      split(i) ==
        LET left == Sized(i, S, F, 2 * p)
            right == Sized(n - 1 - i, S, F, 2 * p + 1)
            inner == Sized(n - 1 - i, S \union {p}, F, 2 * p + 1)
            body == Sized(i, S \union {1000 + p}, F, 2 * p)
            user == Sized(n - 1 - i, S, F \union {p}, 2 * p + 1)
        IN { Minus(l, r) : l \in left, r \in right }
           \union { Let(p, v, e) : v \in left, e \in inner }
           \union { App(Fn(p, e), v) : v \in left, e \in inner }
           \union { Let(p, Fn(1000 + p, e), u) : e \in body, u \in user }
           \union { If(Equals(t, Lit(0)), l, r) : t \in atoms, l \in left,
                                                  r \in right }
  IN IF n = 1 THEN atoms
     ELSE { App(Id(h), v) : h \in F, v \in shorter }
          \union UNION { split(i) : i \in 1 .. n - 2 }

-----------------------------------------------------------------------------
\* Names.
f == 101
g == 102
n == 103
m == 104
k == 105
x == 106
y == 107
z == 108

\* Functions, closures, recursion, booleans and tuples.
Classics == {
  \* a curried function: the inner one closes over x
  App(App(Fn(x, Fn(y, Minus(Id(x), Id(y)))), Lit(50)), Lit(3)),
  \* x reaches the innermost function through the closure between
  App(App(App(Fn(x, Fn(y, Fn(z, Minus(Id(x), Minus(Id(y), Id(z)))))),
      Lit(9)), Lit(5)), Lit(2)),
  \* two closures of one function
  Let(f, Fn(x, Fn(y, Minus(Id(x), Id(y)))),
      Let(g, App(Id(f), Lit(9)),
          App(App(Id(f), App(Id(g), Lit(4))), App(Id(g), Lit(2))))),
  \* a function as an argument, applied twice
  App(App(Fn(f, Fn(x, App(Id(f), App(Id(f), Id(x))))),
          Fn(z, Minus(Id(z), Lit(3)))), Lit(20)),
  \* recursion
  LetRec(f, Fn(n, If(Equals(Id(n), Lit(0)), Lit(1),
                     Times(Id(n), App(Id(f), Minus(Id(n), Lit(1)))))),
         App(Id(f), Lit(3))),
  \* a recursive function with a free variable, called in its own argument
  Let(k, Lit(7),
      LetRec(f, Fn(n, If(Equals(Id(n), Lit(0)), Plus(Id(k), Lit(0)),
                         Minus(App(Id(f), Minus(Id(n), Lit(1))), Id(k)))),
             Plus(App(Id(f), Lit(2)), Id(k)))),
  \* a function inside a recursive one that closes over both its names
  LetRec(f, Fn(n, If(Equals(Id(n), Lit(0)), Lit(5),
                     App(Fn(m, Plus(App(Id(f), Minus(Id(n), Lit(1))), Id(m))),
                         Id(n)))),
         App(Id(f), Lit(2))),
  \* a recursive function that returns closures of itself
  LetRec(f, Fn(n, Fn(m, If(Equals(Id(m), Lit(0)), Minus(Id(n), Lit(0)),
                           App(App(Id(f), Minus(Id(n), Lit(1))),
                               Minus(Id(m), Lit(1)))))),
         App(App(Id(f), Lit(9)), Lit(2))),
  \* a recursive function that is not called, one that is the result
  LetRec(f, Fn(n, App(Id(f), Id(n))), Lit(6)),
  Let(x, Lit(4), LetRec(f, Fn(n, Plus(Id(x), App(Id(f), Id(n)))), Id(f))),
  \* booleans
  If(MakeBooleanLiteral(TRUE), MakeBooleanLiteral(FALSE), Equals(Lit(1), Lit(2))),
  Equals(Equals(Lit(2), Lit(2)), MakeBooleanLiteral(FALSE)),
  \* tuples
  App(Fn(x, Pair(Id(x), Id(x))), Lit(8)),
  Let(x, Lit(3), Triple(Minus(Id(x), Lit(1)), Minus(Id(x), Lit(1)),
                        Minus(Id(x), Lit(1)))),
  Pair(Pair(Lit(1), Lit(1)), Pair(Lit(1), Lit(1))),
  App(Fn(x, Pair(Fn(y, Id(x)), Fn(y, Id(x)))), Lit(8)),
  \* negative numbers
  Minus(Lit(3), Lit(5)),
  Plus(MakeUnary("MINUS", Lit(5)), MakeUnary("MINUS", Minus(Lit(3), Lit(5)))) }

\* Literals on both sides of each width, for bytes of B values.
Literals(B) ==
  { Lit(v) : v \in {0, B - 1, B, B * B - 1, B * B, B * B + B + 1,
                    B * B * B * B - 1, B * B * B * B,
                    B * B * B * B + B * B + 3} }

\* Expressions the parser and the type checker let through, and the compiler
\* does not.
Rejected == {
  MakeBinary("SLASH", Lit(6), Lit(2)),
  MakeUnary("PLUS", Lit(6)),
  LetRec(x, Lit(1), Id(x)),
  Let(f, Fn(x, MakeBinary("SLASH", Id(x), Lit(2))), App(Id(f), Lit(4))),
  If(Equals(Lit(1), Lit(1)), MakeUnary("PLUS", Lit(6)),
     MakeBinary("SLASH", Lit(6), LetRec(y, Lit(2), Lit(3)))),
  App(App(Fn(x, Fn(y, LetRec(z, Id(x), Id(z)))), Lit(6)), Lit(2)) }

\* A name bound twice: the inner binding is over when x is read again; a
\* rebinding that reads the outer one; an argument that hides the function;
\* a name that another function's bindings array held.
Shadowing == {
  App(Fn(x, Plus(Let(x, Lit(5), Id(x)), Id(x))), Lit(10)),
  Let(x, Lit(1), Let(x, Plus(Id(x), Lit(1)), Let(y, Id(x), Fn(x, Id(y))))),
  LetRec(f, Fn(f, Id(f)), App(Id(f), Lit(2))),
  Let(f, LetRec(f, Fn(n, Let(y, Id(n), Id(y))), Id(f)),
      Let(y, Lit(2), LetRec(g, Fn(n, Plus(Id(y), Id(n))), App(Id(g), Lit(1))))) }

\* A then branch that is a variable: the argument, and the function itself.
VariableBranches == {
  App(Fn(x, Plus(If(Equals(Id(x), Lit(0)), Id(x), Lit(5)), Id(x))), Lit(3)),
  Let(k, Lit(40),
      LetRec(f, Fn(n, Plus(App(If(Equals(Id(n), Lit(1)), Id(f), Fn(z, Lit(7))),
                               Lit(5)), Id(k))),
             App(Id(f), Lit(2)))) }

\* Tuples whose elements differ.
MixedTuples == {
  Pair(Lit(1), Lit(2)),
  App(Fn(x, App(Fn(y, Triple(Id(y), Id(x), Lit(1))), Lit(2))), Lit(3)) }

Irregular == Shadowing \union VariableBranches \union MixedTuples

\* h let bindings one after the other, each over before the next.
RECURSIVE WideLets(_)
WideLets(h) ==
  LET last == Let(200 + h, Lit(h), Minus(Id(200 + h), Lit(1)))
  IN IF h = 0 THEN Lit(2) ELSE Plus(WideLets(h - 1), last)

\* body inside let bindings of all the names.
RECURSIVE DeepLets(_, _)
DeepLets(names, body) ==
  IF names = <<>> THEN body
  ELSE Let(Head(names), Lit(1), DeepLets(Tail(names), body))

\* The names, each mentioned in turn and only one of them bound anew at once.
Mentions(names) ==
  LET upTo[h \in DOMAIN names] ==
        IF h = 1 THEN Id(names[1]) ELSE Let(400 + h, upTo[h - 1], Id(names[h]))
  IN upTo[Len(names)]

OuterNames(h) == [i \in 1 .. h |-> 300 + i]
InnerNames == [i \in 1 .. 7 |-> 320 + i]

\* Programs that just fill the arrays of a context, or need one entry more:
\* bindings at top level, in a function, in one that calls itself (9 of them
\* one after the other need one entry); and the variables a function closes
\* over, bound by functions that do not overrun theirs.
AtLimits ==
  { DeepLets(OuterNames(h), Id(301)) : h \in {8, 9} } \union
  { App(Fn(x, DeepLets(OuterNames(h), Id(x))), Lit(3)) : h \in {7, 8} } \union
  { LetRec(f, Fn(n, DeepLets(OuterNames(h), App(Id(f), Id(n)))), App(Id(f), Lit(1))) :
      h \in {6, 7} } \union
  { DeepLets(OuterNames(8), App(Fn(x, DeepLets(InnerNames, App(inmost, Lit(2)))), Lit(2))) :
      inmost \in { Fn(y, Mentions(OuterNames(8) \o <<x>> \o InnerNames)),
                   Fn(y, App(Fn(z, Mentions(OuterNames(8) \o <<x, y>> \o InnerNames)),
                             Lit(2))) } } \union
  { WideLets(9),
    App(Fn(x, App(Fn(y, Mentions([i \in 1 .. 18 |-> x])), Lit(2))), Lit(3)) }

AllParts(programs) == UNION { Parts(e) : e \in programs }

=============================================================================
