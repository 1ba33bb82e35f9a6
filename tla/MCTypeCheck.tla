---------------------------- MODULE MCTypeCheck -----------------------------
(***************************************************************************)
(* Instances of the type checker.                                          *)
(***************************************************************************)
EXTENDS TypeCheck, TypeChecks

T == INSTANCE ProgramCorpus WITH Byte <- 18, Word <- 256

CONSTANT MaxSize

a == 1
b == 2

\* Every expression of n nodes over two names, bound or not.
RECURSIVE Terms(_)
Terms(n) ==
  LET split(i) ==
        LET left == Terms(i)
            right == Terms(n - 1 - i)
        IN { T!App(l, r) : l \in left, r \in right }
           \union { T!Pair(l, r) : l \in left, r \in right }
           \union { T!Let(s, l, r) : s \in {a, b}, l \in left, r \in right }
           \union { T!LetRec(s, l, r) : s \in {a, b}, l \in left, r \in right }
  IN IF n = 1 THEN {T!Id(a), T!Id(b), T!Lit(0)}
     ELSE { T!Fn(s, e) : s \in {a, b}, e \in Terms(n - 1) }
          \union UNION { split(i) : i \in 1 .. n - 2 }

\* All the small ones, and those a node larger that leave no name unbound.
SmallTerms ==
  UNION { Terms(n) : n \in 1 .. MaxSize }
    \union { e \in Terms(MaxSize + 1) : T!FreeVariables(e) = {} }

True == T!MakeBooleanLiteral(TRUE)
Self(s) == T!App(T!Id(s), T!Id(s))

\* A name used at two types, and the names that may not be; types shared by
\* several names; errors in every construct, and errors after errors.
Polymorphic ==
  LET id == T!Fn(a, T!Id(a))
      const == T!Fn(a, T!Fn(b, T!Id(a)))
      both(f) == T!Pair(T!App(f, T!Lit(0)), T!App(f, True))
  IN { T!Let(b, id, both(T!Id(b))),
       T!Let(b, id, T!App(Self(b), T!Lit(0))),
       T!Let(b, const, both(T!Id(b))),
       T!Let(b, T!Pair(id, id), T!Id(b)),
       T!LetRec(b, id, both(T!Id(b))),
       T!LetRec(b, T!Fn(a, T!Let(3, T!App(T!Id(b), T!Id(a)), T!Id(a))), both(T!Id(b))),
       T!App(T!Fn(b, both(T!Id(b))), id),
       T!Fn(a, T!Let(b, T!Id(a), both(T!Id(b)))),
       T!Fn(a, T!Let(b, const, T!Pair(T!App(T!Id(b), T!Id(a)), Self(b)))),
       T!Fn(a, T!Let(b, T!Fn(3, T!Id(a)), both(T!Id(b)))),
       T!Fn(a, T!Let(b, T!Fn(3, T!App(T!Id(a), T!Id(3))), both(T!Id(b)))),
       T!Let(b, T!Fn(a, T!Let(3, T!Fn(4, T!Pair(T!Id(a), T!Id(4))), T!Id(3))),
             T!App(T!App(T!Id(b), True), T!Lit(0))),
       T!Fn(a, T!LetRec(b, T!Fn(3, T!Pair(T!Id(a), T!Id(3))), both(T!Id(b)))),
       T!Fn(a, T!LetRec(b, T!Fn(3, T!App(T!Id(b), T!Id(a))), T!Id(b))) }

Conditions ==
  LET test(t) == T!Fn(a, T!Fn(b, T!If(t, T!Id(a), T!Id(b))))
  IN { test(T!Id(a)), test(T!Equals(T!Id(a), T!Id(b))), test(T!Lit(0)), test(Self(a)),
       test(T!Plus(T!Id(a), T!Lit(0))), test(T!MakeUnary("MINUS", T!Id(b))),
       T!Fn(a, T!If(T!Id(3), T!Id(a), T!Id(3))),
       T!Fn(a, T!If(T!Equals(T!Id(a), T!Fn(b, T!Id(b))), T!Id(a), True)),
       T!Plus(True, T!Fn(a, T!Id(a))), T!Plus(T!Id(a), True),
       T!Equals(T!Pair(T!Lit(0), True), T!Pair(True, T!Lit(0))),
       T!Equals(T!Triple(True, True, True), T!Pair(True, True)) }

\* Two variables of the functions around a let, met in the order of the list
\* and in the other; a let rec of which nothing is known but its name.
Closed(e) == T!Fn(a, T!Fn(b, T!Let(3, e, T!Id(3))))
Circular ==
  { Closed(T!Pair(T!Id(a), T!Id(b))), Closed(T!Pair(T!Id(b), T!Id(a))),
    T!Fn(a, T!LetRec(b, T!App(T!Id(a), T!Id(b)), T!Id(b))),
    T!Fn(a, T!LetRec(b, T!App(T!Id(a), T!Id(b)), T!Id(a))),
    T!Fn(a, T!LetRec(b, T!App(T!Id(a), T!Id(b)), T!If(T!Id(a), True, True))),
    T!LetRec(a, T!Id(a), T!Id(a)), T!LetRec(a, T!Fn(b, T!Id(a)), T!Id(a)) }

MCPrograms == SmallTerms \union T!Classics \union T!Rejected
                \union Polymorphic \union Conditions \union Circular

=============================================================================
