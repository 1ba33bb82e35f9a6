----------------------------- MODULE TypeChecks -----------------------------
(***************************************************************************)
(* What the type checker promises.                                         *)
(***************************************************************************)
EXTENDS TypeCheck

Rules == INSTANCE TypeRules

-----------------------------------------------------------------------------
\* The type that the nodes from a type on make up.
RECURSIVE Read(_)
Read(type) ==
  LET a == Prune(type)
      t == types[a]
  IN CASE IsVariable(a) -> Rules!Var(a)
       [] t.type \in {"FUNC", "TUPLE"} ->
            <<t.type, Read(t.arg_first), Read(t.arg_second)>>
       [] t.type = "TUPLE_FINAL" -> <<t.type, Read(t.arg_first)>>
       [] t.type \in {"INT", "BOOL", "ERROR"} -> <<t.type>>

\* A program gets the most general type that the rules give it, and an error
\* is reported exactly when they give it none: whatever the nodes share, and
\* however often a name is used at different types (GetExpressionType).
PrincipalType ==
  Typed =>
    LET judgement == Rules!Judgement(program)
    IN /\ errors = <<>> <=> judgement.typable
       /\ judgement.typable /\ ~Endless(ret) =>
            Rules!Canonical(Read(ret)) = judgement.type

\* The types a node is made of; a variable's temporary link is none of them.
Components(a) ==
  (IF types[a].type \in Compound
   THEN {types[a].arg_first, types[a].arg_second} ELSE {types[a].arg_first})
  \ {NULL}

\* No type is a part of itself, which the occurs check in _UnifyImpl is for.
\* The one cycle there is: a let rec whose own variable is the type it is
\* left with binds it to itself (new_type->var_instance, l. 757).
OnlySelfLoops ==
  LET finite[nodes \in SUBSET DOMAIN types, steps \in 0 .. Len(types)] ==
        IF steps = 0 THEN nodes
        ELSE finite[{ a \in DOMAIN types : Components(a) \ {a} \subseteq nodes },
                    steps - 1]
  IN /\ finite[{}, Len(types)] = DOMAIN types
     /\ \A a \in DOMAIN types :
          a \in Components(a) => types[a].type = "VARIABLE"

\* A variable has a copy in var_temp_other only while a type that reaches it
\* is being copied, so that the cleanup after the copy finds it: a copy left
\* behind would be taken for that of the next one.
TempsClean ==
  \A a \in DOMAIN types :
    IsVariable(a) /\ types[a].arg_second # NULL =>
      \E i \in DOMAIN calls :
        /\ calls[i].fn = "Analyze"
        /\ calls[i].at \in {"copied", "generic", "rec generic"}
        /\ a \in Reachable(calls[i].one)

\* "We can only do this for variables that will no longer ever be unified"
\* (typecheck.c l. 110): no generic variable is in a type that is unified,
\* that a variable of a function in progress has, or that a result has.
GenericsApart ==
  LET apart(type) ==
        \A a \in Reachable(type) : types[a].type # "GENERIC_VARIABLE"
      made == calls # <<>> /\ top.at \in {"generic", "rec generic"}
  IN /\ \A i \in DOMAIN calls :
          /\ calls[i].fn = "Unify" => apart(calls[i].one) /\ apart(calls[i].two)
          /\ \A j \in DOMAIN calls[i].non_generics :
               apart(calls[i].non_generics[j])
     /\ ret \in DOMAIN types /\ ~made
          /\ (calls # <<>> => top.fn = "Analyze") => apart(ret)

\* The checker comes to an end, unless it meets a chain of instances or of
\* temporary links that has closed.
TypingEnds == <>(Typed \/ Diverges)

\* The checker comes to an end.
TypingFinishes == <>Typed

=============================================================================
