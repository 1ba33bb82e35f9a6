------------------------------ MODULE MCMillie ------------------------------
(***************************************************************************)
(* Instances of Millie for TLC.  A byte has 32 values and a word 2^21, so  *)
(* that literals of every width fit TLC's integers; main runs to the end.  *)
(***************************************************************************)
EXTENDS Millie, ProgramCorpus

MCByte == 32
MCWord == 2097152

\* The integer programs of up to MaxNodes nodes that the compiler is right
\* about.
CONSTANT MaxNodes
SmallPrograms ==
  { e \in UNION { Sized(i, {}, {}, 1) : i \in 1 .. MaxNodes } : Regular(e) }

\* The classics with literals, rejected programs, and one with more
\* bindings, one after the other, than a bindings array has room for.
ClassicPrograms ==
  Classics \union Literals(MCByte) \union Rejected

GoodPrograms == SmallPrograms \union ClassicPrograms
GoodParts == AllParts(GoodPrograms)

\* Programs the code is wrong about, one kind each.
VariableParts == AllParts(VariableBranches)
TupleParts == AllParts(MixedTuples)

ASSUME ClassicsAreRegular == \A e \in ClassicPrograms : Regular(e)

\* The two forms of the definitions over expressions say the same.
ASSUME FormsAgree ==
  \A p \in Programs :
    parts[p] = Parts(p) /\ freeVariables[p] = FreeVariables(p)

\* What the theorems about closures and errors suppose of the programs the
\* code is right about.  An expression is larger than its parts; the elements
\* of a tuple are the same; no name is bound twice, but where the elements of
\* the tuple are functions.
RECURSIVE Size(_)
Size(e) == 1 + FoldSet(+, 0, { Size(part) : part \in Children(e) })
ASSUME TreesAreFinite ==
  LET size == [e \in Expression |-> Size(e)]
  IN \A e \in Expression : \A part \in Children(e) : size[part] < size[e]

ASSUME GoodHypotheses ==
  Programs = GoodPrograms =>
    /\ TuplesUniform
    /\ { p \in Programs : \E part \in parts[p] : ~BindsOnce(part) }
         = {App(Fn(x, Pair(Fn(y, Id(x)), Fn(y, Id(x)))), Lit(8))}

=============================================================================
