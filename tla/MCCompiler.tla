----------------------------- MODULE MCCompiler -----------------------------
(***************************************************************************)
(* Instances of the compiler alone, for every kind of program: also those  *)
(* it compiles wrongly, whose code is not run here.                        *)
(***************************************************************************)
EXTENDS CompilerChecks, ProgramCorpus

MCByte == 32
MCWord == 2097152

AnyPrograms ==
  Classics \union Literals(MCByte) \union Rejected \union Irregular
    \union AtLimits \union Sized(6, {}, {}, 1)
AnyParts == AllParts(AnyPrograms)

\* Programs the code is wrong about, one kind each.
NestedFunctions == {App(Fn(x, Fn(y, Fn(z, Id(x)))), Lit(9))}
NestedParts == AllParts(NestedFunctions)

\* The scopes of the parts of e, when the names in N are bound around it.
RECURSIVE Scopes(_, _)
Scopes(e, N) ==
  {<<e, N>>} \union
    (CASE e.type = "LAMBDA" -> Scopes(e.lambda_body, N \union {e.lambda_id})
       [] e.type = "LET"    -> Scopes(e.let_value, N) \union
                               Scopes(e.let_body, N \union {e.let_id})
       [] e.type = "LETREC" -> UNION { Scopes(part, N \union {e.let_id}) :
                                       part \in Children(e) }
       [] OTHER -> UNION { Scopes(part, N) : part \in Children(e) })

\* The programs are well scoped, as the theorem ScopesAlwaysMatch supposes.
ASSUME ProgramsAreScoped ==
  IsScoping(UNION { Scopes(p, {}) : p \in Programs })

=============================================================================
