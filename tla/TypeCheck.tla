----------------------------- MODULE TypeCheck ------------------------------
(***************************************************************************)
(* The type checker (typecheck.c).  Type expressions are nodes in the      *)
(* arena, types[a] the one at address a, which unification links to one    *)
(* another.  A node has two pointers; in a variable the first is           *)
(* var_instance and the second var_temp_other, which share their place     *)
(* with arg_first and arg_second (the unions of struct TypeExp).           *)
(*                                                                         *)
(* calls is the stack of the functions that are running; each action takes *)
(* the innermost one to its next call or its return.                       *)
(***************************************************************************)
EXTENDS Integers, Sequences, FiniteSets, Ast

CONSTANT Programs  \* the expressions the checker may be given

VARIABLES
  program,  \* the expression being typed
  types,    \* the nodes allocated so far
  calls,    \* the activations, outermost first
  ret,      \* the address the last one returned
  unify,    \* struct UnifyContext: what the running _Unify reports
  errors    \* the reports: the expression and the error code

typevars == <<program, types, calls, ret, unify, errors>>

NULL == 0
None == -1

\* The three static nodes come first.
IntegerTypeExp == 1
BooleanTypeExp == 2
ErrorTypeExp == 3

TypeExp(type, first, second) ==
  [type |-> type, arg_first |-> first, arg_second |-> second]

Statics == <<TypeExp("INT", NULL, NULL), TypeExp("BOOL", NULL, NULL),
             TypeExp("ERROR", NULL, NULL)>>

\* ArenaAllocate puts a new node behind the others.
New == Len(types) + 1
Allocate(node) == Append(types, node)
TypeVar == TypeExp("VARIABLE", NULL, NULL)

-----------------------------------------------------------------------------
(***************************************************************************)
(* Walks over the nodes.  None of them remembers where it has been; on a   *)
(* cycle a walk does not end.                                              *)
(***************************************************************************)
IsBound(a) == types[a].type = "VARIABLE" /\ types[a].arg_first # NULL

\* _PruneTypeExp: the node at the end of a chain of instances.
Prune(type) ==
  LET prune[steps \in 0 .. Len(types)] ==
        [a \in DOMAIN types |->
           IF steps = 0 \/ ~IsBound(a) THEN a
           ELSE prune[steps - 1][types[a].arg_first]]
  IN prune[Len(types)][type]

\* After as many steps as there are nodes the chain has closed.
PruneLoops(type) == IsBound(Prune(type))

\* _IsTypeContainedWithin goes into the first pointer of every node and then
\* into the second, whatever they are; answer is what was found before.  It
\* is "never" when the function runs deeper than there are nodes.
Contained(a, b) ==
  LET contained[type \in 0 .. Len(types), depth \in 0 .. New,
                answer \in {"yes", "no", "never"}] ==
        IF answer # "no" THEN answer
        ELSE IF a = type THEN "yes"
        ELSE IF type = NULL THEN "no"
        ELSE IF depth = 0 THEN "never"
        ELSE contained[types[type].arg_second, depth - 1,
                       contained[types[type].arg_first, depth - 1, "no"]]
  IN contained[b, New, "no"]

\* _IsTypeNonGeneric asks one type of the list after the other, the newest
\* (the last here) first.
NonGeneric(a, non_generics) ==
  LET asked[i \in 0 .. Len(non_generics), answer \in {"yes", "no", "never"}] ==
        IF i = 0 \/ answer # "no" THEN answer
        ELSE asked[i - 1, Contained(a, non_generics[i])]
  IN asked[Len(non_generics), "no"]

IsVariable(a) == types[a].type \in {"VARIABLE", "GENERIC_VARIABLE"}

\* The nodes that walking into pruned arguments reaches.
Reachable(type) ==
  LET parts(a) ==
        IF IsVariable(a) THEN {}
        ELSE { Prune(b) : b \in {types[a].arg_first, types[a].arg_second} \ {NULL} }
      reach[nodes \in SUBSET DOMAIN types, steps \in 0 .. Len(types)] ==
        IF steps = 0 THEN nodes
        ELSE reach[nodes \union UNION { parts(a) : a \in nodes }, steps - 1]
  IN reach[{Prune(type)}, Len(types)]

\* A walk over a whole type comes to a chain of instances that has closed.
Endless(type) == \E a \in Reachable(type) : IsBound(a)

\* _CleanupTypeVariables: the temporary links are gone.
Cleaned(type) ==
  LET reached == Reachable(type)
  IN [a \in DOMAIN types |->
        IF a \in reached /\ IsVariable(a)
        THEN [types[a] EXCEPT !.arg_second = NULL] ELSE types[a]]

-----------------------------------------------------------------------------
Activation(fn) ==
  [fn |-> fn, at |-> "start", node |-> program, env |-> <<>>,
   non_generics |-> <<>>, one |-> NULL, two |-> NULL]

top == calls[Len(calls)]
callers == SubSeq(calls, 1, Len(calls) - 1)

Running(fn, at) == calls # <<>> /\ top.fn = fn /\ top.at = at
Returned(fn, at) == Running(fn, at) /\ ret # None

CallFrom(activation, callee) ==
  /\ calls' = callers \o <<activation, callee>>
  /\ ret' = None
Become(activation) == calls' = Append(callers, activation) /\ ret' = None
Return(type) == calls' = callers /\ ret' = type

Analyze(node, env, non_generics) ==
  [Activation("Analyze") EXCEPT !.node = node, !.env = env,
                                !.non_generics = non_generics]
Generic(type, non_generics) ==
  [Activation("Generic") EXCEPT !.one = type, !.non_generics = non_generics]
Fresh(type) == [Activation("Fresh") EXCEPT !.one = type]
UnifyImpl(one, two) == [Activation("Unify") EXCEPT !.one = one, !.two = two]

\* _Unify, called from an activation; the parts of a type are unified later
\* under the same context.
CallUnify(activation, node, error_code, one, two) ==
  /\ unify' = [expression |-> node, error_code |-> error_code,
               original_one |-> one, original_two |-> two]
  /\ CallFrom(activation, UnifyImpl(one, two))

ReportTypeError(node, error_code) ==
  errors' = Append(errors, [expression |-> node, error_code |-> error_code])

\* The message names the types that were to be unified: the nodes stay as
\* they were, if the walk over them ends.
ReportEnds == ~Endless(unify.original_one) /\ ~Endless(unify.original_two)
ReportUnificationFailure(error_code) ==
  ReportEnds /\ ReportTypeError(unify.expression, error_code)

\* Environments and lists of types are innermost last.
BindType(env, id, type) == Append(env, [id |-> id, type |-> type])
LookupType(env, id) ==
  LET found == { i \in DOMAIN env : env[i].id = id }
  IN IF found = {} THEN NULL
     ELSE env[CHOOSE i \in found : \A j \in found : j <= i].type

IsErrorType(a) == types[a].type = "ERROR"

-----------------------------------------------------------------------------
TypeInit ==
  /\ program \in Programs
  /\ types = Statics
  /\ calls = <<Analyze(program, <<>>, <<>>)>>
  /\ ret = None
  /\ unify = [expression |-> program, error_code |-> "NONE",
              original_one |-> NULL, original_two |-> NULL]
  /\ errors = <<>>

Typed == calls = <<>> /\ ret # None

\* _Analyze has been called for a node of one of the types.
Analyzing(nodes) ==
  /\ Running("Analyze", "start") /\ top.node.type \in nodes
  /\ UNCHANGED program
Resuming(at) == Returned("Analyze", at) /\ UNCHANGED program

\* Calls itself for a part, in the environment of the whole.
AnalyzePart(activation, part) ==
  /\ CallFrom(activation, Analyze(part, top.env, top.non_generics))
  /\ UNCHANGED <<types, unify, errors>>

AnalyzeConstant ==
  /\ Analyzing({"INTEGER_CONSTANT", "TRUE", "FALSE"})
  /\ Return(IF top.node.type = "INTEGER_CONSTANT" THEN IntegerTypeExp
            ELSE BooleanTypeExp)
  /\ UNCHANGED <<types, unify, errors>>

\* Mutation: it gets the type itself.
AnalyzeIdentifierShared ==
  /\ Analyzing({"IDENTIFIER"})
  /\ LET type == LookupType(top.env, top.node.identifier_id)
     IN IF type = NULL
        THEN ReportTypeError(top.node, "UNBOUND") /\ Return(ErrorTypeExp)
        ELSE Return(type) /\ UNCHANGED errors
  /\ UNCHANGED <<types, unify>>

\* An identifier gets a fresh copy of the type it is bound to.
AnalyzeIdentifier ==
  /\ Analyzing({"IDENTIFIER"})
  /\ LET type == LookupType(top.env, top.node.identifier_id)
     IN IF type = NULL
        THEN /\ ReportTypeError(top.node, "UNBOUND")
             /\ Return(ErrorTypeExp)
        ELSE /\ CallFrom([top EXCEPT !.at = "copied", !.one = type], Fresh(type))
             /\ UNCHANGED errors
  /\ UNCHANGED <<types, unify>>

\* Mutation: the copies stay behind.
FinishIdentifierUnclean ==
  /\ Resuming("copied")
  /\ Return(ret)
  /\ UNCHANGED <<types, unify, errors>>

FinishIdentifier ==
  /\ Resuming("copied")
  /\ types' = Cleaned(top.one)
  /\ Return(ret)
  /\ UNCHANGED <<unify, errors>>

\* Mutation: the argument's variable is not put on the list.
AnalyzeLambdaGeneric ==
  /\ Analyzing({"LAMBDA"})
  /\ types' = Allocate(TypeVar)
  /\ CallFrom([top EXCEPT !.at = "body", !.one = New],
              Analyze(top.node.lambda_body,
                      BindType(top.env, top.node.lambda_id, New),
                      top.non_generics))
  /\ UNCHANGED <<unify, errors>>

AnalyzeLambda ==
  /\ Analyzing({"LAMBDA"})
  /\ types' = Allocate(TypeVar)
  /\ CallFrom([top EXCEPT !.at = "body", !.one = New],
              Analyze(top.node.lambda_body,
                      BindType(top.env, top.node.lambda_id, New),
                      Append(top.non_generics, New)))
  /\ UNCHANGED <<unify, errors>>

FinishLambda ==
  /\ Resuming("body")
  /\ types' = Allocate(TypeExp("FUNC", top.one, ret))
  /\ Return(New)
  /\ UNCHANGED <<unify, errors>>

AnalyzeApply ==
  /\ Analyzing({"APPLY"})
  /\ AnalyzePart([top EXCEPT !.at = "function"], top.node.apply_function)

ApplyArgument ==
  /\ Resuming("function")
  /\ AnalyzePart([top EXCEPT !.at = "argument", !.one = ret],
                 top.node.apply_argument)

\* The function's type is to be one from the argument's to a new variable.
ApplyUnify ==
  /\ Resuming("argument")
  /\ IF IsErrorType(top.one) \/ IsErrorType(ret)
     THEN Return(ErrorTypeExp) /\ UNCHANGED <<types, unify>>
     ELSE LET result == New
              function == New + 1
          IN /\ types' = types \o <<TypeVar, TypeExp("FUNC", ret, result)>>
             /\ CallUnify([top EXCEPT !.at = "applied", !.two = result],
                          top.node, "INVALID_FUNCTION_APPLY", function, top.one)
  /\ UNCHANGED errors

FinishApply ==
  /\ Resuming("applied")
  /\ Return(top.two)
  /\ UNCHANGED <<types, unify, errors>>

-----------------------------------------------------------------------------
\* The type of a let's value is made generic before the body sees it.
AnalyzeLet ==
  /\ Analyzing({"LET"})
  /\ AnalyzePart([top EXCEPT !.at = "value"], top.node.let_value)

LetGeneric ==
  /\ Resuming("value")
  /\ CallFrom([top EXCEPT !.at = "generic", !.one = ret],
              Generic(ret, top.non_generics))
  /\ UNCHANGED <<types, unify, errors>>

LetBody ==
  /\ Resuming("generic")
  /\ types' = Cleaned(top.one)
  /\ Become(Analyze(top.node.let_body,
                    BindType(top.env, top.node.let_id, ret), top.non_generics))
  /\ UNCHANGED <<unify, errors>>

\* The value of a let rec is analyzed with its name bound to a variable that
\* is not generic, which is bound to the generic type afterwards.
AnalyzeLetRec ==
  /\ Analyzing({"LETREC"})
  /\ types' = Allocate(TypeVar)
  /\ LET new_env == BindType(top.env, top.node.let_id, New)
     IN CallFrom([top EXCEPT !.at = "rec value", !.env = new_env, !.one = New],
                 Analyze(top.node.let_value, new_env,
                         Append(top.non_generics, New)))
  /\ UNCHANGED <<unify, errors>>

LetRecUnify ==
  /\ Resuming("rec value")
  /\ CallUnify([top EXCEPT !.at = "rec unified"], top.node,
               "INCONSISTENT_RECURSION", top.one, ret)
  /\ UNCHANGED <<types, errors>>

LetRecGeneric ==
  /\ Resuming("rec unified")
  /\ CallFrom([top EXCEPT !.at = "rec generic"],
              Generic(top.one, top.non_generics))
  /\ UNCHANGED <<types, unify, errors>>

LetRecBody ==
  /\ Resuming("rec generic")
  /\ types' = [Cleaned(top.one) EXCEPT ![top.one].arg_first = ret]
  /\ Become(Analyze(top.node.let_body, top.env, top.non_generics))
  /\ UNCHANGED <<unify, errors>>

-----------------------------------------------------------------------------
AnalyzeIf ==
  /\ Analyzing({"IF"})
  /\ AnalyzePart([top EXCEPT !.at = "test"], top.node.if_test)

IfTest ==
  /\ Resuming("test")
  /\ CallUnify([top EXCEPT !.at = "condition"], top.node.if_test,
               "IF_CONDITION_BOOLEAN", ret, BooleanTypeExp)
  /\ UNCHANGED <<types, errors>>

IfThen ==
  /\ Resuming("condition")
  /\ AnalyzePart([top EXCEPT !.at = "then"], top.node.if_then)

IfElse ==
  /\ Resuming("then")
  /\ AnalyzePart([top EXCEPT !.at = "else", !.one = ret], top.node.if_else)

IfUnify ==
  /\ Resuming("else")
  /\ CallUnify([top EXCEPT !.at = "branches"], top.node, "IF_BRANCHES_SAME",
               top.one, ret)
  /\ UNCHANGED <<types, errors>>

FinishIf ==
  /\ Resuming("branches")
  /\ Return(top.one)
  /\ UNCHANGED <<types, unify, errors>>

\* _operators: what the operands are to be, and the result.
OperatorEntry(op) ==
  IF op = "EQUALS" THEN [left |-> NULL, right |-> NULL, result |-> BooleanTypeExp]
  ELSE [left |-> IntegerTypeExp, right |-> IntegerTypeExp,
        result |-> IntegerTypeExp]
TopEntry == OperatorEntry(top.node.binary_operator)

AnalyzeBinary ==
  /\ Analyzing({"BINARY"})
  /\ AnalyzePart([top EXCEPT !.at = "left"], top.node.binary_left)

BinaryRight ==
  /\ Resuming("left")
  /\ AnalyzePart([top EXCEPT !.at = "right", !.one = ret], top.node.binary_right)

UnifyOperand(activation, type, other) ==
  /\ CallUnify(activation, top.node, "NO_VALID_BINARY_OPERATOR", type, other)
  /\ UNCHANGED <<types, errors>>

BinaryUnifyLeft ==
  /\ Resuming("right") /\ TopEntry.left # NULL
  /\ UnifyOperand([top EXCEPT !.at = "left unified", !.two = ret],
                  top.one, TopEntry.left)

BinaryUnifyRight ==
  /\ Resuming("left unified")
  /\ UnifyOperand([top EXCEPT !.at = "right unified"], top.two, TopEntry.right)

BinaryUnifyBoth ==
  \/ /\ Resuming("right unified")
     /\ UnifyOperand([top EXCEPT !.at = "unified"], top.one, top.two)
  \/ /\ Resuming("right") /\ TopEntry.left = NULL
     /\ UnifyOperand([top EXCEPT !.at = "unified", !.two = ret], top.one, ret)

FinishBinary ==
  /\ Resuming("unified")
  /\ Return(TopEntry.result)
  /\ UNCHANGED <<types, unify, errors>>

\* A sign is given the type of its operand, whatever that is.
AnalyzeUnary ==
  /\ Analyzing({"UNARY"})
  /\ Become([top EXCEPT !.node = top.node.unary_arg])
  /\ UNCHANGED <<types, unify, errors>>

AnalyzeTuple ==
  /\ Analyzing({"TUPLE", "TUPLE_FINAL"})
  /\ AnalyzePart([top EXCEPT !.at = "first"], top.node.tuple_first)

TupleRest ==
  /\ Resuming("first") /\ top.node.type = "TUPLE"
  /\ AnalyzePart([top EXCEPT !.at = "rest", !.one = ret], top.node.tuple_rest)

FinishTuple ==
  /\ \/ Resuming("rest") /\ types' = Allocate(TypeExp("TUPLE", top.one, ret))
     \/ /\ Resuming("first") /\ top.node.type = "TUPLE_FINAL"
        /\ types' = Allocate(TypeExp("TUPLE_FINAL", ret, NULL))
  /\ Return(New)
  /\ UNCHANGED <<unify, errors>>

-----------------------------------------------------------------------------
(***************************************************************************)
(* _MakeGenericTypeExpImpl and _MakeFreshTypeExpCopy copy a type, the one  *)
(* with generic variables for its variables, the other with variables for  *)
(* its generic ones.  The copy of a variable that was met before is in its *)
(* var_temp_other; a type of which nothing changes is not copied.          *)
(***************************************************************************)
Copying(fn) ==
  /\ Running(fn, "start") /\ ~PruneLoops(top.one)
  /\ UNCHANGED <<program, unify, errors>>
Copied == types[Prune(top.one)]

\* The variable is replaced by a new node of a type, or stands for itself.
ReplaceBy(type) ==
  /\ types' = [Allocate(TypeExp(type, NULL, NULL))
                 EXCEPT ![Prune(top.one)].arg_second = New]
  /\ Return(New)
KeepVariable ==
  /\ types' = [types EXCEPT ![Prune(top.one)].arg_second = Prune(top.one)]
  /\ Return(Prune(top.one))

GenericVariable ==
  /\ Copying("Generic") /\ Copied.type = "VARIABLE" /\ Copied.arg_second = NULL
  /\ LET answer == NonGeneric(Prune(top.one), top.non_generics)
     IN \/ answer = "yes" /\ KeepVariable
        \/ answer = "no" /\ ReplaceBy("GENERIC_VARIABLE")

FreshVariable ==
  /\ Copying("Fresh")
  /\ Copied.type = "GENERIC_VARIABLE" /\ Copied.arg_second = NULL
  /\ ReplaceBy("VARIABLE")

Replaced(fn) == IF fn = "Generic" THEN "VARIABLE" ELSE "GENERIC_VARIABLE"
Compound == {"FUNC", "TUPLE", "TUPLE_FINAL"}

\* A variable that has its copy, and what has no copy.
CopyKnown ==
  \E fn \in {"Generic", "Fresh"} :
    /\ Copying(fn) /\ Copied.type \notin Compound
    /\ \/ Copied.type = Replaced(fn) /\ Copied.arg_second # NULL
          /\ Return(Copied.arg_second)
       \/ Copied.type # Replaced(fn) /\ Return(Prune(top.one))
    /\ UNCHANGED types

CopyPart(activation, type) ==
  CallFrom(activation, [top EXCEPT !.at = "start", !.one = type])

CopyFirst ==
  \E fn \in {"Generic", "Fresh"} :
    /\ Copying(fn) /\ Copied.type \in Compound
    /\ CopyPart([top EXCEPT !.at = "copy first", !.one = Prune(top.one)],
                Copied.arg_first)
    /\ UNCHANGED types

\* Mutation: of a TUPLE_FINAL as well.
CopySecondAlways ==
  /\ \E fn \in {"Generic", "Fresh"} : Returned(fn, "copy first")
  /\ CopyPart([top EXCEPT !.at = "copy second", !.two = ret],
              types[top.one].arg_second)
  /\ UNCHANGED <<program, types, unify, errors>>

CopySecond ==
  /\ \E fn \in {"Generic", "Fresh"} : Returned(fn, "copy first")
  /\ types[top.one].type # "TUPLE_FINAL"
  /\ CopyPart([top EXCEPT !.at = "copy second", !.two = ret],
              types[top.one].arg_second)
  /\ UNCHANGED <<program, types, unify, errors>>

\* The type itself when its parts are the ones it has, or a new node.
Rebuild(first, second) ==
  IF types[top.one].arg_first = first /\ types[top.one].arg_second = second
  THEN Return(top.one) /\ UNCHANGED types
  ELSE /\ types' = Allocate(TypeExp(types[top.one].type, first, second))
       /\ Return(New)

FinishCopy ==
  /\ \E fn \in {"Generic", "Fresh"} :
       \/ Returned(fn, "copy second") /\ Rebuild(top.two, ret)
       \/ /\ Returned(fn, "copy first") /\ types[top.one].type = "TUPLE_FINAL"
          /\ Rebuild(ret, NULL)
  /\ UNCHANGED <<program, unify, errors>>

-----------------------------------------------------------------------------
(***************************************************************************)
(* _UnifyImpl makes two types equal by binding variables in them.  If only *)
(* one of the two is a variable it is taken for the first.                 *)
(***************************************************************************)
One == IF types[Prune(top.two)].type = "VARIABLE" THEN Prune(top.two)
       ELSE Prune(top.one)
Two == IF types[Prune(top.two)].type = "VARIABLE" THEN Prune(top.one)
       ELSE Prune(top.two)

Unifying ==
  /\ Running("Unify", "start") /\ ~PruneLoops(top.one) /\ ~PruneLoops(top.two)
  /\ UNCHANGED program

\* An error has been reported for one of them, or there is nothing to do.
UnifyNothing ==
  /\ Unifying
  /\ \/ IsErrorType(One) \/ IsErrorType(Two)
     \/ types[One].type = "VARIABLE" /\ One = Two
     \/ /\ types[One].type \notin Compound \union {"VARIABLE"}
        /\ types[One].type = types[Two].type
  /\ Return(NULL)
  /\ UNCHANGED <<types, unify, errors>>

\* Mutation: without the occurs check.
UnifyVariableUnchecked ==
  /\ Unifying /\ ~IsErrorType(One) /\ ~IsErrorType(Two)
  /\ types[One].type = "VARIABLE" /\ One # Two
  /\ types' = [types EXCEPT ![One].arg_first = Two]
  /\ Return(NULL)
  /\ UNCHANGED <<unify, errors>>

UnifyVariable ==
  /\ Unifying /\ ~IsErrorType(One) /\ ~IsErrorType(Two)
  /\ types[One].type = "VARIABLE" /\ One # Two
  /\ \/ /\ Contained(One, Two) = "yes"
        /\ unify' = [unify EXCEPT !.error_code = "SELF_RECURSIVE"]
        /\ ReportUnificationFailure("SELF_RECURSIVE")
        /\ UNCHANGED types
     \/ /\ Contained(One, Two) = "no"
        /\ types' = [types EXCEPT ![One].arg_first = Two]
        /\ UNCHANGED <<unify, errors>>
  /\ Return(NULL)

UnifyMismatch ==
  /\ Unifying /\ ~IsErrorType(One) /\ ~IsErrorType(Two)
  /\ types[One].type \notin {"VARIABLE", types[Two].type}
  /\ ReportUnificationFailure(unify.error_code)
  /\ Return(NULL)
  /\ UNCHANGED <<types, unify>>

UnifyFirst ==
  /\ Unifying
  /\ types[One].type \in Compound /\ types[One].type = types[Two].type
  /\ CallFrom([top EXCEPT !.at = "unify second", !.one = One, !.two = Two],
              UnifyImpl(types[One].arg_first, types[Two].arg_first))
  /\ UNCHANGED <<types, unify, errors>>

\* Mutation: starts over with the types instead of their second parts.
UnifySecondAgain ==
  /\ Returned("Unify", "unify second") /\ UNCHANGED program
  /\ IF types[top.one].arg_second = NULL THEN Return(NULL)
     ELSE Become(UnifyImpl(top.one, top.two))
  /\ UNCHANGED <<types, unify, errors>>

\* Also when the first parts could not be unified.
UnifySecond ==
  /\ Returned("Unify", "unify second") /\ UNCHANGED program
  /\ IF types[top.one].arg_second = NULL THEN Return(NULL)
     ELSE Become(UnifyImpl(types[top.one].arg_second, types[top.two].arg_second))
  /\ UNCHANGED <<types, unify, errors>>

AnalyzeNext ==
  \/ AnalyzeConstant \/ AnalyzeIdentifier \/ FinishIdentifier
  \/ AnalyzeLambda \/ FinishLambda
  \/ AnalyzeApply \/ ApplyArgument \/ ApplyUnify \/ FinishApply
  \/ AnalyzeLet \/ LetGeneric \/ LetBody
  \/ AnalyzeLetRec \/ LetRecUnify \/ LetRecGeneric \/ LetRecBody
  \/ AnalyzeIf \/ IfTest \/ IfThen \/ IfElse \/ IfUnify \/ FinishIf
  \/ AnalyzeBinary \/ BinaryRight \/ BinaryUnifyLeft \/ BinaryUnifyRight
  \/ BinaryUnifyBoth \/ FinishBinary
  \/ AnalyzeUnary \/ AnalyzeTuple \/ TupleRest \/ FinishTuple

CopyNext ==
  \/ GenericVariable \/ FreshVariable \/ CopyKnown
  \/ CopyFirst \/ CopySecond \/ FinishCopy

UnifyNext ==
  \/ UnifyNothing \/ UnifyVariable \/ UnifyMismatch \/ UnifyFirst \/ UnifySecond

TypeNext == AnalyzeNext \/ CopyNext \/ UnifyNext

\* The innermost function walks around a cycle: its loop does not end, or
\* its recursion uses up the stack.
CopyDiverges ==
  /\ top.fn \in {"Generic", "Fresh"}
  /\ \/ PruneLoops(top.one)
     \/ /\ top.fn = "Generic" /\ Copied.type = "VARIABLE"
        /\ Copied.arg_second = NULL
        /\ NonGeneric(Prune(top.one), top.non_generics) = "never"

UnifyDiverges ==
  /\ top.fn = "Unify"
  /\ \/ PruneLoops(top.one) \/ PruneLoops(top.two)
     \/ /\ ~IsErrorType(One) /\ ~IsErrorType(Two) /\ ~ReportEnds
        /\ types[One].type \notin {"VARIABLE", types[Two].type}
     \/ /\ types[One].type = "VARIABLE" /\ One # Two /\ ~IsErrorType(Two)
        /\ \/ Contained(One, Two) = "never"
           \/ Contained(One, Two) = "yes" /\ ~ReportEnds

Diverges ==
  calls # <<>> /\ top.at = "start" /\ (CopyDiverges \/ UnifyDiverges)

\* The checker has returned, or it goes on forever.
TypeStop == (Typed \/ Diverges) /\ UNCHANGED typevars

TypeSpec ==
  TypeInit /\ [][TypeNext \/ TypeStop]_typevars /\ WF_typevars(TypeNext)

-----------------------------------------------------------------------------
\* A pointer to a node, or NULL.
Address == DOMAIN types \union {NULL}

NodeTypes == {"INVALID", "ERROR", "FUNC", "GENERIC_VARIABLE", "INT", "BOOL",
              "VARIABLE", "TUPLE", "TUPLE_FINAL"}

Functions == {"Analyze", "Generic", "Fresh", "Unify"}

CallOK(call) ==
  /\ call.fn \in Functions
  /\ {call.one, call.two} \subseteq Address
  /\ \A i \in DOMAIN call.env : call.env[i].type \in DOMAIN types
  /\ \A i \in DOMAIN call.non_generics : call.non_generics[i] \in DOMAIN types
  /\ call.fn # "Analyze" => call.one # NULL
  /\ call.fn = "Unify" => call.two # NULL

\* Pointers point to nodes, and the parts of a compound type are there: no
\* function of the checker reads through NULL (typecheck.c).
TypeTypeOK ==
  /\ \A a \in DOMAIN types :
       /\ types[a].type \in NodeTypes
       /\ {types[a].arg_first, types[a].arg_second} \subseteq Address
       /\ types[a].type \in Compound => types[a].arg_first # NULL
       /\ types[a].type \in {"FUNC", "TUPLE"} => types[a].arg_second # NULL
  /\ \A i \in DOMAIN calls : CallOK(calls[i])
  /\ ret \in Address \union {None}

-----------------------------------------------------------------------------
(***************************************************************************)
(* FormatTypeExpression: the words that name a type that is not Endless.   *)
(* Variables are named in the order in which they are met; a TUPLE_FINAL   *)
(* is its element, so a tuple in a tuple is not told apart.                *)
(***************************************************************************)
Variables(type) ==
  LET met[a \in DOMAIN types, depth \in 0 .. Len(types)] ==
        LET first == met[Prune(types[a].arg_first), depth - 1]
        IN CASE IsVariable(a) -> <<a>>
             [] types[a].type \in {"FUNC", "TUPLE"} ->
                  first \o met[Prune(types[a].arg_second), depth - 1]
             [] types[a].type = "TUPLE_FINAL" -> first
             [] OTHER -> <<>>
  IN met[Prune(type), Len(types)]

type_names == <<"A", "B", "C", "D", "E", "F", "G", "H", "I", "J", "K", "L",
                "M", "N", "O", "P", "Q", "R">>

\* The place of a variable among the distinct ones of a type.
NumberIn(type, a) ==
  LET met == Variables(type)
      first == CHOOSE i \in DOMAIN met :
                 met[i] = a /\ \A j \in 1 .. i - 1 : met[j] # a
  IN Cardinality({ met[i] : i \in 1 .. first })

FormatTypeExpression(type) ==
  LET words[a \in DOMAIN types, depth \in 0 .. Len(types)] ==
        LET first == words[Prune(types[a].arg_first), depth - 1]
            second == words[Prune(types[a].arg_second), depth - 1]
        IN CASE IsVariable(a) -> <<type_names[NumberIn(type, a)]>>
             [] types[a].type = "FUNC" ->
                  <<"(">> \o first \o <<"->">> \o second \o <<")">>
             [] types[a].type = "TUPLE" -> first \o <<"*">> \o second
             [] types[a].type = "TUPLE_FINAL" -> first
             [] types[a].type = "INT" -> <<"int">>
             [] types[a].type = "BOOL" -> <<"bool">>
             [] OTHER -> <<"{{Error}}">>
  IN words[Prune(type), Len(types)]

=============================================================================
