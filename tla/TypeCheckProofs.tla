-------------------------- MODULE TypeCheckProofs ---------------------------
(***************************************************************************)
(* The type checker never follows a pointer that is NULL: TypeTypeOK is an *)
(* invariant, whatever expressions are typed.                              *)
(*                                                                         *)
(* The inductive invariant, TypeInv, adds the shape of the nodes, what an  *)
(* activation keeps from one of its calls to the next, and which of the    *)
(* functions it waits for.                                                 *)
(***************************************************************************)
EXTENDS TypeCheck, SequenceTheorems, WellFoundedInduction, TLAPS

\* A sequence of anything.
IsSequence(s) == s \in Seq(Range(s))

\* A type expression, whatever its pointers.
Node == [type : NodeTypes, arg_first : Nat, arg_second : Nat]

\* The pointers of a node, when there are n of them.
PointersOK(node, n) ==
  /\ node.arg_first \in 0 .. n /\ node.arg_second \in 0 .. n
  /\ node.type \in Compound => node.arg_first # NULL
  /\ node.type \in {"FUNC", "TUPLE"} => node.arg_second # NULL
  /\ node.type = "TUPLE_FINAL" => node.arg_second = NULL

Graph(nodes) ==
  /\ nodes \in Seq(Node) /\ Len(nodes) > 2
  /\ \A a \in 1 .. Len(nodes) : PointersOK(nodes[a], Len(nodes))

\* From one state to the next: no node becomes another type, and only
\* variables are changed.
Evolves(nodes, later) ==
  /\ Len(nodes) <= Len(later)
  /\ \A a \in 1 .. Len(nodes) :
       /\ later[a].type = nodes[a].type
       /\ nodes[a].type \in Compound => later[a] = nodes[a]

-----------------------------------------------------------------------------
\* What is there to be called, and what for.
IsActivation(call) ==
  call = [fn |-> call.fn, at |-> call.at, node |-> call.node, env |-> call.env,
          non_generics |-> call.non_generics, one |-> call.one, two |-> call.two]

\* Where an activation waits for _UnifyImpl, which returns nothing.
ForUnify == {"applied", "rec unified", "condition", "branches", "left unified",
             "right unified", "unified", "unify second"}

\* Where it has a type of its own in one, or in two.
HasOne == {"body", "argument", "rec value", "rec unified", "rec generic", "else",
           "branches", "right", "left unified", "right unified", "rest"}
HasTwo == {"applied", "left unified", "right unified", "copy second"}

\* An activation, when there are these nodes.
KeptByCall(call, nodes) ==
  /\ call.at \in HasOne => call.one # NULL
  /\ call.at \in HasTwo => call.two # NULL
  /\ call.at = "left unified" => call.node.binary_operator # "EQUALS"
  /\ call.at \in {"rec value", "rec unified", "rec generic"} =>
       nodes[call.one].type = "VARIABLE"
  /\ call.at = "copy first" =>
       call.fn \in {"Generic", "Fresh"} /\ nodes[call.one].type \in Compound
  /\ call.at = "copy second" =>
       call.fn \in {"Generic", "Fresh"} /\ nodes[call.one].type \in {"FUNC", "TUPLE"}
  /\ call.at = "unify second" =>
       /\ call.fn = "Unify" /\ nodes[call.one].type \in Compound
       /\ nodes[call.two].type = nodes[call.one].type

CallInv(call, nodes) ==
  /\ IsActivation(call)
  /\ call.fn \in Functions
  /\ call.one \in 0 .. Len(nodes) /\ call.two \in 0 .. Len(nodes)
  /\ IsSequence(call.env) /\ IsSequence(call.non_generics)
  /\ \A i \in DOMAIN call.env : call.env[i].type \in 1 .. Len(nodes)
  /\ \A i \in DOMAIN call.non_generics : call.non_generics[i] \in 1 .. Len(nodes)
  /\ call.fn # "Analyze" => call.one # NULL
  /\ call.fn = "Unify" => call.two # NULL
  /\ KeptByCall(call, nodes)

\* The stack: an activation waits for the function that runs next.
Stack(stack, nodes) ==
  /\ IsSequence(stack)
  /\ \A i \in DOMAIN stack : CallInv(stack[i], nodes)
  /\ \A i \in DOMAIN stack : i < Len(stack) =>
       (stack[i].at \in ForUnify <=> stack[i + 1].fn = "Unify")

\* What was returned is a type, to an activation that waits for one.
Result(stack, nodes, result) ==
  /\ result \in {None} \union 0 .. Len(nodes)
  /\ result = NULL /\ stack # <<>> => stack[Len(stack)].at \in ForUnify

TypeInv ==
  /\ Graph(types)
  /\ Stack(calls, types)
  /\ Result(calls, types, ret)

-----------------------------------------------------------------------------
(***************************************************************************)
(* The chain of instances of a type leads to a type.                       *)
(***************************************************************************)
\* A set of natural numbers has a least element.
LEMMA LeastNatural ==
  ASSUME NEW S \in SUBSET Nat, S # {}
  PROVE  \E m \in S : \A n \in S : m <= n
<1> DEFINE Less == OpToRel(<, Nat)
<1>1. IsWellFoundedOn(Less, Nat)
  BY NatLessThanWellFounded
<1>2. \A n, m \in Nat : n < m => <<n, m>> \in Less
  BY DEF OpToRel
<1> HIDE DEF Less
<1>3. PICK m \in S : \A n \in S : ~ (<<n, m>> \in Less)
  BY <1>1, WFMin
<1>4. ASSUME NEW n \in S PROVE ~(n < m) /\ n \in Nat /\ m \in Nat
  BY <1>2, <1>3
<1>5. \A n \in S : m <= n
  BY <1>4
<1> QED
  BY <1>5

\* Prune and its recursion, apart from the variables.
Chase(nodes, prune, steps) ==
  [a \in DOMAIN nodes |->
     IF steps = 0 \/ ~(nodes[a].type = "VARIABLE" /\ nodes[a].arg_first # NULL)
     THEN a ELSE prune[steps - 1][nodes[a].arg_first]]
Chases(nodes, n, prune) ==
  prune = [steps \in 0 .. n |-> Chase(nodes, prune, steps)]

\* The recursion has a solution, for any number of steps.
LEMMA ChaseExists ==
  ASSUME NEW nodes, NEW n \in Nat
  PROVE  \E prune : Chases(nodes, n, prune)
<1> DEFINE Without == { m \in Nat : ~\E prune : Chases(nodes, m, prune) }
<1>1. ASSUME Without # {} PROVE FALSE
  <2>1. PICK m \in Without : \A k \in Without : m <= k
    BY <1>1, LeastNatural
  <2>2. CASE m = 0
    <3> DEFINE prune == [steps \in 0 .. 0 |-> Chase(nodes, <<>>, 0)]
    <3>1. \A steps \in 0 .. 0 : Chase(nodes, prune, steps) = Chase(nodes, <<>>, 0)
      BY DEF Chase
    <3>2. Chases(nodes, 0, prune)
      BY <3>1 DEF Chases
    <3> HIDE DEF prune
    <3> QED
      BY <2>1, <2>2, <3>2
  <2>3. CASE m # 0
    <3>1. m - 1 \in Nat /\ ~(m <= m - 1)
      BY <2>1, <2>3
    <3>2. PICK g : Chases(nodes, m - 1, g)
      BY <2>1, <3>1
    <3> DEFINE prune == [steps \in 0 .. m |-> Chase(nodes, g, steps)]
    <3>3. ASSUME NEW steps \in 0 .. m
          PROVE  Chase(nodes, prune, steps) = Chase(nodes, g, steps)
      <4>1. CASE steps = 0
        BY <4>1 DEF Chase
      <4>2. CASE steps # 0
        <5>1. steps - 1 \in 0 .. m - 1 /\ steps - 1 \in 0 .. m
          BY <2>1, <4>2
        <5>2. prune[steps - 1] = g[steps - 1]
          BY <3>2, <5>1 DEF Chases
        <5> HIDE DEF prune
        <5> QED
          BY <5>2 DEF Chase
      <4> QED
        BY <4>1, <4>2
    <3>4. Chases(nodes, m, prune)
      BY <3>3 DEF Chases
    <3> HIDE DEF prune
    <3> QED
      BY <2>1, <3>4
  <2> QED
    BY <2>2, <2>3
<1> QED
  BY <1>1

\* And it leads from nodes to nodes.
LEMMA ChaseStays ==
  ASSUME NEW nodes, Graph(nodes), NEW n \in Nat, NEW prune, Chases(nodes, n, prune)
  PROVE  \A steps \in 0 .. n : \A a \in DOMAIN nodes : prune[steps][a] \in DOMAIN nodes
<1> DEFINE Leaves(steps) == \E a \in DOMAIN nodes : prune[steps][a] \notin DOMAIN nodes
           Wrong == { steps \in 0 .. n : Leaves(steps) }
<1>1. \A a \in DOMAIN nodes : nodes[a].arg_first # NULL => nodes[a].arg_first \in DOMAIN nodes
  BY LenProperties DEF Graph, PointersOK, NULL
<1>2. \A steps \in 0 .. n : \A a \in DOMAIN nodes :
        prune[steps][a] = IF steps = 0 \/ ~(nodes[a].type = "VARIABLE"
                                            /\ nodes[a].arg_first # NULL)
                          THEN a ELSE prune[steps - 1][nodes[a].arg_first]
  <2> TAKE steps \in 0 .. n
  <2> TAKE a \in DOMAIN nodes
  <2>1. prune[steps] = Chase(nodes, prune, steps)
    BY DEF Chases
  <2> QED
    BY <2>1, Zenon DEF Chase
<1>3. ASSUME Wrong # {} PROVE FALSE
  <2>1. PICK m \in Wrong : \A k \in Wrong : m <= k
    <3>1. Wrong \in SUBSET Nat
      OBVIOUS
    <3> HIDE DEF Wrong
    <3> QED
      BY <1>3, <3>1, LeastNatural
  <2>2. PICK a \in DOMAIN nodes : prune[m][a] \notin DOMAIN nodes
    BY <2>1
  <2>3. m # 0 /\ prune[m][a] = prune[m - 1][nodes[a].arg_first]
        /\ nodes[a].arg_first \in DOMAIN nodes
    BY <1>1, <1>2, <2>1, <2>2
  <2>4. m - 1 \in 0 .. n /\ ~(m <= m - 1)
    BY <2>1, <2>3
  <2>5. m - 1 \notin Wrong
    BY <2>1, <2>4
  <2> QED
    BY <2>2, <2>3, <2>4, <2>5
<1> QED
  BY <1>3

\* The end of a chain is a node.
LEMMA PruneIsNode ==
  ASSUME Graph(types), NEW type \in 1 .. Len(types)
  PROVE  Prune(type) \in 1 .. Len(types)
<1> DEFINE IsPrune(f) == Chases(types, Len(types), f)
           prune == CHOOSE f : IsPrune(f)
<1>1. Prune(type) = prune[Len(types)][type]
  BY Zenon DEF Prune, IsBound, Chases, Chase
<1>2. Len(types) \in Nat /\ DOMAIN types = 1 .. Len(types)
  BY LenProperties DEF Graph
<1>3. \E f : IsPrune(f)
  BY <1>2, ChaseExists
<1> HIDE DEF IsPrune
<1>4. IsPrune(prune)
  BY <1>3, Zenon
<1> HIDE DEF prune
<1>5. Len(types) \in 0 .. Len(types)
  BY <1>2
<1> QED
  BY <1>1, <1>2, <1>4, <1>5, ChaseStays DEF IsPrune

-----------------------------------------------------------------------------
(***************************************************************************)
(* What a step may do to the nodes.                                        *)
(***************************************************************************)
\* Nothing.
LEMMA Unchanged ==
  ASSUME NEW nodes, Graph(nodes)
  PROVE  Evolves(nodes, nodes) /\ Len(nodes) \in Nat /\ DOMAIN nodes = 1 .. Len(nodes)
BY LenProperties DEF Evolves, Graph

\* One thing after another.
LEMMA EvolvesTwice ==
  ASSUME NEW nodes, NEW later, NEW last, Graph(nodes), Graph(later), Graph(last),
         Evolves(nodes, later), Evolves(later, last)
  PROVE  Evolves(nodes, last)
<1>1. Len(nodes) \in Nat /\ Len(later) \in Nat /\ Len(last) \in Nat
  BY Unchanged
<1>2. \A a \in 1 .. Len(nodes) : a \in 1 .. Len(later)
  BY <1>1 DEF Evolves
<1> QED
  BY <1>1, <1>2 DEF Evolves

\* A node is allocated.
LEMMA NodeAllocated ==
  ASSUME NEW nodes, Graph(nodes), NEW node \in Node, PointersOK(node, Len(nodes) + 1)
  PROVE  LET later == Append(nodes, node)
         IN /\ Graph(later) /\ Evolves(nodes, later)
            /\ Len(nodes) \in Nat /\ Len(later) = Len(nodes) + 1
            /\ later[Len(nodes) + 1] = node
<1> DEFINE later == Append(nodes, node)
           n == Len(nodes)
<1>1. /\ n \in Nat /\ later \in Seq(Node) /\ Len(later) = n + 1
      /\ \A a \in 1 .. n : later[a] = nodes[a]
      /\ later[n + 1] = node
  BY AppendProperties, LenProperties DEF Graph
<1>2. \A a \in 1 .. n : PointersOK(nodes[a], n + 1)
  BY <1>1 DEF Graph, PointersOK
<1> HIDE DEF later
<1>3. \A a \in 1 .. n + 1 : PointersOK(later[a], n + 1)
  <2>1. \A a \in 1 .. n + 1 : a \in 1 .. n \/ a = n + 1
    BY <1>1
  <2> QED
    BY <1>1, <1>2, <2>1
<1>4. n + 1 > 2 /\ n <= n + 1
  BY <1>1 DEF Graph
<1>5. Graph(later) /\ Evolves(nodes, later)
  BY <1>1, <1>3, <1>4 DEF Graph, Evolves
<1> QED
  BY <1>1, <1>5 DEF later

\* A variable is changed.
LEMMA VariableSet ==
  ASSUME NEW nodes, Graph(nodes), NEW a \in 1 .. Len(nodes),
         nodes[a].type \in {"VARIABLE", "GENERIC_VARIABLE"}, NEW x \in 0 .. Len(nodes),
         NEW later,
         \/ later = [nodes EXCEPT ![a].arg_first = x]
         \/ later = [nodes EXCEPT ![a].arg_second = x]
  PROVE  Graph(later) /\ Evolves(nodes, later) /\ Len(later) = Len(nodes)
<1> DEFINE n == Len(nodes)
<1>1. /\ n \in Nat /\ DOMAIN nodes = 1 .. n /\ nodes \in [1 .. n -> Node]
      /\ nodes[a] \in Node /\ n > 2
  BY LenProperties DEF Graph
<1>2. PICK node \in Node : /\ later = [nodes EXCEPT ![a] = node]
                           /\ node.type = nodes[a].type /\ PointersOK(node, n)
  <2>1. x \in Nat /\ PointersOK(nodes[a], n)
    BY <1>1 DEF Graph
  <2>2. CASE later = [nodes EXCEPT ![a].arg_first = x]
    <3> DEFINE node == [nodes[a] EXCEPT !.arg_first = x]
    <3>1. /\ node \in Node /\ node.type = nodes[a].type /\ node.arg_first = x
          /\ node.arg_second = nodes[a].arg_second
      BY <1>1, <2>1 DEF Node
    <3>2. later = [nodes EXCEPT ![a] = node]
      BY <2>2
    <3> HIDE DEF node
    <3> QED
      BY <2>1, <3>1, <3>2 DEF PointersOK, Compound
  <2>3. CASE later = [nodes EXCEPT ![a].arg_second = x]
    <3> DEFINE node == [nodes[a] EXCEPT !.arg_second = x]
    <3>1. /\ node \in Node /\ node.type = nodes[a].type /\ node.arg_second = x
          /\ node.arg_first = nodes[a].arg_first
      BY <1>1, <2>1 DEF Node
    <3>2. later = [nodes EXCEPT ![a] = node]
      BY <2>3
    <3> HIDE DEF node
    <3> QED
      BY <2>1, <3>1, <3>2 DEF PointersOK, Compound
  <2> QED
    BY <2>2, <2>3
<1>3. later \in [1 .. n -> Node]
  BY <1>1, <1>2
<1>4. later \in Seq(Node) /\ Len(later) = n
  BY <1>1, <1>3, SeqDef, LenProperties
<1>5. \A b \in 1 .. n : later[b] = IF b = a THEN node ELSE nodes[b]
  BY <1>1, <1>2
<1>6. \A b \in 1 .. n : PointersOK(later[b], n)
  BY <1>2, <1>5 DEF Graph
<1>7. \A b \in 1 .. n : /\ later[b].type = nodes[b].type
                        /\ nodes[b].type \in Compound => later[b] = nodes[b]
  BY <1>2, <1>5 DEF Compound
<1> QED
  BY <1>1, <1>4, <1>6, <1>7 DEF Graph, Evolves

\* Its second pointer.
LEMMA SecondSet ==
  ASSUME NEW nodes, Graph(nodes), NEW a \in 1 .. Len(nodes),
         nodes[a].type \in {"VARIABLE", "GENERIC_VARIABLE"}, NEW x \in 0 .. Len(nodes)
  PROVE  LET later == [nodes EXCEPT ![a].arg_second = x]
         IN Graph(later) /\ Evolves(nodes, later) /\ Len(later) = Len(nodes)
<1> DEFINE later == [nodes EXCEPT ![a].arg_second = x]
<1>1. \/ later = [nodes EXCEPT ![a].arg_first = x]
      \/ later = [nodes EXCEPT ![a].arg_second = x]
  OBVIOUS
<1> HIDE DEF later
<1>2. Graph(later) /\ Evolves(nodes, later) /\ Len(later) = Len(nodes)
  BY <1>1, VariableSet
<1> QED
  BY <1>2 DEF later

\* The temporary links are removed.
LEMMA CleanedKeeps ==
  ASSUME Graph(types), NEW type
  PROVE  /\ Graph(Cleaned(type)) /\ Evolves(types, Cleaned(type))
         /\ Len(Cleaned(type)) = Len(types)
<1> DEFINE later == Cleaned(type)
           n == Len(types)
           reached == Reachable(type)
<1>1. /\ n \in Nat /\ DOMAIN types = 1 .. n /\ n > 2
      /\ \A a \in 1 .. n : types[a] \in Node /\ PointersOK(types[a], n)
  BY LenProperties DEF Graph
<1> HIDE DEF reached
<1>2. later = [a \in 1 .. n |->
                 IF a \in reached /\ IsVariable(a)
                 THEN [types[a] EXCEPT !.arg_second = NULL] ELSE types[a]]
  BY <1>1 DEF Cleaned, reached
<1>3. ASSUME NEW a \in 1 .. n
      PROVE  /\ later[a] \in Node /\ PointersOK(later[a], n)
             /\ later[a].type = types[a].type
             /\ types[a].type \in Compound => later[a] = types[a]
  <2>1. CASE later[a] = types[a]
    BY <1>1, <2>1
  <2>2. CASE IsVariable(a) /\ later[a] = [types[a] EXCEPT !.arg_second = NULL]
    <3> DEFINE node == [types[a] EXCEPT !.arg_second = NULL]
    <3>1. /\ node \in Node /\ node.type = types[a].type /\ node.arg_second = NULL
          /\ node.arg_first = types[a].arg_first
      BY <1>1 DEF Node, NULL
    <3>2. types[a].type \in {"VARIABLE", "GENERIC_VARIABLE"} /\ later[a] = node
      BY <2>2 DEF IsVariable
    <3> HIDE DEF node
    <3> QED
      BY <1>1, <3>1, <3>2 DEF PointersOK, Compound, NULL
  <2> HIDE DEF later
  <2> QED
    BY <1>2, <2>1, <2>2
<1>4. later \in [1 .. n -> Node]
  <2> HIDE DEF later
  <2> QED
    BY <1>2, <1>3
<1> HIDE DEF later
<1>5. later \in Seq(Node) /\ Len(later) = n
  BY <1>1, <1>4, SeqDef, LenProperties
<1>6. Graph(later) /\ Evolves(types, later)
  BY <1>1, <1>3, <1>5 DEF Graph, Evolves
<1> QED
  BY <1>5, <1>6 DEF later

-----------------------------------------------------------------------------
(***************************************************************************)
(* What a step may do to the stack.                                        *)
(***************************************************************************)
\* What an activation keeps stays right.
LEMMA CallEvolves ==
  ASSUME NEW nodes, NEW later, Graph(nodes), Graph(later), Evolves(nodes, later),
         NEW call, CallInv(call, nodes)
  PROVE  CallInv(call, later)
<1>1. /\ Len(nodes) \in Nat /\ Len(later) \in Nat /\ Len(nodes) <= Len(later)
      /\ \A a \in 0 .. Len(nodes) : a \in 0 .. Len(later)
      /\ \A a \in 1 .. Len(nodes) : a \in 1 .. Len(later)
  BY Unchanged DEF Evolves
<1>2. call.one \in 0 .. Len(nodes) /\ call.two \in 0 .. Len(nodes)
  BY DEF CallInv
<1>3. /\ call.one # NULL => later[call.one].type = nodes[call.one].type
      /\ call.two # NULL => later[call.two].type = nodes[call.two].type
  BY <1>1, <1>2 DEF Evolves, NULL
<1>4. KeptByCall(call, nodes) /\ (call.fn # "Analyze" => call.one # NULL)
      /\ (call.fn = "Unify" => call.two # NULL)
  BY DEF CallInv
<1>5. KeptByCall(call, later)
  BY <1>3, <1>4 DEF KeptByCall, HasOne
<1> QED
  BY <1>1, <1>5 DEF CallInv

\* The outer activations, without the innermost.
LEMMA Outer ==
  ASSUME NEW s, NEW nodes, NEW later, Graph(nodes), Graph(later),
         Evolves(nodes, later), Stack(s, nodes), s # <<>>
  PROVE  LET r == SubSeq(s, 1, Len(s) - 1)
         IN /\ Stack(r, later) /\ CallInv(s[Len(s)], nodes)
            /\ r # <<>> => (r[Len(r)].at \in ForUnify <=> s[Len(s)].fn = "Unify")
<1> DEFINE r == SubSeq(s, 1, Len(s) - 1)
<1>1. Len(s) \in Nat /\ Len(s) > 0 /\ DOMAIN s = 1 .. Len(s)
  BY EmptySeq, LenProperties DEF IsSequence, Stack
<1>2. r \in Seq(Range(s)) /\ Len(r) = Len(s) - 1 /\ DOMAIN r = 1 .. Len(s) - 1
      /\ \A i \in 1 .. Len(s) - 1 : r[i] = s[i]
  BY <1>1, SubSeqProperties DEF IsSequence, Stack
<1>3. IsSequence(r)
  BY <1>2, SeqOfRange DEF IsSequence
<1>4. r # <<>> => Len(r) > 0
  BY <1>2, EmptySeq, LenProperties
<1> HIDE DEF r
<1>5. \A i \in DOMAIN s : CallInv(s[i], nodes) /\ CallInv(s[i], later)
  BY CallEvolves DEF Stack
<1>6. \A i \in 1 .. Len(s) - 1 : s[i].at \in ForUnify <=> s[i + 1].fn = "Unify"
  BY <1>1 DEF Stack
<1>7. \A i \in DOMAIN r : i < Len(r) => i + 1 \in 1 .. Len(s) - 1
  BY <1>1, <1>2
<1>8. Stack(r, later)
  BY <1>1, <1>2, <1>3, <1>5, <1>6, <1>7 DEF Stack
<1>9. r # <<>> => (r[Len(r)].at \in ForUnify <=> s[Len(s)].fn = "Unify")
  BY <1>1, <1>2, <1>4, <1>6
<1> QED
  BY <1>1, <1>5, <1>8, <1>9 DEF r

\* An activation on top of those that wait for it.
LEMMA OnTop ==
  ASSUME NEW s, NEW nodes, Stack(s, nodes), NEW a, CallInv(a, nodes),
         s # <<>> => (s[Len(s)].at \in ForUnify <=> a.fn = "Unify")
  PROVE  LET t == Append(s, a)
         IN Stack(t, nodes) /\ t # <<>> /\ Len(t) \in Nat /\ t[Len(t)] = a
<1> DEFINE S == Range(s) \union {a}
           t == Append(s, a)
<1>1. s \in Seq(S)
  BY SeqMonotonic DEF IsSequence, Stack
<1>2. t \in Seq(S) /\ t # <<>> /\ Len(s) \in Nat /\ Len(t) = Len(s) + 1
      /\ DOMAIN s = 1 .. Len(s) /\ DOMAIN t = 1 .. Len(s) + 1
      /\ t[Len(s) + 1] = a /\ \A i \in 1 .. Len(s) : t[i] = s[i]
  BY <1>1, AppendProperties, LenProperties
<1>3. IsSequence(t)
  BY <1>2, SeqOfRange DEF IsSequence
<1>4. s = <<>> => Len(s) = 0
  OBVIOUS
<1> HIDE DEF t
<1>5. \A i \in DOMAIN t : CallInv(t[i], nodes)
  BY <1>2 DEF Stack
<1>6. ASSUME NEW i \in DOMAIN t, i < Len(t)
      PROVE  t[i].at \in ForUnify <=> t[i + 1].fn = "Unify"
  <2>1. CASE i < Len(s)
    BY <1>2, <2>1 DEF Stack
  <2>2. CASE i = Len(s)
    BY <1>2, <1>4, <2>2
  <2> QED
    BY <1>2, <1>6, <2>1, <2>2
<1> QED
  BY <1>2, <1>3, <1>5, <1>6 DEF Stack, t

-----------------------------------------------------------------------------
\* The innermost function calls another.
LEMMA Called ==
  ASSUME TypeInv, calls # <<>>, Graph(types'), Evolves(types, types'),
         NEW a, NEW b, CallInv(a, types'), CallInv(b, types'), a.fn = top.fn,
         a.at \in ForUnify <=> b.fn = "Unify", CallFrom(a, b)
  PROVE  TypeInv'
<1> DEFINE t == Append(callers, a)
<1>1. /\ Stack(callers, types')
      /\ callers # <<>> => (callers[Len(callers)].at \in ForUnify <=> a.fn = "Unify")
  BY Outer DEF TypeInv, callers, top
<1>2. callers \o <<a, b>> = Append(t, b)
  <2> DEFINE S == Range(callers) \union {a, b}
  <2>1. callers \in Seq(S)
    BY <1>1, SeqMonotonic DEF IsSequence, Stack
  <2> QED
    BY <2>1, AppendIsConcat, ConcatAssociative, AppendProperties
<1>3. Stack(t, types') /\ t # <<>> /\ t[Len(t)] = a
  BY <1>1, OnTop
<1> HIDE DEF t
<1>4. Stack(Append(t, b), types')
  BY <1>3, OnTop
<1>5. calls' = Append(t, b) /\ ret' = None
  BY <1>2 DEF CallFrom
<1>6. Result(calls', types', ret')
  BY <1>5 DEF Result, NULL, None
<1> QED
  BY <1>4, <1>5, <1>6 DEF TypeInv

\* The innermost function becomes another one.
LEMMA Became ==
  ASSUME TypeInv, calls # <<>>, Graph(types'), Evolves(types, types'),
         NEW a, CallInv(a, types'), a.fn = "Unify" <=> top.fn = "Unify", Become(a)
  PROVE  TypeInv'
<1>1. /\ Stack(callers, types')
      /\ callers # <<>> => (callers[Len(callers)].at \in ForUnify <=> a.fn = "Unify")
  BY Outer DEF TypeInv, callers, top
<1>2. Stack(calls', types') /\ ret' = None
  BY <1>1, OnTop DEF Become
<1>3. Result(calls', types', ret')
  BY <1>2 DEF Result, NULL, None
<1> QED
  BY <1>2, <1>3 DEF TypeInv

\* The innermost function returns: _UnifyImpl nothing, the others a type.
LEMMA Finished ==
  ASSUME TypeInv, calls # <<>>, Graph(types'), Evolves(types, types'),
         NEW type \in 0 .. Len(types'), type = NULL => top.fn = "Unify", Return(type)
  PROVE  TypeInv'
<1>1. /\ Stack(callers, types')
      /\ callers # <<>> =>
           (callers[Len(callers)].at \in ForUnify <=> top.fn = "Unify")
  BY Outer DEF TypeInv, callers, top
<1>2. calls' = callers /\ ret' = type
  BY DEF Return
<1>3. Result(calls', types', ret')
  BY <1>1, <1>2 DEF Result
<1> QED
  BY <1>1, <1>2, <1>3 DEF TypeInv

\* What the innermost function knows.
LEMMA Innermost ==
  ASSUME TypeInv, calls # <<>>
  PROVE  /\ CallInv(top, types) /\ Graph(types) /\ Evolves(types, types)
         /\ Len(types) \in Nat /\ Len(types) > 2 /\ DOMAIN types = 1 .. Len(types)
         /\ ret \in {None} \union 0 .. Len(types)
         /\ ret # None /\ top.at \notin ForUnify => ret \in 1 .. Len(types)
<1>1. CallInv(top, types)
  BY Unchanged, Outer DEF TypeInv, top
<1>2. ret = NULL => top.at \in ForUnify
  BY DEF TypeInv, Result, top
<1> QED
  BY <1>1, <1>2, Unchanged DEF TypeInv, Graph, Result, NULL, None

-----------------------------------------------------------------------------
(***************************************************************************)
(* What is called.                                                         *)
(***************************************************************************)
\* The same activation, further on.
SameCall(a, call) ==
  /\ IsActivation(a) /\ a.fn = call.fn /\ a.node = call.node
  /\ a.env = call.env /\ a.non_generics = call.non_generics

\* An environment, or a list of types, grows by one.
LEMMA Grown ==
  ASSUME NEW s, IsSequence(s), NEW e
  PROVE  /\ IsSequence(Append(s, e)) /\ Len(s) \in Nat
         /\ DOMAIN s = 1 .. Len(s) /\ DOMAIN Append(s, e) = 1 .. Len(s) + 1
         /\ \A i \in 1 .. Len(s) : Append(s, e)[i] = s[i]
         /\ Append(s, e)[Len(s) + 1] = e
<1> DEFINE S == Range(s) \union {e}
<1>1. s \in Seq(S)
  BY SeqMonotonic DEF IsSequence
<1>2. Append(s, e) \in Seq(S)
  BY <1>1, AppendProperties
<1>3. IsSequence(Append(s, e))
  BY <1>2, SeqOfRange DEF IsSequence
<1> QED
  BY <1>1, <1>2, <1>3, AppendProperties, LenProperties

\* Environments of types, and lists of types, when there are n nodes.
EnvOK(env, n) == IsSequence(env) /\ \A i \in DOMAIN env : env[i].type \in 1 .. n
ListOK(list, n) == IsSequence(list) /\ \A i \in DOMAIN list : list[i] \in 1 .. n

LEMMA TypeBound ==
  ASSUME NEW env, NEW n \in Nat, EnvOK(env, n), NEW id, NEW type \in 1 .. n
  PROVE  EnvOK(BindType(env, id, type), n)
<1> DEFINE e == [id |-> id, type |-> type]
           later == Append(env, e)
<1>1. /\ IsSequence(later) /\ Len(env) \in Nat /\ DOMAIN env = 1 .. Len(env)
      /\ DOMAIN later = 1 .. Len(env) + 1
      /\ \A i \in 1 .. Len(env) : later[i] = env[i]
      /\ later[Len(env) + 1] = e
  BY Grown DEF EnvOK
<1>2. e.type = type
  OBVIOUS
<1> HIDE DEF later, e
<1>3. \A i \in 1 .. Len(env) + 1 : i \in 1 .. Len(env) \/ i = Len(env) + 1
  BY <1>1
<1>4. EnvOK(later, n)
  BY <1>1, <1>2, <1>3 DEF EnvOK
<1> QED
  BY <1>4 DEF BindType, later, e

LEMMA TypeListed ==
  ASSUME NEW list, NEW n \in Nat, ListOK(list, n), NEW type \in 1 .. n
  PROVE  ListOK(Append(list, type), n)
<1> DEFINE later == Append(list, type)
<1>1. /\ IsSequence(later) /\ Len(list) \in Nat /\ DOMAIN list = 1 .. Len(list)
      /\ DOMAIN later = 1 .. Len(list) + 1
      /\ \A i \in 1 .. Len(list) : later[i] = list[i]
      /\ later[Len(list) + 1] = type
  BY Grown DEF ListOK
<1> HIDE DEF later
<1>2. \A i \in 1 .. Len(list) + 1 : i \in 1 .. Len(list) \/ i = Len(list) + 1
  BY <1>1
<1>3. ListOK(later, n)
  BY <1>1, <1>2 DEF ListOK
<1> QED
  BY <1>3 DEF later

\* Nothing is bound, and nothing listed.
LEMMA NothingBound ==
  ASSUME NEW n \in Nat
  PROVE  EnvOK(<<>>, n) /\ ListOK(<<>>, n)
<1>1. IsSequence(<<>>) /\ DOMAIN <<>> = {}
  BY EmptySeq, LenProperties DEF IsSequence
<1> QED
  BY <1>1 DEF EnvOK, ListOK

\* A name that is bound stands for a type.
LEMMA TypeLookedUp ==
  ASSUME NEW env, NEW n \in Nat, EnvOK(env, n), NEW id
  PROVE  LookupType(env, id) \in 0 .. n
<1> DEFINE found == { i \in DOMAIN env : env[i].id = id }
           IsLast(i) == i \in found /\ \A j \in found : j <= i
           last == CHOOSE i \in found : \A j \in found : j <= i
<1>1. Len(env) \in Nat /\ DOMAIN env = 1 .. Len(env)
  BY LenProperties DEF EnvOK, IsSequence
<1>2. CASE found = {}
  BY <1>2 DEF LookupType, NULL
<1>3. CASE found # {}
  <2> DEFINE FromEnd == { m \in Nat : m <= Len(env) /\ Len(env) - m \in found }
  <2>1. PICK k \in found : TRUE
    BY <1>3
  <2>2. Len(env) - k \in Nat /\ Len(env) - (Len(env) - k) = k /\ Len(env) - k <= Len(env)
    BY <1>1
  <2>3. FromEnd # {} /\ FromEnd \in SUBSET Nat
    BY <2>1, <2>2
  <2>4. PICK m \in FromEnd : \A i \in FromEnd : m <= i
    <3> HIDE DEF FromEnd
    <3> QED
      BY <2>3, LeastNatural
  <2>5. ASSUME NEW j \in found PROVE j <= Len(env) - m
    <3>1. j \in 1 .. Len(env)
      BY <1>1
    <3>2. Len(env) - j \in Nat /\ Len(env) - (Len(env) - j) = j /\ Len(env) - j <= Len(env)
      BY <1>1, <3>1
    <3>3. Len(env) - j \in FromEnd
      BY <3>2
    <3>4. m <= Len(env) - j /\ m \in Nat
      BY <2>4, <3>3
    <3> HIDE DEF found
    <3> QED
      BY <1>1, <3>1, <3>4
  <2>6. \E i \in found : \A j \in found : j <= i
    BY <2>4, <2>5
  <2>7. last \in found
    <3> HIDE DEF found
    <3> QED
      BY <2>6
  <2>8. LookupType(env, id) = env[last].type
    BY <1>3, Zenon DEF LookupType
  <2>9. last \in DOMAIN env
    BY <2>7
  <2> HIDE DEF last, found
  <2> QED
    BY <2>8, <2>9 DEF EnvOK
<1> QED
  BY <1>2, <1>3

\* How EXCEPT changes an activation, field by field.
LEMMA FieldSet ==
  ASSUME NEW call, IsActivation(call), NEW x
  PROVE  /\ [call EXCEPT !.at = x] =
              [fn |-> call.fn, at |-> x, node |-> call.node, env |-> call.env,
               non_generics |-> call.non_generics, one |-> call.one, two |-> call.two]
         /\ [call EXCEPT !.node = x] =
              [fn |-> call.fn, at |-> call.at, node |-> x, env |-> call.env,
               non_generics |-> call.non_generics, one |-> call.one, two |-> call.two]
         /\ [call EXCEPT !.env = x] =
              [fn |-> call.fn, at |-> call.at, node |-> call.node, env |-> x,
               non_generics |-> call.non_generics, one |-> call.one, two |-> call.two]
         /\ [call EXCEPT !.non_generics = x] =
              [fn |-> call.fn, at |-> call.at, node |-> call.node, env |-> call.env,
               non_generics |-> x, one |-> call.one, two |-> call.two]
         /\ [call EXCEPT !.one = x] =
              [fn |-> call.fn, at |-> call.at, node |-> call.node, env |-> call.env,
               non_generics |-> call.non_generics, one |-> x, two |-> call.two]
         /\ [call EXCEPT !.two = x] =
              [fn |-> call.fn, at |-> call.at, node |-> call.node, env |-> call.env,
               non_generics |-> call.non_generics, one |-> call.one, two |-> x]
BY DEF IsActivation

\* The activation a is call with another at, one and two.
Moved(a, call, at, one, two) ==
  SameCall(a, call) /\ a.at = at /\ a.one = one /\ a.two = two

LEMMA AtMoves ==
  ASSUME NEW call, IsActivation(call), NEW at
  PROVE  Moved([call EXCEPT !.at = at], call, at, call.one, call.two)
<1> DEFINE a == [call EXCEPT !.at = at]
<1>1. a = [fn |-> call.fn, at |-> at, node |-> call.node, env |-> call.env,
           non_generics |-> call.non_generics, one |-> call.one, two |-> call.two]
  BY FieldSet
<1> HIDE DEF a
<1>2. Moved(a, call, at, call.one, call.two)
  BY <1>1 DEF Moved, SameCall, IsActivation
<1> QED
  BY <1>2 DEF a

LEMMA OneMoves ==
  ASSUME NEW call, IsActivation(call), NEW at, NEW one
  PROVE  Moved([call EXCEPT !.at = at, !.one = one], call, at, one, call.two)
<1> DEFINE b == [call EXCEPT !.at = at]
           a == [b EXCEPT !.one = one]
<1>1. Moved(b, call, at, call.one, call.two)
  BY AtMoves
<1>2. [call EXCEPT !.at = at, !.one = one] = a
  BY Zenon
<1> HIDE DEF b
<1>3. a = [fn |-> b.fn, at |-> b.at, node |-> b.node, env |-> b.env,
           non_generics |-> b.non_generics, one |-> one, two |-> b.two]
  BY <1>1, FieldSet DEF Moved, SameCall
<1> HIDE DEF a
<1>4. Moved(a, call, at, one, call.two)
  BY <1>1, <1>3 DEF Moved, SameCall, IsActivation
<1> QED
  BY <1>2, <1>4

LEMMA TwoMoves ==
  ASSUME NEW call, IsActivation(call), NEW at, NEW two
  PROVE  Moved([call EXCEPT !.at = at, !.two = two], call, at, call.one, two)
<1> DEFINE b == [call EXCEPT !.at = at]
           a == [b EXCEPT !.two = two]
<1>1. Moved(b, call, at, call.one, call.two)
  BY AtMoves
<1>2. [call EXCEPT !.at = at, !.two = two] = a
  BY Zenon
<1> HIDE DEF b
<1>3. a = [fn |-> b.fn, at |-> b.at, node |-> b.node, env |-> b.env,
           non_generics |-> b.non_generics, one |-> b.one, two |-> two]
  BY <1>1, FieldSet DEF Moved, SameCall
<1> HIDE DEF a
<1>4. Moved(a, call, at, call.one, two)
  BY <1>1, <1>3 DEF Moved, SameCall, IsActivation
<1> QED
  BY <1>2, <1>4

LEMMA BothMove ==
  ASSUME NEW call, IsActivation(call), NEW at, NEW one, NEW two
  PROVE  Moved([call EXCEPT !.at = at, !.one = one, !.two = two], call, at, one, two)
<1> DEFINE b == [call EXCEPT !.at = at, !.one = one]
           a == [b EXCEPT !.two = two]
<1>1. Moved(b, call, at, one, call.two)
  BY OneMoves
<1>2. [call EXCEPT !.at = at, !.one = one, !.two = two] = a
  BY Zenon
<1> HIDE DEF b
<1>3. a = [fn |-> b.fn, at |-> b.at, node |-> b.node, env |-> b.env,
           non_generics |-> b.non_generics, one |-> b.one, two |-> two]
  BY <1>1, FieldSet DEF Moved, SameCall
<1> HIDE DEF a
<1>4. Moved(a, call, at, one, two)
  BY <1>1, <1>3 DEF Moved, SameCall, IsActivation
<1> QED
  BY <1>2, <1>4

\* A function starts with nothing to keep.
LEMMA Starts ==
  ASSUME NEW nodes, Graph(nodes), NEW call, IsActivation(call), call.fn \in Functions,
         call.at = "start", EnvOK(call.env, Len(nodes)),
         ListOK(call.non_generics, Len(nodes)),
         call.one \in 0 .. Len(nodes), call.two \in 0 .. Len(nodes),
         call.fn # "Analyze" => call.one # NULL, call.fn = "Unify" => call.two # NULL
  PROVE  CallInv(call, nodes)
BY DEF CallInv, KeptByCall, HasOne, HasTwo, EnvOK, ListOK

LEMMA AnalyzeStarts ==
  ASSUME NEW nodes, Graph(nodes), NEW node, NEW env, EnvOK(env, Len(nodes)),
         NEW non_generics, ListOK(non_generics, Len(nodes))
  PROVE  /\ CallInv(Analyze(node, env, non_generics), nodes)
         /\ Analyze(node, env, non_generics).fn = "Analyze"
<1> DEFINE call == Analyze(node, env, non_generics)
           bare == Activation("Analyze")
           named == [bare EXCEPT !.node = node]
           bound == [named EXCEPT !.env = env]
<1>1. call = [fn |-> "Analyze", at |-> "start", node |-> node, env |-> env,
              non_generics |-> non_generics, one |-> NULL, two |-> NULL]
  <2>1. call = [bound EXCEPT !.non_generics = non_generics]
    BY Zenon DEF Analyze
  <2>2. /\ IsActivation(bare) /\ bare.fn = "Analyze" /\ bare.at = "start"
        /\ bare.one = NULL /\ bare.two = NULL
    BY DEF Activation, IsActivation
  <2> HIDE DEF bare
  <2>3. named = [fn |-> bare.fn, at |-> bare.at, node |-> node, env |-> bare.env,
                 non_generics |-> bare.non_generics, one |-> bare.one, two |-> bare.two]
    BY <2>2, FieldSet
  <2> HIDE DEF named
  <2>4. IsActivation(named)
    BY <2>3 DEF IsActivation
  <2>5. bound = [fn |-> named.fn, at |-> named.at, node |-> named.node, env |-> env,
                 non_generics |-> named.non_generics, one |-> named.one, two |-> named.two]
    BY <2>4, FieldSet
  <2> HIDE DEF bound
  <2>6. IsActivation(bound)
    BY <2>5 DEF IsActivation
  <2>7. call = [fn |-> bound.fn, at |-> bound.at, node |-> bound.node,
                env |-> bound.env, non_generics |-> non_generics,
                one |-> bound.one, two |-> bound.two]
    BY <2>1, <2>6, FieldSet
  <2> HIDE DEF call
  <2> QED
    BY <2>2, <2>3, <2>5, <2>7
<1> HIDE DEF call
<1>2. /\ call.fn = "Analyze" /\ call.at = "start" /\ call.env = env
      /\ call.non_generics = non_generics /\ call.one = NULL /\ call.two = NULL
      /\ IsActivation(call)
  BY <1>1 DEF IsActivation
<1>3. NULL \in 0 .. Len(nodes) /\ "Analyze" \in Functions /\ "Analyze" # "Unify"
  BY Unchanged DEF NULL, Functions
<1>4. CallInv(call, nodes)
  BY <1>2, <1>3, Starts
<1> QED
  BY <1>2, <1>4 DEF call

LEMMA GenericStarts ==
  ASSUME NEW nodes, Graph(nodes), NEW type \in 1 .. Len(nodes),
         NEW non_generics, ListOK(non_generics, Len(nodes))
  PROVE  /\ CallInv(Generic(type, non_generics), nodes)
         /\ Generic(type, non_generics).fn = "Generic"
<1> DEFINE call == Generic(type, non_generics)
           bare == Activation("Generic")
           first == [bare EXCEPT !.one = type]
<1>1. call = [fn |-> "Generic", at |-> "start", node |-> program, env |-> <<>>,
              non_generics |-> non_generics, one |-> type, two |-> NULL]
  <2>1. call = [first EXCEPT !.non_generics = non_generics]
    BY Zenon DEF Generic
  <2>2. /\ IsActivation(bare) /\ bare.fn = "Generic" /\ bare.at = "start"
        /\ bare.node = program /\ bare.env = <<>> /\ bare.non_generics = <<>>
        /\ bare.one = NULL /\ bare.two = NULL
    BY DEF Activation, IsActivation
  <2> HIDE DEF bare
  <2>3. first = [fn |-> bare.fn, at |-> bare.at, node |-> bare.node, env |-> bare.env,
                 non_generics |-> bare.non_generics, one |-> type, two |-> bare.two]
    BY <2>2, FieldSet
  <2> HIDE DEF first
  <2>4. IsActivation(first)
    BY <2>3 DEF IsActivation
  <2>5. call = [fn |-> first.fn, at |-> first.at, node |-> first.node,
                env |-> first.env, non_generics |-> non_generics,
                one |-> first.one, two |-> first.two]
    BY <2>1, <2>4, FieldSet
  <2> HIDE DEF call
  <2> QED
    BY <2>2, <2>3, <2>5
<1> HIDE DEF call
<1>2. /\ call.fn = "Generic" /\ call.at = "start" /\ call.env = <<>>
      /\ call.non_generics = non_generics /\ call.one = type /\ call.two = NULL
      /\ IsActivation(call)
  BY <1>1 DEF IsActivation
<1>3. /\ NULL \in 0 .. Len(nodes) /\ type \in 0 .. Len(nodes) /\ type # NULL
      /\ "Generic" \in Functions /\ "Generic" # "Unify" /\ Len(nodes) \in Nat
  BY Unchanged DEF NULL, Functions
<1>4. EnvOK(call.env, Len(nodes))
  BY <1>2, <1>3, NothingBound
<1>5. CallInv(call, nodes)
  BY <1>2, <1>3, <1>4, Starts
<1> QED
  BY <1>2, <1>5 DEF call

LEMMA FreshStarts ==
  ASSUME NEW nodes, Graph(nodes), NEW type \in 1 .. Len(nodes)
  PROVE  CallInv(Fresh(type), nodes) /\ Fresh(type).fn = "Fresh"
<1> DEFINE call == Fresh(type)
<1>1. call = [fn |-> "Fresh", at |-> "start", node |-> program, env |-> <<>>,
              non_generics |-> <<>>, one |-> type, two |-> NULL]
  BY DEF Fresh, Activation
<1> HIDE DEF call
<1>2. /\ call.fn = "Fresh" /\ call.at = "start" /\ call.env = <<>>
      /\ call.non_generics = <<>> /\ call.one = type /\ call.two = NULL
      /\ IsActivation(call)
  BY <1>1 DEF IsActivation
<1>3. /\ NULL \in 0 .. Len(nodes) /\ type \in 0 .. Len(nodes) /\ type # NULL
      /\ "Fresh" \in Functions /\ "Fresh" # "Unify" /\ Len(nodes) \in Nat
  BY Unchanged DEF NULL, Functions
<1>4. EnvOK(call.env, Len(nodes)) /\ ListOK(call.non_generics, Len(nodes))
  BY <1>2, <1>3, NothingBound
<1>5. CallInv(call, nodes)
  BY <1>2, <1>3, <1>4, Starts
<1> QED
  BY <1>2, <1>5 DEF call

LEMMA UnifyStarts ==
  ASSUME NEW nodes, Graph(nodes), NEW one \in 1 .. Len(nodes), NEW two \in 1 .. Len(nodes)
  PROVE  CallInv(UnifyImpl(one, two), nodes) /\ UnifyImpl(one, two).fn = "Unify"
<1> DEFINE call == UnifyImpl(one, two)
           bare == Activation("Unify")
           first == [bare EXCEPT !.one = one]
<1>1. call = [fn |-> "Unify", at |-> "start", node |-> program, env |-> <<>>,
              non_generics |-> <<>>, one |-> one, two |-> two]
  <2>1. call = [first EXCEPT !.two = two]
    BY Zenon DEF UnifyImpl
  <2>2. /\ IsActivation(bare) /\ bare.fn = "Unify" /\ bare.at = "start"
        /\ bare.node = program /\ bare.env = <<>> /\ bare.non_generics = <<>>
        /\ bare.one = NULL /\ bare.two = NULL
    BY DEF Activation, IsActivation
  <2> HIDE DEF bare
  <2>3. first = [fn |-> bare.fn, at |-> bare.at, node |-> bare.node, env |-> bare.env,
                 non_generics |-> bare.non_generics, one |-> one, two |-> bare.two]
    BY <2>2, FieldSet
  <2> HIDE DEF first
  <2>4. IsActivation(first)
    BY <2>3 DEF IsActivation
  <2>5. call = [fn |-> first.fn, at |-> first.at, node |-> first.node,
                env |-> first.env, non_generics |-> first.non_generics,
                one |-> first.one, two |-> two]
    BY <2>1, <2>4, FieldSet
  <2> HIDE DEF call
  <2> QED
    BY <2>2, <2>3, <2>5
<1> HIDE DEF call
<1>2. /\ call.fn = "Unify" /\ call.at = "start" /\ call.env = <<>>
      /\ call.non_generics = <<>> /\ call.one = one /\ call.two = two
      /\ IsActivation(call)
  BY <1>1 DEF IsActivation
<1>3. /\ one \in 0 .. Len(nodes) /\ one # NULL /\ two \in 0 .. Len(nodes) /\ two # NULL
      /\ "Unify" \in Functions /\ Len(nodes) \in Nat
  BY Unchanged DEF NULL, Functions
<1>4. EnvOK(call.env, Len(nodes)) /\ ListOK(call.non_generics, Len(nodes))
  BY <1>2, <1>3, NothingBound
<1>5. CallInv(call, nodes)
  BY <1>2, <1>3, <1>4, Starts
<1> QED
  BY <1>2, <1>5 DEF call

\* The environment of the innermost function, when there are more nodes.
LEMMA EnvironmentEvolves ==
  ASSUME TypeInv, calls # <<>>, Graph(types'), Evolves(types, types')
  PROVE  /\ CallInv(top, types') /\ Len(types') \in Nat
         /\ EnvOK(top.env, Len(types')) /\ ListOK(top.non_generics, Len(types'))
<1>1. CallInv(top, types')
  BY Innermost, CallEvolves
<1> QED
  BY <1>1, Unchanged DEF CallInv, EnvOK, ListOK

\* The innermost function goes on, and waits for the function it calls.
LEMMA Waits ==
  ASSUME TypeInv, calls # <<>>, Graph(types'), Evolves(types, types'),
         NEW a, SameCall(a, top), a.one \in 0 .. Len(types'), a.two \in 0 .. Len(types'),
         top.fn # "Analyze" => a.one # NULL, top.fn = "Unify" => a.two # NULL,
         KeptByCall(a, types')
  PROVE  CallInv(a, types') /\ a.fn = top.fn
BY EnvironmentEvolves DEF CallInv, SameCall, EnvOK, ListOK

\* _Analyze analyzes a part of the expression.
LEMMA PartAnalyzed ==
  ASSUME TypeInv, calls # <<>>, top.fn = "Analyze",
         NEW a, NEW part, AnalyzePart(a, part), SameCall(a, top),
         a.one \in 0 .. Len(types), a.two \in 0 .. Len(types),
         KeptByCall(a, types), a.at \notin ForUnify
  PROVE  TypeInv'
<1>1. types' = types /\ CallFrom(a, Analyze(part, top.env, top.non_generics))
  BY DEF AnalyzePart
<1>2. Graph(types') /\ Evolves(types, types')
  BY <1>1, Innermost
<1>3. CallInv(a, types') /\ a.fn = top.fn
  BY <1>1, <1>2, Waits
<1>4. /\ CallInv(Analyze(part, top.env, top.non_generics), types')
      /\ Analyze(part, top.env, top.non_generics).fn = "Analyze"
  BY <1>2, EnvironmentEvolves, AnalyzeStarts
<1>5. a.at \in ForUnify <=> Analyze(part, top.env, top.non_generics).fn = "Unify"
  BY <1>4
<1> QED
  BY <1>1, <1>2, <1>3, <1>4, <1>5, Called

\* _Analyze unifies two types.
LEMMA TypesUnified ==
  ASSUME TypeInv, calls # <<>>, top.fn = "Analyze", Graph(types'), Evolves(types, types'),
         NEW a, NEW node, NEW error_code,
         NEW one \in 1 .. Len(types'), NEW two \in 1 .. Len(types'),
         CallUnify(a, node, error_code, one, two), SameCall(a, top),
         a.one \in 0 .. Len(types'), a.two \in 0 .. Len(types'),
         KeptByCall(a, types'), a.at \in ForUnify
  PROVE  TypeInv'
<1>1. CallFrom(a, UnifyImpl(one, two))
  BY DEF CallUnify
<1>2. CallInv(a, types') /\ a.fn = top.fn
  BY Waits
<1>3. CallInv(UnifyImpl(one, two), types') /\ UnifyImpl(one, two).fn = "Unify"
  BY UnifyStarts
<1>4. a.at \in ForUnify <=> UnifyImpl(one, two).fn = "Unify"
  BY <1>3
<1> QED
  BY <1>1, <1>2, <1>3, <1>4, Called

-----------------------------------------------------------------------------
(***************************************************************************)
(* _Analyze, case by case.                                                 *)
(***************************************************************************)
\* A part is analyzed, the first one or one after a type that is not needed.
LEMMA PartOf ==
  ASSUME TypeInv, calls # <<>>, top.fn = "Analyze", NEW a, NEW part, AnalyzePart(a, part),
         Moved(a, top, a.at, top.one, top.two),
         a.at \in {"function", "value", "test", "then", "left", "first"}
  PROVE  TypeInv'
<1>1. CallInv(top, types)
  BY Innermost
<1>2. KeptByCall(a, types) /\ a.at \notin ForUnify
  BY DEF KeptByCall, HasOne, HasTwo, ForUnify
<1>3. SameCall(a, top) /\ a.one \in 0 .. Len(types) /\ a.two \in 0 .. Len(types)
  BY <1>1 DEF Moved, CallInv
<1> QED
  BY <1>2, <1>3, PartAnalyzed

\* Another part is, and the type of the one before is kept.
LEMMA NextPartOf ==
  ASSUME TypeInv, calls # <<>>, top.fn = "Analyze", NEW a, NEW part, AnalyzePart(a, part),
         ret # None, top.at \notin ForUnify, Moved(a, top, a.at, ret, top.two),
         a.at \in {"argument", "else", "right", "rest"}
  PROVE  TypeInv'
<1>1. CallInv(top, types) /\ ret \in 1 .. Len(types) /\ Len(types) \in Nat
  BY Innermost
<1>2. SameCall(a, top) /\ a.one \in 0 .. Len(types) /\ a.two \in 0 .. Len(types)
      /\ a.one # NULL
  BY <1>1 DEF Moved, CallInv, NULL
<1>3. KeptByCall(a, types) /\ a.at \notin ForUnify
  BY <1>2 DEF KeptByCall, HasOne, HasTwo, ForUnify
<1> QED
  BY <1>2, <1>3, PartAnalyzed

LEMMA FirstParts ==
  ASSUME TypeInv,
         AnalyzeApply \/ AnalyzeLet \/ AnalyzeIf \/ IfThen \/ AnalyzeBinary \/ AnalyzeTuple
  PROVE  TypeInv'
<1>1. ASSUME NEW at, at \in {"function", "value", "test", "then", "left", "first"},
             NEW part, calls # <<>>, top.fn = "Analyze",
             AnalyzePart([top EXCEPT !.at = at], part)
      PROVE  TypeInv'
  <2> DEFINE a == [top EXCEPT !.at = at]
  <2>1. IsActivation(top)
    BY <1>1, Innermost DEF CallInv
  <2>2. Moved(a, top, at, top.one, top.two)
    BY <2>1, AtMoves
  <2>3. AnalyzePart(a, part)
    BY <1>1
  <2> HIDE DEF a
  <2>4. a.at = at
    BY <2>2 DEF Moved
  <2> QED
    BY <1>1, <2>2, <2>3, <2>4, PartOf
<1>2. CASE AnalyzeApply
  <2>1. calls # <<>> /\ top.fn = "Analyze"
        /\ AnalyzePart([top EXCEPT !.at = "function"], top.node.apply_function)
    BY <1>2 DEF AnalyzeApply, Analyzing, Running
  <2> QED
    BY <2>1, <1>1
<1>3. CASE AnalyzeLet
  <2>1. calls # <<>> /\ top.fn = "Analyze"
        /\ AnalyzePart([top EXCEPT !.at = "value"], top.node.let_value)
    BY <1>3 DEF AnalyzeLet, Analyzing, Running
  <2> QED
    BY <2>1, <1>1
<1>4. CASE AnalyzeIf
  <2>1. calls # <<>> /\ top.fn = "Analyze"
        /\ AnalyzePart([top EXCEPT !.at = "test"], top.node.if_test)
    BY <1>4 DEF AnalyzeIf, Analyzing, Running
  <2> QED
    BY <2>1, <1>1
<1>5. CASE IfThen
  <2>1. calls # <<>> /\ top.fn = "Analyze"
        /\ AnalyzePart([top EXCEPT !.at = "then"], top.node.if_then)
    BY <1>5 DEF IfThen, Resuming, Returned, Running
  <2> QED
    BY <2>1, <1>1
<1>6. CASE AnalyzeBinary
  <2>1. calls # <<>> /\ top.fn = "Analyze"
        /\ AnalyzePart([top EXCEPT !.at = "left"], top.node.binary_left)
    BY <1>6 DEF AnalyzeBinary, Analyzing, Running
  <2> QED
    BY <2>1, <1>1
<1>7. CASE AnalyzeTuple
  <2>1. calls # <<>> /\ top.fn = "Analyze"
        /\ AnalyzePart([top EXCEPT !.at = "first"], top.node.tuple_first)
    BY <1>7 DEF AnalyzeTuple, Analyzing, Running
  <2> QED
    BY <2>1, <1>1
<1> QED
  BY <1>2, <1>3, <1>4, <1>5, <1>6, <1>7

LEMMA NextParts ==
  ASSUME TypeInv, ApplyArgument \/ IfElse \/ BinaryRight \/ TupleRest
  PROVE  TypeInv'
<1>1. ASSUME NEW at, at \in {"argument", "else", "right", "rest"}, NEW part,
             calls # <<>>, top.fn = "Analyze", ret # None, top.at \notin ForUnify,
             AnalyzePart([top EXCEPT !.at = at, !.one = ret], part)
      PROVE  TypeInv'
  <2> DEFINE a == [top EXCEPT !.at = at, !.one = ret]
  <2>1. IsActivation(top)
    BY <1>1, Innermost DEF CallInv
  <2>2. Moved(a, top, at, ret, top.two)
    BY <2>1, OneMoves
  <2>3. AnalyzePart(a, part)
    BY <1>1
  <2> HIDE DEF a
  <2>4. a.at = at
    BY <2>2 DEF Moved
  <2> QED
    BY <1>1, <2>2, <2>3, <2>4, NextPartOf
<1>2. CASE ApplyArgument
  <2>1. /\ calls # <<>> /\ top.fn = "Analyze" /\ ret # None /\ top.at = "function"
        /\ AnalyzePart([top EXCEPT !.at = "argument", !.one = ret], top.node.apply_argument)
    BY <1>2 DEF ApplyArgument, Resuming, Returned, Running
  <2>2. top.at \notin ForUnify
    BY <2>1 DEF ForUnify
  <2> QED
    BY <2>1, <2>2, <1>1
<1>3. CASE IfElse
  <2>1. /\ calls # <<>> /\ top.fn = "Analyze" /\ ret # None /\ top.at = "then"
        /\ AnalyzePart([top EXCEPT !.at = "else", !.one = ret], top.node.if_else)
    BY <1>3 DEF IfElse, Resuming, Returned, Running
  <2>2. top.at \notin ForUnify
    BY <2>1 DEF ForUnify
  <2> QED
    BY <2>1, <2>2, <1>1
<1>4. CASE BinaryRight
  <2>1. /\ calls # <<>> /\ top.fn = "Analyze" /\ ret # None /\ top.at = "left"
        /\ AnalyzePart([top EXCEPT !.at = "right", !.one = ret], top.node.binary_right)
    BY <1>4 DEF BinaryRight, Resuming, Returned, Running
  <2>2. top.at \notin ForUnify
    BY <2>1 DEF ForUnify
  <2> QED
    BY <2>1, <2>2, <1>1
<1>5. CASE TupleRest
  <2>1. /\ calls # <<>> /\ top.fn = "Analyze" /\ ret # None /\ top.at = "first"
        /\ AnalyzePart([top EXCEPT !.at = "rest", !.one = ret], top.node.tuple_rest)
    BY <1>5 DEF TupleRest, Resuming, Returned, Running
  <2>2. top.at \notin ForUnify
    BY <2>1 DEF ForUnify
  <2> QED
    BY <2>1, <2>2, <1>1
<1> QED
  BY <1>2, <1>3, <1>4, <1>5

\* A type is returned, and the nodes stay as they are.
LEMMA TypeReturned ==
  ASSUME TypeInv, calls # <<>>, UNCHANGED types, NEW type \in 1 .. Len(types), Return(type)
  PROVE  TypeInv'
<1>1. /\ Graph(types') /\ Evolves(types, types') /\ Len(types) \in Nat
      /\ types' = types
  BY Innermost
<1>2. type \in 0 .. Len(types') /\ type # NULL
  BY <1>1 DEF NULL
<1> QED
  BY <1>1, <1>2, Finished

LEMMA Returns ==
  ASSUME TypeInv, AnalyzeConstant \/ FinishApply \/ FinishIf \/ FinishBinary
  PROVE  TypeInv'
<1>1. CASE AnalyzeConstant
  <2>1. calls # <<>> /\ UNCHANGED types
    BY <1>1 DEF AnalyzeConstant, Analyzing, Running
  <2>2. PICK type \in {IntegerTypeExp, BooleanTypeExp} : Return(type)
    BY <1>1 DEF AnalyzeConstant
  <2>3. type \in 1 .. Len(types)
    BY <2>1, Innermost DEF IntegerTypeExp, BooleanTypeExp
  <2> QED
    BY <2>1, <2>2, <2>3, TypeReturned
<1>2. CASE FinishApply
  <2>1. calls # <<>> /\ UNCHANGED types /\ Return(top.two) /\ top.at = "applied"
    BY <1>2 DEF FinishApply, Resuming, Returned, Running
  <2>2. top.two \in 0 .. Len(types) /\ top.two # NULL /\ Len(types) \in Nat
    BY <2>1, Innermost DEF CallInv, KeptByCall, HasTwo
  <2>3. top.two \in 1 .. Len(types)
    BY <2>2 DEF NULL
  <2> QED
    BY <2>1, <2>3, TypeReturned
<1>3. CASE FinishIf
  <2>1. calls # <<>> /\ UNCHANGED types /\ Return(top.one) /\ top.at = "branches"
    BY <1>3 DEF FinishIf, Resuming, Returned, Running
  <2>2. top.one \in 0 .. Len(types) /\ top.one # NULL /\ Len(types) \in Nat
    BY <2>1, Innermost DEF CallInv, KeptByCall, HasOne
  <2>3. top.one \in 1 .. Len(types)
    BY <2>2 DEF NULL
  <2> QED
    BY <2>1, <2>3, TypeReturned
<1>4. CASE FinishBinary
  <2>1. calls # <<>> /\ UNCHANGED types /\ Return(TopEntry.result)
    BY <1>4 DEF FinishBinary, Resuming, Returned, Running
  <2>2. TopEntry.result \in {IntegerTypeExp, BooleanTypeExp}
    BY DEF TopEntry, OperatorEntry
  <2>3. TopEntry.result \in 1 .. Len(types)
    BY <2>1, <2>2, Innermost DEF IntegerTypeExp, BooleanTypeExp
  <2> QED
    BY <2>1, <2>3, TypeReturned
<1> QED
  BY <1>1, <1>2, <1>3, <1>4

\* An activation that waits for a type gets one.
LEMMA TypeGiven ==
  ASSUME TypeInv, calls # <<>>, ret # None, top.at \notin ForUnify
  PROVE  ret \in 1 .. Len(types) /\ ret \in Nat
BY Innermost

\* A new compound type is returned.
LEMMA TypeBuilt ==
  ASSUME TypeInv, calls # <<>>, NEW node \in Node, PointersOK(node, Len(types) + 1),
         types' = Allocate(node), Return(New)
  PROVE  TypeInv'
<1>1. /\ Graph(types') /\ Evolves(types, types') /\ Len(types) \in Nat
      /\ Len(types') = Len(types) + 1
  BY Innermost, NodeAllocated DEF Allocate
<1>2. New \in 0 .. Len(types') /\ New # NULL
  BY <1>1 DEF New, NULL
<1> QED
  BY <1>1, <1>2, Finished

LEMMA Finishes ==
  ASSUME TypeInv, FinishIdentifier \/ FinishLambda \/ FinishTuple
  PROVE  TypeInv'
<1>1. CASE FinishIdentifier
  <2>1. /\ calls # <<>> /\ ret # None /\ types' = Cleaned(top.one) /\ Return(ret)
        /\ top.at = "copied"
    BY <1>1 DEF FinishIdentifier, Resuming, Returned, Running
  <2>2. ret \in 1 .. Len(types)
    BY <2>1, TypeGiven DEF ForUnify
  <2>3. Graph(types') /\ Evolves(types, types') /\ Len(types') = Len(types)
        /\ Len(types) \in Nat
    BY <2>1, Innermost, CleanedKeeps
  <2>4. ret \in 0 .. Len(types') /\ ret # NULL
    BY <2>2, <2>3 DEF NULL
  <2> QED
    BY <2>1, <2>3, <2>4, Finished
<1>2. CASE FinishLambda
  <2> DEFINE node == TypeExp("FUNC", top.one, ret)
  <2>1. /\ calls # <<>> /\ ret # None /\ types' = Allocate(node) /\ Return(New)
        /\ top.at = "body"
    BY <1>2 DEF FinishLambda, Resuming, Returned, Running
  <2>2. ret \in 1 .. Len(types) /\ Len(types) \in Nat
    BY <2>1, TypeGiven, Innermost DEF ForUnify
  <2>3. top.one \in 0 .. Len(types) /\ top.one # NULL
    BY <2>1, Innermost DEF CallInv, KeptByCall, HasOne
  <2>4. node = [type |-> "FUNC", arg_first |-> top.one, arg_second |-> ret]
    BY DEF TypeExp
  <2> HIDE DEF node
  <2>5. node \in Node /\ PointersOK(node, Len(types) + 1)
    BY <2>2, <2>3, <2>4 DEF Node, NodeTypes, PointersOK, NULL
  <2> QED
    BY <2>1, <2>5, TypeBuilt
<1>3. ASSUME Resuming("rest"), types' = Allocate(TypeExp("TUPLE", top.one, ret)),
             Return(New)
      PROVE  TypeInv'
  <2> DEFINE node == TypeExp("TUPLE", top.one, ret)
  <2>1. /\ calls # <<>> /\ ret # None /\ top.at = "rest"
    BY <1>3 DEF Resuming, Returned, Running
  <2>2. ret \in 1 .. Len(types) /\ Len(types) \in Nat
    BY <2>1, TypeGiven, Innermost DEF ForUnify
  <2>3. top.one \in 0 .. Len(types) /\ top.one # NULL
    BY <2>1, Innermost DEF CallInv, KeptByCall, HasOne
  <2>4. node = [type |-> "TUPLE", arg_first |-> top.one, arg_second |-> ret]
    BY DEF TypeExp
  <2>5. types' = Allocate(node)
    BY <1>3
  <2> HIDE DEF node
  <2>6. node \in Node /\ PointersOK(node, Len(types) + 1)
    BY <2>2, <2>3, <2>4 DEF Node, NodeTypes, PointersOK, NULL
  <2> QED
    BY <1>3, <2>1, <2>5, <2>6, TypeBuilt
<1>4. ASSUME Resuming("first"), types' = Allocate(TypeExp("TUPLE_FINAL", ret, NULL)),
             Return(New)
      PROVE  TypeInv'
  <2> DEFINE node == TypeExp("TUPLE_FINAL", ret, NULL)
  <2>1. /\ calls # <<>> /\ ret # None /\ top.at = "first"
    BY <1>4 DEF Resuming, Returned, Running
  <2>2. ret \in 1 .. Len(types) /\ Len(types) \in Nat
    BY <2>1, TypeGiven, Innermost DEF ForUnify
  <2>3. node = [type |-> "TUPLE_FINAL", arg_first |-> ret, arg_second |-> NULL]
    BY DEF TypeExp
  <2>4. types' = Allocate(node)
    BY <1>4
  <2> HIDE DEF node
  <2>5. node \in Node /\ PointersOK(node, Len(types) + 1)
    BY <2>2, <2>3 DEF Node, NodeTypes, PointersOK, NULL
  <2> QED
    BY <1>4, <2>1, <2>4, <2>5, TypeBuilt
<1>5. CASE FinishTuple
  BY <1>3, <1>4, <1>5 DEF FinishTuple
<1> QED
  BY <1>1, <1>2, <1>5

\* A variable is allocated.
LEMMA VariableAllocated ==
  ASSUME TypeInv, types' = Allocate(TypeVar)
  PROVE  /\ Graph(types') /\ Evolves(types, types') /\ Len(types) \in Nat
         /\ New \in 1 .. Len(types') /\ Len(types') = Len(types) + 1
         /\ New # NULL /\ types'[New].type = "VARIABLE"
<1>1. TypeVar = [type |-> "VARIABLE", arg_first |-> 0, arg_second |-> 0]
  BY DEF TypeVar, TypeExp, NULL
<1>2. Graph(types) /\ Len(types) \in Nat
  BY Unchanged DEF TypeInv
<1>3. TypeVar \in Node /\ PointersOK(TypeVar, Len(types) + 1)
  BY <1>1, <1>2 DEF Node, NodeTypes, PointersOK, Compound
<1>4. /\ Graph(types') /\ Evolves(types, types') /\ Len(types') = Len(types) + 1
      /\ types'[Len(types) + 1] = TypeVar
  BY <1>2, <1>3, NodeAllocated DEF Allocate
<1>5. TypeVar.type = "VARIABLE"
  BY <1>1
<1> QED
  BY <1>2, <1>4, <1>5 DEF New, NULL

LEMMA Identifiers ==
  ASSUME TypeInv, AnalyzeIdentifier
  PROVE  TypeInv'
<1> DEFINE type == LookupType(top.env, top.node.identifier_id)
           a == [top EXCEPT !.at = "copied", !.one = type]
<1>1. calls # <<>> /\ top.fn = "Analyze" /\ types' = types
  BY DEF AnalyzeIdentifier, Analyzing, Running
<1>2. /\ Graph(types') /\ Evolves(types, types') /\ CallInv(top, types)
      /\ Len(types) \in Nat /\ Len(types) > 2
  BY <1>1, Innermost
<1>3. EnvOK(top.env, Len(types))
  BY <1>2 DEF CallInv, EnvOK
<1>4. type \in 0 .. Len(types)
  BY <1>2, <1>3, TypeLookedUp
<1>5. CASE type = NULL
  <2>1. Return(ErrorTypeExp)
    BY <1>5 DEF AnalyzeIdentifier
  <2>2. ErrorTypeExp \in 1 .. Len(types)
    BY <1>2 DEF ErrorTypeExp
  <2> QED
    BY <1>1, <2>1, <2>2, TypeReturned
<1>6. CASE type # NULL
  <2>1. CallFrom(a, Fresh(type))
    BY <1>6 DEF AnalyzeIdentifier
  <2>2. Moved(a, top, "copied", type, top.two)
    BY <1>2, OneMoves DEF CallInv
  <2>3. type \in 1 .. Len(types')
    BY <1>1, <1>2, <1>4, <1>6 DEF NULL
  <2> HIDE DEF a, type
  <2>4. SameCall(a, top) /\ a.at = "copied" /\ a.one = type /\ a.two = top.two
    BY <2>2 DEF Moved
  <2>5. KeptByCall(a, types') /\ a.at \notin ForUnify
    BY <2>4 DEF KeptByCall, HasOne, HasTwo, ForUnify
  <2>6. a.one \in 0 .. Len(types') /\ a.two \in 0 .. Len(types')
    BY <1>1, <1>2, <1>4, <2>4 DEF CallInv
  <2>7. CallInv(a, types') /\ a.fn = top.fn
    BY <1>1, <1>2, <2>4, <2>5, <2>6, Waits
  <2>8. CallInv(Fresh(type), types') /\ Fresh(type).fn = "Fresh"
    BY <1>2, <2>3, FreshStarts
  <2>9. a.at \in ForUnify <=> Fresh(type).fn = "Unify"
    BY <2>5, <2>8
  <2> QED
    BY <1>1, <1>2, <2>1, <2>7, <2>8, <2>9, Called
<1> QED
  BY <1>5, <1>6

LEMMA Lambdas ==
  ASSUME TypeInv, AnalyzeLambda
  PROVE  TypeInv'
<1> DEFINE a == [top EXCEPT !.at = "body", !.one = New]
           env == BindType(top.env, top.node.lambda_id, New)
           list == Append(top.non_generics, New)
           b == Analyze(top.node.lambda_body, env, list)
<1>1. /\ calls # <<>> /\ top.fn = "Analyze" /\ types' = Allocate(TypeVar)
      /\ CallFrom(a, b)
  BY DEF AnalyzeLambda, Analyzing, Running
<1>2. /\ Graph(types') /\ Evolves(types, types') /\ Len(types) \in Nat
      /\ New \in 1 .. Len(types') /\ Len(types') = Len(types) + 1 /\ New # NULL
  BY <1>1, VariableAllocated
<1>3. /\ CallInv(top, types') /\ Len(types') \in Nat
      /\ EnvOK(top.env, Len(types')) /\ ListOK(top.non_generics, Len(types'))
  BY <1>1, <1>2, EnvironmentEvolves
<1>4. Moved(a, top, "body", New, top.two)
  BY <1>3, OneMoves DEF CallInv
<1>5. EnvOK(env, Len(types')) /\ ListOK(list, Len(types'))
  BY <1>2, <1>3, TypeBound, TypeListed
<1> HIDE DEF a, env, list
<1>6. CallInv(b, types') /\ b.fn = "Analyze"
  BY <1>2, <1>5, AnalyzeStarts
<1>7. SameCall(a, top) /\ a.at = "body" /\ a.one = New /\ a.two = top.two
  BY <1>4 DEF Moved
<1>8. KeptByCall(a, types') /\ a.at \notin ForUnify
  BY <1>2, <1>7 DEF KeptByCall, HasOne, HasTwo, ForUnify
<1>9. a.one \in 0 .. Len(types') /\ a.two \in 0 .. Len(types')
  BY <1>2, <1>3, <1>7 DEF CallInv
<1>10. CallInv(a, types') /\ a.fn = top.fn
  BY <1>1, <1>2, <1>7, <1>8, <1>9, Waits
<1>11. a.at \in ForUnify <=> b.fn = "Unify"
  BY <1>6, <1>8
<1> HIDE DEF b
<1> QED
  BY <1>1, <1>2, <1>6, <1>10, <1>11, Called

\* The type of a value is made generic.
LEMMA Generics ==
  ASSUME TypeInv, calls # <<>>, top.fn = "Analyze", UNCHANGED types,
         NEW a, NEW type \in 1 .. Len(types),
         CallFrom(a, Generic(type, top.non_generics)),
         Moved(a, top, a.at, type, top.two), KeptByCall(a, types), a.at \notin ForUnify
  PROVE  TypeInv'
<1>1. /\ Graph(types') /\ Evolves(types, types') /\ CallInv(top, types)
      /\ Len(types) \in Nat /\ types' = types
  BY Innermost
<1>2. ListOK(top.non_generics, Len(types))
  BY <1>1 DEF CallInv, ListOK
<1>3. /\ CallInv(Generic(type, top.non_generics), types')
      /\ Generic(type, top.non_generics).fn = "Generic"
  BY <1>1, <1>2, GenericStarts
<1>4. SameCall(a, top) /\ a.one \in 0 .. Len(types') /\ a.two \in 0 .. Len(types')
  BY <1>1 DEF Moved, CallInv
<1>5. CallInv(a, types') /\ a.fn = top.fn
  BY <1>1, <1>4, Waits
<1>6. a.at \in ForUnify <=> Generic(type, top.non_generics).fn = "Unify"
  BY <1>3
<1> QED
  BY <1>1, <1>3, <1>5, <1>6, Called

LEMMA LetGenerics ==
  ASSUME TypeInv, LetGeneric \/ LetRecGeneric
  PROVE  TypeInv'
<1>1. CASE LetGeneric
  <2> DEFINE a == [top EXCEPT !.at = "generic", !.one = ret]
  <2>1. /\ calls # <<>> /\ top.fn = "Analyze" /\ top.at = "value" /\ ret # None
        /\ UNCHANGED types /\ CallFrom(a, Generic(ret, top.non_generics))
    BY <1>1 DEF LetGeneric, Resuming, Returned, Running
  <2>2. ret \in 1 .. Len(types) /\ CallInv(top, types)
    BY <2>1, TypeGiven, Innermost DEF ForUnify
  <2>3. Moved(a, top, "generic", ret, top.two)
    BY <2>2, OneMoves DEF CallInv
  <2> HIDE DEF a
  <2>4. a.at = "generic"
    BY <2>3 DEF Moved
  <2>5. KeptByCall(a, types) /\ a.at \notin ForUnify
    BY <2>4 DEF KeptByCall, HasOne, HasTwo, ForUnify
  <2>6. Moved(a, top, a.at, ret, top.two)
    BY <2>3, <2>4
  <2> QED
    BY <2>1, <2>2, <2>5, <2>6, Generics
<1>2. CASE LetRecGeneric
  <2> DEFINE a == [top EXCEPT !.at = "rec generic"]
  <2>1. /\ calls # <<>> /\ top.fn = "Analyze" /\ top.at = "rec unified"
        /\ UNCHANGED types /\ CallFrom(a, Generic(top.one, top.non_generics))
    BY <1>2 DEF LetRecGeneric, Resuming, Returned, Running
  <2>2. /\ CallInv(top, types) /\ top.one \in 0 .. Len(types) /\ top.one # NULL
        /\ Len(types) \in Nat /\ types[top.one].type = "VARIABLE"
    BY <2>1, Innermost DEF CallInv, KeptByCall, HasOne
  <2>3. Moved(a, top, "rec generic", top.one, top.two)
    BY <2>2, AtMoves DEF CallInv
  <2>4. top.one \in 1 .. Len(types)
    BY <2>2 DEF NULL
  <2> HIDE DEF a
  <2>5. a.at = "rec generic" /\ a.one = top.one
    BY <2>3 DEF Moved
  <2>6. KeptByCall(a, types) /\ a.at \notin ForUnify
    BY <2>2, <2>5 DEF KeptByCall, HasOne, HasTwo, ForUnify
  <2>7. Moved(a, top, a.at, top.one, top.two)
    BY <2>3, <2>5
  <2> QED
    BY <2>1, <2>4, <2>6, <2>7, Generics
<1> QED
  BY <1>1, <1>2

LEMMA LetRecs ==
  ASSUME TypeInv, AnalyzeLetRec
  PROVE  TypeInv'
<1> DEFINE env == BindType(top.env, top.node.let_id, New)
           list == Append(top.non_generics, New)
           a == [top EXCEPT !.at = "rec value", !.env = env, !.one = New]
           b == Analyze(top.node.let_value, env, list)
<1>1. /\ calls # <<>> /\ top.fn = "Analyze" /\ types' = Allocate(TypeVar)
      /\ CallFrom(a, b)
  BY DEF AnalyzeLetRec, Analyzing, Running
<1>2. /\ Graph(types') /\ Evolves(types, types') /\ Len(types) \in Nat
      /\ New \in 1 .. Len(types') /\ Len(types') = Len(types) + 1 /\ New # NULL
      /\ types'[New].type = "VARIABLE"
  BY <1>1, VariableAllocated
<1>3. /\ CallInv(top, types') /\ Len(types') \in Nat
      /\ EnvOK(top.env, Len(types')) /\ ListOK(top.non_generics, Len(types'))
  BY <1>1, <1>2, EnvironmentEvolves
<1>4. EnvOK(env, Len(types')) /\ ListOK(list, Len(types'))
  BY <1>2, <1>3, TypeBound, TypeListed
<1> HIDE DEF env, list
<1>5. /\ IsActivation(a) /\ a.fn = top.fn /\ a.at = "rec value" /\ a.env = env
      /\ a.non_generics = top.non_generics /\ a.one = New /\ a.two = top.two
  <2> DEFINE c == [top EXCEPT !.at = "rec value"]
             d == [c EXCEPT !.env = env]
  <2>1. a = [d EXCEPT !.one = New]
    BY Zenon
  <2>2. Moved(c, top, "rec value", top.one, top.two)
    BY <1>3, AtMoves DEF CallInv
  <2> HIDE DEF c
  <2>3. d = [fn |-> c.fn, at |-> c.at, node |-> c.node, env |-> env,
             non_generics |-> c.non_generics, one |-> c.one, two |-> c.two]
    BY <2>2, FieldSet DEF Moved, SameCall
  <2> HIDE DEF d
  <2>4. IsActivation(d)
    BY <2>3 DEF IsActivation
  <2>5. a = [fn |-> d.fn, at |-> d.at, node |-> d.node, env |-> d.env,
             non_generics |-> d.non_generics, one |-> New, two |-> d.two]
    BY <2>1, <2>4, FieldSet
  <2> HIDE DEF a
  <2> QED
    BY <2>2, <2>3, <2>5 DEF IsActivation, Moved, SameCall
<1> HIDE DEF a
<1>6. CallInv(b, types') /\ b.fn = "Analyze"
  BY <1>2, <1>4, AnalyzeStarts
<1>7. KeptByCall(a, types') /\ a.at \notin ForUnify
  BY <1>2, <1>5 DEF KeptByCall, HasOne, HasTwo, ForUnify
<1>8. a.one \in 0 .. Len(types') /\ a.two \in 0 .. Len(types')
  <2>1. top.two \in 0 .. Len(types')
    BY <1>3 DEF CallInv
  <2>2. New \in 0 .. Len(types')
    BY <1>2, <1>3
  <2>3. a.one = New /\ a.two = top.two
    BY <1>5
  <2> QED
    BY <2>1, <2>2, <2>3
<1>9. CallInv(a, types')
  BY <1>1, <1>2, <1>3, <1>4, <1>5, <1>7, <1>8 DEF CallInv, EnvOK, ListOK
<1>10. a.at \in ForUnify <=> b.fn = "Unify"
  BY <1>6, <1>7
<1> HIDE DEF b
<1> QED
  BY <1>1, <1>2, <1>5, <1>6, <1>9, <1>10, Called

\* The body of a let is analyzed in the place of the let.
LEMMA Bodies ==
  ASSUME TypeInv, LetBody \/ LetRecBody \/ AnalyzeUnary
  PROVE  TypeInv'
<1>1. CASE LetBody
  <2> DEFINE env == BindType(top.env, top.node.let_id, ret)
             b == Analyze(top.node.let_body, env, top.non_generics)
  <2>1. /\ calls # <<>> /\ top.fn = "Analyze" /\ top.at = "generic" /\ ret # None
        /\ types' = Cleaned(top.one) /\ Become(b)
    BY <1>1 DEF LetBody, Resuming, Returned, Running
  <2>2. Graph(types') /\ Evolves(types, types') /\ Len(types') = Len(types)
    BY <2>1, Innermost, CleanedKeeps
  <2>3. ret \in 1 .. Len(types')
    BY <2>1, <2>2, TypeGiven DEF ForUnify
  <2>4. /\ Len(types') \in Nat
        /\ EnvOK(top.env, Len(types')) /\ ListOK(top.non_generics, Len(types'))
    BY <2>1, <2>2, EnvironmentEvolves
  <2>5. EnvOK(env, Len(types'))
    BY <2>3, <2>4, TypeBound
  <2> HIDE DEF env
  <2>6. CallInv(b, types') /\ b.fn = "Analyze"
    BY <2>2, <2>4, <2>5, AnalyzeStarts
  <2> HIDE DEF b
  <2>7. b.fn = "Unify" <=> top.fn = "Unify"
    BY <2>1, <2>6
  <2> QED
    BY <2>1, <2>2, <2>6, <2>7, Became
<1>2. CASE LetRecBody
  <2> DEFINE b == Analyze(top.node.let_body, top.env, top.non_generics)
             nodes == Cleaned(top.one)
  <2>1. /\ calls # <<>> /\ top.fn = "Analyze" /\ top.at = "rec generic" /\ ret # None
        /\ types' = [nodes EXCEPT ![top.one].arg_first = ret] /\ Become(b)
    BY <1>2 DEF LetRecBody, Resuming, Returned, Running
  <2>2. /\ Graph(types) /\ top.one \in 0 .. Len(types) /\ top.one # NULL
        /\ Len(types) \in Nat /\ types[top.one].type = "VARIABLE"
    BY <2>1, Innermost DEF CallInv, KeptByCall, HasOne
  <2>3. Graph(nodes) /\ Evolves(types, nodes) /\ Len(nodes) = Len(types)
    BY <2>2, CleanedKeeps
  <2> HIDE DEF nodes
  <2>4. top.one \in 1 .. Len(nodes) /\ ret \in 0 .. Len(nodes)
    <3>1. top.one \in 1 .. Len(types)
      BY <2>2 DEF NULL
    <3>2. ret \in 1 .. Len(types)
      BY <2>1, TypeGiven DEF ForUnify
    <3> QED
      BY <2>3, <3>1, <3>2
  <2>5. nodes[top.one].type \in {"VARIABLE", "GENERIC_VARIABLE"}
    BY <2>2, <2>3, <2>4 DEF Evolves
  <2>6. Graph(types') /\ Evolves(nodes, types') /\ Len(types') = Len(types)
    <3>1. \A x \in 0 .. Len(nodes) :
            LET later == [nodes EXCEPT ![top.one].arg_first = x]
            IN Graph(later) /\ Evolves(nodes, later) /\ Len(later) = Len(nodes)
      BY <2>3, <2>4, <2>5, VariableSet
    <3> QED
      BY <2>1, <2>3, <2>4, <3>1
  <2>7. Evolves(types, types')
    BY <2>2, <2>3, <2>6, EvolvesTwice
  <2>8. EnvOK(top.env, Len(types')) /\ ListOK(top.non_generics, Len(types'))
    BY <2>1, <2>6, <2>7, EnvironmentEvolves
  <2>9. CallInv(b, types') /\ b.fn = "Analyze"
    BY <2>6, <2>8, AnalyzeStarts
  <2> HIDE DEF b
  <2>10. b.fn = "Unify" <=> top.fn = "Unify"
    BY <2>1, <2>9
  <2> QED
    BY <2>1, <2>6, <2>7, <2>9, <2>10, Became
<1>3. CASE AnalyzeUnary
  <2> DEFINE a == [top EXCEPT !.node = top.node.unary_arg]
  <2>1. /\ calls # <<>> /\ top.fn = "Analyze" /\ top.at = "start" /\ types' = types
        /\ Become(a)
    BY <1>3 DEF AnalyzeUnary, Analyzing, Running
  <2>2. Graph(types') /\ Evolves(types, types') /\ CallInv(top, types)
    BY <2>1, Innermost
  <2>3. a = [fn |-> top.fn, at |-> top.at, node |-> top.node.unary_arg, env |-> top.env,
             non_generics |-> top.non_generics, one |-> top.one, two |-> top.two]
    BY <2>2, FieldSet DEF CallInv
  <2> HIDE DEF a
  <2>4. /\ IsActivation(a) /\ a.fn = top.fn /\ a.at = top.at /\ a.env = top.env
        /\ a.non_generics = top.non_generics /\ a.one = top.one /\ a.two = top.two
    BY <2>3 DEF IsActivation
  <2>5. KeptByCall(a, types)
    BY <2>1, <2>4 DEF KeptByCall, HasOne, HasTwo
  <2>6. CallInv(a, types')
    BY <2>1, <2>2, <2>4, <2>5 DEF CallInv
  <2>7. a.fn = "Unify" <=> top.fn = "Unify"
    BY <2>4
  <2> QED
    BY <2>1, <2>2, <2>6, <2>7, Became
<1> QED
  BY <1>1, <1>2, <1>3

\* Two types are unified, and the nodes stay as they are.
LEMMA KnownUnified ==
  ASSUME TypeInv, calls # <<>>, top.fn = "Analyze", UNCHANGED types,
         NEW a, NEW node, NEW error_code, NEW one, NEW two,
         one \in 1 .. Len(types), two \in 1 .. Len(types),
         CallUnify(a, node, error_code, one, two), SameCall(a, top),
         a.one \in 0 .. Len(types), a.two \in 0 .. Len(types),
         KeptByCall(a, types), a.at \in ForUnify
  PROVE  TypeInv'
<1>1. Graph(types') /\ Evolves(types, types') /\ types' = types
  BY Innermost
<1> QED
  BY <1>1, TypesUnified

LEMMA Applies ==
  ASSUME TypeInv, ApplyUnify
  PROVE  TypeInv'
<1> DEFINE result == New
           function == New + 1
           n == Len(types)
           a == [top EXCEPT !.at = "applied", !.two = result]
           first == Append(types, TypeVar)
           node == TypeExp("FUNC", ret, result)
<1>1. /\ calls # <<>> /\ top.fn = "Analyze" /\ top.at = "argument" /\ ret # None
  BY DEF ApplyUnify, Resuming, Returned, Running
<1>2. /\ Graph(types) /\ n \in Nat /\ n > 2 /\ CallInv(top, types) /\ ret \in 1 .. n
      /\ top.one \in 1 .. n
  <2>1. ret \in 1 .. n
    BY <1>1, TypeGiven DEF ForUnify
  <2>2. /\ top.one \in 0 .. n /\ top.one # NULL
    BY <1>1, Innermost DEF CallInv, KeptByCall, HasOne
  <2> QED
    BY <1>1, <2>1, <2>2, Innermost DEF NULL
<1>3. CASE IsErrorType(top.one) \/ IsErrorType(ret)
  <2>1. Return(ErrorTypeExp) /\ UNCHANGED types
    BY <1>3 DEF ApplyUnify
  <2>2. ErrorTypeExp \in 1 .. n
    BY <1>2 DEF ErrorTypeExp
  <2> QED
    BY <1>1, <2>1, <2>2, TypeReturned
<1>4. CASE ~(IsErrorType(top.one) \/ IsErrorType(ret))
  <2>1. /\ types' = types \o <<TypeVar, node>>
        /\ CallUnify(a, top.node, "INVALID_FUNCTION_APPLY", function, top.one)
    BY <1>4 DEF ApplyUnify
  <2>2. TypeVar \in Node /\ PointersOK(TypeVar, n + 1)
    <3>1. TypeVar = [type |-> "VARIABLE", arg_first |-> 0, arg_second |-> 0]
      BY DEF TypeVar, TypeExp, NULL
    <3> QED
      BY <1>2, <3>1 DEF Node, NodeTypes, PointersOK, Compound
  <2>3. Graph(first) /\ Evolves(types, first) /\ Len(first) = n + 1
    BY <1>2, <2>2, NodeAllocated
  <2>4. node \in Node /\ PointersOK(node, n + 2)
    <3>1. node = [type |-> "FUNC", arg_first |-> ret, arg_second |-> n + 1]
      BY DEF TypeExp, New
    <3> HIDE DEF node
    <3> QED
      BY <1>2, <3>1 DEF Node, NodeTypes, PointersOK, NULL
  <2>5. n + 2 = n + 1 + 1 /\ n + 1 \in 1 .. n + 2 /\ n + 2 \in 1 .. n + 2
    BY <1>2
  <2>6. types' = Append(first, node)
    <3> DEFINE S == Range(types) \union {TypeVar, node}
    <3>1. types \in Seq(S)
      <4>1. types \in Seq(Range(types))
        BY <1>2, SeqOfRange DEF Graph
      <4> QED
        BY <4>1, SeqMonotonic
    <3> HIDE DEF node
    <3> QED
      BY <2>1, <3>1, AppendIsConcat, ConcatAssociative, AppendProperties
  <2> HIDE DEF first, node
  <2>7. Graph(types') /\ Evolves(first, types') /\ Len(types') = n + 2
    BY <2>3, <2>4, <2>5, <2>6, NodeAllocated
  <2>8. Evolves(types, types')
    BY <1>2, <2>3, <2>7, EvolvesTwice
  <2>9. /\ function \in 1 .. Len(types') /\ top.one \in 1 .. Len(types')
        /\ result \in 0 .. Len(types') /\ result # NULL
        /\ top.one \in 0 .. Len(types')
    BY <1>2, <2>7 DEF New, NULL
  <2>10. Moved(a, top, "applied", top.one, result)
    BY <1>2, TwoMoves DEF CallInv
  <2> HIDE DEF a, result, function
  <2>11. SameCall(a, top) /\ a.at = "applied" /\ a.one = top.one /\ a.two = result
    BY <2>10 DEF Moved
  <2>12. KeptByCall(a, types') /\ a.at \in ForUnify
    BY <2>9, <2>11 DEF KeptByCall, HasOne, HasTwo, ForUnify
  <2> QED
    BY <1>1, <2>1, <2>7, <2>8, <2>9, <2>11, <2>12, TypesUnified
<1> QED
  BY <1>3, <1>4

\* A pointer that is not NULL points to a node.
LEMMA NotNull ==
  ASSUME NEW n \in Nat, NEW a
  PROVE  a \in 1 .. n <=> a \in 0 .. n /\ a # NULL
BY DEF NULL

\* The types that the innermost function keeps.
LEMMA Known ==
  ASSUME TypeInv, calls # <<>>
  PROVE  /\ CallInv(top, types) /\ IsActivation(top) /\ KeptByCall(top, types)
         /\ top.one \in 0 .. Len(types) /\ top.two \in 0 .. Len(types)
         /\ top.at \in HasOne => top.one \in 1 .. Len(types)
         /\ top.at \in HasTwo => top.two \in 1 .. Len(types)
<1>1. /\ CallInv(top, types) /\ KeptByCall(top, types) /\ Len(types) \in Nat
  BY Innermost DEF CallInv
<1>2. /\ IsActivation(top)
      /\ top.one \in 0 .. Len(types) /\ top.two \in 0 .. Len(types)
  BY <1>1 DEF CallInv
<1>3. /\ top.at \in HasOne => top.one # NULL
      /\ top.at \in HasTwo => top.two # NULL
  BY <1>1 DEF KeptByCall
<1> QED
  BY <1>1, <1>2, <1>3, NotNull

LEMMA Unifies ==
  ASSUME TypeInv, LetRecUnify \/ IfTest \/ IfUnify
  PROVE  TypeInv'
<1>1. CASE LetRecUnify
  <2> DEFINE a == [top EXCEPT !.at = "rec unified"]
  <2>1. /\ calls # <<>> /\ top.fn = "Analyze" /\ top.at = "rec value" /\ ret # None
        /\ UNCHANGED types
        /\ CallUnify(a, top.node, "INCONSISTENT_RECURSION", top.one, ret)
    BY <1>1 DEF LetRecUnify, Resuming, Returned, Running
  <2>2. top.at \in HasOne /\ top.at \notin ForUnify
    BY <2>1 DEF HasOne, ForUnify
  <2>3. ret \in 1 .. Len(types)
    BY <2>1, <2>2, TypeGiven
  <2>4. /\ IsActivation(top) /\ top.one \in 1 .. Len(types)
        /\ top.one \in 0 .. Len(types) /\ top.two \in 0 .. Len(types)
        /\ types[top.one].type = "VARIABLE" /\ top.one # NULL
    BY <2>1, <2>2, Known DEF KeptByCall
  <2>5. Moved(a, top, "rec unified", top.one, top.two)
    BY <2>4, AtMoves
  <2> HIDE DEF a
  <2>6. SameCall(a, top) /\ a.at = "rec unified" /\ a.one = top.one /\ a.two = top.two
    BY <2>5 DEF Moved
  <2>7. KeptByCall(a, types) /\ a.at \in ForUnify
    BY <2>4, <2>6 DEF KeptByCall, HasOne, HasTwo, ForUnify
  <2> QED
    BY <2>1, <2>3, <2>4, <2>6, <2>7, KnownUnified
<1>2. CASE IfTest
  <2> DEFINE a == [top EXCEPT !.at = "condition"]
  <2>1. /\ calls # <<>> /\ top.fn = "Analyze" /\ top.at = "test" /\ ret # None
        /\ UNCHANGED types
        /\ CallUnify(a, top.node.if_test, "IF_CONDITION_BOOLEAN", ret, BooleanTypeExp)
    BY <1>2 DEF IfTest, Resuming, Returned, Running
  <2>2. ret \in 1 .. Len(types) /\ BooleanTypeExp \in 1 .. Len(types)
    BY <2>1, TypeGiven, Innermost DEF ForUnify, BooleanTypeExp
  <2>3. /\ IsActivation(top)
        /\ top.one \in 0 .. Len(types) /\ top.two \in 0 .. Len(types)
    BY <2>1, Known
  <2>4. Moved(a, top, "condition", top.one, top.two)
    BY <2>3, AtMoves
  <2> HIDE DEF a
  <2>5. SameCall(a, top) /\ a.at = "condition" /\ a.one = top.one /\ a.two = top.two
    BY <2>4 DEF Moved
  <2>6. KeptByCall(a, types) /\ a.at \in ForUnify
    BY <2>5 DEF KeptByCall, HasOne, HasTwo, ForUnify
  <2> QED
    BY <2>1, <2>2, <2>3, <2>5, <2>6, KnownUnified
<1>3. CASE IfUnify
  <2> DEFINE a == [top EXCEPT !.at = "branches"]
  <2>1. /\ calls # <<>> /\ top.fn = "Analyze" /\ top.at = "else" /\ ret # None
        /\ UNCHANGED types
        /\ CallUnify(a, top.node, "IF_BRANCHES_SAME", top.one, ret)
    BY <1>3 DEF IfUnify, Resuming, Returned, Running
  <2>2. top.at \in HasOne /\ top.at \notin ForUnify
    BY <2>1 DEF HasOne, ForUnify
  <2>3. ret \in 1 .. Len(types)
    BY <2>1, <2>2, TypeGiven
  <2>4. /\ IsActivation(top) /\ top.one \in 1 .. Len(types)
        /\ top.one \in 0 .. Len(types) /\ top.two \in 0 .. Len(types)
        /\ top.one # NULL
    BY <2>1, <2>2, Known DEF KeptByCall
  <2>5. Moved(a, top, "branches", top.one, top.two)
    BY <2>4, AtMoves
  <2> HIDE DEF a
  <2>6. SameCall(a, top) /\ a.at = "branches" /\ a.one = top.one /\ a.two = top.two
    BY <2>5 DEF Moved
  <2>7. KeptByCall(a, types) /\ a.at \in ForUnify
    BY <2>4, <2>6 DEF KeptByCall, HasOne, HasTwo, ForUnify
  <2> QED
    BY <2>1, <2>3, <2>4, <2>6, <2>7, KnownUnified
<1> QED
  BY <1>1, <1>2, <1>3

\* The operands of a binary operator are unified with its types.
LEMMA Operands ==
  ASSUME TypeInv, BinaryUnifyLeft \/ BinaryUnifyRight \/ BinaryUnifyBoth
  PROVE  TypeInv'
<1>1. ASSUME NEW a, NEW one, NEW two, calls # <<>>, top.fn = "Analyze",
             UnifyOperand(a, one, two),
             one \in 1 .. Len(types), two \in 1 .. Len(types),
             SameCall(a, top), a.one \in 1 .. Len(types), a.two \in 1 .. Len(types),
             a.at \in {"left unified", "right unified", "unified"},
             a.at = "left unified" => top.node.binary_operator # "EQUALS"
      PROVE  TypeInv'
  <2>1. UNCHANGED types
        /\ CallUnify(a, top.node, "NO_VALID_BINARY_OPERATOR", one, two)
    BY <1>1 DEF UnifyOperand
  <2>2. a.one \in 0 .. Len(types) /\ a.two \in 0 .. Len(types)
        /\ a.one # NULL /\ a.two # NULL /\ a.node = top.node
    <3>1. a.one \in 0 .. Len(types) /\ a.two \in 0 .. Len(types)
          /\ a.one # NULL /\ a.two # NULL
      BY <1>1, Innermost, NotNull
    <3> QED
      BY <1>1, <3>1 DEF SameCall
  <2>3. KeptByCall(a, types) /\ a.at \in ForUnify
    BY <1>1, <2>2 DEF KeptByCall, ForUnify
  <2> QED
    BY <1>1, <2>1, <2>2, <2>3, KnownUnified
<1>2. CASE BinaryUnifyLeft
  <2> DEFINE a == [top EXCEPT !.at = "left unified", !.two = ret]
  <2>1. /\ calls # <<>> /\ top.fn = "Analyze" /\ top.at = "right" /\ ret # None
        /\ TopEntry.left # NULL /\ UnifyOperand(a, top.one, TopEntry.left)
    BY <1>2 DEF BinaryUnifyLeft, Resuming, Returned, Running
  <2>2. top.at \in HasOne /\ top.at \notin ForUnify
    BY <2>1 DEF HasOne, ForUnify
  <2>3. /\ ret \in 1 .. Len(types) /\ IsActivation(top) /\ top.one \in 1 .. Len(types)
        /\ Len(types) > 2 /\ Len(types) \in Nat
    BY <2>1, <2>2, TypeGiven, Known, Innermost
  <2>4. top.node.binary_operator # "EQUALS" /\ TopEntry.left = IntegerTypeExp
    BY <2>1 DEF TopEntry, OperatorEntry
  <2>5. TopEntry.left \in 1 .. Len(types)
    BY <2>3, <2>4 DEF IntegerTypeExp
  <2>6. Moved(a, top, "left unified", top.one, ret)
    BY <2>3, TwoMoves
  <2> HIDE DEF a
  <2>7. SameCall(a, top) /\ a.at = "left unified" /\ a.one = top.one /\ a.two = ret
    BY <2>6 DEF Moved
  <2>8. a.at \in {"left unified", "right unified", "unified"}
    BY <2>7
  <2> QED
    BY <2>1, <2>3, <2>4, <2>5, <2>7, <2>8, <1>1
<1>3. CASE BinaryUnifyRight
  <2> DEFINE a == [top EXCEPT !.at = "right unified"]
  <2>1. /\ calls # <<>> /\ top.fn = "Analyze" /\ top.at = "left unified"
        /\ UnifyOperand(a, top.two, TopEntry.right)
    BY <1>3 DEF BinaryUnifyRight, Resuming, Returned, Running
  <2>2. top.at \in HasOne /\ top.at \in HasTwo
    BY <2>1 DEF HasOne, HasTwo
  <2>3. /\ IsActivation(top) /\ top.one \in 1 .. Len(types) /\ top.two \in 1 .. Len(types)
        /\ Len(types) > 2 /\ Len(types) \in Nat /\ KeptByCall(top, types)
    BY <2>1, <2>2, Known, Innermost
  <2>4. top.node.binary_operator # "EQUALS"
    BY <2>1, <2>3 DEF KeptByCall
  <2>5. TopEntry.right = IntegerTypeExp
    BY <2>4 DEF TopEntry, OperatorEntry
  <2>6. TopEntry.right \in 1 .. Len(types)
    BY <2>3, <2>5 DEF IntegerTypeExp
  <2>7. Moved(a, top, "right unified", top.one, top.two)
    BY <2>3, AtMoves
  <2> HIDE DEF a
  <2>8. SameCall(a, top) /\ a.at = "right unified" /\ a.one = top.one /\ a.two = top.two
    BY <2>7 DEF Moved
  <2>9. a.at \in {"left unified", "right unified", "unified"} /\ a.at # "left unified"
    BY <2>8
  <2> QED
    BY <2>1, <2>3, <2>6, <2>8, <2>9, <1>1
<1>4. ASSUME Resuming("right unified"),
             UnifyOperand([top EXCEPT !.at = "unified"], top.one, top.two)
      PROVE  TypeInv'
  <2> DEFINE a == [top EXCEPT !.at = "unified"]
  <2>1. /\ calls # <<>> /\ top.fn = "Analyze" /\ top.at = "right unified"
        /\ UnifyOperand(a, top.one, top.two)
    BY <1>4 DEF Resuming, Returned, Running
  <2>2. top.at \in HasOne /\ top.at \in HasTwo
    BY <2>1 DEF HasOne, HasTwo
  <2>3. /\ IsActivation(top) /\ top.one \in 1 .. Len(types) /\ top.two \in 1 .. Len(types)
    BY <2>1, <2>2, Known
  <2>4. Moved(a, top, "unified", top.one, top.two)
    BY <2>3, AtMoves
  <2> HIDE DEF a
  <2>5. SameCall(a, top) /\ a.at = "unified" /\ a.one = top.one /\ a.two = top.two
    BY <2>4 DEF Moved
  <2>6. a.at \in {"left unified", "right unified", "unified"} /\ a.at # "left unified"
    BY <2>5
  <2> QED
    BY <2>1, <2>3, <2>5, <2>6, <1>1
<1>5. ASSUME Resuming("right"),
             UnifyOperand([top EXCEPT !.at = "unified", !.two = ret], top.one, ret)
      PROVE  TypeInv'
  <2> DEFINE a == [top EXCEPT !.at = "unified", !.two = ret]
  <2>1. /\ calls # <<>> /\ top.fn = "Analyze" /\ top.at = "right" /\ ret # None
        /\ UnifyOperand(a, top.one, ret)
    BY <1>5 DEF Resuming, Returned, Running
  <2>2. top.at \in HasOne /\ top.at \notin ForUnify
    BY <2>1 DEF HasOne, ForUnify
  <2>3. /\ IsActivation(top) /\ top.one \in 1 .. Len(types) /\ ret \in 1 .. Len(types)
    BY <2>1, <2>2, Known, TypeGiven
  <2>4. Moved(a, top, "unified", top.one, ret)
    BY <2>3, TwoMoves
  <2> HIDE DEF a
  <2>5. SameCall(a, top) /\ a.at = "unified" /\ a.one = top.one /\ a.two = ret
    BY <2>4 DEF Moved
  <2>6. a.at \in {"left unified", "right unified", "unified"} /\ a.at # "left unified"
    BY <2>5
  <2> QED
    BY <2>1, <2>3, <2>5, <2>6, <1>1
<1>6. CASE BinaryUnifyBoth
  BY <1>4, <1>5, <1>6 DEF BinaryUnifyBoth
<1> QED
  BY <1>2, <1>3, <1>6

-----------------------------------------------------------------------------
(***************************************************************************)
(* The copies.                                                             *)
(***************************************************************************)
\* The shape of a node.
LEMMA NodeShape ==
  ASSUME Graph(types), NEW a \in 1 .. Len(types)
  PROVE  /\ PointersOK(types[a], Len(types)) /\ types[a] \in Node
         /\ types[a].type \in NodeTypes
         /\ types[a].arg_first \in 0 .. Len(types)
         /\ types[a].arg_second \in 0 .. Len(types)
         /\ types[a].type \in Compound => types[a].arg_first \in 1 .. Len(types)
         /\ types[a].type \in {"FUNC", "TUPLE"} => types[a].arg_second \in 1 .. Len(types)
         /\ types[a].type = "TUPLE_FINAL" => types[a].arg_second = NULL
<1>1. /\ PointersOK(types[a], Len(types)) /\ types[a] \in Node /\ Len(types) \in Nat
  BY LenProperties DEF Graph
<1>2. types[a].type \in NodeTypes
  BY <1>1 DEF Node
<1> QED
  BY <1>1, <1>2, NotNull DEF PointersOK

\* What a function that copies knows when it starts.
LEMMA CopyStarts ==
  ASSUME TypeInv, NEW fn \in {"Generic", "Fresh"}, Copying(fn)
  PROVE  /\ calls # <<>> /\ top.fn = fn /\ top.at = "start" /\ Graph(types)
         /\ IsActivation(top) /\ Len(types) \in Nat
         /\ top.one \in 1 .. Len(types) /\ top.two \in 0 .. Len(types)
         /\ Prune(top.one) \in 1 .. Len(types) /\ Prune(top.one) # NULL
<1>1. calls # <<>> /\ top.fn = fn /\ top.at = "start"
  BY DEF Copying, Running
<1>2. /\ CallInv(top, types) /\ Graph(types) /\ Len(types) \in Nat
  BY <1>1, Innermost
<1>3. top.one \in 0 .. Len(types) /\ top.one # NULL
  BY <1>1, <1>2 DEF CallInv
<1>4. top.one \in 1 .. Len(types)
  BY <1>2, <1>3, NotNull
<1>5. Prune(top.one) \in 1 .. Len(types) /\ Prune(top.one) # NULL
  BY <1>2, <1>4, PruneIsNode, NotNull
<1> QED
  BY <1>1, <1>2, <1>4, <1>5 DEF CallInv

\* A variable gets a new node for its copy.
LEMMA VariableReplaced ==
  ASSUME TypeInv, NEW fn \in {"Generic", "Fresh"}, Copying(fn),
         NEW type \in {"VARIABLE", "GENERIC_VARIABLE"},
         Copied.type \in {"VARIABLE", "GENERIC_VARIABLE"}, ReplaceBy(type)
  PROVE  TypeInv'
<1> DEFINE p == Prune(top.one)
           node == TypeExp(type, NULL, NULL)
           nodes == Append(types, node)
           n == Len(types)
<1>1. /\ calls # <<>> /\ Graph(types) /\ n \in Nat /\ p \in 1 .. n
  BY CopyStarts
<1>2. node \in Node /\ PointersOK(node, n + 1)
  <2>1. node = [type |-> type, arg_first |-> 0, arg_second |-> 0]
    BY DEF TypeExp, NULL
  <2> HIDE DEF node
  <2> QED
    BY <1>1, <2>1 DEF Node, NodeTypes, PointersOK, Compound
<1>3. Graph(nodes) /\ Evolves(types, nodes) /\ Len(nodes) = n + 1
  BY <1>1, <1>2, NodeAllocated
<1>4. types' = [nodes EXCEPT ![p].arg_second = New] /\ Return(New)
  BY DEF ReplaceBy, Allocate
<1>5. types[p].type \in {"VARIABLE", "GENERIC_VARIABLE"}
  BY DEF Copied
<1> HIDE DEF nodes, node, p
<1>6. /\ p \in 1 .. Len(nodes) /\ New \in 0 .. Len(nodes) /\ New # NULL
      /\ nodes[p].type \in {"VARIABLE", "GENERIC_VARIABLE"}
  BY <1>1, <1>3, <1>5 DEF New, NULL, Evolves
<1>7. Graph(types') /\ Evolves(nodes, types') /\ Len(types') = Len(nodes)
  <2> DEFINE later == [nodes EXCEPT ![p].arg_second = New]
  <2>1. Graph(later) /\ Evolves(nodes, later) /\ Len(later) = Len(nodes)
    BY <1>3, <1>6, SecondSet
  <2>2. types' = later
    BY <1>4
  <2> HIDE DEF later
  <2> QED
    BY <2>1, <2>2
<1>8. Evolves(types, types')
  BY <1>1, <1>3, <1>7, EvolvesTwice
<1>9. New \in 0 .. Len(types')
  BY <1>6, <1>7
<1> QED
  BY <1>1, <1>4, <1>6, <1>7, <1>8, <1>9, Finished

LEMMA VariablesCopied ==
  ASSUME TypeInv, GenericVariable \/ FreshVariable
  PROVE  TypeInv'
<1>1. CASE GenericVariable
  <2>1. Copying("Generic") /\ Copied.type \in {"VARIABLE", "GENERIC_VARIABLE"}
    BY <1>1 DEF GenericVariable
  <2>2. CASE ReplaceBy("GENERIC_VARIABLE")
    BY <2>1, <2>2, VariableReplaced
  <2>3. CASE KeepVariable
    <3> DEFINE p == Prune(top.one)
    <3>1. /\ calls # <<>> /\ Graph(types) /\ p \in 1 .. Len(types) /\ p # NULL
          /\ Len(types) \in Nat
      BY <2>1, CopyStarts
    <3>2. types' = [types EXCEPT ![p].arg_second = p] /\ Return(p)
      BY <2>3 DEF KeepVariable
    <3>3. types[p].type \in {"VARIABLE", "GENERIC_VARIABLE"}
      BY <2>1 DEF Copied
    <3> HIDE DEF p
    <3>4. p \in 0 .. Len(types)
      BY <3>1
    <3>5. Graph(types') /\ Evolves(types, types') /\ Len(types') = Len(types)
      <4> DEFINE later == [types EXCEPT ![p].arg_second = p]
      <4>1. Graph(later) /\ Evolves(types, later) /\ Len(later) = Len(types)
        BY <3>1, <3>3, <3>4, SecondSet
      <4>2. types' = later
        BY <3>2
      <4> HIDE DEF later
      <4> QED
        BY <4>1, <4>2
    <3>6. p \in 0 .. Len(types')
      BY <3>4, <3>5
    <3> QED
      BY <3>1, <3>2, <3>5, <3>6, Finished
  <2> QED
    BY <1>1, <2>2, <2>3 DEF GenericVariable
<1>2. CASE FreshVariable
  <2>1. /\ Copying("Fresh") /\ Copied.type \in {"VARIABLE", "GENERIC_VARIABLE"}
        /\ ReplaceBy("VARIABLE")
    BY <1>2 DEF FreshVariable
  <2> QED
    BY <2>1, VariableReplaced
<1> QED
  BY <1>1, <1>2

LEMMA KnownCopied ==
  ASSUME TypeInv, CopyKnown
  PROVE  TypeInv'
<1> DEFINE p == Prune(top.one)
<1>1. PICK fn \in {"Generic", "Fresh"} :
        /\ Copying(fn)
        /\ \/ Copied.arg_second # NULL /\ Return(Copied.arg_second)
           \/ Return(p)
  BY DEF CopyKnown
<1>2. UNCHANGED types
  BY DEF CopyKnown
<1>3. calls # <<>> /\ Graph(types) /\ p \in 1 .. Len(types) /\ Len(types) \in Nat
  BY <1>1, CopyStarts
<1>4. Copied.arg_second \in 0 .. Len(types)
  BY <1>3, NodeShape DEF Copied
<1> HIDE DEF p
<1>5. CASE Return(p)
  BY <1>2, <1>3, <1>5, TypeReturned
<1>6. CASE Copied.arg_second # NULL /\ Return(Copied.arg_second)
  <2>1. Copied.arg_second \in 1 .. Len(types)
    BY <1>3, <1>4, <1>6, NotNull
  <2> QED
    BY <1>2, <1>3, <1>6, <2>1, TypeReturned
<1> QED
  BY <1>1, <1>5, <1>6

\* A part of a compound type is copied.
LEMMA PartCopied ==
  ASSUME TypeInv, calls # <<>>, top.fn \in {"Generic", "Fresh"}, UNCHANGED types,
         NEW a, NEW type \in 1 .. Len(types), CopyPart(a, type), SameCall(a, top),
         a.one \in 1 .. Len(types), a.two \in 0 .. Len(types), KeptByCall(a, types),
         a.at \notin ForUnify
  PROVE  TypeInv'
<1> DEFINE b == [top EXCEPT !.at = "start", !.one = type]
<1>1. CallFrom(a, b)
  BY DEF CopyPart
<1>2. /\ Graph(types') /\ Evolves(types, types') /\ types' = types
      /\ CallInv(top, types) /\ Len(types) \in Nat
  BY Innermost
<1>3. Moved(b, top, "start", type, top.two)
  BY <1>2, OneMoves DEF CallInv
<1>4. a.one \in 0 .. Len(types) /\ a.one # NULL /\ type \in 0 .. Len(types) /\ type # NULL
  BY <1>2, NotNull
<1>5. CallInv(a, types') /\ a.fn = top.fn
  BY <1>2, <1>4, Waits
<1> HIDE DEF b
<1>6. SameCall(b, top) /\ b.at = "start" /\ b.one = type /\ b.two = top.two
  BY <1>3 DEF Moved
<1>7. KeptByCall(b, types)
  BY <1>6 DEF KeptByCall, HasOne, HasTwo
<1>8. b.two \in 0 .. Len(types)
  BY <1>2, <1>6 DEF CallInv
<1>9. CallInv(b, types') /\ b.fn = top.fn
  BY <1>2, <1>4, <1>6, <1>7, <1>8, Waits
<1>10. a.at \in ForUnify <=> b.fn = "Unify"
  BY <1>9
<1> QED
  BY <1>1, <1>2, <1>5, <1>9, <1>10, Called

LEMMA PartsCopied ==
  ASSUME TypeInv, CopyFirst \/ CopySecond
  PROVE  TypeInv'
<1>1. CASE CopyFirst
  <2> DEFINE p == Prune(top.one)
             a == [top EXCEPT !.at = "copy first", !.one = p]
  <2>1. PICK fn \in {"Generic", "Fresh"} :
          /\ Copying(fn) /\ Copied.type \in Compound
          /\ CopyPart(a, Copied.arg_first) /\ UNCHANGED types
    BY <1>1 DEF CopyFirst
  <2>2. /\ calls # <<>> /\ top.fn = fn /\ Graph(types) /\ IsActivation(top)
        /\ p \in 1 .. Len(types) /\ p # NULL /\ top.two \in 0 .. Len(types)
    BY <2>1, CopyStarts
  <2>3. Copied.arg_first \in 1 .. Len(types) /\ types[p].type \in Compound
    BY <2>1, <2>2, NodeShape DEF Copied
  <2>4. Moved(a, top, "copy first", p, top.two)
    BY <2>2, OneMoves
  <2>5. CopyPart(a, Copied.arg_first)
    BY <2>1
  <2> HIDE DEF a, p
  <2>6. SameCall(a, top) /\ a.at = "copy first" /\ a.one = p /\ a.two = top.two
        /\ a.fn = fn
    BY <2>2, <2>4 DEF Moved, SameCall
  <2>7. KeptByCall(a, types) /\ a.at \notin ForUnify
    BY <2>2, <2>3, <2>6 DEF KeptByCall, HasOne, HasTwo, ForUnify
  <2> QED
    BY <2>1, <2>2, <2>3, <2>5, <2>6, <2>7, PartCopied
<1>2. CASE CopySecond
  <2> DEFINE a == [top EXCEPT !.at = "copy second", !.two = ret]
             type == types[top.one].arg_second
  <2>1. /\ calls # <<>> /\ top.at = "copy first" /\ ret # None
        /\ types[top.one].type # "TUPLE_FINAL"
        /\ CopyPart(a, type) /\ UNCHANGED types
    BY <1>2 DEF CopySecond, Returned, Running
  <2>2. /\ CallInv(top, types) /\ Graph(types) /\ KeptByCall(top, types)
        /\ Len(types) \in Nat
    BY <2>1, Innermost DEF CallInv
  <2>3. top.fn \in {"Generic", "Fresh"} /\ types[top.one].type \in Compound
    BY <2>1, <2>2 DEF KeptByCall
  <2>4. /\ IsActivation(top) /\ top.one \in 0 .. Len(types) /\ top.one # NULL
    BY <2>2, <2>3 DEF CallInv
  <2>5. top.one \in 1 .. Len(types) /\ ret \in 1 .. Len(types)
        /\ ret \in 0 .. Len(types) /\ ret # NULL
    BY <2>1, <2>2, <2>4, NotNull, TypeGiven DEF ForUnify
  <2>6. types[top.one].type \in {"FUNC", "TUPLE"}
    BY <2>1, <2>3 DEF Compound
  <2>7. type \in 1 .. Len(types)
    BY <2>2, <2>5, <2>6, NodeShape
  <2>8. Moved(a, top, "copy second", top.one, ret)
    BY <2>4, TwoMoves
  <2> HIDE DEF a, type
  <2>9. SameCall(a, top) /\ a.at = "copy second" /\ a.one = top.one /\ a.two = ret
        /\ a.fn = top.fn
    BY <2>8 DEF Moved, SameCall
  <2>10. KeptByCall(a, types) /\ a.at \notin ForUnify
    BY <2>3, <2>5, <2>6, <2>9 DEF KeptByCall, HasOne, HasTwo, ForUnify
  <2> QED
    BY <2>1, <2>3, <2>5, <2>7, <2>9, <2>10, PartCopied
<1> QED
  BY <1>1, <1>2

\* A compound type is returned, or one with other parts.
LEMMA Rebuilt ==
  ASSUME TypeInv, calls # <<>>, top.one \in 1 .. Len(types),
         types[top.one].type \in Compound,
         NEW first \in 1 .. Len(types), NEW second \in 0 .. Len(types),
         second # NULL <=> types[top.one].type # "TUPLE_FINAL", Rebuild(first, second)
  PROVE  TypeInv'
<1> DEFINE node == TypeExp(types[top.one].type, first, second)
<1>1. CASE Return(top.one) /\ UNCHANGED types
  BY <1>1, TypeReturned
<1>2. CASE types' = Allocate(node) /\ Return(New)
  <2>1. node = [type |-> types[top.one].type, arg_first |-> first, arg_second |-> second]
    BY DEF TypeExp
  <2>2. Len(types) \in Nat /\ first # NULL
    BY Innermost, NotNull
  <2>3. types' = Allocate(node)
    BY <1>2
  <2> HIDE DEF node
  <2>4. /\ node.type = types[top.one].type /\ node.arg_first = first
        /\ node.arg_second = second
    BY <2>1
  <2>5. first \in 0 .. Len(types) + 1 /\ second \in 0 .. Len(types) + 1
        /\ first \in Nat /\ second \in Nat
    BY <2>2
  <2>6. node \in Node
    BY <2>1, <2>5 DEF Node, NodeTypes, Compound
  <2>7. PointersOK(node, Len(types) + 1)
    BY <2>2, <2>4, <2>5 DEF PointersOK
  <2> QED
    BY <1>2, <2>3, <2>6, <2>7, TypeBuilt
<1> QED
  BY <1>1, <1>2 DEF Rebuild

LEMMA CopiesFinish ==
  ASSUME TypeInv, FinishCopy
  PROVE  TypeInv'
<1>1. calls # <<>> /\ ret # None /\ top.at \in {"copy first", "copy second"}
  BY DEF FinishCopy, Returned, Running
<1>2. /\ CallInv(top, types) /\ KeptByCall(top, types) /\ Len(types) \in Nat
  BY <1>1, Innermost DEF CallInv
<1>3. /\ top.fn \in {"Generic", "Fresh"} /\ types[top.one].type \in Compound
      /\ top.at = "copy second" => types[top.one].type # "TUPLE_FINAL"
  BY <1>1, <1>2 DEF KeptByCall, Compound
<1>4. top.one \in 0 .. Len(types) /\ top.one # NULL
  BY <1>2, <1>3 DEF CallInv
<1>5. /\ top.one \in 1 .. Len(types) /\ ret \in 1 .. Len(types)
      /\ ret \in 0 .. Len(types) /\ ret # NULL /\ NULL \in 0 .. Len(types)
  <2>1. top.one \in 1 .. Len(types) /\ NULL \in 0 .. Len(types)
    BY <1>2, <1>4, NotNull DEF NULL
  <2>2. top.at \notin ForUnify
    BY <1>1 DEF ForUnify
  <2>3. ret \in 1 .. Len(types)
    BY <1>1, <2>2, TypeGiven
  <2> QED
    BY <1>2, <2>1, <2>3, NotNull
<1>6. CASE top.at = "copy second" /\ Rebuild(top.two, ret)
  <2>1. top.two \in 1 .. Len(types)
    BY <1>1, <1>6, Known DEF HasTwo
  <2> QED
    BY <1>1, <1>3, <1>5, <1>6, <2>1, Rebuilt
<1>7. CASE types[top.one].type = "TUPLE_FINAL" /\ Rebuild(ret, NULL)
  BY <1>1, <1>3, <1>5, <1>7, Rebuilt
<1> QED
  BY <1>6, <1>7 DEF FinishCopy, Returned, Running

-----------------------------------------------------------------------------
(***************************************************************************)
(* _UnifyImpl.                                                             *)
(***************************************************************************)
\* What it knows when it starts.
LEMMA UnifyingStarts ==
  ASSUME TypeInv, Unifying
  PROVE  /\ calls # <<>> /\ top.fn = "Unify" /\ Graph(types) /\ Evolves(types, types)
         /\ IsActivation(top) /\ Len(types) \in Nat
         /\ One \in 1 .. Len(types) /\ Two \in 1 .. Len(types)
<1>1. calls # <<>> /\ top.fn = "Unify"
  BY DEF Unifying, Running
<1>2. /\ CallInv(top, types) /\ Graph(types) /\ Len(types) \in Nat
      /\ Evolves(types, types)
  BY <1>1, Innermost
<1>3. /\ top.one \in 0 .. Len(types) /\ top.one # NULL
      /\ top.two \in 0 .. Len(types) /\ top.two # NULL
  BY <1>1, <1>2 DEF CallInv
<1>4. top.one \in 1 .. Len(types) /\ top.two \in 1 .. Len(types)
  BY <1>2, <1>3, NotNull
<1>5. Prune(top.one) \in 1 .. Len(types) /\ Prune(top.two) \in 1 .. Len(types)
  BY <1>2, <1>4, PruneIsNode
<1>6. One \in 1 .. Len(types) /\ Two \in 1 .. Len(types)
  BY <1>5 DEF One, Two
<1> QED
  BY <1>1, <1>2, <1>6 DEF CallInv

\* It returns nothing.
LEMMA NothingReturned ==
  ASSUME TypeInv, calls # <<>>, top.fn = "Unify", Graph(types'), Evolves(types, types'),
         Return(NULL)
  PROVE  TypeInv'
<1>1. NULL \in 0 .. Len(types')
  BY Unchanged DEF NULL
<1> QED
  BY <1>1, Finished

LEMMA UnifyEnds ==
  ASSUME TypeInv, UnifyNothing \/ UnifyVariable \/ UnifyMismatch
  PROVE  TypeInv'
<1>1. Unifying /\ Return(NULL)
  BY DEF UnifyNothing, UnifyVariable, UnifyMismatch
<1>2. /\ calls # <<>> /\ top.fn = "Unify" /\ Graph(types) /\ Evolves(types, types)
      /\ Len(types) \in Nat /\ One \in 1 .. Len(types) /\ Two \in 1 .. Len(types)
  BY <1>1, UnifyingStarts
<1>3. CASE UNCHANGED types
  BY <1>1, <1>2, <1>3, NothingReturned
<1>4. CASE types[One].type = "VARIABLE" /\ types' = [types EXCEPT ![One].arg_first = Two]
  <2> DEFINE a == One
             x == Two
  <2>1. /\ a \in 1 .. Len(types) /\ x \in 0 .. Len(types)
        /\ types[a].type \in {"VARIABLE", "GENERIC_VARIABLE"}
        /\ types' = [types EXCEPT ![a].arg_first = x]
    BY <1>2, <1>4
  <2> HIDE DEF a, x
  <2>2. Graph(types') /\ Evolves(types, types')
    BY <1>2, <2>1, VariableSet
  <2> QED
    BY <1>1, <1>2, <2>2, NothingReturned
<1> QED
  BY <1>3, <1>4 DEF UnifyNothing, UnifyVariable, UnifyMismatch

\* The first parts are unified, and then the second ones.
LEMMA UnifyParts ==
  ASSUME TypeInv, UnifyFirst \/ UnifySecond
  PROVE  TypeInv'
<1>1. CASE UnifyFirst
  <2> DEFINE a == [top EXCEPT !.at = "unify second", !.one = One, !.two = Two]
             b == UnifyImpl(types[One].arg_first, types[Two].arg_first)
  <2>1. /\ Unifying /\ types[One].type \in Compound /\ types[One].type = types[Two].type
        /\ CallFrom(a, b) /\ types' = types
    BY <1>1 DEF UnifyFirst
  <2>2. /\ calls # <<>> /\ top.fn = "Unify" /\ Graph(types) /\ Evolves(types, types)
        /\ IsActivation(top) /\ Len(types) \in Nat
        /\ One \in 1 .. Len(types) /\ Two \in 1 .. Len(types)
    BY <2>1, UnifyingStarts
  <2>3. types[One].arg_first \in 1 .. Len(types) /\ types[Two].arg_first \in 1 .. Len(types)
    BY <2>1, <2>2, NodeShape
  <2>4. CallInv(b, types) /\ b.fn = "Unify"
    BY <2>2, <2>3, UnifyStarts
  <2>5. Moved(a, top, "unify second", One, Two)
    BY <2>2, BothMove
  <2> HIDE DEF a, b
  <2>6. SameCall(a, top) /\ a.at = "unify second" /\ a.one = One /\ a.two = Two
        /\ a.fn = "Unify"
    BY <2>2, <2>5 DEF Moved, SameCall
  <2>7. /\ One \in 0 .. Len(types) /\ One # NULL /\ Two \in 0 .. Len(types) /\ Two # NULL
    BY <2>2, NotNull
  <2>8. KeptByCall(a, types) /\ a.at \in ForUnify
    BY <2>1, <2>6 DEF KeptByCall, HasOne, HasTwo, ForUnify
  <2>9. CallInv(a, types') /\ a.fn = top.fn
    BY <2>1, <2>2, <2>6, <2>7, <2>8, Waits
  <2>10. a.at \in ForUnify <=> b.fn = "Unify"
    BY <2>4, <2>8
  <2> QED
    BY <2>1, <2>2, <2>4, <2>9, <2>10, Called
<1>2. CASE UnifySecond
  <2> DEFINE second == types[top.one].arg_second
             b == UnifyImpl(second, types[top.two].arg_second)
  <2>1. /\ calls # <<>> /\ top.fn = "Unify" /\ top.at = "unify second" /\ types' = types
        /\ IF second = NULL THEN Return(NULL) ELSE Become(b)
    BY <1>2 DEF UnifySecond, Returned, Running
  <2>2. /\ Graph(types) /\ Evolves(types, types) /\ CallInv(top, types)
        /\ Len(types) \in Nat
    BY <2>1, Innermost
  <2>3. /\ top.one \in 0 .. Len(types) /\ top.one # NULL
        /\ top.two \in 0 .. Len(types) /\ top.two # NULL
        /\ types[top.one].type \in Compound
        /\ types[top.two].type = types[top.one].type
    BY <2>1, <2>2 DEF CallInv, KeptByCall
  <2>4. top.one \in 1 .. Len(types) /\ top.two \in 1 .. Len(types)
    BY <2>2, <2>3, NotNull
  <2>5. CASE second = NULL
    BY <2>1, <2>2, <2>5, NothingReturned
  <2>6. CASE second # NULL
    <3>1. types[top.one].type \in {"FUNC", "TUPLE"}
      BY <2>2, <2>3, <2>4, <2>6, NodeShape DEF Compound
    <3>2. second \in 1 .. Len(types) /\ types[top.two].arg_second \in 1 .. Len(types)
      BY <2>2, <2>3, <2>4, <3>1, NodeShape
    <3>3. CallInv(b, types) /\ b.fn = "Unify"
      BY <2>2, <3>2, UnifyStarts
    <3>4. Become(b)
      BY <2>1, <2>6
    <3> HIDE DEF b
    <3>5. b.fn = "Unify" <=> top.fn = "Unify"
      BY <2>1, <3>3
    <3> QED
      BY <2>1, <2>2, <3>3, <3>4, <3>5, Became
  <2> QED
    BY <2>5, <2>6
<1> QED
  BY <1>1, <1>2

-----------------------------------------------------------------------------
(***************************************************************************)
(* The invariant.                                                          *)
(***************************************************************************)
LEMMA TypeInvHoldsFirst == TypeInit => TypeInv
<1> SUFFICES ASSUME TypeInit PROVE TypeInv
  OBVIOUS
<1> DEFINE call == Analyze(program, <<>>, <<>>)
<1>1. types = Statics /\ calls = <<call>> /\ ret = None
  BY DEF TypeInit
<1>2. Graph(types)
  <2> DEFINE static(type) == [type |-> type, arg_first |-> 0, arg_second |-> 0]
  <2>1. types = <<static("INT"), static("BOOL"), static("ERROR")>>
    BY <1>1 DEF Statics, TypeExp, NULL
  <2>2. \A type \in {"INT", "BOOL", "ERROR"} :
          static(type) \in Node /\ PointersOK(static(type), 3)
    BY DEF Node, NodeTypes, PointersOK, Compound
  <2>3. types \in Seq(Node) /\ Len(types) = 3
    <3> HIDE DEF static
    <3> QED
      BY <2>1, <2>2
  <2>4. \A a \in 1 .. 3 : types[a] \in {static("INT"), static("BOOL"), static("ERROR")}
    <3> HIDE DEF static
    <3> QED
      BY <2>1
  <2> HIDE DEF static
  <2> QED
    BY <2>2, <2>3, <2>4 DEF Graph
<1>3. CallInv(call, types)
  BY <1>2, Unchanged, NothingBound, AnalyzeStarts
<1> HIDE DEF call
<1>4. Len(calls) = 1 /\ DOMAIN calls = 1 .. 1 /\ calls[1] = call
  BY <1>1
<1>5. IsSequence(calls)
  <2>1. calls \in Seq({call})
    BY <1>1
  <2> QED
    BY <2>1, SeqOfRange DEF IsSequence
<1>6. Stack(calls, types)
  BY <1>3, <1>4, <1>5 DEF Stack
<1>7. Result(calls, types, ret)
  BY <1>1 DEF Result, NULL, None
<1> QED
  BY <1>2, <1>6, <1>7 DEF TypeInv

LEMMA TypeInvKept == TypeInv /\ [TypeNext \/ TypeStop]_typevars => TypeInv'
<1> SUFFICES ASSUME TypeInv, [TypeNext \/ TypeStop]_typevars PROVE TypeInv'
  OBVIOUS
<1>1. CASE AnalyzeNext
  <2>1. CASE AnalyzeApply \/ AnalyzeLet \/ AnalyzeIf \/ IfThen \/ AnalyzeBinary \/ AnalyzeTuple
    BY <2>1, FirstParts
  <2>2. CASE ApplyArgument \/ IfElse \/ BinaryRight \/ TupleRest
    BY <2>2, NextParts
  <2>3. CASE AnalyzeConstant \/ FinishApply \/ FinishIf \/ FinishBinary
    BY <2>3, Returns
  <2>4. CASE FinishIdentifier \/ FinishLambda \/ FinishTuple
    BY <2>4, Finishes
  <2>5. CASE AnalyzeIdentifier \/ AnalyzeLambda \/ AnalyzeLetRec \/ ApplyUnify
    BY <2>5, Identifiers, Lambdas, LetRecs, Applies
  <2>6. CASE LetGeneric \/ LetRecGeneric
    BY <2>6, LetGenerics
  <2>7. CASE LetBody \/ LetRecBody \/ AnalyzeUnary
    BY <2>7, Bodies
  <2>8. CASE LetRecUnify \/ IfTest \/ IfUnify
    BY <2>8, Unifies
  <2>9. CASE BinaryUnifyLeft \/ BinaryUnifyRight \/ BinaryUnifyBoth
    BY <2>9, Operands
  <2> QED
    BY <1>1, <2>1, <2>2, <2>3, <2>4, <2>5, <2>6, <2>7, <2>8, <2>9 DEF AnalyzeNext
<1>2. CASE CopyNext
  BY <1>2, VariablesCopied, KnownCopied, PartsCopied, CopiesFinish DEF CopyNext
<1>3. CASE UnifyNext
  BY <1>3, UnifyEnds, UnifyParts DEF UnifyNext
<1>4. CASE UNCHANGED typevars
  BY <1>4 DEF typevars, TypeInv
<1> QED
  BY <1>1, <1>2, <1>3, <1>4 DEF TypeNext, TypeStop

LEMMA TypeInvIsEnough == TypeInv => TypeTypeOK
<1> SUFFICES ASSUME TypeInv PROVE TypeTypeOK
  OBVIOUS
<1>1. /\ Graph(types) /\ Len(types) \in Nat /\ DOMAIN types = 1 .. Len(types)
      /\ Address = 0 .. Len(types)
  BY Unchanged DEF TypeInv, Address, NULL
<1>2. ASSUME NEW a \in DOMAIN types
      PROVE  /\ types[a].type \in NodeTypes
             /\ {types[a].arg_first, types[a].arg_second} \subseteq Address
             /\ types[a].type \in Compound => types[a].arg_first # NULL
             /\ types[a].type \in {"FUNC", "TUPLE"} => types[a].arg_second # NULL
  BY <1>1, NodeShape DEF PointersOK
<1>3. ASSUME NEW i \in DOMAIN calls PROVE CallOK(calls[i])
  <2>1. CallInv(calls[i], types)
    BY DEF TypeInv, Stack
  <2> QED
    BY <1>1, <2>1 DEF CallInv, CallOK
<1>4. ret \in Address \union {None}
  BY <1>1 DEF TypeInv, Result
<1> QED
  BY <1>2, <1>3, <1>4 DEF TypeTypeOK

\* The type checker keeps its nodes, its stack and its results in order: every
\* pointer that one of its functions follows leads to a node, whatever
\* expressions it is given (typecheck.c).
THEOREM PointersNeverNull == TypeSpec => []TypeTypeOK
<1>1. TypeInit => TypeInv
  BY TypeInvHoldsFirst
<1>2. TypeInv /\ [TypeNext \/ TypeStop]_typevars => TypeInv'
  BY TypeInvKept
<1>3. TypeInv => TypeTypeOK
  BY TypeInvIsEnough
<1> QED
  BY <1>1, <1>2, <1>3, PTL DEF TypeSpec

=============================================================================
