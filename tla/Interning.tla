----------------------------- MODULE Interning ------------------------------
(***************************************************************************)
(* What a symbol table promises its client: a name asked for twice gets    *)
(* the same symbol, different names get different symbols, and symbols are *)
(* numbered 1, 2, ... in the order their names were first asked for.       *)
(***************************************************************************)
EXTENDS Naturals, FiniteSets

CONSTANTS
  Key,    \* the names
  NoKey   \* not a name

VARIABLES
  known,   \* the names that have a symbol, with their symbols
  asked,   \* the name whose symbol is being looked for, or NoKey
  symbol   \* the symbol last returned

Init == known = {} /\ asked = NoKey /\ symbol = 0

Ask(name) == asked = NoKey /\ asked' = name /\ UNCHANGED <<known, symbol>>

Find ==
  /\ \E pair \in known : pair[1] = asked /\ symbol' = pair[2]
  /\ asked' = NoKey
  /\ UNCHANGED known

Create ==
  /\ asked # NoKey
  /\ \A pair \in known : pair[1] # asked
  /\ symbol' = Cardinality(known) + 1
  /\ known' = known \union {<<asked, symbol'>>}
  /\ asked' = NoKey

Next == (\E name \in Key : Ask(name)) \/ Find \/ Create

Spec == Init /\ [][Next]_<<known, asked, symbol>>

=============================================================================
