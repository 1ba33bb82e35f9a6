--------------------------- MODULE MCSymbolTable ----------------------------
(***************************************************************************)
(* Instances of the symbol table for TLC: few names whose hashes collide.  *)
(***************************************************************************)
EXTENDS SymbolTable, TLC

CONSTANTS k1, k2, k3, k4, k5, k6

MCKey == {k1, k2, k3, k4, k5, k6}

\* Two names with the same hash, two that fall on the last slot, where the
\* second wraps around, one that falls on the first slot and has to give way
\* to it, and one whose hash would be 0 and becomes 1, which gives way next.
MCCityHash ==
  k1 :> 3 @@ k2 :> 3 @@ k3 :> 7 @@ k4 :> 15 @@ k5 :> 16 @@ k6 :> 8

=============================================================================
