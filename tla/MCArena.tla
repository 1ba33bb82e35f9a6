------------------------------ MODULE MCArena -------------------------------
(***************************************************************************)
(* Instances of the arena for TLC, with small blocks that lie side by side *)
(* or apart.                                                               *)
(***************************************************************************)
EXTENDS Arena

\* The structures allocated from it: NonGenericTypeList, TypeEnvironment and
\* TypeExp, and Expression (24 or 32, as a uint64_t is aligned in it).
MCSizes == IF POINTER = 4 THEN {8, 12, 24, 32} ELSE {16, 24, 40}

\* Blocks of 40 bytes and two pointers of 4 are side by side from 48 to 144,
\* and the one at 88 is no room beside the first.
MCBases == {48, 88, 96, 144, 240}

=============================================================================
