------------------------------- MODULE Errors -------------------------------
(***************************************************************************)
(* The list of error reports (errors.c) and the growable array (ArrayList  *)
(* in platform.c) that the phases of the front end add to.  Both are       *)
(* sequences: reports are kept and printed in the order in which they were *)
(* added, and an array doubles its buffer before it is full.               *)
(***************************************************************************)
EXTENDS Sequences

AddError(errors, start, end, message) ==
  Append(errors, [start_pos |-> start, end_pos |-> end, message |-> message])

ArrayListAdd(array, item) == Append(array, item)

=============================================================================
