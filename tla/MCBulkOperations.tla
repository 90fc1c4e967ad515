-------------------------- MODULE MCBulkOperations --------------------------
(***************************************************************************)
(* Small instances of BulkOperations.  Tokens, operations and requests are *)
(* model values that can be permuted; the payload values are not, for the  *)
(* previews name them.                                                     *)
(***************************************************************************)
EXTENDS BulkOperations, TLC

CONSTANTS available, planned

Symmetry ==
  Permutations(Token) \cup Permutations(Op) \cup Permutations(Proc)

\* One operation of each kind: add planned, change to available, remove.
OneOfEachKind ==
  {[kind |-> "add", data |-> [f \in Field |-> planned]],
   [kind |-> "change", data |-> [f \in Field |-> available]],
   [kind |-> "remove", data |-> NoPatch]}
=============================================================================
