------------------------- MODULE MCPaidConversion -------------------------
(***************************************************************************)
(* PaidConversion for TLC.                                                 *)
(***************************************************************************)
EXTENDS PaidConversion, TLC

Symmetry ==
    Permutations(Pushes) \cup Permutations(Callbacks) \cup Permutations(Requests)

=============================================================================
