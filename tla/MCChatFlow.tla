----------------------------- MODULE MCChatFlow -----------------------------
(* ChatFlow with handlers and orders as symmetric model values. *)
EXTENDS ChatFlow, TLC

CONSTANTS h1, h2, o1, o2

Symmetry == Permutations(Handlers) \cup Permutations(Orders)

=============================================================================
