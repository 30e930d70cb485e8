---------------------------- MODULE MCSettlement ----------------------------
(***************************************************************************)
(* Settlement for TLC.  Handlers of one kind are interchangeable, so the    *)
(* runs that check no liveness may reduce by their permutations.           *)
(***************************************************************************)
EXTENDS Settlement, TLC

Symmetry ==
    Permutations(Requests) \cup Permutations(Tickers) \cup Permutations(Consumers)

=============================================================================
