-------------------------- MODULE MCPaymentIntake --------------------------
(***************************************************************************)
(* PaymentIntake for TLC.                                                  *)
(***************************************************************************)
EXTENDS PaymentIntake, TLC

(* Pushes are interchangeable only among those whose reports look alike. *)
Symmetry ==
    Permutations(Pushes \ Bare) \cup Permutations(Bare)
        \cup Permutations(Callbacks) \cup Permutations(Manuals)

=============================================================================
