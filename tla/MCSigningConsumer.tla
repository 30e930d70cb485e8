------------------------- MODULE MCSigningConsumer -------------------------
(***************************************************************************)
(* SigningConsumer for TLC: one payout is committed and settles, or two     *)
(* are committed.                                                          *)
(***************************************************************************)
EXTENDS SigningConsumer

CONSTANTS p1, p2

OnePayout == << <<"commit", p1>>, <<"settle", p1>> >>

TwoPayouts == << <<"commit", p1>>, <<"commit", p2>> >>

=============================================================================
