---------------------------- MODULE MCOperations ----------------------------
EXTENDS Operations, TLC
CONSTANTS r1, r2, a1, a2, a3
MCAsks == (r1 :> {"d"}) @@ (r2 :> {"c"})
MCLegs == [d |-> <<"c", "f">>]
MCFresh == [c |-> 1, f |-> 1, d |-> 1]
MCTTL == [c |-> 1, f |-> 1, d |-> 2]
=============================================================================
