------------------------- MODULE ConversionPromise -------------------------
(***************************************************************************)
(* What settling one conversion promises, whatever handlers run: the       *)
(* customer's payment is credited, then converted, then one payout is      *)
(* sent, and the customer is told of completion only once that payout has  *)
(* settled.  Nothing happens twice and nothing is undone.                  *)
(***************************************************************************)

VARIABLES
    credited,   \* the shilling payment was recorded as confirmed
    converted,  \* the swap was executed
    delivery,   \* the bitcoin payout at the provider
    told        \* completion was announced

vars == <<credited, converted, delivery, told>>

Init ==
    /\ credited = FALSE
    /\ converted = FALSE
    /\ delivery = "none"
    /\ told = FALSE

Credit ==
    /\ credited' = TRUE
    /\ UNCHANGED <<converted, delivery, told>>

Convert ==
    /\ credited
    /\ converted' = TRUE
    /\ UNCHANGED <<credited, delivery, told>>

(* An instant backend settles what it accepts at once. *)
Send ==
    /\ converted
    /\ delivery = "none"
    /\ delivery' \in {"accepted", "settled"}
    /\ UNCHANGED <<credited, converted, told>>

Resolve ==
    /\ delivery = "accepted"
    /\ delivery' \in {"settled", "cancelled"}
    /\ UNCHANGED <<credited, converted, told>>

Tell ==
    /\ delivery = "settled"
    /\ told' = TRUE
    /\ UNCHANGED <<credited, converted, delivery>>

Next == Credit \/ Convert \/ Send \/ Resolve \/ Tell

Spec == Init /\ [][Next]_vars

=============================================================================
