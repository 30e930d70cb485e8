----------------------------- MODULE Operations -----------------------------
(***************************************************************************)
(* The parts beside the conversion itself: rates, the custody webhook, the  *)
(* throttle, the circuit breaker, deposit addresses, the set-up of Bria and *)
(* the archive of PSBTs.  They share the database and Redis, but no row and *)
(* no key, so each is run alone: a behaviour picks one part, which moves    *)
(* while the others rest.                                                  *)
(***************************************************************************)
EXTENDS Throttle, Breaker, DepositAddress, BriaSetup, DfnsWebhook, Retention

CONSTANTS Requests, Asks, BuiltIn, Legs, Fresh, TTL, LastGoodTTL, MaxWork, MaxOutages   \* of Rates

VARIABLES
    part,                                   \* the part at work
    cached, lastGood, request, outages      \* of Rates

Pricing == INSTANCE Rates

ASSUME OperationsAssumption ==
    /\ Pricing!RatesAssumption
    /\ ThrottleAssumption
    /\ DepositAssumption
    /\ BreakerAssumption
    /\ {MaxReports, MaxHalts, MaxFailedCalls, MaxBreaks} \subseteq Nat
    /\ Foreign \subseteq Addresses

Parts == {"rates", "custody", "throttle", "breaker", "deposit", "setup", "archive"}

ratesVars == <<cached, lastGood, request, outages>>

vars == <<part, ratesVars, dfnsVars, throttleVars, breakerVars, depositVars, setupVars,
          retentionVars>>

(* A part that rests stays as it was in Init. *)
TypeOK ==
    /\ part \in Parts
    /\ part = "rates" => Pricing!TypeOK
    /\ part = "custody" => DfnsTypeOK
    /\ part = "throttle" => ThrottleTypeOK
    /\ part = "breaker" => BreakerTypeOK
    /\ part = "deposit" => DepositTypeOK
    /\ part = "setup" => SetupTypeOK
    /\ part = "archive" => RetentionTypeOK

Init ==
    /\ part \in Parts
    /\ Pricing!Init
    /\ DfnsInit
    /\ ThrottleInit
    /\ BreakerInit
    /\ DepositInit
    /\ SetupInit
    /\ RetentionInit

Next ==
    /\ UNCHANGED part
    /\ \/ /\ part = "rates" /\ Pricing!Next
          /\ UNCHANGED <<dfnsVars, throttleVars, breakerVars, depositVars, setupVars, retentionVars>>
       \/ /\ part = "custody" /\ DfnsNext
          /\ UNCHANGED <<ratesVars, throttleVars, breakerVars, depositVars, setupVars, retentionVars>>
       \/ /\ part = "throttle" /\ ThrottleNext
          /\ UNCHANGED <<ratesVars, dfnsVars, breakerVars, depositVars, setupVars, retentionVars>>
       \/ /\ part = "breaker" /\ BreakerNext
          /\ UNCHANGED <<ratesVars, dfnsVars, throttleVars, depositVars, setupVars, retentionVars>>
       \/ /\ part = "deposit" /\ DepositNext
          /\ UNCHANGED <<ratesVars, dfnsVars, throttleVars, breakerVars, setupVars, retentionVars>>
       \/ /\ part = "setup" /\ SetupNext
          /\ UNCHANGED <<ratesVars, dfnsVars, throttleVars, breakerVars, depositVars, retentionVars>>
       \/ /\ part = "archive" /\ RetentionNext
          /\ UNCHANGED <<ratesVars, dfnsVars, throttleVars, breakerVars, depositVars, setupVars>>

Spec == Init /\ [][Next]_vars

-----------------------------------------------------------------------------
(* The properties of the parts are stated in their modules; here is the one  *)
(* of the rates.                                                           *)

(* No price is passed off as newer than it is. *)
RatesAreHonest == Pricing!RatesAreHonest

=============================================================================
