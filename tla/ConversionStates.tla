-------------------------- MODULE ConversionStates --------------------------
(***************************************************************************)
(* The conversion session's state machine as data: the states of           *)
(* ConversionState, the table VALID_STATE_TRANSITIONS that                 *)
(* RiskService.validateTransition consults, and the sets of states other   *)
(* code tests membership in.                                               *)
(***************************************************************************)

ConversionState ==
    { "INTENT_CAPTURED", "QUOTE_PENDING", "QUOTE_READY", "QUOTE_CONFIRMED",
      "IDENTITY_PENDING", "COMPLIANCE_PENDING", "PAYOUT_DETAILS_PENDING",
      "PAYMENT_PENDING", "PAYMENT_CONFIRMED", "EXECUTION_PENDING",
      "DELIVERY_PENDING", "COMPLETED", "FAILED", "EXPIRED", "MANUAL_REVIEW" }

(* The targets VALID_STATE_TRANSITIONS lists for a state. *)
AllowedTargets(s) ==
    CASE s = "INTENT_CAPTURED"        -> {"QUOTE_PENDING", "FAILED", "EXPIRED"}
      [] s = "QUOTE_PENDING"          -> {"QUOTE_READY", "FAILED", "EXPIRED"}
      [] s = "QUOTE_READY"            -> {"QUOTE_CONFIRMED", "EXPIRED", "FAILED"}
      [] s = "QUOTE_CONFIRMED"        -> {"IDENTITY_PENDING", "FAILED", "EXPIRED"}
      [] s = "IDENTITY_PENDING"       -> {"COMPLIANCE_PENDING", "FAILED", "EXPIRED"}
      [] s = "COMPLIANCE_PENDING"     -> {"PAYOUT_DETAILS_PENDING", "FAILED",
                                          "MANUAL_REVIEW", "EXPIRED"}
      [] s = "PAYOUT_DETAILS_PENDING" -> {"PAYMENT_PENDING", "FAILED", "EXPIRED"}
      [] s = "PAYMENT_PENDING"        -> {"PAYMENT_CONFIRMED", "FAILED", "EXPIRED"}
      [] s = "PAYMENT_CONFIRMED"      -> {"EXECUTION_PENDING", "FAILED"}
      [] s = "EXECUTION_PENDING"      -> {"DELIVERY_PENDING", "FAILED"}
      [] s = "DELIVERY_PENDING"       -> {"COMPLETED", "FAILED"}
      [] s = "MANUAL_REVIEW"          -> {"COMPLIANCE_PENDING", "FAILED"}
      [] OTHER                        -> {}

(* RiskService.validateTransition: true where it returns, false where it throws. *)
CanTransition(from, to) == to \in AllowedTargets(from)

Terminal == {"COMPLETED", "FAILED", "EXPIRED"}

=============================================================================
