--------------------------- MODULE PaidConversion ---------------------------
(***************************************************************************)
(* A conversion from the STK push to its end: PaymentIntake and Settlement *)
(* over the rows they share.  Intake writes the payment instruction that   *)
(* settlement reads; settlement moves the session whose state intake       *)
(* checks before it asks for a payment.                                    *)
(***************************************************************************)
EXTENDS Naturals

CONSTANTS
    Pushes, Callbacks, Manuals, Bare, EarlyAnswers,
    Requests, Tickers, Consumers, Driver, MaxAttempts,
    LostAnswers, EarlyOutcome, MaxFaults, MaxDbErrors, MaxCrashes

VARIABLES
    row, marked, audit, phone, emitted, handler, intakeCrashes,
    session, trail, payout, swaps, sent, provider, told, acked, worker,
    credited, faults, dbErrors, crashes

intakeVars == <<row, marked, audit, phone, emitted, handler, intakeCrashes>>
settleVars == <<session, trail, payout, swaps, sent, provider, told, acked, worker,
                faults, dbErrors, crashes>>
vars == <<intakeVars, settleVars, credited>>

Intake == INSTANCE PaymentIntake WITH
    open <- session = "PAYMENT_PENDING",
    crashes <- intakeCrashes

(* Only a manual reference can decide a decided payment again. *)
Settle == INSTANCE Settlement WITH
    payment <- row.status,
    Overwrites <- Manuals # {}

ASSUME PaidAssumption == Settle!SettlementAssumption /\ Intake!PaymentIntakeAssumption

Init == session = "PAYMENT_PENDING" /\ Intake!Init /\ Settle!Init

IntakeStep(A) ==
    /\ UNCHANGED settleVars
    /\ A
    /\ credited' = (credited \/ row'.status = "CONFIRMED")

SettleStep(A) == UNCHANGED intakeVars /\ A

Next == IntakeStep(Intake!Intake) \/ SettleStep(Settle!Advance)

Spec == Init /\ [][Next]_vars

Fairness ==
    /\ \A h \in Intake!Handlers : WF_vars(IntakeStep(Intake!Step(h)))
    /\ \A p \in Pushes : SF_vars(p \notin marked /\ \E c \in Callbacks :
            IntakeStep(Intake!Receive(c)) /\ handler'[c].checkout = p)
    /\ \A w \in Settle!Workers : WF_vars(SettleStep(Settle!Step(w)))
    /\ WF_vars(SettleStep(Settle!BriaResolves))

FairSpec == Spec /\ Fairness

-----------------------------------------------------------------------------
(* Properties. *)

(* The two components keep what they assume of each other: what intake does *)
(* to the payment row is what Settlement takes for granted, and what        *)
(* settlement does to the session is what PaymentIntake takes for granted.  *)
ComponentsAgree == Settle!Spec /\ Intake!Spec

(* No bitcoin leaves, and no completion is announced, unless the customer   *)
(* paid the very push that the session's payment row stores, with callbacks *)
(* duplicated, early or interrupted and retries racing with outcomes.      *)
SentOnlyIfPaid ==
    sent > 0 \/ session = "COMPLETED" =>
        row.checkout \in Pushes /\ phone[row.checkout] = "paid"

(* A customer who paid the recorded push sees the conversion end. *)
PaidComesToAnEnd ==
    \A p \in Pushes :
        phone[p] = "paid" /\ row.checkout = p ~> session \in Settle!Terminal

(* A payout that settled at Bria and that the row names completes its      *)
(* conversion, also when two instances consume the same events.            *)
SettledIsCompleted == Settle!SettledIsCompleted

=============================================================================
