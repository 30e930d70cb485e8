----------------------------- MODULE Settlement -----------------------------
(***************************************************************************)
(* One conversion from PAYMENT_PENDING to its end: the handlers that turn  *)
(* a confirmed M-Pesa payment into a bitcoin payout and the payout's       *)
(* outcome into the session's.  The database rows are the shared state; a  *)
(* worker is one run of an async handler, and every await that reads or    *)
(* writes a row, or calls a provider, is a step of its own, so handlers    *)
(* interleave exactly where the JavaScript event loop, or another instance *)
(* of the API, can interleave them.                                        *)
(***************************************************************************)
EXTENDS ConversionStates, Naturals, FiniteSets

CONSTANTS
    Requests,     \* handlers that may run processPaymentConfirmation
    Tickers,      \* instances' payout dispatch retry loops
    Consumers,    \* instances' Bria event chains, each handling one event at a time
    Driver,       \* BTC_DELIVERY_DRIVER: "mock", or "bria" (dfns settles alike)
    MaxAttempts,  \* BTC_PAYOUT_RETRY_MAX_ATTEMPTS
    Overwrites,   \* the payment row may be decided again (see PaymentMoves)
    LostAnswers,  \* a failed submission may have reached the provider
    EarlyOutcome, \* Bria may resolve a payout before its id is saved
    MaxFaults,    \* bound on errors of the swap and payout providers
    MaxDbErrors,  \* bound on database errors inside the try block
    MaxCrashes    \* bound on handlers that stop half way

ASSUME SettlementAssumption ==
    /\ Requests \cap Tickers = {}
    /\ Requests \cap Consumers = {}
    /\ Tickers \cap Consumers = {}
    /\ Driver \in {"mock", "bria"}
    /\ MaxAttempts \in Nat \ {0}
    /\ Overwrites \in BOOLEAN
    /\ LostAnswers \in BOOLEAN
    /\ EarlyOutcome \in BOOLEAN
    /\ MaxFaults \in Nat
    /\ MaxDbErrors \in Nat
    /\ MaxCrashes \in Nat

VARIABLES
    (* rows *)
    session,   \* conversionSession.currentState
    trail,     \* conversionStateEvent rows: pairs <<from, to>>
    payment,   \* paymentInstruction.status
    payout,    \* payoutInstruction: status, providerPayoutId set?, dispatchAttempts
    (* the outside *)
    swaps,     \* how many swaps the swap provider executed
    sent,      \* how many payouts the bitcoin backend holds for the session
    provider,  \* state of the payout at the backend
    told,      \* how many conversion.completed events were emitted
    acked,     \* consumers whose cursor has passed the payout's last event
    (* handlers *)
    worker,    \* where each handler is, and its locals
    (* history and budgets *)
    credited,  \* the payment row has been CONFIRMED at some time
    faults, dbErrors, crashes

rows == <<session, trail, payment, payout>>
outside == <<swaps, sent, provider, told, acked>>
budgets == <<faults, dbErrors, crashes>>
vars == <<rows, outside, worker, credited, budgets>>

Workers == Requests \cup Tickers \cup Consumers

PayoutStatus == {"CREATED", "PENDING", "PENDING_DISPATCH", "CONFIRMED", "FAILED"}
(* NONE is a missing row; no code writes the schema's CREATED and CANCELLED. *)
PaymentStatus == {"NONE", "PENDING", "CONFIRMED", "FAILED"}

Labels == { "idle", "payment", "read", "write", "event", "swap", "payout",
            "submit", "save", "failrow", "exhaust", "requeue",
            "mark", "session", "emit" }

(* A handler: its next await, the target of the transitionState call it is *)
(* in or will make, the state that call read, the dispatchAttempts it read *)
(* (one more once its submission failed).                                  *)
Handler == [at: Labels,
            target: ConversionState \cup {"none"},
            from: ConversionState \cup {"none"},
            attempts: Nat]

Resting == [at |-> "idle", target |-> "none", from |-> "none", attempts |-> 0]

Payout == [status: PayoutStatus, linked: BOOLEAN, attempts: Nat]

TypeOK ==
    /\ session \in ConversionState
    /\ trail \subseteq ConversionState \X ConversionState
    /\ payment \in PaymentStatus
    /\ payout \in Payout
    /\ swaps \in Nat
    /\ sent \in Nat
    /\ provider \in {"none", "accepted", "settled", "cancelled"}
    /\ told \in Nat
    /\ acked \subseteq Consumers
    /\ worker \in [Workers -> Handler]
    /\ credited \in BOOLEAN
    /\ faults \in 0..MaxFaults
    /\ dbErrors \in 0..MaxDbErrors
    /\ crashes \in 0..MaxCrashes

(* submitPayoutDetails has created the payout row and moved the session on. *)
Init ==
    /\ session = "PAYMENT_PENDING"
    /\ trail = {}
    /\ payment = "NONE"
    /\ payout = [status |-> "CREATED", linked |-> FALSE, attempts |-> 0]
    /\ swaps = 0
    /\ sent = 0
    /\ provider = "none"
    /\ told = 0
    /\ acked = {}
    /\ worker = [w \in Workers |-> Resting]
    /\ credited = FALSE
    /\ faults = 0
    /\ dbErrors = 0
    /\ crashes = 0

-----------------------------------------------------------------------------
(* Control flow of a handler. *)

At(w, label) == worker[w].at = label

Goto(w, label) == worker' = [worker EXCEPT ![w].at = label]

(* Enter SessionService.transitionState. *)
Call(w, to) == worker' = [worker EXCEPT ![w].at = "read", ![w].target = to]

Stop(w) == worker' = [worker EXCEPT ![w] = Resting]

(* The handler returns; a consumer then commits its cursor. *)
Return(w) ==
    /\ Stop(w)
    /\ acked' = IF w \in Consumers THEN acked \cup {w} ELSE acked

(* Inside the try block around submitPayout an error that is no             *)
(* BriaClientError counts as permanent.                                    *)
Catch(w) ==
    worker' = [worker EXCEPT ![w].at = IF w \in Requests THEN "failrow" ELSE "exhaust",
                             ![w].attempts = @ + 1]

InTry(w) ==
    /\ w \in Requests \cup Tickers
    /\ \/ At(w, "save")
       \/ worker[w].at \in {"read", "write", "event"} /\ worker[w].target = "COMPLETED"

-----------------------------------------------------------------------------
(* The payment row, as PaymentIntake writes it: created, decided, and, when *)
(* two writers race, decided again.                                        *)

PaymentMoves ==
    {<<"NONE", "PENDING">>, <<"PENDING", "CONFIRMED">>, <<"PENDING", "FAILED">>}
        \cup (IF Overwrites
              THEN {<<"CONFIRMED", "FAILED">>, <<"FAILED", "CONFIRMED">>}
              ELSE {})

PaymentWritten ==
    /\ \E s \in PaymentStatus :
        /\ <<payment, s>> \in PaymentMoves
        /\ payment' = s
        /\ credited' = (credited \/ s = "CONFIRMED")
    /\ UNCHANGED <<session, trail, payout, outside, worker, budgets>>

-----------------------------------------------------------------------------
(* SessionService.transitionState: read and validate, write, record.       *)

ReadUnvalidated(w) ==
    /\ At(w, "read")
    /\ worker' = [worker EXCEPT ![w].at = "write", ![w].from = session]
    /\ UNCHANGED <<rows, outside, credited, budgets>>

(* A rejected transition throws: into the try block, or out of the handler. *)
Read(w) ==
    /\ At(w, "read")
    /\ \/ /\ CanTransition(session, worker[w].target)
          /\ worker' = [worker EXCEPT ![w].at = "write", ![w].from = session]
       \/ /\ ~CanTransition(session, worker[w].target)
          /\ IF InTry(w) THEN Catch(w) ELSE Stop(w)
    /\ UNCHANGED <<rows, outside, credited, budgets>>

Write(w) ==
    /\ At(w, "write")
    /\ session' = worker[w].target
    /\ Goto(w, "event")
    /\ UNCHANGED <<trail, payment, payout, outside, credited, budgets>>

(* The handler goes on according to the transition it has just made. *)
Proceed(w) ==
    LET to == worker[w].target IN
    \/ to = "PAYMENT_CONFIRMED" /\ Call(w, "EXECUTION_PENDING") /\ UNCHANGED acked
    \/ to = "EXECUTION_PENDING" /\ Goto(w, "swap") /\ UNCHANGED acked
    \/ to = "DELIVERY_PENDING" /\ Goto(w, "payout") /\ UNCHANGED acked
    \/ to = "COMPLETED" /\ Goto(w, "emit") /\ UNCHANGED acked
    \/ to \in {"FAILED", "MANUAL_REVIEW"} /\ Return(w)

RecordEvent(w) ==
    /\ At(w, "event")
    /\ trail' = trail \cup {<<worker[w].from, worker[w].target>>}
    /\ Proceed(w)
    /\ UNCHANGED <<session, payment, payout, swaps, sent, provider, told, credited, budgets>>

-----------------------------------------------------------------------------
(* ConversionService.processPaymentConfirmation, run by a status poll, the *)
(* payment.confirmed event or a manual reference.                          *)

ReadSessionResuming(w) ==
    /\ w \in Requests
    /\ At(w, "idle")
    /\ session \in {"PAYMENT_PENDING", "EXECUTION_PENDING"}
    /\ Goto(w, IF session = "PAYMENT_PENDING" THEN "payment" ELSE "swap")
    /\ UNCHANGED <<rows, outside, credited, budgets>>

ReadSession(w) ==
    /\ w \in Requests
    /\ At(w, "idle")
    /\ session = "PAYMENT_PENDING"
    /\ Goto(w, "payment")
    /\ UNCHANGED <<rows, outside, credited, budgets>>

ReadPaymentUnchecked(w) ==
    /\ At(w, "payment")
    /\ Call(w, "PAYMENT_CONFIRMED")
    /\ UNCHANGED <<rows, outside, credited, budgets>>

ReadPayment(w) ==
    /\ At(w, "payment")
    /\ IF payment = "CONFIRMED" THEN Call(w, "PAYMENT_CONFIRMED") ELSE Stop(w)
    /\ UNCHANGED <<rows, outside, credited, budgets>>

Swap(w) ==
    /\ At(w, "swap")
    /\ \/ /\ swaps' = swaps + 1
          /\ Call(w, "DELIVERY_PENDING")
          /\ UNCHANGED faults
       \/ /\ faults < MaxFaults
          /\ faults' = faults + 1
          /\ Call(w, "FAILED")
          /\ UNCHANGED swaps
    /\ UNCHANGED <<rows, sent, provider, told, acked, credited, dbErrors, crashes>>

ReadPayout(w) ==
    /\ At(w, "payout")
    /\ worker' = [worker EXCEPT ![w].at = "submit", ![w].attempts = payout.attempts]
    /\ UNCHANGED <<rows, outside, credited, budgets>>

-----------------------------------------------------------------------------
(* Submission, shared by processPaymentConfirmation and retryOne.          *)

AcceptEvery ==
    /\ sent' = sent + 1
    /\ provider' = IF Driver = "mock" THEN "settled" ELSE "accepted"

(* The Bria adapter submits under koya:conversion:<reference>; ALREADY_EXISTS *)
(* is answered with the payout that exists.  The mock knows no identifier.  *)
Accept ==
    IF Driver = "mock" \/ sent = 0
    THEN /\ sent' = sent + 1
         /\ provider' = IF Driver = "mock" THEN "settled" ELSE "accepted"
    ELSE UNCHANGED <<sent, provider>>

SubmitAccepted(w) ==
    /\ At(w, "submit")
    /\ Accept
    /\ Goto(w, "save")
    /\ UNCHANGED <<rows, swaps, told, acked, credited, budgets>>

RetryForever(w, retryable) == IF retryable THEN "requeue" ELSE "exhaust"

(* Where the catch block goes for an error of submitPayout. *)
AfterError(w, retryable) ==
    IF w \in Requests /\ ~retryable THEN "failrow"
    ELSE IF retryable /\ worker[w].attempts + 1 < MaxAttempts THEN "requeue"
    ELSE "exhaust"

(* The client repeats a transient error within the call, and an answer of   *)
(* ALREADY_EXISTS is looked up by another call: whatever error comes back   *)
(* in the end, an earlier try may have been accepted.                      *)
SubmitFails(w) ==
    /\ At(w, "submit")
    /\ Driver # "mock"
    /\ faults < MaxFaults
    /\ faults' = faults + 1
    /\ \E retryable \in BOOLEAN :
        /\ worker' = [worker EXCEPT ![w].at = AfterError(w, retryable),
                                    ![w].attempts = @ + 1]
        /\ \/ UNCHANGED <<sent, provider>>
           \/ LostAnswers /\ Accept
    /\ UNCHANGED <<rows, swaps, told, acked, credited, dbErrors, crashes>>

SaveAndComplete(w) ==
    /\ At(w, "save")
    /\ payout' = [payout EXCEPT !.linked = TRUE, !.status = "PENDING"]
    /\ Call(w, "COMPLETED")
    /\ UNCHANGED <<session, trail, payment, outside, credited, budgets>>

(* An asynchronous backend leaves the session in DELIVERY_PENDING; the mock *)
(* has delivered already.                                                  *)
Save(w) ==
    /\ At(w, "save")
    /\ LET attempts == IF w \in Requests THEN 0 ELSE payout.attempts IN
       \/ /\ Driver # "mock"
          /\ payout' = [status |-> "PENDING", linked |-> TRUE, attempts |-> attempts]
          /\ Return(w)
       \/ /\ Driver = "mock"
          /\ payout' = [status |-> "CONFIRMED", linked |-> TRUE, attempts |-> attempts]
          /\ Call(w, "COMPLETED")
          /\ UNCHANGED acked
    /\ UNCHANGED <<session, trail, payment, swaps, sent, provider, told, credited, budgets>>

FailRow(w) ==
    /\ At(w, "failrow")
    /\ payout' = [payout EXCEPT !.status = "FAILED"]
    /\ Call(w, "FAILED")
    /\ UNCHANGED <<session, trail, payment, outside, credited, budgets>>

ExhaustUnknownStatus(w) ==
    /\ At(w, "exhaust")
    /\ payout' = [payout EXCEPT !.status = "EXHAUSTED", !.attempts = worker[w].attempts]
    /\ Call(w, "MANUAL_REVIEW")
    /\ UNCHANGED <<session, trail, payment, outside, credited, budgets>>

Exhaust(w) ==
    /\ At(w, "exhaust")
    /\ payout' = [payout EXCEPT !.status = "FAILED", !.attempts = worker[w].attempts]
    /\ Call(w, "MANUAL_REVIEW")
    /\ UNCHANGED <<session, trail, payment, outside, credited, budgets>>

RequeueAsPending(w) ==
    /\ At(w, "requeue")
    /\ payout' = [payout EXCEPT !.status = "PENDING", !.attempts = worker[w].attempts]
    /\ Return(w)
    /\ UNCHANGED <<session, trail, payment, swaps, sent, provider, told, credited, budgets>>

Requeue(w) ==
    /\ At(w, "requeue")
    /\ payout' = [payout EXCEPT !.status = "PENDING_DISPATCH",
                                !.attempts = worker[w].attempts]
    /\ Return(w)
    /\ UNCHANGED <<session, trail, payment, swaps, sent, provider, told, credited, budgets>>

Emit(w) ==
    /\ At(w, "emit")
    /\ told' = told + 1
    /\ Return(w)
    /\ UNCHANGED <<rows, swaps, sent, provider, credited, budgets>>

-----------------------------------------------------------------------------
(* BtcPayoutDispatchRetryService.tick finds the row due and, with the       *)
(* session it joined, starts retryOne.                                     *)

Tick(w) ==
    /\ w \in Tickers
    /\ At(w, "idle")
    /\ Driver # "mock"
    /\ payout.status = "PENDING_DISPATCH"
    /\ session = "DELIVERY_PENDING"
    /\ worker' = [worker EXCEPT ![w].at = "submit", ![w].attempts = payout.attempts]
    /\ UNCHANGED <<rows, outside, credited, budgets>>

-----------------------------------------------------------------------------
(* BriaEventConsumerService: payout_settled and payout_cancelled.          *)

(* A payout that no row names, and a settled one already CONFIRMED, are     *)
(* skipped, and the cursor moves on.                                       *)
Deliver(w) ==
    /\ w \in Consumers \ acked
    /\ At(w, "idle")
    /\ Driver # "mock"
    /\ provider \in {"settled", "cancelled"}
    /\ IF payout.linked /\ ~(provider = "settled" /\ payout.status = "CONFIRMED")
       THEN /\ worker' = [worker EXCEPT ![w].at = "mark",
                             ![w].target = IF provider = "settled" THEN "COMPLETED"
                                                                   ELSE "FAILED"]
            /\ UNCHANGED acked
       ELSE Return(w)
    /\ UNCHANGED <<rows, swaps, sent, provider, told, credited, budgets>>

MarkAndReturn(w) ==
    /\ At(w, "mark")
    /\ payout' = [payout EXCEPT !.status =
                     IF worker[w].target = "COMPLETED" THEN "CONFIRMED" ELSE "FAILED"]
    /\ Return(w)
    /\ UNCHANGED <<session, trail, payment, swaps, sent, provider, told, credited, budgets>>

MarkPayout(w) ==
    /\ At(w, "mark")
    /\ payout' = [payout EXCEPT !.status =
                     IF worker[w].target = "COMPLETED" THEN "CONFIRMED" ELSE "FAILED"]
    /\ Goto(w, "session")
    /\ UNCHANGED <<session, trail, payment, outside, credited, budgets>>

ReadOutcomeSession(w) ==
    /\ At(w, "session")
    /\ IF session = "DELIVERY_PENDING" THEN Goto(w, "read") /\ UNCHANGED acked
                                       ELSE Return(w)
    /\ UNCHANGED <<rows, swaps, sent, provider, told, credited, budgets>>

-----------------------------------------------------------------------------
(* The environment: Bria batches and broadcasts, or an operator cancels.   *)

BriaResolves ==
    /\ provider = "accepted"
    /\ EarlyOutcome \/ \A w \in Workers : ~At(w, "save")
    /\ provider' \in {"settled", "cancelled"}
    /\ UNCHANGED <<rows, swaps, sent, told, acked, worker, credited, budgets>>

(* A database error inside the try block is caught there ... *)
DatabaseError(w) ==
    /\ InTry(w)
    /\ dbErrors < MaxDbErrors
    /\ dbErrors' = dbErrors + 1
    /\ Catch(w)
    /\ UNCHANGED <<rows, outside, credited, faults, crashes>>

(* ... anywhere else it ends the handler, as a crash of the process does.   *)
(* A consumer has not committed its cursor then and sees the event again.  *)
Abandon(w) ==
    /\ ~At(w, "idle")
    /\ crashes < MaxCrashes
    /\ crashes' = crashes + 1
    /\ Stop(w)
    /\ UNCHANGED <<rows, outside, credited, faults, dbErrors>>

-----------------------------------------------------------------------------

Step(w) ==
    \/ ReadSession(w) \/ ReadPayment(w) \/ Swap(w) \/ ReadPayout(w)
    \/ Read(w) \/ Write(w) \/ RecordEvent(w)
    \/ SubmitAccepted(w) \/ SubmitFails(w)
    \/ Save(w) \/ FailRow(w) \/ Exhaust(w) \/ Requeue(w) \/ Emit(w)
    \/ Tick(w)
    \/ Deliver(w) \/ MarkPayout(w) \/ ReadOutcomeSession(w)

(* The steps of this component alone, without the payment row's writers. *)
Advance == BriaResolves \/ \E w \in Workers : Step(w) \/ DatabaseError(w) \/ Abandon(w)

Next == PaymentWritten \/ Advance

Spec == Init /\ [][Next]_vars

(* A pending await resolves, the interval timer and the status poll fire    *)
(* again, and Bria resolves what it accepted.  Nobody need ever pay.       *)
Fairness ==
    /\ \A w \in Workers : WF_vars(Step(w))
    /\ WF_vars(BriaResolves)

FairSpec == Spec /\ Fairness

-----------------------------------------------------------------------------
(* Properties. *)

(* No bitcoin is handed to the backend, not by the first dispatch and not   *)
(* by a retry, unless the payment row was CONFIRMED and a swap was executed *)
(* before: processPaymentConfirmation's guards hold across every             *)
(* interleaving with polls, retries and crashed handlers.                  *)
PayoutBacked == sent > 0 => credited /\ swaps > 0

(* The session is COMPLETED, and the payout row CONFIRMED, only for a       *)
(* payout that has settled at the provider.                                *)
CompletedOnlyIfSettled ==
    /\ session = "COMPLETED" => provider = "settled"
    /\ payout.status = "CONFIRMED" => provider = "settled"

(* Every row of the audit trail is a transition the table allows, even when *)
(* handlers race on the session row.                                       *)
TrailSound == \A e \in trail : CanTransition(e[1], e[2])

(* A payout waits for another dispatch only after a failed attempt and with *)
(* attempts left, whichever handler wrote the counter last.                *)
DispatchBudget ==
    payout.status = "PENDING_DISPATCH" => payout.attempts \in 1..(MaxAttempts - 1)

(* The conversion keeps the abstract promise: credited, converted, sent     *)
(* once, settled, told, each only after the one before.                    *)
Promise == INSTANCE ConversionPromise WITH
    converted <- swaps > 0,
    delivery <- IF sent > 1 THEN "twice" ELSE provider,
    told <- told > 0

KeepsPromise == Promise!Spec

(* A payment is converted at most once by each handler at work on it: one   *)
(* that starts when another has moved the session on, after a crash or a    *)
(* failed call too, does not swap again.  Handlers that overlap may.       *)
SwapsBounded == swaps <= Cardinality(Requests)

(* A dispatch that ran out of attempts brings the session to manual review, *)
(* unless its payout ended the session.                                    *)
ExhaustedIsReviewed ==
    payout.status = "FAILED" ~> session \in {"MANUAL_REVIEW", "FAILED", "COMPLETED"}

(* A settled payout that the row names completes its conversion, because    *)
(* the consumer commits its cursor only after it processed the event.      *)
SettledIsCompleted == provider = "settled" /\ payout.linked ~> session = "COMPLETED"

=============================================================================
