----------------------------- MODULE Onboarding -----------------------------
(***************************************************************************)
(* The guest-conversion endpoints up to the payment: quote, session,       *)
(* identity with compliance and limits, payout details, initiation of the  *)
(* payment, and status.  A handler is one HTTP request; every await that   *)
(* touches a row or calls a service is a step of its own.  Time is what    *)
(* has lapsed: the 30 seconds of a quote, the 20 minutes of an order.      *)
(***************************************************************************)
EXTENDS ConversionStates, FiniteSets, Naturals

CONSTANTS
    Handlers,    \* requests the API may have in progress
    Quotes,      \* quotes that may be made
    Sessions,    \* sessions that may be created
    Identities,  \* documents customers may submit
    Blocked,     \* those of guests that an operator has blocked
    Limit        \* GUEST_LIMITS, in orders of the one amount modelled

ASSUME OnboardingAssumption ==
    /\ IsFiniteSet(Sessions)
    /\ "none" \notin Quotes \cup Sessions \cup Identities
    /\ Blocked \subseteq Identities
    /\ Limit \in Nat

VARIABLES
    quotes,      \* conversionQuote rows: status, and whether expiresAt has passed
    rows,        \* conversionSession rows with their payout and payment instructions
    guests,      \* guestProfile rows by document: "none", "ACTIVE", "BLOCKED"
    cleared,     \* history: the document of the last submission that passed for a session
    handler      \* where each request is, and its locals

onboarding == <<quotes, rows, guests, cleared, handler>>

PostPaymentStates ==
    { "PAYMENT_PENDING", "PAYMENT_CONFIRMED", "EXECUTION_PENDING", "DELIVERY_PENDING",
      "COMPLETED", "FAILED", "EXPIRED", "MANUAL_REVIEW" }

(* The session is in, or has been through, the payment step. *)
Payable == { "PAYMENT_PENDING", "PAYMENT_CONFIRMED", "EXECUTION_PENDING",
             "DELIVERY_PENDING", "COMPLETED" }

Quote == [status: {"none", "READY", "CONFIRMED", "EXPIRED"}, lapsed: BOOLEAN]

(* payout and pushed: the session's payoutInstruction and paymentInstruction *)
(* rows exist, at most one of each by their unique keys.                    *)
Row == [state: ConversionState \cup {"none"}, quote: Quotes \cup {"none"},
        guest: Identities \cup {"none"}, lapsed: BOOLEAN,
        payout: BOOLEAN, pushed: BOOLEAN]

Operation == {"quote", "session", "identity", "payout", "initiate", "status"}

Request == [op: Operation \cup {"none"},
            at: {"idle", "rate", "insert", "validate", "expirequote", "confirm", "create",
                 "read", "write", "get", "find", "link", "checks", "limits", "push", "done"},
            quote: Quotes \cup {"none"}, session: Sessions \cup {"none"},
            id: Identities \cup {"none"}, target: ConversionState \cup {"none"},
            reply: ConversionState \cup {"none", "ok", "refused"}]

Resting == [op |-> "none", at |-> "idle", quote |-> "none", session |-> "none",
            id |-> "none", target |-> "none", reply |-> "none"]

OnboardingInit ==
    /\ quotes = [q \in Quotes |-> [status |-> "none", lapsed |-> FALSE]]
    /\ rows = [s \in Sessions |-> [state |-> "none", quote |-> "none", guest |-> "none",
                                   lapsed |-> FALSE, payout |-> FALSE, pushed |-> FALSE]]
    /\ guests = [id \in Identities |-> IF id \in Blocked THEN "BLOCKED" ELSE "none"]
    /\ cleared = [s \in Sessions |-> "none"]
    /\ handler = [h \in Handlers |-> Resting]

-----------------------------------------------------------------------------
(* Control flow of a request. *)

At(h, op, label) == handler[h].op = op /\ handler[h].at = label

Goto(h, label) == handler' = [handler EXCEPT ![h].at = label]

Reply(h, r) == handler' = [handler EXCEPT ![h].at = "done", ![h].reply = r]

(* Enter SessionService.transitionState. *)
Call(h, to) == handler' = [handler EXCEPT ![h].at = "read", ![h].target = to]

FirstLabel(op) ==
    CASE op = "quote" -> "rate" [] op = "session" -> "validate" [] OTHER -> "get"

(* ConversionController: one route per operation. *)
Arrive(h, op, q, s, id) ==
    /\ handler[h].at = "idle"
    /\ handler' = [handler EXCEPT ![h] = [Resting EXCEPT !.op = op, !.at = FirstLabel(op),
                                                         !.quote = q, !.session = s, !.id = id]]
    /\ UNCHANGED <<quotes, rows, guests, cleared>>

-----------------------------------------------------------------------------
(* QuoteService. *)

GetRate(h) ==
    /\ At(h, "quote", "rate")
    /\ Goto(h, "insert") \/ Reply(h, "refused")
    /\ UNCHANGED <<quotes, rows, guests, cleared>>

InsertQuote(h) ==
    /\ At(h, "quote", "insert")
    /\ quotes' = [quotes EXCEPT ![handler[h].quote] = [status |-> "READY", lapsed |-> FALSE]]
    /\ Reply(h, "ok")
    /\ UNCHANGED <<rows, guests, cleared>>

(* validateQuote: expiry is looked at before use. *)
ValidateQuote(h) ==
    /\ At(h, "session", "validate")
    /\ LET q == quotes[handler[h].quote] IN
       \/ q.status = "EXPIRED" /\ Reply(h, "refused")
       \/ q.status # "EXPIRED" /\ q.lapsed /\ Goto(h, "expirequote")
       \/ q.status = "CONFIRMED" /\ ~q.lapsed /\ Reply(h, "refused")
       \/ q.status = "READY" /\ ~q.lapsed /\ Goto(h, "confirm")
    /\ UNCHANGED <<quotes, rows, guests, cleared>>

ExpireQuote(h) ==
    /\ At(h, "session", "expirequote")
    /\ quotes' = [quotes EXCEPT ![handler[h].quote].status = "EXPIRED"]
    /\ Reply(h, "refused")
    /\ UNCHANGED <<rows, guests, cleared>>

ConfirmQuote(h) ==
    /\ At(h, "session", "confirm")
    /\ quotes' = [quotes EXCEPT ![handler[h].quote].status = "CONFIRMED"]
    /\ Goto(h, "create")
    /\ UNCHANGED <<rows, guests, cleared>>

-----------------------------------------------------------------------------
(* SessionService. *)

CreateSession(h) ==
    /\ At(h, "session", "create")
    /\ \E s \in Sessions : rows[s].state = "none"
    /\ LET s == CHOOSE t \in Sessions : rows[t].state = "none" IN
        /\ rows' = [rows EXCEPT ![s].state = "QUOTE_CONFIRMED", ![s].quote = handler[h].quote]
        /\ handler' = [handler EXCEPT ![h].session = s, ![h].at = "read",
                                      ![h].target = "IDENTITY_PENDING"]
    /\ UNCHANGED <<quotes, guests, cleared>>

(* transitionState reads and validates; a rejected transition throws. *)
Read(h) ==
    /\ handler[h].at = "read"
    /\ IF CanTransition(rows[handler[h].session].state, handler[h].target)
       THEN Goto(h, "write")
       ELSE Reply(h, "refused")
    /\ UNCHANGED <<quotes, rows, guests, cleared>>

(* What a request does once its transition is made (the audit row that      *)
(* transitionState appends is looked at in Settlement).                    *)
Proceed(h) ==
    LET to == handler[h].target IN
    \/ to = "COMPLIANCE_PENDING" /\ Goto(h, "checks")
    \/ to \in {"IDENTITY_PENDING", "PAYOUT_DETAILS_PENDING", "PAYMENT_PENDING"} /\ Reply(h, "ok")
    \/ to \in {"EXPIRED", "FAILED", "MANUAL_REVIEW"} /\ Reply(h, "refused")

Write(h) ==
    /\ handler[h].at = "write"
    /\ rows' = [rows EXCEPT ![handler[h].session].state = handler[h].target]
    /\ Proceed(h)
    /\ UNCHANGED <<quotes, guests, cleared>>

(* deriveSessionStatus. *)
CountedStates == ConversionState \ {"FAILED", "EXPIRED"}

-----------------------------------------------------------------------------
(* The operations on a session: read it, expire it if its time is over,     *)
(* and refuse it in any state but the one the operation is for.            *)

Expected(op) ==
    CASE op = "identity" -> "IDENTITY_PENDING"
      [] op = "payout"   -> "PAYOUT_DETAILS_PENDING"
      [] op = "initiate" -> "PAYMENT_PENDING"
      [] OTHER           -> "none"

FirstAwait(op) ==
    CASE op = "identity" -> "find" [] op = "payout" -> "insert" [] op = "initiate" -> "push"

ExpirableAlways(row) == row.lapsed /\ row.state \notin Terminal

Expirable(row) == row.lapsed /\ row.state \notin PostPaymentStates

GetAnySession(h) ==
    LET op == handler[h].op
        row == rows[handler[h].session]
    IN  /\ handler[h].at = "get"
        /\ op # "status"
        /\ IF Expirable(row) THEN Call(h, "EXPIRED") ELSE Goto(h, FirstAwait(op))
        /\ UNCHANGED <<quotes, rows, guests, cleared>>

GetSession(h) ==
    LET op == handler[h].op
        row == rows[handler[h].session]
        asked == row.state = Expected(op) /\ (op = "initiate" => row.guest # "none")
    IN  /\ handler[h].at = "get"
        /\ op # "status"
        /\ \/ Expirable(row) /\ Call(h, "EXPIRED")
           \/ ~Expirable(row) /\ ~asked /\ Reply(h, "refused")
           \/ ~Expirable(row) /\ asked /\ Goto(h, FirstAwait(op))
        /\ UNCHANGED <<quotes, rows, guests, cleared>>

GetStatus(h) ==
    /\ At(h, "status", "get")
    /\ Reply(h, rows[handler[h].session].state)
    /\ UNCHANGED <<quotes, rows, guests, cleared>>

-----------------------------------------------------------------------------
(* submitIdentity. *)

FindGuest(h) ==
    /\ At(h, "identity", "find")
    /\ LET found == guests[handler[h].id] IN
       \/ found = "BLOCKED" /\ Reply(h, "refused")
       \/ found = "ACTIVE" /\ Goto(h, "link")
       \/ found = "none" /\ Goto(h, "insert")
    /\ UNCHANGED <<quotes, rows, guests, cleared>>

(* The unique key refuses a second row for the document. *)
InsertGuest(h) ==
    /\ At(h, "identity", "insert")
    /\ IF guests[handler[h].id] = "none"
       THEN /\ guests' = [guests EXCEPT ![handler[h].id] = "ACTIVE"]
            /\ Goto(h, "link")
       ELSE Reply(h, "refused") /\ UNCHANGED guests
    /\ UNCHANGED <<quotes, rows, cleared>>

LinkGuest(h) ==
    /\ At(h, "identity", "link")
    /\ rows' = [rows EXCEPT ![handler[h].session].guest = handler[h].id]
    /\ Call(h, "COMPLIANCE_PENDING")
    /\ UNCHANGED <<quotes, guests, cleared>>

(* runChecks: identity verification and AML screening decide. *)
RunChecks(h) ==
    /\ At(h, "identity", "checks")
    /\ \/ Goto(h, "limits")
       \/ Call(h, "FAILED")
       \/ Call(h, "MANUAL_REVIEW")
    /\ UNCHANGED <<quotes, rows, guests, cleared>>

(* The orders checkLimits sums.  The session under check is among them.     *)
Counted(id) == { s \in Sessions : rows[s].guest = id /\ rows[s].state \in CountedStates }

(* checkLimits throws when the sum and this order again exceed the limit:   *)
(* the session stays in COMPLIANCE_PENDING.                                *)
CheckLimits(h) ==
    /\ At(h, "identity", "limits")
    /\ \/ /\ Cardinality(Counted(handler[h].id)) + 1 <= Limit
          /\ cleared' = [cleared EXCEPT ![handler[h].session] = handler[h].id]
          /\ Call(h, "PAYOUT_DETAILS_PENDING")
       \/ /\ Cardinality(Counted(handler[h].id)) + 1 > Limit
          /\ Reply(h, "refused")
          /\ UNCHANGED cleared
    /\ UNCHANGED <<quotes, rows, guests>>

-----------------------------------------------------------------------------
(* submitPayoutDetails and initiatePayment. *)

TransitionFirst(h) ==
    /\ At(h, "payout", "insert")
    /\ Call(h, "PAYMENT_PENDING")
    /\ UNCHANGED <<quotes, rows, guests, cleared>>

(* An address of another network is refused; so is a second row. *)
InsertPayout(h) ==
    /\ At(h, "payout", "insert")
    /\ \/ Reply(h, "refused") /\ UNCHANGED rows
       \/ /\ ~rows[handler[h].session].payout
          /\ rows' = [rows EXCEPT ![handler[h].session].payout = TRUE]
          /\ Call(h, "PAYMENT_PENDING")
    /\ UNCHANGED <<quotes, guests, cleared>>

(* initiateSTKPush, of which PaymentIntake has the detail. *)
InitiatePush(h) ==
    /\ At(h, "initiate", "push")
    /\ \/ Reply(h, "refused") /\ UNCHANGED rows
       \/ /\ ~rows[handler[h].session].pushed
          /\ rows' = [rows EXCEPT ![handler[h].session].pushed = TRUE]
          /\ Reply(h, "ok")
    /\ UNCHANGED <<quotes, guests, cleared>>

-----------------------------------------------------------------------------
(* Time, the rest of the system, and crashes. *)

LapseQuote(q) ==
    /\ quotes[q].status # "none" /\ ~quotes[q].lapsed
    /\ quotes' = [quotes EXCEPT ![q].lapsed = TRUE]
    /\ UNCHANGED <<rows, guests, cleared, handler>>

(* The quote of an order lapses before the order does. *)
LapseSession(s) ==
    /\ rows[s].state # "none" /\ ~rows[s].lapsed
    /\ quotes[rows[s].quote].lapsed
    /\ rows' = [rows EXCEPT ![s].lapsed = TRUE]
    /\ UNCHANGED <<quotes, guests, cleared, handler>>

(* Settlement moves a session whose payment was asked for. *)
MoveOn(s) ==
    /\ rows[s].pushed
    /\ rows[s].state \in Payable
    /\ \E to \in AllowedTargets(rows[s].state) \ {"EXPIRED"} :
        rows' = [rows EXCEPT ![s].state = to]
    /\ UNCHANGED <<quotes, guests, cleared, handler>>

(* The process stops: the request ends where it is. *)
Crash(h) ==
    /\ handler[h].at \notin {"idle", "done"}
    /\ Reply(h, "refused")
    /\ UNCHANGED <<quotes, rows, guests, cleared>>

HandlerStep(h) ==
    \/ GetRate(h) \/ InsertQuote(h)
    \/ ValidateQuote(h) \/ ExpireQuote(h) \/ ConfirmQuote(h) \/ CreateSession(h)
    \/ Read(h) \/ Write(h)
    \/ GetSession(h) \/ GetStatus(h)
    \/ FindGuest(h) \/ InsertGuest(h) \/ LinkGuest(h) \/ RunChecks(h) \/ CheckLimits(h)
    \/ InsertPayout(h) \/ InitiatePush(h)

-----------------------------------------------------------------------------
(* Properties. *)

(* Settlement finds a payout row, and the payment its guest: a session      *)
(* becomes payable only with both.                                         *)
PayableIsEquipped ==
    \A s \in Sessions : rows[s].state \in Payable => rows[s].payout /\ rows[s].guest # "none"

(* The guest a payable session belongs to is the one whose document passed  *)
(* compliance and limits for it.                                           *)
ScreenedIsLinked(s) ==
    rows[s].state \in Payable \cup {"PAYOUT_DETAILS_PENDING"}
        => cleared[s] # "none" /\ rows[s].guest = cleared[s]

=============================================================================
