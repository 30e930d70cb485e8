--------------------------- MODULE PaymentIntake ---------------------------
(***************************************************************************)
(* How the shilling payment of one conversion is asked for and recorded:   *)
(* requests that send an STK push to the customer's phone, Daraja's        *)
(* callbacks, which may come early, twice or at the same time, and the     *)
(* manual M-Pesa reference.  The pushes of a session are told apart by     *)
(* their checkoutRequestId, so a push is also the name of the request that *)
(* makes it.                                                               *)
(***************************************************************************)
EXTENDS Naturals

CONSTANTS
    Pushes,       \* initiatePayment requests, and the checkouts they open
    Callbacks,    \* concurrent runs of the callback endpoint
    Manuals,      \* concurrent runs of confirmByReference
    Bare,         \* pushes whose reports carry no receipt number
    EarlyAnswers, \* the callback may come before the instruction is stored
    MaxCrashes    \* bound on handlers that stop half way

ASSUME PaymentIntakeAssumption ==
    /\ Pushes \cap Callbacks = {}
    /\ Pushes \cap Manuals = {}
    /\ Callbacks \cap Manuals = {}
    /\ "none" \notin Pushes
    /\ Bare \subseteq Pushes
    /\ EarlyAnswers \in BOOLEAN
    /\ MaxCrashes \in Nat

VARIABLES
    open,      \* the session is in PAYMENT_PENDING
    row,       \* the paymentInstruction row: status, checkoutRequestId, receipt
    marked,    \* processed_webhooks rows of source 'daraja'
    audit,     \* daraja_requests: status per checkout
    phone,     \* what M-Pesa knows of each push
    emitted,   \* how many payment.confirmed events were emitted
    handler,   \* where each handler is, and the checkout it is about
    crashes

vars == <<open, row, marked, audit, phone, emitted, handler, crashes>>

Handlers == Pushes \cup Callbacks \cup Manuals

Checkout == Pushes \cup {"none"}

Decision == {"CONFIRMED", "FAILED"}

Row == [status: {"NONE", "PENDING"} \cup Decision,
        checkout: Checkout,
        receipt: {"none", "mpesa", "typed"}]

Resting == [at |-> "idle", checkout |-> "none"]

TypeOK ==
    /\ open \in BOOLEAN
    /\ row \in Row
    /\ marked \subseteq Pushes
    /\ audit \in [Pushes -> {"none"} \cup Decision]
    /\ phone \in [Pushes -> {"none", "prompted", "paid", "declined"}]
    /\ emitted \in Nat
    /\ handler \in [Handlers ->
                      [at: {"idle", "push", "create", "dedupe", "audit", "find", "apply",
                            "receipt", "emit", "lookup", "accept"},
                       checkout: Checkout]]
    /\ crashes \in 0..MaxCrashes

Init ==
    /\ open = TRUE
    /\ row = [status |-> "NONE", checkout |-> "none", receipt |-> "none"]
    /\ marked = {}
    /\ audit = [p \in Pushes |-> "none"]
    /\ phone = [p \in Pushes |-> "none"]
    /\ emitted = 0
    /\ handler = [h \in Handlers |-> Resting]
    /\ crashes = 0

At(h, label) == handler[h].at = label

Goto(h, label) == handler' = [handler EXCEPT ![h].at = label]

Stop(h) == handler' = [handler EXCEPT ![h] = Resting]

-----------------------------------------------------------------------------
(* ConversionService.initiatePayment and MpesaService.initiateSTKPush. *)

Initiate(p) ==
    /\ p \in Pushes
    /\ At(p, "idle")
    /\ phone[p] = "none"
    /\ open
    /\ Goto(p, "push")
    /\ UNCHANGED <<open, row, marked, audit, phone, emitted, crashes>>

(* A push that Daraja refuses, or whose answer is lost, throws. *)
Push(p) ==
    /\ At(p, "push")
    /\ \/ phone' = [phone EXCEPT ![p] = "prompted"] /\ Goto(p, "create")
       \/ phone' = phone /\ Stop(p)
    /\ UNCHANGED <<open, row, marked, audit, emitted, crashes>>

CreateAlways(p) ==
    /\ At(p, "create")
    /\ row' = [status |-> "PENDING", checkout |-> p, receipt |-> "none"]
    /\ Stop(p)
    /\ UNCHANGED <<open, marked, audit, phone, emitted, crashes>>

(* conversionSessionId is unique: the second instruction is refused. *)
Create(p) ==
    /\ At(p, "create")
    /\ row' = IF row.status = "NONE"
              THEN [status |-> "PENDING", checkout |-> p, receipt |-> "none"]
              ELSE row
    /\ Stop(p)
    /\ UNCHANGED <<open, marked, audit, phone, emitted, crashes>>

-----------------------------------------------------------------------------
(* PaymentsController.handleCallback. *)

Result(p) == IF phone[p] = "paid" THEN "CONFIRMED" ELSE "FAILED"

(* Daraja reports a push that was answered, and may report it again. *)
Receive(c) ==
    /\ c \in Callbacks
    /\ At(c, "idle")
    /\ \E p \in Pushes :
        /\ phone[p] \in {"paid", "declined"}
        /\ handler' = [handler EXCEPT ![c] = [at |-> "dedupe", checkout |-> p]]
    /\ UNCHANGED <<open, row, marked, audit, phone, emitted, crashes>>

MarkNever(c) ==
    /\ At(c, "dedupe")
    /\ Goto(c, "audit")
    /\ UNCHANGED <<open, row, marked, audit, phone, emitted, crashes>>

(* ProcessedWebhookService.markProcessed: INSERT ... ON CONFLICT DO NOTHING. *)
MarkProcessed(c) ==
    /\ At(c, "dedupe")
    /\ LET p == handler[c].checkout IN
       IF p \in marked
       THEN Stop(c) /\ UNCHANGED marked
       ELSE Goto(c, "audit") /\ marked' = marked \cup {p}
    /\ UNCHANGED <<open, row, audit, phone, emitted, crashes>>

Audit(c) ==
    /\ At(c, "audit")
    /\ LET p == handler[c].checkout IN audit' = [audit EXCEPT ![p] = Result(p)]
    /\ Goto(c, "find")
    /\ UNCHANGED <<open, row, marked, phone, emitted, crashes>>

FindAny(c) ==
    /\ At(c, "find")
    /\ IF row.status = "PENDING" THEN Goto(c, "apply") ELSE Stop(c)
    /\ UNCHANGED <<open, row, marked, audit, phone, emitted, crashes>>

(* No row for this checkout throws; a decided row is left alone. *)
Find(c) ==
    /\ At(c, "find")
    /\ IF row.checkout = handler[c].checkout /\ row.status = "PENDING"
       THEN Goto(c, "apply")
       ELSE Stop(c)
    /\ UNCHANGED <<open, row, marked, audit, phone, emitted, crashes>>

Apply(c) ==
    /\ At(c, "apply")
    /\ LET result == Result(handler[c].checkout) IN
       /\ row' = [row EXCEPT !.status = result]
       /\ IF result = "CONFIRMED" THEN Goto(c, "receipt") ELSE Stop(c)
    /\ UNCHANGED <<open, marked, audit, phone, emitted, crashes>>

(* MpesaService.updateReceiptNumber addresses the row by its checkout.  A    *)
(* report without metadata, or without a receipt in it, stores none and is  *)
(* announced all the same.                                                 *)
StoreReceipt(c) ==
    /\ At(c, "receipt")
    /\ row' = IF row.checkout = handler[c].checkout /\ row.checkout \notin Bare
              THEN [row EXCEPT !.receipt = "mpesa"] ELSE row
    /\ Goto(c, "emit")
    /\ UNCHANGED <<open, marked, audit, phone, emitted, crashes>>

Emit(c) ==
    /\ At(c, "emit")
    /\ emitted' = emitted + 1
    /\ Stop(c)
    /\ UNCHANGED <<open, row, marked, audit, phone, crashes>>

-----------------------------------------------------------------------------
(* ConversionService.confirmByReference and MpesaService.confirmByReference. *)

Enter(m) ==
    /\ m \in Manuals
    /\ At(m, "idle")
    /\ open
    /\ Goto(m, "lookup")
    /\ UNCHANGED <<open, row, marked, audit, phone, emitted, crashes>>

Lookup(m) ==
    /\ At(m, "lookup")
    /\ IF row.status = "PENDING" THEN Goto(m, "accept") ELSE Stop(m)
    /\ UNCHANGED <<open, row, marked, audit, phone, emitted, crashes>>

(* Any reference of six characters is accepted. *)
AcceptReference(m) ==
    /\ At(m, "accept")
    /\ row' = [row EXCEPT !.status = "CONFIRMED", !.receipt = "typed"]
    /\ Stop(m)
    /\ UNCHANGED <<open, marked, audit, phone, emitted, crashes>>

-----------------------------------------------------------------------------
(* The customer answers the prompt, or lets it expire. *)
Answer(p) ==
    /\ phone[p] = "prompted"
    /\ EarlyAnswers \/ ~At(p, "create")
    /\ phone' \in {[phone EXCEPT ![p] = "paid"], [phone EXCEPT ![p] = "declined"]}
    /\ UNCHANGED <<open, row, marked, audit, emitted, handler, crashes>>

(* A database error or the end of the process stops a handler. *)
Abandon(h) ==
    /\ ~At(h, "idle")
    /\ crashes < MaxCrashes
    /\ crashes' = crashes + 1
    /\ Stop(h)
    /\ UNCHANGED <<open, row, marked, audit, phone, emitted>>

(* Settlement moves the session on once the payment is confirmed. *)
MoveOn ==
    /\ open
    /\ row.status = "CONFIRMED"
    /\ open' = FALSE
    /\ UNCHANGED <<row, marked, audit, phone, emitted, handler, crashes>>

Step(h) ==
    \/ Push(h) \/ Create(h)
    \/ MarkProcessed(h) \/ Audit(h) \/ Find(h) \/ Apply(h) \/ StoreReceipt(h) \/ Emit(h)
    \/ Lookup(h) \/ AcceptReference(h)

(* The steps of this component alone. *)
Intake ==
    \/ \E h \in Handlers : Step(h) \/ Abandon(h)
    \/ \E p \in Pushes : Initiate(p) \/ Answer(p)
    \/ \E c \in Callbacks : Receive(c)
    \/ \E m \in Manuals : Enter(m)

Next == Intake \/ MoveOn

Spec == Init /\ [][Next]_vars

(* A pending await resolves, and the first report of an answered push gets  *)
(* its turn although repetitions of others keep the handlers busy (every    *)
(* request really has a handler of its own).  Nobody need pay or ask.      *)
Fairness ==
    /\ \A h \in Handlers : WF_vars(Step(h))
    /\ \A p \in Pushes : SF_vars(p \notin marked /\ \E c \in Callbacks :
                                     Receive(c) /\ handler'[c].checkout = p)

FairSpec == Spec /\ Fairness

-----------------------------------------------------------------------------
(* Properties. *)

(* Unless a reference was typed, the row says CONFIRMED or FAILED only as    *)
(* the customer answered the very push whose checkout it stores, and the    *)
(* audit table agrees: no callback decides another push's instruction.      *)
DecidedAsAnswered ==
    row.status \in Decision /\ row.receipt # "typed" =>
        /\ phone[row.checkout] # "prompted"
        /\ row.status = Result(row.checkout)
        /\ audit[row.checkout] = row.status

(* However often Daraja reports a payment, at once or in turn, it is        *)
(* announced once, and only when the row is confirmed.                     *)
AnnouncedOnce == emitted <= 1 /\ (emitted > 0 => row.status = "CONFIRMED")

(* A customer who paid any push is credited: a payment may be tried again.  *)
PaidIsCredited ==
    \A p \in Pushes : phone[p] = "paid" ~> row.status = "CONFIRMED"

(* An announced payment has a receipt on its row, whichever of M-Pesa and   *)
(* the customer wrote last and whatever pushes were made since, unless the  *)
(* report of the very push that the row stores came without one.            *)
ReceiptIsKept == emitted > 0 => row.receipt # "none" \/ row.checkout \in Bare

=============================================================================
