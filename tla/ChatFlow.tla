------------------------------ MODULE ChatFlow ------------------------------
(***************************************************************************)
(* One customer's chat: WhatsAppConversation rows, the messages that are   *)
(* handled against them, and the notice of a completed order.  A handler   *)
(* reads the newest active row, decides on that snapshot and then awaits   *)
(* one call after another: the writes it still owes are its todo.  The     *)
(* calls of ConversionService are single steps here; Onboarding and        *)
(* PaidConversion have their insides.                                      *)
(***************************************************************************)
EXTENDS Naturals, Sequences, FiniteSets

CONSTANTS
    Handlers,         \* messages that may be handled at once
    Orders,           \* conversion sessions the customer may start
    MaxConversations, \* bound: rows that may be created
    MaxDisturbances   \* bound on messages that overlap, calls that fail, handlers that die

ASSUME ChatFlowAssumption ==
    /\ "none" \notin Orders
    /\ {MaxConversations, MaxDisturbances} \subseteq Nat

VARIABLES
    provider,  \* the channel: on WhatsApp the sender's id is a phone number
    convs,     \* the WhatsAppConversation rows, in order of creation
    orders,    \* what ConversionService knows of each session
    handler,   \* where each handler is, its snapshot and its todo
    notice,    \* each order's conversion.completed listener
    left,      \* history: orders the customer, or time, has left behind
    overlaps, troubles

vars == <<provider, convs, orders, handler, notice, left, overlaps, troubles>>

Step == {"IDLE", "MENU", "WAITING_FOR_AMOUNT", "WAITING_FOR_QUOTE_CONFIRMATION",
         "WAITING_FOR_FULL_NAME", "WAITING_FOR_DOCUMENT_NUMBER", "WAITING_FOR_EMAIL",
         "WAITING_FOR_BTC_ADDRESS", "WAITING_FOR_PAYMENT_CONFIRMATION",
         "PROCESSING", "COMPLETED"}

Reference == Orders \cup {"none"}

(* meta: the orders whose name and document it holds, its pendingField, and *)
(* whether it has an mpesaPhone.                                           *)
Metadata == [name: Reference, document: Reference, asks: BOOLEAN, phone: BOOLEAN]

NoMetadata == [name |-> "none", document |-> "none", asks |-> FALSE, phone |-> FALSE]

(* active: status is ACTIVE; nothing reads which of the other three it is.  *)
Conversation == [active: BOOLEAN, step: Step,
                 order: Reference, quote: BOOLEAN, meta: Metadata]

Fresh == [active |-> TRUE, step |-> "IDLE", order |-> "none", quote |-> FALSE,
          meta |-> NoMetadata]

(* identified, payable and pushed: the session has passed compliance, has a *)
(* payout instruction, has a payment instruction.                          *)
OrderState == {"none", "created", "screening", "identified", "payable", "pushed",
               "completed", "closed", "expired"}

(* What a closed row holds is never read again, and no write reopens it.    *)
Closed == [Fresh EXCEPT !.active = FALSE]

(* OTHER: help, rates, transactions, status, and what a step does not accept *)
Command == {"GREETING", "START_CONVERSION", "BACK", "CANCEL", "START_OVER", "OTHER",
            "ONE", "YES", "PAY", "REFERENCE", "TEXT"}

Resting == [at |-> "idle", conv |-> 0, order |-> "none", todo |-> <<>>]

TypeOK ==
    /\ provider \in {"WHATSAPP_CLOUD", "TELEGRAM"}
    /\ Len(convs) <= MaxConversations
    /\ \A c \in DOMAIN convs : convs[c] \in Conversation
    /\ orders \in [Orders -> OrderState]
    /\ \A h \in Handlers :
         /\ handler[h].at \in {"idle", "find", "open", "run"}
         /\ handler[h].conv \in 0..Len(convs)
         /\ handler[h].order \in Reference
    /\ notice \in [Orders -> [at: {"none", "find", "step", "status", "send", "told", "lost"},
                              conv: 0..MaxConversations]]
    /\ left \subseteq Orders
    /\ overlaps \in 0..MaxDisturbances
    /\ troubles \in 0..MaxDisturbances

Init ==
    /\ provider \in {"WHATSAPP_CLOUD", "TELEGRAM"}
    /\ convs = <<>>
    /\ orders = [o \in Orders |-> "none"]
    /\ handler = [h \in Handlers |-> Resting]
    /\ notice = [o \in Orders |-> [at |-> "none", conv |-> 0]]
    /\ left = {}
    /\ overlaps = 0
    /\ troubles = 0

-----------------------------------------------------------------------------
(* What a handler decides on its snapshot: the calls it then awaits. *)

To(step) == <<"step", step>>

(* handleGlobalCommand, for the commands it answers itself. *)
IsGlobal(cmd) ==
    \/ cmd \in {"START_CONVERSION", "BACK", "CANCEL", "START_OVER"}
    \/ cmd = "GREETING" /\ provider = "TELEGRAM"

GlobalScriptResetting(seen, cmd) ==
    CASE cmd = "GREETING"   -> <<To("MENU")>>
      [] cmd = "START_OVER" -> <<<<"close">>, <<"create">>>>
      [] OTHER              -> <<<<"reset">>, To("MENU")>>

GlobalScript(seen, cmd) ==
    CASE cmd \in {"GREETING", "BACK"} -> <<To("MENU")>>
      [] cmd = "START_CONVERSION"     -> <<<<"reset">>, To("WAITING_FOR_AMOUNT")>>
      [] cmd = "CANCEL"               -> IF seen.step \in {"IDLE", "COMPLETED"}
                                           THEN <<>> ELSE <<<<"reset">>>>
      [] cmd = "START_OVER"           -> <<<<"close">>, <<"create">>>>

MenuScript(cmd) ==
    CASE cmd = "GREETING" -> <<To("MENU")>>
      [] cmd = "ONE"      -> <<To("WAITING_FOR_AMOUNT")>>
      [] OTHER            -> <<>>

ConfirmationScript(seen) ==
    IF seen.quote THEN <<<<"createSession">>>> ELSE <<To("WAITING_FOR_AMOUNT")>>

(* handleFullName and handleDocumentNumber write the snapshot's metadata    *)
(* with their own field in it.                                             *)
NameScript(seen) ==
    <<<<"metadata", [seen.meta EXCEPT !.name = seen.order]>>, To("WAITING_FOR_DOCUMENT_NUMBER")>>

DocumentScript(seen) ==
    <<<<"metadata", [seen.meta EXCEPT !.document = seen.order]>>, To("WAITING_FOR_EMAIL")>>

(* handleEmail, submitIdentityWithResolvedPhone, handleMpesaPhoneCapture: a *)
(* Telegram id is no phone number, so the number is asked for, once.       *)
EmailScript(seen) ==
    LET given == [seen.meta EXCEPT !.asks = FALSE, !.phone = TRUE] IN
    IF provider = "TELEGRAM" /\ ~seen.meta.asks /\ ~seen.meta.phone
    THEN <<<<"metadata", [seen.meta EXCEPT !.asks = TRUE]>>>>
    ELSE <<<<"metadata", given>>, <<"submitIdentity", given>>>>

CompletedScript ==
    <<<<"reset">>, <<"create">>, <<"close">>, <<"next", "WAITING_FOR_AMOUNT">>>>

(* WhatsAppFlowHandler.handle. *)
FlowScript(seen, cmd) ==
    CASE seen.step \in {"IDLE", "MENU"} -> MenuScript(cmd)
      [] seen.step = "WAITING_FOR_AMOUNT" /\ cmd = "TEXT" -> <<<<"createQuote">>>>
      [] seen.step = "WAITING_FOR_QUOTE_CONFIRMATION" /\ cmd = "YES" -> ConfirmationScript(seen)
      [] seen.step = "WAITING_FOR_FULL_NAME" /\ cmd = "TEXT" -> NameScript(seen)
      [] seen.step = "WAITING_FOR_DOCUMENT_NUMBER" /\ cmd = "TEXT" -> DocumentScript(seen)
      [] seen.step = "WAITING_FOR_EMAIL" /\ cmd = "TEXT" -> EmailScript(seen)
      [] seen.step = "WAITING_FOR_BTC_ADDRESS" /\ cmd = "TEXT" -> <<<<"submitPayoutDetails">>>>
      [] seen.step = "WAITING_FOR_PAYMENT_CONFIRMATION" /\ cmd = "PAY" -> <<<<"initiatePayment">>>>
      [] seen.step = "PROCESSING" /\ cmd = "REFERENCE" -> <<<<"confirmByReference">>>>
      [] seen.step = "COMPLETED" /\ cmd \in {"GREETING", "ONE"} -> CompletedScript
      [] OTHER -> <<>>

(* isExpired: ten minutes may have passed since the row was last prolonged; *)
(* then the row is closed and the message is not looked at.                *)
Script(seen, cmd, expired) ==
    IF expired /\ seen.step # "IDLE" THEN <<<<"close">>, <<"create">>>>
    ELSE IF IsGlobal(cmd) THEN GlobalScript(seen, cmd)
    ELSE FlowScript(seen, cmd)

-----------------------------------------------------------------------------
(* handleInboundMessage. *)

At(h, label) == handler[h].at = label

Goto(h, label) == handler' = [handler EXCEPT ![h].at = label]

Busy == {h \in Handlers : ~At(h, "idle")}

Calm == UNCHANGED <<overlaps, troubles>>

Disturbed == overlaps + troubles < MaxDisturbances

Receive(h) ==
    /\ At(h, "idle")
    /\ IF Busy = {} THEN UNCHANGED overlaps
       ELSE Disturbed /\ overlaps' = overlaps + 1
    /\ Goto(h, "find")
    /\ UNCHANGED <<provider, convs, orders, notice, left, troubles>>

Active == {c \in DOMAIN convs : convs[c].active}

Newest == CHOOSE c \in Active : \A d \in Active : d <= c

Leave(order) == left' = left \cup ({order} \ {"none"})

(* What parts a customer from an order, apart from a new one in its place.  *)
Leaves(seen, cmd, expired) ==
    \/ expired
    \/ cmd \in {"START_CONVERSION", "CANCEL", "START_OVER"}
    \/ seen.step = "COMPLETED"

(* The handler goes by the row as it was read; behind the script's choice   *)
(* only its order is still needed.                                         *)
Begin(h, c, seen) ==
    \E cmd \in Command, expired \in BOOLEAN :
        /\ handler' = [handler EXCEPT ![h] =
              [at |-> "run", conv |-> c, order |-> seen.order, todo |-> Script(seen, cmd, expired)]]
        /\ IF Leaves(seen, cmd, expired) THEN Leave(seen.order) ELSE UNCHANGED left

(* findOrCreateConversation *)
Find(h) ==
    /\ At(h, "find")
    /\ \/ Active = {} /\ Goto(h, "open") /\ UNCHANGED left
       \/ Active # {} /\ Begin(h, Newest, convs[Newest])
    /\ UNCHANGED <<provider, convs, orders, notice>>
    /\ Calm

Open(h) ==
    /\ At(h, "open")
    /\ Len(convs) < MaxConversations
    /\ convs' = Append(convs, Fresh)
    /\ Begin(h, Len(convs) + 1, Fresh)
    /\ UNCHANGED <<provider, orders, notice>>
    /\ Calm

Todo(h, kind) == At(h, "run") /\ handler[h].todo # <<>> /\ Head(handler[h].todo)[1] = kind

Argument(h) == Head(handler[h].todo)[2]

Then(h, todo) == handler' = [handler EXCEPT ![h].todo = todo]

Pop(h) == Then(h, Tail(handler[h].todo))

Reply(h) ==
    /\ At(h, "run") /\ handler[h].todo = <<>>
    /\ handler' = [handler EXCEPT ![h] = Resting]
    /\ UNCHANGED <<provider, convs, orders, notice, left>>
    /\ Calm

(* A call throws or the process ends: what was owed is dropped. *)
Abandon(h) ==
    /\ ~At(h, "idle")
    /\ Disturbed
    /\ troubles' = troubles + 1
    /\ handler' = [handler EXCEPT ![h] = Resting]
    /\ UNCHANGED <<provider, convs, orders, notice, left, overlaps>>

-----------------------------------------------------------------------------
(* WhatsAppSessionService's writes, each to the row of the snapshot. *)

Write(h, row) ==
    /\ convs' = IF convs[handler[h].conv].active
                  THEN [convs EXCEPT ![handler[h].conv] = row] ELSE convs
    /\ Pop(h)
    /\ UNCHANGED <<provider, orders, notice>>
    /\ Calm

UpdateStep(h) ==
    /\ Todo(h, "step")
    /\ Write(h, [convs[handler[h].conv] EXCEPT !.step = Argument(h)])
    /\ UNCHANGED left

(* Metadata "undefined" leaves the column as it is. *)
ResetConversation(h) ==
    /\ Todo(h, "reset")
    /\ Write(h, [convs[handler[h].conv] EXCEPT !.step = "IDLE", !.order = "none",
                                               !.quote = FALSE])
    /\ UNCHANGED left

(* To EXPIRED, CANCELLED or COMPLETED. *)
SetStatus(h) ==
    /\ Todo(h, "close")
    /\ Write(h, Closed)
    /\ UNCHANGED left

LinkSession(h) ==
    /\ Todo(h, "link")
    /\ Write(h, [convs[handler[h].conv] EXCEPT !.order = Argument(h)])
    /\ Leave(convs[handler[h].conv].order)

LinkQuote(h) ==
    /\ Todo(h, "quote")
    /\ Write(h, [convs[handler[h].conv] EXCEPT !.quote = TRUE])
    /\ UNCHANGED left

UpdateMetadata(h) ==
    /\ Todo(h, "metadata")
    /\ Write(h, [convs[handler[h].conv] EXCEPT !.meta = Argument(h)])
    /\ UNCHANGED left

CreateConversation(h) ==
    /\ Todo(h, "create")
    /\ Len(convs) < MaxConversations
    /\ convs' = Append(convs, Fresh)
    /\ Pop(h)
    /\ UNCHANGED <<provider, orders, notice, left>>
    /\ Calm

(* handleCompleted goes on with the row it has just created. *)
UpdateNextStep(h) ==
    /\ Todo(h, "next")
    /\ convs' = [convs EXCEPT ![Len(convs)].step = Argument(h)]
    /\ Pop(h)
    /\ UNCHANGED <<provider, orders, notice, left>>
    /\ Calm

-----------------------------------------------------------------------------
(* The handler's calls of ConversionService, for the snapshot's order. *)

Order(h) == handler[h].order

StateOf(h) == IF Order(h) = "none" THEN "none" ELSE orders[Order(h)]

Move(h, state, todo) ==
    /\ orders' = [orders EXCEPT ![Order(h)] = state]
    /\ Then(h, todo)

Refuse(h) == Then(h, <<>>) /\ UNCHANGED orders

(* ensureNotExpired: twenty minutes may have passed since the order began.  *)
(* handleOrderExpiry resets the row when this very call expired the order. *)
Expire(h) ==
    /\ StateOf(h) \in {"created", "screening", "identified"}
    /\ Move(h, "expired", <<<<"reset">>>>)

CreateQuote(h) ==
    /\ Todo(h, "createQuote")
    /\ \/ Then(h, <<<<"quote">>, To("WAITING_FOR_QUOTE_CONFIRMATION")>>)
       \/ Then(h, <<>>)
    /\ UNCHANGED <<provider, convs, orders, notice, left>>
    /\ Calm

SessionScriptResuming(o) == <<<<"link", o>>, To("WAITING_FOR_DOCUMENT_NUMBER")>>

SessionScript(o) ==
    <<<<"link", o>>, To("WAITING_FOR_FULL_NAME"), <<"metadata", NoMetadata>>>>

(* Created, or refused, or too late for the quote. *)
CreateSession(h) ==
    /\ Todo(h, "createSession")
    /\ \/ \E o \in Orders :
            /\ orders[o] = "none"
            /\ orders' = [orders EXCEPT ![o] = "created"]
            /\ Then(h, SessionScript(o))
       \/ UNCHANGED orders /\ \E late \in BOOLEAN :
            Then(h, IF late THEN <<To("WAITING_FOR_AMOUNT")>> ELSE <<>>)
    /\ UNCHANGED <<provider, convs, notice, left>>
    /\ Calm

(* Passed, blocked or under review, over the limit, or refused beforehand:  *)
(* a phone number that is not Kenyan is asked for again.                   *)
SubmitIdentity(h) ==
    /\ Todo(h, "submitIdentity")
    /\ \/ Expire(h)
       \/ /\ StateOf(h) = "created"
          /\ \/ Move(h, "identified", <<To("WAITING_FOR_BTC_ADDRESS")>>)
             \/ Move(h, "closed", <<<<"close">>>>)
             \/ Move(h, "screening", <<>>)
             \/ Refuse(h)
             \/ UNCHANGED orders /\ Then(h, <<<<"metadata", [Argument(h) EXCEPT !.asks = TRUE]>>>>)
       \/ StateOf(h) # "created" /\ Refuse(h)
    /\ UNCHANGED <<provider, convs, notice, left>>
    /\ Calm

SubmitPayoutDetails(h) ==
    /\ Todo(h, "submitPayoutDetails")
    /\ \/ Expire(h)
       \/ /\ StateOf(h) = "identified"
          /\ Move(h, "payable", <<To("WAITING_FOR_PAYMENT_CONFIRMATION")>>)
       \/ Refuse(h)
    /\ UNCHANGED <<provider, convs, notice, left>>
    /\ Calm

PushWithoutStep(h) ==
    /\ Todo(h, "initiatePayment")
    /\ \/ Expire(h)
       \/ StateOf(h) = "payable" /\ Move(h, "pushed", <<>>)
       \/ Refuse(h)
    /\ UNCHANGED <<provider, convs, notice, left>>
    /\ Calm

InitiatePayment(h) ==
    /\ Todo(h, "initiatePayment")
    /\ \/ Expire(h)
       \/ StateOf(h) = "payable" /\ Move(h, "pushed", <<To("PROCESSING")>>)
       \/ Refuse(h)
    /\ UNCHANGED <<provider, convs, notice, left>>
    /\ Calm

Announce(o) == notice' = [notice EXCEPT ![o].at = "find"]

(* Confirmed and settled on the spot, confirmed, or rejected. *)
ConfirmByReference(h) ==
    /\ Todo(h, "confirmByReference")
    /\ \/ /\ StateOf(h) = "pushed"
          /\ Move(h, "completed", <<To("COMPLETED"), <<"close">>>>)
          /\ Announce(Order(h))
          /\ Leave(Order(h))
       \/ Refuse(h) /\ UNCHANGED <<notice, left>>
    /\ UNCHANGED <<provider, convs>>
    /\ Calm

-----------------------------------------------------------------------------
(* Settlement, and the listener's sendCompletionNotification. *)

Settle(o) ==
    /\ orders[o] = "pushed"
    /\ \/ orders' = [orders EXCEPT ![o] = "completed"] /\ Announce(o)
       \/ orders' = [orders EXCEPT ![o] = "closed"] /\ UNCHANGED notice
    /\ UNCHANGED <<provider, convs, handler, left>>
    /\ Calm

NoticeAt(o, label) == notice[o].at = label

(* findBySessionId looks among the active rows. *)
FindBySessionId(o) ==
    /\ NoticeAt(o, "find")
    /\ LET linked == {c \in Active : convs[c].order = o} IN
       \/ linked = {} /\ notice' = [notice EXCEPT ![o].at = "lost"]
       \/ \E c \in linked : notice' = [notice EXCEPT ![o] = [at |-> "step", conv |-> c]]
    /\ UNCHANGED <<provider, convs, orders, handler, left>>
    /\ Calm

NoticeStep(o) ==
    /\ NoticeAt(o, "step")
    /\ convs' = IF convs[notice[o].conv].active
                  THEN [convs EXCEPT ![notice[o].conv].step = "COMPLETED"] ELSE convs
    /\ notice' = [notice EXCEPT ![o].at = "status"]
    /\ UNCHANGED <<provider, orders, handler, left>>
    /\ Calm

NoticeStatus(o) ==
    /\ NoticeAt(o, "status")
    /\ convs' = [convs EXCEPT ![notice[o].conv] = Closed]
    /\ Leave(convs[notice[o].conv].order)
    /\ notice' = [notice EXCEPT ![o].at = "send"]
    /\ UNCHANGED <<provider, orders, handler>>
    /\ Calm

NoticeSend(o) ==
    /\ NoticeAt(o, "send")
    /\ notice' = [notice EXCEPT ![o].at = "told"]
    /\ UNCHANGED <<provider, convs, orders, handler, left>>
    /\ Calm

(* Any error of the notice is logged, and that is all. *)
NoticeFails(o) ==
    /\ \E label \in {"find", "step", "status", "send"} : NoticeAt(o, label)
    /\ Disturbed
    /\ troubles' = troubles + 1
    /\ notice' = [notice EXCEPT ![o].at = "lost"]
    /\ UNCHANGED <<provider, convs, orders, handler, left, overlaps>>

-----------------------------------------------------------------------------
WriteStep(h) ==
    \/ UpdateStep(h) \/ ResetConversation(h) \/ SetStatus(h) \/ LinkSession(h)
    \/ LinkQuote(h) \/ UpdateMetadata(h) \/ CreateConversation(h) \/ UpdateNextStep(h)

ServiceStep(h) ==
    \/ CreateQuote(h) \/ CreateSession(h) \/ SubmitIdentity(h) \/ SubmitPayoutDetails(h)
    \/ InitiatePayment(h) \/ ConfirmByReference(h)

NoticeWork(o) ==
    FindBySessionId(o) \/ NoticeStep(o) \/ NoticeStatus(o) \/ NoticeSend(o) \/ NoticeFails(o)

Next ==
    \/ \E h \in Handlers :
         \/ Receive(h) \/ Find(h) \/ Open(h) \/ WriteStep(h) \/ ServiceStep(h)
         \/ Reply(h) \/ Abandon(h)
    \/ \E o \in Orders : Settle(o) \/ NoticeWork(o)

Spec == Init /\ [][Next]_vars

-----------------------------------------------------------------------------
(* Properties. *)

(* No message came while another was handled, and nothing failed: what the  *)
(* rows then promise each other.                                           *)
Undisturbed == overlaps = 0 /\ troubles = 0

(* The states an order is in that has come at least as far as a step asks;  *)
(* a closed or an expired one has come as far as it ever will.             *)
Reaching(step) ==
    CASE step \in {"WAITING_FOR_FULL_NAME", "WAITING_FOR_DOCUMENT_NUMBER", "WAITING_FOR_EMAIL"} ->
           OrderState \ {"none"}
      [] step = "WAITING_FOR_BTC_ADDRESS" ->
           {"identified", "payable", "pushed", "completed", "closed", "expired"}
      [] step = "WAITING_FOR_PAYMENT_CONFIRMATION" -> {"payable", "pushed", "completed", "closed"}
      [] step = "PROCESSING" -> {"pushed", "completed", "closed"}
      [] OTHER -> OrderState

(* Those in which ConversionService accepts what the step asks for. *)
Accepting(step) ==
    CASE step \in {"WAITING_FOR_FULL_NAME", "WAITING_FOR_DOCUMENT_NUMBER", "WAITING_FOR_EMAIL"} ->
           {"created"}
      [] step = "WAITING_FOR_BTC_ADDRESS" -> {"identified"}
      [] step = "WAITING_FOR_PAYMENT_CONFIRMATION" -> {"payable"}
      [] OTHER -> Reaching(step)

(* An order over the customer's limit stays in screening, and the chat at a *)
(* step whose every answer submitIdentity then refuses.                    *)
TurnedDown(step, state) == step = "WAITING_FOR_EMAIL" /\ state = "screening"

(* The chat's step and its order's state, written one after the other in    *)
(* two tables, keep together.  As long as messages do not overlap, the step *)
(* never runs ahead of the order, whatever call fails and wherever the      *)
(* handler dies.  If nothing failed either, the chat between two messages   *)
(* asks for nothing that ConversionService refuses, except of an order that *)
(* was TurnedDown.                                                         *)
StepFitsOrder ==
    \A c \in Active :
        LET step == convs[c].step
            state == IF convs[c].order = "none" THEN "none" ELSE orders[convs[c].order]
        IN  /\ overlaps = 0 => state \in Reaching(step)
            /\ Undisturbed /\ Busy = {} =>
                 state \in Accepting(step) \/ TurnedDown(step, state)

(* An identity is submitted with the name and the document given for this   *)
(* order, whatever an abandoned order left in the row's metadata, and also *)
(* when a handler died half way; only overlapping messages can mix them.   *)
IdentityIsOwn ==
    \A h \in Handlers : overlaps = 0 /\ Todo(h, "submitIdentity") =>
        Argument(h).name = Order(h) /\ Argument(h).document = Order(h)

(* A completion notice finds the customer's row unless a command that gives *)
(* the order up, a new order, the row's TTL or the late notice of another  *)
(* order came before, or the reply to a reference, which tells itself: Back*)
(* and a greeting, in whatever step and at whatever moment, do not cost it. *)
NoticeFindsCustomer ==
    Undisturbed => \A o \in Orders : NoticeAt(o, "lost") => o \in left

=============================================================================
