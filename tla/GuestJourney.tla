---------------------------- MODULE GuestJourney ----------------------------
(***************************************************************************)
(* The web wizard as the client of Onboarding.  A wizard is one browser    *)
(* tab: the step it shows, what it keeps in sessionStorage, and the        *)
(* component state that a change of step or a reload loses.  Its requests  *)
(* run on the server to their end whether or not the tab still waits, and  *)
(* an answer runs its callback whatever the tab shows by then.             *)
(***************************************************************************)
EXTENDS Onboarding, Sequences

CONSTANTS
    Wizards,         \* browser tabs
    MaxDisturbances  \* bound on the disturbances below, each of which happens once

ASSUME JourneyAssumption ==
    /\ MaxDisturbances \in Nat
    /\ "none" \notin Handlers \cup Wizards

VARIABLES
    wizard,      \* the tabs
    client,      \* per request: the tab and the step whose callback waits for it
    orders,      \* history: the sessions a tab was given for its quotes
    disturbed    \* history: what has happened of Disturbance

vars == <<onboarding, wizard, client, orders, disturbed>>

(* A reload of the tab, an answer the network loses, a use of Back, a       *)
(* request that stops half way.                                            *)
Disturbance == {"reload", "timeout", "back", "crash"}

STEPS == <<"amount", "quote", "identity", "payout", "payment", "processing", "result">>

WizardStep == {STEPS[i] : i \in DOMAIN STEPS}

BACK_ALLOWED == {"quote", "identity", "payout", "payment"}

(* loading: the request the mounted step waits for.  polling: the session   *)
(* the mounted step's interval asks for.  leaked: the session that the      *)
(* interval of a payment step already gone still asks for.                 *)
Wizard == [step: WizardStep,
           quote: Quotes \cup {"none"}, session: Sessions \cup {"none"},
           loading: Handlers \cup {"none"}, polling: Sessions \cup {"none"},
           leaked: Sessions \cup {"none"},
           phase: {"none", "initiating", "waiting", "error"},
           final: {"none", "COMPLETED", "FAILED", "EXPIRED"}]

DefaultState == [step |-> "amount", quote |-> "none", session |-> "none",
                 loading |-> "none", polling |-> "none", leaked |-> "none",
                 phase |-> "none", final |-> "none"]

Nobody == [tab |-> "none", step |-> "none"]

TypeOK ==
    /\ quotes \in [Quotes -> Quote]
    /\ rows \in [Sessions -> Row]
    /\ guests \in [Identities -> {"none", "ACTIVE", "BLOCKED"}]
    /\ cleared \in [Sessions -> Identities \cup {"none"}]
    /\ \A h \in Handlers : handler[h] \in Request
    /\ wizard \in [Wizards -> Wizard]
    /\ orders \in [Wizards -> SUBSET Sessions]
    /\ disturbed \subseteq Disturbance
    /\ client \in [Handlers -> [tab: Wizards \cup {"none"}, step: WizardStep \cup {"none"}]]

Init ==
    /\ OnboardingInit
    /\ wizard = [w \in Wizards |-> DefaultState]
    /\ client = [h \in Handlers |-> Nobody]
    /\ orders = [w \in Wizards |-> {}]
    /\ disturbed = {}

Disturb(what) ==
    /\ what \notin disturbed
    /\ Cardinality(disturbed) < MaxDisturbances
    /\ disturbed' = disturbed \cup {what}

-----------------------------------------------------------------------------
(* Showing a step mounts its component: the payment step asks for the       *)
(* payment at once, the processing step starts to poll.  The interval of    *)
(* the step that is left is cleared.                                       *)

ShowIdle(tab, step) ==
    [tab EXCEPT !.step = step, !.loading = "none", !.polling = "none",
        !.phase = IF step = "payment" THEN "initiating" ELSE "none",
        !.final = IF step = "result" THEN @ ELSE "none"]

Show(tab, step) ==
    [tab EXCEPT !.step = step, !.loading = "none",
        !.phase = IF step = "payment" THEN "initiating" ELSE "none",
        !.polling = IF step = "processing" THEN tab.session ELSE "none",
        !.final = IF step = "result" THEN @ ELSE "none"]

Becomes(w, tab) == wizard' = [wizard EXCEPT ![w] = tab]

(* The mounted step sends a request; an interval does so without waiting.   *)
Send(w, op, q, s, id) ==
    LET h == CHOOSE h \in Handlers : handler[h].at = "idle" IN
        /\ \E g \in Handlers : handler[g].at = "idle"
        /\ Arrive(h, op, q, s, id)
        /\ client' = [client EXCEPT ![h] = [tab |-> w, step |-> wizard[w].step]]
        /\ Becomes(w, IF op = "status" THEN wizard[w] ELSE [wizard[w] EXCEPT !.loading = h])
        /\ UNCHANGED <<orders, disturbed>>

Shows(w, step) == wizard[w].step = step /\ wizard[w].loading = "none"

HasSession(w) == wizard[w].session # "none"

AskQuote(w) ==
    /\ Shows(w, "amount")
    /\ \E q \in Quotes :
        /\ quotes[q].status = "none"
        /\ \A h \in Handlers : handler[h].quote # q
        /\ Send(w, "quote", q, "none", "none")

AskSession(w) ==
    /\ Shows(w, "quote")
    /\ wizard[w].quote # "none"
    /\ Send(w, "session", wizard[w].quote, "none", "none")

SendIdentity(w) ==
    /\ Shows(w, "identity") /\ HasSession(w)
    /\ \E id \in Identities : Send(w, "identity", "none", wizard[w].session, id)

SendPayout(w) ==
    /\ Shows(w, "payout") /\ HasSession(w)
    /\ Send(w, "payout", "none", wizard[w].session, "none")

(* On mount, and by the button Retry payment. *)
InitiatePayment(w) ==
    /\ Shows(w, "payment") /\ HasSession(w)
    /\ wizard[w].phase \in {"initiating", "error"}
    /\ Send(w, "initiate", "none", wizard[w].session, "none")

(* One poll of a tab is in flight at a time. *)
Poll(w) ==
    /\ ~\E h \in Handlers : client[h].tab = w /\ handler[h].op = "status"
    /\ \E s \in {wizard[w].polling, wizard[w].leaked} \ {"none"} :
        Send(w, "status", "none", s, "none")

-----------------------------------------------------------------------------
(* Answers. *)

(* What the callback of a refused or failed request does. *)
Failed(w, h) ==
    IF wizard[w].loading # h THEN wizard[w]
    ELSE [wizard[w] EXCEPT !.loading = "none",
              !.phase = IF handler[h].op = "initiate" THEN "error" ELSE @]

(* The payment page that is still there waits and polls; the one that is    *)
(* gone starts an interval all the same.                                   *)
Initiated(w, h) ==
    IF wizard[w].loading = h
    THEN [wizard[w] EXCEPT !.loading = "none", !.phase = "waiting", !.polling = handler[h].session]
    ELSE [wizard[w] EXCEPT !.leaked = handler[h].session]

Succeeded(w, h) ==
    CASE handler[h].op = "quote"    -> Show([wizard[w] EXCEPT !.quote = handler[h].quote], "quote")
      [] handler[h].op = "session"  -> Show([wizard[w] EXCEPT !.session = handler[h].session], "identity")
      [] handler[h].op = "identity" -> Show(wizard[w], "payout")
      [] handler[h].op = "payout"   -> Show(wizard[w], "payment")
      [] handler[h].op = "initiate" -> Initiated(w, h)

PolledAnyState(w, h) ==
    IF client[h].step = "processing"
    THEN [wizard[w] EXCEPT !.polling = "none", !.final = handler[h].reply]
    ELSE Show([wizard[w] EXCEPT !.leaked = "none"], "processing")

(* The payment page moves on once the session has left PAYMENT_PENDING; the *)
(* processing page is done once the session it asks for is over.           *)
Polled(w, h) ==
    LET state == handler[h].reply IN
    CASE client[h].step = "processing" ->
           IF /\ wizard[w].step = "processing" /\ wizard[w].session = handler[h].session
              /\ state \in {"COMPLETED", "FAILED", "EXPIRED"}
           THEN [wizard[w] EXCEPT !.polling = "none", !.final = state]
           ELSE wizard[w]
      [] client[h].step # "processing" ->
           IF state = "PAYMENT_PENDING" THEN wizard[w]
           ELSE IF wizard[w].step = "processing" THEN [wizard[w] EXCEPT !.leaked = "none"]
           ELSE Show([wizard[w] EXCEPT !.leaked = "none"], "processing")

Forget(h) == client' = [client EXCEPT ![h] = Nobody]

Answer(h) ==
    LET w == client[h].tab IN
    /\ handler[h].at = "done"
    /\ w # "none"
    /\ \/ handler[h].op = "status" /\ handler[h].reply # "refused" /\ Becomes(w, Polled(w, h))
       \/ handler[h].reply = "refused" /\ Becomes(w, Failed(w, h))
       \/ handler[h].reply = "ok" /\ Becomes(w, Succeeded(w, h))
    /\ orders' = IF handler[h].op = "session" /\ handler[h].reply = "ok"
                 THEN [orders EXCEPT ![w] = @ \cup {handler[h].session}] ELSE orders
    /\ handler' = [handler EXCEPT ![h] = Resting]
    /\ Forget(h)
    /\ UNCHANGED <<quotes, rows, guests, cleared, disturbed>>

(* The network loses the answer: the tab sees an error, the server goes on. *)
TimeOut(h) ==
    LET w == client[h].tab IN
    /\ w # "none"
    /\ Disturb("timeout")
    /\ Becomes(w, Failed(w, h))
    /\ Forget(h)
    /\ UNCHANGED <<onboarding, orders>>

Drop(h) ==
    /\ handler[h].at = "done"
    /\ client[h].tab = "none"
    /\ handler' = [handler EXCEPT ![h] = Resting]
    /\ UNCHANGED <<quotes, rows, guests, cleared, wizard, client, orders, disturbed>>

-----------------------------------------------------------------------------
(* Timers and buttons. *)

QuoteTimer(w) ==
    /\ wizard[w].step = "quote"
    /\ wizard[w].quote # "none"
    /\ quotes[wizard[w].quote].lapsed
    /\ Becomes(w, Show([wizard[w] EXCEPT !.quote = "none"], "amount"))
    /\ UNCHANGED <<onboarding, client, orders, disturbed>>

(* ExpiryCountdown: the tab forgets the order, a paid one too. *)
Countdown(w) ==
    /\ wizard[w].step \in {"identity", "payout", "payment"}
    /\ HasSession(w)
    /\ rows[wizard[w].session].lapsed
    /\ Becomes(w, [DefaultState EXCEPT !.leaked = wizard[w].leaked])
    /\ UNCHANGED <<onboarding, client, orders, disturbed>>

Back(w) ==
    /\ wizard[w].step \in BACK_ALLOWED
    /\ Disturb("back")
    /\ \E i \in DOMAIN STEPS :
        STEPS[i] = wizard[w].step /\ Becomes(w, Show(wizard[w], STEPS[i - 1]))
    /\ UNCHANGED <<onboarding, client, orders>>

ViewDetails(w) ==
    /\ wizard[w].step = "processing"
    /\ wizard[w].final # "none"
    /\ Becomes(w, Show(wizard[w], "result"))
    /\ UNCHANGED <<onboarding, client, orders, disturbed>>

Reset(w) ==
    /\ wizard[w].step = "result"
    /\ Becomes(w, [DefaultState EXCEPT !.leaked = wizard[w].leaked])
    /\ UNCHANGED <<onboarding, client, orders, disturbed>>

(* sessionStorage has the step and the ids; callbacks and intervals are gone. *)
Reload(w) ==
    /\ Disturb("reload")
    /\ Becomes(w, Show([wizard[w] EXCEPT !.leaked = "none"], wizard[w].step))
    /\ client' = [h \in Handlers |-> IF client[h].tab = w THEN Nobody ELSE client[h]]
    /\ UNCHANGED <<onboarding, orders>>

(* A tab opened with a reference code shows the processing page at once,    *)
(* in whatever state the order is.                                         *)
Track(w) ==
    /\ wizard[w] = DefaultState
    /\ \A h \in Handlers : client[h].tab # w
    /\ \E s \in Sessions :
        /\ rows[s].state # "none"
        /\ Becomes(w, Show([DefaultState EXCEPT !.session = s], "processing"))
    /\ UNCHANGED <<onboarding, client, orders, disturbed>>

-----------------------------------------------------------------------------

TabStep(w) ==
    \/ AskQuote(w) \/ AskSession(w) \/ SendIdentity(w) \/ SendPayout(w)
    \/ InitiatePayment(w) \/ Poll(w)
    \/ QuoteTimer(w) \/ Countdown(w) \/ ViewDetails(w)

Next ==
    \/ \E h \in Handlers : HandlerStep(h) /\ UNCHANGED <<wizard, client, orders, disturbed>>
    \/ \E h \in Handlers : Crash(h) /\ Disturb("crash") /\ UNCHANGED <<wizard, client, orders>>
    \/ \E q \in Quotes : LapseQuote(q) /\ UNCHANGED <<wizard, client, orders, disturbed>>
    \/ \E s \in Sessions : (LapseSession(s) \/ MoveOn(s)) /\ UNCHANGED <<wizard, client, orders, disturbed>>
    \/ \E h \in Handlers : Answer(h) \/ TimeOut(h) \/ Drop(h)
    \/ \E w \in Wizards : TabStep(w) \/ Back(w) \/ Reset(w) \/ Reload(w) \/ Track(w)

Spec == Init /\ [][Next]_vars

(* Requests run to their end and are answered, time passes, intervals and   *)
(* timers fire, and the customer opens the details that the page offers.    *)
Fairness ==
    /\ \A h \in Handlers :
        /\ WF_vars(HandlerStep(h) /\ UNCHANGED <<wizard, client, orders, disturbed>>)
        /\ WF_vars(Answer(h))
        /\ WF_vars(Drop(h))
    /\ \A q \in Quotes : WF_vars(LapseQuote(q) /\ UNCHANGED <<wizard, client, orders, disturbed>>)
    /\ \A s \in Sessions : WF_vars(LapseSession(s) /\ UNCHANGED <<wizard, client, orders, disturbed>>)
    /\ \A w \in Wizards :
        /\ SF_vars(Poll(w))
        /\ WF_vars(Countdown(w))
        /\ WF_vars(ViewDetails(w))

FairSpec == Spec /\ Fairness

-----------------------------------------------------------------------------
(* Properties. *)

(* No tab was reloaded and no answer was lost. *)
Undisturbed == {"reload", "timeout"} \cap disturbed = {}

(* The tab that was given the order has had no other.  A tab is given two   *)
(* when a quote runs out while its session is being made; an answer that is *)
(* still to come for one of them is then taken for the other.               *)
OnlyOrder(s) == \A w \in Wizards : s \in orders[w] => orders[w] = {s}

(* In an undisturbed journey the order belongs to the guest whose document   *)
(* was screened for it, whatever the customer clicked, went back to and     *)
(* sent again.                                                             *)
ScreenedIfUndisturbed ==
    Undisturbed => \A s \in Sessions : OnlyOrder(s) => ScreenedIsLinked(s)

(* Nor did anybody go back to a step already made. *)
InOrder == Undisturbed /\ "back" \notin disturbed

(* In a journey taken in order expiry really pauses at the payment: the     *)
(* transition of a submission still under way never expires an order that  *)
(* has become payable meanwhile.                                           *)
PausedInOrder ==
    [][InOrder => \A s \in Sessions :
         OnlyOrder(s) /\ rows[s].state \in Payable => rows'[s].state # "EXPIRED"]_vars

(* The step a tab shows is one the server has reached: payout only for a     *)
(* screened order, payment only with a payout row, and, in order, the       *)
(* outcome shown is the one the session row keeps.                         *)
WizardNotAhead ==
    \A w \in Wizards : LET s == wizard[w].session IN
        s # "none" /\ OnlyOrder(s) =>
            /\ wizard[w].step = "payout" => cleared[s] # "none"
            /\ wizard[w].step = "payment" => rows[s].payout
            /\ InOrder /\ wizard[w].final # "none" => rows[s].state = wizard[w].final

(* An order that stays completed is shown to the tab that waits for it,     *)
(* unless that tab gives the order up.                                     *)
CompletedIsShown ==
    \A w \in Wizards, s \in Sessions :
        wizard[w].session = s /\ rows[s].state = "COMPLETED"
            ~> wizard[w].step = "result" \/ wizard[w].session # s
                \/ rows[s].state # "COMPLETED"

=============================================================================
