---------------------------- MODULE DfnsWebhook ----------------------------
(***************************************************************************)
(* The custody path: DfnsService.requestCustodyMove, DfnsController's      *)
(* webhook and the two event handlers of ConversionService that move the   *)
(* session.  One transfer, whose session awaits delivery; DFNS reports on  *)
(* it as often and as early as it likes, each report with the transfer's   *)
(* externalId, which is also the key the webhook is deduplicated by.       *)
(* Beside them work those who write the payout row: the handlers of the    *)
(* payment, still submitting the payout, and the retry ticker.  The row     *)
(* gets its externalId from them; the webhook finds it by nothing else.     *)
(* What Bria reports of the payout, Settlement has; here DFNS alone does.  *)
(***************************************************************************)
EXTENDS Naturals

CONSTANTS
    Movers,        \* concurrent calls of requestCustodyMove
    Hooks,         \* webhook requests that may be at work at once
    Senders,       \* handlers submitting the payout; then ticks that retry it
    MaxReports,    \* bound: how many reports DFNS delivers
    MaxHalts       \* bound: calls that fail, processes that die

VARIABLES
    custody,   \* the dfnsRequest row's status
    payout,    \* the payoutInstruction row's status
    linked,    \* whether that row has its externalId
    session,   \* the session's currentState
    keyUsed,   \* the processed_webhooks row
    verdict,   \* DFNS: what became of the transfer, once it was asked for
    completed, \* how often conversion.completed was announced
    gaveUp,    \* history: a sender wrote the payout off
    mover, hook, sender, reports, halts

rowVars == <<payout, linked, gaveUp, sender>>

dfnsVars == <<custody, rowVars, session, keyUsed, verdict, completed, mover, hook, reports, halts>>

Final == {"Executed", "Failed"}

HookStep == {"idle", "mark", "look", "note", "find", "settle", "read", "save", "tell"}

SenderStep == {"idle", "submit", "retry", "row", "check", "move"}

Sent == {"PENDING", "PENDING_DISPATCH", "FAILED", "EXHAUSTED"}

DfnsTypeOK ==
    /\ custody \in {"none", "PENDING", "COMPLETED", "FAILED"}
    /\ payout \in {"CREATED", "PENDING_DISPATCH", "PENDING", "CONFIRMED", "FAILED"}
    /\ linked \in BOOLEAN
    /\ gaveUp \in BOOLEAN
    /\ session \in {"DELIVERY_PENDING", "COMPLETED", "FAILED"}
    /\ keyUsed \in BOOLEAN
    /\ verdict \in {"none", "asked"} \cup Final
    /\ completed \in Nat
    /\ mover \in [Movers -> {"idle", "ask", "create", "done"}]
    /\ hook \in [Hooks -> [at: HookStep, status: {"Broadcasted"} \cup Final]]
    /\ sender \in [Senders -> [at: SenderStep, result: Sent]]
    /\ reports \in 0..MaxReports
    /\ halts \in 0..MaxHalts

DfnsInit ==
    /\ custody = "none"
    /\ payout = "CREATED"
    /\ linked = FALSE
    /\ gaveUp = FALSE
    /\ session = "DELIVERY_PENDING"
    /\ keyUsed = FALSE
    /\ verdict = "none"
    /\ completed = 0
    /\ mover = [m \in Movers |-> "idle"]
    /\ hook = [h \in Hooks |-> [at |-> "idle", status |-> "Broadcasted"]]
    /\ sender = [s \in Senders |-> [at |-> "submit", result |-> "PENDING"]]
    /\ reports = 0
    /\ halts = 0

-----------------------------------------------------------------------------
(* requestCustodyMove. *)

Halt == halts < MaxHalts /\ halts' = halts + 1

Moves(m, label) == mover' = [mover EXCEPT ![m] = label]

LookUp(m) ==
    /\ mover[m] = "idle"
    /\ Moves(m, IF custody = "none" THEN "ask" ELSE "done")
    /\ UNCHANGED <<custody, rowVars, session, keyUsed, verdict, completed, hook, reports, halts>>

(* requestSignPsbt; DFNS takes the same externalId for the same transfer.   *)
AskDfns(m) ==
    /\ mover[m] = "ask"
    /\ \/ Moves(m, "create") /\ verdict' = (IF verdict = "none" THEN "asked" ELSE verdict)
          /\ UNCHANGED halts
       \/ Moves(m, "idle") /\ Halt /\ UNCHANGED verdict
    /\ UNCHANGED <<custody, rowVars, session, keyUsed, completed, hook, reports>>

(* externalId is unique: the slower of two creates is refused. *)
CreateRequest(m) ==
    /\ mover[m] = "create"
    /\ \/ custody = "none" /\ custody' = "PENDING" /\ Moves(m, "done") /\ UNCHANGED halts
       \/ custody # "none" /\ Moves(m, "idle") /\ UNCHANGED <<custody, halts>>
       \/ Moves(m, "idle") /\ Halt /\ UNCHANGED custody
    /\ UNCHANGED <<rowVars, session, keyUsed, verdict, completed, hook, reports>>

(* External: the transfer is carried out or refused, once. *)
Decide ==
    /\ verdict = "asked"
    /\ verdict' \in Final
    /\ UNCHANGED <<custody, rowVars, session, keyUsed, completed, mover, hook, reports, halts>>

-----------------------------------------------------------------------------
(* The webhook. *)

In(h, label) == hook[h].at = label

Turn(h, label) == hook' = [hook EXCEPT ![h].at = label]

(* A signed report with an externalId: of the outcome, or of progress.     *)
Report(h) ==
    /\ In(h, "idle")
    /\ verdict # "none"
    /\ reports < MaxReports
    /\ reports' = reports + 1
    /\ \E status \in {"Broadcasted"} \cup ({verdict} \cap Final) :
         hook' = [hook EXCEPT ![h] = [at |-> "mark", status |-> status]]
    /\ UNCHANGED <<custody, rowVars, session, keyUsed, verdict, completed, mover, halts>>

(* An insert that overlooks the conflict. *)
MarkKeyAnyway(h) ==
    /\ In(h, "mark")
    /\ Turn(h, "look")
    /\ keyUsed' = TRUE
    /\ UNCHANGED <<custody, rowVars, session, verdict, completed, mover, reports, halts>>

(* markProcessed: whatever this report turns out to be, it was the last.    *)
MarkKey(h) ==
    /\ In(h, "mark")
    /\ IF keyUsed THEN Turn(h, "idle") ELSE Turn(h, "look")
    /\ keyUsed' = TRUE
    /\ UNCHANGED <<custody, rowVars, session, verdict, completed, mover, reports, halts>>

(* An unknown request is a 404, a report of progress needs no action. *)
Look(h) ==
    /\ In(h, "look")
    /\ Turn(h, IF custody = "none" \/ hook[h].status \notin Final THEN "idle" ELSE "note")
    /\ UNCHANGED <<custody, rowVars, session, keyUsed, verdict, completed, mover, reports, halts>>

NoteRequest(h) ==
    /\ In(h, "note")
    /\ custody' = IF hook[h].status = "Executed" THEN "COMPLETED" ELSE "FAILED"
    /\ Turn(h, "find")
    /\ UNCHANGED <<rowVars, session, keyUsed, verdict, completed, mover, reports, halts>>

(* No payout has this externalId yet: nothing more is done. handleSuccess   *)
(* leaves a confirmed payout alone, handleFailure looks at nothing.         *)
FindPayout(h) ==
    /\ In(h, "find")
    /\ Turn(h, IF ~linked \/ (hook[h].status = "Executed" /\ payout = "CONFIRMED")
                 THEN "idle" ELSE "settle")
    /\ UNCHANGED <<custody, rowVars, session, keyUsed, verdict, completed, mover, reports, halts>>

SettlePayout(h) ==
    /\ In(h, "settle")
    /\ payout' = IF hook[h].status = "Executed" THEN "CONFIRMED" ELSE "FAILED"
    /\ Turn(h, "read")
    /\ UNCHANGED <<custody, linked, gaveUp, sender, session, keyUsed, verdict, completed, mover,
                   reports, halts>>

(* onDeliveryConfirmed and onDeliveryFailed, listening to the emitted event; *)
(* what transitionState reads after them decides.                          *)
ReadDelivery(h) ==
    /\ In(h, "read")
    /\ Turn(h, IF session = "DELIVERY_PENDING" THEN "save" ELSE "idle")
    /\ UNCHANGED <<custody, rowVars, session, keyUsed, verdict, completed, mover, reports, halts>>

SaveDelivery(h) ==
    /\ In(h, "save")
    /\ IF hook[h].status = "Executed"
         THEN session' = "COMPLETED" /\ Turn(h, "tell")
         ELSE session' = "FAILED" /\ Turn(h, "idle")
    /\ UNCHANGED <<custody, rowVars, keyUsed, verdict, completed, mover, reports, halts>>

Announce(h) ==
    /\ In(h, "tell")
    /\ completed' = completed + 1
    /\ Turn(h, "idle")
    /\ UNCHANGED <<custody, rowVars, session, keyUsed, verdict, mover, reports, halts>>

(* A query fails, or the process dies: the rest of the handler is lost.     *)
Abandon(h) ==
    /\ ~In(h, "idle")
    /\ Halt
    /\ Turn(h, "idle")
    /\ UNCHANGED <<custody, rowVars, session, keyUsed, verdict, completed, mover, reports>>

-----------------------------------------------------------------------------
(* The other writers of the payout row. *)

SendsAs(s, label, result) == sender' = [sender EXCEPT ![s] = [at |-> label, result |-> result]]

Retry(s) ==
    /\ sender[s].at = "idle"
    /\ payout = "PENDING_DISPATCH" /\ session = "DELIVERY_PENDING"
    /\ SendsAs(s, "retry", "PENDING")
    /\ UNCHANGED <<custody, payout, linked, gaveUp, session, keyUsed, verdict, completed, mover,
                   hook, reports, halts>>

(* submitPayout: taken, to be tried again, or given up.  A write of the row  *)
(* that fails after it goes the way of a submission that did, as permanent. *)
Submit(s) ==
    /\ sender[s].at \in {"submit", "retry"}
    /\ \/ SendsAs(s, "row", "PENDING") /\ UNCHANGED halts
       \/ \E result \in {"PENDING_DISPATCH", "EXHAUSTED"} : SendsAs(s, "row", result) /\ Halt
       \/ sender[s].at = "submit" /\ SendsAs(s, "row", "FAILED") /\ Halt
    /\ UNCHANGED <<custody, payout, linked, gaveUp, session, keyUsed, verdict, completed, mover,
                   hook, reports>>

(* Whatever the row says by now.  MANUAL_REVIEW, where an exhausted payout  *)
(* is to go, is not open to a session that awaits delivery.                *)
WritePayout(s) ==
    LET result == sender[s].result IN
    /\ sender[s].at = "row"
    /\ payout' = IF result = "EXHAUSTED" THEN "FAILED" ELSE result
    /\ linked' = TRUE
    /\ gaveUp' = (gaveUp \/ result \in {"FAILED", "EXHAUSTED"})
    /\ SendsAs(s, IF result = "FAILED" THEN "check" ELSE "idle", result)
    /\ UNCHANGED <<custody, session, keyUsed, verdict, completed, mover, hook, reports, halts>>

CheckSession(s) ==
    /\ sender[s].at = "check"
    /\ SendsAs(s, IF session = "DELIVERY_PENDING" THEN "move" ELSE "idle", "FAILED")
    /\ UNCHANGED <<custody, payout, linked, gaveUp, session, keyUsed, verdict, completed, mover,
                   hook, reports, halts>>

FailSession(s) ==
    /\ sender[s].at = "move"
    /\ session' = "FAILED"
    /\ SendsAs(s, "idle", "FAILED")
    /\ UNCHANGED <<custody, payout, linked, gaveUp, keyUsed, verdict, completed, mover, hook,
                   reports, halts>>

BreakOff(s) ==
    /\ sender[s].at # "idle"
    /\ Halt
    /\ SendsAs(s, "idle", "PENDING")
    /\ UNCHANGED <<custody, payout, linked, gaveUp, session, keyUsed, verdict, completed, mover,
                   hook, reports>>

DfnsNext ==
    \/ \E m \in Movers : LookUp(m) \/ AskDfns(m) \/ CreateRequest(m)
    \/ Decide
    \/ \E h \in Hooks :
         \/ Report(h) \/ MarkKey(h) \/ Look(h) \/ NoteRequest(h) \/ FindPayout(h)
         \/ SettlePayout(h) \/ ReadDelivery(h) \/ SaveDelivery(h) \/ Announce(h) \/ Abandon(h)
    \/ \E s \in Senders :
         \/ Retry(s) \/ Submit(s) \/ WritePayout(s) \/ CheckSession(s) \/ FailSession(s) \/ BreakOff(s)

DfnsSpec == DfnsInit /\ [][DfnsNext]_dfnsVars

-----------------------------------------------------------------------------
(* Properties. *)

(* What DFNS decided is what the customer's side is told, whatever the      *)
(* order: repeated, early and concurrent reports, intermediate ones among   *)
(* them, beside handlers that still submit the payout.  Neither the row of  *)
(* the request, nor the payout, nor the session reports a transfer that was *)
(* refused as made; a session fails only if DFNS or a sender gave the       *)
(* transfer up; the customer is told of a completion once, and of none that *)
(* is taken back but by a sender that gave up.  That the payout row agrees  *)
(* with the session is not promised: a report that comes before the row has *)
(* its externalId reaches neither, and a sender's write comes over any      *)
(* status, CONFIRMED included.                                             *)
OutcomesAgree ==
    /\ custody = "COMPLETED" \/ payout = "CONFIRMED" \/ session = "COMPLETED" => verdict = "Executed"
    /\ custody = "FAILED" => verdict = "Failed"
    /\ session = "FAILED" => verdict = "Failed" \/ gaveUp
    /\ completed > 0 => verdict = "Executed" /\ (session = "COMPLETED" \/ gaveUp)
    /\ completed <= 1

=============================================================================
