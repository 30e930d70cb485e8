----------------------------- MODULE Messaging -----------------------------
(***************************************************************************)
(* The chat webhook pipeline: MessagingOrchestratorService with its        *)
(* persistence, the two providers and the frame of the chat flow around    *)
(* the conversation.  A delivery of a message and a tick of the retry cron *)
(* are workers over the same messagingEvent rows; the cron claims nothing, *)
(* so ticks overlap, in one process or in several.  What a message does to *)
(* a conversation is ChatFlow's subject; here it is handled, or it is not. *)
(***************************************************************************)
EXTENDS Naturals, FiniteSets

CONSTANTS
    Workers,       \* webhook requests and cron ticks that may be at work at once
    Messages,      \* messages customers send
    Taps,          \* those of them that are taps on a Telegram button
    MaxRetries,    \* MESSAGING_MAX_RETRIES
    MaxDeliveries, \* bound: how often the providers deliver messages
    MaxTroubles    \* bound on calls that fail and workers that die

ASSUME MessagingAssumption ==
    /\ Taps \subseteq Messages
    /\ "none" \notin Messages
    /\ {MaxRetries, MaxDeliveries, MaxTroubles} \subseteq Nat

VARIABLES
    (* rows *)
    event,      \* messagingEvent by message: its status and retryCount
    attempts,   \* how many messagingDeliveryAttempt rows a message has
    letters,    \* how many messagingDeadLetter rows
    recorded,   \* messages with an inbound whatsAppMessageEvent row
    (* what became of a message *)
    handled,    \* how often the conversation took it in
    answered,   \* messages whose sender got a reply to what they wrote, or the limiter's
    unsent,     \* history: a call failed behind the inbound row and before the reply
    orphaned,   \* history: a worker of the message died, or could not note an error
    (* workers *)
    worker,     \* where each is, its message, its locals
    (* budgets *)
    deliveries, troubles

rows == <<event, attempts, letters, recorded>>
fate == <<handled, answered, unsent, orphaned>>
vars == <<rows, fate, worker, deliveries, troubles>>

Status == {"none", "RECEIVED", "FAILED", "PROCESSED", "DEAD_LETTER"}

ErrorKind == {"none", "transient", "permanent"}

(* retries is the retryCount the worker read; todo a tick's list of due rows. *)
Worker == [at: {"idle", "store", "ack", "check", "record", "handle", "send", "note", "mark",
                "attempt", "fail", "bury", "next"},
           msg: Messages \cup {"none"}, retries: Nat, error: ErrorKind,
           limited: BOOLEAN, tick: BOOLEAN, todo: SUBSET Messages]

Idle == [at |-> "idle", msg |-> "none", retries |-> 0, error |-> "none",
         limited |-> FALSE, tick |-> FALSE, todo |-> {}]

TypeOK ==
    /\ event \in [Messages -> [status: Status, retries: Nat]]
    /\ attempts \in [Messages -> Nat]
    /\ letters \in [Messages -> Nat]
    /\ handled \in [Messages -> Nat]
    /\ recorded \subseteq Messages
    /\ answered \subseteq Messages
    /\ unsent \subseteq Messages
    /\ orphaned \subseteq Messages
    /\ worker \in [Workers -> Worker]
    /\ deliveries \in 0..MaxDeliveries
    /\ troubles \in 0..MaxTroubles

Init ==
    /\ event = [m \in Messages |-> [status |-> "none", retries |-> 0]]
    /\ attempts = [m \in Messages |-> 0]
    /\ letters = [m \in Messages |-> 0]
    /\ handled = [m \in Messages |-> 0]
    /\ recorded = {}
    /\ answered = {}
    /\ unsent = {}
    /\ orphaned = {}
    /\ worker = [w \in Workers |-> Idle]
    /\ deliveries = 0
    /\ troubles = 0

-----------------------------------------------------------------------------
(* Control flow of a worker. *)

At(w, label) == worker[w].at = label

Goto(w, label) == worker' = [worker EXCEPT ![w].at = label]

(* A request ends; a tick goes on with its list. *)
Done(w) ==
    worker' = [worker EXCEPT ![w] =
                 IF worker[w].tick
                   THEN [Idle EXCEPT !.at = "next", !.tick = TRUE, !.todo = worker[w].todo]
                   ELSE Idle]

(* The catch block.  A request for a tap also sends a line of excuse, whose *)
(* own failure is swallowed: no state is kept of it.                       *)
Catch(w, kind) == worker' = [worker EXCEPT ![w].error = kind, ![w].at = "attempt"]

Calm == UNCHANGED <<deliveries, troubles>>

Trouble == troubles < MaxTroubles /\ troubles' = troubles + 1

(* A tick rebuilds the message from the stored payload.  Its body is the    *)
(* payload's field text, which is an object with one provider and missing   *)
(* with the other, so a text loses its words; a tap is understood by its    *)
(* buttonPayload, which the payload keeps.                                 *)
AsWritten(w) == worker[w].tick => worker[w].msg \in Taps

-----------------------------------------------------------------------------
(* The webhook. *)

(* The provider's POST with a valid signature and one text or tap in it.   *)
Deliver(w, m) ==
    /\ At(w, "idle")
    /\ deliveries < MaxDeliveries
    /\ deliveries' = deliveries + 1
    /\ worker' = [worker EXCEPT ![w] = [Idle EXCEPT !.at = "store", !.msg = m]]
    /\ UNCHANGED <<rows, fate, troubles>>

(* storeInboundEvent: the unique key turns a second delivery away. *)
Store(w) ==
    /\ At(w, "store")
    /\ LET m == worker[w].msg IN
       \/ /\ event[m].status = "none"
          /\ event' = [event EXCEPT ![m].status = "RECEIVED"]
          /\ Goto(w, "ack")
       \/ /\ event[m].status # "none"
          /\ Done(w)
          /\ UNCHANGED event
    /\ UNCHANGED <<attempts, letters, recorded, fate>>
    /\ Calm

(* The request fails with a 500 and leaves nothing behind. *)
StoreFails(w) ==
    /\ At(w, "store")
    /\ Trouble
    /\ Done(w)
    /\ UNCHANGED <<rows, fate, deliveries>>

(* acknowledgeInboundEvent: answerCallbackQuery for a tap, nothing otherwise. *)
Acknowledge(w) ==
    /\ At(w, "ack")
    /\ \/ Goto(w, "check") /\ UNCHANGED troubles
       \/ worker[w].msg \in Taps /\ Trouble /\ \E kind \in {"transient", "permanent"} : Catch(w, kind)
    /\ UNCHANGED <<rows, fate, deliveries>>

-----------------------------------------------------------------------------
(* ChatConversionFlowService.handleInboundMessage. *)

CheckSilently(w) ==
    /\ At(w, "check")
    /\ Goto(w, "mark") \/ Goto(w, "record")
    /\ UNCHANGED <<rows, fate>>
    /\ Calm

(* isDuplicate looks for the inbound row; the limiter is in memory and has  *)
(* seen what else the sender wrote in the last minute.                     *)
Check(w) ==
    /\ At(w, "check")
    /\ IF worker[w].msg \in recorded
         THEN Goto(w, "mark")
         ELSE \E limited \in BOOLEAN :
                worker' = [worker EXCEPT ![w].limited = limited,
                                         ![w].at = IF limited THEN "send" ELSE "record"]
    /\ UNCHANGED <<rows, fate>>
    /\ Calm

RecordAnyway(w) ==
    /\ At(w, "record")
    /\ recorded' = recorded \cup {worker[w].msg}
    /\ Goto(w, "handle")
    /\ UNCHANGED <<event, attempts, letters, fate>>
    /\ Calm

(* The inbound row is unique by providerMessageId: of two workers that both *)
(* found no duplicate, one gets an error here.                             *)
Record(w) ==
    /\ At(w, "record")
    /\ LET m == worker[w].msg IN
       \/ m \notin recorded /\ recorded' = recorded \cup {m} /\ Goto(w, "handle")
       \/ m \in recorded /\ Catch(w, "transient") /\ UNCHANGED recorded
    /\ UNCHANGED <<event, attempts, letters, fate>>
    /\ Calm

(* Expiry, global command or flow handler: see ChatFlow. *)
Handle(w) ==
    /\ At(w, "handle")
    /\ handled' = [handled EXCEPT ![worker[w].msg] = @ + 1]
    /\ Goto(w, "send")
    /\ UNCHANGED <<rows, answered, unsent, orphaned>>
    /\ Calm

(* The limiter's line is the same for any message. *)
SendReply(w) ==
    /\ At(w, "send")
    /\ answered' = IF worker[w].limited \/ AsWritten(w)
                     THEN answered \cup {worker[w].msg} ELSE answered
    /\ Goto(w, "note")
    /\ UNCHANGED <<rows, handled, unsent, orphaned>>
    /\ Calm

(* The outbound row, template dispatch and tracking link rows. *)
Note(w) ==
    /\ At(w, "note")
    /\ Goto(w, "mark")
    /\ UNCHANGED <<rows, fate>>
    /\ Calm

(* A call of the flow fails: the database's errors count as transient, the  *)
(* provider's as its status says.                                          *)
FlowFails(w) ==
    /\ \E label \in {"check", "record", "handle", "send", "note", "mark"} : At(w, label)
    /\ Trouble
    /\ \E kind \in {"transient", "permanent"} :
         /\ kind = "permanent" => At(w, "send")
         /\ Catch(w, kind)
    /\ unsent' = IF At(w, "handle") \/ (At(w, "send") /\ ~worker[w].limited)
                   THEN unsent \cup {worker[w].msg} ELSE unsent
    /\ UNCHANGED <<rows, handled, answered, orphaned, deliveries>>

MarkProcessed(w) ==
    /\ At(w, "mark")
    /\ event' = [event EXCEPT ![worker[w].msg].status = "PROCESSED"]
    /\ Done(w)
    /\ UNCHANGED <<attempts, letters, recorded, fate>>
    /\ Calm

-----------------------------------------------------------------------------
(* handleProcessingError. *)

Count(w) == worker[w].retries + 1

ShouldRetry(w) == worker[w].error # "permanent" /\ Count(w) <= MaxRetries

CreateDeliveryAttempt(w) ==
    /\ At(w, "attempt")
    /\ attempts' = [attempts EXCEPT ![worker[w].msg] = @ + 1]
    /\ Goto(w, "fail")
    /\ UNCHANGED <<event, letters, recorded, fate>>
    /\ Calm

MarkFailedOnly(w) ==
    /\ At(w, "fail")
    /\ event' = [event EXCEPT ![worker[w].msg] =
                   [status |-> IF ShouldRetry(w) THEN "FAILED" ELSE "DEAD_LETTER",
                    retries |-> Count(w)]]
    /\ Done(w)
    /\ UNCHANGED <<attempts, letters, recorded, fate>>
    /\ Calm

MarkFailed(w) ==
    /\ At(w, "fail")
    /\ event' = [event EXCEPT ![worker[w].msg] =
                   [status |-> IF ShouldRetry(w) THEN "FAILED" ELSE "DEAD_LETTER",
                    retries |-> Count(w)]]
    /\ IF ShouldRetry(w) THEN Done(w) ELSE Goto(w, "bury")
    /\ UNCHANGED <<attempts, letters, recorded, fate>>
    /\ Calm

CreateDeadLetter(w) ==
    /\ At(w, "bury")
    /\ letters' = [letters EXCEPT ![worker[w].msg] = @ + 1]
    /\ Done(w)
    /\ UNCHANGED <<event, attempts, recorded, fate>>
    /\ Calm

(* An error while noting an error ends the request, or the whole tick. *)
NotingFails(w) ==
    /\ At(w, "attempt") \/ At(w, "fail") \/ At(w, "bury")
    /\ Trouble
    /\ orphaned' = orphaned \cup {worker[w].msg}
    /\ worker' = [worker EXCEPT ![w] = Idle]
    /\ UNCHANGED <<rows, handled, answered, unsent, deliveries>>

-----------------------------------------------------------------------------
(* processRetries. *)

(* findDueRetries: any FAILED rows whose delay has passed. *)
Tick(w) ==
    /\ At(w, "idle")
    /\ \E due \in SUBSET {m \in Messages : event[m].status = "FAILED"} :
         /\ due # {}
         /\ worker' = [worker EXCEPT ![w] = [Idle EXCEPT !.at = "next", !.tick = TRUE,
                                                         !.todo = due]]
    /\ UNCHANGED <<rows, fate>>
    /\ Calm

TakeNextReceived(w) ==
    /\ At(w, "next")
    /\ \/ worker[w].todo = {} /\ worker' = [worker EXCEPT ![w] = Idle]
       \/ \E m \in worker[w].todo :
            worker' = [worker EXCEPT ![w].at = IF event[m].status = "RECEIVED" THEN "check" ELSE "next",
                                     ![w].msg = m, ![w].todo = @ \ {m}]
    /\ UNCHANGED <<rows, fate>>
    /\ Calm

(* The row is read again for its retryCount and its payload; its status is  *)
(* not looked at.  What of the message gets through is AsWritten's matter.  *)
TakeNext(w) ==
    /\ At(w, "next")
    /\ \/ worker[w].todo = {} /\ worker' = [worker EXCEPT ![w] = Idle]
       \/ \E m \in worker[w].todo :
            worker' = [worker EXCEPT ![w].at = "check", ![w].msg = m,
                                     ![w].retries = event[m].retries, ![w].todo = @ \ {m}]
    /\ UNCHANGED <<rows, fate>>
    /\ Calm

(* The process of a worker ends; a row it had only received is nobody's.   *)
Crash(w) ==
    /\ worker[w].msg # "none"
    /\ Trouble
    /\ orphaned' = orphaned \cup {worker[w].msg}
    /\ unsent' = IF At(w, "handle") \/ (At(w, "send") /\ ~worker[w].limited)
                   THEN unsent \cup {worker[w].msg} ELSE unsent
    /\ worker' = [worker EXCEPT ![w] = Idle]
    /\ UNCHANGED <<rows, handled, answered, deliveries>>

Work(w) ==
    \/ Store(w) \/ StoreFails(w) \/ Acknowledge(w)
    \/ Check(w) \/ Record(w) \/ Handle(w) \/ SendReply(w) \/ Note(w) \/ FlowFails(w)
    \/ MarkProcessed(w) \/ CreateDeliveryAttempt(w) \/ MarkFailed(w)
    \/ CreateDeadLetter(w) \/ NotingFails(w) \/ TakeNext(w)

Next ==
    \E w \in Workers :
        Work(w) \/ Tick(w) \/ Crash(w) \/ \E m \in Messages : Deliver(w, m)

Spec == Init /\ [][Next]_vars

(* Handlers go on, and the cron finds every row that stays due.            *)
Fairness ==
    /\ \A w \in Workers : WF_vars(Work(w))
    /\ \A m \in Messages : SF_vars(\E w \in Workers : Tick(w) /\ m \in worker'[w].todo)

FairSpec == Spec /\ Fairness

-----------------------------------------------------------------------------
(* Properties. *)

(* However often a message is delivered, retried and retried by two ticks   *)
(* at once, the conversation takes it in once.                             *)
HandledOnce == \A m \in Messages : handled[m] <= 1

(* A text that failed once reaches the conversation, if at all, garbled. *)
Garbled(m) == m \notin Taps /\ attempts[m] > 0

(* Whose event is marked processed has had a reply to what they wrote, or   *)
(* gets it from a worker that is at it, however deliveries, failed calls    *)
(* and overlapping ticks cross: a tap that failed early is answered by its  *)
(* retry.  Two losses the code has are named.  A text that failed is        *)
(* Garbled; and of an unsent message, whose worker failed or died between   *)
(* the inbound row and the reply, the retry finds the row and takes the     *)
(* message for a duplicate.                                                *)
ProcessedIsAnswered ==
    \A m \in Messages : event[m].status = "PROCESSED" =>
        \/ m \in answered \cup unsent
        \/ Garbled(m)
        \/ \E w \in Workers : worker[w].msg = m /\ (At(w, "handle") \/ At(w, "send"))

(* An event's row tells where it is.  A received event is in a worker's     *)
(* hands, unless the worker died or could not note its error: no cron looks *)
(* for such rows.  A failed one has a retry left, and every retry counted   *)
(* in a row has its attempt row, also when two ticks count at once.  A      *)
(* dead one has its letter, or a worker that is about to file it.           *)
EventAccounted ==
    \A m \in Messages :
        LET status == event[m].status
            held == \E w \in Workers : worker[w].msg = m
            buried == letters[m] > 0 \/ \E w \in Workers : worker[w].msg = m /\ At(w, "bury")
        IN  /\ status = "RECEIVED" /\ m \notin orphaned => held
            /\ status = "FAILED" => event[m].retries \in 1..MaxRetries
            /\ event[m].retries <= attempts[m]
            /\ status = "DEAD_LETTER" /\ m \notin orphaned => buried

(* An event that failed is processed or given up in the end, whatever dies. *)
FailedIsResolved ==
    \A m \in Messages :
        event[m].status = "FAILED" ~> event[m].status \in {"PROCESSED", "DEAD_LETTER"}

=============================================================================
