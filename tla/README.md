# Koya in TLA+

Koya sells bitcoin for Kenyan shillings. A customer takes a quote, identifies
himself, names a bitcoin address, pays through an M-Pesa STK push, and gets the
bitcoin from a payout backend (Bria, Bria with DFNS signing, or a mock). This
directory holds models of the parts of that program whose correctness depends
on interleaving, failure and order; TLC configurations that check them on small
instances; and proofs for every size of instance. Source paths below are
relative to `src/apps/api/src/` unless they start elsewhere.

## The system

| Part | State it keeps | Operations | What is hard |
|---|---|---|---|
| Session state machine (`conversion/session.service.ts`, `risk/risk.service.ts`, `src/libs/types/src/lib/conversion.ts`) | `conversionSession.currentState`, the audit rows `conversionStateEvent` | `createSession`, `transitionState` | the state is read, validated and written with awaits in between; nothing locks the row |
| Onboarding (`conversion/conversion.service.ts`, `quote.service.ts`, `kyc/*`) | quote status, guest profiles, payout instruction | `createQuote`, `createSession`, `submitIdentity`, `submitPayoutDetails` | quote used twice, limits read by two sessions, expiry between read and write |
| Payment intake (`payments/*`, `webhooks/processed-webhook.service.ts`) | `paymentInstruction`, `processed_webhooks`, `daraja_requests` | STK push, Daraja callback, manual reference | callbacks early, repeated, concurrent; a second push; two writers of one decision |
| Settlement (`conversion/conversion.service.ts`) | session, payout instruction, swap | `processPaymentConfirmation` from polls, events and manual references | the same handler twice; errors and crashes between swap, submission and save |
| Dispatch retry (`conversion/btc-payout-dispatch-retry.service.ts`) | `dispatchAttempts`, `nextDispatchAt` | `tick`, `retryOne` | two instances retry the same row; attempt counters read long before they are written |
| Bria event consumer (`conversion/bria-event-consumer.service.ts`, `redis-cursor.store.ts`) | subscription, promise chain, cursor in memory, Redis and a file | subscribe, handle, reconnect, commit | chains that outlive their subscription; a crash between two updates; events before the row is linked |
| Payout backends (`providers/*-btc-delivery.provider.ts`) | the payout at the provider | `submitPayout`, `classifyError` | answers lost after acceptance |
| PSBT signing (`conversion/psbt-signing.service.ts`, `circuit-breaker.ts`) | `payoutPsbt.psbtStatus`, breaker keys in Redis | sign, submit, mark settled; record failure and success | open circuit acknowledges the event; crash between "signed" and submission |
| DFNS webhook (`dfns/*`) | `dfnsRequest`, `processed_webhooks` | success, failure | the deduplication key is used up by intermediate statuses |
| Messaging (`messaging/*`) | `messagingEvent`, attempts, dead letters, the inbound row | webhook, `processRetries` | overlapping ticks, retried replies, events stored and never processed |
| Chat flow (`whatsapp/*`, `messaging/chat-conversion-flow.service.ts`) | `whatsAppConversation` | one handler per step, global commands, the completion notice | decides on a snapshot, writes in several calls after the order has moved |
| Rates (`rates/*`), cache (`cache/*`), throttling (`security/*`) | Redis keys | read through, aggregate, derive, fall back; count | derived rates look newer than their legs; a counter without a lifetime |
| Deposit addresses, Bria set-up, retention, reconciliation | rows of their own | check-then-create, archive | duplicates, jobs racing with the flow |
| Web wizard (`src/apps/web/components/conversion/*`) | the step, ids in `sessionStorage`, polls | one request per step, polling, countdowns, Back, reset | answers and intervals that outlive the step that started them |
| Bria and DFNS clients, Terraform | — | — | they justify repeated requests, lost answers and several instances (`src/terraform/aws/ecs_autoscaling.tf:28` runs at least two) |

The parts interact through database rows and three in-process events. Payment
intake decides `paymentInstruction.status` and emits `payment.confirmed`;
settlement reads the row (never the event's content) and moves the session;
the backend's outcome comes back through the event consumer (or the DFNS
webhook), which updates the payout row and then the session; `conversion.completed`
goes to the chat flow. No handler takes a lock and no two statements share a
transaction, so any two handlers interleave at every `await`, in one process or
in two.

`PROJECT.json` lists the components with what is modelled of each, and under
`hazards` every place where this bites, with the properties about it.

## The modules

**`ConversionStates`** is `VALID_STATE_TRANSITIONS` and `validateTransition` as
data, all fifteen states.

**`ConversionPromise`** is the abstract specification of settling one
conversion: credit, convert, send once, resolve, tell; each only after the one
before, nothing twice, nothing undone.

**`Settlement`** is one conversion from `PAYMENT_PENDING` to its end. Its state
is the rows (`session`, `trail`, `payment`, `payout`), the outside (`swaps`,
`sent`, `provider`, `told`), the consumers whose cursor has passed the last
event (`acked`), and for every handler the await it is at with its locals.

| Code | Actions |
|---|---|
| `processPaymentConfirmation` | `ReadSession`, `ReadPayment`, two passes through `Read`/`Write`/`RecordEvent`, `Swap`, another pass, `ReadPayout`, `SubmitAccepted` or `SubmitFails`, `Save`, `Emit` |
| its catch block | `FailRow`, `Exhaust`, `Requeue`; entered by `SubmitFails`, by `DatabaseError`, and by a rejected transition inside the try |
| `SessionService.transitionState` | `Read` (and validate), `Write`, `RecordEvent` |
| `tick` and `retryOne` | `Tick`, then the submission actions |
| `handlePayoutSettled`, `handlePayoutCancelled` | `Deliver`, `MarkPayout`, `ReadOutcomeSession`, a transition, `Emit` |
| Bria | `BriaResolves`; `Accept` finds an existing payout by its external id |
| crash, or an error nobody catches | `Abandon` |

A *worker* is one run of a handler. `Requests` are the handlers that may run
`processPaymentConfirmation`, `Tickers` the instances' retry loops (each has
its own `processing` flag, so one run at a time), `Consumers` the instances'
event chains. `Catch` distinguishes the two try blocks: an error that is no
`BriaClientError` is permanent, which for a request means the payout row and
the session become FAILED, and for a retry means the exhausted branch. That
branch asks for `DELIVERY_PENDING -> MANUAL_REVIEW`; `Read` rejects it, as the
table does. A submission may fail with either kind of error and have been
accepted all the same: the client repeats a timed-out try within the call
(`src/libs/bria-adapter/src/bria-client.service.ts:328`), and an answer of
`ALREADY_EXISTS` is looked up by another call that may fail.

**`PaymentIntake`** is the payment of one conversion: pushes (`Initiate`, `Push`,
`Create`), callbacks (`Receive`, `MarkProcessed`, `Audit`, `Find`, `Apply`,
`StoreReceipt`, `Emit`), manual references (`Enter`, `Lookup`, `AcceptReference`),
and the customer's `Answer`. A push names its checkoutRequestId. The reports of
the pushes in `Bare` have no receipt in them; `StoreReceipt` then stores nothing
and the payment is announced all the same. `MoveOn` is what the rest of the system
does to the session.

**`PaidConversion`** composes the two by INSTANCE over the rows they share:
`payment` of Settlement is `row.status` of PaymentIntake, `open` of
PaymentIntake is `session = "PAYMENT_PENDING"`. Each component's assumption
about the other (`PaymentWritten`, `MoveOn`) is what `ComponentsAgree` checks:
the composition is a behaviour of both.

**`EventConsumer`** is one instance of the event consumer: events as sequence
numbers, the promise chains (a new one per subscription, the old one working
off its queue), the reconnect timer, the cursor in memory, in Redis and in the
file. The stream does not wait for a handler: up to `Burst` events are queued on
a chain, and when the one at its head fails, those behind it are still handled
and their sequences stored. `overtaken` remembers the events this happens to.
`Handle` stands for all of `processEvent`; what that does to session and
payout is in Settlement, what it does to PSBTs in PsbtSigning.

**`PsbtSigning`** is `handlePayoutCommitted` and `markSettled`, await by await:
the payout looked up, the circuit, the row, the batch at Bria, DFNS, the
submission, the catch block with its own failing calls. Every query may fail, the
catch block's too; `skipped` remembers the PSBTs passed over (no row names the
payout, the circuit is open, the batch has no unsigned PSBT) and those whose
failure the catch block could not record. **`SigningConsumer`**
puts these handlers at the heads of EventConsumer's chains: a return commits the
event, an error drops the subscription, a crash ends all of them. Its constant
`Script` says which event names which PSBT.

**`Onboarding`** is the HTTP surface before the payment: `createQuote`,
`createSession`, `submitIdentity` (compliance, guest profile, limits),
`submitPayoutDetails`, `initiatePayment`, `getStatus`. A handler is one request;
`LapseQuote` and `LapseSession` let an `expiresAt` pass, `MoveOn` is
what payment and settlement do to the row, `Crash` ends a request half way.
`cleared` remembers the document last screened for a session, to compare with
the guest linked to it.

**`GuestJourney`** is the wizard as the client of Onboarding: a tab shows a
step, keeps ids, has at most one request its mounted step waits for, one
interval of that step and perhaps one that a step left behind (`leaked`).
Answers run their callbacks whatever the tab shows by then. A *disturbance* is a
reload, a lost answer, a use of Back, or a crash. `orders` records the orders a
tab has been given.

**`Messaging`** is the webhook pipeline. A worker is a delivery or a tick of the
retry cron: `store`, `ack`, `check` and `record` (the inbound row, whose unique
key is the claim), `handle`, `send`, `note`, `mark`, and for errors `attempt`,
`fail` or `bury`. A tick rebuilds the message from the stored payload, and of a
text it finds no words there (`AsWritten`). What a message does is one step here;
**`ChatFlow`** has it: a handler reads the newest active conversation, decides on
that snapshot, and owes the writes and calls in its `todo`, which other handlers,
the row's TTL and the `conversion.completed` listener interleave with.
`ConversionService`'s calls are single steps there.

Seven smaller modules are parts that share neither row nor key:

| Module | Code | What interleaves |
|---|---|---|
| `Rates` | `RatesService`, its cache, the route builder, `FxProvider`'s built-in rate | overlapping requests over two legs and a derived pair, Redis calls that fail, time as ages |
| `DfnsWebhook` | `requestCustodyMove`, `DfnsController`, `onDeliveryConfirmed`, `onDeliveryFailed`; as other writers of the payout row, the handlers that submit it and the retry ticker | reports of progress and outcome, early, repeated, concurrent, interrupted, before the row has its externalId and beside those who still write it |
| `Throttle` | `RedisThrottlerStorage.increment` | calls of several processes between the counter and its lifetime |
| `Breaker` | `CircuitBreaker` | `recordFailure` and `recordSuccess` Redis call by Redis call |
| `DepositAddress` | `issueDepositAddress` over `callWithRetry` | requests of one reference, lost answers |
| `BriaSetup` | `runFullSetup` | a second operator, calls that fail with or without effect |
| `Retention` | `archiveOldPsbts` | jobs of several instances, a row signed again meanwhile |

**`Operations`** is their sum: `part` is chosen in `Init`, that part moves and the
others rest. One run therefore checks seven modules, each on its own.

The theorems are in **`SettlementProofs`**, **`IntakeProofs`**, **`PaidProofs`** (their
composition), **`MessagingProofs`**, **`SigningProofs`** (the event consumer, then the
signing handlers on its chains), **`JourneyProofs`** (the onboarding requests, then the
wizard as their client), **`ChatProofs`** and **`OperationsProofs`** (its seven parts).
The `MC*` modules give structured constants and symmetry sets their values.

Definitions that no specification uses (`AcceptEvery`, `FindNothing`,
`MarkKeyAnyway`, ...) stand directly before the one they change: each is the code
with one plausible mistake, kept to show that the properties notice it. The
`mutants` of `PROJECT.json` pair them with the properties they break.

## The runs

All runs say `CHECK_DEADLOCK FALSE`: a conversion that has ended, or an event
stream that has been read, really stops.

| Run | Instance | Shows |
|---|---|---|
| `SettlementRace` | 2 requests, 2 retry loops, 1 consumer, Bria; 2 provider faults, 1 database error, 1 crash, lost answers, outcomes before the id is saved | `TypeOK`, `PayoutBacked`, `SwapsBounded`, `CompletedOnlyIfSettled`, `TrailSound`, `DispatchBudget`, and the refinement `KeepsPromise` |
| `IntakeRace` | 2 pushes, one reported without a receipt, 2 concurrent callbacks, 2 manual references, early answers, 1 crash | `DecidedAsAnswered`, `AnnouncedOnce`, `ReceiptIsKept` |
| `PaidRace` | 2 pushes, 2 callbacks, 2 handlers of the confirmed payment, a retry loop, a crash, the mock backend, which pays at once | `SentOnlyIfPaid`, `ComponentsAgree` |
| `PaidLive` | fair; Bria, two event consumers, a fault, 2 attempts, no crash, no early answer | `SentOnlyIfPaid`, `PaidComesToAnEnd`, `SettledIsCompleted` |
| `Signing` | fair; 2 chains, two events queued on a chain; commit and settlement of a payout; three troubles out of 2 failed calls, a passed-over event, a break, an outage and a crash | `CursorNotAhead`, `AcknowledgedIsSubmitted`, `SubmittedOnce`, `EveryEventProcessed` |
| `Journey` | fair; a tab, 2 requests at a time, a quote, 2 sessions, 3 documents (one of a blocked guest), one disturbance | `PayableIsEquipped`, `ScreenedIfUndisturbed`, `WizardNotAhead`, `PausedInOrder`, `CompletedIsShown` |
| `Messages` | fair; 2 workers, a text and a tap, 1 retry, 3 deliveries, 2 troubles | `HandledOnce`, `ProcessedIsAnswered`, `EventAccounted`, `FailedIsResolved` |
| `Chat` | 2 handlers, 2 orders, 2 conversations, both channels, one disturbance | `StepFitsOrder`, `IdentityIsOwn`, `NoticeFindsCustomer` |
| `Operations` | the seven parts one at a time; two or three actors, one to three faults each; the custody transfer with two webhook requests, two reports and two handlers submitting the payout | `RatesAreHonest`, `OutcomesAgree`, `CounterExpires`, `OpenIsEarned`, `OneAddressTold`, `SetupRepeatable`, `ArchivedIsStored` |

Three runs are expected to find a violation; each checks one property that the
repository states and the code does not keep:

| Run | Property | What happens |
|---|---|---|
| `SettlementExhausted` | `ExhaustedIsReviewed` | the transition to manual review is not in the table and throws; the session stays in `DELIVERY_PENDING` |
| `IntakeSecondPush` | `PaidIsCredited` | the second push reaches the phone, its instruction is refused |
| `SigningOvertaken` | `CursorAfterSuccess` | of two queued events the first fails, the second is processed and stores its sequence; the reconnect begins behind the event that was not processed |

**What the properties do not say.** Many are stated under a condition, and
the condition is where the code's guarantee ends. The models show each of the
following if the condition is taken away or the bound raised:

- Two handlers past the `PAYMENT_PENDING` check both execute the swap, and the
  slower writes an earlier state over a later one. Nothing in the code prevents
  it: `SwapsBounded` bounds the swaps by the handlers at work, and no property
  orders the session's states.
- A session may be FAILED while Bria holds its payout: the update of the payout
  row after an accepted submission is inside the try block, where a database
  error counts as permanent, and an accepted submission may itself come back with
  a permanent error. `KeepsPromise` says that the payout is sent and settled once
  nevertheless; that the session then tells of it is not promised.
- A dispatch that competes with the settlement's event writes PENDING over
  CONFIRMED. The properties speak of the session's completion, not of the row.
- A consumer that stops between marking the payout CONFIRMED and completing the
  session skips the payout on replay; with `LostAnswers` on, a payout that
  settles before its id is saved is not found. In both cases `SettledIsCompleted`
  fails, so `PaidLive` has neither.
- That Bria keeps one payout per external id is its promise (`Accept`); no
  property restates it.
- A payment whose report has no receipt is announced without one (`Bare`).
- A callback and a manual reference that both read PENDING both decide the row
  (`DecidedAsAnswered` leaves out typed receipts), and a reference is credited as it was
  typed: `SentOnlyIfPaid` is for payments without manual references (`PaidRace`).
- An event queued behind a failed one commits its sequence past it: the failed
  one is not read again (`overtaken`, which `CursorNotAhead` and
  `EveryEventProcessed` leave out, and `SigningOvertaken` shows).
- A PSBT whose row says `signed` when the process dies counts as done although
  nothing was submitted; so does one whose submission failed when the catch block
  cannot say so, because its Redis call or its own update fails. An open circuit,
  a payout no row names yet and a batch without an unsigned PSBT acknowledge the
  event. `AcknowledgedIsSubmitted` is for a process that lives and PSBTs not in
  `skipped`, which records these. A failure after the submission makes the replay
  submit again (`SubmittedOnce` has no failing calls).
- After a reload or a lost answer a submission the tab knows nothing of can link a
  guest who was not the one screened, and after Back also expire an order that has
  become payable (`Undisturbed`, `InOrder`). A quote that runs out while
  `createSession` is under way lets the tab ask for another: it is then given two
  orders, and an answer that belongs to the first moves the step of the second
  (`OnlyOrder`: the properties speak of a tab's only order). `PayableIsEquipped`
  needs none of this.
- A worker that dies behind the stored event leaves a RECEIVED row no cron looks
  for; one that dies between the inbound row and the reply leaves a message that
  the retry takes for a duplicate (`orphaned` and `unsent` in `Messaging`).
- A text that is retried is rebuilt from a field of the payload that holds an
  object or nothing (`messaging/messaging-orchestrator.service.ts:175`): the
  conversation gets `[object Object]` or an empty body and answers that.
  `ProcessedIsAnswered` names such texts (`Garbled`); a tap keeps its meaning.
- Overlapping messages of one customer decide on the same snapshot
  (`Undisturbed` and `overlaps = 0` in `ChatFlow`).
- An order over the customer's limit stays in screening while the chat goes on
  asking for the e-mail address, which `submitIdentity` refuses every time
  (`conversion/conversion.service.ts:154`, `211`). `StepFitsOrder` names this dead
  end (`TurnedDown`); it says of every other step at rest that the service accepts
  what the chat asks for, and under failing calls only that the chat is not ahead.
- With both of its sources down `FxProvider` answers 129.5, stamped now
  (`rates/providers/fx.provider.ts:93`, `153`). No flag tells: the rate is cached,
  derived from and handed out as a fresh one. `RatesAreHonest` is about prices
  that a provider quoted, and confines made-up rates (`made`) to pairs with such a
  leg (`BuiltIn`). A derived rate with a stale leg is answered and flagged stale,
  although `rates/aggregation/rates.route-builder.ts:39` promises null for it.
- A DFNS report of progress uses up the key the outcome is deduplicated by, and a
  report that comes before the payout row has its externalId is not repeated to
  it: the outcome then reaches neither payout nor session. A handler still
  submitting writes PENDING or FAILED over CONFIRMED, and one that gives up fails
  a session whose transfer was made. `OutcomesAgree` allows these; it demands
  that no side reports what DFNS did not decide, or a completion twice.

**Bounds.** Races between handlers of one kind need two of them; a third adds
no new pair of reads and writes on the rows, which are overwritten whole. Two
attempts are enough for a dispatch to be requeued and then to run out. `PaidRace`
has the mock backend, whose dispatch is over in one step, and no early callbacks, so
that two handlers of the payment and two callbacks fit; the races of the dispatch are
`SettlementRace`'s, early callbacks `IntakeRace`'s.
Faults, database errors, crashes, breaks and outages are budgets
(`MaxFaults`, `MaxDbErrors`, `MaxCrashes`, `MaxBreaks`, `MaxOutages`, `MaxPasses`,
`MaxHalts`, `MaxMishaps`, `MaxFailedCalls`): one of each kind, two where the second
meets the first's leftovers. Where kinds of trouble combine, one bound counts
them together (`MaxTroubles`, `MaxDisturbances`). `Script` and `Burst` bound the
stream and the queue of a chain: with two of each, one event is at work and one
queued behind it, as `SigningOvertaken` needs. In `Signing` both are of one
payout, so that the second meets the row the first left.
`Limit = 2` with two sessions of one guest lets the limit both pass and refuse;
three documents are one cleared, another of the same customer and a blocked one.
`MaxDeliveries = 3` is a message, its repetition and another message. Lifetimes
are ticks (`Window`, `OpenFor`, `Fresh`, `TTL`): small, with thresholds that
differ so that one can pass before the other. `MaxHits = Limit + 3` lets the
counter pass its limit with all three callers at it. A derived rate lives longer
in the cache than it is fresh, and a last good rate one tick.
`MaxReports = 2` is a report of progress or of the outcome and its repetition; two
`Senders` let one still submit when the other has been confirmed. The results of *What is
proved* do not depend on the bounds.

**Switches.** `LostAnswers` and `EarlyOutcome` add environment behaviour (Bria
accepted but the call failed; Bria resolved before the row was linked); the safety
runs have them on, the liveness run off, for the reason above. `Overwrites` lets
the payment row be decided again; `PaidRace` shows that without manual references
it is not. `EarlyAnswers` lets a callback arrive before the instruction is stored;
it is off in `PaidRace`, to keep it small, and in the liveness run, because the
callback then uses up its deduplication key and is lost, and so is a callback
whose handler crashes.

**Fairness.** Weak fairness of a handler's steps everywhere: a pending await
resolves and its continuation runs. In Settlement the same for `Tick` (an
interval timer), `ReadSession` (the payment page polls while it is open, and
`payment.confirmed` or the manual reference starts the handler once the row is
CONFIRMED) and `BriaResolves` (Bria broadcasts or an operator cancels). Strong
fairness of the first report of an answered push: the callback handlers of the
model are few and repetitions of other callbacks may occupy them, in the server
every request has its own. In SigningConsumer weak fairness of `Start`,
`Reconnect` and `Deliver` (the process is restarted, timers fire, the stream
delivers). In GuestJourney weak fairness of answers, of the clocks (`LapseQuote`,
`LapseSession`), of the tab's countdown and of opening the details the page
offers, and strong fairness of `Poll`: the interval fires again and again,
and finds a free connection between other requests. In Messaging strong fairness,
per message, of a tick that takes its due row: the cron looks for all due rows
every time, but a model with two workers lets deliveries occupy both between
ticks. Nothing is assumed of customers: nobody need pay or go on, and the
properties start from what was done.

The retry loop and the event consumer rely on each other's data. Settlement lets
a consumer that stopped see its event again (`Abandon` leaves `acked` alone);
`Signing` justifies it for events that are not overtaken. What Bria reports of a
payout is in Settlement; `DfnsWebhook` has DFNS's reports alone.

**Types.** Each module's `TypeOK` documents its state. `SettlementRace` lists it;
the others hold at the bounds of their runs, and those of Settlement, PaymentIntake,
Messaging, EventConsumer and ChatFlow are proved, as are the types of the journey's
requests (`Requests`).

## What is proved

Each result holds for any sets of handlers and any bounds, under the module's
named assumption and nothing else unless it says so.

| Module | Theorems | Further assumptions |
|---|---|---|
| `SettlementProofs` | `Invariance`, `TypeCorrect`, `PayoutsAreBacked`, `NoFalseCompletion`, `TrailIsSound`, `DispatchesAreBounded` | |
| | `PromiseKept`: Settlement implements `ConversionPromise` | an asynchronous backend |
| | `SwapsAreBounded` (`SwapsBounded`) | finitely many handlers of the confirmed payment |
| `IntakeProofs` | `TypeCorrect`, `DecidedRight`, `AnnouncedAtMostOnce`, `ReceiptKept` | |
| `PaidProofs` | `SettlementAtWork`: the composition is a behaviour of Settlement | |
| | `ComponentsDoAgree`, `SentIsPaid` | no typed references |
| `MessagingProofs` | `TypeCorrect`, `TakenInOnce`, `AnsweredIfProcessed`, `EventsAccounted` | |
| `SigningProofs` | `StaysSubscribed`: a running consumer is subscribed or about to be, never both; `ImplementsConsumer`: with its signing handlers the consumer still is EventConsumer | |
| | `CursorsNotAhead`, `SignedBeforeStored` (`CursorNotAhead` of consumer and composition), `AcknowledgedAreSubmitted` | |
| | `SubmittedAtMostOnce` (`SubmittedOnce`) | no payout settles before it is committed (`CommittedFirst`) |
| `JourneyProofs` | `Requests`, `PayableHasPayout`, `TheScreenedGuest`, `NeverAhead`, `ExpiryPauses` | |
| `ChatProofs` | `TypesOK`, `StepsFit`, `IdentitiesAreOwn`, `NoticesFind` | |
| `OperationsProofs` | `CountersExpire`, `ToldTheSame`, `Repeatable`, `SidesAgree`, `NothingLost`, `OpeningIsEarned`, `RatesHonest` | |

Every invariant and action property that a passing run checks is stated by one of
these. The further assumptions are where the code's guarantee ends, as *What the
properties do not say* tells, not where the prover's does; `CommittedFirst` is the
order in which Bria reports on one payout. What trouble takes away otherwise
(`orphaned`, `overlaps`, `InOrder`) is said in the properties.

None of the invariants is inductive: what a handler does next depends on what
it learnt awaits ago. The strengthenings have one form, what a handler may rely on
at each await plus the relations between the rows, and the argument is
always that nobody else undoes what it relies on.

- *Settlement.* `IInv` adds `WorkerOK(w)` and `SharedOK`. The facts a handler
  relies on (`credited`, `swaps > 0`, `provider = "settled"`) are stable, so a
  handler that does not move keeps its `WorkerOK` (`OthersKeep`) and only the one
  that moves matters (`OneMoves`). A request past `ReadPayment` knows `credited`,
  past `Swap` also `swaps > 0`; a retry starts from a PENDING_DISPATCH row, which
  only exists after a swap; a consumer heads for COMPLETED only when the provider
  has settled. The audit trail is sound although the session row is not, because
  `RecordEvent` writes the pair that `Read` validated.
- *The count of swaps.* `Counted`: while the session is PAYMENT_PENDING nothing was
  swapped; afterwards the swaps made and the handlers that may still swap (`Live`)
  are together no more than the handlers there are. Nobody returns the session to
  PAYMENT_PENDING (`Forward`), so no handler joins `Live` later, and each leaves it
  with its swap.
- *PaymentIntake.* The deduplication row lets one callback per checkout past
  `MarkProcessed`; so the one that found the instruction is alone with it, and what
  it is about to write agrees with what the phone answered. A decision made by
  somebody else in between can only be a typed reference.
- *PaidConversion.* Each step of the composition is a step of one component and,
  for the other, one that it assumes of its environment: Settlement sees a row
  that `PaymentWritten` allows, intake a session that leaves PAYMENT_PENDING only
  behind a CONFIRMED row. `RowInv` has what that needs, `DecidedOnce`: without typed
  references one callback alone decides the row, and what is credited stays
  CONFIRMED. The theorems of both components then carry over through the INSTANCEs of
  their proof modules.
- *Messaging.* The inbound row is the claim: its unique key lets one worker on to
  `handle`, whatever ticks overlap. `EventOK` says, for each status of a row, who
  holds it or what became of it; `retries` never exceeds the attempt rows because
  each worker writes its attempt before its count, which it read earlier.
- *EventConsumer.* `ChainOK(q)`: what lies before the head of a chain, live or left
  over, has been processed or overtaken (`Past`), and a head that is being saved
  has been processed. A head that fails with others queued behind it joins
  `overtaken` in that step. `StaysSubscribed` needs none of it. `ImplementsConsumer`
  is a step simulation: each handler step of SigningConsumer is `Handle`, `Fail`, a
  save, or leaves the consumer alone; `CursorsNotAhead` then carries over.
- *PsbtSigning on the chains.* A handler works on the event at the head of its
  chain (`HandlersOK`). `Acknowledging`: while the process lives, a PSBT with a
  row was handed to Bria, is in a handler's hands, is marked failed or was
  skipped, and every acknowledged commit has its row or was skipped. The two ways
  out of a handler's hands, the submission and the catch block, each leave what
  the next handler may rely on. That replays submit once needs also that, while
  nothing fails, only the open chain has work (`OneAtWork`) and Redis has what it
  has come past (`InPlace`), and of a handler about to submit that it found a row
  that was never submitted.
- *Onboarding.* `RequestsOK` gives each operation the awaits and the target states
  its request can be at. `EquippedOK`: a session past compliance has its guest, a
  request about to move one to PAYMENT_PENDING its guest and payout row, and none of
  these is taken away.
- *Wizard.* `Places`: an order belongs to the tab that was given it, its
  requests come from there, and a tab that follows an order by reference code only
  polls. `Ahead`: what a tab shows, or an answer under way will make it show, has
  happened in the rows. `Screens`: while undisturbed a tab waits for every request, so
  until an order is screened one identity is at work for it, and the guest it screens
  is the one linked. `Orderly`: in order there is one acting request per order, and
  none of them past its read while the session is paid.
- *ChatFlow.* `Owes(h)` says for the head of a handler's `todo`, by kind of call,
  what of row and order it needs, and what it leaves for the calls behind it;
  `InOrder` and `Named` are what holds between messages: the step fits the order
  and the metadata is this order's. `NoneAhead` is what remains of it under
  failing calls: orders only move on (`Onward`), a handler writes a step only
  after the call that takes the order there, and one that dies in between leaves
  the step behind. `Told(o)` says that an order past screening has an active row
  or was left. The listener, the row's lifetime and settlement only complete or
  close rows (`Steady`), which no handler at work depends on. That "newest active
  row" names one at all is a minimum in a well-founded order (`WFMin`).
- *DfnsWebhook.* The key lets one report past `MarkKey`, so a completion is announced
  once, and payout, session and announcement are written from one report, with
  what DFNS decided by then (`HookOK`). A sender confirms nothing, and fails the
  session only after it gave the payout up (`SenderOK`).
- *Retention.* Candidates were read while final, hence with what was signed first,
  and a row is stripped only behind the upload of that; so nothing else is ever in
  the bucket.
- *Breaker.* What is in the set of failures was reported, unless it is too old to
  be counted and not yet pruned; a caller that has pruned keeps only what is
  within the window of its reading of the clock. Set and reports age together, so the
  `Threshold` failures it counts are as many reports. `BreakerAssumption` has a
  report take no longer than the window.
- *Rates.* Cache, last good rates and requests under way each have a bound on the age
  of the prices behind them: a cached direct rate has the age it claims; a last good
  rate's age and its remaining life together never exceed `LastGoodTTL` and the time
  a request takes; a derived rate that does not say it is stale is hardly older than
  one of its legs may be (`FreshAsALeg`), and of no derived rate are the prices more
  than two such bounds old (`Honest`). `MadeInv` follows what a provider made up
  through cache, last good rates and sums of legs, by the pair it may be found at.
- *Throttle, DepositAddress, BriaSetup.* Their invariants are inductive with the
  types of a few variables: whoever leaves a counter without lifetime notes it;
  the unique key decides which address is told; what a set-up meets already made
  is skipped at every step.

Only model-checked: the five liveness properties (`PaidComesToAnEnd`,
`SettledIsCompleted`, `EveryEventProcessed`, `CompletedIsShown`, `FailedIsResolved`).
They rest on fairness, hence on ENABLED, and on induction over the number of steps
left, neither of which the installed provers handle.

## Not modelled, and why

Amounts, addresses, reference codes and message texts: the properties do not
tell them apart. Real time: a retry that is due may run at any later moment, a
timeout may happen at any moment, so backoff and jitter do not matter.
`payout_broadcast` stores a transaction id only. Several payouts in one retry
batch: `retryOne` touches the rows of its own payout and catches its errors, so
others only delay it. Events that the Bria client cannot parse are dropped by it
before the consumer sees them (`src/libs/bria-adapter/src/bria-client.service.ts:299`):
the streams of the models parse. `acquireLock` and `releaseLock` of the cache
have no caller. The consensus arithmetic over providers and their health rows:
`Rates` keeps only whether a rate came and how old it was. Request building and
parsing of the Bria, DFNS, M-Pesa, WhatsApp and Telegram clients. Reconciliation
and metrics only read. Static pages, CMS queries, message templates,
infrastructure and scripts have no state of the kind modelled here.

Two tabs, or a repeated request, can take one quote twice (`quote.service.ts:156`);
concurrent sessions of one guest can exceed a limit together
(`guest-limit.service.ts:22`). The models show both and nothing in the code
promises otherwise, so no property forbids them.

## Plan

What is left, in order of weight:

1. An abstract specification of the messages (taken in once, answered or
   accounted for) that Messaging implements, and one of an order's life (priced,
   screened, payable, ended) for Onboarding; both follow the pattern of `PromiseKept`.
2. Two consumers of one stream in `Signing`, as two instances of the server have
   them, and an event that does not parse.
