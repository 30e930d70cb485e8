--------------------------- MODULE EventConsumer ---------------------------
(***************************************************************************)
(* BriaEventConsumerService and its RedisCursorStore: one instance reads   *)
(* Bria's event stream from its cursor, queues what arrives on a promise   *)
(* chain, processes the queue in order, and stores the cursor in Redis and *)
(* in a fallback file.  A failure drops the subscription and schedules a   *)
(* new one, whose events go to a chain of their own while the old chain    *)
(* still works off what it had queued.  Events are their sequence numbers. *)
(***************************************************************************)
EXTENDS Naturals

CONSTANTS
    Chains,      \* promise chains that can be alive at once
    Events,      \* bound: Bria emits the events 1..Events
    Burst,       \* bound: events queued on a chain before it must catch up
    MaxFailures, \* bound on handlers that throw
    MaxBreaks,   \* bound on streams that error or complete
    MaxOutages,  \* bound on cursor reads and writes that fail
    MaxCrashes   \* bound on ends of the process

(* Stated by the modules that give the constants their values. *)
EventConsumerAssumption ==
    /\ "none" \notin Chains
    /\ Events \in Nat
    /\ Burst \in Nat \ {0}
    /\ MaxFailures \in Nat
    /\ MaxBreaks \in Nat
    /\ MaxOutages \in Nat
    /\ MaxCrashes \in Nat

VARIABLES
    produced,   \* the last event Bria has recorded
    done,       \* events processed to the end at least once
    overtaken,  \* history: events that failed with others queued behind them
    (* persisted *)
    redis, file,
    (* in memory *)
    up,         \* onModuleInit has loaded the cursor and subscribed
    current,    \* the chain the open subscription feeds, or none
    chain,      \* each chain's queue next..last and what its head does
    committed,  \* committedCursor
    timer,      \* reconnectTimer is set
    (* budgets *)
    failures, breaks, outages, crashes

persisted == <<redis, file>>
memory == <<up, current, chain, committed, timer>>
budgets == <<failures, breaks, outages, crashes>>
seen == <<done, overtaken>>
vars == <<produced, seen, persisted, memory, budgets>>

Seq0 == 0..Events

Queue == [next: 1..(Events + 1), last: Seq0, at: {"handle", "redis", "file"}]

TypeOK ==
    /\ produced \in Seq0
    /\ done \subseteq 1..Events
    /\ overtaken \subseteq 1..Events
    /\ redis \in Seq0
    /\ file \in Seq0
    /\ up \in BOOLEAN
    /\ current \in Chains \cup {"none"}
    /\ chain \in [Chains -> Queue]
    /\ committed \in Seq0
    /\ timer \in BOOLEAN
    /\ failures \in 0..MaxFailures
    /\ breaks \in 0..MaxBreaks
    /\ outages \in 0..MaxOutages
    /\ crashes \in 0..MaxCrashes

EmptyAfter(cursor) == [next |-> cursor + 1, last |-> cursor, at |-> "handle"]

Empty(q) == chain[q].next > chain[q].last

Init ==
    /\ produced = 0
    /\ done = {}
    /\ overtaken = {}
    /\ redis = 0
    /\ file = 0
    /\ up = FALSE
    /\ current = "none"
    /\ chain = [q \in Chains |-> EmptyAfter(0)]
    /\ committed = 0
    /\ timer = FALSE
    /\ failures = 0
    /\ breaks = 0
    /\ outages = 0
    /\ crashes = 0

-----------------------------------------------------------------------------
(* Subscription. *)

(* startSubscription: a new chain, fed from behind the given cursor. *)
Subscribe(cursor) ==
    \E q \in Chains :
        /\ Empty(q)
        /\ current' = q
        /\ chain' = [chain EXCEPT ![q] = EmptyAfter(cursor)]

(* onModuleInit: Redis has the cursor, or is out and the file has it, or    *)
(* neither answers and the stream is read from its beginning.              *)
Start ==
    /\ ~up
    /\ up' = TRUE
    /\ \/ committed' = redis /\ UNCHANGED outages
       \/ /\ outages < MaxOutages
          /\ outages' = outages + 1
          /\ committed' \in {file, 0}
    /\ Subscribe(committed')
    /\ UNCHANGED <<produced, seen, persisted, timer, failures, breaks, crashes>>

Reconnect ==
    /\ timer
    /\ timer' = FALSE
    /\ Subscribe(committed)
    /\ UNCHANGED <<produced, seen, persisted, up, committed, budgets>>

(* handleStreamFailure: unsubscribe whatever is open, schedule a reconnect. *)
Disconnect ==
    /\ current' = "none"
    /\ timer' = TRUE

StreamBreaks ==
    /\ current # "none"
    /\ breaks < MaxBreaks
    /\ breaks' = breaks + 1
    /\ Disconnect
    /\ UNCHANGED <<produced, seen, persisted, up, chain, committed, failures, outages, crashes>>

-----------------------------------------------------------------------------
(* Bria records an event; the open stream delivers the next one. *)

Produce ==
    /\ produced < Events
    /\ produced' = produced + 1
    /\ UNCHANGED <<seen, persisted, memory, budgets>>

Deliver ==
    /\ current # "none"
    /\ LET q == chain[current] IN
       /\ q.last < produced
       /\ q.last + 1 < q.next + Burst
       /\ chain' = [chain EXCEPT ![current].last = @ + 1]
    /\ UNCHANGED <<produced, seen, persisted, up, current, committed, timer, budgets>>

-----------------------------------------------------------------------------
(* handleEvent on the head of a chain. *)

Head(q, at) == ~Empty(q) /\ chain[q].at = at

Handle(q) ==
    /\ Head(q, "handle")
    /\ done' = done \cup {chain[q].next}
    /\ chain' = [chain EXCEPT ![q].at = "redis"]
    /\ UNCHANGED <<produced, overtaken, persisted, up, current, committed, timer, budgets>>

FailQuietly(q) ==
    /\ Head(q, "handle")
    /\ failures < MaxFailures
    /\ failures' = failures + 1
    /\ chain' = [chain EXCEPT ![q].at = "redis"]
    /\ UNCHANGED <<produced, seen, persisted, up, current, committed, timer,
                   breaks, outages, crashes>>

FailUnscheduled(q) ==
    /\ Head(q, "handle")
    /\ failures < MaxFailures
    /\ failures' = failures + 1
    /\ chain' = [chain EXCEPT ![q].next = @ + 1]
    /\ current' = "none"
    /\ UNCHANGED <<produced, seen, persisted, up, committed, timer, breaks, outages, crashes>>

(* The catch on the chain resolves it: what is queued behind is processed,  *)
(* and its cursor passes the event that failed.                            *)
Fail(q) ==
    /\ Head(q, "handle")
    /\ failures < MaxFailures
    /\ failures' = failures + 1
    /\ overtaken' = IF chain[q].next < chain[q].last
                    THEN overtaken \cup {chain[q].next} ELSE overtaken
    /\ chain' = [chain EXCEPT ![q].next = @ + 1]
    /\ Disconnect
    /\ UNCHANGED <<produced, done, persisted, up, committed, breaks, outages, crashes>>

(* RedisCursorStore.setCursor: Redis, unless it is out, then the file. *)
SaveRedis(q) ==
    /\ Head(q, "redis")
    /\ \/ redis' = chain[q].next /\ UNCHANGED outages
       \/ redis' = redis /\ outages < MaxOutages /\ outages' = outages + 1
    /\ chain' = [chain EXCEPT ![q].at = "file"]
    /\ UNCHANGED <<produced, seen, file, up, current, committed, timer,
                   failures, breaks, crashes>>

SaveFile(q) ==
    /\ Head(q, "file")
    /\ \/ file' = chain[q].next /\ UNCHANGED outages
       \/ file' = file /\ outages < MaxOutages /\ outages' = outages + 1
    /\ committed' = chain[q].next
    /\ chain' = [chain EXCEPT ![q].next = @ + 1, ![q].at = "handle"]
    /\ UNCHANGED <<produced, seen, redis, up, current, timer, failures, breaks, crashes>>

-----------------------------------------------------------------------------

Crash ==
    /\ up
    /\ crashes < MaxCrashes
    /\ crashes' = crashes + 1
    /\ up' = FALSE
    /\ current' = "none"
    /\ chain' = [q \in Chains |-> EmptyAfter(0)]
    /\ committed' = 0
    /\ timer' = FALSE
    /\ UNCHANGED <<produced, seen, persisted, failures, breaks, outages>>

Work(q) == Handle(q) \/ SaveRedis(q) \/ SaveFile(q)

Next ==
    \/ Start \/ Reconnect \/ StreamBreaks \/ Produce \/ Deliver \/ Crash
    \/ \E q \in Chains : Work(q) \/ Fail(q)

Spec == Init /\ [][Next]_vars

(* The process is restarted, timers fire, the stream delivers and handlers  *)
(* go on.                                                                  *)
Fairness ==
    /\ WF_vars(Start)
    /\ WF_vars(Reconnect)
    /\ WF_vars(Deliver)
    /\ \A q \in Chains : WF_vars(Work(q))

FairSpec == Spec /\ Fairness

-----------------------------------------------------------------------------
(* Properties. *)

(* No cursor, in memory or stored, is ahead of an event that has not been   *)
(* processed, so that a reconnect or a restart reads again whatever is     *)
(* still to do.  The exception is an event whose handler failed when others *)
(* were queued behind it: the stream does not wait for the handlers, and    *)
(* theirs commit past it.                                                  *)
CursorNotAhead ==
    \A cursor \in {committed, redis, file} : 1..cursor \subseteq done \cup overtaken

(* The cursor is persisted only after successful processing: what is not    *)
(* processed is never behind it.                                           *)
CursorAfterSuccess ==
    \A cursor \in {committed, redis, file} : 1..cursor \subseteq done

(* A running consumer is subscribed or about to be, and never both: no      *)
(* failure of an old chain leaves it deaf, or leaves two streams open.      *)
NeverDeaf == up => (current = "none" <=> timer)

(* Every event is processed at last, whatever handlers fail and whenever    *)
(* the stream breaks or the process ends, unless it was overtaken.         *)
EveryEventProcessed ==
    \A n \in 1..Events : produced >= n ~> n \in done \cup overtaken

=============================================================================
