------------------------------- MODULE Rates -------------------------------
(***************************************************************************)
(* Exchange rates: RatesService over its Redis cache and the aggregator.   *)
(* A request (the warmer's, a quote's, a page's) looks in the cache, asks  *)
(* the providers when it finds nothing fresh, and falls back to the last   *)
(* good rate; a derived pair is computed from direct ones.  Requests       *)
(* overlap in one process and in several, and Redis may fail any call.     *)
(* Prices are not kept: a snapshot is the age of the oldest provider price *)
(* it rests on, the age it claims (calculatedAt), its stale flag, and if it *)
(* is made up: FxProvider answers with a rate from its code, as of now,     *)
(* when both of its sources are down.  The health rows, which only a report *)
(* reads, are left out.                                                    *)
(***************************************************************************)
EXTENDS Integers, Sequences, FiniteSetsExt

CONSTANTS
    Requests,     \* concurrent calls of getRate
    Asks,         \* the pairs each of them may ask for
    BuiltIn,      \* the direct pairs whose provider makes up what it cannot fetch
    Legs,         \* DERIVATION_ROUTES: the direct pairs each derived pair needs
    Fresh,        \* stalenessThreshold by pair, in ticks
    TTL,          \* lifetime in the cache of a pair's spot or derived rate
    LastGoodTTL,  \* lifetime of a last good rate
    MaxWork,      \* bound: ticks one request may take (fetches time out)
    MaxOutages    \* bound on Redis calls that fail

Derived == DOMAIN Legs
Pairs == DOMAIN Fresh
Direct == Pairs \ Derived

RatesAssumption ==
    /\ Derived \subseteq Pairs
    /\ BuiltIn \subseteq Direct
    /\ \A p \in Derived : Legs[p] \in Seq(Direct) /\ Legs[p] # <<>>
    /\ Fresh \in [Pairs -> Nat] /\ TTL \in [Pairs -> Nat]
    /\ Asks \in [Requests -> SUBSET Pairs]
    /\ {LastGoodTTL, MaxWork, MaxOutages} \subseteq Nat
    /\ \A p \in Pairs : Fresh[p] <= LastGoodTTL

VARIABLES
    cached,     \* rates:spot and rates:derived by pair
    lastGood,   \* rates:lastgood by pair; it is handed out as stale, whatever it said
    request,    \* where each request is, and its locals
    outages

vars == <<cached, lastGood, request, outages>>

Snapshot == [data: Nat, at: Nat, stale: BOOLEAN, made: BOOLEAN]

Current == [data |-> 0, at |-> 0, stale |-> FALSE, made |-> FALSE]

Gone == -1

NoGood == [data |-> 0, made |-> FALSE, left |-> Gone]

(* legs is what getDirectRate is at and what comes after it, sum what the   *)
(* legs got so far add up to.                                               *)
Request == [at: {"idle", "derived", "spot", "fetch", "keep", "keepGood", "good",
                 "keepDerived", "keepDerivedGood", "goodDerived", "answered", "none"},
            pair: Pairs, legs: Seq(Direct), sum: Snapshot, snap: Snapshot,
            work: 0..MaxWork]

Idle == [at |-> "idle", pair |-> CHOOSE p \in Pairs : TRUE, legs |-> <<>>, sum |-> Current,
         snap |-> Current, work |-> 0]

TypeOK ==
    /\ cached \in [Pairs -> [snap: Snapshot, left: Nat \cup {Gone}]]
    /\ lastGood \in [Pairs -> [data: Nat, made: BOOLEAN, left: Gone..LastGoodTTL]]
    /\ request \in [Requests -> Request]
    /\ outages \in 0..MaxOutages

Init ==
    /\ cached = [p \in Pairs |-> [snap |-> Current, left |-> Gone]]
    /\ lastGood = [p \in Pairs |-> NoGood]
    /\ request = [r \in Requests |-> Idle]
    /\ outages = 0

-----------------------------------------------------------------------------
(* Cache. *)

At(r, label) == request[r].at = label

Goto(r, label) == request' = [request EXCEPT ![r].at = label]

Works == UNCHANGED outages

(* CacheService swallows every error: a get is then null, a set false. *)
Outage == outages < MaxOutages /\ outages' = outages + 1

Miss(r, label) == Outage /\ request' = [request EXCEPT ![r].at = label]

(* isSnapshotStale looks at calculatedAt, whatever the rate rests on. *)
Usable(p) == cached[p].left # Gone /\ cached[p].snap.at <= Fresh[p]

Keep(p, s) ==
    \/ cached' = [cached EXCEPT ![p] = [snap |-> s, left |-> TTL[p]]] /\ Works
    \/ Outage /\ UNCHANGED cached

KeepGood(p, s) ==
    \/ /\ lastGood' = [lastGood EXCEPT ![p] =
                          [data |-> s.data, made |-> s.made, left |-> LastGoodTTL]]
       /\ Works
    \/ Outage /\ UNCHANGED lastGood

LastGood(p) == [data |-> lastGood[p].data, at |-> 0, stale |-> TRUE, made |-> lastGood[p].made]

-----------------------------------------------------------------------------
(* getRate. *)

(* The caller looks at the rate and its flag, not at calculatedAt. *)
Answer(r, s) == request' = [request EXCEPT ![r].at = "answered", ![r].snap = [s EXCEPT !.at = 0]]

(* derive: a new calculatedAt, stale when a leg is. *)
Sum(a, b) == [data |-> Max({a.data, b.data}), at |-> 0, stale |-> a.stale \/ b.stale,
              made |-> a.made \/ b.made]

(* getDirectRate returns s: the answer, or a leg of it. *)
Got(r, s) ==
    LET q == request[r]  rest == Tail(q.legs) IN
    IF q.pair \in Direct THEN Answer(r, s)
    ELSE request' = [request EXCEPT ![r].at = IF rest = <<>> THEN "keepDerived" ELSE "spot",
                                    ![r].legs = rest,
                                    ![r].snap = Current,
                                    ![r].sum = Sum(q.sum, s)]

Ask(r, p) ==
    /\ At(r, "idle")
    /\ request' = [request EXCEPT ![r] =
                     [Idle EXCEPT !.at = IF p \in Direct THEN "spot" ELSE "derived",
                                  !.pair = p,
                                  !.legs = IF p \in Direct THEN <<p>> ELSE Legs[p]]]
    /\ UNCHANGED <<cached, lastGood>>
    /\ Works

ReadDerived(r) ==
    /\ At(r, "derived")
    /\ LET p == request[r].pair IN
       \/ Usable(p) /\ Answer(r, cached[p].snap) /\ Works
       \/ ~Usable(p) /\ Goto(r, "spot") /\ Works
       \/ Miss(r, "spot")
    /\ UNCHANGED <<cached, lastGood>>

ReadSpot(r) ==
    /\ At(r, "spot")
    /\ LET p == Head(request[r].legs) IN
       \/ Usable(p) /\ Got(r, cached[p].snap) /\ Works
       \/ ~Usable(p) /\ Goto(r, "fetch") /\ Works
       \/ Miss(r, "fetch")
    /\ UNCHANGED <<cached, lastGood>>

(* aggregate: a consensus of what the providers say now, or null when each  *)
(* of them failed or was turned down by the validator.  FxProvider does not *)
(* fail: its answer is then made up, and passes for one of now.             *)
Aggregate(r) ==
    /\ At(r, "fetch")
    /\ \/ Goto(r, "keep") \/ Goto(r, "good")
       \/ /\ Head(request[r].legs) \in BuiltIn
          /\ request' = [request EXCEPT ![r].at = "keep", ![r].snap.made = TRUE]
    /\ UNCHANGED <<cached, lastGood>>
    /\ Works

SetSpot(r) ==
    /\ At(r, "keep")
    /\ Keep(Head(request[r].legs), request[r].snap)
    /\ Goto(r, "keepGood")
    /\ UNCHANGED lastGood

SetLastGood(r) ==
    /\ At(r, "keepGood")
    /\ KeepGood(Head(request[r].legs), request[r].snap)
    /\ Got(r, request[r].snap)
    /\ UNCHANGED cached

(* Without a last good rate a derived pair has a missing leg. *)
ReadLastGood(r) ==
    /\ At(r, "good")
    /\ LET p == Head(request[r].legs)
           missing == IF request[r].pair \in Direct THEN "none" ELSE "goodDerived" IN
       \/ lastGood[p].left # Gone /\ Got(r, LastGood(p)) /\ Works
       \/ lastGood[p].left = Gone /\ Goto(r, missing) /\ Works
       \/ Miss(r, missing)
    /\ UNCHANGED <<cached, lastGood>>

SetDerived(r) ==
    /\ At(r, "keepDerived")
    /\ Keep(request[r].pair, request[r].sum)
    /\ Goto(r, "keepDerivedGood")
    /\ UNCHANGED lastGood

SetLastGoodDerived(r) ==
    /\ At(r, "keepDerivedGood")
    /\ KeepGood(request[r].pair, request[r].sum)
    /\ Answer(r, request[r].sum)
    /\ UNCHANGED cached

(* A fallback that keeps what it falls back to. *)
FallbackRenewing(r) ==
    /\ At(r, "goodDerived")
    /\ LET p == request[r].pair IN
       \/ lastGood[p].left # Gone /\ Answer(r, LastGood(p)) /\ KeepGood(p, LastGood(p))
       \/ lastGood[p].left = Gone /\ Goto(r, "none") /\ Works /\ UNCHANGED lastGood
    /\ UNCHANGED cached

FallbackDerived(r) ==
    /\ At(r, "goodDerived")
    /\ LET p == request[r].pair IN
       \/ lastGood[p].left # Gone /\ Answer(r, LastGood(p)) /\ Works
       \/ lastGood[p].left = Gone /\ Goto(r, "none") /\ Works
       \/ Miss(r, "none")
    /\ UNCHANGED <<cached, lastGood>>

Return(r) ==
    /\ At(r, "answered") \/ At(r, "none")
    /\ request' = [request EXCEPT ![r] = Idle]
    /\ UNCHANGED <<cached, lastGood>>
    /\ Works

-----------------------------------------------------------------------------
(* Time. *)

Older(s) == [s EXCEPT !.data = @ + 1, !.at = @ + 1]

(* What a request holds ages with it, from the moment it holds something. *)
OlderRequest(q) ==
    IF q.at = "idle" THEN q
    ELSE [q EXCEPT !.work = @ + 1,
                   !.snap = IF q.at \in {"keep", "keepGood"} THEN Older(@) ELSE @,
                   !.sum = IF q.pair \in Derived /\ q.legs # Legs[q.pair] THEN Older(@) ELSE @]

Tick ==
    /\ \A r \in Requests : ~At(r, "answered") /\ ~At(r, "none") /\ request[r].work < MaxWork
    /\ cached' = [p \in Pairs |->
                    IF cached[p].left <= 0 THEN [snap |-> Current, left |-> Gone]
                    ELSE [snap |-> Older(cached[p].snap), left |-> cached[p].left - 1]]
    /\ lastGood' = [p \in Pairs |->
                      IF lastGood[p].left <= 0 THEN NoGood
                      ELSE [lastGood[p] EXCEPT !.data = @ + 1, !.left = @ - 1]]
    /\ request' = [r \in Requests |-> OlderRequest(request[r])]
    /\ Works

Step(r) ==
    \/ \E p \in Asks[r] : Ask(r, p)
    \/ ReadDerived(r) \/ ReadSpot(r) \/ Aggregate(r) \/ SetSpot(r) \/ SetLastGood(r)
    \/ ReadLastGood(r) \/ SetDerived(r) \/ SetLastGoodDerived(r) \/ FallbackDerived(r) \/ Return(r)

Next == Tick \/ \E r \in Requests : Step(r)

Spec == Init /\ [][Next]_vars

-----------------------------------------------------------------------------
(* Properties. *)

(* How old a price may be that a request comes upon and that does not say it *)
(* is stale, by the leg it is the price of.                                *)
Recent(p) ==
    IF p \in Direct THEN {Fresh[p]}
    ELSE {Fresh[Legs[p][i]] + Fresh[p] : i \in DOMAIN Legs[p]}

(* A pair one of whose prices a provider may have made up. *)
MayBeMade(p) ==
    IF p \in Direct THEN p \in BuiltIn ELSE \E i \in DOMAIN Legs[p] : Legs[p][i] \in BuiltIn

(* No price a provider quoted is passed off as newer than it is.  A rate    *)
(* that does not say it is stale rests on prices no older than the          *)
(* thresholds allow: the leg's, and for a derived rate its own on top, for  *)
(* its clock starts again when it is computed.  However long the providers  *)
(* are out, none rests on a price older than the life of a last good leg    *)
(* and of one last good derived rate made of it.  The work of the request   *)
(* that stored the rate and of the one that found it comes on top;          *)
(* overlapping requests, late writes and Redis failures give an old price   *)
(* no further life.  What a provider made up is no price and has no age: it *)
(* is handed out as a rate of now, but never for a pair that has no leg     *)
(* with such a provider.                                                   *)
RatesAreHonest ==
    \A r \in Requests :
        LET snap == request[r].snap
            lives == IF request[r].pair \in Direct THEN 1 ELSE 2
        IN  At(r, "answered") =>
                /\ ~snap.stale =>
                     \E age \in Recent(request[r].pair) : snap.data <= age + MaxWork
                /\ snap.data <= lives * (LastGoodTTL + MaxWork)
                /\ snap.made => MayBeMade(request[r].pair)

=============================================================================
