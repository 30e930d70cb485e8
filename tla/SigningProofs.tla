--------------------------- MODULE SigningProofs ---------------------------
(***************************************************************************)
(* Proofs about the event consumer, for any number of chains and events    *)
(* queued on them, any failures, breaks, outages and crashes and for any    *)
(* handlers, and then about the handlers of PsbtSigning at its heads.  That *)
(* no cursor runs ahead rests on what the open chains have come past: only  *)
(* what was processed, or failed with others queued behind it.  That what   *)
(* is acknowledged is not lost rests on the rows and on who has a signed    *)
(* transaction in hand, whichever chain it runs at.  That nothing is handed *)
(* over twice rests on the consumer: while nothing fails and the stream     *)
(* holds, one handler runs at a time.                                      *)
(***************************************************************************)
EXTENDS SigningConsumer, TLAPS

(* What need not be read again. *)
Past == done \cup overtaken

(* A chain that is open or has work has come past such events only. *)
ChainOK(q) ==
    /\ chain[q].next <= chain[q].last + 1
    /\ Consumer!Empty(q) => chain[q].at = "handle"
    /\ ~Consumer!Empty(q) \/ current = q => 1..(chain[q].next - 1) \subseteq Past
    /\ ~Consumer!Empty(q) /\ chain[q].at \in {"redis", "file"} => chain[q].next \in done

(* Between a crash and the next start nothing is in memory. *)
DownOK ==
    ~up => current = "none" /\ timer = FALSE /\ \A q \in Chains : Consumer!Empty(q)

ConsumerCore == Consumer!TypeOK /\ DownOK /\ Consumer!NeverDeaf

ConsumerInv == ConsumerCore /\ Consumer!CursorNotAhead /\ \A q \in Chains : ChainOK(q)

-----------------------------------------------------------------------------
(* Types and subscriptions. *)

LEMMA InitCore == Consumer!EventConsumerAssumption /\ Consumer!Init => ConsumerCore
<1> SUFFICES ASSUME Consumer!EventConsumerAssumption, Consumer!Init
             PROVE  ConsumerCore
  OBVIOUS
<1>1. Consumer!EmptyAfter(0) \in Consumer!Queue
  BY DEF Consumer!EventConsumerAssumption, Consumer!EmptyAfter, Consumer!Queue, Consumer!Seq0
<1>2. chain \in [Chains -> Consumer!Queue] /\ \A q \in Chains : chain[q] = Consumer!EmptyAfter(0)
  BY <1>1 DEF Consumer!Init
<1>3. Consumer!TypeOK
  <2>1. up \in BOOLEAN /\ timer \in BOOLEAN
    BY DEF Consumer!Init
  <2>2. /\ {produced, redis, file, committed} \subseteq Consumer!Seq0
        /\ failures \in 0..(MaxFaults + 1) /\ breaks \in 0..MaxBreaks
        /\ outages \in 0..MaxOutages /\ crashes \in 0..MaxCrashes
    BY DEF Consumer!EventConsumerAssumption, Consumer!Init, Consumer!Seq0
  <2>3. done = {} /\ overtaken = {} /\ current = "none"
    BY DEF Consumer!Init
  <2> QED
    BY <1>2, <2>1, <2>2, <2>3 DEF Consumer!TypeOK
<1> QED
  BY <1>2, <1>3 DEF Consumer!Init, ConsumerCore, DownOK, Consumer!NeverDeaf,
     Consumer!EmptyAfter, Consumer!Empty

LEMMA SubscribeOpens ==
  ASSUME Consumer!EventConsumerAssumption, Consumer!TypeOK, NEW cursor \in Consumer!Seq0,
         Consumer!Subscribe(cursor)
  PROVE  /\ current' \in Chains
         /\ chain' \in [Chains -> Consumer!Queue]
         /\ chain'[current'] = Consumer!EmptyAfter(cursor)
         /\ \A q \in Chains : q # current' => chain'[q] = chain[q]
  BY DEF Consumer!EventConsumerAssumption, Consumer!TypeOK, Consumer!Subscribe,
     Consumer!EmptyAfter, Consumer!Queue, Consumer!Seq0

LEMMA NextCore ==
  ASSUME Consumer!EventConsumerAssumption, ConsumerCore, [Consumer!Next]_(Consumer!vars)
  PROVE  ConsumerCore'
<1> USE Consumer!EventConsumerAssumption DEF Consumer!EventConsumerAssumption, ConsumerCore,
    DownOK, Consumer!NeverDeaf, Consumer!seen
<1>1. CASE UNCHANGED Consumer!vars
  BY <1>1 DEF Consumer!vars, Consumer!persisted, Consumer!memory, Consumer!budgets,
     Consumer!TypeOK, Consumer!Empty
<1>2. CASE Consumer!Start
  <2>1. committed' \in Consumer!Seq0 /\ up' = TRUE /\ timer' = timer
    BY <1>2 DEF Consumer!Start, Consumer!TypeOK, Consumer!Seq0
  <2>2. current' \in Chains /\ chain' \in [Chains -> Consumer!Queue]
    BY <1>2, <2>1, SubscribeOpens DEF Consumer!Start
  <2>3. Consumer!TypeOK'
    BY <1>2, <2>1, <2>2 DEF Consumer!Start, Consumer!TypeOK, Consumer!persisted
  <2> QED
    BY <1>2, <2>1, <2>2, <2>3 DEF Consumer!Start
<1>3. CASE Consumer!Reconnect
  <2>1. current' \in Chains /\ chain' \in [Chains -> Consumer!Queue] /\ timer' = FALSE
    BY <1>3, SubscribeOpens DEF Consumer!Reconnect, Consumer!TypeOK
  <2>2. Consumer!TypeOK'
    BY <1>3, <2>1 DEF Consumer!Reconnect, Consumer!TypeOK, Consumer!persisted, Consumer!budgets
  <2> QED
    BY <1>3, <2>1, <2>2 DEF Consumer!Reconnect
<1>4. CASE Consumer!StreamBreaks
  BY <1>4 DEF Consumer!StreamBreaks, Consumer!Disconnect, Consumer!TypeOK, Consumer!persisted
<1>5. CASE Consumer!Produce
  BY <1>5 DEF Consumer!Produce, Consumer!TypeOK, Consumer!persisted, Consumer!memory,
     Consumer!budgets, Consumer!Seq0, Consumer!Empty
<1>6. CASE Consumer!Deliver
  <2>1. current \in Chains /\ chain[current] \in Consumer!Queue
    BY <1>6 DEF Consumer!Deliver, Consumer!TypeOK
  <2>2. chain' \in [Chains -> Consumer!Queue]
    BY <1>6, <2>1 DEF Consumer!Deliver, Consumer!TypeOK, Consumer!Queue, Consumer!Seq0
  <2>3. Consumer!TypeOK'
    BY <1>6, <2>2 DEF Consumer!Deliver, Consumer!TypeOK, Consumer!persisted, Consumer!budgets
  <2> QED
    BY <1>6, <2>1, <2>3 DEF Consumer!Deliver
<1>7. CASE Consumer!Crash
  <2>a. Consumer!EmptyAfter(0) \in Consumer!Queue
    BY DEF Consumer!EmptyAfter, Consumer!Queue, Consumer!Seq0
  <2>1. /\ chain' \in [Chains -> Consumer!Queue]
        /\ \A q \in Chains : chain'[q] = Consumer!EmptyAfter(0)
    BY <1>7, <2>a DEF Consumer!Crash
  <2>2. Consumer!TypeOK'
    <3>1. /\ committed' = 0 /\ timer' = FALSE /\ up' = FALSE /\ current' = "none"
          /\ crashes < MaxCrashes /\ crashes' = crashes + 1
          /\ UNCHANGED <<produced, done, overtaken, redis, file, failures, breaks, outages>>
      BY <1>7 DEF Consumer!Crash, Consumer!persisted
    <3> QED
      <4>1. up' \in BOOLEAN /\ timer' \in BOOLEAN
        BY <3>1
      <4>2. committed' \in Consumer!Seq0 /\ crashes' \in 0..MaxCrashes
        BY <3>1 DEF Consumer!TypeOK, Consumer!Seq0
      <4> QED
        BY <2>1, <3>1, <4>1, <4>2 DEF Consumer!TypeOK
  <2> QED
    BY <1>7, <2>1, <2>2 DEF Consumer!Crash, Consumer!EmptyAfter, Consumer!Empty
<1>8. ASSUME NEW q \in Chains, Consumer!Work(q) \/ Consumer!Fail(q)
      PROVE  ConsumerCore'
  <2>1. chain[q] \in Consumer!Queue /\ ~Consumer!Empty(q) /\ chain[q].next \in 1..Events /\ up
    BY <1>8 DEF Consumer!Work, Consumer!Handle, Consumer!SaveRedis, Consumer!SaveFile,
       Consumer!Fail, Consumer!Head, Consumer!TypeOK, Consumer!Queue, Consumer!Seq0,
       Consumer!Empty
  <2>2. chain' \in [Chains -> Consumer!Queue] /\ up' = up
    <3>1. CASE Consumer!Handle(q)
      BY <2>1, <3>1 DEF Consumer!Handle, Consumer!TypeOK, Consumer!Queue
    <3>2. CASE Consumer!SaveRedis(q)
      BY <2>1, <3>2 DEF Consumer!SaveRedis, Consumer!TypeOK, Consumer!Queue
    <3>3. CASE Consumer!SaveFile(q)
      <4>1. chain[q].next + 1 \in 1..(Events + 1)
        BY <2>1
      <4> QED
        BY <2>1, <3>3, <4>1 DEF Consumer!SaveFile, Consumer!TypeOK, Consumer!Queue
    <3>4. CASE Consumer!Fail(q)
      <4>1. chain[q].next + 1 \in 1..(Events + 1)
        BY <2>1
      <4> QED
        BY <2>1, <3>4, <4>1 DEF Consumer!Fail, Consumer!TypeOK, Consumer!Queue
    <3> QED
      BY <1>8, <3>1, <3>2, <3>3, <3>4 DEF Consumer!Work
  <2>3. Consumer!TypeOK'
    <3>1. CASE Consumer!Handle(q)
      BY <2>1, <2>2, <3>1 DEF Consumer!Handle, Consumer!TypeOK, Consumer!persisted,
         Consumer!budgets
    <3>2. CASE Consumer!SaveRedis(q)
      BY <2>1, <2>2, <3>2 DEF Consumer!SaveRedis, Consumer!TypeOK, Consumer!Seq0
    <3>3. CASE Consumer!SaveFile(q)
      BY <2>1, <2>2, <3>3 DEF Consumer!SaveFile, Consumer!TypeOK, Consumer!Seq0
    <3>4. CASE Consumer!Fail(q)
      BY <2>1, <2>2, <3>4 DEF Consumer!Fail, Consumer!Disconnect, Consumer!TypeOK,
         Consumer!persisted
    <3> QED
      BY <1>8, <3>1, <3>2, <3>3, <3>4 DEF Consumer!Work
  <2>4. Consumer!NeverDeaf'
    BY <1>8, <2>1 DEF Consumer!Work, Consumer!Handle, Consumer!SaveRedis, Consumer!SaveFile,
       Consumer!Fail, Consumer!Disconnect
  <2> QED
    BY <2>1, <2>2, <2>3, <2>4
<1> QED
  BY <1>1, <1>2, <1>3, <1>4, <1>5, <1>6, <1>7, <1>8 DEF Consumer!Next

(* A running consumer is subscribed or about to be, and never both. *)
THEOREM StaysSubscribed ==
  ASSUME Consumer!EventConsumerAssumption
  PROVE  Consumer!Spec => []Consumer!NeverDeaf
<1>1. Consumer!Init => ConsumerCore
  BY Consumer!EventConsumerAssumption, InitCore
<1>2. ConsumerCore /\ [Consumer!Next]_(Consumer!vars) => ConsumerCore'
  BY Consumer!EventConsumerAssumption, NextCore
<1>3. ConsumerCore => Consumer!NeverDeaf
  BY DEF ConsumerCore
<1> QED
  BY <1>1, <1>2, <1>3, PTL DEF Consumer!Spec

-----------------------------------------------------------------------------
(* The cursors. *)

LEMMA InitInv == Consumer!EventConsumerAssumption /\ Consumer!Init => ConsumerInv
<1> SUFFICES ASSUME Consumer!EventConsumerAssumption, Consumer!Init
             PROVE  Consumer!CursorNotAhead /\ \A q \in Chains : ChainOK(q)
  BY InitCore DEF ConsumerInv
<1> QED
  BY DEF Consumer!Init, Consumer!CursorNotAhead, ChainOK, Past, Consumer!EmptyAfter, Consumer!Empty

(* A chain opened behind what need not be read again. *)
LEMMA OpenedOK ==
  ASSUME Consumer!EventConsumerAssumption, ConsumerInv, NEW cursor \in Consumer!Seq0,
         1..cursor \subseteq Past,
         UNCHANGED <<done, overtaken>>, Consumer!Subscribe(cursor)
  PROVE  \A q \in Chains : ChainOK(q)'
<1>1. /\ current' \in Chains
      /\ chain'[current'] = Consumer!EmptyAfter(cursor)
      /\ \A q \in Chains : q # current' => chain'[q] = chain[q]
  BY SubscribeOpens DEF ConsumerInv, ConsumerCore
<1> SUFFICES ASSUME NEW q \in Chains
             PROVE  ChainOK(q)'
  OBVIOUS
<1>2. CASE q = current'
  BY <1>1, <1>2 DEF ChainOK, Past, Consumer!EmptyAfter, Consumer!Empty, Consumer!Seq0,
     Consumer!EventConsumerAssumption
<1>3. CASE q # current'
  BY <1>1, <1>3 DEF ChainOK, Past, Consumer!Empty, ConsumerInv
<1> QED
  BY <1>2, <1>3

LEMMA NextInv ==
  ASSUME Consumer!EventConsumerAssumption, ConsumerInv, [Consumer!Next]_(Consumer!vars)
  PROVE  ConsumerInv'
<1> USE Consumer!EventConsumerAssumption DEF Consumer!EventConsumerAssumption, Consumer!seen,
    Past
<1>c. ConsumerCore' /\ Consumer!TypeOK
  BY NextCore DEF ConsumerInv, ConsumerCore
<1> SUFFICES Consumer!CursorNotAhead' /\ \A q \in Chains : ChainOK(q)'
  BY <1>c DEF ConsumerInv
<1>1. CASE UNCHANGED Consumer!vars
  BY <1>1 DEF Consumer!vars, Consumer!persisted, Consumer!memory, Consumer!budgets,
     ConsumerInv, Consumer!CursorNotAhead, ChainOK, Consumer!Empty
<1>2. CASE Consumer!Start
  <2>1. /\ committed' \in Consumer!Seq0 /\ 1..committed' \subseteq Past
        /\ UNCHANGED <<done, overtaken, redis, file>>
    BY <1>2, <1>c DEF Consumer!Start, Consumer!TypeOK, Consumer!Seq0, ConsumerInv,
       Consumer!CursorNotAhead, Consumer!persisted
  <2>2. Consumer!CursorNotAhead'
    BY <2>1 DEF ConsumerInv, Consumer!CursorNotAhead
  <2>3. \A q \in Chains : ChainOK(q)'
    BY <1>2, <2>1, OpenedOK DEF Consumer!Start
  <2> QED
    BY <2>2, <2>3
<1>3. CASE Consumer!Reconnect
  <2>1. UNCHANGED <<done, overtaken, redis, file, committed>>
    BY <1>3 DEF Consumer!Reconnect, Consumer!persisted
  <2>2. committed \in Consumer!Seq0 /\ 1..committed \subseteq Past
    BY <1>c DEF Consumer!TypeOK, ConsumerInv, Consumer!CursorNotAhead
  <2>3. \A q \in Chains : ChainOK(q)'
    BY <1>3, <2>1, <2>2, OpenedOK DEF Consumer!Reconnect
  <2> QED
    BY <2>1, <2>3 DEF ConsumerInv, Consumer!CursorNotAhead
<1>4. CASE Consumer!StreamBreaks
  BY <1>4 DEF Consumer!StreamBreaks, Consumer!Disconnect, Consumer!persisted, ConsumerInv,
     Consumer!CursorNotAhead, ChainOK, Consumer!Empty
<1>5. CASE Consumer!Produce
  BY <1>5 DEF Consumer!Produce, Consumer!persisted, Consumer!memory, ConsumerInv,
     Consumer!CursorNotAhead, ChainOK, Consumer!Empty
<1>6. CASE Consumer!Deliver
  <2>1. UNCHANGED <<done, overtaken, redis, file, committed, current>> /\ current \in Chains
    BY <1>6, <1>c DEF Consumer!Deliver, Consumer!persisted, Consumer!TypeOK
  <2>2. /\ chain[current] \in Consumer!Queue
        /\ chain'[current].last = chain[current].last + 1
        /\ chain'[current].next = chain[current].next
        /\ chain'[current].at = chain[current].at
        /\ \A q \in Chains : q # current => chain'[q] = chain[q]
    BY <1>6, <1>c, <2>1 DEF Consumer!Deliver, Consumer!TypeOK, Consumer!Queue, Consumer!Seq0
  <2>3. ASSUME NEW q \in Chains
        PROVE  ChainOK(q)'
    <3>1. CASE q = current
      BY <2>1, <2>2, <3>1 DEF ConsumerInv, ChainOK, Consumer!Empty, Consumer!Queue,
         Consumer!Seq0
    <3>2. CASE q # current
      BY <2>1, <2>2, <3>2 DEF ConsumerInv, ChainOK, Consumer!Empty
    <3> QED
      BY <3>1, <3>2
  <2> QED
    BY <2>1, <2>3 DEF ConsumerInv, Consumer!CursorNotAhead
<1>7. CASE Consumer!Crash
  BY <1>7 DEF Consumer!Crash, Consumer!persisted, ConsumerInv, Consumer!CursorNotAhead,
     ChainOK, Consumer!EmptyAfter, Consumer!Empty
<1>8. ASSUME NEW q \in Chains, Consumer!Work(q) \/ Consumer!Fail(q)
      PROVE  Consumer!CursorNotAhead' /\ \A r \in Chains : ChainOK(r)'
  <2>1. /\ chain[q].next \in 1..Events /\ chain[q].next <= chain[q].last
        /\ chain[q] \in Consumer!Queue /\ ChainOK(q) /\ ~Consumer!Empty(q)
        /\ 1..(chain[q].next - 1) \subseteq Past
    BY <1>8, <1>c DEF Consumer!Work, Consumer!Handle, Consumer!SaveRedis, Consumer!SaveFile,
       Consumer!Fail, Consumer!Head, Consumer!TypeOK, Consumer!Queue, Consumer!Seq0,
       Consumer!Empty, ConsumerInv, ChainOK
  <2>2. /\ done \subseteq done' /\ overtaken \subseteq overtaken'
        /\ current' = current \/ current' = "none"
    BY <1>8 DEF Consumer!Work, Consumer!Handle, Consumer!SaveRedis, Consumer!SaveFile,
       Consumer!Fail, Consumer!Disconnect
  <2>3. \A r \in Chains : r # q => chain'[r] = chain[r]
    BY <1>8, <1>c DEF Consumer!Work, Consumer!Handle, Consumer!SaveRedis, Consumer!SaveFile,
       Consumer!Fail, Consumer!TypeOK
  <2>4. \A r \in Chains : r # q => ChainOK(r)'
    BY <2>2, <2>3 DEF ConsumerInv, ChainOK, Consumer!Empty
  <2>5. CASE Consumer!Handle(q)
    <3>1. chain'[q].at = "redis" /\ chain'[q].next = chain[q].next /\ chain'[q].last = chain[q].last
      BY <1>c, <2>5 DEF Consumer!Handle, Consumer!TypeOK, Consumer!Queue
    <3>2. ChainOK(q)'
      BY <2>1, <2>2, <2>5, <3>1 DEF Consumer!Handle, ChainOK, Consumer!Empty
    <3> QED
      BY <2>2, <2>4, <2>5, <3>2 DEF Consumer!Handle, Consumer!persisted, ConsumerInv,
         Consumer!CursorNotAhead
  <2>6. CASE Consumer!SaveRedis(q)
    <3>1. chain'[q].at = "file" /\ chain'[q].next = chain[q].next /\ chain'[q].last = chain[q].last
      BY <1>c, <2>6 DEF Consumer!SaveRedis, Consumer!TypeOK, Consumer!Queue
    <3>2. 1..chain[q].next \subseteq Past
      BY <2>1, <2>6 DEF Consumer!SaveRedis, Consumer!Head, ChainOK
    <3>3. ChainOK(q)'
      <4>1. UNCHANGED <<done, overtaken, current>>
        BY <2>6 DEF Consumer!SaveRedis
      <4> QED
        BY <2>1, <2>6, <3>1, <3>2, <4>1 DEF Consumer!SaveRedis, Consumer!Head, ChainOK,
           Consumer!Empty
    <3> QED
      BY <2>4, <2>6, <3>2, <3>3 DEF Consumer!SaveRedis, ConsumerInv, Consumer!CursorNotAhead
  <2>7. CASE Consumer!SaveFile(q)
    <3>1. /\ chain'[q].at = "handle" /\ chain'[q].next = chain[q].next + 1
          /\ chain'[q].last = chain[q].last
      BY <1>c, <2>1, <2>7 DEF Consumer!SaveFile, Consumer!TypeOK, Consumer!Queue
    <3>2. 1..chain[q].next \subseteq Past
      BY <2>1, <2>7 DEF Consumer!SaveFile, Consumer!Head, ChainOK
    <3>3. ChainOK(q)'
      <4>1. UNCHANGED <<done, overtaken>>
        BY <2>7 DEF Consumer!SaveFile
      <4>2. chain'[q].next - 1 = chain[q].next /\ chain'[q].next <= chain'[q].last + 1
        BY <2>1, <3>1 DEF Consumer!Queue, Consumer!Seq0
      <4> QED
        BY <2>1, <3>1, <3>2, <4>1, <4>2 DEF ChainOK, Consumer!Empty
    <3> QED
      BY <2>4, <2>7, <3>2, <3>3 DEF Consumer!SaveFile, ConsumerInv, Consumer!CursorNotAhead
  <2>8. CASE Consumer!Fail(q)
    <3>1. /\ chain'[q].at = "handle" /\ chain'[q].next = chain[q].next + 1
          /\ chain'[q].last = chain[q].last /\ current' # q
      BY <1>c, <2>1, <2>8 DEF Consumer!Fail, Consumer!Disconnect, Consumer!Head,
         Consumer!TypeOK, Consumer!Queue
    <3>2. ~Consumer!Empty(q)' => 1..(chain'[q].next - 1) \subseteq Past'
      <4>1. ~Consumer!Empty(q)' => chain[q].next < chain[q].last
        BY <2>1, <3>1 DEF Consumer!Empty, Consumer!Queue, Consumer!Seq0
      <4>2. ~Consumer!Empty(q)' => chain[q].next \in Past'
        BY <2>8, <4>1 DEF Consumer!Fail
      <4> QED
        BY <2>1, <2>2, <3>1, <4>2
    <3>3. ChainOK(q)'
      BY <2>1, <3>1, <3>2 DEF ChainOK, Consumer!Empty, Consumer!Queue, Consumer!Seq0
    <3> QED
      BY <2>2, <2>4, <2>8, <3>3 DEF Consumer!Fail, Consumer!persisted, ConsumerInv,
         Consumer!CursorNotAhead
  <2> QED
    BY <1>8, <2>5, <2>6, <2>7, <2>8 DEF Consumer!Work
<1> QED
  BY <1>1, <1>2, <1>3, <1>4, <1>5, <1>6, <1>7, <1>8 DEF Consumer!Next

(* The invariant holds in every reachable state. *)
LEMMA ConsumerInvariance ==
  ASSUME Consumer!EventConsumerAssumption
  PROVE  Consumer!Spec => []ConsumerInv
<1>1. Consumer!Init => ConsumerInv
  BY Consumer!EventConsumerAssumption, InitInv
<1>2. ConsumerInv /\ [Consumer!Next]_(Consumer!vars) => ConsumerInv'
  BY Consumer!EventConsumerAssumption, NextInv
<1> QED
  BY <1>1, <1>2, PTL DEF Consumer!Spec

(* A cursor is stored only when everything up to it has been processed, or  *)
(* has failed with others queued behind it.                                *)
THEOREM CursorsNotAhead ==
  ASSUME Consumer!EventConsumerAssumption
  PROVE  Consumer!Spec => []Consumer!CursorNotAhead
<1>1. ConsumerInv => Consumer!CursorNotAhead
  BY DEF ConsumerInv
<1> QED
  BY <1>1, ConsumerInvariance, PTL

-----------------------------------------------------------------------------
(* The chains, while nothing fails and the stream holds. *)

(* The chain that the stream feeds is the only one with work. *)
OneAtWork ==
    breaks = 0 /\ failures = 0 =>
        timer = FALSE /\ \A q \in Chains : ~Consumer!Empty(q) => current = q

(* Nothing that fails, and Redis has what the open chain has come past.     *)
InPlace ==
    failures = 0 /\ breaks = 0 /\ outages = 0 =>
        /\ timer = FALSE
        /\ \A q \in Chains : current = q =>
             redis = IF chain[q].at = "file" THEN chain[q].next ELSE chain[q].next - 1

LEMMA InitExclusive == Consumer!Init => OneAtWork /\ InPlace
  BY DEF Consumer!Init, OneAtWork, InPlace, Consumer!EmptyAfter, Consumer!Empty

LEMMA NextExclusive ==
  ASSUME Consumer!EventConsumerAssumption, ConsumerInv, OneAtWork, InPlace,
         [Consumer!Next]_(Consumer!vars)
  PROVE  OneAtWork' /\ InPlace'
<1> USE Consumer!EventConsumerAssumption DEF Consumer!EventConsumerAssumption
<1>t. /\ Consumer!TypeOK /\ DownOK /\ Consumer!NeverDeaf
      /\ chain \in [Chains -> Consumer!Queue] /\ redis \in 0..Events
      /\ current \in Chains \cup {"none"}
      /\ {failures, breaks, outages} \subseteq Nat
      /\ \A q \in Chains : /\ chain[q].next <= chain[q].last + 1
                           /\ Consumer!Empty(q) => chain[q].at = "handle"
  BY DEF ConsumerInv, ConsumerCore, Consumer!TypeOK, ChainOK, Consumer!Seq0
<1> USE DEF OneAtWork, InPlace, Consumer!Empty, Consumer!Queue, Consumer!Seq0,
    Consumer!persisted, Consumer!memory, Consumer!budgets, Consumer!seen
<1>1. CASE UNCHANGED Consumer!vars
  BY <1>1 DEF Consumer!vars
<1>2. CASE Consumer!Start
  <2>1. \A q \in Chains : Consumer!Empty(q)
    BY <1>t, <1>2 DEF Consumer!Start, DownOK
  <2> QED
    BY <1>t, <1>2, <2>1 DEF Consumer!Start, Consumer!Subscribe, Consumer!EmptyAfter, DownOK
<1>3. CASE Consumer!Reconnect
  BY <1>t, <1>3 DEF Consumer!Reconnect, Consumer!Subscribe, Consumer!EmptyAfter,
     Consumer!NeverDeaf, DownOK
<1>4. CASE Consumer!StreamBreaks
  BY <1>t, <1>4 DEF Consumer!StreamBreaks
<1>5. CASE Consumer!Produce
  BY <1>t, <1>5 DEF Consumer!Produce
<1>6. CASE Consumer!Deliver
  BY <1>t, <1>6 DEF Consumer!Deliver
<1>7. CASE Consumer!Crash
  BY <1>t, <1>7 DEF Consumer!Crash, Consumer!EmptyAfter
<1>8. ASSUME NEW q \in Chains, Consumer!Work(q)
      PROVE  OneAtWork' /\ InPlace'
  BY <1>t, <1>8 DEF Consumer!Work, Consumer!Handle, Consumer!SaveRedis, Consumer!SaveFile,
     Consumer!Head
<1>9. ASSUME NEW q \in Chains, Consumer!Fail(q)
      PROVE  OneAtWork' /\ InPlace'
  BY <1>t, <1>9 DEF Consumer!Fail, Consumer!Head, Consumer!Disconnect
<1> QED
  BY <1>1, <1>2, <1>3, <1>4, <1>5, <1>6, <1>7, <1>8, <1>9 DEF Consumer!Next

LEMMA Exclusive ==
  ASSUME Consumer!EventConsumerAssumption
  PROVE  Consumer!Spec => [](OneAtWork /\ InPlace)
<1>1. ConsumerInv /\ OneAtWork /\ InPlace /\ [Consumer!Next]_(Consumer!vars)
        => OneAtWork' /\ InPlace'
  BY Consumer!EventConsumerAssumption, NextExclusive
<1> QED
  BY <1>1, InitExclusive, ConsumerInvariance, PTL DEF Consumer!Spec

-----------------------------------------------------------------------------
(* Every step of the composition is a step of the consumer or leaves it     *)
(* alone, whatever the handlers do.                                        *)
THEOREM ImplementsConsumer == Spec => Consumer!Spec
<1>1. Init => Consumer!Init
  BY DEF Init
<1>2. [Next]_vars => [Consumer!Next]_(Consumer!vars)
  <2> SUFFICES ASSUME [Next]_vars
               PROVE  Consumer!Next \/ UNCHANGED consuming
    BY DEF consuming, Consumer!vars, Consumer!seen, Consumer!persisted, Consumer!memory,
       Consumer!budgets
  <2>1. CASE UNCHANGED vars
    BY <2>1 DEF vars
  <2>2. CASE Produce
    BY <2>2 DEF Produce, Consumer!Next
  <2>3. CASE Crash
    BY <2>3 DEF Crash, Consumer!Next
  <2>4. CASE Stream
    BY <2>4 DEF Stream, Consumer!Next
  <2>5. ASSUME NEW q \in Chains, HandlerStep(q)
        PROVE  Consumer!Next \/ UNCHANGED consuming
    BY <2>5 DEF HandlerStep, Start, Return, Throw, Consumer!Next, Consumer!Work
  <2> QED
    BY <2>1, <2>2, <2>3, <2>4, <2>5 DEF Next
<1> QED
  BY <1>1, <1>2, PTL DEF Spec, Consumer!Spec

(* No cursor is stored ahead of an event that its handler has not ended,    *)
(* unless the handler failed with others queued behind: at work with the    *)
(* signing handlers, whatever their calls, the stream and the process meet. *)
THEOREM SignedBeforeStored == Spec => []CursorNotAhead
<1>1. Consumer!EventConsumerAssumption
  BY SigningConsumerAssumption DEF Consumer!EventConsumerAssumption
<1>2. Consumer!Spec => []Consumer!CursorNotAhead
  BY <1>1, CursorsNotAhead
<1>3. Consumer!CursorNotAhead => CursorNotAhead
  BY DEF CursorNotAhead, Consumer!CursorNotAhead
<1> QED
  BY <1>2, <1>3, ImplementsConsumer, PTL

-----------------------------------------------------------------------------
(* Handlers. *)

Event(q) == Script[chain[q].next]

(* A handler works on the event at the head of its chain. *)
HandlerOK(q) ==
    ~At(q, "idle") =>
        /\ Consumer!Head(q, "handle")
        /\ signer[q].psbt = Event(q)[2]
        /\ At(q, "settle") => Event(q)[1] = "settle"
        /\ signer[q].at \notin {"settle", "returned", "thrown"} => Event(q)[1] = "commit"

HandlersOK == SigningTypeOK /\ \A q \in Chains : HandlerOK(q)

(* What has a row is at Bria, is in hand, has failed or is excepted. *)
Kept(p) == submitted[p] > 0 \/ p \in skipped \/ status[p] = "failed" \/ InHand(p)

Recorded(p) == p \in skipped \/ status[p] # "none"

(* What a handler knows of the PSBT that it works on. *)
HandedOver(q) ==
    /\ signer[q].at \in {"confirm", "success"} => submitted[signer[q].psbt] > 0
    /\ signer[q].at \in {"sign", "save", "submit", "confirm", "success", "failure", "mark"} =>
         status[signer[q].psbt] # "none"
    /\ At(q, "returned") /\ Event(q)[1] = "commit" => Recorded(signer[q].psbt)

(* While the process lives: no row is left behind, every commit that was    *)
(* acknowledged has a row, and what settles was handed to Bria.             *)
Acknowledging ==
    crashes = 0 =>
        /\ \A p \in Psbts : status[p] # "none" => Kept(p)
        /\ \A q \in Chains : HandedOver(q)
        /\ \A n \in done : Script[n][1] = "commit" => Recorded(Script[n][2])
        /\ \A q \in Chains : ~Consumer!Empty(q) => chain[q].last <= produced
        /\ \A n \in 1..produced : Script[n][1] = "settle" => submitted[Script[n][2]] > 0

(* A payout is committed before it settles, and once. *)
CommittedFirst ==
    \A m, n \in 1..Events :
        Script[m][1] = "commit" /\ Script[m][2] = Script[n][2] => m <= n

(* With no call that fails: nothing is handed over twice, since a handler   *)
(* that gets to submit has found a row that was never submitted.            *)
Submitting(q) ==
    /\ signer[q].at \notin {"failure", "mark", "thrown"}
    /\ signer[q].at \in {"batch", "persist"} =>
         (signer[q].existing <=> status[signer[q].psbt] # "none")
    /\ signer[q].at \in {"batch", "persist", "sign", "save", "submit"} =>
         submitted[signer[q].psbt] = 0
    /\ At(q, "submit") => status[signer[q].psbt] = "signed"

RowOK(p) ==
    /\ submitted[p] <= 1
    /\ submitted[p] > 0 => status[p] \in {"signed", "broadcast", "settled"}
    /\ status[p] # "failed"
    /\ status[p] = "settled" =>
         \A m \in 1..Events : Script[m] = <<"commit", p>> => m <= redis

Undisturbed ==
    faults = 0 /\ breaks = 0 /\ outages = 0 =>
        /\ failures = 0
        /\ \A q \in Chains : Submitting(q)
        /\ \A p \in Psbts : RowOK(p)

-----------------------------------------------------------------------------
(* What the consumer says of its chains. *)

LEMMA ConsumerHolds == Spec => [](ConsumerInv /\ OneAtWork /\ InPlace)
<1>1. Consumer!EventConsumerAssumption
  BY SigningConsumerAssumption DEF Consumer!EventConsumerAssumption
<1>2. Consumer!Spec => []ConsumerInv
  BY <1>1, ConsumerInvariance
<1>3. Consumer!Spec => [](OneAtWork /\ InPlace)
  BY <1>1, Exclusive
<1> QED
  BY <1>2, <1>3, ImplementsConsumer, PTL

LEMMA ChainsTyped ==
  ASSUME ConsumerInv
  PROVE  /\ chain \in [Chains -> [next: 1..(Events + 1), last: 0..Events,
                                  at: {"handle", "redis", "file"}]]
         /\ current \in Chains \cup {"none"}
         /\ Events \in Nat
         /\ {redis, breaks, crashes, failures, outages} \subseteq Nat
         /\ produced \in 0..Events
         /\ up = FALSE => \A q \in Chains : Consumer!Empty(q)
  BY SigningConsumerAssumption DEF ConsumerInv, ConsumerCore, Consumer!TypeOK, Consumer!Queue,
     Consumer!Seq0, DownOK, Consumer!Empty, Consumer!Empty, Consumer!EventConsumerAssumption

LEMMA DoneTyped == ConsumerInv => done \subseteq 1..Events
  BY DEF ConsumerInv, ConsumerCore, Consumer!TypeOK

LEMMA EventsTyped ==
  ASSUME NEW n \in 1..Events
  PROVE  Script[n] = <<Script[n][1], Script[n][2]>>
         /\ Script[n][1] \in {"commit", "settle"} /\ Script[n][2] \in Psbts
<1>1. Script \in Seq({"commit", "settle"} \X Psbts) /\ Events = Len(Script)
  BY SigningConsumerAssumption DEF Events
<1>2. Script[n] \in {"commit", "settle"} \X Psbts
  BY <1>1
<1> QED
  BY <1>2

LEMMA InitHandlers == Init => HandlersOK
<1> SUFFICES ASSUME Init
             PROVE  HandlersOK
  OBVIOUS
<1> QED
  BY PsbtSigningAssumption DEF Init, SigningInit, HandlersOK, SigningTypeOK, HandlerOK, At,
     Waiting, Signer, Labels, PsbtStatus

(* A step of a handler moves that handler on, and keeps the types. *)
LEMMA StepMoves ==
  ASSUME SigningTypeOK, NEW q \in Chains, signer[q].psbt \in Psbts, SignStep(q)
  PROVE  /\ SigningTypeOK'
         /\ \A r \in Chains : r # q => signer'[r] = signer[r]
         /\ signer'[q].psbt = signer[q].psbt
         /\ signer[q].at # "idle" /\ signer'[q].at \notin {"idle", "settle"}
         /\ signer[q].at = "settle" => signer'[q].at = "returned"
         /\ signer[q].at \notin {"returned", "thrown"}
         /\ \A p \in Psbts : p # signer[q].psbt => status'[p] = status[p]
                                                /\ submitted'[p] = submitted[p]
         /\ submitted'[signer[q].psbt] >= submitted[signer[q].psbt]
         /\ skipped \subseteq skipped'
         /\ signer[q].at # "find" => signer'[q].existing = signer[q].existing
<1> USE PsbtSigningAssumption DEF SigningTypeOK, At, Goto, Fault, PassOver, SetStatus, Signer,
        Labels, PsbtStatus
<1>1. CASE Lookup(q)
  BY <1>1 DEF Lookup
<1>2. CASE CanExecute(q)
  BY <1>2 DEF CanExecute
<1>3. CASE FindExisting(q)
  BY <1>3 DEF FindExisting
<1>4. CASE GetBatch(q)
  BY <1>4 DEF GetBatch
<1>5. CASE Persist(q)
  BY <1>5 DEF Persist
<1>6. CASE RequestSign(q)
  BY <1>6 DEF RequestSign
<1>7. CASE SaveSigned(q)
  BY <1>7 DEF SaveSigned
<1>8. CASE SubmitSigned(q)
  BY <1>8 DEF SubmitSigned
<1>9. CASE SaveBroadcast(q)
  BY <1>9 DEF SaveBroadcast
<1>10. CASE RecordSuccess(q)
  BY <1>10 DEF RecordSuccess
<1>11. CASE RecordFailure(q)
  BY <1>11 DEF RecordFailure
<1>12. CASE MarkFailed(q)
  BY <1>12 DEF MarkFailed
<1>13. CASE MarkSettled(q)
  BY <1>13 DEF MarkSettled
<1> QED
  BY <1>1, <1>2, <1>3, <1>4, <1>5, <1>6, <1>7, <1>8, <1>9, <1>10, <1>11, <1>12,
     <1>13 DEF SignStep

LEMMA NextHandlers ==
  ASSUME ConsumerInv, HandlersOK, [Next]_vars
  PROVE  HandlersOK'
<1>t. /\ chain \in [Chains -> [next: 1..(Events + 1), last: 0..Events,
                               at: {"handle", "redis", "file"}]]
      /\ \A q \in Chains : ~Consumer!Empty(q) => Event(q)[1] \in {"commit", "settle"}
                                                 /\ Event(q)[2] \in Psbts
      /\ SigningTypeOK /\ \A q \in Chains : HandlerOK(q)
  BY ChainsTyped, EventsTyped DEF HandlersOK, Consumer!Empty, Event
<1>s. signer \in [Chains -> Signer] /\ Waiting \in Signer
  BY <1>t DEF SigningTypeOK, Waiting, Signer, Labels
<1> USE DEF HandlerOK, At, Consumer!Head, Consumer!Empty, Event
<1>1. CASE UNCHANGED vars
  BY <1>t, <1>1 DEF vars, consuming, signing, SigningTypeOK, HandlersOK
<1>2. CASE Produce
  BY <1>t, <1>2 DEF Produce, Consumer!Produce, Consumer!memory, signing, SigningTypeOK,
     HandlersOK
<1>3. CASE Crash
  BY <1>t, <1>s, <1>3 DEF Crash, Waiting, SigningTypeOK, HandlersOK
<1>4. CASE Stream /\ UNCHANGED signing
  BY <1>t, <1>4 DEF Stream, Consumer!Start, Consumer!Reconnect, Consumer!StreamBreaks,
     Consumer!Deliver, Consumer!Subscribe, Consumer!EmptyAfter, signing, SigningTypeOK, HandlersOK
<1>5. ASSUME NEW q \in Chains, Start(q)
      PROVE  HandlersOK'
  <2>1. SigningTypeOK'
    BY <1>t, <1>s, <1>5 DEF Start, Begin, Waiting, SigningTypeOK, Signer, Labels
  <2> QED
    BY <1>t, <1>s, <1>5, <2>1 DEF Start, Begin, Waiting, consuming, HandlersOK
<1>6. ASSUME NEW q \in Chains, Return(q) \/ Throw(q)
      PROVE  HandlersOK'
  <2>1. signer' = [signer EXCEPT ![q] = Waiting] /\ \A r \in Chains : r # q => chain'[r] = chain[r]
    BY <1>t, <1>6 DEF Return, Throw, End, Consumer!Handle, Consumer!Fail
  <2>2. SigningTypeOK'
    BY <1>t, <1>s, <1>6, <2>1 DEF Return, Throw, End, SigningTypeOK
  <2> QED
    BY <1>t, <1>s, <2>1, <2>2 DEF Waiting, HandlersOK
<1>7. ASSUME NEW q \in Chains,
    (Consumer!SaveRedis(q) \/ Consumer!SaveFile(q)) /\ UNCHANGED signing
      PROVE  HandlersOK'
  <2>1. chain[q].at # "handle" /\ \A r \in Chains : r # q => chain'[r] = chain[r]
    BY <1>t, <1>7 DEF Consumer!SaveRedis, Consumer!SaveFile
  <2> QED
    BY <1>t, <1>7, <2>1 DEF signing, SigningTypeOK, HandlersOK
<1>8. ASSUME NEW q \in Chains, SignStep(q), UNCHANGED consuming
      PROVE  HandlersOK'
  <2>1. signer[q].at # "idle"
    BY <1>8 DEF SignStep, Lookup, CanExecute, FindExisting, GetBatch, Persist, RequestSign,
       SaveSigned, SubmitSigned, SaveBroadcast, RecordSuccess, RecordFailure, MarkFailed,
       MarkSettled
  <2>2. signer[q].psbt \in Psbts
    BY <1>t, <2>1
  <2> QED
    BY <1>t, <1>8, <2>2, StepMoves DEF consuming, HandlersOK
<1> QED
  BY <1>1, <1>2, <1>3, <1>4, <1>5, <1>6, <1>7, <1>8 DEF Next, HandlerStep

LEMMA HandlersInvariance == Spec => []HandlersOK
<1>1. ConsumerInv /\ HandlersOK /\ [Next]_vars => HandlersOK'
  BY NextHandlers
<1>2. Spec => [](ConsumerInv /\ OneAtWork /\ InPlace)
  BY ConsumerHolds
<1> QED
  BY <1>1, <1>2, InitHandlers, PTL DEF Spec

(* The budgets are only ever spent. *)
LEMMA BudgetsGrow ==
  ASSUME ConsumerInv, HandlersOK, [Next]_vars
  PROVE  /\ breaks <= breaks' /\ outages <= outages' /\ faults <= faults'
         /\ crashes <= crashes' /\ (Crash => crashes' > 0)
<1>t. {breaks, outages, faults, crashes} \subseteq Nat
  BY ChainsTyped DEF HandlersOK, SigningTypeOK
<1>1. CASE UNCHANGED vars
  BY <1>t, <1>1 DEF vars, consuming, signing, Crash, Consumer!Crash
<1>2. CASE Produce
  BY <1>t, <1>2 DEF Produce, Consumer!Produce, Consumer!budgets, signing, Crash, Consumer!Crash
<1>3. CASE Crash
  BY <1>t, <1>3 DEF Crash, Consumer!Crash
<1>4. CASE Stream /\ UNCHANGED signing
  <2>1. ~Crash
    BY <1>t, <1>4 DEF Stream, Consumer!Start, Consumer!Reconnect, Consumer!StreamBreaks,
       Consumer!Deliver, Consumer!budgets, Crash, Consumer!Crash
  <2> QED
    BY <1>t, <1>4, <2>1 DEF Stream, Consumer!Start, Consumer!Reconnect, Consumer!StreamBreaks,
       Consumer!Deliver, Consumer!budgets, signing
<1>5. ASSUME NEW q \in Chains, HandlerStep(q)
      PROVE  /\ breaks <= breaks' /\ outages <= outages' /\ faults <= faults'
             /\ crashes <= crashes' /\ (Crash => crashes' > 0)
  <2> SUFFICES /\ breaks <= breaks' /\ outages <= outages' /\ faults <= faults'
               /\ crashes = crashes'
    BY <1>t DEF Crash, Consumer!Crash
  <2>1. CASE Start(q)
    BY <1>t, <2>1 DEF Start, Begin, consuming
  <2>2. CASE Return(q) \/ Throw(q)
    BY <1>t, <2>2 DEF Return, Throw, End, Consumer!Handle, Consumer!Fail, Consumer!budgets
  <2>3. CASE (Consumer!SaveRedis(q) \/ Consumer!SaveFile(q)) /\ UNCHANGED signing
    BY <1>t, <2>3 DEF Consumer!SaveRedis, Consumer!SaveFile, signing
  <2>4. CASE SignStep(q) /\ UNCHANGED consuming
    BY <1>t, <2>4 DEF consuming, SignStep, Lookup, CanExecute, FindExisting, GetBatch, Persist,
       RequestSign, SaveSigned, SubmitSigned, SaveBroadcast, RecordSuccess, RecordFailure,
       MarkFailed, MarkSettled, Fault, PassOver
  <2> QED
    BY <1>5, <2>1, <2>2, <2>3, <2>4 DEF HandlerStep
<1> QED
  BY <1>1, <1>2, <1>3, <1>4, <1>5 DEF Next

(* While nothing fails and the stream holds, one handler runs: that of the  *)
(* open chain.                                                             *)
LEMMA OneHandler ==
  ASSUME OneAtWork, HandlersOK, breaks = 0, failures = 0
  PROVE  \A q \in Chains : signer[q].at # "idle" => current = q
  BY DEF OneAtWork, HandlersOK, HandlerOK, At, Consumer!Head, Consumer!Empty

-----------------------------------------------------------------------------
(* What is acknowledged is not lost. *)

LEMMA InitAcknowledging == Init => Acknowledging
<1> SUFFICES ASSUME Init
             PROVE  Acknowledging
  OBVIOUS
<1>1. /\ \A p \in Psbts : status[p] = "none"
      /\ \A q \in Chains : signer[q].at = "idle" /\ Consumer!Empty(q)
      /\ done = {} /\ produced = 0
  BY DEF Init, SigningInit, Consumer!Init, Consumer!EmptyAfter, Consumer!Empty, Waiting
<1> QED
  BY <1>1 DEF Acknowledging, HandedOver, At

LEMMA NextAcknowledging ==
  ASSUME ConsumerInv, HandlersOK, Acknowledging, [Next]_vars
  PROVE  Acknowledging'
<1> DEFINE Rows == \A p \in Psbts : status[p] # "none" => Kept(p)
           Hands == \A q \in Chains : HandedOver(q)
           Acked == \A n \in done : Script[n][1] = "commit" => Recorded(Script[n][2])
           Queued == \A q \in Chains : ~Consumer!Empty(q) => chain[q].last <= produced
           Paid == \A n \in 1..produced : Script[n][1] = "settle" => submitted[Script[n][2]] > 0
           Goal == Rows' /\ Hands' /\ Acked' /\ Queued' /\ Paid'
<1> SUFFICES ASSUME crashes' = 0
             PROVE  Goal
  BY DEF Acknowledging
<1>c. crashes = 0 /\ ~Crash
  BY BudgetsGrow, ChainsTyped
<1>a. Rows /\ Hands /\ Acked /\ Queued /\ Paid
  BY <1>c DEF Acknowledging
<1>t. /\ chain \in [Chains -> [next: 1..(Events + 1), last: 0..Events,
                               at: {"handle", "redis", "file"}]]
      /\ Events \in Nat /\ produced \in 0..Events /\ done \subseteq 1..Events
      /\ signer \in [Chains -> Signer] /\ submitted \in [Psbts -> Nat]
      /\ status \in [Psbts -> PsbtStatus]
      /\ \A q \in Chains : signer[q].at # "idle" =>
            /\ signer[q].psbt \in Psbts /\ signer[q].psbt = Event(q)[2]
            /\ chain[q].next \in 1..produced /\ chain[q].at = "handle"
      /\ \A q \in Chains : HandlerOK(q)
  <2>1. \A q \in Chains : ~Consumer!Empty(q) => chain[q].next \in 1..produced
    BY <1>a, ChainsTyped DEF Consumer!Empty
  <2>2. \A q \in Chains : ~Consumer!Empty(q) => Event(q)[2] \in Psbts
    BY <2>1, ChainsTyped, EventsTyped DEF Event
  <2> QED
    BY <2>1, <2>2, ChainsTyped, DoneTyped DEF HandlersOK, SigningTypeOK, HandlerOK, Consumer!Head, At
<1>e. \A n \in 1..Events : Script[n][2] \in Psbts
  BY EventsTyped
<1> HIDE DEF Rows, Hands, Acked, Queued, Paid
<1>1. CASE UNCHANGED vars
  BY <1>a, <1>1 DEF vars, consuming, signing, Rows, Hands, Acked, Queued, Paid, Kept, Recorded,
     InHand, HandedOver, At, Event, Consumer!Empty
<1>2. CASE Produce
  <2>1. /\ UNCHANGED <<status, signed, submitted, skipped, signer, chain, done>>
        /\ produced' = produced + 1
        /\ Script[produced'][1] = "settle" => submitted[Script[produced'][2]] > 0
    BY <1>2 DEF Produce, Consumer!Produce, Consumer!memory, Consumer!seen, signing
  <2>2. Rows' /\ Hands' /\ Acked'
    BY <1>a, <2>1 DEF Rows, Hands, Acked, Kept, Recorded, InHand, HandedOver, At, Event
  <2>3. Queued'
    BY <1>a, <1>t, <2>1 DEF Queued, Consumer!Empty
  <2>4. Paid'
    <3>1. \A n \in 1..produced' : n \in 1..produced \/ n = produced'
      BY <1>t, <2>1
    <3> QED
      BY <1>a, <2>1, <3>1 DEF Paid
  <2> QED
    BY <2>2, <2>3, <2>4
<1>4. CASE Stream /\ UNCHANGED signing
  <2>1. UNCHANGED <<status, signed, submitted, skipped, signer, done, produced>>
    BY <1>4 DEF Stream, Consumer!Start, Consumer!Reconnect, Consumer!StreamBreaks,
       Consumer!Deliver, Consumer!seen, signing
  <2>2. \A q \in Chains : /\ signer[q].at # "idle" => chain'[q].next = chain[q].next
                          /\ ~Consumer!Empty(q)' => chain'[q].last <= produced
    <3>1. \A q \in Chains : signer[q].at # "idle" => chain[q].next <= chain[q].last
      BY <1>t DEF HandlerOK, At, Consumer!Head, Consumer!Empty
    <3>2. CASE Consumer!Start \/ Consumer!Reconnect
      <4>1. /\ Consumer!Subscribe(committed')
            /\ committed' \in 0..Events
        BY <3>2, <1>t DEF Consumer!Start, Consumer!Reconnect, ConsumerInv, ConsumerCore,
           Consumer!TypeOK, Consumer!Seq0
      <4>2. PICK w \in Chains : /\ Consumer!Empty(w)
                                /\ chain' = [chain EXCEPT ![w] = Consumer!EmptyAfter(committed')]
        BY <4>1 DEF Consumer!Subscribe
      <4>3. chain'[w] = Consumer!EmptyAfter(committed') /\ signer[w].at = "idle"
        BY <1>t, <3>1, <4>2 DEF Consumer!Empty
      <4>4. \A q \in Chains : q # w => chain'[q] = chain[q]
        BY <1>t, <4>2
      <4>5. Consumer!Empty(w)'
        BY <4>1, <4>3 DEF Consumer!EmptyAfter, Consumer!Empty
      <4> QED
        BY <1>a, <4>3, <4>4, <4>5 DEF Consumer!Empty, Queued
    <3>3. CASE Consumer!StreamBreaks
      BY <1>a, <3>3 DEF Consumer!StreamBreaks, Queued, Consumer!Empty
    <3>4. CASE Consumer!Deliver
      BY <1>a, <1>t, <3>4 DEF Consumer!Deliver, Queued, Consumer!Empty
    <3> QED
      BY <1>4, <3>2, <3>3, <3>4 DEF Stream
  <2> QED
    BY <1>a, <2>1, <2>2 DEF Rows, Hands, Acked, Queued, Paid, Kept, Recorded, InHand, HandedOver,
       At, Event
<1>5. ASSUME NEW q \in Chains, Start(q)
      PROVE  Goal
  <2>1. /\ signer[q].at = "idle" /\ signer'[q].at \in {"lookup", "settle"}
        /\ \A r \in Chains : r # q => signer'[r] = signer[r]
        /\ UNCHANGED <<status, submitted, skipped, done, produced, chain>>
    BY <1>t, <1>5 DEF Start, Begin, At, Waiting, Signer, consuming
  <2> QED
    BY <1>a, <2>1 DEF Rows, Hands, Acked, Queued, Paid, Kept, Recorded, InHand, HandedOver, At,
       Event, Consumer!Empty
<1>6. ASSUME NEW q \in Chains, Return(q) \/ Throw(q)
      PROVE  Goal
  <2>1. /\ signer[q].at \in {"returned", "thrown"} /\ signer'[q].at = "idle"
        /\ \A r \in Chains : r # q => signer'[r] = signer[r] /\ chain'[r] = chain[r]
        /\ chain'[q].last = chain[q].last
        /\ chain'[q].next \in {chain[q].next, chain[q].next + 1}
        /\ UNCHANGED <<status, submitted, skipped, produced>>
    BY <1>t, <1>6 DEF Return, Throw, End, At, Waiting, Signer, Consumer!Handle, Consumer!Fail
  <2>2. Rows' /\ Hands' /\ Paid'
    BY <1>a, <2>1 DEF Rows, Hands, Paid, Kept, Recorded, InHand, HandedOver, At, Event
  <2>3. Queued'
    BY <1>a, <1>t, <2>1 DEF Queued, Consumer!Empty
  <2>4. \A n \in done' : n \in done \/ (n = chain[q].next /\ signer[q].at = "returned")
    BY <1>6 DEF Return, Throw, End, At, Consumer!Handle, Consumer!Fail
  <2>5. signer[q].at = "returned" /\ Event(q)[1] = "commit" => Recorded(Event(q)[2])
    BY <1>a, <1>t DEF Hands, HandedOver, At
  <2>6. Acked'
    BY <1>a, <2>1, <2>4, <2>5 DEF Acked, Recorded, Event
  <2> QED
    BY <2>2, <2>3, <2>6
<1>8. ASSUME NEW q \in Chains,
    (Consumer!SaveRedis(q) \/ Consumer!SaveFile(q)) /\ UNCHANGED signing
      PROVE  Goal
  <2>1. /\ UNCHANGED <<status, submitted, skipped, signer, done, produced>>
        /\ chain[q].at # "handle" /\ chain'[q].last = chain[q].last
        /\ chain'[q].next \in {chain[q].next, chain[q].next + 1}
        /\ \A r \in Chains : r # q => chain'[r] = chain[r]
    BY <1>t, <1>8 DEF Consumer!SaveRedis, Consumer!SaveFile, Consumer!Head, Consumer!seen, signing
  <2>2. signer[q].at = "idle"
    BY <1>t, <2>1
  <2>3. Queued'
    BY <1>a, <1>t, <2>1 DEF Queued, Consumer!Empty
  <2> QED
    BY <1>a, <2>1, <2>2, <2>3 DEF Rows, Hands, Acked, Paid, Kept, Recorded, InHand, HandedOver,
       At, Event
<1>9. ASSUME NEW q \in Chains, SignStep(q), UNCHANGED consuming
      PROVE  Goal
  <2> DEFINE now == signer[q].at
             then == signer'[q].at
             hand == {"sign", "save", "submit", "failure", "mark"}
  <2>p. PICK p \in Psbts : SigningTypeOK /\ now # "idle" /\ p = signer[q].psbt
    <3>1. now # "idle"
      BY <1>9 DEF SignStep, Lookup, CanExecute, FindExisting, GetBatch, Persist, RequestSign,
         SaveSigned, SubmitSigned, SaveBroadcast, RecordSuccess, RecordFailure, MarkFailed,
         MarkSettled, At
    <3> QED
      BY <1>t, <3>1 DEF HandlersOK
  <2>m. /\ SigningTypeOK' /\ \A r \in Chains : r # q => signer'[r] = signer[r]
        /\ signer'[q].psbt = p
        /\ \A r \in Psbts : r # p => status'[r] = status[r] /\ submitted'[r] = submitted[r]
        /\ submitted'[p] >= submitted[p] /\ skipped \subseteq skipped'
    BY <1>9, <2>p, StepMoves
  <2>n. {submitted[p], submitted'[p]} \subseteq Nat
    BY <2>p, <2>m DEF SigningTypeOK
  <2>u. UNCHANGED <<done, produced, chain>>
    BY <1>9 DEF consuming
  <2>s. (status[p] # "none" => Kept(p)) /\ HandedOver(q)
    BY <1>a, <2>p DEF Rows, Hands
  (* A handler that keeps hold of the PSBT, or never held it, leaves its row kept. *)
  <2>i. then \in hand => Kept(p)'
    BY <2>m, <2>p DEF Kept, InHand
  <2>o. now \notin hand /\ status'[p] = status[p] => (status'[p] # "none" => Kept(p)')
    BY <2>m, <2>n, <2>p, <2>s DEF Kept, InHand
  <2>k. submitted'[p] > 0 \/ p \in skipped' \/ status'[p] = "failed" => Kept(p)'
    BY DEF Kept
  <2>g. ASSUME status'[p] # "none" => Kept(p)', HandedOver(q)', status[p] # "none" => status'[p] # "none"
        PROVE  Goal
    <3>1. \A r \in Psbts : submitted[r] > 0 => submitted'[r] > 0
      BY <2>m, <2>n, <2>p
    <3>2. \A r \in Psbts : Recorded(r) => Recorded(r)'
      BY <2>m, <2>p, <2>g DEF Recorded
    <3>3. Rows'
      <4>1. ASSUME NEW r \in Psbts, r # p, status'[r] # "none"
            PROVE  Kept(r)'
        <5>1. Kept(r) /\ status'[r] = status[r]
          BY <1>a, <2>m, <4>1 DEF Rows
        <5>2. InHand(r) => InHand(r)'
          BY <2>m, <2>p, <4>1 DEF InHand
        <5> QED
          BY <2>m, <3>1, <5>1, <5>2 DEF Kept
      <4> QED
        BY <2>g, <4>1 DEF Rows
    <3>4. Hands'
      <4>1. ASSUME NEW r \in Chains, r # q
            PROVE  HandedOver(r)'
        <5>1. signer[r].at # "idle" => signer[r].psbt \in Psbts
          BY <1>t
        <5>2. \A w \in Psbts : status[w] # "none" => status'[w] # "none"
          BY <2>m, <2>g
        <5> QED
          BY <1>a, <2>m, <2>u, <3>1, <3>2, <4>1, <5>1, <5>2 DEF Hands, HandedOver, At, Event,
             Recorded
      <4> QED
        BY <2>g, <4>1 DEF Hands
    <3>5. Acked'
      BY <1>a, <1>e, <1>t, <2>u, <3>2 DEF Acked
    <3>6. Queued'
      BY <1>a, <2>u DEF Queued, Consumer!Empty
    <3>7. Paid'
      <4>1. \A n \in 1..produced : Script[n][2] \in Psbts
        BY <1>e, <1>t
      <4> QED
        BY <1>a, <2>u, <3>1, <4>1 DEF Paid
    <3> QED
      BY <3>3, <3>4, <3>5, <3>6, <3>7
  <2> HIDE DEF Goal
  <2>h. Event(q)' = Event(q)
    BY <2>u DEF Event
  <2> USE DEF At, Goto, Fault, PassOver, SetStatus, Signer
  <2>1. CASE Lookup(q) \/ CanExecute(q) \/ GetBatch(q)
    <3>1. /\ status'[p] = status[p] /\ now \in {"lookup", "breaker", "batch"}
          /\ then \in {"breaker", "find", "persist", "thrown", "returned"}
          /\ then = "returned" => p \in skipped'
      BY <2>p, <2>1 DEF SigningTypeOK, Lookup, CanExecute, GetBatch
    <3> QED
      BY <2>g, <2>m, <2>o, <3>1 DEF HandedOver, Recorded
  <2>2. CASE FindExisting(q)
    <3>1. /\ status'[p] = status[p] /\ now = "find" /\ then \in {"batch", "returned", "thrown"}
          /\ then = "returned" => status[p] # "none"
      BY <2>p, <2>2 DEF SigningTypeOK, FindExisting
    <3> QED
      BY <2>g, <2>m, <2>o, <3>1 DEF HandedOver, Recorded
  <2>3. CASE Persist(q)
    <3>1. /\ now = "persist" /\ then \in {"sign", "thrown"}
          /\ then = "sign" => status'[p] = "signing_pending"
          /\ then = "thrown" => status'[p] = status[p]
      BY <2>p, <2>3 DEF SigningTypeOK, Persist
    <3> QED
      BY <2>g, <2>i, <2>m, <2>o, <3>1 DEF HandedOver
  <2>4. CASE RequestSign(q) \/ SaveSigned(q)
    <3>1. /\ now \in {"sign", "save"} /\ then \in {"save", "submit", "failure"}
          /\ status'[p] = status[p] \/ status'[p] = "signed"
      BY <2>p, <2>4 DEF SigningTypeOK, RequestSign, SaveSigned
    <3> QED
      BY <2>g, <2>i, <2>m, <2>p, <2>s, <3>1 DEF HandedOver
  <2>5. CASE SubmitSigned(q)
    <3>1. /\ now = "submit" /\ status'[p] = status[p] /\ then \in {"confirm", "failure"}
          /\ then = "confirm" => submitted'[p] > 0
      BY <2>n, <2>p, <2>5 DEF SigningTypeOK, SubmitSigned
    <3> QED
      BY <2>g, <2>i, <2>k, <2>m, <2>p, <2>s, <3>1 DEF HandedOver
  <2>6. CASE SaveBroadcast(q) \/ RecordSuccess(q)
    <3>1. /\ now \in {"confirm", "success"} /\ then \in {"success", "returned", "failure"}
          /\ status'[p] = status[p] \/ status'[p] = "broadcast"
      BY <2>p, <2>6 DEF SigningTypeOK, SaveBroadcast, RecordSuccess
    <3>2. submitted'[p] > 0 /\ status'[p] # "none"
      BY <2>m, <2>n, <2>p, <2>s, <3>1 DEF HandedOver
    <3> QED
      BY <2>g, <2>k, <2>m, <3>1, <3>2 DEF HandedOver, Recorded
  <2>7. CASE RecordFailure(q) \/ MarkFailed(q)
    <3>1. /\ now \in {"failure", "mark"} /\ then \in {"mark", "thrown"}
          /\ status'[p] = status[p] \/ status'[p] = "failed"
          /\ then = "thrown" => p \in skipped' \/ status'[p] = "failed"
      BY <2>p, <2>7 DEF SigningTypeOK, RecordFailure, MarkFailed
    <3> QED
      BY <2>g, <2>i, <2>k, <2>m, <2>p, <2>s, <3>1 DEF HandedOver
  <2>8. CASE MarkSettled(q)
    <3>1. /\ now = "settle" /\ then = "returned" /\ Event(q)[1] = "settle"
          /\ status'[p] = status[p] \/ status'[p] = "settled"
      BY <1>t, <2>p, <2>8 DEF SigningTypeOK, MarkSettled, HandlerOK
    <3>2. submitted[p] > 0
      BY <1>a, <1>t, <2>p, <3>1 DEF Paid, Event
    <3>3. submitted'[p] > 0
      BY <2>m, <2>n, <3>2
    <3> QED
      BY <2>g, <2>h, <2>k, <2>m, <3>1, <3>3 DEF HandedOver
  <2> QED
    BY <1>9, <2>1, <2>2, <2>3, <2>4, <2>5, <2>6, <2>7, <2>8 DEF SignStep
<1> QED
  BY <1>c, <1>1, <1>2, <1>4, <1>5, <1>6, <1>8, <1>9 DEF Next, HandlerStep

(* While the process lives, whatever fails, breaks and overlaps, an         *)
(* acknowledged commit has its transaction at Bria or in hand, or a row    *)
(* that says it failed, unless it was passed over or its failure could not *)
(* be recorded.                                                            *)
THEOREM AcknowledgedAreSubmitted == Spec => []AcknowledgedIsSubmitted
<1>1. Spec => [](ConsumerInv /\ OneAtWork /\ InPlace)
  BY ConsumerHolds
<1>2. Spec => []HandlersOK
  BY HandlersInvariance
<1>3. ConsumerInv /\ Acknowledging => AcknowledgedIsSubmitted
  <2> SUFFICES ASSUME ConsumerInv, Acknowledging, crashes = 0, NEW n \in done,
                      Script[n][1] = "commit", Script[n][2] \notin skipped
               PROVE  \/ submitted[Script[n][2]] > 0
                      \/ status[Script[n][2]] = "failed"
                      \/ InHand(Script[n][2])
    BY DEF AcknowledgedIsSubmitted
  <2>1. Script[n][2] \in Psbts
    BY EventsTyped, DoneTyped
  <2> QED
    BY <2>1 DEF Acknowledging, Recorded, Kept
<1> QED
  BY <1>1, <1>2, <1>3, InitAcknowledging, NextAcknowledging, PTL DEF Spec

-----------------------------------------------------------------------------
(* Nothing is handed over twice. *)

LEMMA InitUndisturbed == Init => Undisturbed
  BY DEF Init, SigningInit, Consumer!Init, Undisturbed, Submitting, RowOK, At, Waiting

LEMMA NextUndisturbed ==
  ASSUME ConsumerInv, OneAtWork, InPlace, HandlersOK, CommittedFirst, Undisturbed,
         [Next]_vars
  PROVE  Undisturbed'
<1> DEFINE Goal == /\ failures' = 0
                   /\ \A q \in Chains : Submitting(q)'
                   /\ \A p \in Psbts : RowOK(p)'
<1> SUFFICES ASSUME faults' = 0, breaks' = 0, outages' = 0
             PROVE  Goal
  BY DEF Undisturbed
<1>c. faults = 0 /\ breaks = 0 /\ outages = 0
  BY BudgetsGrow, ChainsTyped DEF HandlersOK, SigningTypeOK
<1>u. /\ failures = 0
      /\ \A q \in Chains : Submitting(q)
      /\ \A p \in Psbts : RowOK(p)
  BY <1>c DEF Undisturbed
<1>t. /\ chain \in [Chains -> [next: 1..(Events + 1), last: 0..Events,
                               at: {"handle", "redis", "file"}]]
      /\ signer \in [Chains -> Signer] /\ submitted \in [Psbts -> Nat] /\ redis \in Nat
      /\ status \in [Psbts -> PsbtStatus]
      /\ \A q \in Chains : signer[q].at # "idle" => 
            /\ signer[q].psbt \in Psbts /\ signer[q].psbt = Event(q)[2]
            /\ chain[q].next \in 1..Events /\ redis = chain[q].next - 1
      /\ \A q \in Chains : HandlerOK(q)
      /\ \A q, r \in Chains : signer[q].at # "idle" /\ signer[r].at # "idle" => q = r
  <2>1. \A q \in Chains : ~Consumer!Empty(q) => chain[q].next \in 1..Events /\ Event(q)[2] \in Psbts
    BY ChainsTyped, EventsTyped DEF Consumer!Empty, Event
  <2>2. \A q \in Chains : current = q /\ chain[q].at = "handle" => redis = chain[q].next - 1
    BY <1>c, <1>u DEF InPlace
  <2> QED
    BY <1>c, <1>u, <2>1, <2>2, ChainsTyped, OneHandler
       DEF HandlersOK, SigningTypeOK, HandlerOK, At, Consumer!Head
<1> USE <1>c DEF Submitting, RowOK, HandlerOK, At, Goto, Fault,
        PassOver, SetStatus, Event, Consumer!Head, Consumer!Empty, Signer
<1>1. CASE UNCHANGED vars
  BY <1>t, <1>u, <1>1 DEF vars, consuming, signing
<1>2. CASE Produce
  BY <1>t, <1>u, <1>2 DEF Produce, Consumer!Produce, Consumer!memory, Consumer!budgets,
     Consumer!persisted, signing
<1>3. CASE Crash
  BY <1>t, <1>u, <1>3 DEF Crash, Consumer!Crash, Consumer!persisted, Waiting
<1>4. CASE Stream /\ UNCHANGED signing
  BY <1>t, <1>u, <1>4 DEF Stream, Consumer!Start, Consumer!Reconnect, Consumer!StreamBreaks,
     Consumer!Deliver, Consumer!budgets, Consumer!persisted, signing
<1>5. ASSUME NEW q \in Chains, Start(q)
      PROVE  Goal
  BY <1>t, <1>u, <1>5 DEF Start, Begin, Waiting, consuming
<1>6. ASSUME NEW q \in Chains, Return(q)
      PROVE  Goal
  BY <1>t, <1>u, <1>6 DEF Return, End, Waiting, Consumer!Handle, Consumer!persisted,
     Consumer!budgets
<1>7. ASSUME NEW q \in Chains, Throw(q)
      PROVE  Goal
  BY <1>t, <1>u, <1>7 DEF Throw, End
<1>8. ASSUME NEW q \in Chains,
    (Consumer!SaveRedis(q) \/ Consumer!SaveFile(q)) /\ UNCHANGED signing
      PROVE  Goal
  <2>1. failures' = 0 /\ \A r \in Chains : Submitting(r)'
    BY <1>u, <1>8 DEF Consumer!SaveRedis, Consumer!SaveFile, signing
  <2>2. redis' >= redis /\ redis' \in Nat
    <3>1. current = q /\ chain[q].next \in Nat
      BY <1>t, <1>u, <1>8 DEF Consumer!SaveRedis, Consumer!SaveFile, OneAtWork, Consumer!Empty
    <3>2. chain[q].at = "redis" => redis = chain[q].next - 1
      BY <1>u, <3>1 DEF InPlace
    <3> QED
      BY <1>t, <1>8, <3>1, <3>2 DEF Consumer!SaveRedis, Consumer!SaveFile
  <2>3. UNCHANGED <<status, submitted>>
    BY <1>8 DEF signing
  <2>4. ASSUME NEW p \in Psbts
        PROVE  RowOK(p)'
    BY SMTT(30), <1>u, <1>t, <2>2, <2>3
  <2> QED
    BY <2>1, <2>4
<1>9. ASSUME NEW q \in Chains, SignStep(q), UNCHANGED consuming
      PROVE  Goal
  <2> DEFINE now == signer[q].at
             then == signer'[q].at
  <2>p. PICK p \in Psbts : SigningTypeOK /\ now # "idle" /\ p = signer[q].psbt
    <3>1. now # "idle"
      BY <1>9 DEF SignStep, Lookup, CanExecute, FindExisting, GetBatch, Persist, RequestSign,
         SaveSigned, SubmitSigned, SaveBroadcast, RecordSuccess, RecordFailure, MarkFailed,
         MarkSettled
    <3> QED
      BY <1>t, <3>1 DEF HandlersOK
  <2>m. /\ SigningTypeOK' /\ \A r \in Chains : r # q => signer'[r] = signer[r]
        /\ signer'[q].psbt = p
        /\ now # "find" => signer'[q].existing = signer[q].existing
        /\ \A r \in Psbts : r # p => status'[r] = status[r] /\ submitted'[r] = submitted[r]
    BY <1>9, <2>p, StepMoves
  <2>n. {submitted[p], submitted'[p]} \subseteq Nat
    BY <2>m, <2>p DEF SigningTypeOK
  <2>s. /\ RowOK(p) /\ Submitting(q) /\ UNCHANGED <<redis, failures>>
        /\ \A r \in Chains : r # q => signer[r].at = "idle"
    BY <1>t, <1>u, <1>9, <2>p DEF consuming
  <2> HIDE DEF RowOK, Submitting, HandlerOK, Event
  <2> SUFFICES RowOK(p)' /\ Submitting(q)'
    <3>1. ASSUME NEW r \in Psbts, r # p
          PROVE  RowOK(r)'
      BY <1>u, <2>m, <2>s, <3>1 DEF RowOK
    <3>2. ASSUME NEW r \in Chains, r # q
          PROVE  Submitting(r)'
      BY <2>m, <2>s, <3>2 DEF Submitting
    <3> QED
      BY <1>u, <2>s, <3>1, <3>2 DEF RowOK, Submitting
  <2>1. CASE Lookup(q) \/ CanExecute(q) \/ GetBatch(q)
    <3>1. /\ status'[p] = status[p] /\ submitted'[p] = submitted[p]
          /\ now \in {"lookup", "breaker", "batch"}
          /\ then \in {"breaker", "find", "returned", "persist"}
          /\ then = "persist" => now = "batch"
      BY <2>p, <2>1 DEF SigningTypeOK, Lookup, CanExecute, GetBatch
    <3> QED
      BY <2>m, <2>p, <2>s, <3>1 DEF RowOK, Submitting
  <2>2. CASE FindExisting(q)
    <3>1. Event(q) = <<"commit", p>> /\ chain[q].next \in 1..Events /\ redis < chain[q].next
      BY <1>t, <2>p, <2>2, EventsTyped DEF FindExisting, HandlerOK, Event
    <3>2. status[p] \notin {"signed", "broadcast"} => submitted[p] = 0
      BY <1>t, <2>n, <2>s, <3>1 DEF RowOK, Event
    <3>3. /\ status'[p] = status[p] /\ submitted'[p] = submitted[p]
          /\ now = "find" /\ then \in {"batch", "returned"}
          /\ then = "batch" => /\ status[p] \notin {"signed", "broadcast"}
                               /\ signer'[q].existing <=> status[p] # "none"
      BY <2>p, <2>2 DEF SigningTypeOK, FindExisting
    <3> QED
      BY <2>m, <2>s, <3>2, <3>3 DEF RowOK, Submitting
  <2>3. CASE Persist(q)
    <3>1. submitted[p] = 0 /\ (signer[q].existing <=> status[p] # "none")
      BY <2>p, <2>s, <2>3 DEF Persist, Submitting
    <3>2. /\ status'[p] = "signing_pending" /\ submitted'[p] = 0
          /\ now = "persist" /\ then = "sign"
      BY <2>p, <2>3, <3>1 DEF SigningTypeOK, Persist
    <3> QED
      BY <2>m, <2>s, <3>2 DEF RowOK, Submitting
  <2>4. CASE RequestSign(q)
    <3>1. /\ status'[p] = status[p] /\ submitted'[p] = submitted[p]
          /\ now = "sign" /\ then = "save"
      BY <2>p, <2>4 DEF SigningTypeOK, RequestSign
    <3> QED
      BY <2>m, <2>p, <2>s, <3>1 DEF RowOK, Submitting
  <2>5. CASE SaveSigned(q)
    <3>1. /\ status'[p] = "signed" /\ submitted'[p] = submitted[p]
          /\ now = "save" /\ then = "submit"
      BY <2>p, <2>5 DEF SigningTypeOK, SaveSigned
    <3> QED
      BY <2>m, <2>p, <2>s, <3>1 DEF RowOK, Submitting
  <2>6. CASE SubmitSigned(q)
    <3>1. /\ status'[p] = status[p] /\ submitted'[p] = submitted[p] + 1
          /\ now = "submit" /\ then = "confirm"
      BY <2>p, <2>6 DEF SigningTypeOK, SubmitSigned
    <3>2. submitted[p] = 0 /\ status[p] = "signed"
      BY <2>p, <2>s, <3>1 DEF Submitting
    <3> QED
      BY <2>m, <3>1, <3>2 DEF RowOK, Submitting
  <2>7. CASE SaveBroadcast(q) \/ RecordSuccess(q)
    <3>1. /\ status'[p] \in {status[p], "broadcast"} /\ submitted'[p] = submitted[p]
          /\ now \in {"confirm", "success"} /\ then \in {"success", "returned"}
      BY <2>p, <2>7 DEF SigningTypeOK, SaveBroadcast, RecordSuccess
    <3> QED
      BY <2>m, <2>s, <3>1 DEF RowOK, Submitting
  <2>8. CASE RecordFailure(q) \/ MarkFailed(q)
    BY <2>s, <2>8 DEF RecordFailure, MarkFailed, Submitting
  <2>9. CASE MarkSettled(q)
    <3>1. /\ chain[q].next \in 1..Events /\ redis = chain[q].next - 1
          /\ Script[chain[q].next] = <<"settle", p>>
      BY <1>t, <2>p, <2>9, EventsTyped DEF MarkSettled, HandlerOK, Event
    <3>2. \A m \in 1..Events : Script[m] = <<"commit", p>> => m <= redis
      BY <3>1 DEF CommittedFirst
    <3>3. /\ status'[p] = status[p] \/ status'[p] = "settled"
          /\ submitted'[p] = submitted[p] /\ now = "settle" /\ then = "returned"
      BY <2>p, <2>9 DEF SigningTypeOK, MarkSettled
    <3> QED
      BY <2>m, <2>s, <3>2, <3>3 DEF RowOK, Submitting
  <2> QED
    BY <1>9, <2>1, <2>2, <2>3, <2>4, <2>5, <2>6, <2>7, <2>8, <2>9 DEF SignStep
<1> QED
  BY <1>1, <1>2, <1>3, <1>4, <1>5, <1>6, <1>7, <1>8, <1>9 DEF Next, HandlerStep

(* Replays submit a PSBT once, whatever crashes there are, as long as no call *)
(* fails, the stream holds and the cursor survives, for a Bria that commits *)
(* a payout before it settles it, and once.                                *)
THEOREM SubmittedAtMostOnce ==
  ASSUME CommittedFirst
  PROVE  Spec => []SubmittedOnce
<1>1. Spec => [](ConsumerInv /\ OneAtWork /\ InPlace)
  BY ConsumerHolds
<1>2. Spec => []HandlersOK
  BY HandlersInvariance
<1>3. /\ ConsumerInv /\ OneAtWork /\ InPlace /\ HandlersOK /\ Undisturbed
      /\ [Next]_vars
      => Undisturbed'
  BY CommittedFirst, NextUndisturbed
<1>4. Undisturbed => SubmittedOnce
  BY DEF Undisturbed, RowOK, SubmittedOnce
<1> QED
  BY <1>1, <1>2, <1>3, <1>4, InitUndisturbed, PTL DEF Spec

=============================================================================
