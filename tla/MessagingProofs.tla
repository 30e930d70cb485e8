--------------------------- MODULE MessagingProofs ---------------------------
(***************************************************************************)
(* Proofs about Messaging for any number of workers, messages, retries,     *)
(* deliveries and troubles.  The inbound row is the claim on a message:     *)
(* whoever creates it takes the message in, and since nobody creates it     *)
(* twice, a message that has it is being answered, was answered, or lost    *)
(* its words or its answer to a call that failed.                          *)
(***************************************************************************)
EXTENDS Messaging, TLAPS

USE DEF Garbled

(* w is about to take m in or, having done so, to answer it. *)
Answering(w, m) ==
    /\ worker[w].msg = m
    /\ worker[w].at = "handle" \/ (worker[w].at = "send" /\ ~worker[w].limited)

WorkerOK(w) ==
    /\ worker[w].at \in {"idle", "next"} <=> worker[w].msg = "none"
    /\ worker[w].at \in {"record", "handle"} => ~worker[w].limited
    /\ \A k \in worker[w].todo : attempts[k] > 0
    /\ worker[w].msg \in Messages =>
         LET m == worker[w].msg IN
         /\ worker[w].retries <= attempts[m]
         /\ worker[w].at = "fail" => worker[w].retries + 1 <= attempts[m]
         /\ worker[w].at = "handle" => m \in recorded
         /\ worker[w].at = "note" => m \in answered \/ Garbled(m)
         /\ worker[w].at = "mark" => m \in recorded \cup answered \/ Garbled(m)
         /\ worker[w].tick => attempts[m] > 0
         /\ worker[w].at = "bury" => event[m].status \notin {"none", "RECEIVED"}

(* The row that claims a message, and what came of it. *)
ClaimOK(m) ==
    /\ handled[m] \in {0, 1}
    /\ handled[m] = 1 =>
         m \in recorded /\ \A w \in Workers : ~(worker[w].msg = m /\ At(w, "handle"))
    /\ m \in recorded =>
         m \in answered \cup unsent \/ Garbled(m) \/ \E w \in Workers : Answering(w, m)
    /\ event[m].status = "PROCESSED" => m \in recorded \cup answered \/ Garbled(m)

(* The row that follows its processing: see EventAccounted. *)
EventOK(m) ==
    /\ event[m].status = "RECEIVED" =>
         m \in orphaned \/ \E w \in Workers : worker[w].msg = m /\ ~At(w, "store")
    /\ event[m].status = "FAILED" => event[m].retries \in 1..MaxRetries
    /\ event[m].retries <= attempts[m]
    /\ event[m].status = "DEAD_LETTER" =>
         \/ m \in orphaned \/ letters[m] > 0
         \/ \E w \in Workers : worker[w].msg = m /\ At(w, "bury")

OneHandles ==
    \A v, w \in Workers :
        At(v, "handle") /\ At(w, "handle") /\ worker[v].msg = worker[w].msg => v = w

Inv ==
    /\ TypeOK
    /\ \A w \in Workers : WorkerOK(w)
    /\ \A m \in Messages : ClaimOK(m)
    /\ \A m \in Messages : EventOK(m)
    /\ OneHandles

LEMMA InitInv == Init => Inv
  BY MessagingAssumption
  DEF MessagingAssumption, Init, Inv, TypeOK, WorkerOK, ClaimOK, EventOK, OneHandles, Answering,
      At, Idle, Status, Worker, ErrorKind

-----------------------------------------------------------------------------
(* How a step changes its worker. *)

(* Only w moves, if any. *)
Moves(w) ==
    /\ worker' \in [Workers -> Worker]
    /\ \A v \in Workers : v # w => worker'[v] = worker[v]

Keeps(w) ==
    /\ worker'[w].msg = worker[w].msg
    /\ worker'[w].retries = worker[w].retries
    /\ worker'[w].limited = worker[w].limited
    /\ worker'[w].tick = worker[w].tick
    /\ worker'[w].todo = worker[w].todo

LEMMA GotoMoves ==
  ASSUME TypeOK, NEW w \in Workers,
         NEW label \in {"idle", "store", "ack", "check", "record", "handle", "send", "note",
                        "mark", "attempt", "fail", "bury", "next"},
         Goto(w, label)
  PROVE  Moves(w) /\ Keeps(w) /\ worker'[w].at = label
  BY ZenonT(30) DEF TypeOK, Goto, Moves, Keeps, Worker

LEMMA CatchMoves ==
  ASSUME TypeOK, NEW w \in Workers, NEW kind \in ErrorKind, Catch(w, kind)
  PROVE  Moves(w) /\ Keeps(w) /\ worker'[w].at = "attempt"
<1>1. worker[w] \in Worker
  BY DEF TypeOK
<1> DEFINE x == [worker[w] EXCEPT !.error = kind, !.at = "attempt"]
<1>2. x \in Worker /\ x.at = "attempt" /\ x.msg = worker[w].msg
      /\ x.retries = worker[w].retries /\ x.limited = worker[w].limited
      /\ x.tick = worker[w].tick /\ x.todo = worker[w].todo
  BY <1>1 DEF Worker
<1>3. worker' = [worker EXCEPT ![w] = x]
  BY DEF Catch, TypeOK, Worker
<1> HIDE DEF x
<1> QED
  BY <1>2, <1>3 DEF TypeOK, Moves, Keeps

LEMMA DoneMoves ==
  ASSUME TypeOK, NEW w \in Workers, Done(w)
  PROVE  /\ Moves(w) /\ worker'[w].at \in {"idle", "next"} /\ worker'[w].msg = "none"
         /\ worker'[w].todo \subseteq worker[w].todo
  BY DEF TypeOK, Done, Moves, Worker, Idle, ErrorKind

LEMMA IdleMoves ==
  ASSUME TypeOK, NEW w \in Workers, worker' = [worker EXCEPT ![w] = Idle]
  PROVE  Moves(w) /\ worker'[w].at = "idle" /\ worker'[w].msg = "none" /\ worker'[w].todo = {}
  BY DEF TypeOK, Moves, Worker, Idle, ErrorKind

-----------------------------------------------------------------------------
(* What a step of w must look like not to disturb a part of Inv. *)

(* What other workers rely on only grows. *)
LEMMA OthersKept ==
  ASSUME Inv, NEW w \in Workers, Moves(w),
         \A m \in Messages : attempts'[m] \in Nat /\ attempts[m] <= attempts'[m],
         recorded \subseteq recorded', answered \subseteq answered',
         \A m \in Messages : event[m].status \notin {"none", "RECEIVED"} =>
                               event'[m].status \notin {"none", "RECEIVED"},
         WorkerOK(w)'
  PROVE  \A v \in Workers : WorkerOK(v)'
<1> SUFFICES ASSUME NEW v \in Workers, v # w
             PROVE  WorkerOK(v)'
  OBVIOUS
<1>1. WorkerOK(v) /\ worker'[v] = worker[v]
  BY DEF Inv, Moves
<1>2. worker[v].retries \in Nat
  BY DEF Inv, TypeOK, Worker
<1>3. (\A m \in Messages : attempts[m] \in Nat) /\ worker[v].todo \subseteq Messages
  BY <1>1 DEF Inv, TypeOK, Worker
<1>4. \A k \in worker'[v].todo : attempts'[k] > 0
  BY <1>1, <1>3 DEF WorkerOK
<1>6. ASSUME worker[v].msg \in Messages
      PROVE  LET m == worker[v].msg IN
             /\ worker[v].retries <= attempts'[m]
             /\ worker[v].at = "fail" => worker[v].retries + 1 <= attempts'[m]
             /\ worker[v].at = "handle" => m \in recorded'
             /\ worker[v].at = "note" => m \in answered' \/ (m \notin Taps /\ attempts'[m] > 0)
             /\ worker[v].at = "mark" => m \in recorded' \cup answered' \/ (m \notin Taps /\ attempts'[m] > 0)
             /\ worker[v].tick => attempts'[m] > 0
             /\ worker[v].at = "bury" => event'[m].status \notin {"none", "RECEIVED"}
  <2> DEFINE m == worker[v].msg
  <2>0. m \in Messages
    BY <1>6
  <2>1. /\ attempts[m] > 0 => attempts'[m] > 0
        /\ worker[v].retries <= attempts[m] => worker[v].retries <= attempts'[m]
        /\ worker[v].retries + 1 <= attempts[m] => worker[v].retries + 1 <= attempts'[m]
    <3>1. attempts[m] \in Nat /\ attempts'[m] \in Nat /\ attempts[m] <= attempts'[m]
      BY <1>3, <2>0
    <3> HIDE DEF m
    <3> QED
      BY ONLY <3>1, <1>2
  <2>2. /\ recorded \subseteq recorded' /\ answered \subseteq answered'
        /\ event[m].status \notin {"none", "RECEIVED"} =>
              event'[m].status \notin {"none", "RECEIVED"}
    BY <2>0
  <2>3. WorkerOK(v)
    BY <1>1
  <2> QED
    <3>1. /\ worker[v].retries <= attempts[m]
          /\ worker[v].at = "fail" => worker[v].retries + 1 <= attempts[m]
          /\ worker[v].at = "handle" => m \in recorded
          /\ worker[v].at = "note" => m \in answered \/ Garbled(m)
          /\ worker[v].at = "mark" => m \in recorded \cup answered \/ Garbled(m)
          /\ worker[v].tick => attempts[m] > 0
          /\ worker[v].at = "bury" => event[m].status \notin {"none", "RECEIVED"}
      BY ONLY <2>0, <2>3, Zenon DEF WorkerOK
    <3> HIDE DEF m
    <3>2. /\ worker[v].retries <= attempts'[m]
          /\ worker[v].at = "fail" => worker[v].retries + 1 <= attempts'[m]
          /\ worker[v].tick => attempts'[m] > 0
      BY ONLY <2>1, <3>1
    <3>3. /\ worker[v].at = "handle" => m \in recorded'
          /\ worker[v].at = "note" => m \in answered' \/ (m \notin Taps /\ attempts'[m] > 0)
          /\ worker[v].at = "mark" => m \in recorded' \cup answered' \/ (m \notin Taps /\ attempts'[m] > 0)
          /\ worker[v].at = "bury" => event'[m].status \notin {"none", "RECEIVED"}
      BY ONLY <2>1, <2>2, <3>1, Zenon
    <3> QED
      BY ONLY <3>2, <3>3, Zenon DEF m
<1>7. worker'[v] = worker[v] /\ WorkerOK(v)
  BY <1>1
<1> QED
  BY ONLY <1>4, <1>6, <1>7 DEF WorkerOK

(* A worker that rests, or is between two rows of its list, owes nothing.   *)
LEMMA RestingOK ==
  ASSUME Inv, NEW w \in Workers,
         worker'[w].at \in {"idle", "next"}, worker'[w].msg = "none",
         worker'[w].todo \subseteq worker[w].todo,
         \A m \in Messages : attempts'[m] \in Nat /\ attempts[m] <= attempts'[m]
  PROVE  WorkerOK(w)'
<1>1. (\A m \in Messages : attempts[m] \in Nat) /\ worker[w].todo \subseteq Messages
  BY DEF Inv, TypeOK, Worker
<1>2. \A k \in worker'[w].todo : attempts'[k] > 0
  BY <1>1 DEF Inv, WorkerOK
<1> QED
  BY <1>2, MessagingAssumption DEF WorkerOK, MessagingAssumption

(* The claims stand when w neither makes one nor drops one unnoted. *)
LEMMA ClaimKept ==
  ASSUME Inv, NEW w \in Workers, Moves(w),
         UNCHANGED <<recorded, handled, answered>>, unsent \subseteq unsent',
         \A m \in Messages : Garbled(m) => Garbled(m)',
         \A m \in Messages : event'[m].status = "PROCESSED" => event[m].status = "PROCESSED",
         \A m \in Messages : Answering(w, m) => Answering(w, m)' \/ m \in unsent',
         At(w, "handle")' => At(w, "handle") /\ worker'[w].msg = worker[w].msg
  PROVE  (\A m \in Messages : ClaimOK(m)') /\ OneHandles'
<1>1. \A m \in Messages, v \in Workers : v # w /\ Answering(v, m) => Answering(v, m)'
  BY DEF Answering, Moves
<1>2. ASSUME NEW m \in Messages
      PROVE  ClaimOK(m)'
  <2>1. ClaimOK(m)
    BY DEF Inv
  <2>2. \A v \in Workers : worker'[v].msg = m /\ At(v, "handle")' =>
                             worker[v].msg = m /\ At(v, "handle")
    BY DEF Moves, At
  <2>3. m \in recorded' => m \in (answered \cup unsent)' \/ Garbled(m)'
                          \/ \E v \in Workers : Answering(v, m)'
    BY <2>1, <1>1 DEF ClaimOK
  <2> QED
    BY <2>1, <2>2, <2>3 DEF ClaimOK
<1>3. OneHandles'
  BY DEF Inv, OneHandles, Moves, At
<1> QED
  BY <1>2, <1>3

(* The event rows stay right when w changes none of them and lets go of     *)
(* none that only it would see to.                                         *)
LEMMA EventKept ==
  ASSUME Inv, NEW w \in Workers, Moves(w), UNCHANGED event,
         \A m \in Messages : /\ attempts'[m] \in Nat /\ attempts[m] <= attempts'[m]
                             /\ letters[m] > 0 => letters'[m] > 0,
         orphaned \subseteq orphaned',
         \A m \in Messages :
            worker[w].msg = m /\ ~At(w, "store") /\ event[m].status = "RECEIVED" =>
               m \in orphaned' \/ (worker'[w].msg = m /\ ~At(w, "store")'),
         \A m \in Messages :
            worker[w].msg = m /\ At(w, "bury") =>
               m \in orphaned' \/ letters'[m] > 0 \/ (worker'[w].msg = m /\ At(w, "bury")')
  PROVE  \A m \in Messages : EventOK(m)'
<1> SUFFICES ASSUME NEW m \in Messages
             PROVE  EventOK(m)'
  OBVIOUS
<1>1. EventOK(m) /\ event[m].retries \in Nat /\ attempts[m] \in Nat
  BY DEF Inv, TypeOK
<1>2. event'[m].status = "RECEIVED" =>
        m \in orphaned' \/ \E v \in Workers : worker'[v].msg = m /\ ~At(v, "store")'
  BY <1>1 DEF EventOK, Moves, At
<1>3. event'[m].status = "DEAD_LETTER" =>
        \/ m \in orphaned' \/ letters'[m] > 0
        \/ \E v \in Workers : worker'[v].msg = m /\ At(v, "bury")'
  BY <1>1 DEF EventOK, Moves, At
<1> QED
  BY <1>1, <1>2, <1>3 DEF EventOK

(* A step of w that leaves the rows and the conversation alone. *)
LEMMA QuietKeepsInv ==
  ASSUME Inv, NEW w \in Workers, Moves(w), TypeOK', WorkerOK(w)',
         UNCHANGED <<rows, handled, answered>>,
         unsent \subseteq unsent', orphaned \subseteq orphaned',
         \A m \in Messages : Answering(w, m) => Answering(w, m)' \/ m \in unsent',
         At(w, "handle")' => At(w, "handle") /\ worker'[w].msg = worker[w].msg,
         \A m \in Messages :
            worker[w].msg = m /\ ~At(w, "store") /\ event[m].status = "RECEIVED" =>
               m \in orphaned' \/ (worker'[w].msg = m /\ ~At(w, "store")'),
         \A m \in Messages :
            worker[w].msg = m /\ At(w, "bury") =>
               m \in orphaned' \/ (worker'[w].msg = m /\ At(w, "bury")')
  PROVE  Inv'
<1>1. UNCHANGED <<event, attempts, letters, recorded, handled, answered>>
  BY DEF rows
<1>2. \A m \in Messages : attempts[m] \in Nat
  BY DEF Inv, TypeOK
<1>3. \A v \in Workers : WorkerOK(v)'
  BY <1>1, <1>2, OthersKept
<1>4. (\A m \in Messages : ClaimOK(m)') /\ OneHandles'
  BY <1>1, ClaimKept
<1>5. \A m \in Messages : EventOK(m)'
  BY <1>1, <1>2, EventKept
<1> QED
  BY <1>3, <1>4, <1>5 DEF Inv

-----------------------------------------------------------------------------
(* The steps. *)

(* The webhook. *)
LEMMA WebhookKeepsInv ==
  ASSUME Inv, NEW w \in Workers,
         \/ \E m \in Messages : Deliver(w, m)
         \/ Store(w) \/ StoreFails(w) \/ Acknowledge(w)
  PROVE  Inv'
<1> USE MessagingAssumption DEF MessagingAssumption
<1>t. TypeOK /\ WorkerOK(w) /\ worker[w] \in Worker
  BY DEF Inv, TypeOK
<1>a. \A k \in Messages : attempts[k] \in Nat
  BY <1>t DEF TypeOK
<1>1. ASSUME NEW m \in Messages, Deliver(w, m)
      PROVE  Inv'
  <2> DEFINE x == [Idle EXCEPT !.at = "store", !.msg = m]
  <2>1. UNCHANGED <<rows, fate>> /\ worker[w].msg = "none" /\ At(w, "idle")
    BY <1>t, <1>1 DEF Deliver, WorkerOK, At
  <2>2. x \in Worker /\ x.at = "store" /\ x.msg = m /\ x.retries = 0
    BY DEF Idle, Worker, ErrorKind
  <2>3. worker' = [worker EXCEPT ![w] = x]
    BY <1>1 DEF Deliver
  <2> HIDE DEF x
  <2>4. Moves(w) /\ worker'[w] = x
    BY <1>t, <2>2, <2>3 DEF TypeOK, Moves
  <2>a. deliveries < MaxDeliveries /\ deliveries' = deliveries + 1 /\ troubles' = troubles
    BY <1>1 DEF Deliver
  <2>5. TypeOK'
    BY <1>t, <2>1, <2>4, <2>a DEF TypeOK, Moves, rows, fate
  <2>6. WorkerOK(w)'
    <3>1. x.todo = {} /\ ~x.tick
      BY DEF x, Idle
    <3>2. attempts'[m] \in Nat /\ worker'[w] = x
      BY <1>t, <2>1, <2>4 DEF TypeOK, rows
    <3> QED
      BY <2>2, <3>1, <3>2 DEF WorkerOK
  <2> QED
    BY <2>1, <2>2, <2>4, <2>5, <2>6, QuietKeepsInv DEF fate, Answering, At
<1>2. CASE Store(w)
  <2> DEFINE m == worker[w].msg
  <2>1. UNCHANGED <<attempts, letters, recorded, fate>> /\ At(w, "store") /\ m \in Messages
    BY <1>t, <1>2 DEF Store, WorkerOK, At, Worker
  <2>2. CASE event[m].status = "none"
    <3>1. Moves(w) /\ Keeps(w) /\ worker'[w].at = "ack"
      BY <1>t, <1>2, <2>2, GotoMoves DEF Store
    <3>2. event' = [event EXCEPT ![m].status = "RECEIVED"]
      BY <1>2, <2>2 DEF Store
    <3>3. TypeOK'
      BY <1>t, <1>2, <2>1, <3>1, <3>2 DEF Store, TypeOK, Moves, Calm, fate, Status
    <3>4. \A k \in Messages :
            /\ k # m => event'[k] = event[k]
            /\ event'[k].retries = event[k].retries
      BY <1>t, <3>2 DEF TypeOK
    <3>5. event'[m].status = "RECEIVED"
      BY <1>t, <2>1, <3>2 DEF TypeOK
    <3>6. WorkerOK(w)'
      BY <1>t, <2>1, <3>1 DEF WorkerOK, Keeps, fate
    <3>7. \A v \in Workers : WorkerOK(v)'
      BY <1>t, <2>1, <2>2, <3>1, <3>4, <3>6, OthersKept DEF fate, TypeOK
    <3>8. (\A k \in Messages : ClaimOK(k)') /\ OneHandles'
      BY <2>1, <3>1, <3>4, <3>5, ClaimKept DEF fate, Answering, At, Keeps
    <3>9. ASSUME NEW k \in Messages
          PROVE  EventOK(k)'
      <4>1. EventOK(k)
        BY DEF Inv
      <4>2. CASE k = m
        BY <4>1, <4>2, <2>1, <3>1, <3>4, <3>5 DEF EventOK, Keeps, At, fate
      <4>3. CASE k # m
        BY <4>1, <4>3, <2>1, <3>1, <3>4 DEF EventOK, Keeps, Moves, At, fate
      <4> QED
        BY <4>2, <4>3
    <3> QED
      BY <3>3, <3>7, <3>8, <3>9 DEF Inv
  <2>3. CASE event[m].status # "none"
    <3>1. /\ Moves(w) /\ worker'[w].at \in {"idle", "next"} /\ worker'[w].msg = "none"
          /\ worker'[w].todo \subseteq worker[w].todo
      BY <1>t, <1>2, <2>3, DoneMoves DEF Store
    <3>2. UNCHANGED <<rows, fate>>
      BY <1>2, <2>1, <2>3 DEF Store, rows
    <3>3. TypeOK'
      BY <1>t, <1>2, <3>1, <3>2 DEF Store, TypeOK, Moves, Calm, rows, fate
    <3>4. WorkerOK(w)'
      BY <1>a, <3>1, <3>2, RestingOK DEF rows
    <3> QED
      BY <2>1, <3>1, <3>2, <3>3, <3>4, QuietKeepsInv DEF fate, Answering, At
  <2> QED
    BY <2>2, <2>3
<1>3. CASE StoreFails(w)
  <2>1. UNCHANGED <<rows, fate>> /\ At(w, "store")
    BY <1>3 DEF StoreFails
  <2>2. /\ Moves(w) /\ worker'[w].at \in {"idle", "next"} /\ worker'[w].msg = "none"
        /\ worker'[w].todo \subseteq worker[w].todo
    BY <1>t, <1>3, DoneMoves DEF StoreFails
  <2>3. TypeOK'
    BY <1>t, <1>3, <2>1, <2>2 DEF StoreFails, Trouble, TypeOK, Moves, rows, fate
  <2>4. WorkerOK(w)'
    BY <1>a, <2>1, <2>2, RestingOK DEF rows
  <2> QED
    BY <2>1, <2>2, <2>3, <2>4, QuietKeepsInv DEF fate, Answering, At
<1>4. CASE Acknowledge(w)
  <2>1. UNCHANGED <<rows, fate>> /\ At(w, "ack")
    BY <1>4 DEF Acknowledge
  <2>2. Moves(w) /\ Keeps(w) /\ worker'[w].at \in {"check", "attempt"}
    BY <1>t, <1>4, GotoMoves, CatchMoves DEF Acknowledge, ErrorKind
  <2>3. TypeOK'
    BY <1>t, <1>4, <2>1, <2>2 DEF Acknowledge, Trouble, TypeOK, Moves, rows, fate
  <2>4. WorkerOK(w)'
    BY <1>t, <2>1, <2>2 DEF WorkerOK, Keeps, rows, fate, At
  <2> QED
    BY <2>1, <2>2, <2>3, <2>4, QuietKeepsInv DEF fate, Answering, At, Keeps
<1> QED
  BY <1>1, <1>2, <1>3, <1>4

(* The flow: the claim, the conversation, the reply. *)
LEMMA FlowKeepsInv ==
  ASSUME Inv, NEW w \in Workers,
         Check(w) \/ Record(w) \/ Handle(w) \/ SendReply(w) \/ Note(w) \/ MarkProcessed(w)
  PROVE  Inv'
<1> USE MessagingAssumption DEF MessagingAssumption
<1> DEFINE m == worker[w].msg
<1>t. TypeOK /\ WorkerOK(w) /\ worker[w] \in Worker /\ \A k \in Messages : ClaimOK(k) /\ EventOK(k)
  BY DEF Inv, TypeOK
<1>a. \A k \in Messages : attempts[k] \in Nat
  BY <1>t DEF TypeOK
<1>m. m \in Messages /\ ~At(w, "store") /\ ~At(w, "bury")
  BY <1>t DEF Check, Record, Handle, SendReply, Note, MarkProcessed, WorkerOK, At, Worker
<1>1. CASE Check(w)
  <2>1. UNCHANGED <<rows, fate>> /\ At(w, "check")
    BY <1>1 DEF Check
  <2>2. CASE m \in recorded
    <3>1. Moves(w) /\ Keeps(w) /\ worker'[w].at = "mark"
      BY <1>t, <1>1, <2>2, GotoMoves DEF Check
    <3>2. TypeOK'
      BY <1>t, <1>1, <2>1, <3>1 DEF Check, Calm, TypeOK, Moves, rows, fate
    <3>3. WorkerOK(w)'
      BY <1>t, <2>1, <2>2, <3>1 DEF WorkerOK, Keeps, rows, fate, At
    <3> QED
      BY <2>1, <3>1, <3>2, <3>3, QuietKeepsInv DEF fate, Answering, At, Keeps
  <2>3. CASE m \notin recorded
    <3>1. PICK limited \in BOOLEAN :
            worker' = [worker EXCEPT ![w].limited = limited,
                                     ![w].at = IF limited THEN "send" ELSE "record"]
      BY <1>1, <2>3 DEF Check
    <3>2. /\ Moves(w) /\ worker'[w].at \in {"send", "record"}
          /\ worker'[w].msg = m /\ worker'[w].retries = worker[w].retries
          /\ worker'[w].at = "record" => ~worker'[w].limited
          /\ worker'[w].tick = worker[w].tick /\ worker'[w].todo = worker[w].todo
      <4>1. CASE limited = TRUE
        BY <1>t, <3>1, <4>1 DEF TypeOK, Moves, Worker
      <4>2. CASE limited = FALSE
        BY <1>t, <3>1, <4>2 DEF TypeOK, Moves, Worker
      <4> QED
        BY <4>1, <4>2
    <3>3. TypeOK'
      BY <1>t, <1>1, <2>1, <3>2 DEF Check, Calm, TypeOK, Moves, rows, fate
    <3>4. WorkerOK(w)'
      BY <1>t, <2>1, <3>2 DEF WorkerOK, rows, fate, At
    <3> QED
      BY <2>1, <3>2, <3>3, <3>4, QuietKeepsInv DEF fate, Answering, At
  <2> QED
    BY <2>2, <2>3
<1>2. CASE Record(w)
  <2>1. UNCHANGED <<event, attempts, letters, fate>> /\ At(w, "record")
    BY <1>2 DEF Record
  <2>2. CASE m \notin recorded
    <3>1. recorded' = recorded \cup {m}
      BY <1>2, <2>2 DEF Record
    <3>2. Moves(w) /\ Keeps(w) /\ worker'[w].at = "handle"
      BY <1>t, <1>2, <2>2, GotoMoves DEF Record
    <3>3. TypeOK'
      BY <1>t, <1>m, <1>2, <2>1, <3>1, <3>2 DEF Record, Calm, TypeOK, Moves, fate
    <3>4. WorkerOK(w)'
      BY <1>t, <2>1, <3>1, <3>2 DEF WorkerOK, Keeps, fate, At
    <3>5. \A v \in Workers : WorkerOK(v)'
      BY <1>a, <2>1, <3>1, <3>2, <3>4, OthersKept DEF fate
    <3>6. \A v \in Workers : worker[v].msg = m => ~At(v, "handle")
      BY <1>m, <2>2 DEF Inv, WorkerOK, At
    <3>7. OneHandles'
      BY <1>m, <3>2, <3>6 DEF Inv, OneHandles, Moves, Keeps, At
    <3>8. ASSUME NEW k \in Messages
          PROVE  ClaimOK(k)'
      <4>1. CASE k = m
        <5>1. handled'[m] = 0 /\ m \in recorded'
          BY <1>t, <1>m, <2>1, <2>2, <3>1 DEF ClaimOK, fate
        <5>2. \E v \in Workers : Answering(v, k)'
          BY <3>2, <4>1 DEF Answering, Keeps
        <5> QED
          BY <4>1, <5>1, <5>2 DEF ClaimOK
      <4>2. CASE k # m
        BY <1>t, <2>1, <3>1, <3>2, <4>2 DEF ClaimOK, fate, Answering, Moves, Keeps, At
      <4> QED
        BY <4>1, <4>2
    <3>9. \A k \in Messages : EventOK(k)'
      BY <1>a, <1>m, <2>1, <3>2, EventKept DEF fate, At, Keeps
    <3> QED
      BY <3>3, <3>5, <3>7, <3>8, <3>9 DEF Inv
  <2>3. CASE m \in recorded
    <3>1. UNCHANGED <<rows, fate>>
      BY <1>2, <2>1, <2>3 DEF Record, rows
    <3>2. Moves(w) /\ Keeps(w) /\ worker'[w].at = "attempt"
      BY <1>t, <1>2, <2>3, CatchMoves DEF Record, ErrorKind
    <3>3. TypeOK'
      BY <1>t, <1>2, <3>1, <3>2 DEF Record, Calm, TypeOK, Moves, rows, fate
    <3>4. WorkerOK(w)'
      BY <1>t, <2>1, <3>1, <3>2 DEF WorkerOK, Keeps, rows, fate, At
    <3> QED
      BY <2>1, <3>1, <3>2, <3>3, <3>4, QuietKeepsInv DEF fate, Answering, At, Keeps
  <2> QED
    BY <2>2, <2>3
<1>3. CASE Handle(w)
  <2>1. UNCHANGED <<rows, answered, unsent, orphaned>> /\ At(w, "handle")
    BY <1>3 DEF Handle
  <2>2. handled' = [handled EXCEPT ![m] = @ + 1]
    BY <1>3 DEF Handle
  <2>3. Moves(w) /\ Keeps(w) /\ worker'[w].at = "send"
    BY <1>t, <1>3, GotoMoves DEF Handle
  <2>a. handled' \in [Messages -> Nat]
    BY <1>t, <1>m, <2>2 DEF TypeOK
  <2>4. TypeOK'
    BY <1>t, <1>3, <2>1, <2>3, <2>a DEF Handle, Calm, TypeOK, Moves, rows
  <2>5. m \in recorded /\ handled[m] = 0
    BY <1>t, <1>m, <2>1 DEF WorkerOK, ClaimOK, At
  <2>6. WorkerOK(w)'
    BY <1>t, <2>1, <2>3 DEF WorkerOK, Keeps, rows, At
  <2>7. \A v \in Workers : WorkerOK(v)'
    BY <1>a, <2>1, <2>3, <2>6, OthersKept DEF rows
  <2>8. OneHandles'
    BY <2>3 DEF Inv, OneHandles, Moves, At
  <2>9. \A v \in Workers : worker'[v].msg = m => ~At(v, "handle")'
    BY <2>1, <2>3 DEF Inv, OneHandles, Moves, At
  <2>10. ASSUME NEW k \in Messages
         PROVE  ClaimOK(k)'
    <3>1. \A v \in Workers : v # w /\ Answering(v, k) => Answering(v, k)'
      BY <2>3 DEF Answering, Moves
    <3>2. k \in recorded => k \in answered \cup unsent \/ Garbled(k)
                             \/ \E v \in Workers : Answering(v, k)
      BY <1>t DEF ClaimOK
    <3>3. k = m => Answering(w, k)'
      BY <1>t, <2>1, <2>3 DEF Answering, Keeps, WorkerOK, At
    <3>4. k \in recorded' => k \in (answered \cup unsent)' \/ Garbled(k)'
                              \/ \E v \in Workers : Answering(v, k)'
      <4>1. CASE k = m
        BY <3>3, <4>1
      <4>2. CASE k # m
        <5>1. ~Answering(w, k)
          BY <4>2 DEF Answering
        <5>2. UNCHANGED <<recorded, answered, unsent, attempts>>
          BY <2>1 DEF rows
        <5> QED
          BY <3>1, <3>2, <5>1, <5>2
      <4> QED
        BY <4>1, <4>2
    <3>5. CASE k = m
      <4>1. handled'[k] = 1
        BY <1>t, <1>m, <2>2, <2>5, <3>5 DEF TypeOK
      <4> QED
        BY <1>t, <2>1, <2>5, <2>9, <3>4, <3>5, <4>1 DEF ClaimOK, rows
    <3>6. CASE k # m
      <4>1. handled'[k] = handled[k]
        BY <1>t, <2>2, <3>6 DEF TypeOK
      <4> QED
        BY <1>t, <2>1, <2>3, <3>4, <3>6, <4>1 DEF ClaimOK, rows, At, Moves, Keeps
    <3> QED
      BY <3>5, <3>6
  <2>11. \A k \in Messages : EventOK(k)'
    BY <1>a, <1>m, <2>1, <2>3, EventKept DEF rows, At, Keeps
  <2> QED
    BY <2>4, <2>7, <2>8, <2>10, <2>11 DEF Inv
<1>4. CASE SendReply(w)
  <2>1. /\ UNCHANGED <<rows, handled, unsent, orphaned>> /\ answered \subseteq answered'
        /\ answered' \subseteq answered \cup {m} /\ (m \in answered' \/ Garbled(m))
    BY <1>t, <1>m, <1>4 DEF SendReply, AsWritten, WorkerOK
  <2>2. Moves(w) /\ Keeps(w) /\ worker'[w].at = "note" /\ At(w, "send")
    BY <1>t, <1>4, GotoMoves DEF SendReply
  <2>3. TypeOK'
    BY <1>t, <1>m, <1>4, <2>1, <2>2 DEF SendReply, Calm, TypeOK, Moves, rows
  <2>4. WorkerOK(w)'
    BY <1>t, <2>1, <2>2 DEF WorkerOK, Keeps, rows, At
  <2>5. \A v \in Workers : WorkerOK(v)'
    BY <1>a, <2>1, <2>2, <2>4, OthersKept DEF rows
  <2>6. OneHandles'
    BY <2>2 DEF Inv, OneHandles, Moves, At
  <2>7. ASSUME NEW k \in Messages
        PROVE  ClaimOK(k)'
    BY <1>t, <2>1, <2>2 DEF ClaimOK, rows, At, Moves, Keeps, Answering
  <2>8. \A k \in Messages : EventOK(k)'
    BY <1>a, <1>m, <2>1, <2>2, EventKept DEF rows, At, Keeps
  <2> QED
    BY <2>3, <2>5, <2>6, <2>7, <2>8 DEF Inv
<1>5. CASE Note(w)
  <2>1. UNCHANGED <<rows, fate>> /\ At(w, "note")
    BY <1>5 DEF Note
  <2>2. Moves(w) /\ Keeps(w) /\ worker'[w].at = "mark"
    BY <1>t, <1>5, GotoMoves DEF Note
  <2>3. TypeOK'
    BY <1>t, <1>5, <2>1, <2>2 DEF Note, Calm, TypeOK, Moves, rows, fate
  <2>4. WorkerOK(w)'
    BY <1>t, <2>1, <2>2 DEF WorkerOK, Keeps, rows, fate, At
  <2> QED
    BY <2>1, <2>2, <2>3, <2>4, QuietKeepsInv DEF fate, Answering, At, Keeps
<1>6. CASE MarkProcessed(w)
  <2>1. UNCHANGED <<attempts, letters, recorded, fate>> /\ At(w, "mark")
    BY <1>6 DEF MarkProcessed
  <2>2. event' = [event EXCEPT ![m].status = "PROCESSED"]
    BY <1>6 DEF MarkProcessed
  <2>3. /\ event'[m].status = "PROCESSED" /\ event'[m].retries = event[m].retries
        /\ \A k \in Messages : k # m => event'[k] = event[k]
    BY <1>t, <1>m, <2>2 DEF TypeOK
  <2>4. /\ Moves(w) /\ worker'[w].at \in {"idle", "next"} /\ worker'[w].msg = "none"
        /\ worker'[w].todo \subseteq worker[w].todo
    BY <1>t, <1>6, DoneMoves DEF MarkProcessed
  <2>5. TypeOK'
    BY <1>t, <1>m, <1>6, <2>1, <2>2, <2>4 DEF MarkProcessed, Calm, TypeOK, Moves, fate, Status
  <2>6. WorkerOK(w)'
    BY <1>a, <2>1, <2>4, RestingOK
  <2>7. \A v \in Workers : WorkerOK(v)'
    BY <1>a, <2>1, <2>3, <2>4, <2>6, OthersKept DEF fate
  <2>8. OneHandles'
    BY <2>4 DEF Inv, OneHandles, Moves, At
  <2>9. ASSUME NEW k \in Messages
        PROVE  ClaimOK(k)'
    <3>1. ClaimOK(k) /\ (m \in recorded \cup answered \/ Garbled(m))
      BY <1>t, <1>m, <2>1 DEF WorkerOK, At
    <3>2. \A v \in Workers : Answering(v, k) => Answering(v, k)'
      BY <2>1, <2>4 DEF Answering, Moves, At
    <3>3. \A v \in Workers : worker'[v].msg = k /\ At(v, "handle")' => worker[v].msg = k /\ At(v, "handle")
      BY <2>4 DEF Moves, At
    <3> QED
      BY <2>1, <2>3, <3>1, <3>2, <3>3 DEF ClaimOK, fate
  <2>10. ASSUME NEW k \in Messages
         PROVE  EventOK(k)'
    BY <1>t, <1>m, <2>1, <2>3, <2>4 DEF EventOK, Moves, At, fate
  <2> QED
    BY <2>5, <2>7, <2>8, <2>9, <2>10 DEF Inv
<1> QED
  BY <1>1, <1>2, <1>3, <1>4, <1>5, <1>6

(* A call of the flow fails, or the worker dies. *)
LEMMA FlowFailsKeepsInv ==
  ASSUME Inv, NEW w \in Workers, FlowFails(w)
  PROVE  Inv'
<1> USE MessagingAssumption DEF MessagingAssumption
<1>t. TypeOK /\ WorkerOK(w) /\ worker[w] \in Worker
  BY DEF Inv, TypeOK
<1>1. /\ UNCHANGED <<rows, handled, answered, orphaned, deliveries>>
      /\ worker[w].at \in {"check", "record", "handle", "send", "note", "mark"}
  BY DEF FlowFails, At
<1>2. Moves(w) /\ Keeps(w) /\ worker'[w].at = "attempt"
  BY <1>t, CatchMoves DEF FlowFails, ErrorKind
<1>3. worker[w].msg \in Messages
  BY <1>t, <1>1 DEF WorkerOK, Worker
<1>4. /\ unsent \subseteq unsent' /\ unsent' \subseteq Messages
      /\ \A m \in Messages : Answering(w, m) => m \in unsent'
  BY <1>t, <1>3 DEF FlowFails, TypeOK, Answering, At
<1>5. TypeOK'
  BY <1>t, <1>1, <1>2, <1>4 DEF FlowFails, Trouble, TypeOK, Moves, rows
<1>6. WorkerOK(w)'
  BY <1>t, <1>1, <1>2 DEF WorkerOK, Keeps, rows
<1> QED
  BY <1>1, <1>2, <1>4, <1>5, <1>6, QuietKeepsInv DEF At, Keeps

LEMMA CrashKeepsInv ==
  ASSUME Inv, NEW w \in Workers, Crash(w)
  PROVE  Inv'
<1> USE MessagingAssumption DEF MessagingAssumption
<1>t. TypeOK /\ WorkerOK(w) /\ worker[w] \in Worker
  BY DEF Inv, TypeOK
<1>1. UNCHANGED <<rows, handled, answered, deliveries>> /\ orphaned' = orphaned \cup {worker[w].msg}
  BY DEF Crash
<1>2. Moves(w) /\ worker'[w].at = "idle" /\ worker'[w].msg = "none" /\ worker'[w].todo = {}
  BY <1>t, IdleMoves DEF Crash
<1>3. worker[w].msg \in Messages
  BY <1>t DEF Crash, Worker
<1>4. /\ unsent \subseteq unsent' /\ unsent' \subseteq Messages
      /\ \A m \in Messages : Answering(w, m) => m \in unsent'
  BY <1>t, <1>3 DEF Crash, TypeOK, Answering, At
<1>5. TypeOK'
  BY <1>t, <1>1, <1>2, <1>3, <1>4 DEF Crash, Trouble, TypeOK, Moves, rows
<1>6. WorkerOK(w)'
  BY <1>2 DEF WorkerOK
<1> QED
  BY <1>1, <1>2, <1>4, <1>5, <1>6, QuietKeepsInv DEF At

(* handleProcessingError. *)
LEMMA ErrorKeepsInv ==
  ASSUME Inv, NEW w \in Workers,
         CreateDeliveryAttempt(w) \/ MarkFailed(w) \/ CreateDeadLetter(w) \/ NotingFails(w)
  PROVE  Inv'
<1> USE MessagingAssumption DEF MessagingAssumption
<1> DEFINE m == worker[w].msg
<1>t. TypeOK /\ WorkerOK(w) /\ worker[w] \in Worker /\ \A k \in Messages : ClaimOK(k) /\ EventOK(k)
  BY DEF Inv, TypeOK
<1>a. \A k \in Messages : attempts[k] \in Nat /\ letters[k] \in Nat
  BY <1>t DEF TypeOK
<1>m. m \in Messages /\ worker[w].at \in {"attempt", "fail", "bury"}
  BY <1>t DEF CreateDeliveryAttempt, MarkFailed, CreateDeadLetter, NotingFails, WorkerOK, At, Worker
<1>r. worker[w].retries \in Nat
  BY <1>t DEF Worker
<1>1. CASE CreateDeliveryAttempt(w)
  <2>1. UNCHANGED <<event, letters, recorded, fate>> /\ At(w, "attempt")
    BY <1>1 DEF CreateDeliveryAttempt
  <2>2. attempts' = [attempts EXCEPT ![m] = @ + 1]
    BY <1>1 DEF CreateDeliveryAttempt
  <2>3. /\ attempts' \in [Messages -> Nat] /\ attempts'[m] = attempts[m] + 1
        /\ \A k \in Messages : attempts[k] <= attempts'[k]
    BY <1>t, <1>m, <2>2 DEF TypeOK
  <2>4. Moves(w) /\ Keeps(w) /\ worker'[w].at = "fail"
    BY <1>t, <1>1, GotoMoves DEF CreateDeliveryAttempt
  <2>5. TypeOK'
    BY <1>t, <1>1, <2>1, <2>3, <2>4 DEF CreateDeliveryAttempt, Calm, TypeOK, Moves, fate
  <2>6. WorkerOK(w)'
    <3>1. worker[w].todo \subseteq Messages
      BY <1>t DEF Worker
    <3>2. \A k \in worker'[w].todo : attempts'[k] > 0
      BY <1>t, <1>a, <2>3, <2>4, <3>1 DEF WorkerOK, Keeps
    <3>3. /\ worker'[w].msg = m /\ worker'[w].at = "fail" /\ attempts'[m] > 0
          /\ worker'[w].retries + 1 <= attempts'[m] /\ worker'[w].retries <= attempts'[m]
      BY <1>t, <1>a, <1>m, <1>r, <2>3, <2>4 DEF WorkerOK, Keeps
    <3> QED
      BY <1>m, <3>2, <3>3 DEF WorkerOK
  <2>b. \A k \in Messages : attempts'[k] \in Nat /\ attempts[k] <= attempts'[k]
    BY <2>3
  <2>7. \A v \in Workers : WorkerOK(v)'
    BY <2>1, <2>b, <2>4, <2>6, OthersKept DEF fate
  <2>c. \A k \in Messages : Garbled(k) => Garbled(k)'
    BY <1>a, <2>b
  <2>8. (\A k \in Messages : ClaimOK(k)') /\ OneHandles'
    BY <2>1, <2>4, <2>c, ClaimKept DEF fate, Answering, At, Keeps
  <2>9. \A k \in Messages : EventOK(k)'
    BY <2>1, <2>3, <2>4, EventKept DEF fate, At, Keeps
  <2> QED
    BY <2>5, <2>7, <2>8, <2>9 DEF Inv
<1>2. CASE MarkFailed(w)
  <2>1. UNCHANGED <<attempts, letters, recorded, fate>> /\ At(w, "fail")
    BY <1>2 DEF MarkFailed
  <2> DEFINE new == [status |-> IF ShouldRetry(w) THEN "FAILED" ELSE "DEAD_LETTER",
                     retries |-> Count(w)]
  <2>2. event' = [event EXCEPT ![m] = new]
    BY <1>2 DEF MarkFailed
  <2>3. /\ new \in [status: Status, retries: Nat]
        /\ new.status \in {"FAILED", "DEAD_LETTER"}
        /\ new.status = "FAILED" => new.retries \in 1..MaxRetries
        /\ new.status = "FAILED" <=> ShouldRetry(w)
        /\ new.retries <= attempts[m]
    BY <1>t, <1>m, <1>r, <2>1 DEF ShouldRetry, Count, Status, WorkerOK, At
  <2> HIDE DEF new
  <2>4. event'[m] = new /\ \A k \in Messages : k # m => event'[k] = event[k]
    BY <1>t, <1>m, <2>2 DEF TypeOK
  <2>5. /\ Moves(w)
        /\ \/ worker'[w].at \in {"idle", "next"} /\ worker'[w].msg = "none"
              /\ new.status = "FAILED" /\ worker'[w].todo \subseteq worker[w].todo
           \/ Keeps(w) /\ worker'[w].at = "bury"
    BY <1>t, <1>2, <2>3, GotoMoves, DoneMoves DEF MarkFailed
  <2>a. event' \in [Messages -> [status: Status, retries: Nat]]
    BY <1>t, <1>m, <2>2, <2>3 DEF TypeOK
  <2>b. UNCHANGED <<deliveries, troubles>>
    BY <1>2 DEF MarkFailed, Calm
  <2>6. TypeOK'
    BY <1>t, <2>1, <2>5, <2>a, <2>b DEF TypeOK, Moves, fate
  <2>7. WorkerOK(w)'
    BY <1>t, <1>m, <2>1, <2>3, <2>4, <2>5 DEF WorkerOK, Keeps, At
  <2>8. \A v \in Workers : WorkerOK(v)'
    BY <1>a, <2>1, <2>3, <2>4, <2>5, <2>7, OthersKept DEF fate
  <2>9. (\A k \in Messages : ClaimOK(k)') /\ OneHandles'
    BY <2>1, <2>3, <2>4, <2>5, ClaimKept DEF fate, Answering, At
  <2>10. ASSUME NEW k \in Messages
         PROVE  EventOK(k)'
    <3>1. CASE k = m
      BY <1>m, <2>1, <2>3, <2>4, <2>5, <3>1 DEF EventOK, Keeps, At
    <3>2. CASE k # m
      BY <1>t, <2>1, <2>4, <2>5, <3>2 DEF EventOK, Moves, Keeps, At, fate
    <3> QED
      BY <3>1, <3>2
  <2> QED
    BY <2>6, <2>8, <2>9, <2>10 DEF Inv
<1>3. CASE CreateDeadLetter(w)
  <2>1. UNCHANGED <<event, attempts, recorded, fate>> /\ At(w, "bury")
    BY <1>3 DEF CreateDeadLetter
  <2>2. letters' = [letters EXCEPT ![m] = @ + 1]
    BY <1>3 DEF CreateDeadLetter
  <2>3. /\ letters' \in [Messages -> Nat] /\ letters'[m] > 0
        /\ \A k \in Messages : letters[k] > 0 => letters'[k] > 0
    BY <1>t, <1>a, <1>m, <2>2 DEF TypeOK
  <2>4. /\ Moves(w) /\ worker'[w].at \in {"idle", "next"} /\ worker'[w].msg = "none"
        /\ worker'[w].todo \subseteq worker[w].todo
    BY <1>t, <1>3, DoneMoves DEF CreateDeadLetter
  <2>5. TypeOK'
    BY <1>t, <1>3, <2>1, <2>3, <2>4 DEF CreateDeadLetter, Calm, TypeOK, Moves, fate
  <2>6. WorkerOK(w)'
    BY <1>a, <2>1, <2>4, RestingOK
  <2>7. \A v \in Workers : WorkerOK(v)'
    BY <1>a, <2>1, <2>4, <2>6, OthersKept DEF fate
  <2>8. (\A k \in Messages : ClaimOK(k)') /\ OneHandles'
    BY <2>1, <2>4, ClaimKept DEF fate, Answering, At
  <2>9. event[m].status # "RECEIVED"
    BY <1>t, <1>m, <2>1 DEF WorkerOK, At
  <2>10. \A k \in Messages : EventOK(k)'
    BY <1>a, <2>1, <2>3, <2>4, <2>9, EventKept DEF fate
  <2> QED
    BY <2>5, <2>7, <2>8, <2>10 DEF Inv
<1>4. CASE NotingFails(w)
  <2>1. UNCHANGED <<rows, handled, answered, unsent, deliveries>> /\ orphaned' = orphaned \cup {m}
    BY <1>4 DEF NotingFails
  <2>2. Moves(w) /\ worker'[w].at = "idle" /\ worker'[w].msg = "none" /\ worker'[w].todo = {}
    BY <1>t, <1>4, IdleMoves DEF NotingFails
  <2>3. TypeOK'
    BY <1>t, <1>m, <1>4, <2>1, <2>2 DEF NotingFails, Trouble, TypeOK, Moves, rows
  <2>4. WorkerOK(w)'
    BY <2>2 DEF WorkerOK
  <2> QED
    BY <1>m, <2>1, <2>2, <2>3, <2>4, QuietKeepsInv DEF Answering, At
<1> QED
  BY <1>1, <1>2, <1>3, <1>4

(* The cron. *)
LEMMA CronKeepsInv ==
  ASSUME Inv, NEW w \in Workers, Tick(w) \/ TakeNext(w)
  PROVE  Inv'
<1> USE MessagingAssumption DEF MessagingAssumption
<1>t. TypeOK /\ WorkerOK(w) /\ worker[w] \in Worker
  BY DEF Inv, TypeOK
<1>1. /\ UNCHANGED <<rows, fate, deliveries, troubles>>
      /\ worker[w].at \in {"idle", "next"} /\ worker[w].msg = "none"
  BY <1>t DEF Tick, TakeNext, Calm, WorkerOK, At
<1>2. /\ Moves(w)
      /\ \/ worker'[w].at \in {"idle", "next"} /\ worker'[w].msg = "none"
         \/ /\ worker'[w].at = "check" /\ worker'[w].msg \in Messages
            /\ worker'[w].retries = event[worker'[w].msg].retries
            /\ attempts[worker'[w].msg] > 0
      /\ \A k \in worker'[w].todo : attempts[k] > 0
  <2>1. CASE Tick(w)
    <3>1. PICK due \in SUBSET {m \in Messages : event[m].status = "FAILED"} :
            worker' = [worker EXCEPT ![w] = [Idle EXCEPT !.at = "next", !.tick = TRUE,
                                                         !.todo = due]]
      BY <2>1 DEF Tick
    <3>2. \A k \in due : attempts[k] > 0
      <4> SUFFICES ASSUME NEW k \in due
                   PROVE  attempts[k] > 0
        OBVIOUS
      <4>1. EventOK(k) /\ attempts[k] \in Nat /\ event[k].status = "FAILED"
        BY DEF Inv, TypeOK
      <4> QED
        BY <4>1 DEF EventOK
    <3> QED
      BY <1>t, <3>1, <3>2 DEF TypeOK, Moves, Worker, Idle, ErrorKind
  <2>2. CASE TakeNext(w) /\ worker' = [worker EXCEPT ![w] = Idle]
    BY <1>t, <2>2, IdleMoves
  <2>3. CASE TakeNext(w) /\ worker' # [worker EXCEPT ![w] = Idle]
    <3>1. PICK m \in worker[w].todo :
            worker' = [worker EXCEPT ![w].at = "check", ![w].msg = m,
                                     ![w].retries = event[m].retries, ![w].todo = @ \ {m}]
      BY <2>3 DEF TakeNext
    <3>2. /\ m \in Messages /\ event[m].retries \in Nat
          /\ \A k \in worker[w].todo : attempts[k] > 0
      BY <1>t DEF TypeOK, Worker, WorkerOK
    <3> DEFINE x == [at |-> "check", msg |-> m, retries |-> event[m].retries,
                     error |-> worker[w].error, limited |-> worker[w].limited,
                     tick |-> worker[w].tick, todo |-> worker[w].todo \ {m}]
    <3>3. x \in Worker
      BY <1>t, <3>2 DEF Worker
    <3>4. worker' = [worker EXCEPT ![w] = x]
      BY SMTT(30), <1>t, <3>1 DEF Worker, TypeOK
    <3> QED
      BY <1>t, <3>2, <3>3, <3>4 DEF TypeOK, Moves
  <2> QED
    BY <2>1, <2>2, <2>3
<1>3. TypeOK'
  BY <1>t, <1>1, <1>2 DEF TypeOK, Moves, rows, fate
<1>4. WorkerOK(w)'
  <2>1. (\A m \in Messages : attempts[m] \in Nat) /\ \A m \in Messages : EventOK(m)
    BY <1>t DEF Inv, TypeOK
  <2>2. \A k \in worker'[w].todo : attempts'[k] > 0
    BY <1>1, <1>2 DEF rows
  <2> QED
    BY <1>1, <1>2, <2>1, <2>2 DEF WorkerOK, EventOK, rows
<1> QED
  BY <1>1, <1>2, <1>3, <1>4, QuietKeepsInv DEF Answering, At, fate

LEMMA NextInv ==
  ASSUME Inv, [Next]_vars
  PROVE  Inv'
<1>1. CASE UNCHANGED vars
  BY <1>1 DEF vars, rows, fate, Inv, TypeOK, WorkerOK, ClaimOK, EventOK, OneHandles, Answering, At
<1>2. ASSUME NEW w \in Workers,
             Work(w) \/ Tick(w) \/ Crash(w) \/ \E m \in Messages : Deliver(w, m)
      PROVE  Inv'
  BY <1>2, WebhookKeepsInv, FlowKeepsInv, FlowFailsKeepsInv, ErrorKeepsInv, CronKeepsInv,
     CrashKeepsInv DEF Work
<1> QED
  BY <1>1, <1>2 DEF Next

-----------------------------------------------------------------------------

LEMMA Invariance == Spec => []Inv
  BY InitInv, NextInv, PTL DEF Spec

(* Rows, workers and counters keep their types. *)
THEOREM TypeCorrect == Spec => []TypeOK
  BY Invariance, PTL DEF Inv

(* The conversation takes a message in once, however it is delivered,       *)
(* retried and retried by overlapping ticks.                               *)
THEOREM TakenInOnce == Spec => []HandledOnce
<1>1. Inv => HandledOnce
  BY DEF Inv, ClaimOK, HandledOnce
<1> QED
  BY Invariance, <1>1, PTL

(* What is marked processed is answered as it was written; or it was a text *)
(* that failed before, whose words are lost; or its answer was lost to a    *)
(* failing call or a death behind the inbound row.                         *)
THEOREM AnsweredIfProcessed == Spec => []ProcessedIsAnswered
<1>1. Inv => ProcessedIsAnswered
  BY DEF Inv, ClaimOK, Answering, At, ProcessedIsAnswered
<1> QED
  BY Invariance, <1>1, PTL

(* Every event row tells who sees to it, or what became of it. *)
THEOREM EventsAccounted == Spec => []EventAccounted
<1>1. Inv => EventAccounted
  BY DEF Inv, EventOK, EventAccounted
<1> QED
  BY Invariance, <1>1, PTL

=============================================================================
