---------------------------- MODULE IntakeProofs ----------------------------
(***************************************************************************)
(* Proofs about PaymentIntake for any number of pushes, callbacks, manual   *)
(* references and handlers that stop.  The deduplication lets one callback  *)
(* per checkout past, so the one that found the instruction is alone with   *)
(* it among callbacks; only a typed reference can come between.            *)
(***************************************************************************)
EXTENDS PaymentIntake, TLAPS

(* A callback that has marked its checkout processed. *)
Taken(c) == handler[c].at \in {"audit", "find", "apply", "receipt", "emit"}

PushOK(p) ==
    /\ handler[p].at \in {"idle", "push", "create"}
    /\ handler[p].at = "push" => phone[p] = "none"
    /\ handler[p].at = "create" => phone[p] # "none"

CallbackOK(c) ==
    /\ handler[c].at \in {"idle", "dedupe", "audit", "find", "apply", "receipt", "emit"}
    /\ handler[c].at # "idle" =>
         /\ handler[c].checkout \in Pushes
         /\ phone[handler[c].checkout] \in {"paid", "declined"}
    /\ Taken(c) => handler[c].checkout \in marked
    /\ handler[c].at \in {"find", "apply", "receipt", "emit"} =>
         audit[handler[c].checkout] = Result(handler[c].checkout)
    /\ handler[c].at \in {"apply", "receipt", "emit"} => row.checkout = handler[c].checkout
    /\ handler[c].at \in {"receipt", "emit"} =>
         row.status = "CONFIRMED" /\ Result(handler[c].checkout) = "CONFIRMED"
    /\ handler[c].at = "emit" => row.receipt # "none" \/ row.checkout \in Bare

ManualOK(m) ==
    /\ handler[m].at \in {"idle", "lookup", "accept"}
    /\ handler[m].at = "accept" => row.status # "NONE"

RowOK ==
    /\ row.status = "NONE" <=> row.checkout = "none"
    /\ row.checkout \in Pushes => phone[row.checkout] # "none"
    /\ DecidedAsAnswered

EmittedOK ==
    /\ emitted \in {0, 1}
    /\ emitted = 1 =>
         /\ row.status = "CONFIRMED"
         /\ row.receipt # "none" \/ row.checkout \in Bare
         /\ row.checkout \in marked
         /\ \A c \in Callbacks : Taken(c) => handler[c].checkout # row.checkout

Inv ==
    /\ TypeOK
    /\ RowOK
    /\ EmittedOK
    /\ \A p \in Pushes : PushOK(p)
    /\ \A c \in Callbacks : CallbackOK(c)
    /\ \A m \in Manuals : ManualOK(m)
    /\ \A c, d \in Callbacks :
         Taken(c) /\ Taken(d) /\ handler[c].checkout = handler[d].checkout => c = d

LEMMA InitInv == Init => Inv
  BY PaymentIntakeAssumption
  DEF PaymentIntakeAssumption, Init, Inv, TypeOK, RowOK, EmittedOK, PushOK, CallbackOK, ManualOK,
      Taken, DecidedAsAnswered, Row, Decision, Checkout, Handlers, Resting

-----------------------------------------------------------------------------
(* The steps. *)

(* A handler that goes on or stops moves alone. *)
LEMMA OneMoves ==
  ASSUME TypeOK, NEW h \in Handlers,
         NEW label \in {"idle", "push", "create", "dedupe", "audit", "find", "apply", "receipt",
                        "emit", "lookup", "accept"},
         Goto(h, label) \/ Stop(h)
  PROVE  /\ handler' \in [Handlers -> [at: {"idle", "push", "create", "dedupe", "audit", "find",
                                         "apply", "receipt", "emit", "lookup", "accept"},
                                    checkout: Checkout]]
         /\ \A g \in Handlers : g # h => handler'[g] = handler[g]
         /\ \/ handler'[h].at = label /\ handler'[h].checkout = handler[h].checkout
            \/ handler'[h].at = "idle" /\ handler'[h].checkout = "none"
  BY DEF TypeOK, Goto, Stop, Resting, Checkout

(* Pushes and manual references. *)
LEMMA AskKeepsInv ==
  ASSUME Inv, NEW p \in Pushes, Initiate(p) \/ Push(p) \/ Create(p) \/ Answer(p)
  PROVE  Inv'
<1> USE PaymentIntakeAssumption
    DEF PaymentIntakeAssumption, Inv, TypeOK, RowOK, EmittedOK, PushOK, CallbackOK, ManualOK,
        Taken, DecidedAsAnswered, Row, Decision, Checkout, Handlers, Resting, Result, At, Goto, Stop
<1>1. CASE Initiate(p)
  BY <1>1 DEF Initiate
<1>2. CASE Push(p)
  <2>a. CASE phone' = [phone EXCEPT ![p] = "prompted"] /\ Goto(p, "create")
    BY <1>2, <2>a DEF Push
  <2>b. CASE phone' = phone /\ Stop(p)
    BY <1>2, <2>b DEF Push
  <2>1. TypeOK'
    BY <1>2, <2>a, <2>b DEF Push
  <2>2. RowOK'
    BY <1>2 DEF Push
  <2>3. EmittedOK'
    <3>1. \A c \in Callbacks : Taken(c)' => Taken(c) /\ handler'[c].checkout = handler[c].checkout
      BY <2>a, <2>b, <1>2 DEF Push
    <3>2. EmittedOK /\ UNCHANGED <<row, emitted, marked>>
      BY <1>2 DEF Push
    <3> QED
      BY ONLY <3>1, <3>2
  <2>4. \A q \in Pushes : PushOK(q)'
    BY <1>2 DEF Push
  <2>5. \A c \in Callbacks : CallbackOK(c)'
    BY SMTT(30), <1>2 DEF Push
  <2>6. \A m \in Manuals : ManualOK(m)'
    BY <1>2 DEF Push
  <2>7. \A c, d \in Callbacks :
          Taken(c)' /\ Taken(d)' /\ handler'[c].checkout = handler'[d].checkout => c = d
    BY SMTT(30), <1>2 DEF Push
  <2> QED
    BY <2>1, <2>2, <2>3, <2>4, <2>5, <2>6, <2>7
<1>3. CASE Create(p)
  BY <1>3 DEF Create
<1>4. CASE Answer(p)
  <2>1. TypeOK'
    BY SMTT(30), <1>4 DEF Answer
  <2>2. RowOK'
    BY <1>4 DEF Answer
  <2>3. EmittedOK'
    BY <1>4 DEF Answer
  <2>4. \A q \in Pushes : PushOK(q)'
    BY <1>4 DEF Answer
  <2>5. \A c \in Callbacks : CallbackOK(c)'
    BY <1>4 DEF Answer
  <2>6. \A m \in Manuals : ManualOK(m)'
    BY <1>4 DEF Answer
  <2>7. \A c, d \in Callbacks :
          Taken(c)' /\ Taken(d)' /\ handler'[c].checkout = handler'[d].checkout => c = d
    BY <1>4 DEF Answer
  <2> QED
    BY <2>1, <2>2, <2>3, <2>4, <2>5, <2>6, <2>7
<1> QED
  BY <1>1, <1>2, <1>3, <1>4

LEMMA ManualKeepsInv ==
  ASSUME Inv, NEW m \in Manuals, Enter(m) \/ Lookup(m) \/ AcceptReference(m)
  PROVE  Inv'
<1> USE PaymentIntakeAssumption
    DEF PaymentIntakeAssumption, Inv, TypeOK, RowOK, EmittedOK, PushOK, CallbackOK, ManualOK,
        Taken, DecidedAsAnswered, Row, Decision, Checkout, Handlers, Resting, Result, At, Goto, Stop
<1>1. CASE Enter(m)
  BY <1>1 DEF Enter
<1>2. CASE Lookup(m)
  BY SMTT(30), <1>2 DEF Lookup
<1>3. CASE AcceptReference(m)
  <2>1. TypeOK'
    BY <1>3 DEF AcceptReference
  <2>2. RowOK'
    BY <1>3 DEF AcceptReference
  <2>3. EmittedOK'
    BY <1>3 DEF AcceptReference
  <2>4. \A p \in Pushes : PushOK(p)'
    BY <1>3 DEF AcceptReference
  <2>5. \A c \in Callbacks : CallbackOK(c)'
    BY <1>3 DEF AcceptReference
  <2>6. \A n \in Manuals : ManualOK(n)'
    BY <1>3 DEF AcceptReference
  <2>7. \A c, d \in Callbacks :
          Taken(c)' /\ Taken(d)' /\ handler'[c].checkout = handler'[d].checkout => c = d
    BY <1>3 DEF AcceptReference
  <2> QED
    BY <2>1, <2>2, <2>3, <2>4, <2>5, <2>6, <2>7
<1> QED
  BY <1>1, <1>2, <1>3

(* The callback endpoint. *)
LEMMA CallbackKeepsInv ==
  ASSUME Inv, NEW c \in Callbacks,
         \/ Receive(c) \/ MarkProcessed(c) \/ Audit(c) \/ Find(c) \/ Apply(c)
         \/ StoreReceipt(c) \/ Emit(c)
  PROVE  Inv'
<1> USE PaymentIntakeAssumption
    DEF PaymentIntakeAssumption, Inv, TypeOK, RowOK, EmittedOK, PushOK, CallbackOK, ManualOK,
        Taken, DecidedAsAnswered, Row, Decision, Checkout, Handlers, Resting, Result, At, Goto, Stop
<1>1. CASE Receive(c)
  BY <1>1 DEF Receive
<1>2. CASE MarkProcessed(c)
  <2>a. handler[c].checkout \in Pushes /\ handler[c].checkout \in Checkout
    BY <1>2 DEF MarkProcessed
  <2>b. marked' \subseteq Pushes
    BY <1>2, <2>a DEF MarkProcessed
  <2>c. Stop(c) \/ Goto(c, "audit")
    BY <1>2 DEF MarkProcessed
  <2>1. TypeOK'
    BY <1>2, <2>b, <2>c DEF MarkProcessed
  <2>2. RowOK'
    BY <1>2 DEF MarkProcessed
  <2>3. EmittedOK'
    BY <1>2 DEF MarkProcessed
  <2>4. \A p \in Pushes : PushOK(p)'
    BY <1>2 DEF MarkProcessed
  <2>5. \A d \in Callbacks : CallbackOK(d)'
    BY <1>2 DEF MarkProcessed
  <2>6. \A m \in Manuals : ManualOK(m)'
    BY <1>2 DEF MarkProcessed
  <2>7. \A d, e \in Callbacks :
          Taken(d)' /\ Taken(e)' /\ handler'[d].checkout = handler'[e].checkout => d = e
    BY <1>2 DEF MarkProcessed
  <2> QED
    BY <2>1, <2>2, <2>3, <2>4, <2>5, <2>6, <2>7
<1>3. CASE Audit(c)
  BY <1>3 DEF Audit
<1>4. CASE Find(c)
  <2>a. /\ handler[c].at = "find" /\ UNCHANGED <<open, row, marked, audit, phone, emitted, crashes>>
        /\ Stop(c) \/ (Goto(c, "apply") /\ row.checkout = handler[c].checkout)
    BY <1>4 DEF Find
  <2>b. /\ TypeOK'
        /\ \A h \in Handlers : h # c => handler'[h] = handler[h]
        /\ \/ /\ handler'[c].at = "apply" /\ handler'[c].checkout = handler[c].checkout
              /\ row.checkout = handler[c].checkout
           \/ handler'[c].at = "idle"
    <3>1. TypeOK /\ c \in Handlers
      OBVIOUS
    <3>2. CASE Goto(c, "apply") /\ row.checkout = handler[c].checkout
      BY <2>a, <3>1, <3>2, OneMoves
    <3>3. CASE Stop(c)
      BY <2>a, <3>1, <3>3, OneMoves
    <3> QED
      BY <2>a, <3>2, <3>3
  <2>c. Callbacks \subseteq Handlers /\ Pushes \subseteq Handlers /\ Manuals \subseteq Handlers
        /\ c \notin Pushes /\ c \notin Manuals
    OBVIOUS
  <2>d. \A d \in Callbacks : Taken(d)' => Taken(d) /\ handler'[d].checkout = handler[d].checkout
    BY ONLY <2>a, <2>b, <2>c
  <2>1. RowOK' /\ EmittedOK'
    <3>1. RowOK /\ EmittedOK
      OBVIOUS
    <3> QED
      BY ONLY <2>a, <2>d, <3>1
  <2>2. \A p \in Pushes : PushOK(p)'
    BY <2>a, <2>b, <2>c
  <2>3. \A d \in Callbacks : CallbackOK(d)'
    <3>1. \A d \in Callbacks : CallbackOK(d)
      OBVIOUS
    <3> QED
      BY ONLY <2>a, <2>b, <2>c, <2>d, <3>1
  <2>4. \A m \in Manuals : ManualOK(m)'
    BY <2>a, <2>b, <2>c
  <2>5. \A d, e \in Callbacks :
          Taken(d)' /\ Taken(e)' /\ handler'[d].checkout = handler'[e].checkout => d = e
    <3>1. \A d, e \in Callbacks :
            Taken(d) /\ Taken(e) /\ handler[d].checkout = handler[e].checkout => d = e
      OBVIOUS
    <3> QED
      BY ONLY <2>d, <3>1
  <2> QED
    BY <2>b, <2>1, <2>2, <2>3, <2>4, <2>5
<1>5. CASE Apply(c)
  <2>1. TypeOK'
    BY SMTT(30), <1>5 DEF Apply
  <2>2. RowOK'
    BY <1>5 DEF Apply
  <2>3. EmittedOK'
    BY <1>5 DEF Apply
  <2>4. \A p \in Pushes : PushOK(p)'
    BY <1>5 DEF Apply
  <2>5. \A d \in Callbacks : CallbackOK(d)'
    BY <1>5 DEF Apply
  <2>6. \A m \in Manuals : ManualOK(m)'
    BY <1>5 DEF Apply
  <2>7. \A d, e \in Callbacks :
          Taken(d)' /\ Taken(e)' /\ handler'[d].checkout = handler'[e].checkout => d = e
    BY <1>5 DEF Apply
  <2> QED
    BY <2>1, <2>2, <2>3, <2>4, <2>5, <2>6, <2>7
<1>6. CASE StoreReceipt(c)
  BY <1>6 DEF StoreReceipt
<1>7. CASE Emit(c)
  BY <1>7 DEF Emit
<1> QED
  BY <1>1, <1>2, <1>3, <1>4, <1>5, <1>6, <1>7

(* A handler that stops half way leaves the rows as they are. *)
LEMMA AbandonKeepsInv ==
  ASSUME Inv, NEW h \in Handlers, Abandon(h)
  PROVE  Inv'
<1> USE PaymentIntakeAssumption
    DEF PaymentIntakeAssumption, Inv, TypeOK, RowOK, EmittedOK, PushOK, CallbackOK, ManualOK,
        Taken, DecidedAsAnswered, Row, Decision, Checkout, Handlers, Resting, Result, At, Goto, Stop
<1> QED
  BY DEF Abandon

(* A step of a handler is one of its own kind. *)
LEMMA StepKeepsInv ==
  ASSUME Inv, NEW h \in Handlers, Step(h)
  PROVE  Inv'
<1>1. CASE h \in Pushes
  <2>1. Push(h) \/ Create(h)
    BY <1>1 DEF Inv, PushOK, Step, At, MarkProcessed, Audit, Find, Apply, StoreReceipt, Emit,
                Lookup, AcceptReference
  <2> QED
    BY <1>1, <2>1, AskKeepsInv
<1>2. CASE h \in Callbacks
  <2>1. MarkProcessed(h) \/ Audit(h) \/ Find(h) \/ Apply(h) \/ StoreReceipt(h) \/ Emit(h)
    BY <1>2 DEF Inv, CallbackOK, Step, At, Push, Create, Lookup, AcceptReference
  <2> QED
    BY <1>2, <2>1, CallbackKeepsInv
<1>3. CASE h \in Manuals
  <2>1. Lookup(h) \/ AcceptReference(h)
    BY <1>3 DEF Inv, ManualOK, Step, At, Push, Create, MarkProcessed, Audit, Find, Apply,
                StoreReceipt, Emit
  <2> QED
    BY <1>3, <2>1, ManualKeepsInv
<1> QED
  BY <1>1, <1>2, <1>3 DEF Handlers

LEMMA NextInv ==
  ASSUME Inv, [Next]_vars
  PROVE  Inv'
<1>1. CASE UNCHANGED vars
  BY <1>1 DEF vars, Inv, TypeOK, RowOK, EmittedOK, PushOK, CallbackOK, ManualOK, Taken,
              DecidedAsAnswered, Result
<1>2. CASE MoveOn
  <2>1. TypeOK'
    BY <1>2 DEF MoveOn, Inv, TypeOK
  <2> QED
    BY <1>2, <2>1 DEF MoveOn, Inv, RowOK, EmittedOK, PushOK, CallbackOK, ManualOK, Taken,
                      DecidedAsAnswered, Result
<1>3. CASE Intake
  BY <1>3, StepKeepsInv, AbandonKeepsInv, AskKeepsInv, CallbackKeepsInv, ManualKeepsInv DEF Intake
<1> QED
  BY <1>1, <1>2, <1>3 DEF Next

-----------------------------------------------------------------------------

LEMMA Invariance == Spec => []Inv
  BY InitInv, NextInv, PTL DEF Spec

(* Rows, handlers and counters keep their types. *)
THEOREM TypeCorrect == Spec => []TypeOK
  BY Invariance, PTL DEF Inv

(* Without a typed reference the instruction is decided as the customer     *)
(* answered the push it stands for.                                        *)
THEOREM DecidedRight == Spec => []DecidedAsAnswered
  BY Invariance, PTL DEF Inv, RowOK

(* handleCallback announces a payment once, confirmed. *)
THEOREM AnnouncedAtMostOnce == Spec => []AnnouncedOnce
<1>1. Inv => AnnouncedOnce
  BY DEF Inv, EmittedOK, AnnouncedOnce
<1> QED
  BY Invariance, <1>1, PTL

(* What was announced has a receipt, M-Pesa's or the customer's, unless the  *)
(* report of the push that the row stores came without one.                *)
THEOREM ReceiptKept == Spec => []ReceiptIsKept
<1>1. Inv => ReceiptIsKept
  BY DEF Inv, EmittedOK, ReceiptIsKept
<1> QED
  BY Invariance, <1>1, PTL

=============================================================================
