------------------------------ MODULE PaidProofs ------------------------------
(***************************************************************************)
(* Proofs about PaidConversion for any number of pushes, callbacks,         *)
(* handlers, retry loops and consumers. The invariants of Settlement and of *)
(* PaymentIntake carry over once each is shown to be at work on the rows    *)
(* the other leaves it: what a callback or a typed reference does to the    *)
(* payment row is a move Settlement allows for, and settlement takes the    *)
(* session off PAYMENT_PENDING only when the row is CONFIRMED.              *)
(***************************************************************************)
EXTENDS PaidConversion, TLAPS

S == INSTANCE SettlementProofs WITH
    payment <- row.status,
    Overwrites <- Manuals # {}

I == INSTANCE IntakeProofs WITH
    open <- session = "PAYMENT_PENDING",
    crashes <- intakeCrashes

LEMMA Assumptions == S!SettlementAssumption /\ I!PaymentIntakeAssumption
  BY PaidAssumption
     DEF Settle!SettlementAssumption, S!SettlementAssumption,
         Intake!PaymentIntakeAssumption, I!PaymentIntakeAssumption

(* The modules of proofs speak of the same specifications. *)
LEMMA SameSettlement ==
  (Settle!Init <=> S!Init) /\ (Settle!Advance <=> S!Advance) /\ (Settle!Next <=> S!Next)
  BY DEF Settle!rows, S!rows, Settle!outside, S!outside, Settle!budgets, S!budgets, Settle!vars,
         S!vars, Settle!Workers, S!Workers, Settle!PaymentStatus, S!PaymentStatus, Settle!Resting,
         S!Resting, Settle!Init, S!Init, Settle!At, S!At, Settle!Goto, S!Goto, Settle!Call, S!Call,
         Settle!Stop, S!Stop, Settle!Return, S!Return, Settle!Catch, S!Catch, Settle!InTry, S!InTry,
         Settle!PaymentMoves, S!PaymentMoves, Settle!PaymentWritten, S!PaymentWritten, Settle!Read,
         S!Read, Settle!Write, S!Write, Settle!Proceed, S!Proceed, Settle!RecordEvent,
         S!RecordEvent, Settle!ReadSession, S!ReadSession, Settle!ReadPayment, S!ReadPayment,
         Settle!Swap, S!Swap, Settle!ReadPayout, S!ReadPayout, Settle!Accept, S!Accept,
         Settle!SubmitAccepted, S!SubmitAccepted, Settle!AfterError, S!AfterError,
         Settle!SubmitFails, S!SubmitFails, Settle!Save, S!Save, Settle!FailRow, S!FailRow,
         Settle!Exhaust, S!Exhaust, Settle!Requeue, S!Requeue, Settle!Emit, S!Emit, Settle!Tick,
         S!Tick, Settle!Deliver, S!Deliver, Settle!MarkPayout, S!MarkPayout,
         Settle!ReadOutcomeSession, S!ReadOutcomeSession, Settle!BriaResolves, S!BriaResolves,
         Settle!DatabaseError, S!DatabaseError, Settle!Abandon, S!Abandon, Settle!Step, S!Step,
         Settle!Advance, S!Advance, Settle!Next, S!Next, Settle!ConversionState, S!ConversionState,
         Settle!AllowedTargets, S!AllowedTargets, Settle!CanTransition, S!CanTransition

LEMMA SameSettlementSpec == Settle!Spec <=> S!Spec
  <1>1. [Settle!Next]_(Settle!vars) <=> [S!Next]_(S!vars)
    BY SameSettlement DEF Settle!vars, S!vars, Settle!rows, S!rows, Settle!outside, S!outside,
                          Settle!budgets, S!budgets
  <1> QED
    BY <1>1, SameSettlement, PTL DEF Settle!Spec, S!Spec

LEMMA SameIntake ==
  (Intake!Init <=> I!Init) /\ (Intake!Intake <=> I!Intake)
  BY DEF Intake!Handlers, I!Handlers, Intake!Resting, I!Resting, Intake!Init, I!Init, Intake!At,
         I!At, Intake!Goto, I!Goto, Intake!Stop, I!Stop, Intake!Initiate, I!Initiate, Intake!Push,
         I!Push, Intake!Create, I!Create, Intake!Result, I!Result, Intake!Receive, I!Receive,
         Intake!MarkProcessed, I!MarkProcessed, Intake!Audit, I!Audit, Intake!Find, I!Find,
         Intake!Apply, I!Apply, Intake!StoreReceipt, I!StoreReceipt, Intake!Emit, I!Emit,
         Intake!Enter, I!Enter, Intake!Lookup, I!Lookup, Intake!AcceptReference, I!AcceptReference,
         Intake!Answer, I!Answer, Intake!Abandon, I!Abandon, Intake!Step, I!Step, Intake!Intake,
         I!Intake

-----------------------------------------------------------------------------
(* The payment row. *)

(* Without typed references one callback alone decides the row, once, and   *)
(* what is credited stays CONFIRMED.                                       *)
DecidedOnce ==
    Manuals = {} =>
        /\ row.receipt # "typed"
        /\ \A c \in Callbacks : handler[c].at = "apply" => row.status = "PENDING"
        /\ credited => row.status = "CONFIRMED"

RowInv ==
    /\ I!Inv
    /\ credited \in BOOLEAN
    /\ row.status = "CONFIRMED" => credited
    /\ DecidedOnce

LEMMA InitRowInv == Init => RowInv
  <1> SUFFICES ASSUME Init PROVE RowInv
    OBVIOUS
  <1>1. I!Inv
    BY SameIntake, Assumptions, I!InitInv DEF Init
  <1> QED
    BY <1>1, Assumptions
       DEF Init, Intake!Init, Settle!Init, RowInv, DecidedOnce, Intake!Resting, Intake!Handlers

(* A step of the intake is one of its own specification, and decides the    *)
(* row only as DecidedOnce says.                                           *)
LEMMA IntakeKeepsRowInv ==
  ASSUME RowInv, IntakeStep(Intake!Intake)
  PROVE  RowInv'
  <1>1. I!Intake /\ I!Next
    BY SameIntake DEF IntakeStep, I!Next
  <1>2. I!Inv'
    BY <1>1, Assumptions, I!NextInv DEF RowInv
  <1>3. credited' \in BOOLEAN /\ (row'.status = "CONFIRMED" => credited')
    BY DEF RowInv, IntakeStep
  <1>4. DecidedOnce'
    <2> SUFFICES ASSUME Manuals = {} PROVE DecidedOnce'
      BY DEF DecidedOnce
    <2> USE DEF RowInv, I!Inv, I!CallbackOK, I!PushOK, I!RowOK, I!Taken, I!TypeOK, I!Row, I!Handlers,
                I!Checkout, I!Decision, DecidedOnce, IntakeStep, I!At, I!Goto, I!Stop, I!Resting
    <2> USE Assumptions DEF I!PaymentIntakeAssumption
    <2>1. ASSUME NEW h \in I!Handlers, I!Step(h) \/ I!Abandon(h) PROVE DecidedOnce'
      <3>1. CASE I!StoreReceipt(h)
        BY <3>1 DEF I!StoreReceipt
      <3>2. CASE I!Apply(h) \/ I!Create(h) \/ I!Find(h)
        BY <3>2 DEF I!Apply, I!Create, I!Find
      <3>3. CASE I!Lookup(h) \/ I!AcceptReference(h)
        BY <3>3 DEF I!Lookup, I!AcceptReference
      <3>4. CASE \/ I!Push(h) \/ I!MarkProcessed(h) \/ I!Audit(h) \/ I!Emit(h)
                 \/ I!Abandon(h)
        BY <3>4 DEF I!Push, I!MarkProcessed, I!Audit, I!Emit, I!Abandon
      <3> QED
        BY <2>1, <3>1, <3>2, <3>3, <3>4 DEF I!Step
    <2>2. ASSUME NEW p \in Pushes, I!Initiate(p) \/ I!Answer(p) PROVE DecidedOnce'
      BY <2>2 DEF I!Initiate, I!Answer
    <2>3. ASSUME NEW c \in Callbacks, I!Receive(c) PROVE DecidedOnce'
      BY <2>3 DEF I!Receive
    <2> QED
      BY <1>1, <2>1, <2>2, <2>3 DEF I!Intake
  <1> QED
    BY <1>2, <1>3, <1>4 DEF RowInv

(* Settlement leaves the rows of the intake alone. *)
LEMMA SettleKeepsRowInv ==
  ASSUME RowInv, UNCHANGED <<intakeVars, credited>>
  PROVE  RowInv'
  BY DEF RowInv, DecidedOnce, intakeVars, I!Inv, I!TypeOK, I!RowOK, I!EmittedOK, I!PushOK,
         I!CallbackOK, I!ManualOK, I!Taken, I!DecidedAsAnswered, I!Result

(* No step of settlement but the payment row's writers credits the payment. *)
LEMMA AdvanceCreditsNothing ==
  ASSUME S!Advance
  PROVE  UNCHANGED credited
  BY DEF S!Advance, S!Step, S!BriaResolves, S!DatabaseError, S!Abandon, S!ReadSession, S!ReadPayment,
         S!Swap, S!ReadPayout, S!Read, S!Write, S!RecordEvent, S!SubmitAccepted, S!SubmitFails,
         S!Save, S!FailRow, S!Exhaust, S!Requeue, S!Emit, S!Tick, S!Deliver, S!MarkPayout,
         S!ReadOutcomeSession

LEMMA NextRowInv ==
  ASSUME RowInv, [Next]_vars
  PROVE  RowInv'
  <1>1. CASE IntakeStep(Intake!Intake)
    BY <1>1, IntakeKeepsRowInv
  <1>2. CASE SettleStep(Settle!Advance)
    BY <1>2, SameSettlement, AdvanceCreditsNothing, SettleKeepsRowInv DEF SettleStep
  <1>3. CASE UNCHANGED vars
    BY <1>3, SettleKeepsRowInv DEF vars, intakeVars
  <1> QED
    BY <1>1, <1>2, <1>3 DEF Next

LEMMA RowInvariance == Spec => []RowInv
  BY InitRowInv, NextRowInv, PTL DEF Spec

-----------------------------------------------------------------------------
(* Settlement. *)

(* What the intake does to the payment row is a move that Settlement allows *)
(* for, or none.                                                           *)
LEMMA IntakeIsPaymentWritten ==
  ASSUME RowInv, IntakeStep(Intake!Intake)
  PROVE  [S!Next]_(S!vars)
  <1>1. I!Intake
    BY SameIntake DEF IntakeStep
  <1>t. row \in I!Row /\ handler \in [I!Handlers -> [at: {"idle", "push", "create", "dedupe",
               "audit", "find", "apply", "receipt", "emit", "lookup", "accept"},
               checkout: I!Checkout]]
    BY DEF RowInv, I!Inv, I!TypeOK
  <1> DEFINE Allowed == row'.status = row.status \/ <<row.status, row'.status>> \in S!PaymentMoves
  <1>2. Allowed
    <2> USE DEF S!PaymentMoves, I!Row, I!Decision, I!Handlers, I!Checkout, I!At
    <2>1. ASSUME NEW h \in I!Handlers, I!Create(h) PROVE Allowed
      BY <1>t, <2>1 DEF I!Create
    <2>2. ASSUME NEW c \in I!Handlers, I!Apply(c) PROVE Allowed
      <3>1. c \in Callbacks /\ row.status # "NONE" /\ (Manuals = {} => row.status = "PENDING")
        BY <1>t, <2>2, Assumptions
           DEF RowInv, I!Inv, I!CallbackOK, I!PushOK, I!ManualOK, I!RowOK, DecidedOnce, I!Apply,
               I!PaymentIntakeAssumption
      <3> QED
        BY <1>t, <2>2, <3>1 DEF I!Apply, I!Result
    <2>3. ASSUME NEW m \in I!Handlers, I!AcceptReference(m) PROVE Allowed
      <3>1. m \in Manuals /\ row.status # "NONE"
        BY <1>t, <2>3 DEF RowInv, I!Inv, I!CallbackOK, I!PushOK, I!ManualOK, I!AcceptReference
      <3> QED
        BY <1>t, <2>3, <3>1 DEF I!AcceptReference
    <2>4. ASSUME NEW h \in I!Handlers,
                 \/ I!Push(h) \/ I!MarkProcessed(h) \/ I!Audit(h) \/ I!Find(h)
                 \/ I!StoreReceipt(h) \/ I!Emit(h) \/ I!Lookup(h) \/ I!Abandon(h)
          PROVE  Allowed
      BY <1>t, <2>4 DEF I!Push, I!MarkProcessed, I!Audit, I!Find, I!StoreReceipt, I!Emit, I!Lookup,
                        I!Abandon
    <2>5. ASSUME \/ \E p \in Pushes : I!Initiate(p) \/ I!Answer(p)
                 \/ \E c \in Callbacks : I!Receive(c)
                 \/ \E m \in Manuals : I!Enter(m)
          PROVE  Allowed
      BY <2>5 DEF I!Initiate, I!Answer, I!Receive, I!Enter
    <2> QED
      BY <1>1, <2>1, <2>2, <2>3, <2>4, <2>5 DEF I!Intake, I!Step
  <1>3. UNCHANGED <<session, trail, payout, swaps, sent, provider, told, acked, worker,
                    faults, dbErrors, crashes>>
    BY DEF IntakeStep, settleVars
  <1>4. credited' = (credited \/ row'.status = "CONFIRMED")
    BY DEF IntakeStep
  <1>5. CASE row'.status = row.status
    <2>1. credited' = credited
      BY <1>4, <1>5 DEF RowInv
    <2> QED
      BY <1>3, <1>5, <2>1 DEF S!vars, S!rows, S!outside, S!budgets
  <1>6. CASE <<row.status, row'.status>> \in S!PaymentMoves
    <2>1. row'.status \in S!PaymentStatus
      BY <1>6 DEF S!PaymentMoves, S!PaymentStatus
    <2> QED
      BY <1>3, <1>4, <1>6, <2>1 DEF S!Next, S!PaymentWritten, S!outside, S!budgets
  <1> QED
    BY <1>2, <1>5, <1>6

(* The paid conversion's settlement is a run of Settlement: for any pushes, *)
(* callbacks and typed references, the payment row moves only as            *)
(* Settlement expects.                                                     *)
THEOREM SettlementAtWork == Spec => Settle!Spec
  <1>1. Init => S!Init
    BY SameSettlement DEF Init
  <1>2. RowInv /\ [Next]_vars => [S!Next]_(S!vars)
    <2> SUFFICES ASSUME RowInv, [Next]_vars PROVE [S!Next]_(S!vars)
      OBVIOUS
    <2>1. CASE IntakeStep(Intake!Intake)
      BY <2>1, IntakeIsPaymentWritten
    <2>2. CASE SettleStep(Settle!Advance)
      BY <2>2, SameSettlement DEF SettleStep, S!Next
    <2>3. CASE UNCHANGED vars
      BY <2>3 DEF vars, intakeVars, settleVars, S!vars, S!rows, S!outside, S!budgets
    <2> QED
      BY <2>1, <2>2, <2>3 DEF Next
  <1> QED
    BY <1>1, <1>2, RowInvariance, SameSettlementSpec, PTL DEF Spec, S!Spec

(* What holds of every run of Settlement holds here. *)
LEMMA SettlementInvariance == Spec => [](S!IInv /\ S!Forward)
  BY SettlementAtWork, SameSettlementSpec, Assumptions, S!Invariance, S!MovesForward, PTL

-----------------------------------------------------------------------------
(* The intake. *)

(* Settlement takes the session off PAYMENT_PENDING when the row is         *)
(* CONFIRMED, and never puts it back.                                      *)
LEMMA AdvanceIsMoveOn ==
  ASSUME Manuals = {}, RowInv, S!IInv, S!Forward, SettleStep(Settle!Advance)
  PROVE  [I!Next]_(I!vars)
  <1>1. S!Advance /\ UNCHANGED intakeVars
    BY SameSettlement DEF SettleStep
  <1>2. CASE session' = session
    BY <1>1, <1>2 DEF I!vars, intakeVars
  <1>3. CASE session' # session
    <2>1. PICK w \in S!Workers : S!Write(w)
      BY <1>1, <1>3
         DEF S!Advance, S!Step, S!BriaResolves, S!DatabaseError, S!Abandon, S!ReadSession,
             S!ReadPayment, S!Swap, S!ReadPayout, S!Read, S!RecordEvent, S!SubmitAccepted,
             S!SubmitFails, S!Save, S!FailRow, S!Exhaust, S!Requeue, S!Emit, S!Tick, S!Deliver,
             S!MarkPayout, S!ReadOutcomeSession, S!rows
    <2>2. session' # "PAYMENT_PENDING" /\ credited
      BY <2>1 DEF S!Write, S!At, S!Workers, S!IInv, S!WorkerOK, S!SharedOK, S!Forward
    <2>3. row.status = "CONFIRMED"
      BY <2>2 DEF RowInv, DecidedOnce
    <2> QED
      BY <1>1, <2>2, <2>3 DEF I!Next, I!MoveOn, I!vars, intakeVars
  <1> QED
    BY <1>2, <1>3

(* Without typed references intake and settlement each keep what the other  *)
(* takes for granted.                                                      *)
THEOREM ComponentsDoAgree == ASSUME Manuals = {} PROVE Spec => ComponentsAgree
  <1>1. Init => I!Init
    BY SameIntake DEF Init
  <1>2. RowInv /\ S!IInv /\ S!Forward /\ [Next]_vars => [I!Next]_(I!vars)
    <2> SUFFICES ASSUME RowInv, S!IInv, S!Forward, [Next]_vars PROVE [I!Next]_(I!vars)
      OBVIOUS
    <2>1. CASE IntakeStep(Intake!Intake)
      BY <2>1, SameIntake DEF IntakeStep, I!Next
    <2>2. CASE SettleStep(Settle!Advance)
      BY <2>2, AdvanceIsMoveOn
    <2>3. CASE UNCHANGED vars
      BY <2>3 DEF vars, intakeVars, settleVars, I!vars
    <2> QED
      BY <2>1, <2>2, <2>3 DEF Next
  <1>3. Spec => I!Spec
    BY <1>1, <1>2, RowInvariance, SettlementInvariance, PTL DEF Spec, I!Spec
  <1>4. [Intake!Next]_(Intake!vars) <=> [I!Next]_(I!vars)
    BY SameIntake DEF Intake!Next, I!Next, Intake!MoveOn, I!MoveOn, Intake!vars, I!vars
  <1>5. I!Spec <=> Intake!Spec
    BY <1>4, SameIntake, PTL DEF I!Spec, Intake!Spec
  <1> QED
    BY <1>3, <1>5, SettlementAtWork, PTL DEF ComponentsAgree

-----------------------------------------------------------------------------
(* What the composition promises. *)

(* Without typed references bitcoin leaves, and a completion is announced,  *)
(* only for a push that the customer paid and that the row stores.         *)
THEOREM SentIsPaid == ASSUME Manuals = {} PROVE Spec => []SentOnlyIfPaid
  <1>1. RowInv /\ S!IInv => SentOnlyIfPaid
    <2> SUFFICES ASSUME RowInv, S!IInv, sent > 0 \/ session = "COMPLETED"
                 PROVE  row.checkout \in Pushes /\ phone[row.checkout] = "paid"
      BY DEF SentOnlyIfPaid
    <2>1. sent > 0
      BY DEF S!IInv, S!CompletedOnlyIfSettled, S!SharedOK
    <2>2. row.status = "CONFIRMED" /\ row.receipt # "typed"
      BY <2>1 DEF S!IInv, S!SharedOK, RowInv, DecidedOnce
    <2>3. row.checkout \in Pushes
      BY <2>2 DEF RowInv, I!Inv, I!RowOK, I!TypeOK, I!Row, I!Checkout
    <2> QED
      BY <2>2, <2>3 DEF RowInv, I!Inv, I!RowOK, I!DecidedAsAnswered, I!Decision, I!Result
  <1> QED
    BY <1>1, RowInvariance, SettlementInvariance, PTL

=============================================================================
