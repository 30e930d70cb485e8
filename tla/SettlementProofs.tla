-------------------------- MODULE SettlementProofs --------------------------
(***************************************************************************)
(* Proofs about Settlement for any number of handlers, retry loops and     *)
(* consumers, any retry limit and any number of failures and crashes.      *)
(***************************************************************************)
EXTENDS Settlement, FiniteSetTheorems, TLAPS

(* Inside, or about to enter, a call of transitionState to a given state. *)
Moving(w, to) ==
    worker[w].at \in {"read", "write", "event", "mark", "session"} /\ worker[w].target = to

(* What a handler may rely on at each of its awaits, given that the shared  *)
(* facts it established (credited, converted, settled) are never undone.   *)
WorkerOK(w) ==
    /\ worker[w].at \in {"write", "event"} =>
           /\ worker[w].from \in ConversionState
           /\ CanTransition(worker[w].from, worker[w].target)
    /\ worker[w].at \in {"read", "write", "event", "mark", "session"} =>
           worker[w].target \in ConversionState
    /\ worker[w].at = "requeue" => worker[w].attempts \in 1..(MaxAttempts - 1)
    /\ Moving(w, "COMPLETED") \/ worker[w].at = "emit" => provider = "settled"
    /\ worker[w].at = "save" /\ Driver = "mock" => provider = "settled"
    /\ worker[w].at \in {"mark", "session"} => w \in Consumers
    /\ w \in Requests =>
           /\ worker[w].at \notin {"idle", "payment"} => credited
           /\ \/ worker[w].at \in {"payout", "submit", "save", "exhaust", "requeue"}
              \/ Moving(w, "DELIVERY_PENDING") \/ Moving(w, "COMPLETED")
              => swaps > 0
    /\ w \in Tickers =>
           /\ worker[w].at \in {"idle", "submit", "save", "exhaust", "requeue",
                                "read", "write", "event"}
           /\ worker[w].at # "idle" => credited /\ swaps > 0 /\ Driver # "mock"
           /\ worker[w].at \in {"read", "write", "event"} =>
                  worker[w].target = "MANUAL_REVIEW"
    /\ w \in Consumers =>
           /\ worker[w].at \in {"idle", "mark", "session", "read", "write", "event", "emit"}
           /\ worker[w].at \notin {"idle", "emit"} =>
                  worker[w].target \in {"COMPLETED", "FAILED"}

SharedOK ==
    /\ payment = "CONFIRMED" => credited
    /\ swaps > 0 => credited
    /\ sent > 0 => swaps > 0
    /\ provider # "none" <=> sent > 0
    /\ Driver = "mock" => provider \in {"none", "settled"}
    /\ told > 0 => provider = "settled"
    /\ payout.status = "PENDING_DISPATCH" => swaps > 0

(* An asynchronous backend holds one payout for a session: the Bria adapter *)
(* submits under one external id.                                          *)
AtMostOnePayout == Driver # "mock" => sent <= 1

IInv ==
    /\ TypeOK
    /\ SharedOK
    /\ \A w \in Workers : WorkerOK(w)
    /\ AtMostOnePayout
    /\ CompletedOnlyIfSettled
    /\ TrailSound
    /\ DispatchBudget

-----------------------------------------------------------------------------
(* What the shared facts of IInv read. *)
Facts == SharedOK /\ AtMostOnePayout /\ CompletedOnlyIfSettled /\ TrailSound /\ DispatchBudget

(* The initial state satisfies the invariant: nobody has done anything. *)
THEOREM InitInv == Init => IInv
  <1> SUFFICES ASSUME Init PROVE IInv
    OBVIOUS
  <1> USE SettlementAssumption DEF Init
  <1>1. TypeOK
    <2>1. Resting \in Handler
      BY DEF Resting, Handler, Labels
    <2>2. worker \in [Workers -> Handler]
      BY <2>1
    <2>3. payout \in Payout
      BY DEF Payout, PayoutStatus
    <2>4. session \in ConversionState /\ payment \in PaymentStatus
      BY DEF ConversionState, PaymentStatus
    <2>5. 0 \in 0..MaxFaults /\ 0 \in 0..MaxDbErrors /\ 0 \in 0..MaxCrashes
      BY DEF SettlementAssumption
    <2> QED
      BY <2>2, <2>3, <2>4, <2>5 DEF TypeOK
  <1>2. SharedOK
    BY DEF SharedOK
  <1>3. ASSUME NEW w \in Workers PROVE WorkerOK(w)
    BY DEF WorkerOK, Moving, Resting
  <1>4. AtMostOnePayout /\ CompletedOnlyIfSettled /\ TrailSound /\ DispatchBudget
    BY DEF AtMostOnePayout, CompletedOnlyIfSettled, TrailSound, DispatchBudget
  <1> QED
    BY <1>1, <1>2, <1>3, <1>4 DEF IInv

(* A handler that does not move keeps what it relies on, because credited,  *)
(* converted and settled are facts no step takes back.                     *)
LEMMA OthersKeep ==
  ASSUME NEW v \in Workers, WorkerOK(v), worker'[v] = worker[v],
         credited => credited', swaps > 0 => swaps' > 0,
         provider = "settled" => provider' = "settled"
  PROVE  WorkerOK(v)'
  BY DEF WorkerOK, Moving

(* Steps that touch only handlers keep every fact about the rows. *)
LEMMA FactsKept ==
  ASSUME Facts,
         UNCHANGED <<session, trail, payment, payout, swaps, sent, provider, told, credited>>
  PROVE  Facts'
  BY DEF Facts, SharedOK, AtMostOnePayout, CompletedOnlyIfSettled, TrailSound, DispatchBudget

(* A step of one handler: the others need no thought. *)
LEMMA OneMoves ==
  ASSUME IInv, NEW w \in Workers, TypeOK', Facts', WorkerOK(w)',
         \A v \in Workers \ {w} : worker'[v] = worker[v],
         credited => credited', swaps > 0 => swaps' > 0,
         provider = "settled" => provider' = "settled"
  PROVE  IInv'
  <1>1. ASSUME NEW v \in Workers PROVE WorkerOK(v)'
    <2>1. CASE v = w
      BY <2>1
    <2>2. CASE v # w
      BY <2>2, OthersKeep DEF IInv
    <2> QED
      BY <2>1, <2>2
  <1> QED
    BY <1>1 DEF IInv, Facts

(* What the four ways a handler moves do to its record. *)
LEMMA GotoMoves ==
  ASSUME TypeOK, NEW w \in Workers, NEW label \in Labels, Goto(w, label)
  PROVE  /\ worker' \in [Workers -> Handler]
         /\ worker'[w] = [worker[w] EXCEPT !.at = label]
         /\ \A v \in Workers \ {w} : worker'[v] = worker[v]
  BY DEF TypeOK, Goto, Handler

LEMMA CallMoves ==
  ASSUME TypeOK, NEW w \in Workers, NEW to \in ConversionState, Call(w, to)
  PROVE  /\ worker' \in [Workers -> Handler]
         /\ worker'[w] = [worker[w] EXCEPT !.at = "read", !.target = to]
         /\ \A v \in Workers \ {w} : worker'[v] = worker[v]
  <1>1. worker \in [Workers -> Handler]
    BY DEF TypeOK
  <1>2. [worker[w] EXCEPT !.at = "read", !.target = to] \in Handler
    BY <1>1 DEF Handler, Labels
  <1>3. worker' = [worker EXCEPT ![w] = [worker[w] EXCEPT !.at = "read", !.target = to]]
    BY <1>1 DEF Call, Handler
  <1> QED
    BY <1>1, <1>2, <1>3

LEMMA StopMoves ==
  ASSUME TypeOK, NEW w \in Workers, Stop(w)
  PROVE  /\ worker' \in [Workers -> Handler]
         /\ worker'[w] = Resting
         /\ \A v \in Workers \ {w} : worker'[v] = worker[v]
  <1>1. Resting \in Handler
    BY DEF Resting, Handler, Labels
  <1> QED
    BY <1>1 DEF TypeOK, Stop

LEMMA CatchMoves ==
  ASSUME TypeOK, NEW w \in Workers, Catch(w)
  PROVE  /\ worker' \in [Workers -> Handler]
         /\ worker'[w] = [worker[w] EXCEPT
                !.at = IF w \in Requests THEN "failrow" ELSE "exhaust",
                !.attempts = @ + 1]
         /\ \A v \in Workers \ {w} : worker'[v] = worker[v]
  BY DEF TypeOK, Catch, Handler, Labels

(* A handler at rest relies on nothing. *)
LEMMA RestingIsOK ==
  ASSUME NEW w \in Workers, worker'[w] = Resting
  PROVE  WorkerOK(w)'
  BY DEF WorkerOK, Moving, Resting

(* The catch block relies on what held inside the try block. *)
LEMMA CaughtIsOK ==
  ASSUME TypeOK, NEW w \in Workers, WorkerOK(w), InTry(w), Catch(w),
         UNCHANGED <<outside, credited>>
  PROVE  WorkerOK(w)'
  <1>1. worker[w] \in Handler
    BY DEF TypeOK
  <1>2. CASE w \in Requests
    <2>1. worker'[w].at = "failrow"
      BY <1>1, <1>2, CatchMoves DEF Handler
    <2> QED
      BY <1>1, <1>2, <2>1, SettlementAssumption DEF WorkerOK, Moving, InTry, At, outside
  <1>3. CASE w \in Tickers
    <2>0. w \notin Requests
      BY <1>3, SettlementAssumption
    <2>1. worker'[w].at = "exhaust"
      BY <1>1, <2>0, CatchMoves DEF Handler
    <2> QED
      BY <1>1, <1>3, <2>1, SettlementAssumption DEF WorkerOK, Moving, InTry, At, outside
  <1> QED
    BY <1>2, <1>3 DEF InTry

(* What an accepted submission does at the backend, idempotent or not. *)
LEMMA AcceptOnce ==
  ASSUME TypeOK, Facts, swaps > 0, Accept
  PROVE  /\ sent' \in Nat /\ sent' > 0
         /\ provider' \in {"accepted", "settled", "cancelled"}
         /\ provider = "settled" => provider' = "settled"
         /\ Driver = "mock" => provider' = "settled"
         /\ Driver # "mock" => sent' <= 1
  BY SettlementAssumption DEF TypeOK, Facts, SharedOK, AtMostOnePayout, Accept

LEMMA AcceptKeepsFacts ==
  ASSUME TypeOK, Facts, swaps > 0, Accept, UNCHANGED <<rows, swaps, told, credited>>
  PROVE  Facts'
  BY AcceptOnce DEF rows, Facts, SharedOK, AtMostOnePayout, CompletedOnlyIfSettled,
     TrailSound, DispatchBudget

(* Every step of the specification preserves the invariant. *)
THEOREM NextInv == IInv /\ [Next]_vars => IInv'
  <1> SUFFICES ASSUME IInv, [Next]_vars PROVE IInv'
    OBVIOUS
  <1> USE SettlementAssumption
  <1>t. TypeOK /\ Facts /\ \A w \in Workers : WorkerOK(w)
    BY DEF IInv, Facts
  <1>1. CASE PaymentWritten
    <2>1. TypeOK'
      BY <1>t, <1>1 DEF PaymentWritten, TypeOK, rows, outside, budgets
    <2>2. Facts'
      BY <1>t, <1>1 DEF PaymentWritten, outside, budgets, Facts, SharedOK, TypeOK,
         AtMostOnePayout, CompletedOnlyIfSettled, TrailSound, DispatchBudget
    <2>3. \A v \in Workers : WorkerOK(v)'
      BY <1>t, <1>1, OthersKeep DEF PaymentWritten, outside, budgets, TypeOK
    <2> QED
      BY <2>1, <2>2, <2>3 DEF IInv, Facts
  <1>2. ASSUME NEW w \in Workers, Read(w) PROVE IInv'
    <2>r. UNCHANGED <<rows, outside, credited, budgets>>
      BY <1>2 DEF Read
    <2>f. Facts'
      BY <1>t, <2>r, FactsKept DEF rows, outside
    <2>1. CASE CanTransition(session, worker[w].target) /\
               worker' = [worker EXCEPT ![w].at = "write", ![w].from = session]
      <3> DEFINE h == [worker[w] EXCEPT !.at = "write", !.from = session]
      <3>1. worker \in [Workers -> Handler] /\ session \in ConversionState
        BY <1>t DEF TypeOK
      <3>2. h \in Handler /\ worker' = [worker EXCEPT ![w] = h]
        BY <2>1, <3>1 DEF Handler, Labels
      <3>3. /\ worker' \in [Workers -> Handler]
            /\ worker'[w] = h
            /\ \A v \in Workers \ {w} : worker'[v] = worker[v]
        BY <3>1, <3>2
      <3>4. TypeOK'
        BY <1>t, <2>r, <3>3 DEF TypeOK, rows, outside, budgets
      <3>5. WorkerOK(w)'
        BY <1>t, <1>2, <2>r, <2>1, <3>1, <3>3 DEF WorkerOK, Moving, Handler, Read, At, rows, outside
      <3> QED
        BY <1>t, <2>r, <2>f, <3>3, <3>4, <3>5, OneMoves DEF outside
    <2>2. CASE Stop(w)
      <3>1. TypeOK'
        BY <1>t, <2>r, <2>2, StopMoves DEF TypeOK, rows, outside, budgets
      <3> QED
        BY <1>t, <2>r, <2>2, <2>f, <3>1, StopMoves, RestingIsOK, OneMoves DEF outside
    <2>3. CASE InTry(w) /\ Catch(w)
      <3>1. TypeOK'
        BY <1>t, <2>r, <2>3, CatchMoves DEF TypeOK, rows, outside, budgets
      <3>2. WorkerOK(w)'
        BY <1>t, <2>r, <2>3, CaughtIsOK
      <3> QED
        BY <1>t, <2>r, <2>3, <2>f, <3>1, <3>2, CatchMoves, OneMoves DEF outside
    <2> QED
      BY <1>2, <2>1, <2>2, <2>3 DEF Read
  <1>3. ASSUME NEW w \in Workers, Write(w) PROVE IInv'
    <2>h. worker[w] \in Handler /\ WorkerOK(w) /\ worker[w].target \in ConversionState
      BY <1>t, <1>3 DEF TypeOK, Write, At, WorkerOK
    <2>m. /\ worker' \in [Workers -> Handler]
          /\ worker'[w] = [worker[w] EXCEPT !.at = "event"]
          /\ \A v \in Workers \ {w} : worker'[v] = worker[v]
      BY <1>t, <1>3, GotoMoves DEF Write, Labels
    <2>1. TypeOK'
      BY <1>t, <1>3, <2>h, <2>m DEF TypeOK, Write, outside, budgets
    <2>2. Facts'
      BY <1>t, <1>3, <2>h DEF Write, At, WorkerOK, Moving, outside, Facts, SharedOK,
         AtMostOnePayout, CompletedOnlyIfSettled, TrailSound, DispatchBudget
    <2>3. WorkerOK(w)'
      BY <1>3, <2>h, <2>m DEF Write, At, WorkerOK, Moving, Handler, outside
    <2> QED
      BY <1>t, <1>3, <2>m, <2>1, <2>2, <2>3, OneMoves DEF Write, outside
  <1>4. ASSUME NEW w \in Workers, RecordEvent(w) PROVE IInv'
    <2>h. worker[w] \in Handler /\ WorkerOK(w)
      BY <1>t DEF TypeOK
    <2>r. UNCHANGED <<session, payment, payout, swaps, sent, provider, told, credited, budgets>>
      BY <1>4 DEF RecordEvent
    <2>e. /\ worker[w].at = "event"
          /\ worker[w].from \in ConversionState
          /\ worker[w].target \in ConversionState
          /\ CanTransition(worker[w].from, worker[w].target)
          /\ trail' = trail \cup {<<worker[w].from, worker[w].target>>}
      BY <1>4, <2>h DEF RecordEvent, At, WorkerOK
    <2>f. Facts' /\ trail' \subseteq ConversionState \X ConversionState
      BY <1>t, <2>r, <2>e DEF Facts, SharedOK, AtMostOnePayout, CompletedOnlyIfSettled,
         TrailSound, DispatchBudget, TypeOK
    <2>1. CASE worker[w].target = "PAYMENT_CONFIRMED" /\ Call(w, "EXECUTION_PENDING") /\ UNCHANGED acked
      <3>m. /\ worker' \in [Workers -> Handler]
            /\ worker'[w] = [worker[w] EXCEPT !.at = "read", !.target = "EXECUTION_PENDING"]
            /\ \A v \in Workers \ {w} : worker'[v] = worker[v]
        BY <1>t, <2>1, CallMoves DEF ConversionState
      <3>1. TypeOK'
        BY <1>t, <2>r, <2>f, <2>1, <3>m DEF TypeOK, budgets
      <3>2. WorkerOK(w)'
        BY <2>h, <2>e, <2>r, <2>1, <3>m DEF WorkerOK, Moving, Handler, ConversionState
      <3> QED
        BY <1>t, <2>r, <2>f, <3>m, <3>1, <3>2, OneMoves
    <2>2. CASE worker[w].target = "EXECUTION_PENDING" /\ Goto(w, "swap") /\ UNCHANGED acked
      <3>m. /\ worker' \in [Workers -> Handler]
            /\ worker'[w] = [worker[w] EXCEPT !.at = "swap"]
            /\ \A v \in Workers \ {w} : worker'[v] = worker[v]
        BY <1>t, <2>2, GotoMoves DEF Labels
      <3>1. TypeOK'
        BY <1>t, <2>r, <2>f, <2>2, <3>m DEF TypeOK, budgets
      <3>2. WorkerOK(w)'
        BY <2>h, <2>e, <2>r, <2>2, <3>m DEF WorkerOK, Moving, Handler, ConversionState
      <3> QED
        BY <1>t, <2>r, <2>f, <3>m, <3>1, <3>2, OneMoves
    <2>3. CASE worker[w].target = "DELIVERY_PENDING" /\ Goto(w, "payout") /\ UNCHANGED acked
      <3>m. /\ worker' \in [Workers -> Handler]
            /\ worker'[w] = [worker[w] EXCEPT !.at = "payout"]
            /\ \A v \in Workers \ {w} : worker'[v] = worker[v]
        BY <1>t, <2>3, GotoMoves DEF Labels
      <3>1. TypeOK'
        BY <1>t, <2>r, <2>f, <2>3, <3>m DEF TypeOK, budgets
      <3>2. WorkerOK(w)'
        BY <2>h, <2>e, <2>r, <2>3, <3>m DEF WorkerOK, Moving, Handler, ConversionState
      <3> QED
        BY <1>t, <2>r, <2>f, <3>m, <3>1, <3>2, OneMoves
    <2>4. CASE worker[w].target = "COMPLETED" /\ Goto(w, "emit") /\ UNCHANGED acked
      <3>m. /\ worker' \in [Workers -> Handler]
            /\ worker'[w] = [worker[w] EXCEPT !.at = "emit"]
            /\ \A v \in Workers \ {w} : worker'[v] = worker[v]
        BY <1>t, <2>4, GotoMoves DEF Labels
      <3>1. TypeOK'
        BY <1>t, <2>r, <2>f, <2>4, <3>m DEF TypeOK, budgets
      <3>2. WorkerOK(w)'
        BY <2>h, <2>e, <2>r, <2>4, <3>m DEF WorkerOK, Moving, Handler, ConversionState
      <3> QED
        BY <1>t, <2>r, <2>f, <3>m, <3>1, <3>2, OneMoves
    <2>5. CASE Return(w)
      <3>m. Stop(w) /\ TypeOK'
        BY <1>t, <2>r, <2>f, <2>5, StopMoves DEF TypeOK, Return, budgets
      <3> QED
        BY <1>t, <2>r, <2>f, <3>m, StopMoves, RestingIsOK, OneMoves
    <2> QED
      BY <1>4, <2>1, <2>2, <2>3, <2>4, <2>5 DEF RecordEvent, Proceed
  <1>5. ASSUME NEW w \in Workers, ReadSession(w) PROVE IInv'
    <2>h. worker[w] \in Handler /\ WorkerOK(w)
      BY <1>t DEF TypeOK
    <2>m. /\ worker' \in [Workers -> Handler]
          /\ worker'[w] = [worker[w] EXCEPT !.at = "payment"]
          /\ \A v \in Workers \ {w} : worker'[v] = worker[v]
      BY <1>t, <1>5, GotoMoves DEF ReadSession, Labels
    <2>1. TypeOK'
      BY <1>t, <1>5, <2>m DEF TypeOK, ReadSession, rows, outside, budgets
    <2>2. Facts'
      BY <1>t, <1>5, FactsKept DEF ReadSession, rows, outside
    <2>3. WorkerOK(w)'
      BY <1>5, <2>h, <2>m DEF ReadSession, WorkerOK, Moving, Handler
    <2> QED
      BY <1>t, <1>5, <2>m, <2>1, <2>2, <2>3, OneMoves DEF ReadSession, outside
  <1>6. ASSUME NEW w \in Workers, ReadPayment(w) PROVE IInv'
    <2>h. worker[w] \in Handler /\ WorkerOK(w)
      BY <1>t DEF TypeOK
    <2>2. Facts'
      BY <1>t, <1>6, FactsKept DEF ReadPayment, rows, outside
    <2>3. CASE payment = "CONFIRMED"
      <3>m. /\ worker' \in [Workers -> Handler]
            /\ worker'[w] = [worker[w] EXCEPT !.at = "read", !.target = "PAYMENT_CONFIRMED"]
            /\ \A v \in Workers \ {w} : worker'[v] = worker[v]
        BY <1>t, <1>6, <2>3, CallMoves DEF ReadPayment, ConversionState
      <3>1. TypeOK'
        BY <1>t, <1>6, <3>m DEF TypeOK, ReadPayment, rows, outside, budgets
      <3>2. credited
        BY <1>t, <2>3 DEF Facts, SharedOK
      <3>3. w \in Requests
        BY <1>6, <2>h DEF ReadPayment, At, WorkerOK, Workers
      <3>4. WorkerOK(w)'
        BY <1>6, <2>h, <3>m, <3>2, <3>3 DEF ReadPayment, WorkerOK, Moving, Handler, ConversionState
      <3> QED
        BY <1>t, <1>6, <2>2, <3>m, <3>1, <3>4, OneMoves DEF ReadPayment, outside
    <2>4. CASE payment # "CONFIRMED"
      <3>1. Stop(w) /\ TypeOK'
        BY <1>t, <1>6, <2>4, StopMoves DEF TypeOK, ReadPayment, rows, outside, budgets
      <3> QED
        BY <1>t, <1>6, <2>2, <3>1, StopMoves, RestingIsOK, OneMoves DEF ReadPayment, outside
    <2> QED
      BY <2>3, <2>4
  <1>7. ASSUME NEW w \in Workers, Swap(w) PROVE IInv'
    <2>h. worker[w] \in Handler /\ WorkerOK(w)
      BY <1>t DEF TypeOK
    <2>r. UNCHANGED <<rows, sent, provider, told, acked, credited, dbErrors, crashes>>
      BY <1>7 DEF Swap
    <2>c. w \in Requests /\ credited
      BY <1>7, <2>h DEF Swap, At, WorkerOK, Workers
    <2>1. CASE swaps' = swaps + 1 /\ Call(w, "DELIVERY_PENDING") /\ UNCHANGED faults
      <3>m. /\ worker' \in [Workers -> Handler]
            /\ worker'[w] = [worker[w] EXCEPT !.at = "read", !.target = "DELIVERY_PENDING"]
            /\ \A v \in Workers \ {w} : worker'[v] = worker[v]
        BY <1>t, <2>1, CallMoves DEF ConversionState
      <3>s. swaps \in Nat /\ swaps' > 0
        BY <1>t, <2>1 DEF TypeOK
      <3>1. TypeOK'
        BY <1>t, <2>r, <2>1, <3>m DEF TypeOK, rows
      <3>2. Facts'
        BY <1>t, <2>r, <2>c, <3>s DEF rows, Facts, SharedOK, AtMostOnePayout,
           CompletedOnlyIfSettled, TrailSound, DispatchBudget
      <3>3. WorkerOK(w)'
        BY <2>h, <2>c, <2>r, <3>s, <3>m DEF WorkerOK, Moving, Handler, ConversionState
      <3> QED
        BY <1>t, <2>r, <3>m, <3>s, <3>1, <3>2, <3>3, OneMoves
    <2>2. CASE /\ faults < MaxFaults /\ faults' = faults + 1
               /\ Call(w, "FAILED") /\ UNCHANGED swaps
      <3>m. /\ worker' \in [Workers -> Handler]
            /\ worker'[w] = [worker[w] EXCEPT !.at = "read", !.target = "FAILED"]
            /\ \A v \in Workers \ {w} : worker'[v] = worker[v]
        BY <1>t, <2>2, CallMoves DEF ConversionState
      <3>1. TypeOK'
        BY <1>t, <2>r, <2>2, <3>m DEF TypeOK, rows
      <3>2. Facts'
        BY <1>t, <2>r, <2>2, FactsKept DEF rows
      <3>3. WorkerOK(w)'
        BY <2>h, <2>c, <2>r, <3>m DEF WorkerOK, Moving, Handler, ConversionState
      <3> QED
        BY <1>t, <2>r, <2>2, <3>m, <3>1, <3>2, <3>3, OneMoves
    <2> QED
      BY <1>7, <2>1, <2>2 DEF Swap
  <1>8. ASSUME NEW w \in Workers, ReadPayout(w) \/ Tick(w) PROVE IInv'
    <2> DEFINE h == [worker[w] EXCEPT !.at = "submit", !.attempts = payout.attempts]
    <2>h. worker[w] \in Handler /\ WorkerOK(w) /\ worker \in [Workers -> Handler]
      BY <1>t DEF TypeOK
    <2>r. UNCHANGED <<rows, outside, credited, budgets>>
      BY <1>8 DEF ReadPayout, Tick
    <2>a. payout.attempts \in Nat
      BY <1>t DEF TypeOK, Payout
    <2>b. h \in Handler /\ h.at = "submit" /\ worker' = [worker EXCEPT ![w] = h]
      BY <1>8, <2>h, <2>a DEF ReadPayout, Tick, Handler, Labels
    <2>m. /\ worker' \in [Workers -> Handler]
          /\ worker'[w] = h
          /\ \A v \in Workers \ {w} : worker'[v] = worker[v]
      BY <2>h, <2>b
    <2>1. TypeOK'
      BY <1>t, <2>r, <2>m DEF TypeOK, rows, outside, budgets
    <2>2. Facts'
      BY <1>t, <2>r, FactsKept DEF rows, outside
    <2>c. w \in Requests \/ (w \in Tickers /\ Driver # "mock")
      BY <1>8, <2>h DEF ReadPayout, Tick, At, WorkerOK, Workers
    <2>d. credited /\ swaps > 0
      <3>1. CASE ReadPayout(w)
        BY <2>h, <2>c, <3>1 DEF ReadPayout, At, WorkerOK
      <3>2. CASE Tick(w)
        BY <1>t, <3>2 DEF Tick, Facts, SharedOK
      <3> QED
        BY <1>8, <3>1, <3>2
    <2>3. WorkerOK(w)'
      BY <2>b, <2>m, <2>c, <2>d, <2>r, SettlementAssumption DEF WorkerOK, Moving, outside
    <2> QED
      BY <1>t, <2>r, <2>m, <2>1, <2>2, <2>3, OneMoves DEF outside
  <1>9. ASSUME NEW w \in Workers, SubmitAccepted(w) PROVE IInv'
    <2>h. worker[w] \in Handler /\ WorkerOK(w)
      BY <1>t DEF TypeOK
    <2>c. (w \in Requests \/ (w \in Tickers /\ Driver # "mock")) /\ credited /\ swaps > 0
      BY <1>9, <2>h DEF SubmitAccepted, At, WorkerOK, Workers
    <2>r. Accept /\ UNCHANGED <<rows, swaps, told, acked, credited, budgets>>
      BY <1>9 DEF SubmitAccepted
    <2>m. /\ worker' \in [Workers -> Handler]
          /\ worker'[w] = [worker[w] EXCEPT !.at = "save"]
          /\ \A v \in Workers \ {w} : worker'[v] = worker[v]
      BY <1>t, <1>9, GotoMoves DEF SubmitAccepted, Labels
    <2>1. TypeOK'
      BY <1>t, <2>c, <2>r, <2>m, AcceptOnce DEF TypeOK, rows, budgets
    <2>2. Facts'
      BY <1>t, <2>c, <2>r, AcceptKeepsFacts
    <2>3. WorkerOK(w)'
      BY <1>t, <2>h, <2>c, <2>r, <2>m, AcceptOnce, SettlementAssumption
         DEF WorkerOK, Moving, Handler
    <2> QED
      BY <1>t, <2>c, <2>r, <2>m, <2>1, <2>2, <2>3, AcceptOnce, OneMoves
  <1>10. ASSUME NEW w \in Workers, SubmitFails(w) PROVE IInv'
    <2>h. worker[w] \in Handler /\ WorkerOK(w) /\ worker \in [Workers -> Handler]
      BY <1>t DEF TypeOK
    <2>c. (w \in Requests \/ (w \in Tickers /\ Driver # "mock")) /\ credited /\ swaps > 0
      BY <1>10, <2>h DEF SubmitFails, At, WorkerOK, Workers
    <2>r. /\ Driver # "mock" /\ faults < MaxFaults /\ faults' = faults + 1
          /\ UNCHANGED <<rows, swaps, told, acked, credited, dbErrors, crashes>>
          /\ Accept \/ UNCHANGED <<sent, provider>>
      BY <1>10 DEF SubmitFails
    <2> PICK retryable \in BOOLEAN :
          worker' = [worker EXCEPT ![w].at = AfterError(w, retryable), ![w].attempts = @ + 1]
      BY <1>10 DEF SubmitFails
    <2> DEFINE to == AfterError(w, retryable)
               h == [worker[w] EXCEPT !.at = to, !.attempts = @ + 1]
    <2>a. /\ worker[w].attempts \in Nat
          /\ to \in {"failrow", "requeue", "exhaust"}
          /\ to = "failrow" => w \in Requests
          /\ to = "requeue" => worker[w].attempts + 1 < MaxAttempts
      BY <2>h DEF AfterError, Handler
    <2> HIDE DEF to
    <2>b. h \in Handler /\ worker' = [worker EXCEPT ![w] = h]
      BY <2>h, <2>a DEF Handler, Labels, to
    <2>m. /\ worker' \in [Workers -> Handler]
          /\ worker'[w].at = to /\ worker'[w].attempts = worker[w].attempts + 1
          /\ \A v \in Workers \ {w} : worker'[v] = worker[v]
      BY <2>h, <2>b DEF Handler
    <2>p. /\ provider = "settled" => provider' = "settled"
          /\ sent' \in Nat /\ provider' \in {"none", "accepted", "settled", "cancelled"}
      BY <1>t, <2>c, <2>r, AcceptOnce DEF TypeOK
    <2>1. TypeOK'
      BY <1>t, <2>r, <2>m, <2>p DEF TypeOK, rows
    <2>2. Facts'
      <3>1. CASE Accept
        BY <1>t, <2>c, <2>r, <3>1, AcceptKeepsFacts
      <3>2. CASE UNCHANGED <<sent, provider>>
        BY <1>t, <2>r, <3>2, FactsKept DEF rows
      <3> QED
        BY <2>r, <3>1, <3>2
    <2>3. WorkerOK(w)'
      BY <2>c, <2>r, <2>a, <2>m, SettlementAssumption DEF WorkerOK, Moving
    <2> QED
      BY <1>t, <2>r, <2>m, <2>p, <2>1, <2>2, <2>3, OneMoves
  <1>11. ASSUME NEW w \in Workers, Save(w) PROVE IInv'
    <2>h. worker[w] \in Handler /\ WorkerOK(w)
      BY <1>t DEF TypeOK
    <2>c. /\ (w \in Requests \/ (w \in Tickers /\ Driver # "mock")) /\ credited /\ swaps > 0
          /\ Driver = "mock" => provider = "settled"
      BY <1>11, <2>h DEF Save, At, WorkerOK, Workers
    <2>r. UNCHANGED <<session, trail, payment, swaps, sent, provider, told, credited, budgets>>
      BY <1>11 DEF Save
    <2> PICK attempts \in Nat :
          \/ /\ Driver # "mock"
             /\ payout' = [status |-> "PENDING", linked |-> TRUE, attempts |-> attempts]
             /\ Return(w)
          \/ /\ Driver = "mock"
             /\ payout' = [status |-> "CONFIRMED", linked |-> TRUE, attempts |-> attempts]
             /\ Call(w, "COMPLETED")
             /\ UNCHANGED acked
      BY <1>t, <1>11 DEF Save, TypeOK, Payout
    <2>p. payout' \in Payout /\ payout'.status # "PENDING_DISPATCH"
      <3>1. CASE payout' = [status |-> "PENDING", linked |-> TRUE, attempts |-> attempts]
        BY <3>1 DEF Payout, PayoutStatus
      <3>2. CASE payout' = [status |-> "CONFIRMED", linked |-> TRUE, attempts |-> attempts]
        BY <3>2 DEF Payout, PayoutStatus
      <3> QED
        BY <3>1, <3>2
    <2>2. Facts'
      BY <1>t, <2>c, <2>r, <2>p DEF Facts, SharedOK, AtMostOnePayout, CompletedOnlyIfSettled,
         TrailSound, DispatchBudget
    <2>3. CASE Driver # "mock"
      <3>1. Stop(w) /\ TypeOK'
        BY <1>t, <2>3, <2>r, <2>p, StopMoves DEF TypeOK, Return, budgets
      <3> QED
        BY <1>t, <2>r, <2>2, <3>1, StopMoves, RestingIsOK, OneMoves
    <2>4. CASE Driver = "mock"
      <3>m. /\ worker' \in [Workers -> Handler]
            /\ worker'[w] = [worker[w] EXCEPT !.at = "read", !.target = "COMPLETED"]
            /\ \A v \in Workers \ {w} : worker'[v] = worker[v]
        BY <1>t, <2>4, CallMoves DEF ConversionState
      <3>1. TypeOK'
        BY <1>t, <2>4, <2>r, <2>p, <3>m DEF TypeOK, budgets
      <3>2. WorkerOK(w)'
        BY <2>4, <2>h, <2>c, <2>r, <3>m, SettlementAssumption DEF WorkerOK, Moving, Handler, ConversionState
      <3> QED
        BY <1>t, <2>r, <2>2, <3>m, <3>1, <3>2, OneMoves
    <2> QED
      BY <2>3, <2>4
  <1>12. ASSUME NEW w \in Workers, FailRow(w) PROVE IInv'
    <2>h. worker[w] \in Handler /\ WorkerOK(w)
      BY <1>t DEF TypeOK
    <2>r. UNCHANGED <<session, trail, payment, outside, credited, budgets>>
      BY <1>12 DEF FailRow
    <2>p. payout' \in Payout /\ payout'.status = "FAILED"
      BY <1>t, <1>12, <2>h DEF FailRow, TypeOK, Payout, PayoutStatus, Handler
    <2>m. /\ worker' \in [Workers -> Handler]
          /\ worker'[w] = [worker[w] EXCEPT !.at = "read", !.target = "FAILED"]
          /\ \A v \in Workers \ {w} : worker'[v] = worker[v]
      BY <1>t, <1>12, CallMoves DEF FailRow, ConversionState
    <2>1. TypeOK'
      BY <1>t, <2>r, <2>p, <2>m DEF TypeOK, outside, budgets
    <2>2. Facts'
      BY <1>t, <2>r, <2>p DEF outside, Facts, SharedOK, AtMostOnePayout, CompletedOnlyIfSettled,
         TrailSound, DispatchBudget
    <2>3. WorkerOK(w)'
      BY <1>12, <2>h, <2>r, <2>m DEF FailRow, At, WorkerOK, Moving, Handler, Workers, ConversionState, outside
    <2> QED
      BY <1>t, <2>r, <2>m, <2>1, <2>2, <2>3, OneMoves DEF outside
  <1>13. ASSUME NEW w \in Workers, Exhaust(w) PROVE IInv'
    <2>h. worker[w] \in Handler /\ WorkerOK(w)
      BY <1>t DEF TypeOK
    <2>r. UNCHANGED <<session, trail, payment, outside, credited, budgets>>
      BY <1>13 DEF Exhaust
    <2>p. payout' \in Payout /\ payout'.status = "FAILED"
      BY <1>t, <1>13, <2>h DEF Exhaust, TypeOK, Payout, PayoutStatus, Handler
    <2>m. /\ worker' \in [Workers -> Handler]
          /\ worker'[w] = [worker[w] EXCEPT !.at = "read", !.target = "MANUAL_REVIEW"]
          /\ \A v \in Workers \ {w} : worker'[v] = worker[v]
      BY <1>t, <1>13, CallMoves DEF Exhaust, ConversionState
    <2>1. TypeOK'
      BY <1>t, <2>r, <2>p, <2>m DEF TypeOK, outside, budgets
    <2>2. Facts'
      BY <1>t, <2>r, <2>p DEF outside, Facts, SharedOK, AtMostOnePayout, CompletedOnlyIfSettled,
         TrailSound, DispatchBudget
    <2>3. WorkerOK(w)'
      BY <1>13, <2>h, <2>r, <2>m DEF Exhaust, At, WorkerOK, Moving, Handler, Workers, ConversionState, outside
    <2> QED
      BY <1>t, <2>r, <2>m, <2>1, <2>2, <2>3, OneMoves DEF outside
  <1>14. ASSUME NEW w \in Workers, Requeue(w) PROVE IInv'
    <2>h. worker[w] \in Handler /\ WorkerOK(w)
      BY <1>t DEF TypeOK
    <2>r. UNCHANGED <<session, trail, payment, swaps, sent, provider, told, credited, budgets>>
      BY <1>14 DEF Requeue
    <2>c. swaps > 0 /\ worker[w].attempts \in 1..(MaxAttempts - 1)
      BY <1>14, <2>h DEF Requeue, At, WorkerOK, Workers
    <2>p. /\ payout' \in Payout
          /\ payout'.status = "PENDING_DISPATCH" /\ payout'.attempts = worker[w].attempts
      BY <1>t, <1>14, <2>h DEF Requeue, TypeOK, Payout, PayoutStatus, Handler
    <2>1. Stop(w) /\ TypeOK'
      BY <1>t, <1>14, <2>r, <2>p, StopMoves DEF TypeOK, Requeue, Return, budgets
    <2>2. Facts'
      BY <1>t, <2>r, <2>c, <2>p DEF Facts, SharedOK, AtMostOnePayout, CompletedOnlyIfSettled,
         TrailSound, DispatchBudget
    <2> QED
      BY <1>t, <2>r, <2>1, <2>2, StopMoves, RestingIsOK, OneMoves
  <1>15. ASSUME NEW w \in Workers, Emit(w) PROVE IInv'
    <2>h. worker[w] \in Handler /\ WorkerOK(w)
      BY <1>t DEF TypeOK
    <2>r. UNCHANGED <<rows, swaps, sent, provider, credited, budgets>> /\ told' = told + 1
      BY <1>15 DEF Emit
    <2>c. provider = "settled"
      BY <1>15, <2>h DEF Emit, At, WorkerOK
    <2>1. Stop(w) /\ TypeOK'
      BY <1>t, <1>15, <2>r, StopMoves DEF TypeOK, Emit, Return, rows, budgets
    <2>2. Facts'
      BY <1>t, <2>r, <2>c DEF rows, Facts, SharedOK, AtMostOnePayout, CompletedOnlyIfSettled,
         TrailSound, DispatchBudget
    <2> QED
      BY <1>t, <2>r, <2>1, <2>2, StopMoves, RestingIsOK, OneMoves
  <1>16. ASSUME NEW w \in Workers, Deliver(w) PROVE IInv'
    <2>r. UNCHANGED <<rows, swaps, sent, provider, told, credited, budgets>>
      BY <1>16 DEF Deliver
    <2>f. Facts'
      BY <1>t, <2>r, FactsKept DEF rows
    <2> DEFINE to == IF provider = "settled" THEN "COMPLETED" ELSE "FAILED"
               h == [worker[w] EXCEPT !.at = "mark", !.target = to]
    <2>1. CASE worker' = [worker EXCEPT ![w].at = "mark", ![w].target = to] /\ UNCHANGED acked
      <3>h. worker[w] \in Handler /\ worker \in [Workers -> Handler]
        BY <1>t DEF TypeOK
      <3>c. w \in Consumers /\ w \notin Requests /\ w \notin Tickers
        BY <1>16, SettlementAssumption DEF Deliver
      <3>t. to \in {"COMPLETED", "FAILED"} /\ (to = "COMPLETED" => provider = "settled")
        OBVIOUS
      <3> HIDE DEF to
      <3>b. h \in Handler /\ worker' = [worker EXCEPT ![w] = h]
        BY <2>1, <3>h, <3>t DEF Handler, Labels, ConversionState
      <3>m. /\ worker' \in [Workers -> Handler]
            /\ worker'[w].at = "mark" /\ worker'[w].target = to
            /\ \A v \in Workers \ {w} : worker'[v] = worker[v]
        BY <3>h, <3>b DEF Handler
      <3>1. TypeOK'
        BY <1>t, <2>r, <2>1, <3>m DEF TypeOK, rows, budgets
      <3>2. WorkerOK(w)'
        BY <2>r, <3>c, <3>t, <3>m DEF WorkerOK, Moving, ConversionState
      <3> QED
        BY <1>t, <2>r, <2>f, <3>m, <3>1, <3>2, OneMoves
    <2>2. CASE Return(w)
      <3>1. Stop(w) /\ TypeOK'
        BY <1>t, <2>r, <2>2, StopMoves DEF TypeOK, Return, rows, budgets
      <3> QED
        BY <1>t, <2>r, <2>f, <3>1, StopMoves, RestingIsOK, OneMoves
    <2> QED
      BY <1>16, <2>1, <2>2 DEF Deliver
  <1>17. ASSUME NEW w \in Workers, MarkPayout(w) PROVE IInv'
    <2>h. worker[w] \in Handler /\ WorkerOK(w)
      BY <1>t DEF TypeOK
    <2>r. UNCHANGED <<session, trail, payment, outside, credited, budgets>>
      BY <1>17 DEF MarkPayout
    <2>p. /\ payout' \in Payout /\ payout'.status # "PENDING_DISPATCH"
          /\ payout'.status = "CONFIRMED" => provider = "settled"
      <3>1. CASE worker[w].target = "COMPLETED"
        BY <1>t, <1>17, <2>h, <3>1 DEF MarkPayout, At, WorkerOK, Moving, TypeOK, Payout, PayoutStatus
      <3>2. CASE worker[w].target # "COMPLETED"
        BY <1>t, <1>17, <3>2 DEF MarkPayout, TypeOK, Payout, PayoutStatus
      <3> QED
        BY <3>1, <3>2
    <2>m. /\ worker' \in [Workers -> Handler]
          /\ worker'[w] = [worker[w] EXCEPT !.at = "session"]
          /\ \A v \in Workers \ {w} : worker'[v] = worker[v]
      BY <1>t, <1>17, GotoMoves DEF MarkPayout, Labels
    <2>1. TypeOK'
      BY <1>t, <2>r, <2>p, <2>m DEF TypeOK, outside, budgets
    <2>2. Facts'
      BY <1>t, <2>r, <2>p DEF outside, Facts, SharedOK, AtMostOnePayout, CompletedOnlyIfSettled,
         TrailSound, DispatchBudget
    <2>3. WorkerOK(w)'
      BY <1>17, <2>h, <2>r, <2>m, SettlementAssumption DEF MarkPayout, At, WorkerOK, Moving, Handler, outside
    <2> QED
      BY <1>t, <2>r, <2>m, <2>1, <2>2, <2>3, OneMoves DEF outside
  <1>18. ASSUME NEW w \in Workers, ReadOutcomeSession(w) PROVE IInv'
    <2>h. worker[w] \in Handler /\ WorkerOK(w)
      BY <1>t DEF TypeOK
    <2>r. UNCHANGED <<rows, swaps, sent, provider, told, credited, budgets>>
      BY <1>18 DEF ReadOutcomeSession
    <2>f. Facts'
      BY <1>t, <2>r, FactsKept DEF rows
    <2>1. CASE Goto(w, "read") /\ UNCHANGED acked
      <3>m. /\ worker' \in [Workers -> Handler]
            /\ worker'[w] = [worker[w] EXCEPT !.at = "read"]
            /\ \A v \in Workers \ {w} : worker'[v] = worker[v]
        BY <1>t, <2>1, GotoMoves DEF Labels
      <3>1. TypeOK'
        BY <1>t, <2>r, <2>1, <3>m DEF TypeOK, rows, budgets
      <3>2. WorkerOK(w)'
        BY <1>18, <2>h, <2>r, <3>m, SettlementAssumption DEF ReadOutcomeSession, At, WorkerOK, Moving, Handler
      <3> QED
        BY <1>t, <2>r, <2>f, <3>m, <3>1, <3>2, OneMoves
    <2>2. CASE Return(w)
      <3>1. Stop(w) /\ TypeOK'
        BY <1>t, <2>r, <2>2, StopMoves DEF TypeOK, Return, rows, budgets
      <3> QED
        BY <1>t, <2>r, <2>f, <3>1, StopMoves, RestingIsOK, OneMoves
    <2> QED
      BY <1>18, <2>1, <2>2 DEF ReadOutcomeSession
  <1>19. CASE BriaResolves
    <2>1. TypeOK'
      BY <1>t, <1>19 DEF BriaResolves, TypeOK, rows, budgets
    <2>2. Facts'
      BY <1>t, <1>19 DEF BriaResolves, rows, Facts, SharedOK, AtMostOnePayout,
         CompletedOnlyIfSettled, TrailSound, DispatchBudget
    <2>3. \A v \in Workers : WorkerOK(v)'
      BY <1>t, <1>19, OthersKeep DEF BriaResolves
    <2> QED
      BY <2>1, <2>2, <2>3 DEF IInv, Facts
  <1>20. ASSUME NEW w \in Workers, DatabaseError(w) PROVE IInv'
    <2>m. worker' \in [Workers -> Handler]
      BY <1>t, <1>20, CatchMoves DEF DatabaseError
    <2>1. TypeOK'
      BY <1>t, <1>20, <2>m DEF DatabaseError, TypeOK, rows, outside
    <2>2. Facts'
      BY <1>t, <1>20, FactsKept DEF DatabaseError, rows, outside
    <2>3. WorkerOK(w)'
      BY <1>t, <1>20, CaughtIsOK DEF DatabaseError
    <2> QED
      BY <1>t, <1>20, <2>1, <2>2, <2>3, CatchMoves, OneMoves DEF DatabaseError, outside
  <1>21. ASSUME NEW w \in Workers, Abandon(w) PROVE IInv'
    <2>1. TypeOK'
      BY <1>t, <1>21, StopMoves DEF Abandon, TypeOK, rows, outside
    <2>2. Facts'
      BY <1>t, <1>21, FactsKept DEF Abandon, rows, outside
    <2> QED
      BY <1>t, <1>21, <2>1, <2>2, StopMoves, RestingIsOK, OneMoves DEF Abandon, outside
  <1>22. CASE UNCHANGED vars
    <2>1. TypeOK' /\ Facts'
      BY <1>t, <1>22, FactsKept DEF TypeOK, vars, rows, outside, budgets
    <2>2. \A v \in Workers : WorkerOK(v)'
      BY <1>t, <1>22, OthersKeep DEF vars, outside
    <2> QED
      BY <2>1, <2>2 DEF IInv, Facts
  <1> QED
    BY <1>1, <1>2, <1>3, <1>4, <1>5, <1>6, <1>7, <1>8, <1>9, <1>10, <1>11, <1>12,
       <1>13, <1>14, <1>15, <1>16, <1>17, <1>18, <1>19, <1>20, <1>21, <1>22
       DEF Next, Advance, Step

(* The invariant holds in every reachable state. *)
THEOREM Invariance == Spec => []IInv
  BY InitInv, NextInv, PTL DEF Spec

(* Rows, handlers and counters keep their types. *)
THEOREM TypeCorrect == Spec => []TypeOK
  BY Invariance, PTL DEF IInv

(* No bitcoin is handed to the backend before the payment was credited and  *)
(* converted, however handlers interleave, fail or stop.                   *)
THEOREM PayoutsAreBacked == Spec => []PayoutBacked
  <1>1. IInv => PayoutBacked
    BY DEF IInv, SharedOK, PayoutBacked
  <1> QED
    BY <1>1, Invariance, PTL

(* Neither the session nor the payout row claims a success the provider    *)
(* has not had.                                                            *)
THEOREM NoFalseCompletion == Spec => []CompletedOnlyIfSettled
  BY Invariance, PTL DEF IInv

(* The audit trail lists allowed transitions only. *)
THEOREM TrailIsSound == Spec => []TrailSound
  BY Invariance, PTL DEF IInv

(* A payout waiting for its next dispatch has attempts left. *)
THEOREM DispatchesAreBounded == Spec => []DispatchBudget
  BY Invariance, PTL DEF IInv

-----------------------------------------------------------------------------
(* The conversion implements ConversionPromise on an asynchronous backend. *)

(* Under the invariant every step is a step of the promise or none at all. *)
LEMMA StepKeepsPromise ==
  ASSUME Driver # "mock", IInv, [Next]_vars
  PROVE  [Promise!Next]_(Promise!vars)
  <1> USE SettlementAssumption DEF Promise!vars
  <1>t. TypeOK /\ SharedOK /\ AtMostOnePayout /\ \A w \in Workers : WorkerOK(w)
    BY DEF IInv
  <1>s. sent \in Nat /\ sent <= 1 /\ swaps \in Nat /\ told \in Nat /\ credited \in BOOLEAN
    BY <1>t DEF AtMostOnePayout, TypeOK
  <1>0. ASSUME UNCHANGED <<credited, swaps, sent, provider, told>>
        PROVE  UNCHANGED Promise!vars
    BY <1>0
  <1>1. CASE PaymentWritten
    <2>1. UNCHANGED <<swaps, sent, provider, told>>
      BY <1>1 DEF PaymentWritten, outside
    <2>2. credited' \in BOOLEAN /\ (credited => credited')
      BY <1>1, <1>s DEF PaymentWritten
    <2>3. CASE credited' = credited
      BY <1>0, <2>1, <2>3
    <2>4. CASE credited' # credited
      BY <1>s, <2>1, <2>2, <2>4 DEF Promise!Next, Promise!Credit
    <2> QED
      BY <2>3, <2>4
  <1>2. ASSUME NEW w \in Workers, Swap(w) PROVE [Promise!Next]_(Promise!vars)
    <2>1. UNCHANGED <<credited, sent, provider, told>> /\ (swaps' = swaps + 1 \/ swaps' = swaps)
      BY <1>2 DEF Swap
    <2>2. credited
      BY <1>t, <1>2 DEF Swap, At, WorkerOK, Workers
    <2> QED
      BY <1>s, <2>1, <2>2 DEF Promise!Next, Promise!Convert
  <1>3. ASSUME NEW w \in Workers, SubmitAccepted(w) \/ SubmitFails(w)
        PROVE  [Promise!Next]_(Promise!vars)
    <2>1. /\ UNCHANGED <<credited, swaps, told>>
          /\ Accept \/ UNCHANGED <<sent, provider>>
      BY <1>3 DEF SubmitAccepted, SubmitFails
    <2>2. swaps > 0
      BY <1>t, <1>3 DEF SubmitAccepted, SubmitFails, At, WorkerOK, Workers
    <2>3. CASE UNCHANGED <<sent, provider>>
      BY <1>0, <2>1, <2>3
    <2>4. CASE sent = 0 /\ sent' = 1 /\ provider' = "accepted"
      BY <1>t, <2>1, <2>2, <2>4 DEF SharedOK, TypeOK, Promise!Next, Promise!Send
    <2> QED
      BY <2>1, <2>3, <2>4 DEF Accept
  <1>4. ASSUME NEW w \in Workers, Emit(w) PROVE [Promise!Next]_(Promise!vars)
    <2>1. UNCHANGED <<credited, swaps, sent, provider>> /\ told' = told + 1
      BY <1>4 DEF Emit, rows
    <2>2. provider = "settled"
      BY <1>t, <1>4 DEF Emit, At, WorkerOK
    <2> QED
      BY <1>s, <2>1, <2>2 DEF Promise!Next, Promise!Tell
  <1>5. CASE BriaResolves
    <2>1. /\ UNCHANGED <<credited, swaps, sent, told>>
          /\ provider = "accepted" /\ provider' \in {"settled", "cancelled"}
      BY <1>5 DEF BriaResolves
    <2> QED
      BY <1>s, <2>1 DEF Promise!Next, Promise!Resolve
  <1>6. ASSUME NEW w \in Workers,
               \/ ReadSession(w) \/ ReadPayment(w) \/ ReadPayout(w)
               \/ Read(w) \/ Write(w) \/ RecordEvent(w)
               \/ Save(w) \/ FailRow(w) \/ Exhaust(w) \/ Requeue(w)
               \/ Tick(w) \/ Deliver(w) \/ MarkPayout(w) \/ ReadOutcomeSession(w)
               \/ DatabaseError(w) \/ Abandon(w)
        PROVE  UNCHANGED Promise!vars
    <2>1. UNCHANGED <<credited, swaps, sent, provider, told>>
      BY <1>6 DEF ReadSession, ReadPayment, ReadPayout, Read, Write, RecordEvent, Save,
         FailRow, Exhaust, Requeue, Tick, Deliver, MarkPayout, ReadOutcomeSession,
         DatabaseError, Abandon, outside
    <2> QED
      BY <1>0, <2>1
  <1>7. CASE UNCHANGED vars
    BY <1>0, <1>7 DEF vars, outside
  <1> QED
    BY <1>1, <1>2, <1>3, <1>4, <1>5, <1>6, <1>7 DEF Next, Advance, Step

(* On an asynchronous backend the conversion implements its promise. *)
THEOREM PromiseKept == ASSUME Driver # "mock" PROVE Spec => KeepsPromise
  <1>1. Init => Promise!Init
    BY DEF Init, Promise!Init
  <1>2. IInv /\ [Next]_vars => [Promise!Next]_(Promise!vars)
    BY StepKeepsPromise
  <1> QED
    BY <1>1, <1>2, Invariance, PTL DEF Spec, KeepsPromise, Promise!Spec

-----------------------------------------------------------------------------
(* The session only moves on: nobody returns it to PAYMENT_PENDING, and a   *)
(* consumer takes part only once the provider holds the payout.            *)
Forward ==
    /\ \A w \in Workers : worker[w].target # "PAYMENT_PENDING"
    /\ \A c \in Consumers : worker[c].at # "idle" => provider # "none"

LEMMA InitForward == Init => Forward
  BY SettlementAssumption DEF SettlementAssumption, Init, Resting, Workers, Forward

(* For any handlers, and whatever the payment row does. *)
LEMMA NextForward ==
  ASSUME IInv, Forward, [Next]_vars
  PROVE  Forward'
  <1> USE SettlementAssumption
      DEF SettlementAssumption, Forward,
          At, Workers, WorkerOK, SharedOK, Moving, Handler, rows, outside, budgets
  <1>t. /\ worker \in [Workers -> Handler] /\ swaps \in Nat /\ sent \in Nat
        /\ SharedOK /\ \A w \in Workers : WorkerOK(w)
    BY DEF IInv, TypeOK
  <1>1. ASSUME NEW w \in Workers, ReadSession(w) PROVE Forward'
    BY <1>t, <1>1 DEF ReadSession, Goto
  <1>2. ASSUME NEW w \in Workers, ReadPayment(w) PROVE Forward'
    BY <1>t, <1>2 DEF ReadPayment, Call, Stop, Resting
  <1>3. ASSUME NEW w \in Workers, Swap(w) PROVE Forward'
    BY <1>t, <1>3 DEF Swap, Call
  <1>4. ASSUME NEW w \in Workers, ReadPayout(w) PROVE Forward'
    BY <1>t, <1>4 DEF ReadPayout
  <1>5. ASSUME NEW w \in Workers, Read(w) PROVE Forward'
    BY <1>t, <1>5 DEF Read, InTry, Catch, Stop, Resting
  <1>6. ASSUME NEW w \in Workers, Write(w) PROVE Forward'
    BY <1>t, <1>6 DEF Write, Goto
  <1>7. ASSUME NEW w \in Workers, RecordEvent(w) PROVE Forward'
    BY <1>t, <1>7 DEF RecordEvent, Proceed, Return, Stop, Resting, Goto, Call
  <1>8. ASSUME NEW w \in Workers, SubmitAccepted(w) PROVE Forward'
    BY <1>t, <1>8 DEF SubmitAccepted, Goto, Accept
  <1>9. ASSUME NEW w \in Workers, SubmitFails(w) PROVE Forward'
    BY <1>t, <1>9 DEF SubmitFails, Accept, AfterError
  <1>10. ASSUME NEW w \in Workers, Save(w) PROVE Forward'
    BY <1>t, <1>10 DEF Save, Return, Stop, Resting, Call
  <1>11. ASSUME NEW w \in Workers, FailRow(w) PROVE Forward'
    BY <1>t, <1>11 DEF FailRow, Call
  <1>12. ASSUME NEW w \in Workers, Exhaust(w) PROVE Forward'
    BY <1>t, <1>12 DEF Exhaust, Call
  <1>13. ASSUME NEW w \in Workers, Requeue(w) PROVE Forward'
    BY <1>t, <1>13 DEF Requeue, Return, Stop, Resting
  <1>14. ASSUME NEW w \in Workers, Emit(w) PROVE Forward'
    BY <1>t, <1>14 DEF Emit, Return, Stop, Resting
  <1>15. ASSUME NEW w \in Workers, Tick(w) PROVE Forward'
    BY <1>t, <1>15 DEF Tick
  <1>16. ASSUME NEW w \in Workers, Deliver(w) PROVE Forward'
    BY <1>t, <1>16 DEF Deliver, Return, Stop, Resting
  <1>17. ASSUME NEW w \in Workers, MarkPayout(w) PROVE Forward'
    BY <1>t, <1>17 DEF MarkPayout, Goto
  <1>18. ASSUME NEW w \in Workers, ReadOutcomeSession(w) PROVE Forward'
    BY <1>t, <1>18 DEF ReadOutcomeSession, Return, Stop, Resting, Goto
  <1>19. ASSUME NEW w \in Workers, DatabaseError(w) PROVE Forward'
    BY <1>t, <1>19 DEF DatabaseError, InTry, Catch
  <1>20. ASSUME NEW w \in Workers, Abandon(w) PROVE Forward'
    BY <1>t, <1>20 DEF Abandon, Stop, Resting
  <1>21. CASE PaymentWritten
    BY <1>t, <1>21 DEF PaymentWritten
  <1>22. CASE BriaResolves
    BY <1>t, <1>22 DEF BriaResolves
  <1>23. CASE UNCHANGED vars
    BY <1>t, <1>23 DEF vars
  <1> QED
    BY <1>1, <1>2, <1>3, <1>4, <1>5, <1>6, <1>7, <1>8, <1>9, <1>10, <1>11, <1>12,
       <1>13, <1>14, <1>15, <1>16, <1>17, <1>18, <1>19, <1>20, <1>21, <1>22, <1>23
       DEF Next, Advance, Step

LEMMA MovesForward == Spec => []Forward
  BY InitForward, NextForward, Invariance, PTL DEF Spec

-----------------------------------------------------------------------------
(* How often the payment is converted. *)

(* On the way to the swap. *)
Converting(w) ==
    \/ worker[w].at \in {"payment", "swap"}
    \/ Moving(w, "PAYMENT_CONFIRMED") \/ Moving(w, "EXECUTION_PENDING")

(* It has moved the session off PAYMENT_PENDING. *)
Begun(w) ==
    /\ worker[w].at \notin {"idle", "payment"}
    /\ ~(worker[w].at \in {"read", "write"} /\ worker[w].target = "PAYMENT_CONFIRMED")

Live == {r \in Requests : Converting(r)}

(* Nobody sets out once the session has moved on, so the swaps made and the *)
(* handlers that may still make one are together no more than there are.   *)
Counted ==
    /\ session = "PAYMENT_PENDING" => swaps = 0 /\ \A r \in Requests : ~Begun(r)
    /\ session # "PAYMENT_PENDING" => swaps + Cardinality(Live) <= Cardinality(Requests)

LEMMA InitCounted == Init => Counted
  BY DEF Init, Resting, Workers, Counted, Begun

(* What one step does to who may still swap. *)
LEMMA NextConverting ==
  ASSUME IInv, Forward, [Next]_vars,
         session = "PAYMENT_PENDING" => \A r \in Requests : ~Begun(r)
  PROVE  /\ session' = "PAYMENT_PENDING" =>
              session = "PAYMENT_PENDING" /\ \A r \in Requests : ~Begun(r)'
         /\ session # "PAYMENT_PENDING" =>
              \A r \in Requests : Converting(r)' => Converting(r)
         /\ \/ swaps' = swaps
            \/ /\ swaps' = swaps + 1 /\ session # "PAYMENT_PENDING" /\ session' = session
               /\ \E w \in Requests : Converting(w) /\ ~Converting(w)'
  <1> DEFINE Counts ==
        /\ session' = "PAYMENT_PENDING" =>
             session = "PAYMENT_PENDING" /\ \A r \in Requests : ~Begun(r)'
        /\ session # "PAYMENT_PENDING" =>
             \A r \in Requests : Converting(r)' => Converting(r)
        /\ \/ swaps' = swaps
           \/ /\ swaps' = swaps + 1 /\ session # "PAYMENT_PENDING" /\ session' = session
              /\ \E w \in Requests : Converting(w) /\ ~Converting(w)'
  <1> SUFFICES Counts
    OBVIOUS
  <1> USE SettlementAssumption
      DEF SettlementAssumption, Forward, Converting, Begun, At, Workers, Moving, Handler, rows,
          outside, budgets
  <1>t. /\ worker \in [Workers -> Handler] /\ swaps \in Nat
        /\ \A w \in Tickers \cup Consumers : worker[w].at \notin {"payment", "swap"}
        /\ \A r \in Requests : worker[r].at \notin {"mark", "session"}
        /\ session = "PAYMENT_PENDING" => \A r \in Requests : ~Begun(r)
        /\ \A w \in Workers : worker[w].target # "PAYMENT_PENDING"
    BY DEF IInv, TypeOK, WorkerOK
  <1>1. ASSUME NEW w \in Workers, ReadSession(w) PROVE Counts
    BY <1>t, <1>1 DEF ReadSession, Goto
  <1>2. ASSUME NEW w \in Workers, ReadPayment(w) PROVE Counts
    BY <1>t, <1>2 DEF ReadPayment, Call, Stop, Resting
  <1>3. ASSUME NEW w \in Workers, Swap(w) PROVE Counts
    BY <1>t, <1>3 DEF Swap, Call
  <1>4. ASSUME NEW w \in Workers, ReadPayout(w) PROVE Counts
    BY <1>t, <1>4 DEF ReadPayout
  <1>5. ASSUME NEW w \in Workers, Read(w) PROVE Counts
    BY <1>t, <1>5 DEF Read, InTry, Catch, Stop, Resting
  <1>6. ASSUME NEW w \in Workers, Write(w) PROVE Counts
    BY <1>t, <1>6 DEF Write, Goto
  <1>7. ASSUME NEW w \in Workers, RecordEvent(w) PROVE Counts
    BY <1>t, <1>7 DEF RecordEvent, Proceed, Return, Stop, Resting, Goto, Call
  <1>8. ASSUME NEW w \in Workers, SubmitAccepted(w) PROVE Counts
    BY <1>t, <1>8 DEF SubmitAccepted, Goto
  <1>9. ASSUME NEW w \in Workers, SubmitFails(w) PROVE Counts
    BY <1>t, <1>9 DEF SubmitFails, AfterError
  <1>10. ASSUME NEW w \in Workers, Save(w) PROVE Counts
    BY <1>t, <1>10 DEF Save, Return, Stop, Resting, Call
  <1>11. ASSUME NEW w \in Workers, FailRow(w) PROVE Counts
    BY <1>t, <1>11 DEF FailRow, Call
  <1>12. ASSUME NEW w \in Workers, Exhaust(w) PROVE Counts
    BY <1>t, <1>12 DEF Exhaust, Call
  <1>13. ASSUME NEW w \in Workers, Requeue(w) PROVE Counts
    BY <1>t, <1>13 DEF Requeue, Return, Stop, Resting
  <1>14. ASSUME NEW w \in Workers, Emit(w) PROVE Counts
    BY <1>t, <1>14 DEF Emit, Return, Stop, Resting
  <1>15. ASSUME NEW w \in Workers, Tick(w) PROVE Counts
    BY <1>t, <1>15 DEF Tick
  <1>16. ASSUME NEW w \in Workers, Deliver(w) PROVE Counts
    BY <1>t, <1>16 DEF Deliver, Return, Stop, Resting
  <1>17. ASSUME NEW w \in Workers, MarkPayout(w) PROVE Counts
    BY <1>t, <1>17 DEF MarkPayout, Goto
  <1>18. ASSUME NEW w \in Workers, ReadOutcomeSession(w) PROVE Counts
    BY <1>t, <1>18 DEF ReadOutcomeSession, Return, Stop, Resting, Goto
  <1>19. ASSUME NEW w \in Workers, DatabaseError(w) PROVE Counts
    BY <1>t, <1>19 DEF DatabaseError, InTry, Catch
  <1>20. ASSUME NEW w \in Workers, Abandon(w) PROVE Counts
    BY <1>t, <1>20 DEF Abandon, Stop, Resting
  <1>21. CASE PaymentWritten
    BY <1>t, <1>21 DEF PaymentWritten
  <1>22. CASE BriaResolves
    BY <1>t, <1>22 DEF BriaResolves
  <1>23. CASE UNCHANGED vars
    BY <1>t, <1>23 DEF vars
  <1> QED
    BY <1>1, <1>2, <1>3, <1>4, <1>5, <1>6, <1>7, <1>8, <1>9, <1>10, <1>11, <1>12,
       <1>13, <1>14, <1>15, <1>16, <1>17, <1>18, <1>19, <1>20, <1>21, <1>22, <1>23
       DEF Next, Advance, Step

LEMMA NextCounted ==
  ASSUME IsFiniteSet(Requests), IInv, Forward, Counted, [Next]_vars
  PROVE  Counted'
  <1>t. swaps \in Nat /\ swaps' \in Nat
    BY NextInv DEF IInv, TypeOK
  <1>s. /\ session' = "PAYMENT_PENDING" =>
             session = "PAYMENT_PENDING" /\ \A r \in Requests : ~Begun(r)'
        /\ session # "PAYMENT_PENDING" =>
             \A r \in Requests : Converting(r)' => Converting(r)
        /\ \/ swaps' = swaps
           \/ /\ swaps' = swaps + 1 /\ session # "PAYMENT_PENDING" /\ session' = session
              /\ \E w \in Requests : Converting(w) /\ ~Converting(w)'
    BY NextConverting DEF Counted
  <1>f. /\ IsFiniteSet(Live) /\ IsFiniteSet(Live')
        /\ Cardinality(Requests) \in Nat /\ Cardinality(Live) \in Nat /\ Cardinality(Live') \in Nat
        /\ Cardinality(Live') <= Cardinality(Requests)
    <2>1. Live \subseteq Requests /\ Live' \subseteq Requests
      BY DEF Live
    <2> QED
      BY <2>1, FS_Subset, FS_CardinalityType
  <1>1. CASE session' = "PAYMENT_PENDING"
    BY <1>s, <1>1 DEF Counted
  <1>2. CASE session = "PAYMENT_PENDING" /\ session' # "PAYMENT_PENDING"
    BY <1>f, <1>s, <1>2 DEF Counted
  <1>3. CASE session # "PAYMENT_PENDING"
    <2>1. Live' \subseteq Live /\ Cardinality(Live') <= Cardinality(Live)
      <3>1. Live' \subseteq Live
        BY <1>3, <1>s DEF Live
      <3> QED
        BY <1>f, <3>1, FS_Subset
    <2>2. CASE swaps' = swaps
      BY <1>f, <1>s, <1>t, <1>3, <2>1, <2>2 DEF Counted
    <2>3. CASE swaps' = swaps + 1
      <3>1. PICK w \in Requests : Converting(w) /\ ~Converting(w)'
        BY <1>s, <1>t, <2>3
      <3>2. w \in Live /\ Live' \subseteq Live \ {w}
        BY <2>1, <3>1 DEF Live
      <3>3. IsFiniteSet(Live \ {w}) /\ Cardinality(Live \ {w}) = Cardinality(Live) - 1
        BY <1>f, <3>2, FS_RemoveElement
      <3>4. Cardinality(Live') <= Cardinality(Live) - 1
        BY <3>2, <3>3, FS_Subset
      <3> QED
        BY <1>f, <1>s, <1>t, <1>3, <2>3, <3>4 DEF Counted
    <2> QED
      BY <1>s, <2>2, <2>3
  <1> QED
    BY <1>1, <1>2, <1>3

(* However polls, events, retries and crashes interleave, a payment is      *)
(* converted at most once by each handler that can be at work on it.        *)
THEOREM SwapsAreBounded == ASSUME IsFiniteSet(Requests) PROVE Spec => []SwapsBounded
  <1>1. Counted /\ TypeOK => SwapsBounded
    <2> SUFFICES ASSUME Counted, TypeOK
                 PROVE  SwapsBounded
      OBVIOUS
    <2>1. Live \subseteq Requests
      BY DEF Live
    <2>2. Cardinality(Requests) \in Nat /\ Cardinality(Live) \in Nat
      BY <2>1, FS_Subset, FS_CardinalityType
    <2> QED
      BY <2>2 DEF Counted, SwapsBounded, TypeOK
  <1>2. IInv => TypeOK
    BY DEF IInv
  <1>3. IsFiniteSet(Requests) /\ IInv /\ Forward /\ Counted /\ [Next]_vars => Counted'
    BY NextCounted
  <1> QED
    BY <1>1, <1>2, <1>3, InitCounted, MovesForward, Invariance, PTL DEF Spec

=============================================================================
