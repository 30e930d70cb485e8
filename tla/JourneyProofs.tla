--------------------------- MODULE JourneyProofs ---------------------------
(***************************************************************************)
(* Proofs about GuestJourney, for any number of tabs, requests, quotes,     *)
(* sessions, documents and disturbances.                                   *)
(***************************************************************************)
EXTENDS GuestJourney, TLAPS

-----------------------------------------------------------------------------
(* Requests. *)

OnSession == {"identity", "payout", "initiate"}

(* Where a request of an operation can be, and the state it asks for. *)
Labels(op) ==
    CASE op = "none"     -> {"idle"}
      [] op = "quote"    -> {"rate", "insert", "done"}
      [] op = "session"  -> {"validate", "expirequote", "confirm", "create", "read", "write",
                             "done"}
      [] op = "identity" -> {"get", "find", "insert", "link", "read", "write", "checks",
                             "limits", "done"}
      [] op = "payout"   -> {"get", "insert", "read", "write", "done"}
      [] op = "initiate" -> {"get", "push", "read", "write", "done"}
      [] op = "status"   -> {"get", "done"}

Targets(op) ==
    CASE op = "session"  -> {"IDENTITY_PENDING"}
      [] op = "identity" -> {"EXPIRED", "COMPLIANCE_PENDING", "FAILED", "MANUAL_REVIEW",
                             "PAYOUT_DETAILS_PENDING"}
      [] op = "payout"   -> {"EXPIRED", "PAYMENT_PENDING"}
      [] op = "initiate" -> {"EXPIRED"}
      [] OTHER           -> {}

RequestOK(h) ==
    LET r == handler[h] IN
    /\ r.at \in Labels(r.op)
    /\ r.op = "none" => r = Resting /\ client[h] = Nobody
    /\ client[h].tab = "none" => client[h] = Nobody
    /\ r.op \in {"quote", "session"} => r.quote \in Quotes
    /\ r.op \in OnSession \cup {"status"} => r.session \in Sessions
    /\ r.op = "session" =>
         /\ r.at \in {"validate", "expirequote", "confirm", "create"} => r.session = "none"
         /\ r.at \in {"read", "write"} => r.session \in Sessions
    /\ r.op = "identity" => r.id \in Identities
    /\ r.at \in {"read", "write"} => r.target \in Targets(r.op)
    /\ r.op = "session" /\ r.at = "done" /\ r.reply = "ok" => r.session \in Sessions
    /\ r.op # "status" /\ r.at = "done" => r.reply \in {"ok", "refused"}
    /\ r.op = "status" /\ r.at = "done" => r.reply \in ConversionState \cup {"none", "refused"}

RequestsOK ==
    /\ handler \in [Handlers -> Request]
    /\ TypeOK
    /\ \A h \in Handlers : RequestOK(h)

-----------------------------------------------------------------------------
(* What a payable order has. *)

HasGuest(s) == rows[s].guest # "none"

Equipped(h) ==
    LET s == handler[h].session IN
    /\ handler[h].op = "identity" =>
         /\ handler[h].at \in {"checks", "limits"} => HasGuest(s)
         /\ handler[h].at \in {"read", "write"} /\ handler[h].target # "EXPIRED" => HasGuest(s)
    /\ handler[h].op = "payout" =>
         /\ handler[h].at = "insert" => HasGuest(s)
         /\ handler[h].at \in {"read", "write"} /\ handler[h].target = "PAYMENT_PENDING" =>
              HasGuest(s) /\ rows[s].payout

EquippedOK ==
    /\ PayableIsEquipped
    /\ \A s \in Sessions :
         rows[s].state \in {"COMPLIANCE_PENDING", "PAYOUT_DETAILS_PENDING"} => HasGuest(s)
    /\ \A h \in Handlers : Equipped(h)

-----------------------------------------------------------------------------
(* Whose an order is. *)

(* The session is in the hands of the request that creates it. *)
Fresh(s) ==
    /\ cleared[s] = "none"
    /\ \A w \in Wizards : s \notin orders[w]
    /\ \A h \in Handlers : handler[h].op \in OnSession => handler[h].session # s

Creating(h) ==
    LET s == handler[h].session IN
    handler[h].op = "session" /\ s # "none" =>
        /\ Fresh(s)
        /\ rows[s].state # "none"
        /\ \A g \in Handlers : handler[g].op = "session" /\ handler[g].session = s => g = h

Unborn(s) ==
    rows[s].state = "none" =>
        /\ Fresh(s)
        /\ \A h \in Handlers : handler[h].op # "status" => handler[h].session # s
        /\ \A w \in Wizards : wizard[w].session # s

Sender(h) ==
    client[h].tab # "none" /\ handler[h].op \in OnSession
        => handler[h].session \in orders[client[h].tab]

Owned ==
    /\ \A h \in Handlers : Creating(h) /\ Sender(h)
    /\ \A s \in Sessions : Unborn(s)
    /\ \A v, w \in Wizards : v # w => orders[v] \cap orders[w] = {}

(* A tab that follows an order by its reference code only polls. *)
Following(w) ==
    /\ wizard[w].step \in {"processing", "result"}
    /\ wizard[w].step = "result" => wizard[w].polling = "none"
    /\ wizard[w].leaked = "none"
    /\ \A h \in Handlers : client[h].tab = w =>
         handler[h].op = "status" /\ client[h].step = "processing"

TabOK(w) ==
    /\ wizard[w].session # "none" /\ wizard[w].session \notin orders[w] => Following(w)
    /\ wizard[w].leaked # "none" => wizard[w].leaked \in orders[w]

-----------------------------------------------------------------------------
(* How far an order has come, as its tab shows it. *)

Reached(w) ==
    LET s == wizard[w].session IN
    s # "none" /\ OnlyOrder(s) =>
        /\ wizard[w].step \in {"payout", "payment"} => cleared[s] # "none"
        /\ wizard[w].step = "payment" => rows[s].payout

AskedFor(h) ==
    LET s == handler[h].session IN
    OnlyOrder(s) =>
        /\ handler[h].op \in {"payout", "initiate"} => cleared[s] # "none"
        /\ handler[h].op = "identity" /\ handler[h].at = "done" /\ handler[h].reply = "ok"
             => cleared[s] # "none"
        /\ handler[h].op = "identity" /\ handler[h].at \in {"read", "write"}
           /\ handler[h].target = "PAYOUT_DETAILS_PENDING" => cleared[s] # "none"
        /\ handler[h].op = "payout" /\ handler[h].at = "done" /\ handler[h].reply = "ok"
             => rows[s].payout

-----------------------------------------------------------------------------
(* Undisturbed journeys: one identity at a time. *)

Away == {"amount", "quote", "processing", "result"}

Waited(h) == handler[h].at # "idle" => client[h].tab # "none"

Screening(h) ==
    LET s == handler[h].session IN
    handler[h].op = "identity" /\ OnlyOrder(s) =>
        /\ cleared[s] = "none" =>
             /\ \A g \in Handlers : handler[g].op = "identity" /\ handler[g].session = s => g = h
             /\ \A w \in Wizards :
                  wizard[w].session = s => wizard[w].loading = h \/ wizard[w].step \in Away
             /\ handler[h].at \in {"checks", "limits"} => rows[s].guest = handler[h].id
             /\ handler[h].at \in {"read", "write"} /\ handler[h].target # "EXPIRED"
                  => rows[s].guest = handler[h].id
        /\ cleared[s] # "none" =>
             /\ handler[h].at \in {"get", "read", "write", "done"}
             /\ handler[h].at \in {"read", "write"}
                  => handler[h].target \in {"EXPIRED", "PAYOUT_DETAILS_PENDING"}
        /\ handler[h].at \in {"checks", "limits"} => rows[s].state # "IDENTITY_PENDING"
        /\ handler[h].at \in {"read", "write"}
           /\ handler[h].target \in {"FAILED", "MANUAL_REVIEW", "PAYOUT_DETAILS_PENDING"}
             => rows[s].state # "IDENTITY_PENDING"

Screened(s) ==
    OnlyOrder(s) =>
        /\ ScreenedIsLinked(s)
        /\ cleared[s] # "none" => rows[s].guest = cleared[s] /\ rows[s].state # "IDENTITY_PENDING"

Screenings ==
    /\ \A h \in Handlers : Waited(h) /\ Screening(h)
    /\ \A s \in Sessions : Screened(s)

Screens == Undisturbed => Screenings

-----------------------------------------------------------------------------
(* Journeys in order: one request at a time. *)

Acting(h) == handler[h].op \in OnSession \cup {"session"} /\ handler[h].session # "none"

Alone(h) ==
    LET s == handler[h].session IN
    Acting(h) /\ OnlyOrder(s) =>
        /\ \A g \in Handlers : Acting(g) /\ handler[g].session = s => g = h
        /\ \A w \in Wizards :
             handler[h].op # "session" /\ wizard[w].session = s
                => wizard[w].loading = h \/ wizard[w].step \in Away
        /\ handler[h].at \notin {"get", "push", "done"} => rows[s].state \notin PostPaymentStates

Shown(w) ==
    LET s == wizard[w].session IN
    OnlyOrder(s) /\ wizard[w].final # "none" => s # "none" /\ rows[s].state = wizard[w].final

Told(h) ==
    LET s == handler[h].session IN
    handler[h].op = "status" /\ handler[h].at = "done" /\ handler[h].reply \in Terminal /\ OnlyOrder(s)
        => rows[s].state = handler[h].reply

Orderings ==
    /\ \A h \in Handlers : Alone(h) /\ Told(h)
    /\ \A w \in Wizards : Shown(w)

Orderly == InOrder => Orderings

-----------------------------------------------------------------------------
(* What the steps of a request do to it and to its rows. *)

Kept(h) ==
    /\ handler' \in [Handlers -> Request]
    /\ \A g \in Handlers : g # h => handler'[g] = handler[g]
    /\ handler'[h].op = handler[h].op /\ handler'[h].quote = handler[h].quote
    /\ handler'[h].id = handler[h].id

SameSession(h) == handler'[h].session = handler[h].session

Goes(h, label) == SameSession(h) /\ handler'[h].at = label /\ handler'[h].target = handler[h].target

Ends(h, r) == Goes(h, "done") /\ handler'[h].reply = r

Calls(h, to) == SameSession(h) /\ handler'[h].at = "read" /\ handler'[h].target = to

LEMMA GotoMoves ==
  ASSUME handler \in [Handlers -> Request], NEW h \in Handlers, NEW l, Goto(h, l),
         l \in {"rate", "insert", "validate", "expirequote", "confirm", "create", "read", "write",
                "get", "find", "link", "checks", "limits", "push", "done"}
  PROVE  Kept(h) /\ Goes(h, l)
<1>1. [handler[h] EXCEPT !.at = l] \in Request
  BY DEF Request
<1>2. handler' = [handler EXCEPT ![h] = [handler[h] EXCEPT !.at = l]]
  BY DEF Goto, Request
<1>3. handler'[h] = [handler[h] EXCEPT !.at = l]
  BY <1>2
<1>4. handler' \in [Handlers -> Request] /\ \A g \in Handlers : g # h => handler'[g] = handler[g]
  BY <1>1, <1>2
<1> QED
  BY <1>3, <1>4 DEF Kept, Goes, SameSession, Request

LEMMA ReplyMoves ==
  ASSUME handler \in [Handlers -> Request], NEW h \in Handlers, NEW r, Reply(h, r),
         r \in ConversionState \cup {"none", "ok", "refused"}
  PROVE  Kept(h) /\ Ends(h, r)
<1>1. [handler[h] EXCEPT !.at = "done", !.reply = r] \in Request
  BY ZenonT(30) DEF Request
<1>2. handler' = [handler EXCEPT ![h] = [handler[h] EXCEPT !.at = "done", !.reply = r]]
  BY DEF Reply, Request
<1>3. handler'[h] = [handler[h] EXCEPT !.at = "done", !.reply = r]
  BY <1>2
<1>4. handler' \in [Handlers -> Request] /\ \A g \in Handlers : g # h => handler'[g] = handler[g]
  BY <1>1, <1>2
<1> QED
  BY <1>3, <1>4 DEF Kept, Goes, Ends, SameSession, Request

LEMMA CallMoves ==
  ASSUME handler \in [Handlers -> Request], NEW h \in Handlers, NEW to \in ConversionState,
         Call(h, to)
  PROVE  Kept(h) /\ Calls(h, to)
<1>1. [handler[h] EXCEPT !.at = "read", !.target = to] \in Request
  BY ZenonT(30) DEF Request
<1>2. handler' = [handler EXCEPT ![h] = [handler[h] EXCEPT !.at = "read", !.target = to]]
  BY DEF Call, Request
<1>3. handler'[h] = [handler[h] EXCEPT !.at = "read", !.target = to]
  BY <1>2
<1>4. handler' \in [Handlers -> Request] /\ \A g \in Handlers : g # h => handler'[g] = handler[g]
  BY <1>1, <1>2
<1> QED
  BY <1>3, <1>4 DEF Kept, Calls, SameSession, Request

RowIs(s, state, guest, payout) ==
    /\ rows' \in [Sessions -> Row]
    /\ \A t \in Sessions : t # s => rows'[t] = rows[t]
    /\ rows'[s].state = state /\ rows'[s].guest = guest /\ rows'[s].payout = payout

LEMMA QuoteMoves ==
  ASSUME RequestsOK, NEW h \in Handlers,
         GetRate(h) \/ InsertQuote(h) \/ ValidateQuote(h) \/ ExpireQuote(h) \/ ConfirmQuote(h)
  PROVE  /\ Kept(h) /\ SameSession(h) /\ UNCHANGED <<rows, guests, cleared>>
         /\ quotes' \in [Quotes -> Quote]
         /\ \/ /\ handler[h].op = "quote" /\ handler[h].at \in {"rate", "insert"}
               /\ handler'[h].at = "insert" \/ Ends(h, "ok") \/ Ends(h, "refused")
            \/ /\ handler[h].op = "session" /\ handler[h].at \in {"validate", "expirequote", "confirm"}
               /\ handler'[h].at \in {"expirequote", "confirm", "create"} \/ Ends(h, "refused")
<1>f. handler \in [Handlers -> Request] /\ RequestOK(h) /\ quotes \in [Quotes -> Quote]
  BY DEF RequestsOK, TypeOK
<1>1. CASE GetRate(h)
  BY <1>f, <1>1, GotoMoves, ReplyMoves DEF GetRate, At, Goes, Ends
<1>2. CASE InsertQuote(h)
  BY <1>f, <1>2, ReplyMoves DEF InsertQuote, At, Goes, Ends, RequestOK, Quote
<1>3. CASE ValidateQuote(h)
  BY <1>f, <1>3, GotoMoves, ReplyMoves DEF ValidateQuote, At, Goes, Ends
<1>4. CASE ExpireQuote(h)
  BY <1>f, <1>4, ReplyMoves DEF ExpireQuote, At, Goes, Ends, RequestOK, Quote
<1>5. CASE ConfirmQuote(h)
  BY <1>f, <1>5, GotoMoves DEF ConfirmQuote, At, Goes, RequestOK, Quote
<1> QED
  BY <1>1, <1>2, <1>3, <1>4, <1>5

LEMMA CreateMoves ==
  ASSUME RequestsOK, NEW h \in Handlers, CreateSession(h)
  PROVE  /\ Kept(h) /\ UNCHANGED <<quotes, guests, cleared>>
         /\ handler[h].op = "session" /\ handler[h].at = "create"
         /\ \E s \in Sessions :
              /\ rows[s].state = "none"
              /\ handler'[h].session = s /\ handler'[h].at = "read"
              /\ handler'[h].target = "IDENTITY_PENDING"
              /\ RowIs(s, "QUOTE_CONFIRMED", rows[s].guest, rows[s].payout)
<1>f. /\ handler \in [Handlers -> Request] /\ handler[h].quote \in Quotes
      /\ rows \in [Sessions -> Row]
  BY DEF RequestsOK, TypeOK, RequestOK, CreateSession, At
<1>1. PICK s \in Sessions :
         /\ rows[s].state = "none"
         /\ rows' = [rows EXCEPT ![s].state = "QUOTE_CONFIRMED", ![s].quote = handler[h].quote]
         /\ handler' = [handler EXCEPT ![h].session = s, ![h].at = "read",
                                       ![h].target = "IDENTITY_PENDING"]
  BY DEF CreateSession
<1>2. [rows[s] EXCEPT !.state = "QUOTE_CONFIRMED", !.quote = handler[h].quote] \in Row
  BY <1>f DEF Row, ConversionState
<1>3. rows' = [rows EXCEPT ![s] = [rows[s] EXCEPT !.state = "QUOTE_CONFIRMED",
                                                   !.quote = handler[h].quote]]
  BY <1>1, <1>f DEF Row
<1>4. RowIs(s, "QUOTE_CONFIRMED", rows[s].guest, rows[s].payout)
  BY <1>f, <1>2, <1>3 DEF RowIs, Row
<1>5. [handler[h] EXCEPT !.session = s, !.at = "read", !.target = "IDENTITY_PENDING"] \in Request
  <2>1. handler[h] \in Request /\ "IDENTITY_PENDING" \in ConversionState
    BY <1>f DEF ConversionState
  <2> QED
    BY <2>1 DEF Request
<1>6. handler' = [handler EXCEPT ![h] = [handler[h] EXCEPT !.session = s, !.at = "read",
                                                    !.target = "IDENTITY_PENDING"]]
  BY <1>1, <1>f DEF Request
<1>7. Kept(h) /\ handler'[h].session = s /\ handler'[h].at = "read"
      /\ handler'[h].target = "IDENTITY_PENDING"
  BY <1>f, <1>5, <1>6 DEF Kept, Request
<1> QED
  BY <1>1, <1>4, <1>7 DEF CreateSession, At

LEMMA ReadMoves ==
  ASSUME RequestsOK, NEW h \in Handlers, Read(h)
  PROVE  /\ Kept(h) /\ UNCHANGED <<quotes, rows, guests, cleared>> /\ handler[h].at = "read"
         /\ \/ Goes(h, "write") /\ CanTransition(rows[handler[h].session].state, handler[h].target)
            \/ Ends(h, "refused")
  BY GotoMoves, ReplyMoves DEF Read, RequestsOK

LEMMA WriteMoves ==
  ASSUME RequestsOK, NEW h \in Handlers, Write(h)
  PROVE  LET s == handler[h].session
             to == handler[h].target
         IN  /\ Kept(h) /\ UNCHANGED <<quotes, guests, cleared>> /\ handler[h].at = "write"
             /\ s \in Sessions /\ to \in Targets(handler[h].op)
             /\ RowIs(s, to, rows[s].guest, rows[s].payout)
             /\ \/ to = "COMPLIANCE_PENDING" /\ Goes(h, "checks")
                \/ to \in {"IDENTITY_PENDING", "PAYOUT_DETAILS_PENDING", "PAYMENT_PENDING"}
                   /\ Ends(h, "ok")
                \/ to \in {"EXPIRED", "FAILED", "MANUAL_REVIEW"} /\ Ends(h, "refused")
<1> DEFINE s == handler[h].session
           to == handler[h].target
<1>f. /\ handler \in [Handlers -> Request] /\ rows \in [Sessions -> Row] /\ RequestOK(h)
      /\ handler[h].at = "write"
  BY DEF RequestsOK, TypeOK, Write
<1>1. s \in Sessions /\ to \in Targets(handler[h].op) /\ to \in ConversionState
  BY <1>f DEF RequestOK, Labels, OnSession, Targets, ConversionState, Request, Operation
<1>2. [rows[s] EXCEPT !.state = to] \in Row
  BY <1>f, <1>1 DEF Row
<1>3. rows' = [rows EXCEPT ![s] = [rows[s] EXCEPT !.state = to]]
  BY <1>f, <1>1 DEF Write, Row
<1>4. RowIs(s, to, rows[s].guest, rows[s].payout)
  BY <1>f, <1>1, <1>2, <1>3 DEF RowIs, Row
<1>5. \/ to = "COMPLIANCE_PENDING" /\ Goto(h, "checks")
      \/ to \in {"IDENTITY_PENDING", "PAYOUT_DETAILS_PENDING", "PAYMENT_PENDING"} /\ Reply(h, "ok")
      \/ to \in {"EXPIRED", "FAILED", "MANUAL_REVIEW"} /\ Reply(h, "refused")
  BY DEF Write, Proceed
<1> QED
  BY <1>f, <1>1, <1>4, <1>5, GotoMoves, ReplyMoves DEF Write

LEMMA GetMoves ==
  ASSUME RequestsOK, NEW h \in Handlers, GetSession(h)
  PROVE  LET s == handler[h].session
             op == handler[h].op
         IN  /\ Kept(h) /\ UNCHANGED <<quotes, rows, guests, cleared>>
             /\ handler[h].at = "get" /\ op \in OnSession /\ s \in Sessions
             /\ \/ Calls(h, "EXPIRED") /\ rows[s].state \notin PostPaymentStates
                \/ Ends(h, "refused")
                \/ op = "identity" /\ Goes(h, "find") /\ rows[s].state = "IDENTITY_PENDING"
                \/ op = "payout" /\ Goes(h, "insert") /\ rows[s].state = "PAYOUT_DETAILS_PENDING"
                \/ op = "initiate" /\ Goes(h, "push") /\ rows[s].state = "PAYMENT_PENDING"
<1>f. handler \in [Handlers -> Request] /\ RequestOK(h)
  BY DEF RequestsOK
<1>1. handler[h].at = "get" /\ handler[h].op \in OnSession /\ handler[h].session \in Sessions
  BY <1>f DEF GetSession, RequestOK, Labels, OnSession, Request, Operation
<1> USE DEF GetSession, FirstAwait, Expected, Expirable
<1>2. CASE handler[h].op = "identity"
  BY <1>f, <1>1, <1>2, GotoMoves, ReplyMoves, CallMoves DEF ConversionState
<1>3. CASE handler[h].op = "payout"
  BY <1>f, <1>1, <1>3, GotoMoves, ReplyMoves, CallMoves DEF ConversionState
<1>4. CASE handler[h].op = "initiate"
  BY <1>f, <1>1, <1>4, GotoMoves, ReplyMoves, CallMoves DEF ConversionState
<1> QED
  BY <1>1, <1>2, <1>3, <1>4 DEF OnSession

LEMMA StatusMoves ==
  ASSUME RequestsOK, NEW h \in Handlers, GetStatus(h)
  PROVE  /\ Kept(h) /\ UNCHANGED <<quotes, rows, guests, cleared>>
         /\ handler[h].op = "status" /\ handler[h].at = "get" /\ handler[h].session \in Sessions
         /\ Ends(h, rows[handler[h].session].state)
<1>1. /\ handler \in [Handlers -> Request] /\ handler[h].session \in Sessions
      /\ rows \in [Sessions -> Row]
  BY DEF RequestsOK, TypeOK, RequestOK, GetStatus, At
<1>2. rows[handler[h].session].state \in ConversionState \cup {"none"}
  BY <1>1 DEF Row
<1> QED
  BY <1>1, <1>2, ReplyMoves DEF GetStatus, At

LEMMA GuestMoves ==
  ASSUME RequestsOK, NEW h \in Handlers, FindGuest(h) \/ InsertGuest(h)
  PROVE  /\ Kept(h) /\ UNCHANGED <<quotes, rows, cleared>>
         /\ guests' \in [Identities -> {"none", "ACTIVE", "BLOCKED"}]
         /\ handler[h].op = "identity" /\ handler[h].at \in {"find", "insert"}
         /\ \/ handler[h].at = "find" /\ Goes(h, "insert")
            \/ Goes(h, "link")
            \/ Ends(h, "refused")
<1>f. /\ handler \in [Handlers -> Request] /\ RequestOK(h)
      /\ guests \in [Identities -> {"none", "ACTIVE", "BLOCKED"}]
  BY DEF RequestsOK, TypeOK
<1>1. CASE FindGuest(h)
  BY <1>f, <1>1, GotoMoves, ReplyMoves DEF FindGuest, At
<1>2. CASE InsertGuest(h)
  BY <1>f, <1>2, GotoMoves, ReplyMoves DEF InsertGuest, At, RequestOK
<1> QED
  BY <1>1, <1>2

LEMMA LinkMoves ==
  ASSUME RequestsOK, NEW h \in Handlers, LinkGuest(h)
  PROVE  LET s == handler[h].session IN
         /\ Kept(h) /\ UNCHANGED <<quotes, guests, cleared>>
         /\ handler[h].op = "identity" /\ handler[h].at = "link" /\ s \in Sessions
         /\ handler[h].id \in Identities
         /\ RowIs(s, rows[s].state, handler[h].id, rows[s].payout)
         /\ Calls(h, "COMPLIANCE_PENDING")
<1> DEFINE s == handler[h].session
<1>f. /\ handler \in [Handlers -> Request] /\ rows \in [Sessions -> Row]
      /\ handler[h].op = "identity" /\ handler[h].at = "link"
      /\ s \in Sessions /\ handler[h].id \in Identities
  BY DEF RequestsOK, TypeOK, RequestOK, LinkGuest, At, OnSession
<1>1. [rows[s] EXCEPT !.guest = handler[h].id] \in Row
  BY <1>f DEF Row
<1>2. rows' = [rows EXCEPT ![s] = [rows[s] EXCEPT !.guest = handler[h].id]]
  BY <1>f DEF LinkGuest, Row
<1>3. RowIs(s, rows[s].state, handler[h].id, rows[s].payout)
  BY <1>f, <1>1, <1>2 DEF RowIs, Row
<1> QED
  BY <1>f, <1>3, CallMoves DEF LinkGuest, ConversionState

LEMMA CheckMoves ==
  ASSUME RequestsOK, NEW h \in Handlers, RunChecks(h)
  PROVE  /\ Kept(h) /\ UNCHANGED <<quotes, rows, guests, cleared>>
         /\ handler[h].op = "identity" /\ handler[h].at = "checks"
         /\ Goes(h, "limits") \/ Calls(h, "FAILED") \/ Calls(h, "MANUAL_REVIEW")
  BY GotoMoves, CallMoves DEF RunChecks, At, RequestsOK, ConversionState

LEMMA LimitMoves ==
  ASSUME RequestsOK, NEW h \in Handlers, CheckLimits(h)
  PROVE  LET s == handler[h].session IN
         /\ Kept(h) /\ UNCHANGED <<quotes, rows, guests>>
         /\ handler[h].op = "identity" /\ handler[h].at = "limits" /\ s \in Sessions
         /\ handler[h].id \in Identities
         /\ cleared' \in [Sessions -> Identities \cup {"none"}]
         /\ \/ /\ Calls(h, "PAYOUT_DETAILS_PENDING")
               /\ cleared'[s] = handler[h].id
               /\ \A t \in Sessions : t # s => cleared'[t] = cleared[t]
            \/ Ends(h, "refused") /\ UNCHANGED cleared
<1>f. /\ handler \in [Handlers -> Request] /\ cleared \in [Sessions -> Identities \cup {"none"}]
      /\ handler[h].op = "identity" /\ handler[h].at = "limits"
      /\ handler[h].session \in Sessions /\ handler[h].id \in Identities
  BY DEF RequestsOK, TypeOK, RequestOK, CheckLimits, At, OnSession
<1>1. \/ /\ cleared' = [cleared EXCEPT ![handler[h].session] = handler[h].id]
         /\ Call(h, "PAYOUT_DETAILS_PENDING")
      \/ Reply(h, "refused") /\ UNCHANGED cleared
  BY DEF CheckLimits
<1> QED
  BY <1>f, <1>1, CallMoves, ReplyMoves DEF CheckLimits, ConversionState

LEMMA PayoutMoves ==
  ASSUME RequestsOK, NEW h \in Handlers, InsertPayout(h)
  PROVE  LET s == handler[h].session IN
         /\ Kept(h) /\ UNCHANGED <<quotes, guests, cleared>>
         /\ handler[h].op = "payout" /\ handler[h].at = "insert" /\ s \in Sessions
         /\ \/ Ends(h, "refused") /\ UNCHANGED rows
            \/ /\ RowIs(s, rows[s].state, rows[s].guest, TRUE)
               /\ Calls(h, "PAYMENT_PENDING")
<1> DEFINE s == handler[h].session
<1>f. /\ handler \in [Handlers -> Request] /\ rows \in [Sessions -> Row]
      /\ handler[h].op = "payout" /\ handler[h].at = "insert" /\ s \in Sessions
  BY DEF RequestsOK, TypeOK, RequestOK, InsertPayout, At, OnSession
<1>1. CASE Reply(h, "refused") /\ UNCHANGED rows
  BY <1>f, <1>1, ReplyMoves DEF InsertPayout
<1>2. CASE /\ rows' = [rows EXCEPT ![s].payout = TRUE]
           /\ Call(h, "PAYMENT_PENDING")
  <2>1. [rows[s] EXCEPT !.payout = TRUE] \in Row
    BY <1>f DEF Row
  <2>2. rows' = [rows EXCEPT ![s] = [rows[s] EXCEPT !.payout = TRUE]]
    BY <1>f, <1>2 DEF Row
  <2>3. RowIs(s, rows[s].state, rows[s].guest, TRUE)
    BY <1>f, <2>1, <2>2 DEF RowIs, Row
  <2> QED
    BY <1>f, <1>2, <2>3, CallMoves DEF InsertPayout, ConversionState
<1> QED
  BY <1>1, <1>2 DEF InsertPayout

LEMMA PushMoves ==
  ASSUME RequestsOK, NEW h \in Handlers, InitiatePush(h)
  PROVE  LET s == handler[h].session IN
         /\ Kept(h) /\ UNCHANGED <<quotes, guests, cleared>>
         /\ handler[h].op = "initiate" /\ handler[h].at = "push" /\ s \in Sessions
         /\ UNCHANGED rows \/ RowIs(s, rows[s].state, rows[s].guest, rows[s].payout)
         /\ Ends(h, "ok") \/ Ends(h, "refused")
<1> DEFINE s == handler[h].session
<1>f. /\ handler \in [Handlers -> Request] /\ rows \in [Sessions -> Row]
      /\ handler[h].op = "initiate" /\ handler[h].at = "push" /\ s \in Sessions
  BY DEF RequestsOK, TypeOK, RequestOK, InitiatePush, At, OnSession
<1>1. CASE Reply(h, "refused") /\ UNCHANGED rows
  BY <1>f, <1>1, ReplyMoves DEF InitiatePush
<1>2. CASE /\ rows' = [rows EXCEPT ![s].pushed = TRUE]
           /\ Reply(h, "ok")
  <2>1. [rows[s] EXCEPT !.pushed = TRUE] \in Row
    BY <1>f DEF Row
  <2>2. rows' = [rows EXCEPT ![s] = [rows[s] EXCEPT !.pushed = TRUE]]
    BY <1>f, <1>2 DEF Row
  <2>3. RowIs(s, rows[s].state, rows[s].guest, rows[s].payout)
    BY <1>f, <2>1, <2>2 DEF RowIs, Row
  <2> QED
    BY <1>f, <1>2, <2>3, ReplyMoves DEF InitiatePush
<1> QED
  BY <1>1, <1>2 DEF InitiatePush

LEMMA CrashMoves ==
  ASSUME RequestsOK, NEW h \in Handlers, Crash(h)
  PROVE  /\ Kept(h) /\ UNCHANGED <<quotes, rows, guests, cleared>>
         /\ handler[h].at \notin {"idle", "done"}
         /\ Ends(h, "refused")
  BY ReplyMoves DEF Crash, RequestsOK

LEMMA LapseMoves ==
  ASSUME RequestsOK, NEW s \in Sessions, LapseSession(s)
  PROVE  /\ UNCHANGED <<quotes, guests, cleared, handler>>
         /\ rows[s].state # "none"
         /\ RowIs(s, rows[s].state, rows[s].guest, rows[s].payout)
<1>f. rows \in [Sessions -> Row]
  BY DEF RequestsOK, TypeOK
<1>1. [rows[s] EXCEPT !.lapsed = TRUE] \in Row
  BY <1>f DEF Row
<1>2. rows' = [rows EXCEPT ![s] = [rows[s] EXCEPT !.lapsed = TRUE]]
  BY <1>f DEF LapseSession, Row
<1> QED
  BY <1>f, <1>1, <1>2 DEF LapseSession, RowIs, Row

(* Settlement takes a payable order on, and never to EXPIRED. *)
LEMMA MoveOnMoves ==
  ASSUME RequestsOK, NEW s \in Sessions, MoveOn(s)
  PROVE  /\ UNCHANGED <<quotes, guests, cleared, handler>>
         /\ rows[s].state \in Payable \ {"COMPLETED"}
         /\ \E to \in (Payable \cup {"FAILED"}) \ {"PAYMENT_PENDING"} :
              RowIs(s, to, rows[s].guest, rows[s].payout)
<1>f. rows \in [Sessions -> Row]
  BY DEF RequestsOK, TypeOK
<1>1. PICK to \in AllowedTargets(rows[s].state) \ {"EXPIRED"} : rows' = [rows EXCEPT ![s].state = to]
  BY DEF MoveOn
<1>2. /\ rows[s].state \in Payable \ {"COMPLETED"}
      /\ to \in (Payable \cup {"FAILED"}) \ {"PAYMENT_PENDING"}
  BY <1>1 DEF MoveOn, Payable, AllowedTargets
<1>3. [rows[s] EXCEPT !.state = to] \in Row
  BY <1>f, <1>2 DEF Row, Payable, ConversionState
<1>4. rows' = [rows EXCEPT ![s] = [rows[s] EXCEPT !.state = to]]
  BY <1>f, <1>1 DEF Row
<1> QED
  BY <1>f, <1>2, <1>3, <1>4 DEF MoveOn, RowIs, Row

-----------------------------------------------------------------------------
(* Types, and where requests are. *)

LEMMA HandlerTypes ==
  ASSUME RequestsOK, NEW h \in Handlers, HandlerStep(h) \/ Crash(h)
  PROVE  /\ handler' \in [Handlers -> Request] /\ quotes' \in [Quotes -> Quote]
         /\ rows' \in [Sessions -> Row]
         /\ guests' \in [Identities -> {"none", "ACTIVE", "BLOCKED"}]
         /\ cleared' \in [Sessions -> Identities \cup {"none"}]
         /\ \A g \in Handlers : g # h => handler'[g] = handler[g]
         /\ client' = client => RequestOK(h)'
<1>f. /\ handler \in [Handlers -> Request] /\ RequestOK(h)
      /\ quotes \in [Quotes -> Quote] /\ rows \in [Sessions -> Row]
      /\ guests \in [Identities -> {"none", "ACTIVE", "BLOCKED"}]
      /\ cleared \in [Sessions -> Identities \cup {"none"}]
      /\ handler[h].op \in Operation \cup {"none"}
  BY DEF RequestsOK, TypeOK, Request
<1> USE DEF RequestOK, Kept, Goes, Ends, Calls, SameSession, RowIs, OnSession
<1>1. CASE GetRate(h) \/ InsertQuote(h) \/ ValidateQuote(h) \/ ExpireQuote(h) \/ ConfirmQuote(h)
  BY <1>f, <1>1, QuoteMoves DEF Labels
<1>2. CASE CreateSession(h)
  BY <1>f, <1>2, CreateMoves DEF Labels, Targets
<1>3. CASE Read(h)
  BY <1>f, <1>3, ReadMoves DEF Labels, Operation
<1>4. CASE Write(h)
  BY <1>f, <1>4, WriteMoves DEF Labels, Operation, Targets
<1>5. CASE GetSession(h)
  BY <1>f, <1>5, GetMoves DEF Labels, Targets
<1>6. CASE GetStatus(h)
  <2>1. rows[handler[h].session].state \in ConversionState \cup {"none"}
    BY <1>f, <1>6, StatusMoves DEF Row
  <2> QED
    BY <1>f, <1>6, <2>1, StatusMoves DEF Labels
<1>7. CASE FindGuest(h) \/ InsertGuest(h)
  BY <1>f, <1>7, GuestMoves DEF Labels
<1>8. CASE LinkGuest(h)
  BY <1>f, <1>8, LinkMoves DEF Labels, Targets
<1>9. CASE RunChecks(h)
  BY <1>f, <1>9, CheckMoves DEF Labels, Targets
<1>10. CASE CheckLimits(h)
  BY <1>f, <1>10, LimitMoves DEF Labels, Targets
<1>11. CASE InsertPayout(h)
  BY ZenonT(30), <1>f, <1>11, PayoutMoves DEF Labels, Targets
<1>12. CASE InitiatePush(h)
  BY <1>f, <1>12, PushMoves DEF Labels
<1>13. CASE Crash(h)
  BY <1>f, <1>13, CrashMoves DEF Labels, Operation
<1> QED
  BY <1>1, <1>2, <1>3, <1>4, <1>5, <1>6, <1>7, <1>8, <1>9, <1>10, <1>11, <1>12, <1>13
     DEF HandlerStep

-----------------------------------------------------------------------------
(* What the steps of a tab do to it and to its requests. *)

LEMMA StepsAre ==
  /\ WizardStep = {"amount", "quote", "identity", "payout", "payment", "processing", "result"}
  /\ \A i \in DOMAIN STEPS : STEPS[i] \in BACK_ALLOWED =>
       STEPS[i - 1] = CASE STEPS[i] = "quote"    -> "amount"
                        [] STEPS[i] = "identity" -> "quote"
                        [] STEPS[i] = "payout"   -> "identity"
                        [] STEPS[i] = "payment"  -> "payout"
<1>1. DOMAIN STEPS = {1, 2, 3, 4, 5, 6, 7}
  BY DEF STEPS
<1>2. /\ STEPS[1] = "amount" /\ STEPS[2] = "quote" /\ STEPS[3] = "identity"
      /\ STEPS[4] = "payout" /\ STEPS[5] = "payment" /\ STEPS[6] = "processing"
      /\ STEPS[7] = "result"
  BY DEF STEPS
<1> QED
  BY <1>1, <1>2 DEF WizardStep, BACK_ALLOWED

(* The tab with another content; the other tabs as they are. *)
OnlyTab(w) ==
    /\ wizard' \in [Wizards -> Wizard]
    /\ \A v \in Wizards : v # w => wizard'[v] = wizard[v]

(* A step is shown. *)
Turns(w, session, step) ==
    /\ wizard'[w].session = session /\ wizard'[w].step = step
    /\ wizard'[w].loading = "none"
    /\ step = "result" => wizard'[w].polling = "none" /\ wizard'[w].final = wizard[w].final
    /\ step # "result" => wizard'[w].final = "none"

(* The step stays. *)
Stays(w) ==
    /\ wizard'[w].session = wizard[w].session /\ wizard'[w].step = wizard[w].step
    /\ wizard'[w].final = wizard[w].final

LEMMA ShowMoves ==
  ASSUME NEW tab \in Wizard, NEW step \in WizardStep
  PROVE  /\ Show(tab, step) \in Wizard
         /\ Show(tab, step).step = step /\ Show(tab, step).session = tab.session
         /\ Show(tab, step).loading = "none" /\ Show(tab, step).leaked = tab.leaked
         /\ step = "result" => Show(tab, step).polling = "none" /\ Show(tab, step).final = tab.final
         /\ step # "result" => Show(tab, step).final = "none"
  BY ZenonT(30) DEF Show, Wizard

LEMMA BecomesMoves ==
  ASSUME wizard \in [Wizards -> Wizard], NEW w \in Wizards, NEW tab \in Wizard, Becomes(w, tab)
  PROVE  OnlyTab(w) /\ wizard'[w] = tab
  BY DEF Becomes, OnlyTab

(* A request is sent. *)
Sent(w, h) ==
    LET op == handler'[h].op IN
    /\ handler[h].op = "none" /\ client[h] = Nobody
    /\ handler' \in [Handlers -> Request]
    /\ handler'[h].at = FirstLabel(op) /\ handler'[h].target = "none"
    /\ client' \in [Handlers -> [tab: Wizards \cup {"none"}, step: WizardStep \cup {"none"}]]
    /\ client'[h] = [tab |-> w, step |-> wizard[w].step]
    /\ \A g \in Handlers : g # h => handler'[g] = handler[g] /\ client'[g] = client[g]
    /\ UNCHANGED <<quotes, rows, guests, cleared, orders, disturbed>>
    /\ OnlyTab(w) /\ Stays(w)
    /\ wizard'[w].leaked = wizard[w].leaked /\ wizard'[w].polling = wizard[w].polling
    /\ \/ /\ op = "status" /\ wizard'[w] = wizard[w]
          /\ handler'[h].session \in {wizard[w].polling, wizard[w].leaked} \ {"none"}
          /\ handler'[h].session \in Sessions
       \/ /\ op \in {"quote", "session"} /\ wizard[w].step \in {"amount", "quote"}
          /\ handler'[h].quote \in Quotes /\ handler'[h].session = "none"
       \/ /\ op \in OnSession
          /\ wizard[w].step = CASE op = "identity" -> "identity" [] op = "payout" -> "payout"
                                [] op = "initiate" -> "payment"
          /\ wizard[w].loading = "none" /\ wizard'[w].loading = h
          /\ wizard[w].session \in Sessions /\ handler'[h].session = wizard[w].session
          /\ op = "identity" => handler'[h].id \in Identities

Arrived(w, h, op, q, s, id) ==
    /\ handler[h].op = "none" /\ client[h] = Nobody
    /\ handler' \in [Handlers -> Request]
    /\ handler'[h] = [Resting EXCEPT !.op = op, !.at = FirstLabel(op), !.quote = q,
                                     !.session = s, !.id = id]
    /\ client' \in [Handlers -> [tab: Wizards \cup {"none"}, step: WizardStep \cup {"none"}]]
    /\ client'[h] = [tab |-> w, step |-> wizard[w].step]
    /\ \A g \in Handlers : g # h => handler'[g] = handler[g] /\ client'[g] = client[g]
    /\ UNCHANGED <<quotes, rows, guests, cleared, orders, disturbed>>
    /\ OnlyTab(w)
    /\ wizard'[w] = IF op = "status" THEN wizard[w] ELSE [wizard[w] EXCEPT !.loading = h]

LEMMA ArriveMoves ==
  ASSUME RequestsOK, NEW w \in Wizards, NEW op \in Operation, NEW q \in Quotes \cup {"none"},
         NEW s \in Sessions \cup {"none"}, NEW id \in Identities \cup {"none"},
         Send(w, op, q, s, id)
  PROVE  \E h \in Handlers : Arrived(w, h, op, q, s, id)
<1> DEFINE r == [Resting EXCEPT !.op = op, !.at = FirstLabel(op), !.quote = q,
                                !.session = s, !.id = id]
<1>f. /\ handler \in [Handlers -> Request] /\ wizard \in [Wizards -> Wizard]
      /\ client \in [Handlers -> [tab: Wizards \cup {"none"}, step: WizardStep \cup {"none"}]]
  BY DEF RequestsOK, TypeOK
<1>w. wizard[w] \in Wizard
  BY <1>f
<1>1. PICK h \in Handlers :
         /\ handler[h].at = "idle" /\ Arrive(h, op, q, s, id)
         /\ client' = [client EXCEPT ![h] = [tab |-> w, step |-> wizard[w].step]]
         /\ Becomes(w, IF op = "status" THEN wizard[w] ELSE [wizard[w] EXCEPT !.loading = h])
         /\ UNCHANGED <<orders, disturbed>>
  BY DEF Send
<1>2. handler[h].op = "none" /\ client[h] = Nobody
  <2>1. handler[h].at \in Labels(handler[h].op) /\ handler[h].op \in Operation \cup {"none"}
    BY <1>f DEF RequestsOK, RequestOK, Request
  <2>2. handler[h].op = "none"
    BY <2>1, <1>1 DEF Labels, Operation
  <2> QED
    BY <2>2 DEF RequestsOK, RequestOK
<1>3. r \in Request
  <2>1. FirstLabel(op) \in {"rate", "validate", "get"}
    BY DEF FirstLabel
  <2> QED
    BY <2>1 DEF Resting, Request
<1>4. handler' = [handler EXCEPT ![h] = r] /\ UNCHANGED <<quotes, rows, guests, cleared>>
  BY <1>1 DEF Arrive
<1>5. /\ handler'[h] = r /\ handler' \in [Handlers -> Request]
      /\ \A g \in Handlers : g # h => handler'[g] = handler[g]
  BY <1>3, <1>4, <1>f
<1>6. /\ client' \in [Handlers -> [tab: Wizards \cup {"none"}, step: WizardStep \cup {"none"}]]
      /\ client'[h] = [tab |-> w, step |-> wizard[w].step]
      /\ \A g \in Handlers : g # h => client'[g] = client[g]
  BY <1>1, <1>f, <1>w DEF Wizard
<1>7. [wizard[w] EXCEPT !.loading = h] \in Wizard
  BY <1>w DEF Wizard
<1>8. /\ OnlyTab(w)
      /\ wizard'[w] = IF op = "status" THEN wizard[w] ELSE [wizard[w] EXCEPT !.loading = h]
  BY <1>f, <1>w, <1>1, <1>7, BecomesMoves
<1> QED
  BY <1>1, <1>2, <1>4, <1>5, <1>6, <1>8 DEF Arrived

LEMMA SendMoves ==
  ASSUME RequestsOK, NEW w \in Wizards,
         \/ AskQuote(w) \/ AskSession(w) \/ SendIdentity(w) \/ SendPayout(w)
         \/ InitiatePayment(w) \/ Poll(w)
  PROVE  \E h \in Handlers : Sent(w, h)
<1>f. wizard[w] \in Wizard
  BY DEF RequestsOK, TypeOK
<1>1. CASE AskQuote(w)
  <2>1. PICK q \in Quotes : Send(w, "quote", q, "none", "none")
    BY <1>1 DEF AskQuote
  <2>2. wizard[w].step \in {"amount", "quote"}
    BY <1>1 DEF AskQuote, Shows
  <2>3. PICK h \in Handlers : Arrived(w, h, "quote", q, "none", "none")
    BY <1>f, <2>1, <2>2, ArriveMoves DEF Operation, Wizard
  <2>4. /\ handler'[h].op = "quote" /\ handler'[h].at = FirstLabel("quote")
        /\ handler'[h].target = "none" /\ handler'[h].quote = q
        /\ handler'[h].session = "none" /\ handler'[h].id = "none"
    BY <2>3 DEF Arrived, Resting
  <2>5. /\ Stays(w) /\ wizard'[w].leaked = wizard[w].leaked
        /\ wizard'[w].polling = wizard[w].polling
        /\ wizard'[w].loading = h
    BY <1>f, <2>3 DEF Arrived, Stays, Wizard
  <2>6. Sent(w, h)
    BY <1>f, <2>1, <2>2, <2>3, <2>4, <2>5, <1>1 DEF Arrived, Sent, AskQuote, Shows, OnSession
  <2> QED
    BY <2>6
<1>2. CASE AskSession(w)
  <2>1. Send(w, "session", wizard[w].quote, "none", "none")
    BY <1>2 DEF AskSession
  <2>2. wizard[w].quote \in Quotes
    BY <1>2, <1>f DEF AskSession, Wizard
  <2>3. PICK h \in Handlers : Arrived(w, h, "session", wizard[w].quote, "none", "none")
    BY <1>f, <2>1, <2>2, ArriveMoves DEF Operation, Wizard
  <2>4. /\ handler'[h].op = "session" /\ handler'[h].at = FirstLabel("session")
        /\ handler'[h].target = "none" /\ handler'[h].quote = wizard[w].quote
        /\ handler'[h].session = "none" /\ handler'[h].id = "none"
    BY <2>3 DEF Arrived, Resting
  <2>5. /\ Stays(w) /\ wizard'[w].leaked = wizard[w].leaked
        /\ wizard'[w].polling = wizard[w].polling
        /\ wizard'[w].loading = h
    BY <1>f, <2>3 DEF Arrived, Stays, Wizard
  <2>6. Sent(w, h)
    BY <1>f, <2>1, <2>2, <2>3, <2>4, <2>5, <1>2 DEF Arrived, Sent, AskSession, Shows, OnSession
  <2> QED
    BY <2>6
<1>3. CASE SendIdentity(w)
  <2>1. PICK id \in Identities : Send(w, "identity", "none", wizard[w].session, id)
    BY <1>3 DEF SendIdentity
  <2>2. wizard[w].session \in Sessions
    BY <1>3, <1>f DEF SendIdentity, HasSession, Wizard
  <2>3. PICK h \in Handlers : Arrived(w, h, "identity", "none", wizard[w].session, id)
    BY <1>f, <2>1, <2>2, ArriveMoves DEF Operation, Wizard
  <2>4. /\ handler'[h].op = "identity" /\ handler'[h].at = FirstLabel("identity")
        /\ handler'[h].target = "none" /\ handler'[h].quote = "none"
        /\ handler'[h].session = wizard[w].session /\ handler'[h].id = id
    BY <2>3 DEF Arrived, Resting
  <2>5. /\ Stays(w) /\ wizard'[w].leaked = wizard[w].leaked
        /\ wizard'[w].polling = wizard[w].polling
        /\ wizard'[w].loading = h
    BY <1>f, <2>3 DEF Arrived, Stays, Wizard
  <2>6. Sent(w, h)
    BY <1>f, <2>1, <2>2, <2>3, <2>4, <2>5, <1>3 DEF Arrived, Sent, SendIdentity, Shows, OnSession
  <2> QED
    BY <2>6
<1>4. CASE SendPayout(w)
  <2>1. Send(w, "payout", "none", wizard[w].session, "none")
    BY <1>4 DEF SendPayout
  <2>2. wizard[w].session \in Sessions
    BY <1>4, <1>f DEF SendPayout, HasSession, Wizard
  <2>3. PICK h \in Handlers : Arrived(w, h, "payout", "none", wizard[w].session, "none")
    BY <1>f, <2>1, <2>2, ArriveMoves DEF Operation, Wizard
  <2>4. /\ handler'[h].op = "payout" /\ handler'[h].at = FirstLabel("payout")
        /\ handler'[h].target = "none" /\ handler'[h].quote = "none"
        /\ handler'[h].session = wizard[w].session /\ handler'[h].id = "none"
    BY <2>3 DEF Arrived, Resting
  <2>5. /\ Stays(w) /\ wizard'[w].leaked = wizard[w].leaked
        /\ wizard'[w].polling = wizard[w].polling
        /\ wizard'[w].loading = h
    BY <1>f, <2>3 DEF Arrived, Stays, Wizard
  <2>6. Sent(w, h)
    BY <1>f, <2>1, <2>2, <2>3, <2>4, <2>5, <1>4 DEF Arrived, Sent, SendPayout, Shows, OnSession
  <2> QED
    BY <2>6
<1>5. CASE InitiatePayment(w)
  <2>1. Send(w, "initiate", "none", wizard[w].session, "none")
    BY <1>5 DEF InitiatePayment
  <2>2. wizard[w].session \in Sessions
    BY <1>5, <1>f DEF InitiatePayment, HasSession, Wizard
  <2>3. PICK h \in Handlers : Arrived(w, h, "initiate", "none", wizard[w].session, "none")
    BY <1>f, <2>1, <2>2, ArriveMoves DEF Operation, Wizard
  <2>4. /\ handler'[h].op = "initiate" /\ handler'[h].at = FirstLabel("initiate")
        /\ handler'[h].target = "none" /\ handler'[h].quote = "none"
        /\ handler'[h].session = wizard[w].session /\ handler'[h].id = "none"
    BY <2>3 DEF Arrived, Resting
  <2>5. /\ Stays(w) /\ wizard'[w].leaked = wizard[w].leaked
        /\ wizard'[w].polling = wizard[w].polling
        /\ wizard'[w].loading = h
    BY <1>f, <2>3 DEF Arrived, Stays, Wizard
  <2>6. Sent(w, h)
    BY <1>f, <2>1, <2>2, <2>3, <2>4, <2>5, <1>5 DEF Arrived, Sent, InitiatePayment, Shows, OnSession
  <2> QED
    BY <2>6
<1>6. CASE Poll(w)
  <2>1. PICK s \in {wizard[w].polling, wizard[w].leaked} \ {"none"} :
           Send(w, "status", "none", s, "none")
    BY <1>6 DEF Poll
  <2>2. s \in Sessions
    BY <1>f, <2>1 DEF Wizard
  <2>3. PICK h \in Handlers : Arrived(w, h, "status", "none", s, "none")
    BY <1>f, <2>1, <2>2, ArriveMoves DEF Operation, Wizard
  <2>4. /\ handler'[h].op = "status" /\ handler'[h].at = FirstLabel("status")
        /\ handler'[h].target = "none" /\ handler'[h].quote = "none"
        /\ handler'[h].session = s /\ handler'[h].id = "none"
    BY <2>3 DEF Arrived, Resting
  <2>5. /\ Stays(w) /\ wizard'[w].leaked = wizard[w].leaked
        /\ wizard'[w].polling = wizard[w].polling
        /\ wizard'[w] = wizard[w]
    BY <1>f, <2>3 DEF Arrived, Stays, Wizard
  <2>6. Sent(w, h)
    BY <1>f, <2>1, <2>2, <2>3, <2>4, <2>5, <1>6 DEF Arrived, Sent, Poll, OnSession
  <2> QED
    BY <2>6
<1> QED
  BY <1>1, <1>2, <1>3, <1>4, <1>5, <1>6

(* A request is over, and nobody waits for it. *)
Gone(h) ==
    /\ handler[h].at = "done"
    /\ handler' \in [Handlers -> Request] /\ handler'[h] = Resting
    /\ client' \in [Handlers -> [tab: Wizards \cup {"none"}, step: WizardStep \cup {"none"}]]
    /\ client'[h] = Nobody
    /\ \A g \in Handlers : g # h => handler'[g] = handler[g] /\ client'[g] = client[g]
    /\ UNCHANGED <<quotes, rows, guests, cleared, disturbed>>

(* What an answer makes of its tab. *)
Heard(w, h) ==
    LET op == handler[h].op
        ok == handler[h].reply = "ok"
        s == wizard[w].session
    IN
    /\ OnlyTab(w)
    /\ \/ wizard'[w].leaked \in {wizard[w].leaked, "none"}
       \/ op = "initiate" /\ wizard'[w].leaked = handler[h].session
    /\ \/ /\ Stays(w)
          /\ \/ wizard'[w].loading = wizard[w].loading
             \/ wizard[w].loading = h /\ wizard'[w].loading = "none"
          /\ op = "initiate" \/ wizard'[w].polling = wizard[w].polling
       \/ op = "quote" /\ Turns(w, s, "quote")
       \/ op = "session" /\ ok /\ Turns(w, handler[h].session, "identity")
       \/ op = "identity" /\ ok /\ Turns(w, s, "payout")
       \/ op = "payout" /\ ok /\ Turns(w, s, "payment")
       \/ op = "status" /\ client[h].step # "processing" /\ Turns(w, s, "processing")
       \/ /\ op = "status" /\ s = handler[h].session /\ handler[h].reply \in Terminal
          /\ wizard[w].step = "processing" /\ wizard'[w].step = "processing"
          /\ wizard'[w].session = s /\ wizard'[w].loading = wizard[w].loading
          /\ wizard'[w].polling = "none" /\ wizard'[w].final = handler[h].reply

LEMMA FailedMoves ==
  ASSUME wizard \in [Wizards -> Wizard], NEW w \in Wizards, NEW h \in Handlers,
         Becomes(w, Failed(w, h))
  PROVE  /\ OnlyTab(w) /\ Stays(w)
         /\ wizard'[w].leaked = wizard[w].leaked /\ wizard'[w].polling = wizard[w].polling
         /\ \/ wizard'[w].loading = wizard[w].loading
            \/ wizard[w].loading = h /\ wizard'[w].loading = "none"
<1>w. wizard[w] \in Wizard
  OBVIOUS
<1>1. CASE wizard[w].loading # h
  BY <1>1, <1>w, BecomesMoves DEF Failed, Stays
<1>2. CASE wizard[w].loading = h
  <2> DEFINE tab == [wizard[w] EXCEPT !.loading = "none",
                         !.phase = IF handler[h].op = "initiate" THEN "error" ELSE @]
  <2>1. tab \in Wizard
    BY <1>w DEF Wizard
  <2>2. Becomes(w, tab)
    BY <1>2 DEF Failed
  <2>3. OnlyTab(w) /\ wizard'[w] = tab
    BY <2>1, <2>2, BecomesMoves
  <2> QED
    BY <1>w, <1>2, <2>3 DEF Stays, Wizard
<1> QED
  BY <1>1, <1>2

LEMMA SucceededMoves ==
  ASSUME wizard \in [Wizards -> Wizard], NEW w \in Wizards, NEW h \in Handlers,
         handler[h] \in Request, RequestOK(h), handler[h].at = "done", handler[h].reply = "ok",
         Becomes(w, Succeeded(w, h))
  PROVE  Heard(w, h)
<1>w. wizard[w] \in Wizard
  OBVIOUS
<1>o. handler[h].op \in {"quote", "session", "identity", "payout", "initiate"}
  BY DEF RequestOK, Labels, Request, Operation, ConversionState
<1>1. CASE handler[h].op = "quote"
  <2> DEFINE tab == [wizard[w] EXCEPT !.quote = handler[h].quote]
  <2>1. tab \in Wizard /\ tab.session = wizard[w].session /\ tab.leaked = wizard[w].leaked
    BY <1>w, <1>1 DEF Wizard, Request
  <2>2. Becomes(w, Show(tab, "quote"))
    BY <1>1 DEF Succeeded
  <2>3. OnlyTab(w) /\ wizard'[w] = Show(tab, "quote")
    BY <2>1, <2>2, ShowMoves, BecomesMoves, StepsAre
  <2> HIDE DEF tab
  <2> QED
    BY <1>1, <2>1, <2>3, ShowMoves, StepsAre DEF Heard, Turns
<1>2. CASE handler[h].op = "session"
  <2> DEFINE tab == [wizard[w] EXCEPT !.session = handler[h].session]
  <2>1. tab \in Wizard /\ tab.session = handler[h].session /\ tab.leaked = wizard[w].leaked
    BY <1>w, <1>2 DEF Wizard, Request
  <2>2. Becomes(w, Show(tab, "identity"))
    BY <1>2 DEF Succeeded
  <2>3. OnlyTab(w) /\ wizard'[w] = Show(tab, "identity")
    BY <2>1, <2>2, ShowMoves, BecomesMoves, StepsAre
  <2> HIDE DEF tab
  <2> QED
    BY <1>2, <2>1, <2>3, ShowMoves, StepsAre DEF Heard, Turns
<1>3. CASE handler[h].op = "identity"
  <2>1. Becomes(w, Show(wizard[w], "payout"))
    BY <1>3 DEF Succeeded
  <2>2. OnlyTab(w) /\ wizard'[w] = Show(wizard[w], "payout")
    BY <1>w, <2>1, ShowMoves, BecomesMoves, StepsAre
  <2> QED
    BY <1>3, <1>w, <2>2, ShowMoves, StepsAre DEF Heard, Turns
<1>4. CASE handler[h].op = "payout"
  <2>1. Becomes(w, Show(wizard[w], "payment"))
    BY <1>4 DEF Succeeded
  <2>2. OnlyTab(w) /\ wizard'[w] = Show(wizard[w], "payment")
    BY <1>w, <2>1, ShowMoves, BecomesMoves, StepsAre
  <2> QED
    BY <1>4, <1>w, <2>2, ShowMoves, StepsAre DEF Heard, Turns
<1>5. CASE handler[h].op = "initiate"
  <2>0. handler[h].session \in Sessions
    BY <1>5 DEF RequestOK, OnSession
  <2>1. Becomes(w, Initiated(w, h))
    BY <1>5 DEF Succeeded
  <2>2. CASE wizard[w].loading = h
    <3> DEFINE tab == [wizard[w] EXCEPT !.loading = "none", !.phase = "waiting",
                                        !.polling = handler[h].session]
    <3>1. tab \in Wizard
      BY <1>w, <2>0 DEF Wizard
    <3>2. OnlyTab(w) /\ wizard'[w] = tab
      BY <2>1, <2>2, <3>1, BecomesMoves DEF Initiated
    <3> QED
      BY <1>5, <1>w, <2>2, <3>2 DEF Heard, Stays, Wizard
  <2>3. CASE wizard[w].loading # h
    <3> DEFINE tab == [wizard[w] EXCEPT !.leaked = handler[h].session]
    <3>1. tab \in Wizard
      BY <1>w, <2>0 DEF Wizard
    <3>2. OnlyTab(w) /\ wizard'[w] = tab
      BY <2>1, <2>3, <3>1, BecomesMoves DEF Initiated
    <3> QED
      BY <1>5, <1>w, <2>3, <3>2 DEF Heard, Stays, Wizard
  <2> QED
    BY <2>2, <2>3
<1> QED
  BY <1>o, <1>1, <1>2, <1>3, <1>4, <1>5

LEMMA PolledMoves ==
  ASSUME wizard \in [Wizards -> Wizard], NEW w \in Wizards, NEW h \in Handlers,
         handler[h].op = "status", Becomes(w, Polled(w, h))
  PROVE  Heard(w, h)
<1>w. wizard[w] \in Wizard
  OBVIOUS
<1>1. CASE Polled(w, h) = wizard[w]
  BY <1>1, <1>w, BecomesMoves DEF Heard, Stays
<1>2. CASE /\ wizard[w].step = "processing" /\ wizard[w].session = handler[h].session
           /\ handler[h].reply \in {"COMPLETED", "FAILED", "EXPIRED"}
           /\ Polled(w, h) = [wizard[w] EXCEPT !.polling = "none", !.final = handler[h].reply]
  <2> DEFINE tab == [wizard[w] EXCEPT !.polling = "none", !.final = handler[h].reply]
  <2>1. tab \in Wizard
    BY <1>w, <1>2 DEF Wizard
  <2>2. OnlyTab(w) /\ wizard'[w] = tab
    BY <1>2, <2>1, BecomesMoves
  <2> QED
    BY <1>w, <1>2, <2>2 DEF Heard, Wizard, Terminal
<1>3. CASE /\ client[h].step # "processing" /\ wizard[w].step = "processing"
           /\ Polled(w, h) = [wizard[w] EXCEPT !.leaked = "none"]
  <2>1. [wizard[w] EXCEPT !.leaked = "none"] \in Wizard
    BY <1>w DEF Wizard
  <2>2. OnlyTab(w) /\ wizard'[w] = [wizard[w] EXCEPT !.leaked = "none"]
    BY <1>3, <2>1, BecomesMoves
  <2> QED
    BY <1>w, <1>3, <2>2 DEF Heard, Stays, Wizard
<1>4. CASE /\ client[h].step # "processing"
           /\ Polled(w, h) = Show([wizard[w] EXCEPT !.leaked = "none"], "processing")
  <2> DEFINE tab == [wizard[w] EXCEPT !.leaked = "none"]
  <2>1. tab \in Wizard /\ tab.session = wizard[w].session /\ tab.leaked = "none"
    BY <1>w DEF Wizard
  <2>2. OnlyTab(w) /\ wizard'[w] = Show(tab, "processing")
    BY <1>4, <2>1, ShowMoves, BecomesMoves, StepsAre
  <2> HIDE DEF tab
  <2> QED
    BY <1>4, <2>1, <2>2, ShowMoves, StepsAre DEF Heard, Turns
<1> QED
  BY <1>1, <1>2, <1>3, <1>4 DEF Polled

LEMMA AnswerMoves ==
  ASSUME RequestsOK, NEW h \in Handlers, Answer(h)
  PROVE  /\ client[h].tab \in Wizards /\ Gone(h) /\ Heard(client[h].tab, h)
         /\ orders' \in [Wizards -> SUBSET Sessions]
         /\ \/ /\ handler[h].op = "session" /\ handler[h].reply = "ok"
               /\ handler[h].session \in Sessions
               /\ orders' = [orders EXCEPT ![client[h].tab] = @ \cup {handler[h].session}]
            \/ handler[h].op # "session" /\ UNCHANGED orders
            \/ handler[h].reply # "ok" /\ UNCHANGED orders
<1> DEFINE w == client[h].tab
<1>f. /\ handler \in [Handlers -> Request] /\ RequestOK(h) /\ wizard \in [Wizards -> Wizard]
      /\ client \in [Handlers -> [tab: Wizards \cup {"none"}, step: WizardStep \cup {"none"}]]
      /\ orders \in [Wizards -> SUBSET Sessions] /\ handler[h].at = "done"
  BY DEF RequestsOK, TypeOK, Answer
<1>1. w \in Wizards
  BY <1>f DEF Answer
<1>2. Gone(h)
  <2>1. Resting \in Request
    BY DEF Resting, Request
  <2>2. Nobody \in [tab: Wizards \cup {"none"}, step: WizardStep \cup {"none"}]
    BY DEF Nobody
  <2> QED
    BY <1>f, <2>1, <2>2 DEF Answer, Gone, Forget
<1>3. Heard(w, h)
  <2>1. \/ handler[h].op = "status" /\ Becomes(w, Polled(w, h))
        \/ Becomes(w, Failed(w, h))
        \/ handler[h].reply = "ok" /\ Becomes(w, Succeeded(w, h))
    BY DEF Answer
  <2>2. CASE Becomes(w, Failed(w, h))
    BY <1>f, <1>1, <2>2, FailedMoves DEF Heard
  <2> HIDE DEF w
  <2> QED
    BY <1>f, <1>1, <2>1, <2>2, SucceededMoves, PolledMoves
<1>4. handler[h].op = "session" /\ handler[h].reply = "ok" => handler[h].session \in Sessions
  BY <1>f DEF RequestOK
<1> QED
  BY <1>f, <1>1, <1>2, <1>3, <1>4 DEF Answer

LEMMA TimeOutMoves ==
  ASSUME RequestsOK, NEW h \in Handlers, TimeOut(h)
  PROVE  LET w == client[h].tab IN
         /\ w \in Wizards /\ OnlyTab(w) /\ Stays(w)
         /\ wizard'[w].leaked = wizard[w].leaked /\ wizard'[w].polling = wizard[w].polling
         /\ client' \in [Handlers -> [tab: Wizards \cup {"none"}, step: WizardStep \cup {"none"}]]
         /\ client'[h] = Nobody
         /\ \A g \in Handlers : g # h => client'[g] = client[g]
         /\ UNCHANGED <<onboarding, orders>>
         /\ "timeout" \in disturbed' /\ disturbed' = disturbed \cup {"timeout"}
<1>f. /\ wizard \in [Wizards -> Wizard]
      /\ client \in [Handlers -> [tab: Wizards \cup {"none"}, step: WizardStep \cup {"none"}]]
  BY DEF RequestsOK, TypeOK
<1>1. client[h].tab \in Wizards
  BY <1>f DEF TimeOut
<1>2. Nobody \in [tab: Wizards \cup {"none"}, step: WizardStep \cup {"none"}]
  BY DEF Nobody
<1> QED
  BY <1>f, <1>1, <1>2, FailedMoves DEF TimeOut, Forget, Disturb

LEMMA DropMoves ==
  ASSUME RequestsOK, NEW h \in Handlers, Drop(h)
  PROVE  Gone(h) /\ UNCHANGED <<wizard, orders>> /\ client[h] = Nobody
<1>1. Resting \in Request
  BY DEF Resting, Request
<1> QED
  BY <1>1 DEF Drop, Gone, RequestsOK, RequestOK, TypeOK

(* What a timer, a button or the opening of a tab does. *)
Clicked(w) ==
    LET s == wizard[w].session
        step == wizard[w].step
    IN
    /\ OnlyTab(w) /\ UNCHANGED <<onboarding, orders>>
    /\ wizard'[w].leaked \in {wizard[w].leaked, "none"}
    /\ \/ /\ UNCHANGED client
          /\ \/ step = "quote" /\ Turns(w, s, "amount")
             \/ Turns(w, "none", "amount")
             \/ step = "processing" /\ Turns(w, s, "result")
       \/ /\ UNCHANGED client /\ "back" \in disturbed'
          /\ \/ step \in {"quote", "identity"} /\ (Turns(w, s, "amount") \/ Turns(w, s, "quote"))
             \/ step = "payout" /\ Turns(w, s, "identity")
             \/ step = "payment" /\ Turns(w, s, "payout")
       \/ /\ "reload" \in disturbed' /\ Turns(w, s, step) /\ wizard'[w].leaked = "none"
          /\ client' = [g \in Handlers |-> IF client[g].tab = w THEN Nobody ELSE client[g]]
       \/ /\ UNCHANGED client /\ \A g \in Handlers : client[g].tab # w
          /\ wizard'[w].leaked = "none"
          /\ \E t \in Sessions : rows[t].state # "none" /\ Turns(w, t, "processing")

LEMMA DefaultTab ==
  ASSUME NEW l \in Sessions \cup {"none"}
  PROVE  /\ [DefaultState EXCEPT !.leaked = l] \in Wizard
         /\ [DefaultState EXCEPT !.leaked = l].leaked = l
         /\ [DefaultState EXCEPT !.leaked = l].session = "none"
         /\ [DefaultState EXCEPT !.leaked = l].step = "amount"
         /\ [DefaultState EXCEPT !.leaked = l].loading = "none"
         /\ [DefaultState EXCEPT !.leaked = l].final = "none"
  BY StepsAre DEF DefaultState, Wizard

LEMMA ClickMoves ==
  ASSUME RequestsOK, NEW w \in Wizards,
         \/ QuoteTimer(w) \/ Countdown(w) \/ ViewDetails(w)
         \/ Back(w) \/ Reset(w) \/ Reload(w) \/ Track(w)
  PROVE  Clicked(w)
<1>f. wizard \in [Wizards -> Wizard] /\ wizard[w] \in Wizard /\ wizard[w].leaked \in Sessions \cup {"none"}
  BY DEF RequestsOK, TypeOK, Wizard
<1>1. CASE QuoteTimer(w)
  <2> DEFINE tab == [wizard[w] EXCEPT !.quote = "none"]
  <2>1. tab \in Wizard /\ tab.session = wizard[w].session /\ tab.leaked = wizard[w].leaked
    BY <1>f DEF Wizard
  <2>2. Becomes(w, Show(tab, "amount"))
    BY <1>1 DEF QuoteTimer
  <2>3. OnlyTab(w) /\ wizard'[w] = Show(tab, "amount")
    BY <1>f, <2>1, <2>2, ShowMoves, BecomesMoves, StepsAre
  <2> HIDE DEF tab
  <2> QED
    BY <1>1, <2>1, <2>3, ShowMoves, StepsAre DEF QuoteTimer, Clicked, Turns
<1>2. CASE Countdown(w)
  <2>1. OnlyTab(w) /\ wizard'[w] = [DefaultState EXCEPT !.leaked = wizard[w].leaked]
    BY <1>f, <1>2, DefaultTab, BecomesMoves DEF Countdown
  <2> QED
    BY <1>f, <1>2, <2>1, DefaultTab DEF Countdown, Clicked, Turns
<1>3. CASE ViewDetails(w)
  <2>1. OnlyTab(w) /\ wizard'[w] = Show(wizard[w], "result")
    BY <1>f, <1>3, ShowMoves, BecomesMoves, StepsAre DEF ViewDetails
  <2> QED
    BY <1>f, <1>3, <2>1, ShowMoves, StepsAre DEF ViewDetails, Clicked, Turns
<1>4. CASE Back(w)
  <2>1. PICK i \in DOMAIN STEPS :
           STEPS[i] = wizard[w].step /\ Becomes(w, Show(wizard[w], STEPS[i - 1]))
    BY <1>4 DEF Back
  <2> DEFINE to == STEPS[i - 1]
  <2>2. /\ wizard[w].step \in BACK_ALLOWED
        /\ to = CASE wizard[w].step = "quote"    -> "amount"
                  [] wizard[w].step = "identity" -> "quote"
                  [] wizard[w].step = "payout"   -> "identity"
                  [] wizard[w].step = "payment"  -> "payout"
    BY <1>4, <2>1, StepsAre DEF Back
  <2>3. /\ to \in {"amount", "quote", "identity", "payout"} /\ to \in WizardStep
        /\ wizard[w].step \in {"quote", "identity"} => to \in {"amount", "quote"}
        /\ wizard[w].step = "payout" => to = "identity"
        /\ wizard[w].step = "payment" => to = "payout"
    BY <2>2, StepsAre DEF BACK_ALLOWED
  <2> HIDE DEF to
  <2>4. OnlyTab(w) /\ wizard'[w] = Show(wizard[w], to)
    BY <1>f, <2>1, <2>3, ShowMoves, BecomesMoves DEF to
  <2>5. Turns(w, wizard[w].session, to) /\ wizard'[w].leaked = wizard[w].leaked
    BY <1>f, <2>3, <2>4, ShowMoves DEF Turns
  <2>6. UNCHANGED <<onboarding, client, orders>> /\ "back" \in disturbed'
    BY <1>4 DEF Back, Disturb
  <2> QED
    BY <2>2, <2>3, <2>4, <2>5, <2>6 DEF Clicked, BACK_ALLOWED
<1>5. CASE Reset(w)
  <2>1. OnlyTab(w) /\ wizard'[w] = [DefaultState EXCEPT !.leaked = wizard[w].leaked]
    BY <1>f, <1>5, DefaultTab, BecomesMoves DEF Reset
  <2> QED
    BY <1>f, <1>5, <2>1, DefaultTab DEF Reset, Clicked, Turns
<1>6. CASE Reload(w)
  <2> DEFINE tab == [wizard[w] EXCEPT !.leaked = "none"]
             step == wizard[w].step
  <2>1. /\ tab \in Wizard /\ tab.session = wizard[w].session /\ tab.leaked = "none"
        /\ step \in WizardStep /\ tab.final = wizard[w].final
    BY <1>f DEF Wizard
  <2>2. Becomes(w, Show(tab, step))
    BY <1>6 DEF Reload
  <2> HIDE DEF tab, step
  <2>3. OnlyTab(w) /\ wizard'[w] = Show(tab, step)
    BY <1>f, <2>1, <2>2, ShowMoves, BecomesMoves
  <2>4. Turns(w, wizard[w].session, step) /\ wizard'[w].leaked = "none"
    BY <2>1, <2>3, ShowMoves DEF Turns
  <2> QED
    BY <1>6, <2>3, <2>4 DEF Reload, Disturb, Clicked, step
<1>7. CASE Track(w)
  <2>1. PICK s \in Sessions : rows[s].state # "none"
                              /\ Becomes(w, Show([DefaultState EXCEPT !.session = s], "processing"))
    BY <1>7 DEF Track
  <2> DEFINE tab == [DefaultState EXCEPT !.session = s]
  <2>2. tab \in Wizard /\ tab.session = s /\ tab.leaked = "none"
    BY StepsAre DEF Wizard, DefaultState
  <2>3. OnlyTab(w) /\ wizard'[w] = Show(tab, "processing")
    BY <1>f, <2>1, <2>2, ShowMoves, BecomesMoves, StepsAre
  <2> HIDE DEF tab
  <2>4. Turns(w, s, "processing") /\ wizard'[w].leaked = "none"
    BY <2>2, <2>3, ShowMoves, StepsAre DEF Turns
  <2> QED
    BY <1>7, <2>1, <2>3, <2>4 DEF Track, Clicked
<1> QED
  BY <1>1, <1>2, <1>3, <1>4, <1>5, <1>6, <1>7

-----------------------------------------------------------------------------
(* The steps of the journey, by what they move. *)

(* A step of the server: a request's, a lapse, or settlement's. *)
Serves(h) ==
    (HandlerStep(h) \/ Crash(h)) /\ UNCHANGED <<wizard, client, orders>>

Moves ==
    \/ \E h \in Handlers : Serves(h)
    \/ \E q \in Quotes : LapseQuote(q) /\ UNCHANGED <<wizard, client, orders>>
    \/ \E s \in Sessions : (LapseSession(s) \/ MoveOn(s)) /\ UNCHANGED <<wizard, client, orders>>
    \/ \E h \in Handlers : Answer(h) \/ TimeOut(h) \/ Drop(h)
    \/ \E w \in Wizards : (\E h \in Handlers : Sent(w, h)) \/ Clicked(w)

LEMMA NextMoves ==
  ASSUME RequestsOK, Next
  PROVE  Moves
<1>1. CASE \E w \in Wizards : TabStep(w) \/ Back(w) \/ Reset(w) \/ Reload(w) \/ Track(w)
  BY <1>1, SendMoves, ClickMoves DEF TabStep, Moves
<1> QED
  BY <1>1 DEF Next, Moves, Serves

LEMMA DisturbedGrows ==
  ASSUME [Next]_vars, disturbed \subseteq Disturbance
  PROVE  disturbed \subseteq disturbed' /\ disturbed' \subseteq Disturbance
  BY DEF Next, vars, onboarding, Disturbance, Disturb, Answer, TimeOut, Drop, TabStep, AskQuote, AskSession,
         SendIdentity, SendPayout, InitiatePayment, Poll, Send, QuoteTimer, Countdown,
         ViewDetails, Back, Reset, Reload, Track

LEMMA InitRequests == Init => RequestsOK
<1> SUFFICES ASSUME Init
             PROVE  RequestsOK
  OBVIOUS
<1> USE DEF Init, OnboardingInit
<1>1. Resting \in Request /\ Nobody \in [tab: Wizards \cup {"none"}, step: WizardStep \cup {"none"}]
  BY DEF Resting, Request, Nobody
<1>2. DefaultState \in Wizard
  BY StepsAre DEF DefaultState, Wizard
<1>3. /\ quotes \in [Quotes -> Quote] /\ rows \in [Sessions -> Row]
      /\ guests \in [Identities -> {"none", "ACTIVE", "BLOCKED"}]
      /\ cleared \in [Sessions -> Identities \cup {"none"}]
  BY DEF Quote, Row
<1>4. TypeOK
  BY <1>1, <1>2, <1>3 DEF TypeOK
<1>5. ASSUME NEW h \in Handlers
      PROVE  RequestOK(h)
  BY DEF RequestOK, Resting, Nobody, Labels, OnSession
<1>6. handler \in [Handlers -> Request]
  BY <1>1
<1> HIDE DEF Init, OnboardingInit
<1> QED
  BY <1>4, <1>5, <1>6 DEF RequestsOK

LEMMA NextRequests ==
  ASSUME RequestsOK, [Next]_vars
  PROVE  RequestsOK'
<1>f. /\ handler \in [Handlers -> Request] /\ quotes \in [Quotes -> Quote]
      /\ rows \in [Sessions -> Row]
      /\ guests \in [Identities -> {"none", "ACTIVE", "BLOCKED"}]
      /\ cleared \in [Sessions -> Identities \cup {"none"}]
      /\ wizard \in [Wizards -> Wizard]
      /\ orders \in [Wizards -> SUBSET Sessions]
      /\ client \in [Handlers -> [tab: Wizards \cup {"none"}, step: WizardStep \cup {"none"}]]
      /\ \A h \in Handlers : RequestOK(h)
  BY DEF RequestsOK, TypeOK
<1>d. disturbed' \subseteq Disturbance
  BY DisturbedGrows DEF RequestsOK, TypeOK
<1>k. ASSUME NEW g \in Handlers, handler'[g] = handler[g], client'[g] \in {client[g], Nobody}
      PROVE  RequestOK(g)'
  BY <1>f, <1>k DEF RequestOK
<1> DEFINE
      Types == /\ handler \in [Handlers -> Request] /\ quotes \in [Quotes -> Quote]
               /\ rows \in [Sessions -> Row]
               /\ guests \in [Identities -> {"none", "ACTIVE", "BLOCKED"}]
               /\ cleared \in [Sessions -> Identities \cup {"none"}]
               /\ wizard \in [Wizards -> Wizard]
               /\ orders \in [Wizards -> SUBSET Sessions]
               /\ client \in [Handlers -> [tab: Wizards \cup {"none"}, step: WizardStep \cup {"none"}]]
               /\ \A h \in Handlers : RequestOK(h)
<1>t. Types' => RequestsOK'
  BY <1>d DEF RequestsOK, TypeOK
<1>1. ASSUME NEW h \in Handlers, Serves(h)
      PROVE  Types'
  <2>1. \A g \in Handlers : RequestOK(g)'
    BY <1>1, <1>k, HandlerTypes DEF Serves
  <2> QED
    BY <1>f, <1>1, <2>1, HandlerTypes DEF Serves
<1>2. ASSUME NEW q \in Quotes, LapseQuote(q), UNCHANGED <<wizard, client, orders>>
      PROVE  Types'
  <2>1. quotes' \in [Quotes -> Quote] /\ UNCHANGED <<rows, guests, cleared, handler>>
    BY <1>f, <1>2 DEF LapseQuote, Quote
  <2>2. \A g \in Handlers : RequestOK(g)'
    BY <1>2, <2>1, <1>k
  <2> QED
    BY <1>f, <1>2, <2>1, <2>2
<1>3. ASSUME NEW s \in Sessions, LapseSession(s) \/ MoveOn(s), UNCHANGED <<wizard, client, orders>>
      PROVE  Types'
  <2>1. rows' \in [Sessions -> Row] /\ UNCHANGED <<quotes, guests, cleared, handler>>
    BY <1>3, LapseMoves, MoveOnMoves DEF RowIs
  <2>2. \A g \in Handlers : RequestOK(g)'
    BY <1>3, <2>1, <1>k
  <2> QED
    BY <1>f, <1>3, <2>1, <2>2
<1>g. ASSUME NEW h \in Handlers, Gone(h)
      PROVE  \A g \in Handlers : RequestOK(g)'
  <2>1. RequestOK(h)'
    BY <1>g DEF Gone, RequestOK, Labels, Resting, Nobody, OnSession
  <2> QED
    BY <1>g, <2>1, <1>k DEF Gone
<1>4. ASSUME NEW h \in Handlers, Answer(h)
      PROVE  Types'
  <2>1. Gone(h) /\ orders' \in [Wizards -> SUBSET Sessions] /\ wizard' \in [Wizards -> Wizard]
    BY <1>4, AnswerMoves DEF Heard, OnlyTab
  <2> QED
    BY <1>f, <2>1, <1>g DEF Gone
<1>5. ASSUME NEW h \in Handlers, TimeOut(h)
      PROVE  Types'
  <2>1. /\ UNCHANGED <<onboarding, orders>> /\ wizard' \in [Wizards -> Wizard]
        /\ client' \in [Handlers -> [tab: Wizards \cup {"none"}, step: WizardStep \cup {"none"}]]
        /\ \A g \in Handlers : client'[g] \in {client[g], Nobody}
    BY <1>5, TimeOutMoves DEF OnlyTab
  <2>2. \A g \in Handlers : RequestOK(g)'
    BY <2>1, <1>k DEF onboarding
  <2> QED
    BY <1>f, <2>1, <2>2 DEF onboarding
<1>6. ASSUME NEW h \in Handlers, Drop(h)
      PROVE  Types'
  <2>1. Gone(h) /\ UNCHANGED <<wizard, orders>>
    BY <1>6, DropMoves
  <2> QED
    BY <1>f, <2>1, <1>g DEF Gone
<1>7. ASSUME NEW w \in Wizards, NEW h \in Handlers, Sent(w, h)
      PROVE  Types'
  <2>1. RequestOK(h)'
    <3>1. handler'[h].op \in Operation
      BY <1>7 DEF Sent, Operation, OnSession
    <3>2. /\ client'[h].tab # "none" /\ handler'[h].op # "none"
          /\ handler'[h].at = FirstLabel(handler'[h].op)
      BY <1>7, <3>1, JourneyAssumption DEF Sent, Operation
    <3>3. handler'[h].at \in Labels(handler'[h].op) /\ handler'[h].at \in {"rate", "validate", "get"}
      BY <3>1, <3>2 DEF FirstLabel, Labels, Operation
    <3> QED
      BY <1>7, <3>1, <3>2, <3>3 DEF Sent, RequestOK, OnSession, Operation
  <2>2. \A g \in Handlers : RequestOK(g)'
    BY <1>7, <2>1, <1>k DEF Sent
  <2> QED
    BY <1>f, <1>7, <2>2 DEF Sent, OnlyTab
<1>8. ASSUME NEW w \in Wizards, Clicked(w)
      PROVE  Types'
  <2>1. /\ UNCHANGED <<onboarding, orders>> /\ wizard' \in [Wizards -> Wizard]
    BY <1>8 DEF Clicked, OnlyTab
  <2>2. /\ client' \in [Handlers -> [tab: Wizards \cup {"none"}, step: WizardStep \cup {"none"}]]
        /\ \A g \in Handlers : client'[g] \in {client[g], Nobody}
    <3>1. Nobody \in [tab: Wizards \cup {"none"}, step: WizardStep \cup {"none"}]
      BY DEF Nobody
    <3>2. \/ UNCHANGED client
          \/ client' = [g \in Handlers |-> IF client[g].tab = w THEN Nobody ELSE client[g]]
      BY <1>8 DEF Clicked
    <3> QED
      BY <1>f, <3>1, <3>2
  <2>3. \A g \in Handlers : RequestOK(g)'
    BY <2>1, <2>2, <1>k DEF onboarding
  <2> QED
    BY <1>f, <2>1, <2>2, <2>3 DEF onboarding
<1>9. CASE UNCHANGED vars
  <2>1. UNCHANGED <<quotes, rows, guests, cleared, handler, wizard, client, orders>>
    BY <1>9 DEF vars, onboarding
  <2>2. \A g \in Handlers : RequestOK(g)'
    BY <2>1, <1>k
  <2>3. /\ handler' \in [Handlers -> Request] /\ quotes' \in [Quotes -> Quote]
        /\ rows' \in [Sessions -> Row]
        /\ guests' \in [Identities -> {"none", "ACTIVE", "BLOCKED"}]
        /\ cleared' \in [Sessions -> Identities \cup {"none"}]
    BY <1>f, <2>1
  <2>4. /\ wizard' \in [Wizards -> Wizard] /\ orders' \in [Wizards -> SUBSET Sessions]
        /\ client' \in [Handlers -> [tab: Wizards \cup {"none"}, step: WizardStep \cup {"none"}]]
    BY <1>f, <2>1
  <2> QED
    BY <1>t, <2>2, <2>3, <2>4
<1> HIDE DEF Types
<1> QED
  BY <1>t, <1>1, <1>2, <1>3, <1>4, <1>5, <1>6, <1>7, <1>8, <1>9, NextMoves DEF Moves

(* The types, and where a request of each operation can be. *)
THEOREM Requests == Spec => []RequestsOK
  BY InitRequests, NextRequests, PTL DEF Spec

-----------------------------------------------------------------------------
(* What no step of a request does. *)

(* What becomes of the row of an order, and of what is known of it. *)
RowServed(h, t) ==
    /\ \/ t = handler'[h].session /\ handler[h].op \in OnSession \cup {"session"}
       \/ rows'[t] = rows[t] /\ cleared'[t] = cleared[t]
    /\ \/ cleared'[t] = cleared[t]
       \/ handler[h].op = "identity" /\ handler[h].at = "limits"
    /\ cleared[t] # "none" => cleared'[t] # "none"
    /\ rows[t].state # "none" => rows'[t].state # "none"
    /\ rows[t].guest # "none" => rows'[t].guest # "none"
    /\ rows[t].payout => rows'[t].payout
    /\ \/ rows'[t].guest = rows[t].guest
       \/ handler[h].op = "identity" /\ handler[h].at = "link"
    /\ \/ rows'[t].state = rows[t].state
       \/ handler[h].at = "create" /\ rows[t].state = "none" /\ rows'[t].state = "QUOTE_CONFIRMED"
       \/ handler[h].at = "write" /\ t = handler[h].session /\ rows'[t].state = handler[h].target

(* A request touches the row of its session only, and takes nothing back. *)
Served(h) ==
    /\ Kept(h)
    /\ handler[h].at \notin {"idle", "done"} /\ handler[h].op # "none" /\ handler'[h].at # "idle"
    /\ \/ SameSession(h)
       \/ /\ handler[h].op = "session" /\ handler[h].at = "create" /\ handler'[h].session \in Sessions
          /\ rows[handler'[h].session].state = "none" /\ handler'[h].at = "read"
          /\ rows'[handler'[h].session].state = "QUOTE_CONFIRMED"
    /\ \A t \in Sessions : RowServed(h, t)

LEMMA ServedMoves ==
  ASSUME RequestsOK, NEW h \in Handlers, HandlerStep(h) \/ Crash(h)
  PROVE  Served(h)
<1>f. /\ handler \in [Handlers -> Request] /\ RequestOK(h) /\ rows \in [Sessions -> Row]
      /\ cleared \in [Sessions -> Identities \cup {"none"}]
      /\ handler[h].op \in Operation \cup {"none"}
  BY DEF RequestsOK, TypeOK, Request
<1>o. handler[h].at \in {"read", "write"} =>
        handler[h].op \in OnSession \cup {"session"} /\ handler[h].target # "none"
  BY <1>f DEF RequestOK, Labels, Targets, OnSession, Operation
<1>i. handler[h].at \notin {"idle", "done"} => handler[h].op # "none"
  BY <1>f DEF RequestOK, Labels
<1>n. "none" \notin Identities
  BY OnboardingAssumption
<1>k. ASSUME rows' = rows, cleared' = cleared
      PROVE  \A t \in Sessions : RowServed(h, t)
  BY <1>k DEF RowServed
<1>c. Served(h) <=> /\ Kept(h)
                    /\ handler[h].at \notin {"idle", "done"} /\ handler[h].op # "none"
                    /\ handler'[h].at # "idle"
                    /\ \/ SameSession(h)
                       \/ /\ handler[h].op = "session" /\ handler[h].at = "create"
                          /\ handler'[h].session \in Sessions
                          /\ rows[handler'[h].session].state = "none" /\ handler'[h].at = "read"
                          /\ rows'[handler'[h].session].state = "QUOTE_CONFIRMED"
                    /\ \A t \in Sessions : RowServed(h, t)
  BY DEF Served
<1> USE DEF Goes, Ends, Calls, SameSession, OnSession
<1>1. CASE GetRate(h) \/ InsertQuote(h) \/ ValidateQuote(h) \/ ExpireQuote(h) \/ ConfirmQuote(h)
  BY <1>1, <1>i, <1>k, <1>c, QuoteMoves
<1>2. CASE CreateSession(h)
  <2>1. \A t \in Sessions : RowServed(h, t)
    BY <1>2, CreateMoves DEF RowServed, RowIs
  <2> QED
    BY <1>2, <1>i, <1>c, <2>1, CreateMoves DEF RowIs
<1>3. CASE Read(h)
  BY <1>3, <1>i, <1>k, <1>c, ReadMoves
<1>4. CASE Write(h)
  <2>1. \A t \in Sessions : RowServed(h, t)
    BY <1>4, <1>o, WriteMoves DEF RowServed, RowIs
  <2> QED
    BY <1>4, <1>i, <1>c, <2>1, WriteMoves
<1>5. CASE GetSession(h)
  BY <1>5, <1>i, <1>k, <1>c, GetMoves
<1>6. CASE GetStatus(h)
  BY <1>6, <1>i, <1>k, <1>c, StatusMoves
<1>7. CASE FindGuest(h) \/ InsertGuest(h)
  BY <1>7, <1>i, <1>k, <1>c, GuestMoves
<1>8. CASE LinkGuest(h)
  <2>1. \A t \in Sessions : RowServed(h, t)
    BY <1>8, <1>n, LinkMoves DEF RowServed, RowIs
  <2> QED
    BY <1>8, <1>i, <1>c, <2>1, LinkMoves
<1>9. CASE RunChecks(h)
  BY <1>9, <1>i, <1>k, <1>c, CheckMoves
<1>10. CASE CheckLimits(h)
  <2>1. \A t \in Sessions : RowServed(h, t)
    BY <1>10, <1>n, LimitMoves DEF RowServed
  <2> QED
    BY <1>10, <1>i, <1>c, <2>1, LimitMoves
<1>11. CASE InsertPayout(h)
  <2>1. \A t \in Sessions : RowServed(h, t)
    BY <1>11, PayoutMoves DEF RowServed, RowIs
  <2> QED
    BY <1>11, <1>i, <1>c, <2>1, PayoutMoves
<1>12. CASE InitiatePush(h)
  <2>1. \A t \in Sessions : RowServed(h, t)
    BY <1>12, PushMoves DEF RowServed, RowIs
  <2> QED
    BY <1>12, <1>i, <1>c, <2>1, PushMoves
<1>13. CASE Crash(h)
  BY <1>13, <1>i, <1>k, <1>c, CrashMoves
<1> QED
  BY <1>1, <1>2, <1>3, <1>4, <1>5, <1>6, <1>7, <1>8, <1>9, <1>10, <1>11, <1>12, <1>13
     DEF HandlerStep

-----------------------------------------------------------------------------
(* A payable order has its payout details and its guest. *)

(* A session's row for the purpose of EquippedOK. *)
RowEquipped(s) ==
    /\ rows[s].state \in Payable => rows[s].payout /\ HasGuest(s)
    /\ rows[s].state \in {"COMPLIANCE_PENDING", "PAYOUT_DETAILS_PENDING"} => HasGuest(s)

LEMMA EquippedParts ==
  EquippedOK <=> /\ \A s \in Sessions : RowEquipped(s)
                 /\ \A h \in Handlers : Equipped(h)
  BY DEF EquippedOK, RowEquipped, PayableIsEquipped, HasGuest

LEMMA ServedEquipped ==
  ASSUME RequestsOK, EquippedOK, NEW h \in Handlers, HandlerStep(h) \/ Crash(h)
  PROVE  EquippedOK'
<1>f. /\ handler \in [Handlers -> Request] /\ RequestOK(h) /\ rows \in [Sessions -> Row]
      /\ handler[h].op \in Operation \cup {"none"}
      /\ \A s \in Sessions : RowEquipped(s)
      /\ \A g \in Handlers : Equipped(g)
  BY EquippedParts DEF RequestsOK, TypeOK, Request
<1>s. Served(h)
  BY ServedMoves
<1>1. ASSUME NEW g \in Handlers, g # h
      PROVE  Equipped(g)'
  <2>1. handler'[g] = handler[g] /\ RequestOK(g) /\ Equipped(g)
    BY <1>1, <1>f, <1>s DEF Served, Kept, RequestsOK
  <2>2. \A t \in Sessions : (HasGuest(t) => HasGuest(t)') /\ (rows[t].payout => rows'[t].payout)
    BY <1>s DEF Served, RowServed, HasGuest
  <2>3. handler[g].op \in OnSession => handler[g].session \in Sessions
    BY <2>1 DEF RequestOK
  <2> QED
    BY <2>1, <2>2, <2>3 DEF Equipped, OnSession
<1>2. \A t \in Sessions : t # handler'[h].session => RowEquipped(t)'
  BY <1>f, <1>s DEF Served, RowServed, RowEquipped, HasGuest
<1>3. /\ Equipped(h)'
      /\ \A t \in Sessions : t = handler'[h].session => RowEquipped(t)'
  <2>n. "none" \notin Identities
    BY OnboardingAssumption
  <2>s. handler[h].op \in OnSession => handler[h].session \in Sessions
    BY <1>f DEF RequestOK
  <2>k. ASSUME SameSession(h), rows' = rows, Kept(h)
        PROVE  \A t \in Sessions : t = handler'[h].session => RowEquipped(t)'
    BY <2>k, <1>f DEF SameSession, RowEquipped, HasGuest
  <2> USE DEF Kept, Goes, Ends, Calls, SameSession, Equipped, HasGuest
  <2>1. CASE GetRate(h) \/ InsertQuote(h) \/ ValidateQuote(h) \/ ExpireQuote(h) \/ ConfirmQuote(h)
    BY <2>1, <2>k, QuoteMoves
  <2>2. CASE CreateSession(h)
    BY <2>2, CreateMoves DEF RowIs, RowEquipped, Payable
  <2>3. CASE Read(h)
    BY <2>3, <1>f, <2>k, ReadMoves
  <2>4. CASE Write(h)
    <3>1. Equipped(h)'
      BY <2>4, <1>f, <2>s, WriteMoves DEF RowIs, Targets
    <3>2. \A t \in Sessions : t = handler'[h].session => RowEquipped(t)'
      <4>1. handler[h].op \in Operation
        BY <2>4, <1>f, WriteMoves DEF Targets
      <4> QED
        BY <2>4, <1>f, <4>1, WriteMoves DEF RowIs, Targets, RowEquipped, Payable, Operation
    <3> QED
      BY <3>1, <3>2
  <2>5. CASE GetSession(h)
    <3>1. Equipped(h)'
      BY <2>5, <1>f, <2>s, GetMoves DEF RowEquipped
    <3> QED
      BY <3>1, <2>5, <2>k, GetMoves
  <2>6. CASE GetStatus(h)
    BY <2>6, <2>k, StatusMoves
  <2>7. CASE FindGuest(h) \/ InsertGuest(h)
    BY <2>7, <2>k, GuestMoves
  <2>8. CASE LinkGuest(h)
    BY <2>8, <1>f, <2>n, LinkMoves DEF RowIs, RowEquipped
  <2>9. CASE RunChecks(h)
    BY <2>9, <1>f, <2>k, CheckMoves
  <2>10. CASE CheckLimits(h)
    BY <2>10, <1>f, <2>k, LimitMoves
  <2>11. CASE InsertPayout(h)
    <3>1. CASE Ends(h, "refused") /\ UNCHANGED rows
      BY <3>1, <2>11, <2>k, PayoutMoves
    <3>2. CASE RowIs(handler[h].session, rows[handler[h].session].state,
                     rows[handler[h].session].guest, TRUE) /\ Calls(h, "PAYMENT_PENDING")
      <4>1. /\ handler[h].session \in Sessions /\ handler[h].op = "payout" /\ handler[h].at = "insert"
            /\ HasGuest(handler[h].session) /\ Kept(h)
        BY <2>11, <1>f, PayoutMoves
      <4>2. rows'[handler[h].session].payout
        BY <3>2 DEF RowIs
      <4>3. Equipped(h)'
        BY <3>2, <4>1, <4>2 DEF RowIs
      <4> QED
        BY <3>2, <4>1, <4>2, <4>3, <1>f DEF RowIs, RowEquipped
    <3> QED
      BY <3>1, <3>2, <2>11, PayoutMoves
  <2>12. CASE InitiatePush(h)
    BY <2>12, <1>f, <2>s, PushMoves DEF RowIs, RowEquipped
  <2>13. CASE Crash(h)
    BY <2>13, <2>k, CrashMoves
  <2> QED
    BY <2>1, <2>2, <2>3, <2>4, <2>5, <2>6, <2>7, <2>8, <2>9, <2>10, <2>11, <2>12, <2>13
       DEF HandlerStep
<1>4. /\ \A s \in Sessions : RowEquipped(s)'
      /\ \A g \in Handlers : Equipped(g)'
  BY <1>1, <1>2, <1>3
<1> QED
  BY <1>4 DEF EquippedOK, RowEquipped, PayableIsEquipped, HasGuest

LEMMA QuietEquipped ==
  ASSUME EquippedOK, rows' = rows,
         \A g \in Handlers : handler'[g] = handler[g] \/ Equipped(g)'
  PROVE  EquippedOK'
<1>1. \A s \in Sessions : RowEquipped(s)'
  BY EquippedParts DEF RowEquipped, HasGuest
<1>2. \A g \in Handlers : Equipped(g)'
  BY EquippedParts DEF Equipped, HasGuest
<1> QED
  BY <1>1, <1>2 DEF EquippedOK, RowEquipped, PayableIsEquipped, HasGuest

LEMMA InitEquipped == Init => EquippedOK
  BY DEF Init, OnboardingInit, EquippedOK, PayableIsEquipped, Payable, Equipped, Resting

LEMMA NextEquipped ==
  ASSUME RequestsOK, EquippedOK, [Next]_vars
  PROVE  EquippedOK'
<1>1. ASSUME NEW h \in Handlers, Serves(h)
      PROVE  EquippedOK'
  BY <1>1, ServedEquipped DEF Serves
<1>2. ASSUME NEW q \in Quotes, LapseQuote(q)
      PROVE  EquippedOK'
  BY <1>2, QuietEquipped DEF LapseQuote
<1>3. ASSUME NEW s \in Sessions, LapseSession(s) \/ MoveOn(s)
      PROVE  EquippedOK'
  <2>f. /\ \A t \in Sessions : RowEquipped(t)
        /\ \A g \in Handlers : Equipped(g) /\ (handler[g].op \in OnSession => handler[g].session \in Sessions)
    BY EquippedParts DEF RequestsOK, RequestOK
  <2>1. /\ handler' = handler
        /\ \A t \in Sessions : /\ rows'[t].guest = rows[t].guest
                               /\ rows'[t].payout = rows[t].payout
                               /\ \/ rows'[t].state = rows[t].state
                                  \/ rows[t].state \in Payable
                                     /\ rows'[t].state \in Payable \cup {"FAILED"}
    BY <1>3, LapseMoves, MoveOnMoves DEF RowIs
  <2>2. \A t \in Sessions : RowEquipped(t)'
    BY <2>f, <2>1 DEF RowEquipped, HasGuest, Payable
  <2>3. \A g \in Handlers : Equipped(g)'
    BY <2>f, <2>1 DEF Equipped, HasGuest, OnSession
  <2> QED
    BY <2>2, <2>3 DEF EquippedOK, RowEquipped, PayableIsEquipped, HasGuest
<1>4. ASSUME NEW h \in Handlers, Answer(h) \/ Drop(h)
      PROVE  EquippedOK'
  <2>1. Gone(h)
    BY <1>4, AnswerMoves, DropMoves
  <2>2. Equipped(h)'
    BY <2>1 DEF Gone, Equipped, Resting
  <2> QED
    BY <2>1, <2>2, QuietEquipped DEF Gone
<1>5. ASSUME NEW h \in Handlers, TimeOut(h)
      PROVE  EquippedOK'
  BY <1>5, QuietEquipped DEF TimeOut, onboarding
<1>6. ASSUME NEW w \in Wizards, NEW h \in Handlers, Sent(w, h)
      PROVE  EquippedOK'
  <2>1. handler'[h].at \in {"rate", "validate", "get"}
    BY <1>6 DEF Sent, FirstLabel
  <2>2. Equipped(h)'
    BY <2>1 DEF Equipped
  <2> QED
    BY <1>6, <2>2, QuietEquipped DEF Sent
<1>7. ASSUME NEW w \in Wizards, Clicked(w)
      PROVE  EquippedOK'
  BY <1>7, QuietEquipped DEF Clicked, onboarding
<1>8. CASE UNCHANGED vars
  BY <1>8, QuietEquipped DEF vars, onboarding
<1> QED
  BY <1>1, <1>2, <1>3, <1>4, <1>5, <1>6, <1>7, <1>8, NextMoves DEF Moves

LEMMA Equipments == Spec => [](RequestsOK /\ EquippedOK)
<1>1. Init => RequestsOK /\ EquippedOK
  BY InitRequests, InitEquipped
<1>2. (RequestsOK /\ EquippedOK) /\ [Next]_vars => (RequestsOK /\ EquippedOK)'
  BY NextRequests, NextEquipped
<1> QED
  BY <1>1, <1>2, PTL DEF Spec

(* A session is payable only with a payout row and a guest, whatever the     *)
(* customers click, however many requests of theirs run at once and wherever *)
(* these stop: submitIdentity links the guest before its first transition,  *)
(* submitPayoutDetails inserts the row before its own.                      *)
THEOREM PayableHasPayout == Spec => []PayableIsEquipped
<1>1. RequestsOK /\ EquippedOK => PayableIsEquipped
  BY DEF EquippedOK
<1> QED
  BY <1>1, Equipments, PTL

-----------------------------------------------------------------------------
(* Whose an order is. *)

Places == Owned /\ \A w \in Wizards : TabOK(w)

LEMMA InitPlaces == Init => Places
<1> SUFFICES ASSUME Init
             PROVE  Places
  OBVIOUS
<1>1. /\ \A h \in Handlers : handler[h].op = "none" /\ handler[h].session = "none"
                             /\ client[h].tab = "none"
      /\ \A w \in Wizards : wizard[w].session = "none" /\ wizard[w].leaked = "none"
                            /\ orders[w] = {}
      /\ \A s \in Sessions : cleared[s] = "none" /\ s # "none"
  BY OnboardingAssumption DEF Init, OnboardingInit, Resting, Nobody, DefaultState
<1>2. \A s \in Sessions : Fresh(s)
  BY <1>1 DEF Fresh, OnSession
<1> QED
  BY <1>1, <1>2 DEF Places, Owned, Creating, Unborn, Sender, TabOK

LEMMA ServedPlaces ==
  ASSUME RequestsOK, Places, NEW h \in Handlers, Serves(h)
  PROVE  Places'
<1>f. /\ handler \in [Handlers -> Request]
      /\ \A g \in Handlers : RequestOK(g) /\ Creating(g) /\ Sender(g)
      /\ \A s \in Sessions : Unborn(s)
      /\ \A v, w \in Wizards : v # w => orders[v] \cap orders[w] = {}
      /\ \A w \in Wizards : TabOK(w)
  BY DEF RequestsOK, Places, Owned
<1>s. Served(h) /\ UNCHANGED <<wizard, client, orders>>
  BY ServedMoves DEF Serves
<1>o. /\ \A g \in Handlers : handler'[g].op = handler[g].op
      /\ \A g \in Handlers : handler[g].op # "session" => handler'[g].session = handler[g].session
      /\ \A g \in Handlers : g # h => handler'[g] = handler[g]
  BY <1>s DEF Served, Kept, SameSession
<1>n. \A g \in Handlers : handler[g].op = "session" /\ handler[g].session # "none"
                          => handler[g].session \in Sessions
  BY <1>f DEF Request
<1>1. \A s \in Sessions : Fresh(s) => Fresh(s)'
  <2> SUFFICES ASSUME NEW s \in Sessions, Fresh(s)
               PROVE  Fresh(s)'
    OBVIOUS
  <2>1. cleared'[s] = cleared[s]
    BY <1>s, <1>o DEF Served, RowServed, Fresh, OnSession
  <2> QED
    BY <2>1, <1>s, <1>o DEF Fresh, OnSession
<1>2. ASSUME NEW g \in Handlers, SameSession(h) \/ g # h
      PROVE  Creating(g)'
  <2>1. handler'[g].session = handler[g].session /\ handler'[g].op = handler[g].op
    BY <1>2, <1>o DEF SameSession
  <2>2. CASE handler[g].op = "session" /\ handler[g].session # "none"
    <3>1. /\ handler[g].session \in Sessions /\ Fresh(handler[g].session)
          /\ rows[handler[g].session].state # "none"
      BY <2>2, <1>f, <1>n DEF Creating
    <3>2. rows'[handler[g].session].state # "none"
      BY <3>1, <1>s DEF Served, RowServed
    <3>3. Fresh(handler[g].session)'
      <4>1. \A s \in Sessions : s = handler[g].session => Fresh(s)'
        BY <3>1, <1>1
      <4> QED
        BY <4>1, <3>1, <2>1 DEF Fresh
    <3>4. ASSUME NEW k \in Handlers, handler'[k].op = "session",
                 handler'[k].session = handler[g].session
          PROVE  k = g
      <4>1. CASE handler'[k].session = handler[k].session
        <5>1. handler[k].op = "session" /\ handler[k].session = handler[g].session /\ Creating(g)
          BY <4>1, <3>4, <1>f, <1>o
        <5> QED
          BY <5>1, <2>2 DEF Creating
      <4>2. CASE handler'[k].session # handler[k].session
        BY <4>2, <3>4, <3>1, <1>s, <1>o DEF Served, SameSession
      <4> QED
        BY <4>1, <4>2
    <3> QED
      BY <2>1, <2>2, <3>2, <3>3, <3>4 DEF Creating
  <2>3. CASE ~(handler[g].op = "session" /\ handler[g].session # "none")
    BY <2>1, <2>3 DEF Creating
  <2> QED
    BY <2>2, <2>3
<1>3. CASE ~SameSession(h)
  <2>1. PICK s \in Sessions : /\ s = handler'[h].session /\ rows[s].state = "none"
                              /\ rows'[s].state # "none" /\ handler[h].op = "session"
    BY <1>3, <1>s DEF Served
  <2>2. Fresh(s)' /\ \A g \in Handlers : handler[g].op = "session" => handler[g].session # s
    BY <2>1, <1>f, <1>1 DEF Unborn
  <2>3. Creating(h)'
    BY <2>1, <2>2, <1>o DEF Creating, Fresh
  <2>4. \A g \in Handlers : Creating(g)'
    BY <1>2, <2>3
  <2> QED
    <3>1. ASSUME NEW t \in Sessions
          PROVE  Unborn(t)'
      <4> SUFFICES ASSUME rows'[t].state = "none"
                   PROVE  Unborn(t)'
        BY DEF Unborn
      <4>1. t # s /\ rows[t].state = "none"
        BY <2>1, <1>s DEF Served, RowServed
      <4> QED
        BY <4>1, <2>1, <1>1, <1>f, <1>s, <1>o DEF Unborn
    <3>2. \A g \in Handlers : Sender(g)'
      BY <1>f, <1>s, <1>o DEF Sender, OnSession
    <3>3. \A w \in Wizards : TabOK(w)'
      BY <1>f, <1>s, <1>o DEF TabOK, Following
    <3> QED
      BY <1>f, <1>s, <2>4, <3>1, <3>2, <3>3 DEF Places, Owned
<1>4. CASE SameSession(h)
  <2>1. \A g \in Handlers : Creating(g)'
    BY <1>2, <1>4
  <2>o. \A g \in Handlers : handler'[g].session = handler[g].session
    BY <1>4, <1>o DEF SameSession
  <2>2. ASSUME NEW t \in Sessions
        PROVE  Unborn(t)'
    <3> SUFFICES ASSUME rows'[t].state = "none"
                 PROVE  Unborn(t)'
      BY DEF Unborn
    <3>1. rows[t].state = "none"
      BY <1>s DEF Served, RowServed
    <3> QED
      BY <3>1, <1>1, <1>f, <1>s, <1>o, <2>o DEF Unborn
  <2>3. \A g \in Handlers : Sender(g)'
    BY <1>f, <1>s, <1>o DEF Sender, OnSession
  <2>4. \A w \in Wizards : TabOK(w)'
    BY <1>f, <1>s, <1>o DEF TabOK, Following
  <2> QED
    BY <1>f, <1>s, <2>1, <2>2, <2>3, <2>4 DEF Places, Owned
<1> QED
  BY <1>3, <1>4

PlacesFacts ==
    /\ handler \in [Handlers -> Request]
    /\ \A g \in Handlers : RequestOK(g) /\ Creating(g) /\ Sender(g)
    /\ \A s \in Sessions : Unborn(s)
    /\ \A v, w \in Wizards : v # w => orders[v] \cap orders[w] = {}
    /\ \A w \in Wizards : TabOK(w)
    /\ orders \in [Wizards -> SUBSET Sessions]
    /\ \A g \in Handlers : client[g].tab \in Wizards \cup {"none"}
    /\ \A g \in Handlers : handler[g].op = "session" /\ handler[g].session # "none"
                           => handler[g].session \in Sessions

LEMMA FactsOf ==
  ASSUME RequestsOK, Places
  PROVE  PlacesFacts
<1>1. \A g \in Handlers : client[g].tab \in Wizards \cup {"none"}
  BY DEF RequestsOK, TypeOK
<1>2. \A g \in Handlers : handler[g].session \in Sessions \cup {"none"}
  BY DEF RequestsOK, Request
<1> QED
  BY <1>1, <1>2 DEF RequestsOK, TypeOK, Places, Owned, PlacesFacts

LEMMA QuietPlaces ==
  ASSUME RequestsOK, Places, UNCHANGED <<cleared, handler, wizard, client, orders>>,
         \A t \in Sessions : rows'[t].state = "none" <=> rows[t].state = "none"
  PROVE  Places'
<1>f. PlacesFacts
  BY FactsOf
<1>1. \A t \in Sessions : Unborn(t)'
  BY <1>f DEF PlacesFacts, Unborn, Fresh
<1>2. \A g \in Handlers : Creating(g)' /\ Sender(g)'
  BY <1>f DEF PlacesFacts, Creating, Sender, Fresh
<1>3. \A w \in Wizards : TabOK(w)'
  BY <1>f DEF PlacesFacts, TabOK, Following
<1> QED
  BY <1>f, <1>1, <1>2, <1>3 DEF Places, Owned, PlacesFacts

LEMMA AnswerPlaces ==
  ASSUME RequestsOK, Places, NEW h \in Handlers, Answer(h)
  PROVE  Places'
<1>f. PlacesFacts
  BY FactsOf
<1>a. PICK w \in Wizards : w = client[h].tab /\ Gone(h) /\ Heard(w, h) /\ w # "none"
  BY AnswerMoves, JourneyAssumption
<1>b. PICK s : s = handler[h].session
  OBVIOUS
<1>d. PICK Given \in BOOLEAN : Given <=> handler[h].op = "session" /\ handler[h].reply = "ok"
  OBVIOUS
<1>g. /\ handler'[h].op = "none" /\ handler'[h].session = "none" /\ client'[h].tab = "none"
      /\ \A g \in Handlers : g # h => handler'[g] = handler[g] /\ client'[g] = client[g]
      /\ rows' = rows /\ cleared' = cleared
  BY <1>a DEF Gone, Resting, Nobody
<1>o. /\ Given => s \in Sessions /\ orders'[w] = orders[w] \cup {s}
      /\ ~Given => orders'[w] = orders[w]
      /\ \A v \in Wizards : v # w => orders'[v] = orders[v]
  BY <1>f, <1>a, <1>b, <1>d, AnswerMoves DEF PlacesFacts
<1>s. Given => s # "none"
  BY <1>o, OnboardingAssumption
<1>w. /\ \A v \in Wizards : v # w => wizard'[v] = wizard[v]
      /\ wizard'[w].session = wizard[w].session \/ (Given /\ wizard'[w].session = s)
  BY <1>a, <1>b, <1>d DEF Heard, OnlyTab, Stays, Turns
<1>1. \A t \in Sessions : Fresh(t) /\ ~(Given /\ t = s) => Fresh(t)'
  BY <1>a, <1>g, <1>o DEF Fresh, OnSession
<1>2. ASSUME NEW g \in Handlers
      PROVE  Creating(g)' /\ Sender(g)'
  <2>1. CASE g = h
    BY <2>1, <1>g DEF Creating, Sender
  <2>2. CASE g # h
    <3>1. handler'[g] = handler[g] /\ client'[g] = client[g] /\ Creating(g) /\ Sender(g)
      BY <2>2, <1>f, <1>g DEF PlacesFacts
    <3>2. Sender(g)'
      <4>1. \A v \in Wizards : orders[v] \subseteq orders'[v]
        BY <1>o
      <4> QED
        BY <3>1, <4>1, <1>f DEF Sender, PlacesFacts
    <3>3. Creating(g)'
      <4> SUFFICES ASSUME handler[g].op = "session", handler[g].session # "none"
                   PROVE  Creating(g)'
        BY <3>1 DEF Creating
      <4>1. ~(Given /\ handler[g].session = s)
        BY <2>2, <3>1, <1>b, <1>d DEF Creating
      <4>2. \A t \in Sessions : t = handler[g].session => Fresh(t)'
        BY <3>1, <4>1, <1>1 DEF Creating
      <4>3. Fresh(handler[g].session)'
        BY <3>1, <4>2, <1>f DEF PlacesFacts, Fresh
      <4> QED
        BY <3>1, <4>3, <1>g DEF Creating
    <3> QED
      BY <3>2, <3>3
  <2> QED
    BY <2>1, <2>2
<1>3. ASSUME NEW t \in Sessions
      PROVE  Unborn(t)'
  <2> SUFFICES ASSUME rows[t].state = "none"
               PROVE  Unborn(t)'
    BY <1>g DEF Unborn
  <2>1. /\ Fresh(t) /\ \A g \in Handlers : handler[g].op # "status" => handler[g].session # t
        /\ \A v \in Wizards : wizard[v].session # t
    BY <1>f DEF PlacesFacts, Unborn
  <2>2. ~(Given /\ t = s)
    BY <2>1, <1>b, <1>d
  <2>3. \A v \in Wizards : wizard'[v].session # t
    BY <2>1, <2>2, <1>w
  <2>4. \A g \in Handlers : handler'[g].op # "status" => handler'[g].session # t
    BY <2>1, <1>g, OnboardingAssumption
  <2> QED
    BY <2>1, <2>2, <2>3, <2>4, <1>1, <1>g DEF Unborn
<1>4. ASSUME NEW v \in Wizards, NEW u \in Wizards, v # u
      PROVE  orders'[v] \cap orders'[u] = {}
  <2>1. orders[v] \cap orders[u] = {}
    BY <1>4, <1>f DEF PlacesFacts
  <2>2. Given => \A x \in Wizards : s \notin orders[x]
    BY <1>f, <1>s, <1>b, <1>d DEF PlacesFacts, Creating, Fresh
  <2> QED
    BY <1>4, <2>1, <2>2, <1>o
<1>5. ASSUME NEW v \in Wizards, v # w
      PROVE  TabOK(v)'
  <2>1. /\ wizard'[v] = wizard[v] /\ orders'[v] = orders[v] /\ TabOK(v)
        /\ \A g \in Handlers : client'[g].tab = v => g # h
    BY <1>5, <1>f, <1>w, <1>o, <1>g, JourneyAssumption DEF PlacesFacts
  <2> QED
    BY <2>1, <1>g DEF TabOK, Following
<1>6. TabOK(w)'
  <2>1. TabOK(w) /\ Sender(h) /\ RequestOK(h)
    BY <1>f, <1>a DEF PlacesFacts
  <2>2. wizard'[w].leaked # "none" => wizard'[w].leaked \in orders'[w]
    <3>1. \/ wizard'[w].leaked \in {wizard[w].leaked, "none"}
          \/ handler[h].op = "initiate" /\ wizard'[w].leaked = s
      BY <1>a, <1>b DEF Heard
    <3>2. handler[h].op = "initiate" => s \in orders[w]
      BY <2>1, <1>a, <1>b DEF Sender, OnSession
    <3> QED
      BY <2>1, <3>1, <3>2, <1>o DEF TabOK
  <2>3. ASSUME wizard'[w].session # "none", wizard'[w].session \notin orders'[w]
        PROVE  Following(w)'
    <3>1. wizard'[w].session = wizard[w].session /\ wizard[w].session \notin orders[w]
      BY <2>3, <1>w, <1>o
    <3>2. Following(w)
      BY <2>1, <2>3, <3>1 DEF TabOK
    <3>3. handler[h].op = "status" /\ client[h].step = "processing"
      BY <3>2, <1>a DEF Following
    <3>4. /\ wizard'[w].step = wizard[w].step /\ wizard'[w].leaked = "none"
          /\ wizard'[w].polling \in {wizard[w].polling, "none"}
      BY <3>2, <3>3, <1>a DEF Heard, Stays, Following
    <3> QED
      BY <3>2, <3>4, <1>g, <1>a DEF Following
  <2> QED
    BY <2>2, <2>3 DEF TabOK
<1> QED
  BY <1>2, <1>3, <1>4, <1>5, <1>6 DEF Places, Owned

LEMMA DropPlaces ==
  ASSUME RequestsOK, Places, NEW h \in Handlers, Drop(h)
  PROVE  Places'
<1>f. PlacesFacts
  BY FactsOf
<1>g. /\ handler'[h].op = "none" /\ handler'[h].session = "none" /\ client'[h].tab = "none"
      /\ \A g \in Handlers : g # h => handler'[g] = handler[g] /\ client'[g] = client[g]
      /\ UNCHANGED <<rows, cleared, wizard, orders>>
  BY DropMoves DEF Gone, Resting, Nobody
<1>1. \A t \in Sessions : Fresh(t) => Fresh(t)'
  BY <1>g DEF Fresh, OnSession
<1>2. ASSUME NEW g \in Handlers
      PROVE  Creating(g)' /\ Sender(g)'
  <2>1. CASE g = h
    BY <2>1, <1>g DEF Creating, Sender
  <2>2. CASE g # h
    <3>1. handler'[g] = handler[g] /\ client'[g] = client[g] /\ Creating(g) /\ Sender(g)
      BY <2>2, <1>f, <1>g DEF PlacesFacts
    <3>2. \A t \in Sessions : t = handler[g].session /\ Fresh(t) => Fresh(t)'
      BY <1>1
    <3>3. handler[g].op = "session" /\ handler[g].session # "none" => Fresh(handler[g].session)'
      BY <3>1, <3>2, <1>f DEF PlacesFacts, Creating, Fresh
    <3> QED
      BY <3>1, <3>3, <1>g DEF Creating, Sender
  <2> QED
    BY <2>1, <2>2
<1>3. ASSUME NEW t \in Sessions
      PROVE  Unborn(t)'
  BY <1>1, <1>f, <1>g, OnboardingAssumption DEF PlacesFacts, Unborn
<1>4. ASSUME NEW v \in Wizards
      PROVE  TabOK(v)'
  <2>1. TabOK(v) /\ \A g \in Handlers : client'[g].tab = v => g # h
    BY <1>f, <1>g, JourneyAssumption DEF PlacesFacts
  <2> QED
    BY <2>1, <1>g DEF TabOK, Following
<1> QED
  BY <1>f, <1>g, <1>2, <1>3, <1>4 DEF Places, Owned, PlacesFacts

LEMMA TabPlaces ==
  ASSUME RequestsOK, Places, NEW w \in Wizards, OnlyTab(w), UNCHANGED <<onboarding, orders>>,
         \A g \in Handlers : client'[g] \in {client[g], Nobody},
         TabOK(w)',
         \A t \in Sessions : wizard'[w].session = t => wizard[w].session = t \/ rows[t].state # "none"
  PROVE  Places'
<1>f. PlacesFacts
  BY FactsOf
<1>g. UNCHANGED <<rows, cleared, handler, orders>>
  BY DEF onboarding
<1>1. ASSUME NEW g \in Handlers
      PROVE  Creating(g)' /\ Sender(g)'
  <2>1. Creating(g)'
    BY <1>f, <1>g DEF PlacesFacts, Creating, Fresh
  <2>2. client'[g].tab # "none" => client'[g] = client[g]
    BY DEF Nobody
  <2> QED
    BY <2>1, <2>2, <1>f, <1>g DEF PlacesFacts, Sender
<1>2. ASSUME NEW t \in Sessions
      PROVE  Unborn(t)'
  BY <1>f, <1>g DEF PlacesFacts, Unborn, Fresh, OnlyTab
<1>3. ASSUME NEW v \in Wizards, v # w
      PROVE  TabOK(v)'
  <2>1. wizard'[v] = wizard[v] /\ TabOK(v)
    BY <1>3, <1>f DEF OnlyTab, PlacesFacts
  <2>2. \A g \in Handlers : client'[g].tab = v => client'[g] = client[g]
    BY JourneyAssumption DEF Nobody
  <2> QED
    BY <2>1, <2>2, <1>g DEF TabOK, Following
<1> QED
  BY <1>f, <1>g, <1>1, <1>2, <1>3 DEF Places, Owned, PlacesFacts

LEMMA TimeOutPlaces ==
  ASSUME RequestsOK, Places, NEW h \in Handlers, TimeOut(h)
  PROVE  Places'
<1>t. PICK w \in Wizards :
      /\ OnlyTab(w) /\ Stays(w) /\ UNCHANGED <<onboarding, orders>>
      /\ wizard'[w].leaked = wizard[w].leaked /\ wizard'[w].polling = wizard[w].polling
      /\ \A g \in Handlers : client'[g] \in {client[g], Nobody}
  BY TimeOutMoves
<1>1. TabOK(w)'
  <2>1. TabOK(w)
    BY <1>t DEF Places
  <2>2. \A g \in Handlers : client'[g].tab = w => client'[g] = client[g]
    BY <1>t, JourneyAssumption DEF Nobody
  <2> QED
    BY <2>1, <2>2, <1>t DEF TabOK, Following, Stays, onboarding
<1> QED
  BY <1>1, <1>t, TabPlaces DEF Stays

LEMMA ClickedPlaces ==
  ASSUME RequestsOK, Places, NEW w \in Wizards, Clicked(w)
  PROVE  Places'
<1>c. /\ OnlyTab(w) /\ UNCHANGED <<onboarding, orders>> /\ handler' = handler
      /\ \A g \in Handlers : client'[g] \in {client[g], Nobody}
  BY DEF Clicked, onboarding
<1>n. "none" \notin Sessions
  BY OnboardingAssumption
<1>1. TabOK(w)'
  <2>1. TabOK(w)
    BY DEF Places
  <2>2. wizard'[w].leaked # "none" => wizard'[w].leaked \in orders'[w]
    BY <2>1, <1>c DEF TabOK, Clicked
  <2>3. ASSUME wizard'[w].session # "none", wizard'[w].session \notin orders'[w]
        PROVE  Following(w)'
    <3>1. CASE \E t \in Sessions : rows[t].state # "none" /\ Turns(w, t, "processing")
               /\ UNCHANGED client /\ (\A g \in Handlers : client[g].tab # w)
               /\ wizard'[w].leaked = "none"
      BY <3>1 DEF Following, Turns
    <3>2. CASE wizard'[w].session = wizard[w].session /\ Following(w)
      <4>1. \A g \in Handlers : client'[g].tab = w => client'[g] = client[g]
        BY <1>c, JourneyAssumption DEF Nobody
      <4>2. /\ wizard'[w].step \in {"processing", "result"} /\ wizard'[w].leaked = "none"
            /\ wizard'[w].step = "result" => wizard'[w].polling = "none"
        BY <3>2, <2>3 DEF Clicked, Turns, Following
      <4> QED
        BY <3>2, <4>1, <4>2, <1>c DEF Following
    <3>3. wizard'[w].session = wizard[w].session => Following(w)
      BY <2>1, <2>3, <1>c DEF TabOK
    <3> QED
      BY <3>1, <3>2, <3>3, <2>3 DEF Clicked, Turns
  <2> QED
    BY <2>2, <2>3 DEF TabOK
<1>2. \A t \in Sessions : wizard'[w].session = t => wizard[w].session = t \/ rows[t].state # "none"
  BY <1>n DEF Clicked, Turns
<1> QED
  BY <1>1, <1>2, <1>c, TabPlaces

LEMMA SentPlaces ==
  ASSUME RequestsOK, Places, NEW w \in Wizards, NEW h \in Handlers, Sent(w, h)
  PROVE  Places'
<1>f. PlacesFacts
  BY FactsOf
<1>s. /\ \A g \in Handlers : g # h => handler'[g] = handler[g] /\ client'[g] = client[g]
      /\ client'[h].tab = w /\ client'[h].step = wizard[w].step
      /\ UNCHANGED <<rows, cleared, orders>> /\ OnlyTab(w) /\ Stays(w)
      /\ wizard'[w].leaked = wizard[w].leaked /\ wizard'[w].polling = wizard[w].polling
      /\ handler[h].op = "none" /\ w # "none"
  BY JourneyAssumption DEF Sent
<1>i. handler[h].session = "none"
  BY <1>f, <1>s DEF PlacesFacts, RequestOK, Resting
<1>n. "none" \notin Sessions
  BY OnboardingAssumption
<1>o. \/ /\ handler'[h].op = "status"
         /\ handler'[h].session \in {wizard[w].polling, wizard[w].leaked} \ {"none"}
      \/ handler'[h].op \in {"quote", "session"} /\ handler'[h].session = "none"
         /\ wizard[w].step \in {"amount", "quote"}
      \/ /\ handler'[h].op \in OnSession /\ handler'[h].session = wizard[w].session
         /\ wizard[w].session \in orders[w] /\ wizard[w].session \in Sessions
  <2>1. CASE handler'[h].op \in OnSession
    <3>1. /\ wizard[w].step \in {"identity", "payout", "payment"} /\ wizard[w].session \in Sessions
          /\ handler'[h].session = wizard[w].session
      BY <2>1 DEF Sent, OnSession
    <3>2. TabOK(w)
      BY <1>f DEF PlacesFacts
    <3>3. wizard[w].session \in orders[w]
      BY <3>1, <3>2, <1>n DEF TabOK, Following
    <3> QED
      BY <2>1, <3>1, <3>3
  <2> QED
    BY <2>1 DEF Sent
<1>1. \A t \in Sessions : Fresh(t) => Fresh(t)'
  BY <1>o, <1>s DEF Fresh, OnSession
<1>2. ASSUME NEW g \in Handlers
      PROVE  Creating(g)' /\ Sender(g)'
  <2>1. CASE g = h
    BY <2>1, <1>s, <1>o DEF Creating, Sender, OnSession
  <2>2. CASE g # h
    <3>1. handler'[g] = handler[g] /\ client'[g] = client[g] /\ Creating(g) /\ Sender(g)
      BY <2>2, <1>f, <1>s DEF PlacesFacts
    <3>2. Sender(g)'
      BY <3>1, <1>s DEF Sender
    <3>3. Creating(g)'
      <4> SUFFICES ASSUME handler[g].op = "session", handler[g].session # "none"
                   PROVE  Creating(g)'
        BY <3>1 DEF Creating
      <4>1. \A t \in Sessions : t = handler[g].session => Fresh(t)'
        BY <3>1, <1>1 DEF Creating
      <4>2. Fresh(handler[g].session)'
        BY <3>1, <4>1, <1>f DEF PlacesFacts, Fresh
      <4>3. \A k \in Handlers : handler'[k].op = "session" /\ handler'[k].session = handler[g].session
                                => k # h
        BY <1>o DEF OnSession
      <4> QED
        BY <3>1, <4>2, <4>3, <1>s DEF Creating
    <3> QED
      BY <3>2, <3>3
  <2> QED
    BY <2>1, <2>2
<1>3. ASSUME NEW t \in Sessions
      PROVE  Unborn(t)'
  <2> SUFFICES ASSUME rows[t].state = "none"
               PROVE  Unborn(t)'
    BY <1>s DEF Unborn
  <2>1. /\ Fresh(t) /\ \A g \in Handlers : handler[g].op # "status" => handler[g].session # t
        /\ \A v \in Wizards : wizard[v].session # t
    BY <1>f DEF PlacesFacts, Unborn
  <2>2. \A v \in Wizards : wizard'[v].session # t
    BY <2>1, <1>s DEF OnlyTab, Stays
  <2>3. \A g \in Handlers : handler'[g].op # "status" => handler'[g].session # t
    BY <2>1, <1>s, <1>o, <1>n
  <2> QED
    BY <2>1, <2>2, <2>3, <1>1, <1>s DEF Unborn
<1>4. ASSUME NEW v \in Wizards, v # w
      PROVE  TabOK(v)'
  <2>1. wizard'[v] = wizard[v] /\ TabOK(v) /\ \A g \in Handlers : client'[g].tab = v => g # h
    BY <1>4, <1>f, <1>s DEF PlacesFacts, OnlyTab
  <2> QED
    BY <2>1, <1>s DEF TabOK, Following
<1>5. TabOK(w)'
  <2>1. TabOK(w)
    BY <1>f DEF PlacesFacts
  <2>2. ASSUME wizard[w].session # "none", wizard[w].session \notin orders[w]
        PROVE  Following(w)'
    <3>1. Following(w)
      BY <2>1, <2>2 DEF TabOK
    <3>2. handler'[h].op = "status" /\ wizard[w].step = "processing"
      BY <2>2, <3>1, <1>o DEF Following
    <3> QED
      BY <3>1, <3>2, <1>s DEF Following, Stays
  <2> QED
    BY <2>1, <2>2, <1>s DEF TabOK, Stays
<1> QED
  BY <1>f, <1>s, <1>2, <1>3, <1>4, <1>5 DEF Places, Owned, PlacesFacts

LEMMA NextPlaces ==
  ASSUME RequestsOK, Places, [Next]_vars
  PROVE  Places'
<1>1. ASSUME NEW q \in Quotes, LapseQuote(q), UNCHANGED <<wizard, client, orders>>
      PROVE  Places'
  BY <1>1, QuietPlaces DEF LapseQuote
<1>2. ASSUME NEW s \in Sessions, LapseSession(s) \/ MoveOn(s), UNCHANGED <<wizard, client, orders>>
      PROVE  Places'
  <2>1. /\ UNCHANGED <<cleared, handler>>
        /\ \A t \in Sessions : rows'[t].state = "none" <=> rows[t].state = "none"
    BY <1>2, LapseMoves, MoveOnMoves DEF RowIs, Payable
  <2> QED
    BY <1>2, <2>1, QuietPlaces
<1>3. CASE UNCHANGED vars
  BY <1>3, QuietPlaces DEF vars, onboarding
<1> QED
  BY <1>1, <1>2, <1>3, NextMoves, ServedPlaces, AnswerPlaces, TimeOutPlaces, DropPlaces,
     SentPlaces, ClickedPlaces DEF Moves

-----------------------------------------------------------------------------
(* How far an order has come. *)

Ahead ==
    /\ \A w \in Wizards : Reached(w)
    /\ \A h \in Handlers : AskedFor(h)

LEMMA OrdersGrow ==
  ASSUME RequestsOK, [Next]_vars
  PROVE  /\ \A w \in Wizards : orders[w] \subseteq orders'[w]
         /\ \A s : OnlyOrder(s)' => OnlyOrder(s)
<1>1. \A w \in Wizards : orders[w] \subseteq orders'[w]
  <2>1. orders \in [Wizards -> SUBSET Sessions]
    BY DEF RequestsOK, TypeOK
  <2>2. \A h \in Handlers : Answer(h) => \A w \in Wizards : orders[w] \subseteq orders'[w]
    BY <2>1, AnswerMoves
  <2>3. CASE UNCHANGED vars
    BY <2>3 DEF vars
  <2>4. \A h \in Handlers : TimeOut(h) \/ Drop(h) => orders' = orders
    BY DEF TimeOut, Drop
  <2>5. CASE Next
    BY <2>2, <2>4, <2>5, NextMoves DEF Moves, Serves, Sent, Clicked
  <2> QED
    BY <2>3, <2>5
<1>2. ASSUME NEW s, OnlyOrder(s)'
      PROVE  OnlyOrder(s)
  BY <1>1, <1>2 DEF OnlyOrder
<1> QED
  BY <1>1, <1>2

(* The tab whose request is answered has no other order than the request's. *)
LEMMA OwnOrder ==
  ASSUME PlacesFacts, NEW h \in Handlers, client[h].tab # "none", handler[h].op \in OnSession,
         wizard[client[h].tab].session # "none", OnlyOrder(wizard[client[h].tab].session)
  PROVE  handler[h].session = wizard[client[h].tab].session
<1>1. PICK w \in Wizards : w = client[h].tab
  BY DEF PlacesFacts
<1>2. handler[h].session \in orders[w] /\ TabOK(w)
  BY <1>1 DEF PlacesFacts, Sender
<1>3. ~Following(w)
  BY <1>1 DEF Following, OnSession
<1>4. wizard[w].session \in orders[w]
  BY <1>1, <1>2, <1>3 DEF TabOK
<1> QED
  BY <1>1, <1>2, <1>4 DEF OnlyOrder

LEMMA InitAhead == Init => Ahead
<1> SUFFICES ASSUME Init
             PROVE  Ahead
  OBVIOUS
<1>1. /\ \A h \in Handlers : handler[h].op = "none"
      /\ \A w \in Wizards : wizard[w].session = "none"
  BY DEF Init, OnboardingInit, Resting, DefaultState
<1> QED
  BY <1>1 DEF Ahead, Reached, AskedFor

LEMMA ServedAhead ==
  ASSUME RequestsOK, EquippedOK, Ahead, NEW h \in Handlers, Serves(h)
  PROVE  Ahead'
<1>f. /\ handler \in [Handlers -> Request] /\ RequestOK(h)
      /\ \A g \in Handlers : handler[g].op \in OnSession => handler[g].session \in Sessions
      /\ \A w \in Wizards : wizard[w].session # "none" => wizard[w].session \in Sessions
  BY DEF RequestsOK, TypeOK, RequestOK, Wizard
<1>s. Served(h) /\ UNCHANGED <<wizard, client, orders>>
  BY ServedMoves DEF Serves
<1>m. \A t \in Sessions : (cleared[t] # "none" => cleared'[t] # "none")
                          /\ (rows[t].payout => rows'[t].payout)
  BY <1>s DEF Served, RowServed
<1>n. \A t : OnlyOrder(t)' <=> OnlyOrder(t)
  BY <1>s DEF OnlyOrder
<1>1. ASSUME NEW w \in Wizards
      PROVE  Reached(w)'
  <2>1. Reached(w) /\ wizard'[w] = wizard[w]
    BY <1>s DEF Ahead
  <2>2. CASE wizard[w].session = "none"
    BY <2>1, <2>2 DEF Reached
  <2>3. CASE wizard[w].session \in Sessions
    BY <2>1, <2>3, <1>m, <1>s DEF Reached, OnlyOrder
  <2> QED
    BY <2>2, <2>3, <1>f
<1>2. ASSUME NEW g \in Handlers, g # h
      PROVE  AskedFor(g)'
  <2>1. AskedFor(g) /\ handler'[g] = handler[g]
    BY <1>2, <1>s DEF Ahead, Served, Kept
  <2>2. CASE handler[g].op \in OnSession
    BY <2>1, <2>2, <1>f, <1>m, <1>s DEF AskedFor, OnlyOrder
  <2>3. CASE handler[g].op \notin OnSession
    BY <2>1, <2>3 DEF AskedFor, OnSession
  <2> QED
    BY <2>2, <2>3
<1>3. AskedFor(h)'
  <2>o. handler'[h].op = handler[h].op
    BY <1>s DEF Served, Kept
  <2>1. CASE handler[h].op \notin OnSession
    BY <2>1, <2>o DEF AskedFor, OnSession
  <2>2. CASE handler[h].op \in OnSession
    <3>1. SameSession(h) /\ handler[h].session \in Sessions /\ AskedFor(h) /\ Equipped(h)
      BY <2>2, <1>f, <1>s DEF Served, Ahead, EquippedOK, OnSession
    <3> SUFFICES ASSUME OnlyOrder(handler[h].session)
                 PROVE  AskedFor(h)'
      BY <3>1, <1>s DEF AskedFor, OnlyOrder, SameSession
    <3>2. handler[h].op \in {"payout", "initiate"} => cleared'[handler[h].session] # "none"
      BY <3>1, <1>m DEF AskedFor
    <3>3. CASE handler[h].op = "identity"
      <4> SUFFICES ASSUME \/ handler'[h].at = "done" /\ handler'[h].reply = "ok"
                          \/ /\ handler'[h].at \in {"read", "write"}
                             /\ handler'[h].target = "PAYOUT_DETAILS_PENDING"
                   PROVE  cleared'[handler[h].session] # "none"
        BY <3>1, <3>3, <2>o DEF AskedFor, SameSession
      <4> USE <3>1, <3>3, <1>m, <1>f DEF Goes, Ends, Calls, AskedFor
      <4>1. CASE Read(h)
        BY <4>1, ReadMoves
      <4>2. CASE Write(h)
        BY <4>2, WriteMoves DEF Targets
      <4>3. CASE GetSession(h)
        BY <4>3, GetMoves
      <4>4. CASE FindGuest(h) \/ InsertGuest(h)
        BY <4>4, GuestMoves
      <4>5. CASE LinkGuest(h)
        BY <4>5, LinkMoves
      <4>6. CASE RunChecks(h)
        BY <4>6, CheckMoves
      <4>7. CASE CheckLimits(h)
        BY <4>7, LimitMoves, OnboardingAssumption
      <4>8. CASE Crash(h)
        BY <4>8, CrashMoves
      <4> QED
        BY <4>1, <4>2, <4>3, <4>4, <4>5, <4>6, <4>7, <4>8
           DEF Serves, HandlerStep, GetRate, InsertQuote, ValidateQuote, ExpireQuote, ConfirmQuote,
               CreateSession, GetStatus, InsertPayout, InitiatePush, At
    <3>4. CASE handler[h].op = "payout"
      <4>1. ASSUME handler'[h].at = "done", handler'[h].reply = "ok"
            PROVE  rows'[handler[h].session].payout
        <5> USE <3>1, <3>4, <4>1 DEF Goes, Ends, Calls
        <5>1. CASE Read(h)
          BY <5>1, ReadMoves
        <5>2. CASE Write(h)
          <6>1. handler[h].at = "write" /\ handler[h].target = "PAYMENT_PENDING"
            BY <5>2, WriteMoves DEF Targets
          <6>2. rows[handler[h].session].payout
            BY <6>1 DEF Equipped
          <6> QED
            BY <6>2, <1>m
        <5>3. CASE GetSession(h)
          BY <5>3, GetMoves
        <5>4. CASE InsertPayout(h)
          BY <5>4, PayoutMoves
        <5>5. CASE Crash(h)
          BY <5>5, CrashMoves
        <5> QED
          BY <5>1, <5>2, <5>3, <5>4, <5>5
             DEF Serves, HandlerStep, GetRate, InsertQuote, ValidateQuote, ExpireQuote,
                 ConfirmQuote, CreateSession, GetStatus, FindGuest, InsertGuest, LinkGuest,
                 RunChecks, CheckLimits, InitiatePush, At
      <4> QED
        BY <3>1, <3>2, <3>4, <4>1, <2>o DEF AskedFor, SameSession
    <3>5. CASE handler[h].op = "initiate"
      BY <3>1, <3>2, <3>5, <2>o DEF AskedFor, SameSession
    <3> QED
      BY <2>2, <3>3, <3>4, <3>5 DEF OnSession
  <2> QED
    BY <2>1, <2>2
<1> QED
  BY <1>1, <1>2, <1>3 DEF Ahead

(* Steps that touch neither the requests nor what is known of an order. *)
LEMMA QuietAhead ==
  ASSUME RequestsOK, Ahead, [Next]_vars, UNCHANGED <<cleared, handler>>,
         \A t \in Sessions : rows'[t].payout = rows[t].payout,
         \A w \in Wizards : \/ Stays(w)
                            \/ wizard'[w].step \notin {"payout", "payment"}
                            \/ /\ wizard[w].step = "payment" /\ wizard'[w].step = "payout"
                               /\ wizard'[w].session = wizard[w].session
  PROVE  Ahead'
<1>o. \A s : OnlyOrder(s)' => OnlyOrder(s)
  BY OrdersGrow
<1>f. /\ \A g \in Handlers : handler[g].op \in OnSession => handler[g].session \in Sessions
      /\ \A w \in Wizards : wizard[w].session # "none" => wizard[w].session \in Sessions
  BY DEF RequestsOK, TypeOK, RequestOK, Wizard
<1>1. ASSUME NEW w \in Wizards
      PROVE  Reached(w)'
  BY <1>o, <1>f DEF Ahead, Reached, Stays
<1>2. ASSUME NEW g \in Handlers
      PROVE  AskedFor(g)'
  BY <1>o, <1>f DEF Ahead, AskedFor, OnSession
<1> QED
  BY <1>1, <1>2 DEF Ahead

LEMMA AnswerAhead ==
  ASSUME RequestsOK, Places, Ahead, [Next]_vars, NEW h \in Handlers, Answer(h)
  PROVE  Ahead'
<1>f. PlacesFacts
  BY FactsOf
<1>o. \A s : OnlyOrder(s)' => OnlyOrder(s)
  BY OrdersGrow
<1>a. PICK w \in Wizards : w = client[h].tab /\ Gone(h) /\ Heard(w, h) /\ w # "none"
  BY AnswerMoves, JourneyAssumption
<1>g. /\ handler'[h].op = "none" /\ \A g \in Handlers : g # h => handler'[g] = handler[g]
      /\ rows' = rows /\ cleared' = cleared
  BY <1>a DEF Gone, Resting
<1>1. ASSUME NEW g \in Handlers
      PROVE  AskedFor(g)'
  <2>1. CASE g = h
    BY <2>1, <1>g DEF AskedFor
  <2>2. CASE g # h
    <3>1. AskedFor(g) /\ handler'[g] = handler[g]
      BY <2>2, <1>g DEF Ahead
    <3> QED
      BY <3>1, <1>g, <1>o DEF AskedFor
  <2> QED
    BY <2>1, <2>2
<1>2. ASSUME NEW v \in Wizards, v # w
      PROVE  Reached(v)'
  <2>1. Reached(v) /\ wizard'[v] = wizard[v]
    BY <1>2, <1>a DEF Ahead, Heard, OnlyTab
  <2> QED
    BY <2>1, <1>g, <1>o DEF Reached
<1>3. Reached(w)'
  <2>1. Reached(w) /\ AskedFor(h)
    BY DEF Ahead
  <2>2. CASE Stays(w)
    BY <2>1, <2>2, <1>g, <1>o DEF Reached, Stays
  <2>3. CASE wizard'[w].step \notin {"payout", "payment"}
    BY <2>3 DEF Reached
  <2>4. CASE /\ handler[h].op \in {"identity", "payout"} /\ handler[h].reply = "ok"
             /\ wizard'[w].session = wizard[w].session
             /\ wizard'[w].step = IF handler[h].op = "identity" THEN "payout" ELSE "payment"
    <3> SUFFICES ASSUME wizard[w].session # "none", OnlyOrder(wizard[w].session)
                 PROVE  Reached(w)'
      BY <2>4, <1>o DEF Reached
    <3>1. handler[h].session = wizard[w].session
      BY <1>f, <1>a, <2>4, OwnOrder DEF OnSession
    <3>2. handler[h].at = "done"
      BY <1>a DEF Gone
    <3> QED
      BY <2>1, <2>4, <3>1, <3>2, <1>g DEF AskedFor, Reached
  <2> QED
    BY <1>a, <2>2, <2>3, <2>4 DEF Heard, Turns
<1> QED
  BY <1>1, <1>2, <1>3 DEF Ahead

LEMMA SentAhead ==
  ASSUME RequestsOK, Places, Ahead, [Next]_vars,
         NEW w \in Wizards, NEW h \in Handlers, Sent(w, h)
  PROVE  Ahead'
<1>s. /\ \A g \in Handlers : g # h => handler'[g] = handler[g]
      /\ UNCHANGED <<rows, cleared, orders>>
      /\ \A v \in Wizards : Stays(v)
      /\ handler'[h].at \in {"rate", "validate", "get"}
  BY DEF Sent, OnlyTab, Stays, FirstLabel
<1>1. ASSUME NEW v \in Wizards
      PROVE  Reached(v)'
  BY <1>s DEF Ahead, Reached, Stays, OnlyOrder
<1>2. ASSUME NEW g \in Handlers
      PROVE  AskedFor(g)'
  <2>1. CASE g # h
    BY <2>1, <1>s DEF Ahead, AskedFor, OnlyOrder
  <2>2. CASE g = h
    <3> SUFFICES ASSUME handler'[h].op \in {"payout", "initiate"}, OnlyOrder(handler'[h].session)
                 PROVE  cleared'[handler'[h].session] # "none"
      BY <2>2, <1>s DEF AskedFor, OnlyOrder
    <3>1. /\ wizard[w].step \in {"payout", "payment"} /\ wizard[w].session \in Sessions
          /\ handler'[h].session = wizard[w].session
      BY DEF Sent, OnSession
    <3>2. Reached(w) /\ wizard[w].session # "none"
      BY <3>1, OnboardingAssumption DEF Ahead
    <3> QED
      BY <3>1, <3>2, <1>s DEF Reached
  <2> QED
    BY <2>1, <2>2
<1> QED
  BY <1>1, <1>2 DEF Ahead

LEMMA NextAhead ==
  ASSUME RequestsOK, EquippedOK, Places, Ahead, [Next]_vars
  PROVE  Ahead'
<1>1. ASSUME NEW q \in Quotes, LapseQuote(q), UNCHANGED <<wizard, client, orders>>
      PROVE  Ahead'
  BY <1>1, QuietAhead DEF LapseQuote, Stays
<1>2. ASSUME NEW s \in Sessions, LapseSession(s) \/ MoveOn(s), UNCHANGED <<wizard, client, orders>>
      PROVE  Ahead'
  <2>1. /\ UNCHANGED <<cleared, handler>>
        /\ \A t \in Sessions : rows'[t].payout = rows[t].payout
    BY <1>2, LapseMoves, MoveOnMoves DEF RowIs
  <2> QED
    BY <1>2, <2>1, QuietAhead DEF Stays
<1>3. ASSUME NEW h \in Handlers, TimeOut(h)
      PROVE  Ahead'
  <2>1. /\ UNCHANGED <<cleared, handler, rows>>
        /\ \A v \in Wizards : Stays(v)
    BY <1>3, TimeOutMoves DEF OnlyTab, Stays, onboarding
  <2> QED
    BY <2>1, QuietAhead
<1>4. ASSUME NEW h \in Handlers, Drop(h)
      PROVE  Ahead'
  <2>1. /\ handler'[h].op = "none" /\ \A g \in Handlers : g # h => handler'[g] = handler[g]
        /\ UNCHANGED <<rows, cleared, wizard, orders>>
    BY <1>4, DropMoves DEF Gone, Resting
  <2>2. \A g \in Handlers : AskedFor(g)'
    BY <2>1 DEF Ahead, AskedFor, OnlyOrder
  <2> QED
    BY <2>1, <2>2 DEF Ahead, Reached, OnlyOrder
<1>5. ASSUME NEW w \in Wizards, Clicked(w)
      PROVE  Ahead'
  <2>1. UNCHANGED <<cleared, handler, rows>>
    BY <1>5 DEF Clicked, onboarding
  <2>2. \A v \in Wizards : v # w => Stays(v)
    BY <1>5 DEF Clicked, OnlyTab, Stays
  <2>3. \/ wizard'[w].step \notin {"payout", "payment"}
        \/ /\ wizard[w].step = "payment" /\ wizard'[w].step = "payout"
           /\ wizard'[w].session = wizard[w].session
        \/ wizard'[w].step = wizard[w].step /\ wizard'[w].session = wizard[w].session
    BY <1>5 DEF Clicked, Turns
  <2>4. CASE wizard'[w].step = wizard[w].step /\ wizard'[w].session = wizard[w].session
    <3>1. \A v \in Wizards : wizard'[v].step = wizard[v].step /\ wizard'[v].session = wizard[v].session
      BY <2>2, <2>4 DEF Stays
    <3>2. \A s : OnlyOrder(s)' => OnlyOrder(s)
      BY OrdersGrow
    <3> QED
      BY <2>1, <3>1, <3>2 DEF Ahead, Reached, AskedFor
  <2>5. CASE \/ wizard'[w].step \notin {"payout", "payment"}
             \/ /\ wizard[w].step = "payment" /\ wizard'[w].step = "payout"
                /\ wizard'[w].session = wizard[w].session
    BY <2>1, <2>2, <2>5, QuietAhead
  <2> QED
    BY <2>3, <2>4, <2>5
<1>6. CASE UNCHANGED vars
  BY <1>6, QuietAhead DEF vars, onboarding, Stays
<1> QED
  BY <1>1, <1>2, <1>3, <1>4, <1>5, <1>6, NextMoves, ServedAhead, AnswerAhead, SentAhead DEF Moves

-----------------------------------------------------------------------------
(* One identity at a time. *)

LEMMA InitScreens == Init => Screens
<1> SUFFICES ASSUME Init
             PROVE  Screenings
  BY DEF Screens
<1>1. /\ \A h \in Handlers : handler[h].op = "none" /\ handler[h].at = "idle"
      /\ \A s \in Sessions : cleared[s] = "none" /\ rows[s].state = "none"
  BY DEF Init, OnboardingInit, Resting
<1> QED
  BY <1>1 DEF Screenings, Waited, Screening, Screened, ScreenedIsLinked, Payable

LEMMA ServedScreening ==
  ASSUME RequestsOK, Screenings, NEW h \in Handlers, Serves(h), handler[h].op = "identity"
  PROVE  Screening(h)'
<1>f. /\ handler \in [Handlers -> Request] /\ RequestOK(h)
      /\ handler[h].session \in Sessions /\ handler[h].id \in Identities
      /\ Screening(h) /\ Screened(handler[h].session)
  BY DEF RequestsOK, TypeOK, RequestOK, Screenings, OnSession
<1>s. /\ Served(h) /\ UNCHANGED <<wizard, client, orders>>
      /\ SameSession(h) /\ handler'[h].op = "identity" /\ handler'[h].id = handler[h].id
  BY ServedMoves DEF Serves, Served, Kept
<1> SUFFICES ASSUME OnlyOrder(handler[h].session)
             PROVE  Screening(h)'
  BY <1>s DEF Screening, OnlyOrder, SameSession
(* What the conjuncts of Screening say of the label alone. *)
<1>g. ASSUME cleared'[handler[h].session] = "none"
      PROVE  /\ \A g \in Handlers : handler'[g].op = "identity"
                                    /\ handler'[g].session = handler[h].session => g = h
             /\ \A w \in Wizards : wizard'[w].session = handler[h].session
                                   => wizard'[w].loading = h \/ wizard'[w].step \in Away
  <2>1. cleared[handler[h].session] = "none"
    BY <1>f, <1>g, <1>s DEF Served, RowServed
  <2>2. \A g \in Handlers : handler'[g].op = handler[g].op /\ handler'[g].session = handler[g].session
    BY <1>s DEF Served, Kept, SameSession
  <2> QED
    BY <1>f, <1>s, <2>1, <2>2 DEF Screening
<1>p. ASSUME /\ cleared'[handler[h].session] = "none" =>
                  /\ handler'[h].at \in {"checks", "limits"}
                       => rows'[handler[h].session].guest = handler[h].id
                  /\ handler'[h].at \in {"read", "write"} /\ handler'[h].target # "EXPIRED"
                       => rows'[handler[h].session].guest = handler[h].id,
             cleared'[handler[h].session] # "none" =>
                  /\ handler'[h].at \in {"get", "read", "write", "done"}
                  /\ handler'[h].at \in {"read", "write"}
                       => handler'[h].target \in {"EXPIRED", "PAYOUT_DETAILS_PENDING"},
             handler'[h].at \in {"checks", "limits"}
                  => rows'[handler[h].session].state # "IDENTITY_PENDING",
             handler'[h].at \in {"read", "write"}
               /\ handler'[h].target \in {"FAILED", "MANUAL_REVIEW", "PAYOUT_DETAILS_PENDING"}
                  => rows'[handler[h].session].state # "IDENTITY_PENDING"
      PROVE  Screening(h)'
  BY <1>g, <1>p, <1>s DEF Screening, SameSession
<1>c. handler[h].at \in {"find", "insert", "link", "checks", "limits"}
      \/ (handler[h].at \in {"read", "write"}
          /\ handler[h].target \notin {"EXPIRED", "PAYOUT_DETAILS_PENDING"})
        => cleared[handler[h].session] = "none"
  BY <1>f DEF Screening
<1>d. /\ handler[h].at \in {"checks", "limits"} =>
           rows[handler[h].session].state # "IDENTITY_PENDING"
           /\ rows[handler[h].session].guest = handler[h].id
      /\ handler[h].at \in {"read", "write"} /\ handler[h].target # "EXPIRED"
           /\ cleared[handler[h].session] = "none" => rows[handler[h].session].guest = handler[h].id
      /\ handler[h].at \in {"read", "write"}
           /\ handler[h].target \in {"FAILED", "MANUAL_REVIEW", "PAYOUT_DETAILS_PENDING"}
           => rows[handler[h].session].state # "IDENTITY_PENDING"
  BY <1>f, <1>c DEF Screening
<1>e. ASSUME handler'[h].at = "done"
      PROVE  Screening(h)'
  BY <1>e, <1>p
<1> USE DEF Goes, Ends, Calls
<1>1. CASE Read(h)
  <2>1. UNCHANGED <<rows, cleared>> /\ handler[h].at = "read"
    BY <1>1, ReadMoves
  <2>2. CASE handler'[h].at = "write" /\ handler'[h].target = handler[h].target
    BY <2>1, <2>2, <1>c, <1>d, <1>p
  <2> QED
    BY <1>1, <2>2, <1>e, ReadMoves
<1>2. CASE Write(h)
  <2>1. CASE handler'[h].at = "checks" /\ handler[h].target = "COMPLIANCE_PENDING"
    <3>1. /\ cleared' = cleared /\ handler[h].at = "write"
          /\ rows'[handler[h].session].state = "COMPLIANCE_PENDING"
          /\ rows'[handler[h].session].guest = rows[handler[h].session].guest
      BY <1>2, <2>1, WriteMoves DEF RowIs
    <3>2. cleared[handler[h].session] = "none" /\ rows[handler[h].session].guest = handler[h].id
      BY <2>1, <3>1, <1>c, <1>d
    <3> QED
      BY <2>1, <3>1, <3>2, <1>p
  <2> QED
    BY <1>2, <2>1, <1>e, WriteMoves
<1>3. CASE GetSession(h)
  <2>1. UNCHANGED <<rows, cleared>>
    BY <1>3, GetMoves
  <2>2. CASE handler'[h].at = "read" /\ handler'[h].target = "EXPIRED"
    BY <2>1, <2>2, <1>p
  <2>3. CASE handler'[h].at = "find" /\ rows[handler[h].session].state = "IDENTITY_PENDING"
    <3>1. cleared[handler[h].session] = "none"
      BY <2>3, <1>f DEF Screened
    <3> QED
      BY <2>1, <2>3, <3>1, <1>p
  <2> QED
    BY <1>3, <2>2, <2>3, <1>e, GetMoves
<1>4. CASE FindGuest(h) \/ InsertGuest(h)
  BY <1>4, <1>c, <1>e, <1>p, GuestMoves
<1>5. CASE LinkGuest(h)
  BY <1>5, <1>c, <1>p, LinkMoves DEF RowIs
<1>6. CASE RunChecks(h)
  BY <1>6, <1>c, <1>d, <1>p, CheckMoves
<1>7. CASE CheckLimits(h)
  <2>1. CASE handler'[h].at = "read" /\ handler'[h].target = "PAYOUT_DETAILS_PENDING"
             /\ cleared'[handler[h].session] = handler[h].id
    <3>1. rows' = rows /\ cleared'[handler[h].session] # "none"
      BY <1>7, <2>1, <1>f, LimitMoves, OnboardingAssumption
    <3>2. rows[handler[h].session].state # "IDENTITY_PENDING"
      BY <1>7, <1>d, LimitMoves
    <3> QED
      BY <2>1, <3>1, <3>2, <1>p
  <2> QED
    BY <1>7, <2>1, <1>e, LimitMoves
<1>8. CASE Crash(h)
  BY <1>8, <1>e, CrashMoves
<1> QED
  BY <1>1, <1>2, <1>3, <1>4, <1>5, <1>6, <1>7, <1>8
     DEF Serves, HandlerStep, GetRate, InsertQuote, ValidateQuote, ExpireQuote, ConfirmQuote,
         CreateSession, GetStatus, InsertPayout, InitiatePush, At

(* A request that is not an identity leaves the screening of others alone. *)
LEMMA OtherScreening ==
  ASSUME RequestsOK, Places, Screenings, NEW h \in Handlers, Serves(h),
         NEW g \in Handlers, g # h
  PROVE  Screening(g)'
<1>f. PlacesFacts
  BY FactsOf
<1>s. /\ Served(h) /\ UNCHANGED <<wizard, client, orders>>
      /\ handler'[g] = handler[g] /\ Screening(g)
  BY ServedMoves DEF Serves, Served, Kept, Screenings
<1> SUFFICES ASSUME handler[g].op = "identity", OnlyOrder(handler[g].session)
             PROVE  Screening(g)'
  BY <1>s DEF Screening, OnlyOrder
<1>1. handler[g].session \in Sessions
  BY <1>f DEF PlacesFacts, RequestOK, OnSession
<1>2. \A k \in Handlers : handler'[k].op = "identity" /\ handler'[k].session = handler[g].session
        => handler[k].op = "identity" /\ handler[k].session = handler[g].session
  BY <1>s DEF Served, Kept, SameSession
<1>3. ASSUME cleared[handler[g].session] = "none"
      PROVE  ~(handler[h].op = "identity" /\ handler[h].session = handler[g].session)
  BY <1>3, <1>s DEF Screening
<1>4. handler[h].op = "identity" => SameSession(h)
  BY <1>s DEF Served
<1>5. cleared[handler[g].session] = "none" =>
        /\ cleared'[handler[g].session] = "none"
        /\ rows'[handler[g].session].guest = rows[handler[g].session].guest
  <2> SUFFICES ASSUME cleared[handler[g].session] = "none"
               PROVE  /\ cleared'[handler[g].session] = "none"
                      /\ rows'[handler[g].session].guest = rows[handler[g].session].guest
    OBVIOUS
  <2>1. CASE handler[h].op = "identity"
    BY <2>1, <1>1, <1>3, <1>4, <1>s DEF Served, RowServed, SameSession
  <2>2. CASE handler[h].op # "identity"
    BY <2>2, <1>1, <1>s DEF Served, RowServed
  <2> QED
    BY <2>1, <2>2
<1>6. rows'[handler[g].session].state = "IDENTITY_PENDING"
        => rows[handler[g].session].state = "IDENTITY_PENDING"
  <2> SUFFICES ASSUME rows'[handler[g].session].state = "IDENTITY_PENDING",
                      rows[handler[g].session].state # "IDENTITY_PENDING"
               PROVE  FALSE
    OBVIOUS
  <2>1. /\ handler[h].at = "write" /\ handler[h].target = "IDENTITY_PENDING"
        /\ handler'[h].session = handler[g].session
    BY <1>1, <1>s DEF Served, RowServed
  <2>2. handler[h].op = "session" /\ handler[h].session = handler[g].session
    <3>1. RequestOK(h) /\ handler[h].op \in Operation \cup {"none"}
      BY <1>f DEF PlacesFacts, Request
    <3>2. handler[h].op = "session"
      BY <2>1, <3>1 DEF RequestOK, Targets, Operation
    <3> QED
      BY <2>1, <3>2, <1>s DEF Served, SameSession
  <2>3. Fresh(handler[h].session)
    BY <1>f, <1>1, <2>2, OnboardingAssumption DEF PlacesFacts, Creating
  <2> QED
    BY <2>2, <2>3 DEF Fresh, OnSession
<1>7. ASSUME cleared'[handler[g].session] = "none"
      PROVE  cleared[handler[g].session] = "none"
  BY <1>7, <1>1, <1>s DEF Served, RowServed
<1>8. cleared'[handler[g].session] # "none" => cleared[handler[g].session] # "none"
  BY <1>5
<1> QED
  BY <1>s, <1>2, <1>5, <1>6, <1>7, <1>8 DEF Screening

LEMMA ServedScreened ==
  ASSUME RequestsOK, EquippedOK, Places, Ahead, Screenings, NEW h \in Handlers, Serves(h),
         NEW t \in Sessions
  PROVE  Screened(t)'
<1>f. PlacesFacts /\ Screened(t) /\ Screening(h) /\ AskedFor(h)
  BY FactsOf DEF Screenings, Ahead
<1>r. RequestOK(h) /\ handler[h].op \in Operation \cup {"none"}
  BY <1>f DEF PlacesFacts, Request
<1>s. Served(h) /\ UNCHANGED <<wizard, client, orders>>
  BY ServedMoves DEF Serves
<1> SUFFICES ASSUME OnlyOrder(t)
             PROVE  Screened(t)'
  BY <1>s DEF Screened, OnlyOrder
<1>k. ASSUME rows'[t].guest = rows[t].guest, cleared'[t] = cleared[t],
             \/ rows'[t].state = rows[t].state
             \/ rows'[t].state \notin Payable \cup {"PAYOUT_DETAILS_PENDING", "IDENTITY_PENDING"}
             \/ cleared[t] # "none" /\ rows'[t].state # "IDENTITY_PENDING"
             \/ cleared[t] = "none" /\ rows'[t].state \notin Payable \cup {"PAYOUT_DETAILS_PENDING"}
      PROVE  Screened(t)'
  BY <1>f, <1>k DEF Screened, ScreenedIsLinked
<1>1. CASE t # handler'[h].session \/ handler[h].op \notin OnSession \cup {"session"}
  BY <1>1, <1>s, <1>k DEF Served, RowServed
<1>2. CASE t = handler'[h].session /\ handler[h].op = "session"
  <2>1. cleared[t] = "none"
    <3>1. CASE SameSession(h)
      BY <3>1, <1>2, <1>f, OnboardingAssumption DEF SameSession, PlacesFacts, Creating, Fresh
    <3>2. CASE ~SameSession(h)
      BY <3>2, <1>2, <1>s, <1>f DEF Served, PlacesFacts, Unborn, Fresh
    <3> QED
      BY <3>1, <3>2
  <2>2. cleared'[t] = cleared[t] /\ rows'[t].guest = rows[t].guest
    BY <1>2, <1>s DEF Served, RowServed
  <2>3. rows'[t].state = rows[t].state \/ rows'[t].state \in {"QUOTE_CONFIRMED", "IDENTITY_PENDING"}
    BY <1>2, <1>r, <1>s DEF Served, RowServed, RequestOK, Targets
  <2> QED
    BY <2>1, <2>2, <2>3, <1>k DEF Payable
<1>3. CASE t = handler'[h].session /\ handler[h].op \in {"payout", "initiate"}
  <2>1. handler[h].session = t
    BY <1>3, <1>s DEF Served, SameSession
  <2>2. cleared[t] # "none"
    BY <1>3, <1>f, <2>1 DEF AskedFor
  <2>3. cleared'[t] = cleared[t] /\ rows'[t].guest = rows[t].guest
    BY <1>3, <1>s DEF Served, RowServed
  <2>4. rows'[t].state = rows[t].state \/ rows'[t].state \in {"EXPIRED", "PAYMENT_PENDING"}
         \/ (rows[t].state = "none" /\ handler[h].at = "create")
    BY <1>3, <1>r, <1>s DEF Served, RowServed, RequestOK, Targets
  <2>5. handler[h].at # "create"
    BY <1>3, <1>r DEF RequestOK, Labels
  <2> QED
    BY <2>2, <2>3, <2>4, <2>5, <1>k
<1>4. CASE t = handler'[h].session /\ handler[h].op = "identity"
  <2>1. handler[h].session = t
    BY <1>4, <1>s DEF Served, SameSession
  <2> USE DEF Goes, Ends, Calls
  <2>2. CASE Write(h)
    <3>1. /\ cleared' = cleared /\ rows'[t].guest = rows[t].guest
          /\ rows'[t].state = handler[h].target /\ handler[h].at = "write"
          /\ handler[h].target \in Targets("identity")
      BY <2>1, <2>2, <1>4, WriteMoves DEF RowIs
    <3>2. CASE handler[h].target = "PAYOUT_DETAILS_PENDING"
      <4>1. cleared[t] # "none"
        BY <3>1, <3>2, <2>1, <1>4, <1>f DEF AskedFor
      <4> QED
        BY <3>1, <3>2, <4>1, <1>k
    <3>3. CASE handler[h].target \in {"EXPIRED", "COMPLIANCE_PENDING", "FAILED", "MANUAL_REVIEW"}
      BY <3>1, <3>3, <1>k DEF Payable
    <3> QED
      BY <3>1, <3>2, <3>3 DEF Targets
  <2>3. CASE LinkGuest(h)
    <3>1. cleared[t] = "none"
      BY <2>1, <2>3, <1>4, <1>f, LinkMoves DEF Screening
    <3>2. cleared' = cleared /\ rows'[t].state = rows[t].state
      BY <2>1, <2>3, LinkMoves DEF RowIs
    <3> QED
      BY <3>1, <3>2, <1>f DEF Screened, ScreenedIsLinked
  <2>4. CASE CheckLimits(h)
    <3>1. rows' = rows /\ handler[h].at = "limits" /\ cleared'[t] \in {cleared[t], handler[h].id}
      BY <2>1, <2>4, LimitMoves
    <3>2. cleared[t] = "none" /\ rows[t].guest = handler[h].id /\ rows[t].state # "IDENTITY_PENDING"
      BY <3>1, <2>1, <1>4, <1>f DEF Screening
    <3>3. handler[h].id # "none"
      BY <1>4, <1>r, OnboardingAssumption DEF RequestOK
    <3> QED
      BY <3>1, <3>2, <3>3, <1>f DEF Screened, ScreenedIsLinked
  <2>5. CASE Read(h) \/ GetSession(h) \/ FindGuest(h) \/ InsertGuest(h) \/ RunChecks(h) \/ Crash(h)
    <3>1. rows' = rows /\ cleared' = cleared
      BY <2>5, ReadMoves, GetMoves, GuestMoves, CheckMoves, CrashMoves
    <3> QED
      BY <3>1, <1>k
  <2> QED
    BY <1>4, <2>2, <2>3, <2>4, <2>5
       DEF Serves, HandlerStep, GetRate, InsertQuote, ValidateQuote, ExpireQuote, ConfirmQuote,
           CreateSession, GetStatus, InsertPayout, InitiatePush, At
<1> QED
  BY <1>1, <1>2, <1>3, <1>4 DEF OnSession

LEMMA ServedScreens ==
  ASSUME RequestsOK, EquippedOK, Places, Ahead, Screenings, NEW h \in Handlers, Serves(h)
  PROVE  Screenings'
<1>s. Served(h) /\ UNCHANGED <<wizard, client, orders>>
  BY ServedMoves DEF Serves
<1>1. ASSUME NEW g \in Handlers
      PROVE  Waited(g)'
  BY <1>s DEF Served, Kept, Screenings, Waited
<1>2. ASSUME NEW g \in Handlers
      PROVE  Screening(g)'
  <2>1. handler'[h].op = handler[h].op
    BY <1>s DEF Served, Kept
  <2>2. CASE g = h /\ handler[h].op = "identity"
    BY <2>2, ServedScreening
  <2>3. CASE g = h /\ handler[h].op # "identity"
    BY <2>1, <2>3 DEF Screening
  <2>4. CASE g # h
    BY <2>4, OtherScreening
  <2> QED
    BY <2>2, <2>3, <2>4
<1> QED
  BY <1>1, <1>2, ServedScreened DEF Screenings

(* No other request is at work on the order of a tab that can send one. *)
LEMMA NotScreening ==
  ASSUME RequestsOK, Screenings, NEW w \in Wizards, NEW g \in Handlers,
         wizard[w].loading # g, wizard[w].step \notin Away,
         wizard[w].session = handler[g].session, handler[g].op = "identity",
         OnlyOrder(handler[g].session)
  PROVE  cleared[handler[g].session] # "none"
  BY DEF Screenings, Screening

LEMMA AnswerScreens ==
  ASSUME RequestsOK, Places, Ahead, Screenings, [Next]_vars, NEW h \in Handlers, Answer(h)
  PROVE  Screenings'
<1>f. PlacesFacts
  BY FactsOf
<1>o. \A s : OnlyOrder(s)' => OnlyOrder(s)
  BY OrdersGrow
<1>a. PICK w \in Wizards : w = client[h].tab /\ Gone(h) /\ Heard(w, h) /\ w # "none"
  BY AnswerMoves, JourneyAssumption
<1>g. /\ handler'[h].op = "none" /\ handler'[h].at = "idle" /\ rows' = rows /\ cleared' = cleared
      /\ \A g \in Handlers : g # h => handler'[g] = handler[g] /\ client'[g] = client[g]
  BY <1>a DEF Gone, Resting
<1>1. ASSUME NEW g \in Handlers
      PROVE  Waited(g)'
  BY <1>g DEF Screenings, Waited
<1>2. ASSUME NEW s \in Sessions
      PROVE  Screened(s)'
  BY <1>g, <1>o DEF Screenings, Screened, ScreenedIsLinked
<1>3. ASSUME NEW g \in Handlers
      PROVE  Screening(g)'
  <2>1. CASE g = h
    BY <2>1, <1>g DEF Screening
  <2>2. CASE g # h
    <3>1. Screening(g) /\ handler'[g] = handler[g]
      BY <2>2, <1>g DEF Screenings
    <3> SUFFICES ASSUME handler[g].op = "identity", OnlyOrder(handler[g].session)
                 PROVE  Screening(g)'
      BY <3>1, <1>o DEF Screening
    <3>2. handler[g].session \in Sessions
      BY <1>f DEF PlacesFacts, RequestOK, OnSession
    <3>3. ASSUME cleared[handler[g].session] = "none", NEW v \in Wizards,
                 wizard'[v].session = handler[g].session
          PROVE  wizard'[v].loading = g \/ wizard'[v].step \in Away
      <4>1. wizard[v].session = handler[g].session => wizard[v].loading = g \/ wizard[v].step \in Away
        BY <3>1, <3>3 DEF Screening
      <4>2. CASE v # w
        BY <4>1, <4>2, <3>3, <1>a DEF Heard, OnlyTab
      <4>3. CASE v = w
        <5>1. CASE Stays(w) /\ \/ wizard'[w].loading = wizard[w].loading
                               \/ wizard[w].loading = h /\ wizard'[w].loading = "none"
          BY <5>1, <4>1, <4>3, <3>3, <2>2 DEF Stays
        <5>2. CASE handler[h].op = "session" /\ Turns(w, handler[h].session, "identity")
          <6>1. handler[h].session = handler[g].session
            BY <5>2, <4>3, <3>3 DEF Turns
          <6>2. Fresh(handler[h].session)
            BY <5>2, <6>1, <3>2, <1>f, OnboardingAssumption DEF PlacesFacts, Creating
          <6> QED
            BY <6>1, <6>2 DEF Fresh, OnSession
        <5>3. CASE /\ handler[h].op \in {"identity", "payout"}
                   /\ wizard'[w].session = wizard[w].session
          <6>1. handler[h].session = handler[g].session
            BY <5>3, <4>3, <3>2, <3>3, <1>a, <1>f, OwnOrder, OnboardingAssumption DEF OnSession
          <6>2. CASE handler[h].op = "identity"
            BY <6>1, <6>2, <3>1, <3>3, <2>2 DEF Screening
          <6>3. CASE handler[h].op = "payout"
            BY <6>1, <6>3, <3>3 DEF Ahead, AskedFor
          <6> QED
            BY <5>3, <6>2, <6>3
        <5>4. CASE wizard'[w].step \in Away
          BY <5>4, <4>3
        <5> QED
          BY <1>a, <5>1, <5>2, <5>3, <5>4 DEF Heard, Turns, Away
      <4> QED
        BY <4>2, <4>3
    <3>4. \A k \in Handlers : handler'[k].op = "identity" => handler'[k] = handler[k]
      BY <1>g
    <3> QED
      BY <3>1, <3>3, <3>4, <1>g DEF Screening
  <2> QED
    BY <2>1, <2>2
<1> QED
  BY <1>1, <1>2, <1>3 DEF Screenings

(* Another tab that shows the order of a tab that can send only follows it. *)
LEMMA OthersFollow ==
  ASSUME PlacesFacts, NEW w \in Wizards, NEW v \in Wizards, v # w,
         wizard[w].session \in Sessions, wizard[w].step \notin {"processing", "result"},
         wizard[v].session = wizard[w].session
  PROVE  wizard[v].step \in Away /\ wizard[w].session \in orders[w]
<1>1. TabOK(w) /\ TabOK(v) /\ wizard[w].session # "none"
  BY OnboardingAssumption DEF PlacesFacts
<1>2. wizard[w].session \in orders[w]
  BY <1>1 DEF TabOK, Following
<1>3. wizard[v].session \notin orders[v]
  BY <1>2 DEF PlacesFacts
<1> QED
  BY <1>1, <1>2, <1>3 DEF TabOK, Following, Away

LEMMA SentScreens ==
  ASSUME RequestsOK, Places, Screenings, NEW w \in Wizards, NEW h \in Handlers, Sent(w, h)
  PROVE  Screenings'
<1>f. PlacesFacts
  BY FactsOf
<1>s. /\ \A g \in Handlers : g # h => handler'[g] = handler[g] /\ client'[g] = client[g]
      /\ client'[h].tab = w /\ w # "none" /\ UNCHANGED <<rows, cleared, orders>>
      /\ OnlyTab(w) /\ Stays(w) /\ handler'[h].at \in {"rate", "validate", "get"}
      /\ handler'[h].op = "identity" => handler'[h].at = "get"
  BY JourneyAssumption DEF Sent, FirstLabel
<1>o. \/ wizard'[w] = wizard[w] /\ handler'[h].op # "identity"
      \/ wizard[w].step \in Away /\ handler'[h].op # "identity"
      \/ /\ wizard[w].step \notin Away /\ wizard[w].loading = "none" /\ wizard'[w].loading = h
         /\ wizard[w].session \in Sessions /\ handler'[h].session = wizard[w].session
  BY DEF Sent, OnSession, Away
<1>1. ASSUME NEW g \in Handlers
      PROVE  Waited(g)'
  BY <1>s DEF Screenings, Waited
<1>2. ASSUME NEW s \in Sessions
      PROVE  Screened(s)'
  BY <1>s DEF Screenings, Screened, ScreenedIsLinked, OnlyOrder
<1>3. ASSUME NEW g \in Handlers, handler[g].op = "identity", g # h,
             OnlyOrder(handler[g].session), cleared[handler[g].session] = "none",
             wizard[w].session = handler[g].session
      PROVE  wizard'[w] = wizard[w] \/ wizard[w].step \in Away
  BY <1>3, <1>o, NotScreening, JourneyAssumption
<1>4. ASSUME NEW g \in Handlers, g # h
      PROVE  Screening(g)'
  <2>1. Screening(g) /\ handler'[g] = handler[g]
    BY <1>4, <1>s DEF Screenings
  <2> SUFFICES ASSUME handler[g].op = "identity", OnlyOrder(handler[g].session)
               PROVE  Screening(g)'
    BY <2>1, <1>s DEF Screening, OnlyOrder
  <2>2. ASSUME cleared[handler[g].session] = "none", NEW k \in Handlers,
               handler'[k].op = "identity", handler'[k].session = handler[g].session
        PROVE  k = g
    <3>1. CASE k = h
      <4>1. /\ wizard[w].session = handler[g].session /\ wizard'[w] # wizard[w]
            /\ wizard[w].step \notin Away
        BY <2>2, <3>1, <1>o, JourneyAssumption
      <4> QED
        BY <4>1, <2>2, <1>3, <1>4
    <3>2. CASE k # h
      BY <3>2, <2>1, <2>2, <1>s DEF Screening
    <3> QED
      BY <3>1, <3>2
  <2>3. ASSUME cleared[handler[g].session] = "none", NEW v \in Wizards,
               wizard'[v].session = handler[g].session
        PROVE  wizard'[v].loading = g \/ wizard'[v].step \in Away
    <3>1. wizard[v].session = handler[g].session
      BY <2>3, <1>s DEF OnlyTab, Stays
    <3>2. wizard[v].loading = g \/ wizard[v].step \in Away
      BY <2>1, <2>3, <3>1 DEF Screening
    <3>3. wizard'[v].step = wizard[v].step
      BY <1>s DEF OnlyTab, Stays
    <3>4. wizard'[v] = wizard[v] \/ wizard[v].step \in Away
      BY <3>1, <2>3, <1>3, <1>4, <1>s DEF OnlyTab
    <3> QED
      BY <3>2, <3>3, <3>4
  <2> QED
    BY <2>1, <2>2, <2>3, <1>s DEF Screening
<1>5. Screening(h)'
  <2> SUFFICES ASSUME handler'[h].op = "identity", OnlyOrder(handler'[h].session)
               PROVE  Screening(h)'
    BY <1>s DEF Screening, OnlyOrder
  <2>1. /\ wizard[w].step \notin Away /\ wizard[w].loading = "none" /\ wizard'[w].loading = h
        /\ wizard[w].session \in Sessions /\ handler'[h].session = wizard[w].session
    BY <1>o
  <2>2. ASSUME cleared[handler'[h].session] = "none", NEW k \in Handlers,
               handler'[k].op = "identity", handler'[k].session = handler'[h].session
        PROVE  k = h
    <3> SUFFICES ASSUME k # h PROVE FALSE
      OBVIOUS
    <3>1. /\ handler[k].op = "identity" /\ wizard[w].session = handler[k].session
          /\ OnlyOrder(handler[k].session) /\ cleared[handler[k].session] = "none"
      BY <2>1, <2>2, <1>s
    <3> QED
      BY <3>1, <2>1, NotScreening, JourneyAssumption
  <2>3. ASSUME NEW v \in Wizards, wizard'[v].session = handler'[h].session
        PROVE  wizard'[v].loading = h \/ wizard'[v].step \in Away
    <3>1. CASE v = w
      BY <3>1, <2>1
    <3>2. CASE v # w
      BY <3>2, <2>1, <2>3, <1>s, <1>f, OthersFollow DEF OnlyTab, Away
    <3> QED
      BY <3>1, <3>2
  <2> QED
    BY <2>2, <2>3, <1>s DEF Screening
<1> QED
  BY <1>1, <1>2, <1>4, <1>5 DEF Screenings

LEMMA ClickedScreens ==
  ASSUME RequestsOK, Ahead, Screenings, NEW w \in Wizards, Clicked(w),
         "reload" \notin disturbed'
  PROVE  Screenings'
<1>c. /\ OnlyTab(w) /\ UNCHANGED <<rows, cleared, handler, orders, client>>
      /\ \/ wizard'[w].step \in Away
         \/ /\ wizard'[w].session = wizard[w].session
            /\ wizard[w].step \in {"payout", "payment"}
  BY DEF Clicked, onboarding, Turns, Away
<1>1. ASSUME NEW g \in Handlers
      PROVE  Screening(g)'
  <2>1. Screening(g)
    BY DEF Screenings
  <2> SUFFICES ASSUME handler[g].op = "identity", OnlyOrder(handler[g].session)
               PROVE  Screening(g)'
    BY <2>1, <1>c DEF Screening, OnlyOrder
  <2>2. handler[g].session \in Sessions
    BY DEF RequestsOK, RequestOK, OnSession
  <2>3. ASSUME cleared[handler[g].session] = "none", NEW v \in Wizards,
               wizard'[v].session = handler[g].session
        PROVE  wizard'[v].loading = g \/ wizard'[v].step \in Away
    <3>1. CASE v # w
      BY <3>1, <2>1, <2>3, <1>c DEF Screening, OnlyTab
    <3>2. CASE v = w /\ wizard'[w].session = wizard[w].session
                     /\ wizard[w].step \in {"payout", "payment"}
      <4>1. Reached(w)
        BY DEF Ahead
      <4> QED
        BY <3>2, <4>1, <2>2, <2>3, OnboardingAssumption DEF Reached
    <3> QED
      BY <3>1, <3>2, <1>c
  <2> QED
    BY <2>1, <2>3, <1>c DEF Screening
<1>2. \A g \in Handlers : Waited(g)'
  BY <1>c DEF Screenings, Waited
<1>3. \A s \in Sessions : Screened(s)'
  BY <1>c DEF Screenings, Screened, ScreenedIsLinked, OnlyOrder
<1> QED
  BY <1>1, <1>2, <1>3 DEF Screenings

LEMMA QuietScreens ==
  ASSUME RequestsOK, Screenings, UNCHANGED <<cleared, handler, wizard, client, orders>>,
         \A t \in Sessions :
            /\ rows'[t].guest = rows[t].guest
            /\ \/ rows'[t].state = rows[t].state
               \/ rows[t].state \in Payable /\ rows'[t].state # "IDENTITY_PENDING"
  PROVE  Screenings'
<1>1. ASSUME NEW g \in Handlers
      PROVE  Screening(g)'
  <2>1. handler[g].op = "identity" => handler[g].session \in Sessions
    BY DEF RequestsOK, RequestOK, OnSession
  <2>2. Screening(g)
    BY DEF Screenings
  <2> QED
    BY <2>1, <2>2 DEF Screening, OnlyOrder
<1>2. ASSUME NEW s \in Sessions
      PROVE  Screened(s)'
  BY DEF Screenings, Screened, ScreenedIsLinked, OnlyOrder, Payable
<1>3. \A g \in Handlers : Waited(g)'
  BY DEF Screenings, Waited
<1> QED
  BY <1>1, <1>2, <1>3 DEF Screenings

LEMMA NextScreens ==
  ASSUME RequestsOK, EquippedOK, Places, Ahead, Screens, [Next]_vars
  PROVE  Screens'
<1> SUFFICES ASSUME Undisturbed'
             PROVE  Screenings'
  BY DEF Screens
<1>u. Screenings /\ "reload" \notin disturbed' /\ "timeout" \notin disturbed'
  <2>1. disturbed \subseteq disturbed'
    BY DisturbedGrows DEF RequestsOK, TypeOK
  <2> QED
    BY <2>1 DEF Screens, Undisturbed
<1>1. ASSUME NEW q \in Quotes, LapseQuote(q), UNCHANGED <<wizard, client, orders>>
      PROVE  Screenings'
  BY <1>1, <1>u, QuietScreens DEF LapseQuote
<1>2. ASSUME NEW s \in Sessions, LapseSession(s) \/ MoveOn(s), UNCHANGED <<wizard, client, orders>>
      PROVE  Screenings'
  <2>1. /\ UNCHANGED <<cleared, handler>>
        /\ \A t \in Sessions :
            /\ rows'[t].guest = rows[t].guest
            /\ \/ rows'[t].state = rows[t].state
               \/ rows[t].state \in Payable /\ rows'[t].state # "IDENTITY_PENDING"
    BY <1>2, LapseMoves, MoveOnMoves DEF RowIs, Payable
  <2> QED
    BY <1>2, <1>u, <2>1, QuietScreens
<1>3. ASSUME NEW h \in Handlers, TimeOut(h)
      PROVE  Screenings'
  BY <1>3, <1>u, TimeOutMoves
<1>4. ASSUME NEW h \in Handlers, Drop(h)
      PROVE  Screenings'
  <2>1. Waited(h)
    BY <1>u DEF Screenings
  <2> QED
    BY <1>4, <2>1 DEF Drop, Waited
<1>5. CASE UNCHANGED vars
  BY <1>5, <1>u, QuietScreens DEF vars, onboarding
<1> QED
  BY <1>1, <1>2, <1>3, <1>4, <1>5, <1>u, NextMoves, ServedScreens, AnswerScreens, SentScreens,
     ClickedScreens DEF Moves

Journeys == RequestsOK /\ EquippedOK /\ Places /\ Ahead /\ Screens

LEMMA JourneysHold == Spec => []Journeys
<1>1. Init => Journeys
  BY InitRequests, InitEquipped, InitPlaces, InitAhead, InitScreens DEF Journeys
<1>2. Journeys /\ [Next]_vars => Journeys'
  BY NextRequests, NextEquipped, NextPlaces, NextAhead, NextScreens DEF Journeys
<1> QED
  BY <1>1, <1>2, PTL DEF Spec

(* With no reload and no lost answer, an order belongs to the guest whose    *)
(* document passed the checks for it, whatever was clicked and sent again:  *)
(* a tab that waits for its identity sends nothing else on the order, and a  *)
(* tab past it can only come back to an identity the server refuses.        *)
THEOREM TheScreenedGuest == Spec => []ScreenedIfUndisturbed
<1>1. Journeys => ScreenedIfUndisturbed
  BY DEF Journeys, Screens, Screenings, Screened, ScreenedIfUndisturbed
<1> QED
  BY <1>1, JourneysHold, PTL

-----------------------------------------------------------------------------
(* One request at a time. *)

LEMMA InitOrderly == Init => Orderly
<1> SUFFICES ASSUME Init
             PROVE  Orderings
  BY DEF Orderly
<1>1. /\ \A h \in Handlers : handler[h].op = "none"
      /\ \A w \in Wizards : wizard[w].final = "none"
  BY DEF Init, OnboardingInit, Resting, DefaultState
<1> QED
  BY <1>1 DEF Orderings, Alone, Acting, Told, Shown, OnSession

(* A request that is about to write is alone, before the payment. *)
LEMMA StatesKept ==
  ASSUME RequestsOK, Orderings, NEW h \in Handlers, Serves(h), NEW t \in Sessions,
         OnlyOrder(t), rows[t].state \in PostPaymentStates
  PROVE  rows'[t].state = rows[t].state
<1>1. Served(h) /\ Alone(h) /\ RequestOK(h) /\ handler[h] \in Request
  BY ServedMoves DEF Serves, Orderings, RequestsOK
<1> SUFFICES ASSUME rows'[t].state # rows[t].state
             PROVE  FALSE
  OBVIOUS
<1>2. handler[h].at = "write" /\ t = handler'[h].session
  BY <1>1 DEF Served, RowServed, PostPaymentStates
<1>3. handler[h].session = t /\ handler[h].op \in OnSession \cup {"session"}
  BY <1>1, <1>2 DEF Served, SameSession, RequestOK, Labels, OnSession, Request, Operation
<1> QED
  BY <1>1, <1>2, <1>3, OnboardingAssumption DEF Alone, Acting

LEMMA ServedAlone ==
  ASSUME RequestsOK, Places, Orderings, NEW h \in Handlers, Serves(h), NEW g \in Handlers
  PROVE  Alone(g)'
<1>f. PlacesFacts
  BY FactsOf
<1>s. /\ Served(h) /\ UNCHANGED <<wizard, client, orders>>
      /\ \A k \in Handlers : k # h => handler'[k] = handler[k]
      /\ handler'[h].op = handler[h].op /\ Alone(g)
  BY ServedMoves DEF Serves, Served, Kept, Orderings
<1>t. handler'[g].session # "none" => handler'[g].session \in Sessions
  BY <1>s DEF Served, Kept, Request
<1> SUFFICES ASSUME Acting(g)', OnlyOrder(handler'[g].session)
             PROVE  Alone(g)'
  BY <1>s DEF Alone, OnlyOrder
<1>a. handler'[g].session \in Sessions
  BY <1>t DEF Acting
(* The session that a request makes is nobody's yet. *)
<1>c. ASSUME ~SameSession(h)
      PROVE  \A k \in Handlers : handler[k].op # "status" => handler[k].session # handler'[h].session
  BY <1>c, <1>s, <1>f DEF Served, PlacesFacts, Unborn
<1>1. CASE g # h
  <2>1. handler'[g] = handler[g] /\ Acting(g) /\ handler[g].op # "status"
    BY <1>1, <1>s DEF Acting, OnSession
  <2>2. ASSUME NEW k \in Handlers, Acting(k)', handler'[k].session = handler[g].session
        PROVE  k = g
    <3>1. CASE handler'[k].session = handler[k].session
      BY <3>1, <2>1, <2>2, <1>s DEF Alone, Acting
    <3>2. CASE k = h /\ ~SameSession(h)
      BY <3>2, <2>1, <2>2, <1>c
    <3> QED
      BY <3>1, <3>2, <1>s DEF SameSession
  <2>3. rows'[handler[g].session] = rows[handler[g].session]
    <3> SUFFICES ASSUME rows'[handler[g].session] # rows[handler[g].session]
                 PROVE  FALSE
      OBVIOUS
    <3>1. handler'[h].session = handler[g].session /\ handler[h].op \in OnSession \cup {"session"}
      BY <1>s, <1>a, <2>1 DEF Served, RowServed
    <3>2. Acting(h)'
      BY <3>1, <1>s, <1>a, <2>1, OnboardingAssumption DEF Acting
    <3> QED
      BY <3>1, <3>2, <2>2, <1>1
  <2> QED
    BY <2>1, <2>2, <2>3, <1>s DEF Alone
<1>2. CASE g = h /\ ~SameSession(h)
  <2>1. /\ handler[h].op = "session"
        /\ rows'[handler'[h].session].state = "QUOTE_CONFIRMED"
    BY <1>2, <1>s DEF Served
  <2>2. ASSUME NEW k \in Handlers, Acting(k)', handler'[k].session = handler'[h].session
        PROVE  k = h
    BY <2>2, <1>2, <1>c, <1>s DEF Acting, OnSession
  <2> QED
    BY <1>2, <1>s, <2>1, <2>2 DEF Alone, PostPaymentStates
<1>3. CASE g = h /\ SameSession(h)
  <2>1. Acting(h) /\ handler'[h].session = handler[h].session
    BY <1>3, <1>s DEF Acting, SameSession
  <2>2. \A k \in Handlers : Acting(k)' => Acting(k) /\ handler'[k].session = handler[k].session
    BY <1>3, <1>s DEF Acting, SameSession
  <2>3. handler'[h].at \notin {"get", "push", "done"}
          => rows'[handler[h].session].state \notin PostPaymentStates
    <3>1. CASE Write(h)
      BY <3>1, WriteMoves DEF Ends, Goes, RowIs, PostPaymentStates
    <3>2. CASE GetSession(h)
      BY <3>2, GetMoves DEF Ends, Goes, Calls, PostPaymentStates
    <3>3. CASE ~Write(h) /\ ~GetSession(h)
      <4>1. CASE InitiatePush(h)
        BY <4>1, PushMoves DEF Ends, Goes
      <4>2. CASE Crash(h)
        BY <4>2, CrashMoves DEF Ends, Goes
      <4>3. CASE ~InitiatePush(h) /\ ~Crash(h)
        <5>1. handler[h].at \notin {"get", "push", "done", "write"}
          <6>1. handler[h].op # "status"
            BY <2>1 DEF Acting, OnSession
          <6> QED
            BY <3>3, <4>3, <6>1
               DEF Serves, HandlerStep, GetRate, InsertQuote, ValidateQuote, ExpireQuote,
                   ConfirmQuote, CreateSession, Read, GetStatus, FindGuest, InsertGuest,
                   LinkGuest, RunChecks, CheckLimits, InsertPayout, At
        <5>2. rows[handler[h].session].state \notin PostPaymentStates
          BY <1>s, <1>3, <2>1, <5>1 DEF Alone, OnlyOrder
        <5>3. rows'[handler[h].session].state = rows[handler[h].session].state
              \/ rows'[handler[h].session].state = "QUOTE_CONFIRMED"
          BY <1>s, <1>a, <1>3, <2>1, <5>1 DEF Served, RowServed
        <5> QED
          BY <5>2, <5>3 DEF PostPaymentStates
      <4> QED
        BY <4>1, <4>2, <4>3
    <3> QED
      BY <3>1, <3>2, <3>3
  <2> QED
    BY <1>3, <1>s, <2>1, <2>2, <2>3 DEF Alone
<1> QED
  BY <1>1, <1>2, <1>3

LEMMA ServedOrder ==
  ASSUME RequestsOK, Places, Orderings, NEW h \in Handlers, Serves(h)
  PROVE  Orderings'
<1>s. /\ Served(h) /\ UNCHANGED <<wizard, client, orders>>
      /\ \A k \in Handlers : k # h => handler'[k] = handler[k]
      /\ handler'[h].op = handler[h].op
  BY ServedMoves DEF Serves, Served, Kept
<1>k. \A t \in Sessions : OnlyOrder(t) /\ rows[t].state \in Terminal => rows'[t].state = rows[t].state
  BY StatesKept DEF Terminal, PostPaymentStates
<1>1. ASSUME NEW g \in Handlers
      PROVE  Told(g)'
  <2>1. CASE g # h
    <3>1. Told(g) /\ handler'[g] = handler[g]
      BY <2>1, <1>s DEF Orderings
    <3>2. handler[g].op = "status" => handler[g].session \in Sessions
      BY DEF RequestsOK, RequestOK
    <3> QED
      BY <3>1, <3>2, <1>s, <1>k DEF Told, OnlyOrder
  <2>2. CASE g = h
    <3> SUFFICES ASSUME handler[h].op = "status"
                 PROVE  Told(h)'
      BY <2>2, <1>s DEF Told
    <3>1. GetStatus(h) \/ Crash(h)
      <4>1. handler[h].at \in {"get", "done"}
        BY DEF RequestsOK, RequestOK, Labels
      <4> QED
        BY <4>1 DEF Serves, HandlerStep, GetRate, InsertQuote, ValidateQuote, ExpireQuote,
                 ConfirmQuote, CreateSession, Read, Write, GetSession, FindGuest, InsertGuest,
                 LinkGuest, RunChecks, CheckLimits, InsertPayout, InitiatePush, At
    <3>2. CASE GetStatus(h)
      BY <3>2, StatusMoves DEF Ends, Goes, SameSession, Told
    <3>3. CASE Crash(h)
      BY <3>3, CrashMoves DEF Ends, Goes, Told, Terminal
    <3> QED
      BY <3>1, <3>2, <3>3
  <2> QED
    BY <2>1, <2>2
<1>2. ASSUME NEW w \in Wizards
      PROVE  Shown(w)'
  <2>1. Shown(w) /\ wizard[w] \in Wizard
    BY DEF Orderings, RequestsOK, TypeOK
  <2>2. /\ wizard[w].session # "none" => wizard[w].session \in Sessions
        /\ wizard[w].final # "none" => wizard[w].final \in Terminal
    BY <2>1 DEF Wizard, Terminal
  <2> QED
    BY <2>1, <2>2, <1>s, <1>k DEF Shown, OnlyOrder
<1> QED
  BY <1>1, <1>2, ServedAlone DEF Orderings

LEMMA AnswerOrder ==
  ASSUME RequestsOK, Places, Orderings, [Next]_vars, NEW h \in Handlers, Answer(h)
  PROVE  Orderings'
<1>f. PlacesFacts
  BY FactsOf
<1>o. \A s : OnlyOrder(s)' => OnlyOrder(s)
  BY OrdersGrow
<1>a. PICK w \in Wizards : w = client[h].tab /\ Gone(h) /\ Heard(w, h) /\ w # "none"
  BY AnswerMoves, JourneyAssumption
<1>g. /\ handler'[h].op = "none" /\ rows' = rows /\ handler[h].at = "done"
      /\ \A g \in Handlers : g # h => handler'[g] = handler[g]
  BY <1>a DEF Gone, Resting
<1>1. ASSUME NEW g \in Handlers
      PROVE  Told(g)'
  BY <1>g, <1>o DEF Orderings, Told
<1>2. ASSUME NEW g \in Handlers
      PROVE  Alone(g)'
  <2>1. CASE g = h
    BY <2>1, <1>g DEF Alone, Acting, OnSession
  <2>2. CASE g # h
    <3>1. Alone(g) /\ handler'[g] = handler[g]
      BY <2>2, <1>g DEF Orderings
    <3> SUFFICES ASSUME Acting(g), OnlyOrder(handler[g].session)
                 PROVE  Alone(g)'
      BY <3>1, <1>o DEF Alone, Acting
    <3>2. handler[g].session \in Sessions /\ handler[g].session # "none"
      BY <1>f DEF PlacesFacts, Acting, RequestOK
    <3>3. ASSUME handler[g].op # "session", NEW v \in Wizards,
                 wizard'[v].session = handler[g].session
          PROVE  wizard'[v].loading = g \/ wizard'[v].step \in Away
      <4>0. handler[g].op \in OnSession
        BY <3>3 DEF Acting
      <4>1. wizard[v].session = handler[g].session => wizard[v].loading = g \/ wizard[v].step \in Away
        BY <3>1, <3>3 DEF Alone
      <4>2. CASE v # w
        BY <4>1, <4>2, <3>3, <1>a DEF Heard, OnlyTab
      <4>3. CASE v = w
        <5>1. CASE Stays(w) /\ \/ wizard'[w].loading = wizard[w].loading
                               \/ wizard[w].loading = h /\ wizard'[w].loading = "none"
          BY <5>1, <4>1, <4>3, <3>3, <2>2 DEF Stays
        <5>2. CASE handler[h].op = "session" /\ Turns(w, handler[h].session, "identity")
          <6>1. handler[h].session = handler[g].session
            BY <5>2, <4>3, <3>3 DEF Turns
          <6>2. Fresh(handler[h].session)
            BY <5>2, <6>1, <3>2, <1>f DEF PlacesFacts, Creating
          <6> QED
            BY <6>1, <6>2, <4>0 DEF Fresh
        <5>3. CASE /\ handler[h].op \in {"identity", "payout"}
                   /\ wizard'[w].session = wizard[w].session
          <6>1. handler[h].session = handler[g].session
            BY <5>3, <4>3, <3>2, <3>3, <1>a, <1>f, OwnOrder DEF OnSession
          <6>2. Acting(h)
            BY <5>3, <6>1, <3>2 DEF Acting, OnSession
          <6> QED
            BY <6>1, <6>2, <3>1, <2>2 DEF Alone
        <5>4. CASE wizard'[w].step \in Away
          BY <5>4, <4>3
        <5> QED
          BY <1>a, <5>1, <5>2, <5>3, <5>4 DEF Heard, Turns, Away
      <4> QED
        BY <4>2, <4>3
    <3>4. \A k \in Handlers : Acting(k)' => handler'[k] = handler[k]
      BY <1>g DEF Acting, OnSession
    <3>5. \A k \in Handlers : Acting(k)' => Acting(k)
      BY <3>4 DEF Acting
    <3> QED
      BY <3>1, <3>3, <3>4, <3>5, <1>g DEF Alone
  <2> QED
    BY <2>1, <2>2
<1>3. ASSUME NEW v \in Wizards
      PROVE  Shown(v)'
  <2>1. Shown(v) /\ Told(h)
    BY DEF Orderings
  <2>2. CASE wizard'[v].session = wizard[v].session /\ wizard'[v].final = wizard[v].final
    BY <2>1, <2>2, <1>g, <1>o DEF Shown
  <2>3. CASE wizard'[v].final = "none"
    BY <2>3 DEF Shown
  <2>4. CASE /\ handler[h].op = "status" /\ wizard'[v].session = handler[h].session
             /\ handler[h].reply \in Terminal /\ wizard'[v].final = handler[h].reply
    <3>1. handler[h].session # "none"
      BY <2>4, <1>f, OnboardingAssumption DEF PlacesFacts, RequestOK
    <3> QED
      BY <2>1, <2>4, <3>1, <1>g, <1>o DEF Shown, Told
  <2>5. CASE v # w
    BY <2>2, <2>5, <1>a DEF Heard, OnlyTab
  <2>6. CASE v = w
    BY <2>2, <2>3, <2>4, <2>6, <1>a DEF Heard, Turns, Stays
  <2> QED
    BY <2>5, <2>6
<1> QED
  BY <1>1, <1>2, <1>3 DEF Orderings

LEMMA SentOrder ==
  ASSUME RequestsOK, Places, Orderings, NEW w \in Wizards, NEW h \in Handlers, Sent(w, h)
  PROVE  Orderings'
<1>f. PlacesFacts
  BY FactsOf
<1>s. /\ \A g \in Handlers : g # h => handler'[g] = handler[g]
      /\ UNCHANGED <<rows, orders>>
      /\ OnlyTab(w) /\ Stays(w) /\ handler'[h].at # "done"
      /\ handler'[h].op \in OnSession => handler'[h].at = "get"
      /\ \A s : OnlyOrder(s)' = OnlyOrder(s)
  BY DEF Sent, FirstLabel, OnSession, OnlyOrder
<1>o. \/ wizard'[w] = wizard[w] /\ ~Acting(h)'
      \/ wizard[w].step \in Away /\ ~Acting(h)'
      \/ /\ wizard[w].step \notin Away /\ wizard[w].loading = "none" /\ wizard'[w].loading = h
         /\ wizard[w].session \in Sessions /\ handler'[h].session = wizard[w].session
         /\ wizard[w].session # "none" /\ handler'[h].op \in OnSession
  BY OnboardingAssumption DEF Sent, OnSession, Away, Acting
<1>1. \A g \in Handlers : Told(g)'
  BY <1>s DEF Orderings, Told
<1>2. \A v \in Wizards : Shown(v)'
  BY <1>s DEF Orderings, Shown, OnlyTab, Stays
(* The tab that sends has nothing under way. *)
<1>3. ASSUME NEW g \in Handlers, Acting(g), OnlyOrder(handler[g].session),
             wizard[w].session = handler[g].session
      PROVE  wizard'[w] = wizard[w] \/ wizard[w].step \in Away
  <2> SUFFICES ASSUME wizard[w].step \notin Away, wizard[w].loading = "none",
                      wizard[w].session \in Sessions
               PROVE  FALSE
    BY <1>o
  <2>1. Alone(g)
    BY DEF Orderings
  <2>2. CASE handler[g].op = "session"
    <3>1. TabOK(w) /\ ~Following(w)
      BY <1>f DEF PlacesFacts, Following, Away
    <3>2. wizard[w].session \in orders[w] /\ handler[g].session # "none"
      BY <3>1, <1>3, OnboardingAssumption DEF TabOK, Acting
    <3> QED
      BY <3>2, <2>2, <1>3, <1>f DEF PlacesFacts, Creating, Fresh
  <2>3. CASE handler[g].op # "session"
    BY <2>1, <2>3, <1>3, JourneyAssumption DEF Alone
  <2> QED
    BY <2>2, <2>3
<1>4. ASSUME NEW g \in Handlers, g # h
      PROVE  Alone(g)'
  <2>1. Alone(g) /\ handler'[g] = handler[g]
    BY <1>4, <1>s DEF Orderings
  <2> SUFFICES ASSUME Acting(g), OnlyOrder(handler[g].session)
               PROVE  Alone(g)'
    BY <2>1, <1>s DEF Alone, Acting
  <2>2. ASSUME NEW k \in Handlers, Acting(k)', handler'[k].session = handler[g].session
        PROVE  k = g
    <3>1. CASE k = h
      <4>1. /\ wizard[w].session = handler[g].session /\ wizard'[w] # wizard[w]
            /\ wizard[w].step \notin Away
        BY <2>2, <3>1, <1>o, JourneyAssumption
      <4> QED
        BY <4>1, <1>3
    <3>2. CASE k # h
      <4>1. handler'[k] = handler[k] /\ Acting(k)
        BY <3>2, <2>2, <1>s DEF Acting
      <4> QED
        BY <4>1, <2>1, <2>2 DEF Alone
    <3> QED
      BY <3>1, <3>2
  <2>3. ASSUME handler[g].op # "session", NEW v \in Wizards,
               wizard'[v].session = handler[g].session
        PROVE  wizard'[v].loading = g \/ wizard'[v].step \in Away
    <3>1. wizard[v].session = handler[g].session /\ wizard'[v].step = wizard[v].step
      BY <2>3, <1>s DEF OnlyTab, Stays
    <3>2. wizard[v].loading = g \/ wizard[v].step \in Away
      BY <2>1, <2>3, <3>1 DEF Alone
    <3>3. wizard'[v] = wizard[v] \/ wizard[v].step \in Away
      BY <3>1, <1>3, <1>s DEF OnlyTab
    <3> QED
      BY <3>1, <3>2, <3>3
  <2> QED
    BY <2>1, <2>2, <2>3, <1>s DEF Alone
<1>5. Alone(h)'
  <2> SUFFICES ASSUME Acting(h)', OnlyOrder(handler'[h].session)
               PROVE  Alone(h)'
    BY <1>s DEF Alone
  <2>1. /\ wizard[w].step \notin Away /\ wizard[w].loading = "none" /\ wizard'[w].loading = h
        /\ wizard[w].session \in Sessions /\ handler'[h].session = wizard[w].session
        /\ handler'[h].op \in OnSession
    BY <1>o
  <2>2. ASSUME NEW k \in Handlers, Acting(k)', handler'[k].session = handler'[h].session
        PROVE  k = h
    <3> SUFFICES ASSUME k # h PROVE FALSE
      OBVIOUS
    <3>1. Acting(k) /\ handler[k].session = wizard[w].session
      BY <2>1, <2>2, <1>s DEF Acting
    <3>2. wizard'[w] # wizard[w]
      BY <2>1, JourneyAssumption
    <3> QED
      BY <3>1, <3>2, <2>1, <1>3
  <2>3. ASSUME NEW v \in Wizards, wizard'[v].session = handler'[h].session
        PROVE  wizard'[v].loading = h \/ wizard'[v].step \in Away
    <3>1. CASE v = w
      BY <3>1, <2>1
    <3>2. CASE v # w
      BY <3>2, <2>1, <2>3, <1>s, <1>f, OthersFollow DEF OnlyTab, Away
    <3> QED
      BY <3>1, <3>2
  <2>4. handler'[h].at = "get"
    BY <2>1, <1>s
  <2> QED
    BY <2>2, <2>3, <2>4 DEF Alone
<1> QED
  BY <1>1, <1>2, <1>4, <1>5 DEF Orderings

LEMMA ClickedOrder ==
  ASSUME RequestsOK, Orderings, NEW w \in Wizards, Clicked(w),
         "reload" \notin disturbed', "back" \notin disturbed'
  PROVE  Orderings'
<1>c. /\ OnlyTab(w) /\ UNCHANGED <<rows, handler, orders>> /\ wizard'[w].step \in Away
      /\ \/ wizard'[w].final = "none"
         \/ wizard'[w].final = wizard[w].final /\ wizard'[w].session = wizard[w].session
      /\ \A s : OnlyOrder(s)' = OnlyOrder(s)
  BY DEF Clicked, onboarding, Turns, Away, OnlyOrder
<1>1. \A v \in Wizards : Shown(v)'
  BY <1>c DEF Orderings, Shown, OnlyTab
<1>2. \A g \in Handlers : Told(g)'
  BY <1>c DEF Orderings, Told
<1>3. ASSUME NEW g \in Handlers
      PROVE  Alone(g)'
  <2>1. \A k \in Handlers : Acting(k)' <=> Acting(k)
    BY <1>c DEF Acting
  <2>2. Alone(g)
    BY DEF Orderings
  <2> SUFFICES ASSUME Acting(g), OnlyOrder(handler[g].session)
               PROVE  Alone(g)'
    BY <2>1, <1>c DEF Alone
  <2>3. ASSUME NEW v \in Wizards, handler[g].op # "session", wizard'[v].session = handler[g].session
        PROVE  wizard'[v].loading = g \/ wizard'[v].step \in Away
    BY <2>2, <2>3, <1>c DEF Alone, OnlyTab
  <2> QED
    BY <2>1, <2>2, <2>3, <1>c DEF Alone
<1> QED
  BY <1>1, <1>2, <1>3 DEF Orderings

LEMMA QuietOrder ==
  ASSUME RequestsOK, Orderings, UNCHANGED <<handler, wizard, orders>>,
         \A t \in Sessions : \/ rows'[t].state = rows[t].state
                             \/ rows[t].state \in Payable \ {"COMPLETED"}
  PROVE  Orderings'
<1>o. \A s : OnlyOrder(s)' = OnlyOrder(s)
  BY DEF OnlyOrder
<1>1. ASSUME NEW w \in Wizards
      PROVE  Shown(w)'
  <2>1. Shown(w) /\ wizard[w] \in Wizard
    BY DEF Orderings, RequestsOK, TypeOK
  <2>2. /\ wizard[w].session # "none" => wizard[w].session \in Sessions
        /\ wizard[w].final # "none" => wizard[w].final \in {"COMPLETED", "FAILED", "EXPIRED"}
    BY <2>1 DEF Wizard
  <2> QED
    BY <2>1, <2>2, <1>o DEF Shown, Payable
<1>2. ASSUME NEW g \in Handlers
      PROVE  Told(g)'
  <2>1. Told(g) /\ (handler[g].op = "status" => handler[g].session \in Sessions)
    BY DEF Orderings, RequestsOK, RequestOK
  <2> QED
    BY <2>1, <1>o DEF Told, Payable, Terminal
<1>3. ASSUME NEW g \in Handlers
      PROVE  Alone(g)'
  <2>1. /\ Alone(g) /\ \A k \in Handlers : Acting(k)' <=> Acting(k)
        /\ Acting(g) => handler[g].session \in Sessions
    <3>1. handler[g].session \in Sessions \cup {"none"}
      BY DEF RequestsOK, Request
    <3> QED
      BY <3>1 DEF Orderings, Acting
  <2> QED
    BY <2>1, <1>o DEF Alone, Payable, PostPaymentStates
<1> QED
  BY <1>1, <1>2, <1>3 DEF Orderings

LEMMA NextOrderly ==
  ASSUME Journeys, Orderly, [Next]_vars
  PROVE  Orderly'
<1> SUFFICES ASSUME InOrder'
             PROVE  Orderings'
  BY DEF Orderly
<1>u. /\ RequestsOK /\ Places /\ Orderings
      /\ Screenings
      /\ "reload" \notin disturbed' /\ "timeout" \notin disturbed' /\ "back" \notin disturbed'
  <2>1. disturbed \subseteq disturbed'
    BY DisturbedGrows DEF Journeys, RequestsOK, TypeOK
  <2> QED
    BY <2>1 DEF Journeys, Screens, Orderly, InOrder, Undisturbed
<1>1. ASSUME NEW q \in Quotes, LapseQuote(q), UNCHANGED <<wizard, client, orders>>
      PROVE  Orderings'
  BY <1>1, <1>u, QuietOrder DEF LapseQuote
<1>2. ASSUME NEW s \in Sessions, LapseSession(s) \/ MoveOn(s), UNCHANGED <<wizard, client, orders>>
      PROVE  Orderings'
  <2>1. /\ UNCHANGED handler
        /\ \A t \in Sessions : \/ rows'[t].state = rows[t].state
                               \/ rows[t].state \in Payable \ {"COMPLETED"}
    BY <1>2, <1>u, LapseMoves, MoveOnMoves DEF RowIs
  <2> QED
    BY <1>2, <1>u, <2>1, QuietOrder
<1>3. ASSUME NEW h \in Handlers, TimeOut(h)
      PROVE  Orderings'
  BY <1>3, <1>u, TimeOutMoves
<1>4. ASSUME NEW h \in Handlers, Drop(h)
      PROVE  Orderings'
  <2>1. Waited(h)
    BY <1>u DEF Screenings
  <2> QED
    BY <1>4, <2>1 DEF Drop, Waited
<1>5. CASE UNCHANGED vars
  BY <1>5, <1>u, QuietOrder DEF vars, onboarding
<1> QED
  BY <1>1, <1>2, <1>3, <1>4, <1>5, <1>u, NextMoves, ServedOrder, AnswerOrder, SentOrder,
     ClickedOrder DEF Moves

LEMMA OrderHolds == Spec => [](Journeys /\ Orderly)
<1>1. Init => Orderly
  BY InitOrderly
<1>2. Journeys /\ Orderly /\ [Next]_vars => Orderly'
  BY NextOrderly
<1> QED
  BY <1>1, <1>2, JourneysHold, PTL DEF Spec

(* The step a tab shows for its only order is one the server has reached,    *)
(* and, in order, the outcome it shows is the one the row keeps: no poll     *)
(* answered late, no request still under way can make the two differ.       *)
THEOREM NeverAhead == Spec => []WizardNotAhead
<1>1. Journeys /\ Orderly => WizardNotAhead
  BY DEF Journeys, Ahead, Reached, Orderly, Orderings, Shown, WizardNotAhead
<1> QED
  BY <1>1, OrderHolds, PTL

(* Expiry pauses at the payment: a request that writes a transition of an    *)
(* order in order is alone at it, and the order is not yet payable.         *)
THEOREM ExpiryPauses == Spec => PausedInOrder
<1>1. ASSUME Journeys, Orderly, [Next]_vars, InOrder, NEW s \in Sessions, OnlyOrder(s),
             rows[s].state \in Payable
      PROVE  rows'[s].state # "EXPIRED"
  <2>u. RequestsOK /\ Orderings
    BY <1>1 DEF Journeys, Orderly
  <2>1. ASSUME NEW h \in Handlers, Serves(h)
        PROVE  rows'[s].state # "EXPIRED"
    <3>1. rows'[s].state = rows[s].state
      BY <1>1, <2>u, <2>1, StatesKept DEF Payable, PostPaymentStates
    <3> QED
      BY <1>1, <3>1 DEF Payable
  <2>2. ASSUME NEW t \in Sessions, LapseSession(t) \/ MoveOn(t)
        PROVE  rows'[s].state # "EXPIRED"
    BY <1>1, <2>u, <2>2, LapseMoves, MoveOnMoves DEF RowIs, Payable
  <2>3. CASE rows' = rows
    BY <1>1, <2>3 DEF Payable
  <2>4. CASE UNCHANGED vars
    BY <2>3, <2>4 DEF vars, onboarding
  <2>5. CASE Next
    <3>1. Moves
      BY <2>5, <2>u, NextMoves
    <3>2. \A h \in Handlers : Answer(h) \/ TimeOut(h) \/ Drop(h) => rows' = rows
      BY DEF Answer, TimeOut, Drop, onboarding
    <3> QED
      BY <3>1, <3>2, <2>1, <2>2, <2>3 DEF Moves, LapseQuote, Sent, Clicked, onboarding
  <2> QED
    BY <1>1, <2>4, <2>5
<1>2. Journeys /\ Orderly /\ [Next]_vars
        => [InOrder => \A s \in Sessions :
              OnlyOrder(s) /\ rows[s].state \in Payable => rows'[s].state # "EXPIRED"]_vars
  BY <1>1
<1> QED
  BY <1>2, OrderHolds, PTL DEF Spec, PausedInOrder

=============================================================================
