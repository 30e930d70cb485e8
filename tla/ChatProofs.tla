----------------------------- MODULE ChatProofs -----------------------------
(***************************************************************************)
(* Proofs about ChatFlow, for any number of handlers and orders and any     *)
(* bounds.                                                                 *)
(***************************************************************************)
EXTENDS ChatFlow, WellFoundedInduction, TLAPS

-----------------------------------------------------------------------------
(* The invariant.  Its promises come in two strengths: those kept while no  *)
(* messages overlap (Alone), and those that also need that nothing failed. *)

Alone == overlaps = 0

StateFor(order) == IF order = "none" THEN "none" ELSE orders[order]

(* A step, and the order it can wait for. *)
Fits(step, order) ==
    /\ step \in {"WAITING_FOR_FULL_NAME", "WAITING_FOR_DOCUMENT_NUMBER"} =>
         StateFor(order) = "created"
    /\ step = "WAITING_FOR_EMAIL" => StateFor(order) \in {"created", "screening"}
    /\ step = "WAITING_FOR_BTC_ADDRESS" => StateFor(order) = "identified"
    /\ step = "WAITING_FOR_PAYMENT_CONFIRMATION" => StateFor(order) = "payable"
    /\ step = "PROCESSING" => StateFor(order) \in {"pushed", "completed", "closed"}

(* What the metadata holds by then is of this order. *)
Named(step, order, meta) ==
    /\ step = "WAITING_FOR_DOCUMENT_NUMBER" => meta.name = order
    /\ step = "WAITING_FOR_EMAIL" => meta.name = order /\ meta.document = order

(* Nobody expects to hear of this order any more. *)
Released(order) ==
    order = "none" \/ order \in left \/ orders[order] \in {"closed", "expired"}

InOrder ==
    /\ \A c, d \in Active : c = d
    /\ \A c \in Active : Fits(convs[c].step, convs[c].order)

(* What a handler may rely on, of the row it read. *)

Row(h) == convs[handler[h].conv]

Only(h) == Undisturbed => Active \subseteq {handler[h].conv}

Sits(h) == Undisturbed /\ Row(h).active => Fits(Row(h).step, Row(h).order)

MayGo(h, step) == Undisturbed /\ Row(h).active => Fits(step, Row(h).order)

Free(h) == Undisturbed /\ Row(h).active => Released(Row(h).order)

Holds(h) ==
    /\ Alone /\ Row(h).active => Row(h).order = Order(h)
    /\ Undisturbed /\ ~Row(h).active => Released(Order(h))

Keeps(h, meta) == Alone /\ Row(h).active => Named(Row(h).step, Row(h).order, meta)

NamedAt(h, step, meta) == Alone /\ Row(h).active => Named(step, Row(h).order, meta)

Submits(h, meta) ==
    /\ Sits(h) /\ Holds(h)
    /\ Undisturbed /\ Row(h).active => Row(h).step \in {"WAITING_FOR_EMAIL", "COMPLETED"}
    /\ Alone => meta.name = Order(h) /\ meta.document = Order(h)

(* No metadata is awaited that a new order would find missing. *)
Bare(h) ==
    Alone /\ Row(h).active =>
        Row(h).step \notin {"WAITING_FOR_DOCUMENT_NUMBER", "WAITING_FOR_EMAIL"}

Kind(todo) == IF todo = <<>> THEN "none" ELSE Head(todo)[1]

(* The second half of what becomes of a completed conversation. *)
Renewing == <<<<"create">>, <<"close">>, <<"next", "WAITING_FOR_AMOUNT">>>>

After(h) == Tail(handler[h].todo)

(* Per call, first in a handler's todo: what it needs, and what is behind. *)

OwesStep(h) ==
    /\ Only(h) /\ Argument(h) \in Step
    /\ \/ /\ After(h) = <<>>
          /\ MayGo(h, Argument(h)) /\ NamedAt(h, Argument(h), Row(h).meta)
       \/ Argument(h) = "COMPLETED" /\ After(h) = <<<<"close">>>> /\ Free(h)
       \/ /\ Argument(h) = "WAITING_FOR_FULL_NAME"
          /\ After(h) = <<<<"metadata", NoMetadata>>>>
          /\ MayGo(h, Argument(h))

OwesReset(h) ==
    /\ Only(h) /\ Free(h)
    /\ After(h) \in {<<>>, <<To("WAITING_FOR_AMOUNT")>>, Renewing}

OwesClose(h) ==
    /\ Free(h)
    /\ \/ Only(h) /\ After(h) \in {<<>>, <<<<"create">>>>}
       \/ /\ After(h) = <<<<"next", "WAITING_FOR_AMOUNT">>>>
          /\ Undisturbed => Active \subseteq {handler[h].conv, Len(convs)}

OwesCreate(h) ==
    \/ After(h) = <<>> /\ (Undisturbed => Active = {})
    \/ After(h) = Tail(Renewing) /\ Only(h) /\ Free(h)

OwesNext(h) ==
    /\ Argument(h) = "WAITING_FOR_AMOUNT" /\ After(h) = <<>>
    /\ Undisturbed => Active \subseteq {Len(convs)}

OwesLink(h) ==
    /\ Only(h) /\ Bare(h) /\ Argument(h) \in Orders
    /\ Undisturbed => orders[Argument(h)] = "created"
    /\ After(h) = <<To("WAITING_FOR_FULL_NAME"), <<"metadata", NoMetadata>>>>

OwesMetadata(h) ==
    /\ Only(h) /\ Argument(h) \in Metadata /\ Keeps(h, Argument(h))
    /\ \/ After(h) = <<>> /\ Sits(h)
       \/ After(h) = <<<<"submitIdentity", Argument(h)>>>> /\ Submits(h, Argument(h))
       \/ \E s \in {"WAITING_FOR_DOCUMENT_NUMBER", "WAITING_FOR_EMAIL"} :
            After(h) = <<To(s)>> /\ MayGo(h, s) /\ NamedAt(h, s, Argument(h))

(* What is left to do, and what that needs. *)
Owes(h) ==
    LET kind == Kind(handler[h].todo) IN
    /\ kind = "none" => (Undisturbed => InOrder)
    /\ kind = "step" => OwesStep(h)
    /\ kind = "reset" => OwesReset(h)
    /\ kind = "close" => OwesClose(h)
    /\ kind = "create" => OwesCreate(h)
    /\ kind = "next" => OwesNext(h)
    /\ kind = "link" => OwesLink(h)
    /\ kind = "quote" => Only(h) /\ After(h) = <<To("WAITING_FOR_QUOTE_CONFIRMATION")>>
    /\ kind = "metadata" => OwesMetadata(h)
    /\ kind \in {"createQuote", "createSession"} => Only(h) /\ Sits(h)
    /\ kind = "createSession" => Bare(h)
    /\ kind = "submitIdentity" => Only(h) /\ Argument(h) \in Metadata /\ Submits(h, Argument(h))
    /\ kind \in {"submitPayoutDetails", "initiatePayment", "confirmByReference"} =>
         Only(h) /\ Sits(h) /\ Holds(h)

Typed ==
    /\ provider \in {"WHATSAPP_CLOUD", "TELEGRAM"}
    /\ convs \in Seq(Conversation) /\ Len(convs) <= MaxConversations
    /\ orders \in [Orders -> OrderState]
    /\ handler = [h \in Handlers |-> handler[h]]
    /\ \A h \in Handlers :
         /\ handler[h] = [at |-> handler[h].at, conv |-> handler[h].conv,
                          order |-> handler[h].order, todo |-> handler[h].todo]
         /\ handler[h].at \in {"idle", "find", "open", "run"}
         /\ handler[h].conv \in 0..Len(convs)
         /\ At(h, "run") => handler[h].conv \in 1..Len(convs)
         /\ handler[h].order \in Reference
    /\ notice \in [Orders -> [at: {"none", "find", "step", "status", "send", "told", "lost"},
                              conv: 0..MaxConversations]]
    /\ \A o \in Orders : notice[o].at \in {"step", "status"} => notice[o].conv \in 1..Len(convs)
    /\ left \subseteq Orders
    /\ overlaps \in 0..MaxDisturbances /\ troubles \in 0..MaxDisturbances

Handling(h) ==
    /\ At(h, "find") /\ Undisturbed => InOrder
    /\ At(h, "open") /\ Undisturbed => Active = {}
    /\ At(h, "run") => Owes(h)

(* A notice looks for a row with its order. *)
Kept(o) == o \in left \/ \E c \in Active : convs[c].order = o

Told(o) ==
    /\ notice[o].at # "none" => orders[o] = "completed"
    /\ Undisturbed /\ orders[o] \in {"screening", "identified", "payable", "pushed", "completed"}
         => Kept(o)
    /\ Undisturbed /\ NoticeAt(o, "lost") => o \in left

ChatInv ==
    /\ Typed
    /\ Alone => \A h, k \in Busy : h = k
    /\ Alone => \A c \in Active : Named(convs[c].step, convs[c].order, convs[c].meta)
    /\ Undisturbed /\ Busy = {} => InOrder
    /\ \A h \in Handlers : Handling(h)
    /\ \A o \in Orders : Told(o)

-----------------------------------------------------------------------------
(* The calls a handler may owe. *)

LEMMA Tuples ==
  ASSUME NEW a, NEW b, NEW c, NEW d
  PROVE  /\ <<a>> # <<>> /\ Head(<<a>>) = a /\ Tail(<<a>>) = <<>>
         /\ <<a, b>> # <<>> /\ Head(<<a, b>>) = a /\ Tail(<<a, b>>) = <<b>>
         /\ <<a, b, c>> # <<>> /\ Head(<<a, b, c>>) = a /\ Tail(<<a, b, c>>) = <<b, c>>
         /\ <<a, b, c, d>> # <<>> /\ Head(<<a, b, c, d>>) = a
         /\ Tail(<<a, b, c, d>>) = <<b, c, d>>
  OBVIOUS

LEMMA Kinds ==
  ASSUME NEW k, NEW x, NEW b, NEW c, NEW d
  PROVE  /\ Kind(<<>>) = "none"
         /\ Kind(<<<<k>>>>) = k /\ Kind(<<<<k>>, b>>) = k
         /\ Kind(<<<<k>>, b, c>>) = k /\ Kind(<<<<k>>, b, c, d>>) = k
         /\ Kind(<<<<k, x>>>>) = k /\ Head(<<<<k, x>>>>)[2] = x
         /\ Kind(<<<<k, x>>, b>>) = k /\ Head(<<<<k, x>>, b>>)[2] = x
         /\ Kind(<<<<k, x>>, b, c>>) = k /\ Head(<<<<k, x>>, b, c>>)[2] = x
  BY Tuples DEF Kind

(* The scripts, and what they look at. *)
LEMMA Scripts ==
  ASSUME NEW seen \in Conversation, NEW cmd \in Command, NEW expired \in BOOLEAN
  PROVE  LET todo == Script(seen, cmd, expired) IN
         \/ todo = <<<<"createSession">>>> /\ seen.step = "WAITING_FOR_QUOTE_CONFIRMATION"
         \/ todo \in {<<>>, <<<<"createQuote">>>>, <<<<"submitPayoutDetails">>>>,
                      <<<<"initiatePayment">>>>, <<<<"confirmByReference">>>>}
         \/ todo \in {<<To("MENU")>>, <<To("WAITING_FOR_AMOUNT")>>}
         \/ /\ todo \in {<<<<"reset">>>>, <<<<"reset">>, To("WAITING_FOR_AMOUNT")>>,
                         <<<<"close">>, <<"create">>>>, <<<<"reset">>, <<"create">>, <<"close">>,
                         <<"next", "WAITING_FOR_AMOUNT">>>>}
            /\ Leaves(seen, cmd, expired)
         \/ \E m \in Metadata :
              /\ todo = <<<<"metadata", m>>, To("WAITING_FOR_DOCUMENT_NUMBER")>>
              /\ seen.step = "WAITING_FOR_FULL_NAME" /\ m.name = seen.order
         \/ \E m \in Metadata :
              /\ todo = <<<<"metadata", m>>, To("WAITING_FOR_EMAIL")>>
              /\ seen.step = "WAITING_FOR_DOCUMENT_NUMBER"
              /\ m.name = seen.meta.name /\ m.document = seen.order
         \/ \E m \in Metadata :
              /\ todo \in {<<<<"metadata", m>>>>, <<<<"metadata", m>>, <<"submitIdentity", m>>>>}
              /\ seen.step = "WAITING_FOR_EMAIL"
              /\ m.name = seen.meta.name /\ m.document = seen.meta.document
<1> DEFINE todo == Script(seen, cmd, expired)
<1>m. seen.meta \in Metadata /\ seen.order \in Reference /\ seen.step \in Step
  BY DEF Conversation
<1>1. CASE expired /\ seen.step # "IDLE"
  BY <1>1 DEF Script, Leaves
<1>2. CASE ~(expired /\ seen.step # "IDLE") /\ IsGlobal(cmd)
  <2>1. todo = GlobalScript(seen, cmd)
    BY <1>2 DEF Script
  <2>2. cmd \in {"START_CONVERSION", "BACK", "CANCEL", "START_OVER", "GREETING"}
    BY <1>2 DEF IsGlobal
  <2>3. CASE cmd \in {"GREETING", "BACK"}
    BY <2>1, <2>3 DEF GlobalScript
  <2>4. CASE cmd = "START_CONVERSION"
    BY <2>1, <2>4 DEF GlobalScript, Leaves
  <2>5. CASE cmd = "CANCEL"
    BY <2>1, <2>5 DEF GlobalScript, Leaves
  <2>6. CASE cmd = "START_OVER"
    BY <2>1, <2>6 DEF GlobalScript, Leaves
  <2> HIDE DEF todo
  <2> QED
    BY <2>2, <2>3, <2>4, <2>5, <2>6 DEF todo
<1>3. CASE ~(expired /\ seen.step # "IDLE") /\ ~IsGlobal(cmd)
  <2>1. todo = FlowScript(seen, cmd)
    BY <1>3 DEF Script
  <2>2. CASE seen.step \in {"IDLE", "MENU"}
    BY <2>1, <2>2 DEF FlowScript, MenuScript
  <2>3. CASE seen.step = "WAITING_FOR_AMOUNT"
    BY <2>1, <2>3 DEF FlowScript
  <2>4. CASE seen.step = "WAITING_FOR_QUOTE_CONFIRMATION"
    BY <2>1, <2>4 DEF FlowScript, ConfirmationScript
  <2>5. CASE seen.step = "WAITING_FOR_FULL_NAME"
    <3>1. CASE cmd = "TEXT"
      <4> DEFINE m == [seen.meta EXCEPT !.name = seen.order]
      <4>1. m \in Metadata /\ m.name = seen.order
        BY <1>m DEF Metadata
      <4>2. todo = <<<<"metadata", m>>, To("WAITING_FOR_DOCUMENT_NUMBER")>>
        BY <2>1, <2>5, <3>1 DEF FlowScript, NameScript
      <4> QED
        BY <2>5, <4>1, <4>2
    <3>2. CASE cmd # "TEXT"
      BY <2>1, <2>5, <3>2 DEF FlowScript
    <3> QED
      BY <3>1, <3>2
  <2>6. CASE seen.step = "WAITING_FOR_DOCUMENT_NUMBER"
    <3>1. CASE cmd = "TEXT"
      <4> DEFINE m == [seen.meta EXCEPT !.document = seen.order]
      <4>1. m \in Metadata /\ m.document = seen.order /\ m.name = seen.meta.name
        BY <1>m DEF Metadata
      <4>2. todo = <<<<"metadata", m>>, To("WAITING_FOR_EMAIL")>>
        BY <2>1, <2>6, <3>1 DEF FlowScript, DocumentScript
      <4> QED
        BY <2>6, <4>1, <4>2
    <3>2. CASE cmd # "TEXT"
      BY <2>1, <2>6, <3>2 DEF FlowScript
    <3> QED
      BY <3>1, <3>2
  <2>7. CASE seen.step = "WAITING_FOR_EMAIL"
    <3>1. CASE cmd = "TEXT"
      <4> DEFINE given == [seen.meta EXCEPT !.asks = FALSE, !.phone = TRUE]
                 asked == [seen.meta EXCEPT !.asks = TRUE]
      <4>1. /\ given \in Metadata /\ given.document = seen.meta.document
            /\ given.name = seen.meta.name
            /\ asked \in Metadata /\ asked.document = seen.meta.document
            /\ asked.name = seen.meta.name
        BY <1>m DEF Metadata
      <4>2. todo \in {<<<<"metadata", asked>>>>,
                      <<<<"metadata", given>>, <<"submitIdentity", given>>>>}
        BY <2>1, <2>7, <3>1 DEF FlowScript, EmailScript
      <4> QED
        BY <2>7, <4>1, <4>2
    <3>2. CASE cmd # "TEXT"
      BY <2>1, <2>7, <3>2 DEF FlowScript
    <3> QED
      BY <3>1, <3>2
  <2>8. CASE seen.step \in {"WAITING_FOR_BTC_ADDRESS", "WAITING_FOR_PAYMENT_CONFIRMATION",
                            "PROCESSING"}
    BY <2>1, <2>8 DEF FlowScript
  <2>9. CASE seen.step = "COMPLETED"
    BY <2>1, <2>9 DEF FlowScript, CompletedScript, Leaves
  <2> HIDE DEF todo
  <2> QED
    BY <1>m, <2>2, <2>3, <2>4, <2>5, <2>6, <2>7, <2>8, <2>9 DEF todo, Step
<1> QED
  BY <1>1, <1>2, <1>3

-----------------------------------------------------------------------------
(* What stays true while others move. *)

LEMMA InitChat == ChatFlowAssumption /\ Init => ChatInv
<1> SUFFICES ASSUME ChatFlowAssumption, Init
             PROVE  ChatInv
  OBVIOUS
<1>1. Typed
  BY DEF Init, ChatFlowAssumption, Typed, Resting, Reference, OrderState, At
<1>2. Active = {} /\ Busy = {}
  BY DEF Init, Active, Busy, At, Resting
<1>3. \A h \in Handlers : Handling(h)
  BY DEF Init, Handling, At, Resting
<1>4. \A o \in Orders : Told(o)
  BY DEF Init, Told, NoticeAt
<1> QED
  BY <1>1, <1>2, <1>3, <1>4 DEF ChatInv, InOrder

(* Only one handler is busy as long as no messages overlap: what the others *)
(* are promised is promised of calmer days.                                *)
LEMMA Others ==
  ASSUME NEW k \in Handlers, Handling(k), handler'[k] = handler[k], ~(Alone'), ~(Undisturbed'),
         convs' \in Seq(Conversation), Len(convs) <= Len(convs')
  PROVE  Handling(k)'
<1> SUFFICES ASSUME At(k, "run")
             PROVE  Owes(k)'
  BY DEF Handling, At
<1>1. Owes(k)
  BY DEF Handling
<1>2. Argument(k)' = Argument(k) /\ After(k)' = After(k) /\ Order(k)' = Order(k)
  BY DEF Argument, After, Order
<1>3. /\ Only(k)' /\ Bare(k)' /\ Sits(k)' /\ Free(k)' /\ Holds(k)'
      /\ \A s \in Step : MayGo(k, s)'
      /\ \A s \in Step, m \in Metadata : NamedAt(k, s, m)' /\ Keeps(k, m)' /\ Submits(k, m)'
  BY DEF Only, Bare, Sits, Free, Holds, MayGo, NamedAt, Keeps, Submits
<1>4. \A s \in Step : NamedAt(k, s, Row(k).meta)'
  BY DEF NamedAt
<1>5. OwesStep(k) => OwesStep(k)'
  BY <1>2, <1>3, <1>4 DEF OwesStep
<1>6. OwesReset(k) => OwesReset(k)'
  BY <1>2, <1>3 DEF OwesReset
<1>7. OwesClose(k) => OwesClose(k)'
  BY <1>2, <1>3 DEF OwesClose
<1>8. OwesCreate(k) => OwesCreate(k)'
  BY <1>2, <1>3 DEF OwesCreate
<1>9. OwesNext(k) => OwesNext(k)'
  BY <1>2, <1>3 DEF OwesNext
<1>10. OwesLink(k) => OwesLink(k)'
  BY <1>2, <1>3 DEF OwesLink
<1>11. OwesMetadata(k) => OwesMetadata(k)'
  <2>1. \A s \in {"WAITING_FOR_DOCUMENT_NUMBER", "WAITING_FOR_EMAIL"} : s \in Step
    BY DEF Step
  <2> QED
    BY <1>2, <1>3, <2>1 DEF OwesMetadata
<1>12. Submits(k, Argument(k)) => Submits(k, Argument(k))'
  BY <1>2, <1>3 DEF Submits
<1> QED
  BY <1>1, <1>2, <1>3, <1>5, <1>6, <1>7, <1>8, <1>9, <1>10, <1>11, <1>12 DEF Owes

(* While the notices and time move, the rows only become completed or       *)
(* closed, and an order that leaves its row is noted.                      *)
Steady ==
    /\ (Undisturbed' => Undisturbed) /\ (Alone' => Alone)
    /\ Active' \subseteq Active /\ Len(convs') = Len(convs)
    /\ \A c \in Active' :
         /\ convs'[c].order = convs[c].order /\ convs'[c].meta = convs[c].meta
         /\ convs'[c].step \in {convs[c].step, "COMPLETED"}
    /\ \A c \in Active \ Active', o \in Reference : convs[c].order = o => Released(o)'
    /\ \A s \in Step, o \in Reference : Fits(s, o) => Fits(s, o)'
    /\ \A o \in Reference : Released(o) => Released(o)'
    /\ \A o \in Orders : orders[o] = "created" => orders'[o] = "created"

LEMMA SteadyRows ==
  ASSUME Typed, Steady
  PROVE  /\ \A c \in Active' : c \in Active
         /\ \A c \in Active' : Fits(convs[c].step, convs[c].order)
                                 => Fits(convs[c].step, convs[c].order)'
         /\ \A c \in Active' : Named(convs[c].step, convs[c].order, convs[c].meta)
                                 => Named(convs[c].step, convs[c].order, convs[c].meta)'
         /\ Undisturbed' /\ InOrder => InOrder'
<1>1. \A c \in Active : convs[c] \in Conversation
  BY DEF Typed, Active
<1>2. \A c \in Active : convs[c].step \in Step /\ convs[c].order \in Reference
  BY <1>1 DEF Conversation
<1>3. \A o \in Reference : Fits("COMPLETED", o)'
  BY DEF Fits
<1>4. \A c \in Active' : c \in Active
  BY DEF Steady
<1>5. \A c \in Active' : Fits(convs[c].step, convs[c].order)
                           => Fits(convs[c].step, convs[c].order)'
  <2> SUFFICES ASSUME NEW c \in Active', Fits(convs[c].step, convs[c].order)
               PROVE  Fits(convs[c].step, convs[c].order)'
    OBVIOUS
  <2>1. convs[c].step \in Step /\ convs[c].order \in Reference
    BY <1>2, <1>4
  <2>2. convs'[c].order = convs[c].order /\ convs'[c].step \in {convs[c].step, "COMPLETED"}
    BY DEF Steady
  <2>3. CASE convs'[c].step = "COMPLETED"
    BY <2>3 DEF Fits
  <2>4. CASE convs'[c].step = convs[c].step
    <3>1. \A s \in Step, o \in Reference : Fits(s, o) => Fits(s, o)'
      BY DEF Steady
    <3> QED
      BY <2>1, <2>2, <2>4, <3>1 DEF Fits, StateFor
  <2> QED
    BY <2>2, <2>3, <2>4
<1>6. \A c \in Active' : Named(convs[c].step, convs[c].order, convs[c].meta)
                           => Named(convs[c].step, convs[c].order, convs[c].meta)'
  BY <1>4 DEF Steady, Named
<1>7. InOrder => InOrder'
  BY <1>4, <1>5 DEF InOrder
<1> QED
  BY <1>4, <1>5, <1>6, <1>7

LEMMA SteadyHandling ==
  ASSUME Typed, Steady, NEW h \in Handlers, Handling(h), handler'[h] = handler[h]
  PROVE  Handling(h)'
<1>1. (At(h, "find") => At(h, "find")') /\ (At(h, "open") => At(h, "open")')
  BY DEF At
<1>2. InOrder /\ Undisturbed' => InOrder'
  BY SteadyRows
<1>3. CASE ~At(h, "run")
  BY <1>2, <1>3 DEF Handling, At, Steady
<1>4. CASE At(h, "run")
  <2> DEFINE c == handler[h].conv
  <2>1. c \in 1..Len(convs) /\ convs[c] \in Conversation /\ Order(h) \in Reference
    BY <1>4 DEF Typed, Order
  <2>2. /\ convs[c].step \in Step /\ convs[c].order \in Reference /\ convs[c].active \in BOOLEAN
        /\ c \in Active <=> convs[c].active
    BY <2>1 DEF Conversation, Active
  <2>3. c \in Active' <=> convs'[c].active
    BY <2>1 DEF Active, Steady
  <2>4. Row(h) = convs[c] /\ Row(h)' = convs'[c]
    BY DEF Row
  <2>5. Argument(h)' = Argument(h) /\ After(h)' = After(h) /\ Order(h)' = Order(h)
    BY DEF Argument, After, Order
  <2>6. /\ Row(h)'.active => Row(h).active
        /\ Row(h)'.active => /\ Row(h)'.order = Row(h).order /\ Row(h)'.meta = Row(h).meta
                             /\ Row(h)'.step \in {Row(h).step, "COMPLETED"}
        /\ ~Row(h)'.active /\ Row(h).active =>
             \A o \in Reference : Row(h).order = o => Released(o)'
    BY <2>2, <2>3, <2>4 DEF Steady
  <2>7. (Only(h) => Only(h)') /\ (Bare(h) => Bare(h)')
        /\ (Sits(h) => Sits(h)') /\ (Free(h) => Free(h)')
    <3>1. Only(h) => Only(h)'
      BY DEF Only, Steady
    <3>2. Sits(h) => Sits(h)'
      BY <2>2, <2>3, <2>4, SteadyRows DEF Sits, Steady
    <3>3. Free(h) => Free(h)'
      BY <2>2, <2>4, <2>6 DEF Free, Steady
    <3>4. Bare(h) => Bare(h)'
      BY <2>6 DEF Bare, Steady
    <3> QED
      BY <3>1, <3>2, <3>3, <3>4
  <2>8. Holds(h) => Holds(h)'
    <3> SUFFICES ASSUME Holds(h)
                 PROVE  Holds(h)'
      OBVIOUS
    <3>1. ASSUME Alone', Row(h)'.active
          PROVE  Row(h)'.order = Order(h)'
      BY <2>5, <2>6, <3>1 DEF Holds, Steady
    <3>2. ASSUME Undisturbed', ~Row(h)'.active
          PROVE  Released(Order(h))'
      <4>1. Undisturbed /\ Alone
        BY <3>2 DEF Steady, Undisturbed, Alone
      <4>2. CASE Row(h).active
        <5>1. Row(h).order = Order(h)
          BY <4>1, <4>2 DEF Holds
        <5>2. \A o \in Reference : Order(h) = o => Released(o)'
          BY <2>6, <3>2, <4>2, <5>1
        <5> QED
          BY <2>1, <2>5, <5>2 DEF Released
      <4>3. CASE ~Row(h).active
        BY <2>1, <2>5, <4>1, <4>3 DEF Holds, Steady, Released
      <4> QED
        BY <4>2, <4>3
    <3> QED
      BY <3>1, <3>2 DEF Holds
  <2>9. \A s \in Step : MayGo(h, s) => MayGo(h, s)'
    BY <2>2, <2>4, <2>6 DEF MayGo, Steady
  <2>10. \A s \in Step, m \in Metadata : NamedAt(h, s, m) => NamedAt(h, s, m)'
    BY <2>6 DEF NamedAt, Named, Steady
  <2>11. \A m \in Metadata : Keeps(h, m) => Keeps(h, m)'
    BY <2>6 DEF Keeps, Named, Steady
  <2>12. \A m \in Metadata : Submits(h, m) => Submits(h, m)'
    BY <2>5, <2>6, <2>7, <2>8 DEF Submits, Steady
  <2>13. \A s \in Step : NamedAt(h, s, Row(h).meta) => NamedAt(h, s, Row(h).meta)'
    BY <2>6 DEF NamedAt, Named, Steady
  <2>14. OwesStep(h) => OwesStep(h)'
    BY <2>5, <2>7, <2>9, <2>13 DEF OwesStep
  <2>15. OwesReset(h) => OwesReset(h)'
    BY <2>5, <2>7 DEF OwesReset
  <2>16. OwesClose(h) => OwesClose(h)'
    BY <2>5, <2>7 DEF OwesClose, Steady
  <2>17. OwesCreate(h) => OwesCreate(h)'
    BY <2>5, <2>7 DEF OwesCreate, Steady
  <2>18. OwesNext(h) => OwesNext(h)'
    BY <2>5 DEF OwesNext, Steady
  <2>19. OwesLink(h) => OwesLink(h)'
    BY <2>5, <2>7 DEF OwesLink, Steady
  <2>20. OwesMetadata(h) => OwesMetadata(h)'
    <3>1. \A s \in {"WAITING_FOR_DOCUMENT_NUMBER", "WAITING_FOR_EMAIL"} : s \in Step
      BY DEF Step
    <3> QED
      BY <2>5, <2>7, <2>9, <2>10, <2>11, <2>12, <3>1 DEF OwesMetadata
  <2>21. Owes(h)'
    BY <1>2, <1>4, <2>5, <2>7, <2>8, <2>12, <2>14, <2>15, <2>16, <2>17, <2>18, <2>19, <2>20
       DEF Owes, Handling, Steady
  <2> QED
    BY <1>4, <2>21 DEF Handling, At
<1> QED
  BY <1>3, <1>4

-----------------------------------------------------------------------------
(* A step of one handler. *)

Moves(h) == \A k \in Handlers : k # h => handler'[k] = handler[k]

LEMMA BusyStep ==
  ASSUME ChatInv, NEW h \in Handlers, ~At(h, "idle"), Typed', Moves(h), Calm,
         ~At(h, "idle")', Handling(h)', Len(convs) <= Len(convs'),
         Alone => (\A c \in Active : Named(convs[c].step, convs[c].order, convs[c].meta))',
         \A o \in Orders : Told(o)'
  PROVE  ChatInv'
<1>1. (Alone' <=> Alone) /\ (Undisturbed' <=> Undisturbed) /\ (~Alone => ~Undisturbed)
  BY DEF Calm, Alone, Undisturbed
<1>2. h \in Busy /\ h \in Busy'
  BY DEF Busy, At
<1>3. \A k \in Handlers : k # h => (At(k, "idle")' <=> At(k, "idle"))
  BY DEF Moves, At
<1>4. Alone => \A k, j \in Busy : k = j
  BY DEF ChatInv
<1>5. Alone => \A k \in Handlers : k # h => At(k, "idle")'
  BY <1>2, <1>3, <1>4 DEF Busy
<1>6. Alone' => (\A k, j \in Busy : k = j)'
  BY <1>1, <1>5 DEF Busy
<1>7. ASSUME NEW k \in Handlers
      PROVE  Handling(k)'
  <2>1. CASE k = h
    BY <2>1
  <2>2. CASE k # h /\ Alone
    <3>1. At(k, "idle")'
      BY <1>5, <2>2
    <3> QED
      BY <3>1 DEF Handling, At
  <2>3. CASE k # h /\ ~Alone
    <3>1. Handling(k) /\ handler'[k] = handler[k] /\ convs' \in Seq(Conversation)
      BY <2>3 DEF ChatInv, Moves, Typed
    <3> QED
      BY <1>1, <2>3, <3>1, Others
  <2> QED
    BY <2>1, <2>2, <2>3
<1>8. Busy' # {}
  BY <1>2
<1> QED
  BY <1>1, <1>6, <1>7, <1>8 DEF ChatInv

LEMMA RunStep ==
  ASSUME ChatInv, NEW h \in Handlers, ~At(h, "idle"), Typed', Moves(h), Calm,
         At(h, "run")', Owes(h)', Len(convs) <= Len(convs'),
         Alone => (\A c \in Active : Named(convs[c].step, convs[c].order, convs[c].meta))',
         \A o \in Orders : Told(o)'
  PROVE  ChatInv'
<1>1. Handling(h)' /\ ~At(h, "idle")'
  BY DEF Handling, At
<1> QED
  BY <1>1, BusyStep

LEMMA ToldRest ==
  ASSUME NEW o \in Orders, Told(o), Undisturbed' => Undisturbed, notice'[o] = notice[o],
         orders'[o] = orders[o], left \subseteq left',
         Undisturbed => \A c \in Active : convs[c].order = o =>
           \/ o \in left' \/ orders[o] \in {"closed", "expired"}
           \/ c \in Active' /\ convs'[c].order = o
  PROVE  Told(o)'
<1>1. (notice[o].at # "none" => orders[o] = "completed")'
  BY DEF Told
<1>2. ASSUME Undisturbed',
             orders'[o] \in {"screening", "identified", "payable", "pushed", "completed"}
      PROVE  Kept(o)'
  <2>1. Kept(o)
    BY <1>2 DEF Told
  <2>2. CASE o \in left
    BY <2>2 DEF Kept
  <2>3. CASE \E c \in Active : convs[c].order = o
    <3>1. PICK c \in Active : convs[c].order = o
      BY <2>3
    <3>2. o \in left' \/ (c \in Active' /\ convs'[c].order = o)
      BY <1>2, <3>1
    <3> QED
      BY <3>2 DEF Kept
  <2> QED
    BY <2>1, <2>2, <2>3 DEF Kept
<1>3. (Undisturbed /\ NoticeAt(o, "lost") => o \in left)'
  BY DEF Told, NoticeAt
<1> QED
  BY <1>1, <1>2, <1>3 DEF Told

(* Where a busy handler stands. *)
LEMMA Standing ==
  ASSUME Typed, NEW h \in Handlers, At(h, "run")
  PROVE  /\ handler[h].conv \in 1..Len(convs) /\ handler[h].conv \in DOMAIN convs
         /\ Row(h) \in Conversation
         /\ Row(h).step \in Step /\ Row(h).order \in Reference /\ Row(h).meta \in Metadata
         /\ Row(h).active \in BOOLEAN /\ (handler[h].conv \in Active <=> Row(h).active)
         /\ Order(h) \in Reference
<1>1. handler[h].conv \in 1..Len(convs) /\ Row(h) \in Conversation /\ Order(h) \in Reference
  BY DEF Typed, Row, Order
<1> QED
  BY <1>1 DEF Conversation, Active, Row, Typed

LEMMA ThenTyped ==
  ASSUME Typed, NEW h \in Handlers, At(h, "run"), NEW todo, Then(h, todo)
  PROVE  /\ Moves(h) /\ At(h, "run")' /\ handler'[h].todo = todo
         /\ handler'[h].conv = handler[h].conv /\ handler'[h].order = handler[h].order
         /\ Order(h)' = Order(h)
         /\ handler' = [k \in Handlers |-> handler'[k]]
         /\ \A k \in Handlers :
              /\ handler'[k] = [at |-> handler'[k].at, conv |-> handler'[k].conv,
                                order |-> handler'[k].order, todo |-> handler'[k].todo]
              /\ handler'[k].at = handler[k].at /\ handler'[k].conv = handler[k].conv
              /\ handler'[k].order = handler[k].order
<1>1. /\ handler = [k \in Handlers |-> handler[k]]
      /\ \A k \in Handlers :
           handler[k] = [at |-> handler[k].at, conv |-> handler[k].conv,
                         order |-> handler[k].order, todo |-> handler[k].todo]
  BY DEF Typed
<1>2. handler' = [k \in Handlers |-> IF k = h THEN [handler[h] EXCEPT !.todo = todo]
                                              ELSE handler[k]]
  BY <1>1 DEF Then
<1>3. [handler[h] EXCEPT !.todo = todo] =
        [at |-> handler[h].at, conv |-> handler[h].conv, order |-> handler[h].order,
         todo |-> todo]
  BY <1>1
<1>4. \A k \in Handlers : k # h => handler'[k] = handler[k]
  BY <1>2
<1>5. handler'[h] = [at |-> handler[h].at, conv |-> handler[h].conv,
                     order |-> handler[h].order, todo |-> todo]
  BY <1>2, <1>3
<1>6. handler' = [k \in Handlers |-> handler'[k]]
  BY <1>2
<1> HIDE DEF Moves
<1> QED
  BY <1>1, <1>4, <1>5, <1>6 DEF Moves, At, Order

-----------------------------------------------------------------------------
(* WhatsAppSessionService's writes. *)

LEMMA Written ==
  ASSUME Typed, NEW h \in Handlers, At(h, "run"), NEW row \in Conversation, Write(h, row)
  PROVE  /\ Then(h, After(h)) /\ UNCHANGED <<provider, orders, notice>> /\ Calm
         /\ convs' \in Seq(Conversation) /\ Len(convs') = Len(convs)
         /\ Row(h)' = IF Row(h).active THEN row ELSE Row(h)
         /\ \A c \in DOMAIN convs : c # handler[h].conv => convs'[c] = convs[c]
         /\ \A c : c # handler[h].conv => (c \in Active' <=> c \in Active)
         /\ handler[h].conv \in Active' <=> Row(h).active /\ row.active
         /\ Active' \subseteq Active
<1>1. /\ Then(h, After(h)) /\ UNCHANGED <<provider, orders, notice>> /\ Calm
      /\ convs' = IF Row(h).active THEN [convs EXCEPT ![handler[h].conv] = row] ELSE convs
  BY DEF Write, Pop, After, Row
<1>2. handler[h].conv \in 1..Len(convs) /\ convs \in Seq(Conversation) /\ row.active \in BOOLEAN
  BY Standing DEF Typed, Conversation
<1>3. handler'[h].conv = handler[h].conv
  BY <1>1, ThenTyped
<1>4. /\ convs' \in Seq(Conversation) /\ Len(convs') = Len(convs)
      /\ convs'[handler[h].conv] = IF Row(h).active THEN row ELSE Row(h)
      /\ \A c \in DOMAIN convs : c # handler[h].conv => convs'[c] = convs[c]
  BY <1>1, <1>2 DEF Row
<1>5. Row(h)' = IF Row(h).active THEN row ELSE Row(h)
  BY <1>3, <1>4 DEF Row
<1>6. DOMAIN convs = 1..Len(convs) /\ DOMAIN convs' = 1..Len(convs)
  BY <1>2, <1>4
<1>7. \A c : c # handler[h].conv => (c \in Active' <=> c \in Active)
  BY <1>4, <1>6 DEF Active
<1>8. handler[h].conv \in Active' <=> Row(h).active /\ row.active
  BY <1>2, <1>4, <1>6 DEF Active
<1>9. handler[h].conv \in Active <=> Row(h).active
  BY <1>2, <1>6 DEF Active, Row
<1> QED
  BY <1>1, <1>4, <1>5, <1>7, <1>8, <1>9

LEMMA WriteKeeps ==
  ASSUME ChatInv, NEW h \in Handlers, At(h, "run"), NEW row \in Conversation, Write(h, row),
         left \subseteq left', left' \subseteq Orders,
         Alone /\ Row(h).active /\ row.active => Named(row.step, row.order, row.meta),
         Undisturbed /\ Row(h).active /\ ~(row.active /\ row.order = Row(h).order)
           => Released(Row(h).order) \/ Row(h).order \in left',
         Owes(h)'
  PROVE  ChatInv'
<1>1. Typed
  BY DEF ChatInv
<1>w. /\ Then(h, After(h)) /\ UNCHANGED <<provider, orders, notice>> /\ Calm
      /\ convs' \in Seq(Conversation) /\ Len(convs') = Len(convs)
      /\ Row(h)' = IF Row(h).active THEN row ELSE Row(h)
      /\ \A c \in DOMAIN convs : c # handler[h].conv => convs'[c] = convs[c]
      /\ \A c : c # handler[h].conv => (c \in Active' <=> c \in Active)
      /\ handler[h].conv \in Active' <=> Row(h).active /\ row.active
      /\ Active' \subseteq Active
  BY <1>1, Written
<1>t. /\ Moves(h) /\ At(h, "run")' /\ handler'[h].conv = handler[h].conv
      /\ handler' = [k \in Handlers |-> handler'[k]]
      /\ \A k \in Handlers :
           /\ handler'[k] = [at |-> handler'[k].at, conv |-> handler'[k].conv,
                             order |-> handler'[k].order, todo |-> handler'[k].todo]
           /\ handler'[k].at = handler[k].at /\ handler'[k].conv = handler[k].conv
           /\ handler'[k].order = handler[k].order
  BY <1>1, <1>w, ThenTyped
<1>2. Typed'
  <2>1. \A k \in Handlers : At(k, "run")' <=> At(k, "run")
    BY <1>t DEF At
  <2> QED
    BY <1>1, <1>w, <1>t, <2>1 DEF Typed, Calm
<1>3. ASSUME Alone
      PROVE  (\A c \in Active : Named(convs[c].step, convs[c].order, convs[c].meta))'
  <2>1. \A c \in Active : Named(convs[c].step, convs[c].order, convs[c].meta)
    BY <1>3 DEF ChatInv
  <2> SUFFICES ASSUME NEW c \in Active'
               PROVE  Named(convs'[c].step, convs'[c].order, convs'[c].meta)
    BY DEF Named
  <2>2. CASE c = handler[h].conv
    <3>1. convs'[c] = row /\ Row(h).active /\ row.active
      BY <1>w, <1>t, <2>2 DEF Row
    <3> QED
      BY <1>3, <3>1
  <2>3. CASE c # handler[h].conv
    <3>1. c \in Active /\ convs'[c] = convs[c]
      BY <1>w, <2>3 DEF Active
    <3> QED
      BY <2>1, <3>1
  <2> QED
    BY <2>2, <2>3
<1>4. ASSUME NEW o \in Orders
      PROVE  Told(o)'
  <2>1. Told(o) /\ (Undisturbed' => Undisturbed) /\ notice' = notice /\ orders'[o] = orders[o]
    BY <1>w DEF ChatInv, Calm, Undisturbed
  <2>2. ASSUME Undisturbed, NEW c \in Active, convs[c].order = o
        PROVE  \/ o \in left' \/ orders[o] \in {"closed", "expired"}
               \/ c \in Active' /\ convs'[c].order = o
    <3>1. CASE c # handler[h].conv
      BY <1>w, <2>2, <3>1 DEF Active
    <3>2. CASE c = handler[h].conv
      <4>1. Row(h) = convs[c] /\ Row(h).active
        BY <3>2 DEF Row, Active
      <4>2. CASE row.active /\ row.order = o
        BY <1>w, <1>t, <3>2, <4>1, <4>2 DEF Row
      <4>3. CASE ~(row.active /\ row.order = o)
        <5>1. o # "none"
          BY ChatFlowAssumption DEF ChatFlowAssumption
        <5>2. Released(o) \/ o \in left'
          BY <2>2, <4>1, <4>3
        <5> QED
          BY <5>1, <5>2 DEF Released
      <4> QED
        BY <4>2, <4>3
    <3> QED
      BY <3>1, <3>2
  <2> QED
    BY <2>1, <2>2, ToldRest
<1> QED
  <2>1. ~At(h, "idle") /\ Len(convs) <= Len(convs')
    BY <1>1, <1>w DEF At, Typed
  <2> QED
    BY <1>2, <1>3, <1>4, <1>w, <1>t, <2>1, RunStep

LEMMA Seated ==
  ASSUME NEW h \in Handlers, At(h, "run")', Only(h)', Sits(h)'
  PROVE  (Undisturbed => InOrder)'
<1> SUFFICES ASSUME Undisturbed'
             PROVE  InOrder'
  OBVIOUS
<1>1. Active' \subseteq {handler'[h].conv}
  BY DEF Only
<1>2. ASSUME NEW c \in Active'
      PROVE  Fits(convs[c].step, convs[c].order)'
  <2>1. c = handler'[h].conv /\ convs'[c].active
    BY <1>1, <1>2 DEF Active
  <2> QED
    BY <2>1 DEF Sits, Row, Fits, StateFor
<1> QED
  BY <1>1, <1>2 DEF InOrder

LEMMA WriteOwes ==
  ASSUME Typed, NEW h \in Handlers, At(h, "run"), NEW row \in Conversation, Write(h, row),
         left \subseteq left', left' \subseteq Orders
  PROVE  /\ Typed' /\ At(h, "run")'
         /\ (Undisturbed' <=> Undisturbed) /\ (Alone' <=> Alone)
         /\ handler'[h].todo = After(h)
         /\ handler'[h].conv = handler[h].conv /\ Order(h)' = Order(h)
         /\ Row(h)'.active => Row(h).active /\ row.active /\ Row(h)' = row
         /\ Row(h).active /\ row.active => Row(h)'.active
         /\ Len(convs') = Len(convs) /\ Active' \subseteq Active
         /\ Only(h) => Only(h)'
         /\ ~row.active => handler[h].conv \notin Active'
         /\ \A s \in Step, o \in Reference : Fits(s, o)' <=> Fits(s, o)
         /\ \A o \in Reference : Released(o) => Released(o)'
         /\ (Undisturbed /\ Row(h).active /\ row.active => Fits(row.step, row.order)) => Sits(h)'
         /\ (Undisturbed /\ Row(h).active /\ row.active => Released(row.order)) => Free(h)'
<1>w. /\ Then(h, After(h)) /\ UNCHANGED <<provider, orders, notice>> /\ Calm
      /\ convs' \in Seq(Conversation) /\ Len(convs') = Len(convs)
      /\ Row(h)' = IF Row(h).active THEN row ELSE Row(h)
      /\ handler[h].conv \in Active' <=> Row(h).active /\ row.active
      /\ Active' \subseteq Active
  BY Written
<1>t. /\ Moves(h) /\ At(h, "run")' /\ handler'[h].todo = After(h)
      /\ handler'[h].conv = handler[h].conv /\ Order(h)' = Order(h)
      /\ handler' = [k \in Handlers |-> handler'[k]]
      /\ \A k \in Handlers :
           /\ handler'[k] = [at |-> handler'[k].at, conv |-> handler'[k].conv,
                             order |-> handler'[k].order, todo |-> handler'[k].todo]
           /\ handler'[k].at = handler[k].at /\ handler'[k].conv = handler[k].conv
           /\ handler'[k].order = handler[k].order
  BY <1>w, ThenTyped
<1>1. Typed'
  <2>1. \A k \in Handlers : At(k, "run")' <=> At(k, "run")
    BY <1>t DEF At
  <2> QED
    BY <1>w, <1>t, <2>1 DEF Typed, Calm
<1>2. (Undisturbed' <=> Undisturbed) /\ (Alone' <=> Alone)
  BY <1>w DEF Calm, Undisturbed, Alone
<1>3. Only(h) => Only(h)'
  BY <1>w, <1>t, <1>2 DEF Only
<1>4. \A s \in Step, o \in Reference : Fits(s, o)' <=> Fits(s, o)
  BY <1>w DEF Fits, StateFor
<1>5. \A o \in Reference : Released(o) => Released(o)'
  BY <1>w DEF Released
<1>6. ASSUME Row(h)'.active
      PROVE  /\ Row(h).active /\ row.active /\ Row(h)' = row
             /\ row.step \in Step /\ row.order \in Reference
  BY <1>w, <1>6 DEF Conversation
<1>7. (Undisturbed /\ Row(h).active /\ row.active => Fits(row.step, row.order)) => Sits(h)'
  <2> SUFFICES ASSUME Undisturbed /\ Row(h).active /\ row.active => Fits(row.step, row.order),
                      Undisturbed', Row(h)'.active
               PROVE  Fits(Row(h).step, Row(h).order)'
    BY DEF Sits
  <2>1. Fits(row.step, row.order)'
    BY <1>2, <1>4, <1>6 DEF Fits, StateFor
  <2> QED
    BY <1>6, <1>w, <2>1 DEF Fits, StateFor
<1>8. (Undisturbed /\ Row(h).active /\ row.active => Released(row.order)) => Free(h)'
  <2> SUFFICES ASSUME Undisturbed /\ Row(h).active /\ row.active => Released(row.order),
                      Undisturbed', Row(h)'.active
               PROVE  Released(Row(h).order)'
    BY DEF Free
  <2>1. Released(row.order)
    BY <1>2, <1>6
  <2> QED
    BY <1>6, <1>w, <2>1 DEF Released
<1> QED
  BY <1>w, <1>t, <1>1, <1>2, <1>3, <1>4, <1>5, <1>7, <1>8

(* What a handler goes on to once its todo is known. *)
LEMMA NewTodo ==
  ASSUME NEW h \in Handlers
  PROVE  /\ handler'[h].todo = <<>> => Kind(handler[h].todo)' = "none"
         /\ \A a : handler'[h].todo = <<a>> =>
              /\ Kind(handler[h].todo)' = a[1] /\ Argument(h)' = a[2] /\ After(h)' = <<>>
         /\ \A a, b : handler'[h].todo = <<a, b>> =>
              /\ Kind(handler[h].todo)' = a[1] /\ Argument(h)' = a[2] /\ After(h)' = <<b>>
         /\ \A a, b, c : handler'[h].todo = <<a, b, c>> =>
              /\ Kind(handler[h].todo)' = a[1] /\ Argument(h)' = a[2] /\ After(h)' = <<b, c>>
         /\ \A a, b, c, d : handler'[h].todo = <<a, b, c, d>> =>
              /\ Kind(handler[h].todo)' = a[1] /\ Argument(h)' = a[2] /\ After(h)' = <<b, c, d>>
<1>1. handler'[h].todo = <<>> => Kind(handler[h].todo)' = "none"
  BY DEF Kind
<1>2. ASSUME NEW a, NEW rest, handler'[h].todo # <<>>, Head(handler'[h].todo) = a,
             Tail(handler'[h].todo) = rest
      PROVE  /\ Kind(handler[h].todo)' = a[1] /\ Argument(h)' = a[2] /\ After(h)' = rest
  BY <1>2 DEF Kind, Argument, After
<1>3. ASSUME NEW a, handler'[h].todo = <<a>>
      PROVE  /\ Kind(handler[h].todo)' = a[1] /\ Argument(h)' = a[2] /\ After(h)' = <<>>
  <2>1. <<a>> # <<>> /\ Head(<<a>>) = a /\ Tail(<<a>>) = <<>>
    BY Tuples
  <2> QED
    BY <1>2, <1>3, <2>1
<1>4. ASSUME NEW a, NEW b, handler'[h].todo = <<a, b>>
      PROVE  /\ Kind(handler[h].todo)' = a[1] /\ Argument(h)' = a[2] /\ After(h)' = <<b>>
  <2>1. <<a, b>> # <<>> /\ Head(<<a, b>>) = a /\ Tail(<<a, b>>) = <<b>>
    BY Tuples
  <2> QED
    BY <1>2, <1>4, <2>1
<1>5. ASSUME NEW a, NEW b, NEW c, handler'[h].todo = <<a, b, c>>
      PROVE  /\ Kind(handler[h].todo)' = a[1] /\ Argument(h)' = a[2] /\ After(h)' = <<b, c>>
  <2>1. <<a, b, c>> # <<>> /\ Head(<<a, b, c>>) = a /\ Tail(<<a, b, c>>) = <<b, c>>
    BY Tuples
  <2> QED
    BY <1>2, <1>5, <2>1
<1>6. ASSUME NEW a, NEW b, NEW c, NEW d, handler'[h].todo = <<a, b, c, d>>
      PROVE  /\ Kind(handler[h].todo)' = a[1] /\ Argument(h)' = a[2] /\ After(h)' = <<b, c, d>>
  <2>1. /\ <<a, b, c, d>> # <<>> /\ Head(<<a, b, c, d>>) = a
        /\ Tail(<<a, b, c, d>>) = <<b, c, d>>
    BY Tuples
  <2> QED
    BY <1>2, <1>6, <2>1
<1> QED
  BY <1>1, <1>3, <1>4, <1>5, <1>6

LEMMA StepKeeps ==
  ASSUME ChatInv, NEW h \in Handlers, UpdateStep(h)
  PROVE  ChatInv'
<1> DEFINE row == [Row(h) EXCEPT !.step = Argument(h)]
<1>o. Handling(h)
  BY DEF ChatInv
<1>1. Typed /\ At(h, "run") /\ OwesStep(h) /\ left' = left /\ Write(h, row)
  BY <1>o DEF ChatInv, UpdateStep, Todo, Row, Handling, Owes, Kind
<1>2. Row(h) \in Conversation /\ Argument(h) \in Step
  BY <1>1, Standing DEF OwesStep
<1>3. /\ row \in Conversation /\ row.step = Argument(h) /\ row.active = Row(h).active
      /\ row.order = Row(h).order /\ row.meta = Row(h).meta
  BY <1>2 DEF Conversation
<1> HIDE DEF row
<1>w. /\ Typed' /\ At(h, "run")'
      /\ (Undisturbed' <=> Undisturbed) /\ (Alone' <=> Alone)
      /\ handler'[h].todo = After(h)
      /\ Row(h)'.active => Row(h).active /\ row.active /\ Row(h)' = row
      /\ Only(h) => Only(h)'
      /\ (Undisturbed /\ Row(h).active /\ row.active => Fits(row.step, row.order)) => Sits(h)'
      /\ (Undisturbed /\ Row(h).active /\ row.active => Released(row.order)) => Free(h)'
  BY <1>1, <1>3, WriteOwes DEF Typed
<1>4. Only(h)'
  BY <1>1, <1>w DEF OwesStep
<1>k. ASSUME Owes(h)', Alone /\ Row(h).active => Named(row.step, row.order, row.meta)
      PROVE  ChatInv'
  BY <1>1, <1>3, <1>k, WriteKeeps DEF Typed
<1>5. CASE /\ After(h) = <<>>
           /\ MayGo(h, Argument(h)) /\ NamedAt(h, Argument(h), Row(h).meta)
  <2>1. (Undisturbed => InOrder)'
    <3>1. Sits(h)'
      BY <1>3, <1>5, <1>w DEF MayGo
    <3> QED
      BY <1>4, <1>w, <3>1, Seated
  <2>2. Kind(handler[h].todo)' = "none"
    BY <1>5, <1>w, NewTodo
  <2>3. Owes(h)'
    BY <2>1, <2>2 DEF Owes
  <2> QED
    BY <1>3, <1>5, <1>k, <2>3 DEF NamedAt
<1>6. CASE Argument(h) = "COMPLETED" /\ After(h) = <<<<"close">>>> /\ Free(h)
  <2>1. Kind(handler[h].todo)' = "close" /\ After(h)' = <<>>
    BY <1>6, <1>w, NewTodo
  <2>2. OwesClose(h)'
    BY <1>3, <1>4, <1>6, <1>w, <2>1 DEF OwesClose, Free
  <2>3. Owes(h)'
    BY <2>1, <2>2 DEF Owes
  <2> QED
    BY <1>3, <1>6, <1>k, <2>3 DEF Named
<1>7. CASE /\ Argument(h) = "WAITING_FOR_FULL_NAME"
           /\ After(h) = <<<<"metadata", NoMetadata>>>>
           /\ MayGo(h, Argument(h))
  <2>1. Kind(handler[h].todo)' = "metadata" /\ After(h)' = <<>> /\ Argument(h)' = NoMetadata
    BY <1>7, <1>w, NewTodo
  <2>2. Sits(h)'
    BY <1>3, <1>7, <1>w DEF MayGo
  <2>3. NoMetadata \in Metadata
    BY DEF NoMetadata, Metadata, Reference
  <2>4. Keeps(h, NoMetadata)'
    BY <1>3, <1>7, <1>w DEF Keeps, Named
  <2>5. OwesMetadata(h)'
    BY <1>4, <2>1, <2>2, <2>3, <2>4 DEF OwesMetadata, Keeps
  <2>6. Owes(h)'
    BY <2>1, <2>5 DEF Owes
  <2> QED
    BY <1>3, <1>7, <1>k, <2>6 DEF Named
<1> QED
  BY <1>1, <1>5, <1>6, <1>7 DEF OwesStep

LEMMA ResetKeeps ==
  ASSUME ChatInv, NEW h \in Handlers, ResetConversation(h)
  PROVE  ChatInv'
<1> DEFINE row == [Row(h) EXCEPT !.step = "IDLE", !.order = "none", !.quote = FALSE]
<1>o. Handling(h)
  BY DEF ChatInv
<1>1. Typed /\ At(h, "run") /\ OwesReset(h) /\ left' = left /\ Write(h, row)
  BY <1>o DEF ChatInv, ResetConversation, Todo, Row, Handling, Owes, Kind
<1>2. Row(h) \in Conversation
  BY <1>1, Standing
<1>3. /\ row \in Conversation /\ row.step = "IDLE" /\ row.active = Row(h).active
      /\ row.order = "none"
  BY <1>2 DEF Conversation, Reference, Step
<1> HIDE DEF row
<1>w. /\ Typed' /\ At(h, "run")'
      /\ handler'[h].todo = After(h)
      /\ Row(h)'.active => Row(h)' = row
      /\ Only(h) => Only(h)'
      /\ (Undisturbed /\ Row(h).active /\ row.active => Fits(row.step, row.order)) => Sits(h)'
      /\ (Undisturbed /\ Row(h).active /\ row.active => Released(row.order)) => Free(h)'
  BY <1>1, <1>3, WriteOwes DEF Typed
<1>4. Only(h)' /\ Sits(h)' /\ Free(h)'
  BY <1>1, <1>3, <1>w DEF OwesReset, Fits, Released
<1>k. ASSUME Owes(h)'
      PROVE  ChatInv'
  <2>1. Undisturbed /\ Row(h).active => Released(Row(h).order)
    BY <1>1 DEF OwesReset, Free
  <2>2. Named(row.step, row.order, row.meta)
    BY <1>3 DEF Named
  <2> QED
    BY <1>1, <1>3, <1>k, <2>1, <2>2, WriteKeeps DEF Typed
<1>5. CASE After(h) = <<>>
  <2>1. (Undisturbed => InOrder)'
    BY <1>4, <1>w, Seated
  <2>2. Kind(handler[h].todo)' = "none"
    BY <1>5, <1>w, NewTodo
  <2>3. Owes(h)'
    BY <2>1, <2>2 DEF Owes
  <2> QED
    BY <1>k, <2>3
<1>6. CASE After(h) = <<To("WAITING_FOR_AMOUNT")>>
  <2>1. /\ Kind(handler[h].todo)' = "step" /\ After(h)' = <<>>
        /\ Argument(h)' = "WAITING_FOR_AMOUNT"
    BY <1>6, <1>w, NewTodo DEF To
  <2>2. OwesStep(h)'
    BY <1>4, <2>1 DEF OwesStep, MayGo, NamedAt, Fits, Named, Step
  <2>3. Owes(h)'
    BY <2>1, <2>2 DEF Owes
  <2> QED
    BY <1>k, <2>3
<1>7. CASE After(h) = Renewing
  <2>1. /\ Kind(handler[h].todo)' = "create"
        /\ After(h)' = <<<<"close">>, <<"next", "WAITING_FOR_AMOUNT">>>>
    BY <1>7, <1>w, NewTodo DEF Renewing
  <2>2. OwesCreate(h)'
    BY <1>4, <2>1, Tuples DEF OwesCreate, Renewing
  <2>3. Owes(h)'
    BY <2>1, <2>2 DEF Owes
  <2> QED
    BY <1>k, <2>3
<1> QED
  BY <1>1, <1>5, <1>6, <1>7 DEF OwesReset

LEMMA CloseKeeps ==
  ASSUME ChatInv, NEW h \in Handlers, SetStatus(h)
  PROVE  ChatInv'
<1>o. Handling(h)
  BY DEF ChatInv
<1>1. Typed /\ At(h, "run") /\ OwesClose(h) /\ left' = left /\ Write(h, Closed)
  BY <1>o DEF ChatInv, SetStatus, Todo, Handling, Owes, Kind
<1>2. Closed \in Conversation /\ ~Closed.active
  BY DEF Closed, Fresh, Conversation, Reference, Step, Metadata, NoMetadata
<1>w. /\ Typed' /\ At(h, "run")' /\ (Undisturbed' <=> Undisturbed)
      /\ handler'[h].todo = After(h) /\ handler'[h].conv = handler[h].conv
      /\ Row(h)'.active => Closed.active
      /\ Len(convs') = Len(convs) /\ Active' \subseteq Active
      /\ Only(h) => Only(h)'
      /\ handler[h].conv \notin Active'
  BY <1>1, <1>2, WriteOwes DEF Typed
<1>3. Sits(h)' /\ Free(h)'
  BY <1>2, <1>w DEF Sits, Free
<1>k. ASSUME Owes(h)'
      PROVE  ChatInv'
  <2>1. Undisturbed /\ Row(h).active => Released(Row(h).order)
    BY <1>1 DEF OwesClose, Free
  <2> QED
    BY <1>1, <1>2, <1>k, <2>1, WriteKeeps DEF Typed
<1>4. ASSUME Only(h)
      PROVE  Only(h)' /\ (Undisturbed => Active = {})'
  BY <1>4, <1>w DEF Only
<1>5. CASE Only(h) /\ After(h) = <<>>
  <2>1. (Undisturbed => InOrder)'
    BY <1>3, <1>4, <1>5, <1>w, Seated
  <2>2. Kind(handler[h].todo)' = "none"
    BY <1>5, <1>w, NewTodo
  <2>3. Owes(h)'
    BY <2>1, <2>2 DEF Owes
  <2> QED
    BY <1>k, <2>3
<1>6. CASE Only(h) /\ After(h) = <<<<"create">>>>
  <2>1. Kind(handler[h].todo)' = "create" /\ After(h)' = <<>>
    BY <1>6, <1>w, NewTodo
  <2>2. OwesCreate(h)'
    BY <1>4, <1>6, <2>1 DEF OwesCreate
  <2>3. Owes(h)'
    BY <2>1, <2>2 DEF Owes
  <2> QED
    BY <1>k, <2>3
<1>7. CASE /\ After(h) = <<<<"next", "WAITING_FOR_AMOUNT">>>>
           /\ Undisturbed => Active \subseteq {handler[h].conv, Len(convs)}
  <2>1. /\ Kind(handler[h].todo)' = "next" /\ After(h)' = <<>>
        /\ Argument(h)' = "WAITING_FOR_AMOUNT"
    BY <1>7, <1>w, NewTodo
  <2>2. OwesNext(h)'
    BY <1>7, <1>w, <2>1 DEF OwesNext
  <2>3. Owes(h)'
    BY <2>1, <2>2 DEF Owes
  <2> QED
    BY <1>k, <2>3
<1> QED
  BY <1>1, <1>5, <1>6, <1>7 DEF OwesClose

LEMMA LinkKeeps ==
  ASSUME ChatInv, NEW h \in Handlers, LinkSession(h)
  PROVE  ChatInv'
<1> DEFINE row == [Row(h) EXCEPT !.order = Argument(h)]
<1>o. Handling(h)
  BY DEF ChatInv
<1>1. Typed /\ At(h, "run") /\ OwesLink(h) /\ Leave(Row(h).order) /\ Write(h, row)
  BY <1>o DEF ChatInv, LinkSession, Todo, Row, Handling, Owes, Kind
<1>2. Row(h) \in Conversation /\ Argument(h) \in Orders /\ Row(h).order \in Reference
  BY <1>1, Standing DEF OwesLink
<1>3. /\ row \in Conversation /\ row.step = Row(h).step /\ row.active = Row(h).active
      /\ row.order = Argument(h)
  BY <1>2 DEF Conversation, Reference
<1> HIDE DEF row
<1>l. /\ left \subseteq left' /\ left' \subseteq Orders
      /\ Row(h).order = "none" \/ Row(h).order \in left'
  BY <1>1, <1>2 DEF Leave, Typed, Reference
<1>w. /\ Typed' /\ At(h, "run")'
      /\ (Undisturbed' <=> Undisturbed)
      /\ handler'[h].todo = After(h)
      /\ Row(h)'.active => Row(h)' = row
      /\ Only(h) => Only(h)'
      /\ \A s \in Step, o \in Reference : Fits(s, o)' <=> Fits(s, o)
  BY <1>1, <1>3, <1>l, WriteOwes
<1>4. Only(h)'
  BY <1>1, <1>w DEF OwesLink
<1>5. /\ Kind(handler[h].todo)' = "step" /\ After(h)' = <<<<"metadata", NoMetadata>>>>
      /\ Argument(h)' = "WAITING_FOR_FULL_NAME"
  BY <1>1, <1>w, NewTodo DEF OwesLink, To
<1>6. MayGo(h, "WAITING_FOR_FULL_NAME")'
  <2> SUFFICES ASSUME Undisturbed', Row(h)'.active
               PROVE  Fits("WAITING_FOR_FULL_NAME", Row(h).order)'
    BY DEF MayGo
  <2>1. Row(h)'.order = Argument(h) /\ orders[Argument(h)] = "created" /\ Argument(h) # "none"
    BY <1>1, <1>2, <1>3, <1>w, ChatFlowAssumption DEF OwesLink, ChatFlowAssumption
  <2>2. orders' = orders
    BY <1>1 DEF Write
  <2> QED
    BY <2>1, <2>2 DEF Fits, StateFor
<1>7. OwesStep(h)'
  BY <1>4, <1>5, <1>6 DEF OwesStep, MayGo, Step
<1>8. Owes(h)'
  BY <1>5, <1>7 DEF Owes
<1>9. Alone /\ Row(h).active => Named(row.step, row.order, row.meta)
  BY <1>1, <1>3 DEF OwesLink, Bare, Named
<1>10. Released(Row(h).order) \/ Row(h).order \in left'
  BY <1>l DEF Released
<1> QED
  BY <1>1, <1>3, <1>l, <1>8, <1>9, <1>10, WriteKeeps

LEMMA LinkQuoteKeeps ==
  ASSUME ChatInv, NEW h \in Handlers, LinkQuote(h)
  PROVE  ChatInv'
<1> DEFINE row == [Row(h) EXCEPT !.quote = TRUE]
<1>o. Handling(h)
  BY DEF ChatInv
<1>1. /\ Typed /\ At(h, "run") /\ left' = left /\ Write(h, row)
      /\ Only(h) /\ After(h) = <<To("WAITING_FOR_QUOTE_CONFIRMATION")>>
  BY <1>o DEF ChatInv, LinkQuote, Todo, Row, Handling, Owes, Kind
<1>2. Row(h) \in Conversation
  BY <1>1, Standing
<1>3. /\ row \in Conversation /\ row.step = Row(h).step /\ row.active = Row(h).active
      /\ row.order = Row(h).order /\ row.meta = Row(h).meta
  BY <1>2 DEF Conversation
<1> HIDE DEF row
<1>w. Only(h)' /\ handler'[h].todo = After(h)
  BY <1>1, <1>3, WriteOwes DEF Typed
<1>4. /\ Kind(handler[h].todo)' = "step" /\ After(h)' = <<>>
      /\ Argument(h)' = "WAITING_FOR_QUOTE_CONFIRMATION"
  BY <1>1, <1>w, NewTodo DEF To
<1>5. OwesStep(h)'
  BY <1>4, <1>w DEF OwesStep, MayGo, NamedAt, Fits, Named, Step
<1>6. Owes(h)'
  BY <1>4, <1>5 DEF Owes
<1>7. Alone /\ Row(h).active => Named(row.step, row.order, row.meta)
  BY <1>1, <1>3, Standing DEF ChatInv, Row
<1> QED
  BY <1>1, <1>3, <1>6, <1>7, WriteKeeps DEF Typed

LEMMA MetadataKeeps ==
  ASSUME ChatInv, NEW h \in Handlers, UpdateMetadata(h)
  PROVE  ChatInv'
<1>o. Handling(h)
  BY DEF ChatInv
<1>1. Typed /\ At(h, "run") /\ OwesMetadata(h) /\ left' = left
  BY <1>o DEF ChatInv, UpdateMetadata, Todo, Handling, Owes, Kind
<1>2. PICK m \in Metadata : m = Argument(h)
  BY <1>1 DEF OwesMetadata
<1>r. /\ Row(h) \in Conversation /\ Row(h).step \in Step /\ Row(h).order \in Reference
      /\ Order(h) \in Reference
  BY <1>1, Standing
<1>p. [Row(h) EXCEPT !.meta = m] \in Conversation
  BY <1>r DEF Conversation
<1>q. PICK row \in Conversation : row = [Row(h) EXCEPT !.meta = m]
  BY <1>p
<1>3. /\ Write(h, row) /\ row.step = Row(h).step /\ row.active = Row(h).active
      /\ row.order = Row(h).order /\ row.meta = m
  BY <1>2, <1>r, <1>q DEF UpdateMetadata, Row, Conversation
<1>w. /\ Typed' /\ At(h, "run")'
      /\ (Undisturbed' <=> Undisturbed) /\ (Alone' <=> Alone)
      /\ handler'[h].todo = After(h) /\ Order(h)' = Order(h)
      /\ Row(h)'.active => Row(h).active /\ row.active /\ Row(h)' = row
      /\ Row(h).active /\ row.active => Row(h)'.active
      /\ Only(h) => Only(h)'
      /\ \A s \in Step, o \in Reference : Fits(s, o)' <=> Fits(s, o)
      /\ \A o \in Reference : Released(o) => Released(o)'
      /\ (Undisturbed /\ Row(h).active /\ row.active => Fits(row.step, row.order)) => Sits(h)'
  BY <1>1, <1>3, WriteOwes DEF Typed
<1>4. Only(h)' /\ (Sits(h) => Sits(h)')
  BY <1>1, <1>3, <1>w DEF OwesMetadata, Sits
<1>k. ASSUME Owes(h)'
      PROVE  ChatInv'
  <2>1. Alone /\ Row(h).active => Named(row.step, row.order, row.meta)
    BY <1>1, <1>2, <1>3 DEF OwesMetadata, Keeps
  <2> QED
    BY <1>1, <1>3, <1>k, <2>1, WriteKeeps DEF Typed
<1>5. CASE After(h) = <<>> /\ Sits(h)
  <2>1. (Undisturbed => InOrder)'
    BY <1>4, <1>5, <1>w, Seated
  <2>2. Kind(handler[h].todo)' = "none"
    BY <1>5, <1>w, NewTodo
  <2>3. Owes(h)'
    BY <2>1, <2>2 DEF Owes
  <2> QED
    BY <1>k, <2>3
<1>6. CASE After(h) = <<<<"submitIdentity", m>>>> /\ Submits(h, m)
  <2>1. Kind(handler[h].todo)' = "submitIdentity" /\ Argument(h)' = m
    BY <1>6, <1>w, NewTodo
  <2>2. Holds(h)'
    <3>1. ASSUME Alone', Row(h)'.active
          PROVE  Row(h)'.order = Order(h)'
      BY <1>3, <1>6, <1>w, <3>1 DEF Submits, Holds
    <3>2. ASSUME Undisturbed', ~Row(h)'.active
          PROVE  Released(Order(h))'
      <4>1. Released(Order(h))
        BY <1>3, <1>6, <1>w, <3>2, Standing, <1>1 DEF Submits, Holds
      <4> QED
        BY <1>r, <1>w, <4>1 DEF Released
    <3> QED
      BY <3>1, <3>2 DEF Holds
  <2>3. Submits(h, m)'
    BY <1>3, <1>4, <1>6, <1>w, <2>2 DEF Submits
  <2>4. Submits(h, Argument(h))'
    BY <2>1, <2>3 DEF Submits
  <2>5. Owes(h)'
    BY <1>4, <2>1, <2>4 DEF Owes
  <2> QED
    BY <1>k, <2>5
<1>7. CASE \E s \in {"WAITING_FOR_DOCUMENT_NUMBER", "WAITING_FOR_EMAIL"} :
             After(h) = <<To(s)>> /\ MayGo(h, s) /\ NamedAt(h, s, m)
  <2>1. PICK s \in {"WAITING_FOR_DOCUMENT_NUMBER", "WAITING_FOR_EMAIL"} :
               After(h) = <<To(s)>> /\ MayGo(h, s) /\ NamedAt(h, s, m)
    BY <1>7
  <2>2. Kind(handler[h].todo)' = "step" /\ After(h)' = <<>> /\ Argument(h)' = s
    BY <1>w, <2>1, NewTodo DEF To
  <2>3. s \in Step
    BY DEF Step
  <2>4. MayGo(h, s)'
    <3> SUFFICES ASSUME Undisturbed', Row(h)'.active
                 PROVE  Fits(s, Row(h).order)'
      BY DEF MayGo
    <3>1. Fits(s, Row(h).order)
      BY <1>w, <2>1 DEF MayGo
    <3>2. Fits(s, row.order)'
      BY <1>3, <1>r, <1>w, <2>3, <3>1
    <3> QED
      BY <1>3, <1>w, <3>2 DEF Fits, StateFor
  <2>5. NamedAt(h, s, Row(h).meta)'
    BY <1>3, <1>w, <2>1 DEF NamedAt
  <2>6. OwesStep(h)'
    BY <1>4, <2>2, <2>3, <2>4, <2>5 DEF OwesStep, MayGo, NamedAt
  <2>7. Owes(h)'
    BY <2>2, <2>6 DEF Owes
  <2> QED
    BY <1>k, <2>7
<1> QED
  BY <1>1, <1>2, <1>5, <1>6, <1>7 DEF OwesMetadata

(* createConversation: a row is added, the others stay as they are. *)
LEMMA Created ==
  ASSUME Typed, Len(convs) < MaxConversations, convs' = Append(convs, Fresh)
  PROVE  /\ convs' \in Seq(Conversation) /\ Len(convs') = Len(convs) + 1
         /\ Len(convs') <= MaxConversations
         /\ convs'[Len(convs')] = Fresh /\ \A c \in DOMAIN convs : convs'[c] = convs[c]
         /\ Active' = Active \cup {Len(convs')} /\ Len(convs') \notin Active
<1>1. Fresh \in Conversation /\ Fresh.active
  BY DEF Fresh, Conversation, Reference, Step, Metadata, NoMetadata
<1>2. convs \in Seq(Conversation) /\ MaxConversations \in Nat
  BY ChatFlowAssumption DEF Typed, ChatFlowAssumption
<1>3. /\ convs' \in Seq(Conversation) /\ Len(convs') = Len(convs) + 1
      /\ convs'[Len(convs')] = Fresh /\ \A c \in DOMAIN convs : convs'[c] = convs[c]
      /\ DOMAIN convs' = 1..(Len(convs) + 1) /\ DOMAIN convs = 1..Len(convs)
      /\ Len(convs) \in Nat
  BY <1>1, <1>2
<1>4. Active' = Active \cup {Len(convs')}
  BY <1>1, <1>3 DEF Active
<1>5. Len(convs') \notin Active
  BY <1>3 DEF Active
<1> QED
  BY <1>2, <1>3, <1>4, <1>5

LEMMA CreateKeeps ==
  ASSUME ChatInv, NEW h \in Handlers, CreateConversation(h)
  PROVE  ChatInv'
<1>o. Handling(h)
  BY DEF ChatInv
<1>1. /\ Typed /\ At(h, "run") /\ OwesCreate(h) /\ Then(h, After(h)) /\ Calm
      /\ UNCHANGED <<provider, orders, notice, left>>
      /\ Len(convs) < MaxConversations /\ convs' = Append(convs, Fresh)
  BY <1>o DEF ChatInv, CreateConversation, Todo, Handling, Owes, Kind, Pop, After
<1>c. /\ convs' \in Seq(Conversation) /\ Len(convs') = Len(convs) + 1
      /\ Len(convs') <= MaxConversations
      /\ convs'[Len(convs')] = Fresh /\ \A c \in DOMAIN convs : convs'[c] = convs[c]
      /\ Active' = Active \cup {Len(convs')} /\ Len(convs') \notin Active
  BY <1>1, Created
<1>t. /\ Moves(h) /\ At(h, "run")' /\ handler'[h].todo = After(h)
      /\ handler'[h].conv = handler[h].conv
      /\ handler' = [k \in Handlers |-> handler'[k]]
      /\ \A k \in Handlers :
           /\ handler'[k] = [at |-> handler'[k].at, conv |-> handler'[k].conv,
                             order |-> handler'[k].order, todo |-> handler'[k].todo]
           /\ handler'[k].at = handler[k].at /\ handler'[k].conv = handler[k].conv
           /\ handler'[k].order = handler[k].order
  BY <1>1, ThenTyped
<1>2. Typed'
  <2>1. \A k \in Handlers : At(k, "run")' <=> At(k, "run")
    BY <1>t DEF At
  <2>2. Len(convs) \in Nat
    BY <1>1 DEF Typed
  <2> QED
    BY <1>1, <1>c, <1>t, <2>1, <2>2 DEF Typed, Calm
<1>3. \A c \in Active : c \in DOMAIN convs /\ convs'[c] = convs[c] /\ c \in Active'
  BY <1>c DEF Active
<1>4. ASSUME Alone
      PROVE  (\A c \in Active : Named(convs[c].step, convs[c].order, convs[c].meta))'
  <2>1. \A c \in Active : Named(convs[c].step, convs[c].order, convs[c].meta)
    BY <1>4 DEF ChatInv
  <2>2. Named(Fresh.step, Fresh.order, Fresh.meta)
    BY DEF Named, Fresh
  <2> QED
    BY <1>3, <1>c, <2>1, <2>2 DEF Named
<1>5. ASSUME NEW o \in Orders
      PROVE  Told(o)'
  <2>1. Told(o) /\ (Undisturbed' => Undisturbed)
    BY <1>1 DEF ChatInv, Calm, Undisturbed
  <2> QED
    BY <1>1, <1>3, <2>1, ToldRest
<1>6. (Undisturbed' <=> Undisturbed) /\ (Released(Row(h).order) => Released(Row(h).order)')
      /\ Row(h)' = Row(h)
  <2>1. Row(h)' = Row(h)
    BY <1>1, <1>c, <1>t, Standing DEF Row
  <2> QED
    BY <1>1, <2>1 DEF Calm, Undisturbed, Released
<1>7. Owes(h)'
  <2>1. CASE After(h) = <<>> /\ (Undisturbed => Active = {})
    <3>1. Kind(handler[h].todo)' = "none"
      BY <1>t, <2>1, NewTodo
    <3>2. ASSUME Undisturbed'
          PROVE  InOrder'
      <4>1. Active' = {Len(convs')}
        BY <1>6, <1>c, <2>1, <3>2
      <4>2. Fits(convs[Len(convs)].step, convs[Len(convs)].order)'
        BY <1>c DEF Fits, Fresh
      <4> QED
        BY <4>1, <4>2 DEF InOrder, Fits, StateFor
    <3> QED
      BY <3>1, <3>2 DEF Owes
  <2>2. CASE After(h) = Tail(Renewing) /\ Only(h) /\ Free(h)
    <3>1. After(h) = <<<<"close">>, <<"next", "WAITING_FOR_AMOUNT">>>>
      BY <2>2, Tuples DEF Renewing
    <3>2. /\ Kind(handler[h].todo)' = "close"
          /\ After(h)' = <<<<"next", "WAITING_FOR_AMOUNT">>>>
      BY <1>t, <3>1, NewTodo
    <3>3. Free(h)'
      BY <1>6, <2>2 DEF Free
    <3>4. (Undisturbed => Active \subseteq {handler[h].conv, Len(convs)})'
      BY <1>6, <1>c, <1>t, <2>2 DEF Only
    <3> QED
      BY <3>2, <3>3, <3>4 DEF Owes, OwesClose
  <2> QED
    BY <1>1, <2>1, <2>2 DEF OwesCreate
<1>8. ~At(h, "idle") /\ Len(convs) <= Len(convs')
  BY <1>1, <1>c DEF At, Typed
<1> QED
  BY <1>1, <1>2, <1>4, <1>5, <1>7, <1>8, <1>t, RunStep

LEMMA NextKeeps ==
  ASSUME ChatInv, NEW h \in Handlers, UpdateNextStep(h)
  PROVE  ChatInv'
<1> DEFINE n == Len(convs)
<1>o. Handling(h)
  BY DEF ChatInv
<1>1. /\ Typed /\ At(h, "run") /\ OwesNext(h) /\ Then(h, After(h)) /\ Calm
      /\ UNCHANGED <<provider, orders, notice, left>>
      /\ convs' = [convs EXCEPT ![n].step = "WAITING_FOR_AMOUNT"]
  BY <1>o DEF ChatInv, UpdateNextStep, Todo, Handling, Owes, OwesNext, Kind, Pop, After
<1>c. /\ convs' \in Seq(Conversation) /\ Len(convs') = n
      /\ \A c \in DOMAIN convs :
           convs'[c].active = convs[c].active /\ convs'[c].order = convs[c].order
      /\ \A c \in DOMAIN convs : c # n => convs'[c] = convs[c]
      /\ convs'[n].step = "WAITING_FOR_AMOUNT"
      /\ Active' = Active
  <2>1. n \in 1..n /\ convs \in Seq(Conversation) /\ convs[n] \in Conversation
    BY <1>1, Standing DEF Typed
  <2> DEFINE row == [convs[n] EXCEPT !.step = "WAITING_FOR_AMOUNT"]
  <2>2. /\ row \in Conversation /\ row.step = "WAITING_FOR_AMOUNT"
        /\ row.active = convs[n].active /\ row.order = convs[n].order
    BY <2>1 DEF Conversation, Step
  <2>3. convs' = [convs EXCEPT ![n] = row]
    BY <1>1
  <2> HIDE DEF row
  <2>4. /\ convs' \in Seq(Conversation) /\ Len(convs') = n
        /\ DOMAIN convs' = DOMAIN convs
        /\ convs'[n] = row /\ \A c \in DOMAIN convs : c # n => convs'[c] = convs[c]
    BY <2>1, <2>2, <2>3
  <2> QED
    BY <2>2, <2>4 DEF Active
<1>t. /\ Moves(h) /\ At(h, "run")' /\ handler'[h].todo = After(h)
      /\ handler' = [k \in Handlers |-> handler'[k]]
      /\ \A k \in Handlers :
           /\ handler'[k] = [at |-> handler'[k].at, conv |-> handler'[k].conv,
                             order |-> handler'[k].order, todo |-> handler'[k].todo]
           /\ handler'[k].at = handler[k].at /\ handler'[k].conv = handler[k].conv
           /\ handler'[k].order = handler[k].order
  BY <1>1, ThenTyped
<1>2. Typed'
  <2>1. \A k \in Handlers : At(k, "run")' <=> At(k, "run")
    BY <1>t DEF At
  <2> QED
    BY <1>1, <1>c, <1>t, <2>1 DEF Typed, Calm
<1>3. ASSUME Alone
      PROVE  (\A c \in Active : Named(convs[c].step, convs[c].order, convs[c].meta))'
  <2>1. \A c \in Active : Named(convs[c].step, convs[c].order, convs[c].meta)
    BY <1>3 DEF ChatInv
  <2>2. \A c \in Active' : c \in DOMAIN convs /\ c \in Active
    BY <1>c DEF Active
  <2> QED
    BY <1>c, <2>1, <2>2 DEF Named
<1>4. ASSUME NEW o \in Orders
      PROVE  Told(o)'
  <2>1. Told(o) /\ (Undisturbed' => Undisturbed)
    BY <1>1 DEF ChatInv, Calm, Undisturbed
  <2>2. \A c \in Active : c \in Active' /\ convs'[c].order = convs[c].order
    BY <1>c DEF Active
  <2> QED
    BY <1>1, <2>1, <2>2, ToldRest
<1>5. Owes(h)'
  <2>1. Kind(handler[h].todo)' = "none"
    BY <1>1, <1>t, NewTodo DEF OwesNext
  <2>2. ASSUME Undisturbed'
        PROVE  InOrder'
    <3>1. Active' \subseteq {n}
      BY <1>1, <1>c, <2>2 DEF OwesNext, Calm, Undisturbed
    <3> QED
      BY <1>c, <3>1 DEF InOrder, Fits
  <2> QED
    BY <2>1, <2>2 DEF Owes
<1>6. ~At(h, "idle") /\ Len(convs) <= Len(convs')
  BY <1>1, <1>c DEF At, Typed
<1> QED
  BY <1>1, <1>2, <1>3, <1>4, <1>5, <1>6, <1>t, RunStep

-----------------------------------------------------------------------------
(* The handler's calls of ConversionService. *)

LEMMA ServiceKeeps ==
  ASSUME ChatInv, NEW h \in Handlers, At(h, "run"), NEW todo, Then(h, todo),
         UNCHANGED <<provider, convs>>, Calm, orders' \in [Orders -> OrderState],
         notice' \in [Orders -> [at: {"none", "find", "step", "status", "send", "told", "lost"},
                                 conv: 0..MaxConversations]],
         \A o \in Orders :
           notice'[o].at \in {"step", "status"} => notice'[o].conv \in 1..Len(convs),
         left' \subseteq Orders, Owes(h)', \A o \in Orders : Told(o)'
  PROVE  ChatInv'
<1>1. Typed
  BY DEF ChatInv
<1>t. /\ Moves(h) /\ At(h, "run")'
      /\ handler' = [k \in Handlers |-> handler'[k]]
      /\ \A k \in Handlers :
           /\ handler'[k] = [at |-> handler'[k].at, conv |-> handler'[k].conv,
                             order |-> handler'[k].order, todo |-> handler'[k].todo]
           /\ handler'[k].at = handler[k].at /\ handler'[k].conv = handler[k].conv
           /\ handler'[k].order = handler[k].order
  BY <1>1, ThenTyped
<1>2. Typed'
  <2>1. \A k \in Handlers : At(k, "run")' <=> At(k, "run")
    BY <1>t DEF At
  <2> QED
    BY <1>1, <1>t, <2>1 DEF Typed, Calm
<1>3. Active' = Active
  BY DEF Active
<1>4. Alone => (\A c \in Active : Named(convs[c].step, convs[c].order, convs[c].meta))'
  BY <1>3 DEF ChatInv, Named
<1>5. ~At(h, "idle") /\ Len(convs) <= Len(convs')
  BY <1>1 DEF At, Typed
<1> QED
  BY <1>2, <1>4, <1>5, <1>t, RunStep

LEMMA ServiceSame ==
  ASSUME Typed, NEW h \in Handlers, At(h, "run"), NEW todo, Then(h, todo), convs' = convs, Calm
  PROVE  /\ (Undisturbed' <=> Undisturbed) /\ (Alone' <=> Alone)
         /\ handler'[h].todo = todo /\ Row(h)' = Row(h) /\ Order(h)' = Order(h)
         /\ Only(h) => Only(h)'
         /\ Bare(h) => Bare(h)'
         /\ orders' = orders => (Sits(h) => Sits(h)')
         /\ Only(h)' /\ Sits(h)' => (Undisturbed => InOrder)'
<1>1. (Undisturbed' <=> Undisturbed) /\ (Alone' <=> Alone)
  BY DEF Calm, Undisturbed, Alone
<1>2. /\ handler'[h].todo = todo /\ Order(h)' = Order(h) /\ handler'[h].conv = handler[h].conv
      /\ At(h, "run")'
  BY ThenTyped
<1>3. Row(h)' = Row(h) /\ Active' = Active
  BY <1>2 DEF Row, Active
<1>4. (Only(h) => Only(h)') /\ (Bare(h) => Bare(h)')
  BY <1>1, <1>2, <1>3 DEF Only, Bare
<1>5. orders' = orders => (Sits(h) => Sits(h)')
  BY <1>1, <1>3 DEF Sits, Fits, StateFor
<1>6. Only(h)' /\ Sits(h)' => (Undisturbed => InOrder)'
  BY <1>2, Seated
<1> QED
  BY <1>1, <1>2, <1>3, <1>4, <1>5, <1>6

(* A call that moves no order. *)
LEMMA Unmoved ==
  ASSUME ChatInv, NEW h \in Handlers, At(h, "run"), NEW todo, Then(h, todo),
         UNCHANGED <<provider, convs, orders, notice, left>>, Calm, Owes(h)'
  PROVE  ChatInv'
<1>1. \A o \in Orders : Told(o)'
  <2>1. (Undisturbed' => Undisturbed) /\ \A c \in Active : c \in Active'
    BY DEF Calm, Undisturbed, Active
  <2>2. \A o \in Orders : Told(o)
    BY DEF ChatInv
  <2> QED
    BY <2>1, <2>2, ToldRest
<1>2. /\ orders' \in [Orders -> OrderState] /\ left' \subseteq Orders
      /\ notice' \in [Orders -> [at: {"none", "find", "step", "status", "send", "told", "lost"},
                                 conv: 0..MaxConversations]]
      /\ \A o \in Orders : notice'[o].at \in {"step", "status"} =>
                             notice'[o].conv \in 1..Len(convs)
  BY DEF ChatInv, Typed
<1> QED
  BY <1>1, <1>2, ServiceKeeps

LEMMA Refused ==
  ASSUME ChatInv, NEW h \in Handlers, At(h, "run"), Then(h, <<>>),
         UNCHANGED <<provider, convs, orders, notice, left>>, Calm, Only(h), Sits(h)
  PROVE  ChatInv'
<1>1. handler'[h].todo = <<>> /\ (Undisturbed => InOrder)'
  BY ServiceSame DEF ChatInv
<1>2. Owes(h)'
  BY <1>1, NewTodo DEF Owes
<1> QED
  BY <1>2, Unmoved

(* A call that moves the handler's order: the row, if it is still there, is *)
(* that order's, and the notice is not yet due.                            *)
LEMMA Moved ==
  ASSUME ChatInv, NEW h \in Handlers, At(h, "run"), NEW state \in OrderState, NEW todo,
         Move(h, state, todo), StateOf(h) \in {"created", "screening", "identified", "payable"},
         state \notin {"none", "completed"},
         UNCHANGED <<provider, convs, notice, left>>, Calm, Holds(h)
  PROVE  /\ Then(h, todo) /\ Order(h) \in Orders
         /\ Owes(h)' => ChatInv'
         /\ orders'[Order(h)] = state
         /\ Alone' /\ Row(h)'.active => Row(h)'.order = Order(h)
         /\ Undisturbed' /\ Row(h)'.active =>
              StateFor(Row(h).order)' = state /\ Row(h)'.order \in Orders
<1>1. Typed /\ \A o \in Orders : Told(o)
  BY DEF ChatInv
<1>2. Then(h, todo) /\ orders' = [orders EXCEPT ![Order(h)] = state]
  BY DEF Move
<1>3. Order(h) \in Orders /\ orders[Order(h)] \in {"created", "screening", "identified", "payable"}
  BY <1>1, Standing DEF StateOf, Reference
<1>4. /\ orders' \in [Orders -> OrderState] /\ orders'[Order(h)] = state
      /\ \A o \in Orders : o # Order(h) => orders'[o] = orders[o]
  BY <1>1, <1>2, <1>3 DEF Typed
<1>5. (Undisturbed' <=> Undisturbed) /\ (Alone' <=> Alone) /\ Row(h)' = Row(h)
  BY <1>1, <1>2, ServiceSame
<1>6. Alone' /\ Row(h)'.active => Row(h)'.order = Order(h)
  BY <1>5 DEF Holds
<1>7. Undisturbed => Alone
  BY DEF Undisturbed, Alone
<1>8. Undisturbed' /\ Row(h)'.active =>
        StateFor(Row(h).order)' = state /\ Row(h)'.order \in Orders
  BY <1>3, <1>4, <1>5, <1>6, <1>7, ChatFlowAssumption DEF StateFor, ChatFlowAssumption
<1>9. \A o \in Orders : Told(o)'
  <2>1. \A c \in Active : c \in Active'
    BY DEF Active
  <2> SUFFICES ASSUME NEW o \in Orders
               PROVE  Told(o)'
    OBVIOUS
  <2>2. CASE o # Order(h)
    BY <1>1, <1>4, <1>5, <2>1, <2>2, ToldRest
  <2>3. CASE o = Order(h)
    <3>1. notice[o].at = "none"
      BY <1>1, <1>3, <2>3 DEF Told, Typed
    <3>2. ASSUME Undisturbed, state \notin {"closed", "expired"}
          PROVE  Kept(o)'
      <4>1. CASE Row(h).active
        <5>1. Row(h).order = o /\ handler[h].conv \in Active
          BY <1>1, <1>7, <2>3, <3>2, <4>1, Standing DEF Holds
        <5> QED
          BY <2>1, <5>1 DEF Kept, Row
      <4>2. CASE ~Row(h).active
        <5>1. Released(o)
          BY <2>3, <3>2, <4>2 DEF Holds
        <5>2. o # "none"
          BY ChatFlowAssumption DEF ChatFlowAssumption
        <5> QED
          BY <1>3, <2>3, <5>1, <5>2 DEF Released, Kept
      <4> QED
        BY <4>1, <4>2
    <3> QED
      BY <1>4, <1>5, <2>3, <3>1, <3>2 DEF Told, NoticeAt
  <2> QED
    BY <2>2, <2>3
<1>10. ASSUME Owes(h)'
       PROVE  ChatInv'
  <2>1. /\ left' \subseteq Orders
        /\ notice' \in [Orders -> [at: {"none", "find", "step", "status", "send", "told", "lost"},
                                   conv: 0..MaxConversations]]
        /\ \A o \in Orders : notice'[o].at \in {"step", "status"} =>
                               notice'[o].conv \in 1..Len(convs)
    BY <1>1 DEF Typed
  <2> QED
    BY <1>2, <1>4, <1>9, <1>10, <2>1, ServiceKeeps
<1> QED
  BY <1>2, <1>3, <1>4, <1>6, <1>8, <1>10

LEMMA Expired ==
  ASSUME ChatInv, NEW h \in Handlers, At(h, "run"), Expire(h),
         UNCHANGED <<provider, convs, notice, left>>, Calm, Only(h), Holds(h)
  PROVE  ChatInv'
<1>1. /\ StateOf(h) \in {"created", "screening", "identified", "payable"}
      /\ Move(h, "expired", <<<<"reset">>>>) /\ "expired" \in OrderState
  BY DEF Expire, OrderState
<1>2. /\ Then(h, <<<<"reset">>>>) /\ Order(h) \in Orders /\ orders'[Order(h)] = "expired"
      /\ Owes(h)' => ChatInv'
      /\ Alone' /\ Row(h)'.active => Row(h)'.order = Order(h)
  BY <1>1, Moved
<1>3. Only(h)' /\ handler'[h].todo = <<<<"reset">>>>
  BY <1>2, ServiceSame DEF ChatInv
<1>4. Kind(handler[h].todo)' = "reset" /\ After(h)' = <<>>
  BY <1>3, NewTodo
<1>5. Free(h)'
  BY <1>2 DEF Free, Released, Undisturbed, Alone
<1> QED
  BY <1>2, <1>3, <1>4, <1>5 DEF Owes, OwesReset

(* What follows a move to a step that asks for no metadata. *)
LEMMA StepsOn ==
  ASSUME Typed, NEW h \in Handlers, At(h, "run"), Only(h), Calm, convs' = convs,
         NEW step \in Step, Then(h, <<To(step)>>),
         step \notin {"WAITING_FOR_DOCUMENT_NUMBER", "WAITING_FOR_EMAIL"},
         MayGo(h, step)'
  PROVE  Owes(h)'
<1>1. Only(h)' /\ handler'[h].todo = <<To(step)>>
  BY ServiceSame
<1>2. Kind(handler[h].todo)' = "step" /\ After(h)' = <<>> /\ Argument(h)' = step
  BY <1>1, NewTodo DEF To
<1>3. NamedAt(h, step, Row(h).meta)'
  BY DEF NamedAt, Named
<1>4. OwesStep(h)'
  BY <1>1, <1>2, <1>3 DEF OwesStep, MayGo, NamedAt
<1> QED
  BY <1>2, <1>4 DEF Owes

LEMMA CreateQuoteKeeps ==
  ASSUME ChatInv, NEW h \in Handlers, CreateQuote(h)
  PROVE  ChatInv'
<1> DEFINE todo == <<<<"quote">>, To("WAITING_FOR_QUOTE_CONFIRMATION")>>
<1>o. Handling(h)
  BY DEF ChatInv
<1>1. /\ Typed /\ At(h, "run") /\ Only(h) /\ Sits(h) /\ Calm
      /\ UNCHANGED <<provider, convs, orders, notice, left>>
      /\ Then(h, todo) \/ Then(h, <<>>)
  BY <1>o DEF ChatInv, CreateQuote, Todo, Handling, Owes, Kind
<1>2. CASE Then(h, <<>>)
  BY <1>1, <1>2, Refused
<1>3. CASE Then(h, todo)
  <2>1. Only(h)' /\ handler'[h].todo = todo
    BY <1>1, <1>3, ServiceSame
  <2>2. /\ Kind(handler[h].todo)' = "quote"
        /\ After(h)' = <<To("WAITING_FOR_QUOTE_CONFIRMATION")>>
    BY <2>1, NewTodo
  <2>3. Owes(h)'
    BY <2>1, <2>2 DEF Owes
  <2> QED
    BY <1>1, <1>3, <2>3, Unmoved
<1> QED
  BY <1>1, <1>2, <1>3

LEMMA CreateSessionKeeps ==
  ASSUME ChatInv, NEW h \in Handlers, CreateSession(h)
  PROVE  ChatInv'
<1>o. Handling(h)
  BY DEF ChatInv
<1>1. /\ Typed /\ At(h, "run") /\ Only(h) /\ Sits(h) /\ Bare(h) /\ Calm
      /\ UNCHANGED <<provider, convs, notice, left>>
  BY <1>o DEF ChatInv, CreateSession, Todo, Handling, Owes, Kind
<1>2. ASSUME NEW o \in Orders, orders[o] = "none",
             orders' = [orders EXCEPT ![o] = "created"], Then(h, SessionScript(o))
      PROVE  ChatInv'
  <2>1. /\ orders' \in [Orders -> OrderState] /\ orders'[o] = "created"
        /\ \A p \in Orders : p # o => orders'[p] = orders[p]
    BY <1>1, <1>2 DEF Typed, OrderState
  <2>2. Only(h)' /\ Bare(h)' /\ handler'[h].todo = SessionScript(o) /\ (Undisturbed' => Undisturbed)
    BY <1>1, <1>2, ServiceSame
  <2>3. /\ Kind(handler[h].todo)' = "link" /\ Argument(h)' = o
        /\ After(h)' = <<To("WAITING_FOR_FULL_NAME"), <<"metadata", NoMetadata>>>>
    BY <2>2, NewTodo DEF SessionScript
  <2>4. Owes(h)'
    BY <2>1, <2>2, <2>3 DEF Owes, OwesLink
  <2>5. ASSUME NEW p \in Orders
        PROVE  Told(p)'
    <3>1. Told(p) /\ \A c \in Active : c \in Active'
      BY <1>1 DEF ChatInv, Active
    <3>2. CASE p # o
      BY <1>1, <2>1, <2>2, <3>1, <3>2, ToldRest
    <3>3. CASE p = o
      BY <1>1, <1>2, <2>1, <2>2, <3>1, <3>3 DEF Told, NoticeAt
    <3> QED
      BY <3>2, <3>3
  <2>6. /\ left' \subseteq Orders
        /\ notice' \in [Orders -> [at: {"none", "find", "step", "status", "send", "told", "lost"},
                                   conv: 0..MaxConversations]]
        /\ \A p \in Orders : notice'[p].at \in {"step", "status"} =>
                               notice'[p].conv \in 1..Len(convs)
    BY <1>1 DEF Typed
  <2> QED
    BY <1>1, <1>2, <2>1, <2>4, <2>5, <2>6, ServiceKeeps
<1>3. CASE orders' = orders /\ Then(h, <<>>)
  BY <1>1, <1>3, Refused
<1>4. CASE orders' = orders /\ Then(h, <<To("WAITING_FOR_AMOUNT")>>)
  <2>1. MayGo(h, "WAITING_FOR_AMOUNT")' /\ "WAITING_FOR_AMOUNT" \in Step
    BY DEF MayGo, Fits, Step
  <2>2. Owes(h)'
    BY <1>1, <1>4, <2>1, StepsOn
  <2> QED
    BY <1>1, <1>4, <2>2, Unmoved
<1> QED
  BY <1>2, <1>3, <1>4 DEF CreateSession

LEMMA SubmitPayoutDetailsKeeps ==
  ASSUME ChatInv, NEW h \in Handlers, SubmitPayoutDetails(h)
  PROVE  ChatInv'
<1>o. Handling(h)
  BY DEF ChatInv
<1>1. /\ Typed /\ At(h, "run") /\ Only(h) /\ Sits(h) /\ Holds(h) /\ Calm
      /\ UNCHANGED <<provider, convs, notice, left>>
  BY <1>o DEF ChatInv, SubmitPayoutDetails, Todo, Handling, Owes, Kind
<1>2. CASE Expire(h)
  BY <1>1, <1>2, Expired
<1>3. CASE Refuse(h)
  BY <1>1, <1>3, Refused DEF Refuse
<1>4. CASE /\ StateOf(h) = "identified"
           /\ Move(h, "payable", <<To("WAITING_FOR_PAYMENT_CONFIRMATION")>>)
  <2>1. "payable" \in OrderState /\ "WAITING_FOR_PAYMENT_CONFIRMATION" \in Step
    BY DEF OrderState, Step
  <2>2. /\ Then(h, <<To("WAITING_FOR_PAYMENT_CONFIRMATION")>>) /\ Owes(h)' => ChatInv'
        /\ Undisturbed' /\ Row(h)'.active => StateFor(Row(h).order)' = "payable"
        /\ Then(h, <<To("WAITING_FOR_PAYMENT_CONFIRMATION")>>)
    BY <1>1, <1>4, <2>1, Moved
  <2>3. MayGo(h, "WAITING_FOR_PAYMENT_CONFIRMATION")'
    BY <2>2 DEF MayGo, Fits
  <2> QED
    BY <1>1, <2>1, <2>2, <2>3, StepsOn
<1> QED
  BY <1>2, <1>3, <1>4 DEF SubmitPayoutDetails

LEMMA InitiatePaymentKeeps ==
  ASSUME ChatInv, NEW h \in Handlers, InitiatePayment(h)
  PROVE  ChatInv'
<1>o. Handling(h)
  BY DEF ChatInv
<1>1. /\ Typed /\ At(h, "run") /\ Only(h) /\ Sits(h) /\ Holds(h) /\ Calm
      /\ UNCHANGED <<provider, convs, notice, left>>
  BY <1>o DEF ChatInv, InitiatePayment, Todo, Handling, Owes, Kind
<1>2. CASE Expire(h)
  BY <1>1, <1>2, Expired
<1>3. CASE Refuse(h)
  BY <1>1, <1>3, Refused DEF Refuse
<1>4. CASE StateOf(h) = "payable" /\ Move(h, "pushed", <<To("PROCESSING")>>)
  <2>1. "pushed" \in OrderState /\ "PROCESSING" \in Step
    BY DEF OrderState, Step
  <2>2. /\ Owes(h)' => ChatInv'
        /\ Undisturbed' /\ Row(h)'.active => StateFor(Row(h).order)' = "pushed"
        /\ Then(h, <<To("PROCESSING")>>)
    BY <1>1, <1>4, <2>1, Moved
  <2>3. MayGo(h, "PROCESSING")'
    BY <2>2 DEF MayGo, Fits
  <2> QED
    BY <1>1, <2>1, <2>2, <2>3, StepsOn
<1> QED
  BY <1>2, <1>3, <1>4 DEF InitiatePayment

LEMMA SubmitIdentityKeeps ==
  ASSUME ChatInv, NEW h \in Handlers, SubmitIdentity(h)
  PROVE  ChatInv'
<1>o. Handling(h)
  BY DEF ChatInv
<1>1. /\ Typed /\ At(h, "run") /\ Only(h) /\ Calm
      /\ Argument(h) \in Metadata /\ Submits(h, Argument(h))
      /\ UNCHANGED <<provider, convs, notice, left>>
  BY <1>o DEF ChatInv, SubmitIdentity, Todo, Handling, Owes, Kind
<1>s. Sits(h) /\ Holds(h)
  BY <1>1 DEF Submits
<1>2. CASE Expire(h)
  BY <1>1, <1>s, <1>2, Expired
<1>3. CASE Refuse(h)
  BY <1>1, <1>s, <1>3, Refused DEF Refuse
<1>4. CASE /\ StateOf(h) = "created"
           /\ Move(h, "identified", <<To("WAITING_FOR_BTC_ADDRESS")>>)
  <2>1. "identified" \in OrderState /\ "WAITING_FOR_BTC_ADDRESS" \in Step
    BY DEF OrderState, Step
  <2>2. /\ Owes(h)' => ChatInv'
        /\ Undisturbed' /\ Row(h)'.active => StateFor(Row(h).order)' = "identified"
        /\ Then(h, <<To("WAITING_FOR_BTC_ADDRESS")>>)
    BY <1>1, <1>s, <1>4, <2>1, Moved
  <2>3. MayGo(h, "WAITING_FOR_BTC_ADDRESS")'
    BY <2>2 DEF MayGo, Fits
  <2> QED
    BY <1>1, <2>1, <2>2, <2>3, StepsOn
<1>5. CASE StateOf(h) = "created" /\ Move(h, "closed", <<<<"close">>>>)
  <2>1. "closed" \in OrderState
    BY DEF OrderState
  <2>2. /\ Owes(h)' => ChatInv'
        /\ Then(h, <<<<"close">>>>) /\ orders'[Order(h)] = "closed"
        /\ Alone' /\ Row(h)'.active => Row(h)'.order = Order(h)
    BY <1>1, <1>s, <1>5, <2>1, Moved
  <2>3. Only(h)' /\ handler'[h].todo = <<<<"close">>>>
    BY <1>1, <2>2, ServiceSame
  <2>4. Kind(handler[h].todo)' = "close" /\ After(h)' = <<>>
    BY <2>3, NewTodo
  <2>5. Free(h)'
    BY <2>2 DEF Free, Released, Undisturbed, Alone
  <2>6. Owes(h)'
    BY <2>3, <2>4, <2>5 DEF Owes, OwesClose
  <2> QED
    BY <2>2, <2>6
<1>6. CASE StateOf(h) = "created" /\ Move(h, "screening", <<>>)
  <2>1. "screening" \in OrderState
    BY DEF OrderState
  <2>2. /\ Owes(h)' => ChatInv'
        /\ Then(h, <<>>)
        /\ Undisturbed' /\ Row(h)'.active => StateFor(Row(h).order)' = "screening"
    BY <1>1, <1>s, <1>6, <2>1, Moved
  <2>3. /\ (Undisturbed' <=> Undisturbed) /\ Row(h)' = Row(h) /\ handler'[h].todo = <<>>
        /\ Only(h)' /\ (Only(h)' /\ Sits(h)' => (Undisturbed => InOrder)')
    BY <1>1, <2>2, ServiceSame
  <2>4. Sits(h)'
    <3>1. Undisturbed' /\ Row(h)'.active => Row(h)'.step \in {"WAITING_FOR_EMAIL", "COMPLETED"}
      BY <1>1, <2>3 DEF Submits
    <3> QED
      BY <2>2, <3>1 DEF Sits, Fits
  <2>5. Kind(handler[h].todo)' = "none"
    BY <2>3, NewTodo
  <2>6. Owes(h)'
    BY <2>3, <2>4, <2>5 DEF Owes
  <2> QED
    BY <2>2, <2>6
<1>7. CASE orders' = orders /\ Then(h, <<<<"metadata", [Argument(h) EXCEPT !.asks = TRUE]>>>>)
  <2>1. [Argument(h) EXCEPT !.asks = TRUE] \in Metadata
    BY <1>1 DEF Metadata
  <2>2. PICK m \in Metadata : m = [Argument(h) EXCEPT !.asks = TRUE]
    BY <2>1
  <2>3. m.name = Argument(h).name /\ m.document = Argument(h).document
        /\ Then(h, <<<<"metadata", m>>>>)
    BY <1>1, <1>7, <2>2 DEF Metadata
  <2>4. /\ (Alone' <=> Alone) /\ Row(h)' = Row(h) /\ handler'[h].todo = <<<<"metadata", m>>>>
        /\ Only(h)' /\ Sits(h)'
    BY <1>1, <1>s, <1>7, <2>3, ServiceSame
  <2>5. Kind(handler[h].todo)' = "metadata" /\ After(h)' = <<>> /\ Argument(h)' = m
    BY <2>4, NewTodo
  <2>6. Keeps(h, m)'
    <3>1. Alone /\ Row(h).active => m.name = Row(h).order /\ m.document = Row(h).order
      BY <1>1, <2>3 DEF Submits, Holds
    <3> QED
      BY <2>4, <3>1 DEF Keeps, Named
  <2>7. Owes(h)'
    BY <2>4, <2>5, <2>6 DEF Owes, OwesMetadata, Keeps
  <2> QED
    BY <1>1, <1>7, <2>3, <2>7, Unmoved
<1> QED
  BY <1>2, <1>3, <1>4, <1>5, <1>6, <1>7 DEF SubmitIdentity

LEMMA ConfirmKeeps ==
  ASSUME ChatInv, NEW h \in Handlers, ConfirmByReference(h)
  PROVE  ChatInv'
<1>o. Handling(h)
  BY DEF ChatInv
<1>1. /\ Typed /\ At(h, "run") /\ Only(h) /\ Sits(h) /\ Holds(h) /\ Calm
      /\ UNCHANGED <<provider, convs>>
  BY <1>o DEF ChatInv, ConfirmByReference, Todo, Handling, Owes, Kind
<1>2. CASE Refuse(h) /\ UNCHANGED <<notice, left>>
  BY <1>1, <1>2, Refused DEF Refuse
<1>3. CASE /\ StateOf(h) = "pushed"
           /\ Move(h, "completed", <<To("COMPLETED"), <<"close">>>>)
           /\ Announce(Order(h))
           /\ Leave(Order(h))
  <2>1. Order(h) \in Orders /\ Order(h) # "none" /\ orders[Order(h)] = "pushed"
    BY <1>1, <1>3, Standing, ChatFlowAssumption DEF StateOf, Reference, ChatFlowAssumption
  <2>2. /\ Then(h, <<To("COMPLETED"), <<"close">>>>)
        /\ orders' \in [Orders -> OrderState] /\ orders'[Order(h)] = "completed"
        /\ \A o \in Orders : o # Order(h) => orders'[o] = orders[o]
    BY <1>1, <1>3, <2>1 DEF Move, Typed, OrderState
  <2>3. /\ notice' \in [Orders -> [at: {"none", "find", "step", "status", "send", "told", "lost"},
                                   conv: 0..MaxConversations]]
        /\ notice'[Order(h)].at = "find"
        /\ \A o \in Orders : o # Order(h) => notice'[o] = notice[o]
    BY <1>1, <1>3, <2>1 DEF Announce, Typed
  <2>4. left \subseteq left' /\ left' \subseteq Orders /\ Order(h) \in left'
    BY <1>1, <1>3, <2>1 DEF Leave, Typed
  <2>5. /\ (Undisturbed' <=> Undisturbed) /\ (Alone' <=> Alone)
        /\ Row(h)' = Row(h) /\ Only(h)'
        /\ handler'[h].todo = <<To("COMPLETED"), <<"close">>>>
    BY <1>1, <2>2, ServiceSame
  <2>6. /\ Kind(handler[h].todo)' = "step" /\ Argument(h)' = "COMPLETED"
        /\ After(h)' = <<<<"close">>>>
    BY <2>5, NewTodo DEF To
  <2>7. Free(h)'
    <3>1. Alone /\ Row(h).active => Row(h).order = Order(h)
      BY <1>1 DEF Holds
    <3> QED
      BY <2>4, <2>5, <3>1 DEF Free, Released, Undisturbed, Alone
  <2>8. Owes(h)'
    <3>1. OwesStep(h)'
      BY <2>5, <2>6, <2>7 DEF OwesStep, Step
    <3> QED
      BY <2>6, <3>1 DEF Owes
  <2>9. ASSUME NEW o \in Orders
        PROVE  Told(o)'
    <3>1. Told(o) /\ \A c \in Active : c \in Active'
      BY <1>1 DEF ChatInv, Active
    <3>2. CASE o # Order(h)
      BY <1>1, <2>2, <2>3, <2>4, <2>5, <3>1, <3>2, ToldRest
    <3>3. CASE o = Order(h)
      BY <2>2, <2>3, <2>4, <3>3 DEF Told, NoticeAt, Kept
    <3> QED
      BY <3>2, <3>3
  <2>10. \A o \in Orders : notice'[o].at \in {"step", "status"} => notice'[o].conv \in 1..Len(convs)
    BY <1>1, <2>3 DEF Typed
  <2> QED
    BY <1>1, <2>2, <2>3, <2>4, <2>8, <2>9, <2>10, ServiceKeeps
<1> QED
  BY <1>2, <1>3 DEF ConfirmByReference

-----------------------------------------------------------------------------
(* A message arrives, is decided on and answered. *)

LEMMA Decided ==
  ASSUME Typed', NEW h \in Handlers, NEW c, NEW seen \in Conversation, NEW cmd \in Command,
         NEW expired \in BOOLEAN,
         handler'[h] = [at |-> "run", conv |-> c, order |-> seen.order,
                        todo |-> Script(seen, cmd, expired)],
         convs'[c] = seen, seen.active,
         Undisturbed' => Active' \subseteq {c} /\ Fits(seen.step, seen.order)',
         Alone' => Named(seen.step, seen.order, seen.meta),
         Leaves(seen, cmd, expired) => seen.order = "none" \/ seen.order \in left'
  PROVE  Owes(h)'
<1> DEFINE todo == Script(seen, cmd, expired)
<1>1. /\ At(h, "run")' /\ handler'[h].conv = c /\ Order(h)' = seen.order
      /\ handler'[h].todo = todo /\ Row(h)' = seen
  BY DEF At, Order, Row
<1>2. seen.step \in Step /\ seen.order \in Reference /\ seen.meta \in Metadata
  BY DEF Conversation
<1>3. Only(h)'
  BY <1>1 DEF Only
<1>4. Sits(h)'
  BY <1>1 DEF Sits, Fits, StateFor
<1>5. Holds(h)'
  BY <1>1 DEF Holds
<1>6. Undisturbed' => Alone'
  BY DEF Undisturbed, Alone
<1>s. \/ todo = <<<<"createSession">>>> /\ seen.step = "WAITING_FOR_QUOTE_CONFIRMATION"
      \/ todo \in {<<>>, <<<<"createQuote">>>>, <<<<"submitPayoutDetails">>>>,
                   <<<<"initiatePayment">>>>, <<<<"confirmByReference">>>>}
      \/ todo \in {<<To("MENU")>>, <<To("WAITING_FOR_AMOUNT")>>}
      \/ /\ todo \in {<<<<"reset">>>>, <<<<"reset">>, To("WAITING_FOR_AMOUNT")>>,
                      <<<<"close">>, <<"create">>>>, <<<<"reset">>, <<"create">>, <<"close">>,
                      <<"next", "WAITING_FOR_AMOUNT">>>>}
         /\ Leaves(seen, cmd, expired)
      \/ \E m \in Metadata :
           /\ todo = <<<<"metadata", m>>, To("WAITING_FOR_DOCUMENT_NUMBER")>>
           /\ seen.step = "WAITING_FOR_FULL_NAME" /\ m.name = seen.order
      \/ \E m \in Metadata :
           /\ todo = <<<<"metadata", m>>, To("WAITING_FOR_EMAIL")>>
           /\ seen.step = "WAITING_FOR_DOCUMENT_NUMBER"
           /\ m.name = seen.meta.name /\ m.document = seen.order
      \/ \E m \in Metadata :
           /\ todo \in {<<<<"metadata", m>>>>, <<<<"metadata", m>>, <<"submitIdentity", m>>>>}
           /\ seen.step = "WAITING_FOR_EMAIL"
           /\ m.name = seen.meta.name /\ m.document = seen.meta.document
  BY Scripts
<1> HIDE DEF todo
<1>7. CASE todo = <<<<"createSession">>>> /\ seen.step = "WAITING_FOR_QUOTE_CONFIRMATION"
  <2>1. Kind(handler[h].todo)' = "createSession"
    BY <1>1, <1>7, NewTodo
  <2>2. Bare(h)'
    BY <1>1, <1>7 DEF Bare
  <2> QED
    BY <1>3, <1>4, <2>1, <2>2 DEF Owes
<1>8. CASE todo = <<>>
  <2>1. Kind(handler[h].todo)' = "none"
    BY <1>1, <1>8, NewTodo
  <2> QED
    BY <1>1, <1>3, <1>4, <2>1, Seated DEF Owes
<1>9. CASE todo \in {<<<<"createQuote">>>>, <<<<"submitPayoutDetails">>>>,
                     <<<<"initiatePayment">>>>, <<<<"confirmByReference">>>>}
  <2>1. Kind(handler[h].todo)' \in {"createQuote", "submitPayoutDetails", "initiatePayment",
                                    "confirmByReference"}
    BY <1>1, <1>9, NewTodo
  <2> QED
    BY <1>3, <1>4, <1>5, <2>1 DEF Owes
<1>10. CASE todo \in {<<To("MENU")>>, <<To("WAITING_FOR_AMOUNT")>>}
  <2>1. /\ Kind(handler[h].todo)' = "step" /\ After(h)' = <<>>
        /\ Argument(h)' \in {"MENU", "WAITING_FOR_AMOUNT"}
    BY <1>1, <1>10, NewTodo DEF To
  <2>2. OwesStep(h)'
    BY <1>3, <2>1 DEF OwesStep, MayGo, NamedAt, Fits, Named, Step
  <2> QED
    BY <2>1, <2>2 DEF Owes
<1>11. ASSUME todo \in {<<<<"reset">>>>, <<<<"reset">>, To("WAITING_FOR_AMOUNT")>>,
                        <<<<"close">>, <<"create">>>>, <<<<"reset">>, <<"create">>, <<"close">>,
                        <<"next", "WAITING_FOR_AMOUNT">>>>},
              Leaves(seen, cmd, expired)
       PROVE  Owes(h)'
  <2>1. Free(h)'
    BY <1>1, <1>11 DEF Free, Released
  <2>2. CASE todo = <<<<"close">>, <<"create">>>>
    <3>1. Kind(handler[h].todo)' = "close" /\ After(h)' = <<<<"create">>>>
      BY <1>1, <2>2, NewTodo
    <3> QED
      BY <1>3, <2>1, <3>1 DEF Owes, OwesClose
  <2>3. CASE todo = <<<<"reset">>>>
    <3>1. Kind(handler[h].todo)' = "reset" /\ After(h)' = <<>>
      BY <1>1, <2>3, NewTodo
    <3> QED
      BY <1>3, <2>1, <3>1 DEF Owes, OwesReset
  <2>4. CASE todo = <<<<"reset">>, To("WAITING_FOR_AMOUNT")>>
    <3>1. Kind(handler[h].todo)' = "reset" /\ After(h)' = <<To("WAITING_FOR_AMOUNT")>>
      BY <1>1, <2>4, NewTodo
    <3> QED
      BY <1>3, <2>1, <3>1 DEF Owes, OwesReset
  <2>5. CASE todo = <<<<"reset">>, <<"create">>, <<"close">>, <<"next", "WAITING_FOR_AMOUNT">>>>
    <3>1. Kind(handler[h].todo)' = "reset" /\ After(h)' = Renewing
      BY <1>1, <2>5, NewTodo DEF Renewing
    <3> QED
      BY <1>3, <2>1, <3>1 DEF Owes, OwesReset
  <2> QED
    BY <1>11, <2>2, <2>3, <2>4, <2>5
<1>12. ASSUME NEW m \in Metadata,
              todo = <<<<"metadata", m>>, To("WAITING_FOR_DOCUMENT_NUMBER")>>,
              seen.step = "WAITING_FOR_FULL_NAME", m.name = seen.order
       PROVE  Owes(h)'
  <2>1. /\ Kind(handler[h].todo)' = "metadata" /\ Argument(h)' = m
        /\ After(h)' = <<To("WAITING_FOR_DOCUMENT_NUMBER")>>
    BY <1>1, <1>12, NewTodo
  <2>2. MayGo(h, "WAITING_FOR_DOCUMENT_NUMBER")'
    BY <1>1, <1>12 DEF MayGo, Fits, StateFor
  <2>3. NamedAt(h, "WAITING_FOR_DOCUMENT_NUMBER", m)' /\ Keeps(h, m)'
    BY <1>1, <1>12 DEF NamedAt, Keeps, Named
  <2>4. OwesMetadata(h)'
    BY <1>3, <2>1, <2>2, <2>3 DEF OwesMetadata, Keeps, NamedAt
  <2> QED
    BY <2>1, <2>4 DEF Owes
<1>13. ASSUME NEW m \in Metadata,
              todo = <<<<"metadata", m>>, To("WAITING_FOR_EMAIL")>>,
              seen.step = "WAITING_FOR_DOCUMENT_NUMBER",
              m.name = seen.meta.name, m.document = seen.order
       PROVE  Owes(h)'
  <2>1. /\ Kind(handler[h].todo)' = "metadata" /\ Argument(h)' = m
        /\ After(h)' = <<To("WAITING_FOR_EMAIL")>>
    BY <1>1, <1>13, NewTodo
  <2>2. MayGo(h, "WAITING_FOR_EMAIL")'
    BY <1>1, <1>13 DEF MayGo, Fits, StateFor
  <2>3. NamedAt(h, "WAITING_FOR_EMAIL", m)' /\ Keeps(h, m)'
    BY <1>1, <1>13 DEF NamedAt, Keeps, Named
  <2>4. OwesMetadata(h)'
    BY <1>3, <2>1, <2>2, <2>3 DEF OwesMetadata, Keeps, NamedAt
  <2> QED
    BY <2>1, <2>4 DEF Owes
<1>14. ASSUME NEW m \in Metadata,
              todo \in {<<<<"metadata", m>>>>, <<<<"metadata", m>>, <<"submitIdentity", m>>>>},
              seen.step = "WAITING_FOR_EMAIL",
              m.name = seen.meta.name, m.document = seen.meta.document
       PROVE  Owes(h)'
  <2>1. /\ Kind(handler[h].todo)' = "metadata" /\ Argument(h)' = m
        /\ After(h)' = <<>> \/ After(h)' = <<<<"submitIdentity", m>>>>
    BY <1>1, <1>14, NewTodo
  <2>2. Alone' => m.name = seen.order /\ m.document = seen.order
    BY <1>14 DEF Named
  <2>3. Keeps(h, m)'
    BY <1>1, <2>2 DEF Keeps, Named
  <2>4. Submits(h, m)'
    BY <1>1, <1>4, <1>5, <1>14, <2>2 DEF Submits
  <2>5. OwesMetadata(h)'
    BY <1>3, <1>4, <2>1, <2>3, <2>4 DEF OwesMetadata, Keeps, Submits
  <2> QED
    BY <2>1, <2>5 DEF Owes
<1> QED
  BY <1>s, <1>7, <1>8, <1>9, <1>10, <1>11, <1>12, <1>13, <1>14

(* There is a newest active row, if there is one at all. *)
LEMMA NewestIsActive ==
  ASSUME Typed, Active # {}
  PROVE  Newest \in Active
<1> DEFINE bounds == {n \in Nat : \A d \in Active : d <= n}
<1>1. Active \subseteq 1..Len(convs) /\ Len(convs) \in Nat
  BY DEF Active, Typed
<1>2. bounds \subseteq Nat /\ bounds # {}
  <2>1. Len(convs) \in bounds
    BY <1>1
  <2> QED
    BY <2>1
<1>3. PICK n \in bounds : \A k \in bounds : ~(<<k, n>> \in OpToRel(<, Nat))
  BY <1>2, NatLessThanWellFounded, WFMin
<1>4. \A k \in bounds : ~(k < n)
  BY <1>2, <1>3 DEF OpToRel
<1>5. n \in Active
  <2> SUFFICES ASSUME n \notin Active
               PROVE  FALSE
    OBVIOUS
  <2>1. \A d \in Active : d \in Nat /\ d <= n - 1 /\ d > 0
    BY <1>1, <1>2
  <2>p. PICK d \in Active : TRUE
    OBVIOUS
  <2>2. n \in Nat /\ n - 1 \in Nat
    <3>1. n \in Nat /\ d \in Nat /\ d <= n - 1
      BY <1>2, <1>3, <2>1, <2>p
    <3> QED
      BY <3>1
  <2>3. n - 1 \in bounds
    BY <2>1, <2>2
  <2> QED
    BY <1>4, <2>2, <2>3
<1>6. \E c \in Active : \A d \in Active : d <= c
  BY <1>5
<1> QED
  BY <1>6 DEF Newest

LEMMA GotoTyped ==
  ASSUME Typed, NEW h \in Handlers, NEW label, Goto(h, label)
  PROVE  /\ Moves(h) /\ handler'[h].at = label
         /\ handler' = [k \in Handlers |-> handler'[k]]
         /\ \A k \in Handlers :
              /\ handler'[k] = [at |-> handler'[k].at, conv |-> handler'[k].conv,
                                order |-> handler'[k].order, todo |-> handler'[k].todo]
              /\ handler'[k].conv = handler[k].conv /\ handler'[k].order = handler[k].order
<1>1. /\ handler = [k \in Handlers |-> handler[k]]
      /\ \A k \in Handlers :
           handler[k] = [at |-> handler[k].at, conv |-> handler[k].conv,
                         order |-> handler[k].order, todo |-> handler[k].todo]
  BY DEF Typed
<1>2. handler' = [k \in Handlers |-> IF k = h THEN [handler[h] EXCEPT !.at = label]
                                              ELSE handler[k]]
  BY <1>1 DEF Goto
<1>3. [handler[h] EXCEPT !.at = label] =
        [at |-> label, conv |-> handler[h].conv, order |-> handler[h].order,
         todo |-> handler[h].todo]
  BY <1>1
<1>4. \A k \in Handlers : k # h => handler'[k] = handler[k]
  BY <1>2
<1>5. handler'[h] = [at |-> label, conv |-> handler[h].conv, order |-> handler[h].order,
                     todo |-> handler[h].todo]
  BY <1>2, <1>3
<1>6. handler' = [k \in Handlers |-> handler'[k]]
  BY <1>2
<1> QED
  BY <1>1, <1>4, <1>5, <1>6 DEF Moves

(* Told, when neither rows nor orders move. *)
LEMMA ToldSame ==
  ASSUME ChatInv, Undisturbed' => Undisturbed, UNCHANGED <<convs, orders, notice>>,
         left \subseteq left'
  PROVE  \A o \in Orders : Told(o)'
<1>1. \A c \in Active : c \in Active'
  BY DEF Active
<1>2. \A o \in Orders : Told(o)
  BY DEF ChatInv
<1> QED
  BY <1>1, <1>2, ToldRest

LEMMA ReceiveKeeps ==
  ASSUME ChatInv, NEW h \in Handlers, Receive(h)
  PROVE  ChatInv'
<1>1. /\ Typed /\ At(h, "idle") /\ Goto(h, "find")
      /\ UNCHANGED <<provider, convs, orders, notice, left, troubles>>
  BY DEF ChatInv, Receive
<1>t. /\ Moves(h) /\ handler'[h].at = "find"
      /\ handler' = [k \in Handlers |-> handler'[k]]
      /\ \A k \in Handlers :
           /\ handler'[k] = [at |-> handler'[k].at, conv |-> handler'[k].conv,
                             order |-> handler'[k].order, todo |-> handler'[k].todo]
           /\ handler'[k].conv = handler[k].conv /\ handler'[k].order = handler[k].order
  BY <1>1, GotoTyped
<1>2. \/ Busy = {} /\ overlaps' = overlaps
      \/ Busy # {} /\ overlaps' = overlaps + 1 /\ overlaps + troubles < MaxDisturbances
  BY DEF Receive, Disturbed
<1>3. /\ overlaps \in Nat /\ troubles \in Nat /\ MaxDisturbances \in Nat
      /\ overlaps' \in 0..MaxDisturbances
  BY <1>1, <1>2, ChatFlowAssumption DEF Typed, ChatFlowAssumption
<1>4. Typed'
  <2>1. \A k \in Handlers : k # h =>
          (At(k, "run")' <=> At(k, "run")) /\ handler'[k].at = handler[k].at
    BY <1>t DEF At, Moves
  <2>2. ~At(h, "run")' /\ handler'[h].at \in {"idle", "find", "open", "run"}
    BY <1>t DEF At
  <2>3. \A k \in Handlers :
          /\ handler'[k].at \in {"idle", "find", "open", "run"}
          /\ handler'[k].conv \in 0..Len(convs)
          /\ At(k, "run")' => handler'[k].conv \in 1..Len(convs)
          /\ handler'[k].order \in Reference
    BY <1>1, <1>t, <2>1, <2>2 DEF Typed
  <2> QED
    BY <1>1, <1>3, <1>t, <2>3 DEF Typed
<1>5. Alone' => Alone /\ Busy = {} /\ (Undisturbed' <=> Undisturbed)
  BY <1>1, <1>2, <1>3 DEF Alone, Undisturbed
<1>6. Undisturbed' => Alone'
  BY DEF Alone, Undisturbed
<1>7. \A o \in Orders : Told(o)'
  BY <1>1, <1>5, <1>6, ToldSame
<1>8. Active' = Active
  BY <1>1 DEF Active
<1>9. Alone' => (\A c \in Active : Named(convs[c].step, convs[c].order, convs[c].meta))'
  BY <1>1, <1>5, <1>8 DEF ChatInv, Named
<1>10. Undisturbed' => InOrder'
  <2>1. InOrder => InOrder'
    BY <1>1, <1>8 DEF InOrder, Fits, StateFor
  <2> QED
    BY <1>5, <1>6, <2>1 DEF ChatInv
<1>11. ASSUME NEW k \in Handlers
       PROVE  Handling(k)'
  <2>1. CASE k = h
    BY <1>10, <1>t, <2>1 DEF Handling, At
  <2>2. CASE k # h /\ Alone'
    <3>1. At(k, "idle")'
      BY <1>5, <1>t, <2>2 DEF Busy, Moves, At
    <3> QED
      BY <3>1 DEF Handling, At
  <2>3. CASE k # h /\ ~(Alone')
    <3>1. /\ Handling(k) /\ handler'[k] = handler[k] /\ convs' \in Seq(Conversation)
          /\ Len(convs) <= Len(convs')
      BY <1>1, <1>t, <2>3 DEF ChatInv, Moves, Typed
    <3> QED
      BY <1>6, <2>3, <3>1, Others
  <2> QED
    BY <2>1, <2>2, <2>3
<1>12. Alone' => (\A k, j \in Busy : k = j)'
  <2>1. Alone' => Busy' \subseteq {h}
    BY <1>5, <1>t DEF Busy, Moves, At
  <2> QED
    BY <2>1
<1> QED
  BY <1>4, <1>7, <1>9, <1>10, <1>11, <1>12 DEF ChatInv

(* A handler comes to rest. *)
LEMMA RestStep ==
  ASSUME ChatInv, NEW h \in Handlers, ~At(h, "idle"), Undisturbed' => InOrder,
         handler' = [handler EXCEPT ![h] = Resting], Undisturbed' => Undisturbed,
         UNCHANGED <<provider, convs, orders, notice, left, overlaps>>,
         troubles' \in 0..MaxDisturbances
  PROVE  ChatInv'
<1>1. Typed
  BY DEF ChatInv
<1>t. /\ Moves(h) /\ handler'[h] = Resting
      /\ handler' = [k \in Handlers |-> handler'[k]]
  BY <1>1 DEF Typed, Moves
<1>r. /\ Resting = [at |-> Resting.at, conv |-> Resting.conv, order |-> Resting.order,
                    todo |-> Resting.todo]
      /\ Resting.at = "idle" /\ Resting.conv = 0 /\ Resting.order = "none"
  BY DEF Resting
<1>2. Typed'
  <2>1. \A k \in Handlers : k # h =>
          handler'[k] = handler[k] /\ (At(k, "run")' <=> At(k, "run"))
    BY <1>t DEF At, Moves
  <2>2. ~At(h, "run")' /\ Len(convs) \in Nat
    BY <1>1, <1>t, <1>r DEF At, Typed
  <2>3. \A k \in Handlers :
          /\ handler'[k] = [at |-> handler'[k].at, conv |-> handler'[k].conv,
                            order |-> handler'[k].order, todo |-> handler'[k].todo]
          /\ handler'[k].at \in {"idle", "find", "open", "run"}
          /\ handler'[k].conv \in 0..Len(convs)
          /\ At(k, "run")' => handler'[k].conv \in 1..Len(convs)
          /\ handler'[k].order \in Reference
    <3> SUFFICES ASSUME NEW k \in Handlers
                 PROVE  /\ handler'[k] = [at |-> handler'[k].at, conv |-> handler'[k].conv,
                                          order |-> handler'[k].order, todo |-> handler'[k].todo]
                        /\ handler'[k].at \in {"idle", "find", "open", "run"}
                        /\ handler'[k].conv \in 0..Len(convs)
                        /\ At(k, "run")' => handler'[k].conv \in 1..Len(convs)
                        /\ handler'[k].order \in Reference
      OBVIOUS
    <3>1. CASE k = h
      BY <1>t, <1>r, <2>2, <3>1 DEF Reference
    <3>2. CASE k # h
      BY <1>1, <2>1, <3>2 DEF Typed
    <3> QED
      BY <3>1, <3>2
  <2> QED
    BY <1>1, <1>t, <2>3 DEF Typed
<1>3. Alone' <=> Alone
  BY DEF Alone
<1>4. Active' = Active
  BY DEF Active
<1>5. \A o \in Orders : Told(o)'
  BY ToldSame
<1>6. Undisturbed' => InOrder'
  BY <1>4 DEF InOrder, Fits, StateFor
<1>7. Alone' => (\A c \in Active : Named(convs[c].step, convs[c].order, convs[c].meta))'
  BY <1>3, <1>4 DEF ChatInv, Named
<1>8. Busy' \subseteq Busy
  BY <1>t, <1>r DEF Busy, Moves, At
<1>9. Alone' => Busy' = {}
  <2>1. Alone => Busy \subseteq {h}
    BY DEF ChatInv, Busy
  <2>2. h \notin Busy'
    BY <1>t, <1>r DEF Busy, At
  <2> QED
    BY <1>3, <1>8, <2>1, <2>2
<1>10. ASSUME NEW k \in Handlers
       PROVE  Handling(k)'
  <2>1. CASE At(k, "idle")'
    BY <2>1 DEF Handling, At
  <2>2. CASE ~At(k, "idle")'
    <3>1. ~(Alone') /\ ~(Undisturbed')
      BY <1>9, <2>2 DEF Busy, Undisturbed, Alone
    <3>2. k # h
      BY <1>t, <1>r, <2>2 DEF At
    <3>3. Handling(k) /\ handler'[k] = handler[k] /\ convs' \in Seq(Conversation)
          /\ Len(convs) <= Len(convs')
      BY <1>1, <1>t, <3>2 DEF ChatInv, Moves, Typed
    <3> QED
      BY <3>1, <3>3, Others
  <2> QED
    BY <2>1, <2>2
<1> QED
  BY <1>2, <1>5, <1>6, <1>7, <1>9, <1>10 DEF ChatInv

LEMMA ReplyKeeps ==
  ASSUME ChatInv, NEW h \in Handlers, Reply(h)
  PROVE  ChatInv'
<1>1. /\ At(h, "run") /\ handler[h].todo = <<>> /\ Calm
      /\ handler' = [handler EXCEPT ![h] = Resting]
      /\ UNCHANGED <<provider, convs, orders, notice, left>>
  BY DEF Reply
<1>2. Owes(h)
  BY <1>1 DEF ChatInv, Handling
<1>3. Undisturbed => InOrder
  BY <1>1, <1>2 DEF Owes, Kind
<1>4. ~At(h, "idle") /\ (Undisturbed' => Undisturbed) /\ troubles' \in 0..MaxDisturbances
  BY <1>1 DEF At, Calm, Undisturbed, ChatInv, Typed
<1> QED
  BY <1>1, <1>3, <1>4, RestStep DEF Calm

LEMMA AbandonKeeps ==
  ASSUME ChatInv, NEW h \in Handlers, Abandon(h)
  PROVE  ChatInv'
<1>1. /\ ~At(h, "idle") /\ overlaps + troubles < MaxDisturbances /\ troubles' = troubles + 1
      /\ handler' = [handler EXCEPT ![h] = Resting]
      /\ UNCHANGED <<provider, convs, orders, notice, left, overlaps>>
  BY DEF Abandon, Disturbed
<1>2. overlaps \in Nat /\ troubles \in Nat /\ MaxDisturbances \in Nat
  BY ChatFlowAssumption DEF ChatInv, Typed, ChatFlowAssumption
<1>3. ~(Undisturbed') /\ troubles' \in 0..MaxDisturbances
  BY <1>1, <1>2 DEF Undisturbed
<1> QED
  BY <1>1, <1>3, RestStep

LEMMA FindKeeps ==
  ASSUME ChatInv, NEW h \in Handlers, Find(h)
  PROVE  ChatInv'
<1>1. /\ Typed /\ At(h, "find") /\ Calm /\ UNCHANGED <<provider, convs, orders, notice>>
  BY DEF ChatInv, Find
<1>2. (Undisturbed' <=> Undisturbed) /\ (Alone' <=> Alone)
  BY <1>1 DEF Calm, Undisturbed, Alone
<1>3. Active' = Active /\ ~At(h, "idle") /\ Len(convs) <= Len(convs')
  BY <1>1 DEF Active, At, Typed
<1>4. Alone => (\A c \in Active : Named(convs[c].step, convs[c].order, convs[c].meta))'
  BY <1>1, <1>3 DEF ChatInv, Named
<1>5. CASE Active = {} /\ Goto(h, "open") /\ left' = left
  <2>t. /\ Moves(h) /\ handler'[h].at = "open"
        /\ handler' = [k \in Handlers |-> handler'[k]]
        /\ \A k \in Handlers :
             /\ handler'[k] = [at |-> handler'[k].at, conv |-> handler'[k].conv,
                               order |-> handler'[k].order, todo |-> handler'[k].todo]
             /\ handler'[k].conv = handler[k].conv /\ handler'[k].order = handler[k].order
    BY <1>1, <1>5, GotoTyped
  <2>1. Typed'
    <3>1. \A k \in Handlers : k # h =>
            (At(k, "run")' <=> At(k, "run")) /\ handler'[k].at = handler[k].at
      BY <2>t DEF At, Moves
    <3>2. ~At(h, "run")' /\ handler'[h].at \in {"idle", "find", "open", "run"}
      BY <2>t DEF At
    <3>3. \A k \in Handlers :
            /\ handler'[k].at \in {"idle", "find", "open", "run"}
            /\ handler'[k].conv \in 0..Len(convs)
            /\ At(k, "run")' => handler'[k].conv \in 1..Len(convs)
            /\ handler'[k].order \in Reference
      BY <1>1, <2>t, <3>1, <3>2 DEF Typed
    <3> QED
      BY <1>1, <1>5, <2>t, <3>3 DEF Typed, Calm
  <2>2. Handling(h)' /\ ~At(h, "idle")'
    BY <1>3, <1>5, <2>t DEF Handling, At
  <2>3. \A o \in Orders : Told(o)'
    BY <1>1, <1>2, <1>5, ToldSame
  <2> QED
    BY <1>1, <1>3, <1>4, <2>t, <2>1, <2>2, <2>3, BusyStep
<1>6. CASE Active # {} /\ Begin(h, Newest, convs[Newest])
  <2>1. Newest \in Active
    BY <1>1, <1>6, NewestIsActive
  <2>2. PICK c \in Active : c = Newest
    BY <2>1
  <2>3. c \in 1..Len(convs) /\ convs[c] \in Conversation /\ convs[c].active
    BY <1>1 DEF Active, Typed
  <2>4. PICK seen \in Conversation : seen = convs[c]
    BY <2>3
  <2>s. seen.order \in Reference
    BY DEF Conversation
  <2>5. PICK cmd \in Command, expired \in BOOLEAN :
          /\ handler' = [handler EXCEPT ![h] = [at |-> "run", conv |-> c, order |-> seen.order,
                                                todo |-> Script(seen, cmd, expired)]]
          /\ IF Leaves(seen, cmd, expired) THEN Leave(seen.order) ELSE UNCHANGED left
    BY <1>6, <2>2, <2>4 DEF Begin
  <2>6. /\ handler'[h] = [at |-> "run", conv |-> c, order |-> seen.order,
                          todo |-> Script(seen, cmd, expired)]
        /\ Moves(h) /\ handler' = [k \in Handlers |-> handler'[k]]
    BY <1>1, <2>5 DEF Typed, Moves
  <2>7. /\ left \subseteq left' /\ left' \subseteq Orders
        /\ Leaves(seen, cmd, expired) => seen.order = "none" \/ seen.order \in left'
    BY <1>1, <2>5, <2>s DEF Leave, Typed, Reference
  <2>8. Typed'
    <3>1. \A k \in Handlers : k # h =>
            handler'[k] = handler[k] /\ (At(k, "run")' <=> At(k, "run"))
      BY <2>6 DEF At, Moves
    <3>2. \A k \in Handlers :
            /\ handler'[k] = [at |-> handler'[k].at, conv |-> handler'[k].conv,
                              order |-> handler'[k].order, todo |-> handler'[k].todo]
            /\ handler'[k].at \in {"idle", "find", "open", "run"}
            /\ handler'[k].conv \in 0..Len(convs)
            /\ At(k, "run")' => handler'[k].conv \in 1..Len(convs)
            /\ handler'[k].order \in Reference
      <4> SUFFICES ASSUME NEW k \in Handlers
                   PROVE  /\ handler'[k] = [at |-> handler'[k].at, conv |-> handler'[k].conv,
                                            order |-> handler'[k].order, todo |-> handler'[k].todo]
                          /\ handler'[k].at \in {"idle", "find", "open", "run"}
                          /\ handler'[k].conv \in 0..Len(convs)
                          /\ At(k, "run")' => handler'[k].conv \in 1..Len(convs)
                          /\ handler'[k].order \in Reference
        OBVIOUS
      <4>1. CASE k = h
        BY <2>3, <2>6, <2>s, <4>1
      <4>2. CASE k # h
        BY <1>1, <3>1, <4>2 DEF Typed
      <4> QED
        BY <4>1, <4>2
    <3> QED
      BY <1>1, <2>6, <2>7, <3>2 DEF Typed, Calm
  <2>9. Handling(h)' /\ ~At(h, "idle")'
    <3>1. Handling(h)
      BY DEF ChatInv
    <3>2. Undisturbed' => Active' \subseteq {c} /\ Fits(seen.step, seen.order)'
      <4> SUFFICES ASSUME Undisturbed'
                   PROVE  Active' \subseteq {c} /\ Fits(seen.step, seen.order)'
        OBVIOUS
      <4>1. InOrder
        BY <1>1, <1>2, <3>1 DEF Handling
      <4>2. Active \subseteq {c} /\ Fits(seen.step, seen.order)
        BY <2>4, <4>1 DEF InOrder
      <4> QED
        BY <1>1, <1>3, <4>2 DEF Fits, StateFor
    <3>3. Alone' => Named(seen.step, seen.order, seen.meta)
      BY <1>2, <2>4 DEF ChatInv
    <3>4. convs'[c] = seen /\ seen.active
      BY <1>1, <2>3, <2>4
    <3>5. Owes(h)'
      BY <2>6, <2>7, <2>8, <3>2, <3>3, <3>4, Decided
    <3> QED
      BY <2>6, <3>5 DEF Handling, At
  <2>10. \A o \in Orders : Told(o)'
    BY <1>1, <1>2, <2>7, ToldSame
  <2> QED
    BY <1>1, <1>3, <1>4, <2>6, <2>8, <2>9, <2>10, BusyStep
<1> QED
  BY <1>5, <1>6 DEF Find

LEMMA OpenKeeps ==
  ASSUME ChatInv, NEW h \in Handlers, Open(h)
  PROVE  ChatInv'
<1>1. /\ Typed /\ At(h, "open") /\ Calm /\ UNCHANGED <<provider, orders, notice>>
      /\ Len(convs) < MaxConversations /\ convs' = Append(convs, Fresh)
  BY DEF ChatInv, Open
<1>2. (Undisturbed' <=> Undisturbed) /\ (Alone' <=> Alone)
  BY <1>1 DEF Calm, Undisturbed, Alone
<1>3. PICK c \in Nat : c = Len(convs) + 1
  BY <1>1 DEF Typed
<1>4. PICK seen \in Conversation : seen = Fresh
  BY DEF Fresh, Conversation, Reference, Step, Metadata, NoMetadata
<1>s. seen.active /\ seen.step = "IDLE" /\ seen.order = "none"
  BY <1>4 DEF Fresh
<1>c. /\ convs' \in Seq(Conversation) /\ Len(convs') = c
      /\ Len(convs') <= MaxConversations
      /\ convs'[c] = seen /\ \A d \in DOMAIN convs : convs'[d] = convs[d]
      /\ Active' = Active \cup {c}
  BY <1>1, <1>3, <1>4, Created
<1>5. PICK cmd \in Command, expired \in BOOLEAN :
        /\ handler' = [handler EXCEPT ![h] = [at |-> "run", conv |-> c, order |-> seen.order,
                                              todo |-> Script(seen, cmd, expired)]]
        /\ IF Leaves(seen, cmd, expired) THEN Leave(seen.order) ELSE UNCHANGED left
  BY <1>3, <1>4 DEF Open, Begin
<1>6. /\ handler'[h] = [at |-> "run", conv |-> c, order |-> seen.order,
                        todo |-> Script(seen, cmd, expired)]
      /\ Moves(h) /\ handler' = [k \in Handlers |-> handler'[k]]
  BY <1>1, <1>5 DEF Typed, Moves
<1>7. left' = left
  BY <1>5, <1>s DEF Leave
<1>8. Typed'
  <2>1. \A k \in Handlers : k # h =>
          handler'[k] = handler[k] /\ (At(k, "run")' <=> At(k, "run"))
    BY <1>6 DEF At, Moves
  <2>2. \A k \in Handlers :
          /\ handler'[k] = [at |-> handler'[k].at, conv |-> handler'[k].conv,
                            order |-> handler'[k].order, todo |-> handler'[k].todo]
          /\ handler'[k].at \in {"idle", "find", "open", "run"}
          /\ handler'[k].conv \in 0..c
          /\ At(k, "run")' => handler'[k].conv \in 1..c
          /\ handler'[k].order \in Reference
    <3> SUFFICES ASSUME NEW k \in Handlers
                 PROVE  /\ handler'[k] = [at |-> handler'[k].at, conv |-> handler'[k].conv,
                                          order |-> handler'[k].order, todo |-> handler'[k].todo]
                        /\ handler'[k].at \in {"idle", "find", "open", "run"}
                        /\ handler'[k].conv \in 0..c
                        /\ At(k, "run")' => handler'[k].conv \in 1..c
                        /\ handler'[k].order \in Reference
      OBVIOUS
    <3>l. Len(convs) \in Nat
      BY <1>1 DEF Typed
    <3>1. CASE k = h
      BY <1>3, <1>6, <1>s, <3>l, <3>1 DEF Reference
    <3>2. CASE k # h
      <4>1. /\ handler[k] = [at |-> handler[k].at, conv |-> handler[k].conv,
                             order |-> handler[k].order, todo |-> handler[k].todo]
            /\ handler[k].at \in {"idle", "find", "open", "run"}
            /\ handler[k].conv \in 0..Len(convs)
            /\ At(k, "run") => handler[k].conv \in 1..Len(convs)
            /\ handler[k].order \in Reference
        BY <1>1 DEF Typed
      <4>2. 0..Len(convs) \subseteq 0..c /\ 1..Len(convs) \subseteq 1..c
        BY <1>3, <3>l
      <4> QED
        BY <2>1, <3>2, <4>1, <4>2
    <3> QED
      BY <3>1, <3>2
  <2>3. \A o \in Orders : notice[o].at \in {"step", "status"} => notice[o].conv \in 1..c
    <3>1. Len(convs) \in Nat
      BY <1>1 DEF Typed
    <3> QED
      BY <1>1, <1>3, <3>1 DEF Typed
  <2> QED
    BY <1>1, <1>c, <1>6, <1>7, <2>2, <2>3 DEF Typed, Calm
<1>9. Undisturbed' => Active' \subseteq {c} /\ Fits(seen.step, seen.order)'
  <2>1. Undisturbed => Active = {}
    BY <1>1 DEF ChatInv, Handling
  <2>2. Fits(seen.step, seen.order)'
    BY <1>s DEF Fits
  <2> QED
    BY <1>2, <1>c, <2>1, <2>2
<1>10. Named(seen.step, seen.order, seen.meta)
  BY <1>s DEF Named
<1>11. Handling(h)' /\ ~At(h, "idle")'
  <2>1. Owes(h)'
    BY <1>c, <1>s, <1>6, <1>8, <1>9, <1>10, Decided
  <2> QED
    BY <1>6, <2>1 DEF Handling, At
<1>12. \A d \in Active : d \in Active' /\ convs'[d] = convs[d]
  BY <1>c DEF Active
<1>13. Alone => (\A d \in Active : Named(convs[d].step, convs[d].order, convs[d].meta))'
  <2>1. Alone => \A d \in Active : Named(convs[d].step, convs[d].order, convs[d].meta)
    BY DEF ChatInv
  <2> QED
    BY <1>10, <1>12, <1>c, <2>1 DEF Named
<1>14. \A o \in Orders : Told(o)'
  <2>1. \A o \in Orders : Told(o)
    BY DEF ChatInv
  <2> QED
    BY <1>1, <1>2, <1>7, <1>12, <2>1, ToldRest
<1>15. ~At(h, "idle") /\ Len(convs) <= Len(convs')
  BY <1>1, <1>3, <1>c DEF At, Typed
<1> QED
  BY <1>1, <1>6, <1>8, <1>11, <1>13, <1>14, <1>15, BusyStep

-----------------------------------------------------------------------------
(* Settlement, and the listener's notices. *)

LEMMA SteadyStep ==
  ASSUME ChatInv, Typed', Steady, UNCHANGED <<handler>>, \A o \in Orders : Told(o)'
  PROVE  ChatInv'
<1>1. Typed /\ (Undisturbed' => Undisturbed) /\ (Alone' => Alone) /\ Busy' = Busy
  BY DEF ChatInv, Steady, Busy, At
<1>2. \A h \in Handlers : Handling(h)'
  BY <1>1, SteadyHandling DEF ChatInv
<1>3. Alone' => (\A c \in Active : Named(convs[c].step, convs[c].order, convs[c].meta))'
  BY <1>1, SteadyRows DEF ChatInv
<1>4. Undisturbed' /\ Busy' = {} => InOrder'
  BY <1>1, SteadyRows DEF ChatInv
<1> QED
  BY <1>1, <1>2, <1>3, <1>4 DEF ChatInv

LEMMA SettleKeeps ==
  ASSUME ChatInv, NEW o \in Orders, Settle(o)
  PROVE  ChatInv'
<1>1. /\ Typed /\ Calm /\ UNCHANGED <<provider, convs, handler, left>> /\ orders[o] = "pushed"
      /\ \/ orders' = [orders EXCEPT ![o] = "completed"] /\ Announce(o)
         \/ orders' = [orders EXCEPT ![o] = "closed"] /\ UNCHANGED notice
  BY DEF ChatInv, Settle
<1>2. /\ orders' \in [Orders -> OrderState]
      /\ orders'[o] \in {"completed", "closed"}
      /\ \A p \in Orders : p # o => orders'[p] = orders[p]
      /\ notice' \in [Orders -> [at: {"none", "find", "step", "status", "send", "told", "lost"},
                                 conv: 0..MaxConversations]]
      /\ \A p \in Orders : p # o => notice'[p] = notice[p]
      /\ \/ orders'[o] = "completed" /\ notice'[o].at = "find"
         \/ notice'[o] = notice[o]
  <2>1. CASE orders' = [orders EXCEPT ![o] = "completed"] /\ Announce(o)
    <3>1. /\ orders' \in [Orders -> OrderState] /\ orders'[o] = "completed"
          /\ \A p \in Orders : p # o => orders'[p] = orders[p]
      BY <1>1, <2>1 DEF Typed, OrderState
    <3>2. /\ notice' \in [Orders -> [at: {"none", "find", "step", "status", "send", "told", "lost"},
                                     conv: 0..MaxConversations]]
          /\ notice'[o].at = "find" /\ \A p \in Orders : p # o => notice'[p] = notice[p]
      BY <1>1, <2>1 DEF Typed, Announce
    <3> QED
      BY <3>1, <3>2
  <2>2. CASE orders' = [orders EXCEPT ![o] = "closed"] /\ UNCHANGED notice
    BY <1>1, <2>2 DEF Typed, OrderState
  <2> QED
    BY <1>1, <2>1, <2>2
<1>3. Typed'
  <2>1. \A h \in Handlers : At(h, "run")' <=> At(h, "run")
    BY <1>1 DEF At
  <2>2. \A p \in Orders : notice'[p].at \in {"step", "status"} => notice'[p].conv \in 1..Len(convs)
    BY <1>1, <1>2 DEF Typed
  <2> QED
    BY <1>1, <1>2, <2>1, <2>2 DEF Typed, Calm
<1>4. (Undisturbed' <=> Undisturbed) /\ (Alone' <=> Alone) /\ Active' = Active
  BY <1>1 DEF Calm, Undisturbed, Alone, Active
<1>5. Steady
  <2>1. \A s \in Step, p \in Reference : Fits(s, p) => Fits(s, p)'
    <3> SUFFICES ASSUME NEW s \in Step, NEW p \in Reference, Fits(s, p)
                 PROVE  Fits(s, p)'
      OBVIOUS
    <3>1. CASE p = o
      BY <1>1, <1>2, <3>1, ChatFlowAssumption DEF Fits, StateFor, ChatFlowAssumption
    <3>2. CASE p # o
      BY <1>2, <3>2 DEF Fits, StateFor, Reference
    <3> QED
      BY <3>1, <3>2
  <2>2. \A p \in Reference : Released(p) => Released(p)'
    BY <1>1, <1>2 DEF Released, Reference
  <2>3. \A p \in Orders : orders[p] = "created" => orders'[p] = "created"
    BY <1>1, <1>2
  <2> QED
    BY <1>1, <1>4, <2>1, <2>2, <2>3 DEF Steady
<1>6. ASSUME NEW p \in Orders
      PROVE  Told(p)'
  <2>1. Told(p)
    BY DEF ChatInv
  <2>2. CASE p # o
    BY <1>1, <1>2, <1>4, <2>1, <2>2, ToldRest
  <2>3. CASE p = o
    <3>1. notice[o].at = "none"
      BY <1>1, <2>1, <2>3 DEF Told, Typed
    <3>2. Undisturbed => Kept(o)
      BY <1>1, <2>1, <2>3 DEF Told
    <3>3. Kept(o) => Kept(o)'
      BY <1>1, <1>4 DEF Kept
    <3>4. notice'[o].at # "none" => orders'[o] = "completed"
      BY <1>2, <3>1
    <3>5. ~NoticeAt(o, "lost")'
      BY <1>2, <3>1 DEF NoticeAt
    <3> QED
      BY <1>4, <2>3, <3>2, <3>3, <3>4, <3>5 DEF Told
  <2> QED
    BY <2>2, <2>3
<1> QED
  BY <1>1, <1>3, <1>5, <1>6, SteadyStep

(* Only the notice moves. *)
LEMMA NoticeOnly ==
  ASSUME ChatInv, NEW o \in Orders, UNCHANGED <<provider, convs, orders, handler, left>>,
         NEW label \in {"step", "send", "told", "lost"}, NEW c \in 0..MaxConversations,
         notice' = [notice EXCEPT ![o] = [at |-> label, conv |-> c]],
         orders[o] = "completed",
         label = "step" => c \in 1..Len(convs),
         overlaps' = overlaps, troubles' \in 0..MaxDisturbances, Undisturbed' => Undisturbed,
         Undisturbed' /\ label = "lost" => o \in left
  PROVE  ChatInv'
<1>1. Typed
  BY DEF ChatInv
<1>2. /\ notice' \in [Orders -> [at: {"none", "find", "step", "status", "send", "told", "lost"},
                                 conv: 0..MaxConversations]]
      /\ notice'[o].at = label /\ notice'[o].conv = c
      /\ \A p \in Orders : p # o => notice'[p] = notice[p]
  BY <1>1 DEF Typed
<1>3. Typed'
  <2>1. \A h \in Handlers : At(h, "run")' <=> At(h, "run")
    BY DEF At
  <2>2. \A p \in Orders : notice'[p].at \in {"step", "status"} => notice'[p].conv \in 1..Len(convs)
    BY <1>1, <1>2 DEF Typed
  <2> QED
    BY <1>1, <1>2, <2>1, <2>2 DEF Typed
<1>4. (Alone' <=> Alone) /\ Active' = Active
  BY DEF Alone, Active
<1>5. Steady
  BY <1>4 DEF Steady, Fits, StateFor, Released
<1>6. ASSUME NEW p \in Orders
      PROVE  Told(p)'
  <2>1. Told(p)
    BY DEF ChatInv
  <2>2. CASE p # o
    BY <1>2, <1>4, <2>1, <2>2, ToldRest
  <2>3. CASE p = o
    <3>1. Kept(o) => Kept(o)'
      BY <1>4 DEF Kept
    <3> QED
      BY <1>2, <2>1, <2>3, <3>1 DEF Told, NoticeAt
  <2> QED
    BY <2>2, <2>3
<1> QED
  BY <1>3, <1>5, <1>6, SteadyStep

LEMMA NoticeTo ==
  ASSUME Typed, NEW o \in Orders, NEW label
  PROVE  /\ [notice EXCEPT ![o].at = label] =
              [notice EXCEPT ![o] = [at |-> label, conv |-> notice[o].conv]]
         /\ notice[o].conv \in 0..MaxConversations
<1>1. notice[o] \in [at: {"none", "find", "step", "status", "send", "told", "lost"},
                    conv: 0..MaxConversations]
  BY DEF Typed
<1>2. [notice[o] EXCEPT !.at = label] = [at |-> label, conv |-> notice[o].conv]
  BY <1>1
<1> QED
  BY <1>1, <1>2

LEMMA FindBySessionIdKeeps ==
  ASSUME ChatInv, NEW o \in Orders, FindBySessionId(o)
  PROVE  ChatInv'
<1> DEFINE linked == {c \in Active : convs[c].order = o}
<1>1. /\ Typed /\ Told(o) /\ notice[o].at = "find" /\ Calm
      /\ UNCHANGED <<provider, convs, orders, handler, left>>
      /\ \/ linked = {} /\ notice' = [notice EXCEPT ![o].at = "lost"]
         \/ \E c \in linked : notice' = [notice EXCEPT ![o] = [at |-> "step", conv |-> c]]
  BY DEF ChatInv, FindBySessionId, NoticeAt
<1>2. /\ orders[o] = "completed" /\ (Undisturbed' => Undisturbed)
      /\ overlaps' = overlaps /\ troubles' \in 0..MaxDisturbances
  BY <1>1 DEF Told, Calm, Undisturbed, Typed
<1>3. CASE linked = {} /\ notice' = [notice EXCEPT ![o].at = "lost"]
  <2>1. /\ notice' = [notice EXCEPT ![o] = [at |-> "lost", conv |-> notice[o].conv]]
        /\ notice[o].conv \in 0..MaxConversations
    BY <1>1, <1>3, NoticeTo
  <2>2. PICK c \in 0..MaxConversations : c = notice[o].conv
    BY <2>1
  <2>3. Undisturbed => o \in left
    BY <1>1, <1>2, <1>3 DEF Told, Kept
  <2> QED
    BY <1>1, <1>2, <2>1, <2>2, <2>3, NoticeOnly
<1>4. CASE \E c \in linked : notice' = [notice EXCEPT ![o] = [at |-> "step", conv |-> c]]
  <2>1. PICK c \in linked : notice' = [notice EXCEPT ![o] = [at |-> "step", conv |-> c]]
    BY <1>4
  <2>2. c \in 1..Len(convs) /\ c \in 0..MaxConversations
    <3>1. MaxConversations \in Nat /\ Len(convs) \in Nat /\ Len(convs) <= MaxConversations
      BY <1>1, ChatFlowAssumption DEF Typed, ChatFlowAssumption
    <3>2. c \in 1..Len(convs)
      BY <1>1 DEF Active, Typed
    <3> QED
      BY <3>1, <3>2
  <2> HIDE DEF linked
  <2> QED
    BY <1>1, <1>2, <2>1, <2>2, NoticeOnly
<1> QED
  BY <1>1, <1>3, <1>4

LEMMA NoticeSendKeeps ==
  ASSUME ChatInv, NEW o \in Orders, NoticeSend(o)
  PROVE  ChatInv'
<1>1. /\ Typed /\ Told(o) /\ notice[o].at = "send" /\ Calm
      /\ UNCHANGED <<provider, convs, orders, handler, left>>
      /\ notice' = [notice EXCEPT ![o].at = "told"]
  BY DEF ChatInv, NoticeSend, NoticeAt
<1>2. /\ orders[o] = "completed" /\ (Undisturbed' => Undisturbed)
      /\ overlaps' = overlaps /\ troubles' \in 0..MaxDisturbances
  BY <1>1 DEF Told, Calm, Undisturbed, Typed
<1>3. /\ notice' = [notice EXCEPT ![o] = [at |-> "told", conv |-> notice[o].conv]]
      /\ notice[o].conv \in 0..MaxConversations
  BY <1>1, NoticeTo
<1>4. PICK c \in 0..MaxConversations : c = notice[o].conv
  BY <1>3
<1> QED
  BY <1>1, <1>2, <1>3, <1>4, NoticeOnly

LEMMA NoticeFailsKeeps ==
  ASSUME ChatInv, NEW o \in Orders, NoticeFails(o)
  PROVE  ChatInv'
<1>1. /\ Typed /\ Told(o) /\ notice[o].at # "none"
      /\ overlaps + troubles < MaxDisturbances /\ troubles' = troubles + 1
      /\ UNCHANGED <<provider, convs, orders, handler, left, overlaps>>
      /\ notice' = [notice EXCEPT ![o].at = "lost"]
  BY DEF ChatInv, NoticeFails, NoticeAt, Disturbed
<1>2. overlaps \in Nat /\ troubles \in Nat /\ MaxDisturbances \in Nat
  BY <1>1, ChatFlowAssumption DEF Typed, ChatFlowAssumption
<1>3. orders[o] = "completed" /\ ~(Undisturbed') /\ troubles' \in 0..MaxDisturbances
  BY <1>1, <1>2 DEF Told, Undisturbed
<1>4. /\ notice' = [notice EXCEPT ![o] = [at |-> "lost", conv |-> notice[o].conv]]
      /\ notice[o].conv \in 0..MaxConversations
  BY <1>1, NoticeTo
<1>5. PICK c \in 0..MaxConversations : c = notice[o].conv
  BY <1>4
<1> QED
  BY <1>1, <1>3, <1>4, <1>5, NoticeOnly

LEMMA NoticeStepKeeps ==
  ASSUME ChatInv, NEW o \in Orders, NoticeStep(o)
  PROVE  ChatInv'
<1> DEFINE c == notice[o].conv
<1>1. /\ Typed /\ notice[o].at = "step" /\ Calm /\ UNCHANGED <<provider, orders, handler, left>>
      /\ convs' = IF convs[c].active THEN [convs EXCEPT ![c].step = "COMPLETED"] ELSE convs
      /\ notice' = [notice EXCEPT ![o].at = "status"]
  BY DEF ChatInv, NoticeStep, NoticeAt
<1>2. c \in 1..Len(convs) /\ convs \in Seq(Conversation) /\ convs[c] \in Conversation
  BY <1>1 DEF Typed
<1>3. /\ convs' \in Seq(Conversation) /\ Len(convs') = Len(convs)
      /\ \A d \in DOMAIN convs :
           /\ convs'[d].active = convs[d].active /\ convs'[d].order = convs[d].order
           /\ convs'[d].meta = convs[d].meta /\ convs'[d].step \in {convs[d].step, "COMPLETED"}
      /\ Active' = Active
  <2> DEFINE row == [convs[c] EXCEPT !.step = "COMPLETED"]
  <2>1. /\ row \in Conversation /\ row.active = convs[c].active /\ row.order = convs[c].order
        /\ row.meta = convs[c].meta /\ row.step = "COMPLETED"
    BY <1>2 DEF Conversation, Step
  <2>2. convs' = IF convs[c].active THEN [convs EXCEPT ![c] = row] ELSE convs
    BY <1>1, <1>2
  <2> HIDE DEF row
  <2>3. /\ convs' \in Seq(Conversation) /\ Len(convs') = Len(convs)
        /\ DOMAIN convs' = DOMAIN convs
        /\ \A d \in DOMAIN convs :
             convs'[d] = convs[d] \/ (d = c /\ convs'[d] = row)
    BY <1>2, <2>1, <2>2
  <2> QED
    BY <2>1, <2>3 DEF Active
<1>4. /\ notice' \in [Orders -> [at: {"none", "find", "step", "status", "send", "told", "lost"},
                                 conv: 0..MaxConversations]]
      /\ notice'[o].at = "status" /\ notice'[o].conv = c
      /\ \A p \in Orders : p # o => notice'[p] = notice[p]
  BY <1>1 DEF Typed
<1>5. Typed'
  <2>1. \A h \in Handlers : At(h, "run")' <=> At(h, "run")
    BY <1>1 DEF At
  <2>2. \A p \in Orders : notice'[p].at \in {"step", "status"} => notice'[p].conv \in 1..Len(convs)
    BY <1>1, <1>2, <1>4 DEF Typed
  <2> QED
    BY <1>1, <1>3, <1>4, <2>1, <2>2 DEF Typed, Calm
<1>6. /\ (Undisturbed' <=> Undisturbed) /\ (Alone' <=> Alone)
      /\ \A d \in Active : d \in DOMAIN convs
  BY <1>1 DEF Calm, Undisturbed, Alone, Active
<1>7. Steady
  <2>1. \A s \in Step, p \in Reference : Fits(s, p) => Fits(s, p)'
    BY <1>1 DEF Fits, StateFor
  <2>2. \A p \in Reference : Released(p) => Released(p)'
    BY <1>1 DEF Released
  <2>3. \A d \in Active' :
          /\ convs'[d].order = convs[d].order /\ convs'[d].meta = convs[d].meta
          /\ convs'[d].step \in {convs[d].step, "COMPLETED"}
    BY <1>3, <1>6
  <2> QED
    BY <1>1, <1>3, <1>6, <2>1, <2>2, <2>3 DEF Steady
<1>8. ASSUME NEW p \in Orders
      PROVE  Told(p)'
  <2>1. Told(p) /\ Told(o)
    BY DEF ChatInv
  <2>2. \A d \in Active : d \in Active' /\ convs'[d].order = convs[d].order
    BY <1>3, <1>6
  <2>3. CASE p # o
    BY <1>1, <1>4, <1>6, <2>1, <2>2, <2>3, ToldRest
  <2>4. CASE p = o
    <3>1. Kept(o) => Kept(o)'
      BY <1>1, <2>2 DEF Kept
    <3> QED
      BY <1>1, <1>4, <1>6, <2>1, <2>4, <3>1 DEF Told, NoticeAt
  <2> QED
    BY <2>3, <2>4
<1> QED
  BY <1>1, <1>5, <1>7, <1>8, SteadyStep

LEMMA NoticeStatusKeeps ==
  ASSUME ChatInv, NEW o \in Orders, NoticeStatus(o)
  PROVE  ChatInv'
<1> DEFINE c == notice[o].conv
<1>1. /\ Typed /\ notice[o].at = "status" /\ Calm /\ UNCHANGED <<provider, orders, handler>>
      /\ convs' = [convs EXCEPT ![c] = Closed] /\ Leave(convs[c].order)
      /\ notice' = [notice EXCEPT ![o].at = "send"]
  BY DEF ChatInv, NoticeStatus, NoticeAt
<1>2. c \in 1..Len(convs) /\ convs \in Seq(Conversation) /\ convs[c].order \in Reference
  <2>1. c \in 1..Len(convs) /\ convs \in Seq(Conversation) /\ convs[c] \in Conversation
    BY <1>1 DEF Typed
  <2> QED
    BY <2>1 DEF Conversation
<1>3. /\ convs' \in Seq(Conversation) /\ Len(convs') = Len(convs)
      /\ \A d \in DOMAIN convs : d # c => convs'[d] = convs[d]
      /\ Active' = Active \ {c}
  <2>1. Closed \in Conversation /\ ~Closed.active
    BY DEF Closed, Fresh, Conversation, Reference, Step, Metadata, NoMetadata
  <2>2. /\ convs' \in Seq(Conversation) /\ Len(convs') = Len(convs)
        /\ DOMAIN convs' = DOMAIN convs /\ convs'[c] = Closed
        /\ \A d \in DOMAIN convs : d # c => convs'[d] = convs[d]
    BY <1>1, <1>2, <2>1
  <2> QED
    BY <2>1, <2>2 DEF Active
<1>4. /\ left \subseteq left' /\ left' \subseteq Orders
      /\ convs[c].order = "none" \/ convs[c].order \in left'
  BY <1>1, <1>2 DEF Leave, Typed, Reference
<1>5. /\ notice' \in [Orders -> [at: {"none", "find", "step", "status", "send", "told", "lost"},
                                 conv: 0..MaxConversations]]
      /\ notice'[o].at = "send"
      /\ \A p \in Orders : p # o => notice'[p] = notice[p]
  BY <1>1 DEF Typed
<1>6. Typed'
  <2>1. \A h \in Handlers : At(h, "run")' <=> At(h, "run")
    BY <1>1 DEF At
  <2>2. \A p \in Orders : notice'[p].at \in {"step", "status"} => notice'[p].conv \in 1..Len(convs)
    BY <1>1, <1>5 DEF Typed
  <2> QED
    BY <1>1, <1>3, <1>4, <1>5, <2>1, <2>2 DEF Typed, Calm
<1>7. /\ (Undisturbed' <=> Undisturbed) /\ (Alone' <=> Alone)
      /\ \A d \in Active : d \in DOMAIN convs
      /\ \A d \in Active' : d \in Active /\ convs'[d] = convs[d]
  BY <1>1, <1>3 DEF Calm, Undisturbed, Alone, Active
<1>8. Steady
  <2>1. \A s \in Step, p \in Reference : Fits(s, p) => Fits(s, p)'
    BY <1>1 DEF Fits, StateFor
  <2>2. \A p \in Reference : Released(p) => Released(p)'
    BY <1>1, <1>4 DEF Released
  <2>3. \A d \in Active \ Active', p \in Reference : convs[d].order = p => Released(p)'
    BY <1>3, <1>4 DEF Released
  <2> QED
    BY <1>1, <1>3, <1>7, <2>1, <2>2, <2>3 DEF Steady
<1>9. ASSUME NEW p \in Orders
      PROVE  Told(p)'
  <2>1. Told(p) /\ Told(o)
    BY DEF ChatInv
  <2>2. \A d \in Active : \/ d \in Active' /\ convs'[d].order = convs[d].order
                          \/ convs[d].order = "none" \/ convs[d].order \in left'
    BY <1>3, <1>4, <1>7
  <2>3. \A q \in Orders : q # "none"
    BY ChatFlowAssumption DEF ChatFlowAssumption
  <2>4. CASE p # o
    BY <1>1, <1>4, <1>5, <1>7, <2>1, <2>2, <2>3, <2>4, ToldRest
  <2>5. CASE p = o
    <3>1. Kept(o) => Kept(o)'
      BY <1>4, <2>2, <2>3 DEF Kept
    <3> QED
      BY <1>1, <1>5, <1>7, <2>1, <2>5, <3>1 DEF Told, NoticeAt
  <2> QED
    BY <2>4, <2>5
<1> QED
  BY <1>1, <1>6, <1>8, <1>9, SteadyStep

-----------------------------------------------------------------------------
(* All steps together. *)

LEMMA NextChat == ChatInv /\ [Next]_vars => ChatInv'
<1> SUFFICES ASSUME ChatInv, [Next]_vars
             PROVE  ChatInv'
  OBVIOUS
<1>1. ASSUME NEW h \in Handlers, WriteStep(h)
      PROVE  ChatInv'
  BY <1>1, StepKeeps, ResetKeeps, CloseKeeps, LinkKeeps, LinkQuoteKeeps, MetadataKeeps,
     CreateKeeps, NextKeeps DEF WriteStep
<1>2. ASSUME NEW h \in Handlers, ServiceStep(h)
      PROVE  ChatInv'
  BY <1>2, CreateQuoteKeeps, CreateSessionKeeps, SubmitIdentityKeeps, SubmitPayoutDetailsKeeps,
     InitiatePaymentKeeps, ConfirmKeeps DEF ServiceStep
<1>3. ASSUME NEW h \in Handlers,
             Receive(h) \/ Find(h) \/ Open(h) \/ Reply(h) \/ Abandon(h)
      PROVE  ChatInv'
  BY <1>3, ReceiveKeeps, FindKeeps, OpenKeeps, ReplyKeeps, AbandonKeeps
<1>4. ASSUME NEW o \in Orders, Settle(o) \/ NoticeWork(o)
      PROVE  ChatInv'
  BY <1>4, SettleKeeps, FindBySessionIdKeeps, NoticeStepKeeps, NoticeStatusKeeps,
     NoticeSendKeeps, NoticeFailsKeeps DEF NoticeWork
<1>5. CASE UNCHANGED vars
  <2>1. /\ Typed' /\ Active' = Active /\ (Undisturbed' <=> Undisturbed) /\ (Alone' <=> Alone)
        /\ Steady
    BY <1>5 DEF vars, ChatInv, Typed, At, Active, Undisturbed, Alone, Steady, Fits, StateFor,
                Released
  <2>2. \A o \in Orders : Told(o)'
    BY <1>5, <2>1, ToldSame DEF vars
  <2> QED
    BY <1>5, <2>1, <2>2, SteadyStep DEF vars
<1> QED
  BY <1>1, <1>2, <1>3, <1>4, <1>5 DEF Next

LEMMA Invariance == Spec => []ChatInv
<1>1. Init => ChatInv
  BY InitChat, ChatFlowAssumption
<1> QED
  BY <1>1, NextChat, PTL DEF Spec

-----------------------------------------------------------------------------
(* The step never runs ahead of the order: a second invariant, on top of the *)
(* first, kept while messages come one at a time, whatever call fails.      *)

Reached(step, order) == StateFor(order) \in Reaching(step)

(* Where a row may stand when its handler starts a new order. *)
Startable == {"WAITING_FOR_QUOTE_CONFIRMATION", "COMPLETED"}

(* What the writes that a handler still owes find in the row it read. *)
Backed(h) ==
    LET kind == Kind(handler[h].todo) IN
    /\ kind = "step" => Reached(Argument(h), Row(h).order)
    /\ kind = "createSession" => Row(h).step \in Startable
    /\ kind = "link" => orders[Argument(h)] # "none" /\ Row(h).step \in Startable
    /\ kind = "metadata" => \A s \in Step : After(h) = <<To(s)>> => Reached(s, Row(h).order)

RowsReached == \A c \in Active : Reached(convs[c].step, convs[c].order)

NoneAhead ==
    Alone => /\ RowsReached
             /\ \A h \in Handlers : At(h, "run") /\ Row(h).active => Backed(h)

(* An order moves on, never back. *)
Onward ==
    /\ \A s \in Step, o \in Reference : Reached(s, o) => Reached(s, o)'
    /\ \A o \in Orders : orders[o] # "none" => orders'[o] # "none"

LEMMA StandsOn ==
  ASSUME UNCHANGED orders
  PROVE  Onward
  BY DEF Onward, Reached, StateFor

(* The moves ConversionService makes. *)
LEMMA MovesOn ==
  ASSUME Typed, NEW o \in Orders, NEW from \in OrderState, NEW to \in OrderState,
         orders[o] = from, orders' = [orders EXCEPT ![o] = to],
         \/ from = "none" /\ to = "created"
         \/ from \in {"created", "screening", "identified"} /\ to = "expired"
         \/ from = "created" /\ to \in {"identified", "closed", "screening"}
         \/ from = "identified" /\ to = "payable"
         \/ from = "payable" /\ to = "pushed"
         \/ from = "pushed" /\ to \in {"completed", "closed"}
  PROVE  Onward /\ orders'[o] = to
<1>1. orders'[o] = to /\ \A p \in Orders : p # o => orders'[p] = orders[p]
  BY DEF Typed
<1>2. ASSUME NEW s \in Step, from \in Reaching(s)
      PROVE  to \in Reaching(s)
  BY <1>2 DEF Reaching, OrderState, Step
<1>3. ASSUME NEW s \in Step, NEW p \in Reference, Reached(s, p)
      PROVE  Reached(s, p)'
  <2>1. CASE p = o
    BY <1>1, <1>2, <1>3, <2>1, ChatFlowAssumption DEF Reached, StateFor, ChatFlowAssumption
  <2>2. CASE p # o
    BY <1>1, <1>3, <2>2 DEF Reached, StateFor, Reference
  <2> QED
    BY <2>1, <2>2
<1>4. to # "none"
  OBVIOUS
<1> QED
  BY <1>1, <1>3, <1>4 DEF Onward

(* Steps that ask nothing of an order, and those a new order is led to. *)
LEMMA Unasking ==
  ASSUME Typed, NEW o \in Reference,
         NEW s \in {"IDLE", "MENU", "WAITING_FOR_AMOUNT", "WAITING_FOR_QUOTE_CONFIRMATION",
                    "COMPLETED"}
  PROVE  Reached(s, o) /\ s \in Step
  BY DEF Reached, StateFor, Typed, Reference, Reaching, OrderState, Step

LEMMA Asking ==
  ASSUME Typed, NEW o \in Reference,
         NEW s \in {"WAITING_FOR_FULL_NAME", "WAITING_FOR_DOCUMENT_NUMBER", "WAITING_FOR_EMAIL"},
         StateFor(o) # "none"
  PROVE  Reached(s, o) /\ s \in Step
  BY DEF Reached, StateFor, Typed, Reference, Reaching, OrderState, Step

LEMMA Asked ==
  ASSUME NEW o \in Reference,
         NEW s \in {"WAITING_FOR_FULL_NAME", "WAITING_FOR_DOCUMENT_NUMBER", "WAITING_FOR_EMAIL"},
         Reached(s, o)
  PROVE  StateFor(o) # "none"
  BY DEF Reached, Reaching, OrderState

LEMMA InitNoneAhead == Init => NoneAhead
  BY DEF Init, NoneAhead, RowsReached, Active, At, Resting

(* Only the busy handler moves. *)
LEMMA AloneStep ==
  ASSUME ChatInv, NoneAhead, NEW h \in Handlers, ~At(h, "idle"), Moves(h), Alone' => Alone,
         Alone' => RowsReached',
         Alone' /\ At(h, "run")' /\ Row(h)'.active => Backed(h)'
  PROVE  NoneAhead'
<1>1. ASSUME Alone', NEW k \in Handlers, k # h
      PROVE  ~At(k, "run")'
  BY <1>1 DEF ChatInv, Busy, Moves, At
<1> QED
  BY <1>1 DEF NoneAhead

LEMMA RowsStay ==
  ASSUME NoneAhead, Typed, convs' = convs, Onward, Alone' => Alone
  PROVE  Alone' => RowsReached'
<1> SUFFICES ASSUME Alone', NEW c \in Active
             PROVE  Reached(convs[c].step, convs[c].order)'
  BY DEF RowsReached, Active
<1>1. convs[c] \in Conversation
  BY DEF Active, Typed
<1>2. convs[c].step \in Step /\ convs[c].order \in Reference
  BY <1>1 DEF Conversation
<1>3. Reached(convs[c].step, convs[c].order)
  BY DEF NoneAhead, RowsReached
<1>4. PICK s \in Step, o \in Reference : s = convs[c].step /\ o = convs[c].order
  BY <1>2
<1>5. Reached(s, o)'
  BY <1>3, <1>4 DEF Onward
<1> QED
  BY <1>4, <1>5 DEF Reached, StateFor

-----------------------------------------------------------------------------
(* The handler's own steps. *)

(* What a script begins with is backed by the row it was chosen for. *)
LEMMA ScriptBacked ==
  ASSUME Typed, NEW seen \in Conversation, NEW cmd \in Command, NEW expired \in BOOLEAN,
         Reached(seen.step, seen.order), NEW h \in Handlers, UNCHANGED orders,
         handler'[h].todo = Script(seen, cmd, expired), Row(h)' = seen
  PROVE  Backed(h)'
<1> DEFINE todo == handler'[h].todo
<1>0. seen.order \in Reference /\ StateFor(seen.order)' = StateFor(seen.order)
  BY DEF Conversation, StateFor
<1>s. \A s : Reached(s, seen.order)' <=> Reached(s, seen.order)
  BY DEF Reached, StateFor
<1>1. CASE todo = <<<<"createSession">>>> /\ seen.step = "WAITING_FOR_QUOTE_CONFIRMATION"
  <2>1. Kind(handler[h].todo)' = "createSession"
    BY <1>1, NewTodo
  <2> QED
    BY <1>1, <2>1 DEF Backed, Startable
<1>2. CASE todo \in {<<>>, <<<<"createQuote">>>>, <<<<"submitPayoutDetails">>>>,
                     <<<<"initiatePayment">>>>, <<<<"confirmByReference">>>>}
  <2>1. Kind(handler[h].todo)' \in {"none", "createQuote", "submitPayoutDetails",
                                    "initiatePayment", "confirmByReference"}
    BY <1>2, NewTodo
  <2> QED
    BY <2>1 DEF Backed
<1>3. CASE todo \in {<<To("MENU")>>, <<To("WAITING_FOR_AMOUNT")>>}
  <2>1. Kind(handler[h].todo)' = "step" /\ Argument(h)' \in {"MENU", "WAITING_FOR_AMOUNT"}
    BY <1>3, NewTodo DEF To
  <2>2. Reached("MENU", seen.order) /\ Reached("WAITING_FOR_AMOUNT", seen.order)
    BY <1>0, Unasking
  <2>3. Reached("MENU", seen.order)' /\ Reached("WAITING_FOR_AMOUNT", seen.order)'
    BY <1>s, <2>2
  <2> QED
    BY <2>1, <2>3 DEF Backed, Reached
<1>4. CASE todo \in {<<<<"reset">>>>, <<<<"reset">>, To("WAITING_FOR_AMOUNT")>>,
                     <<<<"close">>, <<"create">>>>, <<<<"reset">>, <<"create">>, <<"close">>,
                     <<"next", "WAITING_FOR_AMOUNT">>>>}
  <2>1. Kind(handler[h].todo)' \in {"reset", "close"}
    BY <1>4, NewTodo
  <2> QED
    BY <2>1 DEF Backed
<1>5. ASSUME NEW m \in Metadata,
             NEW s \in {"WAITING_FOR_DOCUMENT_NUMBER", "WAITING_FOR_EMAIL"},
             todo = <<<<"metadata", m>>, To(s)>>,
             seen.step \in {"WAITING_FOR_FULL_NAME", "WAITING_FOR_DOCUMENT_NUMBER"}
      PROVE  Backed(h)'
  <2>1. Kind(handler[h].todo)' = "metadata" /\ After(h)' = <<To(s)>>
    BY <1>5, NewTodo
  <2>2. StateFor(seen.order) # "none"
    BY <1>0, <1>5, Asked
  <2>3. Reached(s, seen.order)'
    BY <1>0, <1>s, <2>2, Asking
  <2>4. \A t \in Step : <<To(s)>> = <<To(t)>> => t = s
    BY DEF To
  <2> QED
    BY <2>1, <2>3, <2>4 DEF Backed, Reached
<1>6. ASSUME NEW m \in Metadata,
             todo \in {<<<<"metadata", m>>>>, <<<<"metadata", m>>, <<"submitIdentity", m>>>>}
      PROVE  Backed(h)'
  <2>1. Kind(handler[h].todo)' = "metadata" /\ After(h)' \in {<<>>, <<<<"submitIdentity", m>>>>}
    BY <1>6, NewTodo
  <2>2. \A t \in Step : <<To(t)>> # <<>> /\ <<To(t)>> # <<<<"submitIdentity", m>>>>
    BY DEF To
  <2> QED
    BY <2>1, <2>2 DEF Backed
<1> HIDE DEF todo
<1>7. \/ todo = <<<<"createSession">>>> /\ seen.step = "WAITING_FOR_QUOTE_CONFIRMATION"
      \/ todo \in {<<>>, <<<<"createQuote">>>>, <<<<"submitPayoutDetails">>>>,
                   <<<<"initiatePayment">>>>, <<<<"confirmByReference">>>>}
      \/ todo \in {<<To("MENU")>>, <<To("WAITING_FOR_AMOUNT")>>}
      \/ todo \in {<<<<"reset">>>>, <<<<"reset">>, To("WAITING_FOR_AMOUNT")>>,
                   <<<<"close">>, <<"create">>>>, <<<<"reset">>, <<"create">>, <<"close">>,
                   <<"next", "WAITING_FOR_AMOUNT">>>>}
      \/ \E m \in Metadata : todo = <<<<"metadata", m>>, To("WAITING_FOR_DOCUMENT_NUMBER")>>
                             /\ seen.step = "WAITING_FOR_FULL_NAME"
      \/ \E m \in Metadata : todo = <<<<"metadata", m>>, To("WAITING_FOR_EMAIL")>>
                             /\ seen.step = "WAITING_FOR_DOCUMENT_NUMBER"
      \/ \E m \in Metadata :
           todo \in {<<<<"metadata", m>>>>, <<<<"metadata", m>>, <<"submitIdentity", m>>>>}
  <2>1. todo = Script(seen, cmd, expired)
    BY DEF todo
  <2> QED
    BY <2>1, Scripts
<1> QED
  BY <1>1, <1>2, <1>3, <1>4, <1>5, <1>6, <1>7

LEMMA HandlerNoneAhead ==
  ASSUME ChatInv, NoneAhead, NEW h \in Handlers,
         Receive(h) \/ Find(h) \/ Open(h) \/ Reply(h) \/ Abandon(h)
  PROVE  NoneAhead'
<1>t. Typed
  BY DEF ChatInv
<1>1. CASE Receive(h)
  <2>1. /\ UNCHANGED <<convs, orders>> /\ (Alone' => Alone /\ Busy = {})
        /\ handler' = [handler EXCEPT ![h].at = "find"]
    BY <1>t, <1>1 DEF Receive, Alone, Typed, Goto
  <2>2. ASSUME NEW k \in Handlers, Alone'
        PROVE  ~At(k, "run")'
    <3>1. handler[k].at = "idle"
      BY <2>1, <2>2 DEF Busy, At
    <3>2. handler'[k].at \in {"find", handler[k].at}
      BY <1>t, <2>1 DEF Typed
    <3> QED
      BY <3>1, <3>2 DEF At
  <2>3. Alone' => RowsReached'
    BY <1>t, <2>1, StandsOn, RowsStay
  <2> QED
    BY <2>2, <2>3 DEF NoneAhead
<1>2. CASE Find(h)
  <2>1. /\ At(h, "find") /\ UNCHANGED <<convs, orders>> /\ (Alone' => Alone)
    BY <1>2 DEF Find, Calm, Alone
  <2>2. (Alone' => RowsReached') /\ ~At(h, "idle")
    BY <1>t, <2>1, StandsOn, RowsStay DEF At
  <2>3. CASE Goto(h, "open")
    <3>1. Moves(h) /\ ~At(h, "run")'
      BY <1>t, <2>3 DEF Goto, Moves, At, Typed
    <3> QED
      BY <2>1, <2>2, <3>1, AloneStep
  <2>4. CASE Active # {} /\ Begin(h, Newest, convs[Newest])
    <3>1. Newest \in Active
      BY <1>t, <2>4, NewestIsActive
    <3>2. PICK c \in Active, seen \in Conversation : c = Newest /\ seen = convs[c]
      BY <1>t, <3>1 DEF Active, Typed
    <3>3. PICK cmd \in Command, expired \in BOOLEAN :
            handler' = [handler EXCEPT ![h] = [at |-> "run", conv |-> c, order |-> seen.order,
                                               todo |-> Script(seen, cmd, expired)]]
      BY <2>4, <3>2 DEF Begin
    <3>4. /\ Moves(h) /\ handler'[h].todo = Script(seen, cmd, expired)
          /\ handler'[h].conv = c
      BY <1>t, <3>3 DEF Typed, Moves
    <3>5. Row(h)' = seen
      BY <2>1, <3>2, <3>4 DEF Row
    <3>6. Alone => Reached(seen.step, seen.order)
      BY <3>2 DEF NoneAhead, RowsReached
    <3>7. Alone => Backed(h)'
      BY <1>t, <2>1, <3>4, <3>5, <3>6, ScriptBacked
    <3> QED
      BY <2>1, <2>2, <3>4, <3>7, AloneStep
  <2> QED
    BY <1>2, <2>3, <2>4 DEF Find
<1>3. CASE Open(h)
  <2>1. /\ At(h, "open") /\ UNCHANGED orders /\ (Alone' => Alone)
        /\ Len(convs) < MaxConversations /\ convs' = Append(convs, Fresh)
    BY <1>3 DEF Open, Calm, Alone
  <2>0. Fresh \in Conversation /\ Len(convs) + 1 \in Nat
    <3>1. Fresh \in Conversation
      BY DEF Fresh, Conversation, Reference, Step, Metadata, NoMetadata
    <3>2. convs \in Seq(Conversation)
      BY <1>t DEF Typed
    <3> QED
      BY <3>1, <3>2
  <2>2. PICK c \in Nat, seen \in Conversation : c = Len(convs) + 1 /\ seen = Fresh
    BY <2>0
  <2>3. /\ convs'[c] = seen /\ \A d \in DOMAIN convs : convs'[d] = convs[d]
        /\ Active' = Active \cup {c}
    BY <1>t, <2>1, <2>2, Created
  <2>4. PICK cmd \in Command, expired \in BOOLEAN :
          handler' = [handler EXCEPT ![h] = [at |-> "run", conv |-> c, order |-> seen.order,
                                             todo |-> Script(seen, cmd, expired)]]
    BY <1>3, <2>2 DEF Open, Begin
  <2>5. Moves(h) /\ handler'[h].todo = Script(seen, cmd, expired) /\ handler'[h].conv = c
    BY <1>t, <2>4 DEF Typed, Moves
  <2>6. Row(h)' = seen /\ ~At(h, "idle")
    BY <2>1, <2>3, <2>5 DEF Row, At
  <2>7. Reached(seen.step, seen.order)
    BY <1>t, <2>2, Unasking DEF Fresh, Reference
  <2>8. Backed(h)'
    BY <1>t, <2>1, <2>5, <2>6, <2>7, ScriptBacked
  <2>9. Alone' => RowsReached'
    <3> SUFFICES ASSUME Alone', NEW d \in Active'
                 PROVE  Reached(convs[d].step, convs[d].order)'
      BY DEF RowsReached
    <3>1. CASE d = c
      BY <2>1, <2>3, <2>7, <3>1 DEF Reached, StateFor
    <3>2. CASE d \in Active
      BY <2>1, <2>3, <3>2 DEF NoneAhead, RowsReached, Reached, StateFor, Active
    <3> QED
      BY <2>3, <3>1, <3>2
  <2> QED
    BY <2>1, <2>5, <2>6, <2>8, <2>9, AloneStep
<1>4. CASE Reply(h) \/ Abandon(h)
  <2>1. /\ UNCHANGED <<convs, orders>> /\ (Alone' => Alone) /\ ~At(h, "idle")
        /\ handler' = [handler EXCEPT ![h] = Resting]
    BY <1>4 DEF Reply, Abandon, Alone, Calm, At
  <2>2. Moves(h) /\ ~At(h, "run")'
    BY <1>t, <2>1 DEF Moves, At, Typed, Resting
  <2>3. Alone' => RowsReached'
    BY <1>t, <2>1, StandsOn, RowsStay
  <2> QED
    BY <2>1, <2>2, <2>3, AloneStep
<1> QED
  BY <1>1, <1>2, <1>3, <1>4

-----------------------------------------------------------------------------
(* The writes. *)

(* A step that is still to be written is backed by the order it is for. *)
LEMMA StepBacked ==
  ASSUME NEW h \in Handlers, NEW s \in Step, NEW o \in Reference,
         handler'[h].todo # <<>>, Kind(handler[h].todo)' = "step", Argument(h)' = s,
         Row(h)'.order = o, Reached(s, o)'
  PROVE  Backed(h)'
  BY DEF Backed, Reached

(* Most calls ask nothing of the row they find. *)
LEMMA LightlyBacked ==
  ASSUME NEW h \in Handlers,
         \/ Kind(handler[h].todo)' \notin {"step", "createSession", "link", "metadata"}
         \/ /\ Kind(handler[h].todo)' = "metadata"
            /\ \/ After(h)' = <<>>
               \/ \E m \in Metadata : After(h)' = <<<<"submitIdentity", m>>>>
  PROVE  Backed(h)'
<1>1. CASE Kind(handler[h].todo)' \notin {"step", "createSession", "link", "metadata"}
  BY <1>1 DEF Backed
<1>2. CASE Kind(handler[h].todo)' = "metadata"
  <2>1. ASSUME NEW t \in Step
        PROVE  After(h)' # <<To(t)>>
    <3>1. CASE After(h)' = <<>>
      BY <3>1
    <3>2. ASSUME NEW m \in Metadata, After(h)' = <<<<"submitIdentity", m>>>>
          PROVE  After(h)' # <<To(t)>>
      BY <3>2 DEF To
    <3> QED
      BY <1>2, <3>1, <3>2
  <2> QED
    BY <1>2, <2>1 DEF Backed
<1> QED
  BY <1>1, <1>2

LEMMA WriteAhead ==
  ASSUME ChatInv, NoneAhead, NEW h \in Handlers, At(h, "run"), NEW row \in Conversation,
         Write(h, row),
         Alone /\ Row(h).active /\ row.active => Reached(row.step, row.order),
         Alone' /\ Row(h)'.active => Backed(h)'
  PROVE  NoneAhead'
<1>1. Typed
  BY DEF ChatInv
<1>2. /\ Then(h, After(h)) /\ orders' = orders /\ Calm
      /\ convs' \in Seq(Conversation) /\ Len(convs') = Len(convs)
      /\ Row(h)' = IF Row(h).active THEN row ELSE Row(h)
      /\ \A c \in DOMAIN convs : c # handler[h].conv => convs'[c] = convs[c]
      /\ handler[h].conv \in Active' <=> Row(h).active /\ row.active
      /\ Active' \subseteq Active
  BY <1>1, Written
<1>3. Moves(h) /\ handler'[h].conv = handler[h].conv
  BY <1>1, <1>2, ThenTyped
<1>4. Alone' <=> Alone
  BY <1>2 DEF Calm, Alone
<1>5. ASSUME Alone', NEW c \in Active'
      PROVE  Reached(convs[c].step, convs[c].order)'
  <2>1. CASE c = handler[h].conv
    <3>1. Row(h).active /\ row.active /\ convs'[c] = row
      BY <1>2, <1>3, <1>5, <2>1 DEF Row
    <3>2. Reached(row.step, row.order)
      BY <1>4, <1>5, <3>1
    <3> QED
      BY <1>2, <3>1, <3>2 DEF Reached, StateFor
  <2>2. CASE c # handler[h].conv
    <3>1. c \in Active /\ convs'[c] = convs[c]
      BY <1>2, <1>5, <2>2 DEF Active
    <3>2. Reached(convs[c].step, convs[c].order)
      BY <1>4, <1>5, <3>1 DEF NoneAhead, RowsReached
    <3> QED
      BY <1>2, <3>1, <3>2 DEF Reached, StateFor
  <2> QED
    BY <2>1, <2>2
<1>6. ~At(h, "idle")
  BY DEF At
<1> QED
  BY <1>3, <1>4, <1>5, <1>6, AloneStep DEF RowsReached

(* What NoneAhead says of the handler's own row. *)
LEMMA OwnRow ==
  ASSUME ChatInv, NoneAhead, NEW h \in Handlers, At(h, "run"), Alone, Row(h).active
  PROVE  Reached(Row(h).step, Row(h).order) /\ Backed(h)
<1>1. handler[h].conv \in Active
  BY Standing DEF ChatInv
<1> QED
  BY <1>1 DEF NoneAhead, RowsReached, Row

LEMMA StepNoneAhead ==
  ASSUME ChatInv, NoneAhead, NEW h \in Handlers, UpdateStep(h)
  PROVE  NoneAhead'
<1> DEFINE row == [Row(h) EXCEPT !.step = Argument(h)]
<1>o. Handling(h)
  BY DEF ChatInv
<1>1. /\ Typed /\ At(h, "run") /\ OwesStep(h) /\ left' = left /\ Write(h, row)
      /\ Kind(handler[h].todo) = "step"
  BY <1>o DEF ChatInv, UpdateStep, Todo, Row, Handling, Owes, Kind
<1>2. Row(h) \in Conversation /\ Argument(h) \in Step
  BY <1>1, Standing DEF OwesStep
<1>3. row \in Conversation /\ row.step = Argument(h) /\ row.order = Row(h).order
  BY <1>2 DEF Conversation
<1> HIDE DEF row
<1>4. Alone /\ Row(h).active => Reached(row.step, row.order)
  BY <1>1, <1>3, OwnRow DEF Backed
<1>5. handler'[h].todo = After(h)
  BY <1>1, <1>3, WriteOwes DEF Typed
<1>6. \/ Kind(handler[h].todo)' \in {"none", "close"}
      \/ Kind(handler[h].todo)' = "metadata" /\ After(h)' = <<>>
  BY <1>1, <1>5, NewTodo DEF OwesStep
<1>7. Backed(h)'
  BY <1>6, LightlyBacked
<1> QED
  BY <1>1, <1>3, <1>4, <1>7, WriteAhead

LEMMA ResetNoneAhead ==
  ASSUME ChatInv, NoneAhead, NEW h \in Handlers, ResetConversation(h)
  PROVE  NoneAhead'
<1> DEFINE row == [Row(h) EXCEPT !.step = "IDLE", !.order = "none", !.quote = FALSE]
<1>o. Handling(h)
  BY DEF ChatInv
<1>1. Typed /\ At(h, "run") /\ OwesReset(h) /\ left' = left /\ Write(h, row)
  BY <1>o DEF ChatInv, ResetConversation, Todo, Row, Handling, Owes, Kind
<1>2. Row(h) \in Conversation
  BY <1>1, Standing
<1>3. row \in Conversation /\ row.step = "IDLE" /\ row.order = "none"
  BY <1>2 DEF Conversation, Reference, Step
<1> HIDE DEF row
<1>4. "none" \in Reference /\ "WAITING_FOR_AMOUNT" \in Step
  BY DEF Reference, Step
<1>5. Reached("IDLE", "none") /\ Reached("WAITING_FOR_AMOUNT", "none")
  BY <1>1, <1>4, Unasking
<1>6. /\ handler'[h].todo = After(h) /\ Typed'
      /\ Row(h)'.active => Row(h)' = row
  BY <1>1, <1>3, WriteOwes DEF Typed
<1>7. ASSUME Row(h)'.active
      PROVE  Backed(h)'
  <2>1. CASE After(h) = <<To("WAITING_FOR_AMOUNT")>>
    <3>1. /\ Kind(handler[h].todo)' = "step" /\ Argument(h)' = "WAITING_FOR_AMOUNT"
          /\ handler'[h].todo # <<>>
      BY <1>6, <2>1, NewTodo, Tuples DEF To
    <3>2. Reached("WAITING_FOR_AMOUNT", "none")'
      BY <1>1, <1>5 DEF Write, Reached, StateFor
    <3> QED
      BY <1>3, <1>4, <1>6, <1>7, <3>1, <3>2, StepBacked
  <2>2. CASE After(h) \in {<<>>, Renewing}
    <3>1. Kind(handler[h].todo)' \in {"none", "create"}
      BY <1>6, <2>2, NewTodo DEF Renewing
    <3> QED
      BY <3>1, LightlyBacked
  <2> QED
    BY <1>1, <2>1, <2>2 DEF OwesReset
<1> QED
  BY <1>1, <1>3, <1>5, <1>7, WriteAhead

LEMMA CloseNoneAhead ==
  ASSUME ChatInv, NoneAhead, NEW h \in Handlers, SetStatus(h)
  PROVE  NoneAhead'
<1>1. Typed /\ At(h, "run") /\ left' = left /\ Write(h, Closed)
  BY DEF ChatInv, SetStatus, Todo
<1>2. Closed \in Conversation /\ ~Closed.active
  BY DEF Closed, Fresh, Conversation, Reference, Step, Metadata, NoMetadata
<1>3. ~Row(h)'.active
  BY <1>1, <1>2, WriteOwes DEF Typed
<1> QED
  BY <1>1, <1>2, <1>3, WriteAhead

LEMMA LinkNoneAhead ==
  ASSUME ChatInv, NoneAhead, NEW h \in Handlers, LinkSession(h)
  PROVE  NoneAhead'
<1> DEFINE row == [Row(h) EXCEPT !.order = Argument(h)]
<1>o. Handling(h)
  BY DEF ChatInv
<1>1. /\ Typed /\ At(h, "run") /\ OwesLink(h) /\ Leave(Row(h).order) /\ Write(h, row)
      /\ Kind(handler[h].todo) = "link"
  BY <1>o DEF ChatInv, LinkSession, Todo, Row, Handling, Owes, Kind
<1>2. Row(h) \in Conversation /\ Argument(h) \in Orders /\ Row(h).order \in Reference
  BY <1>1, Standing DEF OwesLink
<1>3. row \in Conversation /\ row.step = Row(h).step /\ row.order = Argument(h)
  BY <1>2 DEF Conversation, Reference
<1> HIDE DEF row
<1>l. left \subseteq left' /\ left' \subseteq Orders
  BY <1>1, <1>2 DEF Leave, Typed, Reference
<1>4. PICK o \in Reference : o = Argument(h) /\ o \in Orders /\ o # "none"
  BY <1>2, ChatFlowAssumption DEF Reference, ChatFlowAssumption
<1>5. ASSUME Alone, Row(h).active
      PROVE  Row(h).step \in Startable /\ StateFor(o) # "none"
  <2>1. Backed(h)
    BY <1>1, <1>5, OwnRow
  <2> QED
    BY <1>1, <1>4, <2>1 DEF Backed, StateFor
<1>6. ASSUME Alone, Row(h).active
      PROVE  Reached(row.step, row.order)
  <2>1. PICK s \in Startable : s = Row(h).step
    BY <1>5, <1>6
  <2>2. Reached(s, o)
    BY <1>1, <2>1, Unasking DEF Startable
  <2> QED
    BY <1>3, <1>4, <2>1, <2>2
<1>7. /\ handler'[h].todo = After(h) /\ (Alone' <=> Alone)
      /\ Row(h)'.active => Row(h).active /\ Row(h)' = row
  BY <1>1, <1>3, <1>l, WriteOwes
<1>8. ASSUME Alone', Row(h)'.active
      PROVE  Backed(h)'
  <2>1. /\ Kind(handler[h].todo)' = "step" /\ Argument(h)' = "WAITING_FOR_FULL_NAME"
        /\ handler'[h].todo # <<>>
    BY <1>1, <1>7, NewTodo, Tuples DEF OwesLink, To
  <2>2. Reached("WAITING_FOR_FULL_NAME", o) /\ "WAITING_FOR_FULL_NAME" \in Step
    BY <1>1, <1>5, <1>7, <1>8, Asking DEF Step
  <2>3. Reached("WAITING_FOR_FULL_NAME", o)'
    BY <1>1, <2>2 DEF Write, Reached, StateFor
  <2> QED
    BY <1>3, <1>4, <1>7, <1>8, <2>1, <2>2, <2>3, StepBacked
<1> QED
  BY <1>1, <1>3, <1>6, <1>8, WriteAhead

LEMMA LinkQuoteNoneAhead ==
  ASSUME ChatInv, NoneAhead, NEW h \in Handlers, LinkQuote(h)
  PROVE  NoneAhead'
<1> DEFINE row == [Row(h) EXCEPT !.quote = TRUE]
<1>o. Handling(h)
  BY DEF ChatInv
<1>1. /\ Typed /\ At(h, "run") /\ left' = left /\ Write(h, row)
      /\ After(h) = <<To("WAITING_FOR_QUOTE_CONFIRMATION")>>
  BY <1>o DEF ChatInv, LinkQuote, Todo, Row, Handling, Owes, Kind
<1>2. Row(h) \in Conversation /\ Row(h).order \in Reference
  BY <1>1, Standing
<1>3. row \in Conversation /\ row.step = Row(h).step /\ row.order = Row(h).order
  BY <1>2 DEF Conversation
<1> HIDE DEF row
<1>4. /\ handler'[h].todo = After(h)
      /\ Row(h)'.active => Row(h)' = row
  BY <1>1, <1>3, WriteOwes DEF Typed
<1>5. ASSUME Row(h)'.active
      PROVE  Backed(h)'
  <2>1. /\ Kind(handler[h].todo)' = "step"
        /\ Argument(h)' = "WAITING_FOR_QUOTE_CONFIRMATION" /\ handler'[h].todo # <<>>
    BY <1>1, <1>4, NewTodo, Tuples DEF To
  <2>2. PICK o \in Reference : o = Row(h).order
    BY <1>2
  <2>3. /\ Reached("WAITING_FOR_QUOTE_CONFIRMATION", o)
        /\ "WAITING_FOR_QUOTE_CONFIRMATION" \in Step
    BY <1>1, Unasking DEF Step
  <2>4. Reached("WAITING_FOR_QUOTE_CONFIRMATION", o)'
    BY <1>1, <2>3 DEF Write, Reached, StateFor
  <2> QED
    BY <1>3, <1>4, <1>5, <2>1, <2>2, <2>3, <2>4, StepBacked
<1>6. Alone /\ Row(h).active => Reached(row.step, row.order)
  BY <1>1, <1>3, OwnRow
<1> QED
  BY <1>1, <1>3, <1>5, <1>6, WriteAhead

LEMMA MetadataNoneAhead ==
  ASSUME ChatInv, NoneAhead, NEW h \in Handlers, UpdateMetadata(h)
  PROVE  NoneAhead'
<1>o. Handling(h)
  BY DEF ChatInv
<1>1. /\ Typed /\ At(h, "run") /\ OwesMetadata(h) /\ left' = left
      /\ Kind(handler[h].todo) = "metadata"
  BY <1>o DEF ChatInv, UpdateMetadata, Todo, Handling, Owes, Kind
<1>2. PICK m \in Metadata : m = Argument(h)
  BY <1>1 DEF OwesMetadata
<1>r. Row(h) \in Conversation /\ Row(h).order \in Reference
  BY <1>1, Standing
<1>p. [Row(h) EXCEPT !.meta = m] \in Conversation
  BY <1>r DEF Conversation
<1>q. PICK row \in Conversation : row = [Row(h) EXCEPT !.meta = m]
  BY <1>p
<1>3. Write(h, row) /\ row.step = Row(h).step /\ row.order = Row(h).order
  BY <1>2, <1>r, <1>q DEF UpdateMetadata, Row, Conversation
<1>4. /\ handler'[h].todo = After(h) /\ (Alone' <=> Alone)
      /\ Row(h)'.active => Row(h).active /\ Row(h)' = row
  BY <1>1, <1>3, WriteOwes DEF Typed
<1>5. ASSUME Alone', Row(h)'.active
      PROVE  Backed(h)'
  <2>1. CASE After(h) = <<>>
    BY <1>4, <2>1, NewTodo, LightlyBacked
  <2>2. CASE After(h) = <<<<"submitIdentity", m>>>>
    <3>1. Kind(handler[h].todo)' = "submitIdentity"
      BY <1>4, <2>2, NewTodo
    <3> QED
      BY <3>1, LightlyBacked
  <2>3. ASSUME NEW s \in {"WAITING_FOR_DOCUMENT_NUMBER", "WAITING_FOR_EMAIL"},
               After(h) = <<To(s)>>
        PROVE  Backed(h)'
    <3>1. /\ Kind(handler[h].todo)' = "step" /\ Argument(h)' = s
          /\ handler'[h].todo # <<>> /\ s \in Step
      BY <1>4, <2>3, NewTodo, Tuples DEF To, Step
    <3>2. Reached(s, Row(h).order)
      BY <1>1, <1>4, <1>5, <2>3, <3>1, OwnRow DEF Backed
    <3>3. PICK o \in Reference : o = Row(h).order
      BY <1>r
    <3>4. Reached(s, o)'
      BY <1>3, <3>2, <3>3 DEF Write, Reached, StateFor
    <3> QED
      BY <1>3, <1>4, <1>5, <3>1, <3>3, <3>4, StepBacked
  <2> QED
    BY <1>1, <1>2, <2>1, <2>2, <2>3 DEF OwesMetadata
<1>6. Alone /\ Row(h).active => Reached(row.step, row.order)
  BY <1>1, <1>3, OwnRow
<1> QED
  BY <1>1, <1>3, <1>5, <1>6, WriteAhead

LEMMA CreateNoneAhead ==
  ASSUME ChatInv, NoneAhead, NEW h \in Handlers, CreateConversation(h)
  PROVE  NoneAhead'
<1>o. Handling(h)
  BY DEF ChatInv
<1>1. /\ Typed /\ At(h, "run") /\ OwesCreate(h) /\ Then(h, After(h)) /\ Calm
      /\ orders' = orders /\ Len(convs) < MaxConversations /\ convs' = Append(convs, Fresh)
  BY <1>o DEF ChatInv, CreateConversation, Todo, Handling, Owes, Kind, Pop, After
<1>2. PICK c \in 1..(Len(convs) + 1) : c = Len(convs')
  <2>1. convs \in Seq(Conversation)
    BY <1>1 DEF Typed
  <2> QED
    BY <1>1, <2>1
<1>3. /\ convs'[c] = Fresh /\ Active' = Active \cup {c}
      /\ \A d \in DOMAIN convs : convs'[d] = convs[d]
  BY <1>1, <1>2, Created
<1>4. Moves(h) /\ handler'[h].todo = After(h) /\ ~At(h, "idle") /\ (Alone' <=> Alone)
  BY <1>1, ThenTyped DEF At, Calm, Alone
<1>5. ASSUME Alone', NEW d \in Active'
      PROVE  Reached(convs[d].step, convs[d].order)'
  <2>1. CASE d = c
    <3>1. "none" \in Reference /\ Fresh.step = "IDLE" /\ Fresh.order = "none"
      BY DEF Reference, Fresh
    <3>2. Reached("IDLE", "none")
      BY <1>1, <3>1, Unasking
    <3> QED
      BY <1>1, <1>3, <2>1, <3>1, <3>2 DEF Reached, StateFor
  <2>2. CASE d \in Active
    BY <1>1, <1>3, <1>4, <1>5, <2>2 DEF NoneAhead, RowsReached, Reached, StateFor, Active
  <2> QED
    BY <1>3, <2>1, <2>2
<1>6. Kind(handler[h].todo)' \in {"none", "close"}
  <2>1. CASE After(h) = <<>>
    BY <1>4, <2>1, NewTodo
  <2>2. CASE After(h) = Tail(Renewing)
    <3>1. After(h) = <<<<"close">>, <<"next", "WAITING_FOR_AMOUNT">>>>
      BY <2>2, Tuples DEF Renewing
    <3> QED
      BY <1>4, <3>1, NewTodo
  <2> QED
    BY <1>1, <2>1, <2>2 DEF OwesCreate
<1>7. Backed(h)'
  BY <1>6, LightlyBacked
<1> QED
  BY <1>4, <1>5, <1>7, AloneStep DEF RowsReached

LEMMA NextNoneAhead ==
  ASSUME ChatInv, NoneAhead, NEW h \in Handlers, UpdateNextStep(h)
  PROVE  NoneAhead'
<1>o. Handling(h)
  BY DEF ChatInv
<1>1. /\ Typed /\ At(h, "run") /\ OwesNext(h) /\ Then(h, After(h)) /\ Calm
      /\ orders' = orders
      /\ convs' = [convs EXCEPT ![Len(convs)].step = "WAITING_FOR_AMOUNT"]
  BY <1>o DEF ChatInv, UpdateNextStep, Todo, Handling, Owes, OwesNext, Kind, Pop, After
<1>n. /\ Len(convs) \in 1..Len(convs) /\ convs \in Seq(Conversation)
      /\ convs[Len(convs)] \in Conversation
  BY <1>1, Standing DEF Typed
<1>2. PICK n \in 1..Len(convs), row \in Conversation : n = Len(convs) /\ row = convs[n]
  BY <1>n
<1>3. PICK new \in Conversation : new = [row EXCEPT !.step = "WAITING_FOR_AMOUNT"]
  <2>1. [row EXCEPT !.step = "WAITING_FOR_AMOUNT"] \in Conversation
    BY DEF Conversation, Step
  <2> QED
    BY <2>1
<1>4. /\ DOMAIN convs' = DOMAIN convs /\ n \in DOMAIN convs /\ convs'[n] = new
      /\ \A d \in DOMAIN convs : d # n => convs'[d] = convs[d]
      /\ new.step = "WAITING_FOR_AMOUNT" /\ new.order = row.order /\ new.order \in Reference
      /\ new.active = row.active
  <2>1. convs' = [convs EXCEPT ![n] = new] /\ convs \in Seq(Conversation)
    BY <1>1, <1>2, <1>3, <1>n
  <2>2. /\ new.step = "WAITING_FOR_AMOUNT" /\ new.order = row.order /\ new.order \in Reference
        /\ new.active = row.active
    BY <1>3 DEF Conversation
  <2> QED
    BY <1>2, <2>1, <2>2
<1>5. Moves(h) /\ handler'[h].todo = After(h) /\ ~At(h, "idle") /\ (Alone' <=> Alone)
  BY <1>1, ThenTyped DEF At, Calm, Alone
<1>6. ASSUME Alone', NEW d \in Active'
      PROVE  Reached(convs[d].step, convs[d].order)'
  <2>1. CASE d = n
    <3>1. Reached(new.step, new.order)
      BY <1>1, <1>4, Unasking
    <3> QED
      BY <1>1, <1>4, <2>1, <3>1 DEF Reached, StateFor
  <2>2. CASE d # n
    <3>1. d \in Active /\ convs'[d] = convs[d]
      BY <1>4, <1>6, <2>2 DEF Active
    <3> QED
      BY <1>1, <1>5, <1>6, <3>1 DEF NoneAhead, RowsReached, Reached, StateFor
  <2> QED
    BY <2>1, <2>2
<1>7. Kind(handler[h].todo)' = "none"
  BY <1>1, <1>5, NewTodo DEF OwesNext
<1>8. Backed(h)'
  BY <1>7, LightlyBacked
<1> QED
  BY <1>5, <1>6, <1>8, AloneStep DEF RowsReached

-----------------------------------------------------------------------------
(* The calls of ConversionService. *)

LEMMA ServiceAhead ==
  ASSUME ChatInv, NoneAhead, NEW h \in Handlers, At(h, "run"), NEW todo, Then(h, todo),
         convs' = convs, Calm, Onward, Alone /\ Row(h).active => Backed(h)'
  PROVE  NoneAhead'
<1>1. Typed /\ ~At(h, "idle")
  BY DEF ChatInv, At
<1>2. (Alone' <=> Alone) /\ Row(h)' = Row(h) /\ Moves(h)
  BY <1>1, ServiceSame, ThenTyped
<1>3. Alone' => RowsReached'
  BY <1>1, <1>2, RowsStay
<1> QED
  BY <1>1, <1>2, <1>3, AloneStep

(* The handler's own order moves. *)
LEMMA OrderMoves ==
  ASSUME Typed, NEW h \in Handlers, At(h, "run"), NEW state \in OrderState, NEW todo,
         Move(h, state, todo),
         \/ StateOf(h) \in {"created", "screening", "identified"} /\ state = "expired"
         \/ StateOf(h) = "created" /\ state \in {"identified", "closed", "screening"}
         \/ StateOf(h) = "identified" /\ state = "payable"
         \/ StateOf(h) = "payable" /\ state = "pushed"
         \/ StateOf(h) = "pushed" /\ state = "completed"
  PROVE  /\ Then(h, todo) /\ Onward /\ Order(h) \in Reference
         /\ StateFor(Order(h))' = state
<1>1. Order(h) \in Reference /\ Order(h) # "none"
  BY Standing DEF StateOf
<1>2. PICK o \in Orders : o = Order(h)
  BY <1>1 DEF Reference
<1>3. StateOf(h) = orders[o] /\ orders[o] \in OrderState
  BY <1>1, <1>2 DEF StateOf, Typed
<1>4. orders' = [orders EXCEPT ![o] = state] /\ Then(h, todo)
  BY <1>2 DEF Move
<1>5. Onward /\ orders'[o] = state
  BY <1>3, <1>4, MovesOn
<1>6. Order(h)' = Order(h)
  BY <1>4, ThenTyped
<1> QED
  BY <1>1, <1>2, <1>4, <1>5, <1>6 DEF StateFor

(* The handler goes on to a step that its own order has reached. *)
LEMMA StepsAhead ==
  ASSUME ChatInv, NoneAhead, NEW h \in Handlers, At(h, "run"), NEW step \in Step,
         Then(h, <<To(step)>>), convs' = convs, Calm, Onward, Holds(h),
         StateFor(Order(h))' \in Reaching(step), Order(h) \in Reference
  PROVE  NoneAhead'
<1>1. Typed
  BY DEF ChatInv
<1>2. Row(h)' = Row(h) /\ handler'[h].todo = <<To(step)>>
  BY <1>1, ServiceSame
<1>3. Kind(handler[h].todo)' = "step" /\ Argument(h)' = step /\ handler'[h].todo # <<>>
  BY <1>2, NewTodo, Tuples DEF To
<1>4. ASSUME Alone, Row(h).active
      PROVE  Backed(h)'
  <2>1. PICK o \in Reference : o = Order(h)
    OBVIOUS
  <2>2. Row(h)'.order = o
    BY <1>2, <1>4, <2>1 DEF Holds
  <2>3. Order(h)' = Order(h)
    BY <1>1, ThenTyped
  <2>4. Reached(step, o)'
    BY <2>1, <2>3 DEF Reached, StateFor
  <2> QED
    BY <1>3, <2>2, <2>4, StepBacked
<1> QED
  BY <1>4, ServiceAhead

(* The handler goes on to a call that asks nothing of the row. *)
LEMMA LightlyAhead ==
  ASSUME ChatInv, NoneAhead, NEW h \in Handlers, At(h, "run"), convs' = convs, Calm, Onward,
         NEW todo, Then(h, todo),
         \/ todo \in {<<>>, <<<<"reset">>>>, <<<<"close">>>>}
         \/ \E m : todo = <<<<"metadata", m>>>>
         \/ \E a : todo = <<<<"quote">>, a>>
  PROVE  NoneAhead'
<1>1. handler'[h].todo = todo
  BY ServiceSame DEF ChatInv
<1>2. \/ Kind(handler[h].todo)' \in {"none", "reset", "close", "quote"}
      \/ Kind(handler[h].todo)' = "metadata" /\ After(h)' = <<>>
  BY <1>1, NewTodo
<1>3. Backed(h)'
  BY <1>2, LightlyBacked
<1> QED
  BY <1>3, ServiceAhead

LEMMA ExpireNoneAhead ==
  ASSUME ChatInv, NoneAhead, NEW h \in Handlers, At(h, "run"), Expire(h), convs' = convs, Calm
  PROVE  NoneAhead'
<1>1. Then(h, <<<<"reset">>>>) /\ Onward
  BY OrderMoves DEF ChatInv, Expire, OrderState
<1> QED
  BY <1>1, LightlyAhead

LEMMA CreateNewNoneAhead ==
  ASSUME ChatInv, NoneAhead, NEW h \in Handlers, CreateQuote(h) \/ CreateSession(h)
  PROVE  NoneAhead'
<1>t. Typed
  BY DEF ChatInv
<1>1. CASE CreateQuote(h)
  <2>1. At(h, "run") /\ convs' = convs /\ Calm /\ Onward
    BY <1>1, StandsOn DEF CreateQuote, Todo
  <2> QED
    BY <1>1, <2>1, LightlyAhead DEF CreateQuote
<1>2. CASE CreateSession(h)
  <2>1. At(h, "run") /\ convs' = convs /\ Calm /\ Kind(handler[h].todo) = "createSession"
    BY <1>2 DEF CreateSession, Todo, Kind
  <2>2. ASSUME NEW o \in Orders, orders[o] = "none",
               orders' = [orders EXCEPT ![o] = "created"], Then(h, SessionScript(o))
        PROVE  NoneAhead'
    <3>1. Onward /\ orders'[o] = "created"
      BY <1>t, <2>2, MovesOn DEF OrderState
    <3>2. Row(h)' = Row(h) /\ handler'[h].todo = SessionScript(o)
      BY <1>t, <2>1, <2>2, ServiceSame
    <3>3. Kind(handler[h].todo)' = "link" /\ Argument(h)' = o
      BY <3>2, NewTodo DEF SessionScript
    <3>4. Alone /\ Row(h).active => Row(h).step \in Startable
      BY <2>1, OwnRow DEF Backed
    <3>5. Alone /\ Row(h).active => Backed(h)'
      BY <3>1, <3>2, <3>3, <3>4 DEF Backed
    <3> QED
      BY <2>1, <2>2, <3>1, <3>5, ServiceAhead
  <2>3. CASE UNCHANGED orders /\ Then(h, <<>>)
    BY <2>1, <2>3, StandsOn, LightlyAhead
  <2>4. CASE UNCHANGED orders /\ Then(h, <<To("WAITING_FOR_AMOUNT")>>)
    <3>1. Row(h)' = Row(h) /\ handler'[h].todo = <<To("WAITING_FOR_AMOUNT")>>
      BY <1>t, <2>1, <2>4, ServiceSame
    <3>2. /\ Kind(handler[h].todo)' = "step" /\ Argument(h)' = "WAITING_FOR_AMOUNT"
          /\ handler'[h].todo # <<>>
      BY <3>1, NewTodo, Tuples DEF To
    <3>3. PICK o \in Reference : o = Row(h).order
      BY <1>t, <2>1, Standing
    <3>4. Reached("WAITING_FOR_AMOUNT", o) /\ "WAITING_FOR_AMOUNT" \in Step
      BY <1>t, Unasking DEF Step
    <3>5. Reached("WAITING_FOR_AMOUNT", o)'
      BY <2>4, <3>4 DEF Reached, StateFor
    <3>6. Backed(h)'
      BY <3>1, <3>2, <3>3, <3>4, <3>5, StepBacked
    <3> QED
      BY <2>1, <2>4, <3>6, StandsOn, ServiceAhead
  <2> QED
    BY <1>2, <2>2, <2>3, <2>4 DEF CreateSession
<1> QED
  BY <1>1, <1>2

LEMMA SubmitIdentityNoneAhead ==
  ASSUME ChatInv, NoneAhead, NEW h \in Handlers, SubmitIdentity(h)
  PROVE  NoneAhead'
<1>o. Handling(h)
  BY DEF ChatInv
<1>1. /\ Typed /\ At(h, "run") /\ Holds(h) /\ convs' = convs /\ Calm
  BY <1>o DEF ChatInv, SubmitIdentity, Todo, Handling, Owes, Kind, Submits
<1>2. CASE Expire(h)
  BY <1>1, <1>2, ExpireNoneAhead
<1>3. CASE StateOf(h) = "created" /\ Move(h, "identified", <<To("WAITING_FOR_BTC_ADDRESS")>>)
  <2>1. /\ Then(h, <<To("WAITING_FOR_BTC_ADDRESS")>>) /\ Onward /\ Order(h) \in Reference
        /\ StateFor(Order(h))' = "identified"
    BY <1>1, <1>3, OrderMoves DEF OrderState
  <2>2. "WAITING_FOR_BTC_ADDRESS" \in Step /\ "identified" \in Reaching("WAITING_FOR_BTC_ADDRESS")
    BY DEF Step, Reaching
  <2> QED
    BY <1>1, <2>1, <2>2, StepsAhead
<1>4. CASE StateOf(h) = "created" /\ Move(h, "closed", <<<<"close">>>>)
  <2>1. Then(h, <<<<"close">>>>) /\ Onward
    BY <1>1, <1>4, OrderMoves DEF OrderState
  <2> QED
    BY <1>1, <2>1, LightlyAhead
<1>5. CASE StateOf(h) = "created" /\ Move(h, "screening", <<>>)
  <2>1. Then(h, <<>>) /\ Onward
    BY <1>1, <1>5, OrderMoves DEF OrderState
  <2> QED
    BY <1>1, <2>1, LightlyAhead
<1>6. CASE Refuse(h)
  BY <1>1, <1>6, StandsOn, LightlyAhead DEF Refuse
<1>7. CASE UNCHANGED orders /\ Then(h, <<<<"metadata", [Argument(h) EXCEPT !.asks = TRUE]>>>>)
  BY <1>1, <1>7, StandsOn, LightlyAhead
<1> QED
  BY <1>2, <1>3, <1>4, <1>5, <1>6, <1>7 DEF SubmitIdentity

LEMMA PayNoneAhead ==
  ASSUME ChatInv, NoneAhead, NEW h \in Handlers,
         SubmitPayoutDetails(h) \/ InitiatePayment(h) \/ ConfirmByReference(h)
  PROVE  NoneAhead'
<1>o. Handling(h)
  BY DEF ChatInv
<1>1. /\ Typed /\ At(h, "run") /\ Holds(h) /\ convs' = convs /\ Calm
  BY <1>o DEF ChatInv, SubmitPayoutDetails, InitiatePayment, ConfirmByReference, Todo, Handling,
              Owes, Kind
<1>2. CASE Expire(h)
  BY <1>1, <1>2, ExpireNoneAhead
<1>3. CASE Refuse(h)
  BY <1>1, <1>3, StandsOn, LightlyAhead DEF Refuse
<1>4. CASE StateOf(h) = "identified" /\ Move(h, "payable", <<To("WAITING_FOR_PAYMENT_CONFIRMATION")>>)
  <2>1. /\ Then(h, <<To("WAITING_FOR_PAYMENT_CONFIRMATION")>>) /\ Onward
        /\ Order(h) \in Reference /\ StateFor(Order(h))' = "payable"
    BY <1>1, <1>4, OrderMoves DEF OrderState
  <2>2. /\ "WAITING_FOR_PAYMENT_CONFIRMATION" \in Step
        /\ "payable" \in Reaching("WAITING_FOR_PAYMENT_CONFIRMATION")
    BY DEF Step, Reaching
  <2> QED
    BY <1>1, <2>1, <2>2, StepsAhead
<1>5. CASE StateOf(h) = "payable" /\ Move(h, "pushed", <<To("PROCESSING")>>)
  <2>1. /\ Then(h, <<To("PROCESSING")>>) /\ Onward
        /\ Order(h) \in Reference /\ StateFor(Order(h))' = "pushed"
    BY <1>1, <1>5, OrderMoves DEF OrderState
  <2>2. "PROCESSING" \in Step /\ "pushed" \in Reaching("PROCESSING")
    BY DEF Step, Reaching
  <2> QED
    BY <1>1, <2>1, <2>2, StepsAhead
<1>6. CASE StateOf(h) = "pushed" /\ Move(h, "completed", <<To("COMPLETED"), <<"close">>>>)
  <2>1. Then(h, <<To("COMPLETED"), <<"close">>>>) /\ Onward
    BY <1>1, <1>6, OrderMoves DEF OrderState
  <2>2. Row(h)' = Row(h) /\ handler'[h].todo = <<To("COMPLETED"), <<"close">>>>
    BY <1>1, <2>1, ServiceSame
  <2>3. Kind(handler[h].todo)' = "step" /\ Argument(h)' = "COMPLETED" /\ handler'[h].todo # <<>>
    BY <2>2, NewTodo, Tuples DEF To
  <2>4. PICK o \in Reference : o = Row(h).order
    BY <1>1, Standing
  <2>5. Reached("COMPLETED", o) /\ "COMPLETED" \in Step
    BY <1>1, Unasking DEF Step
  <2>6. Reached("COMPLETED", o)'
    BY <2>1, <2>5 DEF Onward
  <2>7. Backed(h)'
    BY <2>2, <2>3, <2>4, <2>5, <2>6, StepBacked
  <2> QED
    BY <1>1, <2>1, <2>7, ServiceAhead
<1> QED
  BY <1>2, <1>3, <1>4, <1>5, <1>6 DEF SubmitPayoutDetails, InitiatePayment, ConfirmByReference

-----------------------------------------------------------------------------
(* Settlement and the notices: no handler moves. *)

LEMMA BackedStays ==
  ASSUME Typed, NEW k \in Handlers, At(k, "run"), Owes(k), Backed(k), UNCHANGED handler,
         Row(k)'.order = Row(k).order, Row(k)'.step \in {Row(k).step, "COMPLETED"}, Onward
  PROVE  Backed(k)'
<1>1. PICK o \in Reference : o = Row(k).order
  BY Standing
<1>2. \A s \in Step : Reached(s, o) => Reached(s, o)'
  BY DEF Onward
<1>3. Kind(handler[k].todo) = "step" => Argument(k) \in Step
  BY DEF Owes, OwesStep
<1>4. Kind(handler[k].todo) = "link" => Argument(k) \in Orders
  BY DEF Owes, OwesLink
<1>5. Kind(handler[k].todo)' = Kind(handler[k].todo) /\ Argument(k)' = Argument(k)
      /\ After(k)' = After(k)
  BY DEF Argument, After
<1>6. Row(k).step \in Startable => Row(k)'.step \in Startable
  BY DEF Startable
<1>7. CASE Kind(handler[k].todo) = "step"
  <2>1. PICK s \in Step : s = Argument(k)
    BY <1>3, <1>7
  <2>2. Reached(s, o)
    BY <1>1, <1>7, <2>1 DEF Backed
  <2>3. Reached(s, o)'
    BY <1>2, <2>2
  <2> QED
    BY <1>1, <1>5, <1>7, <2>1, <2>3 DEF Backed, Reached
<1>8. CASE Kind(handler[k].todo) = "createSession"
  BY <1>5, <1>6, <1>8 DEF Backed
<1>9. CASE Kind(handler[k].todo) = "link"
  BY <1>4, <1>5, <1>6, <1>9 DEF Backed, Onward
<1>10. CASE Kind(handler[k].todo) = "metadata"
  <2>1. ASSUME NEW s \in Step, After(k) = <<To(s)>>
        PROVE  Reached(s, o)'
    BY <1>1, <1>2, <1>10, <2>1 DEF Backed
  <2> QED
    BY <1>1, <1>5, <1>10, <2>1 DEF Backed, Reached
<1>11. CASE Kind(handler[k].todo) \notin {"step", "createSession", "link", "metadata"}
  BY <1>5, <1>11 DEF Backed
<1> QED
  BY <1>7, <1>8, <1>9, <1>10, <1>11

LEMMA QuietAhead ==
  ASSUME ChatInv, NoneAhead, UNCHANGED handler, Alone' => Alone, Onward,
         DOMAIN convs' = DOMAIN convs,
         \A d \in Active' : /\ d \in Active /\ convs'[d].order = convs[d].order
                            /\ convs'[d].step \in {convs[d].step, "COMPLETED"}
  PROVE  NoneAhead'
<1>1. Typed
  BY DEF ChatInv
<1>2. ASSUME Alone', NEW d \in Active'
      PROVE  Reached(convs[d].step, convs[d].order)'
  <2>1. d \in Active /\ convs[d] \in Conversation
    BY <1>1, <1>2 DEF Active, Typed
  <2>2. PICK s \in Step, o \in Reference : s = convs[d].step /\ o = convs[d].order
    BY <2>1 DEF Conversation
  <2>3. Reached(s, o)
    BY <1>2, <2>1, <2>2 DEF NoneAhead, RowsReached
  <2>4. Reached("COMPLETED", o) /\ "COMPLETED" \in Step
    BY <1>1, Unasking DEF Step
  <2>5. Reached(s, o)' /\ Reached("COMPLETED", o)'
    BY <2>3, <2>4 DEF Onward
  <2> QED
    BY <1>2, <2>2, <2>5 DEF Reached
<1>3. ASSUME Alone', NEW k \in Handlers, At(k, "run")', Row(k)'.active
      PROVE  Backed(k)'
  <2>1. At(k, "run") /\ Owes(k)
    BY <1>3 DEF ChatInv, Handling, At
  <2>2. handler[k].conv \in Active'
    BY <1>1, <1>3, <2>1, Standing DEF Active, Row
  <2>3. /\ Row(k).active /\ Row(k)'.order = Row(k).order
        /\ Row(k)'.step \in {Row(k).step, "COMPLETED"}
    BY <2>2 DEF Row, Active
  <2>4. Backed(k)
    BY <1>3, <2>1, <2>3 DEF NoneAhead
  <2> QED
    BY <1>1, <2>1, <2>3, <2>4, BackedStays
<1> QED
  BY <1>2, <1>3 DEF NoneAhead, RowsReached

LEMMA NoticeNoneAhead ==
  ASSUME ChatInv, NoneAhead, NEW o \in Orders, Settle(o) \/ NoticeWork(o)
  PROVE  NoneAhead'
<1>t. Typed
  BY DEF ChatInv
<1>1. CASE Settle(o)
  <2>1. UNCHANGED <<handler, convs>> /\ Calm
    BY <1>1 DEF Settle
  <2>2. Onward
    BY <1>t, <1>1, MovesOn DEF Settle, OrderState
  <2> QED
    BY <2>1, <2>2, QuietAhead DEF Calm, Alone, Active
<1>2. CASE FindBySessionId(o) \/ NoticeSend(o) \/ NoticeFails(o)
  <2>1. UNCHANGED <<handler, convs, orders, overlaps>>
    BY <1>2 DEF FindBySessionId, NoticeSend, NoticeFails, Calm
  <2> QED
    BY <2>1, StandsOn, QuietAhead DEF Alone, Active
<1> DEFINE c == notice[o].conv
<1>c. notice[o].at \in {"step", "status"} =>
        c \in 1..Len(convs) /\ convs \in Seq(Conversation) /\ convs[c] \in Conversation
  BY <1>t DEF Typed
<1>3. CASE NoticeStep(o)
  <2>1. /\ UNCHANGED <<handler, orders, overlaps>> /\ notice[o].at = "step"
        /\ convs' = IF convs[c].active THEN [convs EXCEPT ![c].step = "COMPLETED"] ELSE convs
    BY <1>3 DEF NoticeStep, NoticeAt, Calm
  <2> DEFINE row == [convs[c] EXCEPT !.step = "COMPLETED"]
  <2>2. row.active = convs[c].active /\ row.order = convs[c].order /\ row.step = "COMPLETED"
    BY <1>c, <2>1 DEF Conversation
  <2>3. convs' = IF convs[c].active THEN [convs EXCEPT ![c] = row] ELSE convs
    BY <1>c, <2>1
  <2> HIDE DEF row
  <2>4. /\ DOMAIN convs' = DOMAIN convs
        /\ \A d \in DOMAIN convs : convs'[d] = convs[d] \/ (d = c /\ convs'[d] = row)
    BY <1>c, <2>1, <2>3
  <2>5. \A d \in Active' : /\ d \in Active /\ convs'[d].order = convs[d].order
                           /\ convs'[d].step \in {convs[d].step, "COMPLETED"}
    BY <2>2, <2>4 DEF Active
  <2> QED
    BY <2>1, <2>4, <2>5, StandsOn, QuietAhead DEF Alone
<1>4. CASE NoticeStatus(o)
  <2>1. /\ UNCHANGED <<handler, orders, overlaps>> /\ notice[o].at = "status"
        /\ convs' = [convs EXCEPT ![c] = Closed]
    BY <1>4 DEF NoticeStatus, NoticeAt, Calm
  <2>2. ~Closed.active
    BY DEF Closed, Fresh
  <2>3. /\ DOMAIN convs' = DOMAIN convs /\ convs'[c] = Closed
        /\ \A d \in DOMAIN convs : d # c => convs'[d] = convs[d]
    BY <1>c, <2>1
  <2>4. \A d \in Active' : d \in Active /\ convs'[d] = convs[d]
    BY <2>2, <2>3 DEF Active
  <2> QED
    BY <2>1, <2>3, <2>4, StandsOn, QuietAhead DEF Alone
<1> QED
  BY <1>1, <1>2, <1>3, <1>4 DEF NoticeWork

LEMMA NeverAhead == Spec => [](ChatInv /\ NoneAhead)
<1>1. Init => ChatInv /\ NoneAhead
  BY InitChat, InitNoneAhead, ChatFlowAssumption
<1>2. ChatInv /\ NoneAhead /\ [Next]_vars => (ChatInv /\ NoneAhead)'
  <2> SUFFICES ASSUME ChatInv, NoneAhead, [Next]_vars
               PROVE  NoneAhead'
    BY NextChat
  <2>1. ASSUME NEW h \in Handlers, WriteStep(h)
        PROVE  NoneAhead'
    BY <2>1, StepNoneAhead, ResetNoneAhead, CloseNoneAhead, LinkNoneAhead, LinkQuoteNoneAhead,
       MetadataNoneAhead, CreateNoneAhead, NextNoneAhead DEF WriteStep
  <2>2. ASSUME NEW h \in Handlers, ServiceStep(h)
        PROVE  NoneAhead'
    BY <2>2, CreateNewNoneAhead, SubmitIdentityNoneAhead, PayNoneAhead DEF ServiceStep
  <2>3. ASSUME NEW h \in Handlers,
               Receive(h) \/ Find(h) \/ Open(h) \/ Reply(h) \/ Abandon(h)
        PROVE  NoneAhead'
    BY <2>3, HandlerNoneAhead
  <2>4. ASSUME NEW o \in Orders, Settle(o) \/ NoticeWork(o)
        PROVE  NoneAhead'
    BY <2>4, NoticeNoneAhead
  <2>5. CASE UNCHANGED vars
    BY <2>5, StandsOn, QuietAhead DEF vars, Alone, Active
  <2> QED
    BY <2>1, <2>2, <2>3, <2>4, <2>5 DEF Next
<1> QED
  BY <1>1, <1>2, PTL DEF Spec

-----------------------------------------------------------------------------
(* The results. *)

(* Types: every row, every handler's snapshot and every notice is what the  *)
(* code declares it to be.                                                 *)
THEOREM TypesOK == Spec => []TypeOK
<1>1. ChatInv => TypeOK
  BY DEF ChatInv, Typed, TypeOK
<1> QED
  BY <1>1, Invariance, PTL

(* As long as messages come one at a time, the step of a row never runs     *)
(* ahead of its order, wherever a handler fails; and if nothing failed, the *)
(* chat at rest asks for what ConversionService accepts, or for the e-mail  *)
(* address of an order that was turned down.                               *)
THEOREM StepsFit == Spec => []StepFitsOrder
<1>1. ChatInv /\ NoneAhead => StepFitsOrder
  <2> SUFFICES ASSUME ChatInv, NoneAhead, NEW c \in Active,
                      NEW step, step = convs[c].step,
                      NEW state, state = StateFor(convs[c].order)
               PROVE  /\ overlaps = 0 => state \in Reaching(step)
                      /\ Undisturbed /\ Busy = {} =>
                           state \in Accepting(step) \/ TurnedDown(step, state)
    BY DEF StepFitsOrder, StateFor
  <2>1. overlaps = 0 => state \in Reaching(step)
    BY DEF NoneAhead, RowsReached, Reached, Alone
  <2>2. ASSUME Undisturbed, Busy = {}
        PROVE  state \in Accepting(step) \/ TurnedDown(step, state)
    <3>1. Fits(step, convs[c].order) /\ state \in Reaching(step)
      BY <2>1, <2>2 DEF ChatInv, InOrder, Undisturbed
    <3> QED
      BY <3>1 DEF Fits, Accepting, TurnedDown, Reaching
  <2> QED
    BY <2>1, <2>2
<1> QED
  BY <1>1, NeverAhead, PTL

(* What is submitted as the customer's identity is the name and document    *)
(* given for this very order, whatever failed before, unless messages were *)
(* handled side by side.                                                   *)
THEOREM IdentitiesAreOwn == Spec => []IdentityIsOwn
<1>1. ChatInv => IdentityIsOwn
  <2> SUFFICES ASSUME ChatInv, NEW h \in Handlers, overlaps = 0, Todo(h, "submitIdentity")
               PROVE  Argument(h).name = Order(h) /\ Argument(h).document = Order(h)
    BY DEF IdentityIsOwn
  <2>1. Owes(h) /\ Kind(handler[h].todo) = "submitIdentity"
    BY DEF ChatInv, Handling, Todo, Kind
  <2> QED
    BY <2>1 DEF Owes, Submits, Alone
<1> QED
  BY <1>1, Invariance, PTL

(* A completion notice that finds no row is one for an order the customer,  *)
(* or time, has left: no step of the chat loses it on the way.              *)
THEOREM NoticesFind == Spec => []NoticeFindsCustomer
<1>1. ChatInv => NoticeFindsCustomer
  BY DEF ChatInv, Told, NoticeFindsCustomer
<1> QED
  BY <1>1, Invariance, PTL

=============================================================================
