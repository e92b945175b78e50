------------------------- MODULE PaymentOrdersProofs -------------------------
(***************************************************************************)
(* Proofs of the safety properties of module PaymentOrders, for every      *)
(* number of orders, keys, handlers, checkouts and workers.                *)
(*                                                                         *)
(* No status of an order says that it was paid for: a checkout that saves  *)
(* its copy, and a worker that expires the order, overwrite it.  What      *)
(* holds is about who is at work: only an order the payer has paid for is  *)
(* notified (NoticeSettled) or processed (ProcSettled), and a checkout     *)
(* holds a copy of a row that exists (CopyOfRow), so that saving it makes  *)
(* no new row with an old key.                                             *)
(***************************************************************************)
EXTENDS PaymentOrders, TLAPS

\* The provider notifies of payments only.
NoticeSettled == notice \subseteq settled

\* Whoever processes a payment has an order that the payer has paid.
ProcSettled == \A p \in Procs : proc[p].pc # "idle" => proc[p].order \in Orders \cap settled

\* A checkout at the provider holds a copy of a row that exists.
CopyOfRow ==
    \A r \in Requests : request[r].pc = "checkout" =>
        request[r].order \in Orders /\ order[request[r].order].status # "none"

OrdersInv ==
    /\ TypeOK /\ NoticeSettled /\ ProcSettled /\ CopyOfRow
    /\ NothingForFree /\ CreditedOnce /\ OneOrderPerKey

\* The initial state satisfies the invariant.
LEMMA OrdersInit == Init => OrdersInv
<1> SUFFICES ASSUME Init PROVE OrdersInv
  OBVIOUS
<1> USE OrdersAssumption DEF Idle, NoRow, NoRequest
<1>i. /\ order = [o \in Orders |-> NoRow]
      /\ request = [r \in Requests |-> NoRequest]
      /\ proc = [p \in Procs |-> Idle]
      /\ credits = [o \in Orders |-> 0]
      /\ worker = [w \in Workers |-> [pc |-> "idle", todo |-> {}]]
      /\ aged = {} /\ stale = {} /\ offered = {} /\ settled = {} /\ notice = {} /\ seen = {}
      /\ activated = {} /\ issues = {}
  BY DEF Init
<1>1. TypeOK
  <2>1. temporal \in BOOLEAN
    BY DEF Init
  <2>2. order \in [Orders -> OrderRow] /\ request \in [Requests -> RequestState]
    BY <1>i DEF OrderRow, OrderStatus, RequestState
  <2>3. proc \in [Procs -> ProcState] /\ worker \in [Workers -> WorkerState]
    BY <1>i DEF ProcState, WorkerState
  <2>4. /\ credits \in [Orders -> Nat]
        /\ aged \subseteq Orders /\ stale \subseteq Orders /\ offered \subseteq Orders
        /\ settled \subseteq Orders /\ notice \subseteq Orders /\ seen \subseteq Orders
        /\ activated \subseteq Orders /\ issues \subseteq Issues
    BY <1>i
  <2> QED BY <2>1, <2>2, <2>3, <2>4 DEF TypeOK
<1>2. NoticeSettled /\ ProcSettled /\ CopyOfRow
  BY <1>i DEF NoticeSettled, ProcSettled, CopyOfRow
<1>3. NothingForFree
  BY <1>i DEF NothingForFree
<1>4. CreditedOnce
  BY <1>i DEF CreditedOnce
<1>5. OneOrderPerKey
  BY <1>i DEF OneOrderPerKey
<1> QED BY <1>1, <1>2, <1>3, <1>4, <1>5 DEF OrdersInv

\* What the invariant says, read as facts about values.
LEMMA OrdersFacts ==
    ASSUME OrdersInv
    PROVE  /\ order \in [Orders -> OrderRow]
           /\ request \in [Requests -> RequestState]
           /\ proc \in [Procs -> ProcState]
           /\ worker \in [Workers -> WorkerState]
           /\ credits \in [Orders -> Nat]
           /\ offered \subseteq Orders /\ settled \subseteq Orders /\ notice \subseteq Orders
           /\ aged \subseteq Orders /\ stale \subseteq Orders /\ seen \subseteq Orders
           /\ activated \subseteq Orders /\ issues \subseteq Issues /\ temporal \in BOOLEAN
BY DEF OrdersInv, TypeOK

-----------------------------------------------------------------------------
(* Checkout. *)

\* A new row has a key of its own, and is not paid.
LEMMA CreatePreserved ==
    ASSUME OrdersInv, NEW r \in Requests, NEW o \in Orders, NEW m \in Methods,
           NEW type \in {"topup", "subscription"}, NEW key \in Keys \cup {NoKey},
           CreatePaymentOrder(r, o, type, key, m)
    PROVE  OrdersInv'
<1> USE OrdersAssumption DEF CreatePaymentOrder, clock, effects
<1>1. TypeOK'
  BY OrdersFacts DEF TypeOK, OrderRow, OrderStatus, RequestState
<1>2. NoticeSettled' /\ ProcSettled'
  BY DEF OrdersInv, NoticeSettled, ProcSettled
<1>3. CopyOfRow'
  BY OrdersFacts DEF OrdersInv, CopyOfRow, RequestState
<1>4. NothingForFree' /\ CreditedOnce'
  BY OrdersFacts DEF OrdersInv, NothingForFree, CreditedOnce
<1>5. OneOrderPerKey'
  BY OrdersFacts DEF OrdersInv, OneOrderPerKey, KeyFree
<1> QED BY <1>1, <1>2, <1>3, <1>4, <1>5 DEF OrdersInv

\* A save writes "pending" over a row that exists and leaves its key alone.
LEMMA RequestPreserved ==
    ASSUME OrdersInv, NEW r \in Requests, RequestStep(r)
    PROVE  OrdersInv'
<1> USE OrdersAssumption
<1>1. CASE \E o \in Orders, m \in Methods :
            CreateTopup(r, o, m) \/ CreateSubscriptionOrder(r, o, m) \/ CreateCheckoutSession(r, o, m)
  <2>1. request[r].key \in Keys \cup {NoKey}
    BY OrdersFacts DEF RequestState
  <2> QED BY <1>1, <2>1, CreatePreserved DEF CreateTopup, CreateSubscriptionOrder, CreateCheckoutSession
<1>2. ASSUME NEW k \in Keys \cup {NoKey}, FindPendingOrder(r, k) PROVE OrdersInv'
  <2> USE <1>2 DEF FindPendingOrder, clock, effects
  <2> DEFINE found == {o \in Orders : order[o].key = k /\ order[o].status = "pending"}
  <2>1. found # {} => (CHOOSE o \in found : TRUE) \in found
    OBVIOUS
  <2>2. \/ request' = [request EXCEPT ![r] = [pc |-> "create", order |-> NoOrder, key |-> k]]
        \/ \E o \in found : request' = [request EXCEPT ![r] = [pc |-> "checkout", order |-> o, key |-> k]]
    BY <2>1
  <2>3. TypeOK'
    BY <2>2, OrdersFacts DEF TypeOK, RequestState
  <2>4. CopyOfRow'
    BY <2>2, OrdersFacts DEF OrdersInv, CopyOfRow, RequestState
  <2>5. NoticeSettled' /\ ProcSettled' /\ NothingForFree' /\ CreditedOnce' /\ OneOrderPerKey'
    BY DEF OrdersInv, NoticeSettled, ProcSettled, NothingForFree, CreditedOnce, OneOrderPerKey
  <2> QED BY <2>3, <2>4, <2>5 DEF OrdersInv
<1>3. ASSUME NEW saves \in BOOLEAN, UpdatePaymentOrder(r, saves) PROVE OrdersInv'
  <2> USE DEF clock, effects, NoRequest
  <2> DEFINE o == request[r].order
  <2>1. o \in Orders /\ order[o].status # "none"
    BY <1>3 DEF OrdersInv, CopyOfRow, UpdatePaymentOrder
  <2>s. order' = order \/ order' = [order EXCEPT ![o].status = "pending"]
    BY <1>3 DEF UpdatePaymentOrder
  <2>u. /\ offered' = offered \cup {o}
        /\ request' = [request EXCEPT ![r] = NoRequest]
        /\ UNCHANGED <<temporal, aged, stale, settled, notice, seen, proc, credits, activated, worker, issues>>
    BY <1>3 DEF UpdatePaymentOrder
  <2> HIDE DEF o
  <2>2. TypeOK'
    <3>1. order' \in [Orders -> OrderRow]
      BY <2>1, <2>s, OrdersFacts DEF OrderRow, OrderStatus
    <3>2. request' \in [Requests -> RequestState]
      BY <2>u, OrdersFacts DEF RequestState
    <3> QED BY <2>1, <2>u, <3>1, <3>2, OrdersFacts DEF TypeOK
  <2>3. \A p \in Orders : /\ order'[p].key = order[p].key
                          /\ order'[p].status \in {order[p].status, "pending"}
                          /\ order'[p].status = "none" <=> order[p].status = "none"
    BY <2>1, <2>s, OrdersFacts DEF OrderRow
  <2>4. CopyOfRow'
    BY <2>3, <2>u, OrdersFacts DEF OrdersInv, CopyOfRow, RequestState
  <2>5. NoticeSettled' /\ ProcSettled' /\ CreditedOnce'
    BY <2>u DEF OrdersInv, NoticeSettled, ProcSettled, CreditedOnce
  <2>6. NothingForFree'
    BY <2>3, <2>u DEF OrdersInv, NothingForFree
  <2>7. OneOrderPerKey'
    BY <2>3 DEF OrdersInv, OneOrderPerKey
  <2> QED BY <2>2, <2>4, <2>5, <2>6, <2>7 DEF OrdersInv
<1>4. CASE CheckoutFails(r)
  <2> USE <1>4 DEF CheckoutFails, clock, effects, NoRequest
  <2>1. TypeOK' /\ CopyOfRow'
    BY OrdersFacts DEF OrdersInv, TypeOK, CopyOfRow, RequestState
  <2>2. NoticeSettled' /\ ProcSettled' /\ NothingForFree' /\ CreditedOnce' /\ OneOrderPerKey'
    BY DEF OrdersInv, NoticeSettled, ProcSettled, NothingForFree, CreditedOnce, OneOrderPerKey
  <2> QED BY <2>1, <2>2 DEF OrdersInv
<1> QED BY <1>1, <1>2, <1>3, <1>4 DEF RequestStep
\* The steps that only move processes, from a settled order to a settled order.
LEMMA MovePreserved ==
    ASSUME OrdersInv, UNCHANGED <<temporal, order, clock, shop, notice, effects, worker, issues>>,
           seen' \subseteq Orders,
           proc' \in [Procs -> ProcState],
           \A p \in Procs : proc'[p].pc # "idle" => proc'[p].order \in Orders \cap settled
    PROVE  OrdersInv'
<1> USE DEF clock, shop, effects
<1>1. TypeOK'
  BY OrdersFacts DEF TypeOK
<1>2. ProcSettled'
  BY DEF ProcSettled
<1>3. NoticeSettled' /\ CopyOfRow' /\ NothingForFree' /\ CreditedOnce' /\ OneOrderPerKey'
  BY DEF OrdersInv, NoticeSettled, CopyOfRow, NothingForFree, CreditedOnce, OneOrderPerKey
<1> QED BY <1>1, <1>2, <1>3 DEF OrdersInv

-----------------------------------------------------------------------------
(* The payer, the provider, the notifications and the clock. *)

\* Only a payment starts a notification.
LEMMA OrderPreserved ==
    ASSUME OrdersInv, NEW o \in Orders, OrderStep(o)
    PROVE  OrdersInv'
<1> USE OrdersAssumption DEF clock, shop, effects
<1>1. CASE ActivityFails(o)
  <2> USE <1>1 DEF ActivityFails
  <2>1. o \in Procs
    BY DEF Procs
  <2> DEFINE q == proc[o]
             n == IF q.tries = MaxAttempts THEN Idle
                  ELSE [q EXCEPT !.tries = q.tries + 1,
                                 !.pc = IF q.pc = "activate" THEN "activate" ELSE "mark"]
  <2>2. proc' = [proc EXCEPT ![o] = n]
    OBVIOUS
  <2>n. n \in ProcState /\ (n.pc # "idle" => n.order = q.order)
    <3>1. q \in ProcState
      BY <2>1, OrdersFacts
    <3>2. CASE q.tries = MaxAttempts
      BY <3>2 DEF ProcState, Idle
    <3>3. CASE q.tries # MaxAttempts
      <4> HIDE DEF q
      <4>1. q.tries + 1 \in 0 .. MaxAttempts
        BY <3>1, <3>3 DEF ProcState
      <4> QED BY <3>1, <3>3, <4>1 DEF ProcState
    <3> QED BY <3>2, <3>3
  <2>q. q.order \in Orders \cap settled
    BY <2>1 DEF OrdersInv, ProcSettled
  <2> HIDE DEF n, q
  <2>3. proc' \in [Procs -> ProcState]
    BY <2>1, <2>2, <2>n, OrdersFacts
  <2>4. \A p \in Procs : proc'[p].pc # "idle" => proc'[p].order \in Orders \cap settled
    BY <2>1, <2>2, <2>n, <2>q, OrdersFacts DEF OrdersInv, ProcSettled
  <2> QED BY <2>3, <2>4, OrdersFacts, MovePreserved
<1>2. ASSUME ProviderPaid(o) \/ AcknowledgeDuplicate(o) \/ SeenExpires(o) \/ OrderStale(o) \/ OrderAged(o)
      PROVE  OrdersInv'
  <2>0. /\ UNCHANGED <<temporal, order, request, offered, proc, credits, activated, worker, issues>>
        /\ settled \subseteq settled' /\ settled' \subseteq Orders
        /\ notice' \subseteq notice \cup (settled' \ settled)
        /\ aged' \subseteq Orders /\ stale' \subseteq Orders /\ seen' \subseteq Orders
    BY <1>2, OrdersFacts DEF ProviderPaid, AcknowledgeDuplicate, SeenExpires, OrderStale, OrderAged
  <2>1. TypeOK'
    BY <2>0, OrdersFacts DEF TypeOK
  <2>2. NoticeSettled' /\ ProcSettled'
    BY <2>0 DEF OrdersInv, NoticeSettled, ProcSettled
  <2>3. CopyOfRow' /\ NothingForFree' /\ CreditedOnce' /\ OneOrderPerKey'
    BY <2>0 DEF OrdersInv, CopyOfRow, NothingForFree, CreditedOnce, OneOrderPerKey
  <2> QED BY <2>1, <2>2, <2>3 DEF OrdersInv
<1> QED BY <1>1, <1>2 DEF OrderStep

-----------------------------------------------------------------------------
(* The processing of a payment. *)

\* A handler takes up an order of which the provider notifies.
LEMMA DeliverPreserved ==
    ASSUME OrdersInv, NEW h \in Handlers, NEW o \in notice, Deliver(h, o)
    PROVE  OrdersInv'
<1> USE OrdersAssumption
<1>1. h \in Procs /\ o \in Orders \cap settled
  BY OrdersFacts DEF Procs, OrdersInv, NoticeSettled
<1>2. proc' = [proc EXCEPT ![h] = [pc |-> "start", order |-> o, tries |-> 0]]
  BY DEF Deliver
<1>3. proc' \in [Procs -> ProcState]
  BY <1>1, <1>2, OrdersFacts DEF ProcState
<1>4. \A p \in Procs : proc'[p].pc # "idle" => proc'[p].order \in Orders \cap settled
  BY <1>1, <1>2, OrdersFacts DEF OrdersInv, ProcSettled
<1>5. seen' \subseteq Orders
  BY <1>1, OrdersFacts DEF Deliver, TryProcess
<1> QED BY <1>3, <1>4, <1>5, MovePreserved DEF Deliver

\* The steps of the callback handler keep the invariant.
LEMMA HandlerPreserved ==
    ASSUME OrdersInv, NEW h \in Handlers, HandlerStep(h)
    PROVE  OrdersInv'
<1> USE OrdersAssumption
<1>0. h \in Procs
  BY DEF Procs
<1>1. ASSUME NEW o \in Orders, StripeWebhook(h, o) \/ WorldFirstNotify(h, o) PROVE OrdersInv'
  BY <1>1, DeliverPreserved DEF StripeWebhook, WorldFirstNotify
<1>2. ASSUME NEW o \in Orders, EpayNotify(h, o) PROVE OrdersInv'
  <2>1. CASE o \in notice /\ Deliver(h, o)
    BY <2>1, DeliverPreserved
  <2>2. CASE /\ seen' = seen \cup {o}
             /\ UNCHANGED <<temporal, order, clock, shop, notice, proc, effects, worker, issues>>
    BY <2>2, OrdersFacts, MovePreserved DEF OrdersInv, ProcSettled
  <2> QED BY <1>2, <2>1, <2>2 DEF EpayNotify
<1>3. CASE ProcessOrderPaid(h)
  <2> DEFINE o == proc[h].order
  <2>1. o \in Orders \cap settled /\ o \in Procs
    BY <1>0, <1>3 DEF ProcessOrderPaid, OrdersInv, ProcSettled, Procs
  <2>2. \/ proc' = [proc EXCEPT ![h].pc = "mark"]
        \/ proc' = [proc EXCEPT ![h].pc = "answer",
                               ![o] = IF proc[o].pc = "idle"
                                        THEN [pc |-> "mark", order |-> o, tries |-> 1]
                                        ELSE proc[o]]
    <3>1. CASE ~temporal
      BY <1>3, <3>1 DEF ProcessOrderPaid
    <3>2. CASE temporal
      BY <1>3, <3>2 DEF ProcessOrderPaid
    <3> QED BY <3>1, <3>2
  <2> HIDE DEF o
  <2>3. proc' \in [Procs -> ProcState]
    BY <1>0, <2>1, <2>2, OrdersFacts DEF ProcState
  <2>4. \A p \in Procs : proc'[p].pc # "idle" => proc'[p].order \in Orders \cap settled
    BY <1>0, <1>3, <2>1, <2>2, OrdersFacts DEF ProcState, ProcessOrderPaid, OrdersInv, ProcSettled
  <2>5. UNCHANGED <<temporal, order, clock, shop, notice, seen, effects, worker, issues>>
    BY <1>3 DEF ProcessOrderPaid
  <2> QED BY <2>3, <2>4, <2>5, OrdersFacts, MovePreserved
<1>4. CASE HandlerFails(h)
  <2>1. proc' = [proc EXCEPT ![h] = Idle]
    BY <1>4 DEF HandlerFails
  <2>2. /\ proc' \in [Procs -> ProcState]
        /\ \A p \in Procs : proc'[p].pc # "idle" => proc'[p].order \in Orders \cap settled
    BY <1>0, <2>1, OrdersFacts DEF OrdersInv, ProcSettled, ProcState, Idle
  <2> QED BY <1>4, <2>2, OrdersFacts, MovePreserved DEF HandlerFails
<1> QED BY <1>1, <1>2, <1>3, <1>4 DEF HandlerStep

\* A payment is marked, credited, activated and answered for a settled order.
LEMMA ProcPreserved ==
    ASSUME OrdersInv, NEW p \in Procs, ProcStep(p)
    PROVE  OrdersInv'
<1> USE OrdersAssumption DEF clock, shop, effects
<1> DEFINE o == proc[p].order
<1>0. o \in Orders \cap settled
  BY DEF OrdersInv, ProcSettled, ProcStep, MarkPaymentOrderPaid, Topup, Activate, Answer
<1>1. CASE MarkPaymentOrderPaid(p)
  <2> USE <1>1 DEF MarkPaymentOrderPaid
  <2>1. order' = order \/ order' = [order EXCEPT ![o].status = "paid"]
    OBVIOUS
  <2>2. \/ proc' = [proc EXCEPT ![p].pc = "credit"]
        \/ proc' = [proc EXCEPT ![p].pc = "answer"]
        \/ proc' = [proc EXCEPT ![p].pc = "activate", ![p].tries = IF @ > 0 THEN 1 ELSE 0]
    BY DEF AfterMark
  <2>p. /\ proc' \in [Procs -> ProcState]
        /\ \A q \in Procs : /\ proc'[q].order = proc[q].order
                            /\ proc'[q].pc # "idle" => proc[q].pc # "idle"
    <3>1. PICK c \in {"credit", "answer", "activate"}, t \in {proc[p].tries, 0, 1} :
            proc' = [proc EXCEPT ![p].pc = c, ![p].tries = t]
      <4>1. \A c : [proc EXCEPT ![p].pc = c] = [proc EXCEPT ![p].pc = c, ![p].tries = proc[p].tries]
        BY OrdersFacts DEF ProcState
      <4> QED BY <2>2, <4>1
    <3>2. proc[p] \in ProcState /\ t \in 0 .. MaxAttempts
      BY OrdersFacts DEF ProcState
    <3>3. proc' = [proc EXCEPT ![p] = [pc |-> c, order |-> proc[p].order, tries |-> t]]
      BY <3>1, <3>2, OrdersFacts DEF ProcState
    <3>4. [pc |-> c, order |-> proc[p].order, tries |-> t] \in ProcState
      BY <3>2 DEF ProcState
    <3>5. proc' \in [Procs -> ProcState]
      BY <3>3, <3>4, OrdersFacts
    <3>6. ASSUME NEW q \in Procs
          PROVE  proc'[q].order = proc[q].order /\ (proc'[q].pc # "idle" => proc[q].pc # "idle")
      <4>1. proc[p].pc = "mark"
        OBVIOUS
      <4> HIDE <1>1 DEF MarkPaymentOrderPaid
      <4>2. CASE q = p
        BY <3>3, <4>1, <4>2, OrdersFacts
      <4>3. CASE q # p
        BY <3>3, <4>3, OrdersFacts
      <4> QED BY <4>2, <4>3
    <3> QED BY <3>5, <3>6
  <2>3. order[o].status # "none" \/ order' = order
    OBVIOUS
  <2>4. TypeOK'
    <3>1. order' \in [Orders -> OrderRow]
      BY <1>0, <2>1, OrdersFacts DEF OrderRow, OrderStatus
    <3> QED BY <2>p, <3>1, OrdersFacts DEF TypeOK
  <2>5. ProcSettled'
    BY <1>0, <2>p DEF OrdersInv, ProcSettled
  <2>6. \A q \in Orders : /\ order'[q].key = order[q].key
                          /\ order'[q].status = "none" <=> order[q].status = "none"
                          /\ order'[q].status = "paid" => order[q].status = "paid" \/ q = o
    BY <1>0, <2>1, <2>3, OrdersFacts DEF OrderRow
  <2>7. CopyOfRow' /\ NoticeSettled' /\ CreditedOnce'
    BY <2>6 DEF OrdersInv, CopyOfRow, NoticeSettled, CreditedOnce
  <2>8. NothingForFree'
    BY <1>0, <2>6 DEF OrdersInv, NothingForFree
  <2>9. OneOrderPerKey'
    BY <2>6 DEF OrdersInv, OneOrderPerKey
  <2> QED BY <2>4, <2>5, <2>7, <2>8, <2>9 DEF OrdersInv
<1>2. CASE Topup(p)
  <2> USE <1>2 DEF Topup
  <2>1. TypeOK'
    BY <1>0, OrdersFacts DEF TypeOK, ProcState
  <2>2. ProcSettled'
    BY <1>0, OrdersFacts DEF OrdersInv, ProcSettled, ProcState
  <2>3. NothingForFree' /\ CreditedOnce'
    BY <1>0, OrdersFacts DEF OrdersInv, NothingForFree, CreditedOnce
  <2>4. CopyOfRow' /\ NoticeSettled' /\ OneOrderPerKey'
    BY DEF OrdersInv, CopyOfRow, NoticeSettled, OneOrderPerKey
  <2> QED BY <2>1, <2>2, <2>3, <2>4 DEF OrdersInv
<1>3. CASE Activate(p)
  <2> USE <1>3 DEF Activate
  <2>1. TypeOK'
    BY <1>0, OrdersFacts DEF TypeOK, ProcState
  <2>2. ProcSettled'
    BY <1>0, OrdersFacts DEF OrdersInv, ProcSettled, ProcState
  <2>3. NothingForFree' /\ CreditedOnce'
    BY <1>0, OrdersFacts DEF OrdersInv, NothingForFree, CreditedOnce
  <2>4. CopyOfRow' /\ NoticeSettled' /\ OneOrderPerKey'
    BY DEF OrdersInv, CopyOfRow, NoticeSettled, OneOrderPerKey
  <2> QED BY <2>1, <2>2, <2>3, <2>4 DEF OrdersInv
<1>4. CASE Answer(p)
  <2> USE <1>4 DEF Answer, Idle
  <2>1. TypeOK'
    BY <1>0, OrdersFacts DEF TypeOK, ProcState, Issues
  <2>2. ProcSettled'
    BY OrdersFacts DEF OrdersInv, ProcSettled, ProcState
  <2>3. CopyOfRow' /\ NoticeSettled'
    BY DEF OrdersInv, CopyOfRow, NoticeSettled
  <2>4. NothingForFree' /\ CreditedOnce' /\ OneOrderPerKey'
    BY DEF OrdersInv, NothingForFree, CreditedOnce, OneOrderPerKey
  <2> QED BY <2>1, <2>2, <2>3, <2>4 DEF OrdersInv
<1> QED BY <1>1, <1>2, <1>3, <1>4 DEF ProcStep

-----------------------------------------------------------------------------
(* The reconciliation worker. *)

\* The steps that read the tables, open and close issues and move processes.
LEMMA WatchPreserved ==
    ASSUME OrdersInv, UNCHANGED <<temporal, order, clock, shop, notice, seen, effects>>,
           worker' \in [Workers -> WorkerState], issues' \subseteq Issues,
           proc' \in [Procs -> ProcState],
           \A p \in Procs : proc'[p].pc # "idle" => proc'[p].order \in Orders \cap settled
    PROVE  OrdersInv'
<1> USE DEF clock, shop, effects
<1>1. TypeOK'
  BY OrdersFacts DEF TypeOK
<1>2. ProcSettled'
  BY DEF ProcSettled
<1>3. NoticeSettled' /\ CopyOfRow' /\ NothingForFree' /\ CreditedOnce' /\ OneOrderPerKey'
  BY DEF OrdersInv, NoticeSettled, CopyOfRow, NothingForFree, CreditedOnce, OneOrderPerKey
<1> QED BY <1>1, <1>2, <1>3 DEF OrdersInv

\* The worker processes an order when the provider says that it was paid.
LEMMA WorkerPreserved ==
    ASSUME OrdersInv, NEW w \in Workers, WorkerStep(w)
    PROVE  OrdersInv'
<1> USE OrdersAssumption
<1>0. w \in Procs
  BY DEF Procs
<1>p. /\ proc \in [Procs -> ProcState]
      /\ \A p \in Procs : proc[p].pc # "idle" => proc[p].order \in Orders \cap settled
  BY OrdersFacts DEF OrdersInv, ProcSettled
<1>i. LET idle == [proc EXCEPT ![w] = Idle] IN
      /\ idle \in [Procs -> ProcState]
      /\ \A p \in Procs : idle[p].pc # "idle" => idle[p].order \in Orders \cap settled
  BY <1>0, <1>p DEF ProcState, Idle
<1>1. CASE ExpireStalePendingOrders(w)
  <2> USE <1>1 DEF ExpireStalePendingOrders, clock, shop, effects
  <2>1. \A o \in Orders : /\ order'[o] \in OrderRow
                          /\ order'[o].key = order[o].key
                          /\ order'[o].status \in {order[o].status, "expired"}
                          /\ order'[o].status = "none" <=> order[o].status = "none"
    BY OrdersFacts DEF OrderRow, OrderStatus
  <2>2. TypeOK'
    <3>1. order' \in [Orders -> OrderRow]
      BY <2>1
    <3>2. worker' \in [Workers -> WorkerState]
      BY OrdersFacts DEF WorkerState
    <3> QED BY <3>1, <3>2, OrdersFacts DEF TypeOK
  <2>3. ProcSettled' /\ NoticeSettled' /\ CopyOfRow' /\ CreditedOnce'
    BY <2>1 DEF OrdersInv, ProcSettled, NoticeSettled, CopyOfRow, CreditedOnce
  <2>4. NothingForFree'
    BY <2>1 DEF OrdersInv, NothingForFree
  <2>5. OneOrderPerKey'
    BY <2>1 DEF OrdersInv, OneOrderPerKey
  <2> QED BY <2>2, <2>3, <2>4, <2>5 DEF OrdersInv
<1>2. CASE CheckPaidOrdersIntegrity(w) \/ VerifyStalePendingOrders(w)
  <2>1. PICK found \in SUBSET Orders, pc \in {"report", "verify"} :
           worker' = [worker EXCEPT ![w] = [pc |-> pc, todo |-> found]]
    BY <1>2, OrdersFacts DEF CheckPaidOrdersIntegrity, VerifyStalePendingOrders, Limited, Orphans
  <2>2. worker' \in [Workers -> WorkerState]
    BY <2>1, OrdersFacts DEF WorkerState
  <2> QED BY <1>2, <1>p, <2>2, OrdersFacts, WatchPreserved
          DEF CheckPaidOrdersIntegrity, VerifyStalePendingOrders
<1>3. ASSUME NEW o \in Orders, CreateReconciliationIssue(w, o) PROVE OrdersInv'
  <2>1. worker' \in [Workers -> WorkerState] /\ issues' \subseteq Issues
    BY <1>3, OrdersFacts DEF CreateReconciliationIssue, WorkerState, Issues
  <2> QED BY <1>3, <1>p, <2>1, WatchPreserved DEF CreateReconciliationIssue
<1>4. ASSUME NEW o \in Orders, QueryProviderOrder(w, o) PROVE OrdersInv'
  <2>1. worker' \in [Workers -> WorkerState]
    BY <1>4, OrdersFacts DEF QueryProviderOrder, WorkerState
  <2>2. \/ proc' = proc
        \/ o \in settled /\ proc' = [proc EXCEPT ![w] = [pc |-> "mark", order |-> o, tries |-> 0]]
    BY <1>4 DEF QueryProviderOrder
  <2>3. /\ proc' \in [Procs -> ProcState]
        /\ \A p \in Procs : proc'[p].pc # "idle" => proc'[p].order \in Orders \cap settled
    BY <1>0, <1>p, <2>2 DEF ProcState
  <2> QED BY <1>4, <2>1, <2>3, OrdersFacts, WatchPreserved DEF QueryProviderOrder
<1>5. CASE EndTick(w) \/ TickStepFails(w)
  <2>1. worker' \in [Workers -> WorkerState]
    BY <1>5, OrdersFacts DEF EndTick, TickStepFails, WorkerState
  <2> QED BY <1>5, <1>p, <2>1, OrdersFacts, WatchPreserved DEF EndTick, TickStepFails
<1>6. CASE RecoveryFails(w)
  <2>1. issues' \subseteq Issues
    BY <1>0, <1>6, <1>p, OrdersFacts DEF RecoveryFails, Issues
  <2> QED BY <1>6, <1>i, <2>1, OrdersFacts, WatchPreserved DEF RecoveryFails
<1>7. CASE WorkerCrash(w)
  <2>1. worker' \in [Workers -> WorkerState]
    BY <1>7, OrdersFacts DEF WorkerCrash, WorkerState
  <2> QED BY <1>7, <1>i, <2>1, OrdersFacts, WatchPreserved DEF WorkerCrash
<1> QED BY <1>1, <1>2, <1>3, <1>4, <1>5, <1>6, <1>7 DEF WorkerStep

-----------------------------------------------------------------------------
\* Every step keeps the invariant.
LEMMA OrdersStep == OrdersInv /\ [Next]_vars => OrdersInv'
<1> SUFFICES ASSUME OrdersInv, [Next]_vars PROVE OrdersInv'
  OBVIOUS
<1>1. CASE \E i \in Issues : ResolveReconciliationIssue(i)
  BY <1>1, OrdersFacts, WatchPreserved DEF ResolveReconciliationIssue, OrdersInv, ProcSettled
<1>2. CASE UNCHANGED vars
  BY <1>2, OrdersFacts, WatchPreserved DEF vars, OrdersInv, ProcSettled
<1> QED BY <1>1, <1>2, RequestPreserved, HandlerPreserved, ProcPreserved, OrderPreserved,
           WorkerPreserved DEF Next

\* The strengthened invariant holds in every reachable state.
LEMMA OrdersInvariant == Spec => []OrdersInv
BY OrdersInit, OrdersStep, PTL DEF Spec

\* Nothing is given away: whichever of webhook, workflow and worker processes
\* an order, and whatever checkouts and expiry do to its status, it is paid,
\* credited or activated only after the provider took the money.
THEOREM OrdersNothingForFree == Spec => []NothingForFree
<1>1. OrdersInv => NothingForFree
  BY DEF OrdersInv
<1> QED BY <1>1, OrdersInvariant, PTL

\* A payment is credited at most once, however often its order is made pending
\* again and marked again.
THEOREM OrdersCreditedOnce == Spec => []CreditedOnce
<1>1. OrdersInv => CreditedOnce
  BY DEF OrdersInv
<1> QED BY <1>1, OrdersInvariant, PTL

\* Two orders never have the same idempotency key.
THEOREM OrdersOnePerKey == Spec => []OneOrderPerKey
<1>1. OrdersInv => OneOrderPerKey
  BY DEF OrdersInv
<1> QED BY <1>1, OrdersInvariant, PTL
=============================================================================
