---------------------------- MODULE PaymentOrders ----------------------------
(***************************************************************************)
(* The life of a payment order: checkout, the provider's notification, the *)
(* processing of the payment and the reconciliation worker.                *)
(*                                                                         *)
(* Each database statement is one step.  MarkOrderPaid is two of them (the *)
(* conditional UPDATE of the order, then the wallet credit in another      *)
(* transaction), and the checkout handlers write back the whole order row  *)
(* they read before they called the provider, so handlers, workflows,      *)
(* checkouts and worker interleave between these steps.  A process may     *)
(* fail at every step: a database error, a timeout or the death of the pod *)
(* leave the same state behind.                                            *)
(***************************************************************************)
EXTENDS Integers, FiniteSets

CONSTANTS
    Orders,      \* order numbers
    NoOrder,     \* the order of an idle process
    Keys,        \* idempotency keys a product service may send
    Methods,     \* payment methods in use, see Queryable and EpayNotify
    Handlers,    \* concurrent webhook requests
    Requests,    \* concurrent checkout requests
    Workers,     \* replicas that run the reconciliation worker
    MaxAttempts, \* attempts of a Temporal activity (RetryPolicy)
    MaxOrphans,  \* rows FindPaidTopupOrdersWithoutCredit returns (LIMIT 100)
    MaxStale     \* rows FindStalePendingOrders returns (LIMIT 50)

\* GORM writes a missing key as the empty string, not as NULL.
NoKey == ""

ASSUME OrdersAssumption ==
    /\ Methods \subseteq {"epay", "stripe", "worldfirst"}
    /\ MaxAttempts \in Nat \ {0}
    /\ MaxOrphans \in Nat \ {0} /\ MaxStale \in Nat \ {0}
    /\ NoOrder \notin Orders
    /\ NoKey \notin Keys

\* providerNameByMethod: the methods whose provider the worker can ask.  epay is
\* among them, but its provider is no OrderQuerier.
Queryable == {"stripe"}

\* The workflow "payment:{order}" of an order runs as the process of that order.
Procs == Handlers \cup Workers \cup Orders

VARIABLES
    temporal,   \* is Temporal configured in this deployment
    order,      \* payment_orders
    aged,       \* orders past expires_at (or created_at + maxAge)
    stale,      \* orders older than stalePendingMinAge
    request,    \* checkout requests and the order they hold a copy of
    offered,    \* orders whose payment page was handed to the payer
    settled,    \* orders the payer has paid at the provider
    notice,     \* orders whose notification the provider still repeats
    seen,       \* event IDs in Redis (webhook:seen:)
    proc,       \* who processes a payment, and how far
    credits,    \* ledger rows (topup, payment_order, order_no) of each order
    activated,  \* orders whose subscription was activated
    worker,     \* the reconciliation workers' position in tick
    issues      \* open reconciliation_issues

shop == <<request, offered, settled>>
clock == <<aged, stale>>
effects == <<credits, activated>>
vars == <<temporal, order, clock, shop, notice, seen, proc, effects, worker, issues>>

OrderStatus == {"none", "pending", "paid", "expired"}
OrderRow == [status : OrderStatus, type : {"none", "topup", "subscription"},
             key : Keys \cup {NoKey}, method : Methods \cup {"none"}]
NoRow == [status |-> "none", type |-> "none", key |-> NoKey, method |-> "none"]

\* "create": past the idempotency look-up; "checkout": holds a pending copy of
\* the row and calls the provider.
RequestState == [pc : {"idle", "create", "checkout"}, order : Orders \cup {NoOrder},
                 key : Keys \cup {NoKey}]
NoRequest == [pc |-> "idle", order |-> NoOrder, key |-> NoKey]

ProcState == [pc : {"idle", "start", "mark", "credit", "activate", "answer"},
              order : Orders \cup {NoOrder}, tries : 0 .. MaxAttempts]
Idle == [pc |-> "idle", order |-> NoOrder, tries |-> 0]

WorkerState == [pc : {"idle", "check", "report", "verify"}, todo : SUBSET Orders]

Issues == {"missing_credit", "missed_webhook", "amount_mismatch"} \X Orders

Init ==
    /\ temporal \in BOOLEAN
    /\ order = [o \in Orders |-> NoRow]
    /\ aged = {} /\ stale = {}
    /\ request = [r \in Requests |-> NoRequest]
    /\ offered = {} /\ settled = {} /\ notice = {} /\ seen = {}
    /\ proc = [p \in Procs |-> Idle]
    /\ credits = [o \in Orders |-> 0]
    /\ activated = {}
    /\ worker = [w \in Workers |-> [pc |-> "idle", todo |-> {}]]
    /\ issues = {}

-----------------------------------------------------------------------------
(* Checkout. *)

\* idx_orders_idempotency: no other row has the key, the empty one included.
KeyFree(key) == \A o \in Orders : order[o].status = "none" \/ order[o].key # key

CreatePaymentOrder(r, o, type, key, method) ==
    /\ order[o].status = "none"
    /\ KeyFree(key)
    /\ order' = [order EXCEPT ![o] = [status |-> "pending", type |-> type,
                                      key |-> key, method |-> method]]
    /\ request' = [request EXCEPT ![r] = [pc |-> "checkout", order |-> o, key |-> key]]
    /\ UNCHANGED <<temporal, clock, offered, settled, notice, seen, proc, effects, worker, issues>>

CreateTopup(r, o, method) ==
    /\ request[r].pc = "idle"
    /\ CreatePaymentOrder(r, o, "topup", NoKey, method)

CreateSubscriptionOrder(r, o, method) ==
    /\ request[r].pc = "idle"
    /\ CreatePaymentOrder(r, o, "subscription", NoKey, method)

\* CreateCheckoutSession looks the key up first: a pending order is handed back ...
FindPendingOrder(r, key) ==
    LET found == {o \in Orders : order[o].key = key /\ order[o].status = "pending"} IN
    /\ request[r].pc = "idle"
    /\ request' = [request EXCEPT ![r] =
          IF key # NoKey /\ found # {}
            THEN [pc |-> "checkout", order |-> CHOOSE o \in found : TRUE,
                  key |-> key]
            ELSE [pc |-> "create", order |-> NoOrder, key |-> key]]
    /\ UNCHANGED <<temporal, order, clock, offered, settled, notice, seen, proc, effects, worker, issues>>

\* ... and otherwise a new one is inserted, in a statement of its own.
CreateCheckoutSession(r, o, method) ==
    /\ request[r].pc = "create"
    /\ CreatePaymentOrder(r, o, "topup", request[r].key, method)

\* The provider returned a page.  Save writes every column of the copy, its
\* status "pending" included.  It is skipped without an external ID (except by
\* CreateCheckout), and its failure is ignored.
UpdatePaymentOrder(r, saves) ==
    LET o == request[r].order IN
    /\ request[r].pc = "checkout"
    /\ order' = IF saves THEN [order EXCEPT ![o].status = "pending"] ELSE order
    /\ offered' = offered \cup {o}
    /\ request' = [request EXCEPT ![r] = NoRequest]
    /\ UNCHANGED <<temporal, clock, settled, notice, seen, proc, effects, worker, issues>>

\* The provider or the insert fails.
CheckoutFails(r) ==
    /\ request[r].pc # "idle"
    /\ request' = [request EXCEPT ![r] = NoRequest]
    /\ UNCHANGED <<temporal, order, clock, offered, settled, notice, seen, proc, effects, worker, issues>>

-----------------------------------------------------------------------------
(* The provider and its notifications. *)

\* The payer pays on the provider's page, which knows nothing of the order's
\* expiry, and the provider starts to notify.
ProviderPaid(o) ==
    /\ o \in offered \ settled
    /\ settled' = settled \cup {o}
    /\ notice' = notice \cup {o}
    /\ UNCHANGED <<temporal, order, clock, request, offered, seen, proc, effects, worker, issues>>

\* SET NX; a Redis error counts as a first delivery (fail-open).
TryProcess(o) ==
    \/ o \notin seen /\ seen' = seen \cup {o}
    \/ UNCHANGED seen

\* The handler goes on to process the payment of order o.
Deliver(h, o) ==
    /\ TryProcess(o)
    /\ proc' = [proc EXCEPT ![h] = [pc |-> "start", order |-> o, tries |-> 0]]
    /\ UNCHANGED <<temporal, order, clock, shop, notice, effects, worker, issues>>

\* A verified event of a paid session: StripeWebhook and CreemWebhook.
StripeWebhook(h, o) ==
    /\ proc[h].pc = "idle"
    /\ o \in notice /\ order[o].method = "stripe"
    /\ Deliver(h, o)

\* AlipayNotify, WechatPayNotify and WorldFirstNotify; irrelevant notifications
\* are acknowledged before the deduplication and change nothing.
WorldFirstNotify(h, o) ==
    /\ proc[h].pc = "idle"
    /\ o \in notice /\ order[o].method = "worldfirst"
    /\ Deliver(h, o)

\* Mutant: takes every callback for a successful trade.
EpayNotifyUnverified(h, o) ==
    /\ proc[h].pc = "idle"
    /\ o \in offered /\ order[o].method = "epay"
    /\ Deliver(h, o)

\* EpayNotify deduplicates by trade number before it verifies: a callback whose
\* trade is not successful yet is rejected, but leaves its mark.
EpayNotify(h, o) ==
    /\ proc[h].pc = "idle"
    /\ o \in offered /\ order[o].method = "epay"
    /\ \/ o \in notice /\ Deliver(h, o)
       \/ /\ o \notin settled \cup seen
          /\ seen' = seen \cup {o}
          /\ UNCHANGED <<temporal, order, clock, shop, notice, proc, effects, worker, issues>>

\* ErrAlreadyProcessed: the notification is acknowledged and dropped.
AcknowledgeDuplicate(o) ==
    /\ o \in notice \cap seen
    /\ notice' = notice \ {o}
    /\ UNCHANGED <<temporal, order, clock, shop, seen, proc, effects, worker, issues>>

\* DefaultWebhookTTL passes.
SeenExpires(o) ==
    /\ o \in seen
    /\ seen' = seen \ {o}
    /\ UNCHANGED <<temporal, order, clock, shop, notice, proc, effects, worker, issues>>

-----------------------------------------------------------------------------
(* Processing a payment. *)

\* processOrderPaid: the direct path goes on in the handler; with Temporal the
\* workflow of the order is started, or joined when it is running.
ProcessOrderPaid(h) ==
    LET o == proc[h].order IN
    /\ proc[h].pc = "start"
    /\ proc' = IF ~temporal THEN [proc EXCEPT ![h].pc = "mark"]
               ELSE [proc EXCEPT ![h].pc = "answer",
                                 ![o] = IF proc[o].pc = "idle"
                                          THEN [pc |-> "mark", order |-> o, tries |-> 1]
                                          ELSE proc[o]]
    /\ UNCHANGED <<temporal, order, clock, shop, notice, seen, effects, worker, issues>>

\* What follows MarkOrderPaid: handlers and workflows activate the subscription,
\* whether or not this call moved the order; the worker does not.
AfterMark(p) ==
    IF p \notin Workers /\ order[proc[p].order].type = "subscription"
      THEN [proc EXCEPT ![p].pc = "activate", ![p].tries = IF @ > 0 THEN 1 ELSE 0]
      ELSE [proc EXCEPT ![p].pc = "answer"]

\* The conditional UPDATE; only the call that moved the order credits the wallet.
MarkPaymentOrderPaid(p) ==
    LET o == proc[p].order
        didTransition == order[o].status = "pending"
    IN  /\ proc[p].pc = "mark"
        /\ order' = IF didTransition THEN [order EXCEPT ![o].status = "paid"] ELSE order
        /\ proc' = IF didTransition /\ order[o].type = "topup"
                     THEN [proc EXCEPT ![p].pc = "credit"]
                     ELSE AfterMark(p)
        /\ UNCHANGED <<temporal, clock, shop, notice, seen, effects, worker, issues>>

\* Mutant: the ledger without migration 020.
TopupNoIndex(p) ==
    LET o == proc[p].order IN
    /\ proc[p].pc = "credit"
    /\ credits[o] < 2
    /\ credits' = [credits EXCEPT ![o] = @ + 1]
    /\ proc' = [proc EXCEPT ![p].pc = "answer"]
    /\ UNCHANGED <<temporal, order, clock, shop, notice, seen, activated, worker, issues>>

\* The wallet credit; a second row with this reference is refused by the index
\* of migration 020 and leaves the process to fail.
Topup(p) ==
    LET o == proc[p].order IN
    /\ proc[p].pc = "credit"
    /\ credits[o] = 0
    /\ credits' = [credits EXCEPT ![o] = 1]
    /\ proc' = [proc EXCEPT ![p].pc = "answer"]
    /\ UNCHANGED <<temporal, order, clock, shop, notice, seen, activated, worker, issues>>

Activate(p) ==
    /\ proc[p].pc = "activate"
    /\ activated' = activated \cup {proc[p].order}
    /\ proc' = [proc EXCEPT ![p].pc = "answer"]
    /\ UNCHANGED <<temporal, order, clock, shop, notice, seen, credits, worker, issues>>

\* The process ends: a handler acknowledges the notification, the worker opens
\* an issue when the provider reported another amount.
Answer(p) ==
    LET o == proc[p].order IN
    /\ proc[p].pc = "answer"
    /\ notice' = IF p \in Handlers THEN notice \ {o} ELSE notice
    /\ \/ UNCHANGED issues
       \/ p \in Workers /\ issues' = issues \cup {<<"amount_mismatch", o>>}
    /\ proc' = [proc EXCEPT ![p] = Idle]
    /\ UNCHANGED <<temporal, order, clock, shop, seen, effects, worker>>

\* An error or a crash in a handler: no acknowledgement, and the mark in Redis stays.
HandlerFails(h) ==
    /\ proc[h].pc # "idle"
    /\ proc' = [proc EXCEPT ![h] = Idle]
    /\ UNCHANGED <<temporal, order, clock, shop, notice, seen, effects, worker, issues>>

\* A failed activity is run again from its start, MaxAttempts times in all;
\* then the workflow fails.
ActivityFails(o) ==
    LET q == proc[o] IN
    /\ q.pc \in {"mark", "credit", "activate"}
    /\ proc' = [proc EXCEPT ![o] =
          IF q.tries = MaxAttempts THEN Idle
          ELSE [q EXCEPT !.tries = q.tries + 1,
                         !.pc = IF q.pc = "activate" THEN "activate" ELSE "mark"]]
    /\ UNCHANGED <<temporal, order, clock, shop, notice, seen, effects, worker, issues>>

\* Auto-recovery returned an error, perhaps after its commit: the worker tries to
\* open an issue and goes on with its list.
RecoveryFails(w) ==
    /\ proc[w].pc \in {"mark", "credit", "answer"}
    /\ issues' \in {issues, issues \cup {<<"missed_webhook", proc[w].order>>}}
    /\ proc' = [proc EXCEPT ![w] = Idle]
    /\ UNCHANGED <<temporal, order, clock, shop, notice, seen, effects, worker>>

-----------------------------------------------------------------------------
(* The reconciliation worker. *)

\* LIMIT n: all rows, or any n of them (ORDER BY says which; that is left open).
Limited(rows, n) ==
    IF Cardinality(rows) <= n THEN {rows} ELSE {found \in SUBSET rows : Cardinality(found) = n}

\* Paid topups that no wallet_transaction refers to.
Orphans == {o \in Orders : order[o].status = "paid" /\ order[o].type = "topup" /\ credits[o] = 0}

\* Mutant: the age limit of the provider check applied here as well.
ExpireOldPendingOrders(w) ==
    /\ worker[w].pc = "idle"
    /\ worker' = [worker EXCEPT ![w].pc = "check"]
    /\ order' = [o \in Orders |->
          IF o \in aged \cap stale /\ order[o].status = "pending"
            THEN [order[o] EXCEPT !.status = "expired"] ELSE order[o]]
    /\ UNCHANGED <<temporal, clock, shop, notice, seen, proc, effects, issues>>

ExpireStalePendingOrders(w) ==
    /\ worker[w].pc = "idle"
    /\ worker' = [worker EXCEPT ![w].pc = "check"]
    /\ order' = [o \in Orders |-> IF o \in aged /\ order[o].status = "pending"
                                    THEN [order[o] EXCEPT !.status = "expired"] ELSE order[o]]
    /\ UNCHANGED <<temporal, clock, shop, notice, seen, proc, effects, issues>>

\* Mutant: the wrong order type in the query.
CheckPaidSubscriptions(w) ==
    /\ worker[w].pc = "check"
    /\ worker' = [worker EXCEPT ![w] = [pc |-> "report",
          todo |-> {o \in Orders : /\ order[o].status = "paid"
                                   /\ order[o].type = "subscription"
                                   /\ credits[o] = 0}]]
    /\ UNCHANGED <<temporal, order, clock, shop, notice, seen, proc, effects, issues>>

\* FindPaidTopupOrdersWithoutCredit ...
CheckPaidOrdersIntegrity(w) ==
    /\ worker[w].pc = "check"
    /\ \E found \in Limited(Orphans, MaxOrphans) :
          worker' = [worker EXCEPT ![w] = [pc |-> "report", todo |-> found]]
    /\ UNCHANGED <<temporal, order, clock, shop, notice, seen, proc, effects, issues>>

\* ... and an issue for each order found, unless one is open.
CreateReconciliationIssue(w, o) ==
    /\ worker[w].pc = "report"
    /\ o \in worker[w].todo
    /\ worker' = [worker EXCEPT ![w].todo = @ \ {o}]
    /\ issues' = issues \cup {<<"missing_credit", o>>}
    /\ UNCHANGED <<temporal, order, clock, shop, notice, seen, proc, effects>>

\* FindStalePendingOrders ...
VerifyStalePendingOrders(w) ==
    /\ worker[w].pc = "report"
    /\ worker[w].todo = {}
    /\ \E found \in Limited({o \in stale : order[o].status = "pending"}, MaxStale) :
          worker' = [worker EXCEPT ![w] = [pc |-> "verify", todo |-> found]]
    /\ UNCHANGED <<temporal, order, clock, shop, notice, seen, proc, effects, issues>>

\* ... and the provider is asked about each order found, one after the other.
QueryProviderOrder(w, o) ==
    /\ worker[w].pc = "verify"
    /\ o \in worker[w].todo
    /\ proc[w].pc = "idle"
    /\ worker' = [worker EXCEPT ![w].todo = @ \ {o}]
    /\ proc' = IF order[o].method \in Queryable /\ o \in settled
                 THEN [proc EXCEPT ![w] = [pc |-> "mark", order |-> o, tries |-> 0]]
                 ELSE proc
    /\ UNCHANGED <<temporal, order, clock, shop, notice, seen, effects, issues>>

EndTick(w) ==
    /\ worker[w].pc = "verify"
    /\ worker[w].todo = {}
    /\ proc[w].pc = "idle"
    /\ worker' = [worker EXCEPT ![w].pc = "idle"]
    /\ UNCHANGED <<temporal, order, clock, shop, notice, seen, proc, effects, issues>>

\* One statement of the tick fails: the row, or the rest of the step, is skipped.
TickStepFails(w) ==
    /\ \/ worker[w].pc = "idle" /\ worker' = [worker EXCEPT ![w].pc = "check"]
       \/ worker[w].pc = "check" /\ worker' = [worker EXCEPT ![w].pc = "report"]
       \/ /\ worker[w].pc \in {"report", "verify"} /\ proc[w].pc = "idle"
          /\ \E o \in worker[w].todo : worker' = [worker EXCEPT ![w].todo = @ \ {o}]
       \/ /\ worker[w].pc = "report" /\ worker[w].todo = {}
          /\ worker' = [worker EXCEPT ![w].pc = "verify"]
    /\ UNCHANGED <<temporal, order, clock, shop, notice, seen, proc, effects, issues>>

\* The pod dies; the next one starts with a tick.
WorkerCrash(w) ==
    /\ worker[w].pc # "idle"
    /\ worker' = [worker EXCEPT ![w] = [pc |-> "idle", todo |-> {}]]
    /\ proc' = [proc EXCEPT ![w] = Idle]
    /\ UNCHANGED <<temporal, order, clock, shop, notice, seen, effects, issues>>

\* An administrator closes an issue, as resolved or ignored.
ResolveReconciliationIssue(i) ==
    /\ i \in issues
    /\ issues' = issues \ {i}
    /\ UNCHANGED <<temporal, order, clock, shop, notice, seen, proc, effects, worker>>

-----------------------------------------------------------------------------
OrderStale(o) ==
    /\ order[o].status # "none" /\ o \notin stale
    /\ stale' = stale \cup {o}
    /\ UNCHANGED <<temporal, order, aged, shop, notice, seen, proc, effects, worker, issues>>

OrderAged(o) ==
    /\ order[o].status # "none" /\ o \notin aged
    /\ aged' = aged \cup {o}
    /\ UNCHANGED <<temporal, order, stale, shop, notice, seen, proc, effects, worker, issues>>

RequestStep(r) ==
    \/ \E o \in Orders, m \in Methods :
          CreateTopup(r, o, m) \/ CreateSubscriptionOrder(r, o, m) \/ CreateCheckoutSession(r, o, m)
    \/ \E k \in Keys \cup {NoKey} : FindPendingOrder(r, k)
    \/ \E saves \in BOOLEAN : UpdatePaymentOrder(r, saves)
    \/ CheckoutFails(r)

HandlerStep(h) ==
    \/ \E o \in Orders : StripeWebhook(h, o) \/ WorldFirstNotify(h, o) \/ EpayNotify(h, o)
    \/ ProcessOrderPaid(h)
    \/ HandlerFails(h)

ProcStep(p) == MarkPaymentOrderPaid(p) \/ Topup(p) \/ Activate(p) \/ Answer(p)

OrderStep(o) ==
    \/ ProviderPaid(o) \/ AcknowledgeDuplicate(o) \/ SeenExpires(o)
    \/ OrderStale(o) \/ OrderAged(o)
    \/ ActivityFails(o)

WorkerStep(w) ==
    \/ ExpireStalePendingOrders(w)
    \/ CheckPaidOrdersIntegrity(w)
    \/ \E o \in Orders : CreateReconciliationIssue(w, o)
    \/ VerifyStalePendingOrders(w)
    \/ \E o \in Orders : QueryProviderOrder(w, o)
    \/ EndTick(w)
    \/ RecoveryFails(w) \/ TickStepFails(w) \/ WorkerCrash(w)

Next ==
    \/ \E r \in Requests : RequestStep(r)
    \/ \E h \in Handlers : HandlerStep(h)
    \/ \E p \in Procs : ProcStep(p)
    \/ \E o \in Orders : OrderStep(o)
    \/ \E w \in Workers : WorkerStep(w)
    \/ \E i \in Issues : ResolveReconciliationIssue(i)

Spec == Init /\ [][Next]_vars

\* The ticker fires for ever, a crashed worker is restarted, and no statement
\* of the tick fails on every attempt.  Nothing is assumed of the provider, of
\* payers, of handlers or of checkouts.
Fairness ==
    \A w \in Workers :
        /\ SF_vars(ExpireStalePendingOrders(w))
        /\ SF_vars(CheckPaidOrdersIntegrity(w))
        /\ \A o \in Orders : SF_vars(CreateReconciliationIssue(w, o))
        /\ WF_vars(VerifyStalePendingOrders(w))
        /\ \A o \in Orders : WF_vars(QueryProviderOrder(w, o))
        /\ WF_vars(ProcStep(w) \/ RecoveryFails(w))
        /\ WF_vars(EndTick(w))

FairSpec == Spec /\ Fairness

-----------------------------------------------------------------------------
(* Properties. *)

TypeOK ==
    /\ temporal \in BOOLEAN
    /\ order \in [Orders -> OrderRow]
    /\ aged \subseteq Orders /\ stale \subseteq Orders
    /\ request \in [Requests -> RequestState]
    /\ offered \subseteq Orders /\ settled \subseteq Orders
    /\ notice \subseteq Orders /\ seen \subseteq Orders
    /\ proc \in [Procs -> ProcState]
    /\ credits \in [Orders -> Nat]
    /\ activated \subseteq Orders
    /\ worker \in [Workers -> WorkerState]
    /\ issues \subseteq Issues

\* Nothing is given away: an order is marked paid, credited to the wallet or
\* turned into a subscription only after the provider took the money, whichever
\* of webhook, workflow and worker processes it.
NothingForFree ==
    \A o \in Orders : (order[o].status = "paid" \/ credits[o] > 0 \/ o \in activated)
                         => o \in settled

\* A payment is credited at most once, although a checkout that saves its copy
\* of the row makes a paid order pending again and the next notification moves
\* it a second time.
CreditedOnce == \A o \in Orders : credits[o] <= 1

\* Two checkouts that race with the same idempotency key do not get two orders.
OneOrderPerKey ==
    \A o, p \in Orders :
        (o # p /\ order[o].status # "none" /\ order[p].status # "none" /\ order[o].key # NoKey)
            => order[o].key # order[p].key

\* Migration 014 puts the index on "only non-null values", and the tests create
\* several orders without a key: such an order is never kept out by another one.
KeylessUnconstrained ==
    \A r \in Requests, o \in Orders, m \in Methods :
        request[r].pc = "idle" /\ order[o].status = "none" => ENABLED CreateTopup(r, o, m)

\* A paid topup without its credit does not go unnoticed: the worker opens an
\* issue for it, unless the credit arrives, the order leaves "paid", or there are
\* more such orders than the query returns (with as many newer ones an older one
\* is never looked at).
OrphanReported ==
    \A o \in Orders :
        (o \in Orphans /\ Cardinality(Orphans) <= MaxOrphans)
            ~> \/ o \notin Orphans
               \/ Cardinality(Orphans) > MaxOrphans
               \/ <<"missing_credit", o>> \in issues

\* An order past its deadline does not stay pending, whatever checkouts do to it.
AgedOrderEnds ==
    \A o \in Orders : (o \in aged) ~> (order[o].status # "pending")
=============================================================================
