------------------------------- MODULE Refund -------------------------------
(***************************************************************************)
(* Refunds of paid orders: requests by customers, reviews by               *)
(* administrators, the wallet credit and the events it leaves in the       *)
(* outbox.                                                                 *)
(*                                                                         *)
(* RequestRefund checks and then inserts; Approve and Reject read the      *)
(* refund, then move it with a conditional UPDATE; Approve goes on with    *)
(* the credit and MarkCompleted, each a transaction of its own.  Any       *)
(* number of these calls run at the same time and each may die between     *)
(* two of its steps.                                                       *)
(***************************************************************************)
EXTENDS Integers, FiniteSets

CONSTANTS
    Orders,      \* orders that were paid
    Subs,        \* those of them that bought a subscription, all to one product
    NoOrder,
    Refunds,     \* refund numbers
    NoRefund,
    Customers,   \* concurrent RequestRefund calls
    Reviewers    \* concurrent Approve and Reject calls

ASSUME RefundAssumption ==
    /\ Subs \subseteq Orders
    /\ NoOrder \notin Orders
    /\ NoRefund \notin Refunds

VARIABLES
    closed,     \* orders older than refundWindowDays
    refund,     \* billing.refunds
    customer,   \* per RequestRefund call: the order it found refundable
    reviewer,   \* per review: its next step and its refund
    credits,    \* ledger rows (refund, refund, refund_no) of each refund
    started,    \* orders whose subscription was activated
    live,       \* the order whose subscription GetActive finds
    cancelled,  \* per subscription: the refund that cancelled it
    outbox      \* events written for the relay

subscription == <<started, live, cancelled>>
effects == <<credits, subscription, outbox>>
vars == <<closed, refund, customer, reviewer, effects>>

RefundStatus == {"none", "pending", "approved", "rejected", "completed"}
RefundRow == [status : RefundStatus, order : Orders \cup {NoOrder}]
Review == [pc : {"idle", "approve", "reject", "credit", "complete", "cancel", "publish"},
           refund : Refunds \cup {NoRefund}]
Idle == [pc |-> "idle", refund |-> NoRefund]
Events == {"credit_retry", "completed"} \X Refunds

Init ==
    /\ closed = {}
    /\ refund = [r \in Refunds |-> [status |-> "none", order |-> NoOrder]]
    /\ customer = [c \in Customers |-> NoOrder]
    /\ reviewer = [v \in Reviewers |-> Idle]
    /\ credits = [r \in Refunds |-> 0]
    /\ started = {} /\ live = NoOrder
    /\ cancelled = [o \in Subs |-> NoRefund]
    /\ outbox = {}

-----------------------------------------------------------------------------
(* The subscriptions of the account to the product (module Subscription). *)

\* Activate: the new subscription takes the place of the live one.
Activate(o) ==
    /\ o \in Subs \ started
    /\ started' = started \cup {o}
    /\ live' = o
    /\ UNCHANGED <<closed, refund, customer, reviewer, credits, cancelled, outbox>>

\* The live subscription expires, or its owner cancels it.
SubscriptionEnds ==
    /\ live # NoOrder
    /\ live' = NoOrder
    /\ UNCHANGED <<closed, refund, customer, reviewer, credits, started, cancelled, outbox>>

-----------------------------------------------------------------------------
(* RequestRefund. *)

WindowCloses(o) ==
    /\ o \notin closed
    /\ closed' = closed \cup {o}
    /\ UNCHANGED <<refund, customer, reviewer, effects>>

\* GetPendingByOrderNo finds a refund that is pending or approved.
InFlight(o) == {r \in Refunds : refund[r].order = o /\ refund[r].status \in {"pending", "approved"}}

\* The order is paid, inside the window, and has no refund in flight ...
RequestRefund(c, o) ==
    /\ customer[c] = NoOrder
    /\ o \notin closed
    /\ InFlight(o) = {}
    /\ customer' = [customer EXCEPT ![c] = o]
    /\ UNCHANGED <<closed, refund, reviewer, effects>>

\* ... and the refund is inserted, in another statement.
CreateRefund(c, r) ==
    /\ customer[c] # NoOrder
    /\ refund[r].status = "none"
    /\ refund' = [refund EXCEPT ![r] = [status |-> "pending", order |-> customer[c]]]
    /\ customer' = [customer EXCEPT ![c] = NoOrder]
    /\ UNCHANGED <<closed, reviewer, effects>>

RequestFails(c) ==
    /\ customer[c] # NoOrder
    /\ customer' = [customer EXCEPT ![c] = NoOrder]
    /\ UNCHANGED <<closed, refund, reviewer, effects>>

-----------------------------------------------------------------------------
(* Approve and Reject. *)

\* GetByRefundNo, and the check of the status read.
ReadPendingRefund(v, r, decision) ==
    /\ reviewer[v].pc = "idle"
    /\ refund[r].status = "pending"
    /\ reviewer' = [reviewer EXCEPT ![v] = [pc |-> decision, refund |-> r]]
    /\ UNCHANGED <<closed, refund, customer, effects>>

\* Mutant: UPDATE ... WHERE refund_no = ? only.
UpdateStatusAlways(r, from, to) == refund' = [refund EXCEPT ![r].status = to]

\* The conditional UPDATE: no row matched is an error.
UpdateStatus(r, from, to) ==
    /\ refund[r].status = from
    /\ refund' = [refund EXCEPT ![r].status = to]

Approve(v) ==
    /\ reviewer[v].pc = "approve"
    /\ UpdateStatus(reviewer[v].refund, "pending", "approved")
    /\ reviewer' = [reviewer EXCEPT ![v].pc = "credit"]
    /\ UNCHANGED <<closed, customer, effects>>

Reject(v) ==
    /\ reviewer[v].pc = "reject"
    /\ UpdateStatus(reviewer[v].refund, "pending", "rejected")
    /\ reviewer' = [reviewer EXCEPT ![v] = Idle]
    /\ UNCHANGED <<closed, customer, effects>>

\* Mutant: the error of the credit is only logged.
CreditOrLog(v) ==
    LET r == reviewer[v].refund IN
    /\ reviewer[v].pc = "credit"
    /\ credits' \in {credits, [credits EXCEPT ![r] = @ + 1]}
    /\ reviewer' = [reviewer EXCEPT ![v].pc = "complete"]
    /\ UNCHANGED <<closed, refund, customer, subscription, outbox>>

\* The wallet credit; migration 020 admits one ledger row per refund.
Credit(v) ==
    LET r == reviewer[v].refund IN
    /\ reviewer[v].pc = "credit"
    /\ credits[r] = 0
    /\ credits' = [credits EXCEPT ![r] = 1]
    /\ reviewer' = [reviewer EXCEPT ![v].pc = "complete"]
    /\ UNCHANGED <<closed, refund, customer, subscription, outbox>>

\* The credit returned an error, perhaps because only the answer to its commit
\* was lost: an event is written for a retry, if the outbox takes it.
CreditFails(v) ==
    LET r == reviewer[v].refund IN
    /\ reviewer[v].pc = "credit"
    /\ credits' \in {credits, [credits EXCEPT ![r] = 1]}
    /\ outbox' \in {outbox, outbox \cup {<<"credit_retry", r>>}}
    /\ reviewer' = [reviewer EXCEPT ![v] = Idle]
    /\ UNCHANGED <<closed, refund, customer, subscription>>

\* Mutant: the status of an order.
MarkRefunded(v) ==
    /\ reviewer[v].pc = "complete"
    /\ refund' = [refund EXCEPT ![reviewer[v].refund].status = "refunded"]
    /\ reviewer' = [reviewer EXCEPT ![v].pc = "cancel"]
    /\ UNCHANGED <<closed, customer, effects>>

\* The UPDATE has no condition on the status.
MarkCompleted(v) ==
    /\ reviewer[v].pc = "complete"
    /\ refund' = [refund EXCEPT ![reviewer[v].refund].status = "completed"]
    /\ reviewer' = [reviewer EXCEPT ![v].pc = "cancel"]
    /\ UNCHANGED <<closed, customer, effects>>

\* Cancel finds the live subscription, if any, and marks it cancelled.
CancelLive(r) ==
    /\ live # NoOrder
    /\ cancelled' = [cancelled EXCEPT ![live] = r]
    /\ live' = NoOrder
    /\ UNCHANGED started

\* Mutant: cancels before it looks at the type of the order.
CancelForAnyOrder(v) ==
    /\ reviewer[v].pc = "cancel"
    /\ CancelLive(reviewer[v].refund) \/ UNCHANGED subscription
    /\ reviewer' = [reviewer EXCEPT ![v].pc = "publish"]
    /\ UNCHANGED <<closed, refund, customer, credits, outbox>>

\* For the refund of a subscription, best effort: Cancel is given the product of
\* the order, not the order.
CancelSubscription(v) ==
    LET r == reviewer[v].refund IN
    /\ reviewer[v].pc = "cancel"
    /\ (refund[r].order \in Subs /\ CancelLive(r)) \/ UNCHANGED subscription
    /\ reviewer' = [reviewer EXCEPT ![v].pc = "publish"]
    /\ UNCHANGED <<closed, refund, customer, credits, outbox>>

\* publishRefundCompleted: the outbox, or a direct publish that may fail too.
PublishRefundCompleted(v) ==
    /\ reviewer[v].pc = "publish"
    /\ outbox' \in {outbox, outbox \cup {<<"completed", reviewer[v].refund>>}}
    /\ reviewer' = [reviewer EXCEPT ![v] = Idle]
    /\ UNCHANGED <<closed, refund, customer, credits, subscription>>

\* A review ends early: the UPDATE matched no row, a statement failed, the pod died.
ReviewFails(v) ==
    /\ reviewer[v].pc # "idle"
    /\ reviewer' = [reviewer EXCEPT ![v] = Idle]
    /\ UNCHANGED <<closed, refund, customer, effects>>

-----------------------------------------------------------------------------
CustomerStep(c) ==
    \/ \E o \in Orders : RequestRefund(c, o)
    \/ \E r \in Refunds : CreateRefund(c, r)
    \/ RequestFails(c)

ReviewStep(v) ==
    \/ \E r \in Refunds, decision \in {"approve", "reject"} : ReadPendingRefund(v, r, decision)
    \/ Approve(v) \/ Reject(v)
    \/ Credit(v) \/ CreditFails(v)
    \/ MarkCompleted(v) \/ CancelSubscription(v) \/ PublishRefundCompleted(v)
    \/ ReviewFails(v)

Next ==
    \/ \E o \in Orders : WindowCloses(o) \/ Activate(o)
    \/ SubscriptionEnds
    \/ \E c \in Customers : CustomerStep(c)
    \/ \E v \in Reviewers : ReviewStep(v)

Spec == Init /\ [][Next]_vars

-----------------------------------------------------------------------------
(* Properties. *)

TypeOK ==
    /\ closed \subseteq Orders
    /\ refund \in [Refunds -> RefundRow]
    /\ customer \in [Customers -> Orders \cup {NoOrder}]
    /\ reviewer \in [Reviewers -> Review]
    /\ credits \in [Refunds -> Nat]
    /\ started \subseteq Subs /\ live \in Subs \cup {NoOrder}
    /\ cancelled \in [Subs -> Refunds \cup {NoRefund}]
    /\ outbox \subseteq Events

\* Money goes to the customer for an approved refund only, once, and a refund
\* reads completed only when the money has arrived: two reviewers who approve
\* and reject at the same time cannot pay a rejected refund or pay twice.
CreditMatchesDecision ==
    \A r \in Refunds :
        /\ credits[r] <= 1
        /\ credits[r] = 1 => refund[r].status \in {"approved", "completed"}
        /\ refund[r].status = "completed" => credits[r] = 1

\* A refund takes at most one subscription away, and only after it was completed
\* and if it is the refund of a subscription, however many reviews run.
OneCancelPerRefund ==
    \A o \in Subs : cancelled[o] # NoRefund =>
        /\ refund[cancelled[o]].status = "completed" /\ refund[cancelled[o]].order \in Subs
        /\ \A p \in Subs : cancelled[p] = cancelled[o] => p = o

\* A decision is final: rejected and completed refunds never change, and an
\* approved one only becomes completed.
DecisionFinal ==
    [][\A r \in Refunds :
          /\ refund[r].status \in {"rejected", "completed"} => refund'[r] = refund[r]
          /\ refund[r].status = "approved" => refund'[r].status \in {"approved", "completed"}]_vars

\* RequestRefund: "No pending or approved refund may exist for the same order"
\* when a refund is created, so no order has two.
OneRefundInFlight == \A o \in Orders : Cardinality(InFlight(o)) <= 1

\* Approve: "If the refunded order was a subscription, cancel it".  What a refund
\* cancels is what the refunded order bought.
CancelledIsRefunded ==
    \A o \in Subs : cancelled[o] # NoRefund => refund[cancelled[o]].order = o
=============================================================================
