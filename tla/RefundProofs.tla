---------------------------- MODULE RefundProofs ----------------------------
(***************************************************************************)
(* Proofs of the safety properties of module Refund, for every number of   *)
(* orders, refunds and concurrent calls.                                   *)
(*                                                                         *)
(* The properties are not inductive: MarkCompleted has no condition on the *)
(* status and the credit trusts the review's earlier UPDATE.  What makes   *)
(* them true is OneDecider: the conditional UPDATE of UpdateStatus lets at *)
(* most one review per refund go past it, and where that review stands     *)
(* says which status and credit the refund has (Progress).                 *)
(***************************************************************************)
EXTENDS Refund, TLAPS

\* The steps of Approve after its conditional UPDATE.
Past == {"credit", "complete", "cancel", "publish"}

\* A running review has a refund.
ReviewOwned == \A v \in Reviewers : reviewer[v].pc # "idle" => reviewer[v].refund \in Refunds

\* At most one review of a refund is past the conditional UPDATE.
OneDecider ==
    \A v, w \in Reviewers :
        reviewer[v].pc \in Past /\ reviewer[w].pc \in Past
            /\ reviewer[v].refund = reviewer[w].refund => v = w

\* What the position of that review says about its refund.
Progress ==
    \A v \in Reviewers :
        /\ reviewer[v].pc = "credit" =>
              /\ refund[reviewer[v].refund].status = "approved"
              /\ credits[reviewer[v].refund] = 0
        /\ reviewer[v].pc = "complete" =>
              /\ refund[reviewer[v].refund].status = "approved"
              /\ credits[reviewer[v].refund] = 1
        /\ reviewer[v].pc \in {"cancel", "publish"} =>
              /\ refund[reviewer[v].refund].status = "completed"
              /\ credits[reviewer[v].refund] = 1

\* A review that comes to the cancellation has cancelled nothing yet.
NotYet ==
    \A v \in Reviewers : reviewer[v].pc = "cancel" =>
        \A o \in Subs : cancelled[o] # reviewer[v].refund

ReviewInv == TypeOK /\ ReviewOwned /\ OneDecider /\ Progress

RefundInv ==
    /\ ReviewInv /\ NotYet
    /\ CreditMatchesDecision /\ OneCancelPerRefund

\* The initial state satisfies the invariant.
LEMMA RefundInit == Init => RefundInv
<1> SUFFICES ASSUME Init PROVE RefundInv
  OBVIOUS
<1> USE RefundAssumption DEF Init, Idle
<1>1. TypeOK
  BY DEF TypeOK, RefundRow, RefundStatus, Review, Events
<1>2. ReviewOwned /\ OneDecider /\ Progress /\ NotYet
  BY DEF ReviewOwned, OneDecider, Progress, NotYet, Past
<1>3. CreditMatchesDecision /\ OneCancelPerRefund
  BY DEF CreditMatchesDecision, OneCancelPerRefund
<1> QED BY <1>1, <1>2, <1>3 DEF RefundInv, ReviewInv

\* The steps that leave refunds, reviews, credits and cancellations alone.
CustomerOnly ==
    \/ \E o \in Orders : WindowCloses(o) \/ Activate(o)
    \/ SubscriptionEnds
    \/ \E c \in Customers : (\E o \in Orders : RequestRefund(c, o)) \/ RequestFails(c)

\* The steps of Next by what they touch.
LEMMA RefundCases ==
    ASSUME [Next]_vars
    PROVE  \/ CustomerOnly
           \/ \E c \in Customers, r \in Refunds : CreateRefund(c, r)
           \/ \E v \in Reviewers : ReviewStep(v)
           \/ UNCHANGED vars
BY DEF Next, CustomerStep, CustomerOnly

\* Every step keeps the types.
LEMMA RefundTypeStep == TypeOK /\ ReviewOwned /\ [Next]_vars => TypeOK' /\ ReviewOwned'
<1> SUFFICES ASSUME TypeOK, ReviewOwned, [Next]_vars PROVE TypeOK' /\ ReviewOwned'
  OBVIOUS
<1> USE RefundAssumption DEF TypeOK, ReviewOwned, effects, subscription
<1>1. CASE CustomerOnly
  BY <1>1 DEF CustomerOnly, WindowCloses, Activate, SubscriptionEnds, RequestRefund, RequestFails
<1>2. ASSUME NEW c \in Customers, NEW r \in Refunds, CreateRefund(c, r)
      PROVE  TypeOK' /\ ReviewOwned'
  BY <1>2 DEF CreateRefund, RefundRow, RefundStatus
<1>3. ASSUME NEW v \in Reviewers, ReviewStep(v) PROVE TypeOK' /\ ReviewOwned'
  <2> USE DEF Review, Idle
  <2> DEFINE r == reviewer[v].refund
  <2>1. CASE \E s \in Refunds, decision \in {"approve", "reject"} : ReadPendingRefund(v, s, decision)
    BY <2>1 DEF ReadPendingRefund
  <2>2. CASE Approve(v)
    BY <2>2 DEF Approve, UpdateStatus, RefundRow, RefundStatus
  <2>3. CASE Reject(v)
    BY <2>3 DEF Reject, UpdateStatus, RefundRow, RefundStatus
  <2>4. CASE Credit(v)
    BY <2>4 DEF Credit
  <2>5. CASE CreditFails(v)
    BY <2>5 DEF CreditFails, Events
  <2>6. CASE MarkCompleted(v)
    BY <2>6 DEF MarkCompleted, RefundRow, RefundStatus
  <2>7. CASE CancelSubscription(v)
    BY <2>7 DEF CancelSubscription, CancelLive
  <2>8. CASE PublishRefundCompleted(v)
    BY <2>8 DEF PublishRefundCompleted, Events
  <2>9. CASE ReviewFails(v)
    BY <2>9 DEF ReviewFails
  <2> QED BY <1>3, <2>1, <2>2, <2>3, <2>4, <2>5, <2>6, <2>7, <2>8, <2>9 DEF ReviewStep
<1>4. CASE UNCHANGED vars
  BY <1>4 DEF vars
<1> QED BY <1>1, <1>2, <1>3, <1>4, RefundCases

\* Every step of Approve and Reject keeps the invariant.  The steps after the
\* conditional UPDATE rest on OneDecider: no other review of the refund is there.
LEMMA ReviewPreserved ==
    ASSUME RefundInv, TypeOK', ReviewOwned', NEW v \in Reviewers, ReviewStep(v)
    PROVE  RefundInv'
<1> USE RefundAssumption DEF effects, subscription, Idle
<1> DEFINE r == reviewer[v].refund
<1>0. /\ TypeOK /\ ReviewOwned /\ OneDecider /\ Progress /\ NotYet
      /\ CreditMatchesDecision /\ OneCancelPerRefund
  BY DEF RefundInv, ReviewInv
<1>t. /\ refund \in [Refunds -> RefundRow] /\ credits \in [Refunds -> Nat]
      /\ reviewer \in [Reviewers -> Review]
      /\ reviewer[v].pc # "idle" => r \in Refunds
  BY <1>0 DEF TypeOK, ReviewOwned
<1>1. CASE \E s \in Refunds, decision \in {"approve", "reject"} : ReadPendingRefund(v, s, decision)
  <2>1. OneDecider' /\ Progress'
    BY <1>0, <1>t, <1>1 DEF ReadPendingRefund, OneDecider, Progress, Past, Review, RefundRow
  <2>2. NotYet'
    BY <1>0, <1>t, <1>1 DEF ReadPendingRefund, NotYet, OneCancelPerRefund, TypeOK, Progress, OneDecider, Past, Review, RefundRow
  <2>3. CreditMatchesDecision'
    BY <1>0, <1>t, <1>1 DEF ReadPendingRefund, CreditMatchesDecision, Progress, Review, RefundRow
  <2>4. OneCancelPerRefund'
    BY <1>0, <1>t, <1>1 DEF ReadPendingRefund, OneCancelPerRefund, Progress, Review, RefundRow
  <2> QED BY <2>1, <2>2, <2>3, <2>4 DEF RefundInv, ReviewInv
<1>2. CASE Approve(v)
  <2>0. credits[r] = 0
    BY <1>0, <1>t, <1>2 DEF Approve, UpdateStatus, CreditMatchesDecision
  <2>1. OneDecider' /\ Progress'
    <3>1. OneDecider'
      BY <1>0, <1>t, <1>2 DEF Approve, UpdateStatus, OneDecider, Progress, Past, Review
    <3>2. Progress'
      BY <1>0, <1>t, <1>2, <2>0 DEF Approve, UpdateStatus, Progress, Past, Review, RefundRow
    <3> QED BY <3>1, <3>2
  <2>2. NotYet'
    BY <1>0, <1>t, <1>2 DEF Approve, UpdateStatus, NotYet, OneCancelPerRefund, TypeOK, Progress, OneDecider, Past, Review, RefundRow
  <2>3. CreditMatchesDecision'
    BY <1>0, <1>t, <1>2 DEF Approve, UpdateStatus, CreditMatchesDecision, Progress, Review, RefundRow
  <2>4. OneCancelPerRefund'
    BY <1>0, <1>t, <1>2 DEF Approve, UpdateStatus, OneCancelPerRefund, Progress, Review, RefundRow
  <2> QED BY <2>1, <2>2, <2>3, <2>4 DEF RefundInv, ReviewInv
<1>3. CASE Reject(v)
  <2>1. OneDecider' /\ Progress'
    BY <1>0, <1>t, <1>3 DEF Reject, UpdateStatus, OneDecider, Progress, Past, Review, RefundRow
  <2>2. NotYet'
    BY <1>0, <1>t, <1>3 DEF Reject, UpdateStatus, NotYet, OneCancelPerRefund, TypeOK, Progress, OneDecider, Past, Review, RefundRow
  <2>3. CreditMatchesDecision'
    BY <1>0, <1>t, <1>3 DEF Reject, UpdateStatus, CreditMatchesDecision, Progress, Review, RefundRow
  <2>4. OneCancelPerRefund'
    BY <1>0, <1>t, <1>3 DEF Reject, UpdateStatus, OneCancelPerRefund, Progress, Review, RefundRow
  <2> QED BY <2>1, <2>2, <2>3, <2>4 DEF RefundInv, ReviewInv
<1>4. CASE Credit(v)
  <2>1. OneDecider' /\ Progress'
    BY <1>0, <1>t, <1>4 DEF Credit, OneDecider, Progress, Past, Review, RefundRow
  <2>2. NotYet'
    BY <1>0, <1>t, <1>4 DEF Credit, NotYet, OneCancelPerRefund, TypeOK, Progress, OneDecider, Past, Review, RefundRow
  <2>3. CreditMatchesDecision'
    BY <1>0, <1>t, <1>4 DEF Credit, CreditMatchesDecision, Progress, Review, RefundRow
  <2>4. OneCancelPerRefund'
    BY <1>0, <1>t, <1>4 DEF Credit, OneCancelPerRefund, Progress, Review, RefundRow
  <2> QED BY <2>1, <2>2, <2>3, <2>4 DEF RefundInv, ReviewInv
<1>5. CASE CreditFails(v)
  <2>1. OneDecider' /\ Progress'
    <3>1. OneDecider'
      BY <1>0, <1>t, <1>5 DEF CreditFails, OneDecider, Past, Review
    <3>2. \A w \in Reviewers : w # v /\ reviewer[w].pc \in Past
             => reviewer'[w] = reviewer[w] /\ reviewer[w].refund # r
      BY <1>0, <1>t, <1>5 DEF CreditFails, OneDecider, Past
    <3>3. reviewer'[v].pc = "idle" /\ \A w \in Reviewers : w # v => reviewer'[w] = reviewer[w]
      BY <1>0, <1>t, <1>5 DEF CreditFails
    <3>4. refund' = refund /\ \A s \in Refunds : s # r => credits'[s] = credits[s]
      BY <1>0, <1>t, <1>5 DEF CreditFails
    <3>5. Progress'
      BY <1>0, <1>t, <3>2, <3>3, <3>4 DEF Progress, Past, ReviewOwned
    <3> QED BY <3>1, <3>5
  <2>2. NotYet'
    BY <1>0, <1>t, <1>5 DEF CreditFails, NotYet, OneCancelPerRefund, TypeOK, Progress, OneDecider, Past, Review, RefundRow
  <2>3. CreditMatchesDecision'
    BY <1>0, <1>t, <1>5 DEF CreditFails, CreditMatchesDecision, Progress, Review, RefundRow
  <2>4. OneCancelPerRefund'
    BY <1>0, <1>t, <1>5 DEF CreditFails, OneCancelPerRefund, Progress, Review, RefundRow
  <2> QED BY <2>1, <2>2, <2>3, <2>4 DEF RefundInv, ReviewInv
<1>6. CASE MarkCompleted(v)
  <2>1. OneDecider' /\ Progress'
    BY <1>0, <1>t, <1>6 DEF MarkCompleted, OneDecider, Progress, Past, Review, RefundRow
  <2>2. NotYet'
    BY <1>0, <1>t, <1>6 DEF MarkCompleted, NotYet, OneCancelPerRefund, TypeOK, Progress, OneDecider, Past, Review, RefundRow
  <2>3. CreditMatchesDecision'
    BY <1>0, <1>t, <1>6 DEF MarkCompleted, CreditMatchesDecision, Progress, Review, RefundRow
  <2>4. OneCancelPerRefund'
    BY <1>0, <1>t, <1>6 DEF MarkCompleted, OneCancelPerRefund, Progress, Review, RefundRow
  <2> QED BY <2>1, <2>2, <2>3, <2>4 DEF RefundInv, ReviewInv
<1>7. CASE CancelSubscription(v)
  <2>1. OneDecider' /\ Progress'
    BY <1>0, <1>t, <1>7 DEF CancelSubscription, CancelLive, OneDecider, Progress, Past, Review, RefundRow
  <2>2. NotYet'
    BY <1>0, <1>t, <1>7 DEF CancelSubscription, CancelLive, NotYet, OneCancelPerRefund, TypeOK, Progress, OneDecider, Past, Review, RefundRow
  <2>3. CreditMatchesDecision'
    BY <1>0, <1>t, <1>7 DEF CancelSubscription, CancelLive, CreditMatchesDecision, Progress, Review, RefundRow
  <2>4. OneCancelPerRefund'
    BY <1>0, <1>t, <1>7 DEF NotYet, TypeOK, CancelSubscription, CancelLive, OneCancelPerRefund, Progress, Review, RefundRow
  <2> QED BY <2>1, <2>2, <2>3, <2>4 DEF RefundInv, ReviewInv
<1>8. CASE PublishRefundCompleted(v)
  <2>1. OneDecider' /\ Progress'
    BY <1>0, <1>t, <1>8 DEF PublishRefundCompleted, OneDecider, Progress, Past, Review, RefundRow
  <2>2. NotYet'
    BY <1>0, <1>t, <1>8 DEF PublishRefundCompleted, NotYet, OneCancelPerRefund, TypeOK, Progress, OneDecider, Past, Review, RefundRow
  <2>3. CreditMatchesDecision'
    BY <1>0, <1>t, <1>8 DEF PublishRefundCompleted, CreditMatchesDecision, Progress, Review, RefundRow
  <2>4. OneCancelPerRefund'
    BY <1>0, <1>t, <1>8 DEF PublishRefundCompleted, OneCancelPerRefund, Progress, Review, RefundRow
  <2> QED BY <2>1, <2>2, <2>3, <2>4 DEF RefundInv, ReviewInv
<1>9. CASE ReviewFails(v)
  <2>1. OneDecider' /\ Progress'
    BY <1>0, <1>t, <1>9 DEF ReviewFails, OneDecider, Progress, Past, Review, RefundRow
  <2>2. NotYet'
    BY <1>0, <1>t, <1>9 DEF ReviewFails, NotYet, OneCancelPerRefund, TypeOK, Progress, OneDecider, Past, Review, RefundRow
  <2>3. CreditMatchesDecision'
    BY <1>0, <1>t, <1>9 DEF ReviewFails, CreditMatchesDecision, Progress, Review, RefundRow
  <2>4. OneCancelPerRefund'
    BY <1>0, <1>t, <1>9 DEF ReviewFails, OneCancelPerRefund, Progress, Review, RefundRow
  <2> QED BY <2>1, <2>2, <2>3, <2>4 DEF RefundInv, ReviewInv
<1> QED BY <1>1, <1>2, <1>3, <1>4, <1>5, <1>6, <1>7, <1>8, <1>9 DEF ReviewStep

\* A new refund has no review, no credit and no cancellation.
LEMMA CreatePreserved ==
    ASSUME RefundInv, TypeOK', ReviewOwned', NEW c \in Customers, NEW r \in Refunds,
           CreateRefund(c, r)
    PROVE  RefundInv'
<1> USE RefundAssumption DEF CreateRefund, effects, subscription
<1>0. /\ TypeOK /\ ReviewOwned /\ OneDecider /\ Progress /\ NotYet
      /\ CreditMatchesDecision /\ OneCancelPerRefund
  BY DEF RefundInv, ReviewInv
<1>1. refund \in [Refunds -> RefundRow] /\ refund[r].status = "none"
  BY <1>0 DEF TypeOK
<1>2. OneDecider' /\ Progress'
  BY <1>0, <1>1 DEF OneDecider, Progress, Past, ReviewOwned
<1>3. NotYet'
  BY <1>0, <1>1 DEF NotYet
<1>4. CreditMatchesDecision'
  BY <1>0, <1>1 DEF CreditMatchesDecision, TypeOK
<1>5. OneCancelPerRefund'
  BY <1>0, <1>1 DEF OneCancelPerRefund
<1> QED BY <1>2, <1>3, <1>4, <1>5 DEF RefundInv, ReviewInv

\* Every step keeps the invariant.
LEMMA RefundStep == RefundInv /\ [Next]_vars => RefundInv'
<1> SUFFICES ASSUME RefundInv, [Next]_vars PROVE RefundInv'
  OBVIOUS
<1>1. TypeOK' /\ ReviewOwned'
  BY RefundTypeStep DEF RefundInv, ReviewInv
<1>2. CASE CustomerOnly \/ UNCHANGED vars
  <2>1. UNCHANGED <<refund, reviewer, credits, cancelled>>
    BY <1>2 DEF CustomerOnly, WindowCloses, Activate, SubscriptionEnds, RequestRefund, RequestFails, vars, effects, subscription
  <2>2. OneDecider' /\ Progress' /\ NotYet'
    BY <2>1 DEF RefundInv, ReviewInv, OneDecider, Progress, NotYet
  <2>3. CreditMatchesDecision' /\ OneCancelPerRefund'
    BY <2>1 DEF RefundInv, CreditMatchesDecision, OneCancelPerRefund
  <2> QED BY <1>1, <2>2, <2>3 DEF RefundInv, ReviewInv
<1>3. CASE \E c \in Customers, r \in Refunds : CreateRefund(c, r)
  BY <1>1, <1>3, CreatePreserved
<1>4. CASE \E v \in Reviewers : ReviewStep(v)
  BY <1>1, <1>4, ReviewPreserved
<1> QED BY <1>2, <1>3, <1>4, RefundCases

\* The strengthened invariant holds in every reachable state.
LEMMA RefundInvariant == Spec => []RefundInv
BY RefundInit, RefundStep, PTL DEF Spec

\* Every variable of the refund service keeps to its values: no step of a
\* review, a retry or a crash leaves a refund, order or review outside its states.
THEOREM RefundTypeSafe == Spec => []TypeOK
<1>1. RefundInv => TypeOK
  BY DEF RefundInv, ReviewInv
<1> QED BY <1>1, RefundInvariant, PTL

\* A refund is paid at most once, never when it was rejected, and it reads
\* completed only when it was paid, for any number of concurrent reviewers.
THEOREM RefundPaidAsDecided == Spec => []CreditMatchesDecision
<1>1. RefundInv => CreditMatchesDecision
  BY DEF RefundInv
<1> QED BY <1>1, RefundInvariant, PTL

\* Approve cancels at most one subscription per refund, and only for a completed
\* refund of a subscription.
THEOREM RefundCancelsOne == Spec => []OneCancelPerRefund
<1>1. RefundInv => OneCancelPerRefund
  BY DEF RefundInv
<1> QED BY <1>1, RefundInvariant, PTL

\* MarkCompleted has no condition on the status; OneDecider makes it safe.
LEMMA DecisionStep ==
    ASSUME RefundInv, [Next]_vars, NEW r \in Refunds
    PROVE  /\ refund[r].status \in {"rejected", "completed"} => refund'[r] = refund[r]
           /\ refund[r].status = "approved" => refund'[r].status \in {"approved", "completed"}
<1>0. /\ refund \in [Refunds -> RefundRow]
      /\ \A v \in Reviewers : reviewer[v].pc = "complete"
            => refund[reviewer[v].refund].status = "approved"
  BY DEF RefundInv, ReviewInv, TypeOK, Progress
<1>1. CASE CustomerOnly \/ UNCHANGED vars
  <2>1. UNCHANGED refund
    BY <1>1 DEF CustomerOnly, WindowCloses, Activate, SubscriptionEnds, RequestRefund, RequestFails, vars
  <2> QED BY <2>1
<1>2. CASE \E c \in Customers, s \in Refunds : CreateRefund(c, s)
  BY <1>0, <1>2 DEF CreateRefund
<1>3. ASSUME NEW v \in Reviewers, ReviewStep(v)
      PROVE  /\ refund[r].status \in {"rejected", "completed"} => refund'[r] = refund[r]
             /\ refund[r].status = "approved" => refund'[r].status \in {"approved", "completed"}
  <2>1. CASE Approve(v) \/ Reject(v)
    BY <1>0, <2>1 DEF Approve, Reject, UpdateStatus
  <2>2. CASE MarkCompleted(v)
    BY <1>0, <2>2 DEF MarkCompleted, RefundRow
  <2>3. CASE UNCHANGED refund
    BY <2>3
  <2> QED BY <1>3, <2>1, <2>2, <2>3 DEF ReviewStep, ReadPendingRefund, Credit, CreditFails,
            CancelSubscription, PublishRefundCompleted, ReviewFails
<1> QED BY <1>1, <1>2, <1>3, RefundCases

\* A decision is final: rejected and completed refunds never change, and an
\* approved one only becomes completed.
THEOREM RefundDecisionFinal == Spec => DecisionFinal
<1>1. RefundInv /\ [Next]_vars =>
        [\A r \in Refunds :
          /\ refund[r].status \in {"rejected", "completed"} => refund'[r] = refund[r]
          /\ refund[r].status = "approved" => refund'[r].status \in {"approved", "completed"}]_vars
  BY DecisionStep
<1> QED BY <1>1, RefundInvariant, PTL DEF Spec, DecisionFinal
=============================================================================
