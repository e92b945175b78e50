---------------------------- MODULE Subscription ----------------------------
(***************************************************************************)
(* The subscriptions of one account to one product: rows, entitlements and *)
(* their cache, wallet checkouts, the renewal saga, the lifecycle workflow *)
(* and the hourly expiry scanner that starts it.                           *)
(*                                                                         *)
(* Every statement of SubscriptionService is a step of its own: rows are   *)
(* read and saved whole, and what keeps concurrent calls apart is the      *)
(* unique index on live rows and the unique reference of the ledger.       *)
(* Retries that change nothing are one step; the attempts of Activate are  *)
(* counted.  Left out: plans, prices, reminders and events.                *)
(***************************************************************************)
EXTENDS Integers, FiniteSets

CONSTANTS
    Buyers,     \* wallet checkouts
    MaxId,      \* bound: subscriptions ever created
    Aging,      \* bound: subscriptions that get as old as their expires_at
    Forever,    \* subscriptions to a forever plan, without expires_at
    MaxTries,   \* attempts of the activity Activate
    MaxFaults,  \* bound: failing statements, lost answers, deaths
    MaxScans,   \* bound: runs of the scanner
    None, Free

ASSUME SubscriptionAssumption ==
    /\ MaxId \in Nat \ {0} /\ MaxTries \in Nat \ {0} /\ MaxFaults \in Nat /\ MaxScans \in Nat
    /\ Aging \subseteq 1..MaxId /\ Forever \subseteq 1..MaxId /\ Aging \cap Forever = {}
    /\ Free # None /\ None \notin 1..MaxId /\ Free \notin 1..MaxId

VARIABLES
    subs,    \* identity.subscriptions: id -> [st, auto]
    past,    \* ids whose expires_at has passed
    lapsed,  \* ids whose grace_until has passed
    ent,     \* the subscription the entitlement rows come from, or Free
    until,   \* the subscription whose expires_at the rows carry; None: NULL
    cache,   \* the same for the cached entitlements; None: not cached
    paid,    \* ledger: debits of a payer
    back,    \* ledger: compensating credits of a payer
    pc,      \* where a process stands
    loc,     \* what it has read or been given
    tries,   \* attempts of Activate so far
    scans,   \* runs of the scanner
    hist,    \* got: payers served; unlucky, raced: what faults and races spoiled
    faults

vars == <<subs, past, lapsed, ent, until, cache, paid, back, pc, loc, tries, scans, hist, faults>>

Ids == 1..MaxId
Life(id) == <<"life", id>>
Renew(id) == <<"renew", id>>
Scan == <<"scan", 0>>
User == <<"user", 0>>
Reader == <<"reader", 0>>
Renewals == {Renew(id) : id \in Ids}
Payers == Buyers \cup Renewals
Procs == Payers \cup {Life(id) : id \in Ids} \cup {Scan, User, Reader}

\* Checkouts are not mistaken for the processes of the subscriptions.
ASSUME BuyersApart ==
    Buyers \cap (Renewals \cup {Life(id) : id \in Ids} \cup {Scan, User, Reader}) = {}

Row(st, auto) == [st |-> st, auto |-> auto]
Live == {id \in Ids : subs[id].st \in {"active", "grace"}}
Unborn == {id \in Ids : subs[id].st = "none"}

\* idx_subs_active_unique: no other live row for the account and product.
IndexFreeAlways(id) == TRUE
IndexFree(id) == Live \subseteq {id}

Go(p, to) == pc' = [pc EXCEPT ![p] = to]
Keep(p, x) == loc' = [loc EXCEPT ![p] = x]
Forget(p) == Keep(p, None)
Fault == faults < MaxFaults /\ faults' = faults + 1

\* Under way with entitlements it will write.
Writing(p) == pc[p] \in {"sync", "inval", "endsave", "reset", "endinval"}

Init ==
    /\ \E auto \in BOOLEAN :
        subs = [id \in Ids |-> IF id = 1 THEN Row("active", auto) ELSE Row("none", FALSE)]
    /\ past = {} /\ lapsed = {}
    /\ ent = 1
    /\ until = IF 1 \in Forever THEN None ELSE 1
    /\ cache = None
    /\ paid = [p \in Payers |-> 0]
    /\ back = [p \in Payers |-> 0]
    /\ pc = [p \in Procs |-> "off"]
    /\ loc = [p \in Procs |-> None]
    /\ tries = [p \in Payers |-> 0]
    /\ scans = 0
    /\ hist = [got |-> {}, unlucky |-> {}, raced |-> {}]
    /\ faults = 0

-----------------------------------------------------------------------------
(* Paying: the wallet checkout, and step 2 of the renewal.                  *)

Checkout(p) ==
    /\ p \in Buyers /\ pc[p] = "off"
    /\ Go(p, "debit")
    /\ UNCHANGED <<subs, past, lapsed, ent, until, cache, paid, back, loc, tries, scans, hist, faults>>

Pay(p) ==
    /\ pc[p] = "debit"
    /\ \/ Go(p, "failed") /\ UNCHANGED <<paid, hist, faults>>
       \/ /\ paid' = [paid EXCEPT ![p] = @ + 1]
          /\ \/ Go(p, "look") /\ UNCHANGED <<hist, faults>>
             \/ /\ Fault
                /\ Go(p, "failed")
                /\ hist' = [hist EXCEPT !.unlucky = @ \cup {p}]
    /\ tries' = [tries EXCEPT ![p] = 0]
    /\ UNCHANGED <<subs, past, lapsed, ent, until, cache, back, loc, scans>>

\* Mutant of Debit: the reference of a renewal is not unique.
DebitAnew(p) == Pay(p)

\* The wallet may refuse.  A renewal names its subscription in the reference,
\* which the ledger admits once; a checkout has none.  An answer that is lost
\* is a failure to the caller: the retry is refused.
Debit(p) ==
    IF p \in Renewals /\ paid[p] > 0
    THEN /\ pc[p] = "debit"
         /\ Go(p, "failed")
         /\ UNCHANGED <<subs, past, lapsed, ent, until, cache, paid, back, loc, tries, scans, hist, faults>>
    ELSE Pay(p)

-----------------------------------------------------------------------------
(* SubscriptionService.Activate.                                            *)

GetActive(p) ==
    /\ pc[p] = "look"
    /\ IF Live = {} THEN Go(p, "create") /\ UNCHANGED loc
       ELSE \E id \in Live : Go(p, "expireold") /\ Keep(p, id)
    /\ UNCHANGED <<subs, past, lapsed, ent, until, cache, paid, back, tries, scans, hist, faults>>

ExpireOld(p) ==
    /\ pc[p] = "expireold"
    /\ subs' = [subs EXCEPT ![loc[p]].st = "expired"]
    /\ Go(p, "create")
    /\ UNCHANGED <<past, lapsed, ent, until, cache, paid, back, loc, tries, scans, hist, faults>>

\* Mutant of ActivateFails: the error is returned without compensation.
ActivateFailsForGood(p) ==
    /\ Go(p, "failed")
    /\ UNCHANGED tries

\* A checkout compensates at once, a renewal when its attempts are used up.
ActivateFails(p) ==
    IF p \in Buyers \/ tries[p] + 1 >= MaxTries
    THEN Go(p, "credit") /\ UNCHANGED tries
    ELSE Go(p, "look") /\ tries' = [tries EXCEPT ![p] = @ + 1]

\* A checkout may buy any plan; what has expired, and is renewed, has none that
\* lasts forever.
NewId(p) ==
    {i \in Unborn : /\ i \in Forever => p \in Buyers
                    /\ \A j \in Unborn : (i \in Forever <=> j \in Forever) => i <= j}

Create(p) ==
    /\ pc[p] = "create"
    /\ \E id \in NewId(p) :
       IF IndexFree(id)
       THEN /\ subs' = [subs EXCEPT ![id] = Row("active", FALSE)]
            /\ Keep(p, id)
            /\ Go(p, "sync")
            /\ hist' = IF \E q \in Procs \ {p} : Writing(q) THEN [hist EXCEPT !.raced = @ \cup {id}] ELSE hist
            /\ UNCHANGED tries
       ELSE ActivateFails(p) /\ UNCHANGED <<subs, loc, hist>>
    /\ UNCHANGED <<past, lapsed, ent, until, cache, paid, back, scans, faults>>

\* Mutant of SyncFromSubscription: the expiry of existing rows is not updated.
SyncKeepsExpiry(p) ==
    /\ pc[p] = "sync"
    /\ ent' = loc[p]
    /\ Go(p, "inval")
    /\ UNCHANGED <<subs, past, lapsed, until, cache, paid, back, loc, tries, scans, hist, faults>>

\* SyncFromSubscription: the rows, then the cache.  The update of a row leaves
\* out what is nil: a forever plan keeps the expiry the rows had.
SyncFromSubscription(p) ==
    /\ pc[p] = "sync"
    /\ ent' = loc[p]
    /\ until' = IF loc[p] \in Forever THEN until ELSE loc[p]
    /\ Go(p, "inval")
    /\ UNCHANGED <<subs, past, lapsed, cache, paid, back, loc, tries, scans, hist, faults>>

\* A reader that has read the old rows may still cache them.
Invalidate(p) ==
    /\ pc[p] = "inval"
    /\ cache' = None
    /\ Go(p, "done")
    /\ hist' = [hist EXCEPT !.got = hist.got \cup {p},
                            !.raced = hist.raced \cup (IF pc[Reader] = "set" THEN {loc[p]} ELSE {})]
    /\ Forget(p)
    /\ UNCHANGED <<subs, past, lapsed, ent, until, paid, back, tries, scans, faults>>

\* An error of either is only logged: the subscription counts as activated.
SyncFails(p) ==
    /\ Fault
    /\ pc[p] \in {"sync", "inval"}
    /\ Go(p, "done")
    /\ hist' = [hist EXCEPT !.got = hist.got \cup {p}, !.raced = hist.raced \cup {loc[p]}]
    /\ Forget(p)
    /\ UNCHANGED <<subs, past, lapsed, ent, until, cache, paid, back, tries, scans>>

\* A statement fails, or the activity of a renewal runs into its timeout when
\* the row has been created.
ActivateBreaks(p) ==
    /\ Fault
    /\ pc[p] \in {"look", "expireold", "create"} \cup (IF p \in Renewals THEN {"sync", "inval"} ELSE {})
    /\ ActivateFails(p)
    /\ hist' = IF pc[p] \in {"sync", "inval"}
               THEN [hist EXCEPT !.raced = hist.raced \cup {loc[p]},
                                 !.unlucky = hist.unlucky \cup (IF tries[p] + 1 >= MaxTries THEN {p} ELSE {})]
               ELSE hist
    /\ UNCHANGED <<subs, past, lapsed, ent, until, cache, paid, back, loc, scans>>

\* The compensation, and its failure, which is only logged.
Credit(p) ==
    /\ pc[p] = "credit"
    /\ Go(p, "failed")
    /\ \/ back' = [back EXCEPT ![p] = @ + 1] /\ UNCHANGED <<hist, faults>>
       \/ Fault /\ hist' = [hist EXCEPT !.unlucky = @ \cup {p}] /\ UNCHANGED back
    /\ Forget(p)
    /\ UNCHANGED <<subs, past, lapsed, ent, until, cache, paid, tries, scans>>

Stopped(ps) == [q \in Procs |-> IF q \in ps THEN "off" ELSE pc[q]]
Midway(ps) == {p \in ps \cap Payers : pc[p] \notin {"off", "debit", "done", "failed"}}
Unsynced(ps) == {p \in ps \cap Payers : pc[p] \in {"sync", "inval"}}
Spoiled(ps) == [hist EXCEPT !.unlucky = hist.unlucky \cup Midway(ps),
                            !.raced = hist.raced \cup {loc[p] : p \in Unsynced(ps)}]

\* The process of a checkout dies.
BuyerDies(p) ==
    /\ Fault
    /\ p \in Buyers /\ pc[p] \notin {"off", "done", "failed"}
    /\ Go(p, "failed")
    /\ Forget(p)
    /\ hist' = Spoiled({p})
    /\ UNCHANGED <<subs, past, lapsed, ent, until, cache, paid, back, tries, scans>>

-----------------------------------------------------------------------------
(* Time, the user who cancels, and the readers of entitlements.             *)

ExpiresAtPasses(id) ==
    /\ id \in Aging /\ subs[id].st # "none" /\ id \notin past
    /\ past' = past \cup {id}
    /\ UNCHANGED <<subs, lapsed, ent, until, cache, paid, back, pc, loc, tries, scans, hist, faults>>

GraceUntilPasses(id) ==
    /\ subs[id].st = "grace" /\ id \notin lapsed
    /\ lapsed' = lapsed \cup {id}
    /\ UNCHANGED <<subs, past, ent, until, cache, paid, back, pc, loc, tries, scans, hist, faults>>

Cancel ==
    /\ pc[User] = "off" /\ Live # {}
    /\ \E id \in Live : Keep(User, id)
    /\ Go(User, "save")
    /\ UNCHANGED <<subs, past, lapsed, ent, until, cache, paid, back, tries, scans, hist, faults>>

CancelSave ==
    /\ pc[User] = "save"
    /\ subs' = [subs EXCEPT ![loc[User]] = Row("cancelled", FALSE)]
    /\ Go(User, "done")
    /\ Forget(User)
    /\ UNCHANGED <<past, lapsed, ent, until, cache, paid, back, tries, scans, hist, faults>>

\* EntitlementService.Get after a miss, or when Redis does not answer: expired
\* rows are not read.
Readable == IF until \in past THEN Free ELSE ent

Refresh ==
    /\ pc[Reader] = "off"
    /\ Keep(Reader, Readable)
    /\ Go(Reader, "set")
    /\ UNCHANGED <<subs, past, lapsed, ent, until, cache, paid, back, tries, scans, hist, faults>>

CacheSet ==
    /\ pc[Reader] = "set"
    /\ cache' = loc[Reader]
    /\ Go(Reader, "off")
    /\ Forget(Reader)
    /\ UNCHANGED <<subs, past, lapsed, ent, until, paid, back, tries, scans, hist, faults>>

CacheTTL ==
    /\ cache # None
    /\ cache' = None
    /\ UNCHANGED <<subs, past, lapsed, ent, until, paid, back, pc, loc, tries, scans, hist, faults>>

-----------------------------------------------------------------------------
(* SubscriptionLifecycleWorkflow, from the expiry on.                       *)

LifeCheck(id) ==
    LET p == Life(id) IN
    /\ pc[p] = "check"
    /\ Forget(p)
    /\ Go(p, IF subs[id].st # "active" THEN "off" ELSE IF loc[p] THEN "renew" ELSE "expire")
    /\ UNCHANGED <<subs, past, lapsed, ent, until, cache, paid, back, tries, scans, hist, faults>>

LifeRenew(id) ==
    /\ pc[Life(id)] = "renew"
    /\ pc' = [pc EXCEPT ![Life(id)] = "wait", ![Renew(id)] = "debit"]
    /\ UNCHANGED <<subs, past, lapsed, ent, until, cache, paid, back, loc, tries, scans, hist, faults>>

LifeRenewed(id) ==
    /\ pc[Life(id)] = "wait" /\ pc[Renew(id)] \in {"done", "failed"}
    /\ Forget(Life(id))
    /\ Go(Life(id), IF pc[Renew(id)] = "done" THEN "off" ELSE "expire")
    /\ UNCHANGED <<subs, past, lapsed, ent, until, cache, paid, back, tries, scans, hist, faults>>

\* Expire: the row is read and saved whole, so a change in between is undone;
\* when the row would then be live beside another one, the index refuses.
ExpireRead(id) ==
    LET p == Life(id) IN
    /\ pc[p] = "expire"
    /\ IF subs[id].st = "active" THEN Go(p, "save") /\ Keep(p, subs[id].auto)
       ELSE Go(p, "off") /\ Forget(p)
    /\ UNCHANGED <<subs, past, lapsed, ent, until, cache, paid, back, tries, scans, hist, faults>>

ExpireSave(id) ==
    LET p == Life(id) IN
    /\ pc[p] = "save"
    /\ IF IndexFree(id) THEN subs' = [subs EXCEPT ![id] = Row("grace", loc[p])] /\ Go(p, "sleep")
       ELSE Go(p, "off") /\ UNCHANGED subs
    /\ Forget(p)
    /\ UNCHANGED <<past, lapsed, ent, until, cache, paid, back, tries, scans, hist, faults>>

LifeGrace(id) ==
    LET p == Life(id) IN
    /\ pc[p] = "sleep" /\ id \in lapsed
    /\ IF subs[id].st = "grace" THEN Go(p, "end") /\ Keep(p, id) ELSE Go(p, "off") /\ UNCHANGED loc
    /\ UNCHANGED <<subs, past, lapsed, ent, until, cache, paid, back, tries, scans, hist, faults>>

-----------------------------------------------------------------------------
(* EndGrace, called by the lifecycle of a subscription and by the scanner;  *)
(* loc[p] is the subscription.                                              *)

\* Mutant of EndGraceRead: the status is not checked.
EndGraceReadAny(p) ==
    /\ pc[p] = "end"
    /\ Go(p, "endsave")
    /\ UNCHANGED <<subs, past, lapsed, ent, until, cache, paid, back, loc, tries, scans, hist, faults>>

EndGraceRead(p) ==
    /\ pc[p] = "end"
    /\ Go(p, IF subs[loc[p]].st = "grace" THEN "endsave" ELSE "ended")
    /\ UNCHANGED <<subs, past, lapsed, ent, until, cache, paid, back, loc, tries, scans, hist, faults>>

EndGraceSave(p) ==
    /\ pc[p] = "endsave"
    /\ subs' = [subs EXCEPT ![loc[p]].st = "expired"]
    /\ Go(p, "reset")
    /\ UNCHANGED <<past, lapsed, ent, until, cache, paid, back, loc, tries, scans, hist, faults>>

\* ResetToFree does not ask whose entitlements it deletes.
ResetToFree(p) ==
    /\ pc[p] = "reset"
    /\ ent' = Free
    /\ until' = None
    /\ Go(p, "endinval")
    /\ UNCHANGED <<subs, past, lapsed, cache, paid, back, loc, tries, scans, hist, faults>>

ResetInvalidate(p) ==
    /\ pc[p] = "endinval"
    /\ cache' = None
    /\ Go(p, "ended")
    /\ UNCHANGED <<subs, past, lapsed, ent, until, paid, back, loc, tries, scans, hist, faults>>

\* The attempts of an activity fail: the status is not read, Expire or EndGrace
\* is not done, or it is done, its answer is lost and the retry refused (which
\* leaves Expire at "sleep").  An error of the cache is ignored.
ActivityFails(p) ==
    /\ Fault
    /\ \/ p # Scan /\ pc[p] \in {"check", "expire", "save", "sleep"} /\ Go(p, "off") /\ Forget(p)
       \/ pc[p] \in {"end", "endsave", "reset", "endinval"} /\ Go(p, "ended") /\ UNCHANGED loc
    /\ UNCHANGED <<subs, past, lapsed, ent, until, cache, paid, back, tries, scans, hist>>

LifeEnds(id) ==
    /\ pc[Life(id)] = "ended"
    /\ Go(Life(id), "off")
    /\ Forget(Life(id))
    /\ UNCHANGED <<subs, past, lapsed, ent, until, cache, paid, back, tries, scans, hist, faults>>

-----------------------------------------------------------------------------
(* ExpiryScannerWorkflow.                                                   *)

Running(id) == pc[Life(id)] # "off"

\* A lifecycle for every active row past its expiry that has none running; none
\* when the query fails.
ScanActive ==
    \E due \in {{id \in past : subs[id].st = "active" /\ ~Running(id)}, {}} :
    /\ pc[Scan] = "off" /\ scans < MaxScans
    /\ pc' = [p \in Procs |-> IF \E id \in due : p = Life(id) THEN "check"
                              ELSE IF \E id \in due : p = Renew(id) THEN "off"
                              ELSE IF p = Scan THEN "list" ELSE pc[p]]
    /\ loc' = [p \in Procs |-> IF \E id \in due : p = Life(id) THEN subs[p[2]].auto ELSE loc[p]]
    /\ scans' = scans + 1
    /\ UNCHANGED <<subs, past, lapsed, ent, until, cache, paid, back, tries, hist, faults>>

\* One live row at most: the list of overdue grace periods has one entry, or
\* none when the query fails.
ScanGrace ==
    LET due == {id \in lapsed : subs[id].st = "grace"} IN
    /\ pc[Scan] = "list"
    /\ \/ Go(Scan, "ended") /\ UNCHANGED loc
       \/ \E id \in due : Go(Scan, "end") /\ Keep(Scan, id)
    /\ UNCHANGED <<subs, past, lapsed, ent, until, cache, paid, back, tries, scans, hist, faults>>

\* The scanner completes.  It has set no parent close policy for the children
\* it started: they are terminated where they stand, or they go on.
ScanEnds ==
    LET children == {Life(id) : id \in Ids} \cup Renewals IN
    /\ pc[Scan] = "ended"
    /\ \E ps \in {{}, children} :
        /\ pc' = [Stopped(ps) EXCEPT ![Scan] = "off"]
        /\ hist' = Spoiled(ps)
        /\ loc' = [p \in Procs |-> IF p = Scan \/ p \in ps THEN None ELSE loc[p]]
    /\ UNCHANGED <<subs, past, lapsed, ent, until, cache, paid, back, tries, scans, faults>>

-----------------------------------------------------------------------------
Activate(p) ==
    \/ GetActive(p) \/ ExpireOld(p) \/ Create(p)
    \/ SyncFromSubscription(p) \/ Invalidate(p) \/ SyncFails(p)
EndGrace(p) == EndGraceRead(p) \/ EndGraceSave(p) \/ ResetToFree(p) \/ ResetInvalidate(p)
Lifecycle(id) ==
    \/ LifeCheck(id) \/ LifeRenew(id) \/ LifeRenewed(id) \/ ExpireRead(id) \/ ExpireSave(id)
    \/ LifeGrace(id) \/ LifeEnds(id) \/ EndGrace(Life(id)) \/ ActivityFails(Life(id))

Next ==
    \/ \E p \in Payers : Checkout(p) \/ Debit(p) \/ Activate(p) \/ ActivateBreaks(p) \/ Credit(p) \/ BuyerDies(p)
    \/ \E id \in Ids : ExpiresAtPasses(id) \/ GraceUntilPasses(id) \/ Lifecycle(id)
    \/ Cancel \/ CancelSave \/ Refresh \/ CacheSet \/ CacheTTL
    \/ ScanActive \/ ScanGrace \/ ScanEnds \/ EndGrace(Scan) \/ ActivityFails(Scan)

Spec == Init /\ [][Next]_vars

-----------------------------------------------------------------------------
\* The values every variable ranges over, and the rule of the schema that at
\* most one subscription is live.
TypeOK ==
    /\ subs \in [Ids -> [st : {"none", "active", "grace", "expired", "cancelled"}, auto : BOOLEAN]]
    /\ Cardinality(Live) <= 1
    /\ ent \in Ids \cup {Free} /\ cache \in Ids \cup {Free, None}
    /\ until \in Ids \cup {None}
    /\ past \subseteq Ids /\ lapsed \subseteq Ids

\* However often the scanner starts the saga anew, and whatever is retried,
\* the renewal of a subscription is charged once, and no payer is given back
\* more than was taken.
ChargedOnce ==
    /\ \A id \in Ids : paid[Renew(id)] <= 1
    /\ \A p \in Payers : back[p] <= paid[p]

\* A checkout or a renewal that has ended has cost its price if it brought a
\* subscription and nothing if not.  The exceptions are all there are: the
\* answer to the debit, or to the last attempt of Activate, was lost, the
\* compensation failed, or the process was stopped in between.
PaidForService ==
    \A p \in Payers \ hist.unlucky :
        pc[p] \in {"done", "failed"} => paid[p] - back[p] = IF p \in hist.got THEN 1 ELSE 0

\* The subscription that is active grants its entitlements, from the rows and
\* through the cache, once its activation is over, and whatever the expiry of
\* the subscriptions before it.  The exceptions: the sync or its invalidation
\* failed; the activation overlapped a call that was about to write the
\* entitlements or the cache from what it had read before; or the plan lasts
\* forever and its rows still carry the expiry of an earlier subscription,
\* which has passed.
Served == IF cache = None THEN Readable ELSE cache

EntitledWhileLive ==
    \A id \in Ids \ hist.raced :
        subs[id].st = "active" /\ id \notin past /\ (id \in Forever => until \notin past)
        /\ (\A p \in Payers : pc[p] \in {"sync", "inval"} => loc[p] # id)
            => Served = id
=============================================================================
