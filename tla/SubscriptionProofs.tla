------------------------- MODULE SubscriptionProofs -------------------------
(***************************************************************************)
(* Proofs of the safety properties of module Subscription, for every       *)
(* number of checkouts, subscriptions, attempts, scans and faults.         *)
(*                                                                         *)
(* Money: a payer between its debit and the end of Activate has paid once, *)
(* has nothing back and was not served (PayOf).  A renewal is started anew *)
(* by every scan, so this needs that it only runs while its lifecycle      *)
(* waits for it (RenewWaited), and then the ledger refuses the second      *)
(* debit.                                                                  *)
(*                                                                         *)
(* Entitlements: the subscription that is active keeps everyone else from  *)
(* writing entitlements, by the index on live rows: whoever still writes   *)
(* them is its own activation (EntOf).                                     *)
(***************************************************************************)
EXTENDS Subscription, TLAPS, FiniteSetTheorems

Statuses == {"none", "active", "grace", "expired", "cancelled"}
SubRow == [st : Statuses, auto : BOOLEAN]
HistRow == [got : SUBSET Payers, unlucky : SUBSET Payers, raced : SUBSET Ids]
Lifes == {Life(id) : id \in Ids}

\* The steps between the debit and the end of Activate or its compensation.
Mid == {"look", "expireold", "create", "sync", "inval", "credit"}
Syncing == {"sync", "inval"}
Ending == {"end", "endsave", "reset", "endinval"}

\* f is a function of the processes.
Total(f) == f = [p \in Procs |-> f[p]]

Typed ==
    /\ subs \in [Ids -> SubRow]
    /\ ent \in Ids \cup {Free} /\ cache \in Ids \cup {Free, None}
    /\ until \in Ids \cup {None}
    /\ past \subseteq Ids /\ lapsed \subseteq Ids
    /\ Total(pc) /\ Total(loc)
    /\ paid \in [Payers -> Nat] /\ back \in [Payers -> Nat] /\ tries \in [Payers -> Nat]
    /\ hist \in HistRow

\* At most one subscription is live.
OneLive == \A i, j \in Ids : i \in Live /\ j \in Live => i = j

\* What a process holds where it uses it.
LocOf(p) ==
    /\ p \in Payers /\ pc[p] \in Syncing \cup {"expireold"} => loc[p] \in Ids
    /\ p \in Lifes \cup {Scan} /\ pc[p] \in Ending => loc[p] \in Ids
    /\ p \in Lifes /\ pc[p] \in {"check", "save"} => loc[p] \in BOOLEAN
    /\ p = User /\ pc[p] = "save" => loc[p] \in Ids
    /\ p = Reader /\ pc[p] = "set" => loc[p] \in Ids \cup {Free}
LocTyped == \A p \in Procs : LocOf(p)

\* A renewal runs only while the lifecycle that started it waits for it.
RenewWaited == \A id \in Ids : pc[Renew(id)] \in Mid \cup {"debit"} => pc[Life(id)] = "wait"

\* What a payer has paid and got back, by where it stands.
PayOf(p) ==
    /\ paid[p] <= 1 /\ back[p] <= paid[p]
    /\ pc[p] \in Mid => paid[p] = 1 /\ back[p] = 0 /\ p \notin hist.got
    /\ p \in Buyers /\ pc[p] \in {"off", "debit"} => paid[p] = 0
    /\ p \in hist.got => paid[p] = 1
    /\ p \notin hist.unlucky /\ pc[p] \notin Mid
          => paid[p] - back[p] = IF p \in hist.got THEN 1 ELSE 0
PayInv == \A p \in Payers : PayOf(p)

\* The active subscription whose activation no race or fault has spoiled, and
\* what it demands of the entitlements, the cache and the processes.
Good(id) == id \notin hist.raced /\ subs[id].st = "active" /\ id \notin past
InSync == {p \in Payers : pc[p] \in Syncing}
RowsOf(id) == ent = id /\ (id \notin Forever => until = id)
SeenOf(id) == cache \in {None, id} /\ (pc[Reader] = "set" => loc[Reader] = id)
EntOf(id) ==
    /\ \A q \in Procs : Writing(q) => q \in InSync /\ loc[q] = id
    /\ (\E q \in Payers : pc[q] = "inval") => RowsOf(id)
    /\ InSync = {} => RowsOf(id) /\ (until \notin past => SeenOf(id))
EntInv == \A id \in Ids : Good(id) => EntOf(id)

SubInv == Typed /\ OneLive /\ LocTyped /\ RenewWaited /\ PayInv /\ EntInv

-----------------------------------------------------------------------------
(* Processes and rows.                                                      *)

\* The processes are what their names say.
LEMMA ProcsApart ==
    /\ Payers \subseteq Procs /\ Lifes \subseteq Procs /\ Scan \in Procs /\ User \in Procs /\ Reader \in Procs
    /\ Buyers \subseteq Payers /\ Renewals \subseteq Payers
    /\ \A id \in Ids : Life(id) \in Lifes /\ Renew(id) \in Renewals
    /\ Lifes \cap Payers = {} /\ Buyers \cap Renewals = {}
    /\ Scan \notin Payers \cup Lifes /\ User \notin Payers \cup Lifes /\ Reader \notin Payers \cup Lifes
    /\ Scan # User /\ Scan # Reader /\ User # Reader
    /\ \A i, j \in Ids : (Life(i) = Life(j) => i = j) /\ (Renew(i) = Renew(j) => i = j)
<1>1. /\ \A i, j : (Life(i) = Life(j) => i = j) /\ (Renew(i) = Renew(j) => i = j)
      /\ \A i, j : Life(i) # Renew(j)
      /\ \A i : /\ Life(i) # Scan /\ Life(i) # User /\ Life(i) # Reader
                /\ Renew(i) # Scan /\ Renew(i) # User /\ Renew(i) # Reader
      /\ Scan # User /\ Scan # Reader /\ User # Reader
  BY DEF Life, Renew, Scan, User, Reader
<1>2. /\ Buyers \cap Renewals = {} /\ Buyers \cap Lifes = {}
      /\ Scan \notin Buyers /\ User \notin Buyers /\ Reader \notin Buyers
  BY BuyersApart DEF Lifes
<1> QED BY <1>1, <1>2 DEF Payers, Procs, Lifes, Renewals

\* Saving a row with a new status.
LEMMA SaveStatus ==
    ASSUME subs \in [Ids -> SubRow], NEW i \in Ids, NEW st \in Statuses,
           subs' = [subs EXCEPT ![i].st = st]
    PROVE  /\ subs' \in [Ids -> SubRow] /\ subs'[i].st = st
           /\ \A j \in Ids \ {i} : subs'[j] = subs[j]
<1>1. subs[i] \in SubRow /\ [subs[i] EXCEPT !.st = st] \in SubRow /\ [subs[i] EXCEPT !.st = st].st = st
  BY DEF SubRow
<1>2. subs' = [subs EXCEPT ![i] = [subs[i] EXCEPT !.st = st]]
  OBVIOUS
<1> QED BY <1>1, <1>2

\* Saving a whole new row.
LEMMA SaveRow ==
    ASSUME subs \in [Ids -> SubRow], NEW i \in Ids, NEW st \in Statuses, NEW auto \in BOOLEAN,
           subs' = [subs EXCEPT ![i] = Row(st, auto)]
    PROVE  /\ subs' \in [Ids -> SubRow] /\ subs'[i].st = st
           /\ \A j \in Ids \ {i} : subs'[j] = subs[j]
<1>1. Row(st, auto) \in SubRow /\ Row(st, auto).st = st
  BY DEF SubRow, Row
<1> QED BY <1>1

\* A process moves on.
LEMMA GoFacts ==
    ASSUME Typed, NEW p \in Procs, NEW to, Go(p, to)
    PROVE  /\ Total(pc') /\ pc'[p] = to
           /\ \A q \in Procs \ {p} : pc'[q] = pc[q]
BY DEF Typed, Go, Total

\* A process holds something else.
LEMMA KeepFacts ==
    ASSUME Typed, NEW p \in Procs, NEW x, Keep(p, x)
    PROVE  /\ Total(loc') /\ loc'[p] = x
           /\ \A q \in Procs \ {p} : loc'[q] = loc[q]
BY DEF Typed, Keep, Total

-----------------------------------------------------------------------------
(* What a step may do without disturbing a part of the invariant.           *)

\* Nobody but p moves.
OnlyMoves(p) == \A q \in Procs \ {p} : pc'[q] = pc[q] /\ loc'[q] = loc[q]

\* No row becomes live.
LEMMA LiveShrinks ==
    ASSUME OneLive, \A i \in Ids : subs'[i].st \in {"active", "grace"} => subs[i].st \in {"active", "grace"}
    PROVE  OneLive'
BY DEF OneLive, Live

\* The index admits one more.
LEMMA LiveIndexed ==
    ASSUME NEW id \in Ids, IndexFree(id), \A j \in Ids \ {id} : subs'[j] = subs[j]
    PROVE  OneLive'
BY DEF OneLive, Live, IndexFree

\* The step of one process: the others hold what they held.
LEMMA LocFrame ==
    ASSUME LocTyped, NEW p \in Procs, OnlyMoves(p), LocOf(p)'
    PROVE  LocTyped'
<1> SUFFICES ASSUME NEW q \in Procs, q # p PROVE LocOf(q)'
  BY DEF LocTyped
<1> QED BY DEF LocTyped, LocOf, OnlyMoves

\* The step of a payer that is under way, or of a checkout: no renewal starts.
LEMMA WaitFrame ==
    ASSUME RenewWaited, NEW p \in Payers, OnlyMoves(p), pc[p] \in Mid \cup {"debit"} \/ p \in Buyers
    PROVE  RenewWaited'
<1> SUFFICES ASSUME NEW id \in Ids, pc'[Renew(id)] \in Mid \cup {"debit"} PROVE pc'[Life(id)] = "wait"
  BY DEF RenewWaited
<1>1. pc'[Life(id)] = pc[Life(id)] /\ Renew(id) \in Procs
  BY ProcsApart DEF OnlyMoves
<1>2. p \in Buyers => p # Renew(id)
  BY ProcsApart
<1>3. pc[Renew(id)] \in Mid \cup {"debit"}
  BY <1>1, <1>2 DEF OnlyMoves
<1> QED BY <1>1, <1>3 DEF RenewWaited

\* A payer keeps its account straight as long as it does not pay, get money
\* back or leave Activate unnoticed.
LEMMA PayKept ==
    ASSUME NEW p \in Payers, PayOf(p), paid'[p] = paid[p], back'[p] = back[p],
           p \in hist'.got <=> p \in hist.got, hist.unlucky \subseteq hist'.unlucky,
           pc'[p] \in Mid => pc[p] \in Mid,
           pc[p] \in Mid => pc'[p] \in Mid \/ p \in hist'.unlucky,
           p \in Buyers /\ pc'[p] \in {"off", "debit"} => pc[p] \in {"off", "debit"}
    PROVE  PayOf(p)'
BY DEF PayOf

\* The step of one payer: the others' accounts are as they were.
LEMMA PayFrame ==
    ASSUME PayInv, NEW p \in Payers, OnlyMoves(p), PayOf(p)',
           \A q \in Payers \ {p} : /\ paid'[q] = paid[q] /\ back'[q] = back[q]
                                   /\ q \in hist'.got <=> q \in hist.got,
           hist.unlucky \subseteq hist'.unlucky
    PROVE  PayInv'
<1> SUFFICES ASSUME NEW q \in Payers, q # p PROVE PayOf(q)'
  BY DEF PayInv
<1>1. pc'[q] = pc[q]
  BY ProcsApart DEF OnlyMoves
<1> QED BY <1>1, PayKept DEF PayInv

\* Steps of others than payers.
LEMMA PaySame ==
    ASSUME PayInv, \A p \in Payers : pc'[p] = pc[p], UNCHANGED <<paid, back, hist>>
    PROVE  PayInv'
BY DEF PayInv, PayOf

\* A step that starts no writer of entitlements, makes no row active, and spoils
\* what it leaves unfinished.
LEMMA EntKept ==
    ASSUME EntInv,
           \A i \in Ids : subs'[i].st = "active" => subs[i].st = "active",
           past \subseteq past', hist.raced \subseteq hist'.raced,
           \A q \in Procs : Writing(q)' => /\ Writing(q) /\ loc'[q] = loc[q]
                                           /\ q \in InSync => pc'[q] = pc[q],
           \A q \in InSync : pc'[q] \in Syncing \/ loc[q] \in hist'.raced,
           ent' = ent, until' = until, cache' \in {cache, None},
           pc'[Reader] = pc[Reader], loc'[Reader] = loc[Reader]
    PROVE  EntInv'
<1> SUFFICES ASSUME NEW id \in Ids, Good(id)' PROVE EntOf(id)'
  BY DEF EntInv
<1>1. Good(id) /\ id \notin hist'.raced
  BY DEF Good
<1>2. EntOf(id)
  BY <1>1 DEF EntInv
<1>3. ASSUME NEW q \in Procs, Writing(q)' PROVE q \in InSync' /\ loc'[q] = id /\ pc'[q] = pc[q]
  BY <1>2, <1>3 DEF EntOf, InSync
<1>4. ASSUME NEW q \in Payers, pc'[q] = "inval" PROVE RowsOf(id)'
  <2>1. Writing(q)' /\ q \in Procs
    BY <1>4, ProcsApart DEF Writing
  <2>2. pc[q] = "inval"
    BY <1>3, <1>4, <2>1
  <2> QED BY <1>2, <2>2 DEF EntOf, RowsOf
<1>5. ASSUME InSync' = {} PROVE InSync = {}
  <2> SUFFICES ASSUME NEW q \in InSync PROVE FALSE
    OBVIOUS
  <2>1. q \in Payers /\ q \in Procs /\ Writing(q)
    BY ProcsApart DEF InSync, Writing, Syncing
  <2>2. loc[q] = id
    BY <1>2, <2>1 DEF EntOf
  <2>3. pc'[q] \notin Syncing
    BY <1>5, <2>1 DEF InSync
  <2> QED BY <1>1, <2>2, <2>3
<1>6. InSync' = {} => RowsOf(id)' /\ (until' \notin past' => SeenOf(id)')
  BY <1>2, <1>5 DEF EntOf, RowsOf, SeenOf
<1> QED BY <1>3, <1>4, <1>6 DEF EntOf

\* The same for the step of one process.
LEMMA EntFrame ==
    ASSUME EntInv, NEW p \in Procs \ {Reader}, OnlyMoves(p),
           \A i \in Ids : subs'[i].st = "active" => subs[i].st = "active",
           past \subseteq past', hist.raced \subseteq hist'.raced, ent' = ent, until' = until, cache' \in {cache, None},
           Writing(p)' => Writing(p) /\ p \notin InSync /\ loc'[p] = loc[p],
           p \in InSync => loc[p] \in hist'.raced
    PROVE  EntInv'
<1>1. ASSUME NEW q \in Procs, Writing(q)'
      PROVE  Writing(q) /\ loc'[q] = loc[q] /\ (q \in InSync => pc'[q] = pc[q])
  BY <1>1 DEF OnlyMoves, Writing
<1>2. ASSUME NEW q \in InSync PROVE pc'[q] \in Syncing \/ loc[q] \in hist'.raced
  <2>1. CASE q = p
    BY <1>2, <2>1
  <2>2. CASE q # p
    BY <1>2, <2>2, ProcsApart DEF OnlyMoves, InSync
  <2> QED BY <2>1, <2>2
<1>3. pc'[Reader] = pc[Reader] /\ loc'[Reader] = loc[Reader]
  BY ProcsApart DEF OnlyMoves
<1> QED BY <1>1, <1>2, <1>3, EntKept

\* A step after which no subscription is active and unspoilt.
LEMMA EntVacuous ==
    ASSUME \A id \in Ids : ~Good(id)'
    PROVE  EntInv'
BY DEF EntInv

-----------------------------------------------------------------------------
(* The steps of a payer.                                                    *)

\* What is to be shown of a step of payer p.
LEMMA PayerFrame ==
    ASSUME SubInv, NEW p \in Payers, OnlyMoves(p), pc[p] \in Mid \cup {"debit"} \/ p \in Buyers,
           Typed', OneLive', LocOf(p)', PayOf(p)', EntInv',
           \A q \in Payers \ {p} : /\ paid'[q] = paid[q] /\ back'[q] = back[q]
                                   /\ q \in hist'.got <=> q \in hist.got,
           hist.unlucky \subseteq hist'.unlucky
    PROVE  SubInv'
<1>1. LocTyped'
  BY LocFrame, ProcsApart DEF SubInv
<1>2. RenewWaited'
  BY WaitFrame DEF SubInv
<1>3. PayInv'
  BY PayFrame DEF SubInv
<1> QED BY <1>1, <1>2, <1>3 DEF SubInv

\* A payer that is not writing entitlements, before or after its step.
LEMMA PayerQuiet ==
    ASSUME SubInv, NEW p \in Payers, OnlyMoves(p), pc[p] \notin Syncing, pc'[p] \notin Syncing, pc'[p] # "expireold",
           pc'[p] \in Mid \cup {"debit", "done", "failed"},
           \A i \in Ids : subs'[i].st = "active" => subs[i].st = "active",
           past' = past, hist.raced \subseteq hist'.raced, ent' = ent, until' = until, cache' = cache
    PROVE  LocOf(p)' /\ EntInv'
<1>1. p \in Procs /\ p # Reader /\ p \notin Lifes /\ p # Scan /\ p # User
  BY ProcsApart
<1>2. LocOf(p)'
  BY <1>1 DEF LocOf
<1>3. ~Writing(p)'
  BY DEF Writing, Syncing, Mid
<1>4. p \notin InSync
  BY DEF InSync
<1>5. EntInv'
  BY <1>1, <1>3, <1>4, EntFrame DEF SubInv
<1> QED BY <1>2, <1>5

\* A checkout begins: it has not paid yet.
LEMMA CheckoutPreserved ==
    ASSUME SubInv, NEW p \in Payers, Checkout(p)
    PROVE  SubInv'
<1>0. /\ p \in Buyers /\ p \in Procs /\ pc[p] = "off" /\ Go(p, "debit")
      /\ UNCHANGED <<subs, past, lapsed, ent, until, cache, paid, back, loc, tries, scans, hist, faults>>
  BY ProcsApart DEF Checkout
<1>1. Total(pc') /\ pc'[p] = "debit" /\ OnlyMoves(p)
  BY <1>0, GoFacts DEF SubInv, OnlyMoves
<1>2. Typed' /\ OneLive'
  BY <1>0, <1>1 DEF SubInv, Typed, OneLive, Live
<1>3. LocOf(p)' /\ EntInv'
  BY <1>0, <1>1, PayerQuiet DEF Syncing
<1>4. PayOf(p)'
  BY <1>0, <1>1, PayKept DEF SubInv, PayInv, Mid
<1> QED BY <1>0, <1>1, <1>2, <1>3, <1>4, PayerFrame

\* The debit: a renewal that has paid is refused, so whoever is charged has not
\* been charged before.
LEMMA DebitPreserved ==
    ASSUME SubInv, NEW p \in Payers, Debit(p)
    PROVE  SubInv'
<1>0. p \in Procs /\ PayOf(p) /\ Typed /\ paid[p] \in Nat /\ back[p] \in Nat /\ hist \in HistRow
  BY ProcsApart DEF SubInv, PayInv, Typed
<1>1. /\ pc[p] = "debit" /\ (\E to \in {"look", "failed"} : Go(p, to))
      /\ UNCHANGED <<subs, past, lapsed, ent, until, cache, back, loc>>
  BY DEF Debit, Pay
<1>2. Total(pc') /\ pc'[p] \in {"look", "failed"} /\ OnlyMoves(p)
  BY <1>0, <1>1, GoFacts DEF OnlyMoves
<1>3. tries' \in [Payers -> Nat]
  BY <1>0 DEF Debit, Pay, Typed
<1>4. CASE paid' = paid
  <2>1. hist' = hist /\ pc'[p] = "failed"
    <3>1. CASE p \in Renewals /\ paid[p] > 0
      BY <1>0, <3>1, GoFacts DEF Debit
    <3>2. CASE ~(p \in Renewals /\ paid[p] > 0)
      <4>1. Pay(p)
        BY <3>2 DEF Debit
      <4>2. paid' # [paid EXCEPT ![p] = @ + 1]
        BY <1>0, <1>4 DEF Typed
      <4>3. Go(p, "failed") /\ hist' = hist
        BY <4>1, <4>2 DEF Pay
      <4> QED BY <1>0, <4>3, GoFacts
    <3> QED BY <3>1, <3>2
  <2>2. Typed' /\ OneLive'
    BY <1>1, <1>2, <1>3, <1>4, <2>1 DEF SubInv, Typed, OneLive, Live
  <2>3. LocOf(p)' /\ EntInv'
    BY <1>1, <1>2, <2>1, PayerQuiet DEF Syncing
  <2>4. PayOf(p)'
    BY <1>0, <1>1, <1>4, <2>1, PayKept DEF Mid
  <2> QED BY <1>1, <1>2, <1>4, <2>1, <2>2, <2>3, <2>4, PayerFrame
<1>5. CASE paid' # paid
  <2>0. Pay(p) /\ ~(p \in Renewals /\ paid[p] > 0)
    BY <1>5 DEF Debit
  <2>1. paid[p] = 0 /\ back[p] = 0 /\ p \notin hist.got
    BY <1>0, <1>1, <2>0 DEF PayOf, Payers
  <2>2. /\ paid' = [paid EXCEPT ![p] = @ + 1]
        /\ hist'.got = hist.got /\ hist'.raced = hist.raced /\ hist' \in HistRow
        /\ hist.unlucky \subseteq hist'.unlucky
        /\ pc'[p] = "look" \/ p \in hist'.unlucky
    <3>1. CASE Go(p, "look") /\ hist' = hist
      BY <1>0, <1>5, <2>0, <3>1, GoFacts DEF Pay
    <3>2. CASE hist' = [hist EXCEPT !.unlucky = @ \cup {p}]
      <4>1. hist'.got = hist.got /\ hist'.raced = hist.raced /\ hist' \in HistRow
            /\ hist'.unlucky = hist.unlucky \cup {p}
        BY <1>0, <3>2 DEF HistRow
      <4> QED BY <1>5, <2>0, <4>1 DEF Pay
    <3> QED BY <1>5, <2>0, <3>1, <3>2 DEF Pay
  <2>3. /\ paid' \in [Payers -> Nat] /\ paid'[p] = 1 /\ \A q \in Payers \ {p} : paid'[q] = paid[q]
    BY <1>0, <2>1, <2>2 DEF Typed
  <2>4. Typed' /\ OneLive'
    BY <1>1, <1>2, <1>3, <2>2, <2>3 DEF SubInv, Typed, OneLive, Live
  <2>5. LocOf(p)' /\ EntInv'
    BY <1>1, <1>2, <2>2, PayerQuiet DEF Syncing, Mid
  <2>6. PayOf(p)'
    BY <1>1, <1>2, <2>1, <2>2, <2>3 DEF PayOf, Mid
  <2> QED BY <1>1, <1>2, <2>2, <2>3, <2>4, <2>5, <2>6, PayerFrame
<1> QED BY <1>4, <1>5

\* The statements of Activate up to the new row, and its failures there.
LEMMA LookPreserved ==
    ASSUME SubInv, NEW p \in Payers, GetActive(p) \/ ExpireOld(p)
    PROVE  SubInv'
<1>0. /\ p \in Procs /\ PayOf(p) /\ Typed /\ LocOf(p) /\ hist' = hist
      /\ UNCHANGED <<past, lapsed, ent, until, cache, paid, back, tries>>
      /\ p \notin Lifes /\ p # Scan /\ p # User /\ p # Reader
  BY ProcsApart DEF SubInv, PayInv, LocTyped, GetActive, ExpireOld
<1>1. CASE GetActive(p)
  <2>1. pc[p] = "look" /\ subs' = subs
    BY <1>1 DEF GetActive
  <2>2. /\ \E to \in {"create", "expireold"} : Go(p, to)
        /\ loc' = loc \/ \E id \in Ids : Keep(p, id)
        /\ Go(p, "expireold") => \E id \in Ids : Keep(p, id)
    <3>1. CASE Live = {}
      <4>1. Go(p, "create") /\ loc' = loc
        BY <1>1, <3>1 DEF GetActive
      <4>2. ~Go(p, "expireold")
        BY <1>0, <4>1, GoFacts
      <4> QED BY <4>1, <4>2
    <3>2. CASE Live # {}
      BY <1>1, <3>2 DEF GetActive, Live
    <3> QED BY <3>1, <3>2
  <2>3. Total(pc') /\ pc'[p] \in {"create", "expireold"} /\ Total(loc') /\ OnlyMoves(p)
    BY <1>0, <2>2, GoFacts, KeepFacts DEF OnlyMoves, Typed
  <2>4. pc'[p] = "expireold" => loc'[p] \in Ids
    <3>1. pc'[p] = "expireold" => Go(p, "expireold")
      BY <1>0, <2>2, GoFacts
    <3> QED BY <1>0, <2>2, <3>1, KeepFacts
  <2>5. Typed' /\ OneLive'
    BY <1>0, <2>1, <2>3 DEF SubInv, Typed, OneLive, Live
  <2>6. LocOf(p)'
    BY <1>0, <2>3, <2>4 DEF LocOf, Syncing
  <2>7. EntInv'
    <3>1. ~Writing(p)' /\ p \notin InSync
      BY <2>1, <2>3 DEF Writing, InSync, Syncing
    <3> QED BY <1>0, <2>1, <2>3, <3>1, EntFrame DEF SubInv
  <2>8. PayOf(p)'
    BY <1>0, <2>1, <2>3, PayKept DEF Mid
  <2> QED BY <1>0, <2>1, <2>3, <2>5, <2>6, <2>7, <2>8, PayerFrame DEF Mid
<1>2. CASE ExpireOld(p)
  <2>1. pc[p] = "expireold" /\ loc[p] \in Ids /\ subs' = [subs EXCEPT ![loc[p]].st = "expired"]
        /\ Go(p, "create") /\ loc' = loc
    BY <1>0, <1>2 DEF ExpireOld, LocOf
  <2>2. /\ subs' \in [Ids -> SubRow] /\ subs'[loc[p]].st = "expired"
        /\ \A j \in Ids \ {loc[p]} : subs'[j] = subs[j]
    BY <1>0, <2>1, SaveStatus DEF Typed, Statuses
  <2>3. Total(pc') /\ pc'[p] = "create" /\ OnlyMoves(p)
    BY <1>0, <2>1, GoFacts DEF OnlyMoves
  <2>4. Typed' /\ OneLive'
    BY <1>0, <2>1, <2>2, <2>3, LiveShrinks DEF SubInv, Typed
  <2>5. LocOf(p)' /\ EntInv'
    BY <1>0, <2>1, <2>2, <2>3, PayerQuiet DEF Syncing, Mid
  <2>6. PayOf(p)'
    BY <1>0, <2>1, <2>3, PayKept DEF Mid
  <2> QED BY <1>0, <2>1, <2>3, <2>4, <2>5, <2>6, PayerFrame DEF Mid
<1> QED BY <1>1, <1>2

\* A failed Activate goes to the compensation or to the next attempt.
LEMMA FailsFacts ==
    ASSUME Typed, NEW p \in Payers, ActivateFails(p)
    PROVE  /\ Total(pc') /\ pc'[p] \in {"credit", "look"}
           /\ \A q \in Procs \ {p} : pc'[q] = pc[q]
           /\ tries' \in [Payers -> Nat]
<1>0. p \in Procs
  BY ProcsApart
<1>1. CASE Go(p, "credit") /\ UNCHANGED tries
  BY <1>0, <1>1, GoFacts DEF Typed
<1>2. CASE Go(p, "look") /\ tries' = [tries EXCEPT ![p] = @ + 1]
  <2>1. tries' \in [Payers -> Nat]
    BY <1>2 DEF Typed
  <2> QED BY <1>0, <1>2, <2>1, GoFacts
<1> QED BY <1>1, <1>2 DEF ActivateFails

\* The row of a new subscription: the one that may be live, by the index, and
\* spoilt if somebody is about to write entitlements.
LEMMA CreatePreserved ==
    ASSUME SubInv, NEW p \in Payers, Create(p)
    PROVE  SubInv'
<1>0. /\ p \in Procs /\ PayOf(p) /\ Typed /\ pc[p] = "create"
      /\ UNCHANGED <<past, lapsed, ent, until, cache, paid, back>>
      /\ p \notin Lifes /\ p # Scan /\ p # User /\ p # Reader
  BY ProcsApart DEF SubInv, PayInv, Create
<1>1. PICK id \in Ids :
      /\ subs[id].st = "none"
      /\ \/ /\ IndexFree(id)
            /\ subs' = [subs EXCEPT ![id] = Row("active", FALSE)]
            /\ Keep(p, id) /\ Go(p, "sync")
            /\ hist' = IF \E q \in Procs \ {p} : Writing(q) THEN [hist EXCEPT !.raced = @ \cup {id}] ELSE hist
            /\ UNCHANGED tries
         \/ ActivateFails(p) /\ UNCHANGED <<subs, loc, hist>>
  BY DEF Create, NewId, Unborn
<1>3. CASE ActivateFails(p) /\ UNCHANGED <<subs, loc, hist>>
  <2>1. /\ Total(pc') /\ pc'[p] \in {"credit", "look"} /\ tries' \in [Payers -> Nat]
        /\ OnlyMoves(p)
    BY <1>0, <1>3, FailsFacts DEF OnlyMoves
  <2>2. Typed' /\ OneLive'
    BY <1>0, <1>3, <2>1 DEF SubInv, Typed, OneLive, Live
  <2>3. LocOf(p)' /\ EntInv'
    BY <1>0, <1>3, <2>1, PayerQuiet DEF Syncing, Mid
  <2>4. PayOf(p)'
    BY <1>0, <1>3, <2>1, PayKept DEF Mid
  <2> QED BY <1>0, <1>3, <2>1, <2>2, <2>3, <2>4, PayerFrame DEF Mid
<1>4. CASE /\ IndexFree(id)
           /\ subs' = [subs EXCEPT ![id] = Row("active", FALSE)]
           /\ Keep(p, id) /\ Go(p, "sync")
           /\ hist' = IF \E q \in Procs \ {p} : Writing(q) THEN [hist EXCEPT !.raced = @ \cup {id}] ELSE hist
           /\ UNCHANGED tries
  <2>1. /\ Total(pc') /\ pc'[p] = "sync" /\ Total(loc') /\ loc'[p] = id
        /\ OnlyMoves(p)
    BY <1>0, <1>4, GoFacts, KeepFacts DEF OnlyMoves
  <2>2. /\ subs' \in [Ids -> SubRow] /\ \A j \in Ids \ {id} : subs'[j] = subs[j]
    BY <1>0, <1>1, <1>4, SaveRow DEF Typed, Statuses
  <2>3. /\ hist' \in HistRow /\ hist'.got = hist.got /\ hist'.unlucky = hist.unlucky
        /\ hist.raced \subseteq hist'.raced
        /\ (\E q \in Procs \ {p} : Writing(q)) => id \in hist'.raced
    <3>1. hist \in HistRow
      BY <1>0 DEF Typed
    <3> QED BY <1>1, <1>4, <3>1 DEF HistRow
  <2>4. Typed'
    BY <1>0, <1>4, <2>1, <2>2, <2>3 DEF Typed
  <2>5. OneLive'
    BY <1>1, <1>4, <2>2, LiveIndexed
  <2>6. LocOf(p)'
    BY <1>0, <1>1, <2>1 DEF LocOf
  <2>7. PayOf(p)'
    BY <1>0, <2>1, <2>3, PayKept DEF Mid
  <2>8. EntInv'
    <3> SUFFICES ASSUME NEW i \in Ids, Good(i)' PROVE EntOf(i)'
      BY DEF EntInv
    <3>1. i = id
      BY <1>4, <2>2 DEF Good, IndexFree, Live
    <3>2. \A q \in Procs \ {p} : ~Writing(q)
      BY <2>3, <3>1 DEF Good
    <3>3. \A q \in Procs \ {p} : ~Writing(q)'
      BY <2>1, <3>2 DEF Writing, OnlyMoves
    <3>4. p \in InSync'
      BY <2>1 DEF InSync, Syncing
    <3>5. \A q \in Payers : pc'[q] # "inval"
      BY <2>1, <3>3, ProcsApart DEF Writing
    <3> QED BY <2>1, <3>1, <3>3, <3>4, <3>5 DEF EntOf
  <2> QED BY <1>0, <2>1, <2>3, <2>4, <2>5, <2>6, <2>7, <2>8, PayerFrame DEF Mid
<1> QED BY <1>1, <1>3, <1>4

\* The sync writes the entitlements of the subscription just created: when one
\* is active and unspoilt, it is that one.
LEMMA SyncPreserved ==
    ASSUME SubInv, NEW p \in Payers, SyncFromSubscription(p)
    PROVE  SubInv'
<1>0. /\ p \in Procs /\ PayOf(p) /\ Typed /\ LocOf(p) /\ pc[p] = "sync" /\ Go(p, "inval")
      /\ ent' = loc[p] /\ until' = IF loc[p] \in Forever THEN until ELSE loc[p]
      /\ UNCHANGED <<subs, past, lapsed, cache, paid, back, loc, tries, scans, hist, faults>>
      /\ p \notin Lifes /\ p # Scan /\ p # User /\ p # Reader
  BY ProcsApart DEF SubInv, PayInv, LocTyped, SyncFromSubscription
<1>1. loc[p] \in Ids
  BY <1>0 DEF LocOf, Syncing
<1>2. Total(pc') /\ pc'[p] = "inval" /\ OnlyMoves(p)
  BY <1>0, GoFacts DEF OnlyMoves
<1>3. Typed' /\ OneLive'
  BY <1>0, <1>1, <1>2 DEF SubInv, Typed, OneLive, Live
<1>4. LocOf(p)'
  BY <1>0, <1>1, <1>2 DEF LocOf
<1>5. PayOf(p)'
  BY <1>0, <1>2, PayKept DEF Mid
<1>6. EntInv'
  <2> SUFFICES ASSUME NEW id \in Ids, Good(id)' PROVE EntOf(id)'
    BY DEF EntInv
  <2>1. EntOf(id)
    BY <1>0 DEF Good, SubInv, EntInv
  <2>2. Writing(p) /\ p \in InSync'
    BY <1>0, <1>2 DEF Writing, InSync, Syncing
  <2>3. loc[p] = id
    BY <1>0, <2>1, <2>2 DEF EntOf
  <2>4. ASSUME NEW q \in Procs, Writing(q)' PROVE q \in InSync' /\ loc'[q] = id
    <3>1. CASE q = p
      BY <1>0, <2>2, <2>3, <3>1
    <3>2. CASE q # p
      BY <1>0, <1>2, <2>1, <2>4, <3>2 DEF EntOf, Writing, InSync, OnlyMoves
    <3> QED BY <3>1, <3>2
  <2> QED BY <1>0, <2>2, <2>3, <2>4 DEF EntOf, RowsOf
<1> QED BY <1>0, <1>2, <1>3, <1>4, <1>5, <1>6, PayerFrame DEF Mid

\* A payer that is served: with the entitlements in place, or spoilt.
LEMMA ServedPreserved ==
    ASSUME SubInv, NEW p \in Payers, Invalidate(p) \/ SyncFails(p)
    PROVE  SubInv'
<1>0. /\ p \in Procs /\ PayOf(p) /\ Typed /\ LocOf(p) /\ pc[p] \in Syncing /\ Go(p, "done") /\ Keep(p, None)
      /\ UNCHANGED <<subs, past, lapsed, ent, until, paid, back, tries>>
      /\ cache' \in {cache, None}
      /\ p \notin Lifes /\ p # Scan /\ p # User /\ p # Reader
  BY ProcsApart DEF SubInv, PayInv, LocTyped, Invalidate, SyncFails, Forget, Syncing
<1>1. loc[p] \in Ids
  BY <1>0 DEF LocOf
<1>2. Total(pc') /\ pc'[p] = "done" /\ Total(loc') /\ OnlyMoves(p)
  BY <1>0, GoFacts, KeepFacts DEF OnlyMoves
<1>3. /\ hist' \in HistRow /\ hist'.got = hist.got \cup {p} /\ hist'.unlucky = hist.unlucky
      /\ hist.raced \subseteq hist'.raced
      /\ SyncFails(p) \/ pc[Reader] = "set" => loc[p] \in hist'.raced
  <2>1. hist \in HistRow
    BY <1>0 DEF Typed
  <2>2. PICK X \in SUBSET {loc[p]} :
           /\ hist' = [hist EXCEPT !.got = hist.got \cup {p}, !.raced = hist.raced \cup X]
           /\ SyncFails(p) \/ pc[Reader] = "set" => loc[p] \in X
    <3>1. CASE SyncFails(p)
      BY <3>1 DEF SyncFails
    <3>2. CASE Invalidate(p) /\ ~SyncFails(p)
      <4>1. CASE pc[Reader] = "set"
        <5>1. hist' = [hist EXCEPT !.got = hist.got \cup {p}, !.raced = hist.raced \cup {loc[p]}]
          BY <3>2, <4>1 DEF Invalidate
        <5> QED BY <5>1
      <4>2. CASE pc[Reader] # "set"
        <5> DEFINE X == {}
        <5>1. hist' = [hist EXCEPT !.got = hist.got \cup {p}, !.raced = hist.raced \cup X]
          BY <3>2, <4>2 DEF Invalidate
        <5>2. X \in SUBSET {loc[p]}
          OBVIOUS
        <5>3. ~(SyncFails(p) \/ pc[Reader] = "set")
          BY <3>2, <4>2
        <5> HIDE DEF X
        <5> QED BY <5>1, <5>2, <5>3
      <4> QED BY <4>1, <4>2
    <3> QED BY <3>1, <3>2
  <2>3. /\ hist'.got = hist.got \cup {p} /\ hist'.unlucky = hist.unlucky
        /\ hist'.raced = hist.raced \cup X /\ hist' \in HistRow
    BY <1>1, <2>1, <2>2 DEF HistRow
  <2> QED BY <2>2, <2>3
<1>4. Typed' /\ OneLive'
  <2>1. cache' \in Ids \cup {Free, None}
    BY <1>0 DEF Typed
  <2> QED BY <1>0, <1>2, <1>3, <2>1 DEF SubInv, Typed, OneLive, Live
<1>5. LocOf(p)'
  BY <1>0, <1>2 DEF LocOf, Syncing
<1>6. PayOf(p)'
  BY <1>0, <1>2, <1>3 DEF PayOf, Mid, Syncing
<1>7. EntInv'
  <2>1. CASE loc[p] \in hist'.raced
    <3>1. ~Writing(p)'
      BY <1>2 DEF Writing
    <3> QED BY <1>0, <1>2, <1>3, <2>1, <3>1, EntFrame DEF SubInv
  <2>2. CASE loc[p] \notin hist'.raced
    <3>0. pc[p] = "inval" /\ cache' = None /\ pc[Reader] # "set"
      BY <1>3, <2>2 DEF Invalidate
    <3> SUFFICES ASSUME NEW id \in Ids, Good(id)' PROVE EntOf(id)'
      BY DEF EntInv
    <3>1. EntOf(id)
      BY <1>0, <1>3 DEF Good, SubInv, EntInv
    <3>2. RowsOf(id)'
      BY <1>0, <3>0, <3>1 DEF EntOf, RowsOf
    <3>3. pc'[Reader] # "set"
      BY <1>0, <1>2, <3>0, ProcsApart DEF OnlyMoves
    <3>4. ASSUME NEW q \in Procs, Writing(q)' PROVE q \in InSync' /\ loc'[q] = id
      <4>1. q # p
        BY <1>2, <3>4 DEF Writing
      <4> QED BY <1>2, <3>1, <3>4, <4>1 DEF EntOf, Writing, InSync, OnlyMoves
    <3> QED BY <3>0, <3>2, <3>3, <3>4 DEF EntOf, SeenOf
  <2> QED BY <2>1, <2>2
<1>8. /\ hist.unlucky \subseteq hist'.unlucky
      /\ \A q \in Payers \ {p} : q \in hist'.got <=> q \in hist.got
  BY <1>3
<1> QED BY <1>0, <1>2, <1>4, <1>5, <1>6, <1>7, <1>8, PayerFrame DEF Mid, Syncing

\* A statement of Activate fails: a subscription left half activated is spoilt.
LEMMA BreaksPreserved ==
    ASSUME SubInv, NEW p \in Payers, ActivateBreaks(p)
    PROVE  SubInv'
<1>0. /\ p \in Procs /\ PayOf(p) /\ Typed /\ LocOf(p) /\ ActivateFails(p)
      /\ pc[p] \in {"look", "expireold", "create", "sync", "inval"}
      /\ UNCHANGED <<subs, past, lapsed, ent, until, cache, paid, back, loc>>
      /\ p \notin Lifes /\ p # Scan /\ p # User /\ p # Reader
  BY ProcsApart DEF SubInv, PayInv, LocTyped, ActivateBreaks
<1>1. Total(pc') /\ pc'[p] \in {"credit", "look"} /\ tries' \in [Payers -> Nat] /\ OnlyMoves(p)
  BY <1>0, FailsFacts DEF OnlyMoves
<1>2. /\ hist' \in HistRow /\ hist'.got = hist.got /\ hist.unlucky \subseteq hist'.unlucky
      /\ hist.raced \subseteq hist'.raced
      /\ pc[p] \in Syncing => loc[p] \in hist'.raced
  <2>0. hist \in HistRow
    BY <1>0 DEF Typed
  <2>1. CASE pc[p] \in Syncing
    <3>1. loc[p] \in Ids
      BY <1>0, <2>1 DEF LocOf
    <3>2. PICK X \in SUBSET {p} :
             hist' = [hist EXCEPT !.raced = hist.raced \cup {loc[p]}, !.unlucky = hist.unlucky \cup X]
      BY <2>1 DEF ActivateBreaks, Syncing
    <3>3. /\ hist'.got = hist.got /\ hist'.unlucky = hist.unlucky \cup X
          /\ hist'.raced = hist.raced \cup {loc[p]} /\ hist' \in HistRow
      BY <2>0, <3>1, <3>2 DEF HistRow
    <3> QED BY <3>3
  <2>2. CASE pc[p] \notin Syncing
    <3>1. hist' = hist
      BY <2>2 DEF ActivateBreaks, Syncing
    <3> QED BY <2>0, <2>2, <3>1
  <2> QED BY <2>1, <2>2
<1>3. Typed' /\ OneLive'
  BY <1>0, <1>1, <1>2 DEF SubInv, Typed, OneLive, Live
<1>4. LocOf(p)'
  BY <1>0, <1>1 DEF LocOf, Syncing
<1>5. EntInv'
  <2>1. ~Writing(p)'
    BY <1>1 DEF Writing
  <2>2. p \in InSync => loc[p] \in hist'.raced
    BY <1>2 DEF InSync
  <2> QED BY <1>0, <1>1, <1>2, <2>1, <2>2, EntFrame DEF SubInv
<1>6. PayOf(p)'
  BY <1>0, <1>1, <1>2, PayKept DEF Mid
<1> QED BY <1>0, <1>1, <1>2, <1>3, <1>4, <1>5, <1>6, PayerFrame DEF Mid

\* The compensation: the money comes back once, or the payer was unlucky.
LEMMA CreditPreserved ==
    ASSUME SubInv, NEW p \in Payers, Credit(p)
    PROVE  SubInv'
<1>0. /\ p \in Procs /\ PayOf(p) /\ Typed /\ pc[p] = "credit" /\ Go(p, "failed") /\ Keep(p, None)
      /\ UNCHANGED <<subs, past, lapsed, ent, until, cache, paid, tries>>
  BY ProcsApart DEF SubInv, PayInv, Credit, Forget
<1>1. Total(pc') /\ pc'[p] = "failed" /\ Total(loc') /\ OnlyMoves(p)
  BY <1>0, GoFacts, KeepFacts DEF OnlyMoves
<1>2. paid[p] = 1 /\ back[p] = 0 /\ p \notin hist.got
  BY <1>0 DEF PayOf, Mid
<1>3. /\ back' \in [Payers -> Nat] /\ \A q \in Payers \ {p} : back'[q] = back[q]
      /\ hist' \in HistRow /\ hist'.got = hist.got /\ hist.unlucky \subseteq hist'.unlucky
      /\ hist'.raced = hist.raced
      /\ back'[p] = 1 \/ (back'[p] = 0 /\ p \in hist'.unlucky)
  <2>0. hist \in HistRow /\ back \in [Payers -> Nat]
    BY <1>0 DEF Typed
  <2>1. CASE back' = [back EXCEPT ![p] = @ + 1] /\ UNCHANGED <<hist, faults>>
    BY <1>2, <2>0, <2>1
  <2>2. CASE hist' = [hist EXCEPT !.unlucky = @ \cup {p}] /\ UNCHANGED back
    BY <1>2, <2>0, <2>2 DEF HistRow
  <2> QED BY <2>1, <2>2 DEF Credit
<1>4. Typed' /\ OneLive'
  BY <1>0, <1>1, <1>3 DEF SubInv, Typed, OneLive, Live
<1>5. LocOf(p)' /\ EntInv'
  BY <1>0, <1>1, <1>3, PayerQuiet DEF Syncing
<1>6. PayOf(p)'
  BY <1>0, <1>1, <1>2, <1>3 DEF PayOf, Mid
<1> QED BY <1>0, <1>1, <1>3, <1>4, <1>5, <1>6, PayerFrame DEF Mid

\* The processes that are stopped midway are unlucky, and what they leave half
\* activated is spoilt.
LEMMA SpoiledFacts ==
    ASSUME Typed, LocTyped, NEW ps, hist' = Spoiled(ps)
    PROVE  /\ hist' \in HistRow /\ hist'.got = hist.got
           /\ hist.unlucky \subseteq hist'.unlucky /\ hist.raced \subseteq hist'.raced
           /\ \A p \in ps \cap Payers : /\ pc[p] \in Mid => p \in hist'.unlucky
                                        /\ pc[p] \in Syncing => loc[p] \in hist'.raced
<1>0. hist \in HistRow
  BY DEF Typed
<1> DEFINE L == {loc[p] : p \in Unsynced(ps)}
<1>1. L \subseteq Ids /\ Midway(ps) \subseteq Payers
  BY ProcsApart DEF Unsynced, Midway, LocTyped, LocOf, Syncing
<1>2. hist' = [hist EXCEPT !.unlucky = hist.unlucky \cup Midway(ps), !.raced = hist.raced \cup L]
  BY DEF Spoiled
<1>3. ASSUME NEW p \in ps \cap Payers
      PROVE  (pc[p] \in Mid => p \in Midway(ps)) /\ (pc[p] \in Syncing => loc[p] \in L)
  BY DEF Midway, Unsynced, Mid, Syncing
<1> HIDE DEF L
<1>4. /\ hist'.got = hist.got /\ hist'.unlucky = hist.unlucky \cup Midway(ps)
      /\ hist'.raced = hist.raced \cup L /\ hist' \in HistRow
  BY <1>0, <1>1, <1>2 DEF HistRow
<1> QED BY <1>3, <1>4

\* A checkout that dies midway is unlucky.
LEMMA DiesPreserved ==
    ASSUME SubInv, NEW p \in Payers, BuyerDies(p)
    PROVE  SubInv'
<1>0. /\ p \in Procs /\ p \in Buyers /\ PayOf(p) /\ Typed /\ pc[p] # "off" /\ Go(p, "failed") /\ Keep(p, None)
      /\ UNCHANGED <<subs, past, lapsed, ent, until, cache, paid, back, tries>>
      /\ hist' = Spoiled({p}) /\ LocTyped
      /\ p \notin Lifes /\ p # Scan /\ p # User /\ p # Reader
  BY ProcsApart DEF SubInv, PayInv, BuyerDies, Forget
<1>1. Total(pc') /\ pc'[p] = "failed" /\ Total(loc') /\ OnlyMoves(p)
  BY <1>0, GoFacts, KeepFacts DEF OnlyMoves
<1>2. /\ hist' \in HistRow /\ hist'.got = hist.got
      /\ hist.unlucky \subseteq hist'.unlucky /\ hist.raced \subseteq hist'.raced
      /\ pc[p] \in Mid => p \in hist'.unlucky
      /\ pc[p] \in Syncing => loc[p] \in hist'.raced
  BY <1>0, SpoiledFacts
<1>3. Typed' /\ OneLive'
  BY <1>0, <1>1, <1>2 DEF SubInv, Typed, OneLive, Live
<1>4. LocOf(p)'
  BY <1>0, <1>1 DEF LocOf, Syncing
<1>5. EntInv'
  <2>1. ~Writing(p)'
    BY <1>1 DEF Writing
  <2>2. p \in InSync => loc[p] \in hist'.raced
    BY <1>2 DEF InSync
  <2> QED BY <1>0, <1>1, <1>2, <2>1, <2>2, EntFrame DEF SubInv
<1>6. PayOf(p)'
  BY <1>0, <1>1, <1>2, PayKept DEF Mid
<1> QED BY <1>0, <1>1, <1>2, <1>3, <1>4, <1>5, <1>6, PayerFrame

-----------------------------------------------------------------------------
(* The steps of the others: lifecycles, scanner, user, readers and time.    *)

Others == Lifes \cup {Scan, User, Reader}

\* What is to be shown of a step of process p.
LEMMA OtherFrame ==
    ASSUME SubInv, NEW p \in Others, Total(pc'), Total(loc'), OnlyMoves(p), LocOf(p)',
           pc[p] = "wait" => pc'[p] = "wait" \/ \A id \in Ids : p = Life(id) => pc[Renew(id)] \notin Mid \cup {"debit"},
           subs' \in [Ids -> SubRow], OneLive', past' \subseteq Ids, lapsed' \subseteq Ids,
           ent' \in Ids \cup {Free}, until' \in Ids \cup {None}, cache' \in Ids \cup {Free, None},
           EntInv', UNCHANGED <<paid, back, tries, hist>>
    PROVE  SubInv'
<1>0. p \in Procs /\ p \notin Payers
  BY ProcsApart DEF Others
<1>1. Typed'
  BY DEF SubInv, Typed
<1>2. LocTyped'
  BY <1>0, LocFrame DEF SubInv
<1>3. \A q \in Payers : pc'[q] = pc[q]
  BY <1>0, ProcsApart DEF OnlyMoves
<1>4. PayInv'
  BY <1>3, PaySame DEF SubInv
<1>5. RenewWaited'
  <2> SUFFICES ASSUME NEW id \in Ids, pc'[Renew(id)] \in Mid \cup {"debit"} PROVE pc'[Life(id)] = "wait"
    BY DEF RenewWaited
  <2>1. pc[Renew(id)] \in Mid \cup {"debit"} /\ Life(id) \in Procs
    BY <1>3, ProcsApart
  <2>2. pc[Life(id)] = "wait"
    BY <2>1 DEF SubInv, RenewWaited
  <2>3. CASE p = Life(id)
    BY <2>1, <2>2, <2>3
  <2>4. CASE p # Life(id)
    BY <2>1, <2>2, <2>4 DEF OnlyMoves
  <2> QED BY <2>3, <2>4
<1> QED BY <1>1, <1>2, <1>4, <1>5 DEF SubInv

\* A process that starts no writing, and leaves the entitlements alone.
LEMMA OtherStep ==
    ASSUME SubInv, NEW p \in Others \ {Reader}, Total(pc'), Total(loc'), OnlyMoves(p), LocOf(p)',
           pc[p] = "wait" => pc'[p] = "wait" \/ \A id \in Ids : p = Life(id) => pc[Renew(id)] \notin Mid \cup {"debit"},
           Writing(p)' => Writing(p) /\ loc'[p] = loc[p],
           subs' \in [Ids -> SubRow], OneLive', \A i \in Ids : subs'[i].st = "active" => subs[i].st = "active",
           past \subseteq past', past' \subseteq Ids, lapsed' \subseteq Ids,
           ent' = ent, until' = until, cache' \in {cache, None}, UNCHANGED <<paid, back, tries, hist>>
    PROVE  SubInv'
<1>1. p \in Procs \ {Reader} /\ p \notin InSync
  BY ProcsApart DEF Others, InSync
<1>2. EntInv'
  BY <1>1, EntFrame DEF SubInv
<1>3. ent' \in Ids \cup {Free} /\ until' \in Ids \cup {None} /\ cache' \in Ids \cup {Free, None}
  BY DEF SubInv, Typed
<1> QED BY <1>2, <1>3, OtherFrame

\* The same when no row is saved.
LEMMA IdleStep ==
    ASSUME SubInv, NEW p \in Others \ {Reader}, Total(pc'), Total(loc'), OnlyMoves(p), LocOf(p)',
           pc[p] = "wait" => pc'[p] = "wait" \/ \A id \in Ids : p = Life(id) => pc[Renew(id)] \notin Mid \cup {"debit"},
           Writing(p)' => Writing(p) /\ loc'[p] = loc[p],
           UNCHANGED <<subs, past, lapsed, ent, until, paid, back, tries, hist>>, cache' \in {cache, None}
    PROVE  SubInv'
<1>1. /\ subs' \in [Ids -> SubRow] /\ past \subseteq past' /\ past' \subseteq Ids /\ lapsed' \subseteq Ids
      /\ \A i \in Ids : subs'[i].st = "active" => subs[i].st = "active"
  BY DEF SubInv, Typed
<1>2. OneLive'
  BY DEF SubInv, OneLive, Live
<1> QED BY <1>1, <1>2, OtherStep

\* The lifecycle, apart from starting the renewal and saving the row.
LEMMA LifePreserved ==
    ASSUME SubInv, NEW id \in Ids,
           LifeCheck(id) \/ LifeRenewed(id) \/ ExpireRead(id) \/ LifeGrace(id) \/ LifeEnds(id)
    PROVE  SubInv'
<1> DEFINE p == Life(id)
<1>0. /\ p \in Procs /\ p \in Lifes /\ p \in Others \ {Reader} /\ p \notin Payers
      /\ p # Scan /\ p # User /\ p # Reader /\ Typed
      /\ UNCHANGED <<subs, past, lapsed, ent, until, cache, paid, back, tries, hist>>
  BY ProcsApart DEF SubInv, Others, LifeCheck, LifeRenewed, ExpireRead, LifeGrace, LifeEnds
<1>1. PICK to \in {"off", "renew", "expire", "save", "end"} :
        /\ Go(p, to)
        /\ (loc' = loc /\ to = "off") \/ \E x : Keep(p, x) /\ (to = "save" => x \in BOOLEAN) /\ (to = "end" => x \in Ids)
  <2>1. CASE LifeCheck(id)
    BY <2>1 DEF LifeCheck, Forget
  <2>2. CASE LifeRenewed(id)
    BY <2>2 DEF LifeRenewed, Forget
  <2>3. CASE ExpireRead(id)
    <3>1. subs[id].auto \in BOOLEAN
      BY <1>0 DEF Typed, SubRow
    <3> QED BY <2>3, <3>1 DEF ExpireRead, Forget
  <2>4. CASE LifeGrace(id)
    BY <2>4 DEF LifeGrace
  <2>5. CASE LifeEnds(id)
    BY <2>5 DEF LifeEnds, Forget
  <2> QED BY <2>1, <2>2, <2>3, <2>4, <2>5
<1>2. pc[p] = "wait" => pc[Renew(id)] \notin Mid \cup {"debit"}
  BY DEF LifeCheck, LifeRenewed, ExpireRead, LifeGrace, LifeEnds, Mid
<1>3. \A i \in Ids : p = Life(i) => i = id
  BY ProcsApart
<1> HIDE DEF p
<1>4. /\ Total(pc') /\ pc'[p] = to /\ Total(loc') /\ OnlyMoves(p)
      /\ (to = "save" => loc'[p] \in BOOLEAN) /\ (to = "end" => loc'[p] \in Ids)
  BY <1>0, <1>1, GoFacts, KeepFacts DEF OnlyMoves, Typed
<1>5. LocOf(p)'
  BY <1>0, <1>4 DEF LocOf, Ending
<1>6. ~Writing(p)'
  BY <1>4 DEF Writing
<1> QED BY <1>0, <1>2, <1>3, <1>4, <1>5, <1>6, IdleStep

\* The renewal is started: it was not under way, or its lifecycle would wait.
LEMMA LifeRenewPreserved ==
    ASSUME SubInv, NEW id \in Ids, LifeRenew(id)
    PROVE  SubInv'
<1> DEFINE p == Life(id)
           r == Renew(id)
<1>0. /\ p \in Procs /\ p \in Lifes /\ r \in Payers /\ r \in Procs /\ r \in Renewals /\ r # p /\ p \notin Payers
      /\ r \notin Buyers /\ p # Reader /\ r # Reader /\ Typed /\ LocTyped /\ pc[p] = "renew"
      /\ r \notin Lifes \cup {Scan, User} /\ p # Scan /\ p # User
      /\ pc' = [pc EXCEPT ![p] = "wait", ![r] = "debit"]
      /\ UNCHANGED <<subs, past, lapsed, ent, until, cache, paid, back, loc, tries, hist>>
  BY ProcsApart DEF SubInv, LifeRenew
<1>1. pc[r] \notin Mid \cup {"debit"}
  BY <1>0 DEF SubInv, RenewWaited
<1>2. ASSUME NEW j \in Ids \ {id} PROVE Life(j) \notin {p, r} /\ Renew(j) \notin {p, r} /\ Life(j) \in Procs /\ Renew(j) \in Procs
  BY ProcsApart
<1> HIDE DEF p, r
<1>3. /\ Total(pc') /\ pc'[p] = "wait" /\ pc'[r] = "debit"
      /\ \A q \in Procs \ {p, r} : pc'[q] = pc[q]
  BY <1>0 DEF Total, Typed
<1>4. Typed' /\ OneLive'
  BY <1>0, <1>3 DEF SubInv, Typed, OneLive, Live
<1>5. LocTyped'
  <2> SUFFICES ASSUME NEW q \in Procs PROVE LocOf(q)'
    BY DEF LocTyped
  <2>1. CASE q \notin {p, r}
    BY <1>0, <1>3, <2>1 DEF LocTyped, LocOf
  <2>2. CASE q = p
    BY <1>0, <1>3, <2>2 DEF LocOf, Ending
  <2>3. CASE q = r
    BY <1>0, <1>3, <2>3, ProcsApart DEF LocOf, Syncing
  <2> QED BY <2>1, <2>2, <2>3
<1>6. RenewWaited'
  <2> SUFFICES ASSUME NEW j \in Ids, pc'[Renew(j)] \in Mid \cup {"debit"} PROVE pc'[Life(j)] = "wait"
    BY DEF RenewWaited
  <2>1. CASE j = id
    BY <1>3, <2>1 DEF p
  <2>2. CASE j # id
    BY <1>2, <1>3, <2>2 DEF SubInv, RenewWaited
  <2> QED BY <2>1, <2>2
<1>7. PayInv'
  <2> SUFFICES ASSUME NEW q \in Payers PROVE PayOf(q)'
    BY DEF PayInv
  <2>1. PayOf(q) /\ q \in Procs /\ q # p
    BY <1>0, ProcsApart DEF SubInv, PayInv
  <2>2. CASE q = r
    BY <1>0, <1>1, <1>3, <2>1, <2>2, PayKept DEF Mid
  <2>3. CASE q # r
    BY <1>0, <1>3, <2>1, <2>3, PayKept
  <2> QED BY <2>2, <2>3
<1>8. EntInv'
  <2>1. ASSUME NEW q \in Procs, Writing(q)' PROVE Writing(q) /\ loc'[q] = loc[q] /\ pc'[q] = pc[q]
    <3>1. q \notin {p, r}
      BY <1>3, <2>1 DEF Writing
    <3> QED BY <1>0, <1>3, <2>1, <3>1 DEF Writing
  <2>2. ASSUME NEW q \in InSync PROVE pc'[q] \in Syncing
    <3>1. q \in Procs /\ q \notin {p, r} /\ pc[q] \in Syncing
      BY <1>0, <1>1, ProcsApart DEF InSync, Syncing, Mid
    <3> QED BY <1>3, <3>1
  <2>3. pc'[Reader] = pc[Reader] /\ Reader \in Procs
    BY <1>0, <1>3, ProcsApart
  <2> QED BY <1>0, <2>1, <2>2, <2>3, EntKept DEF SubInv
<1> QED BY <1>4, <1>5, <1>6, <1>7, <1>8 DEF SubInv

\* Expire saves the row as grace, which the index allows or refuses.
LEMMA ExpireSavePreserved ==
    ASSUME SubInv, NEW id \in Ids, ExpireSave(id)
    PROVE  SubInv'
<1> DEFINE p == Life(id)
<1>0. /\ p \in Procs /\ p \in Lifes /\ p \in Others \ {Reader} /\ p \notin Payers /\ p # Scan /\ p # User /\ p # Reader
      /\ Typed /\ LocOf(p) /\ pc[p] = "save" /\ Keep(p, None)
      /\ UNCHANGED <<past, lapsed, ent, until, cache, paid, back, tries, hist>>
  BY ProcsApart DEF SubInv, LocTyped, Others, ExpireSave, Forget
<1>1. loc[p] \in BOOLEAN
  BY <1>0 DEF LocOf
<1>2. \/ IndexFree(id) /\ subs' = [subs EXCEPT ![id] = Row("grace", loc[p])] /\ Go(p, "sleep")
      \/ Go(p, "off") /\ UNCHANGED subs
  BY DEF ExpireSave
<1> HIDE DEF p
<1>3. /\ Total(pc') /\ pc'[p] \in {"sleep", "off"} /\ Total(loc') /\ OnlyMoves(p)
  BY <1>0, <1>2, GoFacts, KeepFacts DEF OnlyMoves
<1>4. /\ subs' \in [Ids -> SubRow] /\ OneLive'
      /\ \A i \in Ids : subs'[i].st = "active" => subs[i].st = "active"
  <2>1. CASE IndexFree(id) /\ subs' = [subs EXCEPT ![id] = Row("grace", loc[p])]
    <3>1. /\ subs' \in [Ids -> SubRow] /\ subs'[id].st = "grace" /\ \A j \in Ids \ {id} : subs'[j] = subs[j]
      BY <1>0, <1>1, <2>1, SaveRow DEF Typed, Statuses
    <3>2. OneLive'
      BY <2>1, <3>1, LiveIndexed
    <3> QED BY <3>1, <3>2
  <2>2. CASE UNCHANGED subs
    BY <1>0, <2>2, LiveShrinks DEF SubInv, Typed
  <2> QED BY <1>2, <2>1, <2>2
<1>5. LocOf(p)' /\ ~Writing(p)'
  BY <1>0, <1>3 DEF LocOf, Ending, Writing
<1>6. past \subseteq past' /\ past' \subseteq Ids /\ lapsed' \subseteq Ids
  BY <1>0 DEF Typed
<1> QED BY <1>0, <1>3, <1>4, <1>5, <1>6, OtherStep

\* EndGrace: from the row read to the row saved no other subscription is
\* active, nor is one while the entitlements are being reset.
LEMMA EndGracePreserved ==
    ASSUME SubInv, NEW p \in Lifes \cup {Scan}, EndGrace(p)
    PROVE  SubInv'
<1>0. /\ p \in Procs /\ p \in Others \ {Reader} /\ p \notin Payers /\ p # User /\ p # Reader
      /\ Typed /\ LocOf(p) /\ pc[p] \in Ending /\ pc[p] # "wait" /\ loc' = loc
      /\ UNCHANGED <<past, lapsed, paid, back, tries, hist>>
      /\ \E to \in {"endsave", "ended", "reset", "endinval"} : Go(p, to)
  BY ProcsApart DEF SubInv, LocTyped, Others, EndGrace, EndGraceRead, EndGraceSave, ResetToFree,
                    ResetInvalidate, Ending
<1>1. loc[p] \in Ids
  BY <1>0 DEF LocOf
<1>2. /\ Total(pc') /\ pc'[p] \in {"endsave", "ended", "reset", "endinval"} /\ Total(loc') /\ OnlyMoves(p)
  BY <1>0, GoFacts DEF OnlyMoves, Typed
<1>3. LocOf(p)'
  BY <1>0, <1>1, <1>2 DEF LocOf
<1>4. past \subseteq past' /\ past' \subseteq Ids /\ lapsed' \subseteq Ids
  BY <1>0 DEF Typed
<1>5. CASE EndGraceRead(p)
  <2>0. UNCHANGED <<subs, ent, until, cache>> /\ Go(p, IF subs[loc[p]].st = "grace" THEN "endsave" ELSE "ended")
    BY <1>5 DEF EndGraceRead
  <2>1. subs' \in [Ids -> SubRow] /\ OneLive' /\ ent' \in Ids \cup {Free} /\ until' \in Ids \cup {None}
        /\ cache' \in Ids \cup {Free, None}
    BY <1>0, <2>0, LiveShrinks DEF SubInv, Typed
  <2>2. CASE subs[loc[p]].st = "grace"
    <3>1. \A i \in Ids : subs[i].st # "active"
      BY <1>1, <2>2 DEF SubInv, OneLive, Live
    <3>2. EntInv'
      BY <2>0, <3>1, EntVacuous DEF Good
    <3> QED BY <1>0, <1>2, <1>3, <1>4, <2>1, <3>2, OtherFrame
  <2>3. CASE subs[loc[p]].st # "grace"
    <3>1. ~Writing(p)'
      BY <1>0, <2>0, <2>3, GoFacts DEF Writing
    <3> QED BY <1>0, <1>2, <1>3, <2>0, <3>1, IdleStep
  <2> QED BY <2>2, <2>3
<1>6. CASE EndGraceSave(p)
  <2>0. UNCHANGED <<ent, until, cache>> /\ subs' = [subs EXCEPT ![loc[p]].st = "expired"] /\ pc[p] = "endsave"
    BY <1>6 DEF EndGraceSave
  <2>1. /\ subs' \in [Ids -> SubRow] /\ subs'[loc[p]].st = "expired"
        /\ \A j \in Ids \ {loc[p]} : subs'[j] = subs[j]
    BY <1>0, <1>1, <2>0, SaveStatus DEF Typed, Statuses
  <2>2. OneLive' /\ \A i \in Ids : subs'[i].st = "active" => subs[i].st = "active"
    BY <2>1, LiveShrinks DEF SubInv
  <2>3. Writing(p) /\ loc'[p] = loc[p]
    BY <1>0, <2>0 DEF Writing
  <2> QED BY <1>0, <1>2, <1>3, <1>4, <2>0, <2>1, <2>2, <2>3, OtherStep
<1>7. CASE ResetToFree(p) \/ ResetInvalidate(p)
  <2>0. /\ subs' = subs /\ ent' \in {ent, Free} /\ until' \in {until, None} /\ cache' \in {cache, None} /\ Writing(p)
    BY <1>7 DEF ResetToFree, ResetInvalidate, Writing
  <2>1. subs' \in [Ids -> SubRow] /\ OneLive' /\ ent' \in Ids \cup {Free} /\ until' \in Ids \cup {None}
        /\ cache' \in Ids \cup {Free, None}
    BY <1>0, <2>0, LiveShrinks DEF SubInv, Typed
  <2>2. p \notin InSync
    BY <1>0 DEF InSync
  <2>3. \A i \in Ids : ~Good(i)
    BY <1>0, <2>0, <2>2 DEF SubInv, EntInv, EntOf
  <2>4. EntInv'
    BY <1>0, <2>0, <2>3, EntVacuous DEF Good
  <2> QED BY <1>0, <1>2, <1>3, <1>4, <2>1, <2>4, OtherFrame
<1> QED BY <1>5, <1>6, <1>7 DEF EndGrace

\* An activity that fails for good ends its workflow, or its EndGrace.
LEMMA ActivityFailsPreserved ==
    ASSUME SubInv, NEW p \in Lifes \cup {Scan}, ActivityFails(p)
    PROVE  SubInv'
<1>0. /\ p \in Procs /\ p \in Others \ {Reader} /\ p \notin Payers /\ p # User /\ p # Reader
      /\ Typed /\ pc[p] # "wait"
      /\ UNCHANGED <<subs, past, lapsed, ent, until, cache, paid, back, tries, hist>>
      /\ \E to \in {"off", "ended"} : Go(p, to)
      /\ loc' = loc \/ Keep(p, None)
  BY ProcsApart DEF SubInv, Others, ActivityFails, Forget
<1>1. /\ Total(pc') /\ pc'[p] \in {"off", "ended"} /\ Total(loc') /\ OnlyMoves(p)
  BY <1>0, GoFacts, KeepFacts DEF OnlyMoves, Typed
<1>2. LocOf(p)' /\ ~Writing(p)'
  BY <1>0, <1>1 DEF LocOf, Ending, Writing
<1> QED BY <1>0, <1>1, <1>2, IdleStep

\* Time passes.
LEMMA TimePreserved ==
    ASSUME SubInv,
           CacheTTL \/ \E id \in Ids : ExpiresAtPasses(id) \/ GraceUntilPasses(id)
    PROVE  SubInv'
<1>0. /\ UNCHANGED <<subs, ent, until, paid, back, pc, loc, tries, hist>> /\ cache' \in {cache, None}
      /\ past \subseteq past' /\ past' \subseteq Ids /\ lapsed' \subseteq Ids
  BY DEF SubInv, Typed, CacheTTL, ExpiresAtPasses, GraceUntilPasses
<1>1. User \in Others \ {Reader} /\ User \in Procs
  BY ProcsApart DEF Others
<1>2. /\ Total(pc') /\ Total(loc') /\ OnlyMoves(User) /\ LocOf(User)' /\ pc'[User] = pc[User]
      /\ Writing(User)' => Writing(User) /\ loc'[User] = loc[User]
  BY <1>0, <1>1 DEF SubInv, Typed, OnlyMoves, LocTyped, LocOf, Writing
<1>3. /\ subs' \in [Ids -> SubRow] /\ OneLive'
      /\ \A i \in Ids : subs'[i].st = "active" => subs[i].st = "active"
  BY <1>0, LiveShrinks DEF SubInv, Typed
<1> QED BY <1>0, <1>1, <1>2, <1>3, OtherStep

\* The user cancels: the row that was read is saved whole.
LEMMA CancelPreserved ==
    ASSUME SubInv, Cancel \/ CancelSave
    PROVE  SubInv'
<1>0. /\ User \in Procs /\ User \in Others \ {Reader} /\ User \notin Payers \cup Lifes /\ User # Scan /\ User # Reader
      /\ Typed /\ LocOf(User) /\ pc[User] # "wait"
      /\ UNCHANGED <<past, lapsed, ent, until, cache, paid, back, tries, hist>>
  BY ProcsApart DEF SubInv, LocTyped, Others, Cancel, CancelSave
<1>1. CASE Cancel
  <2>1. Go(User, "save") /\ (\E id \in Ids : Keep(User, id)) /\ subs' = subs
    BY <1>1 DEF Cancel, Live
  <2>2. /\ Total(pc') /\ pc'[User] = "save" /\ Total(loc') /\ loc'[User] \in Ids /\ OnlyMoves(User)
    BY <1>0, <2>1, GoFacts, KeepFacts DEF OnlyMoves
  <2>3. LocOf(User)' /\ ~Writing(User)'
    BY <1>0, <2>2 DEF LocOf, Writing
  <2> QED BY <1>0, <2>1, <2>2, <2>3, IdleStep
<1>2. CASE CancelSave
  <2>1. /\ Go(User, "done") /\ Keep(User, None) /\ loc[User] \in Ids
        /\ subs' = [subs EXCEPT ![loc[User]] = Row("cancelled", FALSE)]
    BY <1>0, <1>2 DEF CancelSave, Forget, LocOf
  <2>2. /\ Total(pc') /\ pc'[User] = "done" /\ Total(loc') /\ OnlyMoves(User)
    BY <1>0, <2>1, GoFacts, KeepFacts DEF OnlyMoves
  <2>3. LocOf(User)' /\ ~Writing(User)'
    BY <1>0, <2>2 DEF LocOf, Writing
  <2>4. /\ subs' \in [Ids -> SubRow] /\ subs'[loc[User]].st = "cancelled"
        /\ \A j \in Ids \ {loc[User]} : subs'[j] = subs[j]
    BY <1>0, <2>1, SaveRow DEF Typed, Statuses
  <2>5. OneLive' /\ \A i \in Ids : subs'[i].st = "active" => subs[i].st = "active"
    BY <2>4, LiveShrinks DEF SubInv
  <2>6. past \subseteq past' /\ past' \subseteq Ids /\ lapsed' \subseteq Ids
    BY <1>0 DEF Typed
  <2> QED BY <1>0, <2>2, <2>3, <2>4, <2>5, <2>6, OtherStep
<1> QED BY <1>1, <1>2

\* A reader of entitlements: what it has read is what it caches.
LEMMA ReaderPreserved ==
    ASSUME SubInv, Refresh \/ CacheSet
    PROVE  SubInv'
<1>0. /\ Reader \in Procs /\ Reader \in Others /\ Reader \notin Payers \cup Lifes /\ Reader # Scan /\ Reader # User
      /\ Typed /\ LocOf(Reader) /\ pc[Reader] \in {"off", "set"}
      /\ UNCHANGED <<subs, past, lapsed, ent, until, paid, back, tries, hist>>
      /\ past' \subseteq Ids /\ lapsed' \subseteq Ids
  BY ProcsApart DEF SubInv, Typed, LocTyped, Others, Refresh, CacheSet
<1>1. /\ \E to \in {"off", "set"} : Go(Reader, to)
      /\ \E x : Keep(Reader, x)
  BY DEF Refresh, CacheSet, Forget
<1>2. /\ Total(pc') /\ pc'[Reader] \in {"off", "set"} /\ Total(loc') /\ OnlyMoves(Reader)
  BY <1>0, <1>1, GoFacts, KeepFacts DEF OnlyMoves
<1>3. subs' \in [Ids -> SubRow] /\ OneLive' /\ ent' \in Ids \cup {Free} /\ until' \in Ids \cup {None}
  BY <1>0, LiveShrinks DEF SubInv, Typed
<1>4. /\ cache' \in Ids \cup {Free, None}
      /\ pc'[Reader] = "set" => loc'[Reader] \in Ids \cup {Free}
      /\ \A id \in Ids : until \notin past /\ ent = id /\ SeenOf(id) => SeenOf(id)'
  <2>1. CASE Refresh
    <3>1. Keep(Reader, Readable) /\ cache' = cache
      BY <2>1 DEF Refresh
    <3>2. loc'[Reader] = IF until \in past THEN Free ELSE ent
      BY <1>0, <3>1, KeepFacts DEF Readable
    <3> QED BY <1>0, <3>1, <3>2 DEF Typed, SeenOf
  <2>2. CASE CacheSet
    <3>1. cache' = loc[Reader] /\ pc[Reader] = "set" /\ Go(Reader, "off")
      BY <2>2 DEF CacheSet
    <3>2. pc'[Reader] = "off" /\ loc[Reader] \in Ids \cup {Free}
      BY <1>0, <3>1, GoFacts DEF LocOf
    <3> QED BY <3>1, <3>2 DEF SeenOf
  <2> QED BY <2>1, <2>2
<1>5. LocOf(Reader)'
  BY <1>0, <1>2, <1>4 DEF LocOf
<1>6. EntInv'
  <2> SUFFICES ASSUME NEW id \in Ids, Good(id)' PROVE EntOf(id)'
    BY DEF EntInv
  <2>1. EntOf(id) /\ id \notin past
    BY <1>0 DEF Good, SubInv, EntInv
  <2>2. \A q \in Payers : q \in Procs \ {Reader} /\ pc'[q] = pc[q]
    BY <1>0, <1>2, ProcsApart DEF OnlyMoves
  <2>3. InSync' = InSync
    BY <2>2 DEF InSync
  <2>4. ASSUME NEW q \in Procs, Writing(q)' PROVE q \in InSync' /\ loc'[q] = id
    <3>1. q # Reader
      BY <1>2, <2>4 DEF Writing
    <3>2. Writing(q) /\ loc'[q] = loc[q]
      BY <1>2, <2>4, <3>1 DEF Writing, OnlyMoves
    <3> QED BY <2>1, <2>3, <3>2 DEF EntOf
  <2>5. (\E q \in Payers : pc'[q] = "inval") => RowsOf(id)'
    BY <1>0, <2>1, <2>2 DEF EntOf, RowsOf
  <2>6. InSync' = {} => RowsOf(id)' /\ (until' \notin past' => SeenOf(id)')
    BY <1>0, <1>4, <2>1, <2>3 DEF EntOf, RowsOf
  <2> QED BY <2>4, <2>5, <2>6 DEF EntOf
<1> QED BY <1>0, <1>2, <1>3, <1>4, <1>5, <1>6, OtherFrame

\* The scanner starts lifecycles: of a subscription whose lifecycle does not
\* run, so that no renewal of it is under way either.
LEMMA ScanActivePreserved ==
    ASSUME SubInv, ScanActive
    PROVE  SubInv'
<1>0. /\ Typed /\ LocTyped /\ Scan \in Procs /\ Scan \notin Payers \cup Lifes /\ Scan # User /\ Scan # Reader
      /\ UNCHANGED <<subs, past, lapsed, ent, until, cache, paid, back, tries, hist>>
  BY ProcsApart DEF SubInv, ScanActive
<1>1. PICK due \in SUBSET Ids :
        /\ \A id \in due : pc[Life(id)] = "off"
        /\ pc[Scan] = "off"
        /\ pc' = [p \in Procs |-> IF \E id \in due : p = Life(id) THEN "check"
                                  ELSE IF \E id \in due : p = Renew(id) THEN "off"
                                  ELSE IF p = Scan THEN "list" ELSE pc[p]]
        /\ loc' = [p \in Procs |-> IF \E id \in due : p = Life(id) THEN subs[p[2]].auto ELSE loc[p]]
  BY <1>0 DEF ScanActive, Running, Typed
<1>2. \A id \in due : Life(id)[2] = id /\ subs[id].auto \in BOOLEAN
  BY <1>0 DEF Life, Typed, SubRow
<1>3. \A id \in due : pc[Renew(id)] \notin Mid \cup {"debit"}
  BY <1>1 DEF SubInv, RenewWaited
<1>4. Total(pc') /\ Total(loc')
  BY <1>1 DEF Total
<1>5. ASSUME NEW q \in Procs
      PROVE  \/ \E id \in due : q = Life(id) /\ pc'[q] = "check" /\ loc'[q] \in BOOLEAN
             \/ \E id \in due : q = Renew(id) /\ pc'[q] = "off" /\ loc'[q] = loc[q]
             \/ q = Scan /\ pc'[q] = "list" /\ loc'[q] = loc[q]
             \/ pc'[q] = pc[q] /\ loc'[q] = loc[q]
  BY <1>1, <1>2
<1>6. \A id \in due : pc'[Renew(id)] = "off"
  <2> SUFFICES ASSUME NEW id \in due PROVE pc'[Renew(id)] = "off"
    OBVIOUS
  <2>1. Renew(id) \in Procs /\ Renew(id) \notin Lifes
    BY ProcsApart
  <2>2. ~\E i \in due : Renew(id) = Life(i)
    BY <2>1 DEF Lifes
  <2> QED BY <1>1, <2>1, <2>2
<1>7. Typed' /\ OneLive'
  BY <1>0, <1>4 DEF SubInv, Typed, OneLive, Live
<1>8. LocTyped'
  <2> SUFFICES ASSUME NEW q \in Procs PROVE LocOf(q)'
    BY DEF LocTyped
  <2>1. CASE \E id \in due : q = Life(id) /\ pc'[q] = "check" /\ loc'[q] \in BOOLEAN
    <3>1. q \in Lifes /\ q \notin Payers /\ q # Scan /\ q # User /\ q # Reader
      BY <2>1, ProcsApart
    <3> QED BY <2>1, <3>1 DEF LocOf, Ending
  <2>2. CASE \E id \in due : q = Renew(id) /\ pc'[q] = "off" /\ loc'[q] = loc[q]
    BY <2>2 DEF LocOf, Syncing, Ending
  <2>3. CASE q = Scan /\ pc'[q] = "list" /\ loc'[q] = loc[q]
    BY <2>3 DEF LocOf, Syncing, Ending
  <2>4. CASE pc'[q] = pc[q] /\ loc'[q] = loc[q]
    BY <1>0, <2>4 DEF LocTyped, LocOf
  <2> QED BY <1>5, <2>1, <2>2, <2>3, <2>4
<1>9. RenewWaited'
  <2> SUFFICES ASSUME NEW j \in Ids, pc'[Renew(j)] \in Mid \cup {"debit"} PROVE pc'[Life(j)] = "wait"
    BY DEF RenewWaited
  <2>0. Renew(j) \in Procs /\ Life(j) \in Procs /\ Renew(j) \notin Lifes /\ Renew(j) # Scan /\ Life(j) # Scan
        /\ Life(j) \notin Payers
    BY ProcsApart
  <2>1. j \notin due
    BY <1>6 DEF Mid
  <2>2. (\A id \in due : Life(j) # Life(id) /\ Renew(j) # Renew(id) /\ Life(j) # Renew(id) /\ Renew(j) # Life(id))
    BY <2>1, ProcsApart
  <2>3. pc'[Renew(j)] = pc[Renew(j)] /\ pc'[Life(j)] = pc[Life(j)]
    BY <1>5, <2>0, <2>2
  <2> QED BY <2>3 DEF SubInv, RenewWaited
<1>10. ASSUME NEW q \in Payers
       PROVE  pc'[q] = pc[q] \/ (q \notin Buyers /\ pc[q] \notin Mid /\ pc'[q] = "off")
  <2>1. q \in Procs /\ q \notin Lifes /\ q # Scan /\ \A id \in due : q # Life(id)
    BY ProcsApart
  <2>2. ASSUME NEW id \in due, q = Renew(id) PROVE q \notin Buyers /\ pc[q] \notin Mid
    BY <1>3, <2>2, ProcsApart
  <2> QED BY <1>5, <2>1, <2>2
<1>11. PayInv'
  <2> SUFFICES ASSUME NEW q \in Payers PROVE PayOf(q)'
    BY DEF PayInv
  <2>1. PayOf(q)
    BY DEF SubInv, PayInv
  <2> QED BY <1>0, <1>10, <2>1, PayKept DEF Mid
<1>12. EntInv'
  <2>1. ASSUME NEW q \in Procs, Writing(q)' PROVE Writing(q) /\ loc'[q] = loc[q] /\ pc'[q] = pc[q]
    BY <1>5, <2>1 DEF Writing
  <2>2. ASSUME NEW q \in InSync PROVE pc'[q] \in Syncing
    BY <1>10 DEF InSync, Syncing, Mid
  <2>3. pc'[Reader] = pc[Reader] /\ loc'[Reader] = loc[Reader]
    <3>1. Reader \in Procs /\ Reader # Scan /\ \A id \in due : Reader # Life(id) /\ Reader # Renew(id)
      BY ProcsApart
    <3> QED BY <1>5, <3>1
  <2> QED BY <1>0, <2>1, <2>2, <2>3, EntKept DEF SubInv
<1> QED BY <1>7, <1>8, <1>9, <1>11, <1>12 DEF SubInv

\* The scanner turns to an overdue grace period, or has none.
LEMMA ScanGracePreserved ==
    ASSUME SubInv, ScanGrace
    PROVE  SubInv'
<1>0. /\ Scan \in Procs /\ Scan \in Others \ {Reader} /\ Scan \notin Payers \cup Lifes /\ Scan # User /\ Scan # Reader
      /\ Typed /\ pc[Scan] # "wait"
      /\ UNCHANGED <<subs, past, lapsed, ent, until, cache, paid, back, tries, hist>>
  BY ProcsApart DEF SubInv, Others, ScanGrace
<1>1. \/ Go(Scan, "ended") /\ loc' = loc
      \/ Go(Scan, "end") /\ \E id \in Ids : Keep(Scan, id)
  BY <1>0 DEF ScanGrace, Typed
<1>2. /\ Total(pc') /\ Total(loc') /\ OnlyMoves(Scan)
      /\ pc'[Scan] = "ended" \/ (pc'[Scan] = "end" /\ loc'[Scan] \in Ids)
  BY <1>0, <1>1, GoFacts, KeepFacts DEF OnlyMoves, Typed
<1>3. LocOf(Scan)' /\ ~Writing(Scan)'
  BY <1>0, <1>2 DEF LocOf, Ending, Writing
<1> QED BY <1>0, <1>2, <1>3, IdleStep

\* The scanner ends, with the lifecycles and renewals it started or without.
LEMMA ScanEndsPreserved ==
    ASSUME SubInv, ScanEnds
    PROVE  SubInv'
<1>0. /\ Typed /\ LocTyped /\ Scan \in Procs /\ Scan \notin Payers \cup Lifes /\ Scan # User /\ Scan # Reader
      /\ UNCHANGED <<subs, past, lapsed, ent, until, cache, paid, back, tries>>
  BY ProcsApart DEF SubInv, ScanEnds
<1>1. PICK ps \in {{}, Lifes \cup Renewals} :
        /\ pc' = [Stopped(ps) EXCEPT ![Scan] = "off"]
        /\ hist' = Spoiled(ps)
        /\ loc' = [p \in Procs |-> IF p = Scan \/ p \in ps THEN None ELSE loc[p]]
  BY DEF ScanEnds, Lifes
<1>2. /\ Total(pc') /\ Total(loc')
      /\ \A q \in Procs : pc'[q] = IF q = Scan \/ q \in ps THEN "off" ELSE pc[q]
      /\ \A q \in Procs : q # Scan /\ q \notin ps => loc'[q] = loc[q]
  BY <1>1 DEF Stopped, Total
<1>3. /\ hist' \in HistRow /\ hist'.got = hist.got
      /\ hist.unlucky \subseteq hist'.unlucky /\ hist.raced \subseteq hist'.raced
      /\ \A p \in ps \cap Payers : /\ pc[p] \in Mid => p \in hist'.unlucky
                                   /\ pc[p] \in Syncing => loc[p] \in hist'.raced
  BY <1>0, <1>1, SpoiledFacts
<1>4. Reader \in Procs /\ Reader \notin ps /\ Reader # Scan /\ \A q \in Payers : q \in Procs /\ q # Scan
  BY <1>0, ProcsApart
<1>5. Typed' /\ OneLive'
  BY <1>0, <1>2, <1>3 DEF SubInv, Typed, OneLive, Live
<1>6. LocTyped'
  <2> SUFFICES ASSUME NEW q \in Procs PROVE LocOf(q)'
    BY DEF LocTyped
  <2>1. CASE q = Scan \/ q \in ps
    <3>1. pc'[q] = "off"
      BY <1>2, <2>1
    <3> QED BY <3>1 DEF LocOf, Syncing, Ending
  <2>2. CASE ~(q = Scan \/ q \in ps)
    <3>1. pc'[q] = pc[q] /\ loc'[q] = loc[q]
      BY <1>2, <2>2
    <3> QED BY <1>0, <3>1 DEF LocTyped, LocOf
  <2> QED BY <2>1, <2>2
<1>7. RenewWaited'
  <2> SUFFICES ASSUME NEW j \in Ids, pc'[Renew(j)] \in Mid \cup {"debit"} PROVE pc'[Life(j)] = "wait"
    BY DEF RenewWaited
  <2>0. Renew(j) \in Procs /\ Life(j) \in Procs /\ Life(j) # Scan /\ Renew(j) # Scan /\ Renew(j) \in Renewals
    BY ProcsApart
  <2>1. Renew(j) \notin ps
    BY <1>2, <2>0 DEF Mid
  <2>2. ps = {}
    BY <2>0, <2>1
  <2>3. pc'[Renew(j)] = pc[Renew(j)] /\ pc'[Life(j)] = pc[Life(j)]
    BY <1>2, <2>0, <2>2
  <2> QED BY <2>3 DEF SubInv, RenewWaited
<1>8. PayInv'
  <2> SUFFICES ASSUME NEW q \in Payers PROVE PayOf(q)'
    BY DEF PayInv
  <2>1. PayOf(q) /\ q \in Procs /\ q # Scan
    BY <1>4 DEF SubInv, PayInv
  <2>2. CASE q \in ps
    <3>1. q \notin Buyers
      BY <2>2, ProcsApart
    <3>2. pc'[q] = "off" /\ (pc[q] \in Mid => q \in hist'.unlucky)
      BY <1>2, <1>3, <2>1, <2>2
    <3> QED BY <1>0, <1>3, <2>1, <3>1, <3>2, PayKept DEF Mid
  <2>3. CASE q \notin ps
    <3>1. pc'[q] = pc[q]
      BY <1>2, <2>1, <2>3
    <3> QED BY <1>0, <1>3, <2>1, <3>1, PayKept
  <2> QED BY <2>2, <2>3
<1>9. EntInv'
  <2>1. ASSUME NEW q \in Procs, Writing(q)' PROVE Writing(q) /\ loc'[q] = loc[q] /\ pc'[q] = pc[q]
    <3>1. ~(q = Scan \/ q \in ps)
      BY <1>2, <2>1 DEF Writing
    <3> QED BY <1>2, <2>1, <3>1 DEF Writing
  <2>2. ASSUME NEW q \in InSync PROVE pc'[q] \in Syncing \/ loc[q] \in hist'.raced
    <3>1. q \in Payers /\ pc[q] \in Syncing /\ q \in Procs /\ q # Scan
      BY <1>4 DEF InSync
    <3> QED BY <1>2, <1>3, <3>1
  <2>3. pc'[Reader] = pc[Reader] /\ loc'[Reader] = loc[Reader]
    BY <1>2, <1>4
  <2> QED BY <1>0, <1>3, <2>1, <2>2, <2>3, EntKept DEF SubInv
<1> QED BY <1>5, <1>6, <1>7, <1>8, <1>9 DEF SubInv

-----------------------------------------------------------------------------
(* The invariant, and what it shows.                                        *)

\* The first states satisfy the invariant.
LEMMA SubInit == Init => SubInv
<1> SUFFICES ASSUME Init PROVE SubInv
  OBVIOUS
<1>0. 1 \in Ids /\ Ids \subseteq Nat
  BY SubscriptionAssumption DEF Ids
<1>1. PICK auto \in BOOLEAN : subs = [id \in Ids |-> IF id = 1 THEN Row("active", auto) ELSE Row("none", FALSE)]
  BY DEF Init
<1>2. Row("active", auto) \in SubRow /\ Row("active", auto).st = "active"
  BY DEF Row, SubRow, Statuses
<1>3. Row("none", FALSE) \in SubRow /\ Row("none", FALSE).st = "none"
  BY DEF Row, SubRow, Statuses
<1>4. subs \in [Ids -> SubRow] /\ \A id \in Ids : subs[id].st \in {"active", "grace"} => id = 1
  BY <1>1, <1>2, <1>3
<1>5. hist \in HistRow /\ hist.got = {} /\ hist.unlucky = {} /\ hist.raced = {}
  BY DEF Init, HistRow
<1>6. /\ \A p \in Procs : pc[p] = "off"
      /\ Total(pc) /\ Total(loc)
  BY DEF Init, Total
<1>7. /\ paid \in [Payers -> Nat] /\ back \in [Payers -> Nat] /\ tries \in [Payers -> Nat]
      /\ \A p \in Payers : paid[p] = 0 /\ back[p] = 0
  BY DEF Init
<1>8. Typed
  BY <1>0, <1>4, <1>5, <1>6, <1>7 DEF Init, Typed
<1>9. OneLive
  BY <1>4 DEF OneLive, Live
<1>10. LocTyped
  BY <1>6 DEF LocTyped, LocOf, Syncing, Ending
<1>11. RenewWaited
  BY <1>6, ProcsApart DEF RenewWaited, Mid
<1>12. PayInv
  BY <1>5, <1>6, <1>7, ProcsApart DEF PayInv, PayOf, Mid
<1>13. EntInv
  <2> SUFFICES ASSUME NEW id \in Ids, Good(id) PROVE EntOf(id)
    BY DEF EntInv
  <2>1. id = 1
    BY <1>4 DEF Good
  <2>2. RowsOf(1) /\ cache = None
    BY DEF Init, RowsOf
  <2>3. \A q \in Procs : ~Writing(q)
    BY <1>6 DEF Writing
  <2>4. (\A q \in Payers : pc[q] = "off") /\ pc[Reader] = "off"
    BY <1>6, ProcsApart
  <2> QED BY <2>1, <2>2, <2>3, <2>4 DEF EntOf, SeenOf
<1> QED BY <1>8, <1>9, <1>10, <1>11, <1>12, <1>13 DEF SubInv

\* Every step preserves it.
LEMMA SubStep == SubInv /\ [Next]_vars => SubInv'
<1> SUFFICES ASSUME SubInv, [Next]_vars PROVE SubInv'
  OBVIOUS
<1>1. CASE UNCHANGED vars
  BY <1>1 DEF vars, SubInv, Typed, OneLive, Live, LocTyped, LocOf, RenewWaited, PayInv, PayOf,
              EntInv, EntOf, RowsOf, SeenOf, Good, InSync, Writing
<1>2. ASSUME NEW p \in Payers,
             Checkout(p) \/ Debit(p) \/ Activate(p) \/ ActivateBreaks(p) \/ Credit(p) \/ BuyerDies(p)
      PROVE  SubInv'
  BY <1>2, CheckoutPreserved, DebitPreserved, LookPreserved, CreatePreserved, SyncPreserved,
     ServedPreserved, BreaksPreserved, CreditPreserved, DiesPreserved DEF Activate
<1>3. ASSUME NEW id \in Ids, Lifecycle(id) PROVE SubInv'
  <2>1. Life(id) \in Lifes \cup {Scan}
    BY ProcsApart
  <2> QED BY <1>3, <2>1, LifePreserved, LifeRenewPreserved, ExpireSavePreserved, EndGracePreserved,
             ActivityFailsPreserved DEF Lifecycle
<1>4. ASSUME EndGrace(Scan) \/ ActivityFails(Scan) PROVE SubInv'
  BY <1>4, EndGracePreserved, ActivityFailsPreserved
<1> QED BY <1>1, <1>2, <1>3, <1>4, TimePreserved, CancelPreserved, ReaderPreserved,
           ScanActivePreserved, ScanGracePreserved, ScanEndsPreserved DEF Next

\* The invariant holds in every behaviour.
LEMMA SubInvariant == Spec => []SubInv
<1> QED BY SubInit, SubStep, PTL DEF Spec

\* Rows, entitlements and cache keep their types, and no interleaving of
\* checkouts, renewals, cancellations and expiries makes two rows live.
THEOREM SubTypeSafe == Spec => []TypeOK
<1>1. SubInv => TypeOK
  <2> SUFFICES ASSUME SubInv PROVE TypeOK
    OBVIOUS
  <2>1. Cardinality(Live) <= 1
    <3>1. CASE Live = {}
      BY <3>1, FS_EmptySet
    <3>2. CASE Live # {}
      <4>1. PICK id \in Ids : Live = {id}
        BY <3>2 DEF SubInv, OneLive, Live
      <4>2. Cardinality(Live) = 1
        BY <4>1, FS_Singleton
      <4> QED BY <4>2
    <3> QED BY <3>1, <3>2
  <2> QED BY <2>1 DEF SubInv, Typed, TypeOK, SubRow, Statuses
<1> QED BY <1>1, SubInvariant, PTL

\* A renewal is charged once however often it is started and retried, and no
\* payer is given back more than was taken.
THEOREM SubChargedOnce == Spec => []ChargedOnce
<1>1. SubInv => ChargedOnce
  BY ProcsApart DEF SubInv, PayInv, PayOf, ChargedOnce
<1> QED BY <1>1, SubInvariant, PTL

\* A payer that has ended has paid if it was served, and nothing if not, unless
\* it was unlucky in one of the ways the model names.
THEOREM SubPaidForService == Spec => []PaidForService
<1>1. SubInv => PaidForService
  BY DEF SubInv, PayInv, PayOf, PaidForService, Mid
<1> QED BY <1>1, SubInvariant, PTL

\* The active subscription grants its entitlements, through rows and cache,
\* unless one of the races and faults that the model names has spoilt it.
THEOREM SubEntitled == Spec => []EntitledWhileLive
<1>1. SubInv => EntitledWhileLive
  <2> SUFFICES ASSUME SubInv, NEW id \in Ids \ hist.raced, subs[id].st = "active", id \notin past,
                      id \in Forever => until \notin past,
                      \A p \in Payers : pc[p] \in Syncing => loc[p] # id
               PROVE  Served = id
    BY DEF EntitledWhileLive, Syncing
  <2>1. EntOf(id)
    BY DEF SubInv, EntInv, Good
  <2>2. InSync = {}
    BY <2>1, ProcsApart DEF EntOf, InSync, Writing, Syncing
  <2>3. RowsOf(id) /\ (until \notin past => SeenOf(id))
    BY <2>1, <2>2 DEF EntOf
  <2> QED BY <2>3 DEF RowsOf, SeenOf, Served, Readable
<1> QED BY <1>1, SubInvariant, PTL
=============================================================================
