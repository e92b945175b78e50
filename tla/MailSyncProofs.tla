--------------------------- MODULE MailSyncProofs ---------------------------
(***************************************************************************)
(* Proofs of the safety properties of module MailSync, for every set of    *)
(* folders and messages, every window and any number of commands, faults   *)
(* and crashes.                                                            *)
(*                                                                         *)
(* A uid names one message of its folder for ever (Own), which is what a   *)
(* row keeps and what a batch that has been fetched brings.  Every uid a   *)
(* delta fetch or a backfill has been through, and does not have in its    *)
(* batch any more, is done: gone, known, or excused (Done).  Server steps  *)
(* and the steps of the other function leave that so, because uids below   *)
(* uidNext are never given out again and a removed row excuses every place *)
(* its message is in.                                                      *)
(***************************************************************************)
EXTENDS MailSync, TLAPS, WellFoundedInduction, FiniteSetTheorems

Delta == {"fetch", "message", "store", "retag"}
Back == {"bboot", "bfetch", "bmessage"}
Reading == {"message", "store", "retag", "bmessage"}

SyncRow == [lastSeen : 0..MaxUid, cursor : 0..MaxUid]
Entries == [uid : Uids, mid : Mids]

\* q has the locals of a function.
Local(q) ==
    q = [pc |-> q.pc, box |-> q.box, todo |-> q.todo, top |-> q.top, ls |-> q.ls, pos |-> q.pos,
         mx |-> q.mx, batch |-> q.batch, held |-> q.held, to |-> q.to, cmd |-> q.cmd]

Typed ==
    /\ srv \in [Boxes -> [Uids -> Mids \cup {None}]]
    /\ uidNext \in [Boxes -> 1..(MaxUid + 1)]
    /\ sync \in [Boxes -> SyncRow \cup {None}]
    /\ rows \subseteq Rows
    /\ proc = [p \in Procs |-> proc[p]]
    /\ conn \in [sel : Boxes \cup {None}, lock : Procs \cup {None}]
    /\ hist = [arrived |-> hist.arrived, boot |-> hist.boot, top |-> hist.top, excused |-> hist.excused]
    /\ hist.boot \in [Boxes -> Nat] /\ hist.top \in [Boxes -> Nat]

\* The message at u of b is gone, known, without a Message-ID or excused.
Done(b, u) == srv[b][u] = None \/ srv[b][u] \in Known \cup Anonymous \/ <<b, u>> \in hist.excused

\* Uid u of b has been given out, and to m, unless the place is excused.
Own(b, u, m) == u < uidNext[b] /\ (srv[b][u] \in {m, None} \/ <<b, u>> \in hist.excused)

\* Uid u is not in the batch of p any more.
Through(p, u) == \A e \in proc[p].batch : e.uid # u

\* Where a first backfill lets delta fetches begin, of a folder of n uids.
BootAt(n) == IF n < Tail THEN 0 ELSE n - Tail + 1

\* A delta fetch at work in a folder.
DeltaOf(p) ==
    LET q == proc[p] IN
    /\ q.top \in Nat /\ q.top < uidNext[q.box]
    /\ q.pos \in Nat /\ 1 <= q.pos /\ q.pos <= q.top + 1 /\ q.mx \in Nat /\ q.mx < q.pos
    /\ q.pc = "fetch" => q.pos <= q.top
    /\ \A e \in q.batch : e.uid < q.pos
    /\ \A u \in Uids : hist.boot[q.box] < u /\ u < q.pos /\ Through(p, u) => Done(q.box, u)
    /\ q.pc \in {"store", "retag"} => q.batch # {}
    /\ q.pc = "retag" => Done(q.box, First(q.batch).uid)

\* A backfill at work in a folder.
BackOf(p) ==
    LET q == proc[p] IN
    /\ q.pos = sync[q.box].cursor
    /\ q.pc = "bboot" => /\ q.top \in Nat /\ q.top < uidNext[q.box]
                         /\ hist.boot[q.box] <= BootAt(q.top)
    /\ q.pc \in {"bfetch", "bmessage"} => q.pos > 0
    /\ q.pc = "bmessage" => \A u \in BackStart(q)..q.pos : Through(p, u) => Done(q.box, u)

ProcOf(p) ==
    LET q == proc[p] IN
    /\ Local(q)
    /\ q.todo \subseteq {b \in Boxes : sync[b] \in SyncRow}
    /\ q.held \subseteq Rows
    /\ q.batch \subseteq Entries
    /\ q.pc \notin Reading => q.batch = {} /\ q.mx = 0
    /\ q.pc \in Delta \cup Back => /\ q.box \in Boxes /\ sync[q.box] \in SyncRow /\ conn.sel \in Boxes
                                   /\ \A e \in q.batch : Own(q.box, e.uid, e.mid)
    /\ q.pc \in Delta => DeltaOf(p)
    /\ q.pc \in Back => p = "job" /\ BackOf(p)
    /\ q.pc \in {"imapmove", "dbmove"} => q.box \in Boxes /\ q.to \in Boxes
    /\ q.pc = "imapdelete" => q.box \in Boxes
ProcInv == \A p \in Procs : ProcOf(p)

\* What backfill and delta fetches have been through.
Seen(b) ==
    {u \in Uids : sync[b] # None /\ \/ hist.boot[b] < u /\ u <= sync[b].lastSeen
                                    \/ sync[b].cursor < u /\ u <= hist.top[b]}

\* What the cursors of a folder say is below uidNext, and done.
FolderOf(b) ==
    /\ hist.top[b] < uidNext[b] /\ hist.boot[b] <= BootAt(uidNext[b] - 1)
    /\ sync[b] \in SyncRow => sync[b].lastSeen < uidNext[b] /\ sync[b].cursor < uidNext[b]
    /\ \A u \in Seen(b) : Done(b, u)
FolderInv == \A b \in Boxes : FolderOf(b)

RowsOwn == \A r \in rows : Own(r.from, r.uid, r.mid)

SyncInv == Typed /\ LockOwned /\ ProcInv /\ FolderInv /\ RowsOwn

-----------------------------------------------------------------------------
(* Operators of the model.                                                  *)

\* The bounds are positive numbers.
LEMMA Bounds ==
    /\ Window \in Nat /\ BackWindow \in Nat /\ Tail \in Nat /\ MaxUid \in Nat
    /\ Window > 0 /\ BackWindow > 0 /\ Tail > 0 /\ MaxUid > 0
<1>1. \A n \in {Window, BackWindow, Tail, MaxUid} : n \in Nat \ {0}
  BY MailSyncAssumption
<1>2. \A n \in Nat \ {0} : n \in Nat /\ n > 0
  OBVIOUS
<1> QED BY <1>1, <1>2

\* A row of mailbox_sync is not None.
LEMMA SyncRowApart == None \notin SyncRow
<1>1. SyncRow \subseteq [lastSeen : Nat, cursor : Nat]
  BY Bounds DEF SyncRow
<1> QED BY <1>1, NoneApart

NatLess == OpToRel(<, Nat)

\* A non-empty set of naturals has a least element.
LEMMA LeastNatural ==
    ASSUME NEW T, T \subseteq Nat, T # {}
    PROVE  \E n \in T : \A m \in T : n <= m
<1>1. IsWellFoundedOn(NatLess, Nat)
  BY NatLessThanWellFounded DEF NatLess
<1>2. PICK n \in T : \A m \in T : ~ (<<m, n>> \in NatLess)
  BY <1>1, WFMin
<1>3. \A m \in T : m < n => <<m, n>> \in NatLess
  BY DEF NatLess, OpToRel
<1>4. \A m \in T : n <= m
  <2> TAKE m \in T
  <2>1. m \in Nat /\ n \in Nat
    OBVIOUS
  <2>2. ~(m < n)
    BY <1>2, <1>3
  <2> QED BY <2>1, <2>2
<1>. QED BY <1>4

\* The first entry of a batch is one of it.
LEMMA FirstIn ==
    ASSUME NEW B, B \subseteq Entries, B # {}
    PROVE  First(B) \in B
<1> DEFINE N == {e.uid : e \in B}
<1>1. N \subseteq Nat /\ N # {}
  BY DEF Entries, Uids
<1>2. PICK n \in N : \A m \in N : n <= m
  <2> HIDE DEF N
  <2> QED BY <1>1, LeastNatural
<1>3. \E e \in B : \A f \in B : e.uid <= f.uid
  BY <1>2
<1> QED BY <1>3 DEF First

\* A function that has nothing to do.
LEMMA IdleFacts ==
    /\ Local(Idle) /\ Idle.pc = "idle" /\ Idle.todo = {} /\ Idle.batch = {} /\ Idle.mx = 0 /\ Idle.held = {}
    /\ Idle.top = 0 /\ Idle.ls = 0 /\ Idle.pos = 0 /\ Idle.box = None /\ Idle.to = None /\ Idle.cmd = None
BY DEF Idle, Local

\* The next folder of a loop, or its end.
LEMMA LoopFacts ==
    ASSUME NEW pc, NEW todo
    PROVE  LET q == Loop(pc, todo) IN
           /\ Local(q) /\ q.todo = todo /\ q.batch = {} /\ q.mx = 0 /\ q.held = {}
           /\ q.pc = IF todo = {} THEN "idle" ELSE pc
BY DEF Loop, Idle, Local

\* The entries that a FETCH of folder b brings, which has nothing else there.
LEMMA ListingFacts ==
    ASSUME Typed, NEW b \in Boxes, NEW range, range \subseteq Uids
    PROVE  /\ Listing(b, range) \subseteq Entries
           /\ \A e \in Listing(b, range) : e.uid \in range /\ srv[b][e.uid] = e.mid
           /\ \A u \in range : (\A e \in Listing(b, range) : e.uid # u) => srv[b][u] = None
<1>1. \A u \in range : srv[b][u] \in Mids \cup {None}
  BY DEF Typed
<1>2. ASSUME NEW e \in Listing(b, range)
      PROVE  e \in Entries /\ e.uid \in range /\ srv[b][e.uid] = e.mid
  <2>1. PICK u \in range : srv[b][u] # None /\ e = [uid |-> u, mid |-> srv[b][u]]
    BY DEF Listing
  <2> QED BY <1>1, <2>1 DEF Entries
<1>3. ASSUME NEW u \in range, srv[b][u] # None
      PROVE  \E e \in Listing(b, range) : e.uid = u
  <2> DEFINE e == [uid |-> u, mid |-> srv[b][u]]
  <2>1. e \in Listing(b, range)
    BY <1>3 DEF Listing
  <2> QED BY <2>1
<1> QED BY <1>2, <1>3

-----------------------------------------------------------------------------
(* The server: a uid is given out once.                                     *)

\* Uids that have been given out keep their message or lose it.
Stable ==
    /\ srv' \in [Boxes -> [Uids -> Mids \cup {None}]]
    /\ uidNext' \in [Boxes -> 1..(MaxUid + 1)]
    /\ \A b \in Boxes : uidNext[b] <= uidNext'[b]
    /\ \A b \in Boxes : \A u \in Uids : u < uidNext[b] => srv'[b][u] \in {srv[b][u], None}

\* A server that is left alone.
LEMMA ServerSame == ASSUME Typed, UNCHANGED server PROVE Stable
<1>1. srv' = srv /\ uidNext' = uidNext
  BY DEF server
<1>2. \A b \in Boxes : uidNext[b] \in Int
  BY MailSyncAssumption DEF Typed
<1> QED BY <1>1, <1>2 DEF Stable, Typed

\* New mail gets the next uid.
LEMMA ArriveStable ==
    ASSUME Typed, NEW b \in Boxes, NEW m \in Mids, Arrive(b, m)
    PROVE  Stable
<1>1. /\ uidNext[b] <= MaxUid /\ uidNext[b] \in Uids /\ uidNext[b] + 1 \in 1..(MaxUid + 1)
      /\ srv' = [srv EXCEPT ![b] = [srv[b] EXCEPT ![uidNext[b]] = m]]
      /\ uidNext' = [uidNext EXCEPT ![b] = uidNext[b] + 1]
  BY MailSyncAssumption DEF Typed, Arrive, Uids
<1>2. [srv[b] EXCEPT ![uidNext[b]] = m] \in [Uids -> Mids \cup {None}]
  BY <1>1 DEF Typed
<1>3. srv' \in [Boxes -> [Uids -> Mids \cup {None}]] /\ uidNext' \in [Boxes -> 1..(MaxUid + 1)]
  BY <1>1, <1>2 DEF Typed
<1>4. ASSUME NEW c \in Boxes PROVE uidNext[c] <= uidNext'[c]
  <2>1. uidNext[c] \in Int
    BY MailSyncAssumption DEF Typed
  <2>2. uidNext'[c] = uidNext[c] \/ uidNext'[c] = uidNext[c] + 1
    BY <1>1 DEF Typed
  <2> QED BY <2>1, <2>2
<1>5. ASSUME NEW c \in Boxes, NEW u \in Uids, u < uidNext[c] PROVE srv'[c][u] = srv[c][u]
  <2>1. CASE c = b
    <3>1. u # uidNext[b]
      BY <1>5, <2>1, MailSyncAssumption DEF Typed, Uids
    <3> QED BY <1>1, <2>1, <3>1 DEF Typed
  <2>2. CASE c # b
    BY <1>1, <2>2 DEF Typed
  <2> QED BY <2>1, <2>2
<1> QED BY <1>3, <1>4, <1>5 DEF Stable

\* A deletion leaves uids unused.
LEMMA DeleteStable ==
    ASSUME Typed, NEW b \in Boxes, NEW uids, ServerDelete(b, uids)
    PROVE  Stable
<1> DEFINE f == [u \in Uids |-> IF u \in uids THEN None ELSE srv[b][u]]
<1>1. srv' = [srv EXCEPT ![b] = f] /\ uidNext' = uidNext
  BY DEF ServerDelete
<1>2. f \in [Uids -> Mids \cup {None}] /\ \A u \in Uids : f[u] \in {srv[b][u], None}
  BY DEF Typed
<1> HIDE DEF f
<1>3. srv' \in [Boxes -> [Uids -> Mids \cup {None}]]
  BY <1>1, <1>2 DEF Typed
<1>4. ASSUME NEW c \in Boxes, NEW u \in Uids PROVE srv'[c][u] \in {srv[c][u], None}
  <2>1. CASE c = b
    BY <1>1, <1>2, <2>1 DEF Typed
  <2>2. CASE c # b
    BY <1>1, <2>2 DEF Typed
  <2> QED BY <2>1, <2>2
<1>5. \A c \in Boxes : uidNext[c] \in Int
  BY MailSyncAssumption DEF Typed
<1> QED BY <1>1, <1>3, <1>4, <1>5 DEF Stable, Typed

\* A move gives out new uids in the folder it goes to.
LEMMA MoveStable ==
    ASSUME Typed, NEW src \in Boxes, NEW dst \in Boxes, NEW uids, uids \subseteq Uids,
           ServerMove(src, dst, uids)
    PROVE  Stable
<1> DEFINE gone == {u \in uids : srv[src][u] # None}
           New(u) == uidNext[dst] + Cardinality({v \in gone : v < u})
           f == [u \in Uids |-> IF u \in gone THEN None ELSE srv[src][u]]
           g == [u \in Uids |-> IF \E v \in gone : New(v) = u
                                THEN srv[src][CHOOSE v \in gone : New(v) = u] ELSE srv[dst][u]]
<1>1. /\ uidNext[dst] + Cardinality(gone) <= MaxUid + 1
      /\ srv' = [srv EXCEPT ![src] = f, ![dst] = g]
      /\ uidNext' = [uidNext EXCEPT ![dst] = uidNext[dst] + Cardinality(gone)]
  BY DEF ServerMove
<1>2. /\ Cardinality(gone) \in Nat
      /\ \A u \in gone : Cardinality({v \in gone : v < u}) \in Nat
  <2>1. IsFiniteSet(Uids)
    BY FS_Interval, Bounds DEF Uids
  <2>2. gone \subseteq Uids
    OBVIOUS
  <2>3. IsFiniteSet(gone)
    BY <2>1, <2>2, FS_Subset
  <2>4. ASSUME NEW u \in gone PROVE Cardinality({v \in gone : v < u}) \in Nat
    <3>1. {v \in gone : v < u} \subseteq gone
      OBVIOUS
    <3>2. IsFiniteSet({v \in gone : v < u})
      BY <2>3, <3>1, FS_Subset
    <3> QED BY <3>2, FS_CardinalityType
  <2> QED BY <2>3, <2>4, FS_CardinalityType
<1>3. \A u \in gone : srv[src][u] \in Mids
  BY DEF Typed
<1>4. uidNext[dst] \in Int /\ uidNext[dst] >= 1 /\ \A c \in Boxes : uidNext[c] \in Int
  BY MailSyncAssumption DEF Typed
<1>5. \A u \in gone : New(u) \in Int /\ New(u) >= uidNext[dst]
  BY <1>2, <1>4
<1>6. f \in [Uids -> Mids \cup {None}] /\ \A u \in Uids : f[u] \in {srv[src][u], None}
  BY DEF Typed
<1> HIDE DEF f
<1>7. g \in [Uids -> Mids \cup {None}] /\ \A u \in Uids : u < uidNext[dst] => g[u] = srv[dst][u]
  <2> HIDE DEF New, gone
  <2>1. ASSUME NEW u \in Uids PROVE g[u] \in Mids \cup {None}
    <3>1. CASE \E v \in gone : New(v) = u
      <4>1. (CHOOSE v \in gone : New(v) = u) \in gone
        BY <3>1
      <4> QED BY <1>3, <3>1, <4>1
    <3>2. CASE ~\E v \in gone : New(v) = u
      BY <3>2 DEF Typed
    <3> QED BY <3>1, <3>2
  <2>2. ASSUME NEW u \in Uids, u < uidNext[dst] PROVE g[u] = srv[dst][u]
    <3>1. ~\E v \in gone : New(v) = u
      BY <1>4, <1>5, <2>2 DEF Uids
    <3> QED BY <3>1
  <2> QED BY <2>1, <2>2
<1> HIDE DEF gone, New, g
<1>8. srv' \in [Boxes -> [Uids -> Mids \cup {None}]]
  BY <1>1, <1>6, <1>7 DEF Typed
<1>9. uidNext' \in [Boxes -> 1..(MaxUid + 1)] /\ \A c \in Boxes : uidNext[c] <= uidNext'[c]
  <2>0. uidNext \in [Boxes -> 1..(MaxUid + 1)]
    BY DEF Typed
  <2> DEFINE n == uidNext[dst] + Cardinality(gone)
  <2>1. n \in 1..(MaxUid + 1) /\ uidNext[dst] <= n /\ uidNext' = [uidNext EXCEPT ![dst] = n]
    BY <1>1, <1>2, <1>4, Bounds
  <2> HIDE DEF n
  <2> QED BY <1>4, <2>0, <2>1
<1>10. ASSUME NEW c \in Boxes, NEW u \in Uids, u < uidNext[c] PROVE srv'[c][u] \in {srv[c][u], None}
  <2>1. CASE c = dst
    BY <1>1, <1>7, <1>10, <2>1 DEF Typed
  <2>2. CASE c # dst /\ c = src
    BY <1>1, <1>6, <2>2 DEF Typed
  <2>3. CASE c # dst /\ c # src
    BY <1>1, <2>3 DEF Typed
  <2> QED BY <2>1, <2>2, <2>3
<1> QED BY <1>8, <1>9, <1>10 DEF Stable

-----------------------------------------------------------------------------
(* What a step may do without disturbing a part of the invariant.           *)

\* The server is stable, nothing is unexcused, and what the database loses is
\* excused where it is.
Mono ==
    /\ Stable
    /\ hist.excused \subseteq hist'.excused
    /\ \A m \in Known : m \notin Known' =>
         \A b \in Boxes : \A u \in Uids : srv[b][u] = m => <<b, u>> \in hist'.excused

\* What is done stays done.
LEMMA DoneKept ==
    ASSUME Typed, Mono, NEW b \in Boxes, NEW u \in Uids, u < uidNext[b], Done(b, u)
    PROVE  Done(b, u)'
<1>1. srv'[b][u] \in {srv[b][u], None}
  BY DEF Mono, Stable
<1> QED BY <1>1 DEF Done, Mono

\* A uid keeps its owner.
LEMMA OwnKept ==
    ASSUME Typed, Mono, NEW b \in Boxes, NEW u \in Uids, NEW m, Own(b, u, m)
    PROVE  Own(b, u, m)'
<1>1. srv'[b][u] \in {srv[b][u], None}
  BY DEF Mono, Stable, Own
<1>2. u < uidNext'[b]
  BY MailSyncAssumption DEF Mono, Stable, Own, Typed, Uids
<1> QED BY <1>1, <1>2 DEF Own, Mono

\* A delta fetch that does not move: its folder may be booted meanwhile.
LEMMA DeltaKept ==
    ASSUME Typed, Typed', Mono, NEW p \in Procs, proc'[p] = proc[p], proc[p].box \in Boxes, proc[p].batch \subseteq Entries,
           hist.boot[proc[p].box] <= hist'.boot[proc[p].box], DeltaOf(p)
    PROVE  DeltaOf(p)'
<1> DEFINE b == proc[p].box
<1>1. /\ b \in Boxes /\ proc'[p].box = b /\ uidNext[b] \in Int /\ uidNext'[b] \in Int /\ uidNext[b] <= uidNext'[b]
      /\ hist.boot[b] \in Int /\ hist'.boot[b] \in Int
  BY Bounds DEF Mono, Stable, Typed
<1>2. /\ proc[p].top \in Nat /\ proc[p].top < uidNext[b] /\ proc[p].pos \in Nat /\ proc[p].pos <= proc[p].top + 1
  BY DEF DeltaOf
<1>3. ASSUME NEW u \in Uids, hist'.boot[b] < u, u < proc[p].pos, Through(p, u)'
      PROVE  Done(b, u)'
  <2>1. u \in Int /\ hist.boot[b] < u /\ u < uidNext[b]
    BY <1>1, <1>2, <1>3 DEF Uids
  <2>2. Through(p, u)
    BY <1>3 DEF Through
  <2>3. Done(b, u)
    BY <1>3, <2>1, <2>2 DEF DeltaOf
  <2> QED BY <1>1, <2>1, <2>3, DoneKept
<1>4. ASSUME proc[p].pc = "retag" PROVE Done(b, First(proc[p].batch).uid)'
  <2>1. First(proc[p].batch) \in proc[p].batch
    BY <1>4, FirstIn DEF DeltaOf
  <2> DEFINE u == First(proc[p].batch).uid
  <2>2. u \in Uids /\ u < proc[p].pos /\ Done(b, u)
    BY <1>4, <2>1 DEF DeltaOf, Entries
  <2>3. u < uidNext[b]
    BY <1>1, <1>2, <2>2 DEF Uids
  <2> HIDE DEF u
  <2>4. PICK v \in Uids : v = u
    BY <2>2
  <2>5. Done(b, v)'
    BY <1>1, <2>2, <2>3, <2>4, DoneKept
  <2> QED BY <2>4, <2>5 DEF u
<1>5. proc'[p].top < uidNext'[b]
  BY <1>1, <1>2
<1> QED BY <1>1, <1>3, <1>4, <1>5 DEF DeltaOf

\* A backfill that does not move.
LEMMA BackKept ==
    ASSUME Typed, Typed', Mono, FolderInv, NEW p \in Procs, proc'[p] = proc[p], proc[p].box \in Boxes,
           sync[proc[p].box] \in SyncRow,
           sync'[proc[p].box].cursor = sync[proc[p].box].cursor,
           hist'.boot[proc[p].box] = hist.boot[proc[p].box], BackOf(p)
    PROVE  BackOf(p)'
<1> DEFINE b == proc[p].box
<1>1. /\ b \in Boxes /\ proc'[p].box = b /\ uidNext[b] \in Int /\ uidNext'[b] \in Int /\ uidNext[b] <= uidNext'[b]
      /\ hist.boot[b] \in Int
  BY Bounds DEF Mono, Stable, Typed
<1>2. proc[p].pos \in Nat /\ proc[p].pos < uidNext[b] /\ proc[p].pos <= MaxUid
  BY Bounds DEF BackOf, FolderInv, FolderOf, SyncRow
<1>3. ASSUME proc[p].pc = "bmessage", NEW u \in BackStart(proc[p])..proc[p].pos, Through(p, u)'
      PROVE  Done(b, u)'
  <2>1. u \in Uids /\ u < uidNext[b]
    BY <1>1, <1>2, Bounds DEF BackStart, Uids
  <2>2. Through(p, u)
    BY <1>3 DEF Through
  <2>3. Done(b, u)
    BY <1>3, <2>2 DEF BackOf
  <2> QED BY <1>1, <2>1, <2>3, DoneKept
<1>4. proc[p].pc = "bboot" => proc[p].top \in Nat /\ proc[p].top < uidNext'[b]
  BY <1>1 DEF BackOf
<1> QED BY <1>1, <1>3, <1>4 DEF BackOf

\* The step of another: a function that does not move is as right as before.
LEMMA ProcKept ==
    ASSUME SyncInv, Typed', Mono, NEW p \in Procs, proc'[p] = proc[p],
           \A b \in Boxes : sync[b] \in SyncRow => sync'[b] \in SyncRow,
           \A b \in Boxes : hist.boot[b] <= hist'.boot[b],
           p = "job" => \A b \in Boxes : sync[b] \in SyncRow => /\ sync'[b].cursor = sync[b].cursor
                                                                /\ hist'.boot[b] = hist.boot[b],
           conn.sel \in Boxes => conn'.sel \in Boxes
    PROVE  ProcOf(p)'
<1>0. Typed /\ ProcOf(p)
  BY DEF SyncInv, ProcInv
<1>1. /\ Local(proc[p]) /\ proc[p].held \subseteq Rows /\ proc[p].batch \subseteq Entries
      /\ proc[p].pc \notin Reading => proc[p].batch = {} /\ proc[p].mx = 0
      /\ proc[p].pc \in {"imapmove", "dbmove"} => proc[p].box \in Boxes /\ proc[p].to \in Boxes
      /\ proc[p].pc = "imapdelete" => proc[p].box \in Boxes
      /\ proc[p].todo \subseteq {b \in Boxes : sync'[b] \in SyncRow}
  BY <1>0 DEF ProcOf
<1>2. ASSUME proc[p].pc \in Delta \cup Back
      PROVE  /\ proc[p].box \in Boxes /\ sync'[proc[p].box] \in SyncRow /\ conn'.sel \in Boxes
             /\ \A e \in proc[p].batch : Own(proc[p].box, e.uid, e.mid)'
  <2>1. /\ proc[p].box \in Boxes /\ sync'[proc[p].box] \in SyncRow /\ conn'.sel \in Boxes
        /\ \A e \in proc[p].batch : Own(proc[p].box, e.uid, e.mid)
    BY <1>0, <1>2 DEF ProcOf
  <2>2. ASSUME NEW e \in proc[p].batch PROVE Own(proc[p].box, e.uid, e.mid)'
    <3>1. e.uid \in Uids
      BY <1>1 DEF Entries
    <3>2. PICK b \in Boxes, u \in Uids : b = proc[p].box /\ u = e.uid
      BY <2>1, <3>1
    <3>3. Own(b, u, e.mid)'
      BY <1>0, <2>1, <3>2, OwnKept
    <3> QED BY <3>2, <3>3
  <2> QED BY <2>1, <2>2
<1>3. ASSUME proc[p].pc \in Delta PROVE DeltaOf(p)'
  <2>1. DeltaOf(p) /\ proc[p].box \in Boxes
    BY <1>0, <1>3 DEF ProcOf
  <2> QED BY <1>0, <1>1, <2>1, DeltaKept
<1>4. ASSUME proc[p].pc \in Back PROVE p = "job" /\ BackOf(p)'
  <2>1. BackOf(p) /\ proc[p].box \in Boxes /\ p = "job" /\ sync[proc[p].box] \in SyncRow
    BY <1>0, <1>4 DEF ProcOf
  <2>2. BackOf(p)'
    BY <1>0, <2>1, BackKept DEF SyncInv
  <2> QED BY <2>1, <2>2
<1> QED BY <1>1, <1>2, <1>3, <1>4 DEF ProcOf

\* A folder whose cursors do not move.
LEMMA FolderKept ==
    ASSUME SyncInv, Typed', Mono, NEW b \in Boxes, sync'[b] = sync[b],
           hist'.boot[b] = hist.boot[b], hist'.top[b] = hist.top[b]
    PROVE  FolderOf(b)'
<1>0. Typed /\ FolderOf(b)
  BY DEF SyncInv, FolderInv
<1>1. /\ uidNext[b] \in Int /\ uidNext'[b] \in Int /\ uidNext[b] <= uidNext'[b] /\ 1 <= uidNext[b]
      /\ hist.boot[b] \in Int /\ hist.top[b] \in Int
      /\ sync[b] \in SyncRow => sync[b].lastSeen \in Int /\ sync[b].cursor \in Int
      /\ sync[b] # None => sync[b] \in SyncRow
  BY <1>0, Bounds DEF Mono, Stable, Typed, SyncRow
<1>2. BootAt(uidNext[b] - 1) <= BootAt(uidNext'[b] - 1) /\ BootAt(uidNext[b] - 1) \in Int /\ BootAt(uidNext'[b] - 1) \in Int
  BY <1>1, Bounds DEF BootAt
<1>3. ASSUME NEW u \in Seen(b)' PROVE Done(b, u)'
  <2>1. u \in Uids /\ u \in Seen(b)
    BY DEF Seen
  <2>2. u < uidNext[b]
    BY <1>0, <1>1, <2>1 DEF Seen, FolderOf, Uids
  <2>3. Done(b, u)
    BY <1>0, <2>1 DEF FolderOf
  <2> QED BY <1>0, <2>1, <2>2, <2>3, DoneKept
<1>4. /\ hist'.top[b] < uidNext'[b] /\ hist'.boot[b] <= BootAt(uidNext'[b] - 1)
      /\ sync'[b] \in SyncRow => sync'[b].lastSeen < uidNext'[b] /\ sync'[b].cursor < uidNext'[b]
  BY <1>0, <1>1, <1>2 DEF FolderOf
<1> QED BY <1>3, <1>4 DEF FolderOf

\* Rows that come from rows.
LEMMA RowsKept ==
    ASSUME SyncInv, Mono, \A r \in rows' : \E s \in rows : Same(r, s)
    PROVE  RowsOwn'
<1> SUFFICES ASSUME NEW r \in rows' PROVE Own(r.from, r.uid, r.mid)'
  BY DEF RowsOwn
<1>1. PICK s \in rows : r.mid = s.mid /\ r.from = s.from /\ r.uid = s.uid
  BY DEF Same
<1>2. s.from \in Boxes /\ s.uid \in Uids /\ Own(s.from, s.uid, s.mid)
  BY DEF SyncInv, Typed, Rows, RowsOwn
<1>3. PICK b \in Boxes, u \in Uids : b = s.from /\ u = s.uid
  BY <1>2
<1>4. Own(b, u, s.mid)'
  BY <1>2, <1>3, OwnKept DEF SyncInv
<1> QED BY <1>1, <1>3, <1>4

\* The lock after the step of p.
LEMMA LockFrame ==
    ASSUME LockOwned, NEW p \in Procs, \A q \in Procs \ {p} : proc'[q] = proc[q],
           conn'.lock \in {conn.lock, None, p}, conn'.lock = p => proc'[p].pc \in Delta
    PROVE  LockOwned'
BY NoneApart DEF LockOwned, Delta

\* What is to be shown of a step of p that leaves the cursors alone.
LEMMA StepFrame ==
    ASSUME SyncInv, NEW p \in Procs, \A q \in Procs \ {p} : proc'[q] = proc[q],
           Typed', Mono, ProcOf(p)',
           conn'.lock \in {conn.lock, None, p}, conn'.lock = p => proc'[p].pc \in Delta,
           conn.sel \in Boxes => conn'.sel \in Boxes,
           sync' = sync, hist'.boot = hist.boot, hist'.top = hist.top, RowsOwn'
    PROVE  SyncInv'
<1>1. LockOwned'
  BY LockFrame DEF SyncInv
<1>2. FolderInv'
  BY FolderKept DEF FolderInv
<1>3. ASSUME NEW q \in Procs \ {p} PROVE ProcOf(q)'
  <2>1. \A b \in Boxes : hist.boot[b] \in Int
    BY DEF SyncInv, Typed
  <2> QED BY <2>1, ProcKept
<1>4. ProcInv'
  BY <1>3 DEF ProcInv
<1> QED BY <1>1, <1>2, <1>4 DEF SyncInv

\* A function goes on as r.
LEMMA BecomeFacts ==
    ASSUME Typed, NEW p \in Procs, NEW r, Become(p, r)
    PROVE  /\ proc' = [q \in Procs |-> proc'[q]] /\ proc'[p] = r
           /\ \A q \in Procs \ {p} : proc'[q] = proc[q]
BY DEF Typed, Become

\* The database loses nothing and the server is left alone.
LEMMA MonoSame ==
    ASSUME Typed, UNCHANGED server, Known \subseteq Known', hist.excused \subseteq hist'.excused
    PROVE  Mono
BY ServerSame DEF Mono

\* A function outside of any folder.
LEMMA PlainProc ==
    ASSUME NEW p, Local(proc'[p]), proc'[p].todo \subseteq {b \in Boxes : sync'[b] \in SyncRow},
           proc'[p].held \subseteq Rows, proc'[p].batch = {}, proc'[p].mx = 0,
           proc'[p].pc \notin Delta \cup Back,
           proc'[p].pc \in {"imapmove", "dbmove"} => proc'[p].box \in Boxes /\ proc'[p].to \in Boxes,
           proc'[p].pc = "imapdelete" => proc'[p].box \in Boxes
    PROVE  ProcOf(p)'
BY DEF ProcOf

\* A step of p that only changes what p knows, and perhaps the connection.
LEMMA LocalStep ==
    ASSUME SyncInv, NEW p \in Procs, NEW r, Become(p, r), UNCHANGED <<server, store, hist>>,
           conn' \in [sel : Boxes \cup {None}, lock : Procs \cup {None}], ProcOf(p)',
           conn'.lock \in {conn.lock, None, p}, conn'.lock = p => r.pc \in Delta,
           conn.sel \in Boxes => conn'.sel \in Boxes
    PROVE  SyncInv'
<1>0. Typed /\ sync' = sync /\ rows' = rows /\ srv' = srv /\ uidNext' = uidNext /\ hist' = hist
  BY DEF SyncInv, server, store
<1>1. /\ proc' = [q \in Procs |-> proc'[q]] /\ proc'[p] = r
      /\ \A q \in Procs \ {p} : proc'[q] = proc[q]
  BY <1>0, BecomeFacts
<1>2. Typed'
  BY <1>0, <1>1 DEF Typed
<1>3. Mono
  BY <1>0, MonoSame DEF Known, server
<1>4. RowsOwn'
  BY <1>0, <1>3, RowsKept DEF Same
<1> QED BY <1>0, <1>1, <1>2, <1>3, <1>4, StepFrame

\* A step of the server or of another mail client.
LEMMA ServerStep ==
    ASSUME SyncInv, Stable, UNCHANGED <<store, proc, conn>>,
           hist' = [hist EXCEPT !.arrived = hist'.arrived]
    PROVE  SyncInv'
<1>0. Typed /\ sync' = sync /\ rows' = rows /\ proc' = proc /\ conn' = conn
  BY DEF SyncInv, store
<1>1. /\ hist' = [arrived |-> hist'.arrived, boot |-> hist'.boot, top |-> hist'.top, excused |-> hist'.excused]
      /\ hist'.boot = hist.boot /\ hist'.top = hist.top /\ hist'.excused = hist.excused
  BY <1>0 DEF Typed
<1>2. Typed'
  BY <1>0, <1>1 DEF Typed, Stable
<1>3. Mono
  BY <1>0, <1>1 DEF Known, Mono
<1>4. RowsOwn'
  BY <1>0, <1>3, RowsKept DEF Same
<1>5. "job" \in Procs /\ \A b \in Boxes : hist.boot[b] \in Int
  BY <1>0 DEF Procs, Typed
<1>6. ProcOf("job")'
  BY <1>0, <1>1, <1>2, <1>3, <1>5, ProcKept
<1>7. conn'.lock = "job" => proc'["job"].pc \in Delta
  BY <1>0, <1>5 DEF SyncInv, LockOwned, Delta
<1> QED BY <1>0, <1>1, <1>2, <1>3, <1>4, <1>5, <1>6, <1>7, StepFrame

\* New mail, and other mail clients.
LEMMA OthersPreserved ==
    ASSUME SyncInv,
           \/ \E b \in Boxes, m \in Mids : Arrive(b, m)
           \/ \E b, c \in Boxes, u \in Uids : OtherMove(b, u, c)
           \/ \E b \in Boxes, u \in Uids : OtherExpunge(b, u)
    PROVE  SyncInv'
<1>0. Typed
  BY DEF SyncInv
<1>1. ASSUME NEW b \in Boxes, NEW m \in Mids, Arrive(b, m) PROVE SyncInv'
  <2>1. UNCHANGED <<store, proc, conn>> /\ hist' = [hist EXCEPT !.arrived = m]
    BY <1>1 DEF Arrive
  <2>2. hist'.arrived = m
    BY <1>0, <2>1 DEF Typed
  <2> QED BY <1>0, <1>1, <2>1, <2>2, ArriveStable, ServerStep
<1>2. hist' = hist => hist' = [hist EXCEPT !.arrived = hist'.arrived]
  BY <1>0 DEF Typed
<1>3. ASSUME NEW b \in Boxes, NEW c \in Boxes, NEW u \in Uids, OtherMove(b, u, c) PROVE SyncInv'
  <2>1. UNCHANGED <<store, proc, conn>> /\ hist' = hist /\ ServerMove(b, c, {u}) /\ {u} \subseteq Uids
    BY <1>3 DEF OtherMove
  <2> QED BY <1>0, <1>2, <2>1, MoveStable, ServerStep
<1>4. ASSUME NEW b \in Boxes, NEW u \in Uids, OtherExpunge(b, u) PROVE SyncInv'
  <2>1. UNCHANGED <<store, proc, conn>> /\ hist' = hist /\ ServerDelete(b, {u})
    BY <1>4 DEF OtherExpunge
  <2> QED BY <1>0, <1>2, <2>1, DeleteStable, ServerStep
<1> QED BY <1>1, <1>3, <1>4

\* A function begins: a delta fetch, a backfill, a move or a delete.
LEMMA StartPreserved ==
    ASSUME SyncInv,
           \/ TickStart \/ \E p \in Procs : DeltaStart(p)
           \/ \E t \in Threads, b, c \in Boxes : MoveStart(t, b, c)
           \/ \E t \in Threads, b \in Boxes : DeleteStart(t, b)
    PROVE  SyncInv'
<1>0. Typed /\ UNCHANGED <<server, store, conn, hist>>
  BY DEF SyncInv, TickStart, DeltaStart, MoveStart, DeleteStart
<1>1. sync' = sync /\ rows' = rows /\ conn' = conn
  BY <1>0 DEF store
<1>2. conn' \in [sel : Boxes \cup {None}, lock : Procs \cup {None}]
  BY <1>0, <1>1 DEF Typed
<1>3. \A b \in Boxes : sync[b] # None => sync'[b] \in SyncRow
  BY <1>0, <1>1 DEF Typed
<1>4. ASSUME NEW p \in Procs, proc[p].pc = "idle", NEW r, Become(p, r), ProcOf(p)'
      PROVE  SyncInv'
  <2>1. conn'.lock # p
    BY <1>1, <1>4 DEF SyncInv, LockOwned
  <2> QED BY <1>0, <1>1, <1>2, <1>4, <2>1, LocalStep
<1>5. ASSUME NEW p \in Procs, NEW pc \in {"next", "bnext"}, proc[p].pc = "idle",
             Become(p, Loop(pc, {b \in Boxes : sync[b] # None}))
      PROVE  SyncInv'
  <2> DEFINE r == Loop(pc, {b \in Boxes : sync[b] # None})
  <2>1. /\ Local(r) /\ r.todo = {b \in Boxes : sync[b] # None} /\ r.batch = {} /\ r.mx = 0 /\ r.held = {}
        /\ r.pc \in {"idle", "next", "bnext"}
    BY LoopFacts
  <2> HIDE DEF r
  <2>2. proc'[p] = r
    BY <1>0, <1>5, BecomeFacts DEF r
  <2>3. ProcOf(p)'
    BY <1>3, <2>1, <2>2, PlainProc DEF Delta, Back
  <2> QED BY <1>4, <1>5, <2>3 DEF r
<1>6. ASSUME NEW t \in Threads, NEW b \in Boxes, NEW c \in Boxes, MoveStart(t, b, c) \/ DeleteStart(t, b)
      PROVE  SyncInv'
  <2>0. "job" \in Procs /\ proc["job"].pc = "idle"
    BY <1>6 DEF MoveStart, DeleteStart, Command, Procs
  <2>1. InThread(t, b) \subseteq Rows
    BY <1>0 DEF InThread, Typed
  <2>2. PICK r : /\ Become("job", r) /\ Local(r) /\ r.todo = {} /\ r.batch = {} /\ r.mx = 0
                 /\ r.held = InThread(t, b) /\ r.box = b
                 /\ r.pc = "imapdelete" \/ (r.pc = "imapmove" /\ r.to = c)
    <3>1. CASE MoveStart(t, b, c)
      <4>1. PICK r : /\ r = [Idle EXCEPT !.pc = "imapmove", !.box = b, !.to = c, !.held = InThread(t, b),
                                         !.cmd = <<"move", t, b, c>>]
                     /\ Become("job", r)
        BY <3>1 DEF MoveStart
      <4>2. Local(r) /\ r.todo = {} /\ r.batch = {} /\ r.mx = 0 /\ r.held = InThread(t, b) /\ r.box = b
            /\ r.pc = "imapmove" /\ r.to = c
        BY <4>1, IdleFacts DEF Local
      <4> QED BY <4>1, <4>2
    <3>2. CASE DeleteStart(t, b)
      <4>1. PICK r : /\ r = [Idle EXCEPT !.pc = "imapdelete", !.box = b, !.held = InThread(t, b),
                                         !.cmd = <<"delete", t, b>>]
                     /\ Become("job", r)
        BY <3>2 DEF DeleteStart
      <4>2. Local(r) /\ r.todo = {} /\ r.batch = {} /\ r.mx = 0 /\ r.held = InThread(t, b) /\ r.box = b
            /\ r.pc = "imapdelete"
        BY <4>1, IdleFacts DEF Local
      <4> QED BY <4>1, <4>2
    <3> QED BY <1>6, <3>1, <3>2
  <2>3. proc'["job"] = r
    BY <1>0, <2>0, <2>2, BecomeFacts
  <2>4. ProcOf("job")'
    BY <2>1, <2>2, <2>3, PlainProc DEF Delta, Back
  <2> QED BY <1>4, <2>0, <2>2, <2>4
<1>7. CASE TickStart \/ \E p \in Procs : DeltaStart(p)
  BY <1>5, <1>7 DEF TickStart, DeltaStart, Procs
<1> QED BY <1>6, <1>7

-----------------------------------------------------------------------------
(* The messages of a batch.                                                 *)

\* The locals after a message.
LEMMA HandledFacts ==
    ASSUME NEW q, Local(q), NEW r, r = Handled(q)
    PROVE  /\ Local(r) /\ r.batch = q.batch \ {First(q.batch)} /\ r.held = {}
           /\ r.pc = IF q.pc = "bmessage" THEN "bmessage" ELSE "message"
           /\ r.mx = IF q.pc = "bmessage" THEN 0 ELSE First(q.batch).uid
           /\ r.box = q.box /\ r.todo = q.todo /\ r.top = q.top /\ r.pos = q.pos
<1> DEFINE c == IF q.pc = "bmessage" THEN "bmessage" ELSE "message"
           d == q.batch \ {First(q.batch)}
           n == IF q.pc = "bmessage" THEN 0 ELSE First(q.batch).uid
<1>1. r = [q EXCEPT !.pc = c, !.batch = d, !.held = {}, !.mx = n]
  BY DEF Handled
<1> HIDE DEF c, d, n
<1>2. /\ Local(r) /\ r.batch = d /\ r.held = {} /\ r.pc = c /\ r.mx = n
      /\ r.box = q.box /\ r.todo = q.todo /\ r.top = q.top /\ r.pos = q.pos
  BY <1>1 DEF Local
<1> QED BY <1>2 DEF c, d, n

\* A function is through with a message that is done.
LEMMA HandledProc ==
    ASSUME SyncInv, Typed', Mono, NEW p \in Procs, proc[p].pc \in Reading, proc[p].batch # {},
           proc'[p] = Handled(proc[p]), sync' = sync, conn'.sel = conn.sel, hist'.boot = hist.boot,
           NEW d \in Boxes, d = proc[p].box, NEW v \in Uids, v = First(proc[p].batch).uid, Done(d, v)'
    PROVE  ProcOf(p)'
<1> DEFINE q == proc[p]
           r == proc'[p]
           b == proc[p].box
           x == First(proc[p].batch)
<1>0. Typed /\ ProcOf(p) /\ FolderInv
  BY DEF SyncInv, ProcInv
<1>1. /\ Local(q) /\ q.todo \subseteq {c \in Boxes : sync[c] \in SyncRow} /\ q.batch \subseteq Entries
      /\ b \in Boxes /\ sync[b] \in SyncRow /\ conn.sel \in Boxes
      /\ \A e \in q.batch : Own(b, e.uid, e.mid)
      /\ q.pc # "bmessage" => DeltaOf(p)
      /\ q.pc = "bmessage" => p = "job" /\ BackOf(p)
  BY <1>0 DEF ProcOf, Reading, Delta, Back
<1>2. x \in q.batch /\ x.uid \in Uids
  BY <1>1, FirstIn DEF Entries
<1>3. /\ Local(r) /\ r.batch = q.batch \ {x} /\ r.held = {}
      /\ r.pc = IF q.pc = "bmessage" THEN "bmessage" ELSE "message"
      /\ r.mx = IF q.pc = "bmessage" THEN 0 ELSE x.uid
      /\ r.box = b /\ r.todo = q.todo /\ r.top = q.top /\ r.pos = q.pos
  BY <1>1, HandledFacts
<1>4. /\ uidNext[b] \in Int /\ uidNext'[b] \in Int /\ uidNext[b] <= uidNext'[b]
      /\ sync'[b] \in SyncRow /\ conn'.sel \in Boxes
  <2>1. uidNext \in [Boxes -> 1..(MaxUid + 1)] /\ uidNext' \in [Boxes -> 1..(MaxUid + 1)]
    BY <1>0 DEF Typed, Mono, Stable
  <2>2. uidNext[b] <= uidNext'[b]
    BY <1>1 DEF Mono, Stable
  <2> QED BY <1>1, <2>1, <2>2
<1>5. ASSUME NEW e \in r.batch PROVE Own(b, e.uid, e.mid)'
  <2>1. PICK c \in Boxes, u \in Uids : c = b /\ u = e.uid
    BY <1>1, <1>3 DEF Entries
  <2>2. Own(c, u, e.mid)'
    BY <1>0, <1>1, <1>3, <2>1, OwnKept
  <2> QED BY <1>3, <2>1, <2>2
<1>6. ASSUME NEW u \in Uids, Through(p, u)', u # v PROVE Through(p, u)
  BY <1>3, <1>6 DEF Through
<1>7. ASSUME NEW u \in Uids, u < uidNext[b], Done(b, u) PROVE Done(b, u)'
  <2>1. PICK c \in Boxes : c = b
    BY <1>1
  <2>2. Done(c, u)'
    BY <1>0, <1>7, <2>1, DoneKept
  <2> QED BY <1>3, <2>1, <2>2
<1>8. Done(b, v)'
  BY <1>3
<1>9. CASE q.pc # "bmessage"
  <2>1. /\ q.top \in Nat /\ q.top < uidNext[b] /\ q.pos \in Nat /\ 1 <= q.pos /\ q.pos <= q.top + 1
        /\ \A e \in q.batch : e.uid < q.pos
        /\ \A u \in Uids : hist.boot[b] < u /\ u < q.pos /\ Through(p, u) => Done(b, u)
    BY <1>1, <1>9 DEF DeltaOf
  <2>2. ASSUME NEW u \in Uids, hist'.boot[b] < u, u < q.pos, Through(p, u)' PROVE Done(b, u)'
    <3>1. CASE u = v
      BY <1>8, <3>1
    <3>2. CASE u # v
      <4>1. Through(p, u)
        BY <1>6, <2>2, <3>2
      <4>2. Done(b, u) /\ u < uidNext[b]
        BY <1>4, <2>1, <2>2, <4>1 DEF Uids
      <4> QED BY <1>7, <4>2
    <3> QED BY <3>1, <3>2
  <2>3. r.top < uidNext'[b] /\ r.mx \in Nat /\ r.mx < r.pos
    BY <1>2, <1>3, <1>4, <1>9, <2>1 DEF Uids
  <2>4. DeltaOf(p)'
    BY <1>3, <1>9, <2>1, <2>2, <2>3 DEF DeltaOf
  <2>5. r.pc = "message" /\ r.pc \in Delta /\ r.pc \in Reading /\ r.pc \notin Back
    BY <1>3, <1>9 DEF Delta, Back, Reading
  <2> QED BY <1>1, <1>3, <1>4, <1>5, <2>4, <2>5 DEF ProcOf
<1>10. CASE q.pc = "bmessage"
  <2>1. /\ q.pos = sync[b].cursor /\ q.pos > 0 /\ q.pos \in Nat /\ q.pos <= MaxUid /\ q.pos < uidNext[b]
        /\ \A u \in BackStart(q)..q.pos : Through(p, u) => Done(b, u)
    BY <1>0, <1>1, <1>10, Bounds DEF BackOf, FolderInv, FolderOf, SyncRow
  <2>2. BackStart(r) = BackStart(q)
    BY <1>3 DEF BackStart
  <2>3. ASSUME NEW u \in BackStart(q)..q.pos, Through(p, u)' PROVE Done(b, u)'
    <3>1. CASE u = v
      BY <1>8, <3>1
    <3>2. CASE u # v
      <4>0. u \in Uids /\ u < uidNext[b]
        BY <1>4, <2>1, Bounds DEF BackStart, Uids
      <4>1. Through(p, u)
        BY <1>6, <2>3, <3>2, <4>0
      <4>2. Done(b, u)
        BY <2>1, <4>1
      <4> QED BY <1>7, <4>0, <4>2
    <3> QED BY <3>1, <3>2
  <2>4. BackOf(p)'
    BY <1>3, <1>10, <2>1, <2>2, <2>3 DEF BackOf
  <2>5. r.pc = "bmessage" /\ r.pc \notin Delta /\ r.pc \in Reading /\ r.pc \in Back
    BY <1>3, <1>10 DEF Delta, Back, Reading
  <2> QED BY <1>1, <1>3, <1>4, <1>5, <2>4, <2>5 DEF ProcOf
<1> QED BY <1>9, <1>10

\* The folder is opened: everything up to lastSeenUid is done.
LEMMA OpenPreserved ==
    ASSUME SyncInv, NEW p \in Procs, NEW b \in Boxes, DeltaOpen(p, b)
    PROVE  SyncInv'
<1> DEFINE q == proc[p]
           ls == sync[b].lastSeen
<1>0. /\ Typed /\ ProcOf(p) /\ FolderOf(b) /\ UNCHANGED <<server, store, hist>> /\ q.pc = "next" /\ b \in q.todo
      /\ conn.lock = None /\ sync' = sync /\ uidNext' = uidNext /\ srv' = srv /\ rows' = rows /\ hist' = hist
  BY DEF SyncInv, ProcInv, FolderInv, DeltaOpen, server, store
<1>1. /\ Local(q) /\ q.todo \subseteq {c \in Boxes : sync[c] \in SyncRow} /\ q.held \subseteq Rows
      /\ q.batch = {} /\ q.mx = 0 /\ sync[b] \in SyncRow /\ sync[b] # None
  BY <1>0, SyncRowApart DEF ProcOf, Reading
<1>2. uidNext[b] \in Int /\ uidNext[b] >= 1 /\ ls \in Nat /\ hist.boot[b] \in Int
  BY <1>0, <1>1, Bounds DEF Typed, SyncRow
<1>3. CASE /\ conn' = [conn EXCEPT !.sel = b]
           /\ Become(p, Loop("next", q.todo \ {b}))
  <2> DEFINE r == Loop("next", q.todo \ {b})
  <2>1. /\ Local(r) /\ r.todo = q.todo \ {b} /\ r.batch = {} /\ r.mx = 0 /\ r.held = {}
        /\ r.pc \in {"idle", "next"}
    BY LoopFacts
  <2> HIDE DEF r
  <2>2. proc'[p] = r
    BY <1>0, <1>3, BecomeFacts DEF r
  <2>3. ProcOf(p)'
    BY <1>0, <1>1, <2>1, <2>2, PlainProc DEF Delta, Back
  <2>4. /\ conn' \in [sel : Boxes \cup {None}, lock : Procs \cup {None}]
        /\ conn'.lock = None /\ conn'.sel = b
    BY <1>0, <1>3 DEF Typed
  <2>5. conn'.lock # p
    BY <2>4, NoneApart
  <2> QED BY <1>0, <1>3, <2>3, <2>4, <2>5, LocalStep DEF r
<1>4. CASE /\ Top(b) > ls
           /\ conn' = [conn EXCEPT !.sel = b, !.lock = p]
           /\ Become(p, [q EXCEPT !.pc = "fetch", !.box = b, !.pos = ls + 1, !.top = Top(b)])
  <2>1. PICK r : /\ r = [q EXCEPT !.pc = "fetch", !.box = b, !.pos = ls + 1, !.top = Top(b)]
                 /\ Become(p, r)
    BY <1>4
  <2>2. /\ Local(r) /\ r.pc = "fetch" /\ r.box = b /\ r.pos = ls + 1 /\ r.top = Top(b)
        /\ r.todo = q.todo /\ r.batch = {} /\ r.mx = 0 /\ r.held = q.held
    BY <1>1, <2>1 DEF Local
  <2>3. proc'[p] = r
    BY <1>0, <2>1, BecomeFacts
  <2>4. /\ conn' \in [sel : Boxes \cup {None}, lock : Procs \cup {None}]
        /\ conn'.lock = p /\ conn'.sel = b
    BY <1>0, <1>4 DEF Typed
  <2>5. ASSUME NEW u \in Uids, hist.boot[b] < u, u < ls + 1 PROVE Done(b, u)'
    <3>1. u \in Seen(b)
      BY <1>1, <1>2, <2>5 DEF Seen, Uids
    <3>2. Done(b, u)
      BY <1>0, <3>1 DEF FolderOf
    <3> QED BY <1>0, <3>2 DEF Done, Known
  <2>6. DeltaOf(p)'
    <3>1. r.top \in Nat /\ r.top < uidNext[b] /\ r.pos \in Nat /\ 1 <= r.pos /\ r.pos <= r.top /\ r.pos <= r.top + 1
          /\ r.mx \in Nat /\ r.mx < r.pos
      BY <1>2, <1>4, <2>2 DEF Top
    <3> QED BY <1>0, <2>2, <2>3, <2>5, <3>1 DEF DeltaOf
  <2>7. r.pc \in Delta /\ r.pc \notin Back /\ r.pc \notin Reading
    BY <2>2 DEF Delta, Back, Reading
  <2>8. ProcOf(p)'
    BY <1>0, <1>1, <2>2, <2>3, <2>4, <2>6, <2>7 DEF ProcOf
  <2> QED BY <1>0, <2>1, <2>4, <2>7, <2>8, LocalStep
<1> QED BY <1>2, <1>3, <1>4 DEF DeltaOpen, Top

\* A fetch for folder b that is answered from folder c.
LEMMA FetchFacts ==
    ASSUME Typed, NEW b \in Boxes, NEW c \in Boxes, NEW range, range \subseteq Uids,
           \A u \in range : u < uidNext[b], UNCHANGED <<server, store>>,
           hist' = IF c = b THEN hist ELSE [hist EXCEPT !.excused = @ \cup ({b} \X range)]
    PROVE  /\ hist' = [arrived |-> hist'.arrived, boot |-> hist'.boot, top |-> hist'.top, excused |-> hist'.excused]
           /\ hist'.boot = hist.boot /\ hist'.top = hist.top
           /\ Mono
           /\ Listing(c, range) \subseteq Entries
           /\ \A e \in Listing(c, range) : e.uid \in range /\ Own(b, e.uid, e.mid)'
           /\ \A u \in range : (\A e \in Listing(c, range) : e.uid # u) => Done(b, u)'
<1>1. /\ Listing(c, range) \subseteq Entries
      /\ \A e \in Listing(c, range) : e.uid \in range /\ srv[c][e.uid] = e.mid
      /\ \A u \in range : (\A e \in Listing(c, range) : e.uid # u) => srv[c][u] = None
  BY ListingFacts
<1>2. /\ hist' = [arrived |-> hist'.arrived, boot |-> hist'.boot, top |-> hist'.top, excused |-> hist'.excused]
      /\ hist'.boot = hist.boot /\ hist'.top = hist.top
      /\ hist.excused \subseteq hist'.excused
      /\ c # b => \A u \in range : <<b, u>> \in hist'.excused
  BY DEF Typed
<1>3. srv' = srv /\ uidNext' = uidNext /\ rows' = rows /\ UNCHANGED server
  BY DEF server, store
<1>4. Mono
  BY <1>2, <1>3, MonoSame DEF Known
<1>5. ASSUME NEW e \in Listing(c, range) PROVE Own(b, e.uid, e.mid)'
  BY <1>1, <1>2, <1>3 DEF Own
<1>6. ASSUME NEW u \in range, \A e \in Listing(c, range) : e.uid # u PROVE Done(b, u)'
  BY <1>1, <1>2, <1>3, <1>6 DEF Done
<1> QED BY <1>1, <1>2, <1>4, <1>5, <1>6

\* A step of p that keeps the cursors and the rows.
LEMMA QuietStep ==
    ASSUME SyncInv, NEW p \in Procs, NEW r, Become(p, r), UNCHANGED <<server, store, conn>>, Mono,
           hist' = [arrived |-> hist'.arrived, boot |-> hist'.boot, top |-> hist'.top, excused |-> hist'.excused],
           hist'.boot = hist.boot, hist'.top = hist.top,
           proc[p].pc \in Delta => r.pc \in Delta, ProcOf(p)'
    PROVE  SyncInv'
<1>0. Typed /\ sync' = sync /\ rows' = rows /\ srv' = srv /\ uidNext' = uidNext /\ conn' = conn
  BY DEF SyncInv, server, store
<1>1. /\ proc' = [q \in Procs |-> proc'[q]] /\ proc'[p] = r
      /\ \A q \in Procs \ {p} : proc'[q] = proc[q]
  BY <1>0, BecomeFacts
<1>2. Typed'
  BY <1>0, <1>1 DEF Typed
<1>3. RowsOwn'
  BY <1>0, RowsKept DEF Same
<1>4. conn'.lock = p => proc'[p].pc \in Delta
  BY <1>0, <1>1 DEF SyncInv, LockOwned, Delta
<1> QED BY <1>0, <1>1, <1>2, <1>3, <1>4, StepFrame

\* A window of a delta fetch is read.
LEMMA FetchPreserved ==
    ASSUME SyncInv, NEW p \in Procs, DeltaFetch(p)
    PROVE  SyncInv'
<1> DEFINE q == proc[p]
<1>0. /\ Typed /\ ProcOf(p) /\ UNCHANGED <<server, store, conn>> /\ UNCHANGED <<server, store>>
      /\ q.pc = "fetch"
      /\ sync' = sync /\ uidNext' = uidNext /\ conn' = conn
  BY DEF SyncInv, ProcInv, DeltaFetch, server, store
<1>1. /\ Local(q) /\ q.todo \subseteq {c \in Boxes : sync[c] \in SyncRow} /\ q.held \subseteq Rows
      /\ q.batch = {} /\ q.mx = 0 /\ q.box \in Boxes /\ sync[q.box] \in SyncRow /\ conn.sel \in Boxes
      /\ DeltaOf(p)
  BY <1>0 DEF ProcOf, Reading, Delta
<1>2. PICK b \in Boxes, c \in Boxes : b = q.box /\ c = conn.sel
  BY <1>1
<1>3. PICK end : end = IF q.top < q.pos + Window THEN q.top ELSE q.pos + Window - 1
  OBVIOUS
<1>4. /\ q.top \in Nat /\ q.top < uidNext[b] /\ q.pos \in Nat /\ 1 <= q.pos /\ q.pos <= q.top
      /\ \A u \in Uids : hist.boot[b] < u /\ u < q.pos /\ Through(p, u) => Done(b, u)
  BY <1>0, <1>1, <1>2 DEF DeltaOf
<1>5. uidNext[b] \in Int /\ uidNext[b] <= MaxUid + 1 /\ hist.boot[b] \in Int
  BY <1>0, Bounds DEF Typed
<1>6. end \in Nat /\ q.pos <= end /\ end <= q.top
  BY <1>3, <1>4, Bounds
<1>7. PICK range : range = q.pos..end
  OBVIOUS
<1>8. /\ range \subseteq Uids /\ \A u \in range : u < uidNext[b]
  BY <1>4, <1>5, <1>6, <1>7, Bounds DEF Uids
<1>9. /\ hist' = IF c = b THEN hist ELSE [hist EXCEPT !.excused = @ \cup ({b} \X range)]
      /\ Become(p, [q EXCEPT !.pc = "message", !.batch = Listing(c, range), !.pos = end + 1])
  BY <1>2, <1>3, <1>7 DEF DeltaFetch
<1>10. PICK L : L = Listing(c, range)
  OBVIOUS
<1>11. /\ hist' = [arrived |-> hist'.arrived, boot |-> hist'.boot, top |-> hist'.top, excused |-> hist'.excused]
       /\ hist'.boot = hist.boot /\ hist'.top = hist.top
       /\ Mono /\ L \subseteq Entries
       /\ \A e \in L : e.uid \in range /\ Own(b, e.uid, e.mid)'
       /\ \A u \in range : (\A e \in L : e.uid # u) => Done(b, u)'
  <2>1. hist' = IF c = b THEN hist ELSE [hist EXCEPT !.excused = @ \cup ({b} \X range)]
    BY <1>9
  <2>2. UNCHANGED <<server, store>>
    BY <1>0
  <2>3. /\ hist' = [arrived |-> hist'.arrived, boot |-> hist'.boot, top |-> hist'.top, excused |-> hist'.excused]
        /\ hist'.boot = hist.boot /\ hist'.top = hist.top
        /\ Mono
        /\ Listing(c, range) \subseteq Entries
        /\ \A e \in Listing(c, range) : e.uid \in range /\ Own(b, e.uid, e.mid)'
        /\ \A u \in range : (\A e \in Listing(c, range) : e.uid # u) => Done(b, u)'
    BY <1>0, <1>8, <2>1, <2>2, FetchFacts
  <2> QED BY <1>10, <2>3
<1>12. PICK r : r = [q EXCEPT !.pc = "message", !.batch = L, !.pos = end + 1] /\ Become(p, r)
  BY <1>9, <1>10
<1>13. /\ Local(r) /\ r.pc = "message" /\ r.batch = L /\ r.pos = end + 1 /\ r.box = b /\ r.todo = q.todo
       /\ r.top = q.top /\ r.mx = 0 /\ r.held = q.held
  BY <1>1, <1>2, <1>12 DEF Local
<1>14. proc'[p] = r
  BY <1>0, <1>12, BecomeFacts
<1>15. ASSUME NEW u \in Uids, hist'.boot[b] < u, u < end + 1, Through(p, u)' PROVE Done(b, u)'
  <2>1. CASE u < q.pos
    <3>1. Through(p, u)
      BY <1>1 DEF Through
    <3>2. Done(b, u) /\ u < uidNext[b]
      BY <1>4, <1>5, <1>11, <1>15, <2>1, <3>1 DEF Uids
    <3> QED BY <1>0, <1>11, <3>2, DoneKept
  <2>2. CASE u >= q.pos
    <3>1. u \in range
      BY <1>4, <1>6, <1>7, <1>15, <2>2 DEF Uids
    <3>2. \A e \in L : e.uid # u
      BY <1>13, <1>14, <1>15 DEF Through
    <3> QED BY <1>11, <3>1, <3>2
  <2> QED BY <1>4, <2>1, <2>2 DEF Uids
<1>16. DeltaOf(p)'
  <2>1. \A e \in L : e.uid < end + 1
    BY <1>4, <1>6, <1>7, <1>11
  <2>2. end + 1 \in Nat /\ 1 <= end + 1 /\ end + 1 <= q.top + 1 /\ 0 \in Nat /\ 0 < end + 1
    BY <1>4, <1>6
  <2> QED BY <1>0, <1>4, <1>13, <1>14, <1>15, <2>1, <2>2 DEF DeltaOf
<1>17. r.pc \in Delta /\ r.pc \notin Back /\ r.pc \in Reading
  BY <1>13 DEF Delta, Back, Reading
<1>18. ProcOf(p)'
  BY <1>0, <1>1, <1>2, <1>11, <1>13, <1>14, <1>16, <1>17 DEF ProcOf
<1> QED BY <1>0, <1>11, <1>12, <1>17, <1>18, QuietStep

\* The message at hand of a function that reads folder b.
LEMMA AtHand ==
    ASSUME SyncInv, NEW p \in Procs, proc[p].pc \in Reading, proc[p].batch # {}
    PROVE  \E b \in Boxes, v \in Uids, m \in Mids :
             /\ b = proc[p].box /\ v = First(proc[p].batch).uid /\ m = First(proc[p].batch).mid
             /\ Own(b, v, m)
<1>1. ProcOf(p) /\ proc[p].pc \in Delta \cup Back
  BY DEF SyncInv, ProcInv, Reading, Delta, Back
<1>2. /\ proc[p].batch \subseteq Entries /\ proc[p].box \in Boxes
      /\ \A e \in proc[p].batch : Own(proc[p].box, e.uid, e.mid)
  BY <1>1 DEF ProcOf
<1>3. First(proc[p].batch) \in proc[p].batch
  BY <1>2, FirstIn
<1>4. First(proc[p].batch).uid \in Uids /\ First(proc[p].batch).mid \in Mids
  BY <1>2, <1>3 DEF Entries
<1> QED BY <1>2, <1>3, <1>4

\* A message that is known is done.
LEMMA KnownDone ==
    ASSUME NEW b, NEW v, NEW m, Own(b, v, m), m \in Known
    PROVE  Done(b, v)
BY DEF Own, Done

\* A delta fetch turns to storing the message at hand or to moving rows here.
LEMMA TurnProc ==
    ASSUME SyncInv, Typed', Mono, NEW p \in Procs, proc[p].pc \in {"message", "store", "retag"}, proc[p].batch # {},
           NEW r, proc'[p] = r, Local(r), r.box = proc[p].box, r.todo = proc[p].todo, r.top = proc[p].top,
           r.pos = proc[p].pos, r.mx = proc[p].mx, r.batch = proc[p].batch, r.held \subseteq Rows,
           r.pc \in {"store", "retag"}, sync' = sync, conn'.sel = conn.sel, hist'.boot = hist.boot,
           NEW d \in Boxes, d = proc[p].box, NEW v \in Uids, v = First(proc[p].batch).uid,
           r.pc = "retag" => Done(d, v)'
    PROVE  ProcOf(p)'
<1> DEFINE q == proc[p]
<1>0. Typed /\ ProcOf(p) /\ q.pc \in Delta
  BY DEF SyncInv, ProcInv, Delta
<1>1. /\ q.todo \subseteq {c \in Boxes : sync[c] \in SyncRow} /\ q.batch \subseteq Entries
      /\ sync[d] \in SyncRow /\ conn.sel \in Boxes
      /\ \A e \in q.batch : Own(d, e.uid, e.mid)
      /\ DeltaOf(p)
  BY <1>0 DEF ProcOf
<1>2. uidNext[d] \in Int /\ uidNext'[d] \in Int /\ uidNext[d] <= uidNext'[d] /\ hist.boot[d] \in Int
  BY <1>0, Bounds DEF Mono, Stable, Typed
<1>3. /\ q.top \in Nat /\ q.top < uidNext[d] /\ q.pos \in Nat /\ 1 <= q.pos /\ q.pos <= q.top + 1
      /\ q.mx \in Nat /\ q.mx < q.pos
      /\ \A e \in q.batch : e.uid < q.pos
      /\ \A u \in Uids : hist.boot[d] < u /\ u < q.pos /\ Through(p, u) => Done(d, u)
  BY <1>1 DEF DeltaOf
<1>4. ASSUME NEW e \in q.batch PROVE Own(d, e.uid, e.mid)'
  <2>1. PICK u \in Uids : u = e.uid
    BY <1>1 DEF Entries
  <2>2. Own(d, u, e.mid)'
    BY <1>0, <1>1, <2>1, OwnKept
  <2> QED BY <2>1, <2>2
<1>5. ASSUME NEW u \in Uids, hist'.boot[d] < u, u < q.pos, Through(p, u)' PROVE Done(d, u)'
  <2>1. Through(p, u)
    BY <1>5 DEF Through
  <2>2. Done(d, u) /\ u < uidNext[d]
    BY <1>2, <1>3, <1>5, <2>1 DEF Uids
  <2> QED BY <1>0, <2>2, DoneKept
<1>6. r.top < uidNext'[d]
  BY <1>2, <1>3
<1>7. DeltaOf(p)'
  BY <1>3, <1>5, <1>6 DEF DeltaOf
<1>8. r.pc \in Delta /\ r.pc \notin Back /\ r.pc \in Reading
  BY DEF Delta, Back, Reading
<1> QED BY <1>1, <1>4, <1>7, <1>8 DEF ProcOf

\* A message is found to be new, to be here, or to be elsewhere.
LEMMA MessagePreserved ==
    ASSUME SyncInv, NEW p \in Procs, DeltaMessage(p)
    PROVE  SyncInv'
<1> DEFINE q == proc[p]
<1>0. /\ Typed /\ ProcOf(p) /\ UNCHANGED <<server, store, conn>> /\ UNCHANGED server /\ q.pc = "message" /\ q.batch # {}
      /\ sync' = sync /\ rows' = rows /\ srv' = srv /\ uidNext' = uidNext /\ conn' = conn /\ hist' = hist
  BY DEF SyncInv, ProcInv, DeltaMessage, server, store
<1>1. Local(q) /\ q.pc \in Delta /\ q.pc \in Reading
  BY <1>0 DEF ProcOf, Delta, Reading
<1>2. PICK b \in Boxes, v \in Uids, m \in Mids :
             /\ b = proc[p].box /\ v = First(proc[p].batch).uid /\ m = First(proc[p].batch).mid
             /\ Own(b, v, m)
  BY <1>0, <1>1, AtHand
<1>3. Mono
  BY <1>0, MonoSame DEF Known
<1>4. ASSUME NEW r, Become(p, r) PROVE proc'[p] = r /\ Typed'
  <2>1. proc' = [x \in Procs |-> proc'[x]] /\ proc'[p] = r
    BY <1>0, <1>4, BecomeFacts
  <2> QED BY <1>0, <2>1 DEF Typed
<1>5. ASSUME NEW r, Become(p, r), r.pc \in Delta, ProcOf(p)' PROVE SyncInv'
  <2>1. /\ hist' = [arrived |-> hist'.arrived, boot |-> hist'.boot, top |-> hist'.top, excused |-> hist'.excused]
        /\ hist'.boot = hist.boot /\ hist'.top = hist.top
    BY <1>0 DEF Typed
  <2> QED BY <1>0, <1>3, <1>5, <2>1, QuietStep
<1>6. CASE Become(p, [q EXCEPT !.pc = "store"])
  <2>1. PICK r : r = [q EXCEPT !.pc = "store"] /\ Become(p, r)
    BY <1>6
  <2>2. /\ Local(r) /\ r.pc = "store" /\ r.box = q.box /\ r.todo = q.todo /\ r.top = q.top
        /\ r.pos = q.pos /\ r.mx = q.mx /\ r.batch = q.batch /\ r.held = q.held
    BY <1>1, <2>1 DEF Local
  <2>3. proc'[p] = r /\ Typed' /\ r.held \subseteq Rows
    BY <1>0, <1>4, <2>1, <2>2 DEF ProcOf
  <2>4. ProcOf(p)'
    BY <1>0, <1>2, <1>3, <2>2, <2>3, TurnProc
  <2> QED BY <1>5, <2>1, <2>2, <2>4 DEF Delta
<1>7. ASSUME NEW x \in rows, x.mid = m, Done(b, v)'
      PROVE  Become(p, IF x.box = q.box THEN Handled(q)
                       ELSE [q EXCEPT !.pc = "retag", !.held = InThread(ThreadOf[x.mid], x.box)]) => SyncInv'
  <2>1. CASE Become(p, Handled(q))
    <3>1. proc'[p] = Handled(q) /\ Typed'
      BY <1>4, <2>1
    <3>2. ProcOf(p)'
      BY <1>0, <1>1, <1>2, <1>3, <1>7, <3>1, HandledProc
    <3>3. PICK r : r = Handled(q) /\ Become(p, r)
      BY <2>1
    <3>4. r.pc = "message"
      BY <1>0, <1>1, <3>3, HandledFacts
    <3> QED BY <1>5, <3>2, <3>3, <3>4 DEF Delta
  <2>2. CASE Become(p, [q EXCEPT !.pc = "retag", !.held = InThread(ThreadOf[x.mid], x.box)])
    <3>1. PICK r : r = [q EXCEPT !.pc = "retag", !.held = InThread(ThreadOf[x.mid], x.box)] /\ Become(p, r)
      BY <2>2
    <3>2. /\ Local(r) /\ r.pc = "retag" /\ r.box = q.box /\ r.todo = q.todo /\ r.top = q.top
          /\ r.pos = q.pos /\ r.mx = q.mx /\ r.batch = q.batch /\ r.held = InThread(ThreadOf[x.mid], x.box)
      BY <1>1, <3>1 DEF Local
    <3>3. proc'[p] = r /\ Typed' /\ r.held \subseteq Rows
      BY <1>0, <1>4, <3>1, <3>2 DEF Typed, InThread
    <3>4. ProcOf(p)'
      BY <1>0, <1>2, <1>3, <1>7, <3>2, <3>3, TurnProc
    <3> QED BY <1>5, <3>1, <3>2, <3>4 DEF Delta
  <2> QED BY <2>1, <2>2
<1>8. ASSUME NEW x \in rows, x.mid = m PROVE Done(b, v)'
  <2>1. m \in Known
    BY <1>8 DEF Known
  <2>2. Done(b, v) /\ v < uidNext[b]
    BY <1>2, <2>1, KnownDone DEF Own
  <2> QED BY <1>0, <1>3, <2>2, DoneKept
<1>9. \/ Become(p, [q EXCEPT !.pc = "store"])
      \/ \E x \in rows : /\ x.mid = m
                         /\ Become(p, IF x.box = q.box THEN Handled(q)
                                      ELSE [q EXCEPT !.pc = "retag", !.held = InThread(ThreadOf[x.mid], x.box)])
  BY <1>2 DEF DeltaMessage
<1> QED BY <1>6, <1>7, <1>8, <1>9

\* The rest of the state is in order after a step of p on the rows.
LEMMA RowTyped ==
    ASSUME Typed, NEW p \in Procs, NEW r, Become(p, r), UNCHANGED <<server, sync, conn>>,
           hist' = [arrived |-> hist'.arrived, boot |-> hist'.boot, top |-> hist'.top, excused |-> hist'.excused],
           hist'.boot = hist.boot, hist'.top = hist.top, rows' \subseteq Rows
    PROVE  Typed' /\ proc'[p] = r /\ \A q \in Procs \ {p} : proc'[q] = proc[q]
<1>1. /\ proc' = [q \in Procs |-> proc'[q]] /\ proc'[p] = r
      /\ \A q \in Procs \ {p} : proc'[q] = proc[q]
  BY BecomeFacts
<1>2. srv' = srv /\ uidNext' = uidNext /\ sync' = sync /\ conn' = conn
  BY DEF server
<1> QED BY <1>1, <1>2 DEF Typed

\* A step of p on the rows.
LEMMA RowStep ==
    ASSUME SyncInv, NEW p \in Procs, NEW r, Become(p, r), UNCHANGED <<server, sync, conn>>,
           hist' = [arrived |-> hist'.arrived, boot |-> hist'.boot, top |-> hist'.top, excused |-> hist'.excused],
           hist'.boot = hist.boot, hist'.top = hist.top, rows' \subseteq Rows, Mono, RowsOwn',
           proc[p].pc \in Delta => r.pc \in Delta, ProcOf(p)'
    PROVE  SyncInv'
<1>1. Typed
  BY DEF SyncInv
<1>2. Typed' /\ proc'[p] = r /\ \A q \in Procs \ {p} : proc'[q] = proc[q]
  BY <1>1, RowTyped
<1>3. conn'.lock = p => proc'[p].pc \in Delta
  BY <1>2 DEF SyncInv, LockOwned, Delta
<1> QED BY <1>2, <1>3, StepFrame

\* A removal excuses what it takes from the database.
LEMMA RemoveFacts ==
    ASSUME Typed, NEW gone, Remove(gone), UNCHANGED server
    PROVE  /\ Mono /\ rows' \subseteq rows /\ rows' \subseteq Rows
           /\ hist' = [arrived |-> hist'.arrived, boot |-> hist'.boot, top |-> hist'.top, excused |-> hist'.excused]
           /\ hist'.boot = hist.boot /\ hist'.top = hist.top
<1>1. /\ rows' = rows \ gone /\ rows \subseteq Rows
      /\ hist' = [hist EXCEPT !.excused = hist.excused \cup PlacesOf({r.mid : r \in gone})]
  BY DEF Remove, Typed
<1>2. /\ hist' = [arrived |-> hist'.arrived, boot |-> hist'.boot, top |-> hist'.top, excused |-> hist'.excused]
      /\ hist'.boot = hist.boot /\ hist'.top = hist.top
      /\ hist'.excused = hist.excused \cup PlacesOf({r.mid : r \in gone})
  BY <1>1 DEF Typed
<1>3. ASSUME NEW m \in Known, m \notin Known', NEW b \in Boxes, NEW u \in Uids, srv[b][u] = m
      PROVE  <<b, u>> \in hist'.excused
  <2>1. PICK r \in rows : r.mid = m
    BY DEF Known
  <2>2. r \in gone
    BY <1>1, <1>3, <2>1 DEF Known
  <2>3. <<b, u>> \in PlacesOf({s.mid : s \in gone})
    BY <1>3, <2>1, <2>2 DEF PlacesOf, Places
  <2> QED BY <1>2, <2>3
<1>4. Stable
  BY ServerSame
<1> QED BY <1>1, <1>2, <1>3, <1>4 DEF Mono

\* The message at hand is stored, or its row is there.
LEMMA StorePreserved ==
    ASSUME SyncInv, NEW p \in Procs, Store(p)
    PROVE  SyncInv'
<1> DEFINE q == proc[p]
<1>0. /\ Typed /\ ProcOf(p) /\ UNCHANGED <<server, sync, conn>> /\ UNCHANGED server
      /\ sync' = sync /\ srv' = srv /\ uidNext' = uidNext /\ conn' = conn /\ hist' = hist
      /\ q.pc \in {"store", "bmessage"} /\ Become(p, Handled(q))
  BY DEF SyncInv, ProcInv, Store, server
<1>1. q.batch # {} /\ Local(q) /\ q.pc \in Reading
  BY <1>0 DEF Store, ProcOf, DeltaOf, Delta, Reading
<1>2. PICK b \in Boxes, v \in Uids, m \in Mids :
             /\ b = proc[p].box /\ v = First(proc[p].batch).uid /\ m = First(proc[p].batch).mid
             /\ Own(b, v, m)
  BY <1>1, AtHand
<1>3. PICK new : new = [mid |-> m, box |-> b, uid |-> v, from |-> b]
  OBVIOUS
<1>4. rows' = IF new.mid \in Anonymous \/ \E r \in rows : r.mid = new.mid /\ r.box = new.box
              THEN rows ELSE rows \cup {new}
  BY <1>2, <1>3 DEF Store
<1>5. new \in Rows /\ new.mid = m /\ new.from = b /\ new.uid = v
  BY <1>3 DEF Rows
<1>6. /\ rows' \subseteq Rows /\ rows \subseteq rows' /\ rows' \subseteq rows \cup {new}
      /\ m \in Anonymous \/ \E r \in rows' : r.mid = m
  BY <1>0, <1>4, <1>5 DEF Typed
<1>7. Mono /\ m \in Known' \cup Anonymous
  BY <1>0, <1>6, MonoSame DEF Known
<1>8. Own(b, v, m)' /\ Done(b, v)'
  BY <1>0, <1>2, <1>7 DEF Own, Done
<1>9. RowsOwn'
  <2> SUFFICES ASSUME NEW r \in rows' PROVE Own(r.from, r.uid, r.mid)'
    BY DEF RowsOwn
  <2>1. CASE r = new
    BY <1>5, <1>8, <2>1
  <2>2. CASE r # new
    <3>1. Own(r.from, r.uid, r.mid)
      BY <1>6, <2>2 DEF SyncInv, RowsOwn
    <3> QED BY <1>0, <3>1 DEF Own
  <2> QED BY <2>1, <2>2
<1>10. /\ hist' = [arrived |-> hist'.arrived, boot |-> hist'.boot, top |-> hist'.top, excused |-> hist'.excused]
       /\ hist'.boot = hist.boot /\ hist'.top = hist.top
  BY <1>0 DEF Typed
<1>11. PICK r : r = Handled(q) /\ Become(p, r)
  BY <1>0
<1>12. Typed' /\ proc'[p] = r
  BY <1>0, <1>6, <1>10, <1>11, RowTyped
<1>13. ProcOf(p)'
  BY <1>0, <1>1, <1>2, <1>7, <1>8, <1>10, <1>11, <1>12, HandledProc
<1>14. q.pc \in Delta => r.pc \in Delta
  BY <1>1, <1>11, HandledFacts DEF Delta
<1> QED BY <1>0, <1>6, <1>7, <1>9, <1>10, <1>11, <1>13, <1>14, RowStep

\* The message at hand comes without its source, and is excused.
LEMMA NoSourcePreserved ==
    ASSUME SyncInv, NEW p \in Procs, NoSource(p)
    PROVE  SyncInv'
<1> DEFINE q == proc[p]
<1>0. /\ Typed /\ ProcOf(p) /\ UNCHANGED <<server, sync, conn>> /\ UNCHANGED server
      /\ sync' = sync /\ srv' = srv /\ uidNext' = uidNext /\ conn' = conn /\ rows' = rows
      /\ q.pc \in {"store", "bmessage"} /\ Become(p, Handled(q))
  BY DEF SyncInv, ProcInv, NoSource, server, store
<1>1. q.batch # {} /\ Local(q) /\ q.pc \in Reading
  BY <1>0 DEF NoSource, ProcOf, DeltaOf, Delta, Reading
<1>2. PICK b \in Boxes, v \in Uids, m \in Mids :
             /\ b = proc[p].box /\ v = First(proc[p].batch).uid /\ m = First(proc[p].batch).mid
             /\ Own(b, v, m)
  BY <1>1, AtHand
<1>3. /\ hist' = [arrived |-> hist'.arrived, boot |-> hist'.boot, top |-> hist'.top, excused |-> hist'.excused]
      /\ hist'.boot = hist.boot /\ hist'.top = hist.top
      /\ hist'.excused = hist.excused \cup {<<b, v>>}
  BY <1>0, <1>2 DEF Typed, NoSource
<1>4. Mono /\ Own(b, v, m)' /\ Done(b, v)'
  <2>1. Mono
    BY <1>0, <1>3, MonoSame DEF Known
  <2> QED BY <1>0, <1>2, <1>3, <2>1 DEF Own, Done
<1>5. RowsOwn'
  BY <1>0, <1>4, RowsKept DEF Same
<1>6. PICK r : r = Handled(q) /\ Become(p, r)
  BY <1>0
<1>7. rows' \subseteq Rows
  BY <1>0 DEF Typed
<1>8. Typed' /\ proc'[p] = r
  BY <1>0, <1>3, <1>6, <1>7, RowTyped
<1>9. ProcOf(p)'
  BY <1>0, <1>1, <1>2, <1>3, <1>4, <1>6, <1>8, HandledProc
<1>10. q.pc \in Delta => r.pc \in Delta
  BY <1>1, <1>6, HandledFacts DEF Delta
<1> QED BY <1>0, <1>3, <1>4, <1>5, <1>6, <1>7, <1>9, <1>10, RowStep

\* Rows of a conversation follow a move, or go.
LEMMA RetagPreserved ==
    ASSUME SyncInv, NEW p \in Procs, DeltaRetag(p)
    PROVE  SyncInv'
<1> DEFINE q == proc[p]
<1>0. /\ Typed /\ ProcOf(p) /\ UNCHANGED <<server, sync, conn>> /\ UNCHANGED server
      /\ sync' = sync /\ srv' = srv /\ uidNext' = uidNext /\ conn' = conn /\ q.pc = "retag"
  BY DEF SyncInv, ProcInv, DeltaRetag, server
<1>1. q.batch # {} /\ Local(q) /\ q.pc \in Reading /\ q.pc \in Delta /\ q.held \subseteq Rows /\ q.box \in Boxes
  BY <1>0 DEF ProcOf, DeltaOf, Delta, Reading
<1>2. PICK b \in Boxes, v \in Uids, m \in Mids :
             /\ b = proc[p].box /\ v = First(proc[p].batch).uid /\ m = First(proc[p].batch).mid
             /\ Own(b, v, m)
  BY <1>1, AtHand
<1>3. Done(b, v) /\ v < uidNext[b]
  BY <1>0, <1>1, <1>2 DEF ProcOf, DeltaOf, Own
<1>4. PICK h \in q.held :
        LET here == {r \in rows : Same(r, h)} IN
        /\ IF \E r \in rows : r.mid = h.mid /\ r.box = q.box
           THEN Remove(here)
           ELSE /\ rows' = (rows \ here) \cup {[r EXCEPT !.box = q.box] : r \in here}
                /\ UNCHANGED hist
        /\ Become(p, IF q.held = {h} THEN Handled(q) ELSE [q EXCEPT !.held = @ \ {h}])
  BY DEF DeltaRetag
<1> DEFINE here == {r \in rows : Same(r, h)}
<1>5. /\ Mono /\ rows' \subseteq Rows /\ \A r \in rows' : \E s \in rows : Same(r, s)
      /\ hist' = [arrived |-> hist'.arrived, boot |-> hist'.boot, top |-> hist'.top, excused |-> hist'.excused]
      /\ hist'.boot = hist.boot /\ hist'.top = hist.top
  <2>1. CASE Remove(here)
    BY <1>0, <2>1, RemoveFacts DEF Same
  <2>2. CASE rows' = (rows \ here) \cup {[r EXCEPT !.box = b] : r \in here} /\ hist' = hist
    <3>1. here \subseteq rows /\ rows \subseteq Rows
      BY <1>0 DEF Typed
    <3> HIDE DEF here
    <3>2. ASSUME NEW r \in here PROVE LET s == [r EXCEPT !.box = b] IN s \in Rows /\ Same(s, r) /\ s.mid = r.mid
      BY <3>1 DEF Rows, Same
    <3>3. ASSUME NEW r \in rows' PROVE r \in Rows /\ \E s \in rows : Same(r, s)
      <4>1. CASE r \in rows
        BY <3>1, <4>1 DEF Same
      <4>2. CASE \E s \in here : r = [s EXCEPT !.box = b]
        BY <3>1, <3>2, <4>2
      <4> QED BY <2>2, <4>1, <4>2
    <3>4. Known \subseteq Known'
      <4> SUFFICES ASSUME NEW r \in rows PROVE \E s \in rows' : s.mid = r.mid
        BY DEF Known
      <4> QED BY <2>2, <3>2
    <3>5. Mono
      BY <1>0, <2>2, <3>4, MonoSame
    <3> QED BY <1>0, <2>2, <3>3, <3>5 DEF Typed
  <2> QED BY <1>2, <1>4, <2>1, <2>2
<1>6. RowsOwn'
  BY <1>5, RowsKept
<1>7. Done(b, v)'
  BY <1>0, <1>3, <1>5, DoneKept
<1>8. CASE Become(p, Handled(q))
  <2>1. PICK r : r = Handled(q) /\ Become(p, r)
    BY <1>8
  <2>2. Typed' /\ proc'[p] = r
    BY <1>0, <1>5, <2>1, RowTyped
  <2>3. ProcOf(p)'
    BY <1>0, <1>1, <1>2, <1>5, <1>7, <2>1, <2>2, HandledProc
  <2>4. r.pc \in Delta
    BY <1>0, <1>1, <2>1, HandledFacts DEF Delta
  <2> QED BY <1>0, <1>5, <1>6, <2>1, <2>3, <2>4, RowStep
<1>9. CASE Become(p, [q EXCEPT !.held = @ \ {h}])
  <2>1. PICK r : r = [q EXCEPT !.held = q.held \ {h}] /\ Become(p, r)
    BY <1>9
  <2>2. /\ Local(r) /\ r.pc = q.pc /\ r.box = q.box /\ r.todo = q.todo /\ r.top = q.top
        /\ r.pos = q.pos /\ r.mx = q.mx /\ r.batch = q.batch /\ r.held \subseteq Rows
    BY <1>1, <2>1 DEF Local
  <2>3. Typed' /\ proc'[p] = r
    BY <1>0, <1>5, <2>1, RowTyped
  <2>4. ProcOf(p)'
    BY <1>0, <1>1, <1>2, <1>5, <1>7, <2>2, <2>3, TurnProc
  <2> QED BY <1>0, <1>1, <1>5, <1>6, <2>1, <2>2, <2>4, RowStep
<1> QED BY <1>4, <1>8, <1>9

\* A step of p that moves the cursors of folder b.
LEMMA CursorStep ==
    ASSUME SyncInv, NEW p \in Procs, NEW r, Become(p, r), Typed', Mono, rows' = rows, ProcOf(p)',
           conn'.lock \in {conn.lock, None, p}, conn'.lock = p => r.pc \in Delta,
           conn.sel \in Boxes => conn'.sel \in Boxes,
           NEW b \in Boxes, \A c \in Boxes \ {b} : sync'[c] = sync[c] /\ hist'.boot[c] = hist.boot[c],
           sync'[b] \in SyncRow, hist.boot[b] <= hist'.boot[b], hist'.top = hist.top,
           p # "job" => sync'[b].cursor = sync[b].cursor /\ hist'.boot[b] = hist.boot[b],
           FolderOf(b)'
    PROVE  SyncInv'
<1>0. Typed
  BY DEF SyncInv
<1>1. proc'[p] = r /\ \A q \in Procs \ {p} : proc'[q] = proc[q]
  BY <1>0, BecomeFacts
<1>2. LockOwned'
  BY <1>1, LockFrame DEF SyncInv
<1>3. ASSUME NEW c \in Boxes \ {b} PROVE FolderOf(c)'
  BY FolderKept
<1>4. FolderInv'
  BY <1>3 DEF FolderInv
<1>5. ASSUME NEW q \in Procs \ {p} PROVE ProcOf(q)'
  <2>0. \A c \in Boxes : hist.boot[c] \in Int
    BY <1>0 DEF Typed
  <2>1. ASSUME NEW c \in Boxes PROVE hist.boot[c] <= hist'.boot[c]
    <3>1. CASE c = b
      BY <3>1
    <3>2. CASE c # b
      BY <2>0, <3>2
    <3> QED BY <3>1, <3>2
  <2>2. \A c \in Boxes : sync[c] \in SyncRow => sync'[c] \in SyncRow
    OBVIOUS
  <2>3. q = "job" => \A c \in Boxes : sync[c] \in SyncRow => /\ sync'[c].cursor = sync[c].cursor
                                                             /\ hist'.boot[c] = hist.boot[c]
    OBVIOUS
  <2> QED BY <1>1, <2>1, <2>2, <2>3, ProcKept
<1>6. RowsOwn'
  BY RowsKept DEF Same
<1>7. ProcInv'
  BY <1>5 DEF ProcInv
<1> QED BY <1>2, <1>4, <1>6, <1>7 DEF SyncInv

\* The lock after p has let go of it.
LEMMA UnlockFacts ==
    ASSUME Typed, NEW p \in Procs, conn' = Unlock(p)
    PROVE  /\ conn' \in [sel : Boxes \cup {None}, lock : Procs \cup {None}]
           /\ conn'.sel = conn.sel /\ conn'.lock \in {conn.lock, None} /\ conn'.lock # p
BY NoneApart DEF Typed, Unlock

\* A window is through: what is below it is done, so lastSeenUid may say so.
LEMMA WindowPreserved ==
    ASSUME SyncInv, NEW p \in Procs, DeltaWindow(p)
    PROVE  SyncInv'
<1> DEFINE q == proc[p]
<1>0. /\ Typed /\ ProcOf(p) /\ UNCHANGED <<server, rows, hist>> /\ UNCHANGED server /\ q.pc = "message" /\ q.batch = {}
      /\ rows' = rows /\ srv' = srv /\ uidNext' = uidNext /\ hist' = hist
  BY DEF SyncInv, ProcInv, DeltaWindow, server
<1>1. /\ Local(q) /\ q.todo \subseteq {c \in Boxes : sync[c] \in SyncRow} /\ q.held \subseteq Rows
      /\ q.box \in Boxes /\ sync[q.box] \in SyncRow /\ conn.sel \in Boxes /\ DeltaOf(p)
  BY <1>0 DEF ProcOf, Delta
<1>2. PICK b \in Boxes : b = q.box
  BY <1>1
<1>3. /\ q.top \in Nat /\ q.top < uidNext[b] /\ q.pos \in Nat /\ 1 <= q.pos /\ q.pos <= q.top + 1
      /\ q.mx \in Nat /\ q.mx < q.pos
      /\ \A u \in Uids : hist.boot[b] < u /\ u < q.pos => Done(b, u)
  BY <1>0, <1>1, <1>2 DEF DeltaOf, Through
<1>4. uidNext[b] \in Int /\ uidNext[b] <= MaxUid + 1 /\ hist.boot[b] \in Int /\ hist.top[b] \in Int
  BY <1>0, Bounds DEF Typed
<1>5. /\ sync'[b] \in SyncRow /\ sync' \in [Boxes -> SyncRow \cup {None}]
      /\ \A c \in Boxes \ {b} : sync'[c] = sync[c]
      /\ sync'[b].cursor = sync[b].cursor /\ sync'[b].lastSeen \in {sync[b].lastSeen, q.mx}
      /\ sync[b].lastSeen \in Nat /\ sync[b].cursor \in Nat
  <2>0. sync \in [Boxes -> SyncRow \cup {None}] /\ sync[b] \in [lastSeen : 0..MaxUid, cursor : 0..MaxUid]
    BY <1>0, <1>1, <1>2 DEF Typed, SyncRow
  <2>1. CASE sync' = sync
    BY <2>0, <2>1, Bounds DEF SyncRow
  <2>2. CASE sync' = [sync EXCEPT ![b].lastSeen = q.mx]
    <3>1. PICK n : n = [sync[b] EXCEPT !.lastSeen = q.mx]
      OBVIOUS
    <3>2. q.mx \in 0..MaxUid
      BY <1>3, <1>4, Bounds
    <3>3. n \in SyncRow /\ n.cursor = sync[b].cursor /\ n.lastSeen = q.mx
      BY <2>0, <3>1, <3>2 DEF SyncRow
    <3>4. sync' = [sync EXCEPT ![b] = n]
      BY <2>2, <3>1
    <3>5. sync[b].lastSeen \in Nat /\ sync[b].cursor \in Nat
      BY <2>0, Bounds
    <3> QED BY <2>0, <3>3, <3>4, <3>5
  <2> QED BY <1>2, <2>1, <2>2 DEF DeltaWindow
<1>6. Mono
  BY <1>0, MonoSame DEF Known
<1>7. FolderOf(b)'
  <2>0. FolderOf(b)
    BY DEF SyncInv, FolderInv
  <2>1. ASSUME NEW u \in Uids, Done(b, u) PROVE Done(b, u)'
    BY <1>0, <2>1 DEF Done, Known
  <2>2. ASSUME NEW u \in Seen(b)' PROVE Done(b, u)'
    <3>0. /\ u \in Uids /\ u \in Int
          /\ \/ hist.boot[b] < u /\ u <= sync'[b].lastSeen
             \/ sync[b].cursor < u /\ u <= hist.top[b]
      BY <1>0, <1>5 DEF Seen, Uids
    <3>1. CASE hist.boot[b] < u /\ u <= q.mx
      BY <1>3, <2>1, <3>0, <3>1
    <3>2. CASE \/ hist.boot[b] < u /\ u <= sync[b].lastSeen
               \/ sync[b].cursor < u /\ u <= hist.top[b]
      <4>1. u \in Seen(b)
        BY <1>1, <1>2, <3>0, <3>2, SyncRowApart DEF Seen
      <4> QED BY <2>0, <2>1, <3>0, <4>1 DEF FolderOf
    <3> QED BY <1>5, <3>0, <3>1, <3>2
  <2>3. sync'[b].lastSeen < uidNext[b] /\ sync'[b].cursor < uidNext[b]
    BY <1>1, <1>2, <1>3, <1>4, <1>5, <2>0 DEF FolderOf
  <2> QED BY <1>0, <2>0, <2>2, <2>3 DEF FolderOf
<1>8. ASSUME NEW r, Become(p, r), conn' \in [sel : Boxes \cup {None}, lock : Procs \cup {None}], conn'.sel = conn.sel,
             conn'.lock \in {conn.lock, None, p}, conn'.lock = p => r.pc \in Delta,
             Typed' => ProcOf(p)'
      PROVE  SyncInv'
  <2>1. proc' = [x \in Procs |-> proc'[x]]
    BY <1>0, <1>8, BecomeFacts
  <2>2. Typed'
    BY <1>0, <1>5, <1>8, <2>1 DEF Typed
  <2> QED BY <1>0, <1>4, <1>5, <1>6, <1>7, <1>8, <2>2, CursorStep
<1>9. \A c \in Boxes : sync[c] \in SyncRow => sync'[c] \in SyncRow
  BY <1>5
<1>10. CASE q.pos <= q.top /\ Become(p, [q EXCEPT !.pc = "fetch", !.mx = 0]) /\ conn' = conn
  <2>1. PICK r : r = [q EXCEPT !.pc = "fetch", !.mx = 0] /\ Become(p, r)
    BY <1>10
  <2>2. /\ Local(r) /\ r.pc = "fetch" /\ r.box = b /\ r.todo = q.todo /\ r.top = q.top
        /\ r.pos = q.pos /\ r.mx = 0 /\ r.batch = {} /\ r.held = q.held
    BY <1>0, <1>1, <1>2, <2>1 DEF Local
  <2>3. proc'[p] = r
    BY <1>0, <2>1, BecomeFacts
  <2>4. ASSUME NEW u \in Uids, hist'.boot[b] < u, u < q.pos PROVE Done(b, u)'
    <3>1. Done(b, u)
      BY <1>0, <1>3, <2>4
    <3> QED BY <1>0, <3>1 DEF Done, Known
  <2>5. 0 \in Nat /\ 0 < q.pos
    BY <1>3
  <2>6. DeltaOf(p)'
    BY <1>0, <1>3, <1>10, <2>2, <2>3, <2>4, <2>5 DEF DeltaOf
  <2>7. r.pc \in Delta /\ r.pc \notin Back /\ r.pc \notin Reading
    BY <2>2 DEF Delta, Back, Reading
  <2>8. ProcOf(p)'
    BY <1>1, <1>2, <1>5, <1>9, <1>10, <2>2, <2>3, <2>6, <2>7 DEF ProcOf
  <2>9. conn' \in [sel : Boxes \cup {None}, lock : Procs \cup {None}]
    BY <1>0, <1>10 DEF Typed
  <2> QED BY <1>8, <1>10, <2>1, <2>7, <2>8, <2>9
<1>11. CASE Become(p, Loop("next", q.todo \ {q.box})) /\ conn' = Unlock(p)
  <2> DEFINE r == Loop("next", q.todo \ {q.box})
  <2>1. /\ Local(r) /\ r.todo = q.todo \ {q.box} /\ r.batch = {} /\ r.mx = 0 /\ r.held = {}
        /\ r.pc \in {"idle", "next"}
    BY LoopFacts
  <2> HIDE DEF r
  <2>2. proc'[p] = r
    BY <1>0, <1>11, BecomeFacts DEF r
  <2>3. ProcOf(p)'
    BY <1>1, <1>9, <2>1, <2>2, PlainProc DEF Delta, Back
  <2>4. /\ conn' \in [sel : Boxes \cup {None}, lock : Procs \cup {None}]
        /\ conn'.sel = conn.sel /\ conn'.lock \in {conn.lock, None} /\ conn'.lock # p
    BY <1>0, <1>11, UnlockFacts
  <2> QED BY <1>8, <1>11, <2>3, <2>4 DEF r
<1> QED BY <1>10, <1>11 DEF DeltaWindow

-----------------------------------------------------------------------------
(* Backfill.                                                                *)

\* Where delta fetches begin grows with the folder and lies inside it.
LEMMA BootFacts ==
    ASSUME NEW n \in Nat, NEW k \in Nat, n <= k
    PROVE  BootAt(n) \in Nat /\ BootAt(n) <= n /\ BootAt(n) <= BootAt(k)
BY Bounds DEF BootAt

\* A backfill turns to folder b.
LEMMA BackOpenPreserved ==
    ASSUME SyncInv, NEW b \in Boxes, BackOpen(b)
    PROVE  SyncInv'
<1> DEFINE q == proc["job"]
<1>0. /\ Typed /\ "job" \in Procs /\ ProcOf("job") /\ FolderOf(b) /\ UNCHANGED <<server, store, hist>> /\ q.pc = "bnext"
      /\ b \in q.todo /\ sync' = sync /\ uidNext' = uidNext /\ hist' = hist /\ conn' = [conn EXCEPT !.sel = b]
  BY DEF SyncInv, ProcInv, FolderInv, BackOpen, server, store, Procs
<1>1. /\ Local(q) /\ q.todo \subseteq {c \in Boxes : sync[c] \in SyncRow} /\ q.held \subseteq Rows
      /\ q.batch = {} /\ q.mx = 0 /\ sync[b] \in SyncRow
  BY <1>0 DEF ProcOf, Reading
<1>2. PICK r : /\ r = [q EXCEPT !.pc = "bboot", !.box = b, !.todo = q.todo \ {b}, !.top = Top(b),
                                !.ls = sync[b].lastSeen, !.pos = sync[b].cursor]
               /\ Become("job", r)
  BY DEF BackOpen
<1>3. /\ Local(r) /\ r.pc = "bboot" /\ r.box = b /\ r.todo = q.todo \ {b} /\ r.top = Top(b)
      /\ r.pos = sync[b].cursor /\ r.batch = {} /\ r.mx = 0 /\ r.held = q.held
  BY <1>1, <1>2 DEF Local
<1>4. proc'["job"] = r
  BY <1>0, <1>2, BecomeFacts
<1>5. /\ conn' \in [sel : Boxes \cup {None}, lock : Procs \cup {None}]
      /\ conn'.lock = conn.lock /\ conn'.sel = b
  BY <1>0 DEF Typed
<1>6. conn.lock # "job"
  BY <1>0 DEF SyncInv, LockOwned
<1>7. r.top \in Nat /\ r.top < uidNext[b] /\ hist.boot[b] <= BootAt(r.top)
  BY <1>0, <1>3, Bounds DEF Typed, Top, FolderOf
<1>8. BackOf("job")'
  BY <1>0, <1>3, <1>4, <1>7 DEF BackOf
<1>9. r.pc \in Back /\ r.pc \notin Delta /\ r.pc \notin Reading
  BY <1>3 DEF Back, Delta, Reading
<1>10. ProcOf("job")'
  BY <1>0, <1>1, <1>3, <1>4, <1>5, <1>8, <1>9 DEF ProcOf
<1> QED BY <1>0, <1>2, <1>5, <1>6, <1>10, LocalStep

\* The first backfill of a folder says where delta fetches begin.
LEMMA BootPreserved ==
    ASSUME SyncInv, BackBoot
    PROVE  SyncInv'
<1> DEFINE q == proc["job"]
<1>0. /\ Typed /\ "job" \in Procs /\ ProcOf("job") /\ UNCHANGED <<server, rows, conn>> /\ UNCHANGED server /\ q.pc = "bboot"
      /\ rows' = rows /\ srv' = srv /\ uidNext' = uidNext /\ conn' = conn
  BY DEF SyncInv, ProcInv, BackBoot, server, Procs
<1>1. /\ Local(q) /\ q.todo \subseteq {c \in Boxes : sync[c] \in SyncRow} /\ q.held \subseteq Rows
      /\ q.batch = {} /\ q.mx = 0 /\ q.box \in Boxes /\ sync[q.box] \in SyncRow /\ conn.sel \in Boxes /\ BackOf("job")
  BY <1>0 DEF ProcOf, Back, Reading
<1>2. PICK b \in Boxes : b = q.box
  BY <1>1
<1>3. PICK boot : boot = BootAt(q.top)
  OBVIOUS
<1>4. /\ q.pos = sync[b].cursor /\ q.top \in Nat /\ q.top < uidNext[b] /\ hist.boot[b] <= boot
      /\ uidNext[b] \in Int /\ uidNext[b] <= MaxUid + 1 /\ hist.boot[b] \in Nat
      /\ hist.boot \in [Boxes -> Nat] /\ hist.top[b] \in Int
  BY <1>0, <1>1, <1>2, <1>3, Bounds DEF BackOf, Typed
<1>5. boot \in Nat /\ boot <= q.top /\ boot <= BootAt(uidNext[b] - 1) /\ boot \in 0..MaxUid
  <2>1. uidNext[b] - 1 \in Nat /\ q.top <= uidNext[b] - 1
    BY <1>4
  <2>2. boot \in Nat /\ boot <= q.top /\ boot <= BootAt(uidNext[b] - 1)
    BY <1>3, <1>4, <2>1, BootFacts
  <2> QED BY <1>4, <2>2, Bounds
<1>6. sync \in [Boxes -> SyncRow \cup {None}] /\ sync[b] \in [lastSeen : 0..MaxUid, cursor : 0..MaxUid] /\ FolderOf(b)
  BY <1>0, <1>1, <1>2 DEF Typed, SyncRow, SyncInv, FolderInv
<1>7. /\ hist' = [arrived |-> hist'.arrived, boot |-> hist'.boot, top |-> hist'.top, excused |-> hist'.excused]
      /\ hist'.top = hist.top /\ hist'.excused = hist.excused /\ hist'.boot \in [Boxes -> Nat]
      /\ sync' \in [Boxes -> SyncRow \cup {None}]
      /\ \A c \in Boxes \ {b} : sync'[c] = sync[c] /\ hist'.boot[c] = hist.boot[c]
      /\ sync'[b] \in SyncRow /\ sync'[b].cursor = sync[b].cursor
      /\ \/ hist'.boot[b] = hist.boot[b] /\ sync'[b].lastSeen = sync[b].lastSeen
         \/ hist'.boot[b] = boot /\ sync'[b].lastSeen = boot
  <2>1. CASE sync' = sync /\ hist' = hist
    BY <1>0, <1>6, <2>1 DEF Typed, SyncRow
  <2>2. CASE /\ sync' = [sync EXCEPT ![b].lastSeen = boot]
             /\ hist' = [hist EXCEPT !.boot[b] = boot]
    <3>1. PICK n : n = [sync[b] EXCEPT !.lastSeen = boot]
      OBVIOUS
    <3>2. n \in SyncRow /\ n.cursor = sync[b].cursor /\ n.lastSeen = boot
      BY <1>5, <1>6, <3>1 DEF SyncRow
    <3>3. sync' = [sync EXCEPT ![b] = n]
      BY <2>2, <3>1
    <3>4. PICK f : f = [hist.boot EXCEPT ![b] = boot]
      OBVIOUS
    <3>5. f \in [Boxes -> Nat] /\ f[b] = boot /\ \A c \in Boxes \ {b} : f[c] = hist.boot[c]
      BY <1>4, <1>5, <3>4
    <3>6. hist' = [hist EXCEPT !.boot = f]
      BY <2>2, <3>4
    <3>7. /\ hist' = [arrived |-> hist'.arrived, boot |-> hist'.boot, top |-> hist'.top, excused |-> hist'.excused]
          /\ hist'.top = hist.top /\ hist'.excused = hist.excused /\ hist'.boot = f
      BY <1>0, <3>6 DEF Typed
    <3> QED BY <1>6, <3>2, <3>3, <3>5, <3>7
  <2> QED BY <1>2, <1>3, <2>1, <2>2 DEF BackBoot, BootAt
<1>8. Mono
  BY <1>0, <1>7, MonoSame DEF Known
<1>9. FolderOf(b)'
  <2>1. ASSUME NEW u \in Seen(b)' PROVE Done(b, u)'
    <3>0. /\ u \in Uids /\ u \in Int
          /\ \/ hist'.boot[b] < u /\ u <= sync'[b].lastSeen
             \/ sync[b].cursor < u /\ u <= hist.top[b]
      BY <1>7 DEF Seen, Uids
    <3>1. \/ hist.boot[b] < u /\ u <= sync[b].lastSeen
          \/ sync[b].cursor < u /\ u <= hist.top[b]
      BY <1>5, <1>7, <3>0
    <3>2. u \in Seen(b)
      BY <1>1, <1>2, <3>0, <3>1, SyncRowApart DEF Seen
    <3>3. Done(b, u)
      BY <1>6, <3>2 DEF FolderOf
    <3> QED BY <1>0, <1>7, <3>3 DEF Done, Known
  <2>2. hist'.top[b] < uidNext[b] /\ hist'.boot[b] <= BootAt(uidNext[b] - 1)
    BY <1>5, <1>6, <1>7 DEF FolderOf
  <2>3. sync'[b].lastSeen < uidNext[b] /\ sync'[b].cursor < uidNext[b]
    BY <1>1, <1>2, <1>4, <1>5, <1>6, <1>7 DEF FolderOf
  <2> QED BY <1>0, <2>1, <2>2, <2>3 DEF FolderOf
<1>10. ASSUME NEW r, Become("job", r), ProcOf("job")' PROVE SyncInv'
  <2>1. proc' = [x \in Procs |-> proc'[x]]
    BY <1>0, <1>10, BecomeFacts
  <2>2. Typed'
    BY <1>0, <1>7, <2>1 DEF Typed
  <2>3. conn'.lock # "job"
    BY <1>0 DEF SyncInv, LockOwned
  <2>4. hist.boot[b] <= hist'.boot[b]
    BY <1>4, <1>7
  <2> QED BY <1>0, <1>7, <1>8, <1>9, <1>10, <2>2, <2>3, <2>4, CursorStep
<1>11. \A c \in Boxes : sync[c] \in SyncRow => sync'[c] \in SyncRow
  BY <1>7
<1>12. CASE Become("job", Loop("bnext", q.todo))
  <2> DEFINE r == Loop("bnext", q.todo)
  <2>1. /\ Local(r) /\ r.todo = q.todo /\ r.batch = {} /\ r.mx = 0 /\ r.held = {}
        /\ r.pc \in {"idle", "bnext"}
    BY LoopFacts
  <2> HIDE DEF r
  <2>2. proc'["job"] = r
    BY <1>0, <1>12, BecomeFacts DEF r
  <2>3. ProcOf("job")'
    BY <1>1, <1>11, <2>1, <2>2, PlainProc DEF Delta, Back
  <2> QED BY <1>10, <1>12, <2>3 DEF r
<1>13. CASE q.pos > 0 /\ Become("job", [q EXCEPT !.pc = "bfetch", !.top = 0, !.ls = 0])
  <2>1. PICK r : r = [q EXCEPT !.pc = "bfetch", !.top = 0, !.ls = 0] /\ Become("job", r)
    BY <1>13
  <2>2. /\ Local(r) /\ r.pc = "bfetch" /\ r.box = b /\ r.todo = q.todo /\ r.pos = q.pos
        /\ r.mx = 0 /\ r.batch = {} /\ r.held = q.held
    BY <1>1, <1>2, <2>1 DEF Local
  <2>3. proc'["job"] = r
    BY <1>0, <2>1, BecomeFacts
  <2>4. BackOf("job")'
    BY <1>4, <1>7, <1>13, <2>2, <2>3 DEF BackOf
  <2>5. r.pc \in Back /\ r.pc \notin Delta /\ r.pc \notin Reading
    BY <2>2 DEF Back, Delta, Reading
  <2>6. ProcOf("job")'
    BY <1>0, <1>1, <1>7, <1>11, <2>2, <2>3, <2>4, <2>5 DEF ProcOf
  <2> QED BY <1>10, <2>1, <2>6
<1>14. q.pos \in Int
  BY <1>4, <1>6, Bounds
<1> QED BY <1>12, <1>13, <1>14 DEF BackBoot

\* A backfill that reads or is to read a window of folder b.
LEMMA BackWindowFacts ==
    ASSUME SyncInv, proc["job"].pc \in {"bfetch", "bmessage"}
    PROVE  LET q == proc["job"] IN
           /\ Typed /\ "job" \in Procs /\ Local(q) /\ q.todo \subseteq {c \in Boxes : sync[c] \in SyncRow}
           /\ q.held \subseteq Rows /\ q.batch \subseteq Entries /\ q.box \in Boxes /\ conn.sel \in Boxes
           /\ q.pc = "bfetch" => q.batch = {} /\ q.mx = 0
           /\ \A e \in q.batch : Own(q.box, e.uid, e.mid)
           /\ sync[q.box] \in SyncRow /\ q.pos = sync[q.box].cursor
           /\ q.pos \in Nat /\ q.pos > 0 /\ q.pos < uidNext[q.box] /\ q.pos <= MaxUid
           /\ BackStart(q) \in Nat /\ 1 <= BackStart(q) /\ BackStart(q) <= q.pos
           /\ BackStart(q)..q.pos \subseteq Uids /\ \A u \in BackStart(q)..q.pos : u < uidNext[q.box]
           /\ q.pc = "bmessage" => \A u \in BackStart(q)..q.pos : Through("job", u) => Done(q.box, u)
<1> DEFINE q == proc["job"]
<1>0. Typed /\ "job" \in Procs /\ ProcOf("job") /\ FolderInv
  BY DEF SyncInv, ProcInv, Procs
<1>1. /\ Local(q) /\ q.todo \subseteq {c \in Boxes : sync[c] \in SyncRow}
      /\ q.held \subseteq Rows /\ q.batch \subseteq Entries /\ q.box \in Boxes /\ conn.sel \in Boxes
      /\ q.pc = "bfetch" => q.batch = {} /\ q.mx = 0
      /\ \A e \in q.batch : Own(q.box, e.uid, e.mid)
      /\ sync[q.box] \in SyncRow /\ BackOf("job")
  BY <1>0 DEF ProcOf, Back, Reading
<1>2. /\ q.pos = sync[q.box].cursor /\ q.pos > 0
      /\ q.pc = "bmessage" => \A u \in BackStart(q)..q.pos : Through("job", u) => Done(q.box, u)
  BY <1>1 DEF BackOf
<1>3. q.pos \in Nat /\ q.pos <= MaxUid /\ q.pos < uidNext[q.box] /\ uidNext[q.box] \in Int
  BY <1>0, <1>1, <1>2, Bounds DEF SyncRow, FolderInv, FolderOf, Typed
<1>4. /\ BackStart(q) \in Nat /\ 1 <= BackStart(q) /\ BackStart(q) <= q.pos
  BY <1>2, <1>3, Bounds DEF BackStart
<1>5. BackStart(q)..q.pos \subseteq Uids /\ \A u \in BackStart(q)..q.pos : u < uidNext[q.box]
  BY <1>3, <1>4, Bounds DEF Uids
<1> QED BY <1>0, <1>1, <1>2, <1>3, <1>4, <1>5

\* A backfill goes on in its window.
LEMMA BackProc ==
    ASSUME NEW r, proc'["job"] = r, Local(r), r.pc = "bmessage", NEW b \in Boxes, r.box = b,
           r.todo \subseteq {c \in Boxes : sync'[c] \in SyncRow}, r.held \subseteq Rows, r.batch \subseteq Entries,
           sync'[b] \in SyncRow, conn'.sel \in Boxes, r.pos = sync'[b].cursor, r.pos > 0,
           \A e \in r.batch : Own(b, e.uid, e.mid)',
           \A u \in BackStart(r)..r.pos : (\A e \in r.batch : e.uid # u) => Done(b, u)'
    PROVE  ProcOf("job")'
<1>1. BackOf("job")'
  BY DEF BackOf, Through
<1>2. r.pc \in Back /\ r.pc \notin Delta /\ r.pc \in Reading
  BY DEF Back, Delta, Reading
<1> QED BY <1>1, <1>2 DEF ProcOf

\* A window of a backfill is read.
LEMMA BackFetchPreserved ==
    ASSUME SyncInv, BackFetch
    PROVE  SyncInv'
<1> DEFINE q == proc["job"]
<1>0. /\ UNCHANGED <<server, store, conn>> /\ q.pc = "bfetch" /\ UNCHANGED <<server, store>>
      /\ sync' = sync /\ conn' = conn
  BY DEF BackFetch, store
<1>1. /\ Typed /\ "job" \in Procs /\ Local(q) /\ q.todo \subseteq {x \in Boxes : sync[x] \in SyncRow}
      /\ q.held \subseteq Rows /\ q.box \in Boxes /\ conn.sel \in Boxes
      /\ sync[q.box] \in SyncRow /\ q.pos = sync[q.box].cursor /\ q.pos > 0
      /\ BackStart(q)..q.pos \subseteq Uids /\ \A u \in BackStart(q)..q.pos : u < uidNext[q.box]
  BY <1>0, BackWindowFacts
<1>2. PICK b \in Boxes, c \in Boxes : b = q.box /\ c = conn.sel
  BY <1>1
<1>3. PICK range : range = BackStart(q)..q.pos
  OBVIOUS
<1>4. range \subseteq Uids /\ \A u \in range : u < uidNext[b]
  BY <1>1, <1>2, <1>3
<1>5. hist' = IF c = b THEN hist ELSE [hist EXCEPT !.excused = @ \cup ({b} \X range)]
  BY <1>2, <1>3 DEF BackFetch
<1>6. UNCHANGED <<server, store>>
  BY <1>0
<1>7. /\ hist' = [arrived |-> hist'.arrived, boot |-> hist'.boot, top |-> hist'.top, excused |-> hist'.excused]
      /\ hist'.boot = hist.boot /\ hist'.top = hist.top
      /\ Mono
      /\ Listing(c, range) \subseteq Entries
      /\ \A e \in Listing(c, range) : e.uid \in range /\ Own(b, e.uid, e.mid)'
      /\ \A u \in range : (\A e \in Listing(c, range) : e.uid # u) => Done(b, u)'
  BY <1>1, <1>4, <1>5, <1>6, FetchFacts
<1>8. PICK L : L = Listing(c, range)
  OBVIOUS
<1>9. PICK r : r = [q EXCEPT !.pc = "bmessage", !.batch = L] /\ Become("job", r)
  BY <1>2, <1>3, <1>8 DEF BackFetch
<1>10. /\ Local(r) /\ r.pc = "bmessage" /\ r.batch = L /\ r.box = b /\ r.todo = q.todo
       /\ r.pos = q.pos /\ r.held = q.held
  BY <1>1, <1>2, <1>9 DEF Local
<1>11. proc'["job"] = r
  BY <1>1, <1>9, BecomeFacts
<1>12. BackStart(r)..r.pos = range
  BY <1>3, <1>10 DEF BackStart
<1>13. ProcOf("job")'
  <2>1. /\ r.batch \subseteq Entries /\ \A e \in r.batch : Own(b, e.uid, e.mid)'
        /\ \A u \in BackStart(r)..r.pos : (\A e \in r.batch : e.uid # u) => Done(b, u)'
    BY <1>7, <1>8, <1>10, <1>12
  <2>2. /\ r.todo \subseteq {x \in Boxes : sync'[x] \in SyncRow} /\ r.held \subseteq Rows
        /\ sync'[b] \in SyncRow /\ conn'.sel \in Boxes /\ r.pos = sync'[b].cursor /\ r.pos > 0
    BY <1>0, <1>1, <1>2, <1>10
  <2> QED BY <1>10, <1>11, <2>1, <2>2, BackProc
<1>14. q.pc \notin Delta
  BY <1>0 DEF Delta
<1> QED BY <1>0, <1>1, <1>7, <1>9, <1>13, <1>14, QuietStep

\* The quota ends a batch, which excuses what is left of it.
LEMMA QuotaPreserved ==
    ASSUME SyncInv, BackQuota
    PROVE  SyncInv'
<1> DEFINE q == proc["job"]
<1>0. /\ UNCHANGED <<server, store, conn>> /\ q.pc = "bmessage" /\ UNCHANGED server
      /\ sync' = sync /\ conn' = conn /\ rows' = rows /\ srv' = srv /\ uidNext' = uidNext
  BY DEF BackQuota, server, store
<1>1. /\ Typed /\ "job" \in Procs /\ Local(q) /\ q.todo \subseteq {x \in Boxes : sync[x] \in SyncRow}
      /\ q.held \subseteq Rows /\ q.batch \subseteq Entries /\ q.box \in Boxes /\ conn.sel \in Boxes
      /\ sync[q.box] \in SyncRow /\ q.pos = sync[q.box].cursor /\ q.pos > 0
      /\ \A u \in BackStart(q)..q.pos : Through("job", u) => Done(q.box, u)
  BY <1>0, BackWindowFacts
<1>2. PICK b \in Boxes : b = q.box
  BY <1>1
<1>3. hist' = [hist EXCEPT !.excused = hist.excused \cup {<<b, e.uid>> : e \in q.batch}]
  BY <1>2 DEF BackQuota
<1>4. /\ hist' = [arrived |-> hist'.arrived, boot |-> hist'.boot, top |-> hist'.top, excused |-> hist'.excused]
      /\ hist'.boot = hist.boot /\ hist'.top = hist.top /\ hist.excused \subseteq hist'.excused
      /\ \A e \in q.batch : <<b, e.uid>> \in hist'.excused
  BY <1>1, <1>3 DEF Typed
<1>5. Mono
  BY <1>0, <1>1, <1>4, MonoSame DEF Known
<1>6. PICK r : r = [q EXCEPT !.batch = {}, !.todo = {}] /\ Become("job", r)
  BY DEF BackQuota
<1>7. /\ Local(r) /\ r.pc = "bmessage" /\ r.batch = {} /\ r.box = b /\ r.todo = {}
      /\ r.pos = q.pos /\ r.held = q.held
  BY <1>0, <1>1, <1>2, <1>6 DEF Local
<1>8. proc'["job"] = r
  BY <1>1, <1>6, BecomeFacts
<1>9. BackStart(r)..r.pos = BackStart(q)..q.pos
  BY <1>7 DEF BackStart
<1>10. ASSUME NEW u \in BackStart(q)..q.pos PROVE Done(b, u)'
  <2>1. CASE Through("job", u)
    BY <1>0, <1>1, <1>2, <1>4, <2>1 DEF Done, Known
  <2>2. CASE ~Through("job", u)
    BY <1>4, <2>2 DEF Done, Through
  <2> QED BY <2>1, <2>2
<1>11. ProcOf("job")'
  BY <1>0, <1>1, <1>2, <1>7, <1>8, <1>9, <1>10, BackProc
<1>12. q.pc \notin Delta
  BY <1>0 DEF Delta
<1> QED BY <1>0, <1>1, <1>4, <1>5, <1>6, <1>11, <1>12, QuietStep

\* The cursor moves below a window that is through.
LEMMA BackWindowPreserved ==
    ASSUME SyncInv, BackWindowDone
    PROVE  SyncInv'
<1> DEFINE q == proc["job"]
<1>0. /\ UNCHANGED <<server, rows, conn, hist>> /\ q.pc = "bmessage" /\ q.batch = {} /\ UNCHANGED server
      /\ conn' = conn /\ rows' = rows /\ srv' = srv /\ uidNext' = uidNext /\ hist' = hist
  BY DEF BackWindowDone, server
<1>1. /\ Typed /\ "job" \in Procs /\ Local(q) /\ q.todo \subseteq {x \in Boxes : sync[x] \in SyncRow}
      /\ q.box \in Boxes
      /\ sync[q.box] \in SyncRow /\ q.pos = sync[q.box].cursor /\ q.pos \in Nat /\ q.pos <= MaxUid
      /\ q.pos < uidNext[q.box]
      /\ BackStart(q) \in Nat /\ 1 <= BackStart(q) /\ BackStart(q) <= q.pos
      /\ \A u \in BackStart(q)..q.pos : Through("job", u) => Done(q.box, u)
  BY <1>0, BackWindowFacts
<1>2a. PICK b \in Boxes : b = q.box
  BY <1>1
<1>2b. PICK k : k = BackStart(q) - 1
  OBVIOUS
<1>2. b = q.box /\ k = BackStart(q) - 1
  BY <1>2a, <1>2b
<1>3. /\ k \in Nat /\ k < q.pos /\ k \in 0..MaxUid /\ uidNext[b] \in Int /\ hist.boot[b] \in Int /\ hist.top[b] \in Int
      /\ \A u \in Uids : k < u /\ u <= q.pos => Done(b, u)
  <2>1. k \in Nat /\ k < q.pos /\ k \in 0..MaxUid /\ uidNext[b] \in Int /\ hist.boot[b] \in Int /\ hist.top[b] \in Int
    BY <1>1, <1>2, Bounds DEF Typed
  <2>2. ASSUME NEW u \in Uids, k < u, u <= q.pos PROVE Done(b, u)
    <3>1. u \in BackStart(q)..q.pos
      BY <1>1, <1>2, <2>2 DEF Uids
    <3>2. Through("job", u)
      BY <1>0 DEF Through
    <3> QED BY <1>1, <1>2, <3>1, <3>2
  <2> QED BY <2>1, <2>2
<1>4. sync \in [Boxes -> SyncRow \cup {None}] /\ sync[b] \in [lastSeen : 0..MaxUid, cursor : 0..MaxUid] /\ FolderOf(b)
  BY <1>1, <1>2 DEF Typed, SyncRow, SyncInv, FolderInv
<1>5. PICK n : n = [sync[b] EXCEPT !.cursor = k]
  OBVIOUS
<1>6. n \in SyncRow /\ n.lastSeen = sync[b].lastSeen /\ n.cursor = k
  BY <1>3, <1>4, <1>5 DEF SyncRow
<1>7. sync' = [sync EXCEPT ![b] = n]
  BY <1>2, <1>5 DEF BackWindowDone
<1>8. /\ sync' \in [Boxes -> SyncRow \cup {None}] /\ sync'[b] = n
      /\ \A c \in Boxes \ {b} : sync'[c] = sync[c]
  BY <1>4, <1>6, <1>7
<1>9. Mono
  BY <1>0, <1>1, MonoSame DEF Known
<1>10. FolderOf(b)'
  <2>1. ASSUME NEW u \in Seen(b)' PROVE Done(b, u)'
    <3>0. /\ u \in Uids /\ u \in Int
          /\ \/ hist.boot[b] < u /\ u <= sync[b].lastSeen
             \/ k < u /\ u <= hist.top[b]
      BY <1>0, <1>6, <1>8 DEF Seen, Uids
    <3>1. CASE k < u /\ u <= q.pos
      BY <1>0, <1>3, <3>0, <3>1 DEF Done, Known
    <3>2. CASE \/ hist.boot[b] < u /\ u <= sync[b].lastSeen
               \/ q.pos < u /\ u <= hist.top[b]
      <4>1. u \in Seen(b)
        BY <1>1, <1>2, <3>0, <3>2, SyncRowApart DEF Seen
      <4>2. Done(b, u)
        BY <1>4, <4>1 DEF FolderOf
      <4> QED BY <1>0, <4>2 DEF Done, Known
    <3> QED BY <1>1, <3>0, <3>1, <3>2
  <2>2. n.lastSeen < uidNext[b] /\ n.cursor < uidNext[b]
    BY <1>1, <1>2, <1>3, <1>4, <1>6 DEF FolderOf
  <2> QED BY <1>0, <1>4, <1>8, <2>1, <2>2 DEF FolderOf
<1>11. PICK rest \in {q.todo, {}} : Become("job", Loop("bnext", rest))
  BY DEF BackWindowDone
<1> DEFINE r == Loop("bnext", rest)
<1>12. /\ Local(r) /\ r.todo = rest /\ r.batch = {} /\ r.mx = 0 /\ r.held = {}
       /\ r.pc \in {"idle", "bnext"}
  BY LoopFacts
<1> HIDE DEF r
<1>13. proc'["job"] = r /\ proc' = [x \in Procs |-> proc'[x]]
  BY <1>1, <1>11, BecomeFacts DEF r
<1>14. rest \subseteq {c \in Boxes : sync'[c] \in SyncRow}
  BY <1>1, <1>6, <1>8
<1>15. ProcOf("job")'
  BY <1>12, <1>13, <1>14, PlainProc DEF Delta, Back
<1>16. Typed'
  BY <1>0, <1>1, <1>8, <1>13 DEF Typed
<1>17. conn'.lock # "job"
  BY <1>0, <1>1 DEF SyncInv, LockOwned
<1>18. hist.boot[b] <= hist'.boot[b]
  BY <1>0, <1>3
<1> QED BY <1>0, <1>1, <1>6, <1>8, <1>9, <1>10, <1>11, <1>15, <1>16, <1>17, <1>18, CursorStep DEF r

-----------------------------------------------------------------------------
(* Commands, notices, faults.                                               *)

\* The job makes the server do something, or fails to.
LEMMA CommandStep ==
    ASSUME SyncInv, Stable, NEW r, Become("job", r), UNCHANGED <<store, hist>>,
           conn' = conn \/ \E b \in Boxes : conn' = [conn EXCEPT !.sel = b],
           proc["job"].pc \notin Delta, Local(r), r.todo = {} \/ r.todo = proc["job"].todo, r.held \subseteq Rows,
           r.batch = {}, r.mx = 0, r.pc \in {"dbmove", "dbdelete", "dbempty"},
           r.pc = "dbmove" => r.box \in Boxes /\ r.to \in Boxes
    PROVE  SyncInv'
<1>0. Typed /\ "job" \in Procs /\ ProcOf("job") /\ sync' = sync /\ rows' = rows /\ hist' = hist
  BY DEF SyncInv, ProcInv, store, Procs
<1>1. /\ proc' = [q \in Procs |-> proc'[q]] /\ proc'["job"] = r
      /\ \A q \in Procs \ {"job"} : proc'[q] = proc[q]
  BY <1>0, BecomeFacts
<1>2. /\ conn' \in [sel : Boxes \cup {None}, lock : Procs \cup {None}]
      /\ conn'.lock = conn.lock /\ conn.sel \in Boxes => conn'.sel \in Boxes
  BY <1>0 DEF Typed
<1>3. Typed'
  BY <1>0, <1>1, <1>2 DEF Typed, Stable
<1>4. Mono
  BY <1>0 DEF Mono, Known
<1>5. r.todo \subseteq {b \in Boxes : sync'[b] \in SyncRow}
  BY <1>0 DEF ProcOf
<1>6. ProcOf("job")'
  BY <1>1, <1>5, PlainProc DEF Delta, Back
<1>7. conn'.lock # "job"
  BY <1>0, <1>2 DEF SyncInv, LockOwned, Delta
<1>8. RowsOwn'
  BY <1>0, <1>4, RowsKept DEF Same
<1> QED BY <1>0, <1>1, <1>2, <1>3, <1>4, <1>6, <1>7, <1>8, StepFrame

\* A command on the server.
LEMMA ImapPreserved ==
    ASSUME SyncInv, ImapMove \/ ImapDelete \/ \E b \in Boxes : EmptyStart(b)
    PROVE  SyncInv'
<1> DEFINE q == proc["job"]
<1>0. Typed /\ "job" \in Procs /\ ProcOf("job") /\ UNCHANGED <<store, hist>>
  BY DEF SyncInv, ProcInv, Procs, ImapMove, ImapDelete, EmptyStart
<1>1. Local(q) /\ q.held \subseteq Rows /\ {h.uid : h \in q.held} \subseteq Uids
  BY <1>0 DEF ProcOf, Rows
<1>2. CASE ImapMove
  <2>1. q.pc = "imapmove" /\ q.box \in Boxes /\ q.to \in Boxes /\ q.batch = {} /\ q.mx = 0
    BY <1>0, <1>2 DEF ImapMove, ProcOf, Reading
  <2>2. PICK r : r = [q EXCEPT !.pc = "dbmove"] /\ Become("job", r)
    BY <1>2 DEF ImapMove
  <2>3. /\ Local(r) /\ r.pc = "dbmove" /\ r.box = q.box /\ r.to = q.to /\ r.todo = q.todo
        /\ r.held = q.held /\ r.batch = {} /\ r.mx = 0
    BY <1>1, <2>1, <2>2 DEF Local
  <2>4. Stable /\ (conn' = conn \/ \E b \in Boxes : conn' = [conn EXCEPT !.sel = b])
    <3>1. CASE ServerMove(q.box, q.to, {h.uid : h \in q.held}) /\ conn' = [conn EXCEPT !.sel = q.box]
      BY <1>0, <1>1, <2>1, <3>1, MoveStable
    <3>2. CASE UNCHANGED <<server, conn, notice>>
      BY <1>0, <3>2, ServerSame
    <3> QED BY <1>2, <3>1, <3>2 DEF ImapMove
  <2>5. q.pc \notin Delta
    BY <2>1 DEF Delta
  <2> QED BY <1>0, <1>1, <2>1, <2>2, <2>3, <2>4, <2>5, CommandStep
<1>3. CASE ImapDelete
  <2>1. q.pc = "imapdelete" /\ q.box \in Boxes /\ q.batch = {} /\ q.mx = 0
    BY <1>0, <1>3 DEF ImapDelete, ProcOf, Reading
  <2>2. PICK r : r = [q EXCEPT !.pc = "dbdelete"] /\ Become("job", r)
    BY <1>3 DEF ImapDelete
  <2>3. /\ Local(r) /\ r.pc = "dbdelete" /\ r.todo = q.todo
        /\ r.held = q.held /\ r.batch = {} /\ r.mx = 0
    BY <1>1, <2>1, <2>2 DEF Local
  <2>4. Stable /\ (conn' = conn \/ \E b \in Boxes : conn' = [conn EXCEPT !.sel = b])
    <3>1. CASE ServerDelete(q.box, {h.uid : h \in q.held}) /\ conn' = [conn EXCEPT !.sel = q.box]
      BY <1>0, <2>1, <3>1, DeleteStable
    <3>2. CASE UNCHANGED <<server, conn, notice>>
      BY <1>0, <3>2, ServerSame
    <3> QED BY <1>3, <3>1, <3>2 DEF ImapDelete
  <2>5. q.pc \notin Delta
    BY <2>1 DEF Delta
  <2> QED BY <1>0, <1>1, <2>2, <2>3, <2>4, <2>5, CommandStep
<1>4. ASSUME NEW b \in Boxes, EmptyStart(b) PROVE SyncInv'
  <2>1. q.pc = "idle"
    BY <1>4 DEF EmptyStart, Command
  <2>2. PICK r : r = [Idle EXCEPT !.pc = "dbempty", !.box = b, !.cmd = <<"empty", b>>] /\ Become("job", r)
    BY <1>4 DEF EmptyStart
  <2>3. /\ Local(r) /\ r.pc = "dbempty" /\ r.todo = {} /\ r.held = {} /\ r.batch = {} /\ r.mx = 0
    BY <2>2, IdleFacts DEF Local
  <2>4. Stable /\ (conn' = conn \/ \E c \in Boxes : conn' = [conn EXCEPT !.sel = c])
    <3>1. CASE ServerDelete(b, Uids) /\ conn' = [conn EXCEPT !.sel = b]
      BY <1>0, <3>1, DeleteStable
    <3>2. CASE UNCHANGED <<server, conn, notice>>
      BY <1>0, <3>2, ServerSame
    <3> QED BY <1>4, <3>1, <3>2 DEF EmptyStart
  <2>5. q.pc \notin Delta
    BY <2>1 DEF Delta
  <2> QED BY <1>0, <2>2, <2>3, <2>4, <2>5, CommandStep
<1> QED BY <1>2, <1>3, <1>4

\* The end of a job on the rows.
LEMMA JobEnds ==
    ASSUME SyncInv, Become("job", Idle), proc["job"].pc \notin Delta, UNCHANGED <<server, sync, conn>>,
           hist' = [arrived |-> hist'.arrived, boot |-> hist'.boot, top |-> hist'.top, excused |-> hist'.excused],
           hist'.boot = hist.boot, hist'.top = hist.top, rows' \subseteq Rows, Mono,
           \A r \in rows' : \E s \in rows : Same(r, s)
    PROVE  SyncInv'
<1>0. Typed /\ "job" \in Procs
  BY DEF SyncInv, Procs
<1>1. PICK r : r = Idle /\ Become("job", r)
  OBVIOUS
<1>2. proc'["job"] = r
  BY <1>0, <1>1, BecomeFacts
<1>3. ProcOf("job")'
  BY <1>1, <1>2, IdleFacts, PlainProc DEF Delta, Back
<1>4. RowsOwn'
  BY RowsKept
<1> QED BY <1>0, <1>1, <1>3, <1>4, RowStep

\* The database follows a command.
LEMMA DbPreserved ==
    ASSUME SyncInv, DbMove \/ DbDelete \/ DbEmpty
    PROVE  SyncInv'
<1> DEFINE q == proc["job"]
<1>0. /\ Typed /\ ProcOf("job") /\ UNCHANGED <<server, sync, conn>> /\ UNCHANGED server /\ Become("job", Idle)
      /\ q.pc \in {"dbmove", "dbdelete", "dbempty"} /\ srv' = srv
  BY DEF SyncInv, ProcInv, Procs, DbMove, DbDelete, DbEmpty, server
<1>1. q.pc \notin Delta
  BY <1>0 DEF Delta
<1>2. ASSUME NEW gone, Remove(gone) PROVE SyncInv'
  <2>1. /\ Mono /\ rows' \subseteq rows /\ rows' \subseteq Rows
        /\ hist' = [arrived |-> hist'.arrived, boot |-> hist'.boot, top |-> hist'.top, excused |-> hist'.excused]
        /\ hist'.boot = hist.boot /\ hist'.top = hist.top
    BY <1>0, <1>2, RemoveFacts
  <2>2. \A r \in rows' : \E s \in rows : Same(r, s)
    BY <2>1 DEF Same
  <2> QED BY <1>0, <1>1, <2>1, <2>2, JobEnds
<1>3. CASE DbDelete \/ DbEmpty
  BY <1>2, <1>3 DEF DbDelete, DbEmpty
<1>4. CASE DbMove
  <2>0. hist' = hist /\ q.to \in Boxes /\ rows \subseteq Rows
    BY <1>0, <1>4 DEF DbMove, ProcOf, Typed
  <2>1. /\ hist' = [arrived |-> hist'.arrived, boot |-> hist'.boot, top |-> hist'.top, excused |-> hist'.excused]
        /\ hist'.boot = hist.boot /\ hist'.top = hist.top
    BY <1>0, <2>0 DEF Typed
  <2>2. CASE rows' = rows
    <3>1. Mono /\ rows' \subseteq Rows /\ \A r \in rows' : \E s \in rows : Same(r, s)
      BY <1>0, <2>0, <2>2, MonoSame DEF Known, Same
    <3> QED BY <1>0, <1>1, <2>1, <3>1, JobEnds
  <2>3. ASSUME NEW mine, mine \subseteq rows, rows' = (rows \ mine) \cup {[r EXCEPT !.box = q.to] : r \in mine}
        PROVE  SyncInv'
    <3>1. ASSUME NEW r \in mine PROVE LET s == [r EXCEPT !.box = q.to] IN s \in Rows /\ Same(s, r) /\ s.mid = r.mid
      BY <2>0, <2>3 DEF Rows, Same
    <3>2. ASSUME NEW r \in rows' PROVE r \in Rows /\ \E s \in rows : Same(r, s)
      <4>1. CASE r \in rows
        BY <2>0, <4>1 DEF Same
      <4>2. CASE \E s \in mine : r = [s EXCEPT !.box = q.to]
        BY <2>3, <3>1, <4>2
      <4> QED BY <2>3, <4>1, <4>2
    <3>3. Known \subseteq Known'
      <4> SUFFICES ASSUME NEW r \in rows PROVE \E s \in rows' : s.mid = r.mid
        BY DEF Known
      <4> QED BY <2>3, <3>1
    <3>4. Mono
      BY <1>0, <2>0, <3>3, MonoSame
    <3>5. rows' \subseteq Rows /\ \A r \in rows' : \E s \in rows : Same(r, s)
      BY <3>2
    <3> QED BY <1>0, <1>1, <2>1, <3>4, <3>5, JobEnds
  <2>4. \A t, b : InThread(t, b) \subseteq rows
    BY DEF InThread
  <2> QED BY <1>4, <2>2, <2>3, <2>4 DEF DbMove
<1> QED BY <1>3, <1>4

\* Discovery gives every folder a row, with nothing behind its cursors.
LEMMA DiscoverPreserved ==
    ASSUME SyncInv, Discover
    PROVE  SyncInv'
<1>0. /\ Typed /\ UNCHANGED server /\ rows' = rows /\ proc' = proc /\ srv' = srv /\ uidNext' = uidNext
      /\ \A b \in Boxes : sync[b] = None
      /\ conn' = [conn EXCEPT !.sel = CHOOSE b \in Boxes : TRUE]
  BY DEF SyncInv, Discover, server
<1>1. /\ hist' = [arrived |-> hist'.arrived, boot |-> hist'.boot, top |-> hist'.top, excused |-> hist'.excused]
      /\ hist'.boot = hist.boot /\ hist'.excused = hist.excused /\ hist'.top = [b \in Boxes |-> Top(b)]
  BY <1>0 DEF Discover, Typed
<1>2. \A b \in Boxes : Top(b) \in Nat /\ Top(b) \in 0..MaxUid /\ Top(b) < uidNext[b] /\ uidNext[b] >= 1 /\ uidNext[b] \in Int
  BY <1>0, Bounds DEF Typed, Top
<1>3. ASSUME NEW b \in Boxes PROVE sync'[b] \in SyncRow /\ sync'[b].lastSeen = 0 /\ sync'[b].cursor = Top(b)
  <2>1. sync'[b] = [lastSeen |-> 0, cursor |-> Top(b)]
    BY DEF Discover
  <2>2. 0 \in 0..MaxUid
    BY Bounds
  <2> QED BY <1>2, <2>1, <2>2 DEF SyncRow
<1>4. sync' \in [Boxes -> SyncRow \cup {None}]
  <2>1. sync' = [b \in Boxes |-> sync'[b]]
    BY DEF Discover
  <2> QED BY <1>3, <2>1
<1>5. /\ conn' \in [sel : Boxes \cup {None}, lock : Procs \cup {None}]
      /\ conn'.lock = conn.lock /\ conn'.sel \in Boxes
  <2>1. (CHOOSE b \in Boxes : TRUE) \in Boxes
    BY MailSyncAssumption
  <2> QED BY <1>0, <2>1 DEF Typed
<1>6. Typed'
  BY <1>0, <1>1, <1>2, <1>4, <1>5 DEF Typed
<1>7. Mono
  BY <1>0, <1>1, MonoSame DEF Known
<1>8. LockOwned'
  BY <1>0, <1>5 DEF SyncInv, LockOwned
<1>9. ASSUME NEW p \in Procs PROVE ProcOf(p)'
  <2>1. \A b \in Boxes : sync[b] \notin SyncRow
    BY <1>0, SyncRowApart
  <2>2. \A b \in Boxes : hist.boot[b] <= hist'.boot[b]
    BY <1>0, <1>1 DEF Typed
  <2> QED BY <1>0, <1>5, <1>6, <1>7, <2>1, <2>2, ProcKept
<1>10. ASSUME NEW b \in Boxes PROVE FolderOf(b)'
  <2>1. FolderOf(b) /\ hist.boot[b] \in Nat
    BY <1>0 DEF SyncInv, FolderInv, Typed
  <2>2. Seen(b)' = {}
    BY <1>1, <1>2, <1>3, <2>1 DEF Seen, Uids
  <2>3. 0 < uidNext[b] /\ Top(b) < uidNext[b]
    BY <1>2
  <2> QED BY <1>0, <1>1, <1>3, <2>1, <2>2, <2>3 DEF FolderOf
<1>11. RowsOwn'
  BY <1>0, <1>7, RowsKept DEF Same
<1> QED BY <1>6, <1>8, <1>9, <1>10, <1>11 DEF SyncInv, ProcInv, FolderInv

\* An expunge notice removes a row and excuses its message.
LEMMA ExpungePreserved ==
    ASSUME SyncInv, NEW u \in Uids, HandleExpunge(u)
    PROVE  SyncInv'
<1>0. /\ Typed /\ UNCHANGED server /\ srv' = srv /\ uidNext' = uidNext /\ sync' = sync /\ proc' = proc /\ conn' = conn
  BY DEF SyncInv, HandleExpunge, server
<1>1. /\ Mono /\ rows' \subseteq rows /\ rows' \subseteq Rows
      /\ hist' = [arrived |-> hist'.arrived, boot |-> hist'.boot, top |-> hist'.top, excused |-> hist'.excused]
      /\ hist'.boot = hist.boot /\ hist'.top = hist.top
  <2>1. CASE rows' = rows /\ hist' = hist
    BY <1>0, <2>1, MonoSame DEF Known, Typed
  <2>2. ASSUME NEW gone, Remove(gone)
        PROVE  /\ Mono /\ rows' \subseteq rows /\ rows' \subseteq Rows
               /\ hist' = [arrived |-> hist'.arrived, boot |-> hist'.boot, top |-> hist'.top, excused |-> hist'.excused]
               /\ hist'.boot = hist.boot /\ hist'.top = hist.top
    BY <1>0, <2>2, RemoveFacts
  <2> QED BY <2>1, <2>2 DEF HandleExpunge
<1>2. Typed'
  BY <1>0, <1>1 DEF Typed
<1>3. RowsOwn'
  BY <1>1, RowsKept DEF Same
<1>4. "job" \in Procs /\ \A b \in Boxes : hist.boot[b] \in Int
  BY <1>0 DEF Procs, Typed
<1>5. ProcOf("job")'
  BY <1>0, <1>1, <1>2, <1>4, ProcKept
<1>6. conn'.lock = "job" => proc'["job"].pc \in Delta
  BY <1>0, <1>4 DEF SyncInv, LockOwned, Delta
<1> QED BY <1>0, <1>1, <1>2, <1>3, <1>4, <1>5, <1>6, StepFrame

\* An exception ends a function.
LEMMA FailPreserved ==
    ASSUME SyncInv, NEW p \in Procs, Fail(p)
    PROVE  SyncInv'
<1>0. Typed /\ UNCHANGED <<server, store, hist>> /\ conn' = Unlock(p) /\ Become(p, Idle)
  BY DEF SyncInv, Fail
<1>1. /\ conn' \in [sel : Boxes \cup {None}, lock : Procs \cup {None}]
      /\ conn'.sel = conn.sel /\ conn'.lock \in {conn.lock, None} /\ conn'.lock # p
  BY <1>0, UnlockFacts
<1>2. PICK r : r = Idle /\ Become(p, r)
  BY <1>0
<1>3. proc'[p] = r
  BY <1>0, <1>2, BecomeFacts
<1>4. ProcOf(p)'
  BY <1>2, <1>3, IdleFacts, PlainProc DEF Delta, Back
<1> QED BY <1>0, <1>1, <1>2, <1>4, LocalStep

\* The worker restarts.
LEMMA CrashPreserved ==
    ASSUME SyncInv, Crash
    PROVE  SyncInv'
<1>0. /\ Typed /\ UNCHANGED server /\ srv' = srv /\ uidNext' = uidNext /\ sync' = sync /\ rows' = rows /\ hist' = hist
      /\ proc' = [p \in Procs |-> Idle] /\ conn' = Fresh
  BY DEF SyncInv, Crash, server, store
<1>1. conn' \in [sel : Boxes \cup {None}, lock : Procs \cup {None}] /\ conn'.lock = None
  BY <1>0 DEF Fresh
<1>2. PICK r : r = Idle
  OBVIOUS
<1>3. proc' = [p \in Procs |-> proc'[p]] /\ \A p \in Procs : proc'[p] = r
  BY <1>0, <1>2
<1>4. Typed'
  BY <1>0, <1>1, <1>3 DEF Typed
<1>5. Mono
  BY <1>0, MonoSame DEF Known
<1>6. ASSUME NEW p \in Procs PROVE ProcOf(p)'
  BY <1>2, <1>3, IdleFacts, PlainProc DEF Delta, Back
<1>7. ASSUME NEW b \in Boxes PROVE FolderOf(b)'
  BY <1>0, <1>4, <1>5, FolderKept
<1>8. RowsOwn'
  BY <1>0, <1>5, RowsKept DEF Same
<1>9. LockOwned'
  BY <1>1, NoneApart DEF LockOwned
<1> QED BY <1>4, <1>6, <1>7, <1>8, <1>9 DEF SyncInv, ProcInv, FolderInv

-----------------------------------------------------------------------------
(* The invariant, and the properties it shows.                              *)

\* The invariant holds before anything has been synchronised.
LEMMA SyncInit == Init => SyncInv
<1> SUFFICES ASSUME Init PROVE SyncInv
  OBVIOUS
<1>0. /\ srv = [b \in Boxes |-> [u \in Uids |-> None]] /\ uidNext = [b \in Boxes |-> 1]
      /\ sync = [b \in Boxes |-> None] /\ rows = {} /\ proc = [p \in Procs |-> Idle] /\ conn = Fresh
      /\ hist = [arrived |-> 0, boot |-> [b \in Boxes |-> 0], top |-> [b \in Boxes |-> 0], excused |-> {}]
  BY DEF Init
<1>1. /\ hist = [arrived |-> hist.arrived, boot |-> hist.boot, top |-> hist.top, excused |-> hist.excused]
      /\ hist.boot = [b \in Boxes |-> 0] /\ hist.top = [b \in Boxes |-> 0]
  BY <1>0
<1>2. PICK r : r = Idle
  OBVIOUS
<1>3. proc = [p \in Procs |-> proc[p]] /\ \A p \in Procs : proc[p] = r
  BY <1>0, <1>2
<1>4. conn \in [sel : Boxes \cup {None}, lock : Procs \cup {None}] /\ conn.lock = None
  BY <1>0 DEF Fresh
<1>5. Typed
  <2>1. 1 \in 1..(MaxUid + 1)
    BY Bounds
  <2>2. uidNext \in [Boxes -> 1..(MaxUid + 1)]
    BY <1>0, <2>1
  <2>3. srv \in [Boxes -> [Uids -> Mids \cup {None}]] /\ sync \in [Boxes -> SyncRow \cup {None}] /\ rows \subseteq Rows
    BY <1>0
  <2>4. hist.boot \in [Boxes -> Nat] /\ hist.top \in [Boxes -> Nat]
    BY <1>1
  <2> QED BY <1>1, <1>3, <1>4, <2>2, <2>3, <2>4 DEF Typed
<1>6. ASSUME NEW p \in Procs PROVE ProcOf(p)
  <2>1. /\ Local(r) /\ r.pc = "idle" /\ r.todo = {} /\ r.batch = {} /\ r.mx = 0 /\ r.held = {}
    BY <1>2, IdleFacts
  <2> QED BY <1>3, <2>1 DEF ProcOf, Delta, Back
<1>7. ASSUME NEW b \in Boxes PROVE FolderOf(b)
  <2>1. sync[b] = None /\ uidNext[b] = 1 /\ hist.boot[b] = 0 /\ hist.top[b] = 0
    BY <1>0, <1>1
  <2>2. Seen(b) = {} /\ sync[b] \notin SyncRow
    BY <2>1, SyncRowApart DEF Seen
  <2>3. 0 <= BootAt(uidNext[b] - 1)
    BY <2>1, Bounds DEF BootAt
  <2> QED BY <2>1, <2>2, <2>3 DEF FolderOf
<1>8. LockOwned
  BY <1>4, NoneApart DEF LockOwned
<1> QED BY <1>0, <1>5, <1>6, <1>7, <1>8 DEF SyncInv, ProcInv, FolderInv, RowsOwn

\* Every step keeps the invariant.
LEMMA SyncStep == SyncInv /\ [Next]_vars => SyncInv'
<1> SUFFICES ASSUME SyncInv, [Next]_vars PROVE SyncInv'
  OBVIOUS
<1>1. ASSUME NEW b \in Entry, NEW m \in Mids, Arrive(b, m) PROVE SyncInv'
  BY <1>1, MailSyncAssumption, OthersPreserved
<1>2. CASE \/ \E b, c \in Boxes, u \in Uids : OtherMove(b, u, c)
           \/ \E b \in Boxes, u \in Uids : OtherExpunge(b, u)
  BY <1>2, OthersPreserved
<1>3. CASE \/ TickStart \/ \E p \in Procs : DeltaStart(p)
           \/ \E t \in Threads, b, c \in Boxes : MoveStart(t, b, c)
           \/ \E t \in Threads, b \in Boxes : DeleteStart(t, b)
  BY <1>3, StartPreserved
<1>4. ASSUME NEW p \in Procs, DeltaStep(p) PROVE SyncInv'
  BY <1>4, OpenPreserved, FetchPreserved, MessagePreserved, RetagPreserved, StorePreserved,
     NoSourcePreserved, WindowPreserved DEF DeltaStep
<1>5. CASE JobStep
  <2>1. CASE (\E b \in Boxes : BackOpen(b)) \/ BackBoot \/ BackFetch \/ BackQuota \/ BackWindowDone
    BY <2>1, BackOpenPreserved, BootPreserved, BackFetchPreserved, QuotaPreserved, BackWindowPreserved
  <2>2. CASE ImapMove \/ DbMove \/ ImapDelete \/ DbDelete \/ DbEmpty
    BY <2>2, ImapPreserved, DbPreserved
  <2> QED BY <1>5, <2>1, <2>2 DEF JobStep
<1>6. CASE \E b \in Boxes : EmptyStart(b)
  BY <1>6, ImapPreserved
<1>7. CASE Discover \/ Crash
  BY <1>7, DiscoverPreserved, CrashPreserved
<1>8. CASE \E u \in Uids : HandleExpunge(u)
  BY <1>8, ExpungePreserved
<1>9. CASE \E p \in Procs : Fail(p)
  BY <1>9, FailPreserved
<1>10. CASE UNCHANGED vars
  <2>1. /\ srv' = srv /\ uidNext' = uidNext /\ sync' = sync /\ rows' = rows /\ proc' = proc /\ conn' = conn
        /\ hist' = hist
    BY <1>10 DEF vars
  <2>2. Stable
    BY <2>1, ServerSame DEF SyncInv, server
  <2>3. hist' = [hist EXCEPT !.arrived = hist'.arrived]
    BY <2>1 DEF SyncInv, Typed
  <2> QED BY <2>1, <2>2, <2>3, ServerStep DEF store
<1>11. CASE Next
  BY <1>1, <1>2, <1>3, <1>4, <1>5, <1>6, <1>7, <1>8, <1>9, <1>11 DEF Next, Step
<1> QED BY <1>10, <1>11

\* The invariant of the mirror.
LEMMA SyncInvariant == Spec => []SyncInv
BY SyncInit, SyncStep, PTL DEF Spec

\* However delta fetches, backfills, commands, exceptions and restarts of the
\* worker interleave, the mailbox lock is held only by a run that is at work
\* in a folder and will release it.
THEOREM LockNeverLeftBehind == Spec => []LockOwned
<1>1. SyncInv => LockOwned
  BY DEF SyncInv
<1> QED BY <1>1, SyncInvariant, PTL

\* What the cursors of a folder claim to be through with is in the database
\* or gone from the server, but for the exceptions NothingMissed names: for
\* any number of folders and messages and any sizes of the windows.
THEOREM SyncNothingMissed == Spec => []NothingMissed
<1>1. ASSUME SyncInv, NEW b \in Boxes PROVE Passed(b) \ Gap(b) \subseteq Seen(b)
  <2>1. /\ hist.boot[b] \in Int /\ hist.top[b] \in Int
        /\ sync[b] # None => sync[b].lastSeen \in Int /\ sync[b].cursor \in Int
    BY <1>1, Bounds DEF SyncInv, Typed, SyncRow
  <2> QED BY <2>1 DEF Passed, Gap, Seen, Uids
<1>2. SyncInv => NothingMissed
  BY <1>1 DEF SyncInv, FolderInv, FolderOf, NothingMissed, Done
<1> QED BY <1>2, SyncInvariant, PTL

\* A row that sits where it was stored names its own message on the server or
\* none, so a move or delete made from it touches nobody else's mail.
THEOREM SyncUidsTrue == Spec => []UidNamesOwnMail
<1>1. SyncInv => UidNamesOwnMail
  BY DEF SyncInv, RowsOwn, Own, UidNamesOwnMail
<1> QED BY <1>1, SyncInvariant, PTL
=============================================================================
