------------------------- MODULE DavCalendarProofs -------------------------
(***************************************************************************)
(* Proofs about DavCalendar: no event is shown twice, an event of the user *)
(* is not lost to a sync, and an etag tells the truth about the content.   *)
(*                                                                         *)
(* DavInv says, for every step of the worker, what still holds of the row  *)
(* and of the list of objects it read earlier: the web process, other      *)
(* clients and mail go on between the steps.                               *)
(***************************************************************************)
EXTENDS DavCalendar, TLAPS

Given == 1..count.id
Names == Given \cup Outside
Ops == {"none", "create", "update", "delete", "sync", "request", "reply", "cancel"}
Jobs == [op : Ops, id : Uris \cup {None}, v : Version, again : BOOLEAN]
Rows == [id : Ids, uri : Uris \cup {None}, uid : Uris \cup {None}, v : Contents, etag : Nat \cup {None}]

\* Jobs that are yet to be taken.
Waiting == Range(queue) \cup Range(stalled)

\* An etag, or a name, that has been given out.
Etag(e) == e = None \/ (e \in Nat /\ e <= count.etag)
Name(u) == u = None \/ u \in Names

RowOk(r) == r \in Rows /\ r.id \in Given /\ Name(r.uri) /\ Name(r.uid) /\ Etag(r.etag)
ObjOk(f) ==
    /\ f \in [Uris -> Objects \cup {None}]
    /\ \A u \in Uris : f[u] # None => u \in Names /\ Etag(f[u].etag)

\* What a job is about; a delete is queued only for what the user gave up.
JobOk(j) ==
    /\ j \in Jobs /\ j.op # "none"
    /\ j.op \in {"create", "update", "delete"} => j.id \in Given
    /\ j.op \in {"request", "reply", "cancel"} => j.id \in Names
    /\ j.op = "delete" => j.id \notin hist.mine

Shape(w) == w = [pc |-> w.pc, job |-> w.job, row |-> w.row, etag |-> w.etag,
                 list |-> w.list, todo |-> w.todo, uri |-> w.uri]

Typed ==
    /\ count \in [id : 0..MaxId, v : Version, etag : Nat]
    /\ hist \in [mine : SUBSET Given, stuck : SUBSET Ids]
    /\ \A r \in rows : RowOk(r)
    /\ ObjOk(obj)
    /\ queue \in Seq(Jobs) /\ stalled \in Seq(Jobs) /\ \A j \in Waiting : JobOk(j)
    /\ Shape(work) /\ (work.pc = "off" => work = NoWork) /\ work.job \in Jobs

Unique == \A r, s \in rows : r.id = s.id => r = s

WebOk ==
    /\ web \in [pc : {"off", "queue", "wait", "unrow"}, op : {"none", "create", "update", "delete"}, id : Ids \cup {None}]
    /\ web.pc = "off" => web = NoWeb
    /\ web.pc # "off" => web.id \in Given
    /\ web.pc \in {"wait", "unrow"} => web.id \notin hist.mine
    /\ web.pc = "queue" => web.op \in {"create", "update"}

\* A row that mail can name is one that names its own object.
Announced(x) == \A r \in rows : r.id = x /\ r.id \notin hist.stuck => r.uri = r.id
Told ==
    /\ \A j \in Waiting \cup {work.job} : j.op = "request" => Announced(j.id)
    /\ \A r \in rows : r.uid # None => Announced(r.uid)

\* An update of the row is queued, or about to be.
QUpdate(id) ==
    \/ \E j \in Waiting : j.op = "update" /\ j.id = id
    \/ web.pc = "queue" /\ web.op = "update" /\ web.id = id

UPending(id) ==
    \/ QUpdate(id)
    \/ work.pc \in {"read", "http"} /\ work.job.op = "update" /\ work.job.id = id
    \/ work.pc = "push" /\ work.row.op = "update" /\ work.row.id = id

\* The row a push read is what it was, but for contents an update will bring.
AtRow ==
    work.pc \in {"http", "write"} =>
        /\ work.job.op \in {"create", "update", "delete"}
        /\ RowOk(work.row) /\ work.row.id = work.job.id
        /\ \A r \in rows : r.id = work.job.id =>
             r.uri = work.row.uri /\ (r.v = work.row.v \/ QUpdate(r.id) \/ r.id \in hist.stuck)
        /\ \A r \in rows : r.id # work.row.id /\ r.id \notin hist.stuck => r.id # work.row.uri

\* The etag to be saved is that of what was pushed.
AtWrite ==
    work.pc = "write" =>
        /\ work.job.op \in {"create", "update"} /\ Etag(work.etag)
        /\ \/ work.job.id \in hist.stuck
           \/ obj[Target] # None /\ obj[Target].etag = work.etag => obj[Target] = Build(work.row.v, work.etag)
        /\ work.job.id \in hist.mine \ hist.stuck => obj[Target] # None

AtPush == work.pc = "push" => /\ JobOk(work.row) /\ work.row.op \in {"create", "update", "delete"}
                              /\ work.row.id \in Given

\* The list of a sync: what it says of an object that is still the same is
\* true, and it has the objects of the user's events.
AtSync ==
    work.pc \in {"look", "apply"} =>
        /\ ObjOk(work.list)
        /\ work.todo \subseteq {u \in Uris : work.list[u] # None}
        /\ \A u \in Uris : work.list[u] # None /\ obj[u] # None /\ work.list[u].etag = obj[u].etag
                             => work.list[u] = obj[u]
        /\ \A r \in rows : r.id \notin hist.stuck =>
             /\ work.list[r.id] # None => r.uri = r.id
             /\ r.id \in hist.mine /\ r.uri # None => work.list[r.id] # None

AtApply ==
    work.pc = "apply" =>
        /\ work.uri \in work.todo /\ work.row \subseteq Given
        /\ \A r \in rows : r.id \in work.row <=> r.uri = work.uri

AtJob ==
    /\ work.pc # "off" => JobOk(work.job)
    /\ work.pc = "ingest" => work.job.op \in {"request", "reply", "cancel"}
    /\ work.pc \in {"list", "look", "apply"} => work.job.op = "sync"
    /\ work.pc = "read" => work.job.op \in {"create", "update", "delete"}
    /\ work.pc = "erase" => work.job.op = "delete"

\* The push that has r's object on the server and not yet in r.
Midway(r) == work.pc = "write" /\ work.job.id = r.id /\ Target = r.id

ObjOwned == \A r \in rows : r.id \notin hist.stuck /\ obj[r.id] # None => r.uri = r.id \/ Midway(r)

Mine ==
    \A r \in rows : r.id \in hist.mine =>
        /\ r.uri \in {None, r.id}
        /\ r.id \notin hist.stuck /\ r.uri # None => obj[r.id] # None

EtagU ==
    \A r \in rows :
        r.uri # None /\ r.id \notin hist.stuck =>
            (obj[r.uri] # None /\ r.etag = obj[r.uri].etag => Same(r.v, obj[r.uri]) \/ UPending(r.id))

AtWorkInv == AtRow /\ AtWrite /\ AtPush /\ AtSync /\ AtApply /\ AtJob
RowInv == Unique /\ ObjOwned /\ Mine /\ EtagU /\ NoTwin /\ UserEventKept
DavInv == Typed /\ WebOk /\ Told /\ AtWorkInv /\ RowInv

USE DEF Waiting

-----------------------------------------------------------------------------
\* The names, numbers and None the model tells apart.
LEMMA Apart ==
    /\ MaxId \in Nat /\ MaxEdits \in Nat /\ MaxFaults \in Nat
    /\ None \notin Nat /\ None \notin Uris /\ None \notin Objects
    /\ Ids \cap Outside = {}
    /\ Ids \subseteq Nat /\ Ids \subseteq Uris /\ Outside \subseteq Uris
BY DavCalendarAssumption, NoneApart DEF Ids, Uris

\* What the user writes is a content.
LEMMA UserContent ==
    ASSUME NEW v \in Contents, NEW n \in Version
    PROVE  ByUser(v, n) \in Contents
BY DEF ByUser, Contents

\* An empty content.
LEMMA BlankContent == Blank \in Contents
BY Apart DEF Blank, Contents, Version

\* What is built from a row says the same as the row.
LEMMA BuildFacts ==
    ASSUME NEW v \in Contents, NEW e \in Nat
    PROVE  Build(v, e) \in Objects /\ Build(v, e).etag = e /\ Same(v, Build(v, e))
<1>1. v.last + 1 \in Nat /\ "event" \in Kinds
  BY DEF Contents, Kinds
<1> QED BY <1>1 DEF Build, Objects, Contents, Same

\* A row into which an object is read says the same as the object.
LEMMA ParseFacts ==
    ASSUME NEW v \in Contents, NEW o \in Objects, o.kind = "event"
    PROVE  Parse(v, o) \in Contents /\ Same(Parse(v, o), o)
BY DEF Parse, Contents, Objects, Same

\* A job as the web process or the scheduler queues it.
LEMMA JobIn ==
    ASSUME NEW op \in Ops, NEW id \in Uris \cup {None}
    PROVE  /\ Job(op, id) \in Jobs /\ Job(op, id).op = op /\ Job(op, id).id = id
           /\ Job(op, id).v = 0 /\ Job(op, id).again = FALSE
BY Apart DEF Job, Jobs, Version

\* An empty calendar and an idle worker.
LEMMA InitInv == Init => DavInv
<1> SUFFICES ASSUME Init PROVE DavInv
  OBVIOUS
<1>1. /\ work.pc = "off" /\ web.pc = "off" /\ rows = {} /\ queue = <<>> /\ stalled = <<>> /\ Waiting = {}
      /\ hist.mine = {} /\ hist.stuck = {} /\ web.id = None /\ web = NoWeb
  BY DEF Init, NoWork, NoWeb, Range
<1>2. Typed
  <2>1. count \in [id : 0..MaxId, v : Version, etag : Nat]
    BY Apart DEF Init, Version
  <2>2. hist \in [mine : SUBSET Given, stuck : SUBSET Ids]
    BY DEF Init
  <2>3. ObjOk(obj)
    BY DEF Init, ObjOk
  <2>4. queue \in Seq(Jobs) /\ stalled \in Seq(Jobs)
    BY <1>1
  <2>5. Shape(work) /\ work.job = Job("none", None) /\ work = NoWork
    BY DEF Init, NoWork, Shape
  <2>6. Job("none", None) \in Jobs
    BY JobIn DEF Ops
  <2> QED BY <1>1, <2>1, <2>2, <2>3, <2>4, <2>5, <2>6 DEF Typed
<1>3. WebOk
  BY <1>1 DEF WebOk, NoWeb
<1>4. Told
  <2>1. work.job.op = "none"
    BY DEF Init, NoWork, Job
  <2> QED BY <1>1, <2>1 DEF Told
<1> QED BY <1>1, <1>2, <1>3, <1>4 DEF DavInv, AtWorkInv, RowInv, AtRow, AtWrite, AtPush, AtSync, AtApply, AtJob,
           Unique, ObjOwned, Mine, EtagU, NoTwin, UserEventKept

-----------------------------------------------------------------------------
(* The queue.                                                               *)

\* A job is queued behind the others.
LEMMA QueueAppend ==
    ASSUME queue \in Seq(Jobs), NEW j \in Jobs, queue' = Append(queue, j), stalled' = stalled
    PROVE  queue' \in Seq(Jobs) /\ Waiting' = Waiting \cup {j}
<1>1. /\ queue' \in Seq(Jobs) /\ DOMAIN queue = 1..Len(queue) /\ Len(queue) \in Nat
      /\ DOMAIN queue' = 1..(Len(queue) + 1) /\ queue'[Len(queue) + 1] = j
      /\ \A i \in 1..Len(queue) : queue'[i] = queue[i]
  OBVIOUS
<1>2. DOMAIN queue' = DOMAIN queue \cup {Len(queue) + 1}
  BY <1>1
<1>3. Range(queue') = Range(queue) \cup {j}
  BY <1>1, <1>2 DEF Range
<1> QED BY <1>1, <1>3

\* The oldest job leaves the queue.
LEMMA QueueTake ==
    ASSUME queue \in Seq(Jobs), queue # <<>>, queue' = Tail(queue), stalled' = stalled
    PROVE  /\ queue' \in Seq(Jobs) /\ Head(queue) \in Jobs
           /\ Waiting = Waiting' \cup {Head(queue)}
<1>1. /\ queue' \in Seq(Jobs) /\ Head(queue) \in Jobs /\ Head(queue) = queue[1]
      /\ DOMAIN queue = 1..Len(queue) /\ Len(queue) \in Nat /\ Len(queue) >= 1
      /\ DOMAIN queue' = 1..(Len(queue) - 1)
      /\ \A i \in 1..(Len(queue) - 1) : queue'[i] = queue[i + 1]
  OBVIOUS
<1>2. ASSUME NEW i \in DOMAIN queue' PROVE queue'[i] = queue[i + 1] /\ i + 1 \in DOMAIN queue
  BY <1>1
<1>3. ASSUME NEW i \in DOMAIN queue PROVE i = 1 \/ (i - 1 \in DOMAIN queue' /\ queue'[i - 1] = queue[i])
  BY <1>1
<1>4. 1 \in DOMAIN queue
  BY <1>1
<1>5. Range(queue) = Range(queue') \cup {Head(queue)}
  <2>1. ASSUME NEW j \in Range(queue) PROVE j \in Range(queue') \cup {Head(queue)}
    <3>1. PICK i \in DOMAIN queue : j = queue[i]
      BY <2>1 DEF Range
    <3>2. CASE i = 1
      BY <1>1, <3>1, <3>2
    <3>3. CASE i # 1
      BY <1>3, <3>1, <3>3 DEF Range
    <3> QED BY <3>2, <3>3
  <2>2. ASSUME NEW j \in Range(queue') PROVE j \in Range(queue)
    BY <1>2, <2>2 DEF Range
  <2>3. Head(queue) \in Range(queue)
    BY <1>1, <1>4 DEF Range
  <2> QED BY <2>1, <2>2, <2>3
<1> QED BY <1>1, <1>5

\* The job of a worker that died waits to be found.
LEMMA StallAppend ==
    ASSUME stalled \in Seq(Jobs), NEW j \in Jobs, stalled' = Append(stalled, j), queue' = queue
    PROVE  stalled' \in Seq(Jobs) /\ Waiting' = Waiting \cup {j}
<1>1. /\ stalled' \in Seq(Jobs) /\ DOMAIN stalled = 1..Len(stalled) /\ Len(stalled) \in Nat
      /\ DOMAIN stalled' = 1..(Len(stalled) + 1) /\ stalled'[Len(stalled) + 1] = j
      /\ \A i \in 1..Len(stalled) : stalled'[i] = stalled[i]
  OBVIOUS
<1>2. DOMAIN stalled' = DOMAIN stalled \cup {Len(stalled) + 1}
  BY <1>1
<1>3. Range(stalled') = Range(stalled) \cup {j}
  BY <1>1, <1>2 DEF Range
<1> QED BY <1>1, <1>3

\* A job put at the front of the queue.
LEMMA QueueFront ==
    ASSUME queue \in Seq(Jobs), NEW j \in Jobs, queue' = <<j>> \o queue
    PROVE  queue' \in Seq(Jobs) /\ Range(queue') = Range(queue) \cup {j}
<1>0. <<j>> \in Seq(Jobs) /\ Len(<<j>>) = 1 /\ <<j>>[1] = j
  OBVIOUS
<1>1. /\ queue' \in Seq(Jobs) /\ DOMAIN queue = 1..Len(queue) /\ Len(queue) \in Nat
      /\ DOMAIN queue' = 1..(Len(queue) + 1) /\ queue'[1] = j
      /\ \A i \in 1..(Len(queue) + 1) : i # 1 => queue'[i] = queue[i - 1]
  BY <1>0
<1>2. ASSUME NEW i \in DOMAIN queue PROVE i + 1 \in DOMAIN queue' /\ queue'[i + 1] = queue[i]
  BY <1>1
<1>3. ASSUME NEW i \in DOMAIN queue', i # 1 PROVE i - 1 \in DOMAIN queue /\ queue'[i] = queue[i - 1]
  BY <1>1, <1>3
<1>4. ASSUME NEW k \in Range(queue') PROVE k \in Range(queue) \cup {j}
  BY <1>1, <1>3, <1>4 DEF Range
<1>5. ASSUME NEW k \in Range(queue) PROVE k \in Range(queue')
  BY <1>2, <1>5 DEF Range
<1>6. j \in Range(queue')
  BY <1>1 DEF Range
<1> QED BY <1>1, <1>4, <1>5, <1>6

\* One of the stalled jobs is taken out.
LEMMA StallRemove ==
    ASSUME stalled \in Seq(Jobs), NEW i \in DOMAIN stalled, stalled' = RemoveAt(stalled, i)
    PROVE  /\ stalled' \in Seq(Jobs) /\ stalled[i] \in Range(stalled)
           /\ Range(stalled) = Range(stalled') \cup {stalled[i]}
<1>1. DOMAIN stalled = 1..Len(stalled) /\ Len(stalled) \in Nat /\ i \in 1..Len(stalled)
  OBVIOUS
<1>2. PICK a, b : a = SubSeq(stalled, 1, i - 1) /\ b = SubSeq(stalled, i + 1, Len(stalled))
  OBVIOUS
<1>3. /\ a \in Seq(Jobs) /\ Len(a) = i - 1 /\ \A k \in 1..(i - 1) : a[k] = stalled[k]
  <2>1. 1 \in Int /\ i - 1 \in Int /\ \A k \in 1..(i - 1) : stalled[k] \in Jobs
    BY <1>1
  <2> QED BY <1>1, <1>2, <2>1
<1>4. b \in Seq(Jobs) /\ Len(b) = Len(stalled) - i /\ \A k \in 1..(Len(stalled) - i) : b[k] = stalled[i + k]
  <2>1. b \in Seq(Jobs)
    BY <1>1, <1>2
  <2>2. Len(b) = Len(stalled) - i
    BY <1>1, <1>2
  <2>3. ASSUME NEW k \in 1..(Len(stalled) - i) PROVE b[k] = stalled[i + k]
    <3>1. b[k] = stalled[(i + 1) + k - 1]
      BY <1>1, <1>2
    <3>2. (i + 1) + k - 1 = i + k
      BY <1>1
    <3> QED BY <3>1, <3>2
  <2> QED BY <2>1, <2>2, <2>3
<1>5. stalled' = a \o b
  BY <1>2 DEF RemoveAt
<1>6. stalled' \in Seq(Jobs) /\ Len(stalled') = Len(stalled) - 1 /\ DOMAIN stalled' = 1..(Len(stalled) - 1)
  <2>1. stalled' \in Seq(Jobs) /\ Len(stalled') = Len(a) + Len(b)
    BY <1>3, <1>4, <1>5
  <2>2. Len(a) + Len(b) = Len(stalled) - 1
    BY <1>1, <1>3, <1>4
  <2>3. DOMAIN stalled' = 1..Len(stalled')
    BY <2>1
  <2> QED BY <2>1, <2>2, <2>3
<1>7. ASSUME NEW k \in 1..(Len(stalled) - 1)
      PROVE  /\ k < i => k \in 1..Len(stalled) /\ stalled'[k] = stalled[k]
             /\ k >= i => k + 1 \in 1..Len(stalled) /\ stalled'[k] = stalled[k + 1]
  <2>1. CASE k < i
    <3>1. k \in 1..Len(a) /\ stalled'[k] = a[k]
      BY <1>1, <1>3, <1>4, <1>5, <2>1
    <3> QED BY <1>1, <1>3, <2>1, <3>1
  <2>2. CASE k >= i
    <3>1. k - Len(a) \in 1..(Len(stalled) - i) /\ stalled'[k] = b[k - Len(a)]
      BY <1>1, <1>3, <1>4, <1>5, <2>2
    <3>2. b[k - Len(a)] = stalled[i + (k - Len(a))]
      BY <1>4, <3>1
    <3>3. i + (k - Len(a)) = k + 1 /\ k + 1 \in 1..Len(stalled)
      BY <1>1, <1>3
    <3> QED BY <1>1, <2>2, <3>1, <3>2, <3>3
  <2> QED BY <1>1, <2>1, <2>2
<1>8. ASSUME NEW k \in DOMAIN stalled' PROVE \E m \in DOMAIN stalled : stalled'[k] = stalled[m]
  <2>1. k \in 1..(Len(stalled) - 1) /\ (k < i \/ k >= i)
    BY <1>1, <1>6
  <2> QED BY <1>1, <1>7, <2>1
<1>9. ASSUME NEW m \in DOMAIN stalled, m # i PROVE \E k \in DOMAIN stalled' : stalled'[k] = stalled[m]
  <2>1. CASE m < i
    <3>1. m \in 1..(Len(stalled) - 1)
      BY <1>1, <2>1
    <3> QED BY <1>6, <1>7, <2>1, <3>1
  <2>2. CASE m > i
    <3>1. m - 1 \in 1..(Len(stalled) - 1) /\ m - 1 >= i /\ (m - 1) + 1 = m
      BY <1>1, <2>2
    <3>2. stalled'[m - 1] = stalled[m]
      BY <1>7, <3>1
    <3> QED BY <1>6, <3>1, <3>2
  <2> QED BY <1>1, <1>9, <2>1, <2>2
<1> QED BY <1>6, <1>8, <1>9 DEF Range

\* What mail can name stays announced: rows keep their names or get their own,
\* and a new row has a name nobody knows.
LEMMA ToldKept ==
    ASSUME Typed, Told, hist.stuck \subseteq hist'.stuck, work.pc # "off" => JobOk(work.job),
           \A r \in rows' : \/ r.id \notin Names
                            \/ \E o \in rows : r.id = o.id /\ (r.uri = o.uri \/ r.uri = r.id),
           \A r \in rows' : \/ r.uid = None
                            \/ \E o \in rows : r.uid = o.uid
                            \/ work.job.op = "request" /\ r.uid = work.job.id
                            \/ \A s \in rows' : s.id = r.uid => s.uri = s.id,
           \A j \in Waiting' \cup {work'.job} : j.op = "request" =>
               \E k \in Waiting \cup {work.job} : k.op = "request" /\ k.id = j.id
    PROVE  Told'
<1>1. ASSUME NEW x \in Names, Announced(x) PROVE Announced(x)'
  BY <1>1 DEF Announced
<1>2. ASSUME NEW k \in Waiting \cup {work.job}, k.op = "request" PROVE Announced(k.id)'
  <2>1. k \in Waiting => JobOk(k)
    BY DEF Typed
  <2>2. k = work.job => JobOk(k)
    BY <1>2 DEF Typed, NoWork, Job
  <2>3. k.id \in Names /\ Announced(k.id)
    BY <1>2, <2>1, <2>2 DEF JobOk, Told
  <2> QED BY <1>1, <2>3
<1>3. ASSUME NEW r \in rows', r.uid # None PROVE Announced(r.uid)'
  <2>1. CASE \E o \in rows : r.uid = o.uid
    <3>1. PICK o \in rows : r.uid = o.uid
      BY <2>1
    <3>2. r.uid \in Names /\ Announced(r.uid)
      BY <1>3, <3>1 DEF Typed, RowOk, Name, Told
    <3> QED BY <1>1, <3>2
  <2>2. CASE work.job.op = "request" /\ r.uid = work.job.id
    BY <1>2, <2>2
  <2>3. CASE \A s \in rows' : s.id = r.uid => s.uri = s.id
    BY <2>3 DEF Announced
  <2> QED BY <1>3, <2>1, <2>2, <2>3
<1> QED BY <1>2, <1>3 DEF Told

\* Nothing about names changes while rows keep theirs and no mail arrives.
LEMMA ToldSame ==
    ASSUME Typed, Told, hist.stuck \subseteq hist'.stuck, AtJob, rows' \subseteq rows,
           \A j \in Waiting' \cup {work'.job} : j.op = "request" =>
               \E k \in Waiting \cup {work.job} : k.op = "request" /\ k.id = j.id
    PROVE  Told'
BY ToldKept DEF AtJob

-----------------------------------------------------------------------------
(* What steps of any kind leave true.                                       *)

\* The counters only grow, and what was given out stays so.
Grows ==
    /\ count' \in [id : 0..MaxId, v : Version, etag : Nat]
    /\ count.id <= count'.id /\ count.etag <= count'.etag

\* Rows are numbered within the bound.
LEMMA GivenIds ==
    ASSUME Typed
    PROVE  Given \subseteq Ids
BY Apart DEF Typed, Given, Ids

\* Names and etags given out stay given out.
LEMMA GrowsFacts ==
    ASSUME Typed, Grows
    PROVE  /\ Given \subseteq Given' /\ Names \subseteq Names' /\ Given' \subseteq Ids
           /\ \A e : Etag(e) => (e = None \/ (e \in Nat /\ e <= count'.etag))
           /\ \A r : RowOk(r) => r \in Rows /\ r.id \in Given' /\ (r.uri = None \/ r.uri \in Names')
                                 /\ (r.etag = None \/ (r.etag \in Nat /\ r.etag <= count'.etag))
<1>0. /\ count.id \in Int /\ count'.id \in Int /\ count.id <= count'.id /\ count'.id <= MaxId
      /\ count.etag \in Int /\ count'.etag \in Int /\ count.etag <= count'.etag /\ MaxId \in Int
  BY Apart DEF Typed, Grows
<1>1. Given \subseteq Given' /\ Given' \subseteq Ids
  BY <1>0 DEF Given, Ids
<1>2. Names \subseteq Names'
  BY <1>1 DEF Names
<1>3. \A e : Etag(e) => (e = None \/ (e \in Nat /\ e <= count'.etag))
  BY <1>0 DEF Etag
<1> QED BY <1>1, <1>2, <1>3 DEF RowOk, Name

\* An idle worker has nothing to remember.
LEMMA OffWork ==
    ASSUME work' = NoWork
    PROVE  AtWorkInv' /\ work'.pc = "off" /\ Shape(work') /\ work'.job \in Jobs
<1>1. work'.pc = "off" /\ Shape(work') /\ work'.job = Job("none", None)
  BY DEF NoWork, Shape
<1>2. Job("none", None) \in Jobs
  BY JobIn DEF Ops
<1> QED BY <1>1, <1>2 DEF AtWorkInv, AtRow, AtWrite, AtPush, AtSync, AtApply, AtJob

\* Steps that leave rows, objects and the worker alone: jobs may be queued,
\* the user may give events up, faults may put events out of step.
LEMMA EnvStep ==
    ASSUME DavInv, UNCHANGED <<rows, obj, work>>,
           count' \in [id : 0..MaxId, v : Version, etag : Nat],
           count'.id = count.id, count'.etag = count.etag,
           hist' \in [mine : SUBSET Ids, stuck : SUBSET Ids],
           hist'.mine \subseteq hist.mine, hist.stuck \subseteq hist'.stuck,
           queue' \in Seq(Jobs) /\ stalled' \in Seq(Jobs), Waiting \subseteq Waiting',
           \A j \in Waiting' : j \in Waiting \/ JobOk(j)', Told', WebOk',
           \A id : QUpdate(id) => QUpdate(id)' \/ id \in hist'.stuck
    PROVE  DavInv'
<1> USE DEF DavInv
<1>1. /\ Given' = Given /\ Names' = Names /\ rows' = rows /\ obj' = obj /\ work' = work /\ Target' = Target
      /\ \A e : Etag(e) => e = None \/ (e \in Nat /\ e <= count'.etag)
  BY DEF Given, Names, Target, Etag
<1>2. /\ \A r : RowOk(r) => RowOk(r)'
      /\ \A f : ObjOk(f) => ObjOk(f)'
      /\ \A j : JobOk(j) => JobOk(j)'
      /\ \A e : Etag(e) => Etag(e)'
  BY <1>1 DEF RowOk, ObjOk, JobOk, Etag, Name
<1>3. RowOk(work.row) => RowOk(work.row)'
  BY <1>1, <1>2
<1>4. Typed'
  <2>1. hist' \in [mine : SUBSET Given', stuck : SUBSET Ids]
    BY <1>1 DEF Typed
  <2>2. ObjOk(obj)' /\ \A j \in Waiting' : JobOk(j)'
    BY <1>1, <1>2 DEF Typed
  <2>3. \A r \in rows' : RowOk(r)'
    BY <1>1, <1>2 DEF Typed
  <2> QED BY <1>1, <2>1, <2>2, <2>3 DEF Typed
<1>5. AtRow'
  BY <1>1, <1>3 DEF AtWorkInv, AtRow
<1>6. AtWrite'
  BY <1>1, <1>2 DEF AtWorkInv, AtWrite
<1>7. AtPush' /\ AtSync' /\ AtApply' /\ AtJob'
  BY <1>1, <1>2 DEF AtWorkInv, AtPush, AtSync, AtApply, AtJob
<1>8. ObjOwned'
  BY <1>1 DEF RowInv, ObjOwned, Midway
<1>9. EtagU'
  BY <1>1 DEF RowInv, EtagU, UPending
<1>10. Unique' /\ Mine' /\ NoTwin' /\ UserEventKept'
  BY <1>1 DEF RowInv, Unique, Mine, NoTwin, UserEventKept, RowOf
<1> QED BY <1>4, <1>5, <1>6, <1>7, <1>8, <1>9, <1>10 DEF AtWorkInv, RowInv

\* upsertCalendarEvent queues its job after the commit.
LEMMA WebQueuePreserved ==
    ASSUME DavInv, WebQueue
    PROVE  DavInv'
<1>1. Typed /\ WebOk /\ Told
  BY DEF DavInv
<1>2. /\ web.op \in {"create", "update"} /\ web.id \in Given /\ web.pc = "queue" /\ web.id \in Uris
      /\ web.op \in Ops /\ web.id \in Uris \cup {None}
  BY <1>1, Apart DEF WebQueue, WebOk, Given, Typed, Ids, Ops
<1> PICK j : j = Job(web.op, web.id)
  OBVIOUS
<1>3. j \in Jobs /\ j.op = web.op /\ j.id = web.id /\ j.again = FALSE /\ j.v = 0
  BY <1>2, JobIn
<1>4. /\ queue' = Append(queue, j) /\ web' = NoWeb /\ UNCHANGED <<rows, obj, work>> /\ work' = work /\ stalled' = stalled
      /\ count' = count /\ hist' = hist
  BY DEF WebQueue
<1>5. queue' \in Seq(Jobs) /\ stalled' \in Seq(Jobs) /\ Waiting' = Waiting \cup {j}
  BY <1>1, <1>3, <1>4, QueueAppend DEF Typed
<1>6. JobOk(j)'
  BY <1>2, <1>3, <1>4 DEF JobOk, Given
<1>7. WebOk'
  BY <1>4 DEF WebOk, NoWeb
<1>8. \A id : QUpdate(id) => QUpdate(id)'
  BY <1>3, <1>4, <1>5 DEF QUpdate
<1>9. hist \in [mine : SUBSET Ids, stuck : SUBSET Ids]
  BY <1>1, GivenIds DEF Typed
<1>10. Told'
  BY <1>1, <1>2, <1>3, <1>4, <1>5, ToldSame DEF DavInv, AtWorkInv
<1> QED BY <1>1, <1>4, <1>10, <1>5, <1>6, <1>7, <1>8, <1>9, EnvStep DEF Typed

\* deleteCalendarEvent queues its job and waits.
LEMMA UserDeletePreserved ==
    ASSUME DavInv, NEW r \in rows, UserDelete(r)
    PROVE  DavInv'
<1>1. Typed /\ WebOk /\ Told
  BY DEF DavInv
<1>2. /\ r.id \in Given /\ r.id \in Ids /\ r.id \in Uris /\ web = NoWeb /\ web.pc = "off"
      /\ "delete" \in Ops /\ r.id \in Uris \cup {None}
  BY <1>1, Apart DEF UserDelete, RowOk, Rows, Typed, NoWeb, Ops
<1> PICK j : j = Job("delete", r.id)
  OBVIOUS
<1>3. j \in Jobs /\ j.op = "delete" /\ j.id = r.id /\ j.again = FALSE /\ j.v = 0
  BY <1>2, JobIn
<1>4. /\ queue' = Append(queue, j) /\ UNCHANGED <<rows, obj, work>> /\ work' = work /\ stalled' = stalled
      /\ web' = [pc |-> "wait", op |-> "delete", id |-> r.id]
      /\ count' \in [id : 0..MaxId, v : Version, etag : Nat]
      /\ count'.id = count.id /\ count'.etag = count.etag
  <2>1. count.v + 1 \in Version
    BY <1>1, Apart DEF UserDelete, Typed, Edit, Version
  <2>2. count' = [count EXCEPT !.v = count.v + 1]
    BY DEF UserDelete
  <2>3. /\ count' \in [id : 0..MaxId, v : Version, etag : Nat]
        /\ count'.id = count.id /\ count'.etag = count.etag
    BY <1>1, <2>1, <2>2 DEF Typed
  <2> QED BY <2>3 DEF UserDelete
<1>5. /\ hist' \in [mine : SUBSET Given, stuck : SUBSET Ids]
      /\ hist'.mine = hist.mine \ {r.id} /\ hist'.stuck = hist.stuck
      /\ Given \subseteq Ids
  BY <1>1, GivenIds DEF UserDelete, Typed
<1>6. queue' \in Seq(Jobs) /\ stalled' \in Seq(Jobs) /\ Waiting' = Waiting \cup {j}
  BY <1>1, <1>3, <1>4, QueueAppend DEF Typed
<1>7. JobOk(j)'
  BY <1>2, <1>3, <1>4, <1>5 DEF JobOk, Given
<1>8. WebOk'
  BY <1>2, <1>4, <1>5 DEF WebOk, Given
<1>9. \A id : QUpdate(id) => QUpdate(id)'
  BY <1>2, <1>6 DEF QUpdate
<1>10. Told'
  BY <1>1, <1>3, <1>4, <1>5, <1>6, ToldSame DEF DavInv, AtWorkInv
<1> QED BY <1>1, <1>4, <1>10, <1>5, <1>6, <1>7, <1>8, <1>9, EnvStep

\* The web process dies between the commit and the queue.
LEMMA WebDiesPreserved ==
    ASSUME DavInv, WebDies
    PROVE  DavInv'
<1>1. Typed /\ WebOk /\ Told
  BY DEF DavInv
<1>2. web.pc # "off" /\ web.id \in Given /\ web.id \in Ids
  BY <1>1, Apart DEF WebDies, WebOk, Given, Typed, Ids
<1>3. /\ queue' = queue /\ stalled' = stalled /\ UNCHANGED <<rows, obj, work>> /\ work' = work /\ web' = NoWeb /\ count' = count
  BY DEF WebDies
<1>4. /\ hist' \in [mine : SUBSET Given, stuck : SUBSET Ids]
      /\ hist'.mine = hist.mine /\ hist'.stuck = hist.stuck \cup {web.id}
      /\ Given \subseteq Ids
  BY <1>1, <1>2, GivenIds DEF WebDies, Stuck, Typed
<1>5. WebOk'
  BY <1>3 DEF WebOk, NoWeb
<1>6. \A id : QUpdate(id) => QUpdate(id)' \/ id \in hist'.stuck
  BY <1>3, <1>4 DEF QUpdate
<1>7. Told'
  BY <1>1, <1>3, <1>4, ToldSame DEF DavInv, AtWorkInv
<1>8. queue \in Seq(Jobs) /\ stalled \in Seq(Jobs) /\ count \in [id : 0..MaxId, v : Version, etag : Nat]
  BY <1>1 DEF Typed
<1> QED BY <1>1, <1>3, <1>4, <1>5, <1>6, <1>7, <1>8, EnvStep

\* The scheduler queues the next sync.
LEMMA TickPreserved ==
    ASSUME DavInv, Tick
    PROVE  DavInv'
<1> DEFINE j == Job("sync", None)
<1>1. Typed /\ WebOk /\ Told
  BY DEF DavInv
<1>2. j \in Jobs /\ j.op = "sync" /\ j.again = FALSE
  BY JobIn DEF Ops
<1> HIDE DEF j
<1>3. /\ queue' = Append(queue, j) /\ UNCHANGED <<rows, obj, work>> /\ work' = work /\ stalled' = stalled /\ web' = web
      /\ count' = count /\ hist' = hist
  BY DEF Tick, j
<1>4. queue' \in Seq(Jobs) /\ stalled' \in Seq(Jobs) /\ Waiting' = Waiting \cup {j}
  BY <1>1, <1>2, <1>3, QueueAppend DEF Typed
<1>5. JobOk(j)'
  BY <1>2 DEF JobOk
<1>6. WebOk'
  BY <1>1, <1>3 DEF WebOk, Given
<1>7. \A id : QUpdate(id) => QUpdate(id)'
  BY <1>3, <1>4 DEF QUpdate
<1>8. hist \in [mine : SUBSET Ids, stuck : SUBSET Ids]
  BY <1>1, GivenIds DEF Typed
<1>9. Told'
  BY <1>1, <1>2, <1>3, <1>4, ToldSame DEF DavInv, AtWorkInv
<1> QED BY <1>1, <1>3, <1>9, <1>4, <1>5, <1>6, <1>7, <1>8, EnvStep DEF Typed

\* Mail with an iCalendar part arrives.
LEMMA MailInPreserved ==
    ASSUME DavInv, NEW op, NEW id, MailIn(op, id),
           op \in {"request", "cancel", "reply"}, id \in Uris
    PROVE  DavInv'
<1>1. Typed /\ WebOk /\ Told
  BY DEF DavInv
<1>2. op \in Ops /\ id \in Uris /\ id \in Names /\ Announced(id)
  <2>1. CASE id \in Outside
    BY <1>1, <2>1, Apart DEF Ops, Names, Announced, Typed, RowOk, Rows
  <2>2. ASSUME NEW r \in rows, id \in {r.uri, r.uid} PROVE id \in Names /\ Announced(id)
    <3>1. id \in Names
      BY <1>1, <2>2, Apart DEF Typed, RowOk, Name
    <3>2. CASE id = r.uid
      BY <1>1, <3>1, <3>2, Apart DEF Told
    <3>3. CASE id = r.uri
      BY <3>1, <3>3 DEF DavInv, RowInv, NoTwin, Announced
    <3> QED BY <2>2, <3>1, <3>2, <3>3
  <2> QED BY <2>1, <2>2 DEF Ops, MailIn
<1>3. Job(op, id) \in Jobs /\ Job(op, id).op = op /\ Job(op, id).id = id /\ Job(op, id).again = FALSE
  BY <1>2, JobIn
<1>4. PICK j : j = [Job(op, id) EXCEPT !.v = count.v + 1]
  OBVIOUS
<1>5. count.v + 1 \in Version
  BY <1>1, Apart DEF MailIn, Edit, Typed, Version
<1>6. j \in Jobs /\ j.op = op /\ j.id = id /\ j.again = FALSE /\ j.v = count.v + 1
  BY <1>3, <1>4, <1>5 DEF Jobs
<1>7. /\ queue' = Append(queue, j) /\ UNCHANGED <<rows, obj, work>> /\ work' = work /\ stalled' = stalled /\ web' = web
      /\ hist' = hist
      /\ count' \in [id : 0..MaxId, v : Version, etag : Nat]
      /\ count'.id = count.id /\ count'.etag = count.etag
  BY <1>1, <1>4, <1>5, Apart DEF MailIn, Typed
<1>8. queue' \in Seq(Jobs) /\ stalled' \in Seq(Jobs) /\ Waiting' = Waiting \cup {j}
  BY <1>1, <1>6, <1>7, QueueAppend DEF Typed
<1>9. JobOk(j)'
  BY <1>2, <1>6, <1>7 DEF JobOk, Given, Names, Ops
<1>10. WebOk'
  BY <1>1, <1>7 DEF WebOk, Given
<1>11. \A i : QUpdate(i) => QUpdate(i)'
  BY <1>7, <1>8 DEF QUpdate
<1>12. hist \in [mine : SUBSET Ids, stuck : SUBSET Ids]
  BY <1>1, GivenIds DEF Typed
<1>13. Told'
  BY <1>1, <1>2, <1>6, <1>7, <1>8 DEF Told, Announced
<1> QED BY <1>1, <1>7, <1>13, <1>8, <1>9, <1>10, <1>11, <1>12, EnvStep

\* What was in order stays in order while the counters grow.
LEMMA StillOk ==
    ASSUME Typed, Grows, hist'.mine \cap Given \subseteq hist.mine
    PROVE  /\ \A r : RowOk(r) => RowOk(r)'
           /\ \A f : ObjOk(f) => ObjOk(f)'
           /\ \A j : JobOk(j) => JobOk(j)'
           /\ \A e : Etag(e) => Etag(e)'
           /\ Given \subseteq Given' /\ Given' \subseteq Ids /\ Names \subseteq Names'
<1>1. /\ Given \subseteq Given' /\ Names \subseteq Names' /\ Given' \subseteq Ids
      /\ \A e : Etag(e) => (e = None \/ (e \in Nat /\ e <= count'.etag))
  BY GrowsFacts
<1>2. \A e : Etag(e) => Etag(e)'
  BY <1>1 DEF Etag
<1>3. \A r : RowOk(r) => RowOk(r)'
  BY <1>1, <1>2 DEF RowOk, Name
<1>4. \A f : ObjOk(f) => ObjOk(f)'
  BY <1>1, <1>2 DEF ObjOk
<1>5. \A j : JobOk(j) => JobOk(j)'
  BY <1>1 DEF JobOk
<1> QED BY <1>1, <1>2, <1>3, <1>4, <1>5

\* A new row, whatever makes it.
LEMMA RowAdded ==
    ASSUME DavInv, NEW n, n = count.id + 1, count.id < MaxId, NEW e, e.id = n,
           count' \in [id : 0..MaxId, v : Version, etag : Nat], count'.id = n, count'.etag = count.etag,
           rows' = rows \cup {e}, obj' = obj, queue' = queue, stalled' = stalled,
           e \in Rows, Name(e.uri), Name(e.uid), Etag(e.etag),
           hist' \in [mine : SUBSET Ids, stuck : SUBSET Ids],
           hist'.stuck = hist.stuck, hist.mine \subseteq hist'.mine, hist'.mine \subseteq hist.mine \cup {n},
           n \in hist'.mine => e.uri = None,
           e.uri # None => \A s \in rows : s.uri # e.uri /\ (s.id \notin hist.stuck => s.id # e.uri),
           e.uri # None /\ obj[e.uri] # None /\ e.etag = obj[e.uri].etag => Same(e.v, obj[e.uri]),
           \A r \in rows : UPending(r.id) => UPending(r.id)',
           \A r \in rows : Midway(r) => Midway(r)'
    PROVE  /\ RowInv' /\ Grows /\ n \notin Names /\ n \in Given' /\ n \in Ids /\ n # None
           /\ hist' \in [mine : SUBSET Given', stuck : SUBSET Ids]
           /\ \A r \in rows' : RowOk(r)'
           /\ ObjOk(obj)' /\ queue' \in Seq(Jobs) /\ stalled' \in Seq(Jobs) /\ \A j \in Waiting' : JobOk(j)'
           /\ hist'.mine \cap Given \subseteq hist.mine
<1>0. Typed
  BY DEF DavInv
<1>1. count.id \in Nat /\ n \in Nat /\ n \in Ids /\ n \notin Given /\ Grows /\ n \in Given'
  BY <1>0, Apart DEF Typed, Given, Grows, Ids
<1>2. n \notin Names /\ n \in Uris /\ n # None
  BY <1>1, Apart DEF Names
<1>3. hist'.mine \cap Given \subseteq hist.mine /\ hist.mine \subseteq Given
  BY <1>0, <1>1 DEF Typed
<1>4. /\ \A r : RowOk(r) => RowOk(r)'
      /\ \A f : ObjOk(f) => ObjOk(f)'
      /\ \A j : JobOk(j) => JobOk(j)'
      /\ \A x : Etag(x) => Etag(x)'
      /\ Given \subseteq Given' /\ Names \subseteq Names'
  BY <1>0, <1>1, <1>3, StillOk
<1>5. RowOk(e)'
  BY <1>1, <1>4 DEF RowOk, Name
<1>6. \A r \in rows' : RowOk(r)'
  BY <1>0, <1>4, <1>5 DEF Typed
<1>7. hist' \in [mine : SUBSET Given', stuck : SUBSET Ids]
  BY <1>1, <1>3, <1>4
<1>8. ObjOk(obj)' /\ queue' \in Seq(Jobs) /\ stalled' \in Seq(Jobs) /\ \A j \in Waiting' : JobOk(j)'
  BY <1>0, <1>4 DEF Typed
<1>9. /\ \A r \in rows : r.id \in Given /\ r.id # n /\ r.uri # n
      /\ obj[n] = None
  BY <1>0, <1>1, <1>2 DEF Typed, RowOk, Name, ObjOk
<1>10. Unique'
  BY <1>9 DEF DavInv, RowInv, Unique
<1>11. ObjOwned'
  BY <1>9 DEF DavInv, RowInv, ObjOwned
<1>12. Mine'
  BY <1>9 DEF DavInv, RowInv, Mine
<1>13. EtagU'
  BY <1>9 DEF DavInv, RowInv, EtagU
<1>14. NoTwin'
  <2>1. \A r \in rows : r.id # None
    BY <1>0, Apart DEF Typed, RowOk, Rows
  <2> QED BY <1>2, <1>9, <2>1 DEF DavInv, RowInv, NoTwin
<1>15. UserEventKept'
  BY <1>9 DEF DavInv, RowInv, UserEventKept, RowOf
<1> QED BY <1>1, <1>2, <1>3, <1>6, <1>7, <1>8, <1>10, <1>11, <1>12, <1>13, <1>14, <1>15 DEF RowInv

-----------------------------------------------------------------------------
(* The user and other clients change rows and objects.                      *)

\* The row of a new event, not yet on the server.
LEMMA UserCreatePreserved ==
    ASSUME DavInv, UserCreate
    PROVE  DavInv'
<1>0. Typed /\ WebOk /\ Told /\ AtWorkInv
  BY DEF DavInv
<1>1. PICK n : n = count.id + 1
  OBVIOUS
<1>2. PICK e : e = [id |-> n, uri |-> None, uid |-> None, v |-> ByUser(Blank, count.v + 1), etag |-> None]
  OBVIOUS
<1>3. count.id < MaxId /\ n \in Ids /\ count.v + 1 \in Version /\ ByUser(Blank, count.v + 1) \in Contents
  <2>1. count.id < MaxId /\ n \in Ids /\ count.v + 1 \in Version
    BY <1>0, <1>1, Apart DEF UserCreate, Edit, Typed, Ids, Version
  <2> QED BY <2>1, BlankContent, UserContent
<1>4. e \in Rows /\ e.id = n /\ e.uri = None /\ e.uid = None /\ e.etag = None
  BY <1>2, <1>3 DEF Rows
<1>5. /\ rows' = rows \cup {e} /\ obj' = obj /\ queue' = queue /\ stalled' = stalled /\ work' = work
      /\ web' = [pc |-> "queue", op |-> "create", id |-> n] /\ web = NoWeb /\ web.pc = "off"
  BY <1>1, <1>2 DEF UserCreate, NoWeb
<1>6. /\ count' \in [id : 0..MaxId, v : Version, etag : Nat] /\ count'.id = n /\ count'.etag = count.etag
  <2>1. count' = [count EXCEPT !.id = n, !.v = count.v + 1]
    BY <1>1 DEF UserCreate
  <2>2. n \in 0..MaxId /\ count.v + 1 \in Version
    BY <1>3, Apart DEF Ids
  <2> QED BY <1>0, <2>1, <2>2 DEF Typed
<1>7. /\ hist' \in [mine : SUBSET Ids, stuck : SUBSET Ids]
      /\ hist'.stuck = hist.stuck /\ hist'.mine = hist.mine \cup {n}
  BY <1>0, <1>1, <1>3, GivenIds DEF UserCreate, Typed
<1>8. Etag(e.etag) /\ Name(e.uri) /\ Name(e.uid)
  BY <1>4 DEF Etag, Name
<1>9. /\ \A id : QUpdate(id) => QUpdate(id)'
      /\ \A r \in rows : UPending(r.id) => UPending(r.id)'
      /\ \A r \in rows : Midway(r) => Midway(r)'
  BY <1>5 DEF QUpdate, UPending, Midway, Target
<1>10. /\ RowInv' /\ Grows /\ n \notin Names /\ n \in Given' /\ n \in Ids /\ n # None
       /\ hist' \in [mine : SUBSET Given', stuck : SUBSET Ids]
       /\ \A r \in rows' : RowOk(r)'
       /\ ObjOk(obj)' /\ queue' \in Seq(Jobs) /\ stalled' \in Seq(Jobs) /\ \A j \in Waiting' : JobOk(j)'
       /\ hist'.mine \cap Given \subseteq hist.mine
  BY <1>1, <1>3, <1>4, <1>5, <1>6, <1>7, <1>8, <1>9, RowAdded
<1>11. /\ \A r : RowOk(r) => RowOk(r)'
       /\ \A f : ObjOk(f) => ObjOk(f)'
       /\ \A j : JobOk(j) => JobOk(j)'
       /\ \A x : Etag(x) => Etag(x)'
       /\ Given \subseteq Given'
  BY <1>0, <1>10, StillOk
<1>12. Typed'
  BY <1>0, <1>5, <1>6, <1>10 DEF Typed
<1>13. WebOk'
  BY <1>5, <1>10 DEF WebOk
<1>14. Told'
  BY <1>0, <1>4, <1>5, <1>7, <1>10, ToldKept DEF AtWorkInv, AtJob
<1>15. n \notin Given
  BY <1>10 DEF Names
<1>16. RowOk(work.row) => RowOk(work.row)'
  BY <1>5, <1>11
<1>17. AtRow'
  <2> SUFFICES ASSUME work.pc \in {"http", "write"} PROVE AtRow'
    BY <1>5 DEF AtRow
  <2>1. work.job.id \in Given /\ (work.row.uri = None \/ work.row.uri \in Names) /\ AtRow
    BY <1>0 DEF AtWorkInv, AtRow, RowOk, Name
  <2> QED BY <1>4, <1>5, <1>7, <1>9, <1>10, <1>15, <1>16, <2>1 DEF AtRow
<1>18. AtWrite'
  <2> SUFFICES ASSUME work.pc = "write" PROVE AtWrite'
    BY <1>5 DEF AtWrite
  <2>1. work.job.id \in Given /\ AtWrite /\ Target' = Target
    BY <1>0, <1>5 DEF AtWorkInv, AtRow, RowOk, Target
  <2> QED BY <1>5, <1>7, <1>11, <1>15, <2>1 DEF AtWrite
<1>19. AtPush' /\ AtJob'
  BY <1>0, <1>5, <1>11 DEF AtWorkInv, AtPush, AtJob
<1>20. AtSync'
  <2> SUFFICES ASSUME work.pc \in {"look", "apply"} PROVE AtSync'
    BY <1>5 DEF AtSync
  <2>1. AtSync /\ ObjOk(work.list)' /\ work.list[n] = None
    BY <1>0, <1>5, <1>10, <1>11, Apart DEF AtWorkInv, AtSync, ObjOk
  <2>2. \A r \in rows : r.id \in Given
    BY <1>0 DEF Typed, RowOk
  <2> QED BY <1>4, <1>5, <1>7, <1>15, <2>1, <2>2 DEF AtSync
<1>21. AtApply'
  <2> SUFFICES ASSUME work.pc = "apply" PROVE AtApply'
    BY <1>5 DEF AtApply
  <2>1. AtApply /\ work.uri \in Uris
    BY <1>0 DEF AtWorkInv, AtSync, AtApply
  <2> QED BY <1>4, <1>5, <1>11, <1>15, <2>1, Apart DEF AtApply
<1> QED BY <1>10, <1>12, <1>13, <1>14, <1>17, <1>18, <1>19, <1>20, <1>21 DEF DavInv, AtWorkInv

\* A row gets new contents; the update is about to be queued.
LEMMA UserEditPreserved ==
    ASSUME DavInv, NEW o \in rows, UserEdit(o)
    PROVE  DavInv'
<1>0. Typed /\ WebOk /\ Told /\ AtWorkInv /\ RowInv
  BY DEF DavInv
<1>1. PICK e : e = [o EXCEPT !.v = ByUser(o.v, count.v + 1)]
  OBVIOUS
<1>2. /\ RowOk(o) /\ o.id \in Given /\ o \in Rows /\ count.v + 1 \in Version /\ Given \subseteq Ids
      /\ ByUser(o.v, count.v + 1) \in Contents
  <2>1. RowOk(o) /\ o.id \in Given /\ o \in Rows /\ count.v + 1 \in Version /\ Given \subseteq Ids
    BY <1>0, GivenIds, Apart DEF UserEdit, Edit, Typed, RowOk, Version
  <2> QED BY <2>1, UserContent DEF Rows
<1>3. e \in Rows /\ e.id = o.id /\ e.uri = o.uri /\ e.uid = o.uid /\ e.etag = o.etag
  BY <1>1, <1>2 DEF Rows
<1>4. /\ rows' = (rows \ {o}) \cup {e} /\ obj' = obj /\ queue' = queue /\ stalled' = stalled /\ work' = work /\ hist' = hist
      /\ web' = [pc |-> "queue", op |-> "update", id |-> o.id] /\ web = NoWeb /\ web.pc = "off"
  BY <1>1 DEF UserEdit, NoWeb
<1>5. count' \in [id : 0..MaxId, v : Version, etag : Nat] /\ count'.id = count.id /\ count'.etag = count.etag
  BY <1>0, <1>2, Apart DEF UserEdit, Typed
<1>6. /\ \A r : RowOk(r) => RowOk(r)'
      /\ \A f : ObjOk(f) => ObjOk(f)'
      /\ \A j : JobOk(j) => JobOk(j)'
      /\ \A x : Etag(x) => Etag(x)'
      /\ Given' = Given
  <2>1. Grows
    BY <1>0, <1>5 DEF Grows, Typed
  <2> QED BY <1>0, <1>4, <1>5, <2>1, StillOk DEF Given
<1>7. RowOk(e)
  BY <1>2, <1>3 DEF RowOk
<1>8. /\ \A id : QUpdate(id) => QUpdate(id)'
      /\ \A r \in rows : UPending(r.id) => UPending(r.id)'
      /\ QUpdate(o.id)' /\ UPending(o.id)'
  BY <1>4 DEF QUpdate, UPending
<1>9. Midway(o) => Midway(e)'
  BY <1>3, <1>4 DEF Midway, Target
<1>10. \A r \in rows : Midway(r) => Midway(r)'
  BY <1>4 DEF Midway, Target
<1>11. Typed'
  <2>1. \A r \in rows' : RowOk(r)'
    BY <1>0, <1>4, <1>6, <1>7 DEF Typed
  <2>2. /\ ObjOk(obj)' /\ queue' \in Seq(Jobs) /\ stalled' \in Seq(Jobs) /\ \A j \in Waiting' : JobOk(j)'
        /\ hist' \in [mine : SUBSET Given', stuck : SUBSET Ids]
    BY <1>0, <1>4, <1>6 DEF Typed
  <2> QED BY <1>0, <1>4, <1>5, <2>1, <2>2 DEF Typed
<1>12. WebOk' /\ Told'
  <2>1. WebOk'
    BY <1>0, <1>2, <1>4, <1>6 DEF WebOk
  <2>2. Told'
    BY <1>0, <1>3, <1>4, ToldKept DEF AtWorkInv, AtJob
  <2> QED BY <2>1, <2>2
<1>13. RowInv'
  <2>1. Unique' /\ NoTwin'
    BY <1>0, <1>3, <1>4 DEF RowInv, Unique, NoTwin
  <2>2. ObjOwned'
    BY <1>0, <1>3, <1>4, <1>9, <1>10 DEF RowInv, ObjOwned
  <2>3. Mine'
    BY <1>0, <1>3, <1>4 DEF RowInv, Mine
  <2>4. EtagU'
    BY <1>0, <1>3, <1>4, <1>8 DEF RowInv, EtagU
  <2>5. UserEventKept'
    BY <1>0, <1>3, <1>4 DEF RowInv, UserEventKept, RowOf
  <2> QED BY <2>1, <2>2, <2>3, <2>4, <2>5 DEF RowInv
<1>14. AtRow'
  <2>1. RowOk(work.row) => RowOk(work.row)'
    BY <1>4, <1>6
  <2> QED BY <1>0, <1>3, <1>4, <1>8, <2>1 DEF AtWorkInv, AtRow
<1>15. AtWrite'
  BY <1>0, <1>4, <1>6 DEF AtWorkInv, AtWrite, Target
<1>16. AtPush' /\ AtJob'
  BY <1>0, <1>4, <1>6 DEF AtWorkInv, AtPush, AtJob
<1>17. AtSync' /\ AtApply'
  BY <1>0, <1>3, <1>4, <1>6 DEF AtWorkInv, AtSync, AtApply
<1> QED BY <1>11, <1>12, <1>13, <1>14, <1>15, <1>16, <1>17 DEF DavInv, AtWorkInv

\* The row goes once its object is gone.
LEMMA WebUnrowPreserved ==
    ASSUME DavInv, WebUnrow
    PROVE  DavInv'
<1>0. Typed /\ WebOk /\ Told /\ AtWorkInv /\ RowInv
  BY DEF DavInv
<1>1. /\ rows' = rows \ RowOf(web.id) /\ web.id \notin hist.mine /\ web' = NoWeb /\ web.pc = "unrow"
      /\ obj' = obj /\ queue' = queue /\ stalled' = stalled /\ work' = work /\ count' = count /\ hist' = hist
  BY <1>0 DEF WebUnrow, WebOk
<1>2. rows' \subseteq rows /\ \A r \in rows : r.id # web.id => r \in rows'
  BY <1>1 DEF RowOf
<1>3. /\ \A id : QUpdate(id) => QUpdate(id)'
      /\ \A r \in rows : UPending(r.id) => UPending(r.id)'
      /\ \A r \in rows : Midway(r) => Midway(r)'
  BY <1>1 DEF QUpdate, UPending, Midway, Target
<1>4. /\ \A r : RowOk(r) => RowOk(r)'
      /\ \A f : ObjOk(f) => ObjOk(f)'
      /\ \A j : JobOk(j) => JobOk(j)'
      /\ \A x : Etag(x) => Etag(x)'
      /\ Given' = Given /\ Target' = Target
  BY <1>1 DEF RowOk, ObjOk, JobOk, Etag, Name, Names, Given, Target
<1>5. Typed'
  <2>1. /\ ObjOk(obj)' /\ queue' \in Seq(Jobs) /\ stalled' \in Seq(Jobs) /\ \A j \in Waiting' : JobOk(j)'
        /\ \A r \in rows' : RowOk(r)'
    BY <1>0, <1>1, <1>2, <1>4 DEF Typed
  <2> QED BY <1>0, <1>1, <1>4, <2>1 DEF Typed
<1>6. WebOk' /\ Told'
  BY <1>0, <1>1, <1>2, ToldSame DEF WebOk, NoWeb, AtWorkInv
<1>7. RowInv'
  <2>1. Unique' /\ NoTwin' /\ ObjOwned' /\ Mine' /\ EtagU'
    BY <1>0, <1>1, <1>2, <1>3 DEF RowInv, Unique, NoTwin, ObjOwned, Mine, EtagU
  <2>2. UserEventKept'
    BY <1>0, <1>1, <1>2 DEF RowInv, UserEventKept, RowOf
  <2> QED BY <2>1, <2>2 DEF RowInv
<1>8. AtRow'
  <2>1. RowOk(work.row) => RowOk(work.row)'
    BY <1>1, <1>4
  <2> QED BY <1>0, <1>1, <1>2, <1>3, <2>1 DEF AtWorkInv, AtRow
<1>9. AtWrite' /\ AtPush' /\ AtJob'
  BY <1>0, <1>1, <1>4 DEF AtWorkInv, AtWrite, AtPush, AtJob
<1>10. AtSync' /\ AtApply'
  BY <1>0, <1>1, <1>2, <1>4 DEF AtWorkInv, AtSync, AtApply
<1> QED BY <1>5, <1>6, <1>7, <1>8, <1>9, <1>10 DEF DavInv, AtWorkInv

\* A new object, or a new version of one, has an etag nobody knows yet.
LEMMA PutFacts ==
    ASSUME Typed, NEW u \in Uris, u \in Names, NEW o \in Objects, o.etag = count.etag + 1,
           count' \in [id : 0..MaxId, v : Version, etag : Nat],
           count'.id = count.id, count'.etag = count.etag + 1, hist'.mine \subseteq hist.mine,
           obj' = [obj EXCEPT ![u] = o]
    PROVE  /\ obj' \in [Uris -> Objects \cup {None}] /\ ObjOk(obj)'
           /\ obj'[u] # None /\ obj'[u] = o
           /\ \A w \in Uris : w # u => obj'[w] = obj[w]
           /\ \A e : Etag(e) => e # count.etag + 1
           /\ Grows /\ Given' = Given
           /\ \A r : RowOk(r) => RowOk(r)'
           /\ \A f : ObjOk(f) => ObjOk(f)'
           /\ \A j : JobOk(j) => JobOk(j)'
           /\ \A x : Etag(x) => Etag(x)'
           /\ (\A e : e = count.etag + 1 => Etag(e)')
<1>1. count.etag \in Nat /\ count.id \in Nat /\ Grows /\ Given' = Given /\ Names' = Names
  BY DEF Typed, Grows, Given, Names
<1>2. o # None
  BY Apart
<1>3. /\ obj' \in [Uris -> Objects \cup {None}] /\ obj'[u] = o
      /\ \A w \in Uris : w # u => obj'[w] = obj[w]
  BY DEF Typed, ObjOk
<1>4. /\ \A r : RowOk(r) => RowOk(r)'
      /\ \A f : ObjOk(f) => ObjOk(f)'
      /\ \A j : JobOk(j) => JobOk(j)'
      /\ \A x : Etag(x) => Etag(x)'
  BY <1>1, StillOk
<1>5. (\A e : e = count.etag + 1 => Etag(e)') /\ \A e : Etag(e) => e # count.etag + 1
  BY <1>1, Apart DEF Etag
<1>6. ASSUME NEW w \in Uris, obj'[w] # None PROVE w \in Names' /\ Etag(obj[w].etag)'
  <2>1. CASE w = u
    BY <1>1, <1>3, <2>1 DEF Etag
  <2>2. CASE w # u
    <3>1. obj'[w] = obj[w] /\ w \in Names /\ Etag(obj[w].etag)
      BY <1>3, <1>6, <2>2 DEF Typed, ObjOk
    <3> QED BY <1>1, <3>1 DEF Etag
  <2> QED BY <2>1, <2>2
<1>7. ObjOk(obj)'
  BY <1>3, <1>6 DEF ObjOk
<1> QED BY <1>1, <1>2, <1>3, <1>4, <1>5, <1>7

\* Another client writes an object, also under a push or a sync.
LEMMA OtherPutPreserved ==
    ASSUME DavInv, NEW u \in Uris, NEW kind \in Kinds, OtherPut(u, kind)
    PROVE  DavInv'
<1>0. Typed /\ WebOk /\ Told /\ AtWorkInv /\ RowInv
  BY DEF DavInv
<1>1. /\ u \in Names /\ (u \in Outside \/ obj[u] # None)
      /\ rows' = rows /\ queue' = queue /\ stalled' = stalled /\ work' = work /\ web' = web /\ hist' = hist
  BY <1>0 DEF OtherPut, Typed, ObjOk, Names
<1>2. count.v + 1 \in Version /\ count.etag + 1 \in Nat
  BY <1>0, Apart DEF OtherPut, Edit, Typed, Version
<1>3. /\ count' \in [id : 0..MaxId, v : Version, etag : Nat]
      /\ count'.id = count.id /\ count'.etag = count.etag + 1
  <2>1. count' = [count EXCEPT !.v = count.v + 1, !.etag = count.etag + 1]
    BY DEF OtherPut
  <2> QED BY <1>0, <1>2, <2>1 DEF Typed
<1>4. PICK o \in Objects : o.etag = count.etag + 1 /\ obj' = [obj EXCEPT ![u] = o] /\ hist'.mine \subseteq hist.mine
  <2>1. PICK o : o = [text |-> count.v + 1, place |-> count.v + 1, rule |-> count.v + 1, ends |-> 1,
                      kind |-> kind, etag |-> count.etag + 1]
    OBVIOUS
  <2>2. o \in Objects /\ o.etag = count.etag + 1
    BY <1>2, <2>1 DEF Objects
  <2>3. obj' = [obj EXCEPT ![u] = o]
    BY <2>1 DEF OtherPut
  <2> QED BY <1>1, <2>2, <2>3
<1>5. /\ obj' \in [Uris -> Objects \cup {None}] /\ ObjOk(obj)'
      /\ obj'[u] # None /\ obj'[u].etag = count.etag + 1
      /\ \A w \in Uris : w # u => obj'[w] = obj[w]
      /\ \A e : Etag(e) => e # count.etag + 1
      /\ Grows /\ Given' = Given
      /\ \A r : RowOk(r) => RowOk(r)'
      /\ \A f : ObjOk(f) => ObjOk(f)'
      /\ \A j : JobOk(j) => JobOk(j)'
      /\ \A x : Etag(x) => Etag(x)'
  BY <1>0, <1>1, <1>2, <1>3, <1>4, PutFacts
<1>6. Typed'
  <2>1. /\ queue' \in Seq(Jobs) /\ stalled' \in Seq(Jobs) /\ \A j \in Waiting' : JobOk(j)'
        /\ \A r \in rows' : RowOk(r)'
    BY <1>0, <1>1, <1>5 DEF Typed
  <2> QED BY <1>0, <1>1, <1>3, <1>5, <2>1 DEF Typed
<1>7. WebOk' /\ Told'
  <2>1. WebOk'
    BY <1>0, <1>1, <1>5 DEF WebOk
  <2>2. Told'
    BY <1>0, <1>1, ToldSame DEF AtWorkInv
  <2> QED BY <2>1, <2>2
<1>8. /\ \A id : QUpdate(id) => QUpdate(id)'
      /\ \A r \in rows : UPending(r.id) => UPending(r.id)'
      /\ \A r \in rows : Midway(r) => Midway(r)'
      /\ Target' = Target
  BY <1>1 DEF QUpdate, UPending, Midway, Target
<1>9. \A r \in rows : r.id \in Ids /\ r.id \in Uris /\ (r.uri # None => r.uri \in Uris) /\ Etag(r.etag)
  BY <1>0, Apart DEF Typed, RowOk, Rows
<1>10. RowInv'
  <2>1. Unique' /\ NoTwin' /\ UserEventKept'
    BY <1>0, <1>1 DEF RowInv, Unique, NoTwin, UserEventKept, RowOf
  <2>2. ObjOwned'
    BY <1>0, <1>1, <1>5, <1>8, <1>9, Apart DEF RowInv, ObjOwned
  <2>3. Mine'
    BY <1>0, <1>1, <1>5, <1>9 DEF RowInv, Mine
  <2>4. EtagU'
    BY <1>0, <1>1, <1>5, <1>8, <1>9 DEF RowInv, EtagU
  <2> QED BY <2>1, <2>2, <2>3, <2>4 DEF RowInv
<1>11. AtRow'
  <2>1. RowOk(work.row) => RowOk(work.row)'
    BY <1>1, <1>5
  <2> QED BY <1>0, <1>1, <1>8, <2>1 DEF AtWorkInv, AtRow
<1>12. AtWrite'
  <2> SUFFICES ASSUME work.pc = "write" PROVE AtWrite'
    BY <1>1 DEF AtWrite
  <2>1. AtWrite /\ AtRow /\ Target \in Uris
    BY <1>0, Apart DEF AtWorkInv, AtRow, RowOk, Rows, Target
  <2>2. Etag(work.etag) /\ Etag(work.etag)'
    BY <1>1, <1>5, <2>1 DEF AtWrite
  <2> QED BY <1>1, <1>5, <1>8, <2>1, <2>2 DEF AtWrite
<1>13. AtPush' /\ AtJob' /\ AtApply'
  BY <1>0, <1>1, <1>5 DEF AtWorkInv, AtPush, AtJob, AtApply
<1>14. AtSync'
  <2> SUFFICES ASSUME work.pc \in {"look", "apply"} PROVE AtSync'
    BY <1>1 DEF AtSync
  <2>1. AtSync /\ ObjOk(work.list) /\ ObjOk(work.list)'
    BY <1>0, <1>1, <1>5 DEF AtWorkInv, AtSync
  <2>2. \A w \in Uris : work.list[w] # None => work.list[w].etag # count.etag + 1
    BY <1>5, <2>1 DEF ObjOk
  <2> QED BY <1>1, <1>5, <2>1, <2>2 DEF AtSync
<1> QED BY <1>6, <1>7, <1>10, <1>11, <1>12, <1>13, <1>14 DEF DavInv, AtWorkInv

\* Another client removes an object, also under a push or a sync.
LEMMA OtherDeletePreserved ==
    ASSUME DavInv, NEW u \in Uris, OtherDelete(u)
    PROVE  DavInv'
<1>0. Typed /\ WebOk /\ Told /\ AtWorkInv /\ RowInv
  BY DEF DavInv
<1>1. /\ rows' = rows /\ queue' = queue /\ stalled' = stalled /\ work' = work /\ web' = web /\ obj' = [obj EXCEPT ![u] = None]
  BY DEF OtherDelete
<1>2. /\ count' \in [id : 0..MaxId, v : Version, etag : Nat]
      /\ count'.id = count.id /\ count'.etag = count.etag
  BY <1>0, Apart DEF OtherDelete, Edit, Typed, Version
<1>3. /\ hist' \in [mine : SUBSET Given, stuck : SUBSET Ids]
      /\ hist'.mine = hist.mine \ {u} /\ hist'.stuck = hist.stuck
  BY <1>0 DEF OtherDelete, Typed
<1>4. /\ obj' \in [Uris -> Objects \cup {None}] /\ obj'[u] = None
      /\ \A w \in Uris : w # u => obj'[w] = obj[w]
  BY <1>0, <1>1 DEF Typed, ObjOk
<1>5. /\ \A r : RowOk(r) => RowOk(r)'
      /\ \A f : ObjOk(f) => ObjOk(f)'
      /\ \A j : JobOk(j) => JobOk(j)'
      /\ \A x : Etag(x) => Etag(x)'
      /\ Given' = Given /\ Names' = Names /\ Target' = Target
  BY <1>1, <1>2, <1>3 DEF RowOk, ObjOk, JobOk, Etag, Name, Names, Given, Target
<1>6. ObjOk(obj)'
  BY <1>0, <1>2, <1>4, <1>5 DEF ObjOk, Typed, Etag
<1>7. Typed'
  <2>1. /\ queue' \in Seq(Jobs) /\ stalled' \in Seq(Jobs) /\ \A j \in Waiting' : JobOk(j)'
        /\ \A r \in rows' : RowOk(r)'
    BY <1>0, <1>1, <1>5 DEF Typed
  <2> QED BY <1>0, <1>1, <1>2, <1>3, <1>5, <1>6, <2>1 DEF Typed
<1>8. WebOk' /\ Told'
  <2>1. WebOk'
    BY <1>0, <1>1, <1>3, <1>5 DEF WebOk
  <2>2. Told'
    BY <1>0, <1>1, <1>3, ToldSame DEF AtWorkInv
  <2> QED BY <2>1, <2>2
<1>9. /\ \A id : QUpdate(id) => QUpdate(id)'
      /\ \A r \in rows : UPending(r.id) => UPending(r.id)'
      /\ \A r \in rows : Midway(r) => Midway(r)'
  BY <1>1 DEF QUpdate, UPending, Midway, Target
<1>10. \A r \in rows : r.id \in Ids /\ r.id \in Uris /\ (r.uri # None => r.uri \in Uris)
  BY <1>0, Apart DEF Typed, RowOk, Rows
<1>11. RowInv'
  <2>1. Unique' /\ NoTwin' /\ UserEventKept'
    BY <1>0, <1>1, <1>3 DEF RowInv, Unique, NoTwin, UserEventKept, RowOf
  <2>2. ObjOwned'
    BY <1>0, <1>1, <1>3, <1>4, <1>9, <1>10 DEF RowInv, ObjOwned
  <2>3. Mine'
    BY <1>0, <1>1, <1>3, <1>4, <1>10 DEF RowInv, Mine
  <2>4. EtagU'
    BY <1>0, <1>1, <1>3, <1>4, <1>9, <1>10 DEF RowInv, EtagU
  <2> QED BY <2>1, <2>2, <2>3, <2>4 DEF RowInv
<1>12. AtRow'
  <2>1. RowOk(work.row) => RowOk(work.row)'
    BY <1>1, <1>5
  <2> QED BY <1>0, <1>1, <1>3, <1>9, <2>1 DEF AtWorkInv, AtRow
<1>13. AtWrite'
  <2> SUFFICES ASSUME work.pc = "write" PROVE AtWrite'
    BY <1>1 DEF AtWrite
  <2>1. AtWrite /\ AtRow /\ Target \in Uris /\ work.row.id = work.job.id
    BY <1>0, Apart DEF AtWorkInv, AtRow, RowOk, Rows, Target
  <2>2. ASSUME work.job.id \in hist.mine \ hist.stuck PROVE Target = work.job.id
    <3>1. PICK r \in rows : r.id = work.job.id
      BY <1>0, <2>2 DEF RowInv, UserEventKept, RowOf
    <3>2. r.uri \in {None, r.id} /\ r.uri = work.row.uri
      BY <1>0, <2>1, <2>2, <3>1 DEF RowInv, Mine, AtRow
    <3> QED BY <2>1, <3>1, <3>2 DEF Target
  <2>3. Etag(work.etag)'
    BY <1>1, <1>5, <2>1 DEF AtWrite
  <2> QED BY <1>1, <1>3, <1>4, <1>5, <2>1, <2>2, <2>3 DEF AtWrite
<1>14. AtPush' /\ AtJob' /\ AtApply'
  BY <1>0, <1>1, <1>5 DEF AtWorkInv, AtPush, AtJob, AtApply
<1>15. AtSync'
  <2>1. ObjOk(work.list) => ObjOk(work.list)'
    BY <1>1, <1>5
  <2> QED BY <1>0, <1>1, <1>3, <1>4, <2>1 DEF AtWorkInv, AtSync
<1> QED BY <1>7, <1>8, <1>11, <1>12, <1>13, <1>14, <1>15 DEF DavInv, AtWorkInv

-----------------------------------------------------------------------------
(* The worker: steps that leave rows and objects alone.                     *)

\* Steps of the worker that change neither rows nor objects.
LEMMA RowsKept ==
    ASSUME DavInv, rows' = rows, obj' = obj, count' = count,
           hist' \in [mine : SUBSET Given, stuck : SUBSET Ids],
           hist'.mine \subseteq hist.mine, hist.stuck \subseteq hist'.stuck,
           queue' \in Seq(Jobs) /\ stalled' \in Seq(Jobs), \A j \in Waiting' : j \in Waiting \/ JobOk(j)',
           Told', WebOk', AtWorkInv',
           Shape(work'), work'.pc = "off" => work' = NoWork, work'.job \in Jobs,
           \A r \in rows : r.id \notin hist'.stuck /\ UPending(r.id) => UPending(r.id)',
           \A r \in rows : r.id \notin hist'.stuck /\ Midway(r) => Midway(r)' \/ r.uri = r.id
    PROVE  DavInv'
<1>1. Typed /\ RowInv
  BY DEF DavInv
<1>2. /\ \A r : RowOk(r) => RowOk(r)'
      /\ \A f : ObjOk(f) => ObjOk(f)'
      /\ \A j : JobOk(j) => JobOk(j)'
      /\ Given' = Given
  BY DEF RowOk, ObjOk, JobOk, Etag, Name, Names, Given
<1>3. Typed'
  <2>1. /\ \A j \in Waiting' : JobOk(j)'
        /\ \A r \in rows' : RowOk(r)'
        /\ ObjOk(obj)'
    BY <1>1, <1>2 DEF Typed
  <2> QED BY <1>1, <1>2, <2>1 DEF Typed
<1>4. RowInv'
  <2>1. Unique' /\ NoTwin' /\ Mine'
    BY <1>1 DEF RowInv, Unique, NoTwin, Mine
  <2>2. ObjOwned' /\ EtagU' /\ UserEventKept'
    BY <1>1 DEF RowInv, ObjOwned, EtagU, UserEventKept, RowOf
  <2> QED BY <2>1, <2>2 DEF RowInv
<1> QED BY <1>3, <1>4 DEF DavInv

\* A job that completes lets the request that waits for it go on.
LEMMA DoneFacts ==
    ASSUME Typed, WebOk, Done, hist'.mine \subseteq hist.mine, Given' = Given
    PROVE  WebOk' /\ work' = NoWork /\ \A id : QUpdate(id) /\ Waiting \subseteq Waiting' => QUpdate(id)'
<1>1. work' = NoWork /\ (web' = web \/ (web.pc = "wait" /\ web' = [web EXCEPT !.pc = "unrow"]))
  BY DEF Done
<1>2. CASE web' = web
  BY <1>1, <1>2 DEF WebOk, QUpdate
<1>3. CASE web.pc = "wait" /\ web' = [web EXCEPT !.pc = "unrow"]
  <2>1. web' \in [pc : {"off", "queue", "wait", "unrow"}, op : {"none", "create", "update", "delete"}, id : Ids \cup {None}]
    BY <1>3 DEF WebOk
  <2>2. web'.pc = "unrow" /\ web'.id = web.id
    BY <1>3 DEF WebOk
  <2> QED BY <1>1, <1>3, <2>1, <2>2 DEF WebOk, QUpdate
<1> QED BY <1>1, <1>2, <1>3

\* The mails yet to be handled when a job has ended.
LEMMA OffTold ==
    ASSUME DavInv, work' = NoWork, rows' \subseteq rows, hist.stuck \subseteq hist'.stuck,
           \A j \in Waiting' : j \in Waiting \/ j = work.job \/ j.op # "request"
    PROVE  Told'
<1>1. work'.job.op = "none"
  BY DEF NoWork, Job
<1>2. \A j \in Waiting' \cup {work'.job} : j.op = "request" =>
        \E k \in Waiting \cup {work.job} : k.op = "request" /\ k.id = j.id
  BY <1>1
<1> QED BY <1>2, ToldSame DEF DavInv, AtWorkInv

\* A job that fails ends the request that waits for it.
LEMMA FailedFacts ==
    ASSUME DavInv, Failed, Given' = Given, Waiting' = Waiting
    PROVE  /\ WebOk' /\ work' = NoWork /\ \A id : QUpdate(id) => QUpdate(id)'
           /\ hist' \in [mine : SUBSET Given, stuck : SUBSET Ids]
           /\ hist'.mine = hist.mine /\ hist'.stuck = hist.stuck \cup Unpushed
<1>0. Typed /\ WebOk /\ AtWorkInv /\ Given \subseteq Ids
  BY GivenIds DEF DavInv
<1>1. Unpushed \subseteq Ids
  <2>1. work.pc = "push" => work.row.id \in Ids
    BY <1>0 DEF AtWorkInv, AtPush
  <2>2. work.job.op \in {"create", "update"} => work.job.id \in Ids
    <3>1. CASE work.pc = "off"
      BY <1>0, <3>1 DEF Typed, NoWork, Job
    <3>2. CASE work.pc # "off"
      BY <1>0, <3>2 DEF AtWorkInv, AtJob, JobOk
    <3> QED BY <3>1, <3>2
  <2> QED BY <2>1, <2>2 DEF Unpushed
<1>2. /\ hist' \in [mine : SUBSET Given, stuck : SUBSET Ids]
      /\ hist'.mine = hist.mine /\ hist'.stuck = hist.stuck \cup Unpushed
  BY <1>0, <1>1 DEF Failed, Stuck, Typed
<1>3. work' = NoWork /\ (web' = web \/ (web.pc = "wait" /\ web' = NoWeb))
  BY DEF Failed
<1>4. WebOk'
  BY <1>0, <1>2, <1>3 DEF WebOk, NoWeb
<1>5. \A id : QUpdate(id) => QUpdate(id)'
  BY <1>3 DEF QUpdate
<1> QED BY <1>2, <1>3, <1>4, <1>5

\* A job that fails leaves the row it was for out of step.
LEMMA FailedPreserved ==
    ASSUME DavInv, work.pc # "off", Failed, rows' = rows, obj' = obj, count' = count,
           queue' = queue, stalled' = stalled
    PROVE  DavInv'
<1>0. Typed /\ AtWorkInv /\ queue \in Seq(Jobs) /\ stalled \in Seq(Jobs)
  BY DEF DavInv, Typed
<1>1. Given' = Given /\ Waiting' = Waiting
  BY DEF Given
<1>2. /\ WebOk' /\ work' = NoWork /\ \A id : QUpdate(id) => QUpdate(id)'
      /\ hist' \in [mine : SUBSET Given, stuck : SUBSET Ids]
      /\ hist'.mine = hist.mine /\ hist'.stuck = hist.stuck \cup Unpushed
  BY <1>1, FailedFacts
<1>3. AtWorkInv' /\ work'.pc = "off" /\ Shape(work') /\ work'.job \in Jobs
  BY <1>2, OffWork
<1>4. Told'
  BY <1>1, <1>2, OffTold
<1>5. \A r \in rows : r.id \notin hist'.stuck /\ UPending(r.id) => UPending(r.id)'
  BY <1>2 DEF UPending, Unpushed
<1>6. \A r \in rows : r.id \notin hist'.stuck /\ Midway(r) => FALSE
  BY <1>0, <1>2 DEF Midway, Unpushed, AtWorkInv, AtWrite
<1> QED BY <1>0, <1>1, <1>2, <1>3, <1>4, <1>5, <1>6, RowsKept

\* A request or the database fails in the middle of a job.
LEMMA JobThrowsPreserved ==
    ASSUME DavInv, JobThrows
    PROVE  DavInv'
<1>1. work.pc # "off" /\ Failed /\ rows' = rows /\ obj' = obj /\ count' = count /\ queue' = queue /\ stalled' = stalled
  BY DEF JobThrows, DavInv, Typed
<1> QED BY <1>1, FailedPreserved

\* The worker dies; its job waits to be found, once.
LEMMA WorkerDiesPreserved ==
    ASSUME DavInv, WorkerDies
    PROVE  DavInv'
<1>0. Typed /\ Told /\ AtWorkInv /\ WebOk
  BY DEF DavInv
<1>1. work.pc # "off" /\ rows' = rows /\ obj' = obj /\ count' = count /\ queue' = queue
  BY <1>0 DEF WorkerDies, Typed
<1>2. CASE Failed /\ stalled' = stalled
  BY <1>1, <1>2, FailedPreserved
<1>3. CASE /\ stalled' = Append(stalled, [work.job EXCEPT !.again = TRUE])
           /\ work' = NoWork /\ web' = web /\ hist' = Stuck(Halfway)
  <2>1. PICK j : j = [work.job EXCEPT !.again = TRUE]
    OBVIOUS
  <2>2. work.job \in Jobs /\ JobOk(work.job)
    BY <1>0, <1>1 DEF Typed, AtWorkInv, AtJob
  <2>3. j \in Jobs /\ j.op = work.job.op /\ j.id = work.job.id /\ j.v = work.job.v
    BY <2>1, <2>2 DEF Jobs
  <2>4. AtWorkInv' /\ work'.pc = "off" /\ Shape(work') /\ work'.job \in Jobs
    BY <1>3, OffWork
  <2>5. queue' \in Seq(Jobs) /\ stalled' \in Seq(Jobs) /\ Waiting' = Waiting \cup {j}
    BY <1>0, <1>1, <1>3, <2>1, <2>3, StallAppend DEF Typed
  <2>6. /\ hist' \in [mine : SUBSET Given, stuck : SUBSET Ids]
        /\ hist'.mine = hist.mine /\ hist.stuck \subseteq hist'.stuck
        /\ work.pc = "push" => work.row.id \in hist'.stuck
        /\ work.pc = "write" /\ work.row.uri # Target => work.job.id \in hist'.stuck
    <3>1. Halfway \subseteq Ids
      BY <1>0, <2>2, GivenIds DEF Halfway, Unpushed, AtWorkInv, AtPush, JobOk
    <3>2. hist' = [hist EXCEPT !.stuck = @ \cup Halfway]
      BY <1>3 DEF Stuck
    <3>3. hist' \in [mine : SUBSET Given, stuck : SUBSET Ids] /\ hist'.mine = hist.mine /\ hist'.stuck = hist.stuck \cup Halfway
      BY <1>0, <3>1, <3>2 DEF Typed
    <3>4. work.pc = "push" => work.row.id \in Halfway
      BY DEF Halfway, Unpushed
    <3>5. work.pc = "write" /\ work.row.uri # Target => work.job.id \in Halfway
      BY <1>0 DEF Halfway, Unpushed, AtWorkInv, AtWrite
    <3> QED BY <3>3, <3>4, <3>5
  <2>7. JobOk(j)'
    BY <1>1, <2>2, <2>3, <2>6 DEF JobOk, Given, Names
  <2>8. WebOk'
    BY <1>0, <1>1, <1>3, <2>6 DEF WebOk, Given
  <2>9. \A r \in rows : r.id \notin hist'.stuck /\ UPending(r.id) => UPending(r.id)'
    BY <1>3, <2>3, <2>5, <2>6 DEF UPending, QUpdate
  <2>10. \A r \in rows : r.id \notin hist'.stuck /\ Midway(r) => r.uri = r.id
    BY <1>0, <2>6 DEF Midway, AtWorkInv, AtRow
  <2>11. Told'
    <3>1. work'.job.op = "none"
      BY <1>3 DEF NoWork, Job
    <3>2. \A k \in Waiting' \cup {work'.job} : k.op = "request" =>
            \E i \in Waiting \cup {work.job} : i.op = "request" /\ i.id = k.id
      BY <2>3, <2>5, <3>1
    <3> QED BY <1>0, <1>1, <2>6, <3>2, ToldSame DEF AtWorkInv
  <2> QED BY <1>1, <1>3, <2>4, <2>5, <2>6, <2>7, <2>8, <2>9, <2>10, <2>11, RowsKept
<1> QED BY <1>2, <1>3 DEF WorkerDies

\* A stalled job is found and put at the front of the queue.
LEMMA StalledBackPreserved ==
    ASSUME DavInv, StalledBack
    PROVE  DavInv'
<1>1. Typed /\ WebOk /\ Told /\ AtWorkInv
  BY DEF DavInv
<1>2. PICK i \in DOMAIN stalled : queue' = <<stalled[i]>> \o queue /\ stalled' = RemoveAt(stalled, i)
  BY DEF StalledBack
<1>3. /\ rows' = rows /\ obj' = obj /\ work' = work /\ web' = web /\ count' = count /\ hist' = hist
  BY DEF StalledBack
<1>4. stalled \in Seq(Jobs) /\ queue \in Seq(Jobs) /\ stalled[i] \in Jobs
  BY <1>1 DEF Typed
<1>5. stalled' \in Seq(Jobs) /\ Range(stalled) = Range(stalled') \cup {stalled[i]}
  BY <1>2, <1>4, StallRemove
<1>6. queue' \in Seq(Jobs) /\ Range(queue') = Range(queue) \cup {stalled[i]}
  BY <1>2, <1>4, QueueFront
<1>7. Waiting' = Waiting
  BY <1>5, <1>6
<1>8. WebOk'
  BY <1>1, <1>3 DEF WebOk, Given
<1>9. \A id : QUpdate(id) => QUpdate(id)'
  BY <1>3, <1>7 DEF QUpdate
<1>10. Told'
  BY <1>1, <1>3, <1>7, ToldSame DEF AtWorkInv
<1>11. hist \in [mine : SUBSET Ids, stuck : SUBSET Ids] /\ count \in [id : 0..MaxId, v : Version, etag : Nat]
  BY <1>1, GivenIds DEF Typed
<1> QED BY <1>3, <1>5, <1>6, <1>7, <1>8, <1>9, <1>10, <1>11, EnvStep

\* Fields of the worker after a step that goes on.
LEMMA WorkFields ==
    ASSUME Typed
    PROVE  /\ work = [pc |-> work.pc, job |-> work.job, row |-> work.row, etag |-> work.etag,
                      list |-> work.list, todo |-> work.todo, uri |-> work.uri]
           /\ hist \in [mine : SUBSET Given, stuck : SUBSET Ids]
           /\ queue \in Seq(Jobs) /\ stalled \in Seq(Jobs) /\ work.job \in Jobs
BY DEF Typed, Shape

\* The worker takes the oldest job.
LEMMA TakePreserved ==
    ASSUME DavInv, Take
    PROVE  DavInv'
<1>0. Typed /\ Told /\ AtWorkInv /\ WebOk /\ queue \in Seq(Jobs)
  BY DEF DavInv, Typed
<1>1. /\ work = NoWork /\ queue # <<>> /\ queue' = Tail(queue) /\ work.pc = "off" /\ stalled' = stalled
      /\ rows' = rows /\ obj' = obj /\ web' = web /\ count' = count /\ hist' = hist
  BY DEF Take, NoWork
<1>2. PICK j : j = Head(queue)
  OBVIOUS
<1>3. queue' \in Seq(Jobs) /\ stalled' \in Seq(Jobs) /\ j \in Jobs /\ Waiting = Waiting' \cup {j}
  <2>1. queue' \in Seq(Jobs) /\ Head(queue) \in Jobs /\ Waiting = Waiting' \cup {Head(queue)}
    BY <1>0, <1>1, QueueTake
  <2> QED BY <1>0, <1>1, <1>2, <2>1 DEF Typed
<1>4. JobOk(j) /\ j.op \in Ops
  BY <1>0, <1>3 DEF Typed, Jobs
<1>5. PICK p : p = IF j.op = "sync" THEN "list"
                   ELSE IF j.op \in {"create", "update", "delete"} THEN "read" ELSE "ingest"
  OBVIOUS
<1>6. work' = [NoWork EXCEPT !.pc = p, !.job = j]
  BY <1>2, <1>5 DEF Take
<1>7. work'.pc = p /\ work'.job = j /\ Shape(work') /\ work'.row = None
  BY <1>6 DEF NoWork, Shape
<1>8. /\ p \in {"list", "read", "ingest"} /\ p # "off" /\ (p = "read" => j.op \in {"create", "update", "delete"})
      /\ (p = "list" => j.op = "sync")
  BY <1>5
<1>9. p = "ingest" => j.op \in {"request", "reply", "cancel"}
  BY <1>4, <1>5 DEF Ops, JobOk
<1>10. JobOk(j)'
  BY <1>1, <1>4 DEF JobOk, Given, Names
<1>11. AtWorkInv'
  <2>1. JobOk(work.job)'
    BY <1>7, <1>10
  <2> QED BY <1>7, <1>8, <1>9, <2>1 DEF AtWorkInv, AtRow, AtWrite, AtPush, AtSync, AtApply, AtJob
<1>12. Told'
  <2>1. \A k \in Waiting' \cup {work'.job} : k.op = "request" =>
          \E i \in Waiting \cup {work.job} : i.op = "request" /\ i.id = k.id
    BY <1>3, <1>7
  <2> QED BY <1>0, <1>1, <2>1, ToldSame DEF AtWorkInv
<1>13. WebOk'
  BY <1>0, <1>1 DEF WebOk, Given
<1>14. \A r \in rows : UPending(r.id) => UPending(r.id)'
  BY <1>1, <1>3, <1>5, <1>7 DEF UPending, QUpdate
<1>15. \A r \in rows : ~ Midway(r)
  BY <1>1 DEF Midway
<1> QED BY <1>0, <1>1, <1>3, <1>7, <1>8, <1>11, <1>12, <1>13, <1>14, <1>15, RowsKept DEF Typed

\* The worker reads the row it is to push or delete.
LEMMA ReadPreserved ==
    ASSUME DavInv, Read
    PROVE  DavInv'
<1>0. Typed /\ Told /\ AtWorkInv /\ WebOk /\ RowInv
  BY DEF DavInv
<1>1. /\ work.pc = "read" /\ rows' = rows /\ obj' = obj /\ queue' = queue /\ stalled' = stalled /\ count' = count /\ hist' = hist
      /\ Given' = Given /\ work.job.op \in {"create", "update", "delete"}
  BY <1>0 DEF Read, Given, AtWorkInv, AtJob
<1>2. CASE RowOf(work.job.id) = {}
  <2>1. WebOk' /\ work' = NoWork /\ \A id : QUpdate(id) => QUpdate(id)'
    BY <1>0, <1>1, <1>2, DoneFacts DEF Read
  <2>2. AtWorkInv' /\ work'.pc = "off" /\ Shape(work') /\ work'.job \in Jobs
    BY <2>1, OffWork
  <2>3. Told'
    BY <1>1, <2>1, OffTold
  <2>4. \A r \in rows : r.id # work.job.id
    BY <1>2 DEF RowOf
  <2>5. \A r \in rows : UPending(r.id) => UPending(r.id)'
    BY <1>1, <2>1, <2>4 DEF UPending
  <2>6. \A r \in rows : ~ Midway(r)
    BY <1>1 DEF Midway
  <2> QED BY <1>0, <1>1, <2>1, <2>2, <2>3, <2>5, <2>6, RowsKept DEF Typed
<1>3. CASE RowOf(work.job.id) # {}
  <2>1. PICK o : o = CHOOSE r \in RowOf(work.job.id) : TRUE
    OBVIOUS
  <2>2. o \in rows /\ o.id = work.job.id
    BY <1>3, <2>1 DEF RowOf
  <2>3. work' = [work EXCEPT !.pc = "http", !.row = o] /\ web' = web
    BY <1>3, <2>1 DEF Read
  <2>4. work'.pc = "http" /\ work'.row = o /\ work'.job = work.job /\ Shape(work')
    BY <1>0, <2>3, WorkFields DEF Shape
  <2>5. RowOk(o)' /\ JobOk(work.job)'
    BY <1>0, <1>1, <2>2, <2>4 DEF Typed, RowOk, Name, Names, Etag, AtWorkInv, AtJob, JobOk
  <2>6. AtRow'
    <3>1. RowOk(work.row)'
      BY <2>4, <2>5
    <3>2. \A r \in rows : r.id = o.id => r = o
      BY <1>0, <2>2 DEF RowInv, Unique
    <3>3. \A r \in rows : r.id # o.id /\ r.id \notin hist.stuck => r.id # o.uri
      BY <1>0, <2>2 DEF RowInv, NoTwin
    <3> QED BY <1>1, <2>2, <2>4, <3>1, <3>2, <3>3 DEF AtRow
  <2>7. AtWorkInv'
    BY <2>4, <2>5, <2>6 DEF AtWorkInv, AtWrite, AtPush, AtSync, AtApply, AtJob
  <2>8. Told' /\ WebOk'
    <3>1. WebOk'
      BY <1>0, <1>1, <2>3 DEF WebOk
    <3> QED BY <1>0, <1>1, <2>4, <3>1, ToldSame DEF AtWorkInv
  <2>9. \A r \in rows : UPending(r.id) => UPending(r.id)'
    BY <1>1, <2>3, <2>4 DEF UPending, QUpdate
  <2>10. \A r \in rows : ~ Midway(r)
    BY <1>1 DEF Midway
  <2> QED BY <1>0, <1>1, <2>4, <2>7, <2>8, <2>9, <2>10, RowsKept DEF Typed
<1> QED BY <1>2, <1>3

\* A cancellation is about whatever row has the UID it names.
LEMMA IngestCancelPreserved ==
    ASSUME DavInv, IngestCancel
    PROVE  DavInv'
<1>0. Typed /\ Told /\ AtWorkInv /\ WebOk /\ RowInv
  BY DEF DavInv
<1>1. /\ work.pc = "ingest" /\ rows' = rows /\ obj' = obj /\ queue' = queue /\ stalled' = stalled /\ count' = count
      /\ Given' = Given /\ work.job.op = "cancel" /\ work.job.v \in Version
  BY <1>0 DEF IngestCancel, Given, Typed, Jobs
<1>2. CASE Done /\ hist' = hist
  <2>1. WebOk' /\ work' = NoWork /\ \A id : QUpdate(id) => QUpdate(id)'
    BY <1>0, <1>1, <1>2, DoneFacts
  <2>2. AtWorkInv' /\ work'.pc = "off" /\ Shape(work') /\ work'.job \in Jobs
    BY <2>1, OffWork
  <2>3. Told'
    BY <1>1, <1>2, <2>1, OffTold
  <2>4. \A r \in rows : (UPending(r.id) => UPending(r.id)') /\ ~ Midway(r)
    BY <1>1, <2>1 DEF UPending, Midway
  <2> QED BY <1>0, <1>1, <1>2, <2>1, <2>2, <2>3, <2>4, RowsKept DEF Typed
<1>3. ASSUME NEW o \in rows, web' = web, hist' = [hist EXCEPT !.mine = @ \ {o.id}],
             work' = [work EXCEPT !.pc = "push", !.row = [Job("delete", o.id) EXCEPT !.v = work.job.v]]
      PROVE  DavInv'
  <2>1. o.id \in Given /\ o.id \in Uris \cup {None} /\ "delete" \in Ops
    BY <1>0, GivenIds, Apart DEF Typed, RowOk, Ops
  <2>2. PICK j : j = [Job("delete", o.id) EXCEPT !.v = work.job.v]
    OBVIOUS
  <2>3. Job("delete", o.id) \in Jobs /\ Job("delete", o.id).op = "delete" /\ Job("delete", o.id).id = o.id
    BY <2>1, JobIn
  <2>4. j \in Jobs /\ j.op = "delete" /\ j.id = o.id
    BY <1>1, <2>2, <2>3 DEF Jobs
  <2>5. work'.pc = "push" /\ work'.row = j /\ work'.job = work.job /\ Shape(work') /\ work.job \in Jobs
    BY <1>0, <1>3, <2>2, WorkFields DEF Shape
  <2>6. /\ hist' \in [mine : SUBSET Given, stuck : SUBSET Ids]
        /\ hist'.mine = hist.mine \ {o.id} /\ hist'.stuck = hist.stuck
    BY <1>0, <1>3 DEF Typed
  <2>7. JobOk(work.row)' /\ JobOk(work.job)'
    <3>1. JobOk(j)'
      BY <1>1, <2>1, <2>4, <2>6 DEF JobOk
    <3>2. JobOk(work.job)
      BY <1>0, <1>1 DEF AtWorkInv, AtJob
    <3>3. JobOk(work.job)'
      BY <1>1, <2>5, <2>6, <3>2 DEF JobOk, Names
    <3> QED BY <2>5, <3>1, <3>3
  <2>8. AtWorkInv'
    BY <1>1, <2>1, <2>4, <2>5, <2>7 DEF AtWorkInv, AtRow, AtWrite, AtPush, AtSync, AtApply, AtJob
  <2>9. Told' /\ WebOk'
    <3>1. WebOk'
      BY <1>0, <1>1, <1>3, <2>6 DEF WebOk
    <3> QED BY <1>0, <1>1, <2>5, <2>6, <3>1, ToldSame DEF AtWorkInv
  <2>10. \A r \in rows : (UPending(r.id) => UPending(r.id)') /\ ~ Midway(r)
    BY <1>1, <1>3 DEF UPending, QUpdate, Midway
  <2>11. queue' \in Seq(Jobs) /\ stalled' \in Seq(Jobs)
    BY <1>0, <1>1 DEF Typed
  <2> QED BY <1>1, <2>5, <2>6, <2>8, <2>9, <2>10, <2>11, RowsKept
<1> QED BY <1>2, <1>3 DEF IngestCancel

\* The job that follows from a mail is queued.
LEMMA IngestPushPreserved ==
    ASSUME DavInv, IngestPush
    PROVE  DavInv'
<1>0. Typed /\ Told /\ AtWorkInv /\ WebOk /\ RowInv
  BY DEF DavInv
<1>1. /\ work.pc = "push" /\ rows' = rows /\ obj' = obj /\ count' = count /\ hist' = hist /\ stalled' = stalled
      /\ Given' = Given /\ Done /\ queue' = Append(queue, work.row)
  BY <1>0 DEF IngestPush, Given
<1>2. PICK j : j = work.row
  OBVIOUS
<1>3. j \in Jobs /\ JobOk(j) /\ JobOk(j)' /\ j.op \in {"create", "update", "delete"}
  BY <1>0, <1>1, <1>2 DEF AtWorkInv, AtPush, JobOk, Names
<1>4. WebOk' /\ work' = NoWork /\ (web' = web \/ web.pc = "wait")
  BY <1>0, <1>1, DoneFacts DEF Done
<1>5. AtWorkInv' /\ work'.pc = "off" /\ Shape(work') /\ work'.job \in Jobs
  BY <1>4, OffWork
<1>6. queue' \in Seq(Jobs) /\ stalled' \in Seq(Jobs) /\ Waiting' = Waiting \cup {j}
  BY <1>0, <1>1, <1>2, <1>3, QueueAppend DEF Typed
<1>7. \A r \in rows : (UPending(r.id) => UPending(r.id)') /\ ~ Midway(r)
  BY <1>1, <1>2, <1>4, <1>6 DEF UPending, QUpdate, Midway
<1>8. Told'
  BY <1>1, <1>3, <1>4, <1>6, OffTold
<1> QED BY <1>0, <1>1, <1>3, <1>4, <1>5, <1>6, <1>7, <1>8, RowsKept DEF Typed

\* The list is taken when no push is half done.
LEMMA SyncListPreserved ==
    ASSUME DavInv, SyncList
    PROVE  DavInv'
<1>0. Typed /\ Told /\ AtWorkInv /\ WebOk /\ RowInv
  BY DEF DavInv
<1>1. /\ work.pc = "list" /\ rows' = rows /\ obj' = obj /\ queue' = queue /\ stalled' = stalled /\ count' = count /\ hist' = hist
      /\ Given' = Given /\ web' = web
      /\ work' = [work EXCEPT !.pc = "look", !.list = obj, !.todo = {u \in Uris : obj[u] # None}]
  BY DEF SyncList, Given
<1>2. /\ work'.pc = "look" /\ work'.list = obj /\ work'.todo = {u \in Uris : obj[u] # None}
      /\ work'.job = work.job /\ Shape(work')
  BY <1>0, <1>1, WorkFields DEF Shape
<1>3. ObjOk(work.list)' /\ JobOk(work.job)'
  BY <1>0, <1>1, <1>2 DEF Typed, ObjOk, Names, Etag, AtWorkInv, AtJob, JobOk
<1>4. \A r \in rows : ~ Midway(r)
  BY <1>0, <1>1 DEF Midway
<1>5. AtSync'
  <2>1. \A r \in rows : r.id \notin hist.stuck =>
          /\ obj[r.id] # None => r.uri = r.id
          /\ r.id \in hist.mine /\ r.uri # None => obj[r.id] # None
    BY <1>0, <1>4 DEF RowInv, ObjOwned, Mine
  <2> QED BY <1>1, <1>2, <1>3, <2>1 DEF AtSync
<1>6. AtWorkInv'
  BY <1>0, <1>1, <1>2, <1>3, <1>5 DEF AtWorkInv, AtRow, AtWrite, AtPush, AtApply, AtJob
<1>7. Told' /\ WebOk'
  <2>1. WebOk'
    BY <1>0, <1>1 DEF WebOk
  <2> QED BY <1>0, <1>1, <1>2, <2>1, ToldSame DEF AtWorkInv
<1>8. \A r \in rows : (UPending(r.id) => UPending(r.id)') /\ (Midway(r) => Midway(r)')
  BY <1>1, <1>4 DEF UPending, QUpdate
<1> QED BY <1>0, <1>1, <1>2, <1>6, <1>7, <1>8, RowsKept DEF Typed

\* An object is compared with its row.
LEMMA SyncLookPreserved ==
    ASSUME DavInv, SyncLook
    PROVE  DavInv'
<1>0. Typed /\ Told /\ AtWorkInv /\ WebOk /\ RowInv
  BY DEF DavInv
<1>1. /\ work.pc = "look" /\ rows' = rows /\ obj' = obj /\ queue' = queue /\ stalled' = stalled /\ count' = count /\ hist' = hist
      /\ Given' = Given /\ web' = web
  BY DEF SyncLook, Given
<1>2. PICK u \in work.todo :
        \/ work' = [work EXCEPT !.todo = work.todo \ {u}]
        \/ work' = [work EXCEPT !.pc = "apply", !.uri = u, !.row = {r.id : r \in {s \in rows : s.uri = u}}]
  BY DEF SyncLook
<1>3. /\ work'.list = work.list /\ work'.job = work.job /\ Shape(work') /\ work'.todo \subseteq work.todo
      /\ \/ work'.pc = "look"
         \/ /\ work'.pc = "apply" /\ work'.uri = u /\ u \in work'.todo
            /\ work'.row = {r.id : r \in {s \in rows : s.uri = u}}
  BY <1>0, <1>1, <1>2, WorkFields DEF Shape
<1>4. ObjOk(work.list)' /\ JobOk(work.job)'
  BY <1>0, <1>1, <1>3 DEF AtWorkInv, AtSync, ObjOk, Names, Etag, AtJob, JobOk
<1>5. AtSync'
  BY <1>0, <1>1, <1>3, <1>4 DEF AtWorkInv, AtSync
<1>6. AtApply'
  <2> SUFFICES ASSUME work'.pc = "apply" PROVE AtApply'
    BY DEF AtApply
  <2>1. work'.uri = u /\ u \in work'.todo /\ work'.row = {r.id : r \in {s \in rows : s.uri = u}}
    BY <1>3
  <2>2. \A r \in rows : r.id \in Given /\ \A s \in rows : r.id = s.id => r = s
    BY <1>0 DEF Typed, RowOk, RowInv, Unique
  <2>3. work'.row \subseteq Given
    BY <2>1, <2>2
  <2>4. \A r \in rows : r.id \in work'.row <=> r.uri = u
    BY <2>1, <2>2
  <2> QED BY <1>1, <2>1, <2>3, <2>4 DEF AtApply
<1>7. AtWorkInv'
  BY <1>0, <1>1, <1>3, <1>4, <1>5, <1>6 DEF AtWorkInv, AtRow, AtWrite, AtPush, AtJob
<1>8. Told' /\ WebOk'
  <2>1. WebOk'
    BY <1>0, <1>1 DEF WebOk
  <2> QED BY <1>0, <1>1, <1>3, <2>1, ToldSame DEF AtWorkInv
<1>9. \A r \in rows : (UPending(r.id) => UPending(r.id)') /\ (Midway(r) => Midway(r)')
  BY <1>1 DEF UPending, QUpdate, Midway
<1> QED BY <1>0, <1>1, <1>3, <1>7, <1>8, <1>9, RowsKept DEF Typed

\* An object without an event is passed over.
LEMMA SyncSkipPreserved ==
    ASSUME DavInv, SyncSkip
    PROVE  DavInv'
<1>0. Typed /\ Told /\ AtWorkInv /\ WebOk
  BY DEF DavInv
<1>1. /\ work.pc = "apply" /\ rows' = rows /\ obj' = obj /\ queue' = queue /\ stalled' = stalled /\ count' = count /\ hist' = hist
      /\ Given' = Given /\ web' = web
      /\ work' = [work EXCEPT !.pc = "look", !.todo = work.todo \ {work.uri}, !.uri = None, !.row = None]
  BY DEF SyncSkip, Given
<1>2. /\ work'.pc = "look" /\ work'.list = work.list /\ work'.job = work.job /\ Shape(work') /\ work'.todo \subseteq work.todo
  BY <1>0, <1>1, WorkFields DEF Shape
<1>3. ObjOk(work.list)' /\ JobOk(work.job)'
  BY <1>0, <1>1, <1>2 DEF AtWorkInv, AtSync, ObjOk, Names, Etag, AtJob, JobOk
<1>4. AtSync'
  BY <1>0, <1>1, <1>2, <1>3 DEF AtWorkInv, AtSync
<1>5. AtWorkInv'
  BY <1>0, <1>1, <1>2, <1>3, <1>4 DEF AtWorkInv, AtRow, AtWrite, AtPush, AtApply, AtJob
<1>6. WebOk'
  BY <1>0, <1>1 DEF WebOk
<1>7. Told'
  BY <1>0, <1>1, <1>2, ToldSame DEF AtWorkInv
<1>8. \A r \in rows : (UPending(r.id) => UPending(r.id)') /\ ~ Midway(r)
  BY <1>1 DEF UPending, QUpdate, Midway
<1> QED BY <1>0, <1>1, <1>2, <1>5, <1>6, <1>7, <1>8, RowsKept DEF Typed

\* A sync ends at an object that cannot be read.
LEMMA SyncAbortsPreserved ==
    ASSUME DavInv, SyncAborts
    PROVE  DavInv'
<1>0. Typed /\ Told /\ AtWorkInv /\ WebOk
  BY DEF DavInv
<1>1. /\ work.pc = "apply" /\ rows' = rows /\ obj' = obj /\ queue' = queue /\ stalled' = stalled /\ count' = count /\ hist' = hist
      /\ Given' = Given /\ Done
  BY DEF SyncAborts, Given
<1>2. WebOk' /\ work' = NoWork /\ \A id : QUpdate(id) => QUpdate(id)'
  BY <1>0, <1>1, DoneFacts
<1>3. AtWorkInv' /\ work'.pc = "off" /\ Shape(work') /\ work'.job \in Jobs
  BY <1>2, OffWork
<1>4. Told'
  BY <1>1, <1>2, OffTold
<1>5. \A r \in rows : (UPending(r.id) => UPending(r.id)') /\ ~ Midway(r)
  BY <1>1, <1>2 DEF UPending, Midway
<1> QED BY <1>0, <1>1, <1>2, <1>3, <1>4, <1>5, RowsKept DEF Typed

-----------------------------------------------------------------------------
(* The worker: steps that change objects.                                   *)

\* The target of a push.
LEMMA TargetFacts ==
    ASSUME DavInv, work.pc \in {"http", "write"}
    PROVE  /\ Target \in Uris /\ Target \in Names /\ Target # None
           /\ work.row.id = work.job.id /\ work.row \in Rows /\ work.job.id \in Given
           /\ Target = work.job.id \/ (Target = work.row.uri /\ work.row.uri # None /\ work.job.op # "create")
           /\ work.row.uri = None => Target = work.job.id
           /\ work.job.op = "create" => Target = work.job.id
           /\ work.row.uri # None /\ work.job.op # "create" => Target = work.row.uri
<1>1. AtRow /\ RowOk(work.row) /\ work.row.id = work.job.id /\ Given \subseteq Ids
  BY GivenIds DEF DavInv, AtWorkInv, AtRow
<1>2. /\ work.row \in Rows /\ work.row.id \in Given /\ (work.row.uri = None \/ work.row.uri \in Names)
      /\ work.row.uri \in Uris \cup {None} /\ work.row.id \in Uris
  BY <1>1, Apart DEF RowOk, Name, Rows
<1> QED BY <1>1, <1>2, Apart DEF Target, Names

\* A push puts the row's object on the server under a new etag.
LEMMA PushPreserved ==
    ASSUME DavInv, work.pc = "http", work.job.op \in {"create", "update"}, Put(Target),
           rows' = rows, queue' = queue, stalled' = stalled, web' = web, hist' = hist
    PROVE  DavInv'
<1>0. Typed /\ Told /\ AtWorkInv /\ WebOk /\ RowInv /\ AtRow
  BY DEF DavInv, AtWorkInv
<1>1. PICK u : u = Target
  OBVIOUS
<1>2. /\ u \in Uris /\ u \in Names /\ u # None
      /\ work.row.id = work.job.id /\ work.row \in Rows /\ work.job.id \in Given
      /\ u = work.job.id \/ (u = work.row.uri /\ work.row.uri # None)
      /\ work.row.uri = None => u = work.job.id
      /\ work.job.op = "create" => u = work.job.id
      /\ work.row.uri # None /\ work.job.op # "create" => u = work.row.uri
  BY <1>1, TargetFacts
<1>3. PICK o \in Objects : /\ o = Build(work.row.v, count.etag + 1) /\ o.etag = count.etag + 1
                          /\ obj' = [obj EXCEPT ![u] = o]
  <2>1. work.row.v \in Contents /\ count.etag + 1 \in Nat
    BY <1>0, <1>2 DEF Rows, Typed
  <2> QED BY <1>1, <2>1, BuildFacts DEF Put
<1>4. /\ count' \in [id : 0..MaxId, v : Version, etag : Nat]
      /\ count'.id = count.id /\ count'.etag = count.etag + 1
  BY <1>0, Apart DEF Typed, Put
<1>5. /\ obj' \in [Uris -> Objects \cup {None}] /\ ObjOk(obj)'
      /\ obj'[u] # None /\ obj'[u] = o
      /\ \A w \in Uris : w # u => obj'[w] = obj[w]
      /\ \A e : Etag(e) => e # count.etag + 1
      /\ Grows /\ Given' = Given
      /\ \A r : RowOk(r) => RowOk(r)'
      /\ \A f : ObjOk(f) => ObjOk(f)'
      /\ \A j : JobOk(j) => JobOk(j)'
      /\ \A x : Etag(x) => Etag(x)'
      /\ (\A e : e = count.etag + 1 => Etag(e)')
  BY <1>0, <1>1, <1>2, <1>3, <1>4, PutFacts
<1>6. /\ work'.pc = "write" /\ work'.etag = count.etag + 1 /\ work'.row = work.row
      /\ work'.job = work.job /\ Shape(work') /\ Target' = u
  BY <1>0, <1>1, WorkFields DEF Shape, Target, Put
<1>7. Typed'
  <2>1. /\ queue' \in Seq(Jobs) /\ stalled' \in Seq(Jobs) /\ \A j \in Waiting' : JobOk(j)'
        /\ \A r \in rows' : RowOk(r)'
    BY <1>0, <1>5 DEF Typed
  <2> QED BY <1>0, <1>4, <1>5, <1>6, <2>1 DEF Typed
<1>8. WebOk' /\ Told'
  <2>1. WebOk'
    BY <1>0, <1>5 DEF WebOk
  <2> QED BY <1>0, <1>6, <2>1, ToldSame DEF AtWorkInv
<1>9. \A r \in rows : /\ r.id \in Ids /\ r.id \in Uris /\ (r.uri # None => r.uri \in Uris) /\ Etag(r.etag)
                      /\ r.id = work.job.id => r.uri = work.row.uri
                      /\ r.id # work.job.id /\ r.id \notin hist.stuck => r.id # work.row.uri
  BY <1>0, <1>2, Apart DEF Typed, RowOk, Rows, AtRow
<1>10. \A id : QUpdate(id) => QUpdate(id)'
  BY DEF QUpdate
<1>11. ObjOwned'
  <2> SUFFICES ASSUME NEW r \in rows, r.id \notin hist.stuck, obj'[r.id] # None
               PROVE  r.uri = r.id \/ Midway(r)'
    BY DEF ObjOwned
  <2>1. CASE r.id = u /\ r.id = work.job.id
    BY <1>6, <2>1 DEF Midway
  <2>2. CASE r.id = u /\ r.id # work.job.id
    BY <1>2, <1>9, <2>2
  <2>3. CASE r.id # u
    <3>1. r.uri = r.id \/ Midway(r)
      BY <1>0, <1>5, <1>9, <2>3 DEF RowInv, ObjOwned
    <3>2. ~ Midway(r)
      BY DEF Midway
    <3> QED BY <3>1, <3>2
  <2> QED BY <2>1, <2>2, <2>3
<1>12. Mine'
  BY <1>0, <1>5, <1>9 DEF RowInv, Mine
<1>13. EtagU'
  <2> SUFFICES ASSUME NEW r \in rows, r.uri # None, r.id \notin hist.stuck,
                      obj'[r.uri] # None, r.etag = obj'[r.uri].etag
               PROVE  Same(r.v, obj'[r.uri]) \/ UPending(r.id)'
    BY DEF EtagU
  <2>1. r.uri # u
    BY <1>3, <1>5, <1>9
  <2>2. Same(r.v, obj'[r.uri]) \/ UPending(r.id)
    BY <1>0, <1>5, <1>9, <2>1 DEF RowInv, EtagU
  <2>3. ASSUME UPending(r.id) PROVE UPending(r.id)'
    <3>1. CASE work.job.op = "update" /\ work.job.id = r.id
      BY <1>2, <1>9, <2>1, <3>1
    <3>2. CASE QUpdate(r.id)
      BY <1>10, <3>2 DEF UPending
    <3> QED BY <2>3, <3>1, <3>2 DEF UPending
  <2> QED BY <2>2, <2>3
<1>14. Unique' /\ NoTwin' /\ UserEventKept'
  BY <1>0 DEF RowInv, Unique, NoTwin, UserEventKept, RowOf
<1>15. AtRow'
  <2>1. RowOk(work.row)'
    BY <1>0, <1>5, <1>6 DEF AtRow
  <2> QED BY <1>0, <1>6, <1>10, <2>1 DEF AtRow
<1>16. AtWrite'
  <2>1. Etag(work.etag)'
    BY <1>5, <1>6
  <2> QED BY <1>3, <1>5, <1>6, <2>1 DEF AtWrite
<1>17. AtPush' /\ AtSync' /\ AtApply' /\ AtJob'
  <2>1. JobOk(work.job)'
    BY <1>0, <1>5, <1>6 DEF AtWorkInv, AtJob
  <2> QED BY <1>6, <2>1 DEF AtPush, AtSync, AtApply, AtJob
<1> QED BY <1>7, <1>8, <1>11, <1>12, <1>13, <1>14, <1>15, <1>16, <1>17 DEF DavInv, AtWorkInv, RowInv

\* PUT with If-None-Match.
LEMMA HttpCreatePreserved ==
    ASSUME DavInv, HttpCreate
    PROVE  DavInv'
<1>1. work.pc = "http" /\ work.job.op = "create" /\ rows' = rows /\ queue' = queue /\ stalled' = stalled
  BY DEF HttpCreate
<1>2. CASE obj[Target] = None
  BY <1>1, <1>2, PushPreserved DEF HttpCreate
<1>3. CASE obj[Target] # None
  BY <1>1, <1>3, FailedPreserved DEF HttpCreate
<1> QED BY <1>2, <1>3

\* PUT with If-Match, or a refusal that is only logged.
LEMMA HttpUpdatePreserved ==
    ASSUME DavInv, HttpUpdate
    PROVE  DavInv'
<1>0. Typed /\ Told /\ AtWorkInv /\ WebOk /\ RowInv /\ AtRow
  BY DEF DavInv, AtWorkInv
<1>1. work.pc = "http" /\ work.job.op = "update" /\ rows' = rows /\ queue' = queue /\ stalled' = stalled /\ web' = web
  BY DEF HttpUpdate
<1>2. CASE Put(Target) /\ hist' = hist
  BY <1>1, <1>2, PushPreserved
<1>3. CASE /\ hist' = Stuck({work.job.id})
           /\ work' = [work EXCEPT !.pc = "write", !.etag = work.row.etag]
           /\ obj' = obj /\ count' = count
  <2>1. work.row.id = work.job.id /\ work.row \in Rows /\ work.job.id \in Ids /\ Etag(work.row.etag)
    BY <1>0, <1>1, TargetFacts, GivenIds, Apart DEF AtRow, RowOk
  <2>2. /\ hist' \in [mine : SUBSET Given, stuck : SUBSET Ids]
        /\ hist'.mine = hist.mine /\ hist'.stuck = hist.stuck \cup {work.job.id}
    BY <1>0, <1>3, <2>1 DEF Stuck, Typed
  <2>3. /\ work'.pc = "write" /\ work'.etag = work.row.etag /\ work'.row = work.row
        /\ work'.job = work.job /\ Shape(work') /\ Target' = Target
    BY <1>0, <1>3, WorkFields DEF Shape, Target
  <2>4. RowOk(work.row)' /\ Etag(work.etag)' /\ JobOk(work.job)'
    BY <1>0, <1>1, <1>3, <2>1, <2>2, <2>3 DEF AtRow, RowOk, Name, Names, Given, Etag, AtWorkInv, AtJob, JobOk
  <2>5. AtRow'
    <3>1. \A id : QUpdate(id) => QUpdate(id)'
      BY <1>1 DEF QUpdate
    <3> QED BY <1>0, <1>1, <2>2, <2>3, <2>4, <3>1 DEF AtRow
  <2>6. AtWorkInv'
    BY <1>1, <2>2, <2>3, <2>4, <2>5 DEF AtWorkInv, AtWrite, AtPush, AtSync, AtApply, AtJob
  <2>7. Told' /\ WebOk'
    <3>1. WebOk'
      BY <1>0, <1>1, <1>3, <2>2 DEF WebOk, Given
    <3> QED BY <1>0, <1>1, <2>2, <2>3, <3>1, ToldSame DEF AtWorkInv
  <2>8. \A r \in rows : r.id \notin hist'.stuck /\ UPending(r.id) => UPending(r.id)'
    BY <1>1, <2>2 DEF UPending, QUpdate
  <2>9. \A r \in rows : r.id \notin hist'.stuck /\ Midway(r) => Midway(r)'
    BY <1>1, <2>2 DEF Midway
  <2> QED BY <1>0, <1>1, <1>3, <2>2, <2>3, <2>6, <2>7, <2>8, <2>9, RowsKept DEF Typed
<1> QED BY <1>2, <1>3 DEF HttpUpdate

\* Objects and rows that the user gave up go.
LEMMA RemovePreserved ==
    ASSUME DavInv, WebOk', AtWorkInv', Told', Shape(work'), work'.pc = "off" => work' = NoWork, work'.job \in Jobs,
           queue' = queue, stalled' = stalled, count' = count, hist' = hist,
           rows' \subseteq rows, obj' \in [Uris -> Objects \cup {None}],
           \A u \in Uris : obj'[u] = obj[u] \/ obj'[u] = None,
           \A r \in rows : r.id \in hist.mine \ hist.stuck => r \in rows' /\ (r.uri # None => obj'[r.id] = obj[r.id]),
           \A r \in rows' : UPending(r.id) => UPending(r.id)',
           \A r \in rows' : Midway(r) => Midway(r)' \/ r.uri = r.id
    PROVE  DavInv'
<1>0. Typed /\ RowInv
  BY DEF DavInv
<1>2. /\ \A r : RowOk(r) => RowOk(r)'
      /\ \A j : JobOk(j) => JobOk(j)'
      /\ Given' = Given /\ Names' = Names
  BY DEF RowOk, JobOk, Etag, Name, Names, Given
<1>3. \A r \in rows : r.id \in Uris /\ (r.uri # None => r.uri \in Uris)
  BY <1>0, Apart DEF Typed, RowOk, Rows
<1>4. ObjOk(obj)'
  BY <1>0, <1>2 DEF Typed, ObjOk, Etag
<1>5. Typed'
  <2>1. /\ queue' \in Seq(Jobs) /\ stalled' \in Seq(Jobs) /\ \A j \in Waiting' : JobOk(j)'
        /\ \A r \in rows' : RowOk(r)'
    BY <1>0, <1>2 DEF Typed
  <2> QED BY <1>0, <1>2, <1>4, <2>1 DEF Typed
<1>7. Unique' /\ NoTwin' /\ UserEventKept'
  BY <1>0 DEF RowInv, Unique, NoTwin, UserEventKept, RowOf
<1>8. ObjOwned'
  BY <1>0, <1>3 DEF RowInv, ObjOwned
<1>9. Mine'
  BY <1>0, <1>3 DEF RowInv, Mine
<1>10. EtagU'
  BY <1>0, <1>3 DEF RowInv, EtagU
<1> QED BY <1>5, <1>7, <1>8, <1>9, <1>10 DEF DavInv, RowInv

\* The object goes; the job of a cancellation goes on.
LEMMA HttpDeletePreserved ==
    ASSUME DavInv, HttpDelete
    PROVE  DavInv'
<1>0. Typed /\ Told /\ AtWorkInv /\ WebOk /\ RowInv /\ AtRow
  BY DEF DavInv, AtWorkInv
<1>1. /\ work.pc = "http" /\ work.job.op = "delete" /\ queue' = queue /\ stalled' = stalled /\ count' = count /\ hist' = hist
      /\ rows' = rows /\ Given' = Given /\ work.job.id \notin hist.mine
  BY <1>0 DEF HttpDelete, Given, AtWorkInv, AtJob, JobOk
<1>2. PICK u \in Uris : u = Target
  BY <1>1, TargetFacts
<1>3. \A r \in rows : r.id \in hist.mine \ hist.stuck => r.id # u
  BY <1>0, <1>1, <1>2, TargetFacts DEF AtRow
<1>4. /\ obj' \in [Uris -> Objects \cup {None}]
      /\ \A w \in Uris : obj'[w] = obj[w] \/ (w = u /\ obj'[w] = None)
  <2>1. obj \in [Uris -> Objects \cup {None}]
    BY <1>0 DEF Typed, ObjOk
  <2>2. obj' = obj \/ obj' = [obj EXCEPT ![u] = None]
    BY <1>2 DEF HttpDelete
  <2> QED BY <2>1, <2>2
<1>5. \A r \in rows : r.id \in Uris
  BY <1>0, Apart DEF Typed, RowOk, Rows
<1>6. \A r \in rows : ~ Midway(r)
  BY <1>1 DEF Midway
<1>7. CASE Done
  <2>1. WebOk' /\ work' = NoWork /\ \A id : QUpdate(id) => QUpdate(id)'
    BY <1>0, <1>1, <1>7, DoneFacts
  <2>2. AtWorkInv' /\ work'.pc = "off" /\ Shape(work') /\ work'.job \in Jobs
    BY <2>1, OffWork
  <2>3. Told'
    BY <1>1, <2>1, OffTold
  <2>4. \A r \in rows : UPending(r.id) => UPending(r.id)'
    BY <1>1, <2>1 DEF UPending
  <2> QED BY <1>1, <1>3, <1>4, <1>5, <1>6, <2>1, <2>2, <2>3, <2>4, RemovePreserved
<1>8. CASE work' = [work EXCEPT !.pc = "erase"] /\ web' = web
  <2>1. work'.pc = "erase" /\ work'.job = work.job /\ Shape(work') /\ work.job \in Jobs
    BY <1>0, <1>8, WorkFields DEF Shape
  <2>2. JobOk(work.job)'
    BY <1>0, <1>1, <2>1 DEF AtWorkInv, AtJob, JobOk, Names
  <2>3. AtWorkInv'
    BY <1>1, <2>1, <2>2 DEF AtWorkInv, AtRow, AtWrite, AtPush, AtSync, AtApply, AtJob
  <2>4. WebOk'
    BY <1>0, <1>1, <1>8 DEF WebOk
  <2>5. Told'
    BY <1>0, <1>1, <2>1, ToldSame DEF AtWorkInv
  <2>6. \A r \in rows : UPending(r.id) => UPending(r.id)'
    BY <1>1, <1>8 DEF UPending, QUpdate
  <2> QED BY <1>1, <1>3, <1>4, <1>5, <1>6, <2>1, <2>3, <2>4, <2>5, <2>6, RemovePreserved
<1> QED BY <1>7, <1>8 DEF HttpDelete

\* The row of a cancelled event goes.
LEMMA EraseRowPreserved ==
    ASSUME DavInv, EraseRow
    PROVE  DavInv'
<1>0. Typed /\ AtWorkInv /\ WebOk
  BY DEF DavInv
<1>1. /\ work.pc = "erase" /\ work.job.op = "delete" /\ Done /\ queue' = queue /\ stalled' = stalled
      /\ count' = count /\ hist' = hist /\ obj' = obj /\ rows' = rows \ RowOf(work.job.id)
      /\ Given' = Given /\ work.job.id \notin hist.mine
  BY <1>0 DEF EraseRow, Given, AtWorkInv, AtJob, JobOk
<1>2. WebOk' /\ work' = NoWork /\ \A id : QUpdate(id) => QUpdate(id)'
  BY <1>0, <1>1, DoneFacts
<1>3. AtWorkInv' /\ work'.pc = "off" /\ Shape(work') /\ work'.job \in Jobs
  BY <1>2, OffWork
<1>4. rows' \subseteq rows /\ \A r \in rows : r.id \in hist.mine => r \in rows'
  BY <1>1 DEF RowOf
<1>5. Told'
  BY <1>1, <1>2, <1>4, OffTold
<1>6. \A r \in rows : (UPending(r.id) => UPending(r.id)') /\ ~ Midway(r)
  BY <1>1, <1>2 DEF UPending, Midway
<1>7. obj \in [Uris -> Objects \cup {None}]
  BY <1>0 DEF Typed, ObjOk
<1> QED BY <1>1, <1>2, <1>3, <1>4, <1>5, <1>6, <1>7, RemovePreserved

\* Rows without an object in the list go.
LEMMA SyncPrunePreserved ==
    ASSUME DavInv, SyncPrune
    PROVE  DavInv'
<1>0. Typed /\ Told /\ AtWorkInv /\ WebOk /\ RowInv
  BY DEF DavInv
<1>1. /\ work.pc = "look" /\ Done /\ queue' = queue /\ stalled' = stalled /\ count' = count /\ hist' = hist /\ obj' = obj
      /\ Given' = Given /\ rows' = {r \in rows : r.uri = None \/ work.list[r.uri] # None}
  BY DEF SyncPrune, Given
<1>2. WebOk' /\ work' = NoWork /\ \A id : QUpdate(id) => QUpdate(id)'
  BY <1>0, <1>1, DoneFacts
<1>3. AtWorkInv' /\ work'.pc = "off" /\ Shape(work') /\ work'.job \in Jobs
  BY <1>2, OffWork
<1>4. obj \in [Uris -> Objects \cup {None}]
  BY <1>0 DEF Typed, ObjOk
<1>5. rows' \subseteq rows /\ \A r \in rows : r.id \in hist.mine \ hist.stuck => r \in rows'
  BY <1>0, <1>1 DEF RowInv, Mine, AtWorkInv, AtSync
<1>6. \A r \in rows : (UPending(r.id) => UPending(r.id)') /\ ~ Midway(r)
  BY <1>1, <1>2 DEF UPending, Midway
<1>7. Told'
  BY <1>1, <1>2, <1>5, OffTold
<1> QED BY <1>1, <1>2, <1>3, <1>4, <1>5, <1>6, <1>7, RemovePreserved

-----------------------------------------------------------------------------
(* The worker: steps that change rows.                                      *)

\* Rows get new contents or etags; each is to be pushed, or is what the
\* server has.
LEMMA RowsEdited ==
    ASSUME DavInv, work.pc \in {"ingest", "apply"},
           obj' = obj, count' = count, queue' = queue, stalled' = stalled, hist' = hist, web' = web,
           \A o \in rows : \E r \in rows' : r.id = o.id,
           \A r, s \in rows' : r.id = s.id => r = s,
           \A r \in rows' : RowOk(r) /\ \E o \in rows :
               /\ r.id = o.id /\ r.uri = o.uri /\ r.uid = o.uid
               /\ \/ r = o
                  \/ UPending(r.id)'
                  \/ r.uri # None /\ obj[r.uri] # None /\ r.etag = obj[r.uri].etag => Same(r.v, obj[r.uri]),
           Shape(work'), work'.pc # "off", work'.job = work.job, AtWorkInv'
    PROVE  DavInv'
<1>0. Typed /\ Told /\ WebOk /\ AtWorkInv /\ RowInv
  BY DEF DavInv
<1>1. \A r \in rows : ~ Midway(r)
  BY <1>0 DEF Midway
<1>2. \A r \in rows : UPending(r.id) => UPending(r.id)'
  BY DEF UPending, QUpdate
<1>3. /\ \A r : RowOk(r) => RowOk(r)'
      /\ \A j : JobOk(j) => JobOk(j)'
      /\ \A f : ObjOk(f) => ObjOk(f)'
      /\ Given' = Given
  BY DEF RowOk, JobOk, ObjOk, Etag, Name, Names, Given
<1>4. Typed'
  <2>1. /\ queue' \in Seq(Jobs) /\ stalled' \in Seq(Jobs) /\ \A j \in Waiting' : JobOk(j)'
        /\ \A r \in rows' : RowOk(r)'
        /\ ObjOk(obj)'
    BY <1>0, <1>3 DEF Typed
  <2> QED BY <1>0, <1>3, <2>1 DEF Typed
<1>5. WebOk' /\ Told'
  <2>1. WebOk'
    BY <1>0, <1>3 DEF WebOk
  <2> QED BY <1>0, <2>1, ToldKept DEF AtWorkInv, AtJob
<1>6. Unique'
  BY DEF Unique
<1>7. ObjOwned'
  BY <1>0, <1>1 DEF RowInv, ObjOwned
<1>8. Mine'
  BY <1>0 DEF RowInv, Mine
<1>9. EtagU'
  BY <1>0, <1>2 DEF RowInv, EtagU
<1>10. NoTwin'
  <2> SUFFICES ASSUME NEW r \in rows', NEW s \in rows', r # s, r.id \notin hist.stuck
               PROVE  r.id # s.uri /\ (r.uri # None => r.uri # s.uri)
    BY DEF NoTwin
  <2>1. PICK o \in rows : r.id = o.id /\ r.uri = o.uri
    OBVIOUS
  <2>2. PICK p \in rows : s.id = p.id /\ s.uri = p.uri
    OBVIOUS
  <2>3. r.id # s.id
    OBVIOUS
  <2> QED BY <1>0, <2>1, <2>2, <2>3 DEF RowInv, NoTwin
<1>11. UserEventKept'
  BY <1>0 DEF RowInv, UserEventKept, RowOf
<1> QED BY <1>4, <1>5, <1>6, <1>7, <1>8, <1>9, <1>10, <1>11 DEF DavInv, RowInv

\* A mail changes a row and has it pushed.
LEMMA MailChanges ==
    ASSUME DavInv, work.pc = "ingest", NEW o \in rows, NEW c \in Contents,
           rows' = (rows \ {o}) \cup {[o EXCEPT !.v = c]},
           work' = [work EXCEPT !.pc = "push", !.row = Job("update", o.id)],
           obj' = obj, count' = count, queue' = queue, stalled' = stalled, hist' = hist, web' = web
    PROVE  DavInv'
<1>0. Typed /\ AtWorkInv /\ RowInv /\ JobOk(work.job)
  BY DEF DavInv, AtWorkInv, AtJob
<1>1. PICK e : e = [o EXCEPT !.v = c]
  OBVIOUS
<1>2. RowOk(e) /\ e.id = o.id /\ e.uri = o.uri /\ e.uid = o.uid
  BY <1>0, <1>1 DEF Typed, RowOk, Rows
<1>3. o.id \in Given /\ o.id \in Uris \cup {None} /\ "update" \in Ops /\ Given' = Given
  BY <1>0, GivenIds, Apart DEF Typed, RowOk, Ops, Given
<1>4. PICK j : j = Job("update", o.id)
  OBVIOUS
<1>5. j \in Jobs /\ j.op = "update" /\ j.id = o.id
  BY <1>3, <1>4, JobIn
<1>6. work'.pc = "push" /\ work'.row = j /\ work'.job = work.job /\ Shape(work')
  BY <1>0, <1>4, WorkFields DEF Shape
<1>7. JobOk(work.row)' /\ JobOk(work.job)'
  BY <1>0, <1>3, <1>5, <1>6 DEF JobOk, Names
<1>8. AtWorkInv'
  BY <1>3, <1>5, <1>6, <1>7 DEF AtWorkInv, AtRow, AtWrite, AtPush, AtSync, AtApply, AtJob
<1>9. UPending(e.id)'
  BY <1>2, <1>5, <1>6 DEF UPending
<1>10. rows' = (rows \ {o}) \cup {e}
  BY <1>1
<1>11. /\ \A q \in rows : \E r \in rows' : r.id = q.id
       /\ \A r, s \in rows' : r.id = s.id => r = s
  BY <1>0, <1>2, <1>10 DEF RowInv, Unique
<1>12. \A r \in rows' : RowOk(r) /\ \E q \in rows :
         r.id = q.id /\ r.uri = q.uri /\ r.uid = q.uid /\ (r = q \/ UPending(r.id)')
  BY <1>0, <1>2, <1>9, <1>10 DEF Typed
<1> QED BY <1>6, <1>8, <1>11, <1>12, RowsEdited

\* A reply changes the row and has it pushed.
LEMMA IngestReplyPreserved ==
    ASSUME DavInv, IngestReply
    PROVE  DavInv'
<1>0. Typed /\ Told /\ AtWorkInv /\ WebOk /\ RowInv
  BY DEF DavInv
<1>1. /\ work.pc = "ingest" /\ obj' = obj /\ queue' = queue /\ stalled' = stalled /\ count' = count /\ hist' = hist
      /\ Given' = Given /\ work.job.op = "reply" /\ work.job \in Jobs
  BY <1>0 DEF IngestReply, Given, Typed
<1>2. CASE Done /\ rows' = rows
  <2>1. WebOk' /\ work' = NoWork /\ \A id : QUpdate(id) => QUpdate(id)'
    BY <1>0, <1>1, <1>2, DoneFacts
  <2>2. AtWorkInv' /\ work'.pc = "off" /\ Shape(work') /\ work'.job \in Jobs
    BY <2>1, OffWork
  <2>3. Told'
    BY <1>1, <1>2, <2>1, OffTold
  <2>4. \A r \in rows : (UPending(r.id) => UPending(r.id)') /\ ~ Midway(r)
    BY <1>1, <2>1 DEF UPending, Midway
  <2> QED BY <1>0, <1>1, <1>2, <2>1, <2>2, <2>3, <2>4, RowsKept DEF Typed
<1>3. ASSUME NEW o \in rows, rows' = (rows \ {o}) \cup {[o EXCEPT !.v.rule = work.job.v]},
             work' = [work EXCEPT !.pc = "push", !.row = Job("update", o.id)], web' = web
      PROVE  DavInv'
  <2>1. PICK c : c = [o.v EXCEPT !.rule = work.job.v]
    OBVIOUS
  <2>2. c \in Contents
    BY <1>0, <1>1, <2>1 DEF Typed, RowOk, Rows, Contents, Jobs
  <2>3. rows' = (rows \ {o}) \cup {[o EXCEPT !.v = c]}
    BY <1>3, <2>1
  <2> QED BY <1>1, <1>3, <2>2, <2>3, MailChanges
<1> QED BY <1>2, <1>3 DEF IngestReply

\* An invitation makes a row, or changes the one it names.
LEMMA IngestRequestPreserved ==
    ASSUME DavInv, IngestRequest
    PROVE  DavInv'
<1>0. Typed /\ Told /\ AtWorkInv /\ WebOk /\ RowInv
  BY DEF DavInv
<1>1. /\ work.pc = "ingest" /\ obj' = obj /\ queue' = queue /\ stalled' = stalled /\ hist' = hist /\ web' = web
      /\ work.job.op = "request" /\ JobOk(work.job) /\ work.job \in Jobs
  BY <1>0 DEF IngestRequest, AtWorkInv, AtJob, JobOk
<1>2. PICK x, v : x = work.job.id /\ v = work.job.v
  OBVIOUS
<1>3. x \in Uris /\ x \in Names /\ x # None /\ v \in Version
  BY <1>0, <1>1, <1>2, GivenIds, Apart DEF JobOk, Jobs, Names
<1>4. CASE Named(x) = {}
  <2>1. PICK n, c : n = count.id + 1 /\ c = [Blank EXCEPT !.text = v, !.rule = v, !.raw = v]
    OBVIOUS
  <2>2. PICK e : e = [id |-> n, uri |-> x, uid |-> x, v |-> c, etag |-> None]
    OBVIOUS
  <2>3. PICK j : j = Job("create", n)
    OBVIOUS
  <2>4. count.id < MaxId /\ n \in Ids /\ n \in 0..MaxId /\ n \in Uris \cup {None} /\ "create" \in Ops
    BY <1>0, <1>2, <1>4, <2>1, Apart DEF IngestRequest, Typed, Ids, Ops
  <2>5. e \in Rows /\ e.id = n /\ e.uri = x /\ e.uid = x /\ e.etag = None /\ Etag(e.etag) /\ Name(x)
    <3>1. c \in Contents
      BY <1>3, <2>1, BlankContent DEF Contents
    <3> QED BY <1>3, <2>2, <2>4, <3>1 DEF Rows, Etag, Name
  <2>6. /\ rows' = rows \cup {e} /\ work' = [work EXCEPT !.pc = "push", !.row = j]
        /\ count' = [count EXCEPT !.id = n]
    BY <1>2, <1>4, <2>1, <2>2, <2>3 DEF IngestRequest
  <2>7. j \in Jobs /\ j.op = "create" /\ j.id = n
    BY <2>3, <2>4, JobIn
  <2>8. work'.pc = "push" /\ work'.row = j /\ work'.job = work.job /\ Shape(work')
    BY <1>0, <2>6, WorkFields DEF Shape
  <2>9. count' \in [id : 0..MaxId, v : Version, etag : Nat] /\ count'.id = n /\ count'.etag = count.etag
    BY <1>0, <2>4, <2>6 DEF Typed
  <2>10. hist' \in [mine : SUBSET Ids, stuck : SUBSET Ids] /\ hist.mine \subseteq Given
    BY <1>0, <1>1, GivenIds DEF Typed
  <2>11. n \notin hist'.mine /\ n \notin Given
    BY <1>0, <1>1, <2>1, <2>10 DEF Given, Typed
  <2>12. \A s \in rows : s.uri # x /\ (s.id \notin hist.stuck => s.id # x)
    <3>1. Announced(x)
      BY <1>0, <1>1, <1>2 DEF Told
    <3> QED BY <1>4, <3>1 DEF Announced, Named
  <2>13. obj[x] # None => None # obj[x].etag
    BY <1>0, <1>3, Apart DEF Typed, ObjOk, Objects
  <2>14. \A r \in rows : ~ Midway(r)
    BY <1>1 DEF Midway
  <2>15. \A r \in rows : UPending(r.id) => UPending(r.id)'
    BY <1>1 DEF UPending, QUpdate
  <2>16. /\ RowInv' /\ Grows /\ n \in Given' /\ n \notin Names
         /\ hist' \in [mine : SUBSET Given', stuck : SUBSET Ids]
         /\ \A r \in rows' : RowOk(r)'
         /\ ObjOk(obj)' /\ queue' \in Seq(Jobs) /\ stalled' \in Seq(Jobs) /\ \A k \in Waiting' : JobOk(k)'
         /\ hist'.mine \cap Given \subseteq hist.mine
    BY <1>1, <1>3, <2>1, <2>4, <2>5, <2>6, <2>9, <2>10, <2>11, <2>12, <2>13, <2>14, <2>15, RowAdded
  <2>17. (\A k : JobOk(k) => JobOk(k)') /\ Given \subseteq Given'
    BY <1>0, <2>16, StillOk
  <2>18. Typed'
    BY <1>1, <2>8, <2>9, <2>16 DEF Typed
  <2>19. WebOk'
    BY <1>0, <1>1, <2>17 DEF WebOk
  <2>20. Told'
    BY <1>0, <1>1, <1>2, <2>5, <2>6, <2>8, <2>16, ToldKept
  <2>21. JobOk(work.row)' /\ JobOk(work.job)'
    <3>1. JobOk(j)'
      BY <1>1, <2>7, <2>11, <2>16 DEF JobOk
    <3> QED BY <1>1, <2>8, <2>17, <3>1
  <2>22. AtWorkInv'
    BY <2>7, <2>8, <2>16, <2>21 DEF AtWorkInv, AtRow, AtWrite, AtPush, AtSync, AtApply, AtJob
  <2> QED BY <2>16, <2>18, <2>19, <2>20, <2>22 DEF DavInv
<1>5. CASE Named(x) # {}
  <2>1. PICK o \in rows : /\ rows' = (rows \ {o}) \cup {[o EXCEPT !.v = [o.v EXCEPT !.text = v, !.rule = v, !.last = 0, !.raw = v]]}
                          /\ work' = [work EXCEPT !.pc = "push", !.row = Job("update", o.id)]
                          /\ count' = count
    BY <1>2, <1>5 DEF IngestRequest, Named
  <2>2. PICK c : c = [o.v EXCEPT !.text = v, !.rule = v, !.last = 0, !.raw = v]
    OBVIOUS
  <2>3. c \in Contents
    BY <1>0, <1>3, <2>2 DEF Typed, RowOk, Rows, Contents
  <2> QED BY <1>1, <2>1, <2>2, <2>3, MailChanges
<1> QED BY <1>4, <1>5

\* A fetched object makes a row, or overwrites the one that has it.
LEMMA SyncApplyPreserved ==
    ASSUME DavInv, SyncApply
    PROVE  DavInv'
<1>0. Typed /\ Told /\ AtWorkInv /\ WebOk /\ RowInv /\ work.pc = "apply"
  BY DEF DavInv, SyncApply, Fetched
<1>1. PICK u, g, t : u = work.uri /\ g = work.list[u] /\ t = g.etag /\ g.kind = "event"
  BY DEF SyncApply, Fetched
<1>2. /\ obj' = obj /\ queue' = queue /\ stalled' = stalled /\ hist' = hist /\ web' = web
      /\ work' = [work EXCEPT !.pc = "look", !.todo = work.todo \ {u}, !.uri = None, !.row = None]
  BY <1>1 DEF SyncApply, Fetched
<1>3. /\ work'.pc = "look" /\ work'.list = work.list /\ work'.job = work.job
      /\ work'.todo \subseteq work.todo /\ Shape(work')
  BY <1>0, <1>2, WorkFields DEF Shape
<1>4. /\ ObjOk(work.list) /\ u \in work.todo /\ u \in Uris /\ work.list[u] # None
      /\ AtSync /\ AtApply /\ AtJob
  BY <1>0, <1>1 DEF AtWorkInv, AtSync, AtApply
<1>5. g \in Objects /\ t \in Nat /\ Etag(t) /\ u \in Names
  BY <1>1, <1>4 DEF ObjOk, Objects
<1>6. obj[u] # None /\ t = obj[u].etag => g = obj[u]
  BY <1>0, <1>1, <1>4 DEF AtSync
<1>7. JobOk(work.job) /\ work.job \in Jobs
  BY <1>0 DEF AtWorkInv, AtJob, JobOk
<1>8. CASE work.row # {}
  <2>1. /\ count' = count /\ Given' = Given
        /\ rows' = {IF r.id \in work.row THEN [r EXCEPT !.v = Parse(r.v, g), !.etag = t] ELSE r : r \in rows}
    BY <1>1, <1>8 DEF SyncApply, Fetched, Given
  <2>2. ASSUME NEW o \in rows
        PROVE  LET e == [o EXCEPT !.v = Parse(o.v, g), !.etag = t] IN
               /\ RowOk(e) /\ e.id = o.id /\ e.uri = o.uri /\ e.uid = o.uid /\ e.v = Parse(o.v, g) /\ e.etag = t
               /\ RowOk(o) /\ Same(e.v, g)
    <3>1. RowOk(o) /\ o \in Rows /\ o.v \in Contents
      BY <1>0 DEF Typed, RowOk, Rows
    <3>2. PICK c \in Contents : c = Parse(o.v, g) /\ Same(c, g)
      BY <1>1, <1>5, <3>1, ParseFacts
    <3>3. PICK e : e = [o EXCEPT !.v = c, !.etag = t]
      OBVIOUS
    <3>4. e \in Rows /\ e.id = o.id /\ e.uri = o.uri /\ e.uid = o.uid /\ e.v = c /\ e.etag = t
      BY <1>5, <3>1, <3>3 DEF Rows
    <3>5. RowOk(e)
      BY <1>5, <3>1, <3>4 DEF RowOk
    <3> QED BY <3>1, <3>2, <3>3, <3>4, <3>5
  <2>3. \A o \in rows : o.id \in work.row <=> o.uri = u
    BY <1>0, <1>1, <1>4 DEF AtApply
  <2>4. \A r \in rows' : \E o \in rows : r = IF o.id \in work.row THEN [o EXCEPT !.v = Parse(o.v, g), !.etag = t] ELSE o
    BY <2>1
  <2>5. \A o \in rows : (IF o.id \in work.row THEN [o EXCEPT !.v = Parse(o.v, g), !.etag = t] ELSE o) \in rows'
    BY <2>1
  <2>6. \A o \in rows : \E r \in rows' : r.id = o.id
    BY <2>2, <2>5
  <2>7. \A r \in rows' : RowOk(r) /\ \E o \in rows :
          /\ r.id = o.id /\ r.uri = o.uri /\ r.uid = o.uid
          /\ r = o \/ (r.uri # None /\ obj[r.uri] # None /\ r.etag = obj[r.uri].etag => Same(r.v, obj[r.uri]))
    <3> SUFFICES ASSUME NEW r \in rows'
                 PROVE  RowOk(r) /\ \E o \in rows :
                          /\ r.id = o.id /\ r.uri = o.uri /\ r.uid = o.uid
                          /\ r = o \/ (r.uri # None /\ obj[r.uri] # None /\ r.etag = obj[r.uri].etag => Same(r.v, obj[r.uri]))
      OBVIOUS
    <3>1. PICK o \in rows : r = IF o.id \in work.row THEN [o EXCEPT !.v = Parse(o.v, g), !.etag = t] ELSE o
      BY <2>4
    <3>2. CASE o.id \in work.row
      <4>1. /\ RowOk(r) /\ r.id = o.id /\ r.uri = o.uri /\ r.uid = o.uid /\ Same(r.v, g) /\ r.etag = t
        BY <2>2, <3>1, <3>2
      <4>2. r.uri = u
        BY <2>3, <3>2, <4>1
      <4> QED BY <1>6, <4>1, <4>2
    <3>3. CASE o.id \notin work.row
      BY <2>2, <3>1, <3>3
    <3> QED BY <3>2, <3>3
  <2>8. ASSUME NEW r \in rows', NEW s \in rows', r.id = s.id PROVE r = s
    <3>1. PICK o \in rows : r = IF o.id \in work.row THEN [o EXCEPT !.v = Parse(o.v, g), !.etag = t] ELSE o
      BY <2>4
    <3>2. PICK p \in rows : s = IF p.id \in work.row THEN [p EXCEPT !.v = Parse(p.v, g), !.etag = t] ELSE p
      BY <2>4
    <3>3. r.id = o.id /\ s.id = p.id
      BY <2>2, <3>1, <3>2
    <3>4. o = p
      BY <1>0, <2>8, <3>3 DEF RowInv, Unique
    <3> QED BY <3>1, <3>2, <3>4
  <2>9. ObjOk(work.list)' /\ JobOk(work.job)'
    <3>1. (\A f : ObjOk(f) => ObjOk(f)') /\ (\A k : JobOk(k) => JobOk(k)')
      BY <1>2, <2>1 DEF ObjOk, JobOk, Names, Etag
    <3> QED BY <1>3, <1>4, <1>7, <3>1
  <2>10. AtSync'
    BY <1>0, <1>2, <1>3, <1>4, <2>7, <2>9 DEF AtSync
  <2>11. AtWorkInv'
    BY <1>0, <1>3, <2>9, <2>10 DEF AtWorkInv, AtRow, AtWrite, AtPush, AtApply, AtJob
  <2> QED BY <1>0, <1>2, <1>3, <1>7, <2>1, <2>6, <2>7, <2>8, <2>11, RowsEdited
<1>9. CASE work.row = {}
  <2>1. PICK n : n = count.id + 1
    OBVIOUS
  <2>2. PICK e : e = [id |-> n, uri |-> u, uid |-> None, v |-> Parse(Blank, g), etag |-> t]
    OBVIOUS
  <2>3. count.id < MaxId /\ n \in Ids /\ n \in 0..MaxId /\ n \in Uris
    BY <1>0, <1>9, <2>1, Apart DEF SyncApply, Fetched, Typed, Ids
  <2>4. /\ e \in Rows /\ e.id = n /\ e.uri = u /\ e.uid = None /\ e.etag = t /\ Same(e.v, g)
        /\ Name(e.uri) /\ Name(e.uid)
    <3>1. PICK c \in Contents : c = Parse(Blank, g) /\ Same(c, g)
      BY <1>1, <1>5, BlankContent, ParseFacts
    <3> QED BY <1>4, <1>5, <2>2, <2>3, <3>1 DEF Rows, Name
  <2>5. rows' = rows \cup {e} /\ count' = [count EXCEPT !.id = n]
    BY <1>1, <1>9, <2>1, <2>2 DEF SyncApply, Fetched
  <2>6. count' \in [id : 0..MaxId, v : Version, etag : Nat] /\ count'.id = n /\ count'.etag = count.etag
    BY <1>0, <2>3, <2>5 DEF Typed
  <2>7. hist' \in [mine : SUBSET Ids, stuck : SUBSET Ids] /\ hist.mine \subseteq Given
    BY <1>0, <1>2, GivenIds DEF Typed
  <2>8. n \notin hist'.mine /\ n \notin Given
    BY <1>0, <1>2, <2>1, <2>7 DEF Given, Typed
  <2>9. \A s \in rows : s.uri # u /\ (s.id \notin hist.stuck => s.id # u)
    BY <1>0, <1>1, <1>4, <1>9 DEF AtSync, AtApply
  <2>10. \A r \in rows : ~ Midway(r)
    BY <1>0 DEF Midway
  <2>11. \A r \in rows : UPending(r.id) => UPending(r.id)'
    BY <1>0, <1>2 DEF UPending, QUpdate
  <2>12. /\ RowInv' /\ Grows /\ n \notin Names
         /\ hist' \in [mine : SUBSET Given', stuck : SUBSET Ids]
         /\ \A r \in rows' : RowOk(r)'
         /\ ObjOk(obj)' /\ queue' \in Seq(Jobs) /\ stalled' \in Seq(Jobs) /\ \A k \in Waiting' : JobOk(k)'
         /\ hist'.mine \cap Given \subseteq hist.mine
    BY <1>2, <1>5, <1>6, <2>1, <2>3, <2>4, <2>5, <2>6, <2>7, <2>8, <2>9, <2>10, <2>11, RowAdded
  <2>13. /\ \A k : JobOk(k) => JobOk(k)'
         /\ \A f : ObjOk(f) => ObjOk(f)'
         /\ Given \subseteq Given'
    BY <1>0, <2>12, StillOk
  <2>14. Typed'
    BY <1>2, <1>3, <1>7, <2>6, <2>12 DEF Typed
  <2>15. WebOk' /\ Told'
    <3>1. WebOk'
      BY <1>0, <1>2, <2>13 DEF WebOk
    <3> QED BY <1>0, <1>2, <1>3, <1>7, <2>4, <2>5, <2>12, <3>1, ToldKept
  <2>16. ObjOk(work.list)' /\ JobOk(work.job)' /\ work.list[n] = None
    <3>1. work.list[n] = None
      BY <1>4, <2>3, <2>12 DEF ObjOk
    <3> QED BY <1>3, <1>4, <1>7, <2>13, <3>1
  <2>17. AtSync'
    BY <1>0, <1>2, <1>3, <1>4, <2>4, <2>5, <2>8, <2>16 DEF AtSync
  <2>18. AtWorkInv'
    BY <1>0, <1>3, <2>16, <2>17 DEF AtWorkInv, AtRow, AtWrite, AtPush, AtApply, AtJob
  <2> QED BY <2>12, <2>14, <2>15, <2>18 DEF DavInv
<1> QED BY <1>8, <1>9

\* The outcome of a push is saved, unless another row has the object.
LEMMA WritePreserved ==
    ASSUME DavInv, Write
    PROVE  DavInv'
<1>0. Typed /\ Told /\ AtWorkInv /\ WebOk /\ RowInv /\ AtRow /\ AtWrite
  BY DEF DavInv, AtWorkInv
<1>1. /\ work.pc = "write" /\ obj' = obj /\ queue' = queue /\ stalled' = stalled /\ count' = count /\ Given' = Given
  BY DEF Write, Given
<1>2. CASE Failed /\ rows' = rows
  BY <1>1, <1>2, FailedPreserved
<1>3. CASE /\ ~ \E r \in rows : r.id # work.job.id /\ r.uri = Target
           /\ rows' = Saved /\ Done /\ hist' = hist
  <2>1. PICK u, n, t : u = Target /\ n = work.job.id /\ t = work.etag
    OBVIOUS
  <2>2. /\ u \in Uris /\ u \in Names /\ u # None /\ n \in Given /\ n = work.row.id
        /\ u = n \/ (u = work.row.uri /\ work.row.uri # None /\ work.job.op # "create")
        /\ work.row.uri = None => u = n
        /\ work.job.op = "create" => u = n
        /\ work.row.v \in Contents
        /\ Etag(t) /\ n \in Ids /\ n \in Uris
    BY <1>0, <1>1, <2>1, TargetFacts, GivenIds, Apart DEF AtWrite, Rows
  <2> DEFINE New(o) == [o EXCEPT !.uri = u, !.etag = t, !.v.raw = work.row.v.raw,
                                 !.uid = IF o.uid = None /\ work.job.op = "create" THEN o.id ELSE o.uid]
             Put1(o) == IF o.id # n THEN o ELSE New(o)
  <2>3. rows' = {Put1(o) : o \in rows}
    BY <1>3, <2>1 DEF Saved
  <2>4. ASSUME NEW o \in rows
        PROVE  /\ RowOk(New(o)) /\ RowOk(o) /\ New(o).id = o.id /\ New(o).uri = u /\ New(o).etag = t
               /\ New(o).uid = o.uid \/ (New(o).uid = o.id /\ work.job.op = "create")
               /\ o.v = work.row.v => New(o).v = o.v
               /\ o.id \in Ids /\ o.id \in Uris /\ o.id # None
    <3>1. RowOk(o) /\ o \in Rows /\ o.id \in Ids /\ o.id \in Uris /\ o.id # None
      BY <1>0, Apart DEF Typed, RowOk, Rows
    <3>2. PICK d : d = IF o.uid = None /\ work.job.op = "create" THEN o.id ELSE o.uid
      OBVIOUS
    <3> PICK c : c = [o.v EXCEPT !.raw = work.row.v.raw]
      OBVIOUS
    <3>3. d \in Uris \cup {None} /\ (d = o.uid \/ (d = o.id /\ work.job.op = "create")) /\ t \in Nat \cup {None}
      BY <2>2, <3>1, <3>2 DEF Rows, Etag
    <3>6. c \in Contents /\ (o.v = work.row.v => c = o.v)
      BY <2>2, <3>1 DEF Rows, Contents
    <3>4. New(o) = [o EXCEPT !.uri = u, !.etag = t, !.v = c, !.uid = d]
      BY <3>2
    <3>5. /\ New(o) \in Rows /\ New(o).id = o.id /\ New(o).uri = u /\ New(o).etag = t /\ New(o).v = c
          /\ New(o).uid = d
      BY <2>2, <3>1, <3>3, <3>4, <3>6 DEF Rows
    <3>7. Name(d)
      BY <2>2, <3>1, <3>3 DEF RowOk, Name, Names
    <3> QED BY <2>2, <3>1, <3>3, <3>5, <3>6, <3>7 DEF RowOk, Name
  <2> HIDE DEF New
  <2>5. \A r \in rows' : \E o \in rows : r = Put1(o)
    BY <2>3
  <2>6. \A o \in rows : Put1(o) \in rows' /\ Put1(o).id = o.id
    BY <2>3, <2>4
  <2>7. \A o \in rows : o.id # n => o.uri # u /\ (o.id \notin hist.stuck => o.id # u)
    BY <1>0, <1>1, <1>3, <2>1, <2>2 DEF AtRow
  <2>8. WebOk' /\ work' = NoWork /\ \A id : QUpdate(id) => QUpdate(id)'
    BY <1>0, <1>1, <1>3, DoneFacts
  <2>9. AtWorkInv' /\ work'.pc = "off" /\ Shape(work') /\ work'.job \in Jobs
    BY <2>8, OffWork
  <2>10. Told'
    <3>1. \A r \in rows' : \E o \in rows : r.id = o.id /\ (r.uri = o.uri \/ r.uri = r.id)
      BY <1>0, <1>1, <2>1, <2>2, <2>4, <2>5 DEF AtRow
    <3>2. \A r \in rows' : \/ \E o \in rows : r.uid = o.uid
                           \/ \A s \in rows' : s.id = r.uid => s.uri = s.id
      <4> SUFFICES ASSUME NEW r \in rows', ~ \E o \in rows : r.uid = o.uid, NEW s \in rows', s.id = r.uid
                   PROVE  s.uri = s.id
        OBVIOUS
      <4>1. PICK o \in rows : r = Put1(o)
        BY <2>5
      <4>2. o.id = n /\ r.uid = n /\ u = n
        BY <2>2, <2>4, <4>1
      <4>3. PICK p \in rows : s = Put1(p)
        BY <2>5
      <4> QED BY <2>4, <4>2, <4>3
    <3>3. work'.job.op = "none"
      BY <2>8 DEF NoWork, Job
    <3> QED BY <1>0, <1>1, <1>3, <3>1, <3>2, <3>3, ToldKept DEF AtWorkInv, AtJob
  <2>11. /\ \A r : RowOk(r) => RowOk(r)'
         /\ \A j : JobOk(j) => JobOk(j)'
         /\ \A f : ObjOk(f) => ObjOk(f)'
    BY <1>1, <1>3 DEF RowOk, JobOk, ObjOk, Etag, Name, Names, Given
  <2>12. Typed'
    <3>1. \A r \in rows' : RowOk(r)
      BY <2>4, <2>5
    <3>2. /\ queue' \in Seq(Jobs) /\ stalled' \in Seq(Jobs) /\ \A j \in Waiting' : JobOk(j)'
          /\ \A r \in rows' : RowOk(r)'
          /\ ObjOk(obj)'
      BY <1>0, <1>1, <2>11, <3>1 DEF Typed
    <3> QED BY <1>0, <1>1, <1>3, <2>8, <2>9, <3>2 DEF Typed
  <2>13. Unique'
    <3> SUFFICES ASSUME NEW r \in rows', NEW s \in rows', r.id = s.id PROVE r = s
      BY DEF Unique
    <3>1. PICK o \in rows : r = Put1(o)
      BY <2>5
    <3>2. PICK p \in rows : s = Put1(p)
      BY <2>5
    <3>3. o = p
      BY <1>0, <2>6, <3>1, <3>2 DEF RowInv, Unique
    <3> QED BY <3>1, <3>2, <3>3
  <2>14. NoTwin'
    <3> SUFFICES ASSUME NEW r \in rows', NEW s \in rows', r # s, r.id \notin hist.stuck
                 PROVE  r.id # s.uri /\ (r.uri # None => r.uri # s.uri)
      BY <1>3 DEF NoTwin
    <3>1. PICK o \in rows : r = Put1(o)
      BY <2>5
    <3>2. PICK p \in rows : s = Put1(p)
      BY <2>5
    <3>3. o # p /\ o.id # p.id /\ r.id = o.id /\ s.id = p.id /\ (o.id # p.uri /\ (o.uri # None => o.uri # p.uri))
      BY <1>0, <2>6, <3>1, <3>2 DEF RowInv, Unique, NoTwin
    <3>4. CASE o.id = n
      <4>1. r.uri = u /\ s = p
        BY <2>4, <3>1, <3>2, <3>3, <3>4
      <4> QED BY <2>7, <3>3, <3>4, <4>1
    <3>5. CASE o.id # n /\ p.id = n
      <4>1. s.uri = u /\ r = o
        BY <2>4, <3>1, <3>2, <3>5
      <4> QED BY <2>7, <3>3, <3>5, <4>1
    <3>6. CASE o.id # n /\ p.id # n
      BY <3>1, <3>2, <3>3, <3>6
    <3> QED BY <3>4, <3>5, <3>6
  <2>15. ASSUME NEW o \in rows, Midway(o) PROVE o.id = n /\ u = n
    BY <1>0, <1>1, <2>1, <2>15 DEF Midway
  <2>16. ObjOwned'
    <3> SUFFICES ASSUME NEW r \in rows', r.id \notin hist.stuck, obj[r.id] # None PROVE r.uri = r.id
      BY <1>1, <1>3 DEF ObjOwned
    <3>1. PICK o \in rows : r = Put1(o)
      BY <2>5
    <3>2. r.id = o.id /\ (o.uri = o.id \/ Midway(o))
      BY <1>0, <2>6, <3>1 DEF RowInv, ObjOwned
    <3>3. CASE o.id # n
      BY <2>15, <3>1, <3>2, <3>3
    <3>4. CASE o.id = n
      <4>1. r.uri = u /\ o.uri = work.row.uri
        BY <1>0, <1>1, <2>1, <2>4, <3>1, <3>4 DEF AtRow
      <4> QED BY <2>2, <2>15, <3>2, <3>4, <4>1
    <3> QED BY <3>3, <3>4
  <2>17. Mine'
    <3> SUFFICES ASSUME NEW r \in rows', r.id \in hist.mine
                 PROVE  /\ r.uri \in {None, r.id}
                        /\ r.id \notin hist.stuck /\ r.uri # None => obj[r.id] # None
      BY <1>1, <1>3 DEF Mine
    <3>1. PICK o \in rows : r = Put1(o)
      BY <2>5
    <3>2. /\ r.id = o.id /\ o.uri \in {None, o.id}
          /\ o.id \notin hist.stuck /\ o.uri # None => obj[o.id] # None
      BY <1>0, <2>6, <3>1 DEF RowInv, Mine
    <3>3. CASE o.id # n
      BY <3>1, <3>2, <3>3
    <3>4. CASE o.id = n
      <4>1. r = New(o) /\ r.uri = u /\ o.uri = work.row.uri
        BY <1>0, <1>1, <2>1, <2>4, <3>1, <3>4 DEF AtRow
      <4>2. u = n
        BY <2>2, <3>2, <3>4, <4>1
      <4>3. r.id \notin hist.stuck => obj[u] # None
        BY <1>0, <1>1, <2>1, <3>2, <3>4 DEF AtWrite
      <4> QED BY <3>2, <3>4, <4>1, <4>2, <4>3
    <3> QED BY <3>3, <3>4
  <2>18. EtagU'
    <3> SUFFICES ASSUME NEW r \in rows', r.uri # None, r.id \notin hist.stuck,
                        obj[r.uri] # None, r.etag = obj[r.uri].etag
                 PROVE  Same(r.v, obj[r.uri]) \/ UPending(r.id)'
      BY <1>1, <1>3 DEF EtagU
    <3>1. PICK o \in rows : r = Put1(o)
      BY <2>5
    <3>2. \A id : QUpdate(id) => UPending(id)'
      BY <2>8 DEF UPending
    <3>3. CASE o.id # n
      <4>1. r = o /\ (Same(r.v, obj[r.uri]) \/ UPending(r.id))
        BY <1>0, <3>1, <3>3 DEF RowInv, EtagU
      <4> QED BY <1>1, <3>2, <4>1 DEF UPending
    <3>4. CASE o.id = n
      <4>1. /\ r.id = o.id /\ r.uri = u /\ r.etag = t /\ (o.v = work.row.v => r.v = work.row.v)
            /\ o.v = work.row.v \/ QUpdate(o.id) \/ o.id \in hist.stuck
        BY <1>0, <1>1, <2>1, <2>4, <3>1, <3>4 DEF AtRow
      <4>2. Same(work.row.v, obj[u])
        <5>1. obj[u] = Build(work.row.v, t)
          BY <1>0, <1>1, <2>1, <3>4, <4>1 DEF AtWrite
        <5>2. t \in Nat
          BY <1>0, <2>2, <4>1 DEF Typed, ObjOk, Objects
        <5> QED BY <2>2, <5>1, <5>2, BuildFacts
      <4> QED BY <3>2, <4>1, <4>2
    <3> QED BY <3>3, <3>4
  <2>19. UserEventKept'
    BY <1>0, <1>3, <2>6 DEF RowInv, UserEventKept, RowOf
  <2> QED BY <2>8, <2>9, <2>10, <2>12, <2>13, <2>14, <2>16, <2>17, <2>18, <2>19 DEF DavInv, RowInv
<1> QED BY <1>2, <1>3 DEF Write

-----------------------------------------------------------------------------
\* Every step keeps the invariant.
LEMMA StepPreserves == DavInv /\ [Next]_vars => DavInv'
<1> SUFFICES ASSUME DavInv, [Next]_vars PROVE DavInv'
  OBVIOUS
<1>1. CASE UserCreate
  BY <1>1, UserCreatePreserved
<1>2. CASE \E r \in rows : UserEdit(r) \/ UserDelete(r)
  BY <1>2, UserEditPreserved, UserDeletePreserved
<1>3. CASE WebQueue \/ WebUnrow \/ WebDies
  BY <1>3, WebQueuePreserved, WebUnrowPreserved, WebDiesPreserved
<1>4. CASE \E u \in Uris : OtherDelete(u) \/ \E kind \in Kinds : OtherPut(u, kind)
  BY <1>4, OtherPutPreserved, OtherDeletePreserved
<1>5. CASE Tick
  BY <1>5, TickPreserved
<1>6. CASE \E id \in Uris : MailIn("request", id) \/ MailIn("cancel", id) \/ MailIn("reply", id)
  BY <1>6, MailInPreserved
<1>7. CASE Take \/ Read \/ HttpCreate \/ HttpUpdate
  BY <1>7, TakePreserved, ReadPreserved, HttpCreatePreserved, HttpUpdatePreserved
<1>8. CASE HttpDelete \/ EraseRow \/ Write
  BY <1>8, HttpDeletePreserved, EraseRowPreserved, WritePreserved
<1>9. CASE IngestRequest \/ IngestReply \/ IngestCancel \/ IngestPush
  BY <1>9, IngestRequestPreserved, IngestReplyPreserved, IngestCancelPreserved, IngestPushPreserved
<1>10. CASE SyncList \/ SyncLook \/ SyncApply \/ SyncSkip \/ SyncAborts \/ SyncPrune
  BY <1>10, SyncListPreserved, SyncLookPreserved, SyncApplyPreserved, SyncSkipPreserved, SyncAbortsPreserved, SyncPrunePreserved
<1>11. CASE JobThrows \/ WorkerDies \/ StalledBack
  BY <1>11, JobThrowsPreserved, WorkerDiesPreserved, StalledBackPreserved
<1>12. CASE UNCHANGED vars
  <2>1. /\ UNCHANGED <<rows, obj, work>> /\ work' = work /\ queue' = queue /\ stalled' = stalled /\ web' = web /\ count' = count /\ hist' = hist
    BY <1>12 DEF vars
  <2>2. Typed /\ Told' /\ WebOk' /\ \A id : QUpdate(id) => QUpdate(id)'
    BY <2>1 DEF DavInv, Told, Announced, WebOk, Given, QUpdate
  <2>3. /\ hist \in [mine : SUBSET Ids, stuck : SUBSET Ids] /\ queue \in Seq(Jobs) /\ stalled \in Seq(Jobs)
        /\ count \in [id : 0..MaxId, v : Version, etag : Nat]
    BY <2>2, GivenIds DEF Typed
  <2> QED BY <2>1, <2>2, <2>3, EnvStep
<1> QED BY <1>1, <1>2, <1>3, <1>4, <1>5, <1>6, <1>7, <1>8, <1>9, <1>10, <1>11, <1>12 DEF Next, Work

\* The invariant of the calendar.
LEMMA Inductive == Spec => []DavInv
<1>1. Init => DavInv
  BY InitInv
<1>2. DavInv /\ [Next]_vars => DavInv'
  BY StepPreserves
<1> QED BY <1>1, <1>2, PTL DEF Spec

\* Types: the id is the key of the rows, and every variable keeps its shape.
THEOREM CalendarTyped == Spec => []TypeOK
<1>1. DavInv => TypeOK
  <2> SUFFICES ASSUME DavInv PROVE TypeOK
    OBVIOUS
  <2>1. Typed /\ WebOk /\ Unique /\ Given \subseteq Ids
    BY GivenIds DEF DavInv, RowInv
  <2>2. rows \subseteq [id : Ids, uri : Uris \cup {None}, uid : Uris \cup {None}, v : Contents, etag : Nat \cup {None}]
    BY <2>1 DEF Typed, RowOk, Rows
  <2>3. obj \in [Uris -> Objects \cup {None}]
    BY <2>1 DEF Typed, ObjOk
  <2>4. hist \in [mine : SUBSET Ids, stuck : SUBSET Ids]
    BY <2>1 DEF Typed
  <2> QED BY <2>1, <2>2, <2>3, <2>4 DEF TypeOK, WebOk, Unique, Typed, Version
<1> QED BY <1>1, Inductive, PTL

\* Two rows never stand for one object, although the object of an event is on
\* the server before its row says so: a sync runs on the same queue and cannot
\* come in between, unless the push broke off there and its job has stalled,
\* which is the exception the property names.
THEOREM EventsShownOnce == Spec => []NoTwin
<1>1. DavInv => NoTwin
  BY DEF DavInv, RowInv
<1> QED BY <1>1, Inductive, PTL

\* No sync or push takes an event of the user away: the list a sync prunes by
\* has the object of every pushed event of the user.  A mailed cancellation
\* does, whoever sent it, and is the exception the property names.
THEOREM UserEventsKept == Spec => []UserEventKept
<1>1. DavInv => UserEventKept
  BY DEF DavInv, RowInv
<1> QED BY <1>1, Inductive, PTL

\* A row with the etag of its object says what the object says, as far as the
\* conversions carry it, or a push of the row is still to come, whoever wrote
\* the object and the row since.
THEOREM EtagsTellTheTruth == Spec => []EtagTruth
<1>1. DavInv => EtagTruth
  <2> SUFFICES ASSUME DavInv PROVE EtagTruth
    OBVIOUS
  <2>1. EtagU /\ \A id : UPending(id) => Pending(id)
    BY DEF DavInv, RowInv, UPending, QUpdate, Pending, Pushes
  <2> QED BY <2>1 DEF EtagU, EtagTruth
<1> QED BY <1>1, Inductive, PTL
=============================================================================
