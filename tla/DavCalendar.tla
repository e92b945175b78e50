---------------------------- MODULE DavCalendar ----------------------------
(***************************************************************************)
(* The webmail's calendar: rows of calendar_events mirrored with the       *)
(* objects of a CalDAV collection that other clients write to as well.     *)
(*                                                                         *)
(* The web process changes rows and queues jobs; one worker (concurrency   *)
(* 1) runs the jobs of the queue dav-worker in order: it pushes a row to   *)
(* the server, removes an object, applies a mailed invitation, reply or    *)
(* cancellation, and every two minutes compares the whole collection with  *)
(* the rows (dav:sync).                                                    *)
(*                                                                         *)
(* An etag is a number, new with every write to the server.  What an event *)
(* says has a version, the number of the change it comes from, for each    *)
(* part that the conversions between a row and an object treat alike:      *)
(*   text   title, description, start: carried both ways;                  *)
(*   place  location, status, free or busy: read from an object into the   *)
(*          row, and written from the object text saved in the row (raw);  *)
(*   rule   recurrence and attendees: written, never read;                 *)
(*   last   the last day of an all-day event, counted from the one meant:  *)
(*          written as the day after, which is what iCalendar means by the *)
(*          end, and read as it stands (the end of a timed event is        *)
(*          carried as the text is).                                       *)
(* 0 is a part that is empty.  An object pushed from row i is named i (the *)
(* code's "<id>.ics").  Left out: the mails to attendees, contacts, and    *)
(* the look-ups (calendar, account, secret) that make a job return early.  *)
(***************************************************************************)
EXTENDS Integers, Sequences, SequencesExt, FiniteSets

CONSTANTS
    Outside,    \* names of objects and events that others create
    MaxId,      \* bound: rows ever created
    MaxEdits,   \* bound: changes by the user, other clients and mail
    MaxFaults,  \* bound: deaths of a process and refused or broken requests
    None

ASSUME DavCalendarAssumption ==
    /\ MaxId \in Nat /\ MaxEdits \in Nat /\ MaxFaults \in Nat
    /\ None \notin Outside
    /\ (Outside \cup {None}) \cap (1..MaxId) = {}

\* "event"; "other": no event with a start in it; "bad": not iCalendar at all.
Kinds == {"event", "other", "bad"}
Version == 0..MaxEdits
Contents == [text : Version, place : Version, rule : Version, last : Nat, raw : Version]
Objects == [text : Version, place : Version, rule : Version, ends : Nat, kind : Kinds, etag : Nat]

\* No etag and no object: None is neither a number nor an object.
ASSUME NoneApart == None \notin Nat /\ None \notin Objects

VARIABLES
    rows,    \* calendar_events: [id, uri, uid, v, etag], v a content
    obj,     \* CalDAV server: name -> object or None
    queue,   \* jobs of dav-worker, oldest first
    stalled, \* jobs whose worker died
    work,    \* the worker and its locals
    web,     \* the request of the user that is under way
    count,   \* fresh numbers: rows, versions, etags
    hist,    \* events the user still has; events a fault left out of step
    faults

vars == <<rows, obj, queue, stalled, work, web, count, hist, faults>>

Ids == 1..MaxId
Uris == Ids \cup Outside
Job(op, id) == [op |-> op, id |-> id, v |-> 0, again |-> FALSE]
NoWork == [pc |-> "off", job |-> Job("none", None), row |-> None, etag |-> None,
           list |-> [u \in Uris |-> None], todo |-> {}, uri |-> None]
NoWeb == [pc |-> "off", op |-> "none", id |-> None]

RowOf(id) == {r \in rows : r.id = id}
Edit == count.v < MaxEdits
Fault == faults < MaxFaults /\ faults' = faults + 1
Stuck(ids) == [hist EXCEPT !.stuck = @ \cup ids]

\* What the user writes, and the event of a row read from an object.
Blank == [text |-> 0, place |-> 0, rule |-> 0, last |-> 0, raw |-> 0]
ByUser(v, n) == [v EXCEPT !.text = n, !.place = n, !.rule = n, !.last = 0]

\* buildICalEvent, on top of the saved text of the object if there is one.
Build(v, e) == [text |-> v.text, place |-> v.raw, rule |-> v.rule, ends |-> v.last + 1, kind |-> "event", etag |-> e]

\* parseIcsToEvent, and the text of the object saved in the row.
Parse(v, o) == [v EXCEPT !.text = o.text, !.place = o.place, !.last = o.ends, !.raw = o.place]

Init ==
    /\ rows = {}
    /\ obj = [u \in Uris |-> None]
    /\ queue = <<>>
    /\ stalled = <<>>
    /\ work = NoWork
    /\ web = NoWeb
    /\ count = [id |-> 0, v |-> 0, etag |-> 0]
    /\ hist = [mine |-> {}, stuck |-> {}]
    /\ faults = 0

-----------------------------------------------------------------------------
(* The user: upsertCalendarEvent and deleteCalendarEvent of the web process.*)

UserCreate ==
    /\ web = NoWeb /\ Edit /\ count.id < MaxId
    /\ rows' = rows \cup {[id |-> count.id + 1, uri |-> None, uid |-> None, v |-> ByUser(Blank, count.v + 1), etag |-> None]}
    /\ count' = [count EXCEPT !.id = @ + 1, !.v = @ + 1]
    /\ web' = [pc |-> "queue", op |-> "create", id |-> count.id + 1]
    /\ hist' = [hist EXCEPT !.mine = @ \cup {count.id + 1}]
    /\ UNCHANGED <<obj, queue, stalled, work, faults>>

UserEdit(r) ==
    /\ web = NoWeb /\ Edit
    /\ rows' = (rows \ {r}) \cup {[r EXCEPT !.v = ByUser(r.v, count.v + 1)]}
    /\ count' = [count EXCEPT !.v = @ + 1]
    /\ web' = [pc |-> "queue", op |-> "update", id |-> r.id]
    /\ UNCHANGED <<obj, queue, stalled, work, hist, faults>>

\* The job is queued after the transaction has committed.
WebQueue ==
    /\ web.pc = "queue"
    /\ queue' = Append(queue, Job(web.op, web.id))
    /\ web' = NoWeb
    /\ UNCHANGED <<stalled, rows, obj, work, count, hist, faults>>

\* The object first, by a job that is waited for; then the row.
UserDelete(r) ==
    /\ web = NoWeb /\ Edit
    /\ queue' = Append(queue, Job("delete", r.id))
    /\ web' = [pc |-> "wait", op |-> "delete", id |-> r.id]
    /\ count' = [count EXCEPT !.v = @ + 1]
    /\ hist' = [hist EXCEPT !.mine = @ \ {r.id}]
    /\ UNCHANGED <<stalled, rows, obj, work, faults>>

WebUnrow ==
    /\ web.pc = "unrow"
    /\ rows' = rows \ RowOf(web.id)
    /\ web' = NoWeb
    /\ UNCHANGED <<obj, queue, stalled, work, count, hist, faults>>

WebDies ==
    /\ Fault
    /\ web # NoWeb
    /\ hist' = Stuck({web.id})
    /\ web' = NoWeb
    /\ UNCHANGED <<rows, obj, queue, stalled, work, count>>

-----------------------------------------------------------------------------
(* Other CalDAV clients, the scheduler, and mail with an iCalendar part.    *)

OtherPut(u, kind) ==
    LET n == count.v + 1 IN
    /\ Edit /\ (u \in Outside \/ obj[u] # None)
    /\ obj' = [obj EXCEPT ![u] = [text |-> n, place |-> n, rule |-> n, ends |-> 1, kind |-> kind, etag |-> count.etag + 1]]
    /\ count' = [count EXCEPT !.v = @ + 1, !.etag = @ + 1]
    /\ UNCHANGED <<rows, queue, stalled, work, web, hist, faults>>

OtherDelete(u) ==
    /\ Edit /\ obj[u] # None
    /\ obj' = [obj EXCEPT ![u] = None]
    /\ count' = [count EXCEPT !.v = @ + 1]
    /\ hist' = [hist EXCEPT !.mine = @ \ {u}]
    /\ UNCHANGED <<rows, queue, stalled, work, web, faults>>

\* The next dav:sync is scheduled when the last one has been taken.
Tick ==
    /\ work.job.op # "sync" /\ \A j \in Range(queue) : j.op # "sync"
    /\ queue' = Append(queue, Job("sync", None))
    /\ UNCHANGED <<stalled, rows, obj, work, web, count, hist, faults>>

\* A request, a cancellation or a reply that names the event id: one from
\* outside, or one of the calendar that is on the server, and so may have been
\* announced to others.
MailIn(op, id) ==
    /\ Edit
    /\ id \in Outside \/ \E r \in rows : id \in {r.uri, r.uid}
    /\ queue' = Append(queue, [Job(op, id) EXCEPT !.v = count.v + 1])
    /\ count' = [count EXCEPT !.v = @ + 1]
    /\ UNCHANGED <<stalled, rows, obj, work, web, hist, faults>>

-----------------------------------------------------------------------------
(* The worker: taking a job, ending it.                                     *)

Take ==
    /\ work = NoWork /\ queue # <<>>
    /\ work' = [NoWork EXCEPT !.pc = IF Head(queue).op = "sync" THEN "list"
                                     ELSE IF Head(queue).op \in {"create", "update", "delete"} THEN "read"
                                     ELSE "ingest", !.job = Head(queue)]
    /\ queue' = Tail(queue)
    /\ UNCHANGED <<stalled, rows, obj, web, count, hist, faults>>

\* The request that waits for a delete job goes on when it has completed.
Done ==
    /\ work' = NoWork
    /\ web' = IF web.pc = "wait" /\ work.job.op = "delete" /\ work.job.id = web.id
              THEN [web EXCEPT !.pc = "unrow"] ELSE web

\* The row whose push is lost if the job ends here.
Unpushed ==
    IF work.pc = "push" THEN {work.row.id}
    ELSE IF work.job.op \in {"create", "update"} THEN {work.job.id}
    ELSE {}

Failed ==
    /\ work' = NoWork
    /\ web' = IF web.pc = "wait" /\ work.job.op = "delete" /\ work.job.id = web.id THEN NoWeb ELSE web
    /\ hist' = Stuck(Unpushed)

\* createCalendarEvent, updateCalendarEvent, deleteCalendarEvent: the row.
Read ==
    LET here == RowOf(work.job.id) IN
    /\ work.pc = "read"
    /\ IF here = {} THEN Done
       ELSE /\ work' = [work EXCEPT !.pc = "http", !.row = CHOOSE r \in here : TRUE]
            /\ UNCHANGED web
    /\ UNCHANGED <<rows, obj, queue, stalled, count, hist, faults>>

Put(u) ==
    /\ obj' = [obj EXCEPT ![u] = Build(work.row.v, count.etag + 1)]
    /\ count' = [count EXCEPT !.etag = @ + 1]
    /\ work' = [work EXCEPT !.pc = "write", !.etag = count.etag + 1]

Target == IF work.row.uri = None \/ work.job.op = "create" THEN work.row.id ELSE work.row.uri

\* PUT with If-None-Match: an object of that name is an error.
HttpCreate ==
    /\ work.pc = "http" /\ work.job.op = "create"
    /\ IF obj[Target] = None
       THEN Put(Target) /\ UNCHANGED <<web, hist>>
       ELSE Failed /\ UNCHANGED <<obj, count>>
    /\ UNCHANGED <<rows, queue, stalled, faults>>

\* PUT with If-Match, repeated without it when the etag is out of date; a
\* refusal is logged and the row keeps its etag.
HttpUpdate ==
    /\ work.pc = "http" /\ work.job.op = "update"
    /\ \/ Put(Target) /\ UNCHANGED <<hist, faults>>
       \/ /\ Fault
          /\ hist' = Stuck({work.job.id})
          /\ work' = [work EXCEPT !.pc = "write", !.etag = work.row.etag]
          /\ UNCHANGED <<obj, count>>
    /\ UNCHANGED <<rows, queue, stalled, web>>

\* A refused DELETE is logged.  The job of an incoming cancellation (v # 0)
\* goes on to delete the row itself.
HttpDelete ==
    /\ work.pc = "http" /\ work.job.op = "delete"
    /\ \/ obj' = [obj EXCEPT ![Target] = None] /\ UNCHANGED faults
       \/ Fault /\ UNCHANGED obj
    /\ IF work.job.v = 0 THEN Done
       ELSE work' = [work EXCEPT !.pc = "erase"] /\ UNCHANGED web
    /\ UNCHANGED <<rows, queue, stalled, count, hist>>

EraseRow ==
    /\ work.pc = "erase"
    /\ rows' = rows \ RowOf(work.job.id)
    /\ Done
    /\ UNCHANGED <<obj, queue, stalled, count, hist, faults>>

Saved == {IF r.id # work.job.id THEN r
          ELSE [r EXCEPT !.uri = Target, !.etag = work.etag, !.v.raw = work.row.v.raw,
                         !.uid = IF @ = None /\ work.job.op = "create" THEN r.id ELSE @] : r \in rows}

\* Mutant of Write: no unique index on owner and davUri.
WriteNoIndex ==
    /\ work.pc = "write"
    /\ rows' = Saved
    /\ Done
    /\ UNCHANGED <<obj, queue, stalled, count, hist, faults>>

\* The outcome of a PUT is saved in the row, if it is still there; the index
\* on owner and davUri refuses it when another row has the object.
Write ==
    /\ work.pc = "write"
    /\ IF \E r \in rows : r.id # work.job.id /\ r.uri = Target
       THEN Failed /\ UNCHANGED rows
       ELSE rows' = Saved /\ Done /\ UNCHANGED hist
    /\ UNCHANGED <<obj, queue, stalled, count, faults>>

-----------------------------------------------------------------------------
(* davItipProcessor.  SEQUENCE is not looked at: the mail handled last wins.*)

Named(x) == {r \in rows : r.uri = x \/ r.uid = x}

IngestRequest ==
    LET j == work.job IN
    /\ work.pc = "ingest" /\ j.op = "request"
    /\ IF Named(j.id) = {}
       THEN /\ count.id < MaxId
            /\ rows' = rows \cup {[id |-> count.id + 1, uri |-> j.id, uid |-> j.id, v |-> [Blank EXCEPT !.text = j.v, !.rule = j.v, !.raw = j.v], etag |-> None]}
            /\ work' = [work EXCEPT !.pc = "push", !.row = Job("create", count.id + 1)]
            /\ count' = [count EXCEPT !.id = @ + 1]
       ELSE \E r \in Named(j.id) :
            /\ rows' = (rows \ {r}) \cup {[r EXCEPT !.v = [r.v EXCEPT !.text = j.v, !.rule = j.v, !.last = 0, !.raw = j.v]]}
            /\ work' = [work EXCEPT !.pc = "push", !.row = Job("update", r.id)]
            /\ UNCHANGED count
    /\ UNCHANGED <<obj, queue, stalled, web, hist, faults>>

IngestReply ==
    LET j == work.job
        named == {r \in rows : j.id \in {r.id, r.uid}}
    IN
    /\ work.pc = "ingest" /\ j.op = "reply"
    /\ IF named = {} THEN Done /\ UNCHANGED rows
       ELSE \E r \in named :
            /\ rows' = (rows \ {r}) \cup {[r EXCEPT !.v.rule = j.v]}
            /\ work' = [work EXCEPT !.pc = "push", !.row = Job("update", r.id)]
            /\ UNCHANGED web
    /\ UNCHANGED <<obj, queue, stalled, count, hist, faults>>

\* Whoever sent it, and whoever the organizer of the event is.
IngestCancel ==
    LET j == work.job
        named == {r \in rows : r.uid = j.id}
    IN
    /\ work.pc = "ingest" /\ j.op = "cancel"
    /\ IF named = {} THEN Done /\ UNCHANGED hist
       ELSE \E r \in named :
            /\ work' = [work EXCEPT !.pc = "push", !.row = [Job("delete", r.id) EXCEPT !.v = j.v]]
            /\ hist' = [hist EXCEPT !.mine = @ \ {r.id}]
            /\ UNCHANGED web
    /\ UNCHANGED <<rows, obj, queue, stalled, count, faults>>

\* What follows from the mail is left to a job of its own.
IngestPush ==
    /\ work.pc = "push"
    /\ queue' = Append(queue, work.row)
    /\ Done
    /\ UNCHANGED <<stalled, rows, obj, count, hist, faults>>

-----------------------------------------------------------------------------
(* syncCalendar: the objects are listed once, each is compared by its etag  *)
(* with its row, then rows whose object is not in the list are deleted.     *)

SyncList ==
    /\ work.pc = "list"
    /\ work' = [work EXCEPT !.pc = "look", !.list = obj, !.todo = {u \in Uris : obj[u] # None}]
    /\ UNCHANGED <<rows, obj, queue, stalled, web, count, hist, faults>>

\* Mutant of SyncLook: an object that has a row is taken for known.
SyncLookKnown ==
    /\ work.pc = "look"
    /\ \E u \in work.todo :
        work' = IF \E r \in rows : r.uri = u THEN [work EXCEPT !.todo = @ \ {u}]
                ELSE [work EXCEPT !.pc = "apply", !.uri = u, !.row = {}]
    /\ UNCHANGED <<rows, obj, queue, stalled, web, count, hist, faults>>

SyncLook ==
    /\ work.pc = "look"
    /\ \E u \in work.todo :
        LET same == \E r \in rows : r.uri = u /\ r.etag = work.list[u].etag
            local == {r.id : r \in {s \in rows : s.uri = u}}
        IN work' = IF same THEN [work EXCEPT !.todo = @ \ {u}]
                   ELSE [work EXCEPT !.pc = "apply", !.uri = u, !.row = local]
    /\ UNCHANGED <<rows, obj, queue, stalled, web, count, hist, faults>>

Fetched(o, etag) ==
    /\ work.pc = "apply" /\ o.kind = "event"
    /\ IF work.row # {}
       THEN /\ rows' = {IF r.id \in work.row THEN [r EXCEPT !.v = Parse(r.v, o), !.etag = etag] ELSE r : r \in rows}
            /\ UNCHANGED count
       ELSE /\ count.id < MaxId
            /\ rows' = rows \cup {[id |-> count.id + 1, uri |-> work.uri, uid |-> None, v |-> Parse(Blank, o), etag |-> etag]}
            /\ count' = [count EXCEPT !.id = @ + 1]
    /\ work' = [work EXCEPT !.pc = "look", !.todo = @ \ {work.uri}, !.uri = None, !.row = None]
    /\ UNCHANGED <<obj, queue, stalled, web, hist, faults>>

\* Mutant of SyncApply: the etag is asked for again when the row is saved.
SyncApplyFreshEtag ==
    Fetched(work.list[work.uri], IF obj[work.uri] = None THEN None ELSE obj[work.uri].etag)

SyncApply == Fetched(work.list[work.uri], work.list[work.uri].etag)

\* An object without an event is passed over; one that is not iCalendar ends
\* the sync of the calendar, which has an error logged and is otherwise done.
SyncSkip ==
    /\ work.pc = "apply" /\ work.list[work.uri].kind = "other"
    /\ work' = [work EXCEPT !.pc = "look", !.todo = @ \ {work.uri}, !.uri = None, !.row = None]
    /\ UNCHANGED <<rows, obj, queue, stalled, web, count, hist, faults>>

SyncAborts ==
    /\ work.pc = "apply" /\ work.list[work.uri].kind = "bad"
    /\ Done
    /\ UNCHANGED <<rows, obj, queue, stalled, count, hist, faults>>

\* Mutant of SyncPrune: rows that were never pushed are pruned too.
SyncPruneUnpushed ==
    /\ work.pc = "look" /\ work.todo = {}
    /\ rows' = {r \in rows : r.uri # None /\ work.list[r.uri] # None}
    /\ Done
    /\ UNCHANGED <<obj, queue, stalled, count, hist, faults>>

SyncPrune ==
    /\ work.pc = "look" /\ work.todo = {}
    /\ rows' = {r \in rows : r.uri = None \/ work.list[r.uri] # None}
    /\ Done
    /\ UNCHANGED <<obj, queue, stalled, count, hist, faults>>

-----------------------------------------------------------------------------
(* Faults of the worker.                                                    *)

\* A request breaks off or the database fails: the job fails, attempted once.
JobThrows ==
    /\ Fault
    /\ work # NoWork
    /\ Failed
    /\ UNCHANGED <<rows, obj, queue, stalled, count>>

\* An object that the row does not name yet, or a change by mail without its
\* job, is there when the job is run again or a sync runs.
Halfway == IF work.pc = "push" \/ (work.pc = "write" /\ work.row.uri # Target) THEN Unpushed ELSE {}

\* The worker dies, and goes on with other jobs when it is back.  Its job is
\* found to have stalled when the lock has run out, and is run again, once.
WorkerDies ==
    /\ Fault
    /\ work # NoWork
    /\ IF work.job.again THEN Failed /\ UNCHANGED stalled
       ELSE /\ stalled' = Append(stalled, [work.job EXCEPT !.again = TRUE])
            /\ work' = NoWork
            /\ hist' = Stuck(Halfway)
            /\ UNCHANGED web
    /\ UNCHANGED <<rows, obj, queue, count>>

StalledBack ==
    \E i \in DOMAIN stalled :
        /\ queue' = <<stalled[i]>> \o queue
        /\ stalled' = RemoveAt(stalled, i)
        /\ UNCHANGED <<rows, obj, work, web, count, hist, faults>>

-----------------------------------------------------------------------------
Work ==
    \/ Take \/ Read \/ HttpCreate \/ HttpUpdate \/ HttpDelete \/ EraseRow \/ Write
    \/ IngestRequest \/ IngestReply \/ IngestCancel \/ IngestPush
    \/ SyncList \/ SyncLook \/ SyncApply \/ SyncSkip \/ SyncAborts \/ SyncPrune

Next ==
    \/ UserCreate \/ (\E r \in rows : UserEdit(r) \/ UserDelete(r))
    \/ WebQueue \/ WebUnrow \/ WebDies
    \/ \E u \in Uris : OtherDelete(u) \/ \E kind \in Kinds : OtherPut(u, kind)
    \/ Tick
    \/ \E id \in Uris : MailIn("request", id) \/ MailIn("cancel", id) \/ MailIn("reply", id)
    \/ Work \/ JobThrows \/ WorkerDies \/ StalledBack

\* The worker and the web process go on, the scheduler ticks, and stalled jobs
\* are looked for.
Spec ==
    /\ Init /\ [][Next]_vars
    /\ WF_vars(Work) /\ WF_vars(Tick) /\ WF_vars(WebQueue \/ WebUnrow) /\ WF_vars(StalledBack)

-----------------------------------------------------------------------------
\* The values every variable ranges over; id is the key of the rows.
TypeOK ==
    /\ \A r, s \in rows : r.id = s.id => r = s
    /\ rows \subseteq [id : Ids, uri : Uris \cup {None}, uid : Uris \cup {None}, v : Contents, etag : Nat \cup {None}]
    /\ obj \in [Uris -> Objects \cup {None}]
    /\ web \in [pc : {"off", "queue", "wait", "unrow"}, op : {"none", "create", "update", "delete"}, id : Ids \cup {None}]
    /\ count \in [id : 0..MaxId, v : 0..MaxEdits, etag : Nat]
    /\ hist \in [mine : SUBSET Ids, stuck : SUBSET Ids]

\* A push of row id is still to come: queued, at work, or about to be queued.
Pushes(j, id) == j.op \in {"create", "update"} /\ j.id = id

Pending(id) ==
    \/ \E j \in Range(queue) \cup Range(stalled) : Pushes(j, id)
    \/ work.pc \in {"read", "http"} /\ Pushes(work.job, id)
    \/ work.pc = "push" /\ Pushes(work.row, id)
    \/ web.pc = "queue" /\ web.id = id

\* The row says what the object says, as far as the conversions go: the text
\* is the same, and the other parts are what reading the object, or writing
\* the row, makes of them.
Same(v, o) ==
    /\ o.kind = "event" /\ o.text = v.text /\ o.place = v.raw
    /\ \/ v.place = o.place /\ v.last = o.ends
       \/ o.rule = v.rule /\ o.ends = v.last + 1

\* An etag is what sync goes by.  A row that carries the etag of its object
\* says the same as the object, or a push of the row is still to come; the
\* exceptions are rows whose push a fault has swallowed.
EtagTruth ==
    \A r \in rows :
        r.uri # None /\ r.id \notin hist.stuck =>
            (obj[r.uri] # None /\ r.etag = obj[r.uri].etag => Same(r.v, obj[r.uri]) \/ Pending(r.id))

\* No event is shown twice: no two rows stand for one object, except for an
\* event whose creation broke off after its object was on the server.
NoTwin ==
    \A r, s \in rows :
        r # s /\ r.id \notin hist.stuck => r.id # s.uri /\ (r.uri # None => r.uri # s.uri)

\* An event the user created stays in the calendar until the user, another
\* client or a mailed cancellation that names it deletes it, whatever sync
\* makes of the time before it is pushed; the exceptions are events whose push
\* a fault has swallowed.
UserEventKept == \A id \in hist.mine \ hist.stuck : RowOf(id) # {}

\* Every row has its object and says the same; every event has its row.
Settled ==
    /\ \A r \in rows : \/ r.id \in hist.stuck
                       \/ r.uri # None /\ obj[r.uri] # None /\ (obj[r.uri].kind = "event" => Same(r.v, obj[r.uri]))
    /\ \A u \in Uris : obj[u] # None /\ obj[u].kind = "event" => \E r \in rows : r.uri = u

\* Once the edits have stopped, rows and objects come to agree for good, unless
\* there is an object that is not iCalendar: every sync breaks off at it.
Converges == <>[](Settled \/ \E u \in Uris : obj[u] # None /\ obj[u].kind = "bad")
=============================================================================
