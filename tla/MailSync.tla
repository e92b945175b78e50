------------------------------ MODULE MailSync ------------------------------
(***************************************************************************)
(* The webmail's mirror of an IMAP account: the worker that copies the     *)
(* server's folders into the database (delta fetch, backfill, IDLE         *)
(* notices) and the jobs that move and delete mail on both sides.          *)
(*                                                                         *)
(* Two asynchronous functions of one Node process run interleaved: "job",  *)
(* the only job of the queue smtp-worker (concurrency 1), and "idle", the  *)
(* delta fetch an IDLE notice starts.  They share one IMAP connection, its *)
(* selected folder and its mailbox lock.  Every await is a step boundary;  *)
(* a step is one IMAP command or one database statement or transaction.    *)
(*                                                                         *)
(* Left out: flags, bodies, attachments, the conversation list derived     *)
(* from the rows, and the buffers that feed search, rules and webhooks.    *)
(* The conversation of a message is fixed (ThreadOf).                      *)
(***************************************************************************)
EXTENDS Integers, FiniteSets

CONSTANTS
    Boxes,       \* folders of the account
    Inbox,       \* the one the IDLE connection watches
    Entry,       \* folders new mail arrives in
    Mids,        \* messages, by Message-ID; those that arrive do so in this order
    Anonymous,   \* those that have no Message-ID
    ThreadOf,    \* the conversation of each message
    Window,      \* uids per fetch of syncMailbox (500)
    BackWindow,  \* uids per backfill batch (DEFAULT_WINDOW, 300)
    Tail,        \* TAIL_WINDOW, 200
    MaxUid,      \* bound: uids per folder
    MaxEvents,   \* bound: commands of the user and of other mail clients,
                 \* exceptions and crashes
    None

ASSUME MailSyncAssumption ==
    /\ Inbox \in Boxes /\ Entry \subseteq Boxes
    /\ IsFiniteSet(Mids) /\ Mids = 1..Cardinality(Mids) /\ Anonymous \subseteq Mids
    /\ None \notin Boxes \cup Mids
    /\ \A n \in {Window, BackWindow, Tail, MaxUid} : n \in Nat \ {0}
    /\ MaxEvents \in Nat

VARIABLES
    srv,      \* server: folder -> uid -> message or None
    uidNext,  \* server: folder -> next uid
    sync,     \* mailbox_sync rows: lastSeenUid and backfillCursorUid
    rows,     \* messages rows; "from" and "uid" are where it was first stored
    proc,     \* the two running functions and their locals
    conn,     \* the command connection: its selected folder and its lock
    notice,   \* IDLE notices not handled yet
    hist,     \* what has been excused, for NothingMissed
    again,    \* commands whose job failed and is attempted again
    spent     \* commands and faults so far, for the bound

vars == <<srv, uidNext, sync, rows, proc, conn, notice, hist, again, spent>>
server == <<srv, uidNext>>
store == <<sync, rows>>

Procs == {"job", "idle"}

\* A free lock is nobody's, and a folder without a row has none.
ASSUME NoneApart == None \notin Procs /\ None \notin [lastSeen : Nat, cursor : Nat]

Uids == 1..MaxUid
Threads == {ThreadOf[m] : m \in Mids}
Rows == [mid : Mids, box : Boxes, uid : Uids, from : Boxes]
Places == Boxes \X Uids

Idle == [pc |-> "idle", box |-> None, todo |-> {}, top |-> 0, ls |-> 0, pos |-> 0,
         mx |-> 0, batch |-> {}, held |-> {}, to |-> None, cmd |-> None]
NoNotice == [exists |-> FALSE, expunged |-> {}]
Fresh == [sel |-> None, lock |-> None]

\* The messages of folder b with a uid in a range, as FETCH lists them.
Listing(b, range) == {[uid |-> u, mid |-> srv[b][u]] : u \in {v \in range : srv[b][v] # None}}
First(batch) == CHOOSE e \in batch : \A f \in batch : e.uid <= f.uid
Same(r, s) == r.mid = s.mid /\ r.from = s.from /\ r.uid = s.uid
InThread(t, b) == {r \in rows : ThreadOf[r.mid] = t /\ r.box = b}
Known == {r.mid : r \in rows}
PlacesOf(ms) == {p \in Places : srv[p[1]][p[2]] \in ms}
Top(b) == uidNext[b] - 1

Spend == spent < MaxEvents /\ spent' = spent + 1
\* A command of the user is queued, or comes again after a failed attempt (up to
\* three; the job may also be given up, and is then never taken from again).
Command(c) ==
    /\ proc["job"].pc = "idle"
    /\ \/ Spend /\ UNCHANGED again
       \/ c \in again /\ again' = again \ {c} /\ UNCHANGED spent
Attempted(p) == IF proc[p].cmd = None THEN again ELSE again \cup {proc[p].cmd}
Become(p, r) == proc' = [proc EXCEPT ![p] = r]
Unlock(p) == IF conn.lock = p THEN [conn EXCEPT !.lock = None] ELSE conn

Init ==
    /\ srv = [b \in Boxes |-> [u \in Uids |-> None]]
    /\ uidNext = [b \in Boxes |-> 1]
    /\ sync = [b \in Boxes |-> None]
    /\ rows = {}
    /\ proc = [p \in Procs |-> Idle]
    /\ conn = Fresh
    /\ notice = NoNotice
    /\ again = {}
    /\ hist = [arrived |-> 0, boot |-> [b \in Boxes |-> 0], top |-> [b \in Boxes |-> 0],
               excused |-> {}]
    /\ spent = 0

-----------------------------------------------------------------------------
(* The mail server and other mail clients.  IDLE watches the inbox only; a  *)
(* notice lost with its connection is one that is never handled.            *)

Notify(arrivedIn, expunged) ==
    notice' = [exists |-> notice.exists \/ Inbox \in arrivedIn,
               expunged |-> notice.expunged \cup expunged]

\* MOVE of the messages uids of src (those that exist) to another folder dst, in
\* uid order.
ServerMove(src, dst, uids) ==
    LET gone == {u \in uids : srv[src][u] # None}
        New(u) == uidNext[dst] + Cardinality({v \in gone : v < u})
    IN /\ uidNext[dst] + Cardinality(gone) <= MaxUid + 1
       /\ srv' = [srv EXCEPT
            ![src] = [u \in Uids |-> IF u \in gone THEN None ELSE srv[src][u]],
            ![dst] = [u \in Uids |-> IF \E v \in gone : New(v) = u
                                     THEN srv[src][CHOOSE v \in gone : New(v) = u] ELSE srv[dst][u]]]
       /\ uidNext' = [uidNext EXCEPT ![dst] = @ + Cardinality(gone)]
       /\ Notify(IF gone = {} THEN {} ELSE {dst}, IF src = Inbox THEN gone ELSE {})

ServerDelete(b, uids) ==
    /\ srv' = [srv EXCEPT ![b] = [u \in Uids |-> IF u \in uids THEN None ELSE @[u]]]
    /\ Notify({}, IF b = Inbox THEN {u \in uids : srv[b][u] # None} ELSE {})
    /\ UNCHANGED uidNext

Arrive(b, m) ==
    /\ m > hist.arrived /\ uidNext[b] <= MaxUid
    /\ hist' = [hist EXCEPT !.arrived = m]
    /\ srv' = [srv EXCEPT ![b][uidNext[b]] = m]
    /\ uidNext' = [uidNext EXCEPT ![b] = @ + 1]
    /\ Notify({b}, {})
    /\ UNCHANGED <<store, proc, conn, again, spent>>

OtherMove(b, u, c) ==
    /\ Spend
    /\ b # c /\ srv[b][u] # None
    /\ ServerMove(b, c, {u})
    /\ UNCHANGED <<store, proc, conn, hist, again>>

OtherExpunge(b, u) ==
    /\ Spend
    /\ srv[b][u] # None
    /\ ServerDelete(b, {u})
    /\ UNCHANGED <<store, proc, conn, hist, again>>

-----------------------------------------------------------------------------
(* imap:backfill-discover: a mailbox_sync row for every folder.  Its job id *)
(* is never freed, so the queue runs it once.                               *)

Discover ==
    /\ proc["job"].pc = "idle"
    /\ \A b \in Boxes : sync[b] = None
    /\ sync' = [b \in Boxes |-> [lastSeen |-> 0, cursor |-> Top(b)]]
    /\ hist' = [hist EXCEPT !.top = [b \in Boxes |-> Top(b)]]
    /\ conn' = [conn EXCEPT !.sel = CHOOSE b \in Boxes : TRUE]
    /\ UNCHANGED <<server, rows, proc, notice, again, spent>>

-----------------------------------------------------------------------------
(* deltaFetch and syncMailbox, run by the job or by the exists handler.     *)

\* The loop over the folders: the next one, or the end of the run.
Loop(pc, todo) == IF todo = {} THEN Idle ELSE [Idle EXCEPT !.pc = pc, !.todo = todo]

DeltaStart(p) ==
    /\ proc[p].pc = "idle"
    /\ p = "idle" => notice.exists
    /\ notice' = IF p = "idle" THEN [notice EXCEPT !.exists = FALSE] ELSE notice
    /\ Become(p, Loop("next", {b \in Boxes : sync[b] # None}))
    /\ UNCHANGED <<server, store, conn, hist, again, spent>>

\* Lock and select the folder, read lastSeenUid; return when nothing is new.
DeltaOpen(p, b) ==
    LET ls == sync[b].lastSeen IN
    /\ proc[p].pc = "next" /\ b \in proc[p].todo /\ conn.lock = None
    /\ IF Top(b) <= ls
       THEN /\ conn' = [conn EXCEPT !.sel = b]
            /\ Become(p, Loop("next", proc[p].todo \ {b}))
       ELSE /\ conn' = [conn EXCEPT !.sel = b, !.lock = p]
            /\ Become(p, [proc[p] EXCEPT !.pc = "fetch", !.box = b,
                                         !.pos = ls + 1, !.top = Top(b)])
    /\ UNCHANGED <<server, store, notice, hist, again, spent>>

\* FETCH is answered from the folder the connection has selected.
DeltaFetch(p) ==
    LET q == proc[p]
        end == IF q.top < q.pos + Window THEN q.top ELSE q.pos + Window - 1
    IN
    /\ q.pc = "fetch"
    /\ Become(p, [q EXCEPT !.pc = "message", !.batch = Listing(conn.sel, q.pos..end),
                           !.pos = end + 1])
    /\ hist' = IF conn.sel = q.box THEN hist
               ELSE [hist EXCEPT !.excused = @ \cup ({q.box} \X (q.pos..end))]
    /\ UNCHANGED <<server, store, conn, notice, again, spent>>

\* The message at hand is done with.
Handled(q) == [q EXCEPT !.pc = IF q.pc = "bmessage" THEN "bmessage" ELSE "message",
                        !.batch = q.batch \ {First(q.batch)}, !.held = {},
                        !.mx = IF q.pc = "bmessage" THEN 0 ELSE First(q.batch).uid]

\* onMessage: new, already in this folder, or stored under another folder.
DeltaMessage(p) ==
    LET q == proc[p]
        found == {r \in rows : r.mid = First(q.batch).mid}
    IN
    /\ q.pc = "message" /\ q.batch # {}
    /\ \/ /\ found = {}
          /\ Become(p, [q EXCEPT !.pc = "store"])
       \/ \E existing \in found :
            Become(p, IF existing.box = q.box THEN Handled(q)
                      ELSE [q EXCEPT !.pc = "retag",
                              !.held = InThread(ThreadOf[existing.mid], existing.box)])
    /\ UNCHANGED <<server, store, conn, notice, hist, again, spent>>

\* Remove a set of rows from the database and note where their mail still is.
Remove(gone) ==
    /\ rows' = rows \ gone
    /\ hist' = [hist EXCEPT !.excused = @ \cup PlacesOf({r.mid : r \in gone})]

\* Move detected: each row of the conversation found there follows, or is
\* deleted when this folder has a row of that message.  The query that looks
\* for the other row finds h itself once a job has moved h here.
DeltaRetag(p) ==
    LET q == proc[p] IN
    /\ q.pc = "retag"
    /\ \E h \in q.held :
        LET here == {r \in rows : Same(r, h)} IN
        /\ IF \E r \in rows : r.mid = h.mid /\ r.box = q.box
           THEN Remove(here)
           ELSE /\ rows' = (rows \ here) \cup {[r EXCEPT !.box = q.box] : r \in here}
                /\ UNCHANGED hist
        /\ Become(p, IF q.held = {h} THEN Handled(q) ELSE [q EXCEPT !.held = @ \ {h}])
    /\ UNCHANGED <<server, sync, conn, notice, again, spent>>

\* Mutant of Store: the message goes to the folder selected at the moment.
StoreInSelected(p) ==
    LET q == proc[p]
        new == [mid |-> First(q.batch).mid, box |-> conn.sel, uid |-> First(q.batch).uid, from |-> conn.sel]
    IN
    /\ q.pc = "store" \/ (q.pc = "bmessage" /\ q.batch # {})
    /\ rows' = IF \E r \in rows : r.mid = new.mid /\ r.box = new.box THEN rows ELSE rows \cup {new}
    /\ Become(p, Handled(q))
    /\ UNCHANGED <<server, sync, conn, notice, hist, again, spent>>

\* parseAndStoreEmail: the insert, which a row of this folder turns away.  A
\* message without a Message-ID is skipped; the caller goes on all the same.
Store(p) ==
    LET q == proc[p]
        new == [mid |-> First(q.batch).mid, box |-> q.box, uid |-> First(q.batch).uid, from |-> q.box]
    IN
    /\ q.pc = "store" \/ (q.pc = "bmessage" /\ q.batch # {})
    /\ rows' = IF new.mid \in Anonymous \/ \E r \in rows : r.mid = new.mid /\ r.box = new.box
               THEN rows ELSE rows \cup {new}
    /\ Become(p, Handled(q))
    /\ UNCHANGED <<server, sync, conn, notice, hist, again, spent>>

\* The server answers without the source of a message: backfill skips it, and
\* parseAndStoreEmail finds no Message-ID in it.
NoSource(p) ==
    LET q == proc[p] IN
    /\ Spend
    /\ q.pc = "store" \/ (q.pc = "bmessage" /\ q.batch # {})
    /\ Become(p, Handled(q))
    /\ hist' = [hist EXCEPT !.excused = @ \cup {<<q.box, First(q.batch).uid>>}]
    /\ UNCHANGED <<server, store, conn, notice, again>>

\* Mutant of DeltaWindow: the top of the folder is saved, not of the window.
DeltaWindowToTop(p) ==
    LET q == proc[p] IN
    /\ q.pc = "message" /\ q.batch = {}
    /\ sync' = [sync EXCEPT ![q.box].lastSeen = q.top]
    /\ IF q.pos <= q.top
       THEN Become(p, [q EXCEPT !.pc = "fetch", !.mx = 0]) /\ UNCHANGED conn
       ELSE /\ Become(p, Loop("next", q.todo \ {q.box}))
            /\ conn' = Unlock(p)
    /\ UNCHANGED <<server, rows, notice, hist, again, spent>>

\* The window is through: lastSeenUid advances, then the next window or folder.
DeltaWindow(p) ==
    LET q == proc[p] IN
    /\ q.pc = "message" /\ q.batch = {}
    /\ sync' = IF q.mx > 0 THEN [sync EXCEPT ![q.box].lastSeen = q.mx] ELSE sync
    /\ IF q.pos <= q.top
       THEN Become(p, [q EXCEPT !.pc = "fetch", !.mx = 0]) /\ UNCHANGED conn
       ELSE /\ Become(p, Loop("next", q.todo \ {q.box}))
            /\ conn' = Unlock(p)
    /\ UNCHANGED <<server, rows, notice, hist, again, spent>>

-----------------------------------------------------------------------------
(* imap:backfill-tick.  It selects the folder without taking the lock.      *)

TickStart ==
    /\ proc["job"].pc = "idle"
    /\ Become("job", Loop("bnext", {b \in Boxes : sync[b] # None}))
    /\ UNCHANGED <<server, store, conn, notice, hist, again, spent>>

BackOpen(b) ==
    LET q == proc["job"] IN
    /\ q.pc = "bnext" /\ b \in q.todo
    /\ Inbox \in q.todo => b = Inbox
    /\ conn' = [conn EXCEPT !.sel = b]
    /\ Become("job", [q EXCEPT !.pc = "bboot", !.box = b, !.todo = q.todo \ {b}, !.top = Top(b),
                               !.ls = sync[b].lastSeen, !.pos = sync[b].cursor])
    /\ UNCHANGED <<server, store, notice, hist, again, spent>>

BackBoot ==
    LET q == proc["job"]
        boot == IF q.top < Tail THEN 0 ELSE q.top - Tail + 1
    IN
    /\ q.pc = "bboot"
    /\ IF q.ls = 0
       THEN /\ sync' = [sync EXCEPT ![q.box].lastSeen = boot]
            /\ hist' = [hist EXCEPT !.boot[q.box] = boot]
       ELSE UNCHANGED <<sync, hist>>
    /\ Become("job", IF q.pos <= 0 THEN Loop("bnext", q.todo)
                    ELSE [q EXCEPT !.pc = "bfetch", !.top = 0, !.ls = 0])
    /\ UNCHANGED <<server, rows, conn, notice, again, spent>>

BackStart(q) == IF q.pos < BackWindow THEN 1 ELSE q.pos - BackWindow + 1

BackFetch ==
    LET q == proc["job"]
        range == BackStart(q)..q.pos
    IN
    /\ q.pc = "bfetch"
    /\ Become("job", [q EXCEPT !.pc = "bmessage", !.batch = Listing(conn.sel, range)])
    /\ hist' = IF conn.sel = q.box THEN hist
               ELSE [hist EXCEPT !.excused = @ \cup ({q.box} \X range)]
    /\ UNCHANGED <<server, store, conn, notice, again, spent>>

\* A message larger than what is left of the quota ends the batch.
BackQuota ==
    LET q == proc["job"] IN
    /\ q.pc = "bmessage" /\ q.batch # {}
    /\ Become("job", [q EXCEPT !.batch = {}, !.todo = {}])
    /\ hist' = [hist EXCEPT !.excused = @ \cup {<<q.box, e.uid>> : e \in q.batch}]
    /\ UNCHANGED <<server, store, conn, notice, again, spent>>

\* The cursor moves below the window, also after the quota cut it short; the
\* tick goes on unless the quota is used up.
BackWindowDone ==
    LET q == proc["job"] IN
    /\ q.pc = "bmessage" /\ q.batch = {}
    /\ sync' = [sync EXCEPT ![q.box].cursor = BackStart(q) - 1]
    /\ \E rest \in {q.todo, {}} : Become("job", Loop("bnext", rest))
    /\ UNCHANGED <<server, rows, conn, notice, hist, again, spent>>

-----------------------------------------------------------------------------
(* mail:move and mail:delete-permanent.                                     *)

MoveStart(t, src, dst) ==
    /\ Command(<<"move", t, src, dst>>)
    /\ src # dst /\ InThread(t, src) # {}
    /\ Become("job", [Idle EXCEPT !.pc = "imapmove", !.box = src, !.to = dst, !.held = InThread(t, src),
                                 !.cmd = <<"move", t, src, dst>>])
    /\ UNCHANGED <<server, store, conn, notice, hist>>

\* A failed IMAP move is caught, and the database moves all the same.
ImapMove ==
    LET q == proc["job"] IN
    /\ q.pc = "imapmove"
    /\ \/ /\ conn.lock = None
          /\ ServerMove(q.box, q.to, {h.uid : h \in q.held})
          /\ conn' = [conn EXCEPT !.sel = q.box]
       \/ UNCHANGED <<server, conn, notice>>
    /\ Become("job", [q EXCEPT !.pc = "dbmove"])
    /\ UNCHANGED <<store, hist, again, spent>>

\* One transaction, rolled back when the unique index refuses a row, and also
\* when the conversation list, not modelled here, already has the target.
DbMove ==
    LET q == proc["job"]
        t == ThreadOf[(CHOOSE h \in q.held : TRUE).mid]
        mine == InThread(t, q.box)
    IN
    /\ q.pc = "dbmove"
    /\ \/ UNCHANGED rows /\ again' = Attempted("job")
       \/ /\ UNCHANGED again
          /\ ~\E r \in mine, s \in rows : s.mid = r.mid /\ s.box = q.to
          /\ rows' = (rows \ mine) \cup {[r EXCEPT !.box = q.to] : r \in mine}
    /\ Become("job", Idle)
    /\ UNCHANGED <<server, sync, conn, notice, hist, spent>>

DeleteStart(t, b) ==
    /\ Command(<<"delete", t, b>>)
    /\ InThread(t, b) # {}
    /\ Become("job", [Idle EXCEPT !.pc = "imapdelete", !.box = b, !.held = InThread(t, b),
                                 !.cmd = <<"delete", t, b>>])
    /\ UNCHANGED <<server, store, conn, notice, hist>>

ImapDelete ==
    LET q == proc["job"] IN
    /\ q.pc = "imapdelete"
    /\ \/ /\ conn.lock = None
          /\ ServerDelete(q.box, {h.uid : h \in q.held})
          /\ conn' = [conn EXCEPT !.sel = q.box]
       \/ UNCHANGED <<server, conn, notice>>
    /\ Become("job", [q EXCEPT !.pc = "dbdelete"])
    /\ UNCHANGED <<store, hist, again, spent>>

DbDelete ==
    LET q == proc["job"] IN
    /\ q.pc = "dbdelete"
    /\ Remove({r \in rows : \E h \in q.held : Same(r, h)})
    /\ Become("job", Idle)
    /\ UNCHANGED <<server, sync, conn, notice, again, spent>>

EmptyStart(b) ==
    /\ Command(<<"empty", b>>)
    /\ \/ /\ conn.lock = None
          /\ ServerDelete(b, Uids)
          /\ conn' = [conn EXCEPT !.sel = b]
       \/ UNCHANGED <<server, conn, notice>>
    /\ Become("job", [Idle EXCEPT !.pc = "dbempty", !.box = b, !.cmd = <<"empty", b>>])
    /\ UNCHANGED <<store, hist>>

\* The rows to delete are read after the server was emptied.
DbEmpty ==
    LET q == proc["job"]
        gone == {r \in rows : r.box = q.box}
    IN
    /\ q.pc = "dbempty"
    /\ Remove(gone)
    /\ Become("job", Idle)
    /\ UNCHANGED <<server, sync, conn, notice, again, spent>>

-----------------------------------------------------------------------------
(* handleExpunge: one transaction per notice.                               *)

HandleExpunge(u) ==
    LET mine == {r \in rows : r.box = Inbox /\ r.uid = u} IN
    /\ u \in notice.expunged
    /\ notice' = [notice EXCEPT !.expunged = @ \ {u}]
    /\ \/ mine = {} /\ UNCHANGED <<rows, hist>>
       \/ \E r \in mine : Remove({r})
    /\ UNCHANGED <<server, sync, proc, conn, again, spent>>

-----------------------------------------------------------------------------
(* Faults: an exception ends a function (its finally releases the lock),    *)
(* the worker restarts.  The listing of a stored message throws when its row *)
(* has gone meanwhile: one of the exceptions.                                *)

\* Mutant of Fail: the lock is not released in a finally.
FailKeepingLock(p) ==
    /\ Spend
    /\ proc[p].pc # "idle"
    /\ again' = Attempted(p)
    /\ Become(p, Idle)
    /\ UNCHANGED <<server, store, conn, notice, hist>>

Fail(p) ==
    /\ Spend
    /\ proc[p].pc # "idle"
    /\ again' = Attempted(p)
    /\ Become(p, Idle)
    /\ conn' = Unlock(p)
    /\ UNCHANGED <<server, store, notice, hist>>

Crash ==
    /\ Spend
    /\ again' = Attempted("job")
    /\ proc' = [p \in Procs |-> Idle]
    /\ conn' = Fresh
    /\ notice' = NoNotice
    /\ UNCHANGED <<server, store, hist>>

-----------------------------------------------------------------------------
DeltaStep(p) ==
    \/ (\E b \in Boxes : DeltaOpen(p, b)) \/ DeltaFetch(p) \/ DeltaMessage(p)
    \/ DeltaRetag(p) \/ Store(p) \/ NoSource(p) \/ DeltaWindow(p)

JobStep ==
    \/ (\E b \in Boxes : BackOpen(b)) \/ BackBoot \/ BackFetch
    \/ BackQuota \/ BackWindowDone
    \/ ImapMove \/ DbMove \/ ImapDelete \/ DbDelete \/ DbEmpty

Step(p) == DeltaStep(p) \/ (p = "job" /\ JobStep)

Next ==
    \/ \E b \in Entry, m \in Mids : Arrive(b, m)
    \/ \E b, c \in Boxes, u \in Uids : OtherMove(b, u, c)
    \/ \E b \in Boxes, u \in Uids : OtherExpunge(b, u)
    \/ \E b \in Boxes : EmptyStart(b)
    \/ \E p \in Procs : DeltaStart(p) \/ Step(p) \/ Fail(p)
    \/ Discover \/ TickStart
    \/ \E t \in Threads, b, c \in Boxes : MoveStart(t, b, c)
    \/ \E t \in Threads, b \in Boxes : DeleteStart(t, b)
    \/ \E u \in Uids : HandleExpunge(u)
    \/ Crash

Spec == Init /\ [][Next]_vars

-----------------------------------------------------------------------------
\* The values every variable ranges over; cursors stay within the folder.
TypeOK ==
    /\ srv \in [Boxes -> [Uids -> Mids \cup {None}]]
    /\ uidNext \in [Boxes -> 1..(MaxUid + 1)]
    /\ \A b \in Boxes : sync[b] # None => sync[b] \in [lastSeen : 0..MaxUid, cursor : 0..MaxUid]
    /\ rows \subseteq Rows
    /\ conn \in [sel : Boxes \cup {None}, lock : Procs \cup {None}]
    /\ notice.expunged \subseteq Uids

\* The mailbox lock belongs to a run that is at work in a folder, whichever way
\* its predecessors ended: a lock left behind would stop every later delta
\* fetch, move and delete of the identity.
LockOwned ==
    \A p \in Procs : conn.lock = p => proc[p].pc \in {"fetch", "message", "store", "retag"}

\* The part of folder b that synchronisation claims to be through with: what is
\* above the cursor of backfill was there when backfill began or is not above
\* lastSeenUid, and what delta fetches passed.
Passed(b) ==
    {u \in Uids : sync[b] # None /\ \/ sync[b].cursor < u /\ (u <= sync[b].lastSeen \/ u <= hist.top[b])
                                    \/ hist.boot[b] < u /\ u <= sync[b].lastSeen}

\* Uids given out between imap:backfill-discover, which sets the cursor, and the
\* first tick, which sets lastSeenUid, and below the tail that is left to delta
\* fetches: neither reads them.
Gap(b) == {u \in Uids : hist.top[b] < u /\ u <= hist.boot[b]}

\* A message that synchronisation has passed and that is still on the server
\* is in the database.  The exceptions are all there are: it has no Message-ID;
\* its uid is in the gap between backfill and delta fetches; its row was
\* removed (by a delete, by an expunge notice, or by the move detection taking
\* a row for its own duplicate); it fell to the backfill quota; the server
\* gave no source for it; or the fetch that should have read it was answered
\* from another folder.
NothingMissed ==
    \A b \in Boxes : \A u \in Passed(b) \ Gap(b) :
        srv[b][u] # None =>
            \/ srv[b][u] \in Known \cup Anonymous
            \/ <<b, u>> \in hist.excused

\* IMAP commands name messages by the uid kept in the row.  A row that sits
\* where it was stored names its own message or none, so a command made from
\* it never touches somebody else's mail.
UidNamesOwnMail ==
    \A r \in rows :
        r.box = r.from /\ <<r.box, r.uid>> \notin hist.excused =>
            srv[r.box][r.uid] \in {r.mid, None}

=============================================================================
