----------------------------- MODULE MailFlags -----------------------------
(***************************************************************************)
(* The flags of the mails of a conversation, and the two places that       *)
(* repeat them: the conversation's entry in the list (mailbox_threads) and *)
(* the IMAP server.                                                        *)
(*                                                                         *)
(* One conversation in one folder of an IMAP account.  The worker process  *)
(* runs parseAndStoreEmail for up to two mails at a time and one job at a  *)
(* time of each of the queues common-worker (rules) and smtp-worker        *)
(* (mail:set-flags); the web process runs the user's commands.  Other IMAP *)
(* clients change flags on the server, which tells the IDLE connection, if *)
(* the folder is the INBOX and the connection is up, of every change, the  *)
(* job's own ones included; each notice has a handler of its own.  A step  *)
(* ends at an await; the statements of a transaction that follow its first *)
(* one are one step.                                                       *)
(*                                                                         *)
(* The buffer between parseAndStoreEmail and the rules is abstracted to    *)
(* its effect: an entry is queued, late, or dropped by a flush that clears *)
(* what came in while it awaited.  Left out: moves and deletions (module   *)
(* MailSync), rule actions that move or label, webhooks, the search index, *)
(* contacts and attachments.                                               *)
(***************************************************************************)
EXTENDS Integers, Sequences, SequencesExt, FiniteSets

CONSTANTS
    Mids,       \* mails of the conversation
    Live,       \* those that delta fetch brings; the others are backfilled
    NewMail,    \* the flags a mail may arrive with
    RuleActs,   \* the sequences of actions that the rules can come to
    Handlers,   \* the handlers of notices that may be at work at a time
    MaxOps,     \* bound: commands of the user
    MaxFaults,  \* bound: exceptions, refused calls, deaths of the worker, and
                \* changes by other IMAP clients
    MaxTold,    \* bound: changes that the IDLE connection is told of
    None

Row == [seen : BOOLEAN, flag : BOOLEAN]
Ops == {"read", "unread", "flag", "unflag"}
Fields == {"seen", "flag"}
Commanders == {"web", "rule", "job"}
Writers == Commanders \cup Handlers

ASSUME MailFlagsAssumption ==
    /\ IsFiniteSet(Mids) /\ Live \subseteq Mids /\ NewMail \subseteq Row
    /\ RuleActs \subseteq Seq({"read", "flag"})
    /\ Mids \cap Writers = {} /\ Commanders \cap Handlers = {} /\ None \notin Mids
    /\ MaxOps \in Nat /\ MaxTold \in Nat /\ MaxFaults \in Nat
    /\ None \notin Row /\ None \notin [unread : Nat, star : BOOLEAN]

VARIABLES
    msg,      \* messages rows of the conversation
    srv,      \* the flags the IMAP server holds (external)
    list,     \* its mailbox_threads row: unread count and star
    intake,   \* parseAndStoreEmail of each mail: where it is, what it counted
    cq,       \* queue common-worker: mails for the rules
    common,   \* its worker: the mail, and the rule actions to come; stalled jobs
    fq,       \* queue smtp-worker: set-flags jobs
    late,     \* set-flags jobs that wait for their next attempt or have stalled, one per command
    writer,   \* who is changing flags: the web action, a rule, the job, handlers of notices
    inbox,    \* notices of the IMAP server that no handler has taken up: a mail and its flags
    hist,     \* the last word on each flag, and what races and faults spoiled
    ops, told, faults
vars == <<msg, srv, list, intake, cq, common, fq, late, writer, inbox, hist, ops, told, faults>>

rules == <<cq, common>>
flags == <<fq, late, writer>>

\* A handler has the flags to set in row; ok: what the job has set on the server
\* and has read there still stands.
NoWriter == [pc |-> "off", op |-> "none", row |-> None, rows |-> {}, locked |-> {},
             unread |-> 0, star |-> FALSE, ok |-> TRUE]
NoCommon == [mail |-> None, acts |-> <<>>, stalled |-> {}]
NoWord == [op |-> "none", rows |-> {}]

Stored == {m \in Mids : msg[m] # None}
Unread(f) == Cardinality({m \in Stored : ~f[m].seen})
Starred(f) == \E m \in Stored : f[m].flag

\* Mutant of Marked: a star is never taken away.
MarkedOnly(op, r) == [seen |-> (r.seen \/ op = "read") /\ op # "unread", flag |-> r.flag \/ op = "flag"]
Marked(op, r) == [seen |-> (r.seen \/ op = "read") /\ op # "unread",
                  flag |-> (r.flag \/ op = "flag") /\ op # "unflag"]
With(op, ms) == [m \in Mids |-> IF m \in ms THEN Marked(op, msg[m]) ELSE msg[m]]
About(op) == IF op \in {"read", "unread"} THEN "seen" ELSE "flag"
Has(op) == op \in {"read", "flag"}
Notice(m, r) == [mail |-> m, row |-> r]

\* The IDLE connection is told of flags that have changed.
Tell(ns) == told < MaxTold /\ told' = told + 1 /\ inbox' = inbox \cup ns
Fault == faults < MaxFaults /\ faults' = faults + 1
AtWork(m) == intake[m].pc \in {"count", "upsert"}
\* Who has read what it is going to write to the list.
Counting == {m \in Mids : intake[m].pc = "upsert"} \cup {p \in Writers : writer[p].pc = "write"}
\* A row is locked by the transaction that has updated it: no row is, or m is not.
RowsFree == \A p \in Writers \ {"rule"} : writer[p].pc # "write"
RowFree(m) == \A p \in Writers \ {"rule"} : writer[p].pc = "write" => m \notin writer[p].locked
\* p changes rows or list: whoever else is counting will write what is past.
Touched(p) == (hist.dirty \cup Counting) \ {p}

Init ==
    /\ msg = [m \in Mids |-> None] /\ srv = [m \in Mids |-> None]
    /\ list = None
    /\ intake = [m \in Mids |-> [pc |-> "off", unread |-> 0, star |-> FALSE]]
    /\ cq = <<>> /\ common = NoCommon
    /\ fq = <<>> /\ late = {}
    /\ writer = [p \in Writers |-> NoWriter] /\ inbox = {}
    /\ hist = [word |-> [seen |-> NoWord, flag |-> NoWord], unsure |-> {}, apart |-> {},
               dirty |-> {}, raced |-> {}]
    /\ ops = 0 /\ told = 0 /\ faults = 0
-----------------------------------------------------------------------------
(* parseAndStoreEmail after the insert.                                     *)

\* The smtp-worker is in its one job or delta fetch, and IDLE runs another one.
Arrive(m) ==
    /\ intake[m].pc = "off"
    /\ Cardinality({n \in Mids : AtWork(n)}) + (IF writer["job"].pc = "off" THEN 0 ELSE 1) < 2
    /\ \E r \in NewMail : msg' = [msg EXCEPT ![m] = r] /\ srv' = [srv EXCEPT ![m] = r]
    /\ intake' = [intake EXCEPT ![m].pc = "count"]
    /\ hist' = [hist EXCEPT !.dirty = Touched(m)]
    /\ UNCHANGED <<list, rules, flags, inbox, ops, told, faults>>

\* upsertMailboxThreadItem: counts, then writes; the star accumulates.
ListCount(m) ==
    /\ intake[m].pc = "count"
    /\ intake' = [intake EXCEPT ![m] = [pc |-> "upsert", unread |-> Unread(msg), star |-> Starred(msg)]]
    /\ hist' = [hist EXCEPT !.dirty = @ \ {m}]
    /\ UNCHANGED <<msg, srv, list, rules, flags, inbox, ops, told, faults>>

\* What the upsert makes of the entry, n being its count of unread mails.
Upserted(m, n) ==
    /\ list' = [unread |-> n, star |-> (list # None /\ list.star) \/ intake[m].star]
    /\ intake' = [intake EXCEPT ![m] = [pc |-> IF m \in Live THEN "held" ELSE "done", unread |-> 0, star |-> FALSE]]
    /\ hist' = [hist EXCEPT !.dirty = Touched(m),
                            !.raced = IF m \in hist.dirty THEN @ \cup {"unread", "star"} ELSE @ \ {"unread"}]
    /\ UNCHANGED <<msg, srv, rules, flags, inbox, ops, told, faults>>

\* Mutant of ListUpsert: the mail is added to the count that is there.
ListUpsertAdds(m) ==
    /\ intake[m].pc = "upsert"
    /\ Upserted(m, IF list = None THEN 1 ELSE list.unread + 1)

ListUpsert(m) ==
    /\ intake[m].pc = "upsert"
    /\ Upserted(m, intake[m].unread)

\* The entry of a mail of delta fetch is in the buffer; flushBatches queues it, or has cleared it
\* with what came in while it awaited.
FlushBatches(m) ==
    /\ intake[m].pc = "held"
    /\ intake' = [intake EXCEPT ![m].pc = "done"]
    /\ cq' \in {cq, Append(cq, m)}
    /\ UNCHANGED <<msg, srv, list, common, flags, inbox, hist, ops, told, faults>>

\* A statement throws: the row stays, and nothing comes back to it.
IntakeBreaks(m) ==
    /\ Fault
    /\ AtWork(m)
    /\ intake' = [intake EXCEPT ![m] = [pc |-> "lost", unread |-> 0, star |-> FALSE]]
    /\ hist' = [hist EXCEPT !.dirty = @ \ {m}, !.raced = @ \cup {"unread", "star"}]
    /\ UNCHANGED <<msg, srv, list, rules, flags, inbox, ops, told>>
-----------------------------------------------------------------------------
(* Flags: markAsRead, markAsUnread and toggleStar of the web process, the   *)
(* actions of a rule, and the job mail:set-flags that both of them queue.   *)

Goto(p, pc) == writer' = [writer EXCEPT ![p].pc = pc]
End(p) == writer' = [writer EXCEPT ![p] = NoWriter]

\* p opens its transaction: the rows are updated, locked, and counted.
Begin(p, op) ==
    /\ RowsFree
    /\ writer' = [writer EXCEPT ![p] = [pc |-> "write", op |-> op, row |-> None, rows |-> @.rows, locked |-> Stored,
                                        unread |-> Unread(With(op, Stored)), star |-> Starred(With(op, Stored)),
                                        ok |-> @.ok]]

\* Commands on the same flag that are under way, or whose job waits for its
\* next attempt or has stalled: they may yet come after the command op.
Rivals(op, p) == \/ \E q \in {"web", "rule"} \ {p} : writer[q].pc # "off" /\ About(writer[q].op) = About(op)
                 \/ \E l \in late : About(l) = About(op)

\* A command is given: it is the last word on its flag.
Spoken(op, p) ==
    [hist EXCEPT !.word[About(op)] = [op |-> op, rows |-> Stored],
                 !.unsure = IF Rivals(op, p) THEN @ \cup {About(op)} ELSE @ \ {About(op)}]

\* The user marks the conversation, or stars it, which is left to the job.
WebCommand(op) ==
    /\ list # None /\ ops < MaxOps /\ ops' = ops + 1
    /\ writer["web"].pc = "off"
    /\ IF op \in {"read", "unread"}
       THEN Begin("web", op)
       ELSE writer' = [writer EXCEPT !["web"] = [NoWriter EXCEPT !.pc = "queue", !.op = op]]
    /\ hist' = Spoken(op, "web")
    /\ UNCHANGED <<msg, srv, list, intake, rules, fq, late, inbox, told, faults>>

\* The transaction commits.
WebWrite ==
    LET w == writer["web"] IN
    /\ w.pc = "write"
    /\ msg' = With(w.op, w.locked)
    /\ list' = [list EXCEPT !.unread = IF w.op = "read" THEN 0 ELSE w.unread]
    /\ Goto("web", "queue")
    /\ hist' = [hist EXCEPT !.dirty = Touched("web"),
                            !.raced = IF "web" \in hist.dirty THEN @ \cup {"unread"} ELSE @ \ {"unread"}]
    /\ UNCHANGED <<srv, intake, rules, fq, late, inbox, ops, told, faults>>

\* processRules comes to the actions of the rules that match the mail.
CommonTake ==
    /\ cq # <<>> /\ common.mail = None
    /\ cq' = Tail(cq)
    /\ \E as \in RuleActs : common' = [common EXCEPT !.mail = Head(cq), !.acts = as]
    /\ UNCHANGED <<msg, srv, list, intake, flags, inbox, hist, ops, told, faults>>

\* The next action: mark_read updates the rows, which waits for their locks;
\* flag is left to the job.
RuleAct ==
    /\ common.acts # <<>> /\ writer["rule"].pc = "off"
    /\ LET op == Head(common.acts) IN
       /\ common' = [common EXCEPT !.acts = Tail(@)]
       /\ hist' = [Spoken(op, "rule") EXCEPT !.dirty = IF op = "read" THEN Touched("rule") ELSE @]
       /\ IF op = "read"
          THEN /\ RowsFree
               /\ msg' = With("read", Stored)
               /\ writer' = [writer EXCEPT !["rule"] = [NoWriter EXCEPT !.pc = "write", !.op = op]]
          ELSE /\ writer' = [writer EXCEPT !["rule"] = [NoWriter EXCEPT !.pc = "queue", !.op = op]]
               /\ UNCHANGED msg
    /\ UNCHANGED <<srv, list, intake, cq, fq, late, inbox, ops, told, faults>>

\* Its second statement, outside of any transaction.
RuleWrite ==
    /\ writer["rule"].pc = "write"
    /\ list' = [list EXCEPT !.unread = 0]
    /\ Goto("rule", "queue")
    /\ hist' = [hist EXCEPT !.dirty = Touched("rule"),
                            !.raced = IF "rule" \in hist.dirty THEN @ \cup {"unread"} ELSE @ \ {"unread"}]
    /\ UNCHANGED <<msg, srv, intake, rules, fq, late, inbox, ops, told, faults>>

\* The job completes when its last action has.
CommonDone ==
    /\ common.mail # None /\ common.acts = <<>> /\ writer["rule"].pc = "off"
    /\ common' = [NoCommon EXCEPT !.stalled = common.stalled]
    /\ UNCHANGED <<msg, srv, list, intake, cq, flags, inbox, hist, ops, told, faults>>

\* A rule job whose worker died is found to have stalled: it is the next one.
CommonBack ==
    \E m \in common.stalled :
        /\ common' = [common EXCEPT !.stalled = @ \ {m}]
        /\ cq' = <<m>> \o cq
        /\ UNCHANGED <<msg, srv, list, intake, flags, inbox, hist, ops, told, faults>>

\* Both leave the rest to the job.
Queue(p) ==
    /\ writer[p].pc = "queue"
    /\ fq' = Append(fq, writer[p].op)
    /\ End(p)
    /\ UNCHANGED <<msg, srv, list, intake, rules, late, inbox, hist, ops, told, faults>>

\* The job cannot be queued, which markAsRead and markAsUnread only log, or the
\* web process dies; a rule's job ends there.
CommandBreaks(p) ==
    LET f == About(writer[p].op) IN
    /\ Fault
    /\ writer[p].pc = "queue"
    /\ End(p)
    /\ hist' = [hist EXCEPT !.unsure = @ \cup {f}, !.apart = @ \cup {f}]
    /\ common' = IF p = "rule" THEN [NoCommon EXCEPT !.stalled = common.stalled] ELSE common
    /\ UNCHANGED <<msg, srv, list, intake, cq, fq, late, inbox, ops, told>>
-----------------------------------------------------------------------------
(* mail:set-flags, in the smtp-worker.                                      *)

\* mailSetFlags reads the mails of the conversation.
JobStart ==
    /\ fq # <<>> /\ writer["job"].pc = "off"
    /\ Cardinality({m \in Mids : AtWork(m)}) < 2
    /\ fq' = Tail(fq)
    /\ writer' = [writer EXCEPT !["job"] = [NoWriter EXCEPT !.pc = "store", !.op = Head(fq), !.rows = Stored]]
    /\ UNCHANGED <<msg, srv, list, intake, rules, late, inbox, hist, ops, told, faults>>

\* Mutant of JobStore: a flag is added where it should be removed.
JobStoreAdds ==
    LET w == writer["job"]
        op == IF w.op \in {"read", "unread"} THEN "read" ELSE "flag"
    IN
    /\ w.pc = "store"
    /\ srv' = [m \in Mids |-> IF m \in w.rows THEN Marked(op, srv[m]) ELSE srv[m]]
    /\ Goto("job", "begin")
    /\ UNCHANGED <<msg, list, intake, rules, fq, late, inbox, hist, ops, told, faults>>

\* The IMAP server sets the flag on the mails read, and may tell of those that it
\* changed for.
JobStore ==
    LET w == writer["job"] IN
    /\ w.pc = "store"
    /\ srv' = [m \in Mids |-> IF m \in w.rows THEN Marked(w.op, srv[m]) ELSE srv[m]]
    /\ \/ Tell({Notice(m, srv'[m]) : m \in {n \in w.rows : srv'[n] # srv[n]}})
       \/ UNCHANGED <<inbox, told>>
    /\ Goto("job", "begin")
    /\ UNCHANGED <<msg, list, intake, rules, fq, late, hist, ops, faults>>

\* The server refuses, which is logged and forgotten; or the connection is not
\* usable, and the job does nothing and succeeds.
JobRefused ==
    /\ Fault
    /\ writer["job"].pc = "store"
    /\ LET f == About(writer["job"].op) IN
       \/ /\ writer' = [writer EXCEPT !["job"].pc = "begin", !["job"].ok = FALSE]
          /\ hist' = [hist EXCEPT !.apart = @ \cup {f}]
       \/ /\ End("job")
          /\ hist' = [hist EXCEPT !.apart = @ \cup {f}, !.unsure = @ \cup {f}]
    /\ UNCHANGED <<msg, srv, list, intake, rules, fq, late, inbox, ops, told>>

\* The job for op is to run once more, later than what comes meanwhile.
Overtakable(op) ==
    IF Rivals(op, "job") \/ \E i \in DOMAIN fq : About(fq[i]) = About(op) THEN {About(op)} ELSE {}

\* The transaction fails, or, after its commit, the index cannot be told: the job
\* waits for its next attempt, or this was the last of its three.
JobFails ==
    LET op == writer["job"].op IN
    /\ Fault
    /\ writer["job"].pc \in {"begin", "index"}
    /\ End("job")
    /\ \/ /\ late' = late \cup {op}
          /\ hist' = [hist EXCEPT !.unsure = @ \cup Overtakable(op)]
       \/ /\ hist' = IF writer["job"].pc = "index" THEN hist
                     ELSE [hist EXCEPT !.unsure = @ \cup {About(op)}, !.apart = @ \cup {About(op)}]
          /\ UNCHANGED late
    /\ UNCHANGED <<msg, srv, list, intake, rules, fq, inbox, ops, told>>

\* A job's delay is over, and it goes to the end of the queue; or it is found to
\* have stalled, and is the next one.
Promote ==
    \E op \in late :
        /\ late' = late \ {op}
        /\ fq' \in {Append(fq, op), <<op>> \o fq}
        /\ UNCHANGED <<msg, srv, list, intake, rules, writer, inbox, hist, ops, told, faults>>

JobBegin ==
    /\ writer["job"].pc = "begin"
    /\ Begin("job", writer["job"].op)
    /\ UNCHANGED <<msg, srv, list, intake, rules, fq, late, inbox, hist, ops, told, faults>>

\* The transaction commits.  A mail that came after JobStart is marked here and
\* not on the server.
JobWrite ==
    LET w == writer["job"]
        f == About(w.op)
    IN
    /\ w.pc = "write"
    /\ msg' = With(w.op, w.locked)
    /\ list' = [unread |-> w.unread, star |-> w.star]
    /\ Goto("job", "index")
    /\ hist' = [hist EXCEPT !.dirty = Touched("job"),
                            !.raced = IF "job" \in hist.dirty THEN {"unread", "star"} ELSE {},
                            !.apart = IF w.ok /\ w.locked \subseteq w.rows THEN @ \ {f} ELSE @ \cup {f}]
    /\ UNCHANGED <<srv, intake, rules, fq, late, inbox, ops, told, faults>>

\* The index is told to refresh the conversation, and the job completes.
JobEnds ==
    /\ writer["job"].pc = "index"
    /\ End("job")
    /\ UNCHANGED <<msg, srv, list, intake, rules, fq, late, inbox, hist, ops, told, faults>>
-----------------------------------------------------------------------------
(* Notices of the IMAP server, and handleFlagsUpdate.                       *)

\* The fields in which the flags r differ from those that table holds for m.
Differs(table, m, r) == {f \in Fields : r[f] # table[m][f]}
\* The server and the rows are not, or not yet, the same in the fields fs; the
\* job that is at work on one of them must not count on what it has set or read.
Parted(fs) == [hist EXCEPT !.apart = @ \cup fs]
Doubted(fs) ==
    [writer EXCEPT !["job"].ok = @ /\ ~(writer["job"].pc \in {"begin", "write"} /\ About(writer["job"].op) \in fs)]

\* Another client changes the flags of a mail.  The IDLE connection is told, or
\* it is down, or on another folder.
OtherClient(m) ==
    /\ Fault
    /\ m \in Stored
    /\ \E r \in Row \ {srv[m]} :
          /\ srv' = [srv EXCEPT ![m] = r]
          /\ writer' = Doubted(Differs(srv, m, r))
          /\ \/ Tell({Notice(m, r)}) /\ UNCHANGED hist
             \/ hist' = Parted(Differs(srv, m, r) \cap Differs(msg, m, r)) /\ UNCHANGED <<inbox, told>>
    /\ UNCHANGED <<msg, list, intake, rules, fq, late, ops>>

\* A handler takes up a notice, in any order, and reads the row: if it has the
\* flags already there is nothing to do.
NoticeRead(h) ==
    /\ writer[h].pc = "off"
    /\ \E n \in inbox :
          /\ inbox' = inbox \ {n}
          /\ writer' = IF msg[n.mail] = n.row THEN writer
                       ELSE [writer EXCEPT ![h] = [NoWriter EXCEPT !.pc = "begin", !.rows = {n.mail}, !.row = n.row]]
    /\ UNCHANGED <<msg, srv, list, intake, rules, fq, late, hist, ops, told, faults>>

\* The rows when the flags of the notice are set.
Noticed(w) == [m \in Mids |-> IF m \in w.rows THEN w.row ELSE msg[m]]

\* The row is updated, locked, and the rows are counted.
NoticeBegin(h) ==
    LET w == writer[h] IN
    /\ w.pc = "begin"
    /\ \A m \in w.rows : RowFree(m)
    /\ writer' = [writer EXCEPT ![h] = [w EXCEPT !.pc = "write", !.locked = w.rows,
                                        !.unread = Unread(Noticed(w)), !.star = Starred(Noticed(w))]]
    /\ UNCHANGED <<msg, srv, list, intake, rules, fq, late, inbox, hist, ops, told, faults>>

\* The transaction commits: both flags are the notice's, whatever was commanded
\* since it was sent.
NoticeWrite(h) ==
    LET w == writer[h]
        against == {f \in Fields : \E m \in w.rows \cap hist.word[f].rows : w.row[f] # Has(hist.word[f].op)}
        past == {f \in Fields : \E m \in w.rows : w.row[f] # srv[m][f]}
    IN
    /\ w.pc = "write"
    /\ msg' = Noticed(w)
    /\ list' = IF list = None THEN None ELSE [unread |-> w.unread, star |-> w.star]
    /\ writer' = [Doubted(past) EXCEPT ![h] = NoWriter]
    /\ hist' = [hist EXCEPT !.dirty = Touched(h),
                            !.raced = IF list = None THEN @ ELSE IF h \in hist.dirty THEN {"unread", "star"} ELSE {},
                            !.unsure = @ \cup against, !.apart = @ \cup past]
    /\ UNCHANGED <<srv, intake, rules, fq, late, inbox, ops, told, faults>>

\* A statement of the handler throws, and nothing comes back to the notice.
NoticeBreaks(h) ==
    /\ Fault
    /\ h \in Handlers /\ writer[h].pc # "off"
    /\ LET fs == {f \in Fields : \E m \in writer[h].rows : writer[h].row[f] # msg[m][f]} IN
       /\ writer' = [Doubted(fs) EXCEPT ![h] = NoWriter]
       /\ hist' = [Parted(fs) EXCEPT !.dirty = @ \ {h}]
    /\ UNCHANGED <<msg, srv, list, intake, rules, fq, late, inbox, ops, told>>
-----------------------------------------------------------------------------
\* The worker process dies: intakes, buffers and notices are gone, uncommitted
\* writes are undone, and the jobs that were active come back once their locks
\* have expired, behind whatever runs meanwhile.
Crash ==
    LET uncounted == \E m \in Mids : AtWork(m)
        half == writer["rule"].pc # "off"
        f == IF half THEN {About(writer["rule"].op)} ELSE {}
        jobs == IF writer["job"].pc # "off" THEN {writer["job"].op} ELSE {}
        unheard == {g \in Fields : \/ \E n \in inbox : n.row[g] # msg[n.mail][g]
                                   \/ \E h \in Handlers : \E m \in writer[h].rows : writer[h].row[g] # msg[m][g]}
    IN
    /\ Fault
    /\ intake' = [m \in Mids |-> IF AtWork(m) \/ intake[m].pc = "held" THEN [pc |-> "lost", unread |-> 0, star |-> FALSE]
                                 ELSE intake[m]]
    /\ common' = [NoCommon EXCEPT !.stalled = common.stalled \cup ({common.mail} \ {None})]
    /\ late' = late \cup jobs
    /\ writer' = [p \in Writers |-> IF p = "web" THEN writer[p] ELSE NoWriter]
    /\ inbox' = {}
    /\ hist' = [hist EXCEPT
           !.dirty = @ \cap {"web"},
           !.raced = @ \cup (IF uncounted THEN {"unread", "star"} ELSE {}) \cup (IF half THEN {"unread"} ELSE {}),
           !.unsure = @ \cup f \cup UNION {Overtakable(op) : op \in jobs}, !.apart = @ \cup f \cup unheard]
    /\ UNCHANGED <<msg, srv, list, cq, fq, ops, told>>

Next ==
    \/ \E m \in Mids : Arrive(m) \/ ListCount(m) \/ ListUpsert(m) \/ FlushBatches(m) \/ IntakeBreaks(m)
    \/ \E op \in Ops : WebCommand(op)
    \/ WebWrite
    \/ CommonTake \/ RuleAct \/ RuleWrite \/ CommonDone \/ CommonBack
    \/ \E p \in {"web", "rule"} : Queue(p) \/ CommandBreaks(p)
    \/ JobStart \/ JobStore \/ JobRefused \/ JobFails \/ Promote \/ JobBegin \/ JobWrite \/ JobEnds
    \/ \E m \in Mids : OtherClient(m)
    \/ \E h \in Handlers : NoticeRead(h) \/ NoticeBegin(h) \/ NoticeWrite(h) \/ NoticeBreaks(h)
    \/ Crash

Spec == Init /\ [][Next]_vars
-----------------------------------------------------------------------------
\* Nothing is under way.
AtRest ==
    /\ \A m \in Mids : intake[m].pc \in {"off", "done", "lost"}
    /\ cq = <<>> /\ common = NoCommon
    /\ fq = <<>> /\ late = {} /\ inbox = {} /\ \A p \in Writers : writer[p].pc = "off"

\* upsertMailboxThreadItem, markAsRead, markAsUnread, mailSetFlags and
\* handleFlagsUpdate: when all work is done, the list shows the number of unread
\* mails and the star that the rows add up to, however arrivals, commands and
\* notices interleave, unless the last write to it came from a count that another
\* write had overtaken, an intake broke off between its insert and its upsert, or
\* the worker died there or between the two statements of a rule.
ListTruth ==
    (AtRest /\ list # None) =>
        /\ "unread" \in hist.raced \/ list.unread = Unread(msg)
        /\ "star" \in hist.raced \/ list.star = Starred(msg)

\* markAsRead, markAsUnread, toggleStar and their job: when all work is done the
\* rows that the last command on a flag was about have it, whatever older jobs
\* were still queued, unless a rival command overlapped it, a retried or stalled
\* job could come in behind it, a fault kept its job from being queued or run, or
\* a notice has since set it otherwise.
LastWordKept ==
    AtRest => \A f \in Fields \ hist.unsure : \A m \in hist.word[f].rows : msg[m][f] = Has(hist.word[f].op)

\* mailSetFlags and handleFlagsUpdate: when all work is done the IMAP server holds
\* the flags that the rows hold, although other clients change them and notices
\* are handled in any order, unless the last job on the flag failed, was refused
\* or never queued, or marked a row that came in after it had read the mails to
\* mark, a change by another client came while it ran, or a notice was never sent,
\* was lost, or was out of date when it was written.
ServerFollows ==
    AtRest => \A f \in Fields \ hist.apart : \A m \in Stored : srv[m][f] = msg[m][f]
=============================================================================
