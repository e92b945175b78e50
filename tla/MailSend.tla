------------------------------ MODULE MailSend ------------------------------
(***************************************************************************)
(* Sending mail from the webmail: the web action sendMail, scheduled       *)
(* drafts, the queue send-mail and its workers, the Sent folder and the    *)
(* search index.                                                           *)
(*                                                                         *)
(* A mail is scheduled (a draft_messages row and a delayed job that names  *)
(* it) or direct (a job that carries the mail).  The queue is BullMQ: a    *)
(* job whose worker stops renewing its lock is stalled and handed to a     *)
(* worker again, MaxStalls times, while the first worker may still be at   *)
(* it.  The delay of a scheduled job may have passed at any moment.        *)
(*                                                                         *)
(* Left out: subject, body, threading headers and attachments; the choice  *)
(* between the two mail services, which behave alike here.                 *)
(***************************************************************************)
EXTENDS Integers, FiniteSets

CONSTANTS
    Drafts,     \* scheduled mails
    Direct,     \* mails sent at once
    Workers,    \* worker processes of the queue send-mail
    MaxStalls,  \* BullMQ's maxStalledCount (1 by default)
    MaxFaults,  \* bound: deaths of processes and stalls
    None

ASSUME MailSendAssumption ==
    /\ Drafts \cap Direct = {}
    /\ None \notin Workers \cup Drafts \cup Direct
    /\ MaxStalls \in Nat /\ MaxFaults \in Nat
    /\ IsFiniteSet(Workers)

Mails == Drafts \cup Direct

VARIABLES
    web,      \* the sendMail action of each mail
    draft,    \* draft_messages.status, or "none" / "deleted"
    job,      \* queue: state, owner and stall count
    proc,     \* what each worker is doing
    out,      \* how often the mail service took the mail
    sentRow,  \* committed rows of the Sent folder, per mail
    toIndex,  \* search-ingest jobs, per mail
    indexed,  \* mails with a document in the search index
    hist,     \* withdrawn drafts, and mails that lost a run past its claim
    faults

vars == <<web, draft, job, proc, out, sentRow, toIndex, indexed, hist, faults>>
search == <<toIndex, indexed>>

DraftStatus == {"none", "scheduled", "sending", "sent", "failed", "deleted"}
JobState == {"none", "waiting", "active", "completed", "failed"}
NoJob == [state |-> "none", owner |-> None, stalls |-> 0]
Off == [pc |-> "off", mail |-> None]
Steps == {"off", "read", "claim", "mail", "store", "commit", "sent", "failed"}

Init ==
    /\ web = [k \in Mails |-> "new"]
    /\ draft = [d \in Drafts |-> "none"]
    /\ job = [k \in Mails |-> NoJob]
    /\ proc = [w \in Workers |-> Off]
    /\ out = [k \in Mails |-> 0]
    /\ sentRow = [k \in Mails |-> 0]
    /\ toIndex = [k \in Mails |-> 0]
    /\ indexed = {}
    /\ hist = [withdrawn |-> {}, lost |-> {}]
    /\ faults = 0

Fault == faults < MaxFaults /\ faults' = faults + 1
Go(w, pc) == proc' = [proc EXCEPT ![w].pc = pc]

\* Mutant of Finish: a job that fails is attempted again.
FinishRetrying(w, state) ==
    LET k == proc[w].mail IN
    /\ proc' = [proc EXCEPT ![w] = Off]
    /\ job' = IF job[k].owner # w THEN job
              ELSE [job EXCEPT ![k].state = IF state = "failed" THEN "waiting" ELSE state,
                               ![k].owner = None]

\* The processor returned or threw.  A worker that lost its lock to a stall
\* has no say in the job's state any more.
Finish(w, state) ==
    LET k == proc[w].mail IN
    /\ proc' = [proc EXCEPT ![w] = Off]
    /\ job' = IF job[k].owner = w THEN [job EXCEPT ![k].state = state, ![k].owner = None] ELSE job

-----------------------------------------------------------------------------
(* The web process.                                                         *)

\* sendMail with a time: the row first, the job in a second step.
InsertDraft(d) ==
    /\ web[d] = "new"
    /\ web' = [web EXCEPT ![d] = "inserted"]
    /\ draft' = [draft EXCEPT ![d] = "scheduled"]
    /\ UNCHANGED <<job, proc, out, sentRow, search, hist, faults>>

Enqueue(k) ==
    /\ web[k] = IF k \in Drafts THEN "inserted" ELSE "new"
    /\ web' = [web EXCEPT ![k] = "done"]
    /\ job' = [job EXCEPT ![k].state = "waiting"]
    /\ UNCHANGED <<draft, proc, out, sentRow, search, hist, faults>>

\* The web process dies, or Redis refuses, between the row and the job.
WebDies(d) ==
    /\ Fault
    /\ web[d] = "inserted"
    /\ web' = [web EXCEPT ![d] = "dead"]
    /\ UNCHANGED <<draft, job, proc, out, sentRow, search, hist>>

\* deleteScheduledDraft: the row goes whatever its status; the job stays.
DeleteScheduledDraft(d) ==
    /\ draft[d] \notin {"none", "deleted"}
    /\ draft' = [draft EXCEPT ![d] = "deleted"]
    /\ hist' = IF draft[d] = "scheduled" THEN [hist EXCEPT !.withdrawn = @ \cup {d}] ELSE hist
    /\ UNCHANGED <<web, job, proc, out, sentRow, search, faults>>

-----------------------------------------------------------------------------
(* The worker of the queue send-mail.                                       *)

\* Mutant of Take: a job that was stalled is not picked up again.
TakeFreshOnly(w, k) ==
    /\ proc[w] = Off /\ job[k].state = "waiting" /\ job[k].stalls = 0
    /\ job' = [job EXCEPT ![k].state = "active", ![k].owner = w]
    /\ proc' = [proc EXCEPT ![w] = [pc |-> IF k \in Drafts THEN "read" ELSE "mail", mail |-> k]]
    /\ UNCHANGED <<web, draft, out, sentRow, search, hist, faults>>

Take(w, k) ==
    /\ proc[w] = Off /\ job[k].state = "waiting"
    /\ job' = [job EXCEPT ![k].state = "active", ![k].owner = w]
    /\ proc' = [proc EXCEPT ![w] = [pc |-> IF k \in Drafts THEN "read" ELSE "mail", mail |-> k]]
    /\ UNCHANGED <<web, draft, out, sentRow, search, hist, faults>>

\* processDraft reads the row.
ReadDraft(w) ==
    /\ proc[w].pc = "read"
    /\ IF draft[proc[w].mail] = "deleted" THEN Finish(w, "failed") ELSE Go(w, "claim") /\ UNCHANGED job
    /\ UNCHANGED <<web, draft, out, sentRow, search, hist, faults>>

\* Mutants of Claim: the row read before decides; the row is found by its id.
ClaimByEarlierRead(w) ==
    LET d == proc[w].mail IN
    /\ proc[w].pc = "claim"
    /\ IF draft[d] \in {"scheduled", "deleted"}
       THEN draft' = [draft EXCEPT ![d] = "sending"] /\ Go(w, "mail") /\ UNCHANGED job
       ELSE Finish(w, "completed") /\ UNCHANGED draft
    /\ UNCHANGED <<web, out, sentRow, search, hist, faults>>

ClaimById(w) ==
    LET d == proc[w].mail IN
    /\ proc[w].pc = "claim"
    /\ IF draft[d] # "deleted"
       THEN draft' = [draft EXCEPT ![d] = "sending"] /\ Go(w, "mail") /\ UNCHANGED job
       ELSE Finish(w, "completed") /\ UNCHANGED draft
    /\ UNCHANGED <<web, out, sentRow, search, hist, faults>>

\* UPDATE ... SET status = 'sending' WHERE status = 'scheduled'.
Claim(w) ==
    LET d == proc[w].mail IN
    /\ proc[w].pc = "claim"
    /\ IF draft[d] = "scheduled"
       THEN draft' = [draft EXCEPT ![d] = "sending"] /\ Go(w, "mail") /\ UNCHANGED job
       ELSE Finish(w, "completed") /\ UNCHANGED draft
    /\ UNCHANGED <<web, out, sentRow, search, hist, faults>>

\* Mutant of Mail: the answer of the mail service is not looked at.
MailUnchecked(w) ==
    LET k == proc[w].mail IN
    /\ proc[w].pc = "mail"
    /\ \/ out' = [out EXCEPT ![k] = @ + 1] /\ (Go(w, "store") \/ Go(w, "failed"))
       \/ UNCHANGED out /\ (Go(w, "store") \/ Go(w, "failed"))
    /\ UNCHANGED <<web, draft, job, sentRow, search, hist, faults>>

\* send, up to and with the call of the mail service.  It may throw before
\* the call; the service takes the mail and says so, takes it and the answer
\* is lost, or refuses it, which send returns as a value and nobody looks at.
Mail(w) ==
    LET k == proc[w].mail IN
    /\ proc[w].pc = "mail"
    /\ \/ out' = [out EXCEPT ![k] = @ + 1] /\ (Go(w, "store") \/ Go(w, "failed"))
       \/ UNCHANGED out /\ (Go(w, "sent") \/ Go(w, "failed"))
    /\ UNCHANGED <<web, draft, job, sentRow, search, hist, faults>>

\* The Sent row is inserted in the open transaction and the search job is
\* queued before it commits.
StoreSent(w) ==
    LET k == proc[w].mail IN
    /\ proc[w].pc = "store"
    /\ \/ toIndex' = [toIndex EXCEPT ![k] = @ + 1] /\ Go(w, "commit")
       \/ UNCHANGED toIndex /\ Go(w, "failed")
    /\ UNCHANGED <<web, draft, job, out, sentRow, indexed, hist, faults>>

Commit(w) ==
    LET k == proc[w].mail IN
    /\ proc[w].pc = "commit"
    /\ \/ sentRow' = [sentRow EXCEPT ![k] = @ + 1] /\ Go(w, "sent")
       \/ UNCHANGED sentRow /\ Go(w, "failed")
    /\ UNCHANGED <<web, draft, job, out, search, hist, faults>>

\* Mutant of Mark: an exception of send leaves the row alone.
MarkSentOnly(w) ==
    LET k == proc[w].mail IN
    /\ proc[w].pc \in {"sent", "failed"}
    /\ draft' = IF k \in Drafts /\ draft[k] # "deleted" /\ proc[w].pc = "sent"
                THEN [draft EXCEPT ![k] = "sent"] ELSE draft
    /\ Finish(w, IF proc[w].pc = "sent" THEN "completed" ELSE "failed")
    /\ UNCHANGED <<web, out, sentRow, search, hist, faults>>

\* processDraft writes the outcome to the row, if there still is one.
Mark(w) ==
    LET k == proc[w].mail IN
    /\ proc[w].pc \in {"sent", "failed"}
    /\ draft' = IF k \in Drafts /\ draft[k] # "deleted"
                THEN [draft EXCEPT ![k] = proc[w].pc] ELSE draft
    /\ Finish(w, IF proc[w].pc = "sent" THEN "completed" ELSE "failed")
    /\ UNCHANGED <<web, out, sentRow, search, hist, faults>>

\* That update fails: a failed "sent" is written again as "failed" by the
\* catch, a failed "failed" leaves the row at "sending".
MarkThrows(w) ==
    /\ Fault
    /\ proc[w].mail \in Drafts
    /\ \/ proc[w].pc = "sent" /\ Go(w, "failed") /\ UNCHANGED <<job, hist>>
       \/ /\ proc[w].pc = "failed" /\ Finish(w, "failed")
          /\ hist' = [hist EXCEPT !.lost = @ \cup {proc[w].mail}]
    /\ UNCHANGED <<web, draft, out, sentRow, search>>

-----------------------------------------------------------------------------
(* search-ingest: a job whose message is not in the database is dropped.    *)

IndexMessage(k) ==
    /\ toIndex[k] > 0
    /\ toIndex' = [toIndex EXCEPT ![k] = @ - 1]
    /\ indexed' = IF sentRow[k] > 0 THEN indexed \cup {k} ELSE indexed
    /\ UNCHANGED <<web, draft, job, proc, out, sentRow, hist, faults>>

-----------------------------------------------------------------------------
(* BullMQ and faults.                                                       *)

\* The lock of an active job has not been renewed in time.
Stalled(k) ==
    /\ job[k].state = "active"
    /\ job' = [job EXCEPT ![k] = IF @.stalls < MaxStalls
                                 THEN [state |-> "waiting", owner |-> None, stalls |-> @.stalls + 1]
                                 ELSE [@ EXCEPT !.state = "failed", !.owner = None]]
    /\ UNCHANGED <<web, draft, proc, out, sentRow, search, hist>>

\* A live worker misses the renewal of its lock.
Stall(k) == Fault /\ job[k].owner \in Workers /\ proc[job[k].owner].mail = k /\ Stalled(k)

\* The stalled checker finds the job of a worker that is gone.
Recover(k) ==
    /\ job[k].owner \in Workers => proc[job[k].owner].mail # k
    /\ Stalled(k) /\ UNCHANGED faults

WorkerDies(w) ==
    /\ Fault
    /\ proc[w] # Off
    /\ proc' = [proc EXCEPT ![w] = Off]
    /\ hist' = IF proc[w].pc \in {"read", "claim"} THEN hist ELSE [hist EXCEPT !.lost = @ \cup {proc[w].mail}]
    /\ UNCHANGED <<web, draft, job, out, sentRow, search>>

-----------------------------------------------------------------------------
Work(w) == ReadDraft(w) \/ Claim(w) \/ Mail(w) \/ StoreSent(w) \/ Commit(w) \/ Mark(w)

Next ==
    \/ \E d \in Drafts : InsertDraft(d) \/ WebDies(d) \/ DeleteScheduledDraft(d)
    \/ \E k \in Mails : Enqueue(k) \/ IndexMessage(k) \/ Stall(k) \/ Recover(k)
    \/ \E w \in Workers : (\E k \in Mails : Take(w, k)) \/ Work(w) \/ MarkThrows(w) \/ WorkerDies(w)

\* A worker's processor goes on, a free worker takes a waiting job, and the
\* stalled checker and the search worker come round.
Fairness ==
    /\ \A w \in Workers : WF_vars(Work(w))
    /\ \A k \in Mails : /\ SF_vars(\E w \in Workers : Take(w, k))
                        /\ WF_vars(Recover(k)) /\ WF_vars(IndexMessage(k))

Spec == Init /\ [][Next]_vars /\ Fairness

-----------------------------------------------------------------------------
\* The values every variable ranges over.
TypeOK ==
    /\ web \in [Mails -> {"new", "inserted", "done", "dead"}]
    /\ draft \in [Drafts -> DraftStatus]
    /\ job \in [Mails -> [state : JobState, owner : Workers \cup {None}, stalls : 0..MaxStalls]]
    /\ proc \in [Workers -> [pc : Steps, mail : Mails \cup {None}]]
    /\ out \in [Mails -> Nat] /\ sentRow \in [Mails -> Nat] /\ toIndex \in [Mails -> Nat]
    /\ indexed \subseteq Mails
    /\ hist \in [withdrawn : SUBSET Drafts, lost : SUBSET Mails]
    /\ faults \in 0..MaxFaults

\* However often its job is stalled and run again, by however many workers, a
\* scheduled mail goes out at most once: a run mails only after it has moved
\* the row from scheduled to sending.
DraftOutOnce == \A d \in Drafts : out[d] <= 1

\* The stage of a scheduled mail as its author sees it.
Stage == [d \in Drafts |->
    IF d \in hist.withdrawn THEN "withdrawn"
    ELSE IF draft[d] = "none" THEN "composed"
    ELSE IF draft[d] = "scheduled" THEN "waiting"
    ELSE "taken"]

Promise == INSTANCE ScheduledMail WITH stage <- Stage, out <- [d \in Drafts |-> out[d]]

\* Whatever queue, workers and retries do, a scheduled mail behaves as the
\* promise says: a draft deleted while it was still scheduled never goes out,
\* not even when a worker has read the row before, and no other one goes out
\* twice or before it was taken up.
ImplementsPromise == Promise!Spec

\* A direct mail has no such row: it goes out once more for each time its job
\* was stalled, and for no other reason.
DirectOutPerRun == \A k \in Direct : out[k] <= 1 + job[k].stalls

\* The Sent folder and the search index show no mail that never went out.
SentShowsOnlySent == \A k \in Mails : /\ sentRow[k] <= out[k]
                                      /\ k \in indexed => sentRow[k] > 0

\* A draft that is being sent gets an outcome or is deleted, unless the worker
\* that had claimed it died or could not write the outcome: then the row says
\* "sending" for ever.
SendingEnds ==
    \A d \in Drafts : draft[d] = "sending" ~> (draft[d] \in {"sent", "failed", "deleted"} \/ d \in hist.lost)

\* Every job the web process queued is completed or failed in the end.
QueuedEnds ==
    \A k \in Mails : job[k].state = "waiting" ~> job[k].state \in {"completed", "failed"}
=============================================================================
