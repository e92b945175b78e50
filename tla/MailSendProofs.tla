--------------------------- MODULE MailSendProofs ---------------------------
(***************************************************************************)
(* Proofs about scheduled mail in module MailSend, for every number of     *)
(* drafts, workers, stalls and faults: a draft goes out at most once, and  *)
(* the queue with its workers implements the promise of ScheduledMail.     *)
(*                                                                         *)
(* Neither is inductive.  A worker that mails looks neither at the row nor *)
(* at what went out before; it trusts the conditional UPDATE it made       *)
(* earlier.  What makes that sound is that a row is "scheduled" once:      *)
(* before it leaves that status nothing has gone out and nobody is past    *)
(* the claim (Untaken), so at most one worker ever is (OneClaimer), and    *)
(* that worker still has its one mailing before it (NotYetOut).            *)
(***************************************************************************)
EXTENDS MailSend, TLAPS, FiniteSetTheorems

\* The steps of a run after its claim.
PastClaim == {"mail", "store", "commit", "sent", "failed"}

\* A running worker has a mail, and one at work on a row has a draft.
RunOwned ==
    \A w \in Workers : /\ proc[w].pc # "off" => proc[w].mail \in Mails
                       /\ proc[w].pc \in {"read", "claim"} => proc[w].mail \in Drafts

\* The row is inserted by the web action, in its first step.
RowByWeb == \A d \in Drafts : web[d] = "new" => draft[d] = "none"

\* A withdrawn draft has no row.
WithdrawnGone == \A d \in hist.withdrawn : draft[d] = "deleted"

\* Of a draft that waits or was withdrawn nothing went out and no run is past
\* its claim.
Untaken ==
    \A d \in Drafts :
        draft[d] \in {"none", "scheduled"} \/ d \in hist.withdrawn =>
            /\ out[d] = 0
            /\ \A w \in Workers : proc[w].pc \in PastClaim => proc[w].mail # d

\* At most one run of a draft is past the claim.
OneClaimer ==
    \A v, w \in Workers :
        /\ proc[v].pc \in PastClaim /\ proc[w].pc \in PastClaim
        /\ proc[v].mail = proc[w].mail /\ proc[v].mail \in Drafts
        => v = w

\* A run about to mail a draft is the first.
NotYetOut ==
    \A w \in Workers : proc[w].pc = "mail" /\ proc[w].mail \in Drafts => out[proc[w].mail] = 0

SendInv ==
    /\ TypeOK /\ RunOwned
    /\ RowByWeb /\ WithdrawnGone /\ Untaken /\ OneClaimer /\ NotYetOut /\ DraftOutOnce

-----------------------------------------------------------------------------
\* The initial state satisfies the invariant.
LEMMA SendInit == Init => SendInv
<1> SUFFICES ASSUME Init PROVE SendInv
  OBVIOUS
<1> USE MailSendAssumption DEF Init, Off, NoJob, Mails
<1>1. TypeOK
  BY DEF TypeOK, DraftStatus, JobState, Steps
<1>2. RunOwned /\ RowByWeb /\ WithdrawnGone
  BY DEF RunOwned, RowByWeb, WithdrawnGone
<1>3. Untaken /\ OneClaimer /\ NotYetOut /\ DraftOutOnce
  BY DEF Untaken, OneClaimer, NotYetOut, DraftOutOnce, PastClaim
<1> QED BY <1>1, <1>2, <1>3 DEF SendInv

\* The steps of the queue, the search worker and the web action after the row:
\* they leave rows, workers and what went out alone.
QueueStep ==
    \/ \E d \in Drafts : WebDies(d)
    \/ \E k \in Mails : Enqueue(k) \/ IndexMessage(k) \/ Stall(k) \/ Recover(k)

\* The steps of a worker that end its run or lose it.
EndStep(w) == Mark(w) \/ MarkThrows(w) \/ WorkerDies(w)

\* The steps of Next by what they touch.
LEMMA SendCases ==
    ASSUME [Next]_vars
    PROVE  \/ QueueStep
           \/ \E d \in Drafts : InsertDraft(d) \/ DeleteScheduledDraft(d)
           \/ \E w \in Workers : \/ \E k \in Mails : Take(w, k)
                                 \/ ReadDraft(w) \/ Claim(w) \/ Mail(w)
                                 \/ StoreSent(w) \/ Commit(w) \/ EndStep(w)
           \/ UNCHANGED vars
BY DEF Next, Work, QueueStep, EndStep

\* The stalled checker leaves a job behind.
LEMMA StalledType ==
    ASSUME TypeOK, NEW k \in Mails, Stalled(k)
    PROVE  job' \in [Mails -> [state : JobState, owner : Workers \cup {None}, stalls : 0..MaxStalls]]
<1> DEFINE Job == [state : JobState, owner : Workers \cup {None}, stalls : 0..MaxStalls]
           again == [state |-> "waiting", owner |-> None, stalls |-> job[k].stalls + 1]
           over == [job[k] EXCEPT !.state = "failed", !.owner = None]
<1>1. job \in [Mails -> Job] /\ job[k] \in Job
  BY DEF TypeOK
<1>2. job[k].stalls < MaxStalls => again \in Job
  BY <1>1, MailSendAssumption DEF JobState
<1>3. over \in Job
  BY <1>1 DEF JobState
<1>4. job' = [job EXCEPT ![k] = IF job[k].stalls < MaxStalls THEN again ELSE over]
  BY DEF Stalled
<1> HIDE DEF again, over, Job
<1>5. job' \in [Mails -> Job]
  BY <1>1, <1>2, <1>3, <1>4
<1> QED BY <1>5 DEF Job

\* A worker goes on with its mail.
LEMMA GoType ==
    ASSUME TypeOK, RunOwned, NEW w \in Workers, NEW pc \in Steps, Go(w, pc),
           proc[w].pc # "off", pc \notin {"read", "claim"} \/ proc[w].mail \in Drafts
    PROVE  /\ proc' \in [Workers -> [pc : Steps, mail : Mails \cup {None}]]
           /\ proc'[w] = [pc |-> pc, mail |-> proc[w].mail]
           /\ \A v \in Workers \ {w} : proc'[v] = proc[v]
           /\ RunOwned'
<1>1. proc \in [Workers -> [pc : Steps, mail : Mails \cup {None}]] /\ proc[w].mail \in Mails
  BY DEF TypeOK, RunOwned
<1>2. /\ proc' \in [Workers -> [pc : Steps, mail : Mails \cup {None}]]
      /\ proc'[w] = [pc |-> pc, mail |-> proc[w].mail]
      /\ \A v \in Workers \ {w} : proc'[v] = proc[v]
  BY <1>1 DEF Go
<1>3. RunOwned'
  BY <1>1, <1>2 DEF RunOwned
<1> QED BY <1>2, <1>3

\* A worker ends its run.
LEMMA FinishType ==
    ASSUME TypeOK, RunOwned, NEW w \in Workers, NEW state \in JobState, Finish(w, state),
           proc[w].pc # "off"
    PROVE  /\ proc' \in [Workers -> [pc : Steps, mail : Mails \cup {None}]]
           /\ proc'[w] = Off
           /\ \A v \in Workers \ {w} : proc'[v] = proc[v]
           /\ job' \in [Mails -> [state : JobState, owner : Workers \cup {None}, stalls : 0..MaxStalls]]
           /\ RunOwned'
<1>1. /\ proc \in [Workers -> [pc : Steps, mail : Mails \cup {None}]] /\ proc[w].mail \in Mails
      /\ job \in [Mails -> [state : JobState, owner : Workers \cup {None}, stalls : 0..MaxStalls]]
  BY DEF TypeOK, RunOwned
<1>2. /\ proc' \in [Workers -> [pc : Steps, mail : Mails \cup {None}]]
      /\ proc'[w] = Off
      /\ \A v \in Workers \ {w} : proc'[v] = proc[v]
  BY <1>1 DEF Finish, Off, Steps
<1>3. RunOwned'
  BY <1>1, <1>2 DEF RunOwned, Off
<1>4. job' \in [Mails -> [state : JobState, owner : Workers \cup {None}, stalls : 0..MaxStalls]]
  BY <1>1 DEF Finish
<1> QED BY <1>2, <1>3, <1>4

\* Every step keeps the types, and running workers have their mail.
LEMMA SendTypeStep == TypeOK /\ RunOwned /\ [Next]_vars => TypeOK' /\ RunOwned'
<1> SUFFICES ASSUME TypeOK, RunOwned, [Next]_vars PROVE TypeOK' /\ RunOwned'
  OBVIOUS
<1> USE MailSendAssumption DEF TypeOK, RunOwned, Mails, search
<1>1. CASE QueueStep
  <2>1. ASSUME NEW d \in Drafts, WebDies(d) PROVE TypeOK' /\ RunOwned'
    BY <2>1 DEF WebDies, Fault
  <2>2. ASSUME NEW k \in Mails, Enqueue(k) PROVE TypeOK' /\ RunOwned'
    BY <2>2 DEF Enqueue, JobState
  <2>3. ASSUME NEW k \in Mails, IndexMessage(k) PROVE TypeOK' /\ RunOwned'
    BY <2>3 DEF IndexMessage
  <2>4. ASSUME NEW k \in Mails, Stall(k) PROVE TypeOK' /\ RunOwned'
    <3>1. Stalled(k) /\ faults' \in 0..MaxFaults
      BY <2>4 DEF Stall, Fault
    <3> QED BY <3>1, StalledType DEF Stalled
  <2>5. ASSUME NEW k \in Mails, Recover(k) PROVE TypeOK' /\ RunOwned'
    BY <2>5, StalledType DEF Recover, Stalled
  <2> QED BY <1>1, <2>1, <2>2, <2>3, <2>4, <2>5 DEF QueueStep
<1>2. ASSUME NEW d \in Drafts, InsertDraft(d) \/ DeleteScheduledDraft(d)
      PROVE  TypeOK' /\ RunOwned'
  <2>1. CASE InsertDraft(d)
    BY <1>2, <2>1 DEF InsertDraft, DraftStatus
  <2>2. CASE DeleteScheduledDraft(d)
    <3>1. hist' \in [withdrawn : SUBSET Drafts, lost : SUBSET Mails]
      BY <2>2 DEF DeleteScheduledDraft
    <3> QED BY <2>2, <3>1 DEF DeleteScheduledDraft, DraftStatus
  <2> QED BY <1>2, <2>1, <2>2
<1>3. ASSUME NEW w \in Workers, NEW k \in Mails, Take(w, k) PROVE TypeOK' /\ RunOwned'
  BY <1>3 DEF Take, JobState, Steps
<1>4. ASSUME NEW w \in Workers, ReadDraft(w) PROVE TypeOK' /\ RunOwned'
  <2>1. CASE Finish(w, "failed")
    BY <1>4, <2>1, FinishType DEF ReadDraft, JobState
  <2>2. CASE Go(w, "claim") /\ UNCHANGED job
    BY <1>4, <2>2, GoType DEF ReadDraft, Steps
  <2> QED BY <1>4, <2>1, <2>2 DEF ReadDraft
<1>5. ASSUME NEW w \in Workers, Claim(w) PROVE TypeOK' /\ RunOwned'
  <2>1. CASE Finish(w, "completed") /\ UNCHANGED draft
    BY <1>5, <2>1, FinishType DEF Claim, JobState
  <2>2. CASE draft' = [draft EXCEPT ![proc[w].mail] = "sending"] /\ Go(w, "mail") /\ UNCHANGED job
    BY <1>5, <2>2, GoType DEF Claim, Steps, DraftStatus
  <2> QED BY <1>5, <2>1, <2>2 DEF Claim
<1>6. ASSUME NEW w \in Workers, Mail(w) \/ StoreSent(w) \/ Commit(w) PROVE TypeOK' /\ RunOwned'
  <2>1. /\ proc[w].pc # "off"
        /\ \E pc \in {"store", "commit", "sent", "failed"} : Go(w, pc)
    BY <1>6 DEF Mail, StoreSent, Commit
  <2>2. proc' \in [Workers -> [pc : Steps, mail : Mails \cup {None}]] /\ RunOwned'
    <3>1. PICK pc \in {"store", "commit", "sent", "failed"} : Go(w, pc)
      BY <2>1
    <3>2. pc \in Steps /\ pc \notin {"read", "claim"}
      BY DEF Steps
    <3> HIDE DEF RunOwned, TypeOK, Mails
    <3> QED BY <2>1, <3>1, <3>2, GoType
  <2>3. out' \in [Mails -> Nat] /\ sentRow' \in [Mails -> Nat] /\ toIndex' \in [Mails -> Nat]
    BY <1>6 DEF Mail, StoreSent, Commit
  <2> QED BY <1>6, <2>2, <2>3 DEF Mail, StoreSent, Commit
<1>7. ASSUME NEW w \in Workers, EndStep(w) PROVE TypeOK' /\ RunOwned'
  <2>1. CASE Mark(w)
    <3>1. draft' \in [Drafts -> DraftStatus]
      BY <2>1 DEF Mark, DraftStatus
    <3>2. \E state \in JobState : Finish(w, state)
      BY <2>1 DEF Mark, JobState
    <3> QED BY <2>1, <3>1, <3>2, FinishType DEF Mark
  <2>2. CASE MarkThrows(w)
    <3>1. hist' \in [withdrawn : SUBSET Drafts, lost : SUBSET Mails] /\ faults' \in 0..MaxFaults
      BY <2>2 DEF MarkThrows, Fault
    <3>2. CASE proc[w].pc = "sent" /\ Go(w, "failed") /\ UNCHANGED <<job, hist>>
      BY <2>2, <3>1, <3>2, GoType DEF MarkThrows, Steps
    <3>3. CASE proc[w].pc = "failed" /\ Finish(w, "failed")
      BY <2>2, <3>1, <3>3, FinishType DEF MarkThrows, JobState
    <3> QED BY <2>2, <3>2, <3>3 DEF MarkThrows
  <2>3. CASE WorkerDies(w)
    BY <2>3 DEF WorkerDies, Fault, Off, Steps
  <2> QED BY <1>7, <2>1, <2>2, <2>3 DEF EndStep
<1>8. CASE UNCHANGED vars
  BY <1>8 DEF vars
<1> QED BY <1>1, <1>2, <1>3, <1>4, <1>5, <1>6, <1>7, <1>8, SendCases

-----------------------------------------------------------------------------
(* The steps before the claim, the claim, the steps after it.               *)

\* A run that has not claimed comes and goes: nobody gets past the claim.
LEMMA UnclaimedPreserved ==
    ASSUME SendInv, TypeOK', RunOwned', NEW w \in Workers,
           (\E k \in Drafts : Take(w, k)) \/ ReadDraft(w)
    PROVE  SendInv'
<1>1. /\ proc[w].pc \notin PastClaim /\ proc'[w].pc \notin PastClaim
      /\ \A v \in Workers \ {w} : proc'[v] = proc[v]
  <2>1. proc \in [Workers -> [pc : Steps, mail : Mails \cup {None}]]
    BY DEF SendInv, TypeOK
  <2>2. CASE \E k \in Drafts : Take(w, k)
    BY <2>1, <2>2 DEF Take, Off, PastClaim
  <2>3. CASE ReadDraft(w)
    BY <2>1, <2>3 DEF ReadDraft, Finish, Go, Off, PastClaim
  <2> QED BY <2>2, <2>3
<1>2. UNCHANGED <<web, draft, out, hist>>
  BY DEF Take, ReadDraft
<1>3. RowByWeb' /\ WithdrawnGone' /\ DraftOutOnce'
  BY <1>2 DEF SendInv, RowByWeb, WithdrawnGone, DraftOutOnce
<1>4. Untaken' /\ OneClaimer'
  BY <1>1, <1>2 DEF SendInv, Untaken, OneClaimer
<1>5. NotYetOut'
  BY <1>1, <1>2 DEF SendInv, NotYetOut, PastClaim
<1> QED BY <1>3, <1>4, <1>5 DEF SendInv

\* A direct mail has no row: its run touches no draft.
LEMMA DirectTakePreserved ==
    ASSUME SendInv, TypeOK', RunOwned', NEW w \in Workers, NEW k \in Direct, Take(w, k)
    PROVE  SendInv'
<1>1. /\ proc'[w].mail = k /\ k \notin Drafts /\ \A v \in Workers \ {w} : proc'[v] = proc[v]
      /\ proc \in [Workers -> [pc : Steps, mail : Mails \cup {None}]]
  BY MailSendAssumption DEF SendInv, TypeOK, Take
<1>2. UNCHANGED <<web, draft, out, hist>>
  BY DEF Take
<1>3. RowByWeb' /\ WithdrawnGone' /\ DraftOutOnce'
  BY <1>2 DEF SendInv, RowByWeb, WithdrawnGone, DraftOutOnce
<1>4. Untaken' /\ OneClaimer' /\ NotYetOut'
  BY <1>1, <1>2 DEF SendInv, Untaken, OneClaimer, NotYetOut
<1> QED BY <1>3, <1>4 DEF SendInv

\* The conditional UPDATE lets one run past: the row was scheduled, so nobody
\* was there and nothing had gone out.
LEMMA ClaimPreserved ==
    ASSUME SendInv, TypeOK', RunOwned', NEW w \in Workers, Claim(w)
    PROVE  SendInv'
<1> DEFINE d == proc[w].mail
<1>0. /\ d \in Drafts /\ proc[w].pc = "claim"
      /\ proc \in [Workers -> [pc : Steps, mail : Mails \cup {None}]]
      /\ draft \in [Drafts -> DraftStatus]
  BY DEF SendInv, TypeOK, RunOwned, Claim
<1>1. UNCHANGED <<web, out, hist>> /\ \A v \in Workers \ {w} : proc'[v] = proc[v]
  BY <1>0 DEF Claim, Finish, Go
<1>2. CASE draft[d] = "scheduled"
  <2>1. /\ draft' = [draft EXCEPT ![d] = "sending"]
        /\ proc'[w] = [pc |-> "mail", mail |-> d]
    BY <1>0, <1>2 DEF Claim, Go
  <2>2. /\ out[d] = 0 /\ d \notin hist.withdrawn
        /\ \A v \in Workers : proc[v].pc \in PastClaim => proc[v].mail # d
    BY <1>0, <1>2 DEF SendInv, Untaken, WithdrawnGone
  <2>3. RowByWeb' /\ WithdrawnGone' /\ DraftOutOnce'
    BY <1>0, <1>1, <1>2, <2>1, <2>2 DEF SendInv, TypeOK, RowByWeb, WithdrawnGone, DraftOutOnce
  <2>4. Untaken'
    BY <1>0, <1>1, <2>1, <2>2 DEF SendInv, Untaken
  <2>5. OneClaimer' /\ NotYetOut'
    BY <1>0, <1>1, <2>1, <2>2 DEF SendInv, OneClaimer, NotYetOut
  <2> QED BY <2>3, <2>4, <2>5 DEF SendInv
<1>3. CASE draft[d] # "scheduled"
  <2>1. UNCHANGED draft /\ proc'[w] = Off
    BY <1>0, <1>3 DEF Claim, Finish
  <2>2. RowByWeb' /\ WithdrawnGone' /\ DraftOutOnce'
    BY <1>1, <2>1 DEF SendInv, RowByWeb, WithdrawnGone, DraftOutOnce
  <2>3. Untaken' /\ OneClaimer' /\ NotYetOut'
    BY <1>1, <2>1 DEF SendInv, Untaken, OneClaimer, NotYetOut, Off, PastClaim
  <2> QED BY <2>2, <2>3 DEF SendInv
<1> QED BY <1>2, <1>3

\* The mailing is the first of its draft, and its run leaves "mail".
LEMMA MailPreserved ==
    ASSUME SendInv, TypeOK', RunOwned', NEW w \in Workers, Mail(w)
    PROVE  SendInv'
<1> DEFINE k == proc[w].mail
<1>0. /\ k \in Mails /\ proc[w].pc = "mail"
      /\ proc \in [Workers -> [pc : Steps, mail : Mails \cup {None}]]
      /\ out \in [Mails -> Nat] /\ Drafts \subseteq Mails
  BY DEF SendInv, TypeOK, RunOwned, Mail, Mails
<1>1. /\ UNCHANGED <<web, draft, hist>> /\ \A v \in Workers \ {w} : proc'[v] = proc[v]
      /\ proc'[w].mail = k /\ proc'[w].pc \in {"store", "sent", "failed"}
      /\ out' = [out EXCEPT ![k] = @ + 1] \/ out' = out
  BY <1>0 DEF Mail, Go
<1>2. k \in Drafts => /\ out[k] = 0 /\ draft[k] \notin {"none", "scheduled"} /\ k \notin hist.withdrawn
                      /\ \A v \in Workers \ {w} : proc[v].pc \in PastClaim => proc[v].mail # k
  BY <1>0 DEF SendInv, NotYetOut, Untaken, OneClaimer, PastClaim
<1>3. RowByWeb' /\ WithdrawnGone' /\ DraftOutOnce'
  BY <1>0, <1>1, <1>2 DEF SendInv, RowByWeb, WithdrawnGone, DraftOutOnce
<1>4. Untaken'
  BY <1>0, <1>1, <1>2 DEF SendInv, Untaken, PastClaim
<1>5. OneClaimer' /\ NotYetOut'
  BY <1>0, <1>1, <1>2 DEF SendInv, OneClaimer, NotYetOut, PastClaim
<1> QED BY <1>3, <1>4, <1>5 DEF SendInv

\* What a run does after it has mailed.
LEMMA LaterPreserved ==
    ASSUME SendInv, TypeOK', RunOwned', NEW w \in Workers, StoreSent(w) \/ Commit(w) \/ EndStep(w)
    PROVE  SendInv'
<1> DEFINE k == proc[w].mail
<1>0. /\ proc \in [Workers -> [pc : Steps, mail : Mails \cup {None}]]
      /\ draft \in [Drafts -> DraftStatus] /\ hist \in [withdrawn : SUBSET Drafts, lost : SUBSET Mails]
      /\ proc[w].pc # "off" => k \in Mails
  BY DEF SendInv, TypeOK, RunOwned
<1>1. /\ UNCHANGED <<web, out>> /\ \A v \in Workers \ {w} : proc'[v] = proc[v]
      /\ hist'.withdrawn = hist.withdrawn
      /\ \/ proc'[w] = Off
         \/ /\ proc[w].pc \in PastClaim /\ proc'[w].mail = k
            /\ proc'[w].pc \in {"commit", "sent", "failed"}
  <2>1. CASE StoreSent(w) \/ Commit(w)
    BY <1>0, <2>1 DEF StoreSent, Commit, Go, PastClaim
  <2>2. CASE Mark(w)
    BY <1>0, <2>2 DEF Mark, Finish
  <2>3. CASE MarkThrows(w)
    BY <1>0, <2>3 DEF MarkThrows, Finish, Go, PastClaim
  <2>4. CASE WorkerDies(w)
    BY <1>0, <2>4 DEF WorkerDies
  <2> QED BY <2>1, <2>2, <2>3, <2>4 DEF EndStep
<1>2. /\ draft' = draft
      \/ /\ k \in Drafts /\ proc[w].pc \in PastClaim /\ draft[k] # "deleted"
         /\ draft' = [draft EXCEPT ![k] = proc[w].pc] /\ proc[w].pc \in {"sent", "failed"}
  BY DEF StoreSent, Commit, EndStep, Mark, MarkThrows, WorkerDies, PastClaim
<1>3. k \in Drafts /\ proc[w].pc \in PastClaim =>
          draft[k] \notin {"none", "scheduled"} /\ k \notin hist.withdrawn
  BY DEF SendInv, Untaken
<1>4. RowByWeb' /\ WithdrawnGone' /\ DraftOutOnce'
  BY <1>0, <1>1, <1>2, <1>3 DEF SendInv, RowByWeb, WithdrawnGone, DraftOutOnce
<1>5. Untaken'
  BY <1>0, <1>1, <1>2, <1>3 DEF SendInv, Untaken, Off, PastClaim
<1>6. OneClaimer' /\ NotYetOut'
  BY <1>0, <1>1 DEF SendInv, OneClaimer, NotYetOut, Off, PastClaim
<1> QED BY <1>4, <1>5, <1>6 DEF SendInv

\* The author's steps: the row appears, and goes.
LEMMA AuthorPreserved ==
    ASSUME SendInv, TypeOK', RunOwned', NEW d \in Drafts, InsertDraft(d) \/ DeleteScheduledDraft(d)
    PROVE  SendInv'
<1>0. /\ draft \in [Drafts -> DraftStatus] /\ web \in [Mails -> {"new", "inserted", "done", "dead"}]
      /\ hist \in [withdrawn : SUBSET Drafts, lost : SUBSET Mails] /\ d \in Mails
  BY DEF SendInv, TypeOK, Mails
<1>1. UNCHANGED <<proc, out>>
  BY DEF InsertDraft, DeleteScheduledDraft
<1>2. DraftOutOnce' /\ OneClaimer' /\ NotYetOut'
  BY <1>1 DEF SendInv, DraftOutOnce, OneClaimer, NotYetOut
<1>3. CASE InsertDraft(d)
  <2>1. draft[d] = "none" /\ d \notin hist.withdrawn
    BY <1>3 DEF InsertDraft, SendInv, RowByWeb, WithdrawnGone
  <2>2. RowByWeb' /\ WithdrawnGone' /\ Untaken'
    BY <1>0, <1>1, <1>3, <2>1 DEF InsertDraft, SendInv, RowByWeb, WithdrawnGone, Untaken, Mails
  <2> QED BY <1>2, <2>2 DEF SendInv
<1>4. CASE DeleteScheduledDraft(d)
  <2>1. RowByWeb' /\ WithdrawnGone' /\ Untaken'
    BY <1>0, <1>1, <1>4 DEF DeleteScheduledDraft, SendInv, RowByWeb, WithdrawnGone, Untaken
  <2> QED BY <1>2, <2>1 DEF SendInv
<1> QED BY <1>3, <1>4

\* Every step keeps the invariant.
LEMMA SendStep == SendInv /\ [Next]_vars => SendInv'
<1> SUFFICES ASSUME SendInv, [Next]_vars PROVE SendInv'
  OBVIOUS
<1>0. TypeOK' /\ RunOwned'
  BY SendTypeStep DEF SendInv
<1>1. CASE QueueStep \/ UNCHANGED vars
  <2>1. UNCHANGED <<draft, proc, out, hist>> /\ \A d \in Drafts : web'[d] = "new" => web[d] = "new"
    BY <1>1 DEF QueueStep, WebDies, Enqueue, IndexMessage, Stall, Recover, Stalled, vars, SendInv, TypeOK, Mails
  <2>2. RowByWeb' /\ WithdrawnGone' /\ DraftOutOnce'
    BY <2>1 DEF SendInv, RowByWeb, WithdrawnGone, DraftOutOnce
  <2>3. Untaken' /\ OneClaimer' /\ NotYetOut'
    BY <2>1 DEF SendInv, Untaken, OneClaimer, NotYetOut
  <2> QED BY <1>0, <2>2, <2>3 DEF SendInv
<1>2. ASSUME NEW w \in Workers, NEW k \in Mails, Take(w, k) PROVE SendInv'
  BY <1>0, <1>2, UnclaimedPreserved, DirectTakePreserved DEF Mails
<1> QED BY <1>0, <1>1, <1>2, SendCases, AuthorPreserved, UnclaimedPreserved, ClaimPreserved,
           MailPreserved, LaterPreserved

\* The invariant holds in every state of every behaviour.
LEMMA SendInvariant == Spec => []SendInv
<1>1. Init => SendInv
  BY SendInit
<1>2. SendInv /\ [Next]_vars => SendInv'
  BY SendStep
<1> QED BY <1>1, <1>2, PTL DEF Spec

\* Every variable keeps to its values, however many workers run.
THEOREM SendTypeSafe == Spec => []TypeOK
<1>1. SendInv => TypeOK
  BY DEF SendInv
<1> QED BY <1>1, SendInvariant, PTL

\* A scheduled mail goes out at most once, however often its job is stalled
\* and run again: only one run can win the conditional UPDATE of processDraft.
THEOREM ScheduledOutOnce == Spec => []DraftOutOnce
<1>1. SendInv => DraftOutOnce
  BY DEF SendInv
<1> QED BY <1>1, SendInvariant, PTL

-----------------------------------------------------------------------------
(* The refinement.                                                          *)

\* The initial states are initial states of the promise.
LEMMA PromiseInit == Init => Promise!Init
BY DEF Init, Promise!Init, Stage, Mails

\* A step that leaves the rows, the withdrawals and what went out alone is a
\* stutter of the promise.
LEMMA PromiseStutter ==
    ASSUME draft' = draft, out' = out, hist'.withdrawn = hist.withdrawn
    PROVE  UNCHANGED <<Stage, [d \in Drafts |-> out[d]]>>
BY DEF Stage

\* Every step is a step of the promise or a stutter: the row is scheduled,
\* withdrawn or claimed, the mail goes out, or nothing its author promised changes.
LEMMA PromiseStep ==
    ASSUME SendInv, [Next]_vars
    PROVE  Promise!Next \/ UNCHANGED <<Stage, [d \in Drafts |-> out[d]]>>
<1> DEFINE Goal == Promise!Next \/ UNCHANGED <<Stage, [d \in Drafts |-> out[d]]>>
<1>0. /\ draft \in [Drafts -> DraftStatus] /\ out \in [Mails -> Nat] /\ Drafts \subseteq Mails
      /\ proc \in [Workers -> [pc : Steps, mail : Mails \cup {None}]]
      /\ hist \in [withdrawn : SUBSET Drafts, lost : SUBSET Mails]
  BY DEF SendInv, TypeOK, Mails
<1>1. CASE QueueStep \/ UNCHANGED vars
  BY <1>1, PromiseStutter DEF QueueStep, WebDies, Enqueue, IndexMessage, Stall, Recover, Stalled, vars
<1>2. ASSUME NEW d \in Drafts, InsertDraft(d) PROVE Goal
  <2>1. draft[d] = "none" /\ d \notin hist.withdrawn /\ out' = out
    BY <1>2 DEF InsertDraft, SendInv, RowByWeb, WithdrawnGone
  <2>2. Stage[d] = "composed" /\ Stage' = [Stage EXCEPT ![d] = "waiting"]
    BY <1>0, <1>2, <2>1 DEF InsertDraft, Stage
  <2>3. Promise!Move(d, "composed", "waiting")
    BY <2>1, <2>2 DEF Promise!Move
  <2> QED BY <2>3 DEF Promise!Next, Promise!Schedule
<1>3. ASSUME NEW d \in Drafts, DeleteScheduledDraft(d) PROVE Goal
  <2>0. out' = out /\ d \notin hist.withdrawn
    BY <1>3 DEF DeleteScheduledDraft, SendInv, WithdrawnGone
  <2>1. CASE draft[d] = "scheduled"
    <3>1. Stage[d] = "waiting" /\ Stage' = [Stage EXCEPT ![d] = "withdrawn"]
      BY <1>0, <1>3, <2>0, <2>1 DEF DeleteScheduledDraft, Stage
    <3>2. Promise!Move(d, "waiting", "withdrawn")
      BY <2>0, <3>1 DEF Promise!Move
    <3> QED BY <2>0, <3>2 DEF Promise!Next, Promise!Withdraw
  <2>2. CASE draft[d] # "scheduled"
    <3>1. Stage' = Stage
      BY <1>0, <1>3, <2>2 DEF DeleteScheduledDraft, Stage
    <3> QED BY <2>0, <3>1
  <2> QED BY <2>1, <2>2
<1>4. ASSUME NEW w \in Workers, (\E k \in Mails : Take(w, k)) \/ ReadDraft(w) PROVE Goal
  BY <1>4, PromiseStutter DEF Take, ReadDraft
<1>5. ASSUME NEW w \in Workers, Claim(w) PROVE Goal
  <2> DEFINE d == proc[w].mail
  <2>0. d \in Drafts /\ out' = out /\ hist' = hist
    BY <1>5 DEF Claim, SendInv, RunOwned
  <2>1. CASE draft[d] = "scheduled"
    <3>1. draft' = [draft EXCEPT ![d] = "sending"] /\ d \notin hist.withdrawn
      BY <1>5, <2>1 DEF Claim, SendInv, WithdrawnGone
    <3>2. Stage[d] = "waiting" /\ Stage' = [Stage EXCEPT ![d] = "taken"]
      BY <1>0, <2>0, <2>1, <3>1 DEF Stage
    <3>3. Promise!Move(d, "waiting", "taken")
      BY <2>0, <3>2 DEF Promise!Move
    <3> QED BY <2>0, <3>3 DEF Promise!Next, Promise!TakeUp
  <2>2. CASE draft[d] # "scheduled"
    BY <1>5, <2>0, <2>2, PromiseStutter DEF Claim
  <2> QED BY <2>1, <2>2
<1>6. ASSUME NEW w \in Workers, Mail(w) PROVE Goal
  <2> DEFINE k == proc[w].mail
  <2>0. k \in Mails /\ draft' = draft /\ hist' = hist
    BY <1>6 DEF Mail, SendInv, RunOwned
  <2>1. CASE out' = out
    BY <2>0, <2>1, PromiseStutter
  <2>2. CASE out' = [out EXCEPT ![k] = @ + 1] /\ k \notin Drafts
    BY <1>0, <2>0, <2>2 DEF Stage
  <2>3. CASE out' = [out EXCEPT ![k] = @ + 1] /\ k \in Drafts
    <3>1. out[k] = 0 /\ draft[k] \notin {"none", "scheduled"} /\ k \notin hist.withdrawn
      BY <1>6, <2>3 DEF Mail, SendInv, NotYetOut, Untaken, PastClaim
    <3>2. Stage[k] = "taken" /\ Stage' = Stage
      BY <2>0, <2>3, <3>1 DEF Stage
    <3>3. [d \in Drafts |-> out[d]]' = [[d \in Drafts |-> out[d]] EXCEPT ![k] = 1]
      <4>1. \A d \in Drafts : out'[d] = IF d = k THEN 1 ELSE out[d]
        BY <1>0, <2>3, <3>1
      <4> QED BY <2>3, <4>1
    <3> QED BY <2>3, <3>1, <3>2, <3>3 DEF Promise!Next, Promise!GoOut
  <2> QED BY <1>6, <2>1, <2>2, <2>3 DEF Mail
<1>7. ASSUME NEW w \in Workers, StoreSent(w) \/ Commit(w) \/ MarkThrows(w) \/ WorkerDies(w) PROVE Goal
  BY <1>0, <1>7, PromiseStutter DEF StoreSent, Commit, MarkThrows, WorkerDies
<1>8. ASSUME NEW w \in Workers, Mark(w) PROVE Goal
  <2> DEFINE k == proc[w].mail
  <2>1. out' = out /\ hist' = hist
    BY <1>8 DEF Mark
  <2>2. k \in Drafts => draft[k] \notin {"none", "scheduled"} /\ k \notin hist.withdrawn
    BY <1>8 DEF Mark, SendInv, Untaken, PastClaim
  <2>3. Stage' = Stage
    BY <1>0, <1>8, <2>1, <2>2 DEF Mark, Stage
  <2> QED BY <2>1, <2>3
<1> QED BY <1>1, <1>2, <1>3, <1>4, <1>5, <1>6, <1>7, <1>8, SendCases DEF EndStep

\* The queue, its workers and their retries implement the promise: no scheduled
\* mail goes out twice, before it is taken up, or after its author withdrew it.
THEOREM SendImplementsPromise == Spec => ImplementsPromise
<1>1. Init => Promise!Init
  BY PromiseInit
<1>2. SendInv /\ [Next]_vars => [Promise!Next]_<<Stage, [d \in Drafts |-> out[d]]>>
  BY PromiseStep
<1> QED BY <1>1, <1>2, SendInvariant, PTL DEF Spec, ImplementsPromise, Promise!Spec

-----------------------------------------------------------------------------
(* Counting runs: the Sent folder, and direct mail.                         *)

\* The workers whose run of mail k has got to one of the steps pcs.
At(k, pcs) == {w \in Workers : proc[w].pc \in pcs /\ proc[w].mail = k}

\* Between the mailing and the row in the Sent folder.
Storing == {"store", "commit"}

\* What went out covers the rows of the Sent folder and those still to come,
\* and the index shows only mails with a row.
SentRight(k) ==
    /\ sentRow[k] + Cardinality(At(k, Storing)) <= out[k]
    /\ k \in indexed => sentRow[k] > 0
SentInv == \A k \in Mails : SentRight(k)

\* Each stall pays for one more run, and what went out, the runs about to mail
\* and the run the queue still owes are paid for.
Owed(k) == IF job[k].state \in {"none", "waiting"} THEN 1 ELSE 0
RunsRight(k) ==
    /\ out[k] + Cardinality(At(k, {"mail"})) + Owed(k) <= 1 + job[k].stalls
    /\ web[k] = "new" => job[k].state = "none" /\ job[k].owner = None
RunsInv == \A k \in Direct : RunsRight(k)

\* One worker's step moves it alone in or out of the count.
LEMMA AtChange ==
    ASSUME NEW k, NEW pcs, NEW w \in Workers, \A v \in Workers \ {w} : proc'[v] = proc[v]
    PROVE  /\ Cardinality(At(k, pcs)) \in Nat /\ Cardinality(At(k, pcs))' \in Nat
           /\ Cardinality(At(k, pcs))' = Cardinality(At(k, pcs))
                + (IF proc'[w].pc \in pcs /\ proc'[w].mail = k THEN 1 ELSE 0)
                - (IF proc[w].pc \in pcs /\ proc[w].mail = k THEN 1 ELSE 0)
<1> DEFINE S == At(k, pcs)
           T == {v \in Workers : proc'[v].pc \in pcs /\ proc'[v].mail = k}
           R == S \ {w}
<1>0. At(k, pcs)' = T
  BY DEF At
<1>1. S \subseteq Workers /\ T \subseteq Workers
      /\ (w \in S <=> proc[w].pc \in pcs /\ proc[w].mail = k)
      /\ (w \in T <=> proc'[w].pc \in pcs /\ proc'[w].mail = k)
  BY DEF At
<1>2. S \ {w} = T \ {w}
  BY DEF At
<1> HIDE DEF S, T
<1>3. IsFiniteSet(S) /\ IsFiniteSet(T) /\ IsFiniteSet(R)
  BY <1>1, FS_Subset, MailSendAssumption
<1>4. Cardinality(S) \in Nat /\ Cardinality(T) \in Nat /\ Cardinality(R) \in Nat
  BY <1>3, FS_CardinalityType
<1>5. Cardinality(S) = Cardinality(R) + (IF w \in S THEN 1 ELSE 0)
  <2>1. CASE w \in S
    <3>1. S = R \cup {w} /\ w \notin R
      BY <2>1
    <3> QED BY <1>3, <2>1, <3>1, FS_AddElement
  <2>2. CASE w \notin S
    <3>1. S = R
      BY <2>2
    <3> QED BY <1>4, <2>2, <3>1
  <2> QED BY <2>1, <2>2
<1>6. Cardinality(T) = Cardinality(R) + (IF w \in T THEN 1 ELSE 0)
  <2>1. CASE w \in T
    <3>1. T = R \cup {w} /\ w \notin R
      BY <1>2, <2>1
    <3> QED BY <1>3, <2>1, <3>1, FS_AddElement
  <2>2. CASE w \notin T
    <3>1. T = R
      BY <1>2, <2>2
    <3> QED BY <1>4, <2>2, <3>1
  <2> QED BY <2>1, <2>2
<1>7. Cardinality(T) = Cardinality(S) + (IF w \in T THEN 1 ELSE 0) - (IF w \in S THEN 1 ELSE 0)
  BY <1>4, <1>5, <1>6
<1> QED BY <1>0, <1>1, <1>4, <1>7 DEF S

\* What a step of worker w does to its own state: it takes a job, goes on with
\* it, or is off.
LEMMA WorkerMoves ==
    ASSUME SendInv, NEW w \in Workers,
           \/ \E k \in Mails : Take(w, k)
           \/ ReadDraft(w) \/ Claim(w) \/ Mail(w) \/ StoreSent(w) \/ Commit(w) \/ EndStep(w)
    PROVE  /\ \A v \in Workers \ {w} : proc'[v] = proc[v]
           /\ \/ proc[w] = Off
              \/ proc'[w] = Off
              \/ proc'[w].mail = proc[w].mail
<1>0. proc \in [Workers -> [pc : Steps, mail : Mails \cup {None}]]
  BY DEF SendInv, TypeOK
<1>1. CASE \E k \in Mails : Take(w, k)
  BY <1>0, <1>1 DEF Take
<1>2. CASE ReadDraft(w) \/ Claim(w)
  BY <1>0, <1>2 DEF ReadDraft, Claim, Finish, Go
<1>3. CASE Mail(w) \/ StoreSent(w) \/ Commit(w)
  BY <1>0, <1>3 DEF Mail, StoreSent, Commit, Go
<1>4. CASE EndStep(w)
  BY <1>0, <1>4 DEF EndStep, Mark, MarkThrows, WorkerDies, Finish, Go
<1> QED BY <1>1, <1>2, <1>3, <1>4

\* The arithmetic of a worker's step, for one mail: what goes out or to the
\* Sent folder pays for the worker's move between the steps.
SentMove(w, k) ==
    LET i == IF proc'[w].pc \in Storing /\ proc'[w].mail = k THEN 1 ELSE 0
        j == IF proc[w].pc \in Storing /\ proc[w].mail = k THEN 1 ELSE 0
    IN  /\ sentRow'[k] >= sentRow[k]
        /\ (sentRow'[k] - sentRow[k]) + (i - j) <= out'[k] - out[k]

\* No step of a worker shows a mail that did not go out.
LEMMA SentMoves ==
    ASSUME SendInv, NEW w \in Workers, NEW k \in Mails,
           \/ \E m \in Mails : Take(w, m)
           \/ ReadDraft(w) \/ Claim(w) \/ Mail(w) \/ StoreSent(w) \/ Commit(w) \/ EndStep(w)
    PROVE  SentMove(w, k) /\ UNCHANGED indexed
<1>0. /\ proc \in [Workers -> [pc : Steps, mail : Mails \cup {None}]]
      /\ out \in [Mails -> Nat] /\ sentRow \in [Mails -> Nat]
      /\ proc[w].pc # "off" => proc[w].mail \in Mails
  BY DEF SendInv, TypeOK, RunOwned
<1>1. CASE \E m \in Mails : Take(w, m)
  <2>1. /\ proc[w].pc \notin Storing /\ proc'[w].pc \notin Storing
        /\ UNCHANGED <<out, sentRow, indexed>>
    BY <1>0, <1>1 DEF Take, Off, Storing, search
  <2> QED BY <1>0, <2>1 DEF SentMove
<1>2. CASE ReadDraft(w) \/ Claim(w)
  <2>1. /\ proc[w].pc \notin Storing /\ proc'[w].pc \notin Storing
        /\ UNCHANGED <<out, sentRow, indexed>>
    BY <1>0, <1>2 DEF ReadDraft, Claim, Finish, Go, Off, Storing, search
  <2> QED BY <1>0, <2>1 DEF SentMove
<1>3. CASE Mail(w)
  <2>1. /\ proc[w].pc \notin Storing /\ proc'[w].mail = proc[w].mail
        /\ \/ out' = [out EXCEPT ![proc[w].mail] = @ + 1]
           \/ out' = out /\ proc'[w].pc \notin Storing
        /\ UNCHANGED <<sentRow, indexed>>
    BY <1>0, <1>3 DEF Mail, Go, Storing, search
  <2> QED BY <1>0, <2>1 DEF SentMove
<1>4. CASE StoreSent(w)
  <2>1. /\ proc[w].pc \in Storing /\ proc'[w].mail = proc[w].mail
        /\ UNCHANGED <<out, sentRow, indexed>>
    BY <1>0, <1>4 DEF StoreSent, Go, Storing
  <2> QED BY <1>0, <2>1 DEF SentMove
<1>5. CASE Commit(w)
  <2>1. /\ proc[w].pc \in Storing /\ proc'[w].pc \notin Storing
        /\ proc[w].mail \in Mails
        /\ (sentRow' = [sentRow EXCEPT ![proc[w].mail] = @ + 1] \/ sentRow' = sentRow)
        /\ UNCHANGED <<out, indexed>>
    BY <1>0, <1>5 DEF Commit, Go, Storing, search
  <2> QED BY <1>0, <2>1 DEF SentMove
<1>6. CASE EndStep(w)
  <2>1. proc'[w].pc \notin Storing /\ UNCHANGED <<out, sentRow, indexed>>
    BY <1>0, <1>6 DEF EndStep, Mark, MarkThrows, WorkerDies, Finish, Go, Off, Storing, search
  <2> QED BY <1>0, <2>1 DEF SentMove
<1> QED BY <1>1, <1>2, <1>3, <1>4, <1>5, <1>6

\* Every step keeps the Sent folder and the index covered.
LEMMA SentStep == SendInv /\ SentInv /\ [Next]_vars => SentInv'
<1> SUFFICES ASSUME SendInv, SentInv, [Next]_vars, NEW k \in Mails PROVE SentRight(k)'
  BY DEF SentInv
<1>0. SentRight(k) /\ out[k] \in Nat /\ sentRow[k] \in Nat
  BY DEF SentInv, SendInv, TypeOK
<1>1. ASSUME NEW w \in Workers,
             \/ \E m \in Mails : Take(w, m)
             \/ ReadDraft(w) \/ Claim(w) \/ Mail(w) \/ StoreSent(w) \/ Commit(w) \/ EndStep(w)
      PROVE  SentRight(k)'
  <2> DEFINE c == Cardinality(At(k, Storing))
  <2>1. SentMove(w, k) /\ UNCHANGED indexed
    BY <1>1, SentMoves
  <2>2. /\ c \in Nat /\ c' \in Nat
        /\ c' = c + (IF proc'[w].pc \in Storing /\ proc'[w].mail = k THEN 1 ELSE 0)
                  - (IF proc[w].pc \in Storing /\ proc[w].mail = k THEN 1 ELSE 0)
    BY <1>1, WorkerMoves, AtChange
  <2>3. TypeOK'
    BY SendTypeStep DEF SendInv
  <2>4. out'[k] \in Nat /\ sentRow'[k] \in Nat
    BY <2>3 DEF TypeOK
  <2>5. sentRow[k] + c <= out[k] /\ (k \in indexed => sentRow[k] > 0)
    BY <1>0 DEF SentRight
  <2> HIDE DEF c
  <2>6. sentRow'[k] + c' <= out'[k] /\ sentRow'[k] >= sentRow[k]
    BY <1>0, <2>1, <2>2, <2>4, <2>5 DEF SentMove
  <2>7. k \in indexed' => sentRow'[k] > 0
    BY <1>0, <2>1, <2>4, <2>5, <2>6
  <2> QED BY <2>6, <2>7 DEF SentRight, c
<1>2. CASE \/ QueueStep \/ UNCHANGED vars
           \/ \E d \in Drafts : InsertDraft(d) \/ DeleteScheduledDraft(d)
  <2>1. UNCHANGED <<proc, out, sentRow>>
    BY <1>2 DEF QueueStep, WebDies, Enqueue, IndexMessage, Stall, Recover, Stalled, vars,
       InsertDraft, DeleteScheduledDraft
  <2>2. k \in indexed' => sentRow[k] > 0
    <3>1. CASE \E m \in Mails : IndexMessage(m)
      BY <1>0, <3>1 DEF IndexMessage, SentRight
    <3>2. CASE ~ \E m \in Mails : IndexMessage(m)
      <4>1. UNCHANGED indexed
        BY <1>2, <3>2 DEF QueueStep, WebDies, Enqueue, Stall, Recover, Stalled, vars,
           InsertDraft, DeleteScheduledDraft, search
      <4> QED BY <1>0, <4>1 DEF SentRight
    <3> QED BY <3>1, <3>2
  <2> QED BY <1>0, <2>1, <2>2 DEF SentRight, At
<1> QED BY <1>1, <1>2, SendCases

\* The Sent folder and the search index show no mail that never went out, and
\* the folder shows none more often than it went out.
THEOREM SentFolderTrue == Spec => []SentShowsOnlySent
<1>1. Init => SendInv /\ SentInv
  <2> SUFFICES ASSUME Init, NEW k \in Mails PROVE SentRight(k)
    BY SendInit DEF SentInv
  <2>1. At(k, Storing) = {} /\ out[k] = 0 /\ sentRow[k] = 0 /\ indexed = {}
    BY DEF Init, At, Storing, Off
  <2> QED BY <2>1, FS_EmptySet DEF SentRight
<1>2. SendInv /\ SentInv /\ [Next]_vars => (SendInv /\ SentInv)'
  BY SendStep, SentStep
<1>3. SendInv /\ SentInv => SentShowsOnlySent
  <2> SUFFICES ASSUME SendInv, SentInv, NEW k \in Mails PROVE sentRow[k] <= out[k]
    BY DEF SentInv, SentRight, SentShowsOnlySent
  <2>1. IsFiniteSet(At(k, Storing))
    BY FS_Subset, MailSendAssumption DEF At
  <2>2. Cardinality(At(k, Storing)) \in Nat
    BY <2>1, FS_CardinalityType
  <2> QED BY <2>2 DEF SentInv, SentRight, SendInv, TypeOK
<1> QED BY <1>1, <1>2, <1>3, PTL DEF Spec

\* A worker's step, for the runs of one direct mail: it takes the run the queue
\* owed, mails, or ends.
RunMove(w, k) ==
    LET i == IF proc'[w].pc \in {"mail"} /\ proc'[w].mail = k THEN 1 ELSE 0
        j == IF proc[w].pc \in {"mail"} /\ proc[w].mail = k THEN 1 ELSE 0
    IN  /\ (out'[k] - out[k]) + (i - j) <= Owed(k) - Owed(k)'
        /\ job'[k].stalls = job[k].stalls
        /\ job[k].state = "none" /\ job[k].owner = None => job'[k] = job[k]

\* The end of a run: the job may be over, it is not queued again.
LEMMA FinishRun ==
    ASSUME SendInv, NEW w \in Workers, NEW k \in Direct, NEW s \in {"completed", "failed"}, Finish(w, s)
    PROVE  /\ proc'[w] = Off /\ Owed(k)' <= Owed(k) /\ Owed(k)' \in Nat
           /\ job'[k].stalls = job[k].stalls
           /\ job[k].state = "none" /\ job[k].owner = None => job'[k] = job[k]
<1>0. /\ proc \in [Workers -> [pc : Steps, mail : Mails \cup {None}]] /\ k \in Mails
      /\ job \in [Mails -> [state : JobState, owner : Workers \cup {None}, stalls : 0..MaxStalls]]
  BY DEF SendInv, TypeOK, Mails
<1>1. job'[k] = job[k] \/ (job[k].owner = w /\ job'[k].state = s /\ job'[k].stalls = job[k].stalls)
  BY <1>0 DEF Finish
<1>2. proc'[w] = Off /\ w # None
  BY <1>0, MailSendAssumption DEF Finish
<1> QED BY <1>1, <1>2 DEF Owed

\* No step of a worker mails, or takes a run, that was not paid for.
LEMMA RunMoves ==
    ASSUME SendInv, NEW w \in Workers, NEW k \in Direct,
           \/ \E m \in Mails : Take(w, m)
           \/ ReadDraft(w) \/ Claim(w) \/ Mail(w) \/ StoreSent(w) \/ Commit(w) \/ EndStep(w)
    PROVE  RunMove(w, k) /\ UNCHANGED web
<1>0. /\ proc \in [Workers -> [pc : Steps, mail : Mails \cup {None}]]
      /\ job \in [Mails -> [state : JobState, owner : Workers \cup {None}, stalls : 0..MaxStalls]]
      /\ out \in [Mails -> Nat] /\ k \in Mails /\ k \notin Drafts
      /\ proc[w].pc # "off" => proc[w].mail \in Mails
  BY MailSendAssumption DEF SendInv, TypeOK, RunOwned, Mails
<1>1. Owed(k) \in Nat /\ Owed(k)' \in Nat /\ (job'[k].state = job[k].state => Owed(k)' = Owed(k))
  BY DEF Owed
<1>2. CASE \E m \in Mails : Take(w, m)
  <2> PICK m \in Mails : Take(w, m)
    BY <1>2
  <2>1. /\ proc[w].pc = "off" /\ UNCHANGED <<web, out>> /\ proc'[w].mail = m
        /\ job[m].state = "waiting"
        /\ job'[m].state = "active" /\ job'[m].stalls = job[m].stalls
        /\ m # k => job'[k] = job[k]
    BY <1>0 DEF Take, Off
  <2>2. CASE m = k
    <3>1. Owed(k) = 1 /\ Owed(k)' = 0
      BY <2>1, <2>2 DEF Owed
    <3> QED BY <1>0, <2>1, <2>2, <3>1 DEF RunMove
  <2>3. CASE m # k
    BY <1>0, <1>1, <2>1, <2>3 DEF RunMove
  <2> QED BY <2>2, <2>3
<1>3. CASE Mail(w)
  <2>1. /\ proc[w].pc = "mail" /\ proc'[w].pc # "mail" /\ UNCHANGED <<web, job>>
        /\ \/ out' = [out EXCEPT ![proc[w].mail] = @ + 1]
           \/ out' = out
    BY <1>0, <1>3 DEF Mail, Go
  <2> QED BY <1>0, <1>1, <2>1 DEF RunMove
<1>4. CASE StoreSent(w) \/ Commit(w) \/ WorkerDies(w)
  <2>1. proc'[w].pc # "mail" /\ UNCHANGED <<web, out, job>>
    BY <1>0, <1>4 DEF StoreSent, Commit, WorkerDies, Go, Off
  <2> QED BY <1>0, <1>1, <2>1 DEF RunMove
<1>5. ASSUME NEW s \in {"completed", "failed"}, Finish(w, s), UNCHANGED <<web, out>>
      PROVE  RunMove(w, k) /\ UNCHANGED web
  BY <1>0, <1>1, <1>5, FinishRun DEF RunMove, Off
<1>6. ASSUME NEW pc \in Steps, Go(w, pc), UNCHANGED <<web, out, job>>, pc # "mail" \/ proc[w].mail # k
      PROVE  RunMove(w, k) /\ UNCHANGED web
  <2>1. proc'[w] = [pc |-> pc, mail |-> proc[w].mail]
    BY <1>0, <1>6 DEF Go
  <2> QED BY <1>0, <1>1, <1>6, <2>1 DEF RunMove
<1>7. CASE ReadDraft(w)
  BY <1>5, <1>6, <1>7 DEF ReadDraft, Steps
<1>8. CASE Claim(w)
  <2>1. proc[w].mail \in Drafts /\ UNCHANGED <<web, out>>
    BY <1>8 DEF Claim, SendInv, RunOwned
  <2> QED BY <1>0, <1>5, <1>6, <1>8, <2>1 DEF Claim, Steps
<1>9. CASE Mark(w) \/ MarkThrows(w)
  BY <1>5, <1>6, <1>9 DEF Mark, MarkThrows, Steps
<1> QED BY <1>2, <1>3, <1>4, <1>7, <1>8, <1>9 DEF EndStep

\* What the queue does to the job of a direct mail: only a stall makes it owe
\* one more run.
LEMMA QueueRuns ==
    ASSUME SendInv, NEW k \in Direct, RunsRight(k),
           \/ QueueStep \/ UNCHANGED vars
           \/ \E d \in Drafts : InsertDraft(d) \/ DeleteScheduledDraft(d)
    PROVE  /\ UNCHANGED <<proc, out>>
           /\ Owed(k)' - Owed(k) <= job'[k].stalls - job[k].stalls
           /\ web'[k] = "new" => job'[k] = job[k] /\ web[k] = "new"
<1>0. /\ job \in [Mails -> [state : JobState, owner : Workers \cup {None}, stalls : 0..MaxStalls]]
      /\ web \in [Mails -> {"new", "inserted", "done", "dead"}] /\ k \in Mails /\ k \notin Drafts
      /\ MaxStalls \in Nat
  BY MailSendAssumption DEF SendInv, TypeOK, Mails
<1>1. job[k].stalls \in Int /\ Owed(k) \in {0, 1} /\ (job'[k] = job[k] => Owed(k)' = Owed(k))
  BY <1>0 DEF Owed
<1>2. UNCHANGED <<proc, out>>
  BY DEF QueueStep, WebDies, Enqueue, IndexMessage, Stall, Recover, Stalled, vars,
     InsertDraft, DeleteScheduledDraft
<1>3. ASSUME NEW m \in Mails, Stalled(m) PROVE
           /\ Owed(k)' - Owed(k) <= job'[k].stalls - job[k].stalls
           /\ web'[k] = "new" => job'[k] = job[k] /\ web[k] = "new"
  <2>1. UNCHANGED web /\ job[m].state = "active" /\ (m # k => job'[k] = job[k])
    BY <1>0, <1>3 DEF Stalled
  <2>2. CASE m # k
    BY <1>1, <2>1, <2>2
  <2>3. CASE m = k
    <3>1. web[k] # "new"
      BY <2>1, <2>3 DEF RunsRight
    <3>2. CASE job[k].stalls < MaxStalls
      <4>1. job'[k] = [state |-> "waiting", owner |-> None, stalls |-> job[k].stalls + 1]
        BY <1>0, <1>3, <2>3, <3>2 DEF Stalled
      <4>2. Owed(k) = 0 /\ Owed(k)' = 1
        BY <2>1, <2>3, <4>1 DEF Owed
      <4> QED BY <1>1, <2>1, <3>1, <4>1, <4>2
    <3>3. CASE ~(job[k].stalls < MaxStalls)
      <4>1. job'[k] = [job[k] EXCEPT !.state = "failed", !.owner = None]
        BY <1>0, <1>3, <2>3, <3>3 DEF Stalled
      <4>2. Owed(k) = 0 /\ Owed(k)' = 0 /\ job'[k].stalls = job[k].stalls
        BY <1>0, <2>1, <2>3, <4>1 DEF Owed
      <4> QED BY <1>1, <2>1, <3>1, <4>2
    <3> QED BY <3>2, <3>3
  <2> QED BY <2>2, <2>3
<1>4. ASSUME NEW m \in Mails, Enqueue(m) PROVE
           /\ Owed(k)' - Owed(k) <= job'[k].stalls - job[k].stalls
           /\ web'[k] = "new" => job'[k] = job[k] /\ web[k] = "new"
  <2>1. CASE m # k
    <3>1. job'[k] = job[k] /\ web'[k] = web[k]
      BY <1>0, <1>4, <2>1 DEF Enqueue
    <3> QED BY <1>1, <3>1
  <2>2. CASE m = k
    <3>1. web[k] = "new" /\ web'[k] = "done" /\ job'[k].stalls = job[k].stalls
      BY <1>0, <1>4, <2>2 DEF Enqueue
    <3>2. Owed(k) = 1 /\ Owed(k)' \in {0, 1}
      BY <3>1 DEF RunsRight, Owed
    <3> QED BY <1>1, <3>1, <3>2
  <2> QED BY <2>1, <2>2
<1>5. CASE (\E d \in Drafts : WebDies(d) \/ InsertDraft(d) \/ DeleteScheduledDraft(d))
           \/ (\E m \in Mails : IndexMessage(m)) \/ UNCHANGED vars
  <2>1. job'[k] = job[k] /\ web'[k] = web[k]
    BY <1>0, <1>5 DEF WebDies, InsertDraft, DeleteScheduledDraft, IndexMessage, vars
  <2> QED BY <1>1, <1>2, <2>1
<1> QED BY <1>2, <1>3, <1>4, <1>5 DEF QueueStep, Stall, Recover

\* Every step keeps the runs of a direct mail paid for.
LEMMA RunsStep == SendInv /\ RunsInv /\ [Next]_vars => RunsInv'
<1> SUFFICES ASSUME SendInv, RunsInv, [Next]_vars, NEW k \in Direct PROVE RunsRight(k)'
  BY DEF RunsInv
<1> DEFINE c == Cardinality(At(k, {"mail"}))
<1>0. RunsRight(k) /\ k \in Mails
  BY DEF RunsInv, Mails
<1>1. TypeOK /\ TypeOK'
  BY SendTypeStep DEF SendInv
<1>2. /\ out[k] \in Nat /\ out'[k] \in Nat /\ job[k].stalls \in Int /\ job'[k].stalls \in Int
      /\ Owed(k) \in Nat /\ Owed(k)' \in Nat
  <2>1. job[k].stalls \in 0..MaxStalls /\ job'[k].stalls \in 0..MaxStalls
    BY <1>0, <1>1 DEF TypeOK
  <2> QED BY <1>0, <1>1, <2>1, MailSendAssumption DEF TypeOK, Owed
<1>3. /\ out[k] + c + Owed(k) <= 1 + job[k].stalls
      /\ web[k] = "new" => job[k].state = "none" /\ job[k].owner = None
  BY <1>0 DEF RunsRight
<1>4. RunsRight(k)' <=> /\ out'[k] + c' + Owed(k)' <= 1 + job'[k].stalls
                        /\ web'[k] = "new" => job'[k].state = "none" /\ job'[k].owner = None
  BY DEF RunsRight
<1>5. ASSUME NEW w \in Workers,
             \/ \E m \in Mails : Take(w, m)
             \/ ReadDraft(w) \/ Claim(w) \/ Mail(w) \/ StoreSent(w) \/ Commit(w) \/ EndStep(w)
      PROVE  RunsRight(k)'
  <2>1. RunMove(w, k) /\ UNCHANGED web
    BY <1>5, RunMoves
  <2>2. /\ c \in Nat /\ c' \in Nat
        /\ c' = c + (IF proc'[w].pc \in {"mail"} /\ proc'[w].mail = k THEN 1 ELSE 0)
                  - (IF proc[w].pc \in {"mail"} /\ proc[w].mail = k THEN 1 ELSE 0)
    BY <1>5, WorkerMoves, AtChange
  <2> HIDE DEF c
  <2>3. out'[k] + c' + Owed(k)' <= 1 + job'[k].stalls
    BY <1>2, <1>3, <2>1, <2>2 DEF RunMove
  <2>4. web'[k] = "new" => job'[k].state = "none" /\ job'[k].owner = None
    BY <1>3, <2>1 DEF RunMove
  <2> QED BY <1>4, <2>3, <2>4
<1>6. CASE \/ QueueStep \/ UNCHANGED vars
           \/ \E d \in Drafts : InsertDraft(d) \/ DeleteScheduledDraft(d)
  <2>1. /\ UNCHANGED <<proc, out>>
        /\ Owed(k)' - Owed(k) <= job'[k].stalls - job[k].stalls
        /\ web'[k] = "new" => job'[k] = job[k] /\ web[k] = "new"
    BY <1>0, <1>6, QueueRuns
  <2>2. c' = c /\ c \in Nat
    <3>1. c' = c
      BY <2>1 DEF At
    <3>2. IsFiniteSet(At(k, {"mail"}))
      BY FS_Subset, MailSendAssumption DEF At
    <3> QED BY <3>1, <3>2, FS_CardinalityType
  <2> HIDE DEF c
  <2>3. out'[k] + c' + Owed(k)' <= 1 + job'[k].stalls
    BY <1>2, <1>3, <2>1, <2>2
  <2>4. web'[k] = "new" => job'[k].state = "none" /\ job'[k].owner = None
    BY <1>3, <2>1
  <2> QED BY <1>4, <2>3, <2>4
<1> QED BY <1>5, <1>6, SendCases

\* A direct mail goes out at most once, and once more for each time its job was
\* stalled.
THEOREM DirectOncePerRun == Spec => []DirectOutPerRun
<1>1. Init => SendInv /\ RunsInv
  <2> SUFFICES ASSUME Init, NEW k \in Direct PROVE RunsRight(k)
    BY SendInit DEF RunsInv
  <2>1. At(k, {"mail"}) = {} /\ out[k] = 0 /\ job[k] = NoJob
    BY DEF Init, At, Off, Mails
  <2>2. job[k].state = "none" /\ job[k].owner = None /\ job[k].stalls = 0 /\ Owed(k) = 1
    BY <2>1 DEF Owed, NoJob
  <2>3. Cardinality(At(k, {"mail"})) = 0
    BY <2>1, FS_EmptySet
  <2> QED BY <2>1, <2>2, <2>3 DEF RunsRight
<1>2. SendInv /\ RunsInv /\ [Next]_vars => (SendInv /\ RunsInv)'
  BY SendStep, RunsStep
<1>3. SendInv /\ RunsInv => DirectOutPerRun
  <2> SUFFICES ASSUME SendInv, RunsInv, NEW k \in Direct PROVE out[k] <= 1 + job[k].stalls
    BY DEF DirectOutPerRun
  <2>1. IsFiniteSet(At(k, {"mail"}))
    BY FS_Subset, MailSendAssumption DEF At
  <2>2. Cardinality(At(k, {"mail"})) \in Nat
    BY <2>1, FS_CardinalityType
  <2>3. out[k] \in Nat /\ Owed(k) \in Nat /\ job[k].stalls \in 0..MaxStalls
    BY DEF SendInv, TypeOK, Owed, Mails
  <2>4. out[k] + Cardinality(At(k, {"mail"})) + Owed(k) <= 1 + job[k].stalls
    BY DEF RunsInv, RunsRight
  <2> QED BY <2>2, <2>3, <2>4, MailSendAssumption
<1> QED BY <1>1, <1>2, <1>3, PTL DEF Spec
=============================================================================
