-------------------------- MODULE MailFlagsProofs --------------------------
(***************************************************************************)
(* Proofs about MailFlags: when all work is done, the list shows what the  *)
(* rows add up to, the last command on a flag has been carried out, and    *)
(* the IMAP server holds what the rows hold, but for the exceptions that   *)
(* hist names.                                                             *)
(*                                                                         *)
(* The invariants say it of the states in between.  A count that nobody    *)
(* has overtaken is still right.  Of the commands on a flag that are still *)
(* to be carried out the youngest is the last word.  A flag that no        *)
(* command is about to change is the same on both sides, or a notice of    *)
(* what the server holds is on its way or being handled.                   *)
(***************************************************************************)
EXTENDS MailFlags, TLAPS, FiniteSetTheorems

-----------------------------------------------------------------------------
(* The invariant: shapes.                                                   *)

IntakeRow(r) == r = [pc |-> r.pc, unread |-> r.unread, star |-> r.star] /\ r.unread \in Nat /\ r.star \in BOOLEAN
WriterRow(w) ==
    /\ DOMAIN w = {"pc", "op", "row", "rows", "locked", "unread", "star", "ok"}
    /\ w.unread \in Nat /\ w.star \in BOOLEAN
HistRow(h) == h = [word |-> h.word, unsure |-> h.unsure, apart |-> h.apart, dirty |-> h.dirty, raced |-> h.raced]

\* A mail has a row from its insert on, and the server has it too.
MailTyped ==
    /\ msg \in [Mids -> Row \cup {None}] /\ srv \in [Mids -> Row \cup {None}]
    /\ intake = [m \in Mids |-> intake[m]]
    /\ \A m \in Mids : IntakeRow(intake[m]) /\ (intake[m].pc = "off" <=> msg[m] = None) /\ (srv[m] = None <=> msg[m] = None)

\* Only markAsRead and markAsUnread have a transaction of their own.
WriterTyped ==
    /\ writer = [p \in Writers |-> writer[p]]
    /\ \A p \in Writers : WriterRow(writer[p])
    /\ \A p \in Commanders : writer[p].pc # "off" => writer[p].op \in Ops
    /\ writer["web"].pc \in {"off", "write", "queue"} /\ writer["rule"].pc \in {"off", "write", "queue"}
    /\ writer["web"].pc = "write" => writer["web"].op \in {"read", "unread"}
    /\ writer["web"].pc = "write" => writer["job"].pc # "write"
    /\ writer["rule"].pc = "write" => writer["rule"].op = "read"

\* A notice is about a mail that is stored.
NoticeTyped ==
    /\ \A n \in inbox : n.mail \in Stored /\ n.row \in Row
    /\ \A h \in Handlers : writer[h].pc # "off" =>
          writer[h].row \in Row /\ \E m \in Stored : writer[h].rows = {m}

OtherTyped ==
    /\ fq \in Seq(Ops) /\ late \subseteq Ops
    /\ common = [mail |-> common.mail, acts |-> common.acts, stalled |-> common.stalled]
    /\ common.acts \in Seq({"read", "flag"})
    /\ HistRow(hist) /\ hist.word = [f \in Fields |-> hist.word[f]]
    /\ list # None => list \in [unread : Nat, star : BOOLEAN]

\* Whoever changes the list finds an entry to change.
Listed ==
    (\/ cq # <<>> \/ common.mail # None \/ common.acts # <<>> \/ common.stalled # {}
     \/ writer["rule"].pc # "off" \/ writer["web"].pc # "off"
     \/ \E m \in Mids : intake[m].pc \in {"held", "done"}) => list # None

Typed == MailTyped /\ WriterTyped /\ NoticeTyped /\ OtherTyped /\ Listed

-----------------------------------------------------------------------------
(* The invariant: the list.                                                 *)

DirtyCounts == hist.dirty \subseteq Counting
Clean(p) == p \notin hist.dirty

\* What has been counted and not overtaken is what the rows add up to, or will
\* when the transaction commits.
Counted ==
    /\ \A m \in Mids : intake[m].pc = "upsert" /\ Clean(m) =>
          intake[m].unread = Unread(msg) /\ intake[m].star = Starred(msg)
    /\ \A p \in {"web", "job"} : writer[p].pc = "write" /\ Clean(p) =>
          /\ writer[p].locked = Stored
          /\ writer[p].unread = Unread(With(writer[p].op, Stored))
          /\ writer[p].star = Starred(With(writer[p].op, Stored))
    /\ writer["rule"].pc = "write" /\ Clean("rule") => Unread(msg) = 0
    /\ \A h \in Handlers : writer[h].pc = "write" /\ Clean(h) =>
          writer[h].unread = Unread(Noticed(writer[h])) /\ writer[h].star = Starred(Noticed(writer[h]))

Quiet == \A m \in Mids : ~ AtWork(m)
ListU ==
    list # None /\ "unread" \notin hist.raced /\ Quiet /\ writer["rule"].pc # "write" => list.unread = Unread(msg)
ListS ==
    list # None /\ "star" \notin hist.raced => (list.star => Starred(msg)) /\ (Quiet => list.star = Starred(msg))

ListInv == DirtyCounts /\ Counted /\ ListU /\ ListS

-----------------------------------------------------------------------------
(* The invariant: the last word.                                            *)

InQueue(f) == \E i \in DOMAIN fq : About(fq[i]) = f
IsLate(f) == \E l \in late : About(l) = f
Speaks(f, p) == writer[p].pc # "off" /\ About(writer[p].op) = f
\* A command on the flag is still to be carried out, or its job to end.
Pend(f) == InQueue(f) \/ IsLate(f) \/ \E p \in Commanders : Speaks(f, p)

\* The youngest job on f in the queue is one for op.
Youngest(f, op) ==
    \A i \in DOMAIN fq : About(fq[i]) = f /\ (\A k \in DOMAIN fq : About(fq[k]) = f => k <= i) => fq[i] = op

\* The rows have what the last word says.
Obeyed(f) == \A m \in hist.word[f].rows : msg[m][f] = Has(hist.word[f].op)

WordOf(f) ==
    /\ ~ (Speaks(f, "web") /\ Speaks(f, "rule"))
    /\ \A p \in {"web", "rule"} : Speaks(f, p) => writer[p].op = hist.word[f].op /\ ~ IsLate(f)
    /\ IsLate(f) => ~ InQueue(f) /\ ~ Speaks(f, "job") /\ \A l \in late : About(l) = f => l = hist.word[f].op
    /\ ~ Speaks(f, "web") /\ ~ Speaks(f, "rule") =>
         /\ Youngest(f, hist.word[f].op)
         /\ Speaks(f, "job") /\ ~ InQueue(f) =>
              /\ writer["job"].op = hist.word[f].op
              /\ writer["job"].pc = "write" => hist.word[f].rows \subseteq writer["job"].locked
              /\ writer["job"].pc = "index" => Obeyed(f)
    /\ ~ Pend(f) => Obeyed(f)

WordInv == \A f \in Fields : hist.word[f].rows \subseteq Stored /\ (f \notin hist.unsure => WordOf(f))

-----------------------------------------------------------------------------
(* The invariant: the server.                                               *)

LockedIn == \A p \in {"web", "job"} : writer[p].pc = "write" => writer[p].locked \subseteq Stored

\* The row has the flag that the server holds, or a notice of it is on its way.
Waits(m, f) == \E n \in inbox : n.mail = m /\ n.row[f] = srv[m][f]
Handled(m, f) == \E h \in Handlers : writer[h].pc # "off" /\ writer[h].rows = {m} /\ writer[h].row[f] = srv[m][f]
Agree(m, f) == srv[m][f] = msg[m][f] \/ Waits(m, f) \/ Handled(m, f)

\* What the job has set on the server, and the mails that came in since.
JobDone ==
    /\ writer["job"].pc # "off" => writer["job"].rows \subseteq Stored
    /\ writer["job"].pc \in {"begin", "write"} /\ writer["job"].ok =>
         \A m \in writer["job"].rows : srv[m][About(writer["job"].op)] = Has(writer["job"].op)
    /\ writer["job"].pc = "write" /\ writer["job"].ok =>
         \A m \in Stored \ writer["job"].locked : Agree(m, About(writer["job"].op))

\* A command on the flag has not been carried out.
Open(f) == \/ InQueue(f) \/ IsLate(f) \/ Speaks(f, "web") \/ Speaks(f, "rule")
           \/ Speaks(f, "job") /\ writer["job"].pc # "index"

Follows == \A f \in Fields \ hist.apart : ~ Open(f) => \A m \in Stored : Agree(m, f)
ServerInv == LockedIn /\ JobDone /\ Follows

FlagsInv == Typed /\ ListInv /\ WordInv /\ ServerInv

-----------------------------------------------------------------------------
(* Operators.                                                               *)

\* A command changes its own flag, and only that.
LEMMA MarkedFacts ==
    ASSUME NEW r \in Row, NEW op \in Ops
    PROVE  /\ Marked(op, r) \in Row /\ About(op) \in Fields
           /\ Marked(op, r)[About(op)] = Has(op)
           /\ \A f \in Fields : f # About(op) => Marked(op, r)[f] = r[f]
<1>1. CASE op = "read"
  BY <1>1 DEF Marked, About, Row, Fields, Has
<1>2. CASE op = "unread"
  BY <1>2 DEF Marked, About, Row, Fields, Has
<1>3. CASE op = "flag"
  BY <1>3 DEF Marked, About, Row, Fields, Has
<1>4. CASE op = "unflag"
  BY <1>4 DEF Marked, About, Row, Fields, Has
<1> QED BY <1>1, <1>2, <1>3, <1>4 DEF Ops

\* Names that are told apart.
LEMMA Apart ==
    /\ None \notin Row /\ None \notin Mids /\ Mids \cap Writers = {}
    /\ "web" \in Writers /\ "rule" \in Writers /\ "job" \in Writers
    /\ "web" \notin Mids /\ "rule" \notin Mids /\ "job" \notin Mids
    /\ "web" \in Commanders /\ "rule" \in Commanders /\ "job" \in Commanders
    /\ \A p \in Commanders : p \in Writers /\ p \notin Handlers /\ p \in {"web", "rule", "job"}
    /\ \A h \in Handlers : h \in Writers /\ h \notin Mids /\ h # "web" /\ h # "rule" /\ h # "job"
    /\ \A p \in Writers : p \in Commanders \/ p \in Handlers
BY MailFlagsAssumption DEF Writers, Commanders
USE Apart

\* What is counted is a number, and an entry of the list is not None.
LEMMA Counts ==
    /\ \A f : Unread(f) \in Nat /\ Starred(f) \in BOOLEAN
    /\ \A n \in Nat, s \in BOOLEAN :
          [unread |-> n, star |-> s] # None /\ [unread |-> n, star |-> s] \in [unread : Nat, star : BOOLEAN]
<1>1. ASSUME NEW f PROVE Unread(f) \in Nat
  <2>1. {m \in Stored : ~ f[m].seen} \subseteq Mids
    BY DEF Stored
  <2>2. IsFiniteSet({m \in Stored : ~ f[m].seen})
    BY <2>1, FS_Subset, MailFlagsAssumption
  <2> QED BY <2>2, FS_CardinalityType DEF Unread
<1>2. \A f : Starred(f) \in BOOLEAN
  BY DEF Starred
<1> QED BY <1>1, <1>2, MailFlagsAssumption

\* The rows of ms after a command on them.
LEMMA WithFacts ==
    ASSUME MailTyped, NEW op \in Ops, NEW ms, ms \subseteq Stored, msg' = With(op, ms)
    PROVE  /\ msg' \in [Mids -> Row \cup {None}] /\ Stored' = Stored
           /\ \A m \in Mids : msg'[m] = None <=> msg[m] = None
           /\ \A m \in ms : msg'[m][About(op)] = Has(op)
           /\ \A m \in Stored, f \in Fields : f # About(op) \/ m \notin ms => msg'[m][f] = msg[m][f]
           /\ ms = Stored => Unread(msg)' = Unread(With(op, Stored)) /\ Starred(msg)' = Starred(With(op, Stored))
<1>1. \A m \in Stored : m \in Mids /\ msg[m] \in Row
  BY DEF MailTyped, Stored
<1>2. msg' = [m \in Mids |-> IF m \in ms THEN Marked(op, msg[m]) ELSE msg[m]]
  BY DEF With
<1>3. \A m \in ms : msg'[m] = Marked(op, msg[m]) /\ msg'[m] \in Row /\ msg'[m] # None /\ msg[m] # None
  BY <1>1, <1>2, MarkedFacts, Apart
<1>4. \A m \in Mids : m \notin ms => msg'[m] = msg[m]
  BY <1>2
<1>5. msg' \in [Mids -> Row \cup {None}]
  BY <1>2, <1>3, <1>4 DEF MailTyped
<1>6. Stored' = Stored /\ \A m \in Mids : msg'[m] = None <=> msg[m] = None
  BY <1>3, <1>4 DEF Stored
<1>7. \A m \in ms : msg'[m][About(op)] = Has(op)
  BY <1>1, <1>3, MarkedFacts
<1>8. \A m \in Stored, f \in Fields : f # About(op) \/ m \notin ms => msg'[m][f] = msg[m][f]
  BY <1>1, <1>3, <1>4, MarkedFacts
<1>9. ms = Stored => Unread(msg)' = Unread(With(op, Stored)) /\ Starred(msg)' = Starred(With(op, Stored))
  BY <1>6 DEF Unread, Starred
<1> QED BY <1>5, <1>6, <1>7, <1>8, <1>9

\* Once all rows are marked as read none is unread.
LEMMA ReadAll ==
    ASSUME MailTyped
    PROVE  Unread(With("read", Stored)) = 0
<1>1. \A m \in Stored : With("read", Stored)[m].seen
  BY DEF With, Marked, Stored
<1>2. {m \in Stored : ~ With("read", Stored)[m].seen} = {}
  BY <1>1
<1> QED BY <1>2, FS_EmptySet DEF Unread

\* What the rows add up to depends on the rows only.
LEMMA SameRows ==
    ASSUME msg' = msg
    PROVE  /\ Stored' = Stored /\ Unread(msg)' = Unread(msg) /\ Starred(msg)' = Starred(msg)
           /\ \A op : /\ Unread(With(op, Stored))' = Unread(With(op, Stored))
                      /\ Starred(With(op, Stored))' = Starred(With(op, Stored))
           /\ \A w : Unread(Noticed(w))' = Unread(Noticed(w)) /\ Starred(Noticed(w))' = Starred(Noticed(w))
<1>1. Stored' = Stored
  BY DEF Stored
<1>2. \A op : With(op, Stored)' = With(op, Stored)
  BY <1>1 DEF With
<1>3. \A w : Noticed(w)' = Noticed(w)
  BY DEF Noticed
<1> QED BY <1>1, <1>2, <1>3 DEF Unread, Starred

\* What is said of notices stays so while they are not touched.
LEMMA NoticeSame ==
    ASSUME NoticeTyped, Stored \subseteq Stored', inbox' \subseteq inbox, \A h \in Handlers : writer'[h] = writer[h]
    PROVE  NoticeTyped'
BY DEF NoticeTyped

\* A row and the server still agree, or are told to.
LEMMA AgreeSame ==
    ASSUME NEW m, NEW f, srv'[m][f] = srv[m][f], msg'[m][f] = msg[m][f], inbox \subseteq inbox',
           \A h \in Handlers : writer'[h] = writer[h]
    PROVE  Agree(m, f) => Agree(m, f)'
BY DEF Agree, Waits, Handled

\* So they do in a step that touches neither rows nor server, and takes up no notice.
LEMMA AgreeAll ==
    ASSUME srv' = srv, msg' = msg, inbox \subseteq inbox', \A h \in Handlers : writer'[h] = writer[h]
    PROVE  \A m, f : Agree(m, f) => Agree(m, f)'
BY DEF Agree, Waits, Handled

\* The server follows where it did, or where a command has been carried out.
LEMMA FollowsKept ==
    ASSUME Follows, Stored' = Stored,
           \A f \in Fields : f \notin hist'.apart /\ ~ Open(f)' =>
               f \notin hist.apart /\ ~ Open(f) /\ \A m \in Stored : Agree(m, f) => Agree(m, f)'
    PROVE  Follows'
BY DEF Follows

\* What the job has done stays done.
LEMMA JobKept ==
    ASSUME JobDone, Stored' = Stored, srv' = srv, writer'["job"] = writer["job"],
           writer["job"].pc = "write" => \A m \in Stored : \A f : Agree(m, f) => Agree(m, f)'
    PROVE  JobDone'
<1>1. PICK f : f = About(writer["job"].op)
  OBVIOUS
<1>2. About(writer'["job"].op) = f
  BY <1>1
<1>3. \A m : Agree(m, About(writer["job"].op)) <=> Agree(m, f)
  BY <1>1
<1>4. \A m : Agree(m, About(writer["job"].op))' <=> Agree(m, f)'
  BY <1>2
<1> QED BY <1>1, <1>2, <1>3, <1>4 DEF JobDone

\* Steps that have nothing to do with commands.
LEMMA NoCommand ==
    ASSUME WordInv, ServerInv, msg' = msg, srv' = srv, fq' = fq, late' = late, writer' = writer, inbox' = inbox,
           hist'.word = hist.word, hist'.unsure = hist.unsure, hist'.apart = hist.apart
    PROVE  WordInv' /\ ServerInv'
<1>1. Stored' = Stored
  BY DEF Stored
<1>2. \A f : /\ InQueue(f)' = InQueue(f) /\ IsLate(f)' = IsLate(f) /\ Pend(f)' = Pend(f)
             /\ \A p : Speaks(f, p)' = Speaks(f, p)
             /\ \A op : Youngest(f, op)' = Youngest(f, op)
  BY DEF InQueue, IsLate, Pend, Speaks, Youngest
<1>3. \A f : WordOf(f) => WordOf(f)'
  BY <1>2 DEF WordOf, Youngest, Obeyed
<1>4. WordInv'
  BY <1>1, <1>3 DEF WordInv
<1>5. \A m, f : Agree(m, f) => Agree(m, f)'
  BY DEF Agree, Waits, Handled
<1>6. \A f : Open(f)' = Open(f)
  BY <1>2 DEF Open
<1>7. ServerInv'
  BY <1>1, <1>5, <1>6 DEF ServerInv, LockedIn, JobDone, Follows
<1> QED BY <1>4, <1>7

\* Nothing changes of a writer but that what it has set or read may not stand.
OnlyDoubted(w, v) ==
    /\ v.pc = w.pc /\ v.op = w.op /\ v.rows = w.rows /\ v.locked = w.locked
    /\ v.unread = w.unread /\ v.star = w.star /\ (v.ok => w.ok)

\* Steps that change neither rows nor list nor counts, and neither begin nor
\* end a transaction.
LEMMA NoCount ==
    ASSUME ListInv, msg' = msg, list' = list, hist'.dirty = hist.dirty, hist'.raced = hist.raced,
           \A m \in Mids : AtWork(m) <=> intake'[m].pc \in {"count", "upsert"},
           \A m \in Mids : intake[m].pc = "upsert" \/ intake'[m].pc = "upsert" => intake'[m] = intake[m],
           \A p \in Writers : writer[p].pc = "write" \/ writer'[p].pc = "write" =>
               writer'[p] = writer[p] \/ (p = "job" /\ OnlyDoubted(writer[p], writer'[p]))
    PROVE  ListInv'
<1>1. /\ Stored' = Stored /\ Unread(msg)' = Unread(msg) /\ Starred(msg)' = Starred(msg)
      /\ \A op : /\ Unread(With(op, Stored))' = Unread(With(op, Stored))
                 /\ Starred(With(op, Stored))' = Starred(With(op, Stored))
      /\ \A w : Unread(Noticed(w))' = Unread(Noticed(w)) /\ Starred(Noticed(w))' = Starred(Noticed(w))
  BY SameRows
<1>2. Quiet' = Quiet /\ "web" \in Writers /\ "job" \in Writers /\ "rule" \in Writers
  BY DEF Quiet, AtWork
<1>3. DirtyCounts'
  <2>1. \A p \in Writers : writer[p].pc = "write" <=> writer'[p].pc = "write"
    BY DEF OnlyDoubted
  <2>2. \A m \in Mids : intake[m].pc = "upsert" <=> intake'[m].pc = "upsert"
    OBVIOUS
  <2>3. Counting' = Counting
    BY <2>1, <2>2 DEF Counting
  <2> QED BY <2>3 DEF ListInv, DirtyCounts
<1>4. Counted'
  <2>1. \A m \in Mids : intake'[m].pc = "upsert" /\ Clean(m)' =>
          intake'[m].unread = Unread(msg)' /\ intake'[m].star = Starred(msg)'
    BY <1>1 DEF ListInv, Counted, Clean
  <2>2. ASSUME NEW p \in {"web", "job"}, writer'[p].pc = "write", Clean(p)'
        PROVE  /\ writer'[p].locked = Stored'
               /\ writer'[p].unread = Unread(With(writer[p].op, Stored))'
               /\ writer'[p].star = Starred(With(writer[p].op, Stored))'
    <3>1. OnlyDoubted(writer[p], writer'[p]) /\ writer[p].pc = "write" /\ Clean(p)
      BY <1>2, <2>2 DEF Clean, OnlyDoubted
    <3>2. PICK op : op = writer[p].op
      OBVIOUS
    <3>3. /\ writer[p].locked = Stored
          /\ writer[p].unread = Unread(With(op, Stored))
          /\ writer[p].star = Starred(With(op, Stored))
      BY <3>1, <3>2 DEF ListInv, Counted
    <3>4. Unread(With(writer[p].op, Stored))' = Unread(With(op, Stored))' /\ Starred(With(writer[p].op, Stored))' = Starred(With(op, Stored))'
      BY <3>1, <3>2 DEF OnlyDoubted
    <3> QED BY <1>1, <3>1, <3>3, <3>4 DEF OnlyDoubted
  <2>3. writer'["rule"].pc = "write" /\ Clean("rule")' => Unread(msg)' = 0
    BY <1>1, <1>2 DEF ListInv, Counted, Clean
  <2>4. ASSUME NEW h \in Handlers, writer'[h].pc = "write", Clean(h)'
        PROVE  writer'[h].unread = Unread(Noticed(writer[h]))' /\ writer'[h].star = Starred(Noticed(writer[h]))'
    <3>1. writer'[h] = writer[h] /\ Clean(h)
      BY <2>4 DEF Clean
    <3>2. PICK w : w = writer[h]
      OBVIOUS
    <3>3. w.unread = Unread(Noticed(w)) /\ w.star = Starred(Noticed(w))
      BY <2>4, <3>1, <3>2 DEF ListInv, Counted
    <3>4. Unread(Noticed(writer[h]))' = Unread(Noticed(w))' /\ Starred(Noticed(writer[h]))' = Starred(Noticed(w))'
      BY <3>1, <3>2
    <3> QED BY <1>1, <3>1, <3>2, <3>3, <3>4
  <2> QED BY <2>1, <2>2, <2>3, <2>4 DEF Counted
<1>5. ListU' /\ ListS'
  BY <1>1, <1>2 DEF ListInv, ListU, ListS
<1> QED BY <1>3, <1>4, <1>5 DEF ListInv

-----------------------------------------------------------------------------
(* The queue and the writers.                                               *)

\* A job at the end of the queue is the youngest on its flag.
LEMMA QueueAppend ==
    ASSUME fq \in Seq(Ops), NEW op \in Ops, fq' = Append(fq, op)
    PROVE  /\ fq' \in Seq(Ops) /\ InQueue(About(op))' /\ Youngest(About(op), op)'
           /\ \A g : g # About(op) => (InQueue(g)' <=> InQueue(g)) /\ \A o : Youngest(g, o) => Youngest(g, o)'
<1>1. /\ fq' \in Seq(Ops) /\ DOMAIN fq = 1 .. Len(fq) /\ DOMAIN fq' = 1 .. (Len(fq) + 1) /\ Len(fq) \in Nat
      /\ fq'[Len(fq) + 1] = op /\ \A i \in 1 .. Len(fq) : fq'[i] = fq[i]
  OBVIOUS
<1>2. InQueue(About(op))'
  BY <1>1 DEF InQueue
<1>3. Youngest(About(op), op)'
  <2> SUFFICES ASSUME NEW i \in DOMAIN fq', \A k \in DOMAIN fq' : About(fq'[k]) = About(op) => k <= i
               PROVE  fq'[i] = op
    BY DEF Youngest
  <2>1. Len(fq) + 1 \in DOMAIN fq'
    BY <1>1
  <2>2. Len(fq) + 1 <= i
    BY <1>1, <2>1
  <2>3. i = Len(fq) + 1
    BY <1>1, <2>2
  <2> QED BY <1>1, <2>3
<1>4. ASSUME NEW g, g # About(op)
      PROVE  (InQueue(g)' <=> InQueue(g)) /\ \A o : Youngest(g, o) => Youngest(g, o)'
  <2>1. \A i : i \in DOMAIN fq' /\ About(fq'[i]) = g <=> i \in DOMAIN fq /\ About(fq[i]) = g
    <3>1. \A i \in 1 .. (Len(fq) + 1) : i \in 1 .. Len(fq) \/ i = Len(fq) + 1
      BY <1>1
    <3>2. \A i \in 1 .. Len(fq) : i \in 1 .. (Len(fq) + 1)
      BY <1>1
    <3> QED BY <1>1, <1>4, <3>1, <3>2
  <2>2. \A i \in DOMAIN fq : fq'[i] = fq[i]
    BY <1>1
  <2> QED BY <2>1, <2>2 DEF InQueue, Youngest
<1> QED BY <1>1, <1>2, <1>3, <1>4

\* Taking the first job leaves the youngest ones, or it was the only one.
LEMMA QueueTail ==
    ASSUME fq \in Seq(Ops), fq # <<>>, fq' = Tail(fq)
    PROVE  /\ fq' \in Seq(Ops) /\ Head(fq) \in Ops
           /\ \A f : InQueue(f) <=> InQueue(f)' \/ About(Head(fq)) = f
           /\ \A f, o : Youngest(f, o) => Youngest(f, o)' /\ (About(Head(fq)) = f /\ ~ InQueue(f)' => Head(fq) = o)
<1>1. /\ fq' \in Seq(Ops) /\ Head(fq) \in Ops /\ Len(fq) \in Nat /\ Len(fq) > 0 /\ Head(fq) = fq[1]
      /\ DOMAIN fq = 1 .. Len(fq) /\ DOMAIN fq' = 1 .. (Len(fq) - 1)
      /\ \A i \in 1 .. (Len(fq) - 1) : fq'[i] = fq[i + 1]
  OBVIOUS
<1>2. \A i \in DOMAIN fq' : i \in Int /\ i + 1 \in DOMAIN fq /\ fq'[i] = fq[i + 1]
  BY <1>1
<1>3. \A i \in DOMAIN fq : i \in Int /\ (i = 1 \/ (i - 1 \in DOMAIN fq' /\ fq'[i - 1] = fq[i]))
  BY <1>1
<1>4. 1 \in DOMAIN fq
  BY <1>1
<1>5. ASSUME NEW f PROVE InQueue(f) <=> InQueue(f)' \/ About(Head(fq)) = f
  <2>1. ASSUME NEW i \in DOMAIN fq, About(fq[i]) = f PROVE InQueue(f)' \/ About(Head(fq)) = f
    <3>1. CASE i = 1
      BY <1>1, <2>1, <3>1
    <3>2. CASE i # 1
      BY <1>3, <2>1, <3>2 DEF InQueue
    <3> QED BY <3>1, <3>2
  <2>2. ASSUME NEW i \in DOMAIN fq', About(fq'[i]) = f PROVE InQueue(f)
    BY <1>2, <2>2 DEF InQueue
  <2>3. About(Head(fq)) = f => InQueue(f)
    BY <1>1, <1>4 DEF InQueue
  <2> QED BY <2>1, <2>2, <2>3 DEF InQueue
<1>6. ASSUME NEW f, NEW o, Youngest(f, o)
      PROVE  Youngest(f, o)' /\ (About(Head(fq)) = f /\ ~ InQueue(f)' => Head(fq) = o)
  <2>1. ASSUME NEW i \in DOMAIN fq', About(fq'[i]) = f, \A k \in DOMAIN fq' : About(fq'[k]) = f => k <= i
        PROVE  fq'[i] = o
    <3>1. i + 1 \in DOMAIN fq /\ About(fq[i + 1]) = f /\ i \in Int /\ i >= 1
      BY <1>1, <1>2, <2>1
    <3>2. ASSUME NEW k \in DOMAIN fq, About(fq[k]) = f PROVE k <= i + 1
      <4>1. CASE k = 1
        BY <3>1, <4>1
      <4>2. CASE k # 1
        <5>1. k \in Int /\ k - 1 \in DOMAIN fq' /\ About(fq'[k - 1]) = f
          BY <1>3, <3>2, <4>2
        <5>2. k - 1 <= i
          BY <2>1, <5>1
        <5> QED BY <3>1, <5>1, <5>2
      <4> QED BY <4>1, <4>2
    <3>3. fq[i + 1] = o
      BY <1>6, <3>1, <3>2 DEF Youngest
    <3> QED BY <1>2, <3>3
  <2>2. ASSUME About(Head(fq)) = f, ~ InQueue(f)'
        PROVE  Head(fq) = o
    <3>1. ASSUME NEW k \in DOMAIN fq, About(fq[k]) = f PROVE k <= 1
      <4>1. \A j \in DOMAIN fq' : About(fq'[j]) # f
        BY <2>2 DEF InQueue
      <4>2. k = 1
        BY <1>3, <3>1, <4>1
      <4> QED BY <4>2
    <3> QED BY <1>1, <1>4, <1>6, <2>2, <3>1 DEF Youngest
  <2> QED BY <2>1, <2>2 DEF Youngest
<1> QED BY <1>1, <1>5, <1>6

\* A job that goes back to the head of the queue is the youngest only if it is
\* alone.
LEMMA QueueCons ==
    ASSUME fq \in Seq(Ops), NEW op \in Ops, fq' = <<op>> \o fq
    PROVE  /\ fq' \in Seq(Ops)
           /\ \A f : InQueue(f)' <=> InQueue(f) \/ About(op) = f
           /\ \A f, o : Youngest(f, o) /\ (About(op) = f /\ ~ InQueue(f) => op = o) => Youngest(f, o)'
<1>1. /\ fq' \in Seq(Ops) /\ Len(fq) \in Nat /\ fq'[1] = op
      /\ DOMAIN fq = 1 .. Len(fq) /\ DOMAIN fq' = 1 .. (Len(fq) + 1)
      /\ \A i \in 1 .. Len(fq) : fq'[i + 1] = fq[i]
  OBVIOUS
<1>2. \A i \in DOMAIN fq : i \in Int /\ i + 1 \in DOMAIN fq' /\ fq'[i + 1] = fq[i] /\ i >= 1
  BY <1>1
<1>3. \A i \in DOMAIN fq' : i \in Int /\ (i = 1 \/ (i - 1 \in DOMAIN fq /\ fq[i - 1] = fq'[i]))
  <2> SUFFICES ASSUME NEW i \in DOMAIN fq', i # 1
               PROVE  i - 1 \in DOMAIN fq /\ fq[i - 1] = fq'[i]
    BY <1>1
  <2>1. i - 1 \in 1 .. Len(fq) /\ (i - 1) + 1 = i
    BY <1>1
  <2> QED BY <1>1, <2>1
<1>4. 1 \in DOMAIN fq'
  BY <1>1
<1>5. ASSUME NEW f PROVE InQueue(f)' <=> InQueue(f) \/ About(op) = f
  <2>1. ASSUME NEW i \in DOMAIN fq', About(fq'[i]) = f PROVE InQueue(f) \/ About(op) = f
    <3>1. CASE i = 1
      BY <1>1, <2>1, <3>1
    <3>2. CASE i # 1
      BY <1>3, <2>1, <3>2 DEF InQueue
    <3> QED BY <3>1, <3>2
  <2>2. ASSUME NEW i \in DOMAIN fq, About(fq[i]) = f PROVE InQueue(f)'
    BY <1>2, <2>2 DEF InQueue
  <2>3. About(op) = f => InQueue(f)'
    BY <1>1, <1>4 DEF InQueue
  <2> QED BY <2>1, <2>2, <2>3 DEF InQueue
<1>6. ASSUME NEW f, NEW o, Youngest(f, o), About(op) = f /\ ~ InQueue(f) => op = o,
             NEW i \in DOMAIN fq', About(fq'[i]) = f, \A k \in DOMAIN fq' : About(fq'[k]) = f => k <= i
      PROVE  fq'[i] = o
  <2>1. CASE i = 1
    <3>1. ASSUME NEW k \in DOMAIN fq, About(fq[k]) = f PROVE FALSE
      <4>1. k \in Int /\ k >= 1 /\ k + 1 \in DOMAIN fq' /\ About(fq'[k + 1]) = f
        BY <1>2, <3>1
      <4>2. k + 1 <= 1
        BY <1>6, <2>1, <4>1
      <4> QED BY <4>1, <4>2
    <3> QED BY <1>1, <1>6, <2>1, <3>1 DEF InQueue
  <2>2. CASE i # 1
    <3>1. i \in Int /\ i - 1 \in DOMAIN fq /\ fq[i - 1] = fq'[i]
      BY <1>3, <2>2
    <3>2. ASSUME NEW k \in DOMAIN fq, About(fq[k]) = f PROVE k <= i - 1
      <4>1. k \in Int /\ k + 1 <= i
        BY <1>2, <1>6, <3>2
      <4> QED BY <3>1, <4>1
    <3> QED BY <1>6, <3>1, <3>2 DEF Youngest
  <2> QED BY <2>1, <2>2
<1>7. \A f, o : Youngest(f, o) /\ (About(op) = f /\ ~ InQueue(f) => op = o) => Youngest(f, o)'
  BY <1>6 DEF Youngest
<1> QED BY <1>1, <1>5, <1>7

\* One writer changes.
LEMMA WriterSet ==
    ASSUME WriterTyped, NEW p \in Writers, NEW x, writer' = [writer EXCEPT ![p] = x]
    PROVE  /\ writer' = [q \in Writers |-> writer'[q]] /\ writer'[p] = x
           /\ \A q \in Writers : q # p => writer'[q] = writer[q]
BY DEF WriterTyped

\* One writer goes on.
LEMMA WriterGoto ==
    ASSUME WriterTyped, NEW p \in Writers, NEW pc, Goto(p, pc)
    PROVE  /\ writer' = [q \in Writers |-> writer'[q]] /\ WriterRow(writer'[p])
           /\ writer'[p].pc = pc /\ writer'[p].op = writer[p].op /\ writer'[p].rows = writer[p].rows
           /\ writer'[p].locked = writer[p].locked /\ writer'[p].ok = writer[p].ok
           /\ \A q \in Writers : q # p => writer'[q] = writer[q]
BY DEF WriterTyped, Goto, WriterRow

\* The row of a writer that does nothing.
LEMMA Off == WriterRow(NoWriter) /\ NoWriter.pc = "off" /\ NoWriter.rows = {} /\ NoWriter.locked = {}
BY DEF WriterRow, NoWriter

\* Nothing has happened yet.
LEMMA InitInv == Init => FlagsInv
<1> SUFFICES ASSUME Init PROVE FlagsInv
  OBVIOUS
<1>0. /\ "web" \in Writers /\ "rule" \in Writers /\ "job" \in Writers /\ None \notin Mids /\ None \notin Row
      /\ \A p \in Writers : writer[p] = NoWriter
  BY Apart DEF Init
<1>1. \A m \in Mids : msg[m] = None /\ srv[m] = None /\ intake[m] = [pc |-> "off", unread |-> 0, star |-> FALSE]
  BY DEF Init
<1>2. Stored = {} /\ \A m \in Mids : intake[m].pc = "off" /\ ~ AtWork(m)
  BY <1>1 DEF Stored, AtWork
<1>3. /\ hist.dirty = {} /\ HistRow(hist) /\ hist.word = [seen |-> NoWord, flag |-> NoWord]
  BY DEF Init, HistRow
<1>4. \A f \in Fields : hist.word[f] = NoWord /\ hist.word[f].rows = {}
  BY <1>3 DEF NoWord, Fields
<1>5. MailTyped
  BY <1>1 DEF Init, MailTyped, IntakeRow
<1>6. WriterTyped
  BY <1>0, Off DEF Init, WriterTyped
<1>7. OtherTyped
  <2>1. hist.word = [f \in Fields |-> hist.word[f]]
    BY <1>3 DEF Fields
  <2>2. common = [mail |-> common.mail, acts |-> common.acts, stalled |-> common.stalled] /\ common.acts \in Seq({"read", "flag"})
    BY DEF Init, NoCommon
  <2> QED BY <1>3, <2>1, <2>2 DEF Init, OtherTyped
<1>8. Listed
  BY <1>0, <1>2, Off DEF Init, Listed, NoCommon
<1>9. ListInv
  BY <1>0, <1>2, <1>3, Off DEF Init, ListInv, DirtyCounts, Counted, ListU, ListS
<1>10. WordInv
  <2>1. \A f : ~ InQueue(f) /\ ~ IsLate(f) /\ \A p \in Writers : ~ Speaks(f, p)
    BY <1>0, Off DEF Init, InQueue, IsLate, Speaks
  <2>2. \A f, o : Youngest(f, o)
    BY DEF Init, Youngest
  <2> QED BY <1>0, <1>4, <2>1, <2>2 DEF WordInv, WordOf, Obeyed
<1>n. NoticeTyped
  BY <1>0, Off DEF Init, NoticeTyped
<1>11. ServerInv
  BY <1>0, <1>2, Off DEF ServerInv, LockedIn, JobDone, Follows
<1> QED BY <1>5, <1>6, <1>7, <1>8, <1>9, <1>10, <1>11, <1>n DEF FlagsInv, Typed

-----------------------------------------------------------------------------
(* What a step leaves alone.                                                *)

\* After a change of rows or list by p no other count is clean.
LEMMA Overtaken ==
    ASSUME NEW p, hist'.dirty = Touched(p), Counting' \ {p} = Counting \ {p}, DirtyCounts,
           p \notin Counting' \/ (p = "rule" /\ Unread(msg)' = 0)
    PROVE  DirtyCounts' /\ Counted'
<1>1. \A q \in Counting' : q # p => ~ Clean(q)'
  BY DEF Touched, Clean
<1>2. DirtyCounts'
  BY DEF Touched, DirtyCounts
<1>3. /\ \A m \in Mids : intake'[m].pc = "upsert" => m \in Counting' /\ m # "rule"
      /\ \A q \in Writers : writer'[q].pc = "write" => q \in Counting'
  BY Apart DEF Counting
<1>4. "web" \in Writers /\ "job" \in Writers /\ "rule" \in Writers
  BY Apart
<1>5. \A m \in Mids : intake'[m].pc = "upsert" => ~ Clean(m)'
  BY <1>1, <1>3
<1>6. \A q \in {"web", "job"} : writer'[q].pc = "write" => ~ Clean(q)'
  BY <1>1, <1>3, <1>4
<1>7. writer'["rule"].pc = "write" /\ Clean("rule")' => Unread(msg)' = 0
  BY <1>1, <1>3, <1>4
<1>8. \A h \in Handlers : writer'[h].pc = "write" => ~ Clean(h)'
  BY <1>1, <1>3
<1> QED BY <1>2, <1>5, <1>6, <1>7, <1>8 DEF Counted

\* A step after which the same commands on f are to be carried out.
LEMMA WordSame ==
    ASSUME NEW f, WordOf(f), hist'.word[f] = hist.word[f],
           InQueue(f)' <=> InQueue(f), IsLate(f)' <=> IsLate(f), \A l \in late' : About(l) = f => l \in late,
           \A p \in Commanders : (Speaks(f, p)' <=> Speaks(f, p)) /\ (Speaks(f, p) => writer'[p].op = writer[p].op),
           \A o : Youngest(f, o) => Youngest(f, o)',
           Speaks(f, "job") /\ writer'["job"].pc = "write" =>
               \/ hist.word[f].rows \subseteq writer'["job"].locked
               \/ writer["job"].pc = "write" /\ writer'["job"].locked = writer["job"].locked,
           Speaks(f, "job") /\ writer'["job"].pc = "index" => writer["job"].pc = "index",
           (\/ ~ Pend(f)
            \/ Speaks(f, "job") /\ writer["job"].pc = "index" /\ ~ Speaks(f, "web") /\ ~ Speaks(f, "rule") /\ ~ InQueue(f)) =>
               \A m \in hist.word[f].rows : msg'[m][f] = msg[m][f]
    PROVE  WordOf(f)'
<1>0. "web" \in Writers /\ "job" \in Writers /\ "rule" \in Writers
  BY Apart
<1>1. Pend(f)' <=> Pend(f)
  BY DEF Pend
<1>2. PICK o : o = hist.word[f].op
  OBVIOUS
<1>3. hist'.word[f].op = o /\ (Youngest(f, hist.word[f].op)' <=> Youngest(f, o)')
  BY <1>2 DEF Youngest
<1>4. ~ (Speaks(f, "web")' /\ Speaks(f, "rule")')
  BY <1>0 DEF WordOf
<1>5. \A p \in {"web", "rule"} : Speaks(f, p)' => writer'[p].op = hist'.word[f].op /\ ~ IsLate(f)'
  BY <1>0 DEF WordOf
<1>6. IsLate(f)' => ~ InQueue(f)' /\ ~ Speaks(f, "job")' /\ \A l \in late' : About(l) = f => l = hist'.word[f].op
  BY <1>0 DEF WordOf
<1>7. ASSUME ~ Speaks(f, "web")', ~ Speaks(f, "rule")'
      PROVE  /\ Youngest(f, o)'
             /\ Speaks(f, "job")' /\ ~ InQueue(f)' =>
                   /\ writer'["job"].op = hist'.word[f].op
                   /\ writer'["job"].pc = "write" => hist'.word[f].rows \subseteq writer'["job"].locked
                   /\ writer'["job"].pc = "index" => Obeyed(f)'
  <2>1. ~ Speaks(f, "web") /\ ~ Speaks(f, "rule")
    BY <1>0, <1>7
  <2>2. Youngest(f, o)
    BY <1>2, <2>1 DEF WordOf
  <2>3. Speaks(f, "job")' /\ ~ InQueue(f)' /\ writer'["job"].pc = "index" => Obeyed(f)'
    BY <1>0, <2>1 DEF WordOf, Obeyed
  <2> QED BY <1>0, <2>1, <2>2, <2>3 DEF WordOf
<1>8. ~ Pend(f)' => Obeyed(f)'
  BY <1>1 DEF WordOf, Obeyed
<1> QED BY <1>3, <1>4, <1>5, <1>6, <1>7, <1>8 DEF WordOf

\* Who speaks follows from where the writers are.
LEMMA SpeaksSame ==
    ASSUME NEW p, writer'[p].pc = writer[p].pc \/ (writer'[p].pc # "off" /\ writer[p].pc # "off"), writer'[p].op = writer[p].op
    PROVE  \A f : Speaks(f, p)' <=> Speaks(f, p)
BY DEF Speaks

-----------------------------------------------------------------------------
(* Arrivals and rules.                                                      *)

\* A mail comes in: whoever has counted is overtaken.
LEMMA ArriveKeeps == ASSUME FlagsInv, NEW m \in Mids, Arrive(m) PROVE FlagsInv'
<1>0. Typed /\ ListInv /\ WordInv /\ ServerInv /\ MailTyped /\ WriterTyped /\ NoticeTyped /\ OtherTyped /\ Listed
  BY DEF FlagsInv, Typed
<1>w. "web" \in Writers /\ "job" \in Writers /\ "rule" \in Writers
  BY Apart
<1>1. PICK r \in NewMail : msg' = [msg EXCEPT ![m] = r] /\ srv' = [srv EXCEPT ![m] = r]
  BY DEF Arrive
<1>2. /\ intake[m].pc = "off" /\ r \in Row /\ r # None /\ msg[m] = None
      /\ UNCHANGED <<list, cq, common, fq, late, writer, inbox>>
  BY <1>0, Apart, MailFlagsAssumption DEF Arrive, MailTyped, rules, flags
<1>3. /\ msg' \in [Mids -> Row \cup {None}] /\ srv' \in [Mids -> Row \cup {None}] /\ msg'[m] = r /\ srv'[m] = r
      /\ \A n \in Mids : n # m => msg'[n] = msg[n] /\ srv'[n] = srv[n]
  BY <1>0, <1>1, <1>2 DEF MailTyped
<1>4. /\ intake' = [n \in Mids |-> intake'[n]] /\ IntakeRow(intake'[m]) /\ intake'[m].pc = "count"
      /\ \A n \in Mids : n # m => intake'[n] = intake[n]
  BY <1>0 DEF Arrive, MailTyped, IntakeRow
<1>5. /\ HistRow(hist') /\ hist'.word = hist.word /\ hist'.unsure = hist.unsure /\ hist'.apart = hist.apart
      /\ hist'.dirty = Touched(m) /\ hist'.raced = hist.raced
  BY <1>0 DEF Arrive, OtherTyped, HistRow
<1>6. Stored' = Stored \cup {m} /\ m \notin Stored /\ \A n \in Stored : msg'[n] = msg[n] /\ srv'[n] = srv[n]
  BY <1>2, <1>3 DEF Stored
<1>7. Typed'
  <2>1. MailTyped'
    BY <1>0, <1>2, <1>3, <1>4 DEF MailTyped
  <2>2. WriterTyped' /\ OtherTyped'
    BY <1>0, <1>2, <1>5 DEF WriterTyped, OtherTyped
  <2>3. Listed'
    BY <1>0, <1>2, <1>4 DEF Listed
  <2>n. NoticeTyped'
    BY <1>0, <1>2, <1>6, NoticeSame
  <2> QED BY <2>1, <2>2, <2>3, <2>n DEF Typed
<1>8. ListInv'
  <2>1. Counting' \ {m} = Counting \ {m} /\ m \notin Counting'
    BY <1>2, <1>4, Apart DEF Counting
  <2>2. DirtyCounts' /\ Counted'
    BY <1>0, <1>5, <2>1, Overtaken DEF ListInv
  <2>3. ~ Quiet'
    BY <1>4 DEF Quiet, AtWork
  <2>4. Starred(msg) => Starred(msg)'
    BY <1>6 DEF Starred
  <2> QED BY <1>0, <1>2, <1>5, <2>2, <2>3, <2>4 DEF ListInv, ListU, ListS
<1>9. \A f : /\ InQueue(f)' = InQueue(f) /\ IsLate(f)' = IsLate(f) /\ Pend(f)' = Pend(f)
             /\ \A p : Speaks(f, p)' = Speaks(f, p)
             /\ \A o : Youngest(f, o)' = Youngest(f, o)
  BY <1>2 DEF InQueue, IsLate, Pend, Speaks, Youngest
<1>10. WordInv'
  <2>1. ASSUME NEW f \in Fields, f \notin hist'.unsure PROVE WordOf(f)'
    <3>1. WordOf(f) /\ \A n \in hist.word[f].rows : msg'[n][f] = msg[n][f]
      BY <1>0, <1>5, <1>6, <2>1 DEF WordInv
    <3> QED BY <1>2, <1>5, <1>9, <3>1, WordSame
  <2> QED BY <1>0, <1>5, <1>6, <2>1 DEF WordInv
<1>11. ServerInv'
  <2>1. \A n \in Stored : \A f : Agree(n, f) => Agree(n, f)'
    BY <1>2, <1>6, AgreeSame
  <2>2. \A f : Agree(m, f)' /\ Open(f)' = Open(f)
    BY <1>2, <1>3, <1>9 DEF Agree, Open
  <2>3. LockedIn'
    BY <1>0, <1>2, <1>6 DEF ServerInv, LockedIn
  <2>4. JobDone'
    <3>1. PICK f : f = About(writer["job"].op)
      OBVIOUS
    <3>2. \A n : (Agree(n, About(writer["job"].op)) <=> Agree(n, f)) /\ (Agree(n, About(writer["job"].op))' <=> Agree(n, f)')
      BY <1>2, <3>1
    <3> QED BY <1>0, <1>2, <1>6, <2>1, <2>2, <3>1, <3>2 DEF ServerInv, JobDone
  <2>5. Follows'
    BY <1>0, <1>5, <1>6, <2>1, <2>2 DEF ServerInv, Follows
  <2> QED BY <2>3, <2>4, <2>5 DEF ServerInv
<1> QED BY <1>7, <1>8, <1>10, <1>11 DEF FlagsInv

\* upsertMailboxThreadItem counts: its count is right.
LEMMA ListCountKeeps == ASSUME FlagsInv, NEW m \in Mids, ListCount(m) PROVE FlagsInv'
<1>0. Typed /\ ListInv /\ WordInv /\ ServerInv /\ MailTyped /\ WriterTyped /\ NoticeTyped /\ OtherTyped /\ Listed
  BY DEF FlagsInv, Typed
<1>2. intake[m].pc = "count" /\ UNCHANGED <<msg, srv, list, cq, common, fq, late, writer, inbox>>
  BY DEF ListCount, rules, flags
<1>4. /\ intake' = [n \in Mids |-> intake'[n]] /\ \A n \in Mids : n # m => intake'[n] = intake[n]
      /\ intake'[m] = [pc |-> "upsert", unread |-> Unread(msg), star |-> Starred(msg)]
  BY <1>0 DEF ListCount, MailTyped
<1>5. /\ HistRow(hist') /\ hist'.word = hist.word /\ hist'.unsure = hist.unsure /\ hist'.apart = hist.apart
      /\ hist'.dirty = hist.dirty \ {m} /\ hist'.raced = hist.raced
  BY <1>0 DEF ListCount, OtherTyped, HistRow
<1>7. Typed'
  <2>0. IntakeRow(intake'[m]) /\ intake'[m].pc # "off"
    BY <1>4, Counts DEF IntakeRow
  <2>1. MailTyped'
    BY <1>0, <1>2, <1>4, <2>0 DEF MailTyped
  <2>2. WriterTyped' /\ OtherTyped'
    BY <1>0, <1>2, <1>5 DEF WriterTyped, OtherTyped
  <2>3. Listed'
    BY <1>0, <1>2, <1>4 DEF Listed
  <2>n. NoticeTyped'
    BY <1>0, <1>2, NoticeSame DEF Stored
  <2> QED BY <2>1, <2>2, <2>3, <2>n DEF Typed
<1>8. ListInv'
  <2>1. /\ Stored' = Stored /\ Unread(msg)' = Unread(msg) /\ Starred(msg)' = Starred(msg)
        /\ \A op : /\ Unread(With(op, Stored))' = Unread(With(op, Stored))
                   /\ Starred(With(op, Stored))' = Starred(With(op, Stored))
        /\ \A w : Unread(Noticed(w))' = Unread(Noticed(w)) /\ Starred(Noticed(w))' = Starred(Noticed(w))
    BY <1>2, SameRows
  <2>2. DirtyCounts'
    BY <1>0, <1>2, <1>4, <1>5 DEF ListInv, DirtyCounts, Counting
  <2>3. \A n \in Mids : intake'[n].pc = "upsert" /\ Clean(n)' =>
            intake'[n].unread = Unread(msg)' /\ intake'[n].star = Starred(msg)'
    BY <1>0, <1>4, <1>5, <2>1 DEF ListInv, Counted, Clean
  <2>4. /\ \A p \in {"web", "job"} : writer[p].pc = "write" /\ Clean(p)' =>
            /\ writer[p].locked = Stored
            /\ writer[p].unread = Unread(With(writer[p].op, Stored))
            /\ writer[p].star = Starred(With(writer[p].op, Stored))
        /\ writer["rule"].pc = "write" /\ Clean("rule")' => Unread(msg) = 0
        /\ \A h \in Handlers : writer[h].pc = "write" /\ Clean(h)' =>
              writer[h].unread = Unread(Noticed(writer[h])) /\ writer[h].star = Starred(Noticed(writer[h]))
    BY <1>0, <1>5 DEF ListInv, Counted, Clean
  <2>5. \A p : /\ Unread(With(writer[p].op, Stored))' = Unread(With(writer[p].op, Stored))
               /\ Starred(With(writer[p].op, Stored))' = Starred(With(writer[p].op, Stored))
               /\ Unread(Noticed(writer[p]))' = Unread(Noticed(writer[p]))
               /\ Starred(Noticed(writer[p]))' = Starred(Noticed(writer[p]))
    BY <1>2 DEF Unread, Starred, With, Noticed, Stored
  <2>6. Counted'
    BY <1>2, <2>1, <2>3, <2>4, <2>5 DEF Counted
  <2>7. Quiet' = Quiet
    BY <1>2, <1>4 DEF Quiet, AtWork
  <2> QED BY <1>0, <1>2, <1>5, <2>1, <2>2, <2>6, <2>7 DEF ListInv, ListU, ListS
<1>9. WordInv' /\ ServerInv'
  BY <1>0, <1>2, <1>5, NoCommand
<1> QED BY <1>7, <1>8, <1>9 DEF FlagsInv

\* Counts that were clean stay right as long as the rows do not change.
LEMMA CountedSame ==
    ASSUME Counted, msg' = msg,
           \A m \in Mids : intake'[m].pc = "upsert" /\ Clean(m)' => intake'[m] = intake[m] /\ Clean(m),
           \A p \in Writers : writer'[p].pc = "write" /\ Clean(p)' =>
               (writer'[p] = writer[p] \/ (p = "job" /\ OnlyDoubted(writer[p], writer'[p]))) /\ Clean(p)
    PROVE  Counted'
<1>0. "web" \in Writers /\ "job" \in Writers /\ "rule" \in Writers
  BY Apart
<1>1. /\ Stored' = Stored /\ Unread(msg)' = Unread(msg) /\ Starred(msg)' = Starred(msg)
      /\ \A op : /\ Unread(With(op, Stored))' = Unread(With(op, Stored))
                 /\ Starred(With(op, Stored))' = Starred(With(op, Stored))
      /\ \A w : Unread(Noticed(w))' = Unread(Noticed(w)) /\ Starred(Noticed(w))' = Starred(Noticed(w))
  BY SameRows
<1>2. \A m \in Mids : intake'[m].pc = "upsert" /\ Clean(m)' =>
          intake'[m].unread = Unread(msg)' /\ intake'[m].star = Starred(msg)'
  BY <1>1 DEF Counted
<1>3. ASSUME NEW p \in {"web", "job"}, writer'[p].pc = "write", Clean(p)'
      PROVE  /\ writer'[p].locked = Stored'
             /\ writer'[p].unread = Unread(With(writer[p].op, Stored))'
             /\ writer'[p].star = Starred(With(writer[p].op, Stored))'
  <2>1. OnlyDoubted(writer[p], writer'[p]) /\ writer[p].pc = "write" /\ Clean(p)
    BY <1>0, <1>3 DEF OnlyDoubted
  <2>2. PICK op : op = writer[p].op
    OBVIOUS
  <2>3. /\ writer[p].locked = Stored
        /\ writer[p].unread = Unread(With(op, Stored))
        /\ writer[p].star = Starred(With(op, Stored))
    BY <2>1, <2>2 DEF Counted
  <2>4. /\ Unread(With(writer[p].op, Stored))' = Unread(With(op, Stored))'
        /\ Starred(With(writer[p].op, Stored))' = Starred(With(op, Stored))'
    BY <2>1, <2>2 DEF OnlyDoubted
  <2> QED BY <1>1, <2>1, <2>3, <2>4 DEF OnlyDoubted
<1>4. writer'["rule"].pc = "write" /\ Clean("rule")' => Unread(msg)' = 0
  BY <1>0, <1>1 DEF Counted
<1>5. ASSUME NEW h \in Handlers, writer'[h].pc = "write", Clean(h)'
      PROVE  writer'[h].unread = Unread(Noticed(writer[h]))' /\ writer'[h].star = Starred(Noticed(writer[h]))'
  <2>1. writer'[h] = writer[h] /\ Clean(h)
    BY <1>5
  <2>2. PICK w : w = writer[h]
    OBVIOUS
  <2>3. w.unread = Unread(Noticed(w)) /\ w.star = Starred(Noticed(w))
    BY <1>5, <2>1, <2>2 DEF Counted
  <2>4. Unread(Noticed(writer[h]))' = Unread(Noticed(w))' /\ Starred(Noticed(writer[h]))' = Starred(Noticed(w))'
    BY <2>1, <2>2
  <2> QED BY <1>1, <2>1, <2>2, <2>3, <2>4
<1> QED BY <1>2, <1>3, <1>4, <1>5 DEF Counted

\* The upsert writes its count: right, if nobody has overtaken it.
LEMMA ListUpsertKeeps == ASSUME FlagsInv, NEW m \in Mids, ListUpsert(m) PROVE FlagsInv'
<1>0. Typed /\ ListInv /\ WordInv /\ ServerInv /\ MailTyped /\ WriterTyped /\ NoticeTyped /\ OtherTyped /\ Listed
  BY DEF FlagsInv, Typed
<1>2. intake[m].pc = "upsert" /\ UNCHANGED <<msg, srv, cq, common, fq, late, writer, inbox>>
  BY DEF ListUpsert, Upserted, rules, flags
<1>3. list' = [unread |-> intake[m].unread, star |-> (list # None /\ list.star) \/ intake[m].star]
  BY DEF ListUpsert, Upserted
<1>4. /\ intake' = [n \in Mids |-> intake'[n]] /\ \A n \in Mids : n # m => intake'[n] = intake[n]
      /\ intake'[m] = [pc |-> IF m \in Live THEN "held" ELSE "done", unread |-> 0, star |-> FALSE]
  BY <1>0 DEF ListUpsert, Upserted, MailTyped
<1>5. /\ HistRow(hist') /\ hist'.word = hist.word /\ hist'.unsure = hist.unsure /\ hist'.apart = hist.apart
      /\ hist'.dirty = Touched(m)
      /\ hist'.raced = IF m \in hist.dirty THEN hist.raced \cup {"unread", "star"} ELSE hist.raced \ {"unread"}
  BY <1>0 DEF ListUpsert, Upserted, OtherTyped, HistRow
<1>6. /\ list' # None /\ list' \in [unread : Nat, star : BOOLEAN]
      /\ list'.unread = intake[m].unread /\ list'.star = ((list # None /\ list.star) \/ intake[m].star)
  BY <1>0, <1>3, Counts DEF MailTyped, IntakeRow
<1>7. Typed'
  <2>0. IntakeRow(intake'[m]) /\ intake'[m].pc # "off"
    BY <1>4, Counts DEF IntakeRow
  <2>1. MailTyped'
    BY <1>0, <1>2, <1>4, <2>0 DEF MailTyped
  <2>2. WriterTyped' /\ OtherTyped'
    BY <1>0, <1>2, <1>5, <1>6 DEF WriterTyped, OtherTyped
  <2>3. Listed'
    BY <1>6 DEF Listed
  <2>n. NoticeTyped'
    BY <1>0, <1>2, NoticeSame DEF Stored
  <2> QED BY <2>1, <2>2, <2>3, <2>n DEF Typed
<1>8. ListInv'
  <2>1. Stored' = Stored /\ Unread(msg)' = Unread(msg) /\ Starred(msg)' = Starred(msg)
    BY <1>2, SameRows
  <2>2. Counting' \ {m} = Counting \ {m} /\ m \notin Counting'
    BY <1>2, <1>4, Apart DEF Counting
  <2>3. DirtyCounts' /\ Counted'
    BY <1>0, <1>5, <2>2, Overtaken DEF ListInv
  <2>4. m \notin hist.dirty => intake[m].unread = Unread(msg) /\ intake[m].star = Starred(msg)
    BY <1>0, <1>2 DEF ListInv, Counted, Clean
  <2>5. ListU'
    BY <1>5, <1>6, <2>1, <2>4 DEF ListU
  <2>6. "star" \notin hist'.raced => m \notin hist.dirty /\ "star" \notin hist.raced
    BY <1>5
  <2>7. "star" \notin hist'.raced => list'.star = Starred(msg)
    BY <1>0, <1>6, <2>4, <2>6 DEF ListInv, ListS, Starred
  <2>8. ListS'
    BY <2>1, <2>7 DEF ListS
  <2> QED BY <2>3, <2>5, <2>8 DEF ListInv
<1>9. WordInv' /\ ServerInv'
  BY <1>0, <1>2, <1>5, NoCommand
<1> QED BY <1>7, <1>8, <1>9 DEF FlagsInv

\* flushBatches queues the mail for the rules, or loses it.
LEMMA FlushKeeps == ASSUME FlagsInv, NEW m \in Mids, FlushBatches(m) PROVE FlagsInv'
<1>0. Typed /\ ListInv /\ WordInv /\ ServerInv /\ MailTyped /\ WriterTyped /\ NoticeTyped /\ OtherTyped /\ Listed
  BY DEF FlagsInv, Typed
<1>2. intake[m].pc = "held" /\ UNCHANGED <<msg, srv, list, common, fq, late, writer, hist, inbox>>
  BY DEF FlushBatches, flags
<1>4. /\ intake' = [n \in Mids |-> intake'[n]] /\ \A n \in Mids : n # m => intake'[n] = intake[n]
      /\ intake'[m].pc = "done" /\ IntakeRow(intake'[m])
  <2>1. intake' = [intake EXCEPT ![m].pc = "done"] /\ intake = [n \in Mids |-> intake[n]] /\ IntakeRow(intake[m])
    BY <1>0 DEF FlushBatches, MailTyped
  <2>2. intake' = [intake EXCEPT ![m] = [intake[m] EXCEPT !.pc = "done"]]
    BY <2>1
  <2>3. [intake[m] EXCEPT !.pc = "done"] = [pc |-> "done", unread |-> intake[m].unread, star |-> intake[m].star]
    BY <2>1 DEF IntakeRow
  <2> QED BY <2>1, <2>2, <2>3 DEF IntakeRow
<1>7. Typed'
  <2>1. MailTyped'
    BY <1>0, <1>2, <1>4 DEF MailTyped
  <2>2. WriterTyped' /\ OtherTyped'
    BY <1>0, <1>2 DEF WriterTyped, OtherTyped
  <2>3. Listed'
    BY <1>0, <1>2 DEF Listed
  <2>n. NoticeTyped'
    BY <1>0, <1>2, NoticeSame DEF Stored
  <2> QED BY <2>1, <2>2, <2>3, <2>n DEF Typed
<1>8. ListInv'
  BY <1>0, <1>2, <1>4, NoCount DEF AtWork
<1>9. WordInv' /\ ServerInv'
  BY <1>0, <1>2, NoCommand
<1> QED BY <1>7, <1>8, <1>9 DEF FlagsInv

\* A mail whose intake broke off is out of the list, and known to be.
LEMMA IntakeBreaksKeeps == ASSUME FlagsInv, NEW m \in Mids, IntakeBreaks(m) PROVE FlagsInv'
<1>0. Typed /\ ListInv /\ WordInv /\ ServerInv /\ MailTyped /\ WriterTyped /\ NoticeTyped /\ OtherTyped /\ Listed
  BY DEF FlagsInv, Typed
<1>2. intake[m].pc \in {"count", "upsert"} /\ UNCHANGED <<msg, srv, list, cq, common, fq, late, writer, inbox>>
  BY DEF IntakeBreaks, AtWork, rules, flags
<1>4. /\ intake' = [n \in Mids |-> intake'[n]] /\ \A n \in Mids : n # m => intake'[n] = intake[n]
      /\ intake'[m] = [pc |-> "lost", unread |-> 0, star |-> FALSE]
  BY <1>0 DEF IntakeBreaks, MailTyped
<1>5. /\ HistRow(hist') /\ hist'.word = hist.word /\ hist'.unsure = hist.unsure /\ hist'.apart = hist.apart
      /\ hist'.dirty = hist.dirty \ {m} /\ hist'.raced = hist.raced \cup {"unread", "star"}
  BY <1>0 DEF IntakeBreaks, OtherTyped, HistRow
<1>7. Typed'
  <2>0. IntakeRow(intake'[m]) /\ intake'[m].pc # "off"
    BY <1>4, Counts DEF IntakeRow
  <2>1. MailTyped'
    BY <1>0, <1>2, <1>4, <2>0 DEF MailTyped
  <2>2. WriterTyped' /\ OtherTyped'
    BY <1>0, <1>2, <1>5 DEF WriterTyped, OtherTyped
  <2>3. Listed'
    BY <1>0, <1>2, <1>4 DEF Listed
  <2>n. NoticeTyped'
    BY <1>0, <1>2, NoticeSame DEF Stored
  <2> QED BY <2>1, <2>2, <2>3, <2>n DEF Typed
<1>8. ListInv'
  <2>1. DirtyCounts'
    BY <1>0, <1>2, <1>4, <1>5 DEF ListInv, DirtyCounts, Counting
  <2>2. \A n \in Mids : intake'[n].pc = "upsert" /\ Clean(n)' => intake'[n] = intake[n] /\ Clean(n)
    BY <1>4, <1>5 DEF Clean
  <2>3. \A p \in Writers : writer'[p].pc = "write" /\ Clean(p)' => writer'[p] = writer[p] /\ Clean(p)
    BY <1>2, <1>5, Apart DEF Clean
  <2>4. Counted'
    BY <1>0, <1>2, <2>2, <2>3, CountedSame DEF ListInv
  <2> QED BY <1>5, <2>1, <2>4 DEF ListInv, ListU, ListS
<1>9. WordInv' /\ ServerInv'
  BY <1>0, <1>2, <1>5, NoCommand
<1> QED BY <1>7, <1>8, <1>9 DEF FlagsInv

\* The rules take up a mail that is in the list.
LEMMA CommonTakeKeeps == ASSUME FlagsInv, CommonTake PROVE FlagsInv'
<1>0. Typed /\ ListInv /\ WordInv /\ ServerInv /\ MailTyped /\ WriterTyped /\ NoticeTyped /\ OtherTyped /\ Listed
  BY DEF FlagsInv, Typed
<1>2. cq # <<>> /\ UNCHANGED <<msg, srv, list, intake, fq, late, writer, hist, inbox>>
  BY DEF CommonTake, flags
<1>3. PICK as \in RuleActs : common' = [mail |-> Head(cq), acts |-> as, stalled |-> common.stalled]
  BY <1>0 DEF CommonTake, OtherTyped
<1>4. common' = [mail |-> common'.mail, acts |-> common'.acts, stalled |-> common'.stalled] /\ common'.acts \in Seq({"read", "flag"})
  BY <1>3, MailFlagsAssumption
<1>7. Typed'
  <2>1. MailTyped' /\ WriterTyped'
    BY <1>0, <1>2 DEF MailTyped, WriterTyped
  <2>2. OtherTyped'
    BY <1>0, <1>2, <1>4 DEF OtherTyped
  <2>3. Listed'
    BY <1>0, <1>2 DEF Listed
  <2>n. NoticeTyped'
    BY <1>0, <1>2, NoticeSame DEF Stored
  <2> QED BY <2>1, <2>2, <2>3, <2>n DEF Typed
<1>8. ListInv'
  BY <1>0, <1>2, NoCount DEF AtWork
<1>9. WordInv' /\ ServerInv'
  BY <1>0, <1>2, NoCommand
<1> QED BY <1>7, <1>8, <1>9 DEF FlagsInv

\* The rules are through with their mail.
LEMMA CommonDoneKeeps == ASSUME FlagsInv, CommonDone PROVE FlagsInv'
<1>0. Typed /\ ListInv /\ WordInv /\ ServerInv /\ MailTyped /\ WriterTyped /\ NoticeTyped /\ OtherTyped /\ Listed
  BY DEF FlagsInv, Typed
<1>2. common' = [mail |-> None, acts |-> <<>>, stalled |-> common.stalled] /\ UNCHANGED <<msg, srv, list, intake, cq, fq, late, writer, hist, inbox>>
  BY DEF CommonDone, NoCommon, flags
<1>7. Typed'
  <2>1. MailTyped' /\ WriterTyped'
    BY <1>0, <1>2 DEF MailTyped, WriterTyped
  <2>2. OtherTyped'
    BY <1>0, <1>2 DEF OtherTyped
  <2>3. Listed'
    BY <1>0, <1>2 DEF Listed
  <2>n. NoticeTyped'
    BY <1>0, <1>2, NoticeSame DEF Stored
  <2> QED BY <2>1, <2>2, <2>3, <2>n DEF Typed
<1>8. ListInv'
  BY <1>0, <1>2, NoCount DEF AtWork
<1>9. WordInv' /\ ServerInv'
  BY <1>0, <1>2, NoCommand
<1> QED BY <1>7, <1>8, <1>9 DEF FlagsInv

\* A stalled rule job is queued again.
LEMMA CommonBackKeeps == ASSUME FlagsInv, CommonBack PROVE FlagsInv'
<1>0. Typed /\ ListInv /\ WordInv /\ ServerInv /\ MailTyped /\ WriterTyped /\ NoticeTyped /\ OtherTyped /\ Listed
  BY DEF FlagsInv, Typed
<1>1. PICK m \in common.stalled :
          /\ common' = [common EXCEPT !.stalled = @ \ {m}]
          /\ UNCHANGED <<msg, srv, list, intake, fq, late, writer, hist, inbox>>
  BY DEF CommonBack, flags
<1>2. common' = [mail |-> common.mail, acts |-> common.acts, stalled |-> common.stalled \ {m}]
  BY <1>0, <1>1 DEF OtherTyped
<1>3. list # None
  BY <1>0, <1>1 DEF Listed
<1>7. Typed'
  <2>1. MailTyped' /\ WriterTyped' /\ Listed'
    BY <1>0, <1>1, <1>3 DEF MailTyped, WriterTyped, Listed
  <2>2. OtherTyped'
    BY <1>0, <1>1, <1>2 DEF OtherTyped
  <2>n. NoticeTyped'
    BY <1>0, <1>1, NoticeSame DEF Stored
  <2> QED BY <2>1, <2>2, <2>n DEF Typed
<1>8. ListInv'
  BY <1>0, <1>1, NoCount DEF AtWork
<1>9. WordInv' /\ ServerInv'
  BY <1>0, <1>1, NoCommand
<1> QED BY <1>7, <1>8, <1>9 DEF FlagsInv

-----------------------------------------------------------------------------
(* Commands.                                                                *)

\* A command on a flag is given.  It is the last word; if no rival is under
\* way or late, nothing that is still to come can undo it.
LEMMA Speaking ==
    ASSUME WordInv, Follows, NEW p \in {"web", "rule"}, NEW op \in Ops,
           writer[p].pc = "off", writer'[p].pc # "off", writer'[p].op = op,
           \A q \in Writers : q # p => writer'[q] = writer[q], fq' = fq, late' = late, srv' = srv, inbox' = inbox,
           hist.word = [f \in Fields |-> hist.word[f]],
           hist'.word = [hist.word EXCEPT ![About(op)] = [op |-> op, rows |-> Stored]],
           hist'.unsure = IF Rivals(op, p) THEN hist.unsure \cup {About(op)} ELSE hist.unsure \ {About(op)},
           hist'.apart = hist.apart, Stored' = Stored,
           \A f \in Fields, m \in Stored : f # About(op) => msg'[m][f] = msg[m][f]
    PROVE  WordInv' /\ Follows'
<1>0. "web" \in Writers /\ "job" \in Writers /\ "rule" \in Writers /\ p \in Writers /\ p # "job" /\ About(op) \in Fields
  BY Apart DEF About, Fields
<1>1. \A f : /\ InQueue(f)' = InQueue(f) /\ IsLate(f)' = IsLate(f)
             /\ \A q \in Writers : q # p => Speaks(f, q)' = Speaks(f, q)
             /\ \A o : Youngest(f, o)' = Youngest(f, o)
  BY DEF InQueue, IsLate, Speaks, Youngest
<1>2. /\ \A f : ~ Speaks(f, p) /\ (f # About(op) => ~ Speaks(f, p)')
      /\ Speaks(About(op), p)' /\ Pend(About(op))'
  BY <1>0 DEF Speaks, Pend
<1>3. \A f \in Fields : f # About(op) => hist'.word[f] = hist.word[f]
  BY <1>0
<1>4. hist'.word[About(op)].op = op /\ hist'.word[About(op)].rows = Stored
  BY <1>0
<1>5. ASSUME About(op) \notin hist'.unsure PROVE WordOf(About(op))'
  <2> DEFINE f == About(op)
  <2>1. ~ Rivals(op, p)
    BY <1>5
  <2>2. (\A q \in {"web", "rule"} : q # p => ~ Speaks(f, q)) /\ ~ IsLate(f)
    BY <2>1 DEF Rivals, Speaks, IsLate
  <2>3. (\A q \in {"web", "rule"} : q # p => ~ Speaks(f, q)') /\ ~ IsLate(f)'
    BY <1>0, <1>1, <2>2
  <2>4. Speaks(f, p)' /\ Pend(f)' /\ writer'[p].op = hist'.word[f].op
    BY <1>2, <1>4
  <2> HIDE DEF f
  <2>5. ~ (Speaks(f, "web")' /\ Speaks(f, "rule")')
    BY <2>3
  <2>6. \A q \in {"web", "rule"} : Speaks(f, q)' => writer'[q].op = hist'.word[f].op /\ ~ IsLate(f)'
    BY <2>3, <2>4
  <2>7. ~ (~ Speaks(f, "web")' /\ ~ Speaks(f, "rule")')
    BY <2>4
  <2>8. WordOf(f)'
    BY <2>3, <2>4, <2>5, <2>6, <2>7 DEF WordOf
  <2> QED BY <2>8 DEF f
<1>6. ASSUME NEW f \in Fields, f # About(op), f \notin hist'.unsure PROVE WordOf(f)'
  <2>1. f \notin hist.unsure /\ WordOf(f) /\ hist.word[f].rows \subseteq Stored
    BY <1>6 DEF WordInv
  <2>2. \A q \in Writers : (Speaks(f, q)' <=> Speaks(f, q)) /\ (Speaks(f, q) => writer'[q].op = writer[q].op)
    BY <1>1, <1>2, <1>6
  <2>3. writer'["job"] = writer["job"] /\ hist'.word[f] = hist.word[f]
    BY <1>0, <1>3, <1>6
  <2>4. \A m \in hist.word[f].rows : msg'[m][f] = msg[m][f]
    BY <1>6, <2>1
  <2> QED BY <1>1, <2>1, <2>2, <2>3, <2>4, WordSame
<1>7. WordInv'
  <2>1. \A f \in Fields : hist'.word[f].rows \subseteq Stored'
    BY <1>3, <1>4 DEF WordInv
  <2>2. \A f \in Fields : f \notin hist'.unsure => WordOf(f)'
    BY <1>5, <1>6
  <2> QED BY <2>1, <2>2 DEF WordInv
<1>8. \A f \in Fields : f # About(op) => (Open(f)' <=> Open(f))
  BY <1>0, <1>1, <1>2 DEF Open
<1>9. Follows'
  <2>1. Open(About(op))'
    BY <1>2 DEF Open
  <2>2. \A f \in Fields, m \in Stored : f # About(op) => (Agree(m, f) => Agree(m, f)')
    BY <1>0, AgreeSame
  <2> QED BY <1>8, <2>1, <2>2, FollowsKept
<1> QED BY <1>7, <1>9

\* A transaction begins: it counts what the rows will add up to.
LEMMA BeginCounts ==
    ASSUME ListInv, NEW p \in {"web", "job"}, NEW op, writer[p].pc # "write",
           writer'[p].pc = "write", writer'[p].op = op, writer'[p].locked = Stored,
           writer'[p].unread = Unread(With(op, Stored)), writer'[p].star = Starred(With(op, Stored)),
           \A q \in Writers : q # p => writer'[q] = writer[q],
           msg' = msg, list' = list, intake' = intake, hist'.dirty = hist.dirty, hist'.raced = hist.raced
    PROVE  ListInv'
<1>0. "web" \in Writers /\ "job" \in Writers /\ "rule" \in Writers /\ p \in Writers /\ p # "rule"
  BY Apart
<1>1. /\ Stored' = Stored /\ Unread(msg)' = Unread(msg) /\ Starred(msg)' = Starred(msg)
      /\ \A o : /\ Unread(With(o, Stored))' = Unread(With(o, Stored))
                /\ Starred(With(o, Stored))' = Starred(With(o, Stored))
      /\ \A w : Unread(Noticed(w))' = Unread(Noticed(w)) /\ Starred(Noticed(w))' = Starred(Noticed(w))
  BY SameRows
<1>2. Counting \subseteq Counting' /\ Quiet' = Quiet
  BY DEF Counting, Quiet, AtWork
<1>3. DirtyCounts'
  BY <1>2 DEF ListInv, DirtyCounts
<1>4. \A m \in Mids : intake'[m].pc = "upsert" /\ Clean(m)' =>
          intake'[m].unread = Unread(msg)' /\ intake'[m].star = Starred(msg)'
  BY <1>1 DEF ListInv, Counted, Clean
<1>5. ASSUME NEW q \in {"web", "job"}, writer'[q].pc = "write", Clean(q)'
      PROVE  /\ writer'[q].locked = Stored'
             /\ writer'[q].unread = Unread(With(writer[q].op, Stored))'
             /\ writer'[q].star = Starred(With(writer[q].op, Stored))'
  <2>1. PICK o : o = writer'[q].op
    OBVIOUS
  <2>2. /\ Unread(With(writer[q].op, Stored))' = Unread(With(o, Stored))'
        /\ Starred(With(writer[q].op, Stored))' = Starred(With(o, Stored))'
    BY <2>1
  <2>3. /\ writer'[q].locked = Stored
        /\ writer'[q].unread = Unread(With(o, Stored))
        /\ writer'[q].star = Starred(With(o, Stored))
    BY <1>0, <1>5, <2>1 DEF ListInv, Counted, Clean
  <2> QED BY <1>1, <2>2, <2>3
<1>6. writer'["rule"].pc = "write" /\ Clean("rule")' => Unread(msg)' = 0
  BY <1>0, <1>1 DEF ListInv, Counted, Clean
<1>9. ASSUME NEW h \in Handlers, writer'[h].pc = "write", Clean(h)'
      PROVE  writer'[h].unread = Unread(Noticed(writer[h]))' /\ writer'[h].star = Starred(Noticed(writer[h]))'
  <2>1. writer'[h] = writer[h] /\ Clean(h)
    BY <1>9 DEF Clean
  <2>2. PICK w : w = writer[h]
    OBVIOUS
  <2>3. w.unread = Unread(Noticed(w)) /\ w.star = Starred(Noticed(w))
    BY <1>9, <2>1, <2>2 DEF ListInv, Counted
  <2>4. Unread(Noticed(writer[h]))' = Unread(Noticed(w))' /\ Starred(Noticed(writer[h]))' = Starred(Noticed(w))'
    BY <2>1, <2>2
  <2> QED BY <1>1, <2>1, <2>2, <2>3, <2>4
<1>7. Counted'
  BY <1>4, <1>5, <1>6, <1>9 DEF Counted
<1>8. ListU' /\ ListS'
  BY <1>0, <1>1, <1>2 DEF ListInv, ListU, ListS
<1> QED BY <1>3, <1>7, <1>8 DEF ListInv

\* The user gives a command.
LEMMA WebCommandKeeps == ASSUME FlagsInv, NEW op \in Ops, WebCommand(op) PROVE FlagsInv'
<1>0. Typed /\ ListInv /\ WordInv /\ ServerInv /\ MailTyped /\ WriterTyped /\ NoticeTyped /\ OtherTyped /\ Listed
  BY DEF FlagsInv, Typed
<1>w. "web" \in Writers /\ "job" \in Writers /\ "rule" \in Writers
  BY Apart
<1>1. /\ list # None /\ writer["web"].pc = "off" /\ hist' = Spoken(op, "web")
      /\ UNCHANGED <<msg, srv, list, intake, cq, common, fq, late, inbox>>
  BY DEF WebCommand, rules
<1>2. \/ op \in {"read", "unread"} /\ Begin("web", op)
      \/ op \notin {"read", "unread"} /\ writer' = [writer EXCEPT !["web"] = [NoWriter EXCEPT !.pc = "queue", !.op = op]]
  BY DEF WebCommand
<1>3. /\ writer' = [q \in Writers |-> writer'[q]] /\ \A q \in Writers : q # "web" => writer'[q] = writer[q]
      /\ WriterRow(writer'["web"]) /\ writer'["web"].op = op
      /\ \/ /\ op \in {"read", "unread"} /\ RowsFree
            /\ writer'["web"].pc = "write" /\ writer'["web"].locked = Stored
            /\ writer'["web"].unread = Unread(With(op, Stored)) /\ writer'["web"].star = Starred(With(op, Stored))
         \/ writer'["web"].pc = "queue"
  <2>1. CASE Begin("web", op) /\ op \in {"read", "unread"}
    <3> DEFINE x == [pc |-> "write", op |-> op, row |-> None, rows |-> writer["web"].rows, ok |-> writer["web"].ok, locked |-> Stored,
                     unread |-> Unread(With(op, Stored)), star |-> Starred(With(op, Stored))]
    <3>1. writer' = [writer EXCEPT !["web"] = x] /\ RowsFree
      BY <2>1 DEF Begin
    <3>2. WriterRow(x)
      BY Counts DEF WriterRow
    <3>3. writer' = [q \in Writers |-> writer'[q]] /\ writer'["web"] = x /\ \A q \in Writers : q # "web" => writer'[q] = writer[q]
      BY <1>0, <1>w, <3>1 DEF WriterTyped
    <3> QED BY <2>1, <3>1, <3>2, <3>3
  <2>2. CASE writer' = [writer EXCEPT !["web"] = [NoWriter EXCEPT !.pc = "queue", !.op = op]]
    <3>0. PICK x : x = [NoWriter EXCEPT !.pc = "queue", !.op = op]
      OBVIOUS
    <3>1. WriterRow(x) /\ x.op = op /\ x.pc = "queue"
      BY <3>0 DEF NoWriter, WriterRow
    <3>2. writer' = [q \in Writers |-> writer'[q]] /\ writer'["web"] = x /\ \A q \in Writers : q # "web" => writer'[q] = writer[q]
      BY <1>0, <1>w, <2>2, <3>0 DEF WriterTyped
    <3> QED BY <3>1, <3>2
  <2> QED BY <1>2, <2>1, <2>2
<1>4. /\ HistRow(hist') /\ hist'.apart = hist.apart /\ hist'.dirty = hist.dirty /\ hist'.raced = hist.raced
      /\ hist'.word = [hist.word EXCEPT ![About(op)] = [op |-> op, rows |-> Stored]]
      /\ hist'.unsure = IF Rivals(op, "web") THEN hist.unsure \cup {About(op)} ELSE hist.unsure \ {About(op)}
  BY <1>0, <1>1 DEF OtherTyped, HistRow, Spoken
<1>5. hist.word = [f \in Fields |-> hist.word[f]] /\ hist'.word = [f \in Fields |-> hist'.word[f]]
  <2>1. hist.word = [f \in Fields |-> hist.word[f]]
    BY <1>0 DEF OtherTyped
  <2> QED BY <1>4, <2>1
<1>6. Stored' = Stored
  BY <1>1 DEF Stored
<1>7. Typed'
  <2>1. MailTyped'
    BY <1>0, <1>1 DEF MailTyped
  <2>2. WriterTyped'
    BY <1>0, <1>w, <1>3 DEF WriterTyped, RowsFree
  <2>3. OtherTyped'
    BY <1>0, <1>1, <1>4, <1>5 DEF OtherTyped
  <2>4. Listed'
    BY <1>1 DEF Listed
  <2>n. NoticeTyped'
    BY <1>0, <1>1, <1>3, <1>6, NoticeSame
  <2> QED BY <2>1, <2>2, <2>3, <2>4, <2>n DEF Typed
<1>8. ListInv'
  <2>1. CASE writer'["web"].pc = "write"
    BY <1>0, <1>1, <1>3, <1>4, <2>1, BeginCounts
  <2>2. CASE writer'["web"].pc = "queue"
    <3>1. \A p \in Writers : writer[p].pc = "write" \/ writer'[p].pc = "write" => writer'[p] = writer[p]
      BY <1>1, <1>3, <2>2
    <3> QED BY <1>0, <1>1, <1>4, <3>1, NoCount DEF AtWork
  <2> QED BY <1>3, <2>1, <2>2
<1>9. WordInv' /\ Follows'
  <2>1. writer'["web"].pc # "off" /\ Follows
    BY <1>0, <1>3 DEF ServerInv
  <2> QED BY <1>0, <1>1, <1>3, <1>4, <1>5, <1>6, <2>1, Speaking
<1>10. ServerInv'
  <2>1. LockedIn'
    BY <1>0, <1>w, <1>3, <1>6 DEF ServerInv, LockedIn
  <2>2. JobDone'
    <3>1. \A m, f : Agree(m, f) => Agree(m, f)'
      BY <1>1, <1>3, AgreeAll
    <3> QED BY <1>0, <1>w, <1>1, <1>3, <1>6, <3>1, JobKept DEF ServerInv
  <2> QED BY <1>9, <2>1, <2>2 DEF ServerInv
<1> QED BY <1>7, <1>8, <1>9, <1>10 DEF FlagsInv

\* markAsRead or markAsUnread commits.
LEMMA WebWriteKeeps == ASSUME FlagsInv, WebWrite PROVE FlagsInv'
<1>0. Typed /\ ListInv /\ WordInv /\ ServerInv /\ MailTyped /\ WriterTyped /\ NoticeTyped /\ OtherTyped /\ Listed
  BY DEF FlagsInv, Typed
<1>w. "web" \in Writers /\ "job" \in Writers /\ "rule" \in Writers
  BY Apart
<1>p. PICK op, lk : op = writer["web"].op /\ lk = writer["web"].locked
  OBVIOUS
<1>1. /\ writer["web"].pc = "write" /\ msg' = With(op, lk) /\ Goto("web", "queue")
      /\ UNCHANGED <<srv, intake, cq, common, fq, late, inbox>>
  BY <1>p DEF WebWrite, rules
<1>2. op \in {"read", "unread"} /\ op \in Ops /\ writer["job"].pc # "write" /\ lk \subseteq Stored /\ list # None
  BY <1>0, <1>p, <1>1 DEF WriterTyped, ServerInv, LockedIn, Listed, Ops
<1>3. /\ writer' = [q \in Writers |-> writer'[q]] /\ WriterRow(writer'["web"])
      /\ writer'["web"].pc = "queue" /\ writer'["web"].op = op
      /\ \A q \in Writers : q # "web" => writer'[q] = writer[q]
  BY <1>0, <1>p, <1>w, <1>1, WriterGoto
<1>4. /\ HistRow(hist') /\ hist'.word = hist.word /\ hist'.unsure = hist.unsure /\ hist'.apart = hist.apart
      /\ hist'.dirty = Touched("web")
      /\ hist'.raced = IF "web" \in hist.dirty THEN hist.raced \cup {"unread"} ELSE hist.raced \ {"unread"}
  BY <1>0 DEF WebWrite, OtherTyped, HistRow
<1>5. /\ list' \in [unread : Nat, star : BOOLEAN] /\ list' # None /\ list'.star = list.star
      /\ list'.unread = IF op = "read" THEN 0 ELSE writer["web"].unread
  <2>1. list \in [unread : Nat, star : BOOLEAN] /\ writer["web"].unread \in Nat
    BY <1>0, <1>w, <1>2 DEF OtherTyped, WriterTyped, WriterRow
  <2>2. PICK n \in Nat : n = IF op = "read" THEN 0 ELSE writer["web"].unread
    BY <2>1
  <2>3. list' = [list EXCEPT !.unread = n]
    BY <1>p, <2>2 DEF WebWrite
  <2>4. list' = [unread |-> n, star |-> list.star]
    BY <2>1, <2>3
  <2> QED BY <2>1, <2>2, <2>4, Counts
<1>6. /\ msg' \in [Mids -> Row \cup {None}] /\ Stored' = Stored /\ \A m \in Mids : msg'[m] = None <=> msg[m] = None
      /\ \A m \in Stored, f \in Fields : f # About(op) => msg'[m][f] = msg[m][f]
      /\ lk = Stored => Unread(msg)' = Unread(With(op, Stored)) /\ Starred(msg)' = Starred(With(op, Stored))
  BY <1>0, <1>1, <1>2, WithFacts
<1>7. Typed'
  <2>1. MailTyped'
    BY <1>0, <1>1, <1>6 DEF MailTyped
  <2>2. WriterTyped'
    BY <1>0, <1>w, <1>2, <1>3 DEF WriterTyped
  <2>3. OtherTyped'
    BY <1>0, <1>1, <1>4, <1>5 DEF OtherTyped
  <2>4. Listed'
    BY <1>5 DEF Listed
  <2>n. NoticeTyped'
    BY <1>0, <1>1, <1>3, <1>6, NoticeSame
  <2> QED BY <2>1, <2>2, <2>3, <2>4, <2>n DEF Typed
<1>8. ListInv'
  <2>1. Counting' \ {"web"} = Counting \ {"web"} /\ "web" \notin Counting'
    BY <1>1, <1>3, Apart DEF Counting
  <2>2. DirtyCounts' /\ Counted'
    BY <1>0, <1>4, <2>1, Overtaken DEF ListInv
  <2>3. "web" \notin hist.dirty => list'.unread = Unread(msg)'
    <3> SUFFICES ASSUME "web" \notin hist.dirty PROVE list'.unread = Unread(msg)'
      OBVIOUS
    <3>1. lk = Stored /\ writer["web"].unread = Unread(With(op, Stored))
      BY <1>0, <1>p, <1>1 DEF ListInv, Counted, Clean
    <3>2. CASE op = "read"
      BY <1>0, <1>5, <1>6, <3>1, <3>2, ReadAll
    <3>3. CASE op # "read"
      BY <1>5, <1>6, <3>1, <3>3
    <3> QED BY <3>2, <3>3
  <2>4. ListU'
    BY <1>4, <2>3 DEF ListU
  <2>5. "flag" \in Fields /\ "flag" # About(op)
    BY <1>2 DEF Fields, About
  <2>6. \A m \in Stored : msg'[m].flag = msg[m].flag
    BY <1>6, <2>5
  <2>7. Starred(msg)' = Starred(msg)
    BY <1>6, <2>6 DEF Starred
  <2>8. Quiet' = Quiet
    BY <1>1 DEF Quiet, AtWork
  <2>9. ListS'
    BY <1>0, <1>2, <1>4, <1>5, <2>7, <2>8 DEF ListInv, ListS
  <2> QED BY <2>2, <2>4, <2>9 DEF ListInv
<1>9. /\ \A f : /\ InQueue(f)' = InQueue(f) /\ IsLate(f)' = IsLate(f)
                /\ \A o : Youngest(f, o)' = Youngest(f, o)
                /\ \A q \in Writers : Speaks(f, q)' <=> Speaks(f, q)
      /\ Speaks(About(op), "web") /\ Pend(About(op)) /\ \A q \in Writers : writer'[q].op = writer[q].op
  BY <1>p, <1>w, <1>1, <1>3 DEF InQueue, IsLate, Speaks, Youngest, Pend
<1>10. \A f : Pend(f)' <=> Pend(f)
  BY <1>9 DEF Pend
<1>11. WordInv'
  <2>1. ASSUME NEW f \in Fields, f \notin hist'.unsure PROVE WordOf(f)'
    <3>1. WordOf(f) /\ hist.word[f].rows \subseteq Stored
      BY <1>0, <1>4, <2>1 DEF WordInv
    <3>2. ~ Pend(f) \/ ~ Speaks(f, "web") => \A m \in hist.word[f].rows : msg'[m][f] = msg[m][f]
      BY <1>6, <1>9, <3>1
    <3>3. writer'["job"] = writer["job"] /\ late' = late /\ hist'.word[f] = hist.word[f]
      BY <1>w, <1>1, <1>3, <1>4
    <3> QED BY <1>9, <3>1, <3>2, <3>3, WordSame
  <2> QED BY <1>0, <1>4, <1>6, <2>1 DEF WordInv
<1>12. ServerInv'
  <2>1. LockedIn'
    BY <1>0, <1>w, <1>3, <1>6 DEF ServerInv, LockedIn
  <2>2. JobDone'
    BY <1>0, <1>w, <1>1, <1>2, <1>3, <1>6, JobKept DEF ServerInv
  <2>3. \A f : (Open(f)' <=> Open(f)) /\ Open(About(op))
    BY <1>w, <1>3, <1>9 DEF Open
  <2>4. \A f \in Fields, m \in Stored : f # About(op) => (Agree(m, f) => Agree(m, f)')
    BY <1>1, <1>3, <1>6, AgreeSame
  <2>5. Follows'
    BY <1>0, <1>4, <1>6, <2>3, <2>4, FollowsKept DEF ServerInv
  <2> QED BY <2>1, <2>2, <2>5 DEF ServerInv
<1> QED BY <1>7, <1>8, <1>11, <1>12 DEF FlagsInv

\* A rule marks as read, or stars.
LEMMA RuleActKeeps == ASSUME FlagsInv, RuleAct PROVE FlagsInv'
<1>0. Typed /\ ListInv /\ WordInv /\ ServerInv /\ MailTyped /\ WriterTyped /\ NoticeTyped /\ OtherTyped /\ Listed
  BY DEF FlagsInv, Typed
<1>w. "web" \in Writers /\ "job" \in Writers /\ "rule" \in Writers
  BY Apart
<1>1. /\ common.acts # <<>> /\ writer["rule"].pc = "off" /\ common' = [common EXCEPT !.acts = Tail(@)]
      /\ UNCHANGED <<srv, list, intake, cq, fq, late, inbox>>
  BY DEF RuleAct
<1>2. PICK op \in {"read", "flag"} : op = Head(common.acts)
  BY <1>0, <1>1 DEF OtherTyped
<1>3. /\ common' = [mail |-> common'.mail, acts |-> common'.acts, stalled |-> common'.stalled] /\ common'.acts \in Seq({"read", "flag"})
      /\ list # None /\ op \in Ops
  <2>1. /\ common = [mail |-> common.mail, acts |-> common.acts, stalled |-> common.stalled] /\ common.acts \in Seq({"read", "flag"})
        /\ list # None
    BY <1>0, <1>1 DEF OtherTyped, Listed
  <2>2. Tail(common.acts) \in Seq({"read", "flag"})
    BY <1>1, <2>1
  <2>3. common' = [mail |-> common.mail, acts |-> Tail(common.acts), stalled |-> common.stalled]
    BY <1>1, <2>1
  <2> QED BY <2>1, <2>2, <2>3 DEF Ops
<1>4. /\ HistRow(hist') /\ hist'.apart = hist.apart /\ hist'.raced = hist.raced
      /\ hist'.dirty = IF op = "read" THEN Touched("rule") ELSE hist.dirty
      /\ hist'.word = [hist.word EXCEPT ![About(op)] = [op |-> op, rows |-> Stored]]
      /\ hist'.unsure = IF Rivals(op, "rule") THEN hist.unsure \cup {About(op)} ELSE hist.unsure \ {About(op)}
  <2>1. hist' = [Spoken(op, "rule") EXCEPT !.dirty = IF op = "read" THEN Touched("rule") ELSE @]
    BY <1>2 DEF RuleAct
  <2> QED BY <1>0, <2>1 DEF OtherTyped, HistRow, Spoken
<1>5. hist.word = [f \in Fields |-> hist.word[f]] /\ hist'.word = [f \in Fields |-> hist'.word[f]]
  <2>1. hist.word = [f \in Fields |-> hist.word[f]]
    BY <1>0 DEF OtherTyped
  <2> QED BY <1>4, <2>1
<1>6. /\ writer' = [q \in Writers |-> writer'[q]] /\ \A q \in Writers : q # "rule" => writer'[q] = writer[q]
      /\ WriterRow(writer'["rule"]) /\ writer'["rule"].op = op
      /\ \/ op = "read" /\ RowsFree /\ writer'["rule"].pc = "write" /\ msg' = With("read", Stored)
         \/ op = "flag" /\ writer'["rule"].pc = "queue" /\ msg' = msg
  <2>1. CASE op = "read"
    <3>0. PICK x : x = [NoWriter EXCEPT !.pc = "write", !.op = op]
      OBVIOUS
    <3>1. WriterRow(x) /\ x.op = op /\ x.pc = "write"
      BY <3>0 DEF NoWriter, WriterRow
    <3>2. writer' = [writer EXCEPT !["rule"] = x] /\ RowsFree /\ msg' = With("read", Stored)
      BY <1>2, <2>1, <3>0 DEF RuleAct
    <3>3. writer' = [q \in Writers |-> writer'[q]] /\ writer'["rule"] = x /\ \A q \in Writers : q # "rule" => writer'[q] = writer[q]
      BY <1>0, <1>w, <3>2 DEF WriterTyped
    <3> QED BY <2>1, <3>1, <3>2, <3>3
  <2>2. CASE op = "flag"
    <3>0. PICK x : x = [NoWriter EXCEPT !.pc = "queue", !.op = op]
      OBVIOUS
    <3>1. WriterRow(x) /\ x.op = op /\ x.pc = "queue"
      BY <3>0 DEF NoWriter, WriterRow
    <3>2. writer' = [writer EXCEPT !["rule"] = x] /\ msg' = msg
      BY <1>2, <2>2, <3>0 DEF RuleAct
    <3>3. writer' = [q \in Writers |-> writer'[q]] /\ writer'["rule"] = x /\ \A q \in Writers : q # "rule" => writer'[q] = writer[q]
      BY <1>0, <1>w, <3>2 DEF WriterTyped
    <3> QED BY <2>2, <3>1, <3>2, <3>3
  <2> QED BY <2>1, <2>2
<1>7. /\ msg' \in [Mids -> Row \cup {None}] /\ Stored' = Stored /\ \A m \in Mids : msg'[m] = None <=> msg[m] = None
      /\ \A m \in Stored, f \in Fields : f # About(op) => msg'[m][f] = msg[m][f]
      /\ op = "read" => Unread(msg)' = 0
  <2>1. CASE op = "read"
    <3>1. msg' = With(op, Stored) /\ Stored \subseteq Stored
      BY <1>6, <2>1
    <3>2. /\ msg' \in [Mids -> Row \cup {None}] /\ Stored' = Stored /\ \A m \in Mids : msg'[m] = None <=> msg[m] = None
          /\ \A m \in Stored, f \in Fields : f # About(op) => msg'[m][f] = msg[m][f]
          /\ Unread(msg)' = Unread(With(op, Stored))
      BY <1>0, <1>3, <3>1, WithFacts
    <3> QED BY <1>0, <2>1, <3>2, ReadAll
  <2>2. CASE op = "flag"
    BY <1>0, <1>6, <2>2 DEF MailTyped, Stored
  <2> QED BY <2>1, <2>2
<1>8. Typed'
  <2>1. MailTyped'
    BY <1>0, <1>1, <1>7 DEF MailTyped
  <2>2. WriterTyped'
    BY <1>0, <1>w, <1>3, <1>6 DEF WriterTyped
  <2>3. OtherTyped'
    BY <1>0, <1>1, <1>3, <1>4, <1>5 DEF OtherTyped
  <2>4. Listed'
    BY <1>1, <1>3 DEF Listed
  <2>n. NoticeTyped'
    BY <1>0, <1>1, <1>6, <1>7, NoticeSame
  <2> QED BY <2>1, <2>2, <2>3, <2>4, <2>n DEF Typed
<1>9. ListInv'
  <2>1. CASE op = "read"
    <3>1. Counting' \ {"rule"} = Counting \ {"rule"}
      BY <1>1, <1>6, Apart DEF Counting
    <3>2. DirtyCounts' /\ Counted'
      BY <1>0, <1>4, <1>7, <2>1, <3>1, Overtaken DEF ListInv
    <3>3. ListU'
      BY <1>6, <2>1 DEF ListU
    <3>4. "flag" \in Fields /\ "flag" # About(op)
      BY <2>1 DEF Fields, About
    <3>5. \A m \in Stored : msg'[m].flag = msg[m].flag
      BY <1>7, <3>4
    <3>6. Starred(msg)' = Starred(msg) /\ Quiet' = Quiet
      BY <1>1, <1>7, <3>5 DEF Starred, Quiet, AtWork
    <3>7. ListS'
      BY <1>0, <1>1, <1>4, <3>6 DEF ListInv, ListS
    <3> QED BY <3>2, <3>3, <3>7 DEF ListInv
  <2>2. CASE op = "flag"
    <3>1. \A p \in Writers : writer[p].pc = "write" \/ writer'[p].pc = "write" => writer'[p] = writer[p]
      BY <1>1, <1>6, <2>2
    <3>2. msg' = msg /\ hist'.dirty = hist.dirty
      BY <1>4, <1>6, <2>2
    <3> QED BY <1>0, <1>1, <1>4, <3>1, <3>2, NoCount DEF AtWork
  <2> QED BY <2>1, <2>2
<1>10. WordInv' /\ Follows'
  <2>1. writer'["rule"].pc # "off" /\ Follows
    BY <1>0, <1>6 DEF ServerInv
  <2>2. \A f \in Fields, m \in Stored : f # About(op) => msg'[m][f] = msg[m][f]
    BY <1>7
  <2>3. fq' = fq /\ late' = late /\ srv' = srv /\ inbox' = inbox /\ Stored' = Stored
    BY <1>1, <1>7
  <2> QED BY <1>0, <1>1, <1>3, <1>4, <1>5, <1>6, <2>1, <2>2, <2>3, Speaking
<1>11. ServerInv'
  <2>1. LockedIn'
    BY <1>0, <1>w, <1>6, <1>7 DEF ServerInv, LockedIn
  <2>2. JobDone'
    <3>1. writer["job"].pc = "write" => msg' = msg
      BY <1>6 DEF RowsFree
    <3>2. writer["job"].pc = "write" => \A m, f : Agree(m, f) => Agree(m, f)'
      BY <1>1, <1>6, <3>1, AgreeAll
    <3> QED BY <1>0, <1>w, <1>1, <1>6, <1>7, <3>2, JobKept DEF ServerInv
  <2> QED BY <1>10, <2>1, <2>2 DEF ServerInv
<1> QED BY <1>8, <1>9, <1>10, <1>11 DEF FlagsInv

\* The second statement of a rule.
LEMMA RuleWriteKeeps == ASSUME FlagsInv, RuleWrite PROVE FlagsInv'
<1>0. Typed /\ ListInv /\ WordInv /\ ServerInv /\ MailTyped /\ WriterTyped /\ NoticeTyped /\ OtherTyped /\ Listed
  BY DEF FlagsInv, Typed
<1>w. "web" \in Writers /\ "job" \in Writers /\ "rule" \in Writers
  BY Apart
<1>1. /\ writer["rule"].pc = "write" /\ Goto("rule", "queue") /\ list' = [list EXCEPT !.unread = 0]
      /\ UNCHANGED <<msg, srv, intake, cq, common, fq, late, inbox>>
  BY DEF RuleWrite, rules
<1>2. list # None /\ writer["rule"].op = "read"
  BY <1>0, <1>1 DEF WriterTyped, Listed
<1>3. /\ writer' = [q \in Writers |-> writer'[q]] /\ WriterRow(writer'["rule"])
      /\ writer'["rule"].pc = "queue" /\ writer'["rule"].op = writer["rule"].op
      /\ \A q \in Writers : q # "rule" => writer'[q] = writer[q]
  BY <1>0, <1>w, <1>1, WriterGoto
<1>4. /\ HistRow(hist') /\ hist'.word = hist.word /\ hist'.unsure = hist.unsure /\ hist'.apart = hist.apart
      /\ hist'.dirty = Touched("rule")
      /\ hist'.raced = IF "rule" \in hist.dirty THEN hist.raced \cup {"unread"} ELSE hist.raced \ {"unread"}
  BY <1>0 DEF RuleWrite, OtherTyped, HistRow
<1>5. list' \in [unread : Nat, star : BOOLEAN] /\ list' # None /\ list'.star = list.star /\ list'.unread = 0
  <2>1. list \in [unread : Nat, star : BOOLEAN]
    BY <1>0, <1>2 DEF OtherTyped
  <2>2. list' = [unread |-> 0, star |-> list.star]
    BY <1>1, <2>1
  <2> QED BY <2>1, <2>2, Counts
<1>6. Stored' = Stored /\ Unread(msg)' = Unread(msg) /\ Starred(msg)' = Starred(msg)
  BY <1>1, SameRows
<1>7. Typed'
  <2>1. MailTyped'
    BY <1>0, <1>1 DEF MailTyped
  <2>2. WriterTyped'
    <3>1. writer'["rule"].op \in Ops /\ writer'["rule"].pc = "queue"
      BY <1>2, <1>3 DEF Ops
    <3>2. (\A q \in Writers : WriterRow(writer'[q])) /\ \A q \in Commanders : writer'[q].pc # "off" => writer'[q].op \in Ops
      BY <1>0, <1>3, <3>1 DEF WriterTyped
    <3>3. writer'["web"] = writer["web"] /\ writer'["job"] = writer["job"]
      BY <1>w, <1>3
    <3> QED BY <1>0, <1>3, <3>1, <3>2, <3>3 DEF WriterTyped
  <2>3. OtherTyped'
    BY <1>0, <1>1, <1>4, <1>5 DEF OtherTyped
  <2>4. Listed'
    BY <1>5 DEF Listed
  <2>n. NoticeTyped'
    BY <1>0, <1>1, <1>3, <1>6, NoticeSame
  <2> QED BY <2>1, <2>2, <2>3, <2>4, <2>n DEF Typed
<1>8. ListInv'
  <2>1. Counting' \ {"rule"} = Counting \ {"rule"} /\ "rule" \notin Counting'
    BY <1>1, <1>3, Apart DEF Counting
  <2>2. DirtyCounts' /\ Counted'
    BY <1>0, <1>4, <2>1, Overtaken DEF ListInv
  <2>3. "rule" \notin hist.dirty => Unread(msg) = 0
    BY <1>0, <1>1 DEF ListInv, Counted, Clean
  <2>4. ListU'
    BY <1>4, <1>5, <1>6, <2>3 DEF ListU
  <2>5. Quiet' = Quiet
    BY <1>1 DEF Quiet, AtWork
  <2>6. ListS'
    BY <1>0, <1>2, <1>4, <1>5, <1>6, <2>5 DEF ListInv, ListS
  <2> QED BY <2>2, <2>4, <2>6 DEF ListInv
<1>9. /\ \A f : /\ InQueue(f)' = InQueue(f) /\ IsLate(f)' = IsLate(f)
                /\ \A o : Youngest(f, o)' = Youngest(f, o)
                /\ \A q \in Writers : Speaks(f, q)' <=> Speaks(f, q)
      /\ \A q \in Writers : writer'[q].op = writer[q].op
  BY <1>w, <1>1, <1>3 DEF InQueue, IsLate, Speaks, Youngest
<1>10. \A f : Pend(f)' <=> Pend(f)
  BY <1>9 DEF Pend
<1>11. WordInv'
  <2>1. ASSUME NEW f \in Fields, f \notin hist'.unsure PROVE WordOf(f)'
    <3>1. WordOf(f) /\ hist'.word[f] = hist.word[f]
      BY <1>0, <1>4, <2>1 DEF WordInv
    <3>2. writer'["job"] = writer["job"] /\ late' = late /\ msg' = msg
      BY <1>w, <1>1, <1>3
    <3> QED BY <1>9, <3>1, <3>2, WordSame
  <2> QED BY <1>0, <1>4, <1>6, <2>1 DEF WordInv
<1>12. ServerInv'
  <2>1. LockedIn'
    BY <1>0, <1>w, <1>3, <1>6 DEF ServerInv, LockedIn
  <2>0. (\A m, f : Agree(m, f) => Agree(m, f)') /\ \A f : Open(f)' <=> Open(f)
    <3>1. \A m, f : Agree(m, f) => Agree(m, f)'
      BY <1>1, <1>3, AgreeAll
    <3> QED BY <1>w, <1>3, <1>9, <3>1 DEF Open
  <2>2. JobDone'
    BY <1>0, <1>w, <1>1, <1>3, <1>6, <2>0, JobKept DEF ServerInv
  <2>3. Follows'
    BY <1>0, <1>4, <1>6, <2>0, FollowsKept DEF ServerInv
  <2> QED BY <2>1, <2>2, <2>3 DEF ServerInv
<1> QED BY <1>7, <1>8, <1>11, <1>12 DEF FlagsInv

\* A writer that has nothing open ends.
LEMMA Ended ==
    ASSUME Typed, NEW p \in Commanders, End(p), writer[p].pc # "write" \/ p = "job"
    PROVE  /\ WriterTyped' /\ writer'[p] = NoWriter /\ \A q \in Writers : q # p => writer'[q] = writer[q]
           /\ \A f : ~ Speaks(f, p)' /\ \A q \in Writers : q # p => Speaks(f, q)' = Speaks(f, q)
<1>w. "web" \in Writers /\ "job" \in Writers /\ "rule" \in Writers
  BY Apart
<1>1. /\ writer' = [q \in Writers |-> writer'[q]] /\ writer'[p] = NoWriter
      /\ \A q \in Writers : q # p => writer'[q] = writer[q]
  BY DEF Typed, End, WriterTyped
<1>2. WriterTyped'
  BY <1>w, <1>1, Off DEF Typed, WriterTyped
<1>3. \A f : ~ Speaks(f, p)' /\ \A q \in Writers : q # p => Speaks(f, q)' = Speaks(f, q)
  BY <1>1, Off DEF Speaks
<1> QED BY <1>1, <1>2, <1>3

\* The command's job is queued, behind all others.
LEMMA QueueKeeps == ASSUME FlagsInv, NEW p \in {"web", "rule"}, Queue(p) PROVE FlagsInv'
<1>0. Typed /\ ListInv /\ WordInv /\ ServerInv /\ MailTyped /\ WriterTyped /\ NoticeTyped /\ OtherTyped /\ Listed
  BY DEF FlagsInv, Typed
<1>w. "web" \in Writers /\ "job" \in Writers /\ "rule" \in Writers /\ p \in Writers /\ p # "job"
  BY Apart
<1>p. PICK op : op = writer[p].op
  OBVIOUS
<1>1. /\ writer[p].pc = "queue" /\ fq' = Append(fq, op) /\ End(p)
      /\ UNCHANGED <<msg, srv, list, intake, cq, common, late, hist, inbox>>
  BY <1>p DEF Queue, rules
<1>2. op \in Ops /\ list # None /\ About(op) \in Fields /\ Speaks(About(op), p) /\ fq \in Seq(Ops)
  BY <1>0, <1>p, <1>w, <1>1 DEF WriterTyped, Listed, Speaks, OtherTyped, About, Fields
<1>3. /\ WriterTyped' /\ writer'[p] = NoWriter /\ \A q \in Writers : q # p => writer'[q] = writer[q]
      /\ \A f : ~ Speaks(f, p)' /\ \A q \in Writers : q # p => Speaks(f, q)' = Speaks(f, q)
  BY <1>0, <1>w, <1>1, Ended
<1>4. /\ fq' \in Seq(Ops) /\ InQueue(About(op))' /\ Youngest(About(op), op)'
      /\ \A g : g # About(op) => (InQueue(g)' <=> InQueue(g)) /\ \A o : Youngest(g, o) => Youngest(g, o)'
  BY <1>1, <1>2, QueueAppend
<1>5. Stored' = Stored /\ \A f : IsLate(f)' = IsLate(f)
  BY <1>1 DEF Stored, IsLate
<1>6. Typed'
  <2>1. MailTyped' /\ Listed'
    BY <1>0, <1>1, <1>2 DEF MailTyped, Listed
  <2>2. OtherTyped'
    BY <1>0, <1>1, <1>4 DEF OtherTyped
  <2>n. NoticeTyped'
    BY <1>0, <1>1, <1>3, <1>5, NoticeSame
  <2> QED BY <1>3, <2>1, <2>2, <2>n DEF Typed
<1>7. ListInv'
  <2>1. \A q \in Writers : writer[q].pc = "write" \/ writer'[q].pc = "write" => writer'[q] = writer[q]
    BY <1>1, <1>3, Off
  <2> QED BY <1>0, <1>1, <2>1, NoCount DEF AtWork
<1>8. ASSUME NEW f \in Fields, f # About(op)
      PROVE  (\A q \in Writers : Speaks(f, q)' <=> Speaks(f, q)) /\ (Open(f)' <=> Open(f))
  <2>1. ~ Speaks(f, p)
    BY <1>p, <1>8 DEF Speaks
  <2>2. \A q \in Writers : Speaks(f, q)' <=> Speaks(f, q)
    BY <1>3, <2>1
  <2> QED BY <1>w, <1>3, <1>4, <1>5, <1>8, <2>2 DEF Open
<1>9. ASSUME NEW f \in Fields, f # About(op), f \notin hist'.unsure PROVE WordOf(f)'
  <2>1. WordOf(f) /\ hist'.word[f] = hist.word[f] /\ late' = late /\ msg' = msg
    BY <1>0, <1>1, <1>9 DEF WordInv
  <2>2. writer'["job"] = writer["job"] /\ \A q \in Writers : Speaks(f, q) => writer'[q].op = writer[q].op
    BY <1>w, <1>3, <1>8, <1>9
  <2> QED BY <1>4, <1>5, <1>8, <1>9, <2>1, <2>2, WordSame
<1>10. ASSUME About(op) \notin hist'.unsure PROVE WordOf(About(op))'
  <2>0. PICK f : f = About(op)
    OBVIOUS
  <2>1. WordOf(f) /\ Speaks(f, p)
    BY <1>0, <1>1, <1>2, <1>10, <2>0 DEF WordInv
  <2>2. op = hist.word[f].op /\ ~ IsLate(f) /\ ~ (Speaks(f, "web") /\ Speaks(f, "rule"))
    BY <1>p, <2>1 DEF WordOf
  <2>3. ~ Speaks(f, "web")' /\ ~ Speaks(f, "rule")' /\ ~ IsLate(f)'
    BY <1>w, <1>3, <1>5, <2>1, <2>2
  <2>4. InQueue(f)' /\ Pend(f)' /\ Youngest(f, op)'
    BY <1>4, <2>0 DEF Pend
  <2>5. hist'.word[f].op = op
    BY <1>1, <2>2
  <2>6. Youngest(f, hist.word[f].op)'
    BY <2>4, <2>5 DEF Youngest
  <2>7. WordOf(f)'
    BY <2>3, <2>4, <2>6 DEF WordOf
  <2> QED BY <2>0, <2>7
<1>11. WordInv'
  BY <1>0, <1>1, <1>5, <1>9, <1>10 DEF WordInv
<1>12. ServerInv'
  <2>0. \A m, f : Agree(m, f) => Agree(m, f)'
    BY <1>1, <1>3, AgreeAll
  <2>1. LockedIn' /\ JobDone'
    <3>1. JobDone'
      BY <1>0, <1>w, <1>1, <1>3, <1>5, <2>0, JobKept DEF ServerInv
    <3> QED BY <1>0, <1>w, <1>3, <1>5, <3>1, Off DEF ServerInv, LockedIn
  <2>2. Open(About(op))'
    BY <1>4 DEF Open
  <2>3. Follows'
    BY <1>0, <1>1, <1>5, <1>8, <2>0, <2>2, FollowsKept DEF ServerInv
  <2> QED BY <2>1, <2>3 DEF ServerInv
<1> QED BY <1>6, <1>7, <1>11, <1>12 DEF FlagsInv

\* The command's job is never queued, and known not to be.
LEMMA CommandBreaksKeeps == ASSUME FlagsInv, NEW p \in {"web", "rule"}, CommandBreaks(p) PROVE FlagsInv'
<1>0. Typed /\ ListInv /\ WordInv /\ ServerInv /\ MailTyped /\ WriterTyped /\ NoticeTyped /\ OtherTyped /\ Listed
  BY DEF FlagsInv, Typed
<1>w. "web" \in Writers /\ "job" \in Writers /\ "rule" \in Writers /\ p \in Writers /\ p # "job"
  BY Apart
<1>p. PICK f0 : f0 = About(writer[p].op)
  OBVIOUS
<1>1. /\ writer[p].pc = "queue" /\ End(p) /\ common' = IF p = "rule" THEN [mail |-> None, acts |-> <<>>, stalled |-> common.stalled] ELSE common
      /\ UNCHANGED <<msg, srv, list, intake, cq, fq, late, inbox>>
  BY DEF CommandBreaks, NoCommon
<1>2. /\ HistRow(hist') /\ hist'.word = hist.word /\ hist'.dirty = hist.dirty /\ hist'.raced = hist.raced
      /\ hist'.unsure = hist.unsure \cup {f0} /\ hist'.apart = hist.apart \cup {f0}
  BY <1>0, <1>p DEF CommandBreaks, OtherTyped, HistRow
<1>3. /\ WriterTyped' /\ writer'[p] = NoWriter /\ \A q \in Writers : q # p => writer'[q] = writer[q]
      /\ \A f : ~ Speaks(f, p)' /\ \A q \in Writers : q # p => Speaks(f, q)' = Speaks(f, q)
  BY <1>0, <1>w, <1>1, Ended
<1>4. list # None /\ common'.acts \in Seq({"read", "flag"}) /\ common' = [mail |-> common'.mail, acts |-> common'.acts, stalled |-> common'.stalled]
  BY <1>0, <1>1 DEF Listed, OtherTyped
<1>5. /\ Stored' = Stored
      /\ \A f : IsLate(f)' = IsLate(f) /\ InQueue(f)' = InQueue(f) /\ \A o : Youngest(f, o)' = Youngest(f, o)
  BY <1>1 DEF Stored, IsLate, InQueue, Youngest
<1>6. Typed'
  <2>1. MailTyped' /\ Listed'
    BY <1>0, <1>1, <1>4 DEF MailTyped, Listed
  <2>2. OtherTyped'
    BY <1>0, <1>1, <1>2, <1>4 DEF OtherTyped
  <2>n. NoticeTyped'
    BY <1>0, <1>1, <1>3, <1>5, NoticeSame
  <2> QED BY <1>3, <2>1, <2>2, <2>n DEF Typed
<1>7. ListInv'
  <2>1. \A q \in Writers : writer[q].pc = "write" \/ writer'[q].pc = "write" => writer'[q] = writer[q]
    BY <1>1, <1>3, Off
  <2> QED BY <1>0, <1>1, <1>2, <2>1, NoCount DEF AtWork
<1>8. ASSUME NEW f \in Fields, f # f0
      PROVE  (\A q \in Writers : Speaks(f, q)' <=> Speaks(f, q)) /\ (Open(f)' <=> Open(f))
  <2>1. ~ Speaks(f, p)
    BY <1>p, <1>8 DEF Speaks
  <2>2. \A q \in Writers : Speaks(f, q)' <=> Speaks(f, q)
    BY <1>3, <2>1
  <2> QED BY <1>w, <1>3, <1>5, <2>2 DEF Open
<1>9. ASSUME NEW f \in Fields, f \notin hist'.unsure PROVE WordOf(f)'
  <2>1. f # f0 /\ WordOf(f) /\ hist'.word[f] = hist.word[f] /\ late' = late /\ msg' = msg
    BY <1>0, <1>1, <1>2, <1>9 DEF WordInv
  <2>2. writer'["job"] = writer["job"] /\ \A q \in Writers : Speaks(f, q) => writer'[q].op = writer[q].op
    BY <1>w, <1>3, <1>8, <2>1
  <2> QED BY <1>5, <1>8, <2>1, <2>2, WordSame
<1>10. WordInv'
  BY <1>0, <1>2, <1>5, <1>9 DEF WordInv
<1>11. ServerInv'
  <2>0. \A m, f : Agree(m, f) => Agree(m, f)'
    BY <1>1, <1>3, AgreeAll
  <2>1. LockedIn' /\ JobDone'
    <3>1. JobDone'
      BY <1>0, <1>w, <1>1, <1>3, <1>5, <2>0, JobKept DEF ServerInv
    <3> QED BY <1>0, <1>w, <1>3, <1>5, <3>1, Off DEF ServerInv, LockedIn
  <2>2. Follows'
    BY <1>0, <1>2, <1>5, <1>8, <2>0, FollowsKept DEF ServerInv
  <2> QED BY <2>1, <2>2 DEF ServerInv
<1> QED BY <1>6, <1>7, <1>10, <1>11 DEF FlagsInv

-----------------------------------------------------------------------------
(* mail:set-flags.                                                          *)

\* The job is taken from the queue: the last one on its flag is the last word.
LEMMA JobStartKeeps == ASSUME FlagsInv, JobStart PROVE FlagsInv'
<1>0. Typed /\ ListInv /\ WordInv /\ ServerInv /\ MailTyped /\ WriterTyped /\ NoticeTyped /\ OtherTyped /\ Listed
  BY DEF FlagsInv, Typed
<1>w. "web" \in Writers /\ "job" \in Writers /\ "rule" \in Writers
  BY Apart
<1>p. PICK op : op = Head(fq)
  OBVIOUS
<1>1. /\ fq # <<>> /\ writer["job"].pc = "off" /\ fq' = Tail(fq) /\ fq \in Seq(Ops)
      /\ writer' = [writer EXCEPT !["job"] = [NoWriter EXCEPT !.pc = "store", !.op = op, !.rows = Stored]]
      /\ UNCHANGED <<msg, srv, list, intake, cq, common, late, hist, inbox>>
  BY <1>0, <1>p DEF JobStart, rules, OtherTyped
<1>2. /\ fq' \in Seq(Ops) /\ op \in Ops
      /\ \A f : InQueue(f) <=> InQueue(f)' \/ About(op) = f
      /\ \A f, o : Youngest(f, o) => Youngest(f, o)' /\ (About(op) = f /\ ~ InQueue(f)' => op = o)
  BY <1>p, <1>1, QueueTail
<1>3. /\ writer' = [q \in Writers |-> writer'[q]] /\ \A q \in Writers : q # "job" => writer'[q] = writer[q]
      /\ WriterRow(writer'["job"]) /\ writer'["job"].op = op /\ writer'["job"].pc = "store" /\ writer'["job"].rows = Stored
  <2>0. PICK x : x = [NoWriter EXCEPT !.pc = "store", !.op = op, !.rows = Stored]
    OBVIOUS
  <2>1. WriterRow(x) /\ x.op = op /\ x.pc = "store" /\ x.rows = Stored
    BY <2>0 DEF NoWriter, WriterRow
  <2>2. writer' = [q \in Writers |-> writer'[q]] /\ writer'["job"] = x /\ \A q \in Writers : q # "job" => writer'[q] = writer[q]
    BY <1>0, <1>w, <1>1, <2>0 DEF WriterTyped
  <2> QED BY <2>1, <2>2
<1>4. Stored' = Stored /\ About(op) \in Fields /\ \A f : IsLate(f)' = IsLate(f)
  BY <1>1 DEF Stored, IsLate, About, Fields
<1>5. Typed'
  <2>1. MailTyped'
    BY <1>0, <1>1 DEF MailTyped
  <2>2. WriterTyped'
    BY <1>0, <1>w, <1>2, <1>3 DEF WriterTyped
  <2>3. OtherTyped'
    BY <1>0, <1>1, <1>2 DEF OtherTyped
  <2>4. Listed'
    BY <1>0, <1>w, <1>1, <1>3 DEF Listed
  <2>n. NoticeTyped'
    BY <1>0, <1>1, <1>3, <1>4, NoticeSame
  <2> QED BY <2>1, <2>2, <2>3, <2>4, <2>n DEF Typed
<1>6. ListInv'
  <2>1. \A q \in Writers : writer[q].pc = "write" \/ writer'[q].pc = "write" => writer'[q] = writer[q]
    BY <1>1, <1>3
  <2> QED BY <1>0, <1>1, <2>1, NoCount DEF AtWork
<1>7. /\ \A f : \A q \in Writers : q # "job" => Speaks(f, q)' = Speaks(f, q)
      /\ \A f : ~ Speaks(f, "job") /\ (Speaks(f, "job")' <=> f = About(op))
  BY <1>1, <1>3 DEF Speaks
<1>8. ASSUME NEW f \in Fields, f # About(op)
      PROVE  (\A q \in Writers : Speaks(f, q)' <=> Speaks(f, q)) /\ (Open(f)' <=> Open(f))
  <2>1. \A q \in Writers : Speaks(f, q)' <=> Speaks(f, q)
    BY <1>7, <1>8
  <2> QED BY <1>w, <1>2, <1>3, <1>4, <1>7, <1>8, <2>1 DEF Open
<1>9. ASSUME NEW f \in Fields, f # About(op), f \notin hist'.unsure PROVE WordOf(f)'
  <2>1. WordOf(f) /\ hist'.word[f] = hist.word[f] /\ late' = late /\ msg' = msg
    BY <1>0, <1>1, <1>9 DEF WordInv
  <2>2. ~ Speaks(f, "job") /\ \A q \in Writers : Speaks(f, q) => writer'[q].op = writer[q].op
    BY <1>3, <1>7
  <2>3. InQueue(f)' <=> InQueue(f)
    BY <1>2, <1>9
  <2>4. \A o : Youngest(f, o) => Youngest(f, o)'
    BY <1>2
  <2> QED BY <1>4, <1>8, <1>9, <2>1, <2>2, <2>3, <2>4, WordSame
<1>10. ASSUME About(op) \notin hist'.unsure PROVE WordOf(About(op))'
  <2>0. PICK f, o : f = About(op) /\ o = hist.word[f].op
    OBVIOUS
  <2>1. WordOf(f) /\ InQueue(f) /\ hist' = hist /\ late' = late
    BY <1>0, <1>1, <1>2, <1>4, <1>10, <2>0 DEF WordInv
  <2>2. ~ IsLate(f) /\ ~ IsLate(f)' /\ Speaks(f, "job")' /\ Pend(f)'
    BY <1>4, <1>7, <1>w, <2>0, <2>1 DEF WordOf, Pend
  <2>3. ~ (Speaks(f, "web")' /\ Speaks(f, "rule")')
    BY <1>w, <1>7, <2>1 DEF WordOf
  <2>4. \A q \in {"web", "rule"} : Speaks(f, q)' => writer'[q].op = hist'.word[f].op /\ ~ IsLate(f)'
    BY <1>w, <1>3, <1>7, <2>1, <2>2 DEF WordOf
  <2>5. ASSUME ~ Speaks(f, "web")', ~ Speaks(f, "rule")'
        PROVE  /\ Youngest(f, o)'
               /\ ~ InQueue(f)' => writer'["job"].op = hist'.word[f].op
    <3>1. Youngest(f, o)
      BY <1>w, <1>7, <2>0, <2>1, <2>5 DEF WordOf
    <3> QED BY <1>2, <1>3, <2>0, <2>1, <3>1
  <2>6. Youngest(f, hist.word[f].op)' <=> Youngest(f, o)'
    BY <2>0, <2>1 DEF Youngest
  <2>7. WordOf(f)'
    BY <1>3, <2>2, <2>3, <2>4, <2>5, <2>6 DEF WordOf
  <2> QED BY <2>0, <2>7
<1>11. WordInv'
  BY <1>0, <1>1, <1>4, <1>9, <1>10 DEF WordInv
<1>12. ServerInv'
  <2>1. LockedIn' /\ JobDone'
    BY <1>0, <1>w, <1>1, <1>3, <1>4 DEF ServerInv, LockedIn, JobDone
  <2>2. Open(About(op))'
    BY <1>w, <1>3, <1>7 DEF Open
  <2>0. \A m, f : Agree(m, f) => Agree(m, f)'
    BY <1>1, <1>3, AgreeAll
  <2>3. Follows'
    BY <1>0, <1>1, <1>4, <1>8, <2>0, <2>2, FollowsKept DEF ServerInv
  <2> QED BY <2>1, <2>3 DEF ServerInv
<1> QED BY <1>5, <1>6, <1>11, <1>12 DEF FlagsInv

\* The job sets the flag on the server.
LEMMA JobStoreKeeps == ASSUME FlagsInv, JobStore PROVE FlagsInv'
<1>0. Typed /\ ListInv /\ WordInv /\ ServerInv /\ MailTyped /\ WriterTyped /\ NoticeTyped /\ OtherTyped /\ Listed
  BY DEF FlagsInv, Typed
<1>w. "web" \in Writers /\ "job" \in Writers /\ "rule" \in Writers
  BY Apart
<1>p. PICK op, rs : op = writer["job"].op /\ rs = writer["job"].rows
  OBVIOUS
<1>1. /\ writer["job"].pc = "store" /\ Goto("job", "begin")
      /\ srv' = [m \in Mids |-> IF m \in rs THEN Marked(op, srv[m]) ELSE srv[m]]
      /\ UNCHANGED <<msg, list, intake, cq, common, fq, late, hist>>
  BY <1>p DEF JobStore, rules
<1>n. inbox \subseteq inbox' /\ \A n \in inbox' : n \in inbox \/ \E m \in rs : n.mail = m /\ n.row = srv'[m]
  <2>1. \/ inbox' = inbox \cup {Notice(m, srv'[m]) : m \in {n \in rs : srv'[n] # srv[n]}}
        \/ inbox' = inbox
    BY <1>p DEF JobStore, Tell
  <2>2. \A m, r : Notice(m, r).mail = m /\ Notice(m, r).row = r
    BY DEF Notice
  <2> QED BY <2>1, <2>2
<1>2. op \in Ops /\ rs \subseteq Stored /\ About(op) \in Fields
  BY <1>0, <1>p, <1>w, <1>1 DEF WriterTyped, ServerInv, JobDone, About, Fields
<1>3. /\ writer' = [q \in Writers |-> writer'[q]] /\ WriterRow(writer'["job"]) /\ writer'["job"].pc = "begin"
      /\ writer'["job"].op = op /\ writer'["job"].rows = rs /\ writer'["job"].ok = writer["job"].ok
      /\ \A q \in Writers : q # "job" => writer'[q] = writer[q]
  BY <1>0, <1>p, <1>w, <1>1, WriterGoto
<1>4. /\ Stored' = Stored /\ \A m \in Stored : m \in Mids /\ srv[m] \in Row
  BY <1>0, <1>1 DEF Stored, MailTyped
<1>5. \A m \in rs : m \in Mids /\ srv'[m] = Marked(op, srv[m]) /\ srv'[m] \in Row /\ srv'[m] # None /\ srv[m] # None
  BY <1>1, <1>2, <1>4, MarkedFacts, Apart
<1>6. \A m \in Mids : m \notin rs => srv'[m] = srv[m]
  BY <1>1
<1>7. /\ \A m \in rs : srv'[m][About(op)] = Has(op)
      /\ \A m \in Stored, f \in Fields : f # About(op) => srv'[m][f] = srv[m][f]
  BY <1>2, <1>4, <1>5, <1>6, MarkedFacts
<1>8. Typed'
  <2>1. MailTyped'
    <3>1. srv' \in [Mids -> Row \cup {None}]
      BY <1>0, <1>1, <1>5, <1>6 DEF MailTyped
    <3>2. \A m \in Mids : srv'[m] = None <=> srv[m] = None
      BY <1>5, <1>6
    <3> QED BY <1>0, <1>1, <3>1, <3>2 DEF MailTyped
  <2>2. WriterTyped'
    BY <1>0, <1>w, <1>2, <1>3 DEF WriterTyped
  <2>3. OtherTyped'
    BY <1>0, <1>1 DEF OtherTyped
  <2>4. Listed'
    BY <1>0, <1>w, <1>1, <1>3 DEF Listed
  <2>n. NoticeTyped'
    BY <1>0, <1>2, <1>3, <1>4, <1>5, <1>n DEF NoticeTyped
  <2> QED BY <2>1, <2>2, <2>3, <2>4, <2>n DEF Typed
<1>9. ListInv'
  <2>1. \A q \in Writers : writer[q].pc = "write" \/ writer'[q].pc = "write" => writer'[q] = writer[q]
    BY <1>1, <1>3
  <2> QED BY <1>0, <1>1, <2>1, NoCount DEF AtWork
<1>10. /\ \A f : /\ InQueue(f)' = InQueue(f) /\ IsLate(f)' = IsLate(f)
                 /\ \A o : Youngest(f, o)' = Youngest(f, o)
                 /\ \A q \in Writers : Speaks(f, q)' <=> Speaks(f, q)
       /\ \A q \in Writers : writer'[q].op = writer[q].op
  BY <1>p, <1>w, <1>1, <1>3 DEF InQueue, IsLate, Speaks, Youngest
<1>11. (\A f : Open(f)' <=> Open(f)) /\ Open(About(op))
  <2>1. Speaks(About(op), "job")
    BY <1>p, <1>1 DEF Speaks
  <2> QED BY <1>w, <1>1, <1>3, <1>10, <2>1 DEF Open
<1>12. WordInv'
  <2>1. ASSUME NEW f \in Fields, f \notin hist'.unsure PROVE WordOf(f)'
    <3>1. WordOf(f) /\ hist'.word[f] = hist.word[f] /\ late' = late /\ msg' = msg /\ writer'["job"].pc = "begin"
      BY <1>0, <1>1, <1>3, <2>1 DEF WordInv
    <3> QED BY <1>10, <3>1, WordSame
  <2> QED BY <1>0, <1>1, <1>4, <2>1 DEF WordInv
<1>13. ServerInv'
  <2>1. LockedIn'
    BY <1>0, <1>w, <1>3, <1>4 DEF ServerInv, LockedIn
  <2>2. JobDone'
    BY <1>2, <1>3, <1>4, <1>7 DEF JobDone
  <2>3. Follows'
    <3>1. \A f \in Fields, m \in Stored : f # About(op) => (Agree(m, f) => Agree(m, f)')
      BY <1>1, <1>3, <1>7, <1>n, AgreeSame
    <3> QED BY <1>0, <1>1, <1>4, <1>11, <3>1, FollowsKept DEF ServerInv
  <2> QED BY <2>1, <2>2, <2>3 DEF ServerInv
<1> QED BY <1>8, <1>9, <1>12, <1>13 DEF FlagsInv

\* A job is given up before its transaction, and known to be.
LEMMA GivenUp ==
    ASSUME FlagsInv, writer["job"].pc \in {"store", "begin"}, End("job"), NEW f0, f0 = About(writer["job"].op),
           UNCHANGED <<msg, srv, list, intake, cq, common, fq, late, inbox>>,
           HistRow(hist'), hist'.word = hist.word, hist'.dirty = hist.dirty, hist'.raced = hist.raced,
           hist'.unsure = hist.unsure \cup {f0}, hist'.apart = hist.apart \cup {f0}
    PROVE  FlagsInv'
<1>0. Typed /\ ListInv /\ WordInv /\ ServerInv /\ MailTyped /\ WriterTyped /\ NoticeTyped /\ OtherTyped /\ Listed
  BY DEF FlagsInv, Typed
<1>w. "web" \in Writers /\ "job" \in Writers /\ "rule" \in Writers
  BY Apart
<1>3. /\ WriterTyped' /\ writer'["job"] = NoWriter /\ \A q \in Writers : q # "job" => writer'[q] = writer[q]
      /\ \A f : ~ Speaks(f, "job")' /\ \A q \in Writers : q # "job" => Speaks(f, q)' = Speaks(f, q)
  BY <1>0, <1>w, Ended
<1>5. /\ Stored' = Stored
      /\ \A f : IsLate(f)' = IsLate(f) /\ InQueue(f)' = InQueue(f) /\ \A o : Youngest(f, o)' = Youngest(f, o)
  BY DEF Stored, IsLate, InQueue, Youngest
<1>6. Typed'
  <2>1. MailTyped' /\ Listed'
    BY <1>0, <1>w, <1>3 DEF MailTyped, Listed
  <2>2. OtherTyped'
    BY <1>0 DEF OtherTyped
  <2>n. NoticeTyped'
    BY <1>0, <1>3, <1>5, NoticeSame
  <2> QED BY <1>3, <2>1, <2>2, <2>n DEF Typed
<1>7. ListInv'
  <2>1. \A q \in Writers : writer[q].pc = "write" \/ writer'[q].pc = "write" => writer'[q] = writer[q]
    BY <1>3, Off
  <2> QED BY <1>0, <2>1, NoCount DEF AtWork
<1>8. ASSUME NEW f \in Fields, f # f0
      PROVE  (\A q \in Writers : Speaks(f, q)' <=> Speaks(f, q)) /\ (Open(f)' <=> Open(f)) /\ ~ Speaks(f, "job")
  <2>1. ~ Speaks(f, "job")
    BY <1>8 DEF Speaks
  <2>2. \A q \in Writers : Speaks(f, q)' <=> Speaks(f, q)
    BY <1>3, <2>1
  <2> QED BY <1>w, <1>5, <2>1, <2>2 DEF Open
<1>9. ASSUME NEW f \in Fields, f \notin hist'.unsure PROVE WordOf(f)'
  <2>1. f # f0 /\ WordOf(f) /\ hist'.word[f] = hist.word[f] /\ late' = late /\ msg' = msg
    BY <1>0, <1>9 DEF WordInv
  <2>2. \A q \in Writers : Speaks(f, q) => writer'[q].op = writer[q].op
    BY <1>w, <1>3, <1>8, <2>1
  <2> QED BY <1>5, <1>8, <2>1, <2>2, WordSame
<1>10. WordInv'
  BY <1>0, <1>5, <1>9 DEF WordInv
<1>11. ServerInv'
  <2>1. LockedIn' /\ JobDone'
    BY <1>0, <1>w, <1>3, <1>5, Off DEF ServerInv, LockedIn, JobDone
  <2>0. \A m, f : Agree(m, f) => Agree(m, f)'
    BY <1>3, AgreeAll
  <2>2. Follows'
    BY <1>0, <1>5, <1>8, <2>0, FollowsKept DEF ServerInv
  <2> QED BY <2>1, <2>2 DEF ServerInv
<1> QED BY <1>6, <1>7, <1>10, <1>11 DEF FlagsInv

\* The server refuses, or cannot be reached.
LEMMA JobRefusedKeeps == ASSUME FlagsInv, JobRefused PROVE FlagsInv'
<1>0. Typed /\ ListInv /\ WordInv /\ ServerInv /\ MailTyped /\ WriterTyped /\ NoticeTyped /\ OtherTyped /\ Listed
  BY DEF FlagsInv, Typed
<1>w. "web" \in Writers /\ "job" \in Writers /\ "rule" \in Writers
  BY Apart
<1>p. PICK f0 : f0 = About(writer["job"].op)
  OBVIOUS
<1>1. writer["job"].pc = "store" /\ UNCHANGED <<msg, srv, list, intake, cq, common, fq, late, inbox>>
  BY DEF JobRefused, rules
<1>2. CASE End("job") /\ hist' = [hist EXCEPT !.apart = @ \cup {f0}, !.unsure = @ \cup {f0}]
  <2>1. /\ HistRow(hist') /\ hist'.word = hist.word /\ hist'.dirty = hist.dirty /\ hist'.raced = hist.raced
        /\ hist'.unsure = hist.unsure \cup {f0} /\ hist'.apart = hist.apart \cup {f0}
    BY <1>0, <1>2 DEF OtherTyped, HistRow
  <2> QED BY <1>p, <1>1, <1>2, <2>1, GivenUp
<1>3. CASE /\ writer' = [writer EXCEPT !["job"].pc = "begin", !["job"].ok = FALSE]
           /\ hist' = [hist EXCEPT !.apart = @ \cup {f0}]
  <2>1. /\ HistRow(hist') /\ hist'.word = hist.word /\ hist'.dirty = hist.dirty /\ hist'.raced = hist.raced
        /\ hist'.unsure = hist.unsure /\ hist'.apart = hist.apart \cup {f0}
    BY <1>0, <1>3 DEF OtherTyped, HistRow
  <2>2. /\ writer' = [q \in Writers |-> writer'[q]] /\ \A q \in Writers : q # "job" => writer'[q] = writer[q]
        /\ WriterRow(writer'["job"]) /\ writer'["job"].pc = "begin" /\ writer'["job"].ok = FALSE
        /\ writer'["job"].op = writer["job"].op /\ writer'["job"].rows = writer["job"].rows
    BY <1>0, <1>w, <1>3 DEF WriterTyped, WriterRow
  <2>3. Typed'
    <3>n. NoticeTyped'
      BY <1>0, <1>1, <2>2, NoticeSame DEF Stored
    <3>1. MailTyped' /\ Listed'
      BY <1>0, <1>w, <1>1, <2>2 DEF MailTyped, Listed
    <3>2. WriterTyped'
      BY <1>0, <1>w, <1>1, <2>2 DEF WriterTyped
    <3>3. OtherTyped'
      BY <1>0, <1>1, <2>1 DEF OtherTyped
    <3> QED BY <3>1, <3>2, <3>3, <3>n DEF Typed
  <2>4. ListInv'
    <3>1. \A q \in Writers : writer[q].pc = "write" \/ writer'[q].pc = "write" => writer'[q] = writer[q]
      BY <1>1, <2>2
    <3> QED BY <1>0, <1>1, <2>1, <3>1, NoCount DEF AtWork
  <2>5. /\ \A f : /\ InQueue(f)' = InQueue(f) /\ IsLate(f)' = IsLate(f)
                  /\ \A o : Youngest(f, o)' = Youngest(f, o)
                  /\ \A q \in Writers : Speaks(f, q)' <=> Speaks(f, q)
        /\ (\A q \in Writers : writer'[q].op = writer[q].op) /\ Stored' = Stored
    BY <1>w, <1>1, <2>2 DEF InQueue, IsLate, Speaks, Youngest, Stored
  <2>6. (\A f : Open(f)' <=> Open(f)) /\ \A m, f : Agree(m, f) => Agree(m, f)'
    <3>1. \A m, f : Agree(m, f) => Agree(m, f)'
      BY <1>1, <2>2, AgreeAll
    <3> QED BY <1>w, <1>1, <2>2, <2>5, <3>1 DEF Open
  <2>7. WordInv'
    <3>1. ASSUME NEW f \in Fields, f \notin hist'.unsure PROVE WordOf(f)'
      <4>1. WordOf(f) /\ hist'.word[f] = hist.word[f] /\ late' = late /\ msg' = msg /\ writer'["job"].pc = "begin"
        BY <1>0, <1>1, <2>1, <2>2, <3>1 DEF WordInv
      <4> QED BY <2>5, <4>1, WordSame
    <3> QED BY <1>0, <2>1, <2>5, <3>1 DEF WordInv
  <2>8. ServerInv'
    <3>1. LockedIn' /\ JobDone'
      BY <1>0, <1>w, <1>1, <2>2, <2>5 DEF ServerInv, LockedIn, JobDone
    <3>2. Follows'
      BY <1>0, <2>1, <2>5, <2>6, FollowsKept DEF ServerInv
    <3> QED BY <3>1, <3>2 DEF ServerInv
  <2> QED BY <2>3, <2>4, <2>7, <2>8 DEF FlagsInv
<1> QED BY <1>p, <1>2, <1>3 DEF JobRefused

\* A job that has committed is over.
LEMMA JobOver ==
    ASSUME FlagsInv, writer["job"].pc = "index", End("job"),
           UNCHANGED <<msg, srv, list, intake, cq, common, fq, late, hist, inbox>>
    PROVE  FlagsInv'
<1>0. Typed /\ ListInv /\ WordInv /\ ServerInv /\ MailTyped /\ WriterTyped /\ NoticeTyped /\ OtherTyped /\ Listed
  BY DEF FlagsInv, Typed
<1>w. "web" \in Writers /\ "job" \in Writers /\ "rule" \in Writers
  BY Apart
<1>3. /\ WriterTyped' /\ writer'["job"] = NoWriter /\ \A q \in Writers : q # "job" => writer'[q] = writer[q]
      /\ \A f : ~ Speaks(f, "job")' /\ \A q \in Writers : q # "job" => Speaks(f, q)' = Speaks(f, q)
  BY <1>0, <1>w, Ended
<1>5. /\ Stored' = Stored
      /\ \A f : IsLate(f)' = IsLate(f) /\ InQueue(f)' = InQueue(f) /\ \A o : Youngest(f, o)' = Youngest(f, o)
  BY DEF Stored, IsLate, InQueue, Youngest
<1>6. Typed'
  <2>1. MailTyped' /\ Listed'
    BY <1>0, <1>w, <1>3 DEF MailTyped, Listed
  <2>2. OtherTyped'
    BY <1>0 DEF OtherTyped
  <2>n. NoticeTyped'
    BY <1>0, <1>3, <1>5, NoticeSame
  <2> QED BY <1>3, <2>1, <2>2, <2>n DEF Typed
<1>7. ListInv'
  <2>1. \A q \in Writers : writer[q].pc = "write" \/ writer'[q].pc = "write" => writer'[q] = writer[q]
    BY <1>3, Off
  <2> QED BY <1>0, <2>1, NoCount DEF AtWork
<1>8. ASSUME NEW f \in Fields, f \notin hist'.unsure PROVE WordOf(f)'
  <2>1. WordOf(f) /\ hist' = hist /\ msg' = msg /\ late' = late
    BY <1>0, <1>8 DEF WordInv
  <2>2. CASE ~ Speaks(f, "job")
    <3>1. \A q \in Commanders : (Speaks(f, q)' <=> Speaks(f, q)) /\ (Speaks(f, q) => writer'[q].op = writer[q].op)
      BY <1>3, <2>2
    <3> QED BY <1>5, <2>1, <2>2, <3>1, WordSame
  <2>3. CASE Speaks(f, "job")
    <3>1. ~ IsLate(f)'
      BY <1>5, <2>1, <2>3 DEF WordOf
    <3>2. ~ (Speaks(f, "web")' /\ Speaks(f, "rule")')
      BY <1>w, <1>3, <2>1 DEF WordOf
    <3>3. \A q \in {"web", "rule"} : Speaks(f, q)' => writer'[q].op = hist'.word[f].op /\ ~ IsLate(f)'
      BY <1>w, <1>3, <2>1, <3>1 DEF WordOf
    <3>4. PICK o : o = hist.word[f].op
      OBVIOUS
    <3>5. ASSUME ~ Speaks(f, "web")', ~ Speaks(f, "rule")' PROVE Youngest(f, hist.word[f].op)'
      <4>1. Youngest(f, o)'
        BY <1>w, <1>3, <1>5, <2>1, <3>4, <3>5 DEF WordOf
      <4> QED BY <2>1, <3>4, <4>1 DEF Youngest
    <3>6. ~ Pend(f)' => Obeyed(f)'
      <4>1. ~ Pend(f)' => ~ Speaks(f, "web") /\ ~ Speaks(f, "rule") /\ ~ InQueue(f)
        BY <1>w, <1>3, <1>5 DEF Pend
      <4> QED BY <2>1, <2>3, <4>1 DEF WordOf, Obeyed
    <3>7. ~ Speaks(f, "job")'
      BY <1>3
    <3> QED BY <3>1, <3>2, <3>3, <3>5, <3>6, <3>7 DEF WordOf
  <2> QED BY <2>2, <2>3
<1>9. WordInv'
  BY <1>0, <1>5, <1>8 DEF WordInv
<1>10. ServerInv'
  <2>1. LockedIn' /\ JobDone'
    BY <1>0, <1>w, <1>3, <1>5, Off DEF ServerInv, LockedIn, JobDone
  <2>2. \A m, f : Agree(m, f) => Agree(m, f)'
    BY <1>3, AgreeAll
  <2>3. \A f : Open(f)' <=> Open(f)
    BY <1>w, <1>3, <1>5 DEF Open
  <2>4. Follows'
    BY <1>0, <1>5, <2>2, <2>3, FollowsKept DEF ServerInv
  <2> QED BY <2>1, <2>4 DEF ServerInv
<1> QED BY <1>6, <1>7, <1>9, <1>10 DEF FlagsInv

\* The index is told, and the job completes.
LEMMA JobEndsKeeps == ASSUME FlagsInv, JobEnds PROVE FlagsInv'
<1>1. writer["job"].pc = "index" /\ End("job") /\ UNCHANGED <<msg, srv, list, intake, cq, common, fq, late, hist, inbox>>
  BY DEF JobEnds, rules
<1> QED BY <1>1, JobOver

\* The transaction fails.  A job that is to be tried again is still the last
\* word if nothing on its flag is under way.
LEMMA JobFailsKeeps == ASSUME FlagsInv, JobFails PROVE FlagsInv'
<1>0. Typed /\ ListInv /\ WordInv /\ ServerInv /\ MailTyped /\ WriterTyped /\ NoticeTyped /\ OtherTyped /\ Listed
  BY DEF FlagsInv, Typed
<1>w. "web" \in Writers /\ "job" \in Writers /\ "rule" \in Writers
  BY Apart
<1>p. PICK op, f0 : op = writer["job"].op /\ f0 = About(op)
  OBVIOUS
<1>1. writer["job"].pc \in {"begin", "index"} /\ End("job") /\ UNCHANGED <<msg, srv, list, intake, cq, common, fq, inbox>>
  BY DEF JobFails, rules
<1>2. CASE writer["job"].pc = "begin" /\ hist' = [hist EXCEPT !.unsure = @ \cup {f0}, !.apart = @ \cup {f0}] /\ late' = late
  <2>1. /\ HistRow(hist') /\ hist'.word = hist.word /\ hist'.dirty = hist.dirty /\ hist'.raced = hist.raced
        /\ hist'.unsure = hist.unsure \cup {f0} /\ hist'.apart = hist.apart \cup {f0}
    BY <1>0, <1>2 DEF OtherTyped, HistRow
  <2> QED BY <1>p, <1>1, <1>2, <2>1, GivenUp
<1>3. CASE /\ late' = late \cup {op}
           /\ hist' = [hist EXCEPT !.unsure = @ \cup Overtakable(op)]
  <2>1. /\ HistRow(hist') /\ hist'.word = hist.word /\ hist'.dirty = hist.dirty /\ hist'.raced = hist.raced
        /\ hist'.apart = hist.apart
        /\ hist'.unsure = IF Rivals(op, "job") \/ InQueue(f0) THEN hist.unsure \cup {f0} ELSE hist.unsure
    BY <1>0, <1>p, <1>3 DEF OtherTyped, HistRow, InQueue, Overtakable
  <2>2. /\ WriterTyped' /\ writer'["job"] = NoWriter /\ \A q \in Writers : q # "job" => writer'[q] = writer[q]
        /\ \A f : ~ Speaks(f, "job")' /\ \A q \in Writers : q # "job" => Speaks(f, q)' = Speaks(f, q)
    BY <1>0, <1>w, <1>1, Ended
  <2>3. op \in Ops /\ f0 \in Fields /\ Speaks(f0, "job") /\ \A f : Speaks(f, "job") => f = f0
    BY <1>0, <1>p, <1>w, <1>1 DEF WriterTyped, Speaks, About, Fields
  <2>4. /\ Stored' = Stored /\ IsLate(f0)'
        /\ \A f : InQueue(f)' = InQueue(f) /\ \A o : Youngest(f, o)' = Youngest(f, o)
        /\ \A f : f # f0 => (IsLate(f)' <=> IsLate(f)) /\ \A l \in late' : About(l) = f => l \in late
    BY <1>p, <1>1, <1>3 DEF Stored, IsLate, InQueue, Youngest
  <2>5. Typed'
    <3>1. MailTyped' /\ Listed'
      BY <1>0, <1>w, <1>1, <2>2 DEF MailTyped, Listed
    <3>2. OtherTyped'
      BY <1>0, <1>1, <1>3, <2>1, <2>3 DEF OtherTyped
    <3>n. NoticeTyped'
      BY <1>0, <1>1, <2>2, <2>4, NoticeSame
    <3> QED BY <2>2, <3>1, <3>2, <3>n DEF Typed
  <2>6. ListInv'
    <3>1. \A q \in Writers : writer[q].pc = "write" \/ writer'[q].pc = "write" => writer'[q] = writer[q]
      BY <1>1, <2>2, Off
    <3> QED BY <1>0, <1>1, <2>1, <3>1, NoCount DEF AtWork
  <2>7. ASSUME NEW f \in Fields, f # f0
        PROVE  (\A q \in Writers : Speaks(f, q)' <=> Speaks(f, q)) /\ (Open(f)' <=> Open(f)) /\ ~ Speaks(f, "job")
    <3>1. ~ Speaks(f, "job")
      BY <2>3, <2>7
    <3>2. \A q \in Writers : Speaks(f, q)' <=> Speaks(f, q)
      BY <2>2, <3>1
    <3> QED BY <1>w, <2>2, <2>4, <2>7, <3>1, <3>2 DEF Open
  <2>8. ASSUME NEW f \in Fields, f # f0, f \notin hist'.unsure PROVE WordOf(f)'
    <3>1. WordOf(f) /\ hist'.word[f] = hist.word[f] /\ msg' = msg
      BY <1>0, <1>1, <2>1, <2>8 DEF WordInv
    <3>2. \A q \in Writers : Speaks(f, q) => writer'[q].op = writer[q].op
      BY <1>w, <2>2, <2>7, <2>8
    <3> QED BY <2>4, <2>7, <2>8, <3>1, <3>2, WordSame
  <2>9. ASSUME f0 \notin hist'.unsure PROVE WordOf(f0)'
    <3>1. WordOf(f0) /\ ~ Rivals(op, "job") /\ ~ InQueue(f0)
      BY <1>0, <2>1, <2>3, <2>9 DEF WordInv
    <3>2. ~ Speaks(f0, "web") /\ ~ Speaks(f0, "rule") /\ ~ IsLate(f0)
      BY <1>p, <3>1 DEF Rivals, Speaks, IsLate
    <3>3. op = hist.word[f0].op
      BY <1>p, <2>3, <3>1, <3>2 DEF WordOf
    <3>4. ~ Speaks(f0, "web")' /\ ~ Speaks(f0, "rule")' /\ ~ Speaks(f0, "job")' /\ ~ InQueue(f0)'
      BY <1>w, <2>2, <2>4, <3>1, <3>2
    <3>5. \A l \in late' : About(l) = f0 => l = hist'.word[f0].op
      BY <1>3, <2>1, <3>2, <3>3 DEF IsLate
    <3>6. Pend(f0)'
      BY <2>4 DEF Pend
    <3>7. Youngest(f0, hist.word[f0].op)'
      BY <3>4 DEF Youngest, InQueue
    <3> QED BY <3>4, <3>5, <3>6, <3>7 DEF WordOf
  <2>10. WordInv'
    BY <1>0, <2>1, <2>4, <2>8, <2>9 DEF WordInv
  <2>11. ServerInv'
    <3>1. LockedIn' /\ JobDone'
      BY <1>0, <1>w, <1>1, <2>2, <2>4, Off DEF ServerInv, LockedIn, JobDone
    <3>2. Open(f0)'
      BY <2>4 DEF Open
    <3>4. \A m, f : Agree(m, f) => Agree(m, f)'
      BY <1>1, <2>2, AgreeAll
    <3>3. Follows'
      BY <1>0, <2>1, <2>4, <2>7, <3>2, <3>4, FollowsKept DEF ServerInv
    <3> QED BY <3>1, <3>3 DEF ServerInv
  <2> QED BY <2>5, <2>6, <2>10, <2>11 DEF FlagsInv
<1>4. CASE writer["job"].pc = "index" /\ hist' = hist /\ late' = late
  BY <1>1, <1>4, JobOver
<1> QED BY <1>p, <1>1, <1>2, <1>3, <1>4 DEF JobFails

\* A job waiting for its next attempt is queued again.
LEMMA PromoteKeeps == ASSUME FlagsInv, Promote PROVE FlagsInv'
<1>0. Typed /\ ListInv /\ WordInv /\ ServerInv /\ MailTyped /\ WriterTyped /\ NoticeTyped /\ OtherTyped /\ Listed
  BY DEF FlagsInv, Typed
<1>w. "web" \in Writers /\ "job" \in Writers /\ "rule" \in Writers
  BY Apart
<1>p. PICK op \in late : /\ late' = late \ {op} /\ (fq' = Append(fq, op) \/ fq' = <<op>> \o fq)
                         /\ UNCHANGED <<msg, srv, list, intake, rules, writer, hist, inbox>>
  BY DEF Promote
<1>1. UNCHANGED <<msg, srv, list, intake, cq, common, writer, hist, inbox>>
  BY <1>p DEF rules
<1>2. op \in Ops /\ About(op) \in Fields /\ IsLate(About(op)) /\ fq \in Seq(Ops)
  BY <1>0, <1>p DEF OtherTyped, IsLate, About, Fields
<1>3. /\ fq' \in Seq(Ops) /\ InQueue(About(op))' /\ (~ InQueue(About(op)) => Youngest(About(op), op)')
      /\ \A g : g # About(op) => (InQueue(g)' <=> InQueue(g)) /\ \A o : Youngest(g, o) => Youngest(g, o)'
  <2>1. CASE fq' = Append(fq, op)
    BY <1>2, <2>1, QueueAppend
  <2>2. CASE fq' = <<op>> \o fq
    <3>1. /\ fq' \in Seq(Ops) /\ \A f : InQueue(f)' <=> InQueue(f) \/ About(op) = f
          /\ \A f, o : Youngest(f, o) /\ (About(op) = f /\ ~ InQueue(f) => op = o) => Youngest(f, o)'
      BY <1>2, <2>2, QueueCons
    <3>2. ~ InQueue(About(op)) => Youngest(About(op), op)
      BY DEF InQueue, Youngest
    <3>3. ~ InQueue(About(op)) => Youngest(About(op), op)'
      BY <3>1, <3>2
    <3> QED BY <3>1, <3>3
  <2> QED BY <1>p, <2>1, <2>2
<1>4. /\ Stored' = Stored /\ \A f : \A q : Speaks(f, q)' = Speaks(f, q)
      /\ \A f : f # About(op) => (IsLate(f)' <=> IsLate(f))
  BY <1>p, <1>1 DEF Stored, Speaks, IsLate
<1>5. Typed'
  <2>n. NoticeTyped'
    BY <1>0, <1>1, <1>4, NoticeSame
  <2> QED BY <1>0, <1>p, <1>1, <1>3, <2>n DEF Typed, MailTyped, WriterTyped, OtherTyped, Listed
<1>6. ListInv'
  BY <1>0, <1>1, NoCount DEF AtWork
<1>7. \A f \in Fields : f # About(op) => (Open(f)' <=> Open(f))
  BY <1>1, <1>3, <1>4 DEF Open
<1>8. ASSUME NEW f \in Fields, f # About(op), f \notin hist'.unsure PROVE WordOf(f)'
  <2>1. WordOf(f) /\ hist' = hist /\ writer' = writer /\ msg' = msg /\ late' \subseteq late
    BY <1>0, <1>p, <1>1, <1>8 DEF WordInv
  <2> QED BY <1>3, <1>4, <1>8, <2>1, WordSame
<1>9. ASSUME About(op) \notin hist'.unsure PROVE WordOf(About(op))'
  <2>0. PICK f : f = About(op)
    OBVIOUS
  <2>1. WordOf(f) /\ IsLate(f) /\ hist' = hist
    BY <1>0, <1>1, <1>2, <1>9, <2>0 DEF WordInv
  <2>2. op = hist.word[f].op /\ ~ Speaks(f, "web") /\ ~ Speaks(f, "rule") /\ ~ InQueue(f)
    BY <2>0, <2>1 DEF WordOf
  <2>3. ~ IsLate(f)'
    <3>1. \A l \in late : About(l) = f => l = op
      BY <2>1, <2>2 DEF WordOf
    <3> QED BY <1>p, <3>1 DEF IsLate
  <2>4. ~ Speaks(f, "web")' /\ ~ Speaks(f, "rule")'
    BY <1>4, <2>2
  <2>5. InQueue(f)' /\ Pend(f)' /\ Youngest(f, op)'
    BY <1>3, <2>0, <2>2 DEF Pend
  <2>6. Youngest(f, hist.word[f].op)'
    BY <2>1, <2>2, <2>5 DEF Youngest
  <2>7. WordOf(f)'
    BY <2>3, <2>4, <2>5, <2>6 DEF WordOf
  <2> QED BY <2>0, <2>7
<1>10. WordInv'
  BY <1>0, <1>1, <1>4, <1>8, <1>9 DEF WordInv
<1>11. ServerInv'
  <2>0. \A m, f : Agree(m, f) => Agree(m, f)'
    BY <1>1, AgreeAll
  <2>1. LockedIn' /\ JobDone'
    BY <1>0, <1>1, <1>4, <2>0, JobKept DEF ServerInv, LockedIn
  <2>2. Open(About(op))'
    BY <1>3 DEF Open
  <2>3. Follows'
    BY <1>0, <1>1, <1>4, <1>7, <2>0, <2>2, FollowsKept DEF ServerInv
  <2> QED BY <2>1, <2>3 DEF ServerInv
<1> QED BY <1>5, <1>6, <1>10, <1>11 DEF FlagsInv

\* The job's transaction locks all rows there are.
LEMMA JobBeginKeeps == ASSUME FlagsInv, JobBegin PROVE FlagsInv'
<1>0. Typed /\ ListInv /\ WordInv /\ ServerInv /\ MailTyped /\ WriterTyped /\ NoticeTyped /\ OtherTyped /\ Listed
  BY DEF FlagsInv, Typed
<1>w. "web" \in Writers /\ "job" \in Writers /\ "rule" \in Writers
  BY Apart
<1>p. PICK op : op = writer["job"].op
  OBVIOUS
<1>1. /\ writer["job"].pc = "begin" /\ Begin("job", op)
      /\ UNCHANGED <<msg, srv, list, intake, cq, common, fq, late, hist, inbox>>
  BY <1>p DEF JobBegin, rules
<1>2. op \in Ops /\ writer["web"].pc # "write"
  BY <1>0, <1>p, <1>w, <1>1 DEF WriterTyped, Begin, RowsFree
<1>3. /\ writer' = [q \in Writers |-> writer'[q]] /\ \A q \in Writers : q # "job" => writer'[q] = writer[q]
      /\ WriterRow(writer'["job"]) /\ writer'["job"].op = op /\ writer'["job"].pc = "write" /\ writer'["job"].locked = Stored
      /\ writer'["job"].rows = writer["job"].rows /\ writer'["job"].ok = writer["job"].ok
      /\ writer'["job"].unread = Unread(With(op, Stored)) /\ writer'["job"].star = Starred(With(op, Stored))
  <2> DEFINE x == [pc |-> "write", op |-> op, row |-> None, rows |-> writer["job"].rows, ok |-> writer["job"].ok, locked |-> Stored,
                   unread |-> Unread(With(op, Stored)), star |-> Starred(With(op, Stored))]
  <2>1. writer' = [writer EXCEPT !["job"] = x]
    BY <1>1 DEF Begin
  <2>2. WriterRow(x)
    BY Counts DEF WriterRow
  <2>3. writer' = [q \in Writers |-> writer'[q]] /\ writer'["job"] = x /\ \A q \in Writers : q # "job" => writer'[q] = writer[q]
    BY <1>0, <1>w, <2>1 DEF WriterTyped
  <2> QED BY <2>2, <2>3
<1>4. Stored' = Stored
  BY <1>1 DEF Stored
<1>5. Typed'
  <2>1. MailTyped' /\ OtherTyped'
    BY <1>0, <1>1 DEF MailTyped, OtherTyped
  <2>2. WriterTyped'
    BY <1>0, <1>w, <1>2, <1>3 DEF WriterTyped
  <2>3. Listed'
    BY <1>0, <1>w, <1>1, <1>3 DEF Listed
  <2>n. NoticeTyped'
    BY <1>0, <1>1, <1>3, <1>4, NoticeSame
  <2> QED BY <2>1, <2>2, <2>3, <2>n DEF Typed
<1>6. ListInv'
  BY <1>0, <1>1, <1>3, BeginCounts
<1>7. /\ \A f : /\ InQueue(f)' = InQueue(f) /\ IsLate(f)' = IsLate(f)
                /\ \A o : Youngest(f, o)' = Youngest(f, o)
                /\ \A q \in Writers : Speaks(f, q)' <=> Speaks(f, q)
      /\ \A q \in Writers : writer'[q].op = writer[q].op
  BY <1>p, <1>w, <1>1, <1>3 DEF InQueue, IsLate, Speaks, Youngest
<1>8. (\A f : Open(f)' <=> Open(f)) /\ \A m, f : Agree(m, f) => Agree(m, f)'
  <2>1. \A m, f : Agree(m, f) => Agree(m, f)'
    BY <1>1, <1>3, AgreeAll
  <2> QED BY <1>w, <1>1, <1>3, <1>7, <2>1 DEF Open
<1>9. WordInv'
  <2>1. ASSUME NEW f \in Fields, f \notin hist'.unsure PROVE WordOf(f)'
    <3>1. WordOf(f) /\ hist' = hist /\ late' = late /\ msg' = msg /\ writer'["job"].pc = "write" /\ hist.word[f].rows \subseteq writer'["job"].locked
      BY <1>0, <1>1, <1>3, <2>1 DEF WordInv
    <3> QED BY <1>7, <3>1, WordSame
  <2> QED BY <1>0, <1>1, <1>4, <2>1 DEF WordInv
<1>10. ServerInv'
  <2>1. LockedIn'
    BY <1>0, <1>w, <1>3, <1>4 DEF ServerInv, LockedIn
  <2>2. JobDone'
    BY <1>0, <1>p, <1>1, <1>3, <1>4, <1>8 DEF ServerInv, JobDone
  <2>3. Follows'
    BY <1>0, <1>1, <1>4, <1>8, FollowsKept DEF ServerInv
  <2> QED BY <2>1, <2>2, <2>3 DEF ServerInv
<1> QED BY <1>5, <1>6, <1>9, <1>10 DEF FlagsInv

\* The job commits: the rows have what the server was told, or it is known
\* that some do not.
LEMMA JobWriteKeeps == ASSUME FlagsInv, JobWrite PROVE FlagsInv'
<1>0. Typed /\ ListInv /\ WordInv /\ ServerInv /\ MailTyped /\ WriterTyped /\ NoticeTyped /\ OtherTyped /\ Listed
  BY DEF FlagsInv, Typed
<1>w. "web" \in Writers /\ "job" \in Writers /\ "rule" \in Writers
  BY Apart
<1>p. PICK op, lk, rs, f0 : op = writer["job"].op /\ lk = writer["job"].locked /\ rs = writer["job"].rows /\ f0 = About(op)
  OBVIOUS
<1>1. /\ writer["job"].pc = "write" /\ msg' = With(op, lk) /\ Goto("job", "index")
      /\ list' = [unread |-> writer["job"].unread, star |-> writer["job"].star]
      /\ UNCHANGED <<srv, intake, cq, common, fq, late, inbox>>
  BY <1>p DEF JobWrite, rules
<1>2. op \in Ops /\ lk \subseteq Stored /\ f0 \in Fields
  BY <1>0, <1>p, <1>w, <1>1 DEF WriterTyped, ServerInv, LockedIn, About, Fields
<1>3. /\ writer' = [q \in Writers |-> writer'[q]] /\ WriterRow(writer'["job"])
      /\ writer'["job"].pc = "index" /\ writer'["job"].op = op /\ writer'["job"].rows = rs
      /\ \A q \in Writers : q # "job" => writer'[q] = writer[q]
  BY <1>0, <1>p, <1>w, <1>1, WriterGoto
<1>4. /\ HistRow(hist') /\ hist'.word = hist.word /\ hist'.unsure = hist.unsure /\ hist'.dirty = Touched("job")
      /\ hist'.raced = IF "job" \in hist.dirty THEN {"unread", "star"} ELSE {}
      /\ hist'.apart = IF writer["job"].ok /\ lk \subseteq rs THEN hist.apart \ {f0} ELSE hist.apart \cup {f0}
  <2>1. hist' = [hist EXCEPT !.dirty = Touched("job"),
                             !.raced = IF "job" \in hist.dirty THEN {"unread", "star"} ELSE {},
                             !.apart = IF writer["job"].ok /\ lk \subseteq rs THEN @ \ {f0} ELSE @ \cup {f0}]
    BY <1>p DEF JobWrite
  <2> QED BY <1>0, <2>1 DEF OtherTyped, HistRow
<1>5. /\ list' \in [unread : Nat, star : BOOLEAN] /\ list' # None
      /\ list'.unread = writer["job"].unread /\ list'.star = writer["job"].star
  <2>1. writer["job"].unread \in Nat /\ writer["job"].star \in BOOLEAN
    BY <1>0, <1>w DEF WriterTyped, WriterRow
  <2> QED BY <1>1, <2>1, Counts
<1>6. /\ msg' \in [Mids -> Row \cup {None}] /\ Stored' = Stored /\ \A m \in Mids : msg'[m] = None <=> msg[m] = None
      /\ \A m \in lk : msg'[m][f0] = Has(op)
      /\ \A m \in Stored, f \in Fields : f # f0 \/ m \notin lk => msg'[m][f] = msg[m][f]
      /\ lk = Stored => Unread(msg)' = Unread(With(op, Stored)) /\ Starred(msg)' = Starred(With(op, Stored))
  BY <1>0, <1>p, <1>1, <1>2, WithFacts
<1>7. Typed'
  <2>1. MailTyped'
    BY <1>0, <1>1, <1>6 DEF MailTyped
  <2>4. WriterTyped'
    BY <1>0, <1>w, <1>2, <1>3 DEF WriterTyped
  <2>2. OtherTyped'
    BY <1>0, <1>1, <1>4, <1>5 DEF OtherTyped
  <2>3. Listed'
    BY <1>5 DEF Listed
  <2>n. NoticeTyped'
    BY <1>0, <1>1, <1>3, <1>6, NoticeSame
  <2> QED BY <2>1, <2>2, <2>3, <2>4, <2>n DEF Typed
<1>8. ListInv'
  <2>1. Counting' \ {"job"} = Counting \ {"job"} /\ "job" \notin Counting'
    BY <1>1, <1>3, Apart DEF Counting
  <2>2. DirtyCounts' /\ Counted'
    BY <1>0, <1>4, <2>1, Overtaken DEF ListInv
  <2>3. "job" \notin hist.dirty => list'.unread = Unread(msg)' /\ list'.star = Starred(msg)'
    BY <1>0, <1>p, <1>1, <1>5, <1>6 DEF ListInv, Counted, Clean
  <2>4. ListU'
    BY <1>4, <2>3 DEF ListU
  <2>5. ListS'
    BY <1>4, <2>3 DEF ListS
  <2> QED BY <2>2, <2>4, <2>5 DEF ListInv
<1>9. /\ \A f : /\ InQueue(f)' = InQueue(f) /\ IsLate(f)' = IsLate(f)
                /\ \A o : Youngest(f, o)' = Youngest(f, o)
                /\ \A q \in Writers : Speaks(f, q)' <=> Speaks(f, q)
      /\ (\A f : Speaks(f, "job") <=> f = f0) /\ \A q \in Writers : writer'[q].op = writer[q].op
  BY <1>p, <1>w, <1>1, <1>3 DEF InQueue, IsLate, Youngest, Speaks
<1>10. \A f : f # f0 => (Open(f)' <=> Open(f))
  BY <1>w, <1>9 DEF Open
<1>11. ASSUME NEW f \in Fields, f # f0, f \notin hist'.unsure PROVE WordOf(f)'
  <2>1. WordOf(f) /\ hist'.word[f] = hist.word[f] /\ late' = late /\ ~ Speaks(f, "job") /\ hist.word[f].rows \subseteq Stored
    BY <1>0, <1>1, <1>4, <1>9, <1>11 DEF WordInv
  <2>3. \A m \in hist.word[f].rows : msg'[m][f] = msg[m][f]
    BY <1>6, <1>11, <2>1
  <2> QED BY <1>9, <1>11, <2>1, <2>3, WordSame
<1>12. ASSUME f0 \notin hist'.unsure PROVE WordOf(f0)'
  <2>1. WordOf(f0) /\ hist'.word[f0] = hist.word[f0] /\ Speaks(f0, "job") /\ Speaks(f0, "job")' /\ late' = late
    BY <1>0, <1>w, <1>1, <1>2, <1>4, <1>9, <1>12 DEF WordInv
  <2>2. ~ IsLate(f0) /\ ~ IsLate(f0)'
    BY <1>9, <2>1 DEF WordOf
  <2>3. ~ (Speaks(f0, "web")' /\ Speaks(f0, "rule")')
    BY <1>w, <1>9, <2>1 DEF WordOf
  <2>4. \A q \in {"web", "rule"} : Speaks(f0, q)' => writer'[q].op = hist'.word[f0].op /\ ~ IsLate(f0)'
    BY <1>w, <1>9, <2>1, <2>2 DEF WordOf
  <2>5. PICK o : o = hist.word[f0].op
    OBVIOUS
  <2>6. ASSUME ~ Speaks(f0, "web")', ~ Speaks(f0, "rule")' PROVE Youngest(f0, hist.word[f0].op)'
    <3>1. Youngest(f0, o)
      BY <1>w, <1>9, <2>1, <2>5, <2>6 DEF WordOf
    <3>2. Youngest(f0, o)'
      BY <1>9, <3>1
    <3> QED BY <2>1, <2>5, <3>2 DEF Youngest
  <2>7. ASSUME ~ Speaks(f0, "web")', ~ Speaks(f0, "rule")', ~ InQueue(f0)'
        PROVE  writer'["job"].op = hist'.word[f0].op /\ Obeyed(f0)'
    <3>1. ~ Speaks(f0, "web") /\ ~ Speaks(f0, "rule") /\ ~ InQueue(f0)
      BY <1>w, <1>9, <2>7
    <3>2. op = hist.word[f0].op /\ hist.word[f0].rows \subseteq lk
      BY <1>p, <1>1, <2>1, <3>1 DEF WordOf
    <3> QED BY <1>3, <1>6, <2>1, <3>2 DEF Obeyed
  <2>8. Pend(f0)' /\ writer'["job"].pc = "index"
    BY <1>3, <2>1 DEF Pend
  <2> QED BY <2>2, <2>3, <2>4, <2>6, <2>7, <2>8 DEF WordOf
<1>13. WordInv'
  BY <1>0, <1>4, <1>6, <1>11, <1>12 DEF WordInv
<1>14. ServerInv'
  <2>1. LockedIn' /\ JobDone'
    BY <1>0, <1>p, <1>w, <1>1, <1>3, <1>6 DEF ServerInv, LockedIn, JobDone
  <2>0. \A f \in Fields, m \in Stored : f # f0 \/ m \notin lk => (Agree(m, f) => Agree(m, f)')
    BY <1>1, <1>3, <1>6, AgreeSame
  <2>2. ASSUME NEW f \in Fields, f # f0, f \notin hist'.apart, ~ Open(f)', NEW m \in Stored PROVE Agree(m, f)'
    <3>1. f \notin hist.apart /\ ~ Open(f)
      BY <1>4, <1>10, <2>2
    <3>2. Agree(m, f)
      BY <1>0, <2>2, <3>1 DEF ServerInv, Follows
    <3> QED BY <2>0, <2>2, <3>2
  <2>3. ASSUME f0 \notin hist'.apart, NEW m \in Stored PROVE Agree(m, f0)'
    <3>1. writer["job"].ok /\ lk \subseteq rs
      BY <1>4, <2>3
    <3>2. CASE m \in lk
      <4>1. srv[m][f0] = Has(op)
        BY <1>0, <1>p, <1>1, <3>1, <3>2 DEF ServerInv, JobDone
      <4> QED BY <1>1, <1>6, <3>2, <4>1 DEF Agree
    <3>3. CASE m \notin lk
      <4>1. Agree(m, About(writer["job"].op))
        BY <1>0, <1>p, <1>1, <2>3, <3>1, <3>3 DEF ServerInv, JobDone
      <4>2. Agree(m, f0)
        BY <1>p, <4>1
      <4> QED BY <1>2, <2>0, <2>3, <3>3, <4>2
    <3> QED BY <3>2, <3>3
  <2>4. Follows'
    BY <1>6, <2>2, <2>3 DEF Follows
  <2> QED BY <2>1, <2>4 DEF ServerInv
<1> QED BY <1>7, <1>8, <1>13, <1>14 DEF FlagsInv

-----------------------------------------------------------------------------
(* Notices of the IMAP server.                                              *)

\* The job's work is put in doubt, or left as it is.
LEMMA DoubtedFacts ==
    ASSUME WriterTyped, NEW fs, NEW W, W = Doubted(fs)
    PROVE  /\ W = [q \in Writers |-> W[q]] /\ \A q \in Writers : q # "job" => W[q] = writer[q]
           /\ WriterRow(W["job"]) /\ OnlyDoubted(writer["job"], W["job"])
           /\ W["job"].ok /\ writer["job"].pc \in {"begin", "write"} => About(writer["job"].op) \notin fs
<1>1. PICK b : b = (writer["job"].ok /\ ~(writer["job"].pc \in {"begin", "write"} /\ About(writer["job"].op) \in fs))
  OBVIOUS
<1>2. W = [writer EXCEPT !["job"] = [writer["job"] EXCEPT !.ok = b]]
  BY <1>1 DEF Doubted
<1>3. writer = [q \in Writers |-> writer[q]] /\ WriterRow(writer["job"])
  BY DEF WriterTyped
<1>4. W = [q \in Writers |-> W[q]] /\ W["job"] = [writer["job"] EXCEPT !.ok = b] /\ \A q \in Writers : q # "job" => W[q] = writer[q]
  BY <1>2, <1>3
<1>5. WriterRow(W["job"]) /\ W["job"].ok = b
  BY <1>3, <1>4 DEF WriterRow
<1>6. OnlyDoubted(writer["job"], W["job"])
  BY <1>1, <1>3, <1>4, <1>5 DEF WriterRow, OnlyDoubted
<1> QED BY <1>1, <1>4, <1>5, <1>6

\* The commanders have moved neither on nor back.
Steady == \A q \in Commanders : OnlyDoubted(writer[q], writer'[q])

\* Then who speaks, and what is open, is the same.
LEMMA SteadySpeaks ==
    ASSUME Steady, fq' = fq, late' = late
    PROVE  \A f : /\ InQueue(f)' = InQueue(f) /\ IsLate(f)' = IsLate(f) /\ (Open(f)' <=> Open(f)) /\ (Pend(f)' <=> Pend(f))
                  /\ \A o : Youngest(f, o)' = Youngest(f, o)
                  /\ \A q \in Commanders : Speaks(f, q)' <=> Speaks(f, q)
<1>1. \A f : /\ InQueue(f)' = InQueue(f) /\ IsLate(f)' = IsLate(f)
             /\ \A o : Youngest(f, o)' = Youngest(f, o)
  BY DEF InQueue, IsLate, Youngest
<1>2. \A f : \A q \in Commanders : Speaks(f, q)' <=> Speaks(f, q)
  BY DEF Speaks, Steady, OnlyDoubted
<1>3. writer'["job"].pc = writer["job"].pc
  BY DEF Steady, OnlyDoubted
<1>4. \A f : (Open(f)' <=> Open(f)) /\ (Pend(f)' <=> Pend(f))
  BY <1>1, <1>2, <1>3 DEF Open, Pend
<1> QED BY <1>1, <1>2, <1>4

\* The last word is kept as long as the rows that have it keep it.
LEMMA SteadyWord ==
    ASSUME WordInv, Steady, fq' = fq, late' = late, Stored' = Stored, hist'.word = hist.word, hist.unsure \subseteq hist'.unsure,
           \A f \in Fields, m \in Stored : f \notin hist'.unsure /\ m \in hist.word[f].rows =>
               msg'[m][f] = msg[m][f] \/ msg'[m][f] = Has(hist.word[f].op)
    PROVE  WordInv'
<1>1. ASSUME NEW f \in Fields, f \notin hist'.unsure PROVE WordOf(f)'
  <2>1. WordOf(f) /\ hist.word[f].rows \subseteq Stored
    BY <1>1 DEF WordInv
  <2>2. /\ InQueue(f)' = InQueue(f) /\ IsLate(f)' = IsLate(f)
        /\ \A o : Youngest(f, o)' = Youngest(f, o)
        /\ \A q \in Commanders : Speaks(f, q)' <=> Speaks(f, q)
    BY SteadySpeaks
  <2>3. \A q \in Commanders : writer'[q].op = writer[q].op /\ writer'[q].pc = writer[q].pc /\ writer'[q].locked = writer[q].locked
    BY DEF Steady, OnlyDoubted
  <2>4. (\/ ~ Pend(f)
         \/ Speaks(f, "job") /\ writer["job"].pc = "index" /\ ~ Speaks(f, "web") /\ ~ Speaks(f, "rule") /\ ~ InQueue(f)) => Obeyed(f)
    BY <2>1 DEF WordOf
  <2>5. Obeyed(f) => \A m \in hist.word[f].rows : msg'[m][f] = msg[m][f]
    BY <1>1, <2>1 DEF Obeyed
  <2> QED BY <2>1, <2>2, <2>3, <2>4, <2>5, WordSame
<1> QED BY <1>1 DEF WordInv

\* What the job has done stays done, or is in doubt.
LEMMA SteadyJob ==
    ASSUME JobDone, Steady, Stored' = Stored, NEW f, f = About(writer["job"].op),
           writer'["job"].ok /\ writer["job"].pc \in {"begin", "write"} =>
               \A m \in Stored : srv'[m][f] = srv[m][f] /\ (Agree(m, f) => Agree(m, f)')
    PROVE  JobDone'
<1>0. OnlyDoubted(writer["job"], writer'["job"])
  BY DEF Steady
<1>1. PICK op, rs, lk : f = About(op) /\ op = writer["job"].op /\ rs = writer["job"].rows /\ lk = writer["job"].locked
  OBVIOUS
<1>2. writer'["job"].op = op /\ writer'["job"].rows = rs /\ writer'["job"].locked = lk /\ writer'["job"].pc = writer["job"].pc
  BY <1>0, <1>1 DEF OnlyDoubted
<1>3. writer["job"].pc # "off" => rs \subseteq Stored
  BY <1>1 DEF JobDone
<1>4. \A m : (Agree(m, About(writer["job"].op)) <=> Agree(m, f)) /\ (Agree(m, About(writer["job"].op))' <=> Agree(m, f)')
  BY <1>1, <1>2
<1>5. writer'["job"].ok => writer["job"].ok
  BY <1>0 DEF OnlyDoubted
<1>6. writer["job"].pc \in {"begin", "write"} /\ writer'["job"].ok => \A m \in rs : srv'[m][f] = Has(op)
  BY <1>1, <1>3, <1>5 DEF JobDone
<1>7. writer["job"].pc = "write" /\ writer'["job"].ok => \A m \in Stored \ lk : Agree(m, f)'
  BY <1>1, <1>4, <1>5 DEF JobDone
<1> QED BY <1>1, <1>2, <1>3, <1>4, <1>6, <1>7 DEF JobDone


\* Another client changes flags: a notice is on its way, or it is known that none is.
LEMMA OtherClientKeeps == ASSUME FlagsInv, NEW k \in Mids, OtherClient(k) PROVE FlagsInv'
<1>0. Typed /\ ListInv /\ WordInv /\ ServerInv /\ MailTyped /\ WriterTyped /\ NoticeTyped /\ OtherTyped /\ Listed
  BY DEF FlagsInv, Typed
<1>w. "web" \in Writers /\ "job" \in Writers /\ "rule" \in Writers
  BY Apart
<1>p. PICK r \in Row :
          /\ srv' = [srv EXCEPT ![k] = r] /\ writer' = Doubted(Differs(srv, k, r))
          /\ \/ inbox' = inbox \cup {Notice(k, r)} /\ hist' = hist
             \/ hist' = Parted(Differs(srv, k, r) \cap Differs(msg, k, r)) /\ inbox' = inbox
  BY DEF OtherClient, Tell
<1>1. k \in Stored /\ UNCHANGED <<msg, list, intake, cq, common, fq, late>>
  BY DEF OtherClient, rules
<1>2. PICK fs : fs = Differs(srv, k, r)
  OBVIOUS
<1>3. /\ writer' = [q \in Writers |-> writer'[q]] /\ \A q \in Writers : q # "job" => writer'[q] = writer[q]
      /\ WriterRow(writer'["job"]) /\ OnlyDoubted(writer["job"], writer'["job"])
      /\ writer'["job"].ok /\ writer["job"].pc \in {"begin", "write"} => About(writer["job"].op) \notin fs
  BY <1>0, <1>p, <1>2, DoubtedFacts
<1>4. Steady /\ Stored' = Stored /\ \A q \in Writers : OnlyDoubted(writer[q], writer'[q])
  BY <1>1, <1>3 DEF Steady, OnlyDoubted, Stored
<1>5. srv' \in [Mids -> Row \cup {None}] /\ srv'[k] = r /\ (\A m \in Mids : m # k => srv'[m] = srv[m]) /\ r # None
  BY <1>0, <1>p DEF MailTyped
<1>6. inbox \subseteq inbox' /\ \A n \in inbox' : n \in inbox \/ (n.mail = k /\ n.row = r)
  <2>1. Notice(k, r).mail = k /\ Notice(k, r).row = r
    BY DEF Notice
  <2> QED BY <1>p, <2>1
<1>7. /\ HistRow(hist') /\ hist'.word = hist.word /\ hist'.unsure = hist.unsure /\ hist'.dirty = hist.dirty
      /\ hist'.raced = hist.raced /\ hist.apart \subseteq hist'.apart
  BY <1>0, <1>p DEF OtherTyped, HistRow, Parted
<1>8. Typed'
  <2>1. MailTyped'
    BY <1>0, <1>1, <1>5 DEF MailTyped, Stored
  <2>2. WriterTyped'
    BY <1>0, <1>w, <1>3, <1>4 DEF WriterTyped, OnlyDoubted
  <2>3. OtherTyped'
    BY <1>0, <1>1, <1>7 DEF OtherTyped
  <2>4. Listed'
    BY <1>0, <1>w, <1>1, <1>3 DEF Listed
  <2>5. NoticeTyped'
    BY <1>0, <1>p, <1>1, <1>3, <1>4, <1>6 DEF NoticeTyped
  <2> QED BY <2>1, <2>2, <2>3, <2>4, <2>5 DEF Typed
<1>9. ListInv'
  BY <1>0, <1>1, <1>3, <1>7, NoCount DEF AtWork
<1>10. WordInv'
  BY <1>0, <1>1, <1>4, <1>7, SteadyWord
<1>11. \A m \in Stored, f \in Fields : m # k \/ f \notin fs => srv'[m][f] = srv[m][f] /\ (Agree(m, f) => Agree(m, f)')
  <2>1. \A f \in Fields : f \notin fs => r[f] = srv[k][f]
    BY <1>2 DEF Differs
  <2>2. \A m \in Stored, f \in Fields : m # k \/ f \notin fs => srv'[m][f] = srv[m][f]
    BY <1>5, <2>1 DEF Stored
  <2> QED BY <1>1, <1>3, <1>6, <2>2, AgreeSame
<1>12. ASSUME NEW f \in Fields, f \notin hist'.apart PROVE Agree(k, f) => Agree(k, f)'
  <2>1. CASE inbox' = inbox \cup {Notice(k, r)}
    <3>1. PICK n : n = Notice(k, r)
      OBVIOUS
    <3>2. n \in inbox' /\ n.mail = k /\ n.row = srv'[k]
      BY <1>5, <2>1, <3>1 DEF Notice
    <3>3. Waits(k, f)'
      BY <3>2 DEF Waits
    <3> QED BY <3>3 DEF Agree
  <2>2. CASE hist' = Parted(fs \cap Differs(msg, k, r))
    <3>1. hist'.apart = hist.apart \cup (fs \cap Differs(msg, k, r))
      BY <1>0, <2>2 DEF OtherTyped, HistRow, Parted
    <3>2. CASE f \notin fs
      BY <1>1, <1>11, <3>2
    <3>3. CASE f \notin Differs(msg, k, r)
      BY <1>1, <1>5, <3>3 DEF Agree, Differs
    <3> QED BY <1>12, <3>1, <3>2, <3>3
  <2> QED BY <1>p, <1>2, <2>1, <2>2
<1>13. ServerInv'
  <2>1. LockedIn'
    BY <1>0, <1>w, <1>4 DEF ServerInv, LockedIn, OnlyDoubted
  <2>2. PICK f : f = About(writer["job"].op)
    OBVIOUS
  <2>3. f \in Fields
    BY <2>2 DEF About, Fields
  <2>4. JobDone'
    BY <1>0, <1>3, <1>4, <1>11, <2>2, <2>3, SteadyJob DEF ServerInv
  <2>5. \A g : Open(g)' <=> Open(g)
    BY <1>1, <1>4, SteadySpeaks
  <2>6. Follows'
    BY <1>0, <1>4, <1>7, <1>11, <1>12, <2>5, FollowsKept DEF ServerInv
  <2> QED BY <2>1, <2>4, <2>6 DEF ServerInv
<1> QED BY <1>8, <1>9, <1>10, <1>13 DEF FlagsInv

\* A handler takes up a notice that has something to change.
LEMMA NoticeReadKeeps == ASSUME FlagsInv, NEW h \in Handlers, NoticeRead(h) PROVE FlagsInv'
<1>0. Typed /\ ListInv /\ WordInv /\ ServerInv /\ MailTyped /\ WriterTyped /\ NoticeTyped /\ OtherTyped /\ Listed
  BY DEF FlagsInv, Typed
<1>w. "web" \in Writers /\ "job" \in Writers /\ "rule" \in Writers /\ h \in Writers
  BY Apart
<1>1. writer[h].pc = "off" /\ UNCHANGED <<msg, srv, list, intake, cq, common, fq, late, hist>>
  BY DEF NoticeRead, rules
<1>2. PICK n \in inbox :
          /\ inbox' = inbox \ {n}
          /\ writer' = IF msg[n.mail] = n.row THEN writer
                       ELSE [writer EXCEPT ![h] = [NoWriter EXCEPT !.pc = "begin", !.rows = {n.mail}, !.row = n.row]]
  BY DEF NoticeRead
<1>3. /\ writer' = [q \in Writers |-> writer'[q]] /\ (\A q \in Writers : q # h => writer'[q] = writer[q]) /\ WriterRow(writer'[h])
      /\ \/ msg[n.mail] = n.row /\ writer'[h] = writer[h]
         \/ writer'[h].pc = "begin" /\ writer'[h].rows = {n.mail} /\ writer'[h].row = n.row
  <2>1. CASE msg[n.mail] = n.row
    BY <1>0, <1>w, <1>2, <2>1 DEF WriterTyped
  <2>2. CASE msg[n.mail] # n.row
    <3>1. PICK x : x = [NoWriter EXCEPT !.pc = "begin", !.rows = {n.mail}, !.row = n.row]
      OBVIOUS
    <3>2. WriterRow(x) /\ x.pc = "begin" /\ x.rows = {n.mail} /\ x.row = n.row
      BY <3>1 DEF NoWriter, WriterRow
    <3>3. writer' = [writer EXCEPT ![h] = x]
      BY <1>2, <2>2, <3>1
    <3>4. writer' = [q \in Writers |-> writer'[q]] /\ writer'[h] = x /\ \A q \in Writers : q # h => writer'[q] = writer[q]
      BY <1>0, <1>w, <3>3 DEF WriterTyped
    <3> QED BY <3>2, <3>4
  <2> QED BY <2>1, <2>2
<1>4. Stored' = Stored /\ \A q \in Commanders : writer'[q] = writer[q]
  BY <1>1, <1>3 DEF Stored
<1>5. Typed'
  <2>1. MailTyped' /\ OtherTyped' /\ Listed'
    BY <1>0, <1>1, <1>4 DEF MailTyped, OtherTyped, Listed
  <2>2. WriterTyped'
    BY <1>0, <1>w, <1>3, <1>4 DEF WriterTyped
  <2>3. NoticeTyped'
    BY <1>0, <1>1, <1>2, <1>3, <1>4 DEF NoticeTyped
  <2> QED BY <2>1, <2>2, <2>3 DEF Typed
<1>6. ListInv'
  <2>1. \A q \in Writers : writer[q].pc = "write" \/ writer'[q].pc = "write" => writer'[q] = writer[q]
    BY <1>1, <1>3
  <2> QED BY <1>0, <1>1, <2>1, NoCount DEF AtWork
<1>7. Steady
  BY <1>4 DEF Steady, OnlyDoubted
<1>8. WordInv'
  BY <1>0, <1>1, <1>4, <1>7, SteadyWord
<1>9. ASSUME NEW m, NEW f, Agree(m, f) PROVE Agree(m, f)'
  <2>1. CASE srv[m][f] = msg[m][f]
    BY <1>1, <2>1 DEF Agree
  <2>2. CASE Waits(m, f)
    <3>1. PICK o \in inbox : o.mail = m /\ o.row[f] = srv[m][f]
      BY <2>2 DEF Waits
    <3>2. CASE o # n
      BY <1>1, <1>2, <3>1, <3>2 DEF Agree, Waits
    <3>3. CASE o = n /\ msg[n.mail] = n.row
      BY <1>1, <3>1, <3>3 DEF Agree
    <3>4. CASE o = n /\ writer'[h].pc = "begin" /\ writer'[h].rows = {n.mail} /\ writer'[h].row = n.row
      BY <1>1, <3>1, <3>4 DEF Agree, Handled
    <3> QED BY <1>3, <3>2, <3>3, <3>4
  <2>3. CASE Handled(m, f)
    BY <1>1, <1>3, <2>3 DEF Agree, Handled
  <2> QED BY <1>9, <2>1, <2>2, <2>3 DEF Agree
<1>10. ServerInv'
  <2>1. LockedIn'
    BY <1>0, <1>4 DEF ServerInv, LockedIn
  <2>2. JobDone'
    BY <1>0, <1>1, <1>4, <1>9, JobKept DEF ServerInv
  <2>3. \A g : Open(g)' <=> Open(g)
    BY <1>1, <1>7, SteadySpeaks
  <2>4. Follows'
    BY <1>0, <1>1, <1>4, <1>9, <2>3, FollowsKept DEF ServerInv
  <2> QED BY <2>1, <2>2, <2>4 DEF ServerInv
<1> QED BY <1>5, <1>6, <1>8, <1>10 DEF FlagsInv

\* A handler's transaction begins: it counts what the rows will add up to.
LEMMA NoticeBeginKeeps == ASSUME FlagsInv, NEW h \in Handlers, NoticeBegin(h) PROVE FlagsInv'
<1>0. Typed /\ ListInv /\ WordInv /\ ServerInv /\ MailTyped /\ WriterTyped /\ NoticeTyped /\ OtherTyped /\ Listed
  BY DEF FlagsInv, Typed
<1>w. "web" \in Writers /\ "job" \in Writers /\ "rule" \in Writers /\ h \in Writers
  BY Apart
<1>p. PICK w : w = writer[h]
  OBVIOUS
<1>1. w.pc = "begin" /\ UNCHANGED <<msg, srv, list, intake, cq, common, fq, late, hist, inbox>>
  BY <1>p DEF NoticeBegin, rules
<1>2. PICK x : x = [w EXCEPT !.pc = "write", !.locked = w.rows, !.unread = Unread(Noticed(w)), !.star = Starred(Noticed(w))]
  OBVIOUS
<1>3. /\ writer' = [q \in Writers |-> writer'[q]] /\ writer'[h] = x /\ \A q \in Writers : q # h => writer'[q] = writer[q]
  <2>1. writer' = [writer EXCEPT ![h] = x]
    BY <1>p, <1>2 DEF NoticeBegin
  <2> QED BY <1>0, <1>w, <2>1 DEF WriterTyped
<1>4. /\ WriterRow(x) /\ x.pc = "write" /\ x.rows = w.rows /\ x.row = w.row
      /\ x.unread = Unread(Noticed(w)) /\ x.star = Starred(Noticed(w))
  <2>1. WriterRow(w)
    BY <1>0, <1>p, <1>w DEF WriterTyped
  <2> QED BY <1>2, <2>1, Counts DEF WriterRow
<1>5. Stored' = Stored /\ \A q \in Commanders : writer'[q] = writer[q]
  BY <1>1, <1>3 DEF Stored
<1>6. Typed'
  <2>1. MailTyped' /\ OtherTyped' /\ Listed'
    BY <1>0, <1>1, <1>5 DEF MailTyped, OtherTyped, Listed
  <2>2. WriterTyped'
    BY <1>0, <1>w, <1>3, <1>4, <1>5 DEF WriterTyped
  <2>3. NoticeTyped'
    BY <1>0, <1>p, <1>1, <1>3, <1>4, <1>5 DEF NoticeTyped
  <2> QED BY <2>1, <2>2, <2>3 DEF Typed
<1>7. ListInv'
  <2>1. /\ Stored' = Stored /\ Unread(msg)' = Unread(msg) /\ Starred(msg)' = Starred(msg)
        /\ \A o : /\ Unread(With(o, Stored))' = Unread(With(o, Stored))
                  /\ Starred(With(o, Stored))' = Starred(With(o, Stored))
        /\ \A v : Unread(Noticed(v))' = Unread(Noticed(v)) /\ Starred(Noticed(v))' = Starred(Noticed(v))
    BY <1>1, SameRows
  <2>2. Counting \subseteq Counting' /\ Quiet' = Quiet
    BY <1>p, <1>1, <1>3, <1>4 DEF Counting, Quiet, AtWork
  <2>3. DirtyCounts'
    BY <1>0, <1>1, <2>2 DEF ListInv, DirtyCounts
  <2>4. \A m \in Mids : intake'[m].pc = "upsert" /\ Clean(m)' =>
            intake'[m].unread = Unread(msg)' /\ intake'[m].star = Starred(msg)'
    BY <1>0, <1>1, <2>1 DEF ListInv, Counted, Clean
  <2>5. ASSUME NEW q \in {"web", "job"}, writer'[q].pc = "write", Clean(q)'
        PROVE  /\ writer'[q].locked = Stored'
               /\ writer'[q].unread = Unread(With(writer[q].op, Stored))'
               /\ writer'[q].star = Starred(With(writer[q].op, Stored))'
    <3>1. PICK o : o = writer[q].op
      OBVIOUS
    <3>2. writer'[q] = writer[q] /\ Clean(q)
      BY <1>1, <1>5, <2>5 DEF Clean
    <3>3. /\ Unread(With(writer[q].op, Stored))' = Unread(With(o, Stored))'
          /\ Starred(With(writer[q].op, Stored))' = Starred(With(o, Stored))'
      BY <3>1, <3>2
    <3>4. /\ writer[q].locked = Stored
          /\ writer[q].unread = Unread(With(o, Stored))
          /\ writer[q].star = Starred(With(o, Stored))
      BY <1>0, <2>5, <3>1, <3>2 DEF ListInv, Counted
    <3> QED BY <2>1, <3>2, <3>3, <3>4
  <2>6. writer'["rule"].pc = "write" /\ Clean("rule")' => Unread(msg)' = 0
    BY <1>0, <1>1, <1>5, <2>1 DEF ListInv, Counted, Clean
  <2>7. ASSUME NEW g \in Handlers, writer'[g].pc = "write", Clean(g)'
        PROVE  writer'[g].unread = Unread(Noticed(writer[g]))' /\ writer'[g].star = Starred(Noticed(writer[g]))'
    <3>1. CASE g = h
      <4>1. Noticed(writer[h])' = Noticed(w)'
        BY <1>3, <1>4 DEF Noticed
      <4>2. Unread(Noticed(writer[h]))' = Unread(Noticed(w))' /\ Starred(Noticed(writer[h]))' = Starred(Noticed(w))'
        BY <4>1 DEF Unread, Starred
      <4> QED BY <1>3, <1>4, <2>1, <3>1, <4>2
    <3>2. CASE g # h
      <4>1. writer'[g] = writer[g] /\ Clean(g)
        BY <1>1, <1>3, <2>7, <3>2 DEF Clean
      <4>2. PICK v : v = writer[g]
        OBVIOUS
      <4>3. v.unread = Unread(Noticed(v)) /\ v.star = Starred(Noticed(v))
        BY <1>0, <2>7, <4>1, <4>2 DEF ListInv, Counted
      <4>4. Unread(Noticed(writer[g]))' = Unread(Noticed(v))' /\ Starred(Noticed(writer[g]))' = Starred(Noticed(v))'
        BY <4>1, <4>2
      <4> QED BY <2>1, <4>1, <4>2, <4>3, <4>4
    <3> QED BY <3>1, <3>2
  <2>8. Counted'
    BY <2>4, <2>5, <2>6, <2>7 DEF Counted
  <2>9. ListU' /\ ListS'
    BY <1>0, <1>1, <1>5, <2>1, <2>2 DEF ListInv, ListU, ListS
  <2> QED BY <2>3, <2>8, <2>9 DEF ListInv
<1>8. Steady
  BY <1>5 DEF Steady, OnlyDoubted
<1>9. WordInv'
  BY <1>0, <1>1, <1>5, <1>8, SteadyWord
<1>10. \A m, f : Agree(m, f) => Agree(m, f)'
  BY <1>p, <1>1, <1>3, <1>4 DEF Agree, Waits, Handled
<1>11. ServerInv'
  <2>1. LockedIn'
    BY <1>0, <1>5 DEF ServerInv, LockedIn
  <2>2. JobDone'
    BY <1>0, <1>1, <1>5, <1>10, JobKept DEF ServerInv
  <2>3. \A g : Open(g)' <=> Open(g)
    BY <1>1, <1>8, SteadySpeaks
  <2>4. Follows'
    BY <1>0, <1>1, <1>5, <1>10, <2>3, FollowsKept DEF ServerInv
  <2> QED BY <2>1, <2>2, <2>4 DEF ServerInv
<1> QED BY <1>6, <1>7, <1>9, <1>11 DEF FlagsInv

\* A handler is done, and the job's work may be in doubt.
LEMMA HandlerOff ==
    ASSUME Typed, NEW fs, NEW h \in Handlers, writer' = [Doubted(fs) EXCEPT ![h] = NoWriter]
    PROVE  /\ WriterTyped' /\ Steady /\ writer'[h] = NoWriter
           /\ \A q \in Writers : q # h /\ q # "job" => writer'[q] = writer[q]
           /\ OnlyDoubted(writer["job"], writer'["job"])
           /\ writer'["job"].ok /\ writer["job"].pc \in {"begin", "write"} => About(writer["job"].op) \notin fs
<1>0. WriterTyped /\ "job" \in Writers /\ "web" \in Writers /\ "rule" \in Writers /\ h \in Writers /\ h # "job"
  BY DEF Typed
<1>1. PICK W : W = Doubted(fs)
  OBVIOUS
<1>2. /\ W = [q \in Writers |-> W[q]] /\ \A q \in Writers : q # "job" => W[q] = writer[q]
      /\ WriterRow(W["job"]) /\ OnlyDoubted(writer["job"], W["job"])
      /\ W["job"].ok /\ writer["job"].pc \in {"begin", "write"} => About(writer["job"].op) \notin fs
  BY <1>0, <1>1, DoubtedFacts
<1>3. /\ writer' = [q \in Writers |-> writer'[q]] /\ writer'[h] = NoWriter /\ \A q \in Writers : q # h => writer'[q] = W[q]
  BY <1>0, <1>1, <1>2
<1>4. writer'["job"] = W["job"] /\ \A q \in Writers : q # h /\ q # "job" => writer'[q] = writer[q]
  BY <1>0, <1>2, <1>3
<1>5. Steady
  BY <1>0, <1>2, <1>4 DEF Steady, OnlyDoubted
<1>6. WriterTyped'
  BY <1>0, <1>2, <1>3, <1>4, Off DEF WriterTyped, OnlyDoubted
<1> QED BY <1>2, <1>3, <1>4, <1>5, <1>6

\* A handler commits: what it had counted is what the rows add up to, if nobody
\* has overtaken it; a word it went against, or a flag of the server that is
\* newer, is known.
LEMMA NoticeWriteKeeps == ASSUME FlagsInv, NEW h \in Handlers, NoticeWrite(h) PROVE FlagsInv'
<1>0. Typed /\ ListInv /\ WordInv /\ ServerInv /\ MailTyped /\ WriterTyped /\ NoticeTyped /\ OtherTyped /\ Listed
  BY DEF FlagsInv, Typed
<1>w. "web" \in Writers /\ "job" \in Writers /\ "rule" \in Writers /\ h \in Writers
  BY Apart
<1>p. PICK w, against, past :
          /\ w = writer[h]
          /\ against = {f \in Fields : \E m \in w.rows \cap hist.word[f].rows : w.row[f] # Has(hist.word[f].op)}
          /\ past = {f \in Fields : \E m \in w.rows : w.row[f] # srv[m][f]}
  OBVIOUS
<1>1. /\ w.pc = "write" /\ msg' = Noticed(w)
      /\ list' = IF list = None THEN None ELSE [unread |-> w.unread, star |-> w.star]
      /\ writer' = [Doubted(past) EXCEPT ![h] = NoWriter]
      /\ UNCHANGED <<srv, intake, cq, common, fq, late, inbox>>
  BY <1>p DEF NoticeWrite, rules
<1>2. /\ HistRow(hist') /\ hist'.word = hist.word /\ hist'.dirty = Touched(h)
      /\ hist'.raced = IF list = None THEN hist.raced ELSE IF h \in hist.dirty THEN {"unread", "star"} ELSE {}
      /\ hist'.unsure = hist.unsure \cup against /\ hist'.apart = hist.apart \cup past
  <2>1. hist' = [hist EXCEPT !.dirty = Touched(h),
                            !.raced = IF list = None THEN @ ELSE IF h \in hist.dirty THEN {"unread", "star"} ELSE {},
                            !.unsure = @ \cup against, !.apart = @ \cup past]
    BY <1>p DEF NoticeWrite
  <2> QED BY <1>0, <2>1 DEF OtherTyped, HistRow
<1>3. /\ WriterTyped' /\ Steady /\ writer'[h] = NoWriter
      /\ \A q \in Writers : q # h /\ q # "job" => writer'[q] = writer[q]
      /\ OnlyDoubted(writer["job"], writer'["job"])
      /\ writer'["job"].ok /\ writer["job"].pc \in {"begin", "write"} => About(writer["job"].op) \notin past
  BY <1>0, <1>1, HandlerOff
<1>4. PICK k \in Stored : w.rows = {k} /\ w.row \in Row
  BY <1>0, <1>p, <1>1 DEF NoticeTyped
<1>5. /\ k \in Mids /\ msg' \in [Mids -> Row \cup {None}] /\ msg'[k] = w.row /\ \A m \in Mids : m # k => msg'[m] = msg[m]
      /\ \A m \in Mids : msg'[m] = None <=> msg[m] = None
  <2>1. k \in Mids /\ msg[k] # None
    BY <1>4 DEF Stored
  <2>2. msg' = [m \in Mids |-> IF m \in w.rows THEN w.row ELSE msg[m]]
    BY <1>1 DEF Noticed
  <2>3. msg'[k] = w.row /\ \A m \in Mids : m # k => msg'[m] = msg[m]
    BY <1>4, <2>1, <2>2
  <2>4. msg' \in [Mids -> Row \cup {None}]
    BY <1>0, <1>4, <2>2 DEF MailTyped
  <2> QED BY <1>4, <2>1, <2>3, <2>4
<1>6. Stored' = Stored /\ Unread(msg)' = Unread(Noticed(w)) /\ Starred(msg)' = Starred(Noticed(w))
  <2>1. Stored' = Stored
    BY <1>5 DEF Stored
  <2> QED BY <1>1, <2>1 DEF Unread, Starred
<1>7. /\ (list' = None <=> list = None) /\ (list # None => list' \in [unread : Nat, star : BOOLEAN])
      /\ list # None => list'.unread = w.unread /\ list'.star = w.star
  <2>1. w.unread \in Nat /\ w.star \in BOOLEAN
    BY <1>0, <1>p, <1>w DEF WriterTyped, WriterRow
  <2> QED BY <1>1, <2>1, Counts
<1>8. Typed'
  <2>1. MailTyped'
    BY <1>0, <1>1, <1>5 DEF MailTyped
  <2>2. OtherTyped'
    BY <1>0, <1>1, <1>2, <1>7 DEF OtherTyped
  <2>3. Listed'
    BY <1>0, <1>w, <1>1, <1>3, <1>7 DEF Listed
  <2>4. \A g \in Handlers : writer'[g].pc # "off" => writer'[g] = writer[g]
    BY <1>3, Off
  <2>5. NoticeTyped'
    BY <1>0, <1>1, <1>6, <2>4 DEF NoticeTyped
  <2> QED BY <1>3, <2>1, <2>2, <2>3, <2>5 DEF Typed
<1>9. ListInv'
  <2>1. \A q \in Writers : q # h => writer'[q].pc = writer[q].pc
    BY <1>3 DEF OnlyDoubted
  <2>2. Counting' \ {h} = Counting \ {h} /\ h \notin Counting'
    BY <1>w, <1>1, <1>3, <2>1, Off DEF Counting
  <2>3. DirtyCounts' /\ Counted'
    BY <1>0, <1>2, <2>2, Overtaken DEF ListInv
  <2>4. h \notin hist.dirty => w.unread = Unread(msg)' /\ w.star = Starred(msg)'
    BY <1>0, <1>p, <1>1, <1>6 DEF ListInv, Counted, Clean
  <2>5. ListU'
    BY <1>2, <1>7, <2>4 DEF ListU
  <2>6. ListS'
    BY <1>2, <1>7, <2>4 DEF ListS
  <2> QED BY <2>3, <2>5, <2>6 DEF ListInv
<1>10. WordInv'
  <2>1. ASSUME NEW f \in Fields, NEW m \in Stored, f \notin hist'.unsure, m \in hist.word[f].rows
        PROVE  msg'[m][f] = msg[m][f] \/ msg'[m][f] = Has(hist.word[f].op)
    <3>1. CASE m = k
      BY <1>p, <1>2, <1>4, <1>5, <2>1, <3>1
    <3>2. CASE m # k
      BY <1>5, <2>1, <3>2 DEF Stored
    <3> QED BY <3>1, <3>2
  <2> QED BY <1>0, <1>1, <1>2, <1>3, <1>6, <2>1, SteadyWord
<1>11. ASSUME NEW m \in Stored, NEW f \in Fields, f \notin past PROVE Agree(m, f) => Agree(m, f)'
  <2>1. CASE m = k
    BY <1>p, <1>1, <1>4, <1>5, <1>11, <2>1 DEF Agree
  <2>2. CASE m # k
    <3>1. msg'[m] = msg[m] /\ writer[h].rows # {m}
      BY <1>p, <1>4, <1>5, <2>2 DEF Stored
    <3>2. Handled(m, f) => Handled(m, f)'
      BY <1>1, <1>3, <3>1 DEF Handled
    <3> QED BY <1>1, <3>1, <3>2 DEF Agree, Waits
  <2> QED BY <2>1, <2>2
<1>12. ServerInv'
  <2>1. LockedIn'
    BY <1>0, <1>w, <1>3, <1>6 DEF ServerInv, LockedIn, OnlyDoubted
  <2>2. PICK f : f = About(writer["job"].op)
    OBVIOUS
  <2>3. f \in Fields
    BY <2>2 DEF About, Fields
  <2>4. JobDone'
    BY <1>0, <1>1, <1>3, <1>6, <1>11, <2>2, <2>3, SteadyJob DEF ServerInv
  <2>5. \A g : Open(g)' <=> Open(g)
    BY <1>1, <1>3, SteadySpeaks
  <2>6. Follows'
    BY <1>0, <1>2, <1>6, <1>11, <2>5, FollowsKept DEF ServerInv
  <2> QED BY <2>1, <2>4, <2>6 DEF ServerInv
<1> QED BY <1>8, <1>9, <1>10, <1>12 DEF FlagsInv

\* A handler breaks off: the flags it was to set are known to be apart.
LEMMA NoticeBreaksKeeps == ASSUME FlagsInv, NEW h \in Handlers, NoticeBreaks(h) PROVE FlagsInv'
<1>0. Typed /\ ListInv /\ WordInv /\ ServerInv /\ MailTyped /\ WriterTyped /\ NoticeTyped /\ OtherTyped /\ Listed
  BY DEF FlagsInv, Typed
<1>w. "web" \in Writers /\ "job" \in Writers /\ "rule" \in Writers /\ h \in Writers
  BY Apart
<1>p. PICK fs : fs = {f \in Fields : \E m \in writer[h].rows : writer[h].row[f] # msg[m][f]}
  OBVIOUS
<1>1. /\ writer' = [Doubted(fs) EXCEPT ![h] = NoWriter] /\ hist' = [Parted(fs) EXCEPT !.dirty = @ \ {h}]
      /\ UNCHANGED <<msg, srv, list, intake, cq, common, fq, late, inbox>>
  BY <1>p DEF NoticeBreaks, rules
<1>2. /\ HistRow(hist') /\ hist'.word = hist.word /\ hist'.unsure = hist.unsure /\ hist'.dirty = hist.dirty \ {h}
      /\ hist'.raced = hist.raced /\ hist'.apart = hist.apart \cup fs
  BY <1>0, <1>1 DEF OtherTyped, HistRow, Parted
<1>3. /\ WriterTyped' /\ Steady /\ writer'[h] = NoWriter
      /\ \A q \in Writers : q # h /\ q # "job" => writer'[q] = writer[q]
      /\ OnlyDoubted(writer["job"], writer'["job"])
      /\ writer'["job"].ok /\ writer["job"].pc \in {"begin", "write"} => About(writer["job"].op) \notin fs
  BY <1>0, <1>1, HandlerOff
<1>4. Stored' = Stored
  BY <1>1 DEF Stored
<1>5. Typed'
  <2>1. MailTyped'
    BY <1>0, <1>1 DEF MailTyped
  <2>2. OtherTyped'
    BY <1>0, <1>1, <1>2 DEF OtherTyped
  <2>3. Listed'
    BY <1>0, <1>w, <1>1, <1>3 DEF Listed
  <2>4. \A g \in Handlers : writer'[g].pc # "off" => writer'[g] = writer[g]
    BY <1>3, Off
  <2>5. NoticeTyped'
    BY <1>0, <1>1, <1>4, <2>4 DEF NoticeTyped
  <2> QED BY <1>3, <2>1, <2>2, <2>3, <2>5 DEF Typed
<1>6. ListInv'
  <2>1. Stored' = Stored /\ Unread(msg)' = Unread(msg) /\ Starred(msg)' = Starred(msg)
    BY <1>1, SameRows
  <2>2. \A q \in Writers : q # h => writer'[q].pc = writer[q].pc
    BY <1>3 DEF OnlyDoubted
  <2>3. Counting' = Counting \ {h}
    BY <1>w, <1>1, <1>3, <2>2, Off DEF Counting
  <2>4. DirtyCounts'
    BY <1>0, <1>2, <2>3 DEF ListInv, DirtyCounts
  <2>5. \A m \in Mids : intake'[m].pc = "upsert" /\ Clean(m)' => intake'[m] = intake[m] /\ Clean(m)
    BY <1>1, <1>2, Apart DEF Clean
  <2>6. \A q \in Writers : writer'[q].pc = "write" /\ Clean(q)' =>
            (writer'[q] = writer[q] \/ (q = "job" /\ OnlyDoubted(writer[q], writer'[q]))) /\ Clean(q)
    BY <1>2, <1>3, Off DEF Clean
  <2>7. Counted'
    BY <1>0, <1>1, <2>5, <2>6, CountedSame DEF ListInv
  <2>8. Quiet' = Quiet /\ writer'["rule"].pc = writer["rule"].pc
    BY <1>1, <1>w, <2>2 DEF Quiet, AtWork
  <2>9. ListU' /\ ListS'
    BY <1>0, <1>1, <1>2, <2>1, <2>8 DEF ListInv, ListU, ListS
  <2> QED BY <2>4, <2>7, <2>9 DEF ListInv
<1>7. WordInv'
  BY <1>0, <1>1, <1>2, <1>3, <1>4, SteadyWord
<1>8. ASSUME NEW m \in Stored, NEW f \in Fields, f \notin fs PROVE Agree(m, f) => Agree(m, f)'
  <2>1. CASE Handled(m, f)
    <3>1. PICK g \in Handlers : writer[g].pc # "off" /\ writer[g].rows = {m} /\ writer[g].row[f] = srv[m][f]
      BY <2>1 DEF Handled
    <3>2. CASE g = h
      BY <1>p, <1>1, <1>8, <3>1, <3>2 DEF Agree
    <3>3. CASE g # h
      BY <1>1, <1>3, <3>1, <3>3 DEF Agree, Handled
    <3> QED BY <3>2, <3>3
  <2>2. CASE ~ Handled(m, f)
    BY <1>1, <2>2 DEF Agree, Waits
  <2> QED BY <2>1, <2>2
<1>9. ServerInv'
  <2>1. LockedIn'
    BY <1>0, <1>w, <1>3, <1>4 DEF ServerInv, LockedIn, OnlyDoubted
  <2>2. PICK f : f = About(writer["job"].op)
    OBVIOUS
  <2>3. f \in Fields
    BY <2>2 DEF About, Fields
  <2>4. JobDone'
    BY <1>0, <1>1, <1>3, <1>4, <1>8, <2>2, <2>3, SteadyJob DEF ServerInv
  <2>5. \A g : Open(g)' <=> Open(g)
    BY <1>1, <1>3, SteadySpeaks
  <2>6. Follows'
    BY <1>0, <1>2, <1>4, <1>8, <2>5, FollowsKept DEF ServerInv
  <2> QED BY <2>1, <2>4, <2>6 DEF ServerInv
<1> QED BY <1>5, <1>6, <1>7, <1>9 DEF FlagsInv

-----------------------------------------------------------------------------
(* The worker dies.                                                         *)

\* The active job has stalled, and may come back behind others; a rule that was
\* under way, and the flags of notices that were not written, are known.
LEMMA CrashKeeps == ASSUME FlagsInv, Crash PROVE FlagsInv'
<1>0. Typed /\ ListInv /\ WordInv /\ ServerInv /\ MailTyped /\ WriterTyped /\ NoticeTyped /\ OtherTyped /\ Listed
  BY DEF FlagsInv, Typed
<1>w. "web" \in Writers /\ "job" \in Writers /\ "rule" \in Writers
  BY Apart
<1>p. PICK op, jobs, F, R, U, O :
          /\ op = writer["job"].op
          /\ jobs = IF writer["job"].pc # "off" THEN {op} ELSE {}
          /\ F = IF writer["rule"].pc # "off" THEN {About(writer["rule"].op)} ELSE {}
          /\ R = (IF \E m \in Mids : AtWork(m) THEN {"unread", "star"} ELSE {})
                    \cup (IF writer["rule"].pc # "off" THEN {"unread"} ELSE {})
          /\ U = {g \in Fields : \/ \E n \in inbox : n.row[g] # msg[n.mail][g]
                                 \/ \E h \in Handlers : \E m \in writer[h].rows : writer[h].row[g] # msg[m][g]}
          /\ O = UNION {Overtakable(o) : o \in jobs}
  OBVIOUS
<1>1. /\ intake' = [m \in Mids |-> IF AtWork(m) \/ intake[m].pc = "held" THEN [pc |-> "lost", unread |-> 0, star |-> FALSE]
                                   ELSE intake[m]]
      /\ common' = [NoCommon EXCEPT !.stalled = common.stalled \cup ({common.mail} \ {None})]
      /\ late' = late \cup jobs
      /\ writer' = [q \in Writers |-> IF q = "web" THEN writer[q] ELSE NoWriter]
      /\ inbox' = {}
      /\ UNCHANGED <<msg, srv, list, cq, fq>>
  BY <1>p DEF Crash
<1>2. /\ HistRow(hist') /\ hist'.word = hist.word /\ hist'.dirty = hist.dirty \cap {"web"} /\ hist'.raced = hist.raced \cup R
      /\ hist'.unsure = hist.unsure \cup F \cup O /\ hist'.apart = hist.apart \cup F \cup U
  <2>1. hist = [word |-> hist.word, unsure |-> hist.unsure, apart |-> hist.apart, dirty |-> hist.dirty, raced |-> hist.raced]
    BY <1>0 DEF OtherTyped, HistRow
  <2>2. hist' = [hist EXCEPT
                    !.dirty = hist.dirty \cap {"web"},
                    !.raced = hist.raced \cup (IF \E m \in Mids : AtWork(m) THEN {"unread", "star"} ELSE {})
                                         \cup (IF writer["rule"].pc # "off" THEN {"unread"} ELSE {}),
                    !.unsure = hist.unsure \cup F \cup O, !.apart = hist.apart \cup F \cup U]
    BY <1>p DEF Crash
  <2>3. hist' = [word |-> hist.word, unsure |-> hist.unsure \cup F \cup O, apart |-> hist.apart \cup F \cup U,
                 dirty |-> hist.dirty \cap {"web"}, raced |-> hist.raced \cup R]
    BY <1>p, <2>1, <2>2
  <2>4. HistRow(hist')
    BY <2>3 DEF HistRow
  <2> QED BY <2>3, <2>4
<1>3. /\ writer' = [q \in Writers |-> writer'[q]] /\ writer'["rule"] = NoWriter /\ writer'["job"] = NoWriter
      /\ writer'["web"] = writer["web"]
      /\ \A q \in Writers : q = "web" \/ writer'[q] = NoWriter
  BY <1>w, <1>1
<1>4. /\ intake' = [m \in Mids |-> intake'[m]]
      /\ \A m \in Mids : IF AtWork(m) \/ intake[m].pc = "held"
                         THEN IntakeRow(intake'[m]) /\ intake'[m].pc = "lost"
                         ELSE intake'[m] = intake[m]
  BY <1>1 DEF IntakeRow
<1>5. \A m \in Mids : intake'[m].pc \notin {"count", "upsert", "held"} /\ (intake'[m].pc = "off" <=> intake[m].pc = "off")
  BY <1>4 DEF AtWork
<1>6. /\ jobs \subseteq Ops /\ (\A f : Speaks(f, "job") <=> \E o \in jobs : About(o) = f)
      /\ \A o \in jobs : o = op /\ writer["job"].pc # "off"
  <2>1. writer["job"].pc # "off" => op \in Ops
    BY <1>0, <1>p, <1>w DEF WriterTyped
  <2> QED BY <1>p, <2>1 DEF Speaks
<1>7. Typed'
  <2>1. MailTyped'
    BY <1>0, <1>1, <1>4, <1>5 DEF MailTyped
  <2>2. WriterTyped'
    BY <1>0, <1>w, <1>3, Off DEF WriterTyped
  <2>3. /\ common' = [mail |-> common'.mail, acts |-> common'.acts, stalled |-> common'.stalled]
        /\ common'.acts = <<>> /\ common'.acts \in Seq({"read", "flag"}) /\ common'.mail = None
        /\ common'.stalled # {} => common.stalled # {} \/ common.mail # None
    <3>1. PICK S : S = common.stalled \cup ({common.mail} \ {None})
      OBVIOUS
    <3>2. common' = [mail |-> None, acts |-> <<>>, stalled |-> S]
      BY <1>1, <3>1 DEF NoCommon
    <3>3. <<>> \in Seq({"read", "flag"})
      OBVIOUS
    <3>4. S # {} => common.stalled # {} \/ common.mail # None
      BY <3>1
    <3> QED BY <3>2, <3>3, <3>4
  <2>4. OtherTyped'
    BY <1>0, <1>1, <1>2, <1>6, <2>3 DEF OtherTyped
  <2>5. Listed'
    <3>1. writer'["rule"].pc = "off"
      BY <1>3, Off
    <3>2. \A m \in Mids : intake'[m].pc \in {"held", "done"} => intake[m].pc \in {"held", "done"}
      BY <1>4
    <3> QED BY <1>0, <1>1, <1>3, <2>3, <3>1, <3>2 DEF Listed
  <2>6. \A g \in Handlers : writer'[g].pc = "off"
    BY <1>3, Off
  <2>n. NoticeTyped'
    BY <1>1, <2>6 DEF NoticeTyped
  <2> QED BY <2>1, <2>2, <2>4, <2>5, <2>n DEF Typed
<1>8. ListInv'
  <2>1. Stored' = Stored /\ Unread(msg)' = Unread(msg) /\ Starred(msg)' = Starred(msg)
    BY <1>1, SameRows
  <2>2. DirtyCounts'
    BY <1>0, <1>w, <1>2, <1>3, Apart DEF ListInv, DirtyCounts, Counting
  <2>3. \A m \in Mids : intake'[m].pc = "upsert" /\ Clean(m)' => intake'[m] = intake[m] /\ Clean(m)
    BY <1>5
  <2>4. \A q \in Writers : writer'[q].pc = "write" /\ Clean(q)' => writer'[q] = writer[q] /\ Clean(q)
    BY <1>2, <1>3, Off DEF Clean
  <2>5. Counted'
    BY <1>0, <1>1, <2>3, <2>4, CountedSame DEF ListInv
  <2>6. /\ (\E m \in Mids : AtWork(m)) => "unread" \in hist'.raced /\ "star" \in hist'.raced
        /\ writer["rule"].pc # "off" => "unread" \in hist'.raced
        /\ hist.raced \subseteq hist'.raced
    BY <1>p, <1>2
  <2>7. ListU'
    BY <1>0, <1>1, <2>1, <2>6 DEF ListInv, ListU, Quiet
  <2>8. ListS'
    BY <1>0, <1>1, <2>1, <2>6 DEF ListInv, ListS, Quiet
  <2> QED BY <2>2, <2>5, <2>7, <2>8 DEF ListInv
<1>9. /\ Stored' = Stored
      /\ \A f : InQueue(f)' = InQueue(f) /\ Speaks(f, "web")' = Speaks(f, "web") /\ \A o : Youngest(f, o)' = Youngest(f, o)
      /\ \A f : ~ Speaks(f, "rule")' /\ ~ Speaks(f, "job")' /\ (IsLate(f)' <=> IsLate(f) \/ Speaks(f, "job"))
      /\ \A f : f \notin F => ~ Speaks(f, "rule")
  <2>1. \A f : IsLate(f)' <=> IsLate(f) \/ Speaks(f, "job")
    BY <1>1, <1>6 DEF IsLate
  <2> QED BY <1>p, <1>1, <1>3, <2>1, Off DEF Stored, Speaks, InQueue, Youngest
<1>10. ASSUME NEW f \in Fields, f \notin hist'.unsure PROVE WordOf(f)'
  <2>1. WordOf(f) /\ hist'.word[f] = hist.word[f] /\ msg' = msg /\ ~ Speaks(f, "rule") /\ f \notin O
    BY <1>0, <1>1, <1>2, <1>9, <1>10 DEF WordInv
  <2>2. CASE ~ Speaks(f, "job")
    <3>1. \A l \in late' : About(l) = f => l \in late
      BY <1>1, <1>6, <2>2
    <3>2. \A q \in Commanders : (Speaks(f, q)' <=> Speaks(f, q)) /\ (Speaks(f, q) => writer'[q].op = writer[q].op)
      BY <1>3, <1>9, <2>1, <2>2
    <3> QED BY <1>9, <2>1, <2>2, <3>1, <3>2, WordSame
  <2>3. CASE Speaks(f, "job")
    <3>1. op \in jobs /\ About(op) = f
      BY <1>6, <2>3
    <3>2. f \notin Overtakable(op)
      BY <1>p, <2>1, <3>1
    <3>3. ~ Speaks(f, "web") /\ ~ IsLate(f) /\ ~ InQueue(f)
      BY <3>1, <3>2 DEF Overtakable, Rivals, Speaks, IsLate, InQueue
    <3>4. op = hist.word[f].op
      BY <1>p, <2>1, <2>3, <3>3 DEF WordOf
    <3>5. ~ Speaks(f, "web")' /\ ~ Speaks(f, "rule")' /\ ~ Speaks(f, "job")' /\ ~ InQueue(f)' /\ IsLate(f)'
      BY <1>9, <2>3, <3>3
    <3>6. \A l \in late' : About(l) = f => l = hist'.word[f].op
      BY <1>1, <1>6, <2>1, <3>3, <3>4 DEF IsLate
    <3>7. Pend(f)'
      BY <3>5 DEF Pend
    <3>8. Youngest(f, hist.word[f].op)'
      BY <3>5 DEF Youngest, InQueue
    <3> QED BY <3>5, <3>6, <3>7, <3>8 DEF WordOf
  <2> QED BY <2>2, <2>3
<1>11. WordInv'
  BY <1>0, <1>2, <1>9, <1>10 DEF WordInv
<1>12. ServerInv'
  <2>1. LockedIn' /\ JobDone'
    BY <1>0, <1>1, <1>3, <1>9, Off DEF ServerInv, LockedIn, JobDone
  <2>2. ASSUME NEW f \in Fields, f \notin hist'.apart, ~ Open(f)', NEW m \in Stored PROVE Agree(m, f)'
    <3>1. f \notin hist.apart /\ f \notin F /\ f \notin U
      BY <1>2, <2>2
    <3>2. ~ Open(f)
      BY <1>9, <2>2, <3>1 DEF Open
    <3>3. Agree(m, f)
      BY <1>0, <2>2, <3>1, <3>2 DEF ServerInv, Follows
    <3>4. (\A n \in inbox : n.row[f] = msg[n.mail][f]) /\ \A h \in Handlers : \A k \in writer[h].rows : writer[h].row[f] = msg[k][f]
      BY <1>p, <3>1
    <3>5. srv[m][f] = msg[m][f]
      BY <3>3, <3>4 DEF Agree, Waits, Handled
    <3> QED BY <1>1, <3>5 DEF Agree
  <2>3. Follows'
    BY <1>9, <2>2 DEF Follows
  <2> QED BY <2>1, <2>3 DEF ServerInv
<1> QED BY <1>7, <1>8, <1>11, <1>12 DEF FlagsInv

-----------------------------------------------------------------------------
(* The theorems.                                                            *)

\* Every step keeps the invariant.
LEMMA StepKeeps == FlagsInv /\ [Next]_vars => FlagsInv'
<1> SUFFICES ASSUME FlagsInv, [Next]_vars PROVE FlagsInv'
  OBVIOUS
<1>1. CASE Next
  <2>1. ASSUME NEW m \in Mids, Arrive(m) \/ ListCount(m) \/ ListUpsert(m) \/ FlushBatches(m) \/ IntakeBreaks(m)
        PROVE  FlagsInv'
    BY <2>1, ArriveKeeps, ListCountKeeps, ListUpsertKeeps, FlushKeeps, IntakeBreaksKeeps
  <2>2. ASSUME NEW op \in Ops, WebCommand(op) PROVE FlagsInv'
    BY <2>2, WebCommandKeeps
  <2>3. ASSUME NEW p \in {"web", "rule"}, Queue(p) \/ CommandBreaks(p) PROVE FlagsInv'
    BY <2>3, QueueKeeps, CommandBreaksKeeps
  <2>4. ASSUME WebWrite \/ CommonTake \/ RuleAct \/ RuleWrite \/ CommonDone \/ CommonBack PROVE FlagsInv'
    BY <2>4, WebWriteKeeps, CommonTakeKeeps, RuleActKeeps, RuleWriteKeeps, CommonDoneKeeps, CommonBackKeeps
  <2>5. ASSUME JobStart \/ JobStore \/ JobRefused \/ JobFails \/ Promote \/ JobBegin \/ JobWrite \/ JobEnds \/ Crash
        PROVE  FlagsInv'
    BY <2>5, JobStartKeeps, JobStoreKeeps, JobRefusedKeeps, JobFailsKeeps, PromoteKeeps, JobBeginKeeps, JobWriteKeeps,
       JobEndsKeeps, CrashKeeps
  <2>6. ASSUME NEW m \in Mids, OtherClient(m) PROVE FlagsInv'
    BY <2>6, OtherClientKeeps
  <2>7. ASSUME NEW h \in Handlers, NoticeRead(h) \/ NoticeBegin(h) \/ NoticeWrite(h) \/ NoticeBreaks(h) PROVE FlagsInv'
    BY <2>7, NoticeReadKeeps, NoticeBeginKeeps, NoticeWriteKeeps, NoticeBreaksKeeps
  <2> QED BY <1>1, <2>1, <2>2, <2>3, <2>4, <2>5, <2>6, <2>7 DEF Next
<1>2. CASE UNCHANGED vars
  <2>1. UNCHANGED <<msg, srv, list, intake, cq, common, fq, late, writer, hist, inbox>>
    BY <1>2 DEF vars
  <2>n. NoticeTyped'
    BY <2>1, NoticeSame DEF FlagsInv, Typed, Stored
  <2>2. Typed'
    BY <2>1, <2>n DEF FlagsInv, Typed, MailTyped, WriterTyped, OtherTyped, Listed
  <2>3. ListInv'
    BY <2>1, NoCount DEF FlagsInv, AtWork
  <2>4. WordInv' /\ ServerInv'
    BY <2>1, NoCommand DEF FlagsInv
  <2> QED BY <2>2, <2>3, <2>4 DEF FlagsInv
<1> QED BY <1>1, <1>2

\* The invariant holds in every behaviour.
LEMMA FlagsInvariant == Spec => []FlagsInv
BY InitInv, StepKeeps, PTL DEF Spec

\* Nothing is pending when all work is done, and no notice on its way.
LEMMA NothingPends ==
    ASSUME AtRest
    PROVE  /\ (\A f : ~ Pend(f) /\ ~ Open(f)) /\ Quiet /\ writer["rule"].pc = "off"
           /\ \A m, f : Agree(m, f) => srv[m][f] = msg[m][f]
<1>1. \A f : ~ InQueue(f) /\ ~ IsLate(f) /\ \A p \in Writers : ~ Speaks(f, p)
  BY DEF AtRest, InQueue, IsLate, Speaks
<1>2. \A f : ~ Pend(f) /\ ~ Open(f)
  BY <1>1 DEF Pend, Open
<1>3. Quiet
  BY DEF AtRest, Quiet, AtWork
<1>4. \A m, f : ~ Waits(m, f) /\ ~ Handled(m, f)
  BY Apart DEF AtRest, Waits, Handled
<1> QED BY <1>2, <1>3, <1>4, Apart DEF AtRest, Agree

\* When all work is done the list shows the number of unread mails and the star
\* that the rows add up to, for any number of mails, commands, rules and notices,
\* unless the last write to it came from a count that another write had
\* overtaken, an intake broke off between its insert and its upsert, or the worker
\* died there or between the two statements of a rule.
THEOREM ListShowsTruth == Spec => []ListTruth
<1>1. FlagsInv => ListTruth
  BY NothingPends DEF FlagsInv, ListInv, ListU, ListS, ListTruth
<1> QED BY <1>1, FlagsInvariant, PTL

\* When all work is done the rows have what the last command on a flag asked
\* for, whatever older jobs were still queued, unless a rival command overlapped
\* it, a retried or stalled job could come in behind it, a fault kept its job from
\* being queued or run, or a notice of the server has since set it otherwise.
THEOREM LastWordHolds == Spec => []LastWordKept
<1>1. FlagsInv => LastWordKept
  <2> SUFFICES ASSUME FlagsInv, AtRest, NEW f \in Fields \ hist.unsure, NEW m \in hist.word[f].rows
               PROVE  msg[m][f] = Has(hist.word[f].op)
    BY DEF LastWordKept
  <2>1. WordOf(f) /\ ~ Pend(f)
    BY NothingPends DEF FlagsInv, WordInv
  <2> QED BY <2>1 DEF WordOf, Obeyed
<1> QED BY <1>1, FlagsInvariant, PTL

\* When all work is done the IMAP server holds the flags that the rows hold,
\* although other clients change them, unless the last job on the flag failed, was
\* refused or never queued, or marked a row that came in after it had read the
\* mails to mark, another client's change came while it ran, or a notice was never
\* sent, was lost, or was out of date when it was written.
THEOREM ServerHolds == Spec => []ServerFollows
<1>1. FlagsInv => ServerFollows
  BY NothingPends DEF FlagsInv, ServerInv, Follows, ServerFollows
<1> QED BY <1>1, FlagsInvariant, PTL
=============================================================================
