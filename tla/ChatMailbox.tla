---------------------------- MODULE ChatMailbox ----------------------------
(***************************************************************************)
(* The same-server chat mailbox: server/chat_mailbox.py.                   *)
(*                                                                         *)
(* Every operation of the source runs in one BEGIN IMMEDIATE transaction   *)
(* of the caller, so every operation is one action.  The callers are the   *)
(* most general ones the interface allows: any chat may read under any     *)
(* request key and cursor, with any authority in Grants, and a wake claim  *)
(* may be admitted or released at any time while its caller remembers it.  *)
(* Only Restart forgets: it is a crash of the process at any point between *)
(* two transactions, followed by the startup recovery.                     *)
(***************************************************************************)
EXTENDS Integers, FiniteSets, Sequences

CONSTANTS
  Chats,        \* chat sessions
  Messages,     \* envelope identities that may be sent
  Direct,       \* the envelopes that were delivered without a mailbox row
  Pairs,        \* reciprocal route pairs
  Ends,         \* Ends[p] is the set of the two chats that pair p joins
  Grants,       \* the sets of pairs a caller may hold as current authority
  Requests,     \* stable request keys of readers
  Runs,         \* reader runs (attribution only)
  Limits,       \* page limits readers may ask for
  Claims,       \* wake claim identities
  LegacyReads,  \* read batches an older, run-scoped version left behind
  Senders,      \* bound: the chats whose agents send
  Readers,      \* bound: the chats whose agents read
  Wakeable,     \* bound: the chats that are woken and stopped
  Announcing,   \* bound: the chats whose read events are published
  None          \* SQL NULL

ASSUME MailboxAssumption ==
  /\ Ends \in [Pairs -> SUBSET Chats]
  /\ Grants \subseteq SUBSET Pairs
  /\ Limits \subseteq Nat \ {0}
  /\ Senders \subseteq Chats /\ Readers \subseteq Chats /\ Wakeable \subseteq Chats
  /\ \A S \in {Chats, Messages, Direct, Pairs, Claims, Chats \X Requests \X Runs} :
       None \notin S
  /\ Direct \subseteq [src : Chats, tgt : Chats, pair : Pairs]
  /\ Direct \cap Messages = {}

VARIABLES
  mail,      \* chat_mailbox_messages joined with its envelope, by message
  lastSeq,   \* the AUTOINCREMENT high-water mark of mailbox_seq
  reads,     \* chat_mailbox_reads: the fixed snapshots
  pages,     \* chat_mailbox_read_pages: the retry receipts
  answer,    \* the response of the last read_sender, and its authority
  wake,      \* chat_mailbox_wakes, by target chat
  held,      \* the claims the running process remembers, by chat
  launches,  \* history: the cutoffs of the provider launches, by chat
  spent      \* history: the mail that caused a wake or that Stop covered

vars == <<mail, lastSeq, reads, pages, answer, wake, held, launches, spent>>
readVars == <<reads, pages, answer>>
wakeVars == <<wake, held, launches, spent>>

Row == [seq : Nat, src : Chats \cup {None}, tgt : Chats \cup {None},
        pair : Pairs \cup {None}, parent : Messages \cup Direct \cup {None},
        status : {"absent", "stored", "cancelled"},
        read : (Chats \X Requests \X Runs) \cup {None},
        excluded : BOOLEAN, published : BOOLEAN]

NoRow == [seq |-> 0, src |-> None, tgt |-> None, pair |-> None, parent |-> None,
          status |-> "absent", read |-> None, excluded |-> FALSE, published |-> FALSE]

\* The identity of a batch is its UNIQUE key: target, request and reader run.
ReadRow == [id : Chats \X Requests \X Runs, src : Chats, snapshot : Nat, limit : Limits]
Target(b) == b.id[1]
Request(b) == b.id[2]

PageRow == [read : Chats \X Requests \X Runs, after : Nat, end : Nat,
            more : BOOLEAN, ids : SUBSET Messages]

WakeRow == [last : Nat, supp : Nat, claim : Claims \cup {None}, through : Nat,
            state : {"idle", "reserved", "admitted"}]

NoWake == [last |-> 0, supp |-> 0, claim |-> None, through |-> 0, state |-> "idle"]

Larger(a, b) == IF a >= b THEN a ELSE b

\* The UPDATEs of a wake row.  Releasing keeps the two cutoffs.
UnreservedKeepingClaim(w) == [w EXCEPT !.through = 0, !.state = "idle"]
Unreserved(w) == [w EXCEPT !.claim = None, !.through = 0, !.state = "idle"]

AdmittedUnrecorded(w) == [w EXCEPT !.state = "admitted"]
Admitted(w) == [w EXCEPT !.state = "admitted", !.last = Larger(@, w.through)]

Unsuppressed(w, n) == w
Suppressed(w, n) == [w EXCEPT !.supp = Larger(@, n)]

IfReserved(w) == IF w.state = "reserved" THEN Unreserved(w) ELSE w

NoAnswer == [ids |-> {}, grant |-> {}]

\* Target, request and run are the primary key of the batches.  No mail is
\* stored when a behaviour starts, so the snapshots of the older version are 0.
ASSUME LegacyAssumption ==
  /\ LegacyReads \subseteq ReadRow /\ IsFiniteSet(LegacyReads)
  /\ \A b, c \in LegacyReads : b.id = c.id => b = c
  /\ \A b \in LegacyReads : b.snapshot = 0

TypeOK ==
  /\ mail \in [Messages -> Row]
  /\ lastSeq \in Nat
  /\ reads \subseteq ReadRow
  /\ pages \subseteq PageRow
  /\ answer \in [ids : SUBSET Messages, grant : SUBSET Pairs]
  /\ wake \in [Chats -> WakeRow]
  /\ held \in [Chats -> SUBSET Claims]
  /\ launches \in [Chats -> Seq(Nat)]
  /\ spent \in [Chats -> SUBSET Messages]
  /\ \A m \in Messages : mail[m].seq <= lastSeq /\ (mail[m].seq = 0 <=> mail[m].status = "absent")
  /\ \A t \in Chats : wake[t].state = "idle" <=> wake[t].claim = None

-----------------------------------------------------------------------------
(* Queries.  COALESCE(MAX(..), 0) is written as a relation.                *)

IsMax(n, S) == n \in S \cup {0} /\ \A s \in S : s <= n

\* _VALID: still stored and not excluded.
Valid(m) == mail[m].status = "stored" /\ ~mail[m].excluded

\* _scope: valid mail of a target whose pair the caller is authorized for now.
Scope(t, grant) == {m \in Messages : Valid(m) /\ mail[m].tgt = t /\ mail[m].pair \in grant}

Unread(t) == {m \in Messages : Valid(m) /\ mail[m].tgt = t /\ mail[m].read = None}

SeqsOf(S) == {mail[m].seq : m \in S}

Init ==
  /\ mail = [m \in Messages |-> NoRow]
  /\ lastSeq = 0
  /\ reads = LegacyReads
  /\ pages = {}
  /\ answer = NoAnswer
  /\ wake = [t \in Chats |-> NoWake]
  /\ held = [t \in Chats |-> {}]
  /\ launches = [t \in Chats |-> <<>>]
  /\ spent = [t \in Chats |-> {}]

-----------------------------------------------------------------------------
(* Sending, withdrawing and announcing                                     *)

\* The envelope of a stored message, or one that never had a mailbox row.
Envelope(q) == IF q \in Messages THEN mail[q] ELSE q

\* A reply must name an available message of the exact peer on the same pair.
\* A mailbox row need not exist.  The status of an envelope without one is its
\* delivery's; once that has failed it refuses replies, which changes nothing.
ReplyAvailable(s, t, p, parent) ==
  \/ parent = None
  \/ /\ parent \in Messages \cup Direct
     /\ Envelope(parent).src = t /\ Envelope(parent).tgt = s /\ Envelope(parent).pair = p
     /\ parent \in Messages => Valid(parent)

\* store_message registers a just-accepted envelope; a repeated one is ignored.
StoreMessage(m, s, t, p, parent) ==
  /\ mail[m].status = "absent"
  /\ s # t /\ Ends[p] = {s, t}
  /\ ReplyAvailable(s, t, p, parent)
  /\ lastSeq' = lastSeq + 1
  /\ mail' = [mail EXCEPT ![m] =
       [seq |-> lastSeq + 1, src |-> s, tgt |-> t, pair |-> p, parent |-> parent,
        status |-> "stored", read |-> None, excluded |-> FALSE, published |-> FALSE]]
  /\ answer' = NoAnswer
  /\ UNCHANGED <<reads, pages, wakeVars>>

\* cancel_message: only mail that is still unread; anything else is a conflict.
Cancellable(m) == Valid(m) /\ mail[m].read = None

CancelMessage(m) ==
  /\ Cancellable(m)
  /\ mail' = [mail EXCEPT ![m].excluded = TRUE, ![m].status = "cancelled"]
  /\ answer' = NoAnswer
  /\ UNCHANGED <<lastSeq, reads, pages, wakeVars>>

\* exclude_message, exclude_pair and exclude_session, read or not.
ExcludeAll(S) ==
  /\ \E m \in S : ~mail[m].excluded
  /\ mail' = [m \in Messages |-> IF m \in S /\ ~mail[m].excluded
                                 THEN [mail[m] EXCEPT !.excluded = TRUE] ELSE mail[m]]
  /\ answer' = NoAnswer
  /\ UNCHANGED <<lastSeq, reads, pages, wakeVars>>

Stored == {m \in Messages : mail[m].status # "absent"}

ExcludeMessage(m) == ExcludeAll({m} \cap Stored)
ExcludePair(p) == ExcludeAll({m \in Stored : mail[m].pair = p})
ExcludeSession(c) == ExcludeAll({m \in Stored : c \in {mail[m].src, mail[m].tgt}})

\* mark_read_event_published
MarkReadEventPublished(m) ==
  /\ mail[m].read # None /\ ~mail[m].published
  /\ mail' = [mail EXCEPT ![m].published = TRUE]
  /\ answer' = NoAnswer
  /\ UNCHANGED <<lastSeq, reads, pages, wakeVars>>

-----------------------------------------------------------------------------
(* Snapshot reads                                                          *)

BatchesOf(t, r) == {b \in reads : Target(b) = t /\ Request(b) = r}

\* The snapshot of a new batch: the newest mail of the sender, whatever its state.
HighWater(n, t, s) == IsMax(n, SeqsOf({m \in Stored : mail[m].tgt = t /\ mail[m].src = s}))

PageAt(b, after) == {p \in pages : p.read = b.id /\ p.after = after}

\* Mutant: the page is not bounded by the snapshot.
CandidatesPastSnapshot(b, grant, after) ==
  {m \in Scope(Target(b), grant) :
     mail[m].src = b.src /\ mail[m].read = None /\ after < mail[m].seq}

\* Mutant: mail that another request has read is taken again.
CandidatesReadOrNot(b, grant, after) ==
  {m \in Scope(Target(b), grant) :
     mail[m].src = b.src /\ after < mail[m].seq /\ mail[m].seq <= b.snapshot}

\* The mail a new page may take: unread, authorized, inside the snapshot.
Candidates(b, grant, after) ==
  {m \in Scope(Target(b), grant) :
     /\ mail[m].src = b.src /\ mail[m].read = None
     /\ after < mail[m].seq /\ mail[m].seq <= b.snapshot}

\* Mutant: a page without ORDER BY.
PageInAnyOrder(ids, cand, limit) ==
  ids \subseteq cand /\ Cardinality(ids) <= limit /\ (ids = {} => cand = {})

\* _page: the oldest of the candidates, at most limit of them.  A page cut short
\* by the response's byte bound still holds at least one message.
Page(ids, cand, limit) ==
  /\ ids \subseteq cand /\ Cardinality(ids) <= limit
  /\ ids = {} => cand = {}
  /\ \A m \in ids, n \in cand \ ids : mail[m].seq < mail[n].seq

NewBatches(t, s, run, r, limit) ==
  {[id |-> <<t, r, run>>, src |-> s, snapshot |-> n, limit |-> limit] :
     n \in {k \in 0 .. lastSeq : HighWater(k, t, s)}}

\* Mutant: the key is looked up per run, as older versions did.
NamedBatchesOfRun(t, s, run, r, after, limit) ==
  LET own == {b \in BatchesOf(t, r) : b.id[3] = run} IN
  IF own # {} \/ after # 0 THEN own ELSE NewBatches(t, s, run, r, limit)

\* The batch a request names: the recorded one, or a new snapshot at cursor 0.
NamedBatches(t, s, run, r, after, limit) ==
  IF BatchesOf(t, r) # {} \/ after # 0 THEN BatchesOf(t, r)
  ELSE NewBatches(t, s, run, r, limit)

\* The first use of a page: record it and stamp its mail with the read.
TakePage(b, grant, after, limit) ==
  /\ after = 0 \/ \E p \in pages : p.read = b.id /\ p.end = after /\ p.more
  /\ \E ids \in SUBSET Candidates(b, grant, after), end \in 0 .. lastSeq :
       /\ Page(ids, Candidates(b, grant, after), limit)
       /\ IF ids = {} THEN end = after ELSE IsMax(end, SeqsOf(ids))
       /\ pages' = pages \cup {[read |-> b.id, after |-> after, end |-> end,
                                more |-> ids # Candidates(b, grant, after), ids |-> ids]}
       /\ mail' = [m \in Messages |->
                     IF m \in ids THEN [mail[m] EXCEPT !.read = b.id] ELSE mail[m]]

\* What of a recorded page the caller may see now; a retry is checked again.
Disclosed(b, grant, after) ==
  {m \in Scope(Target(b), grant) : \E p \in PageAt(b, after) : m \in p.ids}

\* A key that names two historical batches, or a batch with other parameters,
\* is refused.
ReadSender(t, s, run, r, grant, after, limit) ==
  /\ Cardinality(BatchesOf(t, r)) <= 1
  /\ \E b \in NamedBatches(t, s, run, r, after, limit) :
       /\ b.src = s /\ b.limit = limit
       /\ reads' = reads \cup {b}
       /\ IF PageAt(b, after) # {}
            THEN UNCHANGED <<pages, mail>>
            ELSE TakePage(b, grant, after, limit)
       /\ answer' = [ids |-> Disclosed(b, grant, after)', grant |-> grant]
  /\ UNCHANGED <<lastSeq, wakeVars>>

-----------------------------------------------------------------------------
(* Wakes                                                                   *)

Cutoff(t) == Larger(wake[t].last, wake[t].supp)

\* Unread, authorized mail beyond everything already attempted or stopped.
Eligible(t, grant) == {m \in Scope(t, grant) \cap Unread(t) : mail[m].seq > Cutoff(t)}

\* claim_wake: reserve the newest eligible mail; an existing reservation wins.
ClaimWake(t, grant) ==
  /\ wake[t].state # "reserved"
  /\ Eligible(t, grant) # {}
  /\ \E c \in Claims, n \in 1 .. lastSeq :
       /\ \A u \in Chats : c \notin held[u] \cup {wake[u].claim}
       /\ IsMax(n, SeqsOf(Eligible(t, grant)))
       /\ wake' = [wake EXCEPT ![t].claim = c, ![t].through = n, ![t].state = "reserved"]
       /\ held' = [held EXCEPT ![t] = @ \cup {c}]
  /\ answer' = NoAnswer
  /\ UNCHANGED <<mail, lastSeq, reads, pages, launches, spent>>

\* admit_wake: consume the reservation, then the caller launches the provider.
AdmitWake(t, c, grant) ==
  /\ c \in held[t]
  /\ wake[t].state = "reserved" /\ wake[t].claim = c
  /\ \E m \in Eligible(t, grant) : mail[m].seq <= wake[t].through
  /\ wake' = [wake EXCEPT ![t] = Admitted(@)]
  /\ launches' = [launches EXCEPT ![t] = Append(@, wake[t].through)]
  /\ spent' = [spent EXCEPT ![t] = @ \cup {m \in Unread(t) : mail[m].seq <= wake[t].through}]
  /\ answer' = NoAnswer
  /\ UNCHANGED <<mail, lastSeq, reads, pages, held>>

\* release_wake is a compare-and-swap on an unadmitted reservation; the caller
\* forgets its claim either way.
ReleaseWake(t, c) ==
  /\ c \in held[t]
  /\ held' = [held EXCEPT ![t] = @ \ {c}]
  /\ wake' = [wake EXCEPT ![t] = IF @.claim = c THEN IfReserved(@) ELSE @]
  /\ answer' = NoAnswer
  /\ UNCHANGED <<mail, lastSeq, reads, pages, launches, spent>>

\* suppress_wake (Stop): cover all unread mail and drop the reservation.
SuppressWake(t) ==
  /\ \E n \in 0 .. lastSeq :
       /\ IsMax(n, SeqsOf(Unread(t)))
       /\ wake' = [wake EXCEPT ![t] = IfReserved(Suppressed(@, n))]
  /\ spent' = [spent EXCEPT ![t] = @ \cup Unread(t)]
  /\ answer' = NoAnswer
  /\ UNCHANGED <<mail, lastSeq, reads, pages, held, launches>>

NothingRecovered == wake
Recovered == [t \in Chats |-> IfReserved(wake[t])]

\* A crash forgets the claims in memory; recover_wakes runs before any launch.
Restart ==
  /\ held' = [t \in Chats |-> {}]
  /\ wake' = Recovered
  /\ answer' = NoAnswer
  /\ UNCHANGED <<mail, lastSeq, reads, pages, launches, spent>>

-----------------------------------------------------------------------------
Send == \E m \in Messages, s \in Senders, t \in Chats, p \in Pairs,
           parent \in Messages \cup Direct \cup {None} :
          StoreMessage(m, s, t, p, parent)

Withdraw == \/ \E m \in Messages : CancelMessage(m)
            \/ \E m \in Messages : ExcludeMessage(m)
            \/ \E p \in Pairs : ExcludePair(p)
            \/ \E c \in Chats : ExcludeSession(c)

Read == \E s \in Chats, t \in Readers, run \in Runs, r \in Requests, grant \in Grants,
           after \in 0 .. lastSeq, limit \in Limits :
          ReadSender(t, s, run, r, grant, after, limit)

Announce == \E m \in Messages : mail[m].tgt \in Announcing /\ MarkReadEventPublished(m)

Claim(t) == \E grant \in Grants : ClaimWake(t, grant)
Admit(t) == \E c \in Claims, grant \in Grants : AdmitWake(t, c, grant)
Release(t) == \E c \in Claims : ReleaseWake(t, c)

Next == Send \/ Withdraw \/ Read \/ Announce \/ Restart
        \/ \E t \in Wakeable : Claim(t) \/ Admit(t) \/ Release(t) \/ SuppressWake(t)

Spec == Init /\ [][Next]_vars

(* The runtime claims on every idle transition and every accepted message,  *)
(* and always releases what it claimed; launching is retried with every     *)
(* claim, so a launch that stays possible again and again happens.          *)
Fairness == \A t \in Wakeable : WF_vars(Claim(t)) /\ SF_vars(Admit(t)) /\ WF_vars(Release(t))

LiveSpec == Spec /\ Fairness

-----------------------------------------------------------------------------
(* Snapshot reads: what the retry receipts and the mail rows promise       *)

\* The receipts and the rows agree: a message is stamped as read exactly by the
\* one page that handed it out, and no two pages hand out the same message
\* (read_sender: the page row and the UPDATE of its ids are one outcome).
ReceiptExact ==
  /\ \A p \in pages : \A m \in p.ids : mail[m].read = p.read
  /\ \A m \in Messages : mail[m].read # None => \E p \in pages : m \in p.ids
  /\ \A p, q \in pages : p # q => p.ids \cap q.ids = {}

\* Arrivals after the snapshot stay unread for that batch, and a batch only
\* stamps mail of its own sender to its own chat.
SnapshotHonoured ==
  \A m \in Messages, b \in reads : mail[m].read = b.id =>
    mail[m].seq <= b.snapshot /\ mail[m].tgt = Target(b) /\ mail[m].src = b.src

\* A retried request has one recorded page per cursor, so it replays and never
\* consumes a second batch of mail; an ambiguous historical key consumes nothing.
RetryReplays ==
  /\ \A p, q \in pages : p.read = q.read /\ p.after = q.after => p = q
  /\ \A p \in pages : \A b \in reads :
       (Target(b) = p.read[1] /\ Request(b) = p.read[2]) => b.id = p.read

\* Following the cursors of a batch to its last page leaves nothing of its
\* snapshot unread, whatever was sent, read elsewhere or withdrawn between the
\* pages.  (Only for callers that keep their authority: see the run.)
SnapshotExhausted ==
  \A b \in reads, p \in pages : (p.read = b.id /\ ~p.more) =>
    \A m \in Unread(Target(b)) : mail[m].src = b.src => mail[m].seq > b.snapshot

\* A completed read wins against cancellation and the reverse: no message that
\* an agent was handed is ever reported to its sender as cancelled unread.
ReadBeatsCancel == \A m \in Messages : mail[m].read # None => mail[m].status # "cancelled"

\* No response, first or replayed, contains mail that is withdrawn by then or
\* whose pair the caller is no longer authorized for.
NothingWithdrawnShown ==
  \A m \in answer.ids : Valid(m) /\ mail[m].pair \in answer.grant

\* A reply continues the exchange of the two ends of one pair, and comes after
\* the mail it answers, whatever is withdrawn later.
RepliesMatch ==
  \A m \in Messages : mail[m].parent # None =>
    LET q == mail[m].parent IN
    /\ Envelope(q).src = mail[m].tgt /\ Envelope(q).tgt = mail[m].src
    /\ Envelope(q).pair = mail[m].pair
    /\ q \in Messages => mail[q].seq < mail[m].seq

-----------------------------------------------------------------------------
(* Wakes: one durable cutoff per chat                                      *)

\* A message causes at most one launch, and none once a Stop has covered it:
\* each launch has an unread, deliverable message that no earlier launch or
\* Stop of that chat covered.  It holds across crashes, stale claims, and
\* reads or cancellations between claim and admission.
WakeForNewMail ==
  [][\A t \in Chats : launches'[t] # launches[t] => Unread(t) \ spent[t] # {}]_vars

\* The cutoffs of a chat's launches strictly increase, so an admitted attempt
\* is never replayed, not even after a crash.
LaunchesAdvance ==
  \A t \in Chats : \A i \in 1 .. Len(launches[t]) - 1 : launches[t][i] < launches[t][i + 1]

\* Mail is not stranded: unread mail is read, withdrawn, or covered by a launch
\* or a Stop in the end, whatever claims were lost in crashes.
MailNotStranded ==
  \A t \in Wakeable, m \in Messages :
    (m \in Unread(t)) ~> (m \notin Unread(t) \/ mail[m].seq <= Cutoff(t))

=============================================================================
