------------------------- MODULE ChatMailboxProofs -------------------------
(* Proofs about ChatMailbox, for every set of chats, messages and claims.   *)
EXTENDS ChatMailbox, FiniteSetTheorems, TLAPS

-----------------------------------------------------------------------------
(* The updates of a wake row keep its type, and never lower a cutoff.       *)

Coherent(w) == w.state = "idle" <=> w.claim = None

LEMMA LargerNat == ASSUME NEW a \in Nat, NEW b \in Nat
                   PROVE Larger(a, b) \in Nat /\ Larger(a, b) >= a /\ Larger(a, b) >= b
BY DEF Larger

LEMMA UnreservedType == ASSUME NEW w \in WakeRow
                        PROVE Unreserved(w) \in WakeRow /\ Coherent(Unreserved(w))
BY DEF WakeRow, Unreserved, Coherent

LEMMA IfReservedType == ASSUME NEW w \in WakeRow, Coherent(w)
                        PROVE IfReserved(w) \in WakeRow /\ Coherent(IfReserved(w))
BY UnreservedType DEF IfReserved

LEMMA AdmittedType == ASSUME NEW w \in WakeRow, w.claim # None
                      PROVE Admitted(w) \in WakeRow /\ Coherent(Admitted(w))
<1>1. Larger(w.last, w.through) \in Nat
  BY LargerNat DEF WakeRow
<1>2. QED
  BY <1>1 DEF WakeRow, Admitted, Coherent

LEMMA SuppressedType == ASSUME NEW w \in WakeRow, Coherent(w), NEW n \in Nat
                        PROVE Suppressed(w, n) \in WakeRow /\ Coherent(Suppressed(w, n))
<1>1. Larger(w.supp, n) \in Nat
  BY LargerNat DEF WakeRow
<1>2. QED
  BY <1>1 DEF WakeRow, Suppressed, Coherent

-----------------------------------------------------------------------------
(* Type correctness                                                         *)

LEMMA InitType == Init => TypeOK
BY MailboxAssumption, LegacyAssumption
   DEF Init, TypeOK, Row, NoRow, WakeRow, NoWake, NoAnswer

\* The updates of a mail row keep its type.
LEMMA RowUpdates ==
  ASSUME NEW w \in Row
  PROVE  /\ [w EXCEPT !.excluded = TRUE] \in Row
         /\ [w EXCEPT !.excluded = TRUE, !.status = "cancelled"] \in Row
         /\ [w EXCEPT !.published = TRUE] \in Row
         /\ \A b \in Chats \X Requests \X Runs : [w EXCEPT !.read = b] \in Row
<1> DEFINE Rows(R) ==
      [seq : Nat, src : Chats \cup {None}, tgt : Chats \cup {None}, pair : Pairs \cup {None},
       parent : Messages \cup Direct \cup {None}, status : {"absent", "stored", "cancelled"},
       read : R \cup {None}, excluded : BOOLEAN, published : BOOLEAN]
<1>1. \A R : \A v \in Rows(R), b \in R : [v EXCEPT !.read = b] \in Rows(R)
  OBVIOUS
<1>2. \A R : \A v \in Rows(R) : [v EXCEPT !.excluded = TRUE] \in Rows(R)
  OBVIOUS
<1>3. \A R : \A v \in Rows(R) : [v EXCEPT !.excluded = TRUE, !.status = "cancelled"] \in Rows(R)
  OBVIOUS
<1>4. \A R : \A v \in Rows(R) : [v EXCEPT !.published = TRUE] \in Rows(R)
  OBVIOUS
<1>5. Row = Rows(Chats \X Requests \X Runs)
  BY DEF Row
<1> HIDE DEF Rows
<1>6. QED
  BY <1>1, <1>2, <1>3, <1>4, <1>5

\* The answer of a caller that is not a reader is forgotten.
LEMMA NoAnswerType == NoAnswer \in [ids : SUBSET Messages, grant : SUBSET Pairs]
BY DEF NoAnswer

LEMMA StoreMessageType ==
  ASSUME TypeOK, NEW m \in Messages, NEW s \in Chats, NEW t \in Chats, NEW p \in Pairs,
         NEW parent \in Messages \cup Direct \cup {None}, StoreMessage(m, s, t, p, parent)
  PROVE  TypeOK'
<1> DEFINE row == [seq |-> lastSeq + 1, src |-> s, tgt |-> t, pair |-> p, parent |-> parent,
                   status |-> "stored", read |-> None, excluded |-> FALSE, published |-> FALSE]
<1>1. row \in Row /\ row.seq = lastSeq + 1 /\ row.status = "stored"
  BY DEF TypeOK, Row
<1>2. mail' = [mail EXCEPT ![m] = row] /\ lastSeq' = lastSeq + 1
  BY DEF StoreMessage
<1>3. mail' \in [Messages -> Row] /\ lastSeq' \in Nat
  BY <1>1, <1>2 DEF TypeOK
<1>4. ASSUME NEW n \in Messages
      PROVE  mail'[n].seq <= lastSeq' /\ (mail'[n].seq = 0 <=> mail'[n].status = "absent")
  <2>1. CASE n = m
    BY <1>1, <1>2, <2>1 DEF TypeOK
  <2>2. CASE n # m
    BY <1>2, <2>2 DEF TypeOK, Row
  <2>3. QED BY <2>1, <2>2
<1>5. QED
  BY <1>3, <1>4, NoAnswerType DEF StoreMessage, TypeOK, wakeVars

LEMMA CancelMessageType ==
  ASSUME TypeOK, NEW m \in Messages, CancelMessage(m) PROVE TypeOK'
<1>1. mail' = [mail EXCEPT ![m].excluded = TRUE, ![m].status = "cancelled"]
  BY DEF CancelMessage
<1>2. mail[m].status = "stored"
  BY DEF CancelMessage, Cancellable, Valid
<1>3. mail' \in [Messages -> Row]
  <2>1. mail' = [mail EXCEPT ![m] = [mail[m] EXCEPT !.excluded = TRUE, !.status = "cancelled"]]
    BY <1>1
  <2>2. QED BY <2>1, RowUpdates DEF TypeOK
<1>4. \A n \in Messages : mail'[n].seq = mail[n].seq
                          /\ (mail'[n].status = "absent" <=> mail[n].status = "absent")
  BY <1>1, <1>2 DEF TypeOK, Row
<1>5. QED
  BY <1>3, <1>4, NoAnswerType DEF CancelMessage, TypeOK, wakeVars

LEMMA ExcludeAllType ==
  ASSUME TypeOK, NEW S, ExcludeAll(S) PROVE TypeOK'
<1>1. mail' = [m \in Messages |-> IF m \in S /\ ~mail[m].excluded
                                  THEN [mail[m] EXCEPT !.excluded = TRUE] ELSE mail[m]]
  BY DEF ExcludeAll
<1>2. mail' \in [Messages -> Row]
  BY <1>1, RowUpdates DEF TypeOK
<1>3. \A n \in Messages : mail'[n].seq = mail[n].seq /\ mail'[n].status = mail[n].status
  BY <1>1 DEF TypeOK, Row
<1>4. QED
  BY <1>2, <1>3, NoAnswerType DEF ExcludeAll, TypeOK, wakeVars

LEMMA MarkReadEventPublishedType ==
  ASSUME TypeOK, NEW m \in Messages, MarkReadEventPublished(m) PROVE TypeOK'
<1>1. mail' = [mail EXCEPT ![m].published = TRUE]
  BY DEF MarkReadEventPublished
<1>2. mail' \in [Messages -> Row]
  BY <1>1, RowUpdates DEF TypeOK
<1>3. \A n \in Messages : mail'[n].seq = mail[n].seq /\ mail'[n].status = mail[n].status
  BY <1>1 DEF TypeOK, Row
<1>4. QED
  BY <1>2, <1>3, NoAnswerType DEF MarkReadEventPublished, TypeOK, wakeVars

\* Every batch a request can name has the type of a batch.
LEMMA NamedBatchesType ==
  ASSUME TypeOK, NEW t \in Chats, NEW s \in Chats, NEW run \in Runs, NEW r \in Requests,
         NEW after, NEW limit \in Limits, NEW b \in NamedBatches(t, s, run, r, after, limit)
  PROVE  b \in ReadRow
<1>1. BatchesOf(t, r) \subseteq ReadRow
  BY DEF BatchesOf, TypeOK
<1>2. NewBatches(t, s, run, r, limit) \subseteq ReadRow
  BY DEF NewBatches, ReadRow, TypeOK
<1>3. QED
  BY <1>1, <1>2 DEF NamedBatches

\* Taking a page keeps the types of the receipts and the mail, and stamps only
\* mail that is stored, valid and unread.
LEMMA TakePageType ==
  ASSUME TypeOK, NEW b \in ReadRow, NEW grant \in SUBSET Pairs, NEW after \in Nat, NEW limit,
         TakePage(b, grant, after, limit)
  PROVE  /\ pages' \subseteq PageRow
         /\ mail' \in [Messages -> Row]
         /\ \A n \in Messages : mail'[n].seq = mail[n].seq /\ mail'[n].status = mail[n].status
<1>1. PICK ids \in SUBSET Candidates(b, grant, after), end \in 0 .. lastSeq :
        /\ pages' = pages \cup {[read |-> b.id, after |-> after, end |-> end,
                                 more |-> ids # Candidates(b, grant, after), ids |-> ids]}
        /\ mail' = [m \in Messages |->
                      IF m \in ids THEN [mail[m] EXCEPT !.read = b.id] ELSE mail[m]]
  BY DEF TakePage
<1>2. ids \subseteq Messages /\ end \in Nat /\ b.id \in Chats \X Requests \X Runs
  BY DEF Candidates, Scope, ReadRow, TypeOK
<1>3. pages' \subseteq PageRow
  <2> DEFINE R == Chats \X Requests \X Runs
             new == [read |-> b.id, after |-> after, end |-> end,
                     more |-> ids # Candidates(b, grant, after), ids |-> ids]
  <2>1. b.id \in R /\ PageRow = [read : R, after : Nat, end : Nat, more : BOOLEAN, ids : SUBSET Messages]
    BY <1>2 DEF PageRow
  <2>2. pages' = pages \cup {new} /\ pages \subseteq PageRow
    BY <1>1 DEF TypeOK
  <2> HIDE DEF R
  <2>3. new \in PageRow
    BY <1>2, <2>1
  <2> HIDE DEF new
  <2>4. QED BY <2>2, <2>3
<1>4. mail' \in [Messages -> Row]
  BY <1>1, <1>2, RowUpdates DEF TypeOK
<1>5. QED
  BY <1>1, <1>3, <1>4 DEF TypeOK, Row

LEMMA ReadSenderType ==
  ASSUME TypeOK, NEW t \in Chats, NEW s \in Chats, NEW run \in Runs, NEW r \in Requests,
         NEW grant \in Grants, NEW after \in 0 .. lastSeq, NEW limit \in Limits,
         ReadSender(t, s, run, r, grant, after, limit)
  PROVE  TypeOK'
<1>1. PICK b \in NamedBatches(t, s, run, r, after, limit) :
        /\ reads' = reads \cup {b}
        /\ IF PageAt(b, after) # {} THEN UNCHANGED <<pages, mail>>
           ELSE TakePage(b, grant, after, limit)
        /\ answer' = [ids |-> Disclosed(b, grant, after)', grant |-> grant]
  BY DEF ReadSender
<1>2. b \in ReadRow
  BY NamedBatchesType
<1>3. grant \in SUBSET Pairs /\ after \in Nat
  BY MailboxAssumption DEF TypeOK
<1>4. /\ pages' \subseteq PageRow
      /\ mail' \in [Messages -> Row]
      /\ \A n \in Messages : mail'[n].seq = mail[n].seq /\ mail'[n].status = mail[n].status
  BY <1>1, <1>2, <1>3, TakePageType DEF TypeOK
<1>5. Disclosed(b, grant, after)' \subseteq Messages
  BY DEF Disclosed, Scope
<1>6. answer' \in [ids : SUBSET Messages, grant : SUBSET Pairs]
  BY <1>1, <1>3, <1>5
<1>7. reads' \subseteq ReadRow
  BY <1>1, <1>2 DEF TypeOK
<1>8. QED
  BY <1>4, <1>6, <1>7 DEF ReadSender, TypeOK, wakeVars

\* An update of one chat's row that keeps the type keeps the table's.
LEMMA WakeTable ==
  ASSUME TypeOK, NEW t \in Chats, NEW w \in WakeRow, Coherent(w),
         wake' = [wake EXCEPT ![t] = w]
  PROVE  /\ wake' \in [Chats -> WakeRow]
         /\ \A u \in Chats : wake'[u].state = "idle" <=> wake'[u].claim = None
BY DEF TypeOK, Coherent

LEMMA ClaimWakeType ==
  ASSUME TypeOK, NEW t \in Chats, NEW grant \in Grants, ClaimWake(t, grant)
  PROVE  TypeOK'
<1>1. PICK c \in Claims, n \in 1 .. lastSeq :
        /\ wake' = [wake EXCEPT ![t].claim = c, ![t].through = n, ![t].state = "reserved"]
        /\ held' = [held EXCEPT ![t] = @ \cup {c}]
  BY DEF ClaimWake
<1>2. c # None
  BY MailboxAssumption
<1> DEFINE w == [wake[t] EXCEPT !.claim = c, !.through = n, !.state = "reserved"]
<1>3. w \in WakeRow /\ Coherent(w)
  <2>1. wake[t] \in WakeRow /\ n \in Nat
    BY DEF TypeOK
  <2>2. QED BY <1>2, <2>1 DEF WakeRow, Coherent
<1>4. wake' = [wake EXCEPT ![t] = w]
  BY <1>1
<1> HIDE DEF w
<1>5. /\ wake' \in [Chats -> WakeRow]
      /\ \A u \in Chats : wake'[u].state = "idle" <=> wake'[u].claim = None
  BY <1>3, <1>4, WakeTable
<1>6. held' \in [Chats -> SUBSET Claims]
  BY <1>1 DEF TypeOK
<1>7. QED
  BY <1>5, <1>6, NoAnswerType DEF ClaimWake, TypeOK

LEMMA AdmitWakeType ==
  ASSUME TypeOK, NEW t \in Chats, NEW c \in Claims, NEW grant \in Grants,
         AdmitWake(t, c, grant)
  PROVE  TypeOK'
<1>1. wake' = [wake EXCEPT ![t] = Admitted(wake[t])] /\ wake[t].claim # None
  BY MailboxAssumption DEF AdmitWake
<1>2. wake[t] \in WakeRow
  BY DEF TypeOK
<1>3. /\ wake' \in [Chats -> WakeRow]
      /\ \A u \in Chats : wake'[u].state = "idle" <=> wake'[u].claim = None
  BY <1>1, <1>2, AdmittedType, WakeTable
<1>4. launches' \in [Chats -> Seq(Nat)]
  BY <1>2 DEF AdmitWake, TypeOK, WakeRow
<1>5. spent' \in [Chats -> SUBSET Messages]
  BY DEF AdmitWake, TypeOK, Unread
<1>6. QED
  BY <1>3, <1>4, <1>5, NoAnswerType DEF AdmitWake, TypeOK

LEMMA ReleaseWakeType ==
  ASSUME TypeOK, NEW t \in Chats, NEW c \in Claims, ReleaseWake(t, c)
  PROVE  TypeOK'
<1> DEFINE w == IF wake[t].claim = c THEN IfReserved(wake[t]) ELSE wake[t]
<1>1. wake[t] \in WakeRow /\ Coherent(wake[t])
  BY DEF TypeOK, Coherent
<1>2. w \in WakeRow /\ Coherent(w)
  BY <1>1, IfReservedType
<1>3. wake' = [wake EXCEPT ![t] = w]
  BY DEF ReleaseWake
<1> HIDE DEF w
<1>4. /\ wake' \in [Chats -> WakeRow]
      /\ \A u \in Chats : wake'[u].state = "idle" <=> wake'[u].claim = None
  BY <1>2, <1>3, WakeTable
<1>5. held' \in [Chats -> SUBSET Claims]
  BY DEF ReleaseWake, TypeOK
<1>6. QED
  BY <1>4, <1>5, NoAnswerType DEF ReleaseWake, TypeOK

LEMMA SuppressWakeType ==
  ASSUME TypeOK, NEW t \in Chats, SuppressWake(t)
  PROVE  TypeOK'
<1>1. PICK n \in 0 .. lastSeq : wake' = [wake EXCEPT ![t] = IfReserved(Suppressed(wake[t], n))]
  BY DEF SuppressWake
<1>2. wake[t] \in WakeRow /\ Coherent(wake[t]) /\ n \in Nat
  BY DEF TypeOK, Coherent
<1>3. /\ wake' \in [Chats -> WakeRow]
      /\ \A u \in Chats : wake'[u].state = "idle" <=> wake'[u].claim = None
  BY <1>1, <1>2, SuppressedType, IfReservedType, WakeTable
<1>4. spent' \in [Chats -> SUBSET Messages]
  BY DEF SuppressWake, TypeOK, Unread
<1>5. QED
  BY <1>3, <1>4, NoAnswerType DEF SuppressWake, TypeOK

LEMMA RestartType == ASSUME TypeOK, Restart PROVE TypeOK'
<1>1. \A t \in Chats : IfReserved(wake[t]) \in WakeRow /\ Coherent(IfReserved(wake[t]))
  BY IfReservedType DEF TypeOK, Coherent
<1>2. /\ wake' \in [Chats -> WakeRow]
      /\ \A u \in Chats : wake'[u].state = "idle" <=> wake'[u].claim = None
  BY <1>1 DEF Restart, Recovered, Coherent
<1>3. held' \in [Chats -> SUBSET Claims]
  BY DEF Restart
<1>4. QED
  BY <1>2, <1>3, NoAnswerType DEF Restart, TypeOK

LEMMA StutterType == ASSUME TypeOK, UNCHANGED vars PROVE TypeOK'
BY DEF TypeOK, vars

LEMMA NextType == ASSUME TypeOK, Next PROVE TypeOK'
<1>1. Readers \subseteq Chats /\ Wakeable \subseteq Chats
  BY MailboxAssumption
<1>2. CASE Send
  BY <1>2, MailboxAssumption, StoreMessageType DEF Send
<1>3. CASE Withdraw
  BY <1>3, CancelMessageType, ExcludeAllType
     DEF Withdraw, ExcludeMessage, ExcludePair, ExcludeSession
<1>4. CASE Read
  BY <1>1, <1>4, ReadSenderType DEF Read
<1>5. CASE Announce
  BY <1>5, MarkReadEventPublishedType DEF Announce
<1>6. CASE Restart
  BY <1>6, RestartType
<1>7. CASE \E t \in Wakeable : Claim(t) \/ Admit(t) \/ Release(t) \/ SuppressWake(t)
  BY <1>1, <1>7, ClaimWakeType, AdmitWakeType, ReleaseWakeType, SuppressWakeType
     DEF Claim, Admit, Release
<1>8. QED
  BY <1>2, <1>3, <1>4, <1>5, <1>6, <1>7 DEF Next

\* Every reachable state has its type, whatever is sent, read, woken or lost in
\* a crash; in particular the wake row of a chat has a claim iff it is in use.
THEOREM TypeCorrect == Spec => []TypeOK
<1>1. Init => TypeOK
  BY InitType
<1>2. TypeOK /\ [Next]_vars => TypeOK'
  BY NextType, StutterType
<1>3. QED
  BY <1>1, <1>2, PTL DEF Spec

-----------------------------------------------------------------------------
(* Wakes: the two cutoffs of a chat cover all it was ever launched for, so   *)
(* they are the part of the past that the safety of a launch needs.          *)

WakeInv ==
  /\ \A t \in Chats : \A m \in spent[t] :
       mail[m].status # "absent" /\ mail[m].seq <= Cutoff(t)
  /\ \A t \in Chats : \A i \in 1 .. Len(launches[t]) : launches[t][i] <= wake[t].last

\* What an operation may do to one chat's row: no cutoff is lowered.
NotLowered(v, w) == v.last <= w.last /\ v.supp <= w.supp

LEMMA LargerMonotone ==
  ASSUME NEW v \in WakeRow, NEW w \in WakeRow, NotLowered(v, w)
  PROVE  Larger(v.last, v.supp) <= Larger(w.last, w.supp)
BY DEF WakeRow, NotLowered, Larger

LEMMA IfReservedKeeps ==
  ASSUME NEW w \in WakeRow
  PROVE  IfReserved(w).last = w.last /\ IfReserved(w).supp = w.supp
BY DEF IfReserved, Unreserved, WakeRow

\* An operation that neither launches nor stops anything keeps the invariant.
LEMMA QuietKeepsWakeInv ==
  ASSUME TypeOK, TypeOK', WakeInv, UNCHANGED <<launches, spent>>,
         \A t \in Chats : NotLowered(wake[t], wake'[t]),
         \A m \in Messages : mail[m].status # "absent" =>
           mail'[m].status # "absent" /\ mail'[m].seq = mail[m].seq
  PROVE  WakeInv'
<1>1. \A t \in Chats : wake[t] \in WakeRow /\ wake'[t] \in WakeRow
  BY DEF TypeOK
<1>2. \A t \in Chats : Cutoff(t) \in Nat /\ Cutoff(t)' \in Nat /\ Cutoff(t) <= Cutoff(t)'
  BY <1>1, LargerMonotone, LargerNat DEF Cutoff, WakeRow
<1>3. ASSUME NEW t \in Chats, NEW m \in spent'[t]
      PROVE  mail'[m].status # "absent" /\ mail'[m].seq <= Cutoff(t)'
  <2>1. m \in Messages /\ mail[m].seq \in Nat
    BY <1>3 DEF TypeOK, Row
  <2>2. mail[m].status # "absent" /\ mail[m].seq <= Cutoff(t)
    BY <1>3 DEF WakeInv
  <2>3. QED BY <1>2, <2>1, <2>2
<1>4. ASSUME NEW t \in Chats, NEW i \in 1 .. Len(launches'[t])
      PROVE  launches'[t][i] <= wake'[t].last
  <2>1. launches[t] \in Seq(Nat) /\ launches'[t] = launches[t]
    BY DEF TypeOK
  <2>2. launches[t][i] <= wake[t].last /\ launches[t][i] \in Nat
    BY <1>4, <2>1 DEF WakeInv
  <2>3. wake[t].last <= wake'[t].last /\ wake[t].last \in Nat /\ wake'[t].last \in Nat
    BY <1>1 DEF NotLowered, WakeRow
  <2>4. QED BY <2>1, <2>2, <2>3
<1>5. QED
  BY <1>3, <1>4 DEF WakeInv

\* A launch has mail of its own, and goes beyond every earlier launch.
LEMMA AdmitHasNewMail ==
  ASSUME TypeOK, WakeInv, NEW t \in Chats, NEW c \in Claims, NEW grant \in Grants,
         AdmitWake(t, c, grant)
  PROVE  /\ Unread(t) \ spent[t] # {}
         /\ wake[t].last < wake[t].through
<1>1. PICK m \in Eligible(t, grant) : mail[m].seq <= wake[t].through
  BY DEF AdmitWake
<1>2. m \in Unread(t) /\ m \in Messages /\ mail[m].seq > Cutoff(t)
  BY DEF Eligible, Unread
<1>3. mail[m].seq \in Nat /\ wake[t] \in WakeRow
  BY <1>2 DEF TypeOK, Row
<1>4. Cutoff(t) \in Nat /\ Cutoff(t) >= wake[t].last
  BY <1>3, LargerNat DEF Cutoff, WakeRow
<1>5. m \notin spent[t]
  BY <1>2, <1>3, <1>4 DEF WakeInv
<1>6. QED
  BY <1>1, <1>2, <1>3, <1>4, <1>5 DEF WakeRow

\* What each operation does to the mail that WakeInv speaks of.
LEMMA MailStays ==
  ASSUME TypeOK, Next
  PROVE  \A m \in Messages : mail[m].status # "absent" =>
           mail'[m].status # "absent" /\ mail'[m].seq = mail[m].seq
<1> USE DEF TypeOK, Row
<1>1. CASE Send
  BY <1>1, MailboxAssumption DEF Send, StoreMessage
<1>2. ASSUME NEW n \in Messages, CancelMessage(n)
      PROVE  \A m \in Messages : mail[m].status # "absent" =>
               mail'[m].status # "absent" /\ mail'[m].seq = mail[m].seq
  BY <1>2 DEF CancelMessage
<1>3. ASSUME NEW S, ExcludeAll(S)
      PROVE  \A m \in Messages : mail[m].status # "absent" =>
               mail'[m].status # "absent" /\ mail'[m].seq = mail[m].seq
  BY <1>3 DEF ExcludeAll
<1>4. CASE Withdraw
  BY <1>2, <1>3, <1>4 DEF Withdraw, ExcludeMessage, ExcludePair, ExcludeSession
<1>5. CASE Announce
  BY <1>5 DEF Announce, MarkReadEventPublished
<1>6. CASE Read
  <2>1. PICK s \in Chats, t \in Chats, run \in Runs, r \in Requests, grant \in Grants,
             after \in 0 .. lastSeq, limit \in Limits :
          ReadSender(t, s, run, r, grant, after, limit)
    BY <1>6, MailboxAssumption DEF Read
  <2>2. PICK b \in NamedBatches(t, s, run, r, after, limit) :
          \/ UNCHANGED mail
          \/ TakePage(b, grant, after, limit)
    BY <2>1 DEF ReadSender
  <2>3. b \in ReadRow
    BY NamedBatchesType
  <2>4. grant \in SUBSET Pairs /\ after \in Nat
    BY MailboxAssumption
  <2>5. QED
    BY <2>2, <2>3, <2>4, TakePageType
<1>7. CASE Restart
  BY <1>7 DEF Restart
<1>8. CASE \E t \in Wakeable : Claim(t) \/ Admit(t) \/ Release(t) \/ SuppressWake(t)
  BY <1>8 DEF Claim, Admit, Release, ClaimWake, AdmitWake, ReleaseWake, SuppressWake
<1>9. QED
  BY <1>1, <1>4, <1>5, <1>6, <1>7, <1>8 DEF Next

LEMMA SameIsNotLowered ==
  ASSUME TypeOK PROVE \A t \in Chats : NotLowered(wake[t], wake[t])
BY DEF TypeOK, WakeRow, NotLowered

LEMMA AdmitKeepsWakeInv ==
  ASSUME TypeOK, TypeOK', WakeInv, NEW t \in Chats, NEW c \in Claims, NEW grant \in Grants,
         AdmitWake(t, c, grant)
  PROVE  WakeInv'
<1> DEFINE w == Admitted(wake[t])
<1>1. wake[t] \in WakeRow
  BY DEF TypeOK
<1>2. /\ w.last \in Nat /\ w.supp \in Nat /\ w.supp = wake[t].supp
      /\ w.last >= wake[t].last /\ w.last >= wake[t].through
  <2>1. w.last = Larger(wake[t].last, wake[t].through) /\ w.supp = wake[t].supp
    BY <1>1 DEF Admitted, WakeRow
  <2>2. QED BY <1>1, <2>1, LargerNat DEF WakeRow
<1>3. wake' = [wake EXCEPT ![t] = w] /\ UNCHANGED mail
  BY DEF AdmitWake
<1>4. wake'[t] = w /\ \A u \in Chats \ {t} : wake'[u] = wake[u]
  BY <1>3 DEF TypeOK
<1> HIDE DEF w
<1>5. \A u \in Chats : NotLowered(wake[u], wake'[u]) /\ wake[u] \in WakeRow /\ wake'[u] \in WakeRow
  BY <1>1, <1>2, <1>4, SameIsNotLowered DEF NotLowered, TypeOK
<1>6. \A u \in Chats : Cutoff(u) \in Nat /\ Cutoff(u)' \in Nat /\ Cutoff(u) <= Cutoff(u)'
  BY <1>5, LargerMonotone, LargerNat DEF Cutoff, WakeRow
<1>7. ASSUME NEW u \in Chats, NEW m \in spent'[u]
      PROVE  mail'[m].status # "absent" /\ mail'[m].seq <= Cutoff(u)'
  <2>1. CASE m \in spent[u]
    <3>1. mail[m].status # "absent" /\ mail[m].seq <= Cutoff(u) /\ mail[m].seq \in Nat
      BY <2>1 DEF WakeInv, TypeOK, Row
    <3>2. QED BY <1>3, <1>6, <3>1
  <2>2. CASE m \notin spent[u]
    <3>1. u = t /\ m \in Unread(t) /\ mail[m].seq <= wake[t].through
      BY <1>7, <2>2 DEF AdmitWake, TypeOK
    <3>2. mail[m].status # "absent" /\ mail[m].seq \in Nat
      BY <3>1 DEF Unread, Valid, TypeOK, Row
    <3>3. Cutoff(t)' >= w.last
      BY <1>2, <1>4, LargerNat DEF Cutoff
    <3>4. QED
      BY <1>1, <1>2, <1>3, <1>6, <3>1, <3>2, <3>3 DEF WakeRow
  <2>3. QED BY <2>1, <2>2
<1>8. ASSUME NEW u \in Chats, NEW i \in 1 .. Len(launches'[u])
      PROVE  launches'[u][i] <= wake'[u].last
  <2>1. launches[u] \in Seq(Nat)
    BY DEF TypeOK
  <2>2. launches' = [launches EXCEPT ![t] = Append(@, wake[t].through)]
    BY DEF AdmitWake
  <2>3. wake[u].last <= wake'[u].last /\ wake[u].last \in Nat /\ wake'[u].last \in Nat
    BY <1>5 DEF NotLowered, WakeRow
  <2>4. CASE i \in 1 .. Len(launches[u])
    <3>1. launches'[u][i] = launches[u][i] /\ launches[u][i] \in Nat
      BY <2>1, <2>2, <2>4 DEF TypeOK
    <3>2. QED BY <2>3, <2>4, <3>1 DEF WakeInv
  <2>5. CASE i \notin 1 .. Len(launches[u])
    <3>1. u = t /\ launches'[u][i] = wake[t].through
      BY <2>1, <2>2, <2>5, <1>8 DEF TypeOK
    <3>2. QED BY <1>1, <1>2, <1>4, <3>1 DEF WakeRow
  <2>6. QED BY <2>4, <2>5
<1>9. QED
  BY <1>7, <1>8 DEF WakeInv

LEMMA SuppressKeepsWakeInv ==
  ASSUME TypeOK, TypeOK', WakeInv, NEW t \in Chats, SuppressWake(t)
  PROVE  WakeInv'
<1>1. PICK n \in 0 .. lastSeq :
        /\ IsMax(n, SeqsOf(Unread(t)))
        /\ wake' = [wake EXCEPT ![t] = IfReserved(Suppressed(wake[t], n))]
  BY DEF SuppressWake
<1> DEFINE w == IfReserved(Suppressed(wake[t], n))
<1>2. wake[t] \in WakeRow /\ Coherent(wake[t]) /\ n \in Nat
  BY DEF TypeOK, Coherent
<1>3. w.last = wake[t].last /\ w.supp = Larger(wake[t].supp, n)
  <2>1. Suppressed(wake[t], n) \in WakeRow
    BY <1>2, SuppressedType
  <2>2. /\ Suppressed(wake[t], n).last = wake[t].last
        /\ Suppressed(wake[t], n).supp = Larger(wake[t].supp, n)
    BY <1>2 DEF Suppressed, WakeRow
  <2>3. QED BY <2>1, <2>2, IfReservedKeeps
<1>4. w.last \in Nat /\ w.supp \in Nat /\ w.supp >= wake[t].supp /\ w.supp >= n
  BY <1>2, <1>3, LargerNat DEF WakeRow
<1>5. wake'[t] = w /\ (\A u \in Chats \ {t} : wake'[u] = wake[u]) /\ UNCHANGED <<mail, launches>>
  BY <1>1 DEF SuppressWake, TypeOK
<1> HIDE DEF w
<1>6. \A u \in Chats : NotLowered(wake[u], wake'[u]) /\ wake[u] \in WakeRow /\ wake'[u] \in WakeRow
  <2>1. wake[t].last \in Nat /\ wake[t].supp \in Nat
    BY <1>2 DEF WakeRow
  <2>2. NotLowered(wake[t], w)
    BY <1>3, <1>4, <2>1 DEF NotLowered
  <2>3. QED BY <1>5, <2>2, SameIsNotLowered DEF TypeOK
<1>7. \A u \in Chats : Cutoff(u) \in Nat /\ Cutoff(u)' \in Nat /\ Cutoff(u) <= Cutoff(u)'
  BY <1>6, LargerMonotone, LargerNat DEF Cutoff, WakeRow
<1>8. ASSUME NEW u \in Chats, NEW m \in spent'[u]
      PROVE  mail'[m].status # "absent" /\ mail'[m].seq <= Cutoff(u)'
  <2>1. CASE m \in spent[u]
    <3>1. mail[m].status # "absent" /\ mail[m].seq <= Cutoff(u) /\ mail[m].seq \in Nat
      BY <2>1 DEF WakeInv, TypeOK, Row
    <3>2. QED BY <1>5, <1>7, <3>1
  <2>2. CASE m \notin spent[u]
    <3>1. u = t /\ m \in Unread(t)
      BY <1>8, <2>2 DEF SuppressWake, TypeOK
    <3>2. mail[m].status # "absent" /\ mail[m].seq \in Nat
      BY <3>1 DEF Unread, Valid, TypeOK, Row
    <3>3. mail[m].seq <= n
      BY <1>1, <3>1 DEF IsMax, SeqsOf
    <3>4. Cutoff(t)' >= w.supp
      BY <1>4, <1>5, LargerNat DEF Cutoff
    <3>5. QED
      BY <1>2, <1>4, <1>5, <1>7, <3>1, <3>2, <3>3, <3>4
  <2>3. QED BY <2>1, <2>2
<1>9. ASSUME NEW u \in Chats, NEW i \in 1 .. Len(launches'[u])
      PROVE  launches'[u][i] <= wake'[u].last
  <2>1. launches[u] \in Seq(Nat) /\ launches'[u] = launches[u]
    BY <1>5 DEF TypeOK
  <2>2. launches[u][i] <= wake[u].last /\ launches[u][i] \in Nat
    BY <1>9, <2>1 DEF WakeInv
  <2>3. wake[u].last <= wake'[u].last /\ wake[u].last \in Nat /\ wake'[u].last \in Nat
    BY <1>6 DEF NotLowered, WakeRow
  <2>4. QED BY <2>1, <2>2, <2>3
<1>10. QED
  BY <1>8, <1>9 DEF WakeInv

\* The remaining wake operations change no cutoff.
LEMMA OthersLowerNothing ==
  ASSUME TypeOK,
         \/ \E t \in Chats, grant \in Grants : ClaimWake(t, grant)
         \/ \E t \in Chats, c \in Claims : ReleaseWake(t, c)
         \/ Restart
         \/ UNCHANGED wake
  PROVE  \A u \in Chats : NotLowered(wake[u], wake'[u])
<1>1. \A u \in Chats : wake[u] \in WakeRow
  BY DEF TypeOK
<1>2. \A u \in Chats : NotLowered(wake[u], IfReserved(wake[u]))
  BY <1>1, IfReservedKeeps DEF NotLowered, WakeRow
<1>3. ASSUME NEW t \in Chats, NEW grant \in Grants, ClaimWake(t, grant)
      PROVE  \A u \in Chats : NotLowered(wake[u], wake'[u])
  <2>1. PICK c \in Claims, n \in 1 .. lastSeq :
          wake' = [wake EXCEPT ![t].claim = c, ![t].through = n, ![t].state = "reserved"]
    BY <1>3 DEF ClaimWake
  <2>2. \A u \in Chats : wake'[u].last = wake[u].last /\ wake'[u].supp = wake[u].supp
    BY <2>1 DEF TypeOK, WakeRow
  <2>3. QED BY <1>1, <2>2 DEF NotLowered, WakeRow
<1>4. ASSUME NEW t \in Chats, NEW c \in Claims, ReleaseWake(t, c)
      PROVE  \A u \in Chats : NotLowered(wake[u], wake'[u])
  BY <1>2, <1>4, SameIsNotLowered DEF ReleaseWake, TypeOK
<1>5. CASE Restart
  BY <1>2, <1>5 DEF Restart, Recovered
<1>6. CASE UNCHANGED wake
  BY <1>6, SameIsNotLowered
<1>7. QED
  BY <1>3, <1>4, <1>5, <1>6

LEMMA NextWakeInv == ASSUME TypeOK, WakeInv, [Next]_vars PROVE WakeInv'
<1>1. TypeOK' /\ Readers \subseteq Chats /\ Wakeable \subseteq Chats
  BY NextType, StutterType, MailboxAssumption
<1>2. \A m \in Messages : mail[m].status # "absent" =>
        mail'[m].status # "absent" /\ mail'[m].seq = mail[m].seq
  BY MailStays DEF vars
<1>3. CASE UNCHANGED wakeVars
  <2>1. UNCHANGED <<wake, launches, spent>>
    BY <1>3 DEF wakeVars
  <2>2. QED BY <1>1, <1>2, <2>1, OthersLowerNothing, QuietKeepsWakeInv
<1>4. CASE Restart
  <2>1. UNCHANGED <<launches, spent>>
    BY <1>4 DEF Restart
  <2>2. QED BY <1>1, <1>2, <1>4, <2>1, OthersLowerNothing, QuietKeepsWakeInv
<1>5. CASE \E t \in Chats, grant \in Grants : ClaimWake(t, grant)
  <2>1. UNCHANGED <<launches, spent>>
    BY <1>5 DEF ClaimWake
  <2>2. QED BY <1>1, <1>2, <1>5, <2>1, OthersLowerNothing, QuietKeepsWakeInv
<1>6. CASE \E t \in Chats, c \in Claims : ReleaseWake(t, c)
  <2>1. UNCHANGED <<launches, spent>>
    BY <1>6 DEF ReleaseWake
  <2>2. QED BY <1>1, <1>2, <1>6, <2>1, OthersLowerNothing, QuietKeepsWakeInv
<1>7. CASE \E t \in Chats, c \in Claims, grant \in Grants : AdmitWake(t, c, grant)
  BY <1>1, <1>7, AdmitKeepsWakeInv
<1>8. CASE \E t \in Chats : SuppressWake(t)
  BY <1>1, <1>8, SuppressKeepsWakeInv
<1>9. Send \/ Withdraw \/ Read \/ Announce \/ UNCHANGED vars => UNCHANGED wakeVars
  BY DEF Send, Withdraw, Read, Announce, StoreMessage, CancelMessage, ExcludeMessage, ExcludePair,
         ExcludeSession, ExcludeAll, ReadSender, MarkReadEventPublished, vars, wakeVars
<1>10. QED
  BY <1>1, <1>3, <1>4, <1>5, <1>6, <1>7, <1>8, <1>9 DEF Next, Claim, Admit, Release

THEOREM WakeCorrect == Spec => [](TypeOK /\ WakeInv)
<1>1. Init => TypeOK /\ WakeInv
  <2>1. ASSUME Init PROVE WakeInv
    BY <2>1 DEF Init, WakeInv
  <2>2. QED BY <2>1, InitType
<1>2. TypeOK /\ WakeInv /\ [Next]_vars => (TypeOK /\ WakeInv)'
  BY NextWakeInv, NextType, StutterType
<1>3. QED
  BY <1>1, <1>2, PTL DEF Spec

\* Only an admission launches, and it changes the history of its chat alone.
LEMMA LaunchIsAdmission ==
  ASSUME TypeOK, [Next]_vars
  PROVE  \/ UNCHANGED launches
         \/ \E t \in Chats, c \in Claims, grant \in Grants :
              /\ AdmitWake(t, c, grant)
              /\ launches' = [launches EXCEPT ![t] = Append(@, wake[t].through)]
<1>1. Send \/ Withdraw \/ Read \/ Announce \/ Restart \/ UNCHANGED vars => UNCHANGED launches
  BY DEF Send, Withdraw, Read, Announce, StoreMessage, CancelMessage, ExcludeMessage, ExcludePair,
         ExcludeSession, ExcludeAll, ReadSender, MarkReadEventPublished, Restart, vars, wakeVars
<1>2. ASSUME NEW t \in Wakeable, Claim(t) \/ Release(t) \/ SuppressWake(t)
      PROVE  UNCHANGED launches
  BY <1>2 DEF Claim, ClaimWake, Release, ReleaseWake, SuppressWake
<1>3. ASSUME NEW t \in Wakeable, Admit(t)
      PROVE  \E c \in Claims, grant \in Grants :
               /\ AdmitWake(t, c, grant)
               /\ launches' = [launches EXCEPT ![t] = Append(@, wake[t].through)]
  BY <1>3 DEF Admit, AdmitWake
<1>4. QED
  BY <1>1, <1>2, <1>3, MailboxAssumption DEF Next

\* Each launch of a chat has an unread message that no earlier launch or Stop of
\* that chat covered, for any number of chats, messages, claims and crashes.
THEOREM EachLaunchHasNewMail == Spec => WakeForNewMail
<1>1. TypeOK /\ WakeInv /\ [Next]_vars =>
        [\A t \in Chats : launches'[t] # launches[t] => Unread(t) \ spent[t] # {}]_vars
  <2> SUFFICES ASSUME TypeOK, WakeInv, [Next]_vars, NEW t \in Chats, launches'[t] # launches[t]
               PROVE  Unread(t) \ spent[t] # {}
    OBVIOUS
  <2>1. PICK u \in Chats, c \in Claims, grant \in Grants :
          /\ AdmitWake(u, c, grant)
          /\ launches' = [launches EXCEPT ![u] = Append(@, wake[u].through)]
    BY LaunchIsAdmission
  <2>2. u = t
    BY <2>1 DEF TypeOK
  <2>3. QED
    BY <2>1, <2>2, AdmitHasNewMail
<1>2. QED
  BY <1>1, WakeCorrect, PTL DEF Spec, WakeForNewMail

\* The cutoffs of a chat's launches strictly increase: no admitted attempt is
\* replayed, by a crash, a stale claim or a second claimant.
THEOREM LaunchesOnlyAdvance == Spec => []LaunchesAdvance
<1>1. Init => LaunchesAdvance
  BY DEF Init, LaunchesAdvance
<1>2. TypeOK /\ WakeInv /\ LaunchesAdvance /\ [Next]_vars => LaunchesAdvance'
  <2> SUFFICES ASSUME TypeOK, WakeInv, LaunchesAdvance, [Next]_vars,
                      NEW t \in Chats, NEW i \in 1 .. Len(launches'[t]) - 1
               PROVE  launches'[t][i] < launches'[t][i + 1]
    BY DEF LaunchesAdvance
  <2>1. launches[t] \in Seq(Nat)
    BY DEF TypeOK
  <2>2. CASE launches'[t] = launches[t]
    BY <2>2 DEF LaunchesAdvance
  <2>3. CASE launches'[t] # launches[t]
    <3>1. PICK u \in Chats, c \in Claims, grant \in Grants :
            /\ AdmitWake(u, c, grant)
            /\ launches' = [launches EXCEPT ![u] = Append(@, wake[u].through)]
      BY <2>3, LaunchIsAdmission
    <3>2. u = t
      BY <2>3, <3>1 DEF TypeOK
    <3>3. launches'[t] = Append(launches[t], wake[t].through)
      BY <3>1, <3>2 DEF TypeOK
    <3>4. wake[t].last < wake[t].through /\ wake[t].last \in Nat /\ wake[t].through \in Nat
      BY <3>1, <3>2, AdmitHasNewMail DEF TypeOK, WakeRow
    <3>5. \A k \in 1 .. Len(launches[t]) : launches[t][k] <= wake[t].last /\ launches[t][k] \in Nat
      BY <2>1 DEF WakeInv
    <3>6. CASE i < Len(launches[t])
      <4> DEFINE old == launches[t]
      <4>1. old \in Seq(Nat) /\ launches'[t] = Append(old, wake[t].through)
        BY <2>1, <3>3
      <4>2. i \in 1 .. Len(old) - 1 /\ i \in Nat /\ Len(old) \in Nat
        BY <2>1, <3>6
      <4>3. old[i] < old[i + 1]
        BY <4>2 DEF LaunchesAdvance
      <4> HIDE DEF old
      <4>4. Append(old, wake[t].through)[i] = old[i]
            /\ Append(old, wake[t].through)[i + 1] = old[i + 1]
        BY <3>4, <4>1, <4>2
      <4>5. QED BY <4>1, <4>3, <4>4
    <3>7. CASE i = Len(launches[t])
      <4> DEFINE old == launches[t]
      <4>1. old \in Seq(Nat) /\ i = Len(old) /\ i \in 1 .. Len(old)
        BY <2>1, <3>3, <3>7
      <4>2. old[i] <= wake[t].last /\ old[i] \in Nat
        BY <3>5, <4>1
      <4> HIDE DEF old
      <4>3. Append(old, wake[t].through)[i] = old[i]
            /\ Append(old, wake[t].through)[i + 1] = wake[t].through
        BY <3>4, <4>1
      <4>4. QED BY <3>3, <3>4, <4>2, <4>3 DEF old
    <3>8. Len(launches'[t]) = Len(launches[t]) + 1 /\ Len(launches[t]) \in Nat
      BY <2>1, <3>3, <3>4
    <3>9. QED
      BY <3>6, <3>7, <3>8
  <2>4. QED BY <2>2, <2>3
<1>3. QED
  BY <1>1, <1>2, WakeCorrect, PTL DEF Spec

-----------------------------------------------------------------------------
(* Receipts: mail that was never sent has no read, so a sent message cannot  *)
(* inherit one; a page takes unread mail only, so no message is taken twice. *)

AbsentUnread == \A m \in Messages : mail[m].status = "absent" => mail[m].read = None

ReceiptInv == ReceiptExact /\ AbsentUnread /\ ReadBeatsCancel

\* A read is never NULL.
LEMMA ReadNotNone == ASSUME TypeOK, NEW p \in pages PROVE p.read # None
<1>1. p.read \in Chats \X Requests \X Runs
  BY DEF TypeOK, PageRow
<1>2. QED
  BY <1>1, MailboxAssumption

\* An operation that reads nothing keeps the receipts, if it cancels no read mail.
LEMMA UnreadKeepsReceipts ==
  ASSUME TypeOK, ReceiptInv, UNCHANGED pages,
         \A m \in Messages :
           /\ mail'[m].read = mail[m].read
           /\ mail'[m].status = "absent" => mail[m].status = "absent"
           /\ mail'[m].status = "cancelled" => mail[m].status = "cancelled" \/ mail[m].read = None
  PROVE  ReceiptInv'
<1>1. \A p \in pages : p.ids \subseteq Messages
  BY DEF TypeOK, PageRow
<1>2. ReceiptExact'
  BY <1>1 DEF ReceiptInv, ReceiptExact
<1>3. AbsentUnread' /\ ReadBeatsCancel'
  BY DEF ReceiptInv, AbsentUnread, ReadBeatsCancel
<1>4. QED
  BY <1>2, <1>3 DEF ReceiptInv

LEMMA TakePageKeepsReceipts ==
  ASSUME TypeOK, ReceiptInv, NEW b \in ReadRow, NEW grant \in SUBSET Pairs, NEW after \in Nat,
         NEW limit, TakePage(b, grant, after, limit)
  PROVE  ReceiptInv'
<1>1. PICK ids \in SUBSET Candidates(b, grant, after), end \in 0 .. lastSeq :
        /\ pages' = pages \cup {[read |-> b.id, after |-> after, end |-> end,
                                 more |-> ids # Candidates(b, grant, after), ids |-> ids]}
        /\ mail' = [m \in Messages |->
                      IF m \in ids THEN [mail[m] EXCEPT !.read = b.id] ELSE mail[m]]
  BY DEF TakePage
<1> DEFINE new == [read |-> b.id, after |-> after, end |-> end,
                   more |-> ids # Candidates(b, grant, after), ids |-> ids]
<1>2. /\ pages' = pages \cup {new}
      /\ new.ids = ids /\ new.read = b.id
  BY <1>1
<1>3. ids \subseteq Messages /\ \A m \in ids : mail[m].read = None /\ mail[m].status = "stored"
  BY DEF Candidates, Scope, Valid
<1>4. \A m \in ids : mail'[m].read = b.id /\ mail'[m].status = "stored"
  BY <1>1, <1>3 DEF TypeOK, Row
<1>5. \A m \in Messages \ ids : mail'[m] = mail[m]
  BY <1>1
<1> HIDE DEF new
<1>6. ASSUME NEW p \in pages
      PROVE  p.ids \subseteq Messages /\ p.ids \cap ids = {}
  <2>1. p.ids \subseteq Messages
    BY DEF TypeOK, PageRow
  <2>2. \A m \in p.ids : mail[m].read = p.read
    BY DEF ReceiptInv, ReceiptExact
  <2>3. QED BY <1>3, <2>1, <2>2, ReadNotNone
<1>7. \A p \in pages' : \A m \in p.ids : mail'[m].read = p.read
  <2>1. \A p \in pages : \A m \in p.ids : mail'[m].read = p.read
    BY <1>5, <1>6 DEF ReceiptInv, ReceiptExact
  <2>2. QED BY <1>2, <1>4, <2>1
<1>8. \A m \in Messages : mail'[m].read # None => \E p \in pages' : m \in p.ids
  BY <1>2, <1>5 DEF ReceiptInv, ReceiptExact
<1>9. \A p, q \in pages' : p # q => p.ids \cap q.ids = {}
  <2>1. \A p, q \in pages : p # q => p.ids \cap q.ids = {}
    BY DEF ReceiptInv, ReceiptExact
  <2>2. QED BY <1>2, <1>6, <2>1
<1>10. AbsentUnread' /\ ReadBeatsCancel'
  BY <1>4, <1>5 DEF ReceiptInv, AbsentUnread, ReadBeatsCancel
<1>11. QED
  BY <1>7, <1>8, <1>9, <1>10 DEF ReceiptInv, ReceiptExact

LEMMA StoreKeepsReceipts ==
  ASSUME TypeOK, ReceiptInv, NEW m \in Messages, NEW s \in Chats, NEW t \in Chats, NEW p \in Pairs,
         NEW parent \in Messages \cup Direct \cup {None}, StoreMessage(m, s, t, p, parent)
  PROVE  ReceiptInv'
<1>1. mail[m].read = None
  BY DEF StoreMessage, ReceiptInv, AbsentUnread
<1>2. mail'[m].read = None /\ mail'[m].status = "stored"
      /\ \A n \in Messages \ {m} : mail'[n] = mail[n]
  BY DEF StoreMessage, TypeOK
<1>3. UNCHANGED pages
  BY DEF StoreMessage
<1>4. QED
  BY <1>1, <1>2, <1>3, UnreadKeepsReceipts

LEMMA NextReceipts == ASSUME TypeOK, ReceiptInv, [Next]_vars PROVE ReceiptInv'
<1>1. CASE UNCHANGED <<mail, pages>>
  BY <1>1, UnreadKeepsReceipts
<1>2. CASE Send
  BY <1>2, MailboxAssumption, StoreKeepsReceipts DEF Send
<1>3. ASSUME NEW m \in Messages, CancelMessage(m)
      PROVE  ReceiptInv'
  <2>1. UNCHANGED pages /\ mail[m].read = None
    BY <1>3 DEF CancelMessage, Cancellable
  <2>2. \A n \in Messages : mail'[n].read = mail[n].read
                            /\ (n # m => mail'[n].status = mail[n].status)
                            /\ mail'[m].status = "cancelled"
    BY <1>3 DEF CancelMessage, TypeOK, Row
  <2>3. QED BY <2>1, <2>2, UnreadKeepsReceipts
<1>4. ASSUME NEW S, ExcludeAll(S)
      PROVE  ReceiptInv'
  <2>1. UNCHANGED pages
        /\ \A n \in Messages : mail'[n].read = mail[n].read /\ mail'[n].status = mail[n].status
    BY <1>4 DEF ExcludeAll, TypeOK, Row
  <2>2. QED BY <2>1, UnreadKeepsReceipts
<1>5. CASE Withdraw
  BY <1>3, <1>4, <1>5 DEF Withdraw, ExcludeMessage, ExcludePair, ExcludeSession
<1>6. CASE Announce
  <2>1. UNCHANGED pages
        /\ \A n \in Messages : mail'[n].read = mail[n].read /\ mail'[n].status = mail[n].status
    BY <1>6 DEF Announce, MarkReadEventPublished, TypeOK, Row
  <2>2. QED BY <2>1, UnreadKeepsReceipts
<1>7. CASE Read
  <2>1. PICK s \in Chats, t \in Chats, run \in Runs, r \in Requests, grant \in Grants,
             after \in 0 .. lastSeq, limit \in Limits :
          ReadSender(t, s, run, r, grant, after, limit)
    BY <1>7, MailboxAssumption DEF Read
  <2>2. PICK b \in NamedBatches(t, s, run, r, after, limit) :
          \/ UNCHANGED <<pages, mail>>
          \/ TakePage(b, grant, after, limit)
    BY <2>1 DEF ReadSender
  <2>3. b \in ReadRow /\ grant \in SUBSET Pairs /\ after \in Nat
    BY NamedBatchesType, MailboxAssumption
  <2>4. QED
    BY <1>1, <2>2, <2>3, TakePageKeepsReceipts
<1>8. CASE UNCHANGED vars \/ Restart
           \/ \E t \in Wakeable : Claim(t) \/ Admit(t) \/ Release(t) \/ SuppressWake(t)
  BY <1>1, <1>8 DEF vars, Restart, Claim, Admit, Release, ClaimWake, AdmitWake, ReleaseWake,
                    SuppressWake
<1>9. QED
  BY <1>2, <1>5, <1>6, <1>7, <1>8 DEF Next

\* The receipts of the pages and the read stamps of the mail agree, no message
\* is handed out by two pages, and no message that was handed out is cancelled.
THEOREM ReceiptsCorrect == Spec => [](ReceiptExact /\ ReadBeatsCancel)
<1>1. Init => ReceiptInv
  <2>1. ASSUME Init PROVE \A m \in Messages : mail[m].read = None
    BY <2>1 DEF Init, NoRow
  <2>2. QED BY <2>1 DEF Init, ReceiptInv, ReceiptExact, AbsentUnread, ReadBeatsCancel
<1>2. TypeOK /\ ReceiptInv /\ [Next]_vars => ReceiptInv'
  BY NextReceipts
<1>3. ReceiptInv => ReceiptExact /\ ReadBeatsCancel
  BY DEF ReceiptInv
<1>4. QED
  BY <1>1, <1>2, <1>3, TypeCorrect, PTL DEF Spec

\* A cancellation is accepted only before the target's turn read the message:
\* a cancelled message was never handed out, and one handed out is never
\* cancelled (agent_server.py, cancel and exclude of chat mail).
THEOREM ReadsBeatCancel == Spec => []ReadBeatsCancel
<1>1. ReceiptExact /\ ReadBeatsCancel => ReadBeatsCancel
  OBVIOUS
<1>2. QED
  BY <1>1, ReceiptsCorrect, PTL

-----------------------------------------------------------------------------
(* A stored message never changes whom it is from, to, or about.            *)

Fixed(m) ==
  /\ mail'[m].status # "absent"
  /\ mail'[m].seq = mail[m].seq /\ mail'[m].src = mail[m].src /\ mail'[m].tgt = mail[m].tgt
  /\ mail'[m].pair = mail[m].pair /\ mail'[m].parent = mail[m].parent

LEMMA TakePageFixes ==
  ASSUME TypeOK, NEW b \in ReadRow, NEW grant, NEW after, NEW limit,
         TakePage(b, grant, after, limit)
  PROVE  \A m \in Messages : mail[m].status # "absent" => Fixed(m)
<1>1. PICK ids \in SUBSET Candidates(b, grant, after) :
        mail' = [m \in Messages |-> IF m \in ids THEN [mail[m] EXCEPT !.read = b.id] ELSE mail[m]]
  BY DEF TakePage
<1>2. QED
  BY <1>1 DEF Fixed, TypeOK, Row

\* A read stamps mail, records a page and may record a batch; it does nothing else.
LEMMA ReadPicks ==
  ASSUME TypeOK, Read
  PROVE  \E s \in Chats, t \in Chats, run \in Runs, r \in Requests, grant \in SUBSET Pairs,
            after \in Nat, limit \in Limits :
           \E b \in NamedBatches(t, s, run, r, after, limit) :
             /\ ReadSender(t, s, run, r, grant, after, limit)
             /\ b \in ReadRow /\ reads' = reads \cup {b} /\ b.src = s
             /\ \/ UNCHANGED <<pages, mail>>
                \/ PageAt(b, after) = {} /\ TakePage(b, grant, after, limit)
             /\ answer' = [ids |-> Disclosed(b, grant, after)', grant |-> grant]
<1>1. PICK s \in Chats, t \in Chats, run \in Runs, r \in Requests, grant \in Grants,
           after \in 0 .. lastSeq, limit \in Limits :
        ReadSender(t, s, run, r, grant, after, limit)
  BY MailboxAssumption DEF Read
<1>2. grant \in SUBSET Pairs /\ after \in Nat
  BY MailboxAssumption DEF TypeOK
<1>3. PICK b \in NamedBatches(t, s, run, r, after, limit) :
        /\ reads' = reads \cup {b} /\ b.src = s
        /\ \/ UNCHANGED <<pages, mail>>
           \/ PageAt(b, after) = {} /\ TakePage(b, grant, after, limit)
        /\ answer' = [ids |-> Disclosed(b, grant, after)', grant |-> grant]
  BY <1>1 DEF ReadSender
<1>4. b \in ReadRow
  BY NamedBatchesType
<1>5. QED
  BY <1>1, <1>2, <1>3, <1>4

\* What an operation that is not a read does to the mail.
LEMMA OthersMail ==
  ASSUME TypeOK, Send \/ Withdraw \/ Announce
  PROVE  /\ \A m \in Messages : mail[m].status # "absent" =>
              Fixed(m) /\ mail'[m].read = mail[m].read
         /\ UNCHANGED <<reads, pages>> /\ answer' = NoAnswer
<1> USE DEF TypeOK, Row, Fixed
<1>1. CASE Send
  BY <1>1, MailboxAssumption DEF Send, StoreMessage
<1>2. ASSUME NEW n \in Messages, CancelMessage(n)
      PROVE  /\ \A m \in Messages : mail[m].status # "absent" =>
                   Fixed(m) /\ mail'[m].read = mail[m].read
             /\ UNCHANGED <<reads, pages>> /\ answer' = NoAnswer
  BY <1>2 DEF CancelMessage
<1>3. ASSUME NEW S, ExcludeAll(S)
      PROVE  /\ \A m \in Messages : mail[m].status # "absent" =>
                   Fixed(m) /\ mail'[m].read = mail[m].read
             /\ UNCHANGED <<reads, pages>> /\ answer' = NoAnswer
  BY <1>3 DEF ExcludeAll
<1>4. CASE Withdraw
  BY <1>2, <1>3, <1>4 DEF Withdraw, ExcludeMessage, ExcludePair, ExcludeSession
<1>5. CASE Announce
  BY <1>5 DEF Announce, MarkReadEventPublished
<1>6. QED
  BY <1>1, <1>4, <1>5

LEMMA WakesReadNothing ==
  ASSUME \/ Restart
         \/ \E t \in Wakeable : Claim(t) \/ Admit(t) \/ Release(t) \/ SuppressWake(t)
  PROVE  UNCHANGED <<mail, reads, pages, lastSeq>> /\ answer' = NoAnswer
BY DEF Restart, Claim, Admit, Release, ClaimWake, AdmitWake, ReleaseWake, SuppressWake

-----------------------------------------------------------------------------
(* Responses                                                                *)

LEMMA NextShown == ASSUME TypeOK, NothingWithdrawnShown, [Next]_vars
                   PROVE NothingWithdrawnShown'
<1>1. CASE answer' = NoAnswer
  BY <1>1 DEF NothingWithdrawnShown, NoAnswer
<1>2. CASE UNCHANGED vars
  BY <1>2 DEF vars, NothingWithdrawnShown, Valid
<1>3. CASE Read
  <2>1. PICK t \in Chats, grant \in SUBSET Pairs, after \in Nat, b \in ReadRow :
          answer' = [ids |-> Disclosed(b, grant, after)', grant |-> grant]
    BY <1>3, ReadPicks
  <2>2. answer'.ids = Disclosed(b, grant, after)' /\ answer'.grant = grant
    BY <2>1
  <2>3. \A m \in Disclosed(b, grant, after)' : Valid(m)' /\ mail'[m].pair \in grant
    BY DEF Disclosed, Scope
  <2>4. QED
    BY <2>2, <2>3 DEF NothingWithdrawnShown
<1>4. QED
  BY <1>1, <1>2, <1>3, OthersMail, WakesReadNothing DEF Next

\* No response, first or replayed, contains mail that is withdrawn by then or
\* whose pair the caller is not authorized for.
THEOREM ResponsesShowValidMail == Spec => []NothingWithdrawnShown
<1>1. Init => NothingWithdrawnShown
  BY DEF Init, NoAnswer, NothingWithdrawnShown
<1>2. TypeOK /\ NothingWithdrawnShown /\ [Next]_vars => NothingWithdrawnShown'
  BY NextShown
<1>3. QED
  BY <1>1, <1>2, TypeCorrect, PTL DEF Spec

-----------------------------------------------------------------------------
(* Replies: a parent stays stored, so what it was checked for stays true.   *)

ParentsStored ==
  \A m \in Messages : mail[m].parent # None =>
    /\ mail[m].status # "absent"
    /\ mail[m].parent \in Messages => mail[mail[m].parent].status # "absent"

ReplyInv == RepliesMatch /\ ParentsStored

\* The envelope q when the mail rows are f.
EnvelopeIn(f, q) == IF q \in Messages THEN f[q] ELSE q

LEMMA StoreKeepsReplies ==
  ASSUME TypeOK, ReplyInv, NEW m \in Messages, NEW s \in Chats, NEW t \in Chats, NEW p \in Pairs,
         NEW parent \in Messages \cup Direct \cup {None}, StoreMessage(m, s, t, p, parent)
  PROVE  ReplyInv'
<1>1. /\ mail'[m].src = s /\ mail'[m].tgt = t /\ mail'[m].pair = p /\ mail'[m].parent = parent
      /\ mail'[m].seq = lastSeq + 1 /\ mail'[m].status = "stored"
      /\ \A n \in Messages : n # m => mail'[n] = mail[n]
  BY DEF StoreMessage, TypeOK
<1>2. mail[m].status = "absent"
  BY DEF StoreMessage
<1>3. ASSUME NEW n \in Messages, mail'[n].parent # None
      PROVE  LET q == mail'[n].parent IN
             /\ mail'[n].status # "absent"
             /\ EnvelopeIn(mail', q).src = mail'[n].tgt /\ EnvelopeIn(mail', q).tgt = mail'[n].src
             /\ EnvelopeIn(mail', q).pair = mail'[n].pair
             /\ q \in Messages => mail'[q].status # "absent" /\ mail'[q].seq < mail'[n].seq
  <2>1. CASE n = m
    <3>1. /\ EnvelopeIn(mail, parent).src = t /\ EnvelopeIn(mail, parent).tgt = s
          /\ EnvelopeIn(mail, parent).pair = p
          /\ parent \in Messages => Valid(parent)
      BY <1>1, <1>3, <2>1 DEF StoreMessage, ReplyAvailable, Envelope, EnvelopeIn
    <3>2. parent \in Messages =>
            parent # m /\ mail'[parent] = mail[parent] /\ mail[parent].status # "absent"
      BY <1>1, <1>2, <3>1 DEF Valid
    <3>3. parent \in Messages => mail[parent].seq < lastSeq + 1
      BY DEF TypeOK, Row
    <3>4. EnvelopeIn(mail', parent) = EnvelopeIn(mail, parent)
      BY <3>2 DEF EnvelopeIn
    <3>5. QED
      BY <1>1, <2>1, <3>1, <3>2, <3>3, <3>4
  <2>2. CASE n # m
    <3> DEFINE q == mail[n].parent
    <3>1. mail'[n] = mail[n] /\ q # None
      BY <1>1, <1>3, <2>2
    <3>2. mail[n].status # "absent" /\ (q \in Messages => mail[q].status # "absent")
      BY <3>1 DEF ReplyInv, ParentsStored
    <3>3. q \in Messages => mail'[q] = mail[q]
      BY <1>1, <1>2, <3>2
    <3>4. EnvelopeIn(mail', q) = EnvelopeIn(mail, q)
      BY <3>3 DEF EnvelopeIn
    <3>5. QED
      BY <3>1, <3>2, <3>3, <3>4 DEF ReplyInv, RepliesMatch, Envelope, EnvelopeIn
  <2>3. QED
    BY <2>1, <2>2
<1>4. QED
  BY <1>3 DEF ReplyInv, RepliesMatch, ParentsStored, Envelope, EnvelopeIn

\* Mail that is stored does not change; mail that is not stays what it is.
LEMMA FixedKeepsReplies ==
  ASSUME TypeOK, ReplyInv,
         \A m \in Messages : Fixed(m) \/ (mail'[m] = mail[m])
  PROVE  ReplyInv'
<1>1. ASSUME NEW n \in Messages, mail'[n].parent # None
      PROVE  LET q == mail'[n].parent IN
             /\ mail'[n].status # "absent"
             /\ EnvelopeIn(mail', q).src = mail'[n].tgt /\ EnvelopeIn(mail', q).tgt = mail'[n].src
             /\ EnvelopeIn(mail', q).pair = mail'[n].pair
             /\ q \in Messages => mail'[q].status # "absent" /\ mail'[q].seq < mail'[n].seq
  <2> DEFINE q == mail[n].parent
  <2>1. mail'[n].parent = q
    BY <1>1 DEF Fixed
  <2>2. /\ EnvelopeIn(mail, q).src = mail[n].tgt /\ EnvelopeIn(mail, q).tgt = mail[n].src
        /\ EnvelopeIn(mail, q).pair = mail[n].pair
        /\ mail[n].status # "absent"
        /\ q \in Messages => mail[q].status # "absent" /\ mail[q].seq < mail[n].seq
    BY <1>1, <2>1 DEF ReplyInv, RepliesMatch, ParentsStored, Envelope, EnvelopeIn
  <2>3. /\ EnvelopeIn(mail', q).src = EnvelopeIn(mail, q).src
        /\ EnvelopeIn(mail', q).tgt = EnvelopeIn(mail, q).tgt
        /\ EnvelopeIn(mail', q).pair = EnvelopeIn(mail, q).pair
    BY DEF EnvelopeIn, Fixed
  <2>4. QED
    BY <2>1, <2>2, <2>3 DEF Fixed
<1>2. QED
  BY <1>1 DEF ReplyInv, RepliesMatch, ParentsStored, Envelope, EnvelopeIn

LEMMA NextReplies == ASSUME TypeOK, ReplyInv, [Next]_vars PROVE ReplyInv'
<1>1. CASE UNCHANGED mail
  BY <1>1, FixedKeepsReplies
<1>2. CASE Send
  BY <1>2, MailboxAssumption, StoreKeepsReplies DEF Send
<1>3. CASE Read
  <2>1. PICK b \in ReadRow, grant \in SUBSET Pairs, after \in Nat, limit \in Limits :
          UNCHANGED mail \/ TakePage(b, grant, after, limit)
    BY <1>3, ReadPicks
  <2>2. CASE TakePage(b, grant, after, limit)
    <3>1. PICK ids \in SUBSET Candidates(b, grant, after) :
            mail' = [m \in Messages |->
                       IF m \in ids THEN [mail[m] EXCEPT !.read = b.id] ELSE mail[m]]
      BY <2>2 DEF TakePage
    <3>2. \A m \in Messages : Fixed(m) \/ (mail'[m] = mail[m])
      BY <2>2, <3>1, TakePageFixes DEF Candidates, Scope, Valid
    <3>3. QED
      BY <3>2, FixedKeepsReplies
  <2>3. QED
    BY <1>1, <2>1, <2>2
<1>4. ASSUME NEW n \in Messages, CancelMessage(n)
      PROVE  \A m \in Messages : Fixed(m) \/ (mail'[m] = mail[m])
  BY <1>4 DEF CancelMessage, Cancellable, Valid, Fixed, TypeOK, Row
<1>5. ASSUME NEW S, S \subseteq Stored, ExcludeAll(S)
      PROVE  \A m \in Messages : Fixed(m) \/ (mail'[m] = mail[m])
  BY <1>5 DEF ExcludeAll, Stored, Fixed, TypeOK, Row
<1>6. CASE Withdraw
  <2>1. \A m \in Messages : Fixed(m) \/ (mail'[m] = mail[m])
    BY <1>4, <1>5, <1>6 DEF Withdraw, ExcludeMessage, ExcludePair, ExcludeSession, Stored
  <2>2. QED
    BY <2>1, FixedKeepsReplies
<1>7. CASE Announce
  <2>1. PICK n \in Messages : MarkReadEventPublished(n) /\ mail[n].tgt \in Announcing
    BY <1>7 DEF Announce
  <2>2. \A m \in Messages : mail'[m].status = mail[m].status /\ mail'[m].seq = mail[m].seq
          /\ mail'[m].src = mail[m].src /\ mail'[m].tgt = mail[m].tgt
          /\ mail'[m].pair = mail[m].pair /\ mail'[m].parent = mail[m].parent
    BY <2>1 DEF MarkReadEventPublished, TypeOK, Row
  <2>3. \A m \in Messages : m # n => mail'[m] = mail[m]
    BY <2>1 DEF MarkReadEventPublished, TypeOK
  <2>4. CASE mail[n].status # "absent"
    BY <2>2, <2>3, <2>4, FixedKeepsReplies DEF Fixed
  <2>5. CASE mail[n].status = "absent"
    BY <2>2, <2>5 DEF ReplyInv, RepliesMatch, ParentsStored, Envelope
  <2>6. QED
    BY <2>4, <2>5
<1>8. QED
  BY <1>1, <1>2, <1>3, <1>6, <1>7, WakesReadNothing DEF Next, vars

\* A reply continues the exchange of the two ends of one pair, and follows the
\* message it answers in the mailbox's order.
THEOREM RepliesCorrect == Spec => []RepliesMatch
<1>1. Init => ReplyInv
  BY DEF Init, NoRow, ReplyInv, RepliesMatch, ParentsStored
<1>2. TypeOK /\ ReplyInv /\ [Next]_vars => ReplyInv'
  BY NextReplies
<1>3. ReplyInv => RepliesMatch
  BY DEF ReplyInv
<1>4. QED
  BY <1>1, <1>2, <1>3, TypeCorrect, PTL DEF Spec

-----------------------------------------------------------------------------
(* Batches: a request key names one batch, and a stamp or a page names one  *)
(* that is recorded.                                                        *)

BatchInv ==
  /\ IsFiniteSet(reads)
  /\ \A b, c \in reads : b.id = c.id => b = c
  /\ \A p \in pages : \E b \in reads : b.id = p.read
  /\ \A m \in Messages : mail[m].read # None =>
       mail[m].status # "absent" /\ \E b \in reads : b.id = mail[m].read

ReadInv == BatchInv /\ SnapshotHonoured /\ RetryReplays

\* An operation that reads nothing.
LEMMA OthersKeepReads ==
  ASSUME TypeOK, ReadInv, UNCHANGED <<reads, pages>>,
         \A m \in Messages : \/ mail'[m] = mail[m]
                             \/ mail'[m].read = None
                             \/ Fixed(m) /\ mail'[m].read = mail[m].read
  PROVE  ReadInv'
<1>1. BatchInv'
  BY DEF ReadInv, BatchInv, Fixed
<1>2. SnapshotHonoured'
  <2>1. ASSUME NEW m \in Messages, NEW b \in reads, mail'[m].read = b.id
        PROVE  mail'[m].seq <= b.snapshot /\ mail'[m].tgt = Target(b) /\ mail'[m].src = b.src
    <3>1. mail'[m].read # None
      BY <2>1, MailboxAssumption DEF TypeOK, ReadRow
    <3>2. mail[m].read = b.id
      BY <2>1, <3>1
    <3>3. mail'[m].seq = mail[m].seq /\ mail'[m].tgt = mail[m].tgt /\ mail'[m].src = mail[m].src
      BY <3>1 DEF Fixed
    <3>4. QED
      BY <3>2, <3>3 DEF ReadInv, SnapshotHonoured
  <2>2. QED
    BY <2>1 DEF SnapshotHonoured, Target
<1>3. RetryReplays'
  BY DEF ReadInv, RetryReplays, Target, Request
<1>4. QED
  BY <1>1, <1>2, <1>3 DEF ReadInv

\* A request that is answered names one batch, before and after.
LEMMA OneBatch ==
  ASSUME TypeOK, BatchInv, NEW s, NEW t, NEW run, NEW r, NEW after, NEW limit,
         Cardinality(BatchesOf(t, r)) <= 1,
         NEW b \in NamedBatches(t, s, run, r, after, limit)
  PROVE  /\ b.id[1] = t /\ b.id[2] = r
         /\ \A c \in reads : c.id[1] = t /\ c.id[2] = r => c = b
<1>1. IsFiniteSet(BatchesOf(t, r))
  BY FS_Subset DEF BatchesOf, BatchInv
<1>2. CASE b \in BatchesOf(t, r)
  <2>1. ASSUME NEW c \in BatchesOf(t, r) PROVE c = b
    <3>1. IsFiniteSet({b, c}) /\ Cardinality({b, c}) <= Cardinality(BatchesOf(t, r))
      BY <1>1, <1>2, FS_Subset
    <3>2. c # b => Cardinality({b, c}) = 2
      <4>1. IsFiniteSet({b}) /\ Cardinality({b}) = 1
        BY FS_Singleton
      <4>2. {b, c} = {b} \cup {c}
        OBVIOUS
      <4>3. Cardinality({b} \cup {c}) =
              IF c \in {b} THEN Cardinality({b}) ELSE Cardinality({b}) + 1
        BY <4>1, FS_AddElement, Zenon
      <4>4. QED
        BY <4>1, <4>2, <4>3
    <3>3. Cardinality(BatchesOf(t, r)) \in Nat
      BY <1>1, FS_CardinalityType
    <3>4. QED
      BY <3>1, <3>2, <3>3
  <2>2. QED
    BY <1>2, <2>1 DEF BatchesOf, Target, Request
<1>3. CASE b \notin BatchesOf(t, r)
  <2>1. BatchesOf(t, r) = {} /\ b \in NewBatches(t, s, run, r, limit)
    BY <1>3 DEF NamedBatches
  <2>2. b.id = <<t, r, run>>
    BY <2>1 DEF NewBatches
  <2>3. QED
    BY <2>1, <2>2 DEF BatchesOf, Target, Request
<1>4. QED
  BY <1>2, <1>3

LEMMA ReadKeepsReads == ASSUME TypeOK, ReadInv, Read PROVE ReadInv'
<1>1. PICK s \in Chats, t \in Chats, run \in Runs, r \in Requests, grant \in SUBSET Pairs,
           after \in Nat, limit \in Limits :
        \E b \in NamedBatches(t, s, run, r, after, limit) :
          /\ ReadSender(t, s, run, r, grant, after, limit)
          /\ b \in ReadRow /\ reads' = reads \cup {b} /\ b.src = s
          /\ \/ UNCHANGED <<pages, mail>>
             \/ PageAt(b, after) = {} /\ TakePage(b, grant, after, limit)
          /\ answer' = [ids |-> Disclosed(b, grant, after)', grant |-> grant]
  BY ReadPicks
<1>2. PICK b \in NamedBatches(t, s, run, r, after, limit) :
          /\ ReadSender(t, s, run, r, grant, after, limit)
          /\ b \in ReadRow /\ reads' = reads \cup {b} /\ b.src = s
          /\ \/ UNCHANGED <<pages, mail>>
             \/ PageAt(b, after) = {} /\ TakePage(b, grant, after, limit)
  BY <1>1
<1>3. /\ b.id[1] = t /\ b.id[2] = r
      /\ \A c \in reads : c.id[1] = t /\ c.id[2] = r => c = b
  BY <1>2, OneBatch DEF ReadSender, ReadInv
<1>4. \A c \in reads : c.id = b.id => c = b
  BY <1>3
<1>5. \/ UNCHANGED <<pages, mail>>
      \/ /\ PageAt(b, after) = {}
         /\ \E ids \in SUBSET Candidates(b, grant, after), end \in 0 .. lastSeq :
              /\ pages' = pages \cup {[read |-> b.id, after |-> after, end |-> end,
                                       more |-> ids # Candidates(b, grant, after), ids |-> ids]}
              /\ mail' = [m \in Messages |->
                            IF m \in ids THEN [mail[m] EXCEPT !.read = b.id] ELSE mail[m]]
  BY <1>2 DEF TakePage
<1>6. \/ UNCHANGED pages
      \/ \E new : /\ pages' = pages \cup {new} /\ new.read = b.id /\ new.after = after
                 /\ PageAt(b, after) = {}
  BY <1>5
<1>7. ASSUME NEW m \in Messages
      PROVE  \/ mail'[m] = mail[m]
             \/ /\ mail'[m].read = b.id /\ mail[m].status # "absent"
                /\ Fixed(m) /\ m \in Candidates(b, grant, after)
  BY <1>5 DEF Candidates, Scope, Valid, Fixed, TypeOK, Row
<1>8. BatchInv'
  <2>1. IsFiniteSet(reads')
    BY <1>2, FS_AddElement DEF ReadInv, BatchInv
  <2>2. \A c, d \in reads' : c.id = d.id => c = d
    BY <1>2, <1>4 DEF ReadInv, BatchInv
  <2>3. \A p \in pages' : \E c \in reads' : c.id = p.read
    BY <1>2, <1>6 DEF ReadInv, BatchInv
  <2>4. \A m \in Messages : mail'[m].read # None =>
          mail'[m].status # "absent" /\ \E c \in reads' : c.id = mail'[m].read
    BY <1>2, <1>7 DEF ReadInv, BatchInv, Fixed
  <2>5. QED
    BY <2>1, <2>2, <2>3, <2>4 DEF BatchInv
<1>9. SnapshotHonoured'
  <2>1. ASSUME NEW m \in Messages, NEW c \in reads', mail'[m].read = c.id
        PROVE  mail'[m].seq <= c.snapshot /\ mail'[m].tgt = c.id[1] /\ mail'[m].src = c.src
    <3>1. CASE mail'[m] = mail[m]
      <4>1. mail[m].read # None
        BY <1>2, <2>1, <3>1, MailboxAssumption DEF TypeOK, ReadRow
      <4>2. PICK d \in reads : d.id = mail[m].read
        BY <4>1 DEF ReadInv, BatchInv
      <4>3. c \in reads
        BY <1>2, <1>4, <2>1, <3>1, <4>2
      <4>4. QED
        BY <2>1, <3>1, <4>3 DEF ReadInv, SnapshotHonoured, Target
    <3>2. CASE /\ mail'[m].read = b.id /\ Fixed(m)
               /\ m \in Candidates(b, grant, after)
      <4>1. c = b
        BY <1>2, <1>4, <2>1, <3>2
      <4>2. QED
        BY <3>2, <4>1 DEF Candidates, Scope, Target, Fixed
    <3>3. QED
      BY <1>7, <3>1, <3>2
  <2>2. QED
    BY <2>1 DEF SnapshotHonoured, Target
<1>10. RetryReplays'
  <2>1. \A p, q \in pages' : p.read = q.read /\ p.after = q.after => p = q
    BY <1>6 DEF ReadInv, RetryReplays, PageAt
  <2>2. ASSUME NEW p \in pages', NEW c \in reads', c.id[1] = p.read[1], c.id[2] = p.read[2]
        PROVE  c.id = p.read
    <3>1. CASE p.read = b.id
      BY <1>2, <1>3, <2>2, <3>1
    <3>2. CASE p.read # b.id
      <4>1. p \in pages
        BY <1>6, <3>2
      <4>2. PICK d \in reads : d.id = p.read
        BY <4>1 DEF ReadInv, BatchInv
      <4>3. CASE c \in reads
        BY <2>2, <4>1, <4>3 DEF ReadInv, RetryReplays, Target, Request
      <4>4. CASE c = b
        BY <1>3, <2>2, <3>2, <4>2, <4>4
      <4>5. QED
        BY <1>2, <4>3, <4>4
    <3>3. QED
      BY <3>1, <3>2
  <2>3. QED
    BY <2>1, <2>2 DEF RetryReplays, Target, Request
<1>11. QED
  BY <1>8, <1>9, <1>10 DEF ReadInv

LEMMA NextReads == ASSUME TypeOK, ReadInv, [Next]_vars PROVE ReadInv'
<1>1. CASE UNCHANGED <<mail, reads, pages>>
  BY <1>1, OthersKeepReads
<1>2. CASE Send
  <2>1. \A m \in Messages : mail'[m] = mail[m] \/ mail'[m].read = None
    BY <1>2, MailboxAssumption DEF Send, StoreMessage, TypeOK
  <2>2. QED
    BY <1>2, <2>1, OthersMail, OthersKeepReads
<1>3. CASE Withdraw \/ Announce
  <2>1. ASSUME NEW m \in Messages, mail[m].status = "absent" PROVE mail'[m].read = None
    <3>1. mail[m].read = None
      BY <2>1 DEF ReadInv, BatchInv
    <3>2. ASSUME NEW n \in Messages, CancelMessage(n) PROVE mail'[m].read = mail[m].read
      BY <3>2 DEF CancelMessage, TypeOK, Row
    <3>3. ASSUME NEW S, ExcludeAll(S) PROVE mail'[m].read = mail[m].read
      BY <3>3 DEF ExcludeAll, TypeOK, Row
    <3>4. CASE Withdraw
      BY <3>1, <3>2, <3>3, <3>4 DEF Withdraw, ExcludeMessage, ExcludePair, ExcludeSession
    <3>5. CASE Announce
      BY <3>1, <3>5 DEF Announce, MarkReadEventPublished, TypeOK, Row
    <3>6. QED
      BY <1>3, <3>4, <3>5
  <2>2. QED
    BY <1>3, <2>1, OthersMail, OthersKeepReads
<1>4. QED
  BY <1>1, <1>2, <1>3, ReadKeepsReads, WakesReadNothing DEF Next, vars

LEMMA ReadsCorrect == Spec => []ReadInv
<1>1. Init => ReadInv
  <2>1. ASSUME Init
        PROVE  \A m \in Messages : mail[m].read = None
    BY <2>1 DEF Init, NoRow
  <2>2. ASSUME Init
        PROVE  SnapshotHonoured
    BY <2>1, <2>2, LegacyAssumption, MailboxAssumption DEF Init, SnapshotHonoured, ReadRow
  <2>3. QED
    BY <2>1, <2>2, LegacyAssumption DEF Init, ReadInv, BatchInv, RetryReplays
<1>2. TypeOK /\ ReadInv /\ [Next]_vars => ReadInv'
  BY NextReads
<1>3. QED
  BY <1>1, <1>2, TypeCorrect, PTL DEF Spec

\* A batch stamps only mail of its own sender that its snapshot covers, and a
\* request key never consumes a second batch or records a page twice.
THEOREM SnapshotsCorrect == Spec => [](SnapshotHonoured /\ RetryReplays)
<1>1. ReadInv => SnapshotHonoured /\ RetryReplays
  BY DEF ReadInv
<1>2. QED
  BY <1>1, ReadsCorrect, PTL

\* A read that is asked for again under the same request key gets the batch of
\* the first answer and consumes no further one.
THEOREM RetriesReplay == Spec => []RetryReplays
<1>1. SnapshotHonoured /\ RetryReplays => RetryReplays
  OBVIOUS
<1>2. QED
  BY <1>1, SnapshotsCorrect, PTL

-----------------------------------------------------------------------------
(* Exhaustion: what is unread in the scope of a batch lies beyond its pages. *)

\* The mail of a batch that nobody has read yet.
Missing(b) == {m \in Unread(Target(b)) : mail[m].src = b.src /\ mail[m].seq <= b.snapshot}

PagesCover == \A p \in pages, b \in reads : p.read = b.id =>
                \A m \in Missing(b) : p.more /\ p.end < mail[m].seq

CoverInv ==
  /\ \A b \in reads : b.snapshot <= lastSeq
  /\ \A m \in Messages : mail[m].status # "absent" => mail[m].pair \in Pairs
  /\ PagesCover

\* A stored message that does not become unread or valid again.
Settled(m) ==
  /\ Fixed(m) /\ mail[m].status # "absent"
  /\ Valid(m)' /\ mail'[m].read = None => Valid(m) /\ mail[m].read = None

LEMMA MissingShrinks ==
  ASSUME TypeOK, TypeOK', NEW b \in ReadRow, b.snapshot <= lastSeq,
         \A m \in Messages : mail'[m] = mail[m] \/ mail'[m].seq > lastSeq \/ Settled(m)
  PROVE  \A m \in Missing(b)' : m \in Missing(b) /\ mail'[m].seq = mail[m].seq
<1> SUFFICES ASSUME NEW m \in Missing(b)' PROVE m \in Missing(b) /\ mail'[m].seq = mail[m].seq
  OBVIOUS
<1>1. /\ m \in Messages /\ Valid(m)' /\ mail'[m].read = None /\ mail'[m].tgt = Target(b)
      /\ mail'[m].src = b.src /\ mail'[m].seq <= b.snapshot
  BY DEF Missing, Unread, Target
<1>2. b.snapshot \in Nat /\ lastSeq \in Nat /\ mail'[m].seq \in Nat
  BY <1>1 DEF TypeOK, Row, ReadRow
<1>3. ~(mail'[m].seq > lastSeq)
  BY <1>1, <1>2
<1>4. CASE mail'[m] = mail[m]
  BY <1>1, <1>4 DEF Missing, Unread, Valid
<1>5. CASE Settled(m)
  BY <1>1, <1>5 DEF Missing, Unread, Settled, Fixed
<1>6. QED
  BY <1>1, <1>3, <1>4, <1>5

\* Mail that is sent is newer than every snapshot; mail that is withdrawn or
\* announced only leaves the scope of a batch.
LEMMA OthersKeepCover ==
  ASSUME TypeOK, TypeOK', CoverInv, UNCHANGED <<reads, pages>>, lastSeq' >= lastSeq,
         \A m \in Messages : \/ mail'[m] = mail[m] \/ Settled(m)
                             \/ mail'[m].seq > lastSeq /\ mail'[m].pair \in Pairs
  PROVE  CoverInv'
<1>1. \A b \in reads : b \in ReadRow /\ b.snapshot \in Nat /\ b.snapshot <= lastSeq
  BY DEF TypeOK, CoverInv, ReadRow
<1>2. \A b \in reads : b.snapshot <= lastSeq'
  BY <1>1 DEF TypeOK
<1>3. \A m \in Messages : mail'[m].status # "absent" => mail'[m].pair \in Pairs
  BY DEF CoverInv, Settled, Fixed
<1>4. \A b \in reads : \A m \in Missing(b)' : m \in Missing(b) /\ mail'[m].seq = mail[m].seq
  BY <1>1, MissingShrinks
<1>5. PagesCover'
  BY <1>4 DEF CoverInv, PagesCover
<1>6. QED
  BY <1>2, <1>3, <1>5 DEF CoverInv

LEMMA WritersKeepCover ==
  ASSUME TypeOK, TypeOK', ReadInv, CoverInv, Send \/ Withdraw \/ Announce
  PROVE  CoverInv'
<1>1. UNCHANGED <<reads, pages>>
  BY OthersMail
<1>2. CASE Send
  <2>1. /\ lastSeq' = lastSeq + 1
        /\ \A m \in Messages : \/ mail'[m] = mail[m]
                               \/ mail'[m].seq = lastSeq + 1 /\ mail'[m].pair \in Pairs
    BY <1>2 DEF Send, StoreMessage, TypeOK
  <2>2. lastSeq \in Nat
    BY DEF TypeOK
  <2>3. QED
    BY <1>1, <2>1, <2>2, OthersKeepCover
<1>3. CASE Withdraw \/ Announce
  <2>1. ASSUME NEW n \in Messages, CancelMessage(n)
        PROVE  lastSeq' = lastSeq /\ \A m \in Messages : mail'[m] = mail[m] \/ Settled(m)
    BY <2>1 DEF CancelMessage, Cancellable, Settled, Fixed, Valid, TypeOK, Row
  <2>2. ASSUME NEW S, ExcludeAll(S), S \subseteq Stored
        PROVE  lastSeq' = lastSeq /\ \A m \in Messages : mail'[m] = mail[m] \/ Settled(m)
    BY <2>2 DEF ExcludeAll, Stored, Settled, Fixed, Valid, TypeOK, Row
  <2>3. ASSUME NEW n \in Messages, MarkReadEventPublished(n), mail[n].status # "absent"
        PROVE  lastSeq' = lastSeq /\ \A m \in Messages : mail'[m] = mail[m] \/ Settled(m)
    BY <2>3 DEF MarkReadEventPublished, Settled, Fixed, Valid, TypeOK, Row
  <2>4. lastSeq' = lastSeq /\ \A m \in Messages : mail'[m] = mail[m] \/ Settled(m)
    <3>1. CASE Withdraw
      BY <2>1, <2>2, <3>1 DEF Withdraw, ExcludeMessage, ExcludePair, ExcludeSession, Stored
    <3>2. CASE Announce
      <4>1. PICK n \in Messages : MarkReadEventPublished(n)
        BY <3>2 DEF Announce
      <4>2. mail[n].status # "absent"
        BY <4>1 DEF MarkReadEventPublished, ReadInv, BatchInv
      <4>3. QED
        BY <2>3, <4>1, <4>2
    <3>3. QED
      BY <1>3, <3>1, <3>2
  <2>5. lastSeq' >= lastSeq
    BY <2>4 DEF TypeOK
  <2>6. QED
    BY <1>1, <2>4, <2>5, OthersKeepCover
<1>4. QED
  BY <1>2, <1>3

\* A page that takes the oldest candidates leaves nothing unread before its end,
\* provided the pages before it left nothing before its cursor.
LEMMA PageLeavesNothing ==
  ASSUME TypeOK, CoverInv, NEW b \in ReadRow, NEW after \in Nat, NEW limit,
         after = 0 \/ (b \in reads /\ \E p \in pages : p.read = b.id /\ p.end = after /\ p.more),
         NEW ids \in SUBSET Candidates(b, Pairs, after), NEW end \in Nat,
         Page(ids, Candidates(b, Pairs, after), limit),
         IF ids = {} THEN end = after ELSE IsMax(end, SeqsOf(ids))
  PROVE  \A m \in Missing(b) \ ids : ids # Candidates(b, Pairs, after) /\ end < mail[m].seq
<1> SUFFICES ASSUME NEW m \in Missing(b) \ ids
             PROVE  ids # Candidates(b, Pairs, after) /\ end < mail[m].seq
  OBVIOUS
<1>1. /\ m \in Messages /\ Valid(m) /\ mail[m].read = None /\ mail[m].tgt = Target(b)
      /\ mail[m].src = b.src /\ mail[m].seq <= b.snapshot
      /\ mail[m].seq \in Nat \ {0} /\ mail[m].pair \in Pairs
  BY DEF Missing, Unread, Valid, TypeOK, Row, CoverInv
<1>2. after < mail[m].seq
  <2>1. CASE after = 0
    BY <1>1, <2>1
  <2>2. CASE b \in reads /\ \E p \in pages : p.read = b.id /\ p.end = after /\ p.more
    BY <2>2 DEF CoverInv, PagesCover
  <2>3. QED
    BY <2>1, <2>2
<1>3. m \in Candidates(b, Pairs, after)
  BY <1>1, <1>2 DEF Candidates, Scope
<1>4. ids # {} /\ IsMax(end, SeqsOf(ids))
  BY <1>3 DEF Page
<1>5. PICK n \in ids : end = mail[n].seq \/ end = 0
  BY <1>4 DEF IsMax, SeqsOf
<1>6. mail[n].seq < mail[m].seq
  BY <1>3, <1>5 DEF Page
<1>7. QED
  BY <1>1, <1>3, <1>5, <1>6

LEMMA ReadKeepsCover ==
  ASSUME Grants \subseteq {Pairs}, TypeOK, TypeOK', ReadInv, ReadInv', CoverInv, Read
  PROVE  CoverInv'
<1>1. PICK t \in Chats, s \in Chats, run \in Runs, r \in Requests, after \in 0 .. lastSeq,
           limit \in Limits : ReadSender(t, s, run, r, Pairs, after, limit)
  BY MailboxAssumption DEF Read
<1>2. PICK b \in NamedBatches(t, s, run, r, after, limit) :
        /\ reads' = reads \cup {b} /\ b.src = s
        /\ IF PageAt(b, after) # {} THEN UNCHANGED <<pages, mail>>
           ELSE TakePage(b, Pairs, after, limit)
  BY <1>1 DEF ReadSender
<1>3. lastSeq' = lastSeq /\ lastSeq \in Nat /\ after \in Nat
  BY <1>1 DEF ReadSender, TypeOK
<1>4. b.snapshot <= lastSeq /\ b \in ReadRow
  <2>1. CASE b \in BatchesOf(t, r)
    BY <2>1 DEF BatchesOf, CoverInv, TypeOK
  <2>2. CASE b \in NewBatches(t, s, run, r, limit)
    BY <1>1, <1>3, <2>2 DEF NewBatches, ReadRow
  <2>3. QED
    BY <1>2, <2>1, <2>2 DEF NamedBatches
<1>5. \A c \in reads' : c.snapshot <= lastSeq /\ c \in ReadRow
  BY <1>2, <1>4 DEF CoverInv, TypeOK
<1>6. ASSUME NEW p \in pages, NEW c \in reads', p.read = c.id PROVE c \in reads
  BY <1>2, <1>6 DEF ReadInv, BatchInv
<1>7. CASE UNCHANGED <<pages, mail>>
  BY <1>3, <1>5, <1>6, <1>7 DEF CoverInv, PagesCover, Missing, Unread, Valid
<1>8. CASE PageAt(b, after) = {} /\ TakePage(b, Pairs, after, limit)
  <2>1. PICK ids \in SUBSET Candidates(b, Pairs, after), end \in 0 .. lastSeq :
          /\ Page(ids, Candidates(b, Pairs, after), limit)
          /\ IF ids = {} THEN end = after ELSE IsMax(end, SeqsOf(ids))
          /\ pages' = pages \cup {[read |-> b.id, after |-> after, end |-> end,
                                   more |-> ids # Candidates(b, Pairs, after), ids |-> ids]}
          /\ mail' = [m \in Messages |->
                        IF m \in ids THEN [mail[m] EXCEPT !.read = b.id] ELSE mail[m]]
    BY <1>8 DEF TakePage
  <2>2. \A m \in Messages : /\ m \in ids => mail'[m].read = b.id
                           /\ mail'[m].pair = mail[m].pair /\ mail'[m].seq = mail[m].seq
                           /\ mail'[m].status = mail[m].status
    BY <2>1 DEF TypeOK, Row
  <2>10. \A m \in Messages : mail'[m] = mail[m] \/ Settled(m)
    BY <2>1 DEF TypeOK, Row, Settled, Fixed, Candidates, Scope, Valid
  <2>3. b.id # None
    BY <1>4, MailboxAssumption DEF ReadRow
  <2>4. \A c \in reads' : \A m \in Missing(c)' :
          m \in Missing(c) /\ m \notin ids /\ mail'[m].seq = mail[m].seq
    <3> SUFFICES ASSUME NEW c \in reads', NEW m \in Missing(c)'
                 PROVE  m \in Missing(c) /\ m \notin ids /\ mail'[m].seq = mail[m].seq
      OBVIOUS
    <3>1. m \in Missing(c) /\ mail'[m].seq = mail[m].seq
      BY <1>5, <2>10, MissingShrinks
    <3>2. m \in Messages /\ mail'[m].read = None
      BY DEF Missing, Unread
    <3>3. QED
      BY <2>2, <2>3, <3>1, <3>2
  <2>5. after = 0 \/ (b \in reads /\ \E p \in pages : p.read = b.id /\ p.end = after /\ p.more)
    BY <1>2, <1>6, <1>8 DEF TakePage
  <2>6. \A m \in Missing(b) \ ids : ids # Candidates(b, Pairs, after) /\ end < mail[m].seq
    BY <1>3, <1>4, <2>1, <2>5, PageLeavesNothing
  <2>7. ASSUME NEW p \in pages', NEW c \in reads', p.read = c.id, NEW m \in Missing(c)'
        PROVE  p.more /\ p.end < mail'[m].seq
    <3>1. CASE p \in pages
      BY <1>6, <2>4, <2>7, <3>1 DEF CoverInv, PagesCover
    <3>2. CASE p \notin pages
      <4>1. p.read = b.id /\ p.end = end /\ p.more = (ids # Candidates(b, Pairs, after))
        BY <2>1, <3>2
      <4>2. c = b
        BY <1>2, <2>7, <4>1 DEF ReadInv, BatchInv
      <4>3. QED
        BY <2>4, <2>6, <2>7, <4>1, <4>2
    <3>3. QED
      BY <3>1, <3>2
  <2>8. \A m \in Messages : mail'[m].status # "absent" => mail'[m].pair \in Pairs
    <3> SUFFICES ASSUME NEW m \in Messages, mail'[m].status # "absent" PROVE mail'[m].pair \in Pairs
      OBVIOUS
    <3>1. mail'[m].pair = mail[m].pair /\ mail'[m].status = mail[m].status
      BY <2>2
    <3>2. QED
      BY <3>1 DEF CoverInv
  <2>9. QED
    BY <1>3, <1>5, <2>7, <2>8 DEF CoverInv, PagesCover
<1>9. QED
  BY <1>2, <1>7, <1>8

LEMMA NextCover ==
  ASSUME Grants \subseteq {Pairs}, TypeOK, TypeOK', ReadInv, ReadInv', CoverInv, [Next]_vars
  PROVE  CoverInv'
<1>1. CASE UNCHANGED <<mail, lastSeq, reads, pages>>
  BY <1>1 DEF CoverInv, PagesCover, Missing, Unread, Valid
<1>2. CASE Send \/ Withdraw \/ Announce
  BY <1>2, WritersKeepCover
<1>3. CASE Read
  BY <1>3, ReadKeepsCover
<1>4. QED
  BY <1>1, <1>2, <1>3, WakesReadNothing DEF Next, vars

\* Following a batch to its last page leaves nothing of its snapshot unread, for
\* readers that keep the authority for all their routes: each page takes the
\* oldest of what is left (chat_mailbox.py, read_sender and _page).
THEOREM SnapshotsExhausted ==
  ASSUME Grants \subseteq {Pairs}
  PROVE  Spec => []SnapshotExhausted
<1>1. Init => CoverInv
  BY LegacyAssumption DEF Init, CoverInv, PagesCover, NoRow
<1>2. TypeOK /\ TypeOK' /\ ReadInv /\ ReadInv' /\ CoverInv /\ [Next]_vars => CoverInv'
  BY NextCover
<1>3. TypeOK /\ CoverInv => SnapshotExhausted
  <2> SUFFICES ASSUME TypeOK, CoverInv, NEW b \in reads, NEW p \in pages, p.read = b.id, ~p.more,
                      NEW m \in Unread(Target(b)), mail[m].src = b.src
               PROVE  mail[m].seq > b.snapshot
    BY DEF SnapshotExhausted
  <2>1. m \notin Missing(b)
    BY DEF CoverInv, PagesCover
  <2>2. mail[m].seq \in Nat /\ b.snapshot \in Nat
    BY DEF TypeOK, Row, ReadRow, Unread
  <2>3. QED
    BY <2>1, <2>2 DEF Missing
<1>4. QED
  BY <1>1, <1>2, <1>3, ReadsCorrect, TypeCorrect, PTL DEF Spec

=============================================================================
