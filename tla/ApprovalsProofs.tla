-------------------------- MODULE ApprovalsProofs --------------------------
(***************************************************************************)
(* Proofs about Approvals: what batches, single decisions and drafts keep  *)
(* of each other's work, for every set of approvals, keys, sessions and    *)
(* requests.                                                               *)
(***************************************************************************)
EXTENDS Approvals, TLAPS

----------------------------------------------------------------------------
(* The invariants.                                                         *)

\* Where a bulk request has an open transaction.
BatchLabels == {"lock_approval", "judge", "commit_batch"}

\* A session is only at statements of the request it serves, and at an item
\* that exists.
ControlFollowsRequest ==
  \A s \in Session :
    /\ pc[s] # "idle" => req[s] \in Body
    /\ pc[s] \in {"read_to_approve", "approve"} => req[s].kind = "approve"
    /\ pc[s] \in {"read_to_reject", "reject"} => req[s].kind = "reject"
    /\ pc[s] \in {"read_to_draft", "call_provider", "record_draft"} => req[s].kind = "draft"
    /\ pc[s] \in BatchLabels \cup {"open_batch"} => req[s].kind = "bulk"
    /\ pc[s] \in {"lock_approval", "judge"} => item[s] \in DOMAIN req[s].items
    /\ pc[s] \notin BatchLabels => item[s] = 1

\* What the provider returned to a session is a draft made for its request.
DraftHeld ==
  \A s \in Session : pc[s] = "record_draft" =>
    /\ sent[s] \in DOMAIN mailbox
    /\ mailbox[sent[s]].key = req[s].key
    /\ mailbox[sent[s]].approval = req[s].approval

\* What the other invariants take for granted.
TypeInv == TypeOK /\ ControlFollowsRequest /\ DraftHeld

\* Nobody shares a lock.
LocksExclusive ==
  \A s, o \in Session : s # o => locks[s] \cap locks[o] = {}

\* An approval in the write set of a batch is locked, was pending and is not.
Decides(s, row) ==
  /\ row \in locks[s]
  /\ db[row] = "PENDING"
  /\ work[s][row] \in {"APPROVED", "INVALIDATED"}

\* A batch holds its own row and the approvals it has decided.
BatchHolds(s) ==
  LET batch == BatchRow(req[s].key) IN
  /\ batch \in locks[s]
  /\ batch \in DOMAIN work[s]
  /\ db[batch] = NoBatch
  /\ \A row \in DOMAIN work[s] \ {batch} :
       (\E a \in Approval : row = ApprovalRow(a)) /\ Decides(s, row)
  /\ \A a \in work[s][batch].approved :
       ApprovalRow(a) \in DOMAIN work[s] /\ work[s][ApprovalRow(a)] = "APPROVED"

\* The approval to be judged is locked, and its status is still what was read.
JudgedHeld(s) ==
  LET row == ApprovalRow(Item(s).approval) IN
  row \in locks[s] /\ read[s] = Seen(s, row)

\* What a session holds, at each place it can be.
SessionInv(s) ==
  /\ pc[s] \notin BatchLabels => work[s] = Nothing /\ locks[s] = {}
  /\ pc[s] \in BatchLabels => BatchHolds(s)
  /\ pc[s] = "judge" => JudgedHeld(s)
  /\ \A a \in Approval : ApprovalRow(a) \in locks[s] => db[ApprovalRow(a)] # "NONE"

\* Only batches hold locks and write before they commit.
BatchInv == LocksExclusive /\ \A s \in Session : SessionInv(s)

\* What batches report approved was decided, and by one batch.
ReportInv ==
  \A k \in BatchKey : \A a \in db[BatchRow(k)].approved :
    /\ db[ApprovalRow(a)] \notin {"NONE", "PENDING"}
    /\ \A l \in BatchKey \ {k} : a \notin db[BatchRow(l)].approved

\* Somebody decided about the approval.
Decided(a) == db[ApprovalRow(a)] \in {"APPROVED", "REJECTED"}

\* A session that calls the provider has an approval that was decided.
CallInv ==
  \A s \in Session : pc[s] = "call_provider" =>
    req[s].content = ContentOf[req[s].approval] /\ Decided(req[s].approval)

\* A draft action names a draft made under its key.
ActionInv ==
  \A k \in DraftKey : db[DraftRow(k)] # NoDraft =>
    /\ db[DraftRow(k)].draft \in DOMAIN mailbox
    /\ mailbox[db[DraftRow(k)].draft].key = k

----------------------------------------------------------------------------
(* Facts about the store.                                                  *)

\* The row identifiers belong to Row and each table has its column type.
LEMMA RowTypes ==
  /\ \A a \in Approval :
       /\ ApprovalRow(a) \in Row /\ ValueSet(ApprovalRow(a)) = ApprovalStatus
       /\ AuditRow(a) \in Row /\ ValueSet(AuditRow(a)) = BOOLEAN
  /\ \A k \in DraftKey :
       /\ DraftRow(k) \in Row /\ ValueSet(DraftRow(k)) = DraftValue
       /\ EventRow(k) \in Row /\ ValueSet(EventRow(k)) = DraftValue
  /\ \A k \in BatchKey : BatchRow(k) \in Row /\ ValueSet(BatchRow(k)) = BatchValue
BY DEF Row, ValueSet, ApprovalRow, AuditRow, DraftRow, EventRow, BatchRow

\* Rows of different tables, and of different keys, differ; a share is no row.
LEMMA RowsDiffer ==
  /\ \A a, k : /\ ApprovalRow(a) # AuditRow(k) /\ ApprovalRow(a) # DraftRow(k)
               /\ ApprovalRow(a) # EventRow(k) /\ ApprovalRow(a) # BatchRow(k)
               /\ ApprovalRow(a) # CaseRow(k) /\ BatchRow(a) # CaseRow(k)
               /\ AuditRow(a) # DraftRow(k) /\ AuditRow(a) # EventRow(k)
               /\ AuditRow(a) # BatchRow(k) /\ DraftRow(a) # EventRow(k)
               /\ DraftRow(a) # BatchRow(k) /\ EventRow(a) # BatchRow(k)
  /\ \A a, b : ApprovalRow(a) = ApprovalRow(b) => a = b
  /\ \A k, l : DraftRow(k) = DraftRow(l) => k = l
  /\ \A k, l : BatchRow(k) = BatchRow(l) => k = l
  /\ \A a, row, s : ApprovalRow(a) # Share(row, s) /\ BatchRow(a) # Share(row, s)
BY DEF ApprovalRow, AuditRow, DraftRow, EventRow, BatchRow, CaseRow, Share

\* FOR UPDATE takes locks there are.
LEMMA LockTypes ==
  \A a \in Approval : ForUpdate(ApprovalRow(a)) \subseteq Lock
                     /\ ForUpdate(CaseRow(CaseOf[a])) \subseteq Lock
<1> SUFFICES ASSUME NEW a \in Approval
             PROVE  /\ ForUpdate(ApprovalRow(a)) \subseteq Lock
                    /\ ForUpdate(CaseRow(CaseOf[a])) \subseteq Lock
  OBVIOUS
<1> DEFINE forApproval == UNION {ForUpdate(ApprovalRow(b)) : b \in Approval}
           forCase == UNION {ForUpdate(CaseRow(c)) : c \in Case}
<1>1. ForUpdate(ApprovalRow(a)) \subseteq forApproval
  BY Zenon
<1>2. CaseOf[a] \in Case
  BY DEF Case
<1>3. ForUpdate(CaseRow(CaseOf[a])) \subseteq forCase
  BY <1>2, Zenon
<1>4. Lock = Row \cup forApproval \cup forCase
  BY Zenon DEF Lock
<1> HIDE DEF forApproval, forCase
<1>5. QED
  BY <1>1, <1>3, <1>4

\* What the assumption on requests says of each kind.
LEMMA RequestTypes ==
  /\ \A b \in Body : b.kind \in {"approve", "reject", "draft", "bulk"}
  /\ \A b \in Body : b.kind # "bulk" => b.approval \in Approval
  /\ \A b \in Body : b.kind = "draft" => b.key \in DraftKey /\ b.content \in Content
  /\ \A b \in Body : b.kind = "bulk" =>
       b.key \in BatchKey /\ b.items \in Seq(BulkItem) /\ b.items # <<>>
BY BodyAssumption DEF ApproveBody, RejectBody, DraftBody, BulkBody

\* An element of a sequence is one of its range.
LEMMA ElementTyped ==
  ASSUME NEW S, NEW q \in Seq(S), NEW k \in DOMAIN q
  PROVE  q[k] \in S
OBVIOUS

\* What a session sees of a row has the type of the row.
LEMMA SeenTyped ==
  ASSUME StoreTyped, NEW s \in Session, NEW row \in Row
  PROVE  Seen(s, row) \in ValueSet(row)
BY DEF StoreTyped, Seen

\* A statement that writes well-typed values keeps the store well typed.
LEMMA StatementTyped ==
  ASSUME StoreTyped, NEW s \in Session, NEW rows \in SUBSET Lock, NEW new,
         DOMAIN new \subseteq Row,
         \A row \in DOMAIN new : new[row] \in ValueSet(row),
         Statement(s, rows, new)
  PROVE  StoreTyped'
<1>1. work' = [work EXCEPT ![s] = Over(new, work[s])]
  BY DEF Statement
<1>2. DOMAIN Over(new, work[s]) \subseteq Row
  BY DEF Over, StoreTyped
<1>3. \A row \in DOMAIN Over(new, work[s]) : Over(new, work[s])[row] \in ValueSet(row)
  BY DEF Over, StoreTyped
<1>4. locks' \in [Session -> SUBSET Lock]
  BY DEF Statement, StoreTyped
<1>5. QED
  BY <1>1, <1>2, <1>3, <1>4 DEF Statement, StoreTyped

\* A session that ends leaves its work and its locks.
LEMMA Ended ==
  ASSUME StoreTyped, NEW s \in Session, End(s)
  PROVE  /\ DOMAIN work' = Session
         /\ \A o \in Session : work'[o] = IF o = s THEN Nothing ELSE work[o]
         /\ locks' \in [Session -> SUBSET Lock]
         /\ \A o \in Session : locks'[o] = IF o = s THEN {} ELSE locks[o]
         /\ DOMAIN Nothing = {}
BY DEF StoreTyped, End, Nothing

\* A flush that writes well-typed values, committed, keeps the store well typed.
LEMMA FlushTyped ==
  ASSUME StoreTyped, NEW s \in Session, NEW new,
         DOMAIN new \subseteq Row,
         \A row \in DOMAIN new : new[row] \in ValueSet(row),
         FlushAndCommit(s, new)
  PROVE  StoreTyped'
<1>1. DOMAIN db' = Row /\ \A row \in Row : db'[row] \in ValueSet(row)
  BY DEF StoreTyped, FlushAndCommit, Over
<1>2. QED
  BY <1>1, Ended DEF StoreTyped, FlushAndCommit

\* So does a rollback.
LEMMA RollbackTyped ==
  ASSUME StoreTyped, NEW s \in Session, Rollback(s)
  PROVE  StoreTyped'
BY Ended DEF StoreTyped, Rollback

----------------------------------------------------------------------------
(* Type correctness.                                                       *)

\* The mailbox as it was, or with one draft more.
Grown == mailbox' = mailbox \/ \E d : mailbox' = Append(mailbox, d)

\* The drafts it held keep their place.
LEMMA DraftsStay ==
  ASSUME MailboxTyped, Grown
  PROVE  \A d \in DOMAIN mailbox : d \in DOMAIN mailbox' /\ mailbox'[d] = mailbox[d]
BY DEF MailboxTyped, Grown

\* Answering a request, whatever became of it.
LEMMA AnswerControl ==
  ASSUME TypeInv, NEW s \in Session, Answer(s), UNCHANGED expired, Grown
  PROVE  ControlTyped' /\ ControlFollowsRequest' /\ DraftHeld'
<1>1. ControlTyped'
  BY BoundAssumption DEF TypeInv, TypeOK, ControlTyped, Answer, GoTo, Labels, ApprovalStatus
<1>2. /\ req' = [req EXCEPT ![s] = NoBody] /\ pc' = [pc EXCEPT ![s] = "idle"]
      /\ item' = [item EXCEPT ![s] = 1] /\ sent' = [sent EXCEPT ![s] = 0]
  BY DEF Answer, GoTo
<1>3. /\ pc'[s] = "idle" /\ item'[s] = 1
      /\ \A o \in Session \ {s} : /\ req'[o] = req[o] /\ pc'[o] = pc[o]
                                  /\ item'[o] = item[o] /\ sent'[o] = sent[o]
  BY <1>2 DEF TypeInv, TypeOK, ControlTyped
<1>4. ControlFollowsRequest'
  BY <1>3 DEF TypeInv, ControlFollowsRequest, BatchLabels
<1>5. DraftHeld'
  BY <1>3, DraftsStay DEF TypeInv, TypeOK, DraftHeld
<1>6. QED
  BY <1>1, <1>4, <1>5

\* A request that fails leaves the types alone.
LEMMA FailTyped ==
  ASSUME TypeInv, NEW s \in Session, Fail(s), UNCHANGED mailbox
  PROVE  TypeInv'
BY AnswerControl, RollbackTyped DEF Fail, TypeInv, TypeOK, Grown, MailboxTyped

\* Nor does one that commits well-typed rows.
LEMMA CommitTyped ==
  ASSUME TypeInv, NEW s \in Session, NEW new,
         DOMAIN new \subseteq Row,
         \A row \in DOMAIN new : new[row] \in ValueSet(row),
         FlushAndCommit(s, new), Answer(s), UNCHANGED <<expired, mailbox>>
  PROVE  TypeInv'
<1>1. StoreTyped'
  BY FlushTyped DEF TypeInv, TypeOK
<1>2. QED
  BY <1>1, AnswerControl DEF TypeInv, TypeOK, Grown, MailboxTyped

\* The statement a request starts at.
LEMMA FirstLabels ==
  \A b \in Body :
    FirstLabel(b) = IF b.kind = "approve" THEN "read_to_approve"
                    ELSE IF b.kind = "reject" THEN "read_to_reject"
                    ELSE IF b.kind = "draft" THEN "read_to_draft"
                    ELSE "open_batch"
BY RequestTypes DEF FirstLabel

\* A request is accepted.
LEMMA BeginTyped ==
  ASSUME TypeInv, NEW s \in Session, Begin(s)
  PROVE  TypeInv'
<1>1. PICK b \in Body : req' = [req EXCEPT ![s] = b] /\ pc' = [pc EXCEPT ![s] = FirstLabel(b)]
  BY DEF Begin, GoTo
<1>2. UNCHANGED <<db, work, locks, item, read, sent, expired, mailbox>>
  BY DEF Begin, store
<1>3. StoreTyped' /\ MailboxTyped'
  BY <1>2 DEF TypeInv, TypeOK, StoreTyped, MailboxTyped
<1>4. ControlTyped'
  BY <1>1, <1>2, FirstLabels DEF TypeInv, TypeOK, ControlTyped, Labels
<1>5. /\ req'[s] = b /\ pc'[s] = FirstLabel(b) /\ item'[s] = 1
      /\ \A o \in Session \ {s} : req'[o] = req[o] /\ pc'[o] = pc[o] /\ item'[o] = item[o]
  BY <1>1, <1>2 DEF Begin, TypeInv, TypeOK, ControlTyped, ControlFollowsRequest, BatchLabels
<1>6. ControlFollowsRequest'
  BY <1>5, FirstLabels, RequestTypes DEF TypeInv, ControlFollowsRequest, BatchLabels
<1>7. DraftHeld'
  BY <1>2, <1>5, FirstLabels DEF TypeInv, DraftHeld
<1>8. QED
  BY <1>3, <1>4, <1>6, <1>7 DEF TypeInv, TypeOK

\* A new approval, and the passing of its time.
LEMMA ApprovalTyped ==
  ASSUME TypeInv, NEW a \in Approval, RequestApproval(a) \/ Expire(a)
  PROVE  TypeInv'
<1>1. UNCHANGED <<work, locks, req, pc, item, read, sent, mailbox>> /\ expired' \subseteq Approval
  BY DEF RequestApproval, Expire, store, TypeInv, TypeOK, ControlTyped
<1>2. db' = db \/ db' = [db EXCEPT ![ApprovalRow(a)] = "PENDING"]
  BY DEF RequestApproval, Expire, store
<1>3. StoreTyped'
  <2>1. DOMAIN db' = Row /\ \A row \in Row : db'[row] \in ValueSet(row)
    BY <1>2, RowTypes DEF TypeInv, TypeOK, StoreTyped, ApprovalStatus
  <2>2. QED
    BY <1>1, <2>1 DEF TypeInv, TypeOK, StoreTyped
<1>4. ControlTyped' /\ MailboxTyped' /\ ControlFollowsRequest' /\ DraftHeld'
  BY <1>1 DEF TypeInv, TypeOK, ControlTyped, MailboxTyped, ControlFollowsRequest, DraftHeld
<1>5. QED
  BY <1>3, <1>4 DEF TypeInv, TypeOK

\* main.py approve, and approvals.py approve_content under it.
LEMMA ApproveTyped ==
  ASSUME TypeInv, NEW s \in Session, ApproveRead(s) \/ ApproveCommit(s)
  PROVE  TypeInv'
<1> DEFINE a == req[s].approval
<1>1. a \in Approval /\ req[s] \in Body /\ req[s].kind = "approve"
  BY RequestTypes DEF ApproveRead, ApproveCommit, TypeInv, ControlFollowsRequest
<1>2. CASE Fail(s) /\ UNCHANGED mailbox
  BY <1>2, FailTyped
<1>3. CASE /\ pc[s] = "read_to_approve"
           /\ read' = [read EXCEPT ![s] = db[ApprovalRow(a)]]
           /\ GoTo(s, "approve")
           /\ UNCHANGED <<store, req, item, sent, expired, mailbox>>
  <2>1. db[ApprovalRow(a)] \in ApprovalStatus
    BY <1>1, RowTypes DEF TypeInv, TypeOK, StoreTyped
  <2>2. StoreTyped' /\ MailboxTyped'
    BY <1>3 DEF store, TypeInv, TypeOK, StoreTyped, MailboxTyped
  <2>3. ControlTyped' /\ ControlFollowsRequest' /\ DraftHeld'
    BY <1>1, <1>3, <2>1 DEF TypeInv, TypeOK, ControlTyped, ControlFollowsRequest, DraftHeld,
       GoTo, Labels, BatchLabels
  <2>4. QED
    BY <2>2, <2>3 DEF TypeInv, TypeOK
<1>4. CASE ApproveCommit(s)
  <2>1. CASE FlushAndCommit(s, Nothing)
    <3>1. DOMAIN Nothing = {}
      BY DEF Nothing
    <3>2. QED
      BY <1>4, <2>1, <3>1, CommitTyped DEF ApproveCommit
  <2>2. CASE FlushAndCommit(s, Write(ApprovalRow(a), "APPROVED"))
    <3>1. LET new == Write(ApprovalRow(a), "APPROVED") IN
            /\ DOMAIN new \subseteq Row
            /\ \A row \in DOMAIN new : new[row] \in ValueSet(row)
      BY <1>1, RowTypes DEF Write, ApprovalStatus
    <3>2. QED
      BY <1>4, <2>2, <3>1, CommitTyped DEF ApproveCommit
  <2>3. QED
    BY <1>4, <2>1, <2>2 DEF ApproveCommit
<1>5. QED
  BY <1>2, <1>3, <1>4 DEF ApproveRead

\* main.py reject_approval.
LEMMA RejectTyped ==
  ASSUME TypeInv, NEW s \in Session, RejectRead(s) \/ RejectCommit(s)
  PROVE  TypeInv'
<1> DEFINE a == req[s].approval
<1>1. a \in Approval /\ req[s] \in Body /\ req[s].kind = "reject"
  BY RequestTypes DEF RejectRead, RejectCommit, TypeInv, ControlFollowsRequest
<1>2. CASE Fail(s) /\ UNCHANGED mailbox
  BY <1>2, FailTyped
<1>3. CASE /\ pc[s] = "read_to_reject"
           /\ read' = [read EXCEPT ![s] = "PENDING"]
           /\ GoTo(s, "reject")
           /\ UNCHANGED <<store, req, item, sent, expired, mailbox>>
  <2>1. StoreTyped' /\ MailboxTyped'
    BY <1>3 DEF store, TypeInv, TypeOK, StoreTyped, MailboxTyped
  <2>2. ControlTyped' /\ ControlFollowsRequest' /\ DraftHeld'
    BY <1>1, <1>3 DEF TypeInv, TypeOK, ControlTyped, ControlFollowsRequest, DraftHeld,
       GoTo, Labels, BatchLabels, ApprovalStatus
  <2>3. QED
    BY <2>1, <2>2 DEF TypeInv, TypeOK
<1>4. CASE RejectCommit(s)
  <2> DEFINE new == Over(Write(ApprovalRow(a), "REJECTED"), Write(AuditRow(a), TRUE))
  <2>1. DOMAIN new = {ApprovalRow(a), AuditRow(a)}
        /\ new[ApprovalRow(a)] = "REJECTED" /\ new[AuditRow(a)] = TRUE
    BY RowsDiffer DEF Over, Write
  <2>2. DOMAIN new \subseteq Row /\ \A row \in DOMAIN new : new[row] \in ValueSet(row)
    BY <1>1, <2>1, RowTypes DEF ApprovalStatus
  <2>3. FlushAndCommit(s, new) /\ Answer(s) /\ UNCHANGED <<expired, mailbox>>
    BY <1>4 DEF RejectCommit
  <2> HIDE DEF new
  <2>4. QED
    BY <2>2, <2>3, CommitTyped
<1>5. QED
  BY <1>2, <1>3, <1>4 DEF RejectRead

\* outlook_draft_create, and what the provider does for it.
LEMMA DraftTyped ==
  ASSUME TypeInv, NEW s \in Session, DraftRead(s) \/ DraftCreate(s) \/ DraftRecord(s)
  PROVE  TypeInv'
<1> DEFINE b == req[s]
<1>1. /\ b \in Body /\ b.kind = "draft" /\ b.approval \in Approval
      /\ b.key \in DraftKey /\ b.content \in Content
  BY RequestTypes DEF DraftRead, DraftCreate, DraftRecord, TypeInv, ControlFollowsRequest
<1>2. CASE Fail(s) /\ UNCHANGED mailbox
  BY <1>2, FailTyped
<1>3. CASE /\ pc[s] = "read_to_draft"
           /\ GoTo(s, "call_provider")
           /\ UNCHANGED <<store, req, item, read, sent, expired, mailbox>>
  <2>1. StoreTyped' /\ MailboxTyped'
    BY <1>3 DEF store, TypeInv, TypeOK, StoreTyped, MailboxTyped
  <2>2. ControlTyped' /\ ControlFollowsRequest' /\ DraftHeld'
    BY <1>1, <1>3 DEF TypeInv, TypeOK, ControlTyped, ControlFollowsRequest, DraftHeld,
       GoTo, Labels, BatchLabels
  <2>3. QED
    BY <2>1, <2>2 DEF TypeInv, TypeOK
<1>4. CASE DraftCreate(s)
  <2> DEFINE draft == [key |-> b.key, approval |-> b.approval, content |-> b.content]
             made == Len(mailbox) < MaxDrafts /\ mailbox' = Append(mailbox, draft)
  <2>1. CASE made
    <3>1. mailbox \in Seq([key : DraftKey, approval : Approval, content : Content])
          /\ Len(mailbox) \in Nat
      BY DEF TypeInv, TypeOK, MailboxTyped
    <3>2. draft \in [key : DraftKey, approval : Approval, content : Content]
      BY <1>1
    <3> HIDE DEF draft
    <3>3. MailboxTyped' /\ Grown
      BY <2>1, <3>1, <3>2, BoundAssumption DEF MailboxTyped, Grown
    <3>4. Len(mailbox) + 1 \in DOMAIN mailbox' /\ mailbox'[Len(mailbox) + 1] = draft
      BY <2>1, <3>1, <3>2
    <3>5. CASE Fail(s)
      <4>1. StoreTyped' /\ ControlTyped' /\ ControlFollowsRequest' /\ DraftHeld'
        BY <3>3, <3>5, AnswerControl, RollbackTyped DEF Fail, TypeInv, TypeOK
      <4>2. QED
        BY <3>3, <4>1 DEF TypeInv, TypeOK
    <3>6. CASE /\ sent' = [sent EXCEPT ![s] = Len(mailbox) + 1]
               /\ GoTo(s, "record_draft")
               /\ UNCHANGED <<store, req, item, read, expired>>
      <4>1. StoreTyped'
        BY <3>6 DEF store, TypeInv, TypeOK, StoreTyped
      <4>2. Len(mailbox) + 1 \in 0..MaxDrafts
        BY <2>1, <3>1, BoundAssumption
      <4>3. ControlTyped' /\ ControlFollowsRequest'
        BY <1>1, <1>4, <3>6, <4>2 DEF DraftCreate, TypeInv, TypeOK, ControlTyped,
           ControlFollowsRequest, GoTo, Labels, BatchLabels
      <4>4. draft.key = req'[s].key /\ draft.approval = req'[s].approval
        BY <3>6 DEF draft
      <4>5. /\ sent'[s] = Len(mailbox) + 1
            /\ \A o \in Session \ {s} : sent'[o] = sent[o] /\ pc'[o] = pc[o] /\ req'[o] = req[o]
        BY <3>6 DEF GoTo, TypeInv, TypeOK, ControlTyped
      <4>6. DraftHeld'
        BY <3>3, <3>4, <4>4, <4>5, DraftsStay DEF DraftHeld, TypeInv, TypeOK
      <4>7. QED
        BY <3>3, <4>1, <4>3, <4>6 DEF TypeInv, TypeOK
    <3>7. QED
      BY <1>4, <2>1, <3>5, <3>6 DEF DraftCreate, ProviderError, draft
  <2>2. CASE Fail(s) /\ UNCHANGED mailbox
    BY <2>2, FailTyped
  <2>3. QED
    BY <1>4, <2>1, <2>2 DEF DraftCreate, ProviderError
<1>5. CASE DraftRecord(s)
  <2> DEFINE action == [approval |-> b.approval, draft |-> sent[s]]
             new == Over(Write(DraftRow(b.key), action), Write(EventRow(b.key), action))
  <2>1. CASE FlushAndCommit(s, new) /\ Answer(s) /\ UNCHANGED <<expired, mailbox>>
    <3>1. sent[s] \in 1..MaxDrafts
      BY <1>5, BoundAssumption DEF DraftRecord, TypeInv, TypeOK, DraftHeld, MailboxTyped
    <3>2. action \in DraftValue
      BY <1>1, <3>1 DEF DraftValue
    <3> HIDE DEF action
    <3>3. /\ DOMAIN new = {DraftRow(b.key), EventRow(b.key)}
          /\ new[DraftRow(b.key)] = action /\ new[EventRow(b.key)] = action
      BY RowsDiffer DEF Over, Write
    <3>4. DOMAIN new \subseteq Row /\ \A row \in DOMAIN new : new[row] \in ValueSet(row)
      BY <1>1, <3>2, <3>3, RowTypes
    <3> HIDE DEF new
    <3>5. QED
      BY <2>1, <3>4, CommitTyped
  <2>2. CASE Fail(s) /\ UNCHANGED mailbox
    BY <2>2, FailTyped
  <2>3. QED
    BY <1>5, <2>1, <2>2 DEF DraftRecord
<1>6. QED
  BY <1>2, <1>3, <1>4, <1>5 DEF DraftRead

\* The control of a batch: the session moves on within its request.
LEMMA BulkControl ==
  ASSUME TypeInv, NEW s \in Session, NEW label \in BatchLabels, GoTo(s, label),
         req[s] \in Body, req[s].kind = "bulk",
         UNCHANGED <<req, sent, expired, mailbox>>,
         read' \in [Session -> ApprovalStatus], item' \in [Session -> Nat \ {0}],
         \A o \in Session \ {s} : item'[o] = item[o],
         label # "commit_batch" => item'[s] \in DOMAIN req[s].items
  PROVE  ControlTyped' /\ MailboxTyped' /\ ControlFollowsRequest' /\ DraftHeld'
<1>1. /\ pc' \in [Session -> Labels] /\ pc'[s] = label
      /\ \A o \in Session \ {s} : pc'[o] = pc[o]
  BY DEF GoTo, TypeInv, TypeOK, ControlTyped, Labels, BatchLabels
<1>2. ControlTyped' /\ MailboxTyped'
  BY <1>1 DEF TypeInv, TypeOK, ControlTyped, MailboxTyped
<1>3. ControlFollowsRequest'
  BY <1>1 DEF TypeInv, ControlFollowsRequest, BatchLabels
<1>4. DraftHeld'
  BY <1>1 DEF TypeInv, DraftHeld, BatchLabels
<1>5. QED
  BY <1>2, <1>3, <1>4

\* What session s is to judge: an item of its batch, which names an approval.
LEMMA ItemTyped ==
  ASSUME TypeInv, NEW s \in Session, pc[s] \in {"lock_approval", "judge"}
  PROVE  /\ req[s] \in Body /\ req[s].kind = "bulk" /\ req[s].key \in BatchKey
         /\ req[s].items \in Seq(BulkItem) /\ item[s] \in DOMAIN req[s].items
         /\ Item(s).approval \in Approval
<1>1. /\ req[s] \in Body /\ req[s].kind = "bulk" /\ item[s] \in DOMAIN req[s].items
  BY DEF TypeInv, ControlFollowsRequest, BatchLabels
<1>2. req[s].key \in BatchKey /\ req[s].items \in Seq(BulkItem)
  BY <1>1, RequestTypes
<1>3. Item(s) \in BulkItem
  BY <1>1, <1>2 DEF Item
<1>4. QED
  BY <1>1, <1>2, <1>3 DEF BulkItem

\* The batch is found or inserted.
LEMMA BulkOpenTyped ==
  ASSUME TypeInv, NEW s \in Session, BulkOpen(s)
  PROVE  TypeInv'
<1> DEFINE batch == BatchRow(req[s].key)
           new == Write(batch, [NoBatch EXCEPT !.status = "PROCESSING"])
<1>1. /\ req[s] \in Body /\ req[s].kind = "bulk" /\ req[s].key \in BatchKey
      /\ 1 \in DOMAIN req[s].items /\ item[s] = 1
  BY RequestTypes DEF BulkOpen, TypeInv, ControlFollowsRequest, BatchLabels
<1>2. CASE Fail(s) /\ UNCHANGED mailbox
  BY <1>2, FailTyped
<1>3. CASE /\ Statement(s, {batch}, new)
           /\ GoTo(s, "lock_approval")
           /\ UNCHANGED <<req, item, read, sent, expired, mailbox>>
  <2>1. batch \in Row /\ ValueSet(batch) = BatchValue /\ batch \in Lock
    BY <1>1, RowTypes DEF Lock
  <2>2. DOMAIN new = {batch} /\ new[batch] \in BatchValue
    BY DEF Write, NoBatch, BatchValue
  <2>3. StoreTyped'
    <3> HIDE DEF batch, new
    <3> QED
      BY <1>3, <2>1, <2>2, StatementTyped DEF TypeInv, TypeOK
  <2>4. ControlTyped' /\ MailboxTyped' /\ ControlFollowsRequest' /\ DraftHeld'
    <3>1. "lock_approval" \in BatchLabels
      BY DEF BatchLabels
    <3>2. read' \in [Session -> ApprovalStatus] /\ item' \in [Session -> Nat \ {0}]
      BY <1>3 DEF TypeInv, TypeOK, ControlTyped
    <3>3. QED
      BY <1>1, <1>3, <3>1, <3>2, BulkControl
  <2>5. QED
    BY <2>3, <2>4 DEF TypeInv, TypeOK
<1>4. QED
  BY <1>2, <1>3 DEF BulkOpen

\* The next approval is locked and read.
LEMMA BulkLockTyped ==
  ASSUME TypeInv, NEW s \in Session, BulkLockApproval(s)
  PROVE  TypeInv'
<1> DEFINE row == ApprovalRow(Item(s).approval)
<1>1. /\ req[s] \in Body /\ req[s].kind = "bulk" /\ item[s] \in DOMAIN req[s].items
      /\ Item(s).approval \in Approval
  BY ItemTyped DEF BulkLockApproval
<1>2. CASE Fail(s) /\ UNCHANGED mailbox
  BY <1>2, FailTyped
<1>3. CASE /\ Statement(s, ForUpdate(row), Nothing)
           /\ read' = [read EXCEPT ![s] = Seen(s, row)]
           /\ GoTo(s, "judge")
           /\ UNCHANGED <<req, item, sent, expired, mailbox>>
  <2>1. row \in Row /\ ValueSet(row) = ApprovalStatus /\ ForUpdate(row) \in SUBSET Lock
    BY <1>1, RowTypes, LockTypes
  <2>2. DOMAIN Nothing = {}
    BY DEF Nothing
  <2> HIDE DEF row
  <2>3. StoreTyped'
    BY <1>3, <2>1, <2>2, StatementTyped DEF TypeInv, TypeOK
  <2>4. Seen(s, row) \in ApprovalStatus
    BY <2>1, SeenTyped DEF TypeInv, TypeOK
  <2>5. ControlTyped' /\ MailboxTyped' /\ ControlFollowsRequest' /\ DraftHeld'
    <3>1. "judge" \in BatchLabels
      BY DEF BatchLabels
    <3>2. read' \in [Session -> ApprovalStatus] /\ item' \in [Session -> Nat \ {0}]
      BY <1>3, <2>4 DEF TypeInv, TypeOK, ControlTyped
    <3>3. QED
      BY <1>1, <1>3, <3>1, <3>2, BulkControl
  <2>6. QED
    BY <2>3, <2>5 DEF TypeInv, TypeOK
<1>4. QED
  BY <1>2, <1>3 DEF BulkLockApproval

\* What an item writes: at most the status of its approval.
LEMMA JudgedRows ==
  ASSUME NEW s, NEW x
  PROVE  \/ Judged(s, x) = Nothing /\ ~Eligible(s, x)
         \/ \E status \in {"APPROVED", "INVALIDATED"} :
              /\ Judged(s, x) = Write(ApprovalRow(x.approval), status)
              /\ Eligible(s, x)
              /\ status = "APPROVED" <=> x.content = ContentOf[x.approval]
<1>1. CASE ~Eligible(s, x)
  BY <1>1 DEF Judged
<1>2. CASE Eligible(s, x) /\ x.content = ContentOf[x.approval]
  BY <1>2 DEF Judged
<1>3. CASE Eligible(s, x) /\ x.content # ContentOf[x.approval]
  BY <1>3 DEF Judged
<1>4. QED
  BY <1>1, <1>2, <1>3

\* It is judged, and the next one is taken.
LEMMA BulkJudgeTyped ==
  ASSUME TypeInv, NEW s \in Session, BulkJudge(s)
  PROVE  TypeInv'
<1> DEFINE x == Item(s)
           case == CaseRow(CaseOf[x.approval])
           batch == BatchRow(req[s].key)
           held == Seen(s, batch)
           list == IF Eligible(s, x) /\ x.content = ContentOf[x.approval]
                   THEN "approved" ELSE "excluded"
           listed == [held EXCEPT ![list] = @ \cup {x.approval}]
           new == Over(Judged(s, x), Write(batch, listed))
<1>1. /\ req[s] \in Body /\ req[s].kind = "bulk" /\ item[s] \in DOMAIN req[s].items
      /\ x.approval \in Approval /\ req[s].items \in Seq(BulkItem) /\ req[s].key \in BatchKey
  BY ItemTyped DEF BulkJudge
<1>2. CASE Fail(s) /\ UNCHANGED mailbox
  BY <1>2, FailTyped
<1>3. CASE /\ Statement(s, ForUpdate(case), new)
           /\ item' = [item EXCEPT ![s] = @ + 1]
           /\ GoTo(s, IF item[s] = Len(req[s].items) THEN "commit_batch" ELSE "lock_approval")
           /\ UNCHANGED <<req, read, sent, expired, mailbox>>
  <2>1. batch \in Row /\ ValueSet(batch) = BatchValue /\ ForUpdate(case) \in SUBSET Lock
    BY <1>1, RowTypes, LockTypes
  <2>2. listed \in BatchValue
    <3>1. held \in BatchValue
      BY <2>1, SeenTyped DEF TypeInv, TypeOK
    <3> HIDE DEF held
    <3>2. QED
      BY <1>1, <3>1 DEF BatchValue
  <2>3. DOMAIN new \subseteq Row /\ \A row \in DOMAIN new : new[row] \in ValueSet(row)
    <3> DEFINE written == Judged(s, x)
    <3>1. /\ DOMAIN written \subseteq {ApprovalRow(x.approval)}
          /\ \A row \in DOMAIN written : written[row] \in {"APPROVED", "INVALIDATED"}
      <4>1. DOMAIN Nothing = {}
        BY DEF Nothing
      <4>2. ASSUME NEW status \in {"APPROVED", "INVALIDATED"},
                   written = Write(ApprovalRow(x.approval), status)
            PROVE  /\ DOMAIN written = {ApprovalRow(x.approval)}
                   /\ written[ApprovalRow(x.approval)] = status
        BY <4>2 DEF Write
      <4>3. \/ written = Nothing
            \/ \E status \in {"APPROVED", "INVALIDATED"} :
                 written = Write(ApprovalRow(x.approval), status)
        BY JudgedRows
      <4> HIDE DEF written
      <4>4. QED
        BY <4>1, <4>2, <4>3
    <3>2. /\ ApprovalRow(x.approval) \in Row
          /\ ValueSet(ApprovalRow(x.approval)) = ApprovalStatus
      BY <1>1, RowTypes
    <3> HIDE DEF written, listed, x, batch
    <3>3. new = Over(written, Write(batch, listed))
      BY DEF written
    <3>4. QED
      BY <2>1, <2>2, <3>1, <3>2, <3>3 DEF Over, Write, ApprovalStatus
  <2>4. StoreTyped'
    <3> HIDE DEF new, case
    <3> QED
      BY <1>3, <2>1, <2>3, StatementTyped DEF TypeInv, TypeOK
  <2>5. ControlTyped' /\ MailboxTyped' /\ ControlFollowsRequest' /\ DraftHeld'
    <3> DEFINE label == IF item[s] = Len(req[s].items) THEN "commit_batch" ELSE "lock_approval"
    <3>1. label \in BatchLabels
      BY DEF BatchLabels
    <3>2. /\ read' \in [Session -> ApprovalStatus] /\ item' \in [Session -> Nat \ {0}]
          /\ \A o \in Session \ {s} : item'[o] = item[o]
          /\ item'[s] = item[s] + 1
      BY <1>3 DEF TypeInv, TypeOK, ControlTyped
    <3>3. label # "commit_batch" => item'[s] \in DOMAIN req[s].items
      BY <1>1, <3>2
    <3>4. GoTo(s, label) /\ UNCHANGED <<req, sent, expired, mailbox>>
      BY <1>3
    <3> HIDE DEF label
    <3>5. QED
      BY <1>1, <3>1, <3>2, <3>3, <3>4, BulkControl
  <2>6. QED
    BY <2>4, <2>5 DEF TypeInv, TypeOK
<1>4. QED
  BY <1>2, <1>3 DEF BulkJudge

\* The batch commits.
LEMMA BulkCommitTyped ==
  ASSUME TypeInv, NEW s \in Session, BulkCommit(s)
  PROVE  TypeInv'
<1> DEFINE row == BatchRow(req[s].key)
           batch == Seen(s, row)
           status == IF batch.excluded = {} THEN "COMPLETED" ELSE "COMPLETED_WITH_EXCLUSIONS"
           new == Write(row, [batch EXCEPT !.status = status])
<1>1. req[s].key \in BatchKey
  BY RequestTypes DEF BulkCommit, TypeInv, ControlFollowsRequest, BatchLabels
<1>2. row \in Row /\ ValueSet(row) = BatchValue
  BY <1>1, RowTypes
<1>3. batch \in BatchValue
  BY <1>2, SeenTyped DEF TypeInv, TypeOK
<1>4. FlushAndCommit(s, new) /\ Answer(s) /\ UNCHANGED <<expired, mailbox>>
  BY DEF BulkCommit
<1> HIDE DEF batch, row
<1>5. DOMAIN new \subseteq Row /\ \A r \in DOMAIN new : new[r] \in ValueSet(r)
  BY <1>2, <1>3 DEF Write, BatchValue
<1> HIDE DEF new
<1>6. QED
  BY <1>4, <1>5, CommitTyped

\* Types, control and the draft in hand hold in the initial states,
LEMMA TypeInit == Init => TypeInv
<1> SUFFICES ASSUME Init PROVE TypeInv
  OBVIOUS
<1>1. \A row \in Row : InitialValue(row) \in ValueSet(row)
  <2>1. \A a : InitialValue(ApprovalRow(a)) = "NONE" /\ InitialValue(AuditRow(a)) = FALSE
    BY DEF InitialValue, ApprovalRow, AuditRow
  <2>2. \A k : InitialValue(DraftRow(k)) = NoDraft /\ InitialValue(EventRow(k)) = NoDraft
    BY DEF InitialValue, DraftRow, EventRow
  <2>3. \A k : InitialValue(BatchRow(k)) = NoBatch
    BY DEF InitialValue, BatchRow
  <2>4. "NONE" \in ApprovalStatus /\ NoDraft \in DraftValue /\ NoBatch \in BatchValue
    BY DEF ApprovalStatus, DraftValue, BatchValue, NoBatch
  <2>5. \A a \in Approval : InitialValue(ApprovalRow(a)) \in ValueSet(ApprovalRow(a))
    BY <2>1, <2>4, RowTypes
  <2>6. \A a \in Approval : InitialValue(AuditRow(a)) \in ValueSet(AuditRow(a))
    BY <2>1, RowTypes, Zenon
  <2>7. \A k \in DraftKey : /\ InitialValue(DraftRow(k)) \in ValueSet(DraftRow(k))
                            /\ InitialValue(EventRow(k)) \in ValueSet(EventRow(k))
    BY <2>2, <2>4, RowTypes
  <2>8. \A k \in BatchKey : InitialValue(BatchRow(k)) \in ValueSet(BatchRow(k))
    BY <2>3, <2>4, RowTypes
  <2>9. QED
    BY <2>5, <2>6, <2>7, <2>8 DEF Row
<1>2. StoreTyped
  BY <1>1 DEF Init, StoreTyped, Nothing
<1>3. ControlTyped /\ MailboxTyped
  BY BoundAssumption DEF Init, ControlTyped, MailboxTyped, Labels, ApprovalStatus
<1>4. ControlFollowsRequest /\ DraftHeld
  BY DEF Init, ControlFollowsRequest, DraftHeld, BatchLabels
<1>5. QED
  BY <1>2, <1>3, <1>4 DEF TypeInv, TypeOK

\* and every action keeps them.
LEMMA TypeStep == TypeInv /\ [Next]_vars => TypeInv'
<1> SUFFICES ASSUME TypeInv, [Next]_vars PROVE TypeInv'
  OBVIOUS
<1>1. CASE UNCHANGED vars
  BY <1>1 DEF vars, TypeInv, TypeOK, StoreTyped, ControlTyped, MailboxTyped,
     ControlFollowsRequest, DraftHeld
<1>2. ASSUME NEW a \in Approval, RequestApproval(a) \/ Expire(a)
      PROVE  TypeInv'
  BY <1>2, ApprovalTyped
<1>3. ASSUME NEW s \in Session, Begin(s)
      PROVE  TypeInv'
  BY <1>3, BeginTyped
<1>4. ASSUME NEW s \in Session, Step(s)
      PROVE  TypeInv'
  <2>1. DeadlockVictim(s) => Fail(s) /\ UNCHANGED mailbox
    BY DEF DeadlockVictim
  <2>2. QED
    BY <1>4, <2>1, ApproveTyped, RejectTyped, DraftTyped, BulkOpenTyped, BulkLockTyped,
       BulkJudgeTyped, BulkCommitTyped, FailTyped DEF Step
<1>5. ASSUME NEW s \in Session, Crash(s)
      PROVE  TypeInv'
  BY <1>5, FailTyped DEF Crash
<1>6. QED
  BY <1>1, <1>2, <1>3, <1>4, <1>5 DEF Next

\* Types, control and the draft a session holds, in every reachable state.
LEMMA TypeInvariant == Spec => []TypeInv
BY TypeInit, TypeStep, PTL DEF Spec

\* Every column keeps its type and the mailbox its bound, whatever requests
\* overlap, fail or are repeated (main.py, v1_features.py, draft_effect.py).
THEOREM TypeCorrect == Spec => []TypeOK
BY TypeInvariant, PTL DEF TypeInv

----------------------------------------------------------------------------
(* Locks and uncommitted writes.                                           *)

\* Only session s moves.
Alone(s) ==
  \A o \in Session \ {s} :
    /\ pc'[o] = pc[o] /\ req'[o] = req[o] /\ item'[o] = item[o] /\ read'[o] = read[o]
    /\ work'[o] = work[o] /\ locks'[o] = locks[o]

\* What session o has locked is as it was.
Untouched(o) ==
  /\ \A a \in Approval : ApprovalRow(a) \in locks[o] => db'[ApprovalRow(a)] = db[ApprovalRow(a)]
  /\ \A k \in BatchKey : BatchRow(k) \in locks[o] => db'[BatchRow(k)] = db[BatchRow(k)]

\* A session whose locked rows stay keeps its invariant.
LEMMA SessionKept ==
  ASSUME TypeInv, BatchInv, NEW o \in Session, Untouched(o),
         pc'[o] = pc[o], req'[o] = req[o], item'[o] = item[o], read'[o] = read[o],
         work'[o] = work[o], locks'[o] = locks[o]
  PROVE  SessionInv(o)'
<1>1. SessionInv(o)
  BY DEF BatchInv
<1>2. ASSUME pc[o] \in BatchLabels
      PROVE  BatchHolds(o)'
  <2> DEFINE batch == BatchRow(req[o].key)
  <2>1. BatchHolds(o) /\ req[o].key \in BatchKey
    <3>1. req[o] \in Body /\ req[o].kind = "bulk"
      BY <1>2 DEF TypeInv, ControlFollowsRequest, BatchLabels
    <3>2. QED
      BY <1>1, <1>2, <3>1, RequestTypes DEF SessionInv
  <2>2. db'[batch] = db[batch]
    BY <2>1 DEF BatchHolds, Untouched
  <2>3. \A row \in DOMAIN work[o] \ {batch} : Decides(o, row) => Decides(o, row)'
    <3>1. \A a \in Approval : Decides(o, ApprovalRow(a)) => db'[ApprovalRow(a)] = "PENDING"
      BY DEF Decides, Untouched
    <3>2. QED
      BY <2>1, <3>1 DEF Decides, BatchHolds
  <2>4. QED
    BY <2>1, <2>2, <2>3 DEF BatchHolds, BatchRow, ApprovalRow
<1>3. ASSUME pc[o] = "judge"
      PROVE  JudgedHeld(o)'
  <2> DEFINE row == ApprovalRow(Item(o).approval)
  <2>1. JudgedHeld(o) /\ Item(o).approval \in Approval
    BY <1>1, <1>3, ItemTyped DEF SessionInv
  <2>2. db'[row] = db[row]
    BY <2>1 DEF JudgedHeld, Untouched
  <2>3. QED
    BY <2>1, <2>2 DEF JudgedHeld, Seen, Item, ApprovalRow
<1>4. \A a \in Approval : ApprovalRow(a) \in locks'[o] => db'[ApprovalRow(a)] # "NONE"
  BY <1>1 DEF SessionInv, Untouched
<1>5. QED
  BY <1>1, <1>2, <1>3, <1>4 DEF SessionInv, ApprovalRow

\* It is enough to look at the session that moves.
LEMMA MoverKeeps ==
  ASSUME TypeInv, BatchInv, NEW s \in Session, Alone(s),
         \A o \in Session \ {s} : Untouched(o),
         \A lock \in locks'[s] : lock \in locks[s] \/ Free(s, lock),
         SessionInv(s)'
  PROVE  BatchInv'
<1>1. \A o \in Session : SessionInv(o)'
  BY SessionKept DEF Alone
<1>2. LocksExclusive'
  BY DEF LocksExclusive, BatchInv, Alone, Free
<1>3. QED
  BY <1>1, <1>2 DEF BatchInv

\* A session that answers has nothing in hand.
LEMMA AnswerKeeps ==
  ASSUME TypeInv, BatchInv, NEW s \in Session, End(s), Answer(s),
         \A o \in Session \ {s} : Untouched(o)
  PROVE  BatchInv'
<1>1. /\ work'[s] = Nothing /\ locks'[s] = {}
      /\ \A o \in Session \ {s} : work'[o] = work[o] /\ locks'[o] = locks[o]
  BY Ended DEF TypeInv, TypeOK
<1>2. pc'[s] = "idle" /\ Alone(s)
  BY <1>1 DEF Answer, GoTo, Alone, TypeInv, TypeOK, ControlTyped
<1>3. SessionInv(s)'
  BY <1>1, <1>2 DEF SessionInv, BatchLabels
<1>4. QED
  BY <1>1, <1>2, <1>3, MoverKeeps

\* A request that fails gives up its write set and its locks.
LEMMA FailKeeps ==
  ASSUME TypeInv, BatchInv, NEW s \in Session, Fail(s)
  PROVE  BatchInv'
<1>1. \A o \in Session : Untouched(o)
  BY DEF Fail, Rollback, Untouched
<1>2. QED
  BY <1>1, AnswerKeeps DEF Fail, Rollback

\* What a session has written, it has locked.
LEMMA WorkLocked ==
  ASSUME BatchInv, NEW s \in Session
  PROVE  \A row \in DOMAIN work[s] : row \in locks[s]
<1>1. DOMAIN Nothing = {}
  BY DEF Nothing
<1>2. QED
  BY <1>1 DEF BatchInv, SessionInv, BatchHolds, Decides

\* A row that another session may have read under its lock.
Lockable(row) ==
  (\E a \in Approval : row = ApprovalRow(a)) \/ (\E k \in BatchKey : row = BatchRow(k))

\* A commit changes no row that another session has locked.
LEMMA CommitKeeps ==
  ASSUME TypeInv, BatchInv, NEW s \in Session, NEW new,
         FlushAndCommit(s, new), Answer(s),
         \A row \in DOMAIN new : Lockable(row) => Free(s, row)
  PROVE  BatchInv'
<1>1. ASSUME NEW o \in Session \ {s}, NEW row \in locks[o], row \in Row, Lockable(row)
      PROVE  db'[row] = db[row]
  <2>1. row \notin locks[s] /\ ~Free(s, row)
    BY <1>1 DEF BatchInv, LocksExclusive, Free
  <2>2. row \notin DOMAIN new /\ row \notin DOMAIN work[s]
    BY <1>1, <2>1, WorkLocked
  <2>3. db' = Over(Over(new, work[s]), db) /\ row \in DOMAIN db
    BY <1>1 DEF FlushAndCommit, TypeInv, TypeOK, StoreTyped
  <2>4. QED
    BY <2>2, <2>3 DEF Over
<1>2. \A o \in Session \ {s} : Untouched(o)
  BY <1>1, RowTypes DEF Untouched, Lockable
<1>3. QED
  BY <1>2, AnswerKeeps DEF FlushAndCommit

\* A step outside a batch that leaves the store alone.
LEMMA QuietKeeps ==
  ASSUME TypeInv, BatchInv, NEW s \in Session, UNCHANGED store,
         pc[s] \notin BatchLabels, pc'[s] \notin BatchLabels, Alone(s)
  PROVE  BatchInv'
<1>1. SessionInv(s)'
  BY DEF store, BatchInv, SessionInv, BatchLabels
<1>2. \A o \in Session : Untouched(o)
  BY DEF store, Untouched
<1>3. QED
  BY <1>1, <1>2, MoverKeeps DEF store

\* Single decisions and drafts wait for nothing they have not locked.
LEMMA DecisionKeeps ==
  ASSUME TypeInv, BatchInv, NEW s \in Session,
         \/ ApproveRead(s) \/ ApproveCommit(s) \/ RejectRead(s) \/ RejectCommit(s)
         \/ DraftRead(s) \/ DraftCreate(s) \/ DraftRecord(s)
  PROVE  BatchInv'
<1> DEFINE a == req[s].approval
           k == req[s].key
<1>1. CASE Fail(s)
  BY <1>1, FailKeeps
<1>2. CASE /\ UNCHANGED <<store, req, item>>
           /\ \/ pc[s] = "read_to_approve" /\ GoTo(s, "approve")
              \/ pc[s] = "read_to_reject" /\ GoTo(s, "reject")
              \/ pc[s] = "read_to_draft" /\ GoTo(s, "call_provider")
              \/ pc[s] = "call_provider" /\ GoTo(s, "record_draft")
           /\ \/ read' = read
              \/ \E status : read' = [read EXCEPT ![s] = status]
  <2>1. Alone(s)
    BY <1>2 DEF store, GoTo, Alone, TypeInv, TypeOK, ControlTyped
  <2>2. pc[s] \notin BatchLabels /\ pc'[s] \notin BatchLabels
    BY <1>2 DEF GoTo, BatchLabels, TypeInv, TypeOK, ControlTyped
  <2>3. QED
    BY <1>2, <2>1, <2>2, QuietKeeps
<1>3. CASE ApproveCommit(s)
  <2>1. CASE FlushAndCommit(s, Nothing)
    <3>1. DOMAIN Nothing = {}
      BY DEF Nothing
    <3>2. QED
      BY <1>3, <2>1, <3>1, CommitKeeps DEF ApproveCommit
  <2>2. CASE FlushAndCommit(s, Write(ApprovalRow(a), "APPROVED")) /\ Free(s, ApprovalRow(a))
    <3>1. DOMAIN Write(ApprovalRow(a), "APPROVED") = {ApprovalRow(a)}
      BY DEF Write
    <3>2. QED
      BY <1>3, <2>2, <3>1, CommitKeeps DEF ApproveCommit
  <2>3. QED
    BY <1>3, <2>1, <2>2 DEF ApproveCommit
<1>4. CASE RejectCommit(s)
  <2> DEFINE new == Over(Write(ApprovalRow(a), "REJECTED"), Write(AuditRow(a), TRUE))
  <2>1. DOMAIN new = {ApprovalRow(a), AuditRow(a)}
    BY DEF Over, Write
  <2>2. FlushAndCommit(s, new) /\ Answer(s) /\ Free(s, ApprovalRow(a))
    BY <1>4 DEF RejectCommit
  <2> HIDE DEF new
  <2>3. \A row \in DOMAIN new : Lockable(row) => Free(s, row)
    BY <2>1, <2>2, RowsDiffer DEF Lockable
  <2>4. QED
    BY <2>2, <2>3, CommitKeeps
<1>5. CASE \E draft : LET new == Over(Write(DraftRow(k), draft), Write(EventRow(k), draft))
                      IN  FlushAndCommit(s, new) /\ Answer(s)
  <2>1. PICK draft : LET new == Over(Write(DraftRow(k), draft), Write(EventRow(k), draft))
                     IN  FlushAndCommit(s, new) /\ Answer(s)
    BY <1>5
  <2> DEFINE new == Over(Write(DraftRow(k), draft), Write(EventRow(k), draft))
  <2>2. DOMAIN new = {DraftRow(k), EventRow(k)}
    BY DEF Over, Write
  <2>3. FlushAndCommit(s, new) /\ Answer(s)
    BY <2>1
  <2> HIDE DEF new
  <2>4. \A row \in DOMAIN new : ~Lockable(row)
    BY <2>2, RowsDiffer DEF Lockable
  <2>5. QED
    BY <2>3, <2>4, CommitKeeps
<1>6. CASE ApproveRead(s)
  BY <1>1, <1>2, <1>6 DEF ApproveRead
<1>7. CASE RejectRead(s)
  BY <1>1, <1>2, <1>7 DEF RejectRead
<1>8. CASE DraftRead(s)
  BY <1>1, <1>2, <1>8 DEF DraftRead
<1>9. CASE DraftCreate(s)
  BY <1>1, <1>2, <1>9 DEF DraftCreate, ProviderError
<1>10. CASE DraftRecord(s)
  BY <1>1, <1>5, <1>10 DEF DraftRecord
<1>11. QED
  BY <1>3, <1>4, <1>6, <1>7, <1>8, <1>9, <1>10

\* A statement of a batch: what is locked, what is written.
LEMMA BatchStatement ==
  ASSUME TypeInv, BatchInv, NEW s \in Session, NEW rows, NEW new, Statement(s, rows, new),
         NEW label \in Labels, GoTo(s, label), UNCHANGED req,
         item' = item \/ item' = [item EXCEPT ![s] = @ + 1],
         read' = read \/ \E status : read' = [read EXCEPT ![s] = status]
  PROVE  /\ Alone(s) /\ db' = db /\ \A o \in Session : Untouched(o)
         /\ pc'[s] = label /\ req'[s] = req[s]
         /\ locks'[s] = locks[s] \cup rows
         /\ work'[s] = Over(new, work[s])
BY DEF Statement, GoTo, Alone, Untouched, TypeInv, TypeOK, StoreTyped, ControlTyped

\* A batch that opens holds its own row.
LEMMA BulkOpenKeeps ==
  ASSUME TypeInv, BatchInv, NEW s \in Session, BulkOpen(s)
  PROVE  BatchInv'
<1> DEFINE batch == BatchRow(req[s].key)
           opened == [NoBatch EXCEPT !.status = "PROCESSING"]
<1>1. CASE Fail(s)
  BY <1>1, FailKeeps
<1>2. CASE /\ db[batch] = NoBatch
           /\ Statement(s, {batch}, Write(batch, opened))
           /\ GoTo(s, "lock_approval")
           /\ UNCHANGED <<req, item, read>>
  <2>1. /\ Alone(s) /\ db' = db /\ \A o \in Session : Untouched(o)
        /\ pc'[s] = "lock_approval" /\ req'[s] = req[s]
        /\ locks'[s] = locks[s] \cup {batch}
        /\ work'[s] = Over(Write(batch, opened), work[s])
    <3>1. "lock_approval" \in Labels
      BY DEF Labels
    <3> HIDE DEF batch, opened
    <3>2. QED
      BY <1>2, <3>1, BatchStatement
  <2>2. work[s] = Nothing /\ locks[s] = {} /\ DOMAIN Nothing = {}
    BY DEF BulkOpen, BatchInv, SessionInv, BatchLabels, Nothing
  <2>3. DOMAIN work'[s] = {batch} /\ work'[s][batch].approved = {}
    BY <2>1, <2>2 DEF Over, Write, NoBatch
  <2>4. SessionInv(s)'
    BY <1>2, <2>1, <2>2, <2>3, RowsDiffer DEF SessionInv, BatchHolds, BatchLabels, BatchRow
  <2>5. Free(s, batch)
    BY DEF BulkOpen
  <2>6. QED
    BY <2>1, <2>2, <2>4, <2>5, MoverKeeps
<1>3. QED
  BY <1>1, <1>2 DEF BulkOpen

\* A batch that locks an approval has read its status under the lock.
LEMMA BulkLockKeeps ==
  ASSUME TypeInv, BatchInv, NEW s \in Session, BulkLockApproval(s)
  PROVE  BatchInv'
<1> DEFINE row == ApprovalRow(Item(s).approval)
           batch == BatchRow(req[s].key)
<1>1. CASE Fail(s)
  BY <1>1, FailKeeps
<1>2. CASE /\ db[row] # "NONE"
           /\ Granted(s, row)
           /\ Statement(s, ForUpdate(row), Nothing)
           /\ read' = [read EXCEPT ![s] = Seen(s, row)]
           /\ GoTo(s, "judge")
           /\ UNCHANGED <<req, item>>
  <2>1. /\ Alone(s) /\ db' = db /\ \A o \in Session : Untouched(o)
        /\ pc'[s] = "judge" /\ req'[s] = req[s]
        /\ locks'[s] = locks[s] \cup ForUpdate(row)
        /\ work'[s] = Over(Nothing, work[s])
    <3>1. "judge" \in Labels
      BY DEF Labels
    <3> HIDE DEF row
    <3>2. QED
      BY <1>2, <3>1, BatchStatement
  <2>2. DOMAIN work'[s] = DOMAIN work[s] /\ \A r \in DOMAIN work[s] : work'[s][r] = work[s][r]
    BY <2>1 DEF Over, Nothing
  <2>3. BatchHolds(s)
    BY DEF BulkLockApproval, BatchInv, SessionInv, BatchLabels
  <2>4. BatchHolds(s)'
    BY <2>1, <2>2, <2>3 DEF BatchHolds, Decides, BatchRow, ApprovalRow
  <2>5. JudgedHeld(s)'
    <3>1. row \in locks'[s]
      BY <2>1 DEF ForUpdate
    <3>2. read'[s] = Seen(s, row) /\ Item(s)' = Item(s)
      BY <1>2 DEF Item, TypeInv, TypeOK, ControlTyped
    <3>3. Seen(s, row)' = Seen(s, row)
      BY <2>1, <2>2, <3>2 DEF Seen, ApprovalRow
    <3>4. QED
      BY <3>1, <3>2, <3>3 DEF JudgedHeld, ApprovalRow
  <2>6. \A a \in Approval : ApprovalRow(a) \in locks'[s] => db'[ApprovalRow(a)] # "NONE"
    BY <1>2, <2>1, RowsDiffer DEF BatchInv, SessionInv, ForUpdate
  <2>7. SessionInv(s)'
    BY <2>1, <2>4, <2>5, <2>6 DEF SessionInv, BatchLabels, ApprovalRow
  <2>8. \A lock \in locks'[s] : lock \in locks[s] \/ Free(s, lock)
    BY <1>2, <2>1 DEF Granted
  <2>9. QED
    BY <2>1, <2>7, <2>8, MoverKeeps
<1>3. QED
  BY <1>1, <1>2 DEF BulkLockApproval

\* An item that is eligible has its approval pending in the database: a status
\* the batch itself wrote is not PENDING.
LEMMA EligiblePending ==
  ASSUME TypeInv, BatchInv, NEW s \in Session, pc[s] = "judge", Eligible(s, Item(s))
  PROVE  LET row == ApprovalRow(Item(s).approval) IN
         row \in locks[s] /\ row \notin DOMAIN work[s] /\ db[row] = "PENDING"
<1> DEFINE row == ApprovalRow(Item(s).approval)
<1>1. row \in locks[s] /\ Seen(s, row) = "PENDING"
  BY DEF BatchInv, SessionInv, JudgedHeld, Eligible
<1>2. BatchHolds(s) /\ row # BatchRow(req[s].key)
  BY RowsDiffer DEF BatchInv, SessionInv, BatchLabels
<1>3. row \notin DOMAIN work[s]
  BY <1>1, <1>2 DEF BatchHolds, Decides, Seen
<1>4. QED
  BY <1>1, <1>3 DEF Seen

\* A batch that judges an item writes the decision of a pending approval.
LEMMA BulkJudgeKeeps ==
  ASSUME TypeInv, BatchInv, NEW s \in Session, BulkJudge(s)
  PROVE  BatchInv'
<1> DEFINE x == Item(s)
           row == ApprovalRow(x.approval)
           case == CaseRow(CaseOf[x.approval])
           batch == BatchRow(req[s].key)
           held == Seen(s, batch)
           list == IF Eligible(s, x) /\ x.content = ContentOf[x.approval]
                   THEN "approved" ELSE "excluded"
           listed == [held EXCEPT ![list] = @ \cup {x.approval}]
           written == Judged(s, x)
           new == Over(written, Write(batch, listed))
           label == IF item[s] = Len(req[s].items) THEN "commit_batch" ELSE "lock_approval"
<1>1. CASE Fail(s)
  BY <1>1, FailKeeps
<1>2. CASE /\ Granted(s, case)
           /\ Statement(s, ForUpdate(case), new)
           /\ item' = [item EXCEPT ![s] = @ + 1]
           /\ GoTo(s, label)
           /\ UNCHANGED <<req, read>>
  <2>1. /\ x.approval \in Approval /\ batch \in Row /\ ValueSet(batch) = BatchValue
    BY ItemTyped, RowTypes DEF BulkJudge
  <2>2. /\ Alone(s) /\ db' = db /\ \A o \in Session : Untouched(o)
        /\ pc'[s] = label /\ req'[s] = req[s]
        /\ locks'[s] = locks[s] \cup ForUpdate(case)
        /\ work'[s] = Over(new, work[s])
    <3>1. label \in Labels
      BY DEF Labels
    <3> HIDE DEF case, new, label
    <3>2. QED
      BY <1>2, <3>1, BatchStatement
  <2>3. BatchHolds(s) /\ row # batch
    <3>1. pc[s] = "judge"
      BY DEF BulkJudge
    <3>2. QED
      BY <3>1, RowsDiffer DEF BatchInv, SessionInv, BatchLabels
  <2>4. held = work[s][batch] /\ held \in BatchValue
    BY <2>1, <2>3, SeenTyped DEF BatchHolds, Seen, TypeInv, TypeOK
  <2>5. \/ written = Nothing /\ list = "excluded"
        \/ \E status \in {"APPROVED", "INVALIDATED"} :
             /\ written = Write(row, status)
             /\ Eligible(s, x)
             /\ list = "approved" => status = "APPROVED"
    BY JudgedRows
  <2>6. Eligible(s, x) => row \in locks[s] /\ row \notin DOMAIN work[s] /\ db[row] = "PENDING"
    BY EligiblePending DEF BulkJudge
  <2>7. listed.approved \subseteq
          held.approved \cup (IF list = "approved" THEN {x.approval} ELSE {})
    BY <2>4 DEF BatchValue
  <2>8. \/ DOMAIN written = {} /\ list = "excluded"
        \/ /\ DOMAIN written = {row} /\ Eligible(s, x)
           /\ written[row] \in {"APPROVED", "INVALIDATED"}
           /\ list = "approved" => written[row] = "APPROVED"
    <3>1. DOMAIN Nothing = {}
      BY DEF Nothing
    <3>2. \A status : DOMAIN Write(row, status) = {row} /\ Write(row, status)[row] = status
      BY DEF Write
    <3> HIDE DEF written, list, row, x
    <3>3. QED
      BY <2>5, <3>1, <3>2
  <2>9. /\ DOMAIN work'[s] = DOMAIN written \cup DOMAIN work[s]
        /\ work'[s][batch] = listed
        /\ \A r \in DOMAIN written : work'[s][r] = written[r]
        /\ \A r \in DOMAIN work[s] \ {batch} :
             r \notin DOMAIN written => work'[s][r] = work[s][r]
    <3>1. batch \in DOMAIN work[s] /\ batch \notin DOMAIN written
      BY <2>3, <2>8 DEF BatchHolds
    <3>2. DOMAIN Write(batch, listed) = {batch} /\ Write(batch, listed)[batch] = listed
      BY DEF Write
    <3> HIDE DEF written, listed, batch
    <3>3. QED
      BY <2>2, <3>1, <3>2 DEF Over, new
  <2> HIDE DEF written, listed, new, list, held
  <2>10. BatchHolds(s)'
    <3>1. /\ batch \in locks'[s] /\ batch \in DOMAIN work'[s] /\ db'[batch] = NoBatch
      BY <2>2, <2>3, <2>9 DEF BatchHolds
    <3>2. ASSUME NEW r \in DOMAIN work'[s] \ {batch}
          PROVE  /\ \E a \in Approval : r = ApprovalRow(a)
                 /\ r \in locks'[s] /\ db'[r] = "PENDING"
                 /\ work'[s][r] \in {"APPROVED", "INVALIDATED"}
      <4>1. CASE r \in DOMAIN written
        BY <2>1, <2>2, <2>6, <2>8, <2>9, <4>1
      <4>2. CASE r \notin DOMAIN written
        BY <2>2, <2>3, <2>9, <3>2, <4>2 DEF BatchHolds, Decides
      <4>3. QED
        BY <4>1, <4>2
    <3>3. ASSUME NEW a \in listed.approved
          PROVE  ApprovalRow(a) \in DOMAIN work'[s] /\ work'[s][ApprovalRow(a)] = "APPROVED"
      <4>1. CASE a \in held.approved
        <5>1. ApprovalRow(a) \in DOMAIN work[s] /\ work[s][ApprovalRow(a)] = "APPROVED"
          BY <2>3, <2>4, <4>1 DEF BatchHolds
        <5>2. ApprovalRow(a) # batch /\ ApprovalRow(a) \notin DOMAIN written
          BY <2>6, <2>8, <5>1, RowsDiffer
        <5>3. QED
          BY <2>9, <5>1, <5>2
      <4>2. CASE a \notin held.approved
        BY <2>7, <2>8, <2>9, <4>2
      <4>3. QED
        BY <4>1, <4>2
    <3>4. QED
      BY <2>2, <2>9, <3>1, <3>2, <3>3 DEF BatchHolds, Decides, BatchRow, ApprovalRow
  <2>11. \A a \in Approval : ApprovalRow(a) \in locks'[s] => db'[ApprovalRow(a)] # "NONE"
    <3>1. \A a : ApprovalRow(a) \notin ForUpdate(case)
      BY RowsDiffer DEF ForUpdate
    <3>2. \A a \in Approval : ApprovalRow(a) \in locks[s] => db[ApprovalRow(a)] # "NONE"
      BY DEF BatchInv, SessionInv
    <3> HIDE DEF case
    <3>3. QED
      BY <2>2, <3>1, <3>2 DEF ApprovalRow
  <2>12. SessionInv(s)'
    BY <2>2, <2>10, <2>11 DEF SessionInv, BatchLabels, ApprovalRow
  <2>13. \A lock \in locks'[s] : lock \in locks[s] \/ Free(s, lock)
    BY <1>2, <2>2 DEF Granted
  <2>14. QED
    BY <2>2, <2>12, <2>13, MoverKeeps
<1>3. QED
  BY <1>1, <1>2 DEF BulkJudge

\* What the commit of a batch writes, apart from what it has written.
LEMMA BulkCommitRows ==
  ASSUME TypeInv, BatchInv, NEW s \in Session, BulkCommit(s)
  PROVE  LET batch == BatchRow(req[s].key) IN
         \E status : LET new == Write(batch, [work[s][batch] EXCEPT !.status = status])
                     IN  /\ FlushAndCommit(s, new) /\ Answer(s)
                         /\ UNCHANGED <<expired, mailbox>>
<1>1. BatchHolds(s)
  BY DEF BulkCommit, BatchInv, SessionInv, BatchLabels
<1>2. QED
  BY <1>1 DEF BulkCommit, BatchHolds, Seen

\* A batch that commits gives them up as well.
LEMMA BulkCommitKeeps ==
  ASSUME TypeInv, BatchInv, NEW s \in Session, BulkCommit(s)
  PROVE  BatchInv'
<1> DEFINE batch == BatchRow(req[s].key)
<1>1. PICK status : LET new == Write(batch, [work[s][batch] EXCEPT !.status = status])
                    IN  FlushAndCommit(s, new) /\ Answer(s)
  BY BulkCommitRows
<1> DEFINE new == Write(batch, [work[s][batch] EXCEPT !.status = status])
<1>2. DOMAIN new = {batch} /\ FlushAndCommit(s, new) /\ Answer(s)
  BY <1>1 DEF Write
<1>3. Free(s, batch)
  BY DEF BulkCommit, BatchInv, SessionInv, BatchLabels, BatchHolds, LocksExclusive, Free
<1> HIDE DEF new
<1>4. QED
  BY <1>2, <1>3, CommitKeeps

\* Nobody holds anything at first.
LEMMA BatchInit == Init => BatchInv
BY DEF Init, BatchInv, LocksExclusive, SessionInv, BatchLabels

\* One case for each action.
LEMMA BatchStep == TypeInv /\ BatchInv /\ [Next]_vars => BatchInv'
<1> SUFFICES ASSUME TypeInv, BatchInv, [Next]_vars PROVE BatchInv'
  OBVIOUS
<1>1. CASE UNCHANGED <<store, req, pc, item, read>>
  <2>1. \A o \in Session : SessionInv(o)'
    BY <1>1, SessionKept DEF store, Untouched
  <2>2. QED
    BY <1>1, <2>1 DEF store, BatchInv, LocksExclusive
<1>2. ASSUME NEW a \in Approval, RequestApproval(a)
      PROVE  BatchInv'
  <2>1. UNCHANGED <<work, locks, req, pc, item, read>> /\ db[ApprovalRow(a)] = "NONE"
    BY <1>2 DEF RequestApproval
  <2>2. \A o \in Session : Untouched(o)
    BY <1>2, <2>1, RowsDiffer DEF RequestApproval, Untouched, BatchInv, SessionInv
  <2>3. \A o \in Session : SessionInv(o)'
    BY <2>1, <2>2, SessionKept
  <2>4. QED
    BY <2>1, <2>3 DEF BatchInv, LocksExclusive
<1>3. ASSUME NEW a \in Approval, Expire(a)
      PROVE  BatchInv'
  BY <1>1, <1>3 DEF Expire
<1>4. ASSUME NEW s \in Session, Begin(s)
      PROVE  BatchInv'
  <2>1. PICK b \in Body : req' = [req EXCEPT ![s] = b] /\ pc' = [pc EXCEPT ![s] = FirstLabel(b)]
    BY <1>4 DEF Begin, GoTo
  <2>2. UNCHANGED <<store, item, read>>
    BY <1>4 DEF Begin
  <2>3. Alone(s)
    BY <2>1, <2>2 DEF store, Alone, TypeInv, TypeOK, ControlTyped
  <2>4. pc[s] \notin BatchLabels /\ pc'[s] \notin BatchLabels
    BY <1>4, <2>1, FirstLabels DEF Begin, BatchLabels, TypeInv, TypeOK, ControlTyped
  <2>5. QED
    BY <2>2, <2>3, <2>4, QuietKeeps
<1>5. ASSUME NEW s \in Session, Step(s)
      PROVE  BatchInv'
  <2>1. DeadlockVictim(s) => Fail(s)
    BY DEF DeadlockVictim
  <2>2. QED
    BY <1>5, <2>1, DecisionKeeps, BulkOpenKeeps, BulkLockKeeps, BulkJudgeKeeps,
       BulkCommitKeeps, FailKeeps DEF Step
<1>6. ASSUME NEW s \in Session, Crash(s)
      PROVE  BatchInv'
  BY <1>6, FailKeeps DEF Crash
<1>7. CASE UNCHANGED vars
  BY <1>1, <1>7 DEF vars, store
<1>8. QED
  BY <1>2, <1>3, <1>4, <1>5, <1>6, <1>7 DEF Next

\* Batches hold what they decided, in every reachable state.
LEMMA BatchInvariant == Spec => []BatchInv
BY TypeInvariant, BatchInit, BatchStep, PTL DEF Spec

----------------------------------------------------------------------------
(* What a step does to the committed rows.                                 *)

\* An approval is requested.
Requests(a) ==
  /\ db[ApprovalRow(a)] = "NONE"
  /\ \A row \in Row : db'[row] = IF row = ApprovalRow(a) THEN "PENDING" ELSE db[row]

\* One approval is decided; a rejection is also audited.
DecidesSingly(a) ==
  \E status \in {"APPROVED", "REJECTED"} :
    \A row \in Row : (\A b : row # AuditRow(b)) =>
      db'[row] = IF row = ApprovalRow(a) THEN status ELSE db[row]

\* A draft action and its event are recorded.
Records(s) ==
  LET k == req[s].key
      action == [approval |-> req[s].approval, draft |-> sent[s]]
  IN  /\ pc[s] = "record_draft" /\ db[DraftRow(k)] = NoDraft /\ mailbox' = mailbox
      /\ \A row \in Row :
           db'[row] = IF row \in {DraftRow(k), EventRow(k)} THEN action ELSE db[row]

\* The work of a batch is committed.
CommitsBatch(s) ==
  LET batch == BatchRow(req[s].key) IN
  /\ pc[s] = "commit_batch"
  /\ \E status : db'[batch] = [work[s][batch] EXCEPT !.status = status]
  /\ \A row \in Row \ {batch} :
       db'[row] = IF row \in DOMAIN work[s] THEN work[s][row] ELSE db[row]

\* A flush puts new rows over written ones over committed ones.
LEMMA Flushed ==
  ASSUME TypeInv, NEW s \in Session, NEW new, FlushAndCommit(s, new)
  PROVE  \A row \in Row :
           db'[row] = IF row \in DOMAIN new THEN new[row]
                      ELSE IF row \in DOMAIN work[s] THEN work[s][row]
                      ELSE db[row]
BY DEF FlushAndCommit, Over, TypeInv, TypeOK, StoreTyped

\* One approval at a time: one row changes, from pending.
LEMMA DecisionCommits ==
  ASSUME TypeInv, BatchInv, NEW s \in Session, ApproveCommit(s) \/ RejectCommit(s)
  PROVE  DecidesSingly(req[s].approval) \/ \A row \in Row : db'[row] = db[row]
<1> DEFINE a == req[s].approval
<1>1. work[s] = Nothing /\ DOMAIN Nothing = {}
  <2>1. pc[s] \in {"approve", "reject"}
    BY DEF ApproveCommit, RejectCommit
  <2>2. QED
    BY <2>1 DEF BatchInv, SessionInv, BatchLabels, Nothing
<1>2. CASE FlushAndCommit(s, Nothing)
  BY <1>1, <1>2, Flushed
<1>3. CASE FlushAndCommit(s, Write(ApprovalRow(a), "APPROVED"))
  <2>1. /\ DOMAIN Write(ApprovalRow(a), "APPROVED") = {ApprovalRow(a)}
        /\ Write(ApprovalRow(a), "APPROVED")[ApprovalRow(a)] = "APPROVED"
    BY DEF Write
  <2>2. \A row \in Row : db'[row] = IF row = ApprovalRow(a) THEN "APPROVED" ELSE db[row]
    BY <1>1, <1>3, <2>1, Flushed
  <2>3. QED
    BY <2>2 DEF DecidesSingly
<1>4. CASE RejectCommit(s)
  <2> DEFINE new == Over(Write(ApprovalRow(a), "REJECTED"), Write(AuditRow(a), TRUE))
  <2>1. DOMAIN new = {ApprovalRow(a), AuditRow(a)} /\ new[ApprovalRow(a)] = "REJECTED"
    BY RowsDiffer DEF Over, Write
  <2>2. FlushAndCommit(s, new)
    BY <1>4 DEF RejectCommit
  <2> HIDE DEF new
  <2>3. \A row \in Row : row # AuditRow(a) =>
          db'[row] = IF row = ApprovalRow(a) THEN "REJECTED" ELSE db[row]
    BY <1>1, <2>1, <2>2, Flushed
  <2>4. QED
    BY <2>3 DEF DecidesSingly
<1>5. QED
  BY <1>2, <1>3, <1>4 DEF ApproveCommit

\* A draft action is inserted under a key that had none.
LEMMA DraftRecords ==
  ASSUME TypeInv, BatchInv, NEW s \in Session, DraftRecord(s)
  PROVE  Records(s) \/ db' = db
<1> DEFINE k == req[s].key
           action == [approval |-> req[s].approval, draft |-> sent[s]]
           new == Over(Write(DraftRow(k), action), Write(EventRow(k), action))
<1>1. CASE Fail(s)
  BY <1>1 DEF Fail, Rollback
<1>2. CASE Unused(k) /\ FlushAndCommit(s, new)
  <2>1. work[s] = Nothing /\ DOMAIN Nothing = {}
    BY DEF DraftRecord, BatchInv, SessionInv, BatchLabels, Nothing
  <2>2. DOMAIN new = {DraftRow(k), EventRow(k)} /\ \A row \in DOMAIN new : new[row] = action
    BY DEF Over, Write
  <2> HIDE DEF new, action
  <2>3. \A row \in Row :
          db'[row] = IF row \in {DraftRow(k), EventRow(k)} THEN action ELSE db[row]
    BY <1>2, <2>1, <2>2, Flushed
  <2>4. pc[s] = "record_draft" /\ mailbox' = mailbox
    BY DEF DraftRecord
  <2>5. QED
    BY <1>2, <2>3, <2>4 DEF Records, Unused, action
<1>3. QED
  BY <1>1, <1>2 DEF DraftRecord

\* A batch writes its own row and the approvals it locked.
LEMMA BatchCommits ==
  ASSUME TypeInv, BatchInv, NEW s \in Session, BulkCommit(s)
  PROVE  CommitsBatch(s)
<1> DEFINE batch == BatchRow(req[s].key)
<1>1. PICK status : LET new == Write(batch, [work[s][batch] EXCEPT !.status = status])
                    IN  FlushAndCommit(s, new)
  BY BulkCommitRows
<1> DEFINE value == [work[s][batch] EXCEPT !.status = status]
           new == Write(batch, value)
<1>2. DOMAIN new = {batch} /\ new[batch] = value /\ FlushAndCommit(s, new)
  BY <1>1 DEF Write
<1>3. pc[s] = "commit_batch" /\ batch \in Row
  <2>1. pc[s] = "commit_batch"
    BY DEF BulkCommit
  <2>2. QED
    BY <2>1, RequestTypes, RowTypes DEF TypeInv, ControlFollowsRequest, BatchLabels
<1> HIDE DEF new, value, batch
<1>4. db'[batch] = value
  BY <1>2, <1>3, Flushed
<1>5. \A row \in Row \ {batch} :
        db'[row] = IF row \in DOMAIN work[s] THEN work[s][row] ELSE db[row]
  BY <1>2, Flushed
<1>6. QED
  BY <1>3, <1>4, <1>5 DEF CommitsBatch, value, batch

\* The committed rows change in four ways.
LEMMA RowSteps ==
  ASSUME TypeInv, BatchInv, [Next]_vars
  PROVE  \/ \A row \in Row : db'[row] = db[row]
         \/ \E a \in Approval : Requests(a) /\ pc' = pc
         \/ \E s \in Session : /\ pc[s] \in {"approve", "reject"}
                               /\ \A o \in Session \ {s} : pc'[o] = pc[o]
                               /\ \E a \in Approval : DecidesSingly(a)
         \/ \E s \in Session : Records(s)
         \/ \E s \in Session : CommitsBatch(s)
<1>1. CASE UNCHANGED vars
  BY <1>1 DEF vars
<1>2. ASSUME NEW a \in Approval, RequestApproval(a)
      PROVE  Requests(a) /\ pc' = pc
  BY <1>2 DEF RequestApproval, Requests, TypeInv, TypeOK, StoreTyped
<1>3. ASSUME NEW a \in Approval, Expire(a)
      PROVE  db' = db
  BY <1>3 DEF Expire, store
<1>4. ASSUME NEW s \in Session, Begin(s) \/ Crash(s) \/ DeadlockVictim(s)
      PROVE  db' = db
  BY <1>4 DEF Begin, Crash, DeadlockVictim, Fail, Rollback, store
<1>5. ASSUME NEW s \in Session, \/ ApproveRead(s) \/ RejectRead(s) \/ DraftRead(s)
                               \/ DraftCreate(s)
      PROVE  db' = db
  BY <1>5 DEF ApproveRead, RejectRead, DraftRead, DraftCreate, ProviderError, Fail, Rollback,
     store
<1>6. ASSUME NEW s \in Session, BulkOpen(s) \/ BulkLockApproval(s) \/ BulkJudge(s)
      PROVE  db' = db
  BY <1>6 DEF BulkOpen, BulkLockApproval, BulkJudge, Statement, Fail, Rollback
<1>7. ASSUME NEW s \in Session, ApproveCommit(s) \/ RejectCommit(s)
      PROVE  \/ \A row \in Row : db'[row] = db[row]
             \/ /\ pc[s] \in {"approve", "reject"}
                /\ \A o \in Session \ {s} : pc'[o] = pc[o]
                /\ \E a \in Approval : DecidesSingly(a)
  <2>1. pc[s] \in {"approve", "reject"} /\ \A o \in Session \ {s} : pc'[o] = pc[o]
    BY <1>7 DEF ApproveCommit, RejectCommit, Answer, GoTo, TypeInv, TypeOK, ControlTyped
  <2>2. req[s].approval \in Approval
    BY <2>1, RequestTypes DEF TypeInv, ControlFollowsRequest
  <2>3. DecidesSingly(req[s].approval) => \E a \in Approval : DecidesSingly(a)
    BY <2>2 DEF DecidesSingly, ApprovalRow
  <2>4. QED
    BY <1>7, <2>1, <2>3, DecisionCommits
<1>8. QED
  BY <1>1, <1>2, <1>3, <1>4, <1>5, <1>6, <1>7, DraftRecords, BatchCommits DEF Next, Step

----------------------------------------------------------------------------
(* Batches and decisions.                                                  *)

\* The status of an approval changes by its request, by a single decision, or
\* by a batch that finds it pending.
LEMMA ApprovalSteps ==
  ASSUME TypeInv, BatchInv, [Next]_vars, NEW a \in Approval
  PROVE  LET old == db[ApprovalRow(a)]
             new == db'[ApprovalRow(a)]
         IN  \/ new = old
             \/ old = "NONE" /\ new = "PENDING" /\ pc' = pc
             \/ /\ new \in {"APPROVED", "REJECTED"}
                /\ \E s \in Session : /\ pc[s] \in {"approve", "reject"}
                                      /\ \A o \in Session \ {s} : pc'[o] = pc[o]
             \/ old = "PENDING" /\ new \in {"APPROVED", "INVALIDATED"}
<1> DEFINE row == ApprovalRow(a)
<1>1. row \in Row
  BY RowTypes
<1>2. ASSUME NEW b \in Approval, Requests(b)
      PROVE  db'[row] = db[row] \/ (db[row] = "NONE" /\ db'[row] = "PENDING")
  BY <1>1, <1>2, RowsDiffer DEF Requests
<1>3. ASSUME NEW b \in Approval, DecidesSingly(b)
      PROVE  db'[row] = db[row] \/ db'[row] \in {"APPROVED", "REJECTED"}
  BY <1>1, <1>3, RowsDiffer DEF DecidesSingly
<1>4. ASSUME NEW s \in Session, Records(s)
      PROVE  db'[row] = db[row]
  BY <1>1, <1>4, RowsDiffer DEF Records
<1>5. ASSUME NEW s \in Session, CommitsBatch(s)
      PROVE  db'[row] = db[row]
               \/ (db[row] = "PENDING" /\ db'[row] \in {"APPROVED", "INVALIDATED"})
  <2>1. BatchHolds(s) /\ row # BatchRow(req[s].key)
    BY <1>5, RowsDiffer DEF CommitsBatch, BatchInv, SessionInv, BatchLabels
  <2>2. db'[row] = IF row \in DOMAIN work[s] THEN work[s][row] ELSE db[row]
    BY <1>1, <1>5, <2>1 DEF CommitsBatch
  <2>3. QED
    BY <2>1, <2>2 DEF BatchHolds, Decides
<1> HIDE DEF row
<1>6. \/ db'[row] = db[row]
      \/ db[row] = "NONE" /\ db'[row] = "PENDING" /\ pc' = pc
      \/ /\ db'[row] \in {"APPROVED", "REJECTED"}
         /\ \E s \in Session : /\ pc[s] \in {"approve", "reject"}
                               /\ \A o \in Session \ {s} : pc'[o] = pc[o]
      \/ db[row] = "PENDING" /\ db'[row] \in {"APPROVED", "INVALIDATED"}
  <2>1. CASE \A r \in Row : db'[r] = db[r]
    BY <1>1, <2>1
  <2>2. CASE \E b \in Approval : Requests(b) /\ pc' = pc
    BY <1>2, <2>2
  <2>3. CASE \E s \in Session :
               /\ pc[s] \in {"approve", "reject"}
               /\ \A o \in Session \ {s} : pc'[o] = pc[o]
               /\ \E b \in Approval : DecidesSingly(b)
    BY <1>3, <2>3
  <2>4. CASE \E s \in Session : Records(s)
    BY <1>4, <2>4
  <2>5. CASE \E s \in Session : CommitsBatch(s)
    BY <1>5, <2>5
  <2>6. QED
    BY <2>1, <2>2, <2>3, <2>4, <2>5, RowSteps
<1>7. QED
  BY <1>6 DEF row

\* A batch never overrides a decision, although it reads, waits and commits at
\* different moments and a single decision waits for nobody until it commits
\* (v1_features.py bulk_commit, FOR UPDATE and the check of the status).
THEOREM BatchesKeepDecisions == Spec => BulkKeepsDecisions
<1> DEFINE Keeps == \A s \in Session, a \in Approval :
                      pc[s] = "commit_batch" /\ db'[ApprovalRow(a)] # db[ApprovalRow(a)]
                        => db[ApprovalRow(a)] = "PENDING" \/ pc'[s] = "commit_batch"
<1>1. TypeInv /\ BatchInv /\ [Next]_vars => [Keeps]_vars
  <2> SUFFICES ASSUME TypeInv, BatchInv, [Next]_vars, NEW s \in Session, NEW a \in Approval,
                      pc[s] = "commit_batch", db'[ApprovalRow(a)] # db[ApprovalRow(a)]
               PROVE  db[ApprovalRow(a)] = "PENDING" \/ pc'[s] = "commit_batch"
    OBVIOUS
  <2>1. QED
    BY ApprovalSteps
<1>2. QED
  BY <1>1, TypeInvariant, BatchInvariant, PTL DEF Spec, BulkKeepsDecisions

\* What a batch reports changes by its commit, which reports what it approves.
LEMMA BatchSteps ==
  ASSUME TypeInv, BatchInv, [Next]_vars, NEW k \in BatchKey
  PROVE  \/ db'[BatchRow(k)] = db[BatchRow(k)]
         \/ /\ \A a \in db'[BatchRow(k)].approved :
                 db[ApprovalRow(a)] = "PENDING" /\ db'[ApprovalRow(a)] = "APPROVED"
            /\ \A l \in BatchKey \ {k} : db'[BatchRow(l)] = db[BatchRow(l)]
<1>1. \A l \in BatchKey : BatchRow(l) \in Row
  BY RowTypes
<1>2. ASSUME NEW a \in Approval, Requests(a)
      PROVE  db'[BatchRow(k)] = db[BatchRow(k)]
  BY <1>1, <1>2, RowsDiffer DEF Requests
<1>3. ASSUME NEW a \in Approval, DecidesSingly(a)
      PROVE  db'[BatchRow(k)] = db[BatchRow(k)]
  BY <1>1, <1>3, RowsDiffer DEF DecidesSingly
<1>4. ASSUME NEW s \in Session, Records(s)
      PROVE  db'[BatchRow(k)] = db[BatchRow(k)]
  BY <1>1, <1>4, RowsDiffer DEF Records
<1>5. ASSUME NEW s \in Session, CommitsBatch(s), db'[BatchRow(k)] # db[BatchRow(k)]
      PROVE  /\ \A a \in db'[BatchRow(k)].approved :
                  db[ApprovalRow(a)] = "PENDING" /\ db'[ApprovalRow(a)] = "APPROVED"
             /\ \A l \in BatchKey \ {k} : db'[BatchRow(l)] = db[BatchRow(l)]
  <2> DEFINE batch == BatchRow(req[s].key)
  <2>1. BatchHolds(s)
    BY <1>5 DEF CommitsBatch, BatchInv, SessionInv, BatchLabels
  <2>2. \A l \in BatchKey : BatchRow(l) # batch => db'[BatchRow(l)] = db[BatchRow(l)]
    <3>1. \A l \in BatchKey : BatchRow(l) # batch => BatchRow(l) \notin DOMAIN work[s]
      <4>1. \A row \in DOMAIN work[s] \ {batch} : \E a \in Approval : row = ApprovalRow(a)
        BY <2>1 DEF BatchHolds
      <4> HIDE DEF batch
      <4>2. QED
        BY <4>1, RowsDiffer
    <3>2. QED
      BY <1>1, <1>5, <3>1 DEF CommitsBatch
  <2>3. batch = BatchRow(k)
    BY <1>5, <2>2
  <2>4. work[s][batch] \in BatchValue
    BY <1>1, <2>1, <2>3, RowTypes DEF BatchHolds, TypeInv, TypeOK, StoreTyped
  <2>5. db'[batch].approved = work[s][batch].approved /\ work[s][batch].approved \subseteq Approval
    BY <1>5, <2>4 DEF CommitsBatch, BatchValue
  <2>6. ASSUME NEW a \in work[s][batch].approved
        PROVE  db[ApprovalRow(a)] = "PENDING" /\ db'[ApprovalRow(a)] = "APPROVED"
    <3>1. /\ ApprovalRow(a) \in Row \ {batch}
          /\ ApprovalRow(a) \in DOMAIN work[s] /\ work[s][ApprovalRow(a)] = "APPROVED"
      BY <2>1, <2>5, <2>6, RowTypes, RowsDiffer DEF BatchHolds
    <3>2. QED
      BY <1>5, <2>1, <3>1 DEF CommitsBatch, BatchHolds, Decides
  <2>7. \A l \in BatchKey \ {k} : db'[BatchRow(l)] = db[BatchRow(l)]
    BY <2>2, <2>3, RowsDiffer
  <2>8. db'[BatchRow(k)].approved = work[s][batch].approved
    BY <2>3, <2>5
  <2> HIDE DEF batch
  <2>9. QED
    BY <2>6, <2>7, <2>8
<1>6. QED
  BY <1>1, <1>2, <1>3, <1>4, <1>5, RowSteps

\* A batch reports what was pending when it committed, so no other had it.
LEMMA ReportStep == TypeInv /\ BatchInv /\ ReportInv /\ [Next]_vars => ReportInv'
<1> SUFFICES ASSUME TypeInv, BatchInv, ReportInv, [Next]_vars,
                    NEW k \in BatchKey, NEW a \in db'[BatchRow(k)].approved
             PROVE  /\ db'[ApprovalRow(a)] \notin {"NONE", "PENDING"}
                    /\ \A l \in BatchKey \ {k} : a \notin db'[BatchRow(l)].approved
  BY DEF ReportInv, ApprovalRow, BatchRow
<1>1. TypeInv'
  BY TypeStep
<1>2. a \in Approval
  <2>1. BatchRow(k) \in Row /\ ValueSet(BatchRow(k)) = BatchValue
    BY RowTypes
  <2>2. db'[BatchRow(k)] \in BatchValue
    BY <1>1, <2>1 DEF TypeInv, TypeOK, StoreTyped
  <2>3. QED
    BY <2>2 DEF BatchValue
<1>3. CASE db'[BatchRow(k)] = db[BatchRow(k)]
  <2>1. db[ApprovalRow(a)] \notin {"NONE", "PENDING"}
    BY <1>3 DEF ReportInv
  <2>2. db'[ApprovalRow(a)] \notin {"NONE", "PENDING"}
    BY <1>2, <2>1, ApprovalSteps
  <2>3. ASSUME NEW l \in BatchKey \ {k}
        PROVE  a \notin db'[BatchRow(l)].approved
    <3>1. a \notin db[BatchRow(l)].approved
      BY <1>3 DEF ReportInv
    <3>2. CASE db'[BatchRow(l)] = db[BatchRow(l)]
      BY <3>1, <3>2
    <3>3. CASE db'[BatchRow(l)] # db[BatchRow(l)]
      BY <2>1, <3>3, BatchSteps
    <3>4. QED
      BY <3>2, <3>3
  <2>4. QED
    BY <2>2, <2>3
<1>4. CASE db'[BatchRow(k)] # db[BatchRow(k)]
  <2>1. /\ db[ApprovalRow(a)] = "PENDING" /\ db'[ApprovalRow(a)] = "APPROVED"
        /\ \A l \in BatchKey \ {k} : db'[BatchRow(l)] = db[BatchRow(l)]
    BY <1>4, BatchSteps
  <2>2. \A l \in BatchKey : a \notin db[BatchRow(l)].approved
    BY <2>1 DEF ReportInv
  <2>3. QED
    BY <2>1, <2>2
<1>5. QED
  BY <1>3, <1>4

\* No two batches report that they approved one approval, and what a batch
\* reports is not left pending: the key of a batch, the locks and the status
\* check together (v1_features.py bulk_commit).
THEOREM ApprovalsReportedOnce == Spec => []BatchesDecideOnce
<1>1. Init => ReportInv
  <2> SUFFICES ASSUME Init, NEW k \in BatchKey PROVE db[BatchRow(k)].approved = {}
    BY DEF ReportInv
  <2>1. db[BatchRow(k)] = NoBatch
    BY RowTypes DEF Init, InitialValue, BatchRow
  <2>2. QED
    BY <2>1 DEF NoBatch
<1>2. ReportInv => BatchesDecideOnce
  BY DEF ReportInv, BatchesDecideOnce
<1>3. QED
  BY <1>1, <1>2, TypeInvariant, BatchInvariant, ReportStep, PTL DEF Spec

----------------------------------------------------------------------------
(* Drafts.                                                                 *)

\* A call of the provider starts with an approval that stands, and makes at most
\* one draft, of what the session was asked for.
Calls(s) ==
  /\ pc[s] = "read_to_draft" /\ Draftable(req[s]) /\ req'[s] = req[s]
  /\ db' = db /\ mailbox' = mailbox

\* The provider makes a draft.
Makes(s) ==
  /\ pc[s] = "call_provider" /\ db' = db
  /\ mailbox' = Append(mailbox, [key |-> req[s].key, approval |-> req[s].approval,
                                 content |-> req[s].content])

\* Who is at the provider, and what it does, one case for each action.
LEMMA CallSteps ==
  ASSUME TypeInv, [Next]_vars
  PROVE  /\ mailbox' = mailbox \/ \E s \in Session : Makes(s)
         /\ \A s \in Session : pc'[s] = "call_provider" =>
              Calls(s) \/ (pc[s] = "call_provider" /\ req'[s] = req[s])
<1> DEFINE Stays(s) == pc'[s] # "call_provider"
                         \/ (pc[s] = "call_provider" /\ req'[s] = req[s])
           Aside(s) == \A o \in Session \ {s} : pc'[o] = pc[o] /\ req'[o] = req[o]
<1>1. CASE UNCHANGED <<req, pc, mailbox>>
  BY <1>1
<1>2. ASSUME NEW s \in Session, Begin(s)
      PROVE  mailbox' = mailbox /\ Stays(s) /\ Aside(s)
  <2>1. PICK b \in Body : req' = [req EXCEPT ![s] = b] /\ pc' = [pc EXCEPT ![s] = FirstLabel(b)]
    BY <1>2 DEF Begin, GoTo
  <2>2. QED
    BY <1>2, <2>1, FirstLabels DEF Begin, TypeInv, TypeOK, ControlTyped
<1>3. ASSUME NEW s \in Session, Answer(s)
      PROVE  Stays(s) /\ Aside(s)
  BY <1>3 DEF Answer, GoTo, TypeInv, TypeOK, ControlTyped
<1>4. ASSUME NEW s \in Session, NEW label \in Labels \ {"call_provider"}, GoTo(s, label),
             UNCHANGED req
      PROVE  Stays(s) /\ Aside(s)
  BY <1>4 DEF GoTo, TypeInv, TypeOK, ControlTyped
<1>5. ASSUME NEW s \in Session, ApproveRead(s) \/ ApproveCommit(s) \/ RejectRead(s) \/ RejectCommit(s)
      PROVE  mailbox' = mailbox /\ Stays(s) /\ Aside(s)
  <2>1. mailbox' = mailbox /\ (Answer(s) \/ \E label \in {"approve", "reject"} :
                                           GoTo(s, label) /\ UNCHANGED req)
    BY <1>5 DEF ApproveRead, ApproveCommit, RejectRead, RejectCommit, Fail
  <2>2. QED
    BY <1>3, <1>4, <2>1 DEF Labels
<1>6. ASSUME NEW s \in Session, \/ BulkOpen(s) \/ BulkLockApproval(s) \/ BulkJudge(s)
                               \/ BulkCommit(s)
      PROVE  mailbox' = mailbox /\ Stays(s) /\ Aside(s)
  <2>1. mailbox' = mailbox /\ (Answer(s) \/ \E label \in BatchLabels :
                                           GoTo(s, label) /\ UNCHANGED req)
    BY <1>6 DEF BulkOpen, BulkLockApproval, BulkJudge, BulkCommit, Fail, BatchLabels
  <2>2. QED
    BY <1>3, <1>4, <2>1 DEF Labels, BatchLabels
<1>7. ASSUME NEW s \in Session, DraftRead(s)
      PROVE  mailbox' = mailbox /\ (Calls(s) \/ Stays(s)) /\ Aside(s)
  <2>1. CASE Fail(s)
    BY <1>3, <1>7, <2>1 DEF DraftRead, Fail
  <2>2. CASE /\ Draftable(req[s]) /\ GoTo(s, "call_provider")
             /\ UNCHANGED <<store, req>>
    BY <1>7, <2>2 DEF DraftRead, Calls, GoTo, store, TypeInv, TypeOK, ControlTyped
  <2>3. QED
    BY <1>7, <2>1, <2>2 DEF DraftRead
<1>8. ASSUME NEW s \in Session, DraftCreate(s)
      PROVE  (mailbox' = mailbox \/ Makes(s)) /\ Stays(s) /\ Aside(s)
  <2>1. Answer(s) \/ (GoTo(s, "record_draft") /\ UNCHANGED req)
    BY <1>8 DEF DraftCreate, ProviderError, Fail
  <2>2. mailbox' = mailbox \/ Makes(s)
    BY <1>8 DEF DraftCreate, ProviderError, Fail, Rollback, Makes, store
  <2>3. QED
    BY <1>3, <1>4, <2>1, <2>2 DEF Labels
<1>9. ASSUME NEW s \in Session, DraftRecord(s) \/ Crash(s) \/ DeadlockVictim(s)
      PROVE  mailbox' = mailbox /\ Stays(s) /\ Aside(s)
  BY <1>3, <1>9 DEF DraftRecord, Crash, DeadlockVictim, Fail
<1> HIDE DEF Stays, Aside
<1>10. (\E a \in Approval : RequestApproval(a) \/ Expire(a)) => UNCHANGED <<req, pc, mailbox>>
  BY DEF RequestApproval, Expire
<1>11. \/ UNCHANGED <<req, pc, mailbox>>
       \/ \E s \in Session : /\ mailbox' = mailbox \/ Makes(s)
                             /\ Calls(s) \/ Stays(s)
                             /\ Aside(s)
  <2>1. UNCHANGED vars => UNCHANGED <<req, pc, mailbox>>
    BY DEF vars
  <2>2. QED
    BY <1>2, <1>5, <1>6, <1>7, <1>8, <1>9, <1>10, <2>1 DEF Next, Step
<1>12. QED
  <2>1. ASSUME NEW s \in Session, Calls(s) \/ Stays(s), Aside(s), NEW o \in Session,
               pc'[o] = "call_provider"
        PROVE  Calls(o) \/ (pc[o] = "call_provider" /\ req'[o] = req[o])
    BY <2>1 DEF Stays, Aside
  <2>2. QED
    BY <1>1, <1>11, <2>1

\* A decision is never undone to nothing: at worst it is turned.
LEMMA DecidedStays ==
  ASSUME TypeInv, BatchInv, [Next]_vars, NEW a \in Approval, Decided(a)
  PROVE  Decided(a)'
BY ApprovalSteps DEF Decided, ApprovalRow

\* Drafts that exist and drafts on their way.
DraftInv == DraftsApproved /\ CallInv

\* A call starts from a decision, and a decision stays.
LEMMA DraftStep == TypeInv /\ BatchInv /\ DraftInv /\ [Next]_vars => DraftInv'
<1> SUFFICES ASSUME TypeInv, BatchInv, DraftInv, [Next]_vars PROVE DraftInv'
  OBVIOUS
<1>1. \A a \in Approval : Decided(a) => Decided(a)'
  BY DecidedStays
<1>2. CallInv'
  <2> SUFFICES ASSUME NEW s \in Session, pc'[s] = "call_provider"
               PROVE  /\ req'[s].content = ContentOf[req'[s].approval]
                      /\ Decided(req[s].approval)'
    BY DEF CallInv
  <2>1. /\ req'[s] = req[s] /\ req[s].content = ContentOf[req[s].approval]
        /\ Decided(req[s].approval)
    BY CallSteps DEF Calls, Draftable, Decided, DraftInv, CallInv
  <2>2. req[s].approval \in Approval
    <3>1. pc[s] \in {"read_to_draft", "call_provider"}
      BY CallSteps DEF Calls
    <3>2. QED
      BY <3>1, RequestTypes DEF TypeInv, ControlFollowsRequest
  <2>3. PICK a \in Approval : a = req[s].approval
    BY <2>2
  <2>4. Decided(a)'
    BY <1>1, <2>1, <2>3 DEF Decided
  <2>5. QED
    BY <2>1, <2>3, <2>4 DEF Decided, ApprovalRow
<1>3. DraftsApproved'
  <2> SUFFICES ASSUME NEW d \in DOMAIN mailbox'
               PROVE  /\ mailbox'[d].content = ContentOf[mailbox'[d].approval]
                      /\ db'[ApprovalRow(mailbox'[d].approval)] \in {"APPROVED", "REJECTED"}
    BY DEF DraftsApproved, ApprovalRow
  <2>1. mailbox \in Seq([key : DraftKey, approval : Approval, content : Content])
    BY DEF TypeInv, TypeOK, MailboxTyped
  <2>2. ASSUME d \in DOMAIN mailbox, mailbox'[d] = mailbox[d]
        PROVE  /\ mailbox'[d].content = ContentOf[mailbox'[d].approval]
               /\ db'[ApprovalRow(mailbox'[d].approval)] \in {"APPROVED", "REJECTED"}
    <3>1. PICK a \in Approval : a = mailbox[d].approval
      <4>1. mailbox[d] \in [key : DraftKey, approval : Approval, content : Content]
        BY <2>1, <2>2, ElementTyped
      <4>2. QED
        BY <4>1
    <3>2. Decided(a) /\ mailbox[d].content = ContentOf[a]
      BY <2>2, <3>1 DEF DraftInv, DraftsApproved, Decided
    <3>3. QED
      BY <1>1, <2>2, <3>1, <3>2 DEF Decided, ApprovalRow
  <2>3. ASSUME NEW s \in Session, Makes(s)
        PROVE  /\ mailbox'[d].content = ContentOf[mailbox'[d].approval]
               /\ db'[ApprovalRow(mailbox'[d].approval)] \in {"APPROVED", "REJECTED"}
    <3> DEFINE draft == [key |-> req[s].key, approval |-> req[s].approval,
                         content |-> req[s].content]
    <3>1. mailbox' = Append(mailbox, draft) /\ db' = db
      BY <2>3 DEF Makes
    <3>2. /\ draft.content = ContentOf[draft.approval]
          /\ db[ApprovalRow(draft.approval)] \in {"APPROVED", "REJECTED"}
      BY <2>3 DEF Makes, DraftInv, CallInv, Decided
    <3> HIDE DEF draft
    <3>3. mailbox'[d] = draft \/ (d \in DOMAIN mailbox /\ mailbox'[d] = mailbox[d])
      BY <2>1, <3>1
    <3>4. QED
      BY <2>2, <3>1, <3>2, <3>3
  <2>4. QED
    BY <2>2, <2>3, CallSteps
<1>4. QED
  BY <1>2, <1>3 DEF DraftInv

\* Every draft in the mailbox has the content of an approval that was decided:
\* the status is checked before the call, and no batch, decision or crash during
\* the call takes the decision away (v1_features.py outlook_draft_create).
THEOREM DraftsAreApproved == Spec => []DraftsApproved
<1>1. Init => DraftInv
  BY DEF Init, DraftInv, DraftsApproved, CallInv
<1>2. QED
  BY <1>1, TypeInvariant, BatchInvariant, DraftStep, PTL DEF Spec, DraftInv

\* A draft action changes once, from nothing to a draft of its key.
LEMMA ActionSteps ==
  ASSUME TypeInv, BatchInv, [Next]_vars, NEW k \in DraftKey,
         db'[DraftRow(k)] # db[DraftRow(k)]
  PROVE  \E s \in Session :
           /\ Records(s) /\ k = req[s].key /\ db[DraftRow(k)] = NoDraft
           /\ db'[DraftRow(k)] = [approval |-> req[s].approval, draft |-> sent[s]]
           /\ db'[EventRow(k)] = db'[DraftRow(k)]
           /\ \A l \in DraftKey \ {k} : db'[DraftRow(l)] = db[DraftRow(l)]
<1>1. \A l \in DraftKey : DraftRow(l) \in Row /\ EventRow(l) \in Row
  BY RowTypes
<1>2. ASSUME NEW a \in Approval, Requests(a) \/ DecidesSingly(a)
      PROVE  FALSE
  BY <1>1, <1>2, RowsDiffer DEF Requests, DecidesSingly
<1>3. ASSUME NEW s \in Session, CommitsBatch(s)
      PROVE  FALSE
  <2>1. BatchHolds(s)
    BY <1>3 DEF CommitsBatch, BatchInv, SessionInv, BatchLabels
  <2>2. DraftRow(k) \notin DOMAIN work[s] /\ DraftRow(k) # BatchRow(req[s].key)
    BY <2>1, RowsDiffer DEF BatchHolds
  <2>3. QED
    BY <1>1, <1>3, <2>2 DEF CommitsBatch
<1>4. PICK s \in Session : Records(s)
  BY <1>1, <1>2, <1>3, RowSteps
<1>5. k = req[s].key
  BY SMTT(30), <1>1, <1>4, RowsDiffer DEF Records
<1>6. QED
  BY <1>1, <1>4, <1>5, RowsDiffer DEF Records

\* A draft action is new, or is what it was.
LEMMA ActionStep == TypeInv /\ BatchInv /\ ActionInv /\ [Next]_vars => ActionInv'
<1> SUFFICES ASSUME TypeInv, BatchInv, ActionInv, [Next]_vars,
                    NEW k \in DraftKey, db'[DraftRow(k)] # NoDraft
             PROVE  /\ db'[DraftRow(k)].draft \in DOMAIN mailbox'
                    /\ mailbox'[db'[DraftRow(k)].draft].key = k
  BY DEF ActionInv, DraftRow
<1>1. \A d \in DOMAIN mailbox : d \in DOMAIN mailbox' /\ mailbox'[d] = mailbox[d]
  <2>1. Grown
    BY CallSteps DEF Makes, Grown
  <2>2. QED
    BY <2>1, DraftsStay DEF TypeInv, TypeOK
<1>2. CASE db'[DraftRow(k)] = db[DraftRow(k)]
  BY <1>1, <1>2 DEF ActionInv
<1>3. CASE db'[DraftRow(k)] # db[DraftRow(k)]
  <2>1. PICK s \in Session :
          /\ Records(s) /\ k = req[s].key
          /\ db'[DraftRow(k)] = [approval |-> req[s].approval, draft |-> sent[s]]
    BY <1>3, ActionSteps
  <2>2. sent[s] \in DOMAIN mailbox /\ mailbox[sent[s]].key = k
    BY <2>1 DEF Records, TypeInv, DraftHeld
  <2>3. QED
    BY <1>1, <2>1, <2>2
<1>4. QED
  BY <1>2, <1>3

\* A draft action is recorded once and names a draft that was made under its key
\* for its approval, and that no other action names, however the request was
\* repeated or failed (draft_effect.py create_approved_draft and its
\* unique key).
THEOREM DraftActionsTrue == Spec => DraftActionsFaithful
<1> DEFINE Faithful ==
      \A k \in DraftKey :
        LET old == db[DraftRow(k)]
            new == db'[DraftRow(k)]
        IN  \/ new = old
            \/ /\ old = NoDraft
               /\ new.draft \in DOMAIN mailbox'
               /\ mailbox'[new.draft].key = k
               /\ mailbox'[new.draft].approval = new.approval
               /\ db'[EventRow(k)] = new
               /\ \A l \in DraftKey \ {k} : db'[DraftRow(l)].draft # new.draft
<1>1. Init => ActionInv
  <2>1. \A k \in DraftKey : InitialValue(DraftRow(k)) = NoDraft
    BY DEF InitialValue, DraftRow
  <2>2. QED
    BY <2>1, RowTypes DEF Init, ActionInv
<1>2. TypeInv /\ BatchInv /\ ActionInv /\ [Next]_vars => [Faithful]_vars
  <2> SUFFICES ASSUME TypeInv, BatchInv, ActionInv, [Next]_vars,
                      NEW k \in DraftKey, db'[DraftRow(k)] # db[DraftRow(k)]
               PROVE  LET new == db'[DraftRow(k)]
                      IN  /\ db[DraftRow(k)] = NoDraft
                          /\ new.draft \in DOMAIN mailbox'
                          /\ mailbox'[new.draft].key = k
                          /\ mailbox'[new.draft].approval = new.approval
                          /\ db'[EventRow(k)] = new
                          /\ \A l \in DraftKey \ {k} : db'[DraftRow(l)].draft # new.draft
    OBVIOUS
  <2>1. PICK s \in Session :
          /\ Records(s) /\ k = req[s].key /\ db[DraftRow(k)] = NoDraft
          /\ db'[DraftRow(k)] = [approval |-> req[s].approval, draft |-> sent[s]]
          /\ db'[EventRow(k)] = db'[DraftRow(k)]
          /\ \A l \in DraftKey \ {k} : db'[DraftRow(l)] = db[DraftRow(l)]
    BY ActionSteps
  <2>2. /\ sent[s] \in DOMAIN mailbox /\ mailbox[sent[s]].key = k
        /\ mailbox[sent[s]].approval = req[s].approval /\ mailbox' = mailbox
    BY <2>1 DEF Records, TypeInv, DraftHeld
  <2>3. sent[s] # 0
    BY <2>2 DEF TypeInv, TypeOK, MailboxTyped
  <2>4. ASSUME NEW l \in DraftKey \ {k}
        PROVE  db[DraftRow(l)].draft # sent[s]
    BY <2>2, <2>3 DEF ActionInv, NoDraft
  <2>5. QED
    BY <2>1, <2>2, <2>4
<1>3. QED
  BY <1>1, <1>2, TypeInvariant, BatchInvariant, ActionStep, PTL DEF Spec, DraftActionsFaithful

=============================================================================
