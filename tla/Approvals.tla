----------------------------- MODULE Approvals -----------------------------
(***************************************************************************)
(* From a proposed e-mail to a draft in the mailbox: a person's decision   *)
(* (approve, reject), a batch of decisions (bulk commit) and the creation  *)
(* of the draft at the mail provider, which the API awaits in the middle   *)
(* of a database transaction.  Each request is a database session; one     *)
(* action is one statement that can wait, or the call of the provider.     *)
(*                                                                         *)
(* Contents stand for their hashes.  Who decided (decided_by) is left out. *)
(***************************************************************************)
EXTENDS ReadCommitted, Sequences

CONSTANTS
  Approval,     \* identifiers of approvals, requested or to be requested
  CaseOf,       \* CaseOf[a]: the case approval a is about
  ContentOf,    \* ContentOf[a]: the content it was requested for
  Content,      \* contents
  DraftKey,     \* idempotency keys of draft requests
  BatchKey,     \* idempotency keys of bulk requests
  Body,         \* the requests that may be made
  MaxDrafts     \* bound: the provider refuses to hold more drafts

Case == {CaseOf[a] : a \in Approval}

BulkItem == [approval : Approval, version : Nat, content : Content]
ApproveBody == [kind : {"approve"}, approval : Approval, content : Content]
RejectBody == [kind : {"reject"}, approval : Approval]
DraftBody == [kind : {"draft"}, approval : Approval, content : Content, key : DraftKey]
BulkBody == [kind : {"bulk"}, key : BatchKey, items : Seq(BulkItem)]

ASSUME ContentAssumption == ContentOf \in [Approval -> Content]

ASSUME BodyAssumption ==
  \A b \in Body : \/ b \in ApproveBody \cup RejectBody \cup DraftBody
                  \/ b \in BulkBody /\ b.items # <<>>

ASSUME BoundAssumption == MaxDrafts \in Nat

VARIABLES
  req,        \* req[s]: the request session s serves
  pc,         \* pc[s]: the statement it is at
  item,       \* item[s]: the item of its batch
  read,       \* read[s]: the status of the approval when it was loaded
  sent,       \* sent[s]: the draft the provider returned to it
  expired,    \* approvals whose expires_at has passed
  mailbox     \* the drafts the provider holds; a draft is named by its position

vars == <<db, work, locks, req, pc, item, read, sent, expired, mailbox>>

----------------------------------------------------------------------------
(* The rows.                                                               *)

ApprovalRow(a) == <<"approval", a>>
CaseRow(c) == <<"case", c>>
AuditRow(a) == <<"rejected", a>>    \* whether its rejection has an audit entry
DraftRow(k) == <<"draft", k>>
EventRow(k) == <<"event", k>>               \* the outbox event of a draft action
BatchRow(k) == <<"batch", k>>

Row == {ApprovalRow(a) : a \in Approval}
         \cup {AuditRow(a) : a \in Approval}
         \cup {DraftRow(k) : k \in DraftKey}
         \cup {EventRow(k) : k \in DraftKey}
         \cup {BatchRow(k) : k \in BatchKey}

\* A foreign key is checked under a lock on the row it names that any number
\* of sessions may share, but not with a session that has it FOR UPDATE: each
\* session has a share of its own, and FOR UPDATE takes the row and all shares.
Share(row, s) == <<"share", row, s>>
ForUpdate(row) == {row} \cup {Share(row, s) : s \in Session}

Lock == Row \cup (UNION {ForUpdate(ApprovalRow(a)) : a \in Approval})
            \cup (UNION {ForUpdate(CaseRow(c)) : c \in Case})

ApprovalStatus == {"NONE", "PENDING", "APPROVED", "REJECTED", "INVALIDATED"}

NoDraft == [approval |-> "none", draft |-> 0]
NoBatch == [status |-> "NONE", approved |-> {}, excluded |-> {}]

InitialValue(row) ==
  CASE row[1] = "approval"          -> "NONE"
    [] row[1] = "rejected"          -> FALSE
    [] row[1] \in {"draft", "event"} -> NoDraft
    [] row[1] = "batch"             -> NoBatch

\* Nothing in the code increments the version of a case.
CaseVersion == 1

----------------------------------------------------------------------------

NoBody == [kind |-> "none"]

Init ==
  /\ db = [row \in Row |-> InitialValue(row)]
  /\ work = [s \in Session |-> Nothing]
  /\ locks = [s \in Session |-> {}]
  /\ req = [s \in Session |-> NoBody]
  /\ pc = [s \in Session |-> "idle"]
  /\ item = [s \in Session |-> 1]
  /\ read = [s \in Session |-> "NONE"]
  /\ sent = [s \in Session |-> 0]
  /\ expired = {}
  /\ mailbox = <<>>

GoTo(s, label) == pc' = [pc EXCEPT ![s] = label]

Answer(s) ==
  /\ req' = [req EXCEPT ![s] = NoBody]
  /\ GoTo(s, "idle")
  /\ item' = [item EXCEPT ![s] = 1]
  /\ read' = [read EXCEPT ![s] = "NONE"]
  /\ sent' = [sent EXCEPT ![s] = 0]

\* Any exception inside tenant_session: the request fails, nothing is kept.
Fail(s) == Rollback(s) /\ Answer(s) /\ UNCHANGED expired

\* The exit of tenant_session: what is still unwritten is written, which waits
\* for no other row than those in new, and everything is committed.
FlushAndCommit(s, new) == db' = Over(Over(new, work[s]), db) /\ End(s)

FirstLabel(b) ==
  CASE b.kind = "approve" -> "read_to_approve"
    [] b.kind = "reject"  -> "read_to_reject"
    [] b.kind = "draft"   -> "read_to_draft"
    [] b.kind = "bulk"    -> "open_batch"

Begin(s) ==
  /\ pc[s] = "idle"
  /\ \E b \in Body :
       /\ req' = [req EXCEPT ![s] = b]
       /\ GoTo(s, FirstLabel(b))
  /\ UNCHANGED <<store, item, read, sent, expired, mailbox>>

\* A previewed or generated e-mail asks for an approval of its content; the
\* new row names a case, which no batch may hold FOR UPDATE meanwhile.
RequestApproval(a) ==
  /\ db[ApprovalRow(a)] = "NONE"
  /\ \A s \in Session : CaseRow(CaseOf[a]) \notin locks[s]
  /\ db' = [db EXCEPT ![ApprovalRow(a)] = "PENDING"]
  /\ UNCHANGED <<work, locks, req, pc, item, read, sent, expired, mailbox>>

\* Fifteen minutes pass.
Expire(a) ==
  /\ db[ApprovalRow(a)] # "NONE"
  /\ a \notin expired
  /\ expired' = expired \cup {a}
  /\ UNCHANGED <<store, req, pc, item, read, sent, mailbox>>

----------------------------------------------------------------------------
(* approve: approve_content under its own session                          *)

\* What approve_content asks: the status is not among it.
Approvable(a, content) == a \notin expired /\ content = ContentOf[a]

\* The approval is read without a lock.  A changed content sets INVALIDATED
\* and raises, so that the rollback takes it back.
ApproveRead(s) ==
  LET a == req[s].approval IN
  /\ pc[s] = "read_to_approve"
  /\ \/ /\ db[ApprovalRow(a)] # "NONE"
        /\ Approvable(a, req[s].content)
        /\ read' = [read EXCEPT ![s] = db[ApprovalRow(a)]]
        /\ GoTo(s, "approve")
        /\ UNCHANGED <<store, req, item, sent, expired>>
     \/ /\ db[ApprovalRow(a)] = "NONE" \/ ~Approvable(a, req[s].content)
        /\ Fail(s)
  /\ UNCHANGED mailbox

\* The ORM writes the status only when it differs from the one it loaded.
ApproveCommit(s) ==
  LET row == ApprovalRow(req[s].approval) IN
  /\ pc[s] = "approve"
  /\ \/ /\ read[s] = "APPROVED"
        /\ FlushAndCommit(s, Nothing)
     \/ /\ read[s] # "APPROVED"
        /\ Free(s, row)
        /\ FlushAndCommit(s, Write(row, "APPROVED"))
  /\ Answer(s)
  /\ UNCHANGED <<expired, mailbox>>

----------------------------------------------------------------------------
(* reject_approval                                                         *)

RejectRead(s) ==
  LET a == req[s].approval IN
  /\ pc[s] = "read_to_reject"
  /\ \/ /\ db[ApprovalRow(a)] = "PENDING"
        /\ read' = [read EXCEPT ![s] = "PENDING"]
        /\ GoTo(s, "reject")
        /\ UNCHANGED <<store, req, item, sent, expired>>
     \/ /\ db[ApprovalRow(a)] # "PENDING"
        /\ Fail(s)
  /\ UNCHANGED mailbox

\* The update names the row by its key alone: whatever was decided since the
\* read is overwritten.
RejectCommit(s) ==
  LET a == req[s].approval IN
  /\ pc[s] = "reject"
  /\ Free(s, ApprovalRow(a))
  /\ FlushAndCommit(s, Over(Write(ApprovalRow(a), "REJECTED"), Write(AuditRow(a), TRUE)))
  /\ Answer(s)
  /\ UNCHANGED <<expired, mailbox>>

----------------------------------------------------------------------------
(* outlook_draft_create and create_approved_draft                          *)

\* Mutant: the status of the approval is not asked.
DraftableUndecided(b) == db[ApprovalRow(b.approval)] # "NONE" /\ b.content = ContentOf[b.approval]

\* The approval stands, for this content; expires_at is not compared.
Draftable(b) ==
  /\ b.content = ContentOf[b.approval]
  /\ db[ApprovalRow(b.approval)] = "APPROVED"

\* A request that is refused, or whose key already has a draft action (the
\* answer is that action, whichever approval it is of), changes nothing.
DraftRead(s) ==
  LET go == Draftable(req[s]) /\ db[DraftRow(req[s].key)] = NoDraft IN
  /\ pc[s] = "read_to_draft"
  /\ \/ go /\ GoTo(s, "call_provider") /\ UNCHANGED <<store, req, item, read, sent, expired>>
     \/ ~go /\ Fail(s)
  /\ UNCHANGED mailbox

\* Mutant: the exception of the adapter is swallowed.
ErrorIgnored(s) ==
  /\ GoTo(s, "record_draft")
  /\ UNCHANGED <<store, req, item, read, sent, expired>>

\* The adapter raises: the request answers 503 and its transaction rolls back.
ProviderError(s) == Fail(s)

\* The provider makes a draft for every call, repeated keys included.  Its
\* answer may be an error, or may not arrive.
DraftCreate(s) ==
  LET b == req[s]
      made == /\ Len(mailbox) < MaxDrafts
              /\ mailbox' = Append(mailbox,
                   [key |-> b.key, approval |-> b.approval, content |-> b.content])
  IN
  /\ pc[s] = "call_provider"
  /\ \/ /\ made
        /\ sent' = [sent EXCEPT ![s] = Len(mailbox) + 1]
        /\ GoTo(s, "record_draft")
        /\ UNCHANGED <<store, req, item, read, expired>>
     \/ made /\ ProviderError(s)
     \/ UNCHANGED mailbox /\ ProviderError(s)

\* Mutant: a second row of a key replaces the first.
UnusedAlways(k) == TRUE

\* The unique constraint on the idempotency key.
Unused(k) == db[DraftRow(k)] = NoDraft

\* The draft action and its outbox event are inserted together.  The action
\* names the approval, which must not be held FOR UPDATE.
DraftRecord(s) ==
  LET b == req[s]
      action == [approval |-> b.approval, draft |-> sent[s]]
  IN
  /\ pc[s] = "record_draft"
  /\ Free(s, Share(ApprovalRow(b.approval), s))
  /\ \/ /\ Unused(b.key)
        /\ FlushAndCommit(s, Over(Write(DraftRow(b.key), action), Write(EventRow(b.key), action)))
        /\ Answer(s)
        /\ UNCHANGED expired
     \/ ~Unused(b.key) /\ Fail(s)
  /\ UNCHANGED mailbox

----------------------------------------------------------------------------
(* bulk_commit                                                             *)

Item(s) == req[s].items[item[s]]

\* A key that was committed answers what it did then (or, if it was committed
\* after the lookup, violates the unique constraint); a key another session is
\* inserting is waited for.
BulkOpen(s) ==
  LET row == BatchRow(req[s].key) IN
  /\ pc[s] = "open_batch"
  /\ Free(s, row)
  /\ \/ /\ db[row] = NoBatch
        /\ Statement(s, {row}, Write(row, [NoBatch EXCEPT !.status = "PROCESSING"]))
        /\ GoTo(s, "lock_approval")
        /\ UNCHANGED <<req, item, read, sent, expired>>
     \/ /\ db[row] # NoBatch
        /\ Fail(s)
  /\ UNCHANGED mailbox

\* The wait of SELECT ... FOR UPDATE; its mutant does not wait.
GrantedAlways(s, row) == TRUE
Granted(s, row) == \A lock \in ForUpdate(row) : Free(s, lock)

\* An unknown approval cannot be recorded as an item of the batch: the foreign
\* key fails, and the batch with it.
BulkLockApproval(s) ==
  LET row == ApprovalRow(Item(s).approval) IN
  /\ pc[s] = "lock_approval"
  /\ \/ /\ db[row] = "NONE"
        /\ Fail(s)
     \/ /\ db[row] # "NONE"
        /\ Granted(s, row)
        /\ Statement(s, ForUpdate(row), Nothing)
        /\ read' = [read EXCEPT ![s] = Seen(s, row)]
        /\ GoTo(s, "judge")
        /\ UNCHANGED <<req, item, sent, expired>>
  /\ UNCHANGED mailbox

\* Mutant: a batch approves whatever the status.
EligibleAgain(s, x) == x.version = CaseVersion /\ x.approval \notin expired

\* The checks of an item before its content is compared.
Eligible(s, x) ==
  /\ x.version = CaseVersion
  /\ read[s] = "PENDING"
  /\ x.approval \notin expired

\* What item x does to its approval.
Judged(s, x) ==
  CASE ~Eligible(s, x) -> Nothing
    [] Eligible(s, x) /\ x.content = ContentOf[x.approval] ->
         Write(ApprovalRow(x.approval), "APPROVED")
    [] OTHER -> Write(ApprovalRow(x.approval), "INVALIDATED")

\* Lock the case, judge the item, add it to the batch.  A second item of one
\* approval violates a unique constraint and takes the batch with it.
BulkJudge(s) ==
  LET x == Item(s)
      case == CaseRow(CaseOf[x.approval])
      batch == Seen(s, BatchRow(req[s].key))
      list == IF Eligible(s, x) /\ x.content = ContentOf[x.approval]
              THEN "approved" ELSE "excluded"
  IN
  /\ pc[s] = "judge"
  /\ Granted(s, case)
  /\ \/ /\ x.approval \notin batch.approved \cup batch.excluded
        /\ Statement(s, ForUpdate(case),
             Over(Judged(s, x),
                  Write(BatchRow(req[s].key), [batch EXCEPT ![list] = @ \cup {x.approval}])))
        /\ item' = [item EXCEPT ![s] = @ + 1]
        /\ GoTo(s, IF item[s] = Len(req[s].items) THEN "commit_batch" ELSE "lock_approval")
        /\ UNCHANGED <<req, read, sent, expired>>
     \/ /\ x.approval \in batch.approved \cup batch.excluded
        /\ Fail(s)
  /\ UNCHANGED mailbox

BulkCommit(s) ==
  LET row == BatchRow(req[s].key)
      batch == Seen(s, row)
      status == IF batch.excluded = {} THEN "COMPLETED" ELSE "COMPLETED_WITH_EXCLUSIONS"
  IN
  /\ pc[s] = "commit_batch"
  /\ FlushAndCommit(s, Write(row, [batch EXCEPT !.status = status]))
  /\ Answer(s)
  /\ UNCHANGED <<expired, mailbox>>

----------------------------------------------------------------------------

\* The process dies or the connection is lost: the database rolls back.
Crash(s) ==
  /\ pc[s] # "idle"
  /\ Fail(s)
  /\ UNCHANGED mailbox

\* What the next statement of s may wait for.  Only batches wait while they
\* hold locks.
Wants(s) ==
  CASE pc[s] = "open_batch"    -> {BatchRow(req[s].key)}
    [] pc[s] = "lock_approval" -> ForUpdate(ApprovalRow(Item(s).approval))
    [] pc[s] = "judge"         -> ForUpdate(CaseRow(CaseOf[Item(s).approval]))
    [] OTHER -> {}

\* The database breaks a lock cycle by failing one of its sessions.
DeadlockVictim(s) ==
  /\ pc[s] # "idle"
  /\ Deadlocked(s, Wants)
  /\ Fail(s)
  /\ UNCHANGED mailbox

Step(s) ==
  \/ ApproveRead(s) \/ ApproveCommit(s)
  \/ RejectRead(s) \/ RejectCommit(s)
  \/ DraftRead(s) \/ DraftCreate(s) \/ DraftRecord(s)
  \/ BulkOpen(s) \/ BulkLockApproval(s) \/ BulkJudge(s) \/ BulkCommit(s)
  \/ DeadlockVictim(s)

Next ==
  \/ \E a \in Approval : RequestApproval(a) \/ Expire(a)
  \/ \E s \in Session : Begin(s) \/ Step(s) \/ Crash(s)

Spec == Init /\ [][Next]_vars

\* Lock queues and deadlock detection as in Reconciliation; the call of the
\* provider has a timeout, so it ends one way or another.
LiveSpec == Spec /\ \A s \in Session : SF_vars(Step(s))

----------------------------------------------------------------------------
(* Properties.                                                             *)

Labels == {"idle", "read_to_approve", "approve", "read_to_reject", "reject",
           "read_to_draft", "call_provider", "record_draft", "open_batch",
           "lock_approval", "judge", "commit_batch"}

BatchValue == [status : {"NONE", "PROCESSING", "COMPLETED", "COMPLETED_WITH_EXCLUSIONS"},
               approved : SUBSET Approval, excluded : SUBSET Approval]
DraftValue == {NoDraft} \cup [approval : Approval, draft : 1..MaxDrafts]

ValueSet(row) ==
  CASE row[1] = "approval"           -> ApprovalStatus
    [] row[1] = "rejected"           -> BOOLEAN
    [] row[1] \in {"draft", "event"} -> DraftValue
    [] row[1] = "batch"              -> BatchValue

StoreTyped ==
  /\ DOMAIN db = Row
  /\ \A row \in Row : db[row] \in ValueSet(row)
  /\ DOMAIN work = Session
  /\ \A s \in Session : DOMAIN work[s] \subseteq Row
  /\ \A s \in Session : \A row \in DOMAIN work[s] : work[s][row] \in ValueSet(row)
  /\ locks \in [Session -> SUBSET Lock]

ControlTyped ==
  /\ req \in [Session -> Body \cup {NoBody}]
  /\ pc \in [Session -> Labels]
  /\ item \in [Session -> Nat \ {0}]
  /\ read \in [Session -> ApprovalStatus]
  /\ sent \in [Session -> 0..MaxDrafts]
  /\ expired \subseteq Approval

MailboxTyped ==
  /\ mailbox \in Seq([key : DraftKey, approval : Approval, content : Content])
  /\ Len(mailbox) <= MaxDrafts

\* Every column keeps its type, the status columns the values the code writes.
TypeOK == StoreTyped /\ ControlTyped /\ MailboxTyped

\* No two batches both report that they approved one approval, and an approval
\* a batch reports as approved is not left pending: concurrent batches, retries
\* with another key and single decisions in between included.
BatchesDecideOnce ==
  \A k \in BatchKey : \A a \in db[BatchRow(k)].approved :
    /\ db[ApprovalRow(a)] # "PENDING"
    /\ \A l \in BatchKey \ {k} : a \notin db[BatchRow(l)].approved

\* A batch never overrides a decision: an approval it changes was still pending
\* at the moment of its commit (the FOR UPDATE and the status check).
BulkKeepsDecisions ==
  [][\A s \in Session, a \in Approval :
       pc[s] = "commit_batch" /\ db'[ApprovalRow(a)] # db[ApprovalRow(a)]
         => db[ApprovalRow(a)] = "PENDING" \/ pc'[s] = "commit_batch"]_vars

\* Every draft in the mailbox has the content its approval was requested for,
\* and that approval was decided, not pending, invalidated or unknown.
DraftsApproved ==
  \A d \in DOMAIN mailbox :
    /\ mailbox[d].content = ContentOf[mailbox[d].approval]
    /\ db[ApprovalRow(mailbox[d].approval)] \in {"APPROVED", "REJECTED"}

\* A draft action is recorded once and for ever, and tells the truth: it and
\* its outbox event name a draft the mailbox holds, made under that key for
\* that approval, and named by no other action; however often the request is
\* repeated, and wherever it fails.
DraftActionsFaithful ==
  [][\A k \in DraftKey :
       LET old == db[DraftRow(k)]
           new == db'[DraftRow(k)]
       IN  \/ new = old
           \/ /\ old = NoDraft
              /\ new.draft \in DOMAIN mailbox'
              /\ mailbox'[new.draft].key = k
              /\ mailbox'[new.draft].approval = new.approval
              /\ db'[EventRow(k)] = new
              /\ \A l \in DraftKey \ {k} : db'[DraftRow(l)].draft # new.draft]_vars

\* Every request is answered: batches that lock approvals in opposite orders
\* or meet at a case, provider failures and repeated keys included.
EveryRequestAnswered == \A s \in Session : pc[s] # "idle" ~> pc[s] = "idle"

\* "Duplicate draft must be zero": one idempotency key makes one draft.  A
\* repetition after a lost answer makes another.
OneDraftPerKey ==
  \A d, e \in DOMAIN mailbox : mailbox[d].key = mailbox[e].key => d = e

\* "Immediately before drafts.create, server rechecks approval expiry": a draft
\* is created only while its approval is approved and has not expired.
DraftsOnlyWhileApproved ==
  [][\A d \in DOMAIN mailbox' \ DOMAIN mailbox :
       /\ db[ApprovalRow(mailbox'[d].approval)] = "APPROVED"
       /\ mailbox'[d].approval \notin expired]_vars

\* "The approval is rejected, the action cannot be executed": a rejected
\* approval stays rejected.  approve_content does not look at the status.
RejectionIsFinal ==
  [][\A a \in Approval :
       db[ApprovalRow(a)] = "REJECTED" => db'[ApprovalRow(a)] = "REJECTED"]_vars
=============================================================================
