--------------------------- MODULE Reconciliation ---------------------------
(***************************************************************************)
(* Matching bank money to invoices: confirm_allocations and                *)
(* reverse_allocation (backend/application/reconciliation.py), and the     *)
(* third writer of invoices, the re-import of rows that already exist      *)
(* (upsert_invoice_rows).  Each request is a database session; one action  *)
(* is one statement that can wait for a lock, so requests interleave       *)
(* wherever several API processes let them.                                *)
(*                                                                         *)
(* The import creates exactly one case for each invoice and nothing else   *)
(* links cases to invoices, so a case is named by its invoice.             *)
(***************************************************************************)
EXTENDS ReadCommitted, Sequences, Functions

CONSTANTS
  Txn,          \* bank transactions
  Invoice,      \* invoices, all of them already imported
  TxnAmount,    \* TxnAmount[t]: amount_minor of transaction t
  TxnType,      \* TxnType[t]: "CREDIT", "REVERSAL" or "REFUND"
  Opening,      \* Opening[i]: amount and outstanding of invoice i at the start
  Body          \* the requests that may be made

\* The three kinds of request.  An allocation is named by its transaction and
\* its invoice: a unique constraint allows one row for each pair, for ever.
AllocationItem == [invoice : Invoice, amount : Int]
ConfirmBody == [kind : {"confirm"}, txn : Txn, items : Seq(AllocationItem)]
ReverseBody == [kind : {"reverse"}, txn : Txn, invoice : Invoice]
FileRow == [invoice : Invoice, amount : Nat, outstanding : Nat]
ReimportBody == [kind : {"reimport"}, rows : Seq(FileRow)]

ASSUME TxnAssumption ==
  /\ TxnAmount \in [Txn -> Nat \ {0}]
  /\ TxnType \in [Txn -> {"CREDIT", "REVERSAL", "REFUND"}]

\* Tables are finite.
ASSUME FiniteAssumption == IsFiniteSet(Txn) /\ IsFiniteSet(Invoice)

ASSUME OpeningAssumption ==
  Opening \in [Invoice -> {v \in [amount : Nat, outstanding : Nat] :
                              v.outstanding <= v.amount}]

\* A file with an outstanding above its amount does not pass preview_import.
ASSUME BodyAssumption ==
  \A b \in Body :
    \/ b \in ConfirmBody
    \/ b \in ReverseBody
    \/ /\ b \in ReimportBody
       /\ b.rows # <<>>
       /\ \A k \in DOMAIN b.rows : b.rows[k].outstanding <= b.rows[k].amount

VARIABLES
  req,        \* req[s]: the request session s serves
  pc,         \* pc[s]: the statement session s is at
  item,       \* item[s]: the item or file row it is at
  unsettled,  \* unsettled[s]: invoices whose case the confirm has not visited
  loaded      \* loaded[s]: the invoice as the re-import read it

vars == <<db, work, locks, req, pc, item, unsettled, loaded>>

----------------------------------------------------------------------------
(* The rows.                                                               *)

TxnRow(t) == <<"transaction", t>>
InvoiceRow(i) == <<"invoice", i>>
CaseRow(i) == <<"case", i>>
AllocationRow(t, i) == <<"allocation", t, i>>

Row == {TxnRow(t) : t \in Txn}
         \cup {InvoiceRow(i) : i \in Invoice}
         \cup {CaseRow(i) : i \in Invoice}
         \cup {AllocationRow(t, i) : t \in Txn, i \in Invoice}

TxnStatus == {"UNMATCHED", "PARTIALLY_MATCHED", "MATCHED", "REVERSED"}
CaseStatus == {"IMPORTED", "PAID", "PAYMENT_REVERSED"}
InvoiceValue == {v \in [amount : Nat, outstanding : Nat] :
                    v.outstanding <= v.amount}
AllocationValue == [status : {"NONE", "CONFIRMED", "REVERSED"}, amount : Nat]

NoAllocation == [status |-> "NONE", amount |-> 0]

InitialValue(row) ==
  CASE row[1] = "transaction" -> "UNMATCHED"
    [] row[1] = "invoice"     -> Opening[row[2]]
    [] row[1] = "case"        -> "IMPORTED"
    [] row[1] = "allocation"  -> NoAllocation

\* What the CONFIRMED allocations of a transaction, or of an invoice, add up to.
Confirmed(a) == IF a.status = "CONFIRMED" THEN a.amount ELSE 0
AllocatedOf(t) == SumFunction([i \in Invoice |-> Confirmed(db[AllocationRow(t, i)])])
AllocatedTo(i) == SumFunction([t \in Txn |-> Confirmed(db[AllocationRow(t, i)])])

----------------------------------------------------------------------------

ConfirmLabels == {"lock_transaction", "allocate", "mark", "settle"}
ReverseLabels == {"lock_allocation", "give_back", "unmatch", "reopen"}
FileLabels == {"select_row", "update_row"}
Running == ConfirmLabels \cup ReverseLabels \cup FileLabels \cup {"commit"}

NoBody == [kind |-> "none"]
Unread == [amount |-> 0, outstanding |-> 0]

Init ==
  /\ db = [row \in Row |-> InitialValue(row)]
  /\ work = [s \in Session |-> Nothing]
  /\ locks = [s \in Session |-> {}]
  /\ req = [s \in Session |-> NoBody]
  /\ pc = [s \in Session |-> "idle"]
  /\ item = [s \in Session |-> 1]
  /\ unsettled = [s \in Session |-> {}]
  /\ loaded = [s \in Session |-> Unread]

GoTo(s, label) == pc' = [pc EXCEPT ![s] = label]

\* The request is answered; the next one on this session starts afresh.
Answer(s) ==
  /\ req' = [req EXCEPT ![s] = NoBody]
  /\ GoTo(s, "idle")
  /\ item' = [item EXCEPT ![s] = 1]
  /\ unsettled' = [unsettled EXCEPT ![s] = {}]
  /\ loaded' = [loaded EXCEPT ![s] = Unread]

\* Any exception inside tenant_session: the request fails, nothing is kept.
Fail(s) == Rollback(s) /\ Answer(s)

\* The checks on the request alone; a request that fails them is refused
\* before the first statement and changes nothing.
WellFormed(b) ==
  b.kind = "confirm" =>
    /\ b.items # <<>>
    /\ \A k \in DOMAIN b.items : b.items[k].amount > 0
    /\ \A j, k \in DOMAIN b.items :
         b.items[j].invoice = b.items[k].invoice => j = k

FirstLabel(b) ==
  CASE b.kind = "confirm"  -> "lock_transaction"
    [] b.kind = "reverse"  -> "lock_allocation"
    [] b.kind = "reimport" -> "select_row"

\* A client sends any request, a repetition of an earlier one included.
Begin(s) ==
  /\ pc[s] = "idle"
  /\ \E b \in Body :
       /\ WellFormed(b)
       /\ req' = [req EXCEPT ![s] = b]
       /\ GoTo(s, FirstLabel(b))
  /\ UNCHANGED <<db, work, locks, item, unsettled, loaded>>

----------------------------------------------------------------------------
(* confirm_allocations                                                     *)

Item(s) == req[s].items[item[s]]

Requested(b) == SumFunction([k \in DOMAIN b.items |-> b.items[k].amount])

\* Mutant: earlier allocations of the transaction are forgotten.
FitsAlone(b) ==
  /\ TxnType[b.txn] = "CREDIT"
  /\ Requested(b) <= TxnAmount[b.txn]

\* Mutant: any type of transaction can be allocated.
FitsAnyType(b) == AllocatedOf(b.txn) + Requested(b) <= TxnAmount[b.txn]

Fits(b) ==
  /\ TxnType[b.txn] = "CREDIT"
  /\ AllocatedOf(b.txn) + Requested(b) <= TxnAmount[b.txn]

\* The wait of SELECT ... FOR UPDATE on an invoice; its mutant does not wait.
InvoiceUnlocked(s, i) == TRUE
InvoiceFree(s, i) == Free(s, InvoiceRow(i))

\* Lock the transaction, then add up what is confirmed on it.  The sum cannot
\* change while the lock is held, so reading it is part of this step.
ConfirmLockTransaction(s) ==
  /\ pc[s] = "lock_transaction"
  /\ Free(s, TxnRow(req[s].txn))
  /\ \/ /\ Fits(req[s])
        /\ Statement(s, {TxnRow(req[s].txn)}, Nothing)
        /\ GoTo(s, "allocate")
        /\ UNCHANGED <<req, item, unsettled, loaded>>
     \/ /\ ~Fits(req[s])
        /\ Fail(s)

\* Mutant: the invoice's outstanding is not compared.
AllocatableBeyond(s, x) ==
  Seen(s, AllocationRow(req[s].txn, x.invoice)).status = "NONE"

\* Mutant: a reversed allocation makes room for another.
AllocatableAgain(s, x) ==
  /\ x.amount <= Seen(s, InvoiceRow(x.invoice)).outstanding
  /\ Seen(s, AllocationRow(req[s].txn, x.invoice)).status # "CONFIRMED"

\* An allocation row of this pair, whatever its status, refuses a second one.
Allocatable(s, x) ==
  /\ x.amount <= Seen(s, InvoiceRow(x.invoice)).outstanding
  /\ Seen(s, AllocationRow(req[s].txn, x.invoice)).status = "NONE"

\* Lock the next invoice, take the amount off its outstanding, insert the
\* allocation.
ConfirmAllocate(s) ==
  LET x == Item(s)
      row == InvoiceRow(x.invoice)
      allocation == AllocationRow(req[s].txn, x.invoice)
  IN
  /\ pc[s] = "allocate"
  /\ InvoiceFree(s, x.invoice)
  /\ \/ /\ Allocatable(s, x)
        /\ Statement(s, {row, allocation},
             Over(Write(row, [Seen(s, row) EXCEPT !.outstanding = @ - x.amount]),
                  Write(allocation, [status |-> "CONFIRMED", amount |-> x.amount])))
        /\ item' = [item EXCEPT ![s] = @ + 1]
        /\ GoTo(s, IF item[s] = Len(req[s].items) THEN "mark" ELSE "allocate")
        /\ unsettled' = [unsettled EXCEPT ![s] = @ \cup {x.invoice}]
        /\ UNCHANGED <<req, loaded>>
     \/ /\ ~Allocatable(s, x)
        /\ Fail(s)

\* Mutant: only this request's allocations count.
MarkAlone(b) ==
  IF Requested(b) = TxnAmount[b.txn] THEN "MATCHED" ELSE "PARTIALLY_MATCHED"

\* The status the transaction gets from what is confirmed on it in total.
MarkOf(b) ==
  IF AllocatedOf(b.txn) + Requested(b) = TxnAmount[b.txn]
  THEN "MATCHED" ELSE "PARTIALLY_MATCHED"

ConfirmMarkTransaction(s) ==
  /\ pc[s] = "mark"
  /\ Statement(s, {TxnRow(req[s].txn)}, Write(TxnRow(req[s].txn), MarkOf(req[s])))
  /\ GoTo(s, "settle")
  /\ UNCHANGED <<req, item, unsettled, loaded>>

\* Nothing is left to pay on the invoice of a case, as the session sees it;
\* its mutant does not ask.
SettledUnasked(s, i) == TRUE
Settled(s, i) == Seen(s, InvoiceRow(i)).outstanding = 0

\* Visit the affected cases in any order; one with nothing left outstanding is
\* locked and becomes PAID.
ConfirmSettleCase(s) ==
  /\ pc[s] = "settle"
  /\ \E i \in unsettled[s] :
       /\ unsettled' = [unsettled EXCEPT ![s] = @ \ {i}]
       /\ \/ /\ ~Settled(s, i)
             /\ UNCHANGED store
          \/ /\ Settled(s, i)
             /\ Free(s, CaseRow(i))
             /\ Statement(s, {CaseRow(i)}, Write(CaseRow(i), "PAID"))
       /\ GoTo(s, IF unsettled[s] = {i} THEN "commit" ELSE "settle")
  /\ UNCHANGED <<req, item, loaded>>

----------------------------------------------------------------------------
(* reverse_allocation                                                      *)

ReverseLockAllocation(s) ==
  LET row == AllocationRow(req[s].txn, req[s].invoice) IN
  /\ pc[s] = "lock_allocation"
  /\ \/ /\ db[row].status = "NONE"          \* not found: nothing to wait for
        /\ Fail(s)
     \/ /\ db[row].status = "CONFIRMED"
        /\ Free(s, row)
        /\ Statement(s, {row}, Nothing)
        /\ GoTo(s, "give_back")
        /\ UNCHANGED <<req, item, unsettled, loaded>>
     \/ /\ db[row].status = "REVERSED"
        /\ Free(s, row)
        /\ Fail(s)

ReverseGiveBack(s) ==
  LET row == InvoiceRow(req[s].invoice)
      allocation == AllocationRow(req[s].txn, req[s].invoice)
      invoice == Seen(s, row)
      amount == Seen(s, allocation).amount
  IN
  /\ pc[s] = "give_back"
  /\ InvoiceFree(s, req[s].invoice)
  /\ \/ /\ invoice.outstanding + amount <= invoice.amount
        /\ Statement(s, {row, allocation},
             Over(Write(row, [invoice EXCEPT !.outstanding = @ + amount]),
                  Write(allocation, [status |-> "REVERSED", amount |-> amount])))
        /\ GoTo(s, "unmatch")
        /\ UNCHANGED <<req, item, unsettled, loaded>>
     \/ /\ invoice.outstanding + amount > invoice.amount
        /\ Fail(s)

\* The transaction becomes REVERSED, whatever else is confirmed on it.
ReverseUnmatchTransaction(s) ==
  LET row == TxnRow(req[s].txn) IN
  /\ pc[s] = "unmatch"
  /\ Free(s, row)
  /\ Statement(s, {row}, Write(row, "REVERSED"))
  /\ GoTo(s, "reopen")
  /\ UNCHANGED <<req, item, unsettled, loaded>>

\* The status a case gets when an allocation of its invoice is taken back; the
\* mutant leaves a PAID case PAID.
StillPaid(status) == status
Reopened(status) == IF status = "PAID" THEN "PAYMENT_REVERSED" ELSE status

ReverseReopenCase(s) ==
  LET row == CaseRow(req[s].invoice) IN
  /\ pc[s] = "reopen"
  /\ Free(s, row)
  /\ Statement(s, {row}, Write(row, Reopened(Seen(s, row))))
  /\ GoTo(s, "commit")
  /\ UNCHANGED <<req, item, unsettled, loaded>>

----------------------------------------------------------------------------
(* upsert_invoice_rows, for a row whose invoice exists                     *)

FileRowOf(s) == req[s].rows[item[s]]

\* The lookup by fingerprint takes no lock.
ReimportSelect(s) ==
  /\ pc[s] = "select_row"
  /\ loaded' = [loaded EXCEPT ![s] = Seen(s, InvoiceRow(FileRowOf(s).invoice))]
  /\ GoTo(s, "update_row")
  /\ UNCHANGED <<db, work, locks, req, item, unsettled>>

\* The ORM updates only the columns whose file value differs from the value it
\* loaded; the others keep what the row holds by then.
Overwritten(current, read, file) ==
  [amount |-> IF file.amount = read.amount THEN current.amount ELSE file.amount,
   outstanding |-> IF file.outstanding = read.outstanding
                   THEN current.outstanding ELSE file.outstanding]

\* No column differs: no UPDATE is sent.
Unchanged(read, file) ==
  file.amount = read.amount /\ file.outstanding = read.outstanding

NextRow(s) ==
  /\ item' = [item EXCEPT ![s] = @ + 1]
  /\ loaded' = [loaded EXCEPT ![s] = Unread]
  /\ GoTo(s, IF item[s] = Len(req[s].rows) THEN "commit" ELSE "select_row")
  /\ UNCHANGED <<req, unsettled>>

ReimportUpdate(s) ==
  LET file == FileRowOf(s)
      row == InvoiceRow(file.invoice)
      new == Overwritten(Seen(s, row), loaded[s], file)
  IN
  /\ pc[s] = "update_row"
  /\ \/ /\ Unchanged(loaded[s], file)
        /\ UNCHANGED store
        /\ NextRow(s)
     \/ /\ ~Unchanged(loaded[s], file)
        /\ Free(s, row)
        /\ new.outstanding <= new.amount
        /\ Statement(s, {row}, Write(row, new))
        /\ NextRow(s)
     \/ /\ ~Unchanged(loaded[s], file)
        /\ Free(s, row)
        /\ new.outstanding > new.amount     \* ck_invoice_outstanding_range
        /\ Fail(s)

----------------------------------------------------------------------------

CommitRequest(s) ==
  /\ pc[s] = "commit"
  /\ Commit(s)
  /\ Answer(s)

\* The process dies or the connection is lost: the database rolls back.
Crash(s) ==
  /\ pc[s] \in Running
  /\ Fail(s)

\* The rows the next statement of s may have to wait for.  A case row is only
\* ever locked under the lock of its invoice, so nobody waits for one.
Wants(s) ==
  CASE pc[s] \in {"lock_transaction", "unmatch"} -> {TxnRow(req[s].txn)}
    [] pc[s] = "allocate" -> {InvoiceRow(Item(s).invoice)}
    [] pc[s] = "lock_allocation" -> {AllocationRow(req[s].txn, req[s].invoice)}
    [] pc[s] = "give_back" -> {InvoiceRow(req[s].invoice)}
    [] pc[s] = "update_row" -> IF Unchanged(loaded[s], FileRowOf(s)) THEN {}
                               ELSE {InvoiceRow(FileRowOf(s).invoice)}
    [] OTHER -> {}

\* The database breaks a lock cycle by failing one of its sessions.
DeadlockVictim(s) ==
  /\ pc[s] \in Running
  /\ Deadlocked(s, Wants)
  /\ Fail(s)

Step(s) ==
  \/ ConfirmLockTransaction(s)
  \/ ConfirmAllocate(s)
  \/ ConfirmMarkTransaction(s)
  \/ ConfirmSettleCase(s)
  \/ ReverseLockAllocation(s)
  \/ ReverseGiveBack(s)
  \/ ReverseUnmatchTransaction(s)
  \/ ReverseReopenCase(s)
  \/ ReimportSelect(s)
  \/ ReimportUpdate(s)
  \/ CommitRequest(s)
  \/ DeadlockVictim(s)

Next == \E s \in Session : Begin(s) \/ Step(s) \/ Crash(s)

Spec == Init /\ [][Next]_vars

\* The database queues the sessions waiting for a lock and looks for deadlocks,
\* so a request that can take its next step again and again does take it.
Fairness == \A s \in Session : SF_vars(Step(s))

LiveSpec == Spec /\ Fairness

----------------------------------------------------------------------------
(* Properties.                                                             *)

\* The value a row of each table may have.
ValueSet(row) ==
  CASE row[1] = "transaction" -> TxnStatus
    [] row[1] = "invoice"     -> InvoiceValue
    [] row[1] = "case"        -> CaseStatus
    [] row[1] = "allocation"  -> AllocationValue

StoreTyped ==
  /\ DOMAIN db = Row
  /\ \A row \in Row : db[row] \in ValueSet(row)
  /\ DOMAIN work = Session
  /\ \A s \in Session : DOMAIN work[s] \subseteq Row
  /\ \A s \in Session : \A row \in DOMAIN work[s] : work[s][row] \in ValueSet(row)
  /\ locks \in [Session -> SUBSET Row]

ControlTyped ==
  /\ req \in [Session -> Body \cup {NoBody}]
  /\ pc \in [Session -> Running \cup {"idle"}]
  /\ item \in [Session -> Nat \ {0}]
  /\ unsettled \in [Session -> SUBSET Invoice]
  /\ loaded \in [Session -> InvoiceValue]

\* A session is only at statements of the request it serves, and at an item
\* that exists.
ControlFollowsRequest ==
  \A s \in Session :
    /\ pc[s] # "idle" => req[s] \in Body /\ WellFormed(req[s])
    /\ pc[s] \in ConfirmLabels => req[s].kind = "confirm"
    /\ pc[s] \in ReverseLabels => req[s].kind = "reverse"
    /\ pc[s] \in FileLabels => req[s].kind = "reimport"
    /\ pc[s] \in {"idle", "lock_transaction"} => item[s] = 1
    /\ pc[s] = "allocate" => item[s] \in DOMAIN req[s].items
    /\ pc[s] \in FileLabels => item[s] \in DOMAIN req[s].rows

\* Every table keeps its column types, and every invoice, committed or being
\* written, keeps 0 <= outstanding <= amount (ck_invoice_outstanding_range).
TypeOK == StoreTyped /\ ControlTyped

\* A row is locked by one session at a time, and only its holder writes it:
\* no request builds on, or overwrites, what another has not committed.
WritersExclusive ==
  /\ \A s, o \in Session : s # o => locks[s] \cap locks[o] = {}
  /\ \A s \in Session : DOMAIN work[s] \subseteq locks[s]

\* No transaction is allocated beyond its amount, however confirmations and
\* reversals of it overlap (the check of confirm_allocations, lines 48-60).
TransactionCovered == \A t \in Txn : AllocatedOf(t) <= TxnAmount[t]

\* The status shown for a transaction agrees with what is confirmed on it:
\* the status is computed before later statements wait, and committed after.
TransactionStatusAgrees ==
  \A t \in Txn :
    CASE db[TxnRow(t)] = "UNMATCHED" -> AllocatedOf(t) = 0
      [] db[TxnRow(t)] = "MATCHED" -> AllocatedOf(t) = TxnAmount[t]
      [] OTHER -> AllocatedOf(t) < TxnAmount[t]

\* Without re-imports a case is PAID exactly when confirmed allocations cover
\* what its invoice was imported with ("false PAID impossible", and no
\* confirmation that covers it is missed).
PaidExactlyWhenCovered ==
  \A i \in Invoice :
    db[CaseRow(i)] = "PAID"
      <=> AllocatedTo(i) > 0 /\ AllocatedTo(i) = Opening[i].outstanding

\* "PAID requires confirmed allocations equal outstanding": a PAID case has
\* nothing outstanding.  Re-importing its invoice breaks this.
PaidHasNothingOutstanding ==
  \A i \in Invoice :
    db[CaseRow(i)] = "PAID" => db[InvoiceRow(i)].outstanding = 0

\* A case turns PAID only in a commit after which its invoice is settled and
\* an allocation on it is confirmed, re-imports running meanwhile or not.
PaidOnlyWhenSettled ==
  [][\A i \in Invoice :
       db'[CaseRow(i)] = "PAID" /\ db[CaseRow(i)] # "PAID" =>
         /\ db'[InvoiceRow(i)].outstanding = 0
         /\ \E t \in Txn : db'[AllocationRow(t, i)].status = "CONFIRMED"]_vars

\* Session s is about to commit a file.
CommitsFile(s) == pc[s] = "commit" /\ req[s].kind = "reimport" /\ pc'[s] = "idle"

\* Money is neither lost nor made: outstanding plus confirmed allocations of an
\* invoice change only by committing a file (no update of it is lost).
AllocationsConserved ==
  [][\A i \in Invoice :
       \/ (db[InvoiceRow(i)].outstanding + AllocatedTo(i))'
            = db[InvoiceRow(i)].outstanding + AllocatedTo(i)
       \/ \E s \in Session : CommitsFile(s)]_vars

\* An allocation is confirmed once, reversed at most once, never confirmed
\* again and never changes its amount, retries of either request included.
AllocationLifecycle ==
  [][\A t \in Txn, i \in Invoice :
       LET old == db[AllocationRow(t, i)]
           new == db'[AllocationRow(t, i)]
       IN  \/ new = old
           \/ old.status = "NONE" /\ new.status = "CONFIRMED" /\ new.amount > 0
           \/ /\ old.status = "CONFIRMED" /\ new.status = "REVERSED"
              /\ new.amount = old.amount]_vars

\* Every request is answered: lock waits end, deadlocks are broken.
EveryRequestAnswered == \A s \in Session : pc[s] # "idle" ~> pc[s] = "idle"

\* Requests take effect at one instant each, in the order of their commits.
Abstract == INSTANCE Ledger WITH
  invoice <- [i \in Invoice |-> db[InvoiceRow(i)]],
  allocation <- [t \in Txn |-> [i \in Invoice |-> db[AllocationRow(t, i)]]],
  txnStatus <- [t \in Txn |-> db[TxnRow(t)]],
  caseStatus <- [i \in Invoice |-> db[CaseRow(i)]]

\* The statements, locks and victims of Reconciliation implement the Ledger.
ImplementsLedger == Abstract!Spec
=============================================================================
