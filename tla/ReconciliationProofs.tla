------------------------ MODULE ReconciliationProofs ------------------------
(***************************************************************************)
(* Proofs about Reconciliation for every set of transactions, invoices,    *)
(* sessions and requests.                                                  *)
(***************************************************************************)
EXTENDS Reconciliation, TLAPS

----------------------------------------------------------------------------
(* Facts about the store.                                                  *)

\* The row identifiers belong to Row and each table has its column type.
LEMMA RowTypes ==
  /\ \A t \in Txn : TxnRow(t) \in Row /\ ValueSet(TxnRow(t)) = TxnStatus
  /\ \A i \in Invoice : InvoiceRow(i) \in Row /\ ValueSet(InvoiceRow(i)) = InvoiceValue
  /\ \A i \in Invoice : CaseRow(i) \in Row /\ ValueSet(CaseRow(i)) = CaseStatus
  /\ \A t \in Txn, i \in Invoice :
       /\ AllocationRow(t, i) \in Row
       /\ ValueSet(AllocationRow(t, i)) = AllocationValue
BY DEF Row, ValueSet, TxnRow, InvoiceRow, CaseRow, AllocationRow

\* Rows of different tables, and of different keys, differ.
LEMMA RowsDiffer ==
  /\ \A t, i : /\ TxnRow(t) # InvoiceRow(i)
               /\ TxnRow(t) # CaseRow(i)
               /\ InvoiceRow(t) # CaseRow(i)
  /\ \A t, i, j : /\ AllocationRow(t, i) # TxnRow(j)
                  /\ AllocationRow(t, i) # InvoiceRow(j)
                  /\ AllocationRow(t, i) # CaseRow(j)
  /\ \A t, u : TxnRow(t) = TxnRow(u) => t = u
  /\ \A i, j : InvoiceRow(i) = InvoiceRow(j) => i = j
  /\ \A i, j : CaseRow(i) = CaseRow(j) => i = j
  /\ \A t, i, u, j : AllocationRow(t, i) = AllocationRow(u, j) => t = u /\ i = j
BY DEF TxnRow, InvoiceRow, CaseRow, AllocationRow

\* What a session sees of a row has the type of the row.
LEMMA SeenTyped ==
  ASSUME StoreTyped, NEW s \in Session, NEW row \in Row
  PROVE  Seen(s, row) \in ValueSet(row)
BY DEF StoreTyped, Seen

\* A statement that writes well-typed values keeps the store well typed.
LEMMA StatementTyped ==
  ASSUME StoreTyped, NEW s \in Session, NEW rows \in SUBSET Row, NEW new,
         DOMAIN new \subseteq Row,
         \A row \in DOMAIN new : new[row] \in ValueSet(row),
         Statement(s, rows, new)
  PROVE  StoreTyped'
<1>1. work' = [work EXCEPT ![s] = Over(new, work[s])]
  BY DEF Statement
<1>2. DOMAIN Over(new, work[s]) \subseteq Row
  BY DEF Over, StoreTyped
<1>3. \A row \in DOMAIN Over(new, work[s]) : Over(new, work[s])[row] \in ValueSet(row)
  BY DEF Over, StoreTyped
<1>4. locks' \in [Session -> SUBSET Row]
  BY DEF Statement, StoreTyped
<1>5. QED
  BY <1>1, <1>2, <1>3, <1>4 DEF Statement, StoreTyped, ValueSet, Row, TxnRow,
     InvoiceRow, CaseRow, AllocationRow

\* Committing and rolling back keep the store well typed.
LEMMA EndTyped ==
  ASSUME StoreTyped, NEW s \in Session, Commit(s) \/ Rollback(s)
  PROVE  StoreTyped'
<1>1. DOMAIN db' = Row /\ \A row \in Row : db'[row] \in ValueSet(row)
  BY DEF StoreTyped, Commit, Rollback, Over
<1>2. DOMAIN work' = Session /\ locks' \in [Session -> SUBSET Row]
  BY DEF StoreTyped, Commit, Rollback, End
<1>3. \A o \in Session : work'[o] = IF o = s THEN Nothing ELSE work[o]
  BY DEF StoreTyped, Commit, Rollback, End
<1>4. DOMAIN Nothing = {}
  BY DEF Nothing
<1>5. QED
  BY <1>1, <1>2, <1>3, <1>4 DEF StoreTyped

----------------------------------------------------------------------------
(* Type correctness.                                                       *)

\* Types alone are not inductive: what a session has in hand depends on its request.
TypeInv == TypeOK /\ ControlFollowsRequest

\* What the assumption on requests says of each kind.
LEMMA RequestTypes ==
  /\ \A b \in Body : b.kind \in {"confirm", "reverse", "reimport"}
  /\ \A b \in Body : b.kind = "confirm" =>
       /\ b.txn \in Txn
       /\ b.items \in Seq(AllocationItem)
  /\ \A b \in Body : b.kind = "reverse" => b.txn \in Txn /\ b.invoice \in Invoice
  /\ \A b \in Body : b.kind = "reimport" =>
       /\ b.rows \in Seq(FileRow)
       /\ b.rows # <<>>
       /\ \A k \in DOMAIN b.rows : b.rows[k].outstanding <= b.rows[k].amount
BY BodyAssumption DEF ConfirmBody, ReverseBody, ReimportBody

\* An element of a sequence is one of its range.
LEMMA ElementTyped ==
  ASSUME NEW S, NEW q \in Seq(S), NEW k \in DOMAIN q
  PROVE  q[k] \in S
OBVIOUS

\* It holds in the initial states.
LEMMA TypeInit == Init => TypeInv
<1> SUFFICES ASSUME Init PROVE TypeInv
  OBVIOUS
<1>1. \A row \in Row : InitialValue(row) \in ValueSet(row)
  <2>1. \A t \in Txn : InitialValue(TxnRow(t)) = "UNMATCHED"
    BY DEF InitialValue, TxnRow
  <2>2. \A i \in Invoice : InitialValue(InvoiceRow(i)) = Opening[i]
    BY DEF InitialValue, InvoiceRow
  <2>3. \A i \in Invoice : InitialValue(CaseRow(i)) = "IMPORTED"
    BY DEF InitialValue, CaseRow
  <2>4. \A t \in Txn, i \in Invoice : InitialValue(AllocationRow(t, i)) = NoAllocation
    BY DEF InitialValue, AllocationRow
  <2>5. NoAllocation \in AllocationValue
    BY DEF NoAllocation, AllocationValue
  <2>6. \A i \in Invoice : Opening[i] \in InvoiceValue
    BY OpeningAssumption DEF InvoiceValue
  <2>7. QED
    BY <2>1, <2>2, <2>3, <2>4, <2>5, <2>6, RowTypes DEF Row, TxnStatus, CaseStatus
<1>2. StoreTyped
  BY <1>1 DEF Init, StoreTyped, Nothing
<1>3. Unread \in InvoiceValue
  BY DEF Unread, InvoiceValue
<1>4. ControlTyped
  BY <1>3 DEF Init, ControlTyped
<1>5. ControlFollowsRequest
  BY DEF Init, ControlFollowsRequest, ConfirmLabels, ReverseLabels, FileLabels
<1>6. QED
  BY <1>2, <1>4, <1>5 DEF TypeInv, TypeOK

\* Answering a request, whatever became of it.
LEMMA AnswerControl ==
  ASSUME TypeInv, NEW s \in Session, Answer(s)
  PROVE  ControlTyped' /\ ControlFollowsRequest'
<1>1. Unread \in InvoiceValue
  BY DEF Unread, InvoiceValue
<1>2. ControlTyped'
  BY <1>1 DEF TypeInv, TypeOK, ControlTyped, Answer, GoTo
<1>3. ControlFollowsRequest'
  BY DEF TypeInv, TypeOK, ControlTyped, ControlFollowsRequest, Answer, GoTo,
         ConfirmLabels, ReverseLabels, FileLabels
<1>4. QED
  BY <1>2, <1>3

\* A request that fails leaves the types alone.
LEMMA FailTyped ==
  ASSUME TypeInv, NEW s \in Session, Fail(s)
  PROVE  TypeInv'
BY AnswerControl, EndTyped DEF Fail, TypeInv, TypeOK

\* Every action keeps the types.
LEMMA TypeStep == TypeInv /\ [Next]_vars => TypeInv'
<1> SUFFICES ASSUME TypeInv, [Next]_vars PROVE TypeInv'
  OBVIOUS
<1>0. CASE UNCHANGED vars
  BY <1>0 DEF TypeInv, TypeOK, StoreTyped, ControlTyped, ControlFollowsRequest, vars,
       ValueSet, Row, TxnRow, InvoiceRow, CaseRow, AllocationRow
<1>1. ASSUME NEW s \in Session, Begin(s)
      PROVE  TypeInv'
  <2>1. PICK b \in Body : /\ WellFormed(b)
                          /\ req' = [req EXCEPT ![s] = b]
                          /\ pc' = [pc EXCEPT ![s] = FirstLabel(b)]
    BY <1>1 DEF Begin, GoTo
  <2>2. UNCHANGED <<db, work, locks, item, unsettled, loaded>>
    BY <1>1 DEF Begin
  <2>3. FirstLabel(b) = IF b.kind = "confirm" THEN "lock_transaction"
                        ELSE IF b.kind = "reverse" THEN "lock_allocation"
                        ELSE "select_row"
    BY RequestTypes DEF FirstLabel
  <2>4. StoreTyped'
    BY <2>2 DEF TypeInv, TypeOK, StoreTyped
  <2>5. ControlTyped'
    BY <2>1, <2>2, <2>3 DEF TypeInv, TypeOK, ControlTyped, Running, ConfirmLabels,
       ReverseLabels, FileLabels
  <2>6. ControlFollowsRequest'
    <3>1. pc[s] = "idle" /\ item[s] = 1
      BY <1>1 DEF Begin, TypeInv, ControlFollowsRequest
    <3>2. b.kind = "reimport" => 1 \in DOMAIN b.rows
      BY RequestTypes
    <3>3. /\ req'[s] = b /\ pc'[s] = FirstLabel(b) /\ item'[s] = 1
          /\ \A o \in Session \ {s} :
               req'[o] = req[o] /\ pc'[o] = pc[o] /\ item'[o] = item[o]
      BY <2>1, <2>2, <3>1 DEF TypeInv, TypeOK, ControlTyped
    <3>4. b.kind \in {"confirm", "reverse", "reimport"}
      BY RequestTypes
    <3>5. QED
      BY <2>1, <2>3, <3>2, <3>3, <3>4 DEF TypeInv, ControlFollowsRequest,
         ConfirmLabels, ReverseLabels, FileLabels
  <2>7. QED
    BY <2>4, <2>5, <2>6 DEF TypeInv, TypeOK
<1>2. ASSUME NEW s \in Session, ConfirmLockTransaction(s)
      PROVE  TypeInv'
  <2>1. CASE Fail(s)
    BY <2>1, FailTyped
  <2>2. CASE /\ Statement(s, {TxnRow(req[s].txn)}, Nothing)
             /\ GoTo(s, "allocate")
             /\ UNCHANGED <<req, item, unsettled, loaded>>
    <3>1. /\ pc[s] = "lock_transaction" /\ req[s] \in Body /\ req[s].kind = "confirm"
          /\ item[s] = 1 /\ req[s].items # <<>>
      BY <1>2 DEF ConfirmLockTransaction, TypeInv, ControlFollowsRequest, ConfirmLabels,
         WellFormed
    <3>2. StoreTyped'
      BY <2>2, <3>1, RequestTypes, RowTypes, StatementTyped DEF TypeInv, TypeOK, Nothing
    <3>3. ControlTyped'
      BY <2>2 DEF GoTo, TypeInv, TypeOK, ControlTyped, Running, ConfirmLabels
    <3>4. item[s] \in DOMAIN req[s].items
      BY <3>1, RequestTypes
    <3>5. ControlFollowsRequest'
      BY <2>2, <3>1, <3>4 DEF GoTo, TypeInv, TypeOK, ControlTyped, ControlFollowsRequest,
         ConfirmLabels, ReverseLabels, FileLabels
    <3>6. QED
      BY <3>2, <3>3, <3>5 DEF TypeInv, TypeOK
  <2>3. QED
    BY <1>2, <2>1, <2>2 DEF ConfirmLockTransaction
<1>3. ASSUME NEW s \in Session, ConfirmAllocate(s)
      PROVE  TypeInv'
  <2> DEFINE x == Item(s)
             row == InvoiceRow(x.invoice)
             allocation == AllocationRow(req[s].txn, x.invoice)
             new == Over(Write(row, [Seen(s, row) EXCEPT !.outstanding = @ - x.amount]),
                         Write(allocation, [status |-> "CONFIRMED", amount |-> x.amount]))
  <2>1. CASE Fail(s)
    BY <2>1, FailTyped
  <2>2. CASE /\ Allocatable(s, x)
             /\ Statement(s, {row, allocation}, new)
             /\ item' = [item EXCEPT ![s] = @ + 1]
             /\ GoTo(s, IF item[s] = Len(req[s].items) THEN "mark" ELSE "allocate")
             /\ unsettled' = [unsettled EXCEPT ![s] = @ \cup {x.invoice}]
             /\ UNCHANGED <<req, loaded>>
    <3>1. /\ pc[s] = "allocate" /\ req[s] \in Body /\ WellFormed(req[s])
          /\ req[s].kind = "confirm" /\ item[s] \in DOMAIN req[s].items
      BY <1>3 DEF ConfirmAllocate, TypeInv, ControlFollowsRequest, ConfirmLabels
    <3>2. /\ req[s].txn \in Txn
          /\ req[s].items \in Seq(AllocationItem)
      BY <3>1, RequestTypes
    <3>3. x.invoice \in Invoice /\ x.amount \in Int /\ x.amount > 0
      <4>1. x = req[s].items[item[s]]
        BY DEF Item
      <4>2. x \in AllocationItem
        BY <3>1, <3>2, <4>1, ElementTyped
      <4>3. req[s].items[item[s]].amount > 0
        BY <3>1 DEF WellFormed
      <4>4. QED
        BY <4>1, <4>2, <4>3 DEF AllocationItem
    <3>4. /\ row \in Row /\ ValueSet(row) = InvoiceValue
          /\ allocation \in Row /\ ValueSet(allocation) = AllocationValue
          /\ row # allocation
      BY <3>2, <3>3, RowTypes, RowsDiffer
    <3>5. Seen(s, row) \in InvoiceValue /\ x.amount <= Seen(s, row).outstanding
      BY <2>2, <3>4, SeenTyped DEF TypeInv, TypeOK, Allocatable
    <3>6. [Seen(s, row) EXCEPT !.outstanding = @ - x.amount] \in InvoiceValue
      BY <3>3, <3>5 DEF InvoiceValue
    <3>7. [status |-> "CONFIRMED", amount |-> x.amount] \in AllocationValue
      BY <3>3 DEF AllocationValue
    <3>8. /\ DOMAIN new = {row, allocation}
          /\ \A r \in DOMAIN new : new[r] \in ValueSet(r)
      BY <3>4, <3>6, <3>7 DEF Over, Write
    <3>9. StoreTyped'
      <4> HIDE DEF new, row, allocation, x
      <4> QED
        BY <2>2, <3>4, <3>8, StatementTyped DEF TypeInv, TypeOK
    <3>10. ControlTyped'
      BY <2>2, <3>3 DEF GoTo, TypeInv, TypeOK, ControlTyped, Running, ConfirmLabels
    <3>11. item[s] # Len(req[s].items) => item[s] + 1 \in DOMAIN req[s].items
      BY <3>1, <3>2
    <3>12. ControlFollowsRequest'
      BY <2>2, <3>1, <3>11 DEF GoTo, TypeInv, TypeOK, ControlTyped, ControlFollowsRequest,
         ConfirmLabels, ReverseLabels, FileLabels
    <3>13. QED
      BY <3>9, <3>10, <3>12 DEF TypeInv, TypeOK
  <2>3. QED
    BY <1>3, <2>1, <2>2 DEF ConfirmAllocate
<1>4. ASSUME NEW s \in Session, ConfirmMarkTransaction(s)
      PROVE  TypeInv'
  <2> DEFINE row == TxnRow(req[s].txn)
             new == Write(row, MarkOf(req[s]))
  <2>1. /\ pc[s] = "mark" /\ req[s] \in Body /\ req[s].kind = "confirm"
        /\ req[s].txn \in Txn
    BY <1>4, RequestTypes DEF ConfirmMarkTransaction, TypeInv, ControlFollowsRequest,
       ConfirmLabels
  <2>2. row \in Row /\ ValueSet(row) = TxnStatus
    BY <2>1, RowTypes
  <2>3. DOMAIN new = {row} /\ \A r \in DOMAIN new : new[r] \in ValueSet(r)
    BY <2>2 DEF Write, MarkOf, TxnStatus
  <2>4. StoreTyped'
    <3>1. Statement(s, {row}, new)
      BY <1>4 DEF ConfirmMarkTransaction
    <3> HIDE DEF new, row
    <3>2. QED
      BY <2>2, <2>3, <3>1, StatementTyped DEF TypeInv, TypeOK
  <2>5. ControlTyped' /\ ControlFollowsRequest'
    BY <1>4, <2>1 DEF ConfirmMarkTransaction, GoTo, TypeInv, TypeOK, ControlTyped,
       ControlFollowsRequest, Running, ConfirmLabels, ReverseLabels, FileLabels
  <2>6. QED
    BY <2>4, <2>5 DEF TypeInv, TypeOK
<1>5. ASSUME NEW s \in Session, ConfirmSettleCase(s)
      PROVE  TypeInv'
  <2>1. PICK i \in unsettled[s] :
          /\ unsettled' = [unsettled EXCEPT ![s] = @ \ {i}]
          /\ \/ UNCHANGED store
             \/ Statement(s, {CaseRow(i)}, Write(CaseRow(i), "PAID"))
          /\ GoTo(s, IF unsettled[s] = {i} THEN "commit" ELSE "settle")
    BY <1>5 DEF ConfirmSettleCase
  <2>2. pc[s] = "settle" /\ UNCHANGED <<req, item, loaded>>
    BY <1>5 DEF ConfirmSettleCase
  <2>3. i \in Invoice
    BY DEF TypeInv, TypeOK, ControlTyped
  <2>4. StoreTyped'
    <3>1. CASE UNCHANGED store
      BY <3>1 DEF store, StoreTyped, TypeInv, TypeOK
    <3>2. CASE Statement(s, {CaseRow(i)}, Write(CaseRow(i), "PAID"))
      <4>1. CaseRow(i) \in Row /\ ValueSet(CaseRow(i)) = CaseStatus
        BY <2>3, RowTypes
      <4>2. /\ DOMAIN Write(CaseRow(i), "PAID") = {CaseRow(i)}
            /\ Write(CaseRow(i), "PAID")[CaseRow(i)] = "PAID"
        BY DEF Write
      <4>3. "PAID" \in CaseStatus
        BY DEF CaseStatus
      <4>4. QED
        BY <3>2, <4>1, <4>2, <4>3, StatementTyped DEF TypeInv, TypeOK
    <3>3. QED
      BY <2>1, <3>1, <3>2
  <2>5. ControlTyped' /\ ControlFollowsRequest'
    BY <2>1, <2>2 DEF GoTo, TypeInv, TypeOK, ControlTyped,
       ControlFollowsRequest, Running, ConfirmLabels, ReverseLabels, FileLabels
  <2>6. QED
    BY <2>4, <2>5 DEF TypeInv, TypeOK
<1>6. ASSUME NEW s \in Session, ReverseLockAllocation(s)
      PROVE  TypeInv'
  <2> DEFINE row == AllocationRow(req[s].txn, req[s].invoice)
  <2>1. CASE Fail(s)
    BY <2>1, FailTyped
  <2>2. CASE /\ Statement(s, {row}, Nothing)
             /\ GoTo(s, "give_back")
             /\ UNCHANGED <<req, item, unsettled, loaded>>
    <3>1. pc[s] = "lock_allocation" /\ req[s] \in Body /\ req[s].kind = "reverse"
      BY <1>6 DEF ReverseLockAllocation, TypeInv, ControlFollowsRequest, ReverseLabels
    <3>2. row \in Row
      BY <3>1, RequestTypes, RowTypes
    <3>3. StoreTyped'
      BY <2>2, <3>2, StatementTyped DEF TypeInv, TypeOK, Nothing
    <3>4. ControlTyped' /\ ControlFollowsRequest'
      BY <2>2, <3>1 DEF GoTo, TypeInv, TypeOK, ControlTyped, ControlFollowsRequest,
         Running, ConfirmLabels, ReverseLabels, FileLabels
    <3>5. QED
      BY <3>3, <3>4 DEF TypeInv, TypeOK
  <2>3. QED
    BY <1>6, <2>1, <2>2 DEF ReverseLockAllocation
<1>7. ASSUME NEW s \in Session, ReverseGiveBack(s)
      PROVE  TypeInv'
  <2> DEFINE row == InvoiceRow(req[s].invoice)
             allocation == AllocationRow(req[s].txn, req[s].invoice)
             invoice == Seen(s, row)
             amount == Seen(s, allocation).amount
             new == Over(Write(row, [invoice EXCEPT !.outstanding = @ + amount]),
                         Write(allocation, [status |-> "REVERSED", amount |-> amount]))
  <2>1. CASE Fail(s)
    BY <2>1, FailTyped
  <2>2. CASE /\ invoice.outstanding + amount <= invoice.amount
             /\ Statement(s, {row, allocation}, new)
             /\ GoTo(s, "unmatch")
             /\ UNCHANGED <<req, item, unsettled, loaded>>
    <3>1. pc[s] = "give_back" /\ req[s] \in Body /\ req[s].kind = "reverse"
      BY <1>7 DEF ReverseGiveBack, TypeInv, ControlFollowsRequest, ReverseLabels
    <3>2. /\ row \in Row /\ ValueSet(row) = InvoiceValue
          /\ allocation \in Row /\ ValueSet(allocation) = AllocationValue
          /\ row # allocation
      <4>1. req[s].txn \in Txn /\ req[s].invoice \in Invoice
        BY <3>1, RequestTypes
      <4>2. row # allocation
        BY RowsDiffer
      <4>3. QED
        BY <4>1, <4>2, RowTypes
    <3>3. invoice \in InvoiceValue /\ Seen(s, allocation) \in AllocationValue
      BY <3>2, SeenTyped DEF TypeInv, TypeOK
    <3>4. [invoice EXCEPT !.outstanding = @ + amount] \in InvoiceValue
      BY <2>2, <3>3 DEF InvoiceValue, AllocationValue
    <3>5. [status |-> "REVERSED", amount |-> amount] \in AllocationValue
      BY <3>3 DEF AllocationValue
    <3>6. /\ DOMAIN new = {row, allocation}
          /\ \A r \in DOMAIN new : new[r] \in ValueSet(r)
      BY <3>2, <3>4, <3>5 DEF Over, Write
    <3>7. StoreTyped'
      <4> HIDE DEF new, row, allocation, invoice, amount
      <4> QED
        BY <2>2, <3>2, <3>6, StatementTyped DEF TypeInv, TypeOK
    <3>8. ControlTyped' /\ ControlFollowsRequest'
      BY <2>2, <3>1 DEF GoTo, TypeInv, TypeOK, ControlTyped, ControlFollowsRequest,
         Running, ConfirmLabels, ReverseLabels, FileLabels
    <3>9. QED
      BY <3>7, <3>8 DEF TypeInv, TypeOK
  <2>3. QED
    BY <1>7, <2>1, <2>2 DEF ReverseGiveBack
<1>8. ASSUME NEW s \in Session, ReverseUnmatchTransaction(s)
      PROVE  TypeInv'
  <2> DEFINE row == TxnRow(req[s].txn)
             new == Write(row, "REVERSED")
  <2>1. pc[s] = "unmatch" /\ req[s] \in Body /\ req[s].kind = "reverse"
    BY <1>8 DEF ReverseUnmatchTransaction, TypeInv, ControlFollowsRequest, ReverseLabels
  <2>2. row \in Row /\ ValueSet(row) = TxnStatus
    BY <2>1, RequestTypes, RowTypes
  <2>3. DOMAIN new = {row} /\ \A r \in DOMAIN new : new[r] \in ValueSet(r)
    BY <2>2 DEF Write, TxnStatus
  <2>4. StoreTyped'
    <3>1. Statement(s, {row}, new)
      BY <1>8 DEF ReverseUnmatchTransaction
    <3> HIDE DEF new, row
    <3>2. QED
      BY <2>2, <2>3, <3>1, StatementTyped DEF TypeInv, TypeOK
  <2>5. ControlTyped' /\ ControlFollowsRequest'
    BY <1>8, <2>1 DEF ReverseUnmatchTransaction, GoTo, TypeInv, TypeOK, ControlTyped,
       ControlFollowsRequest, Running, ConfirmLabels, ReverseLabels, FileLabels
  <2>6. QED
    BY <2>4, <2>5 DEF TypeInv, TypeOK
<1>9. ASSUME NEW s \in Session, ReverseReopenCase(s)
      PROVE  TypeInv'
  <2> DEFINE row == CaseRow(req[s].invoice)
             new == Write(row, Reopened(Seen(s, row)))
  <2>1. pc[s] = "reopen" /\ req[s] \in Body /\ req[s].kind = "reverse"
    BY <1>9 DEF ReverseReopenCase, TypeInv, ControlFollowsRequest, ReverseLabels
  <2>2. row \in Row /\ ValueSet(row) = CaseStatus
    BY <2>1, RequestTypes, RowTypes
  <2>3. DOMAIN new = {row} /\ \A r \in DOMAIN new : new[r] \in ValueSet(r)
    <3>1. Seen(s, row) \in CaseStatus
      BY <2>2, SeenTyped DEF TypeInv, TypeOK
    <3>2. QED
      BY <2>2, <3>1 DEF Write, Reopened, CaseStatus
  <2>4. StoreTyped'
    <3>1. Statement(s, {row}, new)
      BY <1>9 DEF ReverseReopenCase
    <3> HIDE DEF new, row
    <3>2. QED
      BY <2>2, <2>3, <3>1, StatementTyped DEF TypeInv, TypeOK
  <2>5. ControlTyped' /\ ControlFollowsRequest'
    BY <1>9, <2>1 DEF ReverseReopenCase, GoTo, TypeInv, TypeOK, ControlTyped,
       ControlFollowsRequest, Running, ConfirmLabels, ReverseLabels, FileLabels
  <2>6. QED
    BY <2>4, <2>5 DEF TypeInv, TypeOK
<1>10. ASSUME NEW s \in Session, ReimportSelect(s)
       PROVE  TypeInv'
  <2>1. /\ pc[s] = "select_row" /\ req[s] \in Body /\ req[s].kind = "reimport"
        /\ item[s] \in DOMAIN req[s].rows
    BY <1>10 DEF ReimportSelect, TypeInv, ControlFollowsRequest, FileLabels
  <2>2. FileRowOf(s) \in FileRow
    BY <2>1, RequestTypes DEF FileRowOf
  <2>3. Seen(s, InvoiceRow(FileRowOf(s).invoice)) \in InvoiceValue
    BY <2>2, RowTypes, SeenTyped DEF FileRow, TypeInv, TypeOK
  <2>4. StoreTyped'
    BY <1>10 DEF ReimportSelect, TypeInv, TypeOK, StoreTyped
  <2>5. ControlTyped' /\ ControlFollowsRequest'
    <3>1. /\ loaded' = [loaded EXCEPT ![s] = Seen(s, InvoiceRow(FileRowOf(s).invoice))]
          /\ pc' = [pc EXCEPT ![s] = "update_row"]
          /\ UNCHANGED <<req, item, unsettled>>
      BY <1>10 DEF ReimportSelect, GoTo
    <3>2. QED
      BY <2>1, <2>3, <3>1 DEF TypeInv, TypeOK, ControlTyped,
         ControlFollowsRequest, Running, ConfirmLabels, ReverseLabels, FileLabels
  <2>6. QED
    BY <2>4, <2>5 DEF TypeInv, TypeOK
<1>11. ASSUME NEW s \in Session, ReimportUpdate(s)
       PROVE  TypeInv'
  <2> DEFINE file == FileRowOf(s)
             row == InvoiceRow(file.invoice)
             new == Overwritten(Seen(s, row), loaded[s], file)
  <2>1. /\ pc[s] = "update_row" /\ req[s] \in Body /\ req[s].kind = "reimport"
        /\ item[s] \in DOMAIN req[s].rows
    BY <1>11 DEF ReimportUpdate, TypeInv, ControlFollowsRequest, FileLabels
  <2>2. file \in FileRow
    BY <2>1, RequestTypes DEF FileRowOf
  <2>3. ASSUME NextRow(s), StoreTyped'
        PROVE  TypeInv'
    <3>1. Unread \in InvoiceValue
      BY DEF Unread, InvoiceValue
    <3>2. item[s] # Len(req[s].rows) => item[s] + 1 \in DOMAIN req[s].rows
      BY <2>1, RequestTypes
    <3>3. ControlTyped'
      BY <2>3, <3>1 DEF NextRow, GoTo, TypeInv, TypeOK, ControlTyped, Running, FileLabels
    <3>4. ControlFollowsRequest'
      BY <2>1, <2>3, <3>2 DEF NextRow, GoTo, TypeInv, TypeOK, ControlTyped,
         ControlFollowsRequest, ConfirmLabels, ReverseLabels, FileLabels
    <3>5. QED
      BY <2>3, <3>3, <3>4 DEF TypeInv, TypeOK
  <2>4. CASE UNCHANGED store /\ NextRow(s)
    BY <2>3, <2>4 DEF store, TypeInv, TypeOK, StoreTyped
  <2>5. CASE new.outstanding <= new.amount /\ Statement(s, {row}, Write(row, new)) /\ NextRow(s)
    <3>1. row \in Row /\ ValueSet(row) = InvoiceValue
      BY <2>2, RowTypes DEF FileRow
    <3>2. Seen(s, row) \in InvoiceValue
      BY <3>1, SeenTyped DEF TypeInv, TypeOK
    <3>3. new \in InvoiceValue
      BY <2>2, <2>5, <3>2 DEF Overwritten, InvoiceValue, FileRow
    <3>4. DOMAIN Write(row, new) = {row} /\ Write(row, new)[row] = new
      BY DEF Write
    <3>5. StoreTyped'
      <4> HIDE DEF new, row
      <4> QED
        BY <2>5, <3>1, <3>3, <3>4, StatementTyped DEF TypeInv, TypeOK
    <3>6. QED
      BY <2>3, <2>5, <3>5
  <2>6. CASE Fail(s)
    BY <2>6, FailTyped
  <2>7. QED
    BY <1>11, <2>4, <2>5, <2>6 DEF ReimportUpdate
<1>12. ASSUME NEW s \in Session, CommitRequest(s)
       PROVE  TypeInv'
  BY <1>12, EndTyped, AnswerControl DEF CommitRequest, TypeInv, TypeOK
<1>13. ASSUME NEW s \in Session, DeadlockVictim(s) \/ Crash(s)
       PROVE  TypeInv'
  BY <1>13, FailTyped DEF DeadlockVictim, Crash
<1>14. QED
  BY <1>0, <1>1, <1>2, <1>3, <1>4, <1>5, <1>6, <1>7, <1>8, <1>9, <1>10, <1>11, <1>12,
     <1>13 DEF Next, Step

\* The types hold in every reachable state.
LEMMA TypeInvariant == Spec => []TypeInv
BY TypeInit, TypeStep, PTL DEF Spec

\* Every reachable state is well typed: column types, the check constraint
\* 0 <= outstanding <= amount on committed and uncommitted invoices, and the
\* program counters of the three requests (models.py lines 86-106, 220-256).
THEOREM TypeCorrect == Spec => []TypeOK
<1>1. TypeInv => TypeOK
  BY DEF TypeInv
<1>2. QED
  BY <1>1, TypeInvariant, PTL

----------------------------------------------------------------------------
(* Mutual exclusion of writers, and the life of an allocation.             *)
(*                                                                         *)
(* The insert of an allocation waits for no row lock, so that nobody else  *)
(* holds the row has to be argued: while its transaction is locked, a row  *)
(* that is not there yet can only be held by the holder of the transaction *)
(* (AllocationGuarded).  That argument needs what a session has written    *)
(* to allocations (AllocationWritten) and what it holds at each statement. *)

\* What one commit may do to an allocation.
Advances(old, new) ==
  \/ old.status = "NONE" /\ new.status = "CONFIRMED" /\ new.amount > 0
  \/ old.status = "CONFIRMED" /\ new.status = "REVERSED" /\ new.amount = old.amount

\* A session has written nothing before its first write.
NothingWrittenYet ==
  \A s \in Session :
    pc[s] \in {"idle", "lock_transaction", "lock_allocation", "give_back"} =>
      DOMAIN work[s] = {}

\* A confirmation holds its transaction.
TransactionHeld ==
  \A s \in Session :
    pc[s] \in {"allocate", "mark"} => TxnRow(req[s].txn) \in locks[s]

\* A reversal about to give the money back holds an allocation that is confirmed.
AllocationHeld ==
  \A s \in Session : pc[s] = "give_back" =>
    LET row == AllocationRow(req[s].txn, req[s].invoice)
    IN  row \in locks[s] /\ db[row].status = "CONFIRMED"

\* Whoever holds an allocation that is not confirmed holds its transaction.
AllocationGuarded ==
  \A s \in Session, t \in Txn, i \in Invoice :
    AllocationRow(t, i) \in locks[s] =>
      db[AllocationRow(t, i)].status = "CONFIRMED" \/ TxnRow(t) \in locks[s]

\* What is written to an allocation and not committed is one step ahead.
AllocationWritten ==
  \A s \in Session, t \in Txn, i \in Invoice :
    AllocationRow(t, i) \in DOMAIN work[s] =>
      Advances(db[AllocationRow(t, i)], work[s][AllocationRow(t, i)])

\* Inductive together with TypeInv.
LockInv ==
  /\ WritersExclusive
  /\ NothingWrittenYet
  /\ TransactionHeld
  /\ AllocationHeld
  /\ AllocationGuarded
  /\ AllocationWritten

\* The effect of a statement, session by session.
LEMMA StatementEffect ==
  ASSUME StoreTyped, NEW s \in Session, NEW rows, NEW new, Statement(s, rows, new)
  PROVE  /\ db' = db
         /\ \A o \in Session :
              /\ locks'[o] = IF o = s THEN locks[s] \cup rows ELSE locks[o]
              /\ work'[o] = IF o = s THEN Over(new, work[s]) ELSE work[o]
BY DEF Statement, StoreTyped

\* The writes of a session after a statement.
LEMMA OverEffect ==
  ASSUME NEW new, NEW old
  PROVE  /\ DOMAIN Over(new, old) = DOMAIN new \cup DOMAIN old
         /\ \A r \in DOMAIN new : Over(new, old)[r] = new[r]
         /\ \A r \in DOMAIN old \ DOMAIN new : Over(new, old)[r] = old[r]
BY DEF Over

\* The effect of the end of a session.
LEMMA EndEffect ==
  ASSUME StoreTyped, NEW s \in Session, Commit(s) \/ Rollback(s)
  PROVE  /\ \A o \in Session :
              /\ locks'[o] = IF o = s THEN {} ELSE locks[o]
              /\ work'[o] = IF o = s THEN Nothing ELSE work[o]
         /\ \A row \in Row : row \notin DOMAIN work[s] => db'[row] = db[row]
         /\ \A row \in Row : db'[row] = db[row] \/ /\ row \in DOMAIN work[s]
                                                   /\ db'[row] = work[s][row]
BY DEF StoreTyped, Commit, Rollback, End, Over

\* The effect of answering a request.
LEMMA AnswerEffect ==
  ASSUME ControlTyped, NEW s \in Session, Answer(s)
  PROVE  \A o \in Session : /\ pc'[o] = IF o = s THEN "idle" ELSE pc[o]
                            /\ req'[o] = IF o = s THEN NoBody ELSE req[o]
                            /\ unsettled'[o] = IF o = s THEN {} ELSE unsettled[o]
BY DEF ControlTyped, Answer, GoTo

\* A statement that only takes rows it holds or finds free, and advances the
\* allocations it writes.
LEMMA StatementLocks ==
  ASSUME TypeInv, LockInv, NEW s \in Session, NEW rows \in SUBSET Row, NEW new,
         Statement(s, rows, new),
         DOMAIN new \subseteq rows,
         \A row \in rows : row \in locks[s] \/ Free(s, row),
         \A t \in Txn, i \in Invoice : AllocationRow(t, i) \in rows =>
           \/ db[AllocationRow(t, i)].status = "CONFIRMED"
           \/ TxnRow(t) \in locks[s],
         \A t \in Txn, i \in Invoice : AllocationRow(t, i) \in DOMAIN new =>
           Advances(db[AllocationRow(t, i)], new[AllocationRow(t, i)])
  PROVE  WritersExclusive' /\ AllocationGuarded' /\ AllocationWritten'
<1>1. /\ db' = db
      /\ \A o \in Session :
           /\ locks'[o] = IF o = s THEN locks[s] \cup rows ELSE locks[o]
           /\ work'[o] = IF o = s THEN Over(new, work[s]) ELSE work[o]
  BY StatementEffect DEF TypeInv, TypeOK
<1>2. /\ DOMAIN Over(new, work[s]) = DOMAIN new \cup DOMAIN work[s]
      /\ \A r \in DOMAIN new : Over(new, work[s])[r] = new[r]
      /\ \A r \in DOMAIN work[s] \ DOMAIN new : Over(new, work[s])[r] = work[s][r]
  BY OverEffect
<1>3. WritersExclusive'
  <2>1. \A o, p \in Session : o # p => locks'[o] \cap locks'[p] = {}
    <3>1. \A p \in Session \ {s} : (locks[s] \cup rows) \cap locks[p] = {}
      BY DEF LockInv, WritersExclusive, Free
    <3>2. QED
      BY <1>1, <3>1 DEF LockInv, WritersExclusive
  <2>2. \A o \in Session : DOMAIN work'[o] \subseteq locks'[o]
    BY <1>1, <1>2 DEF LockInv, WritersExclusive
  <2>3. QED
    BY <2>1, <2>2 DEF WritersExclusive
<1>4. AllocationGuarded'
  BY <1>1 DEF LockInv, AllocationGuarded, TxnRow, AllocationRow
<1>5. AllocationWritten'
  <2> SUFFICES ASSUME NEW o \in Session, NEW t \in Txn, NEW i \in Invoice,
                      AllocationRow(t, i) \in DOMAIN work'[o]
               PROVE  Advances(db[AllocationRow(t, i)], work'[o][AllocationRow(t, i)])
    BY <1>1 DEF AllocationWritten, Advances, AllocationRow
  <2>1. CASE o # s
    BY <1>1, <2>1 DEF LockInv, AllocationWritten
  <2>2. CASE o = s /\ AllocationRow(t, i) \in DOMAIN new
    <3>1. work'[o][AllocationRow(t, i)] = new[AllocationRow(t, i)]
      BY <1>1, <1>2, <2>2
    <3>2. QED
      BY <2>2, <3>1
  <2>3. CASE o = s /\ AllocationRow(t, i) \notin DOMAIN new
    <3>1. AllocationRow(t, i) \in DOMAIN work[s]
      BY <1>1, <1>2, <2>3
    <3>2. work'[o][AllocationRow(t, i)] = work[s][AllocationRow(t, i)]
      BY <1>1, <1>2, <2>3, <3>1
    <3>3. QED
      BY <2>3, <3>1, <3>2 DEF LockInv, AllocationWritten
  <2>4. QED
    BY <2>1, <2>2, <2>3
<1>6. QED
  BY <1>3, <1>4, <1>5

\* The end of a request: what it leaves to the others is unchanged, for the
\* rows it wrote were its own.
LEMMA EndLocks ==
  ASSUME TypeInv, LockInv, NEW s \in Session, Commit(s) \/ Rollback(s), Answer(s)
  PROVE  LockInv'
<1>1. \A o \in Session : /\ locks'[o] = IF o = s THEN {} ELSE locks[o]
                         /\ work'[o] = IF o = s THEN Nothing ELSE work[o]
                         /\ pc'[o] = IF o = s THEN "idle" ELSE pc[o]
                         /\ req'[o] = IF o = s THEN NoBody ELSE req[o]
  BY EndEffect, AnswerEffect DEF TypeInv, TypeOK
<1>2. \A o \in Session \ {s}, row \in Row : row \in locks[o] => db'[row] = db[row]
  BY EndEffect DEF TypeInv, TypeOK, LockInv, WritersExclusive
<1>3. DOMAIN Nothing = {}
  BY DEF Nothing
<1>4. \A t \in Txn, i \in Invoice : AllocationRow(t, i) \in Row
  BY RowTypes
<1>5. WritersExclusive' /\ NothingWrittenYet' /\ TransactionHeld'
  BY <1>1, <1>3 DEF LockInv, WritersExclusive, NothingWrittenYet, TransactionHeld, TxnRow
<1>6. AllocationHeld'
  <2> SUFFICES ASSUME NEW o \in Session, pc'[o] = "give_back"
               PROVE  LET row == AllocationRow(req[o].txn, req[o].invoice)
                      IN  row \in locks'[o] /\ db'[row].status = "CONFIRMED"
    BY <1>1 DEF AllocationHeld, AllocationRow
  <2>1. o # s /\ pc[o] = "give_back"
    BY <1>1
  <2>2. req[o].txn \in Txn /\ req[o].invoice \in Invoice
    BY <2>1, RequestTypes DEF TypeInv, ControlFollowsRequest, ReverseLabels
  <2>3. QED
    BY <1>1, <1>2, <1>4, <2>1, <2>2 DEF LockInv, AllocationHeld
<1>7. AllocationGuarded'
  BY <1>1, <1>2, <1>4 DEF LockInv, AllocationGuarded, AllocationRow, TxnRow
<1>8. AllocationWritten'
  BY <1>1, <1>2, <1>3, <1>4 DEF LockInv, AllocationWritten, WritersExclusive,
     AllocationRow, Advances
<1>9. QED
  BY <1>5, <1>6, <1>7, <1>8 DEF LockInv

\* Nobody holds or has written anything in the initial states.
LEMMA LockInit == Init => LockInv
BY DEF Init, LockInv, WritersExclusive, NothingWrittenYet, TransactionHeld, AllocationHeld,
   AllocationGuarded, AllocationWritten, Nothing

\* Every action keeps the lock discipline.
LEMMA LockStep == TypeInv /\ LockInv /\ [Next]_vars => LockInv'
<1> SUFFICES ASSUME TypeInv, LockInv, [Next]_vars PROVE LockInv'
  OBVIOUS
<1> USE DEF GoTo
<1>a. StoreTyped /\ ControlTyped
  BY DEF TypeInv, TypeOK
<1>0. CASE UNCHANGED vars
  BY <1>0 DEF LockInv, WritersExclusive, NothingWrittenYet, TransactionHeld, AllocationHeld,
     AllocationGuarded, AllocationWritten, vars, Advances, TxnRow, AllocationRow
<1>1. ASSUME NEW s \in Session, Begin(s)
      PROVE  LockInv'
  <2>1. PICK b \in Body : /\ req' = [req EXCEPT ![s] = b]
                          /\ pc' = [pc EXCEPT ![s] = FirstLabel(b)]
    BY <1>1 DEF Begin
  <2>2. FirstLabel(b) \in {"lock_transaction", "lock_allocation", "select_row"}
    BY RequestTypes DEF FirstLabel
  <2>3. pc[s] = "idle" /\ UNCHANGED <<db, work, locks>>
    BY <1>1 DEF Begin
  <2>4. WritersExclusive' /\ AllocationGuarded' /\ AllocationWritten'
    BY <2>3 DEF LockInv, WritersExclusive, AllocationGuarded, AllocationWritten,
       Advances, TxnRow, AllocationRow
  <2>5. \A o \in Session \ {s} : pc'[o] = pc[o] /\ req'[o] = req[o]
    BY <1>a, <2>1 DEF ControlTyped
  <2>6. pc'[s] \in {"lock_transaction", "lock_allocation", "select_row"}
    BY <1>a, <2>1, <2>2 DEF ControlTyped
  <2>7. NothingWrittenYet' /\ TransactionHeld' /\ AllocationHeld'
    BY <2>3, <2>5, <2>6 DEF LockInv, NothingWrittenYet, TransactionHeld, AllocationHeld,
       TxnRow, AllocationRow
  <2>8. QED
    BY <2>4, <2>7 DEF LockInv
<1>2. ASSUME NEW s \in Session, ConfirmLockTransaction(s)
      PROVE  LockInv'
  <2>1. CASE Fail(s)
    BY <2>1, EndLocks DEF Fail
  <2>2. CASE /\ Statement(s, {TxnRow(req[s].txn)}, Nothing)
             /\ GoTo(s, "allocate")
             /\ UNCHANGED <<req, item, unsettled, loaded>>
    <3>1. pc[s] = "lock_transaction" /\ Free(s, TxnRow(req[s].txn))
      BY <1>2 DEF ConfirmLockTransaction
    <3>2. TxnRow(req[s].txn) \in Row
      BY <3>1, RequestTypes, RowTypes DEF TypeInv, ControlFollowsRequest, ConfirmLabels
    <3>3. WritersExclusive' /\ AllocationGuarded' /\ AllocationWritten'
      <4>1. \A t \in Txn, i \in Invoice : AllocationRow(t, i) \notin {TxnRow(req[s].txn)}
        BY RowsDiffer
      <4>2. DOMAIN Nothing = {}
        BY DEF Nothing
      <4>3. QED
        BY <2>2, <3>1, <3>2, <4>1, <4>2, StatementLocks
    <3>4. /\ \A o \in Session : /\ pc'[o] = IF o = s THEN "allocate" ELSE pc[o]
                                /\ o # s => work'[o] = work[o] /\ locks'[o] = locks[o]
          /\ db' = db /\ req' = req /\ TxnRow(req[s].txn) \in locks'[s]
      <4>1. \A o \in Session : pc'[o] = IF o = s THEN "allocate" ELSE pc[o]
        BY <1>a, <2>2 DEF ControlTyped
      <4>2. /\ \A o \in Session \ {s} : work'[o] = work[o] /\ locks'[o] = locks[o]
            /\ db' = db /\ locks'[s] = locks[s] \cup {TxnRow(req[s].txn)}
        BY <1>a, <2>2, StatementEffect
      <4>3. QED
        BY <2>2, <4>1, <4>2
    <3>5. NothingWrittenYet' /\ TransactionHeld' /\ AllocationHeld'
      BY <3>4 DEF LockInv, NothingWrittenYet, TransactionHeld, AllocationHeld,
         TxnRow, AllocationRow
    <3>6. QED
      BY <3>3, <3>5 DEF LockInv
  <2>3. QED
    BY <1>2, <2>1, <2>2 DEF ConfirmLockTransaction
<1>3. ASSUME NEW s \in Session, ConfirmAllocate(s)
      PROVE  LockInv'
  <2> DEFINE x == Item(s)
             row == InvoiceRow(x.invoice)
             allocation == AllocationRow(req[s].txn, x.invoice)
             confirmed == [status |-> "CONFIRMED", amount |-> x.amount]
             new == Over(Write(row, [Seen(s, row) EXCEPT !.outstanding = @ - x.amount]),
                         Write(allocation, confirmed))
  <2>1. CASE Fail(s)
    BY <2>1, EndLocks DEF Fail
  <2>2. CASE /\ Allocatable(s, x)
             /\ Statement(s, {row, allocation}, new)
             /\ GoTo(s, IF item[s] = Len(req[s].items) THEN "mark" ELSE "allocate")
             /\ UNCHANGED <<req, loaded>>
    <3>1. /\ pc[s] = "allocate" /\ req[s] \in Body /\ WellFormed(req[s])
          /\ req[s].kind = "confirm" /\ item[s] \in DOMAIN req[s].items
          /\ Free(s, row)
      BY <1>3 DEF ConfirmAllocate, InvoiceFree, TypeInv, ControlFollowsRequest, ConfirmLabels
    <3>2. req[s].txn \in Txn /\ x.invoice \in Invoice /\ x.amount > 0
      <4>1. req[s].txn \in Txn /\ req[s].items \in Seq(AllocationItem)
        BY <3>1, RequestTypes
      <4>2. x = req[s].items[item[s]]
        BY DEF Item
      <4>3. x \in AllocationItem
        BY <3>1, <4>1, <4>2, ElementTyped
      <4>4. req[s].items[item[s]].amount > 0
        BY <3>1 DEF WellFormed
      <4>5. QED
        BY <4>1, <4>2, <4>3, <4>4 DEF AllocationItem
    <3>3. row \in Row /\ allocation \in Row /\ row # allocation
      <4>1. row # allocation
        BY RowsDiffer
      <4>2. QED
        BY <3>2, <4>1, RowTypes
    <3>4. TxnRow(req[s].txn) \in locks[s]
      BY <3>1 DEF LockInv, TransactionHeld
    <3>5. Seen(s, allocation).status = "NONE"
      BY <2>2 DEF Allocatable
    <3>6. allocation \notin DOMAIN work[s]
      BY <3>2, <3>5 DEF Seen, LockInv, AllocationWritten, Advances
    <3>7. db[allocation].status = "NONE"
      BY <3>5, <3>6 DEF Seen
    <3>8. Free(s, allocation)
      BY <3>2, <3>4, <3>7 DEF Free, LockInv, AllocationGuarded, WritersExclusive
    <3>9. Advances(db[allocation], confirmed)
      BY <3>2, <3>7 DEF Advances
    <3>10. DOMAIN new = {row, allocation} /\ new[allocation] = confirmed
      BY <3>3 DEF Over, Write
    <3>11. WritersExclusive' /\ AllocationGuarded' /\ AllocationWritten'
      <4>1. \A t \in Txn, i \in Invoice : AllocationRow(t, i) \in {row, allocation} =>
              t = req[s].txn /\ AllocationRow(t, i) = allocation
        BY RowsDiffer
      <4> HIDE DEF new, row, allocation, x, confirmed
      <4>2. QED
        BY <2>2, <3>1, <3>3, <3>4, <3>8, <3>9, <3>10, <4>1, StatementLocks
    <3>12. /\ \A o \in Session : /\ pc'[o] = IF o = s THEN pc'[s] ELSE pc[o]
                                 /\ o # s => work'[o] = work[o] /\ locks'[o] = locks[o]
           /\ db' = db /\ req' = req /\ locks[s] \subseteq locks'[s]
           /\ pc'[s] \in {"mark", "allocate"}
      <4>1. locks[s] \subseteq locks'[s]
        BY <1>a, <2>2, StatementEffect
      <4>2. \A o \in Session \ {s} : work'[o] = work[o] /\ locks'[o] = locks[o]
        <5> HIDE DEF new, row, allocation
        <5> QED
          BY <1>a, <2>2, StatementEffect
      <4>3. db' = db /\ req' = req
        BY <2>2 DEF Statement
      <4>4. \A o \in Session \ {s} : pc'[o] = pc[o]
        BY <1>a, <2>2 DEF ControlTyped
      <4>5. pc'[s] \in {"mark", "allocate"}
        BY <1>a, <2>2 DEF ControlTyped
      <4>6. QED
        BY <4>1, <4>2, <4>3, <4>4, <4>5
    <3>13. NothingWrittenYet' /\ TransactionHeld' /\ AllocationHeld'
      BY <3>4, <3>12 DEF LockInv, NothingWrittenYet, TransactionHeld, AllocationHeld,
         TxnRow, AllocationRow
    <3>14. QED
      BY <3>11, <3>13 DEF LockInv
  <2>3. QED
    BY <1>3, <2>1, <2>2 DEF ConfirmAllocate
<1>4. ASSUME NEW s \in Session, ConfirmMarkTransaction(s)
      PROVE  LockInv'
  <2> DEFINE row == TxnRow(req[s].txn)
             new == Write(row, MarkOf(req[s]))
  <2>1. pc[s] = "mark" /\ Statement(s, {row}, new)
    BY <1>4 DEF ConfirmMarkTransaction
  <2>2. row \in locks[s]
    BY <2>1 DEF LockInv, TransactionHeld
  <2>3. row \in Row
    BY <1>a, <2>2 DEF StoreTyped
  <2>4. \A t \in Txn, i \in Invoice : AllocationRow(t, i) # row
    BY RowsDiffer
  <2>5. DOMAIN new = {row}
    BY DEF Write
  <2>6. WritersExclusive' /\ AllocationGuarded' /\ AllocationWritten'
    <3> HIDE DEF row, new
    <3> QED
      BY <2>1, <2>2, <2>3, <2>4, <2>5, StatementLocks
  <2>7. /\ \A o \in Session : /\ pc'[o] = IF o = s THEN "settle" ELSE pc[o]
                              /\ o # s => work'[o] = work[o] /\ locks'[o] = locks[o]
        /\ db' = db /\ req' = req
    BY <1>4, <1>a, <2>1, StatementEffect DEF ConfirmMarkTransaction, ControlTyped
  <2>8. NothingWrittenYet' /\ TransactionHeld' /\ AllocationHeld'
    BY <2>7 DEF LockInv, NothingWrittenYet, TransactionHeld, AllocationHeld,
       TxnRow, AllocationRow
  <2>9. QED
    BY <2>6, <2>8 DEF LockInv
<1>5. ASSUME NEW s \in Session, ConfirmSettleCase(s)
      PROVE  LockInv'
  <2>1. PICK i \in unsettled[s] :
          /\ \/ UNCHANGED store
             \/ /\ Free(s, CaseRow(i))
                /\ Statement(s, {CaseRow(i)}, Write(CaseRow(i), "PAID"))
          /\ GoTo(s, IF unsettled[s] = {i} THEN "commit" ELSE "settle")
    BY <1>5 DEF ConfirmSettleCase
  <2>2. i \in Invoice
    BY <1>a DEF ControlTyped
  <2>3. WritersExclusive' /\ AllocationGuarded' /\ AllocationWritten'
    <3>1. CASE UNCHANGED store
      BY <3>1 DEF store, LockInv, WritersExclusive, AllocationGuarded, AllocationWritten,
         Advances, TxnRow, AllocationRow
    <3>2. CASE Free(s, CaseRow(i)) /\ Statement(s, {CaseRow(i)}, Write(CaseRow(i), "PAID"))
      <4>1. CaseRow(i) \in Row
        BY <2>2, RowTypes
      <4>2. DOMAIN Write(CaseRow(i), "PAID") = {CaseRow(i)}
        BY DEF Write
      <4>3. \A t \in Txn, j \in Invoice : AllocationRow(t, j) # CaseRow(i)
        BY RowsDiffer
      <4>4. QED
        BY <3>2, <4>1, <4>2, <4>3, StatementLocks
    <3>3. QED
      BY <2>1, <3>1, <3>2
  <2>4. /\ \A o \in Session : /\ pc'[o] = IF o = s THEN pc'[s] ELSE pc[o]
                              /\ o # s => work'[o] = work[o] /\ locks'[o] = locks[o]
        /\ db' = db /\ req' = req /\ pc'[s] \in {"settle", "commit"}
    BY <1>5, <1>a, <2>1, StatementEffect DEF ConfirmSettleCase, ControlTyped, store
  <2>5. NothingWrittenYet' /\ TransactionHeld' /\ AllocationHeld'
    BY <2>4 DEF LockInv, NothingWrittenYet, TransactionHeld, AllocationHeld,
       TxnRow, AllocationRow
  <2>6. QED
    BY <2>3, <2>5 DEF LockInv
<1>6. ASSUME NEW s \in Session, ReverseLockAllocation(s)
      PROVE  LockInv'
  <2> DEFINE row == AllocationRow(req[s].txn, req[s].invoice)
  <2>1. CASE Fail(s)
    BY <2>1, EndLocks DEF Fail
  <2>2. CASE /\ db[row].status = "CONFIRMED"
             /\ Free(s, row)
             /\ Statement(s, {row}, Nothing)
             /\ GoTo(s, "give_back")
             /\ UNCHANGED <<req, item, unsettled, loaded>>
    <3>1. pc[s] = "lock_allocation" /\ req[s] \in Body /\ req[s].kind = "reverse"
      BY <1>6 DEF ReverseLockAllocation, TypeInv, ControlFollowsRequest, ReverseLabels
    <3>2. row \in Row
      BY <3>1, RequestTypes, RowTypes
    <3>3. DOMAIN Nothing = {}
      BY DEF Nothing
    <3>4. WritersExclusive' /\ AllocationGuarded' /\ AllocationWritten'
      <4> HIDE DEF row
      <4> QED
        BY <2>2, <3>2, <3>3, StatementLocks
    <3>5. /\ \A o \in Session : /\ pc'[o] = IF o = s THEN "give_back" ELSE pc[o]
                                /\ o # s => work'[o] = work[o] /\ locks'[o] = locks[o]
          /\ db' = db /\ req' = req /\ row \in locks'[s] /\ DOMAIN work'[s] = DOMAIN work[s]
      <4>1. \A o \in Session : pc'[o] = IF o = s THEN "give_back" ELSE pc[o]
        BY <1>a, <2>2 DEF ControlTyped
      <4>2. /\ \A o \in Session \ {s} : work'[o] = work[o] /\ locks'[o] = locks[o]
            /\ db' = db /\ locks'[s] = locks[s] \cup {row}
        BY <1>a, <2>2, StatementEffect
      <4>3. DOMAIN Over(Nothing, work[s]) = DOMAIN Nothing \cup DOMAIN work[s]
        BY OverEffect
      <4>4. work'[s] = Over(Nothing, work[s])
        BY <1>a, <2>2 DEF StoreTyped, Statement
      <4>5. QED
        BY <2>2, <3>3, <4>1, <4>2, <4>3, <4>4
    <3>6. NothingWrittenYet' /\ TransactionHeld' /\ AllocationHeld'
      BY <2>2, <3>1, <3>5 DEF LockInv, NothingWrittenYet, TransactionHeld, AllocationHeld,
         TxnRow, AllocationRow
    <3>7. QED
      BY <3>4, <3>6 DEF LockInv
  <2>3. QED
    BY <1>6, <2>1, <2>2 DEF ReverseLockAllocation
<1>7. ASSUME NEW s \in Session, ReverseGiveBack(s)
      PROVE  LockInv'
  <2> DEFINE row == InvoiceRow(req[s].invoice)
             allocation == AllocationRow(req[s].txn, req[s].invoice)
             invoice == Seen(s, row)
             amount == Seen(s, allocation).amount
             reversed == [status |-> "REVERSED", amount |-> amount]
             new == Over(Write(row, [invoice EXCEPT !.outstanding = @ + amount]),
                         Write(allocation, reversed))
  <2>1. CASE Fail(s)
    BY <2>1, EndLocks DEF Fail
  <2>2. CASE /\ Statement(s, {row, allocation}, new)
             /\ GoTo(s, "unmatch")
             /\ UNCHANGED <<req, item, unsettled, loaded>>
    <3>1. /\ pc[s] = "give_back" /\ req[s] \in Body /\ req[s].kind = "reverse"
          /\ Free(s, row)
      BY <1>7 DEF ReverseGiveBack, InvoiceFree, TypeInv, ControlFollowsRequest, ReverseLabels
    <3>2. row \in Row /\ allocation \in Row /\ row # allocation
      <4>1. req[s].txn \in Txn /\ req[s].invoice \in Invoice
        BY <3>1, RequestTypes
      <4>2. row # allocation
        BY RowsDiffer
      <4>3. QED
        BY <4>1, <4>2, RowTypes
    <3>3. allocation \in locks[s] /\ db[allocation].status = "CONFIRMED"
      BY <3>1 DEF LockInv, AllocationHeld
    <3>4. amount = db[allocation].amount
      BY <3>1 DEF Seen, LockInv, NothingWrittenYet
    <3>5. Advances(db[allocation], reversed)
      BY <3>3, <3>4 DEF Advances
    <3>6. DOMAIN new = {row, allocation} /\ new[allocation] = reversed
      BY <3>2 DEF Over, Write
    <3>7. WritersExclusive' /\ AllocationGuarded' /\ AllocationWritten'
      <4>1. \A t \in Txn, i \in Invoice :
              AllocationRow(t, i) \in {row, allocation} => AllocationRow(t, i) = allocation
        BY RowsDiffer
      <4> HIDE DEF new, row, allocation, reversed
      <4>2. QED
        BY <2>2, <3>1, <3>2, <3>3, <3>5, <3>6, <4>1, StatementLocks
    <3>8. /\ \A o \in Session : /\ pc'[o] = IF o = s THEN "unmatch" ELSE pc[o]
                                /\ o # s => work'[o] = work[o] /\ locks'[o] = locks[o]
          /\ db' = db /\ req' = req
      <4> HIDE DEF new, row, allocation
      <4> QED
        BY <1>a, <2>2, StatementEffect DEF ControlTyped
    <3>9. NothingWrittenYet' /\ TransactionHeld' /\ AllocationHeld'
      BY <3>8 DEF LockInv, NothingWrittenYet, TransactionHeld, AllocationHeld,
         TxnRow, AllocationRow
    <3>10. QED
      BY <3>7, <3>9 DEF LockInv
  <2>3. QED
    BY <1>7, <2>1, <2>2 DEF ReverseGiveBack
<1>8. ASSUME NEW s \in Session, NEW row \in Row, NEW value, NEW label \in {"reopen", "commit"},
             \A t \in Txn, i \in Invoice : AllocationRow(t, i) # row,
             Free(s, row), Statement(s, {row}, Write(row, value)),
             GoTo(s, label), req' = req
      PROVE  LockInv'
  <2>1. DOMAIN Write(row, value) = {row}
    BY DEF Write
  <2>2. WritersExclusive' /\ AllocationGuarded' /\ AllocationWritten'
    BY <1>8, <2>1, StatementLocks
  <2>3. /\ \A o \in Session : /\ pc'[o] = IF o = s THEN label ELSE pc[o]
                              /\ o # s => work'[o] = work[o] /\ locks'[o] = locks[o]
        /\ db' = db /\ req' = req
    BY <1>8, <1>a, StatementEffect DEF ControlTyped
  <2>4. NothingWrittenYet' /\ TransactionHeld' /\ AllocationHeld'
    BY <2>3 DEF LockInv, NothingWrittenYet, TransactionHeld, AllocationHeld,
       TxnRow, AllocationRow
  <2>5. QED
    BY <2>2, <2>4 DEF LockInv
<1>9. ASSUME NEW s \in Session, ReverseUnmatchTransaction(s) \/ ReverseReopenCase(s)
      PROVE  LockInv'
  <2>1. CASE ReverseUnmatchTransaction(s)
    <3>1. /\ pc[s] = "unmatch" /\ Free(s, TxnRow(req[s].txn))
          /\ Statement(s, {TxnRow(req[s].txn)}, Write(TxnRow(req[s].txn), "REVERSED"))
          /\ GoTo(s, "reopen") /\ req' = req
      BY <2>1 DEF ReverseUnmatchTransaction
    <3>2. TxnRow(req[s].txn) \in Row
      BY <3>1, RequestTypes, RowTypes DEF TypeInv, ControlFollowsRequest, ReverseLabels
    <3>3. \A t \in Txn, i \in Invoice : AllocationRow(t, i) # TxnRow(req[s].txn)
      BY RowsDiffer
    <3>4. QED
      BY <1>8, <3>1, <3>2, <3>3
  <2>2. CASE ReverseReopenCase(s)
    <3> DEFINE row == CaseRow(req[s].invoice)
    <3>1. /\ pc[s] = "reopen" /\ Free(s, row)
          /\ Statement(s, {row}, Write(row, Reopened(Seen(s, row))))
          /\ GoTo(s, "commit") /\ req' = req
      BY <2>2 DEF ReverseReopenCase
    <3>2. row \in Row
      BY <3>1, RequestTypes, RowTypes DEF TypeInv, ControlFollowsRequest, ReverseLabels
    <3>3. \A t \in Txn, i \in Invoice : AllocationRow(t, i) # row
      BY RowsDiffer
    <3> HIDE DEF row
    <3>4. QED
      BY <1>8, <3>1, <3>2, <3>3
  <2>3. QED
    BY <1>9, <2>1, <2>2
<1>10. ASSUME NEW s \in Session, ReimportSelect(s) \/ ReimportUpdate(s)
       PROVE  LockInv'
  <2>1. CASE Fail(s)
    BY <2>1, EndLocks DEF Fail
  <2>2. CASE ~Fail(s)
    <3> DEFINE row == InvoiceRow(FileRowOf(s).invoice)
               new == Write(row, Overwritten(Seen(s, row), loaded[s], FileRowOf(s)))
    <3>1. /\ pc[s] \in FileLabels /\ req' = req
          /\ pc' = [pc EXCEPT ![s] = pc'[s]]
          /\ pc'[s] \in {"update_row", "commit", "select_row"}
          /\ UNCHANGED store \/ (Free(s, row) /\ Statement(s, {row}, new))
      BY <1>10, <1>a, <2>2 DEF ReimportSelect, ReimportUpdate, NextRow, FileLabels, store,
         ControlTyped
    <3>2. WritersExclusive' /\ AllocationGuarded' /\ AllocationWritten'
      <4>1. CASE UNCHANGED store
        BY <4>1 DEF store, LockInv, WritersExclusive, AllocationGuarded, AllocationWritten,
           Advances, TxnRow, AllocationRow
      <4>2. CASE Free(s, row) /\ Statement(s, {row}, new)
        <5>1. /\ req[s] \in Body /\ req[s].kind = "reimport"
              /\ item[s] \in DOMAIN req[s].rows
          BY <3>1 DEF TypeInv, ControlFollowsRequest, FileLabels
        <5>2. FileRowOf(s) \in FileRow
          BY <5>1, RequestTypes, ElementTyped DEF FileRowOf
        <5>3. row \in Row
          BY <5>2, RowTypes DEF FileRow
        <5>4. \A t \in Txn, i \in Invoice : AllocationRow(t, i) # row
          BY RowsDiffer
        <5>5. DOMAIN new = {row}
          BY DEF Write
        <5> HIDE DEF row, new
        <5>6. QED
          BY <4>2, <5>3, <5>4, <5>5, StatementLocks
      <4>3. QED
        BY <3>1, <4>1, <4>2
    <3>3. /\ \A o \in Session : /\ pc'[o] = IF o = s THEN pc'[s] ELSE pc[o]
                                /\ o # s => work'[o] = work[o] /\ locks'[o] = locks[o]
          /\ db' = db
      <4> HIDE DEF row, new
      <4> QED
        BY ZenonT(40), <3>1, <1>a, StatementEffect DEF ControlTyped, store
    <3>4. NothingWrittenYet' /\ TransactionHeld' /\ AllocationHeld'
      BY <3>1, <3>3 DEF LockInv, NothingWrittenYet, TransactionHeld, AllocationHeld,
         TxnRow, AllocationRow
    <3>5. QED
      BY <3>2, <3>4 DEF LockInv
  <2>3. QED
    BY <2>1, <2>2
<1>11. ASSUME NEW s \in Session, CommitRequest(s) \/ DeadlockVictim(s) \/ Crash(s)
       PROVE  LockInv'
  BY <1>11, EndLocks DEF CommitRequest, DeadlockVictim, Crash, Fail
<1>12. QED
  BY <1>0, <1>1, <1>2, <1>3, <1>4, <1>5, <1>6, <1>7, <1>9, <1>10, <1>11 DEF Next, Step

\* The lock discipline holds in every reachable state.
LEMMA LockInvariant == Spec => []LockInv
BY TypeInvariant, LockInit, LockStep, PTL DEF Spec

\* A row has one writer at a time, the insert of an allocation included, which
\* waits for no row lock of its own (reconciliation.py lines 36-47, 61-90,
\* 119-155; invoice_import_service.py lines 98-104).
THEOREM WritersNeverOverlap == Spec => []WritersExclusive
<1>1. LockInv => WritersExclusive
  BY DEF LockInv
<1>2. QED
  BY <1>1, LockInvariant, PTL

----------------------------------------------------------------------------
(* What commits do.                                                        *)

\* The committed rows change only by a commit.
LEMMA OnlyCommitsChange ==
  ASSUME [Next]_vars
  PROVE  db' = db \/ \E s \in Session : CommitRequest(s)
BY ZenonT(40) DEF Next, Step, vars, Begin, ConfirmLockTransaction, ConfirmAllocate,
   ConfirmMarkTransaction, ConfirmSettleCase, ReverseLockAllocation, ReverseGiveBack,
   ReverseUnmatchTransaction, ReverseReopenCase, ReimportSelect, ReimportUpdate,
   DeadlockVictim, Crash, Fail, Rollback, Statement, store

\* No retry, overlap or crash takes an allocation out of its life cycle: it is
\* confirmed once, reversed at most once, and keeps its amount
\* (reconciliation.py lines 61-90, 119-146; models.py line 255).
THEOREM AllocationsFollowLifecycle == Spec => AllocationLifecycle
<1> DEFINE Follows ==
      \A t \in Txn, i \in Invoice :
        LET old == db[AllocationRow(t, i)]
            new == db'[AllocationRow(t, i)]
        IN  \/ new = old
            \/ old.status = "NONE" /\ new.status = "CONFIRMED" /\ new.amount > 0
            \/ /\ old.status = "CONFIRMED" /\ new.status = "REVERSED"
               /\ new.amount = old.amount
<1>1. TypeInv /\ LockInv /\ [Next]_vars => Follows
  <2> SUFFICES ASSUME TypeInv, LockInv, [Next]_vars, NEW t \in Txn, NEW i \in Invoice
               PROVE  \/ db'[AllocationRow(t, i)] = db[AllocationRow(t, i)]
                      \/ Advances(db[AllocationRow(t, i)], db'[AllocationRow(t, i)])
    BY DEF Advances
  <2>1. CASE db' = db
    BY <2>1
  <2>2. ASSUME NEW s \in Session, CommitRequest(s)
        PROVE  \/ db'[AllocationRow(t, i)] = db[AllocationRow(t, i)]
               \/ Advances(db[AllocationRow(t, i)], db'[AllocationRow(t, i)])
    <3>1. AllocationRow(t, i) \in Row
      BY RowTypes
    <3>2. \/ db'[AllocationRow(t, i)] = db[AllocationRow(t, i)]
          \/ /\ AllocationRow(t, i) \in DOMAIN work[s]
             /\ db'[AllocationRow(t, i)] = work[s][AllocationRow(t, i)]
      BY <2>2, <3>1, EndEffect DEF CommitRequest, TypeInv, TypeOK
    <3>3. QED
      BY <3>2 DEF LockInv, AllocationWritten
  <2>3. QED
    BY <2>1, <2>2, OnlyCommitsChange
<1>2. QED
  BY <1>1, TypeInvariant, LockInvariant, PTL DEF Spec, AllocationLifecycle

\* A session that has written w has taken its amount off invoice i and inserted
\* the allocation of transaction t to it.
Covered(w, t, i) ==
  /\ InvoiceRow(i) \in DOMAIN w
  /\ AllocationRow(t, i) \in DOMAIN w
  /\ w[AllocationRow(t, i)].status = "CONFIRMED"

\* The cases a confirmation has still to visit, and those it has made PAID.
PayingInv ==
  \A s \in Session :
    /\ \A i \in unsettled[s] : pc[s] \in {"allocate", "mark", "settle"} /\ Covered(work[s], req[s].txn, i)
    /\ \A i \in Invoice :
         CaseRow(i) \in DOMAIN work[s] /\ work[s][CaseRow(i)] = "PAID" =>
           /\ pc[s] \in {"settle", "commit"} /\ req[s].kind = "confirm"
           /\ Covered(work[s], req[s].txn, i) /\ work[s][InvoiceRow(i)].outstanding = 0

\* A session that has neither visited nor made PAID anything, and stays so.
LEMMA PayingKept ==
  ASSUME TypeInv, PayingInv, NEW s \in Session,
         \A o \in Session \ {s} :
           /\ work'[o] = work[o] /\ pc'[o] = pc[o] /\ req'[o] = req[o]
           /\ unsettled'[o] = unsettled[o],
         unsettled'[s] = {},
         \A i \in Invoice : CaseRow(i) \in DOMAIN work'[s] => work'[s][CaseRow(i)] # "PAID"
  PROVE  PayingInv'
BY DEF PayingInv, InvoiceRow, CaseRow

\* Every action keeps what the payments in progress rest on.
LEMMA PayingStep == TypeInv /\ PayingInv /\ [Next]_vars => PayingInv'
<1> SUFFICES ASSUME TypeInv, PayingInv, [Next]_vars PROVE PayingInv'
  OBVIOUS
<1>a. StoreTyped /\ ControlTyped
  BY DEF TypeInv, TypeOK
<1>0. CASE UNCHANGED vars
  BY <1>0 DEF PayingInv, vars, InvoiceRow, CaseRow
<1>1. ASSUME NEW s \in Session, Begin(s)
      PROVE  PayingInv'
  <2>1. /\ pc[s] = "idle" /\ UNCHANGED <<work, unsettled>>
        /\ \A o \in Session \ {s} : pc'[o] = pc[o] /\ req'[o] = req[o]
    BY <1>1, <1>a DEF Begin, GoTo, ControlTyped
  <2>2. unsettled[s] = {}
    BY <2>1 DEF PayingInv
  <2>3. \A i \in Invoice : CaseRow(i) \in DOMAIN work[s] => work[s][CaseRow(i)] # "PAID"
    BY <2>1 DEF PayingInv
  <2>4. QED
    BY <2>1, <2>2, <2>3, PayingKept
<1>2. ASSUME NEW s \in Session, Commit(s) \/ Rollback(s), Answer(s)
      PROVE  PayingInv'
  <2>1. \A o \in Session : /\ work'[o] = IF o = s THEN Nothing ELSE work[o]
                           /\ pc'[o] = IF o = s THEN "idle" ELSE pc[o]
                           /\ req'[o] = IF o = s THEN NoBody ELSE req[o]
                           /\ unsettled'[o] = IF o = s THEN {} ELSE unsettled[o]
    BY <1>2, <1>a, EndEffect, AnswerEffect
  <2>2. DOMAIN Nothing = {}
    BY DEF Nothing
  <2>3. QED
    BY <2>1, <2>2, PayingKept
<1>3. ASSUME NEW s \in Session, ConfirmAllocate(s)
      PROVE  PayingInv'
  <2> DEFINE x == Item(s)
             row == InvoiceRow(x.invoice)
             allocation == AllocationRow(req[s].txn, x.invoice)
             confirmed == [status |-> "CONFIRMED", amount |-> x.amount]
             new == Over(Write(row, [Seen(s, row) EXCEPT !.outstanding = @ - x.amount]),
                         Write(allocation, confirmed))
  <2>1. CASE Fail(s)
    BY <1>2, <2>1 DEF Fail
  <2>2. CASE /\ Statement(s, {row, allocation}, new)
             /\ GoTo(s, IF item[s] = Len(req[s].items) THEN "mark" ELSE "allocate")
             /\ unsettled' = [unsettled EXCEPT ![s] = @ \cup {x.invoice}]
             /\ UNCHANGED <<req, loaded>>
    <3>1. row # allocation
      BY RowsDiffer
    <3>2. DOMAIN new = {row, allocation} /\ new[allocation] = confirmed
      BY <3>1 DEF Over, Write
    <3>3. pc[s] = "allocate"
      BY <1>3 DEF ConfirmAllocate
    <3>4. /\ work'[s] = Over(new, work[s])
          /\ \A o \in Session \ {s} : work'[o] = work[o]
      <4> HIDE DEF new, row, allocation
      <4> QED
        BY <1>a, <2>2 DEF StoreTyped, Statement
    <3>5. DOMAIN work'[s] = {row, allocation} \cup DOMAIN work[s]
      <4> HIDE DEF new, row, allocation
      <4> QED
        BY <3>2, <3>4 DEF Over
    <3>6. /\ work'[s][allocation] = confirmed
          /\ \A r \in DOMAIN work[s] \ {row, allocation} : work'[s][r] = work[s][r]
      <4> HIDE DEF new, row, allocation, confirmed
      <4> QED
        BY <3>2, <3>4 DEF Over
    <3>7. /\ \A o \in Session \ {s} : pc'[o] = pc[o] /\ unsettled'[o] = unsettled[o]
          /\ pc'[s] \in {"allocate", "mark"} /\ req' = req
          /\ unsettled'[s] = unsettled[s] \cup {x.invoice}
      BY <1>a, <2>2 DEF GoTo, ControlTyped
    <3>8. ASSUME NEW i \in unsettled'[s]
          PROVE  Covered(work'[s], req[s].txn, i)
      <4>1. CASE i = x.invoice
        BY <3>5, <3>6, <4>1 DEF Covered
      <4>2. CASE i # x.invoice
        <5>1. i \in unsettled[s] /\ Covered(work[s], req[s].txn, i)
          BY <3>7, <4>2 DEF PayingInv
        <5>2. AllocationRow(req[s].txn, i) \notin {row, allocation}
          BY <4>2, RowsDiffer
        <5>3. InvoiceRow(i) \in DOMAIN work'[s] /\ AllocationRow(req[s].txn, i) \in DOMAIN work[s]
          BY <3>5, <5>1 DEF Covered
        <5>4. work'[s][AllocationRow(req[s].txn, i)] = work[s][AllocationRow(req[s].txn, i)]
          BY <3>6, <5>2, <5>3
        <5>5. QED
          BY <3>5, <5>1, <5>3, <5>4 DEF Covered
      <4>3. QED
        BY <4>1, <4>2
    <3>9. ASSUME NEW i \in Invoice, CaseRow(i) \in DOMAIN work'[s]
          PROVE  work'[s][CaseRow(i)] # "PAID"
      <4>1. CaseRow(i) \notin {row, allocation}
        BY RowsDiffer
      <4>2. CaseRow(i) \in DOMAIN work[s] /\ work'[s][CaseRow(i)] = work[s][CaseRow(i)]
        BY <3>5, <3>6, <3>9, <4>1
      <4>3. QED
        BY <3>3, <4>2 DEF PayingInv
    <3>10. ASSUME NEW o \in Session \ {s}
           PROVE  /\ work'[o] = work[o] /\ req'[o] = req[o]
                  /\ pc'[o] = pc[o] /\ unsettled'[o] = unsettled[o]
      BY <3>4, <3>7
    <3> HIDE DEF new, row, allocation, confirmed, x
    <3>11. QED
      BY <3>7, <3>8, <3>9, <3>10 DEF PayingInv, CaseRow, InvoiceRow
  <2>3. QED
    BY <1>3, <2>1, <2>2 DEF ConfirmAllocate
<1>4. ASSUME NEW s \in Session, NEW rows, NEW new, NEW label,
             pc[s] \notin {"allocate", "mark", "settle", "commit"},
             Statement(s, rows, new),
             \A i \in Invoice : CaseRow(i) \in DOMAIN new => new[CaseRow(i)] # "PAID",
             GoTo(s, label), UNCHANGED <<req, unsettled>>
      PROVE  PayingInv'
  <2>1. /\ work'[s] = Over(new, work[s])
        /\ \A o \in Session \ {s} : work'[o] = work[o] /\ pc'[o] = pc[o]
    BY <1>4, <1>a DEF StoreTyped, ControlTyped, Statement, GoTo
  <2>2. unsettled[s] = {}
    BY <1>4 DEF PayingInv
  <2>3. ASSUME NEW i \in Invoice, CaseRow(i) \in DOMAIN work'[s]
        PROVE  work'[s][CaseRow(i)] # "PAID"
    <3>1. CASE CaseRow(i) \in DOMAIN new
      BY <1>4, <2>1, <3>1 DEF Over
    <3>2. CASE CaseRow(i) \notin DOMAIN new
      <4>1. CaseRow(i) \in DOMAIN work[s] /\ work'[s][CaseRow(i)] = work[s][CaseRow(i)]
        BY <2>1, <2>3, <3>2 DEF Over
      <4>2. QED
        BY <1>4, <4>1 DEF PayingInv
    <3>3. QED
      BY <3>1, <3>2
  <2>4. QED
    BY <1>4, <2>1, <2>2, <2>3, PayingKept
<1>5. ASSUME NEW s \in Session, ConfirmLockTransaction(s) \/ ReverseLockAllocation(s)
      PROVE  PayingInv'
  <2>1. DOMAIN Nothing = {}
    BY DEF Nothing
  <2>2. pc[s] \in {"lock_transaction", "lock_allocation"}
    BY <1>5 DEF ConfirmLockTransaction, ReverseLockAllocation
  <2>3. \/ Fail(s)
        \/ /\ UNCHANGED <<req, unsettled>>
           /\ \E rows, label : Statement(s, rows, Nothing) /\ GoTo(s, label)
    BY <1>5 DEF ConfirmLockTransaction, ReverseLockAllocation
  <2>4. QED
    BY <1>2, <1>4, <2>1, <2>2, <2>3 DEF Fail
<1>6. ASSUME NEW s \in Session, ConfirmMarkTransaction(s)
      PROVE  PayingInv'
  <2> DEFINE row == TxnRow(req[s].txn)
             new == Write(row, MarkOf(req[s]))
  <2>1. /\ pc[s] = "mark" /\ Statement(s, {row}, new) /\ GoTo(s, "settle")
        /\ UNCHANGED <<req, unsettled>>
    BY <1>6 DEF ConfirmMarkTransaction
  <2>2. DOMAIN new = {row}
    BY DEF Write
  <2> HIDE DEF new
  <2>3. /\ DOMAIN work'[s] = {row} \cup DOMAIN work[s]
        /\ \A r \in DOMAIN work[s] \ {row} : work'[s][r] = work[s][r]
        /\ \A o \in Session \ {s} : work'[o] = work[o] /\ pc'[o] = pc[o]
        /\ pc'[s] = "settle"
    <3>1. work'[s] = Over(new, work[s])
      BY <2>1, <1>a DEF StoreTyped, Statement
    <3>2. /\ \A o \in Session \ {s} : work'[o] = work[o] /\ pc'[o] = pc[o]
          /\ pc'[s] = "settle"
      BY <2>1, <1>a DEF StoreTyped, ControlTyped, Statement, GoTo
    <3>3. QED
      BY <2>2, <3>1, <3>2 DEF Over
  <2>4. ASSUME NEW i \in unsettled'[s]
        PROVE  Covered(work'[s], req[s].txn, i)
    <3>1. Covered(work[s], req[s].txn, i)
      BY <2>1, <2>4 DEF PayingInv
    <3>2. AllocationRow(req[s].txn, i) # row
      BY RowsDiffer
    <3>3. QED
      BY <2>3, <3>1, <3>2 DEF Covered
  <2>5. ASSUME NEW i \in Invoice, CaseRow(i) \in DOMAIN work'[s]
        PROVE  work'[s][CaseRow(i)] # "PAID"
    <3>1. CaseRow(i) # row
      BY RowsDiffer
    <3>2. QED
      BY <2>1, <2>3, <2>5, <3>1 DEF PayingInv
  <2>6. QED
    BY <2>1, <2>3, <2>4, <2>5 DEF PayingInv, CaseRow, InvoiceRow
<1>7. ASSUME NEW s \in Session, ConfirmSettleCase(s)
      PROVE  PayingInv'
  <2>1. PICK i \in unsettled[s] :
          /\ unsettled' = [unsettled EXCEPT ![s] = @ \ {i}]
          /\ \/ UNCHANGED store
             \/ /\ Settled(s, i)
                /\ Statement(s, {CaseRow(i)}, Write(CaseRow(i), "PAID"))
          /\ GoTo(s, IF unsettled[s] = {i} THEN "commit" ELSE "settle")
    BY <1>7 DEF ConfirmSettleCase
  <2>2. pc[s] = "settle" /\ req' = req
    BY <1>7 DEF ConfirmSettleCase
  <2>3. i \in Invoice /\ Covered(work[s], req[s].txn, i) /\ req[s].kind = "confirm"
    BY <1>a, <2>2 DEF ControlTyped, PayingInv, TypeInv, ControlFollowsRequest, ConfirmLabels
  <2>4. /\ unsettled'[s] = unsettled[s] \ {i}
        /\ pc'[s] = IF unsettled'[s] = {} THEN "commit" ELSE "settle"
        /\ \A o \in Session \ {s} : unsettled'[o] = unsettled[o] /\ pc'[o] = pc[o]
    BY <1>a, <2>1 DEF ControlTyped, GoTo
  <2>5. CASE UNCHANGED store
    BY <2>2, <2>3, <2>4, <2>5 DEF store, PayingInv, CaseRow, InvoiceRow
  <2>6. CASE Settled(s, i) /\ Statement(s, {CaseRow(i)}, Write(CaseRow(i), "PAID"))
    <3>1. work[s][InvoiceRow(i)].outstanding = 0
      BY <2>3, <2>6 DEF Settled, Seen, Covered
    <3>2. /\ work'[s] = Over(Write(CaseRow(i), "PAID"), work[s])
          /\ \A o \in Session \ {s} : work'[o] = work[o]
      BY <1>a, <2>6 DEF StoreTyped, Statement
    <3>3. /\ DOMAIN work'[s] = {CaseRow(i)} \cup DOMAIN work[s]
          /\ \A r \in DOMAIN work[s] \ {CaseRow(i)} : work'[s][r] = work[s][r]
      BY <3>2 DEF Over, Write
    <3>4. \A j : Covered(work[s], req[s].txn, j) =>
                   /\ Covered(work'[s], req[s].txn, j)
                   /\ work'[s][InvoiceRow(j)] = work[s][InvoiceRow(j)]
      BY <3>3, RowsDiffer DEF Covered
    <3>5. \A j \in unsettled'[s] : pc'[s] = "settle" /\ Covered(work'[s], req[s].txn, j)
      BY <2>4, <3>4 DEF PayingInv
    <3>6. ASSUME NEW j \in Invoice, CaseRow(j) \in DOMAIN work'[s],
                 work'[s][CaseRow(j)] = "PAID"
          PROVE  /\ Covered(work'[s], req[s].txn, j)
                 /\ work'[s][InvoiceRow(j)].outstanding = 0
      <4>1. CASE j = i
        BY <2>3, <3>1, <3>4, <4>1
      <4>2. CASE j # i
        <5>1. CaseRow(j) \in DOMAIN work[s] /\ work[s][CaseRow(j)] = "PAID"
          BY <3>3, <3>6, <4>2, RowsDiffer
        <5>2. QED
          BY <3>4, <5>1 DEF PayingInv
      <4>3. QED
        BY <4>1, <4>2
    <3>7. QED
      BY <2>2, <2>3, <2>4, <3>2, <3>5, <3>6 DEF PayingInv, CaseRow, InvoiceRow
  <2>7. QED
    BY <2>1, <2>5, <2>6
<1>8. ASSUME NEW s \in Session, ReverseGiveBack(s)
      PROVE  PayingInv'
  <2> DEFINE row == InvoiceRow(req[s].invoice)
             allocation == AllocationRow(req[s].txn, req[s].invoice)
             amount == Seen(s, allocation).amount
             new == Over(Write(row, [Seen(s, row) EXCEPT !.outstanding = @ + amount]),
                         Write(allocation, [status |-> "REVERSED", amount |-> amount]))
  <2>1. CASE Fail(s)
    BY <1>2, <2>1 DEF Fail
  <2>2. CASE /\ Statement(s, {row, allocation}, new) /\ GoTo(s, "unmatch")
             /\ UNCHANGED <<req, item, unsettled, loaded>>
    <3>1. pc[s] = "give_back"
      BY <1>8 DEF ReverseGiveBack
    <3>2. DOMAIN new = {row, allocation}
      BY DEF Over, Write
    <3>3. \A i \in Invoice : CaseRow(i) \notin {row, allocation}
      BY RowsDiffer
    <3> HIDE DEF new, row, allocation
    <3>4. QED
      BY <1>4, <2>2, <3>1, <3>2, <3>3
  <2>3. QED
    BY <1>8, <2>1, <2>2 DEF ReverseGiveBack
<1>9. ASSUME NEW s \in Session, ReverseUnmatchTransaction(s)
      PROVE  PayingInv'
  <2> DEFINE row == TxnRow(req[s].txn)
  <2>1. /\ pc[s] = "unmatch" /\ Statement(s, {row}, Write(row, "REVERSED"))
        /\ GoTo(s, "reopen") /\ UNCHANGED <<req, unsettled>>
    BY <1>9 DEF ReverseUnmatchTransaction
  <2>2. DOMAIN Write(row, "REVERSED") = {row}
    BY DEF Write
  <2>3. \A i \in Invoice : CaseRow(i) # row
    BY RowsDiffer
  <2> HIDE DEF row
  <2>4. QED
    BY <1>4, <2>1, <2>2, <2>3
<1>10. ASSUME NEW s \in Session, ReverseReopenCase(s)
       PROVE  PayingInv'
  <2> DEFINE row == CaseRow(req[s].invoice)
             new == Write(row, Reopened(Seen(s, row)))
  <2>1. /\ pc[s] = "reopen" /\ Statement(s, {row}, new)
        /\ GoTo(s, "commit") /\ UNCHANGED <<req, unsettled>>
    BY <1>10 DEF ReverseReopenCase
  <2>2. DOMAIN new = {row} /\ new[row] # "PAID"
    BY DEF Write, Reopened
  <2> HIDE DEF new, row
  <2>3. QED
    BY <1>4, <2>1, <2>2
<1>11. ASSUME NEW s \in Session, ReimportSelect(s) \/ ReimportUpdate(s)
       PROVE  PayingInv'
  <2>1. CASE Fail(s)
    BY <1>2, <2>1 DEF Fail
  <2>2. CASE ~Fail(s)
    <3> DEFINE row == InvoiceRow(FileRowOf(s).invoice)
               new == Write(row, Overwritten(Seen(s, row), loaded[s], FileRowOf(s)))
    <3>1. /\ pc[s] \in {"select_row", "update_row"} /\ UNCHANGED <<req, unsettled>>
          /\ \E label : GoTo(s, label)
          /\ UNCHANGED store \/ Statement(s, {row}, new)
      BY <1>11, <2>2 DEF ReimportSelect, ReimportUpdate, NextRow, store
    <3>2. CASE Statement(s, {row}, new)
      <4>1. DOMAIN new = {row}
        BY DEF Write
      <4>2. \A i \in Invoice : CaseRow(i) # row
        BY RowsDiffer
      <4> HIDE DEF new, row
      <4>3. QED
        BY <1>4, <3>1, <3>2, <4>1, <4>2
    <3>3. CASE UNCHANGED store
      <4>1. \A o \in Session \ {s} : pc'[o] = pc[o]
        BY <1>a, <3>1 DEF GoTo, ControlTyped
      <4>2. /\ unsettled[s] = {}
            /\ \A i \in Invoice :
                 CaseRow(i) \in DOMAIN work[s] => work[s][CaseRow(i)] # "PAID"
        BY <3>1 DEF PayingInv
      <4>3. QED
        BY <3>1, <3>3, <4>1, <4>2, PayingKept DEF store
    <3>4. QED
      BY <3>1, <3>2, <3>3
  <2>3. QED
    BY <2>1, <2>2
<1>12. ASSUME NEW s \in Session, CommitRequest(s) \/ DeadlockVictim(s) \/ Crash(s)
       PROVE  PayingInv'
  BY <1>2, <1>12 DEF CommitRequest, DeadlockVictim, Crash, Fail
<1>13. QED
  BY <1>0, <1>1, <1>3, <1>5, <1>6, <1>7, <1>8, <1>9, <1>10, <1>11, <1>12 DEF Next, Step

\* So it holds in every reachable state.
LEMMA PayingInvariant == Spec => []PayingInv
<1>1. Init => PayingInv
  BY DEF Init, PayingInv, Nothing
<1>2. QED
  BY <1>1, TypeInvariant, PayingStep, PTL DEF Spec

\* Whatever overlaps with it, a case becomes PAID only in the commit that
\* leaves its invoice with nothing outstanding and confirms an allocation to it
\* (reconciliation.py lines 94-108).
THEOREM CasesPaidOnlyWhenSettled == Spec => PaidOnlyWhenSettled
<1> DEFINE Pays ==
      \A i \in Invoice :
        db'[CaseRow(i)] = "PAID" /\ db[CaseRow(i)] # "PAID" =>
          /\ db'[InvoiceRow(i)].outstanding = 0
          /\ \E t \in Txn : db'[AllocationRow(t, i)].status = "CONFIRMED"
<1>1. TypeInv /\ PayingInv /\ [Next]_vars => Pays
  <2> SUFFICES ASSUME TypeInv, PayingInv, [Next]_vars, NEW i \in Invoice,
                      db'[CaseRow(i)] = "PAID", db[CaseRow(i)] # "PAID"
               PROVE  /\ db'[InvoiceRow(i)].outstanding = 0
                      /\ \E t \in Txn : db'[AllocationRow(t, i)].status = "CONFIRMED"
    OBVIOUS
  <2>1. PICK s \in Session : CommitRequest(s)
    BY OnlyCommitsChange
  <2>2. \A row \in Row : db'[row] = IF row \in DOMAIN work[s] THEN work[s][row] ELSE db[row]
    BY <2>1 DEF CommitRequest, Commit, Over, TypeInv, TypeOK, StoreTyped
  <2>3. CaseRow(i) \in DOMAIN work[s] /\ work[s][CaseRow(i)] = "PAID"
    BY <2>2, RowTypes
  <2>4. /\ req[s].kind = "confirm" /\ Covered(work[s], req[s].txn, i)
        /\ work[s][InvoiceRow(i)].outstanding = 0
    BY <2>3 DEF PayingInv
  <2>5. req[s].txn \in Txn
    BY <2>1, <2>4, RequestTypes DEF CommitRequest, TypeInv, ControlFollowsRequest
  <2>6. QED
    BY <2>2, <2>4, <2>5, RowTypes DEF Covered
<1>2. QED
  BY <1>1, TypeInvariant, PayingInvariant, PTL DEF Spec, PaidOnlyWhenSettled
=============================================================================
