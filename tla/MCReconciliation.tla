-------------------------- MODULE MCReconciliation --------------------------
(***************************************************************************)
(* Small instances of Reconciliation for TLC: two credits and a refund,    *)
(* two invoices, one of them imported half paid.  The amounts are such     *)
(* that a transaction can cover both invoices, one of them, or neither.    *)
(***************************************************************************)
EXTENDS Reconciliation, TLC

CONSTANTS t1, t2, t3, i1, i2

MCTxnAmount == t1 :> 3 @@ t2 :> 2 @@ t3 :> 1
MCTxnType == t1 :> "CREDIT" @@ t2 :> "CREDIT" @@ t3 :> "REFUND"
MCOpening == i1 :> [amount |-> 2, outstanding |-> 2]
               @@ i2 :> [amount |-> 2, outstanding |-> 1]

Of(i, n) == [invoice |-> i, amount |-> n]
ConfirmRequest(t, items) == [kind |-> "confirm", txn |-> t, items |-> items]
ReverseRequest(t, i) == [kind |-> "reverse", txn |-> t, invoice |-> i]
File(rows) == [kind |-> "reimport", rows |-> rows]
FileLine(i, a, o) == [invoice |-> i, amount |-> a, outstanding |-> o]

\* Confirmations that name the invoices in both orders, overlap on a
\* transaction and on an invoice, exceed a transaction or use a refund; every
\* reversal; ill-formed confirmations.
PaymentBodies ==
  { ConfirmRequest(t1, <<Of(i1, 2), Of(i2, 1)>>),
    ConfirmRequest(t1, <<Of(i1, 2)>>),
    ConfirmRequest(t1, <<Of(i2, 1)>>),
    ConfirmRequest(t2, <<Of(i2, 1), Of(i1, 1)>>),
    ConfirmRequest(t2, <<Of(i1, 2), Of(i2, 1)>>),
    ConfirmRequest(t2, <<Of(i1, 1), Of(i1, 1)>>),
    ConfirmRequest(t3, <<Of(i2, 1)>>),
    ConfirmRequest(t1, <<>>) }
    \cup {ReverseRequest(t, i) : t \in {t1, t2}, i \in {i1, i2}}

\* Files that restore the imported state, lower or raise an invoice, declare one
\* settled, and name the invoices in an order of their own.
FileBodies ==
  { File(<<FileLine(i1, 2, 2)>>), File(<<FileLine(i1, 1, 1)>>),
    File(<<FileLine(i2, 2, 2), FileLine(i1, 2, 0)>>) }

MixedBodies ==
  { ConfirmRequest(t1, <<Of(i1, 2), Of(i2, 1)>>),
    ConfirmRequest(t2, <<Of(i1, 2)>>),
    ConfirmRequest(t2, <<Of(i2, 1)>>),
    ConfirmRequest(t3, <<Of(i2, 1)>>),
    ReverseRequest(t1, i1), ReverseRequest(t2, i1) } \cup FileBodies
=============================================================================
