------------------------------- MODULE Ledger -------------------------------
(***************************************************************************)
(* What reconciliation promises: confirming, reversing and re-importing    *)
(* each happen at one instant, no transaction is spent twice, no invoice   *)
(* gets more than it is owed, and a case is PAID by the confirmation that  *)
(* leaves nothing outstanding.  Reconciliation implements this with        *)
(* statements, locks and deadlock victims.                                 *)
(***************************************************************************)
EXTENDS Integers, Functions

CONSTANTS Txn, Invoice, TxnAmount, TxnType, Opening

VARIABLES
  invoice,      \* invoice[i]: amount and outstanding
  allocation,   \* allocation[t][i]: status and amount
  txnStatus, caseStatus

vars == <<invoice, allocation, txnStatus, caseStatus>>

Init ==
  /\ invoice = Opening
  /\ allocation = [t \in Txn |-> [i \in Invoice |-> [status |-> "NONE", amount |-> 0]]]
  /\ txnStatus = [t \in Txn |-> "UNMATCHED"]
  /\ caseStatus = [i \in Invoice |-> "IMPORTED"]

Spent(row) ==
  SumFunction([i \in Invoice |->
                 IF row[i].status = "CONFIRMED" THEN row[i].amount ELSE 0])

\* Transaction t pays paid[i] of each invoice i in the domain of paid.
Confirm(t, paid) ==
  LET left(i) == invoice[i].outstanding - paid[i]
      total == Spent(allocation[t]) + SumFunction(paid)
  IN
  /\ TxnType[t] = "CREDIT"
  /\ total <= TxnAmount[t]
  /\ \A i \in DOMAIN paid : allocation[t][i].status = "NONE" /\ left(i) >= 0
  /\ invoice' = [i \in Invoice |->
       IF i \in DOMAIN paid THEN [invoice[i] EXCEPT !.outstanding = left(i)]
       ELSE invoice[i]]
  /\ allocation' = [allocation EXCEPT ![t] = [i \in Invoice |->
       IF i \in DOMAIN paid THEN [status |-> "CONFIRMED", amount |-> paid[i]]
       ELSE @[i]]]
  /\ txnStatus' = [txnStatus EXCEPT ![t] =
       IF total = TxnAmount[t] THEN "MATCHED" ELSE "PARTIALLY_MATCHED"]
  /\ caseStatus' = [i \in Invoice |->
       IF i \in DOMAIN paid /\ left(i) = 0 THEN "PAID" ELSE caseStatus[i]]

Reverse(t, i) ==
  LET back == invoice[i].outstanding + allocation[t][i].amount IN
  /\ allocation[t][i].status = "CONFIRMED"
  /\ back <= invoice[i].amount
  /\ invoice' = [invoice EXCEPT ![i].outstanding = back]
  /\ allocation' = [allocation EXCEPT ![t][i].status = "REVERSED"]
  /\ txnStatus' = [txnStatus EXCEPT ![t] = "REVERSED"]
  /\ caseStatus' = [caseStatus EXCEPT ![i] =
       IF @ = "PAID" THEN "PAYMENT_REVERSED" ELSE @]

\* A file may rewrite any invoices; nothing else follows from it.
Reimport ==
  /\ \A i \in Invoice : invoice'[i].outstanding \in 0..invoice'[i].amount
  /\ UNCHANGED <<allocation, txnStatus, caseStatus>>

\* What transaction t may pay: an amount to each of some invoices.
Payments(t) == UNION {[S -> 1..TxnAmount[t]] : S \in (SUBSET Invoice) \ {{}}}

Next ==
  \/ Reimport
  \/ \E t \in Txn, i \in Invoice : Reverse(t, i)
  \/ \E t \in Txn : \E paid \in Payments(t) : Confirm(t, paid)

Spec == Init /\ [][Next]_vars
=============================================================================
