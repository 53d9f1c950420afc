SPECIFICATION Spec
CONSTANTS
  Session = {s1, s2}
  t1 = t1
  t2 = t2
  t3 = t3
  i1 = i1
  i2 = i2
  Txn = {t1, t2, t3}
  Invoice = {i1, i2}
  TxnAmount <- MCTxnAmount
  TxnType <- MCTxnType
  Opening <- MCOpening
  Body <- MixedBodies
INVARIANT TypeOK
INVARIANT TransactionCovered
PROPERTY PaidOnlyWhenSettled
PROPERTY AllocationsConserved
PROPERTY AllocationLifecycle
PROPERTY ImplementsLedger
