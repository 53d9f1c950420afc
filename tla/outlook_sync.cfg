SPECIFICATION Spec
CONSTANTS
  Session = {s1, s2}
  o1 = o1
  m1 = m1
  m2 = m2
  gone = gone
  Account = {o1}
  Message = {m1, m2}
  Deletion = gone
  Changes <- MCChanges
  PageSize = 2
INVARIANT TypeOK
INVARIANT CursorCovered
INVARIANT SyncsNeverDeadlock
PROPERTY SyncedMeansStored
