SPECIFICATION Spec
CONSTANTS
  Session = {s1}
  a1 = a1
  a2 = a2
  c1 = c1
  x1 = x1
  x2 = x2
  k1 = k1
  b1 = b1
  b2 = b2
  Approval = {a1, a2}
  CaseOf <- MCCaseOf
  ContentOf <- MCContentOf
  Content = {x1, x2}
  DraftKey = {k1}
  BatchKey = {b1, b2}
  Body <- SingleBody
  MaxDrafts = 2
INVARIANT OneDraftPerKey
