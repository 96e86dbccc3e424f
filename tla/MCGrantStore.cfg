SPECIFICATION FairSpec
CONSTANTS
  t1 = t1
  t2 = t2
  p1 = p1
  p2 = p2
  a1 = a1
  i1 = i1
  i2 = i2
  Token = {t1, t2}
  ProposalId = {p1, p2}
  Approver = {a1}
  Item = {i1, i2}
  RequestTTL = 1
  GrantTTL = {1, 2}
  MaxTime = 2
INVARIANTS TypeOK GrantsAreBacked GrantedOnce
PROPERTIES DecisionsAreFinal RevokedForGood KeepsPromise NoProposalLingers NoGrantLingers
