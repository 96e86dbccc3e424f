SPECIFICATION FairSpec
CONSTANTS
  t1 = t1
  t2 = t2
  p1 = p1
  p2 = p2
  a1 = a1
  a2 = a2
  nobody = nobody
  good = good
  broken = broken
  forged = forged
  h1 = h1
  h2 = h2
  Token = {t1}
  ProposalId = {p1}
  Approver = {a1}
  Item = {good}
  RequestTTL = 1
  GrantTTL = {1}
  MaxTime = 1
  Handler = {h1, h2}
  Genuine = {good}
  Unparsable = {}
  Spelling = {"", "Ann"}
  Lower <- OneLower
  NoOne = nobody
  Ops = {"create", "destroy", "inspect", "mine", "revoke", "verify", "activity", "propose", "decide"}

INVARIANT ActivityIsCoherent
PROPERTY EveryRequestAnswered
