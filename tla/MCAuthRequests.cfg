SPECIFICATION Spec
CONSTANTS
  t1 = t1
  t2 = t2
  p1 = p1
  p2 = p2
  a1 = a1
  a2 = a2
  nobody = nobody
  good = good
  broken = broken
  forged = forged
  h1 = h1
  h2 = h2
  Token = {t1, t2}
  ProposalId = {p1}
  Approver = {a1, a2}
  Item = {good, broken, forged}
  RequestTTL = 1
  GrantTTL = {1}
  MaxTime = 2
  Handler = {h1, h2}
  Genuine = {good, broken}
  Unparsable = {broken}
  Spelling = {"", "Ann"}
  Lower <- OneLower
  NoOne = nobody
  Ops = {"create", "destroy", "inspect", "mine", "revoke", "verify", "propose", "decide"}
SYMMETRY TokenSymmetry
INVARIANTS TypeOK AllowedMeansApproved RecordedIsGenuine OneDecisionTold
PROPERTIES OnlyAdminManagesSubjects UsesStore NamedApproverDecides
