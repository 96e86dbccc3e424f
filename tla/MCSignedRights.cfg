SPECIFICATION Spec
CONSTANTS
  Numeral <- MCNumeral
  Like <- MCLike
  Garbled <- MCGarbled
  GrantRequests <- MCGrantRequests
  OperationRequests <- MCOperationRequests
  RestCalls <- MCRestCalls
  GitRequests <- MCGitRequests
  AtGitHub <- MCAtGitHub
  MaxGrants = 2
INVARIANTS
  TypeOK
  AllowedWasShown
  ShownIsAllowed
  JointIsEach
  FailsClosed
  SameAsOperation
