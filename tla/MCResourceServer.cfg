\* One request at a time (requests share nothing in the resource server), two
\* proposals to be granted, revoked and to run out while it is under way.
CONSTANTS
  Token = {t1}
  ProposalId = {p1, p2}
  fetch = fetch
  push = push
  repo = repo
  p1 = p1
  p2 = p2
  Item = {fetch, push}
  Writes = {push}
  Repo = {repo}
  RepoOf <- OneRepo
  RequestTTL = 1
  GrantTTL = {1}
  Handler = {h1}
  NoToken = none
  MaxTime = 1
  MaxCalls = 2
SPECIFICATION FairSpec
INVARIANTS TypeOK NothingWithoutAuthority DeniedMeansUncovered PublicNeverBlocked
PROPERTY EveryRequestEnds
