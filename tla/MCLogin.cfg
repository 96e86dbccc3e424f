SPECIFICATION Spec
CONSTANTS
  b1 = b1
  b2 = b2
  h1 = h1
  h2 = h2
  Browser = {b1, b2}
  Handler = {h1, h2}
  Asked <- MCAsked
  LocalPath = {"/", "/approve"}
  Account = {"ann", "bo"}
  Emails <- MCEmails
  Lower <- MCLower
  Unfit = {"b|o"}
  StateTTL = 1
  SessionTTL = 1
  MaxTime = 2
  MaxCodes = 2
  MaxCallbacks = 2
  MaxRestarts = 1
SYMMETRY Symmetry
INVARIANTS
  TypeOK
  SessionIsProved
  CompletesOwnLogin
  SoleLoginSucceeds
PROPERTY KeepsPromise
