SPECIFICATION Spec
CONSTANTS
  Handler = {h1}
  Requests <- CreateRequests
  Number = {1, 2}
  Label = {"ann"}
  User = {"ann"}
  Sha = {"s1"}
  Bytes <- MCBytes
  Join <- MCJoin
  Digest <- MCDigest
  MaxPosts = 0
INVARIANTS CreatesAsApproved
