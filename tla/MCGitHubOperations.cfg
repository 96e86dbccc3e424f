SPECIFICATION Spec
CONSTANTS
  Handler = {h1}
  Requests <- AllRequests
  Number = {1}
  Label = {"bug", "bug,bug"}
  User = {"ann"}
  Sha = {"s1", "s2"}
  Bytes <- MCBytes
  Join <- MCJoin
  Digest <- MCDigest
  MaxPosts = 1
INVARIANTS TypeOK ApprovedExactly WholeAnswers
PROPERTIES ChangesAreStated UndisturbedEditIsExact MergesApprovedHead
