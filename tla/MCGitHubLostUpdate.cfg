SPECIFICATION Spec
CONSTANTS
  Handler = {h1, h2}
  Requests <- OneEdit
  Number = {1}
  Label = {"bug", "ui"}
  User = {}
  Sha = {"s1"}
  Bytes <- MCBytes
  Join <- MCJoin
  Digest <- MCDigest
  MaxPosts = 0
PROPERTIES AppliedToCurrentValues
