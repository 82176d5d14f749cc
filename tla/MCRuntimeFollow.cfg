SPECIFICATION FairSpec
CONSTANTS
  c1 = c1  c2 = c2
  Containers = {c1, c2}
  First = c1
  Streams = {s1, s2, s3}
  s1 = s1  s2 = s2  s3 = s3
  Tail200 = 2
  Sec = 2
  MaxLines = 3
  MaxRare = 2
CHECK_DEADLOCK FALSE
INVARIANTS FollowInv
PROPERTIES CatchesUp
