SPECIFICATION BucketSpec
CONSTANTS
  Handlers = {h1, h2}
  Rate = 2
  BucketCapacity = 3
  Hz = 3
  Slack = 1
  MaxTime = 11
INVARIANTS
  GrantsBounded
PROPERTIES
  RetryAfterSuffices
