SPECIFICATION Spec
CONSTANTS
  p = p
  q = q
  jan = jan
  feb = feb
  Messages = {p, q}
  Held = {p}
  Buckets = {jan, feb}
  BucketsOf <- MCBucketsOf
  Matches = {p}
  Similar = {q}
  Searchers = {s}
  Concurrency = 2
  MaxBuckets = 2
  Limits = {1, 2}
  Budget = 2
  MaxSweeps = 1
INVARIANTS ColdTypeOK CacheIsAccounted SilenceMeansComplete StreamAddsUp
CHECK_DEADLOCK FALSE
