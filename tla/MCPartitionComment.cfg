CONSTANTS
  NumSamples = 5
  NumShards = 3
SPECIFICATION ShardsSpec
INVARIANTS
  SamePartitionAsLocal
\* every process has loaded its part
CHECK_DEADLOCK FALSE
