-------------------------- MODULE MCRedisIdWorker --------------------------
EXTENDS RedisIdWorker, Bitwise, TLC

MCBitOr(a, b) == a | b
Symmetry == Permutations(Calls) \cup Permutations(Instances)
=============================================================================
