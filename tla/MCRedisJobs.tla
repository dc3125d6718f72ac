---------------------------- MODULE MCRedisJobs ----------------------------
(* Small instances of the Redis job store.                                 *)
EXTENDS RedisJobs, TLC

\* A job with a deadline and two attempts.
SpecA == [key |-> "k1", domain |-> "oss", priority |-> 20, maxAttempts |-> 2,
          initialBackoff |-> 0, maxBackoff |-> 0, deadline |-> 2]

OneSpec == {SpecA}
MCDomainFilters == {{"oss", "billing"}}

WorkerSymmetry == Permutations(Workers)
=============================================================================
