------------------------ MODULE MCOptimizedRedisJobs ------------------------
(* Small instances of the optimized Redis job store.                       *)
EXTENDS OptimizedRedisJobs

\* A job with a deadline, and one of the same priority and another domain without.
SpecA == [key |-> "k1", domain |-> "oss", priority |-> 20, maxAttempts |-> 2,
          initialBackoff |-> 0, maxBackoff |-> 0, deadline |-> 1]
SpecB == [key |-> "k2", domain |-> "billing", priority |-> 20, maxAttempts |-> 1,
          initialBackoff |-> 0, maxBackoff |-> 0, deadline |-> NoDeadline]

TwoSpecs == {SpecA, SpecB}
MCDomainFilters == {{"oss"}, {"oss", "billing"}}
=============================================================================
