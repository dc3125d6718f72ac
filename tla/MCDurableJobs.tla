--------------------------- MODULE MCDurableJobs ---------------------------
(* A small instance of the reference job store.                            *)
EXTENDS DurableJobs, TLC

\* Two keys; one job with a deadline and two attempts, one urgent job with a
\* single attempt in another domain, and a third submission that reuses the
\* first key with another spec (always a conflict once that key is taken).
SpecA == [key |-> "k1", domain |-> "oss", priority |-> 20, maxAttempts |-> 2,
          initialBackoff |-> 1, maxBackoff |-> 1, deadline |-> 2]
SpecB == [key |-> "k2", domain |-> "billing", priority |-> 0,
          maxAttempts |-> 1, initialBackoff |-> 0, maxBackoff |-> 0,
          deadline |-> NoDeadline]
SpecC == [SpecA EXCEPT !.deadline = NoDeadline]

MCSpecs == {SpecA, SpecB, SpecC}
MCDomainFilters == {{"oss", "billing"}, {"oss"}}

WorkerSymmetry == Permutations(Workers)
=============================================================================
