-------------------------- MODULE MCRedisCapacity --------------------------
(* A small instance of the Redis capacity backend.                         *)
EXTENDS RedisDomainCapacity, TLC

MCDomainOf == (1 :> "oss") @@ (2 :> "oss") @@ (3 :> "billing") @@ (4 :> "noc")
MCDomainLimit == [d \in {"oss", "billing", "noc"} |-> IF d = "oss" THEN 1 ELSE 2]
=============================================================================
