---------------------------- MODULE MCAdmission ----------------------------
(* The gates that admit work: the two backends of the domain capacity, the *)
(* adaptive gate of the worker pool, the life cycle of that pool and the   *)
(* admission of HTTP requests.  They share no state: "focus" is the one    *)
(* that runs, and the others stay in their initial states.                 *)
EXTENDS AdaptiveConcurrency, DomainCapacity, RedisDomainCapacity, RequestCapacity,
        PoolLifecycle, TLC

VARIABLE focus

allVars == <<focus, vars, memoryVars, redisVars, requestVars, poolVars>>

AdmissionInit ==
  /\ focus \in {"adaptive", "memory", "redis", "request", "pool"}
  /\ IF focus = "adaptive" THEN Init
     ELSE Init /\ limit = Minimum
  /\ MemoryInit /\ RedisInit /\ RequestInit /\ LifecycleInit

AdmissionNext ==
  /\ UNCHANGED focus
  /\ \/ focus = "adaptive" /\ Next /\ UNCHANGED <<memoryVars, redisVars, requestVars, poolVars>>
     \/ focus = "memory" /\ MemoryNext /\ UNCHANGED <<vars, redisVars, requestVars, poolVars>>
     \/ focus = "redis" /\ RedisNext /\ UNCHANGED <<vars, memoryVars, requestVars, poolVars>>
     \/ focus = "request" /\ RequestNext /\ UNCHANGED <<vars, memoryVars, redisVars, poolVars>>
     \/ focus = "pool" /\ LifecycleNext /\ UNCHANGED <<vars, memoryVars, redisVars, requestVars>>

\* Tasks of one event loop that can go on do go on, and run_once returns; the
\* clock goes on; a wait with a timeout ends, and a cancelled task as well.
AdmissionFairness ==
  /\ \A w \in Workers :
       /\ WF_vars(focus = "adaptive" /\ Acquire(w))
       /\ WF_vars(focus = "adaptive" /\ Wake(w))
       /\ WF_vars(focus = "adaptive" /\ \E l \in Latencies : Observe(w, l))
       /\ WF_vars(/\ focus = "adaptive"
                  /\ ReleaseUnrecorded(w) \/ \E o \in Outcomes : ReleaseRecorded(w, o))
  /\ WF_requestVars(focus = "request" /\ RequestTick)
  /\ \A c \in Callers : /\ WF_poolVars(focus = "pool" /\ StopCancel(c))
                        /\ WF_poolVars(focus = "pool" /\ StopClear(c))
  /\ \A g \in Generations, l \in Loops : WF_poolVars(focus = "pool" /\ LoopCancelled(g, l))

AdmissionSpec == AdmissionInit /\ [][AdmissionNext]_allVars /\ AdmissionFairness

MCDomainOf == (1 :> "oss") @@ (2 :> "oss") @@ (3 :> "billing") @@ (4 :> "noc")
MCDomainLimit == [d \in {"oss", "billing", "noc"} |-> IF d = "oss" THEN 1 ELSE 2]

\* Two requests of one actor, which do not fit its limit together, and one without an
\* actor, which fits the global limit with the lighter of them only.
MCWeightOf == [q \in {1, 2, 3} |-> IF q = 1 THEN 1 ELSE 2]
MCActorOf == [q \in {1, 2, 3} |-> IF q = 3 THEN NoActor ELSE "a"]
=============================================================================
