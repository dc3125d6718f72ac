--------------------------- MODULE PoolLifecycle ---------------------------
(***************************************************************************)
(* start, stop and request_stop of DurableWorkerPool (execution/pool.py)   *)
(* as tasks of one event loop call them, and the loops that the pool runs. *)
(*                                                                         *)
(* The set _tasks is either empty or the loops of one call of start, its   *)
(* generation.  A loop looks at the stop flag when an iteration is over;   *)
(* an iteration may take for ever, until it is cancelled.                  *)
(***************************************************************************)
EXTENDS Integers

CONSTANTS Loops,      \* the worker loops and the recovery loop
          Callers,    \* tasks that call the pool
          MaxStarts   \* bound: calls of start that succeed

ASSUME PoolConfig == MaxStarts \in Nat \ {0}

VARIABLES stopSet,    \* _stop
          tasks,      \* the generation in _tasks, or 0
          started,    \* how many generations there were
          live,       \* the loops of each generation that have not ended
          cancelled,  \* generations whose pending tasks were cancelled
          stopping,   \* where each caller is in stop, and for which generation
          overlapped  \* history: a stop began while another was under way

poolVars == <<stopSet, tasks, started, live, cancelled, stopping, overlapped>>

Outside == [pc |-> "out", gen |-> 0]
Generations == 1..MaxStarts

LifecycleInit == /\ stopSet = FALSE /\ tasks = 0 /\ started = 0
                 /\ live = [g \in Generations |-> {}]
                 /\ cancelled = {} /\ overlapped = FALSE
                 /\ stopping = [c \in Callers |-> Outside]

\* start; it raises when there are tasks, ended ones included.
StartPool(c) == /\ stopping[c].pc = "out" /\ tasks = 0 /\ started < MaxStarts
                /\ stopSet' = FALSE
                /\ started' = started + 1 /\ tasks' = started + 1
                /\ live' = [live EXCEPT ![started + 1] = Loops]
                /\ UNCHANGED <<cancelled, stopping, overlapped>>

RequestStop == /\ ~stopSet /\ stopSet' = TRUE
               /\ UNCHANGED <<tasks, started, live, cancelled, stopping, overlapped>>

StopCall(c) == /\ stopping[c].pc = "out"
               /\ stopSet' = TRUE
               /\ IF tasks = 0 THEN UNCHANGED <<stopping, overlapped>>
                  ELSE /\ stopping' = [stopping EXCEPT ![c] = [pc |-> "waiting", gen |-> tasks]]
                       /\ overlapped' = (overlapped \/ \E d \in Callers : stopping[d].pc # "out")
               /\ UNCHANGED <<tasks, started, live, cancelled>>

BugStopCancel(c) == /\ stopping[c].pc = "waiting"
                    /\ stopping' = [stopping EXCEPT ![c].pc = "joining"]
                    /\ UNCHANGED <<stopSet, tasks, started, live, cancelled, overlapped>>

\* asyncio.wait is over, because all are done or after graceful_timeout_seconds.
StopCancel(c) == /\ stopping[c].pc = "waiting"
                 /\ stopping' = [stopping EXCEPT ![c].pc = "joining"]
                 /\ cancelled' = IF live[stopping[c].gen] = {} THEN cancelled
                                 ELSE cancelled \cup {stopping[c].gen}
                 /\ UNCHANGED <<stopSet, tasks, started, live, overlapped>>

BugStopClear(c) == /\ stopping[c].pc = "joining"
                   /\ tasks' = 0
                   /\ stopping' = [stopping EXCEPT ![c] = Outside]
                   /\ UNCHANGED <<stopSet, started, live, cancelled, overlapped>>

\* _tasks.clear(), of whatever _tasks is by then.
StopClear(c) == /\ stopping[c].pc = "joining" /\ live[stopping[c].gen] = {}
                /\ tasks' = 0
                /\ stopping' = [stopping EXCEPT ![c] = Outside]
                /\ UNCHANGED <<stopSet, started, live, cancelled, overlapped>>

\* The caller itself is cancelled while it waits.
StopInterrupted(c) == /\ stopping[c].pc = "waiting"
                      /\ stopping' = [stopping EXCEPT ![c] = Outside]
                      /\ UNCHANGED <<stopSet, tasks, started, live, cancelled, overlapped>>

Ends(g, l) == /\ l \in live[g]
              /\ live' = [live EXCEPT ![g] = @ \ {l}]
              /\ UNCHANGED <<stopSet, tasks, started, cancelled, stopping, overlapped>>

LoopExits(g, l) == stopSet /\ Ends(g, l)

LoopCancelled(g, l) == g \in cancelled /\ Ends(g, l)

\* A handler raises CancelledError of its own: the loop passes it on.
LoopDies(g, l) == Ends(g, l)

LifecycleNext ==
    \/ RequestStop
    \/ \E c \in Callers : \/ StartPool(c) \/ StopCall(c) \/ StopCancel(c)
                          \/ StopClear(c) \/ StopInterrupted(c)
    \/ \E g \in Generations, l \in Loops :
          LoopExits(g, l) \/ LoopCancelled(g, l) \/ LoopDies(g, l)

LifecycleSpec == LifecycleInit /\ [][LifecycleNext]_poolVars

-----------------------------------------------------------------------------
(* Properties *)

\* The pool never loses sight of a loop that runs: with its stops one at a
\* time, through interrupted stops, requests to stop and restarts, only loops
\* in _tasks are alive, so never two generations.
NoOrphanLoops == ~overlapped => \A g \in Generations : live[g] # {} => g = tasks

\* A stop ends, also of iterations that hang and when another stop or a restart
\* comes in between: it returns or its caller gives up.
StopReturns == \A c \in Callers : stopping[c].pc # "out" ~> stopping[c].pc = "out"
=============================================================================
