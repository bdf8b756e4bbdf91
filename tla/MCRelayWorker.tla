---------------------------- MODULE MCRelayWorker ----------------------------
(* A small instance of RelayWorker and AgentRelay for TLC: one agent, and    *)
(* two ways the relay is used.  In the first, anybody sends it any request   *)
(* about two tasks; in the second only the workers of the agent do, over     *)
(* their network, about one task without a key, and restarts leave the       *)
(* length of a lease alone.                                                 *)
EXTENDS RelayWorker

CONSTANTS a, in, v

VARIABLE open      \* whether anybody may send anything

TwoTasks == {1, 2}
Leases == {1, 2}
Limits == {1, 2}
Shared == [w \in Worker |-> a]
Uppercase == [x \in {in} |-> v]

MCInit == WInit /\ open \in BOOLEAN

Anybody == open /\ Next /\ UNCHANGED <<wvars, open>>

Workers ==
  /\ ~open
  /\ WNext
  /\ task'[2].status = "absent" /\ task'[1].key = NoKey
  /\ UNCHANGED <<lease_seconds, open>>

MCNext == Anybody \/ Workers

MCFairSpec == MCInit /\ [][MCNext]_<<allvars, open>> /\ Fairness
=============================================================================
