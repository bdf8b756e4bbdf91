-------------------------- MODULE DeliveryContract --------------------------
(***************************************************************************)
(* What the relay promises about one task, whatever the tables, leases,    *)
(* clocks and recoveries behind it (SPEC.md:179-192): a task is given to   *)
(* one holder at a time, a bounded number of times; it gets at most one    *)
(* result; the result is the report of the holder of that moment, or says  *)
(* that the deliveries are used up.  One step may move several tasks, as a *)
(* recovery pass does.                                                     *)
(***************************************************************************)
EXTENDS Integers

CONSTANTS TaskId, Payload, MaxAttempts, NULL

VARIABLE delivery   \* for each task: who holds it, how often it was given out,
                    \* its result

NoHolder == NULL
State(h, d, r) == [holder |-> h, deliveries |-> d, result |-> r]
Fresh == State(NoHolder, 0, NULL)
Exhausted == [by |-> NULL, status |-> "failed", value |-> "attempts_exhausted"]

Init == delivery = [t \in TaskId |-> Fresh]

(* A first or another delivery, also directly after the holder lost it.    *)
Deliver(t, old, new) ==
  /\ old.result = NULL /\ new.result = NULL
  /\ new.deliveries = old.deliveries + 1
  /\ \E m \in MaxAttempts : new.deliveries <= m
  /\ new.holder = <<t, new.deliveries>>

(* The holder loses the task, or it is given up after its last delivery.   *)
Lapse(old, new) ==
  /\ old.holder # NoHolder
  /\ new = State(NoHolder, old.deliveries, old.result)

GiveUp(old, new) ==
  /\ old.result = NULL /\ old.deliveries > 0
  /\ new = State(NoHolder, old.deliveries, Exhausted)

(* The holder, and nobody else, reports a result.                          *)
Report(old, new) ==
  /\ old.result = NULL /\ old.holder # NoHolder
  /\ \E s \in {"completed", "failed"}, v \in Payload :
       new = State(NoHolder, old.deliveries,
                   [by |-> old.holder, status |-> s, value |-> v])

Move(t, old, new) ==
  \/ new = old
  \/ Deliver(t, old, new)
  \/ Lapse(old, new)
  \/ GiveUp(old, new)
  \/ Report(old, new)

Next ==
  /\ delivery' = [t \in TaskId |-> delivery'[t]]
  /\ \A t \in TaskId : Move(t, delivery[t], delivery'[t])

Spec == Init /\ [][Next]_delivery
=============================================================================
