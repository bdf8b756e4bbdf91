--------------------------- MODULE MCRelayPostgres ---------------------------
(* Small instances of RelayPostgres for TLC.                                *)
EXTENDS RelayPostgres, TLC

CONSTANTS p1, p2

TwoTasks == {1, 2}
OneTask == {1}
SameLimits == [x \in {p1, p2} |-> 2]
RollingLimits == (p1 :> 1) @@ (p2 :> 2)
=============================================================================
