------------------------ MODULE MCIncidentResponder ------------------------
(* Small instances of IncidentResponder for TLC: two alerts.                *)
EXTENDS IncidentResponder, TLC

CONSTANTS a, b

Firing(x) == [alert |-> x, status |-> "firing"]
Over(x) == [alert |-> x, status |-> "resolved"]

(* Grafana puts the alerts of a group into one notification.                *)
Groups == {<<Firing(a)>>, <<Over(a)>>, <<Firing(b), Firing(a)>>}

OwnTitles == (a :> "a") @@ (b :> "b")
=============================================================================
