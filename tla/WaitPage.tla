------------------------------ MODULE WaitPage ------------------------------
(***************************************************************************)
(* The page on which a guest watches their place in line                   *)
(* (module2/frontend: pages/WaitStatusPage.tsx over hooks/useResource.ts):  *)
(* it polls while the party is in line, and its requests may overlap, fail  *)
(* and be answered in any order.  One open page of one token is one         *)
(* generation of useResource: its dependencies do not change meanwhile.     *)
(***************************************************************************)
EXTENDS Naturals

CONSTANTS
  Request,       \* requests of the page that may be under way at a time
  NULL,
  MaxChanges,    \* bound: how often what the server would answer changes
  MaxFailures    \* bound: requests that fail on the way

ASSUME PageAssumption == MaxChanges \in Nat /\ MaxFailures \in Nat

Active == {"WAITING", "NOTIFIED"}
Final == {"SEATED", "CANCELED", "NO_SHOW"}

VARIABLES
  server,      \* the party's status, and the number of changes so far
  request,     \* what is asked, and the server's answer once there is one
  page,        \* data, error and status of the page, and if it is leaving
  failures     \* how many requests have failed

vars == <<server, request, page, failures>>

Refused == [status |-> "ENTRY_CLOSED", changes |-> 0]
Unused == [asks |-> NULL, answer |-> NULL]
Asking(what) == [asks |-> what, answer |-> NULL]

(* The page is mounted: its first load is on its way.                       *)
Init ==
  /\ server = [status |-> "WAITING", changes |-> 0]
  /\ \E first \in Request :
       request = [r \in Request |-> IF r = first THEN Asking("load") ELSE Unused]
  /\ page = [data |-> NULL, error |-> FALSE, status |-> NULL, leaving |-> FALSE]
  /\ failures = 0

CanTransition(current, target) ==
  \/ current = "WAITING" /\ target \in {"NOTIFIED"} \cup Final
  \/ current = "NOTIFIED" /\ target \in Final

(* Staff, time, or the parties ahead: the status moves, or only the place in *)
(* line.  A finished party's view does not change any more.                  *)
ServerChanges(status) ==
  /\ server.changes < MaxChanges
  /\ \/ CanTransition(server.status, status)
     \/ status = server.status /\ status \in Active
  /\ server' = [status |-> status, changes |-> server.changes + 1]
  /\ UNCHANGED <<request, page, failures>>

(* The server handles r: a view of the party, or its cancellation.           *)
Serve(r) ==
  LET cancels == request[r].asks = "cancel" /\ server.status \in Active
      now == IF cancels THEN [server EXCEPT !.status = "CANCELED"] ELSE server IN
  /\ request[r].asks # NULL /\ request[r].answer = NULL
  /\ server' = now
  /\ request' = [request EXCEPT ![r].answer =
       IF request[r].asks = "load" \/ cancels THEN now ELSE Refused]
  /\ UNCHANGED <<page, failures>>

(* Polling lasts until the status that was set last is final.                *)
Polls == page.status \in Active \cup {NULL}

(* setInterval does not wait for the request before.                         *)
Poll(r) ==
  /\ Polls
  /\ request[r] = Unused
  /\ request' = [request EXCEPT ![r] = Asking("load")]
  /\ UNCHANGED <<server, page, failures>>

(* Fault form: the page shows at once what it has only asked for.           *)
HandleLeaveHopefully(r) ==
  /\ page.data # NULL /\ page.data.status \in Active
  /\ ~page.leaving
  /\ request[r] = Unused
  /\ request' = [request EXCEPT ![r] = Asking("cancel")]
  /\ page' = [page EXCEPT !.leaving = TRUE, !.data.status = "CANCELED"]
  /\ UNCHANGED <<server, failures>>

(* "Yes, leave": offered while the party shown is in line.                   *)
HandleLeave(r) ==
  /\ page.data # NULL /\ page.data.status \in Active
  /\ ~page.leaving
  /\ request[r] = Unused
  /\ request' = [request EXCEPT ![r] = Asking("cancel")]
  /\ page' = [page EXCEPT !.leaving = TRUE]
  /\ UNCHANGED <<server, failures>>

(* Fault form: a final status is never taken back.                          *)
ShowStaysFinished(view) ==
  [page EXCEPT !.data = view, !.error = FALSE,
               !.status = IF @ \in Final THEN @ ELSE view.status]

(* setStatus and setData: whatever comes in last is shown.                   *)
Show(view) == [page EXCEPT !.data = view, !.error = FALSE, !.status = view.status]

Loaded(r) ==
  /\ request[r].asks = "load" /\ request[r].answer # NULL
  /\ page' = Show(request[r].answer)
  /\ request' = [request EXCEPT ![r] = Unused]
  /\ UNCHANGED <<server, failures>>

Left(r) ==
  /\ request[r].asks = "cancel" /\ request[r].answer \notin {NULL, Refused}
  /\ page' = [Show(request[r].answer) EXCEPT !.leaving = FALSE]
  /\ request' = [request EXCEPT ![r] = Unused]
  /\ UNCHANGED <<server, failures>>

(* The catch of handleLeave: the page loads again, polling or not.           *)
LeaveFailed(r) ==
  /\ request' = [request EXCEPT ![r] = Asking("load")]
  /\ page' = [page EXCEPT !.leaving = FALSE]
  /\ UNCHANGED server

LeaveRefused(r) ==
  /\ request[r].asks = "cancel" /\ request[r].answer = Refused
  /\ LeaveFailed(r)
  /\ UNCHANGED failures

(* The request or its answer is lost, or the server breaks down.  Old data   *)
(* stays on the page.                                                       *)
Fail(r) ==
  /\ request[r].asks # NULL
  /\ failures < MaxFailures
  /\ failures' = failures + 1
  /\ IF request[r].asks = "cancel" THEN LeaveFailed(r)
     ELSE /\ page' = [page EXCEPT !.error = TRUE]
          /\ request' = [request EXCEPT ![r] = Unused]
          /\ UNCHANGED server

Next ==
  \/ \E status \in Active \cup Final : ServerChanges(status)
  \/ \E r \in Request :
       \/ Serve(r) \/ Poll(r) \/ HandleLeave(r)
       \/ Loaded(r) \/ Left(r) \/ LeaveRefused(r) \/ Fail(r)

(* The timer fires, and what is asked is answered, but for the failures.     *)
Spec == Init /\ [][Next]_vars

FairSpec ==
  Spec /\ \A r \in Request :
    WF_vars(Poll(r)) /\ WF_vars(Serve(r)) /\ WF_vars(Loaded(r) \/ Left(r) \/ LeaveRefused(r))

-----------------------------------------------------------------------------
(* Properties.                                                             *)

(* However answers overtake each other and requests fail, once the server    *)
(* stops changing the page shows its state for good: polling never ends      *)
(* while something else is shown ("poll only while the party is still in     *)
(* line; a finished entry cannot change", WaitStatusPage.tsx:20).            *)
PageCatchesUp == <>[](page.data = server)

(* The page never says that a party is finished when it is not, or in        *)
(* another way than it is: not even when leaving raced with being seated.    *)
FinishIsTrue ==
  page.data # NULL /\ page.data.status \in Final => page.data = server
=============================================================================
