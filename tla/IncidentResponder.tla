-------------------------- MODULE IncidentResponder --------------------------
(***************************************************************************)
(* The incident responder (module4/incident-response/responder.py and      *)
(* agent.py): notifications are handled by concurrent threads that share   *)
(* the dict `_running` and the directory incidents/, and the handlers a    *)
(* notification has scheduled run one after another once it is answered.   *)
(*                                                                         *)
(* An alert stands for its fingerprint, an incident id is the second it    *)
(* was drawn in and the alert's name.  Of an incident's files alert.json   *)
(* and status.json are kept, and "final" is done, error, timeout and       *)
(* skipped; the files that are only written (webhook.json, alerts.jsonl,   *)
(* resolved.json, the evidence, the agent's output) are left out, and so   *)
(* are failures of the disk.                                               *)
(***************************************************************************)
EXTENDS Integers, Sequences

CONSTANTS
  Request,   \* threads that handle notifications
  Alert,     \* fingerprints
  Title,     \* the alertname of each
  Payloads,  \* the notifications Grafana may send
  NULL,
  Horizon    \* bound: the clock stops here

Notice == [alert: Alert, status: {"firing", "resolved"}]

ASSUME IncidentAssumption ==
  /\ DOMAIN Title = Alert
  /\ Payloads \subseteq Seq(Notice)
  /\ Horizon \in Nat
  /\ NULL \notin Nat \X {Title[a] : a \in Alert}
  /\ NULL \notin Alert \cup {"running", "final"}

VARIABLES
  now,       \* the clock, in seconds
  running,   \* _running: the incident of each alert, if any
  folder,    \* the directories below incidents/
  req,       \* what each thread is doing
  lost       \* history: incidents left without the handler they had: a crash or
             \* an error dropped it, and none was added again

vars == <<now, running, folder, req, lost>>

Id == Nat \X {Title[a] : a \in Alert}

(* Whose alert.json there is, and the state in status.json, if any.        *)
Folder == [alert: Alert, state: {NULL, "running", "final"}]
Task == [id: Id, alert: Alert]

Idle == [step |-> "idle", todo |-> <<>>, tasks |-> <<>>]

Init ==
  /\ now = 0
  /\ running = [a \in Alert |-> NULL]
  /\ folder = <<>>
  /\ req = [r \in Request |-> Idle]
  /\ lost = {}

-----------------------------------------------------------------------------
(* POST /alerts.                                                           *)

Become(r, state) == req' = [req EXCEPT ![r] = state]

(* The alert in hand, and the rest of the payload left to do.              *)
First(r) == Head(req[r].todo)
NextNotice(r) == [req[r] EXCEPT !.todo = Tail(@), !.step = "alerts"]

Receive(r, payload) ==
  /\ req[r].step = "idle"
  /\ Become(r, [Idle EXCEPT !.step = "alerts", !.todo = payload])
  /\ UNCHANGED <<now, running, folder, lost>>

HasNotice(r, status) ==
  req[r].step = "alerts" /\ req[r].todo # <<>> /\ First(r).status = status

(* record_resolved only adds a file.                                       *)
Resolved(r) ==
  /\ HasNotice(r, "resolved")
  /\ Become(r, NextNotice(r))
  /\ UNCHANGED <<now, running, folder, lost>>

(* The alert is being handled: it is appended to alerts.jsonl.             *)
Repeated(r) ==
  /\ HasNotice(r, "firing")
  /\ running[First(r).alert] \in DOMAIN folder
  /\ Become(r, NextNotice(r))
  /\ UNCHANGED <<now, running, folder, lost>>

(* The thread that reserved the alert has not made its directory yet: open *)
(* fails, the answer is 500, and the tasks this request has added are      *)
(* dropped with it.                                                        *)
RepeatedTooSoon(r) ==
  /\ HasNotice(r, "firing")
  /\ running[First(r).alert] \notin DOMAIN folder \cup {NULL}
  /\ lost' = lost \cup {req[r].tasks[k].id : k \in DOMAIN req[r].tasks}
  /\ Become(r, Idle)
  /\ UNCHANGED <<now, running, folder>>

NewId(a) == <<now, Title[a]>>

(* Looked up and reserved under the lock ...                               *)
Reserve(r) ==
  /\ HasNotice(r, "firing")
  /\ running[First(r).alert] = NULL
  /\ running' = [running EXCEPT ![First(r).alert] = NewId(First(r).alert)]
  /\ Become(r, [req[r] EXCEPT !.step = "open"])
  /\ UNCHANGED <<now, folder, lost>>

(* ... and the directory made and its handler added after that.            *)
Open(r) ==
  /\ req[r].step = "open"
  /\ LET alert == First(r).alert
         id == running[alert] IN
     /\ folder' = [i \in DOMAIN folder \cup {id} |->
          IF i # id THEN folder[i]
          ELSE [alert |-> alert, state |-> IF id \in DOMAIN folder THEN folder[id].state ELSE NULL]]
     /\ Become(r, [NextNotice(r) EXCEPT !.tasks = Append(@, [id |-> id, alert |-> alert])])
     /\ lost' = lost \ {id}
  /\ UNCHANGED <<now, running>>

(* 202, and on to the tasks.                                               *)
NextTask(tasks) == [Idle EXCEPT !.step = IF tasks = <<>> THEN "idle" ELSE "collect",
                                !.tasks = tasks]

Answer(r) ==
  /\ req[r].step = "alerts" /\ req[r].todo = <<>>
  /\ Become(r, NextTask(req[r].tasks))
  /\ UNCHANGED <<now, running, folder, lost>>

-----------------------------------------------------------------------------
(* handle_incident, and the agent it runs.                                 *)

Current(r) == Head(req[r].tasks)

WriteStatus(r, state) == folder' = [folder EXCEPT ![Current(r).id].state = state]

(* Fault form: what goes wrong before the agent is started is caught, and  *)
(* the alert stays reserved.                                               *)
NoAgentNotReleased(r) ==
  /\ req[r].step = "collect"
  /\ WriteStatus(r, "final")
  /\ Become(r, NextTask(Tail(req[r].tasks)))
  /\ UNCHANGED <<now, running, lost>>

(* A dry run, no claude on the PATH, or an exception before it is started. *)
NoAgent(r) ==
  /\ req[r].step = "collect"
  /\ WriteStatus(r, "final")
  /\ Become(r, [req[r] EXCEPT !.step = "release"])
  /\ UNCHANGED <<now, running, lost>>

(* Fault form: the alert is free again as soon as the agent works.         *)
StartAgentReleased(r) ==
  /\ req[r].step = "collect"
  /\ WriteStatus(r, "running")
  /\ running' = [running EXCEPT ![Current(r).alert] = NULL]
  /\ Become(r, [req[r] EXCEPT !.step = "agent"])
  /\ UNCHANGED <<now, lost>>

StartAgent(r) ==
  /\ req[r].step = "collect"
  /\ WriteStatus(r, "running")
  /\ Become(r, [req[r] EXCEPT !.step = "agent"])
  /\ UNCHANGED <<now, running, lost>>

(* The agent ends, or its time does.                                       *)
AgentEnds(r) ==
  /\ req[r].step = "agent"
  /\ WriteStatus(r, "final")
  /\ Become(r, [req[r] EXCEPT !.step = "release"])
  /\ UNCHANGED <<now, running, lost>>

Release(r) ==
  /\ req[r].step = "release"
  /\ running' = [running EXCEPT ![Current(r).alert] = NULL]
  /\ Become(r, NextTask(Tail(req[r].tasks)))
  /\ UNCHANGED <<now, folder, lost>>

-----------------------------------------------------------------------------
(* The alerts a thread has reserved and not released.                      *)
Opening(r) == IF req[r].step = "open" THEN {First(r).alert} ELSE {}
Handling(r) == Opening(r) \cup {req[r].tasks[k].alert : k \in DOMAIN req[r].tasks}

(* The process dies: only the files are left.                              *)
Crash ==
  /\ running' = [a \in Alert |-> NULL]
  /\ req' = [r \in Request |-> Idle]
  /\ lost' = lost \cup UNION {{req[r].tasks[k].id : k \in DOMAIN req[r].tasks} : r \in Request}
  /\ UNCHANGED <<now, folder>>

Tick ==
  /\ now < Horizon
  /\ now' = now + 1
  /\ UNCHANGED <<running, folder, req, lost>>

Step(r) ==
  \/ Resolved(r)
  \/ Repeated(r)
  \/ RepeatedTooSoon(r)
  \/ Reserve(r)
  \/ Open(r)
  \/ Answer(r)
  \/ NoAgent(r)
  \/ StartAgent(r)
  \/ AgentEnds(r)
  \/ Release(r)

Next ==
  \/ \E r \in Request : (\E payload \in Payloads : Receive(r, payload)) \/ Step(r)
  \/ Crash
  \/ Tick

Spec == Init /\ [][Next]_vars

(* Threads keep running, and AGENT_TIMEOUT_SECONDS ends every agent.       *)
FairSpec == Spec /\ \A r \in Request : WF_vars(Step(r))

-----------------------------------------------------------------------------
(* Properties.                                                             *)

(* The dict, the directories and the threads are of their kinds.           *)
TypeOK ==
  /\ now \in Nat
  /\ running \in [Alert -> Id \cup {NULL}]
  /\ DOMAIN folder \subseteq Id
  /\ \A id \in DOMAIN folder : folder[id] \in Folder
  /\ req \in [Request -> [step: {"idle", "alerts", "open", "collect", "agent", "release"},
                          todo: Seq(Notice), tasks: Seq(Task)]]
  /\ lost \subseteq Id

(* However notifications of an alert overlap, no two handlers, and so no    *)
(* two agents, are ever at work or waiting to work for it.                  *)
OneHandler ==
  /\ \A q, r \in Request : q # r => Handling(q) \cap Handling(r) = {}
  /\ \A r \in Request :
       /\ \A j, k \in DOMAIN req[r].tasks :
            req[r].tasks[j].alert = req[r].tasks[k].alert => j = k
       /\ \A k \in DOMAIN req[r].tasks : req[r].tasks[k].alert \notin Opening(r)

(* "always leave a status behind" (responder.py:117): an incident without   *)
(* a final state has a handler ahead of it, unless its handler was dropped. *)
StatusIsLeft ==
  \A id \in DOMAIN folder :
    \/ folder[id].state = "final"
    \/ \E r \in Request : \E k \in DOMAIN req[r].tasks : req[r].tasks[k].id = id
    \/ id \in lost

(* "A repeated notification for an alert that is still being handled is     *)
(* appended to that incident's alerts.jsonl instead of starting another     *)
(* agent" (responder.py:18-19): what keeps another agent from being started *)
(* is a handler that exists.                                                *)
RunningIsHandled ==
  \A a \in Alert : running[a] # NULL => \E r \in Request : a \in Handling(r)

(* An alert does not stay reserved: its handler runs and lets it go, so the *)
(* next time it fires an agent is started again - unless the handler was    *)
(* dropped, which is what RunningIsHandled rules out.                       *)
EveryIncidentEnds ==
  \A a \in Alert : running[a] # NULL ~> running[a] = NULL \/ running[a] \in lost
=============================================================================
