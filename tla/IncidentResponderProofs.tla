----------------------- MODULE IncidentResponderProofs -----------------------
(***************************************************************************)
(* Proofs about IncidentResponder for any number of threads and alerts and *)
(* any notifications.                                                      *)
(***************************************************************************)
EXTENDS IncidentResponder, SequenceTheorems, TLAPS

Working == {"collect", "agent", "release"}
State == [step: {"idle", "alerts", "open"} \cup Working, todo: Seq(Notice), tasks: Seq(Task)]

(* The alerts a thread in state s answers for, as Handling says.            *)
OpeningOf(s) == IF s.step = "open" THEN {Head(s.todo).alert} ELSE {}
HandlingOf(s) == OpeningOf(s) \cup {s.tasks[k].alert : k \in DOMAIN s.tasks}

(* One thread on its own: what its step needs is there, and no alert is     *)
(* twice in its hands.                                                      *)
Sound(s) ==
  /\ s.step = "idle" => s.tasks = <<>>
  /\ s.step = "open" => s.todo # <<>>
  /\ s.step \in Working => s.tasks # <<>>
  /\ \A j, k \in DOMAIN s.tasks : s.tasks[j].alert = s.tasks[k].alert => j = k
  /\ \A k \in DOMAIN s.tasks : s.tasks[k].alert \notin OpeningOf(s)

(* The reservations keep the threads apart: what a thread answers for is    *)
(* reserved, and only reserved by one.                                      *)
IInv ==
  /\ TypeOK
  /\ \A r \in Request :
       /\ Sound(req[r])
       /\ \A a \in HandlingOf(req[r]) : running[a] # NULL
  /\ \A q, r \in Request : q # r => HandlingOf(req[q]) \cap HandlingOf(req[r]) = {}

LEMMA Shape == ASSUME TypeOK PROVE req \in [Request -> State]
BY DEF TypeOK, State, Working

LEMMA IdIsNotNull == NULL \notin Id
BY IncidentAssumption DEF Id

LEMMA IdleIsSound == Idle \in State /\ Sound(Idle) /\ HandlingOf(Idle) = {}
<1>1. <<>> \in Seq(Notice) /\ <<>> \in Seq(Task) /\ DOMAIN <<>> = {}
  BY EmptySeq
<1>2. QED
  BY <1>1 DEF Idle, State, Sound, HandlingOf, OpeningOf, Working

LEMMA HandlingIsTyped ==
  ASSUME NEW s \in State, Sound(s)
  PROVE  HandlingOf(s) \subseteq Alert
<1>0. s.tasks \in Seq(Task) /\ s.todo \in Seq(Notice)
  BY DEF State
<1>1. \A k \in DOMAIN s.tasks : s.tasks[k].alert \in Alert
  <2>1. DOMAIN s.tasks = 1..Len(s.tasks)
    BY <1>0, LenProperties
  <2>2. \A k \in DOMAIN s.tasks : s.tasks[k] \in Task
    BY <1>0, <2>1, ElementOfSeq
  <2>3. QED
    BY <2>2 DEF Task
<1>2. s.step = "open" => Head(s.todo).alert \in Alert
  <2>1. s.step = "open" => Head(s.todo) \in Notice
    BY <1>0, HeadTailProperties DEF Sound
  <2>2. QED
    BY <2>1 DEF Notice
<1>3. QED
  BY <1>1, <1>2 DEF HandlingOf, OpeningOf

(* A step of thread r keeps the threads apart if it takes over only what    *)
(* was free and frees only what was its own.                                *)
LEMMA ThreadStep ==
  ASSUME IInv, NEW r \in Request, NEW new \in State, Become(r, new), Sound(new),
         \A a \in HandlingOf(new) :
           running'[a] # NULL /\ (a \in HandlingOf(req[r]) \/ running[a] = NULL),
         \A a \in Alert : a \notin HandlingOf(req[r]) /\ running[a] # NULL => running'[a] # NULL,
         now' \in Nat, running' \in [Alert -> Id \cup {NULL}], DOMAIN folder' \subseteq Id,
         \A id \in DOMAIN folder' : folder'[id] \in Folder, lost' \subseteq Id
  PROVE  IInv'
<1>1. req \in [Request -> State] /\ \A q \in Request : Sound(req[q])
  BY Shape DEF IInv
<1>2. req' \in [Request -> State] /\ req'[r] = new /\ \A q \in Request : q # r => req'[q] = req[q]
  BY <1>1 DEF Become
<1>3. TypeOK'
  BY <1>2 DEF TypeOK, State, Working
<1>4. ASSUME NEW q \in Request PROVE Sound(req'[q]) /\ \A a \in HandlingOf(req'[q]) : running'[a] # NULL
  <2>1. CASE q = r
    BY <2>1, <1>2
  <2>2. CASE q # r
    <3>1. HandlingOf(req[q]) \subseteq Alert
      BY <1>1, HandlingIsTyped
    <3>2. \A a \in HandlingOf(req[q]) : a \notin HandlingOf(req[r]) /\ running[a] # NULL
      BY <2>2 DEF IInv
    <3>3. QED
      BY <2>2, <1>1, <1>2, <3>1, <3>2
  <2>3. QED
    BY <2>1, <2>2
<1>5. ASSUME NEW q \in Request, q # r PROVE HandlingOf(req[q]) \cap HandlingOf(new) = {}
  <2>1. \A a \in HandlingOf(req[q]) : a \notin HandlingOf(req[r]) /\ running[a] # NULL
    BY <1>5 DEF IInv
  <2>2. QED
    BY <2>1
<1>6. ASSUME NEW p \in Request, NEW q \in Request, p # q
      PROVE HandlingOf(req'[p]) \cap HandlingOf(req'[q]) = {}
  <2>1. CASE p = r
    BY <2>1, <1>2, <1>5, <1>6
  <2>2. CASE q = r
    BY <2>2, <1>2, <1>5, <1>6
  <2>3. CASE p # r /\ q # r
    BY <2>3, <1>2, <1>6 DEF IInv
  <2>4. QED
    BY <2>1, <2>2, <2>3
<1>7. QED
  BY <1>3, <1>4, <1>6 DEF IInv

LEMMA InitInv == Init => IInv
<1> SUFFICES ASSUME Init PROVE IInv
  OBVIOUS
<1>1. req \in [Request -> State] /\ \A r \in Request : req[r] = Idle
  BY IdleIsSound DEF Init
<1>2. TypeOK
  BY <1>1 DEF Init, TypeOK, State, Working
<1>3. QED
  BY <1>1, <1>2, IdleIsSound DEF IInv
(* What the rest of a list of tasks, or of notices, keeps.                  *)
LEMMA Rest ==
  ASSUME NEW S, NEW s \in Seq(S), s # <<>>
  PROVE  /\ Head(s) = s[1] /\ Head(s) \in S /\ 1 \in DOMAIN s
         /\ Tail(s) \in Seq(S)
         /\ \A k \in DOMAIN Tail(s) : k \in Nat /\ k > 0 /\ k + 1 \in DOMAIN s /\ Tail(s)[k] = s[k + 1]
<1>1. DOMAIN s = 1..Len(s) /\ Len(s) \in Nat \ {0}
  BY LenProperties, EmptySeq
<1>2. Tail(s) \in Seq(S) /\ Len(Tail(s)) = Len(s) - 1 /\ Head(s) \in S
  BY HeadTailProperties
<1>3. DOMAIN Tail(s) = 1..(Len(s) - 1)
  BY <1>2, LenProperties
<1>4. \A k \in 1..(Len(s) - 1) : Tail(s)[k] = s[k + 1]
  BY <1>2, HeadTailProperties
<1>5. Head(s) = s[1]
  OBVIOUS
<1>6. QED
  BY <1>1, <1>2, <1>3, <1>4, <1>5

(* A notice done with, nothing reserved.                                    *)
LEMMA NoticeDone ==
  ASSUME IInv, NEW r \in Request, req[r].step = "alerts", req[r].todo # <<>>
  PROVE  /\ NextNotice(r) \in State /\ Sound(NextNotice(r))
         /\ HandlingOf(NextNotice(r)) \subseteq HandlingOf(req[r])
<1> DEFINE old == req[r]
           new == NextNotice(r)
<1>1. old \in State /\ Sound(old)
  BY Shape DEF IInv
<1>2. old.todo \in Seq(Notice) /\ old.tasks \in Seq(Task) /\ Tail(old.todo) \in Seq(Notice)
  BY <1>1, Rest DEF State
<1>3. new \in State /\ new.step = "alerts" /\ new.tasks = old.tasks
  BY <1>1, <1>2 DEF State, NextNotice
<1> HIDE DEF old, new
<1>4. OpeningOf(new) = {} /\ HandlingOf(new) \subseteq HandlingOf(old)
  BY <1>3 DEF HandlingOf, OpeningOf
<1>5. Sound(new)
  BY <1>1, <1>3, <1>4 DEF Sound, Working
<1>6. QED
  BY <1>3, <1>4, <1>5 DEF old, new

(* The handlers left to run after the first of them is done.                *)
LEMMA TasksLeft ==
  ASSUME NEW tasks \in Seq(Task),
         \A j, k \in DOMAIN tasks : tasks[j].alert = tasks[k].alert => j = k
  PROVE  /\ NextTask(tasks) \in State /\ Sound(NextTask(tasks))
         /\ HandlingOf(NextTask(tasks)) = {tasks[k].alert : k \in DOMAIN tasks}
<1> DEFINE new == NextTask(tasks)
<1>1. <<>> \in Seq(Notice)
  BY EmptySeq
<1>2. Idle \in State
  BY IdleIsSound
<1>3. /\ new \in State /\ new.tasks = tasks
      /\ new.step = IF tasks = <<>> THEN "idle" ELSE "collect"
  BY <1>2 DEF State, Working, NextTask
<1> HIDE DEF new
<1>4. OpeningOf(new) = {} /\ HandlingOf(new) = {tasks[k].alert : k \in DOMAIN tasks}
  BY <1>3 DEF HandlingOf, OpeningOf
<1>5. Sound(new)
  BY <1>3, <1>4 DEF Sound, Working
<1>6. QED
  BY <1>3, <1>4, <1>5 DEF new

(* Directories that are well formed, before or after a step.                *)
FoldersTyped(f) == DOMAIN f \subseteq Id /\ \A id \in DOMAIN f : f[id] \in Folder

LEMMA QuietStep ==
  ASSUME IInv, NEW r \in Request, NEW new \in State, Become(r, new), Sound(new),
         HandlingOf(new) \subseteq HandlingOf(req[r]),
         UNCHANGED <<now, running>>, FoldersTyped(folder'), lost' \subseteq Id
  PROVE  IInv'
<1>1. \A a \in HandlingOf(new) : running'[a] # NULL /\ a \in HandlingOf(req[r])
  BY DEF IInv
<1>2. now' \in Nat /\ running' \in [Alert -> Id \cup {NULL}]
  BY DEF IInv, TypeOK
<1>3. \A a \in Alert : running[a] # NULL => running'[a] # NULL
  OBVIOUS
<1>4. DOMAIN folder' \subseteq Id /\ \A id \in DOMAIN folder' : folder'[id] \in Folder
  BY DEF FoldersTyped
<1>5. QED
  BY <1>1, <1>2, <1>3, <1>4, ThreadStep

LEMMA FolderIsTyped == ASSUME IInv PROVE FoldersTyped(folder)
BY DEF IInv, TypeOK, FoldersTyped

LEMMA StatusIsTyped ==
  ASSUME IInv, NEW r \in Request, NEW s \in {"running", "final"}, WriteStatus(r, s)
  PROVE  FoldersTyped(folder')
<1>1. \A f \in Folder : [f EXCEPT !.state = s] \in Folder
  BY DEF Folder
<1>2. FoldersTyped(folder)
  BY FolderIsTyped
<1>3. DOMAIN folder' = DOMAIN folder
  BY DEF WriteStatus
<1>4. \A id \in DOMAIN folder :
        \/ folder'[id] = folder[id]
        \/ folder'[id] = [folder[id] EXCEPT !.state = s]
  BY DEF WriteStatus
<1>5. QED
  BY <1>1, <1>2, <1>3, <1>4 DEF FoldersTyped

-----------------------------------------------------------------------------
(* The actions.                                                             *)

LEMMA ReceiveStep ==
  ASSUME IInv, NEW r \in Request, NEW payload \in Payloads, Receive(r, payload)
  PROVE  IInv'
<1> DEFINE new == [Idle EXCEPT !.step = "alerts", !.todo = payload]
<1>1. payload \in Seq(Notice) /\ Idle \in State /\ HandlingOf(Idle) = {} /\ Sound(Idle)
  BY IncidentAssumption, IdleIsSound
<1>2. new \in State /\ new.step = "alerts" /\ new.tasks = Idle.tasks
  BY <1>1 DEF State, Working
<1> HIDE DEF new
<1>3. OpeningOf(new) = {} /\ HandlingOf(new) = {}
  BY <1>1, <1>2 DEF HandlingOf, OpeningOf
<1>4. Sound(new)
  BY <1>1, <1>2, <1>3 DEF Sound, Working
<1>5. Become(r, new) /\ UNCHANGED <<now, running, folder, lost>>
  BY DEF Receive, new
<1>6. FoldersTyped(folder') /\ lost' \subseteq Id
  BY <1>5, FolderIsTyped DEF IInv, TypeOK
<1>7. QED
  BY <1>2, <1>3, <1>4, <1>5, <1>6, QuietStep

LEMMA NoticeStep ==
  ASSUME IInv, NEW r \in Request, Resolved(r) \/ Repeated(r)
  PROVE  IInv'
<1>1. /\ req[r].step = "alerts" /\ req[r].todo # <<>>
      /\ Become(r, NextNotice(r)) /\ UNCHANGED <<now, running, folder, lost>>
  BY DEF Resolved, Repeated, HasNotice
<1>2. FoldersTyped(folder') /\ lost' \subseteq Id
  BY <1>1, FolderIsTyped DEF IInv, TypeOK
<1>3. QED
  BY <1>1, <1>2, NoticeDone, QuietStep

LEMMA TaskIds ==
  ASSUME IInv, NEW r \in Request
  PROVE  {req[r].tasks[k].id : k \in DOMAIN req[r].tasks} \subseteq Id
<1>1. req[r].tasks \in Seq(Task)
  BY Shape DEF IInv, State
<1>2. \A k \in DOMAIN req[r].tasks : req[r].tasks[k] \in Task
  BY <1>1, LenProperties, ElementOfSeq
<1>3. QED
  BY <1>2 DEF Task

LEMMA RepeatedTooSoonStep ==
  ASSUME IInv, NEW r \in Request, RepeatedTooSoon(r)
  PROVE  IInv'
<1>1. Become(r, Idle) /\ UNCHANGED <<now, running, folder>>
  BY DEF RepeatedTooSoon
<1>2. FoldersTyped(folder')
  BY <1>1, FolderIsTyped
<1>3. lost' \subseteq Id
  BY TaskIds DEF RepeatedTooSoon, IInv, TypeOK
<1>4. QED
  BY <1>1, <1>2, <1>3, IdleIsSound, QuietStep

LEMMA ReserveStep ==
  ASSUME IInv, NEW r \in Request, Reserve(r)
  PROVE  IInv'
<1> DEFINE old == req[r]
           new == [req[r] EXCEPT !.step = "open"]
           alert == First(r).alert
<1>1. old \in State /\ Sound(old) /\ old.step = "alerts" /\ old.todo # <<>>
  BY Shape DEF IInv, Reserve, HasNotice
<1>2. new \in State /\ new.step = "open" /\ new.todo = old.todo /\ new.tasks = old.tasks
  BY <1>1 DEF State
<1>3. /\ Become(r, new) /\ UNCHANGED <<now, folder, lost>>
      /\ running' = [running EXCEPT ![alert] = NewId(alert)]
      /\ running[alert] = NULL
  BY DEF Reserve
<1>4. alert = Head(old.todo).alert /\ alert \in Alert
  <2>1. Head(old.todo) \in Notice
    BY <1>1, Rest DEF State
  <2>2. QED
    BY <2>1 DEF First, Notice
<1>5. NewId(alert) \in Id
  BY <1>4 DEF NewId, Id, IInv, TypeOK
<1>6. \A a \in HandlingOf(old) : running[a] # NULL
  BY DEF IInv
<1>7. running \in [Alert -> Id \cup {NULL}] /\ now \in Nat /\ lost \subseteq Id
  BY DEF IInv, TypeOK
<1> HIDE DEF old, new, alert
<1>8. HandlingOf(old) = {old.tasks[k].alert : k \in DOMAIN old.tasks}
  BY <1>1 DEF HandlingOf, OpeningOf
<1>9. OpeningOf(new) = {alert} /\ HandlingOf(new) = HandlingOf(old) \cup {alert}
  BY <1>2, <1>4, <1>8 DEF HandlingOf, OpeningOf
<1>10. Sound(new)
  BY <1>1, <1>2, <1>3, <1>6, <1>8, <1>9 DEF Sound, Working
<1>11. running' \in [Alert -> Id \cup {NULL}] /\ \A a \in Alert : running'[a] = IF a = alert THEN NewId(alert) ELSE running[a]
  BY <1>3, <1>5, <1>7
<1>12. \A a \in HandlingOf(new) : running'[a] # NULL /\ (a \in HandlingOf(old) \/ running[a] = NULL)
  <2>1. HandlingOf(new) \subseteq Alert
    BY <1>2, <1>10, HandlingIsTyped
  <2>2. QED
    BY <2>1, <1>3, <1>5, <1>6, <1>9, <1>11, IdIsNotNull
<1>13. \A a \in Alert : a \notin HandlingOf(old) /\ running[a] # NULL => running'[a] # NULL
  BY <1>5, <1>11, IdIsNotNull
<1>14. DOMAIN folder' \subseteq Id /\ \A id \in DOMAIN folder' : folder'[id] \in Folder
  BY <1>3 DEF IInv, TypeOK
<1>15. now' \in Nat /\ lost' \subseteq Id
  BY <1>3, <1>7
<1>16. QED
  BY <1>2, <1>3, <1>10, <1>11, <1>12, <1>13, <1>14, <1>15, ThreadStep DEF old

(* The directory made: a new one, or one of the same name.                  *)
LEMMA OpenedIsTyped ==
  ASSUME IInv, NEW id \in Id, NEW a \in Alert,
         folder' = [i \in DOMAIN folder \cup {id} |->
           IF i # id THEN folder[i]
           ELSE [alert |-> a, state |-> IF id \in DOMAIN folder THEN folder[id].state ELSE NULL]]
  PROVE  FoldersTyped(folder')
<1>1. FoldersTyped(folder)
  BY FolderIsTyped
<1>2. id \in DOMAIN folder => folder[id].state \in {NULL, "running", "final"}
  BY <1>1 DEF FoldersTyped, Folder
<1>3. folder'[id] \in Folder
  BY <1>2 DEF Folder
<1>4. QED
  BY <1>1, <1>3 DEF FoldersTyped

LEMMA OpenStep ==
  ASSUME IInv, NEW r \in Request, Open(r)
  PROVE  IInv'
<1> DEFINE old == req[r]
           alert == First(r).alert
           item == [id |-> running[alert], alert |-> alert]
           new == [NextNotice(r) EXCEPT !.tasks = Append(@, item)]
<1>1. old \in State /\ Sound(old) /\ old.step = "open" /\ old.todo # <<>>
  BY Shape DEF IInv, Open, Sound
<1>2. old.tasks \in Seq(Task) /\ old.todo \in Seq(Notice)
  BY <1>1 DEF State
<1>3. alert = Head(old.todo).alert /\ alert \in Alert
  <2>1. Head(old.todo) \in Notice
    BY <1>1, <1>2, Rest
  <2>2. QED
    BY <2>1 DEF First, Notice
<1>4. OpeningOf(old) = {alert} /\ alert \in HandlingOf(old)
  BY <1>1, <1>3 DEF OpeningOf, HandlingOf
<1>5. running[alert] \in Id
  BY <1>3, <1>4 DEF IInv, TypeOK
<1>6. item \in Task
  BY <1>3, <1>5 DEF Task
<1>7. /\ Become(r, new) /\ UNCHANGED <<now, running>> /\ lost' \subseteq Id
      /\ folder' = [i \in DOMAIN folder \cup {running[alert]} |->
           IF i # running[alert] THEN folder[i]
           ELSE [alert |-> alert, state |-> IF running[alert] \in DOMAIN folder
                                            THEN folder[running[alert]].state ELSE NULL]]
  BY DEF Open, IInv, TypeOK
<1>8. FoldersTyped(folder')
  BY <1>3, <1>5, <1>7, OpenedIsTyped
<1>9. Tail(old.todo) \in Seq(Notice) /\ Append(old.tasks, item) \in Seq(Task)
  BY <1>1, <1>2, <1>6, Rest, AppendProperties
<1>10. new \in State /\ new.step = "alerts" /\ new.tasks = Append(old.tasks, item)
  BY <1>1, <1>9 DEF State, NextNotice
<1>11. item.alert = alert
  OBVIOUS
<1> HIDE DEF old, alert, item, new
<1>12. /\ DOMAIN new.tasks = 1..(Len(old.tasks) + 1) /\ DOMAIN old.tasks = 1..Len(old.tasks)
       /\ Len(old.tasks) \in Nat /\ new.tasks[Len(old.tasks) + 1] = item
       /\ \A k \in 1..Len(old.tasks) : new.tasks[k] = old.tasks[k]
  BY <1>2, <1>6, <1>9, <1>10, LenProperties, AppendProperties
<1>13. OpeningOf(new) = {} /\ HandlingOf(new) \subseteq HandlingOf(old)
  BY <1>4, <1>10, <1>11, <1>12 DEF OpeningOf, HandlingOf
<1>14. \A k \in DOMAIN old.tasks : old.tasks[k].alert # alert
  BY <1>1, <1>4 DEF Sound
<1>15. ASSUME NEW j \in DOMAIN new.tasks, NEW k \in DOMAIN new.tasks,
              new.tasks[j].alert = new.tasks[k].alert
       PROVE  j = k
  <2>1. CASE j \in DOMAIN old.tasks /\ k \in DOMAIN old.tasks
    <3>1. old.tasks[j].alert = old.tasks[k].alert
      BY <2>1, <1>12, <1>15
    <3>2. QED
      BY <2>1, <3>1, <1>1 DEF Sound
  <2>2. CASE j \notin DOMAIN old.tasks /\ k \notin DOMAIN old.tasks
    BY <2>2, <1>12
  <2>3. CASE j \in DOMAIN old.tasks /\ k \notin DOMAIN old.tasks
    BY <2>3, <1>11, <1>12, <1>14, <1>15
  <2>4. CASE j \notin DOMAIN old.tasks /\ k \in DOMAIN old.tasks
    BY <2>4, <1>11, <1>12, <1>14, <1>15
  <2>5. QED
    BY <2>1, <2>2, <2>3, <2>4
<1>16. Sound(new)
  BY <1>10, <1>13, <1>15 DEF Sound, Working
<1>17. QED
  BY <1>7, <1>8, <1>10, <1>13, <1>16, QuietStep DEF old

LEMMA AnswerStep ==
  ASSUME IInv, NEW r \in Request, Answer(r)
  PROVE  IInv'
<1> DEFINE tasks == req[r].tasks
           new == NextTask(tasks)
<1>1. req[r] \in State /\ Sound(req[r]) /\ tasks \in Seq(Task)
  BY Shape DEF IInv, State
<1>2. /\ new \in State /\ Sound(new)
      /\ HandlingOf(new) = {tasks[k].alert : k \in DOMAIN tasks}
  BY <1>1, TasksLeft DEF Sound
<1>3. HandlingOf(new) \subseteq HandlingOf(req[r])
  BY <1>2 DEF HandlingOf
<1>4. Become(r, new) /\ UNCHANGED <<now, running, folder, lost>>
  BY DEF Answer
<1>5. FoldersTyped(folder') /\ lost' \subseteq Id
  BY <1>4, FolderIsTyped DEF IInv, TypeOK
<1> HIDE DEF new
<1>6. QED
  BY <1>2, <1>3, <1>4, <1>5, QuietStep

(* The steps that write a status and go on with the same task.              *)
LEMMA HandlerStep ==
  ASSUME IInv, NEW r \in Request, NoAgent(r) \/ StartAgent(r) \/ AgentEnds(r)
  PROVE  IInv'
<1>1. PICK step \in Working, s \in {"running", "final"} :
        Become(r, [req[r] EXCEPT !.step = step]) /\ WriteStatus(r, s)
  BY DEF NoAgent, StartAgent, AgentEnds, Working
<1>2. UNCHANGED <<now, running, lost>> /\ req[r].step \in Working
  BY DEF NoAgent, StartAgent, AgentEnds, Working
<1> DEFINE old == req[r]
           new == [req[r] EXCEPT !.step = step]
<1>3. old \in State /\ Sound(old)
  BY Shape DEF IInv
<1>4. new \in State /\ new.step = step /\ new.tasks = old.tasks
  BY <1>3 DEF State
<1>5. FoldersTyped(folder') /\ lost' \subseteq Id /\ Become(r, new)
  BY <1>1, <1>2, StatusIsTyped DEF IInv, TypeOK
<1> HIDE DEF old, new
<1>6. OpeningOf(new) = {} /\ HandlingOf(new) \subseteq HandlingOf(old)
  BY <1>4 DEF OpeningOf, HandlingOf, Working
<1>7. Sound(new)
  BY <1>2, <1>3, <1>4, <1>6 DEF Sound, Working, old
<1>8. QED
  BY <1>2, <1>4, <1>5, <1>6, <1>7, QuietStep DEF old

LEMMA ReleaseStep ==
  ASSUME IInv, NEW r \in Request, Release(r)
  PROVE  IInv'
<1> DEFINE old == req[r]
           tasks == old.tasks
           alert == Current(r).alert
           new == NextTask(Tail(tasks))
<1>1. old \in State /\ Sound(old) /\ old.step = "release" /\ tasks # <<>>
  BY Shape DEF IInv, Release, Sound, Working
<1>2. tasks \in Seq(Task)
  BY <1>1 DEF State
<1>3. /\ Become(r, new) /\ UNCHANGED <<now, folder, lost>>
      /\ running' = [running EXCEPT ![alert] = NULL]
  BY DEF Release
<1>4. /\ tasks[1].alert = alert /\ 1 \in DOMAIN tasks /\ Tail(tasks) \in Seq(Task)
      /\ \A k \in DOMAIN Tail(tasks) :
           k \in Nat /\ k > 0 /\ k + 1 \in DOMAIN tasks /\ Tail(tasks)[k] = tasks[k + 1]
  BY <1>1, <1>2, Rest DEF Current
<1> HIDE DEF alert, tasks
<1>5. \A j, k \in DOMAIN tasks : tasks[j].alert = tasks[k].alert => j = k
  BY <1>1 DEF Sound, tasks
<1>6. \A j, k \in DOMAIN Tail(tasks) : Tail(tasks)[j].alert = Tail(tasks)[k].alert => j = k
  BY <1>4, <1>5
<1>7. /\ new \in State /\ Sound(new)
      /\ HandlingOf(new) = {Tail(tasks)[k].alert : k \in DOMAIN Tail(tasks)}
  BY <1>4, <1>6, TasksLeft
<1>8. HandlingOf(old) = {tasks[k].alert : k \in DOMAIN tasks}
  BY <1>1 DEF HandlingOf, OpeningOf, tasks
<1> HIDE DEF old, new
<1>9. HandlingOf(new) \subseteq HandlingOf(old) /\ alert \in HandlingOf(old)
  BY <1>4, <1>7, <1>8
<1>10. alert \notin HandlingOf(new)
  <2>1. \A k \in DOMAIN Tail(tasks) : Tail(tasks)[k].alert # alert
    <3>1. SUFFICES ASSUME NEW k \in DOMAIN Tail(tasks), Tail(tasks)[k].alert = alert PROVE FALSE
      OBVIOUS
    <3>2. k + 1 = 1
      BY <3>1, <1>4, <1>5
    <3>3. QED
      BY <3>1, <3>2, <1>4
  <2>2. QED
    BY <2>1, <1>7
<1>11. running \in [Alert -> Id \cup {NULL}] /\ \A a \in HandlingOf(old) : running[a] # NULL
  BY DEF IInv, TypeOK, old
<1>12. /\ running' \in [Alert -> Id \cup {NULL}]
       /\ \A a \in Alert : running'[a] = IF a = alert THEN NULL ELSE running[a]
  BY <1>3, <1>11
<1>13. HandlingOf(new) \subseteq Alert
  BY <1>7, HandlingIsTyped
<1>14. \A a \in HandlingOf(new) : running'[a] # NULL /\ a \in HandlingOf(old)
  BY <1>9, <1>10, <1>11, <1>12, <1>13
<1>15. \A a \in Alert : a \notin HandlingOf(old) /\ running[a] # NULL => running'[a] # NULL
  BY <1>9, <1>12
<1>16. /\ now' \in Nat /\ lost' \subseteq Id
       /\ DOMAIN folder' \subseteq Id /\ \A id \in DOMAIN folder' : folder'[id] \in Folder
  BY <1>3 DEF IInv, TypeOK
<1>17. QED
  BY <1>3, <1>7, <1>12, <1>14, <1>15, <1>16, ThreadStep DEF old

LEMMA CrashStep == ASSUME IInv, Crash PROVE IInv'
<1>1. /\ running' \in [Alert -> Id \cup {NULL}] /\ UNCHANGED <<now, folder>>
      /\ req' \in [Request -> State] /\ \A r \in Request : req'[r] = Idle
  BY IdleIsSound DEF Crash
<1>2. lost' \subseteq Id
  BY TaskIds DEF Crash, IInv, TypeOK
<1>3. TypeOK'
  BY <1>1, <1>2 DEF IInv, TypeOK, State, Working
<1>4. QED
  BY <1>1, <1>3, IdleIsSound DEF IInv

LEMMA TickStep == ASSUME IInv, UNCHANGED <<running, folder, req, lost>>, now' \in Nat PROVE IInv'
<1>1. TypeOK'
  BY DEF IInv, TypeOK
<1>2. QED
  BY <1>1 DEF IInv

LEMMA Inductive == IInv /\ [Next]_vars => IInv'
<1> SUFFICES ASSUME IInv, [Next]_vars PROVE IInv'
  OBVIOUS
<1>1. now \in Nat
  BY DEF IInv, TypeOK
<1>2. ASSUME NEW r \in Request, Step(r) PROVE IInv'
  BY <1>2, NoticeStep, RepeatedTooSoonStep, ReserveStep, OpenStep, AnswerStep, HandlerStep,
     ReleaseStep DEF Step
<1>3. ASSUME NEW r \in Request, NEW payload \in Payloads, Receive(r, payload) PROVE IInv'
  BY <1>3, ReceiveStep
<1>4. CASE Crash
  BY <1>4, CrashStep
<1>5. CASE Tick
  BY <1>1, <1>5, TickStep DEF Tick
<1>6. CASE UNCHANGED vars
  BY <1>1, <1>6, TickStep DEF vars
<1>7. QED
  BY <1>2, <1>3, <1>4, <1>5, <1>6 DEF Next

-----------------------------------------------------------------------------
(* The status of an incident.                                               *)

(* The incidents a thread will still write the final status of: all its     *)
(* tasks but the one it is about to release.                                *)
Pending(s) ==
  {s.tasks[k].id : k \in DOMAIN s.tasks \ (IF s.step = "release" THEN {1} ELSE {})}

StatusInv ==
  \A id \in DOMAIN folder :
    folder[id].state = "final" \/ id \in lost \/ \E r \in Request : id \in Pending(req[r])

LEMMA StatusKept ==
  ASSUME IInv, StatusInv, NEW r \in Request, NEW new, Become(r, new),
         \A id \in DOMAIN folder' \cap Pending(req[r]) :
           id \in Pending(new) \/ id \in lost' \/ folder'[id].state = "final",
         \A id \in DOMAIN folder' :
           \/ /\ id \in DOMAIN folder /\ folder'[id].state = folder[id].state
              /\ id \in lost => id \in lost'
           \/ folder'[id].state = "final" \/ id \in Pending(new)
  PROVE  StatusInv'
<1>1. req'[r] = new /\ \A q \in Request : q # r => req'[q] = req[q]
  BY Shape DEF IInv, Become
<1>2. SUFFICES ASSUME NEW id \in DOMAIN folder', folder'[id].state # "final", id \notin lost'
               PROVE  \E q \in Request : id \in Pending(req'[q])
  BY DEF StatusInv
<1>3. CASE id \in Pending(new)
  BY <1>1, <1>3
<1>4. CASE id \notin Pending(new)
  <2>1. PICK q \in Request : id \in Pending(req[q])
    BY <1>2, <1>4 DEF StatusInv
  <2>2. q # r
    BY <1>2, <1>4, <2>1
  <2>3. QED
    BY <1>1, <2>1, <2>2
<1>5. QED
  BY <1>3, <1>4

(* The requests in progress: no task is dropped, unless it is marked lost.  *)
LEMMA RequestStatus ==
  ASSUME IInv, StatusInv, NEW r \in Request,
         NEW new, Become(r, new), UNCHANGED folder, lost \subseteq lost',
         \A id \in Pending(req[r]) : id \in Pending(new) \/ id \in lost'
  PROVE  StatusInv'
BY StatusKept

LEMMA QuietStatus ==
  ASSUME IInv, StatusInv, NEW r \in Request,
         \/ \E payload \in Payloads : Receive(r, payload)
         \/ Resolved(r) \/ Repeated(r) \/ Reserve(r) \/ Answer(r)
  PROVE  StatusInv'
<1>1. req[r] \in State /\ Sound(req[r])
  BY Shape DEF IInv
<1>2. UNCHANGED <<folder, lost>>
  BY DEF Receive, Resolved, Repeated, Reserve, Answer
<1>3. PICK new : Become(r, new) /\ new.tasks = req[r].tasks /\ new.step # "release"
  <2>1. CASE \E payload \in Payloads : Receive(r, payload)
    <3>1. PICK payload \in Payloads : Receive(r, payload)
      BY <2>1
    <3>2. req[r].tasks = <<>>
      BY <1>1, <3>1 DEF Receive, Sound
    <3>3. [Idle EXCEPT !.step = "alerts", !.todo = payload].tasks = <<>>
      BY DEF Idle
    <3>4. [Idle EXCEPT !.step = "alerts", !.todo = payload].step = "alerts"
      BY DEF Idle
    <3>5. QED
      BY <3>1, <3>2, <3>3, <3>4 DEF Receive
  <2>2. CASE Resolved(r) \/ Repeated(r)
    <3>1. NextNotice(r).tasks = req[r].tasks /\ NextNotice(r).step = "alerts"
      BY <1>1 DEF NextNotice, State
    <3>2. QED
      BY <2>2, <3>1 DEF Resolved, Repeated
  <2>3. CASE Reserve(r)
    <3>1. /\ [req[r] EXCEPT !.step = "open"].tasks = req[r].tasks
          /\ [req[r] EXCEPT !.step = "open"].step = "open"
      BY <1>1 DEF State
    <3>2. QED
      BY <2>3, <3>1 DEF Reserve
  <2>4. CASE Answer(r)
    <3>1. NextTask(req[r].tasks).tasks = req[r].tasks /\ NextTask(req[r].tasks).step # "release"
      BY DEF NextTask, Idle
    <3>2. QED
      BY <2>4, <3>1 DEF Answer
  <2>5. QED
    BY <2>1, <2>2, <2>3, <2>4
<1>4. Pending(req[r]) \subseteq Pending(new)
  BY <1>3 DEF Pending
<1>5. QED
  BY <1>2, <1>3, <1>4, RequestStatus

LEMMA TooSoonStatus ==
  ASSUME IInv, StatusInv, NEW r \in Request, RepeatedTooSoon(r) PROVE StatusInv'
<1>1. \A id \in Pending(req[r]) : id \in lost'
  BY DEF RepeatedTooSoon, Pending
<1>2. QED
  BY <1>1, RequestStatus DEF RepeatedTooSoon

LEMMA OpenStatus ==
  ASSUME IInv, StatusInv, NEW r \in Request, Open(r) PROVE StatusInv'
<1> DEFINE old == req[r]
           id == running[First(r).alert]
           item == [id |-> id, alert |-> First(r).alert]
           new == [NextNotice(r) EXCEPT !.tasks = Append(@, item)]
<1>1. old \in State /\ old.tasks \in Seq(Task) /\ old.step = "open"
  BY Shape DEF IInv, State, Open
<1>2. new.step = "alerts" /\ new.tasks = Append(old.tasks, item)
  BY <1>1 DEF NextNotice, State
<1>3. Become(r, new) /\ lost' = lost \ {id} /\ DOMAIN folder' = DOMAIN folder \cup {id}
  BY DEF Open
<1>4. \A i \in DOMAIN folder' : i # id => i \in DOMAIN folder /\ folder'[i] = folder[i]
  BY DEF Open
<1>5. item.id = id
  OBVIOUS
<1> HIDE DEF old, id, item, new
<1>6. /\ DOMAIN new.tasks = 1..(Len(old.tasks) + 1) /\ DOMAIN old.tasks = 1..Len(old.tasks)
      /\ Len(old.tasks) \in Nat /\ new.tasks[Len(old.tasks) + 1] = item
      /\ \A k \in 1..Len(old.tasks) : new.tasks[k] = old.tasks[k]
  BY <1>1, <1>2
<1>7. id \in Pending(new)
  BY <1>2, <1>5, <1>6 DEF Pending
<1>8. Pending(old) \subseteq Pending(new)
  BY <1>1, <1>2, <1>6 DEF Pending
<1>9. QED
  BY <1>3, <1>4, <1>7, <1>8, StatusKept DEF old

(* The end of an incident: its status is final, the rest is as it was.      *)
LEMMA EndStatus ==
  ASSUME IInv, StatusInv, NEW r \in Request, NoAgent(r) \/ AgentEnds(r) PROVE StatusInv'
<1> DEFINE old == req[r]
           new == [req[r] EXCEPT !.step = "release"]
<1>1. /\ old \in State /\ Sound(old) /\ old.step \in {"collect", "agent"} /\ Become(r, new)
      /\ WriteStatus(r, "final") /\ UNCHANGED lost
  BY Shape DEF IInv, NoAgent, AgentEnds
<1>2. new.step = "release" /\ new.tasks = old.tasks
  BY <1>1 DEF State
<1>3. Current(r) = old.tasks[1]
  BY <1>1, Rest DEF Current, Sound, Working, State
<1>4. /\ DOMAIN folder' = DOMAIN folder
      /\ \A id \in DOMAIN folder : id # Current(r).id => folder'[id] = folder[id]
      /\ \A id \in DOMAIN folder : id = Current(r).id => folder'[id].state = "final"
  <2>1. \A f \in Folder : [f EXCEPT !.state = "final"].state = "final"
    BY DEF Folder
  <2>2. \A id \in DOMAIN folder : folder[id] \in Folder
    BY DEF IInv, TypeOK
  <2>3. QED
    BY <1>1, <2>1, <2>2 DEF WriteStatus
<1> HIDE DEF old, new
<1>5. \A id \in Pending(old) : id \in Pending(new) \/ id = Current(r).id
  BY <1>2, <1>3 DEF Pending
<1>6. QED
  BY <1>1, <1>4, <1>5, StatusKept DEF old

LEMMA StartStatus ==
  ASSUME IInv, StatusInv, NEW r \in Request, StartAgent(r) PROVE StatusInv'
<1> DEFINE old == req[r]
           new == [req[r] EXCEPT !.step = "agent"]
<1>1. /\ old \in State /\ Sound(old) /\ old.step = "collect" /\ Become(r, new)
      /\ WriteStatus(r, "running") /\ UNCHANGED lost
  BY Shape DEF IInv, StartAgent
<1>2. new.step = "agent" /\ new.tasks = old.tasks
  BY <1>1 DEF State
<1>3. Current(r) = old.tasks[1] /\ 1 \in DOMAIN old.tasks
  BY <1>1, Rest DEF Current, Sound, Working, State
<1>4. /\ DOMAIN folder' = DOMAIN folder
      /\ \A id \in DOMAIN folder : id # Current(r).id => folder'[id] = folder[id]
  BY <1>1 DEF WriteStatus
<1> HIDE DEF old, new
<1>5. Pending(old) \subseteq Pending(new) /\ Current(r).id \in Pending(new)
  BY <1>1, <1>2, <1>3 DEF Pending
<1>6. QED
  BY <1>1, <1>4, <1>5, StatusKept DEF old

LEMMA ReleaseStatus ==
  ASSUME IInv, StatusInv, NEW r \in Request, Release(r) PROVE StatusInv'
<1> DEFINE old == req[r]
           new == NextTask(Tail(req[r].tasks))
<1>1. /\ old \in State /\ Sound(old) /\ old.step = "release" /\ Become(r, new)
      /\ UNCHANGED <<folder, lost>>
  BY Shape DEF IInv, Release
<1>2. old.tasks \in Seq(Task) /\ old.tasks # <<>>
  BY <1>1 DEF State, Sound, Working
<1>3. new.tasks = Tail(old.tasks) /\ new.step # "release"
  BY DEF NextTask, Idle
<1> HIDE DEF old, new
<1>4. /\ DOMAIN old.tasks = 1..Len(old.tasks) /\ Len(old.tasks) \in Nat
      /\ DOMAIN Tail(old.tasks) = 1..(Len(old.tasks) - 1)
      /\ \A k \in 1..(Len(old.tasks) - 1) : Tail(old.tasks)[k] = old.tasks[k + 1]
  BY <1>2
<1>5. ASSUME NEW k \in DOMAIN old.tasks \ {1} PROVE old.tasks[k].id \in Pending(new)
  <2>1. k - 1 \in 1..(Len(old.tasks) - 1) /\ (k - 1) + 1 = k
    BY <1>4
  <2>2. new.tasks[k - 1] = old.tasks[k] /\ k - 1 \in DOMAIN new.tasks
    BY <1>3, <1>4, <2>1
  <2>3. QED
    BY <1>3, <2>2 DEF Pending
<1>6. Pending(old) \subseteq Pending(new)
  BY <1>1, <1>5 DEF Pending
<1>7. QED
  BY <1>1, <1>6, RequestStatus DEF old

LEMMA CrashStatus == ASSUME IInv, StatusInv, Crash PROVE StatusInv'
<1>1. UNCHANGED folder /\ lost \subseteq lost'
  BY DEF Crash
<1>2. \A r \in Request : Pending(req[r]) \subseteq lost'
  BY DEF Crash, Pending
<1>3. QED
  BY <1>1, <1>2 DEF StatusInv

LEMMA StatusInductive == IInv /\ StatusInv /\ [Next]_vars => StatusInv'
<1> SUFFICES ASSUME IInv, StatusInv, [Next]_vars PROVE StatusInv'
  OBVIOUS
<1>1. ASSUME NEW r \in Request, Step(r) PROVE StatusInv'
  BY <1>1, QuietStatus, TooSoonStatus, OpenStatus, EndStatus, StartStatus, ReleaseStatus DEF Step
<1>2. ASSUME NEW r \in Request, NEW payload \in Payloads, Receive(r, payload) PROVE StatusInv'
  BY <1>2, QuietStatus
<1>3. CASE Crash
  BY <1>3, CrashStatus
<1>4. CASE Tick \/ UNCHANGED vars
  BY <1>4 DEF Tick, vars, StatusInv
<1>5. QED
  BY <1>1, <1>2, <1>3, <1>4 DEF Next

-----------------------------------------------------------------------------
(* The theorems.                                                            *)

(* Reservations and threads agree in every reachable state: `_running`      *)
(* holds what some thread works on before anybody may reserve it again.     *)
THEOREM Invariance == Spec => []IInv
<1>1. QED
  BY InitInv, Inductive, PTL DEF Spec

(* _running, the directories and the threads are always of their kinds.     *)
THEOREM Typing == Spec => []TypeOK
<1>1. IInv => TypeOK
  BY DEF IInv
<1>2. QED
  BY <1>1, Invariance, PTL

(* No alert ever has two handlers at work or waiting to work, for any       *)
(* number of threads and any notifications, repeated or resolved.           *)
THEOREM NoSecondHandler == Spec => []OneHandler
<1>1. IInv => OneHandler
  <2>1. \A r \in Request : Opening(r) = OpeningOf(req[r]) /\ Handling(r) = HandlingOf(req[r])
    BY DEF Opening, Handling, OpeningOf, HandlingOf, First
  <2>2. QED
    BY <2>1 DEF IInv, OneHandler, Sound
<1>2. QED
  BY <1>1, Invariance, PTL

(* Every incident gets its final status or has a handler that will write it *)
(* - a dry run, a failure before the agent and an agent that is killed for  *)
(* its time included - unless a crash or an error dropped the handler.      *)
THEOREM StatusIsWritten == Spec => []StatusIsLeft
<1>1. Init => StatusInv
  BY DEF Init, StatusInv
<1>2. StatusInv => StatusIsLeft
  BY DEF StatusInv, StatusIsLeft, Pending
<1>3. QED
  BY <1>1, <1>2, Invariance, StatusInductive, PTL DEF Spec
=============================================================================
