----------------------------- MODULE AgentRelay -----------------------------
(***************************************************************************)
(* The Agent Relay task store (module3/storage.py and module3/database.py) *)
(* on SQLite: `immediate_transaction` opens every writer with BEGIN        *)
(* IMMEDIATE, so each operation below is one indivisible step.  The        *)
(* interleavings PostgreSQL allows inside an operation are in              *)
(* RelayPostgres.                                                          *)
(*                                                                         *)
(* Abstractions.  A refusal (404, 409) rolls its transaction back and      *)
(* changes nothing, so an operation is an action only for the requests it  *)
(* grants; CreateReply, HeartbeatReply and TerminalReply say what every    *)
(* request is answered.  A claim token is a fresh secret: it is named by   *)
(* the task and the row it is drawn for.  A payload stands for its digest. *)
(* `finished` is whether finished_at is set.  worker_id, the agents' names *)
(* and last_seen_at (written by `authenticate` in an earlier transaction   *)
(* of its own) are left out.                                               *)
(***************************************************************************)
EXTENDS Integers, Sequences, FiniteSets

CONSTANTS
  Agent,          \* agent identities that may register
  TaskId,         \* ids new_id("task") may draw, ordered as the id column is
  Input,          \* task inputs
  Payload,        \* outputs and error texts a worker may submit
  Key, NoKey,     \* Idempotency-Key values, and the header left out
  NULL,           \* SQL NULL
  LeaseSeconds,   \* the RELAY_LEASE_SECONDS the server may be started with
  MaxAttempts,    \* the RELAY_MAX_ATTEMPTS the server may be started with
  Horizon         \* bound: the clock stops here, every lease ends by then

ASSUME ConstantsAssumption ==
  /\ TaskId \subseteq Nat
  /\ NoKey \notin Key
  /\ NULL \notin Payload \cup Agent \cup Input
  /\ "attempts_exhausted" # NULL
  /\ NULL \notin TaskId \X Nat            \* nor is it a claim token
  /\ LeaseSeconds \subseteq Nat \ {0}     \* positive_int, database.py:30-35
  /\ MaxAttempts \subseteq Nat \ {0}
  /\ LeaseSeconds # {} /\ MaxAttempts # {}
  /\ Horizon \in Nat

VARIABLES
  now,            \* server clock
  lease_seconds,  \* LEASE_SECONDS of the running server
  max_attempts,   \* MAX_ATTEMPTS of the running server
  registered,     \* rows of the agents table
  task,           \* the tasks table, by id
  attempts,       \* the attempts table: for each task, its rows in insertion order
  acked           \* history: the terminal submissions answered 200, by task

vars == <<now, lease_seconds, max_attempts, registered, task, attempts, acked>>
config == <<lease_seconds, max_attempts>>

TaskStatus == {"absent", "queued", "processing", "completed", "failed"}
Outcome == {"processing", "completed", "failed", "expired"}
Action == {"complete", "fail"}
Token == TaskId \X (Nat \ {0})

Task == [sender: Agent \cup {NULL}, recipient: Agent \cup {NULL},
         input: Input \cup {NULL}, key: Key \cup {NoKey},
         status: TaskStatus, output: Payload \cup {NULL},
         error: Payload \cup {NULL, "attempts_exhausted"},
         attempt_count: Nat, created_at: Nat, finished: BOOLEAN]

Attempt == [attempt_number: Nat, claim_token: Token, lease_expires_at: Nat,
            outcome: Outcome, terminal_action: Action \cup {NULL},
            terminal_payload: Payload \cup {NULL}]

Submission == [claim_token: Token, action: Action, value: Payload]

(* An id no row uses yet.                                                  *)
NoTask == [sender |-> NULL, recipient |-> NULL, input |-> NULL, key |-> NoKey,
           status |-> "absent", output |-> NULL, error |-> NULL,
           attempt_count |-> 0, created_at |-> 0, finished |-> FALSE]

Exists(t) == task[t].status # "absent"

Init ==
  /\ now = 0
  /\ lease_seconds \in LeaseSeconds
  /\ max_attempts \in MaxAttempts
  /\ registered = {}
  /\ task = [t \in TaskId |-> NoTask]
  /\ attempts = [t \in TaskId |-> <<>>]
  /\ acked = [t \in TaskId |-> {}]

-----------------------------------------------------------------------------
(* Registration and task creation.                                         *)

Register(a) ==
  /\ a \notin registered
  /\ registered' = registered \cup {a}
  /\ UNCHANGED <<now, config, task, attempts, acked>>

(* The tasks a (sender, Idempotency-Key) pair already names.               *)
Existing(s, k) ==
  {t \in TaskId : k # NoKey /\ Exists(t) /\ task[t].sender = s /\ task[t].key = k}

(* What _create_task answers: a refusal, or the set of ids it may return.  *)
CreateReply(s, r, in, k) ==
  IF r \notin registered THEN "not_found"
  ELSE IF \E t \in Existing(s, k) : task[t].recipient # r \/ task[t].input # in
       THEN "idempotency_conflict"
  ELSE IF Existing(s, k) # {} THEN "existing"
  ELSE "created"

(* Only the request that inserts a row changes the store.                  *)
CreateTask(s, r, in, k) ==
  /\ s \in registered
  /\ CreateReply(s, r, in, k) = "created"
  /\ \E t \in TaskId :
       /\ ~Exists(t)
       /\ task' = [task EXCEPT ![t] =
            [NoTask EXCEPT !.sender = s, !.recipient = r, !.input = in,
                           !.key = k, !.status = "queued", !.created_at = now]]
  /\ UNCHANGED <<now, config, registered, attempts, acked>>

-----------------------------------------------------------------------------
(* Lease recovery: recover_expired_in_session at the current time.         *)

(* The rows the scan finds and the re-read under lock confirms.            *)
Expired(t) ==
  {i \in DOMAIN attempts[t] : /\ attempts[t][i].outcome = "processing"
                              /\ attempts[t][i].lease_expires_at <= now}

(* Fault form: the delivery limit is forgotten.                            *)
RecoveredTaskStuckAtLimit(t) ==
  IF Expired(t) # {} /\ task[t].attempt_count < max_attempts
  THEN [task[t] EXCEPT !.status = "queued"] ELSE task[t]

RecoveredTask(t) ==
  IF Expired(t) # {} /\ task[t].status = "processing"
  THEN IF task[t].attempt_count >= max_attempts
       THEN [task[t] EXCEPT !.status = "failed", !.error = "attempts_exhausted",
                            !.output = NULL, !.finished = TRUE]
       ELSE [task[t] EXCEPT !.status = "queued", !.finished = FALSE]
  ELSE task[t]

(* Fault form: the task is requeued and its attempt left open.             *)
AttemptsLeftOpen(t) == attempts[t]

RecoveredAttempts(t) ==
  [i \in DOMAIN attempts[t] |->
     IF i \in Expired(t) THEN [attempts[t][i] EXCEPT !.outcome = "expired"]
                         ELSE attempts[t][i]]

(* One pass of the background recovery loop.                               *)
Recover ==
  /\ task' = [t \in TaskId |-> RecoveredTask(t)]
  /\ attempts' = [t \in TaskId |-> RecoveredAttempts(t)]
  /\ UNCHANGED <<now, config, registered, acked>>

-----------------------------------------------------------------------------
(* Claiming.                                                               *)

(* The tasks of recipient a that are queued once recovery has run.         *)
Queue(a) ==
  {t \in TaskId : RecoveredTask(t).status = "queued" /\ task[t].recipient = a}

Before(t, u) ==
  \/ task[t].created_at < task[u].created_at
  \/ task[t].created_at = task[u].created_at /\ t <= u

IsOldest(t, S) == t \in S /\ \A u \in S : Before(t, u)

(* Fault form: the claim token is drawn once for a task.                   *)
NewAttemptSameToken(t) ==
  [attempt_number |-> task[t].attempt_count + 1, claim_token |-> <<t, 1>>,
   lease_expires_at |-> now + lease_seconds, outcome |-> "processing",
   terminal_action |-> NULL, terminal_payload |-> NULL]

NewAttempt(t) ==
  [attempt_number |-> task[t].attempt_count + 1,
   claim_token |-> <<t, Len(attempts[t]) + 1>>,
   lease_expires_at |-> now + lease_seconds, outcome |-> "processing",
   terminal_action |-> NULL, terminal_payload |-> NULL]

(* No work: 204, and the recovery the transaction began with is committed. *)
ClaimNothing(a) ==
  /\ a \in registered
  /\ Queue(a) = {}
  /\ Recover

(* The oldest task has used up a limit that was lowered since it was last  *)
(* requeued: it fails, and this claim is answered 204.                     *)
ClaimExhausted(a, t) ==
  /\ a \in registered
  /\ IsOldest(t, Queue(a))
  /\ task[t].attempt_count >= max_attempts
  /\ task' = [u \in TaskId |->
       IF u = t THEN [RecoveredTask(t) EXCEPT !.status = "failed",
                        !.error = "attempts_exhausted", !.finished = TRUE]
                ELSE RecoveredTask(u)]
  /\ attempts' = [u \in TaskId |-> RecoveredAttempts(u)]
  /\ UNCHANGED <<now, config, registered, acked>>

(* Fault form: the limit is left to recovery.                              *)
ClaimBeyondLimit(a, t) ==
  /\ a \in registered /\ IsOldest(t, Queue(a))
  /\ now + lease_seconds <= Horizon
  /\ task' = [u \in TaskId |->
       IF u = t THEN [RecoveredTask(t) EXCEPT !.status = "processing",
                                              !.attempt_count = @ + 1]
                ELSE RecoveredTask(u)]
  /\ attempts' = [u \in TaskId |->
       IF u = t THEN Append(RecoveredAttempts(t), NewAttempt(t))
                ELSE RecoveredAttempts(u)]
  /\ UNCHANGED <<now, config, registered, acked>>

(* A delivery: the oldest queued task gets its next attempt.               *)
Claim(a, t) ==
  /\ a \in registered
  /\ IsOldest(t, Queue(a))
  /\ task[t].attempt_count < max_attempts
  /\ now + lease_seconds <= Horizon
  /\ task' = [u \in TaskId |->
       IF u = t THEN [RecoveredTask(t) EXCEPT !.status = "processing",
                                              !.attempt_count = @ + 1]
                ELSE RecoveredTask(u)]
  /\ attempts' = [u \in TaskId |->
       IF u = t THEN Append(RecoveredAttempts(t), NewAttempt(t))
                ELSE RecoveredAttempts(u)]
  /\ UNCHANGED <<now, config, registered, acked>>

-----------------------------------------------------------------------------
(* Requests that present a claim token.  Any worker of the recipient may   *)
(* still hold any token ever issued, however old.                          *)

Issued ==
  UNION {{attempts[t][i].claim_token : i \in DOMAIN attempts[t]} : t \in TaskId}

Held(t, token) ==
  {i \in DOMAIN attempts[t] : attempts[t][i].claim_token = token}

(* Fault forms: one test of the three is left.                             *)
LiveWithoutDeadline(t, i) ==
  attempts[t][i].outcome = "processing" /\ task[t].status = "processing"
LiveByTaskOnly(t, i) == task[t].status = "processing"

(* The attempt may still be extended or closed: it and its task are        *)
(* processing and its lease has not run out, recovered yet or not.         *)
Live(t, i) ==
  /\ attempts[t][i].outcome = "processing"
  /\ task[t].status = "processing"
  /\ attempts[t][i].lease_expires_at > now

HeartbeatReply(t, a, token) ==
  IF ~Exists(t) \/ task[t].recipient # a THEN "not_found"
  ELSE IF \E i \in Held(t, token) : Live(t, i) THEN "ok"
  ELSE "stale_claim"

Heartbeat(t, a, token) ==
  /\ HeartbeatReply(t, a, token) = "ok"
  /\ now + lease_seconds <= Horizon
  /\ \E i \in Held(t, token) :
       attempts' = [attempts EXCEPT ![t][i].lease_expires_at = now + lease_seconds]
  /\ UNCHANGED <<now, config, registered, task, acked>>

(* Fault form: the digest of the payload is not compared.                  *)
RepeatsAnyPayload(t, i, action, value) == attempts[t][i].terminal_action = action

(* A closed attempt recognises its own submission whatever the time.       *)
Closed(t, i) == attempts[t][i].outcome \in {"completed", "failed"}

Repeats(t, i, action, value) ==
  /\ attempts[t][i].terminal_action = action
  /\ attempts[t][i].terminal_payload = value

(* Fault form: the deadline is looked at before the earlier submission.    *)
TerminalReplyDeadlineFirst(t, a, token, action, value) ==
  IF ~Exists(t) \/ task[t].recipient # a THEN "not_found"
  ELSE IF \E i \in Held(t, token) : Live(t, i) THEN "accepted"
  ELSE IF \E i \in Held(t, token) : /\ Repeats(t, i, action, value)
                                     /\ attempts[t][i].lease_expires_at > now
       THEN "repeated"
  ELSE "stale_claim"

TerminalReply(t, a, token, action, value) ==
  IF ~Exists(t) \/ task[t].recipient # a THEN "not_found"
  ELSE IF \E i \in Held(t, token) : Closed(t, i) /\ Repeats(t, i, action, value)
       THEN "repeated"
  ELSE IF \E i \in Held(t, token) : Closed(t, i) THEN "conflicting_terminal"
  ELSE IF \E i \in Held(t, token) : Live(t, i) THEN "accepted"
  ELSE "stale_claim"

Acknowledge(t, token, action, value) ==
  acked' = [acked EXCEPT ![t] =
    @ \cup {[claim_token |-> token, action |-> action, value |-> value]}]

(* The submission that closes the attempt and the task.                    *)
CommitTerminal(t, a, token, action, value) ==
  /\ TerminalReply(t, a, token, action, value) = "accepted"
  /\ LET done == IF action = "complete" THEN "completed" ELSE "failed" IN
     /\ task' = [task EXCEPT ![t] =
          [@ EXCEPT !.output = IF action = "complete" THEN value ELSE NULL,
                    !.error = IF action = "complete" THEN NULL ELSE value,
                    !.status = done, !.finished = TRUE]]
     /\ \E i \in Held(t, token) :
          attempts' = [attempts EXCEPT ![t][i] =
            [@ EXCEPT !.outcome = done, !.terminal_action = action,
                      !.terminal_payload = value]]
  /\ Acknowledge(t, token, action, value)
  /\ UNCHANGED <<now, config, registered>>

(* A submission that is answered 200 because it was accepted before.       *)
RepeatTerminal(t, a, token, action, value) ==
  /\ TerminalReply(t, a, token, action, value) = "repeated"
  /\ Acknowledge(t, token, action, value)
  /\ UNCHANGED <<now, config, registered, task, attempts>>

-----------------------------------------------------------------------------
Tick ==
  /\ now < Horizon
  /\ now' = now + 1
  /\ UNCHANGED <<config, registered, task, attempts, acked>>

(* The server stops and starts, perhaps with another configuration: every  *)
(* row is in the database and nothing else is remembered.                  *)
Restart ==
  /\ lease_seconds' \in LeaseSeconds
  /\ max_attempts' \in MaxAttempts
  /\ UNCHANGED <<now, registered, task, attempts, acked>>

TokenRequest(t, a, token) ==
  \/ Heartbeat(t, a, token)
  \/ \E action \in Action, value \in Payload :
       \/ CommitTerminal(t, a, token, action, value)
       \/ RepeatTerminal(t, a, token, action, value)

Next ==
  \/ \E a \in Agent : Register(a)
  \/ \E s, r \in Agent, in \in Input, k \in Key \cup {NoKey} : CreateTask(s, r, in, k)
  \/ \E a \in Agent : ClaimNothing(a)
  \/ \E a \in Agent, t \in TaskId : ClaimExhausted(a, t) \/ Claim(a, t)
  \/ \E t \in TaskId, a \in Agent, token \in Issued : TokenRequest(t, a, token)
  \/ Recover
  \/ Tick
  \/ Restart

Spec == Init /\ [][Next]_vars

(* Time passes, and the recovery loop keeps running: recovery_loop starts  *)
(* another pass after every interval and survives a pass that fails.       *)
Fairness == WF_vars(Tick) /\ WF_vars(Recover)

FairSpec == Spec /\ Fairness

-----------------------------------------------------------------------------
(* Properties.                                                             *)

(* Every column holds a value of its kind.                                 *)
TypeOK ==
  /\ now \in Nat
  /\ lease_seconds \in LeaseSeconds
  /\ max_attempts \in MaxAttempts
  /\ registered \subseteq Agent
  /\ task \in [TaskId -> Task]
  /\ attempts \in [TaskId -> Seq(Attempt)]
  /\ acked \in [TaskId -> SUBSET Submission]

(* The attempts of a task are numbered 1, 2, ... as its attempt_count says *)
(* (the unique constraint on task_id, attempt_number can never fire), and  *)
(* every one but the last has been given up as expired.                    *)
AttemptsNumbered ==
  \A t \in TaskId :
    /\ Len(attempts[t]) = task[t].attempt_count
    /\ \A i \in DOMAIN attempts[t] :
         /\ attempts[t][i].attempt_number = i
         /\ attempts[t][i].claim_token = <<t, i>>
         /\ i < Len(attempts[t]) => attempts[t][i].outcome = "expired"

Last(t) == attempts[t][Len(attempts[t])]

(* A task's status and its last attempt tell one story: two tables, written *)
(* by four operations, that no foreign key keeps together.                  *)
StatusMatchesAttempt ==
  \A t \in TaskId :
    /\ task[t].status = "absent" => attempts[t] = <<>>
    /\ task[t].status \in {"processing", "completed"} =>
         attempts[t] # <<>> /\ Last(t).outcome = task[t].status
    /\ task[t].status = "queued" /\ attempts[t] # <<>> =>
         Last(t).outcome = "expired"
    /\ task[t].status = "failed" =>
         /\ attempts[t] # <<>>
         /\ \/ Last(t).outcome = "failed" /\ task[t].error = Last(t).terminal_payload
            \/ Last(t).outcome = "expired" /\ task[t].error = "attempts_exhausted"

(* Concurrent workers never hold unexpired leases on one task (SPEC.md:108): *)
(* no two attempts of a task are both open at a time.                       *)
OneActiveLease ==
  \A t \in TaskId : \A i, j \in DOMAIN attempts[t] :
    /\ attempts[t][i].outcome = "processing"
    /\ attempts[t][j].outcome = "processing"
    => i = j

(* A lease is never taken away before its deadline: what recovery expired   *)
(* had run out, renewals included (SPEC.md:214, scenario 6).                *)
NeverExpiredEarly ==
  \A t \in TaskId : \A i \in DOMAIN attempts[t] :
    attempts[t][i].outcome = "expired" => attempts[t][i].lease_expires_at <= now

(* Every 200 a worker ever got for a terminal submission is still what the  *)
(* sender reads, and no second, different result was ever acknowledged.     *)
AcknowledgedIsStored ==
  \A t \in TaskId : \A m \in acked[t] :
    IF m.action = "complete"
    THEN task[t].status = "completed" /\ task[t].output = m.value /\ task[t].error = NULL
    ELSE task[t].status = "failed" /\ task[t].error = m.value /\ task[t].output = NULL

(* Once accepted, the same submission is answered 200 at any later time,    *)
(* past its deadline, after recoveries and restarts, and every other one    *)
(* with that token is refused (SPEC.md:150).                                *)
RetriesStayAccepted ==
  \A t \in TaskId : \A m \in acked[t] : \A action \in Action, value \in Payload :
    TerminalReply(t, task[t].recipient, m.claim_token, action, value) =
      IF action = m.action /\ value = m.value THEN "repeated" ELSE "conflicting_terminal"

(* An unfinished task has no output, error or finish time, a failed one an  *)
(* error and no output (SPEC.md:171), through every requeue.                *)
FieldsMatchStatus ==
  \A t \in TaskId :
    /\ task[t].finished <=> task[t].status \in {"completed", "failed"}
    /\ task[t].status = "completed" <=> task[t].output # NULL
    /\ task[t].status = "failed" <=> task[t].error # NULL

(* Idempotency-Key values name at most one task of a sender, the last guard *)
(* being the unique constraint uq_task_sender_idempotency.                  *)
KeyNamesOneTask ==
  \A t, u \in TaskId :
    /\ Exists(t) /\ Exists(u)
    /\ task[t].key # NoKey
    /\ task[t].key = task[u].key /\ task[t].sender = task[u].sender
    => t = u

(* A delivery never goes beyond the limit in force, even when the server    *)
(* was restarted with a lower one after the task was requeued.              *)
DeliveriesWithinLimit ==
  [][\A t \in TaskId :
       task'[t].attempt_count > task[t].attempt_count =>
         task'[t].attempt_count <= max_attempts]_vars

(* A lease that has run out stays as it is until it is recovered: it is not *)
(* renewed and no result is accepted on it, even before recovery has run    *)
(* (SPEC.md:124, 190).                                                      *)
ExpiredLeaseIsDead ==
  [][\A t \in TaskId : \A i \in DOMAIN attempts[t] :
       attempts[t][i].outcome = "processing" /\ attempts[t][i].lease_expires_at <= now =>
         \/ attempts'[t][i] = attempts[t][i]
         \/ attempts'[t][i].outcome = "expired"]_vars

(* A finished task never changes again: no result replaces another, no      *)
(* finished task is delivered once more.                                    *)
FinishedIsFinal ==
  [][\A t \in TaskId :
       task[t].status \in {"completed", "failed"} =>
         task'[t] = task[t] /\ attempts'[t] = attempts[t]]_vars

(* A claimed task does not stay with a worker that fell silent: once the    *)
(* renewals stop it is completed, failed, or queued for somebody else.      *)
SilentWorkerLosesTask ==
  \A t \in TaskId : task[t].status = "processing" ~> task[t].status # "processing"

-----------------------------------------------------------------------------
(* The relay implements DeliveryContract: the holder is the token of the    *)
(* open attempt, the result is read from the task, its author is the token  *)
(* of the attempt that was closed with it.                                  *)
Holder(row, rows) ==
  IF row.status = "processing" THEN rows[Len(rows)].claim_token ELSE NULL

Author(rows) ==
  IF rows[Len(rows)].outcome \in {"completed", "failed"}
  THEN rows[Len(rows)].claim_token ELSE NULL

Result(row, rows) ==
  IF row.status \in {"completed", "failed"}
  THEN [by |-> Author(rows), status |-> row.status,
        value |-> IF row.status = "completed" THEN row.output ELSE row.error]
  ELSE NULL

Delivery(row, rows) ==
  [holder |-> Holder(row, rows), deliveries |-> row.attempt_count,
   result |-> Result(row, rows)]

Contract == INSTANCE DeliveryContract
              WITH delivery <- [t \in TaskId |-> Delivery(task[t], attempts[t])]

(* Tables, leases, recovery and restarts only ever make moves the contract  *)
(* of a delivery allows.                                                    *)
ImplementsContract == Contract!Spec
=============================================================================
