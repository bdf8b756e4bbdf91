-------------------------- MODULE AgentRelayProofs --------------------------
(***************************************************************************)
(* Proofs about AgentRelay for every value of its constants.  The          *)
(* inductive invariant is stated task by task: RowInv relates one row of   *)
(* the tasks table, its attempts and the submissions acknowledged for it,  *)
(* so that an action is reasoned about at the tasks it touches.  Then the  *)
(* store is shown to implement DeliveryContract.  The last part is about    *)
(* the relay with its workers: the composition is a behaviour of           *)
(* AgentRelay, so what was proved of the store holds; what workers count   *)
(* is stored, and two of them never hold live claims on one task.          *)
(***************************************************************************)
EXTENDS RelayWorker, SequenceTheorems, TLAPS

(* What the attempts of task t look like at time n.                        *)
AttemptsInv(t, row, rows, n) ==
  /\ Len(rows) = row.attempt_count
  /\ \A i \in 1..Len(rows) :
       /\ rows[i].attempt_number = i
       /\ rows[i].claim_token = <<t, i>>
       /\ i < Len(rows) => rows[i].outcome = "expired"
       /\ rows[i].outcome = "expired" => rows[i].lease_expires_at <= n

(* No result yet.                                                          *)
Open(row, acks) ==
  row.output = NULL /\ row.error = NULL /\ row.finished = FALSE /\ acks = {}

(* The result is the payload of the last attempt, and it is the only       *)
(* submission ever acknowledged.                                           *)
ClosedBy(t, row, rows, acks, action, value) ==
  /\ Len(rows) # 0
  /\ rows[Len(rows)].terminal_action = action
  /\ rows[Len(rows)].terminal_payload = value
  /\ value # NULL
  /\ row.finished = TRUE
  /\ acks \subseteq {[claim_token |-> <<t, Len(rows)>>, action |-> action, value |-> value]}

(* What each status says about the last attempt and the result.            *)
StatusInv(t, row, rows, acks) ==
  /\ row.status = "absent" => Len(rows) = 0 /\ Open(row, acks)
  /\ row.status = "queued" =>
       /\ Open(row, acks)
       /\ Len(rows) # 0 => rows[Len(rows)].outcome = "expired"
  /\ row.status = "processing" =>
       /\ Open(row, acks)
       /\ Len(rows) # 0 /\ rows[Len(rows)].outcome = "processing"
  /\ row.status = "completed" =>
       /\ ClosedBy(t, row, rows, acks, "complete", row.output)
       /\ rows[Len(rows)].outcome = "completed" /\ row.error = NULL
  /\ row.status = "failed" =>
       /\ row.output = NULL
       /\ \/ /\ ClosedBy(t, row, rows, acks, "fail", row.error)
             /\ rows[Len(rows)].outcome = "failed"
          \/ /\ Len(rows) # 0 /\ rows[Len(rows)].outcome = "expired"
             /\ row.error = "attempts_exhausted" /\ row.finished = TRUE /\ acks = {}

RowInv(t, row, rows, acks, n) ==
  AttemptsInv(t, row, rows, n) /\ StatusInv(t, row, rows, acks)

IInv == TypeOK /\ \A t \in TaskId : RowInv(t, task[t], attempts[t], acked[t], now)

-----------------------------------------------------------------------------
(* A function on 1..Len(s) with values in S is a sequence over S.          *)
LEMMA MapIsSeq ==
  ASSUME NEW S, NEW T, NEW s \in Seq(T), NEW f \in [DOMAIN s -> S]
  PROVE  f \in Seq(S) /\ Len(f) = Len(s)
BY SeqDef, LenProperties

(* Recovery keeps every column typed and every attempt in its place.       *)
LEMMA RecoveredTyped ==
  ASSUME TypeOK, NEW t \in TaskId
  PROVE  /\ RecoveredTask(t) \in Task
         /\ RecoveredAttempts(t) \in Seq(Attempt)
         /\ Len(RecoveredAttempts(t)) = Len(attempts[t])
         /\ DOMAIN RecoveredAttempts(t) = 1..Len(attempts[t])
<1>1. task[t] \in Task /\ attempts[t] \in Seq(Attempt)
  BY DEF TypeOK
<1>2. RecoveredTask(t) \in Task
  BY <1>1 DEF RecoveredTask, Task, TaskStatus
<1>3. \A i \in DOMAIN attempts[t] : attempts[t][i] \in Attempt
  BY <1>1, LenProperties, ElementOfSeq
<1>4. RecoveredAttempts(t) \in [DOMAIN attempts[t] -> Attempt]
  BY <1>3 DEF RecoveredAttempts, Attempt, Outcome
<1>5. QED
  BY <1>1, <1>2, <1>4, MapIsSeq, LenProperties

(* Recovery keeps the invariant of every task.                             *)
LEMMA RecoveredInv ==
  ASSUME IInv, NEW t \in TaskId
  PROVE  RowInv(t, RecoveredTask(t), RecoveredAttempts(t), acked[t], now)
<1> DEFINE row == task[t]
           rows == attempts[t]
<1>1. /\ row \in Task /\ rows \in Seq(Attempt) /\ now \in Nat
      /\ Len(rows) \in Nat /\ DOMAIN rows = 1..Len(rows)
      /\ RowInv(t, row, rows, acked[t], now)
  BY LenProperties DEF IInv, TypeOK
<1>2. \A i \in 1..Len(rows) : rows[i] \in Attempt
  BY <1>1, ElementOfSeq
<1>3. \A i \in 1..Len(rows) : i \in Expired(t) => row.status = "processing" /\ i = Len(rows)
  BY <1>1, <1>2 DEF Expired, RowInv, AttemptsInv, StatusInv, ClosedBy, Task, TaskStatus
<1>4. CASE Expired(t) = {}
  <2>1. RecoveredTask(t) = row
    BY <1>4 DEF RecoveredTask
  <2>2. RecoveredAttempts(t) = rows
    BY <1>4, <1>1 DEF RecoveredAttempts
  <2>3. QED
    BY <1>1, <2>1, <2>2
<1>5. CASE Expired(t) # {}
  <2>1. row.status = "processing" /\ Expired(t) = {Len(rows)} /\ Len(rows) # 0
    BY <1>5, <1>3, <1>1 DEF Expired
  <2>2. /\ Len(RecoveredAttempts(t)) = Len(rows)
        /\ \A i \in 1..Len(rows) : RecoveredAttempts(t)[i] =
             IF i = Len(rows) THEN [rows[i] EXCEPT !.outcome = "expired"] ELSE rows[i]
    BY <2>1, <1>1, RecoveredTyped DEF RecoveredAttempts, IInv
  <2>3. rows[Len(rows)].lease_expires_at <= now
    BY <2>1 DEF Expired
  <2>4. /\ RecoveredTask(t).attempt_count = row.attempt_count
        /\ RecoveredTask(t).output = NULL
        /\ \/ /\ RecoveredTask(t).status = "queued"
              /\ RecoveredTask(t).error = NULL
              /\ RecoveredTask(t).finished = FALSE
           \/ /\ RecoveredTask(t).status = "failed"
              /\ RecoveredTask(t).error = "attempts_exhausted"
              /\ RecoveredTask(t).finished = TRUE
    BY <1>1, <2>1 DEF RowInv, StatusInv, Open, RecoveredTask, Task
  <2>5. rows[Len(rows)] \in Attempt
    BY <1>1, <1>2, <2>1
  <2>6. /\ \A i \in 1..Len(rows) :
             /\ RecoveredAttempts(t)[i].attempt_number = rows[i].attempt_number
             /\ RecoveredAttempts(t)[i].claim_token = rows[i].claim_token
             /\ RecoveredAttempts(t)[i].lease_expires_at = rows[i].lease_expires_at
             /\ i < Len(rows) => RecoveredAttempts(t)[i].outcome = rows[i].outcome
        /\ RecoveredAttempts(t)[Len(rows)].outcome = "expired"
    <3> SUFFICES ASSUME NEW i \in 1..Len(rows)
                 PROVE  /\ RecoveredAttempts(t)[i].attempt_number = rows[i].attempt_number
                        /\ RecoveredAttempts(t)[i].claim_token = rows[i].claim_token
                        /\ RecoveredAttempts(t)[i].lease_expires_at = rows[i].lease_expires_at
                        /\ RecoveredAttempts(t)[i].outcome =
                             IF i = Len(rows) THEN "expired" ELSE rows[i].outcome
      BY <1>1, <2>1
    <3>1. rows[i] \in Attempt
      BY <1>2
    <3> QED
      BY <3>1, <2>2 DEF Attempt
  <2>7. AttemptsInv(t, RecoveredTask(t), RecoveredAttempts(t), now)
    <3> HIDE DEF row, rows
    <3> QED
      BY <1>1, <2>1, <2>2, <2>3, <2>4, <2>6 DEF RowInv, AttemptsInv
  <2>8. StatusInv(t, RecoveredTask(t), RecoveredAttempts(t), acked[t])
    BY <1>1, <2>1, <2>2, <2>4, <2>6 DEF RowInv, StatusInv, Open
  <2>9. QED
    BY <2>7, <2>8 DEF RowInv
<1>6. QED
  BY <1>4, <1>5

-----------------------------------------------------------------------------
(* The initial store has no rows.                                          *)
LEMMA InitInv == Init => IInv
<1> SUFFICES ASSUME Init PROVE IInv
  OBVIOUS
<1>1. NoTask \in Task
  BY DEF NoTask, Task, TaskStatus
<1>2. TypeOK
  BY <1>1, ConstantsAssumption, EmptySeq DEF Init, TypeOK
<1>3. \A t \in TaskId : RowInv(t, task[t], attempts[t], acked[t], now)
  BY EmptySeq DEF Init, RowInv, AttemptsInv, StatusInv, Open, NoTask
<1>4. QED
  BY <1>2, <1>3 DEF IInv

(* Steps that leave the three tables' rows alone.                          *)
LEMMA QuietStep ==
  ASSUME IInv, UNCHANGED <<task, attempts, acked>>, now' \in Nat, now <= now',
         lease_seconds' \in LeaseSeconds, max_attempts' \in MaxAttempts,
         registered' \subseteq Agent
  PROVE  IInv'
<1>1. TypeOK'
  BY DEF IInv, TypeOK
<1>2. ASSUME NEW t \in TaskId
      PROVE  RowInv(t, task[t], attempts[t], acked[t], now')
  <2> attempts[t] \in Seq(Attempt)
    BY DEF IInv, TypeOK
  <2>0. \A i \in 1..Len(attempts[t]) : attempts[t][i] \in Attempt
    BY ElementOfSeq
  <2>1. \A i \in 1..Len(attempts[t]) : attempts[t][i].lease_expires_at \in Nat
    BY <2>0 DEF Attempt
  <2>2. now \in Nat
    BY DEF IInv, TypeOK
  <2>3. QED
    BY <2>1, <2>2 DEF IInv, RowInv, AttemptsInv
<1>3. QED
  BY <1>1, <1>2 DEF IInv

(* A task inserted in a row nobody used.                                   *)
LEMMA CreateStep ==
  ASSUME IInv, NEW s \in Agent, NEW r \in Agent, NEW in \in Input,
         NEW k \in Key \cup {NoKey}, CreateTask(s, r, in, k)
  PROVE  IInv'
<1>1. PICK t \in TaskId :
        /\ ~Exists(t)
        /\ task' = [task EXCEPT ![t] =
             [NoTask EXCEPT !.sender = s, !.recipient = r, !.input = in,
                            !.key = k, !.status = "queued", !.created_at = now]]
  BY DEF CreateTask
<1>2. UNCHANGED <<now, lease_seconds, max_attempts, registered, attempts, acked>>
  BY DEF CreateTask, config
<1>3. /\ task'[t] \in Task
      /\ task'[t].status = "queued" /\ task'[t].attempt_count = 0
      /\ task'[t].output = NULL /\ task'[t].error = NULL /\ task'[t].finished = FALSE
  BY <1>1 DEF IInv, TypeOK, NoTask, Task, TaskStatus
<1>4. TypeOK'
  BY <1>1, <1>2, <1>3 DEF IInv, TypeOK
<1>5. RowInv(t, task'[t], attempts[t], acked[t], now)
  BY <1>1, <1>3 DEF IInv, TypeOK, Exists, RowInv, AttemptsInv, StatusInv, Open
<1>6. \A u \in TaskId : u # t => task'[u] = task[u]
  BY <1>1 DEF IInv, TypeOK
<1>7. QED
  BY <1>2, <1>4, <1>5, <1>6 DEF IInv

(* A recovery pass.                                                        *)
LEMMA RecoverStep ==
  ASSUME IInv, Recover
  PROVE  IInv'
<1>1. TypeOK'
  BY RecoveredTyped DEF IInv, TypeOK, Recover, config
<1>2. QED
  BY <1>1, RecoveredInv DEF IInv, Recover

(* A claim that fails a task whose attempts are used up.                   *)
LEMMA ClaimExhaustedStep ==
  ASSUME IInv, NEW a \in Agent, NEW t \in TaskId, ClaimExhausted(a, t)
  PROVE  IInv'
<1> DEFINE row == RecoveredTask(t)
           rows == RecoveredAttempts(t)
<1>1. /\ row \in Task /\ rows \in Seq(Attempt) /\ Len(rows) = Len(attempts[t])
      /\ Len(attempts[t]) = task[t].attempt_count
      /\ row.status = "queued" /\ max_attempts \in Nat \ {0}
      /\ task[t].attempt_count >= max_attempts
      /\ RowInv(t, row, rows, acked[t], now)
  BY RecoveredTyped, RecoveredInv, ConstantsAssumption
  DEF IInv, TypeOK, ClaimExhausted, IsOldest, Queue, RowInv, AttemptsInv
<1>2. Len(rows) # 0 /\ rows[Len(rows)].outcome = "expired" /\ Open(row, acked[t])
  BY <1>1 DEF RowInv, StatusInv
<1>3. /\ task'[t] \in Task
      /\ task'[t].status = "failed" /\ task'[t].error = "attempts_exhausted"
      /\ task'[t].finished = TRUE /\ task'[t].output = NULL
      /\ task'[t].attempt_count = row.attempt_count
      /\ attempts'[t] = rows /\ acked' = acked /\ now' = now
  BY <1>1, <1>2 DEF ClaimExhausted, Task, TaskStatus, Open
<1>4. RowInv(t, task'[t], rows, acked[t], now)
  BY <1>1, <1>2, <1>3 DEF RowInv, AttemptsInv, StatusInv, Open
<1>5. \A u \in TaskId : u # t =>
        task'[u] = RecoveredTask(u) /\ attempts'[u] = RecoveredAttempts(u)
  BY DEF ClaimExhausted
<1>6. TypeOK'
  BY <1>1, <1>3, <1>5, RecoveredTyped DEF IInv, TypeOK, ClaimExhausted, config
<1>7. QED
  BY <1>3, <1>4, <1>5, <1>6, RecoveredInv DEF IInv
(* The row of a delivered task.                                            *)
LEMMA DeliveredRow ==
  ASSUME NEW row \in Task
  PROVE  LET new == [row EXCEPT !.status = "processing", !.attempt_count = @ + 1]
         IN  /\ new \in Task
             /\ new.status = "processing"
             /\ new.attempt_count = row.attempt_count + 1
             /\ new.output = row.output /\ new.error = row.error
             /\ new.finished = row.finished
<1> DEFINE count == row.attempt_count + 1
<1>1. count \in Nat
  BY DEF Task
<1> HIDE DEF count
<1>2. LET new == [row EXCEPT !.status = "processing", !.attempt_count = count]
      IN  /\ new \in Task
          /\ new.status = "processing" /\ new.attempt_count = count
          /\ new.output = row.output /\ new.error = row.error
          /\ new.finished = row.finished
  BY <1>1 DEF Task, TaskStatus
<1>3. QED
  BY <1>2 DEF count

(* A delivery: one more attempt, with a lease from now on.                 *)
LEMMA ClaimStep ==
  ASSUME IInv, NEW a \in Agent, NEW t \in TaskId, Claim(a, t)
  PROVE  IInv'
<1> DEFINE row == RecoveredTask(t)
           rows == RecoveredAttempts(t)
           new == NewAttempt(t)
<1>1. /\ row \in Task /\ rows \in Seq(Attempt) /\ Len(rows) = Len(attempts[t])
      /\ Len(attempts[t]) = task[t].attempt_count
      /\ row.status = "queued" /\ row.attempt_count = Len(rows)
      /\ Len(rows) \in Nat /\ now \in Nat /\ lease_seconds \in Nat \ {0}
      /\ RowInv(t, row, rows, acked[t], now)
  BY RecoveredTyped, RecoveredInv, ConstantsAssumption, LenProperties
  DEF IInv, TypeOK, Claim, IsOldest, Queue, RowInv, AttemptsInv
<1>2. /\ Open(row, acked[t])
      /\ Len(rows) # 0 => rows[Len(rows)].outcome = "expired"
  BY <1>1 DEF RowInv, StatusInv
<1>3. /\ new \in Attempt /\ new.attempt_number = Len(rows) + 1
      /\ new.claim_token = <<t, Len(rows) + 1>> /\ new.outcome = "processing"
  BY <1>1 DEF NewAttempt, Attempt, Token, Outcome
<1>4. /\ task'[t] \in Task
      /\ task'[t].status = "processing" /\ task'[t].attempt_count = Len(rows) + 1
      /\ Open(task'[t], acked[t])
      /\ attempts'[t] = Append(rows, new) /\ acked' = acked /\ now' = now
  <2>1. /\ task'[t] = [row EXCEPT !.status = "processing", !.attempt_count = @ + 1]
        /\ attempts'[t] = Append(rows, new) /\ acked' = acked /\ now' = now
    BY DEF Claim
  <2> HIDE DEF row, rows, new
  <2>2. /\ task'[t] \in Task
        /\ task'[t].status = "processing" /\ task'[t].attempt_count = Len(rows) + 1
        /\ task'[t].output = row.output /\ task'[t].error = row.error
        /\ task'[t].finished = row.finished
    BY <1>1, <2>1, DeliveredRow
  <2>3. QED
    BY <1>2, <2>1, <2>2 DEF Open
<1>5. /\ attempts'[t] \in Seq(Attempt) /\ Len(attempts'[t]) = Len(rows) + 1
      /\ \A i \in 1..Len(rows) : attempts'[t][i] = rows[i]
      /\ attempts'[t][Len(rows) + 1] = new
  <2> HIDE DEF rows, new
  <2> QED
    BY <1>1, <1>3, <1>4, AppendProperties
<1>6. \A i \in 1..Len(rows) : rows[i].outcome = "expired"
  BY <1>1, <1>2 DEF RowInv, AttemptsInv
<1>7. AttemptsInv(t, task'[t], attempts'[t], now)
  <2> HIDE DEF row, rows, new
  <2> SUFFICES ASSUME NEW i \in 1..(Len(rows) + 1)
               PROVE  /\ attempts'[t][i].attempt_number = i
                      /\ attempts'[t][i].claim_token = <<t, i>>
                      /\ i < Len(rows) + 1 => attempts'[t][i].outcome = "expired"
                      /\ attempts'[t][i].outcome = "expired" =>
                           attempts'[t][i].lease_expires_at <= now
    BY <1>4, <1>5 DEF AttemptsInv
  <2>1. CASE i = Len(rows) + 1
    BY <2>1, <1>3, <1>5
  <2>2. CASE i \in 1..Len(rows)
    BY <2>2, <1>1, <1>5, <1>6 DEF RowInv, AttemptsInv
  <2>3. QED
    BY <2>1, <2>2, <1>1
<1>8. StatusInv(t, task'[t], attempts'[t], acked[t])
  <2> HIDE DEF row, rows, new
  <2> QED
    BY <1>1, <1>3, <1>4, <1>5 DEF StatusInv
<1>9. \A u \in TaskId : u # t =>
        task'[u] = RecoveredTask(u) /\ attempts'[u] = RecoveredAttempts(u)
  BY DEF Claim
<1>10. TypeOK'
  BY <1>4, <1>5, <1>9, RecoveredTyped DEF IInv, TypeOK, Claim, config
<1>11. QED
  BY <1>4, <1>7, <1>8, <1>9, <1>10, RecoveredInv DEF IInv, RowInv

-----------------------------------------------------------------------------
(* The attempt a token names is the one whose place it carries.            *)
LEMMA HeldIsUnique ==
  ASSUME IInv, NEW t \in TaskId, NEW token, NEW i \in Held(t, token)
  PROVE  i \in 1..Len(attempts[t]) /\ token = <<t, i>> /\ Held(t, token) = {i}
<1> attempts[t] \in Seq(Attempt)
  BY DEF IInv, TypeOK
<1>1. DOMAIN attempts[t] = 1..Len(attempts[t])
  BY LenProperties
<1>2. \A j \in Held(t, token) : j \in 1..Len(attempts[t]) /\ token = <<t, j>>
  BY <1>1 DEF Held, IInv, RowInv, AttemptsInv
<1>3. QED
  BY <1>2

(* A live attempt is the last one of a task that is processing.            *)
LEMMA LiveIsLast ==
  ASSUME IInv, NEW t \in TaskId, NEW i \in 1..Len(attempts[t]), Live(t, i)
  PROVE  /\ task[t].status = "processing"
         /\ i = Len(attempts[t])
         /\ Open(task[t], acked[t])
         /\ attempts[t][i].lease_expires_at > now
<1> attempts[t] \in Seq(Attempt)
  BY DEF IInv, TypeOK
<1>1. Len(attempts[t]) \in Nat
  BY LenProperties
<1>2. QED
  BY <1>1 DEF Live, IInv, RowInv, AttemptsInv, StatusInv

(* A renewal moves the deadline of an open attempt.                        *)
LEMMA HeartbeatStep ==
  ASSUME IInv, NEW t \in TaskId, NEW a \in Agent, NEW token, Heartbeat(t, a, token)
  PROVE  IInv'
<1> DEFINE rows == attempts[t]
<1>1. PICK i \in Held(t, token) :
        attempts' = [attempts EXCEPT ![t][i].lease_expires_at = now + lease_seconds]
  BY DEF Heartbeat
<1>2. /\ rows \in Seq(Attempt) /\ i \in 1..Len(rows) /\ Held(t, token) = {i}
      /\ rows[i] \in Attempt /\ now + lease_seconds \in Nat
  BY HeldIsUnique, ElementOfSeq, ConstantsAssumption DEF IInv, TypeOK
<1>3. Live(t, i)
  BY <1>2 DEF Heartbeat, HeartbeatReply
<1>4. rows[i].outcome = "processing"
  BY <1>3 DEF Live
<1> DEFINE new == [rows[i] EXCEPT !.lease_expires_at = now + lease_seconds]
<1>5. /\ new \in Attempt /\ new.attempt_number = rows[i].attempt_number
      /\ new.claim_token = rows[i].claim_token /\ new.outcome = "processing"
      /\ new.terminal_action = rows[i].terminal_action
      /\ new.terminal_payload = rows[i].terminal_payload
  BY <1>2, <1>4 DEF Attempt
<1>6. attempts' = [attempts EXCEPT ![t] = [rows EXCEPT ![i] = new]]
  BY <1>1
<1>7. /\ attempts'[t] \in Seq(Attempt) /\ Len(attempts'[t]) = Len(rows)
      /\ \A j \in 1..Len(rows) : attempts'[t][j] = IF j = i THEN new ELSE rows[j]
  <2> HIDE DEF new
  <2>1. attempts'[t] = [rows EXCEPT ![i] = new]
    BY <1>6 DEF IInv, TypeOK
  <2> HIDE DEF rows
  <2>2. QED
    BY <2>1, <1>2, <1>5, ExceptSeq
<1>8. UNCHANGED <<now, lease_seconds, max_attempts, registered, task, acked>>
  BY DEF Heartbeat, config
<1>9. TypeOK'
  <2> HIDE DEF new
  <2> QED
    BY <1>6, <1>7, <1>8 DEF IInv, TypeOK
<1>10. RowInv(t, task[t], attempts'[t], acked[t], now)
  <2>1. RowInv(t, task[t], rows, acked[t], now) /\ Len(rows) \in Nat
    BY <1>2, LenProperties DEF IInv
  <2>2. task[t].status = "processing" /\ i = Len(rows)
    BY <1>2, <1>3, LiveIsLast
  <2> HIDE DEF rows, new
  <2>3. QED
    BY <1>5, <1>7, <2>1, <2>2, <1>2 DEF RowInv, AttemptsInv, StatusInv
<1>11. \A u \in TaskId : u # t => attempts'[u] = attempts[u]
  <2> HIDE DEF rows, new
  <2> QED
    BY <1>6 DEF IInv, TypeOK
<1>12. QED
  BY <1>8, <1>9, <1>10, <1>11 DEF IInv

(* The submission that closes an attempt is the first one of its task.     *)
LEMMA CommitStep ==
  ASSUME IInv, NEW t \in TaskId, NEW a \in Agent, NEW token,
         NEW action \in Action, NEW value \in Payload,
         CommitTerminal(t, a, token, action, value)
  PROVE  IInv'
<1> DEFINE rows == attempts[t]
           done == IF action = "complete" THEN "completed" ELSE "failed"
<1>1. PICK i \in Held(t, token) :
        attempts' = [attempts EXCEPT ![t][i] =
          [@ EXCEPT !.outcome = done, !.terminal_action = action,
                    !.terminal_payload = value]]
  BY DEF CommitTerminal
<1>2. /\ rows \in Seq(Attempt) /\ i \in 1..Len(rows) /\ Held(t, token) = {i}
      /\ rows[i] \in Attempt /\ token = <<t, i>>
  BY HeldIsUnique, ElementOfSeq DEF IInv, TypeOK
<1>3. Live(t, i)
  BY <1>2 DEF CommitTerminal, TerminalReply
<1>4. /\ i = Len(rows) /\ Len(rows) \in Nat /\ acked[t] = {}
      /\ RowInv(t, task[t], rows, acked[t], now)
  BY <1>2, <1>3, LiveIsLast, LenProperties DEF IInv, Open
<1> DEFINE new == [rows[i] EXCEPT !.outcome = done, !.terminal_action = action,
                                  !.terminal_payload = value]
<1>5. /\ new \in Attempt /\ new.attempt_number = rows[i].attempt_number
      /\ new.claim_token = rows[i].claim_token /\ new.outcome = done
      /\ new.terminal_action = action /\ new.terminal_payload = value
  BY <1>2 DEF Attempt, Outcome, Action
<1>6. attempts' = [attempts EXCEPT ![t] = [rows EXCEPT ![i] = new]]
  BY <1>1
<1>7. /\ attempts'[t] \in Seq(Attempt) /\ Len(attempts'[t]) = Len(rows)
      /\ \A j \in 1..Len(rows) : attempts'[t][j] = IF j = i THEN new ELSE rows[j]
  <2> HIDE DEF new
  <2>1. attempts'[t] = [rows EXCEPT ![i] = new]
    BY <1>6 DEF IInv, TypeOK
  <2> HIDE DEF rows
  <2>2. QED
    BY <2>1, <1>2, <1>5, ExceptSeq
<1>8. /\ task'[t] \in Task /\ task'[t].status = done /\ task'[t].finished = TRUE
      /\ task'[t].attempt_count = task[t].attempt_count
      /\ task'[t].output = IF action = "complete" THEN value ELSE NULL
      /\ task'[t].error = IF action = "complete" THEN NULL ELSE value
      /\ \A u \in TaskId : u # t => task'[u] = task[u]
  <2> DEFINE out == IF action = "complete" THEN value ELSE NULL
             err == IF action = "complete" THEN NULL ELSE value
  <2>1. /\ task'[t] = [task[t] EXCEPT !.output = out, !.error = err,
                                      !.status = done, !.finished = TRUE]
        /\ \A u \in TaskId : u # t => task'[u] = task[u]
    BY DEF CommitTerminal, IInv, TypeOK
  <2>2. /\ task[t] \in Task /\ out \in Payload \cup {NULL}
        /\ err \in Payload \cup {NULL} /\ done \in TaskStatus
    BY DEF IInv, TypeOK, TaskStatus
  <2> HIDE DEF out, err, done
  <2>3. /\ task'[t] \in Task /\ task'[t].status = done /\ task'[t].finished = TRUE
        /\ task'[t].attempt_count = task[t].attempt_count
        /\ task'[t].output = out /\ task'[t].error = err
    BY <2>1, <2>2 DEF Task
  <2>4. QED
    BY <2>1, <2>3 DEF out, err
<1>9. /\ acked'[t] = {[claim_token |-> <<t, i>>, action |-> action, value |-> value]}
      /\ \A u \in TaskId : u # t => acked'[u] = acked[u]
      /\ acked' \in [TaskId -> SUBSET Submission]
  BY <1>2, <1>4, ConstantsAssumption
  DEF CommitTerminal, Acknowledge, IInv, TypeOK, Submission, Token
<1>10. UNCHANGED <<now, lease_seconds, max_attempts, registered>>
  BY DEF CommitTerminal, config
<1>11. \A u \in TaskId : u # t => attempts'[u] = attempts[u]
  <2> HIDE DEF rows, new
  <2> QED
    BY <1>6 DEF IInv, TypeOK
<1>12. TypeOK'
  <2>1. task' \in [TaskId -> Task] 
    BY <1>8 DEF CommitTerminal, IInv, TypeOK
  <2>2. attempts' \in [TaskId -> Seq(Attempt)]
    <3> HIDE DEF new, rows
    <3> QED
      BY <1>6, <1>7 DEF IInv, TypeOK
  <2>3. QED
    BY <2>1, <2>2, <1>9, <1>10 DEF IInv, TypeOK
<1>13. AttemptsInv(t, task'[t], attempts'[t], now)
  <2> HIDE DEF rows, new
  <2> QED
    BY <1>2, <1>4, <1>5, <1>7, <1>8 DEF RowInv, AttemptsInv, Action
<1>14. StatusInv(t, task'[t], attempts'[t], acked'[t])
  <2>1. /\ attempts'[t][Len(rows)] = new /\ Len(rows) # 0 /\ value # NULL
    BY <1>2, <1>4, <1>7, ConstantsAssumption
  <2> HIDE DEF rows, new
  <2>2. CASE action = "complete"
    BY <2>1, <2>2, <1>4, <1>5, <1>7, <1>8, <1>9 DEF StatusInv, ClosedBy
  <2>3. CASE action = "fail"
    BY <2>1, <2>3, <1>4, <1>5, <1>7, <1>8, <1>9 DEF StatusInv, ClosedBy
  <2>4. QED
    BY <2>2, <2>3 DEF Action
<1>15. QED
  BY <1>8, <1>9, <1>10, <1>11, <1>12, <1>13, <1>14 DEF IInv, RowInv

(* A repeated submission is the one acknowledged before, if any was.       *)
LEMMA RepeatStep ==
  ASSUME IInv, NEW t \in TaskId, NEW a \in Agent, NEW token,
         NEW action \in Action, NEW value \in Payload,
         RepeatTerminal(t, a, token, action, value)
  PROVE  IInv'
<1> DEFINE rows == attempts[t]
<1>1. PICK i \in Held(t, token) : Closed(t, i) /\ Repeats(t, i, action, value)
  BY DEF RepeatTerminal, TerminalReply
<1>2. /\ i \in 1..Len(rows) /\ token = <<t, i>> /\ Len(rows) \in Nat
      /\ RowInv(t, task[t], rows, acked[t], now) /\ task[t] \in Task
  BY HeldIsUnique, LenProperties DEF IInv, TypeOK
<1>3. i = Len(rows) /\ rows[i].outcome \in {"completed", "failed"}
  BY <1>1, <1>2 DEF Closed, RowInv, AttemptsInv
<1>4. /\ rows[Len(rows)].terminal_action = action
      /\ rows[Len(rows)].terminal_payload = value
  BY <1>1, <1>3 DEF Repeats
<1>5. UNCHANGED <<now, lease_seconds, max_attempts, registered, task, attempts>>
  BY DEF RepeatTerminal, config
<1>6. /\ acked'[t] = acked[t] \cup
           {[claim_token |-> <<t, i>>, action |-> action, value |-> value]}
      /\ \A u \in TaskId : u # t => acked'[u] = acked[u]
      /\ acked' \in [TaskId -> SUBSET Submission]
  BY <1>2 DEF RepeatTerminal, Acknowledge, IInv, TypeOK, Submission, Token
<1>7. TypeOK'
  BY <1>5, <1>6 DEF IInv, TypeOK
<1>8. StatusInv(t, task[t], rows, acked'[t])
  <2>1. task[t].status \in {"completed", "failed"}
    BY <1>2, <1>3 DEF RowInv, StatusInv, Task, TaskStatus
  <2>2. QED
    BY <2>1, <1>2, <1>3, <1>4, <1>6 DEF RowInv, StatusInv, ClosedBy
<1>9. QED
  BY <1>2, <1>5, <1>6, <1>7, <1>8 DEF IInv, RowInv

-----------------------------------------------------------------------------
(* Every step keeps the invariant.                                         *)
LEMMA Inductive == IInv /\ [Next]_vars => IInv'
<1> SUFFICES ASSUME IInv, [Next]_vars PROVE IInv'
  OBVIOUS
<1>0. now \in Nat /\ lease_seconds \in LeaseSeconds /\ max_attempts \in MaxAttempts
      /\ registered \subseteq Agent
  BY DEF IInv, TypeOK
<1>1. ASSUME NEW a \in Agent, Register(a) PROVE IInv'
  BY <1>0, <1>1, QuietStep DEF Register, config
<1>2. ASSUME NEW s \in Agent, NEW r \in Agent, NEW in \in Input,
             NEW k \in Key \cup {NoKey}, CreateTask(s, r, in, k)
      PROVE  IInv'
  BY <1>2, CreateStep
<1>3. ASSUME NEW a \in Agent, ClaimNothing(a) PROVE IInv'
  BY <1>3, RecoverStep DEF ClaimNothing
<1>4. ASSUME NEW a \in Agent, NEW t \in TaskId, ClaimExhausted(a, t) PROVE IInv'
  BY <1>4, ClaimExhaustedStep
<1>5. ASSUME NEW a \in Agent, NEW t \in TaskId, Claim(a, t) PROVE IInv'
  BY <1>5, ClaimStep
<1>6. ASSUME NEW t \in TaskId, NEW a \in Agent, NEW token \in Issued,
             TokenRequest(t, a, token)
      PROVE  IInv'
  BY <1>6, HeartbeatStep, CommitStep, RepeatStep DEF TokenRequest
<1>7. CASE Recover
  BY <1>7, RecoverStep
<1>8. CASE Tick
  BY <1>0, <1>8, QuietStep DEF Tick, config
<1>9. CASE Restart
  BY <1>0, <1>9, QuietStep DEF Restart
<1>10. CASE UNCHANGED vars
  BY <1>0, <1>10, QuietStep DEF vars
<1>11. QED
  BY <1>1, <1>2, <1>3, <1>4, <1>5, <1>6, <1>7, <1>8, <1>9, <1>10 DEF Next

(* Every request, recovery pass and restart keeps the rows of a task, its     *)
(* attempts and its acknowledgements in lockstep (storage.py).              *)
THEOREM Invariance == Spec => []IInv
BY InitInv, Inductive, PTL DEF Spec

(* The store keeps its types under every sequence of requests, recoveries   *)
(* and restarts (the three tables of database.py).                          *)
THEOREM Typing == Spec => []TypeOK
<1>1. IInv => TypeOK
  BY DEF IInv
<1>2. QED
  BY <1>1, Invariance, PTL

(* attempt_count, the attempt numbers and the order of the attempts agree:  *)
(* claims number them, recoveries close all but the last.                   *)
THEOREM NumberingIsKept == Spec => []AttemptsNumbered
<1>1. IInv => AttemptsNumbered
  BY LenProperties DEF IInv, TypeOK, AttemptsNumbered, RowInv, AttemptsInv
<1>2. QED
  BY <1>1, Invariance, PTL

(* What the invariant says of the attempts, with the types at hand.         *)
LEMMA Rows ==
  ASSUME IInv, NEW t \in TaskId
  PROVE  /\ task[t] \in Task /\ attempts[t] \in Seq(Attempt) /\ now \in Nat
         /\ Len(attempts[t]) \in Nat /\ DOMAIN attempts[t] = 1..Len(attempts[t])
         /\ attempts[t] = <<>> <=> Len(attempts[t]) = 0
         /\ RowInv(t, task[t], attempts[t], acked[t], now)
         /\ task[t].status \in TaskStatus
BY LenProperties, EmptySeq DEF IInv, TypeOK, Task

(* The two tables never disagree about where a task stands.                 *)
THEOREM StatusIsKept == Spec => []StatusMatchesAttempt
<1>1. IInv => StatusMatchesAttempt
  BY Rows DEF StatusMatchesAttempt, RowInv, StatusInv, ClosedBy, Last
<1>2. QED
  BY <1>1, Invariance, PTL

(* At most one attempt of a task is open, whatever claims, recoveries and   *)
(* restarts there are.                                                      *)
THEOREM MutualExclusion == Spec => []OneActiveLease
<1>1. IInv => OneActiveLease
  BY Rows DEF OneActiveLease, RowInv, AttemptsInv
<1>2. QED
  BY <1>1, Invariance, PTL

(* Recovery never takes a lease that still runs.                            *)
THEOREM LeasesRunOut == Spec => []NeverExpiredEarly
<1>1. IInv => NeverExpiredEarly
  BY Rows DEF NeverExpiredEarly, RowInv, AttemptsInv
<1>2. QED
  BY <1>1, Invariance, PTL

(* Unfinished tasks have no result, completed ones an output, failed ones   *)
(* an error.                                                                *)
THEOREM FieldsAreKept == Spec => []FieldsMatchStatus
<1>1. IInv => FieldsMatchStatus
  BY Rows, ConstantsAssumption
  DEF FieldsMatchStatus, RowInv, StatusInv, Open, ClosedBy, TaskStatus
<1>2. QED
  BY <1>1, Invariance, PTL

(* A task with an acknowledged submission was closed by that submission.    *)
LEMMA AcknowledgedIsClosed ==
  ASSUME IInv, NEW t \in TaskId, NEW m \in acked[t]
  PROVE  LET n == Len(attempts[t])
         IN  /\ n # 0
             /\ m.claim_token = <<t, n>>
             /\ attempts[t][n].terminal_action = m.action
             /\ attempts[t][n].terminal_payload = m.value
             /\ \/ /\ m.action = "complete" /\ attempts[t][n].outcome = "completed"
                   /\ task[t].status = "completed"
                   /\ task[t].output = m.value /\ task[t].error = NULL
                \/ /\ m.action = "fail" /\ attempts[t][n].outcome = "failed"
                   /\ task[t].status = "failed"
                   /\ task[t].error = m.value /\ task[t].output = NULL
<1> DEFINE n == Len(attempts[t])
           row == task[t]
<1>1. row.status \in TaskStatus /\ StatusInv(t, row, attempts[t], acked[t])
  BY Rows DEF RowInv
<1>2. acked[t] # {}
  OBVIOUS
<1>3. CASE row.status = "completed"
  <2>1. m = [claim_token |-> <<t, n>>, action |-> "complete", value |-> row.output]
    BY <1>1, <1>3 DEF StatusInv, ClosedBy
  <2>2. QED
    BY <2>1, <1>1, <1>3 DEF StatusInv, ClosedBy
<1>4. CASE row.status = "failed"
  <2>1. /\ ClosedBy(t, row, attempts[t], acked[t], "fail", row.error)
        /\ attempts[t][n].outcome = "failed" /\ row.output = NULL
    BY <1>1, <1>2, <1>4 DEF StatusInv
  <2>2. m = [claim_token |-> <<t, n>>, action |-> "fail", value |-> row.error]
    BY <2>1 DEF ClosedBy
  <2>3. QED
    BY <2>1, <2>2, <1>4 DEF ClosedBy
<1>5. QED
  BY <1>1, <1>2, <1>3, <1>4 DEF StatusInv, Open, TaskStatus

(* A worker that got a 200 for its result can rely on the sender reading it. *)
THEOREM AcknowledgementIsKept == Spec => []AcknowledgedIsStored
<1>1. ASSUME IInv, NEW t \in TaskId, NEW m \in acked[t]
      PROVE  \/ /\ m.action = "complete" /\ task[t].status = "completed"
                /\ task[t].output = m.value /\ task[t].error = NULL
             \/ /\ m.action = "fail" /\ task[t].status = "failed"
                /\ task[t].error = m.value /\ task[t].output = NULL
  BY <1>1, AcknowledgedIsClosed
<1>2. IInv => AcknowledgedIsStored
  BY <1>1 DEF AcknowledgedIsStored
<1>3. QED
  BY <1>2, Invariance, PTL

(* A retried submission is answered as the first time, for ever.            *)
THEOREM RetryIsSafe == Spec => []RetriesStayAccepted
<1>1. ASSUME IInv, NEW t \in TaskId, NEW m \in acked[t],
             NEW action \in Action, NEW value \in Payload
      PROVE  TerminalReply(t, task[t].recipient, m.claim_token, action, value) =
               IF action = m.action /\ value = m.value
               THEN "repeated" ELSE "conflicting_terminal"
  <2> DEFINE n == Len(attempts[t])
  <2>1. /\ n # 0 /\ m.claim_token = <<t, n>>
        /\ task[t].status \in {"completed", "failed"}
        /\ attempts[t][n].outcome \in {"completed", "failed"}
        /\ attempts[t][n].terminal_action = m.action
        /\ attempts[t][n].terminal_payload = m.value
    BY <1>1, AcknowledgedIsClosed
  <2>2. Held(t, m.claim_token) = {n}
    <3>1. n \in Nat /\ DOMAIN attempts[t] = 1..n /\ AttemptsInv(t, task[t], attempts[t], now)
      BY <1>1, Rows DEF RowInv
    <3>2. n \in Held(t, m.claim_token)
      BY <2>1, <3>1 DEF Held, AttemptsInv
    <3>3. QED
      BY <1>1, <3>2, HeldIsUnique
  <2>3. Closed(t, n) /\ Exists(t)
    BY <2>1 DEF Closed, Exists
  <2>4. Repeats(t, n, action, value) <=> action = m.action /\ value = m.value
    BY <2>1 DEF Repeats
  <2>5. QED
    BY <2>2, <2>3, <2>4 DEF TerminalReply
<1>2. IInv => RetriesStayAccepted
  BY <1>1 DEF RetriesStayAccepted
<1>3. QED
  BY <1>2, Invariance, PTL

-----------------------------------------------------------------------------
(* Recovery leaves a task alone unless it is processing, and an attempt     *)
(* alone unless it is open and has run out.                                 *)
LEMMA RecoveredIsLocal ==
  ASSUME IInv, NEW t \in TaskId
  PROVE  /\ task[t].status # "processing" =>
              RecoveredTask(t) = task[t] /\ RecoveredAttempts(t) = attempts[t]
         /\ \A i \in DOMAIN attempts[t] :
              \/ RecoveredAttempts(t)[i] = attempts[t][i]
              \/ RecoveredAttempts(t)[i].outcome = "expired"
<1>1. attempts[t] \in [DOMAIN attempts[t] -> Attempt]
  BY Rows, LenProperties
<1>2. ASSUME task[t].status # "processing"
      PROVE  RecoveredTask(t) = task[t] /\ RecoveredAttempts(t) = attempts[t]
  <2>1. \A i \in DOMAIN attempts[t] : attempts[t][i].outcome # "processing"
    <3> SUFFICES ASSUME NEW i \in 1..Len(attempts[t])
                 PROVE  attempts[t][i].outcome # "processing"
      BY Rows
    <3>1. CASE i < Len(attempts[t])
      BY <3>1, Rows DEF RowInv, AttemptsInv
    <3>2. CASE i = Len(attempts[t])
      <4>1. /\ StatusInv(t, task[t], attempts[t], acked[t])
            /\ task[t].status \in TaskStatus \ {"processing"}
            /\ Len(attempts[t]) # 0
        BY <1>2, Rows DEF RowInv
      <4>2. QED
        BY <3>2, <4>1 DEF StatusInv, TaskStatus
    <3>3. QED
      BY <3>1, <3>2, Rows
  <2>2. Expired(t) = {}
    BY <2>1 DEF Expired
  <2>3. QED
    BY <1>1, <1>2, <2>2 DEF RecoveredTask, RecoveredAttempts
<1>3. ASSUME NEW i \in DOMAIN attempts[t]
      PROVE  \/ RecoveredAttempts(t)[i] = attempts[t][i]
             \/ RecoveredAttempts(t)[i].outcome = "expired"
  BY <1>1, <1>3 DEF RecoveredAttempts, Attempt
<1>4. QED
  BY <1>2, <1>3

(* The task a claim takes is queued, or was processing until this very      *)
(* transaction recovered it.                                                *)
LEMMA QueueIsOpen ==
  ASSUME IInv, NEW a, NEW t \in Queue(a)
  PROVE  task[t].status \in {"queued", "processing"}
BY RecoveredIsLocal DEF Queue

(* No step touches a finished task.                                         *)
LEMMA FinishedStep ==
  ASSUME IInv, [Next]_vars, NEW t \in TaskId,
         task[t].status \in {"completed", "failed"}
  PROVE  task'[t] = task[t] /\ attempts'[t] = attempts[t]
<1>1. RecoveredTask(t) = task[t] /\ RecoveredAttempts(t) = attempts[t]
  BY RecoveredIsLocal
<1>2. ASSUME NEW s \in Agent, NEW r \in Agent, NEW in \in Input,
             NEW k \in Key \cup {NoKey}, CreateTask(s, r, in, k)
      PROVE  task'[t] = task[t] /\ attempts'[t] = attempts[t]
  BY <1>2 DEF CreateTask, Exists, IInv, TypeOK
<1>3. CASE Recover \/ \E a \in Agent : ClaimNothing(a)
  BY <1>1, <1>3 DEF Recover, ClaimNothing
<1>4. ASSUME NEW a \in Agent, NEW u \in TaskId, ClaimExhausted(a, u) \/ Claim(a, u)
      PROVE  task'[t] = task[t] /\ attempts'[t] = attempts[t]
  <2>1. u # t
    BY <1>4, QueueIsOpen DEF ClaimExhausted, Claim, IsOldest
  <2>2. QED
    BY <1>1, <1>4, <2>1 DEF ClaimExhausted, Claim
<1>5. ASSUME NEW u \in TaskId, NEW a \in Agent, NEW token,
             \/ Heartbeat(u, a, token)
             \/ \E action \in Action, value \in Payload :
                  CommitTerminal(u, a, token, action, value)
      PROVE  task'[t] = task[t] /\ attempts'[t] = attempts[t]
  <2>1. task[u].status = "processing"
    BY <1>5
    DEF Heartbeat, HeartbeatReply, CommitTerminal, TerminalReply, Live
  <2>2. u # t
    BY <2>1
  <2>3. QED
    BY <1>5, <2>2 DEF Heartbeat, CommitTerminal, IInv, TypeOK
<1>6. CASE \/ \E a \in Agent : Register(a)
           \/ Tick
           \/ Restart
           \/ UNCHANGED vars
  BY <1>6 DEF Register, Tick, Restart, vars
<1>7. ASSUME NEW u \in TaskId, NEW a \in Agent, NEW token,
             NEW action \in Action, NEW value \in Payload,
             RepeatTerminal(u, a, token, action, value)
      PROVE  task'[t] = task[t] /\ attempts'[t] = attempts[t]
  BY <1>7 DEF RepeatTerminal
<1>8. QED
  BY <1>2, <1>3, <1>4, <1>5, <1>6, <1>7 DEF Next, TokenRequest

(* No request, recovery or restart ever touches a finished task.            *)
THEOREM FinalityHolds == Spec => FinishedIsFinal
<1> DEFINE Final == \A t \in TaskId :
                      task[t].status \in {"completed", "failed"} =>
                        task'[t] = task[t] /\ attempts'[t] = attempts[t]
<1>1. IInv /\ [Next]_vars => [Final]_vars
  BY FinishedStep
<1>2. Spec => [][Final]_vars
  BY <1>1, Invariance, PTL DEF Spec
<1>3. QED
  BY <1>2 DEF FinishedIsFinal

(* An attempt whose lease has run out is renewed by no request and closed   *)
(* by none: it stays as it is, or becomes expired.                          *)
THEOREM ExpiryIsFinal == Spec => ExpiredLeaseIsDead
<1> DEFINE Dead(t, i) == /\ attempts[t][i].outcome = "processing"
                         /\ attempts[t][i].lease_expires_at <= now
           Kept(t, i) == \/ attempts'[t][i] = attempts[t][i]
                         \/ attempts'[t][i].outcome = "expired"
<1>1. ASSUME IInv, [Next]_vars, NEW t \in TaskId, NEW i \in DOMAIN attempts[t], Dead(t, i)
      PROVE  Kept(t, i)
  <2>0. /\ attempts[t] \in Seq(Attempt) /\ i \in 1..Len(attempts[t]) /\ now \in Nat
    BY <1>1, Rows
  <2>01. attempts[t][i] \in Attempt
    BY <2>0, ElementOfSeq
  <2>02. attempts[t][i].lease_expires_at \in Nat
    BY <2>01 DEF Attempt
  <2>1. \/ RecoveredAttempts(t)[i] = attempts[t][i]
        \/ RecoveredAttempts(t)[i].outcome = "expired"
    BY <1>1, RecoveredIsLocal
  <2>2. CASE \/ Recover
             \/ \E a \in Agent : ClaimNothing(a)
             \/ \E a \in Agent, u \in TaskId : ClaimExhausted(a, u)
    BY <2>1, <2>2 DEF Recover, ClaimNothing, ClaimExhausted
  <2>3. ASSUME NEW a \in Agent, NEW u \in TaskId, Claim(a, u)
        PROVE  Kept(t, i)
    <3>1. CASE u # t
      BY <2>1, <2>3, <3>1 DEF Claim
    <3>2. CASE u = t
      <4>1. attempts'[t] = Append(RecoveredAttempts(t), NewAttempt(t))
        BY <2>3, <3>2 DEF Claim
      <4>2. /\ RecoveredAttempts(t) \in Seq(Attempt)
            /\ i \in 1..Len(RecoveredAttempts(t))
        BY <1>1, <2>0, RecoveredTyped DEF IInv
      <4>3. attempts'[t][i] = RecoveredAttempts(t)[i]
        BY <4>1, <4>2
      <4>4. QED
        BY <2>1, <4>3
    <3>3. QED
      BY <3>1, <3>2
  <2>4. ASSUME NEW u \in TaskId, NEW a \in Agent, NEW token, Heartbeat(u, a, token)
        PROVE  Kept(t, i)
    <3>1. PICK j \in Held(u, token) : Live(u, j)
      BY <2>4 DEF Heartbeat, HeartbeatReply
    <3>2. Held(u, token) = {j}
      BY <1>1, <3>1, HeldIsUnique
    <3>3. attempts' = [attempts EXCEPT ![u][j].lease_expires_at = now + lease_seconds]
      BY <2>4, <3>2 DEF Heartbeat
    <3>4. <<t, i>> # <<u, j>>
      BY <1>1, <2>0, <2>02, <3>1 DEF Live
    <3>5. QED
      BY <1>1, <3>3, <3>4 DEF IInv, TypeOK
  <2>5. ASSUME NEW u \in TaskId, NEW a \in Agent, NEW token,
               NEW action \in Action, NEW value \in Payload,
               CommitTerminal(u, a, token, action, value)
        PROVE  Kept(t, i)
    <3>1. PICK j \in Held(u, token) : Live(u, j)
      BY <2>5 DEF CommitTerminal, TerminalReply
    <3>2. Held(u, token) = {j}
      BY <1>1, <3>1, HeldIsUnique
    <3>3. PICK e : attempts' = [attempts EXCEPT ![u][j] = e]
      BY <2>5, <3>2 DEF CommitTerminal
    <3>4. <<t, i>> # <<u, j>>
      BY <1>1, <2>0, <2>02, <3>1 DEF Live
    <3>5. QED
      BY <1>1, <3>3, <3>4 DEF IInv, TypeOK
  <2>6. ASSUME attempts' = attempts PROVE Kept(t, i)
    BY <2>6
  <2>7. QED
    BY <1>1, <2>2, <2>3, <2>4, <2>5, <2>6
    DEF Next, TokenRequest, Register, CreateTask, RepeatTerminal, Tick, Restart, vars
<1> DEFINE Step ==
      \A t \in TaskId : \A i \in DOMAIN attempts[t] :
        attempts[t][i].outcome = "processing" /\ attempts[t][i].lease_expires_at <= now =>
          \/ attempts'[t][i] = attempts[t][i]
          \/ attempts'[t][i].outcome = "expired"
<1>2. IInv /\ [Next]_vars => [Step]_vars
  BY <1>1
<1>3. Spec => [][Step]_vars
  BY <1>2, Invariance, PTL DEF Spec
<1>4. QED
  BY <1>3 DEF ExpiredLeaseIsDead

(* No claim delivers a task beyond the limit the running server was given,  *)
(* whatever limits earlier servers ran with.                                *)
THEOREM LimitIsKept == Spec => DeliveriesWithinLimit
<1> DEFINE Step == \A t \in TaskId :
                     task'[t].attempt_count > task[t].attempt_count =>
                       task'[t].attempt_count <= max_attempts
<1>1. ASSUME IInv, [Next]_vars, NEW t \in TaskId
      PROVE  task'[t].attempt_count > task[t].attempt_count =>
               task'[t].attempt_count <= max_attempts
  <2>1. /\ task[t] \in Task /\ RecoveredTask(t) \in Task
        /\ RecoveredTask(t).attempt_count = task[t].attempt_count
        /\ task[t].attempt_count \in Nat /\ max_attempts \in Nat
    <3>1. task[t] \in Task /\ RecoveredTask(t) \in Task /\ max_attempts \in Nat
      BY <1>1, RecoveredTyped, ConstantsAssumption DEF IInv, TypeOK
    <3>2. QED
      BY <3>1 DEF RecoveredTask, Task
  <2>2. ASSUME NEW a \in Agent, NEW u \in TaskId, Claim(a, u)
        PROVE  task'[t].attempt_count > task[t].attempt_count =>
                 task'[t].attempt_count <= max_attempts
    BY <2>1, <2>2 DEF Claim, Task
  <2>3. ASSUME \/ Recover
               \/ \E a \in Agent : ClaimNothing(a)
               \/ \E a \in Agent, u \in TaskId : ClaimExhausted(a, u)
        PROVE  task'[t].attempt_count = task[t].attempt_count
    <3>1. CASE task'[t] = RecoveredTask(t)
      BY <2>1, <3>1
    <3>2. CASE task'[t] = [RecoveredTask(t) EXCEPT !.status = "failed",
                             !.error = "attempts_exhausted", !.finished = TRUE]
      BY <2>1, <3>2 DEF Task
    <3>3. QED
      BY <2>3, <3>1, <3>2 DEF Recover, ClaimNothing, ClaimExhausted
  <2>4. ASSUME NEW s \in Agent, NEW r \in Agent, NEW in \in Input,
               NEW k \in Key \cup {NoKey}, CreateTask(s, r, in, k)
        PROVE  \/ task'[t].attempt_count = task[t].attempt_count
               \/ task'[t].attempt_count = 0
    BY <1>1, <2>4 DEF CreateTask, NoTask, IInv, TypeOK
  <2>5. ASSUME NEW u \in TaskId, NEW a \in Agent, NEW token, TokenRequest(u, a, token)
        PROVE  task'[t].attempt_count = task[t].attempt_count
    <3>1. ASSUME NEW action \in Action, NEW value \in Payload,
                 CommitTerminal(u, a, token, action, value)
          PROVE  task'[t].attempt_count = task[t].attempt_count
      <4>1. CASE u = t
        BY <1>1, <2>1, <3>1, <4>1 DEF CommitTerminal, IInv, TypeOK, Task
      <4>2. CASE u # t
        BY <1>1, <3>1, <4>2 DEF CommitTerminal, IInv, TypeOK
      <4>3. QED
        BY <4>1, <4>2
    <3>2. QED
      BY <2>5, <3>1 DEF TokenRequest, Heartbeat, RepeatTerminal
  <2>6. CASE \/ \E a \in Agent : Register(a)
             \/ Tick
             \/ Restart
             \/ UNCHANGED vars
    BY <2>1, <2>6 DEF Register, Tick, Restart, vars
  <2>7. QED
    BY <1>1, <2>1, <2>2, <2>3, <2>4, <2>5, <2>6 DEF Next
<1>2. IInv /\ [Next]_vars => [Step]_vars
  BY <1>1
<1>3. Spec => [][Step]_vars
  BY <1>2, Invariance, PTL DEF Spec
<1>4. QED
  BY <1>3 DEF DeliveriesWithinLimit

-----------------------------------------------------------------------------
(* The key and the input of an existing row are the ones its request        *)
(* carried: no operation but the insertion writes them, or makes a row exist. *)
LEMMA RequestIsFixed ==
  ASSUME IInv, [Next]_vars, NEW t \in TaskId,
         ~ \E s, r \in Agent, in \in Input, k \in Key \cup {NoKey} : CreateTask(s, r, in, k)
  PROVE  /\ task'[t].key = task[t].key /\ task'[t].sender = task[t].sender
         /\ task'[t].input = task[t].input
         /\ (task'[t].status = "absent") <=> (task[t].status = "absent")
<1>1. /\ task[t] \in Task /\ RecoveredTask(t) \in Task
      /\ RecoveredTask(t).key = task[t].key /\ RecoveredTask(t).sender = task[t].sender
      /\ RecoveredTask(t).input = task[t].input
      /\ (RecoveredTask(t).status = "absent") <=> (task[t].status = "absent")
  <2>1. task[t] \in Task /\ RecoveredTask(t) \in Task
    BY RecoveredTyped DEF IInv, TypeOK
  <2>2. QED
    BY <2>1 DEF RecoveredTask, Task
<1>2. ASSUME NEW a \in Agent, NEW u \in TaskId, Claim(a, u) \/ ClaimExhausted(a, u)
      PROVE  /\ task'[t].key = task[t].key /\ task'[t].sender = task[t].sender
             /\ task'[t].input = task[t].input
             /\ (task'[t].status = "absent") <=> (task[t].status = "absent")
  <2>1. RecoveredTask(u).status = "queued"
    BY <1>2 DEF Claim, ClaimExhausted, IsOldest, Queue
  <2>2. CASE t # u
    BY <1>1, <1>2, <2>2 DEF Claim, ClaimExhausted
  <2>3. CASE t = u
    <3>1. \/ task'[t] = [RecoveredTask(t) EXCEPT !.status = "processing",
                                                !.attempt_count = @ + 1]
          \/ task'[t] = [RecoveredTask(t) EXCEPT !.status = "failed",
                           !.error = "attempts_exhausted", !.finished = TRUE]
      BY <1>2, <2>3 DEF Claim, ClaimExhausted
    <3>2. /\ RecoveredTask(t) \in Task
          /\ RecoveredTask(t).status = "queued"
          /\ task[t].status # "absent"
      BY <1>1, <2>1, <2>3
    <3>3. /\ task'[t].key = RecoveredTask(t).key
          /\ task'[t].sender = RecoveredTask(t).sender
          /\ task'[t].input = RecoveredTask(t).input
          /\ task'[t].status # "absent"
      BY <3>1, <3>2 DEF Task
    <3>4. QED
      BY <1>1, <3>2, <3>3
  <2>4. QED
    BY <2>2, <2>3
<1>3. CASE Recover \/ \E a \in Agent : ClaimNothing(a)
  BY <1>1, <1>3 DEF Recover, ClaimNothing
<1>4. ASSUME NEW u \in TaskId, NEW a \in Agent, NEW token, TokenRequest(u, a, token)
      PROVE  /\ task'[t].key = task[t].key /\ task'[t].sender = task[t].sender
             /\ task'[t].input = task[t].input
             /\ (task'[t].status = "absent") <=> (task[t].status = "absent")
  <2>1. CASE task' = task
    BY <2>1
  <2>2. ASSUME NEW action \in Action, NEW value \in Payload,
               CommitTerminal(u, a, token, action, value)
        PROVE  /\ task'[t].key = task[t].key /\ task'[t].sender = task[t].sender
               /\ task'[t].input = task[t].input
               /\ (task'[t].status = "absent") <=> (task[t].status = "absent")
    <3>1. task[u].status = "processing"
      BY <2>2 DEF CommitTerminal, TerminalReply, Live
    <3>2. CASE u = t
      BY <1>1, <2>2, <3>1, <3>2 DEF CommitTerminal, IInv, TypeOK, Task
    <3>3. CASE u # t
      BY <2>2, <3>3 DEF CommitTerminal, IInv, TypeOK
    <3>4. QED
      BY <3>2, <3>3
  <2>3. QED
    BY <1>4, <2>1, <2>2 DEF TokenRequest, Heartbeat, RepeatTerminal
<1>5. CASE \/ \E a \in Agent : Register(a)
           \/ Tick
           \/ Restart
           \/ UNCHANGED vars
  BY <1>5 DEF Register, Tick, Restart, vars
<1>6. QED
  BY <1>2, <1>3, <1>4, <1>5 DEF Next

(* A sender's Idempotency-Key names at most one task for ever.              *)
THEOREM KeysAreUnique == Spec => []KeyNamesOneTask
<1>1. Init => KeyNamesOneTask
  BY DEF Init, KeyNamesOneTask, Exists, NoTask
<1>2. IInv /\ KeyNamesOneTask /\ [Next]_vars => KeyNamesOneTask'
  <2> SUFFICES ASSUME IInv, KeyNamesOneTask, [Next]_vars PROVE KeyNamesOneTask'
    OBVIOUS
  <2>1. ASSUME NEW s \in Agent, NEW r \in Agent, NEW in \in Input,
               NEW k \in Key \cup {NoKey}, CreateTask(s, r, in, k)
        PROVE  KeyNamesOneTask'
    <3>1. Existing(s, k) = {}
      BY <2>1 DEF CreateTask, CreateReply
    <3>2. PICK t \in TaskId :
            task' = [task EXCEPT ![t] =
              [NoTask EXCEPT !.sender = s, !.recipient = r, !.input = in,
                             !.key = k, !.status = "queued", !.created_at = now]]
      BY <2>1 DEF CreateTask
    <3>3. /\ task'[t].sender = s /\ task'[t].key = k
          /\ \A u \in TaskId : u # t => task'[u] = task[u]
      BY <3>2 DEF IInv, TypeOK, NoTask
    <3>4. QED
      BY <3>1, <3>3 DEF KeyNamesOneTask, Existing, Exists
  <2>2. CASE ~ \E s, r \in Agent, in \in Input, k \in Key \cup {NoKey} :
                 CreateTask(s, r, in, k)
    BY <2>2, RequestIsFixed DEF KeyNamesOneTask, Exists
  <2>3. QED
    BY <2>1, <2>2
<1>3. QED
  BY <1>1, <1>2, Invariance, PTL DEF Spec

-----------------------------------------------------------------------------
(* AgentRelay implements DeliveryContract.  Each lemma maps one action to a *)
(* move of the contract at one task; the theorem puts the tasks together.  *)

(* The delivery a row and its attempts stand for, by status.                *)
LEMMA OpenDelivery ==
  ASSUME NEW t \in TaskId, NEW row \in Task, NEW rows \in Seq(Attempt),
         NEW acks, NEW n, RowInv(t, row, rows, acks, n)
  PROVE  /\ row.status \in {"absent", "queued"} =>
              Delivery(row, rows) =
                [holder |-> NULL, deliveries |-> Len(rows), result |-> NULL]
         /\ row.status = "processing" =>
              /\ Delivery(row, rows) =
                   [holder |-> <<t, Len(rows)>>, deliveries |-> Len(rows), result |-> NULL]
              /\ Len(rows) \in Nat \ {0}
         /\ row.status = "failed" /\ rows[Len(rows)].outcome = "expired" =>
              Delivery(row, rows) =
                [holder |-> NULL, deliveries |-> Len(rows),
                 result |-> [by |-> NULL, status |-> "failed",
                             value |-> "attempts_exhausted"]]
<1>1. Len(rows) \in Nat /\ row.attempt_count = Len(rows)
  BY LenProperties DEF RowInv, AttemptsInv
<1>2. row.status \in {"absent", "queued"} =>
        Delivery(row, rows) = [holder |-> NULL, deliveries |-> Len(rows), result |-> NULL]
  BY <1>1 DEF Delivery, Holder, Result
<1>3. ASSUME row.status = "processing"
      PROVE  /\ Delivery(row, rows) =
                  [holder |-> <<t, Len(rows)>>, deliveries |-> Len(rows), result |-> NULL]
             /\ Len(rows) \in Nat \ {0}
  <2>1. Len(rows) \in Nat \ {0}
    BY <1>1, <1>3 DEF RowInv, StatusInv
  <2>2. rows[Len(rows)].claim_token = <<t, Len(rows)>>
    BY <2>1 DEF RowInv, AttemptsInv
  <2>3. QED
    BY <1>1, <1>3, <2>1, <2>2 DEF Delivery, Holder, Result
<1>4. ASSUME row.status = "failed", rows[Len(rows)].outcome = "expired"
      PROVE  Delivery(row, rows) =
               [holder |-> NULL, deliveries |-> Len(rows),
                result |-> [by |-> NULL, status |-> "failed", value |-> "attempts_exhausted"]]
  <2>1. row.error = "attempts_exhausted"
    BY <1>4 DEF RowInv, StatusInv
  <2>2. QED
    BY <1>1, <1>4, <2>1 DEF Delivery, Holder, Result, Author
<1>5. QED
  BY <1>2, <1>3, <1>4

(* What a recovery pass makes of one task.                                  *)
LEMMA RecoveredCases ==
  ASSUME IInv, NEW t \in TaskId
  PROVE  \/ RecoveredTask(t) = task[t] /\ RecoveredAttempts(t) = attempts[t]
         \/ /\ task[t].status = "processing"
            /\ \/ RecoveredTask(t).status = "queued"
               \/ /\ RecoveredTask(t).status = "failed"
                  /\ RecoveredAttempts(t)[Len(attempts[t])].outcome = "expired"
<1>1. CASE task[t].status # "processing"
  BY <1>1, RecoveredIsLocal
<1>2. CASE task[t].status = "processing" /\ Expired(t) = {}
  <2>1. attempts[t] \in [DOMAIN attempts[t] -> Attempt]
    BY Rows, LenProperties
  <2>2. QED
    BY <1>2, <2>1 DEF RecoveredTask, RecoveredAttempts
<1>3. CASE task[t].status = "processing" /\ Expired(t) # {}
  <2>1. RecoveredTask(t).status \in {"queued", "failed"}
    BY <1>3, Rows DEF RecoveredTask, Task
  <2>2. ASSUME RecoveredTask(t).status = "failed"
        PROVE  RecoveredAttempts(t)[Len(attempts[t])].outcome = "expired"
    <3>1. PICK i \in 1..Len(attempts[t]) :
            i \in Expired(t) /\ attempts[t][i].outcome = "processing"
      BY <1>3, Rows DEF Expired
    <3>2. i = Len(attempts[t])
      BY <3>1, Rows DEF RowInv, AttemptsInv
    <3>3. attempts[t][i] \in Attempt
      BY <3>1, Rows, ElementOfSeq
    <3>4. QED
      BY <3>1, <3>2, <3>3, Rows DEF RecoveredAttempts, Attempt
  <2>3. QED
    BY <1>3, <2>1, <2>2
<1>4. QED
  BY <1>1, <1>2, <1>3

(* A recovery pass is at most a lapse or a giving up.                       *)
LEMMA RecoverMove ==
  ASSUME IInv, NEW t \in TaskId
  PROVE  Contract!Move(t, Delivery(task[t], attempts[t]),
                          Delivery(RecoveredTask(t), RecoveredAttempts(t)))
<1> DEFINE old == Delivery(task[t], attempts[t])
           new == Delivery(RecoveredTask(t), RecoveredAttempts(t))
           n == Len(attempts[t])
<1>1. /\ task[t] \in Task /\ attempts[t] \in Seq(Attempt)
      /\ RowInv(t, task[t], attempts[t], acked[t], now)
      /\ RecoveredTask(t) \in Task /\ RecoveredAttempts(t) \in Seq(Attempt)
      /\ Len(RecoveredAttempts(t)) = n
      /\ RowInv(t, RecoveredTask(t), RecoveredAttempts(t), acked[t], now)
  BY Rows, RecoveredTyped, RecoveredInv DEF IInv
<1>2. CASE RecoveredTask(t) = task[t] /\ RecoveredAttempts(t) = attempts[t]
  BY <1>2 DEF Contract!Move
<1>3. CASE /\ task[t].status = "processing"
           /\ \/ RecoveredTask(t).status = "queued"
              \/ /\ RecoveredTask(t).status = "failed"
                 /\ RecoveredAttempts(t)[n].outcome = "expired"
  <2>1. old = [holder |-> <<t, n>>, deliveries |-> n, result |-> NULL] /\ n \in Nat \ {0}
    BY <1>1, <1>3, OpenDelivery
  <2>2. <<t, n>> # NULL
    BY <2>1, ConstantsAssumption
  <2>3. \/ new = [holder |-> NULL, deliveries |-> n, result |-> NULL]
        \/ new = [holder |-> NULL, deliveries |-> n,
                   result |-> [by |-> NULL, status |-> "failed",
                               value |-> "attempts_exhausted"]]
    <3>1. CASE RecoveredTask(t).status = "queued"
      BY <1>1, <3>1, OpenDelivery
    <3>2. CASE /\ RecoveredTask(t).status = "failed"
               /\ RecoveredAttempts(t)[n].outcome = "expired"
      BY <1>1, <3>2, OpenDelivery
    <3>3. QED
      BY <1>3, <3>1, <3>2
  <2>4. Contract!Move(t, old, new)
    <3> HIDE DEF old, new, n
    <3> QED
      BY <2>1, <2>2, <2>3
      DEF Contract!Move, Contract!Lapse, Contract!GiveUp, Contract!NoHolder,
          Contract!State, Contract!Exhausted
  <2>5. QED
    BY <2>4
<1>4. QED
  BY <1>2, <1>3, RecoveredCases

(* A delivery out of the queue, perhaps recovered in the same transaction.  *)
LEMMA ClaimMove ==
  ASSUME IInv, IInv', NEW a \in Agent, NEW t \in TaskId, Claim(a, t)
  PROVE  Contract!Move(t, Delivery(task[t], attempts[t]), Delivery(task'[t], attempts'[t]))
<1> DEFINE old == Delivery(task[t], attempts[t])
           new == Delivery(task'[t], attempts'[t])
           n == Len(attempts[t])
<1>1. /\ task[t] \in Task /\ attempts[t] \in Seq(Attempt) /\ n \in Nat
      /\ RowInv(t, task[t], attempts[t], acked[t], now)
      /\ task'[t] \in Task /\ attempts'[t] \in Seq(Attempt)
      /\ RowInv(t, task'[t], attempts'[t], acked'[t], now')
      /\ task[t].attempt_count = n
  BY Rows DEF IInv, TypeOK, RowInv, AttemptsInv
<1>2. /\ RecoveredAttempts(t) \in Seq(Attempt) /\ Len(RecoveredAttempts(t)) = n
      /\ RecoveredTask(t) \in Task
  BY RecoveredTyped DEF IInv
<1>3. task'[t].status = "processing"
  BY <1>2 DEF Claim, Task
<1>4. Len(attempts'[t]) = n + 1
  <2>1. attempts'[t] = Append(RecoveredAttempts(t), NewAttempt(t))
    BY DEF Claim
  <2>2. QED
    BY <1>2, <2>1
<1>5. new = [holder |-> <<t, n + 1>>, deliveries |-> n + 1, result |-> NULL]
  <2>1. new = [holder |-> <<t, Len(attempts'[t])>>, deliveries |-> Len(attempts'[t]),
               result |-> NULL]
    BY <1>1, <1>3, OpenDelivery
  <2>2. QED
    BY <1>4, <2>1
<1>6. old.result = NULL /\ old.deliveries = n
  <2>1. task[t].status \in {"queued", "processing"}
    BY QueueIsOpen DEF Claim, IsOldest
  <2>2. QED
    BY <1>1, <2>1 DEF Delivery, Result
<1>7. max_attempts \in MaxAttempts /\ max_attempts \in Nat /\ n + 1 <= max_attempts
  BY <1>1, ConstantsAssumption DEF Claim, IInv, TypeOK
<1>8. Contract!Move(t, old, new)
  <2> HIDE DEF old, new, n
  <2> QED
    BY <1>5, <1>6, <1>7 DEF Contract!Move, Contract!Deliver
<1>9. QED
  BY <1>8

(* A task given up before it is delivered beyond a lowered limit.           *)
LEMMA ClaimExhaustedMove ==
  ASSUME IInv, IInv', NEW a \in Agent, NEW t \in TaskId, ClaimExhausted(a, t)
  PROVE  Contract!Move(t, Delivery(task[t], attempts[t]), Delivery(task'[t], attempts'[t]))
<1> DEFINE old == Delivery(task[t], attempts[t])
           new == Delivery(task'[t], attempts'[t])
           n == Len(attempts[t])
<1>1. /\ task[t] \in Task /\ attempts[t] \in Seq(Attempt) /\ n \in Nat
      /\ RowInv(t, task[t], attempts[t], acked[t], now)
      /\ task'[t] \in Task /\ attempts'[t] \in Seq(Attempt)
      /\ RowInv(t, task'[t], attempts'[t], acked'[t], now')
      /\ task[t].attempt_count = n
  BY Rows DEF IInv, TypeOK, RowInv, AttemptsInv
<1>2. /\ RecoveredTask(t) \in Task /\ RecoveredTask(t).status = "queued"
      /\ RowInv(t, RecoveredTask(t), RecoveredAttempts(t), acked[t], now)
      /\ Len(RecoveredAttempts(t)) = n
      /\ attempts'[t] = RecoveredAttempts(t)
  BY RecoveredTyped, RecoveredInv DEF IInv, ClaimExhausted, IsOldest, Queue
<1>3. n > 0
  BY <1>1, ConstantsAssumption DEF ClaimExhausted, IInv, TypeOK
<1>4. RecoveredAttempts(t)[n].outcome = "expired"
  BY <1>2, <1>3, <1>1 DEF RowInv, StatusInv
<1>5. task'[t].status = "failed"
  BY <1>2 DEF ClaimExhausted, Task
<1>6. new = [holder |-> NULL, deliveries |-> n,
             result |-> [by |-> NULL, status |-> "failed", value |-> "attempts_exhausted"]]
  BY <1>1, <1>2, <1>4, <1>5, OpenDelivery
<1>7. old = [holder |-> old.holder, deliveries |-> n, result |-> NULL]
  <2>1. task[t].status \in {"queued", "processing"}
    BY QueueIsOpen DEF ClaimExhausted, IsOldest
  <2>2. QED
    BY <1>1, <2>1 DEF Delivery, Result
<1>8. Contract!Move(t, old, new)
  <2> HIDE DEF old, new, n
  <2> QED
    BY <1>1, <1>3, <1>6, <1>7 DEF Contract!Move, Contract!GiveUp, Contract!NoHolder,
          Contract!State, Contract!Exhausted
<1>9. QED
  BY <1>8

(* A submission that is accepted is the report of the holder.               *)
LEMMA CommitMove ==
  ASSUME IInv, IInv', NEW t \in TaskId, NEW a \in Agent, NEW token,
         NEW action \in Action, NEW value \in Payload,
         CommitTerminal(t, a, token, action, value)
  PROVE  Contract!Move(t, Delivery(task[t], attempts[t]), Delivery(task'[t], attempts'[t]))
<1> DEFINE old == Delivery(task[t], attempts[t])
           new == Delivery(task'[t], attempts'[t])
           n == Len(attempts[t])
           done == IF action = "complete" THEN "completed" ELSE "failed"
<1>1. /\ task[t] \in Task /\ attempts[t] \in Seq(Attempt) /\ n \in Nat
      /\ RowInv(t, task[t], attempts[t], acked[t], now)
      /\ task[t].attempt_count = n
  BY Rows DEF RowInv, AttemptsInv
<1>2. PICK i \in Held(t, token) : Live(t, i)
  BY DEF CommitTerminal, TerminalReply
<1>3. i = n /\ i \in 1..n /\ Held(t, token) = {n} /\ task[t].status = "processing"
  BY <1>2, HeldIsUnique, LiveIsLast
<1>4. old = [holder |-> <<t, n>>, deliveries |-> n, result |-> NULL] /\ <<t, n>> # NULL
  BY <1>1, <1>3, OpenDelivery, ConstantsAssumption
<1>5. /\ task'[t].status = done /\ task'[t].attempt_count = n
      /\ (IF done = "completed" THEN task'[t].output ELSE task'[t].error) = value
  BY <1>1 DEF CommitTerminal, IInv, TypeOK, Task, Action
<1>6. /\ attempts'[t][n].outcome = done /\ attempts'[t][n].claim_token = <<t, n>>
      /\ Len(attempts'[t]) = n
  <2>1. attempts' = [attempts EXCEPT ![t][n] =
          [@ EXCEPT !.outcome = done, !.terminal_action = action,
                    !.terminal_payload = value]]
    BY <1>3 DEF CommitTerminal
  <2>2. attempts[t][n] \in Attempt /\ attempts[t][n].claim_token = <<t, n>>
    BY <1>1, <1>3, ElementOfSeq DEF RowInv, AttemptsInv
  <2> DEFINE e == [attempts[t][n] EXCEPT !.outcome = done, !.terminal_action = action,
                                         !.terminal_payload = value]
  <2>3. e \in Attempt /\ e.outcome = done /\ e.claim_token = <<t, n>>
    BY <2>2 DEF Attempt, Outcome, Action
  <2>4. attempts'[t] = [attempts[t] EXCEPT ![n] = e]
    BY <2>1 DEF IInv, TypeOK
  <2> HIDE DEF e, done
  <2>5. QED
    BY <2>3, <2>4, <1>1, <1>3, ExceptSeq
<1>7. new = [holder |-> NULL, deliveries |-> n,
             result |-> [by |-> <<t, n>>, status |-> done, value |-> value]]
  <2>1. done \in {"completed", "failed"}
    OBVIOUS
  <2> HIDE DEF done
  <2>2. QED
    BY <1>5, <1>6, <2>1 DEF Delivery, Holder, Result, Author
<1>8. Contract!Move(t, old, new)
  <2>1. done \in {"completed", "failed"}
    OBVIOUS
  <2> HIDE DEF old, new, n, done
  <2> QED
    BY <1>4, <1>7, <2>1 DEF Contract!Move, Contract!Report, Contract!NoHolder, Contract!State
<1>9. QED
  BY <1>8

(* Renewals, repeated submissions, registrations, the clock, restarts and   *)
(* new tasks are invisible to the contract.                                 *)
LEMMA HeartbeatMove ==
  ASSUME IInv, NEW u \in TaskId, NEW a \in Agent, NEW token, Heartbeat(u, a, token),
         NEW t \in TaskId
  PROVE  Delivery(task'[t], attempts'[t]) = Delivery(task[t], attempts[t])
<1>1. PICK i \in Held(u, token) :
        attempts' = [attempts EXCEPT ![u][i].lease_expires_at = now + lease_seconds]
  BY DEF Heartbeat
<1>2. task' = task
  BY DEF Heartbeat
<1>3. /\ attempts[u] \in Seq(Attempt) /\ i \in 1..Len(attempts[u])
      /\ Len(attempts[u]) \in Nat
  BY Rows DEF Held
<1>4. attempts[u][i] \in Attempt /\ attempts[u][Len(attempts[u])] \in Attempt
  BY <1>3, ElementOfSeq
<1> DEFINE e == [attempts[u][i] EXCEPT !.lease_expires_at = now + lease_seconds]
<1>5. /\ e \in Attempt /\ e.claim_token = attempts[u][i].claim_token
      /\ e.outcome = attempts[u][i].outcome
  <2>1. now + lease_seconds \in Nat
    BY ConstantsAssumption DEF IInv, TypeOK
  <2>2. QED
    BY <1>4, <2>1 DEF Attempt
<1>6. /\ attempts'[u] = [attempts[u] EXCEPT ![i] = e]
      /\ \A v \in TaskId : v # u => attempts'[v] = attempts[v]
  BY <1>1 DEF IInv, TypeOK
<1>7. /\ Len(attempts'[u]) = Len(attempts[u])
      /\ attempts'[u][Len(attempts[u])].claim_token = attempts[u][Len(attempts[u])].claim_token
      /\ attempts'[u][Len(attempts[u])].outcome = attempts[u][Len(attempts[u])].outcome
  <2> HIDE DEF e
  <2>1. QED
    BY <1>3, <1>5, <1>6, ExceptSeq
<1>8. QED
  BY <1>2, <1>6, <1>7 DEF Delivery, Holder, Result, Author

LEMMA CreateMove ==
  ASSUME IInv, NEW s \in Agent, NEW r \in Agent, NEW in \in Input,
         NEW k \in Key \cup {NoKey}, CreateTask(s, r, in, k), NEW t \in TaskId
  PROVE  Delivery(task'[t], attempts'[t]) = Delivery(task[t], attempts[t])
<1>1. PICK u \in TaskId :
        /\ task[u].status = "absent"
        /\ task' = [task EXCEPT ![u] =
            [NoTask EXCEPT !.sender = s, !.recipient = r, !.input = in,
                           !.key = k, !.status = "queued", !.created_at = now]]
  BY DEF CreateTask, Exists
<1>2. /\ task'[u].status = "queued" /\ task'[u].attempt_count = 0
      /\ \A v \in TaskId : v # u => task'[v] = task[v]
  BY <1>1 DEF IInv, TypeOK, NoTask
<1>3. task[u].attempt_count = 0
  BY <1>1, Rows DEF RowInv, AttemptsInv, StatusInv
<1>4. attempts' = attempts
  BY DEF CreateTask
<1>5. QED
  BY <1>1, <1>2, <1>3, <1>4 DEF Delivery, Holder, Result

(* Every step is, at every task, a move of the contract.                    *)
LEMMA StepMoves ==
  ASSUME IInv, IInv', [Next]_vars, NEW t \in TaskId
  PROVE  Contract!Move(t, Delivery(task[t], attempts[t]), Delivery(task'[t], attempts'[t]))
<1> DEFINE old == Delivery(task[t], attempts[t])
           new == Delivery(task'[t], attempts'[t])
<1>1. new = old => Contract!Move(t, old, new)
  BY DEF Contract!Move
<1>2. ASSUME NEW s \in Agent, NEW r \in Agent, NEW in \in Input,
             NEW k \in Key \cup {NoKey}, CreateTask(s, r, in, k)
      PROVE  new = old
  BY <1>2, CreateMove
<1>3. CASE Recover \/ \E a \in Agent : ClaimNothing(a)
  <2>1. task'[t] = RecoveredTask(t) /\ attempts'[t] = RecoveredAttempts(t)
    BY <1>3 DEF Recover, ClaimNothing
  <2>2. QED
    BY <2>1, RecoverMove
<1>4. ASSUME NEW a \in Agent, NEW u \in TaskId, Claim(a, u) \/ ClaimExhausted(a, u)
      PROVE  Contract!Move(t, old, new)
  <2>1. CASE u = t
    BY <1>4, <2>1, ClaimMove, ClaimExhaustedMove
  <2>2. CASE u # t
    <3>1. task'[t] = RecoveredTask(t) /\ attempts'[t] = RecoveredAttempts(t)
      BY <1>4, <2>2 DEF Claim, ClaimExhausted
    <3>2. QED
      BY <3>1, RecoverMove
  <2>3. QED
    BY <2>1, <2>2
<1>5. ASSUME NEW u \in TaskId, NEW a \in Agent, NEW token, Heartbeat(u, a, token)
      PROVE  new = old
  BY <1>5, HeartbeatMove
<1>6. ASSUME NEW u \in TaskId, NEW a \in Agent, NEW token, NEW action \in Action,
             NEW value \in Payload, CommitTerminal(u, a, token, action, value)
      PROVE  Contract!Move(t, old, new)
  <2>1. CASE u = t
    BY <1>6, <2>1, CommitMove
  <2>2. CASE u # t
    <3>1. task'[t] = task[t] /\ attempts'[t] = attempts[t]
      BY <1>6, <2>2 DEF CommitTerminal, IInv, TypeOK
    <3>2. QED
      BY <1>1, <3>1
  <2>3. QED
    BY <2>1, <2>2
<1>7. CASE \/ \E a \in Agent : Register(a)
           \/ \E u \in TaskId, a \in Agent, token \in Issued, action \in Action,
                 value \in Payload : RepeatTerminal(u, a, token, action, value)
           \/ Tick
           \/ Restart
           \/ UNCHANGED vars
  BY <1>1, <1>7 DEF Register, RepeatTerminal, Tick, Restart, vars
<1>8. QED
  BY <1>1, <1>2, <1>3, <1>4, <1>5, <1>6, <1>7 DEF Next, TokenRequest

(* The tables, leases, clocks, recoveries and restarts of the relay keep    *)
(* the contract of SPEC.md:179-192: one holder at a time, a bounded number  *)
(* of deliveries, one result, reported by the holder of the moment.         *)
THEOREM Implementation == Spec => ImplementsContract
<1> DEFINE d == [t \in TaskId |-> Delivery(task[t], attempts[t])]
<1>1. Init => Contract!Init
  <2> SUFFICES ASSUME Init PROVE d = [t \in TaskId |-> Contract!Fresh]
    BY DEF Contract!Init
  <2>1. ASSUME NEW t \in TaskId PROVE Delivery(task[t], attempts[t]) = Contract!Fresh
    BY <2>1 DEF Init, NoTask, Delivery, Holder, Result, Contract!Fresh, Contract!State,
                Contract!NoHolder
  <2>2. QED
    BY <2>1
<1>2. IInv /\ IInv' /\ [Next]_vars => [Contract!Next]_d
  <2> SUFFICES ASSUME IInv, IInv', [Next]_vars PROVE Contract!Next
    OBVIOUS
  <2>1. \A t \in TaskId : Contract!Move(t, d[t], d'[t])
    BY StepMoves
  <2>2. d' = [t \in TaskId |-> d'[t]]
    OBVIOUS
  <2>3. QED
    BY <2>1, <2>2 DEF Contract!Next
<1>3. QED
  BY <1>1, <1>2, Invariance, PTL DEF Spec, ImplementsContract, Contract!Spec

-----------------------------------------------------------------------------
(* The relay with its workers, for every number of workers and every loss   *)
(* and delay of messages.                                                   *)

Counting(token) ==
  [claim_token |-> token, action |-> "complete", value |-> Output(token[1])]

(* Busy workers hold a token; what is counted was acknowledged by the relay *)
(* as the completion with the task's own output.                           *)
WInv ==
  /\ IInv
  /\ WTypeOK
  /\ \A w \in Worker : worker[w].step \in Busy =>
       worker[w].token \in Token /\ worker[w].tries # Tries
  /\ \A token \in counted : Counting(token) \in acked[token[1]]
  /\ \A t \in TaskId : Exists(t) => task[t].input \in Input

-----------------------------------------------------------------------------
(* A request that the relay grants names a task of its own and a claim      *)
(* issued for it: it is a step of the store.                                *)
LEMMA GrantedHeartbeat ==
  ASSUME NEW token \in Token, NEW a \in Agent, Heartbeat(token[1], a, token)
  PROVE  Next
<1>1. token[1] \in TaskId
  BY DEF Token
<1>2. token \in Issued
  BY <1>1 DEF Heartbeat, Held, Issued
<1>3. QED
  BY <1>1, <1>2 DEF Next, TokenRequest

LEMMA GrantedComplete ==
  ASSUME WInv, NEW token \in Token, NEW a \in Agent, Complete(a, token)
  PROVE  Next /\ Counting(token) \in acked'[token[1]]
<1>1. token[1] \in TaskId /\ "complete" \in Action
  BY DEF Token, Action
<1>2. PICK i : i \in Held(token[1], token)
  BY DEF Complete, CommitTerminal, RepeatTerminal, TerminalReply
<1>3. token \in Issued
  BY <1>1, <1>2 DEF Held, Issued
<1>4. Next
  <2>1. Exists(token[1])
    BY DEF Complete, CommitTerminal, RepeatTerminal, TerminalReply
  <2>2. Output(token[1]) \in Payload
    BY <1>1, <2>1, WorkerAssumption DEF WInv, Output
  <2>3. QED
    BY <1>1, <1>3, <2>2 DEF Complete, Next, TokenRequest
<1>5. Acknowledge(token[1], token, "complete", Output(token[1]))
  BY DEF Complete, CommitTerminal, RepeatTerminal
<1>6. Counting(token) \in acked'[token[1]]
  BY <1>1, <1>5 DEF Acknowledge, Counting, WInv, IInv, TypeOK
<1>7. QED
  BY <1>4, <1>6

(* The invariant of the workers survives a step that leaves them alone, and *)
(* the claims counted stay acknowledged under any step of the store.        *)
LEMMA StoreStep ==
  ASSUME WInv, [Next]_vars
  PROVE  /\ IInv'
         /\ \A token \in counted \cap Token :
              Counting(token)' = Counting(token) /\ Counting(token) \in acked'[token[1]]
         /\ \A t \in TaskId : Exists(t)' => task'[t].input \in Input
<1>1. IInv /\ IInv'
  BY Inductive DEF WInv
<1>2. ASSUME NEW t \in TaskId PROVE acked[t] \subseteq acked'[t]
  <2>1. ASSUME NEW u \in TaskId, NEW token, NEW action, NEW value,
               Acknowledge(u, token, action, value)
        PROVE  acked[t] \subseteq acked'[t]
    BY <1>1, <2>1 DEF Acknowledge, IInv, TypeOK
  <2>2. CASE UNCHANGED acked
    BY <2>2
  <2>3. ASSUME NEW u \in TaskId, NEW a \in Agent, NEW token, TokenRequest(u, a, token)
        PROVE  acked[t] \subseteq acked'[t]
    BY <2>1, <2>2, <2>3 DEF TokenRequest, Heartbeat, CommitTerminal, RepeatTerminal
  <2>4. CASE \/ \E a \in Agent : Register(a)
             \/ \E s, r \in Agent, in \in Input, k \in Key \cup {NoKey} : CreateTask(s, r, in, k)
             \/ \E a \in Agent : ClaimNothing(a)
             \/ Recover
             \/ Tick
             \/ Restart
             \/ UNCHANGED vars
    BY <2>2, <2>4 DEF Register, CreateTask, ClaimNothing, Recover, Tick, Restart, vars
  <2>5. ASSUME NEW a \in Agent, NEW u \in TaskId, ClaimExhausted(a, u) \/ Claim(a, u)
        PROVE  acked[t] \subseteq acked'[t]
    BY <2>2, <2>5 DEF ClaimExhausted, Claim
  <2>6. QED
    BY <2>3, <2>4, <2>5 DEF Next
<1>3. ASSUME NEW token \in counted \cap Token
      PROVE  Counting(token)' = Counting(token) /\ Counting(token) \in acked'[token[1]]
  <2> DEFINE t == token[1]
  <2>1. t \in TaskId /\ Counting(token) \in acked[t]
    BY DEF Token, WInv
  <2>2. task[t].status = "completed"
    <3>1. Counting(token).action = "complete"
      BY DEF Counting
    <3>2. QED
      BY <1>1, <2>1, <3>1, AcknowledgedIsClosed
  <2>3. task'[t] = task[t]
    BY <1>1, <2>1, <2>2, FinishedStep
  <2>4. QED
    BY <1>2, <2>1, <2>3 DEF Counting, Output
<1>4. ASSUME NEW t \in TaskId, Exists(t)' PROVE task'[t].input \in Input
  <2>1. ASSUME NEW s \in Agent, NEW r \in Agent, NEW in \in Input,
               NEW k \in Key \cup {NoKey}, CreateTask(s, r, in, k)
        PROVE  task'[t].input \in Input
    <3>1. PICK u \in TaskId :
            task' = [task EXCEPT ![u] =
              [NoTask EXCEPT !.sender = s, !.recipient = r, !.input = in,
                             !.key = k, !.status = "queued", !.created_at = now]]
      BY <2>1 DEF CreateTask
    <3>2. CASE u = t
      BY <1>1, <3>1, <3>2 DEF IInv, TypeOK, NoTask
    <3>3. CASE u # t
      <4>1. task'[t] = task[t]
        BY <3>1, <3>3
      <4>2. QED
        BY <1>4, <4>1 DEF WInv, Exists
    <3>4. QED
      BY <3>2, <3>3
  <2>2. CASE ~ \E s, r \in Agent, in \in Input, k \in Key \cup {NoKey} :
                 CreateTask(s, r, in, k)
    BY <1>1, <1>4, <2>2, RequestIsFixed DEF WInv, Exists
  <2>3. QED
    BY <2>1, <2>2
<1>5. QED
  BY <1>1, <1>3, <1>4

LEMMA WInitInv == WInit => WInv
<1> SUFFICES ASSUME WInit PROVE WInv
  OBVIOUS
<1>1. IInv
  BY InitInv DEF WInit
<1>2. WTypeOK
  BY WorkerAssumption DEF WInit, WTypeOK, WorkerState, Claiming
<1>3. QED
  BY <1>1, <1>2 DEF WInit, WInv, Claiming, Busy, Init, Exists, NoTask

(* A step that changes at most one worker, to a state of its kind.          *)
LEMMA WorkerStep ==
  ASSUME WInv, [Next]_vars, NEW w \in Worker,
         NEW state \in WorkerState,
         state.step \in Busy => state.token \in Token /\ state.tries # Tries,
         worker' = [worker EXCEPT ![w] = state] \/ UNCHANGED worker,
         late' \subseteq Request,
         \/ UNCHANGED counted
         \/ \E token \in Token :
              /\ counted' = counted \cup {token}
              /\ Counting(token)' \in acked'[token[1]]
  PROVE  WInv'
<1>1. counted \subseteq Token /\ worker \in [Worker -> WorkerState]
  BY DEF WInv, WTypeOK
<1>2. WTypeOK'
  BY <1>1 DEF WTypeOK
<1>3. \A v \in Worker : 
        worker'[v].step \in Busy => worker'[v].token \in Token /\ worker'[v].tries # Tries
  BY <1>1 DEF WInv
<1>4. \A token \in counted' : Counting(token)' \in acked'[token[1]]
  BY <1>1, StoreStep
<1>5. IInv' /\ \A t \in TaskId : Exists(t)' => task'[t].input \in Input
  BY StoreStep
<1>6. QED
  BY <1>2, <1>3, <1>4, <1>5 DEF WInv

(* Every step of the composition keeps the invariant and is a step of the   *)
(* store, or none.                                                          *)
LEMMA WInductive == WInv /\ [WNext]_allvars => WInv' /\ [Next]_vars
<1> SUFFICES ASSUME WInv, [WNext]_allvars PROVE WInv' /\ [Next]_vars
  OBVIOUS
<1>0. /\ worker \in [Worker -> WorkerState] /\ late \subseteq Request
      /\ Claiming \in WorkerState /\ Claiming.step \notin Busy
      /\ Identity \in [Worker -> Agent]
  BY WorkerAssumption DEF WInv, WTypeOK, Claiming, WorkerState, Busy
<1>1. ASSUME NEW w \in Worker, worker[w].step \in Busy
      PROVE  worker[w].token \in Token /\ worker[w] \in WorkerState
             /\ worker[w].tries # Tries
  BY <1>0, <1>1 DEF WInv
<1>2. ASSUME NEW w \in Worker, NEW t \in TaskId, ClaimAnswered(w, t)
      PROVE  WInv' /\ [Next]_vars
  <2> DEFINE state == [step |-> "working", token |-> NewAttempt(t).claim_token,
                       loop |-> TRUE, tries |-> 0]
  <2>1. [Next]_vars
    BY <1>0, <1>2 DEF ClaimAnswered, Next
  <2>2. NewAttempt(t).claim_token \in Token
    <3>1. Len(attempts[t]) \in Nat
      BY Rows DEF WInv
    <3>2. QED
      BY <3>1 DEF NewAttempt, Token
  <2>3. state \in WorkerState
    BY <2>2, WorkerAssumption DEF WorkerState, Busy
  <2>4. worker' = [worker EXCEPT ![w] = state] /\ UNCHANGED <<late, counted>>
    BY <1>2 DEF ClaimAnswered, Become
  <2> HIDE DEF state
  <2>5. state.token \in Token /\ state.tries # Tries
    BY <2>2, WorkerAssumption DEF state
  <2>6. QED
    BY <1>0, <2>1, <2>3, <2>4, <2>5, WorkerStep
<1>3. ASSUME NEW w \in Worker, ClaimEmpty(w) PROVE WInv' /\ [Next]_vars
  <2>1. [Next]_vars /\ UNCHANGED wvars
    BY <1>0, <1>3 DEF ClaimEmpty, Next
  <2>2. QED
    BY <1>0, <2>1, WorkerStep DEF wvars
<1>4. ASSUME NEW w \in Worker, ClaimLost(w) PROVE WInv' /\ [Next]_vars
  <2> DEFINE state == Exited(0)
  <2>1. [Next]_vars
    BY <1>0, <1>4 DEF ClaimLost, Next
  <2>2. state \in WorkerState /\ state.step \notin Busy
    BY WorkerAssumption DEF WorkerState, Busy, Exited
  <2>3. worker' = [worker EXCEPT ![w] = state] /\ UNCHANGED <<late, counted>>
    BY <1>4 DEF ClaimLost, Become
  <2>4. QED
    BY <1>0, <2>1, <2>2, <2>3, WorkerStep
<1>5. ASSUME NEW w \in Worker, Renew(w) PROVE WInv' /\ [Next]_vars
  <2>1. [Next]_vars /\ UNCHANGED wvars
    BY <1>0, <1>1, <1>5, GrantedHeartbeat DEF Renew, Beating, Holding
  <2>2. QED
    BY <1>0, <2>1, WorkerStep DEF wvars
<1>6. ASSUME NEW w \in Worker, RenewLate(w) PROVE WInv' /\ [Next]_vars
  <2>1. late' \subseteq Request /\ UNCHANGED <<vars, worker, counted>>
    BY <1>0, <1>1, <1>6 DEF RenewLate, Beating, Request
  <2>2. QED
    BY <1>0, <2>1, WorkerStep
<1>7. ASSUME NEW w \in Worker, RenewRefused(w) \/ RenewUnavailable(w)
      PROVE  WInv' /\ [Next]_vars
  <2> DEFINE state == [worker[w] EXCEPT !.loop = FALSE]
  <2>1. state \in WorkerState /\ state.token \in Token /\ state.tries # Tries
    BY <1>1, <1>7 DEF RenewRefused, RenewUnavailable, Beating, WorkerState
  <2>2. worker' = [worker EXCEPT ![w] = state] /\ UNCHANGED <<vars, late, counted>>
    BY <1>7 DEF RenewRefused, RenewUnavailable, Become
  <2> HIDE DEF state
  <2>3. QED
    BY <1>0, <2>1, <2>2, WorkerStep
<1>8. ASSUME NEW w \in Worker, Finish(w) PROVE WInv' /\ [Next]_vars
  <2> DEFINE state == [worker[w] EXCEPT !.step = "submitting"]
  <2>1. state \in WorkerState /\ state.token \in Token /\ state.tries # Tries
    BY <1>1, <1>8 DEF Finish, WorkerState, Busy
  <2>2. worker' = [worker EXCEPT ![w] = state] /\ UNCHANGED <<vars, late, counted>>
    BY <1>8 DEF Finish, Become
  <2> HIDE DEF state
  <2>3. QED
    BY <1>0, <2>1, <2>2, WorkerStep
<1>9. ASSUME NEW w \in Worker, SubmitAnswered(w) PROVE WInv' /\ [Next]_vars
  <2>1. PICK token \in Token : token = worker[w].token
    BY <1>1, <1>9 DEF SubmitAnswered, Busy
  <2>2. Complete(Identity[w], token)
    BY <1>9, <2>1 DEF SubmitAnswered
  <2>3. Next /\ Counting(token) \in acked'[token[1]]
    BY <1>0, <2>1, <2>2, GrantedComplete
  <2>4. task'[token[1]].input = task[token[1]].input
    <3>1. token[1] \in TaskId /\ task[token[1]] \in Task /\ task \in [TaskId -> Task]
      BY <2>1 DEF Token, WInv, IInv, TypeOK
    <3>2. ASSUME CommitTerminal(token[1], Identity[w], token, "complete", Output(token[1]))
          PROVE  task'[token[1]].input = task[token[1]].input
      BY <3>1, <3>2 DEF CommitTerminal, Task
    <3>3. QED
      BY <2>2, <3>2 DEF Complete, RepeatTerminal
  <2>5. Counting(token)' \in acked'[token[1]]
    BY <2>3, <2>4 DEF Counting, Output
  <2>6. counted' = counted \cup {token} /\ worker' = [worker EXCEPT ![w] = Claiming]
        /\ late' = late
    BY <1>9, <2>1 DEF SubmitAnswered, Become
  <2>7. QED
    BY <1>0, <2>1, <2>3, <2>5, <2>6, WorkerStep
<1>10. ASSUME NEW w \in Worker, SubmitRefused(w) PROVE WInv' /\ [Next]_vars
  BY <1>0, <1>10, WorkerStep DEF SubmitRefused, Become
<1>11. ASSUME NEW w \in Worker, worker[w].step = "submitting", TryAgain(w), [Next]_vars,
              late' \subseteq Request, UNCHANGED counted
       PROVE  WInv'
  <2>1. worker[w].token \in Token /\ worker[w] \in WorkerState
    BY <1>1, <1>11 DEF Busy
  <2> DEFINE n == worker[w].tries + 1
             again == [worker[w] EXCEPT !.tries = n]
             out == Exited(n)
  <2>2. worker[w].tries \in 0..Tries /\ Tries \in Nat
    BY <2>1, WorkerAssumption DEF WorkerState
  <2>3. CASE n < Tries
    <3>1. again \in WorkerState /\ again.token \in Token /\ again.tries # Tries
      BY <2>1, <2>2, <2>3 DEF WorkerState
    <3>2. worker' = [worker EXCEPT ![w] = again]
      BY <1>11, <2>3 DEF TryAgain, Become
    <3> HIDE DEF again
    <3>3. QED
      BY <1>11, <3>1, <3>2, WorkerStep
  <2>4. CASE n >= Tries
    <3>1. worker[w].tries # Tries
      BY <1>1, <1>11 DEF Busy
    <3>2. out \in WorkerState /\ out.step \notin Busy
      <4>1. n \in 0..Tries
        BY <2>2, <3>1
      <4> HIDE DEF n
      <4>2. QED
        BY <4>1 DEF WorkerState, Busy, Exited
    <3>3. worker' = [worker EXCEPT ![w] = out]
      <4>1. ~(n < Tries)
        BY <2>2, <2>4
      <4>2. worker' = [worker EXCEPT ![w] = IF n < Tries THEN again ELSE out]
        BY <1>11 DEF TryAgain, Become
      <4> HIDE DEF n, out, again
      <4>3. QED
        BY <4>1, <4>2
    <3> HIDE DEF out
    <3>4. QED
      BY <1>11, <3>2, <3>3, WorkerStep
  <2>5. QED
    BY <2>2, <2>3, <2>4
<1>12. ASSUME NEW w \in Worker, SubmitLost(w) PROVE WInv' /\ [Next]_vars
  <2>1. [Next]_vars
    BY <1>0, <1>1, <1>12, GrantedComplete DEF SubmitLost, Busy
  <2>2. QED
    BY <1>0, <1>11, <1>12, <2>1 DEF SubmitLost
<1>13. ASSUME NEW w \in Worker, SubmitLate(w) PROVE WInv' /\ [Next]_vars
  <2>1. late' \subseteq Request /\ [Next]_vars
    BY <1>0, <1>1, <1>13 DEF SubmitLate, Request, Busy
  <2>2. QED
    BY <1>11, <1>13, <2>1 DEF SubmitLate
<1>14. ASSUME NEW w \in Worker, Kill(w) PROVE WInv' /\ [Next]_vars
  <2> DEFINE state == [Claiming EXCEPT !.step = "killed"]
  <2>1. state \in WorkerState /\ state.step \notin Busy
    BY <1>0 DEF WorkerState, Busy
  <2>2. worker' = [worker EXCEPT ![w] = state] /\ UNCHANGED <<vars, late, counted>>
    BY <1>14 DEF Kill, Become
  <2>3. QED
    BY <1>0, <2>1, <2>2, WorkerStep
<1>15. ASSUME NEW w \in Worker, StartAgain(w) PROVE WInv' /\ [Next]_vars
  BY <1>0, <1>15, WorkerStep DEF StartAgain, Become
<1>16. ASSUME NEW m \in late, Arrive(m) \/ Lose(m) PROVE WInv' /\ [Next]_vars
  <2>1. m.token \in Token /\ m.agent \in Agent
    BY <1>0 DEF Request
  <2>2. [Next]_vars
    BY <1>16, <2>1, GrantedHeartbeat, GrantedComplete DEF Arrive, Lose
  <2>3. late' \subseteq Request /\ UNCHANGED <<worker, counted>>
    BY <1>0, <1>16 DEF Arrive, Lose
  <2>4. CASE Worker = {}
    <3>1. worker' = worker /\ counted' = counted
      BY <2>3
    <3>2. QED
      BY <2>2, <2>3, <2>4, <3>1, StoreStep DEF WInv, WTypeOK
  <2>5. CASE Worker # {}
    <3>1. PICK w : w \in Worker
      BY <2>5
    <3>2. QED
      BY <1>0, <2>2, <2>3, <3>1, WorkerStep
  <2>6. QED
    BY <2>4, <2>5
<1>17. CASE Elsewhere \/ UNCHANGED allvars
  <2>1. [Next]_vars /\ UNCHANGED wvars
    BY <1>17 DEF Elsewhere, Next, allvars
  <2>2. QED
    BY <2>1, StoreStep DEF WInv, WTypeOK, wvars
<1>18. QED
  BY <1>2, <1>3, <1>4, <1>5, <1>6, <1>7, <1>8, <1>9, <1>10, <1>12, <1>13, <1>14, <1>15,
     <1>16, <1>17 DEF WNext

(* Busy workers hold a token of the store's, and whatever is counted was     *)
(* acknowledged: networks that lose, delay and repeat requests included.    *)
THEOREM WInvariance == WSpec => []WInv
BY WInitInv, WInductive, PTL DEF WSpec

(* Whatever workers do and networks lose, the store behaves as AgentRelay    *)
(* says, and keeps the contract of a delivery.                               *)
THEOREM WorkersUseTheStore == WSpec => Spec
BY WInvariance, WInductive, PTL DEF WSpec, WInit, Spec

(* What a worker counts as completed is stored, under the claim it held.     *)
THEOREM CountingIsSafe == WSpec => []CountedIsStored
<1>1. WInv => CountedIsStored
  <2> SUFFICES ASSUME WInv, NEW token \in counted
               PROVE  /\ task[token[1]].status = "completed"
                      /\ task[token[1]].output = Output(token[1])
                      /\ Last(token[1]).claim_token = token
    BY DEF CountedIsStored
  <2> DEFINE t == token[1]
  <2>1. t \in TaskId /\ Counting(token) \in acked[t] /\ token \in Token
    BY DEF WInv, WTypeOK, Token
  <2>2. /\ Counting(token).action = "complete" /\ Counting(token).claim_token = token
        /\ Counting(token).value = Output(t)
    BY DEF Counting
  <2>3. Len(attempts[t]) \in 1..Len(attempts[t])
    BY <2>1, AcknowledgedIsClosed, Rows DEF WInv
  <2>4. attempts[t][Len(attempts[t])].claim_token = <<t, Len(attempts[t])>>
    BY <2>1, <2>3, Rows DEF WInv, RowInv, AttemptsInv
  <2>5. QED
    BY <2>1, <2>2, <2>4, AcknowledgedIsClosed DEF WInv, Last
<1>2. QED
  BY <1>1, WInvariance, PTL

-----------------------------------------------------------------------------
(* No overlap.  That two live claims on one task are the same claim is the  *)
(* store's doing; that one claim is held by one worker is the network's:    *)
(* an answer reaches the worker that asked or nobody.                      *)

(* Busy workers hold claims that were granted, each a claim of its own.     *)
OwnClaims ==
  /\ \A w \in Worker : worker[w].step \in Busy =>
       worker[w].token[2] <= Len(attempts[Holding(w)])
  /\ \A v, w \in Worker :
       /\ worker[v].step \in Busy /\ worker[w].step \in Busy
       /\ worker[v].token = worker[w].token
       => v = w

(* Attempts are added to and never taken away.                             *)
LEMMA AttemptsStay ==
  ASSUME IInv, [Next]_vars, NEW t \in TaskId
  PROVE  /\ Len(attempts[t]) \in Nat /\ Len(attempts'[t]) \in Nat
         /\ Len(attempts[t]) <= Len(attempts'[t])
<1>1. IInv'
  BY Inductive
<1>2. /\ Len(attempts[t]) \in Nat /\ Len(attempts[t]) = task[t].attempt_count
      /\ task[t] \in Task /\ task \in [TaskId -> Task]
  BY Rows DEF RowInv, AttemptsInv, IInv, TypeOK
<1>3. Len(attempts'[t]) \in Nat /\ Len(attempts'[t]) = task'[t].attempt_count
  <2>1. TypeOK' /\ RowInv(t, task'[t], attempts'[t], acked'[t], now')
    BY <1>1 DEF IInv
  <2>2. attempts'[t] \in Seq(Attempt)
    BY <2>1 DEF TypeOK
  <2>3. QED
    BY <2>1, <2>2, LenProperties DEF RowInv, AttemptsInv
<1>4. task'[t].attempt_count >= task[t].attempt_count
  <2>1. task[t].attempt_count \in Nat
    BY <1>2 DEF Task
  <2>2. RecoveredTask(t).attempt_count = task[t].attempt_count
    BY <1>2 DEF RecoveredTask, Task
  <2>3. ASSUME NEW s \in Agent, NEW r \in Agent, NEW in \in Input,
               NEW k \in Key \cup {NoKey}, CreateTask(s, r, in, k)
        PROVE  task'[t].attempt_count >= task[t].attempt_count
    <3>1. PICK u \in TaskId : ~Exists(u) /\
            task' = [task EXCEPT ![u] =
              [NoTask EXCEPT !.sender = s, !.recipient = r, !.input = in,
                             !.key = k, !.status = "queued", !.created_at = now]]
      BY <2>3 DEF CreateTask
    <3>2. CASE u = t
      <4>1. task[t].status = "absent"
        BY <3>1, <3>2 DEF Exists
      <4>2. task[t].attempt_count = 0
        BY <4>1, Rows DEF RowInv, StatusInv, AttemptsInv
      <4>3. task'[t].attempt_count = 0
        BY <1>2, <3>1, <3>2 DEF NoTask
      <4>4. QED
        BY <4>2, <4>3
    <3>3. CASE u # t
      BY <2>1, <3>1, <3>3
    <3>4. QED
      BY <3>2, <3>3
  <2>4. ASSUME NEW u \in TaskId, NEW a \in Agent, NEW token, TokenRequest(u, a, token)
        PROVE  task'[t].attempt_count >= task[t].attempt_count
    <3>1. ASSUME NEW action \in Action, NEW value \in Payload,
                 CommitTerminal(u, a, token, action, value)
          PROVE  task'[t].attempt_count = task[t].attempt_count
      BY <1>2, <3>1 DEF CommitTerminal, Task
    <3>2. CASE UNCHANGED task
      BY <2>1, <3>2
    <3>3. QED
      BY <2>1, <2>4, <3>1, <3>2 DEF TokenRequest, Heartbeat, RepeatTerminal
  <2>5. ASSUME NEW a \in Agent, NEW u \in TaskId, Claim(a, u)
        PROVE  task'[t].attempt_count >= task[t].attempt_count
    <3>1. RecoveredTask(t) \in Task
      BY RecoveredTyped DEF IInv
    <3>2. QED
      BY <2>1, <2>2, <2>5, <3>1 DEF Claim, Task
  <2>6. ASSUME NEW a \in Agent, NEW u \in TaskId, ClaimExhausted(a, u)
        PROVE  task'[t].attempt_count >= task[t].attempt_count
    <3>1. RecoveredTask(t) \in Task
      BY RecoveredTyped DEF IInv
    <3>2. QED
      BY <2>1, <2>2, <2>6, <3>1 DEF ClaimExhausted, Task
  <2>7. CASE Recover \/ \E a \in Agent : ClaimNothing(a)
    BY <2>1, <2>2, <2>7 DEF Recover, ClaimNothing
  <2>8. CASE \/ \E a \in Agent : Register(a)
             \/ Tick
             \/ Restart
             \/ UNCHANGED vars
    BY <2>1, <2>8 DEF Register, Tick, Restart, vars
  <2>9. QED
    BY <2>3, <2>4, <2>5, <2>6, <2>7, <2>8 DEF Next
<1>5. QED
  BY <1>2, <1>3, <1>4

(* A step after which every busy worker holds the claim it held before.     *)
LEMMA KeepClaims ==
  ASSUME WInv, OwnClaims, [Next]_vars,
         \A w \in Worker : worker'[w].step \in Busy =>
           worker[w].step \in Busy /\ worker'[w].token = worker[w].token
  PROVE  OwnClaims'
<1>1. ASSUME NEW w \in Worker, worker'[w].step \in Busy
      PROVE  worker'[w].token[2] <= Len(attempts'[worker'[w].token[1]])
  <2>1. /\ worker[w].token \in Token /\ worker'[w].token = worker[w].token
        /\ worker[w].token[2] <= Len(attempts[worker[w].token[1]])
    BY <1>1 DEF WInv, OwnClaims, Holding
  <2>2. worker[w].token[1] \in TaskId /\ worker[w].token[2] \in Nat
    BY <2>1 DEF Token
  <2>3. QED
    BY <2>1, <2>2, AttemptsStay DEF WInv
<1>2. QED
  BY <1>1 DEF OwnClaims, Holding

LEMMA OwnClaimsInductive ==
  ASSUME WInv, OwnClaims, [WNext]_allvars
  PROVE  OwnClaims'
<1>0. /\ worker \in [Worker -> WorkerState] /\ Claiming.step \notin Busy
      /\ Identity \in [Worker -> Agent] /\ [Next]_vars
  BY WInductive, WorkerAssumption DEF WInv, WTypeOK, Claiming, Busy
<1>1. ASSUME NEW w \in Worker, NEW t \in TaskId, ClaimAnswered(w, t)
      PROVE  OwnClaims'
  <2> DEFINE n == Len(attempts[t])
             state == [step |-> "working", token |-> <<t, n + 1>>, loop |-> TRUE, tries |-> 0]
  <2>1. n \in Nat
    BY AttemptsStay, <1>0 DEF WInv
  <2>2. Len(attempts'[t]) = n + 1
    <3>1. RecoveredAttempts(t) \in Seq(Attempt) /\ Len(RecoveredAttempts(t)) = n
      BY RecoveredTyped DEF WInv, IInv
    <3>2. attempts'[t] = Append(RecoveredAttempts(t), NewAttempt(t))
      BY <1>1 DEF ClaimAnswered, Claim
    <3> HIDE DEF n
    <3>3. QED
      BY <3>1, <3>2, LenProperties
  <2>3. worker' = [worker EXCEPT ![w] = state]
    BY <1>1 DEF ClaimAnswered, Become, NewAttempt
  <2>4. worker'[w].token = <<t, n + 1>>
    BY <1>0, <2>3
  <2>5. ASSUME NEW v \in Worker, v # w, worker'[v].step \in Busy
        PROVE  /\ worker[v].step \in Busy /\ worker'[v].token = worker[v].token
               /\ worker'[v].token \in Token
               /\ worker'[v].token[2] <= Len(attempts[worker'[v].token[1]])
    BY <1>0, <2>3, <2>5 DEF WInv, OwnClaims, Holding
  <2> HIDE DEF state, n
  <2>6. ASSUME NEW v \in Worker, v # w, worker'[v].step \in Busy
        PROVE  /\ worker'[v].token # <<t, n + 1>>
               /\ worker'[v].token[2] <= Len(attempts'[worker'[v].token[1]])
    <3>1. worker'[v].token[1] \in TaskId /\ worker'[v].token[2] \in Nat
      BY <2>5, <2>6 DEF Token
    <3>2. worker'[v].token[2] <= Len(attempts'[worker'[v].token[1]])
      BY <1>0, <2>5, <2>6, <3>1, AttemptsStay DEF WInv
    <3>3. worker'[v].token # <<t, n + 1>>
      <4>1. worker'[v].token[2] <= Len(attempts[worker'[v].token[1]])
        BY <2>5, <2>6
      <4>2. QED
        BY <2>1, <4>1 DEF n
    <3>4. QED
      BY <3>2, <3>3
  <2>7. worker'[w].token[2] <= Len(attempts'[worker'[w].token[1]])
    BY <2>1, <2>2, <2>4
  <2>8. \A v \in Worker : worker'[v].step \in Busy =>
          worker'[v].token[2] <= Len(attempts'[worker'[v].token[1]])
    BY <2>6, <2>7
  <2>9. ASSUME NEW u \in Worker, NEW v \in Worker,
               worker'[u].step \in Busy, worker'[v].step \in Busy,
               worker'[u].token = worker'[v].token
        PROVE  u = v
    <3>1. CASE u = w \/ v = w
      BY <2>4, <2>6, <2>9, <3>1
    <3>2. CASE u # w /\ v # w
      BY <2>5, <2>9, <3>2 DEF OwnClaims
    <3>3. QED
      BY <3>1, <3>2
  <2>10. QED
    BY <2>8, <2>9 DEF OwnClaims, Holding
<1>2. ASSUME NEW w \in Worker,
             \/ ClaimEmpty(w) \/ ClaimLost(w)
             \/ Renew(w) \/ RenewLate(w) \/ RenewRefused(w) \/ RenewUnavailable(w)
             \/ Finish(w) \/ SubmitAnswered(w) \/ SubmitRefused(w)
             \/ SubmitLost(w) \/ SubmitLate(w) \/ Kill(w) \/ StartAgain(w)
      PROVE  OwnClaims'
  <2> DEFINE Kept == \A v \in Worker : worker'[v].step \in Busy =>
                       worker[v].step \in Busy /\ worker'[v].token = worker[v].token
  <2>1. CASE UNCHANGED worker
    BY <1>0, <2>1, KeepClaims
  <2>2. ASSUME NEW state, worker' = [worker EXCEPT ![w] = state],
               state.step \in Busy =>
                 worker[w].step \in Busy /\ state.token = worker[w].token
        PROVE  Kept
    BY <1>0, <2>2
  <2>3. CASE RenewRefused(w) \/ RenewUnavailable(w)
    <3> DEFINE state == [worker[w] EXCEPT !.loop = FALSE]
    <3>1. worker' = [worker EXCEPT ![w] = state] /\ worker[w].step \in Busy
      BY <2>3 DEF RenewRefused, RenewUnavailable, Become, Beating
    <3>2. worker[w] \in WorkerState
      BY <1>0
    <3>3. state.token = worker[w].token
      BY <3>2 DEF WorkerState
    <3> HIDE DEF state
    <3>4. Kept
      BY <2>2, <3>1, <3>3
    <3>5. QED
      BY <1>0, <3>4, KeepClaims
  <2>4. CASE Finish(w)
    <3> DEFINE state == [worker[w] EXCEPT !.step = "submitting"]
    <3>1. worker' = [worker EXCEPT ![w] = state] /\ worker[w].step \in Busy
      BY <2>4 DEF Finish, Become, Busy
    <3>2. worker[w] \in WorkerState
      BY <1>0
    <3>3. state.token = worker[w].token
      BY <3>2 DEF WorkerState
    <3> HIDE DEF state
    <3>4. Kept
      BY <2>2, <3>1, <3>3
    <3>5. QED
      BY <1>0, <3>4, KeepClaims
  <2>5. CASE SubmitLost(w) \/ SubmitLate(w)
    <3> DEFINE n == worker[w].tries + 1
               again == [worker[w] EXCEPT !.tries = n]
               state == IF n < Tries THEN again ELSE Exited(n)
    <3>1. worker' = [worker EXCEPT ![w] = state] /\ worker[w].step \in Busy
      BY <2>5 DEF SubmitLost, SubmitLate, TryAgain, Become, Busy
    <3>2. worker[w] \in WorkerState
      BY <1>0
    <3>3. again.token = worker[w].token /\ Exited(n).step \notin Busy
      BY <3>2 DEF WorkerState, Exited, Busy
    <3>4. state.step \in Busy => state.token = worker[w].token
      BY <3>3
    <3> HIDE DEF state
    <3>5. Kept
      BY <2>2, <3>1, <3>4
    <3>6. QED
      BY <1>0, <3>5, KeepClaims
  <2>6. ASSUME NEW state, worker' = [worker EXCEPT ![w] = state], state.step \notin Busy
        PROVE  OwnClaims'
    BY <1>0, <2>2, <2>6, KeepClaims
  <2>7. CASE ClaimLost(w)
    BY <2>6, <2>7 DEF ClaimLost, Become, Exited, Busy
  <2>8. CASE SubmitAnswered(w) \/ SubmitRefused(w) \/ StartAgain(w)
    BY <1>0, <2>6, <2>8 DEF SubmitAnswered, SubmitRefused, StartAgain, Become
  <2>9. CASE Kill(w)
    BY <2>6, <2>9 DEF Kill, Become, Claiming, Busy
  <2>10. CASE ClaimEmpty(w) \/ Renew(w) \/ RenewLate(w)
    BY <2>1, <2>10 DEF ClaimEmpty, Renew, RenewLate, wvars
  <2>11. QED
    BY <1>2, <2>3, <2>4, <2>5, <2>7, <2>8, <2>9, <2>10
<1>3. CASE UNCHANGED worker
  BY <1>0, <1>3, KeepClaims
<1>4. CASE (\E m \in late : Arrive(m) \/ Lose(m)) \/ Elsewhere \/ UNCHANGED allvars
  BY <1>3, <1>4 DEF Arrive, Lose, Elsewhere, allvars, wvars
<1>5. QED
  BY <1>1, <1>2, <1>4 DEF WNext

(* Two workers never hold claims on one task that are both still live.      *)
THEOREM NoTaskIsWorkedTwice == WSpec => []NoOverlap
<1>1. WInit => OwnClaims
  BY DEF WInit, OwnClaims, Claiming, Busy
<1>2. WSpec => []OwnClaims
  BY <1>1, OwnClaimsInductive, WInvariance, PTL DEF WSpec
<1>3. WInv /\ OwnClaims => NoOverlap
  <2> SUFFICES ASSUME WInv, OwnClaims, NEW v \in Worker, NEW w \in Worker,
                      worker[v].step \in Busy, worker[w].step \in Busy,
                      NEW i \in Held(Holding(v), worker[v].token), Live(Holding(v), i),
                      NEW j \in Held(Holding(w), worker[w].token), Live(Holding(w), j),
                      Holding(v) = Holding(w)
               PROVE  v = w
    BY DEF NoOverlap
  <2> DEFINE t == Holding(v)
  <2>1. t \in TaskId
    BY DEF WInv, Holding, Token
  <2>2. worker[v].token = <<t, Len(attempts[t])>>
    BY <2>1, HeldIsUnique, LiveIsLast DEF WInv
  <2>3. worker[w].token = <<t, Len(attempts[t])>>
    BY <2>1, HeldIsUnique, LiveIsLast DEF WInv
  <2>4. QED
    BY <2>2, <2>3 DEF OwnClaims
<1>4. QED
  BY <1>2, <1>3, WInvariance, PTL
=============================================================================
