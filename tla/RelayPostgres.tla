---------------------------- MODULE RelayPostgres ----------------------------
(***************************************************************************)
(* The Agent Relay store on PostgreSQL (module3/storage.py and             *)
(* module3/database.py): `immediate_transaction` is an ordinary READ       *)
(* COMMITTED transaction, so a pass that recovers leases, a claim, a       *)
(* renewal and a submission interleave and only row locks keep them apart. *)
(*                                                                         *)
(* A task's row and its attempts are one `version`: every writer holds the *)
(* lock of the task's row before it reads or locks an attempt of it.  A    *)
(* transaction reads the committed versions, keeps what it changed in its  *)
(* `view` - whose domain is the set of tasks it has locked - and publishes *)
(* the view when it commits.  Waiting is a step that is not enabled.       *)
(*                                                                         *)
(* Left out, being in AgentRelay: recipients, creation times (the ids are  *)
(* in creation order), idempotency keys, refusals, which change nothing.   *)
(***************************************************************************)
EXTENDS Integers, Sequences

CONSTANTS
  Process,        \* transactions that may be open at a time, of any API process
  TaskId,         \* the tasks of one recipient, in creation order
  Payload,        \* outputs and error texts
  NULL,
  LeaseSeconds,   \* LEASE_SECONDS
  MaxAttempts,    \* MAX_ATTEMPTS as the API process of each transaction read it:
                  \* a rolling restart runs old and new limits side by side
  Horizon,        \* bound: the clock stops here
  MaxId           \* bound: the largest attempt id given out

ASSUME PostgresAssumption ==
  /\ TaskId \subseteq Nat
  /\ LeaseSeconds \in Nat \ {0}
  /\ MaxAttempts \in [Process -> Nat \ {0}]
  /\ NULL \notin Payload /\ "attempts_exhausted" # NULL
  /\ NULL \notin TaskId \X Nat
  /\ Horizon \in Nat /\ MaxId \in Nat

VARIABLES
  now,     \* server clock
  store,   \* the committed version of each task: status, attempt_count,
           \* result, and the rows of its attempts
  txn,     \* for each process: its open transaction
  view,    \* for each process: the versions of the tasks it has locked
  acked    \* history: the submissions answered 200

vars == <<now, store, txn, view, acked>>

NoTxn == [kind |-> "none", step |-> "idle", now |-> 0, todo |-> {}, ack |-> {}]
Empty == [t \in {} |-> NULL]

Init ==
  /\ now = 0
  /\ store = [t \in TaskId |->
       [status |-> "queued", attempt_count |-> 0, result |-> NULL, rows |-> <<>>]]
  /\ txn = [p \in Process |-> NoTxn]
  /\ view = [p \in Process |-> Empty]
  /\ acked = {}

-----------------------------------------------------------------------------
(* Row locks.                                                              *)

Holds(p, t) == t \in DOMAIN view[p]
Free(p, t) == \A q \in Process \ {p} : ~Holds(q, t)

(* What p sees of t: its own uncommitted version, or the committed one.    *)
Seen(p, t) == IF Holds(p, t) THEN view[p][t] ELSE store[t]

(* p locks t, reads it again under the lock and leaves version v there.    *)
Write(p, t, v) ==
  view' = [view EXCEPT ![p] =
    [u \in DOMAIN view[p] \cup {t} |-> IF u = t THEN v ELSE view[p][u]]]

(* The transaction is over: its locks are released.                        *)
End(p) ==
  /\ txn' = [txn EXCEPT ![p] = NoTxn]
  /\ view' = [view EXCEPT ![p] = Empty]

-----------------------------------------------------------------------------
(* A recovery pass, by itself or at the start of a claim.                  *)

(* `now` is read once, before any lock is asked for.                       *)
Begin(p, kind) ==
  /\ txn[p].kind = "none"
  /\ txn' = [txn EXCEPT ![p] = [NoTxn EXCEPT !.kind = kind, !.step = "scan", !.now = now]]
  /\ UNCHANGED <<now, store, view, acked>>

Overdue(v, i, n) == v.rows[i].outcome = "processing" /\ v.rows[i].lease_expires_at <= n

(* The unlocked scan for expired attempts.                                 *)
Scan(p) ==
  /\ txn[p].step = "scan"
  /\ txn' = [txn EXCEPT ![p].step = "lock", ![p].todo =
       UNION {{[task |-> t, row |-> i, id |-> store[t].rows[i].id,
                lease_expires_at |-> store[t].rows[i].lease_expires_at] :
               i \in {j \in DOMAIN store[t].rows : Overdue(store[t], j, txn[p].now)}} :
              t \in TaskId}]
  /\ UNCHANGED <<now, store, view, acked>>

(* The order of the scan: by lease end, then by attempt id.                *)
First(e, S) ==
  /\ e \in S
  /\ \A f \in S : \/ e.lease_expires_at < f.lease_expires_at
                  \/ e.lease_expires_at = f.lease_expires_at /\ e.id <= f.id

(* The attempt given up, and its task requeued or failed.                  *)
Recovered(v, i, limit) ==
  LET rows == [v.rows EXCEPT ![i].outcome = "expired"] IN
  IF v.status # "processing" THEN [v EXCEPT !.rows = rows]
  ELSE IF v.attempt_count >= limit
  THEN [v EXCEPT !.rows = rows, !.status = "failed", !.result = "attempts_exhausted"]
  ELSE [v EXCEPT !.rows = rows, !.status = "queued"]

(* Fault form: what the scan found is not looked at again under the lock.  *)
LockNextUnchecked(p, e) ==
  /\ txn[p].step = "lock"
  /\ First(e, txn[p].todo)
  /\ Free(p, e.task)
  /\ Write(p, e.task, Recovered(store[e.task], e.row, MaxAttempts[p]))
  /\ txn' = [txn EXCEPT ![p].todo = @ \ {e}]
  /\ UNCHANGED <<now, store, acked>>

(* The next task of the scan is locked; a renewal, a submission or another *)
(* pass may have changed its attempt since, and then it is left alone.     *)
LockNext(p, e) ==
  /\ txn[p].step = "lock"
  /\ First(e, txn[p].todo)
  /\ Free(p, e.task)
  /\ LET v == Seen(p, e.task) IN
     Write(p, e.task, IF Overdue(v, e.row, txn[p].now)
                      THEN Recovered(v, e.row, MaxAttempts[p]) ELSE v)
  /\ txn' = [txn EXCEPT ![p].todo = @ \ {e}]
  /\ UNCHANGED <<now, store, acked>>

(* The pass is through its list.                                           *)
Scanned(p) == txn[p].step = "lock" /\ txn[p].todo = {}

-----------------------------------------------------------------------------
(* Claims, renewals and submissions.                                       *)

(* The queued rows a claim does not skip as locked by somebody else.       *)
Takeable(p) == {t \in TaskId : Free(p, t) /\ Seen(p, t).status = "queued"}

(* A row inserted now has the next id after every row there is.            *)
Ids ==
  UNION {{v.rows[i].id : i \in DOMAIN v.rows} :
         v \in {store[t] : t \in TaskId} \cup
               UNION {{view[p][t] : t \in DOMAIN view[p]} : p \in Process}}

NextId(id) == (\A other \in Ids : other < id) /\ (id = 1 \/ id - 1 \in Ids)

(* The lease counts from the time the transaction began at.                *)
Delivered(v, id, n) ==
  [v EXCEPT !.status = "processing", !.attempt_count = @ + 1,
            !.rows = Append(@, [id |-> id, lease_expires_at |-> n + LeaseSeconds,
                                outcome |-> "processing"])]

(* The oldest such row is delivered, or fails if its deliveries are used up. *)
Take(p, t) ==
  /\ Scanned(p) /\ txn[p].kind = "claim"
  /\ t \in Takeable(p) /\ \A u \in Takeable(p) : t <= u
  /\ txn[p].now + LeaseSeconds <= Horizon
  /\ \E id \in 1..MaxId :
       /\ NextId(id)
       /\ LET v == Seen(p, t) IN
          Write(p, t, IF v.attempt_count >= MaxAttempts[p]
                      THEN [v EXCEPT !.status = "failed", !.result = "attempts_exhausted"]
                      ELSE Delivered(v, id, txn[p].now))
  /\ txn' = [txn EXCEPT ![p].step = "commit"]
  /\ UNCHANGED <<now, store, acked>>

(* Nothing to take: the claim is answered 204 and its recovery kept.       *)
TakeNothing(p) ==
  /\ Scanned(p) /\ txn[p].kind = "claim"
  /\ Takeable(p) = {}
  /\ txn' = [txn EXCEPT ![p].step = "commit"]
  /\ UNCHANGED <<now, store, view, acked>>

(* Fault form: only the deadline is looked at.                             *)
LiveByDeadlineOnly(v, i) == v.rows[i].lease_expires_at > now

(* The attempt and its task are processing, the lease has not run out.     *)
Live(v, i) ==
  /\ v.rows[i].outcome = "processing"
  /\ v.status = "processing"
  /\ v.rows[i].lease_expires_at > now

(* Fault form: the task is read without its lock.                          *)
UnlockedRequest(p, t, i) ==
  /\ txn[p].kind = "none"
  /\ i \in DOMAIN store[t].rows
  /\ Live(store[t], i)

(* A request with the token of attempt i, which its worker got when the    *)
(* attempt was committed: it locks the task, then reads attempt and clock. *)
TokenRequest(p, t, i) ==
  /\ txn[p].kind = "none"
  /\ i \in DOMAIN store[t].rows
  /\ Free(p, t)
  /\ Live(store[t], i)

Heartbeat(p, t, i) ==
  /\ TokenRequest(p, t, i)
  /\ now + LeaseSeconds <= Horizon
  /\ Write(p, t, [store[t] EXCEPT !.rows[i].lease_expires_at = now + LeaseSeconds])
  /\ txn' = [txn EXCEPT ![p] = [NoTxn EXCEPT !.kind = "heartbeat", !.step = "commit"]]
  /\ UNCHANGED <<now, store, acked>>

CommitTerminal(p, t, i, status, value) ==
  /\ TokenRequest(p, t, i)
  /\ Write(p, t, [store[t] EXCEPT !.status = status, !.result = value,
                                  !.rows[i].outcome = status])
  /\ txn' = [txn EXCEPT ![p] =
       [NoTxn EXCEPT !.kind = "terminal", !.step = "commit",
          !.ack = {[task |-> t, row |-> i, status |-> status, value |-> value]}]]
  /\ UNCHANGED <<now, store, acked>>

-----------------------------------------------------------------------------
Commit(p) ==
  /\ txn[p].step = "commit" \/ (Scanned(p) /\ txn[p].kind = "recover")
  /\ store' = [t \in TaskId |-> Seen(p, t)]
  /\ acked' = acked \cup txn[p].ack
  /\ End(p)
  /\ UNCHANGED now

(* The connection or the process is lost, or PostgreSQL picks p to break a *)
(* deadlock: nothing it wrote is kept.                                     *)
Abort(p) ==
  /\ txn[p].kind # "none"
  /\ End(p)
  /\ UNCHANGED <<now, store, acked>>

Tick ==
  /\ now < Horizon
  /\ now' = now + 1
  /\ UNCHANGED <<store, txn, view, acked>>

Next ==
  \/ \E p \in Process :
       \/ Begin(p, "recover")
       \/ Begin(p, "claim")
       \/ Scan(p)
       \/ \E e \in txn[p].todo : LockNext(p, e)
       \/ \E t \in TaskId : Take(p, t)
       \/ TakeNothing(p)
       \/ \E t \in TaskId : \E i \in DOMAIN store[t].rows :
            \/ Heartbeat(p, t, i)
            \/ \E status \in {"completed", "failed"}, value \in Payload :
                 CommitTerminal(p, t, i, status, value)
       \/ Commit(p)
       \/ Abort(p)
  \/ Tick

Spec == Init /\ [][Next]_vars

-----------------------------------------------------------------------------
(* Properties.                                                             *)

(* A lease renewed between the unlocked scan and the lock is not taken away: *)
(* what a pass expired had run out (the re-read of database.py:258).        *)
NeverExpiredEarly ==
  \A t \in TaskId : \A i \in DOMAIN store[t].rows :
    store[t].rows[i].outcome = "expired" => store[t].rows[i].lease_expires_at <= now

(* No submission answered 200 is lost to a concurrent recovery, renewal or  *)
(* other submission, and no two different ones are accepted for a task.     *)
AcknowledgedIsStored ==
  \A m \in acked :
    /\ store[m.task].status = m.status /\ store[m.task].result = m.value
    /\ store[m.task].rows[m.row].outcome = m.status

(* p waits for a row that q has locked.                                     *)
WaitsFor(p, q) ==
  \E e \in txn[p].todo :
    txn[p].step = "lock" /\ First(e, txn[p].todo) /\ q # p /\ Holds(q, e.task)

(* "Every writer that touches a task and its attempts locks the task first  *)
(* and the attempt second, so PostgreSQL cannot deadlock"                   *)
(* (database.py:232-235): no transactions wait for each other in a ring.    *)
CannotDeadlock ==
  ~ \E S \in SUBSET Process \ {{}} : \A p \in S : \E q \in S : WaitsFor(p, q)

-----------------------------------------------------------------------------
(* Committed tables implement DeliveryContract.                             *)
Last(v) == v.rows[Len(v.rows)]

Delivery(t, v) ==
  LET token == <<t, Len(v.rows)>> IN
  [holder |-> IF v.status = "processing" THEN token ELSE NULL,
   deliveries |-> v.attempt_count,
   result |-> IF v.status \notin {"completed", "failed"} THEN NULL
              ELSE [by |-> IF Last(v).outcome \in {"completed", "failed"}
                           THEN token ELSE NULL,
                    status |-> v.status, value |-> v.result]]

Limits == {MaxAttempts[p] : p \in Process}

Contract == INSTANCE DeliveryContract
              WITH delivery <- [t \in TaskId |-> Delivery(t, store[t])], MaxAttempts <- Limits

(* Row locks in place of serialized transactions: what is committed moves   *)
(* as the contract of a delivery allows, nothing else.                      *)
ImplementsContract == Contract!Spec
=============================================================================
