------------------------- MODULE RelayPostgresProofs -------------------------
(***************************************************************************)
(* Row locks are enough, for any number of transactions, tasks, limits and *)
(* lease lengths: proofs about RelayPostgres.  VersionInv says what one    *)
(* version of a task is like, committed or not; LockedInv relates what a   *)
(* transaction made of a task it has locked to the committed version,      *)
(* which nobody else can change meanwhile; TxnInv says how far that can be *)
(* at each step of the transaction.                                        *)
(***************************************************************************)
EXTENDS RelayPostgres, SequenceTheorems, TLAPS

Outcome == {"processing", "expired", "completed", "failed"}
Status == {"queued", "processing", "completed", "failed"}
Value == Payload \cup {NULL, "attempts_exhausted"}

Row == [id: Nat, lease_expires_at: Nat, outcome: Outcome]
Version == [status: Status, attempt_count: Nat, result: Value, rows: Seq(Row)]
View == UNION {[S -> Version] : S \in SUBSET TaskId}
Found == [task: TaskId, row: Nat, id: Nat, lease_expires_at: Nat]
Ack == [task: TaskId, row: Nat, status: {"completed", "failed"}, value: Payload]
Txn == [kind: {"none", "recover", "claim", "heartbeat", "terminal"},
        step: {"idle", "scan", "lock", "commit"},
        now: Nat, todo: SUBSET Found, ack: SUBSET Ack]

TypeOK ==
  /\ now \in Nat
  /\ store \in [TaskId -> Version]
  /\ txn \in [Process -> Txn]
  /\ view \in [Process -> View]
  /\ acked \subseteq Ack

(* A version at time n: every attempt but the last was given up, after its *)
(* lease; the status and the result are those of the last one.             *)
RowsInv(v, n) ==
  /\ Len(v.rows) = v.attempt_count
  /\ \A i \in 1..Len(v.rows) :
       /\ i < Len(v.rows) => v.rows[i].outcome = "expired"
       /\ v.rows[i].outcome = "expired" => v.rows[i].lease_expires_at <= n

StatusInv(v) ==
  /\ v.status = "queued" =>
       v.result = NULL /\ (Len(v.rows) # 0 => Last(v).outcome = "expired")
  /\ v.status = "processing" =>
       v.result = NULL /\ Len(v.rows) # 0 /\ Last(v).outcome = "processing"
  /\ v.status = "completed" =>
       v.result \in Payload /\ Len(v.rows) # 0 /\ Last(v).outcome = "completed"
  /\ v.status = "failed" =>
       /\ Len(v.rows) # 0
       /\ \/ v.result \in Payload /\ Last(v).outcome = "failed"
          \/ v.result = "attempts_exhausted" /\ Last(v).outcome = "expired"

VersionInv(v, n) == RowsInv(v, n) /\ StatusInv(v)

(* A submission answered, or about to be, is what its task's version says. *)
AckInv(m, v) ==
  /\ m.row = Len(v.rows) /\ Last(v).outcome = m.status
  /\ v.status = m.status /\ v.result = m.value

(* What a transaction may make of version c of task t: a move of the       *)
(* delivery, and nothing once it is over.                                  *)
LockedInv(t, c, v) ==
  /\ Len(c.rows) <= Len(v.rows)
  /\ c.status \in {"completed", "failed"} => v = c
  /\ Contract!Move(t, Delivery(t, c), Delivery(t, v))

(* What recovery, at most, made of it.                                     *)
RecoveredInv(c, v) ==
  \/ v = c
  \/ /\ c.status = "processing" /\ v.status \in {"queued", "failed"}
     /\ v.attempt_count = c.attempt_count

TxnInv(p) ==
  /\ txn[p].now <= now
  /\ txn[p].kind = "none" => txn[p].step = "idle"
  /\ txn[p].step \in {"idle", "scan"} => DOMAIN view[p] = {}
  /\ txn[p].step # "commit" => txn[p].ack = {}
  /\ txn[p].step = "lock" =>
       \A t \in DOMAIN view[p] : RecoveredInv(store[t], view[p][t])
  /\ \A e \in txn[p].todo : e.row \in 1..Len(store[e.task].rows)
  /\ \A m \in txn[p].ack : Holds(p, m.task) /\ AckInv(m, view[p][m.task])
  /\ \A t \in DOMAIN view[p] :
       VersionInv(view[p][t], now) /\ LockedInv(t, store[t], view[p][t])

LocksExclusive == \A p, q \in Process : \A t \in TaskId : Holds(p, t) /\ Holds(q, t) => p = q

IInv ==
  /\ TypeOK
  /\ \A t \in TaskId : VersionInv(store[t], now)
  /\ \A m \in acked : AckInv(m, store[m.task])
  /\ LocksExclusive
  /\ \A p \in Process : TxnInv(p)

-----------------------------------------------------------------------------
(* Versions, by themselves.                                                *)

LEMMA RowsTyped ==
  ASSUME NEW v \in Version
  PROVE  /\ v.rows \in Seq(Row) /\ Len(v.rows) \in Nat
         /\ DOMAIN v.rows = 1..Len(v.rows)
         /\ \A i \in 1..Len(v.rows) : v.rows[i] \in Row
<1>1. v.rows \in Seq(Row)
  BY DEF Version
<1>2. QED
  BY <1>1, LenProperties, ElementOfSeq

(* w has the fields of a version and no others.                            *)
HasFields(w) ==
  w = [status |-> w.status, attempt_count |-> w.attempt_count,
       result |-> w.result, rows |-> w.rows]

(* What the contract sees of a version of each status.                     *)
LEMMA DeliveryOf ==
  ASSUME NEW t \in TaskId, NEW v \in Version, NEW n, VersionInv(v, n)
  PROVE  /\ v.status = "queued" =>
              Delivery(t, v) = [holder |-> NULL, deliveries |-> Len(v.rows), result |-> NULL]
         /\ v.status = "processing" =>
              /\ Delivery(t, v) = [holder |-> <<t, Len(v.rows)>>,
                                   deliveries |-> Len(v.rows), result |-> NULL]
              /\ Len(v.rows) # 0 /\ <<t, Len(v.rows)>> # NULL
         /\ v.status = "failed" /\ Last(v).outcome = "expired" =>
              Delivery(t, v) = [holder |-> NULL, deliveries |-> Len(v.rows),
                                result |-> [by |-> NULL, status |-> "failed",
                                            value |-> "attempts_exhausted"]]
         /\ v.status \in {"completed", "failed"} /\ Last(v).outcome = v.status =>
              Delivery(t, v) = [holder |-> NULL, deliveries |-> Len(v.rows),
                                result |-> [by |-> <<t, Len(v.rows)>>, status |-> v.status,
                                            value |-> v.result]]
<1>1. Len(v.rows) = v.attempt_count /\ Len(v.rows) \in Nat
  BY RowsTyped DEF VersionInv, RowsInv
<1>2. <<t, Len(v.rows)>> # NULL
  BY <1>1, PostgresAssumption
<1>3. QED
  BY <1>1, <1>2 DEF Delivery, VersionInv, StatusInv

(* Only the last attempt can be overdue, and then its task is processing.  *)
LEMMA OverdueIsLast ==
  ASSUME NEW v \in Version, NEW n, VersionInv(v, n), NEW i \in 1..Len(v.rows),
         v.rows[i].outcome = "processing"
  PROVE  i = Len(v.rows) /\ v.status = "processing"
<1>1. i = Len(v.rows)
  BY RowsTyped DEF VersionInv, RowsInv
<1>2. QED
  BY <1>1 DEF VersionInv, StatusInv, Last, Version, Status

(* A version with the last attempt rewritten: the rows before it stay.     *)
LEMMA LastRewritten ==
  ASSUME NEW v \in Version, NEW n \in Nat, RowsInv(v, n), Len(v.rows) # 0,
         NEW row \in Row, row.outcome = "expired" => row.lease_expires_at <= n,
         NEW w, w.rows = [v.rows EXCEPT ![Len(v.rows)] = row],
         w.attempt_count = v.attempt_count
  PROVE  /\ w.rows \in Seq(Row) /\ Len(w.rows) = Len(v.rows) /\ Last(w) = row
         /\ RowsInv(w, n)
<1>1. /\ v.rows \in Seq(Row) /\ Len(v.rows) \in Nat /\ DOMAIN v.rows = 1..Len(v.rows)
      /\ Len(v.rows) \in 1..Len(v.rows)
  BY RowsTyped
<1>2. w.rows \in Seq(Row) /\ Len(w.rows) = Len(v.rows)
  BY <1>1, ExceptSeq
<1>3. \A i \in 1..Len(v.rows) : w.rows[i] = IF i = Len(v.rows) THEN row ELSE v.rows[i]
  BY <1>1, ExceptSeq
<1>4. QED
  BY <1>1, <1>2, <1>3 DEF Last, RowsInv

(* A move of the contract between versions without a result.               *)
LEMMA Moves ==
  ASSUME NEW t \in TaskId, NEW old, NEW new,
         \/ new = old
         \/ /\ old.result = NULL /\ old.holder # NULL
            /\ new = [holder |-> NULL, deliveries |-> old.deliveries, result |-> NULL]
         \/ /\ old.result = NULL /\ old.deliveries > 0
            /\ new = [holder |-> NULL, deliveries |-> old.deliveries,
                      result |-> [by |-> NULL, status |-> "failed",
                                  value |-> "attempts_exhausted"]]
         \/ /\ old.result = NULL
            /\ \E m \in Limits : old.deliveries + 1 <= m
            /\ new = [holder |-> <<t, old.deliveries + 1>>,
                      deliveries |-> old.deliveries + 1, result |-> NULL]
         \/ /\ old.result = NULL /\ old.holder # NULL
            /\ \E s \in {"completed", "failed"}, value \in Payload :
                 new = [holder |-> NULL, deliveries |-> old.deliveries,
                        result |-> [by |-> old.holder, status |-> s, value |-> value]]
  PROVE  Contract!Move(t, old, new)
BY DEF Contract!Move, Contract!Deliver, Contract!Lapse, Contract!GiveUp, Contract!Report,
       Contract!NoHolder, Contract!State, Contract!Exhausted

(* Recovery gives the last attempt up and requeues or fails the task.      *)
LEMMA RecoveredVersion ==
  ASSUME NEW t \in TaskId, NEW v \in Version, NEW n \in Nat, VersionInv(v, n),
         NEW i \in 1..Len(v.rows), NEW m \in Nat, m <= n, Overdue(v, i, m),
         NEW limit \in Nat, NEW w, w = Recovered(v, i, limit)
  PROVE  w \in Version /\ VersionInv(w, n) /\ RecoveredInv(v, w) /\ LockedInv(t, v, w)
<1> DEFINE row == [v.rows[i] EXCEPT !.outcome = "expired"]
<1>1. i = Len(v.rows) /\ v.status = "processing" /\ Len(v.rows) # 0
  BY RowsTyped, OverdueIsLast DEF Overdue
<1>2. v.rows[i] \in Row
  BY RowsTyped
<1>3. row \in Row /\ row.outcome = "expired" /\ row.lease_expires_at <= n
  BY <1>2 DEF Row, Outcome, Overdue
<1>4. /\ w.rows = [v.rows EXCEPT ![Len(v.rows)] = row]
      /\ w.attempt_count = v.attempt_count
      /\ \/ w.status = "queued" /\ w.result = v.result
         \/ w.status = "failed" /\ w.result = "attempts_exhausted"
      /\ w = [status |-> w.status, attempt_count |-> v.attempt_count,
              result |-> w.result, rows |-> w.rows]
  BY <1>1 DEF Recovered, Version
<1> HIDE DEF row
<1>5. /\ w.rows \in Seq(Row) /\ Len(w.rows) = Len(v.rows) /\ Last(w) = row
      /\ RowsInv(w, n)
  BY <1>1, <1>3, <1>4, LastRewritten DEF VersionInv
<1>6. v.result = NULL
  BY <1>1 DEF VersionInv, StatusInv
<1>7. StatusInv(w)
  BY <1>1, <1>3, <1>4, <1>5, <1>6 DEF StatusInv
<1>8. w \in Version /\ VersionInv(w, n)
  BY <1>4, <1>5, <1>6, <1>7 DEF VersionInv, Version, Status, Value, HasFields
<1>9. Contract!Move(t, Delivery(t, v), Delivery(t, w))
  <2>1. /\ Delivery(t, v) = [holder |-> <<t, Len(v.rows)>>,
                             deliveries |-> Len(v.rows), result |-> NULL]
        /\ <<t, Len(v.rows)>> # NULL
    BY <1>1, DeliveryOf
  <2>2. \/ Delivery(t, w) = [holder |-> NULL, deliveries |-> Len(v.rows), result |-> NULL]
        \/ Delivery(t, w) = [holder |-> NULL, deliveries |-> Len(v.rows),
                             result |-> [by |-> NULL, status |-> "failed",
                                         value |-> "attempts_exhausted"]]
    BY <1>3, <1>4, <1>5, <1>8, DeliveryOf
  <2>3. Len(v.rows) > 0
    BY <1>1, RowsTyped
  <2>4. QED
    BY <2>1, <2>2, <2>3, Moves
<1>10. RecoveredInv(v, w) /\ LockedInv(t, v, w)
  BY <1>1, <1>4, <1>5, <1>9, RowsTyped DEF RecoveredInv, LockedInv
<1>11. QED
  BY <1>8, <1>10

(* A queued version, just recovered from c or c itself, is given out.      *)
LEMMA DeliveredVersion ==
  ASSUME NEW t \in TaskId, NEW c \in Version, NEW v \in Version, NEW n \in Nat,
         VersionInv(c, n), VersionInv(v, n), RecoveredInv(c, v), v.status = "queued",
         NEW id \in Nat, NEW m \in Nat,
         NEW p \in Process, v.attempt_count < MaxAttempts[p],
         NEW w, w = Delivered(v, id, m)
  PROVE  w \in Version /\ VersionInv(w, n) /\ LockedInv(t, c, w)
<1> DEFINE row == [id |-> id, lease_expires_at |-> m + LeaseSeconds,
                   outcome |-> "processing"]
<1>1. row \in Row /\ row.outcome = "processing"
  BY PostgresAssumption DEF Row, Outcome
<1>2. /\ w.status = "processing" /\ w.attempt_count = v.attempt_count + 1
      /\ w.result = v.result /\ w.rows = Append(v.rows, row)
      /\ HasFields(w)
  BY DEF Delivered, Version, HasFields
<1> HIDE DEF row
<1>3. /\ v.rows \in Seq(Row) /\ Len(v.rows) = v.attempt_count /\ v.attempt_count \in Nat
      /\ v.result = NULL
      /\ \A i \in 1..Len(v.rows) : v.rows[i].outcome = "expired"
  BY RowsTyped DEF VersionInv, RowsInv, StatusInv, Last, Version
<1>4. /\ w.rows \in Seq(Row) /\ Len(w.rows) = Len(v.rows) + 1
      /\ \A i \in 1..Len(v.rows) : w.rows[i] = v.rows[i]
      /\ Last(w) = row
  BY <1>1, <1>2, <1>3, AppendProperties DEF Last
<1>5. w \in Version
  <2>1. w.status \in Status /\ w.attempt_count \in Nat /\ w.result \in Value
    BY <1>2, <1>3 DEF Status, Value
  <2>2. QED
    BY <1>2, <1>4, <2>1 DEF Version, HasFields
<1>6. VersionInv(w, n)
  <2>1. RowsInv(w, n)
    <3>1. ASSUME NEW i \in 1..Len(w.rows)
          PROVE  /\ i < Len(w.rows) => w.rows[i].outcome = "expired"
                 /\ w.rows[i].outcome = "expired" => w.rows[i].lease_expires_at <= n
      <4>1. CASE i \in 1..Len(v.rows)
        BY <1>3, <1>4, <4>1 DEF VersionInv, RowsInv
      <4>2. CASE i = Len(w.rows)
        BY <1>1, <1>4, <4>2 DEF Last
      <4>3. QED
        BY <1>3, <1>4, <4>1, <4>2
    <3>2. Len(w.rows) = w.attempt_count
      BY <1>2, <1>3, <1>4
    <3>3. QED
      BY <3>1, <3>2 DEF RowsInv
  <2>2. StatusInv(w)
    BY <1>1, <1>2, <1>3, <1>4 DEF StatusInv
  <2>3. QED
    BY <2>1, <2>2 DEF VersionInv
<1>7. Len(c.rows) = Len(v.rows) /\ c.status \in {"queued", "processing"}
  BY <1>3 DEF RecoveredInv, VersionInv, RowsInv
<1>8. Contract!Move(t, Delivery(t, c), Delivery(t, w))
  <2>1. Delivery(t, c).result = NULL /\ Delivery(t, c).deliveries = Len(v.rows)
    BY <1>7, DeliveryOf
  <2>2. Delivery(t, w) = [holder |-> <<t, Len(v.rows) + 1>>,
                          deliveries |-> Len(v.rows) + 1, result |-> NULL]
    BY <1>2, <1>4, <1>5, <1>6, DeliveryOf
  <2>3. MaxAttempts[p] \in Limits /\ Len(v.rows) + 1 <= MaxAttempts[p]
    BY <1>3, PostgresAssumption DEF Limits
  <2> HIDE DEF Delivery
  <2>4. QED
    BY <2>1, <2>2, <2>3, Moves
<1>9. LockedInv(t, c, w)
  BY <1>3, <1>4, <1>7, <1>8 DEF LockedInv
<1>10. QED
  BY <1>5, <1>6, <1>9

(* A queued version whose deliveries are used up fails.                    *)
LEMMA ExhaustedVersion ==
  ASSUME NEW t \in TaskId, NEW c \in Version, NEW v \in Version, NEW n \in Nat,
         VersionInv(c, n), VersionInv(v, n), RecoveredInv(c, v), v.status = "queued",
         NEW p \in Process, v.attempt_count >= MaxAttempts[p],
         NEW w, w = [v EXCEPT !.status = "failed", !.result = "attempts_exhausted"]
  PROVE  w \in Version /\ VersionInv(w, n) /\ LockedInv(t, c, w)
<1>1. /\ w.status = "failed" /\ w.attempt_count = v.attempt_count
      /\ w.result = "attempts_exhausted" /\ w.rows = v.rows
      /\ HasFields(w)
  BY DEF Version, HasFields
<1>2. w \in Version
  BY <1>1 DEF Version, Status, Value, HasFields
<1>3. Len(v.rows) \in Nat \ {0} /\ Len(v.rows) = v.attempt_count
  BY RowsTyped, PostgresAssumption DEF VersionInv, RowsInv
<1>4. Last(w) = Last(v) /\ Last(v).outcome = "expired"
  BY <1>1, <1>3 DEF Last, VersionInv, StatusInv
<1>5. VersionInv(w, n)
  BY <1>1, <1>3, <1>4 DEF VersionInv, RowsInv, StatusInv
<1>6. Len(c.rows) = Len(v.rows) /\ c.status \in {"queued", "processing"}
  BY <1>3 DEF RecoveredInv, VersionInv, RowsInv
<1>7. Contract!Move(t, Delivery(t, c), Delivery(t, w))
  <2>1. Delivery(t, c).result = NULL /\ Delivery(t, c).deliveries = Len(v.rows)
    BY <1>6, DeliveryOf
  <2>2. Delivery(t, w) = [holder |-> NULL, deliveries |-> Len(v.rows),
                          result |-> [by |-> NULL, status |-> "failed",
                                      value |-> "attempts_exhausted"]]
    BY <1>1, <1>2, <1>4, <1>5, DeliveryOf
  <2> HIDE DEF Delivery
  <2>3. QED
    BY <2>1, <2>2, <1>3, Moves
<1>8. LockedInv(t, c, w)
  BY <1>1, <1>3, <1>6, <1>7 DEF LockedInv
<1>9. QED
  BY <1>2, <1>5, <1>8

(* The holder renews its lease, or reports its result.                     *)
LEMMA RenewedVersion ==
  ASSUME NEW t \in TaskId, NEW v \in Version, NEW n \in Nat, VersionInv(v, n),
         NEW i \in 1..Len(v.rows), v.rows[i].outcome = "processing", NEW m \in Nat,
         NEW w, HasFields(w), w.status = v.status, w.attempt_count = v.attempt_count,
         w.result = v.result,
         w.rows = [v.rows EXCEPT ![i] = [v.rows[i] EXCEPT !.lease_expires_at = m]]
  PROVE  w \in Version /\ VersionInv(w, n) /\ LockedInv(t, v, w)
<1> DEFINE row == [v.rows[i] EXCEPT !.lease_expires_at = m]
<1>1. i = Len(v.rows) /\ v.status = "processing" /\ Len(v.rows) # 0
  BY RowsTyped, OverdueIsLast
<1>2. v.rows[i] \in Row
  BY RowsTyped
<1>3. /\ row \in Row /\ row.outcome = "processing"
      /\ row.outcome = "expired" => row.lease_expires_at <= n
  BY <1>2 DEF Row
<1>4. /\ w.status = "processing" /\ w.attempt_count = v.attempt_count
      /\ w.result = v.result /\ w.rows = [v.rows EXCEPT ![Len(v.rows)] = row]
      /\ HasFields(w)
  BY <1>1
<1> HIDE DEF row
<1>5. /\ w.rows \in Seq(Row) /\ Len(w.rows) = Len(v.rows) /\ Last(w) = row
      /\ RowsInv(w, n)
  BY <1>1, <1>3, <1>4, LastRewritten DEF VersionInv
<1>6. v.result = NULL
  BY <1>1 DEF VersionInv, StatusInv
<1>7. w \in Version /\ VersionInv(w, n)
  BY <1>1, <1>3, <1>4, <1>5, <1>6 DEF VersionInv, StatusInv, Version, Status, Value, HasFields
<1>8. Delivery(t, w) = Delivery(t, v)
  <2> DEFINE held == [holder |-> <<t, Len(v.rows)>>, deliveries |-> Len(v.rows),
                      result |-> NULL]
  <2>1. Delivery(t, v) = held
    BY <1>1, DeliveryOf
  <2>2. Delivery(t, w) = held
    BY <1>4, <1>5, <1>7, DeliveryOf
  <2>3. QED
    BY <2>1, <2>2
<1>9. LockedInv(t, v, w)
  BY <1>1, <1>5, <1>8, Moves, RowsTyped DEF LockedInv
<1>10. QED
  BY <1>7, <1>9

LEMMA ReportedVersion ==
  ASSUME NEW t \in TaskId, NEW v \in Version, NEW n \in Nat, VersionInv(v, n),
         NEW i \in 1..Len(v.rows), v.rows[i].outcome = "processing",
         NEW status \in {"completed", "failed"}, NEW value \in Payload,
         NEW w, HasFields(w), w.status = status, w.attempt_count = v.attempt_count,
         w.result = value,
         w.rows = [v.rows EXCEPT ![i] = [v.rows[i] EXCEPT !.outcome = status]]
  PROVE  /\ w \in Version /\ VersionInv(w, n) /\ LockedInv(t, v, w)
         /\ AckInv([task |-> t, row |-> i, status |-> status, value |-> value], w)
<1> DEFINE row == [v.rows[i] EXCEPT !.outcome = status]
<1>1. i = Len(v.rows) /\ v.status = "processing" /\ Len(v.rows) # 0
  BY RowsTyped, OverdueIsLast
<1>2. v.rows[i] \in Row
  BY RowsTyped
<1>3. /\ row \in Row /\ row.outcome = status
      /\ row.outcome = "expired" => row.lease_expires_at <= n
  BY <1>2 DEF Row, Outcome
<1>4. /\ w.status = status /\ w.attempt_count = v.attempt_count
      /\ w.result = value /\ w.rows = [v.rows EXCEPT ![Len(v.rows)] = row]
      /\ HasFields(w)
  BY <1>1
<1> HIDE DEF row
<1>5. /\ w.rows \in Seq(Row) /\ Len(w.rows) = Len(v.rows) /\ Last(w) = row
      /\ RowsInv(w, n)
  BY <1>1, <1>3, <1>4, LastRewritten DEF VersionInv
<1>6. w \in Version /\ VersionInv(w, n)
  BY <1>1, <1>3, <1>4, <1>5 DEF VersionInv, StatusInv, Version, Status, Value, HasFields
<1>7. Contract!Move(t, Delivery(t, v), Delivery(t, w))
  <2>1. /\ Delivery(t, v) = [holder |-> <<t, Len(v.rows)>>,
                             deliveries |-> Len(v.rows), result |-> NULL]
        /\ <<t, Len(v.rows)>> # NULL
    BY <1>1, DeliveryOf
  <2>2. Delivery(t, w) = [holder |-> NULL, deliveries |-> Len(v.rows),
                          result |-> [by |-> <<t, Len(v.rows)>>, status |-> status,
                                      value |-> value]]
    BY <1>3, <1>4, <1>5, <1>6, DeliveryOf
  <2>3. /\ Delivery(t, v).result = NULL /\ Delivery(t, v).holder # NULL
        /\ Delivery(t, w) = [holder |-> NULL, deliveries |-> Delivery(t, v).deliveries,
                             result |-> [by |-> Delivery(t, v).holder,
                                         status |-> status, value |-> value]]
    BY <2>1, <2>2
  <2> HIDE DEF Delivery
  <2>4. QED
    BY <2>3, Moves
<1>8. LockedInv(t, v, w)
  BY <1>1, <1>5, <1>7, RowsTyped DEF LockedInv
<1>9. AckInv([task |-> t, row |-> i, status |-> status, value |-> value], w)
  BY <1>1, <1>3, <1>4, <1>5 DEF AckInv
<1>10. QED
  BY <1>6, <1>8, <1>9

-----------------------------------------------------------------------------
(* Transactions: what each of the three kinds of steps leaves as it was.   *)

LEMMA ViewTyped ==
  ASSUME TypeOK, NEW p \in Process
  PROVE  DOMAIN view[p] \subseteq TaskId /\ \A t \in DOMAIN view[p] : view[p][t] \in Version
<1>1. view[p] \in View
  BY DEF TypeOK
<1>2. PICK S \in SUBSET TaskId : view[p] \in [S -> Version]
  BY <1>1 DEF View
<1>3. QED
  BY <1>2

LEMMA WriteView ==
  ASSUME TypeOK, NEW p \in Process, NEW t \in TaskId, NEW v \in Version, Write(p, t, v)
  PROVE  /\ view' \in [Process -> View]
         /\ DOMAIN view'[p] = DOMAIN view[p] \cup {t}
         /\ view'[p][t] = v
         /\ \A u \in DOMAIN view[p] : u # t => view'[p][u] = view[p][u]
         /\ \A q \in Process : q # p => view'[q] = view[q]
<1> DEFINE mine == [u \in DOMAIN view[p] \cup {t} |-> IF u = t THEN v ELSE view[p][u]]
<1>1. mine \in [DOMAIN view[p] \cup {t} -> Version] /\ DOMAIN view[p] \cup {t} \in SUBSET TaskId
  BY ViewTyped
<1>2. mine \in View
  BY <1>1 DEF View
<1>3. view' = [view EXCEPT ![p] = mine]
  BY DEF Write
<1>4. view \in [Process -> View]
  BY DEF TypeOK
<1>5. view'[p] = mine /\ \A q \in Process : q # p => view'[q] = view[q]
  BY <1>3, <1>4
<1>6. view' \in [Process -> View]
  BY <1>2, <1>3, <1>4
<1>7. QED
  BY <1>5, <1>6

LEMMA Unchanged ==
  ASSUME NEW t \in TaskId, NEW c \in Version
  PROVE  LockedInv(t, c, c) /\ RecoveredInv(c, c)
BY RowsTyped, Moves DEF LockedInv, RecoveredInv

(* What a transaction sees of a task.                                      *)
LEMMA SeenVersion ==
  ASSUME IInv, NEW p \in Process, NEW t \in TaskId
  PROVE  /\ Seen(p, t) \in Version /\ VersionInv(Seen(p, t), now)
         /\ LockedInv(t, store[t], Seen(p, t))
         /\ txn[p].step = "lock" => RecoveredInv(store[t], Seen(p, t))
         /\ store[t] \in Version /\ VersionInv(store[t], now)
<1>1. store[t] \in Version /\ VersionInv(store[t], now)
  BY DEF IInv, TypeOK
<1>2. CASE Holds(p, t)
  BY <1>1, <1>2, ViewTyped DEF IInv, TxnInv, Seen, Holds
<1>3. CASE ~Holds(p, t)
  BY <1>1, <1>3, Unchanged DEF Seen
<1>4. QED
  BY <1>2, <1>3

(* A step of p that touches no lock and no table.                          *)
LEMMA TxnStep ==
  ASSUME IInv, NEW p \in Process, NEW x \in Txn, txn' = [txn EXCEPT ![p] = x],
         UNCHANGED <<now, store, view, acked>>, TxnInv(p)'
  PROVE  IInv'
<1>1. TypeOK'
  BY DEF IInv, TypeOK
<1>2. ASSUME NEW q \in Process, q # p PROVE TxnInv(q)'
  <2>1. txn'[q] = txn[q] /\ TxnInv(q)
    BY <1>2 DEF IInv, TypeOK
  <2>2. QED
    BY <2>1 DEF TxnInv, Holds
<1>3. LocksExclusive' /\ \A t \in TaskId : VersionInv(store[t], now)'
  BY DEF IInv, LocksExclusive, Holds
<1>4. (\A m \in acked : AckInv(m, store[m.task]))'
  BY DEF IInv
<1>5. QED
  BY <1>1, <1>2, <1>3, <1>4 DEF IInv

(* A step of p that locks t, or has it locked, and leaves version v there. *)
LEMMA WriteStep ==
  ASSUME IInv, NEW p \in Process, NEW t \in TaskId, NEW v \in Version,
         Free(p, t), Write(p, t, v), VersionInv(v, now), LockedInv(t, store[t], v),
         NEW x \in Txn, txn' = [txn EXCEPT ![p] = x], UNCHANGED <<now, store, acked>>,
         x.now <= now, x.kind # "none", x.step \in {"lock", "commit"},
         x.step = "lock" => /\ txn[p].step = "lock" /\ x.ack = {}
                            /\ RecoveredInv(store[t], v),
         \A e \in x.todo : e.row \in 1..Len(store[e.task].rows),
         \A m \in x.ack : m.task = t /\ AckInv(m, v)
  PROVE  IInv'
<1>1. /\ TypeOK /\ TxnInv(p)
      /\ view' \in [Process -> View] /\ DOMAIN view'[p] = DOMAIN view[p] \cup {t}
      /\ view'[p][t] = v
      /\ \A u \in DOMAIN view[p] : u # t => view'[p][u] = view[p][u]
      /\ \A q \in Process : q # p => view'[q] = view[q]
  BY WriteView DEF IInv
<1>2. TypeOK'
  BY <1>1 DEF TypeOK
<1>3. txn'[p] = x
  BY <1>1 DEF TypeOK
<1>4. TxnInv(p)'
  <2>1. ASSUME NEW u \in DOMAIN view'[p]
        PROVE  /\ VersionInv(view'[p][u], now) /\ LockedInv(u, store[u], view'[p][u])
               /\ x.step = "lock" => RecoveredInv(store[u], view'[p][u])
    <3>1. CASE u = t
      BY <1>1, <3>1
    <3>2. CASE u # t
      BY <1>1, <3>2 DEF TxnInv
    <3>3. QED
      BY <3>1, <3>2
  <2>2. (\A u \in DOMAIN view[p] :
           VersionInv(view[p][u], now) /\ LockedInv(u, store[u], view[p][u]))'
    BY <2>1
  <2>3. (txn[p].step = "lock" => \A u \in DOMAIN view[p] : RecoveredInv(store[u], view[p][u]))'
    BY <2>1, <1>3
  <2>4. (\A m \in txn[p].ack : Holds(p, m.task) /\ AckInv(m, view[p][m.task]))'
    BY <1>1, <1>3 DEF Holds
  <2>5. (\A e \in txn[p].todo : e.row \in 1..Len(store[e.task].rows))'
    BY <1>3
  <2>6. /\ x.step \notin {"idle", "scan"}
        /\ x.step # "commit" => x.ack = {}
    OBVIOUS
  <2>7. QED
    BY <1>3, <2>2, <2>3, <2>4, <2>5, <2>6 DEF TxnInv
<1>5. ASSUME NEW q \in Process, q # p PROVE TxnInv(q)'
  <2>1. txn'[q] = txn[q] /\ view'[q] = view[q] /\ TxnInv(q)
    BY <1>1, <1>5 DEF IInv, TypeOK
  <2>2. QED
    BY <2>1 DEF TxnInv, Holds
<1>6. LocksExclusive'
  <2> SUFFICES ASSUME NEW q \in Process, NEW r \in Process, NEW u \in TaskId,
                      Holds(q, u)', Holds(r, u)'
               PROVE  q = r
    BY DEF LocksExclusive
  <2>1. CASE u # t
    BY <1>1, <2>1 DEF IInv, LocksExclusive, Holds
  <2>2. CASE u = t
    BY <1>1, <2>2 DEF Free, Holds
  <2>3. QED
    BY <2>1, <2>2
<1>7. /\ (\A u \in TaskId : VersionInv(store[u], now))'
      /\ (\A m \in acked : AckInv(m, store[m.task]))'
  BY DEF IInv
<1>8. QED
  BY <1>2, <1>4, <1>5, <1>6, <1>7 DEF IInv

(* The transaction is over, and with it all its locks.                     *)
LEMMA EndStep ==
  ASSUME TypeOK, NEW p \in Process, End(p)
  PROVE  /\ txn' \in [Process -> Txn] /\ view' \in [Process -> View]
         /\ txn'[p] = NoTxn /\ DOMAIN view'[p] = {}
         /\ \A q \in Process : q # p => txn'[q] = txn[q] /\ view'[q] = view[q]
<1>1. NoTxn \in Txn
  BY DEF NoTxn, Txn
<1>2. Empty \in View /\ DOMAIN Empty = {}
  <2>1. Empty \in [{} -> Version] /\ {} \in SUBSET TaskId
    BY DEF Empty
  <2>2. QED
    BY <2>1 DEF View
<1>3. QED
  BY <1>1, <1>2 DEF TypeOK, End

LEMMA CommitStep ==
  ASSUME IInv, NEW p \in Process, Commit(p)
  PROVE  IInv'
<1>1. /\ TypeOK /\ TxnInv(p)
      /\ txn' \in [Process -> Txn] /\ view' \in [Process -> View]
      /\ txn'[p] = NoTxn /\ DOMAIN view'[p] = {}
      /\ \A q \in Process : q # p => txn'[q] = txn[q] /\ view'[q] = view[q]
  BY EndStep DEF Commit, IInv
<1>2. /\ store' = [t \in TaskId |-> Seen(p, t)] /\ acked' = acked \cup txn[p].ack
      /\ now' = now
  BY DEF Commit
<1>3. ASSUME NEW t \in TaskId
      PROVE  /\ store'[t] \in Version /\ VersionInv(store'[t], now)
             /\ Len(store[t].rows) <= Len(store'[t].rows)
             /\ store[t].status \in {"completed", "failed"} => store'[t] = store[t]
             /\ ~Holds(p, t) => store'[t] = store[t]
  BY <1>2, SeenVersion DEF LockedInv, Seen
<1>4. txn[p].ack \subseteq Ack /\ acked \subseteq Ack
  BY <1>1 DEF TypeOK, Txn
<1>5. TypeOK'
  <2>1. store' \in [TaskId -> Version]
    BY <1>2, <1>3
  <2>2. QED
    BY <1>1, <1>2, <1>4, <2>1 DEF TypeOK
<1>6. (\A m \in acked : AckInv(m, store[m.task]))'
  <2>1. ASSUME NEW m \in acked PROVE AckInv(m, store'[m.task])
    <3>1. m.task \in TaskId /\ m.status \in {"completed", "failed"}
      BY <1>4 DEF Ack
    <3>2. AckInv(m, store[m.task])
      BY DEF IInv
    <3>3. store'[m.task] = store[m.task]
      BY <1>3, <3>1, <3>2 DEF AckInv
    <3>4. QED
      BY <3>2, <3>3
  <2>2. ASSUME NEW m \in txn[p].ack PROVE AckInv(m, store'[m.task])
    <3>1. m.task \in TaskId
      BY <1>4 DEF Ack
    <3>2. QED
      BY <1>1, <1>2, <3>1 DEF TxnInv, Seen
  <2>3. QED
    BY <1>2, <2>1, <2>2
<1>7. ASSUME NEW q \in Process PROVE TxnInv(q)'
  <2>1. CASE q = p
    BY <1>1, <1>2, <2>1 DEF TxnInv, NoTxn, TypeOK
  <2>2. CASE q # p
    <3>1. txn'[q] = txn[q] /\ view'[q] = view[q] /\ TxnInv(q) /\ DOMAIN view[q] \subseteq TaskId
      BY <1>1, <2>2, ViewTyped DEF IInv
    <3>2. \A t \in DOMAIN view[q] : store'[t] = store[t]
      BY <1>3, <2>2, <3>1 DEF IInv, LocksExclusive, Holds
    <3>3. ASSUME NEW e \in txn[q].todo PROVE e.row \in 1..Len(store'[e.task].rows)
      <4>1. e.task \in TaskId
        BY <1>1 DEF TypeOK, Txn, Found
      <4>2. e.row \in 1..Len(store[e.task].rows)
        BY <3>1 DEF TxnInv
      <4>3. Len(store[e.task].rows) \in Nat /\ Len(store'[e.task].rows) \in Nat
        BY <1>3, <4>1, <1>1, RowsTyped DEF TypeOK
      <4>4. QED
        BY <1>3, <4>1, <4>2, <4>3
    <3>4. QED
      BY <1>2, <3>1, <3>2, <3>3 DEF TxnInv, Holds
  <2>3. QED
    BY <2>1, <2>2
<1>8. LocksExclusive'
  BY <1>1 DEF IInv, LocksExclusive, Holds
<1>9. QED
  BY <1>2, <1>3, <1>5, <1>6, <1>7, <1>8 DEF IInv

LEMMA AbortStep ==
  ASSUME IInv, NEW p \in Process, Abort(p)
  PROVE  IInv'
<1>1. /\ TypeOK /\ UNCHANGED <<now, store, acked>>
      /\ txn' \in [Process -> Txn] /\ view' \in [Process -> View]
      /\ txn'[p] = NoTxn /\ DOMAIN view'[p] = {}
      /\ \A q \in Process : q # p => txn'[q] = txn[q] /\ view'[q] = view[q]
  BY EndStep DEF Abort, IInv
<1>2. TypeOK'
  BY <1>1 DEF TypeOK
<1>3. ASSUME NEW q \in Process PROVE TxnInv(q)'
  <2>1. CASE q = p
    BY <1>1, <2>1 DEF TxnInv, NoTxn, TypeOK
  <2>2. CASE q # p
    <3>1. TxnInv(q)
      BY DEF IInv
    <3>2. QED
      BY <1>1, <2>2, <3>1 DEF TxnInv, Holds
  <2>3. QED
    BY <2>1, <2>2
<1>4. LocksExclusive'
  BY <1>1 DEF IInv, LocksExclusive, Holds
<1>5. QED
  BY <1>1, <1>2, <1>3, <1>4 DEF IInv

(* Time passes: what was given up was given up after its lease.            *)
LEMMA TickStep ==
  ASSUME IInv, Tick
  PROVE  IInv'
<1>1. /\ now \in Nat /\ now' = now + 1 /\ UNCHANGED <<store, txn, view, acked>> /\ TypeOK
  BY DEF Tick, IInv, TypeOK
<1>2. TypeOK'
  BY <1>1 DEF TypeOK
<1>3. ASSUME NEW v \in Version, VersionInv(v, now) PROVE VersionInv(v, now')
  <2>1. \A i \in 1..Len(v.rows) : v.rows[i].lease_expires_at \in Nat
    BY RowsTyped DEF Row
  <2>2. QED
    BY <1>1, <1>3, <2>1 DEF VersionInv, RowsInv
<1>4. ASSUME NEW q \in Process PROVE TxnInv(q)'
  <2>1. TxnInv(q) /\ txn[q].now \in Nat
    BY DEF IInv, TypeOK, Txn
  <2>2. \A t \in DOMAIN view[q] : VersionInv(view[q][t], now')
    BY <1>1, <1>3, <2>1, ViewTyped DEF TxnInv
  <2>3. txn[q].now <= now'
    BY <1>1, <2>1 DEF TxnInv
  <2>4. QED
    BY <1>1, <2>1, <2>2, <2>3 DEF TxnInv, Holds
<1>5. \A t \in TaskId : VersionInv(store[t], now')
  BY <1>1, <1>3 DEF IInv, TypeOK
<1>6. QED
  BY <1>1, <1>2, <1>4, <1>5 DEF IInv, LocksExclusive, Holds

-----------------------------------------------------------------------------
(* One lemma per action of a transaction.                                  *)

LEMMA BeginStep ==
  ASSUME IInv, NEW p \in Process, NEW kind \in {"recover", "claim"}, Begin(p, kind)
  PROVE  IInv'
<1> DEFINE x == [NoTxn EXCEPT !.kind = kind, !.step = "scan", !.now = now]
<1>1. /\ TypeOK /\ TxnInv(p) /\ now \in Nat
      /\ txn[p].kind = "none" /\ UNCHANGED <<now, store, view, acked>>
      /\ txn' = [txn EXCEPT ![p] = x]
  BY DEF Begin, IInv, TypeOK
<1>2. /\ x \in Txn /\ x.kind = kind /\ x.step = "scan" /\ x.now = now
      /\ x.todo = {} /\ x.ack = {}
  BY <1>1 DEF NoTxn, Txn
<1> HIDE DEF x
<1>3. txn'[p] = x
  BY <1>1 DEF TypeOK
<1>4. DOMAIN view[p] = {}
  BY <1>1 DEF TxnInv
<1>5. TxnInv(p)'
  BY <1>1, <1>2, <1>3, <1>4 DEF TxnInv
<1>6. QED
  BY <1>1, <1>2, <1>5, TxnStep

LEMMA ScanStep ==
  ASSUME IInv, NEW p \in Process, Scan(p)
  PROVE  IInv'
<1> DEFINE found(t) ==
             {[task |-> t, row |-> i, id |-> store[t].rows[i].id,
               lease_expires_at |-> store[t].rows[i].lease_expires_at] :
              i \in {j \in DOMAIN store[t].rows : Overdue(store[t], j, txn[p].now)}}
           todo == UNION {found(t) : t \in TaskId}
           x == [txn[p] EXCEPT !.step = "lock", !.todo = todo]
<1>1. /\ TypeOK /\ TxnInv(p) /\ txn[p] \in Txn /\ txn[p].step = "scan"
      /\ UNCHANGED <<now, store, view, acked>>
      /\ txn' = [txn EXCEPT ![p].step = "lock", ![p].todo = todo]
  BY DEF Scan, IInv, TypeOK
<1>2. ASSUME NEW t \in TaskId, NEW e \in found(t)
      PROVE  e \in Found /\ e.row \in 1..Len(store[e.task].rows)
  <2>1. PICK i \in DOMAIN store[t].rows :
          e = [task |-> t, row |-> i, id |-> store[t].rows[i].id,
               lease_expires_at |-> store[t].rows[i].lease_expires_at]
    OBVIOUS
  <2>2. store[t] \in Version
    BY <1>1 DEF TypeOK
  <2>3. i \in 1..Len(store[t].rows) /\ i \in Nat /\ store[t].rows[i] \in Row
    BY <2>2, RowsTyped
  <2>4. QED
    BY <2>1, <2>3 DEF Found, Row
<1>3. todo \subseteq Found /\ \A e \in todo : e.row \in 1..Len(store[e.task].rows)
  BY <1>2
<1> HIDE DEF found, todo
<1>4. txn'[p] = x /\ txn' = [txn EXCEPT ![p] = x]
  BY <1>1 DEF TypeOK
<1>5. /\ x \in Txn /\ x.kind = txn[p].kind /\ x.step = "lock" /\ x.now = txn[p].now
      /\ x.todo = todo /\ x.ack = txn[p].ack
  BY <1>1, <1>3 DEF Txn
<1> HIDE DEF x
<1>6. DOMAIN view[p] = {} /\ txn[p].kind # "none" /\ txn[p].ack = {}
  BY <1>1 DEF TxnInv
<1>7. TxnInv(p)'
  BY <1>1, <1>3, <1>4, <1>5, <1>6 DEF TxnInv
<1>8. QED
  BY <1>1, <1>4, <1>5, <1>7, TxnStep

(* What was found is looked at again under the lock, and only what is then *)
(* still overdue is given up.                                              *)
LEMMA LockNextStep ==
  ASSUME IInv, NEW p \in Process, NEW e \in txn[p].todo, LockNext(p, e)
  PROVE  IInv'
<1> DEFINE t == e.task
           v == Seen(p, t)
           w == IF Overdue(v, e.row, txn[p].now)
                THEN Recovered(v, e.row, MaxAttempts[p]) ELSE v
           x == [txn[p] EXCEPT !.todo = txn[p].todo \ {e}]
<1>1. /\ TypeOK /\ TxnInv(p) /\ txn[p] \in Txn /\ txn[p].step = "lock"
      /\ txn[p].kind # "none" /\ txn[p].ack = {}
      /\ Free(p, t) /\ Write(p, t, w)
      /\ UNCHANGED <<now, store, acked>>
      /\ txn' = [txn EXCEPT ![p].todo = txn[p].todo \ {e}]
  BY DEF LockNext, IInv, TypeOK, TxnInv
<1>2. t \in TaskId /\ e.row \in 1..Len(store[t].rows) /\ now \in Nat
  BY <1>1 DEF Txn, Found, TxnInv, TypeOK
<1>3. /\ v \in Version /\ VersionInv(v, now) /\ LockedInv(t, store[t], v)
      /\ RecoveredInv(store[t], v) /\ store[t] \in Version
  BY <1>1, <1>2, SeenVersion
<1>4. e.row \in 1..Len(v.rows)
  BY <1>2, <1>3, RowsTyped DEF LockedInv
<1>5. w \in Version /\ VersionInv(w, now) /\ LockedInv(t, store[t], w)
      /\ RecoveredInv(store[t], w)
  <2>1. CASE Overdue(v, e.row, txn[p].now)
    <3>1. txn[p].now \in Nat /\ txn[p].now <= now /\ MaxAttempts[p] \in Nat
      BY <1>1, PostgresAssumption DEF Txn, TxnInv
    <3>2. v.status = "processing"
      BY <1>3, <1>4, <2>1, OverdueIsLast DEF Overdue
    <3>3. v = store[t]
      BY <1>3, <3>2 DEF RecoveredInv
    <3>4. w = Recovered(v, e.row, MaxAttempts[p])
      BY <2>1
    <3> HIDE DEF v, w
    <3>5. w \in Version /\ VersionInv(w, now) /\ RecoveredInv(v, w) /\ LockedInv(t, v, w)
      BY <1>2, <1>3, <1>4, <2>1, <3>1, <3>4, RecoveredVersion
    <3>6. QED
      BY <3>3, <3>5
  <2>2. CASE ~Overdue(v, e.row, txn[p].now)
    BY <1>3, <2>2
  <2>3. QED
    BY <2>1, <2>2
<1>6. txn' = [txn EXCEPT ![p] = x]
  BY <1>1 DEF TypeOK
<1>7. /\ x \in Txn /\ x.kind = txn[p].kind /\ x.step = "lock" /\ x.now = txn[p].now
      /\ x.todo = txn[p].todo \ {e} /\ x.ack = {}
  BY <1>1 DEF Txn
<1>8. \A f \in x.todo : f.row \in 1..Len(store[f.task].rows)
  BY <1>1, <1>7 DEF TxnInv
<1>9. x.now <= now
  BY <1>1, <1>7 DEF TxnInv
<1> HIDE DEF w, x, t
<1>10. QED
  BY <1>1, <1>2, <1>5, <1>6, <1>7, <1>8, <1>9, WriteStep

LEMMA TakeStep ==
  ASSUME IInv, NEW p \in Process, NEW t \in TaskId, Take(p, t)
  PROVE  IInv'
<1> DEFINE v == Seen(p, t)
           exhausted == [v EXCEPT !.status = "failed", !.result = "attempts_exhausted"]
           x == [txn[p] EXCEPT !.step = "commit"]
<1>1. PICK id \in 1..MaxId :
        Write(p, t, IF v.attempt_count >= MaxAttempts[p] THEN exhausted
                    ELSE Delivered(v, id, txn[p].now))
  BY DEF Take
<1> DEFINE w == IF v.attempt_count >= MaxAttempts[p] THEN exhausted
                ELSE Delivered(v, id, txn[p].now)
<1>2. /\ TypeOK /\ TxnInv(p) /\ txn[p] \in Txn /\ txn[p].step = "lock" /\ txn[p].todo = {}
      /\ txn[p].kind # "none" /\ txn[p].ack = {} /\ now \in Nat
      /\ Free(p, t) /\ v.status = "queued"
      /\ UNCHANGED <<now, store, acked>>
      /\ txn' = [txn EXCEPT ![p].step = "commit"]
  BY DEF Take, Scanned, Takeable, IInv, TypeOK, TxnInv
<1>3. /\ v \in Version /\ VersionInv(v, now)
      /\ RecoveredInv(store[t], v)
      /\ store[t] \in Version /\ VersionInv(store[t], now)
  BY <1>2, SeenVersion
<1>4. id \in Nat /\ txn[p].now \in Nat
  BY <1>2, PostgresAssumption DEF Txn
<1> HIDE DEF v
<1>5. w \in Version /\ VersionInv(w, now) /\ LockedInv(t, store[t], w)
  <2>1. CASE v.attempt_count >= MaxAttempts[p]
    <3>1. w = exhausted
      BY <2>1
    <3> HIDE DEF w
    <3>2. QED
      BY <1>2, <1>3, <2>1, <3>1, ExhaustedVersion
  <2>2. CASE ~(v.attempt_count >= MaxAttempts[p])
    <3>1. w = Delivered(v, id, txn[p].now)
      BY <2>2
    <3>2. v.attempt_count < MaxAttempts[p]
      BY <1>3, <2>2, PostgresAssumption DEF Version
    <3> HIDE DEF w
    <3>3. QED
      BY <1>2, <1>3, <1>4, <3>1, <3>2, DeliveredVersion
  <2>3. QED
    BY <2>1, <2>2
<1>6. txn' = [txn EXCEPT ![p] = x]
  BY <1>2 DEF TypeOK
<1>7. /\ x \in Txn /\ x.kind = txn[p].kind /\ x.step = "commit" /\ x.now = txn[p].now
      /\ x.todo = {} /\ x.ack = {}
  BY <1>2 DEF Txn
<1>8. x.now <= now
  BY <1>2, <1>7 DEF TxnInv
<1>9. Write(p, t, w)
  BY <1>1
<1> HIDE DEF w, x
<1>10. QED
  BY <1>2, <1>5, <1>6, <1>7, <1>8, <1>9, WriteStep

LEMMA TakeNothingStep ==
  ASSUME IInv, NEW p \in Process, TakeNothing(p)
  PROVE  IInv'
<1> DEFINE x == [txn[p] EXCEPT !.step = "commit"]
<1>1. /\ TypeOK /\ TxnInv(p) /\ txn[p] \in Txn /\ txn[p].step = "lock"
      /\ txn[p].kind # "none" /\ txn[p].ack = {}
      /\ UNCHANGED <<now, store, view, acked>>
      /\ txn' = [txn EXCEPT ![p].step = "commit"]
  BY DEF TakeNothing, Scanned, IInv, TypeOK, TxnInv
<1>2. txn' = [txn EXCEPT ![p] = x] /\ txn'[p] = x
  BY <1>1 DEF TypeOK
<1>3. /\ x \in Txn /\ x.kind = txn[p].kind /\ x.step = "commit" /\ x.now = txn[p].now
      /\ x.todo = txn[p].todo /\ x.ack = {}
  BY <1>1 DEF Txn
<1> HIDE DEF x
<1>4. TxnInv(p)'
  BY <1>1, <1>2, <1>3 DEF TxnInv, Holds
<1>5. QED
  BY <1>1, <1>2, <1>3, <1>4, TxnStep

(* A request with a token finds the attempt live, so it is the last one.   *)
LEMMA LiveRequest ==
  ASSUME IInv, NEW p \in Process, NEW t \in TaskId, NEW i \in DOMAIN store[t].rows,
         TokenRequest(p, t, i)
  PROVE  /\ Free(p, t) /\ store[t] \in Version /\ VersionInv(store[t], now)
         /\ i \in 1..Len(store[t].rows) /\ i \in Nat
         /\ store[t].rows[i].outcome = "processing" /\ now \in Nat
<1>1. store[t] \in Version /\ VersionInv(store[t], now) /\ now \in Nat
  BY DEF IInv, TypeOK
<1>2. i \in 1..Len(store[t].rows) /\ i \in Nat
  BY <1>1, RowsTyped
<1>3. QED
  BY <1>1, <1>2 DEF TokenRequest, Live

LEMMA HeartbeatStep ==
  ASSUME IInv, NEW p \in Process, NEW t \in TaskId, NEW i \in DOMAIN store[t].rows,
         Heartbeat(p, t, i)
  PROVE  IInv'
<1> DEFINE lease == now + LeaseSeconds
           x == [NoTxn EXCEPT !.kind = "heartbeat", !.step = "commit"]
<1>1. /\ Free(p, t) /\ store[t] \in Version /\ VersionInv(store[t], now)
      /\ i \in 1..Len(store[t].rows) /\ store[t].rows[i].outcome = "processing"
      /\ lease \in Nat /\ now \in Nat
  BY LiveRequest, PostgresAssumption DEF Heartbeat
<1>2. PICK w : w = [store[t] EXCEPT !.rows[i].lease_expires_at = lease]
  OBVIOUS
<1>3. Write(p, t, w) /\ UNCHANGED <<now, store, acked>> /\ txn' = [txn EXCEPT ![p] = x]
  BY <1>2 DEF Heartbeat
<1> HIDE DEF lease
<1>4. /\ HasFields(w) /\ w.status = store[t].status
      /\ w.attempt_count = store[t].attempt_count /\ w.result = store[t].result
      /\ w.rows = [store[t].rows EXCEPT ![i] =
                     [store[t].rows[i] EXCEPT !.lease_expires_at = lease]]
  BY <1>1, <1>2 DEF HasFields, Version
<1>5. w \in Version /\ VersionInv(w, now) /\ LockedInv(t, store[t], w)
  BY <1>1, <1>4, RenewedVersion
<1>6. /\ x \in Txn /\ x.kind = "heartbeat" /\ x.step = "commit" /\ x.now = 0
      /\ x.todo = {} /\ x.ack = {}
  BY DEF NoTxn, Txn
<1>7. /\ x.now <= now /\ x.kind # "none" /\ x.step \in {"lock", "commit"} /\ x.step # "lock"
      /\ \A e \in x.todo : e.row \in 1..Len(store[e.task].rows)
      /\ \A m \in x.ack : m.task = t /\ AckInv(m, w)
  BY <1>1, <1>6
<1> HIDE DEF x
<1>8. QED
  BY <1>1, <1>3, <1>5, <1>6, <1>7, WriteStep

LEMMA CommitTerminalStep ==
  ASSUME IInv, NEW p \in Process, NEW t \in TaskId, NEW i \in DOMAIN store[t].rows,
         NEW status \in {"completed", "failed"}, NEW value \in Payload,
         CommitTerminal(p, t, i, status, value)
  PROVE  IInv'
<1> DEFINE ack == [task |-> t, row |-> i, status |-> status, value |-> value]
           x == [NoTxn EXCEPT !.kind = "terminal", !.step = "commit", !.ack = {ack}]
<1>1. /\ Free(p, t) /\ store[t] \in Version /\ VersionInv(store[t], now)
      /\ i \in 1..Len(store[t].rows) /\ store[t].rows[i].outcome = "processing"
      /\ i \in Nat /\ now \in Nat
  BY LiveRequest DEF CommitTerminal
<1>2. PICK w : w = [store[t] EXCEPT !.status = status, !.result = value,
                                    !.rows[i].outcome = status]
  OBVIOUS
<1>3. Write(p, t, w) /\ UNCHANGED <<now, store, acked>> /\ txn' = [txn EXCEPT ![p] = x]
  BY <1>2 DEF CommitTerminal
<1>4. ack \in Ack /\ ack.task = t
  BY <1>1 DEF Ack
<1>5. /\ HasFields(w) /\ w.status = status
      /\ w.attempt_count = store[t].attempt_count /\ w.result = value
      /\ w.rows = [store[t].rows EXCEPT ![i] = [store[t].rows[i] EXCEPT !.outcome = status]]
  BY <1>1, <1>2 DEF HasFields, Version
<1>6. w \in Version /\ VersionInv(w, now) /\ LockedInv(t, store[t], w) /\ AckInv(ack, w)
  BY <1>1, <1>5, ReportedVersion
<1> HIDE DEF ack
<1>7. /\ x \in Txn /\ x.kind = "terminal" /\ x.step = "commit" /\ x.now = 0
      /\ x.todo = {} /\ x.ack = {ack}
  BY <1>4 DEF NoTxn, Txn
<1>8. /\ x.now <= now /\ x.kind # "none" /\ x.step \in {"lock", "commit"} /\ x.step # "lock"
      /\ \A e \in x.todo : e.row \in 1..Len(store[e.task].rows)
      /\ \A m \in x.ack : m.task = t /\ AckInv(m, w)
  BY <1>1, <1>4, <1>6, <1>7
<1> HIDE DEF x
<1>9. QED
  BY <1>1, <1>3, <1>6, <1>7, <1>8, WriteStep

-----------------------------------------------------------------------------
(* The invariant.                                                          *)

LEMMA InitInv == Init => IInv
<1> SUFFICES ASSUME Init PROVE IInv
  OBVIOUS
<1> DEFINE fresh == [status |-> "queued", attempt_count |-> 0, result |-> NULL, rows |-> <<>>]
<1>1. fresh \in Version /\ VersionInv(fresh, 0)
  <2>1. <<>> \in Seq(Row) /\ Len(<<>>) = 0
    BY EmptySeq
  <2>2. QED
    BY <2>1 DEF Version, Status, Value, VersionInv, RowsInv, StatusInv
<1>2. \A t \in TaskId : store[t] = fresh
  BY DEF Init
<1>3. Empty \in View /\ DOMAIN Empty = {}
  <2>1. Empty \in [{} -> Version] /\ {} \in SUBSET TaskId
    BY DEF Empty
  <2>2. QED
    BY <2>1 DEF View
<1>4. NoTxn \in Txn
  BY DEF NoTxn, Txn
<1>5. TypeOK
  BY <1>1, <1>3, <1>4 DEF Init, TypeOK
<1>6. ASSUME NEW p \in Process PROVE TxnInv(p)
  BY <1>3 DEF Init, TxnInv, NoTxn
<1>7. LocksExclusive
  BY <1>3 DEF Init, LocksExclusive, Holds
<1>8. QED
  BY <1>1, <1>2, <1>5, <1>6, <1>7 DEF Init, IInv

LEMMA Inductive == IInv /\ [Next]_vars => IInv'
<1> SUFFICES ASSUME IInv, [Next]_vars PROVE IInv'
  OBVIOUS
<1>1. ASSUME NEW p \in Process, Begin(p, "recover") \/ Begin(p, "claim") PROVE IInv'
  BY <1>1, BeginStep
<1>2. ASSUME NEW p \in Process, Scan(p) PROVE IInv'
  BY <1>2, ScanStep
<1>3. ASSUME NEW p \in Process, NEW e \in txn[p].todo, LockNext(p, e) PROVE IInv'
  BY <1>3, LockNextStep
<1>4. ASSUME NEW p \in Process, NEW t \in TaskId, Take(p, t) PROVE IInv'
  BY <1>4, TakeStep
<1>5. ASSUME NEW p \in Process, TakeNothing(p) PROVE IInv'
  BY <1>5, TakeNothingStep
<1>6. ASSUME NEW p \in Process, NEW t \in TaskId, NEW i \in DOMAIN store[t].rows,
             Heartbeat(p, t, i)
      PROVE  IInv'
  BY <1>6, HeartbeatStep
<1>7. ASSUME NEW p \in Process, NEW t \in TaskId, NEW i \in DOMAIN store[t].rows,
             NEW status \in {"completed", "failed"}, NEW value \in Payload,
             CommitTerminal(p, t, i, status, value)
      PROVE  IInv'
  BY <1>7, CommitTerminalStep
<1>8. ASSUME NEW p \in Process, Commit(p) PROVE IInv'
  BY <1>8, CommitStep
<1>9. ASSUME NEW p \in Process, Abort(p) PROVE IInv'
  BY <1>9, AbortStep
<1>10. CASE Tick
  BY <1>10, TickStep
<1>11. CASE UNCHANGED vars
  BY <1>11 DEF vars, IInv, TypeOK, TxnInv, LocksExclusive, Holds
<1>12. QED
  BY <1>1, <1>2, <1>3, <1>4, <1>5, <1>6, <1>7, <1>8, <1>9, <1>10, <1>11 DEF Next

LEMMA Invariant == Spec => []IInv
BY InitInv, Inductive, PTL DEF Spec

(* The tables are typed, and a row lock has one owner.                     *)
THEOREM TypeCorrect == Spec => [](TypeOK /\ LocksExclusive)
<1>1. IInv => TypeOK /\ LocksExclusive
  BY DEF IInv
<1>2. QED
  BY <1>1, Invariant, PTL

(* However renewals fall between the scan of a recovery pass and its locks, *)
(* no lease is taken away before it ran out (database.py:258).              *)
THEOREM NoLeaseTakenEarly == Spec => []NeverExpiredEarly
<1>1. ASSUME IInv PROVE NeverExpiredEarly
  <2> SUFFICES ASSUME NEW t \in TaskId, NEW i \in DOMAIN store[t].rows,
                      store[t].rows[i].outcome = "expired"
               PROVE  store[t].rows[i].lease_expires_at <= now
    BY DEF NeverExpiredEarly
  <2>1. store[t] \in Version /\ VersionInv(store[t], now)
    BY <1>1 DEF IInv, TypeOK
  <2>2. i \in 1..Len(store[t].rows)
    BY <2>1, RowsTyped
  <2>3. QED
    BY <2>1, <2>2 DEF VersionInv, RowsInv
<1>2. QED
  BY <1>1, Invariant, PTL

(* A submission answered 200 is the task's result for good, though other    *)
(* transactions recover, renew and submit at the same time.                 *)
THEOREM NoAnswerLost == Spec => []AcknowledgedIsStored
<1>1. ASSUME IInv PROVE AcknowledgedIsStored
  <2> SUFFICES ASSUME NEW m \in acked
               PROVE  /\ store[m.task].status = m.status
                      /\ store[m.task].result = m.value
                      /\ store[m.task].rows[m.row].outcome = m.status
    BY DEF AcknowledgedIsStored
  <2>1. AckInv(m, store[m.task])
    BY <1>1 DEF IInv
  <2>2. QED
    BY <2>1 DEF AckInv, Last
<1>2. QED
  BY <1>1, Invariant, PTL

(* Row locks in place of serialized transactions: only a commit changes     *)
(* what the contract sees, and each task by one move.                       *)
LEMMA ContractStep ==
  ASSUME IInv, [Next]_vars
  PROVE  [Contract!Next]_([t \in TaskId |-> Delivery(t, store[t])])
<1>1. ASSUME NEW p \in Process, Commit(p)
      PROVE  Contract!Next
  <2>1. \A t \in TaskId : store'[t] = Seen(p, t)
    BY <1>1 DEF Commit
  <2>2. \A t \in TaskId : Contract!Move(t, Delivery(t, store[t]), Delivery(t, store'[t]))
    BY <2>1, SeenVersion DEF LockedInv
  <2> HIDE DEF Delivery
  <2>3. QED
    BY <2>2 DEF Contract!Next
<1>2. CASE UNCHANGED store
  BY <1>2 DEF Delivery, Last
<1>3. (\E p \in Process : Commit(p)) \/ UNCHANGED store
  <2>1. ASSUME NEW p \in Process,
               \/ Begin(p, "recover") \/ Begin(p, "claim") \/ Scan(p)
               \/ \E e \in txn[p].todo : LockNext(p, e)
               \/ (\E t \in TaskId : Take(p, t)) \/ TakeNothing(p) \/ Abort(p)
        PROVE  UNCHANGED store
    BY <2>1, Zenon DEF Begin, Scan, LockNext, Take, TakeNothing, Abort
  <2>2. ASSUME NEW p \in Process, NEW t \in TaskId, NEW i \in DOMAIN store[t].rows,
               \/ Heartbeat(p, t, i)
               \/ \E status \in {"completed", "failed"}, value \in Payload :
                    CommitTerminal(p, t, i, status, value)
        PROVE  UNCHANGED store
    BY <2>2, Zenon DEF Heartbeat, CommitTerminal
  <2>3. CASE Tick \/ UNCHANGED vars
    BY <2>3 DEF Tick, vars
  <2>4. QED
    BY <2>1, <2>2, <2>3 DEF Next
<1>4. QED
  BY <1>1, <1>2, <1>3

(* What PostgreSQL has committed implements the contract of a delivery.     *)
THEOREM PostgresImplementsContract == Spec => ImplementsContract
<1>1. Init => Contract!Init
  <2> SUFFICES ASSUME Init PROVE Contract!Init
    OBVIOUS
  <2>1. Len(<<>>) = 0
    BY EmptySeq
  <2>2. ASSUME NEW t \in TaskId PROVE Delivery(t, store[t]) = Contract!Fresh
    BY <2>1 DEF Init, Delivery, Contract!Fresh, Contract!State, Contract!NoHolder
  <2> HIDE DEF Delivery
  <2>3. QED
    BY <2>2 DEF Contract!Init
<1>2. QED
  BY <1>1, ContractStep, Invariant, PTL
  DEF Spec, ImplementsContract, Contract!Spec
=============================================================================
