--------------------------- MODULE WaitlistProofs ---------------------------
(***************************************************************************)
(* Proofs about Waitlist for any number of requests, parties, settings and *)
(* any clock.  First what one commit can do to the parties: finished ones  *)
(* are final, granted changes are a legal history, the contract is kept.   *)
(* Then what rows tell of their past and requests know of them: stamps,    *)
(* the order of the queue, sweeps before answers, edits side by side.      *)
(***************************************************************************)
EXTENDS Waitlist, SequenceTheorems, FiniteSetTheorems, TLAPS

(* A database the code may leave: typed, and a notified party has its stamp *)
(* (a deadline is computed from it).                                        *)
Good(d) ==
  /\ d \in Database
  /\ \A i \in DOMAIN d.entry : d.entry[i].status = "NOTIFIED" => d.entry[i].at["NOTIFIED"] # NULL

(* One transaction may turn a party from e into f by its sweep alone.       *)
Swept(e, f) == f = e \/ (e.status = "NOTIFIED" /\ f.status = "NO_SHOW")

(* The draft d holds every committed party of c, swept at most, and new     *)
(* ones that wait.                                                          *)
Follows(c, d) ==
  /\ DOMAIN c.entry \subseteq DOMAIN d.entry
  /\ \A i \in DOMAIN c.entry : Swept(c.entry[i], d.entry[i])
  /\ \A i \in DOMAIN d.entry \ DOMAIN c.entry : d.entry[i].status = "WAITING"

(* The same, but for the party the request is about: that one has made the  *)
(* move the request asked for.                                              *)
Granting(s, c, d) ==
  /\ s.id \in DOMAIN c.entry
  /\ CanTransition(c.entry[s.id].status, s.call.status)
  /\ d.entry[s.id].status = s.call.status
  /\ DOMAIN c.entry \subseteq DOMAIN d.entry
  /\ \A i \in DOMAIN c.entry \ {s.id} : Swept(c.entry[i], d.entry[i])
  /\ \A i \in DOMAIN d.entry \ DOMAIN c.entry : d.entry[i].status = "WAITING"

Changed(s) == s.step = "commit" /\ s.call.kind = "change"

(* What the writer s has made of c.                                         *)
DraftInv(s, c, d) ==
  /\ s.step # "idle"
  /\ IF Changed(s) THEN Granting(s, c, d) ELSE Follows(c, d)

(* What a request s of p knows, when c is committed and w has the lock.     *)
RequestInv(p, s, c, w) ==
  /\ s.step # "idle" => s.call \in Wanted
  /\ s.step # "idle" /\ s.call.kind = "change" => s.id \in DOMAIN c.entry
  /\ s.step = "write" /\ s.call.kind = "change" => CanTransition(s.read, s.call.status)
  /\ s.step = "write" /\ s.call.kind = "edit" => s.loaded \in Restaurant
  /\ s.step = "commit" => w = p

IInv ==
  /\ TypeOK
  /\ Good(db) /\ Good(draft)
  /\ \A p \in Process :
       /\ RequestInv(p, req[p], db, writer)
       /\ writer = p => DraftInv(req[p], db, draft)
  /\ OneWinner

LEMMA IdleIsIdle ==
  /\ Idle \in Request
  /\ \A p, c, w : RequestInv(p, Idle, c, w)
BY DEF Idle, Request, RequestInv

LEMMA FollowsSelf ==
  ASSUME NEW d
  PROVE  Follows(d, d)
<1>1. ASSUME NEW e
      PROVE  Swept(e, e)
  BY DEF Swept
<1>2. QED
  BY <1>1 DEF Follows

(* What a call asks for, by its kind.                                       *)
LEMMA CallTyped ==
  ASSUME NEW call \in Wanted
  PROVE  /\ call.kind \in {"read", "join", "change", "edit"}
         /\ call.kind = "change" => call.status \in Stamped
         /\ call.kind = "edit" => call.fields \in Edits
<1> DEFINE Others == [kind: {"read"}] \cup [kind: {"join"}, source: {"ONLINE", "STAFF"}]
<1>1. call \in Others \/ call \in [kind: {"change"}, status: Stamped]
      \/ call \in [kind: {"edit"}, fields: Edits]
  BY WaitlistAssumption DEF Calls, JoinWaitlistRequest, UpdateWaitlistEntryRequest
<1>2. CASE call \in Others
  BY <1>2
<1>3. CASE call \in [kind: {"change"}, status: Stamped]
  BY <1>3
<1> HIDE DEF Others
<1>4. CASE call \in [kind: {"edit"}, fields: Edits]
  BY <1>4
<1>5. QED
  BY <1>1, <1>2, <1>3, <1>4

(* An edit leaves a restaurant's row.                                       *)
LEMMA EditTyped ==
  ASSUME NEW fields \in Edits, NEW row \in Restaurant, NEW loaded
  PROVE  [f \in DOMAIN row |-> IF f \in DOMAIN fields /\ fields[f] # loaded[f]
                               THEN fields[f] ELSE row[f]] \in Restaurant
<1> DEFINE new == [f \in DOMAIN row |-> IF f \in DOMAIN fields /\ fields[f] # loaded[f]
                                        THEN fields[f] ELSE row[f]]
<1>1. DOMAIN row = {"is_active", "online_waitlist_enabled", "no_show_minutes"}
  BY DEF Restaurant
<1>2. /\ row["is_active"] \in BOOLEAN /\ row["online_waitlist_enabled"] \in BOOLEAN
      /\ row["no_show_minutes"] \in Minutes
  BY DEF Restaurant
<1>3. /\ "is_active" \in DOMAIN fields => fields["is_active"] \in BOOLEAN
      /\ "online_waitlist_enabled" \in DOMAIN fields =>
           fields["online_waitlist_enabled"] \in BOOLEAN
      /\ "no_show_minutes" \in DOMAIN fields => fields["no_show_minutes"] \in Minutes
  BY DEF Edits, RestaurantSettingsRequest, RestaurantStatusRequest, RestaurantRequest
<1>4. /\ new["is_active"] \in BOOLEAN /\ new["online_waitlist_enabled"] \in BOOLEAN
      /\ new["no_show_minutes"] \in Minutes
  BY <1>1, <1>2, <1>3
<1>5. new = [is_active |-> new["is_active"],
             online_waitlist_enabled |-> new["online_waitlist_enabled"],
             no_show_minutes |-> new["no_show_minutes"]]
  BY <1>1
<1>6. QED
  BY <1>4, <1>5 DEF Restaurant

-----------------------------------------------------------------------------
(* Steps by their effect.                                                   *)

(* A request goes on without writing, or the clock does.                    *)
LEMMA GoStep ==
  ASSUME IInv, NEW p \in Process, NEW new \in Request,
         req' = [req EXCEPT ![p] = new], UNCHANGED <<now, db, writer, draft, granted>>,
         RequestInv(p, new, db, writer), writer = p => DraftInv(new, db, draft)
  PROVE  IInv'
<1>1. req \in [Process -> Request] /\ req' \in [Process -> Request] /\ req'[p] = new
      /\ \A q \in Process : q # p => req'[q] = req[q]
  BY DEF IInv, TypeOK
<1>2. TypeOK'
  BY <1>1 DEF IInv, TypeOK
<1>3. Good(db)' /\ Good(draft)'
  BY DEF IInv, Good
<1>4. OneWinner'
  BY DEF IInv, OneWinner
<1>5. \A q \in Process :
        /\ RequestInv(q, req'[q], db, writer)
        /\ writer = q => DraftInv(req'[q], db, draft)
  BY <1>1 DEF IInv
<1>6. QED
  BY <1>2, <1>3, <1>4, <1>5 DEF IInv

LEMMA WriteStep ==
  ASSUME IInv, NEW p \in Process, NEW d, NEW new \in Request, Write(p, d, new), Good(d),
         RequestInv(p, new, db, p), DraftInv(new, db, d)
  PROVE  IInv'
<1>1. req \in [Process -> Request] /\ req' \in [Process -> Request] /\ req'[p] = new
      /\ \A q \in Process : q # p => req'[q] = req[q]
  BY DEF IInv, TypeOK, Write
<1>2. /\ UNCHANGED <<now, db, granted>> /\ writer' = p /\ draft' = d /\ writer \in {p, NULL}
      /\ NULL \notin Process
  BY WaitlistAssumption DEF Write
<1>3. TypeOK'
  BY <1>1, <1>2 DEF IInv, TypeOK, Good
<1>4. Good(db)' /\ Good(draft)'
  BY <1>2 DEF IInv, Good
<1>5. OneWinner'
  BY <1>2 DEF IInv, OneWinner
<1>6. ASSUME NEW q \in Process
      PROVE  RequestInv(q, req'[q], db, p) /\ (p = q => DraftInv(req'[q], db, d))
  <2>1. CASE q = p
    BY <2>1, <1>1
  <2>2. CASE q # p
    <3>1. RequestInv(q, req[q], db, writer) /\ writer # q
      BY <2>2, <1>2 DEF IInv
    <3>2. RequestInv(q, req[q], db, p)
      BY <3>1 DEF RequestInv
    <3>3. QED
      BY <2>2, <3>2, <1>1
  <2>3. QED
    BY <2>1, <2>2
<1>7. QED
  BY <1>2, <1>3, <1>4, <1>5, <1>6 DEF IInv

LEMMA EndTyped ==
  ASSUME IInv, NEW p \in Process, NEW d, End(p, d)
  PROVE  /\ req' \in [Process -> Request] /\ req'[p] = Idle
         /\ \A q \in Process : q # p => req'[q] = req[q]
         /\ writer' \in Process \cup {NULL} /\ writer' # p
         /\ \A q \in Process : q # p => (writer' = q <=> writer = q)
<1>1. req \in [Process -> Request] /\ writer \in Process \cup {NULL} /\ NULL \notin Process
  BY WaitlistAssumption DEF IInv, TypeOK
<1>2. QED
  BY <1>1, IdleIsIdle DEF End

LEMMA RollbackStep ==
  ASSUME IInv, NEW p \in Process, End(p, db), UNCHANGED granted
  PROVE  IInv'
<1>1. UNCHANGED <<now, db, granted>> /\ (draft' = db \/ draft' = draft)
  BY DEF End
<1>2. (writer # p => draft' = draft) /\ Good(draft') /\ Good(db')
  BY <1>1 DEF End, IInv
<1>3. TypeOK'
  BY <1>1, <1>2, EndTyped DEF IInv, TypeOK, Good
<1>4. OneWinner'
  BY <1>1 DEF IInv, OneWinner
<1>5. ASSUME NEW q \in Process
      PROVE  RequestInv(q, req'[q], db', writer') /\ (writer' = q => DraftInv(req'[q], db', draft'))
  <2>1. CASE q = p
    BY <2>1, EndTyped, IdleIsIdle
  <2>2. CASE q # p
    <3>1. req'[q] = req[q] /\ (writer' = q <=> writer = q)
      BY <2>2, EndTyped
    <3>2. RequestInv(q, req'[q], db', writer')
      BY <3>1, <1>1 DEF IInv, RequestInv
    <3>3. writer' = q => DraftInv(req'[q], db', draft')
      BY <2>2, <3>1, <1>1, <1>2 DEF IInv
    <3>4. QED
      BY <3>2, <3>3
  <2>3. QED
    BY <2>1, <2>2
<1>6. QED
  BY <1>2, <1>3, <1>4, <1>5 DEF IInv

-----------------------------------------------------------------------------
(* The commit.                                                              *)

(* What p has of the waitlist is good, and follows what is committed unless *)
(* it holds the change p asked for.                                         *)
LEMMA SeenGood ==
  ASSUME IInv, NEW p \in Process
  PROVE  /\ Good(db) /\ Good(Seen(p))
         /\ ~Changed(req[p]) => Follows(db, Seen(p))
         /\ Changed(req[p]) => Granting(req[p], db, Seen(p))
<1>1. Good(db) /\ Good(draft) /\ RequestInv(p, req[p], db, writer)
      /\ (writer = p => DraftInv(req[p], db, draft))
  BY DEF IInv
<1>2. Follows(db, db)
  BY FollowsSelf
<1>3. CASE writer = p
  BY <1>1, <1>3 DEF Seen, DraftInv
<1>4. CASE writer # p
  BY <1>1, <1>2, <1>4 DEF Seen, RequestInv, Changed
<1>5. QED
  BY <1>3, <1>4

(* One more legal change makes a longer legal history.                      *)
Legal(g, status) ==
  LET steps == <<"WAITING">> \o g
      last == steps[Len(steps)] IN
  /\ \A k \in 1..(Len(steps) - 1) : CanTransition(steps[k], steps[k + 1])
  /\ \/ status = last
     \/ last = "NOTIFIED" /\ status = "NO_SHOW"

LEMMA LegalStart == Legal(<<>>, "WAITING")
<1>1. <<"WAITING">> \o <<>> = <<"WAITING">>
  OBVIOUS
<1>2. QED
  BY <1>1 DEF Legal

LEMMA LegalSweep ==
  ASSUME NEW g \in Seq(Stamped), Legal(g, "NOTIFIED")
  PROVE  Legal(g, "NO_SHOW")
BY DEF Legal

LEMMA LegalChange ==
  ASSUME NEW g \in Seq(Stamped), NEW status, NEW next \in Stamped,
         Legal(g, status), CanTransition(status, next)
  PROVE  Legal(Append(g, next), next)
<1> DEFINE old == <<"WAITING">> \o g
           new == <<"WAITING">> \o Append(g, next)
<1>1. /\ old \in Seq({"WAITING"} \cup Stamped) /\ Len(old) = Len(g) + 1
      /\ new \in Seq({"WAITING"} \cup Stamped) /\ Len(new) = Len(g) + 2
      /\ Len(g) \in Nat
  OBVIOUS
<1>2. /\ \A k \in 1..Len(old) : new[k] = old[k]
      /\ new[Len(new)] = next
  OBVIOUS
<1>3. old[Len(old)] = status
  BY DEF Legal, CanTransition
<1>4. \A k \in 1..(Len(old) - 1) : CanTransition(old[k], old[k + 1])
  BY DEF Legal
<1> HIDE DEF old, new
<1>5. ASSUME NEW k \in 1..(Len(new) - 1)
      PROVE  CanTransition(new[k], new[k + 1])
  <2>1. CASE k = Len(old)
    BY <2>1, <1>1, <1>2, <1>3
  <2>2. CASE k # Len(old)
    BY <2>2, <1>1, <1>2, <1>4
  <2>3. QED
    BY <2>1, <2>2
<1>6. QED
  BY <1>2, <1>5 DEF Legal, new

(* What the commit of p does to the entries and their histories.            *)
LEMMA CommitLegal ==
  ASSUME IInv, NEW p \in Process, Commit(p)
  PROVE  /\ granted' \in Seq(Seq(Stamped)) /\ Len(granted') = Len(db'.entry)
         /\ \A i \in DOMAIN db'.entry : Legal(granted'[i], db'.entry[i].status)
         /\ DOMAIN db.entry \subseteq DOMAIN db'.entry
         /\ \A i \in DOMAIN db.entry :
              db.entry[i].status \in Final => db'.entry[i] = db.entry[i]
<1> DEFINE s == req[p]
           d == Seen(p)
<1>1. /\ db' = d /\ granted' = [i \in DOMAIN d.entry |-> Granted(p, i)]
      /\ s.step = "commit" \/ (s.step = "work" /\ s.call.kind = "read")
  BY DEF Commit, End, Asks
<1>2. /\ Good(db) /\ Good(d)
      /\ ~Changed(s) => Follows(db, d)
      /\ Changed(s) => Granting(s, db, d)
  BY SeenGood
<1>3. d.entry \in Seq(Entry) /\ db.entry \in Seq(Entry)
  BY <1>2 DEF Good, Database
<1>4. granted \in Seq(Seq(Stamped)) /\ Len(granted) = Len(db.entry)
  BY DEF IInv, TypeOK
<1>5. \A i \in DOMAIN db.entry :
        granted[i] \in Seq(Stamped) /\ Legal(granted[i], db.entry[i].status)
  BY <1>4, <1>3, ElementOfSeq, LenProperties DEF IInv, OneWinner, Legal
<1>6. RequestInv(p, s, db, writer) /\ s \in Request
  BY DEF IInv, TypeOK
<1>7. s.call \in Wanted /\ (s.call.kind = "change" => s.call.status \in Stamped)
  BY <1>1, <1>6, CallTyped DEF RequestInv
<1>8. Changed(s) <=> s.call.kind = "change"
  BY <1>1 DEF Changed
<1>9. DOMAIN granted = DOMAIN db.entry
  BY <1>3, <1>4, LenProperties
<1>10. DOMAIN db.entry \subseteq DOMAIN d.entry
       /\ \A i \in DOMAIN d.entry \ DOMAIN db.entry : d.entry[i].status = "WAITING"
  BY <1>2 DEF Follows, Granting
<1> HIDE DEF s, d
<1>11. ASSUME NEW i \in DOMAIN d.entry
       PROVE  Granted(p, i) \in Seq(Stamped) /\ Legal(Granted(p, i), d.entry[i].status)
  <2>1. CASE i \notin DOMAIN db.entry
    <3>1. Granted(p, i) = <<>> /\ d.entry[i].status = "WAITING"
      BY <2>1, <1>2, <1>8, <1>9, <1>10 DEF Granted, Granting, s
    <3>2. QED
      BY <3>1, LegalStart
  <2>2. CASE i \in DOMAIN db.entry /\ s.call.kind = "change" /\ s.id = i
    <3>1. Granted(p, i) = Append(granted[i], s.call.status)
      BY <2>2, <1>9 DEF Granted, s
    <3>2. CanTransition(db.entry[i].status, s.call.status) /\ d.entry[i].status = s.call.status
      BY <2>2, <1>2, <1>8 DEF Granting
    <3>3. QED
      BY <3>1, <3>2, <2>2, <1>5, <1>7, LegalChange, AppendProperties
  <2>3. CASE i \in DOMAIN db.entry /\ ~(s.call.kind = "change" /\ s.id = i)
    <3>1. Granted(p, i) = granted[i]
      BY <2>3, <1>9 DEF Granted, s
    <3>2. Swept(db.entry[i], d.entry[i])
      BY <2>3, <1>2, <1>8 DEF Follows, Granting
    <3>3. QED
      BY <3>1, <3>2, <2>3, <1>5, LegalSweep DEF Swept
  <2>4. QED
    BY <2>1, <2>2, <2>3
<1>12. ASSUME NEW i \in DOMAIN db.entry, db.entry[i].status \in Final
       PROVE  d.entry[i] = db.entry[i]
  <2>1. Swept(db.entry[i], d.entry[i])
    BY <1>2, <1>8, <1>12 DEF Follows, Granting, CanTransition, Final
  <2>2. QED
    BY <2>1, <1>12 DEF Swept, Final
<1>13. /\ granted' \in Seq(Seq(Stamped)) /\ Len(granted') = Len(d.entry)
       /\ \A i \in DOMAIN d.entry : granted'[i] = Granted(p, i)
  <2>1. DOMAIN d.entry = 1..Len(d.entry) /\ Len(d.entry) \in Nat
    BY <1>3, LenProperties
  <2>2. QED
    BY <2>1, <1>1, <1>11
<1>14. QED
  BY <1>1, <1>10, <1>11, <1>12, <1>13

LEMMA CommitStep ==
  ASSUME IInv, NEW p \in Process, Commit(p)
  PROVE  IInv'
<1>1. /\ End(p, Seen(p)) /\ Good(db) /\ Good(Seen(p)) /\ Good(draft)
  BY SeenGood DEF Commit, IInv
<1>2. db' = Seen(p) /\ now' = now /\ draft' \in {Seen(p), draft}
      /\ (writer # p => draft' = draft /\ Seen(p) = db)
  BY <1>1 DEF End, Seen
<1>3. TypeOK'
  BY <1>1, <1>2, CommitLegal, EndTyped DEF IInv, TypeOK, Good
<1>4. Good(db') /\ Good(draft')
  BY <1>1, <1>2
<1>5. OneWinner'
  BY CommitLegal DEF OneWinner, Legal
<1>6. ASSUME NEW q \in Process
      PROVE  RequestInv(q, req'[q], db', writer') /\ (writer' = q => DraftInv(req'[q], db', draft'))
  <2>1. CASE q = p
    BY <1>1, <2>1, EndTyped, IdleIsIdle
  <2>2. CASE q # p
    <3>1. req'[q] = req[q] /\ (writer' = q <=> writer = q)
      BY <1>1, <2>2, EndTyped
    <3>2. RequestInv(q, req'[q], db', writer')
      BY <3>1, CommitLegal DEF IInv, RequestInv
    <3>3. writer' = q => DraftInv(req'[q], db', draft')
      BY <2>2, <3>1, <1>2 DEF IInv
    <3>4. QED
      BY <3>2, <3>3
  <2>3. QED
    BY <2>1, <2>2
<1>7. QED
  BY <1>3, <1>4, <1>5, <1>6 DEF IInv

-----------------------------------------------------------------------------
(* What a request writes.                                                   *)

LEMMA UpdateGood ==
  ASSUME NEW d, Good(d), NEW i \in DOMAIN d.entry, NEW expected, NEW status \in Stamped,
         NEW time \in Nat, d.entry[i].status = expected
  PROVE  LET new == UpdateIfStatus(d, i, expected, status, time) IN
         /\ Good(new) /\ DOMAIN new.entry = DOMAIN d.entry
         /\ new.entry[i].status = status
         /\ \A j \in DOMAIN d.entry \ {i} : new.entry[j] = d.entry[j]
<1> DEFINE e == [d.entry[i] EXCEPT !.status = status, !.at[status] = time]
           new == UpdateIfStatus(d, i, expected, status, time)
<1>1. d.entry \in Seq(Entry) /\ d.restaurant \in Restaurant /\ d.entry[i] \in Entry
  BY ElementOfSeq, LenProperties DEF Good, Database
<1>2. e \in Entry /\ e.status = status
      /\ e.at = [d.entry[i].at EXCEPT ![status] = time]
  BY <1>1 DEF Entry, Stamped, WaitlistStatus, Active
<1>3. new.restaurant = d.restaurant /\ new.entry = [d.entry EXCEPT ![i] = e]
      /\ new = [restaurant |-> new.restaurant, entry |-> new.entry]
  BY DEF UpdateIfStatus, Good, Database
<1>4. e.status = "NOTIFIED" => e.at["NOTIFIED"] # NULL
  BY <1>1, <1>2, WaitlistAssumption DEF Entry, Stamped
<1> HIDE DEF e, new
<1>5. new \in Database
  BY <1>1, <1>2, <1>3, ExceptSeq DEF Database
<1>6. DOMAIN new.entry = DOMAIN d.entry /\ new.entry[i] = e
      /\ \A j \in DOMAIN d.entry \ {i} : new.entry[j] = d.entry[j]
  BY <1>1, <1>3
<1>7. Good(new)
  BY <1>4, <1>5, <1>6 DEF Good
<1>8. QED
  BY <1>2, <1>6, <1>7 DEF new

(* The sweep of one party, whether it finds it still overdue or not.        *)
LEMMA SweepGood ==
  ASSUME NEW c, NEW d, Good(d), Follows(c, d), NEW i, NEW time \in Nat
  PROVE  LET new == UpdateIfStatus(d, i, "NOTIFIED", "NO_SHOW", time) IN
         Good(new) /\ Follows(c, new)
<1> DEFINE new == UpdateIfStatus(d, i, "NOTIFIED", "NO_SHOW", time)
<1>1. CASE i \in DOMAIN d.entry /\ d.entry[i].status = "NOTIFIED"
  <2>1. /\ Good(new) /\ DOMAIN new.entry = DOMAIN d.entry
        /\ new.entry[i].status = "NO_SHOW"
        /\ \A j \in DOMAIN d.entry \ {i} : new.entry[j] = d.entry[j]
    <3>1. "NO_SHOW" \in Stamped
      BY DEF Stamped, Final
    <3>2. QED
      BY ONLY <1>1, <3>1, Good(d), time \in Nat, UpdateGood
  <2> HIDE DEF new
  <2>2. Follows(c, new)
    BY <2>1, <1>1 DEF Follows, Swept
  <2>3. QED
    BY <2>1, <2>2 DEF new
<1>2. CASE i \notin DOMAIN d.entry \/ d.entry[i].status # "NOTIFIED"
  <2>1. new = d
    <3>1. CASE d.entry[i].status # "NOTIFIED"
      BY <3>1 DEF UpdateIfStatus
    <3>2. CASE i \notin DOMAIN d.entry /\ d.entry[i].status = "NOTIFIED"
      <4>1. \A e : [d.entry EXCEPT ![i] = e] = d.entry
        <5>1. d.entry = [j \in DOMAIN d.entry |-> d.entry[j]]
          BY DEF Good, Database
        <5>2. QED
          BY <5>1, <3>2
      <4>2. new.restaurant = d.restaurant /\ new.entry = d.entry
            /\ new = [restaurant |-> new.restaurant, entry |-> new.entry]
        BY <3>2, <4>1 DEF UpdateIfStatus, Good, Database
      <4>3. QED
        BY <4>2 DEF Good, Database
    <3>3. QED
      BY <1>2, <3>1, <3>2
  <2>2. QED
    BY <2>1
<1>3. QED
  BY <1>1, <1>2

LEMMA SweepStep ==
  ASSUME IInv, NEW p \in Process, NEW o \in req[p].todo, SweepOne(p, o)
  PROVE  IInv'
<1> DEFINE s == req[p]
           new == [s EXCEPT !.step = IF s.todo = {o} THEN "work" ELSE "sweep",
                            !.todo = @ \ {o}]
           d == UpdateIfStatus(Seen(p), o.id, "NOTIFIED", "NO_SHOW", o.deadline)
<1>1. Write(p, d, new) /\ s.step = "sweep"
  BY DEF SweepOne
<1>2. s \in Request /\ RequestInv(p, s, db, writer) /\ o.deadline \in Nat
  BY DEF IInv, TypeOK, Request
<1>3. new \in Request /\ new.step \in {"work", "sweep"} /\ new.call = s.call /\ new.id = s.id
  BY <1>2 DEF Request
<1>4. ~Changed(s) /\ ~Changed(new)
  BY <1>1, <1>3 DEF Changed
<1>5. Good(d) /\ Follows(db, d)
  BY <1>2, <1>4, SeenGood, SweepGood
<1> HIDE DEF new, d
<1>6. RequestInv(p, new, db, p) /\ DraftInv(new, db, d)
  BY <1>1, <1>2, <1>3, <1>4, <1>5 DEF RequestInv, DraftInv
<1>7. QED
  BY <1>1, <1>3, <1>5, <1>6, WriteStep

(* A database that differs in its entries.                                  *)
LEMMA OtherEntries ==
  ASSUME NEW R, NEW E, NEW old \in [restaurant: R, entry: E], NEW new
  PROVE  [old EXCEPT !.entry = new] = [restaurant |-> old.restaurant, entry |-> new]
OBVIOUS

LEMMA JoinWriteStep ==
  ASSUME IInv, NEW p \in Process, JoinWrite(p)
  PROVE  IInv'
<1> DEFINE s == req[p]
           old == Seen(p)
           e == [status |-> "WAITING", joined_at |-> s.now, at |-> [t \in Stamped |-> NULL],
                 after |-> s.after]
           d == [old EXCEPT !.entry = Append(@, e)]
<1>1. Write(p, d, Done(p)) /\ s.step = "write" /\ s.call.kind = "join"
  BY DEF JoinWrite, Asks
<1>2. s \in Request /\ RequestInv(p, s, db, writer)
  BY DEF IInv, TypeOK
<1>3. Good(old) /\ Follows(db, old)
  BY <1>1, SeenGood DEF Changed
<1>4. e \in Entry
  BY <1>2 DEF Request, Entry, WaitlistStatus, Active
<1>5. e.status = "WAITING"
  OBVIOUS
<1> HIDE DEF e, old
<1>6. old.entry \in Seq(Entry) /\ old.restaurant \in Restaurant
      /\ d = [restaurant |-> old.restaurant, entry |-> Append(old.entry, e)]
  <2>1. old \in [restaurant: Restaurant, entry: Seq(Entry)]
    BY <1>3 DEF Good, Database
  <2>2. old.entry \in Seq(Entry) /\ old.restaurant \in Restaurant
    BY ONLY <2>1
  <2>3. d = [restaurant |-> old.restaurant, entry |-> Append(old.entry, e)]
    BY ONLY <2>1, OtherEntries
  <2> HIDE DEF d
  <2>4. QED
    BY ONLY <2>2, <2>3
<1>7. /\ d.entry \in Seq(Entry) /\ d \in Database
      /\ DOMAIN d.entry = DOMAIN old.entry \cup {Len(old.entry) + 1}
      /\ Len(old.entry) + 1 \notin DOMAIN old.entry
      /\ \A i \in DOMAIN old.entry : d.entry[i] = old.entry[i]
      /\ d.entry[Len(old.entry) + 1] = e
  BY <1>4, <1>6, AppendProperties, LenProperties DEF Database
<1> HIDE DEF d
<1>8. Good(d)
  BY <1>3, <1>5, <1>7 DEF Good
<1>9. Follows(db, d)
  <2>1. DOMAIN db.entry \subseteq DOMAIN d.entry
    BY <1>3, <1>7 DEF Follows
  <2>2. \A i \in DOMAIN db.entry : Swept(db.entry[i], d.entry[i])
    BY <1>3, <1>7 DEF Follows
  <2>3. \A i \in DOMAIN d.entry \ DOMAIN db.entry : d.entry[i].status = "WAITING"
    BY <1>3, <1>5, <1>7 DEF Follows
  <2>4. QED
    BY <2>1, <2>2, <2>3 DEF Follows
<1>10. Done(p) \in Request /\ Done(p).step = "commit" /\ Done(p).call = s.call
       /\ Done(p).id = s.id
  BY <1>2 DEF Done, Request
<1>11. RequestInv(p, Done(p), db, p) /\ DraftInv(Done(p), db, d)
  BY <1>1, <1>2, <1>9, <1>10 DEF RequestInv, DraftInv, Changed
<1>12. QED
  BY <1>1, <1>8, <1>10, <1>11, WriteStep

LEMMA EditWriteStep ==
  ASSUME IInv, NEW p \in Process, EditWrite(p)
  PROVE  IInv'
<1> DEFINE s == req[p]
           old == Seen(p)
           row == [f \in DOMAIN old.restaurant |->
                     IF f \in DOMAIN s.call.fields /\ s.call.fields[f] # s.loaded[f]
                     THEN s.call.fields[f] ELSE old.restaurant[f]]
           d == [old EXCEPT !.restaurant = row]
<1>1. Write(p, d, Done(p)) /\ s.step = "write" /\ s.call.kind = "edit"
  BY DEF EditWrite, Asks
<1>2. s \in Request /\ RequestInv(p, s, db, writer) /\ s.call \in Wanted
  BY <1>1 DEF IInv, TypeOK, RequestInv
<1>3. Good(old) /\ Follows(db, old)
  BY <1>1, SeenGood DEF Changed
<1>4. s.call.fields \in Edits
  BY <1>1, <1>2, CallTyped
<1>5. old.restaurant \in Restaurant
  BY <1>3 DEF Good, Database
<1> HIDE DEF s, old
<1>6. row \in Restaurant
  BY <1>4, <1>5, EditTyped
<1> HIDE DEF row
<1>7. d \in Database /\ d.entry = old.entry
  BY <1>3, <1>6 DEF Good, Database
<1> HIDE DEF d
<1>8. Good(d) /\ Follows(db, d)
  BY <1>3, <1>7 DEF Good, Follows
<1>9. Done(p) \in Request /\ Done(p).step = "commit" /\ Done(p).call = s.call
      /\ Done(p).id = s.id
  BY <1>2 DEF Done, Request, s
<1>10. RequestInv(p, Done(p), db, p) /\ DraftInv(Done(p), db, d)
  BY <1>1, <1>2, <1>8, <1>9 DEF RequestInv, DraftInv, Changed
<1>11. QED
  BY <1>1, <1>8, <1>9, <1>10, WriteStep

LEMMA ChangeWriteStep ==
  ASSUME IInv, NEW p \in Process, ChangeWrite(p)
  PROVE  IInv'
<1> DEFINE s == req[p]
           old == Seen(p)
           d == UpdateIfStatus(old, s.id, s.read, s.call.status, s.now)
           again == [s EXCEPT !.step = "work"]
<1>1. /\ Write(p, d, IF StatusOf(p) = s.read THEN Done(p) ELSE again)
      /\ s.step = "write" /\ s.call.kind = "change"
  BY DEF ChangeWrite, Asks
<1>2. /\ s \in Request /\ RequestInv(p, s, db, writer) /\ s.call \in Wanted
      /\ s.id \in DOMAIN db.entry /\ CanTransition(s.read, s.call.status)
  BY <1>1 DEF IInv, TypeOK, RequestInv
<1>3. Good(old) /\ Follows(db, old) /\ s.id \in DOMAIN old.entry
  BY <1>1, <1>2, SeenGood DEF Changed, Follows
<1>4. s.call.status \in Stamped /\ s.now \in Nat /\ StatusOf(p) = old.entry[s.id].status
  BY <1>1, <1>2, CallTyped DEF Request, StatusOf
<1>5. /\ Done(p) \in Request /\ Done(p).step = "commit" /\ Done(p).call = s.call
      /\ Done(p).id = s.id
      /\ again \in Request /\ again.step = "work" /\ again.call = s.call /\ again.id = s.id
  BY <1>2 DEF Done, Request
<1> HIDE DEF s, old, d, again
<1>6. CASE StatusOf(p) = s.read
  <2>1. /\ Good(d) /\ DOMAIN d.entry = DOMAIN old.entry
        /\ d.entry[s.id].status = s.call.status
        /\ \A j \in DOMAIN old.entry \ {s.id} : d.entry[j] = old.entry[j]
    <3>1. old.entry[s.id].status = s.read
      BY <1>4, <1>6
    <3>2. s.call.status \in Stamped /\ s.now \in Nat
      BY <1>4
    <3>3. QED
      BY ONLY <1>3, <3>1, <3>2, UpdateGood DEF d
  <2>2. CanTransition(db.entry[s.id].status, s.call.status)
    BY <1>2, <1>3, <1>4, <1>6 DEF Follows, Swept, CanTransition
  <2>3. Granting(Done(p), db, d)
    BY <1>2, <1>3, <1>5, <2>1, <2>2 DEF Granting, Follows
  <2>4. RequestInv(p, Done(p), db, p) /\ DraftInv(Done(p), db, d)
    BY <1>1, <1>2, <1>5, <2>3 DEF RequestInv, DraftInv, Changed
  <2>5. QED
    BY <1>1, <1>5, <1>6, <2>1, <2>4, WriteStep
<1>7. CASE StatusOf(p) # s.read
  <2>1. d = old
    BY <1>4, <1>7 DEF d, UpdateIfStatus
  <2>2. RequestInv(p, again, db, p) /\ DraftInv(again, db, d)
    BY <1>1, <1>2, <1>3, <1>5, <2>1 DEF RequestInv, DraftInv, Changed
  <2>3. QED
    BY <1>1, <1>3, <1>5, <1>7, <2>1, <2>2, WriteStep
<1>8. QED
  BY <1>6, <1>7

-----------------------------------------------------------------------------
(* What a request reads.                                                    *)

LEMMA BeginStep ==
  ASSUME IInv, NEW p \in Process, NEW call \in Wanted, NEW id \in Subjects(call),
         Begin(p, call, id)
  PROVE  IInv'
<1> DEFINE late == Overdue(db, now)
           todo == {[id |-> i, deadline |->
                       Deadline(db.entry[i], db.restaurant.no_show_minutes)] : i \in late}
           new == [Idle EXCEPT !.step = IF late = {} THEN "work" ELSE "sweep",
                     !.call = call, !.id = id, !.found = late, !.todo = todo]
<1>1. /\ req' = [req EXCEPT ![p] = new] /\ UNCHANGED <<now, db, writer, draft, granted>>
      /\ req[p].step = "idle"
  BY DEF Begin, Go
<1>2. /\ Good(db) /\ db.entry \in Seq(Entry) /\ Len(db.entry) \in Nat
      /\ DOMAIN db.entry = 1..Len(db.entry) /\ db.restaurant.no_show_minutes \in Nat
  BY WaitlistAssumption, LenProperties DEF IInv, Good, Database, Restaurant
<1>3. late \subseteq DOMAIN db.entry /\ late \subseteq Nat
      /\ \A i \in late : db.entry[i].status = "NOTIFIED"
  BY <1>2 DEF Overdue
<1>4. ASSUME NEW i \in late
      PROVE  Deadline(db.entry[i], db.restaurant.no_show_minutes) \in Nat
  <2>1. db.entry[i] \in Entry /\ db.entry[i].at["NOTIFIED"] # NULL
    BY <1>2, <1>3, ElementOfSeq DEF Good
  <2>2. db.entry[i].at["NOTIFIED"] \in Nat
    BY <2>1 DEF Entry, Stamped
  <2>3. QED
    BY <2>2, <1>2 DEF Deadline
<1>5. id \in Nat /\ (call.kind = "change" => id \in DOMAIN db.entry)
  BY <1>2 DEF Subjects
<1> HIDE DEF late
<1>6. todo \in SUBSET [id: Nat, deadline: Nat]
  BY <1>3, <1>4
<1> HIDE DEF todo
<1>7. /\ new \in Request /\ new.step \in {"work", "sweep"} /\ new.call = call /\ new.id = id
  BY <1>3, <1>5, <1>6 DEF Idle, Request
<1>8. writer # p
  BY <1>1 DEF IInv, DraftInv
<1> HIDE DEF new
<1>9. RequestInv(p, new, db, writer)
  BY <1>5, <1>7 DEF RequestInv
<1>10. QED
  BY <1>1, <1>7, <1>8, <1>9, GoStep

LEMMA JoinReadStep ==
  ASSUME IInv, NEW p \in Process, JoinRead(p)
  PROVE  IInv'
<1> DEFINE s == req[p]
           new == [s EXCEPT !.step = "write", !.now = now, !.after = DOMAIN db.entry]
<1>1. /\ req' = [req EXCEPT ![p] = new] /\ UNCHANGED <<now, db, writer, draft, granted>>
      /\ s.step = "work" /\ s.call.kind = "join"
  BY DEF JoinRead, Go, Asks
<1>2. /\ s \in Request /\ RequestInv(p, s, db, writer)
      /\ writer = p => DraftInv(s, db, draft)
  BY DEF IInv, TypeOK
<1>3. now \in Nat /\ DOMAIN db.entry \in SUBSET Nat
  BY LenProperties DEF IInv, TypeOK, Good, Database
<1>4. new \in Request /\ new.step = "write" /\ new.call = s.call /\ new.id = s.id
  BY <1>2, <1>3 DEF Request
<1> HIDE DEF new
<1>5. RequestInv(p, new, db, writer) /\ (writer = p => DraftInv(new, db, draft))
  BY <1>1, <1>2, <1>4 DEF RequestInv, DraftInv, Changed
<1>6. QED
  BY <1>1, <1>4, <1>5, GoStep

LEMMA ChangeReadStep ==
  ASSUME IInv, NEW p \in Process, ChangeRead(p)
  PROVE  IInv'
<1> DEFINE s == req[p]
           new == [s EXCEPT !.step = "write", !.read = StatusOf(p), !.now = now]
<1>1. /\ req' = [req EXCEPT ![p] = new] /\ UNCHANGED <<now, db, writer, draft, granted>>
      /\ s.step = "work" /\ s.call.kind = "change"
      /\ CanTransition(StatusOf(p), s.call.status)
  BY DEF ChangeRead, Go, Asks
<1>2. /\ s \in Request /\ RequestInv(p, s, db, writer) /\ now \in Nat
      /\ writer = p => DraftInv(s, db, draft)
  BY DEF IInv, TypeOK
<1>3. StatusOf(p) \in WaitlistStatus
  BY <1>1 DEF CanTransition, WaitlistStatus, Active
<1>4. /\ new \in Request /\ new.step = "write" /\ new.call = s.call /\ new.id = s.id
      /\ new.read = StatusOf(p)
  BY <1>2, <1>3 DEF Request
<1> HIDE DEF new
<1>5. RequestInv(p, new, db, writer) /\ (writer = p => DraftInv(new, db, draft))
  BY <1>1, <1>2, <1>4 DEF RequestInv, DraftInv, Changed
<1>6. QED
  BY <1>1, <1>4, <1>5, GoStep

LEMMA EditReadStep ==
  ASSUME IInv, NEW p \in Process, EditRead(p)
  PROVE  IInv'
<1> DEFINE s == req[p]
           new == [s EXCEPT !.step = "write", !.loaded = Seen(p).restaurant]
<1>1. /\ req' = [req EXCEPT ![p] = new] /\ UNCHANGED <<now, db, writer, draft, granted>>
      /\ s.step = "work" /\ s.call.kind = "edit"
  BY DEF EditRead, Go, Asks
<1>2. /\ s \in Request /\ RequestInv(p, s, db, writer)
      /\ writer = p => DraftInv(s, db, draft)
  BY DEF IInv, TypeOK
<1>3. Seen(p).restaurant \in Restaurant
  BY SeenGood DEF Good, Database
<1>4. /\ new \in Request /\ new.step = "write" /\ new.call = s.call /\ new.id = s.id
      /\ new.loaded = Seen(p).restaurant
  BY <1>2, <1>3 DEF Request
<1> HIDE DEF new
<1>5. RequestInv(p, new, db, writer) /\ (writer = p => DraftInv(new, db, draft))
  BY <1>1, <1>2, <1>3, <1>4 DEF RequestInv, DraftInv, Changed
<1>6. QED
  BY <1>1, <1>4, <1>5, GoStep

-----------------------------------------------------------------------------
(* The theorems.                                                            *)

LEMMA Begins == Init => IInv
<1> SUFFICES ASSUME Init PROVE IInv
  OBVIOUS
<1>1. PICK m \in Minutes :
        db = [restaurant |-> [is_active |-> TRUE, online_waitlist_enabled |-> TRUE,
                              no_show_minutes |-> m],
              entry |-> <<>>]
  BY DEF Init
<1>2. db \in Database /\ db.entry = <<>> /\ DOMAIN db.entry = {} /\ draft = db
  BY <1>1 DEF Init, Database, Restaurant
<1>3. Good(db) /\ Good(draft)
  BY <1>2 DEF Good
<1>4. TypeOK
  BY <1>2, IdleIsIdle DEF Init, TypeOK
<1>5. OneWinner
  BY <1>2 DEF OneWinner
<1>6. \A p \in Process : RequestInv(p, req[p], db, writer) /\ writer # p
  BY IdleIsIdle, WaitlistAssumption DEF Init
<1>7. QED
  BY <1>3, <1>4, <1>5, <1>6 DEF IInv

LEMMA Inductive == IInv /\ [Next]_vars => IInv'
<1> SUFFICES ASSUME IInv, [Next]_vars PROVE IInv'
  OBVIOUS
<1>1. ASSUME NEW p \in Process, NEW call \in Wanted, NEW id \in Subjects(call),
             Begin(p, call, id)
      PROVE  IInv'
  BY <1>1, BeginStep
<1>2. ASSUME NEW p \in Process, Step(p)
      PROVE  IInv'
  <2>1. ASSUME NEW o \in req[p].todo, SweepOne(p, o) PROVE IInv'
    BY <2>1, SweepStep
  <2>2. CASE JoinRead(p)
    BY <2>2, JoinReadStep
  <2>3. CASE JoinWrite(p)
    BY <2>3, JoinWriteStep
  <2>4. CASE JoinRefused(p) \/ ChangeRefused(p)
    BY <2>4, RollbackStep DEF JoinRefused, ChangeRefused
  <2>5. CASE ChangeRead(p)
    BY <2>5, ChangeReadStep
  <2>6. CASE ChangeWrite(p)
    BY <2>6, ChangeWriteStep
  <2>7. CASE EditRead(p)
    BY <2>7, EditReadStep
  <2>8. CASE EditWrite(p)
    BY <2>8, EditWriteStep
  <2>9. CASE Commit(p)
    BY <2>9, CommitStep
  <2>10. QED
    BY <1>2, <2>1, <2>2, <2>3, <2>4, <2>5, <2>6, <2>7, <2>8, <2>9 DEF Step
<1>3. ASSUME NEW p \in Process, Busy(p) \/ Crash(p)
      PROVE  IInv'
  BY <1>3, RollbackStep DEF Busy, Crash
<1>4. CASE Tick \/ UNCHANGED vars
  <2>1. UNCHANGED <<db, writer, draft, req, granted>> /\ now' \in Nat
    BY <1>4 DEF Tick, vars, IInv, TypeOK
  <2>2. TypeOK'
    BY <2>1 DEF IInv, TypeOK
  <2>3. Good(db)' /\ Good(draft)' /\ OneWinner'
    BY <2>1 DEF IInv, Good, OneWinner
  <2>4. QED
    BY <2>1, <2>2, <2>3 DEF IInv
<1>5. QED
  BY <1>1, <1>2, <1>3, <1>4 DEF Next

(* The inductive invariant: what the writer holds follows from what is      *)
(* committed (store.py's conditional UPDATEs inside db.py's transactions),  *)
(* and so do the granted changes.                                           *)
THEOREM Invariance == Spec => []IInv
  BY Begins, Inductive, PTL DEF Spec

(* Rows, requests, the lock and the histories are always typed (tables.py). *)
THEOREM Typing == Spec => []TypeOK
<1>1. IInv => TypeOK
  BY DEF IInv
<1>2. QED
  BY <1>1, Invariance, PTL

(* However many requests collide over a party, the changes answered 200 are *)
(* a legal history of it, and it is where the last one or the sweep put it  *)
(* (change_status, sweep_no_shows).                                         *)
THEOREM NoDoubleWinner == Spec => []OneWinner
<1>1. IInv => OneWinner
  BY DEF IInv
<1>2. QED
  BY <1>1, Invariance, PTL

(* No step writes over a finished party: every UPDATE names the status it   *)
(* was decided from (store.py:9-12).                                        *)
THEOREM FinalityHolds == Spec => FinishedIsFinal
<1> DEFINE Keeps == \A i \in DOMAIN db.entry :
                      db.entry[i].status \in Final =>
                        i \in DOMAIN db'.entry /\ db'.entry[i] = db.entry[i]
<1>1. IInv /\ [Next]_vars => [Keeps]_vars
  <2> SUFFICES ASSUME IInv, [Next]_vars PROVE Keeps
    OBVIOUS
  <2>1. CASE \E p \in Process : Commit(p)
    BY <2>1, CommitLegal
  <2>2. CASE ~ \E p \in Process : Commit(p)
    <3>1. db' = db
      BY <2>2 DEF Next, Step, Begin, SweepOne, JoinRead, JoinWrite, JoinRefused, ChangeRead,
        ChangeWrite, ChangeRefused, EditRead, EditWrite, Busy, Crash, Tick, Go, Write, End, vars
    <3>2. QED
      BY <3>1
  <2>3. QED
    BY <2>1, <2>2
<1>2. QED
  BY <1>1, Invariance, PTL DEF Spec, FinishedIsFinal

LEMMA StatusesTyped ==
  ASSUME NEW e \in Seq(Entry)
  PROVE  [i \in DOMAIN e |-> e[i].status] \in Seq(WaitlistStatus)
<1>1. Len(e) \in Nat /\ DOMAIN e = 1..Len(e)
  BY LenProperties
<1>2. \A i \in DOMAIN e : e[i] \in Entry
  BY <1>1, ElementOfSeq
<1>3. \A i \in DOMAIN e : e[i].status \in WaitlistStatus
  BY <1>2 DEF Entry
<1>4. QED
  BY <1>1, <1>3

(* What a step commits is what the contract allows.                         *)
LEMMA StatusesMove ==
  ASSUME IInv, [Next]_vars
  PROVE  LET Statuses == [i \in DOMAIN db.entry |-> db.entry[i].status] IN
         /\ Statuses' \in Seq(Contract!WaitlistStatus)
         /\ DOMAIN Statuses \subseteq DOMAIN Statuses'
         /\ \A i \in DOMAIN Statuses :
              Statuses'[i] = Statuses[i] \/ Contract!CanTransition(Statuses[i], Statuses'[i])
         /\ \A i \in DOMAIN Statuses' \ DOMAIN Statuses : Statuses'[i] = "WAITING"
<1>1. Good(db) /\ Good(db') /\ \A p \in Process : Good(Seen(p))
  BY SeenGood, Inductive DEF IInv
<1>2. \/ Follows(db, db')
      \/ \E p \in Process : Granting(req[p], db, db')
  <2>1. CASE \E p \in Process : Commit(p)
    BY <2>1, SeenGood DEF Commit, End
  <2>2. CASE ~ \E p \in Process : Commit(p)
    <3>1. db' = db
      BY <2>2 DEF Next, Step, Begin, SweepOne, JoinRead, JoinWrite, JoinRefused, ChangeRead,
        ChangeWrite, ChangeRefused, EditRead, EditWrite, Busy, Crash, Tick, Go, Write, End, vars
    <3>2. QED
      BY <3>1, FollowsSelf
  <2>3. QED
    BY <2>1, <2>2
<1>3. \A i \in DOMAIN db.entry :
        \/ db'.entry[i].status = db.entry[i].status
        \/ CanTransition(db.entry[i].status, db'.entry[i].status)
  BY <1>2 DEF Follows, Granting, Swept, CanTransition, Final
<1>4. /\ DOMAIN db.entry \subseteq DOMAIN db'.entry
      /\ \A i \in DOMAIN db'.entry \ DOMAIN db.entry : db'.entry[i].status = "WAITING"
  BY <1>2 DEF Follows, Granting
<1>5. [i \in DOMAIN db'.entry |-> db'.entry[i].status] \in Seq(WaitlistStatus)
  <2>1. db'.entry \in Seq(Entry)
    BY <1>1 DEF Good, Database
  <2>2. QED
    BY <2>1, StatusesTyped
<1>6. QED
  BY <1>3, <1>4, <1>5 DEF Contract!WaitlistStatus, Contract!CanTransition, Contract!Active,
    Contract!Final, WaitlistStatus, CanTransition, Active, Final

(* For any number of requests, parties and settings, what the store commits  *)
(* is what the contract allows: nobody is lost, every status moves legally,  *)
(* whatever interleaves, collides or is rolled back (store.py, db.py).       *)
THEOREM Implementation == Spec => ImplementsContract
<1> DEFINE Statuses == [i \in DOMAIN db.entry |-> db.entry[i].status]
<1>1. Init => Contract!Init
  <2> SUFFICES ASSUME Init PROVE Statuses \in Seq(Contract!WaitlistStatus)
    BY DEF Contract!Init
  <2>1. db.entry = <<>>
    BY DEF Init
  <2>2. QED
    BY <2>1
<1>2. IInv /\ [Next]_vars => [Contract!Change]_Statuses
  BY StatusesMove DEF Contract!Change
<1>3. QED
  BY <1>1, <1>2, Invariance, PTL DEF Spec, ImplementsContract, Contract!Spec

-----------------------------------------------------------------------------
(* The second invariant: what the rows tell about the past, and what a       *)
(* request may rely on of what it read earlier.                             *)

(* StampsTellTheStory of one row, and nobody joined in the future.          *)
Story(e, time) ==
  LET stamped == {s \in Stamped : e.at[s] # NULL} IN
  /\ e.joined_at <= time
  /\ stamped \cap Final = {e.status} \cap Final
  /\ e.status = "NOTIFIED" => "NOTIFIED" \in stamped
  /\ e.status = "WAITING" => stamped = {}
  /\ \A s \in stamped : e.joined_at <= e.at[s] /\ e.at[s] <= time
  /\ \A s \in stamped \cap Final : "NOTIFIED" \in stamped => e.at["NOTIFIED"] <= e.at[s]

Told(d, time) ==
  \A i \in DOMAIN d.entry :
    /\ Story(d.entry[i], time)
    /\ \A j \in d.entry[i].after : j \in DOMAIN d.entry /\ Ahead(d, j, i)

(* A party that left the queue or was notified at that time or before.      *)
Called(e, time) ==
  e.status # "WAITING" /\ (e.status = "NOTIFIED" => e.at["NOTIFIED"] <= time)

(* No row is lost or joins anew; a party that was called waits no more, and  *)
(* stays as it is or is finished.                                           *)
Later(c, d) ==
  /\ DOMAIN c.entry \subseteq DOMAIN d.entry
  /\ \A i \in DOMAIN c.entry :
       /\ d.entry[i].joined_at = c.entry[i].joined_at
       /\ \/ c.entry[i].status = "WAITING"
          \/ d.entry[i] = c.entry[i]
          \/ c.entry[i].status = "NOTIFIED" /\ d.entry[i].status \in Final

(* What request s knows of the committed c from what it read before.        *)
Knows(s, c, time) ==
  /\ \A o \in s.todo :
       o.deadline <= time /\ o.id \in DOMAIN c.entry /\ Called(c.entry[o.id], o.deadline)
  /\ s.step = "write" /\ s.call.kind = "change" =>
       /\ s.now <= time /\ c.entry[s.id].joined_at <= s.now
       /\ s.read = "NOTIFIED" => Called(c.entry[s.id], s.now)
  /\ s.step = "write" /\ s.call.kind = "join" =>
       /\ s.now <= time
       /\ \A j \in s.after : j \in DOMAIN c.entry /\ c.entry[j].joined_at <= s.now

(* A party that s of p found overdue is still to be swept, or finished in    *)
(* the draft d that p holds (w has the lock).                               *)
Sweeping(p, s, w, d) ==
  /\ s.step # "sweep" => s.todo = {}
  /\ s.step # "idle" =>
       \A i \in s.found :
         \/ \E o \in s.todo : o.id = i
         \/ w = p /\ i \in DOMAIN d.entry /\ d.entry[i].status \in Final

(* The draft differs in the columns of an edit, and in no others.           *)
Edited(s, c, d) ==
  \A f \in DOMAIN c.restaurant :
    d.restaurant[f] # c.restaurant[f] =>
      s.call.kind = "edit" /\ f \in DOMAIN s.call.fields

SInv ==
  /\ Told(db, now) /\ Told(draft, now)
  /\ \A p \in Process :
       /\ Knows(req[p], db, now)
       /\ Sweeping(p, req[p], writer, draft)
       /\ writer = p => Later(db, draft) /\ Edited(req[p], db, draft)

-----------------------------------------------------------------------------
(* How these relations compose.                                             *)

LEMMA LaterSelf == \A d : Later(d, d)
BY DEF Later

LEMMA LaterChains ==
  ASSUME NEW b, NEW c, NEW d, Later(b, c), Later(c, d)
  PROVE  Later(b, d)
<1>1. ASSUME NEW i \in DOMAIN b.entry
      PROVE  /\ d.entry[i].joined_at = b.entry[i].joined_at
             /\ \/ b.entry[i].status = "WAITING"
                \/ d.entry[i] = b.entry[i]
                \/ b.entry[i].status = "NOTIFIED" /\ d.entry[i].status \in Final
  <2>1. i \in DOMAIN c.entry
    BY DEF Later
  <2>2. CASE c.entry[i] = b.entry[i]
    BY <2>1, <2>2 DEF Later
  <2>3. CASE b.entry[i].status = "NOTIFIED" /\ c.entry[i].status \in Final
    BY <2>1, <2>3 DEF Later, Final
  <2>4. QED
    BY <2>1, <2>2, <2>3 DEF Later
<1>2. QED
  BY <1>1 DEF Later

LEMMA CalledLater ==
  ASSUME NEW c, NEW d, Later(c, d), NEW i \in DOMAIN c.entry, NEW time,
         Called(c.entry[i], time)
  PROVE  Called(d.entry[i], time)
BY DEF Later, Called, Final

LEMMA KnowsLater ==
  ASSUME NEW s \in Request, NEW c, NEW d, NEW t \in Nat, NEW u \in Nat, t <= u,
         Knows(s, c, t), Later(c, d),
         s.step = "write" /\ s.call.kind = "change" => s.id \in DOMAIN c.entry
  PROVE  Knows(s, d, u)
<1>1. s.now \in Nat /\ \A o \in s.todo : o.deadline \in Nat
  BY DEF Request
<1>2. \A o \in s.todo :
        o.deadline <= u /\ o.id \in DOMAIN d.entry /\ Called(d.entry[o.id], o.deadline)
  <2> SUFFICES ASSUME NEW o \in s.todo
               PROVE  /\ o.deadline <= u /\ o.id \in DOMAIN d.entry
                      /\ Called(d.entry[o.id], o.deadline)
    OBVIOUS
  <2>1. o.deadline <= t /\ o.id \in DOMAIN c.entry /\ Called(c.entry[o.id], o.deadline)
    BY DEF Knows
  <2>2. o.deadline <= u
    BY <1>1, <2>1
  <2>3. QED
    BY <2>1, <2>2, CalledLater DEF Later
<1>3. ASSUME s.step = "write", s.call.kind = "change"
      PROVE  /\ s.now <= u /\ d.entry[s.id].joined_at <= s.now
             /\ s.read = "NOTIFIED" => Called(d.entry[s.id], s.now)
  <2>1. /\ s.now <= t /\ c.entry[s.id].joined_at <= s.now
        /\ s.read = "NOTIFIED" => Called(c.entry[s.id], s.now)
    BY <1>3 DEF Knows
  <2>2. s.now <= u
    BY <1>1, <2>1
  <2>3. QED
    BY <1>3, <2>1, <2>2, CalledLater DEF Later
<1>4. ASSUME s.step = "write", s.call.kind = "join"
      PROVE  /\ s.now <= u
             /\ \A j \in s.after : j \in DOMAIN d.entry /\ d.entry[j].joined_at <= s.now
  <2>1. /\ s.now <= t
        /\ \A j \in s.after : j \in DOMAIN c.entry /\ c.entry[j].joined_at <= s.now
    BY <1>4 DEF Knows
  <2>2. s.now <= u
    BY <1>1, <2>1
  <2>3. QED
    BY <2>1, <2>2 DEF Later
<1>5. QED
  BY <1>2, <1>3, <1>4 DEF Knows

LEMMA EntryTyped ==
  ASSUME NEW d, Good(d), NEW i \in DOMAIN d.entry
  PROVE  /\ d.entry[i] \in Entry
         /\ d.entry[i].joined_at \in Nat /\ d.entry[i].after \subseteq Nat
         /\ d.entry[i].status \in WaitlistStatus
         /\ \A s \in Stamped : d.entry[i].at[s] \in Nat \cup {NULL}
         /\ i \in Nat
<1>1. d.entry \in Seq(Entry)
  BY DEF Good, Database
<1>2. d.entry[i] \in Entry /\ i \in Nat
  BY <1>1, LenProperties, ElementOfSeq
<1>3. QED
  BY <1>2 DEF Entry

(* Time passes over a story.                                                *)
LEMMA ToldLater ==
  ASSUME NEW d, Good(d), NEW t \in Nat, NEW u \in Nat, t <= u, Told(d, t)
  PROVE  Told(d, u)
<1>1. ASSUME NEW i \in DOMAIN d.entry
      PROVE  Story(d.entry[i], u)
  <2>1. Story(d.entry[i], t)
    BY DEF Told
  <2>2. /\ d.entry[i].joined_at \in Nat
        /\ \A s \in Stamped : d.entry[i].at[s] \in Nat \cup {NULL}
    BY EntryTyped
  <2>3. QED
    BY <2>1, <2>2 DEF Story
<1>2. QED
  BY <1>1 DEF Told

(* A legal change, stamped after what came before it and not in the future.  *)
LEMMA StoryGoesOn ==
  ASSUME NEW e \in Entry, NEW f \in Entry, NEW time \in Nat, NEW at \in Nat, at <= time,
         NEW status \in Stamped, f.status = status, CanTransition(e.status, status),
         f.joined_at = e.joined_at, e.joined_at <= at,
         \A s \in Stamped : f.at[s] = IF s = status THEN at ELSE e.at[s],
         e.status = "NOTIFIED" => e.at["NOTIFIED"] <= at,
         Story(e, time)
  PROVE  Story(f, time)
<1> DEFINE before == {s \in Stamped : e.at[s] # NULL}
           after == {s \in Stamped : f.at[s] # NULL}
<1>1. /\ e.joined_at \in Nat
      /\ \A s \in Stamped : e.at[s] \in Nat \cup {NULL} /\ f.at[s] \in Nat \cup {NULL}
      /\ at # NULL /\ "NOTIFIED" \in Stamped /\ Final \subseteq Stamped
  BY WaitlistAssumption DEF Entry, Stamped
<1>2. after = before \cup {status}
  BY <1>1
<1>3. /\ e.joined_at <= time
      /\ before \cap Final = {e.status} \cap Final
      /\ e.status = "NOTIFIED" => "NOTIFIED" \in before
      /\ e.status = "WAITING" => before = {}
      /\ \A s \in before : e.joined_at <= e.at[s] /\ e.at[s] <= time
  BY DEF Story
<1>4. e.status \in Active /\ before \cap Final = {}
      /\ (status = "NOTIFIED" => e.status = "WAITING")
  BY <1>3 DEF CanTransition, Active, Final
<1> HIDE DEF before, after
<1>5. after \cap Final = {status} \cap Final
  BY <1>2, <1>4
<1>6. \A s \in after : f.joined_at <= f.at[s] /\ f.at[s] <= time
  BY <1>1, <1>2, <1>3 DEF before
<1>7. ASSUME NEW s \in after \cap Final, "NOTIFIED" \in after
      PROVE  f.at["NOTIFIED"] <= f.at[s]
  <2>1. s = status /\ s # "NOTIFIED" /\ f.at[s] = at
    BY <1>5, <1>7 DEF Final
  <2>2. "NOTIFIED" \in before /\ e.status = "NOTIFIED"
    BY <1>2, <1>3, <1>4, <1>7, <2>1 DEF Active
  <2>3. QED
    BY <1>1, <2>1, <2>2
<1>8. f.status = "NOTIFIED" => "NOTIFIED" \in after
  BY <1>2
<1>9. f.status # "WAITING"
  BY DEF Stamped, Final
<1>10. QED
  BY <1>1, <1>3, <1>5, <1>6, <1>7, <1>8, <1>9 DEF Story, after

-----------------------------------------------------------------------------
(* What statements do to the story.                                         *)

LEMMA UpdateRow ==
  ASSUME NEW d, Good(d), NEW i \in DOMAIN d.entry, NEW expected, NEW status \in Stamped,
         NEW time \in Nat, d.entry[i].status = expected
  PROVE  LET new == UpdateIfStatus(d, i, expected, status, time) IN
         /\ new.restaurant = d.restaurant
         /\ new.entry[i].joined_at = d.entry[i].joined_at
         /\ new.entry[i].after = d.entry[i].after
         /\ \A s \in Stamped :
              new.entry[i].at[s] = IF s = status THEN time ELSE d.entry[i].at[s]
<1> DEFINE e == [d.entry[i] EXCEPT !.status = status, !.at[status] = time]
           new == UpdateIfStatus(d, i, expected, status, time)
<1>1. d.entry[i] \in Entry
  BY EntryTyped
<1>2. /\ e.joined_at = d.entry[i].joined_at /\ e.after = d.entry[i].after
      /\ e.at = [d.entry[i].at EXCEPT ![status] = time]
      /\ DOMAIN d.entry[i].at = Stamped
  BY <1>1 DEF Entry
<1>3. new.restaurant = d.restaurant /\ new.entry = [d.entry EXCEPT ![i] = e]
  BY DEF UpdateIfStatus, Good, Database
<1> HIDE DEF e, new
<1>4. new.entry[i] = e
  BY <1>3
<1>5. QED
  BY <1>2, <1>3, <1>4 DEF new

LEMMA UpdateTold ==
  ASSUME NEW d, Good(d), NEW time \in Nat, Told(d, time), NEW i \in DOMAIN d.entry,
         NEW status \in Stamped, NEW at \in Nat, at <= time,
         CanTransition(d.entry[i].status, status), d.entry[i].joined_at <= at,
         d.entry[i].status = "NOTIFIED" => d.entry[i].at["NOTIFIED"] <= at
  PROVE  LET new == UpdateIfStatus(d, i, d.entry[i].status, status, at) IN
         /\ Told(new, time) /\ Later(d, new) /\ new.restaurant = d.restaurant
         /\ new.entry[i].status = status /\ DOMAIN new.entry = DOMAIN d.entry
<1> DEFINE new == UpdateIfStatus(d, i, d.entry[i].status, status, at)
<1>1. /\ Good(new) /\ DOMAIN new.entry = DOMAIN d.entry
      /\ new.entry[i].status = status
      /\ \A j \in DOMAIN d.entry \ {i} : new.entry[j] = d.entry[j]
  BY ONLY Good(d), i \in DOMAIN d.entry, status \in Stamped, at \in Nat, UpdateGood
<1>2. /\ new.restaurant = d.restaurant
      /\ new.entry[i].joined_at = d.entry[i].joined_at
      /\ new.entry[i].after = d.entry[i].after
      /\ \A s \in Stamped : new.entry[i].at[s] = IF s = status THEN at ELSE d.entry[i].at[s]
  BY ONLY Good(d), i \in DOMAIN d.entry, status \in Stamped, at \in Nat, UpdateRow
<1> HIDE DEF new
<1>3. Story(new.entry[i], time)
  <2>1. d.entry[i] \in Entry /\ new.entry[i] \in Entry
    BY <1>1, EntryTyped
  <2>2. Story(d.entry[i], time)
    BY DEF Told
  <2>3. QED
    BY <1>1, <1>2, <2>1, <2>2, StoryGoesOn
<1>4. \A j \in DOMAIN d.entry :
        new.entry[j].joined_at = d.entry[j].joined_at /\ new.entry[j].after = d.entry[j].after
  BY <1>1, <1>2
<1>5. Told(new, time)
  <2>1. \A j \in DOMAIN new.entry : Story(new.entry[j], time)
    BY <1>1, <1>3 DEF Told
  <2>2. ASSUME NEW j \in DOMAIN new.entry, NEW k \in new.entry[j].after
        PROVE  k \in DOMAIN new.entry /\ Ahead(new, k, j)
    <3>1. k \in DOMAIN d.entry /\ Ahead(d, k, j)
      BY <1>1, <1>4, <2>2 DEF Told
    <3>2. QED
      BY <1>1, <1>4, <2>2, <3>1 DEF Ahead
  <2>3. QED
    BY <2>1, <2>2 DEF Told
<1>6. Later(d, new)
  <2>1. \/ d.entry[i].status = "WAITING"
        \/ d.entry[i].status = "NOTIFIED" /\ status \in Final
    BY DEF CanTransition
  <2>2. QED
    BY <1>1, <1>4, <2>1 DEF Later
<1>7. QED
  BY <1>1, <1>2, <1>5, <1>6 DEF new

(* The sweep of one party, at its deadline.                                 *)
LEMMA SweepTold ==
  ASSUME NEW d, Good(d), NEW time \in Nat, Told(d, time), NEW i \in DOMAIN d.entry,
         NEW deadline \in Nat, deadline <= time, Called(d.entry[i], deadline)
  PROVE  LET new == UpdateIfStatus(d, i, "NOTIFIED", "NO_SHOW", deadline) IN
         /\ Told(new, time) /\ Later(d, new) /\ new.restaurant = d.restaurant
         /\ i \in DOMAIN new.entry /\ new.entry[i].status \in Final
<1>1. CASE d.entry[i].status = "NOTIFIED"
  <2>1. d.entry[i].at["NOTIFIED"] <= deadline
    BY <1>1 DEF Called
  <2>2. /\ "NO_SHOW" \in Stamped /\ "NO_SHOW" \in Final
        /\ CanTransition(d.entry[i].status, "NO_SHOW")
    BY <1>1 DEF Stamped, Final, CanTransition
  <2>3. d.entry[i].joined_at <= deadline
    <3>1. "NOTIFIED" \in {s \in Stamped : d.entry[i].at[s] # NULL}
      BY <1>1 DEF Told, Story
    <3>2. d.entry[i].joined_at <= d.entry[i].at["NOTIFIED"]
      BY <3>1 DEF Told, Story
    <3>3. d.entry[i].joined_at \in Nat /\ d.entry[i].at["NOTIFIED"] \in Nat
      BY <3>1, EntryTyped
    <3>4. QED
      BY <2>1, <3>2, <3>3
  <2>4. QED
    BY <1>1, <2>1, <2>2, <2>3, UpdateTold
<1>2. CASE d.entry[i].status # "NOTIFIED"
  <2>1. d.entry[i].status \in Final
    BY <1>2, EntryTyped DEF Called, WaitlistStatus, Active
  <2>2. UpdateIfStatus(d, i, "NOTIFIED", "NO_SHOW", deadline) = d
    BY <1>2 DEF UpdateIfStatus
  <2>3. QED
    BY <2>1, <2>2, LaterSelf
<1>3. QED
  BY <1>1, <1>2

(* A new party, behind those that were there when it asked.                 *)
LEMMA JoinTold ==
  ASSUME NEW d, Good(d), NEW time \in Nat, Told(d, time), NEW joined_at \in Nat,
         joined_at <= time, NEW after \in SUBSET Nat,
         \A j \in after : j \in DOMAIN d.entry /\ d.entry[j].joined_at <= joined_at
  PROVE  LET e == [status |-> "WAITING", joined_at |-> joined_at,
                   at |-> [t \in Stamped |-> NULL], after |-> after]
             new == [d EXCEPT !.entry = Append(@, e)]
         IN Told(new, time) /\ Later(d, new) /\ new.restaurant = d.restaurant
<1> DEFINE e == [status |-> "WAITING", joined_at |-> joined_at,
                 at |-> [t \in Stamped |-> NULL], after |-> after]
           new == [d EXCEPT !.entry = Append(@, e)]
           n == Len(d.entry)
<1>1. d.entry \in Seq(Entry) /\ new.entry = Append(d.entry, e)
      /\ new.restaurant = d.restaurant
  BY DEF Good, Database
<1>2. Story(e, time) /\ e.after = after /\ e.joined_at = joined_at
  BY DEF Story, Final
<1> HIDE DEF e, new
<1>3. /\ n \in Nat /\ DOMAIN d.entry = 1..n /\ DOMAIN new.entry = 1..(n + 1)
      /\ new.entry[n + 1] = e /\ \A j \in 1..n : new.entry[j] = d.entry[j]
  BY <1>1, AppendProperties, LenProperties
<1> HIDE DEF n
<1>4. ASSUME NEW i \in DOMAIN new.entry
      PROVE  /\ Story(new.entry[i], time)
             /\ \A j \in new.entry[i].after : j \in DOMAIN new.entry /\ Ahead(new, j, i)
  <2>1. CASE i = n + 1
    <3>1. \A j \in after : j \in 1..n /\ new.entry[j].joined_at <= joined_at
                           /\ new.entry[j].joined_at \in Nat
      BY <1>3, EntryTyped
    <3>2. new.entry[i] = e /\ new.entry[i].joined_at = joined_at /\ i \in DOMAIN new.entry
      BY <1>2, <1>3, <2>1
    <3>3. \A j \in after : j \in DOMAIN new.entry /\ j <= i
      BY <1>3, <2>1, <3>1
    <3>4. \A j \in after : Ahead(new, j, i)
      BY <3>1, <3>2, <3>3 DEF Ahead
    <3>5. QED
      BY <1>2, <3>2, <3>3, <3>4
  <2>2. CASE i \in 1..n
    <3>1. /\ Story(d.entry[i], time)
          /\ \A j \in d.entry[i].after : j \in DOMAIN d.entry /\ Ahead(d, j, i)
      BY <1>3, <2>2 DEF Told
    <3>2. QED
      BY <1>3, <2>2, <3>1 DEF Ahead
  <2>3. QED
    BY <1>3, <2>1, <2>2
<1>5. Told(new, time)
  BY <1>4 DEF Told
<1>6. Later(d, new)
  BY <1>3 DEF Later
<1>7. QED
  BY <1>1, <1>5, <1>6 DEF new, e

-----------------------------------------------------------------------------
(* Steps by their effect on the story.                                      *)

LEMMA StoryGo ==
  ASSUME IInv, SInv, NEW p \in Process, NEW new,
         req' = [req EXCEPT ![p] = new], UNCHANGED <<now, db, writer, draft, granted>>,
         Knows(new, db, now), Sweeping(p, new, writer, draft),
         writer = p => new.call = req[p].call
  PROVE  SInv'
<1>1. \A q \in Process : req'[q] = IF q = p THEN new ELSE req[q]
  BY DEF IInv, TypeOK
<1>2. Told(db, now)' /\ Told(draft, now)'
  BY DEF SInv, Told
<1>3. writer = p => Edited(new, db, draft)
  BY DEF SInv, Edited
<1>4. \A q \in Process :
        /\ Knows(req'[q], db, now)
        /\ Sweeping(q, req'[q], writer, draft)
        /\ writer = q => Later(db, draft) /\ Edited(req'[q], db, draft)
  BY <1>1, <1>3 DEF SInv
<1>5. QED
  BY <1>2, <1>4 DEF SInv

(* What p has of the database is later than what is committed.              *)
LEMMA SeenTold ==
  ASSUME IInv, SInv, NEW p \in Process
  PROVE  /\ Told(Seen(p), now) /\ Later(db, Seen(p)) /\ Edited(req[p], db, Seen(p))
         /\ now \in Nat /\ req[p] \in Request
         /\ Knows(req[p], db, now) /\ RequestInv(p, req[p], db, writer)
<1>1. Told(Seen(p), now) /\ Later(db, Seen(p)) /\ Edited(req[p], db, Seen(p))
  BY LaterSelf DEF SInv, Seen, Edited
<1>2. QED
  BY <1>1 DEF SInv, IInv, TypeOK

(* Nobody but the one who has the lock relies on the draft.                  *)
LEMMA OthersSweep ==
  ASSUME NEW q, NEW s, NEW v, NEW w, NEW d, NEW e, v # q, Sweeping(q, s, v, d)
  PROVE  Sweeping(q, s, w, e)
BY DEF Sweeping

LEMMA StoryWrite ==
  ASSUME IInv, SInv, NEW p \in Process, NEW d, NEW new, Write(p, d, new),
         Told(d, now), Later(Seen(p), d), Knows(new, db, now), Sweeping(p, new, p, d),
         Edited(new, db, d)
  PROVE  SInv'
<1>1. /\ UNCHANGED <<now, db>> /\ writer' = p /\ draft' = d /\ writer \in {p, NULL}
      /\ NULL \notin Process
      /\ \A q \in Process : req'[q] = IF q = p THEN new ELSE req[q]
  BY WaitlistAssumption DEF Write, IInv, TypeOK
<1>2. Told(db, now)' /\ Told(draft, now)'
  BY <1>1 DEF SInv, Told
<1>3. Later(db, d)
  BY SeenTold, LaterChains
<1>4. ASSUME NEW q \in Process
      PROVE  /\ Knows(req'[q], db, now)
             /\ Sweeping(q, req'[q], p, d)
             /\ p = q => Later(db, d) /\ Edited(req'[q], db, d)
  <2>1. CASE q = p
    BY <1>1, <1>3, <2>1
  <2>2. CASE q # p
    <3>1. /\ req'[q] = req[q] /\ writer # q
          /\ Sweeping(q, req[q], writer, draft) /\ Knows(req[q], db, now)
      BY <1>1, <2>2 DEF SInv
    <3>2. QED
      BY <2>2, <3>1, OthersSweep
  <2>3. QED
    BY <2>1, <2>2
<1>5. QED
  BY <1>1, <1>2, <1>4 DEF SInv

(* An answer, with what p saw or nothing of it committed.                    *)
LEMMA StoryEnd ==
  ASSUME IInv, SInv, NEW p \in Process, NEW d, End(p, d), d \in {db, Seen(p)}
  PROVE  SInv'
<1>1. /\ now' = now /\ db' = d
      /\ writer # p => db' = db /\ draft' = draft
      /\ writer = p => draft' = d
  BY DEF End, Seen
<1>2. Told(db', now') /\ Told(draft', now')
  BY <1>1, SeenTold DEF SInv
<1>3. Later(db, db')
  BY <1>1, SeenTold, LaterSelf
<1>4. ASSUME NEW q \in Process
      PROVE  /\ Knows(req'[q], db', now')
             /\ Sweeping(q, req'[q], writer', draft')
             /\ writer' = q => Later(db', draft') /\ Edited(req'[q], db', draft')
  <2>1. CASE q = p
    <3>1. req'[q] = Idle /\ writer' # p
      BY <2>1, EndTyped
    <3>2. Knows(Idle, db', now') /\ Sweeping(q, Idle, writer', draft')
      BY DEF Knows, Sweeping, Idle
    <3>3. QED
      BY <2>1, <3>1, <3>2
  <2>2. CASE q # p
    <3>1. req'[q] = req[q] /\ (writer' = q <=> writer = q)
      BY <2>2, EndTyped
    <3>2. Knows(req[q], db', now')
      BY <1>1, <1>3, SeenTold, KnowsLater DEF RequestInv
    <3>3. Sweeping(q, req[q], writer, draft)
      BY DEF SInv
    <3>4. CASE writer = q
      BY <1>1, <2>2, <3>1, <3>2, <3>3, <3>4 DEF SInv
    <3>5. CASE writer # q
      BY <3>1, <3>2, <3>3, <3>5, OthersSweep
    <3>6. QED
      BY <3>4, <3>5
  <2>3. QED
    BY <2>1, <2>2
<1>5. QED
  BY <1>2, <1>4 DEF SInv

-----------------------------------------------------------------------------
(* The actions, and the story.                                              *)

LEMMA DoneFields ==
  ASSUME NEW p \in Process, req[p] \in Request
  PROVE  /\ Done(p).step = "commit" /\ Done(p).call = req[p].call
         /\ Done(p).id = req[p].id /\ Done(p).found = req[p].found
         /\ Done(p).todo = req[p].todo
BY DEF Done, Request

(* A statement that is not the sweep's leaves what was swept.               *)
LEMMA StillSwept ==
  ASSUME NEW p, NEW s, NEW new, NEW d, s.step \notin {"idle", "sweep"}, Sweeping(p, s, writer, draft),
         new.found = s.found, new.todo = s.todo, Later(Seen(p), d)
  PROVE  Sweeping(p, new, p, d)
<1>1. s.todo = {}
  BY DEF Sweeping
<1>2. ASSUME NEW i \in s.found
      PROVE  i \in DOMAIN d.entry /\ d.entry[i].status \in Final
  <2>1. writer = p /\ i \in DOMAIN draft.entry /\ draft.entry[i].status \in Final
    BY <1>1 DEF Sweeping
  <2>2. QED
    BY <2>1 DEF Seen, Later, Final
<1>3. QED
  BY <1>1, <1>2 DEF Sweeping

LEMMA SweepStory ==
  ASSUME IInv, SInv, NEW p \in Process, NEW o \in req[p].todo, SweepOne(p, o)
  PROVE  SInv'
<1> DEFINE s == req[p]
           new == [s EXCEPT !.step = IF s.todo = {o} THEN "work" ELSE "sweep",
                            !.todo = @ \ {o}]
           d == UpdateIfStatus(Seen(p), o.id, "NOTIFIED", "NO_SHOW", o.deadline)
<1>1. Write(p, d, new) /\ s.step = "sweep"
  BY DEF SweepOne
<1>2. /\ Told(Seen(p), now) /\ Later(db, Seen(p)) /\ Edited(s, db, Seen(p)) /\ now \in Nat
      /\ s \in Request /\ Knows(s, db, now) /\ Good(Seen(p))
      /\ Sweeping(p, s, writer, draft)
  BY SeenTold, SeenGood DEF SInv
<1>3. /\ new.step = (IF s.todo = {o} THEN "work" ELSE "sweep") /\ new.call = s.call
      /\ new.found = s.found /\ new.todo = s.todo \ {o}
  BY <1>2 DEF Request
<1>4. /\ o.deadline \in Nat /\ o.deadline <= now /\ o.id \in DOMAIN Seen(p).entry
      /\ Called(Seen(p).entry[o.id], o.deadline)
  BY <1>2, CalledLater DEF Knows, Request, Later
<1>5. /\ Told(d, now) /\ Later(Seen(p), d) /\ d.restaurant = Seen(p).restaurant
      /\ o.id \in DOMAIN d.entry /\ d.entry[o.id].status \in Final
  BY ONLY <1>2, <1>4, SweepTold
<1> HIDE DEF d, new
<1>6. Knows(new, db, now)
  BY <1>2, <1>3 DEF Knows
<1>7. Sweeping(p, new, p, d)
  <2>1. new.step # "sweep" => new.todo = {}
    BY <1>3
  <2>2. ASSUME NEW i \in s.found
        PROVE  \/ \E x \in new.todo : x.id = i
               \/ i \in DOMAIN d.entry /\ d.entry[i].status \in Final
    <3>1. CASE \E x \in s.todo : x.id = i
      BY <1>3, <1>5, <3>1
    <3>2. CASE writer = p /\ i \in DOMAIN draft.entry /\ draft.entry[i].status \in Final
      BY <1>5, <3>2 DEF Seen, Later, Final
    <3>3. QED
      BY <1>1, <1>2, <3>1, <3>2 DEF Sweeping
  <2>3. QED
    BY <1>3, <2>1, <2>2 DEF Sweeping
<1>8. Edited(new, db, d)
  BY <1>2, <1>3, <1>5 DEF Edited
<1>9. QED
  BY <1>1, <1>5, <1>6, <1>7, <1>8, StoryWrite

LEMMA JoinWriteStory ==
  ASSUME IInv, SInv, NEW p \in Process, JoinWrite(p)
  PROVE  SInv'
<1> DEFINE s == req[p]
           e == [status |-> "WAITING", joined_at |-> s.now, at |-> [t \in Stamped |-> NULL],
                 after |-> s.after]
           d == [Seen(p) EXCEPT !.entry = Append(@, e)]
<1>1. Write(p, d, Done(p)) /\ s.step = "write" /\ s.call.kind = "join"
  BY DEF JoinWrite, Asks
<1>2. /\ Told(Seen(p), now) /\ Later(db, Seen(p)) /\ Edited(s, db, Seen(p)) /\ now \in Nat
      /\ s \in Request /\ Knows(s, db, now) /\ Good(Seen(p))
      /\ Sweeping(p, s, writer, draft)
  BY SeenTold, SeenGood DEF SInv
<1>3. /\ s.now \in Nat /\ s.now <= now /\ s.after \in SUBSET Nat
      /\ \A j \in s.after : j \in DOMAIN Seen(p).entry /\ Seen(p).entry[j].joined_at <= s.now
  BY <1>1, <1>2 DEF Knows, Request, Later
<1>4. Told(d, now) /\ Later(Seen(p), d) /\ d.restaurant = Seen(p).restaurant
  BY ONLY <1>2, <1>3, JoinTold
<1> HIDE DEF d
<1>5. Sweeping(p, Done(p), p, d)
  BY <1>1, <1>2, <1>4, DoneFields, StillSwept
<1>6. Knows(Done(p), db, now) /\ Edited(Done(p), db, d)
  BY <1>2, <1>4, DoneFields DEF Knows, Edited
<1>7. QED
  BY <1>1, <1>4, <1>5, <1>6, StoryWrite

LEMMA EditWriteStory ==
  ASSUME IInv, SInv, NEW p \in Process, EditWrite(p)
  PROVE  SInv'
<1> DEFINE s == req[p]
           old == Seen(p)
           row == [f \in DOMAIN old.restaurant |->
                     IF f \in DOMAIN s.call.fields /\ s.call.fields[f] # s.loaded[f]
                     THEN s.call.fields[f] ELSE old.restaurant[f]]
           d == [old EXCEPT !.restaurant = row]
<1>1. Write(p, d, Done(p)) /\ s.step = "write" /\ s.call.kind = "edit"
  BY DEF EditWrite, Asks
<1>2. /\ Told(old, now) /\ Later(db, old) /\ Edited(s, db, old)
      /\ s \in Request /\ Knows(s, db, now) /\ Good(old) /\ Good(db)
      /\ Sweeping(p, s, writer, draft)
  BY SeenTold, SeenGood DEF SInv
<1> HIDE DEF s, old
<1>3. d.entry = old.entry /\ d.restaurant = row
  BY <1>2 DEF Good, Database
<1> HIDE DEF d
<1>4. Told(d, now) /\ Later(old, d)
  BY <1>2, <1>3 DEF Told, Later, Ahead
<1>5. DOMAIN db.restaurant = DOMAIN old.restaurant
  BY <1>2 DEF Good, Database, Restaurant
<1>6. Edited(Done(p), db, d)
  <2>1. \A f \in DOMAIN db.restaurant :
          f \in DOMAIN s.call.fields \/ d.restaurant[f] = old.restaurant[f]
    BY <1>3, <1>5
  <2>2. QED
    BY <1>1, <1>2, <2>1, DoneFields DEF Edited, s
<1>7. Sweeping(p, Done(p), p, d)
  BY <1>1, <1>2, <1>4, DoneFields, StillSwept DEF s, old
<1>8. Knows(Done(p), db, now)
  BY <1>2, DoneFields DEF Knows, s
<1>9. QED
  BY <1>1, <1>4, <1>6, <1>7, <1>8, StoryWrite DEF old

LEMMA ChangeWriteStory ==
  ASSUME IInv, SInv, NEW p \in Process, ChangeWrite(p)
  PROVE  SInv'
<1> DEFINE s == req[p]
           old == Seen(p)
           d == UpdateIfStatus(old, s.id, s.read, s.call.status, s.now)
           again == [s EXCEPT !.step = "work"]
           new == IF StatusOf(p) = s.read THEN Done(p) ELSE again
<1>1. Write(p, d, new) /\ s.step = "write" /\ s.call.kind = "change"
  BY DEF ChangeWrite, Asks
<1>2. /\ Told(old, now) /\ Later(db, old) /\ Edited(s, db, old) /\ now \in Nat
      /\ s \in Request /\ Knows(s, db, now) /\ Good(old)
      /\ Sweeping(p, s, writer, draft) /\ RequestInv(p, s, db, writer)
  BY SeenTold, SeenGood DEF SInv
<1>3. /\ s.call \in Wanted /\ s.call.status \in Stamped /\ s.id \in DOMAIN db.entry
      /\ s.id \in DOMAIN old.entry /\ CanTransition(s.read, s.call.status)
      /\ StatusOf(p) = old.entry[s.id].status /\ s.now \in Nat /\ s.now <= now
      /\ old.entry[s.id].joined_at <= s.now
      /\ s.read = "NOTIFIED" => Called(old.entry[s.id], s.now)
  <2>1. s.call \in Wanted /\ s.id \in DOMAIN db.entry /\ CanTransition(s.read, s.call.status)
    BY <1>1, <1>2 DEF RequestInv
  <2>2. s.call.status \in Stamped
    BY <1>1, <2>1, CallTyped
  <2>3. /\ s.id \in DOMAIN old.entry
        /\ old.entry[s.id].joined_at = db.entry[s.id].joined_at
    BY <1>2, <2>1 DEF Later
  <2>4. s.read = "NOTIFIED" => Called(old.entry[s.id], s.now)
    BY <1>1, <1>2, <2>1, CalledLater DEF Knows
  <2>5. QED
    BY <1>1, <1>2, <2>1, <2>2, <2>3, <2>4 DEF Knows, StatusOf, Request
<1>4. /\ again.step = "work" /\ again.call = s.call
      /\ again.found = s.found /\ again.todo = s.todo
  BY <1>2 DEF Request
<1>5. /\ new.step \in {"work", "commit"} /\ new.call = s.call
      /\ new.found = s.found /\ new.todo = s.todo
  BY <1>2, <1>4, DoneFields
<1>6. Told(d, now) /\ Later(old, d) /\ d.restaurant = old.restaurant
  <2>1. CASE StatusOf(p) = s.read
    <3>1. /\ d = UpdateIfStatus(old, s.id, old.entry[s.id].status, s.call.status, s.now)
          /\ CanTransition(old.entry[s.id].status, s.call.status)
          /\ old.entry[s.id].status = "NOTIFIED" => old.entry[s.id].at["NOTIFIED"] <= s.now
      BY <1>3, <2>1 DEF Called
    <3> HIDE DEF d, old, s
    <3>2. QED
      BY <1>2, <1>3, <3>1, UpdateTold
  <2>2. CASE StatusOf(p) # s.read
    <3>1. d = old
      BY <1>3, <2>2 DEF UpdateIfStatus
    <3>2. QED
      BY <1>2, <3>1, LaterSelf
  <2>3. QED
    BY <2>1, <2>2
<1> HIDE DEF d, new, again
<1>7. Sweeping(p, new, p, d)
  BY <1>1, <1>2, <1>5, <1>6, StillSwept
<1>8. Knows(new, db, now) /\ Edited(new, db, d)
  BY <1>2, <1>5, <1>6 DEF Knows, Edited
<1>9. QED
  BY <1>1, <1>6, <1>7, <1>8, StoryWrite

LEMMA BeginStory ==
  ASSUME IInv, SInv, NEW p \in Process, NEW call \in Wanted, NEW id, Begin(p, call, id)
  PROVE  SInv'
<1> DEFINE late == Overdue(db, now)
           minutes == db.restaurant.no_show_minutes
           todo == {[id |-> i, deadline |-> Deadline(db.entry[i], minutes)] : i \in late}
           new == [Idle EXCEPT !.step = IF late = {} THEN "work" ELSE "sweep",
                     !.call = call, !.id = id, !.found = late, !.todo = todo]
<1>1. /\ req' = [req EXCEPT ![p] = new] /\ UNCHANGED <<now, db, writer, draft, granted>>
      /\ req[p].step = "idle"
  BY DEF Begin, Go
<1>2. now \in Nat /\ minutes \in Nat /\ Good(db) /\ writer # p
  BY <1>1, WaitlistAssumption DEF IInv, TypeOK, Good, Database, Restaurant, DraftInv
<1>3. ASSUME NEW i \in late
      PROVE  /\ i \in DOMAIN db.entry /\ Deadline(db.entry[i], minutes) <= now
             /\ Called(db.entry[i], Deadline(db.entry[i], minutes))
  <2>1. i \in DOMAIN db.entry /\ db.entry[i].status = "NOTIFIED"
        /\ now >= Deadline(db.entry[i], minutes)
    BY DEF Overdue
  <2>2. db.entry[i].at["NOTIFIED"] \in Nat
    BY <1>2, <2>1, EntryTyped DEF Good, Stamped
  <2>3. QED
    BY <1>2, <2>1, <2>2 DEF Deadline, Called
<1> HIDE DEF late, minutes
<1>4. /\ \A o \in todo : /\ o.id \in late /\ o.deadline = Deadline(db.entry[o.id], minutes)
      /\ \A i \in late : \E o \in todo : o.id = i
  <2>1. ASSUME NEW o \in todo
        PROVE  o.id \in late /\ o.deadline = Deadline(db.entry[o.id], minutes)
    <3>1. PICK i \in late : o = [id |-> i, deadline |-> Deadline(db.entry[i], minutes)]
      BY <2>1
    <3>2. o.id = i /\ o.deadline = Deadline(db.entry[i], minutes)
      BY <3>1
    <3>3. QED
      BY <3>2
  <2>2. ASSUME NEW i \in late
        PROVE  \E o \in todo : o.id = i
    <3>1. [id |-> i, deadline |-> Deadline(db.entry[i], minutes)] \in todo
      BY <2>2
    <3>2. [id |-> i, deadline |-> Deadline(db.entry[i], minutes)].id = i
      OBVIOUS
    <3>3. QED
      BY <3>1, <3>2
  <2>3. QED
    BY <2>1, <2>2
<1>5. late = {} => todo = {}
  OBVIOUS
<1> HIDE DEF todo
<1>6. /\ new.step = (IF late = {} THEN "work" ELSE "sweep") /\ new.call = call
      /\ new.found = late /\ new.todo = todo
  BY DEF Idle
<1> HIDE DEF new
<1>7. Knows(new, db, now)
  BY <1>2, <1>3, <1>4, <1>6 DEF Knows
<1>8. Sweeping(p, new, writer, draft)
  BY <1>4, <1>5, <1>6 DEF Sweeping
<1>9. QED
  BY <1>1, <1>2, <1>7, <1>8, StoryGo

(* A request that reads, for a change, a join or an edit.                    *)
LEMMA ReadStory ==
  ASSUME IInv, SInv, NEW p \in Process,
         JoinRead(p) \/ ChangeRead(p) \/ EditRead(p)
  PROVE  SInv'
<1> DEFINE s == req[p]
<1>1. s.step = "work"
  BY DEF JoinRead, ChangeRead, EditRead, Asks
<1>2. /\ s \in Request /\ Knows(s, db, now) /\ Sweeping(p, s, writer, draft)
      /\ Told(db, now) /\ Good(db) /\ now \in Nat /\ RequestInv(p, s, db, writer)
      /\ Follows(db, Seen(p))
  BY <1>1, SeenTold, SeenGood DEF SInv, Changed
<1>3. \A i \in DOMAIN db.entry : db.entry[i].joined_at <= now
  BY <1>2 DEF Told, Story
<1>4. ASSUME NEW new, Go(p, new), new.call = s.call, new.found = s.found, new.todo = s.todo,
             new.step = "write", Knows(new, db, now)
      PROVE  SInv'
  <2>1. Sweeping(p, new, writer, draft)
    BY <1>1, <1>2, <1>4 DEF Sweeping
  <2>2. QED
    BY <1>4, <2>1, StoryGo DEF Go
<1>5. CASE JoinRead(p)
  <2> DEFINE new == [s EXCEPT !.step = "write", !.now = now, !.after = DOMAIN db.entry]
  <2>1. Go(p, new) /\ s.call.kind = "join"
    BY <1>5 DEF JoinRead, Asks
  <2>2. /\ new.call = s.call /\ new.found = s.found /\ new.todo = s.todo
        /\ new.step = "write" /\ new.now = now /\ new.after = DOMAIN db.entry
    BY <1>2 DEF Request
  <2> HIDE DEF new
  <2>3. Knows(new, db, now)
    BY <1>2, <1>3, <2>1, <2>2 DEF Knows
  <2>4. QED
    BY <1>4, <2>1, <2>2, <2>3
<1>6. CASE EditRead(p)
  <2> DEFINE new == [s EXCEPT !.step = "write", !.loaded = Seen(p).restaurant]
  <2>1. Go(p, new) /\ s.call.kind = "edit"
    BY <1>6 DEF EditRead, Asks
  <2>2. /\ new.call = s.call /\ new.found = s.found /\ new.todo = s.todo
        /\ new.step = "write"
    BY <1>2 DEF Request
  <2> HIDE DEF new
  <2>3. Knows(new, db, now)
    BY <1>2, <2>1, <2>2 DEF Knows
  <2>4. QED
    BY <1>4, <2>1, <2>2, <2>3
<1>7. CASE ChangeRead(p)
  <2> DEFINE new == [s EXCEPT !.step = "write", !.read = StatusOf(p), !.now = now]
  <2>1. Go(p, new) /\ s.call.kind = "change"
    BY <1>7 DEF ChangeRead, Asks
  <2>2. /\ new.call = s.call /\ new.found = s.found /\ new.todo = s.todo
        /\ new.step = "write" /\ new.now = now /\ new.id = s.id /\ new.read = StatusOf(p)
    BY <1>2 DEF Request
  <2> HIDE DEF new
  <2>3. s.id \in DOMAIN db.entry
    BY <1>1, <1>2, <2>1 DEF RequestInv
  <2>4. ASSUME StatusOf(p) = "NOTIFIED"
        PROVE  Called(db.entry[s.id], now)
    <3>1. db.entry[s.id].status = "NOTIFIED"
      BY <1>2, <2>3, <2>4 DEF StatusOf, Follows, Swept
    <3>2. "NOTIFIED" \in {x \in Stamped : db.entry[s.id].at[x] # NULL}
      BY <1>2, <2>3, <3>1 DEF Told, Story
    <3>3. db.entry[s.id].at["NOTIFIED"] <= now
      BY <1>2, <2>3, <3>2 DEF Told, Story
    <3>4. QED
      BY <3>1, <3>3 DEF Called
  <2>5. Knows(new, db, now)
    BY <1>2, <1>3, <2>1, <2>2, <2>3, <2>4 DEF Knows
  <2>6. QED
    BY <1>4, <2>1, <2>2, <2>5
<1>8. QED
  BY <1>5, <1>6, <1>7

LEMMA StoryBegins == Init => SInv
<1> SUFFICES ASSUME Init PROVE SInv
  OBVIOUS
<1>1. /\ db.entry = <<>> /\ DOMAIN db.entry = {} /\ draft = db /\ writer = NULL
      /\ NULL \notin Process /\ \A p \in Process : req[p] = Idle
  BY WaitlistAssumption DEF Init
<1>2. Told(db, now)
  BY <1>1 DEF Told
<1>3. \A p : Knows(Idle, db, now) /\ Sweeping(p, Idle, writer, draft)
  BY DEF Knows, Sweeping, Idle
<1>4. QED
  BY <1>1, <1>2, <1>3 DEF SInv

LEMMA StoryInductive == IInv /\ SInv /\ [Next]_vars => SInv'
<1> SUFFICES ASSUME IInv, SInv, [Next]_vars PROVE SInv'
  OBVIOUS
<1>1. ASSUME NEW p \in Process, NEW call \in Wanted, NEW id \in Subjects(call),
             Begin(p, call, id)
      PROVE  SInv'
  BY <1>1, BeginStory
<1>2. ASSUME NEW p \in Process, Step(p)
      PROVE  SInv'
  <2>1. ASSUME NEW o \in req[p].todo, SweepOne(p, o) PROVE SInv'
    BY <2>1, SweepStory
  <2>2. CASE JoinRead(p) \/ ChangeRead(p) \/ EditRead(p)
    BY <2>2, ReadStory
  <2>3. CASE JoinWrite(p)
    BY <2>3, JoinWriteStory
  <2>4. CASE ChangeWrite(p)
    BY <2>4, ChangeWriteStory
  <2>5. CASE EditWrite(p)
    BY <2>5, EditWriteStory
  <2>6. CASE JoinRefused(p) \/ ChangeRefused(p) \/ Commit(p)
    BY <2>6, StoryEnd DEF JoinRefused, ChangeRefused, Commit
  <2>7. QED
    BY <1>2, <2>1, <2>2, <2>3, <2>4, <2>5, <2>6 DEF Step
<1>3. ASSUME NEW p \in Process, Busy(p) \/ Crash(p)
      PROVE  SInv'
  BY <1>3, StoryEnd DEF Busy, Crash
<1>4. CASE Tick \/ UNCHANGED vars
  <2>1. /\ UNCHANGED <<db, writer, draft, req, granted>> /\ now \in Nat /\ now' \in Nat
        /\ now <= now'
    BY <1>4 DEF Tick, vars, IInv, TypeOK
  <2>2. Told(db, now') /\ Told(draft, now')
    BY <2>1, ToldLater DEF IInv, SInv
  <2>3. ASSUME NEW p \in Process
        PROVE  Knows(req[p], db, now')
    BY <2>1, SeenTold, LaterSelf, KnowsLater DEF RequestInv
  <2>4. QED
    BY <2>1, <2>2, <2>3 DEF SInv
<1>5. QED
  BY <1>1, <1>2, <1>3, <1>4 DEF Next

(* In committed rows and in the writer's draft, stamps tell how a party came *)
(* to its status and lines form in the order of confirmations; a request    *)
(* knows only of rows that are still there, swept or changed since.         *)
THEOREM StoryInvariance == Spec => []SInv
BY StoryBegins, StoryInductive, Invariance, PTL DEF Spec

(* Whatever overlaps, is swept late or rolled back: status and timestamps    *)
(* of a party agree, and the timestamps are in order (store.py's updates of *)
(* status and timestamp in one statement).                                  *)
THEOREM StampsAgree == Spec => []StampsTellTheStory
<1>1. SInv => StampsTellTheStory
  BY DEF SInv, Told, Story, StampsTellTheStory
<1>2. QED
  BY <1>1, StoryInvariance, PTL

(* Nobody gets ahead of a party that was confirmed before he asked          *)
(* (add_entry reads the clock before the insert gets its id).               *)
THEOREM QueueIsFair == Spec => []FirstComeFirstServed
<1>1. SInv => FirstComeFirstServed
  BY DEF SInv, Told, FirstComeFirstServed
<1>2. QED
  BY <1>1, StoryInvariance, PTL

(* No answer is given before the parties its request found overdue are done  *)
(* with (sweep_no_shows before every operation).                            *)
THEOREM SweptBeforeAnswer == Spec => AnswersAreSwept
<1> DEFINE Answer == \A p \in Process : Commit(p) =>
                       \A i \in req[p].found : db'.entry[i].status # "NOTIFIED"
<1>1. ASSUME IInv, SInv, NEW p \in Process, Commit(p), NEW i \in req[p].found
      PROVE  db'.entry[i].status # "NOTIFIED"
  <2>1. req[p].step \in {"commit", "work"} /\ db' = Seen(p)
    BY <1>1 DEF Commit, End, Asks
  <2>2. Sweeping(p, req[p], writer, draft)
    BY <1>1 DEF SInv
  <2>3. writer = p /\ draft.entry[i].status \in Final
    BY <2>1, <2>2 DEF Sweeping
  <2>4. QED
    BY <2>1, <2>3 DEF Seen, Final
<1>2. IInv /\ SInv /\ [Next]_vars => [Answer]_vars
  BY <1>1
<1>3. Spec => [][Answer]_vars
  BY <1>2, Invariance, StoryInvariance, PTL DEF Spec
<1>4. QED
  BY <1>3 DEF AnswersAreSwept

(* An edit commits its own columns and undoes nobody's (update_settings      *)
(* writes the columns that changed).                                        *)
THEOREM EditsStayApart == Spec => EditsDoNotCollide
<1> DEFINE Apart == \A p \in Process : Commit(p) =>
                      \A f \in DOMAIN db.restaurant :
                        db'.restaurant[f] # db.restaurant[f] =>
                          req[p].call.kind = "edit" /\ f \in DOMAIN req[p].call.fields
<1>1. ASSUME IInv, SInv, NEW p \in Process, Commit(p), NEW f \in DOMAIN db.restaurant,
             db'.restaurant[f] # db.restaurant[f]
      PROVE  req[p].call.kind = "edit" /\ f \in DOMAIN req[p].call.fields
  BY <1>1, SeenTold DEF Commit, End, Edited
<1>2. IInv /\ SInv /\ [Next]_vars => [Apart]_vars
  BY <1>1
<1>3. Spec => [][Apart]_vars
  BY <1>2, Invariance, StoryInvariance, PTL DEF Spec
<1>4. QED
  BY <1>3 DEF EditsDoNotCollide

-----------------------------------------------------------------------------
(* The order of the queue.                                                 *)

(* joined_at, and the id for those who joined at one time: any two parties  *)
(* are in order.                                                            *)
LEMMA QueueOrder ==
  ASSUME NEW d \in Database
  PROVE  /\ DOMAIN d.entry = 1..Len(d.entry) /\ Len(d.entry) \in Nat
         /\ \A i \in DOMAIN d.entry : Ahead(d, i, i)
         /\ \A i, j \in DOMAIN d.entry : Ahead(d, i, j) \/ Ahead(d, j, i)
         /\ \A i, j \in DOMAIN d.entry : Ahead(d, i, j) /\ Ahead(d, j, i) => i = j
         /\ \A i, j, k \in DOMAIN d.entry :
              Ahead(d, i, j) /\ Ahead(d, j, k) => Ahead(d, i, k)
<1>1. d.entry \in Seq(Entry)
  BY DEF Database
<1>2. DOMAIN d.entry = 1..Len(d.entry) /\ Len(d.entry) \in Nat
  BY <1>1, LenProperties
<1>3. \A i \in DOMAIN d.entry : i \in Nat /\ d.entry[i].joined_at \in Nat
  <2>1. SUFFICES ASSUME NEW i \in DOMAIN d.entry
                 PROVE  i \in Nat /\ d.entry[i].joined_at \in Nat
    OBVIOUS
  <2>2. d.entry[i] \in Entry
    BY <1>1, <1>2, ElementOfSeq
  <2>3. QED
    BY <1>2, <2>2 DEF Entry
<1>4. \A i \in DOMAIN d.entry : Ahead(d, i, i)
  BY <1>3 DEF Ahead
<1>5. \A i, j \in DOMAIN d.entry :
        /\ Ahead(d, i, j) \/ Ahead(d, j, i)
        /\ Ahead(d, i, j) /\ Ahead(d, j, i) => i = j
  BY <1>3 DEF Ahead
<1>6. \A i, j, k \in DOMAIN d.entry : Ahead(d, i, j) /\ Ahead(d, j, k) => Ahead(d, i, k)
  BY <1>3 DEF Ahead
<1>7. QED
  BY <1>2, <1>4, <1>5, <1>6

(* The counts of `position` are the places of an ordered queue.             *)
LEMMA PositionsInOrder ==
  ASSUME NEW d \in Database
  PROVE  /\ IsFiniteSet(Waiting(d)) /\ Cardinality(Waiting(d)) \in Nat
         /\ \A i \in Waiting(d) : Position(d, i) \in 1..Cardinality(Waiting(d))
         /\ \A i, j \in Waiting(d) :
              i # j /\ Ahead(d, i, j) => Position(d, i) < Position(d, j)
<1> DEFINE W == Waiting(d)
           Before(i) == {j \in W : Ahead(d, j, i)}
<1>1. W \subseteq DOMAIN d.entry
  BY DEF Waiting
<1>2. IsFiniteSet(W)
  <2>1. IsFiniteSet(1..Len(d.entry))
    BY QueueOrder, FS_Interval
  <2>2. QED
    BY <1>1, <2>1, QueueOrder, FS_Subset
<1>3. Cardinality(W) \in Nat
  BY <1>2, FS_CardinalityType
<1>4. ASSUME NEW i \in W
      PROVE  IsFiniteSet(Before(i)) /\ Cardinality(Before(i)) \in 1..Cardinality(W)
  <2>1. Before(i) \in SUBSET W /\ i \in Before(i)
    BY <1>1, QueueOrder
  <2>2. IsFiniteSet(Before(i)) /\ Cardinality(Before(i)) <= Cardinality(W)
    BY <1>2, <2>1, FS_Subset
  <2>3. Cardinality(Before(i)) # 0 /\ Cardinality(Before(i)) \in Nat
    BY <2>1, <2>2, FS_EmptySet, FS_CardinalityType
  <2>4. QED
    BY <1>3, <2>2, <2>3
<1>5. ASSUME NEW i \in W, NEW j \in W, i # j, Ahead(d, i, j)
      PROVE  Cardinality(Before(i)) < Cardinality(Before(j))
  <2>1. Before(i) \in SUBSET Before(j)
    BY <1>1, <1>5, QueueOrder
  <2>2. j \in Before(j) /\ j \notin Before(i)
    BY <1>1, <1>5, QueueOrder
  <2>3. Cardinality(Before(i)) <= Cardinality(Before(j))
        /\ Cardinality(Before(i)) # Cardinality(Before(j))
    BY <1>4, <2>1, <2>2, FS_Subset
  <2>4. QED
    BY <1>4, <2>3
<1>6. QED
  BY <1>2, <1>3, <1>4, <1>5 DEF Position

Ordered(d, queue) ==
  \A k, m \in 1..Cardinality(Waiting(d)) :
    k < m => queue[k] # queue[m] /\ Ahead(d, queue[k], queue[m])

LEMMA QueueThereIs ==
  ASSUME NEW d \in Database
  PROVE  \E queue \in [1..Cardinality(Waiting(d)) -> Waiting(d)] : Ordered(d, queue)
<1> DEFINE W == Waiting(d)
           n == Cardinality(W)
           place == [i \in W |-> Position(d, i)]
           queue == [k \in 1..n |-> CHOOSE i \in W : place[i] = k]
<1>1. /\ IsFiniteSet(W) /\ n \in Nat
      /\ \A i \in W : place[i] \in 1..n
      /\ \A i, j \in W : i # j /\ Ahead(d, i, j) => place[i] < place[j]
  BY PositionsInOrder
<1>2. W \subseteq DOMAIN d.entry
  BY DEF Waiting
<1>3. \A i, j \in W : i # j => place[i] # place[j]
  BY <1>1, <1>2, QueueOrder
<1>4. IsFiniteSet(1..n) /\ Cardinality(1..n) = n
  BY <1>1, FS_Interval
<1>5. place \in Injection(W, 1..n)
  BY <1>1, <1>3 DEF Injection, IsInjective
<1>6. place \in Surjection(W, 1..n)
  BY <1>1, <1>4, <1>5, FS_Injection
<1>7. \A k \in 1..n : \E i \in W : place[i] = k
  BY <1>6 DEF Surjection
<1> HIDE DEF place, W, n
<1>8. \A k \in 1..n : queue[k] \in W /\ place[queue[k]] = k
  BY <1>7
<1>9. queue \in [1..n -> W]
  BY <1>8
<1> HIDE DEF queue
<1>10. ASSUME NEW k \in 1..n, NEW m \in 1..n, k < m
      PROVE  queue[k] # queue[m] /\ Ahead(d, queue[k], queue[m])
  <2>1. queue[k] \in W /\ queue[m] \in W /\ place[queue[k]] < place[queue[m]]
    BY <1>8, <1>10
  <2>2. Ahead(d, queue[k], queue[m]) \/ Ahead(d, queue[m], queue[k])
    BY <1>2, <2>1, QueueOrder
  <2>3. queue[k] # queue[m]
    BY <1>8, <1>10
  <2>4. QED
    BY <1>1, <2>1, <2>2, <2>3
<1>11. Ordered(d, queue)
  BY <1>10 DEF Ordered, n, W
<1>12. QED
  BY <1>9, <1>11 DEF n, W

LEMMA QueueIsOrdered ==
  ASSUME NEW d \in Database
  PROVE  /\ ActiveQueue(d) \in [1..Cardinality(Waiting(d)) -> Waiting(d)]
         /\ Ordered(d, ActiveQueue(d))
BY QueueThereIs DEF ActiveQueue, Ordered

(* In an ordered queue of all who wait, the k-th has k - 1 others ahead.    *)
LEMMA CountedPlace ==
  ASSUME NEW d \in Database, NEW k \in DOMAIN ActiveQueue(d)
  PROVE  Position(d, ActiveQueue(d)[k]) = k
<1> DEFINE W == Waiting(d)
           n == Cardinality(W)
           queue == ActiveQueue(d)
           Before == {j \in W : Ahead(d, j, queue[k])}
           front == [m \in 1..k |-> queue[m]]
<1>1. queue \in [1..n -> W] /\ IsFiniteSet(W) /\ n \in Nat
  BY QueueIsOrdered, PositionsInOrder
<1>2. \A l, m \in 1..n : l < m => queue[l] # queue[m] /\ Ahead(d, queue[l], queue[m])
  BY QueueIsOrdered DEF Ordered
<1>3. k \in 1..n /\ 1..k \subseteq 1..n
  BY <1>1
<1>4. W \subseteq DOMAIN d.entry
  BY DEF Waiting
<1> HIDE DEF queue, W, n
<1>5. \A l, m \in 1..n : queue[l] = queue[m] => l = m
  BY <1>1, <1>2
<1>6. \A j \in W : \E m \in 1..n : queue[m] = j
  <2>1. queue \in Injection(1..n, W)
    BY <1>1, <1>5 DEF Injection, IsInjective
  <2>2. IsFiniteSet(1..n) /\ Cardinality(1..n) = n
    BY <1>1, FS_Interval
  <2>3. queue \in Surjection(1..n, W)
    BY <1>1, <2>1, <2>2, FS_Injection DEF n
  <2>4. QED
    BY <2>3 DEF Surjection
<1>7. \A m \in 1..n : Ahead(d, queue[m], queue[k]) <=> m <= k
  <2>1. SUFFICES ASSUME NEW m \in 1..n
                 PROVE  Ahead(d, queue[m], queue[k]) <=> m <= k
    OBVIOUS
  <2>2. queue[m] \in DOMAIN d.entry /\ queue[k] \in DOMAIN d.entry
    BY <1>1, <1>3, <1>4
  <2>3. CASE m < k
    BY <1>2, <1>3, <2>3
  <2>4. CASE m = k
    BY <1>3, <2>2, <2>4, QueueOrder
  <2>5. CASE k < m
    <3>1. Ahead(d, queue[k], queue[m]) /\ queue[k] # queue[m]
      BY <1>2, <1>3, <2>5
    <3>2. ~Ahead(d, queue[m], queue[k])
      BY <2>2, <3>1, QueueOrder
    <3>3. QED
      BY <1>3, <2>5, <3>2
  <2>6. QED
    BY <1>3, <2>3, <2>4, <2>5
<1>8. \A j \in Before : \E m \in 1..k : front[m] = j
  BY <1>3, <1>6, <1>7
<1>9. \A m \in 1..k : front[m] \in Before
  BY <1>1, <1>3, <1>7
<1>10. front \in Bijection(1..k, Before)
  BY <1>3, <1>5, <1>8, <1>9 DEF Bijection, Injection, Surjection, IsInjective
<1>11. Cardinality(Before) = k
  BY <1>3, <1>10, FS_CountingElements DEF ExistsBijection
<1>12. QED
  BY <1>11 DEF Position, W, queue

(* The guest is told the row in which the staff see the party, for any       *)
(* number of parties and however many joined at one time (position and       *)
(* active_queue).                                                           *)
THEOREM GuestAndStaffAgree == Spec => []PositionsAgree
<1>1. IInv => db \in Database
  BY DEF IInv, TypeOK
<1>2. db \in Database => PositionsAgree
  BY CountedPlace DEF PositionsAgree
<1>3. QED
  BY <1>1, <1>2, Invariance, PTL
=============================================================================
