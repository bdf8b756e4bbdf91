------------------------------ MODULE Waitlist ------------------------------
(***************************************************************************)
(* The waitlist of one WaitWise restaurant (module2/backend/app/store.py   *)
(* and rules.py) under concurrent requests on SQLite.                      *)
(*                                                                         *)
(* One request is one transaction of several statements.  A SELECT before  *)
(* its first write sees whatever is committed at that moment; the first    *)
(* UPDATE or INSERT takes the database's only write lock, kept to the end. *)
(* A request that ends in an error is rolled back as a whole, its sweep of *)
(* overdue parties included.                                               *)
(*                                                                         *)
(* An entry's id is its place in `entry`: ids are given out under the lock *)
(* and rows are never deleted.  Names, phones, quotes and logins are left  *)
(* out, and requests refused before they touch the waitlist.               *)
(***************************************************************************)
EXTENDS Integers, Sequences, FiniteSets

CONSTANTS
  Process,      \* requests handled at a time
  Wanted,       \* what callers ask for
  Minutes,      \* the no_show_minutes a restaurant may be given
  NULL,
  Horizon,      \* bound: the clock stops here
  MaxEntries    \* bound: parties that join

Active == {"WAITING", "NOTIFIED"}
Final == {"SEATED", "CANCELED", "NO_SHOW"}
WaitlistStatus == Active \cup Final
Stamped == {"NOTIFIED"} \cup Final

(* The request bodies: which fields a restaurant's staff, the administrator's *)
(* switch and his form set, a place in the queue, a party's next status.     *)
(* Settings that only change the quoted wait are not requests here.          *)
RestaurantSettingsRequest == [online_waitlist_enabled: BOOLEAN]
RestaurantStatusRequest == [is_active: BOOLEAN]
RestaurantRequest == [is_active: BOOLEAN, no_show_minutes: Minutes]
JoinWaitlistRequest == [kind: {"join"}, source: {"ONLINE", "STAFF"}]
UpdateWaitlistEntryRequest == [kind: {"change"}, status: Stamped]

Edits == RestaurantSettingsRequest \cup RestaurantStatusRequest \cup RestaurantRequest
Calls == [kind: {"read"}] \cup JoinWaitlistRequest \cup UpdateWaitlistEntryRequest
           \cup [kind: {"edit"}, fields: Edits]

ASSUME WaitlistAssumption ==
  /\ Wanted \subseteq Calls
  /\ Minutes \subseteq Nat \ {0}          \* ck_restaurants_no_show
  /\ Minutes # {}
  /\ Horizon \in Nat /\ MaxEntries \in Nat
  /\ NULL \notin Nat \cup Process

VARIABLES
  now,        \* the clock
  db,         \* what is committed: the restaurant's row and the entries
  writer,     \* the request that has the write lock
  draft,      \* the database as the writer sees it
  req,        \* what each request is doing
  granted     \* history: for each entry, the changes answered 200, in order

vars == <<now, db, writer, draft, req, granted>>

(* `after`, a history, holds the entries that were committed before this    *)
(* one's joined_at was read.                                                *)
Entry == [status: WaitlistStatus, joined_at: Nat, at: [Stamped -> Nat \cup {NULL}],
          after: SUBSET Nat]
Restaurant == [is_active: BOOLEAN, online_waitlist_enabled: BOOLEAN, no_show_minutes: Minutes]
Database == [restaurant: Restaurant, entry: Seq(Entry)]

(* What is done next, for whom; the overdue parties it found, those left to *)
(* sweep; what it has read of the party or the restaurant, and the clock.   *)
Request == [step: {"idle", "sweep", "work", "write", "commit"}, call: Wanted \cup {NULL},
            id: Nat, found: SUBSET Nat, todo: SUBSET [id: Nat, deadline: Nat],
            read: WaitlistStatus \cup {NULL}, loaded: Restaurant \cup {NULL}, now: Nat,
            after: SUBSET Nat]

CanTransition(current, target) ==
  \/ current = "WAITING" /\ target \in {"NOTIFIED"} \cup Final
  \/ current = "NOTIFIED" /\ target \in Final

Idle == [step |-> "idle", call |-> NULL, id |-> 0, found |-> {}, todo |-> {},
         read |-> NULL, loaded |-> NULL, now |-> 0, after |-> {}]

Init ==
  /\ now = 0
  /\ \E m \in Minutes :
       db = [restaurant |-> [is_active |-> TRUE, online_waitlist_enabled |-> TRUE,
                             no_show_minutes |-> m],
             entry |-> <<>>]
  /\ writer = NULL
  /\ draft = db
  /\ req = [p \in Process |-> Idle]
  /\ granted = <<>>

-----------------------------------------------------------------------------
(* Transactions.                                                           *)

(* What p reads: its own writes, or what is committed.                     *)
Seen(p) == IF writer = p THEN draft ELSE db

(* A write statement of p, which leaves d, and what p does next.           *)
Write(p, d, next) ==
  /\ writer \in {p, NULL}
  /\ writer' = p
  /\ draft' = d
  /\ req' = [req EXCEPT ![p] = next]
  /\ UNCHANGED <<now, db, granted>>

(* Only the commit is left to do.                                          *)
Done(p) == [req[p] EXCEPT !.step = "commit", !.read = NULL, !.loaded = NULL, !.now = 0,
                          !.after = {}]

Go(p, next) ==
  /\ req' = [req EXCEPT ![p] = next]
  /\ UNCHANGED <<now, db, writer, draft, granted>>

(* The end of p's transaction; d is what stays committed.                  *)
End(p, d) ==
  /\ db' = d
  /\ writer' = IF writer = p THEN NULL ELSE writer
  /\ draft' = IF writer = p THEN d ELSE draft
  /\ req' = [req EXCEPT ![p] = Idle]
  /\ UNCHANGED now

-----------------------------------------------------------------------------
(* sweep_no_shows, the first thing every request does.                      *)

Deadline(e, minutes) == e.at["NOTIFIED"] + minutes

Overdue(d, time) ==
  {i \in DOMAIN d.entry :
     /\ d.entry[i].status = "NOTIFIED"
     /\ time >= Deadline(d.entry[i], d.restaurant.no_show_minutes)}

(* A request arrives and looks for overdue parties.                        *)
Begin(p, call, id) ==
  /\ req[p].step = "idle"
  /\ LET late == Overdue(db, now) IN
     Go(p, [Idle EXCEPT !.step = IF late = {} THEN "work" ELSE "sweep",
              !.call = call, !.id = id, !.found = late,
              !.todo = {[id |-> i, deadline |->
                 Deadline(db.entry[i], db.restaurant.no_show_minutes)] : i \in late}])

(* Fault form: no WHERE status = ... on the update.                        *)
UpdateAlways(d, i, expected, status, time) ==
  [d EXCEPT !.entry[i].status = status, !.entry[i].at[status] = time]

(* The conditional UPDATE: nothing happens unless i is still as expected.  *)
UpdateIfStatus(d, i, expected, status, time) ==
  IF d.entry[i].status = expected
  THEN [d EXCEPT !.entry[i].status = status, !.entry[i].at[status] = time]
  ELSE d

(* Fault form: the loop ends with the first party it marks.                *)
SweepFirst(p, o) ==
  /\ req[p].step = "sweep" /\ o \in req[p].todo
  /\ Write(p, UpdateIfStatus(Seen(p), o.id, "NOTIFIED", "NO_SHOW", o.deadline),
           [req[p] EXCEPT !.step = "work", !.todo = {}])

(* Fault form: the deadline is computed again when the row is written.      *)
SweepAnew(p, o) ==
  /\ req[p].step = "sweep" /\ o \in req[p].todo
  /\ Write(p, UpdateIfStatus(Seen(p), o.id, "NOTIFIED", "NO_SHOW",
                Deadline(Seen(p).entry[o.id], Seen(p).restaurant.no_show_minutes)),
           [req[p] EXCEPT !.step = IF req[p].todo = {o} THEN "work" ELSE "sweep",
                          !.todo = @ \ {o}])

SweepOne(p, o) ==
  /\ req[p].step = "sweep" /\ o \in req[p].todo
  /\ Write(p, UpdateIfStatus(Seen(p), o.id, "NOTIFIED", "NO_SHOW", o.deadline),
           [req[p] EXCEPT !.step = IF req[p].todo = {o} THEN "work" ELSE "sweep",
                          !.todo = @ \ {o}])

-----------------------------------------------------------------------------
(* add_entry.                                                              *)

Asks(p, kind, step) == req[p].step = step /\ req[p].call.kind = kind

AcceptsOnline(r) == r.is_active /\ r.online_waitlist_enabled

(* The restaurant is read, then the clock.                                 *)
JoinRead(p) ==
  /\ Asks(p, "join", "work")
  /\ req[p].call.source = "STAFF" \/ AcceptsOnline(Seen(p).restaurant)
  /\ Go(p, [req[p] EXCEPT !.step = "write", !.now = now, !.after = DOMAIN db.entry])

JoinWrite(p) ==
  /\ Asks(p, "join", "write")
  /\ Write(p, [Seen(p) EXCEPT !.entry = Append(@,
                 [status |-> "WAITING", joined_at |-> req[p].now,
                  at |-> [s \in Stamped |-> NULL], after |-> req[p].after])],
           Done(p))

JoinRefused(p) ==
  /\ Asks(p, "join", "work")
  /\ req[p].call.source = "ONLINE" /\ ~AcceptsOnline(Seen(p).restaurant)
  /\ End(p, db)
  /\ UNCHANGED granted

-----------------------------------------------------------------------------
(* change_status: by staff, or by the guest who leaves.                    *)

StatusOf(p) == Seen(p).entry[req[p].id].status

ChangeRead(p) ==
  /\ Asks(p, "change", "work")
  /\ CanTransition(StatusOf(p), req[p].call.status)
  /\ Go(p, [req[p] EXCEPT !.step = "write", !.read = StatusOf(p), !.now = now])

(* Fault form: the row count is not looked at.                             *)
ChangeWriteUnchecked(p) ==
  /\ Asks(p, "change", "write")
  /\ Write(p, UpdateIfStatus(Seen(p), req[p].id, req[p].read, req[p].call.status, req[p].now),
           Done(p))

(* Fault form: the row is not refreshed when the update missed it.         *)
ChangeWriteAgain(p) ==
  /\ Asks(p, "change", "write")
  /\ Write(p, UpdateIfStatus(Seen(p), req[p].id, req[p].read, req[p].call.status, req[p].now),
           IF StatusOf(p) = req[p].read THEN Done(p) ELSE req[p])

(* An update that missed decides again from the status there is now.       *)
ChangeWrite(p) ==
  /\ Asks(p, "change", "write")
  /\ Write(p, UpdateIfStatus(Seen(p), req[p].id, req[p].read, req[p].call.status, req[p].now),
           IF StatusOf(p) = req[p].read THEN Done(p) ELSE [req[p] EXCEPT !.step = "work"])

(* 409 for a finished party, 422 for NOTIFIED once more.                   *)
ChangeRefused(p) ==
  /\ Asks(p, "change", "work")
  /\ ~CanTransition(StatusOf(p), req[p].call.status)
  /\ End(p, db)
  /\ UNCHANGED granted

-----------------------------------------------------------------------------
(* update_settings, set_restaurant_active, update_restaurant: the row is   *)
(* loaded, and the columns whose value differs from it are updated.        *)

EditRead(p) ==
  /\ Asks(p, "edit", "work")
  /\ Go(p, [req[p] EXCEPT !.step = "write", !.loaded = Seen(p).restaurant])

(* Fault form: every column is written as it was loaded.                   *)
EditWriteWholeRow(p) ==
  /\ Asks(p, "edit", "write")
  /\ LET fields == req[p].call.fields IN
     Write(p, [Seen(p) EXCEPT !.restaurant =
                 [f \in DOMAIN req[p].loaded |->
                    IF f \in DOMAIN fields THEN fields[f] ELSE req[p].loaded[f]]],
           Done(p))

EditWrite(p) ==
  /\ Asks(p, "edit", "write")
  /\ LET fields == req[p].call.fields
         row == Seen(p).restaurant IN
     Write(p, [Seen(p) EXCEPT !.restaurant =
                 [f \in DOMAIN row |->
                    IF f \in DOMAIN fields /\ fields[f] # req[p].loaded[f]
                    THEN fields[f] ELSE row[f]]],
           Done(p))

-----------------------------------------------------------------------------
(* The changes to entry i that were answered 200, p's own included.         *)
Granted(p, i) ==
  LET before == IF i \in DOMAIN granted THEN granted[i] ELSE <<>> IN
  IF req[p].call.kind = "change" /\ req[p].id = i
  THEN Append(before, req[p].call.status) ELSE before

Commit(p) ==
  /\ req[p].step = "commit" \/ Asks(p, "read", "work")
  /\ granted' = [i \in DOMAIN Seen(p).entry |-> Granted(p, i)]
  /\ End(p, Seen(p))

(* "database is locked": the busy timeout runs out.                        *)
Busy(p) ==
  /\ req[p].step \in {"sweep", "write"}
  /\ writer \notin {p, NULL}
  /\ End(p, db)
  /\ UNCHANGED granted

(* The server, or its connection, is gone.                                 *)
Crash(p) ==
  /\ req[p].step # "idle"
  /\ End(p, db)
  /\ UNCHANGED granted

Tick ==
  /\ now < Horizon
  /\ now' = now + 1
  /\ UNCHANGED <<db, writer, draft, req, granted>>

Joining == {p \in Process : req[p].step # "idle" /\ req[p].call.kind = "join"}

(* The parties a request may be about; joins are bounded.                  *)
Subjects(call) ==
  CASE call.kind = "change" -> DOMAIN db.entry
    [] call.kind = "join" -> IF Len(db.entry) + Cardinality(Joining) < MaxEntries
                             THEN {0} ELSE {}
    [] OTHER -> {0}

Step(p) ==
  \/ \E o \in req[p].todo : SweepOne(p, o)
  \/ JoinRead(p)
  \/ JoinWrite(p)
  \/ JoinRefused(p)
  \/ ChangeRead(p)
  \/ ChangeWrite(p)
  \/ ChangeRefused(p)
  \/ EditRead(p)
  \/ EditWrite(p)
  \/ Commit(p)

Next ==
  \/ \E p \in Process :
       \/ \E call \in Wanted : \E id \in Subjects(call) : Begin(p, call, id)
       \/ Step(p)
       \/ Busy(p)
       \/ Crash(p)
  \/ Tick

Spec == Init /\ [][Next]_vars

(* A request thread keeps running, or gives the lock up after the timeout. *)
FairSpec == Spec /\ \A p \in Process : WF_vars(Step(p) \/ Busy(p))

-----------------------------------------------------------------------------
(* The order of the queue, as the code computes it in two places.          *)

(* Fault form: of two parties that joined at the same time the later id    *)
(* goes first.                                                             *)
AheadByLaterId(d, i, j) ==
  \/ d.entry[i].joined_at < d.entry[j].joined_at
  \/ d.entry[i].joined_at = d.entry[j].joined_at /\ i >= j

Ahead(d, i, j) ==
  \/ d.entry[i].joined_at < d.entry[j].joined_at
  \/ d.entry[i].joined_at = d.entry[j].joined_at /\ i <= j

Waiting(d) == {i \in DOMAIN d.entry : d.entry[i].status \in Active}

(* What the guest is told: the count of `position`.                        *)
Position(d, i) == Cardinality({j \in Waiting(d) : Ahead(d, j, i)})

(* The rows of the dashboard: the ORDER BY of `active_queue`.              *)
ActiveQueue(d) ==
  LET n == Cardinality(Waiting(d)) IN
  CHOOSE queue \in [1..n -> Waiting(d)] :
    \A k, m \in 1..n : k < m => queue[k] # queue[m] /\ Ahead(d, queue[k], queue[m])

-----------------------------------------------------------------------------
(* Properties.                                                             *)

(* The rows, the requests and the lock are what they should be.            *)
TypeOK ==
  /\ now \in Nat
  /\ {db, draft} \subseteq Database
  /\ writer \in Process \cup {NULL}
  /\ req \in [Process -> Request]
  /\ granted \in Seq(Seq(Stamped)) /\ Len(granted) = Len(db.entry)

(* However two tablets, the guest and the sweep collide over a party, the   *)
(* changes that were answered 200 are a legal history of it, and it is      *)
(* where the last one put it - or a no-show, once it had been notified.     *)
OneWinner ==
  \A i \in DOMAIN db.entry :
    LET steps == <<"WAITING">> \o granted[i]
        last == steps[Len(steps)] IN
    /\ \A k \in 1..(Len(steps) - 1) : CanTransition(steps[k], steps[k + 1])
    /\ \/ db.entry[i].status = last
       \/ last = "NOTIFIED" /\ db.entry[i].status = "NO_SHOW"

(* The timestamps tell the same story as the status: one final stamp for a  *)
(* final status and none before, in the order joined, notified, finished,   *)
(* none in the future - so nobody is a no-show before the deadline passed.  *)
StampsTellTheStory ==
  \A i \in DOMAIN db.entry :
    LET e == db.entry[i]
        stamped == {s \in Stamped : e.at[s] # NULL} IN
    /\ stamped \cap Final = {e.status} \cap Final
    /\ e.status = "NOTIFIED" => "NOTIFIED" \in stamped
    /\ e.status = "WAITING" => stamped = {}
    /\ \A s \in stamped : e.joined_at <= e.at[s] /\ e.at[s] <= now
    /\ \A s \in stamped \cap Final : "NOTIFIED" \in stamped => e.at["NOTIFIED"] <= e.at[s]

(* Who asks for a place after somebody else's is confirmed stands behind    *)
(* him, whatever order the inserts come in and however coarse the clock.    *)
FirstComeFirstServed ==
  \A i \in DOMAIN db.entry : \A j \in db.entry[i].after : Ahead(db, j, i)

(* Guest page and dashboard count alike: the position the guest is told is  *)
(* the row the staff see the party in.                                      *)
PositionsAgree ==
  \A k \in DOMAIN ActiveQueue(db) : Position(db, ActiveQueue(db)[k]) = k

(* A finished party stays as it is: no stale request or sweep ever writes   *)
(* over it ("a stale request can never overwrite a newer status",           *)
(* store.py:9-12).                                                          *)
FinishedIsFinal ==
  [][\A i \in DOMAIN db.entry :
       db.entry[i].status \in Final => i \in DOMAIN db'.entry /\ db'.entry[i] = db.entry[i]]_vars

(* Requests that interleave, collide, are rolled back and swept together     *)
(* do to the parties, as committed, only what the contract allows.          *)
Contract == INSTANCE WaitlistContract WITH party <- [i \in DOMAIN db.entry |-> db.entry[i].status]
ImplementsContract == Contract!Spec

(* Whoever gets an answer sees no party still NOTIFIED that was overdue     *)
(* when its request looked (specification, section 14).                     *)
AnswersAreSwept ==
  [][\A p \in Process : Commit(p) =>
       \A i \in req[p].found : db'.entry[i].status # "NOTIFIED"]_vars

(* A request that is begun is answered: deciding again after a lost race    *)
(* ends ("statuses only move forward, so this recursion is bounded",        *)
(* store.py:310-311), and so does waiting for the lock.                     *)
RequestsEnd == \A p \in Process : req[p].step # "idle" ~> req[p].step = "idle"

(* An edit changes its own fields: what another request set in between,     *)
(* such as pausing the online waitlist, is not undone.                      *)
EditsDoNotCollide ==
  [][\A p \in Process : Commit(p) =>
       \A f \in DOMAIN db.restaurant :
         db'.restaurant[f] # db.restaurant[f] =>
           req[p].call.kind = "edit" /\ f \in DOMAIN req[p].call.fields]_vars
=============================================================================
