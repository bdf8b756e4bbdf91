------------------------------ MODULE MockTabs ------------------------------
(***************************************************************************)
(* WaitWise's in-browser backend (module2/frontend:                        *)
(* services/mock/mockService.ts over mockDb.ts and domain/waitlist.ts),     *)
(* used by several tabs.  The whole database is one item of localStorage:   *)
(* a call reads it, sweeps overdue parties, changes its copy and writes     *)
(* all of it back.  A call runs without a pause, so tabs of one thread take *)
(* turns; those of different browser processes may come between its         *)
(* getItem and setItem.                                                    *)
(*                                                                         *)
(* Ids are places in the lists: nothing is deleted, and nextId is the       *)
(* largest id plus one.  Input is valid; names, quotes, passwords, the      *)
(* times other than notified_at and the order of lists are left out.        *)
(***************************************************************************)
EXTENDS Naturals, Sequences, Functions

CONSTANTS
  Tab,
  Seed,            \* what initialDb makes when nothing is stored
  Wanted,          \* the calls made
  NULL,
  Horizon,         \* bound: the clock stops here
  MaxCalls,        \* bound: calls made
  MaxTokens,       \* bound: parties that join
  MaxRestaurants   \* bound: restaurants created

Active == {"WAITING", "NOTIFIED"}
Final == {"SEATED", "CANCELED", "NO_SHOW"}

(* A user without a restaurant is an administrator.                         *)
UserRecord == [username: STRING, restaurant: Nat]
RestaurantRecord == [is_active: BOOLEAN, online: BOOLEAN, no_show_minutes: Nat]
EntryRecord == [restaurant: Nat, token: Nat, status: Active \cup Final,
                notified_at: Nat \cup {NULL}]
MockDb == [user: Seq(UserRecord), restaurant: Seq(RestaurantRecord), entry: Seq(EntryRecord)]

(* The calls that do more than read; `as` is the user whose token is sent.   *)
Call ==
  [kind: {"read"}]
    \cup [kind: {"join"}, restaurant: Nat] \cup [kind: {"walk-in"}, as: Nat]
    \cup [kind: {"cancel"}, token: Nat]
    \cup [kind: {"status"}, as: Nat, id: Nat, status: Active \cup Final]
    \cup [kind: {"settings"}, as: Nat, online: BOOLEAN]
    \cup [kind: {"create"}, as: Nat, username: STRING, no_show_minutes: Nat, is_active: BOOLEAN]
    \cup [kind: {"update"}, as: Nat, restaurant: Nat, username: STRING, no_show_minutes: Nat,
          is_active: BOOLEAN]
    \cup [kind: {"activate"}, as: Nat, restaurant: Nat, is_active: BOOLEAN]

(* One login for each restaurant and no two of one name; nobody waits where  *)
(* there is no restaurant, no token is given twice.                         *)
Fits(db) ==
  LET logins == {u \in DOMAIN db.user : db.user[u].restaurant # 0}
      restaurant == [u \in logins |-> db.user[u].restaurant] IN
  /\ IsInjective([u \in DOMAIN db.user |-> db.user[u].username])
  /\ IsInjective(restaurant) /\ Range(restaurant) = DOMAIN db.restaurant
  /\ IsInjective([i \in DOMAIN db.entry |-> db.entry[i].token])
  /\ \A i \in DOMAIN db.entry : db.entry[i].restaurant \in DOMAIN db.restaurant

(* The seed's own tokens are the first.                                     *)
ASSUME MockAssumption ==
  /\ Seed \in MockDb /\ Fits(Seed)
  /\ \A i \in DOMAIN Seed.entry : Seed.entry[i].token <= Len(Seed.entry)
  /\ Wanted \subseteq Call
  /\ {Horizon, MaxCalls, MaxTokens, MaxRestaurants} \subseteq Nat
  /\ NULL \notin Nat /\ NULL \notin MockDb

VARIABLES
  oneThread,   \* whether the tabs share a thread
  now,         \* the clock
  store,       \* the item in localStorage
  tab,         \* the call each tab is in, its step and its copy
  tokens,      \* how many public tokens have been generated
  calls        \* how many calls have been made

vars == <<oneThread, now, store, tab, tokens, calls>>

Idle == [step |-> "idle", call |-> NULL, copy |-> NULL]

Init ==
  /\ oneThread \in BOOLEAN
  /\ now = 0
  /\ store = NULL
  /\ tab = [t \in Tab |-> Idle]
  /\ tokens = Len(Seed.entry)
  /\ calls = 0

Go(t, next) ==
  /\ tab' = [tab EXCEPT ![t] = next]
  /\ UNCHANGED <<oneThread, now>>

-----------------------------------------------------------------------------
(* loadDb.                                                                 *)

Overdue(db, entry) ==
  /\ entry.status = "NOTIFIED"
  /\ now >= entry.notified_at + db.restaurant[entry.restaurant].no_show_minutes

Swept(db) ==
  [db EXCEPT !.entry = [i \in DOMAIN @ |->
     IF Overdue(db, @[i]) THEN [@[i] EXCEPT !.status = "NO_SHOW"] ELSE @[i]]]

(* Fault form: the call awaits something between reading and writing.       *)
LoadDbAwaiting(t, call) ==
  /\ tab[t].step = "idle"
  /\ LET db == IF store = NULL THEN Seed ELSE store IN
     Go(t, [step |-> IF Swept(db) = store THEN "work" ELSE "swept",
            call |-> call, copy |-> Swept(db)])
  /\ calls < MaxCalls
  /\ calls' = calls + 1
  /\ UNCHANGED <<store, tokens>>

(* The item is read, or seeded; what the sweep changed is written at once.  *)
LoadDb(t, call) ==
  /\ tab[t].step = "idle"
  /\ oneThread => \A u \in Tab : tab[u].step = "idle"
  /\ LET db == IF store = NULL THEN Seed ELSE store IN
     Go(t, [step |-> IF Swept(db) = store THEN "work" ELSE "swept",
            call |-> call, copy |-> Swept(db)])
  /\ calls < MaxCalls
  /\ calls' = calls + 1
  /\ UNCHANGED <<store, tokens>>

WriteSwept(t) ==
  /\ tab[t].step = "swept"
  /\ store' = tab[t].copy
  /\ Go(t, [tab[t] EXCEPT !.step = "work"])
  /\ UNCHANGED <<tokens, calls>>

-----------------------------------------------------------------------------
(* What the calls do to their copy.                                         *)

Copy(t) == tab[t].copy
Asks(t, kind) == tab[t].step = "work" /\ tab[t].call.kind = kind

(* The rest of the call is to write db back.                                *)
Change(t, db) ==
  /\ Go(t, [step |-> "save", call |-> NULL, copy |-> db])
  /\ UNCHANGED <<store, calls>>

IsUser(t) == tab[t].call.as \in DOMAIN Copy(t).user
IsAdmin(t) == IsUser(t) /\ Copy(t).user[tab[t].call.as].restaurant = 0
IsStaff(t) == IsUser(t) /\ Copy(t).user[tab[t].call.as].restaurant # 0
StaffRestaurant(t) == Copy(t).user[tab[t].call.as].restaurant

CreateEntry(t, restaurant) ==
  /\ tokens < MaxTokens
  /\ tokens' = tokens + 1
  /\ Change(t, [Copy(t) EXCEPT !.entry = Append(@,
       [restaurant |-> restaurant, token |-> tokens + 1, status |-> "WAITING",
        notified_at |-> NULL])])

JoinWaitlist(t) ==
  LET r == tab[t].call.restaurant IN
  /\ Asks(t, "join")
  /\ r \in DOMAIN Copy(t).restaurant
  /\ Copy(t).restaurant[r].is_active /\ Copy(t).restaurant[r].online
  /\ CreateEntry(t, r)

AddWalkIn(t) ==
  /\ Asks(t, "walk-in") /\ IsStaff(t)
  /\ CreateEntry(t, StaffRestaurant(t))

CanTransition(current, target) ==
  \/ current = "WAITING" /\ target \in {"NOTIFIED"} \cup Final
  \/ current = "NOTIFIED" /\ target \in Final

(* A finished party, or an impossible move, is refused.                     *)
ApplyStatus(t, i, status) ==
  LET entry == Copy(t).entry[i] IN
  /\ CanTransition(entry.status, status)
  /\ Change(t, [Copy(t) EXCEPT !.entry[i].status = status,
       !.entry[i].notified_at = IF status = "NOTIFIED" THEN now ELSE @])
  /\ UNCHANGED tokens

CancelWaitlistEntry(t) ==
  /\ Asks(t, "cancel")
  /\ \E i \in DOMAIN Copy(t).entry :
       /\ Copy(t).entry[i].token = tab[t].call.token
       /\ ApplyStatus(t, i, "CANCELED")

UpdateWaitlistEntry(t) ==
  /\ Asks(t, "status") /\ IsStaff(t)
  /\ \E i \in DOMAIN Copy(t).entry :
       /\ i = tab[t].call.id
       /\ Copy(t).entry[i].restaurant = StaffRestaurant(t)
       /\ ApplyStatus(t, i, tab[t].call.status)

UpdateRestaurantSettings(t) ==
  /\ Asks(t, "settings") /\ IsStaff(t)
  /\ Change(t, [Copy(t) EXCEPT !.restaurant[StaffRestaurant(t)].online = tab[t].call.online])
  /\ UNCHANGED tokens

(* Fault form: a new login is not compared with the others.                 *)
TakenByNobody(db, username, login) == FALSE

Taken(db, username, login) ==
  \E u \in DOMAIN db.user : u # login /\ db.user[u].username = username

CreateRestaurant(t) ==
  LET call == tab[t].call
      db == Copy(t)
      id == Len(db.restaurant) + 1 IN
  /\ Asks(t, "create") /\ IsAdmin(t)
  /\ id <= MaxRestaurants
  /\ ~Taken(db, call.username, 0)
  /\ Change(t, [db EXCEPT
       !.restaurant = Append(@, [is_active |-> call.is_active, online |-> TRUE,
                                 no_show_minutes |-> call.no_show_minutes]),
       !.user = Append(@, [username |-> call.username, restaurant |-> id])])
  /\ UNCHANGED tokens

(* The first login of a restaurant, or 0.                                   *)
LoginOf(db, id) ==
  LET login == {u \in DOMAIN db.user : db.user[u].restaurant = id} IN
  IF login = {} THEN 0 ELSE CHOOSE u \in login : \A other \in login : u <= other

(* A restaurant without a login gets one.                                   *)
UpdateRestaurant(t) ==
  LET call == tab[t].call
      id == call.restaurant
      db == [Copy(t) EXCEPT !.restaurant[id].no_show_minutes = call.no_show_minutes,
                            !.restaurant[id].is_active = call.is_active]
      login == LoginOf(db, id) IN
  /\ Asks(t, "update") /\ IsAdmin(t)
  /\ id \in DOMAIN db.restaurant
  /\ ~Taken(db, call.username, login)
  /\ Change(t, [db EXCEPT !.user =
       IF login = 0 THEN Append(@, [username |-> call.username, restaurant |-> id])
       ELSE [@ EXCEPT ![login].username = call.username]])
  /\ UNCHANGED tokens

SetRestaurantStatus(t) ==
  LET call == tab[t].call IN
  /\ Asks(t, "activate") /\ IsAdmin(t)
  /\ call.restaurant \in DOMAIN Copy(t).restaurant
  /\ Change(t, [Copy(t) EXCEPT !.restaurant[call.restaurant].is_active = call.is_active])
  /\ UNCHANGED tokens

Operation(t) ==
  \/ JoinWaitlist(t) \/ AddWalkIn(t)
  \/ CancelWaitlistEntry(t) \/ UpdateWaitlistEntry(t)
  \/ UpdateRestaurantSettings(t)
  \/ CreateRestaurant(t) \/ UpdateRestaurant(t) \/ SetRestaurantStatus(t)

WriteDb(t) ==
  /\ tab[t].step = "save"
  /\ store' = tab[t].copy
  /\ Go(t, Idle)
  /\ UNCHANGED <<tokens, calls>>

(* The call only reads, or it throws, or its tab is closed: what has been    *)
(* written stays, the copy is gone.                                         *)
Ends(t) ==
  /\ tab[t].step # "idle"
  /\ Go(t, Idle)
  /\ UNCHANGED <<store, tokens, calls>>

Tick ==
  /\ now < Horizon
  /\ now' = now + 1
  /\ UNCHANGED <<oneThread, store, tab, tokens, calls>>

Next ==
  \/ \E t \in Tab :
       \/ \E call \in Wanted : LoadDb(t, call)
       \/ WriteSwept(t) \/ Operation(t) \/ WriteDb(t) \/ Ends(t)
  \/ Tick

Spec == Init /\ [][Next]_vars

-----------------------------------------------------------------------------
(* Properties.                                                             *)

Stored == IF store = NULL THEN Seed ELSE store

(* Even when tabs write over each other's whole database, it is the          *)
(* database of some calls in a row: logins, restaurants and parties fit.     *)
AccountsMatch == Fits(Stored)

(* "It enforces the same rules the FastAPI backend will" (mockService.ts:1): *)
(* tabs of one thread keep the contract of the backend's waitlist.  With     *)
(* processes that overlap they do not: a party may be written over.          *)
Contract == INSTANCE WaitlistContract WITH
  party <- IF oneThread THEN [i \in DOMAIN Stored.entry |-> Stored.entry[i].status] ELSE <<>>
ImplementsContract == Contract!Spec
=============================================================================
