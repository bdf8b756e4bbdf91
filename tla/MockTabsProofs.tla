--------------------------- MODULE MockTabsProofs --------------------------
(***************************************************************************)
(* Proofs about MockTabs, for any number of tabs, any seed whose parts fit  *)
(* and any calls: a copy fits whatever has been stored meanwhile, so that   *)
(* writing over somebody's changes still leaves a database that fits; and   *)
(* where tabs take turns a copy is one move ahead of what is stored.        *)
(***************************************************************************)
EXTENDS MockTabs, SequenceTheorems, TLAPS

(* A database whose parts fit, when n tokens have been given.               *)
Known(db, n) ==
  /\ db \in MockDb /\ Fits(db)
  /\ \A i \in DOMAIN db.entry : db.entry[i].token <= n

TabOK(s, n) ==
  /\ s \in [step: {"idle", "swept", "work", "save"}, call: Call \cup {NULL},
            copy: MockDb \cup {NULL}]
  /\ s.step \in {"swept", "work"} => s.call \in Call
  /\ s.step # "idle" => Known(s.copy, n)

(* The parties of d are those of c, moved at most once, and new ones.       *)
Moved(c, d) ==
  /\ DOMAIN c.entry \subseteq DOMAIN d.entry
  /\ \A i \in DOMAIN c.entry :
       \/ d.entry[i].status = c.entry[i].status
       \/ CanTransition(c.entry[i].status, d.entry[i].status)
  /\ \A i \in DOMAIN d.entry \ DOMAIN c.entry : d.entry[i].status = "WAITING"

TypeOK ==
  /\ oneThread \in BOOLEAN /\ now \in Nat /\ tokens \in Nat /\ calls \in Nat
  /\ store \in MockDb \cup {NULL}
  /\ Known(Stored, tokens)
  /\ tab \in [Tab -> [step: {"idle", "swept", "work", "save"}, call: Call \cup {NULL},
                      copy: MockDb \cup {NULL}]]
  /\ \A t \in Tab : TabOK(tab[t], tokens)

(* Tabs of one thread take turns.                                           *)
Turn(t) ==
  tab[t].step # "idle" =>
    /\ \A u \in Tab : u # t => tab[u].step = "idle"
    /\ Moved(Stored, tab[t].copy)
    /\ tab[t].step = "work" => tab[t].copy = Stored

IInv == TypeOK /\ (oneThread => \A t \in Tab : Turn(t))

-----------------------------------------------------------------------------
(* Databases that fit.                                                     *)

(* Fits, without the functions.                                            *)
Matches(db) ==
  /\ \A u, v \in DOMAIN db.user : db.user[u].username = db.user[v].username => u = v
  /\ \A u, v \in DOMAIN db.user :
       db.user[u].restaurant # 0 /\ db.user[u].restaurant = db.user[v].restaurant => u = v
  /\ \A u \in DOMAIN db.user :
       db.user[u].restaurant # 0 => db.user[u].restaurant \in DOMAIN db.restaurant
  /\ \A r \in DOMAIN db.restaurant : \E u \in DOMAIN db.user :
       db.user[u].restaurant # 0 /\ db.user[u].restaurant = r
  /\ \A i, j \in DOMAIN db.entry : db.entry[i].token = db.entry[j].token => i = j
  /\ \A i \in DOMAIN db.entry : db.entry[i].restaurant \in DOMAIN db.restaurant

LEMMA FitsMatches ==
  ASSUME NEW db
  PROVE  Fits(db) <=> Matches(db)
<1> DEFINE logins == {u \in DOMAIN db.user : db.user[u].restaurant # 0}
           restaurant == [u \in logins |-> db.user[u].restaurant]
           names == [u \in DOMAIN db.user |-> db.user[u].username]
           given == [i \in DOMAIN db.entry |-> db.entry[i].token]
<1>1. IsInjective(names) <=>
        \A u, v \in DOMAIN db.user : db.user[u].username = db.user[v].username => u = v
  BY DEF IsInjective
<1>2. IsInjective(restaurant) <=>
        \A u, v \in DOMAIN db.user :
          db.user[u].restaurant # 0 /\ db.user[u].restaurant = db.user[v].restaurant => u = v
  BY DEF IsInjective
<1>3. Range(restaurant) = DOMAIN db.restaurant <=>
        /\ \A u \in DOMAIN db.user :
             db.user[u].restaurant # 0 => db.user[u].restaurant \in DOMAIN db.restaurant
        /\ \A r \in DOMAIN db.restaurant : \E u \in DOMAIN db.user :
             db.user[u].restaurant # 0 /\ db.user[u].restaurant = r
  BY DEF Range
<1>4. IsInjective(given) <=>
        \A i, j \in DOMAIN db.entry : db.entry[i].token = db.entry[j].token => i = j
  BY DEF IsInjective
<1>5. Fits(db) <=>
        /\ IsInjective(names) /\ IsInjective(restaurant)
        /\ Range(restaurant) = DOMAIN db.restaurant /\ IsInjective(given)
        /\ \A i \in DOMAIN db.entry : db.entry[i].restaurant \in DOMAIN db.restaurant
  BY DEF Fits
<1>6. QED
  <2> HIDE DEF logins, restaurant, names, given
  <2>1. QED
    BY <1>1, <1>2, <1>3, <1>4, <1>5 DEF Matches

LEMMA MockDbs ==
  ASSUME NEW db \in MockDb
  PROVE  /\ db = [user |-> db.user, restaurant |-> db.restaurant, entry |-> db.entry]
         /\ db.user \in Seq(UserRecord) /\ db.restaurant \in Seq(RestaurantRecord)
         /\ db.entry \in Seq(EntryRecord)
BY DEF MockDb

LEMMA KnownLater ==
  ASSUME NEW db, NEW m \in Nat, NEW n \in Nat, m <= n, Known(db, m)
  PROVE  Known(db, n)
<1>1. ASSUME NEW i \in DOMAIN db.entry
      PROVE  db.entry[i].token \in Nat
  <2>1. db.entry \in Seq(EntryRecord)
    BY MockDbs DEF Known
  <2>2. i \in 1..Len(db.entry)
    BY <2>1, LenProperties
  <2>3. db.entry[i] \in EntryRecord
    BY <2>1, <2>2, ElementOfSeq
  <2>4. QED
    BY <2>3 DEF EntryRecord
<1>2. QED
  BY <1>1 DEF Known

(* Changes of the parties that keep where and how they are known.           *)
LEMMA KnownEntries ==
  ASSUME NEW db, NEW n, Known(db, n), NEW entry \in Seq(EntryRecord),
         DOMAIN entry = DOMAIN db.entry,
         \A i \in DOMAIN entry : /\ entry[i].token = db.entry[i].token
                                 /\ entry[i].restaurant = db.entry[i].restaurant
  PROVE  Known([db EXCEPT !.entry = entry], n)
<1> DEFINE new == [db EXCEPT !.entry = entry]
<1>1. /\ new \in MockDb /\ new.user = db.user /\ new.restaurant = db.restaurant
      /\ new.entry = entry
  BY MockDbs DEF Known, MockDb
<1> HIDE DEF new
<1>2. Matches(db)
  BY FitsMatches DEF Known
<1>3. Matches(new)
  BY <1>1, <1>2 DEF Matches
<1>4. Known(new, n)
  BY <1>1, <1>3, FitsMatches DEF Known
<1>5. QED
  BY <1>4 DEF new

(* Changes of the restaurants' columns.                                     *)
LEMMA KnownRestaurants ==
  ASSUME NEW db, NEW n, Known(db, n), NEW restaurant \in Seq(RestaurantRecord),
         DOMAIN restaurant = DOMAIN db.restaurant
  PROVE  Known([db EXCEPT !.restaurant = restaurant], n)
<1> DEFINE new == [db EXCEPT !.restaurant = restaurant]
<1>1. /\ new \in MockDb /\ new.user = db.user /\ new.restaurant = restaurant
      /\ new.entry = db.entry
  BY MockDbs DEF Known, MockDb
<1> HIDE DEF new
<1>2. Matches(db)
  BY FitsMatches DEF Known
<1>3. Matches(new)
  BY <1>1, <1>2 DEF Matches
<1>4. Known(new, n)
  BY <1>1, <1>3, FitsMatches DEF Known
<1>5. QED
  BY <1>4 DEF new

LEMMA MovedSelf == \A db : Moved(db, db)
BY DEF Moved

LEMMA Rows ==
  ASSUME NEW S, NEW s \in Seq(S)
  PROVE  /\ DOMAIN s = 1..Len(s) /\ Len(s) \in Nat
         /\ \A i \in DOMAIN s : s[i] \in S
BY LenProperties, ElementOfSeq

LEMMA SweptKnown ==
  ASSUME NEW db, NEW n, Known(db, n)
  PROVE  Known(Swept(db), n) /\ Moved(db, Swept(db))
<1> DEFINE entry == [i \in DOMAIN db.entry |->
              IF Overdue(db, db.entry[i]) THEN [db.entry[i] EXCEPT !.status = "NO_SHOW"]
              ELSE db.entry[i]]
<1>1. /\ db \in MockDb /\ db.entry \in Seq(EntryRecord)
      /\ DOMAIN db.entry = 1..Len(db.entry) /\ Len(db.entry) \in Nat
      /\ \A i \in DOMAIN db.entry : db.entry[i] \in EntryRecord
  BY MockDbs, Rows DEF Known
<1>2. ASSUME NEW i \in DOMAIN db.entry
      PROVE  /\ entry[i] \in EntryRecord
             /\ entry[i].token = db.entry[i].token /\ entry[i].restaurant = db.entry[i].restaurant
             /\ \/ entry[i].status = db.entry[i].status
                \/ CanTransition(db.entry[i].status, entry[i].status)
  <2>1. db.entry[i] \in EntryRecord
    BY <1>1
  <2>2. CASE Overdue(db, db.entry[i])
    BY <2>1, <2>2 DEF EntryRecord, Final, CanTransition, Overdue
  <2>3. CASE ~Overdue(db, db.entry[i])
    BY <2>1, <2>3
  <2>4. QED
    BY <2>2, <2>3
<1>3. DOMAIN entry = DOMAIN db.entry
  OBVIOUS
<1>4. Swept(db) = [db EXCEPT !.entry = entry]
  BY DEF Swept
<1> HIDE DEF entry
<1>5. entry \in Seq(EntryRecord)
  <2>1. entry \in [1..Len(db.entry) -> EntryRecord]
    BY <1>1, <1>2, <1>3 DEF entry
  <2>2. QED
    BY <1>1, <2>1, SeqDef
<1>6. Swept(db).entry = entry
  BY <1>1, <1>4 DEF MockDb
<1>7. QED
  BY <1>2, <1>3, <1>4, <1>5, <1>6, KnownEntries DEF Moved

-----------------------------------------------------------------------------
(* What a call does to its copy.                                           *)

(* A call's change of its copy, which gives at most one token.              *)
Makes(t, db) ==
  /\ Change(t, db)
  /\ tokens' \in Nat /\ tokens <= tokens'
  /\ Known(db, tokens')
  /\ Moved(Copy(t), db)

LEMMA CreateEntryMakes ==
  ASSUME NEW t \in Tab, tokens \in Nat, Known(Copy(t), tokens), NEW r \in Nat,
         r \in DOMAIN Copy(t).restaurant, CreateEntry(t, r)
  PROVE  \E db : Makes(t, db)
<1> DEFINE old == Copy(t)
           row == [restaurant |-> r, token |-> tokens + 1, status |-> "WAITING",
                   notified_at |-> NULL]
           entry == Append(old.entry, row)
           db == [old EXCEPT !.entry = entry]
           n == Len(old.entry)
<1>1. Change(t, db) /\ tokens' = tokens + 1
  BY DEF CreateEntry
<1>2. /\ old \in MockDb /\ old.entry \in Seq(EntryRecord)
      /\ DOMAIN old.entry = 1..n /\ n \in Nat
      /\ \A i \in DOMAIN old.entry : old.entry[i] \in EntryRecord
  BY MockDbs, Rows DEF Known
<1>3. row \in EntryRecord
  BY DEF EntryRecord, Active
<1>4. /\ entry \in Seq(EntryRecord) /\ DOMAIN entry = 1..(n + 1)
      /\ \A i \in 1..n : entry[i] = old.entry[i]
      /\ entry[n + 1] = row
  BY <1>2, <1>3, AppendProperties, LenProperties
<1>5. /\ db \in MockDb /\ db.entry = entry /\ db.user = old.user
      /\ db.restaurant = old.restaurant
  BY <1>2, <1>4 DEF MockDb
<1>6. /\ row.token = tokens + 1 /\ row.status = "WAITING" /\ row.restaurant = r
      /\ \A i \in 1..n : old.entry[i].token \in Nat /\ old.entry[i].token <= tokens
  BY <1>2 DEF Known, EntryRecord
<1> HIDE DEF old, row, entry, db, n
<1>7. Matches(old)
  BY FitsMatches DEF Known, old
<1>8. Matches(db)
  <2>1. \A i, j \in DOMAIN db.entry : db.entry[i].token = db.entry[j].token => i = j
    <3>1. SUFFICES ASSUME NEW i \in 1..(n + 1), NEW j \in 1..(n + 1),
                          entry[i].token = entry[j].token
                   PROVE  i = j
      BY <1>4, <1>5
    <3>2. \A k \in 1..n : entry[k].token \in Nat /\ entry[k].token <= tokens
      BY <1>4, <1>6
    <3>3. entry[n + 1].token = tokens + 1
      BY <1>4, <1>6
    <3>4. CASE i \in 1..n /\ j \in 1..n
      BY <1>2, <1>4, <1>7, <3>1, <3>4 DEF Matches
    <3>5. QED
      BY <1>2, <3>1, <3>2, <3>3, <3>4
  <2>2. \A i \in DOMAIN db.entry : db.entry[i].restaurant \in DOMAIN db.restaurant
    <3>1. r \in DOMAIN old.restaurant
      BY DEF old
    <3>2. QED
      BY <1>2, <1>4, <1>5, <1>6, <1>7, <3>1 DEF Matches
  <2>3. QED
    BY <1>5, <1>7, <2>1, <2>2 DEF Matches
<1>9. Known(db, tokens + 1)
  BY <1>2, <1>4, <1>5, <1>6, <1>8, FitsMatches DEF Known
<1>10. Moved(old, db)
  BY <1>2, <1>4, <1>5, <1>6 DEF Moved
<1>11. QED
  BY <1>1, <1>9, <1>10 DEF Makes, old

LEMMA ApplyStatusMakes ==
  ASSUME NEW t \in Tab, tokens \in Nat, now \in Nat, Known(Copy(t), tokens),
         NEW i \in DOMAIN Copy(t).entry, NEW status, ApplyStatus(t, i, status)
  PROVE  \E db : Makes(t, db)
<1> DEFINE old == Copy(t)
           e == old.entry[i]
           row == [e EXCEPT !.status = status,
                            !.notified_at = IF status = "NOTIFIED" THEN now ELSE @]
           entry == [old.entry EXCEPT ![i] = row]
           db == [old EXCEPT !.entry = entry]
<1>1. CanTransition(e.status, status) /\ tokens' = tokens
  BY DEF ApplyStatus
<1>2. /\ old \in MockDb /\ old.entry \in Seq(EntryRecord) /\ i \in DOMAIN old.entry
      /\ \A j \in DOMAIN old.entry : old.entry[j] \in EntryRecord
  BY MockDbs, Rows DEF Known
<1>3. [Copy(t) EXCEPT !.entry[i].status = status,
         !.entry[i].notified_at = IF status = "NOTIFIED" THEN now ELSE @] = db
  <2>1. e \in EntryRecord
    BY <1>2
  <2>2. QED
    BY <1>2, <2>1 DEF MockDb, EntryRecord
<1>4. Change(t, db)
  BY <1>3 DEF ApplyStatus
<1>5. /\ row \in EntryRecord /\ row.token = e.token /\ row.restaurant = e.restaurant
      /\ row.status = status
  <2>1. e \in EntryRecord /\ status \in Active \cup Final
    BY <1>1, <1>2 DEF CanTransition, Active
  <2>2. QED
    BY <2>1 DEF EntryRecord
<1> HIDE DEF row
<1>6. /\ entry \in Seq(EntryRecord) /\ DOMAIN entry = DOMAIN old.entry /\ entry[i] = row
      /\ \A j \in DOMAIN old.entry : j # i => entry[j] = old.entry[j]
  BY <1>2, <1>5, ExceptSeq
<1>7. db.entry = entry
  BY <1>2 DEF MockDb
<1> HIDE DEF entry
<1>8. \A j \in DOMAIN entry : /\ entry[j].token = old.entry[j].token
                              /\ entry[j].restaurant = old.entry[j].restaurant
  BY <1>2, <1>5, <1>6
<1>9. Known(db, tokens)
  BY <1>6, <1>8, KnownEntries
<1>10. Moved(old, db)
  BY <1>1, <1>5, <1>6, <1>7 DEF Moved
<1>11. QED
  BY <1>1, <1>4, <1>9, <1>10 DEF Makes

LEMMA RestaurantMakes ==
  ASSUME NEW t \in Tab, tokens \in Nat, tokens' = tokens, Known(Copy(t), tokens),
         NEW r \in DOMAIN Copy(t).restaurant, NEW row \in RestaurantRecord,
         Change(t, [Copy(t) EXCEPT !.restaurant = [Copy(t).restaurant EXCEPT ![r] = row]])
  PROVE  \E db : Makes(t, db)
<1> DEFINE old == Copy(t)
           restaurant == [old.restaurant EXCEPT ![r] = row]
           db == [old EXCEPT !.restaurant = restaurant]
<1>1. /\ old \in MockDb /\ old.restaurant \in Seq(RestaurantRecord)
      /\ r \in DOMAIN old.restaurant
  BY MockDbs DEF Known
<1>2. restaurant \in Seq(RestaurantRecord) /\ DOMAIN restaurant = DOMAIN old.restaurant
  BY <1>1, ExceptSeq
<1>3. db.entry = old.entry
  BY <1>1 DEF MockDb
<1> HIDE DEF restaurant
<1>4. Known(db, tokens)
  BY <1>2, KnownRestaurants
<1>5. Moved(old, db)
  BY <1>3 DEF Moved
<1>6. QED
  BY <1>4, <1>5 DEF Makes, restaurant

(* What the arguments of a call are.                                        *)
LEMMA Arguments ==
  ASSUME NEW call \in Call
  PROVE  /\ call.kind = "settings" => call.online \in BOOLEAN
         /\ call.kind = "activate" => call.is_active \in BOOLEAN
         /\ call.kind \in {"create", "update"} =>
              /\ call.username \in STRING
              /\ call.no_show_minutes \in Nat /\ call.is_active \in BOOLEAN
BY DEF Call

LEMMA SettingsMakes ==
  ASSUME NEW t \in Tab, tokens \in Nat, Known(Copy(t), tokens), tab[t].call \in Call,
         UpdateRestaurantSettings(t)
  PROVE  \E db : Makes(t, db)
<1> DEFINE old == Copy(t)
           r == StaffRestaurant(t)
           row == [old.restaurant[r] EXCEPT !.online = tab[t].call.online]
<1>1. /\ IsStaff(t) /\ tokens' = tokens /\ tab[t].call.online \in BOOLEAN
      /\ Change(t, [old EXCEPT !.restaurant[r].online = tab[t].call.online])
  BY Arguments DEF UpdateRestaurantSettings, Asks
<1>2. /\ old \in MockDb
      /\ \A s \in DOMAIN old.restaurant : old.restaurant[s] \in RestaurantRecord
  BY MockDbs, Rows DEF Known
<1>3. r \in DOMAIN old.restaurant
  BY <1>1, FitsMatches DEF Known, Matches, IsStaff, IsUser, StaffRestaurant
<1>4. row \in RestaurantRecord
  BY <1>1, <1>2, <1>3 DEF RestaurantRecord
<1>5. [old EXCEPT !.restaurant[r].online = tab[t].call.online]
        = [old EXCEPT !.restaurant = [old.restaurant EXCEPT ![r] = row]]
  BY <1>2 DEF MockDb
<1>6. QED
  BY <1>1, <1>3, <1>4, <1>5, RestaurantMakes

LEMMA StatusMakes ==
  ASSUME NEW t \in Tab, tokens \in Nat, Known(Copy(t), tokens), tab[t].call \in Call,
         SetRestaurantStatus(t)
  PROVE  \E db : Makes(t, db)
<1> DEFINE old == Copy(t)
           r == tab[t].call.restaurant
           row == [old.restaurant[r] EXCEPT !.is_active = tab[t].call.is_active]
<1>1. /\ tokens' = tokens /\ tab[t].call.is_active \in BOOLEAN
      /\ r \in DOMAIN old.restaurant
      /\ Change(t, [old EXCEPT !.restaurant[r].is_active = tab[t].call.is_active])
  BY Arguments DEF SetRestaurantStatus, Asks
<1>2. /\ old \in MockDb
      /\ \A s \in DOMAIN old.restaurant : old.restaurant[s] \in RestaurantRecord
  BY MockDbs, Rows DEF Known
<1>3. row \in RestaurantRecord
  BY <1>1, <1>2 DEF RestaurantRecord
<1>4. [old EXCEPT !.restaurant[r].is_active = tab[t].call.is_active]
        = [old EXCEPT !.restaurant = [old.restaurant EXCEPT ![r] = row]]
  BY <1>2 DEF MockDb
<1>5. QED
  BY <1>1, <1>3, <1>4, RestaurantMakes

LEMMA CreateRestaurantMakes ==
  ASSUME NEW t \in Tab, tokens \in Nat, Known(Copy(t), tokens), tab[t].call \in Call,
         CreateRestaurant(t)
  PROVE  \E db : Makes(t, db)
<1> DEFINE old == Copy(t)
           call == tab[t].call
           n == Len(old.restaurant)
           m == Len(old.user)
           row == [is_active |-> call.is_active, online |-> TRUE,
                   no_show_minutes |-> call.no_show_minutes]
           login == [username |-> call.username, restaurant |-> n + 1]
           restaurant == Append(old.restaurant, row)
           user == Append(old.user, login)
           db == [old EXCEPT !.restaurant = restaurant, !.user = user]
<1>1. /\ tokens' = tokens /\ call \in Call /\ call.kind = "create"
      /\ ~Taken(old, call.username, 0) /\ Change(t, db)
  BY DEF CreateRestaurant, Asks
<1>2. /\ old \in MockDb /\ old.restaurant \in Seq(RestaurantRecord) /\ old.user \in Seq(UserRecord)
      /\ DOMAIN old.restaurant = 1..n /\ DOMAIN old.user = 1..m /\ n \in Nat /\ m \in Nat
  BY MockDbs, Rows DEF Known
<1>3. row \in RestaurantRecord /\ login \in UserRecord
  BY <1>1, <1>2, Arguments DEF RestaurantRecord, UserRecord
<1>4. /\ restaurant \in Seq(RestaurantRecord) /\ DOMAIN restaurant = 1..(n + 1)
      /\ user \in Seq(UserRecord) /\ DOMAIN user = 1..(m + 1)
      /\ \A u \in 1..m : user[u] = old.user[u]
      /\ user[m + 1] = login
  BY <1>2, <1>3, AppendProperties, LenProperties
<1>5. /\ db \in MockDb /\ db.user = user /\ db.restaurant = restaurant /\ db.entry = old.entry
  BY <1>2, <1>4 DEF MockDb
<1>6. login.username = call.username /\ login.restaurant = n + 1
  OBVIOUS
<1>7. \A u \in 1..m : user[u].username # login.username
  BY <1>1, <1>2, <1>4 DEF Taken
<1> HIDE DEF old, row, login, restaurant, user, db, n, m
<1>8. Matches(old)
  BY FitsMatches DEF Known, old
<1>9. \A u \in 1..m : user[u].restaurant # 0 => user[u].restaurant \in 1..n
  BY <1>2, <1>4, <1>8 DEF Matches
<1>10. Matches(db)
  <2>1. \A u, v \in 1..(m + 1) : user[u].username = user[v].username => u = v
    <3>1. SUFFICES ASSUME NEW u \in 1..(m + 1), NEW v \in 1..(m + 1),
                          user[u].username = user[v].username
                   PROVE  u = v
      OBVIOUS
    <3>2. CASE u \in 1..m /\ v \in 1..m
      <4>1. /\ u \in DOMAIN old.user /\ v \in DOMAIN old.user
            /\ user[u] = old.user[u] /\ user[v] = old.user[v]
        BY <1>2, <1>4, <3>2
      <4>2. QED
        BY <1>8, <3>1, <4>1 DEF Matches
    <3>3. CASE u = m + 1 \/ v = m + 1
      BY <1>2, <1>4, <1>7, <3>1, <3>3
    <3>4. QED
      BY <1>2, <3>2, <3>3
  <2>2. \A u, v \in 1..(m + 1) :
          user[u].restaurant # 0 /\ user[u].restaurant = user[v].restaurant => u = v
    <3>1. SUFFICES ASSUME NEW u \in 1..(m + 1), NEW v \in 1..(m + 1),
                          user[u].restaurant # 0, user[u].restaurant = user[v].restaurant
                   PROVE  u = v
      OBVIOUS
    <3>2. CASE u \in 1..m /\ v \in 1..m
      <4>1. /\ u \in DOMAIN old.user /\ v \in DOMAIN old.user
            /\ user[u] = old.user[u] /\ user[v] = old.user[v]
        BY <1>2, <1>4, <3>2
      <4>2. QED
        BY <1>8, <3>1, <4>1 DEF Matches
    <3>3. CASE u = m + 1 \/ v = m + 1
      BY <1>2, <1>4, <1>6, <1>9, <3>1, <3>3
    <3>4. QED
      BY <1>2, <3>2, <3>3
  <2>3. \A u \in 1..(m + 1) : user[u].restaurant # 0 => user[u].restaurant \in 1..(n + 1)
    BY <1>2, <1>4, <1>6, <1>9
  <2>4. \A r \in 1..(n + 1) : \E u \in 1..(m + 1) : user[u].restaurant # 0 /\ user[u].restaurant = r
    <3>1. SUFFICES ASSUME NEW r \in 1..(n + 1)
                   PROVE  \E u \in 1..(m + 1) : user[u].restaurant # 0 /\ user[u].restaurant = r
      OBVIOUS
    <3>2. CASE r \in 1..n
      <4>1. PICK u \in 1..m : old.user[u].restaurant # 0 /\ old.user[u].restaurant = r
        BY <1>2, <1>8, <3>2 DEF Matches
      <4>2. u \in 1..(m + 1) /\ user[u] = old.user[u]
        BY <1>2, <1>4
      <4>3. QED
        BY <4>1, <4>2
    <3>3. CASE r = n + 1
      <4>1. m + 1 \in 1..(m + 1)
        BY <1>2
      <4>2. QED
        BY <1>2, <1>4, <1>6, <3>3, <4>1
    <3>4. QED
      BY <1>2, <3>2, <3>3
  <2>5. \A i \in DOMAIN old.entry : old.entry[i].restaurant \in 1..(n + 1)
    BY <1>2, <1>8 DEF Matches
  <2>6. QED
    BY <1>4, <1>5, <1>8, <2>1, <2>2, <2>3, <2>4, <2>5 DEF Matches
<1>11. Known(db, tokens) /\ Moved(old, db)
  BY <1>5, <1>10, FitsMatches DEF Known, Moved, old
<1>12. QED
  BY <1>1, <1>11 DEF Makes, old

(* Where parts fit, every restaurant has its login.                         *)
LEMMA LoginIsThere ==
  ASSUME NEW db, NEW n, Known(db, n), NEW id \in DOMAIN db.restaurant
  PROVE  /\ LoginOf(db, id) \in DOMAIN db.user /\ LoginOf(db, id) # 0
         /\ db.user[LoginOf(db, id)].restaurant = id
<1> DEFINE login == {u \in DOMAIN db.user : db.user[u].restaurant = id}
<1>1. Matches(db)
  BY FitsMatches DEF Known
<1>2. PICK u \in DOMAIN db.user : db.user[u].restaurant # 0 /\ db.user[u].restaurant = id
  BY <1>1 DEF Matches
<1>3. DOMAIN db.user = 1..Len(db.user) /\ Len(db.user) \in Nat
  BY MockDbs, Rows DEF Known
<1>4. login = {u}
  BY <1>1, <1>2 DEF Matches
<1>5. u \in login /\ \A other \in login : u <= other
  BY <1>3, <1>4
<1>6. LoginOf(db, id) \in login
  BY <1>5 DEF LoginOf
<1>7. LoginOf(db, id) = u
  BY <1>4, <1>6
<1>8. QED
  BY <1>2, <1>3, <1>7

LEMMA UpdateRestaurantMakes ==
  ASSUME NEW t \in Tab, tokens \in Nat, Known(Copy(t), tokens), tab[t].call \in Call,
         UpdateRestaurant(t)
  PROVE  \E db : Makes(t, db)
<1> DEFINE old == Copy(t)
           call == tab[t].call
           id == call.restaurant
           row == [old.restaurant[id] EXCEPT !.no_show_minutes = call.no_show_minutes,
                                             !.is_active = call.is_active]
           restaurant == [old.restaurant EXCEPT ![id] = row]
           mid == [old EXCEPT !.restaurant = restaurant]
           login == LoginOf(mid, id)
           user == [old.user EXCEPT ![login] = [old.user[login] EXCEPT !.username = call.username]]
           db == [mid EXCEPT !.user = user]
<1>1. /\ old \in MockDb /\ id \in DOMAIN old.restaurant /\ call \in Call
      /\ call.kind = "update" /\ tokens' = tokens
  <2>1. old \in MockDb /\ call \in Call /\ call.kind = "update" /\ tokens' = tokens
    BY DEF UpdateRestaurant, Asks, Known
  <2>2. id \in DOMAIN [old EXCEPT !.restaurant[id].no_show_minutes = call.no_show_minutes,
                                  !.restaurant[id].is_active = call.is_active].restaurant
    BY DEF UpdateRestaurant
  <2>3. id \in DOMAIN old.restaurant
    BY <2>1, <2>2 DEF MockDb
  <2>4. QED
    BY <2>1, <2>3
<1>2. /\ old.restaurant \in Seq(RestaurantRecord) /\ old.user \in Seq(UserRecord)
      /\ old.restaurant[id] \in RestaurantRecord
      /\ \A u \in DOMAIN old.user : old.user[u] \in UserRecord
  BY <1>1, MockDbs, Rows
<1>3. /\ call.username \in STRING /\ call.no_show_minutes \in Nat /\ call.is_active \in BOOLEAN
  BY <1>1, Arguments
<1>4. row \in RestaurantRecord
  BY <1>2, <1>3 DEF RestaurantRecord
<1>5. restaurant \in Seq(RestaurantRecord) /\ DOMAIN restaurant = DOMAIN old.restaurant
  BY <1>1, <1>2, <1>4, ExceptSeq
<1>6. [old EXCEPT !.restaurant[id].no_show_minutes = call.no_show_minutes,
                  !.restaurant[id].is_active = call.is_active] = mid
  BY <1>1, <1>2 DEF MockDb, RestaurantRecord
<1>7. /\ ~Taken(mid, call.username, login)
      /\ Change(t, [mid EXCEPT !.user =
           IF login = 0 THEN Append(@, [username |-> call.username, restaurant |-> id])
           ELSE [@ EXCEPT ![login].username = call.username]])
  BY <1>6 DEF UpdateRestaurant
<1> HIDE DEF row, restaurant
<1>8. mid.user = old.user /\ mid.entry = old.entry /\ mid.restaurant = restaurant
  BY <1>1 DEF MockDb
<1>9. Known(mid, tokens)
  BY <1>5, KnownRestaurants
<1> HIDE DEF mid
<1>10. login \in DOMAIN old.user /\ login # 0
  BY <1>1, <1>5, <1>8, <1>9, LoginIsThere
<1>11. mid \in MockDb
  BY <1>9 DEF Known
<1> HIDE DEF login
<1>12. [mid EXCEPT !.user =
           IF login = 0 THEN Append(@, [username |-> call.username, restaurant |-> id])
           ELSE [@ EXCEPT ![login].username = call.username]] = db
  BY <1>8, <1>10, <1>11 DEF MockDb
<1>13. [old.user[login] EXCEPT !.username = call.username] \in UserRecord
  BY <1>2, <1>3, <1>10 DEF UserRecord
<1>14. /\ user \in Seq(UserRecord) /\ DOMAIN user = DOMAIN old.user
       /\ \A u \in DOMAIN user : u # login => user[u] = old.user[u]
       /\ user[login].username = call.username
       /\ user[login].restaurant = old.user[login].restaurant
  <2>1. old.user[login] \in UserRecord
    BY <1>2, <1>10
  <2>2. QED
    BY <1>2, <1>10, <1>13, <2>1, ExceptSeq DEF UserRecord
<1> HIDE DEF user
<1>15. /\ db \in MockDb /\ db.user = user /\ db.restaurant = mid.restaurant
       /\ db.entry = mid.entry
  BY <1>11, <1>14 DEF MockDb
<1>16. \A u \in DOMAIN user : u # login => user[u].username # call.username
  BY <1>7, <1>8, <1>14 DEF Taken
<1>17. Matches(mid)
  BY <1>9, FitsMatches DEF Known
<1> HIDE DEF db, old, call, id
<1>18. Matches(db)
  <2>1. \A u \in DOMAIN user : user[u].restaurant = mid.user[u].restaurant
    BY <1>8, <1>10, <1>14
  <2>2. \A u, v \in DOMAIN user : user[u].username = user[v].username => u = v
    <3>1. SUFFICES ASSUME NEW u \in DOMAIN user, NEW v \in DOMAIN user,
                          user[u].username = user[v].username
                   PROVE  u = v
      OBVIOUS
    <3>2. CASE u # login /\ v # login
      <4>1. mid.user[u] = user[u] /\ mid.user[v] = user[v]
        BY <1>8, <1>14, <3>2
      <4>2. QED
        BY <1>8, <1>14, <1>17, <3>1, <4>1 DEF Matches
    <3>3. QED
      BY <1>14, <1>16, <3>1, <3>2
  <2>3. QED
    BY <1>8, <1>14, <1>15, <1>17, <2>1, <2>2 DEF Matches
<1>19. Known(db, tokens) /\ Moved(old, db)
  BY <1>8, <1>9, <1>15, <1>18, FitsMatches DEF Known, Moved
<1>20. QED
  BY <1>1, <1>7, <1>12, <1>19 DEF Makes, old

(* Every call leaves a copy that fits, one move ahead.                      *)
LEMMA OperationMakes ==
  ASSUME NEW t \in Tab, tokens \in Nat, now \in Nat, Known(Copy(t), tokens),
         tab[t].call \in Call, Operation(t)
  PROVE  \E db : Makes(t, db)
<1>1. DOMAIN Copy(t).restaurant \subseteq Nat
  BY MockDbs, Rows DEF Known
<1>2. CASE JoinWaitlist(t)
  BY <1>1, <1>2, CreateEntryMakes DEF JoinWaitlist
<1>3. CASE AddWalkIn(t)
  <2>1. StaffRestaurant(t) \in DOMAIN Copy(t).restaurant /\ CreateEntry(t, StaffRestaurant(t))
    BY <1>3, FitsMatches DEF AddWalkIn, Known, Matches, IsStaff, IsUser, StaffRestaurant
  <2>2. QED
    BY <1>1, <2>1, CreateEntryMakes
<1>4. CASE CancelWaitlistEntry(t)
  BY <1>4, ApplyStatusMakes DEF CancelWaitlistEntry
<1>5. CASE UpdateWaitlistEntry(t)
  BY <1>5, ApplyStatusMakes DEF UpdateWaitlistEntry
<1>6. QED
  BY <1>2, <1>3, <1>4, <1>5, SettingsMakes, StatusMakes, CreateRestaurantMakes,
     UpdateRestaurantMakes DEF Operation

-----------------------------------------------------------------------------
(* The steps.                                                              *)

LEMMA Writing ==
  ASSUME NEW db, NEW n, Known(db, n), store' = db
  PROVE  Stored' = db /\ store' \in MockDb
BY MockAssumption DEF Stored, Known

LEMMA Waiting ==
  ASSUME store' = store
  PROVE  Stored' = Stored
BY DEF Stored

LEMMA InitInv == Init => IInv
<1> SUFFICES ASSUME Init PROVE IInv
  OBVIOUS
<1>1. Stored = Seed /\ Len(Seed.entry) \in Nat
  BY MockAssumption, MockDbs, Rows DEF Init, Stored
<1>2. Known(Seed, Len(Seed.entry))
  BY MockAssumption DEF Known
<1>3. \A t \in Tab : tab[t] = Idle
  BY DEF Init
<1>4. TypeOK
  BY <1>1, <1>2, <1>3 DEF Init, TypeOK, TabOK, Idle
<1>5. QED
  BY <1>3, <1>4 DEF IInv, Turn, Idle

(* A tab in a call.                                                         *)
LEMMA Busy ==
  ASSUME IInv, NEW t \in Tab, tab[t].step # "idle"
  PROVE  /\ Known(tab[t].copy, tokens)
         /\ tab[t].step \in {"swept", "work"} => tab[t].call \in Call
         /\ oneThread => /\ \A u \in Tab : u # t => tab[u].step = "idle"
                         /\ Moved(Stored, tab[t].copy)
                         /\ tab[t].step = "work" => tab[t].copy = Stored
BY DEF IInv, TypeOK, TabOK, Turn

(* One tab goes on, the others stay as they are: what is left to show.      *)
LEMMA GoStep ==
  ASSUME IInv, NEW t \in Tab, NEW s, Go(t, s),
         tokens' \in Nat, tokens <= tokens', calls' \in Nat,
         store' \in MockDb \cup {NULL}, Known(Stored', tokens'), TabOK(s, tokens'),
         oneThread /\ s.step # "idle" =>
           /\ \A u \in Tab : u # t => tab[u].step = "idle"
           /\ Moved(Stored', s.copy)
           /\ s.step = "work" => s.copy = Stored',
         oneThread /\ s.step = "idle" /\ Stored' # Stored =>
           \A u \in Tab : u # t => tab[u].step = "idle"
  PROVE  IInv'
<1>1. /\ tab' = [tab EXCEPT ![t] = s] /\ oneThread' = oneThread /\ now' = now
      /\ TypeOK /\ tab'[t] = s /\ \A u \in Tab : u # t => tab'[u] = tab[u]
  BY DEF Go, IInv, TypeOK
<1>2. \A u \in Tab : TabOK(tab'[u], tokens')
  <2>1. \A u \in Tab : u # t => TabOK(tab[u], tokens')
    BY <1>1, KnownLater DEF TypeOK, TabOK
  <2>2. QED
    BY <1>1, <2>1
<1>3. TypeOK'
  BY <1>1, <1>2 DEF TypeOK, TabOK
<1>4. ASSUME oneThread, NEW u \in Tab
      PROVE  Turn(u)'
  <2>1. CASE u = t
    BY <1>1, <1>4, <2>1 DEF Turn
  <2>2. CASE u # t /\ tab[u].step = "idle"
    BY <1>1, <2>2 DEF Turn
  <2>3. CASE u # t /\ tab[u].step # "idle"
    BY <1>1, <1>4, <2>3 DEF Turn, IInv
  <2>4. QED
    BY <2>1, <2>2, <2>3
<1>5. QED
  BY <1>1, <1>3, <1>4 DEF IInv

LEMMA LoadDbStep ==
  ASSUME IInv, NEW t \in Tab, NEW call \in Wanted, LoadDb(t, call)
  PROVE  IInv'
<1> DEFINE db == Swept(Stored)
           s == [step |-> IF db = store THEN "work" ELSE "swept", call |-> call, copy |-> db]
<1>1. /\ Go(t, s) /\ calls' = calls + 1 /\ store' = store /\ tokens' = tokens
      /\ oneThread => \A u \in Tab : tab[u].step = "idle"
  BY DEF LoadDb, Stored
<1>2. /\ Known(Stored, tokens) /\ tokens \in Nat /\ calls \in Nat
      /\ store \in MockDb \cup {NULL}
  BY DEF IInv, TypeOK
<1>3. Known(db, tokens) /\ Moved(Stored, db)
  BY <1>2, SweptKnown
<1>4. db \in MockDb /\ call \in Call
  BY <1>3, MockAssumption DEF Known
<1>5. db = store => db = Stored
  BY <1>4, MockAssumption DEF Stored
<1>6. Stored' = Stored
  BY <1>1, Waiting
<1> HIDE DEF db
<1>7. TabOK(s, tokens)
  BY <1>3, <1>4 DEF TabOK
<1>8. s.copy = db /\ (s.step = "work" => db = store)
  OBVIOUS
<1> HIDE DEF s
<1>9. QED
  BY <1>1, <1>2, <1>3, <1>5, <1>6, <1>7, <1>8, GoStep

LEMMA WriteSweptStep ==
  ASSUME IInv, NEW t \in Tab, WriteSwept(t)
  PROVE  IInv'
<1> DEFINE s == [tab[t] EXCEPT !.step = "work"]
<1>1. /\ Go(t, s) /\ calls' = calls /\ store' = tab[t].copy /\ tokens' = tokens
      /\ tab[t].step = "swept"
  BY DEF WriteSwept
<1>2. tokens \in Nat /\ calls \in Nat /\ TabOK(tab[t], tokens)
  BY DEF IInv, TypeOK
<1>3. Known(tab[t].copy, tokens) /\ tab[t].call \in Call
  BY <1>1, Busy
<1>4. Stored' = tab[t].copy /\ store' \in MockDb
  BY <1>1, <1>3, Writing
<1>5. TabOK(s, tokens) /\ s.copy = tab[t].copy /\ s.step = "work"
  BY <1>2, <1>3 DEF TabOK
<1>6. Moved(Stored', s.copy)
  BY <1>4, <1>5, MovedSelf
<1> HIDE DEF s
<1>7. QED
  BY <1>1, <1>2, <1>3, <1>4, <1>5, <1>6, Busy, GoStep

LEMMA OperationStep ==
  ASSUME IInv, NEW t \in Tab, Operation(t)
  PROVE  IInv'
<1>1. tab[t].step = "work" /\ store' = store /\ calls' = calls
  BY DEF Operation, JoinWaitlist, AddWalkIn, CancelWaitlistEntry, UpdateWaitlistEntry,
         UpdateRestaurantSettings, CreateRestaurant, UpdateRestaurant, SetRestaurantStatus,
         Asks, CreateEntry, ApplyStatus, Change
<1>2. tokens \in Nat /\ now \in Nat /\ calls \in Nat /\ store \in MockDb \cup {NULL}
      /\ Known(Stored, tokens)
  BY DEF IInv, TypeOK
<1>3. Known(Copy(t), tokens) /\ tab[t].call \in Call
  BY <1>1, Busy DEF Copy
<1>4. PICK db : Makes(t, db)
  BY <1>2, <1>3, OperationMakes
<1> DEFINE s == [step |-> "save", call |-> NULL, copy |-> db]
<1>5. Go(t, s) /\ Known(db, tokens') /\ tokens' \in Nat /\ tokens <= tokens'
      /\ Moved(tab[t].copy, db)
  BY <1>4 DEF Makes, Change, Copy
<1>6. Stored' = Stored
  BY <1>1, Waiting
<1>7. TabOK(s, tokens')
  BY <1>5 DEF TabOK, Known
<1>8. Known(Stored', tokens')
  BY <1>2, <1>5, <1>6, KnownLater
<1>9. s.step = "save" /\ s.copy = db
  OBVIOUS
<1> HIDE DEF s
<1>10. QED
  BY <1>1, <1>2, <1>5, <1>6, <1>7, <1>8, <1>9, Busy, GoStep

LEMMA IdleOK == \A n : TabOK(Idle, n) /\ Idle.step = "idle"
BY DEF TabOK, Idle

LEMMA WriteDbStep ==
  ASSUME IInv, NEW t \in Tab, WriteDb(t)
  PROVE  IInv'
<1>1. /\ Go(t, Idle) /\ calls' = calls /\ store' = tab[t].copy /\ tokens' = tokens
      /\ tab[t].step = "save"
  BY DEF WriteDb
<1>2. tokens \in Nat /\ calls \in Nat
  BY DEF IInv, TypeOK
<1>3. Known(tab[t].copy, tokens)
  BY <1>1, Busy
<1>4. Stored' = tab[t].copy /\ store' \in MockDb
  BY <1>1, <1>3, Writing
<1>5. QED
  BY <1>1, <1>2, <1>3, <1>4, Busy, IdleOK, GoStep

LEMMA EndsStep ==
  ASSUME IInv, NEW t \in Tab, Ends(t)
  PROVE  IInv'
<1>1. Go(t, Idle) /\ calls' = calls /\ store' = store /\ tokens' = tokens
  BY DEF Ends
<1>2. /\ tokens \in Nat /\ calls \in Nat /\ store \in MockDb \cup {NULL}
      /\ Known(Stored, tokens)
  BY DEF IInv, TypeOK
<1>3. Stored' = Stored
  BY <1>1, Waiting
<1>4. QED
  BY <1>1, <1>2, <1>3, IdleOK, GoStep

LEMMA QuietStep ==
  ASSUME IInv, UNCHANGED <<oneThread, store, tab, tokens, calls>>, now' \in Nat
  PROVE  IInv'
<1>1. Stored' = Stored
  BY Waiting
<1>2. QED
  BY <1>1 DEF IInv, TypeOK, Turn

LEMMA Inductive ==
  ASSUME IInv, [Next]_vars
  PROVE  IInv'
<1>1. now \in Nat
  BY DEF IInv, TypeOK
<1>2. CASE Tick
  BY <1>1, <1>2, QuietStep DEF Tick
<1>3. CASE UNCHANGED vars
  BY <1>1, <1>3, QuietStep DEF vars
<1>4. QED
  BY <1>2, <1>3, LoadDbStep, WriteSweptStep, OperationStep, WriteDbStep, EndsStep DEF Next

-----------------------------------------------------------------------------
(* The theorems.                                                           *)

(* Whatever tabs read before others wrote, each copy fits together on its    *)
(* own and is typed; tabs of one thread are one move apart (mockService.ts). *)
THEOREM Invariance == Spec => []IInv
BY InitInv, Inductive, PTL DEF Spec

(* For any number of tabs, in one process or several, the stored database    *)
(* keeps one login for each restaurant, names and tokens given once, and     *)
(* every party in a restaurant there is (readDb, writeDb).                   *)
THEOREM AccountsFit == Spec => []AccountsMatch
<1>1. IInv => AccountsMatch
  BY DEF IInv, TypeOK, Known, AccountsMatch
<1>2. QED
  BY <1>1, Invariance, PTL

LEMMA CallsKeepTheStore ==
  ASSUME NEW t \in Tab, Operation(t)
  PROVE  store' = store /\ oneThread' = oneThread
<1>1. ASSUME NEW r, CreateEntry(t, r)
      PROVE  store' = store /\ oneThread' = oneThread
  BY <1>1 DEF CreateEntry, Change, Go
<1>2. ASSUME NEW i, NEW status, ApplyStatus(t, i, status)
      PROVE  store' = store /\ oneThread' = oneThread
  BY <1>2 DEF ApplyStatus, Change, Go
<1>3. CASE JoinWaitlist(t) \/ AddWalkIn(t)
  BY <1>1, <1>3 DEF JoinWaitlist, AddWalkIn
<1>4. CASE CancelWaitlistEntry(t) \/ UpdateWaitlistEntry(t)
  BY <1>2, <1>4 DEF CancelWaitlistEntry, UpdateWaitlistEntry
<1>5. CASE UpdateRestaurantSettings(t) \/ SetRestaurantStatus(t)
  BY <1>5 DEF UpdateRestaurantSettings, SetRestaurantStatus, Change, Go
<1>6. CASE CreateRestaurant(t)
  BY <1>6 DEF CreateRestaurant, Change, Go
<1>7. CASE UpdateRestaurant(t)
  BY <1>7 DEF UpdateRestaurant, Change, Go
<1>8. QED
  BY <1>3, <1>4, <1>5, <1>6, <1>7 DEF Operation

LEMMA WhoWrites ==
  ASSUME [Next]_vars
  PROVE  /\ oneThread' = oneThread
         /\ store' = store \/ \E t \in Tab : WriteSwept(t) \/ WriteDb(t)
<1>1. ASSUME NEW t \in Tab, NEW call \in Wanted, LoadDb(t, call)
      PROVE  store' = store /\ oneThread' = oneThread
  BY <1>1 DEF LoadDb, Go
<1>2. ASSUME NEW t \in Tab, WriteSwept(t) \/ WriteDb(t)
      PROVE  oneThread' = oneThread
  BY <1>2 DEF WriteSwept, WriteDb, Go
<1>3. ASSUME NEW t \in Tab, Ends(t)
      PROVE  store' = store /\ oneThread' = oneThread
  BY <1>3 DEF Ends, Go
<1>4. CASE Tick \/ UNCHANGED vars
  BY <1>4 DEF Tick, vars
<1>5. QED
  BY <1>1, <1>2, <1>3, <1>4, CallsKeepTheStore DEF Next

(* What is stored becomes another database only by one tab's write.         *)
LEMMA WritesMove ==
  ASSUME IInv, [Next]_vars, oneThread
  PROVE  Stored' = Stored \/ Moved(Stored, Stored')
<1>1. CASE \E t \in Tab : WriteSwept(t) \/ WriteDb(t)
  <2>1. PICK t \in Tab : WriteSwept(t) \/ WriteDb(t)
    BY <1>1
  <2>2. tab[t].step # "idle" /\ store' = tab[t].copy
    BY <2>1 DEF WriteSwept, WriteDb
  <2>3. Known(tab[t].copy, tokens) /\ Moved(Stored, tab[t].copy)
    BY <2>2, Busy
  <2>4. Stored' = tab[t].copy
    BY <2>2, <2>3, Writing
  <2>5. QED
    BY <2>3, <2>4
<1>2. CASE store' = store
  BY <1>2, Waiting
<1>3. QED
  BY <1>1, <1>2, WhoWrites

(* Tabs of one thread keep the contract of the backend's waitlist, for any   *)
(* seed, any calls and any clock: nobody is lost, statuses move legally.     *)
THEOREM MockImplementsContract == Spec => ImplementsContract
<1> DEFINE statuses == [i \in DOMAIN Stored.entry |-> Stored.entry[i].status]
           party == IF oneThread THEN statuses ELSE <<>>
<1>1. IInv => party \in Seq(Contract!WaitlistStatus)
  <2>1. SUFFICES ASSUME IInv, oneThread
                 PROVE  statuses \in Seq(Contract!WaitlistStatus)
    BY EmptySeq
  <2>2. Stored \in MockDb
    BY <2>1 DEF IInv, TypeOK, Known
  <2>3. /\ DOMAIN Stored.entry = 1..Len(Stored.entry) /\ Len(Stored.entry) \in Nat
        /\ \A i \in DOMAIN Stored.entry : Stored.entry[i] \in EntryRecord
    BY <2>2, MockDbs, Rows
  <2>4. statuses \in [1..Len(Stored.entry) -> Contract!WaitlistStatus]
    BY <2>3 DEF EntryRecord, Contract!WaitlistStatus, Contract!Active, Contract!Final,
                Active, Final
  <2>5. QED
    BY <2>3, <2>4, SeqDef
<1>1a. (IInv => party \in Seq(Contract!WaitlistStatus))'
  BY <1>1, PTL
<1>2. ASSUME IInv, IInv', [Next]_vars
      PROVE  Contract!Change \/ UNCHANGED party
  <2>1. oneThread' = oneThread
    BY <1>2, WhoWrites
  <2>2. CASE ~oneThread \/ Stored' = Stored
    BY <2>1, <2>2
  <2>3. CASE oneThread /\ Moved(Stored, Stored')
    <3>1. party' \in Seq(Contract!WaitlistStatus)
      BY <1>1a, <1>2
    <3>2. party = statuses /\ party' = statuses'
      BY <2>1, <2>3
    <3>3. Contract!Change
      BY <2>1, <2>3, <3>1, <3>2 DEF Contract!Change, Contract!CanTransition, Contract!Final,
           CanTransition, Final, Moved
    <3>4. QED
      BY <3>3
  <2>4. QED
    BY <1>2, <2>2, <2>3, WritesMove
<1>3. IInv => Contract!Init
  BY <1>1 DEF Contract!Init
<1>4. QED
  BY <1>2, <1>3, Invariance, PTL DEF Spec, ImplementsContract, Contract!Spec
=============================================================================
