------------------------- MODULE CityJournalProofs -------------------------
(***************************************************************************)
(* Proofs about CityJournal for any number of terminals, any commands and  *)
(* any ranking: what commands that overlap leave in the database, which     *)
(* place a visit stamps, how age weighs in a draw, that the reports add up, *)
(* and in which order a search answers.                                     *)
(***************************************************************************)
EXTENDS CityJournal, SequenceTheorems, FiniteSetTheorems, WellFoundedInduction, TLAPS

Told == [note: Text \cup {NULL}, rating: Rating \cup {NULL}, at: Nat \cup {NULL}]

(* What a terminal is doing, when there are n places: a search has words to  *)
(* look for, and a command that is about to save has found a place.         *)
CmdOK(c, n) ==
  /\ DOMAIN c = DOMAIN Idle
  /\ c.since \in Nat
  /\ c.step # "idle" => c.call \in Wanted
  /\ c.step # "idle" /\ c.call.kind = "find" => Tokenize(c.call.query) # Blank
  /\ c.step = "save" => c.call.kind = "visit" /\ c.id \in 1..n

(* Tags are stored in lowercase.                                            *)
LowerTags(tags) == \A tag \in tags : Lower[tag] = tag

Typed ==
  /\ now \in Nat
  /\ db \in [place: Seq(Place), tag: SUBSET Word] /\ LowerTags(db.tag)
  /\ told \in Seq(Seq(Told)) /\ Len(told) = Len(db.place)
  /\ cmd = [t \in Terminal |-> cmd[t]]
  /\ \A t \in Terminal : CmdOK(cmd[t], Len(db.place))

(* What a place says, and what it was told: FlagsAreKept, place by place.    *)
Kept(place, list) ==
  /\ Len(list) > 0
  /\ place.note = LastGiven(list, "note", Blank)
  /\ place.rating = LastGiven(list, "rating", NULL)
  /\ place.last_visited_at = Last(list).at
  /\ Len(list) > 1 => place.status = "visited"

IInv ==
  /\ Typed
  /\ \A i \in DOMAIN db.place : Kept(db.place[i], told[i])
  /\ NoTagIsOrphaned

-----------------------------------------------------------------------------
(* What was told last.                                                      *)

(* Some numbers up to n have a largest one.                                 *)
LEMMA TopOfSome ==
  ASSUME NEW n \in Nat, NEW some \in SUBSET (1..n), some # {}
  PROVE  \E top \in some : \A j \in some : j <= top
<1> DEFINE below == {n - k : k \in some}
           less == OpToRel(<, Nat)
<1>1. \A k \in some : k \in 1..n /\ n - k \in Nat /\ n - k \in below
  OBVIOUS
<1>2. \A y \in below : \E k \in some : y = n - k
  OBVIOUS
<1>3. IsWellFoundedOn(less, Nat)
  BY NatLessThanWellFounded
<1> HIDE DEF below, less
<1>4. below \subseteq Nat /\ below # {}
  BY <1>1, <1>2
<1>5. PICK m \in below : \A y \in below : ~ (<<y, m>> \in less)
  BY <1>3, <1>4, WFMin
<1>6. \A y \in below : ~ (y < m)
  BY <1>4, <1>5 DEF less, OpToRel
<1>7. PICK top \in some : m = n - top
  BY <1>2
<1>8. \A j \in some : j <= top
  BY <1>1, <1>6, <1>7
<1>9. QED
  BY <1>8

LEMMA FirstGiven ==
  ASSUME NEW r \in Told, NEW f \in {"note", "rating"}, NEW d
  PROVE  LastGiven(<<r>>, f, d) = Given(r[f], d)
<1> DEFINE list == <<r>>
           given == {k \in DOMAIN list : list[k][f] # NULL}
<1>1. DOMAIN list = {1} /\ list[1] = r
  OBVIOUS
<1>2. CASE r[f] = NULL
  BY <1>1, <1>2 DEF LastGiven, Given
<1>3. CASE r[f] # NULL
  <2>1. given = {1}
    BY <1>1, <1>3
  <2>2. (CHOOSE k \in given : \A j \in given : j <= k) = 1
    BY <2>1
  <2>3. QED
    BY <1>1, <1>3, <2>1, <2>2 DEF LastGiven, Given
<1>4. QED
  BY <1>2, <1>3

LEMMA NextGiven ==
  ASSUME NEW list \in Seq(Told), NEW r \in Told, NEW f \in {"note", "rating"}, NEW d
  PROVE  LastGiven(Append(list, r), f, d) = Given(r[f], LastGiven(list, f, d))
<1> DEFINE n == Len(list)
           more == Append(list, r)
           given == {k \in DOMAIN list : list[k][f] # NULL}
           now_given == {k \in DOMAIN more : more[k][f] # NULL}
<1>1. /\ n \in Nat /\ DOMAIN list = 1..n /\ DOMAIN more = 1..(n + 1)
      /\ more[n + 1] = r /\ \A k \in 1..n : more[k] = list[k]
  BY AppendProperties, LenProperties
<1> HIDE DEF n, more
<1>2. CASE r[f] = NULL
  <2>1. now_given = given
    BY <1>1, <1>2
  <2>2. CASE given = {}
    BY <1>2, <2>1, <2>2 DEF LastGiven, Given, more
  <2>3. CASE given # {}
    <3>1. PICK top \in given : \A j \in given : j <= top
      <4>1. given \subseteq 1..n
        BY <1>1
      <4>2. QED
        BY <4>1, <2>3, <1>1, TopOfSome
    <3>2. (CHOOSE k \in given : \A j \in given : j <= k) \in given
      BY <3>1
    <3>3. more[CHOOSE k \in given : \A j \in given : j <= k]
            = list[CHOOSE k \in given : \A j \in given : j <= k]
      BY <1>1, <3>2
    <3>4. Given(r[f], LastGiven(list, f, d)) = LastGiven(list, f, d)
      BY <1>2 DEF Given
    <3>5. LastGiven(list, f, d) = list[CHOOSE k \in given : \A j \in given : j <= k][f]
      BY <2>3 DEF LastGiven
    <3>6. LastGiven(more, f, d) = more[CHOOSE k \in now_given : \A j \in now_given : j <= k][f]
      BY <2>1, <2>3 DEF LastGiven
    <3>7. QED
      BY <2>1, <3>3, <3>4, <3>5, <3>6 DEF more
  <2>4. QED
    BY <2>2, <2>3
<1>3. CASE r[f] # NULL
  <2>1. n + 1 \in now_given /\ \A j \in now_given : j \in Nat /\ j <= n + 1
    BY <1>1, <1>3
  <2>2. (CHOOSE k \in now_given : \A j \in now_given : j <= k) = n + 1
    BY <1>1, <2>1
  <2>3. QED
    BY <1>1, <1>3, <2>1, <2>2 DEF LastGiven, Given, more
<1>4. QED
  BY <1>2, <1>3

-----------------------------------------------------------------------------
(* Steps.                                                                  *)

LEMMA Begins == Init => IInv
<1> SUFFICES ASSUME Init PROVE IInv
  OBVIOUS
<1>1. /\ now = 0 /\ db = [place |-> <<>>, tag |-> {}] /\ told = <<>>
      /\ cmd = [t \in Terminal |-> Idle]
  BY DEF Init
<1>2. CmdOK(Idle, 0)
  BY DEF CmdOK, Idle
<1>3. Typed
  BY <1>1, <1>2 DEF Typed, LowerTags
<1>4. DOMAIN db.place = {}
  BY <1>1
<1>5. NoTagIsOrphaned
  BY <1>1, <1>4 DEF NoTagIsOrphaned
<1>6. QED
  BY <1>3, <1>4, <1>5 DEF IInv

(* A command that reads, or ends.                                           *)
LEMMA GoStep ==
  ASSUME IInv, NEW t \in Terminal, NEW next, Go(t, next), CmdOK(next, Len(db.place))
  PROVE  IInv'
<1>1. UNCHANGED <<now, db, told>> /\ cmd' = [cmd EXCEPT ![t] = next]
  BY DEF Go
<1>2. cmd' = [u \in Terminal |-> cmd'[u]]
      /\ \A u \in Terminal : cmd'[u] = IF u = t THEN next ELSE cmd[u]
  BY <1>1 DEF IInv, Typed
<1>3. Typed'
  BY <1>1, <1>2 DEF IInv, Typed
<1>4. NoTagIsOrphaned'
  BY <1>1 DEF IInv, NoTagIsOrphaned
<1>5. QED
  BY <1>1, <1>3, <1>4 DEF IInv

LEMMA IdleOK == \A n : CmdOK(Idle, n)
BY DEF CmdOK, Idle

LEMMA EndStep ==
  ASSUME IInv, NEW t \in Terminal, End(t)
  PROVE  IInv'
BY GoStep, IdleOK DEF End

LEMMA OnlyQuiet ==
  ASSUME NEW c, NEW v, DOMAIN c = DOMAIN Idle
  PROVE  LET new == [c EXCEPT !.quiet = v] IN
         /\ DOMAIN new = DOMAIN Idle
         /\ new.step = c.step /\ new.call = c.call /\ new.id = c.id /\ new.since = c.since
         /\ new.known = c.known
BY DEF Idle

(* A commit leaves every other command as it was, but for its report.       *)
LEMMA CommitCommands ==
  ASSUME IInv, NEW t \in Terminal, NEW d, CommitOf(t, d), NEW n \in Nat, n >= Len(db.place)
  PROVE  /\ cmd' = [u \in Terminal |-> cmd'[u]]
         /\ \A u \in Terminal : CmdOK(cmd'[u], n)
<1> DEFINE Marked(u) == IF u = t THEN Idle
                        ELSE [cmd[u] EXCEPT !.quiet = @ /\ cmd[u].report = <<>>]
<1>1. cmd' = [u \in Terminal |-> Marked(u)]
  BY Zenon DEF CommitOf
<1>2. ASSUME NEW u \in Terminal, u # t
      PROVE  CmdOK(Marked(u), n)
  <2>1. CmdOK(cmd[u], Len(db.place)) /\ Len(db.place) \in Nat
    BY LenProperties DEF IInv, Typed
  <2>2. DOMAIN cmd[u] = DOMAIN Idle
    BY <2>1 DEF CmdOK
  <2>3. /\ DOMAIN Marked(u) = DOMAIN Idle
        /\ Marked(u).step = cmd[u].step /\ Marked(u).call = cmd[u].call
        /\ Marked(u).id = cmd[u].id /\ Marked(u).since = cmd[u].since
    BY <2>2, <1>2, OnlyQuiet, Zenon
  <2> HIDE DEF Marked
  <2>4. QED
    BY <2>1, <2>3 DEF CmdOK
<1>3. CmdOK(Marked(t), n)
  BY IdleOK, Zenon
<1> HIDE DEF Marked
<1>4. QED
  BY <1>1, <1>2, <1>3

LEMMA LoweredTags ==
  ASSUME NEW names \in SUBSET Word
  PROVE  LoweredNames(names) \in SUBSET Word /\ LowerTags(LoweredNames(names))
<1>1. \A w \in names : Lower[w] \in Word /\ Lower[Lower[w]] = Lower[w]
  BY SearchAssumption, JournalAssumption
<1>2. QED
  BY <1>1 DEF LoweredNames, LowerTags

LEMMA FewLowered ==
  ASSUME NEW names, IsFiniteSet(names)
  PROVE  IsFiniteSet(LoweredNames(names))
<1> DEFINE f == [w \in names |-> Lower[w]]
<1>1. f \in Surjection(names, LoweredNames(names))
  BY DEF Surjection, LoweredNames
<1>2. QED
  BY <1>1, FS_Surjection

LEMMA CallFields ==
  ASSUME NEW call \in Wanted
  PROVE  /\ call.kind = "add" =>
              /\ call.name \in Text /\ call.neighborhood \in Text /\ call.note \in Text
              /\ call.rating \in Rating \cup {NULL} /\ call.status \in Status \cup {NULL}
              /\ LoweredNames(call.tags) \in SUBSET Word /\ IsFiniteSet(LoweredNames(call.tags))
              /\ LowerTags(LoweredNames(call.tags))
         /\ call.kind = "visit" =>
              call.note \in Text \cup {NULL} /\ call.rating \in Rating \cup {NULL}
<1>1. call \in Calls
  BY JournalAssumption
<1>2. CASE call.kind = "add"
  <2>1. /\ call.name \in Text /\ call.neighborhood \in Text /\ call.note \in Text
        /\ call.rating \in Rating \cup {NULL} /\ call.status \in Status \cup {NULL}
        /\ call.tags \in SUBSET Word
    BY <1>1, <1>2 DEF Calls
  <2>2. IsFiniteSet(call.tags)
    BY <1>2, JournalAssumption
  <2>3. QED
    BY <1>2, <2>1, <2>2, LoweredTags, FewLowered
<1>3. CASE call.kind = "visit"
  BY <1>1, <1>3 DEF Calls
<1>4. QED
  BY <1>2, <1>3

LEMMA LastOfNext ==
  ASSUME NEW list \in Seq(Told), NEW r \in Told
  PROVE  Len(Append(list, r)) = Len(list) + 1 /\ Last(Append(list, r)) = r
<1>1. /\ Len(Append(list, r)) = Len(list) + 1
      /\ Append(list, r)[Len(list) + 1] = r
  BY AppendProperties, LenProperties
<1>2. QED
  BY <1>1 DEF Last

(* What `add` writes of a place is what it was told first.                  *)
LEMMA KeptAtFirst ==
  ASSUME NEW r \in Told, r.note \in Text, NEW place,
         place.note = r.note, place.rating = r.rating, place.last_visited_at = r.at
  PROVE  Kept(place, <<r>>)
<1>1. Len(<<r>>) = 1 /\ Last(<<r>>) = r
  BY DEF Last
<1>2. LastGiven(<<r>>, "note", Blank) = Given(r.note, Blank)
  BY FirstGiven
<1>3. LastGiven(<<r>>, "rating", NULL) = Given(r.rating, NULL)
  BY FirstGiven
<1>4. r.note # NULL
  BY JournalAssumption
<1>5. QED
  BY <1>1, <1>2, <1>3, <1>4 DEF Kept, Given

(* What a visit writes over a place agrees with what it was told next.      *)
LEMMA KeptAtNext ==
  ASSUME NEW list \in Seq(Told), NEW r \in Told, NEW old, Kept(old, list), NEW place,
         place.note = Given(r.note, old.note), place.rating = Given(r.rating, old.rating),
         place.last_visited_at = r.at, place.status = "visited"
  PROVE  Kept(place, Append(list, r))
<1>1. LastGiven(Append(list, r), "note", Blank) = Given(r.note, LastGiven(list, "note", Blank))
  BY NextGiven
<1>2. LastGiven(Append(list, r), "rating", NULL)
        = Given(r.rating, LastGiven(list, "rating", NULL))
  BY NextGiven
<1>3. Len(list) \in Nat
  BY LenProperties
<1>4. QED
  BY <1>1, <1>2, <1>3, LastOfNext DEF Kept

-----------------------------------------------------------------------------
(* What a commit must leave behind for the invariant to hold again.          *)
LEMMA CommitStep ==
  ASSUME IInv, NEW t \in Terminal, NEW d, CommitOf(t, d),
         d \in [place: Seq(Place), tag: SUBSET Word], Len(d.place) >= Len(db.place),
         LowerTags(d.tag), told' \in Seq(Seq(Told)), Len(told') = Len(d.place),
         \A i \in DOMAIN d.place : Kept(d.place[i], told'[i]),
         d.tag = UNION {d.place[i].tags : i \in DOMAIN d.place}
  PROVE  IInv'
<1>1. db' = d /\ now' = now
  BY DEF CommitOf
<1>2. Len(d.place) \in Nat
  BY LenProperties
<1>3. cmd' = [u \in Terminal |-> cmd'[u]] /\ \A u \in Terminal : CmdOK(cmd'[u], Len(d.place))
  BY <1>2, CommitCommands
<1>4. Typed'
  BY <1>1, <1>3 DEF IInv, Typed
<1>5. NoTagIsOrphaned'
  BY <1>1 DEF NoTagIsOrphaned
<1>6. QED
  BY <1>1, <1>4, <1>5 DEF IInv

LEMMA RowWritten ==
  ASSUME NEW d, NEW P, NEW T, d \in [place: P, tag: T], NEW i, NEW row,
         NEW e, e = [d EXCEPT !.place[i] = row]
  PROVE  /\ e = [place |-> e.place, tag |-> e.tag]
         /\ e.place = [d.place EXCEPT ![i] = row] /\ e.tag = d.tag
OBVIOUS

(* The tags that places carry, when one is added.                            *)
LEMMA OneMoreTagged ==
  ASSUME NEW n \in Nat, NEW p, NEW q, DOMAIN p = 1..n, DOMAIN q = 1..(n + 1),
         \A i \in 1..n : q[i] = p[i]
  PROVE  UNION {q[i].tags : i \in DOMAIN q}
           = (UNION {p[i].tags : i \in DOMAIN p}) \cup q[n + 1].tags
<1>1. {q[i].tags : i \in DOMAIN q} = {p[i].tags : i \in DOMAIN p} \cup {q[n + 1].tags}
  <2>1. 1..(n + 1) = 1..n \cup {n + 1}
    OBVIOUS
  <2>2. QED
    BY <2>1
<1>2. \A x : x \in UNION {q[i].tags : i \in DOMAIN q}
              <=> x \in UNION {p[i].tags : i \in DOMAIN p} \/ x \in q[n + 1].tags
  BY <1>1
<1>3. QED
  BY <1>2, SetExtensionality, Zenon

LEMMA AddStep ==
  ASSUME IInv, NEW t \in Terminal, NEW created_at, Add(t, created_at)
  PROVE  IInv'
<1> DEFINE call == cmd[t].call
           n == Len(db.place)
           place == [name |-> call.name, neighborhood |-> call.neighborhood,
             note |-> call.note, tags |-> LoweredNames(call.tags), rating |-> call.rating,
             status |-> IF call.status # NULL THEN call.status
                        ELSE IF call.rating # NULL THEN "visited" ELSE "wishlist",
             created_at |-> created_at, last_visited_at |-> NULL]
           r == [note |-> call.note, rating |-> call.rating, at |-> NULL]
           d == [place |-> Append(db.place, place), tag |-> db.tag \cup LoweredNames(call.tags)]
<1>1. /\ cmd[t].step = "write" /\ call.kind = "add" /\ created_at \in cmd[t].since..now
      /\ CommitOf(t, d) /\ told' = Append(told, <<r>>)
  BY DEF Add, Asks
<1>2. call \in Wanted /\ cmd[t].since \in Nat
  BY <1>1 DEF IInv, Typed, CmdOK
<1>3. /\ call.name \in Text /\ call.neighborhood \in Text /\ call.note \in Text
      /\ LoweredNames(call.tags) \in SUBSET Word /\ call.rating \in Rating \cup {NULL}
      /\ call.status \in Status \cup {NULL} /\ LowerTags(LoweredNames(call.tags))
  BY <1>1, <1>2, CallFields
<1>4. place \in Place /\ r \in Told /\ <<r>> \in Seq(Told)
  BY <1>1, <1>2, <1>3 DEF IInv, Typed, Place, Told, Status
<1>5. Kept(place, <<r>>)
  BY <1>3, <1>4, KeptAtFirst
<1>6. place.tags = LoweredNames(call.tags)
  OBVIOUS
<1>7. /\ db \in [place: Seq(Place), tag: SUBSET Word] /\ told \in Seq(Seq(Told))
      /\ Len(told) = n /\ \A i \in DOMAIN db.place : Kept(db.place[i], told[i])
      /\ db.tag = UNION {db.place[i].tags : i \in DOMAIN db.place}
  BY DEF IInv, Typed, NoTagIsOrphaned
<1> HIDE DEF place, r
<1>8. /\ n \in Nat /\ DOMAIN db.place = 1..n
      /\ Len(d.place) = n + 1 /\ d.place \in Seq(Place) /\ DOMAIN d.place = 1..(n + 1)
      /\ d.place[n + 1] = place /\ \A i \in 1..n : d.place[i] = db.place[i]
  BY <1>4, <1>7, AppendProperties, LenProperties
<1>9. /\ told' \in Seq(Seq(Told)) /\ Len(told') = n + 1
      /\ told'[n + 1] = <<r>> /\ \A i \in 1..n : told'[i] = told[i]
  BY <1>1, <1>4, <1>7, <1>8, AppendProperties, LenProperties
<1>10. \A i \in DOMAIN d.place : Kept(d.place[i], told'[i])
  <2> HIDE DEF d, n
  <2>1. \A i \in 1..n : Kept(d.place[i], told'[i])
    BY <1>7, <1>8, <1>9
  <2>2. Kept(d.place[n + 1], told'[n + 1])
    BY <1>5, <1>8, <1>9
  <2>3. \A i \in 1..(n + 1) : i \in 1..n \/ i = n + 1
    BY <1>8
  <2>4. QED
    BY <2>1, <2>2, <2>3, <1>8, Zenon
<1>11. d.tag = UNION {d.place[i].tags : i \in DOMAIN d.place}
  <2>1. d.tag = db.tag \cup LoweredNames(call.tags)
    OBVIOUS
  <2> HIDE DEF d, n
  <2>2. UNION {d.place[i].tags : i \in DOMAIN d.place}
          = (UNION {db.place[i].tags : i \in DOMAIN db.place}) \cup d.place[n + 1].tags
    BY ONLY <1>8, OneMoreTagged
  <2>3. QED
    BY <2>1, <2>2, <1>6, <1>7, <1>8
<1>12. d \in [place: Seq(Place), tag: SUBSET Word]
  BY <1>3, <1>7, <1>8
<1>lower. LowerTags(d.tag)
  BY <1>3 DEF IInv, Typed, LowerTags
<1>13. Len(d.place) >= Len(db.place) /\ Len(told') = Len(d.place)
  BY <1>8, <1>9 DEF n
<1> HIDE DEF d, n
<1>14. QED
  BY <1>1, <1>9, <1>10, <1>11, <1>12, <1>lower, <1>13, CommitStep, Zenon

LEMMA VisitSaveStep ==
  ASSUME IInv, NEW t \in Terminal, NEW at, VisitSave(t, at)
  PROVE  IInv'
<1> DEFINE i == cmd[t].id
           call == cmd[t].call
           n == Len(db.place)
           old == db.place[i]
           r == [note |-> call.note, rating |-> call.rating, at |-> at]
           place == [old EXCEPT !.status = "visited", !.last_visited_at = at,
                       !.note = Given(call.note, @), !.rating = Given(call.rating, @)]
           d == [db EXCEPT !.place[i] = place]
<1>1. /\ cmd[t].step = "save" /\ at \in cmd[t].since..now
      /\ told' = [told EXCEPT ![i] = Append(@, r)]
  BY DEF VisitSave, Asks
<1>2. /\ db \in [place: Seq(Place), tag: SUBSET Word] /\ told \in Seq(Seq(Told))
      /\ Len(told) = n /\ \A j \in DOMAIN db.place : Kept(db.place[j], told[j])
      /\ db.tag = UNION {db.place[j].tags : j \in DOMAIN db.place}
      /\ n \in Nat /\ DOMAIN db.place = 1..n /\ DOMAIN told = 1..n
  BY LenProperties DEF IInv, Typed, NoTagIsOrphaned
<1>3. /\ i \in 1..n /\ call \in Wanted /\ call.kind = "visit" /\ cmd[t].since \in Nat
      /\ now \in Nat
  BY <1>1 DEF IInv, Typed, CmdOK
<1>4. call.note \in Text \cup {NULL} /\ call.rating \in Rating \cup {NULL} /\ at \in Nat
  BY <1>1, <1>3, CallFields
<1>5. old \in Place /\ told[i] \in Seq(Told) /\ Kept(old, told[i]) /\ r \in Told
  BY <1>2, <1>3, <1>4 DEF Told
<1>6. /\ place \in Place /\ place.tags = old.tags /\ place.status = "visited"
      /\ place.last_visited_at = r.at /\ place.note = Given(r.note, old.note)
      /\ place.rating = Given(r.rating, old.rating)
  BY <1>4, <1>5 DEF Place, Given, Status
<1>7. CommitOf(t, d)
  BY Zenon DEF VisitSave
<1> HIDE DEF place, r, old
<1>row. /\ d = [place |-> d.place, tag |-> d.tag]
       /\ d.place = [db.place EXCEPT ![i] = place] /\ d.tag = db.tag
  <2>1. d = [db EXCEPT !.place[i] = place]
    OBVIOUS
  <2> HIDE DEF d, i
  <2>2. QED
    BY <1>2, <2>1, RowWritten
<1> HIDE DEF d, i
<1>8. /\ d.place \in Seq(Place) /\ Len(d.place) = n /\ DOMAIN d.place = 1..n
      /\ d.tag = db.tag /\ d \in [place: Seq(Place), tag: SUBSET Word]
      /\ \A j \in 1..n : d.place[j] = IF j = i THEN place ELSE db.place[j]
  <2>1. db.place \in Seq(Place) /\ i \in 1..Len(db.place) /\ place \in Place
    BY <1>2, <1>3, <1>6
  <2>2. /\ d.place \in Seq(Place) /\ Len(d.place) = Len(db.place)
        /\ \A j \in 1..Len(db.place) : d.place[j] = IF j = i THEN place ELSE db.place[j]
    BY <2>1, <1>row, ExceptSeq
  <2>3. DOMAIN d.place = 1..n
    BY <2>2, LenProperties
  <2>4. d.tag = db.tag /\ d \in [place: Seq(Place), tag: SUBSET Word]
    BY <2>2, <1>2, <1>row
  <2>5. QED
    BY <2>2, <2>3, <2>4
<1>9. /\ told' \in Seq(Seq(Told)) /\ Len(told') = n
      /\ \A j \in 1..n : told'[j] = IF j = i THEN Append(told[i], r) ELSE told[j]
  <2>1. Append(told[i], r) \in Seq(Told)
    BY <1>5, AppendProperties
  <2>2. QED
    BY <1>1, <1>2, <1>3, <2>1, ExceptSeq
<1>10. Kept(place, Append(told[i], r))
  BY <1>5, <1>6, KeptAtNext
<1>11. \A j \in DOMAIN d.place : Kept(d.place[j], told'[j])
  BY <1>2, <1>8, <1>9, <1>10
<1>12. d.tag = UNION {d.place[j].tags : j \in DOMAIN d.place}
  <2>1. \A j \in 1..n : d.place[j].tags = db.place[j].tags
    BY <1>6, <1>8 DEF old
  <2> HIDE DEF n
  <2>2. UNION {d.place[j].tags : j \in DOMAIN d.place}
          = UNION {db.place[j].tags : j \in DOMAIN db.place}
    <3>1. {d.place[j].tags : j \in 1..n} = {db.place[j].tags : j \in 1..n}
      BY <2>1
    <3>2. QED
      BY <3>1, <1>2, <1>8, Zenon
  <2>3. QED
    BY <2>2, <1>2, <1>8
<1>lower. LowerTags(d.tag)
  BY <1>8 DEF IInv, Typed
<1>13. Len(d.place) >= Len(db.place) /\ Len(told') = Len(d.place) 
  BY <1>2, <1>8, <1>9 DEF n
<1> HIDE DEF n
<1>14. QED
  BY <1>7, <1>8, <1>9, <1>11, <1>12, <1>lower, <1>13, CommitStep, Zenon

-----------------------------------------------------------------------------
(* A visit saves a place it resolved, one of those there are.                *)
LEMMA ResolvedStep ==
  ASSUME IInv, NEW t \in Terminal, cmd[t].step # "idle", cmd[t].call.kind = "visit",
         NEW i \in DOMAIN db.place, Resolved(t, i)
  PROVE  IInv'
<1> DEFINE next == [cmd[t] EXCEPT !.step = "save", !.since = now, !.id = i,
                                  !.place = db.place[i]]
<1>1. CmdOK(cmd[t], Len(db.place)) /\ i \in 1..Len(db.place)
  BY LenProperties DEF IInv, Typed
<1>2. /\ DOMAIN next = DOMAIN Idle
      /\ next.step = "save" /\ next.since = now /\ next.call = cmd[t].call /\ next.id = i
  <2>1. DOMAIN cmd[t] = DOMAIN Idle
    BY <1>1 DEF CmdOK
  <2>2. QED
    BY <2>1 DEF Idle
<1>3. Go(t, next)
  BY DEF Resolved
<1> HIDE DEF next
<1>4. CmdOK(next, Len(db.place))
  BY <1>1, <1>2 DEF CmdOK, IInv, Typed
<1>5. QED
  BY <1>3, <1>4, GoStep

(* Any other step of a command leaves the call it works on.                 *)
LEMMA MoveStep ==
  ASSUME IInv, NEW t \in Terminal, NEW next, Go(t, next), cmd[t].step # "idle",
         DOMAIN next = DOMAIN Idle, next.call = cmd[t].call, next.since = cmd[t].since,
         next.step # "save"
  PROVE  IInv'
<1>1. CmdOK(next, Len(db.place))
  BY DEF IInv, Typed, CmdOK
<1>2. QED
  BY <1>1, GoStep

LEMMA BeginStep ==
  ASSUME IInv, NEW t \in Terminal, NEW call \in Wanted, Begin(t, call)
  PROVE  IInv'
<1> DEFINE since == IF call.kind = "add" THEN now ELSE 0
           known == IF call.kind = "visit" THEN Len(db.place) ELSE 0
           next == [Idle EXCEPT !.step = FirstStep(call), !.call = call, !.since = since,
                                !.known = known]
<1>1. Go(t, next)
  BY Zenon DEF Begin
<1>2. FirstStep(call) # "save"
  BY DEF FirstStep
<1>3. since \in Nat
  BY DEF IInv, Typed
<1> HIDE DEF since, known
<1>4. /\ DOMAIN next = DOMAIN Idle
      /\ next.step = FirstStep(call) /\ next.since = since /\ next.call = call
  BY DEF Idle
<1> HIDE DEF next
<1>5. call.kind = "find" => Tokenize(call.query) # Blank
  BY DEF Begin
<1>6. CmdOK(next, Len(db.place))
  BY <1>2, <1>3, <1>4, <1>5 DEF CmdOK
<1>7. QED
  BY <1>1, <1>6, GoStep

LEMMA ExactsAreThere == \A typed : Exact(db.place, typed) \subseteq DOMAIN db.place
BY DEF Exact

LEMMA PartialsAreThere == \A typed : Partial(db.place, typed) \subseteq DOMAIN db.place
BY DEF Partial

LEMMA StatsStep ==
  ASSUME IInv, NEW t \in Terminal, Stats(t)
  PROVE  IInv'
<1>1. DOMAIN cmd[t] = DOMAIN Idle
  BY DEF IInv, Typed, CmdOK
<1>2. CASE StatsCounts(t)
  <2> DEFINE report == <<Summary(db)>>
             next == [cmd[t] EXCEPT !.step = "touched", !.report = report, !.quiet = TRUE]
  <2>1. cmd[t].step = "counts" /\ (End(t) \/ Go(t, next))
    BY <1>2, Zenon DEF StatsCounts, Asks
  <2> HIDE DEF report
  <2>2. /\ DOMAIN next = DOMAIN Idle /\ next.call = cmd[t].call
        /\ next.since = cmd[t].since /\ next.step = "touched"
    BY <1>1 DEF Idle
  <2> HIDE DEF next
  <2>3. QED
    BY <2>1, <2>2, MoveStep, EndStep
<1>3. ASSUME NEW step, NEW answer, NEW then, step # "idle", then # "save",
             StatsQuery(t, step, answer, then)
      PROVE  IInv'
  <2> DEFINE report == Append(cmd[t].report, answer)
             next == [cmd[t] EXCEPT !.step = then, !.report = report]
  <2>1. cmd[t].step = step /\ Go(t, next)
    BY <1>3, Zenon DEF StatsQuery, Asks
  <2> HIDE DEF report
  <2>2. /\ DOMAIN next = DOMAIN Idle /\ next.call = cmd[t].call
        /\ next.since = cmd[t].since /\ next.step = then
    BY <1>1 DEF Idle
  <2> HIDE DEF next
  <2>3. QED
    BY <1>3, <2>1, <2>2, MoveStep
<1>4. QED
  BY <1>2, <1>3, EndStep DEF Stats

(* Whatever step is taken, by whom, when: the invariant survives it.         *)
LEMMA Inductive == IInv /\ [Next]_vars => IInv'
<1> SUFFICES ASSUME IInv, [Next]_vars PROVE IInv'
  OBVIOUS
<1>1. ASSUME NEW t \in Terminal, NEW call \in Wanted, Begin(t, call)
      PROVE  IInv'
  BY <1>1, BeginStep
<1>2. ASSUME NEW t \in Terminal, Fails(t)
      PROVE  IInv'
  BY <1>2, EndStep DEF Fails
<1>3. ASSUME NEW t \in Terminal, NEW time, Add(t, time)
      PROVE  IInv'
  BY <1>3, AddStep
<1>4. ASSUME NEW t \in Terminal, VisitExact(t)
      PROVE  IInv'
  <2> DEFINE matches == Exact(db.place, cmd[t].call.name)
             next == [cmd[t] EXCEPT !.step = "partial"]
  <2>1. cmd[t].step = "exact" /\ cmd[t].call.kind = "visit"
    BY <1>4 DEF VisitExact, Asks
  <2>2. (\E i \in matches : Resolved(t, i)) \/ Go(t, next) \/ End(t)
    BY <1>4, Zenon DEF VisitExact
  <2>3. CASE \E i \in matches : Resolved(t, i)
    BY <2>1, <2>3, ExactsAreThere, ResolvedStep
  <2>4. CASE Go(t, next)
    <3>1. /\ DOMAIN next = DOMAIN Idle /\ next.call = cmd[t].call
          /\ next.since = cmd[t].since /\ next.step = "partial"
      <4>1. DOMAIN cmd[t] = DOMAIN Idle
        BY DEF IInv, Typed, CmdOK
      <4>2. QED
        BY <4>1 DEF Idle
    <3> HIDE DEF next
    <3>2. QED
      BY <2>1, <2>4, <3>1, MoveStep
  <2>5. QED
    BY <2>2, <2>3, <2>4, EndStep
<1>5. ASSUME NEW t \in Terminal, VisitPartial(t)
      PROVE  IInv'
  <2>1. cmd[t].step = "partial" /\ cmd[t].call.kind = "visit"
    BY <1>5 DEF VisitPartial, Asks
  <2>2. (\E i \in Partial(db.place, cmd[t].call.name) : Resolved(t, i)) \/ End(t)
    BY <1>5, Zenon DEF VisitPartial
  <2>3. QED
    BY <2>1, <2>2, PartialsAreThere, ResolvedStep, EndStep
<1>6. ASSUME NEW t \in Terminal, NEW time, VisitSave(t, time)
      PROVE  IInv'
  BY <1>6, VisitSaveStep
<1>7. ASSUME NEW t \in Terminal, Exists(t)
      PROVE  IInv'
  <2> DEFINE next == [cmd[t] EXCEPT !.step = "list"]
  <2>1. cmd[t].step = "exists" /\ (End(t) \/ Go(t, next))
    BY <1>7, Zenon DEF Exists
  <2>2. /\ DOMAIN next = DOMAIN Idle /\ next.call = cmd[t].call
        /\ next.since = cmd[t].since /\ next.step = "list"
    <3>1. DOMAIN cmd[t] = DOMAIN Idle
      BY DEF IInv, Typed, CmdOK
    <3>2. QED
      BY <3>1 DEF Idle
  <2> HIDE DEF next
  <2>3. QED
    BY <2>1, <2>2, MoveStep, EndStep
<1>8. ASSUME NEW t \in Terminal,
             \/ Todo(t) \/ Find(t) \/ SurpriseNothing(t)
             \/ \E i \in DOMAIN db.place : Surprise(t, i)
      PROVE  IInv'
  BY <1>8, EndStep DEF Todo, Find, SurpriseNothing, Surprise
<1>9. ASSUME NEW t \in Terminal, Stats(t)
      PROVE  IInv'
  BY <1>9, StatsStep
<1>10. ASSUME Tick
       PROVE  IInv'
  <2>1. now' = now + 1 /\ UNCHANGED <<db, cmd, told>>
    BY <1>10 DEF Tick
  <2>2. Typed'
    BY <2>1 DEF IInv, Typed
  <2>3. NoTagIsOrphaned'
    BY <2>1 DEF IInv, NoTagIsOrphaned
  <2>4. QED
    BY <2>1, <2>2, <2>3 DEF IInv
<1>11. ASSUME UNCHANGED vars
       PROVE  IInv'
  <2>1. UNCHANGED <<now, db, cmd, told>>
    BY <1>11 DEF vars
  <2>2. Typed'
    BY <2>1 DEF IInv, Typed
  <2>3. NoTagIsOrphaned'
    BY <2>1 DEF IInv, NoTagIsOrphaned
  <2>4. QED
    BY <2>1, <2>2, <2>3 DEF IInv
<1>12. QED
  BY <1>1, <1>2, <1>3, <1>4, <1>5, <1>6, <1>7, <1>8, <1>9, <1>10, <1>11 DEF Next

-----------------------------------------------------------------------------
(* Results.                                                                *)

(* Whatever the commands, the terminals and their interleaving: the          *)
(* database, the commands in progress and the history stay well-formed, and *)
(* the two facts below hold together.                                       *)
THEOREM Invariance == Spec => []IInv
<1>1. Init => IInv
  BY Begins
<1>2. IInv /\ [Next]_vars => IInv'
  BY Inductive
<1>3. QED
  BY <1>1, <1>2, PTL DEF Spec

(* A visit never puts back what another one wrote (visit.py:19).             *)
THEOREM FlagsKept == Spec => []FlagsAreKept
<1>1. IInv => FlagsAreKept
  BY DEF IInv, Kept, FlagsAreKept
<1>2. QED
  BY <1>1, Invariance, PTL

(* No command leaves a tag without a place (add.py:22).                      *)
THEOREM NoOrphans == Spec => []NoTagIsOrphaned
<1>1. IInv => NoTagIsOrphaned
  BY DEF IInv
<1>2. QED
  BY <1>1, Invariance, PTL

-----------------------------------------------------------------------------
(* What a visit means.                                                      *)

(* The row a visit is about to save: the property's three conditions, with   *)
(* the places that were there when the command began counted by their keys. *)
Meant(c, places) ==
  LET typed == c.call.name IN
  /\ c.id \in Partial(places, typed)
  /\ Exact(places, typed) \cap (1..c.known) \subseteq {c.id}
  /\ c.id \notin Exact(places, typed) =>
       Partial(places, typed) \cap (1..c.known) \subseteq {c.id}

(* A command looks for a part of a name only when no place that was there    *)
(* when it began has exactly that name.                                     *)
Looking(c, places) ==
  c.step \in {"exact", "partial", "save"} =>
    /\ c.known \in 0..Len(places)
    /\ c.step = "partial" => Exact(places, c.call.name) \cap (1..c.known) = {}
    /\ c.step = "save" => Meant(c, places)

LookInv == \A t \in Terminal : Looking(cmd[t], db.place)

(* Places keep their keys and names; more may come.                         *)
Extends(places, more) ==
  /\ Len(places) \in Nat /\ Len(more) \in Nat /\ Len(places) <= Len(more)
  /\ DOMAIN places = 1..Len(places) /\ DOMAIN more = 1..Len(more)
  /\ \A i \in DOMAIN places : more[i].name = places[i].name

LEMMA SameMatches ==
  ASSUME NEW places, NEW more, Extends(places, more), NEW typed,
         NEW known \in 0..Len(places)
  PROVE  /\ Exact(more, typed) \cap (1..known) = Exact(places, typed) \cap (1..known)
         /\ Partial(more, typed) \cap (1..known) = Partial(places, typed) \cap (1..known)
         /\ \A i \in DOMAIN places :
              /\ i \in Exact(more, typed) <=> i \in Exact(places, typed)
              /\ i \in Partial(more, typed) <=> i \in Partial(places, typed)
<1>1. \A i \in DOMAIN places :
        /\ i \in DOMAIN more
        /\ i \in Exact(more, typed) <=> i \in Exact(places, typed)
        /\ i \in Partial(more, typed) <=> i \in Partial(places, typed)
  BY DEF Extends, Exact, Partial
<1>2. \A i \in 1..known : i \in DOMAIN places
  BY DEF Extends
<1>3. QED
  BY <1>1, <1>2

LEMMA LookingLasts ==
  ASSUME NEW places, NEW more, Extends(places, more), NEW c, Looking(c, places)
  PROVE  Looking(c, more)
<1> SUFFICES ASSUME c.step \in {"exact", "partial", "save"}
             PROVE  /\ c.known \in 0..Len(more)
                    /\ c.step = "partial" => Exact(more, c.call.name) \cap (1..c.known) = {}
                    /\ c.step = "save" => Meant(c, more)
  BY DEF Looking
<1>1. c.known \in 0..Len(places)
  BY DEF Looking
<1>2. c.known \in 0..Len(more)
  BY <1>1 DEF Extends
<1>3. c.step = "partial" => Exact(more, c.call.name) \cap (1..c.known) = {}
  BY <1>1, SameMatches DEF Looking
<1>4. ASSUME c.step = "save"
      PROVE  Meant(c, more)
  <2>1. Meant(c, places) /\ c.id \in DOMAIN places
    BY <1>4 DEF Looking, Meant, Partial
  <2>2. QED
    BY <1>1, <2>1, SameMatches DEF Meant
<1>5. QED
  BY <1>2, <1>3, <1>4

(* The rows there are now; and rows stay when nothing is written.            *)
LEMMA Rows ==
  ASSUME IInv
  PROVE  /\ db.place \in Seq(Place) /\ Len(db.place) \in Nat
         /\ DOMAIN db.place = 1..Len(db.place) /\ Extends(db.place, db.place)
BY LenProperties DEF IInv, Typed, Extends

LEMMA GoLooks ==
  ASSUME IInv, LookInv, NEW t \in Terminal, NEW next, Go(t, next), Looking(next, db.place)
  PROVE  LookInv'
<1>1. db' = db /\ \A u \in Terminal : cmd'[u] = IF u = t THEN next ELSE cmd[u]
  BY DEF Go, IInv, Typed
<1>2. QED
  BY <1>1 DEF LookInv

LEMMA EndLooks ==
  ASSUME IInv, LookInv, NEW t \in Terminal, End(t)
  PROVE  LookInv'
<1>1. Looking(Idle, db.place)
  BY DEF Looking, Idle
<1>2. QED
  BY <1>1, GoLooks DEF End

LEMMA CommitLooks ==
  ASSUME IInv, LookInv, NEW t \in Terminal, NEW d, CommitOf(t, d), Extends(db.place, d.place)
  PROVE  LookInv'
<1> DEFINE Marked(u) == IF u = t THEN Idle
                        ELSE [cmd[u] EXCEPT !.quiet = @ /\ cmd[u].report = <<>>]
<1>1. cmd' = [u \in Terminal |-> Marked(u)] /\ db' = d
  BY Zenon DEF CommitOf
<1>2. ASSUME NEW u \in Terminal
      PROVE  Looking(Marked(u), d.place)
  <2>1. CASE u = t
    BY <2>1 DEF Looking, Idle
  <2>2. CASE u # t
    <3>1. DOMAIN cmd[u] = DOMAIN Idle
      BY DEF IInv, Typed, CmdOK
    <3>2. /\ Marked(u).step = cmd[u].step /\ Marked(u).call = cmd[u].call
          /\ Marked(u).id = cmd[u].id /\ Marked(u).known = cmd[u].known
      BY <2>2, <3>1, OnlyQuiet, Zenon
    <3> HIDE DEF Marked
    <3>3. Looking(cmd[u], d.place)
      BY LookingLasts DEF LookInv
    <3>4. QED
      BY <3>2, <3>3 DEF Looking, Meant
  <2>3. QED
    BY <2>1, <2>2
<1> HIDE DEF Marked
<1>3. QED
  BY <1>1, <1>2 DEF LookInv

(* A text is a sequence of numbers; and still a text as SQLite compares it.  *)
LEMMA TextIsOfNumbers ==
  ASSUME NEW text \in Text
  PROVE  text \in Seq(Nat)
<1>1. /\ Len(text) \in Nat /\ text = [j \in 1..Len(text) |-> text[j]]
      /\ \A j \in 1..Len(text) : text[j] \in Word
  BY LenProperties, ElementOfSeq DEF Text
<1>2. \A j \in 1..Len(text) : text[j] \in Nat
  BY <1>1, SearchAssumption
<1>3. QED
  BY <1>1, <1>2

LEMMA FoldedIsText ==
  ASSUME NEW text \in Text
  PROVE  Folded(text) \in Text
<1>1. Len(text) \in Nat /\ DOMAIN text = 1..Len(text) /\ \A k \in 1..Len(text) : text[k] \in Word
  BY ElementOfSeq, LenProperties DEF Text
<1>2. Folded(text) = [k \in 1..Len(text) |-> AsciiLower[text[k]]]
  BY <1>1, Zenon DEF Folded
<1>3. \A k \in 1..Len(text) : AsciiLower[text[k]] \in Word
  BY <1>1, SearchAssumption
<1>4. QED
  BY <1>1, <1>2, <1>3 DEF Text

(* A text is part of itself, and of one that SQLite takes for the same.      *)
LEMMA WholeIsPart ==
  ASSUME NEW text \in Text, NEW typed, IExact(text, typed)
  PROVE  IContains(text, typed)
<1> DEFINE folded == Folded(text)
<1>1. folded = Folded(typed) /\ folded \in Seq(Word)
  BY FoldedIsText DEF IExact, Text
<1> HIDE DEF folded
<1>2. Len(folded) \in Nat /\ SubSeq(folded, 1, Len(folded)) = folded
  BY <1>1
<1>3. \E k \in 0..(Len(folded) - Len(folded)) : SubSeq(folded, k + 1, k + Len(folded)) = folded
  BY <1>2
<1>4. HasPart(folded, folded)
  BY <1>3, Zenon DEF HasPart
<1>5. QED
  BY <1>1, <1>4 DEF IContains, folded

LEMMA ExactIsPartial ==
  ASSUME IInv, NEW typed
  PROVE  Exact(db.place, typed) \subseteq Partial(db.place, typed)
<1> SUFFICES ASSUME NEW i \in Exact(db.place, typed) PROVE i \in Partial(db.place, typed)
  OBVIOUS
<1>1. i \in DOMAIN db.place /\ IExact(db.place[i].name, typed)
  BY DEF Exact
<1>2. db.place[i] \in Place
  BY <1>1, Rows
<1>3. db.place[i].name \in Text
  BY <1>2 DEF Place
<1>4. QED
  BY <1>1, <1>3, WholeIsPart DEF Partial

(* A place that a visit resolved is the one that was meant.                 *)
LEMMA ResolvedLooks ==
  ASSUME IInv, LookInv, NEW t \in Terminal, cmd[t].step \in {"exact", "partial"},
         NEW i, Resolved(t, i),
         \/ Exact(db.place, cmd[t].call.name) = {i}
         \/ cmd[t].step = "partial" /\ Partial(db.place, cmd[t].call.name) = {i}
  PROVE  LookInv'
<1> DEFINE next == [cmd[t] EXCEPT !.step = "save", !.since = now, !.id = i,
                                  !.place = db.place[i]]
<1>1. /\ next.step = "save" /\ next.call = cmd[t].call /\ next.id = i
      /\ next.known = cmd[t].known
  <2>1. DOMAIN cmd[t] = DOMAIN Idle
    BY DEF IInv, Typed, CmdOK
  <2>2. QED
    BY <2>1 DEF Idle
<1>2. Go(t, next)
  BY DEF Resolved
<1> HIDE DEF next
<1>3. Looking(cmd[t], db.place)
  BY DEF LookInv
<1>4. Meant(next, db.place)
  <2>1. CASE Exact(db.place, cmd[t].call.name) = {i}
    BY <1>1, <2>1, ExactIsPartial DEF Meant
  <2>2. CASE cmd[t].step = "partial" /\ Partial(db.place, cmd[t].call.name) = {i}
    BY <1>1, <1>3, <2>2 DEF Meant, Looking
  <2>3. QED
    BY <2>1, <2>2
<1>5. Looking(next, db.place)
  BY <1>1, <1>3, <1>4 DEF Looking
<1>6. QED
  BY <1>2, <1>5, GoLooks

(* A command that looks for nothing is at none of the three steps.          *)
LEMMA ElsewhereLooks ==
  ASSUME IInv, LookInv, NEW t \in Terminal, NEW next, Go(t, next),
         next.step \notin {"exact", "partial", "save"}
  PROVE  LookInv'
BY GoLooks DEF Looking

LEMMA CountsOfMatches ==
  ASSUME IInv, NEW some \in SUBSET DOMAIN db.place
  PROVE  /\ Cardinality(some) = 0 => some = {}
         /\ Cardinality(some) = 1 => \E i \in some : some = {i}
<1>1. IsFiniteSet(DOMAIN db.place)
  BY Rows, FS_Interval
<1>2. IsFiniteSet(some)
  BY <1>1, FS_Subset
<1>3. QED
  BY <1>2, FS_EmptySet, FS_Singleton

LEMMA StatsLooks ==
  ASSUME IInv, LookInv, NEW t \in Terminal, Stats(t)
  PROVE  LookInv'
<1>1. DOMAIN cmd[t] = DOMAIN Idle
  BY DEF IInv, Typed, CmdOK
<1>2. CASE StatsCounts(t)
  <2> DEFINE report == <<Summary(db)>>
             next == [cmd[t] EXCEPT !.step = "touched", !.report = report, !.quiet = TRUE]
  <2>1. End(t) \/ Go(t, next)
    BY <1>2, Zenon DEF StatsCounts
  <2> HIDE DEF report
  <2>2. next.step = "touched"
    BY <1>1 DEF Idle
  <2> HIDE DEF next
  <2>3. QED
    BY <2>1, <2>2, ElsewhereLooks, EndLooks
<1>3. ASSUME NEW step, NEW answer, NEW then, then \notin {"exact", "partial", "save"},
             StatsQuery(t, step, answer, then)
      PROVE  LookInv'
  <2> DEFINE report == Append(cmd[t].report, answer)
             next == [cmd[t] EXCEPT !.step = then, !.report = report]
  <2>1. Go(t, next)
    BY <1>3, Zenon DEF StatsQuery
  <2> HIDE DEF report
  <2>2. next.step = then
    BY <1>1 DEF Idle
  <2> HIDE DEF next
  <2>3. QED
    BY <1>3, <2>1, <2>2, ElsewhereLooks
<1>4. QED
  BY <1>2, <1>3, EndLooks DEF Stats

LEMMA LookInductive == IInv /\ LookInv /\ [Next]_vars => LookInv'
<1> SUFFICES ASSUME IInv, LookInv, [Next]_vars PROVE LookInv'
  OBVIOUS
<1>0. \A t \in Terminal : DOMAIN cmd[t] = DOMAIN Idle
  BY DEF IInv, Typed, CmdOK
<1>1. ASSUME NEW t \in Terminal, NEW call \in Wanted, Begin(t, call)
      PROVE  LookInv'
  <2> DEFINE since == IF call.kind = "add" THEN now ELSE 0
             known == IF call.kind = "visit" THEN Len(db.place) ELSE 0
             next == [Idle EXCEPT !.step = FirstStep(call), !.call = call, !.since = since,
                                  !.known = known]
  <2>1. Go(t, next)
    BY <1>1, Zenon DEF Begin
  <2>2. FirstStep(call) \notin {"partial", "save"}
    BY DEF FirstStep
  <2>3. known \in 0..Len(db.place)
    BY Rows
  <2> HIDE DEF since, known
  <2>4. next.step = FirstStep(call) /\ next.known = known
    BY DEF Idle
  <2> HIDE DEF next
  <2>5. Looking(next, db.place)
    BY <2>2, <2>3, <2>4 DEF Looking
  <2>6. QED
    BY <2>1, <2>5, GoLooks
<1>2. ASSUME NEW t \in Terminal, NEW time, Add(t, time)
      PROVE  LookInv'
  <2> DEFINE call == cmd[t].call
             place == [name |-> call.name, neighborhood |-> call.neighborhood,
               note |-> call.note, tags |-> LoweredNames(call.tags), rating |-> call.rating,
               status |-> IF call.status # NULL THEN call.status
                          ELSE IF call.rating # NULL THEN "visited" ELSE "wishlist",
               created_at |-> time, last_visited_at |-> NULL]
             d == [place |-> Append(db.place, place), tag |-> db.tag \cup LoweredNames(call.tags)]
  <2>1. CommitOf(t, d)
    BY <1>2 DEF Add
  <2>2. d.place = Append(db.place, place)
    OBVIOUS
  <2> HIDE DEF place, d
  <2>3. Extends(db.place, d.place)
    <3>1. /\ Len(d.place) = Len(db.place) + 1 /\ DOMAIN d.place = 1..(Len(db.place) + 1)
          /\ \A i \in 1..Len(db.place) : d.place[i] = db.place[i]
      BY <2>2, Rows, AppendProperties
    <3>2. QED
      BY <3>1, Rows DEF Extends
  <2>4. QED
    BY <2>1, <2>3, CommitLooks
<1>3. ASSUME NEW t \in Terminal, NEW time, VisitSave(t, time)
      PROVE  LookInv'
  <2> DEFINE i == cmd[t].id
             old == db.place[i]
             place == [old EXCEPT !.status = "visited", !.last_visited_at = time,
                         !.note = Given(cmd[t].call.note, @),
                         !.rating = Given(cmd[t].call.rating, @)]
             d == [db EXCEPT !.place[i] = place]
  <2>1. CommitOf(t, d)
    BY <1>3, Zenon DEF VisitSave
  <2>2. i \in DOMAIN db.place
    BY <1>3, Rows DEF VisitSave, Asks, IInv, Typed, CmdOK
  <2>3. place.name = old.name
    <3>1. old \in Place
      BY <2>2, Rows
    <3>2. QED
      BY <3>1 DEF Place
  <2> HIDE DEF place, old
  <2>4. d.place = [db.place EXCEPT ![i] = place]
    <3>1. d = [db EXCEPT !.place[i] = place]
      OBVIOUS
    <3>2. db \in [place: Seq(Place), tag: SUBSET Word]
      BY DEF IInv, Typed
    <3> HIDE DEF d, i
    <3>3. QED
      BY <3>1, <3>2, RowWritten
  <2> HIDE DEF d, i
  <2>5. /\ DOMAIN d.place = DOMAIN db.place
        /\ \A j \in DOMAIN db.place : d.place[j].name = db.place[j].name
    BY <2>2, <2>3, <2>4 DEF old
  <2>6. Len(d.place) = Len(db.place)
    BY <2>5, Rows, LenProperties
  <2>7. Extends(db.place, d.place)
    BY <2>5, <2>6, Rows DEF Extends
  <2>8. QED
    BY <2>1, <2>7, CommitLooks
<1>4. ASSUME NEW t \in Terminal, VisitExact(t)
      PROVE  LookInv'
  <2> DEFINE matches == Exact(db.place, cmd[t].call.name)
             next == [cmd[t] EXCEPT !.step = "partial"]
  <2>1. cmd[t].step = "exact"
    BY <1>4 DEF VisitExact, Asks
  <2>2. \/ Cardinality(matches) = 1 /\ \E i \in matches : Resolved(t, i)
        \/ Cardinality(matches) = 0 /\ Go(t, next)
        \/ End(t)
    BY <1>4, Zenon DEF VisitExact
  <2>3. CASE Cardinality(matches) = 1 /\ \E i \in matches : Resolved(t, i)
    <3>1. PICK i \in matches : Resolved(t, i)
      BY <2>3
    <3>2. matches = {i}
      BY <2>3, <3>1, ExactsAreThere, CountsOfMatches
    <3>3. QED
      BY <2>1, <3>1, <3>2, ResolvedLooks
  <2>4. CASE Cardinality(matches) = 0 /\ Go(t, next)
    <3>1. matches = {}
      BY <2>4, ExactsAreThere, CountsOfMatches
    <3>2. next.step = "partial" /\ next.call = cmd[t].call /\ next.known = cmd[t].known
      BY <1>0 DEF Idle
    <3> HIDE DEF next
    <3>3. Looking(next, db.place)
      BY <2>1, <3>1, <3>2 DEF LookInv, Looking
    <3>4. QED
      BY <2>4, <3>3, GoLooks
  <2>5. QED
    BY <2>2, <2>3, <2>4, EndLooks
<1>5. ASSUME NEW t \in Terminal, VisitPartial(t)
      PROVE  LookInv'
  <2> DEFINE matches == Partial(db.place, cmd[t].call.name)
  <2>1. cmd[t].step = "partial"
    BY <1>5 DEF VisitPartial, Asks
  <2>2. (Cardinality(matches) = 1 /\ \E i \in matches : Resolved(t, i)) \/ End(t)
    BY <1>5, Zenon DEF VisitPartial
  <2>3. ASSUME Cardinality(matches) = 1, NEW i \in matches, Resolved(t, i)
        PROVE  LookInv'
    <3>1. matches = {i}
      BY <2>3, PartialsAreThere, CountsOfMatches
    <3>2. QED
      BY <2>1, <2>3, <3>1, ResolvedLooks
  <2>4. QED
    BY <2>2, <2>3, EndLooks
<1>6. ASSUME NEW t \in Terminal, Exists(t)
      PROVE  LookInv'
  <2> DEFINE next == [cmd[t] EXCEPT !.step = "list"]
  <2>1. End(t) \/ Go(t, next)
    BY <1>6, Zenon DEF Exists
  <2>2. next.step = "list"
    BY <1>0 DEF Idle
  <2> HIDE DEF next
  <2>3. QED
    BY <2>1, <2>2, ElsewhereLooks, EndLooks
<1>7. ASSUME NEW t \in Terminal,
             \/ Fails(t) \/ Todo(t) \/ Find(t) \/ SurpriseNothing(t)
             \/ \E i \in DOMAIN db.place : Surprise(t, i)
      PROVE  LookInv'
  BY <1>7, EndLooks DEF Fails, Todo, Find, SurpriseNothing, Surprise
<1>8. ASSUME NEW t \in Terminal, Stats(t)
      PROVE  LookInv'
  BY <1>8, StatsLooks
<1>9. CASE Tick \/ UNCHANGED vars
  <2>1. UNCHANGED <<db, cmd>>
    BY <1>9 DEF Tick, vars
  <2>2. QED
    BY <2>1 DEF LookInv
<1>10. QED
  BY <1>1, <1>2, <1>3, <1>4, <1>5, <1>6, <1>7, <1>8, <1>9 DEF Next

(* What the invariant says of a visit about to save, in the words of the     *)
(* property.                                                                *)
LEMMA MeantIsHit ==
  ASSUME IInv, LookInv, NEW t \in Terminal, Asks(t, "visit", "save")
  PROVE  LET i == cmd[t].id
             typed == cmd[t].call.name
             known == SubSeq(db.place, 1, cmd[t].known) IN
         /\ i \in Partial(db.place, typed)
         /\ Exact(known, typed) \subseteq {i}
         /\ i \notin Exact(db.place, typed) => Partial(known, typed) \subseteq {i}
<1> DEFINE n == cmd[t].known
           known == SubSeq(db.place, 1, n)
           typed == cmd[t].call.name
<1>1. n \in 0..Len(db.place) /\ Meant(cmd[t], db.place)
  BY DEF LookInv, Looking, Asks
<1>2. DOMAIN known = 1..n /\ \A i \in 1..n : known[i] = db.place[i] /\ i \in DOMAIN db.place
  BY <1>1, Rows
<1> HIDE DEF known, n
<1>3. /\ Exact(known, typed) = Exact(db.place, typed) \cap (1..n)
      /\ Partial(known, typed) = Partial(db.place, typed) \cap (1..n)
  BY <1>2 DEF Exact, Partial
<1>4. QED
  BY <1>1, <1>3 DEF Meant, known, n

(* However commands overlap, a visit stamps the place that was meant.       *)
THEOREM VisitsHit == Spec => VisitHitsItsPlace
<1> DEFINE Hits == \A t \in Terminal : 
             Asks(t, "visit", "save") /\ told' # told /\ cmd'[t] = Idle =>
               LET i == cmd[t].id
                   typed == cmd[t].call.name
                   known == SubSeq(db.place, 1, cmd[t].known) IN
               /\ i \in Partial(db.place, typed)
               /\ Exact(known, typed) \subseteq {i}
               /\ i \notin Exact(db.place, typed) => Partial(known, typed) \subseteq {i}
<1>1. Init => LookInv
  BY DEF Init, LookInv, Looking, Idle
<1>2. Spec => []LookInv
  BY <1>1, LookInductive, Invariance, PTL DEF Spec
<1>3. IInv /\ LookInv => Hits
  BY MeantIsHit
<1> HIDE DEF Hits
<1>4. IInv /\ LookInv /\ [Next]_vars => [Hits]_vars
  BY <1>3
<1>5. Spec => [][Hits]_vars
  BY <1>2, <1>4, Invariance, PTL DEF Spec
<1>6. QED
  BY <1>5 DEF Hits, VisitHitsItsPlace

-----------------------------------------------------------------------------
(* The draw.                                                                *)

(* So many whole days have passed when that many ticks per day have.         *)
LEMMA WholeDays ==
  ASSUME NEW age \in Nat, NEW day \in Nat \ {0}, NEW limit \in Nat
  PROVE  age \div day \in Nat /\ (age \div day >= limit <=> age >= limit * day)
OBVIOUS

(* What is printed of a place, and its tickets.                              *)
Aged(days, w) ==
  \/ w = 5 /\ days >= LONG_AGO_DAYS
  \/ w = 3 /\ days >= RECENT_DAYS /\ ~ (days >= LONG_AGO_DAYS)
  \/ w = 1 /\ ~ (days >= RECENT_DAYS)

Odds(why, days, w) ==
  /\ w \in Nat
  /\ why \in {"never_visited", "date_unknown", "last_visited"}
  /\ why = "never_visited" => w = 10
  /\ why = "date_unknown" => w = 5
  /\ why = "last_visited" => days \in Nat /\ Aged(days, w)

LEMMA OddsOfTwo ==
  ASSUME NEW y, NEW z, NEW d, NEW e, NEW w, NEW v, Odds(y, d, w), Odds(z, e, v)
  PROVE  /\ w > 0
         /\ y = "never_visited" => (w > v <=> z # "never_visited")
         /\ y = "date_unknown" /\ z = "last_visited" =>
              w >= v /\ (w = v <=> e >= LONG_AGO_DAYS)
         /\ y = "last_visited" /\ z = "last_visited" =>
              /\ d >= e => w >= v
              /\ w = v <=> /\ d >= RECENT_DAYS <=> e >= RECENT_DAYS
                           /\ d >= LONG_AGO_DAYS <=> e >= LONG_AGO_DAYS
<1>1. RECENT_DAYS \in Nat /\ LONG_AGO_DAYS \in Nat /\ RECENT_DAYS < LONG_AGO_DAYS
  BY JournalAssumption
<1>2. /\ w \in Nat /\ v \in Nat
      /\ y = "last_visited" => d \in Nat /\ Aged(d, w) /\ w \in {1, 3, 5}
      /\ z = "last_visited" => e \in Nat /\ Aged(e, v) /\ v \in {1, 3, 5}
      /\ y # "last_visited" => w \in {5, 10} /\ (w = 10 <=> y = "never_visited")
      /\ z # "last_visited" => v \in {5, 10} /\ (v = 10 <=> z = "never_visited")
  BY DEF Odds, Aged
<1>3. w > 0
  BY <1>2
<1>4. y = "never_visited" => (w > v <=> z # "never_visited")
  BY <1>2
<1>5. ASSUME y = "date_unknown", z = "last_visited"
      PROVE  w >= v /\ (w = v <=> e >= LONG_AGO_DAYS)
  <2>1. w = 5 /\ v \in Nat /\ e \in Nat /\ Aged(e, v)
    BY <1>2, <1>5
  <2>2. QED
    BY <1>1, <2>1 DEF Aged
<1>6. ASSUME y = "last_visited", z = "last_visited"
      PROVE  /\ d >= e => w >= v
             /\ w = v <=> /\ d >= RECENT_DAYS <=> e >= RECENT_DAYS
                          /\ d >= LONG_AGO_DAYS <=> e >= LONG_AGO_DAYS
  <2>1. d \in Nat /\ e \in Nat /\ w \in Nat /\ v \in Nat /\ Aged(d, w) /\ Aged(e, v)
    BY <1>2, <1>6
  <2>2. QED
    BY <1>1, <2>1 DEF Aged
<1>7. QED
  BY <1>3, <1>4, <1>5, <1>6, Zenon

(* Whatever was visited when, and however a day is divided: the odds follow  *)
(* the reason that is printed.                                              *)
THEOREM OddsAgree == Spec => []OddsFollowTheReason
<1>1. ASSUME IInv PROVE OddsFollowTheReason
  <2> DEFINE p(i) == db.place[i]
             W(i) == Weight(p(i), now)
             Why(i) == Reason(p(i), now).why
             Days(i) == Reason(p(i), now).days
  <2>1. /\ now \in Nat /\ RECENT_DAYS \in Nat /\ LONG_AGO_DAYS \in Nat /\ DAY \in Nat \ {0}
        /\ RECENT_DAYS < LONG_AGO_DAYS /\ NULL \notin Nat
    BY <1>1, JournalAssumption DEF IInv, Typed
  <2>2. ASSUME NEW i \in DOMAIN db.place
        PROVE  Odds(Why(i), Days(i), W(i))
    <3>1. p(i) \in Place
      BY <1>1, Rows
    <3>2. p(i).status \in {"wishlist", "visited"} /\ p(i).last_visited_at \in Nat \cup {NULL}
      BY <3>1 DEF Place, Status
    <3>3. CASE p(i).status = "wishlist"
      <4>1. W(i) = 10 /\ Why(i) = "never_visited"
        BY <3>3 DEF Weight, Reason, WISHLIST_WEIGHT
      <4> HIDE DEF W, Why, Days
      <4>2. QED
        BY <4>1 DEF Odds
    <3>4. CASE p(i).status = "visited" /\ p(i).last_visited_at = NULL
      <4>1. W(i) = 5 /\ Why(i) = "date_unknown"
        BY <3>4 DEF Weight, Reason, LONG_AGO_WEIGHT
      <4> HIDE DEF W, Why, Days
      <4>2. QED
        BY <4>1 DEF Odds
    <3>5. CASE p(i).status = "visited" /\ p(i).last_visited_at # NULL
      <4> DEFINE age == Age(p(i), now)
                 days == age \div DAY
      <4>1. age \in Nat
        BY <2>1, <3>2, <3>5 DEF Age
      <4>2. /\ days \in Nat
            /\ days >= LONG_AGO_DAYS <=> age >= LONG_AGO_DAYS * DAY
            /\ days >= RECENT_DAYS <=> age >= RECENT_DAYS * DAY
        BY <2>1, <4>1, WholeDays
      <4>3. W(i) = IF age >= LONG_AGO_DAYS * DAY THEN 5
                   ELSE IF age >= RECENT_DAYS * DAY THEN 3 ELSE 1
        BY <3>5 DEF Weight, LONG_AGO_WEIGHT, MIDDLING_WEIGHT, RECENT_WEIGHT
      <4>4. Why(i) = "last_visited" /\ Days(i) = days
        BY <3>5 DEF Reason
      <4> HIDE DEF W, Why, Days, days, age, p
      <4>5. QED
        BY <2>1, <4>1, <4>2, <4>3, <4>4 DEF Odds, Aged
    <3>6. QED
      BY <3>2, <3>3, <3>4, <3>5
  <2>3. ASSUME NEW i \in DOMAIN db.place, NEW j \in DOMAIN db.place
        PROVE  /\ W(i) > 0
               /\ Why(i) = "never_visited" => (W(i) > W(j) <=> Why(j) # "never_visited")
               /\ Why(i) = "date_unknown" /\ Why(j) = "last_visited" =>
                    /\ W(i) >= W(j)
                    /\ W(i) = W(j) <=> Days(j) >= LONG_AGO_DAYS
               /\ Why(i) = "last_visited" /\ Why(j) = "last_visited" =>
                    /\ Days(i) >= Days(j) => W(i) >= W(j)
                    /\ W(i) = W(j) <=> /\ Days(i) >= RECENT_DAYS <=> Days(j) >= RECENT_DAYS
                                       /\ Days(i) >= LONG_AGO_DAYS <=> Days(j) >= LONG_AGO_DAYS
    <3>1. Odds(Why(i), Days(i), W(i)) /\ Odds(Why(j), Days(j), W(j))
      BY <2>2
    <3> HIDE DEF W, Why, Days, p
    <3>2. QED
      BY <3>1, OddsOfTwo
  <2>4. QED
    BY <2>3, Zenon DEF OddsFollowTheReason
<1>2. QED
  BY <1>1, Invariance, PTL

-----------------------------------------------------------------------------
(* Sorted lists.                                                           *)

(* R, a set of pairs, orders S from first to last.                          *)
Linear(S, R) ==
  /\ \A a \in S : <<a, a>> \notin R
  /\ \A a, b \in S : a = b \/ <<a, b>> \in R \/ <<b, a>> \in R
  /\ \A a, b, c \in S : <<a, b>> \in R /\ <<b, c>> \in R => <<a, c>> \in R

(* s lists S in that order.                                                 *)
Lists(s, S, R) ==
  /\ s \in [1..Cardinality(S) -> S]
  /\ \A i, j \in DOMAIN s : i < j => <<s[i], s[j]>> \in R

(* A finite set that is ordered can be listed: an element goes where there  *)
(* are as many before it.                                                   *)
LEMMA ListThereIs ==
  ASSUME NEW S, IsFiniteSet(S), NEW R, Linear(S, R)
  PROVE  \E s : Lists(s, S, R)
<1> DEFINE n == Cardinality(S)
           UpTo(a) == {b \in S : b = a \/ <<b, a>> \in R}
           at == [a \in S |-> Cardinality(UpTo(a))]
           s == [k \in 1..n |-> CHOOSE a \in S : at[a] = k]
<1>1. n \in Nat
  BY FS_CardinalityType
<1>2. ASSUME NEW a \in S
      PROVE  IsFiniteSet(UpTo(a)) /\ Cardinality(UpTo(a)) \in 1..n
  <2>1. UpTo(a) \in SUBSET S /\ a \in UpTo(a)
    OBVIOUS
  <2>2. IsFiniteSet(UpTo(a)) /\ Cardinality(UpTo(a)) <= n
    BY <2>1, FS_Subset
  <2>3. Cardinality(UpTo(a)) # 0 /\ Cardinality(UpTo(a)) \in Nat
    BY <2>1, <2>2, FS_EmptySet, FS_CardinalityType
  <2>4. QED
    BY <1>1, <2>2, <2>3
<1>3. ASSUME NEW a \in S, NEW b \in S, <<a, b>> \in R
      PROVE  at[a] < at[b]
  <2>1. UpTo(a) \in SUBSET UpTo(b)
    BY <1>3 DEF Linear
  <2>2. b \in UpTo(b) /\ b \notin UpTo(a)
    BY <1>3 DEF Linear
  <2>3. Cardinality(UpTo(a)) <= Cardinality(UpTo(b)) /\ Cardinality(UpTo(a)) # Cardinality(UpTo(b))
    BY <1>2, <2>1, <2>2, FS_Subset
  <2>4. QED
    BY <1>2, <2>3
<1>4. \A a \in S : at[a] \in 1..n
  BY <1>2
<1> HIDE DEF at
<1>5. ASSUME NEW a \in S, NEW b \in S, at[a] = at[b]
      PROVE  a = b
  <2>1. at[a] \in Int /\ at[b] \in Int
    BY <1>1, <1>4
  <2>2. ~ (<<a, b>> \in R) /\ ~ (<<b, a>> \in R)
    BY <1>3, <1>5, <2>1
  <2>3. QED
    BY <2>2 DEF Linear
<1>6. \A k \in 1..n : \E a \in S : at[a] = k
  <2>0. at \in [S -> 1..n]
    BY <1>4 DEF at
  <2>1. at \in Injection(S, 1..n)
    BY <1>5, <2>0 DEF Injection, IsInjective
  <2>2. IsFiniteSet(1..n) /\ Cardinality(1..n) = n
    BY <1>1, FS_Interval
  <2>3. at \in Surjection(S, 1..n)
    BY <2>1, <2>2, FS_Injection
  <2>4. QED
    BY <2>3 DEF Surjection
<1> HIDE DEF n
<1>7. \A k \in 1..n : s[k] \in S /\ at[s[k]] = k
  BY <1>6
<1>8. s \in [1..n -> S] /\ DOMAIN s = 1..n
  BY <1>7
<1> HIDE DEF s
<1>9. ASSUME NEW i \in 1..n, NEW j \in 1..n, i < j
      PROVE  <<s[i], s[j]>> \in R
  <2>1. s[i] \in S /\ s[j] \in S /\ at[s[i]] = i /\ at[s[j]] = j
    BY <1>7
  <2>2. ~ (<<s[j], s[i]>> \in R) /\ s[i] # s[j]
    BY <1>1, <1>3, <1>9, <2>1
  <2>3. QED
    BY <2>1, <2>2 DEF Linear
<1>10. Lists(s, S, R)
  BY <1>8, <1>9 DEF Lists, n
<1>11. QED
  BY <1>10

(* A list of a set has each of its elements, once.                          *)
LEMMA ListIsAll ==
  ASSUME NEW S, IsFiniteSet(S), NEW R, Linear(S, R), NEW s, Lists(s, S, R)
  PROVE  /\ \A i, j \in DOMAIN s : s[i] = s[j] => i = j
         /\ \A a \in S : \E k \in DOMAIN s : s[k] = a
<1> DEFINE n == Cardinality(S)
<1>1. s \in [1..n -> S] /\ n \in Nat /\ DOMAIN s = 1..n
  BY FS_CardinalityType DEF Lists
<1>2. ASSUME NEW i \in 1..n, NEW j \in 1..n, s[i] = s[j], i < j PROVE FALSE
  BY <1>1, <1>2 DEF Lists, Linear
<1>3. \A i, j \in 1..n : s[i] = s[j] => i = j
  BY <1>1, <1>2
<1>4. s \in Injection(1..n, S)
  BY <1>1, <1>3 DEF Injection, IsInjective
<1>5. IsFiniteSet(1..n) /\ Cardinality(1..n) = n
  BY <1>1, FS_Interval
<1>6. s \in Surjection(1..n, S)
  BY <1>4, <1>5, FS_Injection
<1>7. QED
  BY <1>1, <1>3, <1>6 DEF Surjection

(* Numbers in a list by size.                                               *)
LEMMA NumbersInOrder ==
  ASSUME NEW S \in SUBSET Int, IsFiniteSet(S)
  PROVE  LET s == InOrder(S, <) IN
         /\ s \in [1..Cardinality(S) -> S] /\ DOMAIN s = 1..Cardinality(S)
         /\ \A i, j \in DOMAIN s : i < j => s[i] < s[j]
         /\ \A a \in S : \E k \in DOMAIN s : s[k] = a
<1> DEFINE R == {p \in S \X S : p[1] < p[2]}
           s == InOrder(S, <)
<1>1. \A a, b \in S : <<a, b>> \in R <=> a < b
  OBVIOUS
<1> HIDE DEF R
<1>2. Linear(S, R)
  BY <1>1 DEF Linear
<1>3. \E t : Lists(t, S, R)
  BY <1>2, ListThereIs
<1>4. \E t \in [1..Cardinality(S) -> S] : \A i, j \in DOMAIN t : i < j => t[i] < t[j]
  BY <1>1, <1>3 DEF Lists
<1>5. s \in [1..Cardinality(S) -> S] /\ \A i, j \in DOMAIN s : i < j => s[i] < s[j]
  BY <1>4 DEF InOrder
<1> HIDE DEF s
<1>6. Lists(s, S, R)
  BY <1>1, <1>5 DEF Lists
<1>7. QED
  BY <1>2, <1>5, <1>6, ListIsAll DEF s

-----------------------------------------------------------------------------
(* Texts in a dictionary.                                                  *)

(* Two different texts differ at a first place, where one is smaller or has  *)
(* ended.                                                                  *)
DifferAt(s, t, k) ==
  /\ k \in Nat \ {0}
  /\ k - 1 <= Len(s) /\ k - 1 <= Len(t)
  /\ \A j \in 1..(k - 1) : s[j] = t[j]
  /\ k <= Len(s) \/ k <= Len(t)
  /\ k <= Len(s) /\ k <= Len(t) => s[k] # t[k]

LEMMA FirstDifference ==
  ASSUME NEW s \in Seq(Nat), NEW t \in Seq(Nat), s # t
  PROVE  \E k : DifferAt(s, t, k)
<1> DEFINE less == OpToRel(<, Nat)
           Same(k) == k <= Len(s) /\ k <= Len(t) /\ s[k] = t[k]
           off == {k \in Nat \ {0} : ~ Same(k)}
<1>1. /\ Len(s) \in Nat /\ Len(t) \in Nat
      /\ DOMAIN s = 1..Len(s) /\ DOMAIN t = 1..Len(t)
  BY LenProperties
<1>2. PICK m \in off : \A y \in off : ~ (y < m)
  <2>1. Len(s) + 1 \in off
    BY <1>1
  <2>2. off \subseteq Nat /\ off # {}
    BY <2>1
  <2>3. IsWellFoundedOn(less, Nat)
    BY NatLessThanWellFounded
  <2> HIDE DEF off, less
  <2>4. PICK m \in off : \A y \in off : ~ (<<y, m>> \in less)
    BY <2>2, <2>3, WFMin
  <2>5. \A y \in off : ~ (y < m)
    BY <2>2, <2>4 DEF less, OpToRel
  <2>6. QED
    BY <2>5
<1>3. m \in Nat \ {0} /\ ~ Same(m)
  OBVIOUS
<1>4. \A j \in 1..(m - 1) : Same(j)
  <2>1. ASSUME NEW j \in 1..(m - 1), ~ Same(j) PROVE FALSE
    <3>1. j \in off /\ j < m
      BY <1>3, <2>1
    <3>2. QED
      BY <1>2, <3>1
  <2>2. QED
    BY <2>1
<1> HIDE DEF off
<1>5. m - 1 <= Len(s) /\ m - 1 <= Len(t)
  <2>1. CASE m = 1
    BY <1>1, <2>1
  <2>2. CASE m # 1
    <3>1. m - 1 \in 1..(m - 1)
      BY <1>3, <2>2
    <3>2. QED
      BY <1>4, <3>1
  <2>3. QED
    BY <2>1, <2>2
<1>6. m <= Len(s) \/ m <= Len(t)
  <2>1. SUFFICES ASSUME ~ (m <= Len(s)), ~ (m <= Len(t)) PROVE FALSE
    OBVIOUS
  <2>2. Len(s) = m - 1 /\ Len(t) = m - 1
    BY <1>1, <1>3, <1>5, <2>1
  <2>3. \A j \in 1..(m - 1) : s[j] = t[j]
    BY <1>4
  <2>4. s = t
    BY <2>2, <2>3, SeqEqual
  <2>5. QED
    BY <2>4
<1>7. DifferAt(s, t, m)
  BY <1>3, <1>4, <1>5, <1>6 DEF DifferAt
<1>8. QED
  BY <1>7

LEMMA TextOrder ==
  /\ \A s \in Seq(Nat) : ~ TextBefore(s, s)
  /\ \A s, t \in Seq(Nat) : s = t \/ TextBefore(s, t) \/ TextBefore(t, s)
  /\ \A s, t, u \in Seq(Nat) : TextBefore(s, t) /\ TextBefore(t, u) => TextBefore(s, u)
<1>1. ASSUME NEW s \in Seq(Nat) PROVE ~ TextBefore(s, s)
  BY LenProperties DEF TextBefore
<1>2. ASSUME NEW s \in Seq(Nat), NEW t \in Seq(Nat), s # t
      PROVE  TextBefore(s, t) \/ TextBefore(t, s)
  <2>1. PICK k : DifferAt(s, t, k)
    BY <1>2, FirstDifference
  <2>2. /\ Len(s) \in Nat /\ Len(t) \in Nat
        /\ DOMAIN s = 1..Len(s) /\ DOMAIN t = 1..Len(t)
        /\ \A j \in 1..Len(s) : s[j] \in Nat
        /\ \A j \in 1..Len(t) : t[j] \in Nat
    BY LenProperties, ElementOfSeq
  <2>3. CASE k <= Len(t) /\ (k > Len(s) \/ s[k] < t[k])
    <3>1. k \in DOMAIN t /\ k - 1 <= Len(s) /\ \A j \in 1..(k - 1) : s[j] = t[j]
      BY <2>1, <2>2, <2>3 DEF DifferAt
    <3>2. QED
      BY <2>3, <3>1 DEF TextBefore
  <2>4. CASE k <= Len(s) /\ (k > Len(t) \/ t[k] < s[k])
    <3>1. k \in DOMAIN s /\ k - 1 <= Len(t) /\ \A j \in 1..(k - 1) : t[j] = s[j]
      BY <2>1, <2>2, <2>4 DEF DifferAt
    <3>2. QED
      BY <2>4, <3>1 DEF TextBefore
  <2>5. QED
    BY <2>1, <2>2, <2>3, <2>4 DEF DifferAt
<1>3. ASSUME NEW s \in Seq(Nat), NEW t \in Seq(Nat), NEW u \in Seq(Nat),
             TextBefore(s, t), TextBefore(t, u)
      PROVE  TextBefore(s, u)
  <2>1. /\ Len(s) \in Nat /\ Len(t) \in Nat /\ Len(u) \in Nat
        /\ DOMAIN s = 1..Len(s) /\ DOMAIN t = 1..Len(t) /\ DOMAIN u = 1..Len(u)
        /\ \A j \in 1..Len(s) : s[j] \in Nat
        /\ \A j \in 1..Len(t) : t[j] \in Nat
        /\ \A j \in 1..Len(u) : u[j] \in Nat
    BY LenProperties, ElementOfSeq
  <2>2. PICK k \in 1..Len(t) : /\ k - 1 <= Len(s)
                               /\ \A j \in 1..(k - 1) : s[j] = t[j]
                               /\ k > Len(s) \/ s[k] < t[k]
    BY <1>3, <2>1 DEF TextBefore
  <2>3. PICK m \in 1..Len(u) : /\ m - 1 <= Len(t)
                               /\ \A j \in 1..(m - 1) : t[j] = u[j]
                               /\ m > Len(t) \/ t[m] < u[m]
    BY <1>3, <2>1 DEF TextBefore
  <2>4. CASE k < m
    <3>1. k \in 1..Len(u) /\ \A j \in 1..(k - 1) : s[j] = u[j]
      BY <2>1, <2>2, <2>3, <2>4
    <3>2. t[k] = u[k]
      BY <2>1, <2>2, <2>3, <2>4
    <3>3. k \in DOMAIN u /\ (k > Len(s) \/ s[k] < u[k])
      BY <2>1, <2>2, <3>1, <3>2
    <3>4. QED
      BY <2>2, <3>1, <3>3, Zenon DEF TextBefore
  <2>5. CASE k = m
    <3>1. \A j \in 1..(k - 1) : s[j] = u[j]
      BY <2>1, <2>2, <2>3, <2>5
    <3>2. k > Len(s) \/ s[k] < u[k]
      <4>1. t[k] < u[k] /\ k \in 1..Len(u)
        BY <2>2, <2>3, <2>5
      <4>2. CASE s[k] < t[k] /\ k <= Len(s)
        <5>1. k \in 1..Len(s) /\ k \in 1..Len(t)
          BY <2>1, <4>2
        <5>2. s[k] \in Nat /\ t[k] \in Nat /\ u[k] \in Nat
          BY <4>1, <5>1, ElementOfSeq
        <5> DEFINE a == s[k]
                   b == t[k]
                   c == u[k]
        <5>3. a \in Nat /\ b \in Nat /\ c \in Nat /\ a < b /\ b < c
          BY <4>1, <4>2, <5>2, Zenon
        <5> HIDE DEF a, b, c
        <5>4. a < c
          BY <5>3
        <5>5. QED
          BY <5>4, Zenon DEF a, c
      <4>3. QED
        BY <2>1, <2>2, <4>2
    <3>3. k \in DOMAIN u /\ k - 1 <= Len(s)
      BY <2>1, <2>2, <2>3, <2>5
    <3>4. QED
      BY <3>1, <3>2, <3>3, Zenon DEF TextBefore
  <2>6. CASE k > m
    <3>1. m \in 1..Len(s) /\ m \in 1..Len(t) /\ \A j \in 1..(m - 1) : s[j] = u[j]
      BY <2>1, <2>2, <2>3, <2>6
    <3>2. t[m] < u[m]
      BY <2>1, <2>3, <3>1
    <3>3. s[m] = t[m]
      <4>1. m \in 1..(k - 1)
        BY <2>1, <2>6
      <4>2. QED
        BY <2>2, <4>1
    <3>4. s[m] < u[m]
      BY <3>2, <3>3
    <3>5. m - 1 <= Len(s)
      BY <2>1, <3>1
    <3>6. m \in DOMAIN u
      BY <2>1, <2>3
    <3>7. QED
      BY <3>1, <3>4, <3>5, <3>6, Zenon DEF TextBefore
  <2>7. QED
    BY <2>4, <2>5, <2>6
<1>4. QED
  BY <1>1, <1>2, <1>3

-----------------------------------------------------------------------------
(* Counting.                                                               *)

(* What rows with a count each count together.                              *)
Under(rows, labels) == Cardinality(UNION {{label} \X (1..rows[label]) : label \in labels})
Total(rows) == Under(rows, DOMAIN rows)

(* A row for each label that key gives to one of n things.                   *)
Groups(n, key, rows) ==
  /\ DOMAIN rows = {key[i] : i \in 1..n}
  /\ \A label \in DOMAIN rows : rows[label] = Cardinality({i \in 1..n : key[i] = label})

(* Things counted under some labels add up to the things that have one.     *)
LEMMA GroupsAddUp ==
  ASSUME NEW n \in Nat, NEW key, NEW rows, Groups(n, key, rows),
         NEW labels \in SUBSET DOMAIN rows
  PROVE  Under(rows, labels) = Cardinality({i \in 1..n : key[i] \in labels})
<1> DEFINE Of(label) == {i \in 1..n : key[i] = label}
           things == {i \in 1..n : key[i] \in labels}
           all == UNION {{label} \X (1..rows[label]) : label \in labels}
           nth == [label \in labels |-> CHOOSE f : f \in Bijection(1..rows[label], Of(label))]
           to == [p \in all |-> nth[p[1]][p[2]]]
<1>1. \A label \in labels : rows[label] = Cardinality(Of(label)) /\ \E i \in 1..n : key[i] = label
  BY DEF Groups
<1>2. ASSUME NEW label \in labels
      PROVE  /\ rows[label] \in Nat \ {0}
             /\ nth[label] \in Bijection(1..rows[label], Of(label))
  <2>1. IsFiniteSet(1..n)
    <3>1. 1 \in Int /\ n \in Int
      OBVIOUS
    <3>2. QED
      BY ONLY <3>1, FS_Interval
  <2>2. IsFiniteSet(Of(label))
    BY <2>1, FS_Subset
  <2>3. rows[label] \in Nat /\ ExistsBijection(1..rows[label], Of(label))
    BY <1>1, <2>2, FS_CardinalityType
  <2>4. Of(label) # {}
    BY <1>1
  <2>5. rows[label] # 0
    BY <1>1, <2>2, <2>4, FS_EmptySet
  <2>6. \E f : f \in Bijection(1..rows[label], Of(label))
    BY <2>3 DEF ExistsBijection
  <2>7. QED
    BY <2>3, <2>5, <2>6
<1>3. ASSUME NEW p \in all
      PROVE  p[1] \in labels /\ p[2] \in 1..rows[p[1]] /\ p = <<p[1], p[2]>>
  <2>1. PICK label \in labels : p \in {label} \X (1..rows[label])
    OBVIOUS
  <2> HIDE DEF all
  <2>2. QED
    BY <2>1
<1>4. \A label \in labels : \A k \in 1..rows[label] : <<label, k>> \in all
  BY <1>1
<1>5. \A i : i \in things <=> i \in 1..n /\ key[i] \in labels
  OBVIOUS
<1> HIDE DEF all, nth, things
<1>6. ASSUME NEW p \in all
      PROVE  to[p] \in things /\ key[to[p]] = p[1] /\ to[p] = nth[p[1]][p[2]]
  <2>1. p[1] \in labels /\ p[2] \in 1..rows[p[1]] /\ to[p] = nth[p[1]][p[2]]
    BY <1>3
  <2> HIDE DEF to
  <2>2. nth[p[1]] \in [1..rows[p[1]] -> Of(p[1])]
    BY <1>2, <2>1 DEF Bijection, Injection
  <2>3. to[p] \in Of(p[1])
    BY <2>1, <2>2
  <2>4. QED
    BY <1>5, <2>1, <2>3
<1> HIDE DEF to
<1>7. ASSUME NEW p \in all, NEW q \in all, to[p] = to[q]
      PROVE  p = q
  <2>1. p[1] = q[1]
    BY <1>6, <1>7
  <2>2. nth[p[1]][p[2]] = nth[p[1]][q[2]]
    BY <1>6, <1>7, <2>1
  <2>3. p[2] = q[2]
    <3>1. p[1] \in labels /\ p[2] \in 1..rows[p[1]] /\ q[2] \in 1..rows[p[1]]
      BY <1>3, <2>1
    <3>2. \A a, b \in 1..rows[p[1]] : nth[p[1]][a] = nth[p[1]][b] => a = b
      <4>1. nth[p[1]] \in Injection(1..rows[p[1]], Of(p[1]))
        BY <1>2, <3>1 DEF Bijection
      <4>2. nth[p[1]] \in [1..rows[p[1]] -> Of(p[1])] /\ IsInjective(nth[p[1]])
        BY <4>1 DEF Injection
      <4>3. QED
        BY <4>2 DEF IsInjective
    <3>3. QED
      BY <2>2, <3>1, <3>2
  <2>4. QED
    BY <1>3, <2>1, <2>3
<1>8. ASSUME NEW i \in things
      PROVE  \E p \in all : to[p] = i
  <2>1. i \in Of(key[i]) /\ key[i] \in labels
    BY <1>5
  <2>2. PICK k \in 1..rows[key[i]] : nth[key[i]][k] = i
    BY <1>2, <2>1 DEF Bijection, Surjection
  <2>3. <<key[i], k>> \in all
    BY <1>4, <2>1
  <2>4. to[<<key[i], k>>] = i
    BY <2>2, <2>3 DEF to
  <2>5. QED
    BY <2>3, <2>4
<1>9. to \in [all -> things]
  BY <1>6 DEF to
<1>10. to \in Injection(all, things) /\ to \in Surjection(all, things)
  BY <1>7, <1>8, <1>9 DEF Injection, Surjection, IsInjective
<1>11. IsFiniteSet(things)
  <2>1. IsFiniteSet(1..n)
    BY FS_Interval
  <2>2. QED
    BY <1>5, <2>1, FS_Subset
<1>12. Cardinality(all) = Cardinality(things)
  BY <1>10, <1>11, FS_Injection
<1>13. QED
  BY <1>12 DEF all, things, Under

-----------------------------------------------------------------------------
(* What the reports count.                                                  *)

Counted(d) == d \in [place: Seq(Place), tag: SUBSET Word] /\ IsFiniteSet(d.tag)

LEMMA SomePlaces ==
  ASSUME NEW d, Counted(d), NEW S \in SUBSET DOMAIN d.place
  PROVE  /\ Len(d.place) \in Nat /\ DOMAIN d.place = 1..Len(d.place)
         /\ Cardinality(DOMAIN d.place) = Len(d.place)
         /\ IsFiniteSet(S) /\ Cardinality(S) \in 0..Len(d.place)
<1>1. Len(d.place) \in Nat /\ DOMAIN d.place = 1..Len(d.place)
  BY LenProperties DEF Counted
<1>2. IsFiniteSet(DOMAIN d.place) /\ Cardinality(DOMAIN d.place) = Len(d.place)
  BY <1>1, FS_Interval
<1>3. IsFiniteSet(S) /\ Cardinality(S) <= Len(d.place)
  BY <1>2, FS_Subset
<1>4. QED
  BY <1>1, <1>2, <1>3, FS_CardinalityType

LEMMA SummaryAddsUp ==
  ASSUME NEW d, Counted(d)
  PROVE  /\ Summary(d).total = Len(d.place)
         /\ Summary(d).visited + Summary(d).wishlist = Summary(d).total
<1> DEFINE visited == {i \in DOMAIN d.place : d.place[i].status = "visited"}
           wishlist == {i \in DOMAIN d.place : d.place[i].status = "wishlist"}
<1>1. /\ Summary(d).total = Len(d.place)
      /\ Summary(d).visited = Cardinality(visited)
      /\ Summary(d).wishlist = Cardinality(wishlist)
  BY DEF Summary, Having
<1>2. \A i \in DOMAIN d.place : d.place[i] \in Place
  BY DEF Counted
<1>3. visited \cup wishlist = DOMAIN d.place /\ visited \cap wishlist = {}
  BY <1>2 DEF Place, Status
<1>4. /\ IsFiniteSet(visited) /\ Cardinality(visited) \in Nat
      /\ IsFiniteSet(wishlist) /\ Cardinality(wishlist) \in Nat
      /\ Cardinality(DOMAIN d.place) = Len(d.place)
  BY SomePlaces
<1>5. Cardinality(visited \cup wishlist)
        = Cardinality(visited) + Cardinality(wishlist) - Cardinality(visited \cap wishlist)
  BY <1>4, FS_Union
<1>6. Cardinality(visited \cap wishlist) = 0
  BY <1>3, FS_EmptySet
<1> HIDE DEF visited, wishlist
<1>7. Len(d.place) = Cardinality(visited) + Cardinality(wishlist)
  <2>1. Cardinality(visited \cup wishlist) = Len(d.place)
    BY <1>3, <1>4, Zenon
  <2>2. QED
    BY <1>4, <1>5, <1>6, <2>1
<1>8. QED
  BY <1>1, <1>7

LEMMA RowsAddUp ==
  ASSUME NEW d, Counted(d)
  PROVE  LET rows == NeighborhoodRows(d) IN
         /\ Total(rows) = Len(d.place)
         /\ DOMAIN rows = Neighborhoods(d)
         /\ \A labels \in SUBSET Neighborhoods(d) :
              Under(rows, labels)
                = Cardinality({i \in DOMAIN d.place : d.place[i].neighborhood \in labels})
<1> DEFINE n == Len(d.place)
           key == [i \in 1..n |-> d.place[i].neighborhood]
           rows == NeighborhoodRows(d)
<1>1. n \in Nat /\ DOMAIN d.place = 1..n /\ Cardinality(DOMAIN d.place) = n
  BY SomePlaces
<1> HIDE DEF n
<1>2. rows = [label \in Neighborhoods(d) |->
                Cardinality({i \in DOMAIN d.place : d.place[i].neighborhood = label})]
  BY DEF NeighborhoodRows, Having
<1>3. Neighborhoods(d) = {key[i] : i \in 1..n}
  BY <1>1 DEF Neighborhoods
<1>4. \A label : {i \in DOMAIN d.place : d.place[i].neighborhood = label}
                   = {i \in 1..n : key[i] = label}
  BY <1>1
<1>5. \A labels : {i \in DOMAIN d.place : d.place[i].neighborhood \in labels}
                    = {i \in 1..n : key[i] \in labels}
  BY <1>1
<1>6. Groups(n, key, rows)
  BY <1>2, <1>3, <1>4, Zenon DEF Groups
<1>7. DOMAIN rows = Neighborhoods(d)
  BY <1>2
<1>8. {i \in DOMAIN d.place : d.place[i].neighborhood \in Neighborhoods(d)} = DOMAIN d.place
  BY DEF Neighborhoods
<1> HIDE DEF key, rows
<1>9. \A labels \in SUBSET Neighborhoods(d) :
        Under(rows, labels)
          = Cardinality({i \in DOMAIN d.place : d.place[i].neighborhood \in labels})
  BY <1>1, <1>5, <1>6, <1>7, GroupsAddUp
<1>10. Total(rows) = n
  <2>1. Neighborhoods(d) \in SUBSET Neighborhoods(d)
    OBVIOUS
  <2>2. QED
    BY <1>1, <1>7, <1>8, <1>9, <2>1 DEF Total
<1>11. QED
  BY <1>7, <1>9, <1>10 DEF rows, n

(* The wishlist has a line for each place that is on it.                     *)
LEMMA WishlistIsCounted ==
  ASSUME NEW d, Counted(d)
  PROVE  Len(Wishlist(d, [tag |-> NULL, neighborhood |-> Blank])) = Summary(d).wishlist
<1> DEFINE p == d.place
           Name(i) == Folded(p[i].name)
           all == [tag |-> NULL, neighborhood |-> Blank]
           S == {i \in Candidates(d, all) : p[i].status = "wishlist"}
           Older(i, j) ==
             \/ p[i].created_at < p[j].created_at
             \/ /\ p[i].created_at = p[j].created_at
                /\ TextBefore(Name(i), Name(j)) \/ (Name(i) = Name(j) /\ i < j)
           R == {x \in S \X S : Older(x[1], x[2])}
           w == Wishlist(d, all)
<1>1. Candidates(d, all) = DOMAIN p
  BY DEF Candidates
<1>2. S = {i \in DOMAIN p : p[i].status = "wishlist"}
  BY <1>1
<1>3. Summary(d).wishlist = Cardinality(S)
  BY <1>2 DEF Summary, Having
<1>4. IsFiniteSet(S) /\ Cardinality(S) \in Nat /\ S \subseteq Nat
  BY <1>2, SomePlaces
<1>5. \A i \in S : p[i].created_at \in Nat /\ Name(i) \in Seq(Nat)
  <2>1. \A i \in S : p[i] \in Place
    BY <1>2 DEF Counted
  <2>2. \A i \in S : p[i].created_at \in Nat /\ p[i].name \in Text
    BY <2>1 DEF Place
  <2>3. QED
    BY <2>2, FoldedIsText, TextIsOfNumbers
<1>6. w = CHOOSE s \in [1..Cardinality(S) -> S] : \A i, j \in DOMAIN s : i < j => Older(s[i], s[j])
  BY Zenon DEF Wishlist, InOrder
<1>7. \A i, j \in S : <<i, j>> \in R <=> Older(i, j)
  OBVIOUS
<1> HIDE DEF S, R, p, Name
<1>8. Linear(S, R)
  <2>1. \A i \in S : ~ Older(i, i)
    BY <1>4, <1>5, TextOrder
  <2>2. \A i, j \in S : i = j \/ Older(i, j) \/ Older(j, i)
    BY <1>4, <1>5, TextOrder
  <2>3. ASSUME NEW i \in S, NEW j \in S, NEW k \in S, Older(i, j), Older(j, k)
        PROVE  Older(i, k)
    <3>1. TextBefore(Name(i), Name(j)) /\ TextBefore(Name(j), Name(k))
            => TextBefore(Name(i), Name(k))
      BY <1>5, TextOrder
    <3>2. QED
      BY <1>4, <1>5, <2>3, <3>1
  <2> HIDE DEF Older
  <2>4. QED
    BY <1>7, <2>1, <2>2, <2>3 DEF Linear
<1>9. \E s : Lists(s, S, R)
  BY <1>4, <1>8, ListThereIs
<1> HIDE DEF Older
<1>10. \E s \in [1..Cardinality(S) -> S] : \A i, j \in DOMAIN s : i < j => Older(s[i], s[j])
  BY <1>7, <1>9 DEF Lists
<1>11. w \in [1..Cardinality(S) -> S]
  BY <1>6, <1>10
<1>12. Len(w) = Cardinality(S)
  BY <1>4, <1>11
<1>13. QED
  BY <1>3, <1>12

(* The tags of a report are tags, each with the places that carry it.        *)
LEMMA TagsAreCounted ==
  ASSUME NEW d, Counted(d), NEW k \in DOMAIN TagRows(d)
  PROVE  LET row == TagRows(d)[k] IN
         /\ row.tag \in d.tag
         /\ row.count = Cardinality({i \in DOMAIN d.place : row.tag \in d.place[i].tags})
<1> DEFINE count == [tag \in d.tag |-> Cardinality({i \in DOMAIN d.place : tag \in d.place[i].tags})]
           used == {tag \in d.tag : count[tag] > 0}
           Before(a, b) == count[a] > count[b] \/ (count[a] = count[b] /\ a < b)
           R == {x \in used \X used : Before(x[1], x[2])}
           rows == CHOOSE s \in [1..Cardinality(used) -> used] :
                     \A i, j \in DOMAIN s : i < j => Before(s[i], s[j])
<1>1. TagRows(d) = [i \in 1..Lesser(Len(rows), TOP_TAG_LIMIT) |->
                      [tag |-> rows[i], count |-> count[rows[i]]]]
  BY DEF TagRows, InOrder, Having
<1>2. IsFiniteSet(used)
  BY FS_Subset DEF Counted
<1>3. \A tag \in used : tag \in d.tag /\ tag \in Nat /\ count[tag] \in Nat
  <2>1. d.tag \subseteq Nat
    BY SearchAssumption DEF Counted
  <2>2. QED
    BY <2>1, SomePlaces
<1>4. \A a, b \in used : <<a, b>> \in R <=> Before(a, b)
  OBVIOUS
<1> HIDE DEF used, R, count
<1>5. Linear(used, R)
  <2>1. \A a \in used : ~ Before(a, a)
    BY <1>3
  <2>2. \A a, b \in used : a = b \/ Before(a, b) \/ Before(b, a)
    BY <1>3
  <2>3. \A a, b, c \in used : Before(a, b) /\ Before(b, c) => Before(a, c)
    BY <1>3
  <2> HIDE DEF Before
  <2>4. QED
    BY <1>4, <2>1, <2>2, <2>3 DEF Linear
<1>6. \E s : Lists(s, used, R)
  BY <1>2, <1>5, ListThereIs
<1> HIDE DEF Before
<1>7. \E s \in [1..Cardinality(used) -> used] : \A i, j \in DOMAIN s : i < j => Before(s[i], s[j])
  BY <1>4, <1>6 DEF Lists
<1>8. rows \in [1..Cardinality(used) -> used] /\ Cardinality(used) \in Nat
  BY <1>2, <1>7, FS_CardinalityType
<1> HIDE DEF rows
<1>9. Len(rows) = Cardinality(used) /\ DOMAIN rows = 1..Cardinality(used)
  BY <1>8
<1>10. k \in 1..Lesser(Len(rows), TOP_TAG_LIMIT)
       /\ TagRows(d)[k] = [tag |-> rows[k], count |-> count[rows[k]]]
  BY <1>1
<1>11. k \in 1..Cardinality(used)
  BY <1>8, <1>9, <1>10, JournalAssumption DEF Lesser
<1>12. rows[k] \in used
  BY <1>8, <1>11
<1>13. TagRows(d)[k].tag = rows[k] /\ TagRows(d)[k].count = count[rows[k]]
  BY <1>10
<1>14. rows[k] \in d.tag
  BY <1>3, <1>12
<1>15. count[rows[k]] = Cardinality({i \in DOMAIN d.place : rows[k] \in d.place[i].tags})
  BY <1>14 DEF count
<1>16. QED
  BY <1>13, <1>14, <1>15

-----------------------------------------------------------------------------
(* What a report in progress has of the database.                           *)

(* Each answer is there once its query was made; what was counted is still   *)
(* there, and everything is as it was counted when nothing was committed     *)
(* since.                                                                  *)
Reported(c, d) ==
  LET counts == c.report[1]
      touched == c.report[2]
      rows == c.report[3]
      tags == c.report[4] IN
  /\ c.step = "touched" => c.report = <<counts>>
  /\ c.step = "rows" => c.report = <<counts, touched>>
  /\ c.step = "tags" => c.report = <<counts, touched, rows>>
  /\ c.step = "print" => c.report = <<counts, touched, rows, tags>>
  /\ c.step \in {"touched", "rows", "tags", "print"} =>
       /\ counts.visited + counts.wishlist = counts.total
       /\ counts.total \in 0..Len(d.place)
       /\ c.quiet => counts = Summary(d)
  /\ c.step \in {"rows", "tags", "print"} =>
       /\ touched \in 0..NeighborhoodsTouched(d)
       /\ c.quiet => touched = NeighborhoodsTouched(d)
  /\ c.step \in {"tags", "print"} =>
       /\ counts.total <= Total(rows)
       /\ touched <= Cardinality(DOMAIN rows \ {Blank})
       /\ c.quiet => rows = NeighborhoodRows(d)
  /\ c.step = "print" => (c.quiet => tags = TagRows(d))

ReportInv ==
  /\ IsFiniteSet(db.tag)
  /\ \A t \in Terminal : Reported(cmd[t], db)

(* Places stay in their neighborhoods; more may come.                        *)
Grows(d, e) ==
  /\ Counted(d) /\ Counted(e)
  /\ \A i \in DOMAIN d.place :
       i \in DOMAIN e.place /\ e.place[i].neighborhood = d.place[i].neighborhood

LEMMA TouchedGrows ==
  ASSUME NEW d, NEW e, Grows(d, e)
  PROVE  /\ NeighborhoodsTouched(d) \in Nat /\ NeighborhoodsTouched(e) \in Nat
         /\ NeighborhoodsTouched(d) <= NeighborhoodsTouched(e)
         /\ Len(d.place) \in Nat /\ Len(e.place) \in Nat /\ Len(d.place) <= Len(e.place)
<1> DEFINE D == Neighborhoods(d) \ {Blank}
           E == Neighborhoods(e) \ {Blank}
           at == [i \in DOMAIN e.place |-> e.place[i].neighborhood]
<1>1. IsFiniteSet(DOMAIN e.place)
  BY SomePlaces DEF Grows
<1>2. at \in Surjection(DOMAIN e.place, Neighborhoods(e))
  BY DEF Surjection, Neighborhoods
<1>3. IsFiniteSet(Neighborhoods(e))
  BY <1>1, <1>2, FS_Surjection
<1>4. IsFiniteSet(E) /\ Cardinality(E) \in Nat
  <2>1. IsFiniteSet(E)
    BY <1>3, FS_Subset
  <2>2. QED
    BY <2>1, FS_CardinalityType
<1>5. D \in SUBSET E
  BY DEF Grows, Neighborhoods
<1>6. IsFiniteSet(D) /\ Cardinality(D) <= Cardinality(E) /\ Cardinality(D) \in Nat
  <2>1. IsFiniteSet(D) /\ Cardinality(D) <= Cardinality(E)
    BY <1>4, <1>5, FS_Subset
  <2>2. QED
    BY <2>1, FS_CardinalityType
<1>7. Len(d.place) \in Nat /\ Len(e.place) \in Nat /\ Len(d.place) <= Len(e.place)
  <2>1. /\ Len(d.place) \in Nat /\ DOMAIN d.place = 1..Len(d.place)
        /\ Len(e.place) \in Nat /\ DOMAIN e.place = 1..Len(e.place)
    BY SomePlaces DEF Grows
  <2>2. Len(d.place) = 0 \/ Len(d.place) \in DOMAIN e.place
    BY <2>1 DEF Grows
  <2>3. QED
    BY <2>1, <2>2
<1>8. QED
  BY <1>4, <1>6, <1>7 DEF NeighborhoodsTouched

(* What was reported stays true of a database that grows, but not what is    *)
(* said of one that was left alone.                                         *)
LEMMA ReportedLasts ==
  ASSUME NEW d, NEW e, Grows(d, e), NEW c, Reported(c, d), NEW c2,
         c2.step = c.step, c2.report = c.report, c2.quiet = (c.quiet /\ c.report = <<>>)
  PROVE  Reported(c2, e)
<1>1. c.step \in {"touched", "rows", "tags", "print"} => c.report # <<>>
  BY DEF Reported
<1>2. c.step \in {"touched", "rows", "tags", "print"} => ~ c2.quiet
  BY <1>1
<1>3. /\ \A n \in 0..Len(d.place) : n \in 0..Len(e.place)
      /\ \A n \in 0..NeighborhoodsTouched(d) : n \in 0..NeighborhoodsTouched(e)
  BY TouchedGrows
<1>4. QED
  BY <1>2, <1>3 DEF Reported

LEMMA CountedNow ==
  ASSUME IInv, ReportInv
  PROVE  Counted(db) /\ Grows(db, db)
BY DEF IInv, Typed, ReportInv, Counted, Grows

LEMMA GoReports ==
  ASSUME IInv, ReportInv, NEW t \in Terminal, NEW next, Go(t, next), Reported(next, db)
  PROVE  ReportInv'
<1>1. db' = db /\ \A u \in Terminal : cmd'[u] = IF u = t THEN next ELSE cmd[u]
  BY DEF Go, IInv, Typed
<1>2. QED
  BY <1>1 DEF ReportInv

(* A command that is at none of these steps reports nothing.                 *)
LEMMA ElsewhereReports ==
  ASSUME IInv, ReportInv, NEW t \in Terminal, NEW next, Go(t, next),
         next.step \notin {"touched", "rows", "tags", "print"}
  PROVE  ReportInv'
<1>1. Reported(next, db)
  BY DEF Reported
<1>2. QED
  BY <1>1, GoReports

LEMMA EndReports ==
  ASSUME IInv, ReportInv, NEW t \in Terminal, End(t)
  PROVE  ReportInv'
<1>1. Idle.step = "idle"
  BY DEF Idle
<1>2. QED
  BY <1>1, ElsewhereReports DEF End

LEMMA CommitReports ==
  ASSUME IInv, ReportInv, NEW t \in Terminal, NEW d, CommitOf(t, d), Grows(db, d)
  PROVE  ReportInv'
<1> DEFINE Marked(u) == IF u = t THEN Idle
                        ELSE [cmd[u] EXCEPT !.quiet = @ /\ cmd[u].report = <<>>]
<1>1. cmd' = [u \in Terminal |-> Marked(u)] /\ db' = d
  BY Zenon DEF CommitOf
<1>2. ASSUME NEW u \in Terminal
      PROVE  Reported(Marked(u), d)
  <2>1. CASE u = t
    BY <2>1 DEF Reported, Idle
  <2>2. CASE u # t
    <3> DEFINE v == (cmd[u].quiet /\ cmd[u].report = <<>>)
               new == [cmd[u] EXCEPT !.quiet = v]
    <3>1. DOMAIN cmd[u] = DOMAIN Idle
      BY DEF IInv, Typed, CmdOK
    <3>2. Marked(u) = new
      BY <2>2, Zenon
    <3> HIDE DEF Marked, v
    <3>3. new.step = cmd[u].step /\ new.report = cmd[u].report /\ new.quiet = v
      BY <3>1 DEF Idle
    <3> HIDE DEF new
    <3>4. Reported(cmd[u], db)
      BY DEF ReportInv
    <3>5. Reported(new, d)
      BY <3>3, <3>4, ReportedLasts DEF v
    <3>6. QED
      BY <3>2, <3>5
  <2>3. QED
    BY <2>1, <2>2
<1> HIDE DEF Marked
<1>3. IsFiniteSet(d.tag)
  BY DEF Grows, Counted
<1>4. QED
  BY <1>1, <1>2, <1>3 DEF ReportInv

(* t is s and one more.                                                     *)
OneMore(s, e, t) ==
  /\ Len(t) = Len(s) + 1 /\ t[Len(s) + 1] = e
  /\ \A i \in 1..Len(s) : t[i] = s[i]

LEMMA OneMoreIsAppended ==
  ASSUME NEW S, NEW s \in Seq(S), NEW e \in S, NEW t \in Seq(S), OneMore(s, e, t)
  PROVE  Append(s, e) = t
<1>1. /\ Append(s, e) \in Seq(S) /\ Len(Append(s, e)) = Len(t)
      /\ \A i \in 1..Len(t) : Append(s, e)[i] = t[i]
  BY AppendProperties, LenProperties DEF OneMore
<1>2. QED
  BY <1>1, SeqEqual

LEMMA OneAnswerMore ==
  \A a, b, c, e : /\ Append(<<a>>, e) = <<a, e>>
                  /\ Append(<<a, b>>, e) = <<a, b, e>>
                  /\ Append(<<a, b, c>>, e) = <<a, b, c, e>>
<1> TAKE a, b, c, e
<1> DEFINE S == {a, b, c, e}
<1>1. /\ <<a>> \in Seq(S) /\ <<a, e>> \in Seq(S)
      /\ <<a, b>> \in Seq(S) /\ <<a, b, e>> \in Seq(S)
      /\ <<a, b, c>> \in Seq(S) /\ <<a, b, c, e>> \in Seq(S)
      /\ e \in S
  OBVIOUS
<1> HIDE DEF S
<1>2. OneMore(<<a>>, e, <<a, e>>)
  BY DEF OneMore
<1>3. OneMore(<<a, b>>, e, <<a, b, e>>)
  BY DEF OneMore
<1>4. OneMore(<<a, b, c>>, e, <<a, b, c, e>>)
  BY DEF OneMore
<1>5. QED
  BY <1>1, <1>2, <1>3, <1>4, OneMoreIsAppended

LEMMA ResolvedReports ==
  ASSUME IInv, ReportInv, NEW t \in Terminal, NEW i, Resolved(t, i)
  PROVE  ReportInv'
<1> DEFINE next == [cmd[t] EXCEPT !.step = "save", !.since = now, !.id = i,
                                  !.place = db.place[i]]
<1>1. Go(t, next)
  BY Zenon DEF Resolved
<1>2. next.step = "save"
  BY DEF IInv, Typed, CmdOK, Idle
<1> HIDE DEF next
<1>3. QED
  BY <1>1, <1>2, ElsewhereReports

LEMMA StatsReports ==
  ASSUME IInv, ReportInv, NEW t \in Terminal, Stats(t)
  PROVE  ReportInv'
<1>1. DOMAIN cmd[t] = DOMAIN Idle /\ Reported(cmd[t], db)
  BY DEF IInv, Typed, CmdOK, ReportInv
<1>2. /\ Counted(db)
      /\ NeighborhoodsTouched(db) \in Nat /\ Len(db.place) \in Nat
  BY CountedNow, TouchedGrows
<1>3. CASE StatsCounts(t)
  <2> DEFINE counts == Summary(db)
             report == <<counts>>
             next == [cmd[t] EXCEPT !.step = "touched", !.report = report, !.quiet = TRUE]
  <2>1. End(t) \/ Go(t, next)
    BY <1>3, Zenon DEF StatsCounts
  <2>2. report[1] = counts /\ report = <<report[1]>>
    OBVIOUS
  <2>3. counts.visited + counts.wishlist = counts.total /\ counts.total \in 0..Len(db.place)
    BY <1>2, SummaryAddsUp
  <2> HIDE DEF report, counts
  <2>4. next.step = "touched" /\ next.report = report
    BY <1>1 DEF Idle
  <2> HIDE DEF next
  <2>5. Reported(next, db)
    BY <2>2, <2>3, <2>4 DEF Reported, counts
  <2>6. QED
    BY <2>1, <2>5, GoReports, EndReports
<1>4. ASSUME NEW step, NEW answer, NEW then, StatsQuery(t, step, answer, then)
      PROVE  \E next : /\ Go(t, next) /\ cmd[t].step = step
                       /\ next.step = then /\ next.quiet = cmd[t].quiet
                       /\ next.report = Append(cmd[t].report, answer)
  <2> DEFINE report == Append(cmd[t].report, answer)
             next == [cmd[t] EXCEPT !.step = then, !.report = report]
  <2>1. Go(t, next) /\ cmd[t].step = step
    BY <1>4, Zenon DEF StatsQuery, Asks
  <2> HIDE DEF report
  <2>2. next.step = then /\ next.quiet = cmd[t].quiet /\ next.report = report
    BY <1>1 DEF Idle
  <2> HIDE DEF next
  <2>3. QED
    BY <2>1, <2>2 DEF report
<1> DEFINE counts == cmd[t].report[1]
           touched == cmd[t].report[2]
           rows == cmd[t].report[3]
<1>5. CASE StatsQuery(t, "touched", NeighborhoodsTouched(db), "rows")
  <2> DEFINE answer == NeighborhoodsTouched(db)
  <2>1. PICK next : /\ Go(t, next) /\ cmd[t].step = "touched"
                    /\ next.step = "rows" /\ next.quiet = cmd[t].quiet
                    /\ next.report = Append(cmd[t].report, answer)
    BY <1>4, <1>5
  <2>2. cmd[t].report = <<counts>>
    BY <1>1, <2>1 DEF Reported
  <2>3. next.report = <<counts, answer>>
    <3> HIDE DEF answer, counts
    <3>1. Append(<<counts>>, answer) = <<counts, answer>>
      BY OneAnswerMore, Zenon
    <3>2. QED
      BY <2>1, <2>2, <3>1, Zenon
  <2>4. next.report[1] = counts /\ next.report[2] = answer
    BY <2>3
  <2>5. /\ counts.visited + counts.wishlist = counts.total
        /\ counts.total \in 0..Len(db.place)
        /\ cmd[t].quiet => counts = Summary(db)
    BY <1>1, <2>1 DEF Reported
  <2>6. answer \in 0..NeighborhoodsTouched(db)
    BY <1>2
  <2> HIDE DEF counts
  <2>7. Reported(next, db)
    BY <2>1, <2>3, <2>4, <2>5, <2>6 DEF Reported
  <2>8. QED
    BY <2>1, <2>7, GoReports
<1>6. CASE StatsQuery(t, "rows", NeighborhoodRows(db), "tags")
  <2> DEFINE answer == NeighborhoodRows(db)
  <2>1. PICK next : /\ Go(t, next) /\ cmd[t].step = "rows"
                    /\ next.step = "tags" /\ next.quiet = cmd[t].quiet
                    /\ next.report = Append(cmd[t].report, answer)
    BY <1>4, <1>6
  <2>2. cmd[t].report = <<counts, touched>>
    BY <1>1, <2>1 DEF Reported
  <2>3. next.report = <<counts, touched, answer>>
    <3> HIDE DEF answer, counts, touched
    <3>1. Append(<<counts, touched>>, answer) = <<counts, touched, answer>>
      BY OneAnswerMore, Zenon
    <3>2. QED
      BY <2>1, <2>2, <3>1, Zenon
  <2> HIDE DEF answer
  <2>4. next.report[1] = counts /\ next.report[2] = touched /\ next.report[3] = answer
    BY <2>3
  <2>5. /\ counts.visited + counts.wishlist = counts.total
        /\ counts.total \in 0..Len(db.place)
        /\ cmd[t].quiet => counts = Summary(db)
        /\ touched \in 0..NeighborhoodsTouched(db)
        /\ cmd[t].quiet => touched = NeighborhoodsTouched(db)
    BY <1>1, <2>1 DEF Reported
  <2>6. Total(answer) = Len(db.place) /\ DOMAIN answer = Neighborhoods(db)
    BY <1>2, RowsAddUp DEF answer
  <2>7. counts.total <= Total(answer) /\ touched <= Cardinality(DOMAIN answer \ {Blank})
    BY <1>2, <2>5, <2>6 DEF NeighborhoodsTouched
  <2> HIDE DEF counts, touched
  <2>8. Reported(next, db)
    BY <2>1, <2>3, <2>4, <2>5, <2>7 DEF Reported, answer
  <2>9. QED
    BY <2>1, <2>8, GoReports
<1>7. CASE StatsQuery(t, "tags", TagRows(db), "print")
  <2> DEFINE answer == TagRows(db)
  <2>1. PICK next : /\ Go(t, next) /\ cmd[t].step = "tags"
                    /\ next.step = "print" /\ next.quiet = cmd[t].quiet
                    /\ next.report = Append(cmd[t].report, answer)
    BY <1>4, <1>7
  <2>2. cmd[t].report = <<counts, touched, rows>>
    BY <1>1, <2>1 DEF Reported
  <2>3. next.report = <<counts, touched, rows, answer>>
    <3> HIDE DEF answer, counts, touched, rows
    <3>1. Append(<<counts, touched, rows>>, answer) = <<counts, touched, rows, answer>>
      BY OneAnswerMore, Zenon
    <3>2. QED
      BY <2>1, <2>2, <3>1, Zenon
  <2> HIDE DEF answer
  <2>4. /\ next.report[1] = counts /\ next.report[2] = touched /\ next.report[3] = rows
        /\ next.report[4] = answer
    BY <2>3
  <2>5. /\ counts.visited + counts.wishlist = counts.total
        /\ counts.total \in 0..Len(db.place)
        /\ cmd[t].quiet => counts = Summary(db)
        /\ touched \in 0..NeighborhoodsTouched(db)
        /\ cmd[t].quiet => touched = NeighborhoodsTouched(db)
        /\ counts.total <= Total(rows)
        /\ touched <= Cardinality(DOMAIN rows \ {Blank})
        /\ cmd[t].quiet => rows = NeighborhoodRows(db)
    BY <1>1, <2>1 DEF Reported
  <2> HIDE DEF counts, touched, rows
  <2>6. Reported(next, db)
    BY <2>1, <2>3, <2>4, <2>5 DEF Reported, answer
  <2>7. QED
    BY <2>1, <2>6, GoReports
<1>8. QED
  BY <1>3, <1>5, <1>6, <1>7, EndReports DEF Stats

LEMMA ReportInductive == IInv /\ ReportInv /\ [Next]_vars => ReportInv'
<1> SUFFICES ASSUME IInv, ReportInv, [Next]_vars PROVE ReportInv'
  OBVIOUS
<1>0. /\ \A t \in Terminal : DOMAIN cmd[t] = DOMAIN Idle
      /\ Counted(db) /\ DOMAIN db.place = 1..Len(db.place)
      /\ db' \in [place: Seq(Place), tag: SUBSET Word]
  BY CountedNow, Rows, Inductive DEF IInv, Typed, CmdOK
<1>1. ASSUME NEW t \in Terminal, NEW call \in Wanted, Begin(t, call)
      PROVE  ReportInv'
  <2> DEFINE since == IF call.kind = "add" THEN now ELSE 0
             known == IF call.kind = "visit" THEN Len(db.place) ELSE 0
             next == [Idle EXCEPT !.step = FirstStep(call), !.call = call, !.since = since,
                                  !.known = known]
  <2>1. Go(t, next)
    BY <1>1, Zenon DEF Begin
  <2>2. FirstStep(call) \notin {"touched", "rows", "tags", "print"}
    BY DEF FirstStep
  <2> HIDE DEF since, known
  <2>3. next.step = FirstStep(call)
    BY DEF Idle
  <2> HIDE DEF next
  <2>4. QED
    BY <2>1, <2>2, <2>3, ElsewhereReports
<1>2. ASSUME NEW t \in Terminal, NEW time, Add(t, time)
      PROVE  ReportInv'
  <2> DEFINE call == cmd[t].call
             place == [name |-> call.name, neighborhood |-> call.neighborhood,
               note |-> call.note, tags |-> LoweredNames(call.tags), rating |-> call.rating,
               status |-> IF call.status # NULL THEN call.status
                          ELSE IF call.rating # NULL THEN "visited" ELSE "wishlist",
               created_at |-> time, last_visited_at |-> NULL]
             d == [place |-> Append(db.place, place), tag |-> db.tag \cup LoweredNames(call.tags)]
  <2>1. CommitOf(t, d) /\ db' = d
    BY <1>2 DEF Add, CommitOf
  <2>2. d.place = Append(db.place, place) /\ d.tag = db.tag \cup LoweredNames(call.tags)
    OBVIOUS
  <2>3. call \in Wanted /\ call.kind = "add"
    BY <1>2 DEF Add, Asks, IInv, Typed, CmdOK
  <2> HIDE DEF place, d
  <2>4. IsFiniteSet(d.tag)
    <3>1. IsFiniteSet(db.tag) /\ IsFiniteSet(LoweredNames(call.tags))
      BY <1>0, <2>3, CallFields DEF Counted
    <3> HIDE DEF call
    <3>2. QED
      BY <2>2, <3>1, FS_Union
  <2>5. Counted(d)
    BY <1>0, <2>1, <2>4 DEF Counted
  <2>6. /\ DOMAIN d.place = 1..(Len(db.place) + 1) /\ Len(db.place) \in Nat
        /\ \A i \in 1..Len(db.place) : d.place[i] = db.place[i]
    BY <2>2, Rows, AppendProperties
  <2>7. Grows(db, d)
    BY <1>0, <2>5, <2>6 DEF Grows
  <2>8. QED
    BY <2>1, <2>7, CommitReports
<1>3. ASSUME NEW t \in Terminal, NEW time, VisitSave(t, time)
      PROVE  ReportInv'
  <2> DEFINE i == cmd[t].id
             old == db.place[i]
             place == [old EXCEPT !.status = "visited", !.last_visited_at = time,
                         !.note = Given(cmd[t].call.note, @),
                         !.rating = Given(cmd[t].call.rating, @)]
             d == [db EXCEPT !.place[i] = place]
  <2>1. CommitOf(t, d) /\ db' = d
    BY <1>3, Zenon DEF VisitSave, CommitOf
  <2>2. i \in DOMAIN db.place
    BY <1>3, Rows DEF VisitSave, Asks, IInv, Typed, CmdOK
  <2>3. place.neighborhood = old.neighborhood
    <3>1. old \in Place
      BY <2>2, Rows
    <3>2. QED
      BY <3>1 DEF Place
  <2> HIDE DEF place, old
  <2>4. d.place = [db.place EXCEPT ![i] = place] /\ d.tag = db.tag
    <3>1. d = [db EXCEPT !.place[i] = place]
      OBVIOUS
    <3>2. db \in [place: Seq(Place), tag: SUBSET Word]
      BY DEF IInv, Typed
    <3> HIDE DEF d, i
    <3>3. QED
      BY <3>1, <3>2, RowWritten
  <2> HIDE DEF d, i
  <2>5. Counted(d)
    BY <1>0, <2>1, <2>4 DEF Counted
  <2>6. /\ DOMAIN d.place = DOMAIN db.place
        /\ \A j \in DOMAIN db.place : d.place[j].neighborhood = db.place[j].neighborhood
    BY <2>2, <2>3, <2>4 DEF old
  <2>7. Grows(db, d)
    BY <1>0, <2>5, <2>6 DEF Grows
  <2>8. QED
    BY <2>1, <2>7, CommitReports
<1>4. ASSUME NEW t \in Terminal, VisitExact(t)
      PROVE  ReportInv'
  <2> DEFINE matches == Exact(db.place, cmd[t].call.name)
             next == [cmd[t] EXCEPT !.step = "partial"]
  <2>1. (\E i \in matches : Resolved(t, i)) \/ Go(t, next) \/ End(t)
    BY <1>4, Zenon DEF VisitExact
  <2>2. next.step = "partial"
    BY <1>0 DEF Idle
  <2> HIDE DEF next, matches
  <2>3. QED
    BY <2>1, <2>2, ResolvedReports, ElsewhereReports, EndReports
<1>5. ASSUME NEW t \in Terminal, VisitPartial(t)
      PROVE  ReportInv'
  <2>1. (\E i \in Partial(db.place, cmd[t].call.name) : Resolved(t, i)) \/ End(t)
    BY <1>5, Zenon DEF VisitPartial
  <2>2. QED
    BY <2>1, ResolvedReports, EndReports
<1>6. ASSUME NEW t \in Terminal, Exists(t)
      PROVE  ReportInv'
  <2> DEFINE next == [cmd[t] EXCEPT !.step = "list"]
  <2>1. End(t) \/ Go(t, next)
    BY <1>6, Zenon DEF Exists
  <2>2. next.step = "list"
    BY <1>0 DEF Idle
  <2> HIDE DEF next
  <2>3. QED
    BY <2>1, <2>2, ElsewhereReports, EndReports
<1>7. ASSUME NEW t \in Terminal,
             \/ Fails(t) \/ Todo(t) \/ Find(t) \/ SurpriseNothing(t)
             \/ \E i \in DOMAIN db.place : Surprise(t, i)
      PROVE  ReportInv'
  BY <1>7, EndReports DEF Fails, Todo, Find, SurpriseNothing, Surprise
<1>8. ASSUME NEW t \in Terminal, Stats(t)
      PROVE  ReportInv'
  BY <1>8, StatsReports
<1>9. CASE Tick \/ UNCHANGED vars
  <2>1. UNCHANGED <<db, cmd>>
    BY <1>9 DEF Tick, vars
  <2>2. QED
    BY <2>1 DEF ReportInv
<1>10. QED
  BY <1>1, <1>2, <1>3, <1>4, <1>5, <1>6, <1>7, <1>8, <1>9 DEF Next

LEMMA ReportInvariance == Spec => []ReportInv
<1>1. Init => ReportInv
  <2>1. SUFFICES ASSUME Init PROVE ReportInv
    OBVIOUS
  <2>2. IsFiniteSet(db.tag)
    BY <2>1, FS_EmptySet DEF Init
  <2>3. QED
    BY <2>1, <2>2 DEF Init, ReportInv, Reported, Idle
<1>2. QED
  BY <1>1, ReportInductive, Invariance, PTL DEF Spec

(* The invariant, in the words of the property.                              *)
LEMMA ReportsTell ==
  ASSUME Counted(db), LowerTags(db.tag), NEW c, Reported(c, db), c.step = "print"
  PROVE  LET counts == c.report[1]
             touched == c.report[2]
             rows == c.report[3]
             tags == c.report[4]
             Spelled(label) == {other \in DOMAIN rows : IExact(other, label)} IN
         /\ counts.visited + counts.wishlist = counts.total
         /\ counts.total <= Total(rows)
         /\ touched <= Cardinality(DOMAIN rows \ {Blank})
         /\ c.quiet =>
              /\ counts.total = Total(rows)
              /\ touched = Cardinality(DOMAIN rows \ {Blank})
              /\ counts.wishlist = Len(Wishlist(db, [tag |-> NULL, neighborhood |-> Blank]))
              /\ \A label \in DOMAIN rows \ {Blank} :
                   Under(rows, Spelled(label))
                     = Cardinality(Candidates(db, [tag |-> NULL, neighborhood |-> label]))
              /\ \A k \in DOMAIN tags :
                   tags[k].count = Cardinality(Candidates(db, [tag |-> tags[k].tag,
                                                               neighborhood |-> Blank]))
<1> DEFINE counts == c.report[1]
           touched == c.report[2]
           rows == c.report[3]
           tags == c.report[4]
           Spelled(label) == {other \in DOMAIN rows : IExact(other, label)}
<1>1. /\ counts.visited + counts.wishlist = counts.total
      /\ counts.total <= Total(rows)
      /\ touched <= Cardinality(DOMAIN rows \ {Blank})
      /\ c.quiet => /\ counts = Summary(db) /\ touched = NeighborhoodsTouched(db)
                    /\ rows = NeighborhoodRows(db) /\ tags = TagRows(db)
  BY DEF Reported
<1> HIDE DEF counts, touched, rows, tags
<1>2. ASSUME c.quiet
      PROVE  counts.total = Total(rows) /\ touched = Cardinality(DOMAIN rows \ {Blank})
  BY <1>1, <1>2, SummaryAddsUp, RowsAddUp, Zenon DEF NeighborhoodsTouched
<1>3. ASSUME c.quiet
      PROVE  counts.wishlist = Len(Wishlist(db, [tag |-> NULL, neighborhood |-> Blank]))
  BY <1>1, <1>3, WishlistIsCounted
<1>4. ASSUME c.quiet, NEW label \in DOMAIN rows \ {Blank}
      PROVE  Under(rows, Spelled(label))
               = Cardinality(Candidates(db, [tag |-> NULL, neighborhood |-> label]))
  <2> DEFINE all == [tag |-> NULL, neighborhood |-> label]
  <2>1. rows = NeighborhoodRows(db) /\ DOMAIN rows = Neighborhoods(db)
    BY <1>1, <1>4, RowsAddUp
  <2>2. \A i \in DOMAIN db.place : db.place[i].neighborhood \in DOMAIN rows
    BY <2>1 DEF Neighborhoods
  <2>3. label # Blank
    BY <1>4
  <2>4. Candidates(db, all) = {i \in DOMAIN db.place : db.place[i].neighborhood \in Spelled(label)}
    BY <2>2, <2>3 DEF Candidates
  <2>5. Spelled(label) \in SUBSET Neighborhoods(db)
    BY <2>1
  <2> HIDE DEF Spelled, all
  <2>6. Under(rows, Spelled(label))
          = Cardinality({i \in DOMAIN db.place : db.place[i].neighborhood \in Spelled(label)})
    BY <2>1, <2>5, RowsAddUp
  <2>7. QED
    BY <2>4, <2>6 DEF all
<1>5. ASSUME c.quiet, NEW k \in DOMAIN tags
      PROVE  tags[k].count = Cardinality(Candidates(db, [tag |-> tags[k].tag,
                                                         neighborhood |-> Blank]))
  <2> DEFINE tag == tags[k].tag
  <2>1. /\ tag \in db.tag
        /\ tags[k].count = Cardinality({i \in DOMAIN db.place : tag \in db.place[i].tags})
    BY <1>1, <1>5, TagsAreCounted
  <2>2. tag # NULL /\ Lower[tag] = tag
    BY <2>1, SearchAssumption, JournalAssumption DEF Counted, LowerTags
  <2> HIDE DEF tag
  <2>3. Candidates(db, [tag |-> tag, neighborhood |-> Blank])
          = {i \in DOMAIN db.place : tag \in db.place[i].tags}
    BY <2>2 DEF Candidates
  <2>4. QED
    BY <2>1, <2>3 DEF tag
<1>6. QED
  BY <1>1, <1>2, <1>3, <1>4, <1>5 DEF counts, touched, rows, tags

(* However the commands overlap with a report of `stats`, what it prints     *)
(* adds up, and agrees with the other commands if nothing came between.     *)
THEOREM ReportsTellOneStory == Spec => []ReportsAgree
<1>1. Spec => []IInv /\ []ReportInv
  BY Invariance, ReportInvariance, PTL
<1>2. IInv /\ ReportInv => ReportsAgree
  <2> SUFFICES ASSUME IInv, ReportInv, NEW t \in Terminal, Asks(t, "stats", "print")
               PROVE  LET counts == cmd[t].report[1]
                          touched == cmd[t].report[2]
                          rows == cmd[t].report[3]
                          tags == cmd[t].report[4]
                          Spelled(label) == {other \in DOMAIN rows : IExact(other, label)} IN
                      /\ counts.visited + counts.wishlist = counts.total
                      /\ counts.total <= Total(rows)
                      /\ touched <= Cardinality(DOMAIN rows \ {Blank})
                      /\ cmd[t].quiet =>
                           /\ counts.total = Total(rows)
                           /\ touched = Cardinality(DOMAIN rows \ {Blank})
                           /\ counts.wishlist
                                = Len(Wishlist(db, [tag |-> NULL, neighborhood |-> Blank]))
                           /\ \A label \in DOMAIN rows \ {Blank} :
                                Under(rows, Spelled(label)) = Cardinality(Candidates(db,
                                  [tag |-> NULL, neighborhood |-> label]))
                           /\ \A k \in DOMAIN tags :
                                tags[k].count = Cardinality(Candidates(db,
                                  [tag |-> tags[k].tag, neighborhood |-> Blank]))
    BY Zenon DEF ReportsAgree, Total, Under
  <2>1. Counted(db) /\ Reported(cmd[t], db) /\ cmd[t].step = "print"
    BY CountedNow DEF ReportInv, Asks
  <2>lower. LowerTags(db.tag)
    BY DEF IInv, Typed
  <2> DEFINE c == cmd[t]
  <2> HIDE DEF c
  <2>2. QED
    BY <2>1, <2>lower, ReportsTell, Zenon DEF c
<1>3. QED
  BY <1>1, <1>2, PTL

-----------------------------------------------------------------------------
(* Lists of the same things.                                                *)

(* R puts the members of V in classes, and the classes in an order.          *)
Weak(V, R) ==
  /\ \A a \in V : <<a, a>> \notin R
  /\ \A a, b, c \in V : <<a, b>> \in R /\ <<b, c>> \in R => <<a, c>> \in R
  /\ \A a, b, c \in V : <<a, c>> \in R => <<a, b>> \in R \/ <<b, c>> \in R

Sorted(f, R) == \A i, j \in DOMAIN f : i < j => <<f[j], f[i]>> \notin R

(* Two sorted lists of the same values have values of the same class at the  *)
(* same place: too many would have to come before otherwise.                *)
LEMMA SameRanks ==
  ASSUME NEW n \in Nat, NEW V, NEW R, Weak(V, R),
         NEW f \in [1..n -> V], NEW g \in [1..n -> V], Sorted(f, R), Sorted(g, R),
         NEW pi \in [1..n -> 1..n], \A i, j \in 1..n : pi[i] = pi[j] => i = j,
         \A i \in 1..n : f[i] = g[pi[i]],
         NEW k \in 1..n
  PROVE  <<f[k], g[k]>> \notin R /\ <<g[k], f[k]>> \notin R
<1>1. ASSUME <<f[k], g[k]>> \in R PROVE FALSE
  <2>1. ASSUME NEW i \in 1..k PROVE pi[i] \in 1..(k - 1)
    <3>1. i \in 1..n /\ pi[i] \in 1..n /\ f[i] = g[pi[i]]
      OBVIOUS
    <3>2. ASSUME pi[i] >= k PROVE FALSE
      <4>1. <<f[k], f[i]>> \notin R
        BY <2>1, <3>1 DEF Sorted, Weak
      <4>2. <<g[pi[i]], g[k]>> \notin R
        BY <3>1, <3>2 DEF Sorted, Weak
      <4>3. <<f[k], f[i]>> \in R \/ <<f[i], g[k]>> \in R
        BY <1>1, <3>1 DEF Weak
      <4>4. QED
        BY <3>1, <4>1, <4>2, <4>3
    <3>3. QED
      BY <3>1, <3>2
  <2>2. IsFiniteSet(1..k) /\ Cardinality(1..k) = k
    BY FS_Interval
  <2>3. IsFiniteSet(1..(k - 1)) /\ Cardinality(1..(k - 1)) = k - 1
    BY FS_Interval
  <2> DEFINE to == [i \in 1..k |-> pi[i]]
  <2>4. to \in [1..k -> 1..(k - 1)]
    BY <2>1
  <2>5. \E x, y \in 1..k : x # y /\ to[x] = to[y]
    <3> DEFINE S == 1..k
               T == 1..(k - 1)
    <3>1. IsFiniteSet(S) /\ IsFiniteSet(T) /\ Cardinality(T) < Cardinality(S)
      BY <2>2, <2>3
    <3>2. to \in [S -> T]
      BY <2>4
    <3> HIDE DEF to, S, T
    <3>3. \E x, y \in S : x # y /\ to[x] = to[y]
      BY <3>1, <3>2, FS_PigeonHole
    <3>4. QED
      BY <3>3 DEF S
  <2>6. QED
    BY <2>5
<1>2. ASSUME <<g[k], f[k]>> \in R PROVE FALSE
  <2>1. ASSUME NEW i \in k..n PROVE pi[i] \in (k + 1)..n
    <3>1. i \in 1..n /\ pi[i] \in 1..n /\ f[i] = g[pi[i]]
      OBVIOUS
    <3>2. ASSUME pi[i] <= k PROVE FALSE
      <4>1. <<f[i], f[k]>> \notin R
        BY <2>1, <3>1 DEF Sorted, Weak
      <4>2. <<g[k], g[pi[i]]>> \notin R
        BY <3>1, <3>2 DEF Sorted, Weak
      <4>3. <<g[k], f[i]>> \in R \/ <<f[i], f[k]>> \in R
        BY <1>2, <3>1 DEF Weak
      <4>4. QED
        BY <3>1, <4>1, <4>2, <4>3
    <3>3. QED
      BY <3>1, <3>2
  <2>2. IsFiniteSet(k..n) /\ Cardinality(k..n) = n - k + 1
    BY FS_Interval
  <2>3. IsFiniteSet((k + 1)..n) /\ Cardinality((k + 1)..n) = n - k
    BY FS_Interval
  <2> DEFINE to == [i \in k..n |-> pi[i]]
  <2>4. to \in [k..n -> (k + 1)..n]
    BY <2>1
  <2>5. \E x, y \in k..n : x # y /\ to[x] = to[y]
    <3> DEFINE S == k..n
               T == (k + 1)..n
    <3>1. IsFiniteSet(S) /\ IsFiniteSet(T) /\ Cardinality(T) < Cardinality(S)
      BY <2>2, <2>3
    <3>2. to \in [S -> T]
      BY <2>4
    <3> HIDE DEF to, S, T
    <3>3. \E x, y \in S : x # y /\ to[x] = to[y]
      BY <3>1, <3>2, FS_PigeonHole
    <3>4. QED
      BY <3>3 DEF S
  <2>6. QED
    BY <2>5
<1>3. QED
  BY <1>1, <1>2

(* The first m numbers in order are 1, 2 and so on.                          *)
LEMMA FirstNumbers ==
  ASSUME NEW m \in Nat
  PROVE  InOrder(1..m, <) = [k \in 1..m |-> k]
<1> DEFINE s == InOrder(1..m, <)
           id == [k \in 1..m |-> k]
           R == {p \in (1..m) \X (1..m) : p[1] < p[2]}
<1>1. IsFiniteSet(1..m) /\ Cardinality(1..m) = m
  BY FS_Interval
<1>2. /\ s \in [1..m -> 1..m]
      /\ \A i, j \in 1..m : i < j => s[i] < s[j]
  <2>1. 1..m \in SUBSET Int
    OBVIOUS
  <2>2. /\ s \in [1..Cardinality(1..m) -> 1..m] /\ DOMAIN s = 1..Cardinality(1..m)
        /\ \A i, j \in DOMAIN s : i < j => s[i] < s[j]
    BY <1>1, <2>1, NumbersInOrder
  <2> HIDE DEF s
  <2>3. QED
    BY <1>1, <2>2
<1>3. \A a, b \in 1..m : <<a, b>> \in R <=> a < b
  OBVIOUS
<1> HIDE DEF s, R
<1>4. Weak(1..m, R)
  BY <1>3 DEF Weak
<1>5. Sorted(s, R) /\ Sorted(id, R)
  BY <1>2, <1>3 DEF Sorted
<1>6. \A i, j \in 1..m : s[i] = s[j] => i = j
  BY <1>2
<1>7. id \in [1..m -> 1..m] /\ \A i \in 1..m : s[i] = id[s[i]] /\ id[i] = i
  BY <1>2
<1> HIDE DEF id
<1>8. ASSUME NEW k \in 1..m PROVE s[k] = k
  <2>1. <<s[k], id[k]>> \notin R /\ <<id[k], s[k]>> \notin R
    <3>1. /\ s \in [1..m -> 1..m] /\ id \in [1..m -> 1..m]
          /\ \A i \in 1..m : s[i] = id[s[i]]
      BY <1>2, <1>7
    <3>2. QED
      BY <3>1, <1>4, <1>5, <1>6, SameRanks, Zenon
  <2>2. QED
    BY <1>2, <1>3, <1>7, <2>1
<1>9. QED
  BY <1>2, <1>7, <1>8 DEF s, id

(* Numbers that hold every smaller one are the first ones.                   *)
LEMMA FirstOnes ==
  ASSUME NEW n \in Nat, NEW S \in SUBSET (1..n),
         \A k \in S : \A j \in 1..n : j < k => j \in S
  PROVE  \E m \in 0..n : S = 1..m
<1>1. CASE S = {}
  BY <1>1
<1>2. CASE S # {}
  <2>1. PICK top \in S : \A j \in S : j <= top
    BY <1>2, TopOfSome
  <2>2. S = 1..top
    <3>1. \A j \in S : j \in 1..top
      BY <2>1
    <3>2. \A j \in 1..top : j \in 1..n /\ (j < top \/ j = top)
      OBVIOUS
    <3>3. QED
      BY <3>1, <3>2
  <2>3. QED
    BY <2>2
<1>3. QED
  BY <1>1, <1>2

-----------------------------------------------------------------------------
(* Keys of places.                                                          *)

Key == [1..4 -> Seq(Nat)]

LEMMA KeyOrder ==
  /\ \A a \in Key : ~ KeyBefore(a, a)
  /\ \A a, b \in Key : a = b \/ KeyBefore(a, b) \/ KeyBefore(b, a)
  /\ \A a, b, c \in Key : KeyBefore(a, b) /\ KeyBefore(b, c) => KeyBefore(a, c)
<1>1. ASSUME NEW a \in Key PROVE ~ KeyBefore(a, a)
  BY TextOrder DEF Key, KeyBefore
<1>2. ASSUME NEW a \in Key, NEW b \in Key, a # b
      PROVE  KeyBefore(a, b) \/ KeyBefore(b, a)
  <2>0. \A k \in 1..4 : a[k] \in Seq(Nat) /\ b[k] \in Seq(Nat)
    BY DEF Key
  <2>00. DOMAIN a = 1..4 /\ DOMAIN b = 1..4
    BY DEF Key
  <2>1. \E k \in 1..4 : a[k] # b[k] /\ \A j \in 1..(k - 1) : a[j] = b[j]
    <3>1. \E k \in 1..4 : a[k] # b[k]
      <4>1. SUFFICES ASSUME \A k \in 1..4 : a[k] = b[k] PROVE a = b
        BY <1>2
      <4>2. a = [k \in 1..4 |-> a[k]] /\ b = [k \in 1..4 |-> b[k]]
        BY DEF Key
      <4>3. QED
        BY <4>1, <4>2
    <3>2. CASE a[1] # b[1]
      BY <3>2
    <3>3. CASE a[1] = b[1] /\ a[2] # b[2]
      BY <3>3
    <3>4. CASE a[1] = b[1] /\ a[2] = b[2] /\ a[3] # b[3]
      BY <3>4
    <3>5. CASE a[1] = b[1] /\ a[2] = b[2] /\ a[3] = b[3] /\ a[4] # b[4]
      BY <3>5
    <3>6. QED
      BY <3>1, <3>2, <3>3, <3>4, <3>5
  <2>2. PICK k \in 1..4 : a[k] # b[k] /\ \A j \in 1..(k - 1) : a[j] = b[j]
    BY <2>1
  <2>3. TextBefore(a[k], b[k]) \/ TextBefore(b[k], a[k])
    BY <2>0, <2>2, TextOrder
  <2>4. QED
    BY <2>00, <2>2, <2>3 DEF KeyBefore
<1>3. ASSUME NEW a \in Key, NEW b \in Key, NEW c \in Key, KeyBefore(a, b), KeyBefore(b, c)
      PROVE  KeyBefore(a, c)
  <2>0. /\ \A k \in 1..4 : a[k] \in Seq(Nat) /\ b[k] \in Seq(Nat) /\ c[k] \in Seq(Nat)
        /\ DOMAIN a = 1..4 /\ DOMAIN b = 1..4
    BY DEF Key
  <2>1. PICK k \in 1..4 : TextBefore(a[k], b[k]) /\ \A j \in 1..(k - 1) : a[j] = b[j]
    BY <1>3, <2>0 DEF KeyBefore
  <2>2. PICK m \in 1..4 : TextBefore(b[m], c[m]) /\ \A j \in 1..(m - 1) : b[j] = c[j]
    BY <1>3, <2>0 DEF KeyBefore
  <2>3. CASE k < m
    <3>1. TextBefore(a[k], c[k]) /\ \A j \in 1..(k - 1) : a[j] = c[j]
      BY <2>1, <2>2, <2>3
    <3>2. QED
      BY <2>0, <3>1 DEF KeyBefore
  <2>4. CASE k = m
    <3>1. TextBefore(a[k], c[k])
      BY <2>0, <2>1, <2>2, <2>4, TextOrder
    <3>2. \A j \in 1..(k - 1) : a[j] = c[j]
      BY <2>1, <2>2, <2>4
    <3>3. QED
      BY <2>0, <3>1, <3>2 DEF KeyBefore
  <2>5. CASE k > m
    <3>1. TextBefore(a[m], c[m]) /\ \A j \in 1..(m - 1) : a[j] = c[j]
      BY <2>1, <2>2, <2>5
    <3>2. QED
      BY <2>0, <3>1 DEF KeyBefore
  <2>6. QED
    BY <2>3, <2>4, <2>5
<1>4. QED
  BY <1>1, <1>2, <1>3

-----------------------------------------------------------------------------
(* Scores.                                                                  *)

LEMMA BestInRange ==
  ASSUME NEW word \in Word, NEW tokens \in SUBSET Word
  PROVE  Best(word, tokens) \in 0..SCALE
<1> DEFINE found == {Ratio[word, t] : t \in tokens}
<1>0. SCALE \in Nat \ {0}
  BY SearchAssumption
<1>1. found \subseteq 0..SCALE
  <2>1. \A t \in tokens : Ratio[word, t] \in 0..SCALE
    BY SearchAssumption
  <2>2. QED
    BY <2>1
<1>2. CASE \E r \in found : 100 * r >= MIN_TOKEN_SIMILARITY * SCALE
  <2>1. PICK some \in found : 100 * some >= 70 * SCALE
    BY <1>2 DEF MIN_TOKEN_SIMILARITY
  <2> DEFINE high == found \ {0}
  <2> HIDE DEF found
  <2>2. high \in SUBSET (1..SCALE) /\ high # {}
    <3>1. some \in Int /\ some # 0
      BY <1>0, <1>1, <2>1
    <3>2. QED
      BY <1>0, <1>1, <3>1
  <2>3. PICK top \in high : \A j \in high : j <= top
    BY <1>0, <2>2, TopOfSome
  <2>4. top \in found /\ \A other \in found : top >= other
    BY <1>1, <2>2, <2>3
  <2>5. (CHOOSE r \in found : \A other \in found : r >= other) \in found
    BY <2>4
  <2>6. Best(word, tokens) = CHOOSE r \in found : \A other \in found : r >= other
    BY <1>2, Zenon DEF Best, found
  <2>7. QED
    BY <1>1, <2>5, <2>6
<1>3. CASE ~ \E r \in found : 100 * r >= MIN_TOKEN_SIMILARITY * SCALE
  <2>1. Best(word, tokens) = 0
    BY <1>3 DEF Best
  <2>2. QED
    BY <1>0, <2>1
<1>4. QED
  BY <1>2, <1>3

(* A sum of n addends, started at 0.                                         *)
IsSum(f, n, add) ==
  f = [k \in 0..n |-> IF k = 0 THEN 0 ELSE f[k - 1] + add[k]]

LEMMA SumThereIs ==
  ASSUME NEW n \in Nat, NEW top \in Nat, NEW add \in [1..n -> 0..top]
  PROVE  \E f : IsSum(f, n, add)
<1> DEFINE less == OpToRel(<, Nat)
           without == {m \in 0..n : ~ \E f \in [0..m -> Int] :
                                      f[0] = 0 /\ \A k \in 1..m : f[k] = f[k - 1] + add[k]}
<1>1. SUFFICES ASSUME without # {} PROVE FALSE
  <2>1. CASE without = {}
    <3>1. n \in 0..n /\ n \notin without
      <4> HIDE DEF without
      <4>1. QED
        BY <2>1
    <3>2. PICK f \in [0..n -> Int] : f[0] = 0 /\ \A k \in 1..n : f[k] = f[k - 1] + add[k]
      BY <3>1
    <3>3. f = [k \in 0..n |-> f[k]]
      OBVIOUS
    <3>4. \A k \in 0..n : f[k] = IF k = 0 THEN 0 ELSE f[k - 1] + add[k]
      BY <3>2
    <3>5. IsSum(f, n, add)
      BY <3>3, <3>4 DEF IsSum
    <3>6. QED
      BY <3>5
  <2>2. QED
    BY <2>1
<1>2. PICK m \in without : \A y \in without : ~ (y < m)
  <2>1. without \subseteq Nat
    OBVIOUS
  <2>2. IsWellFoundedOn(less, Nat)
    BY NatLessThanWellFounded
  <2> HIDE DEF less, without
  <2>3. PICK m \in without : \A y \in without : ~ (<<y, m>> \in less)
    BY <1>1, <2>1, <2>2, WFMin
  <2>4. \A y \in without : ~ (y < m)
    BY <2>1, <2>3 DEF less, OpToRel
  <2>5. QED
    BY <2>4
<1>3. m # 0
  <2>1. ASSUME m = 0 PROVE FALSE
    <3> DEFINE f == [k \in 0..0 |-> 0]
    <3>1. f \in [0..m -> Int] /\ f[0] = 0 /\ \A k \in 1..m : f[k] = f[k - 1] + add[k]
      BY <2>1
    <3>2. QED
      BY <3>1
  <2>2. QED
    BY <2>1
<1>4. m \in 1..n /\ m - 1 \in 0..n /\ m - 1 \notin without
  <2>1. m \in 0..n
    OBVIOUS
  <2> HIDE DEF without
  <2>2. QED
    BY <1>2, <1>3, <2>1
<1>5. PICK f \in [0..(m - 1) -> Int] :
        f[0] = 0 /\ \A k \in 1..(m - 1) : f[k] = f[k - 1] + add[k]
  BY <1>4
<1>6. add[m] \in 0..top
  BY <1>4
<1>7. f[m - 1] \in Int
  <2>1. m - 1 \in 0..(m - 1)
    BY <1>4
  <2> HIDE DEF without
  <2>2. QED
    BY <1>5, <2>1
<1> DEFINE g == [k \in 0..m |-> IF k = m THEN f[m - 1] + add[m] ELSE f[k]]
<1>8. g \in [0..m -> Int]
  <2>1. ASSUME NEW k \in 0..m PROVE (IF k = m THEN f[m - 1] + add[m] ELSE f[k]) \in Int
    <3>1. CASE k = m
      <4> HIDE DEF without
      <4> DEFINE x == f[m - 1]
                 y == add[m]
      <4>0. x \in Int /\ y \in 0..top
        BY <1>6, <1>7, Zenon
      <4> HIDE DEF x, y
      <4>01. x + y \in Int
        BY <4>0
      <4>1. f[m - 1] + add[m] \in Int
        BY <4>01, Zenon DEF x, y
      <4>2. QED
        BY <3>1, <4>1
    <3>2. CASE k # m
      <4>1. k \in 0..(m - 1)
        BY <1>4, <3>2
      <4> HIDE DEF without
      <4>2. QED
        BY <3>2, <4>1
    <3>3. QED
      BY <3>1, <3>2
  <2> HIDE DEF without
  <2>2. QED
    BY <2>1
<1>9. g[0] = 0 /\ \A k \in 1..m : g[k] = g[k - 1] + add[k]
  <2> HIDE DEF without
  <2>1. \A k \in 0..m : g[k] = IF k = m THEN f[m - 1] + add[m] ELSE f[k]
    OBVIOUS
  <2> HIDE DEF g
  <2>2. \A k \in 0..(m - 1) : g[k] = f[k]
    BY <1>4, <2>1
  <2>3. g[m] = f[m - 1] + add[m] /\ 0 \in 0..(m - 1) /\ m - 1 \in 0..(m - 1)
    BY <1>4, <2>1
  <2>4. ASSUME NEW k \in 1..m PROVE g[k] = g[k - 1] + add[k]
    <3>1. CASE k = m
      BY <2>2, <2>3, <3>1
    <3>2. CASE k # m
      <4>1. k \in 1..(m - 1) /\ k \in 0..(m - 1) /\ k - 1 \in 0..(m - 1)
        BY <1>4, <3>2
      <4>2. QED
        BY <1>5, <2>2, <4>1
    <3>3. QED
      BY <3>1, <3>2
  <2>5. QED
    BY <1>5, <2>2, <2>3, <2>4
<1>10. m \notin without
  BY <1>8, <1>9
<1>11. QED
  BY <1>10

LEMMA SumInRange ==
  ASSUME NEW n \in Nat, NEW top \in Nat, NEW add \in [1..n -> 0..top], NEW f, IsSum(f, n, add)
  PROVE  f[n] \in 0..(top * n)
<1> DEFINE less == OpToRel(<, Nat)
           off == {m \in 0..n : f[m] \notin 0..(top * m)}
<1>1. SUFFICES ASSUME off # {} PROVE FALSE
  <2>1. CASE off = {}
    <3>1. n \in 0..n /\ n \notin off
      <4> HIDE DEF off
      <4>1. QED
        BY <2>1
    <3>2. QED
      BY <3>1
  <2>2. QED
    BY <2>1
<1>2. PICK m \in off : \A y \in off : ~ (y < m)
  <2>1. off \subseteq Nat
    OBVIOUS
  <2>2. IsWellFoundedOn(less, Nat)
    BY NatLessThanWellFounded
  <2> HIDE DEF less, off
  <2>3. PICK m \in off : \A y \in off : ~ (<<y, m>> \in less)
    BY <1>1, <2>1, <2>2, WFMin
  <2>4. \A y \in off : ~ (y < m)
    BY <2>1, <2>3 DEF less, OpToRel
  <2>5. QED
    BY <2>4
<1>3. /\ f[0] = 0
      /\ \A k \in 1..n : f[k] = f[k - 1] + add[k]
  BY DEF IsSum
<1>4. m \in 0..n /\ m # 0 /\ f[m] \notin 0..(top * m)
  <2>1. m \in 0..n /\ f[m] \notin 0..(top * m)
    OBVIOUS
  <2> HIDE DEF off
  <2>2. CASE m = 0
    <3>1. top * m = 0
      BY <2>2
    <3>2. QED
      BY <1>3, <2>1, <2>2, <3>1
  <2>3. QED
    BY <2>1, <2>2
<1>5. m - 1 \in 0..n /\ m - 1 \notin off
  <2> HIDE DEF off
  <2>1. QED
    BY <1>2, <1>4
<1>6. f[m - 1] \in 0..(top * (m - 1)) /\ add[m] \in 0..top /\ f[m] = f[m - 1] + add[m]
  <2>1. m \in 1..n
    BY <1>4
  <2>2. f[m - 1] \in 0..(top * (m - 1))
    BY <1>5
  <2> HIDE DEF off
  <2>3. QED
    BY <1>3, <2>1, <2>2
<1> HIDE DEF off
<1>7. f[m] \in 0..(top * m)
  <2> DEFINE x == f[m - 1]
             y == add[m]
             below == top * (m - 1)
             all == top * m
  <2>1. x \in 0..below /\ y \in 0..top /\ below \in Int /\ all \in Int /\ all = below + top
    <3>1. m \in Int /\ x \in 0..below /\ y \in 0..top
      BY <1>4, <1>6
    <3> HIDE DEF x, y
    <3>2. QED
      BY <3>1
  <2> HIDE DEF x, y, below, all
  <2>2. x + y \in 0..all
    BY <2>1
  <2>3. QED
    BY <1>6, <2>2, Zenon DEF x, y, all
<1>8. QED
  BY <1>4, <1>7

LEMMA FieldScoreInRange ==
  ASSUME NEW query \in Seq(Word), NEW tokens \in SUBSET Word
  PROVE  /\ FieldScore(query, tokens) \in 0..(SCALE * Len(query))
         /\ tokens = {} => FieldScore(query, tokens) = 0
<1> DEFINE n == Len(query)
           add == [k \in 1..n |-> Best(query[k], tokens)]
           f == CHOOSE f : f = [k \in 0..n |-> IF k = 0 THEN 0
                                               ELSE f[k - 1] + Best(query[k], tokens)]
<1>0. SCALE \in Nat
  BY SearchAssumption
<1>1. n \in Nat /\ \A k \in 1..n : query[k] \in Word
  BY LenProperties, ElementOfSeq
<1>2. add \in [1..n -> 0..SCALE]
  BY <1>1, BestInRange
<1>3. FieldScore(query, tokens) = IF query = Blank \/ tokens = {} THEN 0 ELSE f[n]
  BY DEF FieldScore
<1>4. IsSum(f, n, add)
  <2>1. \A g : (g = [k \in 0..n |-> IF k = 0 THEN 0 ELSE g[k - 1] + Best(query[k], tokens)])
                 <=> IsSum(g, n, add)
    <3> DEFINE Body(g, k) == IF k = 0 THEN 0 ELSE g[k - 1] + Best(query[k], tokens)
               Other(g, k) == IF k = 0 THEN 0 ELSE g[k - 1] + add[k]
    <3>1. ASSUME NEW g PROVE \A k \in 0..n : Body(g, k) = Other(g, k)
      BY <1>1
    <3>2. ASSUME NEW g PROVE [k \in 0..n |-> Body(g, k)] = [k \in 0..n |-> Other(g, k)]
      <4> HIDE DEF Body, Other
      <4>1. QED
        BY <3>1
    <3>3. QED
      BY <3>2, Zenon DEF IsSum
  <2>2. \E g : g = [k \in 0..n |-> IF k = 0 THEN 0 ELSE g[k - 1] + Best(query[k], tokens)]
    BY <1>0, <1>1, <1>2, <2>1, SumThereIs
  <2>3. QED
    BY <2>1, <2>2
<1> HIDE DEF f, add
<1>5. f[n] \in 0..(SCALE * n)
  BY <1>0, <1>1, <1>2, <1>4, SumInRange
<1>6. 0 \in 0..(SCALE * n)
  BY <1>0, <1>1
<1>7. QED
  BY <1>3, <1>5, <1>6

(* Fractions of 1, and which of two is no more than the other.               *)
Part(x) == x.num \in Int /\ x.den \in Int /\ 0 <= x.num /\ x.num <= x.den /\ 0 < x.den
AtMost(x, y) == x.num * y.den <= y.num * x.den

LEMMA DivisionByOne ==
  ASSUME NEW left \in Nat, NEW whole \in Nat \ {0}
  PROVE  (left * whole) % whole = 0
OBVIOUS

LEMMA ExactDivision ==
  ASSUME NEW x \in Nat, NEW whole \in Nat \ {0}, x % whole = 0
  PROVE  x \div whole \in Nat /\ (x \div whole) * whole = x
OBVIOUS

(* A fraction in lowest terms is the same fraction.                          *)
LEMMA LowestTerms ==
  ASSUME NEW whole \in Nat \ {0}, NEW left \in Nat, left <= whole
  PROVE  LET den == CHOOSE d \in 1..whole : (left * d) % whole = 0
             num == (left * den) \div whole IN
         /\ num \in Int /\ den \in Int /\ 0 <= num /\ num <= den /\ 0 < den
         /\ left = whole => num = den
<1> DEFINE den == CHOOSE d \in 1..whole : (left * d) % whole = 0
           num == (left * den) \div whole
<1>1. \E d \in 1..whole : (left * d) % whole = 0
  <2>1. whole \in 1..whole
    OBVIOUS
  <2>2. QED
    BY <2>1, DivisionByOne
<1>2. den \in 1..whole /\ (left * den) % whole = 0
  BY <1>1
<1> HIDE DEF den
<1>3. den \in Nat /\ left * den \in Nat
  BY <1>2
<1>4. num \in Nat /\ num * whole = left * den
  BY <1>2, <1>3, ExactDivision
<1> HIDE DEF num
<1>5. num <= den
  <2>1. CASE num > den
    <3>1. num * whole > den * whole /\ den * whole >= left * den
      BY <1>3, <1>4, <2>1
    <3>2. num * whole \in Int /\ den * whole \in Int /\ left * den \in Int
      BY <1>3, <1>4
    <3>3. QED
      BY <1>4, <3>1, <3>2
  <2>2. QED
    BY <1>3, <1>4, <2>1
<1>6. ASSUME left = whole PROVE num = den
  BY <1>3, <1>4, <1>6
<1>7. QED
  BY <1>2, <1>4, <1>5, <1>6 DEF num, den

Field == {"name", "note", "tags", "neighborhood"}

(* A field leaves a part of a doubt; one that says nothing leaves it all.    *)
LEMMA RemainingRange ==
  ASSUME NEW query \in Seq(Word), query # Blank, NEW p, NEW f \in Field
  PROVE  /\ Part(Remaining(query, p, f))
         /\ FieldTokens(p, f) = {} => Remaining(query, p, f).num = Remaining(query, p, f).den
<1> DEFINE s == FieldScore(query, FieldTokens(p, f))
           w == FIELD_WEIGHTS[f]
           n == Len(query)
           whole == 100 * n * SCALE
           left == whole - w * s
           den == CHOOSE d \in 1..whole : (left * d) % whole = 0
           num == (left * den) \div whole
<1>1. FieldTokens(p, f) \in SUBSET Word
  <2>1. FieldTokens(p, f) \subseteq Searchable
    BY Zenon DEF FieldTokens
  <2>2. QED
    BY <2>1, SearchAssumption
<1>2. s \in 0..(SCALE * n) /\ (FieldTokens(p, f) = {} => s = 0)
  BY <1>1, FieldScoreInRange
<1>3. w \in {90, 80, 75, 70}
  BY DEF FIELD_WEIGHTS, Field
<1>4. n \in Nat \ {0} /\ SCALE \in Nat \ {0}
  <2>1. n \in Nat /\ (n = 0 => query = Blank)
    BY EmptySeq, LenProperties DEF Blank
  <2>2. QED
    BY <2>1, SearchAssumption
<1>5. Remaining(query, p, f) = [num |-> num, den |-> den]
  BY Zenon DEF Remaining
<1> HIDE DEF s, w, n
<1>6. whole \in Nat \ {0} /\ left \in Nat /\ left <= whole /\ (FieldTokens(p, f) = {} => left = whole)
  <2> DEFINE product == SCALE * n
  <2>1. product \in Nat \ {0} /\ whole = 100 * product
    BY <1>4
  <2> HIDE DEF product, whole
  <2>2. s \in Int /\ 0 <= s /\ s <= product /\ w \in Int /\ 70 <= w /\ w <= 90
    BY <1>2, <1>3, <2>1 DEF product
  <2>3. w * s \in Int /\ 0 <= w * s /\ w * s <= 100 * product
    <3>1. CASE w = 90
      BY <2>1, <2>2, <3>1
    <3>2. CASE w = 80
      BY <2>1, <2>2, <3>2
    <3>3. CASE w = 75
      BY <2>1, <2>2, <3>3
    <3>4. CASE w = 70
      BY <2>1, <2>2, <3>4
    <3>5. QED
      BY <1>3, <3>1, <3>2, <3>3, <3>4
  <2>4. s = 0 => w * s = 0
    BY <2>2
  <2> DEFINE x == w * s
  <2>5. left = whole - x /\ x \in Int /\ 0 <= x /\ x <= 100 * product /\ (s = 0 => x = 0)
    BY <2>3, <2>4
  <2> HIDE DEF x, left
  <2>6. QED
    BY <1>2, <2>1, <2>5
<1> HIDE DEF whole, left
<1>7. /\ num \in Int /\ den \in Int /\ 0 <= num /\ num <= den /\ 0 < den
      /\ left = whole => num = den
  BY <1>6, LowestTerms, Zenon
<1> HIDE DEF num, den
<1>8. QED
  BY <1>5, <1>6, <1>7 DEF Part

(* q says what p says, or less.                                             *)
SaysLess(q, p) ==
  \A f \in Field : FieldTokens(q, f) = FieldTokens(p, f) \/ FieldTokens(q, f) = {}

LEMMA RemainingOfLess ==
  ASSUME NEW query \in Seq(Word), query # Blank, NEW p, NEW q, SaysLess(q, p), NEW f \in Field
  PROVE  /\ Part(Remaining(query, p, f)) /\ Part(Remaining(query, q, f))
         /\ AtMost(Remaining(query, p, f), Remaining(query, q, f))
<1> DEFINE x == Remaining(query, p, f)
           y == Remaining(query, q, f)
<1>1. Part(x) /\ Part(y) /\ (FieldTokens(q, f) = {} => y.num = y.den)
  BY RemainingRange, Zenon
<1>2. FieldTokens(q, f) = FieldTokens(p, f) => x = y
  BY DEF Remaining
<1> HIDE DEF x, y
<1>3. x = y => AtMost(x, y)
  BY <1>1 DEF AtMost, Part
<1>4. y.num = y.den => AtMost(x, y)
  <2> DEFINE a == x.num
             b == x.den
             c == y.den
  <2>1. a \in Int /\ b \in Int /\ c \in Int /\ 0 <= a /\ a <= b /\ 0 < c
    BY <1>1 DEF Part
  <2> HIDE DEF a, b, c
  <2>2. a * c <= c * b
    BY <2>1
  <2>3. QED
    BY <2>2 DEF AtMost, a, b, c
<1>5. AtMost(x, y)
  BY <1>1, <1>2, <1>3, <1>4 DEF SaysLess
<1>6. QED
  BY <1>1, <1>5 DEF x, y

(* Products of more are more.                                               *)
LEMMA ProductsOfMore ==
  ASSUME NEW a \in Nat, NEW b \in Nat, NEW c \in Nat, NEW d \in Nat, a <= b, c <= d
  PROVE  a * c \in Nat /\ b * d \in Nat /\ a * c <= b * d
<1>1. a * c <= b * c
  OBVIOUS
<1>2. b * c <= b * d
  OBVIOUS
<1>3. a * c \in Nat /\ b * c \in Nat /\ b * d \in Nat
  OBVIOUS
<1>4. QED
  BY <1>1, <1>2, <1>3

LEMMA TimesOfMore ==
  ASSUME NEW a, NEW b, NEW c, NEW d, Part(a), Part(b), Part(c), Part(d),
         AtMost(a, b), AtMost(c, d)
  PROVE  Part(Times(a, c)) /\ Part(Times(b, d)) /\ AtMost(Times(a, c), Times(b, d))
<1> DEFINE an == a.num
           ad == a.den
           bn == b.num
           bd == b.den
           cn == c.num
           cd == c.den
           dn == d.num
           dd == d.den
<1>1. /\ an \in Nat /\ bn \in Nat /\ cn \in Nat /\ dn \in Nat
      /\ ad \in Nat \ {0} /\ bd \in Nat \ {0} /\ cd \in Nat \ {0} /\ dd \in Nat \ {0}
      /\ an <= ad /\ bn <= bd /\ cn <= cd /\ dn <= dd
      /\ an * bd <= bn * ad /\ cn * dd <= dn * cd
  BY DEF Part, AtMost
<1>2. Times(a, c) = [num |-> an * cn, den |-> ad * cd] /\ Times(b, d) = [num |-> bn * dn, den |-> bd * dd]
  BY DEF Times
<1> HIDE DEF an, ad, bn, bd, cn, cd, dn, dd
<1>3. an * cn \in Nat /\ an * cn <= ad * cd /\ ad * cd \in Nat \ {0}
  BY <1>1, ProductsOfMore
<1>4. bn * dn \in Nat /\ bn * dn <= bd * dd /\ bd * dd \in Nat \ {0}
  BY <1>1, ProductsOfMore
<1>5. (an * bd) * (cn * dd) <= (bn * ad) * (dn * cd)
  <2>1. an * bd \in Nat /\ bn * ad \in Nat /\ cn * dd \in Nat /\ dn * cd \in Nat
    BY <1>1
  <2>2. QED
    BY <1>1, <2>1, ProductsOfMore
<1>6. /\ (an * cn) * (bd * dd) = (an * bd) * (cn * dd)
      /\ (bn * dn) * (ad * cd) = (bn * ad) * (dn * cd)
  BY <1>1
<1>7. (an * cn) * (bd * dd) <= (bn * dn) * (ad * cd)
  BY <1>5, <1>6
<1> DEFINE x == an * cn
           y == ad * cd
           u == bn * dn
           v == bd * dd
<1>8. /\ x \in Nat /\ x <= y /\ y \in Nat \ {0} /\ u \in Nat /\ u <= v /\ v \in Nat \ {0}
      /\ x * v <= u * y
  BY <1>3, <1>4, <1>7
<1>9. Times(a, c) = [num |-> x, den |-> y] /\ Times(b, d) = [num |-> u, den |-> v]
  BY <1>2
<1> HIDE DEF x, y, u, v
<1>10. QED
  BY <1>8, <1>9 DEF Part, AtMost

(* The larger fraction has the larger whole part.                            *)
LEMMA WholePartOfMore ==
  ASSUME NEW a \in Int, NEW b \in Nat \ {0}, NEW c \in Int, NEW d \in Nat \ {0}, a * d <= c * b
  PROVE  a \div b \in Int /\ c \div d \in Int /\ a \div b <= c \div d
<1> DEFINE x == a \div b
           y == c \div d
<1>1. x \in Int /\ y \in Int /\ x * b <= a /\ c < (y + 1) * d
  OBVIOUS
<1> HIDE DEF x, y
<1>2. CASE x > y
  <2> DEFINE z == y + 1
  <2>1. z \in Int /\ z <= x /\ c < z * d
    BY <1>1, <1>2
  <2> HIDE DEF z
  <2>2. (x * b) * d <= a * d
    <3>1. x * b \in Int
      BY <1>1
    <3>2. QED
      BY <1>1, <3>1
  <2>3. c * b < (z * d) * b
    <3>1. z * d \in Int
      BY <2>1
    <3>2. QED
      BY <2>1, <3>1
  <2>4. (z * d) * b <= (x * b) * d
    <3> DEFINE e == b * d
    <3>1. e \in Nat /\ (z * d) * b = z * e /\ (x * b) * d = x * e
      BY <1>1, <2>1
    <3> HIDE DEF e
    <3>2. z * e <= x * e
      BY <1>1, <2>1, <3>1
    <3>3. QED
      BY <3>1, <3>2
  <2>5. /\ (x * b) * d \in Int /\ a * d \in Int /\ c * b \in Int /\ (z * d) * b \in Int
    BY <1>1, <2>1
  <2>6. QED
    BY <2>2, <2>3, <2>4, <2>5
<1>3. QED
  BY <1>1, <1>2 DEF x, y

LEMMA RoundedOfMore ==
  ASSUME NEW x, NEW y, Part(x), Part(y), AtMost(x, y)
  PROVE  Rounded(x) \in Int /\ Rounded(y) \in Int /\ Rounded(y) <= Rounded(x)
<1> DEFINE xn == x.num
           xd == x.den
           yn == y.num
           yd == y.den
           a == 20000 * (yd - yn) + yd
           b == 2 * yd
           c == 20000 * (xd - xn) + xd
           d == 2 * xd
<1>1. /\ xn \in Int /\ yn \in Int /\ xd \in Nat \ {0} /\ yd \in Nat \ {0}
      /\ xn * yd <= yn * xd
  BY DEF Part, AtMost
<1>2. Rounded(x) = c \div d /\ Rounded(y) = a \div b
  BY DEF Rounded
<1> HIDE DEF xn, xd, yn, yd
<1>3. a \in Int /\ c \in Int /\ b \in Nat \ {0} /\ d \in Nat \ {0}
  BY <1>1
<1>4. a * d <= c * b
  <2> DEFINE u == xn * yd
             v == yn * xd
             w == xd * yd
  <2>1. u \in Int /\ v \in Int /\ w \in Int /\ u <= v
    BY <1>1
  <2>2. a * d = 40000 * (w - v) + 2 * w /\ c * b = 40000 * (w - u) + 2 * w
    BY <1>1
  <2> HIDE DEF u, v, w, a, b, c, d
  <2>3. QED
    BY <2>1, <2>2
<1> HIDE DEF a, b, c, d
<1>5. QED
  BY <1>2, <1>3, <1>4, WholePartOfMore

(* Scores are numbers, and a place that says less has no better one.         *)
LEMMA ScoreOfLess ==
  ASSUME NEW query \in Seq(Word), query # Blank, NEW p, NEW q, SaysLess(q, p)
  PROVE  /\ Score(query, p) \in Int
         /\ Score(query, q) <= Score(query, p)
<1> DEFINE p1 == Remaining(query, p, "name")
           p2 == Remaining(query, p, "note")
           p3 == Remaining(query, p, "tags")
           p4 == Remaining(query, p, "neighborhood")
           q1 == Remaining(query, q, "name")
           q2 == Remaining(query, q, "note")
           q3 == Remaining(query, q, "tags")
           q4 == Remaining(query, q, "neighborhood")
           P2 == Times(p1, p2)
           P3 == Times(P2, p3)
           P4 == Times(P3, p4)
           Q2 == Times(q1, q2)
           Q3 == Times(Q2, q3)
           Q4 == Times(Q3, q4)
<1>1. Score(query, p) = Rounded(P4) /\ Score(query, q) = Rounded(Q4)
  BY DEF Score, Doubt
<1>2. \A f \in {"name", "note", "tags", "neighborhood"} : f \in Field
  BY DEF Field
<1>3. /\ Part(p1) /\ Part(q1) /\ AtMost(p1, q1)
      /\ Part(p2) /\ Part(q2) /\ AtMost(p2, q2)
      /\ Part(p3) /\ Part(q3) /\ AtMost(p3, q3)
      /\ Part(p4) /\ Part(q4) /\ AtMost(p4, q4)
  BY <1>2, RemainingOfLess
<1> HIDE DEF p1, p2, p3, p4, q1, q2, q3, q4
<1>4. Part(P2) /\ Part(Q2) /\ AtMost(P2, Q2)
  BY <1>3, TimesOfMore
<1> HIDE DEF P2, Q2
<1>5. Part(P3) /\ Part(Q3) /\ AtMost(P3, Q3)
  BY <1>3, <1>4, TimesOfMore
<1> HIDE DEF P3, Q3
<1>6. Part(P4) /\ Part(Q4) /\ AtMost(P4, Q4)
  BY <1>3, <1>5, TimesOfMore
<1> HIDE DEF P4, Q4
<1>7. QED
  BY <1>1, <1>6, RoundedOfMore

(* A place without one of its fields says less.                              *)
LEMMA WithoutSaysLess ==
  ASSUME NEW p \in Place
  PROVE  /\ SaysLess(p, p)
         /\ \A f \in {"name", "note", "neighborhood"} : SaysLess([p EXCEPT ![f] = Blank], p)
         /\ SaysLess([p EXCEPT !.tags = {}], p)
<1>1. SaysLess(p, p)
  BY DEF SaysLess
<1>2. LoweredNames(ToSet(Blank)) = {} /\ LoweredNames({}) = {}
  BY DEF ToSet, Blank, LoweredNames
<1>3. ASSUME NEW f \in {"name", "note", "neighborhood"}
      PROVE  SaysLess([p EXCEPT ![f] = Blank], p)
  <2> DEFINE q == [p EXCEPT ![f] = Blank]
  <2>1. q[f] = Blank /\ f # "tags" /\ q.tags = p.tags
        /\ \A g \in {"name", "note", "neighborhood"} : g # f => q[g] = p[g]
    BY DEF Place
  <2> HIDE DEF q
  <2>2. FieldTokens(q, f) = {}
    BY <1>2, <2>1 DEF FieldTokens
  <2>3. \A g \in Field : g # f => FieldTokens(q, g) = FieldTokens(p, g)
    BY <2>1 DEF FieldTokens, Field
  <2>4. SaysLess(q, p)
    BY <2>2, <2>3 DEF SaysLess
  <2>5. QED
    BY <2>4 DEF q
<1>4. SaysLess([p EXCEPT !.tags = {}], p)
  <2> DEFINE q == [p EXCEPT !.tags = {}]
  <2>1. q.tags = {} /\ \A g \in {"name", "note", "neighborhood"} : q[g] = p[g]
    BY DEF Place
  <2> HIDE DEF q
  <2>2. \A g \in Field : FieldTokens(q, g) = FieldTokens(p, g) \/ FieldTokens(q, g) = {}
    BY <1>2, <2>1 DEF FieldTokens, Field
  <2>3. QED
    BY <2>2 DEF SaysLess, q
<1>5. QED
  BY <1>1, <1>3, <1>4

-----------------------------------------------------------------------------
(* Rankings.                                                                *)

LEMMA LoweredIsText ==
  ASSUME NEW text \in Text
  PROVE  Lowered(text) \in Text
<1>1. Len(text) \in Nat /\ DOMAIN text = 1..Len(text) /\ \A k \in 1..Len(text) : text[k] \in Word
  BY ElementOfSeq, LenProperties DEF Text
<1>2. Lowered(text) = [k \in 1..Len(text) |-> Lower[text[k]]]
  BY <1>1, Zenon DEF Lowered
<1>3. \A k \in 1..Len(text) : Lower[text[k]] \in Word
  BY <1>1, SearchAssumption
<1>4. QED
  BY <1>1, <1>2, <1>3 DEF Text

LEMMA TokensAreWords ==
  ASSUME NEW typed \in Text
  PROVE  Tokenize(typed) \in Seq(Word)
<1> DEFINE text == Lowered(typed)
           S == {k \in DOMAIN text : text[k] \in Searchable}
           at == InOrder(S, <)
<1>0. text \in Seq(Word)
  BY LoweredIsText DEF Text
<1>6. Tokenize(typed) = [k \in DOMAIN at |-> text[at[k]]]
  BY Zenon DEF Tokenize, Selected
<1> HIDE DEF text
<1>1. Len(text) \in Nat /\ DOMAIN text = 1..Len(text) /\ \A k \in 1..Len(text) : text[k] \in Word
  BY <1>0, LenProperties, ElementOfSeq
<1>2. IsFiniteSet(1..Len(text))
  BY <1>1, FS_Interval
<1>3. S \in SUBSET (1..Len(text)) /\ S \in SUBSET Int
  BY <1>1
<1>4. IsFiniteSet(S)
  BY <1>2, <1>3, FS_Subset
<1>5. Cardinality(S) \in Nat
  BY <1>4, FS_CardinalityType
<1> HIDE DEF S
<1>7. at \in [1..Cardinality(S) -> S] /\ DOMAIN at = 1..Cardinality(S)
  BY <1>3, <1>4, NumbersInOrder
<1> HIDE DEF at
<1>8. \A k \in 1..Cardinality(S) : text[at[k]] \in Word
  BY <1>1, <1>3, <1>7
<1>9. QED
  BY <1>5, <1>6, <1>7, <1>8

(* The fourth part of a key lists the tags.                                  *)
LEMMA KeyTags ==
  ASSUME NEW p \in Place, IsFiniteSet(p.tags)
  PROVE  LET tags == LoweredNames(p.tags)
             list == InOrder(tags, <) IN
         /\ list \in Seq(Word)
         /\ tags = {list[k] : k \in DOMAIN list}
<1> DEFINE tags == LoweredNames(p.tags)
           list == InOrder(tags, <)
<1>1. p.tags \in SUBSET Word
  BY DEF Place
<1>2. tags \in SUBSET Word /\ IsFiniteSet(tags)
  BY <1>1, LoweredTags, FewLowered
<1> HIDE DEF tags
<1>3. tags \in SUBSET Int /\ Cardinality(tags) \in Nat
  <2>1. tags \in SUBSET Int
    BY <1>2, SearchAssumption
  <2>2. Cardinality(tags) \in Nat
    BY <1>2, FS_CardinalityType
  <2>3. QED
    BY <2>1, <2>2
<1>4. /\ list \in [1..Cardinality(tags) -> tags] /\ DOMAIN list = 1..Cardinality(tags)
      /\ \A a \in tags : \E k \in DOMAIN list : list[k] = a
  BY <1>2, <1>3, NumbersInOrder
<1> HIDE DEF list
<1>5. list \in Seq(Word)
  <2> DEFINE c == Cardinality(tags)
  <2>1. c \in Nat
    BY <1>3
  <2>2. list \in [1..c -> tags] /\ tags \in SUBSET Word
    BY <1>2, <1>4
  <2> HIDE DEF c
  <2>3. list \in [1..c -> Word]
    BY <2>2
  <2>4. QED
    BY <2>1, <2>3
<1>6. tags = {list[k] : k \in DOMAIN list}
  BY <1>4
<1>7. QED
  BY <1>5, <1>6, Zenon DEF list, tags

LEMMA KeyOfPlace ==
  ASSUME NEW p \in Place, IsFiniteSet(p.tags)
  PROVE  TieBreakKey(p) \in Key
<1> DEFINE list == InOrder(LoweredNames(p.tags), <)
<1>1. p.name \in Text /\ p.neighborhood \in Text /\ p.note \in Text
  BY DEF Place
<1>2. list \in Text
  BY KeyTags, Zenon DEF Text
<1>3. TieBreakKey(p) = <<Lowered(p.name), Lowered(p.neighborhood), Lowered(p.note), list>>
  BY Zenon DEF TieBreakKey
<1> HIDE DEF list
<1>4. /\ Lowered(p.name) \in Seq(Nat) /\ Lowered(p.neighborhood) \in Seq(Nat)
      /\ Lowered(p.note) \in Seq(Nat) /\ list \in Seq(Nat)
  BY <1>1, <1>2, LoweredIsText, TextIsOfNumbers
<1>5. QED
  BY <1>3, <1>4 DEF Key

(* The key has all that search reads of a place.                             *)
LEMMA KeyTells ==
  ASSUME NEW p \in Place, IsFiniteSet(p.tags), NEW q \in Place, IsFiniteSet(q.tags),
         TieBreakKey(p) = TieBreakKey(q)
  PROVE  Says(p) = Says(q)
<1> DEFINE ps == LoweredNames(p.tags)
           qs == LoweredNames(q.tags)
           pl == InOrder(ps, <)
           ql == InOrder(qs, <)
           pn == Lowered(p.name)
           qn == Lowered(q.name)
           pa == Lowered(p.neighborhood)
           qa == Lowered(q.neighborhood)
           po == Lowered(p.note)
           qo == Lowered(q.note)
<1>1. TieBreakKey(p) = <<pn, pa, po, pl>> /\ TieBreakKey(q) = <<qn, qa, qo, ql>>
  BY Zenon DEF TieBreakKey
<1>2. ps = {pl[k] : k \in DOMAIN pl} /\ qs = {ql[k] : k \in DOMAIN ql}
  BY KeyTags, Zenon
<1>3. Says(p) = <<pn, pa, po, ps>> /\ Says(q) = <<qn, qa, qo, qs>>
  BY Zenon DEF Says
<1> HIDE DEF ps, qs, pl, ql, pn, qn, pa, qa, po, qo
<1>4. pn = qn /\ pa = qa /\ po = qo /\ pl = ql
  <2> DEFINE kp == <<pn, pa, po, pl>>
             kq == <<qn, qa, qo, ql>>
  <2>1. kp[1] = pn /\ kp[2] = pa /\ kp[3] = po /\ kp[4] = pl
    OBVIOUS
  <2>2. kq[1] = qn /\ kq[2] = qa /\ kq[3] = qo /\ kq[4] = ql
    OBVIOUS
  <2>3. kp = kq
    BY <1>1, Zenon
  <2> HIDE DEF kp, kq
  <2>4. QED
    BY <2>1, <2>2, <2>3
<1>5. ps = qs
  BY <1>2, <1>4
<1>6. QED
  BY <1>3, <1>4, <1>5

LEMMA RankedInOrder ==
  ASSUME NEW n \in Nat, NEW score \in [1..n -> Int], NEW key \in [1..n -> Key]
  PROVE  LET r == Ranked(score, key) IN
         /\ r \in [1..n -> 1..n]
         /\ \A i, j \in 1..n : r[i] = r[j] => i = j
         /\ \A i \in 1..n : \E k \in 1..n : r[k] = i
         /\ \A i, j \in 1..n : i < j =>
              /\ score[r[i]] >= score[r[j]]
              /\ score[r[i]] = score[r[j]] => ~ KeyBefore(key[r[j]], key[r[i]])
<1> DEFINE S == 1..n
           Before(i, j) ==
             \/ score[i] > score[j]
             \/ /\ score[i] = score[j]
                /\ \/ KeyBefore(key[i], key[j])
                   \/ i < j /\ ~KeyBefore(key[j], key[i])
           R == {x \in S \X S : Before(x[1], x[2])}
           r == Ranked(score, key)
<1>1. IsFiniteSet(S) /\ Cardinality(S) = n
  BY FS_Interval
<1>2. DOMAIN score = S
  OBVIOUS
<1>3. r = CHOOSE s \in [1..Cardinality(S) -> S] : \A i, j \in DOMAIN s : i < j => Before(s[i], s[j])
  BY <1>2, Zenon DEF Ranked, InOrder
<1>4. \A i, j \in S : <<i, j>> \in R <=> Before(i, j)
  OBVIOUS
<1>5. /\ \A i \in S : ~ KeyBefore(key[i], key[i])
      /\ \A i, j \in S : key[i] = key[j] \/ KeyBefore(key[i], key[j]) \/ KeyBefore(key[j], key[i])
      /\ \A i, j, k \in S : KeyBefore(key[i], key[j]) /\ KeyBefore(key[j], key[k])
                              => KeyBefore(key[i], key[k])
  BY KeyOrder
<1>6. \A i \in S : i \in Int /\ score[i] \in Int
  OBVIOUS
<1> HIDE DEF S, R, r
<1>7. Linear(S, R)
  <2>1. \A i \in S : ~ Before(i, i)
    BY <1>5, <1>6
  <2>2. \A i, j \in S : i = j \/ Before(i, j) \/ Before(j, i)
    BY <1>5, <1>6
  <2>3. ASSUME NEW i \in S, NEW j \in S, NEW k \in S, Before(i, j), Before(j, k)
        PROVE  Before(i, k)
    BY <1>5, <1>6, <2>3
  <2> HIDE DEF Before
  <2>4. QED
    BY <1>4, <2>1, <2>2, <2>3 DEF Linear
<1>8. \E s : Lists(s, S, R)
  BY <1>1, <1>7, ListThereIs
<1> HIDE DEF Before
<1>9. \E s \in [1..Cardinality(S) -> S] : \A i, j \in DOMAIN s : i < j => Before(s[i], s[j])
  BY <1>4, <1>8 DEF Lists
<1>10. /\ r \in [1..Cardinality(S) -> S]
       /\ \A i, j \in DOMAIN r : i < j => Before(r[i], r[j])
  BY <1>3, <1>9
<1>11. r \in [1..n -> S] /\ DOMAIN r = 1..n
  BY <1>1, <1>10
<1>12. Lists(r, S, R)
  BY <1>4, <1>10 DEF Lists
<1>13. /\ \A i, j \in 1..n : r[i] = r[j] => i = j
       /\ \A i \in S : \E k \in 1..n : r[k] = i
  BY <1>1, <1>7, <1>11, <1>12, ListIsAll
<1>14. ASSUME NEW i \in 1..n, NEW j \in 1..n, i < j
       PROVE  /\ score[r[i]] >= score[r[j]]
              /\ score[r[i]] = score[r[j]] => ~ KeyBefore(key[r[j]], key[r[i]])
  <2>1. Before(r[i], r[j]) /\ r[i] \in S /\ r[j] \in S
    BY <1>10, <1>11, <1>14
  <2> DEFINE a == r[i]
             b == r[j]
  <2>2. a \in S /\ b \in S /\ Before(a, b)
    BY <2>1
  <2> HIDE DEF a, b
  <2>3. score[a] \in Int /\ score[b] \in Int /\ score[a] >= score[b]
    BY <1>6, <2>2 DEF Before
  <2>4. ASSUME score[a] = score[b], KeyBefore(key[b], key[a]) PROVE FALSE
    <3>1. KeyBefore(key[a], key[b])
      BY <2>2, <2>3, <2>4 DEF Before
    <3>2. KeyBefore(key[a], key[a])
      BY <1>5, <2>2, <2>4, <3>1
    <3>3. QED
      BY <1>5, <2>2, <3>2
  <2>5. QED
    BY <2>3, <2>4 DEF a, b
<1>15. QED
  BY <1>11, <1>13, <1>14 DEF S, r

(* How many places an answer shows, when m of n match strongly.              *)
Shown(m, n) == IF m > 0 THEN m ELSE Lesser(n, WEAK_MATCH_LIMIT)

(* The first m of the list r are the strong matches, which are shown first.  *)
Leads(places, n, score, r, m) ==
  /\ m \in 0..n /\ \A k \in 1..n : score[r[k]] >= STRONG_MATCH_THRESHOLD <=> k <= m
  /\ Results(places, score, r)
       = [results |-> [k \in 1..Shown(m, n) |-> places[r[k]]], is_weak |-> (m = 0)]

(* The strong matches lead: a list that is sorted is shown from its start.   *)
LEMMA ResultsLead ==
  ASSUME NEW places, NEW n \in Nat, NEW score \in [1..n -> Int], NEW r \in [1..n -> 1..n],
         \A i, j \in 1..n : i < j => score[r[i]] >= score[r[j]]
  PROVE  \E m : Leads(places, n, score, r, m)
<1> DEFINE S == {k \in DOMAIN r : score[r[k]] >= STRONG_MATCH_THRESHOLD}
           strong == Selected(r, LAMBDA i : score[i] >= STRONG_MATCH_THRESHOLD)
           at == InOrder(S, <)
<1>1. DOMAIN r = 1..n /\ STRONG_MATCH_THRESHOLD \in Int
  BY DEF STRONG_MATCH_THRESHOLD
<1>2. \A k \in 1..n : r[k] \in 1..n /\ score[r[k]] \in Int
  OBVIOUS
<1>3. PICK m \in 0..n : S = 1..m
  <2>1. S \in SUBSET (1..n)
    BY <1>1
  <2>2. \A k \in S : \A j \in 1..n : j < k => j \in S
    BY <1>1, <1>2
  <2> HIDE DEF S
  <2>3. QED
    BY <2>1, <2>2, FirstOnes
<1>4. \A k \in 1..n : score[r[k]] >= STRONG_MATCH_THRESHOLD <=> k <= m
  <2>1. \A k \in 1..n : score[r[k]] >= STRONG_MATCH_THRESHOLD <=> k \in S
    BY <1>1
  <2> HIDE DEF S
  <2>2. QED
    BY <1>3, <2>1
<1>5. at = [k \in 1..m |-> k]
  <2> HIDE DEF S
  <2>1. m \in Nat
    OBVIOUS
  <2>2. InOrder(1..m, <) = [k \in 1..m |-> k]
    BY <2>1, FirstNumbers
  <2>3. QED
    BY <1>3, <2>2
<1>6. strong = [k \in DOMAIN at |-> r[at[k]]]
  BY Zenon DEF Selected
<1> HIDE DEF S, at
<1>7. strong = [k \in 1..m |-> r[k]]
  BY <1>5, <1>6
<1> DEFINE shown == IF strong # <<>> THEN strong
                    ELSE SubSeq(r, 1, Lesser(Len(r), WEAK_MATCH_LIMIT))
<1>8. Results(places, score, r)
        = [results |-> [k \in DOMAIN shown |-> places[shown[k]]], is_weak |-> strong = <<>>]
  BY Zenon DEF Results
<1> HIDE DEF strong
<1>9. strong = <<>> <=> m = 0
  <2>1. ASSUME m = 0 PROVE strong = <<>>
    BY <1>7, <2>1
  <2>2. ASSUME strong = <<>> PROVE m = 0
    <3>1. Len(strong) = m
      BY <1>7
    <3>2. Len(<<>>) = 0
      OBVIOUS
    <3>3. QED
      BY <2>2, <3>1, <3>2
  <2>3. QED
    BY <2>1, <2>2
<1>10. DOMAIN shown = 1..Shown(m, n) /\ \A k \in 1..Shown(m, n) : shown[k] = r[k]
  <2>1. CASE m > 0
    <3>1. Shown(m, n) = m /\ shown = strong
      <4>1. m # 0
        BY <2>1
      <4>2. QED
        BY <1>9, <2>1, <4>1, Zenon DEF Shown
    <3> HIDE DEF shown
    <3>2. QED
      BY <1>7, <3>1
  <2>2. CASE ~ (m > 0)
    <3>1. m = 0 /\ Len(r) = n /\ r \in Seq(1..n)
      BY <2>2
    <3> DEFINE l == Lesser(n, WEAK_MATCH_LIMIT)
    <3>2. l \in 0..n
      BY SearchAssumption DEF Lesser
    <3>3. Shown(m, n) = l /\ shown = SubSeq(r, 1, l)
      BY <1>9, <2>2, <3>1, Zenon DEF Shown
    <3> HIDE DEF l, shown
    <3>4. QED
      BY <3>1, <3>2, <3>3
  <2>3. QED
    BY <2>1, <2>2
<1> HIDE DEF shown
<1>11. [k \in DOMAIN shown |-> places[shown[k]]] = [k \in 1..Shown(m, n) |-> places[r[k]]]
  BY <1>10
<1>12. Leads(places, n, score, r, m)
  BY <1>4, <1>8, <1>9, <1>11 DEF Leads
<1>13. QED
  BY <1>12

(* answer ranks the places by r, the first m of them strong matches.         *)
Ranks(places, query, answer, r, m) ==
  LET n == Len(places)
      s == [k \in 1..n |-> Score(query, places[r[k]])]
      key == [k \in 1..n |-> TieBreakKey(places[r[k]])] IN
  /\ r \in [1..n -> 1..n]
  /\ \A i, j \in 1..n : r[i] = r[j] => i = j
  /\ \A i \in 1..n : \E k \in 1..n : r[k] = i
  /\ s \in [1..n -> Int] /\ key \in [1..n -> Key]
  /\ \A i, j \in 1..n : i < j =>
       s[i] >= s[j] /\ (s[i] = s[j] => ~ KeyBefore(key[j], key[i]))
  /\ m \in 0..n /\ \A k \in 1..n : s[k] >= STRONG_MATCH_THRESHOLD <=> k <= m
  /\ answer.results = [k \in 1..Shown(m, n) |-> places[r[k]]]
  /\ n > 0 => (answer.is_weak <=> m = 0)

Tagged(places) == places \in Seq(Place) /\ \A i \in DOMAIN places : IsFiniteSet(places[i].tags)

LEMMA RanksThereAre ==
  ASSUME NEW text \in Text, Tokenize(text) # Blank, NEW places, Tagged(places)
  PROVE  \E r, m : Ranks(places, Tokenize(text), RankPlaces(text, places), r, m)
<1> DEFINE n == Len(places)
           query == Tokenize(text)
           score == [i \in DOMAIN places |-> Score(query, places[i])]
           key == [i \in DOMAIN places |-> TieBreakKey(places[i])]
           r == Ranked(score, key)
           answer == RankPlaces(text, places)
<1>1. n \in Nat /\ DOMAIN places = 1..n /\ \A i \in 1..n : places[i] \in Place
  BY LenProperties, ElementOfSeq DEF Tagged
<1>2. query \in Seq(Word) /\ query # Blank
  BY TokensAreWords
<1> HIDE DEF query
<1>3. score \in [1..n -> Int]
  <2>1. \A i \in 1..n : Score(query, places[i]) \in Int
    BY <1>1, <1>2, WithoutSaysLess, ScoreOfLess
  <2>2. QED
    BY <1>1, <2>1
<1>4. key \in [1..n -> Key]
  <2>1. \A i \in 1..n : TieBreakKey(places[i]) \in Key
    BY <1>1, KeyOfPlace DEF Tagged
  <2>2. QED
    BY <1>1, <2>1
<1>5. \A i \in 1..n : score[i] = Score(query, places[i]) /\ key[i] = TieBreakKey(places[i])
  BY <1>1
<1>6. answer = IF places = <<>> THEN [results |-> <<>>, is_weak |-> FALSE]
               ELSE Results(places, score, r)
  BY <1>2, Zenon DEF RankPlaces, query
<1> HIDE DEF score, key, answer, n
<1>7. /\ r \in [1..n -> 1..n]
      /\ \A i, j \in 1..n : r[i] = r[j] => i = j
      /\ \A i \in 1..n : \E k \in 1..n : r[k] = i
      /\ \A i, j \in 1..n : i < j =>
           /\ score[r[i]] >= score[r[j]]
           /\ score[r[i]] = score[r[j]] => ~ KeyBefore(key[r[j]], key[r[i]])
  BY <1>1, <1>3, <1>4, RankedInOrder
<1> HIDE DEF r
<1>8. PICK m : Leads(places, n, score, r, m)
  <2>1. /\ n \in Nat /\ score \in [1..n -> Int] /\ r \in [1..n -> 1..n]
        /\ \A i, j \in 1..n : i < j => score[r[i]] >= score[r[j]]
    BY <1>1, <1>3, <1>7
  <2>2. QED
    BY <2>1, ResultsLead
<1>led. /\ m \in 0..n /\ \A k \in 1..n : score[r[k]] >= STRONG_MATCH_THRESHOLD <=> k <= m
       /\ Results(places, score, r)
            = [results |-> [k \in 1..Shown(m, n) |-> places[r[k]]], is_weak |-> (m = 0)]
  BY <1>8, Zenon DEF Leads
<1>9. /\ answer.results = [k \in 1..Shown(m, n) |-> places[r[k]]]
      /\ n > 0 => (answer.is_weak <=> m = 0)
  <2>1. CASE n = 0
    <3>1. places = <<>> /\ m = 0
      <4>1. Len(places) = 0 /\ m = 0
        BY <1>led, <2>1 DEF n
      <4>2. places = <<>>
        BY <4>1, EmptySeq DEF Tagged
      <4>3. QED
        BY <4>1, <4>2
    <3>2. Shown(m, n) = 0
      BY <2>1, <3>1, SearchAssumption DEF Shown, Lesser
    <3>3. answer.results = <<>>
      BY <1>6, <3>1
    <3> DEFINE list == [k \in 1..Shown(m, n) |-> places[r[k]]]
    <3>4. list = <<>>
      BY <3>2
    <3>5. n > 0 => (answer.is_weak <=> m = 0)
      BY <2>1, <1>1
    <3>6. answer.results = list
      <4> HIDE DEF list
      <4>1. QED
        BY <3>3, <3>4
    <3>7. QED
      BY <3>5, <3>6
  <2>2. CASE n # 0
    <3>1. places # <<>>
      BY <2>2 DEF n
    <3>2. answer = [results |-> [k \in 1..Shown(m, n) |-> places[r[k]]], is_weak |-> (m = 0)]
      BY <1>6, <1>led, <3>1, Zenon
    <3> DEFINE list == [k \in 1..Shown(m, n) |-> places[r[k]]]
               none == m = 0
    <3>3. answer = [results |-> list, is_weak |-> none]
      BY <3>2
    <3> HIDE DEF list, none
    <3>4. answer.results = list /\ (answer.is_weak <=> none)
      BY <3>3
    <3>5. QED
      BY <3>4, Zenon DEF list, none
  <2>3. QED
    BY <2>1, <2>2
<1> DEFINE sr == [k \in 1..n |-> Score(query, places[r[k]])]
           kr == [k \in 1..n |-> TieBreakKey(places[r[k]])]
<1>10. \A k \in 1..n : r[k] \in 1..n /\ sr[k] = score[r[k]] /\ kr[k] = key[r[k]]
  BY <1>5, <1>7
<1>11. sr \in [1..n -> Int] /\ kr \in [1..n -> Key]
  <2>1. \A k \in 1..n : Score(query, places[r[k]]) \in Int /\ TieBreakKey(places[r[k]]) \in Key
    <3>1. SUFFICES ASSUME NEW k \in 1..n
                   PROVE  Score(query, places[r[k]]) \in Int /\ TieBreakKey(places[r[k]]) \in Key
      OBVIOUS
    <3>2. r[k] \in 1..n
      BY <1>7
    <3>3. score[r[k]] \in Int /\ key[r[k]] \in Key
      BY <1>3, <1>4, <3>2
    <3>4. QED
      BY <1>5, <3>2, <3>3
  <2>2. QED
    BY <2>1
<1> HIDE DEF sr, kr
<1>12. \A i, j \in 1..n : i < j =>
         sr[i] >= sr[j] /\ (sr[i] = sr[j] => ~ KeyBefore(kr[j], kr[i]))
  <2>1. SUFFICES ASSUME NEW i \in 1..n, NEW j \in 1..n, i < j
                 PROVE  sr[i] >= sr[j] /\ (sr[i] = sr[j] => ~ KeyBefore(kr[j], kr[i]))
    OBVIOUS
  <2>2. /\ sr[i] = score[r[i]] /\ sr[j] = score[r[j]]
        /\ kr[i] = key[r[i]] /\ kr[j] = key[r[j]]
    BY <1>10
  <2>3. /\ score[r[i]] >= score[r[j]]
        /\ score[r[i]] = score[r[j]] => ~ KeyBefore(key[r[j]], key[r[i]])
    BY <1>7, <2>1
  <2>4. QED
    BY <2>2, <2>3
<1>13. \A k \in 1..n : sr[k] >= STRONG_MATCH_THRESHOLD <=> k <= m
  BY <1>led, <1>10
<1>14. Ranks(places, query, answer, r, m)
  BY <1>7, <1>led, <1>9, <1>11, <1>12, <1>13, Zenon DEF Ranks, n, sr, kr
<1>15. QED
  BY <1>14 DEF query, answer

(* Keys ordered by falling score and, at one score, by themselves.           *)
Falling(n, s, key) ==
  /\ s \in [1..n -> Int] /\ key \in [1..n -> Key]
  /\ \A i, j \in 1..n : i < j =>
       s[i] >= s[j] /\ (s[i] = s[j] => ~ KeyBefore(key[j], key[i]))

Ahead(x, y) == x[1] > y[1] \/ (x[1] = y[1] /\ KeyBefore(x[2], y[2]))

LEMMA AheadIsWeak == Weak(Int \X Key, {z \in (Int \X Key) \X (Int \X Key) : Ahead(z[1], z[2])})
<1> DEFINE V == Int \X Key
           R == {z \in V \X V : Ahead(z[1], z[2])}
<1>1. \A x, y \in V : <<x, y>> \in R <=> Ahead(x, y)
  <2> HIDE DEF V
  <2>1. QED
    OBVIOUS
<1>2. \A x \in V : x[1] \in Int /\ x[2] \in Key
  OBVIOUS
<1> HIDE DEF V, R
<1>3. \A x \in V : ~ Ahead(x, x)
  BY <1>2, KeyOrder DEF Ahead
<1>4. ASSUME NEW x \in V, NEW y \in V, NEW z \in V, Ahead(x, y), Ahead(y, z)
      PROVE  Ahead(x, z)
  BY <1>2, <1>4, KeyOrder DEF Ahead
<1>5. ASSUME NEW x \in V, NEW y \in V, NEW z \in V, Ahead(x, z)
      PROVE  Ahead(x, y) \/ Ahead(y, z)
  BY <1>2, <1>5, KeyOrder DEF Ahead
<1>6. Weak(V, R)
  BY <1>1, <1>3, <1>4, <1>5, Zenon DEF Weak
<1>7. QED
  BY <1>6 DEF V, R

(* pi says where the i-th pair of one list stands in the other.              *)
Moves(pi, n, s, key, t, kez) ==
  /\ pi \in [1..n -> 1..n] /\ \A i, j \in 1..n : pi[i] = pi[j] => i = j
  /\ \A i \in 1..n : s[i] = t[pi[i]] /\ key[i] = kez[pi[i]]

SameLists(n, s, key, t, kez) == \A k \in 1..n : s[k] = t[k] /\ key[k] = kez[k]

(* The order leaves no choice of the keys.                                   *)
LEMMA SameOrder ==
  ASSUME NEW n \in Nat, NEW s, NEW key, NEW t, NEW kez,
         Falling(n, s, key), Falling(n, t, kez),
         NEW pi, Moves(pi, n, s, key, t, kez)
  PROVE  SameLists(n, s, key, t, kez)
<1> DEFINE V == Int \X Key
           R == {z \in V \X V : Ahead(z[1], z[2])}
           f == [k \in 1..n |-> <<s[k], key[k]>>]
           g == [k \in 1..n |-> <<t[k], kez[k]>>]
<1>1. \A x, y \in V : <<x, y>> \in R <=> Ahead(x, y)
  <2> HIDE DEF V
  <2>1. QED
    OBVIOUS
<1>2. Weak(V, R)
  BY AheadIsWeak
<1>3. /\ \A k \in 1..n : s[k] \in Int /\ key[k] \in Key /\ t[k] \in Int /\ kez[k] \in Key
  BY DEF Falling
<1>4. f \in [1..n -> V] /\ g \in [1..n -> V]
  BY <1>3
<1>5. ASSUME NEW i \in 1..n, NEW j \in 1..n, i < j
      PROVE  ~ Ahead(f[j], f[i]) /\ ~ Ahead(g[j], g[i])
  <2>1. /\ s[i] >= s[j] /\ (s[i] = s[j] => ~ KeyBefore(key[j], key[i]))
        /\ t[i] >= t[j] /\ (t[i] = t[j] => ~ KeyBefore(kez[j], kez[i]))
    BY <1>5, Zenon DEF Falling
  <2>2. s[i] \in Int /\ s[j] \in Int /\ t[i] \in Int /\ t[j] \in Int
    BY <1>3
  <2>3. /\ ~ (s[j] > s[i]) /\ ~ (t[j] > t[i])
        /\ ~ (s[j] = s[i] /\ KeyBefore(key[j], key[i]))
        /\ ~ (t[j] = t[i] /\ KeyBefore(kez[j], kez[i]))
    BY <2>1, <2>2
  <2>4. /\ f[i][1] = s[i] /\ f[j][1] = s[j] /\ f[i][2] = key[i] /\ f[j][2] = key[j]
        /\ g[i][1] = t[i] /\ g[j][1] = t[j] /\ g[i][2] = kez[i] /\ g[j][2] = kez[j]
    OBVIOUS
  <2> HIDE DEF f, g
  <2>5. QED
    BY <2>3, <2>4 DEF Ahead
<1>6. /\ pi \in [1..n -> 1..n] /\ \A i, j \in 1..n : pi[i] = pi[j] => i = j
      /\ \A i \in 1..n : f[i] = g[pi[i]]
  BY DEF Moves
<1>7. \A k \in 1..n : /\ f[k][1] = s[k] /\ f[k][2] = key[k] /\ g[k][1] = t[k] /\ g[k][2] = kez[k]
  OBVIOUS
<1> HIDE DEF V, R, f, g
<1>8. DOMAIN f = 1..n /\ DOMAIN g = 1..n /\ \A k \in 1..n : f[k] \in V /\ g[k] \in V
  BY <1>4
<1>9. Sorted(f, R) /\ Sorted(g, R)
  BY <1>1, <1>5, <1>8 DEF Sorted
<1>10. \A k \in 1..n : <<f[k], g[k]>> \notin R /\ <<g[k], f[k]>> \notin R
  BY <1>2, <1>4, <1>6, <1>9, SameRanks
<1>11. \A k \in 1..n : ~ Ahead(f[k], g[k]) /\ ~ Ahead(g[k], f[k])
  BY <1>1, <1>8, <1>10
<1>12. QED
  BY <1>3, <1>7, <1>11, KeyOrder DEF Ahead, SameLists

(* The rows are the places in another order.                                *)
Mixed(rows, places, order) ==
  /\ order \in Bijection(DOMAIN places, DOMAIN places)
  /\ rows = [k \in DOMAIN places |-> places[order[k]]]

SameKeys(places, r, m, rows, u, l) ==
  /\ l = m /\ Len(rows) = Len(places)
  /\ \A k \in 1..Len(places) : TieBreakKey(rows[u[k]]) = TieBreakKey(places[r[k]])

(* However the rows come, the keys are shown in one order.                   *)
LEMMA SameRanking ==
  ASSUME NEW places, Tagged(places), NEW query,
         NEW rows, NEW order, Mixed(rows, places, order),
         NEW a, NEW r, NEW m, Ranks(places, query, a, r, m),
         NEW b, NEW u, NEW l, Ranks(rows, query, b, u, l)
  PROVE  SameKeys(places, r, m, rows, u, l)
<1> DEFINE n == Len(places)
           s == [k \in 1..n |-> Score(query, places[r[k]])]
           key == [k \in 1..n |-> TieBreakKey(places[r[k]])]
           t == [k \in 1..Len(rows) |-> Score(query, rows[u[k]])]
           kez == [k \in 1..Len(rows) |-> TieBreakKey(rows[u[k]])]
<1>1. n \in Nat /\ DOMAIN places = 1..n
  BY LenProperties DEF Tagged
<1>2. /\ Len(rows) = n /\ \A k \in 1..n : rows[k] = places[order[k]]
      /\ \A i \in 1..n : \E k \in 1..n : order[k] = i
  <2>1. /\ order \in [1..n -> 1..n]
        /\ \A i \in 1..n : \E k \in 1..n : order[k] = i
    BY <1>1, Zenon DEF Mixed, Bijection, Surjection
  <2>2. rows = [k \in 1..n |-> places[order[k]]]
    BY <1>1 DEF Mixed
  <2> HIDE DEF n
  <2>3. Len(rows) = n
    BY <1>1, <2>2
  <2>4. QED
    BY <2>1, <2>2, <2>3
<1>3. /\ r \in [1..n -> 1..n]
      /\ \A i, j \in 1..n : r[i] = r[j] => i = j
      /\ Falling(n, s, key)
      /\ m \in 0..n /\ \A k \in 1..n : s[k] >= STRONG_MATCH_THRESHOLD <=> k <= m
  BY Zenon DEF Ranks, Falling
<1>4. /\ u \in [1..n -> 1..n]
      /\ \A i \in 1..n : \E k \in 1..n : u[k] = i
      /\ Falling(n, t, kez)
      /\ l \in 0..n /\ \A k \in 1..n : t[k] >= STRONG_MATCH_THRESHOLD <=> k <= l
  <2> DEFINE c == Len(rows)
  <2>1. /\ u \in [1..c -> 1..c]
        /\ \A i \in 1..c : \E k \in 1..c : u[k] = i
        /\ Falling(c, t, kez)
        /\ l \in 0..c /\ \A k \in 1..c : t[k] >= STRONG_MATCH_THRESHOLD <=> k <= l
    BY Zenon DEF Ranks, Falling
  <2>2. c = n
    BY <1>2
  <2> HIDE DEF c, n, t, kez
  <2>3. QED
    BY <2>1, <2>2
<1> DEFINE pi == [i \in 1..n |-> CHOOSE j \in 1..n : order[u[j]] = r[i]]
<1>5. \A i \in 1..n :
        /\ s[i] = Score(query, places[r[i]]) /\ t[i] = Score(query, rows[u[i]])
        /\ key[i] = TieBreakKey(places[r[i]]) /\ kez[i] = TieBreakKey(rows[u[i]])
  BY <1>2
<1> HIDE DEF n, s, key, t, kez
<1>6. \A i \in 1..n : pi[i] \in 1..n /\ order[u[pi[i]]] = r[i]
  <2>1. ASSUME NEW i \in 1..n PROVE \E j \in 1..n : order[u[j]] = r[i]
    <3>1. PICK k \in 1..n : order[k] = r[i]
      BY <1>2, <1>3
    <3>2. PICK j \in 1..n : u[j] = k
      BY <1>4
    <3>3. QED
      BY <3>1, <3>2
  <2>2. QED
    BY <2>1
<1>61. pi \in [1..n -> 1..n]
  BY <1>6
<1> HIDE DEF pi
<1>7. ASSUME NEW i \in 1..n, NEW j \in 1..n, pi[i] = pi[j] PROVE i = j
  <2>1. r[i] = r[j]
    BY <1>6, <1>7
  <2>2. QED
    BY <1>3, <2>1
<1>8. ASSUME NEW i \in 1..n PROVE s[i] = t[pi[i]] /\ key[i] = kez[pi[i]]
  <2>1. PICK j \in 1..n : j = pi[i] /\ order[u[j]] = r[i]
    BY <1>6
  <2>2. u[j] \in 1..n
    BY <1>4, <2>1
  <2>3. rows[u[j]] = places[r[i]]
    <3>1. rows[u[j]] = places[order[u[j]]]
      BY <1>2, <2>2, Zenon
    <3>2. QED
      BY <2>1, <3>1, Zenon
  <2>4. QED
    BY <1>5, <2>1, <2>3
<1>10. \A k \in 1..n : s[k] = t[k] /\ key[k] = kez[k]
  <2>1. Falling(n, s, key) /\ Falling(n, t, kez)
    BY <1>3, <1>4, Zenon
  <2>2. Moves(pi, n, s, key, t, kez)
    BY <1>61, <1>7, <1>8, Zenon DEF Moves
  <2>3. SameLists(n, s, key, t, kez)
    BY <1>1, <2>1, <2>2, SameOrder
  <2>4. QED
    BY <2>3, Zenon DEF SameLists
<1>11. m = l
  <2>1. \A k \in 1..n : k <= m <=> k <= l
    BY <1>3, <1>4, <1>10
  <2>2. m \in Int /\ l \in Int /\ 0 <= m /\ m <= n /\ 0 <= l /\ l <= n
    BY <1>1, <1>3, <1>4
  <2>3. CASE m < l
    <3>1. l \in 1..n
      BY <1>1, <2>2, <2>3
    <3>2. QED
      BY <2>1, <2>2, <2>3, <3>1
  <2>4. CASE l < m
    <3>1. m \in 1..n
      BY <1>1, <2>2, <2>4
    <3>2. QED
      BY <2>1, <2>2, <2>4, <3>1
  <2>5. QED
    BY <2>2, <2>3, <2>4
<1>12. \A k \in 1..n : TieBreakKey(rows[u[k]]) = TieBreakKey(places[r[k]])
  BY <1>5, <1>10
<1>13. QED
  BY <1>2, <1>11, <1>12, Zenon DEF SameKeys, n

(* What a search prints of a ranking: its first places, as many as it may.   *)
Prints(places, limit, f, r, m) ==
  /\ f.results = [k \in 1..Lesser(Shown(m, Len(places)), limit) |-> places[r[k]]]
  /\ Len(places) > 0 => (f.is_weak <=> m = 0)

(* How many that are.                                                       *)
LEMMA ManyPrinted ==
  ASSUME NEW n \in Nat, NEW m \in 0..n, NEW limit \in Nat \ {0}
  PROVE  LET N == Shown(m, n)
             L == Lesser(N, limit) IN
         /\ N \in 0..n /\ L \in 0..N /\ L <= limit
         /\ L = limit \/ L = N
         /\ m > 0 => N = m
         /\ m = 0 => N <= WEAK_MATCH_LIMIT /\ (N = WEAK_MATCH_LIMIT \/ N = n)
BY SearchAssumption DEF Shown, Lesser

LEMMA FrontOfList ==
  ASSUME NEW S, NEW s \in Seq(S), NEW l \in 0..Len(s)
  PROVE  SubSeq(s, 1, l) = [k \in 1..l |-> s[k]]
BY LenProperties

LEMMA AnswerHasResults ==
  ASSUME NEW text, NEW places
  PROVE  \E x, w : RankPlaces(text, places) = [results |-> x, is_weak |-> w]
<1> DEFINE query == Tokenize(text)
           score == [i \in DOMAIN places |-> Score(query, places[i])]
           key == [i \in DOMAIN places |-> TieBreakKey(places[i])]
           r == Ranked(score, key)
<1>1. RankPlaces(text, places)
        = IF query = Blank \/ places = <<>> THEN [results |-> <<>>, is_weak |-> FALSE]
          ELSE Results(places, score, r)
  BY Zenon DEF RankPlaces
<1> HIDE DEF query, score, r
<1>2. \E x, w : Results(places, score, r) = [results |-> x, is_weak |-> w]
  <2> DEFINE strong == Selected(r, LAMBDA i : score[i] >= STRONG_MATCH_THRESHOLD)
             shown == IF strong # <<>> THEN strong
                      ELSE SubSeq(r, 1, Lesser(Len(r), WEAK_MATCH_LIMIT))
             list == [k \in DOMAIN shown |-> places[shown[k]]]
             none == strong = <<>>
  <2>1. Results(places, score, r) = [results |-> list, is_weak |-> none]
    BY Zenon DEF Results
  <2> HIDE DEF list, none
  <2>2. QED
    BY <2>1, Zenon
<1>3. QED
  BY <1>1, <1>2, Zenon

(* A search prints what it ranked.                                          *)
LEMMA FoundOfRanks ==
  ASSUME NEW call, call.query \in Text, Tokenize(call.query) # Blank, call.limit \in Nat \ {0},
         NEW places, Tagged(places)
  PROVE  \E a, r, m : /\ Ranks(places, Tokenize(call.query), a, r, m)
                      /\ Prints(places, call.limit, Found(call, places), r, m)
<1> DEFINE n == Len(places)
           query == Tokenize(call.query)
           limit == call.limit
           a == RankPlaces(call.query, places)
           f == Found(call, places)
<1>1. PICK r, m : Ranks(places, query, a, r, m)
  BY RanksThereAre, Zenon
<1> DEFINE N == Shown(m, n)
           L == Lesser(N, limit)
           best == a.results
<1>2. PICK x, w : a = [results |-> x, is_weak |-> w]
  BY AnswerHasResults, Zenon
<1>3. f = [a EXCEPT !.results = SubSeq(@, 1, Lesser(Len(@), limit))]
  BY Zenon DEF Found
<1>4. n \in Nat /\ DOMAIN places = 1..n /\ \A i \in 1..n : places[i] \in Place
  BY LenProperties, ElementOfSeq DEF Tagged
<1>5. /\ r \in [1..n -> 1..n] /\ m \in 0..n
      /\ best = [k \in 1..N |-> places[r[k]]]
      /\ n > 0 => (a.is_weak <=> m = 0)
  BY <1>1, Zenon DEF Ranks
<1> HIDE DEF a, f, n, query
<1>6. f.results = SubSeq(best, 1, Lesser(Len(best), limit)) /\ f.is_weak = a.is_weak
  BY <1>2, <1>3
<1>7. N \in 0..n /\ L \in 0..N
  BY <1>4, <1>5, ManyPrinted
<1> HIDE DEF N, best
<1>8. best \in Seq(Place) /\ Len(best) = N /\ \A k \in 1..N : best[k] = places[r[k]]
  <2> DEFINE list == [k \in 1..N |-> places[r[k]]]
  <2>1. N \in Nat /\ \A k \in 1..N : places[r[k]] \in Place
    BY <1>4, <1>5, <1>7
  <2>2. list \in Seq(Place) /\ Len(list) = N /\ \A k \in 1..N : list[k] = places[r[k]]
    BY <2>1
  <2> HIDE DEF list
  <2>3. best = list
    BY <1>5, Zenon DEF list
  <2>4. QED
    BY <2>2, <2>3
<1>9. f.results = SubSeq(best, 1, L)
  BY <1>6, <1>8, Zenon DEF L
<1> HIDE DEF L
<1>10. f.results = [k \in 1..L |-> best[k]]
  BY <1>7, <1>8, <1>9, FrontOfList
<1>11. f.results = [k \in 1..L |-> places[r[k]]]
  BY <1>4, <1>7, <1>8, <1>10
<1>12. n > 0 => (f.is_weak <=> m = 0)
  BY <1>5, <1>6, Zenon
<1>13. Prints(places, limit, f, r, m)
  BY <1>11, <1>12, Zenon DEF Prints, L, N, n
<1>14. QED
  BY <1>1, <1>13, Zenon DEF f, query

(* What a ranking and what is printed of it are, place by place.            *)
Printed(places, query, limit, f, r, m, n, s) ==
  LET N == Shown(m, n)
      L == Lesser(N, limit) IN
  /\ n \in Nat /\ m \in 0..n /\ N \in 0..n /\ L \in 0..N
  /\ \A k \in 1..n : s[k] \in Int /\ s[k] = Score(query, places[r[k]])
  /\ \A i, j \in 1..n : i < j => s[i] >= s[j]
  /\ \A k \in 1..n : s[k] >= STRONG_MATCH_THRESHOLD <=> k <= m
  /\ \A k \in 1..n : places[r[k]] \in ToSet(places)
  /\ \A p \in ToSet(places) : \E k \in 1..n : p = places[r[k]]
  /\ Len(f.results) = L /\ DOMAIN f.results = 1..L
  /\ \A k \in 1..L : f.results[k] = places[r[k]]
  /\ n > 0 => (f.is_weak <=> m = 0)

LEMMA PrintedOfRanks ==
  ASSUME NEW places, Tagged(places), NEW query, NEW limit \in Nat \ {0},
         NEW a, NEW r, NEW m, Ranks(places, query, a, r, m),
         NEW f, Prints(places, limit, f, r, m)
  PROVE  \E s : Printed(places, query, limit, f, r, m, Len(places), s)
<1> DEFINE n == Len(places)
           s == [k \in 1..n |-> Score(query, places[r[k]])]
           N == Shown(m, n)
           L == Lesser(N, limit)
<1>1. n \in Nat /\ DOMAIN places = 1..n
  BY LenProperties DEF Tagged
<1>2. /\ r \in [1..n -> 1..n]
      /\ \A i \in 1..n : \E k \in 1..n : r[k] = i
      /\ s \in [1..n -> Int]
      /\ \A i, j \in 1..n : i < j => s[i] >= s[j]
      /\ m \in 0..n /\ \A k \in 1..n : s[k] >= STRONG_MATCH_THRESHOLD <=> k <= m
  BY Zenon DEF Ranks
<1>3. f.results = [k \in 1..L |-> places[r[k]]] /\ (n > 0 => (f.is_weak <=> m = 0))
  BY Zenon DEF Prints
<1>4. N \in 0..n /\ L \in 0..N
  BY <1>1, <1>2, ManyPrinted
<1>5. \A k \in 1..n : s[k] = Score(query, places[r[k]])
  OBVIOUS
<1> HIDE DEF n, s, N, L
<1>6. \A k \in 1..n : s[k] \in Int
  BY <1>2
<1>7. \A k \in 1..n : places[r[k]] \in ToSet(places)
  BY <1>1, <1>2 DEF ToSet
<1>8. \A p \in ToSet(places) : \E k \in 1..n : p = places[r[k]]
  BY <1>1, <1>2 DEF ToSet
<1>9. /\ Len(f.results) = L /\ DOMAIN f.results = 1..L
      /\ \A k \in 1..L : f.results[k] = places[r[k]]
  <2> DEFINE list == [k \in 1..L |-> places[r[k]]]
  <2>1. L \in Nat
    BY <1>1, <1>4
  <2>2. Len(list) = L /\ DOMAIN list = 1..L /\ \A k \in 1..L : list[k] = places[r[k]]
    BY <2>1
  <2> HIDE DEF list
  <2>3. f.results = list
    BY <1>3, Zenon DEF list
  <2>4. QED
    BY <2>2, <2>3
<1>10. QED
  BY <1>1, <1>2, <1>3, <1>4, <1>5, <1>6, <1>7, <1>8, <1>9, Zenon DEF Printed, n, N, L

(* The places a search ranks.                                               *)
LEMMA ListedIsTagged ==
  ASSUME Counted(db), NoTagIsOrphaned, NEW call
  PROVE  Tagged(Listed(db, call))
<1> DEFINE S == FindCandidates(db, call)
           ids == InOrder(S, <)
           places == [k \in DOMAIN ids |-> db.place[ids[k]]]
           n == Cardinality(S)
<1>1. /\ Len(db.place) \in Nat /\ DOMAIN db.place = 1..Len(db.place)
      /\ \A i \in DOMAIN db.place : db.place[i] \in Place
  BY LenProperties, ElementOfSeq DEF Counted
<1>2. S \in SUBSET (DOMAIN db.place)
  BY DEF FindCandidates
<1>9. Listed(db, call) = places
  BY Zenon DEF Listed
<1> HIDE DEF S
<1>3. IsFiniteSet(S) /\ n \in Nat
  <2>1. IsFiniteSet(1..Len(db.place))
    BY <1>1, FS_Interval
  <2>2. IsFiniteSet(S)
    BY <1>1, <1>2, <2>1, FS_Subset
  <2>3. QED
    BY <2>2, FS_CardinalityType
<1>4. ASSUME NEW i \in DOMAIN db.place PROVE IsFiniteSet(db.place[i].tags)
  <2>1. db.place[i].tags \in SUBSET db.tag
    BY DEF NoTagIsOrphaned
  <2>2. QED
    BY <2>1, FS_Subset DEF Counted
<1>5. ids \in [1..n -> S] /\ DOMAIN ids = 1..n
  <2>1. S \in SUBSET Int
    BY <1>1, <1>2
  <2>2. QED
    BY <1>3, <2>1, NumbersInOrder
<1> HIDE DEF ids, n
<1>6. \A k \in 1..n : places[k] \in Place /\ IsFiniteSet(places[k].tags)
  BY <1>1, <1>2, <1>4, <1>5
<1>7. places = [k \in 1..n |-> places[k]]
  BY <1>5
<1> HIDE DEF places
<1>8. places \in Seq(Place) /\ DOMAIN places = 1..n
  BY <1>3, <1>6, <1>7
<1>10. QED
  BY <1>6, <1>8, <1>9 DEF Tagged

(* They may come in any order.                                              *)
LEMMA MixedIsTagged ==
  ASSUME NEW places, Tagged(places), NEW order \in Bijection(DOMAIN places, DOMAIN places)
  PROVE  Tagged([k \in DOMAIN places |-> places[order[k]]])
<1> DEFINE n == Len(places)
           rows == [k \in DOMAIN places |-> places[order[k]]]
<1>1. /\ n \in Nat /\ DOMAIN places = 1..n
      /\ \A i \in 1..n : places[i] \in Place /\ IsFiniteSet(places[i].tags)
  BY LenProperties, ElementOfSeq DEF Tagged
<1>2. order \in [1..n -> 1..n]
  BY <1>1, Zenon DEF Bijection, Injection
<1> HIDE DEF n
<1>3. /\ rows = [k \in 1..n |-> rows[k]] /\ DOMAIN rows = 1..n
      /\ \A k \in 1..n : rows[k] = places[order[k]]
  BY <1>1
<1> HIDE DEF rows
<1>4. \A k \in 1..n : rows[k] \in Place /\ IsFiniteSet(rows[k].tags)
  BY <1>1, <1>2, <1>3
<1>5. rows \in Seq(Place)
  BY <1>1, <1>3, <1>4
<1>6. Tagged(rows)
  BY <1>3, <1>4, <1>5 DEF Tagged
<1>7. QED
  BY <1>6 DEF rows

LEMMA SearchIsAsked ==
  ASSUME IInv, ReportInv, NEW t \in Terminal, Asks(t, "find", "list")
  PROVE  LET call == cmd[t].call IN
         /\ call.query \in Text /\ call.limit \in Nat \ {0}
         /\ Tokenize(call.query) \in Seq(Word) /\ Tokenize(call.query) # Blank
         /\ Tagged(Listed(db, call))
<1> DEFINE call == cmd[t].call
<1>1. Counted(db) /\ NoTagIsOrphaned
  BY CountedNow DEF IInv
<1>2. call \in Calls /\ call.kind = "find" /\ Tokenize(call.query) # Blank
  BY JournalAssumption DEF IInv, Typed, CmdOK, Asks
<1> HIDE DEF call
<1>3. call.query \in Text /\ call.limit \in Nat \ {0}
  BY <1>2 DEF Calls
<1>4. Tokenize(call.query) \in Seq(Word)
  BY <1>3, TokensAreWords, Zenon
<1>5. Tagged(Listed(db, call))
  BY <1>1, ListedIsTagged, Zenon
<1>6. QED
  BY <1>2, <1>3, <1>4, <1>5 DEF call

LEMMA TaggedOnes ==
  ASSUME NEW places, Tagged(places), NEW p \in ToSet(places)
  PROVE  p \in Place /\ IsFiniteSet(p.tags)
<1>1. PICK k \in DOMAIN places : p = places[k]
  BY DEF ToSet
<1>2. QED
  BY <1>1, LenProperties, ElementOfSeq DEF Tagged

(* Whatever was committed before, a search holds back nothing better than    *)
(* what it shows and nothing it should show, and is weak exactly when it    *)
(* shows guesses.                                                           *)
THEOREM SearchIsStrongOrClosest == Spec => []StrongOrClosest
<1>1. Spec => []IInv /\ []ReportInv
  BY Invariance, ReportInvariance, PTL
<1>2. ASSUME IInv, ReportInv, NEW t \in Terminal, Asks(t, "find", "list")
      PROVE  LET call == cmd[t].call
                 answer == Found(call, Listed(db, call))
                 shown == ToSet(answer.results)
                 held == ToSet(Listed(db, call)) \ shown
                 Worth(p) == Score(Tokenize(call.query), p) IN
             /\ \A p \in shown : answer.is_weak <=> Worth(p) < STRONG_MATCH_THRESHOLD
             /\ \A p \in held, q \in shown : Worth(p) <= Worth(q)
             /\ answer.is_weak => Len(answer.results) <= WEAK_MATCH_LIMIT
             /\ \A p \in held :
                  \/ Len(answer.results) = call.limit
                  \/ answer.is_weak /\ Len(answer.results) = WEAK_MATCH_LIMIT
                  \/ ~answer.is_weak /\ Worth(p) < STRONG_MATCH_THRESHOLD
  <2> DEFINE call == cmd[t].call
             places == Listed(db, call)
             query == Tokenize(call.query)
             answer == Found(call, places)
             limit == call.limit
             n == Len(places)
             shown == ToSet(answer.results)
             held == ToSet(places) \ shown
             T == STRONG_MATCH_THRESHOLD
             weak == answer.is_weak
             size == Len(answer.results)
  <2>1. limit \in Nat \ {0}
    BY <1>2, SearchIsAsked, Zenon
  <2>2. \E r, m, s : Printed(places, query, limit, answer, r, m, n, s)
    <3>1. Tagged(places)
      BY <1>2, SearchIsAsked, Zenon
    <3>2. PICK a, r, m : Ranks(places, query, a, r, m) /\ Prints(places, limit, answer, r, m)
      BY <1>2, SearchIsAsked, FoundOfRanks, Zenon
    <3>3. QED
      BY <2>1, <3>1, <3>2, PrintedOfRanks, Zenon
  <2> HIDE DEF answer, limit, places, query, n, call
  <2>3. PICK r, m, s : Printed(places, query, limit, answer, r, m, n, s)
    BY <2>2, Zenon
  <2> DEFINE N == Shown(m, n)
             L == Lesser(N, limit)
  <2>4. /\ n \in Nat /\ m \in 0..n /\ N \in 0..n /\ L \in 0..N
        /\ L = limit \/ L = N
        /\ m > 0 => N = m
        /\ m = 0 => N <= WEAK_MATCH_LIMIT /\ (N = WEAK_MATCH_LIMIT \/ N = n)
    BY <2>1, <2>3, ManyPrinted DEF Printed
  <2>5. /\ \A k \in 1..n : s[k] \in Int /\ s[k] = Score(query, places[r[k]])
        /\ \A i, j \in 1..n : i < j => s[i] >= s[j]
        /\ \A k \in 1..n : s[k] >= T <=> k <= m
        /\ \A k \in 1..n : places[r[k]] \in ToSet(places)
        /\ \A p \in ToSet(places) : \E k \in 1..n : p = places[r[k]]
        /\ size = L /\ DOMAIN answer.results = 1..L
        /\ \A k \in 1..L : answer.results[k] = places[r[k]]
        /\ n > 0 => (weak <=> m = 0)
    BY <2>3, Zenon DEF Printed
  <2>6. T \in Int /\ WEAK_MATCH_LIMIT \in Nat /\ limit \in Nat
    BY <2>1, SearchAssumption DEF STRONG_MATCH_THRESHOLD
  <2>7. \A q \in shown : \E k \in 1..L : q = places[r[k]]
    BY <2>5 DEF ToSet
  <2>8. \A p \in held : \E k \in 1..n : k > L /\ p = places[r[k]]
    <3>1. \A k \in 1..L : places[r[k]] \in shown
      BY <2>5 DEF ToSet
    <3> HIDE DEF shown
    <3>2. SUFFICES ASSUME NEW p \in held PROVE \E k \in 1..n : k > L /\ p = places[r[k]]
      OBVIOUS
    <3>3. PICK k \in 1..n : p = places[r[k]]
      BY <2>5
    <3>4. k > L
      BY <2>4, <3>1, <3>3
    <3>5. QED
      BY <3>3, <3>4
  <2> HIDE DEF N, L, shown, held, T, weak, size
  <2>9. ASSUME NEW q \in shown PROVE weak <=> Score(query, q) < T
    <3>1. PICK k \in 1..L : q = places[r[k]]
      BY <2>7
    <3>2. k \in 1..n /\ 0 < k /\ k <= N /\ n > 0
      BY <2>4
    <3>3. Score(query, q) < T <=> ~ (k <= m)
      <4> DEFINE x == Score(query, q)
      <4>1. x = s[k] /\ s[k] \in Int /\ (s[k] >= T <=> k <= m)
        BY <2>5, <3>1, <3>2
      <4> HIDE DEF x
      <4>2. x < T <=> ~ (k <= m)
        BY <2>6, <4>1
      <4>3. QED
        BY <4>2 DEF x
    <3>4. k <= m <=> m # 0
      BY <2>4, <3>2
    <3>5. QED
      BY <2>5, <3>2, <3>3, <3>4, Zenon
  <2>10. ASSUME NEW p \in held, NEW q \in shown PROVE Score(query, p) <= Score(query, q)
    <3>1. PICK k \in 1..n : k > L /\ p = places[r[k]]
      BY <2>8
    <3>2. PICK j \in 1..L : q = places[r[j]]
      BY <2>7
    <3>3. j \in 1..n /\ j < k
      BY <2>4, <3>1
    <3>4. s[k] = Score(query, p) /\ s[j] = Score(query, q) /\ s[j] >= s[k]
      BY <2>5, <3>1, <3>2, <3>3
    <3> DEFINE x == Score(query, p)
               y == Score(query, q)
    <3>5. s[k] \in Int /\ s[j] \in Int
      BY <2>5, <3>3
    <3>6. x = s[k] /\ y = s[j]
      BY <3>4
    <3> HIDE DEF x, y
    <3>7. x <= y
      BY <3>4, <3>5, <3>6
    <3>8. QED
      BY <3>7 DEF x, y
  <2>11. weak => size <= WEAK_MATCH_LIMIT
    <3>1. CASE n > 0
      BY <2>4, <2>5, <2>6, <3>1
    <3>2. CASE n = 0
      BY <2>4, <2>5, <2>6, <3>2
    <3>3. QED
      BY <2>4, <3>1, <3>2
  <2>12. ASSUME NEW p \in held
         PROVE  \/ size = limit
                \/ weak /\ size = WEAK_MATCH_LIMIT
                \/ ~weak /\ Score(query, p) < T
    <3>1. PICK k \in 1..n : k > L /\ p = places[r[k]]
      BY <2>8
    <3>2. n > 0 /\ k <= n
      BY <2>4, <3>1
    <3>3. CASE L = limit
      BY <2>5, <3>3
    <3>4. CASE L = N /\ m = 0
      <4>1. size = WEAK_MATCH_LIMIT
        BY <2>4, <2>5, <2>6, <3>1, <3>2, <3>4
      <4>2. weak
        BY <2>5, <3>2, <3>4
      <4>3. QED
        BY <4>1, <4>2
    <3>5. CASE L = N /\ m # 0
      <4>1. ~ weak
        BY <2>5, <3>2, <3>5
      <4>2. k > m
        BY <2>4, <3>1, <3>5
      <4> DEFINE x == Score(query, p)
      <4>3. x = s[k] /\ s[k] \in Int /\ ~ (s[k] >= T)
        BY <2>4, <2>5, <3>1, <4>2
      <4> HIDE DEF x
      <4>4. x < T
        BY <2>6, <4>3
      <4>5. QED
        BY <4>1, <4>4 DEF x
    <3>6. QED
      BY <2>4, <3>3, <3>4, <3>5
  <2>13. QED
    BY <2>9, <2>10, <2>11, <2>12, Zenon
       DEF shown, held, weak, size, T, limit, answer, query, places, call
<1>3. IInv /\ ReportInv => StrongOrClosest
  BY <1>2, Zenon DEF StrongOrClosest
<1>4. QED
  BY <1>1, <1>3, PTL

(* Whatever was committed before, and in whichever order the rows come, a    *)
(* search shows the same, the best scores first.                            *)
THEOREM OrderIsThePlacesOwn == Spec => []OrderIsOfTheData
<1>1. Spec => []IInv /\ []ReportInv
  BY Invariance, ReportInvariance, PTL
<1>2. ASSUME IInv, ReportInv, NEW t \in Terminal, Asks(t, "find", "list")
      PROVE  LET call == cmd[t].call
                 places == Listed(db, call)
                 results == Found(call, places).results
                 Worth(p) == Score(Tokenize(call.query), p) IN
             /\ \A k \in 1..(Len(results) - 1) : Worth(results[k]) >= Worth(results[k + 1])
             /\ \A order \in Bijection(DOMAIN places, DOMAIN places) :
                  LET other == Found(call, [k \in DOMAIN places |-> places[order[k]]]).results IN
                  /\ Len(other) = Len(results)
                  /\ \A k \in DOMAIN results : Says(other[k]) = Says(results[k])
  <2> DEFINE call == cmd[t].call
             places == Listed(db, call)
             query == Tokenize(call.query)
             answer == Found(call, places)
             results == answer.results
             limit == call.limit
             n == Len(places)
  <2>1. /\ call.query \in Text /\ limit \in Nat \ {0} /\ query # Blank
        /\ Tagged(places)
    BY <1>2, SearchIsAsked, Zenon
  <2>2. PICK a, r, m : Ranks(places, query, a, r, m) /\ Prints(places, limit, answer, r, m)
    BY <2>1, FoundOfRanks, Zenon
  <2>3. PICK s : Printed(places, query, limit, answer, r, m, n, s)
    BY <2>1, <2>2, PrintedOfRanks, Zenon
  <2> DEFINE L == Lesser(Shown(m, n), limit)
  <2>4. /\ n \in Nat /\ Shown(m, n) \in 0..n /\ L \in 0..Shown(m, n)
        /\ \A k \in 1..n : s[k] \in Int /\ s[k] = Score(query, places[r[k]])
        /\ \A i, j \in 1..n : i < j => s[i] >= s[j]
        /\ \A k \in 1..n : places[r[k]] \in ToSet(places)
        /\ Len(results) = L /\ DOMAIN results = 1..L
        /\ \A k \in 1..L : results[k] = places[r[k]]
    BY <2>3, Zenon DEF Printed
  <2> HIDE DEF answer, results, L, n
  <2>5. ASSUME NEW k \in 1..(Len(results) - 1)
        PROVE  Score(query, results[k]) >= Score(query, results[k + 1])
    <3> DEFINE j == k + 1
    <3>1. k \in 1..L /\ j \in 1..L /\ k \in 1..n /\ j \in 1..n /\ k < j
      BY <2>4
    <3> HIDE DEF j, query, places
    <3>2. results[k] = places[r[k]] /\ results[j] = places[r[j]]
      BY <2>4, <3>1
    <3>3. s[k] = Score(query, results[k]) /\ s[j] = Score(query, results[j]) /\ s[k] >= s[j]
      BY <2>4, <3>1, <3>2
    <3>4. QED
      BY <3>3 DEF j
  <2>6. ASSUME NEW order \in Bijection(DOMAIN places, DOMAIN places)
        PROVE  LET other == Found(call, [k \in DOMAIN places |-> places[order[k]]]).results IN
               /\ Len(other) = Len(results)
               /\ \A k \in DOMAIN results : Says(other[k]) = Says(results[k])
    <3> DEFINE rows == [k \in DOMAIN places |-> places[order[k]]]
               found == Found(call, rows)
               other == found.results
    <3>1. Tagged(rows)
      BY <2>1, MixedIsTagged, Zenon
    <3>9. Mixed(rows, places, order)
      BY Zenon DEF Mixed
    <3> HIDE DEF rows
    <3>2. PICK b, u, l : Ranks(rows, query, b, u, l) /\ Prints(rows, limit, found, u, l)
      BY <2>1, <3>1, FoundOfRanks, Zenon
    <3>3. SameKeys(places, r, m, rows, u, l)
      <4> HIDE DEF places, query, found, limit
      <4>1. QED
        BY <2>1, <2>2, <3>2, <3>9, SameRanking, Zenon
    <3>4. PICK v : Printed(rows, query, limit, found, u, l, Len(rows), v)
      BY <2>1, <3>1, <3>2, PrintedOfRanks, Zenon
    <3>5. /\ Len(other) = L
          /\ \A k \in 1..L : other[k] = rows[u[k]]
          /\ \A k \in 1..n : rows[u[k]] \in ToSet(rows)
      BY <3>3, <3>4, Zenon DEF Printed, SameKeys, L, n
    <3> HIDE DEF found, other
    <3>6. ASSUME NEW k \in 1..L PROVE Says(other[k]) = Says(results[k])
      <4> HIDE DEF places
      <4>1. k \in 1..n /\ other[k] = rows[u[k]] /\ results[k] = places[r[k]]
        BY <2>4, <3>5
      <4>2. other[k] \in ToSet(rows) /\ results[k] \in ToSet(places)
        BY <2>4, <3>5, <4>1
      <4>3. TieBreakKey(other[k]) = TieBreakKey(results[k])
        BY <3>3, <4>1, Zenon DEF SameKeys, n
      <4>4. /\ other[k] \in Place /\ IsFiniteSet(other[k].tags)
            /\ results[k] \in Place /\ IsFiniteSet(results[k].tags)
        BY <2>1, <3>1, <4>2, TaggedOnes, Zenon
      <4>5. QED
        BY <4>3, <4>4, KeyTells, Zenon
    <3>7. Len(other) = Len(results) /\ \A k \in DOMAIN results : Says(other[k]) = Says(results[k])
      BY <2>4, <3>5, <3>6
    <3>8. QED
      BY <3>7, Zenon DEF other, found, rows
  <2>7. QED
    BY <2>5, <2>6, Zenon DEF results, answer
<1>3. IInv /\ ReportInv => OrderIsOfTheData
  BY <1>2, Zenon DEF OrderIsOfTheData
<1>4. QED
  BY <1>1, <1>3, PTL

(* Whatever was committed before, a place that says less scores no better.   *)
THEOREM NothingSaidCosts == Spec => []NoFieldCosts
<1>1. Spec => []IInv /\ []ReportInv
  BY Invariance, ReportInvariance, PTL
<1>2. ASSUME IInv, ReportInv, NEW t \in Terminal, Asks(t, "find", "list")
      PROVE  LET Worth(p) == Score(Tokenize(cmd[t].call.query), p)
                 Without(p) == {[p EXCEPT ![f] = Blank] : f \in {"name", "note", "neighborhood"}}
                                 \cup {[p EXCEPT !.tags = {}]} IN
             \A p \in ToSet(Listed(db, cmd[t].call)) :
               \A less \in Without(p) : Worth(less) <= Worth(p)
  <2> DEFINE query == Tokenize(cmd[t].call.query)
             places == Listed(db, cmd[t].call)
  <2>1. query \in Seq(Word) /\ query # Blank /\ Tagged(places)
    BY <1>2, SearchIsAsked, Zenon
  <2> HIDE DEF query, places
  <2>2. ASSUME NEW p \in ToSet(places),
               NEW less \in {[p EXCEPT ![f] = Blank] : f \in {"name", "note", "neighborhood"}}
                              \cup {[p EXCEPT !.tags = {}]}
        PROVE  Score(query, less) <= Score(query, p)
    <3>1. p \in Place
      BY <2>1, <2>2, TaggedOnes, Zenon
    <3>2. SaysLess(less, p)
      BY <2>2, <3>1, WithoutSaysLess
    <3>3. QED
      BY <2>1, <3>2, ScoreOfLess
  <2>3. QED
    BY <2>2, Zenon DEF query, places
<1>3. IInv /\ ReportInv => NoFieldCosts
  BY <1>2, Zenon DEF NoFieldCosts
<1>4. QED
  BY <1>1, <1>3, PTL
=============================================================================
