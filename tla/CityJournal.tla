----------------------------- MODULE CityJournal -----------------------------
(***************************************************************************)
(* The commands of City Journal (module1/places/management/commands) over  *)
(* one SQLite database, run from several terminals.                        *)
(*                                                                         *)
(* Outside `add`'s atomic block every statement is a transaction of its    *)
(* own, so a command may see or overwrite what another one committed since *)
(* its last statement.  The atomic block is one step: SQLite lets nobody   *)
(* commit between the first read of a transaction and its commit.          *)
(*                                                                         *)
(* Commands refused before they touch the database, printing, addresses    *)
(* and `add`'s warning about equal names are left out.  Tags and rows of a *)
(* place, and a place and its tags, are read as one: no command changes    *)
(* the tags of a place.  The admin pages are not used meanwhile.           *)
(***************************************************************************)
EXTENDS PlaceSearch, Functions

CONSTANTS
  Terminal,        \* where commands are typed
  Wanted,          \* the commands typed
  RECENT_DAYS,     \* a visit younger than this is recent,
  LONG_AGO_DAYS,   \* and from this age on it is long ago
  DAY,             \* a day, in ticks of the clock
  TOP_TAG_LIMIT,   \* how many tags `stats` lists
  NULL,
  Horizon,         \* bound: the clock stops here
  MaxPlaces,       \* bound: places added
  MaxVisits        \* bound: visits

Status == {"wishlist", "visited"}
Rating == 1..5

(* A filter that is not given is NULL, or Blank.                           *)
Filter == [tag: Word \cup {NULL}, neighborhood: Text]
Calls ==
  [kind: {"add"}, name: Text \ {Blank}, neighborhood: Text, note: Text, tags: SUBSET Word,
   rating: Rating \cup {NULL}, status: Status \cup {NULL}]
  \cup [kind: {"visit"}, name: Text \ {Blank}, note: Text \cup {NULL},
        rating: Rating \cup {NULL}]
  \cup [kind: {"todo", "surprise"}, filter: Filter]
  \cup [kind: {"find"}, tags: SUBSET Word, neighborhood: Text, status: Status \cup {NULL},
        query: Text, limit: Nat \ {0}]
  \cup [kind: {"stats"}]

ASSUME JournalAssumption ==
  /\ Wanted \subseteq Calls
  /\ \A call \in Wanted : call.kind = "add" => IsFiniteSet(call.tags)
  /\ \A w \in Word : Lower[Lower[w]] = Lower[w]
  /\ RECENT_DAYS \in Nat /\ LONG_AGO_DAYS \in Nat /\ RECENT_DAYS < LONG_AGO_DAYS
  /\ TOP_TAG_LIMIT \in Nat /\ DAY \in Nat \ {0}
  /\ Horizon \in Nat /\ MaxPlaces \in Nat /\ MaxVisits \in Nat
  /\ NULL \notin Nat \cup Text

VARIABLES
  now,     \* the clock
  db,      \* what is committed: the places, by primary key, and the tags
  cmd,     \* what each terminal is doing
  told     \* history: for each place, what `add` and the visits said of it

vars == <<now, db, cmd, told>>

Place == [name: Text, neighborhood: Text, note: Text, tags: SUBSET Word,
          rating: Rating \cup {NULL}, status: Status, created_at: Nat,
          last_visited_at: Nat \cup {NULL}]

(* The call; the step it is at; since when; how many places there were when *)
(* it began; the place it resolved and the row it loaded; what `stats` has   *)
(* counted so far, and whether nothing was committed since its first query.  *)
Idle == [step |-> "idle", call |-> NULL, since |-> 0, known |-> 0, id |-> 0, place |-> NULL,
         report |-> <<>>, quiet |-> TRUE]

Init ==
  /\ now = 0
  /\ db = [place |-> <<>>, tag |-> {}]
  /\ cmd = [t \in Terminal |-> Idle]
  /\ told = <<>>

-----------------------------------------------------------------------------
(* What the queries say of a database d.                                    *)

(* A tag that no place carries matches nothing; a neighborhood is matched   *)
(* whole, in either case.  NOCASE adds nothing: tags are stored in lowercase. *)
Candidates(d, filter) ==
  {i \in DOMAIN d.place :
     /\ filter.tag # NULL => Lower[filter.tag] \in d.place[i].tags
     /\ filter.neighborhood # Blank => IExact(d.place[i].neighborhood, filter.neighborhood)}

(* `find` takes several tags, any part of the neighborhood, and a status.   *)
FindCandidates(d, call) ==
  {i \in DOMAIN d.place :
     /\ LoweredNames(call.tags) \subseteq d.place[i].tags
     /\ IContains(d.place[i].neighborhood, call.neighborhood)
     /\ call.status # NULL => d.place[i].status = call.status}

(* The oldest entries first, then by name, then by key.                     *)
Wishlist(d, filter) ==
  LET p == d.place
      Name(i) == Folded(p[i].name)
      Older(i, j) ==
        \/ p[i].created_at < p[j].created_at
        \/ /\ p[i].created_at = p[j].created_at
           /\ TextBefore(Name(i), Name(j)) \/ (Name(i) = Name(j) /\ i < j) IN
  InOrder({i \in Candidates(d, filter) : p[i].status = "wishlist"}, Older)

(* The places a search ranks, in one of the orders they may come in,         *)
Listed(d, call) ==
  LET ids == InOrder(FindCandidates(d, call), <) IN [k \in DOMAIN ids |-> d.place[ids[k]]]

(* and what it prints of them.                                              *)
Found(call, places) ==
  LET answer == RankPlaces(call.query, places) IN
  [answer EXCEPT !.results = SubSeq(@, 1, Lesser(Len(@), call.limit))]

(* age_of: a visit in the future counts as one of today.                    *)
Age(place, time) ==
  IF place.last_visited_at > time THEN 0 ELSE time - place.last_visited_at

WISHLIST_WEIGHT == 10
LONG_AGO_WEIGHT == 5
MIDDLING_WEIGHT == 3
RECENT_WEIGHT == 1

(* Fault form: a visit is long ago only after that many days.               *)
WeightAfterLongAgo(place, time) ==
  CASE place.status = "wishlist" -> WISHLIST_WEIGHT
    [] place.status = "visited" /\ place.last_visited_at = NULL -> LONG_AGO_WEIGHT
    [] OTHER -> IF Age(place, time) > LONG_AGO_DAYS * DAY THEN LONG_AGO_WEIGHT
                ELSE IF Age(place, time) >= RECENT_DAYS * DAY THEN MIDDLING_WEIGHT
                ELSE RECENT_WEIGHT

(* weight_for: the tickets a place has in `surprise`.                       *)
Weight(place, time) ==
  CASE place.status = "wishlist" -> WISHLIST_WEIGHT
    [] place.status = "visited" /\ place.last_visited_at = NULL -> LONG_AGO_WEIGHT
    [] OTHER -> IF Age(place, time) >= LONG_AGO_DAYS * DAY THEN LONG_AGO_WEIGHT
                ELSE IF Age(place, time) >= RECENT_DAYS * DAY THEN MIDDLING_WEIGHT
                ELSE RECENT_WEIGHT

(* Why a place came up, as it is printed: with how many whole days ago.      *)
Reason(place, time) ==
  CASE place.status = "wishlist" -> [why |-> "never_visited", days |-> NULL]
    [] place.status = "visited" /\ place.last_visited_at = NULL ->
         [why |-> "date_unknown", days |-> NULL]
    [] OTHER -> [why |-> "last_visited", days |-> Age(place, time) \div DAY]

Having(d, P(_)) == Cardinality({i \in DOMAIN d.place : P(d.place[i])})

Summary(d) ==
  [total |-> Len(d.place),
   visited |-> Having(d, LAMBDA p : p.status = "visited"),
   wishlist |-> Having(d, LAMBDA p : p.status = "wishlist")]

Neighborhoods(d) == {d.place[i].neighborhood : i \in DOMAIN d.place}

NeighborhoodsTouched(d) == Cardinality(Neighborhoods(d) \ {Blank})

(* Fault form: the places are joined with their tags before they are        *)
(* counted.                                                                 *)
NeighborhoodRowsJoined(d) ==
  [label \in Neighborhoods(d) |->
     Cardinality({row \in (DOMAIN d.place) \X Word :
                    /\ d.place[row[1]].neighborhood = label
                    /\ row[2] \in d.place[row[1]].tags})]

(* One row for each neighborhood as it is spelled, one of them for places    *)
(* without any.                                                             *)
NeighborhoodRows(d) ==
  [label \in Neighborhoods(d) |-> Having(d, LAMBDA p : p.neighborhood = label)]

(* The tags most places carry, at most TOP_TAG_LIMIT.                       *)
TagRows(d) ==
  LET count == [tag \in d.tag |-> Having(d, LAMBDA p : tag \in p.tags)]
      used == {tag \in d.tag : count[tag] > 0}
      rows == InOrder(used, LAMBDA a, b :
                count[a] > count[b] \/ (count[a] = count[b] /\ a < b)) IN
  [k \in 1..Lesser(Len(rows), TOP_TAG_LIMIT) |->
     [tag |-> rows[k], count |-> count[rows[k]]]]

-----------------------------------------------------------------------------
(* Commands.                                                               *)

Asks(t, kind, step) == cmd[t].step = step /\ cmd[t].call.kind = kind

Go(t, next) ==
  /\ cmd' = [cmd EXCEPT ![t] = next]
  /\ UNCHANGED <<now, db, told>>

End(t) == Go(t, Idle)

(* t commits d; reports in progress are no longer of one moment.            *)
CommitOf(t, d) ==
  /\ db' = d
  /\ cmd' = [u \in Terminal |-> IF u = t THEN Idle
                              ELSE [cmd[u] EXCEPT !.quiet = @ /\ cmd[u].report = <<>>]]
  /\ UNCHANGED now

FirstStep(call) ==
  CASE call.kind = "add" -> "write"
    [] call.kind = "visit" -> "exact"
    [] call.kind = "stats" -> "counts"
    [] OTHER -> "exists"

(* A command whose values are valid.                                        *)
Begin(t, call) ==
  /\ cmd[t].step = "idle"
  /\ call.kind = "find" => Tokenize(call.query) # Blank
  /\ Go(t, [Idle EXCEPT !.step = FirstStep(call), !.call = call,
              !.since = IF call.kind = "add" THEN now ELSE 0,
              !.known = IF call.kind = "visit" THEN Len(db.place) ELSE 0])

(* Fault form: the tags are created before the atomic block.                *)
FailsAfterTags(t) ==
  /\ cmd[t].step # "idle"
  /\ cmd' = [cmd EXCEPT ![t] = Idle]
  /\ db' = IF Asks(t, "add", "write") THEN [db EXCEPT !.tag = @ \cup LoweredNames(cmd[t].call.tags)]
            ELSE db
  /\ UNCHANGED <<now, told>>

(* It is interrupted, or the database stays locked: what it has not yet     *)
(* committed is not done.                                                   *)
Fails(t) ==
  /\ cmd[t].step # "idle"
  /\ End(t)

-----------------------------------------------------------------------------
(* add: the tags, the place and its tags in one transaction.  created_at is *)
(* read before the write lock is taken.                                     *)
Add(t, created_at) ==
  LET call == cmd[t].call IN
  /\ Asks(t, "add", "write")
  /\ Len(db.place) < MaxPlaces
  /\ created_at \in cmd[t].since..now
  /\ CommitOf(t,
       [place |-> Append(db.place,
          [name |-> call.name, neighborhood |-> call.neighborhood, note |-> call.note,
           tags |-> LoweredNames(call.tags), rating |-> call.rating,
           status |-> IF call.status # NULL THEN call.status
                      ELSE IF call.rating # NULL THEN "visited" ELSE "wishlist",
           created_at |-> created_at, last_visited_at |-> NULL]),
        tag |-> db.tag \cup LoweredNames(call.tags)])
  /\ told' = Append(told, <<[note |-> call.note, rating |-> call.rating, at |-> NULL]>>)

-----------------------------------------------------------------------------
(* visit: resolve_place, then one UPDATE of the fields that were asked for.  *)

Resolved(t, i) ==
  Go(t, [cmd[t] EXCEPT !.step = "save", !.since = now, !.id = i, !.place = db.place[i]])

VisitExact(t) ==
  LET matches == Exact(db.place, cmd[t].call.name) IN
  /\ Asks(t, "visit", "exact")
  /\ CASE Cardinality(matches) = 1 -> \E i \in matches : Resolved(t, i)
       [] Cardinality(matches) = 0 -> Go(t, [cmd[t] EXCEPT !.step = "partial"])
       [] OTHER -> End(t)

(* Fault form: of several partial matches the first is taken.               *)
VisitPartialGuess(t) ==
  LET matches == Partial(db.place, cmd[t].call.name) IN
  /\ Asks(t, "visit", "partial")
  /\ IF matches # {} THEN Resolved(t, CHOOSE i \in matches : \A j \in matches : i <= j)
     ELSE End(t)

VisitPartial(t) ==
  LET matches == Partial(db.place, cmd[t].call.name) IN
  /\ Asks(t, "visit", "partial")
  /\ IF Cardinality(matches) = 1 THEN \E i \in matches : Resolved(t, i) ELSE End(t)

Visits == SumFunction([i \in DOMAIN told |-> Len(told[i]) - 1])
Given(value, old) == IF value = NULL THEN old ELSE value

(* Fault form: save() without update_fields writes the row that was loaded. *)
VisitSaveWholeRow(t, at) ==
  LET i == cmd[t].id
      call == cmd[t].call IN
  /\ Asks(t, "visit", "save")
  /\ Visits < MaxVisits
  /\ at \in cmd[t].since..now
  /\ CommitOf(t, [db EXCEPT !.place[i] =
        [cmd[t].place EXCEPT !.status = "visited", !.last_visited_at = at,
                             !.note = Given(call.note, @), !.rating = Given(call.rating, @)]])
  /\ told' = [told EXCEPT ![i] = Append(@, [note |-> call.note, rating |-> call.rating, at |-> at])]

(* The stamp `at` is read after the place was resolved and before the UPDATE. *)
VisitSave(t, at) ==
  LET i == cmd[t].id
      call == cmd[t].call
      row == [db.place[i] EXCEPT !.status = "visited", !.last_visited_at = at,
                !.note = Given(call.note, @), !.rating = Given(call.rating, @)] IN
  /\ Asks(t, "visit", "save")
  /\ Visits < MaxVisits
  /\ at \in cmd[t].since..now
  /\ CommitOf(t, [db EXCEPT !.place[i] = row])
  /\ told' = [told EXCEPT ![i] = Append(@, [note |-> call.note, rating |-> call.rating, at |-> at])]

-----------------------------------------------------------------------------
(* The reading commands.                                                   *)

(* todo, surprise and find first ask whether there is any place at all.     *)
Exists(t) ==
  /\ cmd[t].step = "exists"
  /\ IF db.place = <<>> THEN End(t) ELSE Go(t, [cmd[t] EXCEPT !.step = "list"])

Todo(t) == Asks(t, "todo", "list") /\ End(t)

Find(t) == Asks(t, "find", "list") /\ End(t)

(* The draw: any place that has a ticket.                                   *)
Surprise(t, i) ==
  /\ Asks(t, "surprise", "list")
  /\ i \in Candidates(db, cmd[t].call.filter)
  /\ Weight(db.place[i], now) > 0
  /\ End(t)

SurpriseNothing(t) ==
  /\ Asks(t, "surprise", "list")
  /\ Candidates(db, cmd[t].call.filter) = {}
  /\ End(t)

(* stats: four queries, each of what is committed by then.                  *)
StatsCounts(t) ==
  /\ Asks(t, "stats", "counts")
  /\ IF db.place = <<>> THEN End(t)
     ELSE Go(t, [cmd[t] EXCEPT !.step = "touched", !.report = <<Summary(db)>>, !.quiet = TRUE])

StatsQuery(t, step, answer, next) ==
  /\ Asks(t, "stats", step)
  /\ Go(t, [cmd[t] EXCEPT !.step = next, !.report = Append(@, answer)])

Stats(t) ==
  \/ StatsCounts(t)
  \/ StatsQuery(t, "touched", NeighborhoodsTouched(db), "rows")
  \/ StatsQuery(t, "rows", NeighborhoodRows(db), "tags")
  \/ StatsQuery(t, "tags", TagRows(db), "print")
  \/ Asks(t, "stats", "print") /\ End(t)

Tick ==
  /\ now < Horizon
  /\ now' = now + 1
  /\ UNCHANGED <<db, cmd, told>>

Next ==
  \/ \E t \in Terminal :
       \/ \E call \in Wanted : Begin(t, call)
       \/ Fails(t)
       \/ \E time \in 0..now : Add(t, time)
       \/ VisitExact(t)
       \/ VisitPartial(t)
       \/ \E time \in 0..now : VisitSave(t, time)
       \/ Exists(t)
       \/ Todo(t)
       \/ Find(t)
       \/ \E i \in DOMAIN db.place : Surprise(t, i)
       \/ SurpriseNothing(t)
       \/ Stats(t)
  \/ Tick

Spec == Init /\ [][Next]_vars

-----------------------------------------------------------------------------
(* Properties.                                                             *)

(* The value given last in a list, or d.                                   *)
LastGiven(list, field, d) ==
  LET given == {k \in DOMAIN list : list[k][field] # NULL} IN
  IF given = {} THEN d ELSE list[CHOOSE k \in given : \A j \in given : j <= k][field]

(* However commands overlap, a place says what it was last told: its note    *)
(* and rating are those of the last command that gave one, its date that of *)
(* the last visit; nothing that a command did not mention is put back to    *)
(* what it had read ("a flag that was not passed never changes its field",  *)
(* visit.py:19).                                                            *)
FlagsAreKept ==
  \A i \in DOMAIN db.place :
    LET place == db.place[i] IN
    /\ place.note = LastGiven(told[i], "note", Blank)
    /\ place.rating = LastGiven(told[i], "rating", NULL)
    /\ place.last_visited_at = Last(told[i]).at
    /\ Len(told[i]) > 1 => place.status = "visited"

(* No command, however it ends, leaves a tag that no place carries ("a      *)
(* rejected run cannot leave an orphaned tag row behind", add.py:23-24).       *)
NoTagIsOrphaned ==
  db.tag = UNION {db.place[i].tags : i \in DOMAIN db.place}

(* A visit stamps the place that was meant: the name is part of it; a place  *)
(* of exactly that name, there when the command began, is preferred; and if *)
(* none has exactly that name, no other one that was there fitted as well.  *)
VisitHitsItsPlace ==
  [][\A t \in Terminal : Asks(t, "visit", "save") /\ told' # told /\ cmd'[t] = Idle =>
       LET i == cmd[t].id
           typed == cmd[t].call.name
           known == SubSeq(db.place, 1, cmd[t].known) IN
       /\ i \in Partial(db.place, typed)
       /\ Exact(known, typed) \subseteq {i}
       /\ i \notin Exact(db.place, typed) => Partial(known, typed) \subseteq {i}]_vars

(* A search shows what it should.  A weak answer says so and has nothing     *)
(* that reaches the threshold, a strong one nothing else; nothing better     *)
(* than what is shown is held back; and what is held back is so for a       *)
(* reason: the limit is reached, or it is one guess too many, or no strong   *)
(* match among strong ones.                                                 *)
StrongOrClosest ==
  \A t \in Terminal : Asks(t, "find", "list") =>
    LET call == cmd[t].call
        answer == Found(call, Listed(db, call))
        shown == ToSet(answer.results)
        held == ToSet(Listed(db, call)) \ shown
        Worth(p) == Score(Tokenize(call.query), p) IN
    /\ \A p \in shown : answer.is_weak <=> Worth(p) < STRONG_MATCH_THRESHOLD
    /\ \A p \in held, q \in shown : Worth(p) <= Worth(q)
    /\ answer.is_weak => Len(answer.results) <= WEAK_MATCH_LIMIT
    /\ \A p \in held :
         \/ Len(answer.results) = call.limit
         \/ answer.is_weak /\ Len(answer.results) = WEAK_MATCH_LIMIT
         \/ ~answer.is_weak /\ Worth(p) < STRONG_MATCH_THRESHOLD

(* What search reads of a place.                                            *)
Says(place) ==
  <<Lowered(place.name), Lowered(place.neighborhood), Lowered(place.note),
    LoweredNames(place.tags)>>

(* The order of an answer is the places' own: best scores first, and in      *)
(* whichever order the database returns the rows, what is shown says the    *)
(* same, place by place ("Every one of them is read off the candidate's own *)
(* data -- never its position in the input", search.py:134).                *)
OrderIsOfTheData ==
  \A t \in Terminal : Asks(t, "find", "list") =>
    LET call == cmd[t].call
        places == Listed(db, call)
        results == Found(call, places).results
        Worth(p) == Score(Tokenize(call.query), p) IN
    /\ \A k \in 1..(Len(results) - 1) : Worth(results[k]) >= Worth(results[k + 1])
    /\ \A order \in Bijection(DOMAIN places, DOMAIN places) :
         LET other == Found(call, [k \in DOMAIN places |-> places[order[k]]]).results IN
         /\ Len(other) = Len(results)
         /\ \A k \in DOMAIN results : Says(other[k]) = Says(results[k])

(* No field of a place costs it score: it would have no better one without   *)
(* it ("A non-matching field never costs anything", search.py:98).          *)
NoFieldCosts ==
  \A t \in Terminal : Asks(t, "find", "list") =>
    LET Worth(p) == Score(Tokenize(cmd[t].call.query), p)
        Without(p) == {[p EXCEPT ![f] = Blank] : f \in {"name", "note", "neighborhood"}}
                        \cup {[p EXCEPT !.tags = {}]} IN
    \A p \in ToSet(Listed(db, cmd[t].call)) : \A less \in Without(p) : Worth(less) <= Worth(p)

(* The odds of a draw agree with the reason that is printed for it.  Every   *)
(* place can come up; one never visited is the likeliest; the whole days     *)
(* printed tell the odds, which change exactly when the days printed reach   *)
(* a boundary; and a visit of unknown date counts as one of long ago        *)
(* ("assume it was ages ago", surprise.py:15-21).                           *)
OddsFollowTheReason ==
  \A i, j \in DOMAIN db.place :
    LET W(k) == Weight(db.place[k], now)
        Why(k) == Reason(db.place[k], now).why
        Days(k) == Reason(db.place[k], now).days
        Alike(limit) == Days(i) >= limit <=> Days(j) >= limit IN
    /\ W(i) > 0
    /\ Why(i) = "never_visited" => (W(i) > W(j) <=> Why(j) # "never_visited")
    /\ Why(i) = "date_unknown" /\ Why(j) = "last_visited" =>
         /\ W(i) >= W(j)
         /\ W(i) = W(j) <=> Days(j) >= LONG_AGO_DAYS
    /\ Why(i) = "last_visited" /\ Why(j) = "last_visited" =>
         /\ Days(i) >= Days(j) => W(i) >= W(j)
         /\ W(i) = W(j) <=> Alike(RECENT_DAYS) /\ Alike(LONG_AGO_DAYS)

(* What the notes of `visit` say of `surprise`: it "reads a null there as    *)
(* 'never visited'" (visit.py:11), so that a place without a date is as     *)
(* likely as one on the wishlist.                                           *)
UndatedIsNeverVisited ==
  \A i, j \in DOMAIN db.place :
    db.place[i].last_visited_at = NULL /\ db.place[j].status = "wishlist" =>
      Weight(db.place[i], now) = Weight(db.place[j], now)

(* The reports tell one story.  A report of `stats` that nothing was         *)
(* committed into sums up to its total, touches as many neighborhoods as it *)
(* has rows with a name, and counts as many places on the wishlist and      *)
(* under a tag as the other commands list; a filter by a neighborhood lists  *)
(* the places of all rows that spell it so, in either case.  A report that   *)
(* was overtaken never breaks down fewer places than it counted.            *)
ReportsAgree ==
  \A t \in Terminal : Asks(t, "stats", "print") =>
    LET counts == cmd[t].report[1]
        touched == cmd[t].report[2]
        rows == cmd[t].report[3]
        tags == cmd[t].report[4]
        Sum(labels) == Cardinality(UNION {{label} \X (1..rows[label]) : label \in labels})
        Spelled(label) == {other \in DOMAIN rows : IExact(other, label)} IN
    /\ counts.visited + counts.wishlist = counts.total
    /\ counts.total <= Sum(DOMAIN rows)
    /\ touched <= Cardinality(DOMAIN rows \ {Blank})
    /\ cmd[t].quiet =>
         /\ counts.total = Sum(DOMAIN rows)
         /\ touched = Cardinality(DOMAIN rows \ {Blank})
         /\ counts.wishlist = Len(Wishlist(db, [tag |-> NULL, neighborhood |-> Blank]))
         /\ \A label \in DOMAIN rows \ {Blank} :
              Sum(Spelled(label))
                = Cardinality(Candidates(db, [tag |-> NULL, neighborhood |-> label]))
         /\ \A k \in DOMAIN tags :
              tags[k].count = Cardinality(Candidates(db, [tag |-> tags[k].tag,
                                                          neighborhood |-> Blank]))
=============================================================================
