---------------------------- MODULE MCCityJournal ----------------------------
(* A small instance of CityJournal for TLC: four journals, each with the      *)
(* commands typed into it, chosen at the start.  Words: 1 blue, 2 bottle,    *)
(* 3 coffee, 4 one the tokenizer does not see; 5 is Blue and 6 is 4 with a   *)
(* capital, which SQLite takes for another word.                            *)
EXTENDS CityJournal, TLC

VARIABLE journal

Words == 1..6
Latin == {1, 2, 3, 5}
Smaller == [w \in Words |-> IF w = 5 THEN 1 ELSE IF w = 6 THEN 4 ELSE w]
AsciiSmaller == [w \in Words |-> IF w = 5 THEN 1 ELSE w]

(* In tenths: blue and bottle are just alike enough, coffee is like neither. *)
Alike == [p \in Words \X Words |->
            IF p[1] = p[2] THEN 10 ELSE IF p[1] + p[2] = 3 THEN 7 ELSE 4]

New(name, neighborhood, note, tags, rating) ==
  [kind |-> "add", name |-> name, neighborhood |-> neighborhood, note |-> note,
   tags |-> tags, rating |-> rating, status |-> NULL]
Visit(name, note, rating) ==
  [kind |-> "visit", name |-> name, note |-> note, rating |-> rating]
Query(tags, neighborhood, status, query, limit) ==
  [kind |-> "find", tags |-> tags, neighborhood |-> neighborhood, status |-> status,
   query |-> query, limit |-> limit]
Filtered(kind, tag, neighborhood) ==
  [kind |-> kind, filter |-> [tag |-> tag, neighborhood |-> neighborhood]]

(* Two branches of a chain, told about by name, in parts and in full.       *)
Overlapping ==
  {New(<<1>>, Blank, Blank, {2, 3}, NULL), New(<<5, 2>>, <<4>>, <<3>>, {3}, 4),
   Visit(<<5>>, NULL, 5), Visit(<<2>>, <<1>>, NULL), Filtered("todo", NULL, Blank)}

(* Neighborhoods that differ in case alone, one of them beyond ASCII.       *)
Counting ==
  {New(<<1>>, <<1>>, Blank, {3}, NULL), New(<<2>>, <<5>>, Blank, {2, 3}, NULL),
   New(<<3>>, <<6>>, Blank, {6}, 4), New(<<3>>, Blank, Blank, {4, 5}, NULL),
   Visit(<<2>>, NULL, NULL), [kind |-> "stats"]}

(* Names that cover two of three words and come to the threshold exactly,    *)
(* ties that the neighborhood, the note or the tags break, or nothing does,  *)
(* and places that are only guesses.                                        *)
Searching ==
  {New(<<1, 2>>, Blank, Blank, {}, NULL), New(<<5, 2>>, <<4>>, Blank, {}, NULL),
   New(<<1, 2>>, <<6>>, Blank, {}, 4), New(<<4>>, Blank, <<1>>, {}, NULL),
   New(<<6>>, Blank, <<5>>, {4}, NULL), New(<<3>>, Blank, <<4>>, {2}, NULL),
   New(<<3, 4>>, Blank, Blank, {2, 3}, NULL), New(<<3>>, <<3>>, <<3>>, {3}, NULL),
   Query({}, Blank, NULL, <<1, 2, 3>>, 2), Query({}, Blank, NULL, <<4, 2>>, 3),
   Query({}, Blank, NULL, <<5>>, 1), Query({2, 3}, Blank, NULL, <<2, 4, 3>>, 2),
   Query({}, <<4>>, "wishlist", <<3>>, 1), Query({}, Blank, NULL, <<4, 6>>, 3)}

(* Places never visited, visited some time, and visited now.                *)
Drawing ==
  {New(<<1>>, Blank, Blank, {}, NULL), New(<<2>>, <<4>>, Blank, {3}, 4),
   Visit(<<1>>, NULL, NULL), Visit(<<2>>, NULL, NULL),
   Filtered("surprise", NULL, Blank), Filtered("surprise", 3, <<4>>)}

(* How many terminals are used at a time, until when, for how many places   *)
(* and visits.                                                              *)
Journals ==
  [overlapping |-> [typed |-> Overlapping, together |-> 2, until |-> 2, places |-> 2, visits |-> 2],
   counting    |-> [typed |-> Counting, together |-> 2, until |-> 0, places |-> 3, visits |-> 1],
   searching   |-> [typed |-> Searching, together |-> 1, until |-> 0, places |-> 3, visits |-> 0],
   drawing     |-> [typed |-> Drawing, together |-> 1, until |-> 6, places |-> 2, visits |-> 2]]

AllCommands == UNION {Journals[name].typed : name \in DOMAIN Journals}

Within(bounds) ==
  /\ {cmd'[t].call : t \in Terminal} \subseteq bounds.typed \cup {NULL}
  /\ Cardinality({t \in Terminal : cmd'[t].step # "idle"}) <= bounds.together
  /\ now' <= bounds.until
  /\ Len(db'.place) <= bounds.places
  /\ Visits' <= bounds.visits

MCInit == Init /\ journal \in DOMAIN Journals
MCNext == Next /\ Within(Journals[journal]) /\ UNCHANGED journal
MCSpec == MCInit /\ [][MCNext]_<<vars, journal>>

Interchangeable == Permutations(Terminal)
=============================================================================
