----------------------------- MODULE PlaceSearch -----------------------------
(***************************************************************************)
(* How City Journal reads names and ranks places (module1/places/search.py *)
(* and lookup.py): pure operators over places, which are records with a    *)
(* name, a note, a neighborhood and tags.                                  *)
(*                                                                         *)
(* A text is a sequence of words, stored without surrounding blanks, and a *)
(* word is its place in the alphabet; two spellings of a word are two      *)
(* words.  Python's str.lower folds the case of any letter, SQLite's LIKE  *)
(* and LOWER only that of a-z.                                             *)
(*                                                                         *)
(* Scores are exact fractions, rounded once, to a hundredth of a point.    *)
(* The code computes them in floats, so its score may be a hundredth off   *)
(* where the exact value lies in the middle between two hundredths.        *)
(***************************************************************************)
EXTENDS Integers, Sequences, FiniteSets, SequencesExt

CONSTANTS
  Word,               \* the words there are
  Searchable,         \* those the tokenizer sees: letters a-z and digits
  Lower,              \* Python's str.lower
  AsciiLower,         \* what SQLite takes for the same word
  SCALE,              \* in how many parts a likeness is measured,
  Ratio,              \* and the likeness of two words: rapidfuzz's fuzz.ratio
  WEAK_MATCH_LIMIT    \* how many guesses there are when nothing matches

ASSUME SearchAssumption ==
  /\ Word \subseteq Nat
  /\ Searchable \subseteq Word
  /\ Lower \in [Word -> Word] /\ AsciiLower \in [Word -> Word]
  /\ SCALE \in Nat \ {0}
  /\ Ratio \in [Word \X Word -> 0..SCALE]
  /\ WEAK_MATCH_LIMIT \in Nat \ {0}

Text == Seq(Word)
Blank == <<>>

STRONG_MATCH_THRESHOLD == 6000
MIN_TOKEN_SIMILARITY == 70
FIELD_WEIGHTS == [name |-> 90, note |-> 80, tags |-> 75, neighborhood |-> 70]

(* S from first to last; and what passes a test, in the order it has in seq. *)
InOrder(S, Before(_, _)) ==
  CHOOSE s \in [1..Cardinality(S) -> S] : \A i, j \in DOMAIN s : i < j => Before(s[i], s[j])

Selected(seq, Test(_)) ==
  LET at == InOrder({k \in DOMAIN seq : Test(seq[k])}, <) IN [k \in DOMAIN at |-> seq[at[k]]]

(* A text, and a set of names, in lowercase; and a text as SQLite compares it. *)
Lowered(text) == [k \in DOMAIN text |-> Lower[text[k]]]
LoweredNames(names) == {Lower[w] : w \in names}
Folded(text) == [k \in DOMAIN text |-> AsciiLower[text[k]]]

-----------------------------------------------------------------------------
(* Scores.                                                                 *)

Tokenize(text) == Selected(Lowered(text), LAMBDA w : w \in Searchable)

FieldTokens(place, field) ==
  LoweredNames(IF field = "tags" THEN place.tags ELSE ToSet(place[field])) \cap Searchable

(* What one word of the query finds among the tokens, unless it is noise.  *)
Best(word, tokens) ==
  LET found == {Ratio[word, t] : t \in tokens} IN
  IF \E r \in found : 100 * r >= MIN_TOKEN_SIMILARITY * SCALE
  THEN CHOOSE r \in found : \A other \in found : r >= other
  ELSE 0

(* How much of the query a field covers, in parts of Len(query) * SCALE:    *)
(* the average over its words.                                             *)
FieldScore(query, tokens) ==
  LET sum[k \in 0..Len(query)] == IF k = 0 THEN 0 ELSE sum[k - 1] + Best(query[k], tokens) IN
  IF query = Blank \/ tokens = {} THEN 0 ELSE sum[Len(query)]

(* The part of a doubt that a field leaves: a fraction, in lowest terms.    *)
Remaining(query, place, field) ==
  LET whole == 100 * Len(query) * SCALE
      left == whole - FIELD_WEIGHTS[field] * FieldScore(query, FieldTokens(place, field))
      den == CHOOSE d \in 1..whole : (left * d) % whole = 0 IN
  [num |-> (left * den) \div whole, den |-> den]

Times(a, b) == [num |-> a.num * b.num, den |-> a.den * b.den]

(* The doubt that all fields leave, in this order of the fields.            *)
Doubt(query, place) ==
  Times(Times(Times(Remaining(query, place, "name"), Remaining(query, place, "note")),
              Remaining(query, place, "tags")),
        Remaining(query, place, "neighborhood"))

(* 100 * (1 - x), to the nearest hundredth.                                 *)
Rounded(x) == (20000 * (x.den - x.num) + x.den) \div (2 * x.den)

(* Fault form: the score is the average over the fields that say anything.  *)
ScoreAveraged(query, place) ==
  LET said == {f \in DOMAIN FIELD_WEIGHTS : FieldTokens(place, f) # {}}
      Sum[S \in SUBSET said] ==
        IF S = {} THEN 0
        ELSE LET f == CHOOSE f \in S : TRUE IN
             Sum[S \ {f}] + Rounded(Remaining(query, place, f)) IN
  Sum[said] \div (IF said = {} THEN 1 ELSE Cardinality(said))

(* Evidence accumulates.                                                   *)
Score(query, place) == Rounded(Doubt(query, place))

-----------------------------------------------------------------------------
(* Ranking.                                                                *)

(* Lexicographic order of texts.                                           *)
TextBefore(s, t) ==
  \E k \in DOMAIN t :
    /\ k - 1 <= Len(s)
    /\ \A j \in 1..(k - 1) : s[j] = t[j]
    /\ k > Len(s) \/ s[k] < t[k]

(* Fault form: of the places' own data only the name is looked at.          *)
TieBreakByName(place) == <<Lowered(place.name), Blank, Blank, Blank>>

(* What orders places of equal score: their own data, nothing else.         *)
TieBreakKey(place) ==
  <<Lowered(place.name), Lowered(place.neighborhood), Lowered(place.note),
    InOrder(LoweredNames(place.tags), <)>>

KeyBefore(a, b) ==
  \E k \in DOMAIN a :
    /\ \A j \in 1..(k - 1) : a[j] = b[j]
    /\ TextBefore(a[k], b[k])

(* Best scores first.  The sort is stable: what nothing tells apart stays   *)
(* as it came.                                                              *)
Ranked(score, key) ==
  LET Before(i, j) ==
        \/ score[i] > score[j]
        \/ /\ score[i] = score[j]
           /\ \/ KeyBefore(key[i], key[j])
              \/ i < j /\ ~KeyBefore(key[j], key[i]) IN
  InOrder(DOMAIN score, Before)

Lesser(m, n) == IF m < n THEN m ELSE n

(* Fault form: a match at the threshold is not yet strong.                  *)
ResultsAbove(places, score, best) ==
  LET strong == Selected(best, LAMBDA i : score[i] > STRONG_MATCH_THRESHOLD)
      shown == IF strong # <<>> THEN strong
               ELSE SubSeq(best, 1, Lesser(Len(best), WEAK_MATCH_LIMIT)) IN
  [results |-> [k \in DOMAIN shown |-> places[shown[k]]], is_weak |-> strong = <<>>]

(* All the strong matches, or else the few closest guesses.                *)
Results(places, score, best) ==
  LET strong == Selected(best, LAMBDA i : score[i] >= STRONG_MATCH_THRESHOLD)
      shown == IF strong # <<>> THEN strong
               ELSE SubSeq(best, 1, Lesser(Len(best), WEAK_MATCH_LIMIT)) IN
  [results |-> [k \in DOMAIN shown |-> places[shown[k]]], is_weak |-> strong = <<>>]

RankPlaces(query, places) ==
  LET tokens == Tokenize(query)
      score == [i \in DOMAIN places |-> Score(tokens, places[i])]
      key == [i \in DOMAIN places |-> TieBreakKey(places[i])] IN
  IF tokens = Blank \/ places = <<>> THEN [results |-> <<>>, is_weak |-> FALSE]
  ELSE Results(places, score, Ranked(score, key))

-----------------------------------------------------------------------------
(* Which place a typed name means (lookup.py), in two stages.               *)

(* A contiguous part of the text; with the case of a-z folded: icontains.    *)
HasPart(text, part) ==
  \E k \in 0..(Len(text) - Len(part)) : SubSeq(text, k + 1, k + Len(part)) = part

IExact(text, other) == Folded(text) = Folded(other)
IContains(text, part) == HasPart(Folded(text), Folded(part))

Exact(places, typed) == {i \in DOMAIN places : IExact(places[i].name, typed)}
Partial(places, typed) == {i \in DOMAIN places : IContains(places[i].name, typed)}
=============================================================================
