-------------------------- MODULE RelayCreateProofs --------------------------
(***************************************************************************)
(* Proofs about RelayCreate for every number of clients, keys and sendings, *)
(* and about the walk through its rows for every size of a page.           *)
(***************************************************************************)
EXTENDS RelayListing, SequenceTheorems, TLAPS

(* An uncommitted row is the only one of its key; a request that lost the  *)
(* race finds the winner's row when it looks again.                        *)
IInv ==
  /\ TypeOK
  /\ KeyNamesOneTask
  /\ AnswersTellTheTask
  /\ RaceIsNoError
  /\ \A r \in Request :
       /\ step[r] = "commit" =>
            /\ pending[r] = [id |-> r, key |-> KeyOf(r), body |-> wants[r[1]].body]
            /\ ~KeyTaken(r)
       /\ pending[r] # NULL <=> step[r] = "commit"
       /\ rerun[r] => KeyTaken(r) /\ step[r] # "insert"
  /\ \A r, q \in Request :
       pending[r] # NULL /\ pending[q] # NULL /\ KeyOf(r) = KeyOf(q) => r = q

LEMMA NullIsNoRow == NULL \notin Row
BY CreateAssumption DEF Row, Request

LEMMA InitInv == Init => IInv
BY NullIsNoRow DEF Init, IInv, TypeOK, KeyNamesOneTask, AnswersTellTheTask, RaceIsNoError,
  Step, Request

(* A request that neither inserts nor commits: the rows stay, and its own   *)
(* pending row, if any, goes.                                               *)
LEMMA Resolved ==
  ASSUME IInv, NEW r \in Request, UNCHANGED <<wants, rows>>,
         NEW s \in Step \ {"insert", "commit"}, step' = [step EXCEPT ![r] = s],
         \/ pending' = [pending EXCEPT ![r] = NULL]
         \/ UNCHANGED pending /\ step[r] # "commit",
         \/ UNCHANGED rerun
         \/ rerun' = [rerun EXCEPT ![r] = TRUE] /\ KeyTaken(r),
         reply' \in [Request -> Reply \cup {NULL}],
         AnswersTellTheTask', RaceIsNoError'
  PROVE  IInv'
<1>1. /\ step \in [Request -> Step] /\ pending \in [Request -> Row \cup {NULL}]
      /\ rerun \in [Request -> BOOLEAN]
  BY DEF IInv, TypeOK
<1>2. pending'[r] = NULL /\ \A q \in Request : q # r => pending'[q] = pending[q]
  BY <1>1 DEF IInv
<1>3. TypeOK'
  BY <1>1 DEF IInv, TypeOK
<1>4. KeyNamesOneTask'
  BY DEF IInv, KeyNamesOneTask
<1>5. \A q \in Request : KeyOf(q)' = KeyOf(q) /\ KeyTaken(q)' = KeyTaken(q)
  BY DEF KeyOf, KeyTaken
<1>6. \A q \in Request :
        /\ step'[q] = "commit" =>
             /\ pending'[q] = [id |-> q, key |-> KeyOf(q), body |-> wants[q[1]].body]'
             /\ ~KeyTaken(q)'
        /\ pending'[q] # NULL <=> step'[q] = "commit"
        /\ rerun'[q] => KeyTaken(q)' /\ step'[q] # "insert"
  BY <1>1, <1>2, <1>5 DEF IInv
<1>7. \A q, p \in Request :
        pending'[q] # NULL /\ pending'[p] # NULL /\ KeyOf(q)' = KeyOf(p)' => q = p
  BY <1>2, <1>5 DEF IInv
<1>8. QED
  BY <1>3, <1>4, <1>6, <1>7 DEF IInv

LEMMA Inductive == IInv /\ [Next]_vars => IInv'
<1> SUFFICES ASSUME IInv, [Next]_vars PROVE IInv'
  OBVIOUS
<1>0. /\ step \in [Request -> Step] /\ pending \in [Request -> Row \cup {NULL}]
      /\ rerun \in [Request -> BOOLEAN] /\ reply \in [Request -> Reply \cup {NULL}]
      /\ rows \subseteq Row /\ wants \in [Client -> [key: Key, body: Body]]
  BY DEF IInv, TypeOK
<1>1. ASSUME NEW r \in Request, UNCHANGED <<rows, wants, reply>>
      PROVE  AnswersTellTheTask' /\ RaceIsNoError'
  BY <1>1 DEF IInv, AnswersTellTheTask, RaceIsNoError, KeyOf
<1>2. ASSUME NEW r \in Request, Send(r) PROVE IInv'
  <2>1. "lookup" \in Step \ {"insert", "commit"}
    BY DEF Step
  <2>2. QED
    BY <1>0, <1>1, <1>2, <2>1, Resolved DEF Send
<1>3. ASSUME NEW r \in Request, LookupFinds(r) PROVE IInv'
  <2>1. PICK row \in rows : row.key = KeyOf(r) /\ Found(r, row)
    BY <1>3 DEF LookupFinds
  <2>2. row \in Row /\ row = [id |-> row.id, key |-> row.key, body |-> row.body]
    BY <1>0, <2>1 DEF Row
  <2>3. /\ step' = [step EXCEPT ![r] = "answered"]
        /\ UNCHANGED <<wants, rerun, rows, pending>>
        /\ reply' = [reply EXCEPT ![r] = IF row.body = wants[r[1]].body
                                         THEN [status |-> "created", id |-> row.id]
                                         ELSE [status |-> "conflict"]]
    BY <1>3, <2>1 DEF LookupFinds, Found, Answer
  <2>4. "answered" \in Step \ {"insert", "commit"} /\ step[r] # "commit"
    BY <1>3 DEF Step, LookupFinds
  <2>5. reply' \in [Request -> Reply \cup {NULL}]
    BY <1>0, <2>2, <2>3 DEF Reply, Row
  <2>6. AnswersTellTheTask' /\ RaceIsNoError'
    <3> SUFFICES ASSUME NEW q \in Request, reply'[q] # NULL
                 PROVE  /\ reply'[q].status # "error"
                        /\ reply'[q].status = "created" =>
                             [id |-> reply'[q].id, key |-> KeyOf(q), body |-> wants[q[1]].body] \in rows
                        /\ reply'[q].status = "conflict" =>
                             \E x \in rows : x.key = KeyOf(q) /\ x.body # wants[q[1]].body
      <4>1. rows' = rows /\ wants' = wants
        BY <2>3
      <4>2. QED
        BY <4>1 DEF AnswersTellTheTask, RaceIsNoError, KeyOf
    <3>1. CASE q = r
      BY <1>0, <2>1, <2>2, <2>3, <3>1
    <3>2. CASE q # r
      BY <1>0, <2>3, <3>2 DEF IInv, AnswersTellTheTask, RaceIsNoError
    <3>3. QED
      BY <3>1, <3>2
  <2>7. QED
    BY <2>3, <2>4, <2>5, <2>6, Resolved
<1>4. ASSUME NEW r \in Request, LookupFindsNothing(r) PROVE IInv'
  <2>1. ~KeyTaken(r) /\ ~rerun[r]
    BY <1>4 DEF LookupFindsNothing, KeyTaken, IInv
  <2>2. \A q \in Request : KeyOf(q)' = KeyOf(q) /\ KeyTaken(q)' = KeyTaken(q)
    BY <1>4 DEF LookupFindsNothing, KeyOf, KeyTaken
  <2>3. pending[r] = NULL
    BY <1>4 DEF LookupFindsNothing, IInv
  <2>4. TypeOK'
    BY <1>0, <1>4 DEF LookupFindsNothing, TypeOK, Step
  <2>5. QED
    BY <1>0, <1>1, <1>4, <2>1, <2>2, <2>3, <2>4
    DEF LookupFindsNothing, IInv, KeyNamesOneTask
<1>5. ASSUME NEW r \in Request, Insert(r) PROVE IInv'
  <2> DEFINE new == [id |-> r, key |-> KeyOf(r), body |-> wants[r[1]].body]
  <2>1. new \in Row
    BY <1>0 DEF Row, Request, KeyOf
  <2>2. \A q \in Request : KeyOf(q)' = KeyOf(q) /\ KeyTaken(q)' = KeyTaken(q)
    BY <1>5 DEF Insert, KeyOf, KeyTaken
  <2>3. ~rerun[r]
    BY <1>5 DEF Insert, IInv
  <2>4. TypeOK'
    BY <1>0, <1>5, <2>1 DEF Insert, TypeOK, Step
  <2>5. /\ pending'[r] = new /\ step'[r] = "commit"
        /\ \A q \in Request : q # r => pending'[q] = pending[q] /\ step'[q] = step[q]
    BY <1>0, <1>5 DEF Insert
  <2>6. \A q \in Request : q # r /\ pending[q] # NULL => KeyOf(q) # KeyOf(r)
    BY <1>5 DEF Insert, MustWait
  <2>7. AnswersTellTheTask' /\ RaceIsNoError' /\ KeyNamesOneTask'
    BY <1>1, <1>5 DEF Insert, IInv, KeyNamesOneTask
  <2>8. \A q \in Request :
          /\ step'[q] = "commit" =>
               /\ pending'[q] = [id |-> q, key |-> KeyOf(q), body |-> wants[q[1]].body]'
               /\ ~KeyTaken(q)'
          /\ pending'[q] # NULL <=> step'[q] = "commit"
          /\ rerun'[q] => KeyTaken(q)' /\ step'[q] # "insert"
    BY <1>5, <2>1, <2>2, <2>3, <2>5, NullIsNoRow DEF Insert, IInv
  <2>9. \A q, p \in Request :
          pending'[q] # NULL /\ pending'[p] # NULL /\ KeyOf(q)' = KeyOf(p)' => q = p
    BY <2>2, <2>5, <2>6 DEF IInv
  <2>10. QED
    BY <2>4, <2>7, <2>8, <2>9 DEF IInv
<1>6. ASSUME NEW r \in Request, IntegrityError(r) PROVE IInv'
  <2>1. ~rerun[r] /\ KeyTaken(r)
    BY <1>6 DEF IntegrityError, IInv
  <2>2. /\ rerun' = [rerun EXCEPT ![r] = TRUE] /\ step' = [step EXCEPT ![r] = "lookup"]
        /\ UNCHANGED <<wants, rows, pending, reply>> /\ step[r] # "commit"
    BY <1>6, <2>1 DEF IntegrityError
  <2>3. "lookup" \in Step \ {"insert", "commit"}
    BY DEF Step
  <2>4. QED
    BY <1>0, <1>1, <2>1, <2>2, <2>3, Resolved
<1>7. ASSUME NEW r \in Request, Commit(r) PROVE IInv'
  <2> DEFINE new == [id |-> r, key |-> KeyOf(r), body |-> wants[r[1]].body]
  <2>1. pending[r] = new /\ pending[r] \in Row /\ ~KeyTaken(r)
    BY <1>0, <1>7, NullIsNoRow DEF Commit, IInv, Row, KeyOf, Request
  <2>2. /\ rows' = rows \cup {new} /\ UNCHANGED <<wants, rerun>>
        /\ step' = [step EXCEPT ![r] = "answered"]
        /\ pending' = [pending EXCEPT ![r] = NULL]
        /\ reply' = [reply EXCEPT ![r] = [status |-> "created", id |-> r]]
    BY <1>7, <2>1 DEF Commit, Answer
  <2>3. TypeOK'
    BY <1>0, <2>1, <2>2 DEF TypeOK, Step, Reply
  <2>4. KeyNamesOneTask'
    BY <2>1, <2>2 DEF IInv, KeyNamesOneTask, KeyTaken
  <2>5. \A q \in Request : KeyOf(q)' = KeyOf(q)
    BY <2>2 DEF KeyOf
  <2>6. AnswersTellTheTask' /\ RaceIsNoError'
    <3> SUFFICES ASSUME NEW q \in Request, reply'[q] # NULL
                 PROVE  /\ reply'[q].status # "error"
                        /\ reply'[q].status = "created" =>
                             [id |-> reply'[q].id, key |-> KeyOf(q), body |-> wants[q[1]].body] \in rows'
                        /\ reply'[q].status = "conflict" =>
                             \E x \in rows' : x.key = KeyOf(q) /\ x.body # wants[q[1]].body
      BY <2>2 DEF AnswersTellTheTask, RaceIsNoError, KeyOf
    <3>1. CASE q = r
      BY <1>0, <2>2, <3>1
    <3>2. CASE q # r
      BY <1>0, <2>2, <3>2 DEF IInv, AnswersTellTheTask, RaceIsNoError
    <3>3. QED
      BY <3>1, <3>2
  <2>7. pending'[r] = NULL /\ \A q \in Request : q # r => pending'[q] = pending[q]
    BY <1>0, <2>2
  <2>8. \A q \in Request : q # r /\ step[q] = "commit" => KeyOf(q) # KeyOf(r)
    BY <1>7 DEF IInv, Commit
  <2>9. \A q \in Request : q # r /\ step[q] = "commit" => ~KeyTaken(q)'
    <3> SUFFICES ASSUME NEW q \in Request, q # r, step[q] = "commit", NEW x \in rows'
                 PROVE  x.key # KeyOf(q)
      BY <2>5 DEF KeyTaken
    <3>1. x = new \/ x \in rows
      BY <2>2
    <3>2. new.key = KeyOf(r) /\ ~KeyTaken(q)
      BY DEF IInv
    <3>3. QED
      BY <2>8, <3>1, <3>2 DEF KeyTaken
  <2>10. \A q \in Request : KeyTaken(q) => KeyTaken(q)'
    BY <2>2, <2>5 DEF KeyTaken
  <2>11. \A q \in Request :
          /\ step'[q] = "commit" =>
               /\ pending'[q] = [id |-> q, key |-> KeyOf(q), body |-> wants[q[1]].body]'
               /\ ~KeyTaken(q)'
          /\ pending'[q] # NULL <=> step'[q] = "commit"
          /\ rerun'[q] => KeyTaken(q)' /\ step'[q] # "insert"
    BY <1>0, <2>2, <2>5, <2>7, <2>9, <2>10 DEF IInv
  <2>12. \A q, p \in Request :
          pending'[q] # NULL /\ pending'[p] # NULL /\ KeyOf(q)' = KeyOf(p)' => q = p
    BY <2>5, <2>7 DEF IInv
  <2>13. QED
    BY <2>3, <2>4, <2>6, <2>11, <2>12 DEF IInv
<1>8. ASSUME NEW r \in Request, Receive(r) PROVE IInv'
  <2>1. "received" \in Step \ {"insert", "commit"}
    BY DEF Step
  <2>2. QED
    BY <1>0, <1>1, <1>8, <2>1, Resolved DEF Receive
<1>9. ASSUME NEW r \in Request, Crash(r) PROVE IInv'
  <2>1. "lost" \in Step \ {"insert", "commit"}
    BY DEF Step
  <2>2. QED
    BY <1>0, <1>1, <1>9, <2>1, Resolved DEF Crash
<1>10. CASE UNCHANGED vars
  BY <1>10 DEF vars, IInv, TypeOK, KeyNamesOneTask, AnswersTellTheTask, RaceIsNoError,
    KeyOf, KeyTaken
<1>11. QED
  BY <1>2, <1>3, <1>4, <1>5, <1>6, <1>7, <1>8, <1>9, <1>10 DEF Next, Serve

(* Whatever races, repeats and crashes there are: a key is held by one row,  *)
(* committed or pending, and what was answered is about committed rows.    *)
THEOREM Invariance == Spec => []IInv
BY InitInv, Inductive, PTL DEF Spec

(* A key names at most one task, whatever races, crashes and repeats there   *)
(* are: the unique constraint and the waiting INSERT are enough.             *)
THEOREM KeysAreUnique == Spec => []KeyNamesOneTask
<1>1. IInv => KeyNamesOneTask
  BY DEF IInv
<1>2. QED
  BY <1>1, Invariance, PTL

(* Equal requests are told of one and the same task, the one they asked for. *)
THEOREM AnswersAreTrue == Spec => []AnswersTellTheTask
<1>1. IInv => AnswersTellTheTask
  BY DEF IInv
<1>2. QED
  BY <1>1, Invariance, PTL

(* The second transaction of create_task never meets an integrity error.     *)
THEOREM RacesAreResolved == Spec => []RaceIsNoError
<1>1. IInv => RaceIsNoError
  BY DEF IInv
<1>2. QED
  BY <1>1, Invariance, PTL

-----------------------------------------------------------------------------
(* The walk.                                                               *)

(* A committed row is that of an answered request, and of no other: nobody *)
(* changes its time any more.                                              *)
RowsInv ==
  \A row \in rows :
    /\ row.id \in Request /\ step[row.id] \in {"answered", "received"}
    /\ row = [id |-> row.id, key |-> KeyOf(row.id), body |-> wants[row.id[1]].body]

Cursor == [created_at: Nat, rank: Nat]

(* The pages are in order, and the cursor stands between what was shown and *)
(* what is still to come.                                                   *)
WalkInv ==
  /\ created_at \in [Request -> Nat]
  /\ walk.step \in {"idle", "next", "done"} /\ walk.known \subseteq rows
  /\ walk.listed \in Seq(SUBSET rows)
  /\ \A i, j \in 1..Len(walk.listed) : i < j =>
       \A a \in walk.listed[i], b \in walk.listed[j] : Before(a, b)
  /\ walk.step = "idle" => walk.listed = <<>> /\ walk.cursor = NULL
  /\ walk.step = "next" =>
       /\ walk.cursor \in Cursor
       /\ \A i \in 1..Len(walk.listed) :
            \A a \in walk.listed[i] : ~Follows(a, walk.cursor)
       /\ \A row \in walk.known :
            \/ Follows(row, walk.cursor)
            \/ \E i \in 1..Len(walk.listed) : row \in walk.listed[i]
  /\ walk.step = "done" =>
       \A row \in walk.known : \E i \in 1..Len(walk.listed) : row \in walk.listed[i]

LInv == IInv /\ RowsInv /\ WalkInv

LEMMA LInitInv == LInit => LInv
<1> SUFFICES ASSUME LInit PROVE LInv
  OBVIOUS
<1>1. IInv /\ rows = {}
  BY InitInv DEF LInit, Init
<1>2. RowsInv
  BY <1>1 DEF RowsInv
<1>3. walk.listed = <<>> /\ <<>> \in Seq(SUBSET rows) /\ Len(<<>>) = 0
  BY EmptySeq DEF LInit
<1>4. WalkInv
  BY <1>1, <1>3 DEF LInit, WalkInv
<1>5. QED
  BY <1>1, <1>2, <1>4 DEF LInv

(* Committed rows stay, and so do the times they were created at.           *)
LEMMA WalkStays ==
  ASSUME LInv, rows \subseteq rows', UNCHANGED walk,
         created_at' \in [Request -> Nat],
         \A row \in rows : created_at'[row.id] = created_at[row.id]
  PROVE  WalkInv'
<1>1. /\ WalkInv /\ walk.listed \in Seq(SUBSET rows) /\ Len(walk.listed) \in Nat
      /\ DOMAIN walk.listed = 1..Len(walk.listed)
      /\ \A i \in 1..Len(walk.listed) : walk.listed[i] \subseteq rows
  <2>1. WalkInv
    BY DEF LInv
  <2>2. walk.listed \in Seq(SUBSET rows)
    BY <2>1 DEF WalkInv
  <2>3. QED
    BY <2>1, <2>2, LenProperties, ElementOfSeq
<1>2. walk.listed \in Seq(SUBSET rows')
  <2>1. \A i \in 1..Len(walk.listed) : walk.listed[i] \in SUBSET rows'
    BY <1>1
  <2>2. walk.listed \in [1..Len(walk.listed) -> SUBSET rows']
    BY <1>1, <2>1, LenProperties
  <2>3. QED
    BY <1>1, <2>2, SeqDef
<1>3. ASSUME NEW a \in rows, NEW b \in rows PROVE Before(a, b) <=> Before(a, b)'
  BY DEF Before
<1>4. ASSUME NEW a \in rows PROVE Follows(a, walk.cursor) <=> Follows(a, walk.cursor)'
  BY DEF Follows
<1>5. \A i, j \in 1..Len(walk.listed) : i < j =>
        \A a \in walk.listed[i], b \in walk.listed[j] : Before(a, b)'
  BY <1>1, <1>3 DEF WalkInv
<1>6. walk.step = "next" =>
        /\ walk.cursor \in Cursor
        /\ \A i \in 1..Len(walk.listed) :
             \A a \in walk.listed[i] : ~Follows(a, walk.cursor)'
        /\ \A row \in walk.known :
             \/ Follows(row, walk.cursor)'
             \/ \E i \in 1..Len(walk.listed) : row \in walk.listed[i]
  BY <1>1, <1>4 DEF WalkInv
<1>7. /\ walk' = walk /\ walk.known \subseteq rows' /\ walk.step \in {"idle", "next", "done"}
      /\ walk.step = "idle" => walk.listed = <<>> /\ walk.cursor = NULL
      /\ walk.step = "done" =>
           \A row \in walk.known : \E i \in 1..Len(walk.listed) : row \in walk.listed[i]
  BY <1>1 DEF WalkInv
<1>8. (\A i, j \in 1..Len(walk.listed) : i < j =>
         \A a \in walk.listed[i], b \in walk.listed[j] : Before(a, b))'
  BY <1>5, <1>7
<1>9. (walk.step = "next" =>
         /\ walk.cursor \in Cursor
         /\ \A i \in 1..Len(walk.listed) :
              \A a \in walk.listed[i] : ~Follows(a, walk.cursor)
         /\ \A row \in walk.known :
              \/ Follows(row, walk.cursor)
              \/ \E i \in 1..Len(walk.listed) : row \in walk.listed[i])'
  BY <1>6, <1>7
<1>10. QED
  BY <1>2, <1>7, <1>8, <1>9, Zenon DEF WalkInv

(* A request that is answered gets no second row.                           *)
LEMMA RowsStep ==
  ASSUME LInv, Next
  PROVE  RowsInv' /\ rows \subseteq rows'
<1>1. /\ IInv /\ RowsInv /\ UNCHANGED wants
      /\ step \in [Request -> Step] /\ wants' = wants
  BY DEF LInv, IInv, TypeOK, Next, Send, Serve, LookupFinds, LookupFindsNothing, Insert,
         IntegrityError, Commit, Receive, Crash
<1>2. PICK r \in Request : Send(r) \/ Serve(r) \/ Receive(r) \/ Crash(r)
  BY DEF Next
<1>3. \A q \in Request : q # r => step'[q] = step[q]
  BY <1>1, <1>2 DEF Send, Serve, LookupFinds, LookupFindsNothing, Insert,
         IntegrityError, Commit, Receive, Crash, Found, Answer
<1>4. CASE Commit(r)
  <2>1. rows' = rows \cup {pending[r]} /\ step'[r] = "answered"
    BY <1>1, <1>4 DEF Commit, Answer
  <2>2. pending[r] = [id |-> r, key |-> KeyOf(r), body |-> wants[r[1]].body]
    BY <1>1, <1>4 DEF Commit, IInv
  <2>3. ASSUME NEW row \in rows' PROVE
          /\ row.id \in Request /\ step'[row.id] \in {"answered", "received"}
          /\ row = [id |-> row.id, key |-> KeyOf(row.id)', body |-> wants'[row.id[1]].body]
    <3>1. CASE row \in rows
      BY <1>1, <1>3, <2>1, <3>1 DEF RowsInv, KeyOf
    <3>2. CASE row = pending[r]
      BY <1>1, <2>1, <2>2, <3>2 DEF KeyOf
    <3>3. QED
      BY <2>1, <3>1, <3>2
  <2>4. QED
    BY <2>1, <2>3 DEF RowsInv
<1>5. CASE ~Commit(r)
  <2>1. rows' = rows
    BY <1>2, <1>5 DEF Send, Serve, LookupFinds, LookupFindsNothing, Insert,
         IntegrityError, Receive, Crash
  <2>2. step[r] \in {"answered", "received"} => step'[r] \in {"answered", "received"}
    BY <1>1, <1>2, <1>5 DEF Send, Serve, LookupFinds, LookupFindsNothing, Insert,
         IntegrityError, Receive, Crash
  <2>3. ASSUME NEW row \in rows PROVE
          /\ row.id \in Request /\ step'[row.id] \in {"answered", "received"}
          /\ row = [id |-> row.id, key |-> KeyOf(row.id)', body |-> wants'[row.id[1]].body]
    BY <1>1, <1>3, <2>2 DEF RowsInv, KeyOf
  <2>4. QED
    BY <2>1, <2>3 DEF RowsInv
<1>6. QED
  BY <1>4, <1>5

(* ORDER BY created_at, id orders any two rows.                             *)
LEMMA RowsAreOrdered ==
  ASSUME LInv, NEW a \in rows, NEW b \in rows
  PROVE  a = b \/ Before(a, b) \/ Before(b, a)
<1>1. /\ a.id \in Request /\ b.id \in Request
      /\ a.id = b.id => a = b
      /\ created_at[a.id] \in Nat /\ created_at[b.id] \in Nat
  BY DEF LInv, RowsInv, WalkInv
<1>2. Rank[a.id] \in Nat /\ Rank[b.id] \in Nat /\ (Rank[a.id] = Rank[b.id] => a.id = b.id)
  BY <1>1, ListingAssumption DEF IsInjective
<1>3. QED
  BY <1>1, <1>2 DEF Before

(* What is to come is behind what was shown.                                *)
LEMMA CursorSeparates ==
  ASSUME LInv, NEW a \in rows, NEW b \in rows, NEW cursor \in Cursor,
         ~Follows(a, cursor), Follows(b, cursor)
  PROVE  Before(a, b)
<1>1. /\ created_at[a.id] \in Nat /\ created_at[b.id] \in Nat
      /\ Rank[a.id] \in Nat /\ Rank[b.id] \in Nat
      /\ cursor.created_at \in Nat /\ cursor.rank \in Nat
  BY ListingAssumption DEF LInv, RowsInv, WalkInv, Cursor
<1>2. QED
  BY <1>1 DEF Before, Follows

LEMMA ListTasksStep ==
  ASSUME LInv, ListTasks
  PROVE  LInv'
<1> DEFINE n == Len(walk.listed)
<1>1. /\ WalkInv /\ UNCHANGED <<vars, created_at>> /\ walk.step \in {"idle", "next"}
      /\ walk.listed \in Seq(SUBSET rows) /\ n \in Nat
      /\ \A i \in 1..n : walk.listed[i] \subseteq rows
  <2>1. WalkInv
    BY DEF LInv
  <2>2. walk.listed \in Seq(SUBSET rows)
    BY <2>1 DEF WalkInv
  <2>3. QED
    BY <2>1, <2>2, LenProperties, ElementOfSeq DEF ListTasks, WalkInv
<1>2. /\ NULL \notin Cursor
      /\ walk.step = "next" => walk.cursor \in Cursor
      /\ walk.step = "idle" => n = 0 /\ walk.cursor = NULL
  BY <1>1, ListingAssumption, EmptySeq DEF Cursor, WalkInv
<1>3. IInv' /\ RowsInv'
  BY <1>1 DEF LInv, vars, IInv, TypeOK, KeyNamesOneTask, AnswersTellTheTask, RaceIsNoError,
              KeyOf, KeyTaken, RowsInv
<1>3a. PICK then \in {"next", "done"}, page \in SUBSET Rest : \E cursor :
         /\ Page(then, cursor, page)
         /\ then = "done" => page = Rest
         /\ then = "next" => \E last \in Rest : cursor = EncodeCursor(last) /\ page = UpTo(last)
  BY DEF ListTasks, UpTo
<1>4. PICK cursor :
        /\ Page(then, cursor, page)
        /\ then = "done" => page = Rest
        /\ then = "next" => \E last \in Rest : cursor = EncodeCursor(last) /\ page = UpTo(last)
  BY <1>3a
<1>5. /\ walk'.step = then /\ walk'.cursor = cursor /\ walk'.listed = Append(walk.listed, page)
      /\ walk'.known = IF walk.step = "idle" THEN rows ELSE walk.known
  BY <1>4 DEF Page
<1>6. Rest \subseteq rows
  BY DEF Rest
<1>7. /\ walk'.listed \in Seq(SUBSET rows) /\ Len(walk'.listed) = n + 1
      /\ walk'.listed[n + 1] = page /\ \A i \in 1..n : walk'.listed[i] = walk.listed[i]
  BY <1>1, <1>4, <1>5, <1>6, AppendProperties
(* Whatever was shown is before what this page is cut from.                 *)
<1>8. ASSUME NEW i \in 1..n, NEW a \in walk.listed[i], NEW b \in Rest
      PROVE  Before(a, b)
  <2>1. walk.step = "next" /\ ~Follows(a, walk.cursor)
    BY <1>1, <1>2 DEF WalkInv
  <2>2. Follows(b, walk.cursor)
    BY <1>2, <2>1 DEF Rest
  <2>3. QED
    BY <1>1, <1>2, <1>6, <2>1, <2>2, CursorSeparates
(* Whatever was to come is on this page or still to come.                   *)
<1>9. ASSUME NEW row \in walk'.known
      PROVE  row \in Rest \/ \E i \in 1..n : row \in walk.listed[i]
  <2>1. CASE walk.step = "idle"
    BY <1>2, <1>5, <2>1 DEF Rest
  <2>2. CASE walk.step = "next"
    BY <1>1, <1>5, <2>2 DEF WalkInv, Rest
  <2>3. QED
    BY <1>1, <2>1, <2>2
<1>10. \A i, j \in 1..(n + 1) : i < j =>
         \A a \in walk'.listed[i], b \in walk'.listed[j] : Before(a, b)
  <2> SUFFICES ASSUME NEW i \in 1..(n + 1), NEW j \in 1..(n + 1), i < j,
                      NEW a \in walk'.listed[i], NEW b \in walk'.listed[j]
               PROVE  Before(a, b)
    OBVIOUS
  <2>1. i \in 1..n /\ a \in walk.listed[i]
    BY <1>1, <1>7
  <2>2. CASE j = n + 1
    BY <1>4, <1>7, <1>8, <2>1, <2>2
  <2>3. CASE j # n + 1
    BY <1>1, <1>7, <2>1, <2>3 DEF WalkInv
  <2>4. QED
    BY <2>2, <2>3
<1>11. walk'.known \subseteq rows
  BY <1>1, <1>5 DEF WalkInv
<1>12. CASE then = "done"
  <2>1. \A row \in walk'.known : \E i \in 1..(n + 1) : row \in walk'.listed[i]
    BY <1>1, <1>4, <1>7, <1>9, <1>12
  <2>2. WalkInv'
    BY <1>1, <1>5, <1>7, <1>10, <1>11, <1>12, <2>1 DEF WalkInv, Before, vars
  <2>3. QED
    BY <1>3, <2>2 DEF LInv
<1>13. CASE then = "next"
  <2>1. PICK last \in Rest : cursor = EncodeCursor(last) /\ page = UpTo(last)
    BY <1>4, <1>13
  <2>2. /\ cursor \in Cursor /\ last \in rows
        /\ \A row \in rows : Follows(row, cursor) <=> Before(last, row)
    <3>1. last \in rows /\ last.id \in Request
      BY <1>6 DEF LInv, RowsInv
    <3>2. created_at[last.id] \in Nat /\ Rank[last.id] \in Nat
      BY <1>1, <3>1, ListingAssumption DEF WalkInv
    <3>3. \A row \in rows : created_at[row.id] \in Nat /\ Rank[row.id] \in Nat
      BY <1>1, ListingAssumption DEF WalkInv, LInv, RowsInv
    <3>4. QED
      BY <2>1, <3>1, <3>2, <3>3 DEF EncodeCursor, Cursor, Follows, Before
  <2>3. ASSUME NEW a \in rows, NEW b \in rows, Before(a, b) PROVE ~Before(b, a)
    <3>1. /\ created_at[a.id] \in Nat /\ created_at[b.id] \in Nat
          /\ Rank[a.id] \in Nat /\ Rank[b.id] \in Nat
      BY ListingAssumption DEF LInv, RowsInv, WalkInv
    <3>2. QED
      BY <2>3, <3>1 DEF Before
  <2>4. ASSUME NEW i \in 1..(n + 1), NEW a \in walk'.listed[i] PROVE ~Follows(a, cursor)
    <3>1. CASE i \in 1..n
      <4>1. a \in walk.listed[i] /\ a \in rows
        BY <1>1, <1>7, <3>1
      <4>2. Before(a, last)
        BY <1>8, <3>1, <4>1
      <4>3. QED
        BY <2>2, <2>3, <4>1, <4>2
    <3>2. CASE i = n + 1
      <4>1. a \in rows /\ (a = last \/ Before(a, last))
        BY <1>6, <1>7, <2>1, <3>2 DEF UpTo
      <4>2. QED
        BY <2>2, <2>3, <4>1
    <3>3. QED
      BY <1>1, <3>1, <3>2
  <2>5. ASSUME NEW row \in walk'.known
        PROVE  Follows(row, cursor) \/ \E i \in 1..(n + 1) : row \in walk'.listed[i]
    <3>1. CASE row \in Rest
      <4>1. row \in rows /\ (row \in page \/ Before(last, row))
        BY <1>6, <2>1, <2>2, <3>1, RowsAreOrdered DEF UpTo
      <4>2. QED
        BY <1>1, <1>7, <2>2, <4>1
    <3>2. CASE \E i \in 1..n : row \in walk.listed[i]
      BY <1>1, <1>7, <3>2
    <3>3. QED
      BY <1>9, <3>1, <3>2
  <2>6. WalkInv'
    BY <1>1, <1>5, <1>7, <1>10, <1>11, <1>13, <2>2, <2>4, <2>5 DEF WalkInv, Before, Follows, vars
  <2>7. QED
    BY <1>3, <2>6 DEF LInv
<1>14. QED
  BY <1>4, <1>12, <1>13

LEMMA LInductive == LInv /\ [LNext]_lvars => LInv'
<1> SUFFICES ASSUME LInv, [LNext]_lvars PROVE LInv'
  OBVIOUS
<1>1. /\ IInv /\ created_at \in [Request -> Nat] /\ step \in [Request -> Step]
  BY DEF LInv, WalkInv, IInv, TypeOK
<1>2. ASSUME Next, UNCHANGED walk, created_at' \in [Request -> Nat],
             \A row \in rows : created_at'[row.id] = created_at[row.id]
      PROVE  LInv'
  <2>1. IInv'
    BY <1>1, <1>2, Inductive
  <2>2. RowsInv' /\ rows \subseteq rows'
    BY <1>2, RowsStep
  <2>3. WalkInv'
    BY <1>2, <2>2, WalkStays
  <2>4. QED
    BY <2>1, <2>2, <2>3 DEF LInv
(* The request whose row is created or undone has no committed row yet.     *)
<1>3. ASSUME NEW r \in Request, NEW time \in Nat, Next, UNCHANGED walk,
             step[r] \in {"lookup", "insert", "commit"},
             created_at' = [created_at EXCEPT ![r] = time]
      PROVE  LInv'
  <2>1. \A row \in rows : row.id # r
    BY <1>3 DEF LInv, RowsInv
  <2>2. QED
    BY <1>1, <1>2, <1>3, <2>1
<1>4. CASE ListTasks
  BY <1>4, ListTasksStep
<1>5. ASSUME NEW r \in Request, NEW time \in Time, InsertRow(r, time) PROVE LInv'
  <2>1. Next /\ step[r] = "insert" /\ time \in Nat
    BY <1>5, ListingAssumption DEF InsertRow, Next, Serve, Insert
  <2>2. QED
    BY <1>3, <1>5, <2>1 DEF InsertRow
<1>6. ASSUME NEW r \in Request, LCrash(r) PROVE LInv'
  <2>1. Next /\ step[r] \in {"lookup", "insert", "commit"}
    BY <1>6 DEF LCrash, Next, Crash
  <2>2. QED
    BY <1>3, <1>6, <2>1 DEF LCrash
<1>7. ASSUME NEW r \in Request, LSend(r) \/ LServe(r) \/ LReceive(r) PROVE LInv'
  <2>1. Next /\ UNCHANGED <<created_at, walk>>
    BY <1>7 DEF LSend, LServe, LReceive, Next, Serve
  <2>2. QED
    BY <1>1, <1>2, <2>1
<1>8. CASE UNCHANGED lvars
  <2>1. UNCHANGED vars /\ UNCHANGED <<created_at, walk>>
    BY <1>8 DEF lvars
  <2>2. IInv' /\ RowsInv' /\ rows' = rows
    BY <2>1, Inductive DEF LInv, vars, RowsInv, KeyOf
  <2>3. WalkInv'
    BY <1>1, <2>1, <2>2, WalkStays
  <2>4. QED
    BY <2>2, <2>3 DEF LInv
<1>9. QED
  BY <1>4, <1>5, <1>6, <1>7, <1>8 DEF LNext, Served

(* Whatever is created between its pages, and with whatever delay it is      *)
(* committed, a walk shows no task twice, in order, and misses none of those *)
(* there were when it began: microseconds in the cursor, and the id after    *)
(* them, are enough.                                                         *)
THEOREM WalksAreComplete == LSpec => []WalkIsComplete
<1>1. LInv => WalkIsComplete
  <2> SUFFICES ASSUME LInv PROVE WalkIsComplete
    OBVIOUS
  <2>1. WalkInv /\ walk.listed \in Seq(SUBSET rows) /\ DOMAIN walk.listed = 1..Len(walk.listed)
    BY LenProperties DEF LInv, WalkInv
  <2>2. \A i \in 1..Len(walk.listed) : walk.listed[i] \subseteq rows
    BY <2>1, ElementOfSeq
  <2>3. Listed = UNION {walk.listed[i] : i \in 1..Len(walk.listed)}
    BY <2>1 DEF Listed, Range
  <2>4. QED
    BY <2>1, <2>2, <2>3 DEF WalkIsComplete, WalkInv
<1>2. QED
  BY <1>1, LInitInv, LInductive, PTL DEF LSpec
=============================================================================
