---------------------------- MODULE RelayListing ----------------------------
(***************************************************************************)
(* Walking through GET /tasks page by page (list_tasks and its cursors in  *)
(* module3/storage.py) while tasks are created on PostgreSQL: composed     *)
(* with RelayCreate.  A page is one SELECT.  Tasks are ordered by when     *)
(* they were created, which the server that inserts them reads off its own *)
(* clock before it commits, so they may appear in any order; ids are       *)
(* random.  The walk goes through all tasks its sender has sent.           *)
(***************************************************************************)
EXTENDS RelayCreate, Sequences, FiniteSets, Functions

CONSTANTS
  Rank,        \* how the tasks' ids compare
  Time,        \* when a task may be created, in microseconds
  SECOND,      \* how many of them a second has
  Limit        \* rows on a page

ASSUME ListingAssumption ==
  /\ Rank \in [Request -> Nat] /\ IsInjective(Rank)
  /\ Time \subseteq Nat /\ NULL \notin [created_at: Nat, rank: Nat]
  /\ SECOND \in Nat \ {0} /\ Limit \in Nat \ {0}

VARIABLES
  created_at,  \* when the row of each request was created
  walk         \* how far the walk is, and what was committed when it began

lvars == <<vars, created_at, walk>>

LInit ==
  /\ Init
  /\ created_at = [r \in Request |-> 0]
  /\ walk = [step |-> "idle", cursor |-> NULL, listed |-> <<>>, known |-> {}]

(* ORDER BY created_at, id.                                                 *)
Before(a, b) ==
  \/ created_at[a.id] < created_at[b.id]
  \/ created_at[a.id] = created_at[b.id] /\ Rank[a.id] < Rank[b.id]

(* Fault form: a cursor as precise as the answers' timestamps.              *)
EncodeCursorSeconds(row) ==
  [created_at |-> (created_at[row.id] \div SECOND) * SECOND, rank |-> Rank[row.id]]

EncodeCursor(row) == [created_at |-> created_at[row.id], rank |-> Rank[row.id]]

Follows(row, cursor) ==
  \/ created_at[row.id] > cursor.created_at
  \/ created_at[row.id] = cursor.created_at /\ Rank[row.id] > cursor.rank

(* The rows a page is cut from, and those of them up to a last one.         *)
Rest == {row \in rows : walk.cursor # NULL => Follows(row, walk.cursor)}
UpTo(last) == {row \in Rest : row = last \/ Before(row, last)}

Page(then, cursor, page) ==
  walk' = [step |-> then, cursor |-> cursor, listed |-> Append(walk.listed, page),
           known |-> IF walk.step = "idle" THEN rows ELSE walk.known]

(* One page: limit + 1 rows tell whether there is a next one, which goes on *)
(* behind the last of the limit rows that are shown.                        *)
ListTasks ==
  /\ walk.step # "done"
  /\ \/ Cardinality(Rest) <= Limit /\ Page("done", NULL, Rest)
     \/ /\ Cardinality(Rest) > Limit
        /\ \E last \in Rest :
             /\ Cardinality(UpTo(last)) = Limit
             /\ Page("next", EncodeCursor(last), UpTo(last))
  /\ UNCHANGED <<vars, created_at>>

(* The row is made with the time of that moment.                            *)
InsertRow(r, time) ==
  /\ Insert(r)
  /\ created_at' = [created_at EXCEPT ![r] = time]
  /\ UNCHANGED walk

(* What else a request does; a row that is undone takes its time with it.   *)
LServe(r) ==
  /\ LookupFinds(r) \/ LookupFindsNothing(r) \/ IntegrityError(r) \/ Commit(r)
  /\ UNCHANGED <<created_at, walk>>

LSend(r) == Send(r) /\ UNCHANGED <<created_at, walk>>
LReceive(r) == Receive(r) /\ UNCHANGED <<created_at, walk>>
LCrash(r) == Crash(r) /\ created_at' = [created_at EXCEPT ![r] = 0] /\ UNCHANGED walk

Served(r) == LServe(r) \/ \E time \in Time : InsertRow(r, time)

LNext == ListTasks \/ \E r \in Request : LSend(r) \/ Served(r) \/ LReceive(r) \/ LCrash(r)

LSpec == LInit /\ [][LNext]_lvars

(* The server works on every request until it answers or dies; nothing is   *)
(* asked of the clients.                                                    *)
LFairSpec == LSpec /\ \A r \in Request : WF_lvars(Served(r))

-----------------------------------------------------------------------------
(* Properties.                                                             *)

Listed == UNION Range(walk.listed)

(* A walk shows no task twice and in the order they were created, and by     *)
(* its end every task that was committed before it began, whatever commits   *)
(* between its pages (a cursor "must retain microseconds or several rows     *)
(* created in one second can repeat on the next page", storage.py:331).      *)
WalkIsComplete ==
  /\ \A i, j \in DOMAIN walk.listed : i < j =>
       \A a \in walk.listed[i], b \in walk.listed[j] : Before(a, b)
  /\ Listed \subseteq rows
  /\ walk.step = "done" => walk.known \subseteq Listed
=============================================================================
