----------------------------- MODULE RelayCreate -----------------------------
(***************************************************************************)
(* Concurrent POST /tasks requests that carry an Idempotency-Key, on       *)
(* PostgreSQL (create_task and _create_task of module3/storage.py): the    *)
(* lookup sees committed rows only, so two transactions may both find      *)
(* nothing, and the unique constraint on (sender, key) decides.  A client  *)
(* repeats a request whose answer it did not get, while the server may     *)
(* still be working on the earlier one.                                    *)
(*                                                                         *)
(* All requests are of one sender.  A body stands for recipient and input; *)
(* a request for an unknown recipient is refused before anything is        *)
(* touched, one without a key always inserts: both are in AgentRelay.      *)
(***************************************************************************)
EXTENDS Naturals

CONSTANTS
  Client,      \* callers of POST /tasks
  Key, Body,
  NULL,
  Tries        \* bound: how often a client sends its request

ASSUME CreateAssumption == Tries \in Nat \ {0} /\ NULL \notin [id: Client \X (1..Tries), key: Key, body: Body]

Request == Client \X (1..Tries)   \* <<c, n>> is the n-th sending of c's request

VARIABLES
  wants,    \* what each client asks for
  step,     \* where the server is with each request
  rerun,    \* whether create_task is in its second transaction
  rows,     \* committed rows of the tasks table
  pending,  \* the row the open transaction of each request has inserted
  reply     \* the answer to each request

vars == <<wants, step, rerun, rows, pending, reply>>

Row == [id: Request, key: Key, body: Body]
Step == {"unsent", "lookup", "insert", "commit", "answered", "received", "lost"}
Reply == [status: {"created"}, id: Request] \cup [status: {"conflict", "error"}]

Init ==
  /\ wants \in [Client -> [key: Key, body: Body]]
  /\ step = [r \in Request |-> "unsent"]
  /\ rerun = [r \in Request |-> FALSE]
  /\ rows = {}
  /\ pending = [r \in Request |-> NULL]
  /\ reply = [r \in Request |-> NULL]

KeyOf(r) == wants[r[1]].key

(* The latest sending of its client: the earlier ones are given up.        *)
Current(r) == \A n \in 1..Tries : n > r[2] => step[<<r[1], n>>] = "unsent"

(* A client sends its request, the next time when it has no answer yet.    *)
Send(r) ==
  /\ step[r] = "unsent"
  /\ \A n \in 1..(r[2] - 1) : step[<<r[1], n>>] \notin {"unsent", "received"}
  /\ step' = [step EXCEPT ![r] = "lookup"]
  /\ UNCHANGED <<wants, rerun, rows, pending, reply>>

Answer(r, answer) ==
  /\ step' = [step EXCEPT ![r] = "answered"]
  /\ reply' = [reply EXCEPT ![r] = answer]

(* Fault form: the earlier task is returned whatever it asked for.          *)
FoundAny(r, row) == Answer(r, [status |-> "created", id |-> row.id])

(* The key is known: the same task again, or a conflict.                   *)
Found(r, row) ==
  IF row.body = wants[r[1]].body THEN Answer(r, [status |-> "created", id |-> row.id])
                                 ELSE Answer(r, [status |-> "conflict"])

LookupFinds(r) ==
  /\ step[r] = "lookup"
  /\ \E row \in rows : row.key = KeyOf(r) /\ Found(r, row)
  /\ UNCHANGED <<wants, rerun, rows, pending>>

LookupFindsNothing(r) ==
  /\ step[r] = "lookup"
  /\ \A row \in rows : row.key # KeyOf(r)
  /\ step' = [step EXCEPT ![r] = "insert"]
  /\ UNCHANGED <<wants, rerun, rows, pending, reply>>

(* Fault form: no unique constraint.                                       *)
KeyTakenNever(r) == FALSE

(* A committed row has the key.                                            *)
KeyTaken(r) == \E row \in rows : row.key = KeyOf(r)

(* An open transaction has inserted it: the INSERT waits for its end.      *)
MustWait(r) == \E q \in Request \ {r} : pending[q] # NULL /\ KeyOf(q) = KeyOf(r)

(* The insert is flushed; its id is new.                                   *)
Insert(r) ==
  /\ step[r] = "insert" /\ ~MustWait(r) /\ ~KeyTaken(r)
  /\ pending' = [pending EXCEPT ![r] =
       [id |-> r, key |-> KeyOf(r), body |-> wants[r[1]].body]]
  /\ step' = [step EXCEPT ![r] = "commit"]
  /\ UNCHANGED <<wants, rerun, rows, reply>>

(* Fault form: the error of the race is passed on.                         *)
IntegrityErrorRaised(r) ==
  /\ step[r] = "insert" /\ ~MustWait(r) /\ KeyTaken(r)
  /\ Answer(r, [status |-> "error"])
  /\ UNCHANGED <<wants, rerun, rows, pending>>

(* The loser of the race starts over in a new transaction; an error there  *)
(* is not caught and becomes a 500.                                        *)
IntegrityError(r) ==
  /\ step[r] = "insert" /\ ~MustWait(r) /\ KeyTaken(r)
  /\ IF rerun[r] THEN Answer(r, [status |-> "error"]) /\ UNCHANGED rerun
     ELSE /\ rerun' = [rerun EXCEPT ![r] = TRUE]
          /\ step' = [step EXCEPT ![r] = "lookup"]
          /\ UNCHANGED reply
  /\ UNCHANGED <<wants, rows, pending>>

Commit(r) ==
  /\ step[r] = "commit"
  /\ rows' = rows \cup {pending[r]}
  /\ pending' = [pending EXCEPT ![r] = NULL]
  /\ Answer(r, [status |-> "created", id |-> r])
  /\ UNCHANGED <<wants, rerun>>

(* The answer reaches a client that still waits for it.                    *)
Receive(r) ==
  /\ step[r] = "answered" /\ Current(r)
  /\ step' = [step EXCEPT ![r] = "received"]
  /\ UNCHANGED <<wants, rerun, rows, pending, reply>>

(* Fault form: the transaction is left open.                               *)
CrashLeavesOpen(r) ==
  /\ step[r] \in {"lookup", "insert", "commit"}
  /\ step' = [step EXCEPT ![r] = "lost"]
  /\ UNCHANGED <<wants, rerun, rows, pending, reply>>

(* The server or its database connection dies: the transaction is undone.  *)
Crash(r) ==
  /\ step[r] \in {"lookup", "insert", "commit"}
  /\ step' = [step EXCEPT ![r] = "lost"]
  /\ pending' = [pending EXCEPT ![r] = NULL]
  /\ UNCHANGED <<wants, rerun, rows, reply>>

Serve(r) ==
  LookupFinds(r) \/ LookupFindsNothing(r) \/ Insert(r) \/ IntegrityError(r) \/ Commit(r)

Next == \E r \in Request : Send(r) \/ Serve(r) \/ Receive(r) \/ Crash(r)

Spec == Init /\ [][Next]_vars

-----------------------------------------------------------------------------
(* Properties.                                                             *)

(* Every request, row and answer is of its kind.                           *)
TypeOK ==
  /\ wants \in [Client -> [key: Key, body: Body]]
  /\ step \in [Request -> Step]
  /\ rerun \in [Request -> BOOLEAN]
  /\ rows \subseteq Row
  /\ pending \in [Request -> Row \cup {NULL}]
  /\ reply \in [Request -> Reply \cup {NULL}]

(* However requests race, crash, are sent again and lose their answers, a   *)
(* key names at most one task (SPEC.md:83).                                 *)
KeyNamesOneTask == \A r, s \in rows : r.key = s.key => r = s

(* Whoever is told "created" for a key is told of the one task it names,    *)
(* and that task is what was asked for; a conflict means it is not.         *)
AnswersTellTheTask ==
  \A r \in Request : reply[r] # NULL =>
    CASE reply[r].status = "created" ->
           [id |-> reply[r].id, key |-> KeyOf(r), body |-> wants[r[1]].body] \in rows
      [] reply[r].status = "conflict" ->
           \E row \in rows : row.key = KeyOf(r) /\ row.body # wants[r[1]].body
      [] OTHER -> TRUE

(* Losing the race is never an error: "it then re-runs the lookup and       *)
(* answers like any retry" (storage.py:110-113).                            *)
RaceIsNoError == \A r \in Request : reply[r] # NULL => reply[r].status # "error"

(* No request waits for ever behind another one's insert, whatever becomes  *)
(* of that one.                                                             *)
EveryoneAnswered == \A r \in Request : step[r] = "insert" ~> step[r] \in {"answered", "received", "lost"}
=============================================================================
