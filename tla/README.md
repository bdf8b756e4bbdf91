# Verification of the zoomcamp projects

TLA+ models of the programs of this repository, the configurations that
model-check them with TLC, and theorems about them that TLAPS proves.  The
repository holds four programs, one per course module:

| Program | Code | What it is |
|---|---|---|
| City Journal | `module1/` | a single-user place journal, Django commands over one SQLite table |
| WaitWise | `module2/` | a restaurant waitlist: FastAPI over SQLite, a React frontend |
| Agent Relay | `module3/` | a task relay between agents: leases, retries, idempotency keys, a worker |
| Order Tracker and incident responder | `module4/` | a small order API, and a webhook that starts an agent for every alert |

The Agent Relay is a concurrent, crash-tolerant protocol and gets most of the
attention; then come the waitlist - its transactions, the page a guest watches,
the mock of the backend - the incident responder and the journal's commands.

## 1. Inventory

### Agent Relay (`module3/`)

| Part | State | Operations |
|---|---|---|
| Task store (`storage.py`, `database.py`) | tables `agents`, `tasks`, `attempts`, each with constraints; limits read from the environment at start | `register_agent`, `create_task`, `claim_one`, `heartbeat`, `commit_terminal` (complete and fail), `recover_expired`, listings |
| HTTP layer (`main.py`, `schemas.py`, `errors.py`) | none but the recovery loop's thread | authentication, validation, the long poll of a claim, `recovery_loop` |
| Worker (`worker.py`) | the claim in hand, the heartbeat loop's thread, tries left | claim, work, heartbeat loop, `submit_terminal` with retries |
| Dashboard, container and Kubernetes files | none | read or deploy |

*How they interact.*  Senders create tasks for a recipient; the recipient's
workers claim the oldest queued one and get a token and a lease; they renew the
lease from a thread beside the work and send `complete` or `fail` with the token.
Recovery runs in a loop of every API process and at the start of every claim: an
attempt whose lease is over is marked `expired`, and its task is queued again or,
with its deliveries used up, failed.  On SQLite `BEGIN IMMEDIATE` serializes the
writers; on PostgreSQL they interleave and only row locks, a re-read under the
lock, `SKIP LOCKED` and a unique constraint keep them apart.

*Hard.*  A retry of a result whose answer was lost, after the deadline, after a
restart.  A result that arrives after the lease is over but before recovery has
noticed.  Several processes that recover the same leases.  Two creations with one
key.  A restart with a lower delivery limit.  Requests that arrive late, for
workers that have given them up.

*Correct when* a task has one holder at a time; a lease is not cut short and an
expired one not revived; an acknowledged result is kept and its retry answered
the same for ever; a key names one task; no delivery exceeds the limit; a silent
worker loses its task.

### WaitWise (`module2/`)

| Part | State | Operations |
|---|---|---|
| Store and rules (`backend/app/store.py`, `rules.py`, `db.py`, `tables.py`) | restaurant, waitlist entries, accounts, sessions; one write lock | `sweep_no_shows`, `add_entry`, `change_status`, `position`, `active_queue`, `update_restaurant`, `set_restaurant_active`, `update_settings` |
| Routers, models, serializers, errors | none | one request is one transaction: sweep, load, operation, commit |
| Accounts and sessions (`auth.py`) | users and token hashes | login, logout, user management |
| Frontend hook `useResource.ts` | data, error, generation | loads, polls and `setData` that overlap |
| Waiting page `WaitStatusPage.tsx` | the status that decides about polling, `leaving` | poll, leave the line |
| Frontend rules (`domain/`) | none | the legal moves and the no-show deadline, in TypeScript |
| Frontend mock (`services/mock/`) | a database in one item of `localStorage`, shared by tabs | every call of the backend: read all of it, sweep, change a copy, write all of it |
| Other pages, HTTP client | form state | render, send |

*Hard.*  A guest, two tablets and the overdue sweep decide about one party from
what they read before any of them wrote; a refused request takes back its own
sweep; the sweep computes deadlines from a setting that may change in between;
joins commit in another order than their times; the page's polls overlap and are
answered out of order, and what it shows decides whether it asks again; tabs
write over each other's whole database.

*Correct when* every granted change is a legal move from the status it replaced;
a finished party is never overwritten; stamps agree with the status; earlier
guests stand in front, and guest and staff see the same position; an edit keeps
what another one set; every request ends; a page that stops polling shows the
truth; the mock's logins, restaurants and parties always fit together, and its
tabs keep the backend's rules.

### Incident responder and Order Tracker (`module4/`)

| Part | State | Operations |
|---|---|---|
| `incident-response/responder.py` | `_running` (in memory, under a lock), directories `incidents/<id>/` | the webhook, `handle_incident`, status files |
| `incident-response/agent.py` | a child process | run with a time limit |
| `incident-response/evidence.py` | none | queries, each of which may fail |
| `app/` | an orders table | one statement per request |

*Hard.*  Notifications overlap and repeat; the alert is reserved under the lock
but its directory made after it; ids have a resolution of one second; a crash
forgets `_running` but not the directories.

*Correct when* an alert has one handler at a time, in a directory of its own; every
incident ends in a final status and its alert can be handled again.

### City Journal (`module1/`)

| Part | State | Operations |
|---|---|---|
| `models.py` | places, tags and which place carries which | normalisation on save |
| `add.py`, `visit.py` | none of their own | one transaction that creates tags and a place; resolve a name, then one UPDATE |
| `todo.py`, `stats.py`, `find.py`, `surprise.py` | none | lists, counts, a search, a weighted draw; each is several queries |
| `lookup.py`, `search.py` | none | which place a name means; scores and ranking |
| `admin.py`, migrations, settings | none | Django wiring |

*How they interact.*  Every command is a process of its own over one SQLite file.
`find` and `surprise` filter candidates and hand them to the ranker or the draw;
`visit` and the searches share the normalised texts of `models.py`.

*Hard.*  Outside `add`'s atomic block each statement is a transaction: between a
command's statements another terminal may commit.  The ranker promises an order
that depends on nothing but the data, a threshold with a fallback, and that more
evidence never costs score; the draw has boundaries and a date that may be missing; case is folded by Python, by SQLite,
or not at all.

*Correct when* a flag that was not given changes nothing, even between two
commands; no tag is left without a place; a name never stamps another place than
the one meant; strong matches are all shown and guesses are few; reports add up.

`PROJECT.json` lists every component with its status and every hazard with its
line and the properties that cover it.

## 2. Modules

| Module | Models | Its state |
|---|---|---|
| `AgentRelay` | the store on SQLite, one action per transaction | `now`, `lease_seconds`, `max_attempts` (the running configuration), `registered`, `task`, `attempts` (the tables), `acked` (history) |
| `DeliveryContract` | what the relay promises about a task: holder, deliveries, one result | `delivery` |
| `RelayPostgres` | the same operations split at their row locks, READ COMMITTED | `store` (committed versions), `txn`, `view` (what a transaction has locked and written), `acked`, `now` |
| `RelayCreate` | creations that race for a key, with retries and crashes | `wants`, `step`, `rerun`, `rows`, `pending`, `reply` |
| `RelayListing` | a walk through the pages of a listing while tasks are created; EXTENDS `RelayCreate` | `created_at`, `walk` |
| `RelayWorker` | workers and the network; EXTENDS `AgentRelay` | `worker`, `late` (requests on their way that nobody waits for), `counted` (history) |
| `Waitlist` | the waitlist's transactions on SQLite, statement by statement | `db` (committed), `draft` (of the writer), `writer` (the lock), `req`, `granted` (history), `now` |
| `WaitlistContract` | what every keeper of a waitlist promises: nobody is lost, only legal moves | `party` |
| `WaitPage` | the guest's page: overlapping loads, polls and the leave button | `server`, `request`, `page`, `failures` |
| `MockTabs` | the in-browser backend, used by several tabs | `store` (the item), `tab` (each tab's call and copy), `oneThread`, `now`, `tokens`, `calls` |
| `PlaceSearch` | scores, ranking and name matching, as operators | none |
| `CityJournal` | the journal's commands, statement by statement; EXTENDS `PlaceSearch` | `db` (committed), `cmd` (each terminal's command), `told` (history), `now` |
| `IncidentResponder` | notification threads, handlers, the agent | `running`, `folder`, `req`, `lost` (history), `now` |
| `AgentRelayProofs` (the store, its contract and its workers), `RelayPostgresProofs`, `RelayCreateProofs` (creation and listing), `WaitlistProofs`, `IncidentResponderProofs`, `CityJournalProofs`, `MockTabsProofs`, `WaitPageProofs` | theorems and proofs | |
| `MC...` | constants of the small instances; in `MCRelayWorker` and `MCCityJournal` also which of several uses of the system a behaviour is about, chosen at the start and only ever leaving out steps of others | `open`, `journal` |

How the actions correspond to the code:

* **AgentRelay.**  `Register` is `register_agent`; `CreateTask` is the request of
  `_create_task` that inserts; `Recover` is a pass of `recover_expired`; `Claim`,
  `ClaimExhausted`, `ClaimNothing` are the three outcomes of `claim_one`, each with the
  recovery it starts with; `Heartbeat`; `CommitTerminal` and `RepeatTerminal` are the two
  ways `complete` and `fail` answer 200; `Restart` reads another configuration.
  Refused requests roll back; what each is answered is in `CreateReply`,
  `HeartbeatReply`, `TerminalReply`, in the order of the code's checks.
* **RelayPostgres.**  `Scan` is the unlocked SELECT of expired attempts; `LockNext`
  locks one task, re-reads the attempt and recovers it or leaves it; `Take` is the
  claim with `SKIP LOCKED`; `TokenRequest` is the locking prologue of a heartbeat or a
  result; `Commit` publishes, `Abort` is any failure.  Waiting for a lock is an
  action that is not enabled.
* **RelayCreate.**  Lookup, insert, unique violation, the second transaction of
  `create_task`, commit, answer, and a crash between any two.
* **RelayListing.**  `ListTasks` is one page, one SELECT: `Rest` is what the query finds, `UpTo` cuts
  it at the limit, `Page` is the answer with the cursor for the next one; `EncodeCursor` and
  `Follows` are that cursor and the WHERE clause it becomes; `InsertRow` adds to `RelayCreate`'s insert the
  time the server's clock shows, which need not agree with the order of commits.
* **RelayWorker.**  Every action takes a step of the store or leaves it alone; a request
  may be answered, answered in vain, or seen by the store after the worker gave it
  up (`late`, `Arrive`).
* **Waitlist.**  `Begin` reads who is overdue; `SweepOne` marks one of them; the first write takes
  the lock; `JoinRead`/`JoinWrite`, `ChangeRead`/`ChangeWrite`, `EditRead`/`EditWrite` are
  the decision and the statement that acts on it; `Commit`, `Busy` (lock timeout), `Crash`.
* **WaitPage.**  `Poll` is the interval of `useResource`, which does not wait for the request
  before; `Loaded`, `Left`, `LeaveRefused`, `Fail` are the ways a request ends; `Show` is
  `setStatus` with `setData`; `Polls` is the page's `pollMs`.  The server is external.
* **MockTabs.**  `LoadDb` is `readDb` and the sweep, `WriteSwept` the `writeDb` at its end;
  then one operation changes the copy and `WriteDb` stores it.  `oneThread` says whether
  tabs share a thread, where a call runs without a pause, or not.
* **CityJournal.**  `Add` is the atomic block; `VisitExact` and `VisitPartial` are the two queries of
  `resolve_place`, `VisitSave` the UPDATE; `Exists` then `Todo`, `Find` or `Surprise`;
  `Stats` has a step for each query.  `Fails` is an interruption or a lock timeout
  anywhere.  What the queries answer are operators of the database, and what
  `RankPlaces` answers is checked where a search is about to print it.  `Listed` is what `find` hands to the ranker
  and `Found` what it prints; `Weight` and `Reason` are the two readings `surprise` has of an age.
* **PlaceSearch.**  Case is folded where and as the code folds it: `Lower` is Python's `lower`, for scores, sort keys
  and tags; `AsciiLower` is SQLite's, for `iexact` and `icontains`, which leaves letters beyond a-z alone; `stats` groups by
  the text as it is stored.  A score is an exact fraction: `Remaining` is one factor of the code's product, in lowest terms, `Doubt` the
  product and `Rounded` the one rounding to two decimals at its end, so that two of three words in a name come to exactly 60.00 as they do
  in the code.  The code computes in floats; a score in the exact middle between two hundredths may be rounded the other way.
* **IncidentResponder.**  `Reserve` is what happens under the lock, `Open` what
  follows it; `Answer` ends the request and the handlers it scheduled run one
  after another: `NoAgent` or `StartAgent`, `AgentEnds`, `Release`.

Definitions whose comment begins "Fault form" are not part of any specification.
They are wrong versions of the definition after them - a forgotten guard, a
swapped order - used to confirm that each property notices such a bug
(`PROJECT.json`, "mutants").

## 3. Runs

| Run | Instance | What it shows |
|---|---|---|
| `relay` | one agent, leases of 1 or 2 and limits of 1 or 2, clock to 3; either anybody sends anything about two tasks with two payloads and a key, or two workers of the agent work on one task, with two sends of a result | consistency of the tables, mutual exclusion, lasting acknowledgements, the limit across restarts, dead leases, `ImplementsContract`, and that a silent worker loses its task; what a worker counts is stored, live claims never overlap |
| `relay_postgres` | two transactions, two tasks, limits 1 and 2 side by side | no early expiry, lasting acknowledgements and the contract when transactions interleave at their row locks |
| `relay_postgres_deadlock` | as above, equal limits | **violated**: two recovery passes can wait for each other |
| `relay_create` | two clients, two sendings each, two keys, two bodies; a walk with one row a page | one task per key, true answers, no error for the loser, everyone answered; the walk is in order, repeats nothing and misses nothing that was there |
| `waitlist_race` | two requests at a time, two parties, clock to 2 | winners, stamps, order, answers after a sweep, `ImplementsContract` |
| `waitlist_settings` | edits among joins, sweeps and changes of one party, no-show times of 1 and 2 | edits do not undo each other; every request ends; a sweep that began before the no-show time was raised stamps nobody ahead of the clock |
| `incident` | two threads, two alerts, groups of one and two | one handler per alert, and its release |
| `incident_dropped` | two threads | **violated**: a repeat that overtakes the directory leaves another alert reserved for ever |
| `journal` | four journals, chosen at the start (`MCCityJournal`): two terminals and two places of which one's name is part of the other's, two visits, three days; two terminals, three places in four spellings of two neighborhoods and none, one visit; one terminal, three of eight kinds of places, six searches, two guesses; one terminal, two places, two visits, three days of two ticks | flags, tags and name resolution while commands overlap; the queries of one report agree with each other and with the filters of the other commands; what a search shows and holds back, its order, and that no field costs score; the odds of a draw and the reason printed for it |
| `journal_undated` | the same journals, one terminal | **violated**: a visit without a date does not count as none |
| `mock_tabs` | two tabs, four calls, a second restaurant and a second party | accounts fit together whatever tabs do; tabs of one thread keep `WaitlistContract` |
| `wait_page` | three requests at a time, three changes, two failures | the page never shows a wrong ending, and shows the truth in the end |

*Bounds.*  Two tasks are the fewest that compete for a claim and differ in creation
time; three ticks let a task be delivered, expire, be delivered under another
lease and expire for good, with both limits met.  One recipient is enough because
`claim_one` only looks at its own tasks.  Two transactions are the fewest that race, and
a third can only wait for one of them or find what one has committed; the deadlock needs
no more.  Two sendings are one retry.  Two
parties give an order and a position; `Horizon` 2 lets a party be overdue and marked
while requests that looked earlier are still running.  Two alerts and two threads
give a repeat that overtakes its predecessor in a group; their titles differ, because
alerts of one title in one second share a directory (see below).  A page of one row puts
a cursor between any two tasks; two times in one second and two ids in one microsecond
are the ties a cursor has to tell apart.  Two places of which one's name is part of
the other's are the fewest a name can be ambiguous about; the two visits may hit one
place.  The six words of the journal are three that the tokenizer sees, of which two are alike enough
to be a match (at exactly 70, `MIN_TOKEN_SIMILARITY`), a second spelling of one of them, and two spellings of a
word that it does not see and whose case SQLite does not fold.  One terminal is enough for searches and draws: they read once, and what
another terminal commits before that is a journal they may find anyway.  The searches come to 60.00 exactly by two of three words in a name,
find only guesses, strong matches only and both, more of either than the limits of one to three, and places that tie in score and differ in
neighborhood, note or tags alone, or in nothing.  Days of two ticks let a visit be half a day from each
boundary; 1 and 2 days stand for 30 and 180.  Three requests are two overlapping polls and a cancellation.  Four calls
let a tab read, two others change, and the first write over them.  `Horizon`, `MaxId`,
`MaxEntries`, `MaxPlaces`, `MaxVisits`, `MaxCalls`, `MaxTokens`, `MaxRestaurants`, `MaxChanges`,
`MaxFailures`, and in `RelayCreate` and `RelayWorker` `Tries`, are the only bounds in guards.
Symmetry is used where only safety is checked.

*Deadlock* is checked except in `relay_create`, `mock_tabs` and `wait_page`, which come to an end:
all clients are answered, all calls made, a finished party's page has nothing left to ask.

*Fairness.*  `AgentRelay`: the clock goes on, and recovery runs again and again,
because `recovery_loop` (`main.py:88-101`) catches every exception and sleeps a fixed
time; nothing is assumed of workers or senders.  `RelayCreate`: a server thread
goes on, or its process dies; database locks are released when a transaction
ends.  `Waitlist`: a request thread goes on or gives up waiting for the lock
(`busy_timeout`, `db.py:77`).  `WaitPage`: the interval fires, the server answers what reaches
it and answers arrive, but for at most `MaxFailures` failures; guest and staff may do nothing.  `IncidentResponder`: handler threads go on and an agent ends
within `AGENT_TIMEOUT_SECONDS`.

### What the violated runs say

Each quotes a sentence of the repository; the details are in `PROJECT.json`,
"findings".

1. `lock_task` says that locking the task first keeps PostgreSQL from deadlocking
   (`database.py:232-235`).  A recovery pass locks several tasks, in the order of the lease ends
   *it* scanned; when a lease was renewed between two scans the passes lock in
   opposite orders.  PostgreSQL aborts one; a claim is then answered 500.
2. A repeated notification between reservation and `mkdir` fails with 500 and
   drops the handlers it has added so far; their alerts stay in `_running`
   (`responder.py:83-89`).
3. `visit` says that `surprise` reads a null date as "never visited" (`visit.py:11`).  `surprise` goes by
   the status and gives a visit of unknown date the weight of one long ago, half of what a place
   never visited has; its own notes (`surprise.py:15-21`) want exactly that.

### Observed while modelling

Behaviour of the code that is in the models and that no run claims to be otherwise:

* The heartbeat loop ends on any status but 200 (`worker.py:104`), so one 429 or 503 ends the
  renewals of a live claim; `SPEC.md:207` asks clients to retry both.  The claim
  request, outside any `try`, ends the worker on its first connection failure (`ClaimLost`).
* Staff who act on an overdue party are told it has already been marked as a no-show,
  and that mark is rolled back with the refusal (`store.py:298`, `db.py:113-115`); the next
  request makes it again.
* A poll that fails after a finished status was shown leaves `error` set on the page for
  good: nothing asks again (`useResource.ts:40`).  `PageCatchesUp` is about the data only.
* Two alerts of one title in one second share an incident directory (`responder.py:89`, `167-169`).
* Browser tabs in different processes may write over each other's changes of the
  mock database; `mock_tabs` shows what survives that, and `ImplementsContract` is stated
  for tabs of one thread only.
* `stats` may report more places by neighborhood than in total, when one was added between
  its queries.
* `stats` has a row for each spelling of a neighborhood, a filter of `todo` or `surprise` lists all that differ in
  the case of a-z alone (`stats.py:190-207`, `todo.py:120`); letters beyond a-z that differ in case are told apart by both.

## 4. Proofs

All theorems hold for every value of the constants that the modules' named
assumptions allow: ids and limits are naturals, limits and leases positive, `NULL` is none
of the values it is told apart from.

*The store.*  `IInv` (`AgentRelayProofs`) is a type invariant and, for each task, one
predicate over its row, its attempts, its acknowledgements and the clock: attempts are
numbered as `attempt_count` says and carry the tokens of their place; all but the
last are expired, and expired ones are over; the status agrees with the last
outcome; output, error and finish time agree with the status; what was
acknowledged is what the last attempt was closed with.  The properties are not
inductive on their own: that a claim leaves a single open attempt needs that a queued
task's last attempt is expired; that a late result cannot replace another needs
that only the last attempt can be open; that a retry is recognised needs that
a closed attempt keeps its action and payload.  `Inductive` has a lemma per action,
because every action changes one task through the recovery it may start with
(`RecoveredInv`).  From `Invariance` follow `Typing`, `NumberingIsKept`, `StatusIsKept`,
`MutualExclusion`, `LeasesRunOut`, `FieldsAreKept`, `AcknowledgementIsKept`, `RetryIsSafe`,
`KeysAreUnique`, and the step properties `FinalityHolds`, `ExpiryIsFinal`, `LimitIsKept`.

*The contract.*  `Implementation` proves `Spec => ImplementsContract`: under the
mapping that reads holder, deliveries and result from the two tables, each
action is a move of `DeliveryContract` for every task or a stutter.

*Workers.*  `WorkersUseTheStore` proves `WSpec => Spec`: workers and network only take
steps of the store, so all of the above holds with them.  `CountingIsSafe` proves that
what a worker counts is the stored result of its own claim.  `NoTaskIsWorkedTwice` adds that a
token in a worker's hands was issued and is in nobody else's (`OwnClaims`): two live claims on
one task would be two open attempts, which the store's own invariant excludes.

*PostgreSQL.*  The invariant of `RelayPostgresProofs` speaks of versions of a task.  `VersionInv`: every
version, committed or being written, is consistent - attempts numbered, all but the last
expired, expired ones over by the clock.  `LockedInv`: what a transaction has made of a task
it locked is at most one move away from what is committed, and nothing if the task is finished; that
this stays true until it commits needs `LocksExclusive`, that no two transactions hold one task.
`TxnInv`: the time a transaction has read is not ahead of the clock, before its locks it has
written nothing, recovery has at most queued or failed what was in process (`RecoveredInv`), and what it will
acknowledge is in what it wrote (`AckInv`).  From it `TypeCorrect`, `NoLeaseTakenEarly`, `NoAnswerLost` and
`PostgresImplementsContract`: only `Commit` moves the contract's state, each locked task by a legal
move.  Of an unlocked scan the invariant keeps no more than that its rows exist: the re-read
under the lock is what the proof uses.

*Creation.*  The invariant of `RelayCreateProofs` says that a key is held by at most one
committed or pending row and that answers name committed rows; from it
`KeysAreUnique`, `AnswersAreTrue` and `RacesAreResolved`: one rerun is always enough.

*Listing.*  The invariant of the walk (`WalkInv`) places the cursor between what was shown and what
is still to come: nothing shown follows it, and every task of the start that was not shown does.  It rests
on `RowsInv`, a committed row keeps its time, and on the ids telling apart rows of one
time.  `WalksAreComplete` follows for any page size and any order in which rows are committed.

*Waitlist.*  The invariant of `WaitlistProofs` compares the writer's draft with what is
committed: every committed party is in it, as it was or swept (`Follows`), new ones
wait, and once the requested UPDATE has hit its row that one party has made the
move (`Granting`); a request that is about to write still holds a legal move from the status
it read.  `OneWinner` alone is not inductive, because a commit replaces the whole
database: only the draft's relation to it says that nothing else has moved.  From it
`Typing`, `NoDoubleWinner` and `FinalityHolds`.  `Implementation` reads the contract's parties off
the committed rows: only `Commit` changes them, and what it publishes keeps every
party, moves it legally or not at all, and adds parties that wait.  Nothing is assumed of the order in which
readers look and writers write.

A second invariant (`SInv`, `StoryInvariance`) follows what requests have read.  `Told`: the stamps of every
party, committed or drafted, agree with its status and ascend, and who was there before it stands
ahead.  `Knows`: what a request read may be old, but only forwards - a party it found overdue
had been called by the deadline it computed, and a party it will move joined before the time it
read.  `Sweeping`: a party found overdue is still on the list to be swept or finished in the writer's draft.
`Edited`: the draft's restaurant differs from the committed one in the fields of the edit.  `Later`: the
draft loses nobody and calls nobody back.  From it `StampsAgree`, `QueueIsFair`, `SweptBeforeAnswer` and
`EditsStayApart`.  `GuestAndStaffAgree` needs no history: the guest's position counts the
parties ahead, so positions are an injection of the parties in line onto 1..n that respects the
order, and the dashboard lists them in that order.

*Incident responder.*  The invariant of `IncidentResponderProofs` says that what a thread
answers for - the alert it is opening and the tasks it has scheduled - is reserved in
`_running`, and that two threads never answer for the same alert: `OneHandler` needs
the first half, because only the reservation keeps a second thread from taking
the alert up.  `NoSecondHandler` follows, and with the tasks' directories
`StatusIsWritten`: an incident without a final status has a handler ahead of it.

*City Journal.*  The invariant of `CityJournalProofs` says, besides types, that each place is what
its history says (`Kept`) and that the tags there are are the tags in use; a command about to save
has found an existing place.  `Kept` needs a lemma on `LastGiven`: appending what a visit
was given changes the last given value exactly as the UPDATE changes the row.
`FlagsKept` holds because the UPDATE is of the named columns of the row as it is committed,
not of the row that was loaded; `NoOrphans` because tags and place are written together.

`VisitsHit` adds what a visit has learnt from its queries (`LookInv`): places are only appended and
keep their names, so what a name meant when it was resolved it still means of the places there were.
`OddsAgree` rests on `WholeDays`: an age reaches a boundary of whole days exactly when the days
printed for it do.

`ReportsTellOneStory` needs a second invariant (`ReportInv`): what a report of `stats` in progress has
counted is still what the database holds if nothing was committed since (`quiet`), and otherwise no more
than it holds, because places are only added and never leave their neighborhood (`Grows`).  That the rows add up to the
total, and the rows of all spellings of a neighborhood to what a filter lists, is a lemma on sets split into groups (`GroupsAddUp`).

The three theorems on searching share what a ranking is (`Ranks`).  Texts, keys and the order of a ranking are linear (`TextOrder`, `KeyOrder`), and a
finite set with a linear order has one list (`ListThereIs`, `ListIsAll`); the models therefore say "sorted" as
`InOrder`, the enumeration of a set along an order, which is what a stable sort returns.  `SearchIsStrongOrClosest`: the strong matches are
a prefix of that list (`ResultsLead`).  `OrderIsThePlacesOwn`: two lists of the same places, sorted by score and key, have the same keys
place by place, because otherwise more places would come before one than there is room for (`SameRanks`) - so the order of the rows
does not matter, though several places may be equal in score and key - and the key says all that search reads of a place (`KeyTells`).
`NothingSaidCosts`: each factor is a fraction between 0 and 1 that grows to 1 when a field is blank (`RemainingOfLess`), products and the
final rounding keep that order (`ProductsOfMore`, `RoundedOfMore`), so saying less never raises a score (`ScoreOfLess`).

*The mock of the backend.*  Tabs may write over each other, so nothing relates what is stored to what a
tab has in hand.  The invariant of `MockTabsProofs` therefore says that each copy fits on its own - one login
for each restaurant, parties only where there is a restaurant - and that its tokens are among
those generated so far, which is what keeps a new token unique in any copy.  `AccountsFit` follows
whoever writes last.  Where tabs share a thread a second part (`Turn`) says that only one is not idle and its copy is
one move ahead of what is stored: `MockImplementsContract`.

*The guest's page.*  The invariant of `WaitPageProofs` says of every answer on its way and of what is shown: if
it says the party is finished, it is what the server says (`Stands`), because finished
parties do not change.  `EndingsAreTrue` follows, whatever the order of answers.

*Assumptions.*  Besides the types: `MockTabs` starts from a seed that fits; in `RelayListing` ids
compare as distinct numbers; in `CityJournal` `RECENT_DAYS < LONG_AGO_DAYS`, lowering a word twice is
lowering it once, and the likeness of two words is one of 0 to `SCALE`.

*Only model-checked.*  Liveness (`SilentWorkerLosesTask`, `EveryoneAnswered`, `RequestsEnd`,
`EveryIncidentEnds`, `PageCatchesUp`) is out of this prover's reach.  Every other property of the runs
that pass is stated by a theorem.

*Only proved.*  The single-process forms of `NeverExpiredEarly` (`LeasesRunOut`), `PositionsAgree`
(`GuestAndStaffAgree`) and `StatusIsLeft` (`StatusIsWritten`), and `TypeOK`, `AttemptsNumbered`, `FieldsMatchStatus` and the like, which
the invariants need.  The theorems hold for every instance.

## 5. Not modelled

Authentication, password hashing, validation, body limits and JSON shapes; seeding,
administration pages, migrations and deployment; the evidence queries and the
Order Tracker, which write one row at a time or only read; rendering.  The history page,
the accounts and the wait-time estimates of WaitWise.  In `Waitlist` the dashboard's several SELECTs
are one step.  In `WaitPage` the page stays on one token.  In `RelayListing` the
status filter and malformed cursors are left out.  In `CityJournal` the admin pages are
not used, and `add`'s warning about equal names is left out.  In
`IncidentResponder` the disk does not fail.  In `RelayWorker` waiting times and the credentials
file are left out.  Failures that the operating system decides (no memory, a full
disk) are not modelled anywhere.

## 6. Plan

Every safety property of the runs that pass is stated by a theorem.

Next, in this order:

1. Waitlist: the dashboard's separate reads, the history page, username races.
2. `WaitPage`: the staff's dashboard over the same hook.
3. Order Tracker: order creation and its status changes.
4. Proofs of the safety properties that come with them.
