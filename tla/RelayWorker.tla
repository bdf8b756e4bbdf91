----------------------------- MODULE RelayWorker -----------------------------
(***************************************************************************)
(* Workers of the relay (module3/worker.py) and the relay itself: long     *)
(* polling, the heartbeat loop beside the work, the repeated submission,   *)
(* over a network that loses requests and answers and lets the server see  *)
(* a request long after its worker gave it up.                             *)
(*                                                                         *)
(* The answer 204 and the transient statuses of a claim (429, 5xx) leave   *)
(* the worker where it is; times to the next attempt are not modelled, nor *)
(* are --stop-after and the credentials file.  `loop` is whether the       *)
(* heartbeat loop of the claim in hand still runs.                         *)
(***************************************************************************)
EXTENDS AgentRelay

CONSTANTS
  Worker,     \* worker processes
  Identity,   \* the agent each of them works for
  Upper,      \* the output of each input (str.upper)
  Tries       \* how often submit_terminal sends a result

ASSUME WorkerAssumption ==
  /\ Identity \in [Worker -> Agent]
  /\ Upper \in [Input -> Payload]
  /\ Tries \in Nat \ {0}

VARIABLES
  worker,    \* what each worker process is doing
  late,      \* requests given up by their worker that may still arrive
  counted    \* history: claims whose worker was told 200 for the result

wvars == <<worker, late, counted>>
allvars == <<vars, wvars>>

Busy == {"working", "submitting"}
Claiming == [step |-> "claiming", token |-> NULL, loop |-> FALSE, tries |-> 0]
Exited(n) == [step |-> "exited", token |-> NULL, loop |-> FALSE, tries |-> n]

WorkerState == [step: {"claiming", "killed", "exited"} \cup Busy,
                token: Token \cup {NULL}, loop: BOOLEAN, tries: 0..Tries]
Request == [kind: {"heartbeat", "complete"}, agent: Agent, token: Token]

WInit ==
  /\ Init
  /\ worker = [w \in Worker |-> Claiming]
  /\ late = {}
  /\ counted = {}

Become(w, state) == worker' = [worker EXCEPT ![w] = state]
Holding(w) == worker[w].token[1]          \* the task a busy worker works on
Output(t) == Upper[task[t].input]

-----------------------------------------------------------------------------
(* Claims.  No exception of the claim request is caught: a worker that     *)
(* gets no answer exits.                                                   *)

ClaimAnswered(w, t) ==
  /\ worker[w].step = "claiming"
  /\ Claim(Identity[w], t)
  /\ Become(w, [step |-> "working", token |-> NewAttempt(t).claim_token,
                loop |-> TRUE, tries |-> 0])
  /\ UNCHANGED <<late, counted>>

ClaimEmpty(w) ==
  /\ worker[w].step = "claiming"
  /\ ClaimNothing(Identity[w]) \/ \E t \in TaskId : ClaimExhausted(Identity[w], t)
  /\ UNCHANGED wvars

ClaimLost(w) ==
  /\ worker[w].step = "claiming"
  /\ \/ \E t \in TaskId : Claim(Identity[w], t)
     \/ UNCHANGED vars
  /\ Become(w, Exited(0))
  /\ UNCHANGED <<late, counted>>

-----------------------------------------------------------------------------
(* The heartbeat loop: it ends at the first answer that is not 200.        *)

Beating(w) == worker[w].step \in Busy /\ worker[w].loop

(* The answer may be lost: the loop goes on either way.                    *)
Renew(w) ==
  /\ Beating(w)
  /\ Heartbeat(Holding(w), Identity[w], worker[w].token)
  /\ UNCHANGED wvars

RenewLate(w) ==
  /\ Beating(w)
  /\ late' = late \cup {[kind |-> "heartbeat", agent |-> Identity[w], token |-> worker[w].token]}
  /\ UNCHANGED <<vars, worker, counted>>

RenewRefused(w) ==
  /\ Beating(w)
  /\ HeartbeatReply(Holding(w), Identity[w], worker[w].token) # "ok"
  /\ Become(w, [worker[w] EXCEPT !.loop = FALSE])
  /\ UNCHANGED <<vars, late, counted>>

(* 429 or 5xx: the relay is overloaded or its database is away.            *)
RenewUnavailable(w) ==
  /\ Beating(w)
  /\ Become(w, [worker[w] EXCEPT !.loop = FALSE])
  /\ UNCHANGED <<vars, late, counted>>

-----------------------------------------------------------------------------
(* The result.                                                             *)

Finish(w) ==
  /\ worker[w].step = "working"
  /\ Become(w, [worker[w] EXCEPT !.step = "submitting"])
  /\ UNCHANGED <<vars, late, counted>>

(* The relay handles a submission: it is accepted, or was before.          *)
Complete(a, token) ==
  LET t == token[1] IN
  \/ CommitTerminal(t, a, token, "complete", Output(t))
  \/ RepeatTerminal(t, a, token, "complete", Output(t))

Refused(a, token) ==
  TerminalReply(token[1], a, token, "complete", Output(token[1]))
    \in {"stale_claim", "conflicting_terminal"}

SubmitAnswered(w) ==
  /\ worker[w].step = "submitting"
  /\ Complete(Identity[w], worker[w].token)
  /\ counted' = counted \cup {worker[w].token}
  /\ Become(w, Claiming)
  /\ UNCHANGED late

(* Fault form: a conflict is taken for an earlier success.                 *)
SubmitRefusedCounted(w) ==
  /\ worker[w].step = "submitting"
  /\ Refused(Identity[w], worker[w].token)
  /\ counted' = counted \cup {worker[w].token}
  /\ Become(w, Claiming)
  /\ UNCHANGED <<vars, late>>

(* 409: somebody else has, or will get, the task.                          *)
SubmitRefused(w) ==
  /\ worker[w].step = "submitting"
  /\ Refused(Identity[w], worker[w].token)
  /\ Become(w, Claiming)
  /\ UNCHANGED <<vars, late, counted>>

(* Another try after a lost request, a lost answer, a timeout or a         *)
(* transient status; after the last one the worker exits.                  *)
TryAgain(w) ==
  LET n == worker[w].tries + 1 IN
  Become(w, IF n < Tries THEN [worker[w] EXCEPT !.tries = n]
            ELSE Exited(n))

SubmitLost(w) ==
  /\ worker[w].step = "submitting"
  /\ UNCHANGED vars \/ Complete(Identity[w], worker[w].token)
  /\ TryAgain(w)
  /\ UNCHANGED <<late, counted>>

SubmitLate(w) ==
  /\ worker[w].step = "submitting"
  /\ late' = late \cup {[kind |-> "complete", agent |-> Identity[w], token |-> worker[w].token]}
  /\ TryAgain(w)
  /\ UNCHANGED <<vars, counted>>

(* A request its worker no longer waits for reaches the relay.             *)
Arrive(m) ==
  /\ late' = late \ {m}
  /\ \/ m.kind = "heartbeat" /\ Heartbeat(m.token[1], m.agent, m.token)
     \/ m.kind = "complete" /\ Complete(m.agent, m.token)
  /\ UNCHANGED <<worker, counted>>

Lose(m) ==
  /\ late' = late \ {m}
  /\ UNCHANGED <<vars, worker, counted>>

-----------------------------------------------------------------------------
Kill(w) ==
  /\ worker[w].step \in {"claiming"} \cup Busy
  /\ Become(w, [Claiming EXCEPT !.step = "killed"])
  /\ UNCHANGED <<vars, late, counted>>

(* Somebody runs the command again, with the saved credentials.            *)
StartAgain(w) ==
  /\ worker[w].step \in {"killed", "exited"}
  /\ Become(w, Claiming)
  /\ UNCHANGED <<vars, late, counted>>

(* Senders, the recovery loop, the clock, a restart of the relay.          *)
Elsewhere ==
  /\ \/ \E a \in Agent : Register(a)
     \/ \E s, r \in Agent, in \in Input, k \in Key \cup {NoKey} : CreateTask(s, r, in, k)
     \/ Recover
     \/ Tick
     \/ Restart
  /\ UNCHANGED wvars

WNext ==
  \/ \E w \in Worker :
       \/ \E t \in TaskId : ClaimAnswered(w, t)
       \/ ClaimEmpty(w)
       \/ ClaimLost(w)
       \/ Renew(w)
       \/ RenewLate(w)
       \/ RenewRefused(w)
       \/ RenewUnavailable(w)
       \/ Finish(w)
       \/ SubmitAnswered(w)
       \/ SubmitRefused(w)
       \/ SubmitLost(w)
       \/ SubmitLate(w)
       \/ Kill(w)
       \/ StartAgain(w)
  \/ \E m \in late : Arrive(m) \/ Lose(m)
  \/ Elsewhere

WSpec == WInit /\ [][WNext]_allvars

-----------------------------------------------------------------------------
(* Properties.                                                             *)

(* Every worker and request is of its kind.                                *)
WTypeOK ==
  /\ worker \in [Worker -> WorkerState]
  /\ late \subseteq Request
  /\ counted \subseteq Token

(* What a worker counts as completed is what the task's sender reads, as    *)
(* the result of the very claim it was done under; so no task is counted by *)
(* two workers, though two may have executed it.                            *)
CountedIsStored ==
  \A token \in counted :
    LET t == token[1] IN
    /\ task[t].status = "completed" /\ task[t].output = Output(t)
    /\ Last(t).claim_token = token

(* Two workers never hold claims on one task that are both still live       *)
(* (acceptance scenario 3, SPEC.md:213).                                    *)
NoOverlap ==
  \A v, w \in Worker :
    LET Active(x) == /\ worker[x].step \in Busy
                     /\ \E i \in Held(Holding(x), worker[x].token) : Live(Holding(x), i) IN
    Active(v) /\ Active(w) /\ Holding(v) = Holding(w) => v = w

=============================================================================
