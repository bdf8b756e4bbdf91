-------------------------- MODULE WaitlistContract --------------------------
(***************************************************************************)
(* What WaitWise promises about the parties of a waitlist, whichever        *)
(* service keeps it (module2/backend/app/rules.py; the frontend's           *)
(* domain/waitlist.ts states the same rules): parties join behind the       *)
(* others, waiting; nobody is ever lost; a status only moves forward, one   *)
(* legal move at a time, and a finished party stays as it is.               *)
(***************************************************************************)
EXTENDS Naturals, Sequences

VARIABLE party    \* the status of each party, by id

Active == {"WAITING", "NOTIFIED"}
Final == {"SEATED", "CANCELED", "NO_SHOW"}
WaitlistStatus == Active \cup Final

CanTransition(current, target) ==
  \/ current = "WAITING" /\ target \in {"NOTIFIED"} \cup Final
  \/ current = "NOTIFIED" /\ target \in Final

Init == party \in Seq(WaitlistStatus)

(* A change may come with no-shows, and with a party that joins.            *)
Change ==
  /\ party' \in Seq(WaitlistStatus)
  /\ DOMAIN party \subseteq DOMAIN party'
  /\ \A i \in DOMAIN party :
       party'[i] = party[i] \/ CanTransition(party[i], party'[i])
  /\ \A i \in DOMAIN party' \ DOMAIN party : party'[i] = "WAITING"

Spec == Init /\ [][Change]_party
=============================================================================
