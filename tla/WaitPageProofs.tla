--------------------------- MODULE WaitPageProofs ---------------------------
(***************************************************************************)
(* Proofs about WaitPage, for any number of requests, changes and failures: *)
(* what says that a party is finished cannot be out of date, on its way or   *)
(* on the page.                                                             *)
(***************************************************************************)
EXTENDS WaitPage, TLAPS

View == [status: Active \cup Final, changes: Nat]

(* What a request asks, and what can have been answered.                    *)
Asked ==
  [asks: {"load"}, answer: View \cup {NULL}]
    \cup [asks: {"cancel"}, answer: View \cup {NULL, Refused}]
    \cup [asks: {NULL}, answer: {NULL}]

TypeOK ==
  /\ server \in View
  /\ request \in [Request -> Asked]
  /\ page \in [data: View \cup {NULL}, error: BOOLEAN,
               status: Active \cup Final \cup {NULL}, leaving: BOOLEAN]

(* An ending the server told is the one there is: finished parties stay.    *)
Stands(view, party) == view # NULL /\ view.status \in Final => view = party

(* That holds of what is shown, and of every answer on its way.             *)
IInv ==
  /\ TypeOK
  /\ Stands(page.data, server)
  /\ \A r \in Request : Stands(request[r].answer, server)

LEMMA InitInv == Init => IInv
<1> SUFFICES ASSUME Init PROVE IInv
  OBVIOUS
<1>1. PICK first \in Request :
        request = [r \in Request |-> IF r = first THEN Asking("load") ELSE Unused]
  BY DEF Init
<1>2. \A r \in Request : request[r] \in Asked /\ request[r].answer = NULL
  BY <1>1 DEF Asking, Unused, Asked
<1>3. server \in View /\ page.data = NULL
  BY DEF Init, View, Active
<1>4. TypeOK
  BY <1>1, <1>2, <1>3 DEF TypeOK, Init
<1>5. QED
  BY <1>2, <1>3, <1>4 DEF IInv, Stands

(* The server's next view of the party.                                     *)
LEMMA EndingsStay ==
  ASSUME IInv, NEW view \in View, server' = view,
         view # server => server.status \notin Final
  PROVE  /\ server' \in View
         /\ \A old : Stands(old, server) => Stands(old, server')
BY DEF IInv, TypeOK, Stands

(* A request is asked or done with, and the page shows what it showed or     *)
(* the answer.                                                              *)
LEMMA PageGoesOn ==
  ASSUME IInv, NEW r \in Request, NEW a \in Asked, Stands(a.answer, server),
         request' = [request EXCEPT ![r] = a], server' = server,
         page' \in [data: View \cup {NULL}, error: BOOLEAN,
                    status: Active \cup Final \cup {NULL}, leaving: BOOLEAN],
         page'.data = page.data \/ page'.data = request[r].answer
  PROVE  IInv'
<1>1. request \in [Request -> Asked] /\ server \in View
  BY DEF IInv, TypeOK
<1>2. request' \in [Request -> Asked] /\ \A s \in Request : s # r => request'[s] = request[s]
  BY <1>1
<1>3. request'[r] = a
  BY <1>1
<1>4. TypeOK'
  BY <1>1, <1>2 DEF TypeOK
<1>5. QED
  BY <1>2, <1>3, <1>4 DEF IInv, Stands

LEMMA Inductive ==
  ASSUME IInv, [Next]_(vars)
  PROVE  IInv'
<1>1. /\ server \in View
      /\ \A r \in Request : request[r] \in Asked /\ Stands(request[r].answer, server)
      /\ request \in [Request -> Asked]
      /\ page \in [data: View \cup {NULL}, error: BOOLEAN,
                   status: Active \cup Final \cup {NULL}, leaving: BOOLEAN]
  BY DEF IInv, TypeOK
<1>2. ASSUME NEW status \in Active \cup Final, ServerChanges(status)
      PROVE  IInv'
  <2>1. /\ server' = [status |-> status, changes |-> server.changes + 1]
        /\ request' = request /\ page' = page /\ server.status \notin Final
    BY <1>1, <1>2 DEF ServerChanges, CanTransition, Final, Active
  <2>2. [status |-> status, changes |-> server.changes + 1] \in View
    BY <1>1 DEF View
  <2>3. server' \in View /\ \A old : Stands(old, server) => Stands(old, server')
    BY <2>1, <2>2, EndingsStay
  <2>4. QED
    BY <2>1, <2>3 DEF IInv, TypeOK
<1>3. ASSUME NEW r \in Request, Serve(r)
      PROVE  IInv'
  <2> DEFINE cancels == request[r].asks = "cancel" /\ server.status \in Active
             view == IF cancels THEN [server EXCEPT !.status = "CANCELED"] ELSE server
             answer == IF request[r].asks = "load" \/ cancels THEN view ELSE Refused
  <2>1. /\ server' = view /\ request' = [request EXCEPT ![r].answer = answer] /\ page' = page
        /\ request[r].asks # NULL
    BY <1>3 DEF Serve
  <2>2. view \in View /\ (view # server => server.status \notin Final)
    BY <1>1 DEF View, Active, Final
  <2> HIDE DEF view, cancels
  <2>3. server' \in View /\ \A old : Stands(old, server) => Stands(old, server')
    BY <2>1, <2>2, EndingsStay
  <2>4. answer \in View \cup {Refused} /\ (request[r].asks = "load" => answer \in View)
    BY <2>2
  <2>5. answer = Refused \/ answer = server'
    BY <2>1
  <2> HIDE DEF answer
  <2>6. Stands(answer, server')
    BY <2>5 DEF Stands, Refused, Final
  <2>7. [request[r] EXCEPT !.answer = answer] \in Asked
    BY <1>1, <2>1, <2>4 DEF Asked
  <2>8. request' \in [Request -> Asked]
    BY <1>1, <2>1, <2>7
  <2>9. \A s \in Request : Stands(request'[s].answer, server')
    <3>1. request'[r].answer = answer
      BY <1>1, <2>1 DEF Asked
    <3>2. \A s \in Request : s # r => request'[s] = request[s]
      BY <1>1, <2>1
    <3>3. QED
      BY <1>1, <2>3, <2>6, <3>1, <3>2 DEF Stands
  <2>10. QED
    BY <2>1, <2>3, <2>8, <2>9 DEF IInv, TypeOK
(* Asking again, or being done with it.                                     *)
<1>4. /\ Unused \in Asked /\ Stands(Unused.answer, server)
      /\ \A what \in {"load", "cancel"} :
           Asking(what) \in Asked /\ Stands(Asking(what).answer, server)
  BY DEF Unused, Asking, Asked, Stands
<1>5. ASSUME NEW r \in Request, Poll(r) \/ HandleLeave(r)
      PROVE  IInv'
  <2>1. /\ server' = server
        /\ \E what \in {"load", "cancel"} :
             request' = [request EXCEPT ![r] = Asking(what)]
        /\ page' = page \/ page' = [page EXCEPT !.leaving = TRUE]
    BY <1>5 DEF Poll, HandleLeave
  <2>2. QED
    BY <1>1, <1>4, <2>1, PageGoesOn
<1>6. ASSUME NEW r \in Request, Loaded(r) \/ Left(r)
      PROVE  IInv'
  <2>1. /\ server' = server /\ request' = [request EXCEPT ![r] = Unused]
        /\ request[r].answer \in View
        /\ \/ page' = Show(request[r].answer)
           \/ page' = [Show(request[r].answer) EXCEPT !.leaving = FALSE]
    BY <1>1, <1>6 DEF Loaded, Left, Asked
  <2>2. /\ page' \in [data: View \cup {NULL}, error: BOOLEAN,
                      status: Active \cup Final \cup {NULL}, leaving: BOOLEAN]
        /\ page'.data = request[r].answer
    BY <1>1, <2>1 DEF Show, View
  <2>3. QED
    BY <1>1, <1>4, <2>1, <2>2, PageGoesOn
<1>7. ASSUME NEW r \in Request, LeaveRefused(r) \/ Fail(r)
      PROVE  IInv'
  <2>1. /\ server' = server
        /\ \/ request' = [request EXCEPT ![r] = Asking("load")]
           \/ request' = [request EXCEPT ![r] = Unused]
        /\ page' = [page EXCEPT !.leaving = FALSE] \/ page' = [page EXCEPT !.error = TRUE]
    BY <1>7 DEF LeaveRefused, Fail, LeaveFailed
  <2>2. QED
    BY <1>1, <1>4, <2>1, PageGoesOn
<1>8. CASE UNCHANGED vars
  BY <1>8 DEF vars, IInv, TypeOK, Stands
<1>9. QED
  BY <1>2, <1>3, <1>5, <1>6, <1>7, <1>8 DEF Next

(* However the page's requests overlap, fail or are overtaken: it never says *)
(* that a party is finished when it is not, or in another way than it is    *)
(* (WaitStatusPage.tsx).                                                    *)
THEOREM EndingsAreTrue == Spec => []FinishIsTrue
<1>1. IInv => FinishIsTrue
  BY DEF IInv, Stands, FinishIsTrue
<1>2. QED
  BY <1>1, InitInv, Inductive, PTL DEF Spec
=============================================================================
