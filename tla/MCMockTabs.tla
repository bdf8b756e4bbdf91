----------------------------- MODULE MCMockTabs -----------------------------
(* A small instance of MockTabs for TLC: one restaurant with a party in      *)
(* line, its staff (user 2), the administrator (user 1), one more restaurant. *)
EXTENDS MockTabs, TLC

SeedDb ==
  [user |-> <<[username |-> "admin", restaurant |-> 0], [username |-> "bluebird", restaurant |-> 1]>>,
   restaurant |-> <<[is_active |-> TRUE, online |-> TRUE, no_show_minutes |-> 1]>>,
   entry |-> <<[restaurant |-> 1, token |-> 1, status |-> "WAITING", notified_at |-> NULL]>>]

AllCalls ==
  [kind: {"read"}]
    \cup [kind: {"join"}, restaurant: {1}] \cup [kind: {"walk-in"}, as: {2}]
    \cup [kind: {"cancel"}, token: {1, 2}]
    \cup [kind: {"status"}, as: {2}, id: {1}, status: {"NOTIFIED", "SEATED"}]
    \cup [kind: {"settings"}, as: {2}, online: {FALSE}]
    \cup [kind: {"create"}, as: {1}, username: {"oakember"}, no_show_minutes: {1},
           is_active: {TRUE}]
    \cup [kind: {"update"}, as: {1}, restaurant: {1}, username: {"oakember", "bluebird"},
           no_show_minutes: {1}, is_active: {TRUE}]
    \cup [kind: {"activate"}, as: {1}, restaurant: {1}, is_active: {FALSE}]

Interchangeable == Permutations(Tab)
=============================================================================
