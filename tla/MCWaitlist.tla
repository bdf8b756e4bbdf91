----------------------------- MODULE MCWaitlist -----------------------------
(* Small instances of Waitlist for TLC; the requests are interchangeable.   *)
EXTENDS Waitlist, TLC

Change(S) == [kind: {"change"}, status: S]
Read == [kind: {"read"}]
Join(S) == [kind: {"join"}, source: S]
Edit == [kind: {"edit"}, fields: [online_waitlist_enabled: {FALSE}]
                         \cup [is_active: {TRUE}, no_show_minutes: {2}]]

Queue == Read \cup Join({"ONLINE"}) \cup Change({"NOTIFIED", "SEATED"})
Settings == Edit \cup Join({"ONLINE"}) \cup Change({"NOTIFIED", "SEATED"})

TwoLimits == {1, 2}
OneLimit == {1}
Interchangeable == Permutations(Process)
=============================================================================
