----------------------------- MODULE MCWaitPage -----------------------------
(* WaitPage as TLC checks it: its constants are given in the configuration.  *)
EXTENDS WaitPage
=============================================================================
