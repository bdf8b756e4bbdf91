--------------------------- MODULE MCRelayListing ---------------------------
(* A small instance of RelayListing for TLC: two rows may be created in one  *)
(* microsecond, in one second or not.  The requests are interchangeable, so *)
(* one order of their ids stands for all.                                    *)
EXTENDS RelayListing

SomeOrder ==
  CHOOSE f \in [Request -> 1..Cardinality(Request)] : IsInjective(f)
=============================================================================
