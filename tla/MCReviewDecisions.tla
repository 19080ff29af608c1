-------------------------- MODULE MCReviewDecisions --------------------------
(* Small instances of ReviewDecisions for TLC. *)
EXTENDS ReviewDecisions

CONSTANTS s1, c1

OneServer == {s1}
OneCommand == {c1}
===============================================================================
