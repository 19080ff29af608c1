-------------------------- MODULE MCProductRelocation --------------------------
(* Small instances of ProductRelocation for TLC. *)
EXTENDS ProductRelocation

CONSTANTS a1, r1

OneApplier == {a1}
OneRecoverer == {r1}
===============================================================================
