----------------------------- MODULE MCItemCreate -----------------------------
(* Small instances of ItemCreate for TLC. *)
EXTENDS ItemCreateProofs, TLC

CONSTANTS r1, r2, c1, c2

\* Each client in a worktree of its own, or both in one checkout.
OneRootEach == [c \in Clients |-> IF c = c1 THEN r1 ELSE r2]
AllInOne    == [c \in Clients |-> r1]
===============================================================================
