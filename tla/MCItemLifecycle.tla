---------------------------- MODULE MCItemLifecycle ----------------------------
(* Small instances of ItemLifecycle for TLC. *)
EXTENDS ItemLifecycle, TLC

CONSTANTS epic, feature, task

\* A chain of three work items, and the lower two of them.
Kinds == [i \in Items |-> CASE i = epic -> "Epic" [] i = feature -> "Feature"
                            [] OTHER -> "Task"]
Chain == [i \in Items |-> CASE i = task -> feature
                            [] i = feature /\ epic \in Items -> epic
                            [] OTHER -> None]

\* Processes are interchangeable.
Symmetry == Permutations(Workers)
===============================================================================
