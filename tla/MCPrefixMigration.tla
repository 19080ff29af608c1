-------------------------- MODULE MCPrefixMigration --------------------------
(* Small instances of PrefixMigration for TLC. *)
EXTENDS PrefixMigration

CONSTANTS p1, p2, Anna, Otto, ref, source, target

OneProc == {p1}
ByEach == [p \in Procs |-> IF p = p1 THEN Anna ELSE Otto]
OneRename == [s \in {source} |-> target]
==============================================================================
