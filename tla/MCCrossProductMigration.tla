----------------------- MODULE MCCrossProductMigration -----------------------
(* Small instances of CrossProductMigration for TLC. *)
EXTENDS CrossProductMigration

CONSTANTS p1, item, reader

OneProc == {p1}
==============================================================================
