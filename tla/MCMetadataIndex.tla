---------------------------- MODULE MCMetadataIndex ----------------------------
(* Small instances of MetadataIndex for TLC. *)
EXTENDS MetadataIndex, TLC

CONSTANTS w1, w2

\* Sources are interchangeable.
Symmetry == Permutations(Sources)

MutatorAndReader == [w \in Workers |-> IF w = w1 THEN {"write", "rebuild", "doctor"}
                                                ELSE {"query"}]
RemoverAndWriter == [w \in Workers |-> IF w = w1 THEN {"delete", "rebuild"}
                                                ELSE {"write"}]
===============================================================================
