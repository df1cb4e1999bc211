------------------------- MODULE MCTaskCoordination -------------------------
(* Instances of TaskCoordination for TLC: one awaited peer and one delegated *)
(* child.                                                                    *)
EXTENDS TaskCoordination
=============================================================================
