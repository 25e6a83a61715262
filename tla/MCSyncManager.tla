--------------------------- MODULE MCSyncManager ---------------------------
(* Symmetry for the safety runs of SyncManager: threads and sync ids are   *)
(* interchangeable.  Instances are numbers and are not.                    *)
EXTENDS SyncManager, TLC

Symmetry == Permutations(Callers) \union Permutations(SyncIds)
=============================================================================
