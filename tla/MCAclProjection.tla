-------------------------- MODULE MCAclProjection --------------------------
(***************************************************************************)
(* AclProjection on small instances: two access lists, one to three        *)
(* processes, a document of one or two batches.                            *)
(***************************************************************************)
EXTENDS AclProjection, TLC

CONSTANTS a1, a2

MCAcl == {a1, a2}

\* The two lists are interchangeable (safety runs only).
AclSymmetry == Permutations(MCAcl)
=============================================================================
