----------------------------- MODULE MCLineage -----------------------------
(***************************************************************************)
(* Lineage on small instances: one process for histories without overlap,  *)
(* two for races.                                                          *)
(***************************************************************************)
EXTENDS Lineage

CONSTANTS p1, p2
=============================================================================
