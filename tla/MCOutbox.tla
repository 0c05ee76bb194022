----------------------------- MODULE MCOutbox -----------------------------
(***************************************************************************)
(* Outbox on three rows, a sweep and a nudge.  Two rows are malformed, as  *)
(* many as a batch holds, and the build that nudges has no handler for one *)
(* of them.                                                                *)
(***************************************************************************)
EXTENDS Outbox, TLC

CONSTANTS e1, e2, e3, s1, n1

\* A rolling update: the nudge is of a build without a handler for e3.
Mixed == [d \in Dispatchers |-> IF d = n1 THEN Events \ {e3} ELSE Events]
=============================================================================
