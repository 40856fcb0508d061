---------------------------- MODULE MCTaskGraph ----------------------------
(***************************************************************************)
(* A small graph for TLC: a continuation of the promise's future, and two  *)
(* continuations of its own future, which is shared.                       *)
(***************************************************************************)
EXTENDS TaskGraph

MCParent == <<0, 1, 1>>
=============================================================================
