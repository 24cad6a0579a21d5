------------------------- MODULE MCGraphTraversal -------------------------
(***************************************************************************)
(* GraphTraversal for TLC: every graph of three nodes and up to three      *)
(* edges of two types of different priority; u and v are interchangeable.  *)
(***************************************************************************)
EXTENDS GraphTraversal, TLC

CONSTANTS s, u, v

Interchangeable == Permutations({u, v})
===========================================================================
