------------------------ MODULE MCCatalogDiscovery ------------------------
(***************************************************************************)
(* CatalogDiscovery for TLC: two schemas, as model values.                 *)
(***************************************************************************)
EXTENDS CatalogDiscovery

CONSTANTS a, b
===========================================================================
