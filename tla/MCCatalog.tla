------------------------------- MODULE MCCatalog -------------------------------
(* A connection of an earlier launch, perhaps in a group of one, ids for two more *)
(* connections, and operations that overlap the first loading and each other.    *)
EXTENDS Catalog
=============================================================================
