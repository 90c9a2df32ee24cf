----------------------------- MODULE MCCatalog -----------------------------
(* Two people, two SKUs, two products; one request fails.                 *)
EXTENDS Catalog, TLC

Symmetry == Permutations(Person) \cup Permutations(Sku)
=============================================================================
