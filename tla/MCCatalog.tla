------------------------------ MODULE MCCatalog ------------------------------
(* A small instance of Catalog: two ticket categories, two uploads. *)
EXTENDS Catalog, TLC

CONSTANTS c1, c2, p1, p2

MCSchedules == {[starts_at |-> 1, ends_at |-> 2], [starts_at |-> 2, ends_at |-> 3]}

Symmetry == Permutations(Categories) \cup Permutations(Puts)
=============================================================================
