----------------------------- MODULE MCOrdering -----------------------------
(* Small instances of Ordering: one event with two categories (or one), an *)
(* early and a late buyer, and the ways their handlers can overlap.        *)
EXTENDS Ordering, TLC

CONSTANTS o1, o2, i1, i2, w1, w2, e1, c1, c2

MCEventOf == [c \in Categories |-> e1]
MCQuota == [c \in Categories |-> IF c = c1 THEN 2 ELSE 1]
MCCapacity == [e \in Events |-> 4]

Basket(n, m) == [c \in Categories |-> IF c = c1 THEN n ELSE m]
MCBaskets == {Basket(2, 0), Basket(1, 1)}
WholeQuotaBaskets == {Basket(2, 0)}

\* On sale until 3, starts at 3, ends at 4.
MCInitialEvent ==
  [e \in Events |->
    [status |-> "PUBLISHED", starts_at |-> 3, ends_at |-> 4,
     sales_starts_at |-> NoDate, sales_ends_at |-> NoDate,
     postponed_to_starts_at |-> NoDate, postponed_to_ends_at |-> NoDate]]
MCSchedules == {[starts_at |-> 5, ends_at |-> 6]}

Symmetry == Permutations(Orders) \cup Permutations(Intents) \cup Permutations(Workers)
=============================================================================
