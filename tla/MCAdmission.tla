----------------------------- MODULE MCAdmission -----------------------------
(* Small instances of Admission: one ticket, two fans, two scanners. *)
EXTENDS Admission, TLC

CONSTANTS t1, alice, bob, s1, s2

MCOwner == [t \in Tickets |-> alice]

\* Starts at 1, ends at 2; it may be moved to 2, or back to 1.
MCInitialEvent ==
  [status |-> "PUBLISHED", starts_at |-> 1, ends_at |-> 2,
   sales_starts_at |-> NoDate, sales_ends_at |-> NoDate,
   postponed_to_starts_at |-> NoDate, postponed_to_ends_at |-> NoDate]
MCSchedules == {[starts_at |-> 1, ends_at |-> 2], [starts_at |-> 2, ends_at |-> 3]}

Symmetry == Permutations(Scanners)
=============================================================================
