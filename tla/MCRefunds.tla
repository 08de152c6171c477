------------------------------ MODULE MCRefunds ------------------------------
(* Small instances of Refunds: two payments and two Celery workers.        *)
EXTENDS Refunds, TLC

CONSTANTS w1, w2

Symmetry == Permutations(Workers)
=============================================================================
