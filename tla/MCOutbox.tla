------------------------------ MODULE MCOutbox ------------------------------
(* Small instances of Outbox: three events, the first one with two consumers. *)
EXTENDS Outbox

CONSTANTS report, email

MCRegistry == [e \in Events |-> IF e = 1 THEN <<report, email>> ELSE <<email>>]
MCBackoff == <<1, 2>>
=============================================================================
