-------------------------------- MODULE MCOnce --------------------------------
(* What may happen once: the executions under one idempotency key, used by   *)
(* two sends of a request, a third with another body and a fourth on another *)
(* endpoint; and the tokens, codes and temporary passwords of one account,   *)
(* used by two requests at a time.                                           *)
(*                                                                           *)
(* The middleware and the account have no row in common, and the properties  *)
(* speak of one of them each: a behaviour moves one, its subject, while the  *)
(* other stands still.                                                       *)
EXTENDS Idempotency, Identity, TLC

CONSTANTS sent, resent, edited, elsewhere

VARIABLE subject

onceVars == <<vars, ivars, subject>>

MCEndpointOf == [r \in Requests |-> IF r = elsewhere THEN "payment-intent" ELSE "reservations"]
MCHashOf == [r \in Requests |-> IF r = edited THEN "y" ELSE "x"]
MCLogins == {<<"WEB", 0>>, <<"MOBILE", 1>>}
Symmetry == Permutations({sent, resent}) \cup Permutations(Workers)

OnceInit == Init /\ IdentityInit /\ subject \in {"key", "account"}

OnceNext ==
  /\ UNCHANGED subject
  /\ \/ subject = "key" /\ Next /\ UNCHANGED ivars
     \/ subject = "account" /\ IdentityNext /\ UNCHANGED vars

OnceSpec == OnceInit /\ [][OnceNext]_onceVars
=============================================================================
