---------------------------- MODULE MCOrganizing ----------------------------
(* The context of the organizers: two administrators who decide at the     *)
(* same time, two rates, one request to publish, two reactivations; one    *)
(* scanner whose temporary password is renewed once, two codes.            *)
(*                                                                         *)
(* The dossier and the scanner have no row in common, and the properties   *)
(* speak of one of them each: a behaviour moves one, its subject, while    *)
(* the other stands still.                                                 *)
EXTENDS Onboarding, Scanners

CONSTANTS a1, a2, p1

VARIABLE subject

orgVars == <<dossierVars, scannerVars, subject>>

Init ==
  /\ OnboardingInit /\ ScannersInit
  /\ subject \in {"dossier", "scanner"}
  /\ subject = "scanner" => org.status = "NONE"

Next ==
  /\ UNCHANGED subject
  /\ \/ subject = "dossier" /\ OnboardingNext /\ UNCHANGED scannerVars
     \/ subject = "scanner" /\ ScannersNext /\ UNCHANGED dossierVars

Spec == Init /\ [][Next]_orgVars /\ ScannersFairness
=============================================================================
