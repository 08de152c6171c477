-------------------------- MODULE ScannerLifecycle --------------------------
(***************************************************************************)
(* What the life of a scanner promises to everybody who reads its status:  *)
(* the constraint of organizing_scanner (backend/apps/organizing/models.py *)
(* and constants.py) and the order the statuses are taken in.  Scanners    *)
(* implements it with all its requests and consumers; Mail uses it as the  *)
(* environment of the e-mail tasks.                                        *)
(***************************************************************************)
EXTENDS Naturals

CONSTANT MaxGeneration   \* bound on the temporary passwords of one account

VARIABLES status,      \* organizing_scanner.status, "NONE" before the invitation
          active,      \* identity_user.is_active of its account
          generation   \* identity_user.temporary_password_generation

PreActive == {"INVITED", "EMAIL_SENT", "OPENED"}
Team == {"ACTIVE", "LEAVE_REQUESTED"}
Terminal == {"INVITATION_CANCELLED", "DELETED"}
Statuses == PreActive \cup Team \cup Terminal

Init == status = "NONE" /\ active = FALSE /\ generation = 0

Invite ==
  /\ status = "NONE"
  /\ status' = "INVITED" /\ active' = TRUE /\ generation' = 1

\* The steps towards ACTIVE are taken in order, some may be left out.
Advance ==
  /\ \/ status = "INVITED" /\ status' = "EMAIL_SENT"
     \/ status \in {"INVITED", "EMAIL_SENT"} /\ status' = "OPENED"
     \/ status \in PreActive /\ status' = "ACTIVE"
  /\ UNCHANGED <<active, generation>>

RequestLeave ==
  /\ status = "ACTIVE" /\ status' = "LEAVE_REQUESTED"
  /\ UNCHANGED <<active, generation>>

RejectLeave ==
  /\ status = "LEAVE_REQUESTED" /\ status' = "ACTIVE"
  /\ UNCHANGED <<active, generation>>

\* A new temporary password.
Renew ==
  /\ status \in PreActive \cup Team /\ generation < MaxGeneration
  /\ generation' = generation + 1
  /\ UNCHANGED <<status, active>>

\* Whoever was in the team is DELETED; nothing comes after a removal.
Remove ==
  /\ \/ status \in PreActive /\ status' \in Terminal
     \/ status \in Team /\ status' = "DELETED"
  /\ active' = FALSE
  /\ UNCHANGED generation

Next == Invite \/ Advance \/ RequestLeave \/ RejectLeave \/ Renew \/ Remove

Spec == Init /\ [][Next]_<<status, active, generation>>
=============================================================================
