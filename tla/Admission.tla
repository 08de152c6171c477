------------------------------ MODULE Admission ------------------------------
(***************************************************************************)
(* The door of one event: transfers and dynamic QR codes                   *)
(* (backend/apps/ticketing/services), admission sessions, scans, and the   *)
(* final report made when the event completes (backend/apps/access).       *)
(*                                                                         *)
(* A scan takes two steps: it checks the token against the clock, then     *)
(* locks the ticket row and the event row and decides; what is locked does *)
(* not change until it commits.  The other operations lock the event row,  *)
(* or the ticket row, and are one step each.                               *)
(*                                                                         *)
(* A definition named Bug_X is a plausible bug in the definition that      *)
(* follows it, for checking that the properties notice it.                 *)
(***************************************************************************)
EXTENDS Integers, FiniteSets

CONSTANTS Tickets, Fans, Scanners,
          OwnerAtFirst,  \* the buyer of each ticket
          InitialEvent,  \* the event row when its tickets are sold
          QrTTL,         \* QR_TTL_SECONDS
          MaxVersion,    \* bound on the transfers of a ticket
          MaxTime,       \* bound on the clock
          NoDate, Schedules, Nothing

INSTANCE CatalogLifecycle

ASSUME AdmissionAssumption ==
  /\ OwnerAtFirst \in [Tickets -> Fans]
  /\ QrTTL \in Nat /\ MaxVersion \in Nat \ {0} /\ MaxTime \in Nat
  /\ IsFiniteSet(Tickets)
  /\ InitialEvent \in EventRows /\ Schedules \subseteq [starts_at : Nat, ends_at : Nat]

VARIABLES now,
          event,      \* the catalog_event row
          session,    \* the start date the open admission session was opened for
          ticket,     \* rows of ticketing_ticket
          qr,         \* signed tokens that fans have been shown, not expired
          assigned,   \* scanners with an EventScannerAssignment that is not ended
          staff,      \* organizing's word on each scanner
          scan,       \* the token a scanner's request is being decided on
          admissions, \* rows of access_ticket_admission, with the bearer of the QR
          report      \* the access_event_final_report row

door == <<assigned, staff>>
vars == <<now, event, session, ticket, qr, door, scan, admissions, report>>

Init ==
  /\ now = 0
  /\ event = InitialEvent
  /\ session = Nothing
  /\ ticket = [t \in Tickets |-> [owner |-> OwnerAtFirst[t], version |-> 1, status |-> "VALID"]]
  /\ qr = {}
  /\ assigned = Scanners /\ staff = [s \in Scanners |-> "READY"]
  /\ scan = [s \in Scanners |-> Nothing]
  /\ admissions = {}
  /\ report = Nothing

With(status) == {t \in Tickets : ticket[t].status = status}

-----------------------------------------------------------------------------
Tick ==
  /\ now < MaxTime
  /\ now' = now + 1
  /\ qr' = {token \in qr : now' < token.expires_at}
  /\ UNCHANGED <<event, session, ticket, door, scan, admissions, report>>

ChangeStatus ==
  /\ \E s \in NextStatuses(event, now) : event' = [event EXCEPT !.status = s]
  /\ UNCHANGED <<now, session, ticket, qr, door, scan, admissions, report>>

Postpone ==
  /\ CanPostpone(event)
  /\ \E d \in AnnounceableSchedules(now) : event' = Postponed(event, d)
  /\ UNCHANGED <<now, session, ticket, qr, door, scan, admissions, report>>

\* A scanner who is not ready yet may be assigned; the row of the event is locked.
Assign(s) ==
  /\ event.status \in {"PUBLISHED", "POSTPONED"}
  /\ s \notin assigned /\ staff[s] # "AWAY"
  /\ assigned' = assigned \cup {s}
  /\ UNCHANGED <<now, event, session, ticket, qr, staff, scan, admissions, report>>

Unassign(s) ==
  /\ s \in assigned
  /\ assigned' = assigned \ {s}
  /\ UNCHANGED <<now, event, session, ticket, qr, staff, scan, admissions, report>>

\* organizing: READY is ACTIVE with a password of their own; INVITED has yet to get
\* there, for the first time or after a new temporary password; AWAY asked to leave
\* or is gone, but keeps the assignments.
ChangeStaff(s) ==
  /\ \E status \in {"READY", "INVITED", "AWAY"} \ {staff[s]} :
       staff' = [staff EXCEPT ![s] = status]
  /\ UNCHANGED <<now, event, session, ticket, qr, assigned, scan, admissions, report>>

-----------------------------------------------------------------------------
(* Ticketing. *)

ShowQr(t) ==
  /\ ticket[t].status = "VALID"
  /\ qr' = qr \cup {[ticket |-> t, version |-> ticket[t].version,
                     expires_at |-> now + QrTTL, bearer |-> ticket[t].owner]}
  /\ UNCHANGED <<now, event, session, ticket, door, scan, admissions, report>>

Bug_SameVersion(r, fan) == [r EXCEPT !.owner = fan]

\* The new owner's QR codes have a version of their own.
HandedTo(r, fan) == [r EXCEPT !.owner = fan, !.version = @ + 1]

TransferDeadline ==
  IF event.postponed_to_starts_at # NoDate THEN event.postponed_to_starts_at
                                           ELSE event.starts_at

Transfer(t, fan) ==
  /\ fan # ticket[t].owner
  /\ ticket[t].status = "VALID"
  /\ event.status \in {"PUBLISHED", "POSTPONED"}
  /\ now < TransferDeadline
  /\ ticket[t].version < MaxVersion
  /\ ticket' = [ticket EXCEPT ![t] = HandedTo(ticket[t], fan)]
  /\ UNCHANGED <<now, event, session, qr, door, scan, admissions, report>>

\* A refund of the cancelled event succeeds: void_valid_tickets_for_order_event.
Void(t) ==
  /\ event.status = "CANCELLED" /\ t \in With("VALID")
  /\ ticket' = [ticket EXCEPT ![t].status = "VOID"]
  /\ UNCHANGED <<now, event, session, qr, door, scan, admissions, report>>

-----------------------------------------------------------------------------
(* Admission sessions. *)

\* The schedule a session is opened for, scheduled_starts_at.
ScheduledStart == event.starts_at

Bug_OpenByDate == TRUE

EventCanOpenAdmission ==
  \/ event.status = "PUBLISHED"
  \/ event.status = "POSTPONED" /\ event.postponed_to_starts_at # NoDate
                                /\ event.postponed_to_ends_at # NoDate

AdmissionOpen == EventCanOpenAdmission /\ session = ScheduledStart

\* A session opened for another schedule is closed first.
OpenAdmission ==
  /\ EventCanOpenAdmission
  /\ session # ScheduledStart
  /\ session' = ScheduledStart
  /\ UNCHANGED <<now, event, ticket, qr, door, scan, admissions, report>>

CloseAdmission ==
  /\ session # Nothing
  /\ session' = Nothing
  /\ UNCHANGED <<now, event, ticket, qr, door, scan, admissions, report>>

Bug_CloseCurrentOnly == AdmissionOpen

SessionToClose == session # Nothing

\* EventCompletionAdmissionConsumer.
CloseAutomatically ==
  /\ event.status = "COMPLETED" /\ SessionToClose
  /\ session' = Nothing
  /\ UNCHANGED <<now, event, ticket, qr, door, scan, admissions, report>>

-----------------------------------------------------------------------------
(* POST /scan: admit_ticket_from_qr. *)

Scan(s) ==
  /\ scan[s] = Nothing
  /\ \E token \in qr : /\ now < token.expires_at
                       /\ scan' = [scan EXCEPT ![s] = token]
  /\ UNCHANGED <<now, event, session, ticket, qr, door, admissions, report>>

\* The checks under the locks.
Admissible(s) ==
  /\ ticket[scan[s].ticket].version = scan[s].version
  /\ AdmissionOpen
  /\ s \in assigned /\ staff[s] = "READY"
  /\ ticket[scan[s].ticket].status = "VALID"

Bug_StillValid(t) == ticket

Used(t) == [ticket EXCEPT ![t].status = "USED"]

\* At most one admission per ticket is also a constraint of the table.
Admit(s) ==
  /\ scan[s] # Nothing
  /\ LET t == scan[s].ticket
     IN  /\ Admissible(s)
         /\ ~\E a \in admissions : a.ticket = t
         /\ admissions' = admissions \cup {[ticket |-> t, scanner |-> s,
                            bearer |-> scan[s].bearer, owner |-> ticket[t].owner]}
         /\ ticket' = Used(t)
  /\ scan' = [scan EXCEPT ![s] = Nothing]
  /\ UNCHANGED <<now, event, session, qr, door, report>>

\* Any check fails, or the request dies: nothing is written.
Reject(s) ==
  /\ scan[s] # Nothing
  /\ scan' = [scan EXCEPT ![s] = Nothing]
  /\ UNCHANGED <<now, event, session, ticket, qr, door, admissions, report>>

-----------------------------------------------------------------------------
\* EventCompletionFinalReportConsumer, build_event_final_report.
BuildReport ==
  /\ event.status = "COMPLETED" /\ report = Nothing
  /\ report' = [sold   |-> Cardinality(Tickets),
                used   |-> Cardinality(With("USED")),
                voided |-> Cardinality(With("VOID")),
                absent |-> Cardinality(With("VALID"))]
  /\ UNCHANGED <<now, event, session, ticket, qr, door, scan, admissions>>

Next ==
  \/ Tick \/ ChangeStatus \/ Postpone
  \/ OpenAdmission \/ CloseAdmission \/ CloseAutomatically \/ BuildReport
  \/ \E t \in Tickets : ShowQr(t) \/ Void(t) \/ \E fan \in Fans : Transfer(t, fan)
  \/ \E s \in Scanners : Assign(s) \/ Unassign(s) \/ ChangeStaff(s)
                           \/ Scan(s) \/ Admit(s) \/ Reject(s)

Spec == Init /\ [][Next]_vars

\* The outbox delivers the completion to both consumers of access.
Fairness == WF_vars(CloseAutomatically) /\ WF_vars(BuildReport)
FairSpec == Spec /\ Fairness

-----------------------------------------------------------------------------
\* Whatever two scanners and two phones do with a ticket, it is USED exactly
\* when one person entered with it; a refunded ticket admitted nobody.  Who entered
\* owned it: a QR code shown before a transfer admits nobody afterwards, whatever
\* the order of the transfer and the scan.
UsedMeansAdmitted ==
  /\ \A t \in Tickets :
       LET entries == {a \in admissions : a.ticket = t} IN
         Cardinality(entries) = IF ticket[t].status = "USED" THEN 1 ELSE 0
  /\ \A a \in admissions : a.bearer = a.owner

\* The immutable report stays true: nobody enters, and no ticket is voided,
\* after the event completed.
ReportStaysTrue ==
  report # Nothing =>
    /\ report.used = Cardinality(admissions)
    /\ report.voided = Cardinality(With("VOID"))
    /\ report.used + report.voided + report.absent = report.sold

\* The doors of a completed event close by themselves.
CompletedEventsClose == event.status = "COMPLETED" ~> session = Nothing
=============================================================================
