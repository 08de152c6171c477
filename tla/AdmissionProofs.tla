-------------------------- MODULE AdmissionProofs --------------------------
(* Proofs about Admission, for any number of tickets, fans and scanners, any  *)
(* event, and any interleaving of transfers, scans and the organizer's edits. *)
EXTENDS Admission, TLAPS, FiniteSetTheorems

Rows == [owner : Fans, version : Nat, status : {"VALID", "USED", "VOID"}]
Tokens == [ticket : Tickets, version : Nat, expires_at : Nat, bearer : Fans]
Entries == [ticket : Tickets, scanner : Scanners, bearer : Fans, owner : Fans]

TypeOK ==
  /\ now \in Nat
  /\ event \in EventRows
  /\ session \in Nat \cup {Nothing}
  /\ ticket \in [Tickets -> Rows]
  /\ qr \in SUBSET Tokens
  /\ assigned \in SUBSET Scanners
  /\ staff \in [Scanners -> {"READY", "INVITED", "AWAY"}]
  /\ scan \in [Scanners -> Tokens \cup {Nothing}]
  /\ admissions \in SUBSET Entries

\* A QR code of the present version shows the present owner; a transfer gives the
\* ticket a version that no code has yet.
Tells(token) ==
  /\ token.version <= ticket[token.ticket].version
  /\ token.version = ticket[token.ticket].version => token.bearer = ticket[token.ticket].owner

QrOK ==
  /\ \A token \in qr : Tells(token)
  /\ \A s \in Scanners : scan[s] # Nothing => Tells(scan[s])

\* A ticket is USED when someone entered with it, once.
EntriesOK ==
  /\ \A a \in admissions : ticket[a.ticket].status = "USED" /\ a.bearer = a.owner
  /\ \A t \in Tickets : ticket[t].status = "USED" => \E a \in admissions : a.ticket = t
  /\ \A a, b \in admissions : a.ticket = b.ticket => a = b

\* The report was made of a completed event, whose tickets are as they were then.
ReportOK ==
  report # Nothing =>
    /\ event.status = "COMPLETED"
    /\ report = [sold   |-> Cardinality(Tickets),
                 used   |-> Cardinality(With("USED")),
                 voided |-> Cardinality(With("VOID")),
                 absent |-> Cardinality(With("VALID"))]

IInv == TypeOK /\ QrOK /\ EntriesOK /\ ReportOK

-----------------------------------------------------------------------------
LEMMA InitIInv == Init => IInv
<1> SUFFICES ASSUME Init PROVE IInv
  OBVIOUS
<1> USE AdmissionAssumption
<1>1. TypeOK
  BY DEF Init, TypeOK, Rows
<1>2. QrOK /\ EntriesOK /\ ReportOK
  BY DEF Init, QrOK, EntriesOK, ReportOK
<1> QED
  BY <1>1, <1>2 DEF IInv

\* The organizer's operations keep the event a row, and a completed one completed.
LEMMA EventSteps ==
  ASSUME TypeOK, ChangeStatus \/ Postpone
  PROVE  event' \in EventRows /\ event.status # "COMPLETED"
<1>1. CASE ChangeStatus
  <2>1. PICK s \in NextStatuses(event, now) : event' = [event EXCEPT !.status = s]
    BY <1>1 DEF ChangeStatus
  <2>2. s \in EventStatuses /\ event.status # "COMPLETED"
    BY <2>1 DEF NextStatuses, CanBeCompleted
  <2> QED
    BY <2>1, <2>2 DEF TypeOK, EventRows
<1>2. CASE Postpone
  <2>1. PICK d \in AnnounceableSchedules(now) : event' = Postponed(event, d)
    BY <1>2 DEF Postpone
  <2>2. d = NoSchedule \/ d \in [starts_at : Nat, ends_at : Nat]
    BY <2>1, AdmissionAssumption DEF AnnounceableSchedules
  <2>3. event.starts_at \in Nat /\ event.ends_at \in Nat
    BY DEF TypeOK, EventRows
  <2>4. d.starts_at \in Nat \cup {NoDate} /\ d.ends_at \in Nat \cup {NoDate}
    BY <2>2 DEF NoSchedule
  <2>5. /\ (IF d = NoSchedule THEN event.starts_at ELSE d.starts_at) \in Nat
        /\ (IF d = NoSchedule THEN event.ends_at ELSE d.ends_at) \in Nat
    BY <2>2, <2>3
  <2>6. "POSTPONED" \in EventStatuses
    BY DEF EventStatuses
  <2>7. event' \in EventRows
    BY <2>1, <2>4, <2>5, <2>6 DEF Postponed, TypeOK, EventRows
  <2> QED
    BY <1>2, <2>7 DEF Postpone, CanPostpone
<1> QED
  BY <1>1, <1>2

\* A transfer changes one ticket only, and its version grows.
LEMMA TransferSteps ==
  ASSUME TypeOK, NEW t \in Tickets, NEW fan \in Fans, Transfer(t, fan)
  PROVE  /\ ticket' \in [Tickets -> Rows]
         /\ ticket[t].status = "VALID" /\ ticket'[t].status = "VALID"
         /\ ticket'[t].version = ticket[t].version + 1
         /\ \A u \in Tickets \ {t} : ticket'[u] = ticket[u]
<1>1. ticket[t] \in Rows
  BY DEF TypeOK
<1>2. HandedTo(ticket[t], fan) \in Rows
  <2>1. ticket[t].version + 1 \in Nat
    BY <1>1 DEF Rows
  <2> QED
    BY <1>1, <2>1 DEF HandedTo, Rows
<1>3. ticket' = [ticket EXCEPT ![t] = HandedTo(ticket[t], fan)] /\ ticket[t].status = "VALID"
  BY DEF Transfer
<1>4. /\ HandedTo(ticket[t], fan).status = ticket[t].status
      /\ HandedTo(ticket[t], fan).version = ticket[t].version + 1
  BY <1>1 DEF HandedTo, Rows
<1> QED
  BY <1>2, <1>3, <1>4 DEF TypeOK

\* An admission uses one valid ticket of an open event.
LEMMA AdmitSteps ==
  ASSUME TypeOK, NEW s \in Scanners, Admit(s)
  PROVE  /\ scan[s] \in Tokens
         /\ ticket' \in [Tickets -> Rows]
         /\ ticket'[scan[s].ticket].status = "USED"
         /\ \A u \in Tickets \ {scan[s].ticket} : ticket'[u] = ticket[u]
         /\ \A u \in Tickets : /\ ticket'[u].version = ticket[u].version
                              /\ ticket'[u].owner = ticket[u].owner
         /\ admissions' = admissions \cup {[ticket |-> scan[s].ticket, scanner |-> s,
                 bearer |-> scan[s].bearer, owner |-> ticket[scan[s].ticket].owner]}
         /\ admissions' \in SUBSET Entries
         /\ ticket[scan[s].ticket].status = "VALID"
         /\ ticket[scan[s].ticket].version = scan[s].version
         /\ event.status # "COMPLETED"
<1>1. scan[s] \in Tokens
  BY DEF Admit, TypeOK
<1>2. /\ ticket' = [ticket EXCEPT ![scan[s].ticket].status = "USED"]
      /\ admissions' = admissions \cup {[ticket |-> scan[s].ticket, scanner |-> s,
              bearer |-> scan[s].bearer, owner |-> ticket[scan[s].ticket].owner]}
      /\ ticket[scan[s].ticket].status = "VALID"
      /\ ticket[scan[s].ticket].version = scan[s].version
      /\ event.status # "COMPLETED"
  BY DEF Admit, Used, Admissible, AdmissionOpen, EventCanOpenAdmission
<1> DEFINE t == scan[s].ticket
<1>3. t \in Tickets /\ ticket[t] \in Rows
  BY <1>1 DEF TypeOK, Tokens
<1>4. [ticket[t] EXCEPT !.status = "USED"] \in Rows
  BY <1>3 DEF Rows
<1>5. ticket'[t] = [ticket[t] EXCEPT !.status = "USED"]
  BY <1>2, <1>3 DEF TypeOK
<1>6. \A u \in Tickets \ {t} : ticket'[u] = ticket[u]
  BY <1>2, <1>3 DEF TypeOK
<1>7. ticket' \in [Tickets -> Rows]
  BY <1>2, <1>3, <1>4 DEF TypeOK
<1>8. /\ ticket'[t].status = "USED"
      /\ ticket'[t].version = ticket[t].version /\ ticket'[t].owner = ticket[t].owner
  BY <1>3, <1>5 DEF Rows
<1>9. [ticket |-> scan[s].ticket, scanner |-> s, bearer |-> scan[s].bearer,
       owner |-> ticket[scan[s].ticket].owner] \in Entries
  BY <1>1 DEF TypeOK, Rows, Tokens, Entries
<1> QED
  BY <1>1, <1>2, <1>6, <1>7, <1>8, <1>9 DEF TypeOK

LEMMA NextTypeOK ==
  ASSUME TypeOK, [Next]_vars
  PROVE  TypeOK'
<1>1. CASE Tick
  BY <1>1 DEF Tick, TypeOK, door
<1>2. CASE ChangeStatus \/ Postpone
  BY <1>2, EventSteps DEF ChangeStatus, Postpone, TypeOK, door
<1>3. CASE OpenAdmission
  BY <1>3 DEF OpenAdmission, ScheduledStart, TypeOK, EventRows, door
<1>4. CASE CloseAdmission \/ CloseAutomatically \/ BuildReport
  BY <1>4 DEF CloseAdmission, CloseAutomatically, BuildReport, TypeOK, door
<1>5. ASSUME NEW t \in Tickets, ShowQr(t) PROVE TypeOK'
  <2>1. now + QrTTL \in Nat
    BY AdmissionAssumption DEF TypeOK
  <2>2. [ticket |-> t, version |-> ticket[t].version, expires_at |-> now + QrTTL,
         bearer |-> ticket[t].owner] \in Tokens
    BY <2>1 DEF TypeOK, Rows, Tokens
  <2> QED
    BY <1>5, <2>2 DEF ShowQr, TypeOK, door
<1>6. ASSUME NEW t \in Tickets, Void(t) PROVE TypeOK'
  BY <1>6 DEF Void, TypeOK, Rows, door
<1>7. ASSUME NEW t \in Tickets, NEW fan \in Fans, Transfer(t, fan) PROVE TypeOK'
  BY <1>7, TransferSteps DEF Transfer, TypeOK, door
<1>8. ASSUME NEW s \in Scanners, Assign(s) \/ Unassign(s) PROVE TypeOK'
  BY <1>8 DEF Assign, Unassign, TypeOK
<1>9. ASSUME NEW s \in Scanners, ChangeStaff(s) PROVE TypeOK'
  BY <1>9 DEF ChangeStaff, TypeOK
<1>10. ASSUME NEW s \in Scanners, Scan(s) \/ Reject(s) PROVE TypeOK'
  BY <1>10 DEF Scan, Reject, TypeOK, door
<1>11. ASSUME NEW s \in Scanners, Admit(s) PROVE TypeOK'
  BY <1>11, AdmitSteps DEF Admit, TypeOK, door
<1>12. CASE UNCHANGED vars
  BY <1>12 DEF vars, door, TypeOK
<1> QED
  BY <1>1, <1>2, <1>3, <1>4, <1>5, <1>6, <1>7, <1>8, <1>9, <1>10, <1>11, <1>12 DEF Next

-----------------------------------------------------------------------------
LEMMA NextQrOK ==
  ASSUME TypeOK, QrOK, [Next]_vars
  PROVE  QrOK'
<1>1. CASE /\ qr' \subseteq qr /\ \A s \in Scanners : scan'[s] # Nothing => scan'[s] = scan[s]
           /\ \A t \in Tickets : /\ ticket'[t].version = ticket[t].version
                                 /\ ticket'[t].owner = ticket[t].owner
  BY <1>1 DEF QrOK, Tells, TypeOK, Tokens
<1>2. CASE UNCHANGED <<qr, scan, ticket>>
  BY <1>2 DEF QrOK, Tells
<1>3. CASE Tick
  BY <1>1, <1>3 DEF Tick
<1>4. ASSUME NEW t \in Tickets, ShowQr(t) PROVE QrOK'
  <2>1. ticket[t].version \in Nat
    BY DEF TypeOK, Rows
  <2> QED
    BY <1>4, <2>1 DEF ShowQr, QrOK, Tells
<1>5. ASSUME NEW t \in Tickets, Void(t) PROVE QrOK'
  <2>1. \A u \in Tickets : ticket'[u].version = ticket[u].version /\ ticket'[u].owner = ticket[u].owner
    BY <1>5 DEF Void, TypeOK, Rows
  <2> QED
    BY <1>1, <1>5, <2>1 DEF Void
<1>6. ASSUME NEW t \in Tickets, NEW fan \in Fans, Transfer(t, fan) PROVE QrOK'
  <2>1. ASSUME NEW token \in Tokens, Tells(token) PROVE Tells(token)'
    <3>1. CASE token.ticket = t
      <4>1. token.version \in Nat /\ ticket[t].version \in Nat
        BY DEF TypeOK, Rows, Tokens
      <4>2. ticket'[t].version = ticket[t].version + 1
        BY <1>6, TransferSteps
      <4> QED
        BY <2>1, <3>1, <4>1, <4>2 DEF Tells
    <3>2. CASE token.ticket # t
      <4>1. ticket'[token.ticket] = ticket[token.ticket]
        BY <1>6, <3>2, TransferSteps DEF Tokens
      <4> QED
        BY <2>1, <4>1 DEF Tells
    <3> QED
      BY <3>1, <3>2
  <2> QED
    BY <1>6, <2>1 DEF Transfer, QrOK, TypeOK
<1>7. ASSUME NEW s \in Scanners, Scan(s) PROVE QrOK'
  <2>1. PICK token \in qr : scan' = [scan EXCEPT ![s] = token]
    BY <1>7 DEF Scan
  <2> QED
    BY <1>7, <2>1 DEF Scan, QrOK, Tells, TypeOK
<1>8. ASSUME NEW s \in Scanners, Reject(s) PROVE QrOK'
  BY <1>1, <1>8 DEF Reject, TypeOK
<1>9. ASSUME NEW s \in Scanners, Admit(s) PROVE QrOK'
  <2>1. \A u \in Tickets : ticket'[u].version = ticket[u].version /\ ticket'[u].owner = ticket[u].owner
    BY <1>9, AdmitSteps
  <2> QED
    BY <1>1, <1>9, <2>1 DEF Admit, TypeOK
<1> QED
  BY <1>2, <1>3, <1>4, <1>5, <1>6, <1>7, <1>8, <1>9
     DEF Next, ChangeStatus, Postpone, OpenAdmission, CloseAdmission, CloseAutomatically,
         BuildReport, Assign, Unassign, ChangeStaff, vars

LEMMA NextEntriesOK ==
  ASSUME TypeOK, QrOK, EntriesOK, [Next]_vars
  PROVE  EntriesOK'
<1>1. CASE UNCHANGED admissions /\ \A t \in Tickets : ticket'[t].status = "USED" <=> ticket[t].status = "USED"
  BY <1>1 DEF EntriesOK, TypeOK, Entries
<1>2. CASE UNCHANGED <<admissions, ticket>>
  BY <1>2 DEF EntriesOK
<1>3. ASSUME NEW t \in Tickets, Void(t) PROVE EntriesOK'
  <2>1. \A u \in Tickets : ticket'[u].status = "USED" <=> ticket[u].status = "USED"
    BY <1>3 DEF Void, With, TypeOK, Rows
  <2> QED
    BY <1>1, <1>3, <2>1 DEF Void
<1>4. ASSUME NEW t \in Tickets, NEW fan \in Fans, Transfer(t, fan) PROVE EntriesOK'
  <2>1. \A u \in Tickets : ticket'[u].status = "USED" <=> ticket[u].status = "USED"
    BY <1>4, TransferSteps
  <2> QED
    BY <1>1, <1>4, <2>1 DEF Transfer
<1>5. ASSUME NEW s \in Scanners, Admit(s) PROVE EntriesOK'
  <2> DEFINE t == scan[s].ticket
             a == [ticket |-> t, scanner |-> s, bearer |-> scan[s].bearer, owner |-> ticket[t].owner]
  <2>1. t \in Tickets /\ scan[s] # Nothing
    BY <1>5, AdmitSteps DEF Tokens, Admit
  <2>2. ticket'[t].status = "USED" /\ \A u \in Tickets \ {t} : ticket'[u] = ticket[u]
    BY <1>5, AdmitSteps
  <2>3. ~\E b \in admissions : b.ticket = t
    BY <1>5 DEF Admit
  <2>4. admissions' = admissions \cup {a} /\ ticket[t].version = scan[s].version
    BY <1>5, AdmitSteps
  <2>5. scan[s].bearer = ticket[t].owner
    BY <2>1, <2>4 DEF QrOK, Tells
  <2>6. \A b \in admissions : b.ticket \in Tickets \ {t}
    BY <2>3 DEF TypeOK, Entries
  <2>7. \A b \in admissions' : ticket'[b.ticket].status = "USED" /\ b.bearer = b.owner
    BY <2>2, <2>4, <2>5, <2>6 DEF EntriesOK
  <2>8. \A u \in Tickets : ticket'[u].status = "USED" => \E b \in admissions' : b.ticket = u
    <3> SUFFICES ASSUME NEW u \in Tickets, ticket'[u].status = "USED"
                 PROVE  \E b \in admissions' : b.ticket = u
      OBVIOUS
    <3>1. CASE u = t
      <4>1. a \in admissions'
        BY <2>4
      <4>2. a.ticket = t
        OBVIOUS
      <4> QED
        BY <3>1, <4>1, <4>2
    <3>2. CASE u # t
      BY <2>2, <2>4, <3>2 DEF EntriesOK
    <3> QED
      BY <3>1, <3>2
  <2>9. \A b, c \in admissions' : b.ticket = c.ticket => b = c
    BY <2>4, <2>6 DEF EntriesOK
  <2> QED
    BY <2>7, <2>8, <2>9 DEF EntriesOK
<1> QED
  BY <1>2, <1>3, <1>4, <1>5
     DEF Next, Tick, ChangeStatus, Postpone, OpenAdmission, CloseAdmission, CloseAutomatically,
         BuildReport, ShowQr, Assign, Unassign, ChangeStaff, Scan, Reject, vars

LEMMA NextReportOK ==
  ASSUME TypeOK, ReportOK, [Next]_vars
  PROVE  ReportOK'
<1> DEFINE SameTickets == \A t \in Tickets : ticket'[t].status = ticket[t].status
<1>1. CASE UNCHANGED <<event, report>> /\ SameTickets
  <2>1. \A status : With(status)' = With(status)
    BY <1>1 DEF With
  <2> QED
    BY <1>1, <2>1 DEF ReportOK
<1>2. CASE UNCHANGED report /\ event.status # "COMPLETED"
  BY <1>2 DEF ReportOK
<1>3. CASE BuildReport
  BY <1>3 DEF BuildReport, ReportOK, With
<1>4. CASE ChangeStatus \/ Postpone
  BY <1>2, <1>4, EventSteps DEF ChangeStatus, Postpone
<1>5. ASSUME NEW t \in Tickets, Void(t) PROVE ReportOK'
  BY <1>2, <1>5 DEF Void
<1>6. ASSUME NEW t \in Tickets, NEW fan \in Fans, Transfer(t, fan) PROVE ReportOK'
  BY <1>2, <1>6 DEF Transfer
<1>7. ASSUME NEW s \in Scanners, Admit(s) PROVE ReportOK'
  BY <1>2, <1>7, AdmitSteps DEF Admit
<1>8. CASE UNCHANGED <<event, report, ticket>>
  BY <1>1, <1>8
<1> QED
  BY <1>3, <1>4, <1>5, <1>6, <1>7, <1>8
     DEF Next, Tick, OpenAdmission, CloseAdmission, CloseAutomatically,
         ShowQr, Assign, Unassign, ChangeStaff, Scan, Reject, vars

LEMMA SpecIInv == Spec => []IInv
<1>1. IInv /\ [Next]_vars => IInv'
  BY NextTypeOK, NextQrOK, NextEntriesOK, NextReportOK DEF IInv
<1> QED
  BY <1>1, InitIInv, PTL DEF Spec

-----------------------------------------------------------------------------
(* Counting. *)

\* As many tickets are USED as people entered.
LEMMA UsedAreEntries ==
  ASSUME TypeOK, EntriesOK
  PROVE  Cardinality(With("USED")) = Cardinality(admissions)
<1> DEFINE U == With("USED")
           f == [a \in admissions |-> a.ticket]
<1>1. f \in Bijection(admissions, U)
  <2>1. f \in [admissions -> U]
    BY DEF EntriesOK, TypeOK, Entries, With
  <2>2. \A a, b \in admissions : f[a] = f[b] => a = b
    BY DEF EntriesOK
  <2>3. \A t \in U : \E a \in admissions : f[a] = t
    BY DEF EntriesOK, With
  <2> QED
    BY <2>1, <2>2, <2>3 DEF Bijection, Injection, Surjection, IsInjective
<1>2. f \in Injection(admissions, U) /\ f \in Surjection(admissions, U)
  BY <1>1 DEF Bijection
<1>3. IsFiniteSet(U)
  BY AdmissionAssumption, FS_Subset DEF With
<1> QED
  BY <1>2, <1>3, FS_Injection

\* Every ticket is valid, used or void.
LEMMA TicketsAddUp ==
  ASSUME TypeOK
  PROVE  Cardinality(With("USED")) + Cardinality(With("VOID")) + Cardinality(With("VALID"))
           = Cardinality(Tickets)
<1> DEFINE Gone == With("USED") \cup With("VOID")
<1>1. IsFiniteSet(With("USED")) /\ IsFiniteSet(With("VOID")) /\ IsFiniteSet(With("VALID"))
  BY AdmissionAssumption, FS_Subset DEF With
<1>2. With("USED") \cap With("VOID") = {} /\ Gone \cap With("VALID") = {}
  BY DEF With
<1>3. Gone \cup With("VALID") = Tickets
  BY DEF With, TypeOK, Rows
<1>4. Cardinality({}) = 0
  BY FS_EmptySet
<1>5. IsFiniteSet(Gone) /\ Cardinality(Gone) = Cardinality(With("USED")) + Cardinality(With("VOID")) - 0
  BY <1>1, <1>2, <1>4, FS_Union
<1>6. Cardinality(Tickets) = Cardinality(Gone) + Cardinality(With("VALID")) - 0
  BY <1>1, <1>2, <1>3, <1>4, <1>5, FS_Union
<1>7. /\ Cardinality(With("USED")) \in Nat /\ Cardinality(With("VOID")) \in Nat
      /\ Cardinality(With("VALID")) \in Nat
  BY <1>1, FS_CardinalityType
<1> QED
  BY <1>5, <1>6, <1>7

-----------------------------------------------------------------------------
(* The theorems. *)

\* The columns of the tickets, the admissions and the event keep their types
\* (ticketing and access models.py).
THEOREM AdmissionTypeOK == Spec => []TypeOK
BY SpecIInv, PTL DEF IInv

\* A ticket is USED exactly when one person entered with it, a refunded one
\* admitted nobody, and who entered owned the ticket (admit_ticket_from_qr,
\* transfer_ticket, void_valid_tickets_for_order_event).
THEOREM UsedIsAdmitted == Spec => []UsedMeansAdmitted
<1>1. IInv => UsedMeansAdmitted
  <2> SUFFICES ASSUME IInv PROVE UsedMeansAdmitted
    OBVIOUS
  <2>1. \A a \in admissions : a.bearer = a.owner
    BY DEF IInv, EntriesOK
  <2>2. ASSUME NEW t \in Tickets
        PROVE  Cardinality({a \in admissions : a.ticket = t})
                 = IF ticket[t].status = "USED" THEN 1 ELSE 0
    <3> DEFINE E == {a \in admissions : a.ticket = t}
    <3>1. CASE ticket[t].status = "USED"
      <4>1. PICK a \in admissions : a.ticket = t
        BY <3>1 DEF IInv, EntriesOK
      <4>2. E = {a}
        BY <4>1 DEF IInv, EntriesOK
      <4> QED
        BY <3>1, <4>2, FS_Singleton
    <3>2. CASE ticket[t].status # "USED"
      <4>1. E = {}
        BY <3>2 DEF IInv, EntriesOK
      <4> QED
        BY <3>2, <4>1, FS_EmptySet
    <3> QED
      BY <3>1, <3>2
  <2> QED
    BY <2>1, <2>2 DEF UsedMeansAdmitted
<1> QED
  BY <1>1, SpecIInv, PTL

\* The final report of an event, once written, agrees with its admissions and its
\* tickets for ever (build_event_final_report and what may happen after it).
THEOREM ReportIsTrue == Spec => []ReportStaysTrue
<1>1. IInv => ReportStaysTrue
  <2> SUFFICES ASSUME IInv, report # Nothing PROVE ReportStaysTrue
    BY DEF ReportStaysTrue
  <2>1. /\ report.used = Cardinality(With("USED")) /\ report.voided = Cardinality(With("VOID"))
        /\ report.absent = Cardinality(With("VALID")) /\ report.sold = Cardinality(Tickets)
    BY DEF IInv, ReportOK
  <2>2. Cardinality(With("USED")) = Cardinality(admissions)
    BY UsedAreEntries DEF IInv
  <2>3. Cardinality(With("USED")) + Cardinality(With("VOID")) + Cardinality(With("VALID"))
          = Cardinality(Tickets)
    BY TicketsAddUp DEF IInv
  <2> QED
    BY <2>1, <2>2, <2>3 DEF ReportStaysTrue
<1> QED
  BY <1>1, SpecIInv, PTL
=============================================================================
