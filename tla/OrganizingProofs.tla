-------------------------- MODULE OrganizingProofs --------------------------
(* Proofs about Onboarding and Scanners, the two parts of organizing, and Mail,  *)
(* the letters about them, for any number of administrators, rates,           *)
(* publications, versions, codes, retries and crashes.                        *)
EXTENDS Onboarding, Scanners, Mail, SumFacts, TLAPS, FiniteSetTheorems, SequenceTheorems

-----------------------------------------------------------------------------
(* The dossier. *)

DossierStatuses == {"NONE", "PENDING", "APPROVED", "REJECTED", "SUSPENDED"}
DossierRows == [status : DossierStatuses, version : Nat, rate : Rates \cup {DefaultRate},
                agreed : BOOLEAN]
ProposalRows == [by : Parties, rate : Rates \cup {DefaultRate}, accepted : BOOLEAN]
DecisionsUnderWay == [target : {"APPROVED", "REJECTED", "SUSPENDED"}, expected : Nat]
RequestRows == [status : {"PENDING", "APPROVED", "REJECTED"}, organizer_version : Nat]

DossierTypeOK ==
  /\ org \in DossierRows
  /\ proposals \in Seq(ProposalRows)
  /\ reading \in DossierRows \cup {Nothing}
  /\ decision \in [Admins -> DecisionsUnderWay \cup {NoDecision}]
  /\ requests \in Seq(RequestRows)
  /\ publishing \in [Publishers -> [pc : {"new", "authorised", "published"}, arrived : Nat]]

\* A row that was read is the present one until its answer is given; nobody reads
\* a dossier that is not there yet.
ReadingOK ==
  /\ reading # Nothing => reading = org
  /\ org.status = "NONE" => /\ org.version = 0 /\ ~org.agreed
                             /\ reading = Nothing /\ served = {}

\* A decision of the present version was taken in the status it must leave.
DecisionOK(a) ==
  decision[a] # NoDecision =>
    /\ decision[a].expected <= org.version
    /\ decision[a].expected = org.version =>
         org.status = IF decision[a].target = "SUSPENDED" THEN "APPROVED" ELSE "PENDING"

DecisionsOK == \A a \in Admins : DecisionOK(a)

\* One request is pending at a time, and only in the suspension it was made in.
RequestsOK ==
  /\ \A i \in Pending : org.status = "SUSPENDED" /\ requests[i].organizer_version = org.version
  /\ \A i, j \in Pending : i = j

\* An authorised publication came under an agreement, and under an approval that
\* holds as long as the version it saw.
PublicationOK(p) ==
  publishing[p].pc = "authorised" =>
    /\ org.agreed
    /\ publishing[p].arrived <= org.version
    /\ publishing[p].arrived = org.version => org.status = "APPROVED"

PublishingOK == \A p \in Publishers : PublicationOK(p)

Alternate(list) ==
  \A k \in 1..Len(list) :
    /\ list[k].by = (IF k % 2 = 1 THEN "ORGANIZER" ELSE "ADMIN")
    /\ list[k].accepted => k = Len(list)

DossierInv ==
  /\ DossierTypeOK
  /\ ReadingOK
  /\ VersionCoversNegotiation
  /\ AgreementStands
  /\ DecisionsOK
  /\ RequestsOK
  /\ PublishingOK

LEMMA InitDossier == OnboardingInit => DossierInv
<1> SUFFICES ASSUME OnboardingInit PROVE DossierInv
  OBVIOUS
<1> USE DEF OnboardingInit
<1>1. /\ org \in DossierRows /\ (org.status = "NONE" => org.version = 0 /\ ~org.agreed)
      /\ org.agreed => org.status \in {"APPROVED", "SUSPENDED"}
  <2>1. Row("NONE", 0) \in DossierRows /\ ~Row("NONE", 0).agreed
        /\ Row("NONE", 0).version = 0 /\ Row("NONE", 0).status = "NONE"
    BY DEF Row, DossierRows, DossierStatuses
  <2>2. ASSUME NEW target \in DossierStatuses \ {"NONE"}, NEW v \in Nat,
               NEW rate \in Rates \cup {DefaultRate}
        PROVE  /\ LegacyRow(target, v, rate) \in DossierRows
               /\ LegacyRow(target, v, rate).status # "NONE"
               /\ LegacyRow(target, v, rate).agreed =>
                    LegacyRow(target, v, rate).status \in {"APPROVED", "SUSPENDED"}
    <3>1. (target \in {"APPROVED", "SUSPENDED"}) \in BOOLEAN
      OBVIOUS
    <3>2. PICK old : old = (target \in {"APPROVED", "SUSPENDED"})
      OBVIOUS
    <3>3. LegacyRow(target, v, rate) = [status |-> target, version |-> v, rate |-> rate,
                                        agreed |-> old]
      BY <3>2, Zenon DEF LegacyRow
    <3>4. old \in BOOLEAN
      BY <3>1, <3>2, Zenon
    <3>5. /\ LegacyRow(target, v, rate) \in DossierRows
          /\ LegacyRow(target, v, rate).status = target
          /\ LegacyRow(target, v, rate).agreed = old
      BY <3>3, <3>4 DEF DossierRows
    <3>6. old => target \in {"APPROVED", "SUSPENDED"}
      BY <3>2, Zenon
    <3> QED
      BY <3>5, <3>6
  <2> QED
    BY <2>1, <2>2 DEF DossierStatuses
<1>2. DossierTypeOK
  BY <1>1, EmptySeq DEF DossierTypeOK
<1>3. Len(proposals) = 0 /\ Pending = {}
  BY EmptySeq DEF Pending
<1>4. ReadingOK /\ VersionCoversNegotiation /\ DecisionsOK /\ RequestsOK /\ PublishingOK
  BY <1>1, <1>3
     DEF ReadingOK, VersionCoversNegotiation, DecisionsOK, DecisionOK, RequestsOK, PublishingOK,
         PublicationOK
<1>5. AgreementStands
  BY <1>1, <1>3 DEF AgreementStands
<1> QED
  BY <1>2, <1>4, <1>5 DEF DossierInv

-----------------------------------------------------------------------------
(* Lists of proposals. *)

\* A write moves the version on and takes the answers with it.
LEMMA WriteSteps ==
  ASSUME NEW rec \in DossierRows, rec.version = org.version, Write(rec)
  PROVE  /\ org' \in DossierRows
         /\ org'.version = org.version + 1
         /\ org'.status = rec.status /\ org'.rate = rec.rate /\ org'.agreed = rec.agreed
         /\ reading' = Nothing /\ served' = {}
<1>1. org' = [rec EXCEPT !.version = rec.version + 1]
  BY DEF Write, Bumped
<1>2. rec.version \in Nat /\ rec.version + 1 \in Nat
  BY DEF DossierRows
<1>3. /\ org' \in DossierRows /\ org'.version = rec.version + 1
      /\ org'.status = rec.status /\ org'.rate = rec.rate /\ org'.agreed = rec.agreed
  BY <1>1, <1>2 DEF DossierRows
<1>4. org'.version # org.version
  BY <1>2, <1>3
<1> QED
  BY <1>3, <1>4 DEF Write

LEMMA LegacyList ==
  ASSUME DossierTypeOK, AgreementStands
  PROVE  LegacyInitial \in Seq(ProposalRows) /\ Alternate(LegacyInitial)
<1>1. Proposal("ORGANIZER", org.rate) \in ProposalRows
  BY DEF Proposal, ProposalRows, Parties, DossierTypeOK, DossierRows
<1>2. CASE proposals = <<>>
  BY <1>1, <1>2 DEF LegacyInitial, Alternate, Proposal
<1>3. CASE proposals # <<>>
  BY <1>3 DEF LegacyInitial, Alternate, AgreementStands, DossierTypeOK
<1> QED
  BY <1>2, <1>3

LEMMA CounteredList ==
  ASSUME NEW list \in Seq(ProposalRows), Alternate(list), NEW rate \in Rates, NEW party \in Parties,
         Turn(list, IF party = "ADMIN" THEN "ORGANIZER" ELSE "ADMIN")
  PROVE  /\ Append(list, Proposal(party, rate)) \in Seq(ProposalRows)
         /\ Alternate(Append(list, Proposal(party, rate)))
<1> DEFINE p == Proposal(party, rate)
           longer == Append(list, p)
           n == Len(list)
<1>1. p \in ProposalRows /\ p.by = party /\ p.accepted = FALSE
  BY DEF Proposal, ProposalRows
<1>2. n \in Nat \ {0} /\ list[n].by # party /\ ~list[n].accepted
  BY EmptySeq DEF Turn, Last, Parties
<1>3. longer \in Seq(ProposalRows) /\ Len(longer) = n + 1 /\ longer[n + 1] = p
      /\ \A k \in 1..n : longer[k] = list[k]
  BY <1>1
<1>4. ASSUME NEW k \in 1..n
      PROVE  longer[k].by = (IF k % 2 = 1 THEN "ORGANIZER" ELSE "ADMIN") /\ ~longer[k].accepted
  BY <1>2, <1>3 DEF Alternate
<1>5. longer[n + 1].by = IF (n + 1) % 2 = 1 THEN "ORGANIZER" ELSE "ADMIN"
  <2>1. list[n].by = IF n % 2 = 1 THEN "ORGANIZER" ELSE "ADMIN"
    BY <1>2 DEF Alternate
  <2>2. (n + 1) % 2 = 1 <=> n % 2 # 1
    BY <1>2
  <2> QED
    BY <1>1, <1>2, <1>3, <2>1, <2>2 DEF Parties
<1>6. \A k \in 1..(n + 1) : k \in 1..n \/ k = n + 1
  BY <1>2
<1> QED
  BY <1>3, <1>4, <1>5, <1>6 DEF Alternate

LEMMA AcceptedList ==
  ASSUME NEW list \in Seq(ProposalRows), Alternate(list), list # <<>>
  PROVE  LET accepted == [list EXCEPT ![Len(list)].accepted = TRUE] IN
         /\ accepted \in Seq(ProposalRows) /\ Alternate(accepted)
         /\ accepted # <<>> /\ Last(accepted).accepted /\ Last(accepted).rate = Last(list).rate
         /\ Last(list).rate \in Rates \cup {DefaultRate}
<1> DEFINE n == Len(list)
           e == [list[n] EXCEPT !.accepted = TRUE]
           accepted == [list EXCEPT ![n] = e]
<1>1. n \in Nat \ {0} /\ list[n] \in ProposalRows
  BY EmptySeq, ElementOfSeq
<1>2. e \in ProposalRows /\ e.by = list[n].by /\ e.rate = list[n].rate /\ e.accepted = TRUE
  BY <1>1 DEF ProposalRows
<1>3. /\ accepted \in Seq(ProposalRows) /\ Len(accepted) = n
      /\ \A k \in 1..n : accepted[k] = IF k = n THEN e ELSE list[k]
  BY <1>1, <1>2, ExceptSeq
<1>4. Alternate(accepted)
  BY <1>1, <1>2, <1>3 DEF Alternate
<1>5. accepted # <<>> /\ accepted[n] = e
  BY <1>1, <1>3
<1> QED
  BY <1>1, <1>2, <1>3, <1>4, <1>5 DEF Last, ProposalRows

-----------------------------------------------------------------------------
(* The steps of the dossier, as the parts of the invariant see them. *)

\* A step of the negotiation that writes: the row keeps its account, or an
\* agreement approves it.
LEMMA CounterSteps ==
  ASSUME DossierInv, NEW list \in Seq(ProposalRows), Alternate(list), NEW rate \in Rates,
         NEW party \in Parties, Turn(list, IF party = "ADMIN" THEN "ORGANIZER" ELSE "ADMIN"),
         Counter(list, party, rate)
  PROVE  /\ org' \in DossierRows /\ org'.version = org.version + 1
         /\ org'.status = org.status /\ ~org.agreed /\ ~org'.agreed
         /\ reading' = Nothing /\ served' = {}
         /\ proposals' \in Seq(ProposalRows) /\ Alternate(proposals')
         /\ org.status \in {"PENDING", "APPROVED"}
         /\ UNCHANGED <<decision, requests, told, publishing>>
<1>1. Write(org) /\ org \in DossierRows
  BY DEF Counter, DossierInv, DossierTypeOK
<1>2. /\ org' \in DossierRows /\ org'.version = org.version + 1
      /\ org'.status = org.status /\ org'.agreed = org.agreed
      /\ reading' = Nothing /\ served' = {}
  BY <1>1, WriteSteps
<1>3. proposals' \in Seq(ProposalRows) /\ Alternate(proposals')
  BY CounteredList DEF Counter
<1> QED
  BY <1>2, <1>3 DEF Counter, NotAgreed, NegotiableAccount

LEMMA AcceptSteps ==
  ASSUME DossierInv, NEW list \in Seq(ProposalRows), Alternate(list), list # <<>>, Accept(list)
  PROVE  /\ org' \in DossierRows /\ org'.version = org.version + 1
         /\ org'.status = "APPROVED" /\ ~org.agreed /\ org'.agreed
         /\ reading' = Nothing /\ served' = {}
         /\ proposals' \in Seq(ProposalRows) /\ Alternate(proposals')
         /\ proposals' # <<>> /\ Last(proposals').accepted /\ org'.rate = Last(proposals').rate
         /\ org.status \in {"PENDING", "APPROVED"}
         /\ org.status = "PENDING" => told' = "APPROVED"
         /\ UNCHANGED <<decision, requests, publishing>>
<1> DEFINE rec == [org EXCEPT !.rate = Last(list).rate, !.agreed = TRUE, !.status = "APPROVED"]
<1>1. /\ proposals' \in Seq(ProposalRows) /\ Alternate(proposals')
      /\ proposals' # <<>> /\ Last(proposals').accepted /\ Last(proposals').rate = Last(list).rate
      /\ Last(list).rate \in Rates \cup {DefaultRate}
  BY AcceptedList DEF Accept
<1>2. org \in DossierRows
  BY DEF DossierInv, DossierTypeOK
<1>3. /\ rec \in DossierRows /\ rec.version = org.version /\ rec.status = "APPROVED"
      /\ rec.rate = Last(list).rate /\ rec.agreed = TRUE
  BY <1>1, <1>2 DEF DossierRows, DossierStatuses
<1>4. Write(rec)
  BY DEF Accept
<1>5. /\ org' \in DossierRows /\ org'.version = org.version + 1
      /\ org'.status = "APPROVED" /\ org'.rate = Last(list).rate /\ org'.agreed = TRUE
      /\ reading' = Nothing /\ served' = {}
  BY <1>3, <1>4, WriteSteps
<1> QED
  BY <1>1, <1>5 DEF Accept, NotAgreed, NegotiableAccount, Announce

\* A new status from a decision or a reactivation.
LEMMA StatusSteps ==
  ASSUME DossierInv, NEW target \in DossierStatuses, Write([org EXCEPT !.status = target])
  PROVE  /\ org' \in DossierRows /\ org'.version = org.version + 1
         /\ org'.status = target /\ org'.agreed = org.agreed /\ org'.rate = org.rate
         /\ reading' = Nothing /\ served' = {}
<1> DEFINE rec == [org EXCEPT !.status = target]
<1>1. org \in DossierRows
  BY DEF DossierInv, DossierTypeOK
<1>2. /\ rec \in DossierRows /\ rec.version = org.version /\ rec.status = target
      /\ rec.agreed = org.agreed /\ rec.rate = org.rate
  BY <1>1 DEF DossierRows
<1> QED
  BY <1>2, WriteSteps

\* The invariant from its effect on the parts: the version moves on, by a step
\* that nobody's stale decision takes and that no pending request outlives.
LEMMA DossierMovesOn ==
  ASSUME DossierInv,
         org' \in DossierRows, org'.version = org.version + 1, org'.status # "NONE",
         reading' = Nothing, served' = {},
         proposals' \in Seq(ProposalRows), AgreementStands',
         org.agreed => org'.agreed,
         \A a \in Admins : decision'[a] = decision[a] \/ decision'[a] = NoDecision,
         decision' \in [Admins -> DecisionsUnderWay \cup {NoDecision}],
         requests' \in Seq(RequestRows), Pending' = {}, UNCHANGED publishing
  PROVE  DossierInv'
<1>1. DossierTypeOK'
  BY DEF DossierInv, DossierTypeOK
<1>2. org.version \in Nat
  BY DEF DossierInv, DossierTypeOK, DossierRows
<1>3. ReadingOK' /\ VersionCoversNegotiation'
  BY DEF ReadingOK, VersionCoversNegotiation
<1>4. ASSUME NEW a \in Admins PROVE DecisionOK(a)'
  <2>1. CASE decision'[a] # NoDecision
    <3>1. decision'[a] = decision[a] /\ decision[a].expected \in Nat
      BY <2>1 DEF DossierInv, DossierTypeOK, DecisionsUnderWay
    <3>2. decision[a].expected <= org.version
      BY <2>1, <3>1 DEF DossierInv, DecisionsOK, DecisionOK
    <3> QED
      BY <1>2, <3>1, <3>2 DEF DecisionOK
  <2> QED
    BY <2>1 DEF DecisionOK
<1>5. ASSUME NEW p \in Publishers PROVE PublicationOK(p)'
  <2>1. publishing[p].arrived \in Nat
    BY DEF DossierInv, DossierTypeOK
  <2>2. PublicationOK(p)
    BY DEF DossierInv, PublishingOK
  <2> QED
    BY <1>2, <2>1, <2>2 DEF PublicationOK
<1>6. RequestsOK'
  BY DEF RequestsOK
<1> QED
  BY <1>1, <1>3, <1>4, <1>5, <1>6 DEF DossierInv, DecisionsOK, PublishingOK
LEMMA NoneIsPending ==
  ASSUME DossierInv, org.status # "SUSPENDED", UNCHANGED requests
  PROVE  Pending' = {} /\ requests' \in Seq(RequestRows)
BY DEF DossierInv, DossierTypeOK, RequestsOK, Pending

LEMMA ApplyKeeps ==
  ASSUME DossierInv, Apply
  PROVE  DossierInv'
<1>1. PICK rate \in Rates : proposals = <<>> /\ proposals' = <<Proposal("ORGANIZER", rate)>>
  BY DEF Apply, InitialProposal
<1>2. /\ org.status = "NONE" /\ org.version = 0 /\ ~org.agreed
      /\ reading = Nothing /\ served = {}
  BY DEF Apply, DossierInv, ReadingOK
<1>3. /\ org' \in DossierRows /\ org'.version = org.version + 1
      /\ org'.status = "PENDING" /\ org'.agreed = FALSE
  BY <1>2 DEF Apply, Row, DossierRows, DossierStatuses
<1>4. Proposal("ORGANIZER", rate) \in ProposalRows
  BY DEF Proposal, ProposalRows, Parties
<1>5. proposals' \in Seq(ProposalRows)
  BY <1>1, <1>4
<1>6. AgreementStands'
  BY <1>1, <1>3 DEF AgreementStands, Proposal
<1>7. Pending' = {} /\ requests' \in Seq(RequestRows)
  BY <1>2, NoneIsPending DEF Apply
<1> QED
  BY <1>2, <1>3, <1>5, <1>6, <1>7, DossierMovesOn DEF Apply, DossierInv, DossierTypeOK

LEMMA NegotiationKeeps ==
  ASSUME DossierInv, OrganizerTurn \/ AdminTurn
  PROVE  DossierInv'
<1>1. ASSUME NEW list \in Seq(ProposalRows), Alternate(list), NEW rate \in Rates,
             NEW party \in Parties, Turn(list, IF party = "ADMIN" THEN "ORGANIZER" ELSE "ADMIN"),
             Counter(list, party, rate)
      PROVE  DossierInv'
  <2>1. /\ org' \in DossierRows /\ org'.version = org.version + 1
        /\ org'.status = org.status /\ ~org.agreed /\ ~org'.agreed
        /\ reading' = Nothing /\ served' = {}
        /\ proposals' \in Seq(ProposalRows) /\ Alternate(proposals')
        /\ org.status \in {"PENDING", "APPROVED"}
        /\ UNCHANGED <<decision, requests, publishing>>
    BY <1>1, CounterSteps
  <2>2. AgreementStands'
    BY <2>1 DEF AgreementStands, Alternate
  <2>3. Pending' = {} /\ requests' \in Seq(RequestRows)
    BY <2>1, NoneIsPending
  <2> QED
    BY <2>1, <2>2, <2>3, DossierMovesOn DEF DossierInv, DossierTypeOK
<1>2. ASSUME NEW list \in Seq(ProposalRows), Alternate(list), list # <<>>, Accept(list)
      PROVE  DossierInv'
  <2>1. /\ org' \in DossierRows /\ org'.version = org.version + 1
        /\ org'.status = "APPROVED" /\ ~org.agreed /\ org'.agreed
        /\ reading' = Nothing /\ served' = {}
        /\ proposals' \in Seq(ProposalRows) /\ Alternate(proposals')
        /\ proposals' # <<>> /\ Last(proposals').accepted /\ org'.rate = Last(proposals').rate
        /\ org.status \in {"PENDING", "APPROVED"}
        /\ UNCHANGED <<decision, requests, publishing>>
    BY <1>2, AcceptSteps
  <2>2. AgreementStands'
    BY <2>1 DEF AgreementStands, Alternate
  <2>3. Pending' = {} /\ requests' \in Seq(RequestRows)
    BY <2>1, NoneIsPending
  <2> QED
    BY <2>1, <2>2, <2>3, DossierMovesOn DEF DossierInv, DossierTypeOK
<1>3. proposals \in Seq(ProposalRows) /\ Alternate(proposals)
  BY DEF DossierInv, DossierTypeOK, AgreementStands, Alternate
<1>4. LegacyInitial \in Seq(ProposalRows) /\ Alternate(LegacyInitial)
  BY LegacyList DEF DossierInv
<1>5. CASE OrganizerTurn
  BY <1>1, <1>2, <1>3, <1>5 DEF OrganizerTurn, OrganizerAccept, OrganizerCounter, Turn, Parties
<1>6. CASE AdminTurn
  BY <1>1, <1>2, <1>4, <1>6 DEF AdminTurn, AdminAccept, AdminCounter, Turn, Parties
<1> QED
  BY <1>5, <1>6

\* A decision that is written found the status it must leave.
LEMMA DecisionSteps ==
  ASSUME DossierInv, NEW a \in Admins, WriteDecision(a)
  PROVE  /\ decision[a].target \in {"APPROVED", "REJECTED", "SUSPENDED"}
         /\ org.status = IF decision[a].target = "SUSPENDED" THEN "APPROVED" ELSE "PENDING"
         /\ org' \in DossierRows /\ org'.version = org.version + 1
         /\ org'.status = decision[a].target /\ told' = decision[a].target
         /\ org'.agreed = org.agreed /\ org'.rate = org.rate
         /\ reading' = Nothing /\ served' = {}
         /\ decision' = [decision EXCEPT ![a] = NoDecision]
         /\ UNCHANGED <<proposals, requests, publishing>>
<1>1. /\ decision[a] # NoDecision /\ decision[a].expected = org.version
      /\ Write([org EXCEPT !.status = decision[a].target])
  BY DEF WriteDecision, StillExpected
<1>2. decision[a].target \in {"APPROVED", "REJECTED", "SUSPENDED"}
  BY <1>1 DEF DossierInv, DossierTypeOK, DecisionsUnderWay
<1>3. org.status = IF decision[a].target = "SUSPENDED" THEN "APPROVED" ELSE "PENDING"
  BY <1>1 DEF DossierInv, DecisionsOK, DecisionOK
<1>4. decision[a].target \in DossierStatuses
  BY <1>2 DEF DossierStatuses
<1>5. /\ org' \in DossierRows /\ org'.version = org.version + 1
      /\ org'.status = decision[a].target /\ org'.agreed = org.agreed /\ org'.rate = org.rate
      /\ reading' = Nothing /\ served' = {}
  BY <1>1, <1>4, StatusSteps
<1> QED
  BY <1>2, <1>3, <1>5 DEF WriteDecision, Announce

LEMMA DecideKeeps ==
  ASSUME DossierInv, NEW a \in Admins,
         Approve(a) \/ Reject(a) \/ Suspend(a) \/ WriteDecision(a) \/ RefuseDecision(a)
  PROVE  DossierInv'
<1>1. ASSUME NEW target \in {"APPROVED", "REJECTED", "SUSPENDED"},
             CheckDossier(a, IF target = "SUSPENDED" THEN "APPROVED" ELSE "PENDING", target)
      PROVE  DossierInv'
  <2> DEFINE new == [target |-> target, expected |-> org.version]
  <2>1. new \in DecisionsUnderWay /\ new.target = target /\ new.expected = org.version
        /\ org.version \in Nat
    BY DEF DecisionsUnderWay, DossierInv, DossierTypeOK, DossierRows
  <2>2. /\ decision' = [decision EXCEPT ![a] = new]
        /\ org.status = IF target = "SUSPENDED" THEN "APPROVED" ELSE "PENDING"
        /\ UNCHANGED <<org, proposals, reading, served, requests, publishing>>
    BY <1>1 DEF CheckDossier, dossier
  <2>3. DossierTypeOK'
    BY <2>1, <2>2 DEF DossierInv, DossierTypeOK
  <2>4. decision'[a] = new /\ \A b \in Admins \ {a} : decision'[b] = decision[b]
    BY <2>2 DEF DossierInv, DossierTypeOK
  <2>5. DecisionOK(a)'
    BY <2>1, <2>2, <2>4 DEF DecisionOK
  <2>6. ASSUME NEW b \in Admins \ {a} PROVE DecisionOK(b)'
    BY <2>2, <2>4 DEF DossierInv, DecisionsOK, DecisionOK
  <2>7. DecisionsOK'
    BY <2>5, <2>6 DEF DecisionsOK
  <2> QED
    BY <2>2, <2>3, <2>7
       DEF DossierInv, ReadingOK, VersionCoversNegotiation, AgreementStands, RequestsOK, Pending,
           PublishingOK, PublicationOK
<1>2. CASE WriteDecision(a)
  <2>1. /\ decision[a].target \in {"APPROVED", "REJECTED", "SUSPENDED"}
        /\ org.status = IF decision[a].target = "SUSPENDED" THEN "APPROVED" ELSE "PENDING"
        /\ org' \in DossierRows /\ org'.version = org.version + 1
        /\ org'.status = decision[a].target
        /\ org'.agreed = org.agreed /\ org'.rate = org.rate
        /\ reading' = Nothing /\ served' = {}
        /\ decision' = [decision EXCEPT ![a] = NoDecision]
        /\ UNCHANGED <<proposals, requests, publishing>>
    BY <1>2, DecisionSteps
  <2>2. Pending' = {} /\ requests' \in Seq(RequestRows)
    BY <2>1, NoneIsPending
  <2>3. AgreementStands'
    BY <2>1 DEF DossierInv, AgreementStands
  <2>4. /\ \A b \in Admins : decision'[b] = decision[b] \/ decision'[b] = NoDecision
        /\ decision' \in [Admins -> DecisionsUnderWay \cup {NoDecision}]
    BY <2>1 DEF DossierInv, DossierTypeOK
  <2> QED
    BY <2>1, <2>2, <2>3, <2>4, DossierMovesOn DEF DossierInv, DossierTypeOK
<1>3. CASE RefuseDecision(a)
  <2>1. /\ \A b \in Admins : decision'[b] = decision[b] \/ decision'[b] = NoDecision
        /\ decision' \in [Admins -> DecisionsUnderWay \cup {NoDecision}]
    BY <1>3 DEF RefuseDecision, DossierInv, DossierTypeOK
  <2>2. UNCHANGED <<org, proposals, reading, served, requests, publishing>>
    BY <1>3 DEF RefuseDecision, dossier
  <2>3. ASSUME NEW b \in Admins PROVE DecisionOK(b)'
    BY <2>1, <2>2 DEF DossierInv, DecisionsOK, DecisionOK
  <2> QED
    BY <2>1, <2>2, <2>3
       DEF DossierInv, DossierTypeOK, ReadingOK, VersionCoversNegotiation, AgreementStands,
           RequestsOK, Pending, PublishingOK, PublicationOK, DecisionsOK
<1> QED
  BY <1>1, <1>2, <1>3 DEF Approve, Reject, Suspend
LEMMA RequestKeeps ==
  ASSUME DossierInv, RequestReactivation
  PROVE  DossierInv'
<1> DEFINE new == [status |-> "PENDING", organizer_version |-> org.version]
           n == Len(requests)
<1>1. /\ org.status = "SUSPENDED" /\ Pending = {} /\ requests' = Append(requests, new)
      /\ UNCHANGED <<org, proposals, reading, served, decision, publishing>>
  BY DEF RequestReactivation, MayRequest, dossier
<1>2. new \in RequestRows /\ new.status = "PENDING" /\ new.organizer_version = org.version
  BY DEF RequestRows, DossierInv, DossierTypeOK, DossierRows
<1>3. requests \in Seq(RequestRows) /\ n \in Nat
  BY DEF DossierInv, DossierTypeOK
<1>4. /\ requests' \in Seq(RequestRows) /\ DOMAIN requests' = 1..(n + 1)
      /\ requests'[n + 1] = new /\ \A i \in 1..n : requests'[i] = requests[i]
  BY <1>1, <1>2, <1>3
<1>5. Pending' \subseteq {n + 1}
  BY <1>1, <1>3, <1>4 DEF Pending
<1>6. RequestsOK'
  BY <1>1, <1>2, <1>4, <1>5 DEF RequestsOK
<1> QED
  BY <1>1, <1>4, <1>6
     DEF DossierInv, DossierTypeOK, ReadingOK, VersionCoversNegotiation, AgreementStands,
         DecisionsOK, DecisionOK, PublishingOK, PublicationOK

\* A review leaves no request pending.
LEMMA ReviewSteps ==
  ASSUME DossierInv, NEW verdict \in {"APPROVED", "REJECTED"}, NEW i \in DOMAIN requests,
         Reviewed(i, verdict)
  PROVE  /\ requests' \in Seq(RequestRows) /\ Pending' = {} /\ i \in Pending
         /\ requests'[i].status = verdict
         /\ org.status = "SUSPENDED" /\ requests[i].organizer_version = org.version
<1> DEFINE e == [requests[i] EXCEPT !.status = verdict]
<1>1. requests \in Seq(RequestRows) /\ requests[i] \in RequestRows /\ i \in 1..Len(requests)
  BY DEF DossierInv, DossierTypeOK
<1>2. e \in RequestRows /\ e.status = verdict
  BY <1>1 DEF RequestRows
<1>3. requests' = [requests EXCEPT ![i] = e] /\ i \in Pending /\ org.status = "SUSPENDED"
  BY DEF Reviewed
<1>4. /\ requests' \in Seq(RequestRows) /\ DOMAIN requests' = DOMAIN requests
      /\ requests'[i] = e /\ \A j \in DOMAIN requests \ {i} : requests'[j] = requests[j]
  BY <1>1, <1>2, <1>3
<1>5. Pending \subseteq {i}
  BY <1>3 DEF DossierInv, RequestsOK
<1>6. Pending' = {}
  BY <1>2, <1>4, <1>5 DEF Pending
<1> QED
  BY <1>2, <1>3, <1>4, <1>6 DEF DossierInv, RequestsOK

LEMMA ReviewKeeps ==
  ASSUME DossierInv, NEW i \in DOMAIN requests, ApproveReactivation(i) \/ RejectReactivation(i)
  PROVE  DossierInv'
<1>1. CASE ApproveReactivation(i)
  <2>1. /\ requests' \in Seq(RequestRows) /\ Pending' = {} /\ org.status = "SUSPENDED"
        /\ UNCHANGED <<proposals, decision, publishing>>
    BY <1>1, ReviewSteps DEF ApproveReactivation
  <2>2. /\ org' \in DossierRows /\ org'.version = org.version + 1
        /\ org'.status = "APPROVED" /\ org'.agreed = org.agreed /\ org'.rate = org.rate
        /\ reading' = Nothing /\ served' = {}
    BY <1>1, StatusSteps DEF ApproveReactivation, Reopen, DossierStatuses
  <2>3. AgreementStands'
    BY <2>1, <2>2 DEF DossierInv, AgreementStands
  <2> QED
    BY <2>1, <2>2, <2>3, DossierMovesOn DEF DossierInv, DossierTypeOK
<1>2. CASE RejectReactivation(i)
  <2>1. requests' \in Seq(RequestRows) /\ Pending' = {}
    BY <1>2, ReviewSteps DEF RejectReactivation
  <2>2. UNCHANGED <<org, proposals, reading, served, decision, publishing>>
    BY <1>2 DEF RejectReactivation, dossier
  <2> QED
    BY <2>1, <2>2
       DEF DossierInv, DossierTypeOK, ReadingOK, VersionCoversNegotiation, AgreementStands,
           RequestsOK, DecisionsOK, DecisionOK, PublishingOK, PublicationOK
<1> QED
  BY <1>1, <1>2

LEMMA SellKeeps ==
  ASSUME DossierInv, NEW p \in Publishers, Authorise(p) \/ Publish(p)
  PROVE  DossierInv'
<1>1. UNCHANGED <<org, proposals, reading, served, decision, requests>>
  BY DEF Authorise, Publish, dossier
<1>2. org.version \in Nat
  BY DEF DossierInv, DossierTypeOK, DossierRows
<1>3. /\ publishing' \in [Publishers -> [pc : {"new", "authorised", "published"}, arrived : Nat]]
      /\ PublicationOK(p)' /\ \A q \in Publishers \ {p} : publishing'[q] = publishing[q]
  <2>1. CASE Authorise(p)
    <3> DEFINE new == [pc |-> "authorised", arrived |-> org.version]
    <3>1. publishing' = [publishing EXCEPT ![p] = new] /\ org.status = "APPROVED" /\ org.agreed
      BY <2>1 DEF Authorise, CommercialContext, ApprovedOrganizer, AgreedOrganizer
    <3>2. publishing'[p].arrived = org.version
      BY <3>1 DEF DossierInv, DossierTypeOK
    <3> QED
      BY <1>1, <1>2, <3>1, <3>2 DEF PublicationOK, DossierInv, DossierTypeOK
  <2>2. CASE Publish(p)
    BY <1>1, <2>2 DEF Publish, PublicationOK, DossierInv, DossierTypeOK
  <2> QED
    BY <2>1, <2>2
<1>4. PublishingOK'
  <2>1. ASSUME NEW q \in Publishers \ {p} PROVE PublicationOK(q)'
    BY <1>1, <1>3 DEF PublicationOK, DossierInv, PublishingOK
  <2> QED
    BY <1>3, <2>1 DEF PublishingOK
<1> QED
  BY <1>1, <1>3, <1>4
     DEF DossierInv, DossierTypeOK, ReadingOK, VersionCoversNegotiation, AgreementStands,
         RequestsOK, Pending, DecisionsOK, DecisionOK

LEMMA ReadingKeeps ==
  ASSUME DossierInv, GetNegotiation \/ CommissionResponse
  PROVE  DossierInv'
<1>1. UNCHANGED <<org, proposals, decision, requests, publishing>>
  BY DEF GetNegotiation, CommissionResponse
<1>2. /\ reading' \in DossierRows \cup {Nothing}
      /\ ReadingOK' /\ VersionCoversNegotiation'
  <2>1. CASE GetNegotiation
    BY <2>1 DEF GetNegotiation, DossierInv, DossierTypeOK, ReadingOK, VersionCoversNegotiation
  <2>2. CASE CommissionResponse
    BY <2>2 DEF CommissionResponse, NegotiationData, DossierInv, DossierTypeOK, ReadingOK,
                VersionCoversNegotiation
  <2> QED
    BY <2>1, <2>2
<1> QED
  BY <1>1, <1>2
     DEF DossierInv, DossierTypeOK, AgreementStands, RequestsOK, Pending, DecisionsOK, DecisionOK,
         PublishingOK, PublicationOK

LEMMA NextDossier ==
  ASSUME DossierInv, [OnboardingNext]_dossierVars
  PROVE  DossierInv'
<1>1. CASE UNCHANGED dossierVars
  <2>1. UNCHANGED <<org, proposals, reading, served, decision, requests, publishing>>
    BY <1>1 DEF dossierVars
  <2>2. DossierTypeOK' /\ ReadingOK' /\ VersionCoversNegotiation' /\ AgreementStands'
    BY <2>1 DEF DossierInv, DossierTypeOK, ReadingOK, VersionCoversNegotiation, AgreementStands
  <2>3. RequestsOK' /\ DecisionsOK' /\ PublishingOK'
    BY <2>1
       DEF DossierInv, RequestsOK, Pending, DecisionsOK, DecisionOK, PublishingOK, PublicationOK
  <2> QED
    BY <2>2, <2>3 DEF DossierInv
<1> QED
  BY <1>1, ApplyKeeps, ReadingKeeps, NegotiationKeeps, DecideKeeps, RequestKeeps, ReviewKeeps, SellKeeps
     DEF OnboardingNext, Negotiate, Decide, Reactivate, Sell

LEMMA DossierInvariant == OnboardingSpec => []DossierInv
BY InitDossier, NextDossier, PTL DEF OnboardingSpec

-----------------------------------------------------------------------------
(* The theorems about the dossier. *)

\* The rows of the dossier, its proposals, its reactivations and the decisions under
\* way have the types of their columns (organizing/models.py).
THEOREM DossierTypes == OnboardingSpec => []DossierTypeOK
BY DossierInvariant, PTL DEF DossierInv

\* Whoever holds the present version has seen the present proposals, although they
\* are read by two queries (organizer_commission_negotiation_data).
THEOREM VersionsCoverNegotiation == OnboardingSpec => []VersionCoversNegotiation
BY DossierInvariant, PTL DEF DossierInv

\* A rate is agreed on a live account by accepting the other party's last proposal,
\* and stays as it is: only those that migration 0012 took for agreed have no proposal
\* (OrganizerCommissionService, OrganizerOnboardingService, OrganizerReactivationService).
THEOREM AgreementsAreMutual == OnboardingSpec => AgreementIsMutual
<1> DEFINE Final ==
      /\ org.agreed => org'.agreed /\ org'.rate = org.rate /\ proposals' = proposals
      /\ ~org.agreed /\ org'.agreed => proposals' # <<>>
<1>1. DossierInv /\ [OnboardingNext]_dossierVars => Final
  <2> SUFFICES ASSUME DossierInv, [OnboardingNext]_dossierVars PROVE Final
    OBVIOUS
  <2>1. CASE UNCHANGED <<org, proposals>>
    BY <2>1
  <2>2. CASE Apply
    BY <2>2 DEF Apply, Row, DossierInv, ReadingOK
  <2>3. proposals \in Seq(ProposalRows) /\ Alternate(proposals)
    BY DEF DossierInv, DossierTypeOK, AgreementStands, Alternate
  <2>4. LegacyInitial \in Seq(ProposalRows) /\ Alternate(LegacyInitial)
    BY LegacyList DEF DossierInv
  <2>5. ASSUME NEW list \in Seq(ProposalRows), Alternate(list), list # <<>>, Accept(list)
        PROVE  Final
    BY <2>5, AcceptSteps
  <2>6. ASSUME NEW list \in Seq(ProposalRows), Alternate(list), NEW rate \in Rates,
               NEW party \in Parties,
               Turn(list, IF party = "ADMIN" THEN "ORGANIZER" ELSE "ADMIN"),
               Counter(list, party, rate)
        PROVE  Final
    BY <2>6, CounterSteps
  <2>7. CASE OrganizerTurn
    BY <2>3, <2>5, <2>6, <2>7 DEF OrganizerTurn, OrganizerAccept, OrganizerCounter, Turn, Parties
  <2>8. CASE AdminTurn
    BY <2>4, <2>5, <2>6, <2>8 DEF AdminTurn, AdminAccept, AdminCounter, Turn, Parties
  <2>9. ASSUME NEW a \in Admins, WriteDecision(a) PROVE Final
    <3>1. org'.agreed = org.agreed /\ org'.rate = org.rate /\ proposals' = proposals
      BY <2>9, DecisionSteps
    <3> QED
      BY <3>1
  <2>10. ASSUME NEW i \in DOMAIN requests, ApproveReactivation(i) PROVE Final
    <3>1. org'.agreed = org.agreed /\ org'.rate = org.rate
      BY <2>10, StatusSteps DEF ApproveReactivation, Reopen, DossierStatuses
    <3> QED
      BY <2>10, <3>1 DEF ApproveReactivation
  <2>11. ASSUME NEW a \in Admins, Approve(a) \/ Reject(a) \/ Suspend(a) \/ RefuseDecision(a)
         PROVE  UNCHANGED <<org, proposals>>
    BY <2>11 DEF Approve, Reject, Suspend, CheckDossier, RefuseDecision, dossier
  <2>12. ASSUME NEW i \in DOMAIN requests, RejectReactivation(i) PROVE UNCHANGED <<org, proposals>>
    BY <2>12 DEF RejectReactivation, dossier
  <2> QED
    BY <2>1, <2>2, <2>7, <2>8, <2>9, <2>10, <2>11, <2>12
       DEF OnboardingNext, Negotiate, Decide, Reactivate, Sell, GetNegotiation, CommissionResponse,
           RequestReactivation, Authorise, Publish, dossier, dossierVars
<1>2. DossierInv => AgreementStands
  BY DEF DossierInv
<1> QED
  BY <1>1, <1>2, DossierInvariant, PTL DEF OnboardingSpec, AgreementIsMutual

\* Every new status comes from a lawful decision that is announced, a reactivation
\* from a request of this very suspension (OrganizerOnboardingService,
\* OrganizerReactivationService).
THEOREM LawfulDecisions == OnboardingSpec => DecisionsAreLawful
<1> DEFINE Lawful ==
     org.status # org'.status =>
       \/ org.status = "NONE" /\ org'.status = "PENDING"
       \/ /\ \/ org.status = "PENDING" /\ org'.status \in {"APPROVED", "REJECTED"}
             \/ org.status = "APPROVED" /\ org'.status = "SUSPENDED"
          /\ told' = org'.status
       \/ /\ org.status = "SUSPENDED" /\ org'.status = "APPROVED" /\ told' = "REOPENED"
          /\ \E i \in Pending : /\ requests'[i].status = "APPROVED"
                                /\ requests[i].organizer_version = org.version
<1>1. DossierInv /\ [OnboardingNext]_dossierVars => Lawful
  <2> SUFFICES ASSUME DossierInv, [OnboardingNext]_dossierVars PROVE Lawful
    OBVIOUS
  <2>1. CASE UNCHANGED org
    BY <2>1
  <2>2. CASE Apply
    BY <2>2 DEF Apply, Row
  <2>3. proposals \in Seq(ProposalRows) /\ Alternate(proposals)
    BY DEF DossierInv, DossierTypeOK, AgreementStands, Alternate
  <2>4. LegacyInitial \in Seq(ProposalRows) /\ Alternate(LegacyInitial)
    BY LegacyList DEF DossierInv
  <2>5. ASSUME NEW list \in Seq(ProposalRows), Alternate(list), list # <<>>, Accept(list)
        PROVE  Lawful
    BY <2>5, AcceptSteps
  <2>6. ASSUME NEW list \in Seq(ProposalRows), Alternate(list), NEW rate \in Rates,
               NEW party \in Parties,
               Turn(list, IF party = "ADMIN" THEN "ORGANIZER" ELSE "ADMIN"),
               Counter(list, party, rate)
        PROVE  Lawful
    BY <2>6, CounterSteps
  <2>7. CASE OrganizerTurn
    BY <2>3, <2>5, <2>6, <2>7 DEF OrganizerTurn, OrganizerAccept, OrganizerCounter, Turn, Parties
  <2>8. CASE AdminTurn
    BY <2>4, <2>5, <2>6, <2>8 DEF AdminTurn, AdminAccept, AdminCounter, Turn, Parties
  <2>9. ASSUME NEW a \in Admins, WriteDecision(a) PROVE Lawful
    <3>1. /\ decision[a].target \in {"APPROVED", "REJECTED", "SUSPENDED"}
          /\ org.status = IF decision[a].target = "SUSPENDED" THEN "APPROVED" ELSE "PENDING"
          /\ org'.status = decision[a].target /\ told' = decision[a].target
      BY <2>9, DecisionSteps
    <3> QED
      BY <3>1
  <2>10. ASSUME NEW i \in DOMAIN requests, ApproveReactivation(i) PROVE Lawful
    <3>1. /\ i \in Pending /\ requests'[i].status = "APPROVED"
          /\ org.status = "SUSPENDED" /\ requests[i].organizer_version = org.version
      BY <2>10, ReviewSteps DEF ApproveReactivation
    <3>2. org'.status = "APPROVED" /\ told' = "REOPENED"
      BY <2>10, StatusSteps DEF ApproveReactivation, Reopen, Announce, DossierStatuses
    <3> QED
      BY <3>1, <3>2
  <2>11. ASSUME NEW a \in Admins, Approve(a) \/ Reject(a) \/ Suspend(a) \/ RefuseDecision(a)
         PROVE  UNCHANGED org
    BY <2>11 DEF Approve, Reject, Suspend, CheckDossier, RefuseDecision, dossier
  <2>12. ASSUME NEW i \in DOMAIN requests, RejectReactivation(i) PROVE UNCHANGED org
    BY <2>12 DEF RejectReactivation, dossier
  <2> QED
    BY <2>1, <2>2, <2>7, <2>8, <2>9, <2>10, <2>11, <2>12
       DEF OnboardingNext, Negotiate, Decide, Reactivate, Sell, GetNegotiation, CommissionResponse,
           RequestReactivation, Authorise, Publish, dossier, dossierVars
<1> QED
  BY <1>1, DossierInvariant, PTL DEF OnboardingSpec, DecisionsAreLawful

\* An event is published under an agreement, and after a suspension only by a request
\* authorised before it (CatalogOrganizerContextMixin, EventPublishView).
THEOREM SuspendedPublishNothing == OnboardingSpec => SuspensionStopsPublishing
<1>1. DossierInv =>
        \A p \in Publishers : publishing[p].pc = "authorised" /\ publishing'[p].pc = "published" =>
          org.agreed /\ (org.status = "APPROVED" \/ publishing[p].arrived < org.version)
  <2> SUFFICES ASSUME DossierInv, NEW p \in Publishers, publishing[p].pc = "authorised"
               PROVE  org.agreed /\ (org.status = "APPROVED" \/ publishing[p].arrived < org.version)
    OBVIOUS
  <2>1. publishing[p].arrived \in Nat /\ org.version \in Nat
    BY DEF DossierInv, DossierTypeOK, DossierRows
  <2>2. PublicationOK(p)
    BY DEF DossierInv, PublishingOK
  <2> QED
    BY <2>1, <2>2 DEF PublicationOK
<1> QED
  BY <1>1, DossierInvariant, PTL DEF OnboardingSpec, SuspensionStopsPublishing
-----------------------------------------------------------------------------
(* The scanner. *)

ScannerStatuses == {"NONE"} \cup PreActive \cup Team \cup Terminal
ScannerRows == [status : ScannerStatuses, version : Nat, archived : BOOLEAN]
Users == [active : BOOLEAN, must_change : BOOLEAN, generation : Nat, own : BOOLEAN,
          spent : BOOLEAN, phone : BOOLEAN]
Secrets == Nat \X BOOLEAN
Calls == [op : {"login", "password", "phone", "leave", "help"}, secret : Secrets,
          must_change : BOOLEAN, version : Nat]
Events == {"logged_in", "password_changed", "profile_updated"}
Ledgers == [sent : Nat, guesses : Nat, used : Nat, lapsed : Nat]

ScannerTypeOK ==
  /\ scanner \in ScannerRows
  /\ account \in Users
  /\ sessions \in SUBSET [secret : Secrets, late : BOOLEAN]
  /\ call \in Calls \cup {NoCall}
  /\ events \in SUBSET Events
  /\ activating \in BOOLEAN
  /\ codes \in [Actions -> Nat]
  /\ ledger \in Ledgers

\* Before the invitation there is no account, and nobody does anything with it.
NotInvited ==
  scanner.status = "NONE" => ~account.active /\ sessions = {} /\ call = NoCall

\* Only who has set a password of their own is free of the temporary one.
OwnPassword == account.active /\ ~account.must_change => account.own

ScannerInv ==
  /\ ScannerTypeOK
  /\ NotInvited
  /\ OwnPassword
  /\ OldAccessEnds
  /\ VersionCoversLeave
  /\ CodesAreSpentOnce

LEMMA StatusFacts ==
  /\ PreActive = {"INVITED", "EMAIL_SENT", "OPENED"}
  /\ Team = {"ACTIVE", "LEAVE_REQUESTED"}
  /\ Terminal = {"INVITATION_CANCELLED", "DELETED"}
  /\ ScannerStatuses = {"NONE", "INVITED", "EMAIL_SENT", "OPENED", "ACTIVE", "LEAVE_REQUESTED",
                        "INVITATION_CANCELLED", "DELETED"}
BY DEF PreActive, Team, Terminal, ScannerStatuses, Lifecycle!PreActive, Lifecycle!Team,
       Lifecycle!Terminal

LEMMA InitScanner == ScannersInit => ScannerInv
<1> SUFFICES ASSUME ScannersInit PROVE ScannerInv
  OBVIOUS
<1> USE DEF ScannersInit
<1>1. ScannerTypeOK
  BY StatusFacts DEF ScannerTypeOK, ScannerRows, Users, Ledgers
<1>2. NotInvited /\ OwnPassword /\ OldAccessEnds /\ VersionCoversLeave
  BY StatusFacts
     DEF NotInvited, OwnPassword, OldAccessEnds, VersionCoversLeave, MayScan, MaySeePortal
<1>3. {a \in Actions : codes[a] > 0} = {}
  BY DEF Actions
<1>4. CodesAreSpentOnce
  <2>1. codes["REVOKE"] + codes["LEAVE_ACCEPT"] + codes["LEAVE_REQUEST"] = 0
    BY DEF Actions
  <2>2. Cardinality({a \in Actions : codes[a] > 0}) = 0
    BY <1>3, FS_EmptySet
  <2>3. MaxAttempts \in Nat
    BY ScannersAssumption
  <2>4. /\ ledger.sent = 0 /\ ledger.guesses = 0 /\ ledger.used = 0 /\ ledger.lapsed = 0
        /\ MaxAttempts * 0 = 0
    BY <2>3
  <2> QED
    BY <2>1, <2>2, <2>4 DEF CodesAreSpentOnce
<1> QED
  BY <1>1, <1>2, <1>4 DEF ScannerInv

-----------------------------------------------------------------------------
(* What the operations do to a row. *)

LEMMA VersionedSteps ==
  ASSUME NEW rec \in ScannerRows, Versioned(rec)
  PROVE  /\ scanner' \in ScannerRows /\ scanner'.version = rec.version + 1
         /\ scanner'.status = rec.status /\ scanner'.archived = rec.archived
         /\ listed' = {}
<1>1. scanner' = [rec EXCEPT !.version = rec.version + 1] /\ listed' = {}
  BY DEF Versioned
<1>2. rec.version + 1 \in Nat
  BY DEF ScannerRows
<1> QED
  BY <1>1, <1>2 DEF ScannerRows

LEMMA RotateSteps ==
  ASSUME ScannerTypeOK, RotatePassword
  PROVE  /\ account' \in Users /\ account'.active = account.active
         /\ account'.generation = account.generation + 1 /\ account.generation < MaxGeneration
         /\ account'.must_change /\ sessions' = {}
<1>1. account \in Users /\ account.generation + 1 \in Nat
  BY DEF ScannerTypeOK, Users
<1>2. account' = [account EXCEPT !.generation = account.generation + 1, !.own = FALSE,
                                 !.must_change = TRUE, !.spent = FALSE]
  BY DEF RotatePassword
<1>3. /\ account' \in Users /\ account'.active = account.active
      /\ account'.generation = account.generation + 1 /\ account'.must_change = TRUE
  BY <1>1, <1>2 DEF Users
<1> QED
  BY <1>3 DEF RotatePassword

LEMMA RemoveSteps ==
  ASSUME ScannerTypeOK, RemoveScanner
  PROVE  /\ scanner' \in ScannerRows /\ listed' = {}
         /\ scanner.status \in PreActive \cup Team /\ scanner'.status = RemovedStatus
         /\ scanner'.status \in Terminal /\ (scanner.status \in Team => scanner'.status = "DELETED")
         /\ account' \in Users /\ ~account'.active
         /\ account'.generation = account.generation /\ account'.own = account.own
         /\ sessions' = {}
         /\ UNCHANGED <<call, events, activating, overtaken, help>>
<1> DEFINE rec == [scanner EXCEPT !.status = RemovedStatus]
<1>1. scanner \in ScannerRows /\ account \in Users
  BY DEF ScannerTypeOK
<1>2. RemovedStatus \in Terminal /\ (scanner.status \in Team => RemovedStatus = "DELETED")
  BY StatusFacts DEF RemovedStatus
<1>3. rec \in ScannerRows /\ rec.status = RemovedStatus
  BY <1>1, <1>2 DEF ScannerRows, ScannerStatuses
<1>4. scanner' \in ScannerRows /\ scanner'.status = RemovedStatus /\ listed' = {}
  BY <1>3, VersionedSteps DEF RemoveScanner
<1>5. account' = [account EXCEPT !.active = FALSE, !.must_change = FALSE,
                                 !.spent = FALSE, !.phone = FALSE]
  BY DEF RemoveScanner, DeactivateAccount
<1>6. /\ account' \in Users /\ account'.active = FALSE
      /\ account'.generation = account.generation /\ account'.own = account.own
  BY <1>1, <1>5 DEF Users
<1> QED
  BY <1>2, <1>4, <1>6 DEF RemoveScanner, DeactivateAccount

\* A new status that moves the version on.
LEMMA NewStatusSteps ==
  ASSUME ScannerTypeOK, NEW target \in ScannerStatuses,
         Versioned([scanner EXCEPT !.status = target])
  PROVE  scanner' \in ScannerRows /\ scanner'.status = target /\ listed' = {}
<1>1. scanner \in ScannerRows
  BY DEF ScannerTypeOK
<1>2. /\ [scanner EXCEPT !.status = target] \in ScannerRows
      /\ [scanner EXCEPT !.status = target].status = target
  BY <1>1 DEF ScannerRows
<1> QED
  BY <1>2, VersionedSteps

LEMMA ArchiveSteps ==
  ASSUME ScannerTypeOK, Archive
  PROVE  /\ scanner' \in ScannerRows /\ scanner'.status = scanner.status /\ listed' = {}
         /\ UNCHANGED <<account, sessions, call, events, activating, overtaken, help, codes, ledger>>
<1> DEFINE rec == [scanner EXCEPT !.archived = TRUE]
<1>1. scanner \in ScannerRows
  BY DEF ScannerTypeOK
<1>2. rec \in ScannerRows /\ rec.status = scanner.status
  BY <1>1 DEF ScannerRows
<1>3. Versioned(rec)
  BY DEF Archive
<1> QED
  BY <1>2, <1>3, VersionedSteps DEF Archive, portal, security

\* The status moves towards ACTIVE under the same version.
LEMMA AdvanceSteps ==
  ASSUME ScannerTypeOK, InvitationEmailed \/ OnLoggedIn \/ Activate
  PROVE  /\ scanner' \in ScannerRows
         /\ \/ scanner'.status = scanner.status
            \/ scanner.status = "INVITED" /\ scanner'.status = "EMAIL_SENT"
            \/ scanner.status \in {"INVITED", "EMAIL_SENT"} /\ scanner'.status = "OPENED"
            \/ scanner.status \in PreActive /\ scanner'.status = "ACTIVE"
         /\ UNCHANGED <<account, sessions, call, overtaken, help, codes, ledger, listed>>
<1>1. scanner \in ScannerRows
  BY DEF ScannerTypeOK
<1>2. UNCHANGED <<account, sessions, call, overtaken, help, codes, ledger, listed>>
  BY DEF InvitationEmailed, OnLoggedIn, Activate, portal, security
<1>3. PICK target \in ScannerStatuses :
        /\ scanner' = [scanner EXCEPT !.status = target]
        /\ \/ target = scanner.status
           \/ scanner.status = "INVITED" /\ target = "EMAIL_SENT"
           \/ scanner.status \in {"INVITED", "EMAIL_SENT"} /\ target = "OPENED"
           \/ scanner.status \in PreActive /\ target = "ACTIVE"
  <2>1. scanner.status \in ScannerStatuses
    BY <1>1 DEF ScannerRows
  <2>2. CASE InvitationEmailed
    BY <2>1, <2>2, StatusFacts DEF InvitationEmailed
  <2>3. CASE OnLoggedIn
    BY <2>1, <2>3, StatusFacts DEF OnLoggedIn
  <2>4. CASE Activate
    BY <2>1, <2>4, StatusFacts DEF Activate, Activated
  <2> QED
    BY <2>2, <2>3, <2>4
<1>4. scanner' \in ScannerRows /\ scanner'.status = target
  BY <1>1, <1>3 DEF ScannerRows
<1> QED
  BY <1>2, <1>3, <1>4

\* A login opens at most one session, and marks the password at most.
LEMMA LoginSteps ==
  ASSUME ScannerTypeOK, FinishLogin
  PROVE  /\ call \in Calls /\ call' = NoCall
         /\ account' \in Users /\ events' \in SUBSET Events
         /\ account'.active = account.active /\ account'.must_change = account.must_change
         /\ account'.generation = account.generation /\ account'.own = account.own
         /\ sessions' \subseteq sessions \cup {[secret |-> call.secret,
               late |-> ((call.secret # Secret(account)) \/ ~account.active)]}
         /\ UNCHANGED <<scanner, activating, overtaken, help, codes, ledger, listed>>
<1>1. account \in Users
  BY DEF ScannerTypeOK
<1>2. call \in Calls /\ call' = NoCall
  BY DEF FinishLogin, ScannerTypeOK, NoCall
<1>3. UNCHANGED <<scanner, activating, overtaken, help, codes, ledger, listed>>
  BY DEF FinishLogin, security
<1>4. PICK spent \in BOOLEAN : account' = [account EXCEPT !.spent = spent]
  <2>1. account = [account EXCEPT !.spent = account.spent] /\ account.spent \in BOOLEAN
    BY <1>1 DEF Users
  <2>2. \A mustChange : (account.spent \/ mustChange) \in BOOLEAN
    OBVIOUS
  <2> QED
    BY <2>1, <2>2 DEF FinishLogin
<1>5. /\ events' \in SUBSET Events
      /\ sessions' \subseteq sessions \cup {[secret |-> call.secret,
             late |-> ((call.secret # Secret(account)) \/ ~account.active)]}
  BY DEF FinishLogin, ScannerTypeOK, Events
<1>6. /\ account' \in Users
      /\ account'.active = account.active /\ account'.must_change = account.must_change
      /\ account'.generation = account.generation /\ account'.own = account.own
  BY <1>1, <1>4 DEF Users
<1> QED
  BY <1>2, <1>3, <1>5, <1>6
\* The scanner's own requests are read, and some of them come to nothing.
QuietSteps ==
  \/ StartLogin \/ StartPassword \/ StartPhone \/ StartLeave \/ StartHelp
  \/ RefuseLeave \/ FinishHelp

LEMMA QuietFacts ==
  ASSUME ScannerTypeOK, QuietSteps
  PROVE  /\ call' \in Calls \cup {NoCall}
         /\ call' # NoCall => \/ account.active
                              \/ sessions # {}
         /\ UNCHANGED <<scanner, account, sessions, events, activating, overtaken, codes, ledger, listed>>
<1>1. Secret(account) \in Secrets /\ account.must_change \in BOOLEAN /\ scanner.version \in Nat
  BY DEF ScannerTypeOK, Users, Secret, Secrets, ScannerRows
<1>2. ASSUME NEW op \in {"login", "password", "phone", "leave", "help"}, Begin(op)
      PROVE  /\ call' \in Calls
             /\ UNCHANGED <<scanner, account, sessions, events, activating, overtaken, codes, ledger, listed>>
  <2>1. (IF op = "leave" THEN scanner.version ELSE 0) \in Nat
    BY <1>1
  <2> QED
    BY <1>1, <1>2, <2>1 DEF Begin, Calls, security
<1>3. CASE RefuseLeave \/ FinishHelp
  BY <1>3 DEF RefuseLeave, RolledBack, FinishHelp, security
<1>4. CASE StartLogin \/ StartPassword \/ StartPhone \/ StartLeave \/ StartHelp
  BY <1>2, <1>4
     DEF StartLogin, StartPassword, StartPhone, StartLeave, StartHelp, Authenticated
<1> QED
  BY <1>3, <1>4 DEF QuietSteps

\* A refusal takes back what its transaction did.
LEMMA RefusalFacts ==
  ASSUME NEW action, RefuseConfirmation(action)
  PROVE  UNCHANGED scannerVars
BY DEF RefuseConfirmation, RolledBack, portal, scannerVars

\* Codes are sent, guessed at, expire, or carry out an operation.
CodeSteps(action) ==
  \/ SendCode(action) \/ WrongCode(action) \/ CodeExpires(action) \/ ConsumeCode(action)

LEMMA CodeTypes ==
  ASSUME ScannerTypeOK, NEW action \in Actions, CodeSteps(action)
  PROVE  codes' \in [Actions -> Nat] /\ ledger' \in Ledgers
<1>1. MaxAttempts \in Nat /\ Open(action) \in {0, 1}
  BY ScannersAssumption DEF Open
<1>2. CASE SendCode(action)
  <2>1. codes' \in [Actions -> Nat]
    BY <1>1, <1>2 DEF SendCode, ScannerTypeOK
  <2>2. ledger.sent + 1 \in Nat /\ ledger.lapsed + Open(action) \in Nat
    BY <1>1 DEF ScannerTypeOK, Ledgers
  <2>3. ledger' = [ledger EXCEPT !.sent = ledger.sent + 1, !.lapsed = ledger.lapsed + Open(action)]
    BY <1>2 DEF SendCode, ScannerTypeOK, Ledgers
  <2> QED
    BY <2>1, <2>2, <2>3 DEF ScannerTypeOK, Ledgers
<1>3. CASE WrongCode(action)
  <2>1. codes[action] - 1 \in Nat
    BY <1>3 DEF WrongCode, ScannerTypeOK
  <2>2. Open(action) = 1 /\ Open(action)' \in {0, 1}
    BY <1>3 DEF WrongCode, Open
  <2>3. codes' \in [Actions -> Nat]
    BY <1>3, <2>1 DEF WrongCode, CountAttempt, ScannerTypeOK
  <2>4. ledger.guesses + 1 \in Nat /\ ledger.lapsed + Open(action) - Open(action)' \in Nat
    BY <2>2 DEF ScannerTypeOK, Ledgers
  <2>5. ledger' = [ledger EXCEPT !.guesses = ledger.guesses + 1,
                                 !.lapsed = ledger.lapsed + Open(action) - Open(action)']
    BY <1>3 DEF WrongCode, ScannerTypeOK, Ledgers
  <2> QED
    BY <2>3, <2>4, <2>5 DEF ScannerTypeOK, Ledgers
<1>4. CASE CodeExpires(action) \/ ConsumeCode(action)
  BY <1>4 DEF CodeExpires, ConsumeCode, ScannerTypeOK, Ledgers
<1> QED
  BY <1>2, <1>3, <1>4 DEF CodeSteps

LEMMA NextScannerTypes ==
  ASSUME ScannerTypeOK, [ScannersNext]_scannerVars
  PROVE  ScannerTypeOK'
<1>1. CASE Invite
  BY <1>1, StatusFacts
     DEF Invite, InvitedAccount, ScannerTypeOK, ScannerRows, Users, portal, security
<1>2. CASE InvitationEmailed \/ OnLoggedIn \/ Activate
  <2>1. events' \in SUBSET Events /\ activating' \in BOOLEAN
    BY <1>2 DEF InvitationEmailed, OnLoggedIn, Activate, portal, ScannerTypeOK
  <2> QED
    BY <1>2, <2>1, AdvanceSteps DEF ScannerTypeOK
<1>3. CASE PasswordExpires
  BY <1>3 DEF PasswordExpires, ScannerTypeOK, Users, portal, security
<1>4. CASE Resend \/ Reissue
  BY <1>4, RotateSteps DEF Resend, Reissue, ScannerTypeOK, security
<1>5. ASSUME NEW action \in Actions, SendCode(action) \/ WrongCode(action) \/ CodeExpires(action)
      PROVE  ScannerTypeOK'
  <2>1. codes' \in [Actions -> Nat] /\ ledger' \in Ledgers
    BY <1>5, CodeTypes DEF CodeSteps
  <2> QED
    BY <1>5, <2>1 DEF SendCode, WrongCode, CodeExpires, ScannerTypeOK, portal
<1>6. CASE Revoke \/ AcceptLeave
  <2>1. codes' \in [Actions -> Nat] /\ ledger' \in Ledgers
    BY <1>6, CodeTypes DEF Revoke, AcceptLeave, CodeSteps, Actions
  <2>2. RemoveScanner
    BY <1>6 DEF Revoke, AcceptLeave
  <2> QED
    BY <2>1, <2>2, RemoveSteps DEF ScannerTypeOK
<1>7. CASE RejectLeave
  BY <1>7, NewStatusSteps, StatusFacts DEF RejectLeave, ScannerTypeOK, portal, security
<1>8. CASE RequestLeave
  <2>1. codes' \in [Actions -> Nat] /\ ledger' \in Ledgers
    BY <1>8, CodeTypes DEF RequestLeave, CodeSteps, Actions
  <2>2. scanner' \in ScannerRows
    BY <1>8, NewStatusSteps, StatusFacts DEF RequestLeave
  <2> QED
    BY <1>8, <2>1, <2>2 DEF RequestLeave, ScannerTypeOK
<1>9. CASE Archive
  BY <1>9, ArchiveSteps DEF ScannerTypeOK
<1>10. CASE List
  BY <1>10 DEF List, ScannerTypeOK, portal, security
<1>11. CASE QuietSteps
  BY <1>11, QuietFacts DEF ScannerTypeOK
<1>12. CASE FinishLogin
  <2>1. [secret |-> call.secret, late |-> ((call.secret # Secret(account)) \/ ~account.active)]
          \in [secret : Secrets, late : BOOLEAN]
    BY <1>12, LoginSteps DEF Calls
  <2> QED
    BY <1>12, <2>1, LoginSteps DEF ScannerTypeOK
<1>13. CASE FinishPassword
  <2>1. account' \in Users
    BY <1>13 DEF FinishPassword, ScannerTypeOK, Users
  <2>2. events' \in SUBSET Events
    BY <1>13 DEF FinishPassword, ScannerTypeOK, Events
  <2> QED
    BY <1>13, <2>1, <2>2 DEF FinishPassword, ScannerTypeOK, security
<1>14. CASE FinishPhone
  BY <1>14 DEF FinishPhone, ScannerTypeOK, Users, Events, security
<1>15. ASSUME NEW event \in events, OnCredentialEvent(event) PROVE ScannerTypeOK'
  <2>1. Ready \in BOOLEAN
    BY DEF Ready
  <2> QED
    BY <1>15, <2>1 DEF OnCredentialEvent, ScannerTypeOK, security
<1>16. CASE UNCHANGED scannerVars
  BY <1>16 DEF scannerVars, ScannerTypeOK
<1> QED
  BY <1>1, <1>2, <1>3, <1>4, <1>5, <1>6, <1>7, <1>8, <1>9, <1>10, <1>11, <1>12, <1>13, <1>14, <1>15, <1>16, RefusalFacts
     DEF ScannersNext, Organizer, ScannerUser, Consumer, Time, QuietSteps

-----------------------------------------------------------------------------
(* Codes. *)

\* A change of one code, and of the ledger with it.
LEMMA CodeCount ==
  ASSUME ScannerTypeOK, ScannerTypeOK', CodesAreSpentOnce, NEW action \in Actions,
         \A a \in Actions \ {action} : codes'[a] = codes[a],
         \/ /\ codes'[action] = MaxAttempts
            /\ ledger'.sent = ledger.sent + 1
            /\ ledger'.guesses = ledger.guesses /\ ledger'.used = ledger.used
            /\ ledger'.lapsed = ledger.lapsed + (IF codes[action] > 0 THEN 1 ELSE 0)
         \/ /\ codes[action] > 0 /\ codes'[action] = codes[action] - 1
            /\ ledger'.sent = ledger.sent
            /\ ledger'.guesses = ledger.guesses + 1 /\ ledger'.used = ledger.used
            /\ ledger'.lapsed = ledger.lapsed + (IF codes'[action] > 0 THEN 0 ELSE 1)
         \/ /\ codes[action] > 0 /\ codes'[action] = 0
            /\ ledger'.sent = ledger.sent
            /\ ledger'.guesses = ledger.guesses
            /\ ledger'.used + ledger'.lapsed = ledger.used + ledger.lapsed + 1
  PROVE  CodesAreSpentOnce'
<1> DEFINE Opened == {a \in Actions : codes[a] > 0}
           open == Cardinality(Opened)
           left == codes["REVOKE"] + codes["LEAVE_ACCEPT"] + codes["LEAVE_REQUEST"]
           ended == ledger.used + ledger.lapsed
<1>1. ended + open = ledger.sent /\ ledger.guesses + left <= MaxAttempts * ledger.sent
  BY DEF CodesAreSpentOnce
<1>2. IsFiniteSet(Actions)
  <2>1. IsFiniteSet({"REVOKE"} \cup {"LEAVE_ACCEPT"} \cup {"LEAVE_REQUEST"})
    BY FS_Singleton, FS_Union
  <2> QED
    BY <2>1 DEF Actions
<1>3. IsFiniteSet(Opened) /\ IsFiniteSet(Opened')
  BY <1>2, FS_Subset
<1>4. open \in Nat /\ open' \in Nat
  BY <1>3, FS_CardinalityType
<1>5. /\ \A a \in Actions : codes[a] \in Nat /\ codes'[a] \in Nat
      /\ ledger.sent \in Nat /\ ledger.guesses \in Nat
      /\ ledger.used \in Nat /\ ledger.lapsed \in Nat /\ ended \in Nat
      /\ ledger'.used \in Nat /\ ledger'.lapsed \in Nat /\ ended' \in Nat
      /\ MaxAttempts \in Nat /\ MaxAttempts > 0
  BY ScannersAssumption DEF ScannerTypeOK, Ledgers
<1>6. left' - left = codes'[action] - codes[action]
  BY <1>5 DEF Actions
<1>7. left \in Nat /\ left' \in Nat /\ MaxAttempts * ledger.sent \in Nat
  BY <1>5 DEF Actions
<1>8. ASSUME ended' + open' = ledger'.sent, ledger'.guesses + left' <= MaxAttempts * ledger'.sent
      PROVE  CodesAreSpentOnce'
  BY <1>8 DEF CodesAreSpentOnce
<1>9. CASE /\ codes'[action] = MaxAttempts
           /\ ledger'.sent = ledger.sent + 1
           /\ ledger'.guesses = ledger.guesses /\ ledger'.used = ledger.used
           /\ ledger'.lapsed = ledger.lapsed + (IF codes[action] > 0 THEN 1 ELSE 0)
  <2>1. Opened' = Opened \cup {action}
    BY <1>5, <1>9
  <2>2. open' = IF action \in Opened THEN open ELSE open + 1
    BY <1>3, <2>1, FS_AddElement
  <2>3. MaxAttempts * (ledger.sent + 1) = MaxAttempts * ledger.sent + MaxAttempts
    BY <1>5
  <2>4. left' <= left + MaxAttempts
    BY <1>5, <1>6, <1>7, <1>9
  <2>5. ended' = IF action \in Opened THEN ended + 1 ELSE ended
    BY <1>5, <1>9
  <2>6. ended' + open' = ledger'.sent
    <3> HIDE DEF Opened, open, ended
    <3> QED
      BY <1>1, <1>4, <1>5, <1>9, <2>2, <2>5
  <2>7. ledger'.guesses + left' <= MaxAttempts * ledger'.sent
    BY <1>1, <1>5, <1>7, <1>9, <2>3, <2>4
  <2> QED
    BY <1>8, <2>6, <2>7
<1>10. CASE /\ codes[action] > 0 /\ codes'[action] = codes[action] - 1
            /\ ledger'.sent = ledger.sent
            /\ ledger'.guesses = ledger.guesses + 1 /\ ledger'.used = ledger.used
            /\ ledger'.lapsed = ledger.lapsed + (IF codes'[action] > 0 THEN 0 ELSE 1)
  <2>1. Opened' = IF codes'[action] > 0 THEN Opened ELSE Opened \ {action}
    BY <1>5, <1>10
  <2>2. open' = IF codes'[action] > 0 THEN open ELSE open - 1
    BY <1>3, <1>10, <2>1, FS_RemoveElement
  <2>3. left' = left - 1
    <3>1. codes'[action] - codes[action] = 0 - 1
      BY <1>5, <1>10
    <3> HIDE DEF left
    <3> QED
      BY <1>6, <1>7, <3>1
  <2>4. ended' = IF codes'[action] > 0 THEN ended ELSE ended + 1
    BY <1>5, <1>10
  <2>5. ended' + open' = ledger'.sent
    <3> HIDE DEF Opened, open, ended
    <3> QED
      BY <1>1, <1>4, <1>5, <1>10, <2>2, <2>4
  <2>6. ledger'.guesses + left' <= MaxAttempts * ledger'.sent
    BY <1>1, <1>5, <1>7, <1>10, <2>3
  <2> QED
    BY <1>8, <2>5, <2>6
<1>11. CASE /\ codes[action] > 0 /\ codes'[action] = 0
            /\ ledger'.sent = ledger.sent
            /\ ledger'.guesses = ledger.guesses
            /\ ledger'.used + ledger'.lapsed = ledger.used + ledger.lapsed + 1
  <2>1. Opened' = Opened \ {action} /\ action \in Opened
    BY <1>5, <1>11
  <2>2. open' = open - 1
    BY <1>3, <2>1, FS_RemoveElement
  <2>3. left' <= left
    BY <1>5, <1>6, <1>7, <1>11
  <2>4. ended' = ended + 1
    BY <1>11
  <2>5. ended' + open' = ledger'.sent
    <3> HIDE DEF Opened, open, ended
    <3> QED
      BY <1>1, <1>4, <1>5, <1>11, <2>2, <2>4
  <2>6. ledger'.guesses + left' <= MaxAttempts * ledger'.sent
    BY <1>1, <1>5, <1>7, <1>11, <2>3
  <2> QED
    BY <1>8, <2>5, <2>6
<1> QED
  BY <1>9, <1>10, <1>11

LEMMA NextCodes ==
  ASSUME ScannerTypeOK, CodesAreSpentOnce, [ScannersNext]_scannerVars
  PROVE  CodesAreSpentOnce'
<1>1. CASE UNCHANGED <<codes, ledger>>
  BY <1>1 DEF CodesAreSpentOnce
<1>2. ScannerTypeOK'
  BY NextScannerTypes
<1>3. ASSUME NEW action \in Actions, CodeSteps(action) PROVE CodesAreSpentOnce'
  <2>1. codes \in [Actions -> Nat] /\ ledger \in Ledgers
    BY DEF ScannerTypeOK
  <2>2. CASE SendCode(action)
    BY <1>2, <2>1, <2>2, CodeCount DEF SendCode, Open, Ledgers
  <2>3. CASE WrongCode(action)
    <3>1. ledger'.lapsed = ledger.lapsed + (IF codes'[action] > 0 THEN 0 ELSE 1)
      BY <2>1, <2>3 DEF WrongCode, Open, Ledgers
    <3> QED
      BY <1>2, <2>1, <2>3, <3>1, CodeCount DEF WrongCode, CountAttempt, Ledgers
  <2>4. CASE CodeExpires(action)
    BY <1>2, <2>1, <2>4, CodeCount DEF CodeExpires, Ledgers
  <2>5. CASE ConsumeCode(action)
    BY <1>2, <2>1, <2>5, CodeCount DEF ConsumeCode, Ledgers
  <2> QED
    BY <1>3, <2>2, <2>3, <2>4, <2>5 DEF CodeSteps
<1>4. CASE Revoke \/ AcceptLeave \/ RequestLeave
  BY <1>3, <1>4 DEF Revoke, AcceptLeave, RequestLeave, CodeSteps, Actions
<1>5. CASE InvitationEmailed \/ OnLoggedIn \/ Activate
  BY <1>1, <1>5, AdvanceSteps
<1>6. CASE QuietSteps
  BY <1>1, <1>6, QuietFacts
<1> QED
  BY <1>1, <1>3, <1>4, <1>5, <1>6, RefusalFacts
     DEF ScannersNext, Organizer, ScannerUser, Consumer, Time, QuietSteps, CodeSteps, Invite, Resend,
         Reissue, List, Archive, RejectLeave, FinishLogin, FinishPassword, FinishPhone,
         OnCredentialEvent, PasswordExpires, security, scannerVars
-----------------------------------------------------------------------------
(* Access. *)

Access == NotInvited /\ OwnPassword /\ OldAccessEnds

\* A step that leaves the scanner in its place, and account and sessions alone.
LEMMA AccessStays ==
  ASSUME ScannerTypeOK, Access, UNCHANGED <<account, sessions>>,
         call' = NoCall \/ scanner.status # "NONE",
         scanner'.status = "NONE" <=> scanner.status = "NONE",
         scanner'.status \in Terminal <=> scanner.status \in Terminal
  PROVE  Access'
BY DEF Access, NotInvited, OwnPassword, OldAccessEnds, MayScan, MaySeePortal, Secret

\* A step that ends every session, and leaves whoever is in place in place.
LEMMA AccessEnds ==
  ASSUME ScannerTypeOK, Access, sessions' = {}, scanner'.status # "NONE",
         account'.active <=> scanner'.status \notin Terminal,
         account'.active /\ ~account'.must_change => account'.own
  PROVE  Access'
BY DEF Access, NotInvited, OwnPassword, OldAccessEnds, MayScan, MaySeePortal

LEMMA NextAccess ==
  ASSUME ScannerTypeOK, Access, [ScannersNext]_scannerVars
  PROVE  Access'
<1> USE StatusFacts
<1>1. /\ scanner.status = "NONE" => ~account.active /\ sessions = {} /\ call = NoCall
      /\ scanner.status # "NONE" => (account.active <=> scanner.status \notin Terminal)
      /\ account.active /\ ~account.must_change => account.own
  BY DEF Access, NotInvited, OwnPassword, OldAccessEnds
<1>2. CASE Invite
  <2>1. /\ scanner'.status = "INVITED" /\ account'.active /\ account'.must_change
        /\ sessions' = {}
    BY <1>1, <1>2 DEF Invite, InvitedAccount, portal
  <2> QED
    BY <2>1, AccessEnds
<1>3. CASE InvitationEmailed \/ OnLoggedIn \/ Activate
  <2>1. /\ scanner'.status = "NONE" <=> scanner.status = "NONE"
        /\ scanner'.status \in Terminal <=> scanner.status \in Terminal
        /\ UNCHANGED <<account, sessions, call>>
    BY <1>3, AdvanceSteps
  <2> QED
    BY <1>1, <2>1, AccessStays
<1>4. CASE Resend \/ Reissue
  <2>1. /\ scanner.status \in PreActive \cup Team /\ UNCHANGED scanner
        /\ RotatePassword
    BY <1>4 DEF Resend, Reissue
  <2>2. account'.active = account.active /\ account'.must_change /\ sessions' = {}
    BY <2>1, RotateSteps
  <2> QED
    BY <1>1, <2>1, <2>2, AccessEnds
<1>5. CASE Revoke \/ AcceptLeave
  <2>1. RemoveScanner
    BY <1>5 DEF Revoke, AcceptLeave
  <2> QED
    BY <2>1, RemoveSteps, AccessEnds
<1>6. CASE RejectLeave
  BY <1>1, <1>6, NewStatusSteps, AccessStays DEF RejectLeave, portal
<1>7. CASE RequestLeave
  BY <1>7, NewStatusSteps, AccessStays DEF RequestLeave
<1>8. CASE Archive
  BY <1>8, ArchiveSteps, AccessStays DEF Archive
<1>9. CASE QuietSteps
  BY <1>1, <1>9, QuietFacts, AccessStays
<1>10. CASE FinishLogin
  <2>1. /\ account'.active = account.active /\ account'.must_change = account.must_change
        /\ account'.generation = account.generation /\ account'.own = account.own
        /\ UNCHANGED scanner /\ call # NoCall
    BY <1>10, LoginSteps DEF FinishLogin, NoCall
  <2>2. Secret(account)' = Secret(account)
    BY <2>1 DEF Secret
  <2>3. ASSUME NEW t \in sessions'
        PROVE  /\ t.late \/ t.secret = Secret(account)
               /\ scanner.status \in Terminal => t.late
    <3> DEFINE new == [secret |-> call.secret,
                       late |-> ((call.secret # Secret(account)) \/ ~account.active)]
    <3>1. t \in sessions \/ t = new
      BY <1>10, LoginSteps
    <3>2. new.secret = call.secret /\ (new.late <=> call.secret # Secret(account) \/ ~account.active)
      OBVIOUS
    <3> QED
      BY <1>1, <3>1, <3>2 DEF Access, OldAccessEnds
  <2> QED
    BY <1>1, <2>1, <2>2, <2>3
       DEF Access, NotInvited, OwnPassword, OldAccessEnds, MayScan, MaySeePortal
<1>11. CASE FinishPassword
  <2>1. /\ account'.active = account.active /\ account'.own /\ sessions' = {}
        /\ UNCHANGED scanner /\ call # NoCall
    BY <1>11 DEF FinishPassword, ScannerTypeOK, Users, NoCall
  <2> QED
    BY <1>1, <2>1, AccessEnds
<1>12. CASE PasswordExpires \/ FinishPhone
  <2>1. /\ account'.active = account.active /\ account'.must_change = account.must_change
        /\ account'.generation = account.generation /\ account'.own = account.own
        /\ UNCHANGED <<scanner, sessions>> /\ (call' = call \/ call' = NoCall)
    BY <1>12 DEF PasswordExpires, FinishPhone, ScannerTypeOK, Users, portal
  <2> QED
    BY <1>1, <2>1
       DEF Access, NotInvited, OwnPassword, OldAccessEnds, MayScan, MaySeePortal, Secret
<1>13. CASE UNCHANGED <<scanner, account, sessions, call>>
  BY <1>1, <1>13, AccessStays
<1> QED
  BY <1>2, <1>3, <1>4, <1>5, <1>6, <1>7, <1>8, <1>9, <1>10, <1>11, <1>12, <1>13, RefusalFacts
     DEF ScannersNext, Organizer, ScannerUser, Consumer, Time, QuietSteps, SendCode, WrongCode,
         CodeExpires, List, OnCredentialEvent, portal, scannerVars

\* What the list shows does not change under one version.
LEMMA NextListed ==
  ASSUME ScannerTypeOK, VersionCoversLeave, [ScannersNext]_scannerVars
  PROVE  VersionCoversLeave'
<1> USE StatusFacts
<1>1. CASE listed' = {}
  BY <1>1 DEF VersionCoversLeave
<1>2. CASE UNCHANGED listed /\ Shown(scanner'.status) = Shown(scanner.status)
  BY <1>2 DEF VersionCoversLeave
<1>3. CASE Invite
  <2>1. scanner.status = "NONE" /\ scanner'.status = "INVITED" /\ UNCHANGED listed
    BY <1>3 DEF Invite
  <2> QED
    BY <1>2, <2>1 DEF Shown
<1>4. CASE InvitationEmailed \/ OnLoggedIn \/ Activate
  <2>1. Shown(scanner'.status) = Shown(scanner.status) /\ UNCHANGED listed
    BY <1>4, AdvanceSteps DEF Shown
  <2> QED
    BY <1>2, <2>1
<1>5. CASE Revoke \/ AcceptLeave \/ RejectLeave \/ RequestLeave \/ Archive
  BY <1>1, <1>5 DEF Revoke, AcceptLeave, RejectLeave, RequestLeave, Archive, RemoveScanner, Versioned
<1>6. CASE List
  BY <1>6 DEF List, VersionCoversLeave
<1>7. CASE QuietSteps
  BY <1>2, <1>7, QuietFacts
<1>8. CASE UNCHANGED <<scanner, listed>>
  BY <1>2, <1>8
<1> QED
  BY <1>3, <1>4, <1>5, <1>6, <1>7, <1>8, RefusalFacts
     DEF ScannersNext, Organizer, ScannerUser, Consumer, Time, QuietSteps, Resend, Reissue,
         SendCode, WrongCode, CodeExpires, FinishLogin, FinishPassword, FinishPhone, FinishHelp,
         PasswordExpires, OnCredentialEvent, scannerVars

LEMMA ScannerInvariant == ScannersSpec => []ScannerInv
<1>1. ScannerInv /\ [ScannersNext]_scannerVars => ScannerInv'
  BY NextScannerTypes, NextAccess, NextListed, NextCodes DEF ScannerInv, Access
<1> QED
  BY <1>1, InitScanner, PTL DEF ScannersSpec

-----------------------------------------------------------------------------
(* The theorems about the scanner. *)

\* The rows of scanner and account, the requests under way, the events and the codes
\* have the types of their columns (organizing and identity models.py).
THEOREM ScannerTypes == ScannersSpec => []ScannerTypeOK
BY ScannerInvariant, PTL DEF ScannerInv

\* A renewed password or a removal ends the access that was given before, but for a
\* login that was under way (rotate_scanner_temporary_password,
\* deactivate_scanner_account, login, change_password).
THEOREM OldAccessIsEnded == ScannersSpec => []OldAccessEnds
BY ScannerInvariant, PTL DEF ScannerInv

\* Whatever is refused, a code is open, has carried out one operation, or lapsed, and
\* its attempts are bounded, for any number of codes (ScannerSecurityService).
THEOREM CodesSpentOnce == ScannersSpec => []CodesAreSpentOnce
BY ScannerInvariant, PTL DEF ScannerInv

\* Who holds the present version of a scanner saw its leave request or removal
\* (OrganizerScannerCollectionView, ScannerLeaveService).
THEOREM VersionsCoverLeaves == ScannersSpec => []VersionCoversLeave
BY ScannerInvariant, PTL DEF ScannerInv

\* Scanners implements ScannerLifecycle: each of its steps is a step of the scanner's
\* life or leaves it as it is (the constraint of organizing_scanner and the services
\* that write the status).
THEOREM ScannersKeepLifecycle == ScannersSpec => LifecycleKept
<1>1. ScannersInit => Lifecycle!Init
  BY DEF ScannersInit, Lifecycle!Init
<1>2. ScannerTypeOK /\ [ScannersNext]_scannerVars
        => [Lifecycle!Next]_<<scanner.status, account.active, account.generation>>
  <2> SUFFICES ASSUME ScannerTypeOK, [ScannersNext]_scannerVars
               PROVE  [Lifecycle!Next]_<<scanner.status, account.active, account.generation>>
    OBVIOUS
  <2> DEFINE Same == UNCHANGED <<scanner.status, account.active, account.generation>>
  <2>1. CASE Invite
    BY <2>1 DEF Invite, InvitedAccount, Lifecycle!Next, Lifecycle!Invite
  <2>2. CASE InvitationEmailed \/ OnLoggedIn \/ Activate
    BY <2>2, AdvanceSteps, StatusFacts
       DEF Lifecycle!Next, Lifecycle!Advance, Lifecycle!PreActive
  <2>3. CASE Resend \/ Reissue
    <3>1. RotatePassword /\ UNCHANGED scanner /\ scanner.status \in PreActive \cup Team
      BY <2>3 DEF Resend, Reissue
    <3>2. /\ account'.active = account.active
          /\ account'.generation = account.generation + 1 /\ account.generation < MaxGeneration
      BY <3>1, RotateSteps
    <3> QED
      BY <3>1, <3>2 DEF Lifecycle!Next, Lifecycle!Renew, PreActive, Team
  <2>4. CASE Revoke \/ AcceptLeave
    <3>1. RemoveScanner
      BY <2>4 DEF Revoke, AcceptLeave
    <3>2. /\ scanner.status \in PreActive \cup Team /\ scanner'.status \in Terminal
          /\ scanner.status \in Team => scanner'.status = "DELETED"
          /\ ~account'.active /\ account'.generation = account.generation
      BY <3>1, RemoveSteps
    <3>3. account'.active = FALSE
      BY <3>1, <3>2, RemoveSteps DEF Users
    <3> QED
      BY <3>2, <3>3 DEF Lifecycle!Next, Lifecycle!Remove, PreActive, Team, Terminal
  <2>5. CASE RejectLeave
    BY <2>5, NewStatusSteps, StatusFacts
       DEF RejectLeave, Lifecycle!Next, Lifecycle!RejectLeave
  <2>6. CASE RequestLeave
    BY <2>6, NewStatusSteps, StatusFacts
       DEF RequestLeave, Lifecycle!Next, Lifecycle!RequestLeave
  <2>7. CASE Archive
    BY <2>7, ArchiveSteps
  <2>8. CASE QuietSteps
    BY <2>8, QuietFacts
  <2>9. CASE FinishLogin
    BY <2>9, LoginSteps
  <2>10. CASE FinishPassword \/ FinishPhone \/ PasswordExpires
    <3>1. Same
      BY <2>10 DEF FinishPassword, FinishPhone, PasswordExpires, ScannerTypeOK, Users
    <3> QED
      BY <3>1
  <2>11. CASE UNCHANGED <<scanner, account>>
    BY <2>11
  <2> QED
    BY <2>1, <2>2, <2>3, <2>4, <2>5, <2>6, <2>7, <2>8, <2>9, <2>10, <2>11, RefusalFacts
       DEF ScannersNext, Organizer, ScannerUser, Consumer, Time, QuietSteps, SendCode, WrongCode,
           CodeExpires, List, OnCredentialEvent, scannerVars
<1> QED
  BY <1>1, <1>2, ScannerTypes, PTL DEF ScannersSpec, LifecycleKept, Lifecycle!Spec

-----------------------------------------------------------------------------
(* The e-mail tasks: what the kinds have in common, and the invariant. *)

\* News that is scheduled when it becomes true and stays true.
FinalNews == {Scanner!Terminal, {"APPROVED", "REJECTED"}}

\* The statuses in which news that is not about a leave is news.
Lasting(about) ==
  CASE about = "scanner" -> {InTeam, Scanner!PreActive, Scanner!Terminal}
    [] about = "request" -> {{"PENDING"}, {"APPROVED", "REJECTED"}}
    [] about = "code"    -> {{"OPEN"}}
    [] about = "fixed"   -> {{"THERE"}}

\* What all kinds of task have in common: the groups follow each other, only the
\* two tasks with a letter to the scanner and one to the organizer check again, and
\* but for leaves no news comes back.
KindOK(k) ==
  /\ k.letters \in {<<1>>, <<1, 2>>, <<1, 1>>, <<1, 1, 2>>}
  /\ \A flag \in {k.carries, k.current, k.marked, k.rechecks, k.reports, k.retries, k.repeats} :
       flag \in BOOLEAN
  /\ k.about \in {"scanner", "request", "code", "fixed"}
  /\ k.rechecks => /\ k.letters = <<1, 2>> /\ k.marked /\ ~k.current /\ ~k.repeats
                   /\ k.about = "scanner" /\ k.wants = InTeam
  /\ k.about = "scanner" => "START" \notin k.after
  /\ k.reports => k.about = "scanner" /\ k.wants = InTeam
  /\ ~k.repeats => k.wants \in Lasting(k.about)
  /\ ~k.repeats /\ k.wants \in FinalNews => k.after = k.wants

TaskRows ==
  [pc : {"queued", "ready", "sent", "marked", "skipped", "done", "failed"},
   at : Nat \ {0}, tries : Nat, generation : Nat, request : Nat, outdated : Nat,
   obsolete : Nat]

MailTypeOK ==
  /\ kind \in Kinds
  /\ generation \in Nat /\ leaves \in Nat
  /\ tasks \in Seq(TaskRows)
  /\ copies \in [DOMAIN Letters -> Nat] /\ unsure \in [DOMAIN Letters -> Nat]
  /\ fresh \subseteq DOMAIN Letters
  /\ crashes \in Nat

\* The statuses each row goes through.
StatusesOf(about) ==
  CASE about = "scanner" -> Scanner!Statuses \cup {"NONE"}
    [] about = "request" -> {"PENDING", "APPROVED", "REJECTED"}
    [] about = "code"    -> {"OPEN", "CLOSED"}
    [] about = "fixed"   -> {"THERE"}

\* Tasks are about a scanner that exists, and follow one event unless they repeat;
\* before them nothing is sent, and they come after a final event.
RowOK ==
  /\ status \in StatusesOf(kind.about)
  /\ kind.about = "scanner" /\ status = "NONE" => tasks = <<>> /\ generation = 0
  /\ ~kind.repeats => Len(tasks) <= 1
  /\ ~kind.repeats /\ kind.wants \in FinalNews /\ tasks # <<>> => status \in kind.wants
  /\ tasks = <<>> => \A i \in DOMAIN Letters : copies[i] = 0

\* The present attempt of a task has come past a letter, or did so in the end.
Passed(t, i) ==
  \/ tasks[t].pc \in {"skipped", "done", "failed"}
  \/ tasks[t].pc = "ready" /\ i < tasks[t].at
  \/ tasks[t].pc \in {"sent", "marked"} /\ i <= tasks[t].at

\* Whatever it came past has been sent, by it or before it.
CoveredOK(t) ==
  \A i \in DOMAIN Letters :
    Passed(t, i) /\ tasks[t].pc \notin {"skipped", "failed"} => copies[i] > 0

PositionOK(t) ==
  /\ tasks[t].pc = "ready" => tasks[t].at <= Len(Letters) + 1
  /\ tasks[t].pc \in {"sent", "marked"} => tasks[t].at <= Len(Letters) /\ AwaitsMark(t)

\* A task that leaves marks which stay has none yet for the letter it is at.
UnmarkedOK(t) ==
  /\ kind.marked /\ ~kind.repeats
  /\ tasks[t].pc \in {"ready", "sent"} /\ tasks[t].at <= Len(Letters)
  => Letters[tasks[t].at] \notin marks

\* Letters about news that is over go out in one attempt, since the next would not
\* begin, and a task that checks again notices after the first.
OutdatedOK(t) ==
  /\ kind.repeats \/ status \in kind.wants => tasks[t].outdated = 0
  /\ IF kind.rechecks
     THEN /\ tasks[t].outdated <= 1
          /\ tasks[t].pc = "ready" /\ tasks[t].at <= Len(Letters) => tasks[t].outdated = 0
     ELSE /\ tasks[t].outdated <= Len(Letters)
          /\ tasks[t].pc = "ready" => tasks[t].outdated < tasks[t].at
          /\ tasks[t].pc \in {"sent", "marked"} => tasks[t].outdated <= tasks[t].at

\* So do letters with a password that is no longer valid.
ObsoleteOK(t) ==
  /\ tasks[t].generation <= generation
  /\ kind.current =>
       /\ ~Obsolete(t) => tasks[t].obsolete = 0
       /\ tasks[t].obsolete <= Len(Letters)
       /\ tasks[t].pc = "ready" => tasks[t].obsolete < tasks[t].at
       /\ tasks[t].pc \in {"sent", "marked"} => tasks[t].obsolete <= tasks[t].at

TaskOK(t) ==
  CoveredOK(t) /\ PositionOK(t) /\ UnmarkedOK(t) /\ OutdatedOK(t) /\ ObsoleteOK(t)

\* A mark, and the report of an invitation, tell of letters that were sent.
MarksOK ==
  /\ \A i \in DOMAIN Letters : Letters[i] \in marks => copies[i] > 0
  /\ kind.reports /\ status = "EMAIL_SENT" => \A i \in DOMAIN Letters : copies[i] > 0

\* What a task may account for: a copy for each attempt that failed, and one for the
\* present attempt once it came past the letter.
Points(t, i) == tasks[t].tries + (IF Passed(t, i) THEN 1 ELSE 0)

PointsFor(i) == [t \in DOMAIN tasks |-> Points(t, i)]

CountOK(i) == copies[i] <= crashes + SumFunctionOnSet(PointsFor(i), DOMAIN tasks)

\* A letter with a lasting mark of its own.
Once(i) ==
  /\ kind.marked /\ ~kind.repeats
  /\ \A j \in DOMAIN Letters : Letters[j] = Letters[i] => j = i

\* Its mark is there or is about to be.
Settled(i) ==
  \/ Letters[i] \in marks
  \/ \E t \in DOMAIN tasks : tasks[t].pc = "sent" /\ tasks[t].at = i

OnceOK(i) ==
  Once(i) => copies[i] <= unsure[i] + (IF Settled(i) THEN 1 ELSE 0)

MailInv ==
  /\ MailTypeOK /\ RowOK /\ MarksOK
  /\ \A t \in DOMAIN tasks : TaskOK(t)
  /\ \A i \in DOMAIN Letters : CountOK(i) /\ OnceOK(i)

LEMMA KindsOK == \A k \in Kinds : KindOK(k)
<1>23. {InTeam, Scanner!PreActive, {"PENDING"}, {"OPEN"}, {"THERE"}} \cap FinalNews = {}
  <2>1. "INVITED" \in InTeam /\ "INVITED" \in Scanner!PreActive
    BY DEF InTeam, Scanner!PreActive
  <2>2. \A S \in FinalNews : S \cap {"INVITED", "PENDING", "OPEN", "THERE"} = {}
    BY DEF FinalNews, Scanner!Terminal
  <2> QED
    BY <2>1, <2>2
<1>24. "START" \notin Scanner!Terminal
  BY DEF Scanner!Terminal
<1> USE DEF KindOK, Lasting
<1>1. KindOK(InvitationEmails)
  BY <1>23 DEF InvitationEmails, ToBoth
<1>2. KindOK(MilestoneEmails)
  BY <1>23 DEF MilestoneEmails, ToBoth
<1>3. KindOK(RevocationEmails)
  BY <1>23, <1>24 DEF RevocationEmails, ToBoth, FinalNews
<1>4. KindOK(InvitationReissuedEmails)
  BY <1>23 DEF InvitationReissuedEmails, ToBoth
<1>5. KindOK(PhoneChangedOrganizerEmail)
  BY <1>23 DEF PhoneChangedOrganizerEmail, ToBoth
<1>6. KindOK(PasswordHelpEmails)
  BY <1>23 DEF PasswordHelpEmails, ToBoth
<1>7. KindOK(PasswordReissuedEmails)
  BY <1>23 DEF PasswordReissuedEmails, ToBoth
<1>8. KindOK(LeaveRequestEmails)
  BY <1>23 DEF LeaveRequestEmails, ToBoth
<1>9. KindOK(LeaveRejectedEmails)
  BY <1>23 DEF LeaveRejectedEmails, ToBoth
<1>10. KindOK(ReactivationRequestedEmails)
  BY <1>23 DEF ReactivationRequestedEmails, ToOfficeAndAdmins, ToBoth
<1>11. KindOK(ReactivationDecisionEmails)
  BY <1>23 DEF ReactivationDecisionEmails, ToOfficeAndAdmins, ToBoth
<1>12. KindOK(PasswordResetEmail)
  BY <1>23 DEF PasswordResetEmail, Single, ToBoth
<1>13. KindOK(PasswordChangedEmail)
  BY <1>23 DEF PasswordChangedEmail, Single, ToBoth
<1>14. KindOK(PhoneChangedEmail)
  BY <1>23 DEF PhoneChangedEmail, Single, ToBoth
<1>15. KindOK(PostponementEmails)
  BY <1>23 DEF PostponementEmails, Single, ToBoth
<1>16. KindOK(EventScannerAssignmentEmails)
  BY <1>23 DEF EventScannerAssignmentEmails, Single, ToBoth
<1>17. KindOK(EventScannerLifecycleEmails)
  BY <1>23 DEF EventScannerLifecycleEmails, Single, ToBoth
<1>18. KindOK(SecurityCodeEmail)
  BY <1>23 DEF SecurityCodeEmail, Single, ToBoth
<1>19. KindOK(OrganizerDecisionEmail)
  BY <1>23 DEF OrganizerDecisionEmail, Single, ToBoth
<1>20. KindOK(RefundSucceededEmail)
  BY <1>23 DEF RefundSucceededEmail, Single, ToBoth
<1>21. KindOK(FinalReportEmail)
  BY <1>23 DEF FinalReportEmail, Single, ToBoth
<1>22. KindOK(TicketTransferEmails)
  BY <1>23 DEF TicketTransferEmails, Single, ToBoth
<1> HIDE DEF KindOK, Lasting
<1> QED
  BY <1>1, <1>2, <1>3, <1>4, <1>5, <1>6, <1>7, <1>8, <1>9, <1>10, <1>11, <1>12,
     <1>13, <1>14, <1>15, <1>16, <1>17, <1>18, <1>19, <1>20, <1>21, <1>22
     DEF Kinds, ScannerLetters, ReactivationLetters, IdentityLetters, EventLetters

-----------------------------------------------------------------------------
(* What the steps have in common. *)

LEMMA LetterFacts ==
  ASSUME kind \in Kinds
  PROVE  /\ KindOK(kind)
         /\ Len(Letters) \in 1..3
         /\ DOMAIN Letters = 1..Len(Letters)
         /\ \A i \in DOMAIN Letters : Letters[i] \in {1, 2}
         /\ \A i, j \in DOMAIN Letters : i <= j => Letters[i] <= Letters[j]
<1>1. KindOK(kind)
  BY KindsOK
<1>2. Letters \in {<<1>>, <<1, 2>>, <<1, 1>>, <<1, 1, 2>>}
  BY <1>1 DEF KindOK, Letters
<1> HIDE DEF Letters
<1>3. CASE Letters = <<1>>
  BY <1>1, <1>3
<1>4. CASE Letters = <<1, 2>>
  BY <1>1, <1>4
<1>5. CASE Letters = <<1, 1>>
  BY <1>1, <1>5
<1>6. CASE Letters = <<1, 1, 2>>
  BY <1>1, <1>6
<1> QED
  BY <1>2, <1>3, <1>4, <1>5, <1>6

\* The letters that NextLetter leaves out have their mark.
LEMMA NextLetterFacts ==
  ASSUME kind \in Kinds, NEW i \in 1..(Len(Letters) + 1)
  PROVE  /\ NextLetter(i) \in i..(Len(Letters) + 1)
         /\ \A j \in DOMAIN Letters : i <= j /\ j < NextLetter(i) => Letters[j] \in marks
         /\ NextLetter(i) <= Len(Letters) => Letters[NextLetter(i)] \notin marks
<1> DEFINE S == {j \in i..Len(Letters) : Letters[j] \notin marks} \cup {Len(Letters) + 1}
<1>1. Len(Letters) \in 1..3 /\ DOMAIN Letters = 1..Len(Letters)
  BY LetterFacts
<1>2. S \subseteq {1, 2, 3, 4} /\ S \subseteq i..(Len(Letters) + 1) /\ Len(Letters) + 1 \in S
  <2>1. S \subseteq i..(Len(Letters) + 1)
    BY <1>1
  <2>2. i..(Len(Letters) + 1) \subseteq {1, 2, 3, 4}
    BY <1>1
  <2> QED
    BY <2>1, <2>2
<1>3. \E x \in S : \A y \in S : x <= y
  <2> HIDE DEF S
  <2>1. CASE 1 \in S
    BY <1>2, <2>1
  <2>2. CASE 1 \notin S /\ 2 \in S
    BY <1>2, <2>2
  <2>3. CASE 1 \notin S /\ 2 \notin S /\ 3 \in S
    BY <1>2, <2>3
  <2>4. CASE 1 \notin S /\ 2 \notin S /\ 3 \notin S
    BY <1>2, <2>4
  <2> QED
    BY <2>1, <2>2, <2>3, <2>4
<1>4. NextLetter(i) \in S /\ \A y \in S : NextLetter(i) <= y
  BY <1>3 DEF NextLetter, Min
<1> QED
  BY <1>1, <1>2, <1>4

LEMMA TasksFinite ==
  ASSUME MailTypeOK
  PROVE  /\ DOMAIN tasks = 1..Len(tasks) /\ Len(tasks) \in Nat
         /\ IsFiniteSet(DOMAIN tasks) /\ Cardinality(DOMAIN tasks) = Len(tasks)
         /\ \A t \in DOMAIN tasks : tasks[t] \in TaskRows
<1>1. DOMAIN tasks = 1..Len(tasks) /\ Len(tasks) \in Nat
  BY DEF MailTypeOK
<1>2. IsFiniteSet(1..Len(tasks)) /\ Cardinality(1..Len(tasks)) = Len(tasks)
  <2> DEFINE n == Len(tasks)
  <2>1. n \in Nat
    BY <1>1
  <2> HIDE DEF n
  <2>2. IsFiniteSet(1..n) /\ Cardinality(1..n) = n
    BY <2>1, FS_Interval
  <2> QED
    BY <2>2 DEF n
<1> QED
  BY <1>1, <1>2 DEF MailTypeOK

\* A worker moves one task and leaves the others alone.
LEMMA WorkerKeeps ==
  ASSUME MailInv, NEW t \in DOMAIN tasks, NEW x \in TaskRows,
         tasks' = [tasks EXCEPT ![t] = x],
         UNCHANGED <<kind, generation, leaves, expired>>,
         copies' \in [DOMAIN Letters -> Nat], unsure' \in [DOMAIN Letters -> Nat],
         fresh' \subseteq DOMAIN Letters,
         \A i \in DOMAIN Letters : copies[i] <= copies'[i],
         crashes' \in Nat,
         \/ status' = status
         \/ kind.reports /\ status \in Scanner!PreActive /\ status' \in Scanner!PreActive,
         MarksOK', TaskOK(t)',
         \A i \in DOMAIN Letters :
           copies'[i] + crashes + Points(t, i) <= copies[i] + crashes' + Points(t, i)',
         \A i \in DOMAIN Letters : OnceOK(i)'
  PROVE  MailInv'
<1>1. /\ DOMAIN tasks = 1..Len(tasks) /\ Len(tasks) \in Nat /\ IsFiniteSet(DOMAIN tasks)
      /\ \A u \in DOMAIN tasks : tasks[u] \in TaskRows
  BY TasksFinite DEF MailInv
<1>2. /\ tasks' \in Seq(TaskRows) /\ Len(tasks') = Len(tasks)
      /\ DOMAIN tasks' = DOMAIN tasks /\ tasks'[t] = x
      /\ \A u \in DOMAIN tasks : u # t => tasks'[u] = tasks[u]
  BY <1>1, ExceptSeq DEF MailInv, MailTypeOK
<1>3. Letters' = Letters
  BY DEF Letters
<1>4. MailTypeOK'
  BY <1>2, <1>3 DEF MailInv, MailTypeOK
<1>8. KindOK(kind) /\ (status' \in kind.wants <=> status \in kind.wants)
  <2>1. KindOK(kind)
    BY LetterFacts DEF MailInv, MailTypeOK
  <2>2. kind.reports => kind.wants = InTeam
    BY <2>1 DEF KindOK
  <2> QED
    BY <2>1, <2>2 DEF InTeam
<1>5. RowOK'
  <2>1. status' \in StatusesOf(kind.about)
    <3>1. kind.reports => kind.about = "scanner"
      BY <1>8 DEF KindOK
    <3>2. Scanner!PreActive \subseteq StatusesOf("scanner")
      BY DEF StatusesOf, Scanner!Statuses
    <3> QED
      BY <3>1, <3>2 DEF MailInv, RowOK
  <2>2. tasks # <<>> /\ tasks' # <<>>
    BY <1>1, <1>2
  <2>3. status' = "NONE" => status = "NONE"
    BY DEF Scanner!PreActive
  <2> QED
    BY <1>2, <1>8, <2>1, <2>2, <2>3 DEF MailInv, RowOK
<1>6. ASSUME NEW u \in DOMAIN tasks'
      PROVE  TaskOK(u)'
  <2>1. CASE u = t
    BY <2>1
  <2>2. CASE u # t
    <3>1. tasks'[u] = tasks[u] /\ u \in DOMAIN tasks /\ TaskOK(u)
      BY <1>2, <2>2 DEF MailInv
    <3>2. kind.repeats
      BY <1>1, <2>2, <3>1 DEF MailInv, RowOK
    <3>4. CoveredOK(u)'
      <4> SUFFICES ASSUME NEW i \in DOMAIN Letters, Passed(u, i)',
                          tasks'[u].pc \notin {"skipped", "failed"}
                   PROVE  copies'[i] > 0
        BY <1>3 DEF CoveredOK
      <4>1. Passed(u, i)
        BY <3>1 DEF Passed
      <4>2. copies[i] > 0 /\ copies[i] \in Nat /\ copies'[i] \in Nat
        BY <3>1, <4>1 DEF TaskOK, CoveredOK, MailInv, MailTypeOK
      <4> QED
        BY <4>2
    <3>5. PositionOK(u)'
      BY <1>3, <3>1 DEF TaskOK, PositionOK, AwaitsMark, Ends
    <3>6. UnmarkedOK(u)'
      BY <3>2 DEF UnmarkedOK
    <3>7. OutdatedOK(u)'
      BY <1>3, <1>8, <3>1 DEF TaskOK, OutdatedOK
    <3>8. ObsoleteOK(u)'
      BY <1>3, <3>1 DEF TaskOK, ObsoleteOK, Obsolete
    <3> QED
      BY <3>4, <3>5, <3>6, <3>7, <3>8 DEF TaskOK
  <2> QED
    BY <2>1, <2>2
<1>7. ASSUME NEW i \in DOMAIN Letters'
      PROVE  CountOK(i)'
  <2>0. i \in DOMAIN Letters
    BY <1>3
  <2>1. \A u \in DOMAIN tasks : Points(u, i) \in Nat
    <3>1. \A u \in DOMAIN tasks : tasks[u].tries \in Nat
      BY <1>1 DEF TaskRows
    <3> QED
      BY <3>1 DEF Points
  <2>2. \A u \in DOMAIN tasks : Points(u, i)' \in Nat
    <3>1. \A u \in DOMAIN tasks : tasks'[u] \in TaskRows
      BY <1>1, <1>2
    <3>2. \A u \in DOMAIN tasks : tasks'[u].tries \in Nat
      BY <3>1 DEF TaskRows
    <3> QED
      BY <3>2 DEF Points
  <2>3. \A u \in DOMAIN tasks : u # t => Points(u, i)' = Points(u, i)
    BY <1>2 DEF Points, Passed
  <2> DEFINE f == PointsFor(i)
             g == PointsFor(i)'
  <2>4. \A u \in DOMAIN tasks : f[u] = Points(u, i) /\ g[u] = Points(u, i)'
    BY <1>2 DEF PointsFor
  <2>5. copies[i] <= crashes + SumFunctionOnSet(f, DOMAIN tasks)
    BY <2>0 DEF MailInv, CountOK
  <2> HIDE DEF f, g
  <2>6. /\ SumFunctionOnSet(f, DOMAIN tasks) \in Nat
        /\ SumFunctionOnSet(g, DOMAIN tasks) \in Nat
        /\ SumFunctionOnSet(g, DOMAIN tasks) + f[t] = SumFunctionOnSet(f, DOMAIN tasks) + g[t]
    <3>1. \A u \in DOMAIN tasks : f[u] \in Nat /\ g[u] \in Nat
      BY <2>1, <2>2, <2>4
    <3>2. \A u \in DOMAIN tasks \ {t} : f[u] = g[u]
      BY <2>3, <2>4
    <3> DEFINE D == DOMAIN tasks
    <3>3. /\ IsFiniteSet(D) /\ t \in D
          /\ \A u \in D : f[u] \in Nat /\ g[u] \in Nat
          /\ \A u \in D \ {t} : f[u] = g[u]
      BY <1>1, <3>1, <3>2
    <3> HIDE DEF D
    <3>4. SumFunctionOnSet(f, D) \in Nat /\ SumFunctionOnSet(g, D) \in Nat
      BY <3>3, SumMoves
    <3>5. SumFunctionOnSet(g, D) + f[t] = SumFunctionOnSet(f, D) + g[t]
      <4>1. IsFiniteSet(D \ {t}) /\ D \ {t} \subseteq D
        BY <3>3, FS_Subset
      <4>2. SumFunctionOnSet(f, D \ {t}) = SumFunctionOnSet(g, D \ {t})
        BY <3>3, <4>1, SumSame
      <4>3. SumFunctionOnSet(f, D) = f[t] + SumFunctionOnSet(f, D \ {t})
        BY <3>3, SumRemove
      <4>4. SumFunctionOnSet(g, D) = g[t] + SumFunctionOnSet(g, D \ {t})
        BY <3>3, SumRemove
      <4>5. SumFunctionOnSet(f, D \ {t}) \in Nat
        BY <3>3, <4>1, SumType
      <4> QED
        BY <3>3, <4>2, <4>3, <4>4, <4>5
    <3> QED
      BY <3>4, <3>5 DEF D
  <2>7. copies'[i] <= crashes' + SumFunctionOnSet(g, DOMAIN tasks)
    <3>1. copies'[i] + crashes + f[t] <= copies[i] + crashes' + g[t]
      BY <2>0, <2>4
    <3>2. copies[i] \in Nat /\ copies'[i] \in Nat /\ crashes \in Nat
      BY <2>0 DEF MailInv, MailTypeOK
    <3>3. f[t] \in Nat /\ g[t] \in Nat
      BY <2>1, <2>2, <2>4
    <3> QED
      BY <2>5, <2>6, <3>1, <3>2, <3>3
  <2> QED
    BY <1>2, <2>7 DEF CountOK, g
<1> QED
  BY <1>3, <1>4, <1>5, <1>6, <1>7 DEF MailInv

\* The row moves, and an event may schedule one more task.
LEMMA RowKeeps ==
  ASSUME MailInv, UNCHANGED <<kind, copies, unsure, crashes>>,
         fresh' \in {fresh, {}},
         generation' \in Nat, leaves' \in Nat, generation <= generation',
         generation' = generation => (expired => expired'),
         \/ tasks' = tasks
         \/ tasks' = Append(tasks, Task(generation', leaves')) /\ (kind.repeats \/ tasks = <<>>),
         marks' = marks \/ (kind.repeats /\ marks' = {}),
         status' \in StatusesOf(kind.about),
         kind.about = "scanner" /\ status' = "NONE" => tasks' = <<>> /\ generation' = 0,
         ~kind.repeats /\ tasks # <<>> /\ status' \in kind.wants => status \in kind.wants,
         ~kind.repeats /\ kind.wants \in FinalNews /\ tasks' # <<>> => status' \in kind.wants,
         kind.reports /\ status' = "EMAIL_SENT" => status = "EMAIL_SENT"
  PROVE  MailInv'
<1>1. /\ DOMAIN tasks = 1..Len(tasks) /\ Len(tasks) \in Nat /\ IsFiniteSet(DOMAIN tasks)
      /\ \A u \in DOMAIN tasks : tasks[u] \in TaskRows
  BY TasksFinite DEF MailInv
<1> DEFINE new == Task(generation', leaves')
<1>2. tasks \in Seq(TaskRows) /\ new \in TaskRows
  BY DEF MailInv, MailTypeOK, TaskRows, Task
<1>11. /\ new.pc = "queued" /\ new.outdated = 0 /\ new.obsolete = 0
       /\ new.generation = generation' /\ new.tries = 0
  BY DEF Task
<1> HIDE DEF new
<1>12. \/ tasks' = tasks
       \/ tasks' = Append(tasks, new) /\ (kind.repeats \/ tasks = <<>>)
  BY DEF new
<1>3. Letters' = Letters
  BY DEF Letters
<1>4. /\ tasks' \in Seq(TaskRows)
      /\ DOMAIN tasks \subseteq DOMAIN tasks'
      /\ \A u \in DOMAIN tasks : tasks'[u] = tasks[u]
      /\ \A u \in DOMAIN tasks' \ DOMAIN tasks : tasks'[u] = new
      /\ ~kind.repeats => Len(tasks') <= 1
  <2>1. CASE tasks' = tasks
    BY <1>1, <1>2, <2>1 DEF MailInv, RowOK
  <2>2. CASE tasks' = Append(tasks, new) /\ (kind.repeats \/ tasks = <<>>)
    <3>1. /\ tasks' \in Seq(TaskRows)
          /\ DOMAIN tasks' = 1..(Len(tasks) + 1) /\ Len(tasks') = Len(tasks) + 1
          /\ \A u \in 1..Len(tasks) : tasks'[u] = tasks[u]
          /\ tasks'[Len(tasks) + 1] = new
      BY <1>2, <2>2, AppendProperties
    <3>2. tasks = <<>> => Len(tasks) = 0
      OBVIOUS
    <3> DEFINE n == Len(tasks)
    <3>3. n \in Nat /\ DOMAIN tasks = 1..n /\ DOMAIN tasks' = 1..(n + 1)
      BY <1>1, <3>1
    <3> HIDE DEF n
    <3>4. DOMAIN tasks \subseteq DOMAIN tasks' /\ DOMAIN tasks' \ DOMAIN tasks = {n + 1}
      BY <3>3
    <3>5. \A u \in DOMAIN tasks : tasks'[u] = tasks[u]
      BY <3>1, <1>1
    <3>6. \A u \in DOMAIN tasks' \ DOMAIN tasks : tasks'[u] = new
      BY <3>1, <3>4 DEF n
    <3>7. ~kind.repeats => Len(tasks') <= 1
      BY <2>2, <3>1, <3>2
    <3> QED
      BY <3>1, <3>4, <3>5, <3>6, <3>7
  <2> QED
    BY <1>12, <2>1, <2>2
<1>5. MailTypeOK'
  BY <1>3, <1>4 DEF MailInv, MailTypeOK
<1>6. RowOK'
  <2>1. tasks' = <<>> => tasks = <<>>
    <3>1. tasks' = <<>> => DOMAIN tasks = {}
      BY <1>4
    <3> QED
      BY <1>1, <1>2, <3>1, EmptySeq
  <2> QED
    BY <1>3, <1>4, <2>1 DEF MailInv, RowOK
<1>7. MarksOK'
  BY <1>3 DEF MailInv, MarksOK
<1>8. ASSUME NEW u \in DOMAIN tasks'
      PROVE  TaskOK(u)'
  <2>1. CASE u \in DOMAIN tasks
    <3>1. tasks'[u] = tasks[u] /\ TaskOK(u) /\ tasks # <<>>
      BY <1>1, <1>4, <2>1 DEF MailInv
    <3>2. CoveredOK(u)' /\ PositionOK(u)'
      BY <1>3, <3>1 DEF TaskOK, CoveredOK, Passed, PositionOK, AwaitsMark, Ends
    <3>3. UnmarkedOK(u)'
      BY <1>3, <3>1 DEF TaskOK, UnmarkedOK
    <3>4. OutdatedOK(u)'
      BY <1>3, <3>1 DEF TaskOK, OutdatedOK
    <3>5. ObsoleteOK(u)'
      <4>1. tasks[u].generation \in Nat /\ tasks[u].generation <= generation
        BY <1>1, <2>1, <3>1 DEF TaskOK, ObsoleteOK, TaskRows
      <4>2. generation \in Nat
        BY DEF MailInv, MailTypeOK
      <4>3. Obsolete(u) => Obsolete(u)'
        <5>1. CASE generation' = generation
          BY <3>1, <5>1 DEF Obsolete
        <5>2. CASE generation' # generation
          BY <3>1, <4>1, <4>2, <5>2 DEF Obsolete
        <5> QED
          BY <5>1, <5>2
      <4> QED
        BY <1>3, <3>1, <4>1, <4>2, <4>3 DEF TaskOK, ObsoleteOK
    <3> QED
      BY <3>2, <3>3, <3>4, <3>5 DEF TaskOK
  <2>2. CASE u \notin DOMAIN tasks
    <3>1. /\ tasks'[u].pc = "queued" /\ tasks'[u].outdated = 0
          /\ tasks'[u].obsolete = 0 /\ tasks'[u].generation = generation'
      BY <1>4, <1>11, <2>2
    <3>2. CoveredOK(u)'
      BY <3>1 DEF CoveredOK, Passed
    <3>3. PositionOK(u)' /\ UnmarkedOK(u)'
      BY <3>1 DEF PositionOK, UnmarkedOK
    <3>4. OutdatedOK(u)'
      <4>1. Len(Letters) \in Nat
        BY LetterFacts DEF MailInv, MailTypeOK
      <4> QED
        BY <1>3, <3>1, <4>1 DEF OutdatedOK
    <3>5. ObsoleteOK(u)'
      <4>1. Len(Letters) \in Nat
        BY LetterFacts DEF MailInv, MailTypeOK
      <4> QED
        BY <1>3, <3>1, <4>1 DEF ObsoleteOK
    <3> QED
      BY <3>2, <3>3, <3>4, <3>5 DEF TaskOK
  <2> QED
    BY <2>1, <2>2
<1>9. ASSUME NEW i \in DOMAIN Letters'
      PROVE  CountOK(i)'
  <2> DEFINE f == PointsFor(i)
             h == PointsFor(i)'
             n == Len(tasks) + 1
             D == DOMAIN tasks
             E == DOMAIN tasks'
  <2>1. CountOK(i)
    BY <1>3 DEF MailInv
  <2>2. CASE tasks' = tasks
    BY <2>1, <2>2 DEF CountOK, PointsFor, Points, Passed
  <2>3. CASE tasks' # tasks
    <3>1. tasks' = Append(tasks, new)
      BY <1>12, <2>3
    <3>2. n \in Nat \ {0} /\ D = 1..(n - 1) /\ E = 1..n
      <4>1. E = 1..(Len(tasks) + 1)
        BY <1>2, <3>1, AppendProperties
      <4>2. Len(tasks) \in Nat /\ D = 1..Len(tasks)
        BY <1>1
      <4> HIDE DEF D, E
      <4>3. n - 1 = Len(tasks) /\ n \in Nat \ {0}
        BY <4>2
      <4> QED
        BY <4>1, <4>2, <4>3
    <3>3. IsFiniteSet(E) /\ IsFiniteSet(D) /\ D = E \ {n} /\ n \in E
      <4> HIDE DEF D, E, n
      <4>1. IsFiniteSet(1..n) /\ IsFiniteSet(1..(n - 1))
        BY <3>2, FS_Interval
      <4>2. 1..(n - 1) = (1..n) \ {n} /\ n \in 1..n
        BY <3>2
      <4> QED
        BY <3>2, <4>1, <4>2
    <3>4. \A u \in D : f[u] = h[u]
      BY <1>4 DEF PointsFor, Points, Passed
    <3>5. \A u \in E : h[u] \in Nat
      <4>1. \A u \in E : tasks'[u] \in TaskRows
        BY <1>4
      <4>2. \A u \in E : tasks'[u].tries \in Nat
        BY <4>1 DEF TaskRows
      <4> QED
        BY <4>2 DEF PointsFor, Points
    <3> HIDE DEF D, E, f, h, n
    <3>6. SumFunctionOnSet(h, E) = h[n] + SumFunctionOnSet(h, D)
      BY <3>3, <3>5, SumRemove
    <3>7. SumFunctionOnSet(f, D) = SumFunctionOnSet(h, D)
      BY <3>3, <3>4, SumSame
    <3>8. SumFunctionOnSet(h, D) \in Nat
      BY <3>3, <3>5, SumType
    <3>9. SumFunctionOnSet(f, D) <= SumFunctionOnSet(h, E)
      BY <3>3, <3>5, <3>6, <3>7, <3>8
    <3>10. copies[i] <= crashes + SumFunctionOnSet(f, D)
      BY <2>1 DEF CountOK, f, D
    <3>11. copies[i] \in Nat /\ crashes \in Nat
      BY <1>3 DEF MailInv, MailTypeOK
    <3>12. SumFunctionOnSet(h, E) \in Nat
      BY <3>3, <3>5, SumType
    <3>13. copies'[i] <= crashes' + SumFunctionOnSet(h, E)
      BY <3>7, <3>8, <3>9, <3>10, <3>11, <3>12
    <3> QED
      BY <3>13 DEF CountOK, h, E
  <2> QED
    BY <2>2, <2>3
<1>10. ASSUME NEW i \in DOMAIN Letters'
       PROVE  OnceOK(i)'
  <2>1. OnceOK(i) /\ copies[i] \in Nat /\ unsure[i] \in Nat
    BY <1>3 DEF MailInv, MailTypeOK
  <2>2. Once(i)' => Once(i) /\ UNCHANGED marks
    BY <1>3 DEF Once
  <2>3. Settled(i) /\ UNCHANGED marks => Settled(i)'
    BY <1>3, <1>4 DEF Settled
  <2> QED
    BY <2>1, <2>2, <2>3 DEF OnceOK
<1> QED
  BY <1>5, <1>6, <1>7, <1>8, <1>9, <1>10 DEF MailInv

LEMMA ScannerMovesKeeps ==
  ASSUME MailInv, ScannerMoves
  PROVE  MailInv'
<1> USE DEF Scanner!Statuses, Scanner!PreActive, Scanner!Team, Scanner!Terminal
<1>1. KindOK(kind) /\ generation \in Nat /\ leaves \in Nat
  BY LetterFacts DEF MailInv, MailTypeOK
<1>2. /\ kind.about = "scanner" /\ status \in Scanner!Statuses \cup {"NONE"}
      /\ status = "NONE" => tasks = <<>> /\ generation = 0
  BY DEF ScannerMoves, MailInv, RowOK, StatusesOf
<1>3. /\ status' \in Scanner!Statuses /\ generation' \in Nat /\ generation <= generation'
      /\ status \notin Scanner!Terminal
  BY <1>1, <1>2 DEF ScannerMoves, Scanner!Next, Scanner!Invite, Scanner!Advance,
     Scanner!RequestLeave, Scanner!RejectLeave, Scanner!Renew, Scanner!Remove
<1>4. status # "NONE" /\ status' \in Scanner!PreActive => status \in Scanner!PreActive
  BY <1>2 DEF ScannerMoves, Scanner!Next, Scanner!Invite, Scanner!Advance,
     Scanner!RequestLeave, Scanner!RejectLeave, Scanner!Renew, Scanner!Remove
<1>5. UNCHANGED <<kind, copies, unsure, crashes>> /\ leaves' \in Nat /\ fresh' \in {fresh, {}}
  BY <1>1 DEF ScannerMoves
<1>6. marks' = marks \/ (kind.repeats /\ marks' = {})
  BY DEF ScannerMoves
<1>7. \/ tasks' = tasks
      \/ tasks' = Append(tasks, Task(generation', leaves')) /\ (kind.repeats \/ tasks = <<>>)
  BY DEF ScannerMoves, Schedule
<1>8. kind.reports /\ status' = "EMAIL_SENT" => status = "EMAIL_SENT"
  BY DEF ScannerMoves
<1>9. status' # "NONE" /\ status' \in StatusesOf(kind.about)
  BY <1>2, <1>3 DEF StatusesOf
<1>10. generation' = generation => (expired => expired')
  BY DEF ScannerMoves
<1>11. ~kind.repeats /\ tasks # <<>> /\ status' \in kind.wants => status \in kind.wants
  <2> SUFFICES ASSUME ~kind.repeats, tasks # <<>>, status' \in kind.wants
               PROVE  status \in kind.wants
    OBVIOUS
  <2>1. status # "NONE" /\ kind.wants \in {InTeam, Scanner!PreActive, Scanner!Terminal}
    BY <1>1, <1>2 DEF KindOK, Lasting
  <2>2. CASE kind.wants = InTeam
    BY <1>2, <1>3, <2>1, <2>2 DEF InTeam
  <2>3. CASE kind.wants = Scanner!PreActive
    BY <1>4, <2>1, <2>3
  <2>4. CASE kind.wants = Scanner!Terminal
    <3>1. kind.wants \in FinalNews
      BY <2>4 DEF FinalNews
    <3> QED
      BY <3>1 DEF MailInv, RowOK
  <2> QED
    BY <2>1, <2>2, <2>3, <2>4
<1>12. ~kind.repeats /\ kind.wants \in FinalNews /\ tasks' # <<>> => status' \in kind.wants
  <2> SUFFICES ASSUME ~kind.repeats, kind.wants \in FinalNews, tasks' # <<>>
               PROVE  status' \in kind.wants
    OBVIOUS
  <2>1. kind.wants = Scanner!Terminal /\ kind.after = Scanner!Terminal
    BY <1>1, <1>2 DEF KindOK, Lasting, FinalNews, InTeam
  <2>2. CASE tasks # <<>>
    BY <1>3, <2>1, <2>2 DEF MailInv, RowOK
  <2>3. CASE tasks = <<>>
    BY <2>1, <2>3 DEF ScannerMoves, Schedule
  <2> QED
    BY <2>2, <2>3
<1> HIDE DEF Scanner!Statuses, Scanner!PreActive, Scanner!Team, Scanner!Terminal
<1> QED
  BY <1>3, <1>5, <1>6, <1>7, <1>8, <1>9, <1>10, <1>11, <1>12, RowKeeps

LEMMA AskKeeps ==
  ASSUME MailInv, Ask
  PROVE  MailInv'
<1>1. UNCHANGED <<status, generation, leaves, expired, kind, marks, copies, fresh, unsure, crashes>>
  BY DEF Ask, row, sent
<1>2. KindOK(kind) /\ generation \in Nat /\ leaves \in Nat /\ generation <= generation'
  BY <1>1, LetterFacts DEF MailInv, MailTypeOK
<1>3. tasks = <<>> /\ tasks' = Append(tasks, Task(generation', leaves'))
  BY <1>1 DEF Ask
<1>4. kind.about = "scanner" /\ status # "NONE" /\ "ASKED" \in kind.after
  BY DEF Ask, InTeam, Scanner!PreActive, Scanner!Team
<1>5. ~(~kind.repeats /\ kind.wants \in FinalNews)
  BY <1>2, <1>4 DEF KindOK, FinalNews, Scanner!Terminal
<1> QED
  BY <1>1, <1>2, <1>3, <1>4, <1>5, RowKeeps DEF MailInv, RowOK

LEMMA TemporaryPasswordExpiresKeeps ==
  ASSUME MailInv, TemporaryPasswordExpires
  PROVE  MailInv'
<1>1. UNCHANGED <<status, generation, leaves, kind, tasks, marks, copies, fresh, unsure, crashes>>
      /\ expired'
  BY DEF TemporaryPasswordExpires, sent
<1>2. generation \in Nat /\ leaves \in Nat /\ generation <= generation'
  BY <1>1 DEF MailInv, MailTypeOK
<1> QED
  BY <1>1, <1>2, RowKeeps DEF MailInv, RowOK

LEMMA OtherRowMovesKeeps ==
  ASSUME MailInv, OtherRowMoves
  PROVE  MailInv'
<1>1. KindOK(kind) /\ generation \in Nat /\ leaves \in Nat
  BY LetterFacts DEF MailInv, MailTypeOK
<1>2. UNCHANGED <<generation, leaves, expired, kind, marks, copies, fresh, unsure, crashes>>
  BY DEF OtherRowMoves, sent
<1>3. \/ /\ kind.about = "request" /\ status = "PENDING"
         /\ status' \in {"APPROVED", "REJECTED"}
      \/ kind.about = "code" /\ status = "OPEN" /\ status' = "CLOSED"
  BY <1>1 DEF OtherRowMoves, KindOK, MailInv, RowOK, StatusesOf, Scanner!Statuses,
     Scanner!PreActive, Scanner!Team, Scanner!Terminal
<1>4. \/ tasks' = tasks
      \/ tasks' = Append(tasks, Task(generation', leaves')) /\ (kind.repeats \/ tasks = <<>>)
  BY DEF OtherRowMoves, Schedule
<1>5. ~kind.reports /\ kind.about # "scanner"
  BY <1>1, <1>3 DEF KindOK
<1>6. status' \in StatusesOf(kind.about)
  BY <1>3 DEF StatusesOf
<1>7. ~kind.repeats /\ tasks # <<>> /\ status' \in kind.wants => status \in kind.wants
  <2> SUFFICES ASSUME ~kind.repeats, tasks # <<>>, status' \in kind.wants
               PROVE  status \in kind.wants
    OBVIOUS
  <2>1. kind.wants \in Lasting(kind.about)
    BY <1>1 DEF KindOK
  <2>2. kind.wants = {"APPROVED", "REJECTED"}
    BY <1>3, <2>1 DEF Lasting
  <2> QED
    BY <2>2 DEF MailInv, RowOK, FinalNews
<1>8. ~kind.repeats /\ kind.wants \in FinalNews /\ tasks' # <<>> => status' \in kind.wants
  <2> SUFFICES ASSUME ~kind.repeats, kind.wants \in FinalNews, tasks' # <<>>
               PROVE  status' \in kind.wants
    OBVIOUS
  <2>1. kind.wants \in Lasting(kind.about) /\ kind.after = kind.wants
    BY <1>1 DEF KindOK
  <2>2. CASE kind.about = "request"
    <3>1. kind.wants = {"APPROVED", "REJECTED"}
      BY <2>1, <2>2 DEF Lasting, FinalNews, Scanner!Terminal
    <3> QED
      BY <1>3, <2>2, <3>1
  <2>3. CASE kind.about = "code"
    BY <2>1, <2>3 DEF Lasting, FinalNews, Scanner!Terminal
  <2> QED
    BY <1>3, <2>2, <2>3
<1>9. generation <= generation'
  BY <1>1, <1>2
<1> QED
  BY <1>1, <1>2, <1>4, <1>5, <1>6, <1>7, <1>8, <1>9, RowKeeps

LEMMA MailInit ==
  ASSUME Init
  PROVE  MailInv
<1>1. KindOK(kind) /\ Len(Letters) \in 1..3 /\ DOMAIN Letters = 1..Len(Letters)
  BY LetterFacts DEF Init
<1>2. /\ Task(0, 0) \in TaskRows /\ tasks \in Seq(TaskRows) /\ Len(tasks) <= 1
      /\ \A t \in DOMAIN tasks : tasks[t] = Task(0, 0)
  <2>1. Task(0, 0) \in TaskRows
    BY DEF Task, TaskRows
  <2>2. tasks = <<>> \/ tasks = <<Task(0, 0)>>
    BY DEF Init
  <2> DEFINE first == Task(0, 0)
  <2> HIDE DEF first
  <2>3. CASE tasks = <<>>
    BY <2>1, <2>3
  <2>4. CASE tasks = <<first>>
    <3>1. first \in TaskRows
      BY <2>1 DEF first
    <3>2. Len(tasks) = 1 /\ DOMAIN tasks = {1} /\ tasks[1] = first
      BY <2>4
    <3>3. tasks \in Seq(TaskRows)
      BY <2>4, <3>1
    <3> QED
      BY <2>1, <3>2, <3>3 DEF first
  <2> QED
    BY <2>2, <2>3, <2>4 DEF first
<1>3. /\ copies \in [DOMAIN Letters -> Nat] /\ unsure = copies
      /\ \A i \in DOMAIN Letters : copies[i] = 0
  BY DEF Init, Letters
<1>4. MailTypeOK
  BY <1>2, <1>3 DEF Init, MailTypeOK
<1>5. RowOK
  <2>1. status \in StatusesOf(kind.about)
    BY <1>1 DEF Init, FirstStatus, StatusesOf, KindOK
  <2>2. kind.about = "scanner" /\ status = "NONE" => tasks = <<>> /\ generation = 0
    BY <1>1 DEF Init, KindOK
  <2>3. ~kind.repeats /\ kind.wants \in FinalNews /\ tasks # <<>> => status \in kind.wants
    <3>1. "START" \notin Scanner!Terminal /\ "START" \notin {"APPROVED", "REJECTED"}
      BY DEF Scanner!Terminal
    <3> QED
      BY <1>1, <3>1 DEF Init, KindOK, FinalNews
  <2> QED
    BY <1>2, <1>3, <2>1, <2>2, <2>3 DEF RowOK
<1>6. MarksOK
  BY <1>1 DEF Init, MarksOK, KindOK, FirstStatus
<1>7. ASSUME NEW t \in DOMAIN tasks
      PROVE  TaskOK(t)
  <2>1. /\ tasks[t].pc = "queued" /\ tasks[t].outdated = 0 /\ tasks[t].obsolete = 0
        /\ tasks[t].generation = 0 /\ generation = 0
    BY <1>2 DEF Task, Init
  <2>2. OutdatedOK(t) /\ ObsoleteOK(t)
    BY <1>1, <2>1 DEF OutdatedOK, ObsoleteOK
  <2> QED
    BY <1>1, <2>1, <2>2 DEF TaskOK, CoveredOK, Passed, PositionOK, UnmarkedOK
<1>8. ASSUME NEW i \in DOMAIN Letters
      PROVE  CountOK(i) /\ OnceOK(i)
  <2>1. IsFiniteSet(DOMAIN tasks) /\ \A t \in DOMAIN tasks : tasks[t] \in TaskRows
    BY <1>4, TasksFinite
  <2>2. \A t \in DOMAIN tasks : PointsFor(i)[t] \in Nat
    BY <2>1 DEF PointsFor, Points, TaskRows
  <2>3. SumFunctionOnSet(PointsFor(i), DOMAIN tasks) \in Nat
    BY <2>1, <2>2, SumType
  <2>4. crashes = 0 /\ copies[i] = 0 /\ unsure[i] = 0
    BY <1>3 DEF Init
  <2> QED
    BY <2>3, <2>4 DEF CountOK, OnceOK
<1> QED
  BY <1>4, <1>5, <1>6, <1>7, <1>8 DEF MailInv

-----------------------------------------------------------------------------
(* The steps of a worker. *)

\* What every proof about a worker's step starts from.
LEMMA WorkerFacts ==
  ASSUME MailInv, NEW t \in DOMAIN tasks
  PROVE  /\ KindOK(kind) /\ Len(Letters) \in 1..3 /\ DOMAIN Letters = 1..Len(Letters)
         /\ tasks \in Seq(TaskRows) /\ tasks[t] \in TaskRows
         /\ tasks[t].at \in Nat \ {0} /\ tasks[t].tries \in Nat
         /\ tasks[t].outdated \in Nat /\ tasks[t].obsolete \in Nat
         /\ TaskOK(t) /\ MarksOK
         /\ copies \in [DOMAIN Letters -> Nat] /\ crashes \in Nat
         /\ unsure \in [DOMAIN Letters -> Nat] /\ fresh \subseteq DOMAIN Letters
         /\ \A i \in DOMAIN Letters : copies[i] \in Nat /\ unsure[i] \in Nat /\ OnceOK(i)
         /\ ~kind.repeats => DOMAIN tasks = {t}
<1>1. KindOK(kind) /\ Len(Letters) \in 1..3 /\ DOMAIN Letters = 1..Len(Letters)
  BY LetterFacts DEF MailInv, MailTypeOK
<1>2. /\ DOMAIN tasks = 1..Len(tasks) /\ Len(tasks) \in Nat
      /\ tasks[t] \in TaskRows
  BY TasksFinite DEF MailInv
<1>3. /\ tasks[t].at \in Nat \ {0} /\ tasks[t].tries \in Nat
      /\ tasks[t].outdated \in Nat /\ tasks[t].obsolete \in Nat
  BY <1>2 DEF TaskRows
<1>4. ~kind.repeats => DOMAIN tasks = {t}
  BY <1>2 DEF MailInv, RowOK
<1> QED
  BY <1>1, <1>2, <1>3, <1>4 DEF MailInv, MailTypeOK

\* No letter goes out, and what the task may account for does not shrink; after a
\* letter that waits for its mark the attempt ends.
LEMMA QuietStep ==
  ASSUME MailInv, NEW t \in DOMAIN tasks, NEW x \in TaskRows,
         tasks' = [tasks EXCEPT ![t] = x],
         UNCHANGED <<kind, generation, leaves, expired, copies, fresh, marks>>,
         crashes' \in Nat, unsure' \in [DOMAIN Letters -> Nat],
         \/ status' = status
         \/ kind.reports /\ status \in Scanner!PreActive /\ status' \in Scanner!PreActive,
         kind.reports /\ status' = "EMAIL_SENT" => \A i \in DOMAIN Letters : copies[i] > 0,
         TaskOK(t)',
         \A i \in DOMAIN Letters : crashes + Points(t, i) <= crashes' + Points(t, i)',
         \A i \in DOMAIN Letters : unsure[i] <= unsure'[i],
         tasks[t].pc = "sent" => unsure'[tasks[t].at] > unsure[tasks[t].at]
  PROVE  MailInv'
<1>1. /\ KindOK(kind) /\ Len(Letters) \in 1..3 /\ DOMAIN Letters = 1..Len(Letters)
      /\ copies \in [DOMAIN Letters -> Nat] /\ crashes \in Nat /\ MarksOK
      /\ fresh \subseteq DOMAIN Letters
      /\ \A i \in DOMAIN Letters : copies[i] \in Nat /\ unsure[i] \in Nat /\ OnceOK(i)
      /\ ~kind.repeats => DOMAIN tasks = {t}
      /\ tasks[t].tries \in Nat
  BY WorkerFacts
<1>2. Letters' = Letters
  BY DEF Letters
<1>3. MarksOK'
  BY <1>1, <1>2 DEF MarksOK
<1>4. ASSUME NEW i \in DOMAIN Letters
      PROVE  OnceOK(i)'
  <2> SUFFICES ASSUME Once(i)
               PROVE  copies[i] <= unsure'[i] + (IF Settled(i)' THEN 1 ELSE 0)
    BY <1>2 DEF OnceOK, Once
  <2>1. copies[i] \in Nat /\ copies[i] <= unsure[i] + (IF Settled(i) THEN 1 ELSE 0)
    BY <1>1 DEF OnceOK
  <2>2. unsure[i] \in Nat /\ unsure'[i] \in Nat /\ unsure[i] <= unsure'[i]
    BY <1>1
  <2>3. CASE Letters[i] \in marks
    <3>1. Settled(i)'
      BY <1>2, <2>3 DEF Settled
    <3> QED
      BY <2>1, <2>2, <3>1
  <2>4. CASE tasks[t].pc = "sent" /\ tasks[t].at = i
    BY <2>1, <2>2, <2>4
  <2>5. CASE Letters[i] \notin marks /\ ~(tasks[t].pc = "sent" /\ tasks[t].at = i)
    <3>1. ~Settled(i)
      BY <1>1, <2>5 DEF Settled, Once
    <3> QED
      BY <2>1, <2>2, <3>1
  <2> QED
    BY <2>3, <2>4, <2>5
<1>5. \A i \in DOMAIN Letters :
        copies'[i] + crashes + Points(t, i) <= copies[i] + crashes' + Points(t, i)'
  <2> SUFFICES ASSUME NEW i \in DOMAIN Letters
               PROVE  copies[i] + crashes + Points(t, i) <= copies[i] + crashes' + Points(t, i)'
    OBVIOUS
  <2>1. Points(t, i) \in Nat
    BY <1>1 DEF Points
  <2>2. Points(t, i)' \in Nat
    <3>1. tasks'[t] = x /\ x.tries \in Nat
      BY DEF TaskRows, MailInv, MailTypeOK
    <3> QED
      BY <3>1 DEF Points
  <2>3. crashes + Points(t, i) <= crashes' + Points(t, i)' /\ copies[i] \in Nat
    BY <1>1
  <2> QED
    BY <1>1, <2>1, <2>2, <2>3
<1>6. /\ UNCHANGED <<kind, generation, leaves, expired>> /\ copies' = copies
      /\ copies' \in [DOMAIN Letters -> Nat] /\ fresh' \subseteq DOMAIN Letters
      /\ \A i \in DOMAIN Letters : copies[i] <= copies'[i]
  BY <1>1
<1> QED
  BY <1>3, <1>4, <1>5, <1>6, WorkerKeeps

\* An attempt ends without sending more.
LEMMA AttemptEnds ==
  ASSUME MailInv, NEW t \in DOMAIN tasks, NEW x \in TaskRows,
         tasks' = [tasks EXCEPT ![t] = x], x.pc \in {"queued", "failed"},
         x.outdated = tasks[t].outdated, x.obsolete = tasks[t].obsolete,
         x.generation = tasks[t].generation,
         UNCHANGED <<status, kind, generation, leaves, expired, copies, fresh, marks>>,
         crashes' \in Nat, unsure' \in [DOMAIN Letters -> Nat],
         tasks[t].pc \notin {"skipped", "done", "failed"},
         crashes + tasks[t].tries + (IF tasks[t].pc = "queued" THEN 0 ELSE 1)
           <= crashes' + x.tries + (IF x.pc = "failed" THEN 1 ELSE 0),
         \A i \in DOMAIN Letters : unsure[i] <= unsure'[i],
         tasks[t].pc = "sent" => unsure'[tasks[t].at] > unsure[tasks[t].at]
  PROVE  MailInv'
<1>1. /\ KindOK(kind) /\ Len(Letters) \in 1..3 /\ DOMAIN Letters = 1..Len(Letters)
      /\ tasks \in Seq(TaskRows) /\ tasks[t] \in TaskRows
      /\ tasks[t].at \in Nat \ {0} /\ tasks[t].tries \in Nat
      /\ tasks[t].outdated \in Nat /\ tasks[t].obsolete \in Nat
      /\ TaskOK(t) /\ MarksOK /\ crashes \in Nat
  BY WorkerFacts
<1>2. Letters' = Letters
  BY DEF Letters
<1>3. tasks'[t] = x /\ x.tries \in Nat
  BY <1>1 DEF TaskRows
<1>4. CoveredOK(t)' /\ PositionOK(t)' /\ UnmarkedOK(t)'
  BY <1>3 DEF CoveredOK, Passed, PositionOK, UnmarkedOK
<1>5. OutdatedOK(t)'
  BY <1>1, <1>2, <1>3 DEF TaskOK, OutdatedOK
<1>6. ObsoleteOK(t)'
  BY <1>1, <1>2, <1>3 DEF TaskOK, ObsoleteOK, Obsolete
<1>7. TaskOK(t)'
  BY <1>4, <1>5, <1>6 DEF TaskOK
<1>8. kind.reports /\ status' = "EMAIL_SENT" => \A i \in DOMAIN Letters : copies[i] > 0
  BY <1>1 DEF MarksOK
<1>9. ASSUME NEW i \in DOMAIN Letters
      PROVE  crashes + Points(t, i) <= crashes' + Points(t, i)'
  <2> DEFINE before == IF tasks[t].pc = "queued" THEN 0 ELSE 1
             after  == IF x.pc = "failed" THEN 1 ELSE 0
             p == Points(t, i)
             q == Points(t, i)'
             m == tasks[t].tries
             n == x.tries
  <2>1. p <= tasks[t].tries + before /\ p \in Nat
    BY <1>1 DEF Points, Passed
  <2>2. q = x.tries + after
    BY <1>3 DEF Points, Passed
  <2>3. before \in Nat /\ after \in Nat
    OBVIOUS
  <2>4. crashes + tasks[t].tries + before <= crashes' + x.tries + after
    OBVIOUS
  <2>6. /\ m \in Nat /\ n \in Nat /\ crashes \in Nat /\ crashes' \in Nat
        /\ p <= m + before /\ q = n + after /\ crashes + m + before <= crashes' + n + after
    BY <1>1, <1>3, <2>1, <2>2, <2>4
  <2> HIDE DEF before, after, p, q, m, n
  <2>5. crashes + p <= crashes' + q
    <3>1. p \in Nat /\ before \in Nat /\ after \in Nat
      BY <2>1, <2>3
    <3> QED
      BY <2>6, <3>1
  <2> QED
    BY <2>5 DEF p, q
<1>10. /\ UNCHANGED <<kind, generation, leaves, expired, copies, fresh, marks>>
       /\ status' = status
  OBVIOUS
<1> QED
  BY <1>7, <1>8, <1>9, <1>10, QuietStep

\* What a failure leaves of a task.
LEMMA RetriedFacts ==
  ASSUME NEW y \in TaskRows, y.tries \in Nat
  PROVE  LET x == Retried(y)
         IN  /\ x \in TaskRows
             /\ x.outdated = y.outdated /\ x.obsolete = y.obsolete
             /\ x.generation = y.generation
             /\ \/ x.pc = "queued" /\ x.tries = y.tries + 1
                \/ x.pc = "failed" /\ x.tries = y.tries
<1> DEFINE x == Retried(y)
<1>1. CASE kind.retries /\ y.tries < MaxRetries
  <2> DEFINE n == y.tries + 1
  <2>1. x = [y EXCEPT !.pc = "queued", !.tries = n]
    BY <1>1 DEF Retried
  <2>2. n \in Nat
    OBVIOUS
  <2> HIDE DEF x, n
  <2>3. /\ x \in TaskRows /\ x.outdated = y.outdated /\ x.obsolete = y.obsolete
        /\ x.generation = y.generation /\ x.pc = "queued" /\ x.tries = n
    BY <2>1, <2>2 DEF TaskRows
  <2> QED
    BY <2>3 DEF n, x
<1>2. CASE ~(kind.retries /\ y.tries < MaxRetries)
  <2>1. x = [y EXCEPT !.pc = "failed"]
    BY <1>2 DEF Retried
  <2> HIDE DEF x
  <2>2. /\ x \in TaskRows /\ x.outdated = y.outdated /\ x.obsolete = y.obsolete
        /\ x.generation = y.generation /\ x.pc = "failed" /\ x.tries = y.tries
    BY <2>1 DEF TaskRows
  <2> QED
    BY <2>2 DEF x
<1> QED
  BY <1>1, <1>2

\* What a letter adds to a task.
LEMMA DeliveredFacts ==
  ASSUME MailInv, NEW t \in DOMAIN tasks,
         tasks[t].pc = "ready", tasks[t].at <= Len(Letters)
  PROVE  LET y == Delivered(t)
         IN  /\ y \in TaskRows
             /\ y.pc = "ready" /\ y.at = tasks[t].at /\ y.tries = tasks[t].tries
             /\ y.generation = tasks[t].generation
             /\ kind.repeats \/ status \in kind.wants => y.outdated = 0
             /\ y.outdated \in Nat /\ y.obsolete \in Nat
             /\ IF kind.rechecks THEN y.outdated <= 1 ELSE y.outdated <= tasks[t].at
             /\ kind.current => /\ ~Obsolete(t) => y.obsolete = 0
                                /\ y.obsolete <= tasks[t].at
<1> DEFINE y == Delivered(t)
           m == tasks[t].outdated + (IF status \in kind.wants \/ kind.repeats THEN 0 ELSE 1)
           n == tasks[t].obsolete + (IF Obsolete(t) THEN 1 ELSE 0)
<1>1. /\ KindOK(kind) /\ Len(Letters) \in 1..3 /\ DOMAIN Letters = 1..Len(Letters)
      /\ tasks \in Seq(TaskRows) /\ tasks[t] \in TaskRows
      /\ tasks[t].at \in Nat \ {0} /\ tasks[t].tries \in Nat
      /\ tasks[t].outdated \in Nat /\ tasks[t].obsolete \in Nat
      /\ TaskOK(t) /\ MarksOK /\ crashes \in Nat
  BY WorkerFacts
<1>2. y = [tasks[t] EXCEPT !.outdated = m, !.obsolete = n]
  BY DEF Delivered
<1>3. m \in Nat /\ n \in Nat
  BY <1>1
<1>4. /\ kind.repeats \/ status \in kind.wants => m = 0
      /\ IF kind.rechecks THEN m <= 1 ELSE m <= tasks[t].at
  BY <1>1 DEF TaskOK, OutdatedOK
<1>5. kind.current => (~Obsolete(t) => n = 0) /\ n <= tasks[t].at
  BY <1>1 DEF TaskOK, ObsoleteOK
<1> HIDE DEF y, m, n
<1>6. y \in TaskRows
  BY <1>1, <1>2, <1>3 DEF TaskRows
<1>7. /\ y.pc = tasks[t].pc /\ y.at = tasks[t].at /\ y.tries = tasks[t].tries
      /\ y.generation = tasks[t].generation /\ y.outdated = m /\ y.obsolete = n
  BY <1>1, <1>2 DEF TaskRows
<1> QED
  BY <1>3, <1>4, <1>5, <1>6, <1>7 DEF y

\* What the acceptance of a letter adds to the counts.
LEMMA GoesOutFacts ==
  ASSUME MailInv, NEW t \in DOMAIN tasks, tasks[t].at <= Len(Letters), GoesOut(t)
  PROVE  /\ tasks[t].at \in DOMAIN Letters
         /\ copies' \in [DOMAIN Letters -> Nat] /\ fresh' \subseteq DOMAIN Letters
         /\ copies'[tasks[t].at] = copies[tasks[t].at] + 1
         /\ \A i \in DOMAIN Letters : i # tasks[t].at => copies'[i] = copies[i]
         /\ \A i \in DOMAIN Letters : copies'[i] \in Nat /\ copies[i] <= copies'[i]
<1>1. /\ DOMAIN Letters = 1..Len(Letters) /\ tasks[t].at \in Nat \ {0}
      /\ copies \in [DOMAIN Letters -> Nat] /\ fresh \subseteq DOMAIN Letters
      /\ Len(Letters) \in 1..3
  BY WorkerFacts
<1> DEFINE at == tasks[t].at
           c == copies[at] + 1
<1>2. at \in DOMAIN Letters
  BY <1>1
<1>3. c \in Nat
  BY <1>1, <1>2
<1>4. copies' = [copies EXCEPT ![at] = c] /\ fresh' = fresh \cup {at}
  BY DEF GoesOut
<1> HIDE DEF at
<1>5. copies[at] \in Nat /\ c = copies[at] + 1
  BY <1>1, <1>2
<1> HIDE DEF c
<1>6. copies' \in [DOMAIN Letters -> Nat] /\ fresh' \subseteq DOMAIN Letters
  BY <1>1, <1>2, <1>3, <1>4
<1>7. copies'[at] = c /\ \A i \in DOMAIN Letters : i # at => copies'[i] = copies[i]
  BY <1>1, <1>2, <1>4
<1>8. \A i \in DOMAIN Letters : copies'[i] \in Nat /\ copies[i] <= copies'[i]
  BY <1>1, <1>2, <1>5, <1>6, <1>7
<1> QED
  BY <1>2, <1>5, <1>6, <1>7, <1>8 DEF at

LEMMA StartKeeps ==
  ASSUME MailInv, NEW t \in DOMAIN tasks, Start(t)
  PROVE  MailInv'
<1> DEFINE first == NextLetter(1)
           x == IF StillWanted(t)
                THEN [tasks[t] EXCEPT !.pc = "ready", !.at = first]
                ELSE [tasks[t] EXCEPT !.pc = "skipped"]
<1>1. /\ KindOK(kind) /\ Len(Letters) \in 1..3 /\ DOMAIN Letters = 1..Len(Letters)
      /\ tasks \in Seq(TaskRows) /\ tasks[t] \in TaskRows
      /\ tasks[t].at \in Nat \ {0} /\ tasks[t].tries \in Nat
      /\ tasks[t].outdated \in Nat /\ tasks[t].obsolete \in Nat
      /\ TaskOK(t) /\ MarksOK /\ crashes \in Nat
  BY WorkerFacts
<1>2. /\ first \in 1..(Len(Letters) + 1)
      /\ \A j \in DOMAIN Letters : j < first => Letters[j] \in marks
      /\ first <= Len(Letters) => Letters[first] \notin marks
  <2>1. kind \in Kinds /\ 1 \in 1..(Len(Letters) + 1)
    BY <1>1 DEF MailInv, MailTypeOK
  <2> QED
    BY <1>1, <2>1, NextLetterFacts
<1>3. StillWanted(t) => status \in kind.wants /\ (kind.current => ~Obsolete(t))
  BY DEF StillWanted
<1>4. /\ tasks[t].pc = "queued" /\ tasks' = [tasks EXCEPT ![t] = x]
      /\ UNCHANGED <<status, generation, leaves, expired, kind, marks, copies, fresh, unsure, crashes>>
  BY DEF Start, row, sent
<1>5. Letters' = Letters
  BY <1>4 DEF Letters
<1> HIDE DEF first
<1>6. /\ x \in TaskRows /\ tasks'[t] = x /\ x.tries = tasks[t].tries
      /\ x.outdated = tasks[t].outdated /\ x.obsolete = tasks[t].obsolete
      /\ x.generation = tasks[t].generation
      /\ IF StillWanted(t) THEN x.pc = "ready" /\ x.at = first ELSE x.pc = "skipped"
  <2>1. CASE StillWanted(t)
    <3>1. x = [tasks[t] EXCEPT !.pc = "ready", !.at = first]
      BY <2>1
    <3> HIDE DEF x
    <3>2. first \in Nat \ {0}
      BY <1>1, <1>2
    <3> QED
      BY <1>1, <1>4, <2>1, <3>1, <3>2 DEF TaskRows
  <2>2. CASE ~StillWanted(t)
    <3>1. x = [tasks[t] EXCEPT !.pc = "skipped"]
      BY <2>2
    <3> HIDE DEF x
    <3> QED
      BY <1>1, <1>4, <2>2, <3>1 DEF TaskRows
  <2> QED
    BY <2>1, <2>2
<1> HIDE DEF x
<1>7. CoveredOK(t)'
  <2> SUFFICES ASSUME NEW i \in DOMAIN Letters, Passed(t, i)',
                      x.pc \notin {"skipped", "failed"}
               PROVE  copies[i] > 0
    BY <1>4, <1>5, <1>6 DEF CoveredOK
  <2>1. i < first
    BY <1>6 DEF Passed
  <2> QED
    BY <1>1, <1>2, <2>1 DEF MarksOK
<1>8. PositionOK(t)' /\ UnmarkedOK(t)'
  BY <1>1, <1>2, <1>4, <1>5, <1>6 DEF PositionOK, UnmarkedOK
<1>9. OutdatedOK(t)' /\ ObsoleteOK(t)'
  <2>1. OutdatedOK(t)'
    BY <1>1, <1>2, <1>3, <1>4, <1>5, <1>6 DEF TaskOK, OutdatedOK
  <2>2. Obsolete(t)' <=> Obsolete(t)
    BY <1>4, <1>6 DEF Obsolete
  <2>3. ObsoleteOK(t)'
    BY <1>1, <1>2, <1>3, <1>4, <1>5, <1>6, <2>2 DEF TaskOK, ObsoleteOK
  <2> QED
    BY <2>1, <2>3
<1>10. \A i \in DOMAIN Letters : Points(t, i) = tasks[t].tries /\ Points(t, i)' >= x.tries
  BY <1>1, <1>4, <1>6 DEF Points, Passed
<1>11. kind.reports /\ status' = "EMAIL_SENT" => \A i \in DOMAIN Letters : copies[i] > 0
  BY <1>1, <1>4 DEF MarksOK
<1>12. \A i \in DOMAIN Letters : crashes + Points(t, i) <= crashes' + Points(t, i)'
  BY <1>1, <1>4, <1>6, <1>10 DEF Points
<1>13. TaskOK(t)'
  BY <1>7, <1>8, <1>9 DEF TaskOK
<1>14. /\ UNCHANGED <<kind, generation, leaves, expired, copies, fresh, marks>>
       /\ status' = status /\ crashes' \in Nat /\ tasks[t].pc # "sent"
  BY <1>1, <1>4
<1>15. /\ unsure' \in [DOMAIN Letters -> Nat]
       /\ \A i \in DOMAIN Letters : unsure[i] <= unsure'[i]
  <2>1. /\ unsure \in [DOMAIN Letters -> Nat] /\ unsure' = unsure
        /\ \A i \in DOMAIN Letters : unsure[i] \in Nat
    BY <1>4, WorkerFacts
  <2>2. \A i \in DOMAIN Letters : unsure[i] <= unsure[i]
    BY <2>1
  <2> QED
    BY <2>1, <2>2
<1> QED
  BY <1>4, <1>6, <1>11, <1>12, <1>13, <1>14, <1>15, QuietStep

LEMMA RefreshKeeps ==
  ASSUME MailInv, NEW t \in DOMAIN tasks, Refresh(t)
  PROVE  MailInv'
<1> DEFINE next == NextLetter(tasks[t].at + 1)
           stops == /\ kind.rechecks /\ status \notin kind.wants
                    /\ ~(tasks[t].at = Len(Letters)) \/ kind.reports
           x == IF stops THEN [tasks[t] EXCEPT !.pc = "skipped"]
                         ELSE [tasks[t] EXCEPT !.pc = "ready", !.at = next]
<1>1. /\ KindOK(kind) /\ Len(Letters) \in 1..3 /\ DOMAIN Letters = 1..Len(Letters)
      /\ tasks \in Seq(TaskRows) /\ tasks[t] \in TaskRows
      /\ tasks[t].at \in Nat \ {0} /\ tasks[t].tries \in Nat
      /\ tasks[t].outdated \in Nat /\ tasks[t].obsolete \in Nat
      /\ TaskOK(t) /\ MarksOK /\ crashes \in Nat
  BY WorkerFacts
<1>2. /\ tasks[t].pc = "marked" /\ tasks' = [tasks EXCEPT ![t] = x]
      /\ UNCHANGED <<status, generation, leaves, expired, kind, marks, copies, fresh, unsure, crashes>>
  BY DEF Refresh, row, sent
<1>3. tasks[t].at \in 1..Len(Letters)
  BY <1>1, <1>2 DEF TaskOK, PositionOK
<1>4. /\ next \in (tasks[t].at + 1)..(Len(Letters) + 1)
      /\ \A j \in DOMAIN Letters : tasks[t].at + 1 <= j /\ j < next => Letters[j] \in marks
      /\ next <= Len(Letters) => Letters[next] \notin marks
  <2>1. kind \in Kinds
    BY DEF MailInv, MailTypeOK
  <2>2. tasks[t].at + 1 \in 1..(Len(Letters) + 1)
    BY <1>1, <1>3
  <2> QED
    BY <2>1, <2>2, NextLetterFacts
<1>5. Letters' = Letters
  BY <1>2 DEF Letters
<1>6. next \in Nat \ {0} /\ next > tasks[t].at /\ next <= Len(Letters) + 1
  BY <1>1, <1>3, <1>4
<1> HIDE DEF next, stops
<1>7. /\ x \in TaskRows /\ tasks'[t] = x
      /\ x.tries = tasks[t].tries /\ x.outdated = tasks[t].outdated
      /\ x.obsolete = tasks[t].obsolete /\ x.generation = tasks[t].generation
      /\ IF stops THEN x.pc = "skipped" ELSE x.pc = "ready" /\ x.at = next
  BY <1>1, <1>2, <1>6 DEF TaskRows
<1> HIDE DEF x
<1>8. CoveredOK(t)'
  <2> SUFFICES ASSUME NEW i \in DOMAIN Letters, Passed(t, i)',
                      x.pc \notin {"skipped", "failed"}
               PROVE  copies[i] > 0
    BY <1>2, <1>5, <1>7 DEF CoveredOK
  <2>1. i < next
    BY <1>7 DEF Passed
  <2>2. CASE i <= tasks[t].at
    BY <1>1, <1>2, <2>2 DEF TaskOK, CoveredOK, Passed
  <2>3. CASE ~(i <= tasks[t].at)
    BY <1>1, <1>4, <2>1, <2>3 DEF MarksOK
  <2> QED
    BY <2>2, <2>3
<1>9. PositionOK(t)' /\ UnmarkedOK(t)'
  BY <1>1, <1>2, <1>4, <1>5, <1>6, <1>7 DEF PositionOK, UnmarkedOK
<1>10. OutdatedOK(t)' /\ ObsoleteOK(t)'
  <2>1. OutdatedOK(t)'
    <3>1. CASE kind.rechecks
      <4>1. ~stops /\ next <= Len(Letters) => status \in kind.wants
        BY <1>1, <1>6, <3>1 DEF stops
      <4>2. x.pc = "ready" /\ x.at <= Len(Letters) => x.outdated = 0
        BY <1>1, <1>7, <4>1 DEF TaskOK, OutdatedOK
      <4> QED
        BY <1>1, <1>2, <1>5, <1>7, <3>1, <4>2 DEF TaskOK, OutdatedOK
    <3>2. CASE ~kind.rechecks
      <4>1. tasks[t].outdated <= tasks[t].at
        BY <1>1, <1>2, <3>2 DEF TaskOK, OutdatedOK
      <4> QED
        BY <1>1, <1>2, <1>3, <1>5, <1>6, <1>7, <3>2, <4>1 DEF TaskOK, OutdatedOK
    <3> QED
      BY <3>1, <3>2
  <2>2. Obsolete(t)' <=> Obsolete(t)
    BY <1>2, <1>7 DEF Obsolete
  <2>3. ObsoleteOK(t)'
    BY <1>1, <1>2, <1>3, <1>5, <1>6, <1>7, <2>2 DEF TaskOK, ObsoleteOK
  <2> QED
    BY <2>1, <2>3
<1>11. kind.reports /\ status' = "EMAIL_SENT" => \A i \in DOMAIN Letters : copies[i] > 0
  BY <1>1, <1>2 DEF MarksOK
<1>12. \A i \in DOMAIN Letters : crashes + Points(t, i) <= crashes' + Points(t, i)'
  <2> SUFFICES ASSUME NEW i \in DOMAIN Letters
               PROVE  crashes + Points(t, i) <= crashes' + Points(t, i)'
    OBVIOUS
  <2>1. Passed(t, i) => Passed(t, i)'
    BY <1>1, <1>2, <1>6, <1>7 DEF Passed
  <2> QED
    BY <1>1, <1>2, <1>7, <2>1 DEF Points
<1>13. TaskOK(t)'
  BY <1>8, <1>9, <1>10 DEF TaskOK
<1>14. /\ UNCHANGED <<kind, generation, leaves, expired, copies, fresh, marks>>
       /\ status' = status /\ crashes' \in Nat /\ tasks[t].pc # "sent"
  BY <1>1, <1>2
<1>15. /\ unsure' \in [DOMAIN Letters -> Nat]
       /\ \A i \in DOMAIN Letters : unsure[i] <= unsure'[i]
  <2>1. /\ unsure \in [DOMAIN Letters -> Nat] /\ unsure' = unsure
        /\ \A i \in DOMAIN Letters : unsure[i] \in Nat
    BY <1>2, WorkerFacts
  <2>2. \A i \in DOMAIN Letters : unsure[i] <= unsure[i]
    BY <2>1
  <2> QED
    BY <2>1, <2>2
<1> QED
  BY <1>2, <1>7, <1>11, <1>12, <1>13, <1>14, <1>15, QuietStep

LEMMA FinishKeeps ==
  ASSUME MailInv, NEW t \in DOMAIN tasks, Finish(t)
  PROVE  MailInv'
<1> DEFINE x == [tasks[t] EXCEPT !.pc = "done"]
<1>1. /\ KindOK(kind) /\ Len(Letters) \in 1..3 /\ DOMAIN Letters = 1..Len(Letters)
      /\ tasks \in Seq(TaskRows) /\ tasks[t] \in TaskRows
      /\ tasks[t].at \in Nat \ {0} /\ tasks[t].tries \in Nat
      /\ tasks[t].outdated \in Nat /\ tasks[t].obsolete \in Nat
      /\ TaskOK(t) /\ MarksOK /\ crashes \in Nat
  BY WorkerFacts
<1>2. /\ tasks[t].pc = "ready" /\ tasks[t].at > Len(Letters)
      /\ tasks' = [tasks EXCEPT ![t] = x]
      /\ UNCHANGED <<generation, leaves, expired, kind, marks, copies, fresh, unsure, crashes>>
  BY DEF Finish, sent
<1>3. \/ status' = status
      \/ kind.reports /\ status \in Scanner!PreActive /\ status' \in Scanner!PreActive
  BY DEF Finish, Scanner!PreActive
<1>4. Letters' = Letters
  BY <1>2 DEF Letters
<1>5. /\ x \in TaskRows /\ tasks'[t] = x /\ x.pc = "done"
      /\ x.tries = tasks[t].tries /\ x.outdated = tasks[t].outdated
      /\ x.obsolete = tasks[t].obsolete /\ x.generation = tasks[t].generation
  BY <1>1, <1>2 DEF TaskRows
<1> HIDE DEF x
<1>6. \A i \in DOMAIN Letters : copies[i] > 0
  BY <1>1, <1>2 DEF TaskOK, CoveredOK, Passed
<1>7. CoveredOK(t)' /\ PositionOK(t)' /\ UnmarkedOK(t)'
  BY <1>2, <1>4, <1>5, <1>6 DEF CoveredOK, PositionOK, UnmarkedOK
<1>8. OutdatedOK(t)' /\ ObsoleteOK(t)'
  <2>1. status' \in kind.wants <=> status \in kind.wants
    <3>1. kind.reports => kind.wants = InTeam
      BY <1>1 DEF KindOK
    <3> QED
      BY <1>3, <3>1 DEF InTeam
  <2>2. OutdatedOK(t)'
    BY <1>1, <1>2, <1>4, <1>5, <2>1 DEF TaskOK, OutdatedOK
  <2>3. Obsolete(t)' <=> Obsolete(t)
    BY <1>2, <1>5 DEF Obsolete
  <2>4. ObsoleteOK(t)'
    BY <1>1, <1>2, <1>4, <1>5, <2>3 DEF TaskOK, ObsoleteOK
  <2> QED
    BY <2>2, <2>4
<1>9. TaskOK(t)'
  BY <1>7, <1>8 DEF TaskOK
<1>10. \A i \in DOMAIN Letters : crashes + Points(t, i) <= crashes' + Points(t, i)'
  BY <1>1, <1>2, <1>5 DEF Points, Passed
<1>11. /\ UNCHANGED <<kind, generation, leaves, expired, copies, fresh, marks>>
       /\ crashes' \in Nat /\ tasks[t].pc # "sent"
  BY <1>1, <1>2
<1>15. /\ unsure' \in [DOMAIN Letters -> Nat]
       /\ \A i \in DOMAIN Letters : unsure[i] <= unsure'[i]
  <2>1. /\ unsure \in [DOMAIN Letters -> Nat] /\ unsure' = unsure
        /\ \A i \in DOMAIN Letters : unsure[i] \in Nat
    BY <1>2, WorkerFacts
  <2>2. \A i \in DOMAIN Letters : unsure[i] <= unsure[i]
    BY <2>1
  <2> QED
    BY <2>1, <2>2
<1> QED
  BY <1>2, <1>3, <1>5, <1>6, <1>9, <1>10, <1>11, <1>15, QuietStep

LEMMA ReadFailsKeeps ==
  ASSUME MailInv, NEW t \in DOMAIN tasks, ReadFails(t)
  PROVE  MailInv'
<1> DEFINE x == [tasks[t] EXCEPT !.pc = "failed"]
<1>1. /\ KindOK(kind) /\ Len(Letters) \in 1..3 /\ DOMAIN Letters = 1..Len(Letters)
      /\ tasks \in Seq(TaskRows) /\ tasks[t] \in TaskRows
      /\ tasks[t].at \in Nat \ {0} /\ tasks[t].tries \in Nat
      /\ TaskOK(t) /\ MarksOK /\ crashes \in Nat
      /\ unsure \in [DOMAIN Letters -> Nat]
      /\ \A i \in DOMAIN Letters : unsure[i] \in Nat
  BY WorkerFacts
<1>2. /\ tasks[t].pc = "queued" /\ tasks' = [tasks EXCEPT ![t] = x]
      /\ UNCHANGED <<status, generation, leaves, expired, kind, marks, copies, fresh, unsure, crashes>>
  BY DEF ReadFails, row, sent
<1>3. /\ x \in TaskRows /\ x.pc = "failed" /\ x.tries = tasks[t].tries
      /\ x.outdated = tasks[t].outdated /\ x.obsolete = tasks[t].obsolete
      /\ x.generation = tasks[t].generation
  BY <1>1 DEF TaskRows
<1> HIDE DEF x
<1>4. crashes + tasks[t].tries + (IF tasks[t].pc = "queued" THEN 0 ELSE 1)
        <= crashes' + x.tries + (IF x.pc = "failed" THEN 1 ELSE 0)
  BY <1>1, <1>2, <1>3
<1>5. \A i \in DOMAIN Letters : unsure[i] <= unsure'[i]
  BY <1>1, <1>2
<1> QED
  BY <1>1, <1>2, <1>3, <1>4, <1>5, AttemptEnds

\* The count of what is unsure grows at the present letter.
LEMMA UnsureFacts ==
  ASSUME MailInv, NEW t \in DOMAIN tasks, tasks[t].at \in DOMAIN Letters, Unsure(t)
  PROVE  /\ unsure' \in [DOMAIN Letters -> Nat]
         /\ unsure'[tasks[t].at] = unsure[tasks[t].at] + 1
         /\ \A i \in DOMAIN Letters : i # tasks[t].at => unsure'[i] = unsure[i]
         /\ \A i \in DOMAIN Letters : unsure[i] \in Nat /\ unsure[i] <= unsure'[i]
<1> DEFINE at == tasks[t].at
           c == unsure[at] + 1
<1>1. unsure \in [DOMAIN Letters -> Nat] /\ at \in DOMAIN Letters
  BY WorkerFacts
<1>2. unsure' = [unsure EXCEPT ![at] = c]
  BY DEF Unsure
<1> HIDE DEF at
<1>3. unsure[at] \in Nat /\ c \in Nat /\ c = unsure[at] + 1
  BY <1>1
<1> HIDE DEF c
<1>4. unsure' \in [DOMAIN Letters -> Nat]
  BY <1>1, <1>2, <1>3
<1>5. unsure'[at] = c /\ \A i \in DOMAIN Letters : i # at => unsure'[i] = unsure[i]
  BY <1>1, <1>2
<1>6. \A i \in DOMAIN Letters : unsure[i] \in Nat /\ unsure[i] <= unsure'[i]
  BY <1>1, <1>3, <1>5
<1> QED
  BY <1>3, <1>4, <1>5, <1>6 DEF at

LEMMA SmtpFailsKeeps ==
  ASSUME MailInv, NEW t \in DOMAIN tasks, SmtpFails(t)
  PROVE  MailInv'
<1>1. /\ KindOK(kind) /\ Len(Letters) \in 1..3 /\ DOMAIN Letters = 1..Len(Letters)
      /\ tasks \in Seq(TaskRows) /\ tasks[t] \in TaskRows
      /\ tasks[t].at \in Nat \ {0} /\ tasks[t].tries \in Nat
      /\ TaskOK(t) /\ MarksOK /\ crashes \in Nat
      /\ unsure \in [DOMAIN Letters -> Nat]
      /\ \A i \in DOMAIN Letters : unsure[i] \in Nat
  BY WorkerFacts
<1>2. /\ tasks[t].pc = "ready" /\ tasks[t].at <= Len(Letters)
      /\ UNCHANGED <<status, generation, leaves, expired, kind, marks, crashes>>
  BY DEF SmtpFails, FailureKeepsMarks, row
<1>3. ASSUME tasks' = [tasks EXCEPT ![t] = Retried(tasks[t])], UNCHANGED <<sent, unsure>>
      PROVE  MailInv'
  <2> DEFINE x == Retried(tasks[t])
  <2>1. /\ x \in TaskRows
        /\ x.outdated = tasks[t].outdated /\ x.obsolete = tasks[t].obsolete
        /\ x.generation = tasks[t].generation
        /\ \/ x.pc = "queued" /\ x.tries = tasks[t].tries + 1
           \/ x.pc = "failed" /\ x.tries = tasks[t].tries
    BY <1>1, RetriedFacts
  <2>2. tasks' = [tasks EXCEPT ![t] = x] /\ UNCHANGED <<copies, fresh, unsure>>
    BY <1>3 DEF sent
  <2> HIDE DEF x
  <2>3. crashes + tasks[t].tries + (IF tasks[t].pc = "queued" THEN 0 ELSE 1)
          <= crashes' + x.tries + (IF x.pc = "failed" THEN 1 ELSE 0)
    BY <1>1, <1>2, <2>1
  <2>4. \A i \in DOMAIN Letters : unsure[i] <= unsure'[i]
    BY <1>1, <2>2
  <2>5. x.pc \in {"queued", "failed"} /\ tasks[t].pc \notin {"sent", "skipped", "done", "failed"}
    BY <1>2, <2>1
  <2> QED
    BY <1>1, <1>2, <2>1, <2>2, <2>3, <2>4, <2>5, AttemptEnds
<1>4. ASSUME GoesOut(t), Unsure(t), tasks' = [tasks EXCEPT ![t] = Retried(Delivered(t))]
      PROVE  MailInv'
  <2> DEFINE at == tasks[t].at
             y == Delivered(t)
             x == Retried(y)
  <2>1. /\ at \in DOMAIN Letters
        /\ copies' \in [DOMAIN Letters -> Nat] /\ fresh' \subseteq DOMAIN Letters
        /\ copies'[at] = copies[at] + 1
        /\ \A i \in DOMAIN Letters : i # at => copies'[i] = copies[i]
        /\ \A i \in DOMAIN Letters : copies'[i] \in Nat /\ copies[i] <= copies'[i]
    BY <1>2, <1>4, GoesOutFacts
  <2>2. /\ unsure' \in [DOMAIN Letters -> Nat]
        /\ unsure'[at] = unsure[at] + 1
        /\ \A i \in DOMAIN Letters : i # at => unsure'[i] = unsure[i]
    BY <1>4, <2>1, UnsureFacts
  <2>3. /\ y \in TaskRows
        /\ y.tries = tasks[t].tries /\ y.generation = tasks[t].generation
        /\ kind.repeats \/ status \in kind.wants => y.outdated = 0
        /\ y.outdated \in Nat /\ y.obsolete \in Nat
        /\ IF kind.rechecks THEN y.outdated <= 1 ELSE y.outdated <= at
        /\ kind.current => (~Obsolete(t) => y.obsolete = 0) /\ y.obsolete <= at
    BY <1>2, DeliveredFacts
  <2> HIDE DEF y
  <2>4. /\ x \in TaskRows
        /\ x.outdated = y.outdated /\ x.obsolete = y.obsolete
        /\ x.generation = y.generation
        /\ \/ x.pc = "queued" /\ x.tries = y.tries + 1
           \/ x.pc = "failed" /\ x.tries = y.tries
    BY <1>1, <2>3, RetriedFacts
  <2>5. tasks' = [tasks EXCEPT ![t] = x] /\ Letters' = Letters
    BY <1>2, <1>4 DEF y, Letters
  <2> HIDE DEF x
  <2>6. tasks'[t] = x /\ x.pc \in {"queued", "failed"}
    BY <1>1, <2>4, <2>5
  <2>7. MarksOK'
    <3>1. \A i \in DOMAIN Letters : copies[i] > 0 => copies'[i] > 0
      <4>1. \A i \in DOMAIN Letters : copies[i] \in Nat
        BY WorkerFacts
      <4> QED
        BY <2>1, <4>1
    <3> QED
      BY <1>1, <1>2, <2>5, <3>1 DEF MarksOK
  <2>8. CoveredOK(t)' /\ PositionOK(t)' /\ UnmarkedOK(t)'
    BY <2>6 DEF CoveredOK, Passed, PositionOK, UnmarkedOK
  <2>9. OutdatedOK(t)'
    BY <1>1, <1>2, <2>3, <2>4, <2>5, <2>6 DEF OutdatedOK
  <2>10. ObsoleteOK(t)'
    <3>1. Obsolete(t)' <=> Obsolete(t)
      BY <1>2, <2>3, <2>4, <2>6 DEF Obsolete
    <3>2. tasks[t].generation <= generation
      BY <1>1 DEF TaskOK, ObsoleteOK
    <3> QED
      BY <1>1, <1>2, <2>3, <2>4, <2>5, <2>6, <3>1, <3>2 DEF ObsoleteOK
  <2>11. TaskOK(t)'
    BY <2>8, <2>9, <2>10 DEF TaskOK
  <2>12. ASSUME NEW i \in DOMAIN Letters
         PROVE  copies'[i] + crashes + Points(t, i) <= copies[i] + crashes' + Points(t, i)'
    <3>1. copies[i] \in Nat /\ copies'[i] \in Nat
      BY <2>1, WorkerFacts
    <3>2. Points(t, i)' = tasks[t].tries + 1
      BY <1>1, <2>3, <2>4, <2>6 DEF Points, Passed
    <3>3. Points(t, i) = tasks[t].tries + (IF i < at THEN 1 ELSE 0)
      BY <1>2 DEF Points, Passed
    <3>4. copies'[i] = copies[i] + (IF i = at THEN 1 ELSE 0)
      BY <2>1, <3>1
    <3>5. i \in Nat /\ at \in Nat
      BY <1>1, <2>1
    <3>6. tasks[t].tries \in Nat /\ crashes \in Nat /\ crashes' = crashes
      BY <1>1, <1>2
    <3>7. CASE i = at
      BY <3>1, <3>2, <3>3, <3>4, <3>5, <3>6, <3>7
    <3>8. CASE i # at
      BY <3>1, <3>2, <3>3, <3>4, <3>5, <3>6, <3>8
    <3> QED
      BY <3>7, <3>8
  <2>13. ASSUME NEW i \in DOMAIN Letters
         PROVE  OnceOK(i)'
    <3> SUFFICES ASSUME Once(i)
                 PROVE  copies'[i] <= unsure'[i] + (IF Settled(i)' THEN 1 ELSE 0)
      BY <1>2, <2>5 DEF OnceOK, Once
    <3>1. copies[i] \in Nat /\ unsure[i] \in Nat /\ OnceOK(i) /\ DOMAIN tasks = {t}
      BY WorkerFacts DEF Once
    <3>2. copies[i] <= unsure[i] + (IF Settled(i) THEN 1 ELSE 0)
      BY <3>1 DEF OnceOK
    <3>3. Settled(i) => Settled(i)'
      BY <1>2, <2>5, <3>1 DEF Settled
    <3>4. CASE i = at
      BY <2>1, <2>2, <3>1, <3>2, <3>3, <3>4
    <3>5. CASE i # at
      BY <2>1, <2>2, <3>1, <3>2, <3>3, <3>5
    <3> QED
      BY <3>4, <3>5
  <2>14. UNCHANGED <<kind, generation, leaves, expired>> /\ status' = status /\ crashes' \in Nat
    BY <1>1, <1>2
  <2> QED
    BY <2>1, <2>2, <2>4, <2>5, <2>7, <2>11, <2>12, <2>13, <2>14, WorkerKeeps
<1> QED
  BY <1>3, <1>4 DEF SmtpFails

LEMMA DatabaseFailsKeeps ==
  ASSUME MailInv, NEW t \in DOMAIN tasks, DatabaseFails(t)
  PROVE  MailInv'
<1> DEFINE x == Retried(tasks[t])
<1>1. /\ KindOK(kind) /\ Len(Letters) \in 1..3 /\ DOMAIN Letters = 1..Len(Letters)
      /\ tasks \in Seq(TaskRows) /\ tasks[t] \in TaskRows
      /\ tasks[t].at \in Nat \ {0} /\ tasks[t].tries \in Nat
      /\ TaskOK(t) /\ MarksOK /\ crashes \in Nat
      /\ unsure \in [DOMAIN Letters -> Nat]
      /\ \A i \in DOMAIN Letters : unsure[i] \in Nat
  BY WorkerFacts
<1>2. /\ tasks[t].pc \in {"ready", "sent", "marked"}
      /\ tasks' = [tasks EXCEPT ![t] = x]
      /\ UNCHANGED <<status, generation, leaves, expired, kind, marks, copies, fresh, crashes>>
  BY DEF DatabaseFails, row, sent
<1>3. /\ x \in TaskRows
      /\ x.outdated = tasks[t].outdated /\ x.obsolete = tasks[t].obsolete
      /\ x.generation = tasks[t].generation
      /\ \/ x.pc = "queued" /\ x.tries = tasks[t].tries + 1
         \/ x.pc = "failed" /\ x.tries = tasks[t].tries
  BY <1>1, RetriedFacts
<1> HIDE DEF x
<1>4. /\ unsure' \in [DOMAIN Letters -> Nat]
      /\ \A i \in DOMAIN Letters : unsure[i] <= unsure'[i]
      /\ tasks[t].pc = "sent" => unsure'[tasks[t].at] > unsure[tasks[t].at]
  <2>1. CASE tasks[t].pc = "sent"
    <3>1. tasks[t].at \in DOMAIN Letters /\ Unsure(t)
      BY <1>1, <2>1 DEF TaskOK, PositionOK, DatabaseFails
    <3> QED
      BY <1>1, <3>1, UnsureFacts
  <2>2. CASE tasks[t].pc # "sent"
    BY <1>1, <2>2 DEF DatabaseFails
  <2> QED
    BY <2>1, <2>2
<1>5. crashes + tasks[t].tries + (IF tasks[t].pc = "queued" THEN 0 ELSE 1)
        <= crashes' + x.tries + (IF x.pc = "failed" THEN 1 ELSE 0)
  BY <1>1, <1>2, <1>3
<1>6. x.pc \in {"queued", "failed"} /\ tasks[t].pc \notin {"skipped", "done", "failed"}
  BY <1>2, <1>3
<1> QED
  BY <1>1, <1>2, <1>3, <1>4, <1>5, <1>6, AttemptEnds

LEMMA CrashKeeps ==
  ASSUME MailInv, NEW t \in DOMAIN tasks, Crash(t)
  PROVE  MailInv'
<1>1. /\ KindOK(kind) /\ Len(Letters) \in 1..3 /\ DOMAIN Letters = 1..Len(Letters)
      /\ tasks \in Seq(TaskRows) /\ tasks[t] \in TaskRows
      /\ tasks[t].at \in Nat \ {0} /\ tasks[t].tries \in Nat
      /\ TaskOK(t) /\ MarksOK /\ crashes \in Nat
      /\ unsure \in [DOMAIN Letters -> Nat]
      /\ \A i \in DOMAIN Letters : unsure[i] \in Nat
  BY WorkerFacts
<1>2. PICK pc \in {"queued", "failed"} : tasks' = [tasks EXCEPT ![t].pc = pc]
  BY DEF Crash
<1> DEFINE x == [tasks[t] EXCEPT !.pc = pc]
<1>3. /\ tasks[t].pc \in {"ready", "sent", "marked"}
      /\ tasks' = [tasks EXCEPT ![t] = x]
      /\ UNCHANGED <<status, generation, leaves, expired, kind, marks, copies, fresh>>
      /\ crashes' = crashes + 1
  BY <1>2 DEF Crash, row, sent
<1>4. /\ x \in TaskRows /\ x.pc = pc /\ x.tries = tasks[t].tries
      /\ x.outdated = tasks[t].outdated /\ x.obsolete = tasks[t].obsolete
      /\ x.generation = tasks[t].generation
  BY <1>1 DEF TaskRows
<1> HIDE DEF x
<1>5. /\ unsure' \in [DOMAIN Letters -> Nat]
      /\ \A i \in DOMAIN Letters : unsure[i] <= unsure'[i]
      /\ tasks[t].pc = "sent" => unsure'[tasks[t].at] > unsure[tasks[t].at]
  <2>1. CASE tasks[t].pc = "sent"
    <3>1. tasks[t].at \in DOMAIN Letters /\ Unsure(t)
      BY <1>1, <2>1 DEF TaskOK, PositionOK, Crash
    <3> QED
      BY <1>1, <3>1, UnsureFacts
  <2>2. CASE tasks[t].pc # "sent"
    BY <1>1, <2>2 DEF Crash
  <2> QED
    BY <2>1, <2>2
<1>6. crashes + tasks[t].tries + (IF tasks[t].pc = "queued" THEN 0 ELSE 1)
        <= crashes' + x.tries + (IF x.pc = "failed" THEN 1 ELSE 0)
  BY <1>1, <1>3, <1>4
<1>7. /\ x.pc \in {"queued", "failed"} /\ tasks[t].pc \notin {"skipped", "done", "failed"}
      /\ crashes' \in Nat
  BY <1>1, <1>3, <1>4
<1> QED
  BY <1>1, <1>3, <1>4, <1>5, <1>6, <1>7, AttemptEnds

LEMMA SendKeeps ==
  ASSUME MailInv, NEW t \in DOMAIN tasks, Send(t)
  PROVE  MailInv'
<1> DEFINE at == tasks[t].at
           y == Delivered(t)
           now == IF AwaitsMark(t) THEN "sent" ELSE "ready"
           next == IF AwaitsMark(t) THEN at ELSE at + 1
           x == IF AwaitsMark(t) THEN [y EXCEPT !.pc = "sent"] ELSE [y EXCEPT !.at = at + 1]
<1>1. /\ KindOK(kind) /\ Len(Letters) \in 1..3 /\ DOMAIN Letters = 1..Len(Letters)
      /\ tasks \in Seq(TaskRows) /\ tasks[t] \in TaskRows
      /\ at \in Nat \ {0} /\ tasks[t].tries \in Nat
      /\ TaskOK(t) /\ MarksOK /\ crashes \in Nat
      /\ copies \in [DOMAIN Letters -> Nat] /\ unsure \in [DOMAIN Letters -> Nat]
      /\ \A i \in DOMAIN Letters : copies[i] \in Nat /\ unsure[i] \in Nat /\ OnceOK(i)
      /\ ~kind.repeats => DOMAIN tasks = {t}
  BY WorkerFacts
<1>2. /\ tasks[t].pc = "ready" /\ at <= Len(Letters)
      /\ tasks' = [tasks EXCEPT ![t] = x] /\ GoesOut(t)
      /\ UNCHANGED <<status, generation, leaves, expired, kind, marks, unsure, crashes>>
  BY DEF Send, row
<1>3. at \in DOMAIN Letters
  BY <1>1, <1>2
<1>4. Letters' = Letters
  BY <1>2 DEF Letters
<1>5. /\ copies' \in [DOMAIN Letters -> Nat] /\ copies'[at] = copies[at] + 1
      /\ \A i \in DOMAIN Letters : i # at => copies'[i] = copies[i]
      /\ fresh' \subseteq DOMAIN Letters
  BY <1>2, GoesOutFacts
<1>6. \A i \in DOMAIN Letters : copies'[i] \in Nat /\ copies[i] <= copies'[i]
  BY <1>2, GoesOutFacts
<1>7. /\ y \in TaskRows /\ y.pc = "ready" /\ y.at = at /\ y.tries = tasks[t].tries
      /\ y.generation = tasks[t].generation
      /\ kind.repeats \/ status \in kind.wants => y.outdated = 0
      /\ y.outdated \in Nat /\ y.obsolete \in Nat
      /\ IF kind.rechecks THEN y.outdated <= 1 ELSE y.outdated <= at
      /\ kind.current => (~Obsolete(t) => y.obsolete = 0) /\ y.obsolete <= at
  BY <1>2, DeliveredFacts
<1> HIDE DEF y
<1>8. /\ x \in TaskRows /\ tasks'[t] = x
      /\ x.pc = now /\ x.at = next /\ x.tries = tasks[t].tries
      /\ x.outdated = y.outdated /\ x.obsolete = y.obsolete /\ x.generation = y.generation
  <2>1. CASE AwaitsMark(t)
    <3>1. x = [y EXCEPT !.pc = "sent"] /\ now = "sent" /\ next = at
      BY <2>1
    <3> HIDE DEF x, now, next
    <3> QED
      BY <1>1, <1>2, <1>7, <3>1 DEF TaskRows
  <2>2. CASE ~AwaitsMark(t)
    <3> DEFINE n == at + 1
    <3>1. x = [y EXCEPT !.at = n] /\ now = "ready" /\ next = n
      BY <2>2
    <3>2. n \in Nat \ {0}
      BY <1>1
    <3> HIDE DEF x, now, next, n
    <3> QED
      BY <1>1, <1>2, <1>7, <3>1, <3>2 DEF TaskRows
  <2> QED
    BY <2>1, <2>2
<1> HIDE DEF x
<1>9. \/ AwaitsMark(t) /\ now = "sent" /\ next = at
      \/ ~AwaitsMark(t) /\ now = "ready" /\ next = at + 1
  OBVIOUS
<1> HIDE DEF now, next
<1>10. MarksOK'
  <2>1. \A i \in DOMAIN Letters : copies[i] > 0 => copies'[i] > 0
    BY <1>1, <1>6
  <2> QED
    BY <1>1, <1>2, <1>4, <2>1 DEF MarksOK
<1>11. CoveredOK(t)'
  <2> SUFFICES ASSUME NEW i \in DOMAIN Letters, Passed(t, i)'
               PROVE  copies'[i] > 0
    BY <1>4 DEF CoveredOK
  <2>1. i <= at
    BY <1>1, <1>8, <1>9 DEF Passed
  <2>2. CASE i = at
    BY <1>1, <1>5, <2>2
  <2>3. CASE i # at
    <3>1. copies[i] > 0
      BY <1>1, <1>2, <2>1, <2>3 DEF TaskOK, CoveredOK, Passed
    <3> QED
      BY <1>5, <2>3, <3>1
  <2> QED
    BY <2>2, <2>3
<1>12. PositionOK(t)'
  <2>1. CASE AwaitsMark(t)
    <3>1. now = "sent" /\ next = at
      BY <1>9, <2>1
    <3>2. AwaitsMark(t)'
      BY <1>2, <1>4, <1>8, <2>1, <3>1 DEF AwaitsMark, Ends
    <3> QED
      BY <1>2, <1>4, <1>8, <3>1, <3>2 DEF PositionOK
  <2>2. CASE ~AwaitsMark(t)
    BY <1>1, <1>2, <1>4, <1>8, <1>9, <2>2 DEF PositionOK
  <2> QED
    BY <2>1, <2>2
<1>13. kind.marked /\ ~kind.repeats => Letters[at] \notin marks
  BY <1>2 , <1>1 DEF TaskOK, UnmarkedOK
<1>14. UnmarkedOK(t)'
  <2> SUFFICES ASSUME kind.marked, ~kind.repeats, next <= Len(Letters)
               PROVE  Letters[next] \notin marks
    BY <1>2, <1>4, <1>8 DEF UnmarkedOK
  <2>1. CASE AwaitsMark(t)
    BY <1>9, <1>13, <2>1
  <2>2. CASE ~AwaitsMark(t)
    <3>1. Letters[at + 1] = Letters[at] /\ next = at + 1
      BY <1>1, <1>9, <2>2 DEF AwaitsMark, Ends
    <3> QED
      BY <1>13, <3>1
  <2> QED
    BY <2>1, <2>2
<1>15. OutdatedOK(t)' /\ ObsoleteOK(t)'
  <2>1. OutdatedOK(t)'
    <3>1. CASE kind.rechecks
      <4>1. Letters = <<1, 2>> /\ kind.marked
        BY <1>1, <3>1 DEF KindOK, Letters
      <4>2. AwaitsMark(t)
        <5>1. at = 1 \/ at = 2
          BY <1>1, <1>2, <4>1
        <5> QED
          BY <4>1, <5>1 DEF AwaitsMark, Ends
      <4> QED
        BY <1>2, <1>7, <1>8, <1>9, <3>1, <4>2 DEF OutdatedOK
    <3>2. CASE ~kind.rechecks
      BY <1>1, <1>2, <1>4, <1>7, <1>8, <1>9, <3>2 DEF OutdatedOK
    <3> QED
      BY <3>1, <3>2
  <2>2. Obsolete(t)' <=> Obsolete(t)
    BY <1>2, <1>7, <1>8 DEF Obsolete
  <2>3. tasks[t].generation <= generation
    BY <1>1 DEF TaskOK, ObsoleteOK
  <2>4. ObsoleteOK(t)'
    BY <1>1, <1>2, <1>4, <1>7, <1>8, <1>9, <2>2, <2>3 DEF ObsoleteOK
  <2> QED
    BY <2>1, <2>4
<1>16. TaskOK(t)'
  BY <1>11, <1>12, <1>14, <1>15 DEF TaskOK
<1>17. ASSUME NEW i \in DOMAIN Letters
       PROVE  copies'[i] + crashes + Points(t, i) <= copies[i] + crashes' + Points(t, i)'
  <2>1. copies[i] \in Nat /\ tasks[t].tries \in Nat
    BY <1>1
  <2>2. CASE i = at
    <3>1. ~Passed(t, i) /\ Passed(t, i)'
      BY <1>1, <1>2, <1>8, <1>9, <2>2 DEF Passed
    <3>2. Points(t, i) = tasks[t].tries /\ Points(t, i)' = tasks[t].tries + 1
      BY <1>8, <2>1, <3>1 DEF Points
    <3> QED
      BY <1>1, <1>2, <1>5, <2>1, <2>2, <3>2
  <2>3. CASE i # at
    <3>1. Passed(t, i) => Passed(t, i)'
      BY <1>1, <1>2, <1>8, <1>9, <2>3 DEF Passed
    <3> QED
      BY <1>1, <1>2, <1>5, <1>8, <2>1, <2>3, <3>1 DEF Points
  <2> QED
    BY <2>2, <2>3
<1>18. ASSUME NEW i \in DOMAIN Letters
       PROVE  OnceOK(i)'
  <2> SUFFICES ASSUME Once(i)
               PROVE  copies'[i] <= unsure'[i] + (IF Settled(i)' THEN 1 ELSE 0)
    BY <1>2, <1>4 DEF OnceOK, Once
  <2>1. copies[i] \in Nat /\ copies[i] <= unsure[i] + (IF Settled(i) THEN 1 ELSE 0)
    BY <1>1 DEF OnceOK
  <2>2. kind.marked /\ ~kind.repeats /\ DOMAIN tasks = {t}
    BY <1>1 DEF Once
  <2>3. Settled(i) => Letters[i] \in marks
    BY <1>2, <2>2 DEF Settled
  <2>4. CASE i = at
    <3>1. ~Settled(i)
      BY <1>13, <2>2, <2>3, <2>4
    <3>2. AwaitsMark(t)
      BY <1>1, <1>2, <1>3, <2>2, <2>4 DEF AwaitsMark, Ends, Once
    <3>3. Settled(i)'
      <4>1. t \in DOMAIN tasks'
        BY <1>2
      <4> QED
        BY <1>8, <1>9, <2>4, <3>2, <4>1 DEF Settled
    <3> QED
      BY <1>1, <1>2, <1>5, <2>1, <2>4, <3>1, <3>3
  <2>5. CASE i # at
    <3>1. Settled(i) => Settled(i)'
      BY <1>2, <1>4, <2>3 DEF Settled
    <3> QED
      BY <1>1, <1>2, <1>5, <2>1, <2>5, <3>1
  <2> QED
    BY <2>4, <2>5
<1>19. /\ UNCHANGED <<kind, generation, leaves, expired>> /\ status' = status
       /\ crashes' \in Nat /\ unsure' \in [DOMAIN Letters -> Nat]
  BY <1>1, <1>2
<1> QED
  BY <1>2, <1>5, <1>6, <1>8, <1>10, <1>16, <1>17, <1>18, <1>19, WorkerKeeps

LEMMA MarkKeeps ==
  ASSUME MailInv, NEW t \in DOMAIN tasks, Mark(t)
  PROVE  MailInv'
<1> DEFINE at == tasks[t].at
           x == [tasks[t] EXCEPT !.pc = "marked"]
<1>1. /\ KindOK(kind) /\ Len(Letters) \in 1..3 /\ DOMAIN Letters = 1..Len(Letters)
      /\ tasks \in Seq(TaskRows) /\ tasks[t] \in TaskRows
      /\ tasks[t].at \in Nat \ {0} /\ tasks[t].tries \in Nat
      /\ tasks[t].outdated \in Nat /\ tasks[t].obsolete \in Nat
      /\ TaskOK(t) /\ MarksOK /\ crashes \in Nat
      /\ copies \in [DOMAIN Letters -> Nat] /\ unsure \in [DOMAIN Letters -> Nat]
      /\ fresh \subseteq DOMAIN Letters
      /\ \A i \in DOMAIN Letters : copies[i] \in Nat /\ unsure[i] \in Nat /\ OnceOK(i)
      /\ ~kind.repeats => DOMAIN tasks = {t}
  BY WorkerFacts
<1>2. /\ tasks[t].pc = "sent"
      /\ tasks' = [tasks EXCEPT ![t] = x]
      /\ marks' = marks \cup {Letters[at]}
      /\ UNCHANGED <<status, generation, leaves, expired, kind, copies, fresh, unsure, crashes>>
  BY DEF Mark, SetMark, row, sent
<1>3. Letters' = Letters
  BY <1>2 DEF Letters
<1>4. /\ x \in TaskRows /\ tasks'[t] = x /\ x.pc = "marked" /\ x.at = at
      /\ x.tries = tasks[t].tries /\ x.outdated = tasks[t].outdated
      /\ x.obsolete = tasks[t].obsolete /\ x.generation = tasks[t].generation
  BY <1>1, <1>2 DEF TaskRows
<1> HIDE DEF x
<1>5. at \in DOMAIN Letters /\ AwaitsMark(t)
  BY <1>1, <1>2 DEF TaskOK, PositionOK
<1>6. \A i \in DOMAIN Letters : i <= at => copies[i] > 0
  BY <1>1, <1>2 DEF TaskOK, CoveredOK, Passed
<1>7. \A i \in DOMAIN Letters : Letters[i] = Letters[at] => i <= at
  <2> SUFFICES ASSUME NEW i \in DOMAIN Letters, Letters[i] = Letters[at], i > at
               PROVE  FALSE
    BY <1>1, <1>5
  <2>1. /\ \A j \in DOMAIN Letters : Letters[j] \in {1, 2}
        /\ \A j, k \in DOMAIN Letters : j <= k => Letters[j] <= Letters[k]
    BY LetterFacts DEF MailInv, MailTypeOK
  <2>2. /\ at \in 1..Len(Letters) /\ i \in 1..Len(Letters) /\ Len(Letters) \in Nat
        /\ DOMAIN Letters = 1..Len(Letters)
    BY <1>1, <1>5
  <2>3. at + 1 \in DOMAIN Letters /\ at + 1 <= i /\ at <= at + 1
    <3> HIDE DEF at
    <3> QED
      BY <2>2
  <2>4. Letters[at + 1] # Letters[at]
    BY <1>1, <1>5, <2>3 DEF AwaitsMark, Ends
  <2>5. Letters[at] <= Letters[at + 1] /\ Letters[at + 1] <= Letters[i]
    BY <1>5, <2>1, <2>3
  <2> QED
    BY <1>5, <2>1, <2>3, <2>4, <2>5
<1>8. MarksOK'
  BY <1>1, <1>2, <1>3, <1>6, <1>7 DEF MarksOK
<1>9. CoveredOK(t)'
  BY <1>2, <1>3, <1>4, <1>6 DEF CoveredOK, Passed
<1>10. PositionOK(t)' /\ UnmarkedOK(t)'
  <2>1. AwaitsMark(t)'
    BY <1>2, <1>3, <1>4, <1>5 DEF AwaitsMark, Ends
  <2> QED
    BY <1>1, <1>3, <1>4, <1>5, <2>1 DEF PositionOK, UnmarkedOK
<1>11. OutdatedOK(t)' /\ ObsoleteOK(t)'
  <2>1. OutdatedOK(t)'
    BY <1>1, <1>2, <1>3, <1>4 DEF TaskOK, OutdatedOK
  <2>2. Obsolete(t)' <=> Obsolete(t)
    BY <1>2, <1>4 DEF Obsolete
  <2>3. ObsoleteOK(t)'
    BY <1>1, <1>2, <1>3, <1>4, <2>2 DEF TaskOK, ObsoleteOK
  <2> QED
    BY <2>1, <2>3
<1>12. TaskOK(t)'
  BY <1>9, <1>10, <1>11 DEF TaskOK
<1>13. ASSUME NEW i \in DOMAIN Letters
       PROVE  copies'[i] + crashes + Points(t, i) <= copies[i] + crashes' + Points(t, i)'
  <2>1. Passed(t, i) <=> Passed(t, i)'
    BY <1>2, <1>4 DEF Passed
  <2> QED
    BY <1>1, <1>2, <1>4, <2>1 DEF Points
<1>14. ASSUME NEW i \in DOMAIN Letters
       PROVE  OnceOK(i)'
  <2> SUFFICES ASSUME Once(i)
               PROVE  copies[i] <= unsure[i] + (IF Settled(i)' THEN 1 ELSE 0)
    BY <1>2, <1>3 DEF OnceOK, Once
  <2>1. copies[i] \in Nat /\ copies[i] <= unsure[i] + (IF Settled(i) THEN 1 ELSE 0)
    BY <1>1 DEF OnceOK
  <2>2. DOMAIN tasks = {t}
    BY <1>1 DEF Once
  <2>3. Settled(i) => Settled(i)'
    BY <1>2, <1>3, <2>2 DEF Settled
  <2> QED
    BY <1>1, <2>1, <2>3
<1>15. /\ UNCHANGED <<kind, generation, leaves, expired>> /\ status' = status
       /\ crashes' \in Nat /\ unsure' \in [DOMAIN Letters -> Nat]
       /\ copies' \in [DOMAIN Letters -> Nat] /\ fresh' \subseteq DOMAIN Letters
       /\ \A i \in DOMAIN Letters : copies[i] <= copies'[i]
  BY <1>1, <1>2
<1> QED
  BY <1>2, <1>4, <1>8, <1>12, <1>13, <1>14, <1>15, WorkerKeeps

LEMMA MailStep ==
  ASSUME MailInv, [Next]_vars
  PROVE  MailInv'
<1>1. ASSUME NEW t \in DOMAIN tasks, Work(t)
      PROVE  MailInv'
  BY <1>1, StartKeeps, SendKeeps, MarkKeeps, RefreshKeeps, FinishKeeps, ReadFailsKeeps,
     SmtpFailsKeeps, DatabaseFailsKeeps
     DEF Work
<1>2. CASE UNCHANGED vars
  <2>1. UNCHANGED <<status, generation, leaves, expired, kind, tasks, marks, copies, fresh,
                    unsure, crashes>>
    BY <1>2 DEF vars, row, sent
  <2>2. generation \in Nat /\ leaves \in Nat /\ generation <= generation'
    BY <2>1 DEF MailInv, MailTypeOK
  <2> QED
    BY <2>1, <2>2, RowKeeps DEF MailInv, RowOK
<1> QED
  BY <1>1, <1>2, ScannerMovesKeeps, AskKeeps, TemporaryPasswordExpiresKeeps,
     OtherRowMovesKeeps, CrashKeeps DEF Next

\* The points of all tasks are their failures, and at most one more for each.
LEMMA MailInvMailedOnce ==
  ASSUME MailInv
  PROVE  MailedOnce
<1>1. /\ DOMAIN Letters = 1..Len(Letters) /\ Len(Letters) \in 1..3
      /\ copies \in [DOMAIN Letters -> Nat] /\ crashes \in Nat
      /\ kind \in Kinds
  BY LetterFacts DEF MailInv, MailTypeOK
<1>2. /\ DOMAIN tasks = 1..Len(tasks) /\ Len(tasks) \in Nat
      /\ IsFiniteSet(DOMAIN tasks) /\ Cardinality(DOMAIN tasks) = Len(tasks)
      /\ \A t \in DOMAIN tasks : tasks[t] \in TaskRows
  BY TasksFinite DEF MailInv
<1> DEFINE tries == [t \in DOMAIN tasks |-> tasks[t].tries]
           D == DOMAIN tasks
<1>3. ASSUME NEW i \in DOMAIN Letters
      PROVE  copies[i] <= Len(tasks) + Interruptions
  <2> DEFINE f == PointsFor(i)
  <2>1. \A t \in D : tries[t] \in Nat /\ f[t] \in Nat /\ f[t] <= tries[t] + 1
    <3>1. \A t \in D : tasks[t].tries \in Nat
      BY <1>2 DEF TaskRows
    <3> QED
      BY <3>1 DEF PointsFor, Points
  <2>2. IsFiniteSet(D) /\ Cardinality(D) = Len(tasks)
    BY <1>2
  <2>3. copies[i] <= crashes + SumFunctionOnSet(f, D)
    BY DEF MailInv, CountOK
  <2>4. Interruptions = crashes + SumFunctionOnSet(tries, D)
    BY DEF Interruptions
  <2> HIDE DEF f, D, tries
  <2>5. SumFunctionOnSet(f, D) <= SumFunctionOnSet(tries, D) + Cardinality(D)
    BY <2>1, <2>2, SumAtMost
  <2>6. SumFunctionOnSet(f, D) \in Nat /\ SumFunctionOnSet(tries, D) \in Nat
    BY <2>1, <2>2, SumType
  <2>7. copies[i] \in Nat
    BY <1>1
  <2> QED
    BY <1>1, <1>2, <2>2, <2>3, <2>4, <2>5, <2>6, <2>7
<1>4. ASSUME NEW i \in DOMAIN Letters, Once(i)
      PROVE  copies[i] <= Len(tasks) + unsure[i]
  <2>1. /\ copies[i] \in Nat /\ unsure[i] \in Nat
        /\ copies[i] <= unsure[i] + (IF Settled(i) THEN 1 ELSE 0)
    BY <1>1, <1>4 DEF MailInv, MailTypeOK, OnceOK
  <2>2. CASE Len(tasks) >= 1
    BY <1>2, <2>1, <2>2
  <2>3. CASE Len(tasks) = 0
    <3>1. tasks = <<>>
      BY <2>3 DEF MailInv, MailTypeOK
    <3>2. copies[i] = 0
      BY <3>1 DEF MailInv, RowOK
    <3> QED
      BY <2>1, <2>3, <3>2
  <2> QED
    BY <1>2, <2>2, <2>3
<1>5. \A t \in DOMAIN tasks : tasks[t].pc = "done" => \A i \in DOMAIN Letters : copies[i] > 0
  BY DEF MailInv, TaskOK, CoveredOK, Passed
<1>6. kind.reports /\ status = "EMAIL_SENT" => \A i \in DOMAIN Letters : copies[i] > 0
  BY DEF MailInv, MarksOK
<1>7. DOMAIN copies = DOMAIN Letters /\ \A i \in DOMAIN Letters : copies[i] \in Nat
  BY <1>1
<1>8. \A i \in DOMAIN copies :
        LET alone == \A j \in DOMAIN Letters : Letters[j] = Letters[i] => j = i
            once  == kind.marked /\ alone /\ ~kind.repeats
        IN  copies[i] <= Len(tasks) + (IF once THEN unsure[i] ELSE Interruptions)
  BY <1>3, <1>4, <1>7 DEF Once
<1>9. (\E i \in DOMAIN copies : copies[i] = 0) =>
        /\ \A t \in DOMAIN tasks : tasks[t].pc # "done"
        /\ kind.reports => status # "EMAIL_SENT"
  BY <1>5, <1>6, <1>7
<1> QED
  BY <1>8, <1>9 DEF MailedOnce

LEMMA SpecMailInv == Spec => []MailInv
<1>1. Init => MailInv
  BY MailInit
<1>2. MailInv /\ [Next]_vars => MailInv'
  BY MailStep
<1> QED
  BY <1>1, <1>2, PTL DEF Spec

-----------------------------------------------------------------------------
(* Theorems about the e-mail tasks. *)

\* The kind of task, its tasks and the counters have the types of the code, for any
\* number of retries, crashes, leaves and temporary passwords.
THEOREM MailTypes == Spec => []MailTypeOK
<1>1. MailInv => MailTypeOK
  BY DEF MailInv
<1> QED
  BY <1>1, SpecMailInv, PTL

\* However SMTP and the database fail and workers die, a letter with a lasting mark of
\* its own goes out once and again only for attempts that ended between the letter and
\* its mark, every other one at most once per attempt, and neither {"sent": True} nor
\* EMAIL_SENT is said while a letter is missing.
THEOREM LettersMailedOnce == Spec => []MailedOnce
<1>1. MailInv => MailedOnce
  BY MailInvMailedOnce
<1> QED
  BY <1>1, SpecMailInv, PTL

\* After the news is over, or the password renewed that a task checks, all its attempts
\* together send no more than the letters that one of them had begun with, and a task
\* that checks again between its letters sends one.
THEOREM OnlyLastLetters == Spec => []LastLettersOnly
<1>1. MailInv => LastLettersOnly
  <2> SUFFICES ASSUME MailInv, NEW t \in DOMAIN tasks
               PROVE  /\ tasks[t].outdated <= IF kind.rechecks THEN 1 ELSE Len(Letters)
                      /\ kind.current => tasks[t].obsolete <= Len(Letters)
    BY DEF LastLettersOnly
  <2> QED
    BY DEF MailInv, TaskOK, OutdatedOK, ObsoleteOK
<1> QED
  BY <1>1, SpecMailInv, PTL
=============================================================================
