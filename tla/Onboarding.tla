----------------------------- MODULE Onboarding -----------------------------
(***************************************************************************)
(* The dossier of one organizer: application, negotiation of the           *)
(* commission, decisions of the administrators, suspension and             *)
(* reactivation, and the requests of the catalog that rely on the dossier  *)
(* (backend/apps/organizing, catalog/views.py).  The e-mails about it are  *)
(* in Mail.                                                                *)
(*                                                                         *)
(* Negotiation and reactivation lock the dossier, so a handler is one      *)
(* step.  An administrator's decision reads the dossier without a lock and *)
(* writes it later, on condition that the version is unchanged.  A handler *)
(* that wants the version in If-Match is enabled for a client that names   *)
(* the present one; every other client is refused and changes nothing.     *)
(*                                                                         *)
(* A definition named Bug_X is a plausible bug in the definition that      *)
(* follows it, for checking that the properties notice it.                 *)
(***************************************************************************)
EXTENDS Integers, Sequences, FiniteSets, SequencesExt

CONSTANTS Admins,        \* administrators whose decisions may overlap
          Rates,         \* rates the parties may propose
          DefaultRate,   \* DEFAULT_COMMISSION_RATE
          Publishers,    \* requests that publish an event
          MaxVersion,    \* bound on the version of the dossier
          MaxRequests    \* bound on the reactivation requests

ASSUME OnboardingAssumption ==
  /\ IsFiniteSet(Admins) /\ IsFiniteSet(Publishers)
  /\ MaxVersion \in Nat /\ MaxRequests \in Nat

VARIABLES org,        \* the organizing_organizer row
          proposals,  \* organizing_organizer_commission_proposal, by sequence
          reading,    \* the dossier as a request has read it, before the proposals
          served,     \* answers that carry the present version
          decision,   \* a decision between its read and its write
          requests,   \* organizing_organizer_reactivation_request
          told,       \* the last decision that was announced through the outbox
          publishing  \* where each publication is, and the version it was authorised under

dossierVars == <<org, proposals, reading, served, decision, requests, told, publishing>>
dossier == <<org, proposals, reading, served>>

Parties == {"ORGANIZER", "ADMIN"}
Nothing == [version |-> 0]
NoDecision == [target |-> "none", expected |-> 0]

Row(status, version) ==
  [status |-> status, version |-> version, rate |-> DefaultRate, agreed |-> FALSE]

\* A dossier of before the negotiation existed has no proposals; migration 0012
\* takes the rate of the accounts in business for agreed.
LegacyRow(status, version, rate) ==
  [status |-> status, version |-> version, rate |-> rate,
   agreed |-> status \in {"APPROVED", "SUSPENDED"}]

\* No dossier yet, or an old one.
OnboardingInit ==
  /\ \E rate \in Rates \cup {DefaultRate} :
       org \in {Row("NONE", 0), LegacyRow("PENDING", 1, rate), LegacyRow("APPROVED", 2, rate),
               LegacyRow("REJECTED", 2, rate), LegacyRow("SUSPENDED", 3, rate)}
  /\ proposals = <<>> /\ requests = <<>>
  /\ reading = Nothing /\ served = {}
  /\ decision = [a \in Admins |-> NoDecision]
  /\ publishing = [p \in Publishers |-> [pc |-> "new", arrived |-> 0]]
  /\ told = org.status

Bug_BumpOnStatusOnly(row) ==
  IF row.status = org.status THEN row ELSE [row EXCEPT !.version = @ + 1]

Bumped(row) == [row EXCEPT !.version = @ + 1]

\* Answers of an older version, given or under way, match nothing any more.
Write(row) ==
  /\ org.version < MaxVersion
  /\ org' = Bumped(row)
  /\ IF org'.version = org.version THEN UNCHANGED <<reading, served>>
                                   ELSE reading' = Nothing /\ served' = {}

\* publish_event in the same transaction.
Announce(event) == told' = event

-----------------------------------------------------------------------------
(* The application. *)

Proposal(party, rate) == [by |-> party, rate |-> rate, accepted |-> FALSE]

\* create_initial_proposal, in the transaction that creates the dossier.
InitialProposal(rate) ==
  /\ rate \in Rates /\ proposals = <<>>
  /\ proposals' = <<Proposal("ORGANIZER", rate)>>

\* The account has at most one dossier (user is unique), and gets the role with it.
Apply ==
  /\ org.status = "NONE"
  /\ org' = Row("PENDING", 1)
  /\ \E rate \in Rates : InitialProposal(rate)
  /\ UNCHANGED <<reading, served, decision, requests, told, publishing>>

-----------------------------------------------------------------------------
(* Reading the negotiation: the row first, then the proposals. *)

\* OrganizerCommissionNegotiationView.get and its administrator's twin; the answer
\* to a write is the row it wrote and goes on the same way.
GetNegotiation ==
  /\ org.status # "NONE" /\ reading = Nothing
  /\ reading' = org
  /\ UNCHANGED <<org, proposals, served, decision, requests, told, publishing>>

\* organizer_commission_negotiation_data.
NegotiationData(row) ==
  [row |-> row, proposals |-> proposals,
   status |-> IF row.status = "REJECTED" THEN "CANCELLED"
              ELSE IF row.agreed THEN "AGREED" ELSE "NEGOTIATING"]

CommissionResponse ==
  /\ reading # Nothing
  /\ served' = served \cup {NegotiationData(reading)}
  /\ reading' = Nothing
  /\ UNCHANGED <<org, proposals, decision, requests, told, publishing>>

-----------------------------------------------------------------------------
(* OrganizerCommissionService. *)

\* _require_negotiable_account.
NegotiableAccount == org.status \in {"PENDING", "APPROVED"}

\* _require_not_agreed.
NotAgreed == ~org.agreed

\* _legacy_initial: an old dossier gets its own rate as the first proposal.
LegacyInitial == IF proposals = <<>> THEN <<Proposal("ORGANIZER", org.rate)>> ELSE proposals

Bug_AnyTurn(list, proposer) == list # <<>>

\* _require_turn: the last proposal is open and the other party's.
Turn(list, proposer) ==
  /\ list # <<>>
  /\ ~Last(list).accepted /\ Last(list).by = proposer

\* The answer goes under the latest proposal of `list`.
Counter(list, party, rate) ==
  /\ NegotiableAccount /\ NotAgreed
  /\ proposals' = Append(list, Proposal(party, rate))
  /\ Write(org)
  /\ UNCHANGED <<decision, requests, told, publishing>>

AdminCounter(rate) ==
  /\ Turn(LegacyInitial, "ORGANIZER")
  /\ Counter(LegacyInitial, "ADMIN", rate)

OrganizerCounter(rate) ==
  /\ Turn(proposals, "ADMIN")
  /\ Counter(proposals, "ORGANIZER", rate)

\* _accept: the agreement also approves a dossier that is still pending.
Accept(list) ==
  /\ NegotiableAccount /\ NotAgreed
  /\ proposals' = [list EXCEPT ![Len(list)].accepted = TRUE]
  /\ Write([org EXCEPT !.rate = Last(list).rate, !.agreed = TRUE, !.status = "APPROVED"])
  /\ IF org.status = "PENDING" THEN Announce("APPROVED") ELSE UNCHANGED told
  /\ UNCHANGED <<decision, requests, publishing>>

AdminAccept ==
  /\ Turn(LegacyInitial, "ORGANIZER")
  /\ Accept(LegacyInitial)

OrganizerAccept ==
  /\ Turn(proposals, "ADMIN")
  /\ Accept(proposals)

-----------------------------------------------------------------------------
(* OrganizerOnboardingService: read and check, then a conditional update. *)

\* _require_state, on a row read without a lock.
CheckDossier(a, from, target) ==
  /\ decision[a] = NoDecision
  /\ org.status = from
  /\ decision' = [decision EXCEPT ![a] = [target |-> target, expected |-> org.version]]
  /\ UNCHANGED <<dossier, requests, told, publishing>>

Approve(a) == CheckDossier(a, "PENDING", "APPROVED")
Reject(a) == CheckDossier(a, "PENDING", "REJECTED")
Suspend(a) == CheckDossier(a, "APPROVED", "SUSPENDED")

\* versioned_update: WHERE version = expected_version.
StillExpected(a) == org.version = decision[a].expected

\* The update and the event, one transaction.
WriteDecision(a) ==
  /\ decision[a] # NoDecision /\ StillExpected(a)
  /\ Write([org EXCEPT !.status = decision[a].target])
  /\ Announce(decision[a].target)
  /\ decision' = [decision EXCEPT ![a] = NoDecision]
  /\ UNCHANGED <<proposals, requests, publishing>>

\* STALE_RESOURCE.
RefuseDecision(a) ==
  /\ decision[a] # NoDecision /\ ~StillExpected(a)
  /\ decision' = [decision EXCEPT ![a] = NoDecision]
  /\ UNCHANGED <<dossier, requests, told, publishing>>

-----------------------------------------------------------------------------
(* OrganizerReactivationService. *)

Pending == {i \in DOMAIN requests : requests[i].status = "PENDING"}

Bug_AnytimeRequest == org.status \in {"APPROVED", "SUSPENDED"}

MayRequest == org.status = "SUSPENDED"

\* A request that is pending already is returned as it is.
RequestReactivation ==
  /\ MayRequest /\ Pending = {} /\ Len(requests) < MaxRequests
  /\ requests' = Append(requests, [status |-> "PENDING", organizer_version |-> org.version])
  /\ UNCHANGED <<dossier, decision, told, publishing>>

Reviewed(i, verdict) ==
  /\ org.status = "SUSPENDED" /\ i \in Pending
  /\ requests' = [requests EXCEPT ![i].status = verdict]

\* reopen(): SUSPENDED to APPROVED, with an event of its own.
Reopen ==
  /\ Write([org EXCEPT !.status = "APPROVED"])
  /\ Announce("REOPENED")

ApproveReactivation(i) ==
  /\ Reviewed(i, "APPROVED")
  /\ Reopen
  /\ UNCHANGED <<proposals, decision, publishing>>

\* The dossier keeps its version.
RejectReactivation(i) ==
  /\ Reviewed(i, "REJECTED")
  /\ UNCHANGED <<dossier, decision, told, publishing>>

-----------------------------------------------------------------------------
(* The catalog: authorised when the request arrives, carried out later. *)

Bug_ApprovalForgotten == org.status # "NONE" /\ org.agreed

ApprovedOrganizer == org.status = "APPROVED"          \* IsApprovedOrganizer
AgreedOrganizer == ApprovedOrganizer /\ org.agreed    \* IsCommissionAgreedOrganizer

\* resolve_organizer_commercial_context.
CommercialContext == ApprovedOrganizer /\ AgreedOrganizer

\* CatalogOrganizerContextMixin.initial and the permissions of the view.
Authorise(p) ==
  /\ publishing[p].pc = "new"
  /\ CommercialContext
  /\ publishing' = [publishing EXCEPT ![p] = [pc |-> "authorised", arrived |-> org.version]]
  /\ UNCHANGED <<dossier, decision, requests, told>>

\* EventPublishView.post locks the event, not the dossier (see Catalog).
Publish(p) ==
  /\ publishing[p].pc = "authorised"
  /\ publishing' = [publishing EXCEPT ![p].pc = "published"]
  /\ UNCHANGED <<dossier, decision, requests, told>>

-----------------------------------------------------------------------------
OrganizerTurn == OrganizerAccept \/ \E rate \in Rates : OrganizerCounter(rate)

AdminTurn == AdminAccept \/ \E rate \in Rates : AdminCounter(rate)

Negotiate == Apply \/ GetNegotiation \/ CommissionResponse \/ OrganizerTurn \/ AdminTurn

Decide == \E a \in Admins :
  Approve(a) \/ Reject(a) \/ Suspend(a) \/ WriteDecision(a) \/ RefuseDecision(a)

Reactivate ==
  \/ RequestReactivation
  \/ \E i \in DOMAIN requests : ApproveReactivation(i) \/ RejectReactivation(i)

Sell == \E p \in Publishers : Authorise(p) \/ Publish(p)

OnboardingNext == Negotiate \/ Decide \/ Reactivate \/ Sell

OnboardingSpec == OnboardingInit /\ [][OnboardingNext]_dossierVars

-----------------------------------------------------------------------------
\* Whoever holds the present version was shown the present negotiation: to accept
\* with this If-Match is to accept the proposal on the screen, although the row and
\* the proposals are read by two queries and only the row has a version.
VersionCoversNegotiation ==
  \A s \in served : s.row = org /\ s.proposals = proposals

\* The proposals alternate and only the last can be accepted.  A rate is agreed on a
\* live account only, and where there are proposals it is the one of the last, which
\* was accepted.
AgreementStands ==
  /\ \A k \in 1..Len(proposals) :
       /\ proposals[k].by = (IF k % 2 = 1 THEN "ORGANIZER" ELSE "ADMIN")
       /\ proposals[k].accepted => k = Len(proposals)
  /\ org.agreed =>
       /\ org.status \in {"APPROVED", "SUSPENDED"}
       /\ proposals # <<>> => Last(proposals).accepted /\ org.rate = Last(proposals).rate

\* A commission is agreed on a live account only, never on a rejected dossier that a
\* counterpart still has on the screen; it is agreed by the acceptance of the other
\* party's last proposal, whose rate is charged, and never but by one: only the rates
\* that migration 0012 took for agreed have no proposal.  An agreement is final:
\* suspensions and reactivations, whoever decides them, leave the rate and the
\* proposals as they are.
AgreementIsMutual ==
  [][/\ AgreementStands'
     /\ org.agreed => org'.agreed /\ org'.rate = org.rate /\ proposals' = proposals
     /\ ~org.agreed /\ org'.agreed => proposals' # <<>>]_dossierVars

\* Only SUSPENDED is left by a reactivation, and only by one that was asked for
\* during this very suspension; other decisions are taken once, although the
\* administrators read the dossier without a lock.  Each is announced, also the
\* approval that comes with an agreement.
DecisionsAreLawful ==
  [][org.status # org'.status =>
       \/ org.status = "NONE" /\ org'.status = "PENDING"
       \/ /\ \/ org.status = "PENDING" /\ org'.status \in {"APPROVED", "REJECTED"}
             \/ org.status = "APPROVED" /\ org'.status = "SUSPENDED"
          /\ told' = org'.status
       \/ /\ org.status = "SUSPENDED" /\ org'.status = "APPROVED" /\ told' = "REOPENED"
          /\ \E i \in Pending : /\ requests'[i].status = "APPROVED"
                                /\ requests[i].organizer_version = org.version]_dossierVars

\* An event is published under an agreed commission, and after a suspension only by
\* a request that was authorised before it.
SuspensionStopsPublishing ==
  [][\A p \in Publishers : publishing[p].pc = "authorised" /\ publishing'[p].pc = "published" =>
       org.agreed /\ (org.status = "APPROVED" \/ publishing[p].arrived < org.version)]_dossierVars
=============================================================================
