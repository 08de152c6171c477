------------------------------- MODULE Catalog -------------------------------
(***************************************************************************)
(* The organizer's side of one event: drafting, publication, postponement, *)
(* suspension, cancellation, archiving, periodic completion, its ticket    *)
(* categories and its image (backend/apps/catalog/views.py, completion.py).*)
(*                                                                         *)
(* Every handler locks the event row before it looks at it, so a handler   *)
(* is one step, except the upload of an image: it talks to the object      *)
(* store before its transaction, and after it through on_commit.           *)
(*                                                                         *)
(* A definition named Bug_X is a plausible bug in the definition that      *)
(* follows it, for checking that the properties notice it.                 *)
(***************************************************************************)
EXTENDS CatalogLifecycle, FiniteSets, Functions

CONSTANTS Categories,  \* ticket categories an organizer may create
          Quotas,      \* quotas and capacities an organizer may enter
          Capacities,
          Puts,        \* requests that upload an image; each makes its own object key
          NoCapacity, NoImage,
          MaxVersion,  \* bound on the version of the event
          MaxQuotaVersion, \* bound on the version of a ticket category
          MaxTime,     \* bound on the clock, in days
          MaxLosses    \* bound on the object deletions that fail or are lost in a crash

ASSUME CatalogAssumption ==
  /\ IsFiniteSet(Categories) /\ IsFiniteSet(Puts)
  /\ Quotas \subseteq Nat \ {0} /\ Capacities \subseteq Nat \ {0}
  /\ NoCapacity \notin Nat /\ NoDate \notin Nat /\ NoImage \notin Puts
  /\ MaxVersion \in Nat /\ MaxQuotaVersion \in Nat /\ MaxTime \in Nat /\ MaxLosses \in Nat
  /\ Schedules \subseteq {d \in [starts_at : Nat, ends_at : Nat] : d.starts_at < d.ends_at}

VARIABLES now,
          event,    \* the catalog_event row
          served,   \* the rows that clients may have read under the present version
          cat,      \* catalog_ticket_category
          told,     \* the last status and the last dates published to the outbox
          put,      \* where each upload is
          stored,   \* keys in the object store
          doomed,   \* keys whose deletion was registered and has not run
          losses

vars == <<now, event, served, cat, told, put, stored, doomed, losses>>
images == <<put, stored, doomed, losses>>

NoCategory == [version |-> 0, quota |-> 0, sold |-> 0]
Existing == {c \in Categories : cat[c] # NoCategory}
QuotaTotal == SumFunctionOnSet([c \in Categories |-> cat[c].quota], Existing)
ScheduleOf(e) == [starts_at |-> e.starts_at, ends_at |-> e.ends_at]

\* EventListCreateView.post: a draft without venue, capacity, image or window.
Init ==
  /\ now = 0
  /\ event \in {[status |-> "DRAFT", version |-> 1,
                 starts_at |-> d.starts_at, ends_at |-> d.ends_at,
                 sales_starts_at |-> NoDate, sales_ends_at |-> NoDate,
                 postponed_from_starts_at |-> NoDate, postponed_from_ends_at |-> NoDate,
                 postponed_to_starts_at |-> NoDate, postponed_to_ends_at |-> NoDate,
                 venue |-> FALSE, capacity |-> NoCapacity, image |-> NoImage]
                  : d \in {d \in Schedules : d.starts_at > 0}}
  /\ served = {event}
  /\ cat = [c \in Categories |-> NoCategory]
  /\ told = [status |-> "DRAFT", schedule |-> NoSchedule]
  /\ put = [p \in Puts |-> [pc |-> "new", expected |-> 0]]
  /\ stored = {} /\ doomed = {} /\ losses = 0

Tick ==
  /\ now < MaxTime
  /\ now' = now + 1
  /\ UNCHANGED <<event, served, cat, told, images>>

Bug_BumpOnEditsOnly(row) ==
  IF row.status = event.status THEN [row EXCEPT !.version = @ + 1] ELSE row

Bumped(row) == [row EXCEPT !.version = @ + 1]

\* versioned_update of a client whose If-Match names the present version; every
\* other client is refused and changes nothing.
Write(row) ==
  /\ event.version < MaxVersion
  /\ event' = Bumped(row)
  /\ served' = IF event'.version = event.version THEN served \cup {event'} ELSE {event'}

Bug_DraftOrArchived == event.status \in {"DRAFT", "ARCHIVED"}

\* _require_draft.
IsDraft == event.status = "DRAFT"

-----------------------------------------------------------------------------
(* The draft: the event, and its ticket categories under the event's lock. *)

\* The capacity covers the quotas, and stays set while there are any.
CapacityCovers(capacity) ==
  QuotaTotal > 0 => capacity # NoCapacity /\ QuotaTotal <= capacity

UpdateEvent ==
  /\ IsDraft
  /\ \E capacity \in Capacities \cup {NoCapacity}, venue \in BOOLEAN,
        d \in {ScheduleOf(event)} \cup {d \in Schedules : d.starts_at > now} :
       /\ capacity # event.capacity => CapacityCovers(capacity)
       /\ Write([event EXCEPT !.capacity = capacity, !.venue = venue,
                              !.starts_at = d.starts_at, !.ends_at = d.ends_at])
  /\ UNCHANGED <<now, cat, told, images>>

Bug_QuotaAlone(others, quota) == event.capacity # NoCapacity /\ quota <= event.capacity

\* _validate_quota_capacity.
QuotaFits(others, quota) ==
  event.capacity # NoCapacity /\ others + quota <= event.capacity

CreateTicketCategory(c) ==
  /\ IsDraft /\ c \notin Existing
  /\ \E quota \in Quotas :
       /\ QuotaFits(QuotaTotal, quota)
       /\ cat' = [cat EXCEPT ![c] = [version |-> 1, quota |-> quota, sold |-> 0]]
  /\ UNCHANGED <<now, event, served, told, images>>

UpdateTicketCategory(c) ==
  /\ IsDraft /\ c \in Existing
  /\ cat[c].version < MaxQuotaVersion
  /\ \E quota \in Quotas :
       /\ quota >= cat[c].sold
       /\ QuotaFits(QuotaTotal - cat[c].quota, quota)
       /\ cat' = [cat EXCEPT ![c].quota = quota, ![c].version = @ + 1]
  /\ UNCHANGED <<now, event, served, told, images>>

DeleteTicketCategory(c) ==
  /\ IsDraft /\ c \in Existing
  /\ cat[c].sold = 0
  /\ cat' = [cat EXCEPT ![c] = NoCategory]
  /\ UNCHANGED <<now, event, served, told, images>>

\* A confirmed order takes stock (see Ordering).
Sell(c) ==
  /\ event.status \notin {"DRAFT", "DELETED"}
  /\ cat[c].sold < cat[c].quota
  /\ cat' = [cat EXCEPT ![c].sold = @ + 1]
  /\ UNCHANGED <<now, event, served, told, images>>

-----------------------------------------------------------------------------
(* The lifecycle. *)

Publishable ==
  /\ event.venue /\ event.capacity # NoCapacity
  /\ event.starts_at > now
  /\ Existing # {}
  /\ QuotaTotal <= event.capacity

\* The lifecycle event that goes to the outbox in the same transaction.  Only a
\* postponement, with or without a new date, and the completion carry the dates.
Tell ==
  told' = [status   |-> event'.status,
           schedule |-> IF event'.status \in {"POSTPONED", "COMPLETED"}
                        THEN ScheduleOf(event') ELSE told.schedule]

PublishEvent ==
  /\ IsDraft /\ Publishable
  /\ Write([event EXCEPT !.status = "PUBLISHED"])
  /\ Tell
  /\ UNCHANGED <<now, cat, images>>

Bug_FirstScheduleOnly ==
  event.status # "POSTPONED" \/ event.postponed_from_starts_at = NoDate

\* Whether a postponement replaces an announced schedule, which becomes the old
\* one; a date for an event postponed without one keeps the old one.
ReplacesSchedule ==
  \/ event.status # "POSTPONED"
  \/ event.postponed_from_starts_at = NoDate
  \/ event.postponed_to_starts_at # NoDate

PostponeEvent ==
  /\ CanPostpone(event)
  /\ \E d \in AnnounceableSchedules(now) :
       Write([Postponed(event, d) EXCEPT
                !.postponed_from_starts_at = IF ReplacesSchedule THEN event.starts_at ELSE @,
                !.postponed_from_ends_at   = IF ReplacesSchedule THEN event.ends_at ELSE @])
  /\ Tell
  /\ UNCHANGED <<now, cat, images>>

SuspendEvent ==
  /\ event.status \in {"PUBLISHED", "POSTPONED"}
  /\ Write([event EXCEPT !.status = "SUSPENDED"])
  /\ Tell
  /\ UNCHANGED <<now, cat, images>>

CancelEvent ==
  /\ event.status \in {"PUBLISHED", "POSTPONED", "SUSPENDED"}
  /\ Write([event EXCEPT !.status = "CANCELLED"])
  /\ Tell
  /\ UNCHANGED <<now, cat, images>>

Bug_ArchivePostponed == event.status \in {"PUBLISHED", "POSTPONED"}

\* _require_published_for_archive.
Archivable == event.status = "PUBLISHED"

\* Archiving and unarchiving are silent.
ArchiveEvent ==
  /\ Archivable
  /\ Write([event EXCEPT !.status = "ARCHIVED"])
  /\ UNCHANGED <<now, cat, told, images>>

UnarchiveEvent ==
  /\ event.status = "ARCHIVED"
  /\ Write([event EXCEPT !.status = "PUBLISHED"])
  /\ UNCHANGED <<now, cat, told, images>>

\* complete_event_if_elapsed: no new version.
CompleteEvent ==
  /\ CanBeCompleted(event, now)
  /\ event' = [event EXCEPT !.status = "COMPLETED"]
  /\ served' = served \cup {event'}
  /\ Tell
  /\ UNCHANGED <<now, cat, images>>

-----------------------------------------------------------------------------
(* The image. *)

Keys(image) == {image} \ {NoImage}
ImageEditable == event.status \in {"DRAFT", "PUBLISHED", "POSTPONED"}

\* EventImageView.put: a look without a lock, then the upload.
Upload(p) ==
  /\ put[p].pc = "new"
  /\ ImageEditable
  /\ stored' = stored \cup {p}
  /\ put' = [put EXCEPT ![p] = [pc |-> "uploaded", expected |-> event.version]]
  /\ UNCHANGED <<now, event, served, cat, told, doomed, losses>>

Bug_DeletedBeforeCommit(p, accepted) ==
  Keys(event.image) \cup IF accepted THEN {} ELSE {p}

Bug_RefusedIsKept(p, accepted) == IF accepted THEN Keys(event.image) ELSE {}

\* What a put leaves to delete: the image it replaced, or its own when refused.
Leftover(p, accepted) == IF accepted THEN Keys(event.image) ELSE {p}

\* The transaction of the put, under the row lock.
SwapImage(p) ==
  /\ put[p].pc = "uploaded"
  /\ LET accepted == ImageEditable /\ put[p].expected = event.version IN
     /\ IF accepted THEN Write([event EXCEPT !.image = p]) ELSE UNCHANGED <<event, served>>
     /\ doomed' = doomed \cup Leftover(p, accepted)
  /\ put' = [put EXCEPT ![p].pc = "done"]
  /\ UNCHANGED <<now, cat, told, stored, losses>>

DeleteImage ==
  /\ IsDraft /\ event.image # NoImage
  /\ Write([event EXCEPT !.image = NoImage])
  /\ doomed' = doomed \cup Keys(event.image)
  /\ UNCHANGED <<now, cat, told, put, stored, losses>>

\* EventDetailView.delete: the categories go with the row.
DeleteEvent ==
  /\ IsDraft
  /\ \A c \in Existing : cat[c].sold = 0
  /\ event' = [event EXCEPT !.status = "DELETED", !.image = NoImage]
  /\ served' = {event'}
  /\ cat' = [c \in Categories |-> NoCategory]
  /\ doomed' = doomed \cup Keys(event.image)
  /\ UNCHANGED <<now, told, put, stored, losses>>

\* _safe_storage_delete, after the commit or in the except branch.
DeleteObject(k) ==
  /\ k \in doomed
  /\ doomed' = doomed \ {k}
  /\ stored' = stored \ {k}
  /\ UNCHANGED <<now, event, served, cat, told, put, losses>>

\* The store refuses, which is only logged, or the process dies before.
LoseDeletion(k) ==
  /\ k \in doomed /\ losses < MaxLosses
  /\ doomed' = doomed \ {k}
  /\ losses' = losses + 1
  /\ UNCHANGED <<now, event, served, cat, told, put, stored>>

\* The process dies between the upload and the transaction.
LoseUpload(p) ==
  /\ put[p].pc = "uploaded" /\ losses < MaxLosses
  /\ put' = [put EXCEPT ![p].pc = "done"]
  /\ losses' = losses + 1
  /\ UNCHANGED <<now, event, served, cat, told, stored, doomed>>

-----------------------------------------------------------------------------
Draft ==
  \/ UpdateEvent \/ DeleteEvent
  \/ \E c \in Categories : CreateTicketCategory(c) \/ UpdateTicketCategory(c)
                             \/ DeleteTicketCategory(c)

Lifecycle ==
  \/ PublishEvent \/ PostponeEvent \/ SuspendEvent \/ CancelEvent
  \/ ArchiveEvent \/ UnarchiveEvent \/ CompleteEvent

Image ==
  \/ DeleteImage
  \/ \E p \in Puts : Upload(p) \/ SwapImage(p) \/ DeleteObject(p)
                       \/ LoseDeletion(p) \/ LoseUpload(p)

Next == Tick \/ Draft \/ Lifecycle \/ Image \/ \E c \in Categories : Sell(c)

Spec == Init /\ [][Next]_vars

-----------------------------------------------------------------------------
\* Whatever the order in which capacity and quotas are edited, by however many
\* editors, the quotas fit the capacity; and what is on sale has a place, a
\* capacity and something to sell.
OnSaleIsComplete ==
  /\ Existing # {} => event.capacity # NoCapacity /\ QuotaTotal <= event.capacity
  /\ \A c \in Existing : cat[c].sold <= cat[c].quota
  /\ event.status \notin {"DRAFT", "DELETED"} => event.venue /\ Existing # {}

\* Publication freezes what is sold: no later step, unarchiving included, changes
\* the capacity or a quota, or reopens the draft (Ordering takes them as constants);
\* and a write that is accepted comes from a client that saw the row it changes,
\* although the completion changes the row under the same version.
FrozenOncePublished ==
  [][/\ event.status # "DRAFT" =>
          /\ event'.status # "DRAFT"
          /\ event'.capacity = event.capacity
          /\ \A c \in Categories : cat'[c].quota = cat[c].quota
     /\ event'.version > event.version => served = {event}]_vars

\* What a listener of the outbox should hold for the dates: none, so that it asks the
\* catalog for them, until they were announced for the first time.
ToldSchedule ==
  IF event.postponed_from_starts_at = NoDate /\ event.status # "COMPLETED"
  THEN NoSchedule ELSE ScheduleOf(event)

\* A postponed event keeps the date its buyers know: the old date while no new
\* one is announced, and never the new one as the old one; and who listens to the
\* outbox knows the status, although archiving and unarchiving are not announced, and
\* never holds other dates than those of the event: none of them before the first
\* postponement, the present ones from then on.
OldDateIsKept ==
  /\ event.status = "POSTPONED" =>
       IF event.postponed_to_starts_at = NoDate
       THEN /\ event.starts_at = event.postponed_from_starts_at
            /\ event.ends_at = event.postponed_from_ends_at
       ELSE /\ event.starts_at = event.postponed_to_starts_at
            /\ event.ends_at = event.postponed_to_ends_at
  /\ event.status \notin {"DRAFT", "DELETED", "ARCHIVED"} =>
       told = [status |-> event.status, schedule |-> ToldSchedule]

\* The image an event names is in the store, through concurrent uploads, refused
\* versions, deletions and crashes; objects that nothing names come from a lost
\* deletion or a crash, never from a refused or replaced upload.
ImageIsStored ==
  LET running == {p \in Puts : put[p].pc = "uploaded"}
      unnamed == stored \ (Keys(event.image) \cup doomed \cup running)
  IN  /\ Keys(event.image) \subseteq stored \ doomed
      /\ Cardinality(unnamed) <= losses
=============================================================================
