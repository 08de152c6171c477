--------------------------- MODULE CatalogProofs ---------------------------
(* Proofs about Catalog, for any number of ticket categories and uploads,  *)
(* any quotas, capacities and schedules, and whatever the bounds.          *)
EXTENDS Catalog, SumFacts, TLAPS

Dates == Nat \cup {NoDate}

EventRow ==
  [status : EventStatuses \cup {"DELETED"}, version : Nat,
   starts_at : Nat, ends_at : Nat, sales_starts_at : Dates, sales_ends_at : Dates,
   postponed_from_starts_at : Dates, postponed_from_ends_at : Dates,
   postponed_to_starts_at : Dates, postponed_to_ends_at : Dates,
   venue : BOOLEAN, capacity : Capacities \cup {NoCapacity}, image : Puts \cup {NoImage}]

CategoryRows == [version : Nat, quota : Nat, sold : Nat]

TypeOK ==
  /\ now \in Nat
  /\ event \in EventRow
  /\ cat \in [Categories -> CategoryRows]
  /\ told \in [status : EventStatuses \cup {"DELETED"},
               schedule : [starts_at : Dates, ends_at : Dates]]
  /\ put \in [Puts -> [pc : {"new", "uploaded", "done"}, expected : Nat]]
  /\ stored \subseteq Puts /\ doomed \subseteq Puts /\ losses \in Nat

\* Only the completion changes the row under the same version, and nothing follows it.
ServedOK == event.status # "COMPLETED" => served = {event}

\* A draft has announced nothing; an archived event was announced as published:
\* archiving is silent.
ArchivedOK ==
  /\ event.status = "DRAFT" =>
       told.schedule = NoSchedule /\ event.postponed_from_starts_at = NoDate
  /\ event.status = "ARCHIVED" => told = [status |-> "PUBLISHED", schedule |-> ToldSchedule]

\* A category that exists has a quota.
QuotasOK == \A c \in Categories :
  /\ c \in Existing => cat[c].quota > 0
  /\ c \notin Existing => cat[c] = NoCategory

\* An uploaded object is stored and neither named nor doomed yet; no other upload has
\* its key.
UploadsOK ==
  /\ doomed \subseteq stored
  /\ \A p \in Puts :
       /\ put[p].pc = "uploaded" => p \in stored /\ p \notin doomed /\ event.image # p
       /\ put[p].pc = "new" => p \notin stored /\ event.image # p

IInv ==
  /\ TypeOK
  /\ ServedOK
  /\ OldDateIsKept /\ ArchivedOK
  /\ OnSaleIsComplete /\ QuotasOK
  /\ ImageIsStored /\ UploadsOK

-----------------------------------------------------------------------------
(* What a write does to the row. *)

LEMMA WriteEffect ==
  ASSUME event \in EventRow, NEW row \in EventRow, row.version = event.version, Write(row)
  PROVE  /\ event' \in EventRow
         /\ event'.version = event.version + 1
         /\ served' = {event'}
         /\ event'.status = row.status
         /\ event'.starts_at = row.starts_at /\ event'.ends_at = row.ends_at
         /\ event'.postponed_from_starts_at = row.postponed_from_starts_at
         /\ event'.postponed_from_ends_at = row.postponed_from_ends_at
         /\ event'.postponed_to_starts_at = row.postponed_to_starts_at
         /\ event'.postponed_to_ends_at = row.postponed_to_ends_at
         /\ event'.venue = row.venue /\ event'.capacity = row.capacity
         /\ event'.image = row.image
<1>1. event' = [row EXCEPT !.version = row.version + 1]
  BY DEF Write, Bumped
<1>2. event.version \in Nat /\ event.version + 1 \in Nat
  BY DEF EventRow
<1>3. /\ event' \in EventRow
      /\ event'.version = event.version + 1
      /\ event'.status = row.status
      /\ event'.starts_at = row.starts_at /\ event'.ends_at = row.ends_at
      /\ event'.postponed_from_starts_at = row.postponed_from_starts_at
      /\ event'.postponed_from_ends_at = row.postponed_from_ends_at
      /\ event'.postponed_to_starts_at = row.postponed_to_starts_at
      /\ event'.postponed_to_ends_at = row.postponed_to_ends_at
      /\ event'.venue = row.venue /\ event'.capacity = row.capacity
      /\ event'.image = row.image
  BY <1>1, <1>2 DEF EventRow
<1>4. event'.version # event.version
  BY <1>2, <1>3
<1>5. served' = {event'}
  BY <1>4 DEF Write
<1> QED
  BY <1>3, <1>5

\* The commercial part of the row.
SameTerms ==
  event'.venue = event.venue /\ event'.capacity = event.capacity
SameDates ==
  /\ event'.starts_at = event.starts_at /\ event'.ends_at = event.ends_at
  /\ event'.postponed_from_starts_at = event.postponed_from_starts_at
  /\ event'.postponed_from_ends_at = event.postponed_from_ends_at
  /\ event'.postponed_to_starts_at = event.postponed_to_starts_at
  /\ event'.postponed_to_ends_at = event.postponed_to_ends_at

LEMMA UpdateEventSteps ==
  ASSUME TypeOK, UpdateEvent
  PROVE  /\ event' \in EventRow /\ event'.version = event.version + 1 /\ served' = {event'}
         /\ event.status = "DRAFT" /\ event'.status = "DRAFT"
         /\ event'.image = event.image
         /\ event'.postponed_from_starts_at = event.postponed_from_starts_at
         /\ event'.capacity # event.capacity => CapacityCovers(event'.capacity)
         /\ UNCHANGED <<now, cat, told, images>>
<1>1. PICK capacity \in Capacities \cup {NoCapacity}, venue \in BOOLEAN,
        d \in {ScheduleOf(event)} \cup {d \in Schedules : d.starts_at > now} :
          /\ capacity # event.capacity => CapacityCovers(capacity)
          /\ Write([event EXCEPT !.capacity = capacity, !.venue = venue,
                                 !.starts_at = d.starts_at, !.ends_at = d.ends_at])
  BY DEF UpdateEvent
<1> DEFINE row == [event EXCEPT !.capacity = capacity, !.venue = venue,
                                !.starts_at = d.starts_at, !.ends_at = d.ends_at]
<1>2. d.starts_at \in Nat /\ d.ends_at \in Nat
  BY CatalogAssumption DEF ScheduleOf, TypeOK, EventRow
<1>3. /\ row \in EventRow /\ row.version = event.version /\ row.status = event.status
      /\ row.image = event.image /\ row.capacity = capacity
      /\ row.postponed_from_starts_at = event.postponed_from_starts_at
  BY <1>2 DEF TypeOK, EventRow
<1>4. Write(row) /\ event \in EventRow
  BY <1>1 DEF TypeOK
<1> HIDE DEF row
<1>5. /\ event' \in EventRow /\ event'.version = event.version + 1 /\ served' = {event'}
      /\ event'.status = row.status /\ event'.image = row.image
      /\ event'.capacity = row.capacity
      /\ event'.postponed_from_starts_at = row.postponed_from_starts_at
  BY <1>3, <1>4, WriteEffect
<1> QED
  BY <1>1, <1>3, <1>5 DEF UpdateEvent, IsDraft

\* A write that only gives the row a new status.
LEMMA StatusSteps ==
  ASSUME TypeOK, NEW s \in EventStatuses, Write([event EXCEPT !.status = s])
  PROVE  /\ event' \in EventRow /\ event'.version = event.version + 1 /\ served' = {event'}
         /\ event'.status = s /\ event'.image = event.image
         /\ SameTerms /\ SameDates
<1> DEFINE row == [event EXCEPT !.status = s]
<1>1. /\ row \in EventRow /\ row.version = event.version /\ row.status = s
      /\ row.image = event.image /\ row.venue = event.venue /\ row.capacity = event.capacity
      /\ row.starts_at = event.starts_at /\ row.ends_at = event.ends_at
      /\ row.postponed_from_starts_at = event.postponed_from_starts_at
      /\ row.postponed_from_ends_at = event.postponed_from_ends_at
      /\ row.postponed_to_starts_at = event.postponed_to_starts_at
      /\ row.postponed_to_ends_at = event.postponed_to_ends_at
  BY DEF TypeOK, EventRow
<1>2. Write(row) /\ event \in EventRow
  BY DEF TypeOK
<1> HIDE DEF row
<1> QED
  BY <1>1, <1>2, WriteEffect DEF SameTerms, SameDates

\* A write that only changes the image.
LEMMA ImageSteps ==
  ASSUME TypeOK, NEW k \in Puts \cup {NoImage}, Write([event EXCEPT !.image = k])
  PROVE  /\ event' \in EventRow /\ event'.version = event.version + 1 /\ served' = {event'}
         /\ event'.status = event.status /\ event'.image = k
         /\ SameTerms /\ SameDates
<1> DEFINE row == [event EXCEPT !.image = k]
<1>1. /\ row \in EventRow /\ row.version = event.version /\ row.status = event.status
      /\ row.image = k /\ row.venue = event.venue /\ row.capacity = event.capacity
      /\ row.starts_at = event.starts_at /\ row.ends_at = event.ends_at
      /\ row.postponed_from_starts_at = event.postponed_from_starts_at
      /\ row.postponed_from_ends_at = event.postponed_from_ends_at
      /\ row.postponed_to_starts_at = event.postponed_to_starts_at
      /\ row.postponed_to_ends_at = event.postponed_to_ends_at
  BY DEF TypeOK, EventRow
<1>2. Write(row) /\ event \in EventRow
  BY DEF TypeOK
<1> HIDE DEF row
<1> QED
  BY <1>1, <1>2, WriteEffect DEF SameTerms, SameDates

\* A postponement keeps the image and the terms; what it replaces becomes the old date.
LEMMA PostponeSteps ==
  ASSUME TypeOK, PostponeEvent
  PROVE  /\ event' \in EventRow /\ event'.version = event.version + 1 /\ served' = {event'}
         /\ event.status \in {"PUBLISHED", "POSTPONED"} /\ event'.status = "POSTPONED"
         /\ event'.image = event.image /\ SameTerms
         /\ IF ReplacesSchedule
            THEN /\ event'.postponed_from_starts_at = event.starts_at
                 /\ event'.postponed_from_ends_at = event.ends_at
            ELSE /\ event'.postponed_from_starts_at = event.postponed_from_starts_at
                 /\ event'.postponed_from_ends_at = event.postponed_from_ends_at
         /\ \/ /\ event'.postponed_to_starts_at = NoDate
               /\ event'.starts_at = event.starts_at /\ event'.ends_at = event.ends_at
            \/ /\ event'.postponed_to_starts_at # NoDate
               /\ event'.starts_at = event'.postponed_to_starts_at
               /\ event'.ends_at = event'.postponed_to_ends_at
         /\ told' = [status |-> "POSTPONED", schedule |-> ScheduleOf(event')]
         /\ UNCHANGED <<now, cat, images>>
<1>1. PICK d \in AnnounceableSchedules(now) :
       Write([Postponed(event, d) EXCEPT
                !.postponed_from_starts_at =
                   IF ReplacesSchedule THEN event.starts_at ELSE @,
                !.postponed_from_ends_at   =
                   IF ReplacesSchedule THEN event.ends_at ELSE @])
  BY DEF PostponeEvent
<1> DEFINE middle == Postponed(event, d)
           row == [middle EXCEPT
                !.postponed_from_starts_at =
                   IF ReplacesSchedule THEN event.starts_at ELSE middle.postponed_from_starts_at,
                !.postponed_from_ends_at   =
                   IF ReplacesSchedule THEN event.ends_at ELSE middle.postponed_from_ends_at]
<1>2. \/ d = NoSchedule /\ d.starts_at = NoDate /\ d.ends_at = NoDate
      \/ d # NoSchedule /\ d.starts_at \in Nat /\ d.ends_at \in Nat
  BY CatalogAssumption DEF AnnounceableSchedules, NoSchedule
<1>3. /\ middle \in EventRow /\ middle.version = event.version /\ middle.status = "POSTPONED"
      /\ middle.image = event.image /\ middle.venue = event.venue
      /\ middle.capacity = event.capacity
      /\ middle.postponed_from_starts_at = event.postponed_from_starts_at
      /\ middle.postponed_from_ends_at = event.postponed_from_ends_at
      /\ middle.postponed_to_starts_at = d.starts_at
      /\ middle.postponed_to_ends_at = d.ends_at
      /\ middle.starts_at = IF d = NoSchedule THEN event.starts_at ELSE d.starts_at
      /\ middle.ends_at = IF d = NoSchedule THEN event.ends_at ELSE d.ends_at
  <2>0. event \in EventRow
    BY DEF TypeOK
  <2>1. middle = [event EXCEPT !.status = "POSTPONED",
                               !.postponed_to_starts_at = d.starts_at,
                               !.postponed_to_ends_at   = d.ends_at,
                               !.starts_at = IF d = NoSchedule THEN event.starts_at ELSE d.starts_at,
                               !.ends_at   = IF d = NoSchedule THEN event.ends_at ELSE d.ends_at]
    BY <2>0 DEF Postponed
  <2>2. /\ d.starts_at \in Dates /\ d.ends_at \in Dates
        /\ (IF d = NoSchedule THEN event.starts_at ELSE d.starts_at) \in Nat
        /\ (IF d = NoSchedule THEN event.ends_at ELSE d.ends_at) \in Nat
    BY <1>2, <2>0 DEF EventRow, Dates
  <2> HIDE DEF middle
  <2>3. middle \in EventRow
    BY <2>0, <2>1, <2>2 DEF EventRow, EventStatuses
  <2> QED
    BY <2>0, <2>1, <2>3 DEF EventRow
<1>4. Write(row) /\ event \in EventRow
  BY <1>1 DEF TypeOK
<1> HIDE DEF middle
<1>5. event.starts_at \in Dates /\ event.ends_at \in Dates
  BY <1>4 DEF EventRow, Dates
<1>6. /\ row \in EventRow /\ row.version = middle.version /\ row.status = middle.status
      /\ row.image = middle.image /\ row.venue = middle.venue /\ row.capacity = middle.capacity
      /\ row.starts_at = middle.starts_at /\ row.ends_at = middle.ends_at
      /\ row.postponed_to_starts_at = middle.postponed_to_starts_at
      /\ row.postponed_to_ends_at = middle.postponed_to_ends_at
      /\ row.postponed_from_starts_at =
           IF ReplacesSchedule THEN event.starts_at ELSE middle.postponed_from_starts_at
      /\ row.postponed_from_ends_at =
           IF ReplacesSchedule THEN event.ends_at ELSE middle.postponed_from_ends_at
  BY <1>3, <1>5 DEF EventRow
<1> HIDE DEF row
<1>7. row.version = event.version
  BY <1>3, <1>6
<1>8. /\ event' \in EventRow /\ event'.version = event.version + 1 /\ served' = {event'}
      /\ event'.status = row.status /\ event'.image = row.image
      /\ event'.venue = row.venue /\ event'.capacity = row.capacity
      /\ event'.starts_at = row.starts_at /\ event'.ends_at = row.ends_at
      /\ event'.postponed_from_starts_at = row.postponed_from_starts_at
      /\ event'.postponed_from_ends_at = row.postponed_from_ends_at
      /\ event'.postponed_to_starts_at = row.postponed_to_starts_at
      /\ event'.postponed_to_ends_at = row.postponed_to_ends_at
  BY <1>4, <1>6, <1>7, WriteEffect
<1>9. /\ event.status \in {"PUBLISHED", "POSTPONED"} /\ Tell
      /\ UNCHANGED <<now, cat, images>>
  BY DEF PostponeEvent, CanPostpone
<1>10. told' = [status |-> "POSTPONED", schedule |-> ScheduleOf(event')]
  BY <1>3, <1>6, <1>8, <1>9 DEF Tell
<1>11. \/ /\ event'.postponed_to_starts_at = NoDate
          /\ event'.starts_at = event.starts_at /\ event'.ends_at = event.ends_at
       \/ /\ event'.postponed_to_starts_at # NoDate
          /\ event'.starts_at = event'.postponed_to_starts_at
          /\ event'.ends_at = event'.postponed_to_ends_at
  BY <1>2, <1>3, <1>6, <1>8, CatalogAssumption
<1> QED
  BY <1>3, <1>6, <1>8, <1>9, <1>10, <1>11 DEF SameTerms

\* The lifecycle keeps the image, the terms and the categories; a draft only leaves by a
\* publication.
LEMMA LifecycleSteps ==
  ASSUME TypeOK, Lifecycle
  PROVE  /\ event' \in EventRow /\ event'.image = event.image /\ SameTerms
         /\ UNCHANGED <<now, cat, images>>
         /\ \/ event'.version = event.version + 1 /\ served' = {event'}
            \/ event'.version = event.version /\ event'.status = "COMPLETED"
         /\ event.status # "COMPLETED"
         /\ event.status = "DRAFT" => Publishable
         /\ event.status # "DELETED" /\ event'.status \notin {"DRAFT", "DELETED"}
         /\ told' \in [status : EventStatuses \cup {"DELETED"},
                       schedule : [starts_at : Dates, ends_at : Dates]]
<1> DEFINE Told == [status : EventStatuses \cup {"DELETED"},
                    schedule : [starts_at : Dates, ends_at : Dates]]
           Effect == /\ event' \in EventRow /\ event'.image = event.image /\ SameTerms
                     /\ UNCHANGED <<now, cat, images>>
                     /\ \/ event'.version = event.version + 1 /\ served' = {event'}
                        \/ event'.version = event.version /\ event'.status = "COMPLETED"
                     /\ event.status # "COMPLETED"
                     /\ event.status = "DRAFT" => Publishable
                     /\ event.status # "DELETED" /\ event'.status \notin {"DRAFT", "DELETED"}
                     /\ told' \in Told
<1>1. ASSUME event' \in EventRow, Tell PROVE told' \in Told
  <2>1. told.schedule \in [starts_at : Dates, ends_at : Dates]
    BY DEF TypeOK
  <2>2. ScheduleOf(event') \in [starts_at : Dates, ends_at : Dates]
    BY <1>1 DEF ScheduleOf, EventRow, Dates
  <2>3. event'.status \in EventStatuses \cup {"DELETED"}
    BY <1>1 DEF EventRow
  <2> QED
    BY <1>1, <2>1, <2>2, <2>3 DEF Tell
<1>2. told \in Told
  BY DEF TypeOK
<1> HIDE DEF Told
<1>3. ASSUME PublishEvent PROVE Effect
  <2>1. Write([event EXCEPT !.status = "PUBLISHED"]) /\ "PUBLISHED" \in EventStatuses
    BY <1>3 DEF PublishEvent, EventStatuses
  <2>2. /\ event' \in EventRow /\ event'.version = event.version + 1 /\ served' = {event'}
        /\ event'.status = "PUBLISHED" /\ event'.image = event.image /\ SameTerms
    BY <2>1, StatusSteps
  <2> QED
    BY <1>1, <1>3, <2>2 DEF PublishEvent, IsDraft
<1>4. ASSUME SuspendEvent PROVE Effect
  <2>1. Write([event EXCEPT !.status = "SUSPENDED"]) /\ "SUSPENDED" \in EventStatuses
    BY <1>4 DEF SuspendEvent, EventStatuses
  <2>2. /\ event' \in EventRow /\ event'.version = event.version + 1 /\ served' = {event'}
        /\ event'.status = "SUSPENDED" /\ event'.image = event.image /\ SameTerms
    BY <2>1, StatusSteps
  <2> QED
    BY <1>1, <1>4, <2>2 DEF SuspendEvent
<1>5. ASSUME CancelEvent PROVE Effect
  <2>1. Write([event EXCEPT !.status = "CANCELLED"]) /\ "CANCELLED" \in EventStatuses
    BY <1>5 DEF CancelEvent, EventStatuses
  <2>2. /\ event' \in EventRow /\ event'.version = event.version + 1 /\ served' = {event'}
        /\ event'.status = "CANCELLED" /\ event'.image = event.image /\ SameTerms
    BY <2>1, StatusSteps
  <2> QED
    BY <1>1, <1>5, <2>2 DEF CancelEvent
<1>6. ASSUME ArchiveEvent PROVE Effect
  <2>1. Write([event EXCEPT !.status = "ARCHIVED"]) /\ "ARCHIVED" \in EventStatuses
    BY <1>6 DEF ArchiveEvent, EventStatuses
  <2>2. /\ event' \in EventRow /\ event'.version = event.version + 1 /\ served' = {event'}
        /\ event'.status = "ARCHIVED" /\ event'.image = event.image /\ SameTerms
    BY <2>1, StatusSteps
  <2> QED
    BY <1>2, <1>6, <2>2 DEF ArchiveEvent, Archivable
<1>7. ASSUME UnarchiveEvent PROVE Effect
  <2>1. Write([event EXCEPT !.status = "PUBLISHED"]) /\ "PUBLISHED" \in EventStatuses
    BY <1>7 DEF UnarchiveEvent, EventStatuses
  <2>2. /\ event' \in EventRow /\ event'.version = event.version + 1 /\ served' = {event'}
        /\ event'.status = "PUBLISHED" /\ event'.image = event.image /\ SameTerms
    BY <2>1, StatusSteps
  <2> QED
    BY <1>2, <1>7, <2>2 DEF UnarchiveEvent
<1>8. ASSUME CompleteEvent PROVE Effect
  <2>1. /\ event' = [event EXCEPT !.status = "COMPLETED"] /\ event \in EventRow
        /\ event.status \in {"PUBLISHED", "POSTPONED"}
        /\ Tell /\ UNCHANGED <<now, cat, images>>
    BY <1>8 DEF CompleteEvent, CanBeCompleted, TypeOK
  <2>2. /\ event' \in EventRow /\ event'.version = event.version
        /\ event'.status = "COMPLETED" /\ event'.image = event.image /\ SameTerms
    BY <2>1 DEF EventRow, EventStatuses, SameTerms
  <2> QED
    BY <1>1, <2>1, <2>2
<1>9. ASSUME PostponeEvent PROVE Effect
  <2>1. Tell
    BY <1>9 DEF PostponeEvent
  <2> QED
    BY <1>1, <1>9, <2>1, PostponeSteps
<1> HIDE DEF Effect
<1>10. Effect
  BY <1>3, <1>4, <1>5, <1>6, <1>7, <1>8, <1>9 DEF Lifecycle
<1> QED
  BY <1>10 DEF Effect, Told

-----------------------------------------------------------------------------
(* The dates. *)

DatesOK == OldDateIsKept /\ ArchivedOK

LEMMA DatesKept ==
  ASSUME DatesOK, UNCHANGED told, event'.status = event.status, SameDates
  PROVE  DatesOK'
BY DEF DatesOK, OldDateIsKept, ArchivedOK, SameDates, ToldSchedule, ScheduleOf

LEMMA LifecycleDates ==
  ASSUME TypeOK, DatesOK, Lifecycle
  PROVE  DatesOK'
<1>1. CASE PostponeEvent
  <2> DEFINE replaced == IF ReplacesSchedule
                         THEN /\ event'.postponed_from_starts_at = event.starts_at
                              /\ event'.postponed_from_ends_at = event.ends_at
                         ELSE /\ event'.postponed_from_starts_at = event.postponed_from_starts_at
                              /\ event'.postponed_from_ends_at = event.postponed_from_ends_at
  <2>1. /\ event'.status = "POSTPONED" /\ replaced
        /\ \/ /\ event'.postponed_to_starts_at = NoDate
              /\ event'.starts_at = event.starts_at /\ event'.ends_at = event.ends_at
           \/ /\ event'.postponed_to_starts_at # NoDate
              /\ event'.starts_at = event'.postponed_to_starts_at
              /\ event'.ends_at = event'.postponed_to_ends_at
        /\ told' = [status |-> "POSTPONED", schedule |-> ScheduleOf(event')]
    BY <1>1, PostponeSteps
  <2>2. ~ReplacesSchedule => /\ event.starts_at = event.postponed_from_starts_at
                             /\ event.ends_at = event.postponed_from_ends_at
    BY DEF ReplacesSchedule, DatesOK, OldDateIsKept
  <2>3. event'.postponed_from_starts_at # NoDate
    BY <2>1, CatalogAssumption DEF ReplacesSchedule, TypeOK, EventRow
  <2> QED
    BY <2>1, <2>2, <2>3 DEF DatesOK, OldDateIsKept, ArchivedOK, ToldSchedule
<1>2. ASSUME NEW s \in EventStatuses \ {"POSTPONED"}, Tell, event' \in EventRow,
             event'.status = s, event.status \in {"DRAFT", "PUBLISHED", "POSTPONED", "SUSPENDED"},
             s \in {"SUSPENDED", "CANCELLED"} => event.status # "DRAFT",
             s = "PUBLISHED" => event.status = "DRAFT",
             s \notin {"DRAFT", "ARCHIVED"}, SameDates
      PROVE  DatesOK'
  BY <1>2 DEF DatesOK, OldDateIsKept, ArchivedOK, Tell, ToldSchedule, ScheduleOf, SameDates
<1>3. CASE PublishEvent
  <2>1. /\ Write([event EXCEPT !.status = "PUBLISHED"]) /\ "PUBLISHED" \in EventStatuses \ {"POSTPONED"}
        /\ Tell /\ event.status = "DRAFT"
    BY <1>3 DEF PublishEvent, EventStatuses, IsDraft
  <2>2. event' \in EventRow /\ event'.status = "PUBLISHED" /\ SameDates
    BY <2>1, StatusSteps
  <2> QED
    BY <1>2, <2>1, <2>2
<1>4. CASE SuspendEvent
  <2>1. /\ Write([event EXCEPT !.status = "SUSPENDED"]) /\ "SUSPENDED" \in EventStatuses \ {"POSTPONED"}
        /\ Tell /\ event.status \in {"PUBLISHED", "POSTPONED"}
    BY <1>4 DEF SuspendEvent, EventStatuses
  <2>2. event' \in EventRow /\ event'.status = "SUSPENDED" /\ SameDates
    BY <2>1, StatusSteps
  <2> QED
    BY <1>2, <2>1, <2>2
<1>5. CASE CancelEvent
  <2>1. /\ Write([event EXCEPT !.status = "CANCELLED"]) /\ "CANCELLED" \in EventStatuses \ {"POSTPONED"}
        /\ Tell /\ event.status \in {"PUBLISHED", "POSTPONED", "SUSPENDED"}
    BY <1>5 DEF CancelEvent, EventStatuses
  <2>2. event' \in EventRow /\ event'.status = "CANCELLED" /\ SameDates
    BY <2>1, StatusSteps
  <2> QED
    BY <1>2, <2>1, <2>2
<1>6. CASE ArchiveEvent
  <2>1. /\ Write([event EXCEPT !.status = "ARCHIVED"]) /\ "ARCHIVED" \in EventStatuses
        /\ told' = told /\ event.status = "PUBLISHED"
    BY <1>6 DEF ArchiveEvent, Archivable, EventStatuses
  <2>2. event'.status = "ARCHIVED" /\ SameDates
    BY <2>1, StatusSteps
  <2> QED
    BY <2>1, <2>2 DEF DatesOK, OldDateIsKept, ArchivedOK, ToldSchedule, ScheduleOf, SameDates
<1>7. CASE UnarchiveEvent
  <2>1. /\ Write([event EXCEPT !.status = "PUBLISHED"]) /\ "PUBLISHED" \in EventStatuses
        /\ told' = told /\ event.status = "ARCHIVED"
    BY <1>7 DEF UnarchiveEvent, EventStatuses
  <2>2. event'.status = "PUBLISHED" /\ SameDates
    BY <2>1, StatusSteps
  <2> QED
    BY <2>1, <2>2 DEF DatesOK, OldDateIsKept, ArchivedOK, ToldSchedule, ScheduleOf, SameDates
<1>8. CASE CompleteEvent
  <2>1. /\ event' = [event EXCEPT !.status = "COMPLETED"] /\ event \in EventRow
        /\ event.status \in {"PUBLISHED", "POSTPONED"} /\ Tell
    BY <1>8 DEF CompleteEvent, CanBeCompleted, TypeOK
  <2>2. event' \in EventRow /\ event'.status = "COMPLETED" /\ SameDates
        /\ "COMPLETED" \in EventStatuses \ {"POSTPONED"}
    BY <2>1 DEF EventRow, EventStatuses, SameDates
  <2> QED
    BY <1>2, <2>1, <2>2
<1> QED
  BY <1>1, <1>3, <1>4, <1>5, <1>6, <1>7, <1>8 DEF Lifecycle

-----------------------------------------------------------------------------
(* The quotas and the capacity. *)

TermsOK == OnSaleIsComplete /\ QuotasOK

QuotaOf == [c \in Categories |-> cat[c].quota]

LEMMA TotalFacts ==
  ASSUME TypeOK
  PROVE  /\ QuotaTotal = SumFunctionOnSet(QuotaOf, Existing) /\ QuotaTotal \in Nat
         /\ IsFiniteSet(Existing) /\ Existing \subseteq Categories
         /\ \A c \in Categories : QuotaOf[c] = cat[c].quota /\ QuotaOf[c] \in Nat
<1>1. Existing \subseteq Categories
  BY DEF Existing
<1>2. IsFiniteSet(Existing)
  BY <1>1, CatalogAssumption, FS_Subset
<1>3. \A c \in Categories : QuotaOf[c] = cat[c].quota /\ QuotaOf[c] \in Nat
  BY DEF QuotaOf, TypeOK, CategoryRows
<1>4. QuotaTotal = SumFunctionOnSet(QuotaOf, Existing)
  BY DEF QuotaTotal, QuotaOf
<1>5. SumFunctionOnSet(QuotaOf, Existing) \in Nat
  BY <1>1, <1>2, <1>3, SumType
<1> QED
  BY <1>1, <1>2, <1>3, <1>4, <1>5

\* A category with a quota makes the total positive, and is part of it.
LEMMA TotalSplits ==
  ASSUME TypeOK, NEW c \in Existing
  PROVE  /\ QuotaTotal = cat[c].quota + SumFunctionOnSet(QuotaOf, Existing \ {c})
         /\ SumFunctionOnSet(QuotaOf, Existing \ {c}) \in Nat
<1>1. IsFiniteSet(Existing \ {c})
  BY TotalFacts, FS_Subset
<1>2. SumFunctionOnSet(QuotaOf, Existing \ {c}) \in Nat
  BY <1>1, TotalFacts, SumType
<1>3. SumFunctionOnSet(QuotaOf, Existing) = QuotaOf[c] + SumFunctionOnSet(QuotaOf, Existing \ {c})
  BY TotalFacts, SumRemove
<1> QED
  BY <1>2, <1>3, TotalFacts

\* One category changes: the total of the others is what it was.
LEMMA OthersKept ==
  ASSUME TypeOK, TypeOK', NEW c \in Categories,
         \A x \in Categories \ {c} : cat'[x] = cat[x]
  PROVE  LET others == SumFunctionOnSet(QuotaOf, Existing \ {c}) IN
         /\ others \in Nat
         /\ QuotaTotal = others + IF c \in Existing THEN cat[c].quota ELSE 0
         /\ QuotaTotal' = others + IF c \in Existing' THEN cat'[c].quota ELSE 0
<1> DEFINE others == SumFunctionOnSet(QuotaOf, Existing \ {c})
<1>1. /\ Existing' \ {c} = Existing \ {c}
      /\ Existing \subseteq Categories /\ Existing' \subseteq Categories
  BY DEF Existing
<1>2. IsFiniteSet(Existing) /\ IsFiniteSet(Existing') /\ IsFiniteSet(Existing \ {c})
  BY <1>1, CatalogAssumption, FS_Subset
<1>3. /\ \A x \in Categories : QuotaOf[x] = cat[x].quota /\ QuotaOf[x] \in Nat
      /\ \A x \in Categories : QuotaOf'[x] = cat'[x].quota /\ QuotaOf'[x] \in Nat
  BY DEF QuotaOf, TypeOK, CategoryRows
<1>4. others \in Nat
  BY <1>1, <1>2, <1>3, SumType
<1>5. SumFunctionOnSet(QuotaOf', Existing \ {c}) = others
  <2>1. \A x \in Existing \ {c} : QuotaOf'[x] = QuotaOf[x]
    BY <1>1 DEF QuotaOf
  <2> QED
    BY <1>2, <2>1, SumSame
<1>6. QuotaTotal = others + IF c \in Existing THEN cat[c].quota ELSE 0
  <2>1. CASE c \in Existing
    BY <1>3, <1>4, <2>1, TotalSplits
  <2>2. CASE c \notin Existing
    <3>1. Existing \ {c} = Existing
      BY <2>2
    <3>2. QuotaTotal = others
      BY <3>1, TotalFacts
    <3> HIDE DEF others
    <3> QED
      BY <1>4, <2>2, <3>2
  <2> QED
    BY <2>1, <2>2
<1>7. QuotaTotal' = SumFunctionOnSet(QuotaOf', Existing')
  BY DEF QuotaTotal, QuotaOf
<1>8. QuotaTotal' = others + IF c \in Existing' THEN cat'[c].quota ELSE 0
  <2>1. CASE c \in Existing'
    <3>1. SumFunctionOnSet(QuotaOf', Existing')
            = QuotaOf'[c] + SumFunctionOnSet(QuotaOf', Existing' \ {c})
      BY <1>1, <1>2, <1>3, <2>1, SumRemove
    <3>2. SumFunctionOnSet(QuotaOf', Existing' \ {c}) = others
      BY <1>1, <1>5
    <3>3. QuotaOf'[c] = cat'[c].quota /\ QuotaOf'[c] \in Nat
      BY <1>3
    <3> HIDE DEF others
    <3> QED
      BY <1>4, <1>7, <2>1, <3>1, <3>2, <3>3
  <2>2. CASE c \notin Existing'
    <3>1. Existing' = Existing \ {c}
      BY <1>1, <2>2
    <3> QED
      BY <1>4, <1>5, <1>7, <2>2, <3>1
  <2> QED
    BY <2>1, <2>2
<1> QED
  BY <1>4, <1>6, <1>8

LEMMA TermsKept ==
  ASSUME TermsOK, UNCHANGED cat, SameTerms,
         event.status \in {"DRAFT", "DELETED"} => event'.status \in {"DRAFT", "DELETED"}
  PROVE  TermsOK'
<1>1. Existing' = Existing /\ QuotaTotal' = QuotaTotal
  BY DEF Existing, QuotaTotal
<1> QED
  BY <1>1 DEF TermsOK, OnSaleIsComplete, QuotasOK, SameTerms

LEMMA LifecycleTerms ==
  ASSUME TypeOK, TermsOK, Lifecycle
  PROVE  TermsOK'
<1>1. /\ SameTerms /\ cat' = cat
      /\ event.status = "DRAFT" => Publishable
      /\ event.status # "DELETED"
  BY LifecycleSteps
<1>2. CASE event.status = "DRAFT"
  <2>1. Existing' = Existing /\ QuotaTotal' = QuotaTotal
    BY <1>1 DEF Existing, QuotaTotal
  <2> QED
    BY <1>1, <1>2, <2>1 DEF TermsOK, OnSaleIsComplete, QuotasOK, SameTerms, Publishable
<1>3. CASE event.status # "DRAFT"
  BY <1>1, <1>3, TermsKept
<1> QED
  BY <1>2, <1>3

LEMMA UpdateEventTerms ==
  ASSUME TypeOK, TermsOK, UpdateEvent
  PROVE  TermsOK'
<1>1. /\ event'.status = "DRAFT" /\ cat' = cat
      /\ event'.capacity # event.capacity => CapacityCovers(event'.capacity)
  BY UpdateEventSteps
<1>2. Existing' = Existing /\ QuotaTotal' = QuotaTotal
  BY <1>1 DEF Existing, QuotaTotal
<1>3. ASSUME Existing # {}
      PROVE  event'.capacity # NoCapacity /\ QuotaTotal <= event'.capacity
  <2>1. PICK c \in Existing : TRUE
    BY <1>3
  <2>2. /\ QuotaTotal = cat[c].quota + SumFunctionOnSet(QuotaOf, Existing \ {c})
        /\ SumFunctionOnSet(QuotaOf, Existing \ {c}) \in Nat
    BY TotalSplits
  <2>3. cat[c].quota > 0 /\ cat[c].quota \in Nat
    BY TotalFacts DEF TermsOK, QuotasOK
  <2>4. QuotaTotal > 0
    BY <2>2, <2>3
  <2> QED
    BY <1>1, <1>3, <2>4 DEF CapacityCovers, TermsOK, OnSaleIsComplete
<1> QED
  BY <1>1, <1>2, <1>3 DEF TermsOK, OnSaleIsComplete, QuotasOK

LEMMA CreateTerms ==
  ASSUME TypeOK, TermsOK, TypeOK', NEW c \in Categories, CreateTicketCategory(c)
  PROVE  TermsOK'
<1>1. PICK quota \in Quotas :
        /\ QuotaFits(QuotaTotal, quota)
        /\ cat' = [cat EXCEPT ![c] = [version |-> 1, quota |-> quota, sold |-> 0]]
  BY DEF CreateTicketCategory
<1>2. /\ event' = event /\ event.status = "DRAFT" /\ c \notin Existing
      /\ quota \in Nat /\ quota > 0
  BY CatalogAssumption DEF CreateTicketCategory, IsDraft
<1>3. /\ cat'[c].quota = quota /\ cat'[c].sold = 0 /\ cat'[c] # NoCategory
      /\ \A x \in Categories \ {c} : cat'[x] = cat[x]
  BY <1>1, <1>2 DEF TypeOK, NoCategory
<1>4. Existing' = Existing \cup {c}
  BY <1>3 DEF Existing
<1>5. QuotaTotal' = QuotaTotal + quota
  BY <1>2, <1>3, <1>4, OthersKept
<1> QED
  BY <1>1, <1>2, <1>3, <1>4, <1>5 DEF TermsOK, OnSaleIsComplete, QuotasOK, QuotaFits, Existing

LEMMA UpdateTerms ==
  ASSUME TypeOK, TermsOK, TypeOK', NEW c \in Categories, UpdateTicketCategory(c)
  PROVE  TermsOK'
<1>1. PICK quota \in Quotas :
        /\ quota >= cat[c].sold
        /\ QuotaFits(QuotaTotal - cat[c].quota, quota)
        /\ cat' = [cat EXCEPT ![c].quota = quota, ![c].version = cat[c].version + 1]
  BY DEF UpdateTicketCategory, TypeOK
<1>2. /\ event' = event /\ event.status = "DRAFT" /\ c \in Existing
      /\ quota \in Nat /\ quota > 0
  BY CatalogAssumption DEF UpdateTicketCategory, IsDraft
<1>3. /\ cat'[c].quota = quota /\ cat'[c].sold = cat[c].sold
      /\ \A x \in Categories \ {c} : cat'[x] = cat[x]
      /\ cat[c].quota \in Nat /\ cat[c].sold \in Nat
  BY <1>1 DEF TypeOK, CategoryRows
<1>4. Existing' = Existing
  BY <1>2, <1>3 DEF Existing, NoCategory
<1>5. PICK others \in Nat : QuotaTotal = others + cat[c].quota /\ QuotaTotal' = others + quota
  BY <1>2, <1>3, <1>4, OthersKept
<1>6. event.capacity # NoCapacity /\ others + quota <= event.capacity
  <2>1. QuotaTotal - cat[c].quota = others
    BY <1>3, <1>5
  <2> QED
    BY <1>1, <2>1 DEF QuotaFits
<1>7. \A x \in Categories : x \in Existing' => cat'[x].sold <= cat'[x].quota /\ cat'[x].quota > 0
  BY <1>1, <1>2, <1>3, <1>4 DEF TermsOK, OnSaleIsComplete, QuotasOK
<1>8. \A x \in Categories : x \notin Existing' => cat'[x] = NoCategory
  BY <1>2, <1>3, <1>4 DEF TermsOK, QuotasOK
<1> QED
  BY <1>2, <1>4, <1>5, <1>6, <1>7, <1>8, TotalFacts DEF TermsOK, OnSaleIsComplete, QuotasOK

LEMMA DeleteCategoryTerms ==
  ASSUME TypeOK, TermsOK, TypeOK', NEW c \in Categories, DeleteTicketCategory(c)
  PROVE  TermsOK'
<1>1. /\ cat' = [cat EXCEPT ![c] = NoCategory]
      /\ event' = event /\ event.status = "DRAFT" /\ c \in Existing
  BY DEF DeleteTicketCategory, IsDraft
<1>2. cat'[c] = NoCategory /\ \A x \in Categories \ {c} : cat'[x] = cat[x]
  BY <1>1 DEF TypeOK
<1>3. Existing' = Existing \ {c}
  BY <1>2 DEF Existing
<1>4. cat[c].quota \in Nat
  BY DEF TypeOK, CategoryRows
<1>5. PICK others \in Nat : QuotaTotal = others + cat[c].quota /\ QuotaTotal' = others + 0
  BY <1>1, <1>2, <1>3, OthersKept
<1>6. Existing' # {} => event.capacity # NoCapacity /\ QuotaTotal' <= event.capacity
  <2>1. event.capacity # NoCapacity => event.capacity \in Nat
    BY CatalogAssumption DEF TypeOK, EventRow
  <2> QED
    BY <1>1, <1>4, <1>5, <2>1 DEF TermsOK, OnSaleIsComplete
<1> QED
  BY <1>1, <1>2, <1>3, <1>6 DEF TermsOK, OnSaleIsComplete, QuotasOK, Existing

LEMMA SellTerms ==
  ASSUME TypeOK, TermsOK, TypeOK', NEW c \in Categories, Sell(c)
  PROVE  TermsOK'
<1>1. /\ cat' = [cat EXCEPT ![c].sold = cat[c].sold + 1] /\ event' = event
      /\ cat[c].sold < cat[c].quota
  BY DEF Sell, TypeOK
<1>2. /\ cat'[c].quota = cat[c].quota /\ cat'[c].sold = cat[c].sold + 1
      /\ \A x \in Categories \ {c} : cat'[x] = cat[x]
      /\ cat[c].quota \in Nat /\ cat[c].sold \in Nat
  BY <1>1 DEF TypeOK, CategoryRows
<1>3. c \in Existing /\ Existing' = Existing
  BY <1>1, <1>2 DEF Existing, NoCategory
<1>4. QuotaTotal' = QuotaTotal
  <2>1. PICK others \in Nat : QuotaTotal = others + cat[c].quota
                              /\ QuotaTotal' = others + cat'[c].quota
    BY <1>2, <1>3, OthersKept
  <2> QED
    BY <1>2, <2>1
<1>5. \A x \in Categories : x \in Existing' => cat'[x].sold <= cat'[x].quota /\ cat'[x].quota > 0
  BY <1>1, <1>2, <1>3 DEF TermsOK, OnSaleIsComplete, QuotasOK
<1> QED
  BY <1>1, <1>2, <1>3, <1>4, <1>5 DEF TermsOK, OnSaleIsComplete, QuotasOK, Existing

LEMMA DeleteEventSteps ==
  ASSUME TypeOK, DeleteEvent
  PROVE  /\ event' \in EventRow /\ event'.status = "DELETED" /\ event'.image = NoImage
         /\ event'.version = event.version /\ event.status = "DRAFT" /\ served' = {event'}
         /\ cat' = [c \in Categories |-> NoCategory]
         /\ doomed' = doomed \cup Keys(event.image)
         /\ UNCHANGED <<now, told, put, stored, losses>>
BY DEF DeleteEvent, IsDraft, TypeOK, EventRow

LEMMA DeleteEventTerms ==
  ASSUME TypeOK, DeleteEvent
  PROVE  TermsOK'
<1>1. event'.status = "DELETED" /\ cat' = [c \in Categories |-> NoCategory]
  BY DeleteEventSteps
<1>2. Existing' = {} /\ \A c \in Categories : cat'[c] = NoCategory
  BY <1>1 DEF Existing
<1> QED
  BY <1>1, <1>2 DEF TermsOK, OnSaleIsComplete, QuotasOK

-----------------------------------------------------------------------------
(* The image. *)

ImagesOK == ImageIsStored /\ UploadsOK

Unnamed == stored \ (Keys(event.image) \cup doomed \cup {p \in Puts : put[p].pc = "uploaded"})

\* What nothing names only grows with a counted loss.
LEMMA UnnamedCounted ==
  ASSUME TypeOK, Cardinality(Unnamed) <= losses,
         \/ Unnamed' \subseteq Unnamed /\ losses' = losses
         \/ (\E k : Unnamed' \subseteq Unnamed \cup {k}) /\ losses' = losses + 1
  PROVE  Cardinality(Unnamed') <= losses'
<1>1. IsFiniteSet(Unnamed) /\ Cardinality(Unnamed) \in Nat /\ losses \in Nat
  <2>1. Unnamed \subseteq Puts
    BY DEF Unnamed, TypeOK
  <2> QED
    BY <2>1, CatalogAssumption, FS_Subset, FS_CardinalityType DEF TypeOK
<1>2. CASE Unnamed' \subseteq Unnamed /\ losses' = losses
  <2>1. IsFiniteSet(Unnamed') /\ Cardinality(Unnamed') <= Cardinality(Unnamed)
    BY <1>1, <1>2, FS_Subset
  <2>2. Cardinality(Unnamed') \in Nat
    BY <2>1, FS_CardinalityType
  <2> QED
    BY <1>1, <1>2, <2>1, <2>2
<1>3. ASSUME NEW k, Unnamed' \subseteq Unnamed \cup {k}, losses' = losses + 1
      PROVE  Cardinality(Unnamed') <= losses'
  <2> DEFINE U == Unnamed \cup {k}
  <2>1. /\ IsFiniteSet(U)
        /\ Cardinality(U) = Cardinality(Unnamed) \/ Cardinality(U) = Cardinality(Unnamed) + 1
    BY <1>1, FS_AddElement
  <2>2. IsFiniteSet(Unnamed') /\ Cardinality(Unnamed') <= Cardinality(U)
    BY <1>3, <2>1, FS_Subset
  <2>3. Cardinality(Unnamed') \in Nat /\ Cardinality(U) \in Nat
    BY <2>1, <2>2, FS_CardinalityType
  <2> HIDE DEF U
  <2> QED
    BY <1>1, <1>3, <2>1, <2>2, <2>3
<1> QED
  BY <1>2, <1>3

LEMMA ImagesKept ==
  ASSUME ImagesOK, UNCHANGED images, event'.image = event.image
  PROVE  ImagesOK'
BY DEF ImagesOK, ImageIsStored, UploadsOK, images, Keys

\* From the two parts of ImagesOK' that a step can disturb.
LEMMA ImagesFollow ==
  ASSUME TypeOK, ImagesOK, UploadsOK', Keys(event'.image) \subseteq stored' \ doomed',
         \/ Unnamed' \subseteq Unnamed /\ losses' = losses
         \/ (\E k : Unnamed' \subseteq Unnamed \cup {k}) /\ losses' = losses + 1
  PROVE  ImagesOK'
<1>1. Cardinality(Unnamed) <= losses
  BY DEF ImagesOK, ImageIsStored, Unnamed
<1>2. Cardinality(Unnamed') <= losses'
  BY <1>1, UnnamedCounted
<1> QED
  BY <1>2 DEF ImagesOK, ImageIsStored, Unnamed

LEMMA UploadImages ==
  ASSUME TypeOK, ImagesOK, NEW p \in Puts, Upload(p)
  PROVE  ImagesOK'
<1>1. /\ put[p].pc = "new" /\ stored' = stored \cup {p}
      /\ put'[p].pc = "uploaded" /\ \A q \in Puts \ {p} : put'[q] = put[q]
      /\ UNCHANGED <<event, doomed, losses>>
  BY DEF Upload, TypeOK
<1>2. Keys(event'.image) \subseteq stored' \ doomed'
  BY <1>1 DEF ImagesOK, ImageIsStored, Keys
<1>3. UploadsOK'
  BY <1>1 DEF ImagesOK, UploadsOK
<1>4. Unnamed' \subseteq Unnamed
  BY <1>1 DEF Unnamed, TypeOK
<1> QED
  BY <1>1, <1>2, <1>3, <1>4, ImagesFollow

LEMMA SwapImages ==
  ASSUME TypeOK, ImagesOK, NEW p \in Puts, SwapImage(p)
  PROVE  ImagesOK'
<1> DEFINE accepted == ImageEditable /\ put[p].expected = event.version
<1>1. /\ put[p].pc = "uploaded" /\ put'[p].pc = "done"
      /\ \A q \in Puts \ {p} : put'[q] = put[q]
      /\ doomed' = doomed \cup Leftover(p, accepted)
      /\ UNCHANGED <<stored, losses>>
      /\ IF accepted THEN Write([event EXCEPT !.image = p]) ELSE UNCHANGED <<event, served>>
  BY DEF SwapImage, TypeOK
<1>2. p \in stored /\ p \notin doomed /\ event.image # p /\ p # NoImage
  BY <1>1, CatalogAssumption DEF ImagesOK, UploadsOK
<1> HIDE DEF accepted
<1>3. CASE accepted
  <2>1. event'.image = p
    BY <1>1, <1>3, ImageSteps
  <2>2. doomed' = doomed \cup Keys(event.image)
    BY <1>1, <1>3 DEF Leftover
  <2>3. Keys(event'.image) \subseteq stored' \ doomed'
    BY <1>1, <1>2, <2>1, <2>2 DEF Keys
  <2>4. UploadsOK'
    BY <1>1, <1>2, <2>1, <2>2 DEF ImagesOK, ImageIsStored, UploadsOK, Keys
  <2>5. Unnamed' \subseteq Unnamed
    BY <1>1, <1>2, <2>1, <2>2 DEF Unnamed, Keys, TypeOK
  <2> QED
    BY <1>1, <2>3, <2>4, <2>5, ImagesFollow
<1>4. CASE ~accepted
  <2>1. event' = event /\ doomed' = doomed \cup {p}
    BY <1>1, <1>4 DEF Leftover
  <2>2. Keys(event'.image) \subseteq stored' \ doomed'
    BY <1>1, <1>2, <2>1 DEF ImagesOK, ImageIsStored, Keys
  <2>3. UploadsOK'
    BY <1>1, <1>2, <2>1 DEF ImagesOK, UploadsOK
  <2>4. Unnamed' \subseteq Unnamed
    BY <1>1, <1>2, <2>1 DEF Unnamed, TypeOK
  <2> QED
    BY <1>1, <2>2, <2>3, <2>4, ImagesFollow
<1> QED
  BY <1>3, <1>4

LEMMA DropImages ==
  ASSUME TypeOK, ImagesOK, event'.image = NoImage,
         doomed' = doomed \cup Keys(event.image), UNCHANGED <<put, stored, losses>>
  PROVE  ImagesOK'
<1>1. Keys(event'.image) \subseteq stored' \ doomed'
  BY DEF Keys
<1>2. UploadsOK'
  BY CatalogAssumption DEF ImagesOK, ImageIsStored, UploadsOK, Keys
<1>3. Unnamed' \subseteq Unnamed
  BY DEF Unnamed, Keys
<1> QED
  BY <1>1, <1>2, <1>3, ImagesFollow

LEMMA StoreImages ==
  ASSUME TypeOK, ImagesOK, NEW k \in Puts,
         DeleteObject(k) \/ LoseDeletion(k) \/ LoseUpload(k)
  PROVE  ImagesOK'
<1>1. CASE DeleteObject(k)
  <2>1. /\ k \in doomed /\ doomed' = doomed \ {k} /\ stored' = stored \ {k}
        /\ UNCHANGED <<event, put, losses>>
    BY <1>1 DEF DeleteObject
  <2>2. Keys(event'.image) \subseteq stored' \ doomed'
    BY <2>1 DEF ImagesOK, ImageIsStored, Keys
  <2>3. UploadsOK'
    BY <2>1 DEF ImagesOK, UploadsOK
  <2>4. Unnamed' \subseteq Unnamed
    BY <2>1 DEF Unnamed
  <2> QED
    BY <2>1, <2>2, <2>3, <2>4, ImagesFollow
<1>2. CASE LoseDeletion(k)
  <2>1. /\ k \in doomed /\ doomed' = doomed \ {k} /\ losses' = losses + 1
        /\ UNCHANGED <<event, put, stored>>
    BY <1>2 DEF LoseDeletion
  <2>2. Keys(event'.image) \subseteq stored' \ doomed'
    BY <2>1 DEF ImagesOK, ImageIsStored, Keys
  <2>3. UploadsOK'
    BY <2>1 DEF ImagesOK, UploadsOK
  <2>4. Unnamed' \subseteq Unnamed \cup {k}
    BY <2>1 DEF Unnamed
  <2> QED
    BY <2>1, <2>2, <2>3, <2>4, ImagesFollow
<1>3. CASE LoseUpload(k)
  <2>1. /\ put[k].pc = "uploaded" /\ put'[k].pc = "done" /\ losses' = losses + 1
        /\ \A q \in Puts \ {k} : put'[q] = put[q]
        /\ UNCHANGED <<event, stored, doomed>>
    BY <1>3 DEF LoseUpload, TypeOK
  <2>2. Keys(event'.image) \subseteq stored' \ doomed'
    BY <2>1 DEF ImagesOK, ImageIsStored, Keys
  <2>3. UploadsOK'
    BY <2>1 DEF ImagesOK, UploadsOK
  <2>4. Unnamed' \subseteq Unnamed \cup {k}
    BY <2>1 DEF Unnamed
  <2> QED
    BY <2>1, <2>2, <2>3, <2>4, ImagesFollow
<1> QED
  BY <1>1, <1>2, <1>3

-----------------------------------------------------------------------------
(* The inductive invariant. *)

LEMMA InitIInv == Init => IInv
<1> SUFFICES ASSUME Init PROVE IInv
  OBVIOUS
<1>1. PICK d \in {d \in Schedules : d.starts_at > 0} :
        event = [status |-> "DRAFT", version |-> 1,
                 starts_at |-> d.starts_at, ends_at |-> d.ends_at,
                 sales_starts_at |-> NoDate, sales_ends_at |-> NoDate,
                 postponed_from_starts_at |-> NoDate, postponed_from_ends_at |-> NoDate,
                 postponed_to_starts_at |-> NoDate, postponed_to_ends_at |-> NoDate,
                 venue |-> FALSE, capacity |-> NoCapacity, image |-> NoImage]
  BY DEF Init
<1>2. d.starts_at \in Nat /\ d.ends_at \in Nat
  BY CatalogAssumption
<1>3. event \in EventRow /\ event.status = "DRAFT" /\ event.image = NoImage
  BY <1>1, <1>2 DEF EventRow, EventStatuses, Dates
<1>4. TypeOK
  BY <1>3 DEF Init, TypeOK, NoCategory, CategoryRows, NoSchedule, EventStatuses, Dates
<1>5. ServedOK /\ OldDateIsKept /\ ArchivedOK
  BY <1>3 DEF Init, ServedOK, OldDateIsKept, ArchivedOK
<1>6. Existing = {}
  BY DEF Init, Existing
<1>7. OnSaleIsComplete /\ QuotasOK
  BY <1>3, <1>6 DEF Init, OnSaleIsComplete, QuotasOK
<1>8. UploadsOK
  BY <1>3, CatalogAssumption DEF Init, UploadsOK
<1>9. ImageIsStored
  <2>1. Keys(event.image) = {} /\ stored = {} /\ losses = 0
    BY <1>3 DEF Keys, Init
  <2>2. Unnamed = {}
    BY <2>1 DEF Unnamed
  <2> QED
    BY <2>1, <2>2, FS_EmptySet DEF ImageIsStored, Unnamed
<1> QED
  BY <1>4, <1>5, <1>7, <1>8, <1>9 DEF IInv

LEMMA SwapSteps ==
  ASSUME TypeOK, NEW p \in Puts, SwapImage(p)
  PROVE  /\ event' \in EventRow /\ event'.status = event.status
         /\ SameTerms /\ SameDates
         /\ \/ event'.version = event.version + 1 /\ served' = {event'} /\ ImageEditable
            \/ UNCHANGED <<event, served>>
         /\ put' = [put EXCEPT ![p].pc = "done"] /\ doomed' \subseteq doomed \cup Puts
         /\ UNCHANGED <<now, cat, told, stored, losses>>
<1>1. Leftover(p, ImageEditable /\ put[p].expected = event.version) \subseteq Puts
  BY DEF Leftover, Keys, TypeOK, EventRow
<1>2. CASE ImageEditable /\ put[p].expected = event.version
  <2>1. Write([event EXCEPT !.image = p]) /\ p \in Puts \cup {NoImage}
    BY <1>2 DEF SwapImage
  <2>2. /\ event' \in EventRow /\ event'.version = event.version + 1 /\ served' = {event'}
        /\ event'.status = event.status /\ SameTerms /\ SameDates
    BY <2>1, ImageSteps
  <2> QED
    BY <1>1, <1>2, <2>2 DEF SwapImage
<1>3. CASE ~(ImageEditable /\ put[p].expected = event.version)
  <2>1. UNCHANGED <<event, served>>
    BY <1>3 DEF SwapImage
  <2> QED
    BY <1>1, <2>1 DEF SwapImage, TypeOK, SameTerms, SameDates
<1> QED
  BY <1>2, <1>3

LEMMA DeleteImageSteps ==
  ASSUME TypeOK, DeleteImage
  PROVE  /\ event' \in EventRow /\ event'.version = event.version + 1 /\ served' = {event'}
         /\ event.status = "DRAFT" /\ event'.status = "DRAFT" /\ event'.image = NoImage
         /\ SameTerms /\ SameDates
         /\ doomed' = doomed \cup Keys(event.image)
         /\ UNCHANGED <<now, cat, told, put, stored, losses>>
<1>1. Write([event EXCEPT !.image = NoImage]) /\ NoImage \in Puts \cup {NoImage}
  BY DEF DeleteImage
<1>2. /\ event' \in EventRow /\ event'.version = event.version + 1 /\ served' = {event'}
      /\ event'.status = event.status /\ event'.image = NoImage /\ SameTerms /\ SameDates
  BY <1>1, ImageSteps
<1> QED
  BY <1>2 DEF DeleteImage, IsDraft

LEMMA NextTypeOK == TypeOK /\ [Next]_vars => TypeOK'
<1> SUFFICES ASSUME TypeOK, [Next]_vars PROVE TypeOK'
  OBVIOUS
<1>1. CASE Tick
  BY <1>1 DEF Tick, TypeOK, images
<1>2. CASE UpdateEvent
  BY <1>2, UpdateEventSteps DEF TypeOK, images
<1>3. CASE DeleteEvent
  <2>1. Keys(event.image) \subseteq Puts
    BY DEF Keys, TypeOK, EventRow
  <2>2. NoCategory \in CategoryRows
    BY DEF NoCategory, CategoryRows
  <2> QED
    BY <1>3, <2>1, <2>2, DeleteEventSteps DEF TypeOK
<1>4. ASSUME NEW c \in Categories,
             CreateTicketCategory(c) \/ UpdateTicketCategory(c) \/ DeleteTicketCategory(c) \/ Sell(c)
      PROVE  TypeOK'
  <2>1. cat' \in [Categories -> CategoryRows]
    <3>1. CASE CreateTicketCategory(c)
      BY <3>1, CatalogAssumption DEF CreateTicketCategory, TypeOK, CategoryRows
    <3>2. CASE UpdateTicketCategory(c)
      <4>1. PICK quota \in Quotas :
              cat' = [cat EXCEPT ![c].quota = quota, ![c].version = cat[c].version + 1]
        BY <3>2 DEF UpdateTicketCategory, TypeOK
      <4>2. quota \in Nat /\ cat[c].version + 1 \in Nat
        BY CatalogAssumption DEF TypeOK, CategoryRows
      <4> QED
        BY <4>1, <4>2 DEF TypeOK, CategoryRows
    <3>3. CASE DeleteTicketCategory(c)
      BY <3>3 DEF DeleteTicketCategory, NoCategory, TypeOK, CategoryRows
    <3>4. CASE Sell(c)
      BY <3>4 DEF Sell, TypeOK, CategoryRows
    <3> QED
      BY <1>4, <3>1, <3>2, <3>3, <3>4
  <2> QED
    BY <1>4, <2>1
    DEF CreateTicketCategory, UpdateTicketCategory, DeleteTicketCategory, Sell, TypeOK, images
<1>5. CASE Lifecycle
  BY <1>5, LifecycleSteps DEF TypeOK, images
<1>6. CASE DeleteImage
  <2>1. Keys(event.image) \subseteq Puts
    BY DEF Keys, TypeOK, EventRow
  <2> QED
    BY <1>6, <2>1, DeleteImageSteps DEF TypeOK
<1>7. ASSUME NEW p \in Puts, Upload(p) PROVE TypeOK'
  <2>1. event.version \in Nat
    BY DEF TypeOK, EventRow
  <2> QED
    BY <1>7, <2>1 DEF Upload, TypeOK
<1>8. ASSUME NEW p \in Puts, SwapImage(p) PROVE TypeOK'
  BY <1>8, SwapSteps DEF TypeOK
<1>9. ASSUME NEW p \in Puts, DeleteObject(p) \/ LoseDeletion(p) \/ LoseUpload(p) PROVE TypeOK'
  BY <1>9 DEF DeleteObject, LoseDeletion, LoseUpload, TypeOK
<1>10. CASE UNCHANGED vars
  BY <1>10 DEF vars, TypeOK
<1> QED
  BY <1>1, <1>2, <1>3, <1>4, <1>5, <1>6, <1>7, <1>8, <1>9, <1>10 DEF Next, Draft, Image

LEMMA NextIInv == IInv /\ [Next]_vars => IInv'
<1> SUFFICES ASSUME IInv, [Next]_vars PROVE IInv'
  OBVIOUS
<1>0. TypeOK /\ TypeOK' /\ ServedOK /\ DatesOK /\ TermsOK /\ ImagesOK
  BY NextTypeOK DEF IInv, DatesOK, TermsOK, ImagesOK
<1> SUFFICES ServedOK' /\ DatesOK' /\ TermsOK' /\ ImagesOK'
  BY <1>0 DEF IInv, DatesOK, TermsOK, ImagesOK
<1> DEFINE Kept == ServedOK' /\ DatesOK' /\ TermsOK' /\ ImagesOK'
<1>1. ASSUME UNCHANGED <<event, served, told>> PROVE ServedOK' /\ DatesOK'
  BY <1>0, <1>1 DEF ServedOK, DatesOK, OldDateIsKept, ArchivedOK, ToldSchedule, ScheduleOf
<1>2. ASSUME UNCHANGED <<event, cat>> PROVE TermsOK'
  BY <1>0, <1>2, TermsKept DEF SameTerms
<1>3. ASSUME UNCHANGED images, event'.image = event.image PROVE ImagesOK'
  BY <1>0, <1>3, ImagesKept
<1>4. ASSUME Tick \/ UNCHANGED vars PROVE Kept
  BY <1>1, <1>2, <1>3, <1>4 DEF Tick, vars, images
<1>5. ASSUME UpdateEvent PROVE Kept
  <2>1. ServedOK' /\ DatesOK'
    BY <1>0, <1>5, UpdateEventSteps
       DEF ServedOK, DatesOK, OldDateIsKept, ArchivedOK
  <2> QED
    BY <1>0, <1>3, <1>5, <2>1, UpdateEventSteps, UpdateEventTerms
<1>6. ASSUME DeleteEvent PROVE Kept
  <2>1. ServedOK' /\ DatesOK'
    BY <1>0, <1>6, DeleteEventSteps
       DEF ServedOK, DatesOK, OldDateIsKept, ArchivedOK
  <2>2. ImagesOK'
    BY <1>0, <1>6, DeleteEventSteps, DropImages
  <2> QED
    BY <1>0, <1>6, <2>1, <2>2, DeleteEventTerms
<1>7. ASSUME NEW c \in Categories,
             CreateTicketCategory(c) \/ UpdateTicketCategory(c) \/ DeleteTicketCategory(c) \/ Sell(c)
      PROVE  Kept
  <2>1. UNCHANGED <<event, served, told, images>>
    BY <1>7 DEF CreateTicketCategory, UpdateTicketCategory, DeleteTicketCategory, Sell
  <2>2. TermsOK'
    BY <1>0, <1>7, CreateTerms, UpdateTerms, DeleteCategoryTerms, SellTerms
  <2> QED
    BY <1>1, <1>3, <2>1, <2>2
<1>8. ASSUME Lifecycle PROVE Kept
  <2>1. ServedOK'
    BY <1>0, <1>8, LifecycleSteps DEF ServedOK
  <2>2. ImagesOK'
    BY <1>0, <1>3, <1>8, LifecycleSteps
  <2> QED
    BY <1>0, <1>8, <2>1, <2>2, LifecycleDates, LifecycleTerms
<1>9. ASSUME DeleteImage PROVE Kept
  <2>1. ServedOK'
    BY <1>0, <1>9, DeleteImageSteps DEF ServedOK
  <2>2. DatesOK'
    BY <1>0, <1>9, DeleteImageSteps, DatesKept
  <2>3. TermsOK'
    BY <1>0, <1>9, DeleteImageSteps, TermsKept
  <2>4. ImagesOK'
    BY <1>0, <1>9, DeleteImageSteps, DropImages
  <2> QED
    BY <2>1, <2>2, <2>3, <2>4
<1>10. ASSUME NEW p \in Puts, SwapImage(p) PROVE Kept
  <2>1. ServedOK'
    BY <1>0, <1>10, SwapSteps DEF ServedOK
  <2>2. DatesOK'
    BY <1>0, <1>10, SwapSteps, DatesKept
  <2>3. TermsOK'
    BY <1>0, <1>10, SwapSteps, TermsKept
  <2>4. ImagesOK'
    BY <1>0, <1>10, SwapImages
  <2> QED
    BY <2>1, <2>2, <2>3, <2>4
<1>11. ASSUME NEW p \in Puts,
              Upload(p) \/ DeleteObject(p) \/ LoseDeletion(p) \/ LoseUpload(p)
       PROVE  Kept
  <2>1. UNCHANGED <<event, served, cat, told>>
    BY <1>11 DEF Upload, DeleteObject, LoseDeletion, LoseUpload
  <2>2. ImagesOK'
    BY <1>0, <1>11, UploadImages, StoreImages
  <2> QED
    BY <1>1, <1>2, <2>1, <2>2
<1> HIDE DEF Kept
<1>12. Kept
  BY <1>4, <1>5, <1>6, <1>7, <1>8, <1>9, <1>10, <1>11 DEF Next, Draft, Image
<1> QED
  BY <1>12 DEF Kept

LEMMA SpecIInv == Spec => []IInv
BY InitIInv, NextIInv, PTL DEF Spec

-----------------------------------------------------------------------------
(* The theorems. *)

\* The event row, the categories, the announcement and the uploads have the types of
\* their columns (catalog/models.py), whatever the bounds.
THEOREM CatalogTypes == Spec => []TypeOK
<1>1. IInv => TypeOK
  BY DEF IInv
<1> QED
  BY <1>1, SpecIInv, PTL

\* In whatever order capacity and quotas are edited, what is on sale has a place, a
\* capacity and something to sell, and its quotas fit (_validate_quota_capacity,
\* _require_publishable).
THEOREM OnSaleComplete == Spec => []OnSaleIsComplete
<1>1. IInv => OnSaleIsComplete
  BY DEF IInv
<1> QED
  BY <1>1, SpecIInv, PTL

\* The old date of a postponed event is the one its buyers know, and the outbox tells
\* the state and the dates (EventPostponeView and the other lifecycle views).
THEOREM OldDatesKept == Spec => []OldDateIsKept
<1>1. IInv => OldDateIsKept
  BY DEF IInv
<1> QED
  BY <1>1, SpecIInv, PTL

\* The image an event names is in the store, and what nothing names was lost in a
\* counted failure (EventImageView), for any number of concurrent uploads.
THEOREM ImagesStored == Spec => []ImageIsStored
<1>1. IInv => ImageIsStored
  BY DEF IInv
<1> QED
  BY <1>1, SpecIInv, PTL

\* Nothing changes what is sold after the publication, and a write that is accepted
\* comes from a client that saw the row it changes (versioned_update, _require_draft).
THEOREM PublishedIsFrozen == Spec => FrozenOncePublished
<1> DEFINE Frozen ==
     /\ event.status # "DRAFT" =>
          /\ event'.status # "DRAFT"
          /\ event'.capacity = event.capacity
          /\ \A c \in Categories : cat'[c].quota = cat[c].quota
     /\ event'.version > event.version => served = {event}
<1>1. ASSUME IInv, [Next]_vars PROVE [Frozen]_vars
  <2>0. TypeOK /\ ServedOK
    BY <1>1 DEF IInv
  <2>1. ASSUME UNCHANGED <<event, cat>> PROVE Frozen
    BY <2>0, <2>1 DEF TypeOK, EventRow
  <2>2. CASE UpdateEvent
    BY <2>0, <2>2, UpdateEventSteps DEF ServedOK
  <2>3. CASE DeleteEvent
    BY <2>0, <2>3, DeleteEventSteps DEF ServedOK
  <2>4. ASSUME NEW c \in Categories,
               CreateTicketCategory(c) \/ UpdateTicketCategory(c) \/ DeleteTicketCategory(c)
        PROVE  Frozen
    <3>1. event' = event /\ event.status = "DRAFT"
      BY <2>4 DEF CreateTicketCategory, UpdateTicketCategory, DeleteTicketCategory, IsDraft
    <3> QED
      BY <2>0, <3>1 DEF TypeOK, EventRow
  <2>5. ASSUME NEW c \in Categories, Sell(c) PROVE Frozen
    <3>1. event' = event /\ \A x \in Categories : cat'[x].quota = cat[x].quota
      BY <2>0, <2>5 DEF Sell, TypeOK, CategoryRows
    <3> QED
      BY <2>0, <3>1 DEF TypeOK, EventRow
  <2>6. CASE Lifecycle
    BY <2>0, <2>6, LifecycleSteps DEF ServedOK, SameTerms
  <2>7. CASE DeleteImage
    BY <2>0, <2>7, DeleteImageSteps DEF ServedOK
  <2>8. ASSUME NEW p \in Puts, SwapImage(p) PROVE Frozen
    <3>1. CASE UNCHANGED <<event, served>>
      BY <2>0, <2>8, <3>1, SwapSteps DEF TypeOK, EventRow
    <3>2. CASE ImageEditable
      BY <2>0, <2>8, <3>2, SwapSteps DEF ServedOK, SameTerms, ImageEditable
    <3> QED
      BY <2>0, <2>8, <3>1, <3>2, SwapSteps
  <2>9. ASSUME NEW p \in Puts,
               Upload(p) \/ DeleteObject(p) \/ LoseDeletion(p) \/ LoseUpload(p)
        PROVE  Frozen
    <3>1. UNCHANGED <<event, cat>>
      BY <2>9 DEF Upload, DeleteObject, LoseDeletion, LoseUpload
    <3> QED
      BY <2>1, <3>1
  <2>10. CASE Tick
    BY <2>1, <2>10 DEF Tick
  <2>11. CASE UNCHANGED vars
    BY <2>11
  <2> QED
    BY <1>1, <2>2, <2>3, <2>4, <2>5, <2>6, <2>7, <2>8, <2>9, <2>10, <2>11
       DEF Next, Draft, Image
<1> QED
  BY <1>1, SpecIInv, PTL DEF Spec, FrozenOncePublished
=============================================================================
