-------------------------- MODULE CatalogLifecycle --------------------------
(***************************************************************************)
(* The event rules that catalog, ordering, ticketing and access share:     *)
(* backend/apps/catalog/lifecycle.py (which phase an event is in at a      *)
(* given moment) and the effect of the lifecycle handlers of               *)
(* backend/apps/catalog/views.py on one event row.  Pure operators: the    *)
(* modules that use them own the state.                                    *)
(*                                                                         *)
(* An event is a record with the fields the rules read.  Dates are         *)
(* natural numbers; NoDate is SQL NULL.                                    *)
(***************************************************************************)
EXTENDS Naturals

CONSTANTS NoDate,     \* the NULL of a nullable timestamp
          Schedules   \* the [starts_at, ends_at] pairs an organizer announces

EventStatuses == {"DRAFT", "PUBLISHED", "POSTPONED", "SUSPENDED",
                  "CANCELLED", "COMPLETED", "ARCHIVED"}

\* The columns of the event row that the rules read.
EventRows ==
  [status : EventStatuses, starts_at : Nat, ends_at : Nat,
   sales_starts_at : Nat \cup {NoDate}, sales_ends_at : Nat \cup {NoDate},
   postponed_to_starts_at : Nat \cup {NoDate}, postponed_to_ends_at : Nat \cup {NoDate}]

\* The phase of an event whose status alone decides it.
StructuralPhase(status) == IF status = "COMPLETED" THEN "ENDED" ELSE status

\* The phase the dates decide, for an event that is being commercialised.
DatedPhase(event, at) ==
  LET notYetOnSale == event.sales_starts_at # NoDate /\ at < event.sales_starts_at
      saleIsOver   == event.sales_ends_at # NoDate /\ at >= event.sales_ends_at
  IN  CASE at >= event.ends_at                            -> "ENDED"
        [] at < event.ends_at /\ at >= event.starts_at    -> "LIVE"
        [] at < event.starts_at /\ notYetOnSale           -> "COMING_SOON"
        [] at < event.starts_at /\ ~notYetOnSale /\ saleIsOver -> "SALE_CLOSED"
        [] OTHER                                          -> "SALE_OPEN"

\* What sales follow: a POSTPONED event with a new date sells like a
\* PUBLISHED one, a POSTPONED event without a date does not sell.
EventSalesPhase(event, at) ==
  IF \/ event.status = "PUBLISHED"
     \/ event.status = "POSTPONED" /\ event.postponed_to_starts_at # NoDate
  THEN DatedPhase(event, at)
  ELSE StructuralPhase(event.status)

EventSalesOpen(event, at) == EventSalesPhase(event, at) = "SALE_OPEN"

\* The periodic completion task closes an elapsed event.
CanBeCompleted(event, at) ==
  /\ event.ends_at <= at
  /\ \/ event.status = "PUBLISHED"
     \/ event.status = "POSTPONED" /\ event.postponed_to_ends_at # NoDate

-----------------------------------------------------------------------------
(* The lifecycle handlers, as the status a handler may give an event (each  *)
(* handler holds the event row lock, so it is one atomic change).           *)

NextStatuses(event, at) ==
  {s \in EventStatuses :
     \/ s = "CANCELLED" /\ event.status \in {"PUBLISHED", "POSTPONED", "SUSPENDED"}
     \/ s = "SUSPENDED" /\ event.status \in {"PUBLISHED", "POSTPONED"}
     \/ s = "ARCHIVED"  /\ event.status = "PUBLISHED"
     \/ s = "PUBLISHED" /\ event.status = "ARCHIVED"
     \/ s = "COMPLETED" /\ CanBeCompleted(event, at)}

\* Schedules an organizer may announce at a given moment: the start must lie
\* ahead.  NoSchedule postpones the event without a new date.
NoSchedule == [starts_at |-> NoDate, ends_at |-> NoDate]

AnnounceableSchedules(at) ==
  {NoSchedule} \cup {d \in Schedules : d.starts_at > at /\ d.ends_at > d.starts_at}

CanPostpone(event) == event.status \in {"PUBLISHED", "POSTPONED"}

\* A postponement without a date keeps starts_at and ends_at but forgets any
\* earlier announcement; the sales window is never moved.
Postponed(event, d) ==
  [event EXCEPT !.status = "POSTPONED",
                !.postponed_to_starts_at = d.starts_at,
                !.postponed_to_ends_at   = d.ends_at,
                !.starts_at = IF d = NoSchedule THEN @ ELSE d.starts_at,
                !.ends_at   = IF d = NoSchedule THEN @ ELSE d.ends_at]
=============================================================================
