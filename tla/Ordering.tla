------------------------------ MODULE Ordering ------------------------------
(***************************************************************************)
(* Selling tickets: stock reservations with a time-limited hold, the       *)
(* payment intent of an order, the Stripe webhook that confirms it, and    *)
(* the tickets issued in the same transaction                              *)
(* (backend/apps/ordering, backend/apps/payments/services/intents.py,      *)
(* backend/apps/ticketing/services/issuance.py).                           *)
(*                                                                         *)
(* A handler takes two steps.  The first reads the clock (and, for the     *)
(* webhook, locks the intent row); the second is the rest of its database  *)
(* transaction, atomic because it works under row locks it keeps until     *)
(* commit.  Between the two the handler waits for those locks, so the      *)
(* clock value it compares with a hold's expiry may be out of date when it *)
(* commits: MaxLockWait bounds by how much.                                *)
(*                                                                         *)
(* A definition named Bug_X is not part of the specification: it is a      *)
(* plausible bug in the definition that follows it, which the properties   *)
(* must notice when it takes that definition's place.                      *)
(***************************************************************************)
EXTENDS Integers, FiniteSets, Functions

CONSTANTS Orders,        \* identifiers for orders
          Intents,       \* identifiers Stripe may give to payment intents
          Workers,       \* concurrent handlers
          Events,
          Categories,    \* ticket categories
          EventOf,       \* the event a category belongs to
          Quota,         \* quota of a category
          Capacity,      \* capacity_total of an event; NoDate when it is NULL
          Baskets,       \* the quantities per category a buyer may ask for
          InitialEvent,  \* the event row when sales are prepared
          HoldTTL,       \* HOLD_TTL
          MaxLockWait,   \* bound: ticks a handler may wait for its row locks
          MaxTime,       \* bound on the clock
          NoDate, Schedules, NoOrder

INSTANCE CatalogLifecycle

ASSUME CategoryAssumption ==
  /\ EventOf \in [Categories -> Events]
  /\ Quota \in [Categories -> Nat \ {0}]
  /\ Baskets \subseteq [Categories -> Nat]
ASSUME ClockAssumption ==
  HoldTTL \in Nat \ {0} /\ MaxLockWait \in Nat /\ MaxTime \in Nat
ASSUME NoOrderAssumption == NoOrder \notin Orders
\* publish refuses an event whose quotas exceed its capacity, and quotas and
\* capacity only change in DRAFT.
ASSUME CapacityAssumption ==
  \A e \in {x \in Events : Capacity[x] # NoDate} :
    SumFunctionOnSet(Quota, {c \in Categories : EventOf[c] = e}) <= Capacity[e]

VARIABLES now,       \* the clock
          event,     \* rows of catalog_event
          sold,      \* TicketCategory.sold_count
          order,     \* rows of ordering_order with their lines and stock hold
          intent,    \* rows of payments_payment_intent
          tickets,   \* <<order, category, sequence>> rows of ticketing_ticket
          provider,  \* Stripe's side of every intent
          worker     \* what each handler is in the middle of

vars == <<now, event, sold, order, intent, tickets, provider, worker>>
rows == <<event, sold, order, intent, tickets>>

-----------------------------------------------------------------------------
NewOrder == [status |-> "NONE", lines |-> [c \in Categories |-> 0],
             expires_at |-> 0, consumed |-> FALSE, paid_at |-> 0]
NewIntent == [order |-> NoOrder, status |-> "NONE"]
AtProvider == [state |-> "none", charged_at |-> 0]
Idle == [op |-> "idle"]

Requests == {Idle}
  \cup [op : {"reserve"}, lines : Baskets, moment : Nat]
  \cup [op : {"intent"}, order : Orders, moment : Nat]
  \cup [op : {"confirm"}, intent : Intents, moment : Nat]

Init ==
  /\ now = 0
  /\ event = [e \in Events |-> InitialEvent[e]]
  /\ sold = [c \in Categories |-> 0]
  /\ order = [o \in Orders |-> NewOrder]
  /\ intent = [i \in Intents |-> NewIntent]
  /\ tickets = {}
  /\ provider = [i \in Intents |-> AtProvider]
  /\ worker = [w \in Workers |-> Idle]

\* held_rows: quantity of c in holds neither consumed nor expired at a moment.
ActiveHolds(at) ==
  {o \in Orders : order[o].status # "NONE" /\ ~order[o].consumed
                                           /\ order[o].expires_at > at}
Ordered(c) == [o \in Orders |-> order[o].lines[c]]
Held(c, at) == SumFunctionOnSet(Ordered(c), ActiveHolds(at))

CategoriesOf(e) == {c \in Categories : EventOf[c] = e}
Wanted(lines) == {c \in Categories : lines[c] > 0}
WantedEvents(lines) == {EventOf[c] : c \in Wanted(lines)}

Bug_StockIgnoresHolds(lines, at) ==
  \A c \in Wanted(lines) : lines[c] <= Quota[c] - sold[c]

StockAvailable(lines, at) ==
  \A c \in Wanted(lines) : lines[c] <= Quota[c] - sold[c] - Held(c, at)

CapacityAvailable(lines, at) ==
  \A e \in {x \in WantedEvents(lines) : Capacity[x] # NoDate} :
    SumFunctionOnSet([c \in Categories |-> sold[c] + Held(c, at) + lines[c]],
                     CategoriesOf(e)) <= Capacity[e]

Bug_OneTicketPerLine(o) == {<<o, c, 1>> : c \in Wanted(order[o].lines)}

TicketsOf(o) ==
  UNION {{<<o, c, s>> : s \in 1..order[o].lines[c]} : c \in Categories}

-----------------------------------------------------------------------------
(* Environment: time, the organizer, the customer's payment sheet.         *)

\* No handler that has read the clock waits longer than MaxLockWait for its locks.
Tick ==
  /\ now < MaxTime
  /\ \A w \in Workers : worker[w] # Idle => now < worker[w].moment + MaxLockWait
  /\ now' = now + 1
  /\ UNCHANGED <<rows, provider, worker>>

\* Lifecycle handlers lock the event row, as reserve_stock does.
ChangeStatus(e) ==
  /\ \E s \in NextStatuses(event[e], now) : event' = [event EXCEPT ![e].status = s]
  /\ UNCHANGED <<now, sold, order, intent, tickets, provider, worker>>

Postpone(e) ==
  /\ CanPostpone(event[e])
  /\ \E d \in AnnounceableSchedules(now) :
       event' = [event EXCEPT ![e] = Postponed(event[e], d)]
  /\ UNCHANGED <<now, sold, order, intent, tickets, provider, worker>>

\* The customer completes the PaymentSheet: only an intent whose row was
\* committed had its client_secret returned.  From now on Stripe delivers
\* payment_intent.succeeded, again and again until the webhook answers 200.
Charge(i) ==
  /\ provider[i].state = "open" /\ intent[i].status # "NONE"
  /\ provider' = [provider EXCEPT ![i] = [state |-> "charged", charged_at |-> now]]
  /\ UNCHANGED <<now, rows, worker>>

-----------------------------------------------------------------------------
(* POST /orders/reservations: reserve_stock.                               *)

BeginReserve(w) ==
  /\ worker[w] = Idle
  /\ \E lines \in Baskets :
       /\ Wanted(lines) # {}
       /\ worker' = [worker EXCEPT ![w] = [op |-> "reserve", lines |-> lines, moment |-> now]]
  /\ UNCHANGED <<now, rows, provider>>

Reserve(w) ==
  /\ worker[w].op = "reserve"
  /\ LET lines == worker[w].lines
         at    == worker[w].moment
     IN  /\ \A e \in WantedEvents(lines) : EventSalesOpen(event[e], at)
         /\ StockAvailable(lines, at)
         /\ CapacityAvailable(lines, at)
         /\ \E o \in Orders :
              /\ order[o].status = "NONE"
              /\ order' = [order EXCEPT ![o] =
                   [NewOrder EXCEPT !.status = "PENDING", !.lines = lines,
                                    !.expires_at = at + HoldTTL]]
  /\ worker' = [worker EXCEPT ![w] = Idle]
  /\ UNCHANGED <<now, event, sold, intent, tickets, provider>>

\* Any handler may fail at any check, be a deadlock victim or crash: its
\* transaction rolls back and leaves nothing.
RollBack(w) ==
  /\ worker[w] # Idle
  /\ worker' = [worker EXCEPT ![w] = Idle]
  /\ UNCHANGED <<now, rows, provider>>

-----------------------------------------------------------------------------
(* POST /orders/{id}/payment-intent: create_payment_intent.                *)

BeginIntent(w, o) ==
  /\ worker[w] = Idle
  /\ order[o].status # "NONE"
  /\ worker' = [worker EXCEPT ![w] = [op |-> "intent", order |-> o, moment |-> now]]
  /\ UNCHANGED <<now, rows, provider>>

Bug_PayableWithoutExpiry(o, at) == order[o].status = "PENDING" /\ ~order[o].consumed

Payable(o, at) ==
  /\ order[o].status = "PENDING"
  /\ ~order[o].consumed
  /\ order[o].expires_at > at

Bug_NoIntentReuse(o) == FALSE

HasActiveIntent(o) ==
  \E i \in Intents : intent[i].order = o /\ intent[i].status = "CREATED"

\* Stripe opens an intent during the transaction, which then inserts the row.
CreateIntent(w, i) ==
  /\ worker[w].op = "intent"
  /\ LET o == worker[w].order
     IN  /\ Payable(o, worker[w].moment)
         /\ ~HasActiveIntent(o)
         /\ intent' = [intent EXCEPT ![i] = [order |-> o, status |-> "CREATED"]]
  /\ provider[i].state = "none"
  /\ provider' = [provider EXCEPT ![i].state = "open"]
  /\ worker' = [worker EXCEPT ![w] = Idle]
  /\ UNCHANGED <<now, event, sold, order, tickets>>

\* The transaction fails after Stripe answered: the provider keeps an intent
\* the database knows nothing of.
LoseIntent(w, i) ==
  /\ worker[w].op = "intent"
  /\ Payable(worker[w].order, worker[w].moment)
  /\ ~HasActiveIntent(worker[w].order)
  /\ provider[i].state = "none"
  /\ provider' = [provider EXCEPT ![i].state = "open"]
  /\ worker' = [worker EXCEPT ![w] = Idle]
  /\ UNCHANGED <<now, rows>>

-----------------------------------------------------------------------------
(* Stripe webhook payment_intent.succeeded: mark_payment_intent_succeeded   *)
(* and, inside it, confirm_order_payment and issue_tickets_for_order.       *)

IntentLocked(i) ==
  \E w \in Workers : worker[w].op = "confirm" /\ worker[w].intent = i

\* Lock the intent row; an intent already SUCCEEDED is answered at once.
BeginConfirm(w, i) ==
  /\ worker[w] = Idle
  /\ provider[i].state = "charged"
  /\ ~IntentLocked(i)
  /\ intent[i].status = "CREATED"
  /\ worker' = [worker EXCEPT ![w] = [op |-> "confirm", intent |-> i, moment |-> now]]
  /\ UNCHANGED <<now, rows, provider>>

Bug_NoQuotaCheck(o) == TRUE

QuotaSuffices(o) ==
  \A c \in Wanted(order[o].lines) : sold[c] + order[o].lines[c] <= Quota[c]

Bug_ConfirmNeedsOpenSale(o, at) ==
  /\ Payable(o, at) /\ QuotaSuffices(o)
  /\ \A e \in WantedEvents(order[o].lines) : EventSalesOpen(event[e], at)

\* What confirm_order_payment raises on; it returns early on a paid order.
Confirmable(o, at) ==
  order[o].status # "PAID" => Payable(o, at) /\ QuotaSuffices(o)

Bug_HoldNotConsumed(o) == [order[o] EXCEPT !.status = "PAID", !.paid_at = now]
Bug_UnknownStatus(o) ==
  [order[o] EXCEPT !.status = "COMPLETED", !.consumed = TRUE, !.paid_at = now]

PaidOrder(o) ==
  [order[o] EXCEPT !.status = "PAID", !.consumed = TRUE, !.paid_at = now]

Confirm(w) ==
  /\ worker[w].op = "confirm"
  /\ LET i == worker[w].intent
         o == intent[i].order
         already == order[o].status = "PAID"
     IN  /\ Confirmable(o, worker[w].moment)
         /\ sold' = [c \in Categories |->
                       sold[c] + IF already THEN 0 ELSE order[o].lines[c]]
         /\ order' = IF already THEN order ELSE [order EXCEPT ![o] = PaidOrder(o)]
         /\ tickets' = IF already THEN tickets ELSE tickets \cup TicketsOf(o)
         /\ intent' = [intent EXCEPT ![i].status = "SUCCEEDED"]
  /\ worker' = [worker EXCEPT ![w] = Idle]
  /\ UNCHANGED <<now, event, provider>>

-----------------------------------------------------------------------------
Step(w) ==
  \/ BeginReserve(w)
  \/ Reserve(w)
  \/ \E o \in Orders : BeginIntent(w, o)
  \/ \E i \in Intents : CreateIntent(w, i) \/ LoseIntent(w, i) \/ BeginConfirm(w, i)
  \/ Confirm(w)
  \/ RollBack(w)

Next ==
  \/ Tick
  \/ \E e \in Events : ChangeStatus(e) \/ Postpone(e)
  \/ \E i \in Intents : Charge(i)
  \/ \E w \in Workers : Step(w)

Spec == Init /\ [][Next]_vars

\* Stripe redelivers a webhook until it is answered 200, so a delivery that
\* can be handled again and again is handled, and a confirmation is not rolled
\* back for ever.  A handler ends: it commits or its transaction is undone.
Fairness ==
  /\ \A i \in Intents : SF_vars(\E w \in Workers : BeginConfirm(w, i))
  /\ \A i \in Intents : SF_vars(\E w \in Workers : worker[w].op = "confirm"
                                  /\ worker[w].intent = i /\ Confirm(w))
  /\ \A w \in Workers : WF_vars(RollBack(w))

FairSpec == Spec /\ Fairness

-----------------------------------------------------------------------------
OrderRows ==
  [status : {"NONE", "PENDING", "PAID"}, lines : [Categories -> Nat],
   expires_at : Nat, consumed : BOOLEAN, paid_at : Nat]
IntentRows ==
  [order : Orders \cup {NoOrder}, status : {"NONE", "CREATED", "SUCCEEDED"}]
ProviderIntents == [state : {"none", "open", "charged"}, charged_at : Nat]

\* Every variable stays in its type.
TypeOK ==
  /\ now \in Nat
  /\ DOMAIN event = Events
  /\ sold \in [Categories -> Nat]
  /\ order \in [Orders -> OrderRows]
  /\ intent \in [Intents -> IntentRows]
  /\ tickets \subseteq Orders \X Categories \X Nat
  /\ provider \in [Intents -> ProviderIntents]
  /\ worker \in [Workers -> Requests]

\* No category is ever sold beyond its quota, however reservations, expiries
\* and webhooks interleave and however long a webhook waits for its locks.
NoOversell == \A c \in Categories : sold[c] <= Quota[c]

\* sold_count is a hand-kept counter, tickets are rows: they always agree.
StockLedger ==
  \A c \in Categories : sold[c] = Cardinality({t \in tickets : t[2] = c})

\* The paid status, the consumed hold, the tickets and the succeeded intent
\* appear together or not at all: money taken into account without tickets, or
\* tickets without a payment, never happen.
PaidAtomically ==
  \A o \in Orders :
    LET paid == order[o].status = "PAID" IN
      /\ order[o].consumed <=> paid
      /\ {t \in tickets : t[1] = o} = IF paid THEN TicketsOf(o) ELSE {}
      /\ paid <=> \E i \in Intents : intent[i] = [order |-> o, status |-> "SUCCEEDED"]

\* A buyer who asks for a payment intent several times, or in parallel, is
\* never charged twice for one order.
ChargedOnce ==
  \A i, j \in Intents :
    (provider[i].state = "charged" /\ provider[j].state = "charged" /\ i # j)
      => intent[i].order # intent[j].order

\* A payment Stripe took after the hold expired never becomes tickets
\* (docs/diagrams/README.md: it must not be treated as a valid purchase).
LatePaymentIssuesNothing ==
  \A i \in Intents :
    LET o == intent[i].order IN
      (provider[i].state = "charged" /\ provider[i].charged_at >= order[o].expires_at)
        => /\ intent[i].status # "SUCCEEDED"
           /\ ~\E t \in tickets : t[1] = o

\* Orders confirmed when their hold had already lapsed on the clock, because
\* confirm_order_payment read the clock before it waited for its locks.
ConfirmedLate ==
  {o \in Orders : order[o].status = "PAID" /\ order[o].paid_at >= order[o].expires_at}

\* A hold that is still running is backed by stock: what is sold and what is
\* held fit in the quota, except for what late confirmations took back.
HoldsBackedByStock ==
  \A c \in Categories :
    sold[c] + Held(c, now)
      <= Quota[c] + SumFunctionOnSet(Ordered(c), ConfirmedLate)

HoldRunning(i) ==
  intent[i].status # "NONE" /\ now < order[intent[i].order].expires_at

\* A late confirmation took tickets of a category this order wants.
StockTakenLate(o) ==
  \E p \in ConfirmedLate : Wanted(order[p].lines) \cap Wanted(order[o].lines) # {}

\* A payment made while the hold runs ends in tickets unless the hold runs out
\* before Stripe's deliveries get through, or a confirmation that read the clock
\* before its locks took, after its own hold had lapsed, the stock this hold
\* relied on: webhook retries, rollbacks, other handlers and whatever the
\* organizer does to the event do not lose it.
PaymentBecomesTickets ==
  \A i \in Intents :
    (provider[i].state = "charged" /\ HoldRunning(i))
      ~> \/ intent[i].status = "SUCCEEDED"
         \/ ~HoldRunning(i)
         \/ StockTakenLate(intent[i].order)
=============================================================================
