--------------------------- MODULE OrderingProofs ---------------------------
(* Proofs about Ordering, for any number of orders, intents, categories and *)
(* concurrent handlers, and however long a handler waits for its locks.    *)
EXTENDS Ordering, SumFacts, TLAPS

\* Two handlers never settle the same intent, and the one that does found it
\* CREATED and charged before it read the clock.
SettlingOK ==
  \A w \in Workers : worker[w].op = "confirm" =>
    LET i == worker[w].intent IN
      /\ intent[i].status = "CREATED"
      /\ provider[i].state = "charged"
      /\ provider[i].charged_at <= worker[w].moment
      /\ \A v \in Workers \ {w} : worker[v].op = "confirm" => worker[v].intent # i

AskingOK ==
  \A w \in Workers : worker[w].op = "intent" =>
    order[worker[w].order].status # "NONE"

\* An intent row belongs to an order whose status follows it.
IntentsOK ==
  \A i \in Intents :
    /\ intent[i].status = "NONE" => intent[i].order = NoOrder
    /\ intent[i].status # "NONE" => intent[i].order \in Orders
                                    /\ provider[i].state # "none"
    /\ provider[i].state = "charged" => intent[i].status # "NONE"
                                        /\ provider[i].charged_at <= now
    /\ intent[i].status = "CREATED" => order[intent[i].order].status = "PENDING"
    /\ intent[i].status = "SUCCEEDED" =>
         /\ order[intent[i].order].status = "PAID"
         /\ provider[i].state = "charged"
         /\ provider[i].charged_at < order[intent[i].order].expires_at

\* An order never has a second intent, of any status.
OneIntentPerOrder ==
  \A i, j \in Intents :
    (intent[i].status # "NONE" /\ intent[j].status # "NONE" /\ i # j)
      => intent[i].order # intent[j].order

IInv ==
  /\ TypeOK
  /\ SettlingOK
  /\ AskingOK
  /\ IntentsOK
  /\ OneIntentPerOrder
  /\ PaidAtomically
  /\ NoOversell

-----------------------------------------------------------------------------
(* Types. *)

LEMMA InitTypeOK == Init => TypeOK
BY CategoryAssumption, ClockAssumption
   DEF Init, TypeOK, NewOrder, NewIntent, AtProvider, Idle, OrderRows, IntentRows,
       ProviderIntents, Requests

LEMMA TicketsOfType ==
  ASSUME TypeOK, NEW o \in Orders
  PROVE  TicketsOf(o) \subseteq {o} \X Categories \X Nat
BY DEF TicketsOf, TypeOK, OrderRows

\* The order a confirmation settles exists.
LEMMA SettledOrder ==
  ASSUME TypeOK, SettlingOK, IntentsOK, NEW w \in Workers, worker[w].op = "confirm"
  PROVE  /\ worker[w] \in [op : {"confirm"}, intent : Intents, moment : Nat]
         /\ worker[w].intent \in Intents
         /\ worker[w].moment \in Nat
         /\ intent[worker[w].intent].order \in Orders
<1>1. worker[w] \in [op : {"confirm"}, intent : Intents, moment : Nat]
  BY DEF TypeOK, Requests, Idle
<1> QED
  BY <1>1 DEF SettlingOK, IntentsOK

LEMMA NextTypeOK == TypeOK /\ SettlingOK /\ IntentsOK /\ [Next]_vars => TypeOK'
<1> SUFFICES ASSUME TypeOK, SettlingOK, IntentsOK, [Next]_vars PROVE TypeOK'
  OBVIOUS
<1> USE DEF TypeOK
<1>1. CASE Tick
  BY <1>1 DEF Tick, rows
<1>2. ASSUME NEW e \in Events, ChangeStatus(e) \/ Postpone(e) PROVE TypeOK'
  BY <1>2 DEF ChangeStatus, Postpone
<1>3. ASSUME NEW i \in Intents, Charge(i) PROVE TypeOK'
  BY <1>3 DEF Charge, rows, ProviderIntents
<1>4. ASSUME NEW w \in Workers, BeginReserve(w) PROVE TypeOK'
  BY <1>4 DEF BeginReserve, rows, Requests
<1>5. ASSUME NEW w \in Workers, Reserve(w) PROVE TypeOK'
  <2>1. worker[w] \in [op : {"reserve"}, lines : Baskets, moment : Nat]
    BY <1>5 DEF Reserve, Requests, Idle
  <2>2. PICK o \in Orders : order' = [order EXCEPT ![o] =
           [NewOrder EXCEPT !.status = "PENDING", !.lines = worker[w].lines,
                            !.expires_at = worker[w].moment + HoldTTL]]
    BY <1>5 DEF Reserve
  <2>3. [NewOrder EXCEPT !.status = "PENDING", !.lines = worker[w].lines,
                         !.expires_at = worker[w].moment + HoldTTL] \in OrderRows
    <3>1. worker[w].lines \in [Categories -> Nat] /\ worker[w].moment + HoldTTL \in Nat
      BY <2>1, CategoryAssumption, ClockAssumption
    <3> QED
      BY <3>1 DEF NewOrder, OrderRows
  <2>4. order' \in [Orders -> OrderRows]
    BY <2>2, <2>3
  <2> QED
    BY <1>5, <2>4 DEF Reserve, Requests
<1>6. ASSUME NEW w \in Workers, NEW o \in Orders, BeginIntent(w, o) PROVE TypeOK'
  BY <1>6 DEF BeginIntent, rows, Requests
<1>7. ASSUME NEW w \in Workers, NEW i \in Intents, CreateIntent(w, i) PROVE TypeOK'
  <2>1. worker[w] \in [op : {"intent"}, order : Orders, moment : Nat]
    BY <1>7 DEF CreateIntent, Requests, Idle
  <2> QED
    BY <1>7, <2>1 DEF CreateIntent, Requests, IntentRows, ProviderIntents
<1>8. ASSUME NEW w \in Workers, NEW i \in Intents, LoseIntent(w, i) PROVE TypeOK'
  BY <1>8 DEF LoseIntent, rows, Requests, ProviderIntents
<1>9. ASSUME NEW w \in Workers, NEW i \in Intents, BeginConfirm(w, i) PROVE TypeOK'
  BY <1>9 DEF BeginConfirm, rows, Requests
<1>10. ASSUME NEW w \in Workers, Confirm(w) PROVE TypeOK'
  <2> DEFINE i == worker[w].intent
             o == intent[i].order
  <2>1. i \in Intents /\ o \in Orders
    BY <1>10, SettledOrder DEF Confirm
  <2>2. sold' \in [Categories -> Nat]
    <3>1. /\ sold \in [Categories -> Nat] /\ order[o].lines \in [Categories -> Nat]
          /\ sold' = [c \in Categories |->
                        sold[c] + IF order[o].status = "PAID" THEN 0 ELSE order[o].lines[c]]
      BY <1>10, <2>1 DEF Confirm, OrderRows
    <3> HIDE DEF o, TypeOK
    <3> QED
      BY <3>1
  <2>3. order' \in [Orders -> OrderRows]
    BY <1>10, <2>1 DEF Confirm, OrderRows, PaidOrder
  <2>4. tickets' \subseteq Orders \X Categories \X Nat
    BY <1>10, <2>1, TicketsOfType DEF Confirm
  <2>5. intent' \in [Intents -> IntentRows]
    BY <1>10, <2>1 DEF Confirm, IntentRows
  <2>6. worker' \in [Workers -> Requests]
    BY <1>10 DEF Confirm, Requests
  <2> QED
    BY <1>10, <2>2, <2>3, <2>4, <2>5, <2>6 DEF Confirm
<1>11. ASSUME NEW w \in Workers, RollBack(w) PROVE TypeOK'
  BY <1>11 DEF RollBack, rows, Requests
<1>12. CASE UNCHANGED vars
  BY <1>12 DEF vars
<1> QED
  BY <1>1, <1>2, <1>3, <1>4, <1>5, <1>6, <1>7, <1>8, <1>9, <1>10, <1>11, <1>12
  DEF Next, Step

-----------------------------------------------------------------------------
(* The inductive invariant. *)

LEMMA InitIInv == Init => IInv
<1> SUFFICES ASSUME Init PROVE IInv
  OBVIOUS
<1>1. TypeOK
  BY InitTypeOK
<1>2. SettlingOK /\ AskingOK /\ IntentsOK /\ OneIntentPerOrder
  BY DEF Init, SettlingOK, AskingOK, IntentsOK, OneIntentPerOrder, Idle, NewIntent,
         AtProvider
<1>3. PaidAtomically
  BY DEF Init, PaidAtomically, NewOrder, NewIntent
<1>4. NoOversell
  BY CategoryAssumption DEF Init, NoOversell
<1> QED
  BY <1>1, <1>2, <1>3, <1>4 DEF IInv

\* A step that leaves the rows and Stripe alone only has to keep what is known
\* of the handlers.
LEMMA RowsKept ==
  ASSUME IInv, TypeOK', UNCHANGED <<sold, order, intent, tickets, provider>>,
         now' >= now, SettlingOK', AskingOK'
  PROVE  IInv'
<1>1. IntentsOK'
  BY DEF IInv, IntentsOK, TypeOK, ProviderIntents
<1>2. OneIntentPerOrder' /\ NoOversell'
  BY DEF IInv, OneIntentPerOrder, NoOversell
<1>3. PaidAtomically'
  BY DEF IInv, PaidAtomically, TicketsOf
<1> QED
  BY <1>1, <1>2, <1>3 DEF IInv

LEMMA TickIInv == IInv /\ Tick => IInv'
<1> SUFFICES ASSUME IInv, Tick PROVE IInv'
  OBVIOUS
<1>1. TypeOK'
  BY NextTypeOK DEF IInv, Next
<1>2. SettlingOK' /\ AskingOK'
  BY DEF Tick, rows, IInv, SettlingOK, AskingOK
<1> QED
  BY <1>1, <1>2, RowsKept DEF Tick, rows, IInv, TypeOK

\* A handler that only starts, or that rolls back, does not touch the rows.
LEMMA StartIInv ==
  ASSUME IInv, TypeOK', NEW w \in Workers,
         \/ BeginReserve(w) \/ RollBack(w)
         \/ \E o \in Orders : BeginIntent(w, o)
  PROVE  IInv'
<1>1. UNCHANGED <<now, sold, order, intent, tickets, provider>>
  BY DEF BeginReserve, RollBack, BeginIntent, rows
<1>2. SettlingOK' /\ AskingOK'
  BY <1>1 DEF IInv, TypeOK, SettlingOK, AskingOK, BeginReserve, RollBack,
              BeginIntent, Idle
<1> QED
  BY <1>1, <1>2, RowsKept DEF IInv, TypeOK

LEMMA BeginConfirmIInv ==
  ASSUME IInv, TypeOK', NEW w \in Workers, NEW i \in Intents, BeginConfirm(w, i)
  PROVE  IInv'
<1>1. UNCHANGED <<now, sold, order, intent, tickets, provider>>
  BY DEF BeginConfirm, rows
<1>2. provider[i].charged_at <= now /\ intent[i].status = "CREATED"
      /\ provider[i].state = "charged"
  BY DEF BeginConfirm, IInv, IntentsOK
<1>3. SettlingOK'
  BY <1>1, <1>2 DEF BeginConfirm, IInv, TypeOK, SettlingOK, IntentLocked
<1>4. AskingOK'
  BY <1>1 DEF BeginConfirm, IInv, TypeOK, AskingOK
<1> QED
  BY <1>1, <1>3, <1>4, RowsKept DEF IInv, TypeOK

\* What Stripe does to an intent it is not settling.
LEMMA ProviderIInv ==
  ASSUME IInv, TypeOK', NEW i \in Intents,
         Charge(i) \/ \E w \in Workers : LoseIntent(w, i)
  PROVE  IInv'
<1>1. UNCHANGED <<now, sold, order, intent, tickets>>
  BY DEF Charge, LoseIntent, rows
<1>2. \A j \in Intents \ {i} : provider'[j] = provider[j]
  BY DEF Charge, LoseIntent, IInv, TypeOK
<1>3. provider[i].state # "charged"
  BY DEF Charge, LoseIntent
<1>4. worker' = worker \/ \E w \in Workers : worker' = [worker EXCEPT ![w] = Idle]
  BY DEF Charge, LoseIntent
<1>5. SettlingOK'
  <2>1. \A v \in Workers : worker'[v] = worker[v] \/ worker'[v] = Idle
    BY <1>4 DEF IInv, TypeOK
  <2> SUFFICES ASSUME NEW v \in Workers, worker'[v].op = "confirm"
               PROVE  LET j == worker'[v].intent IN
                 /\ intent'[j].status = "CREATED"
                 /\ provider'[j].state = "charged"
                 /\ provider'[j].charged_at <= worker'[v].moment
                 /\ \A u \in Workers \ {v} : worker'[u].op = "confirm"
                                             => worker'[u].intent # j
    BY DEF SettlingOK
  <2>2. worker'[v] = worker[v] /\ worker[v].intent \in Intents
    BY <2>1, SettledOrder DEF IInv, Idle
  <2>3. worker[v].intent # i
    BY <1>3, <2>2 DEF IInv, SettlingOK
  <2> QED
    BY <1>1, <1>2, <2>1, <2>2, <2>3 DEF IInv, SettlingOK, Idle
<1>6. AskingOK'
  BY <1>1, <1>4 DEF IInv, TypeOK, AskingOK, Idle
<1>7. IntentsOK'
  BY <1>1, <1>2, <1>3 DEF Charge, LoseIntent, IInv, TypeOK, ProviderIntents, IntentsOK
<1>8. OneIntentPerOrder' /\ NoOversell' /\ PaidAtomically'
  BY <1>1 DEF IInv, OneIntentPerOrder, NoOversell, PaidAtomically, TicketsOf
<1> QED
  BY <1>5, <1>6, <1>7, <1>8 DEF IInv

\* A new intent: the order is not paid and has no CREATED intent, so it has none.
LEMMA CreateIntentIInv ==
  ASSUME IInv, TypeOK', NEW w \in Workers, NEW i \in Intents, CreateIntent(w, i)
  PROVE  IInv'
<1> DEFINE o == worker[w].order
<1>1. o \in Orders
  BY DEF CreateIntent, IInv, TypeOK, Requests, Idle
<1>2. /\ order[o].status = "PENDING"
      /\ intent' = [intent EXCEPT ![i] = [order |-> o, status |-> "CREATED"]]
      /\ provider' = [provider EXCEPT ![i].state = "open"]
      /\ worker' = [worker EXCEPT ![w] = Idle]
      /\ UNCHANGED <<now, sold, order, tickets>>
      /\ provider[i].state = "none"
  BY DEF CreateIntent, Payable
<1>3. intent[i].status = "NONE"
  BY <1>2 DEF IInv, TypeOK, IntentRows, IntentsOK
<1>4. \A j \in Intents : intent[j].status # "NONE" => intent[j].order # o
  BY <1>2 DEF CreateIntent, HasActiveIntent, IInv, TypeOK, IntentRows, IntentsOK
<1>5. SettlingOK'
  BY <1>2, <1>3 DEF IInv, TypeOK, SettlingOK, Idle
<1>6. AskingOK'
  BY <1>2 DEF IInv, TypeOK, AskingOK, Idle
<1>7. IntentsOK'
  BY <1>1, <1>2 DEF IInv, TypeOK, ProviderIntents, IntentsOK
<1>8. OneIntentPerOrder'
  BY <1>2, <1>4 DEF IInv, TypeOK, OneIntentPerOrder
<1>9. PaidAtomically'
  BY <1>2, <1>3 DEF IInv, TypeOK, PaidAtomically, TicketsOf
<1>10. NoOversell'
  BY <1>2 DEF IInv, NoOversell
<1> QED
  BY <1>5, <1>6, <1>7, <1>8, <1>9, <1>10 DEF IInv

\* A new order has no intent, no ticket and no handler working on it.
LEMMA ReserveIInv ==
  ASSUME IInv, TypeOK', NEW w \in Workers, Reserve(w)
  PROVE  IInv'
<1>1. PICK o \in Orders :
        /\ order[o].status = "NONE"
        /\ order' = [order EXCEPT ![o] =
             [NewOrder EXCEPT !.status = "PENDING", !.lines = worker[w].lines,
                              !.expires_at = worker[w].moment + HoldTTL]]
  BY DEF Reserve
<1>2. /\ worker' = [worker EXCEPT ![w] = Idle]
      /\ UNCHANGED <<now, sold, intent, tickets, provider>>
  BY DEF Reserve
<1>3. /\ order'[o].status = "PENDING" /\ order'[o].consumed = FALSE
      /\ \A x \in Orders \ {o} : order'[x] = order[x]
  BY <1>1 DEF IInv, TypeOK, NewOrder
<1>4. \A i \in Intents : intent[i].status # "NONE" => intent[i].order # o
  BY <1>1 DEF IInv, TypeOK, IntentRows, IntentsOK
<1>5. SettlingOK'
  BY <1>2 DEF IInv, TypeOK, SettlingOK, Idle
<1>6. AskingOK'
  BY <1>2, <1>3 DEF IInv, TypeOK, AskingOK, Idle, Requests
<1>7. IntentsOK'
  BY <1>2, <1>3, <1>4 DEF IInv, TypeOK, IntentRows, IntentsOK
<1>8. OneIntentPerOrder' /\ NoOversell'
  BY <1>2 DEF IInv, OneIntentPerOrder, NoOversell
<1>9. PaidAtomically'
  <2> SUFFICES ASSUME NEW x \in Orders
               PROVE  LET paid == order'[x].status = "PAID" IN
                 /\ order'[x].consumed <=> paid
                 /\ {t \in tickets' : t[1] = x} = IF paid THEN TicketsOf(x)' ELSE {}
                 /\ paid <=> \E i \in Intents :
                               intent'[i] = [order |-> x, status |-> "SUCCEEDED"]
    BY DEF PaidAtomically
  <2>1. CASE x = o
    BY <1>1, <1>2, <1>3, <2>1 DEF IInv, PaidAtomically
  <2>2. CASE x # o
    <3>1. order'[x] = order[x] /\ TicketsOf(x)' = TicketsOf(x)
      BY <1>3, <2>2 DEF TicketsOf
    <3> QED
      BY <1>2, <3>1 DEF IInv, PaidAtomically
  <2> QED
    BY <2>1, <2>2
<1> QED
  BY <1>5, <1>6, <1>7, <1>8, <1>9 DEF IInv

\* A confirmation: the one step that moves money into tickets.
Settles(w, i, o) ==
  /\ i = worker[w].intent /\ o = intent[i].order /\ worker[w].moment \in Nat
  /\ intent[i].status = "CREATED"
  /\ provider[i].state = "charged"
  /\ provider[i].charged_at <= worker[w].moment
  /\ order[o].status = "PENDING"
  /\ Payable(o, worker[w].moment) /\ QuotaSuffices(o)
  /\ sold' = [c \in Categories |-> sold[c] + order[o].lines[c]]
  /\ order' = [order EXCEPT ![o] = PaidOrder(o)]
  /\ tickets' = tickets \cup TicketsOf(o)
  /\ intent' = [intent EXCEPT ![i].status = "SUCCEEDED"]
  /\ worker' = [worker EXCEPT ![w] = Idle]
  /\ UNCHANGED <<now, provider>>
  /\ order'[o].status = "PAID" /\ order'[o].consumed = TRUE
  /\ order'[o].lines = order[o].lines /\ order'[o].paid_at = now
  /\ order'[o].expires_at = order[o].expires_at
  /\ \A x \in Orders \ {o} : order'[x] = order[x]

LEMMA ConfirmSettles ==
  ASSUME IInv, NEW w \in Workers, Confirm(w)
  PROVE  \E i \in Intents, o \in Orders : Settles(w, i, o)
<1>0. PICK i \in Intents, o \in Orders : i = worker[w].intent /\ o = intent[i].order
  BY SettledOrder DEF Confirm, IInv
<1>1. i \in Intents /\ o \in Orders /\ worker[w].moment \in Nat
  BY SettledOrder DEF Confirm, IInv
<1>2. /\ intent[i].status = "CREATED"
      /\ provider[i].state = "charged"
      /\ provider[i].charged_at <= worker[w].moment
      /\ order[o].status = "PENDING"
  BY <1>0, <1>1 DEF Confirm, IInv, SettlingOK, IntentsOK
<1>3. Payable(o, worker[w].moment) /\ QuotaSuffices(o)
  BY <1>0, <1>2 DEF Confirm, Confirmable
<1>4. /\ sold' = [c \in Categories |-> sold[c] + order[o].lines[c]]
      /\ order' = [order EXCEPT ![o] = PaidOrder(o)]
      /\ tickets' = tickets \cup TicketsOf(o)
      /\ intent' = [intent EXCEPT ![i].status = "SUCCEEDED"]
      /\ worker' = [worker EXCEPT ![w] = Idle]
      /\ UNCHANGED <<now, provider>>
  BY <1>0, <1>2 DEF Confirm
<1>5. /\ order'[o].status = "PAID" /\ order'[o].consumed = TRUE
      /\ order'[o].lines = order[o].lines /\ order'[o].paid_at = now
      /\ order'[o].expires_at = order[o].expires_at
      /\ \A x \in Orders \ {o} : order'[x] = order[x]
  <2>1. order[o] \in OrderRows
    BY DEF IInv, TypeOK
  <2>2. /\ PaidOrder(o).status = "PAID" /\ PaidOrder(o).consumed = TRUE
        /\ PaidOrder(o).lines = order[o].lines /\ PaidOrder(o).paid_at = now
        /\ PaidOrder(o).expires_at = order[o].expires_at
    BY <2>1 DEF PaidOrder, OrderRows
  <2> QED
    BY <1>4, <2>2 DEF IInv, TypeOK
<1>6. Settles(w, i, o)
  BY <1>0, <1>1, <1>2, <1>3, <1>4, <1>5 DEF Settles
<1> QED
  BY <1>6

LEMMA ConfirmIInv ==
  ASSUME IInv, TypeOK', NEW w \in Workers, Confirm(w)
  PROVE  IInv'
<1>0. PICK i \in Intents, o \in Orders : Settles(w, i, o)
  BY ConfirmSettles
<1>1. i = worker[w].intent /\ o = intent[i].order /\ worker[w].moment \in Nat
  BY <1>0 DEF Settles
<1>2. /\ intent[i].status = "CREATED"
      /\ provider[i].state = "charged"
      /\ provider[i].charged_at <= worker[w].moment
      /\ order[o].status = "PENDING"
  BY <1>0 DEF Settles
<1>3. Payable(o, worker[w].moment) /\ QuotaSuffices(o)
  BY <1>0 DEF Settles
<1>4. /\ sold' = [c \in Categories |-> sold[c] + order[o].lines[c]]
      /\ tickets' = tickets \cup TicketsOf(o)
      /\ intent' = [intent EXCEPT ![i].status = "SUCCEEDED"]
      /\ worker' = [worker EXCEPT ![w] = Idle]
      /\ UNCHANGED <<now, provider>>
  BY <1>0 DEF Settles
<1>5. /\ order'[o].status = "PAID" /\ order'[o].consumed = TRUE
      /\ order'[o].lines = order[o].lines
      /\ order'[o].expires_at = order[o].expires_at
      /\ \A x \in Orders \ {o} : order'[x] = order[x]
  BY <1>0 DEF Settles
<1>6. /\ intent'[i] = [order |-> o, status |-> "SUCCEEDED"]
      /\ \A j \in Intents \ {i} : intent'[j] = intent[j]
                                  /\ (intent[j].status # "NONE" => intent[j].order # o)
  <2>1. intent[i] \in IntentRows
    BY DEF IInv, TypeOK
  <2>2. intent'[i] = [order |-> o, status |-> "SUCCEEDED"]
    BY <1>1, <1>4, <2>1 DEF IInv, TypeOK, IntentRows
  <2>3. \A j \in Intents \ {i} : intent'[j] = intent[j]
    BY <1>4 DEF IInv, TypeOK
  <2>4. \A j \in Intents \ {i} : intent[j].status # "NONE" => intent[j].order # o
    BY <1>1, <1>2 DEF IInv, OneIntentPerOrder
  <2> QED
    BY <2>2, <2>3, <2>4
<1>7. SettlingOK'
  <2> SUFFICES ASSUME NEW v \in Workers, worker'[v].op = "confirm"
               PROVE  LET j == worker'[v].intent IN
                 /\ intent'[j].status = "CREATED"
                 /\ provider'[j].state = "charged"
                 /\ provider'[j].charged_at <= worker'[v].moment
                 /\ \A u \in Workers \ {v} : worker'[u].op = "confirm"
                                             => worker'[u].intent # j
    BY DEF SettlingOK
  <2>1. /\ \A u \in Workers \ {w} : worker'[u] = worker[u]
        /\ worker'[w].op # "confirm"
    BY <1>4 DEF IInv, TypeOK, Idle
  <2>2. v # w /\ worker[v].intent # i /\ worker[v].intent \in Intents
    BY <1>1, <2>1, SettledOrder DEF Confirm, IInv, SettlingOK
  <2> QED
    BY <1>4, <1>6, <2>1, <2>2 DEF IInv, SettlingOK
<1>8. AskingOK'
  BY <1>4, <1>5 DEF IInv, TypeOK, AskingOK, Idle, Requests
<1>9. IntentsOK'
  <2>1. provider[i].charged_at < order[o].expires_at
    BY <1>1, <1>2, <1>3 DEF Payable, IInv, TypeOK, ProviderIntents, OrderRows
  <2> SUFFICES ASSUME NEW j \in Intents
               PROVE
    /\ intent'[j].status = "NONE" => intent'[j].order = NoOrder
    /\ intent'[j].status # "NONE" => intent'[j].order \in Orders
                                    /\ provider'[j].state # "none"
    /\ provider'[j].state = "charged" => intent'[j].status # "NONE"
                                        /\ provider'[j].charged_at <= now'
    /\ intent'[j].status = "CREATED" => order'[intent'[j].order].status = "PENDING"
    /\ intent'[j].status = "SUCCEEDED" =>
         /\ order'[intent'[j].order].status = "PAID"
         /\ provider'[j].state = "charged"
         /\ provider'[j].charged_at < order'[intent'[j].order].expires_at
    BY DEF IntentsOK
  <2>2. CASE j = i
    <3>1. intent'[i].status = "SUCCEEDED" /\ intent'[i].order = o /\ UNCHANGED <<now, provider>>
      BY <1>4, <1>6
    <3>2. provider[i].state = "charged" /\ provider[i].charged_at <= now
      BY <1>2 DEF IInv, IntentsOK
    <3> QED
      BY <1>5, <2>1, <2>2, <3>1, <3>2
  <2>3. CASE j # i
    BY <1>4, <1>5, <1>6, <2>3 DEF IInv, IntentsOK
  <2> QED
    BY <2>2, <2>3
<1>10. OneIntentPerOrder'
  BY <1>1, <1>2, <1>6 DEF IInv, OneIntentPerOrder
<1>11. NoOversell'
  <2> SUFFICES ASSUME NEW c \in Categories PROVE sold'[c] <= Quota[c]
    BY CategoryAssumption DEF NoOversell
  <2>1. order[o].lines[c] \in Nat /\ sold[c] \in Nat
    BY <1>1 DEF IInv, TypeOK, OrderRows
  <2> QED
    BY <1>3, <1>4, <2>1 DEF QuotaSuffices, Wanted, IInv, NoOversell
<1>12. PaidAtomically'
  <2> SUFFICES ASSUME NEW x \in Orders
               PROVE  LET paid == order'[x].status = "PAID" IN
                 /\ order'[x].consumed <=> paid
                 /\ {t \in tickets' : t[1] = x} = IF paid THEN TicketsOf(x)' ELSE {}
                 /\ paid <=> \E j \in Intents :
                               intent'[j] = [order |-> x, status |-> "SUCCEEDED"]
    BY DEF PaidAtomically
  <2>1. \A t \in TicketsOf(o) : t[1] = o
    BY <1>1, TicketsOfType DEF IInv
  <2>2. CASE x = o
    <3>1. TicketsOf(o)' = TicketsOf(o)
      BY <1>5 DEF TicketsOf
    <3>2. {t \in tickets : t[1] = o} = {}
      BY <1>1, <1>2 DEF IInv, PaidAtomically
    <3>3. {t \in tickets' : t[1] = o} = TicketsOf(o)
      BY <1>4, <2>1, <3>2
    <3> QED
      BY <1>5, <1>6, <2>2, <3>1, <3>3
  <2>3. CASE x # o
    <3>1. order'[x] = order[x] /\ TicketsOf(x)' = TicketsOf(x)
      BY <1>5, <2>3 DEF TicketsOf
    <3>2. {t \in tickets' : t[1] = x} = {t \in tickets : t[1] = x}
      BY <1>4, <2>1, <2>3
    <3>3. (\E j \in Intents : intent'[j] = [order |-> x, status |-> "SUCCEEDED"])
            <=> \E j \in Intents : intent[j] = [order |-> x, status |-> "SUCCEEDED"]
      BY <1>1, <1>2, <1>6, <2>3
    <3> QED
      BY <3>1, <3>2, <3>3 DEF IInv, PaidAtomically
  <2> QED
    BY <2>2, <2>3
<1> QED
  BY <1>7, <1>8, <1>9, <1>10, <1>11, <1>12 DEF IInv

LEMMA NextIInv == IInv /\ [Next]_vars => IInv'
<1> SUFFICES ASSUME IInv, [Next]_vars PROVE IInv'
  OBVIOUS
<1>1. TypeOK'
  BY NextTypeOK DEF IInv
<1>2. CASE Tick
  BY <1>2, TickIInv
<1>3. CASE UNCHANGED vars
  <2>1. SettlingOK' /\ AskingOK'
    BY <1>3 DEF vars, IInv, SettlingOK, AskingOK
  <2> QED
    BY <1>1, <1>3, <2>1, RowsKept DEF vars, IInv, TypeOK
<1>4. ASSUME NEW w \in Workers, Step(w) PROVE IInv'
  BY <1>1, <1>4, StartIInv, BeginConfirmIInv, ProviderIInv, CreateIntentIInv, ReserveIInv,
     ConfirmIInv DEF Step
<1>5. ASSUME NEW e \in Events, ChangeStatus(e) \/ Postpone(e) PROVE IInv'
  <2>1. UNCHANGED <<now, sold, order, intent, tickets, provider, worker>>
    BY <1>5 DEF ChangeStatus, Postpone
  <2>2. SettlingOK' /\ AskingOK'
    BY <2>1 DEF IInv, SettlingOK, AskingOK
  <2> QED
    BY <1>1, <2>1, <2>2, RowsKept DEF IInv, TypeOK
<1>6. ASSUME NEW i \in Intents, Charge(i) PROVE IInv'
  BY <1>1, <1>6, ProviderIInv
<1> QED
  BY <1>2, <1>3, <1>4, <1>5, <1>6 DEF Next

LEMMA SpecIInv == Spec => []IInv
<1>1. Init => IInv
  BY InitIInv
<1>2. IInv /\ [Next]_vars => IInv'
  BY NextIInv
<1> QED
  BY <1>1, <1>2, PTL DEF Spec

-----------------------------------------------------------------------------
\* Every reachable state of the order, hold, intent and ticket rows is
\* well-typed; in particular a handler never acts on a row that is not there.
THEOREM OrderingTypeOK == Spec => []TypeOK
<1>1. IInv => TypeOK
  BY DEF IInv
<1> QED
  BY <1>1, SpecIInv, PTL

\* confirm_order_payment never sells a category beyond its quota.
THEOREM NeverOversold == Spec => []NoOversell
<1>1. IInv => NoOversell
  BY DEF IInv
<1> QED
  BY <1>1, SpecIInv, PTL

\* The webhook's transaction is all or nothing: an order is PAID exactly when
\* its hold is consumed, all its tickets exist and an intent SUCCEEDED.
THEOREM PaymentIsAtomic == Spec => []PaidAtomically
<1>1. IInv => PaidAtomically
  BY DEF IInv
<1> QED
  BY <1>1, SpecIInv, PTL

\* create_payment_intent never gives an order a second intent to charge.
THEOREM NeverChargedTwice == Spec => []ChargedOnce
<1>1. IInv => ChargedOnce
  BY DEF IInv, IntentsOK, OneIntentPerOrder, ChargedOnce
<1> QED
  BY <1>1, SpecIInv, PTL

\* A charge taken after the hold expired is never turned into tickets, however
\* stale the clock value the webhook works with.
THEOREM LatePaymentNeverTicketed == Spec => []LatePaymentIssuesNothing
<1>1. IInv => LatePaymentIssuesNothing
  <2> SUFFICES ASSUME IInv, NEW i \in Intents, provider[i].state = "charged",
                      provider[i].charged_at >= order[intent[i].order].expires_at
               PROVE  /\ intent[i].status # "SUCCEEDED"
                      /\ ~\E t \in tickets : t[1] = intent[i].order
    BY DEF LatePaymentIssuesNothing
  <2>1. intent[i].order \in Orders /\ intent[i].status # "NONE"
    BY DEF IInv, IntentsOK
  <2>2. intent[i].status # "SUCCEEDED"
    BY <2>1 DEF IInv, TypeOK, IntentsOK, ProviderIntents, OrderRows
  <2>3. order[intent[i].order].status # "PAID"
    <3> SUFFICES ASSUME NEW j \in Intents,
                        intent[j] = [order |-> intent[i].order, status |-> "SUCCEEDED"]
                 PROVE  FALSE
      BY <2>1 DEF IInv, PaidAtomically
    <3>1. intent[j].status = "SUCCEEDED" /\ intent[j].order = intent[i].order
      OBVIOUS
    <3> QED
      BY <2>1, <2>2, <3>1 DEF IInv, OneIntentPerOrder
  <2> QED
    BY <2>1, <2>2, <2>3 DEF IInv, PaidAtomically
<1> QED
  BY <1>1, SpecIInv, PTL

-----------------------------------------------------------------------------
(* The counters: the tickets of a category are as many as it sold, and the *)
(* holds that run are backed by stock.  Both follow the rows that exist.   *)

TicketsFor(c) == {t \in tickets : t[2] = c}
Made == {o \in Orders : order[o].status # "NONE"}

\* A handler read the clock when it began.
MomentsPast == \A w \in Workers : worker[w] # Idle => worker[w].moment <= now

StockInv ==
  /\ IInv
  /\ MomentsPast
  /\ IsFiniteSet(Made)
  /\ \A c \in Categories : IsFiniteSet(TicketsFor(c))
  /\ StockLedger
  /\ HoldsBackedByStock

LEMMA OrderedType ==
  ASSUME TypeOK, NEW c \in Categories
  PROVE  \A o \in Orders : Ordered(c)[o] = order[o].lines[c] /\ order[o].lines[c] \in Nat
BY DEF TypeOK, OrderRows, Ordered

\* What is held, and what late confirmations took, are numbers.
LEMMA HeldType ==
  ASSUME TypeOK, IsFiniteSet(Made), NEW c \in Categories, NEW at
  PROVE  /\ IsFiniteSet(ActiveHolds(at)) /\ ActiveHolds(at) \subseteq Orders
         /\ IsFiniteSet(ConfirmedLate) /\ ConfirmedLate \subseteq Orders
         /\ Held(c, at) \in Nat
         /\ SumFunctionOnSet(Ordered(c), ConfirmedLate) \in Nat
<1>1. ActiveHolds(at) \subseteq Made /\ ConfirmedLate \subseteq Made /\ Made \subseteq Orders
  BY DEF ActiveHolds, ConfirmedLate, Made
<1>2. IsFiniteSet(ActiveHolds(at)) /\ IsFiniteSet(ConfirmedLate)
  BY <1>1, FS_Subset
<1>3. \A o \in Orders : Ordered(c)[o] \in Nat
  BY OrderedType
<1>4. SumFunctionOnSet(Ordered(c), ActiveHolds(at)) \in Nat
  BY <1>1, <1>2, <1>3, SumType
<1>5. SumFunctionOnSet(Ordered(c), ConfirmedLate) \in Nat
  BY <1>1, <1>2, <1>3, SumType
<1> QED
  BY <1>1, <1>2, <1>4, <1>5 DEF Held

\* Holds only run out: at a later moment no more is held.
LEMMA HeldShrinks ==
  ASSUME TypeOK, IsFiniteSet(Made), NEW c \in Categories,
         NEW early \in Nat, NEW late \in Nat, early <= late
  PROVE  Held(c, late) <= Held(c, early)
<1>1. ActiveHolds(late) \in SUBSET ActiveHolds(early)
  BY DEF ActiveHolds, TypeOK, OrderRows
<1>2. IsFiniteSet(ActiveHolds(early)) /\ ActiveHolds(early) \subseteq Orders
  BY HeldType
<1>3. \A o \in ActiveHolds(early) : Ordered(c)[o] \in Nat
  BY <1>2, OrderedType
<1> QED
  BY <1>1, <1>2, <1>3, SumSubset DEF Held

\* The tickets of one line of an order.
LineTickets(o, c, n) == {<<o, c, k>> : k \in 1..n}

LEMMA LineTicketsCounted ==
  ASSUME NEW o, NEW c, NEW n \in Nat
  PROVE  IsFiniteSet(LineTickets(o, c, n)) /\ Cardinality(LineTickets(o, c, n)) = n
<1> DEFINE L == LineTickets(o, c, n)
           f == [k \in 1..n |-> <<o, c, k>>]
<1>1. f \in Bijection(1..n, L)
  BY DEF LineTickets, Bijection, Injection, Surjection, IsInjective
<1>2. IsFiniteSet(1..n) /\ Cardinality(1..n) = n
  BY FS_Interval
<1> HIDE DEF f, L
<1>3. ExistsBijection(1..n, L)
  BY <1>1 DEF ExistsBijection
<1>4. IsFiniteSet(L) /\ Cardinality(L) = n
  BY <1>2, <1>3, FS_Bijection
<1> QED
  BY <1>4 DEF L

\* A step that leaves orders, stock and tickets alone, whatever the clock does.
LEMMA CountersKept ==
  ASSUME StockInv, IInv', UNCHANGED <<sold, order, tickets>>, now' \in Nat, now <= now',
         \A w \in Workers : \/ worker'[w] = worker[w] \/ worker'[w] = Idle
                            \/ worker'[w].moment = now
  PROVE  StockInv'
<1>1. MomentsPast'
  BY DEF StockInv, MomentsPast, IInv, TypeOK, Requests, Idle
<1>2. IsFiniteSet(Made)' /\ StockLedger' /\ \A c \in Categories : IsFiniteSet(TicketsFor(c))'
  BY DEF StockInv, Made, TicketsFor, StockLedger
<1>3. HoldsBackedByStock'
  <2> SUFFICES ASSUME NEW c \in Categories
               PROVE  sold'[c] + Held(c, now)'
                        <= Quota[c] + SumFunctionOnSet(Ordered(c), ConfirmedLate)'
    BY DEF HoldsBackedByStock
  <2>1. Held(c, now)' = Held(c, now') /\ Ordered(c)' = Ordered(c)
        /\ ConfirmedLate' = ConfirmedLate
    BY DEF Held, Ordered, ActiveHolds, ConfirmedLate
  <2>2. Held(c, now') <= Held(c, now)
    BY HeldShrinks DEF StockInv, IInv, TypeOK
  <2>3. /\ Held(c, now') \in Nat /\ Held(c, now) \in Nat
        /\ SumFunctionOnSet(Ordered(c), ConfirmedLate) \in Nat
        /\ sold[c] \in Nat /\ Quota[c] \in Nat
    BY HeldType, CategoryAssumption DEF StockInv, IInv, TypeOK
  <2>4. sold[c] + Held(c, now) <= Quota[c] + SumFunctionOnSet(Ordered(c), ConfirmedLate)
    BY DEF StockInv, HoldsBackedByStock
  <2> QED
    BY <2>1, <2>2, <2>3, <2>4
<1> QED
  BY <1>1, <1>2, <1>3 DEF StockInv

\* A reservation adds a hold that the stock it counted covers: what was held when it
\* read the clock is at least what is held now.
LEMMA ReserveStock ==
  ASSUME StockInv, IInv', NEW w \in Workers, Reserve(w)
  PROVE  StockInv'
<1> DEFINE at == worker[w].moment
           lines == worker[w].lines
<1>1. /\ worker[w] \in [op : {"reserve"}, lines : Baskets, moment : Nat]
      /\ at \in Nat /\ at <= now /\ lines \in [Categories -> Nat]
  BY CategoryAssumption DEF Reserve, StockInv, MomentsPast, IInv, TypeOK, Requests, Idle
<1>2. PICK o \in Orders :
        /\ order[o].status = "NONE"
        /\ order' = [order EXCEPT ![o] =
             [NewOrder EXCEPT !.status = "PENDING", !.lines = worker[w].lines,
                              !.expires_at = worker[w].moment + HoldTTL]]
  BY DEF Reserve
<1>3. /\ worker' = [worker EXCEPT ![w] = Idle]
      /\ UNCHANGED <<now, sold, tickets>>
      /\ StockAvailable(lines, at)
  BY DEF Reserve
<1>4. /\ order'[o].status = "PENDING" /\ order'[o].lines = lines
      /\ \A x \in Orders \ {o} : order'[x] = order[x]
  BY <1>2 DEF StockInv, IInv, TypeOK, NewOrder
<1> HIDE DEF at, lines
<1>5. MomentsPast'
  BY <1>3 DEF StockInv, MomentsPast, IInv, TypeOK, Idle
<1>6. IsFiniteSet(Made)'
  <2>1. Made' = Made \cup {o}
    BY <1>4 DEF Made
  <2> QED
    BY <2>1, FS_AddElement DEF StockInv
<1>7. StockLedger' /\ \A c \in Categories : IsFiniteSet(TicketsFor(c))'
  BY <1>3 DEF StockInv, TicketsFor, StockLedger
<1>8. HoldsBackedByStock'
  <2> SUFFICES ASSUME NEW c \in Categories
               PROVE  sold'[c] + Held(c, now)'
                        <= Quota[c] + SumFunctionOnSet(Ordered(c), ConfirmedLate)'
    BY DEF HoldsBackedByStock
  <2> DEFINE A == ActiveHolds(now)
             B == ActiveHolds(now)'
             late == SumFunctionOnSet(Ordered(c), ConfirmedLate)
  <2>1. /\ TypeOK /\ IsFiniteSet(Made) /\ now \in Nat
        /\ sold[c] + Held(c, now) <= Quota[c] + late
        /\ sold[c] \in Nat /\ Quota[c] \in Nat /\ sold[c] <= Quota[c]
    BY CategoryAssumption DEF StockInv, HoldsBackedByStock, NoOversell, IInv, TypeOK
  <2>2. /\ IsFiniteSet(A) /\ A \subseteq Orders /\ Held(c, now) \in Nat /\ Held(c, at) \in Nat
        /\ IsFiniteSet(ConfirmedLate) /\ ConfirmedLate \subseteq Orders /\ late \in Nat
    BY <2>1, HeldType
  <2>3. /\ \A x \in Orders \ {o} : Ordered(c)'[x] = Ordered(c)[x]
        /\ Ordered(c)'[o] = lines[c] /\ lines[c] \in Nat
        /\ \A x \in Orders : Ordered(c)[x] \in Nat
    BY <1>1, <1>4, <2>1, OrderedType DEF Ordered
  <2>4. /\ o \notin A /\ o \notin ConfirmedLate /\ (B = A \/ B = A \cup {o})
        /\ ConfirmedLate' = ConfirmedLate
    BY <1>2, <1>3, <1>4 DEF ActiveHolds, ConfirmedLate
  <2>5. SumFunctionOnSet(Ordered(c), ConfirmedLate)' = late
    <3>1. SumFunctionOnSet(Ordered(c)', ConfirmedLate) = SumFunctionOnSet(Ordered(c), ConfirmedLate)
      BY <2>2, <2>3, <2>4, SumSame
    <3> QED
      BY <2>4, <3>1
  <2>6. SumFunctionOnSet(Ordered(c)', A) = Held(c, now)
    BY <2>2, <2>3, <2>4, SumSame DEF Held
  <2>7. Held(c, now)' = SumFunctionOnSet(Ordered(c)', B)
    BY DEF Held
  <2>8. CASE B = A
    BY <1>3, <2>1, <2>5, <2>6, <2>7, <2>8
  <2>9. CASE B = A \cup {o}
    <3>1. IsFiniteSet(B) /\ B \ {o} = A /\ o \in B
      BY <2>2, <2>4, <2>9, FS_AddElement
    <3>2. \A x \in B : Ordered(c)'[x] \in Nat
      BY <2>2, <2>3, <2>9
    <3>3. SumFunctionOnSet(Ordered(c)', B) = Ordered(c)'[o] + SumFunctionOnSet(Ordered(c)', B \ {o})
      BY <3>1, <3>2, SumRemove
    <3>4. Held(c, now)' = lines[c] + Held(c, now)
      BY <2>3, <2>6, <2>7, <3>1, <3>3
    <3>5. lines[c] > 0 => lines[c] <= Quota[c] - sold[c] - Held(c, at)
      BY <1>3 DEF StockAvailable, Wanted
    <3>6. Held(c, now) <= Held(c, at)
      BY <1>1, <2>1, HeldShrinks
    <3> HIDE DEF late
    <3> QED
      BY <1>3, <2>1, <2>2, <2>3, <2>5, <3>4, <3>5, <3>6
  <2> QED
    BY <2>4, <2>8, <2>9
<1> QED
  BY <1>5, <1>6, <1>7, <1>8 DEF StockInv

\* A confirmation turns a hold into sold stock and tickets, or, when the hold has run
\* out meanwhile, takes the stock and is counted as late.
LEMMA ConfirmStock ==
  ASSUME StockInv, IInv', NEW w \in Workers, Confirm(w)
  PROVE  StockInv'
<1>0. PICK i \in Intents, o \in Orders : Settles(w, i, o)
  BY ConfirmSettles DEF StockInv
<1>1. /\ order[o].status = "PENDING" /\ ~order[o].consumed
      /\ order'[o].status = "PAID" /\ order'[o].consumed
      /\ order'[o].lines = order[o].lines /\ order'[o].paid_at = now
      /\ order'[o].expires_at = order[o].expires_at
      /\ \A x \in Orders \ {o} : order'[x] = order[x]
  BY <1>0 DEF Settles, Payable
<1>2. /\ sold' = [c \in Categories |-> sold[c] + order[o].lines[c]]
      /\ tickets' = tickets \cup TicketsOf(o)
      /\ worker' = [worker EXCEPT ![w] = Idle]
      /\ now' = now
  BY <1>0 DEF Settles
<1>3. TypeOK /\ IsFiniteSet(Made) /\ now \in Nat
  BY DEF StockInv, IInv, TypeOK
<1>4. MomentsPast'
  BY <1>2 DEF StockInv, MomentsPast, IInv, TypeOK, Idle
<1>5. IsFiniteSet(Made)'
  <2>1. Made' = Made
    BY <1>1 DEF Made
  <2> QED
    BY <1>3, <2>1
<1>6. ASSUME NEW c \in Categories
      PROVE  /\ IsFiniteSet(TicketsFor(c))'
             /\ sold'[c] = Cardinality({t \in tickets : t[2] = c})'
  <2> DEFINE n == order[o].lines[c]
             L == LineTickets(o, c, n)
  <2>1. n \in Nat
    BY <1>3, OrderedType
  <2>2. IsFiniteSet(L) /\ Cardinality(L) = n
    BY <2>1, LineTicketsCounted
  <2>3. {t \in TicketsOf(o) : t[2] = c} = L
    BY <1>3 DEF TicketsOf, LineTickets
  <2>4. TicketsFor(c)' = TicketsFor(c) \cup L
    BY <1>2, <2>3 DEF TicketsFor
  <2>5. TicketsFor(c) \cap L = {}
    <3>1. {t \in tickets : t[1] = o} = {}
      BY <1>1 DEF StockInv, IInv, PaidAtomically
    <3> QED
      BY <3>1 DEF TicketsFor, LineTickets
  <2>6. IsFiniteSet(TicketsFor(c)) /\ sold[c] = Cardinality(TicketsFor(c)) /\ sold[c] \in Nat
    BY <1>3 DEF StockInv, StockLedger, TicketsFor, TypeOK
  <2> HIDE DEF L, n
  <2>7. /\ IsFiniteSet(TicketsFor(c) \cup L)
        /\ Cardinality(TicketsFor(c) \cup L)
             = Cardinality(TicketsFor(c)) + Cardinality(L) - Cardinality(TicketsFor(c) \cap L)
    BY <2>2, <2>6, FS_Union
  <2>8. Cardinality(TicketsFor(c) \cup L) = sold[c] + n
    <3>1. Cardinality(TicketsFor(c) \cap L) = 0
      BY <2>5, FS_EmptySet
    <3> QED
      BY <2>1, <2>2, <2>6, <2>7, <3>1
  <2>9. sold'[c] = sold[c] + n
    BY <1>2 DEF n
  <2> QED
    BY <2>4, <2>7, <2>8, <2>9 DEF TicketsFor
<1>7. StockLedger'
  BY <1>6 DEF StockLedger
<1>8. HoldsBackedByStock'
  <2> SUFFICES ASSUME NEW c \in Categories
               PROVE  sold'[c] + Held(c, now)'
                        <= Quota[c] + SumFunctionOnSet(Ordered(c), ConfirmedLate)'
    BY DEF HoldsBackedByStock
  <2> DEFINE A == ActiveHolds(now)
             late == SumFunctionOnSet(Ordered(c), ConfirmedLate)
             n == order[o].lines[c]
             f == Ordered(c)
  <2>1. /\ sold[c] + Held(c, now) <= Quota[c] + late
        /\ sold[c] \in Nat /\ Quota[c] \in Nat
        /\ sold'[c] = sold[c] + n
    BY <1>2, <1>3, CategoryAssumption DEF StockInv, HoldsBackedByStock, TypeOK
  <2>2. /\ IsFiniteSet(A) /\ A \subseteq Orders /\ Held(c, now) \in Nat
        /\ IsFiniteSet(ConfirmedLate) /\ ConfirmedLate \subseteq Orders /\ late \in Nat
    BY <1>3, HeldType
  <2>3. /\ f' = f /\ f[o] = n
        /\ \A x \in Orders : f[x] \in Nat
    <3>1. \A x \in Orders : order'[x].lines = order[x].lines
      BY <1>1
    <3> QED
      BY <1>3, <3>1, OrderedType DEF Ordered
  <2>4. o \notin ConfirmedLate /\ ActiveHolds(now)' = A \ {o}
    BY <1>1, <1>2 DEF ActiveHolds, ConfirmedLate
  <2>5. Held(c, now) = SumFunctionOnSet(f, A) /\ Held(c, now)' = SumFunctionOnSet(f, A \ {o})
    BY <2>3, <2>4 DEF Held
  <2>6. CASE order[o].expires_at > now
    <3>1. o \in A /\ ConfirmedLate' = ConfirmedLate
      BY <1>1, <1>2, <1>3, <2>6 DEF ActiveHolds, ConfirmedLate, TypeOK, OrderRows
    <3>2. SumFunctionOnSet(f, A) = f[o] + SumFunctionOnSet(f, A \ {o})
      BY <2>2, <2>3, <3>1, SumRemove
    <3>3. SumFunctionOnSet(Ordered(c), ConfirmedLate)' = late
      BY <2>3, <3>1
    <3>4. IsFiniteSet(A \ {o}) /\ A \ {o} \subseteq Orders
      BY <2>2, FS_Subset
    <3>5. SumFunctionOnSet(f, A \ {o}) \in Nat
      BY <2>3, <3>4, SumType
    <3> HIDE DEF f, late, A, n
    <3> QED
      BY <2>1, <2>2, <2>3, <2>5, <3>2, <3>3, <3>5
  <2>7. CASE ~(order[o].expires_at > now)
    <3>1. A \ {o} = A /\ ConfirmedLate' = ConfirmedLate \cup {o}
      BY <1>1, <1>2, <1>3, <2>7 DEF ActiveHolds, ConfirmedLate, TypeOK, OrderRows
    <3>2. IsFiniteSet(ConfirmedLate \cup {o}) /\ (ConfirmedLate \cup {o}) \ {o} = ConfirmedLate
      BY <2>2, <2>4, FS_AddElement
    <3>3. SumFunctionOnSet(f, ConfirmedLate \cup {o})
            = f[o] + SumFunctionOnSet(f, (ConfirmedLate \cup {o}) \ {o})
      BY <2>2, <2>3, <3>2, SumRemove
    <3>4. SumFunctionOnSet(Ordered(c), ConfirmedLate)' = n + late
      BY <2>3, <3>1, <3>2, <3>3
    <3>5. n \in Nat
      BY <2>3
    <3> HIDE DEF f, late, A, n
    <3> QED
      BY <2>1, <2>2, <2>5, <3>1, <3>4, <3>5
  <2> QED
    BY <2>6, <2>7
<1> QED
  BY <1>4, <1>5, <1>6, <1>7, <1>8 DEF StockInv

LEMMA InitStock == Init => StockInv
<1> SUFFICES ASSUME Init PROVE StockInv
  OBVIOUS
<1>1. IInv /\ MomentsPast /\ Made = {} /\ ConfirmedLate = {}
  BY InitIInv DEF Init, MomentsPast, Made, ConfirmedLate, NewOrder
<1>2. \A c \in Categories : TicketsFor(c) = {} /\ {t \in tickets : t[2] = c} = {}
  BY DEF Init, TicketsFor
<1>3. IsFiniteSet(Made) /\ StockLedger /\ \A c \in Categories : IsFiniteSet(TicketsFor(c))
  BY <1>1, <1>2, FS_EmptySet DEF Init, StockLedger
<1>4. HoldsBackedByStock
  <2> SUFFICES ASSUME NEW c \in Categories
               PROVE  sold[c] + Held(c, now)
                        <= Quota[c] + SumFunctionOnSet(Ordered(c), ConfirmedLate)
    BY DEF HoldsBackedByStock
  <2>1. ActiveHolds(now) = {}
    BY DEF Init, ActiveHolds, NewOrder
  <2>2. Held(c, now) = 0 /\ SumFunctionOnSet(Ordered(c), ConfirmedLate) = 0
    BY <1>1, <2>1, SumEmpty DEF Held
  <2> QED
    BY <2>2, CategoryAssumption DEF Init
<1> QED
  BY <1>1, <1>3, <1>4 DEF StockInv

LEMMA NextStock == StockInv /\ [Next]_vars => StockInv'
<1> SUFFICES ASSUME StockInv, [Next]_vars PROVE StockInv'
  OBVIOUS
<1>0. IInv'
  BY NextIInv DEF StockInv
<1>1. now \in Nat /\ worker \in [Workers -> Requests]
  BY DEF StockInv, IInv, TypeOK
<1>2. CASE Tick
  BY <1>0, <1>1, <1>2, CountersKept DEF Tick, rows
<1>3. CASE UNCHANGED vars
  BY <1>0, <1>1, <1>3, CountersKept DEF vars
<1>4. ASSUME NEW e \in Events, ChangeStatus(e) \/ Postpone(e) PROVE StockInv'
  BY <1>0, <1>1, <1>4, CountersKept DEF ChangeStatus, Postpone
<1>5. ASSUME NEW i \in Intents, Charge(i) PROVE StockInv'
  BY <1>0, <1>1, <1>5, CountersKept DEF Charge, rows
<1>6. ASSUME NEW w \in Workers, Step(w) PROVE StockInv'
  <2>1. CASE BeginReserve(w) \/ RollBack(w)
    BY <1>0, <1>1, <2>1, CountersKept DEF BeginReserve, RollBack, rows
  <2>2. ASSUME NEW o \in Orders, BeginIntent(w, o) PROVE StockInv'
    BY <1>0, <1>1, <2>2, CountersKept DEF BeginIntent, rows
  <2>3. ASSUME NEW i \in Intents, CreateIntent(w, i) \/ LoseIntent(w, i) \/ BeginConfirm(w, i)
        PROVE  StockInv'
    BY <1>0, <1>1, <2>3, CountersKept DEF CreateIntent, LoseIntent, BeginConfirm, rows
  <2> QED
    BY <1>0, <1>6, <2>1, <2>2, <2>3, ReserveStock, ConfirmStock DEF Step
<1> QED
  BY <1>2, <1>3, <1>4, <1>5, <1>6 DEF Next

LEMMA SpecStock == Spec => []StockInv
BY InitStock, NextStock, PTL DEF Spec

\* sold_count is kept by hand in confirm_order_payment, the tickets are rows inserted
\* by issue_tickets_for_order: for any number of orders and categories they agree.
THEOREM LedgerAgrees == Spec => []StockLedger
<1>1. StockInv => StockLedger
  BY DEF StockInv
<1> QED
  BY <1>1, SpecStock, PTL

\* What reserve_stock promised a buyer is there as long as the hold runs, but for the
\* stock that confirmations took after waiting for their locks past the expiry.
THEOREM RunningHoldsAreBacked == Spec => []HoldsBackedByStock
<1>1. StockInv => HoldsBackedByStock
  BY DEF StockInv
<1> QED
  BY <1>1, SpecStock, PTL
=============================================================================
