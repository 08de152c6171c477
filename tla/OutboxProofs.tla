---------------------------- MODULE OutboxProofs ----------------------------
(* Proofs about Outbox, for any number of events, consumers and relays, any  *)
(* batch size, backoff schedule and number of attempts, and any crashes.     *)
EXTENDS Outbox, TLAPS, NaturalsInduction, WellFoundedInduction

Statuses == {"NONE", "PENDING", "FAILED", "PUBLISHED", "DEAD", "PURGED"}
Rows == [status : Statuses, attempts : Nat, wait : Nat]
Tables == UNION {[E -> Rows] : E \in SUBSET Events}
RelayStates == [pc : {"idle", "batch", "callbacks"}, todo : SUBSET Events, rows : Tables,
                handled : SUBSET Pairs, callbacks : SUBSET Pairs]

TypeOK ==
  /\ row \in [Events -> Rows]
  /\ consumed \in SUBSET Pairs
  /\ applied \in [Pairs -> Nat]
  /\ queued \in [Pairs -> Nat]
  /\ relay \in [Relays -> RelayStates]
  /\ crashes \in Nat

\* An event in a relay's transaction is in no other relay's, and its row still
\* says that it waits.
LocksOK ==
  /\ \A w \in Relays : \A e \in Locked(w) : row[e].status \in {"PENDING", "FAILED"}
  /\ \A v, w \in Relays : v # w => Locked(v) \cap Locked(w) = {}

\* What a relay has done in its open transaction: only new effects, of its own
\* events, all of an event's when the event is to become PUBLISHED.
BatchOK ==
  \A w \in Relays : relay[w].pc = "batch" =>
    /\ relay[w].callbacks = relay[w].handled
    /\ relay[w].handled \cap consumed = {}
    /\ \A p \in relay[w].handled : p[2] \in DOMAIN relay[w].rows
    /\ \A e \in DOMAIN relay[w].rows :
         /\ relay[w].rows[e].status \in {"FAILED", "PUBLISHED", "DEAD"}
         /\ relay[w].rows[e].status = "PUBLISHED" =>
              \A k \in DOMAIN Registry[e] : <<Registry[e][k], e>> \in consumed \cup relay[w].handled

\* Effects are those of the consumers that an event is registered for.
RegisteredOK ==
  /\ \A p \in consumed : p[1] \in ToSet(Registry[p[2]])
  /\ \A w \in Relays : \A p \in relay[w].callbacks : p[1] \in ToSet(Registry[p[2]])
  /\ \A w \in Relays : relay[w].pc = "idle" => relay[w].callbacks = {}

\* A deferred task waits at one relay, its effect committed and itself not queued.
TasksOK ==
  /\ \A w \in Relays : relay[w].pc = "callbacks" =>
       /\ relay[w].callbacks # {}
       /\ relay[w].callbacks \subseteq consumed
       /\ \A p \in relay[w].callbacks : queued[p] = 0
  /\ \A v, w \in Relays :
       (v # w /\ relay[v].pc = "callbacks" /\ relay[w].pc = "callbacks")
         => relay[v].callbacks \cap relay[w].callbacks = {}

\* How often an event was tried, in its row and in a relay's copy of it.
TriesOK(r) ==
  /\ r.attempts <= MaxAttempts
  /\ r.status = "DEAD" <=> r.attempts = MaxAttempts

AttemptsOK ==
  /\ \A e \in Events : TriesOK(row[e])
  /\ \A w \in Relays : \A e \in DOMAIN relay[w].rows : TriesOK(relay[w].rows[e])

IInv ==
  /\ TypeOK
  /\ LocksOK
  /\ BatchOK
  /\ RegisteredOK
  /\ TasksOK
  /\ AttemptsOK
  /\ AppliedOnce

-----------------------------------------------------------------------------
\* FiniteSetsExt's Min, chosen in a set of naturals, is one of its elements.
LEMMA MinIsElement ==
  ASSUME NEW S \in SUBSET Nat, S # {}
  PROVE  Min(S) \in S
<1> DEFINE R == OpToRel(<, Nat)
<1>1. R = {ss \in Nat \X Nat : ss[1] < ss[2]}
  BY DEF OpToRel
<1>2. PICK x \in S : \A y \in S : <<y, x>> \notin R
  BY NatLessThanWellFounded, WFMin
<1> HIDE DEF R
<1>3. ASSUME NEW y \in S PROVE x <= y
  <2>1. x \in Nat /\ y \in Nat
    OBVIOUS
  <2>2. y < x => <<y, x>> \in R
    BY <1>1, <2>1
  <2> QED
    BY <1>2, <2>1, <2>2
<1> QED
  BY <1>3 DEF Min


\* The event a relay is at is one of its batch.
LEMMA CurrentIsDue ==
  ASSUME TypeOK, NEW w \in Relays, relay[w].todo # {}
  PROVE  /\ Current(w) \in relay[w].todo
         /\ Current(w) \in Events
<1>1. relay[w].todo \in SUBSET Events
  BY DEF TypeOK, RelayStates
<1> QED
  BY <1>1, MinIsElement, OutboxAssumption DEF Current

\* The task a relay queues next is one that was deferred.
LEMMA NextTaskIsDeferred ==
  ASSUME TypeOK, RegisteredOK, NEW w \in Relays, relay[w].callbacks # {}
  PROVE  /\ NextTask(w) \in relay[w].callbacks
         /\ NextTask(w) \in Pairs
<1> DEFINE C == relay[w].callbacks
           e == Min({p[2] : p \in C})
           K == {i \in 1..Len(Registry[e]) : <<Registry[e][i], e>> \in C}
<1>1. C \in SUBSET Pairs
  BY DEF TypeOK, RelayStates
<1>2. \A p \in C : p = <<p[1], p[2]>> /\ p[2] \in Events
  BY <1>1 DEF Pairs
<1>3. e \in {p[2] : p \in C}
  <2>1. {p[2] : p \in C} \in SUBSET Nat /\ {p[2] : p \in C} # {}
    BY <1>2, OutboxAssumption
  <2> HIDE DEF C
  <2> QED
    BY <2>1, MinIsElement
<1>4. PICK p \in C : p[2] = e
  BY <1>3
<1>5. Registry[e] \in Seq(Consumers)
  BY <1>2, <1>4, OutboxAssumption
<1>6. p[1] \in ToSet(Registry[e])
  BY <1>4 DEF RegisteredOK
<1>7. K # {}
  <2>1. PICK i \in DOMAIN Registry[e] : p[1] = Registry[e][i]
    BY <1>6 DEF ToSet
  <2>2. i \in 1..Len(Registry[e])
    BY <1>5, <2>1
  <2>3. <<Registry[e][i], e>> = p
    BY <1>2, <1>4, <2>1
  <2> QED
    BY <2>2, <2>3
<1>8. Min(K) \in K
  <2>1. K \in SUBSET Nat
    BY <1>5
  <2> HIDE DEF K
  <2> QED
    BY <2>1, <1>7, MinIsElement
<1>9. NextTask(w) \in C
  BY <1>8 DEF NextTask
<1> QED
  BY <1>1, <1>9

-----------------------------------------------------------------------------
(* Types. *)

LEMMA IdleRelayType == IdleRelay \in RelayStates /\ DOMAIN IdleRelay.rows = {}
<1>1. <<>> \in [{} -> Rows]
  OBVIOUS
<1>2. <<>> \in Tables
  BY <1>1 DEF Tables
<1> QED
  BY <1>2 DEF IdleRelay, RelayStates

LEMMA TableOfType ==
  ASSUME NEW t \in Tables
  PROVE  /\ DOMAIN t \in SUBSET Events
         /\ \A e \in DOMAIN t : t[e] \in Rows
BY DEF Tables

LEMMA SoonerType ==
  ASSUME NEW r \in Rows
  PROVE  /\ Sooner(r) \in Rows
         /\ Sooner(r).status = r.status /\ Sooner(r).attempts = r.attempts
BY DEF Sooner, Rows

\* A row whose consumers succeeded or failed.
LEMMA FailedOrDeadType ==
  ASSUME NEW r \in Rows, r.status \in {"PENDING", "FAILED"}, TriesOK(r)
  PROVE  /\ FailedOrDead(r) \in Rows
         /\ FailedOrDead(r).status \in {"FAILED", "DEAD"}
         /\ TriesOK(FailedOrDead(r))
<1> DEFINE attempts == r.attempts + 1
           delay == Backoff[IF attempts <= Len(Backoff) THEN attempts ELSE Len(Backoff)]
<1>1. attempts \in Nat /\ attempts \in 1..MaxAttempts
  BY OutboxAssumption DEF Rows, TriesOK
<1>2. delay \in Nat
  BY <1>1, OutboxAssumption
<1>3. CASE attempts = MaxAttempts
  <2>1. FailedOrDead(r) = [r EXCEPT !.attempts = attempts, !.status = "DEAD"]
    BY <1>3, OutboxAssumption DEF FailedOrDead
  <2> HIDE DEF attempts
  <2>2. [r EXCEPT !.attempts = attempts, !.status = "DEAD"] \in Rows
    BY <1>1 DEF Rows, Statuses
  <2> QED
    BY <1>3, <2>1, <2>2, OutboxAssumption DEF TriesOK, Rows
<1>4. CASE attempts # MaxAttempts
  <2>1. FailedOrDead(r) = [r EXCEPT !.attempts = attempts, !.status = "FAILED", !.wait = delay]
    BY <1>1, <1>4, OutboxAssumption DEF FailedOrDead
  <2> HIDE DEF attempts, delay
  <2>2. [r EXCEPT !.attempts = attempts, !.status = "FAILED", !.wait = delay] \in Rows
    BY <1>1, <1>2 DEF Rows, Statuses
  <2> QED
    BY <1>1, <1>4, <2>1, <2>2, OutboxAssumption DEF TriesOK, Rows
<1> QED
  BY <1>3, <1>4

LEMMA OutcomeType ==
  ASSUME TypeOK, AttemptsOK, NEW e \in Events, NEW n \in 0..Len(Registry[e]),
         row[e].status \in {"PENDING", "FAILED"}
  PROVE  /\ Outcome(e, n) \in Rows
         /\ Outcome(e, n).status \in {"FAILED", "PUBLISHED", "DEAD"}
         /\ Outcome(e, n).status = "PUBLISHED" => n = Len(Registry[e])
         /\ TriesOK(Outcome(e, n))
<1>1. row[e] \in Rows /\ TriesOK(row[e])
  BY DEF TypeOK, AttemptsOK
<1>2. CASE n = Len(Registry[e])
  BY <1>1, <1>2 DEF Outcome, Published, Rows, Statuses, TriesOK
<1>3. CASE n # Len(Registry[e])
  BY <1>1, <1>3, FailedOrDeadType DEF Outcome
<1> QED
  BY <1>2, <1>3

LEMMA NewlyHandledType ==
  ASSUME NEW e \in Events, NEW n \in 0..Len(Registry[e])
  PROVE  /\ NewlyHandled(e, n) \in SUBSET Pairs
         /\ NewlyHandled(e, n) \cap consumed = {}
         /\ \A p \in NewlyHandled(e, n) : p[2] = e /\ p[1] \in ToSet(Registry[e])
         /\ n = Len(Registry[e]) =>
              \A k \in DOMAIN Registry[e] : <<Registry[e][k], e>> \in consumed \cup NewlyHandled(e, n)
<1>1. Registry[e] \in Seq(Consumers)
  BY OutboxAssumption
<1> QED
  BY <1>1 DEF NewlyHandled, Pairs, ToSet

\* The event that a relay dispatches is locked by it alone.
LEMMA DispatchedIsLocked ==
  ASSUME TypeOK, LocksOK, NEW w \in Relays, Dispatch(w)
  PROVE  /\ Current(w) \in Events /\ Current(w) \in Locked(w)
         /\ row[Current(w)].status \in {"PENDING", "FAILED"}
<1>1. Current(w) \in Events /\ Current(w) \in Locked(w)
  BY CurrentIsDue DEF Dispatch, Locked
<1> QED
  BY <1>1 DEF LocksOK

LEMMA InitIInv == Init => IInv
<1> SUFFICES ASSUME Init PROVE IInv
  OBVIOUS
<1>1. TypeOK
  BY IdleRelayType DEF Init, TypeOK, Absent, Rows, Statuses
<1>2. LocksOK /\ BatchOK /\ RegisteredOK /\ TasksOK /\ AppliedOnce
  BY DEF Init, IdleRelay, LocksOK, Locked, BatchOK, RegisteredOK, TasksOK, AppliedOnce
<1>3. AttemptsOK
  BY IdleRelayType, OutboxAssumption DEF Init, Absent, AttemptsOK, TriesOK
<1> QED
  BY <1>1, <1>2, <1>3 DEF IInv

LEMMA DispatchType ==
  ASSUME TypeOK, LocksOK, AttemptsOK, NEW w \in Relays, NEW n \in 0..Len(Registry[Current(w)]),
         Dispatch(w)
  PROVE  [x \in DOMAIN relay[w].rows \cup {Current(w)} |->
            IF x = Current(w) THEN Outcome(Current(w), n) ELSE relay[w].rows[x]] \in Tables
<1> DEFINE e == Current(w)
           D == DOMAIN relay[w].rows
<1>1. e \in Events /\ Outcome(e, n) \in Rows
  BY DispatchedIsLocked, OutcomeType
<1>2. D \in SUBSET Events /\ \A x \in D : relay[w].rows[x] \in Rows
  BY TableOfType DEF TypeOK, RelayStates
<1>3. [x \in D \cup {e} |-> IF x = e THEN Outcome(e, n) ELSE relay[w].rows[x]]
        \in [D \cup {e} -> Rows]
  BY <1>1, <1>2
<1>4. D \cup {e} \in SUBSET Events
  BY <1>1, <1>2
<1> QED
  BY <1>3, <1>4 DEF Tables

LEMMA NextTypeOK ==
  ASSUME TypeOK, LocksOK, RegisteredOK, TasksOK, AttemptsOK, [Next]_vars
  PROVE  TypeOK'
<1> USE DEF TypeOK
<1>1. CASE Tick
  <2>1. row' \in [Events -> Rows]
    BY <1>1, SoonerType DEF Tick
  <2>2. ASSUME NEW w \in Relays
        PROVE  [relay[w] EXCEPT !.rows = [e \in DOMAIN relay[w].rows |-> Sooner(relay[w].rows[e])]]
                 \in RelayStates
    <3> DEFINE D == DOMAIN relay[w].rows
    <3>1. D \in SUBSET Events /\ \A e \in D : relay[w].rows[e] \in Rows
      BY TableOfType DEF RelayStates
    <3>2. [e \in D |-> Sooner(relay[w].rows[e])] \in [D -> Rows]
      BY <3>1, SoonerType
    <3>3. [e \in D |-> Sooner(relay[w].rows[e])] \in Tables
      BY <3>1, <3>2 DEF Tables
    <3> QED
      BY <3>3 DEF RelayStates
  <2>3. relay' \in [Relays -> RelayStates]
    BY <1>1, <2>2 DEF Tick
  <2> QED
    BY <1>1, <2>1, <2>3 DEF Tick
<1>2. ASSUME NEW e \in Events, Publish(e) \/ Purge(e) PROVE TypeOK'
  BY <1>2 DEF Publish, Purge, Rows, Statuses
<1>3. ASSUME NEW w \in Relays, Select(w) PROVE TypeOK'
  BY <1>3 DEF Select, RelayStates, Batch, Available
<1>4. ASSUME NEW w \in Relays, Dispatch(w) PROVE TypeOK'
  <2> DEFINE e == Current(w)
  <2>1. e \in Events
    BY <1>4, DispatchedIsLocked
  <2>2. PICK n \in 0..Len(Registry[e]) : relay' = [relay EXCEPT ![w] =
             [@ EXCEPT !.todo = relay[w].todo \ {e},
                       !.rows = [x \in DOMAIN relay[w].rows \cup {e} |->
                                   IF x = e THEN Outcome(e, n) ELSE relay[w].rows[x]],
                       !.handled = relay[w].handled \cup NewlyHandled(e, n),
                       !.callbacks = relay[w].callbacks \cup NewlyHandled(e, n)]]
    BY <1>4 DEF Dispatch
  <2> DEFINE t == [x \in DOMAIN relay[w].rows \cup {e} |->
                     IF x = e THEN Outcome(e, n) ELSE relay[w].rows[x]]
  <2>3. t \in Tables
    BY <1>4, DispatchType
  <2> HIDE DEF t
  <2>4. [relay[w] EXCEPT !.todo = relay[w].todo \ {e}, !.rows = t,
                         !.handled = relay[w].handled \cup NewlyHandled(e, n),
                         !.callbacks = relay[w].callbacks \cup NewlyHandled(e, n)] \in RelayStates
    <3>1. NewlyHandled(e, n) \in SUBSET Pairs
      BY <2>1, NewlyHandledType
    <3> QED
      BY <2>3, <3>1 DEF RelayStates
  <2>5. relay' \in [Relays -> RelayStates]
    BY <2>2, <2>4 DEF t
  <2> QED
    BY <1>4, <2>5 DEF Dispatch
<1>5. ASSUME NEW w \in Relays, Commit(w) PROVE TypeOK'
  <2>1. row' \in [Events -> Rows]
    BY <1>5, TableOfType DEF Commit, RelayStates
  <2>2. consumed' \in SUBSET Pairs /\ applied' \in [Pairs -> Nat]
    BY <1>5 DEF Commit, RelayStates
  <2>3. [IdleRelay EXCEPT !.pc = "callbacks", !.callbacks = relay[w].callbacks] \in RelayStates
    BY IdleRelayType DEF RelayStates
  <2>4. relay' \in [Relays -> RelayStates]
    BY <1>5, <2>3, IdleRelayType DEF Commit
  <2> QED
    BY <1>5, <2>1, <2>2, <2>4 DEF Commit
<1>6. ASSUME NEW w \in Relays, RunCallback(w) PROVE TypeOK'
  <2>1. NextTask(w) \in Pairs
    BY <1>6, NextTaskIsDeferred DEF RunCallback, CallbackReady, TasksOK
  <2>2. queued' \in [Pairs -> Nat]
    BY <1>6, <2>1 DEF RunCallback
  <2>3. [relay[w] EXCEPT !.callbacks = relay[w].callbacks \ {NextTask(w)}] \in RelayStates
    BY DEF RelayStates
  <2>4. relay' \in [Relays -> RelayStates]
    BY <1>6, <2>3, IdleRelayType DEF RunCallback
  <2> QED
    BY <1>6, <2>2, <2>4 DEF RunCallback
<1>7. ASSUME NEW w \in Relays, Crash(w) PROVE TypeOK'
  BY <1>7, IdleRelayType DEF Crash
<1>8. CASE UNCHANGED vars
  BY <1>8 DEF vars
<1> QED
  BY <1>1, <1>2, <1>3, <1>4, <1>5, <1>6, <1>7, <1>8 DEF Next

-----------------------------------------------------------------------------
(* Locks. *)

LEMMA NextLocksOK ==
  ASSUME TypeOK, LocksOK, TasksOK, [Next]_vars
  PROVE  LocksOK'
<1>1. ASSUME NEW v \in Relays, relay'[v] = relay[v] PROVE Locked(v)' = Locked(v)
  BY <1>1 DEF Locked
<1>2. CASE Tick
  <2>1. \A e \in Events : row'[e].status = row[e].status
    BY <1>2, SoonerType DEF Tick, TypeOK
  <2>2. ASSUME NEW v \in Relays PROVE Locked(v)' = Locked(v)
    BY <1>2 DEF Tick, Locked, TypeOK, RelayStates
  <2>3. ASSUME NEW v \in Relays PROVE Locked(v) \subseteq Events
    BY TableOfType DEF Locked, TypeOK, RelayStates
  <2> QED
    BY <2>1, <2>2, <2>3 DEF LocksOK
<1>3. ASSUME NEW e \in Events, Publish(e) \/ Purge(e) PROVE LocksOK'
  <2>1. \A v \in Relays : Locked(v)' = Locked(v) /\ e \notin Locked(v)
    BY <1>1, <1>3 DEF Publish, Purge, LocksOK
  <2>2. \A x \in Events \ {e} : row'[x] = row[x]
    BY <1>3 DEF Publish, Purge, TypeOK
  <2>3. ASSUME NEW v \in Relays PROVE Locked(v) \subseteq Events
    BY TableOfType DEF Locked, TypeOK, RelayStates
  <2> QED
    BY <2>1, <2>2, <2>3 DEF LocksOK
<1>4. ASSUME NEW w \in Relays, Select(w) PROVE LocksOK'
  <2>1. Locked(w)' \subseteq Available
    BY <1>4, IdleRelayType DEF Select, Locked, Batch, TypeOK, RelayStates
  <2>2. \A v \in Relays \ {w} : Locked(v)' = Locked(v)
    BY <1>1, <1>4 DEF Select, TypeOK
  <2>3. UNCHANGED row
    BY <1>4 DEF Select
  <2> QED
    BY <2>1, <2>2, <2>3 DEF LocksOK, Available
<1>5. ASSUME NEW w \in Relays, Dispatch(w) PROVE LocksOK'
  <2>1. Current(w) \in relay[w].todo
    BY <1>5, CurrentIsDue DEF Dispatch
  <2>2. Locked(w)' = Locked(w)
    BY <1>5, <2>1 DEF Dispatch, Locked, TypeOK, RelayStates
  <2>3. \A v \in Relays \ {w} : Locked(v)' = Locked(v)
    BY <1>1, <1>5 DEF Dispatch, TypeOK
  <2> QED
    BY <1>5, <2>2, <2>3 DEF LocksOK, Dispatch
<1>6. ASSUME NEW w \in Relays, Commit(w) PROVE LocksOK'
  <2>1. Locked(w)' = {}
    BY <1>6 DEF Commit, Locked, IdleRelay, TypeOK
  <2>2. \A v \in Relays \ {w} : Locked(v)' = Locked(v)
    BY <1>1, <1>6 DEF Commit, TypeOK
  <2>3. \A e \in Events \ Locked(w) : row'[e] = row[e]
    BY <1>6 DEF Commit, Locked
  <2>4. ASSUME NEW v \in Relays PROVE Locked(v) \subseteq Events
    BY TableOfType DEF Locked, TypeOK, RelayStates
  <2> QED
    BY <2>1, <2>2, <2>3, <2>4 DEF LocksOK
<1>7. ASSUME NEW w \in Relays, RunCallback(w) \/ Crash(w) PROVE LocksOK'
  <2>1. Locked(w)' = {}
    BY <1>7 DEF RunCallback, CallbackReady, Crash, Locked, IdleRelay, TypeOK, RelayStates
  <2>2. \A v \in Relays \ {w} : Locked(v)' = Locked(v)
    BY <1>1, <1>7 DEF RunCallback, Crash, TypeOK
  <2> QED
    BY <1>7, <2>1, <2>2 DEF LocksOK, RunCallback, Crash
<1>8. CASE UNCHANGED vars
  BY <1>1, <1>8 DEF vars, LocksOK
<1> QED
  BY <1>2, <1>3, <1>4, <1>5, <1>6, <1>7, <1>8 DEF Next

-----------------------------------------------------------------------------
(* What a relay does in its transaction. *)

LEMMA NextAttemptsOK ==
  ASSUME TypeOK, LocksOK, AttemptsOK, [Next]_vars
  PROVE  AttemptsOK'
<1>1. ASSUME NEW v \in Relays, relay'[v] = relay[v]
      PROVE  \A e \in DOMAIN relay'[v].rows : TriesOK(relay'[v].rows[e])
  BY <1>1 DEF AttemptsOK
<1>2. CASE Tick
  <2>1. ASSUME NEW e \in Events PROVE TriesOK(row'[e])
    BY <1>2, SoonerType DEF Tick, TypeOK, AttemptsOK, TriesOK
  <2>2. ASSUME NEW v \in Relays, NEW e \in DOMAIN relay'[v].rows
        PROVE  TriesOK(relay'[v].rows[e])
    <3>1. /\ e \in DOMAIN relay[v].rows
          /\ relay'[v].rows[e] = Sooner(relay[v].rows[e])
      BY <1>2, <2>2 DEF Tick, TypeOK, RelayStates
    <3>2. relay[v].rows[e] \in Rows
      BY <3>1, TableOfType DEF TypeOK, RelayStates
    <3> QED
      BY <3>1, <3>2, SoonerType DEF AttemptsOK, TriesOK
  <2> QED
    BY <2>1, <2>2 DEF AttemptsOK
<1>3. ASSUME NEW e \in Events, Publish(e) \/ Purge(e) PROVE AttemptsOK'
  <2>1. \A x \in Events : TriesOK(row'[x])
    BY <1>3 DEF Publish, Purge, AttemptsOK, TriesOK, TypeOK, Rows
  <2>2. UNCHANGED relay
    BY <1>3 DEF Publish, Purge
  <2> QED
    BY <1>1, <2>1, <2>2 DEF AttemptsOK
<1>4. ASSUME NEW w \in Relays, Select(w) \/ RunCallback(w) \/ Crash(w) PROVE AttemptsOK'
  <2>1. DOMAIN relay'[w].rows = {} \/ relay'[w].rows = relay[w].rows
    BY <1>4, IdleRelayType DEF Select, RunCallback, Crash, TypeOK, RelayStates
  <2>2. \A v \in Relays \ {w} : relay'[v] = relay[v]
    BY <1>4 DEF Select, RunCallback, Crash, TypeOK
  <2>3. UNCHANGED row
    BY <1>4 DEF Select, RunCallback, Crash
  <2> QED
    BY <1>1, <2>1, <2>2, <2>3 DEF AttemptsOK
<1>5. ASSUME NEW w \in Relays, Dispatch(w) PROVE AttemptsOK'
  <2> DEFINE e == Current(w)
  <2>1. PICK n \in 0..Len(Registry[e]) : relay'[w].rows =
            [x \in DOMAIN relay[w].rows \cup {e} |->
               IF x = e THEN Outcome(e, n) ELSE relay[w].rows[x]]
    BY <1>5 DEF Dispatch, TypeOK, RelayStates
  <2>2. TriesOK(Outcome(e, n))
    BY <1>5, DispatchedIsLocked, OutcomeType
  <2>3. \A x \in DOMAIN relay'[w].rows : TriesOK(relay'[w].rows[x])
    BY <2>1, <2>2 DEF AttemptsOK
  <2>4. \A v \in Relays \ {w} : relay'[v] = relay[v]
    BY <1>5 DEF Dispatch, TypeOK
  <2>5. UNCHANGED row
    BY <1>5 DEF Dispatch
  <2> QED
    BY <1>1, <2>3, <2>4, <2>5 DEF AttemptsOK
<1>6. ASSUME NEW w \in Relays, Commit(w) PROVE AttemptsOK'
  <2>1. \A e \in Events : row'[e] \in {row[e], relay[w].rows[e]}
                          /\ (row'[e] # row[e] => e \in DOMAIN relay[w].rows)
    BY <1>6 DEF Commit
  <2>2. DOMAIN relay'[w].rows = {}
    BY <1>6, IdleRelayType DEF Commit, TypeOK, RelayStates
  <2>3. \A v \in Relays \ {w} : relay'[v] = relay[v]
    BY <1>6 DEF Commit, TypeOK
  <2> QED
    BY <1>1, <2>1, <2>2, <2>3 DEF AttemptsOK
<1>7. CASE UNCHANGED vars
  BY <1>7 DEF vars, AttemptsOK
<1> QED
  BY <1>2, <1>3, <1>4, <1>5, <1>6, <1>7 DEF Next

LEMMA NextBatchOK ==
  ASSUME TypeOK, LocksOK, BatchOK, AttemptsOK, [Next]_vars
  PROVE  BatchOK'
<1> DEFINE Fine(w) == relay[w].pc = "batch" =>
      /\ relay[w].callbacks = relay[w].handled
      /\ relay[w].handled \cap consumed = {}
      /\ \A p \in relay[w].handled : p[2] \in DOMAIN relay[w].rows
      /\ \A e \in DOMAIN relay[w].rows :
           /\ relay[w].rows[e].status \in {"FAILED", "PUBLISHED", "DEAD"}
           /\ relay[w].rows[e].status = "PUBLISHED" =>
                \A k \in DOMAIN Registry[e] :
                  <<Registry[e][k], e>> \in consumed \cup relay[w].handled
<1>1. ASSUME NEW v \in Relays, relay'[v] = relay[v], UNCHANGED consumed PROVE Fine(v)'
  BY <1>1 DEF BatchOK
<1>2. CASE Tick
  <2> SUFFICES ASSUME NEW v \in Relays PROVE Fine(v)'
    BY DEF BatchOK
  <2>1. /\ relay'[v].pc = relay[v].pc
        /\ relay'[v].handled = relay[v].handled
        /\ relay'[v].callbacks = relay[v].callbacks
        /\ DOMAIN relay'[v].rows = DOMAIN relay[v].rows
        /\ \A e \in DOMAIN relay[v].rows : relay'[v].rows[e] = Sooner(relay[v].rows[e])
    BY <1>2 DEF Tick, TypeOK, RelayStates
  <2>2. \A e \in DOMAIN relay[v].rows : relay'[v].rows[e].status = relay[v].rows[e].status
    BY <2>1, TableOfType, SoonerType DEF TypeOK, RelayStates
  <2>3. UNCHANGED consumed
    BY <1>2 DEF Tick
  <2> QED
    BY <2>1, <2>2, <2>3 DEF BatchOK
<1>3. ASSUME NEW e \in Events, Publish(e) \/ Purge(e) PROVE BatchOK'
  BY <1>1, <1>3 DEF Publish, Purge, BatchOK
<1>4. ASSUME NEW w \in Relays, Select(w) PROVE BatchOK'
  <2>1. /\ relay'[w].handled = {} /\ relay'[w].callbacks = {}
        /\ DOMAIN relay'[w].rows = {}
    BY <1>4, IdleRelayType DEF Select, IdleRelay, TypeOK
  <2>2. \A v \in Relays \ {w} : relay'[v] = relay[v]
    BY <1>4 DEF Select, TypeOK
  <2>3. UNCHANGED consumed
    BY <1>4 DEF Select
  <2>4. Fine(w)'
    BY <2>1
  <2> QED
    BY <1>1, <2>2, <2>3, <2>4 DEF BatchOK
<1>5. ASSUME NEW w \in Relays, Dispatch(w) PROVE BatchOK'
  <2> DEFINE e == Current(w)
             D == DOMAIN relay[w].rows
  <2>1. PICK n \in 0..Len(Registry[e]) :
          /\ relay'[w].pc = "batch"
          /\ relay'[w].rows = [x \in D \cup {e} |-> IF x = e THEN Outcome(e, n) ELSE relay[w].rows[x]]
          /\ relay'[w].handled = relay[w].handled \cup NewlyHandled(e, n)
          /\ relay'[w].callbacks = relay[w].callbacks \cup NewlyHandled(e, n)
    BY <1>5 DEF Dispatch, TypeOK, RelayStates
  <2>2. /\ Outcome(e, n).status \in {"FAILED", "PUBLISHED", "DEAD"}
        /\ Outcome(e, n).status = "PUBLISHED" => n = Len(Registry[e])
    BY <1>5, DispatchedIsLocked, OutcomeType
  <2>3. /\ NewlyHandled(e, n) \cap consumed = {}
        /\ \A p \in NewlyHandled(e, n) : p[2] = e
        /\ n = Len(Registry[e]) =>
             \A k \in DOMAIN Registry[e] : <<Registry[e][k], e>> \in consumed \cup NewlyHandled(e, n)
    BY <1>5, DispatchedIsLocked, NewlyHandledType
  <2>4. UNCHANGED consumed /\ relay[w].pc = "batch"
    BY <1>5 DEF Dispatch
  <2>5. Fine(w)
    BY DEF BatchOK
  <2>6. Fine(w)'
    BY <2>1, <2>2, <2>3, <2>4, <2>5
  <2>7. \A v \in Relays \ {w} : relay'[v] = relay[v]
    BY <1>5 DEF Dispatch, TypeOK
  <2> QED
    BY <1>1, <2>4, <2>6, <2>7 DEF BatchOK
<1>6. ASSUME NEW w \in Relays, Commit(w) PROVE BatchOK'
  <2>1. relay'[w].pc # "batch"
    BY <1>6 DEF Commit, IdleRelay, TypeOK
  <2>2. ASSUME NEW v \in Relays \ {w}, relay[v].pc = "batch"
        PROVE  /\ relay'[v] = relay[v]
               /\ relay[v].handled \cap relay[w].handled = {}
    <3>1. relay'[v] = relay[v]
      BY <1>6 DEF Commit, TypeOK
    <3>2. /\ \A p \in relay[v].handled : p[2] \in Locked(v)
          /\ \A p \in relay[w].handled : p[2] \in Locked(w)
      BY <1>6, <2>2 DEF BatchOK, Locked, Commit
    <3> QED
      BY <3>1, <3>2 DEF LocksOK
  <2>3. consumed' = consumed \cup relay[w].handled
    BY <1>6 DEF Commit
  <2>4. \A v \in Relays \ {w} : relay'[v] = relay[v]
    BY <1>6 DEF Commit, TypeOK
  <2>5. ASSUME NEW v \in Relays \ {w} PROVE Fine(v)'
    <3>1. CASE relay[v].pc = "batch"
      BY <2>2, <2>3, <3>1 DEF BatchOK
    <3>2. CASE relay[v].pc # "batch"
      BY <2>4, <3>2
    <3> QED
      BY <3>1, <3>2
  <2> QED
    BY <2>1, <2>5 DEF BatchOK
<1>7. ASSUME NEW w \in Relays, RunCallback(w) \/ Crash(w) PROVE BatchOK'
  <2>1. relay'[w].pc # "batch"
    BY <1>7 DEF RunCallback, CallbackReady, Crash, IdleRelay, TypeOK, RelayStates
  <2>2. \A v \in Relays \ {w} : relay'[v] = relay[v]
    BY <1>7 DEF RunCallback, Crash, TypeOK
  <2>3. UNCHANGED consumed
    BY <1>7 DEF RunCallback, Crash
  <2> QED
    BY <1>1, <2>1, <2>2, <2>3 DEF BatchOK
<1>8. CASE UNCHANGED vars
  BY <1>1, <1>8 DEF vars, BatchOK
<1> QED
  BY <1>2, <1>3, <1>4, <1>5, <1>6, <1>7, <1>8 DEF Next

LEMMA NextRegisteredOK ==
  ASSUME TypeOK, LocksOK, BatchOK, RegisteredOK, [Next]_vars
  PROVE  RegisteredOK'
<1> DEFINE Fine(w) == /\ \A p \in relay[w].callbacks : p[1] \in ToSet(Registry[p[2]])
                      /\ relay[w].pc = "idle" => relay[w].callbacks = {}
<1>1. ASSUME NEW v \in Relays, relay'[v] = relay[v] PROVE Fine(v)'
  BY <1>1 DEF RegisteredOK
<1>2. CASE Tick
  <2>1. \A v \in Relays : relay'[v].callbacks = relay[v].callbacks /\ relay'[v].pc = relay[v].pc
    BY <1>2 DEF Tick, TypeOK, RelayStates
  <2> QED
    BY <1>2, <2>1 DEF Tick, RegisteredOK
<1>3. ASSUME NEW w \in Relays, Select(w) \/ RunCallback(w) \/ Crash(w) PROVE RegisteredOK'
  <2>1. /\ relay'[w].callbacks \subseteq relay[w].callbacks
        /\ relay'[w].pc = "idle" => relay'[w].callbacks = {}
    BY <1>3 DEF Select, RunCallback, CallbackReady, Crash, IdleRelay, TypeOK, RelayStates
  <2>2. \A v \in Relays \ {w} : relay'[v] = relay[v]
    BY <1>3 DEF Select, RunCallback, Crash, TypeOK
  <2>3. UNCHANGED consumed
    BY <1>3 DEF Select, RunCallback, Crash
  <2> QED
    BY <1>1, <2>1, <2>2, <2>3 DEF RegisteredOK
<1>4. ASSUME NEW w \in Relays, Dispatch(w) PROVE RegisteredOK'
  <2> DEFINE e == Current(w)
  <2>1. PICK n \in 0..Len(Registry[e]) :
          /\ relay'[w].pc = "batch"
          /\ relay'[w].callbacks = relay[w].callbacks \cup NewlyHandled(e, n)
    BY <1>4 DEF Dispatch, TypeOK, RelayStates
  <2>2. \A p \in NewlyHandled(e, n) : p[1] \in ToSet(Registry[p[2]])
    BY <1>4, DispatchedIsLocked, NewlyHandledType
  <2>3. Fine(w)'
    BY <2>1, <2>2 DEF RegisteredOK
  <2>4. \A v \in Relays \ {w} : relay'[v] = relay[v]
    BY <1>4 DEF Dispatch, TypeOK
  <2>5. UNCHANGED consumed
    BY <1>4 DEF Dispatch
  <2> QED
    BY <1>1, <2>3, <2>4, <2>5 DEF RegisteredOK
<1>5. ASSUME NEW w \in Relays, Commit(w) PROVE RegisteredOK'
  <2>1. /\ relay'[w].callbacks = relay[w].callbacks
        /\ relay'[w].pc = "idle" => relay'[w].callbacks = {}
    BY <1>5 DEF Commit, IdleRelay, TypeOK
  <2>2. \A v \in Relays \ {w} : relay'[v] = relay[v]
    BY <1>5 DEF Commit, TypeOK
  <2>3. consumed' = consumed \cup relay[w].callbacks
    BY <1>5 DEF Commit, BatchOK
  <2> QED
    BY <1>1, <2>1, <2>2, <2>3 DEF RegisteredOK
<1>6. CASE UNCHANGED <<relay, consumed>>
  BY <1>6 DEF RegisteredOK
<1> QED
  BY <1>2, <1>3, <1>4, <1>5, <1>6 DEF Next, vars, Publish, Purge

\* A task that is queued, or waits to be, is that of a committed effect.
LEMMA NextTasksOK ==
  ASSUME TypeOK, BatchOK, RegisteredOK, TasksOK, AppliedOnce, [Next]_vars
  PROVE  TasksOK' /\ AppliedOnce'
<1>1. ASSUME NEW w \in Relays, Commit(w) PROVE TasksOK' /\ AppliedOnce'
  <2> DEFINE H == relay[w].handled
  <2>1. /\ H \in SUBSET Pairs /\ H \cap consumed = {}
        /\ relay[w].callbacks = H
    BY <1>1 DEF Commit, BatchOK, TypeOK, RelayStates
  <2>2. /\ consumed' = consumed \cup H
        /\ \A p \in Pairs : applied'[p] = applied[p] + IF p \in H THEN 1 ELSE 0
        /\ UNCHANGED queued
    BY <1>1 DEF Commit
  <2>3. \A p \in H : applied[p] = 0 /\ queued[p] = 0
    BY <2>1 DEF AppliedOnce, TypeOK
  <2>4. AppliedOnce'
    <3> SUFFICES ASSUME NEW p \in Pairs
                 PROVE  /\ applied'[p] = IF p \in consumed' THEN 1 ELSE 0
                        /\ queued'[p] <= applied'[p]
      BY DEF AppliedOnce
    <3>1. CASE p \in H
      BY <2>2, <2>3, <3>1
    <3>2. CASE p \notin H
      BY <2>2, <3>2 DEF AppliedOnce, TypeOK
    <3> QED
      BY <3>1, <3>2
  <2>5. \A v \in Relays \ {w} : relay'[v] = relay[v]
    BY <1>1 DEF Commit, TypeOK
  <2>6. relay'[w].pc = "callbacks" => relay'[w].callbacks = H /\ H # {}
    BY <1>1, <2>1 DEF Commit, IdleRelay, TypeOK
  <2>7. \A v \in Relays \ {w} : relay[v].pc = "callbacks" => relay[v].callbacks \cap H = {}
    BY <2>1 DEF TasksOK
  <2>8. TasksOK'
    BY <2>2, <2>3, <2>5, <2>6, <2>7 DEF TasksOK
  <2> QED
    BY <2>4, <2>8
<1>2. ASSUME NEW w \in Relays, RunCallback(w) PROVE TasksOK' /\ AppliedOnce'
  <2> DEFINE p == NextTask(w)
  <2>1. relay[w].pc = "callbacks"
    BY <1>2 DEF RunCallback, CallbackReady
  <2>2. p \in relay[w].callbacks /\ p \in Pairs
    BY <2>1, NextTaskIsDeferred DEF TasksOK
  <2>3. queued[p] = 0 /\ applied[p] = 1
    BY <2>1, <2>2 DEF TasksOK, AppliedOnce
  <2>4. /\ queued'[p] = 1
        /\ \A q \in Pairs \ {p} : queued'[q] = queued[q]
        /\ UNCHANGED <<consumed, applied>>
    BY <1>2, <2>2, <2>3 DEF RunCallback, TypeOK
  <2>5. AppliedOnce'
    BY <2>3, <2>4 DEF AppliedOnce
  <2>6. \A v \in Relays \ {w} : relay'[v] = relay[v]
    BY <1>2 DEF RunCallback, TypeOK
  <2>7. relay'[w].pc = "callbacks" => /\ relay'[w].callbacks = relay[w].callbacks \ {p}
                                      /\ relay'[w].callbacks # {}
    BY <1>2, <2>1, <2>2 DEF RunCallback, IdleRelay, TypeOK, RelayStates
  <2>8. \A v \in Relays : relay[v].callbacks \subseteq Pairs
    BY DEF TypeOK, RelayStates
  <2>9. TasksOK'
    BY <2>1, <2>2, <2>4, <2>6, <2>7, <2>8 DEF TasksOK
  <2> QED
    BY <2>5, <2>9
<1>3. ASSUME NEW w \in Relays, Select(w) \/ Dispatch(w) \/ Crash(w) PROVE TasksOK' /\ AppliedOnce'
  <2>1. relay'[w].pc # "callbacks"
    <3>1. CASE Select(w)
      BY <3>1 DEF Select, IdleRelay, TypeOK, RelayStates
    <3>2. CASE Dispatch(w)
      BY <3>2 DEF Dispatch, TypeOK, RelayStates
    <3>3. CASE Crash(w)
      BY <3>3 DEF Crash, IdleRelay, TypeOK
    <3> QED
      BY <1>3, <3>1, <3>2, <3>3
  <2>2. \A v \in Relays \ {w} : relay'[v] = relay[v]
    BY <1>3 DEF Select, Dispatch, Crash, TypeOK
  <2>3. UNCHANGED <<consumed, applied, queued>>
    BY <1>3 DEF Select, Dispatch, Crash
  <2> QED
    BY <2>1, <2>2, <2>3 DEF TasksOK, AppliedOnce
<1>4. CASE Tick
  <2>1. \A v \in Relays : relay'[v].callbacks = relay[v].callbacks /\ relay'[v].pc = relay[v].pc
    BY <1>4 DEF Tick, TypeOK, RelayStates
  <2>2. UNCHANGED <<consumed, applied, queued>>
    BY <1>4 DEF Tick
  <2> QED
    BY <2>1, <2>2 DEF TasksOK, AppliedOnce
<1>5. CASE UNCHANGED <<consumed, applied, queued, relay>>
  BY <1>5 DEF TasksOK, AppliedOnce
<1> QED
  BY <1>1, <1>2, <1>3, <1>4, <1>5 DEF Next, vars, Publish, Purge

LEMMA NextIInv == IInv /\ [Next]_vars => IInv'
BY NextTypeOK, NextLocksOK, NextBatchOK, NextRegisteredOK, NextTasksOK, NextAttemptsOK DEF IInv

LEMMA SpecIInv == Spec => []IInv
BY InitIInv, NextIInv, PTL DEF Spec

-----------------------------------------------------------------------------
(* What holds in every behaviour. *)

\* Every variable stays in its type.
THEOREM OutboxTypeOK == Spec => []TypeOK
<1>1. IInv => TypeOK
  BY DEF IInv
<1> QED
  BY <1>1, SpecIInv, PTL

\* However many relays run, fail or crash, a consumer's effect is committed once
\* per event at most and its deferred task is queued once at most, after it.
THEOREM EffectsAppliedOnce == Spec => []AppliedOnce
<1>1. IInv => AppliedOnce
  BY DEF IInv
<1> QED
  BY <1>1, SpecIInv, PTL

\* models.py: "Retries are never infinite": no event is tried more than
\* OUTBOX_MAX_ATTEMPTS times, and exactly those tried so often are DEAD.
THEOREM RetriesEnd == Spec => [](\A e \in Events : TriesOK(row[e]))
<1>1. IInv => \A e \in Events : TriesOK(row[e])
  BY DEF IInv, AttemptsOK
<1> QED
  BY <1>1, SpecIInv, PTL

-----------------------------------------------------------------------------
(* The outbox implements OutboxPromise. *)

LEMMA PromiseInit == Init => Promise!Init
BY DEF Init, Absent, OutcomeOf, Promise!Init

LEMMA SameOutcomes ==
  ASSUME \A e \in Events : OutcomeOf(row'[e]) = OutcomeOf(row[e]), UNCHANGED consumed
  PROVE  UNCHANGED Promise!vars
<1>1. [e \in Events |-> OutcomeOf(row'[e])] = [e \in Events |-> OutcomeOf(row[e])]
  OBVIOUS
<1> QED
  BY <1>1 DEF Promise!vars

\* Publishing an event is accepting it.
LEMMA PublishAccepts ==
  ASSUME TypeOK, NEW e \in Events, Publish(e)
  PROVE  Promise!Accept(e)
<1> DEFINE out == [x \in Events |-> OutcomeOf(row[x])]
<1>1. out[e] = "absent"
  BY DEF Publish, OutcomeOf
<1>2. out' = [out EXCEPT ![e] = "waiting"]
  <2>1. OutcomeOf(row'[e]) = "waiting"
    BY DEF Publish, OutcomeOf, TypeOK, Rows
  <2>2. \A x \in Events \ {e} : row'[x] = row[x]
    BY DEF Publish, TypeOK
  <2> QED
    BY <2>1, <2>2
<1> QED
  BY <1>1, <1>2 DEF Promise!Accept, Publish

\* Committing a batch is progress on its events.
LEMMA CommitProgresses ==
  ASSUME TypeOK, LocksOK, BatchOK, RegisteredOK, NEW w \in Relays, Commit(w)
  PROVE  Promise!Progress(DOMAIN relay[w].rows)
<1> DEFINE B == DOMAIN relay[w].rows
           H == relay[w].handled
           out == [e \in Events |-> OutcomeOf(row[e])]
           Audience == [e \in Events |-> ToSet(Registry[e])]
<1>1. B \in SUBSET Events
  BY TableOfType DEF TypeOK, RelayStates
<1>2. relay[w].pc = "batch" /\ B \subseteq Locked(w)
  BY DEF Commit, Locked
<1>3. \A e \in B : out[e] = "waiting"
  BY <1>1, <1>2 DEF LocksOK, OutcomeOf
<1>4. \A e \in Events : row'[e] = IF e \in B THEN relay[w].rows[e] ELSE row[e]
  BY DEF Commit
<1>5. out' \in [Events -> Promise!Outcomes]
  <2>1. \A e \in Events : row'[e].status \in Statuses
    BY <1>4, TableOfType DEF TypeOK, RelayStates, Rows
  <2> QED
    BY <2>1 DEF Statuses, OutcomeOf, Promise!Outcomes
<1>6. \A e \in Events \ B : out'[e] = out[e]
  BY <1>4
<1>7. \A e \in B : /\ row'[e].status \in {"FAILED", "PUBLISHED", "DEAD"}
                   /\ row'[e].status = "PUBLISHED" =>
                        \A k \in DOMAIN Registry[e] : <<Registry[e][k], e>> \in consumed \cup H
  BY <1>1, <1>2, <1>4 DEF BatchOK
<1>8. \A e \in B : out'[e] \in {"waiting", "delivered", "abandoned"}
  BY <1>1, <1>7 DEF OutcomeOf
<1>9. consumed' = consumed \cup H
  BY DEF Commit
<1>10. \A p \in consumed' \ consumed : p \in Consumers \X B /\ p[1] \in Audience[p[2]]
  <2> SUFFICES ASSUME NEW p \in H PROVE p \in Consumers \X B /\ p[1] \in Audience[p[2]]
    BY <1>9
  <2>1. p \in Pairs /\ p[2] \in B
    BY <1>2 DEF TypeOK, RelayStates, BatchOK
  <2>2. p[1] \in ToSet(Registry[p[2]])
    BY <1>2 DEF BatchOK, RegisteredOK
  <2> QED
    BY <1>1, <2>1, <2>2 DEF Pairs
<1>11. ASSUME NEW e \in B, out'[e] = "delivered" PROVE Audience[e] \X {e} \subseteq consumed'
  <2>1. row'[e].status = "PUBLISHED"
    BY <1>1, <1>7, <1>11 DEF OutcomeOf
  <2>2. \A c \in ToSet(Registry[e]) : <<c, e>> \in consumed'
    BY <1>7, <1>9, <2>1 DEF ToSet
  <2> QED
    BY <1>1, <2>2
<1> QED
  BY <1>3, <1>5, <1>6, <1>8, <1>9, <1>10, <1>11 DEF Promise!Progress

LEMMA PromiseNext == IInv /\ [Next]_vars => [Promise!Next]_(Promise!vars)
<1> SUFFICES ASSUME IInv, [Next]_vars PROVE [Promise!Next]_(Promise!vars)
  OBVIOUS
<1> USE DEF IInv
<1>1. CASE Tick
  <2>1. \A e \in Events : OutcomeOf(row'[e]) = OutcomeOf(row[e])
    BY <1>1, SoonerType DEF Tick, TypeOK, OutcomeOf
  <2> QED
    BY <1>1, <2>1, SameOutcomes DEF Tick
<1>2. ASSUME NEW e \in Events, Publish(e) PROVE Promise!Next
  BY <1>2, PublishAccepts DEF Promise!Next
<1>3. ASSUME NEW e \in Events, Purge(e) PROVE UNCHANGED Promise!vars
  <2>1. \A x \in Events : OutcomeOf(row'[x]) = OutcomeOf(row[x])
    BY <1>3 DEF Purge, TypeOK, Rows, OutcomeOf
  <2> QED
    BY <1>3, <2>1, SameOutcomes DEF Purge
<1>4. ASSUME NEW w \in Relays, Commit(w) PROVE Promise!Next
  <2>1. DOMAIN relay[w].rows \in SUBSET Events
    BY TableOfType DEF TypeOK, RelayStates
  <2> QED
    BY <1>4, <2>1, CommitProgresses DEF Promise!Next
<1>5. CASE UNCHANGED <<row, consumed>>
  BY <1>5, SameOutcomes
<1> QED
  BY <1>1, <1>2, <1>3, <1>4, <1>5 DEF Next, vars, Select, Dispatch, RunCallback, Crash

\* The relays, their locks, retries and crashes are invisible to the contexts that
\* publish: whatever they do is an acceptance, progress on a batch, or nothing.
THEOREM OutboxKeepsPromise == Spec => KeepsPromise
BY SpecIInv, PromiseInit, PromiseNext, PTL DEF Spec, KeepsPromise, Promise!Spec
=============================================================================
