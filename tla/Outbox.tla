------------------------------- MODULE Outbox -------------------------------
(***************************************************************************)
(* The transactional outbox: events inserted with the business change, and *)
(* relay workers that dispatch them to idempotent consumers in one         *)
(* transaction per batch (backend/apps/core/outbox).                       *)
(*                                                                         *)
(* An event is named by its sequence number.  Sequence numbers are drawn   *)
(* when the row is inserted and the row shows when its transaction commits,*)
(* so events may appear in any order.  A relay keeps what it has done in   *)
(* its own record until it commits; the callbacks it deferred run after    *)
(* the commit, one by one, outside any transaction.                        *)
(*                                                                         *)
(* A definition named Bug_X is a plausible bug in the definition that      *)
(* follows it, for checking that the properties notice it.                 *)
(***************************************************************************)
EXTENDS Integers, Sequences, FiniteSets, SequencesExt

CONSTANTS Events,        \* sequence numbers
          Consumers,
          Registry,      \* the consumers that handle an event, in registration order
          Relays,        \* concurrent executions of relay_batch
          BatchSize,     \* OUTBOX_RELAY_BATCH_SIZE
          MaxAttempts,   \* OUTBOX_MAX_ATTEMPTS
          Backoff,       \* OUTBOX_BACKOFF_SCHEDULE_SECONDS, in ticks
          MaxCrashes     \* bound on the crashes of relay workers

ASSUME OutboxAssumption ==
  /\ Events \subseteq Nat /\ IsFiniteSet(Events)
  /\ Registry \in [Events -> Seq(Consumers)]
  /\ BatchSize \in Nat \ {0} /\ MaxAttempts \in Nat \ {0} /\ MaxCrashes \in Nat
  /\ Backoff \in Seq(Nat) /\ Backoff # <<>>

VARIABLES row,       \* rows of outbox_event
          consumed,  \* <<consumer, event>> rows of consumed_event
          applied,   \* how often a consumer's database effect was committed
          queued,    \* how often a consumer's deferred task reached the broker
          relay,     \* what each relay is in the middle of
          crashes

vars == <<row, consumed, applied, queued, relay, crashes>>

-----------------------------------------------------------------------------
Absent == [status |-> "NONE", attempts |-> 0, wait |-> 0]
IdleRelay == [pc |-> "idle", todo |-> {}, rows |-> <<>>, handled |-> {}, callbacks |-> {}]
Pairs == Consumers \X Events

Init ==
  /\ row = [e \in Events |-> Absent]
  /\ consumed = {}
  /\ applied = [p \in Pairs |-> 0]
  /\ queued = [p \in Pairs |-> 0]
  /\ relay = [w \in Relays |-> IdleRelay]
  /\ crashes = 0

\* publish_event, committed with the business change it announces.
Publish(e) ==
  /\ row[e].status = "NONE"
  /\ row' = [row EXCEPT ![e].status = "PENDING"]
  /\ UNCHANGED <<consumed, applied, queued, relay, crashes>>

\* A tick of the clock: what was postponed comes nearer to available_at.
Sooner(r) == [r EXCEPT !.wait = IF @ > 0 THEN @ - 1 ELSE 0]

Tick ==
  /\ \/ \E e \in Events : row[e].wait > 0
     \/ \E w \in Relays : \E e \in DOMAIN relay[w].rows : relay[w].rows[e].wait > 0
  /\ row' = [e \in Events |-> Sooner(row[e])]
  /\ relay' = [w \in Relays |->
       [relay[w] EXCEPT !.rows = [e \in DOMAIN relay[w].rows |-> Sooner(relay[w].rows[e])]]]
  /\ UNCHANGED <<consumed, applied, queued, crashes>>

-----------------------------------------------------------------------------
(* relay_batch. *)

\* Row locks a relay holds until its transaction ends.
Locked(w) == IF relay[w].pc = "batch" THEN DOMAIN relay[w].rows \cup relay[w].todo ELSE {}

Bug_PendingOnly ==
  {e \in Events : /\ row[e].status = "PENDING"
                  /\ \A w \in Relays : e \notin Locked(w)}

\* SELECT ... FOR UPDATE SKIP LOCKED of what is available.
Available ==
  {e \in Events : /\ row[e].status \in {"PENDING", "FAILED"}
                  /\ row[e].wait = 0
                  /\ \A w \in Relays : e \notin Locked(w)}

\* The first OUTBOX_RELAY_BATCH_SIZE of them.
Batch == {e \in Available : Cardinality({f \in Available : f < e}) < BatchSize}

Select(w) ==
  /\ relay[w] = IdleRelay
  /\ Available # {}
  /\ relay' = [relay EXCEPT ![w].pc = "batch", ![w].todo = Batch]
  /\ UNCHANGED <<row, consumed, applied, queued, crashes>>

Bug_NoDeduplication(e, n) == {<<Registry[e][k], e>> : k \in 1..n}

\* What the first n consumers of e do: nothing if they consumed it before.
NewlyHandled(e, n) == {<<Registry[e][k], e>> : k \in 1..n} \ consumed

Published(r) == [r EXCEPT !.status = "PUBLISHED"]

Bug_OneAttemptMore(r) ==
  LET attempts == r.attempts + 1
      delay == Backoff[IF attempts <= Len(Backoff) THEN attempts ELSE Len(Backoff)]
  IN  IF attempts > MaxAttempts
      THEN [r EXCEPT !.attempts = attempts, !.status = "DEAD"]
      ELSE [r EXCEPT !.attempts = attempts, !.status = "FAILED", !.wait = delay]

\* _mark_failed_or_dead.
FailedOrDead(r) ==
  LET attempts == r.attempts + 1
      delay == Backoff[IF attempts <= Len(Backoff) THEN attempts ELSE Len(Backoff)]
  IN  IF attempts >= MaxAttempts
      THEN [r EXCEPT !.attempts = attempts, !.status = "DEAD"]
      ELSE [r EXCEPT !.attempts = attempts, !.status = "FAILED", !.wait = delay]

Bug_PublishAnyway(e, n) == Published(row[e])

\* The row after its first n consumers succeeded and the next one, if any, raised.
Outcome(e, n) ==
  IF n = Len(Registry[e]) THEN Published(row[e]) ELSE FailedOrDead(row[e])

\* The event a relay is at: it handles its batch in order.
Current(w) == Min(relay[w].todo)

\* Every consumer runs in a savepoint: the one that raises leaves neither its
\* effect nor its consumed_event row, the ones before it leave both, and a task
\* deferred to the commit.
Dispatch(w) ==
  /\ relay[w].pc = "batch" /\ relay[w].todo # {}
  /\ LET e == Current(w)
     IN  \E n \in 0..Len(Registry[e]) :
           relay' = [relay EXCEPT ![w] =
             [@ EXCEPT !.todo = relay[w].todo \ {e},
                       !.rows = [x \in DOMAIN relay[w].rows \cup {e} |->
                                   IF x = e THEN Outcome(e, n) ELSE relay[w].rows[x]],
                       !.handled = relay[w].handled \cup NewlyHandled(e, n),
                       !.callbacks = relay[w].callbacks \cup NewlyHandled(e, n)]]
  /\ UNCHANGED <<row, consumed, applied, queued, crashes>>

Commit(w) ==
  /\ relay[w].pc = "batch" /\ relay[w].todo = {}
  /\ row' = [e \in Events |-> IF e \in DOMAIN relay[w].rows THEN relay[w].rows[e] ELSE row[e]]
  /\ consumed' = consumed \cup relay[w].handled
  /\ applied' = [p \in Pairs |-> applied[p] + IF p \in relay[w].handled THEN 1 ELSE 0]
  /\ relay' = [relay EXCEPT ![w] = IF relay[w].callbacks = {} THEN IdleRelay
        ELSE [IdleRelay EXCEPT !.pc = "callbacks", !.callbacks = relay[w].callbacks]]
  /\ UNCHANGED <<queued, crashes>>

Bug_DeferNothing(w) == relay[w].callbacks # {}

\* transaction.on_commit: nothing runs while the batch is open.
CallbackReady(w) == relay[w].pc = "callbacks"

\* The tasks are deferred in the order in which the consumers ran.
NextTask(w) ==
  LET e == Min({p[2] : p \in relay[w].callbacks})
      k == Min({i \in 1..Len(Registry[e]) : <<Registry[e][i], e>> \in relay[w].callbacks})
  IN  <<Registry[e][k], e>>

RunCallback(w) ==
  /\ CallbackReady(w)
  /\ LET p == NextTask(w)
     IN  /\ queued' = [queued EXCEPT ![p] = @ + 1]
         /\ relay' = [relay EXCEPT ![w] =
              IF relay[w].pc = "callbacks" /\ relay[w].callbacks = {p} THEN IdleRelay
              ELSE [@ EXCEPT !.callbacks = relay[w].callbacks \ {p}]]
  /\ UNCHANGED <<row, consumed, applied, crashes>>

\* A crash undoes the open transaction.  After the commit it, or a callback
\* that raises because the broker is away, drops the callbacks still to run.
Crash(w) ==
  /\ relay[w].pc # "idle" /\ crashes < MaxCrashes
  /\ relay' = [relay EXCEPT ![w] = IdleRelay]
  /\ crashes' = crashes + 1
  /\ UNCHANGED <<row, consumed, applied, queued>>

\* purge_published_events: after the retention the row goes, what its consumers
\* did and their consumed_event rows stay.
Purge(e) ==
  /\ row[e].status = "PUBLISHED"
  /\ row' = [row EXCEPT ![e].status = "PURGED"]
  /\ UNCHANGED <<consumed, applied, queued, relay, crashes>>

-----------------------------------------------------------------------------
Next ==
  \/ Tick
  \/ \E e \in Events : Publish(e) \/ Purge(e)
  \/ \E w \in Relays : Select(w) \/ Dispatch(w) \/ Commit(w) \/ RunCallback(w) \/ Crash(w)

Spec == Init /\ [][Next]_vars

\* Celery beat starts relay_batch every OUTBOX_RELAY_INTERVAL_SECONDS, time
\* passes, and a relay that does not crash ends its batch and its callbacks.
Fairness ==
  /\ WF_vars(Tick)
  /\ \A w \in Relays : /\ WF_vars(Select(w))
                       /\ WF_vars(Dispatch(w))
                       /\ WF_vars(Commit(w))
                       /\ WF_vars(RunCallback(w))

FairSpec == Spec /\ Fairness

-----------------------------------------------------------------------------
\* A consumer's database effect is committed at most once per event, through
\* partial failures, retries, crashes and concurrent relays, and consumed_event
\* says so exactly; its deferred task reaches the broker at most once, and only
\* for an effect that was committed: no e-mail for a batch that was rolled back.
AppliedOnce ==
  \A p \in Pairs : /\ applied[p] = (IF p \in consumed THEN 1 ELSE 0)
                   /\ queued[p] <= applied[p]

\* Every published event ends delivered or DEAD, and "Retries are never infinite": a
\* failing event is tried MaxAttempts times, and is DEAD from then on.
EventsSettle ==
  /\ [](\A e \in Events : /\ row[e].attempts <= MaxAttempts
                          /\ row[e].status = "DEAD" <=> row[e].attempts = MaxAttempts)
  /\ \A e \in Events : row[e].status = "PENDING" ~> row[e].status \in {"PUBLISHED", "DEAD"}

\* models.py: the tables "guarantee the invariant that no committed side effect
\* is lost", so a delivered event's deferred tasks are queued or about to be.
NoSideEffectLost ==
  \A e \in Events : row[e].status = "PUBLISHED" =>
    \A c \in ToSet(Registry[e]) :
      \/ queued[<<c, e>>] > 0
      \/ \E w \in Relays : <<c, e>> \in relay[w].callbacks

\* What the row of an event says of it.
OutcomeOf(r) ==
  CASE r.status = "NONE" -> "absent"
    [] r.status \in {"PENDING", "FAILED"} -> "waiting"
    [] r.status \in {"PUBLISHED", "PURGED"} -> "delivered"
    [] r.status = "DEAD" -> "abandoned"

\* The outbox keeps what OutboxPromise says.
Promise == INSTANCE OutboxPromise WITH
  Audience <- [e \in Events |-> ToSet(Registry[e])],
  handled <- consumed,
  outcome <- [e \in Events |-> OutcomeOf(row[e])]

KeepsPromise == Promise!Spec
=============================================================================
