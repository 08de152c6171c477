--------------------------- MODULE OutboxPromise ----------------------------
(* What the transactional outbox promises the contexts that publish in it, *)
(* without relays, locks, retries or crashes: an accepted event waits, its *)
(* consumers handle it at most once each, and it ends delivered, handled by *)
(* all of them, or abandoned.                                              *)
CONSTANTS Events, Consumers,
          Audience   \* the consumers an event is for

VARIABLES outcome, handled

vars == <<outcome, handled>>

Outcomes == {"absent", "waiting", "delivered", "abandoned"}

Init ==
  /\ outcome = [e \in Events |-> "absent"]
  /\ handled = {}

Accept(e) ==
  /\ outcome[e] = "absent"
  /\ outcome' = [outcome EXCEPT ![e] = "waiting"]
  /\ UNCHANGED handled

\* One transaction makes progress on any number of waiting events.
Progress(batch) ==
  /\ \A e \in batch : outcome[e] = "waiting"
  /\ outcome' \in [Events -> Outcomes]
  /\ \A e \in Events \ batch : outcome'[e] = outcome[e]
  /\ \A e \in batch : outcome'[e] \in {"waiting", "delivered", "abandoned"}
  /\ handled \subseteq handled'
  /\ \A p \in handled' \ handled : p \in Consumers \X batch /\ p[1] \in Audience[p[2]]
  /\ \A e \in batch : outcome'[e] = "delivered" => Audience[e] \X {e} \subseteq handled'

Next ==
  \/ \E e \in Events : Accept(e)
  \/ \E batch \in SUBSET Events : Progress(batch)

Spec == Init /\ [][Next]_vars
=============================================================================
