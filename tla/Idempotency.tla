----------------------------- MODULE Idempotency -----------------------------
(***************************************************************************)
(* Requests that carry the same Idempotency-Key for the same user          *)
(* (backend/apps/core/idempotency).  Keys do not interact, so the state is *)
(* the record of one of them and the requests that use it.                 *)
(*                                                                         *)
(* begin() is one transaction under the row lock; the view then commits    *)
(* its own; complete() or fail() saves the record object the request has   *)
(* held since begin(), whatever happened to the row meanwhile.  A row is   *)
(* named by the request that inserted it.                                  *)
(*                                                                         *)
(* A definition named Bug_X is a plausible bug in the definition that      *)
(* follows it, for checking that the properties notice it.                 *)
(***************************************************************************)
EXTENDS Integers, FiniteSets

CONSTANTS Requests,     \* HTTP requests with the key
          EndpointOf,   \* request.path of a request
          HashOf,       \* fingerprint of its body
          Guard,        \* IDEMPOTENCY_ORPHAN_GUARD_SECONDS
          Retention,    \* IDEMPOTENCY_RETENTION_HOURS
          MaxRun,       \* bound: ticks from begin() to the end of a request
          MaxTime,      \* bound on the clock
          MaxCrashes,   \* bound on the processes that die in a request
          Nobody

ASSUME IdempotencyAssumption ==
  /\ Guard \in Nat /\ Retention \in Nat /\ MaxRun \in Nat /\ MaxTime \in Nat
  /\ Retention > Guard /\ MaxCrashes \in Nat /\ Nobody \notin Requests

VARIABLES now,
          record,    \* the idempotency_record row
          request,   \* where each request is
          answer,    \* what its client was told, and which request executed for it
          effects    \* requests whose business change was committed (history)

vars == <<now, record, request, answer, effects>>

Answers == [kind : {"none", "2xx", "4xx", "5xx", "409", "422"}, by : Requests \cup {Nobody}]
NoAnswer == [kind |-> "none", by |-> Nobody]
Absent == [id |-> Nobody, status |-> "NONE", endpoint |-> Nobody, hash |-> Nobody,
           locked_at |-> 0, expires_at |-> 0, response |-> NoAnswer]

Init ==
  /\ now = 0
  /\ record = Absent
  /\ request = [r \in Requests |-> [pc |-> "new", row |-> Nobody, began |-> 0, result |-> "none"]]
  /\ answer = [r \in Requests |-> NoAnswer]
  /\ effects = {}

Running(r) == request[r].pc \in {"executing", "ending"}

Tick ==
  /\ now < MaxTime
  /\ \A r \in Requests : Running(r) => now < request[r].began + MaxRun
  /\ now' = now + 1
  /\ UNCHANGED <<record, request, answer, effects>>

-----------------------------------------------------------------------------
(* begin(). *)

\* The request goes on to the view, holding the row it got.
Proceed(r) ==
  request' = [request EXCEPT ![r].pc = "executing", ![r].row = record'.id, ![r].began = now]

Reply(r, kind, by) ==
  /\ request' = [request EXCEPT ![r].pc = "done"]
  /\ answer' = [answer EXCEPT ![r] = [kind |-> kind, by |-> by]]

\* The INSERT is the lock.
Insert(r) ==
  /\ request[r].pc = "new"
  /\ record.status = "NONE"
  /\ record' = [Absent EXCEPT !.id = r, !.status = "IN_PROGRESS",
                              !.endpoint = EndpointOf[r], !.hash = HashOf[r], !.locked_at = now,
                              !.expires_at = now + Retention]
  /\ Proceed(r)
  /\ UNCHANGED <<now, answer, effects>>

Bug_EndpointCheckedOnReplayOnly(r) ==
  record.status # "NONE" /\ (record.status = "COMPLETED" => record.endpoint = EndpointOf[r])

SameEndpoint(r) == record.status # "NONE" /\ record.endpoint = EndpointOf[r]

Bug_HashIgnored(r) == record.status # "NONE" /\ ~SameEndpoint(r)

\* A different endpoint always, a different body once the key is COMPLETED.
Reused(r) ==
  /\ record.status # "NONE"
  /\ \/ ~SameEndpoint(r)
     \/ record.status = "COMPLETED" /\ record.hash # HashOf[r]

Refuse(r) ==
  /\ request[r].pc = "new"
  /\ Reused(r)
  /\ Reply(r, "422", Nobody)
  /\ UNCHANGED <<now, record, effects>>

Replay(r) ==
  /\ request[r].pc = "new"
  /\ SameEndpoint(r) /\ ~Reused(r)
  /\ record.status = "COMPLETED"
  /\ Reply(r, record.response.kind, record.response.by)
  /\ UNCHANGED <<now, record, effects>>

Bug_OrphanAtOnce == record.status \in {"IN_PROGRESS", "FAILED"}

\* What a new request may take over: a failed execution, or one whose lock is
\* older than the guard.
Recoverable ==
  \/ record.status = "FAILED"
  \/ record.status = "IN_PROGRESS" /\ now - record.locked_at > Guard

Recover(r) ==
  /\ request[r].pc = "new"
  /\ SameEndpoint(r)
  /\ Recoverable
  /\ record' = [record EXCEPT !.status = "IN_PROGRESS", !.locked_at = now, !.hash = HashOf[r]]
  /\ Proceed(r)
  /\ UNCHANGED <<now, answer, effects>>

Conflict(r) ==
  /\ request[r].pc = "new"
  /\ SameEndpoint(r)
  /\ record.status = "IN_PROGRESS" /\ ~Recoverable
  /\ Reply(r, "409", Nobody)
  /\ UNCHANGED <<now, record, effects>>

-----------------------------------------------------------------------------
(* The view, and the end of the middleware. *)

\* A 2xx commits a business change, a 4xx does not; a 5xx may come before the
\* commit or after it (an on_commit callback that raises).
Execute(r) ==
  /\ request[r].pc = "executing"
  /\ \E result \in {"2xx", "4xx", "5xx"}, committed \in BOOLEAN :
       /\ result # "5xx" => (committed <=> result = "2xx")
       /\ request' = [request EXCEPT ![r].pc = "ending", ![r].result = result]
       /\ effects' = IF committed THEN effects \cup {r} ELSE effects
  /\ UNCHANGED <<now, record, answer>>

\* complete() below 500, fail() from 500 on.
Saved(r) ==
  IF request[r].result = "5xx"
  THEN [record EXCEPT !.status = "FAILED"]
  ELSE [record EXCEPT !.status = "COMPLETED",
                      !.response = [kind |-> request[r].result, by |-> r]]

Finish(r) ==
  /\ request[r].pc = "ending"
  /\ record.id = request[r].row
  /\ record' = Saved(r)
  /\ Reply(r, request[r].result, r)
  /\ UNCHANGED <<now, effects>>

\* The row was purged meanwhile: saving it raises and the client gets a 500.
FinishPurged(r) ==
  /\ request[r].pc = "ending"
  /\ record.id # request[r].row
  /\ Reply(r, "5xx", r)
  /\ UNCHANGED <<now, record, effects>>

Crash(r) ==
  /\ Running(r)
  /\ Cardinality({x \in Requests : request[x].pc = "crashed"}) < MaxCrashes
  /\ request' = [request EXCEPT ![r].pc = "crashed"]
  /\ UNCHANGED <<now, record, answer, effects>>

\* purge_expired: the key starts anew.
Purge ==
  /\ record.status # "NONE" /\ record.expires_at < now
  /\ record' = Absent
  /\ UNCHANGED <<now, request, answer, effects>>

-----------------------------------------------------------------------------
Begin(r) == Insert(r) \/ Refuse(r) \/ Replay(r) \/ Recover(r) \/ Conflict(r)
End(r) == Finish(r) \/ FinishPurged(r)

Next ==
  \/ Tick
  \/ Purge
  \/ \E r \in Requests : Begin(r) \/ Execute(r) \/ End(r) \/ Crash(r)

Spec == Init /\ [][Next]_vars

-----------------------------------------------------------------------------
Told(r, kind) == answer[r].kind = kind /\ answer[r].by = r

\* Of all the executions under one row of a key, those before its purge and those it
\* interrupted included, clients are told of one at most, through retries, failures,
\* crashes and takeovers, as long as no request outlives the guard.  The row that is
\* inserted after a purge is another one: by then the key starts anew.
OneAnsweredEffect ==
  \A i \in Requests :
    Cardinality({r \in effects : request[r].row = i /\ Told(r, "2xx")}) <= 1

\* A replayed answer is the answer to the same body on the same endpoint, as long
\* as no request outlives the guard (service.py: "same endpoint and request
\* fingerprint", and a key "must NEVER replay one endpoint's response on another").
ReplayAnswersItsRequest ==
  \A r \in Requests : answer[r].by # Nobody =>
    /\ HashOf[answer[r].by] = HashOf[r]
    /\ EndpointOf[answer[r].by] = EndpointOf[r]
=============================================================================
