---------------------------- MODULE OnceProofs ----------------------------
(***************************************************************************)
(* Proofs about what a request may do once: Idempotency, for one key, and  *)
(* Identity, for refresh tokens, one-time codes and temporary passwords.   *)
(* They hold for any number of requests and any interleaving of them.      *)
(***************************************************************************)
EXTENDS Idempotency, Identity, TLAPS, FiniteSetTheorems, SequenceTheorems

-----------------------------------------------------------------------------
(* One idempotency key: takeovers and the purge included, any guard and retention. *)

Endpoints == {EndpointOf[r] : r \in Requests} \cup {Nobody}
Hashes == {HashOf[r] : r \in Requests} \cup {Nobody}
Records == [id : Requests \cup {Nobody}, status : {"NONE", "IN_PROGRESS", "COMPLETED", "FAILED"},
            endpoint : Endpoints, hash : Hashes, locked_at : Nat, expires_at : Nat,
            response : Answers]
Stages == [pc : {"new", "executing", "ending", "done", "crashed"}, row : Requests \cup {Nobody},
           began : Nat, result : {"none", "2xx", "4xx", "5xx"}]

TypeOK ==
  /\ now \in Nat
  /\ record \in Records
  /\ request \in [Requests -> Stages]
  /\ answer \in [Requests -> Answers]
  /\ effects \in SUBSET Requests

\* What the operators assume when they set the guard: a lock older than it is
\* an orphan, for no request runs so long.
GuardOutlastsRequests == MaxRun <= Guard

\* A row is named by the request that inserted it, and never named so again.
NamesOK ==
  /\ record.id = Nobody <=> record.status = "NONE"
  /\ record.id # Nobody => request[record.id].pc # "new"
  /\ \A r \in Requests : request[r].row # Nobody => request[request[r].row].pc # "new"

\* A request that runs began at most MaxRun ago, and while its row is there it
\* holds its lock, alone and with its own body.
HoldingOK ==
  \A r \in Requests : Running(r) =>
    /\ request[r].row # Nobody
    /\ request[r].began <= now /\ now <= request[r].began + MaxRun
    /\ request[r].row = record.id =>
         /\ record.status = "IN_PROGRESS"
         /\ record.locked_at = request[r].began
         /\ record.hash = HashOf[r] /\ record.endpoint = EndpointOf[r]
         /\ \A s \in Requests \ {r} : Running(s) => request[s].row # record.id

\* A COMPLETED row holds the answer to a request with its endpoint and its body.
ResponseOK ==
  record.status = "COMPLETED" =>
    LET by == record.response.by IN
      /\ by \in Requests /\ request[by].pc = "done"
      /\ HashOf[by] = record.hash /\ EndpointOf[by] = record.endpoint

\* Only a request that ended was answered; only one that executed has an effect.
AnsweredOK ==
  \A r \in Requests :
    /\ request[r].pc # "done" => answer[r] = NoAnswer
    /\ r \in effects => request[r].pc \notin {"new", "executing"}

\* An execution that a client was told of is the only one of its row, and the row
\* remembers it as long as it is there.
RememberedOK ==
  \A r \in effects :
    /\ request[r].row # Nobody
    /\ Told(r, "2xx") =>
         /\ request[r].row = record.id =>
              record.status = "COMPLETED" /\ record.response.by = r
         /\ \A s \in effects :
              Told(s, "2xx") /\ request[s].row = request[r].row => s = r

IInv ==
  /\ TypeOK
  /\ NamesOK
  /\ HoldingOK
  /\ ResponseOK
  /\ AnsweredOK
  /\ RememberedOK
  /\ ReplayAnswersItsRequest

-----------------------------------------------------------------------------
LEMMA InitIInv == Init => IInv
<1> SUFFICES ASSUME Init PROVE IInv
  OBVIOUS
<1>1. Absent \in Records /\ NoAnswer \in Answers
  BY DEF Absent, Records, Endpoints, Hashes, NoAnswer, Answers
<1>2. TypeOK
  BY <1>1 DEF Init, TypeOK, Stages
<1>3. NamesOK /\ HoldingOK /\ ResponseOK /\ AnsweredOK /\ RememberedOK
  BY DEF Init, Absent, NamesOK, HoldingOK, Running, ResponseOK, AnsweredOK, RememberedOK
<1>4. ReplayAnswersItsRequest
  BY DEF Init, NoAnswer, ReplayAnswersItsRequest
<1> QED
  BY <1>2, <1>3, <1>4 DEF IInv

LEMMA ProceedType ==
  ASSUME TypeOK, record' \in Records, NEW r \in Requests, Proceed(r)
  PROVE  /\ request' \in [Requests -> Stages]
         /\ request'[r] = [request[r] EXCEPT !.pc = "executing", !.row = record'.id, !.began = now]
         /\ \A s \in Requests \ {r} : request'[s] = request[s]
<1>1. [request[r] EXCEPT !.pc = "executing", !.row = record'.id, !.began = now] \in Stages
  <2>1. record'.id \in Requests \cup {Nobody}
    BY DEF Records
  <2>2. request[r] \in Stages /\ now \in Nat
    BY DEF TypeOK
  <2> QED
    BY <2>1, <2>2 DEF Stages
<1> QED
  BY <1>1 DEF Proceed, TypeOK

LEMMA NextTypeOK ==
  ASSUME TypeOK, [Next]_vars
  PROVE  TypeOK'
<1> USE DEF TypeOK
<1>1. CASE Tick
  BY <1>1 DEF Tick
<1>2. CASE Purge
  <2>1. Absent \in Records
    BY DEF Absent, Records, Endpoints, Hashes, NoAnswer, Answers
  <2> QED
    BY <1>2, <2>1 DEF Purge
<1>3. ASSUME NEW r \in Requests, Insert(r) PROVE TypeOK'
  <2>1. record' \in Records
    <3>1. Absent \in Records /\ now + Retention \in Nat
      BY IdempotencyAssumption DEF Absent, Records, Endpoints, Hashes, NoAnswer, Answers
    <3>2. EndpointOf[r] \in Endpoints /\ HashOf[r] \in Hashes
      BY DEF Endpoints, Hashes
    <3> QED
      BY <1>3, <3>1, <3>2 DEF Insert, Records
  <2>2. request' \in [Requests -> Stages]
    BY <1>3, <2>1, ProceedType DEF Insert
  <2> QED
    BY <1>3, <2>1, <2>2 DEF Insert
<1>4. ASSUME NEW r \in Requests, NEW kind \in {"2xx", "4xx", "5xx", "409", "422", "none"},
             NEW by \in Requests \cup {Nobody}, Reply(r, kind, by)
      PROVE  request' \in [Requests -> Stages] /\ answer' \in [Requests -> Answers]
  BY <1>4 DEF Reply, Stages, Answers
<1>5. ASSUME NEW r \in Requests, Refuse(r) \/ Conflict(r) PROVE TypeOK'
  BY <1>4, <1>5 DEF Refuse, Conflict
<1>6. ASSUME NEW r \in Requests, Replay(r) PROVE TypeOK'
  <2>1. record.response \in Answers
    BY DEF Records
  <2> QED
    BY <1>4, <1>6, <2>1 DEF Replay, Answers
<1>7. ASSUME NEW r \in Requests, Recover(r) PROVE TypeOK'
  <2>1. record' \in Records
    BY <1>7 DEF Recover, Records, Hashes
  <2>2. request' \in [Requests -> Stages]
    BY <1>7, <2>1, ProceedType DEF Recover
  <2> QED
    BY <1>7, <2>1, <2>2 DEF Recover
<1>8. ASSUME NEW r \in Requests, Execute(r) PROVE TypeOK'
  <2>1. PICK result \in {"2xx", "4xx", "5xx"} :
          request' = [request EXCEPT ![r].pc = "ending", ![r].result = result]
    BY <1>8 DEF Execute
  <2>2. [request[r] EXCEPT !.pc = "ending", !.result = result] \in Stages
    BY DEF Stages
  <2>3. request' \in [Requests -> Stages]
    BY <2>1, <2>2
  <2> QED
    BY <1>8, <2>3 DEF Execute
<1>9. ASSUME NEW r \in Requests, Finish(r) PROVE TypeOK'
  <2>1. request[r].result \in {"2xx", "4xx", "5xx", "409", "422", "none"}
    BY DEF Stages
  <2>2. record' \in Records
    BY <1>9, <2>1 DEF Finish, Saved, Records, Answers
  <2> QED
    BY <1>4, <1>9, <2>1, <2>2 DEF Finish
<1>10. ASSUME NEW r \in Requests, FinishPurged(r) PROVE TypeOK'
  BY <1>4, <1>10 DEF FinishPurged
<1>11. ASSUME NEW r \in Requests, Crash(r) PROVE TypeOK'
  BY <1>11 DEF Crash, Stages
<1>12. CASE UNCHANGED vars
  BY <1>12 DEF vars
<1> QED
  BY <1>1, <1>2, <1>3, <1>5, <1>6, <1>7, <1>8, <1>9, <1>10, <1>11, <1>12 DEF Next, Begin, End

-----------------------------------------------------------------------------
(* Steps, as the parts of the invariant see them. *)

\* Ending a request changes nothing of the others.
LEMMA ReplySteps ==
  ASSUME TypeOK, NEW r \in Requests, NEW kind, NEW by, Reply(r, kind, by)
  PROVE  /\ request'[r].pc = "done"
         /\ request'[r].row = request[r].row /\ request'[r].began = request[r].began
         /\ \A s \in Requests \ {r} : request'[s] = request[s]
         /\ answer'[r].kind = kind /\ answer'[r].by = by
         /\ \A s \in Requests \ {r} : answer'[s] = answer[s]
<1>1. request[r] \in Stages /\ request'[r] = [request[r] EXCEPT !.pc = "done"]
  BY DEF Reply, TypeOK
<1>2. /\ request'[r].pc = "done"
      /\ request'[r].row = request[r].row /\ request'[r].began = request[r].began
  BY <1>1 DEF Stages
<1>3. answer'[r] = [kind |-> kind, by |-> by]
  BY DEF Reply, TypeOK
<1>4. answer'[r].kind = kind /\ answer'[r].by = by
  BY <1>3
<1>5. \A s \in Requests \ {r} : request'[s] = request[s]
  BY DEF Reply, TypeOK
<1>6. \A s \in Requests \ {r} : answer'[s] = answer[s]
  BY DEF Reply, TypeOK
<1> QED
  BY <1>2, <1>4, <1>5, <1>6

\* A request that begins and does not get the row, or ends without its row.
LEMMA PlainReplies ==
  ASSUME NEW r \in Requests, Refuse(r) \/ Conflict(r) \/ Replay(r) \/ FinishPurged(r)
  PROVE  \E kind, by : Reply(r, kind, by)
BY DEF Refuse, Conflict, Replay, FinishPurged

\* Who has begun does not begin again.
LEMMA NeverNewAgain ==
  ASSUME TypeOK, [Next]_vars, NEW r \in Requests, request[r].pc # "new"
  PROVE  request'[r].pc # "new"
<1>1. ASSUME NEW s \in Requests, NEW kind, NEW by, Reply(s, kind, by)
      PROVE  request'[r].pc # "new"
  <2>1. CASE r = s
    BY <1>1, <2>1, ReplySteps
  <2>2. CASE r # s
    BY <1>1, <2>2, ReplySteps
  <2> QED
    BY <2>1, <2>2
<1>2. ASSUME NEW s \in Requests, Insert(s) \/ Recover(s) PROVE request'[r].pc # "new"
  BY <1>2 DEF Insert, Recover, Proceed, TypeOK, Stages
<1>3. ASSUME NEW s \in Requests, Execute(s) PROVE request'[r].pc # "new"
  BY <1>3 DEF Execute, TypeOK, Stages
<1>4. ASSUME NEW s \in Requests, Crash(s) PROVE request'[r].pc # "new"
  BY <1>4 DEF Crash, TypeOK, Stages
<1>5. ASSUME NEW s \in Requests, Finish(s) PROVE request'[r].pc # "new"
  BY <1>1, <1>5 DEF Finish
<1>6. CASE UNCHANGED request
  BY <1>6
<1> QED
  BY <1>1, <1>2, <1>3, <1>4, <1>5, <1>6, PlainReplies DEF Next, Begin, End, Tick, Purge, vars

LEMMA NextNamesOK ==
  ASSUME TypeOK, NamesOK, HoldingOK, [Next]_vars
  PROVE  NamesOK'
<1>1. ASSUME NEW x \in Requests, request[x].pc # "new" PROVE request'[x].pc # "new"
  BY <1>1, NeverNewAgain
<1>2. CASE record'.id = record.id /\ (record'.status = "NONE" <=> record.status = "NONE")
           /\ \A s \in Requests : request'[s].row = request[s].row
  BY <1>1, <1>2 DEF NamesOK, TypeOK, Records, Stages
<1>3. CASE Purge
  BY <1>3 DEF Purge, Absent, NamesOK
<1>4. ASSUME NEW r \in Requests, Insert(r) PROVE NamesOK'
  <2>1. record'.id = r /\ record'.status = "IN_PROGRESS" /\ r # Nobody
    BY <1>4, IdempotencyAssumption DEF Insert, Absent
  <2>2. /\ request'[r].row = r /\ request'[r].pc = "executing"
        /\ \A s \in Requests \ {r} : request'[s] = request[s]
    BY <1>4, <2>1 DEF Insert, Proceed, TypeOK, Stages
  <2> QED
    BY <1>1, <2>1, <2>2 DEF NamesOK, TypeOK, Stages
<1>5. ASSUME NEW r \in Requests, Recover(r) PROVE NamesOK'
  <2>1. record'.id = record.id /\ record'.status = "IN_PROGRESS" /\ record.status # "NONE"
    BY <1>5 DEF Recover, Recoverable, TypeOK, Records
  <2>2. /\ request'[r].row = record.id
        /\ \A s \in Requests \ {r} : request'[s] = request[s]
    BY <1>5, <2>1 DEF Recover, Proceed, TypeOK, Stages
  <2> QED
    BY <1>1, <2>1, <2>2 DEF NamesOK, TypeOK, Records, Stages
<1>6. ASSUME NEW r \in Requests, NEW kind, NEW by, Reply(r, kind, by)
      PROVE  \A s \in Requests : request'[s].row = request[s].row
  <2>1. request'[r].row = request[r].row
    BY <1>6, ReplySteps
  <2>2. \A s \in Requests \ {r} : request'[s] = request[s]
    BY <1>6, ReplySteps
  <2> QED
    BY <2>1, <2>2
<1>7. ASSUME NEW r \in Requests, Finish(r) PROVE NamesOK'
  <2>1. record'.id = record.id /\ record'.status # "NONE"
    BY <1>7 DEF Finish, Saved, TypeOK, Records
  <2>2. record.status # "NONE"
    BY <1>7 DEF Finish, HoldingOK, Running
  <2> QED
    BY <1>2, <1>6, <1>7, <2>1, <2>2 DEF Finish
<1>8. ASSUME NEW r \in Requests, Refuse(r) \/ Conflict(r) \/ Replay(r) \/ FinishPurged(r)
      PROVE  NamesOK'
  BY <1>2, <1>6, <1>8, PlainReplies DEF Refuse, Conflict, Replay, FinishPurged
<1>9. ASSUME NEW r \in Requests, Execute(r) \/ Crash(r) PROVE NamesOK'
  <2>1. \A s \in Requests : request'[s].row = request[s].row
    BY <1>9 DEF Execute, Crash, TypeOK, Stages
  <2> QED
    BY <1>2, <1>9, <2>1 DEF Execute, Crash
<1>10. CASE UNCHANGED <<record, request>>
  BY <1>2, <1>10
<1> QED
  BY <1>3, <1>4, <1>5, <1>7, <1>8, <1>9, <1>10 DEF Next, Begin, End, Tick, vars

\* Nobody takes over the row of a request that runs.
LEMMA HeldIsKept ==
  ASSUME TypeOK, HoldingOK, GuardOutlastsRequests,
         NEW r \in Requests, Running(r), request[r].row = record.id
  PROVE  ~Recoverable
<1>1. /\ record.status = "IN_PROGRESS" /\ record.locked_at = request[r].began
      /\ now <= request[r].began + MaxRun
  BY DEF HoldingOK
<1>2. now \in Nat /\ request[r].began \in Nat
  BY DEF TypeOK, Stages
<1> QED
  BY <1>1, <1>2, IdempotencyAssumption DEF Recoverable, GuardOutlastsRequests

LEMMA NextHoldingOK ==
  ASSUME TypeOK, NamesOK, HoldingOK, GuardOutlastsRequests, [Next]_vars
  PROVE  HoldingOK'
<1> DEFINE Holds(r) == Running(r) =>
      /\ request[r].row # Nobody
      /\ request[r].began <= now /\ now <= request[r].began + MaxRun
      /\ request[r].row = record.id =>
           /\ record.status = "IN_PROGRESS"
           /\ record.locked_at = request[r].began
           /\ record.hash = HashOf[r] /\ record.endpoint = EndpointOf[r]
           /\ \A s \in Requests \ {r} : Running(s) => request[s].row # record.id
<1>1. \A r \in Requests : Holds(r)
  BY DEF HoldingOK
<1>2. CASE /\ UNCHANGED <<now, record>>
           /\ \A r \in Requests : /\ Running(r)' => Running(r)
                                  /\ request'[r].row = request[r].row
                                  /\ request'[r].began = request[r].began
  BY <1>1, <1>2 DEF HoldingOK
<1>3. CASE Tick
  <2>1. \A r \in Requests : request[r].began \in Nat
    BY DEF TypeOK, Stages
  <2> QED
    BY <1>1, <1>3, <2>1, IdempotencyAssumption DEF Tick, Running, HoldingOK, TypeOK
<1>4. CASE Purge
  <2>1. record'.id = Nobody /\ UNCHANGED <<now, request>>
    BY <1>4 DEF Purge, Absent
  <2> QED
    BY <1>1, <2>1 DEF HoldingOK, Running
<1>5. ASSUME NEW r \in Requests, Insert(r) PROVE HoldingOK'
  <2>1. /\ record'.id = r /\ record'.status = "IN_PROGRESS" /\ record'.locked_at = now
        /\ record'.hash = HashOf[r] /\ record'.endpoint = EndpointOf[r]
        /\ UNCHANGED now
    BY <1>5 DEF Insert, Absent
  <2>2. /\ request'[r].row = r /\ request'[r].began = now /\ request'[r].pc = "executing"
        /\ \A s \in Requests \ {r} : request'[s] = request[s]
    BY <1>5, <2>1 DEF Insert, Proceed, TypeOK, Stages
  <2>3. \A s \in Requests \ {r} : Running(s) => request[s].row # r
    BY <1>1, <1>5 DEF Insert, NamesOK
  <2>4. r # Nobody
    BY IdempotencyAssumption
  <2>5. Holds(r)'
    BY <2>1, <2>2, <2>3, <2>4, IdempotencyAssumption DEF Running, TypeOK
  <2>6. ASSUME NEW s \in Requests \ {r} PROVE Holds(s)'
    BY <1>1, <2>1, <2>2, <2>3 DEF Running
  <2> QED
    BY <2>5, <2>6 DEF HoldingOK
<1>6. ASSUME NEW r \in Requests, Recover(r) PROVE HoldingOK'
  <2>1. /\ record'.id = record.id /\ record'.status = "IN_PROGRESS" /\ record'.locked_at = now
        /\ record'.hash = HashOf[r] /\ record'.endpoint = EndpointOf[r]
        /\ UNCHANGED now
    BY <1>6 DEF Recover, SameEndpoint, TypeOK, Records
  <2>2. /\ request'[r].row = record.id /\ request'[r].began = now /\ request'[r].pc = "executing"
        /\ \A s \in Requests \ {r} : request'[s] = request[s]
    BY <1>6, <2>1 DEF Recover, Proceed, TypeOK, Stages
  <2>3. \A s \in Requests : Running(s) => request[s].row # record.id
    BY <1>6, HeldIsKept DEF Recover
  <2>4. record.id # Nobody
    BY <1>6 DEF Recover, SameEndpoint, NamesOK
  <2>5. Holds(r)'
    BY <2>1, <2>2, <2>3, <2>4, IdempotencyAssumption DEF Running, TypeOK
  <2>6. ASSUME NEW s \in Requests \ {r} PROVE Holds(s)'
    BY <1>1, <2>1, <2>2, <2>3 DEF Running
  <2> QED
    BY <2>5, <2>6 DEF HoldingOK
<1>7. ASSUME NEW r \in Requests, NEW kind, NEW by, Reply(r, kind, by)
      PROVE  \A s \in Requests : /\ Running(s)' => Running(s) /\ s # r
                                 /\ request'[s].row = request[s].row
                                 /\ request'[s].began = request[s].began
  <2>1. /\ request'[r].pc = "done" /\ request'[r].row = request[r].row
        /\ request'[r].began = request[r].began
    BY <1>7, ReplySteps
  <2>2. \A s \in Requests \ {r} : request'[s] = request[s]
    BY <1>7, ReplySteps
  <2> QED
    BY <2>1, <2>2 DEF Running
<1>8. ASSUME NEW r \in Requests, Finish(r) PROVE HoldingOK'
  <2>1. Running(r) /\ request[r].row = record.id /\ UNCHANGED now
    BY <1>8 DEF Finish, Running
  <2>2. \A s \in Requests \ {r} : Running(s) => request[s].row # record.id
    BY <1>1, <2>1
  <2>3. record'.id = record.id
    BY <1>8 DEF Finish, Saved, TypeOK, Records
  <2>4. \A s \in Requests : /\ Running(s)' => Running(s) /\ s # r
                            /\ request'[s].row = request[s].row
                            /\ request'[s].began = request[s].began
    BY <1>7, <1>8 DEF Finish
  <2> QED
    BY <1>1, <2>1, <2>2, <2>3, <2>4 DEF HoldingOK
<1>9. ASSUME NEW r \in Requests, Refuse(r) \/ Conflict(r) \/ Replay(r) \/ FinishPurged(r)
      PROVE  HoldingOK'
  BY <1>2, <1>7, <1>9, PlainReplies DEF Refuse, Conflict, Replay, FinishPurged
<1>10. ASSUME NEW r \in Requests, Execute(r) \/ Crash(r) PROVE HoldingOK'
  <2>1. \A s \in Requests : /\ Running(s)' => Running(s)
                            /\ request'[s].row = request[s].row
                            /\ request'[s].began = request[s].began
    BY <1>10 DEF Execute, Crash, Running, TypeOK, Stages
  <2> QED
    BY <1>2, <1>10, <2>1 DEF Execute, Crash
<1>11. CASE UNCHANGED vars
  BY <1>2, <1>11 DEF vars, Running
<1> QED
  BY <1>3, <1>4, <1>5, <1>6, <1>8, <1>9, <1>10, <1>11 DEF Next, Begin, End

-----------------------------------------------------------------------------
(* Answers. *)

LEMMA NextAnsweredOK ==
  ASSUME TypeOK, AnsweredOK, [Next]_vars
  PROVE  AnsweredOK'
<1> DEFINE Fine(s) == /\ request[s].pc # "done" => answer[s] = NoAnswer
                      /\ s \in effects => request[s].pc \notin {"new", "executing"}
<1>1. ASSUME NEW r \in Requests, NEW kind, NEW by, Reply(r, kind, by), UNCHANGED effects
      PROVE  AnsweredOK'
  <2>1. request'[r].pc = "done"
    BY <1>1, ReplySteps
  <2>2. \A s \in Requests \ {r} : request'[s] = request[s] /\ answer'[s] = answer[s]
    BY <1>1, ReplySteps
  <2> QED
    BY <1>1, <2>1, <2>2 DEF AnsweredOK
<1>2. ASSUME NEW r \in Requests, Insert(r) \/ Recover(r) PROVE AnsweredOK'
  <2>1. /\ request'[r].pc = "executing" /\ request[r].pc = "new"
        /\ \A s \in Requests \ {r} : request'[s] = request[s]
        /\ UNCHANGED <<answer, effects>>
    BY <1>2 DEF Insert, Recover, Proceed, TypeOK, Stages
  <2> QED
    BY <2>1 DEF AnsweredOK
<1>3. ASSUME NEW r \in Requests, Execute(r) PROVE AnsweredOK'
  <2>1. /\ request'[r].pc = "ending" /\ request[r].pc = "executing"
        /\ \A s \in Requests \ {r} : request'[s] = request[s]
        /\ UNCHANGED answer
        /\ effects' \subseteq effects \cup {r}
    BY <1>3 DEF Execute, TypeOK, Stages
  <2> QED
    BY <2>1 DEF AnsweredOK
<1>4. ASSUME NEW r \in Requests, Crash(r) PROVE AnsweredOK'
  <2>1. /\ request'[r].pc = "crashed" /\ request[r].pc # "done"
        /\ \A s \in Requests \ {r} : request'[s] = request[s]
        /\ UNCHANGED <<answer, effects>>
    BY <1>4 DEF Crash, Running, TypeOK, Stages
  <2> QED
    BY <2>1 DEF AnsweredOK
<1>5. ASSUME NEW r \in Requests, Finish(r) PROVE AnsweredOK'
  BY <1>1, <1>5 DEF Finish
<1>6. ASSUME NEW r \in Requests, Refuse(r) \/ Conflict(r) \/ Replay(r) \/ FinishPurged(r)
      PROVE  AnsweredOK'
  BY <1>1, <1>6 DEF Refuse, Conflict, Replay, FinishPurged
<1>7. CASE UNCHANGED <<request, answer>> /\ effects' \subseteq effects
  BY <1>7 DEF AnsweredOK
<1> QED
  BY <1>2, <1>3, <1>4, <1>5, <1>6, <1>7 DEF Next, Begin, End, Tick, Purge, vars

\* The row a request saves when it ends, and the answer it gives.
LEMMA FinishSteps ==
  ASSUME TypeOK, HoldingOK, NEW r \in Requests, Finish(r)
  PROVE  /\ record.status = "IN_PROGRESS"
         /\ record.hash = HashOf[r] /\ record.endpoint = EndpointOf[r]
         /\ record'.hash = record.hash /\ record'.endpoint = record.endpoint
         /\ record'.status = "COMPLETED" => record'.response.by = r
         /\ request[r].result # "5xx" => record'.status = "COMPLETED"
         /\ request'[r].pc = "done"
         /\ answer'[r].kind = request[r].result /\ answer'[r].by = r
         /\ UNCHANGED effects
<1>1. Running(r) /\ request[r].row = record.id
  BY DEF Finish, Running
<1>2. Reply(r, request[r].result, r) /\ UNCHANGED effects
  BY DEF Finish
<1>3. /\ record'.hash = record.hash /\ record'.endpoint = record.endpoint
      /\ record'.status = "COMPLETED" => record'.response.by = r
      /\ request[r].result # "5xx" => record'.status = "COMPLETED"
  BY DEF Finish, Saved, TypeOK, Records
<1>4. /\ request'[r].pc = "done"
      /\ answer'[r].kind = request[r].result /\ answer'[r].by = r
  BY <1>2, ReplySteps
<1> QED
  BY <1>1, <1>2, <1>3, <1>4 DEF HoldingOK

\* A request that ended stays as it is.
LEMMA DoneIsFinal ==
  ASSUME TypeOK, [Next]_vars, NEW r \in Requests, request[r].pc = "done"
  PROVE  request'[r].pc = "done" /\ answer'[r] = answer[r]
<1>1. ASSUME NEW s \in Requests, NEW kind, NEW by, Reply(s, kind, by), request[s].pc # "done"
      PROVE  request'[r].pc = "done" /\ answer'[r] = answer[r]
  <2>1. r \in Requests \ {s}
    BY <1>1
  <2> QED
    BY <1>1, <2>1, ReplySteps
<1>2. ASSUME NEW s \in Requests, Insert(s) \/ Recover(s) \/ Execute(s) \/ Crash(s)
      PROVE  request'[r].pc = "done" /\ answer'[r] = answer[r]
  BY <1>2 DEF Insert, Recover, Proceed, Execute, Crash, Running, TypeOK
<1>3. ASSUME NEW s \in Requests,
             Refuse(s) \/ Conflict(s) \/ Replay(s) \/ Finish(s) \/ FinishPurged(s)
      PROVE  request'[r].pc = "done" /\ answer'[r] = answer[r]
  BY <1>1, <1>3 DEF Refuse, Conflict, Replay, Finish, FinishPurged
<1>4. CASE UNCHANGED <<request, answer>>
  BY <1>4
<1> QED
  BY <1>2, <1>3, <1>4 DEF Next, Begin, End, Tick, Purge, vars

LEMMA NextResponseOK ==
  ASSUME TypeOK, HoldingOK, ResponseOK, [Next]_vars
  PROVE  ResponseOK'
<1>1. CASE record'.status # "COMPLETED"
  BY <1>1 DEF ResponseOK
<1>2. CASE UNCHANGED record
  BY <1>2, DoneIsFinal DEF ResponseOK
<1>3. ASSUME NEW r \in Requests, Finish(r) PROVE ResponseOK'
  BY <1>3, FinishSteps DEF ResponseOK
<1>4. ASSUME NEW r \in Requests, Insert(r) \/ Recover(r) PROVE record'.status # "COMPLETED"
  BY <1>4 DEF Insert, Recover, Absent, TypeOK, Records
<1>5. CASE Purge
  BY <1>1, <1>5 DEF Purge, Absent
<1> QED
  BY <1>1, <1>2, <1>3, <1>4, <1>5
     DEF Next, Begin, End, Tick, Refuse, Conflict, Replay, FinishPurged, Execute, Crash, vars

LEMMA NextReplays ==
  ASSUME TypeOK, ResponseOK, ReplayAnswersItsRequest, AnsweredOK, [Next]_vars
  PROVE  ReplayAnswersItsRequest'
<1> DEFINE Fine(s) == answer[s].by # Nobody => /\ HashOf[answer[s].by] = HashOf[s]
                                               /\ EndpointOf[answer[s].by] = EndpointOf[s]
<1>1. ASSUME NEW s \in Requests, answer'[s] = answer[s] PROVE Fine(s)'
  BY <1>1 DEF ReplayAnswersItsRequest
<1>2. ASSUME NEW r \in Requests, NEW kind, NEW by, Reply(r, kind, by),
             by # Nobody => HashOf[by] = HashOf[r] /\ EndpointOf[by] = EndpointOf[r]
      PROVE  ReplayAnswersItsRequest'
  <2>1. Fine(r)'
    <3>1. answer'[r].by = by
      BY <1>2, ReplySteps
    <3> QED
      BY <1>2, <3>1
  <2>2. ASSUME NEW s \in Requests \ {r} PROVE Fine(s)'
    BY <1>1, <1>2, ReplySteps
  <2> QED
    BY <2>1, <2>2 DEF ReplayAnswersItsRequest
<1>3. ASSUME NEW r \in Requests, Refuse(r) \/ Conflict(r) \/ Finish(r) \/ FinishPurged(r)
      PROVE  ReplayAnswersItsRequest'
  BY <1>2, <1>3 DEF Refuse, Conflict, Finish, FinishPurged
<1>4. ASSUME NEW r \in Requests, Replay(r) PROVE ReplayAnswersItsRequest'
  BY <1>2, <1>4 DEF Replay, SameEndpoint, Reused, ResponseOK
<1>5. CASE UNCHANGED answer
  BY <1>1, <1>5 DEF ReplayAnswersItsRequest
<1> QED
  BY <1>3, <1>4, <1>5 DEF Next, Begin, End, Tick, Purge, Insert, Recover, Execute, Crash, vars

\* A request that has begun keeps the row it began with.
LEMMA RowsStay ==
  ASSUME TypeOK, [Next]_vars, NEW r \in Requests, request[r].pc # "new"
  PROVE  request'[r].row = request[r].row
<1>1. ASSUME NEW s \in Requests, NEW kind, NEW by, Reply(s, kind, by)
      PROVE  request'[r].row = request[r].row
  BY <1>1, ReplySteps
<1>2. ASSUME NEW s \in Requests,
             Refuse(s) \/ Conflict(s) \/ Replay(s) \/ Finish(s) \/ FinishPurged(s)
      PROVE  request'[r].row = request[r].row
  BY <1>1, <1>2 DEF Refuse, Conflict, Replay, Finish, FinishPurged
<1>3. ASSUME NEW s \in Requests, Insert(s) \/ Recover(s)
      PROVE  request'[r].row = request[r].row
  BY <1>3 DEF Insert, Recover, Proceed, TypeOK
<1>4. ASSUME NEW s \in Requests, Execute(s) \/ Crash(s)
      PROVE  request'[r].row = request[r].row
  <2>1. request[r] \in Stages /\ request[s] \in Stages
    BY DEF TypeOK
  <2>2. CASE r = s
    BY <1>4, <2>1, <2>2 DEF Execute, Crash, TypeOK, Stages
  <2>3. CASE r # s
    BY <1>4, <2>3 DEF Execute, Crash, TypeOK
  <2> QED
    BY <2>2, <2>3
<1>5. CASE UNCHANGED request
  BY <1>5
<1> QED
  BY <1>2, <1>3, <1>4, <1>5 DEF Next, Begin, End, Tick, Purge, vars

\* A client is told of its execution when the request finishes.
LEMMA NewlyTold ==
  ASSUME TypeOK, ResponseOK, AnsweredOK, [Next]_vars, NEW x \in effects', Told(x, "2xx")'
  PROVE  \/ x \in effects /\ Told(x, "2xx")
         \/ Finish(x) /\ x \in effects
<1>1. CASE UNCHANGED <<answer, effects>>
  BY <1>1 DEF Told
<1>2. ASSUME NEW r \in Requests, NEW kind, NEW by, Reply(r, kind, by), UNCHANGED effects, x # r
      PROVE  x \in effects /\ Told(x, "2xx")
  <2>1. x \in effects /\ x \in Requests \ {r}
    BY <1>2 DEF TypeOK
  <2>2. answer'[x] = answer[x]
    BY <1>2, <2>1, ReplySteps
  <2> QED
    BY <2>1, <2>2 DEF Told
<1>3. ASSUME NEW r \in Requests, NEW kind, NEW by, Reply(r, kind, by), UNCHANGED effects,
             by = r => kind # "2xx"
      PROVE  x \in effects /\ Told(x, "2xx")
  <2>1. x # r
    <3>1. answer'[r].kind = kind /\ answer'[r].by = by
      BY <1>3, ReplySteps
    <3> QED
      BY <1>3, <3>1 DEF Told
  <2> QED
    BY <1>2, <1>3, <2>1
<1>4. ASSUME NEW r \in Requests, Finish(r) PROVE x \in effects /\ (Told(x, "2xx") \/ Finish(x))
  <2>1. CASE x = r
    BY <1>4, <2>1 DEF Finish
  <2>2. CASE x # r
    BY <1>2, <1>4, <2>2 DEF Finish
  <2> QED
    BY <2>1, <2>2
<1>5. ASSUME NEW r \in Requests, Refuse(r) \/ Conflict(r) \/ FinishPurged(r)
      PROVE  x \in effects /\ Told(x, "2xx")
  BY <1>3, <1>5, IdempotencyAssumption DEF Refuse, Conflict, FinishPurged
<1>6. ASSUME NEW r \in Requests, Replay(r) PROVE x \in effects /\ Told(x, "2xx")
  <2>1. record.response.by # r
    BY <1>6 DEF Replay, ResponseOK
  <2> QED
    BY <1>3, <1>6, <2>1 DEF Replay
<1>7. ASSUME NEW r \in Requests, Execute(r) PROVE x \in effects /\ Told(x, "2xx")
  <2>1. answer[r] = NoAnswer
    BY <1>7 DEF Execute, AnsweredOK
  <2>2. x # r
    BY <1>7, <2>1 DEF Execute, Told, NoAnswer
  <2> QED
    BY <1>7, <2>2 DEF Execute, Told
<1> QED
  BY <1>1, <1>4, <1>5, <1>6, <1>7
     DEF Next, Begin, End, Tick, Purge, Insert, Recover, Crash, vars

\* The row is there from the INSERT to the purge; only Finish completes it.
LEMMA RowSteps ==
  ASSUME TypeOK, HoldingOK, [Next]_vars
  PROVE  \/ record' = record
         \/ record'.id = Nobody
         \/ \E r \in Requests : record'.id = r /\ request[r].pc = "new"
         \/ record'.id = record.id /\ record.status # "COMPLETED"
<1>1. ASSUME NEW r \in Requests, Insert(r)
      PROVE  record'.id = r /\ request[r].pc = "new"
  BY <1>1 DEF Insert, Absent
<1>2. ASSUME NEW r \in Requests, Recover(r)
      PROVE  record'.id = record.id /\ record.status # "COMPLETED"
  BY <1>2 DEF Recover, Recoverable, TypeOK, Records
<1>3. ASSUME NEW r \in Requests, Finish(r)
      PROVE  record'.id = record.id /\ record.status # "COMPLETED"
  <2>1. record.status = "IN_PROGRESS"
    BY <1>3, FinishSteps
  <2> QED
    BY <1>3, <2>1 DEF Finish, Saved, TypeOK, Records
<1>4. CASE Purge
  BY <1>4 DEF Purge, Absent
<1> QED
  BY <1>1, <1>2, <1>3, <1>4
     DEF Next, Begin, End, Tick, Refuse, Conflict, Replay, FinishPurged, Execute, Crash, vars

\* What a request that is told of its execution leaves in the row.
LEMMA ToldByFinish ==
  ASSUME TypeOK, HoldingOK, NEW x \in Requests, Finish(x), Told(x, "2xx")'
  PROVE  /\ request[x].row = record.id /\ record.status = "IN_PROGRESS"
         /\ record'.id = record.id
         /\ record'.status = "COMPLETED" /\ record'.response.by = x
<1>1. request[x].result = "2xx"
  BY FinishSteps DEF Told
<1>2. request[x].row = record.id /\ record'.id = record.id
  BY DEF Finish, Saved, TypeOK, Records
<1> QED
  BY <1>1, <1>2, FinishSteps

\* An execution is told under a row that remembers none, and remembered from then on.
LEMMA NextRememberedOK ==
  ASSUME TypeOK, NamesOK, HoldingOK, ResponseOK, AnsweredOK, RememberedOK, [Next]_vars
  PROVE  RememberedOK'
<1> effects \subseteq Requests /\ effects' \subseteq Requests
  BY NextTypeOK DEF TypeOK
<1>1. ASSUME NEW x \in effects'
      PROVE  request[x].pc # "new" /\ request[x].row # Nobody
  <2>1. CASE x \in effects
    BY <2>1 DEF AnsweredOK, RememberedOK
  <2>2. CASE x \notin effects
    <3>1. Execute(x)
      BY <1>1, <2>2 DEF Next, Begin, End, Tick, Purge, Insert, Recover, Refuse, Conflict, Replay,
                        Finish, FinishPurged, Execute, Crash, vars
    <3> QED
      BY <3>1 DEF Execute, HoldingOK, Running
  <2> QED
    BY <2>1, <2>2
<1>2. \A x \in effects' : request'[x].row = request[x].row
  BY <1>1, RowsStay
<1>3. ASSUME NEW x \in effects', Told(x, "2xx")', request'[x].row = record'.id
      PROVE  record'.status = "COMPLETED" /\ record'.response.by = x
  <2>1. CASE Finish(x)
    BY <1>3, <2>1, ToldByFinish
  <2>2. CASE x \in effects /\ Told(x, "2xx")
    <3>1. request[x].row = record'.id
      BY <1>2, <1>3
    <3>2. record'.id # Nobody
      BY <1>1, <3>1
    <3>3. ASSUME NEW r \in Requests, record'.id = r, request[r].pc = "new" PROVE FALSE
      BY <1>1, <3>1, <3>3 DEF NamesOK
    <3>4. CASE record'.id = record.id
      BY <2>2, <3>1, <3>2, <3>3, <3>4, RowSteps DEF RememberedOK
    <3> QED
      BY <3>2, <3>3, <3>4, RowSteps
  <2> QED
    BY <1>3, <2>1, <2>2, NewlyTold
<1>4. ASSUME NEW x \in effects', NEW y \in effects', Told(x, "2xx")', Told(y, "2xx")',
             request'[y].row = request'[x].row
      PROVE  y = x
  <2>1. request[y].row = request[x].row
    BY <1>2, <1>4
  <2>2. ASSUME NEW a \in effects', NEW b \in effects', Finish(a), Told(a, "2xx")',
               b \in effects, Told(b, "2xx"), request[b].row = request[a].row
        PROVE  FALSE
    BY <2>2, ToldByFinish DEF RememberedOK
  <2>3. CASE Finish(x) /\ Finish(y)
    <3>1. record'.response.by = x /\ record'.response.by = y
      BY <1>4, <2>3, ToldByFinish
    <3> QED
      BY <3>1
  <2>4. CASE x \in effects /\ Told(x, "2xx") /\ y \in effects /\ Told(y, "2xx")
    BY <2>1, <2>4 DEF RememberedOK
  <2>5. CASE Finish(x) /\ y \in effects /\ Told(y, "2xx")
    BY <1>4, <2>1, <2>2, <2>5
  <2>6. CASE Finish(y) /\ x \in effects /\ Told(x, "2xx")
    BY <1>4, <2>1, <2>2, <2>6
  <2> QED
    BY <1>4, <2>3, <2>4, <2>5, <2>6, NewlyTold
<1> QED
  BY <1>1, <1>2, <1>3, <1>4 DEF RememberedOK

LEMMA NextIInv ==
  ASSUME GuardOutlastsRequests, IInv, [Next]_vars
  PROVE  IInv'
BY NextTypeOK, NextNamesOK, NextHoldingOK, NextAnsweredOK, NextResponseOK, NextReplays,
   NextRememberedOK
   DEF IInv

LEMMA SpecIInv ==
  ASSUME GuardOutlastsRequests
  PROVE  Spec => []IInv
BY InitIInv, NextIInv, PTL DEF Spec

-----------------------------------------------------------------------------
(* The theorems. *)

\* The variables have the types of the columns and the outcomes they stand for
\* (IdempotencyRecord, and the BeginOutcome of begin()), guard or no guard.
THEOREM IdempotencyTypeOK == Spec => []TypeOK
<1>1. Init => TypeOK
  BY InitIInv DEF IInv
<1> QED
  BY <1>1, NextTypeOK, PTL DEF Spec

\* An answer that a client gets by replay, or by executing, is the answer to its
\* own body on its own endpoint (begin(): the order of its checks).
THEOREM ReplaysAreTheSameRequest ==
  ASSUME GuardOutlastsRequests
  PROVE  Spec => []ReplayAnswersItsRequest
BY SpecIInv, PTL DEF IInv

\* At most one of the executions under a row of the key had its effect and was told
\* to its client (begin(), complete() and fail(), with takeovers and crashes), whether
\* the row is still there or was purged.
THEOREM AnsweredOnce ==
  ASSUME GuardOutlastsRequests
  PROVE  Spec => []OneAnsweredEffect
<1>1. IInv => OneAnsweredEffect
  <2> SUFFICES ASSUME IInv, NEW i \in Requests
               PROVE  Cardinality({r \in effects : request[r].row = i /\ Told(r, "2xx")}) <= 1
    BY DEF OneAnsweredEffect
  <2> DEFINE T == {r \in effects : request[r].row = i /\ Told(r, "2xx")}
  <2>1. \A r, s \in T : r = s
    BY DEF IInv, RememberedOK
  <2>2. Cardinality(T) <= 1
    <3> HIDE DEF T
    <3>1. CASE T = {}
      BY <3>1, FS_EmptySet
    <3>2. CASE T # {}
      <4>1. PICK r \in T : T = {r}
        BY <2>1, <3>2
      <4>2. Cardinality({r}) = 1
        BY FS_Singleton
      <4> QED
        BY <4>1, <4>2
    <3> QED
      BY <3>1, <3>2
  <2> QED
    BY <2>2
<1> QED
  BY <1>1, SpecIInv, PTL

-----------------------------------------------------------------------------
(* One account: its sessions, tokens, codes and passwords. *)

Devices == [fp : Nat, status : {"pending", "active", "revoked"}]
SessionRecords == [client : {"WEB", "MOBILE"}, device : Nat, token : Nat, revoked : BOOLEAN,
                   level : {1, 2}, spends : Nat]
Challenges == [id : Nat, open : BOOLEAN, attempts : Nat, session : Nat, phone : Nat,
               accepted : Nat, served : Nat]

\* The stages of a request that serves an accepted code, by purpose.
Serving ==
  [STEP_UP |-> {"stepping"}, DEVICE_RESET |-> {"unbinding", "unbound", "resetting"},
   PASSWORD_RESET |-> {"recovering", "recovered"}, PHONE_CHANGE |-> {"confirming", "replacing"}]

RequestStages ==
  {"idle", "verified", "login", "creating", "bound", "rotating", "reused", "checked",
   "changing", "renewing", "asking"}
    \cup DOMAIN Serving \cup UNION {Serving[p] : p \in DOMAIN Serving}
Lockable == ({"user", "session", "device"} \cup DOMAIN Serving) \X Nat
RequestStates ==
  [pc : RequestStages, client : {"WEB", "MOBILE"}, fp : Nat, temp : BOOLEAN, phone : Nat,
   dev : Nat, token : Nat, session : Nat, ends : SUBSET Nat, locks : SUBSET Lockable]

IdentityTypeOK ==
  /\ account \in [gen : Nat \ {0}, temp : BOOLEAN, used : BOOLEAN]
  /\ devices \in Seq(Devices)
  /\ sessions \in Seq(SessionRecords)
  /\ tokens \in Seq(Nat) /\ exchanged \in Seq(Nat)
  /\ reused \in SUBSET Nat
  /\ work \in [Workers -> RequestStates]
  /\ challenge \in [Purposes -> Challenges]
  /\ phone \in Nat

\* A row is locked by one transaction at a time.
LocksOK == \A v, w \in Workers : v # w => work[v].locks \cap work[w].locks = {}

WebSessions == {s \in Live : sessions[s].client = "WEB"}

\* A login holds the sessions it ends; on the web, and with a temporary password, it
\* holds the account, has found every web session and the password is still unused.
LoginOK(w) ==
  work[w].pc \in {"login", "creating", "bound"} =>
    /\ Rows(work[w].ends) \subseteq work[w].locks
    /\ work[w].client = "WEB" => UserRow \in work[w].locks /\ WebSessions \subseteq work[w].ends
    /\ work[w].temp => UserRow \in work[w].locks /\ ~account.used

\* A refresh knows the family of its token.
RefreshOK(w) ==
  /\ At(w, "rotating") => /\ work[w].token \in DOMAIN tokens
                          /\ work[w].session = tokens[work[w].token]
  /\ At(w, "reused") => work[w].session \in DOMAIN sessions

\* Who sets a new password or resets the device holds every session it ends, and the
\* account when it writes there.
EndingOK(w) ==
  /\ work[w].pc \in {"changing", "renewing", "recovered"} => UserRow \in work[w].locks
  /\ work[w].pc \in {"changing", "renewing", "recovered", "resetting"} =>
       Rows(work[w].ends) \subseteq work[w].locks

\* Who serves an accepted code holds its challenge, which is open and its own, and
\* before the number is replaced the session, which is alive.
ServingOK(w) ==
  /\ \A p \in DOMAIN Serving : work[w].pc \in Serving[p] =>
       /\ p \in Purposes /\ ChallengeRow(p) \in work[w].locks
       /\ challenge[p].open
       /\ p \in OfSession => work[w].session = challenge[p].session
       /\ p = "PHONE_CHANGE" => work[w].phone = challenge[p].phone
  /\ At(w, "replacing") => /\ work[w].session \in Live
                           /\ SessionRow(work[w].session) \in work[w].locks

WorkerOK(w) == LoginOK(w) /\ RefreshOK(w) /\ EndingOK(w) /\ ServingOK(w)
WorkersOK == \A w \in Workers : WorkerOK(w)

\* A token that was exchanged is no longer its family's current one.
TokensOK ==
  /\ Len(exchanged) = Len(tokens)
  /\ reused \subseteq DOMAIN sessions
  /\ \A j \in DOMAIN tokens :
       /\ tokens[j] \in DOMAIN sessions
       /\ exchanged[j] # 0 => sessions[tokens[j]].token # j

\* Sessions opened with the present temporary password are why it counts as used.
SpendsOK ==
  \A s \in DOMAIN sessions :
    sessions[s].spends <= account.gen /\ (sessions[s].spends = account.gen => account.used)

\* A code that was accepted is no longer open.
OpenOK == \A p \in Purposes : challenge[p].open => challenge[p].accepted = 0

RowsOK == /\ TokensOK /\ TokenExchangedOnce
          /\ SpendsOK /\ LoginsExclude
          /\ OpenOK /\ CodeAcceptedOnce

IdentityInv == IdentityTypeOK /\ LocksOK /\ WorkersOK /\ RowsOK

-----------------------------------------------------------------------------
(* Rows. *)

LEMMA MappedSeq ==
  ASSUME NEW T, NEW s \in Seq(T), NEW f, f = [i \in DOMAIN s |-> f[i]],
         \A i \in DOMAIN s : f[i] \in T
  PROVE  f \in Seq(T) /\ Len(f) = Len(s) /\ DOMAIN f = DOMAIN s
<1>1. DOMAIN s = 1..Len(s) /\ Len(s) \in Nat
  BY LenProperties
<1>2. f \in [1..Len(s) -> T]
  BY <1>1
<1>3. f \in Seq(T)
  BY <1>1, <1>2, SeqDef
<1>4. DOMAIN f = 1..Len(f) /\ Len(f) \in Nat
  BY <1>3, LenProperties
<1> QED
  BY <1>1, <1>2, <1>3, <1>4

LEMMA RevokedRows ==
  ASSUME IdentityTypeOK, NEW S
  PROVE  /\ Revoked(S) \in Seq(SessionRecords) /\ Len(Revoked(S)) = Len(sessions)
         /\ DOMAIN Revoked(S) = DOMAIN sessions
         /\ \A s \in DOMAIN sessions :
              /\ Revoked(S)[s].revoked = (sessions[s].revoked \/ s \in S)
              /\ Revoked(S)[s].client = sessions[s].client
              /\ Revoked(S)[s].token = sessions[s].token
              /\ Revoked(S)[s].spends = sessions[s].spends
              /\ s \notin Live => Revoked(S)[s] = sessions[s]
<1> DEFINE f == Revoked(S)
<1>1. \A s \in DOMAIN sessions : sessions[s] \in SessionRecords
  BY LenProperties, ElementOfSeq DEF IdentityTypeOK
<1>2. /\ f = [s \in DOMAIN sessions |-> f[s]]
      /\ \A s \in DOMAIN sessions :
           f[s] = IF s \in S THEN [sessions[s] EXCEPT !.revoked = TRUE] ELSE sessions[s]
  BY DEF Revoked
<1>3. ASSUME NEW s \in DOMAIN sessions
      PROVE  /\ f[s] \in SessionRecords
             /\ f[s].revoked = (sessions[s].revoked \/ s \in S)
             /\ f[s].client = sessions[s].client
             /\ f[s].token = sessions[s].token
             /\ f[s].spends = sessions[s].spends
             /\ s \notin Live => f[s] = sessions[s]
  <2>1. sessions[s] \in SessionRecords
    BY <1>1
  <2>2. s \notin Live => sessions[s].revoked = TRUE
    BY <2>1 DEF Live, SessionRecords
  <2>3. CASE s \in S
    <3>1. f[s] = [sessions[s] EXCEPT !.revoked = TRUE]
      BY <1>2, <2>3
    <3> HIDE DEF f
    <3> QED
      BY <2>1, <2>2, <2>3, <3>1 DEF SessionRecords
  <2>4. CASE s \notin S
    <3>1. f[s] = sessions[s]
      BY <1>2, <2>4
    <3> HIDE DEF f
    <3> QED
      BY <2>1, <2>4, <3>1 DEF SessionRecords
  <2> QED
    BY <2>3, <2>4
<1> HIDE DEF f
<1>4. f \in Seq(SessionRecords) /\ Len(f) = Len(sessions) /\ DOMAIN f = DOMAIN sessions
  <2>1. sessions \in Seq(SessionRecords)
    BY DEF IdentityTypeOK
  <2> QED
    BY <1>2, <1>3, <2>1, MappedSeq
<1> QED
  BY <1>3, <1>4 DEF f

LEMMA IdleType == Idle \in RequestStates /\ Idle.pc = "idle" /\ Idle.locks = {}
BY DEF Idle, RequestStates, RequestStages

LEMMA TurnType ==
  ASSUME IdentityTypeOK, NEW w \in Workers, NEW new \in RequestStates, Turn(w, new)
  PROVE  /\ work' \in [Workers -> RequestStates]
         /\ work'[w] = new
         /\ \A v \in Workers \ {w} : work'[v] = work[v]
BY DEF Turn, IdentityTypeOK

-----------------------------------------------------------------------------
(* Steps of one request while the others wait. *)

\* The challenge of the code that v serves stays as it is.
CodeKept(v) == \A p \in DOMAIN Serving : work[v].pc \in Serving[p] => challenge'[p] = challenge[p]

\* What a request's locks protect from the others.
LEMMA OthersOK ==
  ASSUME IdentityTypeOK, NEW v \in Workers, WorkerOK(v), work'[v] = work[v],
         UserRow \in work[v].locks => account' = account /\ WebSessions' \subseteq WebSessions,
         \A s \in Live : SessionRow(s) \in work[v].locks => s \in Live',
         CodeKept(v),
         \A j \in DOMAIN tokens : j \in DOMAIN tokens' /\ tokens'[j] = tokens[j],
         DOMAIN sessions \subseteq DOMAIN sessions'
  PROVE  WorkerOK(v)'
<1>1. LoginOK(v)'
  BY DEF WorkerOK, LoginOK, Rows, SessionRow, UserRow
<1>2. RefreshOK(v)'
  BY DEF WorkerOK, RefreshOK, At
<1>3. EndingOK(v)'
  BY DEF WorkerOK, EndingOK, Rows, SessionRow, UserRow
<1>4. ServingOK(v)'
  BY DEF WorkerOK, ServingOK, At, SessionRow, ChallengeRow, CodeKept
<1> QED
  BY <1>1, <1>2, <1>3, <1>4 DEF WorkerOK

\* What the rows' conditions speak of.
tables == <<account, sessions, tokens, exchanged, reused, challenge>>

\* A request goes on and writes nothing.
LEMMA QuietStep ==
  ASSUME IdentityInv, NEW w \in Workers, NEW new \in RequestStates, Turn(w, new),
         UNCHANGED tables, phone' = phone, devices' \in Seq(Devices),
         Free(new.locks, w), WorkerOK(w)'
  PROVE  IdentityInv'
<1>0. IdentityTypeOK /\ LocksOK /\ WorkersOK /\ RowsOK
  BY DEF IdentityInv
<1>1. /\ work' \in [Workers -> RequestStates] /\ work'[w] = new
      /\ \A v \in Workers \ {w} : work'[v] = work[v]
  BY <1>0, TurnType
<1>2. IdentityTypeOK'
  BY <1>0, <1>1 DEF IdentityTypeOK, tables
<1>3. LocksOK'
  BY <1>0, <1>1 DEF LocksOK, Free
<1>4. WorkersOK'
  <2>1. \A v \in Workers \ {w} : WorkerOK(v)'
    BY <1>0, <1>1, OthersOK DEF WorkersOK, tables, WebSessions, Live, CodeKept
  <2> QED
    BY <2>1 DEF WorkersOK
<1>5. RowsOK'
  BY <1>0 DEF tables, RowsOK, TokensOK, TokenExchangedOnce, SpendsOK, LoginsExclude, OpenOK,
              CodeAcceptedOnce, Live
<1> QED
  BY <1>2, <1>3, <1>4, <1>5 DEF IdentityInv

\* A request writes, or gives up, and is over.
LEMMA LastStep ==
  ASSUME IdentityInv, NEW w \in Workers, IdentityTypeOK', RowsOK',
         work'[w].pc = "idle", work'[w].locks \subseteq work[w].locks,
         \A v \in Workers \ {w} :
           /\ work'[v] = work[v]
           /\ UserRow \in work[v].locks => account' = account /\ WebSessions' \subseteq WebSessions
           /\ \A s \in Live : SessionRow(s) \in work[v].locks => s \in Live'
           /\ CodeKept(v),
         \A j \in DOMAIN tokens : j \in DOMAIN tokens' /\ tokens'[j] = tokens[j],
         DOMAIN sessions \subseteq DOMAIN sessions'
  PROVE  IdentityInv'
<1>0. IdentityTypeOK /\ LocksOK /\ WorkersOK
  BY DEF IdentityInv
<1>1. LocksOK'
  BY <1>0 DEF LocksOK
<1>2. WorkerOK(w)'
  BY DEF WorkerOK, LoginOK, RefreshOK, EndingOK, ServingOK, At, Serving
<1>3. \A v \in Workers \ {w} : WorkerOK(v)'
  BY <1>0, OthersOK DEF WorkersOK
<1>4. WorkersOK'
  BY <1>2, <1>3 DEF WorkersOK
<1> QED
  BY <1>1, <1>4 DEF IdentityInv

-----------------------------------------------------------------------------
(* The steps that write nothing. *)

LEMMA LockTypes ==
  ASSUME IdentityTypeOK
  PROVE  /\ Live \in SUBSET Nat /\ Live \subseteq DOMAIN sessions
         /\ \A S \in SUBSET Nat : Rows(S) \in SUBSET Lockable
         /\ {UserRow, NewDevice} \in SUBSET Lockable
         /\ \A s \in Nat : SessionRow(s) \in Lockable
         /\ \A p \in Purposes : ChallengeRow(p) \in Lockable
         /\ ActiveDevice \in SUBSET Nat
<1>1. DOMAIN sessions \subseteq Nat /\ DOMAIN devices \subseteq Nat
  BY LenProperties DEF IdentityTypeOK
<1>2. Live \in SUBSET Nat /\ Live \subseteq DOMAIN sessions /\ ActiveDevice \in SUBSET Nat
  BY <1>1 DEF Live, ActiveDevice
<1> QED
  BY <1>1, <1>2, IdentityAssumption DEF Lockable, Serving, Rows, UserRow, NewDevice, SessionRow, ChallengeRow

\* A request that ends without writing.
LEMMA GivesUp ==
  ASSUME IdentityInv, NEW w \in Workers, Done(w),
         UNCHANGED tables, phone' = phone, devices' \in Seq(Devices)
  PROVE  IdentityInv'
<1>1. Turn(w, Idle)
  BY DEF Done
<1>2. work'[w] = Idle
  BY <1>1, TurnType, IdleType DEF IdentityInv
<1>3. Free(Idle.locks, w)
  BY IdleType DEF Free
<1>4. WorkerOK(w)'
  BY <1>2, IdleType DEF WorkerOK, LoginOK, RefreshOK, EndingOK, ServingOK, At, Serving
<1> QED
  BY <1>1, <1>3, <1>4, IdleType, QuietStep

\* A request at a stage about which nothing is said.
Quiet == {"verified", "checked", "asking"} \cup DOMAIN Serving

LEMMA QuietStage ==
  ASSUME IdentityInv, NEW w \in Workers, NEW new \in RequestStates, Turn(w, new), new.pc \in Quiet,
         SessionsSame, CodesSame, Free(new.locks, w)
  PROVE  IdentityInv'
<1>1. work'[w] = new
  BY TurnType DEF IdentityInv
<1>2. WorkerOK(w)'
  BY <1>1 DEF Quiet, WorkerOK, LoginOK, RefreshOK, EndingOK, ServingOK, At, Serving
<1> QED
  BY <1>2, QuietStep DEF SessionsSame, CodesSame, tables, IdentityInv, IdentityTypeOK

LEMMA VerifyStep ==
  ASSUME IdentityInv, NEW w \in Workers, NEW l \in Logins, VerifyCredentials(w, l[1], l[2]), CodesSame
  PROVE  IdentityInv'
<1> DEFINE new == [Idle EXCEPT !.pc = "verified", !.client = l[1], !.fp = l[2],
                               !.temp = account.temp]
<1>1. l[1] \in {"WEB", "MOBILE"} /\ l[2] \in Nat /\ account.temp \in BOOLEAN
  BY SessionsAssumption DEF IdentityInv, IdentityTypeOK
<1>2. new \in RequestStates /\ new.pc = "verified" /\ new.locks = {}
  BY <1>1 DEF Idle, RequestStates, RequestStages
<1>3. Turn(w, new) /\ SessionsSame
  BY DEF VerifyCredentials, SessionsSame
<1> HIDE DEF new
<1> QED
  BY <1>2, <1>3, QuietStage DEF Quiet, Free

LEMMA CheckStep ==
  ASSUME IdentityInv, NEW w \in Workers, CheckPassword(w), CodesSame
  PROVE  IdentityInv'
<1> DEFINE new == [Idle EXCEPT !.pc = "checked"]
<1>1. new \in RequestStates /\ new.pc = "checked" /\ new.locks = {}
  BY DEF Idle, RequestStates, RequestStages
<1>2. Turn(w, new) /\ SessionsSame
  BY DEF CheckPassword, SessionsSame
<1> HIDE DEF new
<1> QED
  BY <1>1, <1>2, QuietStage DEF Quiet, Free

LEMMA AskStep ==
  ASSUME IdentityInv, NEW w \in Workers, NEW s \in Live, NEW number \in Phones, AskForPhone(w, s, number)
  PROVE  IdentityInv'
<1> DEFINE new == [Idle EXCEPT !.pc = "asking", !.session = s, !.phone = number]
<1>1. s \in Nat /\ number \in Nat
  BY LockTypes, IdentityAssumption DEF IdentityInv
<1>2. new \in RequestStates /\ new.pc = "asking" /\ new.locks = {}
  BY <1>1 DEF Idle, RequestStates, RequestStages
<1>3. Turn(w, new) /\ SessionsSame /\ CodesSame
  BY DEF AskForPhone
<1> HIDE DEF new
<1> QED
  BY <1>2, <1>3, QuietStage DEF Quiet, Free

LEMMA LockRequestStep ==
  ASSUME IdentityInv, NEW w \in Workers, NEW p \in DOMAIN Serving, NEW s \in Nat, LockRequest(w, p, s)
  PROVE  IdentityInv'
<1> DEFINE rows == {UserRow} \cup IF p \in OfSession THEN {SessionRow(s)} ELSE {}
           new == [work[w] EXCEPT !.pc = p, !.session = s, !.locks = rows]
<1>1. rows \in SUBSET Lockable
  BY LockTypes DEF IdentityInv
<1>2. work[w] \in RequestStates /\ p \in RequestStages
  BY DEF IdentityInv, IdentityTypeOK, RequestStages
<1>3. Free(rows, w) /\ Turn(w, new) /\ SessionsSame /\ CodesSame
  BY DEF LockRequest
<1> HIDE DEF rows
<1>4. new \in RequestStates /\ new.pc = p /\ new.locks = rows
  BY <1>1, <1>2 DEF RequestStates
<1> HIDE DEF new
<1> QED
  BY <1>3, <1>4, QuietStage DEF Quiet

LEMMA BeginRequestSteps ==
  ASSUME IdentityInv, NEW w \in Workers,
         \/ \E p \in Purposes, s \in Live \cup {0} : BeginRequest(w, p, s)
         \/ BeginPhoneRequest(w)
  PROVE  IdentityInv'
<1>1. CASE \E p \in Purposes, s \in Live \cup {0} : BeginRequest(w, p, s)
  <2>1. PICK p \in Purposes, s \in Live \cup {0} : LockRequest(w, p, s)
    BY <1>1 DEF BeginRequest
  <2>2. s \in Nat /\ p \in DOMAIN Serving
    BY LockTypes, IdentityAssumption DEF IdentityInv, Serving
  <2> QED
    BY <2>1, <2>2, LockRequestStep
<1>2. CASE BeginPhoneRequest(w)
  <2>1. LockRequest(w, "PHONE_CHANGE", work[w].session)
    BY <1>2 DEF BeginPhoneRequest
  <2>2. "PHONE_CHANGE" \in DOMAIN Serving
    BY DEF Serving
  <2> QED
    BY <2>1, <2>2, LockRequestStep DEF IdentityInv, IdentityTypeOK, RequestStates
<1> QED
  BY <1>1, <1>2

LEMMA BeginLoginStep ==
  ASSUME IdentityInv, NEW w \in Workers, BeginLogin(w), CodesSame
  PROVE  IdentityInv'
<1> DEFINE locked == IF LocksUser(w) THEN {UserRow} ELSE {}
           rows == locked \cup Rows(Ends(w))
           pc == IF work[w].fp = 0 THEN "bound" ELSE "login"
           new == [work[w] EXCEPT !.pc = pc, !.temp = MustChange(w), !.ends = Ends(w),
                                  !.locks = rows]
<1>0. IdentityTypeOK /\ work[w] \in RequestStates /\ account.temp \in BOOLEAN
  BY DEF IdentityInv, IdentityTypeOK
<1>1. Ends(w) \in SUBSET Nat /\ MustChange(w) \in BOOLEAN /\ pc \in {"bound", "login"}
  BY <1>0, LockTypes DEF Ends, MustChange, RequestStates
<1>2. rows \in SUBSET Lockable
  BY <1>0, <1>1, LockTypes
<1>3. Turn(w, new) /\ Free(rows, w) /\ ~(MustChange(w) /\ account.used) /\ SessionsSame
  BY DEF BeginLogin, UsedTemporary, SessionsSame
<1>4. /\ MustChange(w) => UserRow \in rows
      /\ work[w].client = "WEB" => UserRow \in rows /\ WebSessions \subseteq Ends(w)
      /\ Rows(Ends(w)) \subseteq rows
  BY DEF MustChange, LocksUser, WebSessions, Ends
<1> HIDE DEF rows, pc
<1>5. /\ new \in RequestStates /\ new.pc = pc /\ new.temp = MustChange(w) /\ new.ends = Ends(w)
      /\ new.locks = rows /\ new.client = work[w].client
  BY <1>0, <1>1, <1>2 DEF RequestStates, RequestStages
<1> HIDE DEF new
<1>6. work'[w] = new
  BY <1>0, <1>3, <1>5, TurnType
<1>7. LoginOK(w)'
  BY <1>3, <1>4, <1>5, <1>6
     DEF LoginOK, SessionsSame, WebSessions, Live, Rows, SessionRow, UserRow
<1>8. WorkerOK(w)'
  BY <1>1, <1>5, <1>6, <1>7 DEF WorkerOK, RefreshOK, EndingOK, ServingOK, At, Serving
<1> QED
  BY <1>0, <1>3, <1>5, <1>8, QuietStep DEF SessionsSame, CodesSame, tables, IdentityTypeOK

\* Between two stages of a login only the device may change.
LEMMA LoginGoesOn ==
  ASSUME IdentityInv, NEW w \in Workers, work[w].pc \in {"login", "creating"}, NEW new \in RequestStates,
         Turn(w, new), new.pc \in {"creating", "bound"}, new.client = work[w].client,
         new.temp = work[w].temp, new.ends = work[w].ends, work[w].locks \subseteq new.locks,
         Free(new.locks, w), devices' \in Seq(Devices), UNCHANGED tables, CodesSame
  PROVE  IdentityInv'
<1>1. work'[w] = new /\ LoginOK(w)
  BY TurnType DEF IdentityInv, WorkersOK, WorkerOK
<1>2. LoginOK(w)'
  BY <1>1 DEF LoginOK, tables, WebSessions, Live, Rows, SessionRow, UserRow
<1>3. WorkerOK(w)'
  BY <1>1, <1>2 DEF WorkerOK, RefreshOK, EndingOK, ServingOK, At, Serving
<1> QED
  BY <1>3, QuietStep DEF CodesSame

LEMMA BindStep ==
  ASSUME IdentityInv, NEW w \in Workers, BindDevice(w), CodesSame
  PROVE  IdentityInv'
<1>0. IdentityTypeOK /\ work[w] \in RequestStates /\ work[w].pc = "login" /\ UNCHANGED tables
      /\ devices' \in Seq(Devices) /\ Free(work[w].locks, w)
  BY DEF IdentityInv, IdentityTypeOK, BindDevice, At, tables, CodesSame, LocksOK, Free
<1>1. CASE Turn(w, [work[w] EXCEPT !.pc = "creating"])
  <2> DEFINE new == [work[w] EXCEPT !.pc = "creating"]
  <2>1. /\ new \in RequestStates /\ new.pc = "creating" /\ new.client = work[w].client
        /\ new.temp = work[w].temp /\ new.ends = work[w].ends /\ new.locks = work[w].locks
    BY <1>0 DEF RequestStates, RequestStages
  <2> HIDE DEF new
  <2> QED
    BY <1>0, <1>1, <2>1, LoginGoesOn DEF new
<1>2. ASSUME NEW d \in ActiveDevice, Turn(w, [work[w] EXCEPT !.pc = "bound", !.dev = d])
      PROVE  IdentityInv'
  <2> DEFINE new == [work[w] EXCEPT !.pc = "bound", !.dev = d]
  <2>1. /\ new \in RequestStates /\ new.pc = "bound" /\ new.client = work[w].client
        /\ new.temp = work[w].temp /\ new.ends = work[w].ends /\ new.locks = work[w].locks
    BY <1>0, LockTypes DEF RequestStates, RequestStages
  <2> HIDE DEF new
  <2> QED
    BY <1>0, <1>2, <2>1, LoginGoesOn DEF new
<1>3. CASE Done(w)
  BY <1>0, <1>3, GivesUp DEF CodesSame
<1> QED
  BY <1>1, <1>2, <1>3 DEF BindDevice

LEMMA CreateStep ==
  ASSUME IdentityInv, NEW w \in Workers, CreateDevice(w), CodesSame
  PROVE  IdentityInv'
<1>0. IdentityTypeOK /\ work[w] \in RequestStates /\ work[w].pc = "creating" /\ UNCHANGED tables
      /\ Free(work[w].locks, w) /\ Free({NewDevice}, w)
  BY DEF IdentityInv, IdentityTypeOK, CreateDevice, At, tables, CodesSame, LocksOK, Free
<1>1. CASE ActiveDevice = {}
  <2> DEFINE dev == Len(devices) + 1
             locked == work[w].locks \cup {NewDevice}
             new == [work[w] EXCEPT !.pc = "bound", !.dev = dev, !.locks = locked]
  <2>1. dev \in Nat /\ locked \in SUBSET Lockable
    BY <1>0, LockTypes, LenProperties DEF IdentityTypeOK, RequestStates
  <2>2. devices' \in Seq(Devices)
    <3>1. [fp |-> work[w].fp, status |-> "pending"] \in Devices
      BY <1>0 DEF RequestStates, Devices
    <3>2. devices' = Append(devices, [fp |-> work[w].fp, status |-> "pending"])
      BY <1>1 DEF CreateDevice
    <3> QED
      BY <1>0, <3>1, <3>2, AppendProperties DEF IdentityTypeOK
  <2>3. Turn(w, new) /\ Free(locked, w)
    BY <1>0, <1>1 DEF CreateDevice, Free
  <2> HIDE DEF dev, locked
  <2>4. /\ new \in RequestStates /\ new.pc = "bound" /\ new.client = work[w].client
        /\ new.temp = work[w].temp /\ new.ends = work[w].ends /\ new.locks = locked
    BY <1>0, <2>1 DEF RequestStates, RequestStages
  <2>5. work[w].locks \subseteq locked
    BY DEF locked
  <2> HIDE DEF new
  <2> QED
    BY <1>0, <2>2, <2>3, <2>4, <2>5, LoginGoesOn
<1>2. CASE ActiveDevice # {}
  BY <1>0, <1>2, GivesUp DEF CreateDevice, CodesSame, IdentityTypeOK
<1> QED
  BY <1>1, <1>2

LEMMA RollBackStep ==
  ASSUME IdentityInv, NEW w \in Workers, RollBack(w), CodesSame
  PROVE  IdentityInv'
<1> DEFINE n == Len(devices) - Cardinality(Pending(w))
<1>0. IdentityTypeOK /\ devices \in Seq(Devices) /\ Len(devices) \in Nat /\ DOMAIN devices = 1..Len(devices)
  BY LenProperties DEF IdentityInv, IdentityTypeOK
<1>1. n \in Int /\ n <= Len(devices)
  <2>1. Pending(w) \subseteq {work[w].dev}
    BY DEF Pending
  <2>2. IsFiniteSet({work[w].dev})
    BY FS_Singleton
  <2>3. Cardinality(Pending(w)) \in Nat
    BY <2>1, <2>2, FS_Subset, FS_CardinalityType
  <2> QED
    BY <1>0, <2>3
<1>2. \A i \in 1..n : devices[i] \in Devices
  BY <1>0, <1>1, ElementOfSeq
<1>3. SubSeq(devices, 1, n) \in Seq(Devices)
  BY <1>1, <1>2, SubSeqProperties
<1> QED
  BY <1>3, GivesUp DEF RollBack, CodesSame, tables

LEMMA ReadSessionStep ==
  ASSUME IdentityInv, NEW w \in Workers, NEW j \in DOMAIN tokens, ReadSession(w, j), CodesSame
  PROVE  IdentityInv'
<1> DEFINE new == [Idle EXCEPT !.pc = "rotating", !.token = j, !.session = tokens[j]]
<1>0. IdentityTypeOK /\ SessionsSame
  BY DEF IdentityInv, ReadSession, SessionsSame
<1>1. j \in Nat /\ tokens[j] \in Nat
  BY <1>0, LenProperties, ElementOfSeq DEF IdentityTypeOK
<1>2. /\ new \in RequestStates /\ new.pc = "rotating" /\ new.token = j /\ new.session = tokens[j]
      /\ new.locks = {}
  BY <1>1 DEF Idle, RequestStates, RequestStages
<1>3. Turn(w, new)
  BY DEF ReadSession
<1> HIDE DEF new
<1>4. work'[w] = new
  BY <1>0, <1>2, <1>3, TurnType
<1>5. WorkerOK(w)'
  BY <1>0, <1>2, <1>4
     DEF SessionsSame, WorkerOK, LoginOK, RefreshOK, EndingOK, ServingOK, At, Serving
<1> QED
  BY <1>0, <1>2, <1>3, <1>5, QuietStep DEF SessionsSame, CodesSame, tables, Free, IdentityTypeOK

LEMMA DetectReuseStep ==
  ASSUME IdentityInv, NEW w \in Workers, DetectReuse(w), CodesSame
  PROVE  IdentityInv'
<1>0. IdentityTypeOK /\ SessionsSame /\ work[w] \in RequestStates
  BY DEF IdentityInv, IdentityTypeOK, DetectReuse, SessionsSame
<1>1. CASE work[w].session \in Live
  <2> DEFINE new == [work[w] EXCEPT !.pc = "reused"]
  <2>1. /\ new \in RequestStates /\ new.pc = "reused" /\ new.session = work[w].session
        /\ new.locks = work[w].locks
    BY <1>0 DEF RequestStates, RequestStages
  <2>2. Turn(w, new)
    BY <1>1 DEF DetectReuse
  <2> HIDE DEF new
  <2>3. work'[w] = new
    BY <1>0, <2>1, <2>2, TurnType
  <2>4. WorkerOK(w)'
    BY <1>0, <1>1, <2>1, <2>3, LockTypes
       DEF SessionsSame, WorkerOK, LoginOK, RefreshOK, EndingOK, ServingOK, At, Serving
  <2>5. Free(new.locks, w)
    BY <2>1 DEF IdentityInv, LocksOK, Free
  <2> QED
    BY <1>0, <2>1, <2>2, <2>4, <2>5, QuietStep DEF SessionsSame, CodesSame, tables, IdentityTypeOK
<1>2. CASE work[w].session \notin Live
  BY <1>0, <1>2, GivesUp DEF DetectReuse, SessionsSame, CodesSame, tables, IdentityTypeOK
<1> QED
  BY <1>1, <1>2

\* A new password, by someone who may hold the challenge of the code that allows it.
LEMMA NewPasswordStep ==
  ASSUME IdentityInv, NEW w \in Workers, NEW pc, NEW locked, NewPassword(w, pc, locked), CodesSame,
         \/ pc \in {"changing", "renewing"} /\ locked = {}
         \/ pc = "recovered" /\ locked = work[w].locks /\ work[w].pc = "recovering"
  PROVE  IdentityInv'
<1> DEFINE rows == locked \cup {UserRow} \cup Rows(Live)
           new == [work[w] EXCEPT !.pc = pc, !.ends = Live, !.locks = rows]
<1>0. IdentityTypeOK /\ SessionsSame /\ work[w] \in RequestStates /\ Free(work[w].locks, w)
  BY DEF IdentityInv, IdentityTypeOK, NewPassword, SessionsSame, LocksOK, Free
<1>1. rows \in SUBSET Lockable /\ Live \in SUBSET Nat
  BY <1>0, LockTypes DEF RequestStates
<1>2. Turn(w, new) /\ Free({UserRow} \cup Rows(Live), w)
  BY DEF NewPassword
<1>3. Free(rows, w) /\ UserRow \in rows /\ Rows(Live) \subseteq rows /\ locked \subseteq rows
  BY <1>0, <1>2 DEF Free
<1> HIDE DEF rows
<1>a. pc \in RequestStages
  <2>1. "recovered" \in Serving["PASSWORD_RESET"] /\ "PASSWORD_RESET" \in DOMAIN Serving
    BY DEF Serving
  <2> QED
    BY <2>1 DEF RequestStages
<1>4. /\ new \in RequestStates /\ new.pc = pc /\ new.ends = Live /\ new.locks = rows
      /\ new.session = work[w].session /\ new.phone = work[w].phone
  BY <1>0, <1>1, <1>a DEF RequestStates
<1> HIDE DEF new
<1>5. work'[w] = new
  BY <1>0, <1>2, <1>4, TurnType
<1>6. ServingOK(w)
  BY DEF IdentityInv, WorkersOK, WorkerOK
<1>7. ServingOK(w)'
  BY <1>0, <1>3, <1>4, <1>5, <1>6
     DEF ServingOK, At, Serving, CodesSame, SessionsSame, Live, ChallengeRow
<1>8. EndingOK(w)'
  BY <1>3, <1>4, <1>5 DEF EndingOK, Rows, SessionRow, UserRow
<1>9. WorkerOK(w)'
  BY <1>4, <1>5, <1>7, <1>8 DEF WorkerOK, LoginOK, RefreshOK, At
<1> QED
  BY <1>0, <1>2, <1>3, <1>4, <1>9, QuietStep DEF SessionsSame, CodesSame, tables, IdentityTypeOK

\* A code is accepted by the request that holds its challenge.
LEMMA RightCodeStep ==
  ASSUME IdentityInv, NEW w \in Workers, NEW p \in Purposes, NEW s \in Live \cup {0}, RightCode(w, p, s)
  PROVE  IdentityInv'
<1> DEFINE pc == CASE p = "STEP_UP" -> "stepping"
                   [] p = "DEVICE_RESET" -> "unbinding"
                   [] p = "PASSWORD_RESET" -> "recovering"
                   [] p = "PHONE_CHANGE" -> "confirming"
           new == [Idle EXCEPT !.pc = pc, !.session = s, !.phone = challenge[p].phone,
                               !.locks = {ChallengeRow(p)}]
<1>0. IdentityTypeOK /\ SessionsSame /\ CodesSame /\ challenge[p] \in Challenges
  BY DEF IdentityInv, IdentityTypeOK, RightCode
<1>1. s \in Nat /\ ChallengeRow(p) \in Lockable /\ challenge[p].phone \in Nat
  BY <1>0, LockTypes DEF Challenges
<1>2. p \in DOMAIN Serving
  BY IdentityAssumption DEF Serving
<1>3. pc \in Serving[p] /\ pc # "replacing" /\ pc \notin {"recovered", "resetting"}
  BY <1>2 DEF Serving
<1>4. pc \in RequestStages
  BY <1>2, <1>3 DEF RequestStages
<1>5. \A q \in DOMAIN Serving : pc \in Serving[q] => q = p
  BY <1>2, <1>3 DEF Serving
<1>6. /\ Turn(w, new) /\ Free({ChallengeRow(p)}, w) /\ challenge[p].open
      /\ p \in OfSession => challenge[p].session = s
  BY DEF RightCode, Usable, RightSession
<1> HIDE DEF pc
<1>7. /\ new \in RequestStates /\ new.pc = pc /\ new.session = s /\ new.phone = challenge[p].phone
      /\ new.locks = {ChallengeRow(p)}
  BY <1>1, <1>4 DEF Idle, RequestStates
<1> HIDE DEF new
<1>8. work'[w] = new
  BY <1>0, <1>6, <1>7, TurnType
<1>9. ServingOK(w)'
  BY <1>0, <1>3, <1>5, <1>6, <1>7, <1>8 DEF ServingOK, At, CodesSame, ChallengeRow
<1>10. WorkerOK(w)'
  BY <1>2, <1>3, <1>7, <1>8, <1>9 DEF WorkerOK, LoginOK, RefreshOK, EndingOK, At, Serving
<1> QED
  BY <1>0, <1>6, <1>7, <1>10, QuietStep DEF SessionsSame, CodesSame, tables, IdentityTypeOK

\* A request goes on serving a code.
LEMMA ServingGoesOn ==
  ASSUME IdentityInv, NEW w \in Workers, NEW p \in DOMAIN Serving, work[w].pc \in Serving[p],
         NEW new \in RequestStates, Turn(w, new), new.pc \in Serving[p], new.pc # "recovered",
         new.session = work[w].session, new.phone = work[w].phone,
         work[w].locks \subseteq new.locks, Free(new.locks, w),
         new.pc = "replacing" => work[w].session \in Live
                                 /\ SessionRow(work[w].session) \in new.locks,
         new.pc = "resetting" => Rows(new.ends) \subseteq new.locks,
         SessionsSame, CodesSame
  PROVE  IdentityInv'
<1>1. work'[w] = new /\ ServingOK(w) /\ IdentityTypeOK
  BY TurnType DEF IdentityInv, WorkersOK, WorkerOK
<1>2. \A q \in DOMAIN Serving : new.pc \in Serving[q] => q = p
  BY DEF Serving
<1>3. ServingOK(w)'
  BY <1>1, <1>2 DEF ServingOK, At, CodesSame, SessionsSame, Live, ChallengeRow, SessionRow
<1>4. EndingOK(w)'
  BY <1>1 DEF EndingOK, Rows, SessionRow, Serving
<1>5. WorkerOK(w)'
  BY <1>1, <1>3, <1>4 DEF WorkerOK, LoginOK, RefreshOK, At, Serving
<1> QED
  BY <1>1, <1>5, QuietStep DEF SessionsSame, CodesSame, tables, IdentityTypeOK

LEMMA UnbindStep ==
  ASSUME IdentityInv, NEW w \in Workers, UnbindDevice(w)
  PROVE  IdentityInv'
<1>1. PICK d \in ActiveDevice \cup {0} : Turn(w, [work[w] EXCEPT !.pc = "unbound", !.dev = d])
  BY DEF UnbindDevice
<1> DEFINE new == [work[w] EXCEPT !.pc = "unbound", !.dev = d]
<1>2. /\ IdentityTypeOK /\ SessionsSame /\ CodesSame /\ work[w] \in RequestStates
      /\ Free(work[w].locks, w) /\ work[w].pc = "unbinding"
  BY DEF IdentityInv, IdentityTypeOK, UnbindDevice, LocksOK, Free, At
<1>3. d \in Nat
  BY <1>2, LockTypes
<1>4. {"unbinding", "unbound"} \subseteq Serving["DEVICE_RESET"] /\ "DEVICE_RESET" \in DOMAIN Serving
  BY DEF Serving
<1>5. "unbound" \in RequestStages
  BY <1>4 DEF RequestStages
<1>6. /\ new \in RequestStates /\ new.pc = "unbound" /\ new.session = work[w].session
      /\ new.phone = work[w].phone /\ new.locks = work[w].locks
  BY <1>2, <1>3, <1>5 DEF RequestStates
<1> HIDE DEF new
<1> QED
  BY <1>1, <1>2, <1>4, <1>6, ServingGoesOn DEF new

LEMMA EndSessionsStep ==
  ASSUME IdentityInv, NEW w \in Workers, EndSessions(w)
  PROVE  IdentityInv'
<1> DEFINE rows == work[w].locks \cup Rows(Live)
           new == [work[w] EXCEPT !.pc = "resetting", !.ends = Live, !.locks = rows]
<1>1. /\ IdentityTypeOK /\ SessionsSame /\ CodesSame /\ work[w] \in RequestStates /\ Turn(w, new)
      /\ work[w].pc = "unbound" /\ Free(Rows(Live), w)
  BY DEF IdentityInv, IdentityTypeOK, EndSessions, At
<1>2. Free(rows, w)
  BY <1>1 DEF IdentityInv, LocksOK, Free
<1>3. Live \in SUBSET Nat /\ rows \in SUBSET Lockable
  BY <1>1, LockTypes DEF RequestStates
<1>4. {"unbound", "resetting"} \subseteq Serving["DEVICE_RESET"] /\ "DEVICE_RESET" \in DOMAIN Serving
  BY DEF Serving
<1>5. "resetting" \in RequestStages
  BY <1>4 DEF RequestStages
<1>6. work[w].locks \subseteq rows /\ Rows(Live) \subseteq rows
  OBVIOUS
<1> HIDE DEF rows
<1>7. /\ new \in RequestStates /\ new.pc = "resetting" /\ new.session = work[w].session
      /\ new.phone = work[w].phone /\ new.locks = rows /\ new.ends = Live
  BY <1>1, <1>3, <1>5 DEF RequestStates
<1> HIDE DEF new
<1> QED
  BY <1>1, <1>2, <1>4, <1>6, <1>7, ServingGoesOn

LEMMA LockPhoneStep ==
  ASSUME IdentityInv, NEW w \in Workers, LockPhoneSession(w), work[w].session \in Live
  PROVE  IdentityInv'
<1> DEFINE rows == PhoneLocks(w)
           new == [work[w] EXCEPT !.pc = "replacing", !.locks = rows]
<1>1. /\ IdentityTypeOK /\ SessionsSame /\ CodesSame /\ work[w] \in RequestStates /\ Turn(w, new)
      /\ work[w].pc = "confirming" /\ Free({SessionRow(work[w].session)}, w)
  BY DEF IdentityInv, IdentityTypeOK, LockPhoneSession, At, CodesSame
<1>2. Free(rows, w)
  BY <1>1 DEF IdentityInv, LocksOK, Free, PhoneLocks
<1>3. rows \in SUBSET Lockable
  BY <1>1, LockTypes DEF RequestStates, PhoneLocks
<1>4. {"confirming", "replacing"} \subseteq Serving["PHONE_CHANGE"]
      /\ "PHONE_CHANGE" \in DOMAIN Serving
  BY DEF Serving
<1>5. "replacing" \in RequestStages
  BY <1>4 DEF RequestStages
<1>6. work[w].locks \subseteq rows /\ SessionRow(work[w].session) \in rows
  BY DEF PhoneLocks
<1> HIDE DEF rows
<1>7. /\ new \in RequestStates /\ new.pc = "replacing" /\ new.session = work[w].session
      /\ new.phone = work[w].phone /\ new.locks = rows
  BY <1>1, <1>3, <1>5 DEF RequestStates
<1> HIDE DEF new
<1> QED
  BY <1>1, <1>2, <1>4, <1>6, <1>7, ServingGoesOn

-----------------------------------------------------------------------------
(* The steps that write. *)

SessionsOK == TokensOK /\ TokenExchangedOnce /\ SpendsOK /\ LoginsExclude
CodesOK == OpenOK /\ CodeAcceptedOnce

\* An UPDATE that revokes sessions, perhaps with a new password or a reported reuse.
LEMMA RevokedOK ==
  ASSUME IdentityInv, NEW S, sessions' = Revoked(S), UNCHANGED <<tokens, exchanged>>,
         reused' \subseteq reused \cup (S \cap DOMAIN sessions),
         account' = account \/ account'.gen = account.gen + 1
  PROVE  /\ sessions' \in Seq(SessionRecords) /\ DOMAIN sessions' = DOMAIN sessions
         /\ Live' = Live \ S /\ WebSessions' \subseteq WebSessions
         /\ SessionsOK'
<1>0. IdentityTypeOK /\ TokensOK /\ TokenExchangedOnce /\ SpendsOK /\ LoginsExclude
  BY DEF IdentityInv, RowsOK
<1>1. /\ sessions' \in Seq(SessionRecords) /\ DOMAIN sessions' = DOMAIN sessions
      /\ \A s \in DOMAIN sessions :
           /\ sessions'[s].revoked = (sessions[s].revoked \/ s \in S)
           /\ sessions'[s].client = sessions[s].client
           /\ sessions'[s].token = sessions[s].token
           /\ sessions'[s].spends = sessions[s].spends
  BY <1>0, RevokedRows
<1>2. Live' = Live \ S
  BY <1>1 DEF Live
<1>3. WebSessions' \subseteq WebSessions
  BY <1>1, <1>2 DEF WebSessions, Live
<1>4. TokensOK'
  BY <1>0, <1>1 DEF TokensOK
<1>5. TokenExchangedOnce'
  BY <1>0, <1>2 DEF TokenExchangedOnce
<1>6. SpendsOK'
  <2>1. account.gen \in Nat /\ \A s \in DOMAIN sessions : sessions[s].spends \in Nat
    <3>1. sessions \in Seq(SessionRecords) /\ account \in [gen : Nat \ {0}, temp : BOOLEAN, used : BOOLEAN]
      BY <1>0 DEF IdentityTypeOK
    <3>2. \A s \in DOMAIN sessions : sessions[s] \in SessionRecords
      BY <3>1, LenProperties, ElementOfSeq
    <3> QED
      BY <3>1, <3>2 DEF SessionRecords
  <2> QED
    BY <1>0, <1>1, <2>1 DEF SpendsOK
<1>7. LoginsExclude'
  <2>1. \A s, t \in Live' :
          sessions'[s].client = "WEB" /\ sessions'[t].client = "WEB" => s = t
    BY <1>0, <1>1, <1>2 DEF LoginsExclude, Live
  <2>2. \A s, t \in DOMAIN sessions' :
          s # t /\ sessions'[s].spends = sessions'[t].spends => sessions'[s].spends = 0
    BY <1>0, <1>1 DEF LoginsExclude
  <2> QED
    BY <2>1, <2>2 DEF LoginsExclude
<1> QED
  BY <1>1, <1>2, <1>3, <1>4, <1>5, <1>6, <1>7 DEF SessionsOK

LEMMA CodesKept ==
  ASSUME IdentityInv, challenge' = challenge
  PROVE  CodesOK' /\ \A v \in Workers : CodeKept(v)
BY DEF IdentityInv, RowsOK, CodesOK, OpenOK, CodeAcceptedOnce, CodeKept

LEMMA SessionsKept ==
  ASSUME IdentityInv, UNCHANGED <<account, sessions, tokens, exchanged, reused>>
  PROVE  SessionsOK' /\ Live' = Live /\ WebSessions' = WebSessions
BY DEF IdentityInv, RowsOK, SessionsOK, TokensOK, TokenExchangedOnce, SpendsOK, LoginsExclude, Live,
       WebSessions

\* The request that serves a code consumes it, and may report that it was accepted.
LEMMA ServedOK ==
  ASSUME IdentityInv, NEW w \in Workers, NEW p \in DOMAIN Serving, work[w].pc \in Serving[p],
         NEW s \in Nat, s # 0 => p \in OfSession /\ s = work[w].session,
         challenge' = Consumed(p) \/ challenge' = Accepted(p, s)
  PROVE  /\ challenge' \in [Purposes -> Challenges] /\ CodesOK'
         /\ \A v \in Workers \ {w} : CodeKept(v)
<1>0. /\ IdentityTypeOK /\ OpenOK /\ CodeAcceptedOnce /\ LocksOK /\ ServingOK(w)
  BY DEF IdentityInv, RowsOK, WorkersOK, WorkerOK
<1>1. /\ p \in Purposes /\ challenge[p].open /\ ChallengeRow(p) \in work[w].locks
      /\ p \in OfSession => work[w].session = challenge[p].session
  BY <1>0 DEF ServingOK
<1>2. challenge[p] \in Challenges /\ challenge[p].accepted = 0
  BY <1>0, <1>1 DEF IdentityTypeOK, OpenOK
<1>3. /\ challenge' \in [Purposes -> Challenges]
      /\ \A q \in Purposes \ {p} : challenge'[q] = challenge[q]
      /\ ~challenge'[p].open
      /\ \/ challenge'[p].accepted = 0 /\ challenge'[p].served = challenge[p].served
         \/ challenge'[p].accepted = 1 /\ challenge'[p].served = s
      /\ challenge'[p].session = challenge[p].session
  <2>1. /\ Consumed(p) \in [Purposes -> Challenges]
        /\ \A q \in Purposes \ {p} : Consumed(p)[q] = challenge[q]
        /\ Consumed(p)[p] = [challenge[p] EXCEPT !.open = FALSE]
    BY <1>0, <1>1, <1>2 DEF Consumed, IdentityTypeOK, Challenges
  <2>2. /\ Consumed(p)[p] \in Challenges /\ ~Consumed(p)[p].open
        /\ Consumed(p)[p].accepted = 0 /\ Consumed(p)[p].served = challenge[p].served
        /\ Consumed(p)[p].session = challenge[p].session
    BY <1>2, <2>1 DEF Challenges
  <2>3. CASE challenge' = Consumed(p)
    BY <2>1, <2>2, <2>3
  <2>4. CASE challenge' = Accepted(p, s)
    <3> DEFINE c == Consumed(p)
    <3>1. challenge' = [c EXCEPT ![p].accepted = @ + 1, ![p].served = s]
      BY <2>4 DEF Accepted
    <3>2. c \in [Purposes -> Challenges] /\ c[p] \in Challenges /\ ~c[p].open /\ c[p].accepted = 0
          /\ c[p].session = challenge[p].session
          /\ \A q \in Purposes \ {p} : c[q] = challenge[q]
      BY <2>1, <2>2
    <3> HIDE DEF c
    <3>3. /\ challenge'[p] = [c[p] EXCEPT !.accepted = @ + 1, !.served = s]
          /\ \A q \in Purposes \ {p} : challenge'[q] = c[q]
          /\ DOMAIN challenge' = Purposes /\ challenge' = [q \in Purposes |-> challenge'[q]]
      BY <1>1, <3>1, <3>2
    <3>4. /\ challenge'[p] \in Challenges /\ challenge'[p].accepted = 1
          /\ challenge'[p].served = s /\ ~challenge'[p].open
          /\ challenge'[p].session = c[p].session
      <4> DEFINE r == c[p]
      <4>1. r \in Challenges /\ ~r.open /\ r.accepted = 0
        BY <3>2
      <4>2. challenge'[p] = [r EXCEPT !.accepted = @ + 1, !.served = s]
        BY <3>3
      <4> HIDE DEF r
      <4>3. challenge'[p] = [r EXCEPT !.accepted = 1, !.served = s]
        BY <4>1, <4>2
      <4>4. /\ challenge'[p] \in Challenges /\ challenge'[p].accepted = 1
            /\ challenge'[p].served = s /\ ~challenge'[p].open
            /\ challenge'[p].session = r.session
        <5> DEFINE x == challenge'[p]
        <5>1. x = [r EXCEPT !.accepted = 1, !.served = s]
          BY <4>3
        <5> HIDE DEF x
        <5>2. x \in Challenges
          BY <4>1, <5>1 DEF Challenges
        <5>3. x.accepted = 1 /\ x.served = s /\ x.open = r.open /\ x.session = r.session
          BY <4>1, <5>1 DEF Challenges
        <5> QED
          BY <4>1, <5>2, <5>3 DEF x
      <4> QED
        BY <4>4 DEF r
    <3> QED
      BY <3>2, <3>3, <3>4
  <2> QED
    BY <2>3, <2>4
<1>4. CodesOK'
  BY <1>0, <1>1, <1>3 DEF CodesOK, OpenOK, CodeAcceptedOnce
<1>5. ASSUME NEW v \in Workers \ {w}
      PROVE  CodeKept(v)
  <2>1. ServingOK(v) /\ ChallengeRow(p) \notin work[v].locks
    BY <1>1 DEF IdentityInv, LocksOK, WorkersOK, WorkerOK
  <2> QED
    BY <1>3, <2>1 DEF ServingOK, CodeKept
<1> QED
  BY <1>3, <1>4, <1>5

LEMMA DoneFacts ==
  ASSUME IdentityInv, NEW w \in Workers, Done(w)
  PROVE  /\ work' \in [Workers -> RequestStates]
         /\ work'[w].pc = "idle" /\ work'[w].locks \subseteq work[w].locks
         /\ \A v \in Workers \ {w} : work'[v] = work[v]
BY IdleType, TurnType DEF Done, IdentityInv

\* Only codes and the number change.
LEMMA CodeStep ==
  ASSUME IdentityInv, NEW w \in Workers, SessionsSame, phone' \in Nat,
         challenge' \in [Purposes -> Challenges], CodesOK', work' \in [Workers -> RequestStates],
         work'[w].pc = "idle", work'[w].locks \subseteq work[w].locks,
         \A v \in Workers \ {w} :
           /\ work'[v] = work[v]
           /\ CodeKept(v)
  PROVE  IdentityInv'
<1>1. IdentityTypeOK'
  BY DEF SessionsSame, IdentityTypeOK, IdentityInv
<1>2. SessionsOK' /\ Live' = Live /\ WebSessions' = WebSessions
  BY SessionsKept DEF SessionsSame
<1>3. RowsOK'
  BY <1>2 DEF RowsOK, SessionsOK, CodesOK
<1> QED
  BY <1>1, <1>2, <1>3, LastStep DEF SessionsSame

\* Sessions are revoked that the request, or nobody, has locked.
LEMMA RevokingStep ==
  ASSUME IdentityInv, NEW w \in Workers, NEW S, sessions' = Revoked(S), UNCHANGED <<tokens, exchanged>>,
         reused' \subseteq reused \cup (S \cap DOMAIN sessions),
         \/ account' = account
         \/ /\ UserRow \in work[w].locks
            /\ account' \in [gen : Nat \ {0}, temp : BOOLEAN, used : BOOLEAN]
            /\ account'.gen = account.gen + 1,
         \A v \in Workers \ {w}, s \in S : SessionRow(s) \notin work[v].locks,
         devices' \in Seq(Devices), phone' \in Nat,
         challenge' \in [Purposes -> Challenges], CodesOK', work' \in [Workers -> RequestStates],
         work'[w].pc = "idle", work'[w].locks \subseteq work[w].locks,
         \A v \in Workers \ {w} :
           /\ work'[v] = work[v]
           /\ CodeKept(v)
  PROVE  IdentityInv'
<1>0. IdentityTypeOK /\ LocksOK
  BY DEF IdentityInv
<1>1. /\ sessions' \in Seq(SessionRecords) /\ DOMAIN sessions' = DOMAIN sessions
      /\ Live' = Live \ S /\ WebSessions' \subseteq WebSessions
      /\ SessionsOK'
  BY RevokedOK
<1>2. DOMAIN sessions \subseteq Nat
  BY <1>0, LenProperties DEF IdentityTypeOK
<1>3. IdentityTypeOK'
  BY <1>0, <1>1, <1>2 DEF IdentityTypeOK
<1>4. RowsOK'
  BY <1>1 DEF RowsOK, SessionsOK, CodesOK
<1>5. \A v \in Workers \ {w} : UserRow \in work[v].locks => account' = account
  BY <1>0 DEF LocksOK
<1> QED
  BY <1>1, <1>3, <1>4, <1>5, LastStep

LEMMA RevokeFamilyStep ==
  ASSUME IdentityInv, NEW w \in Workers, RevokeFamily(w), CodesSame
  PROVE  IdentityInv'
<1> DEFINE S == FamilyOf(w)
<1>1. work[w].session \in DOMAIN sessions
  BY DEF IdentityInv, WorkersOK, WorkerOK, RefreshOK, RevokeFamily
<1>2. \A v \in Workers \ {w}, s \in S : SessionRow(s) \notin work[v].locks
  BY DEF RevokeFamily, Free, Rows
<1>3. /\ sessions' = Revoked(S) /\ UNCHANGED <<account, tokens, exchanged, devices, phone, challenge>>
      /\ Done(w)
  BY DEF RevokeFamily, CodesSame
<1>4. reused' \subseteq reused \cup (S \cap DOMAIN sessions)
  BY <1>1 DEF RevokeFamily, FamilyOf
<1>5. IdentityTypeOK /\ CodesOK' /\ \A v \in Workers : CodeKept(v)
  BY <1>3, CodesKept DEF IdentityInv
<1> HIDE DEF S
<1> QED
  BY <1>2, <1>3, <1>4, <1>5, DoneFacts, RevokingStep DEF IdentityTypeOK

LEMMA RevokeSessionStep ==
  ASSUME IdentityInv, NEW w \in Workers, NEW r \in Live, RevokeSession(w, r), CodesSame
  PROVE  IdentityInv'
<1> DEFINE S == {r}
<1>1. \A v \in Workers \ {w}, s \in S : SessionRow(s) \notin work[v].locks
  BY DEF RevokeSession, Free
<1>2. /\ sessions' = Revoked(S)
      /\ UNCHANGED <<account, tokens, exchanged, devices, phone, challenge, reused, work>>
      /\ work[w].pc = "idle"
  BY DEF RevokeSession, CodesSame, At
<1>3. IdentityTypeOK /\ CodesOK' /\ \A v \in Workers : CodeKept(v)
  BY <1>2, CodesKept DEF IdentityInv
<1> HIDE DEF S
<1> QED
  BY <1>1, <1>2, <1>3, RevokingStep DEF IdentityTypeOK

LEMMA EndsHeld ==
  ASSUME IdentityInv, NEW w \in Workers,
         work[w].pc \in {"changing", "renewing", "recovered", "resetting"}
  PROVE  \A v \in Workers \ {w}, s \in work[w].ends : SessionRow(s) \notin work[v].locks
BY DEF IdentityInv, LocksOK, WorkersOK, WorkerOK, EndingOK, Rows

LEMMA CommitPasswordStep ==
  ASSUME IdentityInv, NEW w \in Workers, CommitPassword(w), CodesSame
  PROVE  IdentityInv'
<1> DEFINE S == work[w].ends
<1>1. \A v \in Workers \ {w}, s \in S : SessionRow(s) \notin work[v].locks
  BY EndsHeld DEF CommitPassword
<1>2. /\ sessions' = Revoked(S) /\ UNCHANGED <<tokens, exchanged, devices, phone, challenge, reused>>
      /\ Done(w)
  BY DEF CommitPassword, CodesSame
<1>3. UserRow \in work[w].locks
  BY DEF IdentityInv, WorkersOK, WorkerOK, EndingOK, CommitPassword
<1>4. IdentityTypeOK /\ CodesOK' /\ \A v \in Workers : CodeKept(v)
  BY <1>2, CodesKept DEF IdentityInv
<1>5. /\ account' \in [gen : Nat \ {0}, temp : BOOLEAN, used : BOOLEAN]
      /\ account'.gen = account.gen + 1
  BY <1>4 DEF IdentityTypeOK, CommitPassword, At
<1>6. /\ devices' \in Seq(Devices) /\ phone' \in Nat /\ challenge' \in [Purposes -> Challenges]
      /\ reused' \subseteq reused \cup (S \cap DOMAIN sessions)
  BY <1>2, <1>4 DEF IdentityTypeOK
<1> HIDE DEF S
<1> QED
  BY <1>1, <1>2, <1>3, <1>4, <1>5, <1>6, DoneFacts, RevokingStep

LEMMA CommitResetStep ==
  ASSUME IdentityInv, NEW w \in Workers, CommitDeviceReset(w)
  PROVE  IdentityInv'
<1> DEFINE S == work[w].ends
<1>1. \A v \in Workers \ {w}, s \in S : SessionRow(s) \notin work[v].locks
  BY EndsHeld DEF CommitDeviceReset, At
<1>2. /\ sessions' = Revoked(S) /\ UNCHANGED <<account, tokens, exchanged, phone, reused>>
      /\ Done(w) /\ challenge' = Accepted("DEVICE_RESET", 0)
  BY DEF CommitDeviceReset
<1>3. work[w].pc \in Serving["DEVICE_RESET"] /\ "DEVICE_RESET" \in DOMAIN Serving
  BY DEF CommitDeviceReset, At, Serving
<1>4. /\ challenge' \in [Purposes -> Challenges] /\ CodesOK'
      /\ \A v \in Workers \ {w} : CodeKept(v)
  BY <1>2, <1>3, ServedOK
<1>5. devices' \in Seq(Devices)
  <2>1. devices \in Seq(Devices)
    BY DEF IdentityInv, IdentityTypeOK
  <2>2. \A d \in DOMAIN devices : devices[d] \in Devices
    BY <2>1, LenProperties, ElementOfSeq
  <2>3. /\ devices' = [d \in DOMAIN devices |-> devices'[d]]
        /\ \A d \in DOMAIN devices :
             devices'[d] = devices[d] \/ devices'[d] = [devices[d] EXCEPT !.status = "revoked"]
    BY DEF CommitDeviceReset
  <2>4. \A d \in DOMAIN devices : devices'[d] \in Devices
    BY <2>2, <2>3 DEF Devices
  <2> QED
    BY <2>1, <2>3, <2>4, MappedSeq
<1>6. phone' \in Nat
  BY <1>2 DEF IdentityInv, IdentityTypeOK
<1> HIDE DEF S
<1> QED
  BY <1>1, <1>2, <1>4, <1>5, <1>6, DoneFacts, RevokingStep

LEMMA CommitRecoveryStep ==
  ASSUME IdentityInv, NEW w \in Workers, CommitRecovery(w)
  PROVE  IdentityInv'
<1> DEFINE S == work[w].ends
<1>1. \A v \in Workers \ {w}, s \in S : SessionRow(s) \notin work[v].locks
  BY EndsHeld DEF CommitRecovery, At
<1>2. /\ sessions' = Revoked(S) /\ UNCHANGED <<devices, tokens, exchanged, phone, reused>>
      /\ Done(w) /\ challenge' = Accepted("PASSWORD_RESET", 0)
  BY DEF CommitRecovery
<1>3. work[w].pc \in Serving["PASSWORD_RESET"] /\ "PASSWORD_RESET" \in DOMAIN Serving
  BY DEF CommitRecovery, At, Serving
<1>4. /\ challenge' \in [Purposes -> Challenges] /\ CodesOK'
      /\ \A v \in Workers \ {w} : CodeKept(v)
  BY <1>2, <1>3, ServedOK
<1>5. UserRow \in work[w].locks
  BY DEF IdentityInv, WorkersOK, WorkerOK, EndingOK, CommitRecovery, At
<1>6. IdentityTypeOK
  BY DEF IdentityInv
<1>7. /\ account' \in [gen : Nat \ {0}, temp : BOOLEAN, used : BOOLEAN]
      /\ account'.gen = account.gen + 1
  <2>1. account \in [gen : Nat \ {0}, temp : BOOLEAN, used : BOOLEAN]
    BY <1>6 DEF IdentityTypeOK
  <2>2. account' = [account EXCEPT !.gen = account.gen + 1]
    BY DEF CommitRecovery
  <2>3. account.gen \in Nat /\ account.gen + 1 \in Nat \ {0}
    BY <2>1
  <2> QED
    BY <2>1, <2>2, <2>3
<1> HIDE DEF S
<1> QED
  BY <1>1, <1>2, <1>4, <1>5, <1>6, <1>7, DoneFacts, RevokingStep DEF IdentityTypeOK

LEMMA CommitRequestStep ==
  ASSUME IdentityInv, NEW w \in Workers, NEW p \in Purposes, CommitRequest(w, p)
  PROVE  IdentityInv'
<1> DEFINE c == Challenge(challenge[p].id + 1, work[w].session, work[w].phone)
<1>0. IdentityTypeOK /\ OpenOK /\ CodeAcceptedOnce /\ WorkersOK
  BY DEF IdentityInv, RowsOK
<1>1. challenge[p].id \in Nat /\ work[w].session \in Nat /\ work[w].phone \in Nat
  <2>1. challenge[p] \in Challenges /\ work[w] \in RequestStates
    BY <1>0 DEF IdentityTypeOK
  <2> QED
    BY <2>1 DEF Challenges, RequestStates
<1>2. c \in Challenges /\ c.accepted = 0 /\ c.served = 0
  BY <1>1 DEF Challenge, Challenges
<1>3. challenge' = [challenge EXCEPT ![p] = c] /\ SessionsSame /\ phone' = phone /\ Done(w)
  BY DEF CommitRequest
<1> HIDE DEF c
<1>4. /\ challenge' \in [Purposes -> Challenges] /\ challenge'[p] = c
      /\ \A q \in Purposes \ {p} : challenge'[q] = challenge[q]
  BY <1>0, <1>2, <1>3 DEF IdentityTypeOK
<1>5. CodesOK'
  BY <1>0, <1>2, <1>4 DEF CodesOK, OpenOK, CodeAcceptedOnce
<1>6. ASSUME NEW v \in Workers \ {w}
      PROVE  CodeKept(v)
  <2>1. ServingOK(v) /\ (challenge[p].open => ChallengeRow(p) \notin work[v].locks)
    BY <1>0 DEF WorkersOK, WorkerOK, CommitRequest, Free
  <2> QED
    BY <1>4, <2>1 DEF ServingOK, CodeKept
<1> QED
  BY <1>0, <1>3, <1>4, <1>5, <1>6, DoneFacts, CodeStep DEF IdentityTypeOK

LEMMA WrongCodeStep ==
  ASSUME IdentityInv, NEW w \in Workers, NEW p \in Purposes, WrongCode(w, p)
  PROVE  IdentityInv'
<1> DEFINE open == challenge[p].attempts + 1 < MaxAttempts
           c == [challenge[p] EXCEPT !.attempts = @ + 1, !.open = open]
<1>0. IdentityTypeOK /\ OpenOK /\ CodeAcceptedOnce /\ WorkersOK
  BY DEF IdentityInv, RowsOK
<1>1. challenge[p] \in Challenges /\ challenge[p].open /\ open \in BOOLEAN
  BY <1>0 DEF WrongCode, Usable, IdentityTypeOK
<1>2. /\ challenge' = [challenge EXCEPT ![p] = c] /\ SessionsSame /\ phone' = phone /\ work' = work
      /\ work[w].pc = "idle"
  BY <1>0 DEF WrongCode, IdentityTypeOK, Challenges, At
<1> HIDE DEF open
<1>3. /\ c \in Challenges /\ c.accepted = challenge[p].accepted /\ c.served = challenge[p].served
      /\ c.session = challenge[p].session
  <2> DEFINE r == challenge[p]
             n == r.attempts + 1
             x == [r EXCEPT !.attempts = n, !.open = open]
  <2>1. r \in Challenges /\ open \in BOOLEAN /\ c = x
    BY <1>1
  <2>2. n \in Nat
    BY <1>1 DEF Challenges
  <2> HIDE DEF r, c, n
  <2>3. x \in Challenges
    BY <2>1, <2>2 DEF Challenges
  <2>4. x.accepted = r.accepted /\ x.served = r.served /\ x.session = r.session
    BY <2>1 DEF Challenges
  <2> HIDE DEF x
  <2> QED
    BY <2>1, <2>3, <2>4 DEF r
<1> HIDE DEF c
<1>4. /\ challenge' \in [Purposes -> Challenges] /\ challenge'[p] = c
      /\ \A q \in Purposes \ {p} : challenge'[q] = challenge[q]
  BY <1>0, <1>2, <1>3 DEF IdentityTypeOK
<1>5. CodesOK'
  BY <1>0, <1>1, <1>3, <1>4 DEF CodesOK, OpenOK, CodeAcceptedOnce
<1>6. ASSUME NEW v \in Workers \ {w}
      PROVE  CodeKept(v)
  <2>1. ServingOK(v) /\ ChallengeRow(p) \notin work[v].locks
    BY <1>0 DEF WorkersOK, WorkerOK, WrongCode, Free
  <2> QED
    BY <1>4, <2>1 DEF ServingOK, CodeKept
<1> QED
  BY <1>0, <1>2, <1>4, <1>5, <1>6, CodeStep DEF IdentityTypeOK

\* The session was revoked before the phone number could change.
LEMMA LosePhoneStep ==
  ASSUME IdentityInv, NEW w \in Workers, LockPhoneSession(w), work[w].session \notin Live
  PROVE  IdentityInv'
<1>1. /\ challenge' = Consumed("PHONE_CHANGE") /\ SessionsSame /\ phone' = phone /\ Done(w)
      /\ work[w].pc \in Serving["PHONE_CHANGE"] /\ "PHONE_CHANGE" \in DOMAIN Serving
  BY DEF LockPhoneSession, At, Serving
<1>2. /\ challenge' \in [Purposes -> Challenges] /\ CodesOK'
      /\ \A v \in Workers \ {w} : CodeKept(v)
  BY <1>1, ServedOK
<1>3. phone' \in Nat
  BY <1>1 DEF IdentityInv, IdentityTypeOK
<1> QED
  BY <1>1, <1>2, <1>3, DoneFacts, CodeStep

LEMMA CommitPhoneStep ==
  ASSUME IdentityInv, NEW w \in Workers, CommitPhone(w)
  PROVE  IdentityInv'
<1>1. /\ challenge' = Accepted("PHONE_CHANGE", work[w].session) /\ SessionsSame
      /\ phone' = work[w].phone /\ Done(w)
      /\ work[w].pc \in Serving["PHONE_CHANGE"] /\ "PHONE_CHANGE" \in DOMAIN Serving
      /\ "PHONE_CHANGE" \in OfSession
  BY DEF CommitPhone, At, Serving, OfSession
<1>2. phone' \in Nat /\ work[w].session \in Nat
  <2>1. work[w] \in RequestStates
    BY DEF IdentityInv, IdentityTypeOK
  <2> QED
    BY <1>1, <2>1 DEF RequestStates
<1>3. /\ challenge' \in [Purposes -> Challenges] /\ CodesOK'
      /\ \A v \in Workers \ {w} : CodeKept(v)
  BY <1>1, <1>2, ServedOK
<1> QED
  BY <1>1, <1>2, <1>3, DoneFacts, CodeStep

\* A session gets a level or another token, or stays as it is.
LEMMA SameSessions ==
  ASSUME IdentityTypeOK, sessions' \in Seq(SessionRecords), DOMAIN sessions' = DOMAIN sessions,
         \A s \in DOMAIN sessions : /\ sessions'[s].revoked = sessions[s].revoked
                                    /\ sessions'[s].client = sessions[s].client
                                    /\ sessions'[s].spends = sessions[s].spends,
         account' = account, SpendsOK, LoginsExclude
  PROVE  Live' = Live /\ WebSessions' = WebSessions /\ SpendsOK' /\ LoginsExclude'
<1>1. Live' = Live
  BY DEF Live
<1>2. WebSessions' = WebSessions
  BY <1>1 DEF WebSessions, Live
<1>3. SpendsOK'
  BY DEF SpendsOK
<1>4. LoginsExclude'
  <2>1. \A s, t \in Live' :
          sessions'[s].client = "WEB" /\ sessions'[t].client = "WEB" => s = t
    BY <1>1 DEF LoginsExclude, Live
  <2>2. \A s, t \in DOMAIN sessions' :
          s # t /\ sessions'[s].spends = sessions'[t].spends => sessions'[s].spends = 0
    BY DEF LoginsExclude
  <2> QED
    BY <2>1, <2>2 DEF LoginsExclude
<1> QED
  BY <1>1, <1>2, <1>3, <1>4

LEMMA StepUpStep ==
  ASSUME IdentityInv, NEW w \in Workers, StepUp(w)
  PROVE  IdentityInv'
<1> DEFINE s == work[w].session
<1>0. IdentityTypeOK /\ TokensOK /\ TokenExchangedOnce /\ SpendsOK /\ LoginsExclude
  BY DEF IdentityInv, RowsOK
<1>1. /\ UNCHANGED <<account, devices, tokens, exchanged, reused, phone>> /\ Done(w)
      /\ work[w].pc \in Serving["STEP_UP"] /\ "STEP_UP" \in DOMAIN Serving
      /\ "STEP_UP" \in OfSession /\ work[w] \in RequestStates /\ s \in Nat
  BY <1>0 DEF StepUp, At, Serving, OfSession, IdentityTypeOK, RequestStates
<1>2. /\ challenge' \in [Purposes -> Challenges] /\ CodesOK'
      /\ \A v \in Workers \ {w} : CodeKept(v)
  <2>1. challenge' = Consumed("STEP_UP") \/ challenge' = Accepted("STEP_UP", s)
    BY DEF StepUp
  <2> QED
    BY <1>1, <2>1, ServedOK
<1>3. CASE sessions' = sessions
  BY <1>1, <1>2, <1>3, <1>0, DoneFacts, CodeStep DEF SessionsSame, IdentityTypeOK
<1>4. CASE s \in Live /\ sessions' = [sessions EXCEPT ![s].level = 2]
  <2>1. sessions \in Seq(SessionRecords) /\ s \in 1..Len(sessions) /\ DOMAIN sessions = 1..Len(sessions)
    BY <1>0, <1>4, LenProperties DEF IdentityTypeOK, Live
  <2>2. sessions[s] \in SessionRecords
    BY <2>1, ElementOfSeq
  <2> DEFINE r == [sessions[s] EXCEPT !.level = 2]
  <2>3. /\ r \in SessionRecords /\ r.revoked = sessions[s].revoked /\ r.token = sessions[s].token
        /\ r.client = sessions[s].client /\ r.spends = sessions[s].spends
    BY <2>2 DEF SessionRecords
  <2>4. sessions' = [sessions EXCEPT ![s] = r]
    BY <1>4, <2>1
  <2> HIDE DEF r
  <2>5. /\ sessions' \in Seq(SessionRecords) /\ DOMAIN sessions' = DOMAIN sessions
        /\ \A t \in DOMAIN sessions : sessions'[t] = IF t = s THEN r ELSE sessions[t]
    BY <2>1, <2>3, <2>4, ExceptSeq
  <2>6. Live' = Live /\ WebSessions' = WebSessions /\ SpendsOK' /\ LoginsExclude'
    BY <1>0, <1>1, <2>3, <2>5, SameSessions
  <2>7. TokensOK' /\ TokenExchangedOnce'
    BY <1>0, <1>1, <2>3, <2>5, <2>6 DEF TokensOK, TokenExchangedOnce
  <2>8. IdentityTypeOK' /\ RowsOK'
    BY <1>0, <1>1, <1>2, <2>5, <2>6, <2>7, DoneFacts DEF IdentityTypeOK, RowsOK, CodesOK
  <2> QED
    BY <1>1, <1>2, <2>5, <2>6, <2>8, DoneFacts, LastStep
<1> QED
  BY <1>3, <1>4 DEF StepUp

LEMMA RotateStep ==
  ASSUME IdentityInv, NEW w \in Workers, Rotate(w), CodesSame
  PROVE  IdentityInv'
<1> DEFINE j == work[w].token
           s == work[w].session
           n == Len(tokens)
<1>0. IdentityTypeOK /\ TokensOK /\ TokenExchangedOnce /\ SpendsOK /\ LoginsExclude /\ RefreshOK(w)
  BY DEF IdentityInv, RowsOK, WorkersOK, WorkerOK
<1>1. /\ j \in DOMAIN tokens /\ s = tokens[j] /\ s \in Live /\ sessions[s].token = j
      /\ s \in DOMAIN sessions
  BY <1>0 DEF Rotate, RefreshOK, MayRotate, Current, TokensOK
<1>2. /\ sessions \in Seq(SessionRecords) /\ DOMAIN sessions = 1..Len(sessions)
      /\ tokens \in Seq(Nat) /\ exchanged \in Seq(Nat) /\ n \in Nat /\ Len(exchanged) = n
      /\ DOMAIN tokens = 1..n /\ DOMAIN exchanged = 1..n /\ s \in Nat /\ j \in 1..n
  BY <1>0, <1>1, LenProperties DEF IdentityTypeOK, TokensOK
<1>3. /\ sessions' = [sessions EXCEPT ![s].token = n + 1]
      /\ tokens' = Append(tokens, s)
      /\ exchanged' = Append([exchanged EXCEPT ![j] = @ + 1], 0)
      /\ UNCHANGED <<account, devices, reused, phone, challenge>> /\ Done(w)
  BY DEF Rotate, CodesSame
<1> HIDE DEF j, s, n
<1>4. PICK r \in SessionRecords :
        /\ sessions' = [sessions EXCEPT ![s] = r] /\ r.revoked = sessions[s].revoked
        /\ r.token = n + 1 /\ r.client = sessions[s].client /\ r.spends = sessions[s].spends
  <2> DEFINE m == n + 1
             r == [sessions[s] EXCEPT !.token = m]
  <2>1. sessions[s] \in SessionRecords /\ m \in Nat
    BY <1>1, <1>2, ElementOfSeq
  <2>2. sessions' = [sessions EXCEPT ![s] = r]
    BY <1>3, <1>1
  <2> HIDE DEF m
  <2>3. /\ r \in SessionRecords /\ r.revoked = sessions[s].revoked /\ r.token = m
        /\ r.client = sessions[s].client /\ r.spends = sessions[s].spends
    BY <2>1 DEF SessionRecords
  <2> QED
    BY <2>2, <2>3 DEF m
<1>5. /\ sessions' \in Seq(SessionRecords) /\ DOMAIN sessions' = DOMAIN sessions
      /\ \A t \in DOMAIN sessions : sessions'[t] = IF t = s THEN r ELSE sessions[t]
  BY <1>1, <1>2, <1>4, ExceptSeq
<1>6. /\ tokens' \in Seq(Nat) /\ Len(tokens') = n + 1 /\ DOMAIN tokens' = 1..(n + 1)
      /\ tokens'[n + 1] = s /\ \A i \in 1..n : tokens'[i] = tokens[i]
  BY <1>2, <1>3, AppendProperties, LenProperties
<1>7. /\ exchanged' \in Seq(Nat) /\ Len(exchanged') = n + 1 /\ DOMAIN exchanged' = 1..(n + 1)
      /\ exchanged'[n + 1] = 0
      /\ \A i \in 1..n : exchanged'[i] = IF i = j THEN exchanged[j] + 1 ELSE exchanged[i]
  <2> DEFINE x == exchanged[j] + 1
             e == [exchanged EXCEPT ![j] = x]
  <2>1. x \in Nat /\ exchanged' = Append(e, 0)
    BY <1>2, <1>3, ElementOfSeq
  <2> HIDE DEF x
  <2>2. e \in Seq(Nat) /\ Len(e) = n /\ \A i \in 1..n : e[i] = IF i = j THEN x ELSE exchanged[i]
    BY <1>2, <2>1, ExceptSeq
  <2> HIDE DEF e
  <2>3. /\ exchanged' \in Seq(Nat) /\ Len(exchanged') = n + 1 /\ exchanged'[n + 1] = 0
        /\ \A i \in 1..n : exchanged'[i] = e[i]
    <3>1. /\ Append(e, 0) \in Seq(Nat) /\ Len(Append(e, 0)) = Len(e) + 1
          /\ \A i \in 1..Len(e) : Append(e, 0)[i] = e[i]
          /\ Append(e, 0)[Len(e) + 1] = 0
      BY <2>2, AppendProperties
    <3> QED
      BY <2>1, <2>2, <3>1
  <2>4. DOMAIN exchanged' = 1..(n + 1)
    BY <2>3, LenProperties
  <2> QED
    BY <2>2, <2>3, <2>4 DEF x
<1>8. Live' = Live /\ WebSessions' = WebSessions /\ SpendsOK' /\ LoginsExclude'
  BY <1>0, <1>3, <1>4, <1>5, SameSessions
<1>9. exchanged[j] = 0
  BY <1>0, <1>1 DEF TokensOK
<1>15. ASSUME NEW i \in 1..n
       PROVE  /\ tokens[i] \in DOMAIN sessions /\ exchanged[i] <= 1
              /\ exchanged[i] # 0 => sessions[tokens[i]].token # i
  BY <1>0, <1>2 DEF TokensOK, TokenExchangedOnce
<1>16. 1..(n + 1) = 1..n \cup {n + 1} /\ n + 1 \notin 1..n
  BY <1>2
<1>10. TokensOK'
  <2>1. ASSUME NEW i \in 1..(n + 1), exchanged'[i] # 0
        PROVE  i \in 1..n /\ tokens'[i] = tokens[i] /\ sessions'[tokens[i]].token # i
    <3>1. i \in 1..n /\ i # n + 1
      BY <1>7, <1>16, <2>1
    <3>2. CASE tokens[i] = s
      BY <1>1, <1>4, <1>5, <1>6, <3>1, <3>2
    <3>3. CASE tokens[i] # s
      <4>1. i # j /\ exchanged[i] # 0
        BY <1>1, <1>7, <2>1, <3>1, <3>3
      <4> QED
        BY <1>5, <1>6, <1>15, <3>1, <3>3, <4>1
    <3> QED
      BY <3>2, <3>3
  <2>2. ASSUME NEW i \in 1..(n + 1)
        PROVE  tokens'[i] \in DOMAIN sessions'
    BY <1>1, <1>5, <1>6, <1>15, <1>16
  <2>3. reused' \subseteq DOMAIN sessions'
    BY <1>0, <1>3, <1>5 DEF TokensOK
  <2> QED
    BY <1>6, <1>7, <2>1, <2>2, <2>3 DEF TokensOK
<1>11. TokenExchangedOnce'
  <2>1. \A i \in 1..(n + 1) : exchanged'[i] <= 1
    BY <1>7, <1>9, <1>15, <1>16
  <2> QED
    BY <1>0, <1>3, <1>7, <1>8, <2>1 DEF TokenExchangedOnce
<1>12. CodesOK' /\ \A v \in Workers : CodeKept(v)
  BY <1>3, CodesKept
<1>13. IdentityTypeOK' /\ RowsOK'
  BY <1>0, <1>3, <1>5, <1>6, <1>7, <1>8, <1>10, <1>11, <1>12, DoneFacts
     DEF IdentityTypeOK, RowsOK, CodesOK
<1>14. \A i \in DOMAIN tokens : i \in DOMAIN tokens' /\ tokens'[i] = tokens[i]
  BY <1>2, <1>6
<1> QED
  BY <1>3, <1>5, <1>8, <1>12, <1>13, <1>14, DoneFacts, LastStep

LEMMA CommitLoginStep ==
  ASSUME IdentityInv, NEW w \in Workers, CommitLogin(w), CodesSame
  PROVE  IdentityInv'
<1> DEFINE n == Len(sessions)
           m == Len(tokens)
           R == Revoked(work[w].ends)
           spent == IF work[w].temp THEN account.gen ELSE 0
           new == [client |-> work[w].client, device |-> work[w].dev, token |-> m + 1,
                   revoked |-> FALSE, level |-> 1, spends |-> spent]
<1>0. /\ IdentityTypeOK /\ TokensOK /\ TokenExchangedOnce /\ SpendsOK /\ LoginsExclude /\ LoginOK(w)
      /\ LocksOK
  BY DEF IdentityInv, RowsOK, WorkersOK, WorkerOK
<1>1. /\ work[w] \in RequestStates /\ account \in [gen : Nat \ {0}, temp : BOOLEAN, used : BOOLEAN]
      /\ sessions \in Seq(SessionRecords) /\ n \in Nat /\ DOMAIN sessions = 1..n
      /\ tokens \in Seq(Nat) /\ exchanged \in Seq(Nat) /\ m \in Nat /\ Len(exchanged) = m
      /\ DOMAIN tokens = 1..m /\ DOMAIN exchanged = 1..m
  BY <1>0, LenProperties DEF IdentityTypeOK, TokensOK
<1>2. /\ Rows(work[w].ends) \subseteq work[w].locks
      /\ work[w].client = "WEB" => UserRow \in work[w].locks /\ WebSessions \subseteq work[w].ends
      /\ work[w].temp => UserRow \in work[w].locks /\ ~account.used
  BY <1>0 DEF CommitLogin, At, LoginOK
<1>3. /\ new \in SessionRecords /\ new.client = work[w].client /\ new.token = m + 1
      /\ new.revoked = FALSE /\ new.spends = spent
      /\ spent = IF work[w].temp THEN account.gen ELSE 0
  BY <1>1 DEF RequestStates, SessionRecords
<1>4. /\ sessions' = Append(R, new) /\ tokens' = Append(tokens, n + 1)
      /\ exchanged' = Append(exchanged, 0)
      /\ account' = [account EXCEPT !.used = @ \/ work[w].temp]
      /\ Done(w) /\ UNCHANGED <<reused, phone, challenge>>
  BY DEF CommitLogin, CodesSame
<1>5. /\ R \in Seq(SessionRecords) /\ Len(R) = n /\ DOMAIN R = 1..n
      /\ \A s \in 1..n : /\ R[s].revoked = (sessions[s].revoked \/ s \in work[w].ends)
                         /\ R[s].client = sessions[s].client
                         /\ R[s].token = sessions[s].token
                         /\ R[s].spends = sessions[s].spends
  <2> DEFINE ended == work[w].ends
  <2> HIDE DEF ended
  <2>1. /\ Revoked(ended) \in Seq(SessionRecords) /\ Len(Revoked(ended)) = Len(sessions)
        /\ DOMAIN Revoked(ended) = DOMAIN sessions
        /\ \A s \in DOMAIN sessions :
             /\ Revoked(ended)[s].revoked = (sessions[s].revoked \/ s \in ended)
             /\ Revoked(ended)[s].client = sessions[s].client
             /\ Revoked(ended)[s].token = sessions[s].token
             /\ Revoked(ended)[s].spends = sessions[s].spends
    BY <1>0, RevokedRows
  <2> QED
    BY <1>1, <2>1 DEF ended
<1> HIDE DEF R, new, spent
<1>6. /\ sessions' \in Seq(SessionRecords) /\ DOMAIN sessions' = 1..(n + 1)
      /\ sessions'[n + 1] = new /\ \A s \in 1..n : sessions'[s] = R[s]
  BY <1>1, <1>3, <1>4, <1>5, AppendProperties, LenProperties
<1>7. /\ tokens' \in Seq(Nat) /\ Len(tokens') = m + 1 /\ DOMAIN tokens' = 1..(m + 1)
      /\ tokens'[m + 1] = n + 1 /\ \A i \in 1..m : tokens'[i] = tokens[i]
  BY <1>1, <1>4, AppendProperties, LenProperties
<1>8. /\ exchanged' \in Seq(Nat) /\ Len(exchanged') = m + 1 /\ DOMAIN exchanged' = 1..(m + 1)
      /\ exchanged'[m + 1] = 0 /\ \A i \in 1..m : exchanged'[i] = exchanged[i]
  BY <1>1, <1>4, AppendProperties, LenProperties
<1> HIDE DEF n, m
<1>9. n + 1 \notin 1..n /\ m + 1 \notin 1..m /\ 1..n \subseteq 1..(n + 1)
      /\ 1..(n + 1) = 1..n \cup {n + 1} /\ 1..(m + 1) = 1..m \cup {m + 1}
  BY <1>1
<1>10. Live' = (Live \ work[w].ends) \cup {n + 1}
  BY <1>1, <1>3, <1>5, <1>6, <1>9 DEF Live
<1>11. WebSessions' = (WebSessions \ work[w].ends) \cup (IF work[w].client = "WEB" THEN {n + 1} ELSE {})
  BY <1>1, <1>3, <1>5, <1>6, <1>9, <1>10 DEF WebSessions, Live
<1>12. /\ account' \in [gen : Nat \ {0}, temp : BOOLEAN, used : BOOLEAN]
       /\ account'.gen = account.gen /\ account'.used = (account.used \/ work[w].temp)
       /\ account.used => account'.used
       /\ work[w].temp => account'.used
       /\ ~work[w].temp => account' = account
  BY <1>1, <1>4 DEF RequestStates
<1>30. ASSUME NEW i \in 1..m
       PROVE  /\ tokens[i] \in 1..n /\ exchanged[i] <= 1
              /\ exchanged[i] # 0 => sessions[tokens[i]].token # i
  BY <1>0, <1>1 DEF TokensOK, TokenExchangedOnce
<1>13. TokensOK' /\ TokenExchangedOnce'
  <2>1. ASSUME NEW i \in 1..(m + 1)
        PROVE  /\ tokens'[i] \in DOMAIN sessions' /\ exchanged'[i] <= 1
               /\ exchanged'[i] # 0 => sessions'[tokens'[i]].token # i
    <3>1. CASE i = m + 1
      BY <1>6, <1>7, <1>8, <1>9, <3>1
    <3>2. CASE i \in 1..m
      <4>1. tokens'[i] = tokens[i] /\ exchanged'[i] = exchanged[i]
        BY <1>7, <1>8, <3>2
      <4>2. /\ tokens[i] \in 1..n /\ exchanged[i] <= 1
            /\ exchanged[i] # 0 => sessions[tokens[i]].token # i
        BY <1>30, <3>2
      <4>3. sessions'[tokens[i]].token = sessions[tokens[i]].token
        BY <1>5, <1>6, <4>2
      <4> QED
        BY <1>6, <1>9, <4>1, <4>2, <4>3
    <3> QED
      BY <1>9, <3>1, <3>2
  <2>2. reused' \subseteq DOMAIN sessions' /\ reused' \cap Live' = {}
    BY <1>0, <1>1, <1>4, <1>6, <1>9, <1>10 DEF TokensOK, TokenExchangedOnce
  <2> QED
    BY <1>7, <1>8, <2>1, <2>2 DEF TokensOK, TokenExchangedOnce
<1>31. ASSUME NEW s \in 1..n
       PROVE  /\ sessions'[s].spends = sessions[s].spends
              /\ sessions[s].spends <= account.gen
              /\ sessions[s].spends = account.gen => account.used
  BY <1>0, <1>1, <1>5, <1>6 DEF SpendsOK
<1>14. SpendsOK'
  <2>1. account.gen \in Nat \ {0} /\ spent <= account.gen
    BY <1>1, <1>3
  <2>2. spent = account.gen => account'.used
    BY <1>3, <1>12, <2>1
  <2>3. ASSUME NEW s \in 1..(n + 1)
        PROVE  /\ sessions'[s].spends <= account.gen
               /\ sessions'[s].spends = account.gen => account'.used
    <3>1. CASE s = n + 1
      BY <1>3, <1>6, <2>1, <2>2, <3>1
    <3>2. CASE s \in 1..n
      BY <1>31, <1>12, <3>2
    <3> QED
      BY <1>9, <3>1, <3>2
  <2> QED
    BY <1>6, <1>12, <2>3 DEF SpendsOK
<1>15. LoginsExclude'
  <2>1. \A s, t \in Live' :
          sessions'[s].client = "WEB" /\ sessions'[t].client = "WEB" => s = t
    <3>1. \A s, t \in WebSessions' : s = t
      BY <1>0, <1>2, <1>11 DEF LoginsExclude, WebSessions
    <3> QED
      BY <3>1 DEF WebSessions
  <2>2. ASSUME NEW s \in 1..n PROVE spent # 0 => sessions'[s].spends # spent
    <3> SUFFICES ASSUME spent # 0, sessions'[s].spends = spent PROVE FALSE
      OBVIOUS
    <3>1. work[w].temp /\ spent = account.gen
      BY <1>3
    <3>2. sessions[s].spends = account.gen => account.used
      BY <1>31
    <3>3. sessions'[s].spends = sessions[s].spends
      BY <1>31
    <3> QED
      BY <1>2, <3>1, <3>2, <3>3
  <2>3. ASSUME NEW s \in 1..n, NEW t \in 1..n, s # t, sessions'[s].spends = sessions'[t].spends
        PROVE  sessions'[s].spends = 0
    <3>1. s \in DOMAIN sessions /\ t \in DOMAIN sessions
      BY <1>1
    <3>2. sessions'[s].spends = sessions[s].spends /\ sessions'[t].spends = sessions[t].spends
      BY <1>31
    <3>3. \A x, y \in DOMAIN sessions :
            x # y /\ sessions[x].spends = sessions[y].spends => sessions[x].spends = 0
      BY <1>0 DEF LoginsExclude
    <3> QED
      BY <2>3, <3>1, <3>2, <3>3
  <2>4. \A s, t \in DOMAIN sessions' :
          s # t /\ sessions'[s].spends = sessions'[t].spends => sessions'[s].spends = 0
    BY <1>3, <1>6, <1>9, <2>2, <2>3
  <2> QED
    BY <2>1, <2>4 DEF LoginsExclude
<1>16. CodesOK' /\ \A v \in Workers : CodeKept(v)
  BY <1>4, CodesKept
<1>17. devices' \in Seq(Devices)
  <2>1. devices \in Seq(Devices)
    BY <1>0 DEF IdentityTypeOK
  <2>2. \A d \in DOMAIN devices : devices[d] \in Devices
    BY <2>1, LenProperties, ElementOfSeq
  <2>3. /\ devices' = [d \in DOMAIN devices |-> devices'[d]]
        /\ \A d \in DOMAIN devices :
             devices'[d] = devices[d] \/ devices'[d] = [devices[d] EXCEPT !.status = "active"]
    BY DEF CommitLogin
  <2>4. \A d \in DOMAIN devices : devices'[d] \in Devices
    BY <2>2, <2>3 DEF Devices
  <2> QED
    BY <2>1, <2>3, <2>4, MappedSeq
<1>18. IdentityTypeOK' /\ RowsOK'
  BY <1>0, <1>4, <1>6, <1>7, <1>8, <1>12, <1>13, <1>14, <1>15, <1>16, <1>17, DoneFacts
     DEF IdentityTypeOK, RowsOK, CodesOK
<1>19. ASSUME NEW v \in Workers \ {w}
       PROVE  /\ UserRow \in work[v].locks => account' = account /\ WebSessions' \subseteq WebSessions
              /\ \A s \in Live : SessionRow(s) \in work[v].locks => s \in Live'
  <2>1. work[v].locks \cap work[w].locks = {}
    BY <1>0 DEF LocksOK
  <2> QED
    BY <1>2, <1>10, <1>11, <1>12, <2>1 DEF Rows
<1>20. /\ \A i \in DOMAIN tokens : i \in DOMAIN tokens' /\ tokens'[i] = tokens[i]
       /\ DOMAIN sessions \subseteq DOMAIN sessions'
  BY <1>1, <1>6, <1>7, <1>9
<1> QED
  BY <1>4, <1>16, <1>18, <1>19, <1>20, DoneFacts, LastStep

-----------------------------------------------------------------------------
(* All steps. *)

LEMMA InitIdentity == IdentityInit => IdentityInv
<1> SUFFICES ASSUME IdentityInit PROVE IdentityInv
  OBVIOUS
<1>1. /\ account \in [gen : Nat \ {0}, temp : BOOLEAN, used : BOOLEAN]
      /\ sessions = <<>> /\ tokens = <<>> /\ exchanged = <<>> /\ devices = <<>> /\ reused = {}
      /\ work = [w \in Workers |-> Idle] /\ phone \in Nat
  BY SessionsAssumption, IdentityAssumption DEF IdentityInit, SessionsInit
<1>2. DOMAIN sessions = {} /\ DOMAIN tokens = {} /\ DOMAIN exchanged = {} /\ Live = {}
      /\ Len(exchanged) = Len(tokens)
  BY <1>1 DEF Live
<1>3. /\ challenge \in [Purposes -> Challenges]
      /\ \A p \in Purposes : ~challenge[p].open /\ challenge[p].accepted = 0
                             /\ challenge[p].served = 0
  BY DEF IdentityInit, Challenge, Challenges
<1>4. IdentityTypeOK
  BY <1>1, <1>3, IdleType DEF IdentityTypeOK
<1>5. LocksOK
  BY <1>1, IdleType DEF LocksOK
<1>6. WorkersOK
  BY <1>1, IdleType DEF WorkersOK, WorkerOK, LoginOK, RefreshOK, EndingOK, ServingOK, At, Serving
<1>7. RowsOK
  BY <1>1, <1>2, <1>3
     DEF RowsOK, TokensOK, TokenExchangedOnce, SpendsOK, LoginsExclude, OpenOK, CodeAcceptedOnce
<1> QED
  BY <1>4, <1>5, <1>6, <1>7 DEF IdentityInv

LEMMA ContinueIdentity ==
  ASSUME IdentityInv, NEW w \in Workers, Continue(w)
  PROVE  IdentityInv'
<1>0. IdentityTypeOK
  BY DEF IdentityInv
<1>1. ASSUME CodesSame, RefuseLogin(w) PROVE IdentityInv'
  BY <1>0, <1>1, GivesUp DEF RefuseLogin, CodesSame, tables, IdentityTypeOK
<1>2. ASSUME CodesSame, ChangePassword(w) PROVE IdentityInv'
  BY <1>2, NewPasswordStep DEF ChangePassword
<1>3. ASSUME RefusePhoneRequest(w) PROVE IdentityInv'
  BY <1>0, <1>3, GivesUp DEF RefusePhoneRequest, SessionsSame, CodesSame, tables, IdentityTypeOK
<1>4. ASSUME RecoverPassword(w) PROVE IdentityInv'
  BY <1>4, NewPasswordStep DEF RecoverPassword, At
<1>5. ASSUME LockPhoneSession(w) PROVE IdentityInv'
  BY <1>5, LockPhoneStep, LosePhoneStep
<1>6. ASSUME BreakDeadlock(w) PROVE IdentityInv'
  BY <1>6, RollBackStep DEF BreakDeadlock
<1>7. ASSUME CodesSame,
             \/ BeginLogin(w) \/ BindDevice(w) \/ CreateDevice(w) \/ CommitLogin(w)
             \/ Rotate(w) \/ DetectReuse(w) \/ RevokeFamily(w) \/ CommitPassword(w)
      PROVE  IdentityInv'
  BY <1>7, BeginLoginStep, BindStep, CreateStep, CommitLoginStep, RotateStep, DetectReuseStep,
     RevokeFamilyStep, CommitPasswordStep
<1>8. ASSUME \/ BeginPhoneRequest(w) \/ \E p \in Purposes : CommitRequest(w, p)
             \/ StepUp(w) \/ CommitPhone(w) \/ UnbindDevice(w) \/ EndSessions(w)
             \/ CommitDeviceReset(w) \/ CommitRecovery(w)
      PROVE  IdentityInv'
  BY <1>8, BeginRequestSteps, CommitRequestStep, StepUpStep, CommitPhoneStep, UnbindStep,
     EndSessionsStep, CommitResetStep, CommitRecoveryStep
<1> QED
  BY <1>1, <1>2, <1>3, <1>4, <1>5, <1>6, <1>7, <1>8 DEF Continue

LEMMA StartIdentity ==
  ASSUME IdentityInv, NEW w \in Workers, Start(w)
  PROVE  IdentityInv'
<1>1. ASSUME CodesSame, NEW l \in Logins, VerifyCredentials(w, l[1], l[2]) PROVE IdentityInv'
  BY <1>1, VerifyStep
<1>2. ASSUME CodesSame,
             \/ \E j \in DOMAIN tokens : ReadSession(w, j)
             \/ \E s \in Live : RevokeSession(w, s)
             \/ CheckPassword(w)
      PROVE  IdentityInv'
  BY <1>2, ReadSessionStep, RevokeSessionStep, CheckStep
<1>3. ASSUME CodesSame, RenewTemporary(w) PROVE IdentityInv'
  BY <1>3, NewPasswordStep DEF RenewTemporary
<1>4. ASSUME CodesSame, FailLogin(w) PROVE IdentityInv'
  BY <1>4, RollBackStep DEF FailLogin
<1>5. ASSUME FailConfirmation(w) PROVE IdentityInv'
  BY <1>5, RollBackStep DEF FailConfirmation
<1>6. ASSUME \/ \E p \in Purposes, s \in Live \cup {0} : BeginRequest(w, p, s)
             \/ \E s \in Live, number \in Phones : AskForPhone(w, s, number)
             \/ \E p \in Purposes, s \in Live \cup {0} : RightCode(w, p, s)
             \/ \E p \in Purposes : WrongCode(w, p)
      PROVE  IdentityInv'
  BY <1>6, BeginRequestSteps, AskStep, RightCodeStep, WrongCodeStep
<1> QED
  BY <1>1, <1>2, <1>3, <1>4, <1>5, <1>6 DEF Start

LEMMA NextIdentity == IdentityInv /\ [IdentityNext]_ivars => IdentityInv'
<1> SUFFICES ASSUME IdentityInv, [IdentityNext]_ivars PROVE IdentityInv'
  OBVIOUS
<1>1. CASE IdentityNext
  BY <1>1, ContinueIdentity, StartIdentity DEF IdentityNext
<1>2. CASE UNCHANGED ivars
  <2>1. IdentityTypeOK' /\ LocksOK'
    BY <1>2 DEF ivars, svars, IdentityInv, IdentityTypeOK, LocksOK
  <2>2. WorkersOK'
    BY <1>2 DEF ivars, svars, IdentityInv, WorkersOK, WorkerOK, LoginOK, RefreshOK, EndingOK, ServingOK,
                At, Live, WebSessions
  <2>3. RowsOK'
    BY <1>2 DEF ivars, svars, IdentityInv, RowsOK, TokensOK, TokenExchangedOnce, SpendsOK, LoginsExclude,
                OpenOK, CodeAcceptedOnce, Live
  <2> QED
    BY <2>1, <2>2, <2>3 DEF IdentityInv
<1> QED
  BY <1>1, <1>2

LEMMA IdentityInvariant == IdentitySpec => []IdentityInv
BY InitIdentity, NextIdentity, PTL DEF IdentitySpec

-----------------------------------------------------------------------------
(* The theorems. *)

\* The account, its rows and the requests under way have the types of their columns
\* (identity/models.py), for any number of requests, sessions and codes.
THEOREM IdentityTypes == IdentitySpec => []IdentityTypeOK
<1>1. IdentityInv => IdentityTypeOK
  BY DEF IdentityInv
<1> QED
  BY <1>1, IdentityInvariant, PTL

\* A refresh token is exchanged at most once however many requests present it, and
\* a family whose reuse was reported is dead (TokenService.rotate, revoke_family).
THEOREM TokensExchangedOnce == IdentitySpec => []TokenExchangedOnce
<1>1. IdentityInv => TokenExchangedOnce
  BY DEF IdentityInv, RowsOK
<1> QED
  BY <1>1, IdentityInvariant, PTL

\* One live web session per account, one session per temporary password, however
\* many logins and changes of the password overlap (AuthenticationService.login).
THEOREM LoginsExcludeEachOther == IdentitySpec => []LoginsExclude
<1>1. IdentityInv => LoginsExclude
  BY DEF IdentityInv, RowsOK
<1> QED
  BY <1>1, IdentityInvariant, PTL

\* A one-time code is accepted at most once and serves its own session, for any
\* number of confirmations that overlap with requests for new codes.
THEOREM CodesAcceptedOnce == IdentitySpec => []CodeAcceptedOnce
<1>1. IdentityInv => CodeAcceptedOnce
  BY DEF IdentityInv, RowsOK
<1> QED
  BY <1>1, IdentityInvariant, PTL

\* What the steps do to a session that is revoked: nothing.
LEMMA RevokedStays ==
  ASSUME IdentityInv, NEW w \in Workers, Continue(w) \/ Start(w), NEW s \in DOMAIN sessions, s \notin Live
  PROVE  sessions'[s] = sessions[s]
<1>0. IdentityTypeOK /\ sessions \in Seq(SessionRecords) /\ DOMAIN sessions = 1..Len(sessions)
      /\ Len(sessions) \in Nat
  BY LenProperties DEF IdentityInv, IdentityTypeOK
<1>1. ASSUME NEW S, sessions' = Revoked(S) PROVE sessions'[s] = sessions[s]
  BY <1>0, <1>1, RevokedRows
<1>2. ASSUME CommitLogin(w) PROVE sessions'[s] = sessions[s]
  <2>1. PICK r : sessions' = Append(Revoked(work[w].ends), r)
    BY <1>2 DEF CommitLogin
  <2> DEFINE S == work[w].ends
  <2> HIDE DEF S
  <2>2. /\ Revoked(S)[s] = sessions[s] /\ Len(Revoked(S)) = Len(sessions)
        /\ Revoked(S) \in Seq(SessionRecords)
    BY <1>0, RevokedRows
  <2>3. Append(Revoked(S), r)[s] = Revoked(S)[s]
    BY <1>0, <2>2
  <2> QED
    BY <2>1, <2>2, <2>3 DEF S
<1>3. ASSUME Rotate(w) PROVE sessions'[s] = sessions[s]
  <2>1. work[w].session \in Live
    BY <1>3 DEF IdentityInv, WorkersOK, WorkerOK, RefreshOK, Rotate, MayRotate, Current
  <2> QED
    BY <1>3, <2>1 DEF Rotate
<1>4. ASSUME StepUp(w) PROVE sessions'[s] = sessions[s]
  BY <1>4 DEF StepUp
<1>5. ASSUME UNCHANGED sessions PROVE sessions'[s] = sessions[s]
  BY <1>5
<1>6. \/ \E S : sessions' = Revoked(S)
      \/ CommitLogin(w) \/ Rotate(w) \/ StepUp(w)
      \/ UNCHANGED sessions
  <2>1. CASE Continue(w)
    BY <2>1
       DEF Continue, BeginLogin, RefuseLogin, BindDevice, CreateDevice, DetectReuse, RevokeFamily,
           ChangePassword, NewPassword, CommitPassword, BeginPhoneRequest, LockRequest,
           RefusePhoneRequest, CommitRequest, LockPhoneSession, CommitPhone, UnbindDevice,
           EndSessions, CommitDeviceReset, RecoverPassword, CommitRecovery, BreakDeadlock,
           RollBack, SessionsSame
  <2>2. CASE Start(w)
    BY <2>2
       DEF Start, VerifyCredentials, ReadSession, RevokeSession, CheckPassword, RenewTemporary,
           NewPassword, FailLogin, RollBack, BeginRequest, LockRequest, AskForPhone, RightCode,
           WrongCode, FailConfirmation, SessionsSame
  <2> QED
    BY <2>1, <2>2
<1> QED
  BY <1>1, <1>2, <1>3, <1>4, <1>5, <1>6

\* The number changes in one step only, and by what its code was sent for.
LEMMA PhoneFollowsCode ==
  ASSUME IdentityInv, NEW w \in Workers, Continue(w) \/ Start(w), phone' # phone
  PROVE  /\ challenge["PHONE_CHANGE"].open
         /\ challenge["PHONE_CHANGE"].session \in Live
         /\ phone' = challenge["PHONE_CHANGE"].phone
<1>1. CommitPhone(w)
  <2>1. CASE Continue(w)
    BY <2>1
       DEF Continue, CodesSame, BeginPhoneRequest, LockRequest, RefusePhoneRequest, CommitRequest,
           StepUp, LockPhoneSession, UnbindDevice, EndSessions, CommitDeviceReset,
           RecoverPassword, CommitRecovery, BreakDeadlock
  <2>2. CASE Start(w)
    BY <2>2
       DEF Start, CodesSame, BeginRequest, LockRequest, AskForPhone, RightCode, WrongCode,
           FailConfirmation
  <2> QED
    BY <2>1, <2>2
<1>2. work[w].pc = "replacing" /\ phone' = work[w].phone
  BY <1>1 DEF CommitPhone, At
<1>3. ServingOK(w) /\ "PHONE_CHANGE" \in DOMAIN Serving /\ "replacing" \in Serving["PHONE_CHANGE"]
      /\ "PHONE_CHANGE" \in OfSession
  BY DEF IdentityInv, WorkersOK, WorkerOK, Serving, OfSession
<1> QED
  BY <1>2, <1>3 DEF ServingOK, At

\* A revoked session stays as it is and the number follows its code, whatever was
\* under way when the session was revoked (devices.py, phone_change.py).
THEOREM RevocationsAreFinal == IdentitySpec => RevocationIsFinal
<1> DEFINE Final ==
      /\ \A s \in DOMAIN sessions : s \notin Live => sessions'[s] = sessions[s]
      /\ phone' # phone => LET c == challenge["PHONE_CHANGE"]
                           IN  c.open /\ c.session \in Live /\ phone' = c.phone
<1>1. IdentityInv /\ [IdentityNext]_ivars => [Final]_ivars
  BY RevokedStays, PhoneFollowsCode DEF IdentityNext
<1> QED
  BY <1>1, IdentityInvariant, PTL DEF IdentitySpec, RevocationIsFinal
=============================================================================
