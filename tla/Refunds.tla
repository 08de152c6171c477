------------------------------- MODULE Refunds -------------------------------
(***************************************************************************)
(* Refunding a cancelled event: the Celery task that prepares and executes *)
(* the refunds, Stripe, its refund.updated webhook, and the tickets        *)
(* (backend/apps/payments/services/refunds.py, refund_tasks.py).           *)
(*                                                                         *)
(* The state is one cancelled event's: Payments are numbered in the order  *)
(* request_event_refunds sorts them, each has at most one refund row.  The *)
(* task's messages are named by their retry count; Celery acknowledges a   *)
(* message late, so a worker that dies may run the task again.             *)
(*                                                                         *)
(* A definition named Bug_X is a plausible bug in the definition that      *)
(* follows it, for checking that the properties notice it.                 *)
(***************************************************************************)
EXTENDS Integers, FiniteSets, FiniteSetsExt

CONSTANTS Payments,
          Workers,      \* Celery workers
          MaxRetries,   \* max_retries of the task
          FirstAnswers, \* statuses Stripe gives a refund it creates
          MaxErrors,    \* bound on the calls that Stripe declines or that time out
          MaxCrashes    \* bound on the workers that die

ASSUME RefundsAssumption ==
  /\ Payments \subseteq Nat /\ IsFiniteSet(Payments)
  /\ MaxRetries \in Nat /\ MaxErrors \in Nat /\ MaxCrashes \in Nat
  /\ FirstAnswers \subseteq {"pending", "succeeded", "failed"}

VARIABLES cancelled, \* the event is CANCELLED, with refund_requested
          ticket,    \* the order's ticket: issued when its payment is confirmed
          refund,    \* rows of payments_payment_refund
          reported,  \* payments whose failed refund Stripe's webhook reported
          announced, \* how many payment.refund.succeeded events were published
          queue,     \* messages of the task that wait for a worker
          worker,    \* what each worker is in the middle of
          stripe,    \* Stripe's refund of a payment, and its first answer to the key
          errors, crashes

vars == <<cancelled, ticket, refund, reported, announced, queue, worker, stripe, errors, crashes>>

-----------------------------------------------------------------------------
NoRefund == [status |-> "NONE", known |-> FALSE]  \* known: provider_refund_id is set
Resting == [pc |-> "idle", retries |-> 0, todo |-> {}, answer |-> "none"]

Init ==
  /\ cancelled = FALSE
  /\ ticket = [p \in Payments |-> "NONE"]
  /\ refund = [p \in Payments |-> NoRefund]
  /\ reported = {}
  /\ announced = [p \in Payments |-> 0]
  /\ queue = {}
  /\ worker = [w \in Workers |-> Resting]
  /\ stripe = [p \in Payments |-> [now |-> "none", first |-> "none", made |-> 0]]
  /\ errors = 0 /\ crashes = 0

Paid == {p \in Payments : ticket[p] # "NONE"}

\* confirm_order_payment reads the order, the hold and the stock, not the
\* event's status: it also confirms when the event is already cancelled.
ConfirmPayment(p) ==
  /\ ticket[p] = "NONE"
  /\ ticket' = [ticket EXCEPT ![p] = "VALID"]
  /\ UNCHANGED <<cancelled, refund, reported, announced, queue, worker, stripe, errors, crashes>>

\* Nobody is admitted to a cancelled event.
Admit(p) ==
  /\ ~cancelled /\ ticket[p] = "VALID"
  /\ ticket' = [ticket EXCEPT ![p] = "USED"]
  /\ UNCHANGED <<cancelled, refund, reported, announced, queue, worker, stripe, errors, crashes>>

\* EventCancelView.post, then EventCancellationRefundConsumer through the outbox.
Cancel ==
  /\ ~cancelled
  /\ cancelled' = TRUE
  /\ queue' = {0}
  /\ UNCHANGED <<ticket, refund, reported, announced, worker, stripe, errors, crashes>>

-----------------------------------------------------------------------------
(* process_cancelled_event_refunds. *)

\* request_event_refunds: one transaction.
Start(w, retries) ==
  /\ worker[w] = Resting /\ retries \in queue
  /\ queue' = queue \ {retries}
  /\ refund' = [p \in Payments |->
       IF p \in Paid /\ refund[p].status = "NONE"
       THEN [refund[p] EXCEPT !.status = "PENDING"] ELSE refund[p]]
  /\ worker' = [worker EXCEPT ![w] = [Resting EXCEPT
       !.pc = "reading", !.retries = retries, !.todo = Paid]]
  /\ UNCHANGED <<cancelled, ticket, reported, announced, stripe, errors, crashes>>

\* The payment a worker is at, of those it has yet to refund.
Current(w) == Min(worker[w].todo)

\* The next refund, read without a lock.
Read(w) ==
  /\ worker[w].pc = "reading" /\ worker[w].todo # {}
  /\ worker' = [worker EXCEPT ![w] =
       IF refund[Current(w)].status = "SUCCEEDED"
       THEN [@ EXCEPT !.todo = worker[w].todo \ {Current(w)}]
       ELSE [@ EXCEPT !.pc = "calling"]]
  /\ UNCHANGED <<cancelled, ticket, refund, reported, announced, queue, stripe, errors, crashes>>

Bug_KeyPerCall(p) == FALSE

\* The idempotency key is made of the event and the payment, so that a refund
\* that was asked for once is recognised by Stripe ever after.
SameKey(p) == stripe[p].first # "none"

\* What Stripe makes of a refund request: a refund the first time it sees the
\* key, the same answer as then afterwards.
Created(p) ==
  IF SameKey(p) THEN {stripe[p]}
  ELSE {[now |-> s, first |-> s, made |-> stripe[p].made + 1] : s \in FirstAnswers}

\* create_refund: answered, declined, or carried out but the answer is lost.
Call(w) ==
  /\ worker[w].pc = "calling"
  /\ LET p == Current(w) IN
     \/ \E r \in Created(p) :
          /\ stripe' = [stripe EXCEPT ![p] = r]
          /\ worker' = [worker EXCEPT ![w].pc = "storing", ![w].answer = r.first]
          /\ UNCHANGED errors
     \/ /\ errors < MaxErrors
        /\ errors' = errors + 1
        /\ \E r \in Created(p) \cup {stripe[p]} : stripe' = [stripe EXCEPT ![p] = r]
        /\ worker' = [worker EXCEPT ![w].pc = "storing", ![w].answer = "error"]
  /\ UNCHANGED <<cancelled, ticket, refund, reported, announced, queue, crashes>>

Bug_SettledIsOverwritten(p) == FALSE

\* A refund that succeeded meanwhile is left alone.
Settled(p) == refund[p].status = "SUCCEEDED"

Bug_VoidOnEveryAnswer(p, success) == [ticket EXCEPT ![p] = IF @ = "VALID" THEN "VOID" ELSE @]
Bug_TicketsKept(p, success) == ticket

\* void_valid_tickets_for_order_event, on success only.
Voided(p, success) ==
  [ticket EXCEPT ![p] = IF success /\ @ = "VALID" THEN "VOID" ELSE @]

Bug_IdNotStored(r, answer) ==
  [r EXCEPT !.status = CASE answer = "succeeded" -> "SUCCEEDED"
                         [] answer = "pending"   -> "PENDING"
                         [] OTHER                -> "FAILED"]

\* The row the answer gives.
Stored(r, answer) ==
  [status |-> CASE answer = "succeeded" -> "SUCCEEDED"
                [] answer = "pending"   -> "PENDING"
                [] answer \in {"failed", "error"} -> "FAILED",
   known  |-> r.known \/ answer # "error"]

\* The second transaction, under the row lock; an error ends the loop.
Store(w) ==
  /\ worker[w].pc = "storing"
  /\ LET p == Current(w)
         answer == worker[w].answer
         success == answer = "succeeded" /\ ~Settled(p)
         raised == answer = "error" \/ (answer = "failed" /\ ~Settled(p))
     IN  /\ refund' = IF Settled(p) THEN refund
                      ELSE [refund EXCEPT ![p] = Stored(refund[p], answer)]
         /\ ticket' = IF Settled(p) THEN ticket ELSE Voided(p, success)
         /\ announced' = [announced EXCEPT ![p] = @ + IF success THEN 1 ELSE 0]
         /\ worker' = [worker EXCEPT ![w] =
              IF raised THEN [@ EXCEPT !.pc = "failed", !.answer = "none"]
              ELSE [@ EXCEPT !.pc = "reading", !.todo = worker[w].todo \ {p},
                            !.answer = "none"]]
  /\ UNCHANGED <<cancelled, reported, queue, stripe, errors, crashes>>

\* self.retry: the next message is queued before this one is acknowledged.
Retry(w) ==
  /\ worker[w].pc = "failed"
  /\ queue' = IF worker[w].retries < MaxRetries
              THEN queue \cup {worker[w].retries + 1} ELSE queue
  /\ worker' = [worker EXCEPT ![w].pc = "ended"]
  /\ UNCHANGED <<cancelled, ticket, refund, reported, announced, stripe, errors, crashes>>

Acknowledge(w) ==
  /\ \/ worker[w].pc = "ended"
     \/ worker[w].pc = "reading" /\ worker[w].todo = {}
  /\ worker' = [worker EXCEPT ![w] = Resting]
  /\ UNCHANGED <<cancelled, ticket, refund, reported, announced, queue, stripe, errors, crashes>>

\* The broker redelivers the message of a worker that dies, unless only the
\* pool process died and the message was acknowledged for it.
Crash(w) ==
  /\ worker[w].pc # "idle" /\ crashes < MaxCrashes
  /\ crashes' = crashes + 1
  /\ queue' \in {queue, queue \cup {worker[w].retries}}
  /\ worker' = [worker EXCEPT ![w] = Resting]
  /\ UNCHANGED <<cancelled, ticket, refund, reported, announced, stripe, errors>>

-----------------------------------------------------------------------------
(* Stripe settles a pending refund and delivers refund.updated until it is  *)
(* answered 200, at least once.  A row without provider_refund_id is not    *)
(* found: the delivery fails and changes nothing.                           *)

Settle(p) ==
  /\ stripe[p].now = "pending"
  /\ \E s \in {"succeeded", "failed"} : stripe' = [stripe EXCEPT ![p].now = s]
  /\ UNCHANGED <<cancelled, ticket, refund, reported, announced, queue, worker, errors, crashes>>

MarkSucceeded(p) ==
  /\ stripe[p].now = "succeeded" /\ refund[p].known
  /\ ~Settled(p)
  /\ refund' = [refund EXCEPT ![p].status = "SUCCEEDED"]
  /\ ticket' = Voided(p, TRUE)
  /\ announced' = [announced EXCEPT ![p] = @ + 1]
  /\ UNCHANGED <<cancelled, reported, queue, worker, stripe, errors, crashes>>

MarkFailed(p) ==
  /\ stripe[p].now = "failed" /\ refund[p].known
  /\ reported' = reported \cup {p}
  /\ refund' = IF Settled(p) THEN refund ELSE [refund EXCEPT ![p].status = "FAILED"]
  /\ UNCHANGED <<cancelled, ticket, announced, queue, worker, stripe, errors, crashes>>

-----------------------------------------------------------------------------
Run(w) == (\E k \in 0..MaxRetries : Start(w, k)) \/ Read(w) \/ Call(w) \/ Store(w)
            \/ Retry(w) \/ Acknowledge(w)
Webhook(p) == MarkSucceeded(p) \/ MarkFailed(p)
FirstWebhook(p) == MarkSucceeded(p) \/ (p \notin reported /\ MarkFailed(p))

Next ==
  \/ Cancel
  \/ \E p \in Payments : ConfirmPayment(p) \/ Admit(p) \/ Settle(p) \/ Webhook(p)
  \/ \E w \in Workers : Run(w) \/ Crash(w)

Spec == Init /\ [][Next]_vars

\* A queued task runs to its end, Stripe settles what is pending and delivers
\* its webhook until it is answered 200; more deliveries are possible, not certain.
Fairness ==
  /\ \A w \in Workers : WF_vars(Run(w))
  /\ \A p \in Payments : WF_vars(Settle(p)) /\ WF_vars(FirstWebhook(p))

FairSpec == Spec /\ Fairness

-----------------------------------------------------------------------------
\* Money goes back once, however often the task is retried, redelivered or runs
\* on two workers at a time.
NeverRefundedTwice == \A p \in Payments : stripe[p].made <= 1

\* A refund recorded as succeeded leaves no ticket that admits anybody, and is
\* announced exactly once, whether the task or the webhook records it; and a ticket
\* is only taken from its owner when the money really went back.
SucceededIsComplete ==
  \A p \in Payments :
    LET succeeded == refund[p].status = "SUCCEEDED" IN
      /\ succeeded => ticket[p] # "VALID"
      /\ announced[p] = IF succeeded THEN 1 ELSE 0
      /\ ticket[p] = "VOID" => stripe[p].now = "succeeded"

\* SUCCEEDED is final: no late answer, error or webhook takes it back.
SucceededIsFinal ==
  [][\A p \in Payments :
       refund[p].status = "SUCCEEDED" => refund'[p].status = "SUCCEEDED"]_vars

\* A call declined or lost, a refund that failed, a worker that died: the task
\* may give up.
Disturbed == errors > 0 \/ crashes > 0 \/ \E p \in Payments : stripe[p].now = "failed"

\* While Stripe accepts every refund and no worker dies, a refund that was
\* requested ends SUCCEEDED, in whatever order task and webhook go.
RefundsSettle ==
  \A p \in Payments :
    refund[p].status = "PENDING" ~> (refund[p].status = "SUCCEEDED" \/ Disturbed)
=============================================================================
