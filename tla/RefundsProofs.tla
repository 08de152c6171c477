--------------------------- MODULE RefundsProofs ---------------------------
(* Proofs about Refunds, for any number of payments, Celery workers, retries, *)
(* declined or lost calls and crashes.                                        *)
EXTENDS Refunds, TLAPS, NaturalsInduction, WellFoundedInduction

RefundRows == [status : {"NONE", "PENDING", "SUCCEEDED", "FAILED"}, known : BOOLEAN]
Tasks == [pc : {"idle", "reading", "calling", "storing", "failed", "ended"},
          retries : 0..MaxRetries, todo : SUBSET Payments,
          answer : {"none", "pending", "succeeded", "failed", "error"}]
StripeRefunds == [now   : {"none", "pending", "succeeded", "failed"},
                  first : {"none", "pending", "succeeded", "failed"}, made : Nat]

TypeOK ==
  /\ cancelled \in BOOLEAN
  /\ ticket \in [Payments -> {"NONE", "VALID", "USED", "VOID"}]
  /\ refund \in [Payments -> RefundRows]
  /\ reported \in SUBSET Payments
  /\ announced \in [Payments -> Nat]
  /\ queue \in SUBSET (0..MaxRetries)
  /\ worker \in [Workers -> Tasks]
  /\ stripe \in [Payments -> StripeRefunds]
  /\ errors \in Nat /\ crashes \in Nat

\* Stripe has made the refund whose key it knows, and never undoes one.
StripeOK ==
  \A p \in Payments :
    /\ stripe[p].made = IF stripe[p].first = "none" THEN 0 ELSE 1
    /\ stripe[p].first = "none" <=> stripe[p].now = "none"
    /\ stripe[p].first = "succeeded" => stripe[p].now = "succeeded"

\* A worker is at a payment whose refund was requested, and what it was told
\* of a success is still true when it comes to store it.
WorkersOK ==
  \A w \in Workers :
    /\ \A p \in worker[w].todo : refund[p].status # "NONE"
    /\ worker[w].pc \in {"calling", "storing"} => worker[w].todo # {}
    /\ worker[w].pc = "storing" =>
         /\ worker[w].answer # "none"
         /\ worker[w].answer = "succeeded" => stripe[Current(w)].now = "succeeded"

\* Only the refund of a paid order was requested, and Stripe's id is stored
\* with a refund that was requested.
RequestsOK ==
  \A p \in Payments :
    /\ refund[p].status # "NONE" => ticket[p] # "NONE"
    /\ refund[p].known => refund[p].status # "NONE"

\* What the database records as succeeded, Stripe has made, once.
RecordedIsMade ==
  \A p \in Payments : refund[p].status = "SUCCEEDED" =>
    stripe[p].now = "succeeded" /\ stripe[p].made = 1

IInv ==
  /\ TypeOK
  /\ StripeOK
  /\ WorkersOK
  /\ RequestsOK
  /\ RecordedIsMade
  /\ SucceededIsComplete

-----------------------------------------------------------------------------
\* FiniteSetsExt's Min, chosen in a set of naturals, is one of its elements.
LEMMA MinIsElement ==
  ASSUME NEW S \in SUBSET Nat, S # {}
  PROVE  Min(S) \in S
<1> DEFINE R == OpToRel(<, Nat)
<1>1. R = {ss \in Nat \X Nat : ss[1] < ss[2]}
  BY DEF OpToRel
<1>2. PICK x \in S : \A y \in S : <<y, x>> \notin R
  BY NatLessThanWellFounded, WFMin
<1> HIDE DEF R
<1>3. ASSUME NEW y \in S PROVE x <= y
  <2>1. x \in Nat /\ y \in Nat
    OBVIOUS
  <2>2. y < x => <<y, x>> \in R
    BY <1>1, <2>1
  <2> QED
    BY <1>2, <2>1, <2>2
<1> QED
  BY <1>3 DEF Min

\* The payment a worker is at is one it has yet to refund.
LEMMA CurrentIsDue ==
  ASSUME TypeOK, NEW w \in Workers, worker[w].todo # {}
  PROVE  /\ Current(w) \in worker[w].todo
         /\ Current(w) \in Payments
<1>1. worker[w].todo \in SUBSET Payments
  BY DEF TypeOK, Tasks
<1> QED
  BY <1>1, MinIsElement, RefundsAssumption DEF Current
-----------------------------------------------------------------------------
LEMMA InitIInv == Init => IInv
<1> SUFFICES ASSUME Init PROVE IInv
  OBVIOUS
<1>1. TypeOK
  <2>1. worker \in [Workers -> Tasks]
    BY RefundsAssumption DEF Init, Resting, Tasks
  <2>2. refund \in [Payments -> RefundRows]
    BY DEF Init, NoRefund, RefundRows
  <2>3. stripe \in [Payments -> StripeRefunds]
    BY DEF Init, StripeRefunds
  <2> QED
    BY <2>1, <2>2, <2>3 DEF Init, TypeOK
<1>2. StripeOK /\ WorkersOK /\ RequestsOK /\ RecordedIsMade /\ SucceededIsComplete
  BY DEF Init, NoRefund, Resting, StripeOK, WorkersOK, RequestsOK, RecordedIsMade,
         SucceededIsComplete
<1> QED
  BY <1>1, <1>2 DEF IInv

(* Types. *)

LEMMA CreatedType ==
  ASSUME TypeOK, NEW p \in Payments
  PROVE  Created(p) \subseteq StripeRefunds
BY RefundsAssumption DEF TypeOK, Created, SameKey, StripeRefunds

LEMMA StoredType ==
  ASSUME NEW r \in RefundRows, NEW answer \in {"pending", "succeeded", "failed", "error"}
  PROVE  /\ Stored(r, answer) \in RefundRows
         /\ Stored(r, answer).status # "NONE"
         /\ Stored(r, answer).status = "SUCCEEDED" <=> answer = "succeeded"
<1>1. (r.known \/ answer # "error") \in BOOLEAN
  OBVIOUS
<1> QED
  BY <1>1 DEF Stored, RefundRows

LEMMA NextTypeOK == TypeOK /\ WorkersOK /\ [Next]_vars => TypeOK'
<1> SUFFICES ASSUME TypeOK, WorkersOK, [Next]_vars PROVE TypeOK'
  OBVIOUS
<1> USE DEF TypeOK
<1>1. CASE Cancel
  BY <1>1, RefundsAssumption DEF Cancel
<1>2. ASSUME NEW p \in Payments, ConfirmPayment(p) \/ Admit(p) PROVE TypeOK'
  BY <1>2 DEF ConfirmPayment, Admit
<1>3. ASSUME NEW p \in Payments, Settle(p) PROVE TypeOK'
  BY <1>3 DEF Settle, StripeRefunds
<1>4. ASSUME NEW p \in Payments, MarkSucceeded(p) PROVE TypeOK'
  BY <1>4 DEF MarkSucceeded, Voided, RefundRows
<1>5. ASSUME NEW p \in Payments, MarkFailed(p) PROVE TypeOK'
  BY <1>5 DEF MarkFailed, RefundRows
<1>6. ASSUME NEW w \in Workers, NEW k \in 0..MaxRetries, Start(w, k) PROVE TypeOK'
  <2>1. refund' \in [Payments -> RefundRows]
    BY <1>6 DEF Start, RefundRows
  <2>2. worker' \in [Workers -> Tasks]
    BY <1>6 DEF Start, Tasks, Resting, Paid
  <2> QED
    BY <1>6, <2>1, <2>2 DEF Start
<1>7. ASSUME NEW w \in Workers, Read(w) PROVE TypeOK'
  BY <1>7 DEF Read, Tasks
<1>8. ASSUME NEW w \in Workers, Call(w) PROVE TypeOK'
  <2> DEFINE p == Current(w)
  <2>1. p \in Payments
    BY <1>8, CurrentIsDue DEF Call, WorkersOK
  <2>2. Created(p) \cup {stripe[p]} \subseteq StripeRefunds
    BY <2>1, CreatedType
  <2>3. stripe' \in [Payments -> StripeRefunds]
    BY <1>8, <2>1, <2>2 DEF Call
  <2>4. worker' \in [Workers -> Tasks]
    <3>1. \E a \in {"none", "pending", "succeeded", "failed", "error"} :
            worker' = [worker EXCEPT ![w].pc = "storing", ![w].answer = a]
      BY <1>8, <2>2 DEF Call, StripeRefunds
    <3>2. PICK a \in {"none", "pending", "succeeded", "failed", "error"} :
            worker' = [worker EXCEPT ![w].pc = "storing", ![w].answer = a]
      BY <3>1
    <3>3. [worker[w] EXCEPT !.pc = "storing", !.answer = a] \in Tasks
      BY DEF Tasks
    <3> QED
      BY <3>2, <3>3
  <2> QED
    BY <1>8, <2>3, <2>4, RefundsAssumption DEF Call
<1>9. ASSUME NEW w \in Workers, Store(w) PROVE TypeOK'
  <2> DEFINE p == Current(w)
  <2>1. p \in Payments
    BY <1>9, CurrentIsDue DEF Store, WorkersOK
  <2>2. refund' \in [Payments -> RefundRows]
    BY <1>9, <2>1, StoredType DEF Store, Tasks, WorkersOK
  <2>3. ticket' \in [Payments -> {"NONE", "VALID", "USED", "VOID"}]
    BY <1>9 DEF Store, Voided
  <2>4. announced' \in [Payments -> Nat]
    BY <1>9, <2>1 DEF Store
  <2>5. worker' \in [Workers -> Tasks]
    <3>1. \E t \in Tasks : worker' = [worker EXCEPT ![w] = t]
      BY <1>9 DEF Store, Tasks
    <3> QED
      BY <3>1
  <2> QED
    BY <1>9, <2>2, <2>3, <2>4, <2>5 DEF Store
<1>10. ASSUME NEW w \in Workers, Retry(w) PROVE TypeOK'
  BY <1>10, RefundsAssumption DEF Retry, Tasks
<1>11. ASSUME NEW w \in Workers, Acknowledge(w) PROVE TypeOK'
  BY <1>11, RefundsAssumption DEF Acknowledge, Resting, Tasks
<1>12. ASSUME NEW w \in Workers, Crash(w) PROVE TypeOK'
  BY <1>12, RefundsAssumption DEF Crash, Resting, Tasks
<1>13. CASE UNCHANGED vars
  BY <1>13 DEF vars
<1> QED
  BY <1>1, <1>2, <1>3, <1>4, <1>5, <1>6, <1>7, <1>8, <1>9, <1>10, <1>11, <1>12, <1>13
     DEF Next, Run, Webhook

-----------------------------------------------------------------------------
(* What Stripe has made stays made. *)

\* A step leaves Stripe's record alone, settles a pending refund, or sends a
\* request under the payment's key.
LEMMA StripeSteps ==
  ASSUME TypeOK, WorkersOK, [Next]_vars
  PROVE  \/ UNCHANGED stripe
         \/ \E p \in Payments : Settle(p)
         \/ \E p \in Payments : \E r \in Created(p) : stripe' = [stripe EXCEPT ![p] = r]
<1>1. ASSUME NEW w \in Workers, Call(w)
      PROVE  \/ UNCHANGED stripe
             \/ \E p \in Payments : \E r \in Created(p) : stripe' = [stripe EXCEPT ![p] = r]
  <2> DEFINE p == Current(w)
  <2>1. p \in Payments
    BY <1>1, CurrentIsDue DEF Call, WorkersOK
  <2>2. PICK r \in Created(p) \cup {stripe[p]} : stripe' = [stripe EXCEPT ![p] = r]
    BY <1>1 DEF Call
  <2>3. CASE r = stripe[p]
    BY <2>2, <2>3 DEF TypeOK
  <2>4. CASE r \in Created(p)
    BY <2>1, <2>2, <2>4
  <2> QED
    BY <2>2, <2>3, <2>4
<1> QED
  BY <1>1 DEF Next, vars, Run, Webhook, Cancel, ConfirmPayment, Admit, MarkSucceeded, MarkFailed,
              Start, Read, Store, Retry, Acknowledge, Crash

LEMMA NextStripeOK ==
  ASSUME TypeOK, WorkersOK, StripeOK, [Next]_vars
  PROVE  /\ StripeOK'
         /\ \A p \in Payments : stripe[p].now = "succeeded" => stripe'[p] = stripe[p]
<1>1. CASE UNCHANGED stripe
  BY <1>1 DEF StripeOK
<1>2. ASSUME NEW p \in Payments, Settle(p)
      PROVE  /\ StripeOK'
             /\ \A q \in Payments : stripe[q].now = "succeeded" => stripe'[q] = stripe[q]
  BY <1>2 DEF Settle, StripeOK, TypeOK, StripeRefunds
<1>3. ASSUME NEW p \in Payments, NEW r \in Created(p), stripe' = [stripe EXCEPT ![p] = r]
      PROVE  /\ StripeOK'
             /\ \A q \in Payments : stripe[q].now = "succeeded" => stripe'[q] = stripe[q]
  <2>1. CASE SameKey(p)
    BY <1>3, <2>1 DEF Created, StripeOK, TypeOK
  <2>2. CASE ~SameKey(p)
    <3>1. stripe[p].first = "none" /\ stripe[p].now = "none" /\ stripe[p].made = 0
      BY <2>2 DEF SameKey, StripeOK
    <3>2. PICK x \in FirstAnswers : r = [now |-> x, first |-> x, made |-> 1]
      BY <2>2, <3>1 DEF Created
    <3> QED
      BY <1>3, <3>1, <3>2, RefundsAssumption DEF StripeOK, TypeOK
  <2> QED
    BY <2>1, <2>2
<1> QED
  BY <1>1, <1>2, <1>3, StripeSteps

\* An answer that says succeeded is given for a refund that succeeded.
LEMMA AnswersOfStripe ==
  ASSUME TypeOK, StripeOK, NEW p \in Payments, NEW r \in Created(p)
  PROVE  /\ r.first \in {"pending", "succeeded", "failed"}
         /\ r.first = "succeeded" => r.now = "succeeded"
BY RefundsAssumption DEF Created, SameKey, TypeOK, StripeRefunds, StripeOK

-----------------------------------------------------------------------------
(* Refunds and tickets. *)

\* A refund that was requested stays requested.
LEMMA RefundsStay ==
  ASSUME TypeOK, WorkersOK, [Next]_vars, NEW p \in Payments, refund[p].status # "NONE"
  PROVE  refund'[p].status # "NONE"
<1>1. ASSUME NEW w \in Workers, Store(w) PROVE refund'[p].status # "NONE"
  <2>1. Current(w) \in Payments /\ worker[w].answer \in {"pending", "succeeded", "failed", "error"}
    BY <1>1, CurrentIsDue DEF Store, WorkersOK, TypeOK, Tasks
  <2> QED
    BY <1>1, <2>1, StoredType DEF Store, TypeOK
<1>2. ASSUME NEW w \in Workers, NEW k \in 0..MaxRetries, Start(w, k)
      PROVE  refund'[p].status # "NONE"
  BY <1>2 DEF Start
<1>3. ASSUME NEW q \in Payments, Webhook(q) PROVE refund'[p].status # "NONE"
  BY <1>3 DEF Webhook, MarkSucceeded, MarkFailed, TypeOK, RefundRows
<1> QED
  BY <1>1, <1>2, <1>3
     DEF Next, vars, Run, Cancel, ConfirmPayment, Admit, Settle, Read, Call, Retry, Acknowledge, Crash

LEMMA NextWorkersOK ==
  ASSUME TypeOK, StripeOK, WorkersOK, [Next]_vars
  PROVE  WorkersOK'
<1> DEFINE Fine(v) ==
      /\ \A p \in worker[v].todo : refund[p].status # "NONE"
      /\ worker[v].pc \in {"calling", "storing"} => worker[v].todo # {}
      /\ worker[v].pc = "storing" =>
           /\ worker[v].answer # "none"
           /\ worker[v].answer = "succeeded" => stripe[Current(v)].now = "succeeded"
<1>1. ASSUME NEW v \in Workers, worker'[v] = worker[v] PROVE Fine(v)'
  <2>1. \A p \in worker[v].todo : p \in Payments /\ refund'[p].status # "NONE"
    BY RefundsStay DEF WorkersOK, TypeOK, Tasks
  <2>2. Current(v)' = Current(v)
    BY <1>1 DEF Current
  <2>3. (worker[v].pc = "storing" /\ worker[v].answer = "succeeded") =>
          stripe'[Current(v)].now = "succeeded"
    BY NextStripeOK, CurrentIsDue DEF WorkersOK
  <2> QED
    BY <1>1, <2>1, <2>2, <2>3 DEF WorkersOK
<1>2. ASSUME NEW w \in Workers, NEW k \in 0..MaxRetries, Start(w, k) PROVE WorkersOK'
  <2>1. worker'[w].pc = "reading" /\ worker'[w].todo = Paid
    BY <1>2 DEF Start, TypeOK
  <2>2. \A p \in Paid : refund'[p].status # "NONE"
    BY <1>2 DEF Start, TypeOK, RefundRows, Paid
  <2>3. Fine(w)'
    BY <2>1, <2>2
  <2>4. \A v \in Workers \ {w} : worker'[v] = worker[v]
    BY <1>2 DEF Start, TypeOK
  <2> QED
    BY <1>1, <2>3, <2>4 DEF WorkersOK
<1>3. ASSUME NEW w \in Workers, Read(w) PROVE WorkersOK'
  <2>1. Fine(w)'
    BY <1>3 DEF Read, WorkersOK, TypeOK, Tasks
  <2>2. \A v \in Workers \ {w} : worker'[v] = worker[v]
    BY <1>3 DEF Read, TypeOK
  <2> QED
    BY <1>1, <2>1, <2>2 DEF WorkersOK
<1>4. ASSUME NEW w \in Workers, Call(w) PROVE WorkersOK'
  <2> DEFINE p == Current(w)
  <2>1. p \in Payments
    BY <1>4, CurrentIsDue DEF Call, WorkersOK
  <2>2. PICK a \in {"pending", "succeeded", "failed", "error"} :
                 /\ worker' = [worker EXCEPT ![w].pc = "storing", ![w].answer = a]
                 /\ a = "succeeded" => stripe'[p].now = "succeeded"
    <3>1. CASE \E r \in Created(p) :
                 /\ stripe' = [stripe EXCEPT ![p] = r]
                 /\ worker' = [worker EXCEPT ![w].pc = "storing", ![w].answer = r.first]
      <4>1. PICK r \in Created(p) :
                 /\ stripe' = [stripe EXCEPT ![p] = r]
                 /\ worker' = [worker EXCEPT ![w].pc = "storing", ![w].answer = r.first]
        BY <3>1
      <4>2. r.first \in {"pending", "succeeded", "failed"} /\ (r.first = "succeeded" => r.now = "succeeded")
        BY <2>1, AnswersOfStripe
      <4>3. stripe'[p] = r
        BY <2>1, <4>1 DEF TypeOK
      <4> QED
        BY <4>1, <4>2, <4>3
    <3>2. CASE worker' = [worker EXCEPT ![w].pc = "storing", ![w].answer = "error"]
      BY <3>2
    <3> QED
      BY <1>4, <3>1, <3>2 DEF Call
  <2>3. /\ worker'[w].todo = worker[w].todo
        /\ worker'[w].pc = "storing" /\ worker'[w].answer = a
        /\ \A v \in Workers \ {w} : worker'[v] = worker[v]
    BY <2>2 DEF TypeOK, Tasks
  <2>4. Current(w)' = p
    BY <2>3 DEF Current
  <2>5. Fine(w)'
    BY <1>4, <2>2, <2>3, <2>4 DEF Call, WorkersOK
  <2> QED
    BY <1>1, <2>3, <2>5 DEF WorkersOK
<1>5. ASSUME NEW w \in Workers, Store(w) PROVE WorkersOK'
  <2>1. worker'[w].pc \in {"reading", "failed"} /\ worker'[w].todo \subseteq worker[w].todo
    BY <1>5 DEF Store, TypeOK, Tasks
  <2>2. \A p \in worker[w].todo : refund'[p].status # "NONE"
    BY RefundsStay DEF WorkersOK, TypeOK, Tasks
  <2>3. Fine(w)'
    BY <2>1, <2>2
  <2>4. \A v \in Workers \ {w} : worker'[v] = worker[v]
    BY <1>5 DEF Store, TypeOK
  <2> QED
    BY <1>1, <2>3, <2>4 DEF WorkersOK
<1>6. ASSUME NEW w \in Workers, Retry(w) \/ Acknowledge(w) \/ Crash(w) PROVE WorkersOK'
  <2>1. worker'[w].pc \in {"ended", "idle"} /\ worker'[w].todo \in {worker[w].todo, {}}
    BY <1>6 DEF Retry, Acknowledge, Crash, Resting, TypeOK, Tasks
  <2>2. \A p \in worker[w].todo : refund'[p].status # "NONE"
    BY RefundsStay DEF WorkersOK, TypeOK, Tasks
  <2>3. Fine(w)'
    BY <2>1, <2>2
  <2>4. \A v \in Workers \ {w} : worker'[v] = worker[v]
    BY <1>6 DEF Retry, Acknowledge, Crash, TypeOK
  <2> QED
    BY <1>1, <2>3, <2>4 DEF WorkersOK
<1>7. CASE UNCHANGED worker
  BY <1>1, <1>7 DEF WorkersOK
<1> QED
  BY <1>2, <1>3, <1>4, <1>5, <1>6, <1>7
     DEF Next, vars, Run, Webhook, Cancel, ConfirmPayment, Admit, Settle, MarkSucceeded, MarkFailed

LEMMA NextRequestsOK ==
  ASSUME TypeOK, WorkersOK, RequestsOK, [Next]_vars
  PROVE  RequestsOK'
<1>1. ASSUME NEW w \in Workers, Store(w) PROVE RequestsOK'
  <2> DEFINE p == Current(w)
  <2>1. p \in Payments /\ refund[p].status # "NONE"
    BY <1>1, CurrentIsDue DEF Store, WorkersOK
  <2>2. refund'[p].status # "NONE"
    BY <2>1, RefundsStay
  <2>3. \A q \in Payments : ticket[q] # "NONE" => ticket'[q] # "NONE"
    BY <1>1 DEF Store, Voided, TypeOK
  <2>4. \A q \in Payments \ {p} : refund'[q] = refund[q]
    BY <1>1 DEF Store, TypeOK
  <2> QED
    BY <2>1, <2>2, <2>3, <2>4 DEF RequestsOK
<1>2. ASSUME NEW w \in Workers, NEW k \in 0..MaxRetries, Start(w, k) PROVE RequestsOK'
  BY <1>2 DEF Start, RequestsOK, Paid, TypeOK, RefundRows
<1>3. ASSUME NEW p \in Payments, MarkSucceeded(p) PROVE RequestsOK'
  BY <1>3 DEF MarkSucceeded, RequestsOK, Voided, TypeOK, RefundRows
<1>4. ASSUME NEW p \in Payments, MarkFailed(p) PROVE RequestsOK'
  BY <1>4 DEF MarkFailed, RequestsOK, TypeOK, RefundRows
<1>5. ASSUME NEW p \in Payments, ConfirmPayment(p) \/ Admit(p) PROVE RequestsOK'
  BY <1>5 DEF ConfirmPayment, Admit, RequestsOK, TypeOK
<1>6. CASE UNCHANGED <<ticket, refund>>
  BY <1>6 DEF RequestsOK
<1> QED
  BY <1>1, <1>2, <1>3, <1>4, <1>5, <1>6
     DEF Next, vars, Run, Webhook, Cancel, Settle, Read, Call, Retry, Acknowledge, Crash

LEMMA NextRecordedIsMade ==
  ASSUME TypeOK, StripeOK, WorkersOK, RecordedIsMade, [Next]_vars
  PROVE  RecordedIsMade'
<1> SUFFICES ASSUME NEW p \in Payments, refund'[p].status = "SUCCEEDED"
             PROVE  stripe'[p].now = "succeeded"
  BY NextStripeOK DEF RecordedIsMade, StripeOK
<1>1. CASE refund[p].status = "SUCCEEDED"
  BY <1>1, NextStripeOK DEF RecordedIsMade
<1>2. ASSUME NEW w \in Workers, Store(w), refund[p].status # "SUCCEEDED"
      PROVE  stripe[p].now = "succeeded"
  <2>1. Current(w) \in Payments /\ worker[w].answer \in {"pending", "succeeded", "failed", "error"}
    BY <1>2, CurrentIsDue DEF Store, WorkersOK, TypeOK, Tasks
  <2>2. p = Current(w) /\ worker[w].answer = "succeeded"
    BY <1>2, <2>1, StoredType DEF Store, TypeOK
  <2> QED
    BY <1>2, <2>2 DEF Store, WorkersOK
<1>3. ASSUME NEW q \in Payments, MarkSucceeded(q), refund[p].status # "SUCCEEDED"
      PROVE  stripe[p].now = "succeeded"
  BY <1>3 DEF MarkSucceeded, TypeOK
<1>4. ASSUME NEW w \in Workers, NEW k \in 0..MaxRetries, Start(w, k)
      PROVE  refund[p].status = "SUCCEEDED"
  BY <1>4 DEF Start, TypeOK, RefundRows
<1>5. ASSUME NEW q \in Payments, MarkFailed(q)
      PROVE  refund[p].status = "SUCCEEDED"
  BY <1>5 DEF MarkFailed, TypeOK, RefundRows
<1>6. CASE UNCHANGED refund
  BY <1>1, <1>6
<1> QED
  BY <1>1, <1>2, <1>3, <1>4, <1>5, <1>6, NextStripeOK
     DEF Next, vars, Run, Webhook, Cancel, ConfirmPayment, Admit, Settle, Read, Call, Retry,
         Acknowledge, Crash

LEMMA NextSucceededIsComplete ==
  ASSUME TypeOK, StripeOK, WorkersOK, RequestsOK, SucceededIsComplete, [Next]_vars
  PROVE  SucceededIsComplete'
<1> DEFINE Complete(p) ==
      /\ refund[p].status = "SUCCEEDED" => ticket[p] # "VALID"
      /\ announced[p] = IF refund[p].status = "SUCCEEDED" THEN 1 ELSE 0
      /\ ticket[p] = "VOID" => stripe[p].now = "succeeded"
<1> SUFFICES ASSUME NEW p \in Payments PROVE Complete(p)'
  BY DEF SucceededIsComplete
<1>1. Complete(p)
  BY DEF SucceededIsComplete
<1>2. stripe[p].now = "succeeded" => stripe'[p].now = "succeeded"
  BY NextStripeOK
<1>3. CASE UNCHANGED <<ticket, refund, announced>>
  BY <1>1, <1>2, <1>3
<1>4. ASSUME NEW q \in Payments, ConfirmPayment(q) \/ Admit(q) PROVE Complete(p)'
  BY <1>1, <1>2, <1>4 DEF ConfirmPayment, Admit, RequestsOK, TypeOK
<1>5. ASSUME NEW q \in Payments, MarkSucceeded(q) PROVE Complete(p)'
  BY <1>1, <1>2, <1>5 DEF MarkSucceeded, Voided, Settled, TypeOK, RefundRows
<1>6. ASSUME NEW q \in Payments, MarkFailed(q) PROVE Complete(p)'
  BY <1>1, <1>2, <1>6 DEF MarkFailed, Settled, TypeOK, RefundRows
<1>7. ASSUME NEW w \in Workers, NEW k \in 0..MaxRetries, Start(w, k) PROVE Complete(p)'
  BY <1>1, <1>2, <1>7 DEF Start, TypeOK, RefundRows
<1>8. ASSUME NEW w \in Workers, Store(w) PROVE Complete(p)'
  <2>1. Current(w) \in Payments /\ worker[w].answer \in {"pending", "succeeded", "failed", "error"}
    BY <1>8, CurrentIsDue DEF Store, WorkersOK, TypeOK, Tasks
  <2>2. CASE p # Current(w)
    BY <1>1, <1>2, <1>8, <2>1, <2>2 DEF Store, Voided, TypeOK
  <2>3. CASE p = Current(w) /\ refund[p].status = "SUCCEEDED"
    BY <1>1, <1>2, <1>8, <2>3 DEF Store, Settled, TypeOK
  <2>4. CASE p = Current(w) /\ refund[p].status # "SUCCEEDED" /\ worker[w].answer = "succeeded"
    <3>1. refund'[p].status = "SUCCEEDED" /\ announced'[p] = 1 /\ ticket'[p] # "VALID"
      BY <1>1, <1>8, <2>1, <2>4, StoredType DEF Store, Settled, Voided, TypeOK
    <3>2. stripe'[p].now = "succeeded"
      BY <1>2, <1>8, <2>4 DEF Store, WorkersOK
    <3> QED
      BY <3>1, <3>2
  <2>5. CASE p = Current(w) /\ refund[p].status # "SUCCEEDED" /\ worker[w].answer # "succeeded"
    <3>1. refund'[p].status # "SUCCEEDED" /\ announced'[p] = announced[p] /\ ticket'[p] = ticket[p]
      BY <1>8, <2>1, <2>5, StoredType DEF Store, Settled, Voided, TypeOK
    <3> QED
      BY <1>1, <1>2, <2>5, <3>1
  <2> QED
    BY <2>2, <2>3, <2>4, <2>5
<1> QED
  BY <1>3, <1>4, <1>5, <1>6, <1>7, <1>8
     DEF Next, vars, Run, Webhook, Cancel, Settle, Read, Call, Retry, Acknowledge, Crash

LEMMA NextIInv == IInv /\ [Next]_vars => IInv'
BY NextTypeOK, NextStripeOK, NextWorkersOK, NextRequestsOK, NextRecordedIsMade,
   NextSucceededIsComplete DEF IInv

LEMMA SpecIInv == Spec => []IInv
BY InitIInv, NextIInv, PTL DEF Spec

-----------------------------------------------------------------------------
(* What holds in every behaviour. *)

\* Every variable stays in its type; a task is retried at most MaxRetries times.
THEOREM RefundsTypeOK == Spec => []TypeOK
<1>1. IInv => TypeOK
  BY DEF IInv
<1> QED
  BY <1>1, SpecIInv, PTL

\* Whatever Stripe declines, loses or answers late, and however often workers
\* retry, race or die, it refunds a payment once at most.
THEOREM RefundedOnce == Spec => []NeverRefundedTwice
<1>1. IInv => NeverRefundedTwice
  BY DEF IInv, StripeOK, NeverRefundedTwice
<1> QED
  BY <1>1, SpecIInv, PTL

\* A refund recorded as succeeded left no valid ticket and was announced once;
\* no ticket is taken without its refund.
THEOREM CompleteWhenSucceeded == Spec => []SucceededIsComplete
<1>1. IInv => SucceededIsComplete
  BY DEF IInv
<1> QED
  BY <1>1, SpecIInv, PTL

\* What the database records as succeeded, Stripe has made, once.
THEOREM RecordsFollowStripe == Spec => []RecordedIsMade
<1>1. IInv => RecordedIsMade
  BY DEF IInv
<1> QED
  BY <1>1, SpecIInv, PTL

\* No answer, error or webhook that comes late takes SUCCEEDED back.
THEOREM SucceededStays == Spec => SucceededIsFinal
<1>1. ASSUME IInv, [Next]_vars, NEW p \in Payments, refund[p].status = "SUCCEEDED"
      PROVE  refund'[p].status = "SUCCEEDED"
  <2> USE <1>1 DEF IInv, TypeOK
  <2>1. ASSUME NEW w \in Workers, Store(w) PROVE refund'[p] = refund[p]
    BY <2>1 DEF Store, Settled
  <2>2. ASSUME NEW w \in Workers, NEW k \in 0..MaxRetries, Start(w, k)
        PROVE  refund'[p] = refund[p]
    BY <2>2 DEF Start
  <2>3. ASSUME NEW q \in Payments, Webhook(q) PROVE refund'[p].status = "SUCCEEDED"
    BY <2>3 DEF Webhook, MarkSucceeded, MarkFailed, Settled, RefundRows
  <2> QED
    BY <2>1, <2>2, <2>3
       DEF Next, vars, Run, Cancel, ConfirmPayment, Admit, Settle, Read, Call, Retry, Acknowledge,
           Crash
<1>2. IInv /\ [Next]_vars =>
        [\A p \in Payments : refund[p].status = "SUCCEEDED" => refund'[p].status = "SUCCEEDED"]_vars
  BY <1>1
<1> QED
  BY <1>2, SpecIInv, PTL DEF Spec, SucceededIsFinal
=============================================================================
