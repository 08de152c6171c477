# FAN-iD: a TLA+ verification of the ticketing platform

FAN-iD sells nominative event tickets: organizers prepare events, fans reserve,
pay and receive tickets, transfer them, and scanners admit them at the door. The
backend is a Django modular monolith over one PostgreSQL database (READ COMMITTED,
row locks), with Redis for caches and idempotency, Celery for periodic and
deferred work, and Stripe as payment provider. This directory holds the TLA+
models of its core logic, the TLC configurations that check them and the TLAPS
proofs of the most important results. Paths below are relative to
`src/backend/apps` unless they say otherwise.

## 1. Inventory

| component | state it keeps | operations | hard behaviour |
|---|---|---|---|
| **ordering** | `Order`, `OrderLine`, `StockHold`; `TicketCategory.sold_count` | `reserve_stock`, `confirm_order_payment` | concurrent buyers of the last seats; a hold that expires while a webhook waits for locks; the clock is read before the locks |
| **payments** | `PaymentIntent`, `PaymentRefund`; Stripe's own records | `create_payment_intent`, `mark_payment_intent_succeeded`, `request_event_refunds`, `execute_payment_refund`, `mark_payment_refund_succeeded/failed` | Stripe redelivers, delays and reorders webhooks; an HTTP call inside a transaction; worker and webhook update the same refund |
| **ticketing** | `Ticket`, `TicketTransferAudit` | issuance, transfer, QR tokens, admission lock, voiding | a QR code shown before a transfer, an admission racing a void |
| **access** | `EventAdmissionSession`, `TicketAdmission`, `EventFinalReport`, `ScannerPresence` | open and close a session, admit a ticket, report at completion | two scanners and one ticket; a session of an old schedule; a report taken before late refunds |
| **catalog** | `Event` (status, dates, version), `TicketCategory`, scanner assignments | create, edit, publish, postpone, suspend, cancel, archive, unarchive, delete; ticket categories; periodic completion | optimistic versions (`If-Match`) against row locks; completion changes an event without a new version; a postponement changes the clock of everybody else |
| **core/outbox** | `outbox_event`, `consumed_event` | `publish_event`, `relay_batch`, consumers, purge | several relays, savepoints, retries with backoff, work deferred to `on_commit` |
| **core/idempotency** | `idempotency_record` rows and their stored answers | begin, complete, fail, orphan takeover | a crash between the business commit and the stored answer; two attempts under one key |
| **core/concurrency** | `version` columns | `versioned_update`, ETag parsing | lost updates |
| **identity** | `User`, `Session` (refresh token families), `Device`, OTP challenges, e-mail links, Redis locks and caches | login, refresh, logout, password change and reset, device binding and reset, step-up, phone change | reuse of a refresh token, a login that overlaps a password change, a cache that outlives the row it copies |
| **organizing** | `Organizer`, commission proposals, `Scanner` with its delivery marks, credential requests, one-time codes, reactivation requests | onboarding, commission negotiation, reactivation; invitation, temporary passwords, leaving, removal and archiving of scanners, their activation by a consumer | turn-taking on versioned rows read by two queries, decisions read without a lock, stale reads of an account that is renewed or removed meanwhile |
| **notifying**, and the e-mail tasks of organizing and identity | delivery marks | outbox consumers and Celery tasks that send e-mail | a crash between the letter and its mark, retries from the start, news that is out of date when it is sent |
| realtime | none | empty application | - |
| web, mobile | client caches | screens | - |
| infrastructure | settings, CI, Docker, observability | - | - |

How they interact. Every business write runs in a database transaction and, when
other contexts must know, inserts an outbox event in it. `relay_batch` (Celery
beat, every two seconds) hands events to the consumers that identity, notifying,
organizing, access and payments registered; a consumer writes to the database in
the relay's transaction and defers network work to `on_commit`, where it becomes a
Celery task. Stripe calls back by webhook. Ordering reads the event row of
catalog and writes `sold_count`; payments calls ordering, which calls ticketing,
in one transaction; cancelling an event reaches payments through the outbox, and
a refund voids tickets, which access must no longer admit.

What makes each part correct. *Ordering*: no category is oversold, a running hold
can be honoured, payment, hold and tickets change together. *Payments*: one charge
per order, a late charge is never a ticket, a cancelled event's payments all come
back, once. *Outbox*: every effect once, retries end, deferred work only after a
commit and never lost. *Catalog*: quotas fit the capacity, nobody overwrites what
they have not seen, the lifecycle only moves forward. *Ticketing and access*: one
admission per ticket, by its present owner, never for a refunded one.
*Idempotency*: one execution per key, its answer for its request only. *Identity*:
one active device and one web session per account, a refresh token, a code and a
temporary password work once, a revoked session stays revoked. *Organizing*:
negotiation alternates and ends in a rate both saw, each decision is about the dossier
and the leave request on the screen, a removed scanner and an old password give
access to nothing, who has done everything asked becomes ACTIVE. *Notifying*: a
letter is not left out, is repeated only when nobody could know that it was sent, and
none starts when its news is over.

## 2. Modules

| module | models | uses |
|---|---|---|
| `CatalogLifecycle` | pure functions of the event row: sales phase, completion, postponement (`catalog/lifecycle.py`) | - |
| `Ordering` | reservations, holds, payment intents, the Stripe webhook, ticket issuance | `CatalogLifecycle` |
| `OutboxPromise` | what the outbox promises: an accepted event reaches all its consumers or is abandoned | - |
| `Outbox` | `publish_event`, `relay_batch`, `dispatch`, `consumed_event`, deferred tasks, purge | `OutboxPromise` (refinement) |
| `Idempotency` | the idempotency middleware and service for one key | - |
| `Refunds` | the refund task, Stripe, its webhooks, voided tickets | - |
| `Admission` | admission sessions, QR tokens, assignment of scanners, transfers, voids, the final report | `CatalogLifecycle` |
| `Catalog` | the handlers of one event, its ticket categories and its image in object storage | `CatalogLifecycle` |
| `Sessions` | logins, refresh families, logout, new passwords, device binding of one account | - |
| `Identity` | `Sessions` composed with the codes for step-up, device reset, password reset and change of the phone number | `Sessions` |
| `DeviceLock` | the Redis device lock beside the device rows | - |
| `Onboarding` | the dossier of an organizer: application, negotiation, decisions, reactivation, and the requests of the catalog that rely on it | - |
| `ScannerLifecycle` | what the life of a scanner promises: its statuses, its account, its passwords | - |
| `Scanners` | one scanner and its account, with codes, leaves, removal, logins and the consumer that activates it | `ScannerLifecycle` (refinement) |
| `Mail` | the 22 e-mail tasks of organizing, identity and notifying | `ScannerLifecycle` (environment) |
| `MCOrganizing` | `Onboarding` and `Scanners` side by side | both |
| `MCOnce` | `Idempotency` and `Identity` side by side | both |
| `SumFacts` | lemmas about the sum of a function over a finite set | - |
| `OrderingProofs` | 7 theorems about `Ordering` | `Ordering`, `SumFacts` |
| `RefundsProofs` | 5 theorems about `Refunds` | `Refunds` |
| `OutboxProofs` | 4 theorems about `Outbox`, with the refinement of `OutboxPromise` | `Outbox` |
| `AdmissionProofs` | 3 theorems about `Admission` | `Admission` |
| `CatalogProofs` | 5 theorems about `Catalog` | `Catalog`, `SumFacts` |
| `OrganizingProofs` | 13 theorems about `Onboarding`, `Scanners` and `Mail`, with the refinement of `ScannerLifecycle` | the three, `SumFacts` |
| `OnceProofs` | 8 theorems about what happens once: `Idempotency` and `Identity` | both |

`MC*.tla` give the constants small values; a `Bug_X` definition before a mapped
definition is a plausible bug in it, used to see that a property notices it.

### How state and actions correspond to the code

**Ordering.** `order` is an `Order` with its lines and its `StockHold`; `intent`,
`sold` and `tickets` are the rows of the same names; `provider` is Stripe's side;
`worker` is a request or webhook in progress. A handler is two steps: `BeginX`
reads the clock (`timezone.now()` is taken before the locks), and the second step
is the rest of its transaction, atomic because the code keeps `select_for_update`
locks until commit. `Reserve` is `reserve_stock`; `CreateIntent` and `LoseIntent`
are `create_payment_intent`, the second being a call that reached Stripe and whose
transaction was lost; `Confirm` is `mark_payment_intent_succeeded` with
`confirm_order_payment` and `issue_tickets_for_order`, one transaction. `RollBack`
is any refusal, error or deadlock victim. `ChangeStatus` and `Postpone` are what
the organizer may do to the event meanwhile.

**Outbox.** `row` is `outbox_event` with the ticks until `next_attempt_at`;
`relay[w]` is the open transaction of a relay: the rows it locked
(`FOR UPDATE SKIP LOCKED`), what it wrote, and its `on_commit` callbacks.
`Dispatch` handles one event: each consumer runs in a savepoint of its own, so when
one raises, the *n* before it keep their effect and their `consumed_event` row.
`Commit` makes the batch visible;
`RunCallback` starts one deferred task; `Crash` stops a relay at any of these points.

**Idempotency.** `record` is the one row of a key, `request[r]` a request that
carries it. `Insert`, `Refuse`, `Replay`, `Recover`, `Conflict` are the five
outcomes of `begin`; `Execute` is the view with its own transaction; `Finish` is
`complete` or `fail`, which save the record as it was read at `begin`. `Purge` deletes
the row but not the history: `effects` and the answers stay, each with the row it belongs
to, and a key whose row was purged starts anew under another row, as it does in the code. What is
promised is promised per row.

**Refunds.** `refund` and `ticket` are rows, `stripe` what Stripe did, `queue` the
Celery queue with `acks_late`. `Start`, `Read`, `Call`, `Store` are the task:
prepare the refunds, read one, call Stripe outside a transaction, store the
answer under a lock. `MarkSucceeded`/`MarkFailed` are the webhooks. Stripe answers a
repeated idempotency key with its first answer. There is one provider, so the comparison of
the gateway with the provider of the payment (`refunds.py:101`) always succeeds.

**Admission.** `ticket` carries status, owner and `qr_version`; `qr` and `scan`
are tokens shown and tokens read; `session` is the start date the open
`EventAdmissionSession` was opened for; `assigned` the `EventScannerAssignment` rows that are
not ended, `staff` what organizing says of each scanner. `Admit` is
`admit_ticket_from_qr`, `BuildReport` and `CloseAutomatically` the consumers of the
completion event.

**Catalog.** `event` and `cat` are rows with their `version`; `served` the rows
a client may have read under the present version and name in `If-Match`; `told` what a
listener of the outbox knows: the status of the last lifecycle event and the last dates
announced, which only a postponement and the completion carry (`Tell`); `stored`, `doomed`
the objects in storage and those to be deleted after the commit. Each view is an
action; `Write` is `versioned_update`.

**Sessions and Identity.** `work[w]` is a request with the rows it has locked; what
it writes shows when it commits. Refresh is `ReadSession` (no lock), `Rotate` or
`DetectReuse` (row locked and read again), and `RevokeFamily` in a transaction of
its own. `challenge` is the newest one-time code per purpose, `phone` the account's number: a
change of it is asked for on a read without a lock (`AskForPhone`) and confirmed under
three (`LockPhoneSession`, `CommitPhone`). `BreakDeadlock` is
PostgreSQL's detector, needed because requests for codes lock account then
challenge, and confirmations challenge then account or session.

**DeviceLock.** PostgreSQL writes show at commit, Redis writes at once. It is apart
from `Sessions` because no decision of `Sessions` reads the lock: a request is let
through only when lock or database agree with the session's device.

**Onboarding.** `org` is the `Organizer` row, `proposals` the commission proposals by
sequence, `requests` the reactivation requests. A negotiation or a reactivation locks
the dossier and is one step. `reading` and `served` are an answer between its two
queries and the answers that carry the present version: a client that names this version in
`If-Match` has seen one of them. Besides "no dossier yet" the initial states hold the
dossiers of before the negotiation existed (`LegacyRow`): without proposals, and those in
business agreed all the same, which is what migration 0012 makes of them. `Approve`,
`Reject` and `Suspend` check the dossier; `WriteDecision` and `RefuseDecision` are the conditional update. `Authorise` and
`Publish` are the permission of a catalog request and its effect.

**Scanners.** `scanner` and `account` are rows; `call` is a request of the scanner that
has read the account (`StartX`) and will write it (`FinishX`); `events` are identity
events the consumer has not handled, `activating` is it between its read and its
update. What the organizer does locks the scanner and is one step. `codes` and `ledger`
are the challenges and what became of them: sent, used for an operation, or lapsed (replaced,
expired, guessed at too often). `RefuseConfirmation` and `RefuseLeave` are an operation that is
refused with the right code: the transaction that consumed the code is rolled back, so the
whole of it changes no row. `listed` is what the list has shown under
the present version. `late` marks a session opened by a login that had verified a password
no longer valid. It implements `ScannerLifecycle`: `status`, `active` and
`generation` are fields of the two rows.

**Mail.** A behaviour follows one kind of task on one row. A kind is a record that says
what the task does (which events schedule it, when its news is over, which letters, which
marks, whether it retries, whether it tells a temporary password and looks whether that is the
present one); one machine runs them: `Start` reads the row, `Send`, `Mark` and `Refresh` are a
letter, its mark and the next look at the row. An attempt ends early when the letter is not
accepted, or is accepted and the answer does not come in time (`SmtpFails`), when the
`UPDATE` of the mark, the next look or the last `UPDATE` fails (`DatabaseFails`), all inside the
`try` whose `except` queues the next attempt (`Retried`), when the first look fails, outside of it
(`ReadFails`), or when the worker dies, perhaps with the task (`Crash`). `unsure` counts for
each letter the attempts that ended after it and before its mark, the only ones whose retry may
repeat it; `fresh` are the letters sent since the latest leave request, which erases the marks.

## 3. Runs

| run | expects | bounds | shows |
|---|---|---|---|
| `ordering` | pass | 2 orders, intents, handlers, 2 categories, hold 2, clock 3, lock wait 1 | `TypeOK`, `NoOversell`, `StockLedger`, `PaidAtomically`, `ChargedOnce`, `LatePaymentIssuesNothing`, `HoldsBackedByStock` |
| `ordering_live` | pass | 2 orders, intents, handlers, 1 category, baskets of the whole quota, hold 2, clock 2, lock wait 1 | `PaymentBecomesTickets` under fairness |
| `outbox` | pass | 3 events, 2 consumers, 2 relays, batches of 2, 2 attempts, 1 crash | `AppliedOnce`, `KeepsPromise` (refinement), `EventsSettle` under fairness |
| `outbox_loss` | violation | 2 crashes | `NoSideEffectLost` |
| `once` | pass | key: 4 requests (same, other body, other endpoint), 1 crash, guard 1, retention 2, clock 5; account: 2 requests at a time, 2 sessions, 3 refresh tokens, 2 passwords, 2 codes of 4 purposes, 2 phone numbers | `OneAnsweredEffect`, `ReplayAnswersItsRequest` while no request outlives the guard; `TokenExchangedOnce`, `LoginsExclude`, `CodeAcceptedOnce`, `RevocationIsFinal` |
| `refunds` | pass | 2 payments, 2 workers, 1 retry, 1 error, 1 crash | `NeverRefundedTwice`, `SucceededIsComplete`, `SucceededIsFinal`, `RefundsSettle` |
| `admission` | pass | 1 ticket, 2 fans, 2 scanners, 2 QR versions, clock 3 | `UsedMeansAdmitted`, `ReportStaysTrue`, `CompletedEventsClose` |
| `catalog` | pass | 2 categories, 2 uploads, 6 versions, 1 lost deletion, clock 2 | `OnSaleIsComplete`, `OldDateIsKept`, `ImageIsStored`, `FrozenOncePublished` |
| `identity_lock` | violation | 2 requests, 2 phones | `BindNeverSeesReleasedLock` |
| `organizing` | pass | dossier: 2 administrators, 2 rates, 5 versions, 2 reactivations, 1 publication; scanner: 2 temporary passwords, 4 versions, 2 codes of 2 attempts | `VersionCoversNegotiation`, `AgreementIsMutual`, `DecisionsAreLawful`, `SuspensionStopsPublishing`; `OldAccessEnds`, `CodesAreSpentOnce`, `VersionCoversLeave`, `LifecycleKept` (refinement), `ScannersBecomeActive` under fairness |
| `mail` | pass | every kind, 1 retry, 1 crash, 2 leaves, 2 temporary passwords | `MailedOnce`, `LastLettersOnly`, `NewsArrives` under fairness |
| `mail_leaves` | violation | as `mail` | `RequestsEmitTheirOwn` |

`organizing` and `once` check two models in one run: the dossier and the scanner, or the key and
the account, have no row in common and each property speaks of one of them, so a behaviour
moves one and the other stands still.

Why the bounds suffice. Every race modelled is between two transactions on one row or
pair of rows, so two actors (two handlers, relays, workers, scanners, requests) meet
in every order; a third would wait for the same locks. Quotas and capacity admit one
of two competing baskets but not both, in `ordering_live` too, where the wait for the locks
lets one order be confirmed after its hold lapsed, on stock that the other's hold relied on;
the clock passes a hold's expiry with a handler waiting across it; an event can fail, be retried and die; a refresh token is
presented while its successor exists. Five versions of a dossier are a counter, an
agreement, a suspension and a reactivation; four of a scanner a leave, its rejection and
a removal; one scanner and one request of its own at a time, because what overlaps there is
the request with the organizer, the consumer and the clock. Tasks on different rows do
not know of each other, so one row per behaviour shows what they do; two leave requests
are needed because the second erases the marks of the first, and one retry and one crash end two
attempts at different places and leave a third. `CHECK_DEADLOCK FALSE` stands
everywhere because the bounds end every behaviour: a clock, row or retry budget that
is used up leaves nothing to do.

Fairness, and what justifies it. `ordering_live`: Stripe redelivers a webhook until
it is answered 200, so a delivery that can be handled time and again is handled
(strong fairness), and a handler commits or rolls back. `outbox`: Celery beat starts
`relay_batch` every `OUTBOX_RELAY_INTERVAL_SECONDS` and a relay that does not crash
ends its batch. `refunds`: a queued task is run (`acks_late` puts it back when a
worker dies), Stripe settles and delivers its first webhook; later deliveries are
only possible. `admission`: the outbox delivers the completion to its consumers.
`organizing`: the consumer's events are delivered. What `outbox` shows is that every event
ends PUBLISHED or DEAD, and that PUBLISHED means delivered; an event that fails in every attempt and
ends DEAD is excluded by this assumption, and would leave a ready scanner inactive. The same
holds for the completion in `admission`. `mail`: a queued task is taken and goes on.
Nothing assumes fairness of users, organizers or the clock, except that in the
outbox time passes.

## 4. Findings

Each is a run that TLC must find violated, with the line it disagrees with quoted in
`PROJECT.json`.

* **A committed event can lose its side effect** (`outbox_loss`): the relay marks the
  event PUBLISHED in the commit whose `on_commit` callbacks start the deferred
  tasks; a crash or an absent broker in between drops them, and nothing retries
  (`core/outbox/consumer.py:69`).
* **The device lock is released before the revocation is committed**
  (`identity_lock`): a bind in between takes the lock for the device being revoked
  (`identity/services/devices.py:209`).
* **A leave request may not emit its own letters** (`mail_leaves`): a task of the earlier
  request that is between a letter and its mark sets the mark after the new request has erased
  it; the new task skips that letter and ends with `{"sent": True}`
  (`organizing/services/scanner_leaves.py:87`).

Behaviours met while modelling, which no run states:

* *Ordering*: a charge made while the hold runs can be lost for good: a confirmation that read
  the clock before its locks (`ordering/services/confirmation.py:23`) takes the stock after its
  own hold lapsed and a newer hold was given it, and every delivery of the newer order's payment
  is then refused at `confirmation.py:79`. `PaymentBecomesTickets` and `HoldsBackedByStock` name
  this exception.
* *Idempotency*: a request slower than the orphan guard is taken over, then saves its own
  answer under the fingerprint of the one that took over, so that a replay answers another
  body (`core/idempotency/service.py:157`; `ReplayAnswersItsRequest` fails in
  `once` when `MaxRun` exceeds the guard). An idempotent view can execute twice
  after a crash, though clients are told of one per row of the key.
* *Refunds*: the loop ends at the first refund that fails and the retry begins with the
  same one, so the later refunds may never reach Stripe (`payments/refund_tasks.py:44`);
  a FAILED refund can be overwritten by PENDING when the task replays Stripe's first
  answer; a payment confirmed after its event's cancellation is never refunded.
* *Outbox*: the last configured backoff delay is never used, the attempt before it being
  the last.
* *Identity*: a login that overlaps a new password opens its session after the revocation,
  with the old password, and marks the new temporary one as used; recovering a password leaves the
  marks of a temporary one, so a used temporary password still refuses logins; requests and
  confirmations of codes can deadlock and PostgreSQL ends one.
* *Onboarding*: a reactivation request and its rejection do not move the version of the dossier.
* *Scanners*: a removal code sent before a leave request still removes the scanner while the leave is
  pending; a password change that read the account before a renewal overwrites the newer temporary
  password, and then no event remains to activate the scanner (`overtaken`); a phone saved by a
  request that overlaps the removal stays on the anonymised account; an activation that races a
  new temporary password leaves an ACTIVE scanner who must change it first.
* *Mail*: the invitation task sends the first temporary password although it may have been renewed
  or expired (`organizing/scanner_tasks.py:76`), the exception that `LastLettersOnly` names;
  letters without marks go out again to everybody on each retry, and one with a mark when
  SMTP answers too late or the `UPDATE` of the mark fails; decision letters may arrive out of order.

## 5. Proofs

Every invariant, action property and refinement that a passing run checks is also a
theorem, for every value of the constants: any number of orders, categories, workers,
relays, scanners, requests, codes, retries and crashes. A run therefore shows on a small
instance, in minutes, what the proof shows in general, and it is the run that tells a
wrong formula from a missing argument: each inductive invariant below was
an invariant of a run before it was proved.

Each proof has the same shape. The property is not inductive, so an invariant `IInv` (or
`DossierInv`, `ScannerInv`, `IdentityInv`, `MailInv`) adds what the handlers rely on between
two of their steps; a lemma per action shows that the action keeps it, a lemma for
the initial states, and a theorem per property follows. The assumptions are the named
`ASSUME`s of the modules, which say what the settings and the database guarantee
(positive quotas and delays, finite tables, identifiers that are not the marker for
"none"), and which TLC evaluates in every run. The one theorem hypothesis beyond them is named
below.

| module | theorems (property) | what the inductive invariant adds, and why |
|---|---|---|
| `OrderingProofs` | `OrderingTypeOK`, `NeverOversold` (`NoOversell`), `PaymentIsAtomic` (`PaidAtomically`), `NeverChargedTwice` (`ChargedOnce`), `LatePaymentNeverTicketed` (`LatePaymentIssuesNothing`), `LedgerAgrees` (`StockLedger`), `RunningHoldsAreBacked` (`HoldsBackedByStock`) | `SettlingOK`: one handler at most settles an intent, found CREATED and charged before its clock was read; `AskingOK`, `IntentsOK` and `OneIntentPerOrder`: an intent's status follows its order's, and an order whose intent SUCCEEDED asks for no other because it is PAID. `StockInv` adds that a clock that was read is not ahead of the clock, and that the orders made and the tickets of a category are finite |
| `RefundsProofs` | `RefundsTypeOK`, `RefundedOnce` (`NeverRefundedTwice`), `CompleteWhenSucceeded` (`SucceededIsComplete`), `SucceededStays` (`SucceededIsFinal`), `RecordsFollowStripe` | `StripeOK`: money comes back once because Stripe answers a repeated key with its first answer; `WorkersOK`, `RequestsOK`: what a worker holds between its call and its transaction is an answer Stripe gave; `RecordedIsMade`: a SUCCEEDED row stands for a refund that was made, so no late answer can undo it |
| `OutboxProofs` | `OutboxTypeOK`, `EffectsAppliedOnce` (`AppliedOnce`), `OutboxKeepsPromise` (`KeepsPromise`), `RetriesEnd` | `LocksOK`: no two relays hold one row, and a held row still waits; `BatchOK`: the effects of an open batch are new, of its own events, and complete for an event that is to become PUBLISHED; `RegisteredOK`; `TasksOK`: a deferred task waits at one relay, its effect committed; `AttemptsOK`: an event is DEAD exactly after its last attempt. The refinement then maps a commit to the abstract step of each of its events and all else to a stutter |
| `OnceProofs`, idempotency | `IdempotencyTypeOK`, `ReplaysAreTheSameRequest` (`ReplayAnswersItsRequest`), `AnsweredOnce` (`OneAnsweredEffect`) | `NamesOK`, `HoldingOK`: who executes holds the row as it was inserted or taken over; `ResponseOK`, `AnsweredOK`, `RememberedOK`: the stored answer is of the attempt whose fingerprint is stored. An execution that a client was told of is the only one of its row, also after the row was purged (`RememberedOK`). The last two assume `GuardOutlastsRequests` (`MaxRun <= Guard`): the code does not enforce it, see the findings |
| `OnceProofs`, identity | `IdentityTypes`, `TokensExchangedOnce` (`TokenExchangedOnce`), `LoginsExcludeEachOther` (`LoginsExclude`), `CodesAcceptedOnce` (`CodeAcceptedOnce`), `RevocationsAreFinal` (`RevocationIsFinal`) | `LocksOK`: the rows two requests hold are disjoint; `WorkersOK`: at each stage a request holds the rows it relies on, and what it read of them is still so; `RowsOK`: a token that was exchanged is no session's present one, a password that opened a session is marked as used, an open code was not accepted. Without the lock discipline none of them is inductive: a login would open its session beside one that it has not seen |
| `AdmissionProofs` | `AdmissionTypeOK`, `UsedIsAdmitted` (`UsedMeansAdmitted`), `ReportIsTrue` (`ReportStaysTrue`) | `QrOK`: a token of the present version was shown by the present owner; `EntriesOK`: admissions and USED tickets are in bijection; `ReportOK`: a report is of a completed event and counts its tickets as they are, which no step may change any more |
| `CatalogProofs` | `CatalogTypes`, `OnSaleComplete` (`OnSaleIsComplete`), `OldDatesKept` (`OldDateIsKept`), `ImagesStored` (`ImageIsStored`), `PublishedIsFrozen` (`FrozenOncePublished`) | `ServedOK`: until the completion, which keeps the version, a client that names the present version saw the present row; `ArchivedOK`: archiving is silent, so an archived event was last told as PUBLISHED, and no dates were told of a draft; `QuotasOK`; `UploadsOK`: an uploaded object is stored, neither named nor doomed, until its request ends |
| `OrganizingProofs`, dossier | `DossierTypes`, `VersionsCoverNegotiation` (`VersionCoversNegotiation`), `AgreementsAreMutual` (`AgreementIsMutual`), `LawfulDecisions` (`DecisionsAreLawful`), `SuspendedPublishNothing` (`SuspensionStopsPublishing`) | `ReadingOK`, `DecisionsOK`: a decision whose version is still the present one was taken in the status it leaves; `RequestsOK`: one request is pending, and only in the suspension it was made in; `PublishingOK`; `AgreementStands`: the part of the agreement that a single state shows, and from which the steps follow |
| `OrganizingProofs`, scanner | `ScannerTypes`, `OldAccessIsEnded` (`OldAccessEnds`), `CodesSpentOnce` (`CodesAreSpentOnce`), `VersionsCoverLeaves` (`VersionCoversLeave`), `ScannersKeepLifecycle` (`LifecycleKept`) | `NotInvited`: nothing is there before the invitation; `OwnPassword`: whoever need not change the password has chosen it; with them the three invariants are inductive. `CodeCount`: a step on one code moves one count of the ledger, or two that cancel out |
| `OrganizingProofs`, e-mail | `MailTypes`, `LettersMailedOnce` (`MailedOnce`), `OnlyLastLetters` (`LastLettersOnly`) | `CoveredOK`: what an attempt came past was sent, by it or before it; `UnmarkedOK`: a task never stands at a letter with a lasting mark; `CountOK`: the copies of a letter are paid for by *points*, one per failed try, one for the attempt that came past it, and one per crash; `OnceOK`: for a letter with a lasting mark of its own, one copy for each attempt in `unsure` and one more when the mark is set or about to be; `OutdatedOK`, `ObsoleteOK`: news that is over for good does not come back and a password that was replaced or expired is not valid again, so a task that counts such a letter is in its last attempt: the next would not begin |

Sums. `StockLedger`, `HoldsBackedByStock`, `OnSaleIsComplete` and `MailedOnce` add values over
a table of any size. The library's induction theorems take an operator as a
parameter and cannot be used, so `SumFacts` proves induction over a finite set for a *set* of
its subsets (`SubsetInduction`), from the fact that strict inclusion is well-founded. From it
follow that the sum depends only on the values, splits off any element (`SumRemove`),
grows with the set (`SumSubset`) and moves with the one value that moves (`SumMoves`). A step
then changes one order, quota or task, and the sum changes by its difference.

Refinements. `OutboxKeepsPromise` and `ScannersKeepLifecycle` show that initial states map
to initial states and every step to a step or a stutter. The promise of `ScannerLifecycle`
is what `Mail` takes as the environment of a scanner's row.

Only model-checked. Liveness (`PaymentBecomesTickets`, `EventsSettle`, `RefundsSettle`,
`CompletedEventsClose`, `ScannersBecomeActive`, `NewsArrives`): fairness and `ENABLED` are beyond the
prover. The three properties of the violation runs are false. No module has a recursive
operator.

## 6. Not modelled

Realtime (empty), clients, infrastructure: no logic of the server's own. Wording, HTML
and the PDF of the report. Registration: one insert under unique columns. The policy of
roles (`identity/authz`): a pure table, tested exhaustively; the models let a request be made
by whoever it allows. Event categories: a list of names. The heartbeat of a scanner, which
only the live dashboard reads, and the dashboards, which only read. The
fallback of the device lock when Redis is down, expiry of access tokens, rate limits,
wording and validation of input are left out. Time is a small counter; identifiers,
e-mail addresses, codes and digests are members of small sets.

## 7. Plan

The order follows what money and admission depend on. Done: `CatalogLifecycle`,
`Ordering`, `Outbox` with `OutboxPromise`, `Idempotency`,
`Refunds`, `Admission`, `Catalog`, `Sessions`, `Identity`, `DeviceLock`, `Onboarding`,
`ScannerLifecycle`, `Scanners`, `Mail`.

1. *Marketplace*: `Ordering`, `Refunds` and the cancellation event composed, so that a
   payment is seen from the charge to the refund.
2. *Row locks*: the lock order of reservation, confirmation and catalog writes.
3. Proofs: every safety property the passing runs check is a theorem; what the two
   models above add is next.
