# Café De: a specification of the booking system

Café De (`apps/api`, NestJS over PostgreSQL and Redis, with a web client in `apps/web`)
sells tables of cafés by the slot: users book directly, or hold a seat and confirm it; an
agent does the same for them under a mandate; a payment provider may confirm for them;
workers tell users and partners about it afterwards. This directory holds TLA+ modules
translated from that code, TLC configurations that check them on small instances, and
proofs checked by TLAPS for instances of every size. Paths below are relative to the
repository root unless they begin with a file name of `apps/api/src`.

- [The system](#the-system): its parts, their state, what is hard about them
- [What is modelled](#what-is-modelled): modules, and how they correspond to the code
- [Runs](#runs): what TLC checks, bounds, fairness
- [Where code and documents disagree](#where-code-and-documents-disagree)
- [Proofs](#proofs)
- [Not modelled, and the plan](#not-modelled-and-the-plan)

## The system

One API process (or several: nothing in the code forbids it, and the rate limiter, the
holds and the locks are built for it) serves requests; each handler is a chain of
`await`s on Postgres and Redis, and all handlers of all processes interleave at those
awaits. Background loops (agent worker, notification outbox, partner webhooks) run in
the API process or in `worker/main.ts`, possibly in both. Browsers and agents are
clients of the same API.

| Component | State it keeps | Operations | Talks to | Module |
|---|---|---|---|---|
| Reservations (`reservations/`) | `reservations`, `payments`, `slots.version`, row locks | book by one of three strategies, hold, confirm, cancel | holds, mandates, decision log, wallet, both job tables, availability events | `Reservations` |
| Holds (`holds/`) | Redis `hold:{table}:{slot}`, `holdmeta:{id}`, with TTLs | create or reuse, consume, resolve | called by reservations, payments, availability | `Reservations` |
| Idempotency keys (`reservations.service.ts`) | `idempotency_keys` | claim, replay, store, drop | around confirm | `Reservations` |
| Wallet (`users.walletBalance`) | a balance | charge, refund | inside booking and cancelling transactions | `Reservations` |
| Mandate gate (`mandates/mandate-gate.ts`) | counters of `mandates` | authorize and consume, explain | confirm, previews | `MandateGate` |
| Mandates (`mandates/`) | `mandates`: ceilings, scope, counters | grant, preview, revoke | the agent, confirm, decision log | `MandateAuthority` |
| Decision log (`decisions/`) | `agent_decisions`, append only | record, in or out of a transaction | confirm, preview, payments | with its writers |
| Payments (`payments/`) | orders at the provider; no table of its own before booking | create order, handle webhook, compensate | holds, confirm, provider | `Payments` |
| Agent (`agent/`) | `agent_workflows` | start, answer, approve, a worker's tick, events | mandates, hold, confirm, a language model | `AgentWorkflow`, `AgentChat` |
| Notification outbox (`notifications/`) | `notification_jobs`, `notifications` | drain | its jobs come from confirm | `Outbox` |
| Partner (`partner/`) | `webhook_jobs`, endpoints, keys | drain, list, authenticate | its jobs come from booking and cancelling | `Outbox`, `Gateway` |
| Availability (`cache/`, `realtime/`, `cafes/`) | Redis cache, pub/sub | fill, invalidate, publish, stream | reads reservations and holds | `Availability` |
| Rate limiting (`rate-limit/`) | Redis buckets | take | all guarded routes | `Gateway` |
| Owner back office (`owner/`) | cafés, tables, slots, keys, endpoints | generate slots, issue and revoke | catalogue | `Gateway` |
| Accounts (`auth/`), store locator (`geo/`) | `users`; a cached place, the last call | sign up, log in; locate | - ; Nominatim | `Gateway` |
| Web client (`apps/web`) | what a page shows, its hold, its stream | hold, confirm, cancel, follow | the API | `Availability`, `AgentChat` |
| Seed, bootstrap, evaluation harness | - | - | - | - |

What makes each of them correct, and what makes that hard:

- **Reservations.** A seat is never booked twice, though four write paths with four
  different guards (unique index, row lock, version swap, hold) feed one table. Money,
  row, payment, event and notification move together or not at all. A user has one
  booking in ten hours at a café. Everybody gets an answer.
- **Holds.** One hold pays for one booking, through retries, double clicks, expiry and
  takeover at the last second.
- **Idempotency keys.** One execution per key at a time; a final answer is the answer
  forever; a failure in between leaves the key usable. The row is claimed in one
  statement and settled in another, and the process may die, or an acknowledgement be
  lost, between.
- **Mandates.** Concurrent confirms never spend more than was granted, and what is
  spent is booked. `revoke` writes a row that others increment: it must be final all
  the same. A preview's denial keeps things from being offered, so it must be for good.
- **Decision log.** A denial survives the rollback it causes, an authorization does not.
- **Payments.** Every captured payment is booked or refunded, once, through redelivered
  and overlapping webhooks and a crash between rollback and refund.
- **Agent.** A tick's effects outlive its transaction; approvals and answers save rows
  they read before. A workflow books once under a key that is kept, and only what was
  approved or mandated; it does not stay in the queue; its page learns what became of it.
- **Workers.** Several drainers, deliveries inside transactions, retries, dead letters.
- **Availability.** A fill that races an invalidation must not outlive its TTL; a page
  must not miss an event while its stream is down.
- **Gateway.** Buckets across clocks and expiry; read-then-insert and read-then-save
  handlers that may each go wrong only for requests that overlap.

`PROJECT.json` lists these hazards one by one, at their lines.

## What is modelled

| Module | What it is |
|---|---|
| `MandateGate` | The mandate gate as values: row, candidate booking, the UPDATE's condition and effect (`Admits`, `Consume`), and `EvaluateMandate`, which explains a denial. No state. |
| `Reservations` | The booking core: every operation of `ReservationsService`, over holds, idempotency keys, the wallet, the mandate gate, the decision log and the rows it leaves for the workers; its properties; the specification `Spec` and, with fairness, `FairSpec`. |
| `BookingLedger`, `LedgerRefinement` | What the booking core promises, without saying how; and how `Reservations` is read as it. |
| `MandateAuthority` | Extends `Reservations`: mandates are granted, previewed, screened for alternatives and revoked while confirms spend them. |
| `Payments` | Extends `Reservations`: orders, webhook deliveries that confirm, link or refund. |
| `Outbox` | The notification and webhook workers over the jobs the booking core leaves. |
| `AgentWorkflow` | The agent's rows, ticks, tools, approvals and answers, over what it sees of the booking API. |
| `AgentChat` | Extends `AgentWorkflow`: events, stream and the page that follows a workflow. |
| `Availability` | One café's grid: truth, cache, invalidation, stream, pages. |
| `Gateway` | The rate limit in front of accounts, owner's back office, list of cafés, partner keys and the store locator. |
| `ReservationsClaims`, `AgentClaims`, `AvailabilityClaims` | What comments and documents say of that code and it does not keep. (For payments that is `BookedIsNotRefunded`, in `Payments`.) |
| `MCReservations`, `MCMandateAuthority`, `MCPayments`, `MCAgentChat`, `MCAvailability`, `MCGateway` | Constants, sets of calls and bounds for TLC. |
| `ReservationsProofs`, `ExclusionProofs`, `AnswerProofs` | Proofs about `Reservations`: types, ledger and its refinement; keys, locks and holds; answers. |
| `AuthorityProofs`, `PaymentsProofs`, `OutboxProofs`, `GatewayProofs`, `AgentProofs` | Proofs about `MandateGate` and `MandateAuthority`, `Payments`, `Outbox`, `Gateway`, and `AgentWorkflow` with `AgentChat`. |

`MandateAuthority` and `Payments` are compositions: they take every action of
`Reservations` as it is and add their own beside it, on the same tables. `Outbox`,
`AgentWorkflow` and `Availability` stand beside it and have of it only what they can
see (jobs appear with a booking; a confirm under a key has one of its outcomes; a hold,
a commit, a cancellation), because with its steps inside they would be out of TLC's
reach. What they assume there is what `Reservations` is checked for: `OutboxMatchesLedger`,
`KeyExecutesOnce` with `StoredSuccessIsReal`, and `NoDoubleBooking`.

### The booking core: processes, steps, transactions

A *request* is a process. It arrives with a call (one of `Calls`, the bodies of
`reservations.controller.ts` with the authenticated user), and `pc[r]` says which await
its handler is at. One action is what happens between two points at which another
request may see or change what it uses:

| Handler | Steps (`pc`) | Actions |
|---|---|---|
| `book`, all strategies | `book` | `BookChecks`: table, slot, window |
| `bookUnique` | `bookTx` | `BookInTransaction` |
| `bookPessimistic` | `lockSlot`, `lockedTx` | `LockSlot` (FOR UPDATE and the look for a booking), `LockedTransaction` (write, commit, release) |
| `bookOptimistic` | `readVersion`, `readExisting`, `cas`, `bookTx` | `ReadVersion`, `ReadExisting`, `SwapWon`, `SwapLost`, `BookInTransaction` |
| `hold` | `hold`, `holdWindow`, `acquire`, `writeMeta`, `publish` | `HoldChecks`, `HoldWindow`, `AcquireHold`, `WriteMeta`, `ReuseTooLate`, `Publish` |
| `confirmHold` | `claim`, `lookup`, (execution), `storeOutcome`, `dropKey` | `ClaimKey`, `LookupKey`, `StoreOutcome`, `DropKey` |
| `executeConfirm` | `confirm`, `consume`, `confirmTx`, `publish` | `ConfirmChecks`, `ConsumeHold`, `ConfirmWrite`, `ConfirmRollback`, `Publish` |
| `cancel` | `cancel`, `cancelTx`, `publish` | `CancelChecks`, `CancelTransaction`, `Publish` |

Decisions behind that table:

- **A transaction is one action** when its first conflicting statement takes the lock
  that the others rely on until the commit: the charge is a conditional UPDATE of the
  user's row, the insert meets the unique index, the gate is a conditional UPDATE of
  the mandate's row, the cancelled event meets its unique index. What another
  transaction sees of these is nothing or all. The pessimistic booking is the
  exception, since others may run between its lock and its write: it is two actions
  around `slotLock`, and an insert for that slot waits meanwhile (`SlotUnlocked`: the
  foreign key's share lock), as does a version swap. That wait is why the seat found
  free behind the lock stays free although no other write path takes the lock itself.
- **Reads that decide are steps of their own.** The window check, the status that
  `cancel` looks at, the version that is swapped, the hold: each is read in one step
  and used in a later one, as the code does. Two reads of one handler with nothing
  decided in between, one of which reads rows that never change (table, slot, café),
  are one step.
- **Failure.** `Fault(r)`: the await at hand throws something that is no
  `HttpException` (a lost connection, a timeout, a deadlock victim) and had no effect;
  the request answers 500, or inside `confirmHold`'s `try` goes on to delete its key.
  `AnswerLost(r)`: the await throws although it has had its effect. Where another await
  follows whose failure ends the same way, that is a `Fault` of the following one; the
  five places where it is not are `LostClaim` (nobody owns the key it claimed),
  `LostCommit` of a direct booking, `LostDenial`, `LostPublish` where the announcement is
  the last await, and `LostStore`, after which the handler deletes the row of a booking
  it has just stored. `Crash(r)`: the process dies. All end the open transaction and its
  locks.
- **Redis.** A hold and its metadata expire at any moment, on their own. A hold reused
  in its last half second has a TTL that reads 0, with which `SET ... EX` fails:
  `ReuseTooLate`.
- **Denials** are written on a connection of their own: `ConfirmRollback` keeps the
  DENY row and nothing else. A stored denial loses its verdict and replays as a plain
  403 (`Stored`).
- **Publishing** is after the commit. In a confirm it is inside the `try` that drops
  the key; `Publish` is where that shows.
- **Clients** name ids they were given (`Known`). Nothing else is assumed of them:
  they retry, double, mix keys and holds, and cancel twice.

Abstracted: ids are request identities (a request inserts at most one reservation and
creates at most one hold), messages and payloads are left out, prices and times are
integers, `requestHash` is the triple it hashes, signatures and tokens are not
modelled. Only the API decides what time it is for mandates (`now`).

### The abstract specification

`BookingLedger` has seats, wallets, payments and two event tables, and three steps:
book a free seat for a user who can pay, cancel a live booking and return its payment,
nothing. It has no requests, holds, keys, locks, versions or failures. `Reservations`
implements it (run `confirm`, theorem `ImplementsLedger`): whatever happens between two
awaits, the outside sees whole bookings and whole cancellations.

### Mandates around the booking core

A *console* is one call of a person or an agent. `revoke` is TypeORM's find, change and
save, and save is two statements: `RevokeRead` copies the row, `RevokeLoad` reads it
again to see which columns differ from the copy, `RevokeWrite` writes those, from the
copy. Between the three, confirms increment the counters, so the save may put older
counters back, on a row that is revoked by the same statement. That is why
`ActiveMandateIsAccounted` speaks of active mandates, and why the authority itself is
stated over bookings (`AuthorityIsBounded`) and not over counters. `PreviewRead` and
`PreviewLog` are a preview: the row is copied, then judged by the clock of a later
moment and logged. `AlternativesRead` and `ScreenNext` run the same preview for each
candidate in turn; the candidates come from the cached grid, which promises nothing, so
they are any of a given set of sequences. Columns that never change (the signature and
what it signs) are in the row's constants.

### Payments

An order is created in two steps (`PreviewOrder`, `CreateOrder`), since the mandate may
change between them, and captured by a person. `Deliver` puts a webhook request where
`confirmHold` begins, with the order's key and mandate from its notes and the user and
seat from the hold's metadata (`ConfirmOf`); from there it is any request of
`Reservations`, failures and crashes included. A delivery that finds no metadata is
acknowledged and does nothing (`Ignore`). When it ends, `RecordPayment` or `Refund`
and `LogCompensation` go on from what it answered. `WebhookFails` is an await of the
webhook's own that fails, or its process that dies there; `WebhookAnswerLost` is the
same after the refund or the payment's id was written. The payment entity of Razorpay's
event always has its id and amount, on which the code's last guards depend. Razorpay delivers as often as
it likes, at the same time too, and refuses a second refund of one payment.

### Workers

A tick of either worker is one transaction over a batch that it has locked: `Claim`,
one `Notify`, `Post` or `SkipPost` for each job, `Commit`; or `Abort` at any point, which
takes back all rows and no delivery. `written` is what the transaction has in store. A
`Post` that fails may have been processed by the partner. Back-off is `due`, which comes
back after some time (`Due`), when no transaction has the row.

### The agent

`row` is the table, `tick[t].copy` the entities a tick edits in memory. `Claim`,
`Commit` and `Abort` are its transaction; between them `Resume` executes a parked action
and each `Turn` is one answer of the language model, which may be any: text, a failure, a
look-up, a question, a hold, a confirm. `CallConfirm` meets the workflow's idempotency
key at the API (the request's way there and its claim are one step, so the model has no
request that is still on its way when its tick has died). `ServeConfirm`, `ServerFails`,
and `StoreLost` with `DropKey` are what the API does with it, in its own time: it answers
and stores; it fails, before the booking or after it; it has stored a booking, does not
learn so and deletes the row. `ReceiveConfirm` or `LoseAnswer` is what reaches the tick. `ApproveRead`
and `AnswerRead` check and copy a row, `SaveSelect` and `SaveUpdate` are TypeORM's save,
whose UPDATE waits for a tick's row lock and whose SELECT does not.

Of a conversation only the holds it has seen granted are kept (`history`): a model can
confirm no id it was never given. `approved` and `unkeyed` are ghosts: what owners
approved, and the bookings whose request dropped their key, because their announcement
failed, or because they were announced and storing their outcome failed or seemed to.

`AgentChat` adds `told` (the rows whose events are still to be published, after the
commit and before the next tick of that loop), the page with its stream, and a fetch that
is due. A stream is `lost`, `open` (its headers are in the browser, which fetched on
them), `live` (the server has subscribed) or `closed`. `agent-events.service.ts:34` does
not wait for the SUBSCRIBE, so the order of the two is open, and a `live` stream is `open`
again while the server has lost its Redis connection (`Drop`). An attempt to open that is
answered with anything but 200 (the global `RateLimitGuard`'s 429, a token that has
expired, a failure) closes an EventSource for good (`Refused`). A GET that fails is
swallowed by the page (`RefreshFails`).

### Availability

A seat is a table and a slot. Of the booking path there are the moments a reader can see.
`publish` is three steps (`SMembers`, `Del`, `Publish`), a fill five (`Get`, `ReadBooked`
and `ReadHeld` in either order, `Store`, `SAdd`, `ExpireTracked`), each one Redis or
Postgres command. Direct bookings, expiries and changes of tables tell nobody. The page
has its date, its hold with a countdown, its stream and loads, whose answers are shown in
the order they arrive. Streams have the states they have in `AgentChat`:
`SubscriberLost` is the server's Redis connection, `Refused` an answer other than 200,
after which the stream is `closed` until another date is chosen, which makes a new one.
`missed` is a ghost: pages with an event since their last load began, except those with
an `open` stream when it was sent.

### Gateway

A request is read by the clock of its instance on arrival (`Arrive`) and reaches Redis
later (`Limit`, `LimitUser`), so requests reach a bucket out of order. Then its handler
runs, a step per await that others may come between; `got` is what it read. `after[r]`
is a ghost: the requests that were done when `r` arrived, so that `Overlap` can tell
requests that ran side by side from those that did not. `lastCall` is memory of each of
the `Processes`, as `lastCallAt` is; the clocks of processes are taken to agree, and a
clock that is behind shows only as a request that comes late. A process that restarts
is one that has not called yet. Tokens are in units of 1/`Cost`
of a request, times in seconds; slots' times in minutes since a Sunday, as prices depend
on hour and weekday.

## Runs

Passing:

| Run | Asks | Instance |
|---|---|---|
| `booking` | `NoDoubleBooking` across strategies and a confirm, `LockedSeatStaysFree`, `WalletMovesWithBookings`, `MandateSpentOnBookings`, `TypeOK`; and that every started request ends (`EveryRequestAnswered`) | two users, one seat under all strategies and a second the poorer user has no money left for, a hold confirmed under a key and a mandate that expires, cancellations; 3 requests, 1 fault, 1 tick |
| `confirm` | one booking per hold, one execution per key, stored and given answers stay true, events match rows; `Reservations` implements `BookingLedger` | holds and confirms with and without key against direct booking and cancellation; 4 requests, 1 fault |
| `mandate` | `RevocationIsFinal`, `DeniedStaysDenied`, `ActiveMandateIsAccounted`, `AuthorityIsBounded`, ceilings on counters, a refused confirm leaves nothing | two tables, a mandate whose total pays for one of them, two confirms, two consoles that revoke, preview or ask for alternatives; 4 requests |
| `payments` | an acknowledged capture is booked or refunded; both only by overlap or failure; payment rows are linked to their own payment | an order with or without mandate, its deliveries, the person's own confirm under the order's key, a rival; 4 requests, 2 faults, a tick that expires the mandate |
| `outbox` | a notification is seen exactly when its job is done, duplicates have causes, what is done was delivered, every job is done or dead in the end | one reservation's three jobs, one notification tick, two webhook ticks, 2 attempts, 2 aborts |
| `agent` | one booking per workflow and kept key, only what is parked is spent, `EveryRunEnds`, `EveryTurnIsFetched`, budgets (`ChatTypeOK`) | one workflow, two holds, two ticks, three approvals or answers, 1 fault |
| `availability` | the cache heals; every published event is refetched, unless the stream is refused | one seat, two dates, a page, another client, a direct booker; 3 changes |
| `gateway` | what buckets grant was earned; each double or stale write needs an overlap; one account per e-mail; revoked keys serve nothing | three requests of one subject at a time, two buckets of two requests each, two processes |

Every property has a mutant in `PROJECT.json`: a definition changed as a plausible bug
would change it (`..Without..`, `Peek..`, `Reclaim..` beside the original), which TLC
must catch in that very run. `MandateAuthority`, `Payments`, `Availability` and `Gateway`
state a type invariant that no run lists: what is worth checking of it (a bucket's
capacity, say) is in their properties.

**Bounds.** `Requests` bounds how many calls are ever made. Three are two contenders
and one that disturbs them (a cancellation that frees the seat, a third strategy);
four are needed for a hold, its confirm, that confirm's retry and a rival, or for two
holds and two confirms. A violation of a property over two requests needs two actors
and one who changes the world between their steps, so these reach it; the mutants and
the violating runs confirm that they do. `MaxFaults` = 1 lets any one await of any
request fail or any one process die, anywhere; the interesting second step is what
others do afterwards, not a second failure (`payments` has two all the same: a confirm
and the webhook around it may both fail). The mandate run has none: a fault there is a
rollback already in `booking`, and its requests are needed elsewhere. `MaxNow` lets the
mandate expire between any two steps in `booking` and `payments`. `MaxAttempts` is 2
instead of 10 (an optimistic booking) and 5 (the workers): an attempt that fails and a
last one. `Window` is 10 with slots five apart.
`MaxAlternatives` is 1 (2 in the code is a longer loop of the same step), `BatchSize` 2
and `MaxSteps` 2 let a batch and a conversation have a first and a next. `MaxHolds` is 1,
so that the budget ends while a second hold is there to be asked for. In `gateway` a
bucket holds two requests and earns two a second, so that three requests empty it;
`Cost` = 2 lets it hold half a one.

**Restrictions of a run,** beyond its constants, each where two things share no state or
the larger instance only repeats the smaller:

- `NumberedByCall` (`booking`): requests are interchangeable, so they are numbered by the
  operation they call. A symmetry set would do this, were there no liveness property.
- `HoldsFirst` (`mandate`): holds touch no mandate, so they are over before the mandate
  is used, and a confirm names a hold of its seat.
- `OneHold` (`payments`): one request holds. A second finds the first hold in place, or
  takes the seat when that has expired, as the rival does.
- `Related` (`gateway`): a behaviour's calls are of one subject (accounts, places, slots,
  catalogue, partners, refusals); subjects meet at the buckets only, where an operation
  is a token. Only places need a clock beyond the first second.
- `Bounded` in `MCAgentChat`: three consoles and no fault, or two and one; a workflow
  whose page is followed has at most one console and no holds, since what a page hears
  does not depend on what a tick did.
- `Bounded` in `MCAvailability`: once the second day comes into view two of three changes
  are left; a stream is down or opening only among the first two, and beside no change
  that tells nobody.

The proofs have none of these bounds.

**Symmetry.** Requests (and consoles in `mandate`) are interchangeable: calls are arrived
by any of them and no definition tells them apart. Runs with a liveness property use no
symmetry; `mandate`'s action property is symmetric as well.

**Deadlock** is checked in `booking`, `confirm`, `mandate`, `payments` and `outbox`. In
the first four `Rest` is the only stuttering step, enabled when no request is in flight,
so every lock always has someone who can release it. `agent`, `availability` and
`gateway` may stop: workflows done or parked, a page at rest with nothing cached, all
requests answered.

**Fairness.** Weak, everywhere, and of what the process or time does by itself:

- Requests in `booking`, `Handle(r)`: a handler the event loop has started continues,
  since each await settles, by result, error or closed connection, and Node runs the
  continuation. A waiter on a slot row is served when the holder ends: the holder's own
  fairness ends it, and with finitely many requests nobody is overtaken forever.
- `outbox`: each worker's step (`setInterval` starts ticks again, awaits return) and the
  passing of back-off. Nothing is assumed of a partner's endpoint.
- `agent`: each tick's step, the API serving a confirm, the page's fetch, and EventSource
  trying until it is answered, by a stream or by a refusal that ends it. That it opens is
  not assumed. Users need not approve or answer, and nothing is assumed of the model's
  words.
- `availability`: requests served, loads answered, entries' TTLs, and EventSource as above.

Nothing is assumed of clients, faults or the expiry of holds.

## Where code and documents disagree

Four are violating runs with one property each; the counterexample is a behaviour of the
code.

| Run | Said | Done |
|---|---|---|
| `window_race` | one active reservation per café in ten hours (`reservations.service.ts:225`, `README.md:30`) | two requests of one user check before either inserts |
| `redelivery` | claim and replay make redelivery safe (`payments.service.ts:146`) | of two overlapping deliveries one books, and the other is told "in progress" and refunds |
| `unapproved_spend` | pauses for approval before spending (`README.md:74`, `agent-tools.service.ts:55`) | a question is answered three times at once; two saves come late: the first puts a finished conversation back in the queue, where the agent holds a table and parks its confirm, the other releases what is parked |
| `stale_grid` | a stale entry never makes a taken seat look free (`cafes.service.ts:113`, `availability-cache.service.ts:11`) | a reader stores what it read before a change, after the change's invalidation |

Others are visible in the models, as the behaviour a property has to allow for:

- *Keys.* A publish that fails after the commit lands in the `catch` that drops the key
  (`reservations.service.ts:467`; its comment: "nothing finished"), and the retry is told
  410. So does the storing of a success whose acknowledgement is lost: the row it stored
  is deleted, another request may have replayed that 201 meanwhile, and the next retry
  hears 410; `AnswersAreKept` excepts just that. The statement that claims a key or
  settles a failure may itself fail, and the key answers 409 from then on
  (`docs/idempotency-keys.md:45` says it never is poisoned).
- *Booking.* Two optimistic bookings may both win their swap and meet at the index
  (`:336` says one writer per version). A second cancellation that reads before the first
  commits answers 500 (`:635` says no-op). Under `PAYMENT_PROVIDER=razorpay` a
  cancellation credits a wallet that was never charged (`:644`). A direct booking looks at
  no holds (`agent-tools.service.ts:43`) and publishes nothing
  (`availability-events.service.ts:35`).
- *Mandates.* `revoke`'s save lowers counters which `mandate.entity.ts` says are only
  incremented; the properties of `MandateAuthority` show that nothing follows from it.
- *Payments.* A refund refused because it was made before answers 500 to every further
  delivery. A capture whose hold metadata has expired is acknowledged and settled by
  nobody (its comment says so).
- *Agent.* A booking loses its key where its announcement fails, and also where it was
  announced and its outcome could not be stored; a workflow that runs again then books
  again. With one key per workflow a second hold's confirm, or a confirm retried after
  a denial, fails the workflow, though `agent-tools.service.ts:210` has a denial as
  something it adapts to. A late save brings back a workflow that is done or failed, or
  loses an answer. No code releases holds when a step fails (`README.md:75`).
- *Streams.* The SUBSCRIBE behind a stream is not awaited, so an event between a page's
  fetch on `open` and it is lost, as is one while the server's own Redis connection is
  down behind an open stream, though `client.ts:222` has the open event cover
  reconnection "for free". A stream that is refused once, by the rate limit say, is
  closed for good and nothing opens another. Approvals and answers tell no other tab; a worker that dies
  between its commit and its events leaves pages behind; a refresh that fails is
  forgotten.
- *Availability.* Changes of tables are not announced, so the cache shows them after its
  TTL. Overlapping loads are shown in the order they arrive.
- *Slots.* Generation skips times and not dates (`owner.service.ts:140`); with another
  turn time it makes slots that overlap others of the day (`slot.entity.ts:4` has them
  never overlap), and two at once make one twice. A band that is updated beside it mixes
  prices.
- *Rate limit.* The script is atomic (`rate-limit.service.ts:14`), its clock is read
  outside: requests out of order earn a stretch of time twice. A request refused by its
  user's bucket has used its address's.
- *Store locator.* Two searches that sleep side by side call Nominatim together. The
  time of the last call is memory of one process, so that nothing keeps the limit between
  processes or across a restart (`nominatim.client.ts:53` has one client suffice).

## Proofs

Every safety property that a run checks is also a theorem, for any constants: any number
of requests, workflows, workers, orders, buckets, any budget of faults. The assumptions
are the named ones of the modules. `ConstantsAssumption` and `NilAssumption` of
`Reservations` say that prices are natural, that the maps map and that NULL is no value;
those of the other modules say the same of theirs, and further: a retry budget and a
batch are positive (`Outbox`), a request costs no more than a bucket holds (`Gateway`),
there are finitely many workflows (`AgentWorkflow`), each order has a key of its own and
is for a confirm (`Payments`: `crypto.randomUUID()`, `create-order.dto.ts`).

| Module | Theorem | States |
|---|---|---|
| `ReservationsProofs` | `TypeCorrect` | `Spec => []TypeOK`, so in particular no balance below zero |
| | `SeatsBookedOnce` | `Spec => []NoDoubleBooking` |
| | `OutboxFaithful` | `Spec => []OutboxMatchesLedger` |
| | `WalletFollowsLedger` | `Provider = "wallet"` implies `Spec => WalletMovesWithBookings` |
| | `ImplementsLedger` | `Provider = "wallet"` implies `Spec => Ledger!Spec` |
| `ExclusionProofs` | `OneExecutionPerKey` | `Spec => []KeyExecutesOnce` |
| | `LockKeepsSeatFree` | `Spec => []LockedSeatStaysFree` |
| | `OneBookingPerHold` | `Spec => []HoldBooksOnce` |
| `AnswerProofs` | `StoredSuccesses` | `Spec => []StoredSuccessIsReal` |
| | `KeptAnswers` | `Spec => []AnswersAreKept` |
| | `RefusalsLeaveNothing` | `Spec => []RefusedConfirmLeavesNothing` |
| `AuthorityProofs` | `GateAgrees` | `Admits` and `EvaluateMandate` are one predicate |
| | `DenialStands` | an explanation read after a refused UPDATE, from a row others have consumed or revoked since, is never ALLOW |
| | `CeilingsHold`, `MandateSpent` | of `Spec`: `MandateCeilingsHold`, `MandateSpentOnBookings` |
| | `BookingsAreBounded`, `ActiveIsAccounted`, `DenialsStand`, `CeilingsHoldUnderRevocation`, `RevocationsAreFinal`, `RefusalsLeaveNothingMeanwhile`, `AuthorityTypeCorrect` | of `AuthoritySpec`: `AuthorityIsBounded`, `ActiveMandateIsAccounted`, `DeniedStaysDenied`, `MandateCeilingsHold`, `RevocationIsFinal`, `RefusedConfirmLeavesNothing` and the types |
| `PaymentsProofs` | `AcknowledgedIsSettled`, `BothByOverlap`, `PaymentLinks`, `PaymentsTypeCorrect` | of `PaymentsSpec`: `AcknowledgedCaptureIsSettled`, `BothOnlyByOverlap`, `PaymentLinkIsItsOwn` and the types |
| | `CoreStands` | of `PaymentsSpec`: `NoDoubleBooking`, `HoldBooksOnce`, `StoredSuccessIsReal`, `AnswersAreKept` |
| `OutboxProofs` | `NotificationsMatchJobs`, `DuplicatesAreAccounted`, `DoneEventsWereReceived`, `OutboxTypeCorrect` | `NotifiedExactlyWhenDone`, `DuplicatesHaveCauses`, `DoneMeansDelivered`, `TypeOK` |
| `GatewayProofs` | `GrantsEarned`, `SameTimesOverlap`, `PricesFollowBands`, `CloseCallsOverlap`, `EmailsAreAccounts`, `RevokedKeysServeNothing`, `StaleListsOverlap`, `GatewayTypeCorrect` | `GrantsAreEarned`, `SameTimeNeedsOverlap`, `PricesFollowTheBand`, `CloseCallsNeedOverlap`, `OneAccountPerEmail`, `RevokedKeyServesNothing`, `StaleListNeedsOverlap` and the types |
| `AgentProofs` | `WorkflowsBookOnce`, `SpendsArePermitted`, `AgentTypeCorrect` | of the agent with its page: `OneBookingPerWorkflow`, `SpendsOnlyWhatIsParked`, `ChatTypeOK` |

`WalletFollowsLedger` and `ImplementsLedger` need the wallet: without it the code does
not refund what it charged (a razorpay booking is refunded to the wallet).

### The booking core

The inductive invariant is

    IInv == TypeOK /\ RequestsFit /\ OutboxMatchesLedger /\ NoDoubleBooking

`RequestsFit` says that a request is at a step its call can be at, has no row before
its insert, and has seen the row it cancels to exist and to be its user's. Without it,
types are not inductive (a refund adds a payment that might be NULL; an insert might
overwrite a row) and neither is the outbox (a confirm's notification must belong to
the confirm). The argument then goes through one lemma, `LedgerSteps`: each step of
the specification leaves the ledger alone, or books for one request whose seat is
free and whose user can pay, or cancels one live row. `OutboxStep`,
`NoDoubleBookingStep`, `WalletStep` and the refinement case on those three and never
look at the twenty-odd actions again. `RequestsFit` does look at each. Proofs are about
`AnyNext`, which is `Next` with any call of `Call` for an arrival: `Spec` takes no other
steps, and neither does a composition that sends calls of its own, as the webhook does.

Each further property has its strengthening, on top of `IInv`:

- `KeysFit`: an executing request's row exists, so nobody else can claim it
  (`KeyExecutesOnce`).
- `LocksFit`: a request between lock and commit owns the lock of its slot.
- `HoldsFit`: a hold in Redis is at the seat its request asked for, and its id is in
  Redis only until one confirm has taken it.
- `KInv` (`AnswerProofs`): `AnswersFit`, that a confirm with a reservation was not
  refused and one about to answer a success has its reservation; `RowsFit`, that an
  executing request's row is as it claimed it, without an outcome, or is the success that
  it stored, did not learn of and is about to drop; `DenialsFit`, that a denial is logged
  before it is answered; and `KeptFit`, that each answer under a key is the row's, or a
  booking replayed from a request that dropped it so. Then a row with an outcome is never
  written again but by the request that stored a booking in it and drops it
  (`SettledStays`), which is what makes answers final.

### Mandates

`MandateSpent` rests on `GateAgrees`: if the UPDATE refused and the explanation said
ALLOW, a confirm would commit without spending, and the model has that path (`Verdict`,
`MandatesAfter`). The model evaluates both on one row at one time; `DenialStands` covers
the gap the code has between them.

With consoles, counters are not what was spent: a revocation may put older ones back. The
invariant `AInv` therefore has two accounts of a mandate. `Accounted`: while it is active
its counters are exactly its bookings and their prices. `Bounded`: its bookings and their
prices are within its ceilings, active or not. In between, `ConsolesFit` bounds what a
revocation may have in hand: its copy is one that the row succeeds (`Succeeds`), by
spending or by being revoked, and `DeniedStaysDenied` is inductive because what denied
once, by time, status or counters, is denied by every later row. Prices are added up with
the community modules' `MapThenSumSet`, which is recursive; that a booking adds its price
to the sum is shown without induction, by taking a least subset at which two ways of
summing differ (`SumOver`, `IsSum`).

### Payments

The webhook works with what a confirm answered and has nothing else, so `BInv` collects
what an answer under a key says. `SuccessesFit`: whoever was told of a booking under a
key, fresh or replayed, was told of a reservation made under that key for that hold.
`TellsFit` and `MismatchesFit`: who was told that the key is another request's was told
so at the end, and the key still is, unless that request failed. `HoldsAreNamed`: hold
and metadata are named after the request that asked for them, so that what the webhook
confirms (`ConfirmOf`) never changes. On top of `BInv`, `PInv` follows an order
(`OrdersFit`), its deliveries (`DeliveriesFit`), what is behind a refund (`RefundsFit`)
and a link (`LinksFit`). `PaymentLinkIsItsOwn` then needs `HoldBooksOnce`, and
`BothOnlyByOverlap` is an argument over one state: behind the refund is a delivery that
ended without a booking; if nobody under the key failed or was told "in progress", the
key has its answer and also the success of the request that booked, and they differ.

`BothOnlyByOverlap` once spoke of every booking of the order's hold, which one order per
run cannot tell from the bookings under its key. With a second order for the hold it is
false, and should be: that is another payment, whose refund is right. It now says which
booking and refund are of one payment. An order's key was likewise assumed to be unknown
before the order existed, in a guard that constrained one key only; `KeyHandedOut` says it
of every order.

### Workers

`OInv`: what a transaction has claimed is pending, due and nobody else's (`ClaimsFit`,
`ClaimsApart`), what it has in store is the outcome of one attempt (`RowsFit`). A
partner's count is then bounded by attempts and roll-backs (`ReceivedFits`): an event
under way in a batch is counted against the row in store, any other against its row.

### Gateway

Everything rests on the order of requests: what `r` finds done when it arrives is done
for good, what is not done by then overlaps `r` (`RequestsFit`). One invariant for each
part says what a request between two awaits knows of those before it: the grid's times of
every generation before it (`SlotsFit`), the band unless an update came since
(`BandsFit`), a second later than every call before (`CallsFit`), and so on.

`GrantsAreEarned` could not be proved as it first was, and was false beyond the run's
bounds: a request that reads its clock, is held up until its bucket has expired and then
reaches Redis makes a bucket that is full at an old time, from which the next request
earns again what the expired bucket had already earned. The property now counts that
stretch, as it does clocks that come late within a bucket's life (`expired`, `rewound`):
it is in the code (`rate-limit.service.ts:24`, where an absent bucket is full as of
`now`), and harmless beside the grants of a bucket that expired unused.

### The agent

`CInv`: a row is in one tick at a time and stays queued while it is, and a copy that has
not been turned to yet is the row as it was claimed (`LocksFit`), which is why what a tick
spends is what is parked, although it looks at its copy. What a workflow has booked with
its key kept is the hold of that key, and a key at work has booked nothing yet
(`KeysStop`). A workflow without such a booking may book; one with it meets its key.

### What is only model-checked

Liveness (`EveryRequestAnswered`, `EveryJobIsResolved`, `EveryRunEnds`,
`EveryTurnIsFetched`, `CacheHeals`, `EveryEventIsRefetched`), which with fairness and
ENABLED is out of the prover's reach; so `Availability`, whose properties are of that
kind, has no theorems. The violating runs are counterexamples and need no proof.
Induction over data is out of reach as well; where a sum over a set was needed it was
done by a least counterexample, see above.

## Not modelled, and the plan

Left out, and why:

- The demand score and its discount (`cafes/demand.ts`, `historicalFillRateByHour`):
  fractions that order and label what is offered. `discountedPriceMinor` is quoted and
  never charged, so no state depends on it; alternatives are any order of free seats.
- `createTable` (an insert nothing races), lists that only read, formatting, the pages of
  the web client that show forms and lists, and its display of a wallet balance between
  two loads.
- Password hashing, tokens, signatures and the language model: library code or outside
  services. A signature's check appears as its outcome.
- Row locks other than a slot's and those of claimed jobs: a transaction that takes
  several in conflicting order and is chosen as a deadlock's victim is a `Fault`.
- Seed data, process start-up, the evaluation harness and the benchmark.

Planned proofs, in this order:

1. Refinement under composition: that `MandateAuthority` still implements `BookingLedger`
   where the wallet pays, and `WalletMovesWithBookings` with it.
2. `Outbox` as an implementation of what `Reservations` promises its readers: a job per
   event, handed over once.
3. `Availability`: the safety half of its properties (an entry is as old as its TTL at
   most, an event is owed to a page until it is fetched), as an invariant to check first.
