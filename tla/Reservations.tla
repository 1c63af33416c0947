----------------------------- MODULE Reservations -----------------------------
(***************************************************************************)
(* The booking core of the API: ReservationsService (book under its three  *)
(* strategies, hold, confirm behind an Idempotency-Key, cancel) over       *)
(* HoldsService (Redis), with the rows they share in Postgres.             *)
(*                                                                         *)
(* A request is a process.  Its handler is cut at every await that reads   *)
(* or writes shared state, so that two requests interleave as they do on   *)
(* one or several API instances; a transaction whose conflicting           *)
(* statements hold their row locks to the commit is one action.  Any await *)
(* may fail (Fault) and any request may die (Crash), MaxFaults of either.  *)
(***************************************************************************)
EXTENDS MandateGate, FiniteSets

CONSTANTS
  Tables, Slots, Cafes,
  Requests,         \* request identities; also the ids of the rows they insert
  Keys,             \* Idempotency-Key values
  Mandates,
  Nil,              \* SQL NULL, an absent row, an absent optional field
  TableCafe, SlotCafe, SlotTime, SlotPrice, CafeArea,
  InitialBalance, InitialMandates,
  Provider,         \* PAYMENT_PROVIDER
  Window,           \* BOOKING_WINDOW_MS
  MaxAttempts,      \* OPTIMISTIC_MAX_ATTEMPTS
  Calls,            \* the calls clients make: a subset of Call
  MaxFaults,        \* bound: failed awaits and crashed requests
  MaxNow            \* bound: ticks of the clock mandates expire by

Strategies == {"unique", "pessimistic", "optimistic"}

\* The request bodies, with the authenticated user.
Call == [op: {"book"}, user: Users, table: Tables, slot: Slots,
         strategy: Strategies]
        \cup
        [op: {"hold"}, user: Users, table: Tables, slot: Slots]
        \cup
        [op: {"confirm"}, user: Users, table: Tables, slot: Slots,
         hold: Requests, key: Keys \cup {Nil}, mandate: Mandates \cup {Nil}]
        \cup
        [op: {"cancel"}, user: Users, reservation: Requests]

ASSUME ConstantsAssumption ==
  /\ Nil \notin Requests /\ Nil \notin Keys /\ Nil \notin Mandates
  /\ TableCafe \in [Tables -> Cafes]
  /\ SlotCafe \in [Slots -> Cafes]
  /\ SlotTime \in [Slots -> Int]
  /\ SlotPrice \in [Slots -> Nat]
  /\ CafeArea \in [Cafes -> Localities]
  /\ InitialBalance \in [Users -> Nat]
  /\ InitialMandates \in [Mandates -> MandateRow]
  /\ Provider \in {"wallet", "razorpay"}
  /\ Window \in Nat
  /\ MaxAttempts \in Nat \ {0}
  /\ MaxFaults \in Nat
  /\ MaxNow \in Nat
  /\ Calls \subseteq Call

VARIABLES
  \* Postgres
  reservations,     \* reservations: a row per request that booked, or Nil
  payments,         \* payments.amount of that row's payment, or Nil
  balance,          \* users.walletBalance
  webhookJobs,      \* webhook_jobs: <<reservation, event>>, unique
  notificationJobs, \* notification_jobs, by reservation
  keys,             \* idempotency_keys, by (user, key)
  version,          \* slots.version
  slotLock,         \* the transaction with a slot row FOR UPDATE, or Nil
  mandates,         \* mandates
  decisions,        \* agent_decisions: <<request, step, verdict>>
  \* Redis
  holds,            \* hold:{table}:{slot} -> [id, user], or Nil
  holdMeta,         \* the hold ids with a holdmeta key
  published,        \* requests whose change went out on cafe:{cafeId}
  \* the requests
  pc, call, reply, seenVersion, attempt,
  \* the clock and the fault budget
  now, faults

ledger == <<reservations, payments, balance, webhookJobs, notificationJobs>>
slotRows == <<version, slotLock>>
gate == <<mandates, decisions>>
redis == <<holds, holdMeta, published>>
locals == <<call, seenVersion, attempt>>
world == <<now, faults>>
shared == <<ledger, keys, slotRows, gate, redis>>
vars == <<shared, pc, reply, locals, world>>

-------------------------------------------------------------------------------
(* Types *)

ReservationRow ==
  [user: Users, table: Tables, slot: Slots, status: {"booked", "cancelled"}]

Statuses ==
  {"none", "created", "held", "cancelled", "unchanged", "paymentRequired",
   "denied", "forbidden", "notFound", "taken", "windowConflict", "heldByOther",
   "gone", "inProgress", "keyMismatch", "error"}

\* An HTTP answer: its status, and the id of the hold or reservation in its body.
Reply == [status: Statuses, id: Requests \cup {Nil}]

Unanswered == [status |-> "none", id |-> Nil]

\* requestHash stands for the hashed fields; outcome is Nil while responseBody is.
KeyRow == [requestHash: Tables \X Slots \X Requests, outcome: Reply \cup {Nil}]

HoldRow == [id: Requests, user: Users]

\* NULL and an absent row are no amount, row or answer.
ASSUME NilAssumption ==
  /\ Nil \notin Nat
  /\ Nil \notin ReservationRow
  /\ Nil \notin HoldRow
  /\ Nil \notin KeyRow
  /\ Nil \notin Reply

Steps ==
  {"book", "bookTx", "lockSlot", "lockedTx", "readVersion", "readExisting",
   "cas", "hold", "holdWindow", "acquire", "writeMeta", "claim", "lookup",
   "confirm", "consume", "confirmTx", "publish", "storeOutcome", "dropKey",
   "cancel", "cancelTx"}

Ended == {"done", "crashed"}

TypeOK ==
  /\ reservations \in [Requests -> ReservationRow \cup {Nil}]
  /\ payments \in [Requests -> Nat \cup {Nil}]
  /\ balance \in [Users -> Nat]
  /\ webhookJobs \subseteq Requests \X {"created", "cancelled"}
  /\ notificationJobs \subseteq Requests
  /\ keys \in [Users \X Keys -> KeyRow \cup {Nil}]
  /\ version \in [Slots -> Nat]
  /\ slotLock \in [Slots -> Requests \cup {Nil}]
  /\ mandates \in [Mandates -> MandateRow]
  /\ decisions \subseteq
       Requests \X {"AUTHORIZE", "CONFIRM"} \X {"ALLOW", "DENY"}
  /\ holds \in [Tables \X Slots -> HoldRow \cup {Nil}]
  /\ holdMeta \subseteq Requests
  /\ published \subseteq Requests
  /\ pc \in [Requests -> {"idle"} \cup Steps \cup Ended]
  /\ call \in [Requests -> Call \cup {Nil}]
  /\ reply \in [Requests -> Reply]
  /\ seenVersion \in [Requests -> Nat]
  /\ attempt \in [Requests -> Nat]
  /\ now \in 0..MaxNow
  /\ faults \in 0..MaxFaults

-------------------------------------------------------------------------------
(* Helpers *)

Booked(o) == reservations[o] # Nil /\ reservations[o].status = "booked"

\* The partial unique index UQ_active_reservation_per_table_slot, and the
\* findOne the application looks with.
Taken(t, s) ==
  \E o \in Requests : /\ Booked(o)
                      /\ reservations[o].table = t /\ reservations[o].slot = s

\* Two slot times of one cafe strictly less than the window apart.
Close(s1, s2) ==
  /\ SlotCafe[s1] = SlotCafe[s2]
  /\ SlotTime[s1] > SlotTime[s2] - Window
  /\ SlotTime[s1] < SlotTime[s2] + Window

\* assertWithinWindowFree rejects: the user's other booking is too close.  The
\* seat asked for does not count against itself.
WindowConflict(u, t, s) ==
  \E o \in Requests :
    /\ Booked(o)
    /\ reservations[o].user = u
    /\ Close(reservations[o].slot, s)
    /\ ~ (reservations[o].table = t /\ reservations[o].slot = s)

Keyed(r) == call[r].op = "confirm" /\ call[r].key # Nil

KeyOf(c) == <<c.user, c.key>>
HashOf(c) == <<c.table, c.slot, c.hold>>
SeatOf(c) == <<c.table, c.slot>>

CheckOf(c) ==
  [amount |-> SlotPrice[c.slot], locality |-> CafeArea[TableCafe[c.table]],
   slotTime |-> SlotTime[c.slot]]

At(r, step) == pc[r] = step
Goto(r, step) == pc' = [pc EXCEPT ![r] = step]
Answer(r, status, id) ==
  reply' = [reply EXCEPT ![r] = [status |-> status, id |-> id]]

\* An HttpException: a confirm under a key stores it, everything else sends it.
Reject(r, status) ==
  /\ Answer(r, status, Nil)
  /\ Goto(r, IF Keyed(r) THEN "storeOutcome" ELSE "done")

\* Mutant: a charge that does not look at the balance.
CanPayUnchecked(c) == TRUE

\* chargeWallet's condition.  Under razorpay nothing is charged here.
CanPay(c) == Provider = "wallet" => balance[c.user] >= SlotPrice[c.slot]

\* Mutant: the created event is left to a later statement, outside the transaction.
WriteBookingWithoutEvent(r, c) ==
  /\ balance' = IF Provider = "wallet"
                THEN [balance EXCEPT ![c.user] = @ - SlotPrice[c.slot]]
                ELSE balance
  /\ reservations' = [reservations EXCEPT ![r] =
                        [user |-> c.user, table |-> c.table, slot |-> c.slot,
                         status |-> "booked"]]
  /\ payments' = [payments EXCEPT ![r] = SlotPrice[c.slot]]
  /\ UNCHANGED webhookJobs

\* writeBookingAndCharge's writes, for the transaction of request r.
WriteBookingAndCharge(r, c) ==
  /\ balance' = IF Provider = "wallet"
                THEN [balance EXCEPT ![c.user] = @ - SlotPrice[c.slot]]
                ELSE balance
  /\ reservations' = [reservations EXCEPT ![r] =
                        [user |-> c.user, table |-> c.table, slot |-> c.slot,
                         status |-> "booked"]]
  /\ payments' = [payments EXCEPT ![r] = SlotPrice[c.slot]]
  /\ webhookJobs' = webhookJobs \cup {<<r, "created">>}

\* An INSERT into reservations takes a share lock on the slot row its foreign key
\* names, and waits while another transaction has that row FOR UPDATE.
SlotUnlocked(r) == slotLock[call[r].slot] \in {Nil, r}

\* Mutant: a query runner that is never released keeps its transaction open.
KeepLocks(r) == UNCHANGED slotLock

\* What COMMIT, ROLLBACK and a lost connection do to the locks of r.
ReleaseLocks(r) ==
  slotLock' = [s \in Slots |-> IF slotLock[s] = r THEN Nil ELSE slotLock[s]]

-------------------------------------------------------------------------------
(* A request arrives *)

\* A client names only ids the API has given out: a hold it was answered, a
\* reservation that is listed; an id of neither kind is an unknown one.
Known(c) ==
  CASE c.op = "confirm" ->
         \E q \in Requests : At(q, "done") /\ reply[q] = [status |-> "held", id |-> c.hold]
    [] c.op = "cancel" ->
         reservations[c.reservation] # Nil \/ pc[c.reservation] \in Ended
    [] OTHER -> TRUE

FirstStep(c) == IF c.op = "confirm" /\ c.key # Nil THEN "claim" ELSE c.op

Arrive(r, c) ==
  /\ At(r, "idle")
  /\ Known(c)
  /\ call' = [call EXCEPT ![r] = c]
  /\ Goto(r, FirstStep(c))
  /\ UNCHANGED <<shared, reply, seenVersion, attempt, world>>

\* A step that only reads, and goes on to next unless it finds a refusal.
Check(r, step, refusal, next) ==
  /\ At(r, step)
  /\ IF refusal = "none" THEN Goto(r, next) /\ UNCHANGED reply
                         ELSE Reject(r, refusal)
  /\ UNCHANGED <<shared, locals, world>>

-------------------------------------------------------------------------------
(* POST /reservations: book *)

\* A slot of another cafe is not found for this table.
Misplaced(c) == SlotCafe[c.slot] # TableCafe[c.table]

WindowRefusal(c) ==
  IF WindowConflict(c.user, c.table, c.slot) THEN "windowConflict" ELSE "none"

BookRefusal(c) == IF Misplaced(c) THEN "notFound" ELSE WindowRefusal(c)

TakenRefusal(c) == IF Taken(c.table, c.slot) THEN "taken" ELSE "none"

StrategyStep ==
  [unique |-> "bookTx", pessimistic |-> "lockSlot", optimistic |-> "readVersion"]

BookChecks(r) ==
  Check(r, "book", BookRefusal(call[r]), StrategyStep[call[r].strategy])

\* Mutant: no unique index behind the insert.
WriteRefusalWithoutIndex(c) == IF ~ CanPay(c) THEN "paymentRequired" ELSE "none"

\* What stops the transaction of a booking: the charge comes first, then the
\* insert the unique index guards.
WriteRefusal(c) == IF ~ CanPay(c) THEN "paymentRequired" ELSE TakenRefusal(c)

\* The transaction of every direct booking.
DirectWrite(r) ==
  /\ IF WriteRefusal(call[r]) = "none"
     THEN /\ WriteBookingAndCharge(r, call[r])
          /\ Answer(r, "created", r)
          /\ Goto(r, "done")
     ELSE /\ Reject(r, WriteRefusal(call[r]))
          /\ UNCHANGED <<balance, reservations, payments, webhookJobs>>
  /\ UNCHANGED <<notificationJobs, keys, version, gate, redis, locals, world>>

\* bookInTransaction: all of bookUnique, and bookOptimistic after its CAS.
BookInTransaction(r) ==
  /\ At(r, "bookTx")
  /\ SlotUnlocked(r)
  /\ DirectWrite(r)
  /\ UNCHANGED slotLock

\* Mutant: a plain SELECT of the slot.
SelectSlot(r) ==
  LET c == call[r] IN
  /\ At(r, "lockSlot")
  /\ IF Taken(c.table, c.slot)
     THEN Reject(r, "taken")
     ELSE Goto(r, "lockedTx") /\ UNCHANGED reply
  /\ UNCHANGED <<ledger, keys, slotRows, gate, redis, locals, world>>

\* bookPessimistic: SELECT ... FOR UPDATE, then the look for a booking.
LockSlot(r) ==
  LET c == call[r] IN
  /\ At(r, "lockSlot")
  /\ slotLock[c.slot] = Nil
  /\ IF Taken(c.table, c.slot)
     THEN Reject(r, "taken") /\ UNCHANGED slotLock
     ELSE /\ slotLock' = [slotLock EXCEPT ![c.slot] = r]
          /\ Goto(r, "lockedTx")
          /\ UNCHANGED reply
  /\ UNCHANGED <<ledger, keys, version, gate, redis, locals, world>>

LockedTransaction(r) ==
  /\ At(r, "lockedTx")
  /\ DirectWrite(r)
  /\ ReleaseLocks(r)

\* bookOptimistic: each attempt reads the version, looks for a booking, and swaps.
ReadVersion(r) ==
  /\ At(r, "readVersion")
  /\ seenVersion' = [seenVersion EXCEPT ![r] = version[call[r].slot]]
  /\ Goto(r, "readExisting")
  /\ UNCHANGED <<shared, reply, call, attempt, world>>

ReadExisting(r) == Check(r, "readExisting", TakenRefusal(call[r]), "cas")

\* The UPDATE commits on its own, before and apart from the booking it is for.
SwapWon(r) ==
  LET s == call[r].slot IN
  /\ At(r, "cas")
  /\ SlotUnlocked(r)
  /\ version[s] = seenVersion[r]
  /\ version' = [version EXCEPT ![s] = @ + 1]
  /\ Goto(r, "bookTx")
  /\ UNCHANGED <<ledger, keys, slotLock, gate, redis, reply, locals, world>>

SwapLost(r) ==
  /\ At(r, "cas")
  /\ SlotUnlocked(r)
  /\ version[call[r].slot] # seenVersion[r]
  /\ attempt' = [attempt EXCEPT ![r] = @ + 1]
  /\ IF attempt'[r] < MaxAttempts THEN Goto(r, "readVersion") /\ UNCHANGED reply
                                  ELSE Reject(r, "taken")
  /\ UNCHANGED <<shared, call, seenVersion, world>>

-------------------------------------------------------------------------------
(* POST /reservations/hold: hold *)

HoldRefusal(c) == IF Misplaced(c) THEN "notFound" ELSE TakenRefusal(c)

HoldChecks(r) == Check(r, "hold", HoldRefusal(call[r]), "holdWindow")

HoldWindow(r) == Check(r, "holdWindow", WindowRefusal(call[r]), "acquire")

\* ACQUIRE_OR_REUSE: a free seat, the caller's own hold, or somebody else's.
AcquireHold(r) ==
  LET c == call[r]
      current == holds[SeatOf(c)] IN
  /\ At(r, "acquire")
  /\ IF current # Nil /\ current.user # c.user
     THEN Reject(r, "heldByOther") /\ UNCHANGED holds
     ELSE /\ holds' = [holds EXCEPT ![SeatOf(c)] =
                        IF @ = Nil THEN [id |-> r, user |-> c.user] ELSE @]
          /\ Answer(r, "held", IF current = Nil THEN r ELSE current.id)
          /\ Goto(r, "writeMeta")
  /\ UNCHANGED <<ledger, keys, slotRows, gate, holdMeta, published, locals, world>>

\* The second Redis call of create.
WriteMeta(r) ==
  /\ At(r, "writeMeta")
  /\ holdMeta' = holdMeta \cup {reply[r].id}
  /\ Goto(r, "publish")
  /\ UNCHANGED <<ledger, keys, slotRows, gate, holds, published, reply, locals, world>>

\* The TTL of a reused hold is read in whole seconds: in its last half second it
\* reads 0, which SET ... EX refuses.
ReuseTooLate(r) ==
  /\ At(r, "writeMeta")
  /\ reply[r].id # r
  /\ Reject(r, "error")
  /\ UNCHANGED <<shared, locals, world>>

-------------------------------------------------------------------------------
(* POST /reservations/confirm: confirmHold and executeConfirm *)

\* Mutant: a claim that takes over a row without an outcome.
ReclaimKey(r) ==
  LET k == KeyOf(call[r]) IN
  /\ At(r, "claim")
  /\ IF keys[k] # Nil /\ keys[k].outcome # Nil
     THEN Goto(r, "lookup") /\ UNCHANGED keys
     ELSE /\ keys' = [keys EXCEPT ![k] =
                       [requestHash |-> HashOf(call[r]), outcome |-> Nil]]
          /\ Goto(r, "confirm")
  /\ UNCHANGED <<ledger, slotRows, gate, redis, reply, locals, world>>

\* INSERT ... ON CONFLICT DO NOTHING on (userId, key).
ClaimKey(r) ==
  LET k == KeyOf(call[r]) IN
  /\ At(r, "claim")
  /\ IF keys[k] # Nil
     THEN Goto(r, "lookup") /\ UNCHANGED keys
     ELSE /\ keys' = [keys EXCEPT ![k] =
                       [requestHash |-> HashOf(call[r]), outcome |-> Nil]]
          /\ Goto(r, "confirm")
  /\ UNCHANGED <<ledger, slotRows, gate, redis, reply, locals, world>>

\* The answer of a request that lost the claim.  The row may be gone by now: the
\* winner deletes it when it fails for no HTTP reason.
Replay(row, c) ==
  CASE row = Nil -> [status |-> "error", id |-> Nil]
    [] row # Nil /\ row.requestHash # HashOf(c) -> [status |-> "keyMismatch", id |-> Nil]
    [] row # Nil /\ row.requestHash = HashOf(c) ->
         IF row.outcome = Nil THEN [status |-> "inProgress", id |-> Nil]
                              ELSE row.outcome

LookupKey(r) ==
  /\ At(r, "lookup")
  /\ reply' = [reply EXCEPT ![r] = Replay(keys[KeyOf(call[r])], call[r])]
  /\ Goto(r, "done")
  /\ UNCHANGED <<shared, locals, world>>

\* What executeConfirm checks before it consumes the hold.
ConfirmRefusal(c) ==
  IF WindowConflict(c.user, c.table, c.slot) THEN "windowConflict"
  ELSE IF c.mandate # Nil /\ mandates[c.mandate].owner # c.user THEN "forbidden"
  ELSE "none"

ConfirmChecks(r) == Check(r, "confirm", ConfirmRefusal(call[r]), "consume")

\* Mutant: the hold is compared and left to expire.
PeekHold(r) ==
  LET c == call[r] IN
  /\ At(r, "consume")
  /\ IF holds[SeatOf(c)] = [id |-> c.hold, user |-> c.user]
     THEN Goto(r, "confirmTx") /\ UNCHANGED reply
     ELSE Reject(r, "gone")
  /\ UNCHANGED <<ledger, keys, slotRows, gate, redis, locals, world>>

\* RELEASE_IF_MATCH: delete the hold only while it is this user's, under this id.
ConsumeHold(r) ==
  LET c == call[r] IN
  /\ At(r, "consume")
  /\ IF holds[SeatOf(c)] = [id |-> c.hold, user |-> c.user]
     THEN /\ holds' = [holds EXCEPT ![SeatOf(c)] = Nil]
          /\ Goto(r, "confirmTx")
          /\ UNCHANGED reply
     ELSE Reject(r, "gone") /\ UNCHANGED holds
  /\ UNCHANGED <<ledger, keys, slotRows, gate, holdMeta, published, locals, world>>

\* authorizeAndConsume: the UPDATE decides, and only when it matched no row does
\* evaluateMandate say why.
Verdict(c) ==
  IF c.mandate = Nil \/ Admits(mandates[c.mandate], CheckOf(c), now)
  THEN "ALLOW"
  ELSE EvaluateMandate(mandates[c.mandate], CheckOf(c), now)

\* Mutant: the gate decides and does not spend.
MandatesUnspent(c) == mandates

MandatesAfter(c) ==
  IF c.mandate # Nil /\ Admits(mandates[c.mandate], CheckOf(c), now)
  THEN [mandates EXCEPT ![c.mandate] = Consume(@, CheckOf(c))]
  ELSE mandates

\* The confirm transaction: charge, reservation, payment, created event, gate,
\* decision rows and notification, all or nothing.
ConfirmWrite(r) ==
  LET c == call[r] IN
  /\ At(r, "confirmTx")
  /\ SlotUnlocked(r)
  /\ WriteRefusal(c) = "none" /\ Verdict(c) = "ALLOW"
  /\ WriteBookingAndCharge(r, c)
  /\ mandates' = MandatesAfter(c)
  /\ decisions' =
       IF c.mandate = Nil THEN decisions
       ELSE decisions \cup {<<r, "AUTHORIZE", "ALLOW">>, <<r, "CONFIRM", "ALLOW">>}
  /\ notificationJobs' = notificationJobs \cup {r}
  /\ Answer(r, "created", r)
  /\ Goto(r, "publish")
  /\ UNCHANGED <<keys, slotRows, redis, locals, world>>

\* Mutant: the booking is committed before the gate is asked.
ConfirmKeptOnDenial(r) ==
  LET c == call[r] IN
  /\ At(r, "confirmTx")
  /\ SlotUnlocked(r)
  /\ \/ /\ WriteRefusal(c) # "none"
        /\ Reject(r, WriteRefusal(c))
        /\ UNCHANGED <<balance, reservations, payments, webhookJobs, decisions>>
     \/ /\ WriteRefusal(c) = "none" /\ Verdict(c) # "ALLOW"
        /\ WriteBookingAndCharge(r, c)
        /\ decisions' = decisions \cup {<<r, "AUTHORIZE", "DENY">>}
        /\ Reject(r, "denied")
  /\ UNCHANGED <<notificationJobs, keys, slotRows, mandates, redis, locals, world>>

\* It rolls back.  A denial is logged on its own connection and survives that.
ConfirmRollback(r) ==
  LET c == call[r] IN
  /\ At(r, "confirmTx")
  /\ SlotUnlocked(r)
  /\ \/ /\ WriteRefusal(c) # "none"
        /\ Reject(r, WriteRefusal(c))
        /\ UNCHANGED decisions
     \/ /\ WriteRefusal(c) = "none" /\ Verdict(c) # "ALLOW"
        /\ decisions' = decisions \cup {<<r, "AUTHORIZE", "DENY">>}
        /\ Reject(r, "denied")
  /\ UNCHANGED <<ledger, keys, slotRows, mandates, redis, locals, world>>

\* events.publish, of hold, confirm and cancel: invalidate the availability cache
\* and announce the change.
Publish(r) ==
  /\ At(r, "publish")
  /\ published' = published \cup {r}
  /\ Goto(r, IF Keyed(r) THEN "storeOutcome" ELSE "done")
  /\ UNCHANGED <<ledger, keys, slotRows, gate, holds, holdMeta, reply, locals, world>>

\* A stored failure keeps its status code and message: a mandate denial's verdict
\* and reason are gone, and it replays as any other 403.
Stored(answer) ==
  IF answer.status = "denied" THEN [answer EXCEPT !.status = "forbidden"] ELSE answer

\* Mutant: an HTTP failure is answered and not stored.
StoreSuccess(r) ==
  /\ At(r, "storeOutcome")
  /\ keys' = [keys EXCEPT ![KeyOf(call[r])] =
                IF @ = Nil \/ reply[r].status # "created" THEN @
                ELSE [@ EXCEPT !.outcome = Stored(reply[r])]]
  /\ Goto(r, "done")
  /\ UNCHANGED <<ledger, slotRows, gate, redis, reply, locals, world>>

\* The key's row gets the outcome, a booking or an HTTP failure, and the request
\* answers it.
StoreOutcome(r) ==
  /\ At(r, "storeOutcome")
  /\ keys' = [keys EXCEPT ![KeyOf(call[r])] =
                IF @ = Nil THEN Nil ELSE [@ EXCEPT !.outcome = Stored(reply[r])]]
  /\ Goto(r, "done")
  /\ UNCHANGED <<ledger, slotRows, gate, redis, reply, locals, world>>

\* Any other failure deletes the row, so that a retry executes again.
DropKey(r) ==
  /\ At(r, "dropKey")
  /\ keys' = [keys EXCEPT ![KeyOf(call[r])] = Nil]
  /\ Goto(r, "done")
  /\ UNCHANGED <<ledger, slotRows, gate, redis, reply, locals, world>>

-------------------------------------------------------------------------------
(* POST /reservations/:id/cancel: cancel *)

\* The row is read outside the transaction that changes it.
CancelRefusal(c) ==
  IF reservations[c.reservation] = Nil THEN "notFound"
  ELSE IF reservations[c.reservation].user # c.user THEN "forbidden"
  ELSE IF reservations[c.reservation].status # "booked" THEN "unchanged"
  ELSE "none"

CancelChecks(r) == Check(r, "cancel", CancelRefusal(call[r]), "cancelTx")

\* Mutant: a cancellation whose event is not unique.
CancelTransactionWithoutIndex(r) ==
  LET o == call[r].reservation IN
  /\ At(r, "cancelTx")
  /\ reservations' = [reservations EXCEPT ![o].status = "cancelled"]
  /\ balance' = [balance EXCEPT ![call[r].user] = @ + payments[o]]
  /\ webhookJobs' = webhookJobs \cup {<<o, "cancelled">>}
  /\ Answer(r, "cancelled", o)
  /\ Goto(r, "publish")
  /\ UNCHANGED <<payments, notificationJobs, keys, slotRows, gate, redis, locals,
                 world>>

\* The unique index on webhook_jobs rolls the transaction back when the
\* reservation already has its cancelled event.
CancelTransaction(r) ==
  LET o == call[r].reservation IN
  /\ At(r, "cancelTx")
  /\ IF <<o, "cancelled">> \in webhookJobs
     THEN Reject(r, "error") /\ UNCHANGED <<reservations, balance, webhookJobs>>
     ELSE /\ reservations' = [reservations EXCEPT ![o].status = "cancelled"]
          /\ balance' = [balance EXCEPT ![call[r].user] = @ + payments[o]]
          /\ webhookJobs' = webhookJobs \cup {<<o, "cancelled">>}
          /\ Answer(r, "cancelled", o)
          /\ Goto(r, "publish")
  /\ UNCHANGED <<payments, notificationJobs, keys, slotRows, gate, redis, locals,
                 world>>

-------------------------------------------------------------------------------
(* What happens to requests: time, failed awaits, crashes *)

ExpireHold(t, s) ==
  /\ holds[<<t, s>>] # Nil
  /\ holds' = [holds EXCEPT ![<<t, s>>] = Nil]
  /\ UNCHANGED <<ledger, keys, slotRows, gate, holdMeta, published, pc, reply, locals,
                 world>>

ExpireMeta(h) ==
  /\ h \in holdMeta
  /\ holdMeta' = holdMeta \ {h}
  /\ UNCHANGED <<ledger, keys, slotRows, gate, holds, published, pc, reply, locals,
                 world>>

Tick ==
  /\ now < MaxNow
  /\ now' = now + 1
  /\ UNCHANGED <<shared, pc, reply, locals, faults>>

\* Inside confirmHold's try: executeConfirm, and the update that stores a success.
InTry(r) ==
  /\ Keyed(r)
  /\ \/ pc[r] \in {"confirm", "consume", "confirmTx", "publish"}
     \/ pc[r] = "storeOutcome" /\ reply[r].status = "created"

Breaks(r) ==
  /\ pc[r] \in Steps
  /\ faults < MaxFaults
  /\ faults' = faults + 1
  /\ ReleaseLocks(r)
  /\ UNCHANGED <<locals, now>>

\* The await at hand throws something that is no HttpException, and has had no
\* effect.  An open transaction rolls back.
Fault(r) ==
  /\ Breaks(r)
  /\ UNCHANGED <<ledger, keys, version, gate, redis>>
  /\ Answer(r, "error", Nil)
  /\ Goto(r, IF InTry(r) THEN "dropKey" ELSE "done")

\* The await at hand throws although it has had its effect: the acknowledgement is
\* lost.  Where another await follows that fails alike this is a Fault of that one;
\* it is not where r claims its key, outside the try ...
LostClaim(r) ==
  /\ Breaks(r)
  /\ At(r, "claim")
  /\ keys[KeyOf(call[r])] = Nil
  /\ keys' = [keys EXCEPT ![KeyOf(call[r])] =
                [requestHash |-> HashOf(call[r]), outcome |-> Nil]]
  /\ Answer(r, "error", Nil)
  /\ Goto(r, "done")
  /\ UNCHANGED <<ledger, version, gate, redis>>

\* ... where a direct booking commits ...
LostCommit(r) ==
  /\ Breaks(r)
  /\ pc[r] \in {"bookTx", "lockedTx"}
  /\ SlotUnlocked(r)
  /\ WriteRefusal(call[r]) = "none"
  /\ WriteBookingAndCharge(r, call[r])
  /\ Answer(r, "error", Nil)
  /\ Goto(r, "done")
  /\ UNCHANGED <<notificationJobs, keys, version, gate, redis>>

\* ... where a denial is logged, before it is thrown ...
LostDenial(r) ==
  /\ Breaks(r)
  /\ At(r, "confirmTx")
  /\ SlotUnlocked(r)
  /\ WriteRefusal(call[r]) = "none" /\ Verdict(call[r]) # "ALLOW"
  /\ decisions' = decisions \cup {<<r, "AUTHORIZE", "DENY">>}
  /\ Answer(r, "error", Nil)
  /\ Goto(r, IF Keyed(r) THEN "dropKey" ELSE "done")
  /\ UNCHANGED <<ledger, keys, version, mandates, redis>>

\* ... where the announcement is the last await ...
LostPublish(r) ==
  /\ Breaks(r)
  /\ At(r, "publish")
  /\ ~ Keyed(r)
  /\ published' = published \cup {r}
  /\ Answer(r, "error", Nil)
  /\ Goto(r, "done")
  /\ UNCHANGED <<ledger, keys, version, gate, holds, holdMeta>>

\* ... and where the outcome is stored: the catch goes on to delete the row of a
\* success, which others may have replayed meanwhile; a stored failure stays.
LostStore(r) ==
  /\ Breaks(r)
  /\ At(r, "storeOutcome")
  /\ keys' = [keys EXCEPT ![KeyOf(call[r])] =
                IF @ = Nil THEN Nil ELSE [@ EXCEPT !.outcome = Stored(reply[r])]]
  /\ Answer(r, "error", Nil)
  /\ Goto(r, IF InTry(r) THEN "dropKey" ELSE "done")
  /\ UNCHANGED <<ledger, version, gate, redis>>

AnswerLost(r) ==
  LostClaim(r) \/ LostCommit(r) \/ LostDenial(r) \/ LostPublish(r) \/ LostStore(r)

\* The process that runs r dies; what it has not committed rolls back.
Crash(r) ==
  /\ Breaks(r)
  /\ Goto(r, "crashed")
  /\ UNCHANGED <<ledger, keys, version, gate, redis, reply>>

-------------------------------------------------------------------------------
(* The specification *)

Init ==
  /\ reservations = [r \in Requests |-> Nil]
  /\ payments = [r \in Requests |-> Nil]
  /\ balance = InitialBalance
  /\ webhookJobs = {}
  /\ notificationJobs = {}
  /\ keys = [k \in Users \X Keys |-> Nil]
  /\ version = [s \in Slots |-> 0]
  /\ slotLock = [s \in Slots |-> Nil]
  /\ mandates = InitialMandates
  /\ decisions = {}
  /\ holds = [seat \in Tables \X Slots |-> Nil]
  /\ holdMeta = {}
  /\ published = {}
  /\ pc = [r \in Requests |-> "idle"]
  /\ call = [r \in Requests |-> Nil]
  /\ reply = [r \in Requests |-> Unanswered]
  /\ seenVersion = [r \in Requests |-> 0]
  /\ attempt = [r \in Requests |-> 0]
  /\ now = 0
  /\ faults = 0

BookStep(r) ==
  \/ BookChecks(r) \/ BookInTransaction(r)
  \/ LockSlot(r) \/ LockedTransaction(r)
  \/ ReadVersion(r) \/ ReadExisting(r) \/ SwapWon(r) \/ SwapLost(r)

HoldStep(r) ==
  \/ HoldChecks(r) \/ HoldWindow(r)
  \/ AcquireHold(r) \/ WriteMeta(r) \/ ReuseTooLate(r)

ConfirmStep(r) ==
  \/ ClaimKey(r) \/ LookupKey(r)
  \/ ConfirmChecks(r) \/ ConsumeHold(r) \/ ConfirmWrite(r) \/ ConfirmRollback(r)
  \/ StoreOutcome(r) \/ DropKey(r)

CancelStep(r) == CancelChecks(r) \/ CancelTransaction(r)

\* The next step of r's handler.
Handle(r) == BookStep(r) \/ HoldStep(r) \/ ConfirmStep(r) \/ CancelStep(r) \/ Publish(r)

Environment ==
  \/ \E t \in Tables, s \in Slots : ExpireHold(t, s)
  \/ \E h \in Requests : ExpireMeta(h)
  \/ Tick

\* Nothing is in flight: the system rests.
Rest ==
  /\ \A r \in Requests : pc[r] \in Ended \cup {"idle"}
  /\ UNCHANGED vars

Next ==
  \/ \E r \in Requests : \/ \E c \in Calls : Arrive(r, c)
                         \/ Handle(r) \/ Fault(r) \/ AnswerLost(r) \/ Crash(r)
  \/ Environment
  \/ Rest

Spec == Init /\ [][Next]_vars

\* A handler the event loop has started runs on: each of its awaits returns.
Fairness == \A r \in Requests : WF_vars(Handle(r))

FairSpec == Spec /\ Fairness

-------------------------------------------------------------------------------
(* Properties *)

\* A seat (table and slot) never has two live reservations, whichever of the four
\* write paths their requests took and however those interleaved.
NoDoubleBooking ==
  \A o1, o2 \in Requests :
    /\ Booked(o1) /\ Booked(o2)
    /\ reservations[o1].table = reservations[o2].table
    /\ reservations[o1].slot = reservations[o2].slot
    => o1 = o2

\* One hold pays for one reservation: duplicated, retried and raced confirms of
\* the same hold, with or without a key, write at most one between them.
HoldBooksOnce ==
  \A o1, o2 \in Requests :
    /\ reservations[o1] # Nil /\ call[o1].op = "confirm"
    /\ reservations[o2] # Nil /\ call[o2].op = "confirm"
    /\ call[o1].hold = call[o2].hold
    => o1 = o2

\* The outbox says what the ledger says: a reservation has exactly one created
\* event, a cancelled event exactly when it is cancelled, and a notification
\* exactly when a confirm made it.
OutboxMatchesLedger ==
  \A o \in Requests :
    /\ <<o, "created">> \in webhookJobs <=> reservations[o] # Nil
    /\ <<o, "cancelled">> \in webhookJobs
         <=> reservations[o] # Nil /\ ~ Booked(o)
    /\ o \in notificationJobs
         <=> reservations[o] # Nil /\ call[o].op = "confirm"
    /\ payments[o] # Nil <=> reservations[o] # Nil

\* What a key stores as a success is the reservation of the hold the key was first
\* used for, by the key's user, at its price.
StoredSuccessIsReal ==
  \A k \in Users \X Keys :
    LET row == keys[k] IN
    row # Nil /\ row.outcome # Nil /\ row.outcome.status = "created" =>
      LET o == row.outcome.id IN
      /\ reservations[o] # Nil
      /\ reservations[o].user = k[1]
      /\ row.requestHash = <<reservations[o].table, reservations[o].slot, call[o].hold>>
      /\ payments[o] = SlotPrice[reservations[o].slot]

\* The requests that act under a key: they claimed it and have not settled it.
Executing(r) ==
  /\ pc[r] \in {"confirm", "consume", "confirmTx", "publish", "storeOutcome", "dropKey"}
  /\ Keyed(r)

\* A key lets one request at a time through to the hold and the wallet, also when
\* the row is dropped and claimed again and when its owner dies.
KeyExecutesOnce ==
  \A r1, r2 \in Requests :
    Executing(r1) /\ Executing(r2) /\ KeyOf(call[r1]) = KeyOf(call[r2]) => r1 = r2

\* What a keyed confirm was answered, a booking or a refusal, its key still holds, so
\* every later retry hears the same.  The one answer that is taken back is a booking
\* replayed to a retry after the request that made it stored it and before it heard so:
\* that request fails, and drops the key.
AnswersAreKept ==
  \A r \in Requests :
    /\ At(r, "done")
    /\ Keyed(r)
    /\ reply[r].status \notin {"error", "inProgress", "keyMismatch"}
    => LET row == keys[KeyOf(call[r])]
           o == reply[r].id IN
       \/ row # Nil /\ row.outcome = Stored(reply[r])
       \/ /\ reply[r].status = "created" /\ o # r
          /\ Keyed(o) /\ KeyOf(call[o]) = KeyOf(call[r]) /\ HashOf(call[o]) = HashOf(call[r])
          /\ reservations[o] # Nil /\ reply[o].status = "error"

\* Behind SELECT ... FOR UPDATE the seat that was found free stays free until the
\* insert: the pessimistic path never leans on the unique index.
LockedSeatStaysFree ==
  \A r \in Requests :
    At(r, "lockedTx") => ~ Taken(call[r].table, call[r].slot)

\* A confirm that was refused or denied leaves no reservation, no payment, no
\* notification and no ALLOW in the decision log; its denial is logged although the
\* transaction that found it rolled back.
RefusedConfirmLeavesNothing ==
  \A r \in Requests :
    /\ At(r, "done") \/ At(r, "storeOutcome")
    /\ call[r].op = "confirm"
    /\ reply[r].status \in {"paymentRequired", "denied", "taken", "gone",
                             "windowConflict", "forbidden"}
    => /\ reservations[r] = Nil /\ payments[r] = Nil
       /\ r \notin notificationJobs
       /\ \A step \in {"AUTHORIZE", "CONFIRM"} : <<r, step, "ALLOW">> \notin decisions
       /\ reply[r].status = "denied" => <<r, "AUTHORIZE", "DENY">> \in decisions

\* The bookings a mandate has paid for.
BookedUnder(m) ==
  {o \in Requests : /\ reservations[o] # Nil /\ call[o].op = "confirm"
                    /\ call[o].mandate = m}

\* A mandate's counter is the number of bookings made under it, and every one of
\* them is in the decision log as authorized and confirmed: authority is spent
\* with a booking or not at all.
MandateSpentOnBookings ==
  \A m \in Mandates :
    /\ mandates[m].consumedBookings =
         InitialMandates[m].consumedBookings + Cardinality(BookedUnder(m))
    /\ \A o \in BookedUnder(m) :
         {<<o, "AUTHORIZE", "ALLOW">>, <<o, "CONFIRM", "ALLOW">>} \subseteq decisions

\* No interleaving of confirms takes a mandate over its ceilings.
MandateCeilingsHold ==
  \A m \in Mandates : WithinCeilings(InitialMandates[m]) => WithinCeilings(mandates[m])

\* A wallet moves only with a booking: down by the price of the one reservation
\* the same step books, up by the payment of the one it cancels, and a
\* reservation is booked once and cancelled once.
LedgerStep(o) ==
  LET u == (IF reservations[o] = Nil THEN reservations'[o] ELSE reservations[o]).user IN
  \/ /\ reservations[o] = Nil /\ reservations'[o] # Nil
     /\ reservations'[o].status = "booked"
     /\ payments'[o] = SlotPrice[reservations'[o].slot]
     /\ balance' = [balance EXCEPT ![u] = @ - payments'[o]]
  \/ /\ Booked(o) /\ reservations'[o] = [reservations[o] EXCEPT !.status = "cancelled"]
     /\ payments'[o] = payments[o]
     /\ balance' = [balance EXCEPT ![u] = @ + payments[o]]

WalletMovesWithBookings ==
  [][balance' # balance \/ reservations' # reservations \/ payments' # payments =>
       \E o \in Requests :
         /\ LedgerStep(o)
         /\ \A q \in Requests \ {o} : /\ reservations'[q] = reservations[q]
                                      /\ payments'[q] = payments[q]]_vars

\* A request that reached its handler is answered, unless its process died.
EveryRequestAnswered ==
  \A r \in Requests : pc[r] \in Steps ~> pc[r] \in Ended

-------------------------------------------------------------------------------
(* Why they hold: the parts of the inductive invariant *)

BookSteps ==
  {"book", "bookTx", "lockSlot", "lockedTx", "readVersion", "readExisting", "cas"}
HoldSteps == {"hold", "holdWindow", "acquire", "writeMeta"}
KeySteps == {"claim", "lookup", "storeOutcome", "dropKey"}
ConfirmSteps == KeySteps \cup {"confirm", "consume", "confirmTx"}
CancelSteps == {"cancel", "cancelTx"}

\* The steps before the one that inserts the request's reservation.
BeforeWrite ==
  {"idle"} \cup BookSteps \cup {"claim", "confirm", "consume", "confirmTx"}

\* A request is where a call of its kind may be, has written no reservation before
\* its write, and cancels only a row it has seen to be its user's.
StepFitsCall(r) ==
  /\ pc[r] # "idle" => call[r] \in Call
  /\ pc[r] \in BookSteps => call[r].op = "book"
  /\ pc[r] \in HoldSteps => call[r].op = "hold"
  /\ pc[r] \in ConfirmSteps => call[r].op = "confirm"
  /\ pc[r] \in CancelSteps => call[r].op = "cancel"
  /\ pc[r] \in KeySteps => call[r].key # Nil
  /\ pc[r] = "writeMeta" => reply[r].id \in Requests
  /\ pc[r] \in BeforeWrite => reservations[r] = Nil
  /\ pc[r] = "cancelTx" =>
       LET o == call[r].reservation IN
       reservations[o] # Nil /\ reservations[o].user = call[r].user

RequestsFit == \A r \in Requests : StepFitsCall(r)
================================================================================
