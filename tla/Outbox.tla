-------------------------------- MODULE Outbox --------------------------------
(***************************************************************************)
(* The two outbox consumers: OutboxWorkerService (customer notifications)  *)
(* and WebhookWorkerService (partner webhooks), each running on every API  *)
(* and worker instance.  A tick is one transaction: it claims a batch of   *)
(* due jobs FOR UPDATE SKIP LOCKED, attempts each, writes its outcome and  *)
(* commits.  What the tick did outside Postgres, a webhook that was        *)
(* POSTed, stays when the transaction does not.                            *)
(*                                                                         *)
(* The producer is the ledger of Reservations: a booking commits with its  *)
(* jobs, a cancellation with its own (OutboxMatchesLedger there).          *)
(***************************************************************************)
EXTENDS Integers, SequencesExt

CONSTANTS
  Reservations,
  Notifiers, Posters,   \* the running ticks of the two workers
  Urls,
  Nil,
  BatchSize,            \* OUTBOX_BATCH_SIZE, WEBHOOK_OUTBOX_BATCH_SIZE
  MaxAttempts,          \* OUTBOX_MAX_ATTEMPTS, WEBHOOK_OUTBOX_MAX_ATTEMPTS
  MaxAborts             \* bound: ticks whose transaction does not commit

Workers == Notifiers \cup Posters

ASSUME OutboxAssumption ==
  /\ Notifiers \cap Posters = {}
  /\ Nil \notin Urls
  /\ BatchSize \in Nat \ {0} /\ MaxAttempts \in Nat \ {0} /\ MaxAborts \in Nat

VARIABLES
  booking,         \* each reservation's status
  queue,           \* the jobs, in the order of createdAt
  job,             \* their rows
  inbox,           \* notifications: what customers see
  endpoint,        \* webhook_endpoints.url of the cafe, or Nil
  received,        \* how often the partner got each event
  tick,            \* each worker's open transaction
  aborts

vars == <<booking, queue, job, inbox, endpoint, received, tick, aborts>>

Kinds == {"notify", "created", "cancelled"}
Jobs == Kinds \X Reservations
Events == {"created", "cancelled"} \X Reservations

\* due stands for availableAt <= now(); undelivered for the lastError of a job that
\* was done without an endpoint.
JobRow ==
  [status: {"pending", "done", "dead"}, attempts: 0..MaxAttempts, due: BOOLEAN,
   undelivered: BOOLEAN]

\* NULL is no row.
ASSUME NilAssumption == Nil \notin JobRow

\* An open transaction: the jobs still to attempt and the rows written so far.
NoTick == [batch |-> <<>>, written |-> <<>>]

TypeOK ==
  /\ booking \in [Reservations -> {"none", "booked", "cancelled"}]
  /\ job \in [Jobs -> JobRow \cup {Nil}]
  /\ \A j \in Jobs : job[j] # Nil <=> j \in ToSet(queue)
  /\ inbox \subseteq Reservations
  /\ endpoint \in Urls \cup {Nil}
  /\ received \in [Events -> Nat]
  /\ \A w \in Workers : /\ ToSet(tick[w].batch) \subseteq Jobs
                        /\ \A j \in DOMAIN tick[w].written : tick[w].written[j] \in JobRow
  /\ aborts \in 0..MaxAborts

-------------------------------------------------------------------------------
(* The ledger enqueues *)

NewJob == [status |-> "pending", attempts |-> 0, due |-> TRUE, undelivered |-> FALSE]

Enqueue(js) ==
  /\ queue' = queue \o js
  /\ job' = [j \in Jobs |-> IF j \in ToSet(js) THEN NewJob ELSE job[j]]
  /\ UNCHANGED <<inbox, endpoint, received, tick, aborts>>

\* A direct booking has a created event, a confirmed one a notification too.
Book(o) ==
  /\ booking[o] = "none"
  /\ booking' = [booking EXCEPT ![o] = "booked"]
  /\ \E js \in {<< <<"created", o>> >>, << <<"created", o>>, <<"notify", o>> >>} :
       Enqueue(js)

Cancel(o) ==
  /\ booking[o] = "booked"
  /\ booking' = [booking EXCEPT ![o] = "cancelled"]
  /\ Enqueue(<< <<"cancelled", o>> >>)

-------------------------------------------------------------------------------
(* processOnce *)

Kind(w) == IF w \in Notifiers THEN {"notify"} ELSE {"created", "cancelled"}

\* Mutant: FOR UPDATE SKIP LOCKED is left out.
NothingLocked == {}

\* The rows some open transaction has FOR UPDATE.
Locked ==
  UNION {ToSet(tick[w].batch) \cup DOMAIN tick[w].written : w \in Workers}

\* The places in the queue of the jobs a tick of w may claim: due, and no other's.
Claimable(w) ==
  {i \in DOMAIN queue : /\ queue[i][1] \in Kind(w)
                        /\ job[queue[i]].status = "pending" /\ job[queue[i]].due
                        /\ queue[i] \notin Locked}

\* It claims the oldest of them, as many as a batch holds.
Claim(w) ==
  /\ tick[w] = NoTick
  /\ \E n \in 1..BatchSize : \E place \in [1..n -> Claimable(w)] :
       /\ \A i, k \in 1..n : i < k => place[i] < place[k]
       /\ \A i \in Claimable(w) \ {place[k] : k \in 1..n} : n = BatchSize /\ place[n] < i
       /\ tick' = [tick EXCEPT ![w].batch = [i \in 1..n |-> queue[place[i]]]]
  /\ UNCHANGED <<booking, queue, job, inbox, endpoint, received, aborts>>

\* The outcome of the job at hand goes into the transaction.
Write(w, row) ==
  LET j == Head(tick[w].batch) IN
  tick' = [tick EXCEPT ![w] =
    [batch |-> Tail(@.batch),
     written |-> [i \in DOMAIN @.written \cup {j} |->
                    IF i = j THEN row ELSE @.written[i]]]]

Done(row) == [row EXCEPT !.status = "done", !.undelivered = FALSE]

\* Mutant: one attempt too many.
FailedOnceMore(row) ==
  [row EXCEPT !.attempts = @ + 1,
              !.due = FALSE,
              !.status = IF row.attempts + 1 > MaxAttempts THEN "dead" ELSE "pending"]

\* Mutant: the attempt is not counted.
FailedUncounted(row) == [row EXCEPT !.due = FALSE]

\* The catch: one attempt more, back off, give up at the last.
Failed(row) ==
  [row EXCEPT !.attempts = @ + 1,
              !.due = FALSE,
              !.status = IF row.attempts + 1 >= MaxAttempts THEN "dead" ELSE "pending"]

\* The notification is inserted (or already there) in the worker's transaction, or
\* the channel fails.
Notify(w) ==
  /\ w \in Notifiers
  /\ tick[w].batch # <<>>
  /\ LET row == job[Head(tick[w].batch)] IN Write(w, Done(row)) \/ Write(w, Failed(row))
  /\ UNCHANGED <<booking, queue, job, inbox, endpoint, received, aborts>>

\* No endpoint: nowhere to send it, done.
SkipPost(w) ==
  /\ w \in Posters
  /\ tick[w].batch # <<>>
  /\ endpoint = Nil
  /\ Write(w, [Done(job[Head(tick[w].batch)]) EXCEPT !.undelivered = TRUE])
  /\ UNCHANGED <<booking, queue, job, inbox, endpoint, received, aborts>>

\* Mutant: the answer's status is not looked at.
PostUnchecked(w) ==
  LET j == Head(tick[w].batch) IN
  /\ w \in Posters
  /\ tick[w].batch # <<>>
  /\ endpoint # Nil
  /\ \E got \in BOOLEAN :
       /\ received' = IF got THEN [received EXCEPT ![j] = @ + 1] ELSE received
       /\ Write(w, Done(job[j]))
  /\ UNCHANGED <<booking, queue, job, inbox, endpoint, aborts>>

\* deliver POSTs: a 2xx, which the partner has processed, or a failure, when it may
\* have processed the event all the same.
Post(w) ==
  LET j == Head(tick[w].batch) IN
  /\ w \in Posters
  /\ tick[w].batch # <<>>
  /\ endpoint # Nil
  /\ \/ /\ received' = [received EXCEPT ![j] = @ + 1]
        /\ Write(w, Done(job[j]))
     \/ /\ received' \in {received, [received EXCEPT ![j] = @ + 1]}
        /\ Write(w, Failed(job[j]))
  /\ UNCHANGED <<booking, queue, job, inbox, endpoint, aborts>>

\* The process dies, or a statement fails and aborts the transaction: the whole
\* batch rolls back, whatever its deliveries did.
Abort(w) ==
  /\ tick[w] # NoTick
  /\ aborts < MaxAborts
  /\ aborts' = aborts + 1
  /\ tick' = [tick EXCEPT ![w] = NoTick]
  /\ UNCHANGED <<booking, queue, job, inbox, endpoint, received>>

\* What a commit makes visible of a tick: its rows, and the notifications among them.
Written(w) == tick[w].written

\* Mutant: a batch commits its rows and inserts no notification.
CommitWithoutInsert(w) ==
  /\ tick[w].batch = <<>> /\ tick[w] # NoTick
  /\ job' = [j \in Jobs |-> IF j \in DOMAIN Written(w) THEN Written(w)[j] ELSE job[j]]
  /\ tick' = [tick EXCEPT ![w] = NoTick]
  /\ UNCHANGED <<booking, queue, inbox, endpoint, received, aborts>>

Commit(w) ==
  /\ tick[w].batch = <<>> /\ tick[w] # NoTick
  /\ job' = [j \in Jobs |-> IF j \in DOMAIN Written(w) THEN Written(w)[j] ELSE job[j]]
  /\ inbox' = inbox \cup {o \in Reservations :
                            /\ <<"notify", o>> \in DOMAIN Written(w)
                            /\ Written(w)[<<"notify", o>>].status = "done"}
  /\ tick' = [tick EXCEPT ![w] = NoTick]
  /\ UNCHANGED <<booking, queue, endpoint, received, aborts>>

\* The back-off of a failed job passes.
Due(j) ==
  /\ job[j] # Nil /\ job[j].status = "pending" /\ ~ job[j].due
  /\ j \notin Locked
  /\ job' = [job EXCEPT ![j].due = TRUE]
  /\ UNCHANGED <<booking, queue, inbox, endpoint, received, tick, aborts>>

-------------------------------------------------------------------------------
(* registerWebhookEndpoint: the cafe's row is saved with the new URL *)

Register(u) ==
  /\ endpoint' = u
  /\ UNCHANGED <<booking, queue, job, inbox, received, tick, aborts>>

-------------------------------------------------------------------------------
(* The specification *)

Init ==
  /\ booking = [o \in Reservations |-> "none"]
  /\ queue = <<>>
  /\ job = [j \in Jobs |-> Nil]
  /\ inbox = {}
  /\ endpoint = Nil
  /\ received = [e \in Events |-> 0]
  /\ tick = [w \in Workers |-> NoTick]
  /\ aborts = 0

Work(w) == Claim(w) \/ Notify(w) \/ SkipPost(w) \/ Post(w) \/ Commit(w)

Next ==
  \/ \E o \in Reservations : Book(o) \/ Cancel(o)
  \/ \E w \in Workers : Work(w) \/ Abort(w)
  \/ \E j \in Jobs : Due(j)
  \/ \E u \in Urls : Register(u)

Spec == Init /\ [][Next]_vars

\* setInterval starts a tick again and again, its awaits return, time passes.
Fairness ==
  /\ \A w \in Workers : WF_vars(Work(w))
  /\ WF_vars(\E j \in Jobs : Due(j))

FairSpec == Spec /\ Fairness

-------------------------------------------------------------------------------
(* Properties *)

\* A customer sees a notification exactly when its job is done: a batch that rolls
\* back after delivering leaves neither, and a job that is given up has shown nothing.
NotifiedExactlyWhenDone ==
  \A o \in Reservations :
    o \in inbox <=> job[<<"notify", o>>] # Nil /\ job[<<"notify", o>>].status = "done"

\* Duplicates have causes: beyond its one good answer, a partner gets an event again
\* only for an attempt that was recorded as failed, or a batch that rolled back.  Two
\* workers and overlapping ticks never send one job twice.
DuplicatesHaveCauses ==
  \A e \in Events :
    received[e] <= aborts + (IF job[e] = Nil THEN 0 ELSE job[e].attempts)
                   + (IF \/ job[e] # Nil /\ job[e].status = "done"
                         \/ e \in Locked
                      THEN 1 ELSE 0)

\* An event that is done without remark has reached the partner.
DoneMeansDelivered ==
  \A e \in Events :
    job[e] # Nil /\ job[e].status = "done" /\ ~ job[e].undelivered => received[e] > 0

\* No job is stuck: it ends as done or in the dead letters, past failing deliveries,
\* workers that die with it in hand, and the jobs ahead of it.
EveryJobIsResolved ==
  \A j \in Jobs :
    job[j] # Nil ~> job[j] # Nil /\ job[j].status \in {"done", "dead"}
================================================================================
