----------------------------- MODULE OutboxProofs -----------------------------
(***************************************************************************)
(* What is proved of the outbox consumers, for any number of workers, of   *)
(* reservations and of attempts, and any batch size: what a customer sees  *)
(* is what the jobs say, a partner's duplicates have causes, and a done    *)
(* event has been received.                                                *)
(***************************************************************************)
EXTENDS Outbox, TLAPS

(* The invariant *)

\* What an open transaction has claimed.
Held(w) == ToSet(tick[w].batch) \cup DOMAIN tick[w].written

Rows == UNION {[D -> JobRow] : D \in SUBSET Jobs}
TickType == [batch : Seq(Jobs), written : Rows]

QueueFits ==
  /\ queue \in Seq(Jobs)
  /\ \A i, k \in DOMAIN queue : queue[i] = queue[k] => i = k

\* The ledger enqueues a job once: before its booking or cancellation it has no row.
LedgerFits ==
  \A o \in Reservations :
    /\ booking[o] = "none" => job[<<"created", o>>] = Nil /\ job[<<"notify", o>>] = Nil
    /\ booking[o] # "cancelled" => job[<<"cancelled", o>>] = Nil

\* A pending job has attempts left, and nothing is known of its delivery.
PendingFits ==
  \A j \in Jobs : job[j] # Nil /\ job[j].status = "pending" =>
    job[j].attempts < MaxAttempts /\ ~ job[j].undelivered

\* A claimed job is of the worker's kind, pending and due for as long as it is held.
ClaimsFit ==
  \A w \in Workers : \A j \in Held(w) :
    j[1] \in Kind(w) /\ job[j] # Nil /\ job[j].status = "pending" /\ job[j].due

\* A batch has no job twice, and none it has already attempted.
BatchFits ==
  \A w \in Workers :
    /\ \A i, k \in DOMAIN tick[w].batch : tick[w].batch[i] = tick[w].batch[k] => i = k
    /\ \A i \in DOMAIN tick[w].batch : tick[w].batch[i] \notin DOMAIN tick[w].written

\* Two open transactions share no job.
ClaimsApart ==
  \A v, w \in Workers : v # w => Held(v) \cap Held(w) = {}

\* A row to commit is the outcome of one attempt.
Skipped(row) == [Done(row) EXCEPT !.undelivered = TRUE]
Outcomes(w, j) ==
  {Done(job[j]), Failed(job[j])} \cup (IF w \in Posters THEN {Skipped(job[j])} ELSE {})
RowsFit ==
  \A w \in Workers : \A j \in DOMAIN tick[w].written :
    tick[w].written[j] \in Outcomes(w, j)

\* How often a row lets its event be received, beside the batches that rolled back.
Share(row) ==
  IF row = Nil THEN 0 ELSE row.attempts + (IF row.status = "done" THEN 1 ELSE 0)

\* A row that is done without remark has been received.
Told(times, row) == row # Nil /\ row.status = "done" /\ ~ row.undelivered => times > 0

ReceivedFits ==
  /\ \A e \in Events : e \notin UNION {DOMAIN tick[w].written : w \in Workers} =>
       received[e] <= aborts + Share(job[e])
  /\ \A w \in Workers : \A e \in DOMAIN tick[w].written : e \in Events =>
       /\ received[e] <= aborts + Share(tick[w].written[e])
       /\ Told(received[e], tick[w].written[e])
  /\ \A e \in Events : Told(received[e], job[e])

TicksFit == tick \in [Workers -> TickType]

OInv ==
  /\ TypeOK /\ TicksFit /\ QueueFits /\ LedgerFits /\ PendingFits
  /\ ClaimsFit /\ BatchFits /\ ClaimsApart /\ RowsFit
  /\ ReceivedFits /\ NotifiedExactlyWhenDone

-------------------------------------------------------------------------------
(* Sequences and rows *)

\* The members of a sequence of jobs, taken apart and put together.
LEMMA HeadAndTail ==
  ASSUME NEW s \in Seq(Jobs), s # <<>>,
         \A i, k \in DOMAIN s : s[i] = s[k] => i = k
  PROVE  /\ Head(s) \in Jobs /\ Head(s) \in ToSet(s)
         /\ Tail(s) \in Seq(Jobs)
         /\ ToSet(Tail(s)) = ToSet(s) \ {Head(s)}
         /\ \A i, k \in DOMAIN Tail(s) : Tail(s)[i] = Tail(s)[k] => i = k
<1>1. Len(s) \in Nat \ {0} /\ DOMAIN s = 1..Len(s) /\ Head(s) = s[1]
  OBVIOUS
<1>2. /\ Tail(s) \in Seq(Jobs) /\ DOMAIN Tail(s) = 1..(Len(s) - 1)
      /\ \A i \in 1..(Len(s) - 1) : Tail(s)[i] = s[i + 1]
  BY <1>1
<1>3. \A i \in 2..Len(s) : i - 1 \in 1..(Len(s) - 1) /\ Tail(s)[i - 1] = s[i]
  BY <1>1, <1>2
<1>4. \A i \in DOMAIN Tail(s) : i + 1 \in 2..Len(s) /\ i + 1 \in DOMAIN s /\ i + 1 # 1
  BY <1>1, <1>2
<1>5. ToSet(Tail(s)) \subseteq ToSet(s) \ {Head(s)}
  BY <1>1, <1>2, <1>4 DEF ToSet
<1>6. ToSet(s) \ {Head(s)} \subseteq ToSet(Tail(s))
  <2>. SUFFICES ASSUME NEW i \in DOMAIN s, s[i] # s[1] PROVE s[i] \in ToSet(Tail(s))
    BY <1>1 DEF ToSet
  <2>1. i \in 2..Len(s)
    BY <1>1
  <2>2. i - 1 \in DOMAIN Tail(s) /\ Tail(s)[i - 1] = s[i]
    BY <1>2, <1>3, <2>1
  <2>. QED
    BY <2>2 DEF ToSet
<1>7. \A i, k \in DOMAIN Tail(s) : Tail(s)[i] = Tail(s)[k] => i = k
  BY <1>1, <1>2, <1>4
<1>8. Head(s) \in Jobs /\ Head(s) \in ToSet(s)
  <2>1. 1 \in DOMAIN s
    BY <1>1
  <2>. QED
    BY <1>1, <2>1 DEF ToSet
<1>. QED
  BY <1>2, <1>5, <1>6, <1>7, <1>8

LEMMA Appended ==
  ASSUME NEW s \in Seq(Jobs), NEW t \in Seq(Jobs),
         \A i, k \in DOMAIN s : s[i] = s[k] => i = k,
         \A i, k \in DOMAIN t : t[i] = t[k] => i = k,
         ToSet(s) \cap ToSet(t) = {}
  PROVE  /\ s \o t \in Seq(Jobs)
         /\ ToSet(s \o t) = ToSet(s) \cup ToSet(t)
         /\ \A i, k \in DOMAIN (s \o t) : (s \o t)[i] = (s \o t)[k] => i = k
<1>1. /\ s \o t \in Seq(Jobs) /\ DOMAIN (s \o t) = 1..(Len(s) + Len(t))
      /\ DOMAIN s = 1..Len(s) /\ DOMAIN t = 1..Len(t) /\ Len(s) \in Nat /\ Len(t) \in Nat
  OBVIOUS
<1>2. \A i \in 1..(Len(s) + Len(t)) :
        (s \o t)[i] = IF i <= Len(s) THEN s[i] ELSE t[i - Len(s)]
  OBVIOUS
<1>3. \A i \in DOMAIN (s \o t) :
        \/ i \in DOMAIN s /\ (s \o t)[i] = s[i] /\ s[i] \in ToSet(s)
        \/ /\ i - Len(s) \in DOMAIN t /\ (s \o t)[i] = t[i - Len(s)]
           /\ t[i - Len(s)] \in ToSet(t)
  BY <1>1, <1>2 DEF ToSet
<1>4. \A i \in DOMAIN s : i \in DOMAIN (s \o t) /\ (s \o t)[i] = s[i]
  BY <1>1, <1>2
<1>5. \A i \in DOMAIN t : Len(s) + i \in DOMAIN (s \o t) /\ (s \o t)[Len(s) + i] = t[i]
  BY <1>1, <1>2
<1>6. ToSet(s \o t) = ToSet(s) \cup ToSet(t)
  <2>1. ToSet(s \o t) \subseteq ToSet(s) \cup ToSet(t)
    BY <1>3 DEF ToSet
  <2>2. ToSet(s) \subseteq ToSet(s \o t)
    BY <1>4 DEF ToSet
  <2>3. ToSet(t) \subseteq ToSet(s \o t)
    <3>. SUFFICES ASSUME NEW i \in DOMAIN t PROVE t[i] \in ToSet(s \o t)
      BY DEF ToSet
    <3>1. PICK k \in DOMAIN (s \o t) : (s \o t)[k] = t[i]
      BY <1>5
    <3>. QED
      BY <3>1 DEF ToSet
  <2>. QED
    BY <2>1, <2>2, <2>3
<1>7. ASSUME NEW i \in DOMAIN (s \o t), NEW k \in DOMAIN (s \o t),
             (s \o t)[i] = (s \o t)[k]
      PROVE  i = k
  BY <1>1, <1>3, <1>7
<1>. QED
  BY <1>1, <1>6, <1>7

\* The three outcomes of an attempt at a pending job with attempts left are rows, and
\* what they record of it.
LEMMA AnOutcome ==
  ASSUME NEW row \in JobRow, row.attempts < MaxAttempts
  PROVE  /\ Done(row) \in JobRow /\ Done(row).status = "done"
         /\ Done(row).attempts = row.attempts /\ ~ Done(row).undelivered
         /\ Failed(row) \in JobRow /\ Failed(row).status \in {"pending", "dead"}
         /\ Failed(row).attempts = row.attempts + 1
         /\ Failed(row).undelivered = row.undelivered
         /\ Failed(row).status = "pending" => row.attempts + 1 < MaxAttempts
         /\ Skipped(row) \in JobRow /\ Skipped(row).status = "done"
         /\ Skipped(row).attempts = row.attempts /\ Skipped(row).undelivered
<1>1. row.attempts \in 0..MaxAttempts /\ MaxAttempts \in Nat
  BY OutboxAssumption DEF JobRow
<1>2. row.attempts + 1 \in 0..MaxAttempts
  BY <1>1
<1>3. /\ Done(row) \in JobRow /\ Done(row).status = "done"
      /\ Done(row).attempts = row.attempts /\ ~ Done(row).undelivered
  BY DEF Done, JobRow
<1>4. /\ Failed(row) \in JobRow /\ Failed(row).status \in {"pending", "dead"}
      /\ Failed(row).attempts = row.attempts + 1
      /\ Failed(row).undelivered = row.undelivered
  BY <1>2 DEF Failed, JobRow
<1>5. Failed(row).status = "pending" => row.attempts + 1 < MaxAttempts
  BY <1>1 DEF Failed, JobRow
<1>6. /\ Skipped(row) \in JobRow /\ Skipped(row).status = "done"
      /\ Skipped(row).attempts = row.attempts /\ Skipped(row).undelivered
  BY <1>3 DEF Skipped, JobRow
<1>. QED
  BY <1>3, <1>4, <1>5, <1>6

LEMMA SharesAreCounts ==
  ASSUME NEW row \in JobRow \cup {Nil}
  PROVE  Share(row) \in Nat
BY OutboxAssumption DEF Share, JobRow

LEMMA RowsAreFunctions ==
  ASSUME NEW f \in Rows
  PROVE  f = [j \in DOMAIN f |-> f[j]] /\ DOMAIN f \subseteq Jobs /\ \A j \in DOMAIN f : f[j] \in JobRow
BY DEF Rows

-------------------------------------------------------------------------------
(* A tick attempts a job *)

\* The job at hand: claimed, so pending, and nobody has touched it.
LEMMA AtHand ==
  ASSUME OInv, NEW w \in Workers, tick[w].batch # <<>>
  PROVE  LET j == Head(tick[w].batch)
             b == Tail(tick[w].batch) IN
         /\ j \in Jobs /\ j[1] \in Kind(w) /\ j \in ToSet(tick[w].batch)
         /\ job[j] \in JobRow /\ job[j].status = "pending"
         /\ job[j].attempts < MaxAttempts /\ ~ job[j].undelivered
         /\ b \in Seq(Jobs) /\ ToSet(b) = ToSet(tick[w].batch) \ {j}
         /\ \A i, k \in DOMAIN b : b[i] = b[k] => i = k
         /\ tick[w].written \in Rows /\ j \notin DOMAIN tick[w].written
<1>. DEFINE s == tick[w].batch
<1>1. tick[w] \in TickType /\ s \in Seq(Jobs) /\ tick[w].written \in Rows
  BY DEF OInv, TicksFit, TickType
<1>2. \A i, k \in DOMAIN s : s[i] = s[k] => i = k
  BY DEF OInv, BatchFits
<1>3. /\ Head(s) \in Jobs /\ Head(s) \in ToSet(s)
      /\ Tail(s) \in Seq(Jobs)
      /\ ToSet(Tail(s)) = ToSet(s) \ {Head(s)}
      /\ \A i, k \in DOMAIN Tail(s) : Tail(s)[i] = Tail(s)[k] => i = k
  BY <1>1, <1>2, HeadAndTail
<1>. HIDE DEF s
<1>4. Head(s) \in Held(w)
  BY <1>3 DEF Held, s
<1>5. /\ Head(s)[1] \in Kind(w) /\ job[Head(s)] # Nil
      /\ job[Head(s)].status = "pending"
  BY <1>4 DEF OInv, ClaimsFit
<1>6. job[Head(s)] \in JobRow
  BY <1>3, <1>5 DEF OInv, TypeOK
<1>7. job[Head(s)].attempts < MaxAttempts /\ ~ job[Head(s)].undelivered
  BY <1>3, <1>5 DEF OInv, PendingFits
<1>8. Head(s) \notin DOMAIN tick[w].written
  BY <1>3 DEF OInv, BatchFits, ToSet, s
<1>. QED
  BY <1>1, <1>3, <1>5, <1>6, <1>7, <1>8 DEF s

\* Writing an outcome moves a job from the batch to the rows of the same transaction.
LEMMA WriteMoves ==
  ASSUME OInv, NEW w \in Workers, tick[w].batch # <<>>,
         NEW row \in JobRow, Write(w, row)
  PROVE  LET j == Head(tick[w].batch) IN
         /\ TicksFit'
         /\ \A v \in Workers \ {w} : tick'[v] = tick[v]
         /\ tick'[w].batch = Tail(tick[w].batch)
         /\ DOMAIN tick'[w].written = DOMAIN tick[w].written \cup {j}
         /\ tick'[w].written[j] = row
         /\ \A i \in DOMAIN tick[w].written : tick'[w].written[i] = tick[w].written[i]
         /\ \A v \in Workers : Held(v)' = Held(v)
<1>. DEFINE j == Head(tick[w].batch)
            old == tick[w].written
            rows == [i \in DOMAIN old \cup {j} |-> IF i = j THEN row ELSE old[i]]
            new == [batch |-> Tail(tick[w].batch), written |-> rows]
<1>1. tick \in [Workers -> TickType]
  BY DEF OInv, TicksFit
<1>2. /\ j \in Jobs /\ j \in ToSet(tick[w].batch) /\ j \notin DOMAIN old
      /\ old \in Rows /\ Tail(tick[w].batch) \in Seq(Jobs)
      /\ ToSet(Tail(tick[w].batch)) = ToSet(tick[w].batch) \ {j}
  BY AtHand
<1>3. DOMAIN old \subseteq Jobs /\ \A i \in DOMAIN old : old[i] \in JobRow
  BY <1>2, RowsAreFunctions
<1>4. tick' = [tick EXCEPT ![w] = new]
  BY DEF Write
<1>. HIDE DEF j, old
<1>5. rows \in [DOMAIN old \cup {j} -> JobRow] /\ DOMAIN old \cup {j} \in SUBSET Jobs
  BY <1>2, <1>3
<1>6. rows \in Rows
  BY <1>5 DEF Rows
<1>7. /\ DOMAIN rows = DOMAIN old \cup {j} /\ rows[j] = row
      /\ \A i \in DOMAIN old : rows[i] = old[i]
  BY <1>2
<1>. HIDE DEF rows
<1>8. new \in TickType
  BY <1>2, <1>6 DEF TickType
<1>9. tick'[w] = new /\ \A v \in Workers \ {w} : tick'[v] = tick[v]
  BY <1>1, <1>4
<1>10. TicksFit'
  BY <1>1, <1>4, <1>8 DEF TicksFit
<1>11. tick'[w].batch = Tail(tick[w].batch) /\ tick'[w].written = rows
  BY <1>9
<1>12. ASSUME NEW v \in Workers PROVE Held(v)' = Held(v)
  <2>1. CASE v = w
    BY <1>2, <1>7, <1>11, <2>1 DEF Held, old
  <2>2. CASE v # w
    BY <1>9, <2>2 DEF Held
  <2>. QED
    BY <2>1, <2>2
<1>. QED
  BY <1>7, <1>9, <1>10, <1>11, <1>12 DEF j, old

\* An attempt at the job at hand: its outcome is written, and its event may have been
\* received once more, as far as the outcome says.
LEMMA AttemptStep ==
  ASSUME OInv, NEW w \in Workers, tick[w].batch # <<>>,
         NEW row \in Outcomes(w, Head(tick[w].batch)), Write(w, row),
         UNCHANGED <<booking, queue, job, inbox, endpoint, aborts>>,
         received' \in [Events -> Nat],
         \A e \in Events : received[e] <= received'[e],
         \A e \in Events \ {Head(tick[w].batch)} : received'[e] = received[e],
         Head(tick[w].batch) \in Events =>
           /\ received'[Head(tick[w].batch)] <= aborts + Share(row)
           /\ Told(received'[Head(tick[w].batch)], row)
  PROVE  OInv'
<1>. DEFINE j == Head(tick[w].batch)
<1>1. /\ j \in Jobs /\ j \in ToSet(tick[w].batch) /\ j \notin DOMAIN tick[w].written
      /\ job[j] \in JobRow /\ job[j].attempts < MaxAttempts
      /\ Tail(tick[w].batch) \in Seq(Jobs)
      /\ ToSet(Tail(tick[w].batch)) = ToSet(tick[w].batch) \ {j}
      /\ \A i, k \in DOMAIN Tail(tick[w].batch) :
           Tail(tick[w].batch)[i] = Tail(tick[w].batch)[k] => i = k
  BY AtHand
<1>2. row \in JobRow
  BY <1>1, AnOutcome DEF Outcomes
<1>3. /\ TicksFit'
      /\ \A v \in Workers \ {w} : tick'[v] = tick[v]
      /\ tick'[w].batch = Tail(tick[w].batch)
      /\ DOMAIN tick'[w].written = DOMAIN tick[w].written \cup {j}
      /\ tick'[w].written[j] = row
      /\ \A i \in DOMAIN tick[w].written : tick'[w].written[i] = tick[w].written[i]
      /\ \A v \in Workers : Held(v)' = Held(v)
  BY <1>2, WriteMoves
<1>. HIDE DEF j
<1>4. TypeOK'
  <2>1. \A v \in Workers : tick'[v] \in TickType
    BY <1>3 DEF TicksFit
  <2>2. ASSUME NEW v \in Workers
        PROVE  /\ ToSet(tick'[v].batch) \subseteq Jobs
               /\ \A i \in DOMAIN tick'[v].written : tick'[v].written[i] \in JobRow
    <3>1. tick'[v].batch \in Seq(Jobs) /\ tick'[v].written \in Rows
      BY <2>1 DEF TickType
    <3>2. ToSet(tick'[v].batch) \subseteq Jobs
      BY <3>1 DEF ToSet
    <3>. QED
      BY <3>1, <3>2, RowsAreFunctions
  <2>. QED
    BY <2>2 DEF OInv, TypeOK
<1>5. QueueFits' /\ LedgerFits' /\ PendingFits' /\ NotifiedExactlyWhenDone'
  BY DEF OInv, QueueFits, LedgerFits, PendingFits, NotifiedExactlyWhenDone
<1>6. ClaimsFit' /\ ClaimsApart'
  BY <1>3 DEF OInv, ClaimsFit, ClaimsApart, Kind
<1>7. BatchFits'
  <2>. SUFFICES ASSUME NEW v \in Workers
                PROVE  /\ \A i, k \in DOMAIN tick'[v].batch :
                            tick'[v].batch[i] = tick'[v].batch[k] => i = k
                       /\ \A i \in DOMAIN tick'[v].batch :
                            tick'[v].batch[i] \notin DOMAIN tick'[v].written
    BY DEF BatchFits
  <2>1. CASE v # w
    BY <1>3, <2>1 DEF OInv, BatchFits
  <2>2. CASE v = w
    <3>1. \A i \in DOMAIN Tail(tick[w].batch) :
            Tail(tick[w].batch)[i] \in ToSet(tick[w].batch) \ {j}
      BY <1>1 DEF ToSet
    <3>2. \A x \in ToSet(tick[w].batch) : x \notin DOMAIN tick[w].written
      BY DEF OInv, BatchFits, ToSet
    <3>3. \A i \in DOMAIN Tail(tick[w].batch) :
            Tail(tick[w].batch)[i] \notin DOMAIN tick[w].written \cup {j}
      BY <3>1, <3>2
    <3>4. /\ tick'[v].batch = Tail(tick[w].batch)
          /\ DOMAIN tick'[v].written = DOMAIN tick[w].written \cup {j}
      BY <1>3, <2>2
    <3>. QED
      BY <1>1, <3>3, <3>4
  <2>. QED
    BY <2>1, <2>2
<1>8. RowsFit'
  <2>. SUFFICES ASSUME NEW v \in Workers, NEW i \in DOMAIN tick'[v].written
                PROVE  tick'[v].written[i] \in Outcomes(v, i)
    BY DEF RowsFit, Outcomes
  <2>1. CASE v # w \/ i # j
    BY <1>3, <2>1 DEF OInv, RowsFit
  <2>2. CASE v = w /\ i = j
    BY <1>3, <2>2 DEF j
  <2>. QED
    BY <2>1, <2>2
<1>9. ReceivedFits'
  <2>1. j \in DOMAIN tick'[w].written
    BY <1>3
  <2>2. ASSUME NEW e \in Events,
               e \notin UNION {DOMAIN tick'[v].written : v \in Workers}
        PROVE  received'[e] <= aborts + Share(job[e])
    <3>1. e # j
      BY <2>1, <2>2
    <3>2. e \notin UNION {DOMAIN tick[v].written : v \in Workers}
      BY <1>3, <2>2
    <3>. QED
      BY <3>1, <3>2 DEF OInv, ReceivedFits, j
  <2>3. ASSUME NEW v \in Workers, NEW e \in DOMAIN tick'[v].written, e \in Events
        PROVE  /\ received'[e] <= aborts + Share(tick'[v].written[e])
               /\ Told(received'[e], tick'[v].written[e])
    <3>1. CASE v = w /\ e = j
      BY <1>3, <2>3, <3>1 DEF j
    <3>2. CASE e # j
      <4>1. e \in DOMAIN tick[v].written /\ tick'[v].written[e] = tick[v].written[e]
        BY <1>3, <3>2
      <4>2. received'[e] = received[e]
        BY <2>3, <3>2 DEF j
      <4>. QED
        BY <2>3, <4>1, <4>2 DEF OInv, ReceivedFits
    <3>3. CASE v # w /\ e = j
      <4>1. e \in Held(v) /\ e \in Held(w)
        BY <1>1, <1>3, <3>3 DEF Held
      <4>. QED
        BY <3>3, <4>1 DEF OInv, ClaimsApart
    <3>. QED
      BY <3>1, <3>2, <3>3
  <2>4. ASSUME NEW e \in Events PROVE Told(received'[e], job[e])
    <3>1. received[e] \in Nat /\ received'[e] \in Nat /\ received[e] <= received'[e]
      BY DEF OInv, TypeOK
    <3>2. Told(received[e], job[e])
      BY DEF OInv, ReceivedFits
    <3>. QED
      BY <3>1, <3>2 DEF Told
  <2>. QED
    BY <2>2, <2>3, <2>4 DEF ReceivedFits
<1>. QED
  BY <1>3, <1>4, <1>5, <1>6, <1>7, <1>8, <1>9 DEF OInv

\* A pending row lets its event be received as often as it was attempted; an outcome
\* lets it be received once more.
LEMMA OutcomeShares ==
  ASSUME NEW row \in JobRow, row.status = "pending", row.attempts < MaxAttempts,
         ~ row.undelivered
  PROVE  /\ Share(row) = row.attempts
         /\ Share(Done(row)) = row.attempts + 1
         /\ Share(Failed(row)) = row.attempts + 1
         /\ Share(Skipped(row)) = row.attempts + 1
         /\ \A n : Told(n, Failed(row)) /\ Told(n, Skipped(row))
<1>1. row.attempts \in Nat
  BY OutboxAssumption DEF JobRow
<1>2. /\ Done(row) \in JobRow /\ Done(row).status = "done"
      /\ Done(row).attempts = row.attempts
      /\ Failed(row) \in JobRow /\ Failed(row).status \in {"pending", "dead"}
      /\ Failed(row).attempts = row.attempts + 1
      /\ Skipped(row) \in JobRow /\ Skipped(row).status = "done"
      /\ Skipped(row).attempts = row.attempts /\ Skipped(row).undelivered
  BY AnOutcome
<1>3. row # Nil /\ Done(row) # Nil /\ Failed(row) # Nil /\ Skipped(row) # Nil
  BY <1>2, NilAssumption
<1>4. Share(row) = row.attempts
  BY <1>1, <1>3 DEF Share
<1>5. Share(Done(row)) = row.attempts + 1 /\ Share(Skipped(row)) = row.attempts + 1
  BY <1>1, <1>2, <1>3 DEF Share
<1>6. Share(Failed(row)) = row.attempts + 1
  BY <1>1, <1>2, <1>3 DEF Share
<1>7. \A n : Told(n, Failed(row)) /\ Told(n, Skipped(row))
  BY <1>2 DEF Told
<1>. QED
  BY <1>1, <1>4, <1>5, <1>6, <1>7

\* Until its attempt, a claimed event was received for its attempts and the roll-backs.
LEMMA UntilTheAttempt ==
  ASSUME OInv, NEW w \in Workers, tick[w].batch # <<>>,
         Head(tick[w].batch) \in Events
  PROVE  received[Head(tick[w].batch)] <= aborts + Share(job[Head(tick[w].batch)])
<1>. DEFINE j == Head(tick[w].batch)
<1>1. j \in ToSet(tick[w].batch) /\ j \notin DOMAIN tick[w].written
  BY AtHand
<1>. HIDE DEF j
<1>2. ASSUME NEW v \in Workers PROVE j \notin DOMAIN tick[v].written
  BY <1>1 DEF OInv, ClaimsApart, Held
<1>3. j \in Events
  BY DEF j
<1>4. received[j] <= aborts + Share(job[j])
  BY <1>2, <1>3 DEF OInv, ReceivedFits
<1>. QED
  BY <1>4 DEF j

LEMMA NotifyStep ==
  ASSUME OInv, NEW w \in Workers, Notify(w)
  PROVE  OInv'
<1>. DEFINE j == Head(tick[w].batch)
<1>1. tick[w].batch # <<>> /\ w \in Notifiers
  BY DEF Notify
<1>2. j[1] \in Kind(w)
  BY <1>1, AtHand
<1>3. j \notin Events
  BY <1>1, <1>2 DEF Kind, Events
<1>4. PICK row \in {Done(job[j]), Failed(job[j])} : Write(w, row)
  BY DEF Notify
<1>5. row \in Outcomes(w, j)
  BY DEF Outcomes
<1>6. /\ UNCHANGED <<booking, queue, job, inbox, endpoint, aborts>>
      /\ received' = received
  BY DEF Notify
<1>7. received' \in [Events -> Nat] /\ \A e \in Events : received[e] <= received'[e]
  BY <1>6 DEF OInv, TypeOK
<1>8. \A e \in Events \ {j} : received'[e] = received[e]
  BY <1>6
<1>. QED
  BY <1>1, <1>3, <1>4, <1>5, <1>6, <1>7, <1>8, AttemptStep

LEMMA SkipPostStep ==
  ASSUME OInv, NEW w \in Workers, SkipPost(w)
  PROVE  OInv'
<1>. DEFINE j == Head(tick[w].batch)
<1>1. tick[w].batch # <<>> /\ w \in Posters
  BY DEF SkipPost
<1>2. /\ job[j] \in JobRow /\ job[j].status = "pending"
      /\ job[j].attempts < MaxAttempts /\ ~ job[j].undelivered
  BY <1>1, AtHand
<1>3. Write(w, Skipped(job[j]))
  BY DEF SkipPost, Skipped
<1>4. Skipped(job[j]) \in Outcomes(w, j)
  BY <1>1 DEF Outcomes
<1>5. /\ UNCHANGED <<booking, queue, job, inbox, endpoint, aborts>>
      /\ received' = received
  BY DEF SkipPost
<1>6. received' \in [Events -> Nat] /\ \A e \in Events : received[e] <= received'[e]
  BY <1>5 DEF OInv, TypeOK
<1>7. \A e \in Events \ {j} : received'[e] = received[e]
  BY <1>5
<1>8. ASSUME j \in Events
      PROVE  received'[j] <= aborts + Share(Skipped(job[j])) /\ Told(received'[j], Skipped(job[j]))
  <2>1. /\ Share(job[j]) = job[j].attempts
        /\ Share(Skipped(job[j])) = job[j].attempts + 1
        /\ Told(received'[j], Skipped(job[j]))
    BY <1>2, OutcomeShares
  <2>2. received[j] <= aborts + Share(job[j])
    BY <1>1, <1>8, UntilTheAttempt
  <2>3. received[j] \in Nat /\ aborts \in Nat /\ job[j].attempts \in Nat
    BY <1>2, <1>8, OutboxAssumption DEF OInv, TypeOK, JobRow
  <2>4. received'[j] = received[j]
    BY <1>5
  <2>. HIDE DEF j
  <2>. QED
    BY <2>1, <2>2, <2>3, <2>4
<1>. QED
  BY <1>1, <1>3, <1>4, <1>5, <1>6, <1>7, <1>8, AttemptStep

LEMMA PostStep ==
  ASSUME OInv, NEW w \in Workers, Post(w)
  PROVE  OInv'
<1>. DEFINE j == Head(tick[w].batch)
            more == [received EXCEPT ![j] = @ + 1]
<1>1. tick[w].batch # <<>> /\ w \in Posters
  BY DEF Post
<1>2. /\ job[j] \in JobRow /\ job[j].status = "pending" /\ j \in Jobs
      /\ job[j].attempts < MaxAttempts /\ ~ job[j].undelivered /\ j[1] \in Kind(w)
  BY <1>1, AtHand
<1>3. j \in Events
  BY <1>1, <1>2, OutboxAssumption DEF Kind, Events, Jobs
<1>4. PICK row \in {Done(job[j]), Failed(job[j])} :
        /\ Write(w, row)
        /\ received' \in {received, more}
        /\ row = Done(job[j]) => received' = more
  <2>1. CASE received' = more /\ Write(w, Done(job[j]))
    BY <2>1
  <2>2. CASE received' \in {received, more} /\ Write(w, Failed(job[j]))
    <3>1. Failed(job[j]) # Done(job[j])
      BY <1>2, AnOutcome
    <3>. QED
      BY <2>2, <3>1
  <2>. QED
    BY <2>1, <2>2 DEF Post
<1>5. row \in Outcomes(w, j)
  BY DEF Outcomes
<1>6. UNCHANGED <<booking, queue, job, inbox, endpoint, aborts>>
  BY DEF Post
<1>. HIDE DEF j
<1>7. received \in [Events -> Nat] /\ aborts \in Nat /\ job[j].attempts \in Nat
  BY <1>2, OutboxAssumption DEF OInv, TypeOK, JobRow
<1>8. /\ received' \in [Events -> Nat]
      /\ \A e \in Events : received[e] <= received'[e]
      /\ \A e \in Events \ {j} : received'[e] = received[e]
  BY <1>3, <1>4, <1>7
<1>9. received'[j] <= received[j] + 1
  BY <1>3, <1>4, <1>7
<1>10. received[j] <= aborts + Share(job[j])
  BY <1>1, <1>3, UntilTheAttempt DEF j
<1>11. Share(job[j]) = job[j].attempts
  BY <1>2, OutcomeShares
<1>12. received'[j] <= aborts + job[j].attempts + 1
  BY <1>3, <1>7, <1>8, <1>9, <1>10, <1>11
<1>13. CASE row = Done(job[j])
  <2>1. Share(row) = job[j].attempts + 1
    BY <1>2, <1>13, OutcomeShares
  <2>2. received'[j] = received[j] + 1
    BY <1>3, <1>4, <1>7, <1>13
  <2>3. Told(received'[j], row)
    BY <1>3, <1>7, <2>2 DEF Told
  <2>4. received'[j] <= aborts + Share(row)
    BY <1>3, <1>7, <1>8, <1>12, <2>1
  <2>. QED
    BY <1>1, <1>4, <1>5, <1>6, <1>8, <2>3, <2>4, AttemptStep DEF j
<1>14. CASE row = Failed(job[j])
  <2>1. Share(row) = job[j].attempts + 1 /\ Told(received'[j], row)
    BY <1>2, <1>14, OutcomeShares
  <2>2. Share(row) \in Nat
    BY <1>2, <1>14, AnOutcome, SharesAreCounts
  <2>3. received'[j] <= aborts + Share(row)
    BY <1>3, <1>7, <1>8, <1>12, <2>1, <2>2
  <2>. QED
    BY <1>1, <1>4, <1>5, <1>6, <1>8, <2>1, <2>3, AttemptStep DEF j
<1>. QED
  BY <1>13, <1>14

-------------------------------------------------------------------------------
(* A tick claims its batch, and ends *)

LEMMA TickTypes ==
  ASSUME NEW t \in TickType
  PROVE  /\ ToSet(t.batch) \subseteq Jobs
         /\ \A i \in DOMAIN t.written : t.written[i] \in JobRow
<1>1. t.batch \in Seq(Jobs) /\ t.written \in Rows
  BY DEF TickType
<1>2. ToSet(t.batch) \subseteq Jobs
  BY <1>1 DEF ToSet
<1>. QED
  BY <1>1, <1>2, RowsAreFunctions

LEMMA NothingHeld ==
  /\ NoTick \in TickType /\ NoTick.batch = <<>> /\ ToSet(NoTick.batch) = {}
  /\ DOMAIN NoTick.batch = {} /\ DOMAIN NoTick.written = {}
<1>1. <<>> \in [{} -> JobRow] /\ DOMAIN <<>> = {}
  OBVIOUS
<1>2. <<>> \in Rows
  BY <1>1 DEF Rows
<1>. QED
  BY <1>1, <1>2 DEF NoTick, TickType, ToSet

\* What a claim takes: due jobs of the worker's kind that no open transaction holds.
LEMMA ClaimTakes ==
  ASSUME OInv, NEW w \in Workers, Claim(w)
  PROVE  \E b \in Seq(Jobs), t \in TickType :
           /\ tick' = [tick EXCEPT ![w] = t] /\ t.batch = b /\ DOMAIN t.written = {}
           /\ \A i, k \in DOMAIN b : b[i] = b[k] => i = k
           /\ \A j \in ToSet(b) : /\ j[1] \in Kind(w) /\ j \notin Locked
                                  /\ job[j] # Nil /\ job[j].status = "pending" /\ job[j].due
<1>1. PICK n \in 1..BatchSize : \E place \in [1..n -> Claimable(w)] :
        /\ \A i, k \in 1..n : i < k => place[i] < place[k]
        /\ tick' = [tick EXCEPT ![w].batch = [i \in 1..n |-> queue[place[i]]]]
  BY DEF Claim
<1>2. PICK place \in [1..n -> Claimable(w)] :
        /\ \A i, k \in 1..n : i < k => place[i] < place[k]
        /\ tick' = [tick EXCEPT ![w].batch = [i \in 1..n |-> queue[place[i]]]]
  BY <1>1
<1>. DEFINE b == [i \in 1..n |-> queue[place[i]]]
<1>3. n \in Nat
  BY OutboxAssumption
<1>4. queue \in Seq(Jobs) /\ DOMAIN queue \subseteq Nat
  BY DEF OInv, QueueFits
<1>5. \A i \in 1..n : place[i] \in Claimable(w) /\ place[i] \in DOMAIN queue
  BY DEF Claimable
<1>6. b \in Seq(Jobs) /\ DOMAIN b = 1..n
  BY <1>3, <1>4, <1>5
<1>7. ASSUME NEW i \in 1..n, NEW k \in 1..n, b[i] = b[k] PROVE i = k
  <2>1. place[i] = place[k]
    BY <1>5, <1>7 DEF OInv, QueueFits
  <2>2. place[i] \in Nat /\ place[k] \in Nat
    BY <1>4, <1>5
  <2>. QED
    BY <1>2, <1>3, <2>1, <2>2
<1>8. ASSUME NEW j \in ToSet(b)
      PROVE  /\ j[1] \in Kind(w) /\ j \notin Locked
             /\ job[j] # Nil /\ job[j].status = "pending" /\ job[j].due
  <2>1. PICK i \in 1..n : j = queue[place[i]]
    BY <1>6, <1>8 DEF ToSet
  <2>2. place[i] \in Claimable(w) /\ place[i] \in DOMAIN queue
    BY <1>5
  <2>3. j \in ToSet(queue) /\ j \in Jobs
    BY <1>4, <2>1, <2>2 DEF ToSet
  <2>4. job[j] # Nil
    BY <2>3 DEF OInv, TypeOK
  <2>. QED
    BY <2>1, <2>2, <2>4 DEF Claimable
<1>. DEFINE t == [tick[w] EXCEPT !.batch = b]
<1>9. tick' = [tick EXCEPT ![w] = t] /\ tick[w] \in TickType /\ tick[w] = NoTick
  BY <1>2 DEF Claim, OInv, TicksFit
<1>. HIDE DEF b
<1>10. t \in TickType /\ t.batch = b /\ t.written = tick[w].written
  BY <1>6, <1>9 DEF TickType
<1>11. DOMAIN t.written = {}
  BY <1>9, <1>10, NothingHeld
<1>. HIDE DEF t
<1>. QED
  BY <1>6, <1>7, <1>8, <1>9, <1>10, <1>11

LEMMA ClaimStep ==
  ASSUME OInv, NEW w \in Workers, Claim(w)
  PROVE  OInv'
<1>1. PICK b \in Seq(Jobs), new \in TickType :
        /\ tick' = [tick EXCEPT ![w] = new] /\ new.batch = b /\ DOMAIN new.written = {}
        /\ \A i, k \in DOMAIN b : b[i] = b[k] => i = k
        /\ \A j \in ToSet(b) : /\ j[1] \in Kind(w) /\ j \notin Locked
                               /\ job[j] # Nil /\ job[j].status = "pending" /\ job[j].due
  BY ClaimTakes
<1>2. UNCHANGED <<booking, queue, job, inbox, endpoint, received, aborts>>
  BY DEF Claim
<1>3. tick \in [Workers -> TickType] /\ tick[w] = NoTick
  BY DEF Claim, OInv, TicksFit
<1>4. tick' \in [Workers -> TickType] /\ tick'[w] = new
      /\ \A v \in Workers \ {w} : tick'[v] = tick[v]
  BY <1>1, <1>3
<1>5. \A v \in Workers : /\ DOMAIN tick'[v].written = DOMAIN tick[v].written
                         /\ \A i \in DOMAIN tick[v].written :
                              tick'[v].written[i] = tick[v].written[i]
  BY <1>1, <1>3, <1>4, NothingHeld
<1>6. TypeOK' /\ TicksFit'
  BY <1>2, <1>4, TickTypes DEF OInv, TypeOK, TicksFit
<1>7. QueueFits' /\ LedgerFits' /\ PendingFits' /\ NotifiedExactlyWhenDone'
  BY <1>2 DEF OInv, QueueFits, LedgerFits, PendingFits, NotifiedExactlyWhenDone
<1>8. /\ Held(w)' = ToSet(b)
      /\ \A v \in Workers \ {w} : Held(v)' = Held(v)
  BY <1>1, <1>4 DEF Held
<1>9. ClaimsFit'
  BY <1>1, <1>2, <1>8 DEF OInv, ClaimsFit, Kind
<1>10. BatchFits'
  BY <1>1, <1>4 DEF OInv, BatchFits
<1>11. ClaimsApart'
  <2>1. \A v \in Workers : ToSet(b) \cap Held(v) = {}
    BY <1>1 DEF Locked, Held
  <2>. QED
    BY <1>8, <2>1 DEF OInv, ClaimsApart
<1>12. RowsFit'
  BY <1>2, <1>5 DEF OInv, RowsFit, Outcomes
<1>13. ReceivedFits'
  BY <1>2, <1>5 DEF OInv, ReceivedFits
<1>. QED
  BY <1>6, <1>7, <1>9, <1>10, <1>11, <1>12, <1>13 DEF OInv

\* A transaction that ends holds nothing any more, and leaves the others what they hold.
LEMMA TickEnds ==
  ASSUME OInv, NEW w \in Workers, tick' = [tick EXCEPT ![w] = NoTick]
  PROVE  /\ TicksFit' /\ BatchFits' /\ ClaimsApart'
         /\ \A v \in Workers : /\ ToSet(tick'[v].batch) \subseteq Jobs
                               /\ \A i \in DOMAIN tick'[v].written :
                                    tick'[v].written[i] \in JobRow
         /\ DOMAIN tick'[w].written = {} /\ Held(w)' = {}
         /\ \A v \in Workers \ {w} : tick'[v] = tick[v] /\ Held(v)' = Held(v)
<1>1. /\ tick' \in [Workers -> TickType] /\ tick'[w] = NoTick
      /\ \A v \in Workers \ {w} : tick'[v] = tick[v]
  BY NothingHeld DEF OInv, TicksFit
<1>2. TicksFit'
  BY <1>1 DEF TicksFit
<1>3. BatchFits'
  BY <1>1, NothingHeld DEF OInv, BatchFits
<1>4. /\ Held(w)' = {}
      /\ \A v \in Workers \ {w} : Held(v)' = Held(v)
  BY <1>1, NothingHeld DEF Held
<1>5. ClaimsApart'
  BY <1>4 DEF OInv, ClaimsApart
<1>. QED
  BY <1>1, <1>2, <1>3, <1>4, <1>5, TickTypes, NothingHeld

LEMMA AbortStep ==
  ASSUME OInv, NEW w \in Workers, Abort(w)
  PROVE  OInv'
<1>1. /\ TicksFit' /\ BatchFits' /\ ClaimsApart'
      /\ \A v \in Workers : /\ ToSet(tick'[v].batch) \subseteq Jobs
                            /\ \A i \in DOMAIN tick'[v].written :
                                 tick'[v].written[i] \in JobRow
      /\ DOMAIN tick'[w].written = {} /\ Held(w)' = {}
      /\ \A v \in Workers \ {w} : tick'[v] = tick[v] /\ Held(v)' = Held(v)
  BY TickEnds DEF Abort
<1>2. /\ UNCHANGED <<booking, queue, job, inbox, endpoint, received>>
      /\ aborts' = aborts + 1 /\ aborts' \in 0..MaxAborts /\ aborts \in Nat
  BY OutboxAssumption DEF Abort, OInv, TypeOK
<1>3. TypeOK'
  BY <1>1, <1>2 DEF OInv, TypeOK
<1>4. QueueFits' /\ LedgerFits' /\ PendingFits' /\ NotifiedExactlyWhenDone'
  BY <1>2 DEF OInv, QueueFits, LedgerFits, PendingFits, NotifiedExactlyWhenDone
<1>5. ClaimsFit' /\ RowsFit'
  BY <1>1, <1>2 DEF OInv, ClaimsFit, Kind, RowsFit, Outcomes
<1>6. ReceivedFits'
  <2>1. ASSUME NEW e \in Events,
               e \notin UNION {DOMAIN tick'[v].written : v \in Workers}
        PROVE  received'[e] <= aborts' + Share(job'[e])
    <3>0. e \in Jobs
      BY DEF Events, Jobs, Kinds
    <3>1. received[e] \in Nat /\ Share(job[e]) \in Nat
      BY <3>0, SharesAreCounts DEF OInv, TypeOK
    <3>2. CASE e \notin DOMAIN tick[w].written
      <4>1. e \notin UNION {DOMAIN tick[v].written : v \in Workers}
        BY <1>1, <2>1, <3>2
      <4>2. received[e] <= aborts + Share(job[e])
        BY <4>1 DEF OInv, ReceivedFits
      <4>. QED
        BY <1>2, <3>1, <4>2
    <3>3. CASE e \in DOMAIN tick[w].written
      <4>1. received[e] <= aborts + Share(tick[w].written[e])
        BY <3>3 DEF OInv, ReceivedFits
      <4>2. /\ job[e] \in JobRow /\ job[e].status = "pending"
            /\ job[e].attempts < MaxAttempts /\ ~ job[e].undelivered
        BY <3>0, <3>3 DEF OInv, TypeOK, ClaimsFit, Held, PendingFits
      <4>3. Share(job[e]) = job[e].attempts /\ job[e].attempts \in Nat
        BY <4>2, OutcomeShares, OutboxAssumption DEF JobRow
      <4>4. tick[w].written[e] \in {Done(job[e]), Failed(job[e]), Skipped(job[e])}
        BY <3>3 DEF OInv, RowsFit, Outcomes
      <4>5. Share(tick[w].written[e]) <= job[e].attempts + 1
        BY <4>2, <4>3, <4>4, OutcomeShares
      <4>6. Share(tick[w].written[e]) \in Nat
        BY <4>2, <4>4, AnOutcome, SharesAreCounts
      <4>. QED
        BY <1>2, <3>1, <4>1, <4>3, <4>5, <4>6
    <3>. QED
      BY <3>2, <3>3
  <2>2. ASSUME NEW v \in Workers, NEW e \in DOMAIN tick'[v].written, e \in Events
        PROVE  /\ received'[e] <= aborts' + Share(tick'[v].written[e])
               /\ Told(received'[e], tick'[v].written[e])
    <3>1. v # w /\ tick'[v] = tick[v]
      BY <1>1, <2>2
    <3>2. received[e] \in Nat /\ Share(tick[v].written[e]) \in Nat
      BY <1>1, <2>2, <3>1, SharesAreCounts DEF OInv, TypeOK
    <3>. QED
      BY <1>2, <2>2, <3>1, <3>2 DEF OInv, ReceivedFits
  <2>3. \A e \in Events : Told(received'[e], job'[e])
    BY <1>2 DEF OInv, ReceivedFits
  <2>. QED
    BY <2>1, <2>2, <2>3 DEF ReceivedFits
<1>. QED
  BY <1>1, <1>3, <1>4, <1>5, <1>6 DEF OInv

LEMMA CommitStep ==
  ASSUME OInv, NEW w \in Workers, Commit(w)
  PROVE  OInv'
<1>. DEFINE D == DOMAIN tick[w].written
            W == tick[w].written
<1>1. /\ TicksFit' /\ BatchFits' /\ ClaimsApart'
      /\ \A v \in Workers : /\ ToSet(tick'[v].batch) \subseteq Jobs
                            /\ \A i \in DOMAIN tick'[v].written :
                                 tick'[v].written[i] \in JobRow
      /\ DOMAIN tick'[w].written = {} /\ Held(w)' = {}
      /\ \A v \in Workers \ {w} : tick'[v] = tick[v] /\ Held(v)' = Held(v)
  BY TickEnds DEF Commit
<1>2. /\ UNCHANGED <<booking, queue, endpoint, received, aborts>>
      /\ job' = [j \in Jobs |-> IF j \in D THEN W[j] ELSE job[j]]
      /\ inbox' = inbox \cup {o \in Reservations : /\ <<"notify", o>> \in D
                                                   /\ W[<<"notify", o>>].status = "done"}
  BY DEF Commit, Written
<1>3. D \subseteq Held(w)
  BY DEF Held
<1>4. ASSUME NEW j \in D
      PROVE  /\ j \in Jobs /\ W[j] \in JobRow /\ job[j] \in JobRow
             /\ job[j].status = "pending" /\ job'[j] = W[j]
             /\ W[j] \in {Done(job[j]), Failed(job[j]), Skipped(job[j])}
             /\ W[j].status = "pending" => W[j].attempts < MaxAttempts /\ ~ W[j].undelivered
  <2>1. tick[w].written \in Rows
    BY DEF OInv, TicksFit, TickType
  <2>2. j \in Jobs /\ W[j] \in JobRow
    BY <1>4, <2>1, RowsAreFunctions
  <2>3. job[j] # Nil /\ job[j].status = "pending"
    BY <1>3, <1>4 DEF OInv, ClaimsFit
  <2>4. job[j] \in JobRow /\ job[j].attempts < MaxAttempts /\ ~ job[j].undelivered
    BY <2>2, <2>3 DEF OInv, TypeOK, PendingFits
  <2>5. W[j] \in {Done(job[j]), Failed(job[j]), Skipped(job[j])}
    BY <1>4 DEF OInv, RowsFit, Outcomes
  <2>6. /\ Done(job[j]).status = "done" /\ Skipped(job[j]).status = "done"
        /\ Failed(job[j]).attempts = job[j].attempts + 1
        /\ Failed(job[j]).undelivered = job[j].undelivered
        /\ Failed(job[j]).status = "pending" => job[j].attempts + 1 < MaxAttempts
    BY <2>4, AnOutcome
  <2>7. job'[j] = W[j]
    BY <1>2, <2>2
  <2>. QED
    BY <2>2, <2>3, <2>4, <2>5, <2>6, <2>7
<1>5. \A j \in Jobs \ D : job'[j] = job[j]
  BY <1>2
<1>. HIDE DEF D, W
<1>6. TypeOK'
  <2>1. job' \in [Jobs -> JobRow \cup {Nil}]
    BY <1>2, <1>4 DEF OInv, TypeOK
  <2>2. \A j \in D : job'[j] # Nil /\ job[j] # Nil
    BY <1>4, NilAssumption
  <2>3. \A j \in Jobs : job'[j] # Nil <=> j \in ToSet(queue')
    BY <1>2, <1>4, <1>5, <2>2 DEF OInv, TypeOK
  <2>4. inbox' \subseteq Reservations
    BY <1>2 DEF OInv, TypeOK
  <2>. QED
    BY <1>1, <1>2, <2>1, <2>3, <2>4 DEF OInv, TypeOK
<1>7. QueueFits'
  BY <1>2 DEF OInv, QueueFits
<1>8. LedgerFits'
  <2>1. \A j \in Jobs : job[j] = Nil => job'[j] = Nil
    BY <1>4, <1>5, NilAssumption
  <2>2. \A o \in Reservations : <<"created", o>> \in Jobs /\ <<"notify", o>> \in Jobs
                                /\ <<"cancelled", o>> \in Jobs
    BY DEF Jobs, Kinds
  <2>. QED
    BY <1>2, <2>1, <2>2 DEF OInv, LedgerFits
<1>9. PendingFits'
  BY <1>4, <1>5 DEF OInv, PendingFits
<1>10. ASSUME NEW v \in Workers, NEW j \in Held(v)'
       PROVE  j \in Held(v) /\ v # w /\ j \in Jobs /\ job'[j] = job[j]
  <2>1. v # w /\ j \in Held(v)
    BY <1>1, <1>10
  <2>2. j \notin D
    BY <1>3, <2>1 DEF OInv, ClaimsApart
  <2>3. j \in Jobs
    BY <1>1, <2>1, TickTypes, RowsAreFunctions DEF OInv, TicksFit, TickType, Held
  <2>. QED
    BY <1>5, <2>1, <2>2, <2>3
<1>11. ClaimsFit'
  BY <1>10 DEF OInv, ClaimsFit, Kind
<1>12. RowsFit'
  <2>. SUFFICES ASSUME NEW v \in Workers, NEW j \in DOMAIN tick'[v].written
                PROVE  tick'[v].written[j] \in Outcomes(v, j)'
    BY DEF RowsFit
  <2>1. j \in Held(v)'
    BY DEF Held
  <2>2. v # w /\ job'[j] = job[j]
    BY <1>10, <2>1
  <2>3. tick'[v] = tick[v]
    BY <1>1, <2>2
  <2>. QED
    BY <2>2, <2>3 DEF OInv, RowsFit, Outcomes
<1>13. ReceivedFits'
  <2>1. Events \subseteq Jobs
    BY DEF Events, Jobs, Kinds
  <2>2. ASSUME NEW e \in Events,
               e \notin UNION {DOMAIN tick'[v].written : v \in Workers}
        PROVE  received'[e] <= aborts' + Share(job'[e])
    <3>1. CASE e \in D
      <4>1. received[e] <= aborts + Share(W[e])
        BY <3>1 DEF OInv, ReceivedFits, D, W
      <4>. QED
        BY <1>2, <1>4, <3>1, <4>1
    <3>2. CASE e \notin D
      <4>1. e \notin UNION {DOMAIN tick[v].written : v \in Workers}
        BY <1>1, <2>2, <3>2 DEF D
      <4>. QED
        BY <1>2, <1>5, <2>1, <3>2, <4>1 DEF OInv, ReceivedFits
    <3>. QED
      BY <3>1, <3>2
  <2>3. ASSUME NEW v \in Workers, NEW e \in DOMAIN tick'[v].written, e \in Events
        PROVE  /\ received'[e] <= aborts' + Share(tick'[v].written[e])
               /\ Told(received'[e], tick'[v].written[e])
    <3>1. v # w /\ tick'[v] = tick[v]
      BY <1>1, <2>3
    <3>. QED
      BY <1>2, <2>3, <3>1 DEF OInv, ReceivedFits
  <2>4. ASSUME NEW e \in Events PROVE Told(received'[e], job'[e])
    <3>1. CASE e \in D
      <4>1. Told(received[e], W[e])
        BY <3>1 DEF OInv, ReceivedFits, D, W
      <4>. QED
        BY <1>2, <1>4, <3>1, <4>1
    <3>2. CASE e \notin D
      BY <1>2, <1>5, <2>1, <3>2 DEF OInv, ReceivedFits
    <3>. QED
      BY <3>1, <3>2
  <2>. QED
    BY <2>2, <2>3, <2>4 DEF ReceivedFits
<1>14. NotifiedExactlyWhenDone'
  <2>. SUFFICES ASSUME NEW o \in Reservations
                PROVE  o \in inbox' <=> /\ job'[<<"notify", o>>] # Nil
                                        /\ job'[<<"notify", o>>].status = "done"
    BY DEF NotifiedExactlyWhenDone
  <2>. DEFINE j == <<"notify", o>>
  <2>1. j \in Jobs
    BY DEF Jobs, Kinds
  <2>2. o \in inbox <=> job[j] # Nil /\ job[j].status = "done"
    BY DEF OInv, NotifiedExactlyWhenDone
  <2>3. o \in inbox' <=> o \in inbox \/ (j \in D /\ W[j].status = "done")
    BY <1>2
  <2>. HIDE DEF j
  <2>4. o \in inbox' <=> job'[j] # Nil /\ job'[j].status = "done"
    <3>1. CASE j \in D
      BY <1>4, <2>2, <2>3, <3>1, NilAssumption
    <3>2. CASE j \notin D
      BY <1>5, <2>1, <2>2, <2>3, <3>2
    <3>. QED
      BY <3>1, <3>2
  <2>. QED
    BY <2>4 DEF j
<1>. QED
  BY <1>1, <1>6, <1>7, <1>8, <1>9, <1>11, <1>12, <1>13, <1>14 DEF OInv

-------------------------------------------------------------------------------
(* A back-off passes, a URL is registered *)

LEMMA DueStep ==
  ASSUME OInv, NEW d \in Jobs, Due(d)
  PROVE  OInv'
<1>. DEFINE row == [job[d] EXCEPT !.due = TRUE]
<1>1. /\ UNCHANGED <<booking, queue, inbox, endpoint, received, tick, aborts>>
      /\ job' = [job EXCEPT ![d] = row]
      /\ job[d] # Nil /\ job[d].status = "pending" /\ d \notin Locked
  BY DEF Due
<1>2. job \in [Jobs -> JobRow \cup {Nil}] /\ job[d] \in JobRow
  BY <1>1 DEF OInv, TypeOK
<1>3. /\ row \in JobRow /\ row.status = job[d].status /\ row.attempts = job[d].attempts
      /\ row.undelivered = job[d].undelivered /\ row # Nil
  BY <1>2, NilAssumption DEF JobRow
<1>. HIDE DEF row
<1>4. job' \in [Jobs -> JobRow \cup {Nil}] /\ job'[d] = row
      /\ \A j \in Jobs \ {d} : job'[j] = job[j]
  BY <1>1, <1>2, <1>3
<1>5. \A j \in Jobs : /\ job'[j] = Nil <=> job[j] = Nil
                      /\ job[j] # Nil => /\ job'[j].status = job[j].status
                                         /\ job'[j].attempts = job[j].attempts
                                         /\ job'[j].undelivered = job[j].undelivered
  BY <1>1, <1>3, <1>4
<1>6. \A j \in Jobs : Share(job'[j]) = Share(job[j])
  BY <1>5 DEF Share
<1>7. \A j \in Jobs, n \in Nat : Told(n, job[j]) => Told(n, job'[j])
  BY <1>5 DEF Told
<1>8. TypeOK'
  BY <1>1, <1>4, <1>5 DEF OInv, TypeOK
<1>9. TicksFit' /\ QueueFits' /\ BatchFits' /\ ClaimsApart'
  BY <1>1 DEF OInv, TicksFit, QueueFits, BatchFits, ClaimsApart, Held
<1>10. LedgerFits' /\ PendingFits' /\ NotifiedExactlyWhenDone'
  <2>1. \A o \in Reservations : <<"created", o>> \in Jobs /\ <<"notify", o>> \in Jobs
                                /\ <<"cancelled", o>> \in Jobs
    BY DEF Jobs, Kinds
  <2>2. LedgerFits'
    BY <1>1, <1>5, <2>1 DEF OInv, LedgerFits
  <2>3. PendingFits'
    BY <1>5 DEF OInv, PendingFits
  <2>4. NotifiedExactlyWhenDone'
    BY <1>1, <1>5, <2>1 DEF OInv, NotifiedExactlyWhenDone
  <2>. QED
    BY <2>2, <2>3, <2>4
<1>11. ASSUME NEW v \in Workers, NEW j \in Held(v) PROVE j \in Jobs /\ job'[j] = job[j]
  <2>1. j # d
    BY <1>1 DEF Locked, Held
  <2>2. j \in Jobs
    BY TickTypes, RowsAreFunctions DEF OInv, TicksFit, TickType, Held
  <2>. QED
    BY <1>4, <2>1, <2>2
<1>12. ClaimsFit'
  BY <1>1, <1>11 DEF OInv, ClaimsFit, Kind, Held
<1>13. RowsFit'
  BY <1>1, <1>11 DEF OInv, RowsFit, Outcomes, Held
<1>14. ReceivedFits'
  <2>1. Events \subseteq Jobs
    BY DEF Events, Jobs, Kinds
  <2>2. \A e \in Events : received[e] \in Nat
    BY DEF OInv, TypeOK
  <2>. QED
    BY <1>1, <1>6, <1>7, <2>1, <2>2 DEF OInv, ReceivedFits
<1>. QED
  BY <1>8, <1>9, <1>10, <1>12, <1>13, <1>14 DEF OInv

LEMMA RegisterStep ==
  ASSUME OInv, NEW u \in Urls, Register(u)
  PROVE  OInv'
<1>1. UNCHANGED <<booking, queue, job, inbox, received, tick, aborts>> /\ endpoint' \in Urls
  BY DEF Register
<1>2. TypeOK'
  BY <1>1 DEF OInv, TypeOK
<1>3. TicksFit' /\ QueueFits' /\ LedgerFits' /\ PendingFits' /\ NotifiedExactlyWhenDone'
  BY <1>1 DEF OInv, TicksFit, QueueFits, LedgerFits, PendingFits, NotifiedExactlyWhenDone
<1>4. ClaimsFit' /\ BatchFits' /\ ClaimsApart'
  BY <1>1 DEF OInv, ClaimsFit, BatchFits, ClaimsApart, Held, Kind
<1>5. RowsFit' /\ ReceivedFits'
  BY <1>1 DEF OInv, RowsFit, ReceivedFits, Outcomes
<1>. QED
  BY <1>2, <1>3, <1>4, <1>5 DEF OInv

-------------------------------------------------------------------------------
(* The ledger enqueues *)

\* Jobs that have no row yet are added: nobody holds them, nobody has received them but
\* in batches that rolled back, and no other row moves.
LEMMA EnqueueStep ==
  ASSUME OInv, NEW js \in Seq(Jobs), Enqueue(js),
         \A i, k \in DOMAIN js : js[i] = js[k] => i = k,
         \A j \in ToSet(js) : job[j] = Nil,
         booking' \in [Reservations -> {"none", "booked", "cancelled"}],
         LedgerFits'
  PROVE  OInv'
<1>. DEFINE N == ToSet(js)
<1>1. /\ UNCHANGED <<inbox, endpoint, received, tick, aborts>>
      /\ queue' = queue \o js
      /\ job' = [j \in Jobs |-> IF j \in N THEN NewJob ELSE job[j]]
  BY DEF Enqueue
<1>2. N \subseteq Jobs
  BY DEF ToSet
<1>3. /\ NewJob \in JobRow /\ NewJob # Nil /\ NewJob.status = "pending"
      /\ NewJob.attempts = 0 /\ ~ NewJob.undelivered
  <2>1. 0 \in 0..MaxAttempts
    BY OutboxAssumption
  <2>2. NewJob \in JobRow
    BY <2>1 DEF NewJob, JobRow
  <2>. QED
    BY <2>2, NilAssumption DEF NewJob
<1>4. \A j \in N : job[j] = Nil
  OBVIOUS
<1>5. \A j \in Jobs : job[j] # Nil <=> j \in ToSet(queue)
  BY DEF OInv, TypeOK
<1>6. /\ queue \in Seq(Jobs) /\ \A i, k \in DOMAIN queue : queue[i] = queue[k] => i = k
      /\ ToSet(queue) \cap N = {}
  BY <1>2, <1>4, <1>5 DEF OInv, QueueFits
<1>7. /\ queue \o js \in Seq(Jobs)
      /\ ToSet(queue \o js) = ToSet(queue) \cup N
      /\ \A i, k \in DOMAIN (queue \o js) : (queue \o js)[i] = (queue \o js)[k] => i = k
  BY <1>6, Appended
<1>. HIDE DEF N
<1>8. QueueFits'
  BY <1>1, <1>7 DEF QueueFits
<1>9. /\ \A j \in N : job'[j] = NewJob
      /\ \A j \in Jobs \ N : job'[j] = job[j]
  BY <1>1, <1>2
<1>10. job' \in [Jobs -> JobRow \cup {Nil}]
  BY <1>1, <1>3 DEF OInv, TypeOK
<1>11. \A j \in Jobs : job'[j] # Nil <=> j \in ToSet(queue')
  BY <1>1, <1>3, <1>5, <1>7, <1>9
<1>12. TypeOK'
  BY <1>1, <1>10, <1>11 DEF OInv, TypeOK
<1>13. TicksFit' /\ BatchFits' /\ ClaimsApart'
  BY <1>1 DEF OInv, TicksFit, BatchFits, ClaimsApart, Held
<1>14. PendingFits'
  BY <1>3, <1>9, OutboxAssumption DEF OInv, PendingFits
<1>15. ASSUME NEW v \in Workers, NEW j \in Held(v) PROVE j \in Jobs /\ job'[j] = job[j]
  <2>1. j \in Jobs
    BY TickTypes, RowsAreFunctions DEF OInv, TicksFit, TickType, Held
  <2>2. job[j] # Nil
    BY DEF OInv, ClaimsFit
  <2>. QED
    BY <1>4, <1>9, <2>1, <2>2
<1>16. ClaimsFit'
  <2>1. \A v \in Workers : Held(v)' = Held(v)
    BY <1>1 DEF Held
  <2>. QED
    BY <1>15, <2>1 DEF OInv, ClaimsFit, Kind
<1>17. RowsFit'
  BY <1>1, <1>15 DEF OInv, RowsFit, Outcomes, Held
<1>18. Share(Nil) = 0 /\ Share(NewJob) = 0
  BY <1>3 DEF Share
<1>19. \A n : Told(n, NewJob)
  BY <1>3 DEF Told
<1>20. ReceivedFits'
  <2>1. Events \subseteq Jobs
    BY DEF Events, Jobs, Kinds
  <2>2. \A j \in Jobs : Share(job'[j]) = Share(job[j])
    BY <1>4, <1>9, <1>18
  <2>3. \A j \in Jobs : \A n : Told(n, job[j]) => Told(n, job'[j])
    BY <1>9, <1>19
  <2>. QED
    BY <1>1, <2>1, <2>2, <2>3 DEF OInv, ReceivedFits
<1>21. NotifiedExactlyWhenDone'
  <2>. SUFFICES ASSUME NEW o \in Reservations
                PROVE  o \in inbox' <=> /\ job'[<<"notify", o>>] # Nil
                                        /\ job'[<<"notify", o>>].status = "done"
    BY DEF NotifiedExactlyWhenDone
  <2>. DEFINE j == <<"notify", o>>
  <2>1. j \in Jobs
    BY DEF Jobs, Kinds
  <2>2. o \in inbox <=> job[j] # Nil /\ job[j].status = "done"
    BY DEF OInv, NotifiedExactlyWhenDone
  <2>. HIDE DEF j
  <2>3. o \in inbox' <=> job'[j] # Nil /\ job'[j].status = "done"
    BY <1>1, <1>3, <1>4, <1>9, <2>1, <2>2
  <2>. QED
    BY <2>3 DEF j
<1>. QED
  BY <1>8, <1>12, <1>13, <1>14, <1>16, <1>17, <1>20, <1>21 DEF OInv

LEMMA BookStep ==
  ASSUME OInv, NEW o \in Reservations, Book(o)
  PROVE  OInv'
<1>. DEFINE c == <<"created", o>>
            n == <<"notify", o>>
<1>1. c \in Jobs /\ n \in Jobs /\ c # n
  BY DEF Jobs, Kinds
<1>2. booking[o] = "none" /\ job[c] = Nil /\ job[n] = Nil
  BY DEF Book, OInv, LedgerFits
<1>3. /\ booking' = [booking EXCEPT ![o] = "booked"]
      /\ booking \in [Reservations -> {"none", "booked", "cancelled"}]
  BY DEF Book, OInv, TypeOK
<1>. HIDE DEF c, n
<1>4. PICK js \in {<<c>>, <<c, n>>} : Enqueue(js)
  BY DEF Book, c, n
<1>5. /\ js \in Seq(Jobs) /\ ToSet(js) \subseteq {c, n}
      /\ \A i, k \in DOMAIN js : js[i] = js[k] => i = k
  <2>1. CASE js = <<c>>
    BY <1>1, <2>1 DEF ToSet
  <2>2. CASE js = <<c, n>>
    BY <1>1, <2>2 DEF ToSet
  <2>. QED
    BY <2>1, <2>2
<1>6. LedgerFits'
  <2>. SUFFICES ASSUME NEW p \in Reservations
                PROVE  /\ booking'[p] = "none" => /\ job'[<<"created", p>>] = Nil
                                                  /\ job'[<<"notify", p>>] = Nil
                       /\ booking'[p] # "cancelled" => job'[<<"cancelled", p>>] = Nil
    BY DEF LedgerFits
  <2>1. /\ <<"created", p>> \in Jobs /\ <<"notify", p>> \in Jobs
        /\ <<"cancelled", p>> \in Jobs \ {c, n}
        /\ p # o => <<"created", p>> \notin {c, n} /\ <<"notify", p>> \notin {c, n}
    BY DEF Jobs, Kinds, c, n
  <2>2. \A j \in Jobs \ {c, n} : job'[j] = job[j]
    BY <1>4, <1>5 DEF Enqueue
  <2>3. CASE p = o
    BY <1>2, <1>3, <2>1, <2>2, <2>3 DEF OInv, LedgerFits
  <2>4. CASE p # o
    BY <1>3, <2>1, <2>2, <2>4 DEF OInv, LedgerFits
  <2>. QED
    BY <2>3, <2>4
<1>. QED
  BY <1>2, <1>3, <1>4, <1>5, <1>6, EnqueueStep

LEMMA CancelStep ==
  ASSUME OInv, NEW o \in Reservations, Cancel(o)
  PROVE  OInv'
<1>. DEFINE c == <<"cancelled", o>>
            js == <<c>>
<1>1. c \in Jobs
  BY DEF Jobs, Kinds
<1>2. booking[o] = "booked" /\ job[c] = Nil
  BY DEF Cancel, OInv, LedgerFits
<1>3. /\ booking' = [booking EXCEPT ![o] = "cancelled"]
      /\ booking \in [Reservations -> {"none", "booked", "cancelled"}]
  BY DEF Cancel, OInv, TypeOK
<1>4. Enqueue(js)
  BY DEF Cancel
<1>. HIDE DEF c
<1>5. /\ js \in Seq(Jobs) /\ ToSet(js) \subseteq {c}
      /\ \A i, k \in DOMAIN js : js[i] = js[k] => i = k
  BY <1>1 DEF ToSet
<1>. HIDE DEF js
<1>6. LedgerFits'
  <2>. SUFFICES ASSUME NEW p \in Reservations
                PROVE  /\ booking'[p] = "none" => /\ job'[<<"created", p>>] = Nil
                                                  /\ job'[<<"notify", p>>] = Nil
                       /\ booking'[p] # "cancelled" => job'[<<"cancelled", p>>] = Nil
    BY DEF LedgerFits
  <2>1. /\ <<"created", p>> \in Jobs \ {c} /\ <<"notify", p>> \in Jobs \ {c}
        /\ <<"cancelled", p>> \in Jobs
        /\ p # o => <<"cancelled", p>> # c
    BY DEF Jobs, Kinds, c
  <2>2. \A j \in Jobs \ {c} : job'[j] = job[j]
    BY <1>4, <1>5 DEF Enqueue
  <2>3. CASE p = o
    BY <1>3, <2>3
  <2>4. CASE p # o
    <3>1. booking'[p] = booking[p]
      BY <1>3, <2>4
    <3>2. /\ job'[<<"created", p>>] = job[<<"created", p>>]
          /\ job'[<<"notify", p>>] = job[<<"notify", p>>]
      BY <2>1, <2>2
    <3>3. job'[<<"cancelled", p>>] = job[<<"cancelled", p>>]
      BY <2>1, <2>2, <2>4
    <3>. QED
      BY <3>1, <3>2, <3>3 DEF OInv, LedgerFits
  <2>. QED
    BY <2>3, <2>4
<1>. QED
  BY <1>2, <1>3, <1>4, <1>5, <1>6, EnqueueStep

-------------------------------------------------------------------------------
(* The theorems *)

LEMMA OInvInit == Init => OInv
<1>. SUFFICES ASSUME Init PROVE OInv
  OBVIOUS
<1>1. /\ booking = [o \in Reservations |-> "none"] /\ queue = <<>>
      /\ job = [j \in Jobs |-> Nil] /\ inbox = {} /\ endpoint = Nil
      /\ received = [e \in Events |-> 0] /\ tick = [w \in Workers |-> NoTick]
      /\ aborts = 0
  BY DEF Init
<1>2. \A w \in Workers : tick[w] = NoTick /\ Held(w) = {}
  BY <1>1, NothingHeld DEF Held
<1>3. ToSet(queue) = {} /\ queue \in Seq(Jobs) /\ DOMAIN queue = {}
  BY <1>1 DEF ToSet
<1>4. \A o \in Reservations : <<"created", o>> \in Jobs /\ <<"notify", o>> \in Jobs
                              /\ <<"cancelled", o>> \in Jobs
  BY DEF Jobs, Kinds
<1>5. \A j \in Jobs : job[j] = Nil
  BY <1>1
<1>6. TypeOK
  <2>1. \A w \in Workers : /\ ToSet(tick[w].batch) \subseteq Jobs
                           /\ \A j \in DOMAIN tick[w].written : tick[w].written[j] \in JobRow
    BY <1>2, NothingHeld
  <2>2. aborts \in 0..MaxAborts
    BY <1>1, OutboxAssumption
  <2>. QED
    BY <1>1, <1>3, <2>1, <2>2 DEF TypeOK
<1>7. TicksFit /\ QueueFits /\ BatchFits /\ ClaimsFit /\ ClaimsApart /\ RowsFit
  BY <1>1, <1>2, <1>3, NothingHeld
     DEF TicksFit, QueueFits, BatchFits, ClaimsFit, ClaimsApart, RowsFit
<1>8. LedgerFits /\ PendingFits /\ NotifiedExactlyWhenDone
  BY <1>1, <1>4, <1>5 DEF LedgerFits, PendingFits, NotifiedExactlyWhenDone
<1>9. ReceivedFits
  <2>1. Events \subseteq Jobs
    BY DEF Events, Jobs, Kinds
  <2>2. \A e \in Events : received[e] = 0 /\ job[e] = Nil
    BY <1>1, <1>5, <2>1
  <2>. QED
    BY <1>1, <1>2, <2>2, NothingHeld DEF ReceivedFits, Share, Told
<1>. QED
  BY <1>6, <1>7, <1>8, <1>9 DEF OInv

LEMMA OInvNext == OInv /\ [Next]_vars => OInv'
<1>. SUFFICES ASSUME OInv, [Next]_vars PROVE OInv'
  OBVIOUS
<1>1. ASSUME NEW o \in Reservations, Book(o) \/ Cancel(o) PROVE OInv'
  BY <1>1, BookStep, CancelStep
<1>2. ASSUME NEW w \in Workers, Work(w) \/ Abort(w) PROVE OInv'
  BY <1>2, ClaimStep, NotifyStep, SkipPostStep, PostStep, CommitStep, AbortStep DEF Work
<1>3. ASSUME NEW j \in Jobs, Due(j) PROVE OInv'
  BY <1>3, DueStep
<1>4. ASSUME NEW u \in Urls, Register(u) PROVE OInv'
  BY <1>4, RegisterStep
<1>5. CASE UNCHANGED vars
  <2>1. UNCHANGED <<booking, queue, job, inbox, endpoint, received, tick, aborts>>
    BY <1>5 DEF vars
  <2>2. TypeOK' /\ TicksFit' /\ QueueFits' /\ LedgerFits' /\ PendingFits'
    BY <2>1 DEF OInv, TypeOK, TicksFit, QueueFits, LedgerFits, PendingFits
  <2>3. ClaimsFit' /\ BatchFits' /\ ClaimsApart' /\ RowsFit'
    BY <2>1 DEF OInv, ClaimsFit, BatchFits, ClaimsApart, RowsFit, Held, Kind, Outcomes
  <2>4. ReceivedFits' /\ NotifiedExactlyWhenDone'
    BY <2>1 DEF OInv, ReceivedFits, NotifiedExactlyWhenDone
  <2>. QED
    BY <2>2, <2>3, <2>4 DEF OInv
<1>. QED
  BY <1>1, <1>2, <1>3, <1>4, <1>5 DEF Next

LEMMA OInvAlways == Spec => []OInv
BY OInvInit, OInvNext, PTL DEF Spec

\* The duplicates of an event: what the invariant bounds by shares is what the property
\* bounds by attempts.
LEMMA DuplicatesAreBounded ==
  ASSUME OInv
  PROVE  DuplicatesHaveCauses
<1>. SUFFICES ASSUME NEW e \in Events
              PROVE  received[e] <= aborts + (IF job[e] = Nil THEN 0 ELSE job[e].attempts)
                                    + (IF \/ job[e] # Nil /\ job[e].status = "done"
                                          \/ e \in Locked
                                       THEN 1 ELSE 0)
  BY DEF DuplicatesHaveCauses
<1>1. e \in Jobs
  BY DEF Events, Jobs, Kinds
<1>2. /\ received[e] \in Nat /\ aborts \in Nat /\ job[e] \in JobRow \cup {Nil}
      /\ job[e] # Nil => job[e].attempts \in Nat
  BY <1>1, OutboxAssumption DEF OInv, TypeOK, JobRow
<1>3. CASE e \notin UNION {DOMAIN tick[w].written : w \in Workers}
  <2>1. received[e] <= aborts + Share(job[e])
    BY <1>3 DEF OInv, ReceivedFits
  <2>. QED
    BY <1>2, <2>1 DEF Share
<1>4. CASE e \in UNION {DOMAIN tick[w].written : w \in Workers}
  <2>1. PICK w \in Workers : e \in DOMAIN tick[w].written
    BY <1>4
  <2>2. e \in Locked /\ e \in Held(w)
    BY <2>1 DEF Locked, Held
  <2>3. /\ job[e] \in JobRow /\ job[e] # Nil /\ job[e].status = "pending"
        /\ job[e].attempts < MaxAttempts /\ ~ job[e].undelivered
    BY <1>1, <1>2, <2>2 DEF OInv, ClaimsFit, PendingFits
  <2>4. received[e] <= aborts + Share(tick[w].written[e])
    BY <2>1 DEF OInv, ReceivedFits
  <2>5. tick[w].written[e] \in {Done(job[e]), Failed(job[e]), Skipped(job[e])}
    BY <2>1 DEF OInv, RowsFit, Outcomes
  <2>6. Share(tick[w].written[e]) = job[e].attempts + 1
    BY <2>3, <2>5, OutcomeShares
  <2>. QED
    BY <1>2, <2>2, <2>3, <2>4, <2>6
<1>. QED
  BY <1>3, <1>4

\* Type correctness of the outbox and its two workers.
THEOREM OutboxTypeCorrect == Spec => []TypeOK
<1>1. OInv => TypeOK
  BY DEF OInv
<1>. QED
  BY <1>1, OInvAlways, PTL

\* A customer sees a notification exactly when its job is done (dispatch inserts it in
\* the transaction that marks the job).
THEOREM NotificationsMatchJobs == Spec => []NotifiedExactlyWhenDone
<1>1. OInv => NotifiedExactlyWhenDone
  BY DEF OInv
<1>. QED
  BY <1>1, OInvAlways, PTL

\* Beyond one good answer, a partner gets an event again only for a recorded failure or a
\* batch that rolled back (FOR UPDATE SKIP LOCKED in processOnce).
THEOREM DuplicatesAreAccounted == Spec => []DuplicatesHaveCauses
BY DuplicatesAreBounded, OInvAlways, PTL

\* An event that is done without remark has reached the partner (deliver, processOnce).
THEOREM DoneEventsWereReceived == Spec => []DoneMeansDelivered
<1>1. OInv => DoneMeansDelivered
  BY DEF OInv, ReceivedFits, Told, DoneMeansDelivered
<1>. QED
  BY <1>1, OInvAlways, PTL
================================================================================
