----------------------------- MODULE GatewayProofs -----------------------------
(***************************************************************************)
(* What is proved of the way into the API, for any number of requests,     *)
(* buckets and keys, any limits and any calls.  Everything rests on the    *)
(* order of requests: what r finds done when it arrives is done for good,  *)
(* and what is not done yet by then overlaps r.  One invariant per part    *)
(* says what a request between two awaits knows of those before it.        *)
(***************************************************************************)
EXTENDS Gateway, TLAPS

(* The invariant *)

Is(r, ops) == call[r] # Nil /\ call[r].op \in ops

\* Requests keep their order, a request before its handler has a time to be counted at
\* that is not ahead of the clock, and an update to save has a band.
RequestsFit ==
  /\ got = [r \in Requests |-> got[r]]
  /\ \A r \in Requests :
       /\ at[r] = "new" <=> call[r] = Nil
       /\ at[r] = "new" => got[r] = Nothing
       /\ at[r] \in {"limit", "userLimit"} => got[r].time \in 0..now
       /\ at[r] = "userLimit" => call[r].user # Nil
       /\ Is(r, {"update"}) /\ at[r] = "second" => got[r].cafes.band \in Nat
       /\ at[r] = "new" => after[r] = {}
       /\ \A q \in after[r] : at[q] = "done"

\* What a bucket let through and still holds, it was given or has earned up to its ts;
\* full again when it expired, it earned that by then.
BucketsFit ==
  \A b \in Buckets :
    /\ expired[b] <= now
    /\ bucket[b] # Nil =>
         /\ bucket[b].ts <= bucket[b].written /\ bucket[b].written <= now
         /\ granted[b] + bucket[b].tokens <= Capacity + Rate * (bucket[b].ts + rewound[b])
    /\ bucket[b] = Nil => granted[b] <= Rate * (expired[b] + rewound[b])

\* An answered signup or login has its account, and an email has one.
AccountsFit ==
  /\ \A u \in users : u = [email |-> u.email, password |-> u.password]
  /\ \A u, v \in users : u.email = v.email => u = v
  /\ \A r \in Requests :
       /\ Is(r, {"login"}) /\ at[r] = "second" =>
            got[r].account \in users /\ got[r].account.email = call[r].email
       /\ Is(r, {"signup", "login"}) /\ reply[r] = "ok" => Account(r) \in users

\* A generator about to save knows the grid's times of every generation before it.
SlotsFit ==
  /\ \A s \in slots : /\ s.by \in Requests /\ at[s.by] = "done"
                      /\ Is(s.by, {"generate"}) /\ s.time \in CandidateTimes(call[s.by].grid)
  /\ \A s, u \in slots : s.by = u.by /\ s.time = u.time => s = u
  /\ \A r \in Requests : Is(r, {"generate"}) /\ at[r] = "third" =>
       \A s \in slots :
         s.by \in after[r] /\ s.time \in CandidateTimes(call[r].grid) => s.time \in got[r].times
  /\ SameTimeNeedsOverlap

\* Some update was not over when r arrived.
UpdateSince(r) == \E q \in Requests : Is(q, {"update"}) /\ q \notin after[r]

\* The band a generator has read is today's, or there was an update since.
BandsFit ==
  /\ \A s \in slots : s.price # SlotPrice(cafes.band, s.time) => UpdateSince(s.by)
  /\ \A r \in Requests :
       /\ Is(r, {"generate"}) /\ at[r] \in {"second", "third"} =>
            got[r].cafes.band = cafes.band \/ UpdateSince(r)
       /\ Is(r, {"generate"}) /\ at[r] = "second" =>
            got[r] = [Nothing EXCEPT !.cafes = got[r].cafes]

\* A search about to call waits for a second later than its process's calls before it.
CallsFit ==
  /\ \A p \in Processes : lastCall[p] <= now
  /\ \A c \in called : /\ c.at \in Nat /\ c.from \in Processes /\ c.at <= lastCall[c.from]
                       /\ c.by \in Requests /\ Is(c.by, {"locality"})
                       /\ at[c.by] \in {"third", "done"}
  /\ \A c, d \in called : c.by = d.by => c = d
  /\ \A r \in Requests : Is(r, {"locality"}) /\ at[r] = "second" =>
       /\ got[r].time \in Nat /\ got[r].process \in Processes
       /\ \A c \in called :
            c.by \in after[r] /\ c.from = got[r].process => c.at < got[r].time
  /\ CloseCallsNeedOverlap

\* An answered revocation holds, and a pull past its check did not follow one.
Revoked(q, r) == Is(q, {"revoke"}) /\ reply[q] = "ok" /\ call[q].key = call[r].key
KeysFit ==
  /\ \A q \in Requests : Is(q, {"revoke"}) /\ reply[q] = "ok" => apiKey[call[q].key] = "revoked"
  /\ \A r \in Requests : Is(r, {"pull"}) /\ (at[r] = "second" \/ reply[r] = "ok") =>
       \A q \in after[r] : ~ Revoked(q, r)

\* What a reader has read is the list, or a change has come beside it.
ChangeBeside(r) ==
  \E q \in Requests :
    Is(q, {"create", "update"}) /\ at[q] \in {"third", "done"} /\ q \notin after[r]
ListsFit ==
  /\ \A r \in Requests : Is(r, {"list"}) /\ at[r] = "third" =>
       got[r].cafes = cafes \/ ChangeBeside(r)
  /\ list # Nil => list.by \in Requests /\ at[list.by] = "done"
  /\ StaleListNeedsOverlap

-------------------------------------------------------------------------------
(* How requests move *)

GBase == TypeOK /\ RequestsFit

\* One request moves, and none other.
Own(r) ==
  /\ at[r] \notin {"new", "done"}
  /\ UNCHANGED <<now, call, after>>
  /\ \A q \in Requests \ {r} : at'[q] = at[q] /\ got'[q] = got[q] /\ reply'[q] = reply[q]
  /\ at'[r] \in Steps \ {"new", "limit"}
  /\ at'[r] = "done" <=> reply'[r] # Nil
  /\ GBase'

\* A request is on its way to its handler, or was turned away there.
Entering(r) ==
  /\ at[r] \in {"new", "limit", "userLimit", "handle"}
  /\ at'[r] = "limit" => at[r] = "new"
  /\ \/ at'[r] \in {"limit", "userLimit", "handle"} /\ reply'[r] = Nil
     \/ at'[r] = "done" /\ reply'[r] \in {"tooMany", "refused"}

LEMMA GoMoves ==
  ASSUME GBase, NEW r \in Requests, NEW step \in {"handle", "second", "third"}, NEW with,
         at[r] \notin {"new", "done"}, Go(r, step, with), UNCHANGED <<now, after>>,
         Is(r, {"update"}) /\ step = "second" => with.cafes.band \in Nat,
         TypeOK'
  PROVE  Own(r) /\ at'[r] = step /\ got'[r] = with /\ reply'[r] = Nil
<1>1. /\ at \in [Requests -> Steps] /\ got = [q \in Requests |-> got[q]]
      /\ at' = [at EXCEPT ![r] = step] /\ got' = [got EXCEPT ![r] = with]
      /\ UNCHANGED <<call, reply, now, after>>
  BY DEF GBase, TypeOK, RequestsFit, Go
<1>2. /\ at'[r] = step /\ \A q \in Requests \ {r} : at'[q] = at[q]
      /\ got'[r] = with /\ \A q \in Requests \ {r} : got'[q] = got[q]
      /\ got' = [q \in Requests |-> got'[q]]
  BY <1>1
<1>3. RequestsFit'
  BY <1>1, <1>2 DEF GBase, RequestsFit, Is
<1>4. reply'[r] = Nil
  BY <1>1 DEF GBase, TypeOK
<1>. QED
  BY <1>1, <1>2, <1>3, <1>4 DEF Own, GBase, Steps

LEMMA FinishMoves ==
  ASSUME GBase, NEW r \in Requests, NEW answer \in Answers,
         at[r] \notin {"new", "done"}, Finish(r, answer), UNCHANGED <<now, after>>,
         TypeOK'
  PROVE  Own(r) /\ at'[r] = "done" /\ got'[r] = Nothing /\ reply'[r] = answer
<1>1. /\ at \in [Requests -> Steps] /\ got = [q \in Requests |-> got[q]]
      /\ reply \in [Requests -> Answers \cup {Nil}]
      /\ at' = [at EXCEPT ![r] = "done"] /\ got' = [got EXCEPT ![r] = Nothing]
      /\ reply' = [reply EXCEPT ![r] = answer]
      /\ UNCHANGED <<call, now, after>>
  BY DEF GBase, TypeOK, RequestsFit, Finish
<1>2. /\ at'[r] = "done" /\ \A q \in Requests \ {r} : at'[q] = at[q]
      /\ got'[r] = Nothing /\ \A q \in Requests \ {r} : got'[q] = got[q]
      /\ got' = [q \in Requests |-> got'[q]]
      /\ reply'[r] = answer /\ \A q \in Requests \ {r} : reply'[q] = reply[q]
  BY <1>1
<1>3. RequestsFit'
  BY <1>1, <1>2 DEF GBase, RequestsFit, Is
<1>4. answer # Nil
  BY GatewayAssumption
<1>. QED
  BY <1>1, <1>2, <1>3, <1>4 DEF Own, GBase, Steps

\* The types of what a move leaves to prove: its own stores.
MovesTyped ==
  /\ at' \in [Requests -> Steps] /\ reply' \in [Requests -> Answers \cup {Nil}]
  /\ call' \in [Requests -> Calls \cup {Nil}]
  /\ \A r \in Requests : at'[r] = "done" <=> reply'[r] # Nil

LEMMA GoTyped ==
  ASSUME TypeOK, NEW r \in Requests, NEW step \in {"userLimit", "handle", "second", "third"},
         NEW with, at[r] # "done", Go(r, step, with)
  PROVE  MovesTyped
BY DEF TypeOK, Go, MovesTyped, Steps

LEMMA FinishTyped ==
  ASSUME TypeOK, NEW r \in Requests, NEW answer \in Answers, Finish(r, answer)
  PROVE  MovesTyped
BY GatewayAssumption DEF TypeOK, Finish, MovesTyped, Steps

LEMMA StoresTyped ==
  ASSUME TypeOK, MovesTyped, UNCHANGED <<now, after, bucket, granted, rewound, expired>>,
         cafes' \in Cafes, apiKey' \in [Keys -> KeyStates], lastCall' \in [Processes -> -1..MaxNow]
  PROVE  TypeOK'
BY DEF TypeOK, MovesTyped

\* A handler's await: it goes on or answers, and the clock and the buckets stay.
LEMMA HandlerMoves ==
  ASSUME GBase, NEW r \in Requests, at[r] \notin {"new", "done"},
         UNCHANGED <<now, after, limits>>,
         cafes' \in Cafes, apiKey' \in [Keys -> KeyStates], lastCall' \in [Processes -> -1..MaxNow]
  PROVE  /\ \A step \in {"handle", "second", "third"} : \A with :
              /\ Is(r, {"update"}) /\ step = "second" => with.cafes.band \in Nat
              /\ Go(r, step, with)
              => Own(r) /\ at'[r] = step /\ got'[r] = with /\ reply'[r] = Nil
         /\ \A answer \in Answers :
              Finish(r, answer) =>
                Own(r) /\ at'[r] = "done" /\ got'[r] = Nothing /\ reply'[r] = answer
<1>1. TypeOK /\ UNCHANGED <<bucket, granted, rewound, expired>>
  BY DEF GBase, limits
<1>2. ASSUME NEW step \in {"handle", "second", "third"}, NEW with, Go(r, step, with),
             Is(r, {"update"}) /\ step = "second" => with.cafes.band \in Nat
      PROVE  Own(r) /\ at'[r] = step /\ got'[r] = with /\ reply'[r] = Nil
  <2>1. MovesTyped
    BY <1>1, <1>2, GoTyped
  <2>2. TypeOK'
    BY <1>1, <2>1, StoresTyped
  <2>. QED
    BY <1>2, <2>2, GoMoves
<1>3. ASSUME NEW answer \in Answers, Finish(r, answer)
      PROVE  Own(r) /\ at'[r] = "done" /\ got'[r] = Nothing /\ reply'[r] = answer
  <2>1. MovesTyped
    BY <1>1, <1>3, FinishTyped
  <2>2. TypeOK'
    BY <1>1, <2>1, StoresTyped
  <2>. QED
    BY <1>3, <2>2, FinishMoves
<1>. QED
  BY <1>2, <1>3

-------------------------------------------------------------------------------
(* The rate limit *)

LEMMA MoreTimeEarnsMore ==
  ASSUME NEW a \in Nat, NEW b \in Nat, a <= b
  PROVE  Rate * a \in Nat /\ Rate * b \in Nat /\ Rate * a <= Rate * b
<1>1. Rate \in Nat
  BY GatewayAssumption
<1>2. Rate * b = Rate * a + Rate * (b - a) /\ b - a \in Nat
  BY <1>1
<1>3. Rate * (b - a) \in Nat /\ Rate * a \in Nat
  BY <1>1, <1>2
<1>. QED
  BY <1>2, <1>3

\* A refill to t earns no more than the time since ts; back, than what it moves back.
LEMMA RefillEarns ==
  ASSUME NEW g \in Nat, NEW tokens \in 0..Capacity, NEW ts \in Nat, NEW t \in Nat, NEW rw \in Nat,
         g + tokens <= Capacity + Rate * (ts + rw)
  PROVE  LET elapsed == IF t > ts THEN t - ts ELSE 0
             refilled == IF tokens + elapsed * Rate > Capacity THEN Capacity
                                                               ELSE tokens + elapsed * Rate
             back == IF t < ts THEN ts - t ELSE 0
         IN /\ refilled \in 0..Capacity /\ back \in Nat
            /\ g + refilled <= Capacity + Rate * (t + rw + back)
<1>. DEFINE elapsed == IF t > ts THEN t - ts ELSE 0
            back == IF t < ts THEN ts - t ELSE 0
<1>1. Rate \in Nat /\ Capacity \in Nat /\ elapsed \in Nat /\ back \in Nat
  BY GatewayAssumption
<1>2. ts + rw + elapsed = t + rw + back
  OBVIOUS
<1>. HIDE DEF elapsed, back
<1>3. Rate * (t + rw + back) = Rate * (ts + rw) + elapsed * Rate
  <2>1. Rate * (ts + rw + elapsed) = Rate * (ts + rw) + elapsed * Rate
    BY <1>1
  <2>. QED
    BY <1>2, <2>1
<1>4. elapsed * Rate \in Nat /\ Rate * (ts + rw) \in Nat
  BY <1>1
<1>. DEFINE m == elapsed * Rate
            n == Rate * (ts + rw)
            refilled == IF tokens + m > Capacity THEN Capacity ELSE tokens + m
<1>. HIDE DEF m, n
<1>5. m \in Nat /\ n \in Nat /\ g + tokens <= Capacity + n
      /\ Rate * (t + rw + back) = n + m
  BY <1>3, <1>4 DEF m, n
<1>6. refilled \in 0..Capacity /\ g + refilled <= Capacity + (n + m)
  BY <1>1, <1>5
<1>. QED
  BY <1>1, <1>5, <1>6 DEF m, elapsed, back

\* The script keeps a bucket's books.
LEMMA TakeTokenAccounts ==
  ASSUME GBase, BucketsFit, NEW b \in Buckets, NEW t \in 0..now
  PROVE  LET take == TakeToken(b, t)
             more == IF take.allowed THEN granted[b] + Cost ELSE granted[b]
         IN /\ take.row \in BucketRow /\ take.row.ts = t /\ take.row.written = now
            /\ take.allowed \in BOOLEAN /\ take.back \in Nat
            /\ more \in Nat
            /\ more + take.row.tokens <= Capacity + Rate * (t + (rewound[b] + take.back))
<1>. DEFINE take == TakeToken(b, t)
            old == IF bucket[b] = Nil THEN [tokens |-> Capacity, ts |-> t] ELSE bucket[b]
            last == IF bucket[b] = Nil THEN expired[b] ELSE old.ts
            elapsed == IF t > old.ts THEN t - old.ts ELSE 0
            refilled == IF old.tokens + elapsed * Rate > Capacity THEN Capacity
                                                              ELSE old.tokens + elapsed * Rate
            back == IF t < last THEN last - t ELSE 0
            tokens == IF refilled >= Cost THEN refilled - Cost ELSE refilled
            more == IF refilled >= Cost THEN granted[b] + Cost ELSE granted[b]
<1>1. /\ take.allowed = (refilled >= Cost) /\ take.back = back
      /\ take.row = [tokens |-> tokens, ts |-> t, written |-> now]
  BY DEF TakeToken
<1>2. /\ granted[b] \in Nat /\ rewound[b] \in Nat /\ expired[b] \in Nat
      /\ now \in 0..MaxNow /\ MaxNow \in Nat /\ t \in 0..MaxNow /\ t \in Nat
      /\ Capacity \in Nat /\ Cost \in Nat /\ Cost <= Capacity
      /\ bucket[b] \in BucketRow \cup {Nil}
  BY GatewayAssumption DEF GBase, TypeOK
<1>3. /\ refilled \in 0..Capacity /\ back \in Nat
      /\ granted[b] + refilled <= Capacity + Rate * (t + rewound[b] + back)
  <2>1. CASE bucket[b] # Nil
    <3>1. /\ old.tokens \in 0..Capacity /\ old.ts \in Nat /\ last = old.ts
          /\ granted[b] + old.tokens <= Capacity + Rate * (old.ts + rewound[b])
      BY <1>2, <2>1 DEF BucketRow, BucketsFit
    <3>. DEFINE since == IF t < old.ts THEN old.ts - t ELSE 0
    <3>2. back = since
      BY <3>1
    <3>. HIDE DEF old, last, back
    <3>3. /\ granted[b] \in Nat /\ t \in Nat /\ rewound[b] \in Nat
      BY <1>2
    <3>4. /\ refilled \in 0..Capacity /\ since \in Nat
          /\ granted[b] + refilled <= Capacity + Rate * (t + rewound[b] + since)
      BY <3>1, <3>3, RefillEarns, Zenon
    <3>. HIDE DEF since, refilled
    <3>. QED
      BY <3>2, <3>4
  <2>2. CASE bucket[b] = Nil
    <3>1. granted[b] <= Rate * (expired[b] + rewound[b])
      BY <2>2 DEF BucketsFit
    <3>2. /\ back \in Nat /\ expired[b] + rewound[b] <= t + rewound[b] + back
          /\ t + rewound[b] + back \in Nat /\ expired[b] + rewound[b] \in Nat
      BY <1>2, <2>2
    <3>3. /\ Rate * (expired[b] + rewound[b]) <= Rate * (t + rewound[b] + back)
          /\ Rate * (expired[b] + rewound[b]) \in Nat /\ Rate * (t + rewound[b] + back) \in Nat
      BY <3>2, MoreTimeEarnsMore
    <3>4. old.ts = t /\ old.tokens = Capacity
      BY <2>2
    <3>5. elapsed = 0
      BY <1>2, <3>4
    <3>6. elapsed * Rate = 0
      BY <3>5, GatewayAssumption
    <3>7. refilled = Capacity
      BY <1>2, <3>4, <3>6
    <3>. HIDE DEF refilled, back
    <3>. QED
      BY <1>2, <3>1, <3>2, <3>3, <3>7
  <2>. QED
    BY <2>1, <2>2
<1>. HIDE DEF refilled, back, take
<1>4. /\ tokens \in 0..Capacity /\ more \in Nat
      /\ more + tokens = granted[b] + refilled
  BY <1>2, <1>3
<1>5. take.row \in BucketRow /\ take.row.tokens = tokens
  BY <1>1, <1>2, <1>4 DEF BucketRow
<1>6. t + rewound[b] + back = t + (rewound[b] + back)
  BY <1>2, <1>3
<1>7. more + take.row.tokens <= Capacity + Rate * (t + (rewound[b] + take.back))
  BY <1>1, <1>3, <1>4, <1>5, <1>6
<1>8. more = IF take.allowed THEN granted[b] + Cost ELSE granted[b]
  BY <1>1
<1>9. /\ take.row.ts = t /\ take.row.written = now /\ take.allowed \in BOOLEAN
      /\ take.back \in Nat
  BY <1>1, <1>3
<1>. HIDE DEF tokens, more
<1>. QED
  BY <1>4, <1>5, <1>7, <1>8, <1>9 DEF take

LEMMA ConsumeMoves ==
  ASSUME GBase, BucketsFit, NEW r \in Requests, NEW b \in Buckets,
         NEW next \in {"userLimit", "handle"},
         at[r] \in {"limit", "userLimit"}, next = "userLimit" => call[r].user # Nil,
         Consume(r, b, next)
  PROVE  Own(r) /\ Entering(r) /\ BucketsFit' /\ UNCHANGED stores
<1>. DEFINE t == got[r].time
            take == TakeToken(b, t)
            more == IF take.allowed THEN granted[b] + Cost ELSE granted[b]
<1>1. t \in 0..now
  BY DEF GBase, RequestsFit
<1>2. /\ take.row \in BucketRow /\ take.row.ts = t /\ take.row.written = now
      /\ take.allowed \in BOOLEAN /\ take.back \in Nat /\ more \in Nat
      /\ more + take.row.tokens <= Capacity + Rate * (t + (rewound[b] + take.back))
  BY <1>1, TakeTokenAccounts
<1>. HIDE DEF take
<1>3. /\ bucket' = [bucket EXCEPT ![b] = take.row]
      /\ rewound' = [rewound EXCEPT ![b] = rewound[b] + take.back]
      /\ granted' = [granted EXCEPT ![b] = more]
      /\ expired' = [expired EXCEPT ![b] = 0]
      /\ UNCHANGED <<now, after, stores>>
  BY DEF Consume, take
<1>4. \/ take.allowed /\ Go(r, next, [Nothing EXCEPT !.time = now])
      \/ ~ take.allowed /\ Finish(r, "tooMany")
  BY DEF Consume, take
<1>5. TypeOK /\ now \in 0..MaxNow /\ MaxNow \in Nat
  BY GatewayAssumption DEF GBase, TypeOK
<1>. HIDE DEF more, t
<1>6. /\ bucket' \in [Buckets -> BucketRow \cup {Nil}]
      /\ granted' \in [Buckets -> Nat] /\ rewound' \in [Buckets -> Nat]
      /\ expired' \in [Buckets -> 0..MaxNow]
      /\ bucket'[b] = take.row /\ granted'[b] = more /\ expired'[b] = 0
      /\ rewound'[b] = rewound[b] + take.back
      /\ \A c \in Buckets \ {b} : /\ bucket'[c] = bucket[c] /\ granted'[c] = granted[c]
                                  /\ rewound'[c] = rewound[c] /\ expired'[c] = expired[c]
  BY <1>2, <1>3, <1>5 DEF TypeOK
<1>7. BucketsFit'
  <2>1. take.row # Nil
    BY <1>2, GatewayAssumption
  <2>2. now' = now /\ now \in Nat /\ t <= now
    BY <1>1, <1>3, <1>5
  <2>3. ASSUME NEW c \in Buckets
        PROVE  /\ expired'[c] <= now'
               /\ bucket'[c] # Nil =>
                    /\ bucket'[c].ts <= bucket'[c].written /\ bucket'[c].written <= now'
                    /\ granted'[c] + bucket'[c].tokens
                         <= Capacity + Rate * (bucket'[c].ts + rewound'[c])
               /\ bucket'[c] = Nil => granted'[c] <= Rate * (expired'[c] + rewound'[c])
    <3>1. CASE c = b
      BY <1>2, <1>6, <2>1, <2>2, <3>1
    <3>2. CASE c # b
      BY <1>6, <2>2, <3>2 DEF BucketsFit
    <3>. QED
      BY <3>1, <3>2
  <2>. QED
    BY <2>3 DEF BucketsFit
<1>8. /\ MovesTyped => TypeOK'
  BY <1>3, <1>5, <1>6 DEF TypeOK, MovesTyped, stores
<1>9. CASE ~ take.allowed /\ Finish(r, "tooMany")
  <2>1. TypeOK'
    BY <1>5, <1>8, <1>9, FinishTyped DEF Answers
  <2>2. Own(r) /\ at'[r] = "done" /\ reply'[r] = "tooMany"
    BY <1>3, <1>9, <2>1, FinishMoves DEF Answers
  <2>. QED
    BY <1>3, <1>7, <2>2 DEF Entering
<1>10. CASE take.allowed /\ Go(r, next, [Nothing EXCEPT !.time = now])
  <2>1. TypeOK'
    BY <1>5, <1>8, <1>10, GoTyped
  <2>. DEFINE with == [Nothing EXCEPT !.time = now]
  <2>2. with.time = now
    BY DEF Nothing
  <2>. HIDE DEF with
  <2>3. /\ at \in [Requests -> Steps] /\ got = [q \in Requests |-> got[q]]
        /\ at' = [at EXCEPT ![r] = next] /\ got' = [got EXCEPT ![r] = with]
        /\ UNCHANGED <<call, reply, now, after>>
    BY <1>3, <1>10 DEF GBase, TypeOK, RequestsFit, Go, with
  <2>4. /\ at'[r] = next /\ \A q \in Requests \ {r} : at'[q] = at[q]
        /\ got'[r] = with /\ \A q \in Requests \ {r} : got'[q] = got[q]
        /\ got' = [q \in Requests |-> got'[q]]
    BY <2>3
  <2>5. RequestsFit'
    BY <1>5, <2>2, <2>3, <2>4 DEF GBase, RequestsFit, Is
  <2>6. reply'[r] = Nil
    BY <2>3 DEF GBase, TypeOK
  <2>. QED
    BY <1>3, <1>7, <2>1, <2>3, <2>4, <2>5, <2>6 DEF Own, Entering, GBase, Steps
<1>. QED
  BY <1>4, <1>9, <1>10

-------------------------------------------------------------------------------
(* The handlers: which requests take which step, and which stores they touch *)

AccountStep(r) == FindUser(r) \/ SaveUser(r) \/ FindAccount(r) \/ ComparePassword(r)
SlotStep(r) == ReadBand(r) \/ ReadSlots(r) \/ SaveSlots(r)
CafeStep(r) == CreateCafe(r) \/ ReadCafe(r) \/ SaveCafe(r) \/ DropList(r)
KeyStep(r) == GenerateKey(r) \/ RevokeKey(r)
ListStep(r) == GetList(r) \/ FindCafes(r) \/ SetList(r)
PullStep(r) == CheckKey(r) \/ Pull(r)
PlaceStep(r) == GetPlace(r) \/ CallNominatim(r) \/ Located(r)

\* A request at a step of its handler is one of a call, and not answered yet.
LEMMA Handling ==
  ASSUME GBase, NEW r \in Requests, NEW op, NEW step \in {"handle", "second", "third"},
         Handles(r, op, step)
  PROVE  /\ at[r] = step /\ at[r] \notin {"new", "done"} /\ Is(r, {op}) /\ reply[r] = Nil
         /\ call[r] \in Calls
         /\ cafes \in Cafes /\ apiKey \in [Keys -> KeyStates] /\ lastCall \in [Processes -> -1..MaxNow]
BY DEF GBase, TypeOK, RequestsFit, Handles, Is

LEMMA AdmissionMoves ==
  ASSUME GBase, BucketsFit, NEW r \in Requests, Limit(r) \/ LimitUser(r)
  PROVE  Own(r) /\ Entering(r) /\ BucketsFit' /\ UNCHANGED stores
<1>1. CASE Limit(r)
  <2>1. call[r] \in Calls /\ call[r].address \in Buckets
    BY <1>1, GatewayAssumption DEF Limit, GBase, TypeOK, RequestsFit
  <2>. QED
    BY <1>1, <2>1, ConsumeMoves DEF Limit
<1>2. CASE LimitUser(r)
  <2>1. call[r] \in Calls /\ call[r].user \in Buckets
    BY <1>2, GatewayAssumption DEF LimitUser, GBase, TypeOK, RequestsFit
  <2>. QED
    BY <1>2, <2>1, ConsumeMoves DEF LimitUser
<1>. QED
  BY <1>1, <1>2

LEMMA RefusalMoves ==
  ASSUME GBase, NEW r \in Requests, RefuseOwnerCall(r)
  PROVE  Own(r) /\ Entering(r) /\ UNCHANGED <<stores, limits>>
<1>1. at[r] = "handle" /\ Finish(r, "refused") /\ UNCHANGED <<now, limits, after, stores>>
  BY DEF RefuseOwnerCall
<1>2. cafes' \in Cafes /\ apiKey' \in [Keys -> KeyStates] /\ lastCall' \in [Processes -> -1..MaxNow]
  BY <1>1 DEF stores, GBase, TypeOK
<1>3. Own(r) /\ at'[r] = "done" /\ reply'[r] = "refused"
  BY <1>1, <1>2, HandlerMoves DEF Answers
<1>. QED
  BY <1>1, <1>3 DEF Entering

LEMMA ReadMoves ==
  ASSUME GBase, NEW r \in Requests, ReadOwned(r)
  PROVE  Own(r) /\ Is(r, {"read"}) /\ UNCHANGED <<stores, limits>>
<1>1. Handles(r, "read", "handle") /\ Finish(r, "ok")
      /\ UNCHANGED <<now, limits, after, stores>>
  BY DEF ReadOwned, Serves
<1>2. at[r] \notin {"new", "done"} /\ Is(r, {"read"})
  BY <1>1, Handling
<1>3. cafes' \in Cafes /\ apiKey' \in [Keys -> KeyStates] /\ lastCall' \in [Processes -> -1..MaxNow]
  BY <1>1 DEF stores, GBase, TypeOK
<1>. QED
  BY <1>1, <1>2, <1>3, HandlerMoves DEF Answers

LEMMA AccountMoves ==
  ASSUME GBase, NEW r \in Requests, AccountStep(r)
  PROVE  /\ Own(r) /\ Is(r, {"signup", "login"})
         /\ UNCHANGED <<limits, cafes, list, slots, apiKey, place, lastCall, called>>
<1>1. /\ \E op \in {"signup", "login"}, step \in {"handle", "second"} : Handles(r, op, step)
      /\ UNCHANGED <<now, limits, after, cafes, list, slots, apiKey, place, lastCall, called>>
      /\ \/ \E answer \in Answers : Finish(r, answer)
         \/ \E with : Go(r, "second", with)
  BY DEF AccountStep, FindUser, SaveUser, FindAccount, ComparePassword, stores, Answers
<1>2. at[r] \notin {"new", "done"} /\ Is(r, {"signup", "login"}) /\ ~ Is(r, {"update"})
  BY <1>1, Handling DEF Is
<1>3. cafes' \in Cafes /\ apiKey' \in [Keys -> KeyStates] /\ lastCall' \in [Processes -> -1..MaxNow]
  BY <1>1 DEF GBase, TypeOK
<1>. QED
  BY <1>1, <1>2, <1>3, HandlerMoves

LEMMA SlotMoves ==
  ASSUME GBase, NEW r \in Requests, SlotStep(r)
  PROVE  /\ Own(r) /\ Is(r, {"generate"})
         /\ UNCHANGED <<limits, users, cafes, list, apiKey, place, lastCall, called>>
<1>1. /\ \E step \in {"handle", "second", "third"} : Handles(r, "generate", step)
      /\ UNCHANGED <<now, limits, after, users, cafes, list, apiKey, place, lastCall, called>>
      /\ \/ \E answer \in Answers : Finish(r, answer)
         \/ \E step \in {"second", "third"} : \E with : Go(r, step, with)
  BY DEF SlotStep, ReadBand, ReadSlots, SaveSlots, Serves, stores, Answers
<1>2. at[r] \notin {"new", "done"} /\ Is(r, {"generate"}) /\ ~ Is(r, {"update"})
  BY <1>1, Handling DEF Is
<1>3. cafes' \in Cafes /\ apiKey' \in [Keys -> KeyStates] /\ lastCall' \in [Processes -> -1..MaxNow]
  BY <1>1 DEF GBase, TypeOK
<1>. QED
  BY <1>1, <1>2, <1>3, HandlerMoves

LEMMA KeyMoves ==
  ASSUME GBase, NEW r \in Requests, KeyStep(r)
  PROVE  /\ Own(r) /\ Is(r, {"newKey", "revoke"})
         /\ UNCHANGED <<limits, users, cafes, list, slots, place, lastCall, called>>
<1>1. /\ \E op \in {"newKey", "revoke"} : Handles(r, op, "handle")
      /\ UNCHANGED <<now, limits, after, users, cafes, list, slots, place, lastCall, called>>
      /\ \E answer \in Answers : Finish(r, answer)
      /\ \/ UNCHANGED apiKey
         \/ \E state \in KeyStates : apiKey' = [apiKey EXCEPT ![call[r].key] = state]
  BY DEF KeyStep, GenerateKey, RevokeKey, Serves, Answers, KeyStates
<1>2. at[r] \notin {"new", "done"} /\ Is(r, {"newKey", "revoke"})
  BY <1>1, Handling DEF Is
<1>3. cafes' \in Cafes /\ apiKey' \in [Keys -> KeyStates] /\ lastCall' \in [Processes -> -1..MaxNow]
  BY <1>1 DEF GBase, TypeOK
<1>. QED
  BY <1>1, <1>2, <1>3, HandlerMoves

LEMMA ListMoves ==
  ASSUME GBase, NEW r \in Requests, ListStep(r)
  PROVE  /\ Own(r) /\ Is(r, {"list"})
         /\ UNCHANGED <<limits, users, cafes, slots, apiKey, place, lastCall, called>>
<1>1. /\ \E step \in {"handle", "second", "third"} : Handles(r, "list", step)
      /\ UNCHANGED <<now, limits, after, users, cafes, slots, apiKey, place, lastCall, called>>
      /\ \/ \E answer \in Answers : Finish(r, answer)
         \/ \E step \in {"second", "third"} : \E with : Go(r, step, with)
  BY DEF ListStep, GetList, FindCafes, SetList, stores, Answers
<1>2. at[r] \notin {"new", "done"} /\ Is(r, {"list"}) /\ ~ Is(r, {"update"})
  BY <1>1, Handling DEF Is
<1>3. cafes' \in Cafes /\ apiKey' \in [Keys -> KeyStates] /\ lastCall' \in [Processes -> -1..MaxNow]
  BY <1>1 DEF GBase, TypeOK
<1>. QED
  BY <1>1, <1>2, <1>3, HandlerMoves

LEMMA PullMoves ==
  ASSUME GBase, NEW r \in Requests, PullStep(r)
  PROVE  Own(r) /\ Is(r, {"pull"}) /\ UNCHANGED <<limits, stores>>
<1>1. /\ \E step \in {"handle", "second"} : Handles(r, "pull", step)
      /\ UNCHANGED <<now, limits, after, stores>>
      /\ \/ \E answer \in Answers : Finish(r, answer)
         \/ \E with : Go(r, "second", with)
  BY DEF PullStep, CheckKey, Pull, Answers
<1>2. at[r] \notin {"new", "done"} /\ Is(r, {"pull"}) /\ ~ Is(r, {"update"})
  BY <1>1, Handling DEF Is
<1>3. cafes' \in Cafes /\ apiKey' \in [Keys -> KeyStates] /\ lastCall' \in [Processes -> -1..MaxNow]
  BY <1>1 DEF GBase, TypeOK, stores
<1>. QED
  BY <1>1, <1>2, <1>3, HandlerMoves

LEMMA PlaceMoves ==
  ASSUME GBase, NEW r \in Requests, PlaceStep(r)
  PROVE  /\ Own(r) /\ Is(r, {"locality"})
         /\ UNCHANGED <<limits, users, cafes, list, slots, apiKey>>
<1>1. /\ \E step \in {"handle", "second", "third"} : Handles(r, "locality", step)
      /\ UNCHANGED <<now, limits, after, users, cafes, list, slots, apiKey>>
      /\ lastCall' \in {lastCall, [lastCall EXCEPT ![got[r].process] = now]}
      /\ \/ \E answer \in Answers : Finish(r, answer)
         \/ \E step \in {"second", "third"} : \E with : Go(r, step, with)
  BY DEF PlaceStep, GetPlace, CallNominatim, Located, stores, Answers
<1>2. at[r] \notin {"new", "done"} /\ Is(r, {"locality"}) /\ ~ Is(r, {"update"})
  BY <1>1, Handling DEF Is
<1>3. cafes' \in Cafes /\ apiKey' \in [Keys -> KeyStates] /\ lastCall' \in [Processes -> -1..MaxNow]
  <2>1. lastCall \in [Processes -> -1..MaxNow] /\ now \in 0..MaxNow /\ MaxNow \in Nat
    BY GatewayAssumption DEF GBase, TypeOK
  <2>. QED
    BY <1>1, <2>1 DEF GBase, TypeOK
<1>. QED
  BY <1>1, <1>2, <1>3, HandlerMoves

\* A change to a cafe reads, saves, and has its list dropped at the third step.
LEMMA CafeMoves ==
  ASSUME GBase, NEW r \in Requests, CafeStep(r)
  PROVE  /\ Own(r) /\ Is(r, {"create", "update"})
         /\ UNCHANGED <<limits, users, slots, apiKey, place, lastCall, called>>
         /\ \/ UNCHANGED <<cafes, list>> /\ at[r] = "handle" /\ at'[r] = "second"
            \/ UNCHANGED list /\ at[r] \in {"handle", "second"} /\ at'[r] = "third"
            \/ UNCHANGED cafes /\ list' = Nil /\ at'[r] = "done" /\ reply'[r] = "ok"
         /\ cafes.band # cafes'.band => Is(r, {"update"})
<1>1. UNCHANGED <<now, limits, after, users, slots, apiKey, place, lastCall, called>>
  BY DEF CafeStep, CreateCafe, ReadCafe, SaveCafe, DropList, stores
<1>2. apiKey' \in [Keys -> KeyStates] /\ lastCall' \in [Processes -> -1..MaxNow] /\ cafes \in Cafes
  BY <1>1 DEF GBase, TypeOK
<1>3. CASE CreateCafe(r)
  <2>1. /\ Handles(r, "create", "handle") /\ Go(r, "third", Nothing) /\ UNCHANGED list
        /\ cafes' = [cafes EXCEPT !.opened = @ \cup {r}]
    BY <1>3 DEF CreateCafe, Serves
  <2>2. at[r] = "handle" /\ Is(r, {"create"})
    BY <2>1, Handling
  <2>3. cafes' \in Cafes /\ cafes'.band = cafes.band
    BY <1>2, <2>1 DEF Cafes
  <2>4. Own(r) /\ at'[r] = "third"
    BY <1>1, <1>2, <2>1, <2>2, <2>3, HandlerMoves
  <2>. QED
    BY <1>1, <2>1, <2>2, <2>3, <2>4 DEF Is
<1>4. CASE ReadCafe(r)
  <2>. DEFINE edited == [cafes EXCEPT !.band = call[r].band]
              with == [Nothing EXCEPT !.cafes = edited]
  <2>1. Handles(r, "update", "handle") /\ Go(r, "second", with) /\ UNCHANGED <<cafes, list>>
    BY <1>4 DEF ReadCafe, Serves, stores
  <2>2. at[r] = "handle" /\ Is(r, {"update"}) /\ call[r] \in Calls
    BY <2>1, Handling
  <2>3. edited.band \in Nat
    BY <1>2, <2>2, GatewayAssumption DEF Cafes, Is
  <2>. HIDE DEF edited
  <2>4. with.cafes = edited
    BY DEF Nothing
  <2>. HIDE DEF with
  <2>5. Own(r) /\ at'[r] = "second"
    BY <1>1, <1>2, <2>1, <2>2, <2>3, <2>4, HandlerMoves
  <2>. QED
    BY <1>1, <2>1, <2>2, <2>5 DEF Is
<1>5. CASE SaveCafe(r)
  <2>1. /\ Handles(r, "update", "second") /\ Go(r, "third", Nothing) /\ UNCHANGED list
        /\ cafes' = [cafes EXCEPT !.band = got[r].cafes.band]
    BY <1>5 DEF SaveCafe
  <2>2. at[r] = "second" /\ Is(r, {"update"})
    BY <2>1, Handling
  <2>3. got[r].cafes.band \in Nat
    BY <2>2 DEF GBase, RequestsFit
  <2>4. cafes' \in Cafes
    BY <1>2, <2>1, <2>3 DEF Cafes
  <2>5. Own(r) /\ at'[r] = "third"
    BY <1>1, <1>2, <2>1, <2>2, <2>4, HandlerMoves
  <2>. QED
    BY <1>1, <2>1, <2>2, <2>5 DEF Is
<1>6. CASE DropList(r)
  <2>1. /\ \E op \in {"create", "update"} : Handles(r, op, "third")
        /\ Finish(r, "ok") /\ UNCHANGED cafes /\ list' = Nil
    BY <1>6 DEF DropList
  <2>2. at[r] = "third" /\ Is(r, {"create", "update"})
    BY <2>1, Handling DEF Is
  <2>3. Own(r) /\ at'[r] = "done" /\ reply'[r] = "ok"
    BY <1>1, <1>2, <2>1, <2>2, HandlerMoves DEF Answers
  <2>. QED
    BY <1>1, <2>1, <2>2, <2>3
<1>. QED
  BY <1>3, <1>4, <1>5, <1>6 DEF CafeStep

-------------------------------------------------------------------------------
(* Every step *)

\* Requests keep their calls and whom they follow, answers stand, and who arrives
\* follows what is done.
Kept ==
  /\ \A q \in Requests :
       /\ at[q] # "new" => /\ call'[q] = call[q] /\ after'[q] = after[q]
                           /\ at'[q] # "new"
       /\ at[q] = "done" => at'[q] = "done" /\ reply'[q] = reply[q]
       /\ at[q] = "new" => \A p \in after'[q] : at[p] = "done"
  /\ now \in Nat /\ now' \in {now, now + 1}

\* None of the requests with these calls takes a step of its handler.
Quiet(ops) ==
  \A q \in Requests : Is(q, ops)' =>
    \/ Entering(q)
    \/ /\ Is(q, ops) /\ at[q] # "new"
       /\ at'[q] = at[q] /\ got'[q] = got[q] /\ reply'[q] = reply[q]

LEMMA OwnKeeps ==
  ASSUME GBase, NEW r \in Requests, Own(r)
  PROVE  /\ Kept /\ GBase'
         /\ \A ops : Entering(r) \/ ~ Is(r, ops) => Quiet(ops)
<1>1. now \in Nat
  BY GatewayAssumption DEF GBase, TypeOK
<1>2. Kept
  BY <1>1 DEF Own, Kept, GBase, RequestsFit
<1>3. ASSUME NEW ops, Entering(r) \/ ~ Is(r, ops) PROVE Quiet(ops)
  <2>. SUFFICES ASSUME NEW q \in Requests, Is(q, ops)'
                PROVE  \/ Entering(q)
                       \/ /\ Is(q, ops) /\ at[q] # "new"
                          /\ at'[q] = at[q] /\ got'[q] = got[q] /\ reply'[q] = reply[q]
    BY DEF Quiet
  <2>1. call' = call
    BY DEF Own
  <2>2. Is(q, ops) /\ at[q] # "new"
    BY <2>1 DEF Is, GBase, RequestsFit
  <2>. QED
    BY <1>3, <2>2 DEF Own
<1>. QED
  BY <1>2, <1>3 DEF Own

LEMMA ArriveKeeps ==
  ASSUME GBase, NEW r \in Requests, NEW c \in Calls, Arrive(r, c)
  PROVE  /\ Kept /\ GBase' /\ UNCHANGED <<limits, stores>> /\ now' = now
         /\ \A ops : Quiet(ops)
<1>1. /\ at[r] = "new" /\ call' = [call EXCEPT ![r] = c] /\ at' = [at EXCEPT ![r] = "limit"]
      /\ got' = [got EXCEPT ![r].time = now]
      /\ after' = [after EXCEPT ![r] = {q \in Requests : at[q] = "done"}]
      /\ UNCHANGED <<now, reply, limits, stores>>
  BY DEF Arrive
<1>2. /\ call \in [Requests -> Calls \cup {Nil}] /\ at \in [Requests -> Steps]
      /\ after \in [Requests -> SUBSET Requests] /\ got = [q \in Requests |-> got[q]]
      /\ got[r] = Nothing /\ now \in Nat /\ reply[r] = Nil
  BY <1>1, GatewayAssumption DEF GBase, TypeOK, RequestsFit
<1>. DEFINE with == [Nothing EXCEPT !.time = now]
<1>3. with.time = now
  BY DEF Nothing
<1>4. got' = [got EXCEPT ![r] = with]
  BY <1>1, <1>2
<1>. HIDE DEF with
<1>5. /\ call'[r] = c /\ at'[r] = "limit" /\ after'[r] = {q \in Requests : at[q] = "done"}
      /\ got'[r] = with /\ got' = [q \in Requests |-> got'[q]]
      /\ \A q \in Requests \ {r} : /\ call'[q] = call[q] /\ at'[q] = at[q]
                                   /\ after'[q] = after[q] /\ got'[q] = got[q]
  BY <1>1, <1>2, <1>4
<1>6. TypeOK'
  <2>1. /\ call' \in [Requests -> Calls \cup {Nil}] /\ at' \in [Requests -> Steps]
        /\ after' \in [Requests -> SUBSET Requests]
    BY <1>1, <1>2 DEF Steps
  <2>2. \A q \in Requests : at'[q] = "done" <=> reply'[q] # Nil
    BY <1>1, <1>2, <1>5 DEF GBase, TypeOK
  <2>. QED
    BY <1>1, <2>1, <2>2 DEF GBase, TypeOK, limits, stores
<1>7. RequestsFit'
  <2>1. c # Nil
    BY GatewayAssumption
  <2>2. ASSUME NEW q \in Requests
        PROVE  /\ at'[q] = "new" <=> call'[q] = Nil
               /\ at'[q] = "new" => got'[q] = Nothing
               /\ at'[q] \in {"limit", "userLimit"} => got'[q].time \in 0..now'
               /\ at'[q] = "userLimit" => call'[q].user # Nil
               /\ Is(q, {"update"})' /\ at'[q] = "second" => got'[q].cafes.band \in Nat
               /\ at'[q] = "new" => after'[q] = {}
               /\ \A p \in after'[q] : at'[p] = "done"
    <3>1. \A p \in Requests : at[p] = "done" => at'[p] = "done"
      BY <1>1, <1>5
    <3>2. after[q] \subseteq Requests
      BY <1>2
    <3>3. CASE q = r
      BY <1>1, <1>2, <1>3, <1>5, <2>1, <3>1, <3>3
    <3>4. CASE q # r
      BY <1>1, <1>5, <3>1, <3>2, <3>4 DEF GBase, RequestsFit, Is
    <3>. QED
      BY <3>3, <3>4
  <2>. QED
    BY <1>5, <2>2 DEF RequestsFit
<1>8. Kept
  <2>1. ASSUME NEW q \in Requests
        PROVE  /\ at[q] # "new" => /\ call'[q] = call[q] /\ after'[q] = after[q]
                                   /\ at'[q] # "new"
               /\ at[q] = "done" => at'[q] = "done" /\ reply'[q] = reply[q]
               /\ at[q] = "new" => \A p \in after'[q] : at[p] = "done"
    <3>1. CASE q = r
      BY <1>1, <1>5, <3>1
    <3>2. CASE q # r
      BY <1>1, <1>5, <3>2 DEF GBase, RequestsFit
    <3>. QED
      BY <3>1, <3>2
  <2>. QED
    BY <1>1, <1>2, <2>1 DEF Kept
<1>9. ASSUME NEW ops PROVE Quiet(ops)
  <2>. SUFFICES ASSUME NEW q \in Requests, Is(q, ops)', q # r
                PROVE  /\ Is(q, ops) /\ at[q] # "new"
                       /\ at'[q] = at[q] /\ got'[q] = got[q] /\ reply'[q] = reply[q]
    BY <1>1, <1>2, <1>5 DEF Quiet, Entering
  <2>1. call'[q] = call[q]
    BY <1>5
  <2>2. Is(q, ops) /\ at[q] # "new"
    BY <2>1 DEF Is, GBase, RequestsFit
  <2>. QED
    BY <1>1, <1>5, <2>2
<1>. QED
  BY <1>1, <1>6, <1>7, <1>8, <1>9 DEF GBase

\* What no request does: time passes, a bucket or the cached list expires.
LEMMA AmbientKeeps ==
  ASSUME GBase, TypeOK', UNCHANGED <<call, at, got, reply, after>>, now' \in {now, now + 1}
  PROVE  Kept /\ GBase' /\ \A ops : Quiet(ops)
<1>1. now \in Nat
  BY GatewayAssumption DEF GBase, TypeOK
<1>2. \A t \in 0..now : t \in 0..now'
  BY <1>1
<1>3. RequestsFit'
  BY <1>2 DEF GBase, RequestsFit, Is
<1>4. Kept
  BY <1>1 DEF Kept, GBase, RequestsFit
<1>5. ASSUME NEW ops, NEW q \in Requests, Is(q, ops)' PROVE Is(q, ops) /\ at[q] # "new"
  BY <1>5 DEF Is, GBase, RequestsFit
<1>. QED
  BY <1>3, <1>4, <1>5 DEF GBase, Quiet

\* A bucket that expires has been idle long enough to be full.
LEMMA IdleIsFull == TimeToLive \in Nat /\ Rate * TimeToLive >= Capacity
<1>. DEFINE fill == (Capacity + Rate - 1) \div Rate
<1>1. Capacity \in Nat /\ Rate \in Nat /\ Rate > 0
  BY GatewayAssumption
<1>2. fill \in Nat /\ Rate * fill >= Capacity
  BY <1>1
<1>. HIDE DEF fill
<1>3. Rate * (2 * fill) = Rate * fill + Rate * fill /\ Rate * fill \in Nat
  BY <1>1, <1>2
<1>. QED
  BY <1>1, <1>2, <1>3 DEF TimeToLive, fill

LEMMA ExpiryAccounts ==
  ASSUME GBase, BucketsFit, NEW b \in Buckets, BucketExpires(b)
  PROVE  TypeOK' /\ BucketsFit'
<1>1. /\ bucket[b] # Nil /\ now >= bucket[b].written + TimeToLive
      /\ bucket' = [bucket EXCEPT ![b] = Nil] /\ expired' = [expired EXCEPT ![b] = now]
      /\ UNCHANGED <<now, call, at, got, reply, granted, rewound, after, stores>>
  BY DEF BucketExpires
<1>2. /\ bucket \in [Buckets -> BucketRow \cup {Nil}] /\ expired \in [Buckets -> 0..MaxNow]
      /\ now \in 0..MaxNow /\ now \in Nat /\ granted[b] \in Nat /\ rewound[b] \in Nat
      /\ bucket[b].tokens \in Nat /\ bucket[b].ts \in Nat /\ bucket[b].written \in Nat
      /\ Capacity \in Nat /\ Rate \in Nat
  BY <1>1, GatewayAssumption DEF GBase, TypeOK, BucketRow
<1>3. TypeOK'
  BY <1>1, <1>2 DEF GBase, TypeOK, stores
<1>4. /\ bucket[b].ts <= bucket[b].written
      /\ granted[b] + bucket[b].tokens <= Capacity + Rate * (bucket[b].ts + rewound[b])
  BY <1>1 DEF BucketsFit
<1>5. TimeToLive \in Nat /\ Rate * TimeToLive >= Capacity /\ Rate * TimeToLive \in Nat
  BY <1>2, IdleIsFull
<1>6. /\ Rate * (bucket[b].ts + rewound[b]) \in Nat
      /\ Rate * (bucket[b].ts + rewound[b] + TimeToLive)
           = Rate * (bucket[b].ts + rewound[b]) + Rate * TimeToLive
  BY <1>2, <1>5
<1>7. bucket[b].ts + rewound[b] + TimeToLive <= now + rewound[b]
  BY <1>1, <1>2, <1>4, <1>5
<1>8. /\ Rate * (bucket[b].ts + rewound[b] + TimeToLive) <= Rate * (now + rewound[b])
      /\ Rate * (now + rewound[b]) \in Nat
  BY <1>2, <1>5, <1>7, MoreTimeEarnsMore
<1>. DEFINE then == Rate * (bucket[b].ts + rewound[b])
            life == Rate * TimeToLive
            today == Rate * (now + rewound[b])
<1>9. /\ then \in Nat /\ life \in Nat /\ today \in Nat
      /\ then + life <= today /\ life >= Capacity
      /\ granted[b] + bucket[b].tokens <= Capacity + then
  BY <1>4, <1>5, <1>6, <1>8
<1>. HIDE DEF then, life
<1>10. granted[b] <= today
  BY <1>2, <1>9
<1>11. ASSUME NEW c \in Buckets
       PROVE  /\ expired'[c] <= now'
              /\ bucket'[c] # Nil =>
                   /\ bucket'[c].ts <= bucket'[c].written /\ bucket'[c].written <= now'
                   /\ granted'[c] + bucket'[c].tokens
                        <= Capacity + Rate * (bucket'[c].ts + rewound'[c])
              /\ bucket'[c] = Nil => granted'[c] <= Rate * (expired'[c] + rewound'[c])
  <2>1. CASE c = b
    <3>1. bucket'[b] = Nil /\ expired'[b] = now
      BY <1>1, <1>2
    <3>. QED
      BY <1>1, <1>2, <1>10, <2>1, <3>1
  <2>2. CASE c # b
    <3>1. bucket'[c] = bucket[c] /\ expired'[c] = expired[c]
      BY <1>1, <1>2, <2>2
    <3>. QED
      BY <1>1, <3>1 DEF BucketsFit
  <2>. QED
    BY <2>1, <2>2
<1>. QED
  BY <1>3, <1>11 DEF BucketsFit

-------------------------------------------------------------------------------
(* Accounts *)

LEMMA AccountsStay ==
  ASSUME GBase, GBase', Kept, AccountsFit, Quiet({"signup", "login"}), UNCHANGED users
  PROVE  AccountsFit'
<1>1. ASSUME NEW r \in Requests, Is(r, {"signup", "login"})', at'[r] = "second" \/ reply'[r] = "ok"
      PROVE  /\ call'[r] = call[r] /\ Is(r, {"signup", "login"}) /\ at'[r] = at[r]
             /\ got'[r] = got[r] /\ reply'[r] = reply[r]
  <2>1. ~ Entering(r)
    BY <1>1, GatewayAssumption DEF Entering, Answers
  <2>. QED
    BY <1>1, <2>1 DEF Quiet, Kept
<1>2. ASSUME NEW r \in Requests, Is(r, {"login"})', at'[r] = "second"
      PROVE  got'[r].account \in users' /\ got'[r].account.email = call'[r].email
  <2>1. Is(r, {"signup", "login"})'
    BY <1>2 DEF Is
  <2>. QED
    BY <1>1, <1>2, <2>1 DEF AccountsFit, Is
<1>3. ASSUME NEW r \in Requests, Is(r, {"signup", "login"})', reply'[r] = "ok"
      PROVE  Account(r)' \in users'
  BY <1>1, <1>3 DEF AccountsFit, Account
<1>. QED
  BY <1>2, <1>3 DEF AccountsFit

LEMMA AccountsStep ==
  ASSUME GBase, Kept, AccountsFit, NEW r \in Requests, AccountStep(r), Own(r)
  PROVE  AccountsFit'
<1>1. /\ call' = call /\ call[r] # Nil /\ users \subseteq users'
      /\ \A q \in Requests \ {r} : at'[q] = at[q] /\ got'[q] = got[q] /\ reply'[q] = reply[q]
      /\ \A q \in Requests : Account(q)' = Account(q)
  <2>1. users \subseteq users'
    BY DEF AccountStep, FindUser, SaveUser, FindAccount, ComparePassword, stores
  <2>. QED
    BY <2>1 DEF Own, GBase, RequestsFit, Account
<1>2. \A u \in users : u = [email |-> u.email, password |-> u.password]
  BY DEF AccountsFit
<1>3. CASE FindUser(r) \/ FindAccount(r) \/ ComparePassword(r)
  <2>1. users' = users
    BY <1>3 DEF FindUser, FindAccount, ComparePassword, stores
  <2>2. /\ Is(r, {"login"}) /\ at'[r] = "second" =>
             got'[r].account \in users /\ got'[r].account.email = call[r].email
        /\ reply'[r] = "ok" => Account(r) \in users
    <3>1. /\ at \in [Requests -> Steps] /\ got = [q \in Requests |-> got[q]]
          /\ reply \in [Requests -> Answers \cup {Nil}]
          /\ reply[r] = Nil /\ Nil # "ok"
      BY GatewayAssumption DEF GBase, TypeOK, RequestsFit, Own, Answers
    <3>2. CASE FindUser(r)
      <4>1. reply'[r] # "ok" /\ ~ Is(r, {"login"})
        BY <3>1, <3>2 DEF FindUser, Handles, Go, Finish, Is
      <4>. QED
        BY <4>1
    <3>3. CASE FindAccount(r)
      <4>1. CASE Finish(r, "refused")
        BY <3>1, <4>1 DEF Finish
      <4>2. CASE \E u \in users : /\ u.email = call[r].email
                                  /\ Go(r, "second", [Nothing EXCEPT !.account = u])
        <5>1. PICK u \in users : /\ u.email = call[r].email
                                 /\ Go(r, "second", [Nothing EXCEPT !.account = u])
          BY <4>2
        <5>. DEFINE with == [Nothing EXCEPT !.account = u]
        <5>2. with.account = u
          BY DEF Nothing
        <5>. HIDE DEF with
        <5>3. got'[r] = with /\ reply'[r] = Nil
          BY <3>1, <5>1 DEF Go, with
        <5>. QED
          BY <3>1, <5>1, <5>2, <5>3
      <4>. QED
        BY <3>3, <4>1, <4>2 DEF FindAccount
    <3>4. CASE ComparePassword(r)
      <4>1. /\ Is(r, {"login"}) /\ at[r] = "second"
            /\ Finish(r, IF got[r].account.password = call[r].password THEN "ok" ELSE "refused")
        BY <1>1, <3>4 DEF ComparePassword, Handles, Is
      <4>2. got[r].account \in users /\ got[r].account.email = call[r].email
        BY <4>1 DEF AccountsFit
      <4>3. reply'[r] = "ok" => got[r].account.password = call[r].password
        BY <3>1, <4>1 DEF Finish
      <4>4. at'[r] = "done"
        BY <3>1, <4>1 DEF Finish
      <4>. QED
        BY <1>2, <4>2, <4>3, <4>4 DEF Account
    <3>. QED
      BY <1>3, <3>2, <3>3, <3>4
  <2>. QED
    BY <1>1, <2>1, <2>2 DEF AccountsFit, Is
<1>4. CASE SaveUser(r)
  <2>1. /\ reply \in [Requests -> Answers \cup {Nil}] /\ at \in [Requests -> Steps]
    BY DEF GBase, TypeOK
  <2>2. at'[r] = "done"
    BY <1>4, <2>1 DEF SaveUser, Finish
  <2>3. CASE \E u \in users : u.email = call[r].email
    <3>1. users' = users /\ reply'[r] = "error"
      BY <1>4, <2>1, <2>3 DEF SaveUser, Finish
    <3>. QED
      BY <1>1, <2>2, <3>1 DEF AccountsFit, Is
  <2>4. CASE ~ \E u \in users : u.email = call[r].email
    <3>1. users' = users \cup {Account(r)}
      BY <1>4, <2>4 DEF SaveUser
    <3>2. /\ Account(r).email = call[r].email /\ Account(r).password = call[r].password
          /\ Account(r) = [email |-> Account(r).email, password |-> Account(r).password]
      BY DEF Account
    <3>. HIDE DEF Account
    <3>3. \A u, v \in users' : u.email = v.email => u = v
      BY <2>4, <3>1, <3>2 DEF AccountsFit
    <3>4. \A u \in users' : u = [email |-> u.email, password |-> u.password]
      BY <1>2, <3>1, <3>2
    <3>. QED
      BY <1>1, <2>2, <3>1, <3>3, <3>4 DEF AccountsFit, Is
  <2>. QED
    BY <2>3, <2>4
<1>. QED
  BY <1>3, <1>4 DEF AccountStep

-------------------------------------------------------------------------------
(* Slots and their prices *)

LEMMA SlotsStay ==
  ASSUME GBase, GBase', Kept, SlotsFit, Quiet({"generate"}), UNCHANGED slots
  PROVE  SlotsFit'
<1>1. \A s \in slots : /\ s.by \in Requests /\ at[s.by] = "done" /\ at'[s.by] = "done"
                       /\ call'[s.by] = call[s.by] /\ after'[s.by] = after[s.by]
  BY DEF SlotsFit, Kept
<1>2. \A s \in slots : Is(s.by, {"generate"})' /\ s.time \in CandidateTimes(call'[s.by].grid)
  BY <1>1 DEF SlotsFit, Is
<1>3. ASSUME NEW r \in Requests, Is(r, {"generate"})', at'[r] = "third"
      PROVE  /\ Is(r, {"generate"}) /\ at[r] = "third" /\ got'[r] = got[r]
             /\ call'[r] = call[r] /\ after'[r] = after[r]
  BY <1>3 DEF Quiet, Entering, Kept
<1>4. ASSUME NEW r \in Requests, Is(r, {"generate"})', at'[r] = "third", NEW s \in slots,
             s.by \in after'[r], s.time \in CandidateTimes(call'[r].grid)
      PROVE  s.time \in got'[r].times
  BY <1>3, <1>4 DEF SlotsFit
<1>5. SameTimeNeedsOverlap'
  BY <1>1 DEF SlotsFit, SameTimeNeedsOverlap, Overlap
<1>6. \A s, u \in slots : s.by = u.by /\ s.time = u.time => s = u
  BY DEF SlotsFit
<1>. QED
  BY <1>1, <1>2, <1>4, <1>5, <1>6 DEF SlotsFit

\* A generator sees the grid, and saves what it has not seen: a slot it duplicates was
\* saved after it arrived, by a request that it did not follow.
LEMMA SlotsStep ==
  ASSUME GBase, SlotsFit, BandsFit, NEW r \in Requests, SlotStep(r), Own(r)
  PROVE  SlotsFit'
<1>1. /\ call' = call /\ after' = after
      /\ \A q \in Requests \ {r} : at'[q] = at[q] /\ got'[q] = got[q]
      /\ at[r] # "done" /\ \A q \in Requests : r \notin after[q]
      /\ at \in [Requests -> Steps] /\ got = [q \in Requests |-> got[q]]
  BY DEF Own, GBase, RequestsFit, TypeOK
<1>2. \A s \in slots : s.by \in Requests \ {r}
  BY <1>1 DEF SlotsFit
<1>3. \A q : Is(q, {"generate"})' = Is(q, {"generate"})
  BY <1>1 DEF Is
<1>4. CASE ReadBand(r) \/ ReadSlots(r)
  <2>1. slots' = slots
    BY <1>4 DEF ReadBand, ReadSlots, stores
  <2>2. at'[r] = "third" =>
          \A s \in slots : s.time \in CandidateTimes(call[r].grid) => s.time \in got'[r].times
    <3>1. CASE ReadBand(r)
      BY <1>1, <3>1 DEF ReadBand, Go, Finish
    <3>2. CASE ReadSlots(r)
      <4>. DEFINE times == {s.time : s \in slots} \cap CandidateTimes(call[r].grid)
                  with == [got[r] EXCEPT !.times = times]
      <4>1. got' = [got EXCEPT ![r] = with]
        BY <3>2 DEF ReadSlots, Go
      <4>2. Handles(r, "generate", "second")
        BY <3>2 DEF ReadSlots
      <4>3. got[r] = [Nothing EXCEPT !.cafes = got[r].cafes]
        BY <4>2, Handling DEF BandsFit
      <4>4. with.times = times
        BY <4>3 DEF Nothing
      <4>. HIDE DEF with
      <4>5. got'[r] = with
        BY <1>1, <4>1
      <4>. QED
        BY <4>4, <4>5
    <3>. QED
      BY <1>4, <3>1, <3>2
  <2>3. ASSUME NEW q \in Requests, Is(q, {"generate"}), at'[q] = "third", NEW s \in slots,
               s.by \in after[q], s.time \in CandidateTimes(call[q].grid)
        PROVE  s.time \in got'[q].times
    <3>1. CASE q = r
      BY <2>2, <2>3, <3>1
    <3>2. CASE q # r
      BY <1>1, <2>3, <3>2 DEF SlotsFit
    <3>. QED
      BY <3>1, <3>2
  <2>4. SameTimeNeedsOverlap'
    BY <1>1, <2>1 DEF SlotsFit, SameTimeNeedsOverlap, Overlap
  <2>5. \A s \in slots : /\ s.by \in Requests /\ at'[s.by] = "done"
                         /\ Is(s.by, {"generate"}) /\ s.time \in CandidateTimes(call[s.by].grid)
    BY <1>1, <1>2 DEF SlotsFit
  <2>6. \A s, u \in slots : s.by = u.by /\ s.time = u.time => s = u
    BY DEF SlotsFit
  <2>. QED
    BY <1>1, <1>3, <2>1, <2>3, <2>4, <2>5, <2>6 DEF SlotsFit
<1>5. CASE SaveSlots(r)
  <2>1. /\ Is(r, {"generate"}) /\ at[r] = "third"
        /\ slots' = slots \cup {NewSlot(r, t) : t \in NewTimes(r)}
        /\ Finish(r, "ok")
    <3>1. Handles(r, "generate", "third")
      BY <1>5 DEF SaveSlots
    <3>. QED
      BY <1>5, <3>1, Handling DEF SaveSlots
  <2>2. at'[r] = "done"
    BY <1>1, <2>1 DEF Finish
  <2>3. ASSUME NEW s \in slots' \ slots
        PROVE  /\ s.by = r /\ s.time \in CandidateTimes(call[r].grid) \ got[r].times
               /\ s = NewSlot(r, s.time)
    <3>1. PICK t \in NewTimes(r) : s = NewSlot(r, t)
      BY <2>1
    <3>2. s.by = r /\ s.time = t
      BY <3>1 DEF NewSlot
    <3>. QED
      BY <3>1, <3>2 DEF NewTimes
  <2>4. ASSUME NEW s \in slots', NEW u \in slots', s.by = u.by, s.time = u.time PROVE s = u
    <3>1. CASE s \in slots /\ u \in slots
      BY <2>4, <3>1 DEF SlotsFit
    <3>2. CASE s \notin slots
      BY <1>2, <2>3, <2>4, <3>2
    <3>3. CASE u \notin slots
      BY <1>2, <2>3, <2>4, <3>3
    <3>. QED
      BY <3>1, <3>2, <3>3
  <2>5. ASSUME NEW s \in slots', NEW u \in slots \ {s}, s \notin slots, s.time = u.time
        PROVE  Overlap(s.by, u.by) /\ Overlap(u.by, s.by)
    <3>1. s.by = r /\ s.time \in CandidateTimes(call[r].grid) \ got[r].times
      BY <2>3, <2>5
    <3>2. u.by \notin after[r]
      BY <2>1, <2>5, <3>1 DEF SlotsFit
    <3>. QED
      BY <1>1, <1>2, <3>1, <3>2 DEF Overlap
  <2>6. SameTimeNeedsOverlap'
    <3>. SUFFICES ASSUME NEW s \in slots', NEW u \in slots', s.time = u.time, s # u
                  PROVE  Overlap(s.by, u.by)
      BY <1>1 DEF SameTimeNeedsOverlap, Overlap
    <3>1. CASE s \in slots /\ u \in slots
      BY <3>1 DEF SlotsFit, SameTimeNeedsOverlap
    <3>2. CASE s \notin slots /\ u \notin slots
      BY <2>3, <2>4, <3>2
    <3>3. CASE s \notin slots /\ u \in slots
      BY <2>5, <3>3
    <3>4. CASE s \in slots /\ u \notin slots
      BY <2>5, <3>4
    <3>. QED
      BY <3>1, <3>2, <3>3, <3>4
  <2>7. ASSUME NEW s \in slots'
        PROVE  /\ s.by \in Requests /\ at'[s.by] = "done"
               /\ Is(s.by, {"generate"}) /\ s.time \in CandidateTimes(call[s.by].grid)
    <3>1. CASE s \in slots
      BY <1>1, <1>2, <3>1 DEF SlotsFit
    <3>2. CASE s \notin slots
      BY <2>1, <2>2, <2>3, <3>2
    <3>. QED
      BY <3>1, <3>2
  <2>8. ASSUME NEW q \in Requests, Is(q, {"generate"}), at'[q] = "third", NEW s \in slots',
               s.by \in after[q], s.time \in CandidateTimes(call[q].grid)
        PROVE  s.time \in got'[q].times
    <3>1. s \in slots /\ q # r
      BY <1>1, <2>2, <2>3, <2>8
    <3>. QED
      BY <1>1, <2>8, <3>1 DEF SlotsFit
  <2>. QED
    BY <1>1, <1>3, <2>4, <2>6, <2>7, <2>8 DEF SlotsFit
<1>. QED
  BY <1>4, <1>5 DEF SlotStep

\* Who was not over when a request arrived stays so, and an update stays one.
LEMMA UpdatesSinceStay ==
  ASSUME GBase, Kept, NEW r \in Requests, at[r] # "new", UpdateSince(r)
  PROVE  UpdateSince(r)'
<1>1. PICK q \in Requests : Is(q, {"update"}) /\ q \notin after[r]
  BY DEF UpdateSince
<1>2. at[q] # "new"
  BY <1>1 DEF Is, GBase, RequestsFit
<1>3. Is(q, {"update"})' /\ q \notin after'[r]
  BY <1>1, <1>2 DEF Kept, Is
<1>. QED
  BY <1>3 DEF UpdateSince

LEMMA BandsStay ==
  ASSUME GBase, GBase', Kept, SlotsFit, BandsFit, Quiet({"generate"}),
         UNCHANGED slots,
         cafes'.band = cafes.band
           \/ \A r \in Requests : at[r] # "new" => UpdateSince(r)'
  PROVE  BandsFit'
<1>1. ASSUME NEW s \in slots, s.price # SlotPrice(cafes'.band, s.time)
      PROVE  UpdateSince(s.by)'
  <2>1. s.by \in Requests /\ at[s.by] # "new"
    BY DEF SlotsFit
  <2>2. CASE cafes'.band = cafes.band
    BY <1>1, <2>1, <2>2, UpdatesSinceStay DEF BandsFit
  <2>3. CASE \A r \in Requests : at[r] # "new" => UpdateSince(r)'
    BY <2>1, <2>3
  <2>. QED
    BY <2>2, <2>3
<1>2. ASSUME NEW r \in Requests, Is(r, {"generate"})', at'[r] \in {"second", "third"}
      PROVE  Is(r, {"generate"}) /\ at'[r] = at[r] /\ got'[r] = got[r] /\ at[r] # "new"
  BY <1>2 DEF Quiet, Entering
<1>3. ASSUME NEW r \in Requests, Is(r, {"generate"})', at'[r] \in {"second", "third"}
      PROVE  got'[r].cafes.band = cafes'.band \/ UpdateSince(r)'
  <2>1. got[r].cafes.band = cafes.band \/ UpdateSince(r)
    BY <1>2, <1>3 DEF BandsFit
  <2>. QED
    BY <1>2, <1>3, <2>1, UpdatesSinceStay
<1>4. ASSUME NEW r \in Requests, Is(r, {"generate"})', at'[r] = "second"
      PROVE  got'[r] = [Nothing EXCEPT !.cafes = got'[r].cafes]
  <2>1. got[r] = [Nothing EXCEPT !.cafes = got[r].cafes]
    BY <1>2, <1>4 DEF BandsFit
  <2>. QED
    BY <1>2, <1>4, <2>1
<1>. QED
  BY <1>1, <1>3, <1>4 DEF BandsFit

LEMMA BandsStep ==
  ASSUME GBase, Kept, SlotsFit, BandsFit, NEW r \in Requests, SlotStep(r), Own(r)
  PROVE  BandsFit'
<1>1. /\ call' = call /\ cafes' = cafes /\ at[r] # "new"
      /\ \A q \in Requests \ {r} : at'[q] = at[q] /\ got'[q] = got[q]
      /\ at \in [Requests -> Steps] /\ got = [q \in Requests |-> got[q]]
      /\ \A q : Is(q, {"generate"})' = Is(q, {"generate"})
  BY DEF Own, GBase, RequestsFit, TypeOK, SlotStep, ReadBand, ReadSlots, SaveSlots, stores, Is
<1>2. \A q \in Requests : at[q] # "new" /\ UpdateSince(q) => UpdateSince(q)'
  BY UpdatesSinceStay
<1>3. ASSUME NEW q \in Requests \ {r}, Is(q, {"generate"})'
      PROVE  /\ at'[q] \in {"second", "third"} =>
                  got'[q].cafes.band = cafes'.band \/ UpdateSince(q)'
             /\ at'[q] = "second" => got'[q] = [Nothing EXCEPT !.cafes = got'[q].cafes]
  BY <1>1, <1>2, <1>3 DEF BandsFit
<1>4. \A s \in slots : s.price # SlotPrice(cafes'.band, s.time) => UpdateSince(s.by)'
  <2>1. \A s \in slots : s.by \in Requests /\ at[s.by] # "new"
    BY DEF SlotsFit
  <2>. QED
    BY <1>1, <1>2, <2>1 DEF BandsFit
<1>5. CASE ReadBand(r) \/ ReadSlots(r)
  <2>1. slots' = slots
    BY <1>5 DEF ReadBand, ReadSlots, stores
  <2>2. /\ at'[r] \in {"second", "third"} =>
             got'[r].cafes.band = cafes'.band \/ UpdateSince(r)'
        /\ at'[r] = "second" => got'[r] = [Nothing EXCEPT !.cafes = got'[r].cafes]
    <3>1. CASE ReadBand(r)
      <4>. DEFINE with == [Nothing EXCEPT !.cafes = cafes]
      <4>1. with.cafes = cafes
        BY DEF Nothing
      <4>2. with = [Nothing EXCEPT !.cafes = with.cafes]
        BY <4>1
      <4>3. Finish(r, "refused") \/ Go(r, "second", with)
        BY <3>1 DEF ReadBand
      <4>. HIDE DEF with
      <4>4. CASE Go(r, "second", with)
        <5>1. at'[r] = "second" /\ got'[r] = with
          BY <1>1, <4>4 DEF Go
        <5>. QED
          BY <1>1, <4>1, <4>2, <5>1
      <4>5. CASE Finish(r, "refused")
        BY <1>1, <4>5 DEF Finish
      <4>. QED
        BY <4>3, <4>4, <4>5
    <3>2. CASE ReadSlots(r)
      <4>. DEFINE times == {s.time : s \in slots} \cap CandidateTimes(call[r].grid)
                  with == [got[r] EXCEPT !.times = times]
      <4>1. Go(r, "third", with)
        BY <3>2 DEF ReadSlots
      <4>2. Handles(r, "generate", "second")
        BY <3>2 DEF ReadSlots
      <4>3. /\ got[r] = [Nothing EXCEPT !.cafes = got[r].cafes]
            /\ got[r].cafes.band = cafes.band \/ UpdateSince(r)
        BY <4>2, Handling DEF BandsFit
      <4>4. with.cafes = got[r].cafes
        BY <4>3 DEF Nothing
      <4>. HIDE DEF with
      <4>5. at'[r] = "third" /\ got'[r] = with
        BY <1>1, <4>1 DEF Go
      <4>. QED
        BY <1>1, <1>2, <4>3, <4>4, <4>5
    <3>. QED
      BY <1>5, <3>1, <3>2
  <2>. QED
    BY <1>3, <1>4, <2>1, <2>2 DEF BandsFit
<1>6. CASE SaveSlots(r)
  <2>1. /\ Is(r, {"generate"}) /\ at[r] = "third" /\ at'[r] = "done"
        /\ slots' = slots \cup {NewSlot(r, t) : t \in NewTimes(r)}
    <3>1. Handles(r, "generate", "third")
      BY <1>6 DEF SaveSlots
    <3>. QED
      BY <1>1, <1>6, <3>1, Handling DEF SaveSlots, Finish
  <2>2. got[r].cafes.band = cafes.band \/ UpdateSince(r)'
    BY <1>1, <1>2, <2>1 DEF BandsFit
  <2>3. ASSUME NEW s \in slots' \ slots, s.price # SlotPrice(cafes'.band, s.time)
        PROVE  UpdateSince(s.by)'
    <3>1. PICK t \in NewTimes(r) : s = NewSlot(r, t)
      BY <2>1
    <3>2. s.by = r /\ s.time = t /\ s.price = SlotPrice(got[r].cafes.band, t)
      BY <3>1 DEF NewSlot
    <3>. QED
      BY <1>1, <2>2, <2>3, <3>2
  <2>. QED
    BY <1>3, <1>4, <2>1, <2>3 DEF BandsFit
<1>. QED
  BY <1>5, <1>6 DEF SlotStep

\* An update is in nobody's past until it is over.
LEMMA UpdateIsSince ==
  ASSUME GBase, NEW r \in Requests, Own(r), Is(r, {"update"})
  PROVE  \A q \in Requests : UpdateSince(q)'
<1>1. \A q \in Requests : r \notin after'[q]
  BY DEF Own, GBase, RequestsFit
<1>2. Is(r, {"update"})'
  BY DEF Own, Is
<1>. QED
  BY <1>1, <1>2 DEF UpdateSince

-------------------------------------------------------------------------------
(* The calls to the store locator *)

LEMMA CallsStay ==
  ASSUME GBase, GBase', Kept, CallsFit, Quiet({"locality"}), UNCHANGED <<lastCall, called>>
  PROVE  CallsFit'
<1>1. \A p \in Processes : lastCall'[p] <= now'
  <2>1. lastCall \in [Processes -> -1..MaxNow] /\ MaxNow \in Nat /\ now \in Nat /\ now' \in {now, now + 1}
    BY GatewayAssumption DEF GBase, TypeOK, Kept
  <2>. QED
    BY <2>1 DEF CallsFit
<1>2. ASSUME NEW c \in called
      PROVE  /\ c.at \in Nat /\ c.from \in Processes /\ c.at <= lastCall[c.from]
             /\ c.by \in Requests /\ Is(c.by, {"locality"})'
             /\ at'[c.by] \in {"third", "done"} /\ after'[c.by] = after[c.by]
  <2>1. /\ c.at \in Nat /\ c.from \in Processes /\ c.at <= lastCall[c.from]
        /\ c.by \in Requests
        /\ Is(c.by, {"locality"}) /\ at[c.by] \in {"third", "done"}
    BY DEF CallsFit
  <2>2. call'[c.by] = call[c.by] /\ after'[c.by] = after[c.by]
    BY <2>1 DEF Kept
  <2>3. Is(c.by, {"locality"})'
    BY <2>1, <2>2 DEF Is
  <2>. QED
    BY <2>1, <2>2, <2>3 DEF Quiet, Entering
<1>3. ASSUME NEW r \in Requests, Is(r, {"locality"})', at'[r] = "second"
      PROVE  /\ got'[r].time \in Nat /\ got'[r].process \in Processes
             /\ \A c \in called :
                  c.by \in after'[r] /\ c.from = got'[r].process => c.at < got'[r].time
  <2>1. Is(r, {"locality"}) /\ at[r] = "second" /\ got'[r] = got[r]
    BY <1>3 DEF Quiet, Entering
  <2>2. after'[r] = after[r]
    BY <2>1 DEF Kept
  <2>. QED
    BY <2>1, <2>2 DEF CallsFit
<1>4. CloseCallsNeedOverlap'
  BY <1>2 DEF CallsFit, CloseCallsNeedOverlap, Overlap
<1>5. \A c, d \in called : c.by = d.by => c = d
  BY DEF CallsFit
<1>. QED
  BY <1>1, <1>2, <1>3, <1>4, <1>5 DEF CallsFit

\* A search sleeps past its process's calls for those it follows: only one that runs
\* beside it can have called from there at the moment it wakes.
LEMMA CallsStep ==
  ASSUME GBase, CallsFit, NEW r \in Requests, PlaceStep(r), Own(r)
  PROVE  CallsFit'
<1>1. /\ call' = call /\ after' = after /\ now' = now
      /\ \A q \in Requests \ {r} : at'[q] = at[q] /\ got'[q] = got[q]
      /\ at[r] # "done" /\ \A q \in Requests : r \notin after[q]
      /\ at \in [Requests -> Steps] /\ got = [q \in Requests |-> got[q]]
      /\ now \in Nat /\ lastCall \in [Processes -> -1..MaxNow] /\ MaxNow \in Nat
      /\ \A q : Is(q, {"locality"})' = Is(q, {"locality"})
  BY GatewayAssumption DEF Own, GBase, RequestsFit, TypeOK, Is
<1>2. /\ \A p \in Processes : lastCall[p] <= now
      /\ \A c \in called : /\ c.at \in Nat /\ c.from \in Processes /\ c.at <= lastCall[c.from]
                           /\ c.by \in Requests /\ Is(c.by, {"locality"})
                           /\ at[c.by] \in {"third", "done"}
      /\ \A c, d \in called : c.by = d.by => c = d
      /\ CloseCallsNeedOverlap
  BY DEF CallsFit
<1>3. CASE GetPlace(r) \/ Located(r)
  <2>1. UNCHANGED <<lastCall, called>>
    BY <1>3 DEF GetPlace, Located, stores
  <2>2. at'[r] = "second" =>
          /\ got'[r].time \in Nat /\ got'[r].process \in Processes
          /\ \A c \in called : c.from = got'[r].process => c.at < got'[r].time
    <3>1. CASE GetPlace(r)
      <4>. DEFINE With(p) == [Nothing EXCEPT !.time = lastCall[p] + 1, !.process = p]
      <4>1. \A p \in Processes : With(p).time = lastCall[p] + 1 /\ With(p).process = p
        BY DEF Nothing
      <4>2. Finish(r, "ok") \/ \E p \in Processes : Go(r, "second", With(p))
        BY <3>1 DEF GetPlace
      <4>. HIDE DEF With
      <4>3. Finish(r, "ok") => at'[r] = "done"
        BY <1>1 DEF Finish
      <4>4. \A p \in Processes : Go(r, "second", With(p)) => got'[r] = With(p)
        BY <1>1 DEF Go
      <4>5. ASSUME NEW p \in Processes, got'[r] = With(p)
            PROVE  /\ got'[r].time \in Nat /\ got'[r].process \in Processes
                   /\ \A c \in called : c.from = got'[r].process => c.at < got'[r].time
        <5>1. lastCall[p] \in -1..MaxNow
          BY <1>1
        <5>. QED
          BY <1>1, <1>2, <4>1, <4>5, <5>1
      <4>. QED
        BY <4>2, <4>3, <4>4, <4>5
    <3>2. CASE Located(r)
      BY <1>1, <3>2 DEF Located, Finish
    <3>. QED
      BY <1>3, <3>1, <3>2
  <2>3. at[r] # "third" \/ at'[r] = "done"
    BY <1>1, <1>3 DEF GetPlace, Located, Handles, Finish
  <2>4. \A c \in called : at'[c.by] \in {"third", "done"}
    BY <1>1, <1>2, <2>3
  <2>5. CloseCallsNeedOverlap'
    BY <1>1, <1>2, <2>1 DEF CloseCallsNeedOverlap, Overlap
  <2>6. ASSUME NEW q \in Requests, Is(q, {"locality"}), at'[q] = "second"
        PROVE  /\ got'[q].time \in Nat /\ got'[q].process \in Processes
               /\ \A c \in called :
                    c.by \in after[q] /\ c.from = got'[q].process => c.at < got'[q].time
    <3>1. CASE q = r
      BY <2>2, <2>6, <3>1
    <3>2. CASE q # r
      BY <1>1, <2>6, <3>2 DEF CallsFit
    <3>. QED
      BY <3>1, <3>2
  <2>. QED
    BY <1>1, <1>2, <2>1, <2>4, <2>5, <2>6 DEF CallsFit
<1>4. CASE CallNominatim(r)
  <2>. DEFINE p == got[r].process
              new == [at |-> now, by |-> r, from |-> p]
  <2>1. /\ Handles(r, "locality", "second") /\ now >= got[r].time
        /\ lastCall' = [lastCall EXCEPT ![p] = now]
        /\ called' = called \cup {new} /\ Go(r, "third", Nothing)
    BY <1>4 DEF CallNominatim
  <2>2. at[r] = "second" /\ Is(r, {"locality"})
    BY <2>1, Handling
  <2>3. at'[r] = "third"
    BY <1>1, <2>1 DEF Go
  <2>4. new.at = now /\ new.by = r /\ new.from = p
    OBVIOUS
  <2>. HIDE DEF new
  <2>5. /\ got[r].time \in Nat /\ p \in Processes
        /\ \A c \in called : c.by \in after[r] /\ c.from = p => c.at < got[r].time
    BY <2>2 DEF CallsFit
  <2>. HIDE DEF p
  <2>6. \A c \in called : c.by # r
    BY <1>2, <2>2
  <2>7. \A c \in called : c.at = now /\ c.from = p => Overlap(r, c.by) /\ Overlap(c.by, r)
    BY <1>1, <1>2, <2>1, <2>5, <2>6 DEF Overlap
  <2>8. CloseCallsNeedOverlap'
    <3>. SUFFICES ASSUME NEW c \in called', NEW d \in called', c.at = d.at,
                         c.from = d.from, c # d
                  PROVE  Overlap(c.by, d.by)
      BY <1>1 DEF CloseCallsNeedOverlap, Overlap
    <3>1. CASE c \in called /\ d \in called
      BY <1>2, <3>1 DEF CloseCallsNeedOverlap
    <3>2. CASE c = new \/ d = new
      BY <2>1, <2>4, <2>7, <3>2
    <3>. QED
      BY <2>1, <3>1, <3>2
  <2>9. \A c, d \in called' : c.by = d.by => c = d
    BY <1>2, <2>1, <2>4, <2>6
  <2>10. \A c \in called' : /\ c.at \in Nat /\ c.from \in Processes
                            /\ c.at <= lastCall'[c.from]
                            /\ c.by \in Requests /\ Is(c.by, {"locality"})
                            /\ at'[c.by] \in {"third", "done"}
    <3>1. \A c \in called : /\ c.at \in Nat /\ c.from \in Processes
                            /\ c.by \in Requests /\ Is(c.by, {"locality"})
                            /\ at'[c.by] \in {"third", "done"}
      BY <1>1, <1>2, <2>6
    <3>2. \A c \in called : c.at <= lastCall'[c.from]
      <4>. TAKE c \in called
      <4>1. c.from \in Processes /\ c.at \in Nat /\ c.at <= lastCall[c.from] /\ lastCall[c.from] <= now
        BY <1>2
      <4>2. lastCall[c.from] \in -1..MaxNow
        BY <1>1, <4>1
      <4>3. lastCall'[c.from] \in {lastCall[c.from], now}
        BY <1>1, <2>1, <4>1
      <4>. QED
        BY <1>1, <4>1, <4>2, <4>3
    <3>3. now <= lastCall'[p]
      BY <1>1, <2>1, <2>5
    <3>. QED
      BY <1>1, <2>1, <2>2, <2>3, <2>4, <2>5, <3>1, <3>2, <3>3
  <2>11. ASSUME NEW q \in Requests, Is(q, {"locality"}), at'[q] = "second"
         PROVE  /\ got'[q].time \in Nat /\ got'[q].process \in Processes
                /\ \A c \in called' :
                     c.by \in after[q] /\ c.from = got'[q].process => c.at < got'[q].time
    <3>1. q # r
      BY <2>3, <2>11
    <3>. QED
      BY <1>1, <2>1, <2>4, <2>11, <3>1 DEF CallsFit
  <2>12. \A q \in Processes : lastCall'[q] <= now'
    BY <1>1, <1>2, <2>1
  <2>. QED
    BY <1>1, <2>8, <2>9, <2>10, <2>11, <2>12 DEF CallsFit
<1>. QED
  BY <1>3, <1>4 DEF PlaceStep

-------------------------------------------------------------------------------
(* Keys *)

LEMMA KeysStay ==
  ASSUME GBase, GBase', Kept, KeysFit, Quiet({"revoke"}), Quiet({"pull"}), UNCHANGED apiKey
  PROVE  KeysFit'
<1>1. ASSUME NEW q \in Requests, Is(q, {"revoke"})', reply'[q] = "ok"
      PROVE  Is(q, {"revoke"}) /\ reply[q] = "ok" /\ call'[q] = call[q]
  <2>1. ~ Entering(q)
    BY <1>1, GatewayAssumption DEF Entering, Answers
  <2>. QED
    BY <1>1, <2>1 DEF Quiet, Kept
<1>2. ASSUME NEW r \in Requests, Is(r, {"pull"})', at'[r] = "second" \/ reply'[r] = "ok"
      PROVE  /\ at[r] = "second" \/ reply[r] = "ok"
             /\ Is(r, {"pull"}) /\ call'[r] = call[r] /\ after'[r] = after[r]
  <2>1. ~ Entering(r)
    BY <1>2, GatewayAssumption DEF Entering, Answers
  <2>. QED
    BY <1>2, <2>1 DEF Quiet, Kept
<1>3. ASSUME NEW r \in Requests, Is(r, {"pull"})', at'[r] = "second" \/ reply'[r] = "ok",
             NEW q \in after'[r], Revoked(q, r)'
      PROVE  FALSE
  <2>1. q \in after[r] /\ q \in Requests
    BY <1>2, <1>3 DEF GBase, TypeOK
  <2>2. Is(q, {"revoke"}) /\ reply[q] = "ok" /\ call'[q] = call[q]
    BY <1>1, <1>3, <2>1 DEF Revoked
  <2>3. Revoked(q, r)
    BY <1>2, <1>3, <2>2 DEF Revoked
  <2>4. at[r] = "second" \/ reply[r] = "ok"
    BY <1>2, <1>3
  <2>. QED
    BY <1>2, <1>3, <2>1, <2>3, <2>4 DEF KeysFit
<1>4. \A q \in Requests : Is(q, {"revoke"})' /\ reply'[q] = "ok" => apiKey'[call'[q].key] = "revoked"
  BY <1>1 DEF KeysFit
<1>. QED
  BY <1>3, <1>4 DEF KeysFit

\* A revocation is final, and a request that is not over yet is in nobody's past.
LEMMA KeysStep ==
  ASSUME GBase, KeysFit, NEW r \in Requests, KeyStep(r) \/ PullStep(r), Own(r)
  PROVE  KeysFit'
<1>1. /\ call' = call /\ after' = after
      /\ \A q \in Requests \ {r} : at'[q] = at[q] /\ reply'[q] = reply[q]
      /\ at[r] \notin {"new", "done"} /\ \A q \in Requests : r \notin after[q]
      /\ at \in [Requests -> Steps] /\ reply \in [Requests -> Answers \cup {Nil}]
      /\ apiKey \in [Keys -> KeyStates]
      /\ after \in [Requests -> SUBSET Requests]
      /\ \A q, ops : Is(q, ops)' = Is(q, ops)
      /\ call[r] \in Calls
  BY DEF Own, GBase, RequestsFit, TypeOK, Is
<1>2. /\ \A q \in Requests : Is(q, {"revoke"}) /\ reply[q] = "ok" => apiKey[call[q].key] = "revoked"
      /\ \A q \in Requests : Is(q, {"pull"}) /\ (at[q] = "second" \/ reply[q] = "ok") =>
           \A p \in after[q] : ~ Revoked(p, q)
  BY DEF KeysFit
<1>3. \A q \in Requests \ {r} : Is(q, {"pull"}) /\ (at'[q] = "second" \/ reply'[q] = "ok") =>
        \A p \in after[q] : ~ Revoked(p, q)'
  <2>1. ASSUME NEW q \in Requests \ {r}, NEW p \in after[q] PROVE Revoked(p, q)' = Revoked(p, q)
    <3>1. p \in Requests \ {r}
      BY <1>1
    <3>. QED
      BY <1>1, <3>1 DEF Revoked
  <2>. QED
    BY <1>1, <1>2, <2>1
<1>4. CASE KeyStep(r)
  <2>1. ~ Is(r, {"pull"}) /\ call[r].key \in Keys
    <3>1. \E op \in {"newKey", "revoke"} : Handles(r, op, "handle")
      BY <1>4 DEF KeyStep, GenerateKey, RevokeKey, Serves
    <3>. QED
      BY <1>1, <3>1, GatewayAssumption DEF Handles, Is
  <2>2. /\ \A k \in Keys : apiKey[k] = "revoked" => apiKey'[k] = "revoked"
        /\ Is(r, {"revoke"}) /\ reply'[r] = "ok" => apiKey'[call[r].key] = "revoked"
    <3>1. CASE GenerateKey(r)
      BY <1>1, <2>1, <3>1 DEF GenerateKey, Serves, Handles, Is
    <3>2. CASE RevokeKey(r)
      BY <1>1, <2>1, <3>2 DEF RevokeKey, Finish
    <3>. QED
      BY <1>4, <3>1, <3>2 DEF KeyStep
  <2>3. \A q \in Requests : Is(q, {"revoke"}) => call[q].key \in Keys
    BY GatewayAssumption DEF Is, GBase, TypeOK
  <2>4. \A q \in Requests : Is(q, {"revoke"}) /\ reply'[q] = "ok" => apiKey'[call[q].key] = "revoked"
    BY <1>1, <1>2, <2>2, <2>3
  <2>. QED
    BY <1>1, <1>3, <2>1, <2>4 DEF KeysFit
<1>5. CASE PullStep(r)
  <2>1. UNCHANGED apiKey /\ Is(r, {"pull"})
    BY <1>1, <1>5, GatewayAssumption DEF PullStep, CheckKey, Pull, stores, Handles, Is
  <2>2. \A q \in Requests : Is(q, {"revoke"}) => q # r
    BY <2>1 DEF Is
  <2>3. \A p \in after[r] : Revoked(p, r)' = Revoked(p, r)
    <3>1. \A p \in after[r] : p \in Requests \ {r}
      BY <1>1
    <3>. QED
      BY <1>1, <3>1 DEF Revoked
  <2>4. at'[r] = "second" \/ reply'[r] = "ok" => \A p \in after[r] : ~ Revoked(p, r)
    <3>1. CASE CheckKey(r)
      <4>1. KeyIsGood(call[r].key) \/ Finish(r, "refused")
        BY <3>1 DEF CheckKey
      <4>2. CASE Finish(r, "refused")
        BY <1>1, <4>2 DEF Finish
      <4>3. CASE apiKey[call[r].key] = "active"
        BY <1>1, <1>2, <4>3 DEF Revoked
      <4>. QED
        BY <4>1, <4>2, <4>3 DEF KeyIsGood
    <3>2. CASE Pull(r)
      BY <1>2, <2>1, <3>2 DEF Pull, Handles
    <3>. QED
      BY <1>5, <3>1, <3>2 DEF PullStep
  <2>. QED
    BY <1>1, <1>2, <1>3, <2>1, <2>2, <2>3, <2>4 DEF KeysFit
<1>. QED
  BY <1>4, <1>5

-------------------------------------------------------------------------------
(* The list of cafes *)

\* A change that has come beside a reader stays beside it.
LEMMA ChangesStay ==
  ASSUME GBase, Kept, NEW r \in Requests, at[r] # "new", ChangeBeside(r),
         \A q \in Requests : Is(q, {"create", "update"}) /\ at[q] = "third" =>
                               at'[q] \in {"third", "done"}
  PROVE  ChangeBeside(r)'
<1>1. PICK q \in Requests : /\ Is(q, {"create", "update"}) /\ at[q] \in {"third", "done"}
                            /\ q \notin after[r]
  BY DEF ChangeBeside
<1>2. Is(q, {"create", "update"})' /\ at'[q] \in {"third", "done"} /\ q \notin after'[r]
  BY <1>1 DEF Kept, Is
<1>. QED
  BY <1>2 DEF ChangeBeside

\* Nobody changes a cafe, and the list stays or expires.
LEMMA ListsStay ==
  ASSUME GBase, GBase', Kept, ListsFit, Quiet({"list"}), Quiet({"create", "update"}),
         UNCHANGED cafes, list' \in {list, Nil}
  PROVE  ListsFit'
<1>1. \A q \in Requests : Is(q, {"create", "update"}) /\ at[q] = "third" => at'[q] = "third"
  <2>. SUFFICES ASSUME NEW q \in Requests, Is(q, {"create", "update"}), at[q] = "third"
                PROVE  at'[q] = "third"
    OBVIOUS
  <2>1. Is(q, {"create", "update"})'
    BY DEF Kept, Is
  <2>. QED
    BY <2>1 DEF Quiet, Entering
<1>2. ASSUME NEW r \in Requests, Is(r, {"list"})', at'[r] = "third"
      PROVE  got'[r].cafes = cafes' \/ ChangeBeside(r)'
  <2>1. Is(r, {"list"}) /\ at[r] = "third" /\ got'[r] = got[r]
    BY <1>2 DEF Quiet, Entering
  <2>2. got[r].cafes = cafes \/ ChangeBeside(r)
    BY <2>1 DEF ListsFit
  <2>. QED
    BY <1>1, <2>1, <2>2, ChangesStay
<1>3. list' # Nil => list.by \in Requests /\ at[list.by] = "done" /\ at'[list.by] = "done"
                     /\ list' = list /\ after'[list.by] = after[list.by]
  BY DEF ListsFit, Kept
<1>4. ASSUME list' # Nil, list'.cafes # cafes'
      PROVE  \E r \in Requests :
               /\ at'[r] \notin {"new", "limit"} /\ Is(r, {"create", "update"})'
               /\ at'[r] = "third" \/ Overlap(list.by, r)'
  <2>1. PICK r \in Requests :
               /\ at[r] \notin {"new", "limit"} /\ call[r].op \in {"create", "update"}
               /\ at[r] = "third" \/ Overlap(list.by, r)
    BY <1>3, <1>4 DEF ListsFit, StaleListNeedsOverlap
  <2>2. call'[r] = call[r] /\ after'[r] = after[r] /\ call[r] # Nil /\ at'[r] # "new"
    BY <2>1 DEF Kept, GBase, RequestsFit
  <2>3. Is(r, {"create", "update"})' /\ Is(r, {"create", "update"})
    BY <2>1, <2>2 DEF Is
  <2>4. at'[r] # "limit"
    BY <2>1, <2>3 DEF Quiet, Entering
  <2>. QED
    BY <1>1, <1>3, <1>4, <2>1, <2>2, <2>3, <2>4 DEF Overlap
<1>5. StaleListNeedsOverlap'
  BY <1>3, <1>4 DEF StaleListNeedsOverlap, Is
<1>. QED
  BY <1>2, <1>3, <1>5 DEF ListsFit

\* Whoever changes a cafe is at its third step until the list is dropped, and in the past
\* of no reader: a reader that puts an old list back overlaps the change.
LEMMA ListsStep ==
  ASSUME GBase, Kept, ListsFit, NEW r \in Requests, ListStep(r), Own(r)
  PROVE  ListsFit'
<1>1. /\ call' = call /\ after' = after /\ cafes' = cafes
      /\ \A q \in Requests \ {r} : at'[q] = at[q] /\ got'[q] = got[q]
      /\ at[r] \notin {"new", "done"} /\ \A q \in Requests : r \notin after[q]
      /\ at \in [Requests -> Steps] /\ got = [q \in Requests |-> got[q]]
      /\ \A q, ops : Is(q, ops)' = Is(q, ops)
      /\ call[r].op = "list"
  BY DEF Own, GBase, RequestsFit, TypeOK, Is, ListStep, GetList, FindCafes, SetList, stores,
         Handles
<1>2. \A q \in Requests : Is(q, {"create", "update"}) => q # r
  BY <1>1 DEF Is
<1>3. \A q \in Requests : at[q] # "new" /\ ChangeBeside(q) => ChangeBeside(q)'
  BY <1>1, <1>2, ChangesStay
<1>4. ASSUME NEW q \in Requests \ {r}, Is(q, {"list"})', at'[q] = "third"
      PROVE  got'[q].cafes = cafes' \/ ChangeBeside(q)'
  <2>1. got[q].cafes = cafes \/ ChangeBeside(q)
    BY <1>1, <1>4 DEF ListsFit
  <2>. QED
    BY <1>1, <1>3, <1>4, <2>1
<1>5. CASE GetList(r) \/ FindCafes(r)
  <2>1. list' = list
    BY <1>5 DEF GetList, FindCafes, stores
  <2>2. at'[r] = "third" => got'[r].cafes = cafes'
    <3>1. CASE GetList(r)
      BY <1>1, <3>1 DEF GetList, Go, Finish
    <3>2. CASE FindCafes(r)
      <4>. DEFINE with == [Nothing EXCEPT !.cafes = cafes]
      <4>1. with.cafes = cafes
        BY DEF Nothing
      <4>2. Go(r, "third", with)
        BY <3>2 DEF FindCafes
      <4>. HIDE DEF with
      <4>. QED
        BY <1>1, <4>1, <4>2 DEF Go
    <3>. QED
      BY <1>5, <3>1, <3>2
  <2>3. list # Nil => list.by \in Requests \ {r} /\ at[list.by] = "done"
    BY <1>1 DEF ListsFit
  <2>4. StaleListNeedsOverlap'
    <3>1. list # Nil /\ list.cafes # cafes =>
            \E q \in Requests :
              /\ at'[q] \notin {"new", "limit"} /\ call[q].op \in {"create", "update"}
              /\ at'[q] = "third" \/ Overlap(list.by, q)
      BY <1>1 DEF ListsFit, StaleListNeedsOverlap
    <3>. QED
      BY <1>1, <2>1, <3>1 DEF StaleListNeedsOverlap, Overlap
  <2>. QED
    BY <1>1, <1>4, <2>1, <2>2, <2>3, <2>4 DEF ListsFit
<1>6. CASE SetList(r)
  <2>. DEFINE new == [cafes |-> got[r].cafes, by |-> r]
  <2>1. at[r] = "third" /\ list' = new /\ Finish(r, "ok") /\ Is(r, {"list"})
    <3>1. Handles(r, "list", "third")
      BY <1>6 DEF SetList
    <3>. QED
      BY <1>6, <3>1, Handling DEF SetList
  <2>2. at'[r] = "done"
    BY <1>1, <2>1 DEF Finish
  <2>3. new.cafes = got[r].cafes /\ new.by = r
    OBVIOUS
  <2>. HIDE DEF new
  <2>4. got[r].cafes = cafes \/ ChangeBeside(r)
    BY <2>1 DEF ListsFit
  <2>5. ASSUME ChangeBeside(r)
        PROVE  \E q \in Requests :
                 /\ at'[q] \notin {"new", "limit"} /\ call[q].op \in {"create", "update"}
                 /\ Overlap(r, q)
    <3>1. PICK q \in Requests : /\ Is(q, {"create", "update"}) /\ at[q] \in {"third", "done"}
                                /\ q \notin after[r]
      BY <2>5 DEF ChangeBeside
    <3>. QED
      BY <1>1, <1>2, <3>1 DEF Overlap, Is
  <2>6. StaleListNeedsOverlap'
    BY <1>1, <2>1, <2>3, <2>4, <2>5 DEF StaleListNeedsOverlap, Overlap
  <2>. QED
    BY <1>1, <1>4, <2>1, <2>2, <2>3, <2>6 DEF ListsFit
<1>. QED
  BY <1>5, <1>6 DEF ListStep

LEMMA ListsChange ==
  ASSUME GBase, Kept, ListsFit, NEW r \in Requests, Own(r), Is(r, {"create", "update"}),
         \/ UNCHANGED <<cafes, list>> /\ at[r] = "handle" /\ at'[r] = "second"
         \/ UNCHANGED list /\ at[r] \in {"handle", "second"} /\ at'[r] = "third"
         \/ UNCHANGED cafes /\ list' = Nil /\ at'[r] = "done" /\ reply'[r] = "ok"
  PROVE  ListsFit'
<1>1. /\ call' = call /\ after' = after
      /\ \A q \in Requests \ {r} : at'[q] = at[q] /\ got'[q] = got[q]
      /\ at[r] \notin {"new", "done"} /\ \A q \in Requests : r \notin after[q]
      /\ \A q, ops : Is(q, ops)' = Is(q, ops)
      /\ at'[r] \notin {"new", "limit"}
  BY DEF Own, GBase, RequestsFit, Is
<1>2. \A q \in Requests : Is(q, {"list"}) => q # r
  BY DEF Is
<1>3. \A q \in Requests : at[q] # "new" /\ ChangeBeside(q) => ChangeBeside(q)'
  BY <1>1, ChangesStay
<1>4. list' # Nil => list.by \in Requests /\ at'[list.by] = "done" /\ list' = list
  BY <1>1 DEF ListsFit
<1>5. ASSUME NEW q \in Requests, Is(q, {"list"})', at'[q] = "third"
      PROVE  got'[q].cafes = cafes' \/ ChangeBeside(q)'
  <2>1. /\ got'[q] = got[q] /\ at[q] # "new"
        /\ got[q].cafes = cafes \/ ChangeBeside(q)
    BY <1>1, <1>2, <1>5 DEF ListsFit
  <2>2. cafes' # cafes => ChangeBeside(q)'
    BY <1>1 DEF ChangeBeside
  <2>. QED
    BY <1>3, <2>1, <2>2
<1>6. StaleListNeedsOverlap'
  <2>. SUFFICES ASSUME list' # Nil, list'.cafes # cafes'
                PROVE  \E q \in Requests :
                         /\ at'[q] \notin {"new", "limit"} /\ call'[q].op \in {"create", "update"}
                         /\ at'[q] = "third" \/ Overlap(list.by, q)'
    BY DEF StaleListNeedsOverlap, Overlap
  <2>1. CASE at'[r] = "third"
    BY <1>1, <2>1 DEF Is
  <2>2. CASE at[r] = "handle" /\ UNCHANGED <<cafes, list>>
    <3>1. PICK q \in Requests :
                 /\ at[q] \notin {"new", "limit"} /\ call[q].op \in {"create", "update"}
                 /\ at[q] = "third" \/ Overlap(list.by, q)
      BY <2>2 DEF ListsFit, StaleListNeedsOverlap
    <3>2. at'[q] \notin {"new", "limit"} /\ (at[q] = "third" => at'[q] = "third")
      BY <1>1, <2>2, <3>1
    <3>. QED
      BY <1>1, <2>2, <3>1, <3>2 DEF Overlap
  <2>. QED
    BY <2>1, <2>2
<1>. QED
  BY <1>4, <1>5, <1>6 DEF ListsFit

-------------------------------------------------------------------------------
(* The invariant is inductive *)

HandlersFit ==
  AccountsFit /\ SlotsFit /\ BandsFit /\ CallsFit /\ KeysFit /\ ListsFit

LEMMA BucketsStay ==
  ASSUME GBase, BucketsFit, UNCHANGED limits, now' \in {now, now + 1}
  PROVE  BucketsFit'
<1>1. /\ now \in Nat
      /\ \A b \in Buckets : /\ expired[b] \in Nat
                            /\ bucket[b] # Nil => bucket[b].written \in Nat
  BY GatewayAssumption DEF GBase, TypeOK, BucketRow
<1>. QED
  BY <1>1 DEF BucketsFit, limits

\* No handler takes a step.
LEMMA HandlersStay ==
  ASSUME GBase, GBase', Kept, HandlersFit,
         UNCHANGED <<users, cafes, slots, apiKey, lastCall, called>>, list' \in {list, Nil},
         Quiet({"signup", "login"}), Quiet({"generate"}), Quiet({"create", "update"}),
         Quiet({"list"}), Quiet({"revoke"}), Quiet({"pull"}), Quiet({"locality"})
  PROVE  HandlersFit'
BY AccountsStay, SlotsStay, BandsStay, CallsStay, KeysStay, ListsStay DEF HandlersFit

\* One handler does, and disturbs its own part of the invariant.
LEMMA HandlersStep ==
  ASSUME GBase, HandlersFit, NEW r \in Requests,
         \/ AccountStep(r) \/ SlotStep(r) \/ CafeStep(r) \/ KeyStep(r) \/ ListStep(r)
         \/ PullStep(r) \/ PlaceStep(r)
  PROVE  Own(r) /\ UNCHANGED limits /\ HandlersFit'
<1>. DEFINE Keeps == /\ Kept /\ GBase'
                     /\ \A ops : Entering(r) \/ ~ Is(r, ops) => Quiet(ops)
<1>1. Own(r) => Keeps
  BY OwnKeeps
<1>. HIDE DEF Keeps
<1>2. CASE AccountStep(r)
  <2>1. /\ Own(r) /\ Is(r, {"signup", "login"})
        /\ UNCHANGED <<limits, cafes, list, slots, apiKey, place, lastCall, called>>
    BY <1>2, AccountMoves
  <2>2. /\ Kept /\ GBase' /\ Quiet({"generate"}) /\ Quiet({"create", "update"})
        /\ Quiet({"list"}) /\ Quiet({"revoke"}) /\ Quiet({"pull"}) /\ Quiet({"locality"})
    BY <1>1, <2>1 DEF Keeps, Is
  <2>3. AccountsFit'
    BY <1>2, <2>1, <2>2, AccountsStep DEF HandlersFit
  <2>. QED
    BY <2>1, <2>2, <2>3, SlotsStay, BandsStay, CallsStay, KeysStay, ListsStay DEF HandlersFit
<1>3. CASE SlotStep(r)
  <2>1. /\ Own(r) /\ Is(r, {"generate"})
        /\ UNCHANGED <<limits, users, cafes, list, apiKey, place, lastCall, called>>
    BY <1>3, SlotMoves
  <2>2. /\ Kept /\ GBase' /\ Quiet({"signup", "login"}) /\ Quiet({"create", "update"})
        /\ Quiet({"list"}) /\ Quiet({"revoke"}) /\ Quiet({"pull"}) /\ Quiet({"locality"})
    BY <1>1, <2>1 DEF Keeps, Is
  <2>3. SlotsFit' /\ BandsFit'
    BY <1>3, <2>1, <2>2, SlotsStep, BandsStep DEF HandlersFit
  <2>. QED
    BY <2>1, <2>2, <2>3, AccountsStay, CallsStay, KeysStay, ListsStay DEF HandlersFit
<1>4. CASE CafeStep(r)
  <2>1. /\ Own(r) /\ Is(r, {"create", "update"})
        /\ UNCHANGED <<limits, users, slots, apiKey, place, lastCall, called>>
        /\ \/ UNCHANGED <<cafes, list>> /\ at[r] = "handle" /\ at'[r] = "second"
           \/ UNCHANGED list /\ at[r] \in {"handle", "second"} /\ at'[r] = "third"
           \/ UNCHANGED cafes /\ list' = Nil /\ at'[r] = "done" /\ reply'[r] = "ok"
        /\ cafes.band # cafes'.band => Is(r, {"update"})
    BY <1>4, CafeMoves
  <2>2. /\ Kept /\ GBase' /\ Quiet({"signup", "login"}) /\ Quiet({"generate"})
        /\ Quiet({"list"}) /\ Quiet({"revoke"}) /\ Quiet({"pull"}) /\ Quiet({"locality"})
    BY <1>1, <2>1 DEF Keeps, Is
  <2>3. ListsFit'
    BY <2>1, <2>2, ListsChange DEF HandlersFit
  <2>4. cafes'.band = cafes.band \/ \A q \in Requests : UpdateSince(q)'
    BY <2>1, UpdateIsSince
  <2>5. BandsFit'
    BY <2>1, <2>2, <2>4, BandsStay DEF HandlersFit
  <2>. QED
    BY <2>1, <2>2, <2>3, <2>5, AccountsStay, SlotsStay, CallsStay, KeysStay DEF HandlersFit
<1>5. CASE KeyStep(r)
  <2>1. /\ Own(r) /\ Is(r, {"newKey", "revoke"})
        /\ UNCHANGED <<limits, users, cafes, list, slots, place, lastCall, called>>
    BY <1>5, KeyMoves
  <2>2. /\ Kept /\ GBase' /\ Quiet({"signup", "login"}) /\ Quiet({"generate"})
        /\ Quiet({"create", "update"}) /\ Quiet({"list"}) /\ Quiet({"locality"})
    BY <1>1, <2>1 DEF Keeps, Is
  <2>3. KeysFit'
    BY <1>5, <2>1, KeysStep DEF HandlersFit
  <2>. QED
    BY <2>1, <2>2, <2>3, AccountsStay, SlotsStay, BandsStay, CallsStay, ListsStay DEF HandlersFit
<1>6. CASE ListStep(r)
  <2>1. /\ Own(r) /\ Is(r, {"list"})
        /\ UNCHANGED <<limits, users, cafes, slots, apiKey, place, lastCall, called>>
    BY <1>6, ListMoves
  <2>2. /\ Kept /\ GBase' /\ Quiet({"signup", "login"}) /\ Quiet({"generate"})
        /\ Quiet({"revoke"}) /\ Quiet({"pull"}) /\ Quiet({"locality"})
    BY <1>1, <2>1 DEF Keeps, Is
  <2>3. ListsFit'
    BY <1>6, <2>1, <2>2, ListsStep DEF HandlersFit
  <2>. QED
    BY <2>1, <2>2, <2>3, AccountsStay, SlotsStay, BandsStay, CallsStay, KeysStay DEF HandlersFit
<1>7. CASE PullStep(r)
  <2>1. Own(r) /\ Is(r, {"pull"}) /\ UNCHANGED <<limits, stores>>
    BY <1>7, PullMoves
  <2>2. /\ Kept /\ GBase' /\ Quiet({"signup", "login"}) /\ Quiet({"generate"})
        /\ Quiet({"create", "update"}) /\ Quiet({"list"}) /\ Quiet({"locality"})
    BY <1>1, <2>1 DEF Keeps, Is
  <2>3. KeysFit'
    BY <1>7, <2>1, KeysStep DEF HandlersFit
  <2>4. UNCHANGED <<users, cafes, list, slots, lastCall, called>>
    BY <2>1 DEF stores
  <2>. QED
    BY <2>1, <2>2, <2>3, <2>4, AccountsStay, SlotsStay, BandsStay, CallsStay, ListsStay
       DEF HandlersFit
<1>8. CASE PlaceStep(r)
  <2>1. /\ Own(r) /\ Is(r, {"locality"})
        /\ UNCHANGED <<limits, users, cafes, list, slots, apiKey>>
    BY <1>8, PlaceMoves
  <2>2. /\ Kept /\ GBase' /\ Quiet({"signup", "login"}) /\ Quiet({"generate"})
        /\ Quiet({"create", "update"}) /\ Quiet({"list"}) /\ Quiet({"revoke"}) /\ Quiet({"pull"})
    BY <1>1, <2>1 DEF Keeps, Is
  <2>3. CallsFit'
    BY <1>8, <2>1, CallsStep DEF HandlersFit
  <2>. QED
    BY <2>1, <2>2, <2>3, AccountsStay, SlotsStay, BandsStay, KeysStay, ListsStay DEF HandlersFit
<1>. QED
  BY <1>2, <1>3, <1>4, <1>5, <1>6, <1>7, <1>8

GInv == GBase /\ BucketsFit /\ HandlersFit

LEMMA GInvInit == Init => GInv
<1>. SUFFICES ASSUME Init PROVE GInv
  OBVIOUS
<1>1. TypeOK
  <2>1. /\ Nil \notin Answers
        /\ 0 \in 0..MaxNow /\ -1 \in -1..MaxNow /\ InitialCafes \in Cafes
    BY GatewayAssumption
  <2>2. \A r \in Requests : at[r] = "done" <=> reply[r] # Nil
    BY DEF Init
  <2>. QED
    BY <2>1, <2>2 DEF Init, TypeOK, Steps, KeyStates
<1>2. RequestsFit
  BY DEF Init, RequestsFit, Is
<1>3. BucketsFit
  <2>1. 0 <= 0 /\ 0 <= Rate * (0 + 0)
    BY GatewayAssumption
  <2>. QED
    BY <2>1 DEF Init, BucketsFit
<1>4. /\ AccountsFit /\ SlotsFit /\ BandsFit /\ CallsFit /\ KeysFit
  BY DEF Init, AccountsFit, SlotsFit, BandsFit, CallsFit, KeysFit, SameTimeNeedsOverlap,
         CloseCallsNeedOverlap, Is
<1>5. ListsFit
  BY DEF Init, ListsFit, StaleListNeedsOverlap, Is
<1>. QED
  BY <1>1, <1>2, <1>3, <1>4, <1>5 DEF GInv, GBase, HandlersFit

LEMMA GInvNext == GInv /\ [Next]_vars => GInv'
<1>. SUFFICES ASSUME GInv, [Next]_vars PROVE GInv'
  OBVIOUS
<1>1. GBase /\ BucketsFit /\ HandlersFit
  BY DEF GInv
<1>2. ASSUME NEW r \in Requests, NEW c \in Calls, Arrive(r, c) PROVE GInv'
  <2>1. /\ Kept /\ GBase' /\ UNCHANGED <<limits, stores>> /\ now' = now
        /\ \A ops : Quiet(ops)
    BY <1>1, <1>2, ArriveKeeps
  <2>2. UNCHANGED <<users, cafes, slots, apiKey, lastCall, called>> /\ list' \in {list, Nil}
    BY <2>1 DEF stores
  <2>3. HandlersFit'
    BY <1>1, <2>1, <2>2, HandlersStay
  <2>. QED
    BY <1>1, <2>1, <2>3, BucketsStay DEF GInv
<1>3. ASSUME NEW r \in Requests, Handle(r) PROVE GInv'
  <2>1. \/ Limit(r) \/ LimitUser(r)
        \/ RefuseOwnerCall(r)
        \/ ReadOwned(r)
        \/ AccountStep(r) \/ SlotStep(r) \/ CafeStep(r) \/ KeyStep(r) \/ ListStep(r)
        \/ PullStep(r) \/ PlaceStep(r)
    BY <1>3 DEF Handle, AccountStep, SlotStep, CafeStep, KeyStep, ListStep, PullStep, PlaceStep
  <2>2. ASSUME Own(r), UNCHANGED stores, Entering(r) \/ Is(r, {"read"}) PROVE GBase' /\ HandlersFit'
    <3>1. Kept /\ GBase' /\ \A ops : Entering(r) \/ ~ Is(r, ops) => Quiet(ops)
      BY <1>1, <2>2, OwnKeeps
    <3>2. /\ Quiet({"signup", "login"}) /\ Quiet({"generate"}) /\ Quiet({"create", "update"})
          /\ Quiet({"list"}) /\ Quiet({"revoke"}) /\ Quiet({"pull"}) /\ Quiet({"locality"})
      BY <2>2, <3>1 DEF Is
    <3>3. UNCHANGED <<users, cafes, slots, apiKey, lastCall, called>> /\ list' \in {list, Nil}
      BY <2>2 DEF stores
    <3>. QED
      BY <1>1, <3>1, <3>2, <3>3, HandlersStay
  <2>3. CASE Limit(r) \/ LimitUser(r)
    <3>1. Own(r) /\ Entering(r) /\ BucketsFit' /\ UNCHANGED stores
      BY <1>1, <2>3, AdmissionMoves
    <3>. QED
      BY <2>2, <3>1 DEF GInv
  <2>4. CASE RefuseOwnerCall(r) \/ ReadOwned(r)
    <3>1. Own(r) /\ (Entering(r) \/ Is(r, {"read"})) /\ UNCHANGED stores /\ UNCHANGED limits
      BY <1>1, <2>4, RefusalMoves, ReadMoves
    <3>2. now' = now
      BY <3>1 DEF Own
    <3>. QED
      BY <1>1, <2>2, <3>1, <3>2, BucketsStay DEF GInv
  <2>5. CASE \/ AccountStep(r) \/ SlotStep(r) \/ CafeStep(r) \/ KeyStep(r) \/ ListStep(r)
             \/ PullStep(r) \/ PlaceStep(r)
    <3>1. Own(r) /\ UNCHANGED limits /\ HandlersFit'
      BY <1>1, <2>5, HandlersStep
    <3>2. GBase' /\ now' = now
      BY <3>1 DEF Own
    <3>. QED
      BY <1>1, <3>1, <3>2, BucketsStay DEF GInv
  <2>. QED
    BY <2>1, <2>3, <2>4, <2>5
<1>4. ASSUME UNCHANGED <<call, at, got, reply, after>>, now' \in {now, now + 1}, TypeOK',
             BucketsFit', UNCHANGED <<users, cafes, slots, apiKey, lastCall, called>>,
             list' \in {list, Nil}
      PROVE  GInv'
  <2>1. Kept /\ GBase' /\ \A ops : Quiet(ops)
    BY <1>1, <1>4, AmbientKeeps
  <2>2. HandlersFit'
    BY <1>1, <1>4, <2>1, HandlersStay
  <2>. QED
    BY <1>4, <2>1, <2>2 DEF GInv
<1>5. ASSUME NEW b \in Buckets, BucketExpires(b) PROVE GInv'
  <2>1. TypeOK' /\ BucketsFit'
    BY <1>1, <1>5, ExpiryAccounts
  <2>. QED
    BY <1>4, <1>5, <2>1 DEF BucketExpires, stores
<1>6. CASE ListExpires
  <2>1. TypeOK'
    BY <1>1, <1>6 DEF ListExpires, GBase, TypeOK, limits
  <2>2. BucketsFit'
    BY <1>1, <1>6, BucketsStay DEF ListExpires
  <2>. QED
    BY <1>4, <1>6, <2>1, <2>2 DEF ListExpires
<1>7. CASE Tick
  <2>1. TypeOK'
    <3>1. now' \in 0..MaxNow
      BY <1>1, <1>7, GatewayAssumption DEF Tick, GBase, TypeOK
    <3>. QED
      BY <1>1, <1>7, <3>1 DEF Tick, GBase, TypeOK, limits, stores
  <2>2. BucketsFit'
    BY <1>1, <1>7, BucketsStay DEF Tick
  <2>. QED
    BY <1>4, <1>7, <2>1, <2>2 DEF Tick, stores
<1>8. CASE UNCHANGED vars
  <2>1. UNCHANGED <<now, call, at, got, reply, limits, after, stores>>
    BY <1>8 DEF vars
  <2>2. TypeOK'
    BY <1>1, <2>1 DEF GBase, TypeOK, limits, stores
  <2>3. BucketsFit'
    BY <1>1, <2>1, BucketsStay
  <2>. QED
    BY <1>4, <2>1, <2>2, <2>3 DEF stores
<1>. QED
  BY <1>2, <1>3, <1>5, <1>6, <1>7, <1>8 DEF Next

LEMMA GInvHolds == Spec => []GInv
<1>. QED
  BY GInvInit, GInvNext, PTL DEF Spec

-------------------------------------------------------------------------------
(* The theorems *)

\* The type invariant of the way into the API: every state has the shape the handlers
\* and the two scripts expect.
THEOREM GatewayTypeCorrect == Spec => []TypeOK
<1>1. GInv => TypeOK
  BY DEF GInv, GBase
<1>. QED
  BY <1>1, GInvHolds, PTL

\* RateLimitService.consume: whatever the limits, the clocks of the instances and the order
\* in which requests reach Redis, a bucket lets through what it held and earned.
THEOREM GrantsEarned == Spec => []GrantsAreEarned
<1>1. GInv => GrantsAreEarned
  <2>. SUFFICES ASSUME GInv, NEW b \in Buckets
                PROVE  /\ granted[b] <= Capacity + Rate * (now + rewound[b])
                       /\ bucket[b] # Nil => bucket[b].tokens <= Capacity
    BY DEF GrantsAreEarned
  <2>1. /\ now \in Nat /\ granted[b] \in Nat /\ rewound[b] \in Nat /\ expired[b] \in Nat
        /\ Capacity \in Nat /\ Rate \in Nat
        /\ bucket[b] # Nil => /\ bucket[b].tokens \in 0..Capacity
                              /\ bucket[b].ts \in Nat /\ bucket[b].written \in Nat
    BY GatewayAssumption DEF GInv, GBase, TypeOK, BucketRow
  <2>. DEFINE since == IF bucket[b] = Nil THEN expired[b] ELSE bucket[b].ts
  <2>2. /\ since \in Nat /\ since <= now
        /\ granted[b] <= Capacity + Rate * (since + rewound[b])
    <3>1. CASE bucket[b] = Nil
      <4>1. granted[b] <= Rate * (expired[b] + rewound[b]) /\ expired[b] <= now
        BY <3>1 DEF GInv, BucketsFit
      <4>2. Rate * (expired[b] + rewound[b]) \in Nat
        BY <2>1
      <4>. QED
        BY <2>1, <3>1, <4>1, <4>2
    <3>2. CASE bucket[b] # Nil
      <4>1. /\ bucket[b].ts <= bucket[b].written /\ bucket[b].written <= now
            /\ granted[b] + bucket[b].tokens <= Capacity + Rate * (bucket[b].ts + rewound[b])
        BY <3>2 DEF GInv, BucketsFit
      <4>2. Rate * (bucket[b].ts + rewound[b]) \in Nat
        BY <2>1, <3>2
      <4>. QED
        BY <2>1, <3>2, <4>1, <4>2
    <3>. QED
      BY <3>1, <3>2
  <2>. HIDE DEF since
  <2>3. /\ Rate * (since + rewound[b]) <= Rate * (now + rewound[b])
        /\ Rate * (since + rewound[b]) \in Nat /\ Rate * (now + rewound[b]) \in Nat
    <3>1. since + rewound[b] \in Nat /\ now + rewound[b] \in Nat
          /\ since + rewound[b] <= now + rewound[b]
      BY <2>1, <2>2
    <3>. QED
      BY <3>1, MoreTimeEarnsMore
  <2>. QED
    BY <2>1, <2>2, <2>3
<1>. QED
  BY <1>1, GInvHolds, PTL

\* OwnerService.generateSlots: however many generations run and whatever their grids, two
\* slots of one time come from two calls that ran at the same time.
THEOREM SameTimesOverlap == Spec => []SameTimeNeedsOverlap
<1>1. GInv => SameTimeNeedsOverlap
  BY DEF GInv, HandlersFit, SlotsFit
<1>. QED
  BY <1>1, GInvHolds, PTL

\* OwnerService.generateSlots beside updateCafe: a price off today's band has an update
\* that was not over when its generation was asked for.
THEOREM PricesFollowBands == Spec => []PricesFollowTheBand
<1>1. GInv => PricesFollowTheBand
  BY DEF GInv, HandlersFit, BandsFit, SlotsFit, PricesFollowTheBand, UpdateSince, Is
<1>. QED
  BY <1>1, GInvHolds, PTL

\* NominatimClient.throttle: two calls in one second were slept for side by side.
THEOREM CloseCallsOverlap == Spec => []CloseCallsNeedOverlap
<1>1. GInv => CloseCallsNeedOverlap
  BY DEF GInv, HandlersFit, CallsFit
<1>. QED
  BY <1>1, GInvHolds, PTL

\* AuthService: any number of signups and logins that are answered with a token for one
\* email had one password, on the unique index alone.
THEOREM EmailsAreAccounts == Spec => []OneAccountPerEmail
<1>1. GInv => OneAccountPerEmail
  <2>. SUFFICES ASSUME GInv, NEW r \in Requests, NEW q \in Requests,
                       reply[r] = "ok", call[r].op \in {"signup", "login"},
                       reply[q] = "ok", call[q].op \in {"signup", "login"},
                       call[r].email = call[q].email
                PROVE  call[r].password = call[q].password
    BY DEF OneAccountPerEmail
  <2>1. Is(r, {"signup", "login"}) /\ Is(q, {"signup", "login"})
    BY GatewayAssumption DEF GInv, GBase, TypeOK, RequestsFit, Is, Answers
  <2>2. Account(r) \in users /\ Account(q) \in users
    BY <2>1 DEF GInv, HandlersFit, AccountsFit
  <2>3. Account(r).email = Account(q).email
    BY DEF Account
  <2>4. Account(r) = Account(q)
    BY <2>2, <2>3 DEF GInv, HandlersFit, AccountsFit
  <2>5. Account(r).password = call[r].password /\ Account(q).password = call[q].password
    BY DEF Account
  <2>. QED
    BY <2>4, <2>5
<1>. QED
  BY <1>1, GInvHolds, PTL

\* ApiKeyGuard: no pull is served that was sent after the revocation of its key was
\* answered, whatever ran in between.
THEOREM RevokedKeysServeNothing == Spec => []RevokedKeyServesNothing
<1>1. GInv => RevokedKeyServesNothing
  <2>. SUFFICES ASSUME GInv, NEW r \in Requests, reply[r] = "ok", call[r].op = "pull",
                       NEW q \in after[r],
                       reply[q] = "ok", call[q].op = "revoke", call[q].key = call[r].key
                PROVE  FALSE
    BY DEF RevokedKeyServesNothing
  <2>1. q \in Requests
    BY DEF GInv, GBase, TypeOK
  <2>2. Is(r, {"pull"}) /\ Is(q, {"revoke"})
    BY <2>1, GatewayAssumption DEF GInv, GBase, TypeOK, RequestsFit, Is, Answers
  <2>3. Revoked(q, r)
    BY <2>2 DEF Revoked
  <2>. QED
    BY <2>2, <2>3 DEF GInv, HandlersFit, KeysFit
<1>. QED
  BY <1>1, GInvHolds, PTL

\* CafesService.findAll beside OwnerService: the cached list is old only while an update has
\* yet to drop it, or because its reader ran while one did.
THEOREM StaleListsOverlap == Spec => []StaleListNeedsOverlap
<1>1. GInv => StaleListNeedsOverlap
  BY DEF GInv, HandlersFit, ListsFit
<1>. QED
  BY <1>1, GInvHolds, PTL
================================================================================
