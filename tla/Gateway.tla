-------------------------------- MODULE Gateway --------------------------------
(***************************************************************************)
(* The way into the API and the handlers beside the booking core.  Every   *)
(* request passes RateLimitGuard, the guards of its route, and a handler:  *)
(* accounts (AuthService), the owner's back office (OwnerService), the list *)
(* of cafes with its cache (CafesService), the partner's pull              *)
(* (ApiKeyGuard, PartnerService), the store locator (GeoService,           *)
(* NominatimClient).  A handler is a step per await that others can come   *)
(* between: what it read is `got' until it uses it.                        *)
(*                                                                         *)
(* The clock is in seconds, tokens in 1/Cost of a request; a slot's time is *)
(* in minutes since a Sunday 00:00 UTC.                                    *)
(***************************************************************************)
EXTENDS FiniteSets, Integers

CONSTANTS
  Requests,
  Calls,           \* the calls a request may be
  Buckets,         \* keys of rate limits: rl:ip:* and rl:user:*
  Capacity, Rate, Cost,
  InitialCafes,    \* [band, opened]: one cafe's price band in paise; who opened others
  Processes,       \* of the API: each instance's, and those it is restarted as
  Keys, Nil,
  MaxNow           \* bound: the clock

\* The HMSET of a bucket, and when it was; a cafe's row and the rows others opened.
BucketRow == [tokens: 0..Capacity, ts: 0..MaxNow, written: 0..MaxNow]
Cafes == [band: Nat, opened: SUBSET Requests]

Answers == {"ok", "tooMany", "refused", "error"}

ASSUME GatewayAssumption ==
  /\ Capacity \in Nat /\ Rate \in Nat \ {0} /\ Cost \in 1..Capacity
  /\ MaxNow \in Nat
  /\ InitialCafes \in Cafes
  /\ \A c \in Calls : /\ c.address \in Buckets /\ c.user \in Buckets \cup {Nil}
                      /\ c.op \in {"newKey", "revoke", "pull"} => c.key \in Keys
                      /\ c.op = "update" => c.band \in Nat
  /\ Nil \notin Requests \cup Keys \cup Calls \cup BucketRow \cup Answers

VARIABLES
  now,
  call, at, got, reply,    \* each request: what, where, what it has read, its answer
  bucket,          \* Redis: tokens, ts, and when it was written, or Nil
  granted,         \* ghost: what each bucket has let through
  rewound,         \* ghost: how far each bucket's time was moved back, all in all
  expired,         \* ghost: when a bucket that is gone expired, full again; else 0
  after,           \* ghost: the requests that were done when each request arrived
  users,           \* [email, password]
  cafes,           \* the rows
  list,            \* cafes:list, [cafes, by], or Nil
  slots,           \* [time, price, by]
  apiKey,          \* each key's row: "none", "active" or "revoked"
  place,           \* geo:locality, known or not
  lastCall,        \* NominatimClient.lastCallAt, in the memory of each process
  called           \* ghost: [at, by, from]: the calls to Nominatim, each from a process

stores == <<users, cafes, list, slots, apiKey, place, lastCall, called>>
limits == <<bucket, granted, rewound, expired>>
vars == <<now, call, at, got, reply, limits, after, stores>>

Steps == {"new", "limit", "userLimit", "handle", "second", "third", "done"}
\* A key's row: absent, or with revokedAt null or not.
KeyStates == {"none", "active", "revoked"}

TypeOK ==
  /\ now \in 0..MaxNow
  /\ call \in [Requests -> Calls \cup {Nil}]
  /\ at \in [Requests -> Steps] /\ reply \in [Requests -> Answers \cup {Nil}]
  /\ bucket \in [Buckets -> BucketRow \cup {Nil}]
  /\ granted \in [Buckets -> Nat] /\ rewound \in [Buckets -> Nat]
  /\ expired \in [Buckets -> 0..MaxNow]
  /\ after \in [Requests -> SUBSET Requests]
  /\ cafes \in Cafes
  /\ apiKey \in [Keys -> KeyStates]
  /\ lastCall \in [Processes -> -1..MaxNow]
  /\ \A r \in Requests : at[r] = "done" <=> reply[r] # Nil

-------------------------------------------------------------------------------
(* Requests and the rate limit *)

Nothing == [time |-> 0, account |-> Nil, cafes |-> Nil, times |-> {}, process |-> Nil]

Go(r, step, with) ==
  /\ at' = [at EXCEPT ![r] = step]
  /\ got' = [got EXCEPT ![r] = with]
  /\ UNCHANGED <<call, reply>>

Finish(r, answer) ==
  /\ at' = [at EXCEPT ![r] = "done"]
  /\ got' = [got EXCEPT ![r] = Nothing]
  /\ reply' = [reply EXCEPT ![r] = answer]
  /\ UNCHANGED call

\* A request arrives at some instance, which reads its clock for the script; the
\* clocks agree.
Arrive(r, c) ==
  /\ at[r] = "new"
  /\ call' = [call EXCEPT ![r] = c]
  /\ at' = [at EXCEPT ![r] = "limit"]
  /\ got' = [got EXCEPT ![r].time = now]
  /\ after' = [after EXCEPT ![r] = {q \in Requests : at[q] = "done"}]
  /\ UNCHANGED <<now, reply, limits, stores>>

\* Mutant: the row is written before the cost is taken.
TakeTokenLater(b, t) ==
  LET old == IF bucket[b] = Nil THEN [tokens |-> Capacity, ts |-> t] ELSE bucket[b]
      last == IF bucket[b] = Nil THEN expired[b] ELSE old.ts
      elapsed == IF t > old.ts THEN t - old.ts ELSE 0
      refilled == IF old.tokens + elapsed * Rate > Capacity THEN Capacity
                                                            ELSE old.tokens + elapsed * Rate
  IN [allowed |-> refilled >= Cost,
      row |-> [tokens |-> refilled, ts |-> t, written |-> now],
      back |-> IF t < last THEN last - t ELSE 0]

\* TOKEN_BUCKET_SCRIPT with the instance's time t: refilled by what has passed since
\* ts, to the capacity; a request takes its cost or is refused; ts is t.
TakeToken(b, t) ==
  LET old == IF bucket[b] = Nil THEN [tokens |-> Capacity, ts |-> t] ELSE bucket[b]
      last == IF bucket[b] = Nil THEN expired[b] ELSE old.ts
      elapsed == IF t > old.ts THEN t - old.ts ELSE 0
      refilled == IF old.tokens + elapsed * Rate > Capacity THEN Capacity
                                                            ELSE old.tokens + elapsed * Rate
  IN [allowed |-> refilled >= Cost,
      row |-> [tokens |-> IF refilled >= Cost THEN refilled - Cost ELSE refilled,
               ts |-> t, written |-> now],
      back |-> IF t < last THEN last - t ELSE 0]

\* consume: the script against one bucket, at the time in `got'; r goes on, or is 429.
Consume(r, b, next) ==
  LET take == TakeToken(b, got[r].time) IN
  /\ bucket' = [bucket EXCEPT ![b] = take.row]
  /\ rewound' = [rewound EXCEPT ![b] = @ + take.back]
  /\ granted' = [granted EXCEPT ![b] = IF take.allowed THEN @ + Cost ELSE @]
  /\ expired' = [expired EXCEPT ![b] = 0]
  /\ IF take.allowed THEN Go(r, next, [Nothing EXCEPT !.time = now])
                     ELSE Finish(r, "tooMany")
  /\ UNCHANGED <<now, after, stores>>

\* canActivate: the address's bucket, then, with a valid token, the user's.  A request
\* the second one refuses has used the first.
Limit(r) ==
  /\ at[r] = "limit"
  /\ Consume(r, call[r].address, IF call[r].user = Nil THEN "handle" ELSE "userLimit")

LimitUser(r) ==
  /\ at[r] = "userLimit"
  /\ Consume(r, call[r].user, "handle")

\* EXPIRE: twice the time that fills the bucket, after its last use.
TimeToLive == 2 * ((Capacity + Rate - 1) \div Rate)

BucketExpires(b) ==
  /\ bucket[b] # Nil
  /\ now >= bucket[b].written + TimeToLive
  /\ bucket' = [bucket EXCEPT ![b] = Nil]
  /\ expired' = [expired EXCEPT ![b] = now]
  /\ UNCHANGED <<now, call, at, got, reply, granted, rewound, after, stores>>

Handles(r, op, step) == at[r] = step /\ call[r].op = op

-------------------------------------------------------------------------------
(* Accounts *)

\* signup: is the email taken?  Then bcrypt works for a while.
FindUser(r) ==
  /\ Handles(r, "signup", "handle")
  /\ IF \E u \in users : u.email = call[r].email
     THEN Finish(r, "refused") ELSE Go(r, "second", Nothing)
  /\ UNCHANGED <<now, limits, after, stores>>

\* The row of a user: the hash of the password tells passwords apart.
Account(r) == [email |-> call[r].email, password |-> call[r].password]

\* Mutant: no unique index on the email.
SaveUserAnyway(r) ==
  /\ Handles(r, "signup", "second")
  /\ users' = users \cup {Account(r)}
  /\ Finish(r, "ok")
  /\ UNCHANGED <<now, limits, after, cafes, list, slots, apiKey, place, lastCall, called>>

\* The insert, which the unique index refuses to a second one: an error 500.
SaveUser(r) ==
  /\ Handles(r, "signup", "second")
  /\ IF \E u \in users : u.email = call[r].email
     THEN Finish(r, "error") /\ UNCHANGED users
     ELSE Finish(r, "ok") /\ users' = users \cup {Account(r)}
  /\ UNCHANGED <<now, limits, after, cafes, list, slots, apiKey, place, lastCall, called>>

\* login: the account of the email ...
FindAccount(r) ==
  /\ Handles(r, "login", "handle")
  /\ \/ /\ \A u \in users : u.email # call[r].email
        /\ Finish(r, "refused")
     \/ \E u \in users : /\ u.email = call[r].email
                         /\ Go(r, "second", [Nothing EXCEPT !.account = u])
  /\ UNCHANGED <<now, limits, after, stores>>

\* ... and bcrypt's verdict on the password.
ComparePassword(r) ==
  /\ Handles(r, "login", "second")
  /\ Finish(r, IF got[r].account.password = call[r].password THEN "ok" ELSE "refused")
  /\ UNCHANGED <<now, limits, after, stores>>

-------------------------------------------------------------------------------
(* The owner's back office *)

OwnerCalls == {"generate", "create", "update", "revoke", "newKey", "read"}

\* RolesGuard: the routes under /owner are for owners.
RoleRefused(c) == c.op \in OwnerCalls /\ c.who = "customer"

\* GenerateSlotsDto: days, hours and turn within their bounds.
ValidGrid(grid) ==
  /\ grid.days \in 1..60 /\ grid.open \in 0..23 /\ grid.close \in 1..24
  /\ grid.turn >= 15

\* requireOwnedCafe: the cafe of another owner.
OwnerRefused(c) == c.op \in OwnerCalls \ {"create"} /\ c.who = "stranger"

Refused(c) ==
  \/ RoleRefused(c) \/ OwnerRefused(c)
  \/ c.op = "generate" /\ ~ ValidGrid(c.grid)

RefuseOwnerCall(r) ==
  /\ at[r] = "handle"
  /\ Refused(call[r])
  /\ Finish(r, "refused")
  /\ UNCHANGED <<now, limits, after, stores>>

Serves(r, op) == Handles(r, op, "handle") /\ ~ Refused(call[r])

\* The lists of tables, bookings and keys, which read and no more.
ReadOwned(r) ==
  /\ Serves(r, "read")
  /\ Finish(r, "ok")
  /\ UNCHANGED <<now, limits, after, stores>>

\* dailySlotTimesConfigurable: from the opening, every turn, before the closing.
DailySlotTimes(day, grid) ==
  {1440 * day + 60 * grid.open + i * grid.turn :
     i \in 0..((60 * (grid.close - grid.open) - 1) \div grid.turn)}

CandidateTimes(grid) ==
  UNION {DailySlotTimes(d, grid) : d \in grid.start..(grid.start + grid.days - 1)}

\* In tenths: dinner, early evening, lunch, the rest.
HourMultiplier(hour) ==
  CASE hour \in {19, 20} -> 15 [] hour = 17 -> 11 [] hour \in {12, 13} -> 10 [] OTHER -> 7

\* Friday and Saturday.
IsWeekend(t) == (t \div 1440) % 7 \in {5, 6}

\* computeSlotPriceMinor for bands of whole rupees, whose products are whole paise.
SlotPrice(band, t) ==
  (band * HourMultiplier((t % 1440) \div 60) * (IF IsWeekend(t) THEN 13 ELSE 10)) \div 100

\* generateSlots reads the cafe, and refuses a grid that closes before it opens ...
ReadBand(r) ==
  /\ Serves(r, "generate")
  /\ IF call[r].grid.close <= call[r].grid.open
     THEN Finish(r, "refused")
     ELSE Go(r, "second", [Nothing EXCEPT !.cafes = cafes])
  /\ UNCHANGED <<now, limits, after, stores>>

\* ... reads those of the grid's times that are there ...
ReadSlots(r) ==
  /\ Handles(r, "generate", "second")
  /\ Go(r, "third", [got[r] EXCEPT !.times =
                       {s.time : s \in slots} \cap CandidateTimes(call[r].grid)])
  /\ UNCHANGED <<now, limits, after, stores>>

\* Mutant: the times that exist are not left out.
NewTimesAll(r) == CandidateTimes(call[r].grid)

NewTimes(r) == CandidateTimes(call[r].grid) \ got[r].times

\* Mutant: the price is the default band's, whatever the owner has set.
NewSlotDefault(r, t) == [time |-> t, price |-> SlotPrice(InitialCafes.band, t), by |-> r]

\* The row of a slot: its price is frozen here.
NewSlot(r, t) == [time |-> t, price |-> SlotPrice(got[r].cafes.band, t), by |-> r]

\* ... and saves the others.
SaveSlots(r) ==
  /\ Handles(r, "generate", "third")
  /\ slots' = slots \cup {NewSlot(r, t) : t \in NewTimes(r)}
  /\ Finish(r, "ok")
  /\ UNCHANGED <<now, limits, after, users, cafes, list, apiKey, place, lastCall, called>>

\* createCafe, and then it drops the cached list like updateCafe.
CreateCafe(r) ==
  /\ Serves(r, "create")
  /\ cafes' = [cafes EXCEPT !.opened = @ \cup {r}]
  /\ Go(r, "third", Nothing)
  /\ UNCHANGED <<now, limits, after, users, list, slots, apiKey, place, lastCall, called>>

\* updateCafe reads the entity, edits it, saves what differs from the row by then ...
ReadCafe(r) ==
  /\ Serves(r, "update")
  /\ Go(r, "second", [Nothing EXCEPT !.cafes = [cafes EXCEPT !.band = call[r].band]])
  /\ UNCHANGED <<now, limits, after, stores>>

SaveCafe(r) ==
  /\ Handles(r, "update", "second")
  /\ cafes' = [cafes EXCEPT !.band = got[r].cafes.band]
  /\ Go(r, "third", Nothing)
  /\ UNCHANGED <<now, limits, after, users, list, slots, apiKey, place, lastCall, called>>

\* Mutant: an update leaves the cached list.
KeepList(r) ==
  /\ \E op \in {"create", "update"} : Handles(r, op, "third")
  /\ Finish(r, "ok")
  /\ UNCHANGED <<now, limits, after, stores>>

\* ... and drops the cached list.
DropList(r) ==
  /\ \E op \in {"create", "update"} : Handles(r, op, "third")
  /\ list' = Nil
  /\ Finish(r, "ok")
  /\ UNCHANGED <<now, limits, after, users, cafes, slots, apiKey, place, lastCall, called>>

GenerateKey(r) ==
  /\ Serves(r, "newKey")
  /\ apiKey[call[r].key] = "none"
  /\ apiKey' = [apiKey EXCEPT ![call[r].key] = "active"]
  /\ Finish(r, "ok")
  /\ UNCHANGED <<now, limits, after, users, cafes, list, slots, place, lastCall, called>>

\* An unknown key is a 404, a revoked one stays as it is.
RevokeKey(r) ==
  /\ Serves(r, "revoke")
  /\ IF apiKey[call[r].key] = "none"
     THEN Finish(r, "refused") /\ UNCHANGED apiKey
     ELSE Finish(r, "ok") /\ apiKey' = [apiKey EXCEPT ![call[r].key] = "revoked"]
  /\ UNCHANGED <<now, limits, after, users, cafes, list, slots, place, lastCall, called>>

-------------------------------------------------------------------------------
(* The list of cafes *)

GetList(r) ==
  /\ Handles(r, "list", "handle")
  /\ IF list # Nil THEN Finish(r, "ok") ELSE Go(r, "second", Nothing)
  /\ UNCHANGED <<now, limits, after, stores>>

FindCafes(r) ==
  /\ Handles(r, "list", "second")
  /\ Go(r, "third", [Nothing EXCEPT !.cafes = cafes])
  /\ UNCHANGED <<now, limits, after, stores>>

SetList(r) ==
  /\ Handles(r, "list", "third")
  /\ list' = [cafes |-> got[r].cafes, by |-> r]
  /\ Finish(r, "ok")
  /\ UNCHANGED <<now, limits, after, users, cafes, slots, apiKey, place, lastCall, called>>

ListExpires ==
  /\ list # Nil
  /\ list' = Nil
  /\ UNCHANGED <<now, call, at, got, reply, limits, after, users, cafes, slots, apiKey,
                 place, lastCall, called>>

-------------------------------------------------------------------------------
(* The partner's pull *)

\* Mutant: a key is looked up by its hash alone.
KeyIsKnown(k) == apiKey[k] # "none"

KeyIsGood(k) == apiKey[k] = "active"

\* ApiKeyGuard: missing, unknown and revoked keys are one and the same 401.
CheckKey(r) ==
  /\ Handles(r, "pull", "handle")
  /\ IF KeyIsGood(call[r].key) THEN Go(r, "second", Nothing) ELSE Finish(r, "refused")
  /\ UNCHANGED <<now, limits, after, stores>>

\* requireScopedCafe, and the day's bookings or grid.
Pull(r) ==
  /\ Handles(r, "pull", "second")
  /\ Finish(r, IF call[r].scoped THEN "ok" ELSE "refused")
  /\ UNCHANGED <<now, limits, after, stores>>

-------------------------------------------------------------------------------
(* The store locator *)

\* A known place is answered from Redis; else throttle() looks at the last call of the
\* process that serves the request and sleeps until a second after it.
GetPlace(r) ==
  /\ Handles(r, "locality", "handle")
  /\ IF place
     THEN Finish(r, "ok")
     ELSE \E p \in Processes :
            Go(r, "second", [Nothing EXCEPT !.time = lastCall[p] + 1, !.process = p])
  /\ UNCHANGED <<now, limits, after, stores>>

\* Mutant: the time of the call is not kept.
CallNominatimForgetful(r) ==
  /\ Handles(r, "locality", "second")
  /\ now >= got[r].time
  /\ lastCall' = lastCall
  /\ called' = called \cup {[at |-> now, by |-> r, from |-> got[r].process]}
  /\ Go(r, "third", Nothing)
  /\ UNCHANGED <<now, limits, after, users, cafes, list, slots, apiKey, place>>

CallNominatim(r) ==
  /\ Handles(r, "locality", "second")
  /\ now >= got[r].time
  /\ lastCall' = [lastCall EXCEPT ![got[r].process] = now]
  /\ called' = called \cup {[at |-> now, by |-> r, from |-> got[r].process]}
  /\ Go(r, "third", Nothing)
  /\ UNCHANGED <<now, limits, after, users, cafes, list, slots, apiKey, place>>

\* Found and cached, or unknown (a 404) or failed.
Located(r) ==
  /\ Handles(r, "locality", "third")
  /\ \/ Finish(r, "ok") /\ place' = TRUE
     \/ Finish(r, "error") /\ UNCHANGED place
  /\ UNCHANGED <<now, limits, after, users, cafes, list, slots, apiKey, lastCall, called>>

-------------------------------------------------------------------------------
(* The specification *)

Tick ==
  /\ now < MaxNow
  /\ now' = now + 1
  /\ UNCHANGED <<call, at, got, reply, limits, after, stores>>

Init ==
  /\ now = 0
  /\ call = [r \in Requests |-> Nil] /\ at = [r \in Requests |-> "new"]
  /\ got = [r \in Requests |-> Nothing] /\ reply = [r \in Requests |-> Nil]
  /\ bucket = [b \in Buckets |-> Nil]
  /\ granted = [b \in Buckets |-> 0] /\ rewound = [b \in Buckets |-> 0]
  /\ expired = [b \in Buckets |-> 0]
  /\ after = [r \in Requests |-> {}]
  /\ users = {} /\ cafes = InitialCafes /\ list = Nil /\ slots = {}
  /\ apiKey = [k \in Keys |-> "none"]
  /\ place = FALSE /\ lastCall = [p \in Processes |-> -1] /\ called = {}

Handle(r) ==
  \/ Limit(r) \/ LimitUser(r)
  \/ FindUser(r) \/ SaveUser(r) \/ FindAccount(r) \/ ComparePassword(r)
  \/ RefuseOwnerCall(r) \/ ReadOwned(r) \/ ReadBand(r) \/ ReadSlots(r) \/ SaveSlots(r)
  \/ CreateCafe(r) \/ ReadCafe(r) \/ SaveCafe(r) \/ DropList(r) \/ GenerateKey(r) \/ RevokeKey(r)
  \/ GetList(r) \/ FindCafes(r) \/ SetList(r)
  \/ CheckKey(r) \/ Pull(r)
  \/ GetPlace(r) \/ CallNominatim(r) \/ Located(r)

Next ==
  \/ \E r \in Requests, c \in Calls : Arrive(r, c)
  \/ \E r \in Requests : Handle(r)
  \/ \E b \in Buckets : BucketExpires(b)
  \/ ListExpires \/ Tick

Spec == Init /\ [][Next]_vars

-------------------------------------------------------------------------------
(* Properties *)

\* Neither was done when the other arrived.
Overlap(r, q) == r # q /\ q \notin after[r] /\ r \notin after[q]

\* A bucket never lets more through than it held and earned, and never holds more than
\* its capacity: instances whose requests reach Redis out of order, or with a time from
\* before the bucket expired, can earn a stretch of time twice, and nothing else can, the
\* expiry of an idle bucket included.
GrantsAreEarned ==
  \A b \in Buckets :
    /\ granted[b] <= Capacity + Rate * (now + rewound[b])
    /\ bucket[b] # Nil => bucket[b].tokens <= Capacity

\* The grid never has a time twice, however often and however differently it is
\* generated: only two calls that run at the same time, with no unique index behind
\* the check, can create one slot each.
SameTimeNeedsOverlap ==
  \A s, u \in slots : s.time = u.time /\ s # u => Overlap(s.by, u.by)

\* A slot is created at the price that the cafe's band gives its hour and day.  It is
\* off the band of today only by an update that was not over when its generation was
\* asked for: one it overlapped, or a later one, which leaves frozen prices alone.
PricesFollowTheBand ==
  \A s \in slots :
    s.price # SlotPrice(cafes.band, s.time) =>
      \E r \in Requests :
        call[r] # Nil /\ call[r].op = "update" /\ r \notin after[s.by]

\* A process asks Nominatim at most once a second, unless two of its searches sleep side
\* by side.  Nothing holds that limit between instances, or across a restart.
CloseCallsNeedOverlap ==
  \A c, d \in called : c.at = d.at /\ c.from = d.from /\ c # d => Overlap(c.by, d.by)

\* An email is one account, whichever of two signups finds it free: the signups and
\* logins that are answered with a token for it had one and the same password.
OneAccountPerEmail ==
  \A r, q \in Requests :
    /\ reply[r] = "ok" /\ call[r].op \in {"signup", "login"}
    /\ reply[q] = "ok" /\ call[q].op \in {"signup", "login"}
    /\ call[r].email = call[q].email
    => call[r].password = call[q].password

\* A pull that is sent after a revocation of its key was answered gets nothing.
RevokedKeyServesNothing ==
  \A r \in Requests :
    reply[r] = "ok" /\ call[r].op = "pull" =>
      ~ \E q \in after[r] :
          reply[q] = "ok" /\ call[q].op = "revoke" /\ call[q].key = call[r].key

\* The cached list of cafes is out of date only until the update that changed a cafe
\* has dropped it, or because its reader ran while an update did.
StaleListNeedsOverlap ==
  list # Nil /\ list.cafes # cafes =>
    \E r \in Requests :
      /\ at[r] \notin {"new", "limit"} /\ call[r].op \in {"create", "update"}
      /\ at[r] = "third" \/ Overlap(list.by, r)
================================================================================
