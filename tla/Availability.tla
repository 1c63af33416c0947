------------------------------ MODULE Availability ------------------------------
(***************************************************************************)
(* The live grid of one cafe: CafesService.getAvailability, its cache and  *)
(* the events that invalidate it (AvailabilityCacheService,                *)
(* AvailabilityEventsService), and the pages that show it, refetch it on   *)
(* every event, and hold and confirm what they see (CafeAvailabilityPage). *)
(*                                                                         *)
(* A seat is a (table, slot) pair.  Of the booking path only the moments   *)
(* that a reader can see are here: the hold, the hold consumed, the        *)
(* booking committed, the cancellation; Reservations has the rest.         *)
(***************************************************************************)
EXTENDS FiniteSets, Integers

CONSTANTS
  Seats, Dates,
  DateOf,          \* the day of each seat's slot
  Pages,
  Others,          \* other clients: the agent, other instances' users
  Direct,          \* clients of POST /reservations
  Loads,           \* the GETs in flight
  Nil,
  MaxChanges       \* bound: changes of seats, tables and dates, lost connections

Clients == Pages \cup Others

ASSUME AvailabilityAssumption ==
  /\ DateOf \in [Seats -> Dates]
  /\ Pages \cap Others = {}
  /\ Nil \notin Clients \cup Direct \cup Seats
  /\ MaxChanges \in Nat

VARIABLES
  holder,          \* Redis: who holds each seat
  booking,         \* Postgres: who booked each seat
  closed,          \* seats of tables that are out of service
  cache,           \* availability:<cafe>:<date>: the seats shown free, or Nil
  tracked,         \* availability:tracked:<cafe>
  request,         \* each client's hold, confirm or cancellation
  load,            \* each GET of the grid
  page,            \* each page: date, hold, feed, due
  view,            \* what it shows
  missed,          \* ghost: pages with an event published since their last GET began
  changes

truth == <<holder, booking, closed>>
redis == <<cache, tracked>>
screen == <<page, view, missed>>
vars == <<truth, redis, request, load, screen, changes>>

Page ==
  [date: Dates, hold: Seats \cup {Nil}, feed: {"lost", "open", "live", "closed"}, due: BOOLEAN]
Grid == [date: Dates, free: SUBSET Seats]
Request ==
  [op: {"hold", "confirm", "cancel"}, seat: Seats,
   at: {"commit", "members", "del", "publish", "answer"}, dates: SUBSET Dates]
Load ==
  [of: Pages, date: Dates, at: {"get", "read", "sadd", "expire", "reply"},
   open: SUBSET Seats, booked: SUBSET Seats \cup {Nil}, held: SUBSET Seats \cup {Nil},
   free: SUBSET Seats]

TypeOK ==
  /\ holder \in [Seats -> Clients \cup {Nil}]
  /\ booking \in [Seats -> Clients \cup Direct \cup {Nil}]
  /\ closed \subseteq Seats
  /\ \A d \in Dates :
       cache[d] # Nil => cache[d] \subseteq {s \in Seats : DateOf[s] = d}
  /\ tracked \subseteq Dates
  /\ request \in [Clients -> Request \cup {Nil}]
  /\ load \in [Loads -> Load \cup {Nil}]
  /\ page \in [Pages -> Page] /\ view \in [Pages -> Grid \cup {Nil}]
  /\ missed \subseteq Pages
  /\ changes \in 0..MaxChanges

\* What getAvailability computes when nothing moves.
Taken(s) == holder[s] # Nil \/ booking[s] # Nil
FreeSeats(d) == {s \in Seats : DateOf[s] = d /\ s \notin closed /\ ~ Taken(s)}

Change == changes < MaxChanges /\ changes' = changes + 1

-------------------------------------------------------------------------------
(* Changes of the truth *)

Ask(c, o, s, step) ==
  request' = [request EXCEPT ![c] = [op |-> o, seat |-> s, at |-> step, dates |-> {}]]

\* POST /reservations/hold.  A refusal changes nothing but the page's error text.
Hold(c, s) ==
  /\ request[c] = Nil
  /\ c \in Pages => page[c].hold = Nil /\ view[c] # Nil /\ s \in view[c].free
  /\ booking[s] = Nil /\ holder[s] \in {Nil, c}
  /\ Change
  /\ holder' = [holder EXCEPT ![s] = c]
  /\ Ask(c, "hold", s, "members")
  /\ UNCHANGED <<booking, closed, redis, load, screen>>

\* POST /reservations/confirm: the hold is consumed ...
Consume(c, s) ==
  /\ request[c] = Nil
  /\ c \in Pages => page[c].hold = s
  /\ Change
  /\ IF holder[s] = c
     THEN holder' = [holder EXCEPT ![s] = Nil] /\ Ask(c, "confirm", s, "commit")
     ELSE UNCHANGED holder /\ Ask(c, "confirm", s, "answer")
  /\ UNCHANGED <<booking, closed, redis, load, screen>>

\* ... and the booking commits, or does not: the unique index, the wallet.
CommitBooking(c) ==
  /\ request[c] # Nil /\ request[c].at = "commit"
  /\ \/ /\ booking[request[c].seat] = Nil
        /\ booking' = [booking EXCEPT ![request[c].seat] = c]
        /\ request' = [request EXCEPT ![c].at = "members"]
     \/ /\ request' = [request EXCEPT ![c].at = "answer"]
        /\ UNCHANGED booking
  /\ UNCHANGED <<holder, closed, redis, load, screen, changes>>

\* DELETE /reservations/:id.
Cancel(c, s) ==
  /\ request[c] = Nil
  /\ booking[s] = c
  /\ Change
  /\ booking' = [booking EXCEPT ![s] = Nil]
  /\ Ask(c, "cancel", s, "members")
  /\ UNCHANGED <<holder, closed, redis, load, screen>>

\* POST /reservations: a booking that publishes nothing.
BookDirect(c, s) ==
  /\ c \in Direct
  /\ booking[s] = Nil
  /\ Change
  /\ booking' = [booking EXCEPT ![s] = c]
  /\ UNCHANGED <<holder, closed, redis, request, load, screen>>

\* The hold's TTL.  Nobody is told.
HoldExpires(s) ==
  /\ holder[s] # Nil
  /\ holder' = [holder EXCEPT ![s] = Nil]
  /\ UNCHANGED <<booking, closed, redis, request, load, screen, changes>>

\* updateTable: a table goes out of service or comes back.  Nobody is told.
UpdateTable(s) ==
  /\ Change
  /\ closed' = IF s \in closed THEN closed \ {s} ELSE closed \cup {s}
  /\ UNCHANGED <<holder, booking, redis, request, load, screen>>

-------------------------------------------------------------------------------
(* publish: invalidate, then tell *)

Step(c, step) == request' = [request EXCEPT ![c].at = step]

SMembers(c) ==
  /\ request[c] # Nil /\ request[c].at = "members"
  /\ request' = [request EXCEPT ![c].dates = tracked,
                                ![c].at = IF tracked = {} THEN "publish" ELSE "del"]
  /\ UNCHANGED <<truth, redis, load, screen, changes>>

\* DEL of the tracking set and of the dates it had.
Del(c) ==
  /\ request[c] # Nil /\ request[c].at = "del"
  /\ cache' = [d \in Dates |-> IF d \in request[c].dates THEN Nil ELSE cache[d]]
  /\ tracked' = {}
  /\ Step(c, "publish")
  /\ UNCHANGED <<truth, load, screen, changes>>

\* Every page whose stream is subscribed refetches.  No other gets the message, and
\* one whose stream is open and not subscribed, yet or again, never makes up for it.
Publish(c) ==
  /\ request[c] # Nil /\ request[c].at = "publish"
  /\ page' = [p \in Pages |-> [page[p] EXCEPT !.due = @ \/ page[p].feed = "live"]]
  /\ missed' = missed \cup {p \in Pages : page[p].feed # "open"}
  /\ Step(c, "answer")
  /\ UNCHANGED <<truth, redis, load, view, changes>>

\* The page takes its hold, or drops it with its key, confirmed or refused, and loads.
Answer(c) ==
  /\ request[c] # Nil /\ request[c].at = "answer"
  /\ request' = [request EXCEPT ![c] = Nil]
  /\ page' = IF c \in Pages
             THEN [page EXCEPT ![c].due = TRUE,
                               ![c].hold = IF request[c].op = "hold" THEN request[c].seat
                                                                     ELSE Nil]
             ELSE page
  /\ UNCHANGED <<truth, redis, load, view, missed, changes>>

-------------------------------------------------------------------------------
(* getAvailability *)

StartLoad(l, p) ==
  /\ load[l] = Nil
  /\ page[p].due
  /\ load' = [load EXCEPT ![l] = [of |-> p, date |-> page[p].date, at |-> "get",
                                  open |-> {}, booked |-> Nil, held |-> Nil, free |-> {}]]
  /\ page' = [page EXCEPT ![p].due = FALSE]
  /\ missed' = missed \ {p}
  /\ UNCHANGED <<truth, redis, request, view, changes>>

At(l, step) == load[l] # Nil /\ load[l].at = step

\* A hit is the answer; a miss reads the tables and the day's slots.
Get(l) ==
  LET d == load[l].date IN
  /\ At(l, "get")
  /\ load' = [load EXCEPT ![l] =
       IF cache[d] # Nil
       THEN [@ EXCEPT !.at = "reply", !.free = cache[d]]
       ELSE [@ EXCEPT !.at = "read", !.open = {s \in Seats : DateOf[s] = d} \ closed]]
  /\ UNCHANGED <<truth, redis, request, screen, changes>>

\* Bookings and holds are read at the same time: from two stores, in either order.
ReadBooked(l) ==
  /\ At(l, "read") /\ load[l].booked = Nil
  /\ load' = [load EXCEPT ![l].booked = {s \in Seats : booking[s] # Nil}]
  /\ UNCHANGED <<truth, redis, request, screen, changes>>

ReadHeld(l) ==
  /\ At(l, "read") /\ load[l].held = Nil
  /\ load' = [load EXCEPT ![l].held = {s \in Seats : holder[s] # Nil}]
  /\ UNCHANGED <<truth, redis, request, screen, changes>>

\* set: SET with the TTL, SADD, and then EXPIRE of the tracking set.
Store(l) ==
  LET free == load[l].open \ (load[l].booked \cup load[l].held) IN
  /\ At(l, "read") /\ load[l].booked # Nil /\ load[l].held # Nil
  /\ cache' = [cache EXCEPT ![load[l].date] = free]
  /\ load' = [load EXCEPT ![l].at = "sadd", ![l].free = free,
                          ![l].open = {}, ![l].booked = Nil, ![l].held = Nil]
  /\ UNCHANGED <<truth, tracked, request, screen, changes>>

SAdd(l) ==
  /\ At(l, "sadd")
  /\ tracked' = tracked \cup {load[l].date}
  /\ load' = [load EXCEPT ![l].at = "expire"]
  /\ UNCHANGED <<truth, cache, request, screen, changes>>

ExpireTracked(l) ==
  /\ At(l, "expire")
  /\ load' = [load EXCEPT ![l].at = "reply"]
  /\ UNCHANGED <<truth, redis, request, screen, changes>>

\* The answer is shown, whatever was shown or chosen since; or it is an error.
Reply(l) ==
  /\ At(l, "reply")
  /\ view' \in {view, [view EXCEPT ![load[l].of] = [date |-> load[l].date,
                                                    free |-> load[l].free]]}
  /\ load' = [load EXCEPT ![l] = Nil]
  /\ UNCHANGED <<truth, redis, request, page, missed, changes>>

\* Mutant: an entry is set without a TTL.
EntryKept(d) ==
  /\ FALSE
  /\ UNCHANGED vars

\* An entry's TTL.
EntryExpires(d) ==
  /\ cache[d] # Nil
  /\ cache' = [cache EXCEPT ![d] = Nil]
  /\ UNCHANGED <<truth, tracked, request, load, screen, changes>>

\* The tracking set's, which each finished set() moves past its entry's.
TrackedExpires ==
  /\ tracked # {}
  /\ \A d \in tracked :
       cache[d] = Nil \/ \E l \in Loads : At(l, "expire") /\ load[l].date = d
  /\ tracked' = {}
  /\ UNCHANGED <<truth, cache, request, load, screen, changes>>

-------------------------------------------------------------------------------
(* The page *)

\* A change of date, which a page with a hold refuses, loads and opens the stream anew.
SelectDate(p, d) ==
  /\ page[p].hold = Nil
  /\ page[p].date # d
  /\ Change
  /\ page' = [page EXCEPT ![p].date = d, ![p].feed = "lost", ![p].due = TRUE]
  /\ UNCHANGED <<truth, redis, request, load, view, missed>>

\* The countdown of its hold ends.
Countdown(p) ==
  /\ page[p].hold # Nil
  /\ holder[page[p].hold] # p
  /\ page' = [page EXCEPT ![p].hold = Nil, ![p].due = TRUE]
  /\ UNCHANGED <<truth, redis, request, load, view, missed, changes>>

Disconnect(p) ==
  /\ page[p].feed \in {"open", "live"}
  /\ Change
  /\ page' = [page EXCEPT ![p].feed = "lost"]
  /\ UNCHANGED <<truth, redis, request, load, view, missed>>

\* The server loses its own connection to Redis and has to subscribe again; the
\* page's stream stays open.
SubscriberLost(p) ==
  /\ page[p].feed = "live"
  /\ Change
  /\ page' = [page EXCEPT ![p].feed = "open"]
  /\ UNCHANGED <<truth, redis, request, load, view, missed>>

\* Mutant: an EventSource that opens does not refetch.
ReconnectSilently(p) ==
  /\ page[p].feed = "lost"
  /\ \E f \in {"open", "live"} : page' = [page EXCEPT ![p].feed = f]
  /\ UNCHANGED <<truth, redis, request, load, view, missed, changes>>

\* EventSource opens, and its open event is a refetch.  The server sends the headers
\* that open it without waiting for its SUBSCRIBE.
Reconnect(p) ==
  /\ page[p].feed = "lost"
  /\ \E f \in {"open", "live"} :
       page' = [page EXCEPT ![p].feed = f, ![p].due = TRUE]
  /\ UNCHANGED <<truth, redis, request, load, view, missed, changes>>

\* An answer other than 200 (the rate limit's, a failure's) closes EventSource for
\* good; a change of date makes another.
Refused(p) ==
  /\ page[p].feed = "lost"
  /\ page' = [page EXCEPT ![p].feed = "closed"]
  /\ UNCHANGED <<truth, redis, request, load, view, missed, changes>>

Subscribe(p) ==
  /\ page[p].feed = "open"
  /\ page' = [page EXCEPT ![p].feed = "live"]
  /\ UNCHANGED <<truth, redis, request, load, view, missed, changes>>

-------------------------------------------------------------------------------
(* The specification *)

Init ==
  /\ holder = [s \in Seats |-> Nil] /\ booking = [s \in Seats |-> Nil]
  /\ closed = {}
  /\ cache = [d \in Dates |-> Nil] /\ tracked = {}
  /\ request = [c \in Clients |-> Nil]
  /\ load = [l \in Loads |-> Nil]
  /\ \E d \in Dates :
       page = [p \in Pages |-> [date |-> d, hold |-> Nil, feed |-> "lost",
                                due |-> TRUE]]
  /\ view = [p \in Pages |-> Nil]
  /\ missed = {}
  /\ changes = 0

Serve(c) == CommitBooking(c) \/ SMembers(c) \/ Del(c) \/ Publish(c) \/ Answer(c)

Read(l) ==
  \/ \E p \in Pages : StartLoad(l, p)
  \/ Get(l) \/ ReadBooked(l) \/ ReadHeld(l)
  \/ Store(l) \/ SAdd(l) \/ ExpireTracked(l) \/ Reply(l)

\* An attempt to open the stream, which succeeds or is refused, and its SUBSCRIBE.
Follow(p) == Reconnect(p) \/ Refused(p) \/ Subscribe(p)

Next ==
  \/ \E c \in Clients, s \in Seats : Hold(c, s) \/ Consume(c, s) \/ Cancel(c, s)
  \/ \E c \in Direct, s \in Seats : BookDirect(c, s)
  \/ \E s \in Seats : HoldExpires(s) \/ UpdateTable(s)
  \/ \E c \in Clients : Serve(c)
  \/ \E l \in Loads : Read(l)
  \/ \E d \in Dates : EntryExpires(d)
  \/ TrackedExpires
  \/ \E p \in Pages : Countdown(p) \/ Disconnect(p) \/ SubscriberLost(p) \/ Follow(p)
  \/ \E p \in Pages, d \in Dates : SelectDate(p, d)

Spec == Init /\ [][Next]_vars

\* Requests are served and answered, TTLs run out, and EventSource tries until it is
\* answered: with a stream, or with a refusal that ends it.
Fairness ==
  /\ \A c \in Clients : WF_vars(Serve(c))
  /\ \A l \in Loads : WF_vars(Read(l))
  /\ \A d \in Dates : WF_vars(EntryExpires(d))
  /\ \A p \in Pages : WF_vars(Follow(p))

-------------------------------------------------------------------------------
(* Properties *)

\* Staleness heals: when seats and tables stop changing, the cache ends up with the
\* truth or nothing, whatever entry a slow reader stored behind an invalidation, or
\* stored and lost track of, and whatever change told nobody.
CacheHeals ==
  <>[](\A d \in Dates : cache[d] # Nil => cache[d] = FreeSeats(d))

\* A page misses no published change for good: it refetches after it, although its
\* connection was lost when the event was sent; unless the stream has been refused and
\* is closed until the next choice of a date.  Excepted are the events sent while the
\* stream is open and the server has not subscribed, or has to again; and a refetch
\* that fails, which the page shows, is not made up for.
EveryEventIsRefetched ==
  \A p \in Pages :
    p \in missed ~> p \notin missed \/ page[p].feed = "closed"
================================================================================
