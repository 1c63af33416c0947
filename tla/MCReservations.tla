---------------------------- MODULE MCReservations ----------------------------
(***************************************************************************)
(* Instances of Reservations for TLC.  The constants' values are here, the *)
(* choice among them is each cfg's.                                        *)
(***************************************************************************)
EXTENDS ReservationsClaims, LedgerRefinement, TLC

LOCAL INSTANCE SequencesExt

CONSTANTS u1, u2, t1, t2, s1, s2, k1, m1

\* One cafe: s1 and s2 are five hours apart, inside the window of ten, as two
\* tables at one time are.
MCTableCafe == [t \in Tables |-> "cafe"]
MCSlotCafe == [s \in Slots |-> "cafe"]
MCSlotTime == [s \in Slots |-> IF s = s1 THEN 0 ELSE 5]
MCSlotPrice == [s \in Slots |-> 2]
MCCafeArea == [c \in Cafes |-> "Indiranagar"]

\* Money for two bookings of user u1, one of u2.
MCBalance == [u \in Users |-> IF u = u1 THEN 4 ELSE 2]

\* Two bookings, of which the total pays for one.
MCMandates ==
  [m \in Mandates |->
    [owner |-> u1, status |-> "active", expiresAt |-> 1,
     maxBookings |-> 2, maxPerBooking |-> 2, maxTotal |-> 3,
     localities |-> {"Indiranagar"}, windowStart |-> 0, windowEnd |-> 1,
     consumedMinor |-> 0, consumedBookings |-> 0]]

RequestSymmetry == Permutations(Requests)

Number == SetToSeq(Requests)

\* Requests are numbered by what they call, whenever they arrive: most of what symmetry
\* would remove, where a liveness property forbids symmetry.
NumberedByCall ==
  LET op(i) == CHOOSE n \in 1..4 :
                 call[Number[i]].op = <<"book", "hold", "confirm", "cancel">>[n]
  IN \A i, j \in DOMAIN Number :
       i < j /\ call[Number[i]] # Nil /\ call[Number[j]] # Nil => op(i) <= op(j)

Book(u, t, s, strategy) ==
  [op |-> "book", user |-> u, table |-> t, slot |-> s, strategy |-> strategy]
Hold(u, t, s) == [op |-> "hold", user |-> u, table |-> t, slot |-> s]
Confirm(u, t, s, h, k, m) ==
  [op |-> "confirm", user |-> u, table |-> t, slot |-> s, hold |-> h, key |-> k,
   mandate |-> m]
Cancel(u, o) == [op |-> "cancel", user |-> u, reservation |-> o]

\* Every handler: all three strategies at one seat, a hold confirmed there under a
\* key and a mandate, a second user with money for one of two tables, cancellations.
BookingCalls ==
  {Book(u1, t1, s1, strategy) : strategy \in Strategies}
  \cup {Book(u2, t, s1, "unique") : t \in Tables}
  \cup {Hold(u1, t1, s1)}
  \cup {Confirm(u1, t1, s1, h, k1, m1) : h \in Requests}
  \cup {Cancel(u1, o) : o \in Requests}

\* Two users contend for a seat by hold and confirm; confirms are retried and
\* doubled, with a key and without, against direct booking.
ConfirmCalls ==
  {Hold(u, t1, s1) : u \in {u1, u2}}
  \cup {Confirm(u1, t1, s1, h, k, Nil) : h \in Requests, k \in {k1, Nil}}
  \cup {Book(u2, t1, s1, "unique")}
  \cup {Cancel(u1, o) : o \in Requests}

\* One user books two slots inside one window.
WindowCalls == {Book(u1, t1, s, "unique") : s \in Slots}
================================================================================
