--------------------------- MODULE LedgerRefinement ---------------------------
(***************************************************************************)
(* How the state of Reservations is read as a BookingLedger: a seat's      *)
(* owner is the user of its live reservation, a wallet is a balance.       *)
(***************************************************************************)
EXTENDS Reservations

Seats == Tables \X Slots

\* The user a live reservation of the seat is for.
Has(u, seat) ==
  \E o \in Requests : /\ Booked(o)
                      /\ SeatOf(reservations[o]) = seat
                      /\ reservations[o].user = u

Owner ==
  [seat \in Seats |->
     IF Taken(seat[1], seat[2]) THEN CHOOSE u \in Users : Has(u, seat) ELSE Nil]

SeatPrice == [seat \in Seats |-> SlotPrice[seat[2]]]

Ledger == INSTANCE BookingLedger
  WITH Price <- SeatPrice, Wallets <- InitialBalance, Nobody <- Nil,
       owner <- Owner, wallet <- balance

\* Whatever happens between two awaits, what can be seen of the bookings and the
\* wallets is a sequence of whole bookings and whole cancellations.
BooksLikeALedger == Ledger!Spec
================================================================================
