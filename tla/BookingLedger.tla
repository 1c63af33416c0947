----------------------------- MODULE BookingLedger -----------------------------
(***************************************************************************)
(* What the booking core promises, without saying how: who has which seat, *)
(* and what is in the wallets, change together, by whole bookings of free  *)
(* seats that somebody can pay for and whole cancellations by the owner.   *)
(* No requests, strategies, holds, keys, locks or failures.                *)
(***************************************************************************)
EXTENDS Integers

CONSTANTS Users, Seats, Price, Wallets, Nobody

VARIABLES
  owner,            \* who has a seat, or Nobody
  wallet            \* a user's money

vars == <<owner, wallet>>

Init ==
  /\ owner = [seat \in Seats |-> Nobody]
  /\ wallet = Wallets

Book(u, seat) ==
  /\ owner[seat] = Nobody
  /\ wallet[u] >= Price[seat]
  /\ owner' = [owner EXCEPT ![seat] = u]
  /\ wallet' = [wallet EXCEPT ![u] = @ - Price[seat]]

Cancel(u, seat) ==
  /\ owner[seat] = u
  /\ owner' = [owner EXCEPT ![seat] = Nobody]
  /\ wallet' = [wallet EXCEPT ![u] = @ + Price[seat]]

Next == \E u \in Users, seat \in Seats : Book(u, seat) \/ Cancel(u, seat)

Spec == Init /\ [][Next]_vars
================================================================================
