-------------------------- MODULE ReservationsClaims --------------------------
(***************************************************************************)
(* What comments and documents of the repository say of the booking core   *)
(* and the code does not keep: a run finds the behaviour that breaks it.   *)
(***************************************************************************)
EXTENDS Reservations

\* "A user may hold only one active reservation per cafe within any rolling
\* 10-hour window": the check reads, and nothing stops two requests that have both
\* read before either writes.
OneBookingPerWindow ==
  \A o1, o2 \in Requests :
    Booked(o1) /\ Booked(o2) /\ reservations[o1].user = reservations[o2].user /\ o1 # o2
    => ~ Close(reservations[o1].slot, reservations[o2].slot)
================================================================================
