------------------------------ MODULE MCPayments ------------------------------
(***************************************************************************)
(* Instances of Payments for TLC: the seat, users and mandate of           *)
(* MCReservations, one order.                                              *)
(***************************************************************************)
EXTENDS Payments, MCReservations

MCOrderKey == [o \in Orders |-> k1]

\* An order for a hold of u1, under the mandate and without.
MCOrderCalls == {Confirm(u1, t1, s1, h, Nil, m) : h \in Requests, m \in {m1, Nil}}

\* The hold, the person's own confirm under the order's key, and somebody who
\* books the seat past the hold.
PaidCalls ==
  {Hold(u1, t1, s1), Book(u2, t1, s1, "unique")}
  \cup {Confirm(u1, t1, s1, h, k1, m) : h \in Requests, m \in {Nil}}

\* The hold only: every confirm is a delivery.
DeliveryCalls == {Hold(u1, t1, s1)}

\* One hold: a second finds the first in place, or is another rival.
OneHold ==
  \A r1, r2 \in Requests :
    (call[r1] # Nil /\ call[r1].op = "hold") /\ (call[r2] # Nil /\ call[r2].op = "hold")
    => r1 = r2
================================================================================
