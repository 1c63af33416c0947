------------------------------ MODULE MandateGate ------------------------------
(***************************************************************************)
(* The mandate gate, as values: what a mandate row holds, what a candidate *)
(* booking looks like to the gate, the condition of the UPDATE statement   *)
(* that decides a confirm (authorizeAndConsume) and the function that      *)
(* explains a denial (evaluateMandate).  No state: the modules that keep   *)
(* mandate rows take their operators from here.                            *)
(***************************************************************************)
EXTENDS Integers

CONSTANTS
  Users,           \* the people who grant mandates
  Localities       \* the areas cafes are in

MandateStatus == {"active", "revoked"}

\* A row of the mandates table, less its signature (it covers the constraints
\* only, and nothing but the grant reads it).
MandateRow ==
  [owner: Users, status: MandateStatus, expiresAt: Int,
   maxBookings: Nat, maxPerBooking: Nat, maxTotal: Nat,
   localities: SUBSET Localities, windowStart: Int, windowEnd: Int,
   consumedMinor: Nat, consumedBookings: Nat]

\* MandateCheckInput: the candidate booking's price, cafe area and slot time.
CheckInput == [amount: Nat, locality: Localities, slotTime: Int]

DenyReasons ==
  {"REVOKED", "EXPIRED", "BOOKINGS_EXHAUSTED", "PER_BOOKING_CEILING_EXCEEDED",
   "TOTAL_CEILING_EXCEEDED", "LOCALITY_MISMATCH", "WINDOW_MISMATCH"}

\* Mutant: no ceiling on the total.
AdmitsAnyTotal(m, c, now) ==
  /\ m.status = "active"
  /\ m.expiresAt > now
  /\ c.amount <= m.maxPerBooking
  /\ m.consumedBookings + 1 <= m.maxBookings
  /\ c.locality \in m.localities
  /\ m.windowStart <= c.slotTime /\ c.slotTime <= m.windowEnd

\* The WHERE clause of authorizeAndConsume's UPDATE.
Admits(m, c, now) ==
  /\ m.status = "active"
  /\ m.expiresAt > now
  /\ c.amount <= m.maxPerBooking
  /\ m.consumedMinor + c.amount <= m.maxTotal
  /\ m.consumedBookings + 1 <= m.maxBookings
  /\ c.locality \in m.localities
  /\ m.windowStart <= c.slotTime /\ c.slotTime <= m.windowEnd

\* Its SET clause.
Consume(m, c) ==
  [m EXCEPT !.consumedMinor = @ + c.amount, !.consumedBookings = @ + 1]

\* evaluateMandate: the first reason that applies, in its order of priority, or
\* "ALLOW".
EvaluateMandate(m, c, now) ==
  IF m.status = "revoked" THEN "REVOKED"
  ELSE IF m.expiresAt <= now THEN "EXPIRED"
  ELSE IF m.consumedBookings + 1 > m.maxBookings THEN "BOOKINGS_EXHAUSTED"
  ELSE IF c.amount > m.maxPerBooking THEN "PER_BOOKING_CEILING_EXCEEDED"
  ELSE IF m.consumedMinor + c.amount > m.maxTotal THEN "TOTAL_CEILING_EXCEEDED"
  ELSE IF c.locality \notin m.localities THEN "LOCALITY_MISMATCH"
  ELSE IF c.slotTime < m.windowStart \/ c.slotTime > m.windowEnd
       THEN "WINDOW_MISMATCH"
  ELSE "ALLOW"

\* The ceilings a mandate's consumption must stay under.
WithinCeilings(m) ==
  /\ m.consumedBookings <= m.maxBookings
  /\ m.consumedMinor <= m.maxTotal
================================================================================
