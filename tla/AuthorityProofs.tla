---------------------------- MODULE AuthorityProofs ----------------------------
(***************************************************************************)
(* The mandate gate, for any mandates, checks and constants: its two       *)
(* halves agree, its ceilings hold, what it spends is booked.  Then the    *)
(* life of a mandate: revocation is final, a denial stays one, and no more *)
(* is booked under a mandate than was signed for, although the save of a   *)
(* revocation may overwrite what was spent since it read the row.          *)
(***************************************************************************)
EXTENDS MandateAuthority, AnswerProofs, FiniteSetTheorems

-------------------------------------------------------------------------------
(* The statement that decides and the function that explains *)

\* What other transactions may have done to a mandate row since: consume and revoke.
Later(m, m2) ==
  /\ m2 = [m EXCEPT !.status = m2.status, !.consumedMinor = m2.consumedMinor,
                    !.consumedBookings = m2.consumedBookings]
  /\ m.status = "revoked" => m2.status = "revoked"
  /\ m.consumedMinor <= m2.consumedMinor
  /\ m.consumedBookings <= m2.consumedBookings

\* The UPDATE's condition and evaluateMandate are one predicate: preview allows
\* exactly what a confirm in its place would get.
THEOREM GateAgrees ==
  ASSUME NEW m \in MandateRow, NEW c \in CheckInput, NEW n \in Int
  PROVE  Admits(m, c, n) <=> EvaluateMandate(m, c, n) = "ALLOW"
BY DEF Admits, EvaluateMandate, MandateRow, MandateStatus, CheckInput

\* authorizeAndConsume reads the row again after an UPDATE that matched none, when
\* others may have consumed or revoked and the clock has moved: its explanation is
\* never ALLOW, which would book without spending.
THEOREM DenialStands ==
  ASSUME NEW m \in MandateRow, NEW m2 \in MandateRow, NEW c \in CheckInput,
         NEW n \in Int, NEW n2 \in Int,
         ~ Admits(m, c, n), Later(m, m2), n <= n2
  PROVE  EvaluateMandate(m2, c, n2) \in DenyReasons
<1>1. /\ m2.expiresAt = m.expiresAt /\ m2.maxBookings = m.maxBookings
      /\ m2.maxPerBooking = m.maxPerBooking /\ m2.maxTotal = m.maxTotal
      /\ m2.localities = m.localities
      /\ m2.windowStart = m.windowStart /\ m2.windowEnd = m.windowEnd
  BY DEF Later, MandateRow
<1>2. /\ m.status \in {"active", "revoked"} /\ m2.status \in {"active", "revoked"}
      /\ m.expiresAt \in Int /\ m.maxBookings \in Nat /\ m.maxPerBooking \in Nat
      /\ m.maxTotal \in Nat /\ m.windowStart \in Int /\ m.windowEnd \in Int
      /\ m.consumedMinor \in Nat /\ m.consumedBookings \in Nat
      /\ m2.consumedMinor \in Nat /\ m2.consumedBookings \in Nat
      /\ c.amount \in Nat /\ c.slotTime \in Int
  BY DEF MandateRow, MandateStatus, CheckInput
<1>3. ~ Admits(m2, c, n2)
  BY <1>1, <1>2 DEF Admits, Later
<1>4. EvaluateMandate(m2, c, n2) # "ALLOW"
  BY <1>3, GateAgrees
<1> QED
  BY <1>4 DEF EvaluateMandate, DenyReasons

-------------------------------------------------------------------------------
(* What a step does to mandates *)

\* A confirm's candidate booking is one the gate can judge.
LEMMA CheckInputType ==
  ASSUME NEW c \in Call, c.op = "confirm"
  PROVE  CheckOf(c) \in CheckInput
<1>1. c.table \in Tables /\ c.slot \in Slots
  BY CallTypes
<1> QED
  BY <1>1, ConstantsAssumption DEF CheckOf, CheckInput

\* Only a confirm's commit touches a mandate or queues a notification, and decisions
\* are only ever added.
LEMMA GateStep ==
  ASSUME [AnyNext]_vars
  PROVE  /\ \/ \E r \in Requests : ConfirmWrite(r)
            \/ UNCHANGED <<mandates, notificationJobs>>
         /\ decisions \subseteq decisions'
<1>1. ASSUME NEW r \in Requests, ConfirmStep(r), ~ ConfirmWrite(r)
      PROVE  UNCHANGED <<mandates, notificationJobs>>
  BY <1>1 DEF ConfirmStep, ClaimKey, LookupKey, ConfirmChecks, ConsumeHold, ConfirmRollback,
     StoreOutcome, DropKey, Check, shared, gate, ledger
<1>2. ASSUME NEW r \in Requests, BookStep(r) \/ HoldStep(r)
      PROVE  UNCHANGED <<mandates, notificationJobs>>
  BY <1>2 DEF BookStep, BookChecks, LockSlot, ReadVersion, ReadExisting, SwapWon, SwapLost,
     BookInTransaction, LockedTransaction, DirectWrite, HoldStep, HoldChecks, HoldWindow,
     AcquireHold, WriteMeta, ReuseTooLate, Check, shared, ledger, gate
<1>3. ASSUME NEW r \in Requests, CancelStep(r) \/ Publish(r) \/ Fault(r) \/ Crash(r)
      PROVE  UNCHANGED <<mandates, notificationJobs>>
  BY <1>3 DEF CancelStep, CancelChecks, CancelTransaction, Publish, Fault, Crash, Breaks,
     Check, shared, ledger, gate
<1>4. ASSUME NEW r \in Requests, AnswerLost(r) PROVE UNCHANGED <<mandates, notificationJobs>>
  BY <1>4, LostShape
<1>5. ASSUME NEW r \in Requests, NEW c \in Call, Arrive(r, c)
      PROVE  UNCHANGED <<mandates, notificationJobs>>
  BY <1>5 DEF Arrive, shared, ledger, gate
<1>6. CASE Environment \/ UNCHANGED vars
  BY <1>6 DEF Environment, ExpireHold, ExpireMeta, Tick, vars, shared, ledger, gate
<1> QED
  BY <1>1, <1>2, <1>3, <1>4, <1>5, <1>6, DecisionsStay DEF AnyNext, Handle, Rest

\* A confirm that commits under a mandate was admitted by it, and spends it.
LEMMA ConfirmSpends ==
  ASSUME TypeOK, RequestsFit, NEW r \in Requests, ConfirmWrite(r)
  PROVE  /\ call[r] \in Call /\ call[r].op = "confirm" /\ CheckOf(call[r]) \in CheckInput
         /\ call[r].mandate \in Mandates =>
              /\ Admits(mandates[call[r].mandate], CheckOf(call[r]), now)
              /\ mandates' = [mandates EXCEPT ![call[r].mandate] =
                                Consume(@, CheckOf(call[r]))]
              /\ decisions' = decisions \cup {<<r, "AUTHORIZE", "ALLOW">>,
                                              <<r, "CONFIRM", "ALLOW">>}
         /\ call[r].mandate \notin Mandates => mandates' = mandates
<1> DEFINE c == call[r]
<1>1. c \in Call /\ c.op = "confirm"
  BY DEF ConfirmWrite, At, RequestsFit, StepFitsCall, ConfirmSteps
<1>2. CheckOf(c) \in CheckInput /\ c.mandate \in Mandates \cup {Nil}
  BY <1>1, CheckInputType, CallTypes
<1>3. CASE c.mandate \in Mandates
  <2>1. c.mandate # Nil
    BY <1>3, ConstantsAssumption
  <2>2. mandates[c.mandate] \in MandateRow /\ now \in Int
    BY <1>3 DEF TypeOK
  <2>3. Admits(mandates[c.mandate], CheckOf(c), now)
    BY <1>2, <2>1, <2>2, GateAgrees DEF ConfirmWrite, Verdict
  <2> QED
    BY <1>1, <1>2, <1>3, <2>1, <2>3 DEF ConfirmWrite, MandatesAfter
<1>4. CASE c.mandate \notin Mandates
  BY <1>1, <1>2, <1>4 DEF ConfirmWrite, MandatesAfter
<1> QED
  BY <1>3, <1>4

-------------------------------------------------------------------------------
(* Ceilings *)

\* Consuming what a mandate admits stays within its ceilings.
LEMMA ConsumeWithin ==
  ASSUME NEW m \in MandateRow, NEW c \in CheckInput, NEW n \in Int, Admits(m, c, n)
  PROVE  /\ WithinCeilings(Consume(m, c))
         /\ Consume(m, c).consumedBookings = m.consumedBookings + 1
BY DEF Admits, Consume, WithinCeilings, MandateRow, CheckInput

\* The ceilings hold after a step if they held before.
LEMMA CeilingsStep ==
  ASSUME TypeOK, RequestsFit, MandateCeilingsHold, [AnyNext]_vars
  PROVE  MandateCeilingsHold'
<1>1. CASE UNCHANGED mandates
  BY <1>1 DEF MandateCeilingsHold, WithinCeilings
<1>2. ASSUME NEW r \in Requests, ConfirmWrite(r) PROVE MandateCeilingsHold'
  <2> DEFINE k == call[r].mandate
             c == CheckOf(call[r])
  <2>1. CASE k \in Mandates
    <3>1. /\ Admits(mandates[k], c, now) /\ c \in CheckInput
          /\ mandates' = [mandates EXCEPT ![k] = Consume(@, c)]
      BY <1>2, <2>1, ConfirmSpends
    <3>2. mandates[k] \in MandateRow /\ now \in Int
      BY <2>1 DEF TypeOK
    <3>3. WithinCeilings(Consume(mandates[k], c))
      BY <3>1, <3>2, ConsumeWithin
    <3>4. WithinCeilings(mandates'[k])
      BY <2>1, <3>1, <3>3 DEF TypeOK
    <3>5. \A m \in Mandates \ {k} : mandates'[m] = mandates[m]
      BY <3>1 DEF TypeOK
    <3> QED
      BY <3>4, <3>5 DEF MandateCeilingsHold, WithinCeilings
  <2>2. CASE k \notin Mandates
    BY <1>1, <1>2, <2>2, ConfirmSpends
  <2> QED
    BY <2>1, <2>2
<1> QED
  BY <1>1, <1>2, GateStep

\* No number of confirms, in any interleaving, with any failures, takes a mandate
\* over the bookings or the total it was granted for.
THEOREM CeilingsHold == Spec => []MandateCeilingsHold
<1>1. Init => MandateCeilingsHold
  BY DEF Init, MandateCeilingsHold
<1>2. IInv /\ MandateCeilingsHold /\ [AnyNext]_vars => MandateCeilingsHold'
  BY CeilingsStep DEF IInv
<1> QED
  BY <1>1, <1>2, Invariance, SpecIsAny, PTL

-------------------------------------------------------------------------------
(* Spending *)

\* Counters can be counted: under a mandate there are finitely many bookings.
SpentFit == MandateSpentOnBookings /\ \A m \in Mandates : IsFiniteSet(BookedUnder(m))

\* Whose booking was there keeps it, under the mandate it was made under.
LEMMA BookedUnderStays ==
  ASSUME TypeOK, RequestsFit, OutboxMatchesLedger, [AnyNext]_vars, NEW m \in Mandates
  PROVE  BookedUnder(m) \subseteq BookedUnder(m)'
<1> SUFFICES ASSUME NEW o \in Requests, reservations[o] # Nil
             PROVE  reservations'[o] # Nil /\ call'[o] = call[o]
  BY DEF BookedUnder
<1>1. pc[o] # "idle"
  BY DEF RequestsFit, StepFitsCall, BeforeWrite
<1> QED
  BY <1>1, RowsStay, CallStable

\* Nobody books under a mandate but a confirm that commits.
LEMMA BookedUnderGrows ==
  ASSUME TypeOK, RequestsFit, OutboxMatchesLedger, [AnyNext]_vars, NEW m \in Mandates,
         NEW o \in BookedUnder(m)', o \notin BookedUnder(m)
  PROVE  ConfirmWrite(o) /\ call[o].mandate = m
<1>1. /\ o \in Requests /\ reservations'[o] # Nil
      /\ call'[o].op = "confirm" /\ call'[o].mandate = m
  BY DEF BookedUnder
<1>2. reservations[o] = Nil
  <2>1. ASSUME reservations[o] # Nil PROVE FALSE
    <3>1. pc[o] # "idle"
      BY <1>1, <2>1 DEF RequestsFit, StepFitsCall, BeforeWrite
    <3>2. call'[o] = call[o]
      BY <1>1, <3>1, CallStable
    <3> QED
      BY <1>1, <2>1, <3>2 DEF BookedUnder
  <2> QED
    BY <2>1
<1>3. o \notin notificationJobs
  BY <1>1, <1>2 DEF OutboxMatchesLedger
<1>4. BooksFor(o)
  <2>1. CASE UNCHANGED ledger
    BY <1>1, <1>2, <2>1 DEF ledger
  <2>2. ASSUME NEW r \in Requests, BooksFor(r) PROVE r = o
    <3>1. \A p \in Requests \ {r} : reservations'[p] = reservations[p]
      BY <2>2, BooksForFacts
    <3> QED
      BY <1>1, <1>2, <3>1
  <2>3. ASSUME NEW r \in Requests, NEW q \in Requests, CancelsFor(r, q) PROVE FALSE
    <3>1. reservations[q] # Nil /\ \A p \in Requests \ {q} : reservations'[p] = reservations[p]
      BY <2>3, CancelsForFacts DEF Booked
    <3> QED
      BY <1>1, <1>2, <3>1
  <2> QED
    BY <2>1, <2>2, <2>3, LedgerSteps
<1>5. call'[o] = call[o]
  BY <1>4 DEF BooksFor
<1>6. o \in notificationJobs'
  BY <1>1, <1>4, <1>5, BooksForFacts DEF BooksFor
<1>7. PICK r \in Requests : ConfirmWrite(r)
  BY <1>3, <1>6, GateStep
<1>8. r = o
  BY <1>3, <1>6, <1>7 DEF ConfirmWrite
<1> QED
  BY <1>1, <1>5, <1>7, <1>8

\* Without a confirm that commits under it, a mandate's bookings stay as they are.
LEMMA BookedUnderSame ==
  ASSUME TypeOK, RequestsFit, OutboxMatchesLedger, [AnyNext]_vars, NEW m \in Mandates,
         \A r \in Requests : ConfirmWrite(r) => call[r].mandate # m
  PROVE  BookedUnder(m)' = BookedUnder(m)
<1>1. ASSUME NEW o \in BookedUnder(m)', o \notin BookedUnder(m) PROVE FALSE
  BY <1>1, BookedUnderGrows DEF BookedUnder
<1> QED
  BY <1>1, BookedUnderStays

\* A confirm that commits under it adds its own booking, and no other.
LEMMA BookedUnderOne ==
  ASSUME TypeOK, RequestsFit, OutboxMatchesLedger, [AnyNext]_vars, NEW m \in Mandates,
         NEW r \in Requests, ConfirmWrite(r), call[r].mandate = m
  PROVE  r \notin BookedUnder(m) /\ BookedUnder(m)' = BookedUnder(m) \cup {r}
<1>1. r \notin BookedUnder(m)
  <2>1. reservations[r] = Nil
    BY DEF ConfirmWrite, At, RequestsFit, StepFitsCall, BeforeWrite
  <2> QED
    BY <2>1 DEF BookedUnder
<1>2. r \in BookedUnder(m)'
  <2>1. call[r] \in Call /\ call[r].op = "confirm" /\ call' = call
    BY ConfirmSpends DEF ConfirmWrite, locals
  <2>2. reservations'[r] = [user |-> call[r].user, table |-> call[r].table,
                            slot |-> call[r].slot, status |-> "booked"]
    BY DEF ConfirmWrite, WriteBookingAndCharge, TypeOK
  <2>3. reservations'[r] \in ReservationRow
    BY <2>1, <2>2, CallTypes DEF ReservationRow
  <2> QED
    BY <2>1, <2>3, NilAssumption DEF BookedUnder
<1>3. ASSUME NEW o \in BookedUnder(m)', o \notin BookedUnder(m) PROVE o = r
  <2>1. o \in Requests /\ ConfirmWrite(o)
    BY <1>3, BookedUnderGrows DEF BookedUnder
  <2>2. pc[o] = "confirmTx" /\ pc' = [pc EXCEPT ![o] = "publish"]
        /\ pc[r] = "confirmTx" /\ pc' = [pc EXCEPT ![r] = "publish"]
    BY <2>1 DEF ConfirmWrite, At, Goto
  <2> QED
    BY <2>1, <2>2 DEF TypeOK
<1> QED
  BY <1>1, <1>2, <1>3, BookedUnderStays

\* Counters keep up with bookings.
LEMMA SpentStep ==
  ASSUME TypeOK, RequestsFit, OutboxMatchesLedger, SpentFit, [AnyNext]_vars
  PROVE  SpentFit'
<1> SUFFICES ASSUME NEW m \in Mandates
             PROVE  /\ IsFiniteSet(BookedUnder(m)')
                    /\ mandates'[m].consumedBookings =
                         InitialMandates[m].consumedBookings + Cardinality(BookedUnder(m)')
                    /\ \A o \in BookedUnder(m)' :
                         {<<o, "AUTHORIZE", "ALLOW">>, <<o, "CONFIRM", "ALLOW">>}
                           \subseteq decisions'
  BY DEF SpentFit, MandateSpentOnBookings
<1> DEFINE B == BookedUnder(m)
           B2 == BookedUnder(m)'
<1>1. /\ IsFiniteSet(B)
      /\ mandates[m].consumedBookings = InitialMandates[m].consumedBookings + Cardinality(B)
      /\ \A o \in B : {<<o, "AUTHORIZE", "ALLOW">>, <<o, "CONFIRM", "ALLOW">>} \subseteq decisions
  BY DEF SpentFit, MandateSpentOnBookings
<1>2. B \subseteq B2 /\ decisions \subseteq decisions'
  BY BookedUnderStays, GateStep
<1>3. CASE \A r \in Requests : ConfirmWrite(r) => call[r].mandate # m
  <2>1. B2 = B
    BY <1>3, BookedUnderSame
  <2>2. mandates'[m] = mandates[m]
    <3>1. ASSUME NEW r \in Requests, ConfirmWrite(r) PROVE mandates'[m] = mandates[m]
      BY <1>3, <3>1, ConfirmSpends DEF TypeOK
    <3> QED
      BY <3>1, GateStep
  <2> HIDE DEF B, B2
  <2> QED
    BY <1>1, <1>2, <2>1, <2>2 DEF B2
<1>4. ASSUME NEW r \in Requests, ConfirmWrite(r), call[r].mandate = m
      PROVE  /\ IsFiniteSet(B2)
             /\ mandates'[m].consumedBookings =
                  InitialMandates[m].consumedBookings + Cardinality(B2)
             /\ \A o \in B2 :
                  {<<o, "AUTHORIZE", "ALLOW">>, <<o, "CONFIRM", "ALLOW">>} \subseteq decisions'
  <2> DEFINE c == CheckOf(call[r])
  <2>1. /\ Admits(mandates[m], c, now) /\ c \in CheckInput
        /\ mandates' = [mandates EXCEPT ![m] = Consume(@, c)]
        /\ {<<r, "AUTHORIZE", "ALLOW">>, <<r, "CONFIRM", "ALLOW">>} \subseteq decisions'
    BY <1>4, ConfirmSpends
  <2>2. mandates[m] \in MandateRow /\ now \in Int
    BY DEF TypeOK
  <2>3. mandates'[m].consumedBookings = mandates[m].consumedBookings + 1
    <3>1. mandates'[m] = Consume(mandates[m], c)
      BY <2>1 DEF TypeOK
    <3> QED
      BY <2>1, <2>2, <3>1, ConsumeWithin
  <2>4. r \notin B /\ B2 = B \cup {r}
    BY <1>4, BookedUnderOne
  <2>6. /\ IsFiniteSet(B2) /\ Cardinality(B2) = Cardinality(B) + 1
        /\ Cardinality(B) \in Nat
    <3> HIDE DEF B, B2
    <3> QED
      BY <1>1, <2>4, FS_AddElement, FS_CardinalityType
  <2>7. InitialMandates[m].consumedBookings \in Nat
    BY ConstantsAssumption DEF MandateRow
  <2>8. mandates'[m].consumedBookings = InitialMandates[m].consumedBookings + Cardinality(B2)
    <3> HIDE DEF B, B2
    <3> QED
      BY <1>1, <2>3, <2>6, <2>7
  <2>9. ASSUME NEW o \in B2
        PROVE  {<<o, "AUTHORIZE", "ALLOW">>, <<o, "CONFIRM", "ALLOW">>} \subseteq decisions'
    <3> HIDE DEF B, B2
    <3> QED
      BY <1>1, <1>2, <2>1, <2>4, <2>9
  <2> QED
    BY <2>6, <2>8, <2>9
<1> QED
  BY <1>3, <1>4

\* A mandate's counter is the number of bookings made under it, each of them logged
\* as authorized and confirmed, whatever fails between the charge and the commit.
THEOREM MandateSpent == Spec => []MandateSpentOnBookings
<1>1. Init => SpentFit
  <2> SUFFICES ASSUME Init PROVE SpentFit
    OBVIOUS
  <2>1. \A m \in Mandates : BookedUnder(m) = {}
    BY DEF Init, BookedUnder
  <2>2. ASSUME NEW m \in Mandates
        PROVE  /\ IsFiniteSet(BookedUnder(m)) /\ Cardinality(BookedUnder(m)) = 0
               /\ mandates[m].consumedBookings =
                    InitialMandates[m].consumedBookings + Cardinality(BookedUnder(m))
    <3>1. IsFiniteSet(BookedUnder(m)) /\ Cardinality(BookedUnder(m)) = 0
      BY <2>1, FS_EmptySet
    <3>2. InitialMandates[m].consumedBookings \in Nat /\ mandates[m] = InitialMandates[m]
      BY ConstantsAssumption DEF Init, MandateRow
    <3> QED
      BY <3>1, <3>2
  <2> QED
    BY <2>1, <2>2 DEF SpentFit, MandateSpentOnBookings
<1>2. IInv /\ SpentFit /\ [AnyNext]_vars => SpentFit'
  BY SpentStep DEF IInv
<1>3. SpentFit => MandateSpentOnBookings
  BY DEF SpentFit
<1> QED
  BY <1>1, <1>2, <1>3, Invariance, SpecIsAny, PTL

-------------------------------------------------------------------------------
(* Sums over finite sets.  MapThenSumSet folds by a recursive function over   *)
(* the subsets of its set, so that induction over finite sets, taken as the   *)
(* least counterexample among those subsets, is enough.                       *)

\* The sum of f over S.
SumOver(f, S) == MapThenSumSet(LAMBDA o : f[o], S)

\* The element a sum takes first.
First(s) == CHOOSE x \in s : TRUE

\* The partial sums of f over the subsets of S.
IsSum(h, f, S) ==
  h = [s \in SUBSET S |-> IF s = {} THEN 0 ELSE f[First(s)] + h[s \ {First(s)}]]

\* A set that is not empty has a first element.
LEMMA FirstIn ==
  ASSUME NEW s, s # {}
  PROVE  First(s) \in s
BY DEF First

\* A set of subsets of a finite set has a least one: what induction over finite sets
\* comes to here.
LEMMA LeastSubset ==
  ASSUME NEW S, IsFiniteSet(S), NEW F, F \subseteq SUBSET S, F # {}
  PROVE  \E s \in F : \A t \in SUBSET s : t # s => t \notin F
<1>1. IsWellFoundedOn(StrictSubsetOrdering(S), SUBSET S)
  BY FS_StrictSubsetOrderingWellFounded, FS_FiniteSubsetsOfFinite
<1>2. PICK s \in F : \A t \in F : <<t, s>> \notin StrictSubsetOrdering(S)
  BY <1>1, WFMin
<1>3. ASSUME NEW t \in SUBSET s, t # s, t \in F PROVE FALSE
  <2>1. <<t, s>> \in StrictSubsetOrdering(S)
    BY <1>3 DEF StrictSubsetOrdering
  <2> QED
    BY <1>2, <1>3, <2>1
<1> QED
  BY <1>3

\* Partial sums are numbers, and do not depend on the set they are part of.
LEMMA SumsAgree ==
  ASSUME NEW S, IsFiniteSet(S), NEW f, \A x \in S : f[x] \in Nat,
         NEW T \in SUBSET S, NEW h, IsSum(h, f, S), NEW g, IsSum(g, f, T)
  PROVE  \A s \in SUBSET T : h[s] = g[s] /\ g[s] \in Nat
<1> DEFINE F == {s \in SUBSET T : ~ (h[s] = g[s] /\ g[s] \in Nat)}
<1>1. ASSUME F # {} PROVE FALSE
  <2>1. IsFiniteSet(T)
    BY FS_Subset
  <2>2. PICK s \in F : \A t \in SUBSET s : t # s => t \notin F
    <3>1. F \subseteq SUBSET T
      OBVIOUS
    <3> HIDE DEF F
    <3> QED
      BY <1>1, <2>1, <3>1, LeastSubset
  <2>3. CASE s = {}
    BY <2>2, <2>3 DEF IsSum
  <2>4. CASE s # {}
    <3> DEFINE t == s \ {First(s)}
    <3>1. First(s) \in s /\ f[First(s)] \in Nat
      BY <2>2, <2>4, FirstIn
    <3>2. t \in SUBSET s /\ t # s /\ t \in SUBSET T
      BY <2>2, <3>1
    <3>3. h[t] = g[t] /\ g[t] \in Nat
      BY <2>2, <3>2
    <3>4. h[s] = f[First(s)] + h[t] /\ g[s] = f[First(s)] + g[t]
      BY <2>2, <2>4, <3>1 DEF IsSum
    <3> QED
      BY <2>2, <3>1, <3>3, <3>4
  <2> QED
    BY <2>3, <2>4
<1> QED
  BY <1>1

\* There are partial sums.
LEMMA SumExists ==
  ASSUME NEW S, IsFiniteSet(S), NEW f, \A x \in S : f[x] \in Nat
  PROVE  \E h : IsSum(h, f, S)
<1> DEFINE F == {s \in SUBSET S : ~ \E h : IsSum(h, f, s)}
<1>1. ASSUME F # {} PROVE FALSE
  <2>1. PICK T \in F : \A t \in SUBSET T : t # T => t \notin F
    <3>1. F \subseteq SUBSET S
      OBVIOUS
    <3> HIDE DEF F
    <3> QED
      BY <1>1, <3>1, LeastSubset
  <2> DEFINE H(s) == CHOOSE h : IsSum(h, f, s)
             G(s) == IF s = {} THEN 0 ELSE f[First(s)] + H(s \ {First(s)})[s \ {First(s)}]
             g == [s \in SUBSET T |-> G(s)]
  <2>2. ASSUME NEW s \in SUBSET T, s # T PROVE IsSum(H(s), f, s)
    BY <2>1, <2>2
  <2>3. ASSUME NEW s \in SUBSET T, s # T PROVE H(s)[s] = g[s]
    <3>1. IsSum(H(s), f, s)
      BY <2>2, <2>3
    <3>2. CASE s = {}
      BY <3>1, <3>2 DEF IsSum
    <3>3. CASE s # {}
      <4> DEFINE t == s \ {First(s)}
      <4>1. First(s) \in s
        BY <3>3, FirstIn
      <4>2. t \in SUBSET s /\ t \in SUBSET T /\ t # T
        BY <2>3, <4>1
      <4>3. IsSum(H(t), f, t)
        BY <2>2, <4>2
      <4>4. IsFiniteSet(s) /\ \A x \in s : f[x] \in Nat
        BY <2>1, FS_Subset
      <4> HIDE DEF H
      <4>5. H(s)[t] = H(t)[t]
        BY <3>1, <4>2, <4>3, <4>4, SumsAgree
      <4>6. H(s)[s] = f[First(s)] + H(s)[t]
        BY <3>1, <3>3, <4>1 DEF IsSum
      <4>7. g[s] = f[First(s)] + H(t)[t]
        BY <3>3
      <4> QED
        BY <4>5, <4>6, <4>7
    <3> QED
      BY <3>2, <3>3
  <2>4. ASSUME NEW s \in SUBSET T, s # {}
        PROVE  G(s) = f[First(s)] + g[s \ {First(s)}]
    <3>1. First(s) \in s
      BY <2>4, FirstIn
    <3>2. s \ {First(s)} \in SUBSET T /\ s \ {First(s)} # T
      BY <3>1
    <3> HIDE DEF H, g
    <3>3. H(s \ {First(s)})[s \ {First(s)}] = g[s \ {First(s)}]
      BY <2>3, <3>2
    <3> QED
      BY <2>4, <3>3
  <2>5. g = [s \in SUBSET T |-> IF s = {} THEN 0 ELSE f[First(s)] + g[s \ {First(s)}]]
    <3>1. \A s \in SUBSET T :
            G(s) = IF s = {} THEN 0 ELSE f[First(s)] + g[s \ {First(s)}]
      <4>1. ASSUME NEW s \in SUBSET T, s = {} PROVE G(s) = 0
        BY <4>1
      <4> HIDE DEF G, g
      <4> QED
        BY <2>4, <4>1
    <3> HIDE DEF G
    <3> QED
      BY <3>1
  <2> HIDE DEF g
  <2>6. IsSum(g, f, T)
    BY <2>5 DEF IsSum
  <2> QED
    BY <2>1, <2>6
<1> QED
  BY <1>1

\* What MapThenSumSet comes to.
SumF(f, S) == (CHOOSE h : IsSum(h, f, S))[S]

\* It is the sum.
LEMMA SumUnfolds ==
  ASSUME NEW f, NEW S
  PROVE  SumOver(f, S) = SumF(f, S)
BY DEF SumF, SumOver, MapThenSumSet, MapThenFoldSet, IsSum, First

\* The sum over a finite set is the last of any partial sums.
LEMMA SumIs ==
  ASSUME NEW S, IsFiniteSet(S), NEW f, \A x \in S : f[x] \in Nat
  PROVE  /\ SumOver(f, S) \in Nat
         /\ \E h : /\ IsSum(h, f, S)
                   /\ \A T \in SUBSET S : SumOver(f, T) = h[T]
<1>1. PICK h : IsSum(h, f, S)
  BY SumExists
<1>2. ASSUME NEW T \in SUBSET S
      PROVE  SumOver(f, T) = h[T] /\ SumOver(f, T) \in Nat
  <2> DEFINE g == CHOOSE g : IsSum(g, f, T)
  <2>1. IsFiniteSet(T)
    BY FS_Subset
  <2>2. IsSum(g, f, T)
    <3>1. \E i : IsSum(i, f, T)
      BY <2>1, SumExists
    <3> QED
      BY <3>1
  <2>3. SumOver(f, T) = g[T]
    BY SumUnfolds DEF SumF
  <2> HIDE DEF g
  <2>4. \A s \in SUBSET T : h[s] = g[s] /\ g[s] \in Nat
    BY <1>1, <2>2, SumsAgree
  <2> QED
    BY <2>3, <2>4
<1> QED
  BY <1>1, <1>2

\* Nothing sums to zero.
LEMMA SumEmpty ==
  ASSUME NEW f
  PROVE  SumOver(f, {}) = 0
<1>1. PICK h : IsSum(h, f, {}) /\ \A T \in SUBSET {} : SumOver(f, T) = h[T]
  BY SumIs, FS_EmptySet
<1> QED
  BY <1>1 DEF IsSum

\* Any element may be the one that is taken.
LEMMA SumTakes ==
  ASSUME NEW S, IsFiniteSet(S), NEW f, \A x \in S : f[x] \in Nat, NEW a \in S
  PROVE  SumOver(f, S) = f[a] + SumOver(f, S \ {a})
<1>1. PICK h : IsSum(h, f, S) /\ \A T \in SUBSET S : SumOver(f, T) = h[T]
  BY SumIs
<1>2. ASSUME NEW T \in SUBSET S PROVE h[T] \in Nat
  <2>1. SumOver(f, T) \in Nat
    BY FS_Subset, SumIs
  <2> QED
    BY <1>1, <2>1
<1> DEFINE F == {T \in SUBSET S : \E b \in T : h[T] # f[b] + h[T \ {b}]}
<1>3. ASSUME F # {} PROVE FALSE
  <2>1. PICK T \in F : \A t \in SUBSET T : t # T => t \notin F
    <3>1. F \subseteq SUBSET S
      OBVIOUS
    <3> HIDE DEF F
    <3> QED
      BY <1>3, <3>1, LeastSubset
  <2>2. PICK b \in T : h[T] # f[b] + h[T \ {b}]
    BY <2>1
  <2> DEFINE c == First(T)
             B == T \ {b}
             C == T \ {c}
             D == T \ {b, c}
  <2>3. T \in SUBSET S /\ c \in T /\ h[T] = f[c] + h[C]
    BY <1>1, <2>2, FirstIn DEF IsSum
  <2>4. b # c
    BY <2>2, <2>3
  <2>5. B \notin F /\ C \notin F
    BY <2>1, <2>2, <2>3
  <2>6. /\ B \in SUBSET S /\ c \in B /\ B \ {c} = D
        /\ C \in SUBSET S /\ b \in C /\ C \ {b} = D /\ D \in SUBSET S
    BY <2>2, <2>3, <2>4
  <2>7. h[B] = f[c] + h[D] /\ h[C] = f[b] + h[D]
    BY <2>5, <2>6
  <2>8. h[T] \in Nat /\ h[B] \in Nat /\ h[C] \in Nat /\ h[D] \in Nat
        /\ f[b] \in Nat /\ f[c] \in Nat
    BY <1>2, <2>2, <2>3, <2>6
  <2> HIDE DEF B, C, D, c
  <2>9. h[T] # f[b] + h[B]
    BY <2>2 DEF B
  <2> QED
    BY <2>3, <2>7, <2>8, <2>9
<1> HIDE DEF F
<1>4. S \notin F
  BY <1>3
<1> QED
  BY <1>1, <1>4 DEF F

\* The sum looks at nothing but the values on its set.
LEMMA SumOfSame ==
  ASSUME NEW S, IsFiniteSet(S), NEW f, NEW g, \A x \in S : f[x] \in Nat /\ g[x] = f[x]
  PROVE  SumOver(f, S) = SumOver(g, S)
<1>1. PICK h : IsSum(h, f, S) /\ \A T \in SUBSET S : SumOver(f, T) = h[T]
  BY SumIs
<1>2. PICK i : IsSum(i, g, S) /\ \A T \in SUBSET S : SumOver(g, T) = i[T]
  BY SumIs
<1>3. IsSum(h, g, S)
  <2>1. h = [s \in SUBSET S |-> IF s = {} THEN 0 ELSE f[First(s)] + h[s \ {First(s)}]]
    BY <1>1 DEF IsSum
  <2>2. \A s \in SUBSET S : s # {} => f[First(s)] = g[First(s)]
    BY FirstIn
  <2>3. h = [s \in SUBSET S |-> IF s = {} THEN 0 ELSE g[First(s)] + h[s \ {First(s)}]]
    <3> DEFINE G(s) == IF s = {} THEN 0 ELSE g[First(s)] + h[s \ {First(s)}]
               I(s) == IF s = {} THEN 0 ELSE f[First(s)] + h[s \ {First(s)}]
    <3>1. \A s \in SUBSET S : I(s) = G(s)
      BY <2>2
    <3>2. h = [s \in SUBSET S |-> I(s)]
      BY <2>1
    <3>3. h = [s \in SUBSET S |-> G(s)]
      <4> HIDE DEF I, G
      <4> QED
        BY <3>1, <3>2
    <3> QED
      BY <3>3
  <2> QED
    BY <2>3 DEF IsSum
<1>4. h[S] = i[S]
  BY <1>2, <1>3, SumsAgree
<1> QED
  BY <1>1, <1>2, <1>4

\* A new element adds its value.
LEMMA SumAdds ==
  ASSUME NEW S, IsFiniteSet(S), NEW f, NEW a, a \notin S,
         \A x \in S \cup {a} : f[x] \in Nat
  PROVE  SumOver(f, S \cup {a}) = SumOver(f, S) + f[a]
<1> DEFINE T == S \cup {a}
<1>1. IsFiniteSet(T) /\ a \in T /\ T \ {a} = S
  BY FS_AddElement
<1>2. SumOver(f, S) \in Nat /\ f[a] \in Nat
  BY SumIs
<1>3. SumOver(f, T) = f[a] + SumOver(f, S)
  <2> HIDE DEF T
  <2>1. \A x \in T : f[x] \in Nat
    BY DEF T
  <2> QED
    BY <1>1, <2>1, SumTakes
<1> QED
  BY <1>2, <1>3

-------------------------------------------------------------------------------
(* The inductive invariant *)

\* The constraints its signature covers: nothing changes them once it is granted.
SameTerms(m, m2) ==
  /\ m2.owner = m.owner /\ m2.expiresAt = m.expiresAt /\ m2.localities = m.localities
  /\ m2.windowStart = m.windowStart /\ m2.windowEnd = m.windowEnd
  /\ m2.maxBookings = m.maxBookings /\ m2.maxPerBooking = m.maxPerBooking
  /\ m2.maxTotal = m.maxTotal

\* What a row may be by the time somebody has a copy of it: no longer active, or with
\* at least what the copy has spent.
Succeeds(m, m2) ==
  /\ SameTerms(m, m2)
  /\ m2.status = "active" => /\ m.status = "active"
                             /\ m.consumedMinor <= m2.consumedMinor
                             /\ m.consumedBookings <= m2.consumedBookings

\* A call of the API works on a mandate that exists.
OffersFit ==
  \A r \in Requests :
    pc[r] # "idle" /\ call[r].op = "confirm" /\ call[r].mandate \in Mandates
      => call[r].mandate \in granted

\* A mandate allows what its body asked for, and has not spent more.
GrantsFit ==
  \A m \in Mandates :
    /\ mandates[m].maxBookings = InitialMandates[m].maxBookings
    /\ mandates[m].maxTotal = InitialMandates[m].maxTotal
    /\ m \in granted => WithinCeilings(mandates[m])
    /\ m \notin granted => mandates[m] = InitialMandates[m]

\* What a console holds where it is, when these mandates are granted and these their
\* rows.
ConsoleFits(c, made, rows) ==
  /\ c.step # "idle" => c.mandate \in made
  /\ c.step \in {"load", "write", "log"} =>
       /\ c.copy \in MandateRow
       /\ SameTerms(c.copy, rows[c.mandate])
       /\ WithinCeilings(c.copy)
  /\ c.step \in {"load", "write"} => c.copy.status = "revoked"
  /\ c.step = "write" => "status" \in c.columns \/ rows[c.mandate].status = "revoked"
  /\ c.step = "revoked" => rows[c.mandate].status = "revoked"
  /\ c.step = "log" => /\ c.check \in CheckInput
                       /\ Succeeds(c.copy, rows[c.mandate])
  /\ c.step = "screen" => c.queue # <<>>

ConsolesFit == \A k \in Consoles : ConsoleFits(console[k], granted, mandates)

\* Proposals are of mandates that exist.
ProposalsFit == \A p \in proposals : p.mandate \in granted

\* What was booked under a mandate: finitely many bookings, and their prices.
Spent(m) == SumOver(payments, BookedUnder(m))

BookingsFit == \A m \in Mandates : IsFiniteSet(BookedUnder(m))

Accounted ==
  \A m \in granted :
    mandates[m].status = "active" =>
      /\ mandates[m].consumedBookings = Cardinality(BookedUnder(m))
      /\ mandates[m].consumedMinor = Spent(m)

Bounded ==
  \A m \in Mandates :
    /\ Cardinality(BookedUnder(m)) <= InitialMandates[m].maxBookings
    /\ Spent(m) <= InitialMandates[m].maxTotal

AInv ==
  /\ IInv /\ AuthorityTypeOK
  /\ OffersFit /\ GrantsFit /\ ConsolesFit /\ ProposalsFit
  /\ BookingsFit /\ Accounted /\ Bounded /\ DeniedStaysDenied

-------------------------------------------------------------------------------
(* What a step does to mandate rows *)

\* A booking step is one of the core's, and a console touches mandates at most.
LEMMA Sides ==
  ASSUME [AuthorityNext]_allVars
  PROVE  \/ BookingSide /\ [AnyNext]_vars /\ UNCHANGED authority
         \/ UNCHANGED allVars
         \/ /\ ConsoleSide
            /\ UNCHANGED <<ledger, keys, slotRows, decisions, redis, pc, reply, locals,
                           world>>
<1>1. ASSUME NEW m \in Mandates, Grant(m)
      PROVE  UNCHANGED <<ledger, keys, slotRows, decisions, redis, pc, reply, locals, world>>
  BY <1>1 DEF Grant
<1>2. ASSUME NEW k \in Consoles, RevokeWrite(k)
      PROVE  UNCHANGED <<ledger, keys, slotRows, decisions, redis, pc, reply, locals, world>>
  BY <1>2 DEF RevokeWrite
<1>3. ASSUME NEW k \in Consoles, RevokeLoad(k) \/ ScreenNext(k) \/ PreviewLog(k)
      PROVE  UNCHANGED vars
  BY <1>3 DEF RevokeLoad, ScreenNext, PreviewLog
<1>4. ASSUME NEW k \in Consoles, NEW m \in Mandates,
             \/ RevokeRead(k, m)
             \/ \E p \in Previews : PreviewRead(k, m, p)
             \/ \E queue \in Candidates : AlternativesRead(k, m, queue)
      PROVE  UNCHANGED vars
  BY <1>4 DEF RevokeRead, PreviewRead, AlternativesRead
<1>5. UNCHANGED vars =>
        UNCHANGED <<ledger, keys, slotRows, decisions, redis, pc, reply, locals, world>>
  BY DEF vars, shared, gate
<1>6. CASE ConsoleSide
  BY <1>1, <1>2, <1>3, <1>4, <1>5, <1>6 DEF ConsoleSide
<1>7. CASE BookingSide
  BY <1>7, ConstantsAssumption DEF BookingSide, AnyNext
<1> QED
  BY <1>6, <1>7 DEF AuthorityNext

\* The row a grant makes.
LEMMA GrantMakes ==
  ASSUME TypeOK, NEW m \in Mandates, Grant(m)
  PROVE  /\ m \notin granted /\ granted' = granted \cup {m} /\ console' = console
         /\ \A n \in Mandates \ {m} : mandates'[n] = mandates[n]
         /\ mandates' \in [Mandates -> MandateRow]
         /\ mandates'[m].status = "active"
         /\ mandates'[m].consumedBookings = 0 /\ mandates'[m].consumedMinor = 0
         /\ mandates'[m].maxBookings = InitialMandates[m].maxBookings
         /\ mandates'[m].maxTotal = InitialMandates[m].maxTotal
<1> DEFINE i == InitialMandates[m]
           g == GrantedRow(i)
<1>1. i \in MandateRow
  BY ConstantsAssumption
<1>2. g \in MandateRow
  BY <1>1 DEF GrantedRow, MandateRow, MandateStatus
<1>3. /\ g.status = "active" /\ g.consumedBookings = 0 /\ g.consumedMinor = 0
      /\ g.maxBookings = i.maxBookings /\ g.maxTotal = i.maxTotal
  BY <1>1 DEF GrantedRow, MandateRow
<1>4. mandates' = [mandates EXCEPT ![m] = g] /\ mandates \in [Mandates -> MandateRow]
  BY DEF Grant, TypeOK
<1> HIDE DEF g, i
<1>5. mandates'[m] = g /\ mandates' \in [Mandates -> MandateRow]
      /\ \A n \in Mandates \ {m} : mandates'[n] = mandates[n]
  BY <1>2, <1>4
<1> QED
  BY <1>3, <1>5 DEF Grant, i

\* The row a revocation's save leaves: the same terms, revoked, each counter the
\* row's own or the copy's.
LEMMA SaveLeaves ==
  ASSUME TypeOK, console \in [Consoles -> ConsoleRow], granted \subseteq Mandates,
         NEW k \in Consoles, ConsoleFits(console[k], granted, mandates), RevokeWrite(k)
  PROVE  LET m == console[k].mandate IN
         /\ m \in granted /\ console[k].step = "write"
         /\ \A n \in Mandates \ {m} : mandates'[n] = mandates[n]
         /\ mandates' \in [Mandates -> MandateRow]
         /\ SameTerms(mandates[m], mandates'[m]) /\ mandates'[m].status = "revoked"
         /\ WithinCeilings(mandates[m]) => WithinCeilings(mandates'[m])
         /\ Finish(k, "revoked") /\ granted' = granted
<1> DEFINE m == console[k].mandate
           copy == console[k].copy
           cols == console[k].columns
           row == mandates[m]
           new == [f \in DOMAIN row |-> IF f \in cols THEN copy[f] ELSE row[f]]
<1>1. console[k].step = "write" /\ Finish(k, "revoked") /\ granted' = granted
  BY DEF RevokeWrite
<1>2. /\ m \in granted /\ m \in Mandates /\ row \in MandateRow
      /\ copy \in MandateRow /\ SameTerms(copy, row) /\ WithinCeilings(copy)
      /\ copy.status = "revoked"
      /\ "status" \in cols \/ row.status = "revoked"
  BY <1>1 DEF ConsoleFits, TypeOK
<1>3. cols \subseteq Columns
  BY DEF ConsoleRow
<1>4. mandates' = [mandates EXCEPT ![m] = new] /\ mandates \in [Mandates -> MandateRow]
  BY DEF RevokeWrite, TypeOK
<1>5. DOMAIN row = {"owner", "status", "expiresAt", "maxBookings", "maxPerBooking",
                    "maxTotal", "localities", "windowStart", "windowEnd",
                    "consumedMinor", "consumedBookings"}
  BY <1>2 DEF MandateRow
<1>6. /\ new.owner = row.owner /\ new.expiresAt = row.expiresAt
      /\ new.maxBookings = row.maxBookings /\ new.maxPerBooking = row.maxPerBooking
      /\ new.maxTotal = row.maxTotal /\ new.localities = row.localities
      /\ new.windowStart = row.windowStart /\ new.windowEnd = row.windowEnd
      /\ new.status = "revoked"
      /\ new.consumedMinor \in {row.consumedMinor, copy.consumedMinor}
      /\ new.consumedBookings \in {row.consumedBookings, copy.consumedBookings}
  <2> HIDE DEF row, copy, cols
  <2> QED
    BY <1>2, <1>3, <1>5 DEF Columns
<1>7. new \in MandateRow
  <2>1. new = [owner |-> row.owner, status |-> "revoked", expiresAt |-> row.expiresAt,
               maxBookings |-> row.maxBookings, maxPerBooking |-> row.maxPerBooking,
               maxTotal |-> row.maxTotal, localities |-> row.localities,
               windowStart |-> row.windowStart, windowEnd |-> row.windowEnd,
               consumedMinor |-> new.consumedMinor,
               consumedBookings |-> new.consumedBookings]
    <3> HIDE DEF row, copy, cols
    <3> QED
      BY <1>5, <1>6
  <2>2. new.consumedMinor \in Nat /\ new.consumedBookings \in Nat
    <3> HIDE DEF row, copy, new
    <3> QED
      BY <1>2, <1>6 DEF MandateRow
  <2> HIDE DEF row, copy, new
  <2> QED
    BY <1>2, <2>1, <2>2 DEF MandateRow, MandateStatus
<1>8. SameTerms(row, new) /\ new.status = "revoked"
  <2> HIDE DEF row, new
  <2> QED
    BY <1>6 DEF SameTerms
<1>9. WithinCeilings(row) => WithinCeilings(new)
  <2> HIDE DEF row, new, copy
  <2> QED
    BY <1>2, <1>6 DEF SameTerms, WithinCeilings
<1> HIDE DEF new
<1>10. mandates'[m] = new /\ mandates' \in [Mandates -> MandateRow]
       /\ \A n \in Mandates \ {m} : mandates'[n] = mandates[n]
  BY <1>2, <1>4, <1>7
<1> QED
  BY <1>1, <1>2, <1>8, <1>9, <1>10

\* Of the consoles' steps, a grant and the save of a revocation touch rows.
LEMMA RowWriters ==
  ASSUME [AuthorityNext]_allVars
  PROVE  \/ [AnyNext]_vars /\ UNCHANGED authority
         \/ \E m \in Mandates : Grant(m)
         \/ \E k \in Consoles : RevokeWrite(k)
         \/ UNCHANGED <<vars, granted>>
<1>1. ASSUME NEW k \in Consoles, RevokeLoad(k) \/ ScreenNext(k) \/ PreviewLog(k)
      PROVE  UNCHANGED <<vars, granted>>
  BY <1>1 DEF RevokeLoad, ScreenNext, PreviewLog
<1>2. ASSUME NEW k \in Consoles, NEW m \in Mandates,
             \/ RevokeRead(k, m)
             \/ \E p \in Previews : PreviewRead(k, m, p)
             \/ \E queue \in Candidates : AlternativesRead(k, m, queue)
      PROVE  UNCHANGED <<vars, granted>>
  BY <1>2 DEF RevokeRead, PreviewRead, AlternativesRead
<1> QED
  BY <1>1, <1>2, Sides DEF ConsoleSide, allVars, authority

\* The booking core's invariant is kept by the consoles too.
LEMMA CoreStep ==
  ASSUME AInv, [AuthorityNext]_allVars
  PROVE  IInv'
<1>1. IInv /\ TypeOK
  BY DEF AInv, IInv
<1>2. CASE [AnyNext]_vars
  BY <1>1, <1>2, Inductive
<1>3. CASE UNCHANGED <<ledger, keys, slotRows, decisions, redis, pc, reply, locals, world>>
           /\ mandates' \in [Mandates -> MandateRow]
  <2>1. TypeOK'
    BY <1>1, <1>3 DEF TypeOK, ledger, slotRows, redis, locals, world
  <2>2. RequestsFit'
    BY <1>1, <1>3 DEF IInv, RequestsFit, StepFitsCall, ledger, locals
  <2>3. OutboxMatchesLedger' /\ NoDoubleBooking'
    BY <1>1, <1>3 DEF IInv, OutboxMatchesLedger, NoDoubleBooking, Booked, ledger, locals
  <2> QED
    BY <2>1, <2>2, <2>3 DEF IInv
<1>4. ASSUME NEW m \in Mandates, Grant(m) PROVE mandates' \in [Mandates -> MandateRow]
  BY <1>1, <1>4, GrantMakes
<1>5. ASSUME NEW k \in Consoles, RevokeWrite(k) PROVE mandates' \in [Mandates -> MandateRow]
  BY <1>1, <1>5, SaveLeaves DEF AInv, AuthorityTypeOK, ConsolesFit
<1>6. UNCHANGED vars => [AnyNext]_vars
  OBVIOUS
<1> QED
  BY <1>2, <1>3, <1>4, <1>5, <1>6, RowWriters DEF Grant, RevokeWrite

\* A confirm that commits under a mandate spends it, and it is one that exists.
LEMMA SpenderFacts ==
  ASSUME AInv, NEW r \in Requests, ConfirmWrite(r), call[r].mandate \in Mandates
  PROVE  LET m == call[r].mandate
             c == CheckOf(call[r]) IN
         /\ m \in granted /\ mandates[m].status = "active"
         /\ c \in CheckInput /\ Admits(mandates[m], c, now)
         /\ mandates[m] \in MandateRow /\ now \in Int
         /\ mandates'[m] = Consume(mandates[m], c)
         /\ \A n \in Mandates \ {m} : mandates'[n] = mandates[n]
<1> DEFINE m == call[r].mandate
           c == CheckOf(call[r])
<1>1. TypeOK /\ RequestsFit
  BY DEF AInv, IInv
<1>2. /\ call[r] \in Call /\ call[r].op = "confirm" /\ c \in CheckInput
      /\ Admits(mandates[m], c, now)
      /\ mandates' = [mandates EXCEPT ![m] = Consume(@, c)]
  BY <1>1, ConfirmSpends
<1>3. pc[r] # "idle"
  BY DEF ConfirmWrite, At
<1>4. m \in granted
  BY <1>2, <1>3 DEF AInv, OffersFit
<1>5. mandates[m] \in MandateRow /\ now \in Int /\ mandates \in [Mandates -> MandateRow]
  BY <1>1 DEF TypeOK
<1>6. mandates[m].status = "active"
  BY <1>2 DEF Admits
<1>7. mandates'[m] = Consume(mandates[m], c)
      /\ \A n \in Mandates \ {m} : mandates'[n] = mandates[n]
  <2> HIDE DEF c
  <2> QED
    BY <1>2, <1>5
<1> QED
  BY <1>2, <1>4, <1>5, <1>6, <1>7

\* A step of the core that commits no confirm under a mandate leaves its row alone.
LEMMA RowStays ==
  ASSUME AInv, [AnyNext]_vars, NEW m \in Mandates,
         \A r \in Requests : ConfirmWrite(r) => call[r].mandate # m
  PROVE  mandates'[m] = mandates[m]
<1>1. ASSUME NEW r \in Requests, ConfirmWrite(r), call[r].mandate # m
      PROVE  mandates'[m] = mandates[m]
  <2>1. CASE call[r].mandate \in Mandates
    BY <1>1, <2>1, SpenderFacts
  <2>2. CASE call[r].mandate \notin Mandates
    BY <1>1, <2>2, ConfirmSpends DEF AInv, IInv
  <2> QED
    BY <2>1, <2>2
<1> QED
  BY <1>1, GateStep DEF AInv, IInv

\* Whoever has a copy of a mandate finds, after any step, a row that succeeds it.
LEMMA RowKeeps ==
  ASSUME AInv, [AuthorityNext]_allVars, NEW m \in granted
  PROVE  /\ m \in granted' /\ m \in Mandates
         /\ Succeeds(mandates[m], mandates'[m])
         /\ WithinCeilings(mandates'[m])
<1>1. /\ TypeOK /\ m \in Mandates /\ mandates[m] \in MandateRow
      /\ WithinCeilings(mandates[m])
  BY DEF AInv, IInv, AuthorityTypeOK, GrantsFit, TypeOK
<1>2. ASSUME mandates'[m] = mandates[m]
      PROVE  Succeeds(mandates[m], mandates'[m]) /\ WithinCeilings(mandates'[m])
  BY <1>1, <1>2 DEF Succeeds, SameTerms, MandateRow
<1>3. ASSUME NEW r \in Requests, ConfirmWrite(r), call[r].mandate = m
      PROVE  Succeeds(mandates[m], mandates'[m]) /\ WithinCeilings(mandates'[m])
  <2> DEFINE c == CheckOf(call[r])
  <2>1. /\ c \in CheckInput /\ Admits(mandates[m], c, now) /\ now \in Int
        /\ mandates'[m] = Consume(mandates[m], c)
    BY <1>1, <1>3, SpenderFacts
  <2> HIDE DEF c
  <2>2. WithinCeilings(mandates'[m])
    BY <1>1, <2>1, ConsumeWithin
  <2>3. Succeeds(mandates[m], Consume(mandates[m], c))
    BY <1>1, <2>1 DEF Succeeds, SameTerms, Consume, MandateRow, CheckInput, Admits
  <2> QED
    BY <2>1, <2>2, <2>3
<1>4. CASE [AnyNext]_vars /\ UNCHANGED authority
  BY <1>1, <1>2, <1>3, <1>4, RowStays DEF authority
<1>5. ASSUME NEW n \in Mandates, Grant(n)
      PROVE  mandates'[m] = mandates[m] /\ m \in granted'
  BY <1>1, <1>5, GrantMakes
<1>6. ASSUME NEW k \in Consoles, RevokeWrite(k)
      PROVE  /\ Succeeds(mandates[m], mandates'[m]) /\ WithinCeilings(mandates'[m])
             /\ m \in granted'
  <2> DEFINE n == console[k].mandate
  <2>1. /\ n \in granted /\ granted' = granted
        /\ \A o \in Mandates \ {n} : mandates'[o] = mandates[o]
        /\ SameTerms(mandates[n], mandates'[n]) /\ mandates'[n].status = "revoked"
        /\ WithinCeilings(mandates[n]) => WithinCeilings(mandates'[n])
    BY <1>1, <1>6, SaveLeaves DEF AInv, AuthorityTypeOK, ConsolesFit
  <2>2. CASE m = n
    BY <1>1, <2>1, <2>2 DEF Succeeds
  <2>3. CASE m # n
    BY <1>1, <1>2, <2>1, <2>3
  <2> QED
    BY <2>1, <2>2, <2>3
<1>7. CASE UNCHANGED <<vars, granted>>
  BY <1>1, <1>2, <1>7 DEF vars, shared, gate
<1> QED
  BY <1>1, <1>2, <1>4, <1>5, <1>6, <1>7, RowWriters DEF authority

-------------------------------------------------------------------------------
(* What a step does to the bookings under a mandate *)

\* Prices are amounts.
LEMMA PricesPaid ==
  ASSUME IInv, NEW m \in Mandates, NEW o \in BookedUnder(m)
  PROVE  o \in Requests /\ reservations[o] # Nil /\ payments[o] \in Nat
BY DEF IInv, TypeOK, OutboxMatchesLedger, BookedUnder

\* What was booked and paid is numbers.
LEMMA SpentNumbers ==
  ASSUME IInv, BookingsFit, NEW m \in Mandates
  PROVE  /\ IsFiniteSet(BookedUnder(m)) /\ Cardinality(BookedUnder(m)) \in Nat
         /\ Spent(m) \in Nat
<1>1. IsFiniteSet(BookedUnder(m)) /\ \A o \in BookedUnder(m) : payments[o] \in Nat
  BY PricesPaid DEF BookingsFit
<1> QED
  BY <1>1, SumIs, FS_CardinalityType DEF Spent

\* A payment that was recorded stays what it was.
LEMMA PaymentsStay ==
  ASSUME IInv, [AnyNext]_vars, NEW o \in Requests, reservations[o] # Nil
  PROVE  payments'[o] = payments[o]
<1>1. ASSUME NEW r \in Requests, BooksFor(r) PROVE payments'[o] = payments[o]
  BY <1>1, BooksForFacts DEF IInv
<1>2. ASSUME NEW r \in Requests, NEW q \in Requests, CancelsFor(r, q)
      PROVE  payments'[o] = payments[o]
  BY <1>2 DEF CancelsFor
<1> QED
  BY <1>1, <1>2, LedgerSteps DEF IInv, ledger

\* A step leaves the bookings under a mandate and their prices as they are, or is the
\* commit of a confirm that adds one, at the price the gate was shown.
LEMMA SpentMoves ==
  ASSUME AInv, [AuthorityNext]_allVars, NEW m \in Mandates
  PROVE  \/ /\ BookedUnder(m)' = BookedUnder(m) /\ Spent(m)' = Spent(m)
            /\ \A r \in Requests : ConfirmWrite(r) => call[r].mandate # m
         \/ \E r \in Requests :
              /\ ConfirmWrite(r) /\ call[r].mandate = m
              /\ IsFiniteSet(BookedUnder(m)')
              /\ Cardinality(BookedUnder(m)') = Cardinality(BookedUnder(m)) + 1
              /\ Spent(m)' = Spent(m) + CheckOf(call[r]).amount
<1> DEFINE B == BookedUnder(m)
           B2 == BookedUnder(m)'
<1>1. /\ IInv /\ TypeOK /\ RequestsFit /\ OutboxMatchesLedger /\ IsFiniteSet(B)
      /\ Cardinality(B) \in Nat
  BY SpentNumbers DEF AInv, IInv
<1>2. \A o \in B : o \in Requests /\ reservations[o] # Nil /\ payments[o] \in Nat
  BY <1>1, PricesPaid
<1>3. CASE UNCHANGED <<ledger, pc, locals>>
           /\ \A r \in Requests : ConfirmWrite(r) => call[r].mandate # m
  <2>1. B2 = B /\ payments' = payments
    BY <1>3 DEF BookedUnder, ledger, locals
  <2> QED
    BY <1>3, <2>1 DEF Spent
<1>4. CASE [AnyNext]_vars /\ \A r \in Requests : ConfirmWrite(r) => call[r].mandate # m
  <2>1. B2 = B
    BY <1>1, <1>4, BookedUnderSame
  <2>2. \A o \in B : payments[o] \in Nat /\ payments'[o] = payments[o]
    BY <1>1, <1>2, <1>4, PaymentsStay
  <2> HIDE DEF B, B2
  <2>3. SumOver(payments, B) = SumOver(payments', B)
    BY <1>1, <2>2, SumOfSame
  <2>4. Spent(m)' = Spent(m)
    BY <2>1, <2>3 DEF Spent, B, B2
  <2> QED
    BY <1>4, <2>1, <2>4 DEF B, B2
<1>5. ASSUME [AnyNext]_vars, NEW r \in Requests, ConfirmWrite(r), call[r].mandate = m
      PROVE  /\ IsFiniteSet(B2) /\ Cardinality(B2) = Cardinality(B) + 1
             /\ Spent(m)' = Spent(m) + CheckOf(call[r]).amount
  <2>1. r \notin B /\ B2 = B \cup {r}
    BY <1>1, <1>5, BookedUnderOne
  <2>2. CheckOf(call[r]).amount \in Nat
    BY <1>5, SpenderFacts DEF CheckInput
  <2>3. payments'[r] = CheckOf(call[r]).amount
    BY <1>1, <1>5 DEF ConfirmWrite, WriteBookingAndCharge, CheckOf, TypeOK
  <2>4. \A o \in B : payments[o] \in Nat /\ payments'[o] = payments[o]
    BY <1>1, <1>2, <1>5, PaymentsStay
  <2> HIDE DEF B, B2
  <2>5. SumOver(payments, B) = SumOver(payments', B)
    BY <1>1, <2>4, SumOfSame
  <2>6. SumOver(payments', B \cup {r}) = SumOver(payments', B) + payments'[r]
    <3>1. \A o \in B \cup {r} : payments'[o] \in Nat
      BY <2>2, <2>3, <2>4
    <3> QED
      BY <1>1, <2>1, <3>1, SumAdds
  <2>7. Spent(m)' = Spent(m) + CheckOf(call[r]).amount
    BY <2>1, <2>3, <2>5, <2>6 DEF Spent, B, B2
  <2> QED
    BY <1>1, <2>1, <2>7, FS_AddElement
<1>6. ASSUME pc' = pc, NEW r \in Requests PROVE ~ ConfirmWrite(r)
  BY <1>1, <1>6 DEF ConfirmWrite, At, Goto, TypeOK
<1>7. (\E n \in Mandates : Grant(n)) \/ (\E k \in Consoles : RevokeWrite(k))
        => UNCHANGED <<ledger, pc, locals>>
  BY DEF Grant, RevokeWrite
<1>8. UNCHANGED <<vars, granted>> => [AnyNext]_vars
  OBVIOUS
<1> QED
  BY <1>3, <1>4, <1>5, <1>6, <1>7, <1>8, RowWriters

\* Nothing is booked under a mandate that was not granted yet.
LEMMA NoneBefore ==
  ASSUME AInv, NEW m \in Mandates, m \notin granted
  PROVE  BookedUnder(m) = {} /\ Cardinality(BookedUnder(m)) = 0 /\ Spent(m) = 0
<1>1. ASSUME NEW o \in BookedUnder(m) PROVE FALSE
  <2>1. /\ o \in Requests /\ reservations[o] # Nil
        /\ call[o].op = "confirm" /\ call[o].mandate = m
    BY <1>1 DEF BookedUnder
  <2>2. pc[o] # "idle"
    BY <2>1 DEF AInv, IInv, RequestsFit, StepFitsCall, BeforeWrite
  <2> QED
    BY <2>1, <2>2 DEF AInv, OffersFit
<1>2. BookedUnder(m) = {}
  BY <1>1
<1> QED
  BY <1>2, FS_EmptySet, SumEmpty DEF Spent

\* The accounts of a mandate stay balanced while it is active.
LEMMA AccountStep ==
  ASSUME AInv, [AuthorityNext]_allVars, NEW m \in granted', mandates'[m].status = "active"
  PROVE  /\ mandates'[m].consumedBookings = Cardinality(BookedUnder(m)')
         /\ mandates'[m].consumedMinor = Spent(m)'
<1>1. TypeOK /\ granted \subseteq Mandates /\ IInv
  BY DEF AInv, IInv, AuthorityTypeOK
<1>2. m \in Mandates
  BY <1>1, RowWriters, GrantMakes DEF RevokeWrite, authority
<1>3. ASSUME m \in granted, mandates'[m] = mandates[m],
             Cardinality(BookedUnder(m)') = Cardinality(BookedUnder(m)),
             Spent(m)' = Spent(m)
      PROVE  /\ mandates'[m].consumedBookings = Cardinality(BookedUnder(m)')
             /\ mandates'[m].consumedMinor = Spent(m)'
  BY <1>3 DEF AInv, Accounted
<1>4. ASSUME NEW r \in Requests, ConfirmWrite(r), call[r].mandate = m,
             Cardinality(BookedUnder(m)') = Cardinality(BookedUnder(m)) + 1,
             Spent(m)' = Spent(m) + CheckOf(call[r]).amount
      PROVE  /\ mandates'[m].consumedBookings = Cardinality(BookedUnder(m)')
             /\ mandates'[m].consumedMinor = Spent(m)'
  <2>1. /\ m \in granted /\ mandates[m].status = "active" /\ mandates[m] \in MandateRow
        /\ CheckOf(call[r]) \in CheckInput
        /\ mandates'[m] = Consume(mandates[m], CheckOf(call[r]))
    BY <1>2, <1>4, SpenderFacts
  <2>2. /\ mandates[m].consumedBookings = Cardinality(BookedUnder(m))
        /\ mandates[m].consumedMinor = Spent(m)
    BY <2>1 DEF AInv, Accounted
  <2>3. /\ mandates'[m].consumedBookings = mandates[m].consumedBookings + 1
        /\ mandates'[m].consumedMinor = mandates[m].consumedMinor + CheckOf(call[r]).amount
    <3> HIDE DEF CheckOf
    <3> QED
      BY <2>1 DEF Consume, MandateRow
  <2> QED
    BY <1>4, <2>2, <2>3
<1>5. ASSUME BookedUnder(m)' = BookedUnder(m), Spent(m)' = Spent(m),
             \A r \in Requests : ConfirmWrite(r) => call[r].mandate # m
      PROVE  /\ mandates'[m].consumedBookings = Cardinality(BookedUnder(m)')
             /\ mandates'[m].consumedMinor = Spent(m)'
  <2>1. CASE ([AnyNext]_vars /\ UNCHANGED authority) \/ UNCHANGED <<vars, granted>>
    <3>1. mandates'[m] = mandates[m] /\ m \in granted
      BY <1>2, <1>5, <2>1, RowStays DEF authority
    <3> QED
      BY <1>3, <1>5, <3>1
  <2>2. ASSUME NEW n \in Mandates, Grant(n)
        PROVE  /\ mandates'[m].consumedBookings = Cardinality(BookedUnder(m)')
               /\ mandates'[m].consumedMinor = Spent(m)'
    <3>1. CASE m = n
      BY <1>1, <1>5, <2>2, <3>1, GrantMakes, NoneBefore
    <3>2. CASE m # n
      BY <1>1, <1>2, <1>3, <1>5, <2>2, <3>2, GrantMakes
    <3> QED
      BY <3>1, <3>2
  <2>3. ASSUME NEW k \in Consoles, RevokeWrite(k)
        PROVE  mandates'[m] = mandates[m] /\ m \in granted
    <3> DEFINE n == console[k].mandate
    <3>1. /\ granted' = granted /\ mandates'[n].status = "revoked"
          /\ \A o \in Mandates \ {n} : mandates'[o] = mandates[o]
      BY <1>1, <2>3, SaveLeaves DEF AInv, AuthorityTypeOK, ConsolesFit
    <3> QED
      BY <1>2, <3>1
  <2> QED
    BY <1>3, <1>5, <2>1, <2>2, <2>3, RowWriters
<1> QED
  BY <1>2, <1>4, <1>5, SpentMoves

\* What is booked under a mandate stays finite, and within what was signed for.
LEMMA BoundStep ==
  ASSUME AInv, [AuthorityNext]_allVars
  PROVE  BookingsFit' /\ Accounted' /\ Bounded'
<1>1. ASSUME NEW m \in Mandates
      PROVE  /\ IsFiniteSet(BookedUnder(m)')
             /\ Cardinality(BookedUnder(m)') <= InitialMandates[m].maxBookings
             /\ Spent(m)' <= InitialMandates[m].maxTotal
  <2>1. IsFiniteSet(BookedUnder(m))
    BY DEF AInv, BookingsFit
  <2>2. /\ Cardinality(BookedUnder(m)) <= InitialMandates[m].maxBookings
        /\ Spent(m) <= InitialMandates[m].maxTotal
    BY DEF AInv, Bounded
  <2>3. ASSUME NEW r \in Requests, ConfirmWrite(r), call[r].mandate = m
        PROVE  /\ Cardinality(BookedUnder(m)) + 1 <= InitialMandates[m].maxBookings
               /\ Spent(m) + CheckOf(call[r]).amount <= InitialMandates[m].maxTotal
    <3>1. /\ m \in granted /\ mandates[m].status = "active"
          /\ Admits(mandates[m], CheckOf(call[r]), now)
      BY <2>3, SpenderFacts
    <3>2. /\ mandates[m].consumedBookings = Cardinality(BookedUnder(m))
          /\ mandates[m].consumedMinor = Spent(m)
      BY <3>1 DEF AInv, Accounted
    <3>3. /\ mandates[m].maxBookings = InitialMandates[m].maxBookings
          /\ mandates[m].maxTotal = InitialMandates[m].maxTotal
      BY DEF AInv, GrantsFit
    <3> QED
      BY <3>1, <3>2, <3>3 DEF Admits
  <2> QED
    BY <2>1, <2>2, <2>3, SpentMoves
<1>2. BookingsFit' /\ Bounded'
  BY <1>1 DEF BookingsFit, Bounded
<1>3. Accounted'
  BY AccountStep DEF Accounted
<1> QED
  BY <1>2, <1>3

-------------------------------------------------------------------------------
(* What a step does to the calls and to the terms *)

\* Who arrives was offered a mandate that exists.
LEMMA ArrivalsOffered ==
  ASSUME TypeOK, BookingSide, [AnyNext]_vars, NEW r \in Requests, pc[r] = "idle",
         pc'[r] # "idle"
  PROVE  Offered(call'[r])
<1>1. ~ Untouched(r)
  BY DEF Untouched
<1>2. ~ (Environment \/ UNCHANGED vars)
  BY DEF Environment, ExpireHold, ExpireMeta, Tick, vars
<1>3. PICK q \in Requests :
        \/ \E c \in Call : Offered(c) /\ Arrive(q, c)
        \/ Handle(q) \/ Fault(q) \/ AnswerLost(q) \/ Crash(q)
  BY <1>2, ConstantsAssumption DEF BookingSide, Rest
<1>4. q = r
  BY <1>1, <1>3, OthersStay
<1>5. PICK c \in Call : Offered(c) /\ Arrive(r, c)
  BY <1>3, <1>4, IdleWaits
<1> QED
  BY <1>5 DEF Arrive, TypeOK

\* Calls go on naming mandates that exist.
LEMMA OfferStep ==
  ASSUME AInv, [AuthorityNext]_allVars
  PROVE  OffersFit'
<1>1. TypeOK /\ granted \subseteq Mandates /\ granted \subseteq granted'
  BY RowKeeps DEF AInv, IInv, AuthorityTypeOK
<1>2. CASE UNCHANGED <<pc, locals>>
  BY <1>1, <1>2 DEF AInv, OffersFit, locals
<1>3. CASE BookingSide /\ [AnyNext]_vars
  <2> SUFFICES ASSUME NEW r \in Requests, pc'[r] # "idle", call'[r].op = "confirm",
                      call'[r].mandate \in Mandates
               PROVE  call'[r].mandate \in granted'
    BY DEF OffersFit
  <2>1. CASE pc[r] = "idle"
    <3>1. Offered(call'[r])
      BY <1>1, <1>3, <2>1, ArrivalsOffered
    <3>2. UNCHANGED granted
      BY <1>3 DEF BookingSide, authority
    <3>3. call'[r].mandate # Nil
      BY ConstantsAssumption
    <3>4. Offered(call'[r]) => call'[r].mandate \in granted
      BY <3>3 DEF Offered
    <3> QED
      BY <3>1, <3>2, <3>4
  <2>2. CASE pc[r] # "idle"
    <3>1. call'[r] = call[r]
      BY <1>1, <1>3, <2>2, CallStable
    <3> QED
      BY <1>1, <2>2, <3>1 DEF AInv, OffersFit
  <2> QED
    BY <2>1, <2>2
<1> QED
  BY <1>2, <1>3, Sides DEF allVars, vars

\* A mandate keeps to what was asked for.
LEMMA GrantsStep ==
  ASSUME AInv, [AuthorityNext]_allVars
  PROVE  GrantsFit'
<1>1. TypeOK /\ granted \subseteq Mandates
  BY DEF AInv, IInv, AuthorityTypeOK
<1> SUFFICES ASSUME NEW m \in Mandates
             PROVE  /\ mandates'[m].maxBookings = InitialMandates[m].maxBookings
                    /\ mandates'[m].maxTotal = InitialMandates[m].maxTotal
                    /\ m \in granted' => WithinCeilings(mandates'[m])
                    /\ m \notin granted' => mandates'[m] = InitialMandates[m]
  BY DEF GrantsFit
<1>2. /\ mandates[m].maxBookings = InitialMandates[m].maxBookings
      /\ mandates[m].maxTotal = InitialMandates[m].maxTotal
      /\ m \notin granted => mandates[m] = InitialMandates[m]
  BY DEF AInv, GrantsFit
<1>3. CASE m \in granted
  BY <1>2, <1>3, RowKeeps DEF Succeeds, SameTerms
<1>4. ASSUME m \notin granted, NEW n \in Mandates, Grant(n)
      PROVE  /\ mandates'[m].maxBookings = InitialMandates[m].maxBookings
             /\ mandates'[m].maxTotal = InitialMandates[m].maxTotal
             /\ m \in granted' => WithinCeilings(mandates'[m])
             /\ m \notin granted' => mandates'[m] = InitialMandates[m]
  <2>1. CASE m = n
    <3>1. InitialMandates[m] \in MandateRow
      BY ConstantsAssumption
    <3>2. InitialMandates[m].maxBookings >= 0 /\ InitialMandates[m].maxTotal >= 0
      BY <3>1 DEF MandateRow
    <3> QED
      BY <1>1, <1>4, <2>1, <3>2, GrantMakes DEF WithinCeilings
  <2>2. CASE m # n
    BY <1>1, <1>2, <1>4, <2>2, GrantMakes
  <2> QED
    BY <2>1, <2>2
<1>5. ASSUME m \notin granted, mandates'[m] = mandates[m], granted' = granted
      PROVE  /\ mandates'[m].maxBookings = InitialMandates[m].maxBookings
             /\ mandates'[m].maxTotal = InitialMandates[m].maxTotal
             /\ m \in granted' => WithinCeilings(mandates'[m])
             /\ m \notin granted' => mandates'[m] = InitialMandates[m]
  BY <1>2, <1>5
<1>6. ASSUME m \notin granted, [AnyNext]_vars PROVE mandates'[m] = mandates[m]
  BY <1>6, RowStays, SpenderFacts
<1>7. ASSUME m \notin granted, NEW k \in Consoles, RevokeWrite(k)
      PROVE  mandates'[m] = mandates[m] /\ granted' = granted
  BY <1>1, <1>7, SaveLeaves DEF AInv, AuthorityTypeOK, ConsolesFit
<1> QED
  BY <1>3, <1>4, <1>5, <1>6, <1>7, RowWriters DEF authority, vars, shared, gate

-------------------------------------------------------------------------------
(* What a step does to the consoles *)

\* What a console holds stays right while others move.
LEMMA ConsoleStays ==
  ASSUME AInv, [AuthorityNext]_allVars, NEW c, ConsoleFits(c, granted, mandates)
  PROVE  ConsoleFits(c, granted', mandates')
<1>1. CASE c.step = "idle"
  BY <1>1 DEF ConsoleFits
<1>2. CASE c.step # "idle"
  <2> DEFINE row == mandates[c.mandate]
             new == mandates'[c.mandate]
  <2>1. c.mandate \in granted
    BY <1>2 DEF ConsoleFits
  <2>2. c.mandate \in granted' /\ c.mandate \in Mandates /\ Succeeds(row, new)
    BY <2>1, RowKeeps
  <2>3. row \in MandateRow /\ new \in MandateRow
    BY <2>2, CoreStep DEF AInv, IInv, TypeOK
  <2>4. row.status = "revoked" => new.status = "revoked"
    <3> HIDE DEF row, new
    <3> QED
      BY <2>2, <2>3 DEF Succeeds, MandateRow, MandateStatus
  <2>5. SameTerms(c.copy, row) => SameTerms(c.copy, new)
    <3> HIDE DEF row, new
    <3> QED
      BY <2>2 DEF Succeeds, SameTerms
  <2>6. c.copy \in MandateRow /\ Succeeds(c.copy, row) => Succeeds(c.copy, new)
    <3> HIDE DEF row, new
    <3> QED
      BY <2>2, <2>3, <2>5 DEF Succeeds, MandateRow
  <2> HIDE DEF new
  <2> QED
    BY <2>2, <2>4, <2>5, <2>6 DEF ConsoleFits, new
<1> QED
  BY <1>1, <1>2

\* A console that moves to a fitting place leaves all of them in fitting places.
LEMMA ConsoleMoves ==
  ASSUME AInv, [AuthorityNext]_allVars, NEW k \in Consoles, NEW new \in ConsoleRow,
         console' = [console EXCEPT ![k] = new], ConsoleFits(new, granted', mandates')
  PROVE  console' \in [Consoles -> ConsoleRow] /\ ConsolesFit'
<1>1. console \in [Consoles -> ConsoleRow]
  BY DEF AInv, AuthorityTypeOK
<1>2. console' \in [Consoles -> ConsoleRow] /\ console'[k] = new
      /\ \A j \in Consoles \ {k} : console'[j] = console[j]
  BY <1>1
<1>3. \A j \in Consoles \ {k} : ConsoleFits(console'[j], granted', mandates')
  BY <1>2, ConsoleStays DEF AInv, ConsolesFit
<1> QED
  BY <1>2, <1>3 DEF ConsolesFit

\* A console at rest.
LEMMA IdleRow == IdleConsole \in ConsoleRow
<1>1. <<>> \in Seq(SeatRow)
  OBVIOUS
<1> QED
  BY <1>1 DEF IdleConsole, ConsoleRow

\* What the owner's revoke finds first.
LEMMA RevokeReadStep ==
  ASSUME AInv, [AuthorityNext]_allVars, NEW k \in Consoles, NEW m \in Mandates,
         RevokeRead(k, m)
  PROVE  console' \in [Consoles -> ConsoleRow] /\ ConsolesFit'
<1> DEFINE row == mandates[m]
           copy == [row EXCEPT !.status = "revoked"]
           s == IF row.status = "revoked" THEN "revoked" ELSE "load"
           new == [IdleConsole EXCEPT !.mandate = m, !.step = s, !.copy = copy]
<1>1. row \in MandateRow /\ m \in granted /\ WithinCeilings(row)
  BY DEF RevokeRead, AInv, IInv, TypeOK, GrantsFit
<1>2. /\ copy \in MandateRow /\ SameTerms(copy, row) /\ WithinCeilings(copy)
      /\ copy.status = "revoked"
  <2> HIDE DEF row
  <2> QED
    BY <1>1 DEF MandateRow, MandateStatus, SameTerms, WithinCeilings
<1>3. console' = [console EXCEPT ![k] = new]
  BY DEF RevokeRead
<1>4. mandates' = mandates /\ granted' = granted
  BY DEF RevokeRead, vars, shared, gate
<1> HIDE DEF copy
<1>5. new \in ConsoleRow /\ new.step = s /\ new.mandate = m /\ new.copy = copy
  BY <1>2, IdleRow DEF ConsoleRow
<1> HIDE DEF new
<1>6. ConsoleFits(new, granted', mandates')
  BY <1>1, <1>2, <1>4, <1>5 DEF ConsoleFits
<1> HIDE DEF new
<1> QED
  BY <1>3, <1>5, <1>6, ConsoleMoves

\* What save finds to write.
LEMMA RevokeLoadStep ==
  ASSUME AInv, [AuthorityNext]_allVars, NEW k \in Consoles, RevokeLoad(k)
  PROVE  console' \in [Consoles -> ConsoleRow] /\ ConsolesFit'
<1> DEFINE c == console[k]
           cols == {f \in Columns : c.copy[f] # mandates[c.mandate][f]}
           new == [c EXCEPT !.step = "write", !.columns = cols]
<1>1. c \in ConsoleRow /\ c.step = "load" /\ ConsoleFits(c, granted, mandates)
  BY DEF RevokeLoad, AInv, AuthorityTypeOK, ConsolesFit
<1>2. mandates' = mandates /\ granted' = granted
  BY DEF RevokeLoad, vars, shared, gate
<1>3. console' = [console EXCEPT ![k] = new]
  <2>1. console \in [Consoles -> ConsoleRow]
    BY DEF AInv, AuthorityTypeOK
  <2> QED
    BY <2>1 DEF RevokeLoad
<1>4. "status" \in cols \/ mandates[c.mandate].status = "revoked"
  BY <1>1 DEF ConsoleFits, Columns
<1>5. cols \in SUBSET Columns
  OBVIOUS
<1> HIDE DEF cols
<1>6. /\ new \in ConsoleRow /\ new.step = "write" /\ new.columns = cols
      /\ new.mandate = c.mandate /\ new.copy = c.copy
  <2> HIDE DEF c
  <2> QED
    BY <1>1, <1>5 DEF ConsoleRow
<1> HIDE DEF new
<1>7. ConsoleFits(new, granted', mandates')
  BY <1>1, <1>2, <1>4, <1>6 DEF ConsoleFits
<1> QED
  BY <1>3, <1>6, <1>7, ConsoleMoves

\* An answer holds nothing but its mandate.
LEMMA AnswerConsole ==
  ASSUME AInv, [AuthorityNext]_allVars, NEW k \in Consoles, console[k].mandate \in granted',
         NEW step \in {"revoked", "previewed"}, Finish(k, step),
         step = "revoked" => mandates'[console[k].mandate].status = "revoked"
  PROVE  console' \in [Consoles -> ConsoleRow] /\ ConsolesFit'
<1> DEFINE m == console[k].mandate
           new == [IdleConsole EXCEPT !.step = step, !.mandate = m]
<1>1. m \in Mandates \cup {Nil}
  BY DEF AInv, AuthorityTypeOK, ConsoleRow
<1>2. console' = [console EXCEPT ![k] = new]
  BY DEF Finish
<1> HIDE DEF m
<1>3. new \in ConsoleRow /\ new.step = step /\ new.mandate = m
  BY <1>1, IdleRow DEF ConsoleRow
<1> HIDE DEF new
<1>4. ConsoleFits(new, granted', mandates')
  BY <1>3 DEF ConsoleFits, m
<1> QED
  BY <1>2, <1>3, <1>4, ConsoleMoves

\* What save has written.
LEMMA RevokeWriteStep ==
  ASSUME AInv, [AuthorityNext]_allVars, NEW k \in Consoles, RevokeWrite(k)
  PROVE  console' \in [Consoles -> ConsoleRow] /\ ConsolesFit'
<1>1. /\ console[k].mandate \in granted' /\ Finish(k, "revoked")
      /\ mandates'[console[k].mandate].status = "revoked"
  BY SaveLeaves DEF AInv, IInv, AuthorityTypeOK, ConsolesFit
<1> QED
  BY <1>1, AnswerConsole

\* A row is the same as itself.
LEMMA RowItself ==
  ASSUME NEW m \in MandateRow
  PROVE  SameTerms(m, m) /\ Succeeds(m, m)
BY DEF SameTerms, Succeeds, MandateRow

\* A seat asked about is one the gate can judge.
LEMMA SeatChecked ==
  ASSUME NEW p \in SeatRow
  PROVE  CheckOf(p) \in CheckInput
BY ConstantsAssumption DEF SeatRow, CheckOf, CheckInput

\* What a preview reads.
LEMMA PreviewReadStep ==
  ASSUME AInv, [AuthorityNext]_allVars, NEW k \in Consoles, NEW m \in Mandates,
         NEW p \in Previews, PreviewRead(k, m, p)
  PROVE  console' \in [Consoles -> ConsoleRow] /\ ConsolesFit'
<1> DEFINE row == mandates[m]
           check == CheckOf(p)
           new == [IdleConsole EXCEPT !.mandate = m, !.step = "log", !.copy = row,
                                      !.check = check]
<1>1. row \in MandateRow /\ m \in granted /\ WithinCeilings(row)
  BY DEF PreviewRead, AInv, IInv, TypeOK, GrantsFit
<1>2. check \in CheckInput
  BY AuthorityAssumption, SeatChecked
<1>3. console' = [console EXCEPT ![k] = new]
  BY DEF PreviewRead
<1>4. mandates' = mandates /\ granted' = granted
  BY DEF PreviewRead, vars, shared, gate
<1> HIDE DEF check
<1>5. /\ new \in ConsoleRow /\ new.step = "log" /\ new.mandate = m
      /\ new.copy = row /\ new.check = check
  <2> HIDE DEF row
  <2> QED
    BY <1>1, <1>2, IdleRow DEF ConsoleRow
<1> HIDE DEF new
<1>6. ConsoleFits(new, granted', mandates')
  BY <1>1, <1>2, <1>4, <1>5, RowItself DEF ConsoleFits
<1> QED
  BY <1>3, <1>5, <1>6, ConsoleMoves

\* The seats that alternatives begin with.
LEMMA AlternativesReadStep ==
  ASSUME AInv, [AuthorityNext]_allVars, NEW k \in Consoles, NEW m \in Mandates,
         NEW queue \in Candidates, AlternativesRead(k, m, queue)
  PROVE  console' \in [Consoles -> ConsoleRow] /\ ConsolesFit'
<1> DEFINE s == IF queue = <<>> THEN "offered" ELSE "screen"
           new == [IdleConsole EXCEPT !.mandate = m, !.queue = queue, !.step = s]
<1>1. m \in granted /\ mandates' = mandates /\ granted' = granted
  BY DEF AlternativesRead, vars, shared, gate
<1>2. console' = [console EXCEPT ![k] = new]
  BY DEF AlternativesRead
<1>3. queue \in Seq(SeatRow)
  BY AuthorityAssumption
<1>4. s \in {"offered", "screen"} /\ (s = "screen" => queue # <<>>)
  OBVIOUS
<1> HIDE DEF s
<1>5. /\ new \in ConsoleRow /\ new.step = s /\ new.mandate = m /\ new.queue = queue
  BY <1>3, <1>4, IdleRow DEF ConsoleRow
<1> HIDE DEF new
<1>6. ConsoleFits(new, granted', mandates')
  BY <1>1, <1>4, <1>5 DEF ConsoleFits
<1> QED
  BY <1>2, <1>5, <1>6, ConsoleMoves

\* What the next of the alternatives is judged by.
LEMMA ScreenNextStep ==
  ASSUME AInv, [AuthorityNext]_allVars, NEW k \in Consoles, ScreenNext(k)
  PROVE  console' \in [Consoles -> ConsoleRow] /\ ConsolesFit'
<1> DEFINE c == console[k]
           row == mandates[c.mandate]
           check == CheckOf(Head(c.queue))
           new == [c EXCEPT !.step = "log", !.copy = row, !.check = check]
<1>1. c \in ConsoleRow /\ c.step = "screen" /\ ConsoleFits(c, granted, mandates)
  BY DEF ScreenNext, AInv, AuthorityTypeOK, ConsolesFit
<1>2. mandates' = mandates /\ granted' = granted
  BY DEF ScreenNext, vars, shared, gate
<1>3. c.mandate \in granted /\ c.queue # <<>> /\ c.queue \in Seq(SeatRow)
  BY <1>1 DEF ConsoleFits, ConsoleRow
<1>4. check \in CheckInput
  <2>1. Head(c.queue) \in SeatRow
    BY <1>3
  <2> QED
    BY <2>1, SeatChecked
<1>5. row \in MandateRow /\ WithinCeilings(row)
  BY <1>3 DEF AInv, IInv, TypeOK, GrantsFit, AuthorityTypeOK
<1>6. console' = [console EXCEPT ![k] = new]
  <2>1. console \in [Consoles -> ConsoleRow]
    BY DEF AInv, AuthorityTypeOK
  <2> QED
    BY <2>1 DEF ScreenNext
<1> HIDE DEF check, row
<1>7. /\ new \in ConsoleRow /\ new.step = "log" /\ new.mandate = c.mandate
      /\ new.copy = row /\ new.check = check
  <2> HIDE DEF c
  <2> QED
    BY <1>1, <1>4, <1>5 DEF ConsoleRow
<1> HIDE DEF new
<1>8. ConsoleFits(new, granted', mandates')
  BY <1>2, <1>3, <1>4, <1>5, <1>7, RowItself DEF ConsoleFits, row
<1> QED
  BY <1>6, <1>7, <1>8, ConsoleMoves

\* What the log of a proposal leaves: an answer, or the seats that are left.
LEMMA PreviewLogStep ==
  ASSUME AInv, [AuthorityNext]_allVars, NEW k \in Consoles, PreviewLog(k)
  PROVE  console' \in [Consoles -> ConsoleRow] /\ ConsolesFit'
<1> DEFINE c == console[k]
           chosen == IF PreviewVerdict(c) = "ALLOW" THEN c.alternatives \cup {Head(c.queue)}
                                                    ELSE c.alternatives
           more == Tail(c.queue) # <<>> /\ Cardinality(chosen) < MaxAlternatives
           s == IF more THEN "screen" ELSE "offered"
           q == IF more THEN Tail(c.queue) ELSE <<>>
           new == [IdleConsole EXCEPT !.mandate = c.mandate, !.alternatives = chosen,
                                      !.step = s, !.queue = q]
<1>1. c \in ConsoleRow /\ c.step = "log" /\ ConsoleFits(c, granted, mandates)
  BY DEF PreviewLog, AInv, AuthorityTypeOK, ConsolesFit
<1>2. mandates' = mandates /\ granted' = granted /\ c.mandate \in granted
      /\ c.mandate \in Mandates
  BY <1>1 DEF PreviewLog, vars, shared, gate, ConsoleFits, AInv, AuthorityTypeOK
<1>3. CASE c.queue = <<>>
  BY <1>2, <1>3, AnswerConsole DEF PreviewLog
<1>4. CASE c.queue # <<>>
  <2>1. console' = [console EXCEPT ![k] = new]
    BY <1>4 DEF PreviewLog, Screened
  <2>2. c.queue \in Seq(SeatRow) /\ c.alternatives \in SUBSET SeatRow
    BY <1>1 DEF ConsoleRow
  <2>3. Head(c.queue) \in SeatRow /\ Tail(c.queue) \in Seq(SeatRow) /\ <<>> \in Seq(SeatRow)
    BY <1>4, <2>2
  <2>4. chosen \in SUBSET SeatRow
    BY <2>2, <2>3
  <2>5. q \in Seq(SeatRow) /\ s \in {"screen", "offered"} /\ (s = "screen" => q # <<>>)
    BY <2>3
  <2> HIDE DEF chosen, s, q
  <2>6. new \in ConsoleRow /\ new.step = s /\ new.mandate = c.mandate /\ new.queue = q
    <3> HIDE DEF c
    <3> QED
      BY <1>2, <2>4, <2>5, IdleRow DEF ConsoleRow
  <2> HIDE DEF new
  <2>7. ConsoleFits(new, granted', mandates')
    BY <1>2, <2>5, <2>6 DEF ConsoleFits
  <2> QED
    BY <2>1, <2>6, <2>7, ConsoleMoves
<1> QED
  BY <1>3, <1>4

\* Consoles are where they may be after any step.
LEMMA ConsoleStep ==
  ASSUME AInv, [AuthorityNext]_allVars
  PROVE  console' \in [Consoles -> ConsoleRow] /\ ConsolesFit'
<1>1. CASE console' = console
  BY <1>1, ConsoleStays DEF AInv, AuthorityTypeOK, ConsolesFit
<1>2. ASSUME NEW m \in Mandates, Grant(m) PROVE console' = console
  BY <1>2 DEF Grant
<1>3. ASSUME NEW k \in Consoles, NEW m \in Mandates,
             \/ RevokeRead(k, m)
             \/ \E p \in Previews : PreviewRead(k, m, p)
             \/ \E queue \in Candidates : AlternativesRead(k, m, queue)
      PROVE  console' \in [Consoles -> ConsoleRow] /\ ConsolesFit'
  BY <1>3, RevokeReadStep, PreviewReadStep, AlternativesReadStep
<1>4. ASSUME NEW k \in Consoles,
             RevokeLoad(k) \/ RevokeWrite(k) \/ ScreenNext(k) \/ PreviewLog(k)
      PROVE  console' \in [Consoles -> ConsoleRow] /\ ConsolesFit'
  BY <1>4, RevokeLoadStep, RevokeWriteStep, ScreenNextStep, PreviewLogStep
<1>5. UNCHANGED authority \/ UNCHANGED allVars => console' = console
  BY DEF authority, allVars
<1> QED
  BY <1>1, <1>2, <1>3, <1>4, <1>5, Sides DEF ConsoleSide

-------------------------------------------------------------------------------
(* What a step does to proposals *)

\* Who was denied is denied by any row that succeeds, at any later time.
LEMMA DeniedLater ==
  ASSUME NEW m \in MandateRow, NEW m2 \in MandateRow, NEW c \in CheckInput,
         NEW n \in Int, NEW n2 \in Int, n <= n2, Succeeds(m, m2), ~ Admits(m, c, n)
  PROVE  ~ Admits(m2, c, n2)
BY DEF Admits, Succeeds, SameTerms, MandateRow, CheckInput

\* Time goes forward.
LEMMA ClockStep ==
  ASSUME TypeOK, [AuthorityNext]_allVars
  PROVE  now \in Int /\ now' \in Int /\ now <= now'
<1>1. now \in Int
  BY DEF TypeOK
<1>2. ASSUME NEW r \in Requests, BookStep(r) \/ HoldStep(r) \/ ConfirmStep(r)
      PROVE  now' = now
  BY <1>2 DEF BookStep, BookChecks, LockSlot, ReadVersion, ReadExisting, SwapWon, SwapLost,
     BookInTransaction, LockedTransaction, DirectWrite, HoldStep, HoldChecks, HoldWindow,
     AcquireHold, WriteMeta, ReuseTooLate, ConfirmStep, ClaimKey, LookupKey, ConfirmChecks,
     ConsumeHold, ConfirmWrite, ConfirmRollback, StoreOutcome, DropKey, Check, world
<1>3. ASSUME NEW r \in Requests, CancelStep(r) \/ Publish(r) \/ Fault(r) \/ Crash(r)
      PROVE  now' = now
  BY <1>3 DEF CancelStep, CancelChecks, CancelTransaction, Publish, Fault, Crash, Breaks,
     Check, world
<1>4. ASSUME NEW r \in Requests, NEW c \in Call, Arrive(r, c) PROVE now' = now
  BY <1>4 DEF Arrive, world
<1>5. CASE Environment
  <2>1. now' = now \/ Tick
    BY <1>5 DEF Environment, ExpireHold, ExpireMeta, world
  <2> QED
    BY <1>1, <2>1 DEF Tick
<1>6. CASE UNCHANGED vars \/ UNCHANGED world
  BY <1>1, <1>6 DEF vars, world
<1>8. ASSUME NEW r \in Requests, AnswerLost(r) PROVE now' = now
  BY <1>8, LostShape
<1>7. CASE [AnyNext]_vars
  BY <1>1, <1>2, <1>3, <1>4, <1>5, <1>6, <1>7, <1>8 DEF AnyNext, Handle, Rest
<1> QED
  BY <1>6, <1>7, Sides DEF allVars

\* What is logged is a verdict on a mandate that exists, and a denial is still one.
LEMMA ProposalStep ==
  ASSUME AInv, [AuthorityNext]_allVars
  PROVE  proposals' \subseteq ProposalRow /\ ProposalsFit' /\ DeniedStaysDenied'
<1>1. /\ TypeOK /\ TypeOK' /\ granted \subseteq Mandates /\ proposals \subseteq ProposalRow
      /\ now \in Int /\ now' \in Int /\ now <= now'
  BY CoreStep, ClockStep DEF AInv, IInv, AuthorityTypeOK
<1>2. ASSUME NEW p \in proposals
      PROVE  /\ p \in ProposalRow /\ p.mandate \in granted'
             /\ p.verdict # "ALLOW" => ~ Admits(mandates'[p.mandate], p.check, now')
  <2> DEFINE m == p.mandate
  <2>1. p \in ProposalRow /\ p.check \in CheckInput /\ m \in granted
    BY <1>1 DEF AInv, ProposalsFit, ProposalRow
  <2>2. /\ m \in Mandates /\ m \in granted' /\ Succeeds(mandates[m], mandates'[m])
        /\ mandates[m] \in MandateRow /\ mandates'[m] \in MandateRow
    BY <1>1, <2>1, RowKeeps DEF TypeOK
  <2>3. p.verdict # "ALLOW" => ~ Admits(mandates[m], p.check, now)
    BY DEF AInv, DeniedStaysDenied
  <2> QED
    BY <1>1, <2>1, <2>2, <2>3, DeniedLater
<1>3. CASE proposals' = proposals
  BY <1>2, <1>3 DEF ProposalsFit, DeniedStaysDenied
<1>4. ASSUME NEW k \in Consoles, PreviewLog(k)
      PROVE  proposals' \subseteq ProposalRow /\ ProposalsFit' /\ DeniedStaysDenied'
  <2> DEFINE c == console[k]
             v == PreviewVerdict(c)
             new == [mandate |-> c.mandate, check |-> c.check, verdict |-> v]
  <2>1. /\ c.step = "log" /\ proposals' = proposals \cup {new}
        /\ mandates' = mandates /\ now' = now /\ granted' = granted
    BY <1>4 DEF PreviewLog, vars, shared, gate, world
  <2>2. /\ c.mandate \in granted /\ c.mandate \in Mandates /\ c.copy \in MandateRow
        /\ c.check \in CheckInput /\ Succeeds(c.copy, mandates[c.mandate])
        /\ mandates[c.mandate] \in MandateRow
    BY <1>1, <2>1 DEF AInv, ConsolesFit, ConsoleFits, TypeOK
  <2>3. v \in {"ALLOW"} \cup DenyReasons
    BY DEF PreviewVerdict, EvaluateMandate, DenyReasons
  <2>4. v # "ALLOW" => ~ Admits(mandates[c.mandate], c.check, now)
    <3>1. v # "ALLOW" => ~ Admits(c.copy, c.check, now)
      BY <1>1, <2>2, GateAgrees DEF PreviewVerdict
    <3> QED
      BY <1>1, <2>2, <3>1, DeniedLater
  <2> HIDE DEF v, c
  <2>5. new \in ProposalRow
    BY <2>2, <2>3 DEF ProposalRow
  <2>6. new.mandate = c.mandate /\ new.check = c.check /\ new.verdict = v
    OBVIOUS
  <2> HIDE DEF new
  <2> QED
    BY <1>2, <2>1, <2>2, <2>4, <2>5, <2>6 DEF ProposalsFit, DeniedStaysDenied
<1>5. ASSUME NEW m \in Mandates, Grant(m) PROVE proposals' = proposals
  BY <1>5 DEF Grant
<1>6. ASSUME NEW k \in Consoles, NEW m \in Mandates,
             \/ RevokeRead(k, m)
             \/ \E p \in Previews : PreviewRead(k, m, p)
             \/ \E queue \in Candidates : AlternativesRead(k, m, queue)
      PROVE  proposals' = proposals
  BY <1>6 DEF RevokeRead, PreviewRead, AlternativesRead
<1>7. ASSUME NEW k \in Consoles, RevokeLoad(k) \/ RevokeWrite(k) \/ ScreenNext(k)
      PROVE  proposals' = proposals
  BY <1>7 DEF RevokeLoad, RevokeWrite, ScreenNext
<1>8. UNCHANGED authority \/ UNCHANGED allVars => proposals' = proposals
  BY DEF authority, allVars
<1> QED
  BY <1>3, <1>4, <1>5, <1>6, <1>7, <1>8, Sides DEF ConsoleSide

-------------------------------------------------------------------------------
(* The theorems *)

\* The invariant holds at first.
LEMMA AuthorityInitial == AuthorityInit => AInv
<1> SUFFICES ASSUME AuthorityInit PROVE AInv
  OBVIOUS
<1>1. /\ IInv /\ granted = {} /\ proposals = {}
      /\ console = [k \in Consoles |-> IdleConsole]
  BY Initial DEF AuthorityInit
<1>2. \A m \in Mandates : BookedUnder(m) = {}
  BY DEF AuthorityInit, Init, BookedUnder
<1>3. AuthorityTypeOK
  BY <1>1, IdleRow DEF AuthorityTypeOK, IInv
<1>4. OffersFit
  BY DEF AuthorityInit, Init, OffersFit
<1>5. GrantsFit
  BY <1>1 DEF AuthorityInit, Init, GrantsFit
<1>6. ConsolesFit
  BY <1>1 DEF ConsolesFit, ConsoleFits, IdleConsole
<1>7. ProposalsFit /\ DeniedStaysDenied /\ Accounted
  BY <1>1 DEF ProposalsFit, DeniedStaysDenied, Accounted
<1>8. BookingsFit
  BY <1>2, FS_EmptySet DEF BookingsFit
<1>9. Bounded
  <2> SUFFICES ASSUME NEW m \in Mandates
               PROVE  /\ Cardinality(BookedUnder(m)) <= InitialMandates[m].maxBookings
                      /\ Spent(m) <= InitialMandates[m].maxTotal
    BY DEF Bounded
  <2>1. Cardinality(BookedUnder(m)) = 0 /\ Spent(m) = 0
    BY <1>2, FS_EmptySet, SumEmpty DEF Spent
  <2>2. InitialMandates[m] \in MandateRow
    BY ConstantsAssumption
  <2>3. InitialMandates[m].maxBookings >= 0 /\ InitialMandates[m].maxTotal >= 0
    BY <2>2 DEF MandateRow
  <2> QED
    BY <2>1, <2>3
<1> QED
  BY <1>1, <1>3, <1>4, <1>5, <1>6, <1>7, <1>8, <1>9 DEF AInv

\* Every step keeps it.
LEMMA AuthorityInductive == AInv /\ [AuthorityNext]_allVars => AInv'
<1> SUFFICES ASSUME AInv, [AuthorityNext]_allVars PROVE AInv'
  OBVIOUS
<1>1. IInv' /\ console' \in [Consoles -> ConsoleRow] /\ ConsolesFit'
  BY CoreStep, ConsoleStep
<1>2. proposals' \subseteq ProposalRow /\ ProposalsFit' /\ DeniedStaysDenied'
  BY ProposalStep
<1>3. granted' \subseteq Mandates
  BY RowWriters DEF Grant, RevokeWrite, authority, AInv, AuthorityTypeOK
<1>4. AuthorityTypeOK'
  BY <1>1, <1>2, <1>3 DEF AuthorityTypeOK, IInv
<1>5. OffersFit' /\ GrantsFit'
  BY OfferStep, GrantsStep
<1> QED
  BY <1>1, <1>2, <1>4, <1>5, BoundStep DEF AInv

\* It holds always.
LEMMA AuthorityInvariance == AuthoritySpec => []AInv
BY AuthorityInitial, AuthorityInductive, PTL DEF AuthoritySpec

\* Every variable keeps its type, also what the consoles copy and write back.
THEOREM AuthorityTypeCorrect == AuthoritySpec => []AuthorityTypeOK
<1>1. AInv => AuthorityTypeOK
  BY DEF AInv
<1> QED
  BY <1>1, AuthorityInvariance, PTL

\* However revocations, with the counters they overwrite, fall among the confirms: no
\* more is booked under a mandate, in number or in price, than its owner signed for.
THEOREM BookingsAreBounded == AuthoritySpec => []AuthorityIsBounded
<1>1. AInv => AuthorityIsBounded
  BY DEF AInv, Bounded, AuthorityIsBounded, Spent, SumOver
<1> QED
  BY <1>1, AuthorityInvariance, PTL

\* While a mandate is active its counters are the number and the total of what was
\* booked under it.
THEOREM ActiveIsAccounted == AuthoritySpec => []ActiveMandateIsAccounted
<1>1. AInv => ActiveMandateIsAccounted
  BY DEF AInv, Accounted, ActiveMandateIsAccounted, Spent, SumOver
<1> QED
  BY <1>1, AuthorityInvariance, PTL

\* What a preview denied, and what the alternatives left out, the gate never admits
\* later.
THEOREM DenialsStand == AuthoritySpec => []DeniedStaysDenied
<1>1. AInv => DeniedStaysDenied
  BY DEF AInv
<1> QED
  BY <1>1, AuthorityInvariance, PTL

\* The lost update of a revocation takes no mandate over its ceilings.
THEOREM CeilingsHoldUnderRevocation == AuthoritySpec => []MandateCeilingsHold
<1>1. AInv => MandateCeilingsHold
  BY DEF AInv, GrantsFit, MandateCeilingsHold
<1> QED
  BY <1>1, AuthorityInvariance, PTL

\* Once a revocation is answered nothing more is booked under its mandate, which stays
\* revoked: neither a confirm under way nor another save brings it back.
THEOREM RevocationsAreFinal == AuthoritySpec => RevocationIsFinal
<1>1. ASSUME AInv, [AuthorityNext]_allVars, NEW m \in Mandates, RevokedFor(m)
      PROVE  BookedUnder(m)' = BookedUnder(m) /\ mandates'[m].status = "revoked"
  <2>1. m \in granted /\ mandates[m].status = "revoked"
    BY <1>1 DEF RevokedFor, AInv, ConsolesFit, ConsoleFits
  <2>2. Succeeds(mandates[m], mandates'[m]) /\ mandates'[m] \in MandateRow
    BY <1>1, <2>1, RowKeeps, CoreStep DEF IInv, TypeOK
  <2>3. mandates'[m].status = "revoked"
    BY <2>1, <2>2 DEF Succeeds, MandateRow, MandateStatus
  <2>4. \A r \in Requests : ConfirmWrite(r) => call[r].mandate # m
    BY <1>1, <2>1, SpenderFacts
  <2> QED
    BY <1>1, <2>3, <2>4, SpentMoves
<1>2. AInv /\ [AuthorityNext]_allVars =>
        [\A m \in Mandates : RevokedFor(m) =>
           /\ BookedUnder(m)' = BookedUnder(m)
           /\ mandates'[m].status = "revoked"]_allVars
  BY <1>1
<1> QED
  BY <1>2, AuthorityInvariance, PTL DEF AuthoritySpec, RevocationIsFinal

\* A confirm that was refused or denied leaves nothing behind, and one that the gate
\* denied is logged so, also when the mandate it names is granted, previewed or revoked
\* while it runs.
THEOREM RefusalsLeaveNothingMeanwhile == AuthoritySpec => []RefusedConfirmLeavesNothing
<1>1. AuthorityInit => KInv
  BY KeysInitial DEF AuthorityInit
<1>2. ASSUME AInv, KInv, [AuthorityNext]_allVars PROVE KInv'
  <2>1. IInv'
    BY <1>2, CoreStep
  <2>2. CASE [AnyNext]_vars
    BY <1>2, <2>2, KeysInductive
  <2>3. CASE UNCHANGED <<ledger, keys, decisions, pc, reply, locals>>
    <3>1. /\ UNCHANGED <<reservations, payments, keys, decisions, pc, reply, call>>
          /\ LInv /\ KeysFit /\ AnswersFit /\ RowsFit /\ OutcomesFit
          /\ StoredSuccessIsReal /\ KeptFit /\ DenialsFit
      BY <1>2, <2>3 DEF KInv, ledger, locals
    <3>2. LInv' /\ AnswersFit'
      BY <2>1, <3>1 DEF LInv, PaidInFull, AnswersFit, AnswerFits
    <3>3. KeysFit'
      BY <3>1 DEF KeysFit, KeyExecutesOnce, Executing, Keyed
    <3>4. RowsFit' /\ OutcomesFit'
      BY <3>1 DEF RowsFit, Executing, Keyed, OwnRow, DoomedRow, OutcomesFit
    <3>5. StoredSuccessIsReal' /\ KeptFit' /\ DenialsFit'
      BY <3>1 DEF StoredSuccessIsReal, KeptFit, Keyed, DenialsFit
    <3> QED
      BY <3>2, <3>3, <3>4, <3>5 DEF KInv
  <2> QED
    BY <1>2, <2>2, <2>3, Sides DEF allVars
<1>3. KInv => RefusedConfirmLeavesNothing
  BY AnswersRefuse
<1> QED
  BY <1>1, <1>2, <1>3, AuthorityInvariance, PTL DEF AuthoritySpec
================================================================================
