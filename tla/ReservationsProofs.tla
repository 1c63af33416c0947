-------------------------- MODULE ReservationsProofs --------------------------
(***************************************************************************)
(* Theorems about Reservations, for every set of users, seats, requests    *)
(* and calls, every price list, and any number of faults; and that it      *)
(* implements BookingLedger.                                               *)
(***************************************************************************)
EXTENDS LedgerRefinement, TLAPS

\* Next, with any call that a request body may be: compositions that send calls of
\* their own, and Next itself, take no other step.
AnyNext ==
  \/ \E r \in Requests : \/ \E c \in Call : Arrive(r, c)
                         \/ Handle(r) \/ Fault(r) \/ AnswerLost(r) \/ Crash(r)
  \/ Environment
  \/ Rest

LEMMA SpecIsAny == Spec => Init /\ [][AnyNext]_vars
<1>1. [Next]_vars => [AnyNext]_vars
  BY ConstantsAssumption DEF Next, AnyNext
<1> QED
  BY <1>1, PTL DEF Spec

\* What a request body carries, by its operation.
LEMMA CallTypes ==
  ASSUME NEW c \in Call
  PROVE  /\ c.op \in {"book", "hold", "confirm", "cancel"}
         /\ c.user \in Users
         /\ c.op # "cancel" => c.table \in Tables /\ c.slot \in Slots
         /\ c.op = "book" => c.strategy \in Strategies
         /\ c.op = "confirm" => /\ c.hold \in Requests
                                /\ c.key \in Keys \cup {Nil}
                                /\ c.mandate \in Mandates \cup {Nil}
         /\ c.op = "cancel" => c.reservation \in Requests
<1>1. CASE c \in [op: {"book"}, user: Users, table: Tables, slot: Slots,
                  strategy: Strategies]
  BY <1>1
<1>2. CASE c \in [op: {"hold"}, user: Users, table: Tables, slot: Slots]
  BY <1>2
<1>3. CASE c \in [op: {"confirm"}, user: Users, table: Tables, slot: Slots,
                  hold: Requests, key: Keys \cup {Nil},
                  mandate: Mandates \cup {Nil}]
  BY <1>3
<1>4. CASE c \in [op: {"cancel"}, user: Users, reservation: Requests]
  BY <1>4
<1> QED
  BY <1>1, <1>2, <1>3, <1>4 DEF Call

\* The specification starts in the types.
LEMMA InitType == Init => TypeOK /\ RequestsFit
<1> SUFFICES ASSUME Init PROVE TypeOK /\ RequestsFit
  OBVIOUS
<1>1. TypeOK
  BY ConstantsAssumption DEF Init, TypeOK, Unanswered, Reply, Statuses
<1>2. RequestsFit
  BY DEF Init, RequestsFit, StepFitsCall, BookSteps, HoldSteps, KeySteps,
         ConfirmSteps, CancelSteps
<1> QED
  BY <1>1, <1>2

\* A rejection is a well-typed answer, sent or stored.
LEMMA RejectType ==
  ASSUME TypeOK, NEW r \in Requests, NEW status \in Statuses, Reject(r, status)
  PROVE  /\ reply' \in [Requests -> Reply]
         /\ pc' \in [Requests -> {"idle"} \cup Steps \cup Ended]
         /\ reply' = [reply EXCEPT ![r] = [status |-> status, id |-> Nil]]
         /\ pc' = [pc EXCEPT ![r] = IF Keyed(r) THEN "storeOutcome" ELSE "done"]
BY DEF TypeOK, Reject, Answer, Goto, Reply, Steps, Ended

\* What is left alone keeps its type.
LEMMA CheckType ==
  ASSUME TypeOK, NEW r \in Requests, NEW step, NEW refusal \in Statuses,
         NEW next \in Steps, Check(r, step, refusal, next)
  PROVE  TypeOK'
<1>1. /\ reply' \in [Requests -> Reply]
      /\ pc' \in [Requests -> {"idle"} \cup Steps \cup Ended]
  <2>1. CASE refusal = "none"
    BY <2>1 DEF Check, TypeOK, Goto
  <2>2. CASE refusal # "none"
    BY <2>2, RejectType DEF Check
  <2> QED
    BY <2>1, <2>2
<1>2. UNCHANGED <<shared, locals, world>>
  BY DEF Check
<1> QED
  BY <1>1, <1>2 DEF TypeOK, shared, ledger, slotRows, gate, redis, locals, world

\* The two ways a request stops are well typed.
LEMMA BreakType ==
  ASSUME TypeOK, NEW r \in Requests, Fault(r) \/ Crash(r)
  PROVE  TypeOK'
<1>1. /\ reply' \in [Requests -> Reply]
      /\ pc' \in [Requests -> {"idle"} \cup Steps \cup Ended]
  <2>1. CASE Fault(r)
    <3>1. PICK step \in {"dropKey", "done"} : pc' = [pc EXCEPT ![r] = step]
      BY <2>1 DEF Fault, Goto
    <3>2. reply' = [reply EXCEPT ![r] = [status |-> "error", id |-> Nil]]
      BY <2>1 DEF Fault, Answer
    <3> QED
      BY <3>1, <3>2 DEF TypeOK, Reply, Statuses, Steps, Ended
  <2>2. CASE Crash(r)
    BY <2>2 DEF TypeOK, Crash, Goto, Ended
  <2> QED
    BY <2>1, <2>2
<1>2. slotLock' \in [Slots -> Requests \cup {Nil}]
  BY DEF TypeOK, Fault, Crash, Breaks, ReleaseLocks
<1>3. faults' \in 0..MaxFaults
  BY ConstantsAssumption DEF TypeOK, Fault, Crash, Breaks
<1>4. UNCHANGED <<ledger, keys, version, gate, redis, locals, now>>
  BY DEF Fault, Crash, Breaks
<1> QED
  BY <1>1, <1>2, <1>3, <1>4 DEF TypeOK, ledger, gate, redis, locals

\* The rows of a booking are well typed, and its charge is covered.
LEMMA WriteType ==
  ASSUME TypeOK, NEW r \in Requests, NEW c \in Call, c.op # "cancel",
         CanPay(c), WriteBookingAndCharge(r, c)
  PROVE  /\ reservations' \in [Requests -> ReservationRow \cup {Nil}]
         /\ payments' \in [Requests -> Nat \cup {Nil}]
         /\ balance' \in [Users -> Nat]
         /\ webhookJobs' \subseteq Requests \X {"created", "cancelled"}
<1>1. c.user \in Users /\ c.table \in Tables /\ c.slot \in Slots
  BY CallTypes
<1>2. SlotPrice[c.slot] \in Nat
  BY <1>1, ConstantsAssumption
<1>3. reservations' \in [Requests -> ReservationRow \cup {Nil}]
  BY <1>1 DEF TypeOK, WriteBookingAndCharge, ReservationRow
<1>4. payments' \in [Requests -> Nat \cup {Nil}]
  BY <1>2 DEF TypeOK, WriteBookingAndCharge
<1>5. balance' \in [Users -> Nat]
  <2>1. CASE Provider = "wallet"
    <3>1. balance[c.user] \in Nat /\ balance[c.user] >= SlotPrice[c.slot]
      BY <1>1, <2>1 DEF TypeOK, CanPay
    <3>2. balance[c.user] - SlotPrice[c.slot] \in Nat
      BY <3>1, <1>2
    <3> QED
      BY <2>1, <3>2 DEF TypeOK, WriteBookingAndCharge
  <2>2. CASE Provider # "wallet"
    BY <2>2 DEF TypeOK, WriteBookingAndCharge
  <2> QED
    BY <2>1, <2>2
<1>6. webhookJobs' \subseteq Requests \X {"created", "cancelled"}
  BY DEF TypeOK, WriteBookingAndCharge
<1> QED
  BY <1>3, <1>4, <1>5, <1>6

\* A direct booking's transaction keeps the types.
LEMMA DirectWriteType ==
  ASSUME TypeOK, RequestsFit, NEW r \in Requests, pc[r] \in BookSteps, DirectWrite(r),
         slotLock' \in [Slots -> Requests \cup {Nil}]
  PROVE  TypeOK'
<1>1. call[r] \in Call /\ call[r].op = "book"
  BY DEF RequestsFit, StepFitsCall, BookSteps
<1>2. UNCHANGED <<notificationJobs, keys, version, gate, redis, locals, world>>
  BY DEF DirectWrite
<1>3. CASE WriteRefusal(call[r]) = "none"
  <2>1. /\ CanPay(call[r])
        /\ WriteBookingAndCharge(r, call[r])
    BY <1>3 DEF WriteRefusal, DirectWrite
  <2>2. reply' \in [Requests -> Reply]
    BY <1>3 DEF TypeOK, DirectWrite, Answer, Reply, Statuses
  <2>3. pc' \in [Requests -> {"idle"} \cup Steps \cup Ended]
    BY <1>3 DEF TypeOK, DirectWrite, Goto, Ended
  <2>4. /\ reservations' \in [Requests -> ReservationRow \cup {Nil}]
        /\ payments' \in [Requests -> Nat \cup {Nil}]
        /\ balance' \in [Users -> Nat]
        /\ webhookJobs' \subseteq Requests \X {"created", "cancelled"}
    BY <1>1, <2>1, WriteType
  <2> QED
    BY <1>2, <2>2, <2>3, <2>4 DEF TypeOK, gate, redis, locals, world
<1>4. CASE WriteRefusal(call[r]) # "none"
  <2>1. /\ WriteRefusal(call[r]) \in Statuses
        /\ Reject(r, WriteRefusal(call[r]))
        /\ UNCHANGED <<balance, reservations, payments, webhookJobs>>
    BY <1>4 DEF WriteRefusal, TakenRefusal, Statuses, DirectWrite
  <2>2. /\ reply' \in [Requests -> Reply]
        /\ pc' \in [Requests -> {"idle"} \cup Steps \cup Ended]
    BY <2>1, RejectType
  <2> QED
    BY <1>2, <2>1, <2>2 DEF TypeOK, gate, redis, locals, world
<1> QED
  BY <1>3, <1>4

\* Every refusal is a status.
LEMMA RefusalTypes ==
  ASSUME NEW c
  PROVE  /\ BookRefusal(c) \in Statuses /\ WindowRefusal(c) \in Statuses
         /\ HoldRefusal(c) \in Statuses /\ TakenRefusal(c) \in Statuses
         /\ ConfirmRefusal(c) \in Statuses /\ CancelRefusal(c) \in Statuses
         /\ WriteRefusal(c) \in Statuses
BY DEF BookRefusal, WindowRefusal, HoldRefusal, TakenRefusal, ConfirmRefusal,
       CancelRefusal, WriteRefusal, Statuses

\* The steps of book keep the types.
LEMMA BookType ==
  ASSUME TypeOK, RequestsFit, NEW r \in Requests, BookStep(r)
  PROVE  TypeOK'
<1>1. CASE BookChecks(r)
  <2>1. call[r] \in Call /\ call[r].op = "book"
    BY <1>1 DEF BookChecks, Check, At, RequestsFit, StepFitsCall, BookSteps
  <2>2. StrategyStep[call[r].strategy] \in Steps
    BY <2>1, CallTypes DEF StrategyStep, Strategies, Steps
  <2> QED
    BY <1>1, <2>2, CheckType, RefusalTypes DEF BookChecks
<1>2. CASE BookInTransaction(r)
  <2>1. pc[r] \in BookSteps /\ slotLock' \in [Slots -> Requests \cup {Nil}]
    BY <1>2 DEF BookInTransaction, At, BookSteps, TypeOK
  <2> QED
    BY <1>2, <2>1, DirectWriteType DEF BookInTransaction
<1>3. CASE LockSlot(r)
  <2>1. call[r].slot \in Slots
    BY <1>3, CallTypes DEF LockSlot, At, RequestsFit, StepFitsCall, BookSteps
  <2>2. slotLock' \in [Slots -> Requests \cup {Nil}]
    BY <1>3, <2>1 DEF LockSlot, TypeOK
  <2>3. /\ reply' \in [Requests -> Reply]
        /\ pc' \in [Requests -> {"idle"} \cup Steps \cup Ended]
    <3>1. CASE Taken(call[r].table, call[r].slot)
      <4>1. Reject(r, "taken") /\ "taken" \in Statuses
        BY <1>3, <3>1 DEF LockSlot, Statuses
      <4> QED
        BY <4>1, RejectType
    <3>2. CASE ~ Taken(call[r].table, call[r].slot)
      BY <1>3, <3>2 DEF LockSlot, Goto, TypeOK, Steps
    <3> QED
      BY <3>1, <3>2
  <2>4. UNCHANGED <<ledger, keys, version, gate, redis, locals, world>>
    BY <1>3 DEF LockSlot
  <2> QED
    BY <2>2, <2>3, <2>4 DEF TypeOK, ledger, gate, redis, locals, world
<1>4. CASE LockedTransaction(r)
  <2>1. pc[r] \in BookSteps /\ slotLock' \in [Slots -> Requests \cup {Nil}]
    BY <1>4 DEF LockedTransaction, At, BookSteps, ReleaseLocks, TypeOK
  <2> QED
    BY <1>4, <2>1, DirectWriteType DEF LockedTransaction
<1>5. CASE ReadVersion(r)
  <2>1. call[r].slot \in Slots
    BY <1>5, CallTypes DEF ReadVersion, At, RequestsFit, StepFitsCall, BookSteps
  <2>2. seenVersion' \in [Requests -> Nat]
    BY <1>5, <2>1 DEF ReadVersion, TypeOK
  <2>3. pc' \in [Requests -> {"idle"} \cup Steps \cup Ended]
    BY <1>5 DEF ReadVersion, Goto, TypeOK, Steps
  <2>4. UNCHANGED <<shared, reply, call, attempt, world>>
    BY <1>5 DEF ReadVersion
  <2> QED
    BY <2>2, <2>3, <2>4 DEF TypeOK, shared, ledger, slotRows, gate, redis, world
<1>6. CASE ReadExisting(r)
  BY <1>6, CheckType, RefusalTypes DEF ReadExisting, Steps
<1>7. CASE SwapWon(r)
  <2>1. call[r].slot \in Slots
    BY <1>7, CallTypes DEF SwapWon, At, RequestsFit, StepFitsCall, BookSteps
  <2>2. version' \in [Slots -> Nat]
    BY <1>7, <2>1 DEF SwapWon, TypeOK
  <2>3. pc' \in [Requests -> {"idle"} \cup Steps \cup Ended]
    BY <1>7 DEF SwapWon, Goto, TypeOK, Steps
  <2>4. UNCHANGED <<ledger, keys, slotLock, gate, redis, reply, locals, world>>
    BY <1>7 DEF SwapWon
  <2> QED
    BY <2>2, <2>3, <2>4 DEF TypeOK, ledger, gate, redis, locals, world
<1>8. CASE SwapLost(r)
  <2>1. attempt' \in [Requests -> Nat]
    BY <1>8 DEF SwapLost, TypeOK
  <2>2. /\ reply' \in [Requests -> Reply]
        /\ pc' \in [Requests -> {"idle"} \cup Steps \cup Ended]
    <3>1. CASE attempt'[r] < MaxAttempts
      BY <1>8, <3>1 DEF SwapLost, Goto, TypeOK, Steps
    <3>2. CASE ~ (attempt'[r] < MaxAttempts)
      <4>1. Reject(r, "taken") /\ "taken" \in Statuses
        BY <1>8, <3>2 DEF SwapLost, Statuses
      <4> QED
        BY <4>1, RejectType
    <3> QED
      BY <3>1, <3>2
  <2>3. UNCHANGED <<shared, call, seenVersion, world>>
    BY <1>8 DEF SwapLost
  <2> QED
    BY <2>1, <2>2, <2>3 DEF TypeOK, shared, ledger, slotRows, gate, redis, world
<1> QED
  BY <1>1, <1>2, <1>3, <1>4, <1>5, <1>6, <1>7, <1>8 DEF BookStep

\* The steps of hold keep the types.
LEMMA HoldType ==
  ASSUME TypeOK, RequestsFit, NEW r \in Requests, HoldStep(r)
  PROVE  TypeOK'
<1>1. CASE HoldChecks(r)
  BY <1>1, CheckType, RefusalTypes DEF HoldChecks, Steps
<1>2. CASE HoldWindow(r)
  BY <1>2, CheckType, RefusalTypes DEF HoldWindow, Steps
<1>3. CASE AcquireHold(r)
  <2> DEFINE c == call[r]
             current == holds[SeatOf(c)]
  <2>1. c \in Call /\ c.user \in Users /\ SeatOf(c) \in Tables \X Slots
    BY <1>3, CallTypes
       DEF AcquireHold, At, RequestsFit, StepFitsCall, HoldSteps, SeatOf
  <2>2. current = Nil \/ current \in HoldRow
    BY <2>1 DEF TypeOK
  <2>3. UNCHANGED <<ledger, keys, slotRows, gate, holdMeta, published, locals, world>>
    BY <1>3 DEF AcquireHold
  <2>4. CASE current # Nil /\ current.user # c.user
    <3>1. Reject(r, "heldByOther") /\ "heldByOther" \in Statuses /\ UNCHANGED holds
      BY <1>3, <2>4 DEF AcquireHold, Statuses
    <3>2. /\ reply' \in [Requests -> Reply]
          /\ pc' \in [Requests -> {"idle"} \cup Steps \cup Ended]
      BY <3>1, RejectType
    <3> QED
      BY <2>3, <3>1, <3>2 DEF TypeOK, ledger, slotRows, gate, locals, world
  <2>5. CASE ~ (current # Nil /\ current.user # c.user)
    <3>1. [id |-> r, user |-> c.user] \in HoldRow
      BY <2>1 DEF HoldRow
    <3>2. holds' = [holds EXCEPT ![SeatOf(c)] =
                     IF current = Nil THEN [id |-> r, user |-> c.user] ELSE current]
      BY <1>3, <2>5 DEF AcquireHold
    <3>3. holds' \in [Tables \X Slots -> HoldRow \cup {Nil}]
      BY <2>1, <2>2, <3>1, <3>2 DEF TypeOK
    <3>4. PICK h \in Requests : reply' = [reply EXCEPT ![r] = [status |-> "held", id |-> h]]
      BY <1>3, <2>2, <2>5 DEF AcquireHold, Answer, HoldRow
    <3>5. reply' \in [Requests -> Reply]
      BY <3>4 DEF TypeOK, Reply, Statuses
    <3>6. pc' \in [Requests -> {"idle"} \cup Steps \cup Ended]
      BY <1>3, <2>5 DEF AcquireHold, Goto, TypeOK, Steps
    <3> QED
      BY <2>3, <3>3, <3>5, <3>6 DEF TypeOK, ledger, slotRows, gate, locals, world
  <2> QED
    BY <2>4, <2>5
<1>4. CASE WriteMeta(r)
  <2>1. holdMeta' \subseteq Requests
    BY <1>4 DEF WriteMeta, At, RequestsFit, StepFitsCall, TypeOK
  <2>2. pc' \in [Requests -> {"idle"} \cup Steps \cup Ended]
    BY <1>4 DEF WriteMeta, Goto, TypeOK, Steps
  <2>3. UNCHANGED <<ledger, keys, slotRows, gate, holds, published, reply, locals, world>>
    BY <1>4 DEF WriteMeta
  <2> QED
    BY <2>1, <2>2, <2>3 DEF TypeOK, ledger, slotRows, gate, locals, world
<1>5. CASE ReuseTooLate(r)
  <2>1. /\ Reject(r, "error") /\ "error" \in Statuses
        /\ UNCHANGED <<shared, locals, world>>
    BY <1>5 DEF ReuseTooLate, Statuses
  <2>2. /\ reply' \in [Requests -> Reply]
        /\ pc' \in [Requests -> {"idle"} \cup Steps \cup Ended]
    BY <2>1, RejectType
  <2> QED
    BY <2>1, <2>2 DEF TypeOK, shared, ledger, slotRows, gate, redis, locals, world
<1> QED
  BY <1>1, <1>2, <1>3, <1>4, <1>5 DEF HoldStep

\* Inside the confirm handler the request is a confirm call; at the key steps it
\* carries a key, and so names a row.
LEMMA ConfirmCall ==
  ASSUME RequestsFit, NEW r \in Requests, pc[r] \in ConfirmSteps
  PROVE  /\ call[r] \in Call /\ call[r].op = "confirm"
         /\ pc[r] \in KeySteps => KeyOf(call[r]) \in Users \X Keys
         /\ HashOf(call[r]) \in Tables \X Slots \X Requests
         /\ SeatOf(call[r]) \in Tables \X Slots
<1>1. call[r] \in Call /\ call[r].op = "confirm"
  BY DEF RequestsFit, StepFitsCall, ConfirmSteps, KeySteps
<1>2. pc[r] \in KeySteps => call[r].key # Nil
  BY DEF RequestsFit, StepFitsCall
<1> QED
  BY <1>1, <1>2, CallTypes DEF KeyOf, HashOf, SeatOf

\* A mandate row stays one when its consumption is recorded.
LEMMA ConsumeType ==
  ASSUME TypeOK, NEW c \in Call, c.op = "confirm"
  PROVE  MandatesAfter(c) \in [Mandates -> MandateRow]
<1>1. CASE c.mandate # Nil
  <2> DEFINE m == mandates[c.mandate]
  <2>1. m \in MandateRow
    BY <1>1, CallTypes DEF TypeOK
  <2>2. CheckOf(c).amount \in Nat
    BY CallTypes, ConstantsAssumption DEF CheckOf
  <2>3. /\ m.consumedMinor + CheckOf(c).amount \in Nat
        /\ m.consumedBookings + 1 \in Nat
    BY <2>1, <2>2 DEF MandateRow
  <2>4. Consume(m, CheckOf(c)) \in MandateRow
    BY <2>1, <2>3 DEF Consume, MandateRow
  <2> QED
    BY <2>4 DEF MandatesAfter, TypeOK
<1>2. CASE c.mandate = Nil
  BY <1>2 DEF MandatesAfter, TypeOK
<1> QED
  BY <1>1, <1>2

\* The steps of confirmHold keep the types.
LEMMA ConfirmType ==
  ASSUME TypeOK, RequestsFit, NEW r \in Requests, ConfirmStep(r)
  PROVE  TypeOK'
<1>1. CASE ClaimKey(r)
  <2>1. KeyOf(call[r]) \in Users \X Keys /\ HashOf(call[r]) \in Tables \X Slots \X Requests
    BY <1>1, ConfirmCall DEF ClaimKey, At, ConfirmSteps, KeySteps
  <2>2. [requestHash |-> HashOf(call[r]), outcome |-> Nil] \in KeyRow
    BY <2>1 DEF KeyRow
  <2>3. keys' \in [Users \X Keys -> KeyRow \cup {Nil}]
    BY <1>1, <2>1, <2>2 DEF ClaimKey, TypeOK
  <2>4. pc' \in [Requests -> {"idle"} \cup Steps \cup Ended]
    BY <1>1 DEF ClaimKey, Goto, TypeOK, Steps
  <2>5. UNCHANGED <<ledger, slotRows, gate, redis, reply, locals, world>>
    BY <1>1 DEF ClaimKey
  <2> QED
    BY <2>3, <2>4, <2>5 DEF TypeOK, ledger, slotRows, gate, redis, locals, world
<1>2. CASE LookupKey(r)
  <2> DEFINE row == keys[KeyOf(call[r])]
  <2>1. KeyOf(call[r]) \in Users \X Keys
    BY <1>2, ConfirmCall DEF LookupKey, At, ConfirmSteps, KeySteps
  <2>2. row = Nil \/ row \in KeyRow
    BY <2>1 DEF TypeOK
  <2>3. Replay(row, call[r]) \in Reply
    <3>1. CASE row = Nil
      BY <3>1 DEF Replay, Reply, Statuses
    <3>2. CASE row # Nil /\ row.requestHash # HashOf(call[r])
      BY <3>2 DEF Replay, Reply, Statuses
    <3>3. CASE row # Nil /\ row.requestHash = HashOf(call[r]) /\ row.outcome = Nil
      BY <3>3 DEF Replay, Reply, Statuses
    <3>4. CASE row # Nil /\ row.requestHash = HashOf(call[r]) /\ row.outcome # Nil
      <4>1. Replay(row, call[r]) = row.outcome
        BY <3>4 DEF Replay
      <4> QED
        BY <3>4, <4>1, <2>2 DEF KeyRow
    <3> QED
      BY <3>1, <3>2, <3>3, <3>4
  <2>4. reply' \in [Requests -> Reply]
    BY <1>2, <2>3 DEF LookupKey, TypeOK
  <2>5. pc' \in [Requests -> {"idle"} \cup Steps \cup Ended]
    BY <1>2 DEF LookupKey, Goto, TypeOK, Ended
  <2>6. UNCHANGED <<shared, locals, world>>
    BY <1>2 DEF LookupKey
  <2> QED
    BY <2>4, <2>5, <2>6 DEF TypeOK, shared, ledger, slotRows, gate, redis, locals, world
<1>3. CASE ConfirmChecks(r)
  BY <1>3, CheckType, RefusalTypes DEF ConfirmChecks, Steps
<1>4. CASE ConsumeHold(r)
  <2>1. holds' \in [Tables \X Slots -> HoldRow \cup {Nil}]
    BY <1>4 DEF ConsumeHold, TypeOK
  <2>2. /\ reply' \in [Requests -> Reply]
        /\ pc' \in [Requests -> {"idle"} \cup Steps \cup Ended]
    <3>1. CASE Reject(r, "gone")
      <4>1. "gone" \in Statuses
        BY DEF Statuses
      <4> QED
        BY <3>1, <4>1, RejectType
    <3>2. CASE Goto(r, "confirmTx") /\ UNCHANGED reply
      BY <3>2 DEF Goto, TypeOK, Steps
    <3> QED
      BY <1>4, <3>1, <3>2 DEF ConsumeHold
  <2>3. UNCHANGED <<ledger, keys, slotRows, gate, holdMeta, published, locals, world>>
    BY <1>4 DEF ConsumeHold
  <2> QED
    BY <2>1, <2>2, <2>3 DEF TypeOK, ledger, slotRows, gate, locals, world
<1>5. CASE ConfirmWrite(r)
  <2>1. call[r] \in Call /\ call[r].op = "confirm"
    BY <1>5, ConfirmCall DEF ConfirmWrite, At, ConfirmSteps
  <2>2. CanPay(call[r]) /\ WriteBookingAndCharge(r, call[r])
    BY <1>5 DEF ConfirmWrite, WriteRefusal
  <2>3. /\ reservations' \in [Requests -> ReservationRow \cup {Nil}]
        /\ payments' \in [Requests -> Nat \cup {Nil}]
        /\ balance' \in [Users -> Nat]
        /\ webhookJobs' \subseteq Requests \X {"created", "cancelled"}
    BY <2>1, <2>2, WriteType
  <2>4. mandates' \in [Mandates -> MandateRow]
    BY <1>5, <2>1, ConsumeType DEF ConfirmWrite
  <2>5. decisions' \subseteq Requests \X {"AUTHORIZE", "CONFIRM"} \X {"ALLOW", "DENY"}
    BY <1>5 DEF ConfirmWrite, TypeOK
  <2>6. notificationJobs' \subseteq Requests
    BY <1>5 DEF ConfirmWrite, TypeOK
  <2>7. reply' \in [Requests -> Reply]
    BY <1>5 DEF ConfirmWrite, Answer, TypeOK, Reply, Statuses
  <2>8. pc' \in [Requests -> {"idle"} \cup Steps \cup Ended]
    BY <1>5 DEF ConfirmWrite, Goto, TypeOK, Steps
  <2>9. UNCHANGED <<keys, slotRows, redis, locals, world>>
    BY <1>5 DEF ConfirmWrite
  <2> QED
    BY <2>3, <2>4, <2>5, <2>6, <2>7, <2>8, <2>9 DEF TypeOK, slotRows, redis, locals, world
<1>6. CASE ConfirmRollback(r)
  <2>1. PICK status \in Statuses : Reject(r, status)
    BY <1>6, RefusalTypes DEF ConfirmRollback, Statuses
  <2>2. /\ reply' \in [Requests -> Reply]
        /\ pc' \in [Requests -> {"idle"} \cup Steps \cup Ended]
    BY <2>1, RejectType
  <2>3. decisions' \subseteq Requests \X {"AUTHORIZE", "CONFIRM"} \X {"ALLOW", "DENY"}
    BY <1>6 DEF ConfirmRollback, TypeOK
  <2>4. UNCHANGED <<ledger, keys, slotRows, mandates, redis, locals, world>>
    BY <1>6 DEF ConfirmRollback
  <2> QED
    BY <2>2, <2>3, <2>4 DEF TypeOK, ledger, slotRows, redis, locals, world
<1>7. CASE StoreOutcome(r)
  <2> DEFINE row == keys[KeyOf(call[r])]
  <2>1. KeyOf(call[r]) \in Users \X Keys
    BY <1>7, ConfirmCall DEF StoreOutcome, At, ConfirmSteps, KeySteps
  <2>2. Stored(reply[r]) \in Reply
    BY DEF TypeOK, Stored, Reply, Statuses
  <2>3. row = Nil \/ [row EXCEPT !.outcome = Stored(reply[r])] \in KeyRow
    BY <2>1, <2>2 DEF TypeOK, KeyRow
  <2>4. keys' \in [Users \X Keys -> KeyRow \cup {Nil}]
    BY <1>7, <2>1, <2>3 DEF StoreOutcome, TypeOK
  <2>5. pc' \in [Requests -> {"idle"} \cup Steps \cup Ended]
    BY <1>7 DEF StoreOutcome, Goto, TypeOK, Ended
  <2>6. UNCHANGED <<ledger, slotRows, gate, redis, reply, locals, world>>
    BY <1>7 DEF StoreOutcome
  <2> QED
    BY <2>4, <2>5, <2>6 DEF TypeOK, ledger, slotRows, gate, redis, locals, world
<1>8. CASE DropKey(r)
  <2>1. keys' \in [Users \X Keys -> KeyRow \cup {Nil}]
    BY <1>8 DEF DropKey, TypeOK
  <2>2. pc' \in [Requests -> {"idle"} \cup Steps \cup Ended]
    BY <1>8 DEF DropKey, Goto, TypeOK, Ended
  <2>3. UNCHANGED <<ledger, slotRows, gate, redis, reply, locals, world>>
    BY <1>8 DEF DropKey
  <2> QED
    BY <2>1, <2>2, <2>3 DEF TypeOK, ledger, slotRows, gate, redis, locals, world
<1> QED
  BY <1>1, <1>2, <1>3, <1>4, <1>5, <1>6, <1>7, <1>8 DEF ConfirmStep

\* Wherever an acknowledgement is lost, the request hears an error and ends, or drops
\* its key first; and but for a booking nothing in the ledger moves.
LEMMA LostShape ==
  ASSUME NEW r \in Requests, AnswerLost(r)
  PROVE  /\ Breaks(r) /\ Answer(r, "error", Nil)
         /\ Goto(r, "done") \/ (Keyed(r) /\ Goto(r, "dropKey"))
         /\ UNCHANGED <<notificationJobs, version, mandates, holds, holdMeta, locals, now>>
         /\ LostCommit(r) \/ UNCHANGED ledger
BY DEF AnswerLost, LostClaim, LostCommit, LostDenial, LostPublish, LostStore, Breaks, InTry,
       ledger, gate, redis

\* A lost acknowledgement keeps the types.
LEMMA LostType ==
  ASSUME TypeOK, RequestsFit, NEW r \in Requests, AnswerLost(r)
  PROVE  TypeOK'
<1>1. reply' \in [Requests -> Reply]
  <2>1. reply' = [reply EXCEPT ![r] = [status |-> "error", id |-> Nil]]
    BY LostShape DEF Answer
  <2> QED
    BY <2>1 DEF TypeOK, Reply, Statuses
<1>2. pc' \in [Requests -> {"idle"} \cup Steps \cup Ended]
  <2>1. PICK step \in {"dropKey", "done"} : pc' = [pc EXCEPT ![r] = step]
    BY LostShape DEF Goto
  <2> QED
    BY <2>1 DEF TypeOK, Steps, Ended
<1>3. /\ slotLock' \in [Slots -> Requests \cup {Nil}]
      /\ faults' \in 0..MaxFaults
      /\ UNCHANGED <<notificationJobs, version, mandates, holds, holdMeta, locals, now>>
  <2>1. Breaks(r)
    BY LostShape
  <2> QED
    BY <2>1, LostShape, ConstantsAssumption DEF Breaks, ReleaseLocks, TypeOK
<1>4. keys' \in [Users \X Keys -> KeyRow \cup {Nil}]
  <2>1. CASE LostClaim(r)
    <3>1. /\ KeyOf(call[r]) \in Users \X Keys
          /\ HashOf(call[r]) \in Tables \X Slots \X Requests
      BY <2>1, ConfirmCall DEF LostClaim, At, ConfirmSteps, KeySteps
    <3>2. [requestHash |-> HashOf(call[r]), outcome |-> Nil] \in KeyRow
      BY <3>1 DEF KeyRow
    <3> QED
      BY <2>1, <3>1, <3>2 DEF LostClaim, TypeOK
  <2>2. CASE LostStore(r)
    <3> DEFINE row == keys[KeyOf(call[r])]
    <3>1. KeyOf(call[r]) \in Users \X Keys
      BY <2>2, ConfirmCall DEF LostStore, At, ConfirmSteps, KeySteps
    <3>2. Stored(reply[r]) \in Reply
      BY DEF TypeOK, Stored, Reply, Statuses
    <3>3. row = Nil \/ [row EXCEPT !.outcome = Stored(reply[r])] \in KeyRow
      BY <3>1, <3>2 DEF TypeOK, KeyRow
    <3> QED
      BY <2>2, <3>1, <3>3 DEF LostStore, TypeOK
  <2>3. CASE LostCommit(r) \/ LostDenial(r) \/ LostPublish(r)
    BY <2>3 DEF LostCommit, LostDenial, LostPublish, TypeOK
  <2> QED
    BY <2>1, <2>2, <2>3 DEF AnswerLost
<1>5. /\ decisions' \subseteq Requests \X {"AUTHORIZE", "CONFIRM"} \X {"ALLOW", "DENY"}
      /\ published' \subseteq Requests
  BY DEF AnswerLost, LostClaim, LostCommit, LostDenial, LostPublish, LostStore, TypeOK, gate,
         redis
<1>6. /\ reservations' \in [Requests -> ReservationRow \cup {Nil}]
      /\ payments' \in [Requests -> Nat \cup {Nil}]
      /\ balance' \in [Users -> Nat]
      /\ webhookJobs' \subseteq Requests \X {"created", "cancelled"}
  <2>1. CASE LostCommit(r)
    <3>1. call[r] \in Call /\ call[r].op = "book"
      BY <2>1 DEF LostCommit, RequestsFit, StepFitsCall, BookSteps
    <3>2. CanPay(call[r]) /\ WriteBookingAndCharge(r, call[r])
      BY <2>1 DEF LostCommit, WriteRefusal
    <3> QED
      BY <3>1, <3>2, WriteType
  <2>2. CASE UNCHANGED ledger
    BY <2>2 DEF ledger, TypeOK
  <2> QED
    BY <2>1, <2>2, LostShape
<1> QED
  BY <1>1, <1>2, <1>3, <1>4, <1>5, <1>6 DEF TypeOK, locals

\* A cancellation names a reservation.
LEMMA CancelCall ==
  ASSUME RequestsFit, NEW r \in Requests, pc[r] \in CancelSteps
  PROVE  /\ call[r] \in Call /\ call[r].op = "cancel"
         /\ call[r].user \in Users /\ call[r].reservation \in Requests
<1>1. call[r] \in Call /\ call[r].op = "cancel"
  BY DEF RequestsFit, StepFitsCall, CancelSteps
<1> QED
  BY <1>1, CallTypes

\* A refund is an amount: what is cancelled was paid for.
LEMMA CancelType ==
  ASSUME TypeOK, RequestsFit, OutboxMatchesLedger, NEW r \in Requests, CancelStep(r)
  PROVE  TypeOK'
<1>1. CASE CancelChecks(r)
  BY <1>1, CheckType, RefusalTypes DEF CancelChecks, Steps
<1>2. CASE CancelTransaction(r)
  <2> DEFINE o == call[r].reservation
             u == call[r].user
  <2>1. u \in Users /\ o \in Requests
    BY <1>2, CancelCall DEF CancelTransaction, At, CancelSteps
  <2>2. reservations[o] # Nil /\ payments[o] \in Nat
    <3>1. pc[r] = "cancelTx"
      BY <1>2 DEF CancelTransaction, At
    <3>2. reservations[o] # Nil
      BY <3>1 DEF RequestsFit, StepFitsCall
    <3>3. payments[o] # Nil
      BY <2>1, <3>2 DEF OutboxMatchesLedger
    <3> QED
      BY <2>1, <3>2, <3>3 DEF TypeOK
  <2>3. UNCHANGED <<payments, notificationJobs, keys, slotRows, gate, redis, locals,
                    world>>
    BY <1>2 DEF CancelTransaction
  <2>4. CASE <<o, "cancelled">> \in webhookJobs
    <3>1. /\ Reject(r, "error") /\ "error" \in Statuses
          /\ UNCHANGED <<reservations, balance, webhookJobs>>
      BY <1>2, <2>4 DEF CancelTransaction, Statuses
    <3>2. /\ reply' \in [Requests -> Reply]
          /\ pc' \in [Requests -> {"idle"} \cup Steps \cup Ended]
      BY <3>1, RejectType
    <3> QED
      BY <2>3, <3>1, <3>2 DEF TypeOK, slotRows, gate, redis, locals, world
  <2>5. CASE <<o, "cancelled">> \notin webhookJobs
    <3> DEFINE row == reservations[o]
    <3>0. row \in ReservationRow
      BY <2>1, <2>2 DEF TypeOK
    <3> HIDE DEF row
    <3>1. [row EXCEPT !.status = "cancelled"] \in ReservationRow
      BY <3>0 DEF ReservationRow
    <3> USE DEF row
    <3>2. reservations' = [reservations EXCEPT ![o] =
                            [reservations[o] EXCEPT !.status = "cancelled"]]
      BY <1>2, <2>5 DEF CancelTransaction
    <3>3. reservations' \in [Requests -> ReservationRow \cup {Nil}]
      BY <2>1, <3>1, <3>2 DEF TypeOK
    <3>4. balance[u] + payments[o] \in Nat
      BY <2>1, <2>2 DEF TypeOK
    <3>5. balance' \in [Users -> Nat]
      BY <1>2, <2>1, <2>5, <3>4 DEF CancelTransaction, TypeOK
    <3>6. webhookJobs' \subseteq Requests \X {"created", "cancelled"}
      BY <1>2, <2>1, <2>5 DEF CancelTransaction, TypeOK
    <3>7. reply' \in [Requests -> Reply]
      <4>1. reply' = [reply EXCEPT ![r] = [status |-> "cancelled", id |-> o]]
        BY <1>2, <2>5 DEF CancelTransaction, Answer
      <4>2. [status |-> "cancelled", id |-> o] \in Reply
        BY <2>1 DEF Reply, Statuses
      <4> QED
        BY <4>1, <4>2 DEF TypeOK
    <3>8. pc' \in [Requests -> {"idle"} \cup Steps \cup Ended]
      BY <1>2, <2>5 DEF CancelTransaction, Goto, TypeOK, Steps
    <3> QED
      BY <2>3, <3>3, <3>5, <3>6, <3>7, <3>8 DEF TypeOK, slotRows, gate, redis, locals, world
  <2> QED
    BY <2>4, <2>5
<1> QED
  BY <1>1, <1>2 DEF CancelStep

\* Publishing keeps the types.
LEMMA PublishType ==
  ASSUME TypeOK, NEW r \in Requests, Publish(r)
  PROVE  TypeOK'
<1>1. published' \subseteq Requests
  BY DEF Publish, TypeOK
<1>2. PICK step \in {"storeOutcome", "done"} : pc' = [pc EXCEPT ![r] = step]
  BY DEF Publish, Goto
<1>3. pc' \in [Requests -> {"idle"} \cup Steps \cup Ended]
  BY <1>2 DEF TypeOK, Steps, Ended
<1>4. UNCHANGED <<ledger, keys, slotRows, gate, holds, holdMeta, reply, locals, world>>
  BY DEF Publish
<1> QED
  BY <1>1, <1>3, <1>4 DEF TypeOK, ledger, slotRows, gate, locals, world

\* An arrival keeps the types.
LEMMA ArriveType ==
  ASSUME TypeOK, NEW r \in Requests, NEW c \in Call, Arrive(r, c)
  PROVE  TypeOK'
<1>1. call' \in [Requests -> Call \cup {Nil}]
  BY DEF Arrive, TypeOK
<1>2. FirstStep(c) \in Steps
  BY CallTypes DEF FirstStep, Steps
<1>3. pc' \in [Requests -> {"idle"} \cup Steps \cup Ended]
  BY <1>2 DEF Arrive, Goto, TypeOK
<1>4. UNCHANGED <<shared, reply, seenVersion, attempt, world>>
  BY DEF Arrive
<1> QED
  BY <1>1, <1>3, <1>4 DEF TypeOK, shared, ledger, slotRows, gate, redis, world

\* Expiry and the clock keep the types.
LEMMA EnvironmentType ==
  ASSUME TypeOK, Environment
  PROVE  TypeOK'
<1>1. CASE \E t \in Tables, s \in Slots : ExpireHold(t, s)
  BY <1>1 DEF ExpireHold, TypeOK, ledger, slotRows, gate, locals, world
<1>2. CASE \E h \in Requests : ExpireMeta(h)
  BY <1>2 DEF ExpireMeta, TypeOK, ledger, slotRows, gate, locals, world
<1>3. CASE Tick
  <2>1. now' \in 0..MaxNow
    BY <1>3, ConstantsAssumption DEF Tick, TypeOK
  <2> QED
    BY <1>3, <2>1 DEF Tick, TypeOK, shared, ledger, slotRows, gate, redis, locals
<1> QED
  BY <1>1, <1>2, <1>3 DEF Environment

\* Every step keeps the types.
LEMMA TypeStep ==
  ASSUME TypeOK, RequestsFit, OutboxMatchesLedger, [AnyNext]_vars
  PROVE  TypeOK'
<1>1. ASSUME NEW r \in Requests, NEW c \in Call, Arrive(r, c) PROVE TypeOK'
  BY <1>1, ArriveType
<1>2. ASSUME NEW r \in Requests, Handle(r) PROVE TypeOK'
  BY <1>2, BookType, HoldType, ConfirmType, CancelType, PublishType DEF Handle
<1>3. ASSUME NEW r \in Requests, Fault(r) \/ Crash(r) PROVE TypeOK'
  BY <1>3, BreakType
<1>4. CASE Environment
  BY <1>4, EnvironmentType
<1>5. CASE UNCHANGED vars
  BY <1>5 DEF vars, shared, ledger, slotRows, gate, redis, locals, world, TypeOK
<1>6. ASSUME NEW r \in Requests, AnswerLost(r) PROVE TypeOK'
  BY <1>6, LostType
<1> QED
  BY <1>1, <1>2, <1>3, <1>4, <1>5, <1>6 DEF AnyNext, Rest

-------------------------------------------------------------------------------
(* What a step does to the ledger *)

\* The step that books for request r.
BooksFor(r) ==
  LET c == call[r] IN
  /\ pc[r] \in {"bookTx", "lockedTx", "confirmTx"}
  /\ SlotUnlocked(r) \/ pc[r] = "lockedTx"
  /\ CanPay(c) /\ ~ Taken(c.table, c.slot)
  /\ WriteBookingAndCharge(r, c)
  /\ notificationJobs' =
       IF pc[r] = "confirmTx" THEN notificationJobs \cup {r} ELSE notificationJobs
  /\ pc'[r] \in {"publish", "done"}
  /\ call' = call

\* The step in which request r cancels reservation o.
CancelsFor(r, o) ==
  /\ pc[r] = "cancelTx" /\ o = call[r].reservation
  /\ <<o, "cancelled">> \notin webhookJobs
  /\ reservations' = [reservations EXCEPT ![o].status = "cancelled"]
  /\ balance' = [balance EXCEPT ![call[r].user] = @ + payments[o]]
  /\ webhookJobs' = webhookJobs \cup {<<o, "cancelled">>}
  /\ payments' = payments /\ notificationJobs' = notificationJobs
  /\ call' = call

\* A step books for one request, cancels one reservation, or leaves the ledger
\* alone.
LEMMA LedgerSteps ==
  ASSUME TypeOK, RequestsFit, [AnyNext]_vars
  PROVE  \/ UNCHANGED ledger
         \/ \E r \in Requests : BooksFor(r)
         \/ \E r, o \in Requests : CancelsFor(r, o)
<1>1. ASSUME NEW r \in Requests, NEW c \in Call, Arrive(r, c) PROVE UNCHANGED ledger
  BY <1>1 DEF Arrive, shared
<1>2. ASSUME NEW r \in Requests, BookStep(r) PROVE UNCHANGED ledger \/ BooksFor(r)
  <2>1. ASSUME DirectWrite(r), pc[r] \in {"bookTx", "lockedTx"},
               SlotUnlocked(r) \/ pc[r] = "lockedTx"
        PROVE  UNCHANGED ledger \/ BooksFor(r)
    <3>1. CASE WriteRefusal(call[r]) = "none"
      <4>1. CanPay(call[r]) /\ ~ Taken(call[r].table, call[r].slot)
        BY <3>1 DEF WriteRefusal, TakenRefusal
      <4>2. pc' = [pc EXCEPT ![r] = "done"] /\ UNCHANGED <<notificationJobs, locals>>
        BY <2>1, <3>1 DEF DirectWrite, Goto
      <4> QED
        BY <2>1, <3>1, <4>1, <4>2 DEF DirectWrite, BooksFor, locals, TypeOK
    <3>2. CASE WriteRefusal(call[r]) # "none"
      BY <2>1, <3>2 DEF DirectWrite, ledger
    <3> QED
      BY <3>1, <3>2
  <2>2. CASE BookInTransaction(r)
    BY <2>1, <2>2 DEF BookInTransaction, At
  <2>3. CASE LockedTransaction(r)
    BY <2>1, <2>3 DEF LockedTransaction, At
  <2>4. CASE BookChecks(r) \/ LockSlot(r) \/ ReadVersion(r) \/ ReadExisting(r)
             \/ SwapWon(r) \/ SwapLost(r)
    BY <2>4 DEF BookChecks, LockSlot, ReadVersion, ReadExisting, SwapWon, SwapLost,
                Check, shared
  <2> QED
    BY <1>2, <2>2, <2>3, <2>4 DEF BookStep
<1>3. ASSUME NEW r \in Requests, HoldStep(r) PROVE UNCHANGED ledger
  BY <1>3 DEF HoldStep, HoldChecks, HoldWindow, AcquireHold, WriteMeta, ReuseTooLate,
              Check, shared
<1>4. ASSUME NEW r \in Requests, ConfirmStep(r) PROVE UNCHANGED ledger \/ BooksFor(r)
  <2>1. CASE ConfirmWrite(r)
    <3>1. CanPay(call[r]) /\ ~ Taken(call[r].table, call[r].slot)
      BY <2>1 DEF ConfirmWrite, WriteRefusal, TakenRefusal
    <3>2. pc' = [pc EXCEPT ![r] = "publish"] /\ UNCHANGED locals
      BY <2>1 DEF ConfirmWrite, Goto
    <3> QED
      BY <2>1, <3>1, <3>2 DEF ConfirmWrite, At, BooksFor, locals, TypeOK
  <2>2. CASE ~ ConfirmWrite(r)
    BY <1>4, <2>2 DEF ConfirmStep, ClaimKey, LookupKey, ConfirmChecks, ConsumeHold,
                ConfirmRollback, StoreOutcome, DropKey, Check, shared
  <2> QED
    BY <2>1, <2>2
<1>5. ASSUME NEW r \in Requests, CancelStep(r)
      PROVE  UNCHANGED ledger \/ \E o \in Requests : CancelsFor(r, o)
  <2>1. CASE CancelChecks(r)
    BY <2>1 DEF CancelChecks, Check, shared
  <2>2. CASE CancelTransaction(r)
    <3> DEFINE o == call[r].reservation
    <3>1. o \in Requests
      BY <2>2, CancelCall DEF CancelTransaction, At, CancelSteps
    <3>2. CASE <<o, "cancelled">> \in webhookJobs
      BY <2>2, <3>2 DEF CancelTransaction, ledger
    <3>3. CASE <<o, "cancelled">> \notin webhookJobs
      <4>1. CancelsFor(r, o)
        BY <2>2, <3>3 DEF CancelTransaction, CancelsFor, At, locals
      <4> QED
        BY <3>1, <4>1
    <3> QED
      BY <3>2, <3>3
  <2> QED
    BY <1>5, <2>1, <2>2 DEF CancelStep
<1>6. ASSUME NEW r \in Requests, Publish(r) \/ Fault(r) \/ Crash(r)
      PROVE  UNCHANGED ledger
  BY <1>6 DEF Publish, Fault, Crash, Breaks
<1>7. CASE Environment
  BY <1>7 DEF Environment, ExpireHold, ExpireMeta, Tick, shared
<1>8. CASE UNCHANGED vars
  BY <1>8 DEF vars, shared
<1>9. ASSUME NEW r \in Requests, AnswerLost(r) PROVE UNCHANGED ledger \/ BooksFor(r)
  <2>1. CASE LostCommit(r)
    <3>1. /\ pc[r] \in {"bookTx", "lockedTx"} /\ SlotUnlocked(r)
          /\ WriteBookingAndCharge(r, call[r])
      BY <2>1 DEF LostCommit
    <3>2. CanPay(call[r]) /\ ~ Taken(call[r].table, call[r].slot)
      BY <2>1 DEF LostCommit, WriteRefusal, TakenRefusal
    <3>3. /\ pc' = [pc EXCEPT ![r] = "done"] /\ call' = call
          /\ notificationJobs' = notificationJobs
      BY <2>1 DEF LostCommit, Breaks, Goto, locals
    <3>4. pc'[r] = "done"
      BY <3>3 DEF TypeOK
    <3> QED
      BY <3>1, <3>2, <3>3, <3>4 DEF BooksFor
  <2> QED
    BY <1>9, <2>1, LostShape
<1> QED
  BY <1>1, <1>2, <1>3, <1>4, <1>5, <1>6, <1>7, <1>8, <1>9 DEF AnyNext, Handle, Rest

\* A request that has arrived keeps the call it arrived with.
LEMMA CallStable ==
  ASSUME TypeOK, [AnyNext]_vars, NEW o \in Requests, pc[o] # "idle"
  PROVE  call'[o] = call[o]
<1>1. ASSUME NEW r \in Requests, NEW c \in Call, Arrive(r, c) PROVE call'[o] = call[o]
  <2>1. r # o
    BY <1>1 DEF Arrive, At
  <2> QED
    BY <1>1, <2>1 DEF Arrive, TypeOK
<1>2. ASSUME NEW r \in Requests, BookStep(r) PROVE UNCHANGED call
  BY <1>2 DEF BookStep, BookChecks, LockSlot, ReadVersion, ReadExisting, SwapWon, SwapLost,
              BookInTransaction, LockedTransaction, DirectWrite, Check, locals
<1>3. ASSUME NEW r \in Requests, HoldStep(r) PROVE UNCHANGED call
  BY <1>3 DEF HoldStep, HoldChecks, HoldWindow, AcquireHold, WriteMeta, ReuseTooLate,
              Check, locals
<1>4. ASSUME NEW r \in Requests, ConfirmStep(r) PROVE UNCHANGED call
  BY <1>4 DEF ConfirmStep, ClaimKey, LookupKey, ConfirmChecks, ConsumeHold, ConfirmWrite,
              ConfirmRollback, StoreOutcome, DropKey, Check, locals
<1>5. ASSUME NEW r \in Requests, CancelStep(r) PROVE UNCHANGED call
  BY <1>5 DEF CancelStep, CancelChecks, CancelTransaction, Check, locals
<1>6. ASSUME NEW r \in Requests, Publish(r) \/ Fault(r) \/ Crash(r) PROVE UNCHANGED call
  BY <1>6 DEF Publish, Fault, Crash, Breaks, locals
<1>7. CASE Environment
  BY <1>7 DEF Environment, ExpireHold, ExpireMeta, Tick, locals
<1>8. CASE UNCHANGED vars
  BY <1>8 DEF vars, locals
<1>9. ASSUME NEW r \in Requests, AnswerLost(r) PROVE UNCHANGED call
  BY <1>9, LostShape DEF locals
<1> QED
  BY <1>1, <1>2, <1>3, <1>4, <1>5, <1>6, <1>7, <1>8, <1>9 DEF AnyNext, Handle, Rest

\* What a booking step finds and leaves: no row before, a booked row after.
LEMMA BooksForFacts ==
  ASSUME TypeOK, RequestsFit, NEW r \in Requests, BooksFor(r)
  PROVE  /\ call[r] \in Call /\ call[r].op # "cancel"
         /\ call[r].op = "confirm" <=> pc[r] = "confirmTx"
         /\ reservations[r] = Nil
         /\ reservations'[r] = [user |-> call[r].user, table |-> call[r].table,
                                slot |-> call[r].slot, status |-> "booked"]
         /\ reservations'[r] # Nil /\ reservations'[r].status = "booked"
         /\ reservations'[r].user = call[r].user
         /\ reservations'[r].table = call[r].table
         /\ reservations'[r].slot = call[r].slot
         /\ payments'[r] = SlotPrice[call[r].slot] /\ payments'[r] # Nil
         /\ \A q \in Requests \ {r} : /\ reservations'[q] = reservations[q]
                                      /\ payments'[q] = payments[q]
<1>1. /\ call[r] \in Call
      /\ call[r].op = IF pc[r] = "confirmTx" THEN "confirm" ELSE "book"
      /\ reservations[r] = Nil
  BY DEF BooksFor, RequestsFit, StepFitsCall, BookSteps, ConfirmSteps, BeforeWrite
<1>2. call[r].user \in Users /\ call[r].table \in Tables /\ call[r].slot \in Slots
  BY <1>1, CallTypes
<1>3. reservations'[r] = [user |-> call[r].user, table |-> call[r].table,
                          slot |-> call[r].slot, status |-> "booked"]
  BY DEF BooksFor, WriteBookingAndCharge, TypeOK
<1>4. reservations'[r] # Nil
  BY <1>2, <1>3, NilAssumption DEF ReservationRow
<1>5. /\ reservations'[r].status = "booked"
      /\ reservations'[r].user = call[r].user
      /\ reservations'[r].table = call[r].table
      /\ reservations'[r].slot = call[r].slot
  BY <1>3
<1>6. SlotPrice[call[r].slot] \in Nat
  BY <1>2, ConstantsAssumption
<1>7. payments'[r] = SlotPrice[call[r].slot] /\ payments'[r] # Nil
  BY <1>6, NilAssumption DEF BooksFor, WriteBookingAndCharge, TypeOK
<1>8. ASSUME NEW q \in Requests \ {r}
      PROVE  reservations'[q] = reservations[q] /\ payments'[q] = payments[q]
  BY DEF BooksFor, WriteBookingAndCharge, TypeOK
<1> QED
  BY <1>1, <1>3, <1>4, <1>5, <1>7, <1>8

\* What a cancelling step finds and leaves: its user's row, booked before, since
\* its cancelled event was not there, and cancelled after.
LEMMA CancelsForFacts ==
  ASSUME TypeOK, RequestsFit, OutboxMatchesLedger, NEW r \in Requests,
         NEW o \in Requests, CancelsFor(r, o)
  PROVE  /\ Booked(o) /\ reservations[o].user = call[r].user
         /\ reservations'[o] = [reservations[o] EXCEPT !.status = "cancelled"]
         /\ reservations'[o] # Nil /\ reservations'[o].status = "cancelled"
         /\ reservations'[o].user = reservations[o].user
         /\ reservations'[o].table = reservations[o].table
         /\ reservations'[o].slot = reservations[o].slot
         /\ \A q \in Requests \ {o} : reservations'[q] = reservations[q]
         /\ payments[o] \in Nat
<1>1. reservations[o] # Nil /\ reservations[o].user = call[r].user
  BY DEF CancelsFor, RequestsFit, StepFitsCall
<1>2. reservations[o] \in ReservationRow
  BY <1>1 DEF TypeOK
<1>3. Booked(o)
  BY <1>1 DEF CancelsFor, OutboxMatchesLedger
<1>4. reservations'[o] = [reservations[o] EXCEPT !.status = "cancelled"]
  BY DEF CancelsFor, TypeOK
<1>5. reservations'[o] \in ReservationRow
  BY <1>2, <1>4 DEF ReservationRow
<1>6. reservations'[o] # Nil
  BY <1>5, NilAssumption
<1>7. \A q \in Requests \ {o} : reservations'[q] = reservations[q]
  BY DEF CancelsFor, TypeOK
<1>8. payments[o] \in Nat
  BY <1>1 DEF OutboxMatchesLedger, TypeOK
<1>9. /\ reservations'[o].status = "cancelled"
      /\ reservations'[o].user = reservations[o].user
      /\ reservations'[o].table = reservations[o].table
      /\ reservations'[o].slot = reservations[o].slot
  BY <1>2, <1>4 DEF ReservationRow
<1> QED
  BY <1>1, <1>3, <1>4, <1>6, <1>7, <1>8, <1>9

\* The outbox keeps up with the ledger.
LEMMA OutboxStep ==
  ASSUME TypeOK, RequestsFit, OutboxMatchesLedger, [AnyNext]_vars
  PROVE  OutboxMatchesLedger'
<1>1. ASSUME NEW o \in Requests, reservations[o] # Nil PROVE call'[o] = call[o]
  <2>1. pc[o] # "idle"
    BY <1>1 DEF RequestsFit, StepFitsCall, BeforeWrite
  <2> QED
    BY <2>1, CallStable
<1>2. CASE UNCHANGED ledger
  BY <1>1, <1>2 DEF OutboxMatchesLedger, Booked, ledger
<1>3. ASSUME NEW r \in Requests, BooksFor(r) PROVE OutboxMatchesLedger'
  <2>1. /\ call' = call
        /\ webhookJobs' = webhookJobs \cup {<<r, "created">>}
        /\ notificationJobs' =
             IF call[r].op = "confirm" THEN notificationJobs \cup {r}
                                       ELSE notificationJobs
    BY <1>3, BooksForFacts DEF BooksFor, WriteBookingAndCharge
  <2>2. \A o \in Requests \ {r} : /\ reservations'[o] = reservations[o]
                                /\ payments'[o] = payments[o]
    BY <1>3, BooksForFacts
  <2>3. /\ reservations[r] = Nil /\ reservations'[r] # Nil
        /\ reservations'[r].status = "booked" /\ payments'[r] # Nil
    BY <1>3, BooksForFacts
  <2>4. ASSUME NEW o \in Requests
        PROVE  /\ <<o, "created">> \in webhookJobs'
                    <=> o = r \/ <<o, "created">> \in webhookJobs
               /\ <<o, "cancelled">> \in webhookJobs' <=> <<o, "cancelled">> \in webhookJobs
               /\ o \in notificationJobs'
                    <=> (o = r /\ call[r].op = "confirm") \/ o \in notificationJobs
    BY <2>1
  <2> SUFFICES ASSUME NEW o \in Requests
               PROVE  OutboxMatchesLedger!(o)'
    BY DEF OutboxMatchesLedger
  <2>5. CASE o = r
    BY <2>1, <2>3, <2>4, <2>5 DEF OutboxMatchesLedger, Booked
  <2>6. CASE o # r
    BY <2>1, <2>2, <2>4, <2>6 DEF OutboxMatchesLedger, Booked
  <2> QED
    BY <2>5, <2>6
<1>4. ASSUME NEW r \in Requests, NEW o \in Requests, CancelsFor(r, o)
      PROVE  OutboxMatchesLedger'
  <2>1. /\ call' = call /\ payments' = payments
        /\ notificationJobs' = notificationJobs
        /\ webhookJobs' = webhookJobs \cup {<<o, "cancelled">>}
    BY <1>4 DEF CancelsFor
  <2>2. /\ Booked(o) /\ reservations'[o] # Nil /\ reservations'[o].status = "cancelled"
        /\ \A q \in Requests \ {o} : reservations'[q] = reservations[q]
    BY <1>4, CancelsForFacts
  <2> QED
    BY <2>1, <2>2 DEF OutboxMatchesLedger, Booked
<1> QED
  BY <1>2, <1>3, <1>4, LedgerSteps

\* The unique index keeps every seat to one live reservation.
LEMMA NoDoubleBookingStep ==
  ASSUME TypeOK, RequestsFit, OutboxMatchesLedger, NoDoubleBooking, [AnyNext]_vars
  PROVE  NoDoubleBooking'
<1>1. CASE UNCHANGED ledger
  BY <1>1 DEF NoDoubleBooking, Booked, ledger
<1>2. ASSUME NEW r \in Requests, BooksFor(r) PROVE NoDoubleBooking'
  <2>1. /\ \A q \in Requests \ {r} : reservations'[q] = reservations[q]
        /\ reservations'[r].table = call[r].table
        /\ reservations'[r].slot = call[r].slot
    BY <1>2, BooksForFacts
  <2>2. \A q \in Requests \ {r} :
          Booked(q) => ~ (/\ reservations[q].table = call[r].table
                          /\ reservations[q].slot = call[r].slot)
    BY <1>2 DEF BooksFor, Taken
  <2> QED
    BY <2>1, <2>2 DEF NoDoubleBooking, Booked
<1>3. ASSUME NEW r \in Requests, NEW o \in Requests, CancelsFor(r, o)
      PROVE  NoDoubleBooking'
  <2>1. /\ reservations'[o].status # "booked"
        /\ \A q \in Requests \ {o} : reservations'[q] = reservations[q]
    BY <1>3, CancelsForFacts
  <2> QED
    BY <2>1 DEF NoDoubleBooking, Booked
<1> QED
  BY <1>1, <1>2, <1>3, LedgerSteps

\* Rows stay rows, of the same user.
LEMMA RowsStay ==
  ASSUME TypeOK, RequestsFit, OutboxMatchesLedger, [AnyNext]_vars,
         NEW o \in Requests, reservations[o] # Nil
  PROVE  /\ reservations'[o] # Nil
         /\ reservations'[o].user = reservations[o].user
         /\ reservations'[o].table = reservations[o].table
         /\ reservations'[o].slot = reservations[o].slot
<1>1. CASE UNCHANGED ledger
  BY <1>1 DEF ledger
<1>2. ASSUME NEW r \in Requests, BooksFor(r)
      PROVE  reservations'[o] = reservations[o]
  <2>1. o # r
    BY <1>2, BooksForFacts
  <2> QED
    BY <1>2, <2>1, BooksForFacts
<1>3. ASSUME NEW r \in Requests, NEW q \in Requests, CancelsFor(r, q)
      PROVE  /\ reservations'[o] # Nil
             /\ reservations'[o].user = reservations[o].user
             /\ reservations'[o].table = reservations[o].table
             /\ reservations'[o].slot = reservations[o].slot
  <2>1. CASE o = q
    BY <1>3, <2>1, CancelsForFacts
  <2>2. CASE o # q
    BY <1>3, <2>2, CancelsForFacts
  <2> QED
    BY <2>1, <2>2
<1> QED
  BY <1>1, <1>2, <1>3, LedgerSteps

-------------------------------------------------------------------------------
(* Requests fit their calls *)

\* A step of r only has to be looked at for r itself.
LEMMA FitFrame ==
  ASSUME TypeOK, RequestsFit, OutboxMatchesLedger, [AnyNext]_vars, NEW r \in Requests,
         \A q \in Requests \ {r} :
           /\ pc'[q] = pc[q] /\ reply'[q] = reply[q] /\ call'[q] = call[q]
           /\ (reservations[q] = Nil => reservations'[q] = Nil),
         StepFitsCall(r)'
  PROVE  RequestsFit'
<1> SUFFICES ASSUME NEW q \in Requests, q # r PROVE StepFitsCall(q)'
  BY DEF RequestsFit
<1>1. StepFitsCall(q) /\ pc'[q] = pc[q] /\ reply'[q] = reply[q] /\ call'[q] = call[q]
  BY DEF RequestsFit
<1>2. reservations[q] = Nil => reservations'[q] = Nil
  OBVIOUS
<1>3. pc[q] = "cancelTx" =>
        LET o == call[q].reservation IN
        reservations'[o] # Nil /\ reservations'[o].user = call[q].user
  <2> SUFFICES ASSUME pc[q] = "cancelTx"
               PROVE  LET o == call[q].reservation IN
                      reservations'[o] # Nil /\ reservations'[o].user = call[q].user
    OBVIOUS
  <2>1. call[q].reservation \in Requests
    BY CancelCall DEF CancelSteps
  <2>2. /\ reservations[call[q].reservation] # Nil
        /\ reservations[call[q].reservation].user = call[q].user
    BY <1>1 DEF StepFitsCall
  <2> QED
    BY <2>1, <2>2, RowsStay
<1> QED
  BY <1>1, <1>2, <1>3 DEF StepFitsCall

\* Where a rejection leads, the request fits.
LEMMA RejectFit ==
  ASSUME TypeOK, RequestsFit, NEW r \in Requests, pc[r] # "idle",
         NEW status, Reject(r, status), call' = call
  PROVE  StepFitsCall(r)' /\ \A q \in Requests \ {r} : /\ pc'[q] = pc[q]
                                                       /\ reply'[q] = reply[q]
                                                       /\ call'[q] = call[q]
<1>1. call[r] \in Call
  BY DEF RequestsFit, StepFitsCall
<1>2. CASE Keyed(r)
  <2>1. pc' = [pc EXCEPT ![r] = "storeOutcome"]
    BY <1>2 DEF Reject, Goto
  <2> QED
    BY <1>1, <1>2, <2>1
       DEF TypeOK, Reject, Answer, StepFitsCall, Keyed, BookSteps, HoldSteps, ConfirmSteps,
           KeySteps, CancelSteps, BeforeWrite
<1>3. CASE ~ Keyed(r)
  <2>1. pc' = [pc EXCEPT ![r] = "done"]
    BY <1>3 DEF Reject, Goto
  <2> QED
    BY <1>1, <2>1
       DEF TypeOK, Reject, Answer, StepFitsCall, BookSteps, HoldSteps, ConfirmSteps,
           KeySteps, CancelSteps, BeforeWrite
<1> QED
  BY <1>2, <1>3

\* A request that ends fits whatever it was.
LEMMA EndFit ==
  ASSUME TypeOK, RequestsFit, NEW r \in Requests, pc[r] # "idle", call' = call,
         NEW step \in Ended, Goto(r, step)
  PROVE  StepFitsCall(r)' /\ \A q \in Requests \ {r} : /\ pc'[q] = pc[q]
                                                       /\ call'[q] = call[q]
<1>1. call[r] \in Call
  BY DEF RequestsFit, StepFitsCall
<1> QED
  BY <1>1 DEF TypeOK, Goto, Ended, StepFitsCall, BookSteps, HoldSteps, ConfirmSteps,
              KeySteps, CancelSteps, BeforeWrite

\* A step within one handler, without an answer and without touching reservations.
LEMMA MoveFit ==
  ASSUME TypeOK, RequestsFit, NEW r \in Requests, NEW step, Goto(r, step), call' = call,
         reply' = reply, reservations' = reservations,
         \/ pc[r] \in BookSteps /\ step \in BookSteps
         \/ pc[r] \in HoldSteps /\ step \in (HoldSteps \ {"writeMeta"}) \cup {"publish"}
         \/ pc[r] \in {"confirm", "consume"} /\ step \in {"consume", "confirmTx"}
         \/ pc[r] = "claim" /\ step \in {"lookup", "confirm"}
  PROVE  StepFitsCall(r)' /\ \A q \in Requests \ {r} : /\ pc'[q] = pc[q]
                                                       /\ reply'[q] = reply[q]
                                                       /\ call'[q] = call[q]
<1>1. pc' = [pc EXCEPT ![r] = step]
  BY DEF Goto
<1>2. StepFitsCall(r)
  BY DEF RequestsFit
<1> QED
  BY <1>1, <1>2 DEF TypeOK, StepFitsCall, BookSteps, HoldSteps, ConfirmSteps,
                    KeySteps, CancelSteps, BeforeWrite

\* Steps that may follow each other without an answer.
Follows(step, next) ==
  \/ step \in BookSteps /\ next \in BookSteps
  \/ step \in HoldSteps /\ next \in (HoldSteps \ {"writeMeta"}) \cup {"publish"}
  \/ step \in {"confirm", "consume"} /\ next \in {"consume", "confirmTx"}
  \/ step = "claim" /\ next \in {"lookup", "confirm"}

\* A rejection, as a step of the whole system.
LEMMA RejectStep ==
  ASSUME TypeOK, RequestsFit, OutboxMatchesLedger, [AnyNext]_vars, NEW r \in Requests,
         pc[r] # "idle", NEW status, Reject(r, status), call' = call,
         reservations' = reservations
  PROVE  RequestsFit'
BY RejectFit, FitFrame

\* A move, as a step of the whole system.
LEMMA MoveStep ==
  ASSUME TypeOK, RequestsFit, OutboxMatchesLedger, [AnyNext]_vars, NEW r \in Requests,
         NEW step, Goto(r, step), Follows(pc[r], step), call' = call, reply' = reply,
         reservations' = reservations
  PROVE  RequestsFit'
BY MoveFit, FitFrame DEF Follows

\* A check that goes on or refuses.
LEMMA CheckStep ==
  ASSUME TypeOK, RequestsFit, OutboxMatchesLedger, [AnyNext]_vars, NEW r \in Requests,
         NEW step, step # "idle", NEW refusal, NEW next, Follows(step, next),
         Check(r, step, refusal, next)
  PROVE  RequestsFit'
<1>1. call' = call /\ reservations' = reservations /\ pc[r] = step
  BY DEF Check, At, shared, ledger, locals
<1>2. CASE refusal = "none"
  <2>1. Goto(r, next) /\ reply' = reply
    BY <1>2 DEF Check
  <2> QED
    BY <1>1, <2>1, MoveStep
<1>3. CASE refusal # "none"
  <2>1. Reject(r, refusal)
    BY <1>3 DEF Check
  <2> QED
    BY <1>1, <2>1, RejectStep
<1> QED
  BY <1>2, <1>3

\* The transaction of a direct booking ends the request, booked or refused.
LEMMA DirectWriteStep ==
  ASSUME TypeOK, RequestsFit, OutboxMatchesLedger, [AnyNext]_vars, NEW r \in Requests,
         pc[r] \in BookSteps, DirectWrite(r)
  PROVE  RequestsFit'
<1>1. call' = call
  BY DEF DirectWrite, locals
<1>2. pc[r] # "idle"
  BY DEF BookSteps
<1>3. CASE WriteRefusal(call[r]) = "none"
  <2>1. /\ Goto(r, "done") /\ Answer(r, "created", r)
        /\ WriteBookingAndCharge(r, call[r])
    BY <1>3 DEF DirectWrite
  <2>2. \A q \in Requests \ {r} : reply'[q] = reply[q] /\ reservations'[q] = reservations[q]
    BY <2>1 DEF Answer, WriteBookingAndCharge, TypeOK
  <2>3. StepFitsCall(r)' /\ \A q \in Requests \ {r} : pc'[q] = pc[q] /\ call'[q] = call[q]
    BY <1>1, <1>2, <2>1, EndFit DEF Ended
  <2> QED
    BY <2>2, <2>3, FitFrame
<1>4. CASE WriteRefusal(call[r]) # "none"
  <2>1. Reject(r, WriteRefusal(call[r])) /\ reservations' = reservations
    BY <1>4 DEF DirectWrite
  <2> QED
    BY <1>1, <1>2, <2>1, RejectStep
<1> QED
  BY <1>3, <1>4

\* The steps of book.
LEMMA BookFit ==
  ASSUME TypeOK, RequestsFit, OutboxMatchesLedger, [AnyNext]_vars, NEW r \in Requests,
         BookStep(r)
  PROVE  RequestsFit'
<1>1. CASE BookChecks(r)
  <2>1. StrategyStep[call[r].strategy] \in BookSteps
    <3>1. call[r] \in Call /\ call[r].op = "book"
      BY <1>1 DEF BookChecks, Check, At, RequestsFit, StepFitsCall, BookSteps
    <3>2. call[r].strategy \in Strategies
      BY <3>1, CallTypes
    <3> QED
      BY <3>2 DEF StrategyStep, Strategies, BookSteps
  <2> QED
    BY <1>1, <2>1, CheckStep DEF BookChecks, Follows, BookSteps
<1>2. CASE BookInTransaction(r)
  BY <1>2, DirectWriteStep DEF BookInTransaction, At, BookSteps
<1>3. CASE LockSlot(r)
  <2>1. pc[r] = "lockSlot" /\ call' = call /\ reservations' = reservations
    BY <1>3 DEF LockSlot, At, locals, ledger
  <2>2. CASE Reject(r, "taken")
    BY <2>1, <2>2, RejectStep
  <2>3. CASE Goto(r, "lockedTx") /\ reply' = reply
    BY <2>1, <2>3, MoveStep DEF Follows, BookSteps
  <2> QED
    BY <1>3, <2>2, <2>3 DEF LockSlot
<1>4. CASE LockedTransaction(r)
  BY <1>4, DirectWriteStep DEF LockedTransaction, At, BookSteps
<1>5. CASE ReadVersion(r)
  <2>1. /\ pc[r] = "readVersion" /\ Goto(r, "readExisting") /\ call' = call
        /\ reply' = reply /\ reservations' = reservations
    BY <1>5 DEF ReadVersion, At, shared, ledger
  <2> QED
    BY <2>1, MoveStep DEF Follows, BookSteps
<1>6. CASE ReadExisting(r)
  BY <1>6, CheckStep DEF ReadExisting, Follows, BookSteps
<1>7. CASE SwapWon(r)
  <2>1. /\ pc[r] = "cas" /\ Goto(r, "bookTx") /\ call' = call
        /\ reply' = reply /\ reservations' = reservations
    BY <1>7 DEF SwapWon, At, ledger, locals
  <2> QED
    BY <2>1, MoveStep DEF Follows, BookSteps
<1>8. CASE SwapLost(r)
  <2>1. pc[r] = "cas" /\ call' = call /\ reservations' = reservations
    BY <1>8 DEF SwapLost, At, shared, ledger
  <2>2. CASE Reject(r, "taken")
    BY <2>1, <2>2, RejectStep
  <2>3. CASE Goto(r, "readVersion") /\ reply' = reply
    BY <2>1, <2>3, MoveStep DEF Follows, BookSteps
  <2> QED
    BY <1>8, <2>2, <2>3 DEF SwapLost
<1> QED
  BY <1>1, <1>2, <1>3, <1>4, <1>5, <1>6, <1>7, <1>8 DEF BookStep

\* The steps of hold, up to the answer.
LEMMA HoldFit ==
  ASSUME TypeOK, RequestsFit, OutboxMatchesLedger, [AnyNext]_vars, NEW r \in Requests,
         HoldStep(r)
  PROVE  RequestsFit'
<1>1. CASE HoldChecks(r)
  BY <1>1, CheckStep DEF HoldChecks, Follows, HoldSteps
<1>2. CASE HoldWindow(r)
  BY <1>2, CheckStep DEF HoldWindow, Follows, HoldSteps
<1>3. CASE AcquireHold(r)
  <2>1. pc[r] = "acquire" /\ call' = call /\ reservations' = reservations
    BY <1>3 DEF AcquireHold, At, locals, ledger
  <2>2. CASE Reject(r, "heldByOther")
    BY <2>1, <2>2, RejectStep
  <2>3. CASE ~ Reject(r, "heldByOther")
    <3> DEFINE current == holds[SeatOf(call[r])]
               id == IF current = Nil THEN r ELSE current.id
    <3>1. Answer(r, "held", id) /\ Goto(r, "writeMeta")
      BY <1>3, <2>3 DEF AcquireHold
    <3>2. call[r] \in Call /\ call[r].op = "hold"
      BY <2>1 DEF RequestsFit, StepFitsCall, HoldSteps
    <3>3. current \in HoldRow \cup {Nil}
      BY <3>2, CallTypes DEF TypeOK, SeatOf
    <3>4. id \in Requests
      BY <3>3 DEF HoldRow
    <3> HIDE DEF id
    <3>5. /\ pc'[r] = "writeMeta" /\ reply'[r].id \in Requests
          /\ \A q \in Requests \ {r} : pc'[q] = pc[q] /\ reply'[q] = reply[q]
      BY <3>1, <3>4 DEF Answer, Goto, TypeOK
    <3>6. StepFitsCall(r)'
      BY <2>1, <3>2, <3>5 DEF StepFitsCall, BookSteps, HoldSteps, ConfirmSteps, KeySteps,
                              CancelSteps, BeforeWrite
    <3> QED
      BY <2>1, <3>5, <3>6, FitFrame
  <2> QED
    BY <2>2, <2>3
<1>4. CASE WriteMeta(r)
  <2>1. /\ pc[r] = "writeMeta" /\ Goto(r, "publish") /\ call' = call /\ reply' = reply
        /\ reservations' = reservations
    BY <1>4 DEF WriteMeta, At, ledger, locals
  <2> QED
    BY <2>1, MoveStep DEF Follows, HoldSteps
<1>5. CASE ReuseTooLate(r)
  <2>1. /\ pc[r] = "writeMeta" /\ Reject(r, "error") /\ call' = call
        /\ reservations' = reservations
    BY <1>5 DEF ReuseTooLate, At, shared, ledger, locals
  <2> QED
    BY <2>1, RejectStep
<1> QED
  BY <1>1, <1>2, <1>3, <1>4, <1>5 DEF HoldStep

\* A request that only moves on to "done" or "storeOutcome", as its key has it.
LEMMA FinishStep ==
  ASSUME TypeOK, RequestsFit, OutboxMatchesLedger, [AnyNext]_vars, NEW r \in Requests,
         pc[r] # "idle", call' = call, reservations' = reservations,
         Goto(r, "done") \/ (Keyed(r) /\ Goto(r, "storeOutcome"))
                         \/ (Keyed(r) /\ Goto(r, "dropKey")) \/ Goto(r, "crashed"),
         \A q \in Requests \ {r} : reply'[q] = reply[q]
  PROVE  RequestsFit'
<1>1. call[r] \in Call
  BY DEF RequestsFit, StepFitsCall
<1>2. StepFitsCall(r)' /\ \A q \in Requests \ {r} : pc'[q] = pc[q]
  BY <1>1 DEF TypeOK, Goto, Keyed, StepFitsCall, BookSteps, HoldSteps, ConfirmSteps,
              KeySteps, CancelSteps, BeforeWrite
<1> QED
  BY <1>2, FitFrame

\* A request that has just written its answer and goes on to publish.
LEMMA WrittenStep ==
  ASSUME TypeOK, RequestsFit, OutboxMatchesLedger, [AnyNext]_vars, NEW r \in Requests,
         pc[r] # "idle", call' = call, Goto(r, "publish"),
         NEW status, NEW id, Answer(r, status, id),
         \A q \in Requests \ {r} : reservations[q] = Nil => reservations'[q] = Nil
  PROVE  RequestsFit'
<1>1. call[r] \in Call
  BY DEF RequestsFit, StepFitsCall
<1>2. \A q \in Requests \ {r} : pc'[q] = pc[q] /\ reply'[q] = reply[q]
  BY DEF TypeOK, Goto, Answer
<1>3. StepFitsCall(r)'
  BY <1>1 DEF TypeOK, Goto, StepFitsCall, BookSteps, HoldSteps, ConfirmSteps,
              KeySteps, CancelSteps, BeforeWrite
<1> QED
  BY <1>2, <1>3, FitFrame

\* The steps of confirm.
LEMMA ConfirmFit ==
  ASSUME TypeOK, RequestsFit, OutboxMatchesLedger, [AnyNext]_vars, NEW r \in Requests,
         ConfirmStep(r)
  PROVE  RequestsFit'
<1>1. CASE ClaimKey(r)
  <2>1. /\ pc[r] = "claim" /\ call' = call /\ reply' = reply
        /\ reservations' = reservations
        /\ Goto(r, "lookup") \/ Goto(r, "confirm")
    BY <1>1 DEF ClaimKey, At, ledger, locals
  <2> QED
    BY <2>1, MoveStep DEF Follows
<1>2. CASE LookupKey(r)
  <2>1. /\ pc[r] = "lookup" /\ call' = call /\ Goto(r, "done")
        /\ reservations' = reservations
        /\ \A q \in Requests \ {r} : reply'[q] = reply[q]
    BY <1>2 DEF LookupKey, At, shared, ledger, locals, TypeOK
  <2> QED
    BY <2>1, FinishStep
<1>3. CASE ConfirmChecks(r)
  BY <1>3, CheckStep DEF ConfirmChecks, Follows
<1>4. CASE ConsumeHold(r)
  <2>1. pc[r] = "consume" /\ call' = call /\ reservations' = reservations
    BY <1>4 DEF ConsumeHold, At, ledger, locals
  <2>2. CASE Reject(r, "gone")
    BY <2>1, <2>2, RejectStep
  <2>3. CASE Goto(r, "confirmTx") /\ reply' = reply
    BY <2>1, <2>3, MoveStep DEF Follows
  <2> QED
    BY <1>4, <2>2, <2>3 DEF ConsumeHold
<1>5. CASE ConfirmWrite(r)
  <2>1. /\ pc[r] = "confirmTx" /\ call' = call /\ Goto(r, "publish")
        /\ Answer(r, "created", r) /\ WriteBookingAndCharge(r, call[r])
    BY <1>5 DEF ConfirmWrite, At, locals
  <2>2. \A q \in Requests \ {r} : reservations'[q] = reservations[q]
    BY <2>1 DEF WriteBookingAndCharge, TypeOK
  <2> QED
    BY <2>1, <2>2, WrittenStep
<1>6. CASE ConfirmRollback(r)
  <2>1. pc[r] = "confirmTx" /\ call' = call /\ reservations' = reservations
    BY <1>6 DEF ConfirmRollback, At, ledger, locals
  <2>2. Reject(r, WriteRefusal(call[r])) \/ Reject(r, "denied")
    BY <1>6 DEF ConfirmRollback
  <2> QED
    BY <2>1, <2>2, RejectStep
<1>7. CASE StoreOutcome(r) \/ DropKey(r)
  <2>1. /\ pc[r] # "idle" /\ call' = call /\ Goto(r, "done")
        /\ reservations' = reservations /\ reply' = reply
    BY <1>7 DEF StoreOutcome, DropKey, At, ledger, locals
  <2> QED
    BY <2>1, FinishStep
<1> QED
  BY <1>1, <1>2, <1>3, <1>4, <1>5, <1>6, <1>7 DEF ConfirmStep

\* The steps of cancel: what the check has read about the row is still so when
\* the transaction runs, but for the row's status.
LEMMA CancelFit ==
  ASSUME TypeOK, RequestsFit, OutboxMatchesLedger, [AnyNext]_vars, NEW r \in Requests,
         CancelStep(r)
  PROVE  RequestsFit'
<1>1. CASE CancelChecks(r)
  <2> DEFINE refusal == CancelRefusal(call[r])
  <2>1. pc[r] = "cancel" /\ call' = call /\ reservations' = reservations
    BY <1>1 DEF CancelChecks, Check, At, shared, ledger, locals
  <2>2. CASE refusal = "none"
    <3>1. Goto(r, "cancelTx") /\ reply' = reply
      BY <1>1, <2>2 DEF CancelChecks, Check
    <3>2. LET o == call[r].reservation IN
          reservations[o] # Nil /\ reservations[o].user = call[r].user
      BY <2>2 DEF CancelRefusal
    <3>3. call[r] \in Call /\ call[r].op = "cancel"
      BY <2>1 DEF RequestsFit, StepFitsCall, CancelSteps
    <3>4. pc'[r] = "cancelTx" /\ \A q \in Requests \ {r} : pc'[q] = pc[q]
      BY <3>1 DEF Goto, TypeOK
    <3>5. StepFitsCall(r)'
      BY <2>1, <3>2, <3>3, <3>4 DEF StepFitsCall, BookSteps, HoldSteps, ConfirmSteps,
                                    KeySteps, CancelSteps, BeforeWrite
    <3> QED
      BY <2>1, <3>1, <3>4, <3>5, FitFrame
  <2>3. CASE refusal # "none"
    <3>1. Reject(r, refusal)
      BY <1>1, <2>3 DEF CancelChecks, Check
    <3> QED
      BY <2>1, <3>1, RejectStep
  <2> QED
    BY <2>2, <2>3
<1>2. CASE CancelTransaction(r)
  <2> DEFINE o == call[r].reservation
  <2>1. pc[r] = "cancelTx" /\ call' = call
    BY <1>2 DEF CancelTransaction, At, locals
  <2>2. CASE <<o, "cancelled">> \in webhookJobs
    <3>1. Reject(r, "error") /\ reservations' = reservations
      BY <1>2, <2>2 DEF CancelTransaction
    <3> QED
      BY <2>1, <3>1, RejectStep
  <2>3. CASE <<o, "cancelled">> \notin webhookJobs
    <3>1. /\ Goto(r, "publish") /\ Answer(r, "cancelled", o)
          /\ reservations' = [reservations EXCEPT ![o].status = "cancelled"]
      BY <1>2, <2>3 DEF CancelTransaction
    <3>2. reservations[o] # Nil
      BY <2>1 DEF RequestsFit, StepFitsCall
    <3>3. \A q \in Requests : reservations[q] = Nil => reservations'[q] = Nil
      BY <3>1, <3>2 DEF TypeOK
    <3> QED
      BY <2>1, <3>1, <3>3, WrittenStep
  <2> QED
    BY <2>2, <2>3
<1> QED
  BY <1>1, <1>2 DEF CancelStep

\* A request that arrives starts at its handler's first step.
LEMMA ArriveFit ==
  ASSUME TypeOK, RequestsFit, OutboxMatchesLedger, [AnyNext]_vars, NEW r \in Requests,
         NEW c \in Call, Arrive(r, c)
  PROVE  RequestsFit'
<1>1. /\ pc[r] = "idle" /\ reply' = reply /\ reservations' = reservations
      /\ call'[r] = c /\ pc'[r] = FirstStep(c)
      /\ \A q \in Requests \ {r} : call'[q] = call[q] /\ pc'[q] = pc[q]
  BY DEF Arrive, At, Goto, shared, ledger, TypeOK
<1>2. c.op \in {"book", "hold", "confirm", "cancel"}
  BY CallTypes
<1>3. reservations[r] = Nil
  BY <1>1 DEF RequestsFit, StepFitsCall, BeforeWrite
<1>4. StepFitsCall(r)'
  BY <1>1, <1>2, <1>3 DEF StepFitsCall, FirstStep, BookSteps, HoldSteps, ConfirmSteps,
                          KeySteps, CancelSteps, BeforeWrite
<1> QED
  BY <1>1, <1>4, FitFrame

\* Every step keeps the requests fitting.
LEMMA FitStep ==
  ASSUME TypeOK, RequestsFit, OutboxMatchesLedger, [AnyNext]_vars
  PROVE  RequestsFit'
<1>1. ASSUME NEW r \in Requests, Publish(r) PROVE RequestsFit'
  <2>1. /\ pc[r] # "idle" /\ call' = call /\ reply' = reply
        /\ reservations' = reservations
        /\ Goto(r, "done") \/ (Keyed(r) /\ Goto(r, "storeOutcome"))
    BY <1>1 DEF Publish, At, ledger, locals
  <2> QED
    BY <2>1, FinishStep
<1>2. ASSUME NEW r \in Requests, Fault(r) PROVE RequestsFit'
  <2>1. /\ pc[r] # "idle" /\ call' = call /\ reservations' = reservations
        /\ Goto(r, "done") \/ (Keyed(r) /\ Goto(r, "dropKey"))
        /\ \A q \in Requests \ {r} : reply'[q] = reply[q]
    BY <1>2 DEF Fault, Breaks, InTry, Answer, Steps, ledger, locals, TypeOK
  <2> QED
    BY <2>1, FinishStep
<1>3. ASSUME NEW r \in Requests, Crash(r) PROVE RequestsFit'
  <2>1. /\ pc[r] # "idle" /\ call' = call /\ reservations' = reservations
        /\ Goto(r, "crashed") /\ reply' = reply
    BY <1>3 DEF Crash, Breaks, Steps, ledger, locals
  <2> QED
    BY <2>1, FinishStep
<1>4. CASE UNCHANGED <<pc, reply, call, reservations>>
  BY <1>4 DEF RequestsFit, StepFitsCall
<1>5. CASE Environment
  BY <1>4, <1>5 DEF Environment, ExpireHold, ExpireMeta, Tick, shared, ledger, locals
<1>6. CASE UNCHANGED vars
  BY <1>4, <1>6 DEF vars, shared, ledger, locals
<1>7. ASSUME NEW r \in Requests, AnswerLost(r) PROVE RequestsFit'
  <2>1. /\ pc[r] # "idle" /\ call' = call /\ Answer(r, "error", Nil)
        /\ Goto(r, "done") \/ (Keyed(r) /\ Goto(r, "dropKey"))
        /\ \A q \in Requests \ {r} : reply'[q] = reply[q]
    BY <1>7, LostShape DEF Breaks, Answer, Steps, locals, TypeOK
  <2>2. CASE UNCHANGED ledger
    <3>1. reservations' = reservations
      BY <2>2 DEF ledger
    <3> QED
      BY <2>1, <3>1, FinishStep
  <2>3. CASE LostCommit(r)
    <3>1. Goto(r, "done") /\ WriteBookingAndCharge(r, call[r])
      BY <2>3 DEF LostCommit
    <3>2. \A q \in Requests \ {r} : reservations'[q] = reservations[q]
      BY <3>1 DEF WriteBookingAndCharge, TypeOK
    <3>3. StepFitsCall(r)' /\ \A q \in Requests \ {r} : /\ pc'[q] = pc[q]
                                                         /\ call'[q] = call[q]
      BY <2>1, <3>1, EndFit DEF Ended
    <3> QED
      BY <2>1, <3>2, <3>3, FitFrame
  <2> QED
    BY <1>7, <2>2, <2>3, LostShape
<1> QED
  BY <1>1, <1>2, <1>3, <1>5, <1>6, <1>7, ArriveFit, BookFit, HoldFit, ConfirmFit, CancelFit
     DEF AnyNext, Handle, Rest

-------------------------------------------------------------------------------
(* The theorems *)

\* The inductive invariant.
IInv == TypeOK /\ RequestsFit /\ OutboxMatchesLedger /\ NoDoubleBooking

\* The invariant holds at first.
LEMMA Initial == Init => IInv
<1> SUFFICES ASSUME Init PROVE IInv
  OBVIOUS
<1>1. TypeOK
  BY InitType
<1>2. RequestsFit
  BY DEF Init, RequestsFit, StepFitsCall, BookSteps, HoldSteps, ConfirmSteps, KeySteps,
         CancelSteps, BeforeWrite
<1>3. OutboxMatchesLedger
  BY DEF Init, OutboxMatchesLedger
<1>4. NoDoubleBooking
  BY DEF Init, NoDoubleBooking, Booked
<1> QED
  BY <1>1, <1>2, <1>3, <1>4 DEF IInv

\* Every step keeps it.
LEMMA Inductive == IInv /\ [AnyNext]_vars => IInv'
BY TypeStep, FitStep, OutboxStep, NoDoubleBookingStep DEF IInv

\* It holds always.
LEMMA Invariance == Spec => []IInv
BY Initial, Inductive, SpecIsAny, PTL

\* Every variable keeps its type, for any constants.
THEOREM TypeCorrect == Spec => []TypeOK
<1>1. IInv => TypeOK
  BY DEF IInv
<1> QED
  BY <1>1, Invariance, PTL

\* No interleaving of any number of requests, under any of the three strategies
\* or through a hold, with failures and crashes anywhere, books a seat twice.
THEOREM SeatsBookedOnce == Spec => []NoDoubleBooking
<1>1. IInv => NoDoubleBooking
  BY DEF IInv
<1> QED
  BY <1>1, Invariance, PTL

\* The transactional outbox never misses a booking or a cancellation and never
\* announces one that did not happen.
THEOREM OutboxFaithful == Spec => []OutboxMatchesLedger
<1>1. IInv => OutboxMatchesLedger
  BY DEF IInv
<1> QED
  BY <1>1, Invariance, PTL

\* Where the wallet pays for bookings, every step that moves money or rows moves
\* one reservation and exactly its price.
LEMMA WalletStep ==
  ASSUME Provider = "wallet", IInv, [AnyNext]_vars,
         ~ UNCHANGED <<balance, reservations, payments>>
  PROVE  \E o \in Requests :
           /\ LedgerStep(o)
           /\ \A q \in Requests \ {o} : /\ reservations'[q] = reservations[q]
                                        /\ payments'[q] = payments[q]
<1>1. ~ UNCHANGED ledger
  BY DEF ledger
<1>2. ASSUME NEW r \in Requests, BooksFor(r)
      PROVE  /\ LedgerStep(r)
             /\ \A q \in Requests \ {r} : /\ reservations'[q] = reservations[q]
                                          /\ payments'[q] = payments[q]
  <2>1. /\ reservations[r] = Nil /\ reservations'[r] # Nil
        /\ reservations'[r].status = "booked"
        /\ reservations'[r].user = call[r].user
        /\ reservations'[r].slot = call[r].slot
        /\ payments'[r] = SlotPrice[call[r].slot]
        /\ \A q \in Requests \ {r} : /\ reservations'[q] = reservations[q]
                                     /\ payments'[q] = payments[q]
    BY <1>2, BooksForFacts DEF IInv
  <2>2. balance' = [balance EXCEPT ![call[r].user] = @ - SlotPrice[call[r].slot]]
    BY <1>2 DEF BooksFor, WriteBookingAndCharge
  <2> QED
    BY <2>1, <2>2 DEF LedgerStep
<1>3. ASSUME NEW r \in Requests, NEW o \in Requests, CancelsFor(r, o)
      PROVE  /\ LedgerStep(o)
             /\ \A q \in Requests \ {o} : /\ reservations'[q] = reservations[q]
                                          /\ payments'[q] = payments[q]
  <2>1. /\ Booked(o) /\ reservations[o].user = call[r].user
        /\ reservations'[o] = [reservations[o] EXCEPT !.status = "cancelled"]
        /\ \A q \in Requests \ {o} : reservations'[q] = reservations[q]
    BY <1>3, CancelsForFacts DEF IInv
  <2>2. /\ payments' = payments
        /\ balance' = [balance EXCEPT ![call[r].user] = @ + payments[o]]
    BY <1>3 DEF CancelsFor
  <2> QED
    BY <2>1, <2>2 DEF LedgerStep, Booked
<1> QED
  BY <1>1, <1>2, <1>3, LedgerSteps DEF IInv

\* A wallet pays each booking once and is refunded each cancellation once, for any
\* number of racing and repeated bookings and cancellations.
THEOREM WalletFollowsLedger ==
  ASSUME Provider = "wallet"
  PROVE  Spec => WalletMovesWithBookings
<1> DEFINE A == balance' # balance \/ reservations' # reservations \/ payments' # payments =>
                  \E o \in Requests :
                    /\ LedgerStep(o)
                    /\ \A q \in Requests \ {o} : /\ reservations'[q] = reservations[q]
                                                 /\ payments'[q] = payments[q]
<1>1. IInv /\ [AnyNext]_vars => [A]_vars
  BY WalletStep
<1>2. Spec => [][A]_vars
  BY <1>1, Invariance, SpecIsAny, PTL
<1> QED
  BY <1>2 DEF WalletMovesWithBookings

-------------------------------------------------------------------------------
(* Reservations implements BookingLedger, where the wallet pays for bookings *)

\* A reservation was paid the price of its slot, which is what a refund returns.
PaidInFull ==
  \A o \in Requests :
    reservations[o] # Nil => payments[o] = SlotPrice[reservations[o].slot]

LInv == IInv /\ PaidInFull

\* Prices never change under a payment.
LEMMA PaidInFullStep ==
  ASSUME IInv, PaidInFull, [AnyNext]_vars
  PROVE  PaidInFull'
<1>1. CASE UNCHANGED ledger
  BY <1>1 DEF PaidInFull, ledger
<1>2. ASSUME NEW r \in Requests, BooksFor(r) PROVE PaidInFull'
  <2>1. /\ reservations'[r].slot = call[r].slot
        /\ payments'[r] = SlotPrice[call[r].slot]
        /\ \A q \in Requests \ {r} : /\ reservations'[q] = reservations[q]
                                     /\ payments'[q] = payments[q]
    BY <1>2, BooksForFacts DEF IInv
  <2> QED
    BY <2>1 DEF PaidInFull
<1>3. ASSUME NEW r \in Requests, NEW o \in Requests, CancelsFor(r, o) PROVE PaidInFull'
  <2>1. /\ reservations[o] # Nil /\ reservations'[o].slot = reservations[o].slot
        /\ \A q \in Requests \ {o} : reservations'[q] = reservations[q]
    BY <1>3, CancelsForFacts DEF IInv, Booked
  <2>2. payments' = payments
    BY <1>3 DEF CancelsFor
  <2> QED
    BY <2>1, <2>2 DEF PaidInFull
<1> QED
  BY <1>1, <1>2, <1>3, LedgerSteps DEF IInv

\* The invariant the refinement rests on.
LEMMA LedgerInvariance == Spec => []LInv
<1>1. Init => LInv
  BY Initial DEF LInv, Init, PaidInFull
<1>2. LInv /\ [AnyNext]_vars => LInv'
  BY Inductive, PaidInFullStep DEF LInv
<1> QED
  BY <1>1, <1>2, SpecIsAny, PTL

-------------------------------------------------------------------------------
(* Who has a seat *)

OwnersMatch ==
  \A o \in Requests :
    Booked(o) => /\ SeatOf(reservations[o]) \in Seats
                 /\ Owner[SeatOf(reservations[o])] = reservations[o].user

\* The user of a seat's live reservation has it.
LEMMA OwnerOfBooked == IInv => OwnersMatch
<1> SUFFICES ASSUME IInv, NEW o \in Requests, Booked(o)
             PROVE  /\ SeatOf(reservations[o]) \in Seats
                    /\ Owner[SeatOf(reservations[o])] = reservations[o].user
  BY DEF OwnersMatch
<1> DEFINE seat == SeatOf(reservations[o])
<1>1. /\ reservations[o].user \in Users
      /\ reservations[o].table \in Tables /\ reservations[o].slot \in Slots
  BY DEF IInv, TypeOK, Booked, ReservationRow
<1>2. /\ seat \in Seats
      /\ seat[1] = reservations[o].table /\ seat[2] = reservations[o].slot
  BY <1>1 DEF SeatOf, Seats
<1>3. Has(reservations[o].user, seat)
  BY DEF Has
<1>4. PICK u \in Users : u = (CHOOSE v \in Users : Has(v, seat)) /\ Has(u, seat)
  BY <1>1, <1>3
<1>5. u = reservations[o].user
  <2>1. PICK q \in Requests : /\ Booked(q) /\ SeatOf(reservations[q]) = seat
                              /\ reservations[q].user = u
    BY <1>4 DEF Has
  <2>2. q = o
    BY <2>1 DEF IInv, NoDoubleBooking, SeatOf
  <2> QED
    BY <2>1, <2>2
<1>6. Taken(seat[1], seat[2])
  BY <1>2 DEF Taken
<1> QED
  BY <1>2, <1>4, <1>5, <1>6 DEF Owner

\* The same, after a step.
LEMMA OwnerOfBookedNext == IInv' => OwnersMatch'
BY OwnerOfBooked, PTL

\* Owners are a function of seats.
LEMMA OwnerFunction ==
  /\ Owner = [seat \in Seats |-> Owner[seat]]
  /\ Owner' = [seat \in Seats |-> Owner'[seat]]
BY DEF Owner

\* A seat with no live reservation is nobody's.
LEMMA OwnerOfFree ==
  ASSUME NEW t \in Tables, NEW s \in Slots
  PROVE  /\ ~ Taken(t, s) => Owner[<<t, s>>] = Nil
         /\ ~ Taken(t, s)' => Owner'[<<t, s>>] = Nil
BY DEF Owner, Seats

\* A seat whose live reservations a step leaves alone stays whose it was.
LEMMA OwnerStays ==
  ASSUME IInv, IInv', NEW t \in Tables, NEW s \in Slots, NEW o \in Requests,
         \A q \in Requests \ {o} : reservations'[q] = reservations[q],
         Booked(o) => SeatOf(reservations[o]) # <<t, s>>,
         Booked(o)' => SeatOf(reservations'[o]) # <<t, s>>
  PROVE  Owner'[<<t, s>>] = Owner[<<t, s>>]
<1>1. CASE Taken(t, s)
  <2>1. PICK q \in Requests : Booked(q) /\ SeatOf(reservations[q]) = <<t, s>>
    BY <1>1 DEF Taken, SeatOf
  <2>2. reservations'[q] = reservations[q] /\ Booked(q)'
    BY <2>1 DEF Booked
  <2> QED
    BY <2>1, <2>2, OwnerOfBooked, OwnerOfBookedNext DEF OwnersMatch, SeatOf
<1>2. CASE ~ Taken(t, s)
  <2>1. ~ Taken(t, s)'
    BY <1>2 DEF Taken, Booked, SeatOf
  <2> QED
    BY <1>2, <2>1, OwnerOfFree
<1> QED
  BY <1>1, <1>2

-------------------------------------------------------------------------------
(* Every step is a ledger's, or a stutter *)

\* A booking of a request is a Book of the ledger.
LEMMA BookRefines ==
  ASSUME Provider = "wallet", LInv, LInv', NEW r \in Requests, BooksFor(r)
  PROVE  Ledger!Next
<1> DEFINE c == call[r]
           seat == SeatOf(c)
<1>1. /\ c \in Call /\ c.op # "cancel"
      /\ reservations[r] = Nil /\ Booked(r)'
      /\ reservations'[r].user = c.user /\ SeatOf(reservations'[r]) = seat
      /\ \A q \in Requests \ {r} : reservations'[q] = reservations[q]
  BY BooksForFacts DEF LInv, IInv, Booked, SeatOf
<1>2. c.user \in Users /\ c.table \in Tables /\ c.slot \in Slots
  BY <1>1, CallTypes
<1>3. seat \in Seats /\ seat = <<c.table, c.slot>> /\ SeatPrice[seat] = SlotPrice[c.slot]
  BY <1>2 DEF Seats, SeatOf, SeatPrice
<1>4. Owner[seat] = Nil
  BY <1>2, <1>3, OwnerOfFree DEF BooksFor
<1>5. balance[c.user] >= SeatPrice[seat]
  BY <1>3 DEF BooksFor, CanPay
<1>6. balance' = [balance EXCEPT ![c.user] = @ - SeatPrice[seat]]
  BY <1>3 DEF BooksFor, WriteBookingAndCharge
<1>7. Owner' = [Owner EXCEPT ![seat] = c.user]
  <2>1. Owner'[seat] = c.user
    BY <1>1, OwnerOfBookedNext DEF OwnersMatch, LInv, SeatOf
  <2>2. ASSUME NEW t \in Tables, NEW s \in Slots, <<t, s>> # seat
        PROVE  Owner'[<<t, s>>] = Owner[<<t, s>>]
    BY <1>1, <2>2, OwnerStays DEF LInv, Booked
  <2>3. \A x \in Seats : Owner'[x] = IF x = seat THEN c.user ELSE Owner[x]
    BY <2>1, <2>2 DEF Seats
  <2> HIDE DEF seat
  <2> QED
    BY <1>3, <2>3, OwnerFunction
<1> QED
  BY <1>2, <1>3, <1>4, <1>5, <1>6, <1>7 DEF Ledger!Next, Ledger!Book

\* A cancellation by a request is a Cancel of the ledger.
LEMMA CancelRefines ==
  ASSUME Provider = "wallet", LInv, LInv', NEW r \in Requests, NEW o \in Requests,
         CancelsFor(r, o)
  PROVE  Ledger!Next
<1> DEFINE row == reservations[o]
           seat == SeatOf(row)
<1>1. /\ Booked(o) /\ row.user = call[r].user
      /\ ~ Booked(o)'
      /\ \A q \in Requests \ {o} : reservations'[q] = reservations[q]
  BY CancelsForFacts DEF LInv, IInv, Booked
<1>2. row.user \in Users /\ row.table \in Tables /\ row.slot \in Slots
  BY <1>1 DEF LInv, IInv, TypeOK, Booked, ReservationRow
<1>3. seat \in Seats /\ seat = <<row.table, row.slot>> /\ Owner[seat] = row.user
  BY <1>1, <1>2, OwnerOfBooked DEF OwnersMatch, LInv, Seats, SeatOf
<1>4. payments[o] = SeatPrice[seat]
  BY <1>1, <1>3 DEF LInv, PaidInFull, Booked, SeatPrice
<1>5. balance' = [balance EXCEPT ![row.user] = @ + SeatPrice[seat]]
  BY <1>1, <1>4 DEF CancelsFor
<1>6. Owner' = [Owner EXCEPT ![seat] = Nil]
  <2>1. PICK t \in Tables, s \in Slots : t = row.table /\ s = row.slot
    BY <1>2
  <2>2. Owner'[seat] = Nil
    <3>1. ~ Taken(t, s)'
      BY <1>1, <2>1 DEF LInv, IInv, NoDoubleBooking, Taken, Booked
    <3> QED
      BY <1>3, <2>1, <3>1, OwnerOfFree
  <2>3. ASSUME NEW t2 \in Tables, NEW s2 \in Slots, <<t2, s2>> # seat
        PROVE  Owner'[<<t2, s2>>] = Owner[<<t2, s2>>]
    BY <1>1, <2>3, OwnerStays DEF LInv
  <2>4. \A x \in Seats : Owner'[x] = IF x = seat THEN Nil ELSE Owner[x]
    BY <2>2, <2>3 DEF Seats
  <2> HIDE DEF seat
  <2> QED
    BY <1>3, <2>4, OwnerFunction
<1> QED
  BY <1>2, <1>3, <1>5, <1>6 DEF Ledger!Next, Ledger!Cancel

\* The booking core is a ledger of seats and wallets, whatever its requests do:
\* no step of any of its transactions can be seen half done.
THEOREM ImplementsLedger ==
  ASSUME Provider = "wallet"
  PROVE  Spec => BooksLikeALedger
<1>1. Init => Ledger!Init
  BY DEF Init, Ledger!Init, Owner, Taken, Booked
<1>2. LInv /\ LInv' /\ [AnyNext]_vars => [Ledger!Next]_(Ledger!vars)
  <2> SUFFICES ASSUME LInv, LInv', [AnyNext]_vars PROVE [Ledger!Next]_(Ledger!vars)
    OBVIOUS
  <2>1. CASE UNCHANGED ledger
    BY <2>1 DEF ledger, Ledger!vars, Owner, Taken, Has, Booked
  <2> QED
    BY <2>1, BookRefines, CancelRefines, LedgerSteps DEF LInv, IInv
<1> QED
  BY <1>1, <1>2, LedgerInvariance, SpecIsAny, PTL DEF BooksLikeALedger, Ledger!Spec
================================================================================
