----------------------------- MODULE AnswerProofs -----------------------------
(***************************************************************************)
(* What requests are answered, for any constants: a refused confirm left   *)
(* nothing behind, a success an idempotency key has stored is a booking,   *)
(* and a stored answer is the one its request was given, for good.         *)
(***************************************************************************)
EXTENDS ExclusionProofs

-------------------------------------------------------------------------------
(* Whose step it is *)

Untouched(q) == pc'[q] = pc[q] /\ reply'[q] = reply[q] /\ call'[q] = call[q]

\* A step of one request leaves the others where they are.
LEMMA OthersStay ==
  ASSUME TypeOK, NEW r \in Requests,
         (\E c \in Call : Arrive(r, c)) \/ Handle(r) \/ Fault(r) \/ AnswerLost(r) \/ Crash(r),
         NEW q \in Requests \ {r}
  PROVE  Untouched(q)
<1>1. ASSUME UNCHANGED call, \E step : Goto(r, step),
             reply' = reply \/ \E status, id : Answer(r, status, id)
      PROVE  Untouched(q)
  BY <1>1 DEF Untouched, Goto, Answer, TypeOK
<1>2. ASSUME UNCHANGED call, \E status : Reject(r, status) PROVE Untouched(q)
  BY <1>1, <1>2 DEF Reject
<1>3. ASSUME NEW step, NEW refusal, NEW next, Check(r, step, refusal, next)
      PROVE  Untouched(q)
  BY <1>1, <1>2, <1>3 DEF Check, locals
<1>4. ASSUME NEW c \in Call, Arrive(r, c) PROVE Untouched(q)
  BY <1>4 DEF Arrive, Goto, Untouched, TypeOK
<1>5. ASSUME BookStep(r) PROVE Untouched(q)
  <2>1. CASE BookChecks(r) \/ ReadExisting(r)
    BY <1>3, <2>1 DEF BookChecks, ReadExisting
  <2>2. CASE ~ (BookChecks(r) \/ ReadExisting(r))
    <3>1. /\ UNCHANGED call
          /\ \/ \E status : Reject(r, status)
             \/ \E step : Goto(r, step) /\ reply' = reply
             \/ \E step, status, id : Goto(r, step) /\ Answer(r, status, id)
      BY <1>5, <2>2 DEF BookStep, LockSlot, ReadVersion, SwapWon, SwapLost,
         BookInTransaction, LockedTransaction, DirectWrite, locals
    <3> QED
      BY <1>1, <1>2, <3>1
  <2> QED
    BY <2>1, <2>2
<1>6. ASSUME HoldStep(r) PROVE Untouched(q)
  <2>1. CASE HoldChecks(r) \/ HoldWindow(r)
    BY <1>3, <2>1 DEF HoldChecks, HoldWindow
  <2>2. CASE AcquireHold(r) \/ WriteMeta(r) \/ ReuseTooLate(r)
    <3>1. /\ UNCHANGED call
          /\ \/ \E status : Reject(r, status)
             \/ \E step : Goto(r, step) /\ reply' = reply
             \/ \E step, status, id : Goto(r, step) /\ Answer(r, status, id)
      BY <2>2 DEF AcquireHold, WriteMeta, ReuseTooLate, locals
    <3> QED
      BY <1>1, <1>2, <3>1
  <2> QED
    BY <1>6, <2>1, <2>2 DEF HoldStep
<1>7. ASSUME ConfirmStep(r) PROVE Untouched(q)
  <2>1. CASE ConfirmChecks(r)
    BY <1>3, <2>1 DEF ConfirmChecks
  <2>2. CASE LookupKey(r)
    BY <2>2 DEF LookupKey, Goto, Untouched, locals, TypeOK
  <2>3. CASE ~ (ConfirmChecks(r) \/ LookupKey(r))
    <3>1. /\ UNCHANGED call
          /\ \/ \E status : Reject(r, status)
             \/ \E step : Goto(r, step) /\ reply' = reply
             \/ \E step, status, id : Goto(r, step) /\ Answer(r, status, id)
      BY <1>7, <2>3 DEF ConfirmStep, ClaimKey, ConsumeHold, ConfirmWrite, ConfirmRollback,
         StoreOutcome, DropKey, locals
    <3> QED
      BY <1>1, <1>2, <3>1
  <2> QED
    BY <2>1, <2>2, <2>3
<1>8. ASSUME CancelStep(r) \/ Publish(r) \/ Fault(r) \/ Crash(r) PROVE Untouched(q)
  <2>1. CASE CancelChecks(r)
    BY <1>3, <2>1 DEF CancelChecks
  <2>2. CASE ~ CancelChecks(r)
    <3>1. /\ UNCHANGED call
          /\ \/ \E status : Reject(r, status)
             \/ \E step : Goto(r, step) /\ reply' = reply
             \/ \E step, status, id : Goto(r, step) /\ Answer(r, status, id)
      BY <1>8, <2>2 DEF CancelStep, CancelTransaction, Publish, Fault, Crash, Breaks, locals
    <3> QED
      BY <1>1, <1>2, <3>1
  <2> QED
    BY <2>1, <2>2
<1>9. ASSUME AnswerLost(r) PROVE Untouched(q)
  BY <1>1, <1>9, LostShape DEF locals
<1> QED
  BY <1>4, <1>5, <1>6, <1>7, <1>8, <1>9 DEF Handle

\* A request is moved by its own steps only.
LEMMA OwnStep ==
  ASSUME TypeOK, [AnyNext]_vars, NEW q \in Requests
  PROVE  \/ Untouched(q)
         \/ (\E c \in Call : Arrive(q, c)) \/ Handle(q) \/ Fault(q) \/ AnswerLost(q)
         \/ Crash(q)
<1>1. CASE Environment \/ UNCHANGED vars
  BY <1>1 DEF Environment, ExpireHold, ExpireMeta, Tick, vars, locals, Untouched
<1> QED
  BY <1>1, OthersStay DEF AnyNext, Rest

\* A request that has not arrived can only arrive, and one that has ended stays.
LEMMA IdleWaits ==
  ASSUME NEW r \in Requests, pc[r] \in {"idle"} \cup Ended
  PROVE  ~ (Handle(r) \/ Fault(r) \/ AnswerLost(r) \/ Crash(r))
BY LostShape DEF Handle, BookStep, BookChecks, LockSlot, ReadVersion, ReadExisting, SwapWon, SwapLost,
   BookInTransaction, LockedTransaction, HoldStep, HoldChecks, HoldWindow, AcquireHold,
   WriteMeta, ReuseTooLate, ConfirmStep, ClaimKey, LookupKey, ConfirmChecks, ConsumeHold,
   ConfirmWrite, ConfirmRollback, StoreOutcome, DropKey, CancelStep, CancelChecks,
   CancelTransaction, Publish, Check, At, Fault, Crash, Breaks, Steps, Ended

\* A request that has arrived never waits to arrive again.
LEMMA ArrivedStays ==
  ASSUME TypeOK, RequestsFit, [AnyNext]_vars, NEW r \in Requests, pc[r] # "idle"
  PROVE  pc'[r] # "idle"
<1>1. CASE pc[r] \notin BeforeHold
  BY <1>1, PastStays DEF BeforeHold
<1>2. CASE pc[r] \in {"hold", "holdWindow", "acquire"}
  <2>1. ASSUME \E step : step # "idle" /\ Goto(r, step) PROVE pc'[r] # "idle"
    BY <2>1 DEF Goto, TypeOK
  <2>2. ASSUME Handle(r) PROVE \E step : step # "idle" /\ Goto(r, step)
    <3>1. HoldChecks(r) \/ HoldWindow(r) \/ AcquireHold(r)
      BY <1>2, <2>2 DEF Handle, BookStep, BookChecks, LockSlot, ReadVersion, ReadExisting,
         SwapWon, SwapLost, BookInTransaction, LockedTransaction, HoldStep, WriteMeta,
         ReuseTooLate, ConfirmStep, ClaimKey, LookupKey, ConfirmChecks, ConsumeHold,
         ConfirmWrite, ConfirmRollback, StoreOutcome, DropKey, CancelStep, CancelChecks,
         CancelTransaction, Publish, Check, At
    <3> QED
      BY <3>1 DEF HoldChecks, HoldWindow, AcquireHold, Check, Reject
  <2>3. ASSUME Fault(r) \/ AnswerLost(r) \/ Crash(r)
        PROVE  \E step : step # "idle" /\ Goto(r, step)
    BY <2>3, LostShape DEF Fault, Crash
  <2> QED
    BY <1>2, <2>1, <2>2, <2>3, OwnStep DEF Arrive, At, Untouched
<1> QED
  BY <1>1, <1>2 DEF BeforeHold

\* The steps a confirm can take.
LEMMA ConfirmOwnStep ==
  ASSUME TypeOK, RequestsFit, [AnyNext]_vars, NEW q \in Requests,
         pc[q] # "idle", call[q].op = "confirm"
  PROVE  Untouched(q) \/ ConfirmStep(q) \/ Publish(q) \/ Fault(q) \/ AnswerLost(q)
         \/ Crash(q)
<1>1. pc[q] \notin BookSteps \cup HoldSteps \cup CancelSteps
  BY DEF RequestsFit, StepFitsCall
<1>2. ~ \E c \in Call : Arrive(q, c)
  BY DEF Arrive, At
<1>3. ~ BookStep(q)
  BY <1>1 DEF BookStep, BookChecks, LockSlot, ReadVersion, ReadExisting, SwapWon, SwapLost,
     BookInTransaction, LockedTransaction, Check, At, BookSteps
<1>4. ~ HoldStep(q)
  BY <1>1 DEF HoldStep, HoldChecks, HoldWindow, AcquireHold, WriteMeta, ReuseTooLate,
     Check, At, HoldSteps
<1>5. ~ CancelStep(q)
  BY <1>1 DEF CancelStep, CancelChecks, CancelTransaction, Check, At, CancelSteps
<1> QED
  BY <1>2, <1>3, <1>4, <1>5, OwnStep DEF Handle

-------------------------------------------------------------------------------
(* Refusals *)

\* A reservation is of its request's call; a confirm that has one was not refused,
\* and a confirm about to answer a success, or allowed by the gate, has one.
AnswerFits(r) ==
  /\ reservations[r] # Nil =>
       /\ reservations[r].user = call[r].user
       /\ reservations[r].table = call[r].table
       /\ reservations[r].slot = call[r].slot
       /\ call[r].op = "confirm" =>
            pc[r] # "lookup" /\ reply[r].status \in {"created", "error"}
  /\ call[r].op = "confirm" /\ pc[r] \in {"publish", "storeOutcome"}
       /\ reply[r].status = "created"
       => reply[r].id = r /\ reservations[r] # Nil
  /\ pc[r] = "dropKey" => reply[r].status = "error"
  /\ \A step : <<r, step, "ALLOW">> \in decisions => reservations[r] # Nil

AnswersFit == \A r \in Requests : AnswerFits(r)

\* A refusal is neither a success nor a failure of the process, no word on the key, and
\* no denial of the gate.
LEMMA RefusalsRefuse ==
  ASSUME NEW c
  PROVE  /\ ConfirmRefusal(c) \notin {"created", "error", "keyMismatch", "denied"}
         /\ WriteRefusal(c) \notin {"created", "error", "keyMismatch", "denied"}
BY DEF ConfirmRefusal, WriteRefusal, TakenRefusal

\* Decisions of a request that allow it are made with its reservation.
LEMMA AllowedStep ==
  ASSUME TypeOK, RequestsFit, [AnyNext]_vars, NEW r \in Requests, NEW step,
         <<r, step, "ALLOW">> \in decisions'
  PROVE  <<r, step, "ALLOW">> \in decisions \/ ConfirmWrite(r)
<1>1. ASSUME NEW q \in Requests, ConfirmStep(q), ~ ConfirmWrite(q)
      PROVE  <<r, step, "ALLOW">> \in decisions
  <2>1. CASE ConfirmRollback(q)
    BY <2>1 DEF ConfirmRollback
  <2>2. CASE ~ ConfirmRollback(q)
    BY <1>1, <2>2 DEF ConfirmStep, ClaimKey, LookupKey, ConfirmChecks, ConsumeHold,
       StoreOutcome, DropKey, Check, shared, gate
  <2> QED
    BY <2>1, <2>2
<1>2. ASSUME NEW q \in Requests, ConfirmWrite(q)
      PROVE  <<r, step, "ALLOW">> \in decisions \/ q = r
  BY <1>2 DEF ConfirmWrite
<1>3. ASSUME NEW q \in Requests, BookStep(q) \/ HoldStep(q) PROVE UNCHANGED decisions
  BY <1>3 DEF BookStep, BookChecks, LockSlot, ReadVersion, ReadExisting, SwapWon, SwapLost,
     BookInTransaction, LockedTransaction, DirectWrite, HoldStep, HoldChecks, HoldWindow,
     AcquireHold, WriteMeta, ReuseTooLate, Check, shared, gate
<1>4. ASSUME NEW q \in Requests, CancelStep(q) \/ Publish(q) \/ Fault(q) \/ Crash(q)
      PROVE  UNCHANGED decisions
  BY <1>4 DEF CancelStep, CancelChecks, CancelTransaction, Publish, Fault, Crash, Breaks,
     Check, shared, gate
<1>5. ASSUME NEW q \in Requests, NEW c \in Call, Arrive(q, c) PROVE UNCHANGED decisions
  BY <1>5 DEF Arrive, shared, gate
<1>6. CASE Environment \/ UNCHANGED vars
  BY <1>6 DEF Environment, ExpireHold, ExpireMeta, Tick, vars, shared, gate
<1>7. ASSUME NEW q \in Requests, AnswerLost(q) PROVE <<r, step, "ALLOW">> \in decisions
  BY <1>7 DEF AnswerLost, LostClaim, LostCommit, LostDenial, LostPublish, LostStore, gate
<1> QED
  BY <1>1, <1>2, <1>3, <1>4, <1>5, <1>6, <1>7 DEF AnyNext, Handle, Rest

\* What is in the decision log stays there.
LEMMA DecisionsStay ==
  ASSUME [AnyNext]_vars
  PROVE  decisions \subseteq decisions'
<1>1. ASSUME NEW q \in Requests, ConfirmStep(q) PROVE decisions \subseteq decisions'
  <2>1. CASE ConfirmWrite(q) \/ ConfirmRollback(q)
    BY <2>1 DEF ConfirmWrite, ConfirmRollback
  <2>2. CASE ~ (ConfirmWrite(q) \/ ConfirmRollback(q))
    BY <1>1, <2>2 DEF ConfirmStep, ClaimKey, LookupKey, ConfirmChecks, ConsumeHold,
       StoreOutcome, DropKey, Check, shared, gate
  <2> QED
    BY <2>1, <2>2
<1>2. ASSUME NEW q \in Requests, BookStep(q) \/ HoldStep(q) PROVE UNCHANGED decisions
  BY <1>2 DEF BookStep, BookChecks, LockSlot, ReadVersion, ReadExisting, SwapWon, SwapLost,
     BookInTransaction, LockedTransaction, DirectWrite, HoldStep, HoldChecks, HoldWindow,
     AcquireHold, WriteMeta, ReuseTooLate, Check, shared, gate
<1>3. ASSUME NEW q \in Requests, CancelStep(q) \/ Publish(q) \/ Fault(q) \/ Crash(q)
      PROVE  UNCHANGED decisions
  BY <1>3 DEF CancelStep, CancelChecks, CancelTransaction, Publish, Fault, Crash, Breaks,
     Check, shared, gate
<1>4. ASSUME NEW q \in Requests, NEW c \in Call, Arrive(q, c) PROVE UNCHANGED decisions
  BY <1>4 DEF Arrive, shared, gate
<1>5. CASE Environment \/ UNCHANGED vars
  BY <1>5 DEF Environment, ExpireHold, ExpireMeta, Tick, vars, shared, gate
<1>6. ASSUME NEW q \in Requests, AnswerLost(q) PROVE decisions \subseteq decisions'
  BY <1>6 DEF AnswerLost, LostClaim, LostCommit, LostDenial, LostPublish, LostStore, gate
<1> QED
  BY <1>1, <1>2, <1>3, <1>4, <1>5, <1>6 DEF AnyNext, Handle, Rest

\* A request gets its reservation in its own transaction.
LEMMA ReservedStep ==
  ASSUME IInv, [AnyNext]_vars, NEW r \in Requests, reservations'[r] # Nil,
         reservations[r] = Nil
  PROVE  BooksFor(r)
<1>1. ASSUME NEW q \in Requests, BooksFor(q) PROVE q = r
  <2>1. \A p \in Requests \ {q} : reservations'[p] = reservations[p]
    BY <1>1, BooksForFacts DEF IInv
  <2> QED
    BY <2>1
<1>2. ASSUME NEW q \in Requests, NEW o \in Requests, CancelsFor(q, o) PROVE FALSE
  BY <1>2, CancelsForFacts DEF IInv, Booked
<1> QED
  BY <1>1, <1>2, LedgerSteps DEF IInv, ledger

\* How a confirm moves: it is moved on or refused before it writes, it writes, or it
\* finishes, replays, or breaks.
LEMMA ConfirmMoves ==
  ASSUME IInv, [AnyNext]_vars, NEW r \in Requests, pc[r] # "idle", call[r].op = "confirm",
         ~ Untouched(r)
  PROVE  \/ pc[r] = "claim" /\ pc'[r] \in {"lookup", "confirm"} /\ reply'[r] = reply[r]
         \/ /\ pc[r] \in {"confirm", "consume"} /\ pc'[r] \in {"consume", "confirmTx"}
            /\ reply'[r] = reply[r]
         \/ /\ pc[r] \in {"confirm", "consume", "confirmTx"}
            /\ \E status : /\ status \notin {"created", "error", "keyMismatch"}
                           /\ Reject(r, status)
                           /\ status = "denied" => <<r, "AUTHORIZE", "DENY">> \in decisions'
            /\ UNCHANGED ledger
         \/ ConfirmWrite(r) \/ Publish(r)
         \/ LookupKey(r) \/ StoreOutcome(r) \/ DropKey(r)
         \/ Fault(r) \/ AnswerLost(r) \/ Crash(r)
<1>1. CASE ClaimKey(r)
  BY <1>1 DEF ClaimKey, At, Goto, IInv, TypeOK
<1>2. CASE ConfirmChecks(r)
  <2>1. /\ UNCHANGED ledger /\ pc[r] = "confirm"
        /\ \/ Goto(r, "consume") /\ reply' = reply
           \/ Reject(r, ConfirmRefusal(call[r]))
    BY <1>2 DEF ConfirmChecks, Check, At, shared
  <2> QED
    BY <2>1, RefusalsRefuse DEF Goto, IInv, TypeOK
<1>3. CASE ConsumeHold(r)
  <2>1. /\ UNCHANGED ledger /\ pc[r] = "consume"
        /\ \/ Goto(r, "confirmTx") /\ reply' = reply
           \/ Reject(r, "gone")
    BY <1>3 DEF ConsumeHold, At
  <2>2. CASE Goto(r, "confirmTx")
    BY <2>1, <2>2 DEF Goto, IInv, TypeOK
  <2> QED
    BY <2>1, <2>2
<1>4. CASE ConfirmRollback(r)
  <2>1. UNCHANGED ledger /\ pc[r] = "confirmTx"
        /\ \/ Reject(r, WriteRefusal(call[r]))
           \/ Reject(r, "denied") /\ <<r, "AUTHORIZE", "DENY">> \in decisions'
    BY <1>4 DEF ConfirmRollback, At
  <2> QED
    BY <2>1, RefusalsRefuse
<1> QED
  BY <1>1, <1>2, <1>3, <1>4, ConfirmOwnStep DEF ConfirmStep, IInv

\* A row that is there is its request's, of a call that has not changed.
LEMMA RowOfCall ==
  ASSUME IInv, AnswersFit, [AnyNext]_vars, NEW r \in Requests, reservations'[r] # Nil
  PROVE  /\ pc[r] # "idle" /\ call'[r] = call[r]
         /\ reservations'[r].user = call[r].user
         /\ reservations'[r].table = call[r].table
         /\ reservations'[r].slot = call[r].slot
<1>1. CASE reservations[r] = Nil
  <2>1. BooksFor(r)
    BY <1>1, ReservedStep
  <2> QED
    BY <2>1, BooksForFacts, CallStable DEF BooksFor, IInv
<1>2. CASE reservations[r] # Nil
  <2>1. pc[r] # "idle"
    BY <1>2 DEF IInv, RequestsFit, StepFitsCall, BeforeWrite
  <2> QED
    BY <1>2, <2>1, RowsStay, CallStable DEF IInv, AnswersFit, AnswerFits
<1> QED
  BY <1>1, <1>2

\* A confirm is past its write once it has a reservation, and has one only by its write.
LEMMA Reserved ==
  ASSUME IInv, AnswersFit, [AnyNext]_vars, NEW r \in Requests, pc[r] # "idle",
         call[r].op = "confirm"
  PROVE  /\ reservations[r] # Nil =>
              /\ pc[r] \in {"publish", "storeOutcome", "dropKey", "done", "crashed"}
              /\ reservations'[r] # Nil
         /\ reservations'[r] # Nil => reservations[r] # Nil \/ pc[r] = "confirmTx"
<1>1. reservations[r] # Nil =>
        pc[r] \in {"publish", "storeOutcome", "dropKey", "done", "crashed"}
  BY DEF IInv, TypeOK, RequestsFit, StepFitsCall, BeforeWrite, AnswersFit, AnswerFits,
         Steps, Ended, HoldSteps, BookSteps, CancelSteps
<1>2. reservations'[r] # Nil => reservations[r] # Nil \/ pc[r] = "confirmTx"
  BY ReservedStep, BooksForFacts DEF IInv
<1> QED
  BY <1>1, <1>2, RowsStay DEF IInv

\* What a commit leaves.
LEMMA WriteFacts ==
  ASSUME IInv, [AnyNext]_vars, NEW r \in Requests, ConfirmWrite(r)
  PROVE  /\ reservations'[r] # Nil /\ pc'[r] = "publish"
         /\ reply'[r] = [status |-> "created", id |-> r]
<1>1. /\ call[r] \in Call /\ call[r].op = "confirm" /\ pc'[r] = "publish"
      /\ reply'[r] = [status |-> "created", id |-> r]
  BY DEF ConfirmWrite, At, Goto, Answer, IInv, TypeOK, RequestsFit, StepFitsCall, ConfirmSteps
<1>2. reservations'[r] = [user |-> call[r].user, table |-> call[r].table,
                          slot |-> call[r].slot, status |-> "booked"]
  BY DEF ConfirmWrite, WriteBookingAndCharge, IInv, TypeOK
<1>3. reservations'[r] \in ReservationRow
  BY <1>1, <1>2, CallTypes DEF ReservationRow
<1> QED
  BY <1>1, <1>3, NilAssumption

\* A confirm's answer fits what it has done.
LEMMA AnswerFitsStep ==
  ASSUME IInv, IInv', AnswersFit, [AnyNext]_vars, NEW r \in Requests, pc[r] # "idle",
         call[r].op = "confirm"
  PROVE  /\ reservations'[r] # Nil =>
              pc'[r] # "lookup" /\ reply'[r].status \in {"created", "error"}
         /\ pc'[r] \in {"publish", "storeOutcome"} /\ reply'[r].status = "created"
              => reply'[r].id = r /\ reservations'[r] # Nil
         /\ pc'[r] = "dropKey" => reply'[r].status = "error"
<1>1. AnswerFits(r)
  BY DEF AnswersFit
<1>2. CASE Untouched(r)
  <2>1. reservations'[r] # Nil => reservations[r] # Nil
    BY <1>2, ReservedStep, BooksForFacts DEF BooksFor, Untouched, IInv
  <2> QED
    BY <1>1, <1>2, <2>1, Reserved DEF AnswerFits, Untouched
<1>3. CASE pc[r] = "claim" /\ pc'[r] \in {"lookup", "confirm"} /\ reply'[r] = reply[r]
  BY <1>3, Reserved
<1>4. CASE pc[r] \in {"confirm", "consume"} /\ pc'[r] \in {"consume", "confirmTx"}
  BY <1>4, Reserved
<1>5. CASE /\ pc[r] \in {"confirm", "consume", "confirmTx"}
           /\ \E status : status \notin {"created", "error"} /\ Reject(r, status)
           /\ UNCHANGED ledger
  <2>1. pc'[r] \in {"done", "storeOutcome"} /\ reply'[r].status \notin {"created", "error"}
    BY <1>5 DEF Reject, Answer, Goto, IInv, TypeOK
  <2>2. reservations[r] = Nil /\ reservations' = reservations
    BY <1>5, Reserved DEF ledger
  <2> QED
    BY <2>1, <2>2
<1>6. CASE ConfirmWrite(r)
  <2>1. /\ reservations'[r] # Nil /\ pc'[r] = "publish"
        /\ reply'[r] = [status |-> "created", id |-> r]
    BY <1>6, WriteFacts
  <2> QED
    BY <2>1
<1>7. CASE Publish(r) \/ StoreOutcome(r) \/ DropKey(r)
  <2>1. /\ pc[r] \in {"publish", "storeOutcome", "dropKey"} /\ reply'[r] = reply[r]
        /\ pc'[r] \in {"done", "storeOutcome"}
        /\ pc'[r] = "storeOutcome" => pc[r] = "publish"
    BY <1>7 DEF Publish, StoreOutcome, DropKey, At, Goto, IInv, TypeOK
  <2> QED
    BY <1>1, <2>1, Reserved DEF AnswerFits
<1>8. CASE LookupKey(r)
  BY <1>8, Reserved DEF LookupKey, At, Goto, IInv, TypeOK
<1>9. CASE Fault(r)
  BY <1>9 DEF Fault, Answer, Goto, IInv, TypeOK
<1>10. CASE Crash(r)
  <2>1. pc'[r] = "crashed" /\ reply'[r] = reply[r] /\ UNCHANGED reservations
    BY <1>10 DEF Crash, Goto, Breaks, ledger, IInv, TypeOK
  <2> QED
    BY <1>1, <2>1, Reserved DEF AnswerFits
<1>11. CASE AnswerLost(r)
  <2>1. pc'[r] \in {"done", "dropKey"} /\ reply'[r].status = "error"
    BY <1>11, LostShape DEF Answer, Goto, IInv, TypeOK
  <2> QED
    BY <2>1
<1> QED
  BY <1>2, <1>3, <1>4, <1>5, <1>6, <1>7, <1>8, <1>9, <1>10, <1>11, ConfirmMoves

\* Every step keeps answers fitting.
LEMMA AnswersFitStep ==
  ASSUME IInv, IInv', AnswersFit, [AnyNext]_vars
  PROVE  AnswersFit'
<1> SUFFICES ASSUME NEW r \in Requests PROVE AnswerFits(r)'
  BY DEF AnswersFit
<1>1. ASSUME NEW step, <<r, step, "ALLOW">> \in decisions' PROVE reservations'[r] # Nil
  <2>1. CASE <<r, step, "ALLOW">> \in decisions
    BY <2>1, RowsStay DEF AnswersFit, AnswerFits, IInv
  <2>2. CASE ConfirmWrite(r)
    BY <2>2, WriteFacts
  <2> QED
    BY <1>1, <2>1, <2>2, AllowedStep DEF IInv
<1>2. CASE pc[r] = "idle"
  <2>1. reservations'[r] = Nil
    BY <1>2, RowOfCall
  <2>2. pc'[r] \notin {"publish", "storeOutcome", "dropKey"}
    <3>1. CASE Untouched(r)
      BY <1>2, <3>1 DEF Untouched
    <3>2. ASSUME NEW c \in Call, Arrive(r, c) PROVE pc'[r] = FirstStep(c)
      BY <3>2 DEF Arrive, Goto, IInv, TypeOK
    <3>3. \A c \in Call : FirstStep(c) \in {"book", "hold", "claim", "confirm", "cancel"}
      BY CallTypes DEF FirstStep
    <3> QED
      BY <1>2, <3>1, <3>2, <3>3, IdleWaits, OwnStep DEF IInv
  <2> QED
    BY <1>1, <2>1, <2>2 DEF AnswerFits
<1>3. CASE pc[r] # "idle" /\ call[r].op # "confirm"
  <2>1. call'[r] = call[r]
    BY <1>3, CallStable DEF IInv
  <2>2. pc'[r] # "dropKey"
    BY <1>3, <2>1 DEF IInv, RequestsFit, StepFitsCall, ConfirmSteps, KeySteps
  <2> QED
    BY <1>1, <1>3, <2>1, <2>2, RowOfCall DEF AnswerFits
<1>4. CASE pc[r] # "idle" /\ call[r].op = "confirm"
  <2>1. call'[r] = call[r]
    BY <1>4, CallStable DEF IInv
  <2> QED
    BY <1>1, <1>4, <2>1, RowOfCall, AnswerFitsStep DEF AnswerFits
<1> QED
  BY <1>2, <1>3, <1>4

\* The answers fit always.
LEMMA AnswersInvariance == Spec => [](LInv /\ AnswersFit)
<1>1. Init => AnswersFit
  BY DEF Init, AnswersFit, AnswerFits
<1>2. LInv /\ LInv' /\ AnswersFit /\ [AnyNext]_vars => AnswersFit'
  BY AnswersFitStep DEF LInv
<1> QED
  BY <1>1, <1>2, LedgerInvariance, SpecIsAny, PTL

-------------------------------------------------------------------------------
(* Stored answers *)

OwnRow(r) == [requestHash |-> HashOf(call[r]), outcome |-> Nil]

\* The row of a booking that is stored and about to be dropped again.
DoomedRow(r) ==
  [requestHash |-> HashOf(call[r]), outcome |-> [status |-> "created", id |-> r]]

\* The row of an executing request is the one it claimed, without an outcome, until it
\* fails after it has stored its booking.
RowsFit ==
  \A r \in Requests :
    Executing(r) =>
      \/ keys[KeyOf(call[r])] = OwnRow(r)
      \/ /\ pc[r] = "dropKey" /\ reservations[r] # Nil
         /\ keys[KeyOf(call[r])] = DoomedRow(r)

\* A stored denial has lost its verdict; a stored success names a request.
OutcomesFit ==
  \A k \in Users \X Keys :
    keys[k] # Nil /\ keys[k].outcome # Nil =>
      /\ keys[k].outcome.status # "denied"
      /\ keys[k].outcome.status = "created" => keys[k].outcome.id \in Requests

\* Who was answered has its answer in its key's row, of its own body, or replayed the
\* booking of a request that has failed since, and ended.
KeptFit ==
  \A r \in Requests :
    /\ pc[r] = "done"
    /\ Keyed(r)
    /\ reply[r].status \notin {"error", "inProgress", "keyMismatch"}
    => LET row == keys[KeyOf(call[r])]
           o == reply[r].id IN
       \/ /\ row # Nil /\ row.outcome = Stored(reply[r])
          /\ row.requestHash = HashOf(call[r])
       \/ /\ reply[r].status = "created" /\ o \in Requests \ {r}
          /\ Keyed(o) /\ KeyOf(call[o]) = KeyOf(call[r]) /\ HashOf(call[o]) = HashOf(call[r])
          /\ reservations[o] # Nil /\ pc[o] = "done" /\ reply[o].status = "error"

\* Who was denied is in the decision log, denied.
DenialsFit ==
  \A r \in Requests :
    reply[r].status = "denied" =>
      /\ pc[r] # "idle"
      /\ call[r].op = "confirm" => <<r, "AUTHORIZE", "DENY">> \in decisions

KInv ==
  /\ LInv /\ KeysFit /\ AnswersFit /\ RowsFit /\ OutcomesFit
  /\ StoredSuccessIsReal /\ KeptFit /\ DenialsFit

\* Storing an answer changes a denial only.
LEMMA StoredFacts ==
  ASSUME NEW answer \in Reply
  PROVE  /\ Stored(answer) \in Reply /\ Stored(answer) # Nil
         /\ Stored(answer).id = answer.id /\ Stored(answer).status # "denied"
         /\ Stored(answer).status = "created" => answer.status = "created"
         /\ answer.status # "denied" => Stored(answer) = answer
         /\ Stored(Stored(answer)) = Stored(answer)
<1>1. CASE answer.status = "denied"
  <2>1. Stored(answer) = [answer EXCEPT !.status = "forbidden"]
    BY <1>1 DEF Stored
  <2>2. /\ Stored(answer) \in Reply /\ Stored(answer).id = answer.id
        /\ Stored(answer).status = "forbidden"
    BY <2>1 DEF Reply, Statuses
  <2>3. Stored(Stored(answer)) = Stored(answer)
    BY <2>2 DEF Stored
  <2> QED
    BY <1>1, <2>2, <2>3, NilAssumption
<1>2. CASE answer.status # "denied"
  BY <1>2, NilAssumption DEF Stored
<1> QED
  BY <1>1, <1>2

\* A claimed row is a row.
LEMMA OwnRowType ==
  ASSUME NEW r \in Requests, call[r] \in Call, call[r].op = "confirm"
  PROVE  OwnRow(r) \in KeyRow /\ OwnRow(r) # Nil /\ OwnRow(r).outcome = Nil
<1>1. HashOf(call[r]) \in Tables \X Slots \X Requests
  BY CallTypes DEF HashOf
<1> QED
  BY <1>1, NilAssumption DEF OwnRow, KeyRow

\* The row of a request that may store or drop it, as RowsFit has it.
LEMMA ClaimedRow ==
  ASSUME IInv, KeysFit, RowsFit, NEW r \in Requests, pc[r] \in {"storeOutcome", "dropKey"}
  PROVE  /\ Executing(r) /\ keys[KeyOf(call[r])] # Nil
         /\ \/ keys[KeyOf(call[r])] = OwnRow(r)
            \/ /\ pc[r] = "dropKey" /\ reservations[r] # Nil
               /\ keys[KeyOf(call[r])] = DoomedRow(r)
<1>1. Executing(r)
  BY DEF IInv, RequestsFit, StepFitsCall, KeySteps, ConfirmSteps, Executing, Keyed
<1> QED
  BY <1>1 DEF RowsFit, KeysFit

\* What a step does to the row of a key: a claim makes it, and the request that
\* executes under the key stores its answer in it or drops it.
LEMMA RowSteps ==
  ASSUME IInv, KeysFit, RowsFit, [AnyNext]_vars, NEW k \in Users \X Keys
  PROVE  \/ keys'[k] = keys[k]
         \/ \E r \in Requests :
              /\ ClaimKey(r) \/ LostClaim(r)
              /\ KeyOf(call[r]) = k /\ keys[k] = Nil /\ keys'[k] = OwnRow(r)
         \/ \E r \in Requests :
              /\ StoreOutcome(r) \/ LostStore(r)
              /\ Executing(r) /\ KeyOf(call[r]) = k
              /\ keys[k] = OwnRow(r) /\ keys[k] # Nil
              /\ keys'[k] = [requestHash |-> HashOf(call[r]), outcome |-> Stored(reply[r])]
         \/ \E r \in Requests :
              /\ DropKey(r) /\ Executing(r) /\ KeyOf(call[r]) = k /\ keys'[k] = Nil
              /\ \/ keys[k] = OwnRow(r)
                 \/ reservations[r] # Nil /\ keys[k] = DoomedRow(r)
<1>1. ASSUME NEW r \in Requests, ClaimKey(r) \/ LostClaim(r), keys'[k] # keys[k]
      PROVE  KeyOf(call[r]) = k /\ keys[k] = Nil /\ keys'[k] = OwnRow(r)
  BY <1>1 DEF ClaimKey, LostClaim, OwnRow, IInv, TypeOK
<1>2. ASSUME NEW r \in Requests, StoreOutcome(r) \/ LostStore(r), keys'[k] # keys[k]
      PROVE  /\ Executing(r) /\ KeyOf(call[r]) = k
             /\ keys[k] = OwnRow(r) /\ keys[k] # Nil
             /\ keys'[k] = [requestHash |-> HashOf(call[r]), outcome |-> Stored(reply[r])]
  <2>0. /\ pc[r] = "storeOutcome"
        /\ keys' = [keys EXCEPT ![KeyOf(call[r])] =
                      IF @ = Nil THEN Nil ELSE [@ EXCEPT !.outcome = Stored(reply[r])]]
    BY <1>2 DEF StoreOutcome, LostStore, At
  <2>1. KeyOf(call[r]) = k
    BY <1>2, <2>0 DEF IInv, TypeOK
  <2>2. Executing(r) /\ keys[k] = OwnRow(r) /\ keys[k] # Nil
    BY <2>0, <2>1, ClaimedRow
  <2>3. keys'[k] = [keys[k] EXCEPT !.outcome = Stored(reply[r])]
    BY <2>0, <2>1, <2>2 DEF IInv, TypeOK
  <2> QED
    BY <2>1, <2>2, <2>3 DEF OwnRow
<1>3. ASSUME NEW r \in Requests, DropKey(r), keys'[k] # keys[k]
      PROVE  /\ Executing(r) /\ KeyOf(call[r]) = k /\ keys'[k] = Nil
             /\ \/ keys[k] = OwnRow(r)
                \/ reservations[r] # Nil /\ keys[k] = DoomedRow(r)
  <2>1. pc[r] = "dropKey" /\ KeyOf(call[r]) = k /\ keys'[k] = Nil
    BY <1>3 DEF DropKey, At, IInv, TypeOK
  <2> QED
    BY <2>1, ClaimedRow
<1> QED
  BY <1>1, <1>2, <1>3, KeysStep

\* A row that has its outcome is never changed, but by the request that has stored a
\* booking in it and drops it.
LEMMA SettledStays ==
  ASSUME IInv, KeysFit, RowsFit, [AnyNext]_vars, NEW k \in Users \X Keys,
         keys[k] # Nil, keys[k].outcome # Nil
  PROVE  \/ keys'[k] = keys[k]
         \/ \E o \in Requests : /\ DropKey(o) /\ Keyed(o) /\ KeyOf(call[o]) = k
                                /\ reservations[o] # Nil /\ keys[k] = DoomedRow(o)
<1>1. ASSUME NEW r \in Requests, keys[k] = OwnRow(r) PROVE FALSE
  BY <1>1 DEF OwnRow
<1> QED
  BY <1>1, RowSteps DEF Executing

\* A request that drops its key does so, or stops.
LEMMA DropEnds ==
  ASSUME IInv, [AnyNext]_vars, NEW r \in Requests, pc[r] = "dropKey", call[r].op = "confirm"
  PROVE  pc'[r] \in {"dropKey", "done", "crashed"}
<1>1. CASE Untouched(r)
  BY <1>1 DEF Untouched
<1>2. CASE DropKey(r) \/ Fault(r) \/ Crash(r)
  BY <1>2 DEF DropKey, Fault, Crash, InTry, Goto, IInv, TypeOK
<1>3. CASE AnswerLost(r)
  BY <1>3, LostShape DEF Goto, IInv, TypeOK
<1> QED
  BY <1>1, <1>2, <1>3, ConfirmMoves DEF ConfirmWrite, Publish, LookupKey, StoreOutcome, At

\* A booking whose row is stored without word of it is in a doomed row.
LEMMA StoredUnheard ==
  ASSUME IInv, AnswersFit, NEW r \in Requests, LostStore(r), pc'[r] = "dropKey"
  PROVE  /\ reservations[r] # Nil /\ UNCHANGED reservations
         /\ Stored(reply[r]) = [status |-> "created", id |-> r]
<1>1. InTry(r) /\ pc[r] = "storeOutcome"
  BY DEF LostStore, Goto, At, IInv, TypeOK
<1>2. reply[r].status = "created" /\ call[r].op = "confirm"
  BY <1>1 DEF InTry, Keyed
<1>3. reply[r].id = r /\ reservations[r] # Nil
  BY <1>1, <1>2 DEF AnswersFit, AnswerFits
<1>4. reply[r] = [status |-> "created", id |-> r]
  BY <1>2, <1>3 DEF IInv, TypeOK, Reply
<1> QED
  BY <1>3, <1>4 DEF Stored, LostStore, ledger

\* Executing requests keep their rows.
LEMMA RowsFitStep ==
  ASSUME IInv, KeysFit, KeysFit', AnswersFit, RowsFit, [AnyNext]_vars
  PROVE  RowsFit'
<1> SUFFICES ASSUME NEW q \in Requests, Executing(q)'
             PROVE  \/ keys'[KeyOf(call'[q])] = OwnRow(q)'
                    \/ /\ pc'[q] = "dropKey" /\ reservations'[q] # Nil
                       /\ keys'[KeyOf(call'[q])] = DoomedRow(q)'
  BY DEF RowsFit
<1>1. CASE Executing(q)
  <2> DEFINE k == KeyOf(call[q])
  <2>1. pc[q] # "idle" /\ k \in Users \X Keys /\ call[q].op = "confirm"
    BY <1>1, KeyOfType DEF Executing, Keyed, IInv
  <2>2. call'[q] = call[q] /\ keys[k] # Nil
    BY <1>1, <2>1, CallStable DEF KeysFit, IInv
  <2>3. OwnRow(q)' = OwnRow(q) /\ DoomedRow(q)' = DoomedRow(q)
    BY <2>2 DEF OwnRow, DoomedRow
  <2>4. CASE keys'[k] = keys[k]
    <3>1. CASE keys[k] = OwnRow(q)
      BY <2>2, <2>3, <2>4, <3>1
    <3>2. CASE pc[q] = "dropKey" /\ reservations[q] # Nil /\ keys[k] = DoomedRow(q)
      <4>1. pc'[q] = "dropKey"
        BY <2>1, <3>2, DropEnds DEF Executing
      <4>2. reservations'[q] # Nil
        BY <3>2, RowsStay DEF IInv
      <4> QED
        BY <2>2, <2>3, <2>4, <3>2, <4>1, <4>2
    <3> QED
      BY <1>1, <3>1, <3>2 DEF RowsFit
  <2>5. ASSUME NEW r \in Requests, StoreOutcome(r) \/ LostStore(r) \/ DropKey(r),
               Executing(r), KeyOf(call[r]) = k
        PROVE  /\ r = q /\ LostStore(q) /\ pc'[q] = "dropKey"
    <3>1. r = q
      BY <1>1, <2>5 DEF KeysFit, KeyExecutesOnce
    <3>2. ~ (StoreOutcome(q) \/ DropKey(q))
      BY DEF StoreOutcome, DropKey, Goto, IInv, TypeOK, Executing
    <3>3. pc'[q] = "dropKey"
      BY <2>5, <3>1, <3>2 DEF LostStore, Goto, IInv, TypeOK, Executing
    <3> QED
      BY <2>5, <3>1, <3>2, <3>3
  <2>6. ASSUME NEW r \in Requests, StoreOutcome(r) \/ LostStore(r), Executing(r),
               KeyOf(call[r]) = k,
               keys'[k] = [requestHash |-> HashOf(call[r]), outcome |-> Stored(reply[r])]
        PROVE  /\ pc'[q] = "dropKey" /\ reservations'[q] # Nil
               /\ keys'[k] = DoomedRow(q)
    <3>1. r = q /\ LostStore(q) /\ pc'[q] = "dropKey"
      BY <2>5, <2>6
    <3>2. reservations'[q] # Nil /\ Stored(reply[q]) = [status |-> "created", id |-> q]
      BY <3>1, StoredUnheard
    <3> QED
      BY <2>6, <3>1, <3>2 DEF DoomedRow
  <2>7. ASSUME NEW r \in Requests, DropKey(r), Executing(r), KeyOf(call[r]) = k PROVE FALSE
    <3>1. r = q /\ LostStore(q)
      BY <2>5, <2>7
    <3> QED
      BY <2>7, <3>1 DEF DropKey, LostStore, At
  <2> QED
    BY <2>1, <2>2, <2>3, <2>4, <2>6, <2>7, RowSteps
<1>2. CASE ~ Executing(q)
  <2>1. PICK r \in Requests : ClaimKey(r)
    BY <1>2, ExecutingStep DEF IInv
  <2>2. call' = call /\ pc[r] = "claim"
    BY <2>1 DEF ClaimKey, At, locals
  <2>3. q = r
    <3>1. ASSUME q # r PROVE FALSE
      <4>1. pc'[q] = pc[q]
        BY <2>1, <3>1 DEF ClaimKey, Goto, IInv, TypeOK
      <4> QED
        BY <1>2, <2>2, <4>1 DEF Executing, Keyed
    <3> QED
      BY <3>1
  <2>4. pc'[r] = "confirm" /\ keys' = [keys EXCEPT ![KeyOf(call[r])] = OwnRow(r)]
    BY <2>1, <2>3 DEF ClaimKey, Goto, Executing, OwnRow, IInv, TypeOK
  <2>5. KeyOf(call[r]) \in Users \X Keys
    BY <2>2, ConfirmCall DEF IInv, ConfirmSteps, KeySteps
  <2>6. keys'[KeyOf(call[r])] = OwnRow(r)
    BY <2>4, <2>5 DEF IInv, TypeOK
  <2> QED
    BY <2>2, <2>3, <2>6 DEF OwnRow
<1> QED
  BY <1>1, <1>2

\* What has an outcome after a step had it before, or is being stored by its request.
LEMMA OutcomeSteps ==
  ASSUME IInv, KeysFit, RowsFit, [AnyNext]_vars, NEW k \in Users \X Keys,
         keys'[k] # Nil, keys'[k].outcome # Nil
  PROVE  \/ keys'[k] = keys[k]
         \/ \E r \in Requests :
              /\ StoreOutcome(r) \/ LostStore(r)
              /\ Executing(r) /\ KeyOf(call[r]) = k
              /\ keys'[k] = [requestHash |-> HashOf(call[r]), outcome |-> Stored(reply[r])]
<1>1. ASSUME NEW r \in Requests, keys'[k] = OwnRow(r) PROVE FALSE
  BY <1>1 DEF OwnRow
<1> QED
  BY <1>1, RowSteps

\* An outcome is stored of an answer that has been given.
LEMMA OutcomesFitStep ==
  ASSUME IInv, KeysFit, AnswersFit, RowsFit, OutcomesFit, [AnyNext]_vars
  PROVE  OutcomesFit'
<1> SUFFICES ASSUME NEW k \in Users \X Keys, keys'[k] # Nil, keys'[k].outcome # Nil
             PROVE  /\ keys'[k].outcome.status # "denied"
                    /\ keys'[k].outcome.status = "created" =>
                         keys'[k].outcome.id \in Requests
  BY DEF OutcomesFit
<1>1. CASE keys'[k] = keys[k]
  BY <1>1 DEF OutcomesFit
<1>2. ASSUME NEW r \in Requests, StoreOutcome(r) \/ LostStore(r), Executing(r),
             keys'[k] = [requestHash |-> HashOf(call[r]), outcome |-> Stored(reply[r])]
      PROVE  /\ keys'[k].outcome.status # "denied"
             /\ keys'[k].outcome.status = "created" => keys'[k].outcome.id \in Requests
  <2>1. reply[r] \in Reply /\ pc[r] = "storeOutcome" /\ call[r].op = "confirm"
    BY <1>2 DEF IInv, TypeOK, StoreOutcome, LostStore, At, Executing, Keyed
  <2>2. keys'[k].outcome = Stored(reply[r])
    BY <1>2
  <2> QED
    BY <2>1, <2>2, StoredFacts DEF AnswersFit, AnswerFits
<1> QED
  BY <1>1, <1>2, OutcomeSteps

\* A booking under a key is stored as what it is, and stays so.
LEMMA StoredSuccessStep ==
  ASSUME KInv, LInv', [AnyNext]_vars
  PROVE  StoredSuccessIsReal'
<1> SUFFICES ASSUME NEW k \in Users \X Keys, keys'[k] # Nil, keys'[k].outcome # Nil,
                    keys'[k].outcome.status = "created"
             PROVE  LET o == keys'[k].outcome.id IN
                    /\ reservations'[o] # Nil
                    /\ reservations'[o].user = k[1]
                    /\ keys'[k].requestHash =
                         <<reservations'[o].table, reservations'[o].slot, call'[o].hold>>
                    /\ payments'[o] = SlotPrice[reservations'[o].slot]
  BY DEF StoredSuccessIsReal
<1> DEFINE o == keys'[k].outcome.id
<1>1. IInv /\ KeysFit /\ AnswersFit /\ RowsFit /\ OutcomesFit /\ StoredSuccessIsReal
  BY DEF KInv, LInv
<1>2. ASSUME o \in Requests, reservations[o] # Nil, reservations[o].user = k[1],
             keys'[k].requestHash =
               <<reservations[o].table, reservations[o].slot, call[o].hold>>
      PROVE  /\ reservations'[o] # Nil
             /\ reservations'[o].user = k[1]
             /\ keys'[k].requestHash =
                  <<reservations'[o].table, reservations'[o].slot, call'[o].hold>>
             /\ payments'[o] = SlotPrice[reservations'[o].slot]
  <2>1. /\ reservations'[o] # Nil
        /\ reservations'[o].user = reservations[o].user
        /\ reservations'[o].table = reservations[o].table
        /\ reservations'[o].slot = reservations[o].slot
    BY <1>1, <1>2, RowsStay DEF IInv
  <2>2. call'[o] = call[o]
    BY <1>1, <1>2, <2>1, RowOfCall
  <2>3. payments'[o] = SlotPrice[reservations'[o].slot]
    BY <1>2, <2>1 DEF LInv, PaidInFull
  <2> QED
    BY <1>2, <2>1, <2>2, <2>3
<1>3. CASE keys'[k] = keys[k]
  <2>1. o \in Requests /\ keys[k] # Nil /\ keys[k].outcome # Nil
        /\ keys[k].outcome.status = "created" /\ o = keys[k].outcome.id
    BY <1>1, <1>3 DEF OutcomesFit
  <2>2. /\ reservations[o] # Nil /\ reservations[o].user = k[1]
        /\ keys[k].requestHash =
             <<reservations[o].table, reservations[o].slot, call[o].hold>>
    BY <1>1, <2>1 DEF StoredSuccessIsReal
  <2> QED
    BY <1>2, <1>3, <2>1, <2>2
<1>4. ASSUME NEW r \in Requests, StoreOutcome(r) \/ LostStore(r), Executing(r),
             KeyOf(call[r]) = k,
             keys'[k] = [requestHash |-> HashOf(call[r]), outcome |-> Stored(reply[r])]
      PROVE  /\ o \in Requests /\ reservations[o] # Nil /\ reservations[o].user = k[1]
             /\ keys'[k].requestHash =
                  <<reservations[o].table, reservations[o].slot, call[o].hold>>
  <2>1. reply[r] \in Reply /\ pc[r] = "storeOutcome" /\ call[r].op = "confirm"
    BY <1>1, <1>4 DEF IInv, TypeOK, StoreOutcome, LostStore, At, Executing, Keyed
  <2>2. keys'[k].outcome = Stored(reply[r]) /\ keys'[k].requestHash = HashOf(call[r])
    BY <1>4
  <2>3. reply[r].status = "created" /\ o = reply[r].id
    BY <2>1, <2>2, StoredFacts
  <2>4. o = r /\ reservations[r] # Nil
    BY <1>1, <2>1, <2>3 DEF AnswersFit, AnswerFits
  <2>5. /\ reservations[r].user = call[r].user
        /\ reservations[r].table = call[r].table /\ reservations[r].slot = call[r].slot
    BY <1>1, <2>4 DEF AnswersFit, AnswerFits
  <2>6. k[1] = call[r].user
    BY <1>4 DEF KeyOf
  <2> HIDE DEF o
  <2> QED
    BY <2>2, <2>4, <2>5, <2>6 DEF HashOf
<1> QED
  BY <1>1, <1>2, <1>3, <1>4, OutcomeSteps

\* The answer a keyed confirm ends with is the one its key has from then on, unless it is
\* the booking of a request that fails after storing it.
LEMMA KeptFitStep ==
  ASSUME KInv, IInv', [AnyNext]_vars
  PROVE  KeptFit'
<1> SUFFICES ASSUME NEW r \in Requests, pc'[r] = "done", Keyed(r)',
                    reply'[r].status \notin {"error", "inProgress", "keyMismatch"}
             PROVE  LET row == keys'[KeyOf(call'[r])]
                        o == reply'[r].id IN
                    \/ /\ row # Nil /\ row.outcome = Stored(reply'[r])
                       /\ row.requestHash = HashOf(call'[r])
                    \/ /\ reply'[r].status = "created" /\ o \in Requests \ {r}
                       /\ call'[o].op = "confirm" /\ call'[o].key # Nil
                       /\ KeyOf(call'[o]) = KeyOf(call'[r])
                       /\ HashOf(call'[o]) = HashOf(call'[r])
                       /\ reservations'[o] # Nil /\ pc'[o] = "done"
                       /\ reply'[o].status = "error"
  BY DEF KeptFit, Keyed
<1> DEFINE k == KeyOf(call[r])
<1>1. IInv /\ KeysFit /\ AnswersFit /\ RowsFit /\ OutcomesFit /\ KeptFit
  BY DEF KInv, LInv
<1>2. pc[r] # "idle"
  <2>1. ASSUME pc[r] = "idle" PROVE FALSE
    <3>1. CASE Untouched(r)
      BY <2>1, <3>1 DEF Untouched
    <3>2. ASSUME NEW c \in Call, Arrive(r, c) PROVE FALSE
      <4>1. pc'[r] = FirstStep(c)
        BY <1>1, <3>2 DEF Arrive, Goto, IInv, TypeOK
      <4> QED
        BY <4>1, CallTypes DEF FirstStep
    <3> QED
      BY <1>1, <2>1, <3>1, <3>2, IdleWaits, OwnStep DEF IInv
  <2> QED
    BY <2>1
<1>3. call'[r] = call[r] /\ call[r].op = "confirm" /\ Keyed(r)
  BY <1>1, <1>2, CallStable DEF IInv, Keyed
<1>4. k \in Users \X Keys
  BY <1>1, <1>2, <1>3, KeyOfType DEF IInv
<1>5. reply[r] \in Reply /\ reply'[r] \in Reply
  BY <1>1 DEF IInv, TypeOK
<1>7. CASE Untouched(r)
  <2> DEFINE o == reply[r].id
  <2>1. /\ pc[r] = "done" /\ reply'[r] = reply[r]
        /\ reply[r].status \notin {"error", "inProgress", "keyMismatch"}
    BY <1>7 DEF Untouched
  <2>2. CASE /\ keys[k] # Nil /\ keys[k].outcome = Stored(reply[r])
             /\ keys[k].requestHash = HashOf(call[r])
    <3>1. keys[k].outcome # Nil
      BY <1>5, <2>2, StoredFacts
    <3>2. CASE keys'[k] = keys[k]
      BY <1>3, <2>1, <2>2, <3>2
    <3>3. ASSUME NEW p \in Requests, DropKey(p), Keyed(p), KeyOf(call[p]) = k,
                 reservations[p] # Nil, keys[k] = DoomedRow(p)
          PROVE  /\ reply[r].status = "created" /\ p = o /\ o # r
                 /\ call'[o].op = "confirm" /\ call'[o].key # Nil
                 /\ KeyOf(call'[o]) = k /\ HashOf(call'[o]) = HashOf(call[r])
                 /\ reservations'[o] # Nil /\ pc'[o] = "done" /\ reply'[o].status = "error"
      <4>1. /\ pc[p] = "dropKey" /\ pc'[p] = "done" /\ call' = call /\ reply' = reply
            /\ reservations' = reservations
        BY <1>1, <3>3 DEF DropKey, At, Goto, IInv, TypeOK, locals, ledger
      <4>2. reply[p].status = "error"
        BY <1>1, <4>1 DEF AnswersFit, AnswerFits
      <4>3. Stored(reply[r]) = [status |-> "created", id |-> p]
        BY <2>2, <3>3 DEF DoomedRow
      <4>4. reply[r].status = "created" /\ reply[r].id = p
        BY <1>5, <4>3, StoredFacts
      <4>5. HashOf(call[p]) = HashOf(call[r])
        BY <2>2, <3>3 DEF DoomedRow
      <4> QED
        BY <3>3, <4>1, <4>2, <4>4, <4>5 DEF Keyed
    <3> QED
      BY <1>1, <1>3, <1>4, <2>1, <2>2, <3>1, <3>2, <3>3, SettledStays
  <2>3. CASE /\ reply[r].status = "created" /\ o \in Requests \ {r}
             /\ Keyed(o) /\ KeyOf(call[o]) = k /\ HashOf(call[o]) = HashOf(call[r])
             /\ reservations[o] # Nil /\ pc[o] = "done" /\ reply[o].status = "error"
    <3>1. Untouched(o)
      BY <1>1, <2>3, IdleWaits, OwnStep DEF Arrive, At, IInv, Ended
    <3>2. reservations'[o] # Nil
      BY <1>1, <2>3, RowsStay DEF IInv
    <3> QED
      BY <1>3, <2>1, <2>3, <3>1, <3>2 DEF Untouched, Keyed
  <2> QED
    BY <1>1, <1>3, <2>1, <2>2, <2>3 DEF KeptFit
<1>8. CASE LookupKey(r)
  <2>1. keys' = keys /\ reply'[r] = Replay(keys[k], call[r])
    BY <1>1, <1>8 DEF LookupKey, shared, IInv, TypeOK
  <2>2. /\ keys[k] # Nil /\ keys[k].outcome # Nil
        /\ reply'[r] = keys[k].outcome /\ keys[k].requestHash = HashOf(call[r])
    BY <2>1 DEF Replay
  <2>3. reply'[r].status # "denied"
    BY <1>1, <1>4, <2>2 DEF OutcomesFit
  <2> QED
    BY <1>3, <1>5, <2>1, <2>2, <2>3, StoredFacts
<1>9. CASE StoreOutcome(r)
  <2>1. pc[r] = "storeOutcome" /\ reply'[r] = reply[r]
    BY <1>9 DEF StoreOutcome, At
  <2>3. keys[k] = OwnRow(r) /\ keys[k] # Nil
    BY <1>1, <2>1, ClaimedRow
  <2>4. keys'[k] = [keys[k] EXCEPT !.outcome = Stored(reply[r])]
    BY <1>1, <1>4, <1>9, <2>3 DEF StoreOutcome, IInv, TypeOK
  <2>5. /\ keys'[k] = [requestHash |-> HashOf(call[r]), outcome |-> Stored(reply[r])]
        /\ keys'[k].outcome = Stored(reply[r]) /\ keys'[k].requestHash = HashOf(call[r])
    BY <2>3, <2>4 DEF OwnRow
  <2>6. keys'[k] # Nil
    <3>1. HashOf(call[r]) \in Tables \X Slots \X Requests
      BY <1>1, <2>1, ConfirmCall DEF ConfirmSteps, KeySteps, IInv
    <3>2. keys'[k] \in KeyRow
      BY <1>5, <2>5, <3>1, StoredFacts DEF KeyRow
    <3> QED
      BY <3>2, NilAssumption
  <2> QED
    BY <1>3, <2>1, <2>5, <2>6
<1>10. CASE DropKey(r)
  <2>1. reply'[r] = reply[r] /\ reply[r].status = "error"
    BY <1>1, <1>10 DEF DropKey, At, AnswersFit, AnswerFits
  <2> QED
    BY <2>1
<1>11. CASE \/ pc'[r] \in {"lookup", "confirm", "consume", "confirmTx"}
            \/ \E status : Reject(r, status)
            \/ ConfirmWrite(r) \/ Publish(r)
  <2>1. pc'[r] # "done"
    BY <1>1, <1>3, <1>11 DEF Reject, ConfirmWrite, Publish, Goto, IInv, TypeOK
  <2> QED
    BY <2>1
<1>12. CASE Fault(r) \/ AnswerLost(r) \/ Crash(r)
  <2>1. reply'[r].status = "error" \/ pc'[r] = "crashed"
    BY <1>1, <1>12, LostShape DEF Fault, Crash, Answer, Goto, IInv, TypeOK
  <2> QED
    BY <2>1
<1> QED
  BY <1>1, <1>2, <1>3, <1>7, <1>8, <1>9, <1>10, <1>11, <1>12, ConfirmMoves

\* A denial is logged where it is found, and nothing else answers one.
LEMMA DenialsFitStep ==
  ASSUME KInv, IInv', [AnyNext]_vars
  PROVE  DenialsFit'
<1> SUFFICES ASSUME NEW r \in Requests, reply'[r].status = "denied"
             PROVE  /\ pc'[r] # "idle"
                    /\ call'[r].op = "confirm" =>
                         <<r, "AUTHORIZE", "DENY">> \in decisions'
  BY DEF DenialsFit
<1>1. /\ IInv /\ AnswersFit /\ OutcomesFit /\ DenialsFit
      /\ decisions \subseteq decisions'
  BY DecisionsStay DEF KInv, LInv
<1>2. CASE pc[r] = "idle"
  <2>1. reply'[r] = reply[r]
    BY <1>1, <1>2, IdleWaits, OwnStep DEF IInv, Untouched, Arrive
  <2> QED
    BY <1>1, <1>2, <2>1 DEF DenialsFit
<1>3. CASE pc[r] # "idle"
  <2>1. call'[r] = call[r]
    BY <1>1, <1>3, CallStable DEF IInv
  <2>2. pc'[r] # "idle"
    BY <1>1, <1>3, ArrivedStays DEF IInv
  <2>3. CASE reply'[r] = reply[r]
    BY <1>1, <2>1, <2>2, <2>3 DEF DenialsFit
  <2>4. ASSUME reply'[r] # reply[r], call[r].op = "confirm"
        PROVE  <<r, "AUTHORIZE", "DENY">> \in decisions'
    <3>1. ASSUME NEW status, Reject(r, status) PROVE status = "denied"
      BY <1>1, <3>1 DEF Reject, Answer, IInv, TypeOK
    <3>2. ASSUME LookupKey(r) PROVE FALSE
      <4>1. reply'[r] = Replay(keys[KeyOf(call[r])], call[r]) /\ pc[r] = "lookup"
        BY <1>1, <3>2 DEF LookupKey, At, IInv, TypeOK
      <4>2. KeyOf(call[r]) \in Users \X Keys
        BY <1>1, <4>1, ConfirmCall DEF ConfirmSteps, KeySteps, IInv
      <4> QED
        BY <1>1, <4>1, <4>2 DEF Replay, OutcomesFit
    <3>3. ~ (ConfirmWrite(r) \/ Fault(r) \/ AnswerLost(r))
      BY <1>1, LostShape, WriteFacts DEF Fault, Answer, IInv, TypeOK
    <3>4. ~ (Publish(r) \/ StoreOutcome(r) \/ DropKey(r) \/ Crash(r) \/ Untouched(r))
      BY <2>4 DEF Publish, StoreOutcome, DropKey, Crash, Untouched
    <3> QED
      BY <1>1, <1>3, <2>4, <3>1, <3>2, <3>3, <3>4, ConfirmMoves
  <2> QED
    BY <2>1, <2>2, <2>3, <2>4
<1> QED
  BY <1>2, <1>3

\* Keys and answers fit at first, after every step, and always.
LEMMA KeysInitial == Init => KInv
<1> SUFFICES ASSUME Init PROVE KInv
  OBVIOUS
<1>1. LInv /\ AnswersFit
  BY Initial DEF Init, LInv, PaidInFull, AnswersFit, AnswerFits
<1>2. KeysFit /\ RowsFit
  BY DEF Init, KeysFit, KeyExecutesOnce, RowsFit, Executing
<1>3. OutcomesFit /\ StoredSuccessIsReal /\ KeptFit /\ DenialsFit
  BY DEF Init, OutcomesFit, StoredSuccessIsReal, KeptFit, DenialsFit, Unanswered
<1> QED
  BY <1>1, <1>2, <1>3 DEF KInv

LEMMA KeysInductive == KInv /\ [AnyNext]_vars => KInv'
<1> SUFFICES ASSUME KInv, [AnyNext]_vars PROVE KInv'
  OBVIOUS
<1>1. LInv' /\ IInv'
  BY Inductive, PaidInFullStep DEF KInv, LInv
<1>2. KeysFit'
  BY <1>1, KeysFitStep DEF KInv, LInv, IInv
<1>3. AnswersFit' /\ RowsFit' /\ OutcomesFit'
  BY <1>1, <1>2, AnswersFitStep, RowsFitStep, OutcomesFitStep DEF KInv, LInv
<1> QED
  BY <1>1, <1>2, <1>3, StoredSuccessStep, KeptFitStep, DenialsFitStep DEF KInv

LEMMA KeysInvariance == Spec => []KInv
BY KeysInitial, KeysInductive, SpecIsAny, PTL

\* What a key has stored as a success is a reservation: of the user, seat and hold the
\* key was first used for, and paid in full.
THEOREM StoredSuccesses == Spec => []StoredSuccessIsReal
<1>1. KInv => StoredSuccessIsReal
  BY DEF KInv
<1> QED
  BY <1>1, KeysInvariance, PTL

\* What KeptFit says is what the property says.
LEMMA KeptAreKept == KInv => AnswersAreKept
BY DEF KInv, KeptFit, AnswersAreKept, At

\* A keyed confirm's answer, a booking or a refusal, stays in its key's row whatever
\* happens later, no retry, failure or crash changing it there, but for a booking that was
\* replayed from a request that has stored it and then fails for not hearing so.
THEOREM KeptAnswers == Spec => []AnswersAreKept
BY KeptAreKept, KeysInvariance, PTL

-------------------------------------------------------------------------------
(* Refusals leave nothing but a denial *)

\* Who was refused left nothing behind, and who was denied is logged so.
LEMMA AnswersRefuse == KInv => RefusedConfirmLeavesNothing
<1> SUFFICES ASSUME KInv, NEW r \in Requests, call[r].op = "confirm",
                    reply[r].status \notin {"created", "error"}
             PROVE  /\ reservations[r] = Nil /\ payments[r] = Nil
                    /\ r \notin notificationJobs
                    /\ \A step : <<r, step, "ALLOW">> \notin decisions
                    /\ reply[r].status = "denied" => <<r, "AUTHORIZE", "DENY">> \in decisions
  BY DEF RefusedConfirmLeavesNothing
<1>1. AnswerFits(r) /\ OutboxMatchesLedger
  BY DEF KInv, LInv, IInv, AnswersFit
<1>2. reservations[r] = Nil
  BY <1>1 DEF AnswerFits
<1>3. payments[r] = Nil /\ r \notin notificationJobs
  BY <1>1, <1>2 DEF OutboxMatchesLedger
<1>4. \A step : <<r, step, "ALLOW">> \notin decisions
  BY <1>1, <1>2 DEF AnswerFits
<1> QED
  BY <1>2, <1>3, <1>4 DEF KInv, DenialsFit

\* A confirm that was refused or denied, at whatever step and whatever ran beside it,
\* left no reservation, payment or notification, and no ALLOW in the decision log; if it
\* was the gate that denied it, the log has the denial.
THEOREM RefusalsLeaveNothing == Spec => []RefusedConfirmLeavesNothing
BY AnswersRefuse, KeysInvariance, PTL
===============================================================================
