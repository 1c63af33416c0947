---------------------------- MODULE PaymentsProofs ----------------------------
(***************************************************************************)
(* What is proved of paid bookings, for any number of orders, deliveries   *)
(* and confirms, and any failures: a capture that was acknowledged is      *)
(* settled, a payment row names its own payment, and booking and refund of *)
(* one payment take an overlap or a failure.  The booking core gives the   *)
(* first part of the invariant: what an answer under a key says.           *)
(***************************************************************************)
EXTENDS Payments, AnswerProofs

-------------------------------------------------------------------------------
(* What a success and a mismatch under a key say *)

\* Reservation o was made under key k, for the request that hashes to hash.
Fulfils(o, k, hash) ==
  /\ o \in Requests /\ reservations[o] # Nil
  /\ Keyed(o) /\ KeyOf(call[o]) = k /\ HashOf(call[o]) = hash

\* Who was told, or whose key says, that it is booked has a reservation that was made
\* under that key for that request.
SuccessesFit ==
  /\ \A r \in Requests :
       pc[r] # "idle" /\ Keyed(r) /\ reply[r].status = "created" =>
         /\ Fulfils(reply[r].id, KeyOf(call[r]), HashOf(call[r]))
         /\ reservations[r] # Nil => reply[r].id = r
  /\ \A k \in Users \X Keys :
       keys[k] # Nil /\ keys[k].outcome # Nil /\ keys[k].outcome.status = "created" =>
         Fulfils(keys[k].outcome.id, k, keys[k].requestHash)

\* A request that failed under key k, or died with it.
Failed(p, k) ==
  /\ pc[p] # "idle" /\ Keyed(p) /\ KeyOf(call[p]) = k
  /\ \/ pc[p] = "crashed"
     \/ pc[p] \in {"dropKey", "done"} /\ reply[p].status = "error"

\* Only a request that has ended was told of a mismatch, so no key has stored one.
TellsFit ==
  /\ \A r \in Requests :
       /\ pc[r] = "idle" => reply[r].status = "none"
       /\ pc[r] \notin {"idle", "done", "crashed"} /\ Keyed(r) =>
            reply[r].status # "keyMismatch"
  /\ \A k \in Users \X Keys :
       keys[k] # Nil /\ keys[k].outcome # Nil => keys[k].outcome.status # "keyMismatch"

\* A key that was found to be another request's still is, unless that one failed.
MismatchesFit ==
  \A r \in Requests :
    pc[r] = "done" /\ Keyed(r) /\ reply[r].status = "keyMismatch" =>
      \/ LET row == keys[KeyOf(call[r])] IN
         row # Nil /\ row.requestHash # HashOf(call[r])
      \/ \E p \in Requests : Failed(p, KeyOf(call[r]))

\* A request that was given a hold.
IsHold(h) == pc[h] \notin BeforeHold /\ call[h].op = "hold"

\* A hold, and what Redis knows of it, is named after the request that asked for it.
HoldsAreNamed ==
  /\ \A seat \in Tables \X Slots : holds[seat] # Nil => IsHold(holds[seat].id)
  /\ \A r \in Requests : pc[r] = "writeMeta" => IsHold(reply[r].id)
  /\ \A h \in holdMeta : IsHold(h)

\* What the webhook has of the booking core.
BInv ==
  /\ KInv /\ HoldsFit /\ SuccessesFit /\ TellsFit /\ MismatchesFit /\ HoldsAreNamed

-------------------------------------------------------------------------------
(* Steps of the booking core *)

\* A request that arrives goes to the first step of its call.
LEMMA ArrivalStep ==
  ASSUME TypeOK, [AnyNext]_vars, NEW r \in Requests, pc[r] = "idle"
  PROVE  /\ reply'[r] = reply[r]
         /\ pc'[r] \in {"idle", "book", "hold", "claim", "confirm", "cancel"}
<1>1. CASE Untouched(r)
  BY <1>1 DEF Untouched
<1>2. ASSUME NEW c \in Call, Arrive(r, c)
      PROVE  /\ reply'[r] = reply[r]
             /\ pc'[r] \in {"book", "hold", "claim", "confirm", "cancel"}
  <2>1. pc'[r] = FirstStep(c) /\ reply' = reply
    BY <1>2 DEF Arrive, Goto, TypeOK
  <2> QED
    BY <2>1, CallTypes DEF FirstStep
<1> QED
  BY <1>1, <1>2, IdleWaits, OwnStep

\* A request that is done stays as it is.
LEMMA DoneStays ==
  ASSUME TypeOK, [AnyNext]_vars, NEW r \in Requests, pc[r] = "done"
  PROVE  pc'[r] = "done" /\ reply'[r] = reply[r]
<1>1. ~ \E c \in Call : Arrive(r, c)
  BY DEF Arrive, At
<1>2. "done" \in Ended
  BY DEF Ended
<1> QED
  BY <1>1, <1>2, IdleWaits, OwnStep DEF Untouched

\* A keyed request does not become one by arriving, and goes on to be one.
LEMMA KeyedStays ==
  ASSUME TypeOK, [AnyNext]_vars, NEW r \in Requests, pc[r] # "idle"
  PROVE  /\ call'[r] = call[r] /\ Keyed(r)' = Keyed(r)
         /\ KeyOf(call'[r]) = KeyOf(call[r]) /\ HashOf(call'[r]) = HashOf(call[r])
BY CallStable DEF Keyed

\* A reservation goes on to be what it was made for.
LEMMA FulfilsStays ==
  ASSUME KInv, [AnyNext]_vars, NEW o \in Requests, reservations[o] # Nil
  PROVE  reservations'[o] # Nil /\ call'[o] = call[o] /\ pc[o] # "idle"
<1>1. IInv /\ AnswersFit
  BY DEF KInv, LInv
<1>2. reservations'[o] # Nil
  BY <1>1, RowsStay DEF IInv
<1> QED
  BY <1>1, <1>2, RowOfCall

\* An executing request that has not written has no reservation, whatever it does.
LEMMA BookedSince ==
  ASSUME KInv, KInv', [AnyNext]_vars, NEW r \in Requests, pc[r] # "idle", Keyed(r),
         reply'[r] = reply[r], reservations'[r] # Nil, ~ ConfirmWrite(r)
  PROVE  reservations[r] # Nil
<1>1. IInv /\ AnswersFit /\ IInv' /\ AnswersFit'
  BY DEF KInv, LInv
<1>2. SUFFICES ASSUME pc[r] = "confirmTx", reservations[r] = Nil PROVE FALSE
  BY <1>1, Reserved DEF Keyed
<1>3. pc'[r] # "confirmTx"
  BY <1>1 DEF IInv, RequestsFit, StepFitsCall, BeforeWrite
<1>4. ~ Untouched(r)
  BY <1>2, <1>3 DEF Untouched
<1>5. UNCHANGED ledger
  <2>1. ASSUME AnswerLost(r) PROVE UNCHANGED ledger
    BY <1>2, <2>1, LostShape DEF LostCommit
  <2> QED
    BY <1>1, <1>2, <1>3, <1>4, <2>1, ConfirmMoves DEF Keyed, Publish, LookupKey, StoreOutcome,
       DropKey, Fault, Crash, Breaks, At
<1> QED
  BY <1>2, <1>5 DEF ledger

\* Who is told that it is booked has a reservation of its own or one its key names.
LEMMA ToldStep ==
  ASSUME BInv, KInv', [AnyNext]_vars, NEW r \in Requests, pc'[r] # "idle", Keyed(r)',
         reply'[r].status = "created"
  PROVE  /\ Fulfils(reply[r].id, KeyOf(call[r]), HashOf(call[r]))'
         /\ reservations'[r] # Nil => reply'[r].id = r
<1>1. /\ KInv /\ SuccessesFit /\ TellsFit
      /\ IInv /\ TypeOK /\ RequestsFit /\ AnswersFit
  BY DEF BInv, KInv, LInv, IInv
<1>2. pc[r] # "idle"
  BY <1>1, ArrivalStep DEF TellsFit
<1>3. /\ call'[r] = call[r] /\ Keyed(r) /\ call[r].op = "confirm"
      /\ KeyOf(call'[r]) = KeyOf(call[r]) /\ HashOf(call'[r]) = HashOf(call[r])
  BY <1>1, <1>2, KeyedStays DEF Keyed
<1> DEFINE k == KeyOf(call[r])
           hash == HashOf(call[r])
<1>4. k \in Users \X Keys
  BY <1>1, <1>2, <1>3, KeyOfType
<1>5. ASSUME NEW o, Fulfils(o, k, hash), reply'[r].id = o
      PROVE  Fulfils(reply[r].id, KeyOf(call[r]), HashOf(call[r]))'
  <2>1. /\ o \in Requests /\ reservations[o] # Nil /\ Keyed(o)
        /\ KeyOf(call[o]) = k /\ HashOf(call[o]) = hash
    BY <1>5 DEF Fulfils
  <2>2. reservations'[o] # Nil /\ call'[o] = call[o]
    BY <1>1, <2>1, FulfilsStays
  <2>3. Keyed(o)' /\ KeyOf(call'[o]) = k /\ HashOf(call'[o]) = hash
    BY <2>1, <2>2 DEF Keyed
  <2> QED
    BY <1>3, <1>5, <2>1, <2>2, <2>3 DEF Fulfils
<1>6. CASE reply'[r] = reply[r] /\ ~ ConfirmWrite(r)
  <2>1. reservations'[r] # Nil => reservations[r] # Nil
    BY <1>2, <1>3, <1>6, BookedSince, <1>1
  <2>2. Fulfils(reply[r].id, k, hash) /\ (reservations[r] # Nil => reply[r].id = r)
    BY <1>1, <1>2, <1>3, <1>6 DEF SuccessesFit
  <2> QED
    BY <1>5, <1>6, <2>1, <2>2
<1>7. CASE ConfirmWrite(r)
  <2>1. reservations'[r] # Nil /\ reply'[r] = [status |-> "created", id |-> r]
    BY <1>1, <1>7, WriteFacts
  <2>2. reply'[r].id = r
    BY <2>1
  <2> QED
    BY <1>3, <2>1, <2>2 DEF Fulfils
<1>8. CASE LookupKey(r)
  <2>1. pc[r] = "lookup" /\ reply'[r] = Replay(keys[k], call[r]) /\ UNCHANGED reservations
    BY <1>1, <1>8 DEF LookupKey, At, TypeOK, shared, ledger
  <2>2. /\ keys[k] # Nil /\ keys[k].outcome # Nil /\ keys[k].requestHash = hash
        /\ reply'[r] = keys[k].outcome
    BY <2>1 DEF Replay
  <2>3. Fulfils(keys[k].outcome.id, k, hash)
    BY <1>1, <1>4, <2>2 DEF SuccessesFit
  <2>4. reservations'[r] = Nil
    BY <1>1, <1>3, <2>1 DEF AnswersFit, AnswerFits
  <2> QED
    BY <1>5, <2>2, <2>3, <2>4
<1>9. ASSUME NEW status, status # "created", Reject(r, status) PROVE FALSE
  BY <1>1, <1>9 DEF Reject, Answer, TypeOK
<1>10. CASE Fault(r) \/ AnswerLost(r)
  BY <1>1, <1>10, LostShape DEF Fault, Answer, TypeOK
<1>11. CASE Publish(r) \/ StoreOutcome(r) \/ DropKey(r) \/ Crash(r) \/ Untouched(r)
  <2>1. reply'[r] = reply[r] /\ ~ ConfirmWrite(r)
    BY <1>1, <1>11, WriteFacts DEF Publish, StoreOutcome, DropKey, Crash, Untouched, At, Goto,
       ConfirmWrite, TypeOK
  <2> QED
    BY <1>6, <2>1
<1> QED
  BY <1>1, <1>2, <1>3, <1>6, <1>7, <1>8, <1>9, <1>10, <1>11, ConfirmMoves

\* What a key stores as a booking is a reservation made under it.
LEMMA SuccessesFitStep ==
  ASSUME BInv, KInv', [AnyNext]_vars
  PROVE  SuccessesFit'
<1>1. /\ KInv /\ SuccessesFit /\ KeysFit /\ RowsFit
      /\ IInv /\ TypeOK /\ AnswersFit
  BY DEF BInv, KInv, LInv, IInv
<1>2. ASSUME NEW k \in Users \X Keys, keys'[k] # Nil, keys'[k].outcome # Nil,
             keys'[k].outcome.status = "created"
      PROVE  Fulfils(keys[k].outcome.id, k, keys[k].requestHash)'
  <2>1. ASSUME NEW o, NEW hash, Fulfils(o, k, hash), keys'[k].outcome.id = o,
               keys'[k].requestHash = hash
        PROVE  Fulfils(keys[k].outcome.id, k, keys[k].requestHash)'
    <3>1. /\ o \in Requests /\ reservations[o] # Nil /\ Keyed(o)
          /\ KeyOf(call[o]) = k /\ HashOf(call[o]) = hash
      BY <2>1 DEF Fulfils
    <3>2. reservations'[o] # Nil /\ call'[o] = call[o]
      BY <1>1, <3>1, FulfilsStays
    <3>3. Keyed(o)' /\ KeyOf(call'[o]) = k /\ HashOf(call'[o]) = hash
      BY <3>1, <3>2 DEF Keyed
    <3> QED
      BY <2>1, <3>1, <3>2, <3>3 DEF Fulfils
  <2>2. CASE keys'[k] = keys[k]
    BY <1>1, <1>2, <2>1, <2>2 DEF SuccessesFit
  <2>3. ASSUME NEW r \in Requests, StoreOutcome(r) \/ LostStore(r), Executing(r),
               KeyOf(call[r]) = k,
               keys'[k] = [requestHash |-> HashOf(call[r]), outcome |-> Stored(reply[r])]
        PROVE  Fulfils(keys[k].outcome.id, k, keys[k].requestHash)'
    <3>1. reply[r] \in Reply /\ pc[r] = "storeOutcome" /\ Keyed(r) /\ call[r].op = "confirm"
      BY <1>1, <2>3 DEF TypeOK, StoreOutcome, LostStore, At, Executing, Keyed
    <3>2. keys'[k].outcome = Stored(reply[r]) /\ keys'[k].requestHash = HashOf(call[r])
      BY <2>3
    <3>3. reply[r].status = "created" /\ keys'[k].outcome.id = reply[r].id
      BY <1>2, <3>1, <3>2, StoredFacts
    <3>4. reply[r].id = r /\ reservations[r] # Nil
      BY <1>1, <3>1, <3>3 DEF AnswersFit, AnswerFits
    <3> QED
      BY <2>1, <2>3, <3>1, <3>2, <3>3, <3>4 DEF Fulfils
  <2> QED
    BY <1>1, <1>2, <2>2, <2>3, OutcomeSteps
<1> QED
  BY <1>2, ToldStep DEF SuccessesFit

\* A request that has arrived does not leave again, and comes to write its hold's
\* metadata by acquiring the hold.
LEMMA OwnMoves ==
  ASSUME TypeOK, RequestsFit, [AnyNext]_vars, NEW q \in Requests
  PROVE  /\ pc[q] # "idle" => pc'[q] # "idle"
         /\ pc'[q] = "writeMeta" => Untouched(q) \/ AcquireHold(q)
<1> DEFINE Moves == \/ AcquireHold(q)
                    \/ \E status : Reject(q, status)
                    \/ \E step : step \notin {"idle", "writeMeta"} /\ Goto(q, step)
<1>1. ASSUME Moves PROVE pc'[q] # "idle" /\ (pc'[q] = "writeMeta" => AcquireHold(q))
  <2>1. CASE AcquireHold(q)
    BY <2>1 DEF AcquireHold, Reject, Goto, TypeOK
  <2>2. CASE ~ AcquireHold(q)
    BY <1>1, <2>2 DEF Reject, Goto, TypeOK
  <2> QED
    BY <2>1, <2>2
<1>2. ASSUME NEW c \in Call, Arrive(q, c) PROVE Moves
  <2>1. FirstStep(c) \notin {"idle", "writeMeta"}
    BY CallTypes DEF FirstStep
  <2> QED
    BY <1>2, <2>1 DEF Arrive
<1>3. ASSUME BookStep(q) PROVE Moves
  <2>1. CASE BookChecks(q)
    <3>1. call[q] \in Call /\ call[q].op = "book"
      BY <2>1 DEF BookChecks, Check, At, RequestsFit, StepFitsCall, BookSteps
    <3>2. StrategyStep[call[q].strategy] \notin {"idle", "writeMeta"}
      BY <3>1, CallTypes DEF StrategyStep, Strategies
    <3> QED
      BY <2>1, <3>2 DEF BookChecks, Check
  <2>2. CASE ~ BookChecks(q)
    BY <1>3, <2>2 DEF BookStep, LockSlot, ReadVersion, ReadExisting, SwapWon, SwapLost,
       BookInTransaction, LockedTransaction, DirectWrite, Check
  <2> QED
    BY <2>1, <2>2
<1>4. ASSUME HoldStep(q) PROVE Moves
  BY <1>4 DEF HoldStep, HoldChecks, HoldWindow, WriteMeta, ReuseTooLate, Check
<1>5. ASSUME ConfirmStep(q) \/ CancelStep(q) \/ Publish(q) PROVE Moves
  BY <1>5 DEF ConfirmStep, ClaimKey, LookupKey, ConfirmChecks, ConsumeHold, ConfirmWrite,
     ConfirmRollback, StoreOutcome, DropKey, CancelStep, CancelChecks,
     CancelTransaction, Publish, Check
<1>6. ASSUME Fault(q) \/ AnswerLost(q) \/ Crash(q) PROVE Moves
  BY <1>6, LostShape DEF Fault, Crash
<1>7. CASE Untouched(q)
  BY <1>7 DEF Untouched
<1> QED
  BY <1>1, <1>2, <1>3, <1>4, <1>5, <1>6, <1>7, OwnStep DEF Handle

\* A mismatch is told at the end, and never stored.
LEMMA TellsFitStep ==
  ASSUME BInv, [AnyNext]_vars
  PROVE  TellsFit'
<1>1. /\ TellsFit /\ KeysFit /\ RowsFit
      /\ IInv /\ TypeOK /\ RequestsFit
  BY DEF BInv, KInv, LInv, IInv
<1>2. ASSUME NEW r \in Requests, pc'[r] = "idle" PROVE reply'[r].status = "none"
  BY <1>1, <1>2, OwnMoves, ArrivalStep DEF TellsFit
<1>3. ASSUME NEW r \in Requests, pc'[r] \notin {"idle", "done", "crashed"}, Keyed(r)'
      PROVE  reply'[r].status # "keyMismatch"
  <2>1. CASE pc[r] = "idle"
    BY <1>1, <2>1, ArrivalStep DEF TellsFit
  <2>2. CASE pc[r] # "idle"
    <3>1. Keyed(r) /\ call[r].op = "confirm"
      BY <1>1, <1>3, <2>2, KeyedStays DEF Keyed
    <3>2. CASE reply'[r] = reply[r]
      <4>1. pc[r] \notin Ended
        BY <1>1, <1>3, OwnStep, IdleWaits DEF Ended, Untouched, Arrive, At
      <4> QED
        BY <1>1, <2>2, <3>1, <3>2, <4>1 DEF TellsFit, Ended
    <3>3. ASSUME NEW status, status # "keyMismatch", Reject(r, status)
          PROVE  reply'[r].status # "keyMismatch"
      BY <1>1, <3>3 DEF Reject, Answer, TypeOK
    <3>4. CASE ConfirmWrite(r)
      <4>1. reply'[r] = [status |-> "created", id |-> r]
        BY <1>1, <3>4, WriteFacts
      <4> QED
        BY <4>1
    <3>5. CASE LookupKey(r) \/ StoreOutcome(r) \/ DropKey(r) \/ Crash(r)
      BY <1>1, <1>3, <3>5 DEF LookupKey, StoreOutcome, DropKey, Crash, Goto, TypeOK
    <3>6. CASE Fault(r) \/ AnswerLost(r)
      BY <1>1, <3>6, LostShape DEF Fault, Answer, TypeOK
    <3>7. CASE Publish(r) \/ Untouched(r)
      BY <3>2, <3>7 DEF Publish, Untouched
    <3> QED
      BY <1>1, <2>2, <3>1, <3>2, <3>3, <3>4, <3>5, <3>6, <3>7, ConfirmMoves
  <2> QED
    BY <2>1, <2>2
<1>4. ASSUME NEW k \in Users \X Keys, keys'[k] # Nil, keys'[k].outcome # Nil
      PROVE  keys'[k].outcome.status # "keyMismatch"
  <2>1. CASE keys'[k] = keys[k]
    BY <1>1, <1>4, <2>1 DEF TellsFit
  <2>2. ASSUME NEW r \in Requests, StoreOutcome(r) \/ LostStore(r), Executing(r),
               keys'[k] = [requestHash |-> HashOf(call[r]), outcome |-> Stored(reply[r])]
        PROVE  keys'[k].outcome.status # "keyMismatch"
    <3>1. reply[r] \in Reply /\ pc[r] = "storeOutcome" /\ Keyed(r)
      BY <1>1, <2>2 DEF TypeOK, StoreOutcome, LostStore, At, Executing
    <3>2. reply[r].status # "keyMismatch"
      BY <1>1, <3>1 DEF TellsFit
    <3>3. Stored(reply[r]).status # "keyMismatch"
      BY <3>1, <3>2 DEF Stored, Reply
    <3> QED
      BY <2>2, <3>3
  <2> QED
    BY <1>1, <1>4, <2>1, <2>2, OutcomeSteps
<1> QED
  BY <1>2, <1>3, <1>4 DEF TellsFit

\* Who has failed under a key has failed for good.
LEMMA FailedStays ==
  ASSUME IInv, [AnyNext]_vars, NEW p \in Requests, NEW k, Failed(p, k)
  PROVE  Failed(p, k)'
<1>1. TypeOK /\ RequestsFit
  BY DEF IInv
<1>2. /\ pc[p] # "idle" /\ Keyed(p) /\ KeyOf(call[p]) = k /\ call[p].op = "confirm"
      /\ Keyed(p)' /\ KeyOf(call'[p]) = k
  BY <1>1, KeyedStays DEF Failed, Keyed
<1>3. CASE Untouched(p)
  BY <1>2, <1>3 DEF Failed, Untouched
<1>4. CASE pc[p] \in Ended
  <2>1. ~ \E c \in Call : Arrive(p, c)
    BY <1>4 DEF Arrive, At, Ended
  <2> QED
    BY <1>1, <1>3, <1>4, <2>1, IdleWaits, OwnStep
<1>5. CASE pc[p] = "dropKey" /\ reply[p].status = "error"
  <2>1. CASE DropKey(p)
    BY <1>1, <1>2, <1>5, <2>1 DEF DropKey, Goto, Failed, TypeOK
  <2>2. CASE Fault(p) \/ AnswerLost(p)
    <3>1. pc'[p] \in {"dropKey", "done"} /\ reply'[p].status = "error"
      BY <1>1, <1>5, <2>2, LostShape DEF Fault, Answer, Goto, InTry, TypeOK
    <3> QED
      BY <1>2, <3>1 DEF Failed
  <2>3. CASE Crash(p)
    BY <1>1, <1>2, <2>3 DEF Crash, Goto, Failed, TypeOK
  <2> QED
    BY <1>2, <1>3, <1>5, <2>1, <2>2, <2>3, ConfirmMoves
       DEF ConfirmWrite, Publish, LookupKey, StoreOutcome, At
<1> QED
  BY <1>3, <1>4, <1>5 DEF Failed, Ended

\* A key found to be another request's stays so until that one fails.
LEMMA MismatchesFitStep ==
  ASSUME BInv, [AnyNext]_vars
  PROVE  MismatchesFit'
<1>1. /\ TellsFit /\ MismatchesFit /\ KeysFit /\ RowsFit /\ AnswersFit
      /\ IInv /\ TypeOK /\ RequestsFit
  BY DEF BInv, KInv, LInv, IInv
<1> SUFFICES ASSUME NEW r \in Requests, pc'[r] = "done", Keyed(r)',
                    reply'[r].status = "keyMismatch"
             PROVE  \/ LET row == keys'[KeyOf(call'[r])] IN
                       row # Nil /\ row.requestHash # HashOf(call'[r])
                    \/ \E p \in Requests : Failed(p, KeyOf(call[r]))'
  BY DEF MismatchesFit
<1> PICK k : k = KeyOf(call[r])
  OBVIOUS
<1> DEFINE hash == HashOf(call[r])
           Goal == \/ keys'[k] # Nil /\ keys'[k].requestHash # hash
                   \/ \E p \in Requests : Failed(p, k)'
<1>2. pc[r] # "idle"
  BY <1>1, ArrivalStep DEF TellsFit
<1>3. /\ call'[r] = call[r] /\ Keyed(r) /\ call[r].op = "confirm"
      /\ KeyOf(call'[r]) = k /\ HashOf(call'[r]) = hash
  BY <1>1, <1>2, KeyedStays DEF Keyed
<1>4. k \in Users \X Keys
  BY <1>1, <1>2, <1>3, KeyOfType
<1> SUFFICES Goal
  <2>1. KeyOf(call[r])' = k
    BY <1>3
  <2> QED
    BY <1>3, <2>1
<1>5. ASSUME keys[k] # Nil, keys[k].requestHash # hash PROVE Goal
  <2>1. CASE keys'[k] = keys[k]
    BY <1>5, <2>1
  <2>2. ASSUME NEW q \in Requests, keys[k] = OwnRow(q),
               keys'[k] = [requestHash |-> HashOf(call[q]), outcome |-> Stored(reply[q])],
               keys'[k] # Nil
        PROVE  Goal
    BY <1>5, <2>2 DEF OwnRow
  <2>3. ASSUME NEW q \in Requests, DropKey(q), Executing(q), KeyOf(call[q]) = k
        PROVE  Goal
    <3>1. pc[q] = "dropKey" /\ pc'[q] = "done" /\ reply'[q] = reply[q] /\ Keyed(q)
      BY <1>1, <2>3 DEF DropKey, At, Goto, Executing, TypeOK
    <3>2. Keyed(q)' /\ KeyOf(call'[q]) = k
      BY <1>1, <2>3, <3>1, KeyedStays
    <3>3. reply[q].status = "error"
      BY <1>1, <3>1 DEF AnswersFit, AnswerFits
    <3> QED
      BY <3>1, <3>2, <3>3 DEF Failed
  <2>4. ASSUME NEW q \in Requests, StoreOutcome(q) \/ LostStore(q), KeyOf(call[q]) = k
        PROVE  keys'[k] # Nil
    <3>1. keys'[k] = IF keys[k] = Nil THEN Nil
                     ELSE [keys[k] EXCEPT !.outcome = Stored(reply[q])]
      BY <1>1, <1>4, <2>4 DEF StoreOutcome, LostStore, TypeOK
    <3>2. Stored(reply[q]) \in Reply /\ keys[k] \in KeyRow
      BY <1>1, <1>4, <1>5, StoredFacts DEF TypeOK
    <3>3. keys'[k] \in KeyRow
      BY <1>5, <3>1, <3>2 DEF KeyRow
    <3> QED
      BY <3>3, NilAssumption
  <2> QED
    BY <1>1, <1>4, <1>5, <2>1, <2>2, <2>3, <2>4, RowSteps
<1>6. ASSUME NEW p \in Requests, Failed(p, k) PROVE Goal
  BY <1>1, <1>6, FailedStays
<1>7. CASE Untouched(r)
  <2>1. pc[r] = "done" /\ reply[r].status = "keyMismatch"
    BY <1>7 DEF Untouched
  <2>2. \/ keys[k] # Nil /\ keys[k].requestHash # hash
        \/ \E p \in Requests : Failed(p, k)
    BY <1>1, <1>3, <2>1 DEF MismatchesFit
  <2> QED
    BY <1>5, <1>6, <2>2
<1>8. CASE LookupKey(r)
  <2>1. reply'[r] = Replay(keys[k], call[r])
    BY <1>1, <1>8 DEF LookupKey, TypeOK
  <2>2. keys[k] # Nil /\ keys[k].requestHash # hash
    BY <1>1, <1>4, <2>1 DEF Replay, TellsFit
  <2> QED
    BY <1>5, <2>2
<1>9. CASE StoreOutcome(r) \/ DropKey(r)
  BY <1>1, <1>3, <1>9 DEF StoreOutcome, DropKey, At, TellsFit
<1>10. CASE \/ pc'[r] \in {"lookup", "confirm", "consume", "confirmTx"}
            \/ \E status : Reject(r, status)
            \/ ConfirmWrite(r) \/ Publish(r) \/ Fault(r) \/ AnswerLost(r) \/ Crash(r)
  <2>1. ASSUME NEW status, Reject(r, status) PROVE pc'[r] = "storeOutcome"
    BY <1>1, <1>3, <2>1 DEF Reject, Goto, TypeOK
  <2>2. CASE Fault(r) \/ AnswerLost(r)
    BY <1>1, <2>2, LostShape DEF Fault, Answer, TypeOK
  <2> QED
    BY <1>1, <1>3, <1>10, <2>1, <2>2 DEF ConfirmWrite, Publish, Crash, Goto, TypeOK
<1> QED
  BY <1>1, <1>2, <1>3, <1>7, <1>8, <1>9, <1>10, ConfirmMoves

\* A hold stays one.
LEMMA HoldStays ==
  ASSUME TypeOK, RequestsFit, [AnyNext]_vars, NEW h \in Requests, IsHold(h)
  PROVE  IsHold(h)'
BY PastStays, CallStable DEF IsHold, BeforeHold

\* Metadata appears only where it is written.
LEMMA MetaStep ==
  ASSUME [AnyNext]_vars, NEW h, h \in holdMeta'
  PROVE  h \in holdMeta \/ \E r \in Requests : pc[r] = "writeMeta" /\ h = reply[r].id
<1>1. ASSUME NEW r \in Requests, NEW c \in Call, Arrive(r, c) PROVE UNCHANGED holdMeta
  BY <1>1 DEF Arrive, shared, redis
<1>2. ASSUME NEW r \in Requests, BookStep(r) PROVE UNCHANGED holdMeta
  BY <1>2 DEF BookStep, BookChecks, LockSlot, ReadVersion, ReadExisting, SwapWon, SwapLost,
     BookInTransaction, LockedTransaction, DirectWrite, Check, shared, redis
<1>3. ASSUME NEW r \in Requests, HoldStep(r), ~ WriteMeta(r) PROVE UNCHANGED holdMeta
  BY <1>3 DEF HoldStep, HoldChecks, HoldWindow, AcquireHold, ReuseTooLate, Check, shared,
     redis
<1>4. ASSUME NEW r \in Requests, WriteMeta(r) PROVE h \in holdMeta \cup {reply[r].id}
  BY <1>4 DEF WriteMeta
<1>5. ASSUME NEW r \in Requests, ConfirmStep(r) PROVE UNCHANGED holdMeta
  BY <1>5 DEF ConfirmStep, ClaimKey, LookupKey, ConfirmChecks, ConsumeHold, ConfirmWrite,
     ConfirmRollback, StoreOutcome, DropKey, Check, shared, redis
<1>6. ASSUME NEW r \in Requests, CancelStep(r) \/ Publish(r) \/ Fault(r) \/ Crash(r)
      PROVE  UNCHANGED holdMeta
  BY <1>6 DEF CancelStep, CancelChecks, CancelTransaction, Publish, Fault, Crash, Breaks,
     Check, shared, redis
<1>7. CASE Environment \/ UNCHANGED vars
  BY <1>7 DEF Environment, ExpireHold, ExpireMeta, Tick, vars, shared, redis
<1>8. ASSUME NEW r \in Requests, AnswerLost(r) PROVE UNCHANGED holdMeta
  BY <1>8, LostShape
<1> QED
  BY <1>1, <1>2, <1>3, <1>4, <1>5, <1>6, <1>7, <1>8 DEF AnyNext, Handle, Rest, WriteMeta, At

\* Holds and metadata go on being named after hold requests.
LEMMA HoldsAreNamedStep ==
  ASSUME IInv, HoldsFit, HoldsFit', HoldsAreNamed, [AnyNext]_vars
  PROVE  HoldsAreNamed'
<1>1. TypeOK /\ RequestsFit /\ TypeOK'
  BY Inductive DEF IInv
<1>2. ASSUME NEW r \in Requests, AcquireHold(r), pc'[r] \notin BeforeHold PROVE IsHold(r)'
  BY <1>1, <1>2 DEF AcquireHold, At, RequestsFit, StepFitsCall, HoldSteps, IsHold, locals
<1>3. ASSUME NEW seat \in Tables \X Slots, holds'[seat] # Nil PROVE IsHold(holds[seat].id)'
  <2>1. CASE holds'[seat] = holds[seat]
    <3>1. holds[seat].id \in Requests /\ IsHold(holds[seat].id)
      BY <1>1, <1>3, <2>1 DEF HoldsAreNamed, TypeOK, HoldRow
    <3>2. PICK h \in Requests : h = holds[seat].id
      BY <3>1
    <3>3. IsHold(h)'
      BY <1>1, <3>1, <3>2, HoldStays
    <3> QED
      BY <2>1, <3>2, <3>3 DEF IsHold
  <2>2. ASSUME NEW r \in Requests, AcquireHold(r),
               holds'[seat] = [id |-> r, user |-> call[r].user]
        PROVE  IsHold(holds[seat].id)'
    <3>1. holds'[seat].id = r /\ pc'[r] \notin BeforeHold
      BY <1>3, <2>2 DEF HoldsFit, HoldsAreMade
    <3> QED
      BY <1>2, <2>2, <3>1 DEF IsHold
  <2> QED
    BY <1>1, <1>3, <2>1, <2>2, HoldsStep
<1>4. ASSUME NEW r \in Requests, pc'[r] = "writeMeta" PROVE IsHold(reply[r].id)'
  <2>1. ASSUME NEW h \in Requests, IsHold(h), reply'[r].id = h PROVE IsHold(reply[r].id)'
    BY <1>1, <2>1, HoldStays DEF IsHold
  <2>2. CASE Untouched(r)
    <3>1. reply[r].id \in Requests /\ IsHold(reply[r].id) /\ reply'[r] = reply[r]
      BY <1>1, <1>4, <2>2 DEF Untouched, HoldsAreNamed, RequestsFit, StepFitsCall
    <3> QED
      BY <2>1, <3>1
  <2>3. CASE AcquireHold(r)
    <3> DEFINE current == holds[SeatOf(call[r])]
    <3>1. SeatOf(call[r]) \in Tables \X Slots
      <4>1. call[r] \in Call /\ call[r].op = "hold"
        BY <1>1, <2>3 DEF AcquireHold, At, RequestsFit, StepFitsCall, HoldSteps
      <4> QED
        BY <4>1, CallTypes DEF SeatOf
    <3>2. reply'[r] = [status |-> "held", id |-> IF current = Nil THEN r ELSE current.id]
      BY <1>1, <1>4, <2>3 DEF AcquireHold, Reject, Answer, Goto, TypeOK
    <3>3. reply'[r].id = IF current = Nil THEN r ELSE current.id
      BY <3>2
    <3>4. CASE current = Nil
      BY <1>2, <1>4, <2>3, <3>3, <3>4 DEF IsHold, BeforeHold
    <3>5. CASE current # Nil
      <4>1. current.id \in Requests /\ IsHold(current.id)
        BY <1>1, <3>1, <3>5 DEF HoldsAreNamed, TypeOK, HoldRow
      <4> QED
        BY <2>1, <3>3, <3>5, <4>1
    <3> QED
      BY <3>4, <3>5
  <2> QED
    BY <1>1, <1>4, <2>2, <2>3, OwnMoves
<1>5. ASSUME NEW h \in holdMeta' PROVE IsHold(h)'
  <2>1. h \in Requests /\ IsHold(h)
    BY <1>1, <1>5, MetaStep DEF HoldsAreNamed, TypeOK, RequestsFit, StepFitsCall
  <2> QED
    BY <1>1, <2>1, HoldStays
<1> QED
  BY <1>3, <1>4, <1>5 DEF HoldsAreNamed

\* The booking core's part holds at first, and after every step of its own.
LEMMA CoreInitial == Init => BInv
<1> SUFFICES ASSUME Init PROVE BInv
  OBVIOUS
<1>1. KInv /\ HoldsFit
  BY KeysInitial, HoldsInitial
<1>2. SuccessesFit /\ TellsFit /\ MismatchesFit /\ HoldsAreNamed
  BY DEF Init, Unanswered, SuccessesFit, TellsFit, MismatchesFit, HoldsAreNamed
<1> QED
  BY <1>1, <1>2 DEF BInv

LEMMA CoreInductive == BInv /\ [AnyNext]_vars => BInv'
<1> SUFFICES ASSUME BInv, [AnyNext]_vars PROVE BInv'
  OBVIOUS
<1>1. KInv /\ HoldsFit /\ HoldsAreNamed /\ IInv
  BY DEF BInv, KInv, LInv
<1>2. KInv' /\ HoldsFit'
  BY <1>1, KeysInductive, HoldsInductive
<1>3. SuccessesFit' /\ TellsFit' /\ MismatchesFit' /\ HoldsAreNamed'
  BY <1>1, <1>2, SuccessesFitStep, TellsFitStep, MismatchesFitStep, HoldsAreNamedStep
<1> QED
  BY <1>2, <1>3 DEF BInv

\* A failed await of the webhook's own: nothing but the fault budget changes.
OnlyFaults == faults' \in 0..MaxFaults /\ UNCHANGED <<shared, pc, reply, locals, now>>

LEMMA FaultsKeep ==
  ASSUME BInv, OnlyFaults
  PROVE  BInv'
<1>1. /\ UNCHANGED <<reservations, payments, balance, webhookJobs, notificationJobs, keys>>
      /\ UNCHANGED <<version, slotLock, mandates, decisions, holds, holdMeta, published>>
      /\ UNCHANGED <<pc, call, reply, seenVersion, attempt, now>>
      /\ faults' \in 0..MaxFaults
  BY DEF OnlyFaults, shared, ledger, slotRows, gate, redis, locals
<1>2. TypeOK'
  BY <1>1 DEF BInv, KInv, LInv, IInv, TypeOK
<1>3. RequestsFit'
  BY <1>1 DEF BInv, KInv, LInv, IInv, RequestsFit, StepFitsCall
<1>4. OutboxMatchesLedger' /\ NoDoubleBooking' /\ PaidInFull'
  BY <1>1 DEF BInv, KInv, LInv, IInv, OutboxMatchesLedger, NoDoubleBooking, PaidInFull, Booked
<1>5. KeysFit'
  BY <1>1 DEF BInv, KInv, KeysFit, KeyExecutesOnce, Executing, Keyed
<1>6. AnswersFit'
  BY <1>1 DEF BInv, KInv, AnswersFit, AnswerFits
<1>7. RowsFit' /\ OutcomesFit'
  BY <1>1 DEF BInv, KInv, RowsFit, Executing, Keyed, OwnRow, DoomedRow, OutcomesFit
<1>8. StoredSuccessIsReal' /\ KeptFit' /\ DenialsFit'
  BY <1>1 DEF BInv, KInv, StoredSuccessIsReal, KeptFit, Keyed, DenialsFit
<1>9. HoldsFit'
  BY <1>1 DEF BInv, HoldsFit, HoldsAreMade, ConsumedIsGone, ConsumedOnce, HasConsumed
<1>10. SuccessesFit' /\ TellsFit'
  BY <1>1 DEF BInv, SuccessesFit, Fulfils, TellsFit, Keyed
<1>11. MismatchesFit' /\ HoldsAreNamed'
  BY <1>1 DEF BInv, MismatchesFit, Failed, Keyed, HoldsAreNamed, IsHold
<1> QED
  BY <1>2, <1>3, <1>4, <1>5, <1>6, <1>7, <1>8, <1>9, <1>10, <1>11 DEF BInv, KInv, LInv, IInv

-------------------------------------------------------------------------------
(* What the payment part relies on: the booking core only goes on *)

\* What a request was given, booked or answered stays.
Lasts(r) ==
  /\ pc[r] = "done" => pc'[r] = "done" /\ reply'[r] = reply[r]
  /\ pc[r] \notin BeforeHold => pc'[r] \notin BeforeHold /\ call'[r] = call[r]
  /\ reservations[r] # Nil => reservations'[r] # Nil /\ call'[r] = call[r]

LEMMA Lasting ==
  ASSUME BInv, [AnyNext]_vars \/ OnlyFaults, NEW r \in Requests
  PROVE  Lasts(r)
<1>1. KInv /\ TypeOK /\ RequestsFit
  BY DEF BInv, KInv, LInv, IInv
<1>2. CASE OnlyFaults
  BY <1>2 DEF OnlyFaults, Lasts, shared, ledger, locals
<1>3. CASE [AnyNext]_vars
  BY <1>1, <1>3, DoneStays, PastStays, CallStable, FulfilsStays DEF Lasts, BeforeHold
<1> QED
  BY <1>2, <1>3

-------------------------------------------------------------------------------
(* The invariant of the payment part *)

\* An order's notes are the confirm of a hold its client was given.
OrdersFit ==
  \A o \in Orders :
    /\ order[o].state # "none" =>
         order[o].notes \in Call /\ order[o].notes.op = "confirm" /\ Known(order[o].notes)
    /\ order[o].state \in {"created", "captured"} => order[o].notes.key = OrderKey[o]

\* A request that is a delivery whose hold was found.
Resolved(r) == stage[r] \notin {"none", "ignored"}

\* It confirms what its captured order's notes and its hold's metadata say.
DeliveriesFit ==
  \A r \in Requests :
    Resolved(r) =>
      /\ delivery[r] \in Orders /\ order[delivery[r]].state = "captured"
      /\ IsHold(order[delivery[r]].notes.hold)
      /\ pc[r] \notin BeforeHold /\ call[r] = ConfirmOf(delivery[r])

\* A delivery is done when it has logged or acknowledged, and has settled its payment.
SettledFits ==
  /\ \A r \in Requests :
       stage[r] = "log" => delivery[r] \in refunded /\ call[r].mandate # Nil
  /\ \A r \in Requests :
       stage[r] = "acked" => BookedFor(delivery[r]) # {} \/ delivery[r] \in refunded

\* Behind a refund is a delivery whose confirm came back without a booking.
RefundsFit ==
  \A o \in refunded :
    \E r \in Requests :
      Resolved(r) /\ delivery[r] = o /\ pc[r] = "done" /\ reply[r].status # "created"

\* A payment row names the payment of its own hold.
LinksFit ==
  \A q \in Requests :
    razorpayPaymentId[q] # Nil => q \in BookedFor(razorpayPaymentId[q])

PInv ==
  /\ BInv /\ PaymentsTypeOK
  /\ OrdersFit /\ DeliveriesFit /\ SettledFits /\ RefundsFit /\ LinksFit

\* The notes of an order are a confirm of a request's.
LEMMA NotesTypes ==
  ASSUME PaymentsTypeOK, OrdersFit, NEW o \in Orders, order[o].state # "none"
  PROVE  /\ order[o].notes \in [op: {"confirm"}, user: Users, table: Tables, slot: Slots,
                                hold: Requests, key: Keys \cup {Nil},
                                mandate: Mandates \cup {Nil}]
         /\ order[o].notes.hold \in Requests
BY DEF OrdersFit, Call

\* What a delivery confirms is a confirm, under the order's key.
LEMMA ConfirmOfFacts ==
  ASSUME TypeOK, RequestsFit, PaymentsTypeOK, OrdersFit, NEW o \in Orders,
         order[o].state = "captured", IsHold(order[o].notes.hold)
  PROVE  /\ ConfirmOf(o) \in Call /\ ConfirmOf(o).op = "confirm"
         /\ ConfirmOf(o).hold = order[o].notes.hold
         /\ ConfirmOf(o).key = OrderKey[o] /\ OrderKey[o] \in Keys /\ OrderKey[o] # Nil
         /\ ConfirmOf(o).mandate \in Mandates \cup {Nil}
<1> DEFINE notes == order[o].notes
           meta == call[notes.hold]
<1>1. notes \in [op: {"confirm"}, user: Users, table: Tables, slot: Slots,
                 hold: Requests, key: Keys \cup {Nil}, mandate: Mandates \cup {Nil}]
  BY NotesTypes
<1>2. notes.key = OrderKey[o]
  BY DEF OrdersFit
<1>3. meta.user \in Users /\ meta.table \in Tables /\ meta.slot \in Slots
  <2>1. meta \in Call /\ meta.op = "hold"
    BY <1>1 DEF IsHold, BeforeHold, RequestsFit, StepFitsCall
  <2> QED
    BY <2>1, CallTypes
<1>4. ConfirmOf(o) = [notes EXCEPT !.user = meta.user, !.table = meta.table,
                                   !.slot = meta.slot]
  BY DEF ConfirmOf
<1>5. /\ ConfirmOf(o) \in [op: {"confirm"}, user: Users, table: Tables, slot: Slots,
                           hold: Requests, key: Keys \cup {Nil},
                           mandate: Mandates \cup {Nil}]
      /\ ConfirmOf(o).hold = notes.hold /\ ConfirmOf(o).key = notes.key
  <2> HIDE DEF notes, meta
  <2> QED
    BY <1>1, <1>3, <1>4
<1>6. OrderKey[o] \in Keys /\ OrderKey[o] # Nil
  BY PaymentsAssumption, ConstantsAssumption
<1> QED
  BY <1>2, <1>5, <1>6 DEF Call

\* A request of the booking side, whose calls may be any.
LEMMA BookingIsAny ==
  ASSUME BookingSide
  PROVE  [AnyNext]_vars /\ UNCHANGED payment
BY ConstantsAssumption DEF BookingSide, AnyNext

\* A delivery is an arrival of the confirm its order asks for.
LEMMA DeliverFacts ==
  ASSUME PInv, NEW r \in Requests, NEW o \in Orders, Deliver(r, o)
  PROVE  /\ order[o].state = "captured" /\ IsHold(order[o].notes.hold)
         /\ ConfirmOf(o) \in Call /\ Arrive(r, ConfirmOf(o))
         /\ delivery' = [delivery EXCEPT ![r] = o]
         /\ stage' = [stage EXCEPT ![r] = "confirming"]
         /\ stage[r] = "none"
         /\ UNCHANGED <<order, refunded, razorpayPaymentId, compensations>>
<1>1. TypeOK /\ RequestsFit /\ PaymentsTypeOK /\ OrdersFit /\ HoldsAreNamed
  BY DEF PInv, BInv, KInv, LInv, IInv
<1>2. /\ order[o].state = "captured" /\ order[o].notes.hold \in holdMeta
      /\ pc[r] = "idle" /\ stage[r] = "none"
  BY DEF Deliver, Receive, At
<1>3. IsHold(order[o].notes.hold)
  BY <1>1, <1>2 DEF HoldsAreNamed
<1>4. /\ ConfirmOf(o) \in Call /\ ConfirmOf(o).op = "confirm" /\ ConfirmOf(o).key # Nil
      /\ ConfirmOf(o).hold = order[o].notes.hold
  BY <1>1, <1>2, <1>3, ConfirmOfFacts
<1>5. Known(ConfirmOf(o))
  <2>1. Known(order[o].notes) /\ order[o].notes.op = "confirm"
    BY <1>1, <1>2 DEF OrdersFit
  <2> QED
    BY <1>4, <2>1 DEF Known
<1>6. FirstStep(ConfirmOf(o)) = "claim"
  BY <1>4 DEF FirstStep
<1>7. Arrive(r, ConfirmOf(o))
  BY <1>2, <1>5, <1>6 DEF Deliver, Arrive, At
<1> QED
  BY <1>2, <1>3, <1>4, <1>7 DEF Deliver, Receive

\* A step of the whole system is one of the booking core, or spends a fault.
LEMMA CoreSteps ==
  ASSUME PInv, [PaymentsNext]_allVars
  PROVE  [AnyNext]_vars \/ OnlyFaults
<1>1. CASE BookingSide
  BY <1>1, BookingIsAny
<1>2. ASSUME NEW r \in Requests, NEW o \in Orders, Deliver(r, o) PROVE AnyNext
  BY <1>2, DeliverFacts DEF AnyNext
<1>3. ASSUME NEW r \in Requests, WebhookFails(r) \/ WebhookAnswerLost(r) PROVE OnlyFaults
  <2>1. MaxFaults \in Nat /\ faults \in 0..MaxFaults
    BY ConstantsAssumption DEF PInv, BInv, KInv, LInv, IInv, TypeOK
  <2>2. Unacknowledged(r)
    BY <1>3 DEF WebhookFails, WebhookAnswerLost
  <2>3. faults' \in 0..MaxFaults
    BY <2>1, <2>2 DEF Unacknowledged
  <2> QED
    BY <2>2, <2>3 DEF Unacknowledged, OnlyFaults
<1>4. ASSUME NEW o \in Orders,
             \/ \E c \in OrderCalls : PreviewOrder(o, c)
             \/ CreateOrder(o) \/ Capture(o)
             \/ \E r \in Requests : Ignore(r, o)
      PROVE  UNCHANGED vars
  BY <1>4 DEF PreviewOrder, CreateOrder, Capture, SetOrder, Ignore
<1>5. ASSUME NEW r \in Requests, Webhook(r) PROVE UNCHANGED vars
  BY <1>5 DEF Webhook, RecordPayment, Refund, LogCompensation
<1>6. CASE UNCHANGED allVars
  BY <1>6 DEF allVars
<1> QED
  BY <1>1, <1>2, <1>3, <1>4, <1>5, <1>6 DEF PaymentsNext, PaymentSide

\* How an order moves.
LEMMA OrderSteps ==
  ASSUME PaymentsTypeOK, [PaymentsNext]_allVars, NEW o \in Orders
  PROVE  \/ order'[o] = order[o]
         \/ \E c \in OrderCalls :
              /\ order[o].state = "none" /\ Known(c) /\ UNCHANGED vars
              /\ \/ order'[o] = [state |-> "allowed", notes |-> c]
                 \/ order'[o] = [state |-> "denied", notes |-> c]
         \/ /\ order[o].state = "allowed"
            /\ order'[o] = [state |-> "created",
                            notes |-> [order[o].notes EXCEPT !.key = OrderKey[o]]]
         \/ /\ order[o].state = "created"
            /\ order'[o] = [state |-> "captured", notes |-> order[o].notes]
<1>1. ASSUME NEW q \in Orders, NEW state, NEW notes, SetOrder(q, state, notes)
      PROVE  order'[o] = IF o = q THEN [state |-> state, notes |-> notes] ELSE order[o]
  BY <1>1 DEF SetOrder, PaymentsTypeOK
<1>2. ASSUME NEW q \in Orders, NEW c \in OrderCalls, PreviewOrder(q, c)
      PROVE  \/ order'[o] = order[o]
             \/ /\ order[o].state = "none" /\ Known(c) /\ UNCHANGED vars
                /\ \/ order'[o] = [state |-> "allowed", notes |-> c]
                   \/ order'[o] = [state |-> "denied", notes |-> c]
  <2>1. /\ order[q].state = "none" /\ Known(c) /\ UNCHANGED vars
        /\ SetOrder(q, "allowed", c) \/ SetOrder(q, "denied", c)
    BY <1>2 DEF PreviewOrder, SetOrder
  <2> QED
    BY <1>1, <2>1
<1>3. ASSUME NEW q \in Orders, CreateOrder(q) \/ Capture(q)
      PROVE  \/ order'[o] = order[o]
             \/ /\ order[o].state = "allowed"
                /\ order'[o] = [state |-> "created",
                                notes |-> [order[o].notes EXCEPT !.key = OrderKey[o]]]
             \/ /\ order[o].state = "created"
                /\ order'[o] = [state |-> "captured", notes |-> order[o].notes]
  <2>1. CASE CreateOrder(q)
    <3>1. /\ order[q].state = "allowed"
          /\ SetOrder(q, "created", [order[q].notes EXCEPT !.key = OrderKey[q]])
      BY <2>1 DEF CreateOrder
    <3>2. CASE o = q
      BY <1>1, <3>1, <3>2
    <3>3. CASE o # q
      BY <1>1, <3>1, <3>3
    <3> QED
      BY <3>2, <3>3
  <2>2. CASE Capture(q)
    <3>1. order[q].state = "created" /\ SetOrder(q, "captured", order[q].notes)
      BY <2>2 DEF Capture
    <3>2. CASE o = q
      BY <1>1, <3>1, <3>2
    <3>3. CASE o # q
      BY <1>1, <3>1, <3>3
    <3> QED
      BY <3>2, <3>3
  <2> QED
    BY <1>3, <2>1, <2>2
<1>4. ASSUME NEW q \in Orders, NEW r \in Requests, Ignore(r, q) \/ Deliver(r, q)
      PROVE  UNCHANGED order
  BY <1>4 DEF Ignore, Deliver, Receive
<1>5. ASSUME NEW r \in Requests, Webhook(r) \/ WebhookFails(r) \/ WebhookAnswerLost(r)
      PROVE  UNCHANGED order
  BY <1>5 DEF Webhook, RecordPayment, Refund, LogCompensation, WebhookFails,
     WebhookAnswerLost, Unacknowledged
<1>6. CASE BookingSide \/ UNCHANGED allVars
  BY <1>6 DEF BookingSide, allVars, payment
<1> QED
  BY <1>2, <1>3, <1>4, <1>5, <1>6 DEF PaymentsNext, PaymentSide

\* How a delivery moves.
LEMMA DeliverySteps ==
  ASSUME PInv, [PaymentsNext]_allVars, NEW r \in Requests
  PROVE  \/ delivery'[r] = delivery[r] /\ stage'[r] = stage[r]
         \/ \E o \in Orders : Ignore(r, o) \/ Deliver(r, o)
         \/ RecordPayment(r) \/ Refund(r) \/ LogCompensation(r)
         \/ WebhookFails(r) \/ WebhookAnswerLost(r)
<1>1. PaymentsTypeOK
  BY DEF PInv
<1>2. ASSUME NEW q \in Requests, q # r, NEW o \in Orders, Ignore(q, o) \/ Deliver(q, o)
      PROVE  delivery'[r] = delivery[r] /\ stage'[r] = stage[r]
  BY <1>1, <1>2 DEF Ignore, Deliver, Receive, PaymentsTypeOK
<1>3. ASSUME NEW q \in Requests, q # r,
             Webhook(q) \/ WebhookFails(q) \/ WebhookAnswerLost(q)
      PROVE  delivery'[r] = delivery[r] /\ stage'[r] = stage[r]
  BY <1>1, <1>3 DEF Webhook, RecordPayment, Refund, LogCompensation, WebhookFails,
     WebhookAnswerLost, Unacknowledged, PaymentsTypeOK
<1>4. ASSUME NEW o \in Orders,
             \/ \E c \in OrderCalls : PreviewOrder(o, c)
             \/ CreateOrder(o) \/ Capture(o)
      PROVE  delivery'[r] = delivery[r] /\ stage'[r] = stage[r]
  BY <1>4 DEF PreviewOrder, CreateOrder, Capture, SetOrder
<1>5. CASE BookingSide \/ UNCHANGED allVars
  BY <1>5 DEF BookingSide, allVars, payment
<1> QED
  BY <1>2, <1>3, <1>4, <1>5 DEF PaymentsNext, PaymentSide, Webhook

\* What an order was made for stays, and a captured one is not touched.
LEMMA OrderLasts ==
  ASSUME PInv, [PaymentsNext]_allVars, NEW o \in Orders, order[o].state # "none"
  PROVE  /\ order'[o].state # "none" /\ order'[o].notes.hold = order[o].notes.hold
         /\ order[o].state = "captured" => order'[o] = order[o]
<1>1. PaymentsTypeOK /\ OrdersFit
  BY DEF PInv
<1>2. order[o].notes \in [op: {"confirm"}, user: Users, table: Tables, slot: Slots,
                          hold: Requests, key: Keys \cup {Nil},
                          mandate: Mandates \cup {Nil}]
  BY <1>1, NotesTypes
<1>3. [order[o].notes EXCEPT !.key = OrderKey[o]].hold = order[o].notes.hold
  BY <1>2
<1>4. CASE order'[o] = order[o]
  BY <1>4
<1>5. CASE order'[o] = [state |-> "created",
                        notes |-> [order[o].notes EXCEPT !.key = OrderKey[o]]]
           /\ order[o].state = "allowed"
  <2>1. PICK c : c = [order[o].notes EXCEPT !.key = OrderKey[o]]
    OBVIOUS
  <2>2. c.hold = order[o].notes.hold
    BY <1>3, <2>1
  <2>3. order'[o] = [state |-> "created", notes |-> c]
    BY <1>5, <2>1
  <2>4. order'[o].state = "created" /\ order'[o].notes = c
    BY <2>3
  <2> QED
    BY <1>5, <2>2, <2>4
<1>6. CASE order'[o] = [state |-> "captured", notes |-> order[o].notes]
           /\ order[o].state = "created"
  BY <1>6
<1> QED
  BY <1>1, <1>4, <1>5, <1>6, OrderSteps

\* A hold a client was given stays one it was given.
LEMMA KnownStays ==
  ASSUME BInv, [AnyNext]_vars \/ OnlyFaults, NEW c, c.op = "confirm", Known(c)
  PROVE  Known(c)'
<1>1. PICK q \in Requests : pc[q] = "done" /\ reply[q] = [status |-> "held", id |-> c.hold]
  BY DEF Known, At
<1>2. pc'[q] = "done" /\ reply'[q] = reply[q]
  BY <1>1, Lasting DEF Lasts
<1> QED
  BY <1>1, <1>2 DEF Known, At

\* Orders go on to be for holds that were given.
LEMMA OrdersFitStep ==
  ASSUME PInv, [PaymentsNext]_allVars
  PROVE  OrdersFit'
<1>1. BInv /\ PaymentsTypeOK /\ OrdersFit /\ ([AnyNext]_vars \/ OnlyFaults)
  BY CoreSteps DEF PInv
<1> SUFFICES ASSUME NEW o \in Orders
             PROVE  /\ order'[o].state # "none" =>
                         /\ order'[o].notes \in Call /\ order'[o].notes.op = "confirm"
                         /\ Known(order[o].notes)'
                    /\ order'[o].state \in {"created", "captured"} =>
                         order'[o].notes.key = OrderKey[o]
  BY DEF OrdersFit
<1> DEFINE Goal == /\ order'[o].state # "none" =>
                        /\ order'[o].notes \in Call /\ order'[o].notes.op = "confirm"
                        /\ Known(order[o].notes)'
                   /\ order'[o].state \in {"created", "captured"} =>
                        order'[o].notes.key = OrderKey[o]
<1> SUFFICES Goal
  OBVIOUS
<1>2. ASSUME NEW c \in Call, c.op = "confirm", Known(c), order'[o].notes = c,
             order'[o].state \in {"created", "captured"} => c.key = OrderKey[o]
      PROVE  Goal
  <2>1. Known(c)'
    BY <1>1, <1>2, KnownStays
  <2> QED
    BY <1>2, <2>1 DEF Known
<1>3. CASE order'[o] = order[o]
  <2>1. CASE order[o].state = "none"
    BY <1>3, <2>1
  <2>2. CASE order[o].state # "none"
    <3>1. PICK c : c = order[o].notes
      OBVIOUS
    <3>2. /\ c \in Call /\ c.op = "confirm" /\ Known(c)
          /\ order[o].state \in {"created", "captured"} => c.key = OrderKey[o]
      BY <1>1, <2>2, <3>1 DEF OrdersFit
    <3> QED
      BY <1>2, <1>3, <3>1, <3>2
  <2> QED
    BY <2>1, <2>2
<1>4. ASSUME NEW c \in OrderCalls, Known(c),
             \/ order'[o] = [state |-> "allowed", notes |-> c]
             \/ order'[o] = [state |-> "denied", notes |-> c]
      PROVE  Goal
  <2>1. c \in Call /\ c.op = "confirm"
    BY PaymentsAssumption
  <2>2. order'[o].notes = c /\ order'[o].state \notin {"created", "captured"}
    BY <1>4
  <2> QED
    BY <1>2, <1>4, <2>1, <2>2
<1>5. ASSUME order[o].state = "allowed",
             order'[o] = [state |-> "created",
                          notes |-> [order[o].notes EXCEPT !.key = OrderKey[o]]]
      PROVE  Goal
  <2>1. PICK c : c = [order[o].notes EXCEPT !.key = OrderKey[o]]
    OBVIOUS
  <2>2. order[o].notes \in [op: {"confirm"}, user: Users, table: Tables, slot: Slots,
                            hold: Requests, key: Keys \cup {Nil},
                            mandate: Mandates \cup {Nil}]
    BY <1>1, <1>5, NotesTypes
  <2>3. OrderKey[o] \in Keys
    BY PaymentsAssumption
  <2>4. /\ c \in [op: {"confirm"}, user: Users, table: Tables, slot: Slots,
                  hold: Requests, key: Keys \cup {Nil}, mandate: Mandates \cup {Nil}]
        /\ c.hold = order[o].notes.hold /\ c.key = OrderKey[o]
    BY <2>1, <2>2, <2>3
  <2>5. c \in Call /\ c.op = "confirm"
    BY <2>4 DEF Call
  <2>6. Known(c)
    <3>1. Known(order[o].notes) /\ order[o].notes.op = "confirm"
      BY <1>1, <1>5 DEF OrdersFit
    <3> QED
      BY <2>4, <2>5, <3>1 DEF Known
  <2>7. order'[o].notes = c
    BY <1>5, <2>1
  <2> QED
    BY <1>2, <2>4, <2>5, <2>6, <2>7
<1>6. ASSUME order[o].state = "created",
             order'[o] = [state |-> "captured", notes |-> order[o].notes]
      PROVE  Goal
  <2>1. PICK c : c = order[o].notes
    OBVIOUS
  <2>2. c \in Call /\ c.op = "confirm" /\ Known(c) /\ c.key = OrderKey[o]
    BY <1>1, <1>6, <2>1 DEF OrdersFit
  <2>3. order'[o].notes = c
    BY <1>6, <2>1
  <2> QED
    BY <1>2, <2>2, <2>3
<1> QED
  BY <1>1, <1>3, <1>4, <1>5, <1>6, OrderSteps

\* What a delivery of an order confirms does not change.
LEMMA ConfirmOfStays ==
  ASSUME PInv, [PaymentsNext]_allVars, NEW o \in Orders,
         order[o].state = "captured", IsHold(order[o].notes.hold)
  PROVE  /\ order'[o] = order[o]
         /\ IsHold(order[o].notes.hold)' /\ ConfirmOf(o)' = ConfirmOf(o)
<1>1. BInv /\ PaymentsTypeOK /\ OrdersFit /\ ([AnyNext]_vars \/ OnlyFaults)
  BY CoreSteps DEF PInv
<1>2. order'[o] = order[o]
  BY OrderLasts
<1>3. PICK h \in Requests : h = order[o].notes.hold
  BY <1>1, NotesTypes
<1>4. pc'[h] \notin BeforeHold /\ call'[h] = call[h]
  BY <1>1, <1>3, Lasting DEF Lasts, IsHold
<1> QED
  BY <1>2, <1>3, <1>4 DEF IsHold, ConfirmOf

\* A delivery is moved on only while it is one.
LEMMA ResolvedSteps ==
  ASSUME PInv, [PaymentsNext]_allVars, NEW r \in Requests
  PROVE  \/ \E o \in Orders : Ignore(r, o) \/ Deliver(r, o)
         \/ delivery'[r] = delivery[r] /\ (Resolved(r)' <=> Resolved(r))
<1>1. PaymentsTypeOK
  BY DEF PInv
<1>2. CASE \/ RecordPayment(r) \/ Refund(r) \/ LogCompensation(r)
           \/ WebhookFails(r) \/ WebhookAnswerLost(r)
  <2>1. /\ delivery'[r] = delivery[r] /\ stage[r] \in {"confirming", "log"}
        /\ stage'[r] \in {"acked", "failed", "log"}
    BY <1>1, <1>2 DEF RecordPayment, Refund, LogCompensation, WebhookFails,
       WebhookAnswerLost, Unacknowledged, AfterConfirm, PaymentsTypeOK
  <2> QED
    BY <2>1 DEF Resolved
<1>3. CASE delivery'[r] = delivery[r] /\ stage'[r] = stage[r]
  BY <1>3 DEF Resolved
<1> QED
  BY <1>2, <1>3, DeliverySteps

\* Deliveries go on to be what their orders ask for.
LEMMA DeliveriesFitStep ==
  ASSUME PInv, [PaymentsNext]_allVars
  PROVE  DeliveriesFit'
<1>1. /\ BInv /\ PaymentsTypeOK /\ DeliveriesFit /\ ([AnyNext]_vars \/ OnlyFaults)
      /\ TypeOK
  BY CoreSteps DEF PInv, BInv, KInv, LInv, IInv
<1>2. SUFFICES ASSUME NEW r \in Requests, Resolved(r)'
               PROVE  /\ delivery'[r] \in Orders /\ order'[delivery'[r]].state = "captured"
                      /\ IsHold(order[delivery[r]].notes.hold)'
                      /\ pc'[r] \notin BeforeHold /\ call'[r] = ConfirmOf(delivery[r])'
  BY DEF DeliveriesFit
<1>3. ASSUME NEW o \in Orders, order[o].state = "captured", IsHold(order[o].notes.hold),
             delivery'[r] = o, pc'[r] \notin BeforeHold, call'[r] = ConfirmOf(o)
      PROVE  /\ delivery'[r] \in Orders /\ order'[delivery'[r]].state = "captured"
             /\ IsHold(order[delivery[r]].notes.hold)'
             /\ pc'[r] \notin BeforeHold /\ call'[r] = ConfirmOf(delivery[r])'
  <2>1. /\ order'[o] = order[o]
        /\ IsHold(order[o].notes.hold)' /\ ConfirmOf(o)' = ConfirmOf(o)
    BY <1>3, ConfirmOfStays
  <2> QED
    BY <1>3, <2>1 DEF IsHold, ConfirmOf
<1>4. CASE Resolved(r) /\ delivery'[r] = delivery[r]
  <2>1. PICK o \in Orders : o = delivery[r]
    BY <1>1, <1>4 DEF DeliveriesFit
  <2>2. /\ order[o].state = "captured" /\ IsHold(order[o].notes.hold)
        /\ pc[r] \notin BeforeHold /\ call[r] = ConfirmOf(o)
    BY <1>1, <1>4, <2>1 DEF DeliveriesFit
  <2>3. pc'[r] \notin BeforeHold /\ call'[r] = ConfirmOf(o)
    BY <1>1, <2>2, Lasting DEF Lasts
  <2> QED
    BY <1>3, <1>4, <2>1, <2>2, <2>3
<1>5. ASSUME NEW o \in Orders, Ignore(r, o) PROVE FALSE
  BY <1>1, <1>2, <1>5 DEF Ignore, Receive, Resolved, PaymentsTypeOK
<1>6. ASSUME NEW o \in Orders, Deliver(r, o)
      PROVE  /\ order[o].state = "captured" /\ IsHold(order[o].notes.hold)
             /\ delivery'[r] = o /\ pc'[r] \notin BeforeHold /\ call'[r] = ConfirmOf(o)
  <2>1. /\ order[o].state = "captured" /\ IsHold(order[o].notes.hold)
        /\ Arrive(r, ConfirmOf(o)) /\ delivery' = [delivery EXCEPT ![r] = o]
    BY <1>6, DeliverFacts
  <2>2. call'[r] = ConfirmOf(o) /\ delivery'[r] = o
    BY <1>1, <2>1 DEF Arrive, TypeOK, PaymentsTypeOK
  <2>3. pc'[r] = "claim"
    BY <1>1, <1>6 DEF Deliver, Goto, TypeOK
  <2> QED
    BY <2>1, <2>2, <2>3 DEF BeforeHold
<1> QED
  BY <1>2, <1>3, <1>4, <1>5, <1>6, ResolvedSteps

\* A refund goes on to have its reason.
LEMMA RefundsFitStep ==
  ASSUME PInv, [PaymentsNext]_allVars
  PROVE  RefundsFit'
<1> DEFINE Refunds(r) == AfterConfirm(r) /\ ~ Confirmed(r)
<1>1. /\ BInv /\ PaymentsTypeOK /\ DeliveriesFit /\ RefundsFit
      /\ ([AnyNext]_vars \/ OnlyFaults) /\ TypeOK
  BY CoreSteps DEF PInv, BInv, KInv, LInv, IInv
<1>2. ASSUME NEW r \in Requests, Resolved(r), pc[r] = "done", reply[r].status # "created"
      PROVE  /\ Resolved(r)' /\ delivery'[r] = delivery[r]
             /\ pc'[r] = "done" /\ reply'[r].status # "created"
  <2>1. ASSUME NEW o \in Orders, Ignore(r, o) \/ Deliver(r, o) PROVE FALSE
    BY <1>2, <2>1 DEF Ignore, Deliver, Receive, At
  <2> QED
    BY <1>1, <1>2, <2>1, ResolvedSteps, Lasting DEF Lasts
<1>3. ASSUME NEW o \in refunded'
      PROVE  \/ o \in refunded
             \/ \E r \in Requests : Refunds(r) /\ o = delivery[r]
  <2>1. ASSUME NEW q \in Orders,
               \/ \E c \in OrderCalls : PreviewOrder(q, c)
               \/ CreateOrder(q) \/ Capture(q)
               \/ \E r \in Requests : Ignore(r, q) \/ Deliver(r, q)
        PROVE  UNCHANGED refunded
    BY <2>1 DEF PreviewOrder, CreateOrder, Capture, SetOrder, Ignore, Deliver, Receive
  <2>2. ASSUME NEW r \in Requests, RecordPayment(r) \/ LogCompensation(r) \/ WebhookFails(r)
        PROVE  UNCHANGED refunded
    BY <2>2 DEF RecordPayment, LogCompensation, WebhookFails
  <2>3. ASSUME NEW r \in Requests, Refund(r) \/ WebhookAnswerLost(r)
        PROVE  UNCHANGED refunded \/ (Refunds(r) /\ refunded' = refunded \cup {delivery[r]})
    BY <2>3 DEF Refund, WebhookAnswerLost
  <2>4. CASE BookingSide \/ UNCHANGED allVars
    BY <2>4 DEF BookingSide, allVars, payment
  <2> QED
    BY <1>3, <2>1, <2>2, <2>3, <2>4 DEF PaymentsNext, PaymentSide, Webhook
<1>4. ASSUME NEW r \in Requests, Refunds(r)
      PROVE  Resolved(r) /\ pc[r] = "done" /\ reply[r].status # "created"
  BY <1>4 DEF AfterConfirm, Confirmed, At, Resolved
<1> QED
  BY <1>1, <1>2, <1>3, <1>4 DEF RefundsFit

\* Refunds are not taken back.
LEMMA RefundedStays ==
  ASSUME [PaymentsNext]_allVars
  PROVE  refunded \subseteq refunded'
<1>1. ASSUME NEW o \in Orders,
             \/ \E c \in OrderCalls : PreviewOrder(o, c)
             \/ CreateOrder(o) \/ Capture(o)
             \/ \E r \in Requests : Ignore(r, o) \/ Deliver(r, o)
      PROVE  UNCHANGED refunded
  BY <1>1 DEF PreviewOrder, CreateOrder, Capture, SetOrder, Ignore, Deliver, Receive
<1>2. ASSUME NEW r \in Requests, Webhook(r) \/ WebhookFails(r) \/ WebhookAnswerLost(r)
      PROVE  refunded \subseteq refunded'
  BY <1>2 DEF Webhook, RecordPayment, Refund, LogCompensation, WebhookFails,
     WebhookAnswerLost
<1>3. CASE BookingSide \/ UNCHANGED allVars
  BY <1>3 DEF BookingSide, allVars, payment
<1> QED
  BY <1>1, <1>2, <1>3 DEF PaymentsNext, PaymentSide

\* Nor are the reservations an order's hold was confirmed into.
LEMMA BookedStays ==
  ASSUME PInv, [PaymentsNext]_allVars, NEW o \in Orders, NEW q \in BookedFor(o)
  PROVE  q \in BookedFor(o)'
<1>1. BInv /\ ([AnyNext]_vars \/ OnlyFaults)
  BY CoreSteps DEF PInv
<1>2. /\ q \in Requests /\ reservations[q] # Nil /\ call[q].op = "confirm"
      /\ order[o].state # "none" /\ call[q].hold = order[o].notes.hold
  BY DEF BookedFor
<1>3. reservations'[q] # Nil /\ call'[q] = call[q]
  BY <1>1, <1>2, Lasting DEF Lasts
<1>4. order'[o].state # "none" /\ order'[o].notes.hold = order[o].notes.hold
  BY <1>2, OrderLasts
<1> QED
  BY <1>2, <1>3, <1>4 DEF BookedFor

\* A delivery whose confirm answered a booking, made or replayed, has one for its order.
LEMMA ConfirmedBooks ==
  ASSUME PInv, NEW r \in Requests, AfterConfirm(r), Confirmed(r)
  PROVE  delivery[r] \in Orders /\ reply[r].id \in BookedFor(delivery[r])
<1>1. /\ PaymentsTypeOK /\ OrdersFit /\ DeliveriesFit /\ SuccessesFit
      /\ TypeOK /\ RequestsFit
  BY DEF PInv, BInv, KInv, LInv, IInv
<1>2. PICK o \in Orders : o = delivery[r]
  BY <1>1 DEF AfterConfirm, Resolved, DeliveriesFit
<1>3. /\ order[o].state = "captured" /\ IsHold(order[o].notes.hold)
      /\ pc[r] = "done" /\ reply[r].status = "created" /\ call[r] = ConfirmOf(o)
  BY <1>1, <1>2 DEF AfterConfirm, Confirmed, At, Resolved, DeliveriesFit
<1>4. /\ call[r].op = "confirm" /\ call[r].key # Nil
      /\ call[r].hold = order[o].notes.hold
  BY <1>1, <1>3, ConfirmOfFacts
<1>5. Fulfils(reply[r].id, KeyOf(call[r]), HashOf(call[r]))
  BY <1>1, <1>3, <1>4 DEF SuccessesFit, Keyed
<1>6. /\ reply[r].id \in Requests /\ reservations[reply[r].id] # Nil
      /\ call[reply[r].id].op = "confirm" /\ call[reply[r].id].hold = call[r].hold
  BY <1>5 DEF Fulfils, Keyed, HashOf
<1> QED
  BY <1>2, <1>3, <1>4, <1>6 DEF BookedFor

\* An acknowledged delivery goes on to be settled.
LEMMA SettledFitsStep ==
  ASSUME PInv, [PaymentsNext]_allVars
  PROVE  SettledFits'
<1>1. /\ BInv /\ PaymentsTypeOK /\ DeliveriesFit /\ SettledFits
      /\ ([AnyNext]_vars \/ OnlyFaults)
  BY CoreSteps DEF PInv
<1> SUFFICES ASSUME NEW r \in Requests
             PROVE  /\ stage'[r] = "log" =>
                         delivery'[r] \in refunded' /\ call'[r].mandate # Nil
                    /\ stage'[r] = "acked" =>
                         BookedFor(delivery[r])' # {} \/ delivery'[r] \in refunded'
  BY DEF SettledFits
<1> DEFINE Goal == /\ stage'[r] = "log" =>
                        delivery'[r] \in refunded' /\ call'[r].mandate # Nil
                   /\ stage'[r] = "acked" =>
                        BookedFor(delivery[r])' # {} \/ delivery'[r] \in refunded'
<1> SUFFICES Goal
  OBVIOUS
<1>2. refunded \subseteq refunded'
  BY RefundedStays
<1>3. ASSUME NEW o \in Orders, NEW q \in BookedFor(o), delivery'[r] = o
      PROVE  BookedFor(delivery[r])' # {}
  <2>1. q \in BookedFor(o)'
    BY <1>3, BookedStays
  <2> QED
    BY <1>3, <2>1 DEF BookedFor
<1>4. ASSUME Resolved(r)
      PROVE  delivery[r] \in Orders /\ call'[r] = call[r]
  BY <1>1, <1>4, Lasting DEF DeliveriesFit, Lasts
<1>5. CASE delivery'[r] = delivery[r] /\ stage'[r] = stage[r]
  <2>1. CASE stage[r] = "log"
    BY <1>1, <1>2, <1>4, <1>5, <2>1 DEF SettledFits, Resolved
  <2>2. CASE stage[r] = "acked"
    <3>1. delivery[r] \in Orders
      BY <1>4, <2>2 DEF Resolved
    <3>2. BookedFor(delivery[r]) # {} \/ delivery[r] \in refunded
      BY <1>1, <2>2 DEF SettledFits
    <3> QED
      BY <1>2, <1>3, <1>5, <2>2, <3>1, <3>2
  <2> QED
    BY <1>5, <2>1, <2>2
<1>6. ASSUME NEW o \in Orders, Ignore(r, o) \/ Deliver(r, o) PROVE Goal
  BY <1>1, <1>6 DEF Ignore, Deliver, Receive, PaymentsTypeOK
<1>7. CASE RecordPayment(r)
  <2>1. delivery[r] \in Orders /\ reply[r].id \in BookedFor(delivery[r])
    BY <1>7, ConfirmedBooks DEF RecordPayment
  <2>2. delivery'[r] = delivery[r] /\ stage'[r] = "acked"
    BY <1>1, <1>7 DEF RecordPayment, PaymentsTypeOK
  <2> QED
    BY <1>3, <2>1, <2>2
<1>8. CASE Refund(r)
  <2>1. /\ delivery'[r] = delivery[r] /\ delivery[r] \in refunded'
        /\ stage'[r] = "log" => call[r].mandate # Nil
    BY <1>1, <1>8 DEF Refund, PaymentsTypeOK
  <2>2. call'[r] = call[r]
    BY <1>4, <1>8 DEF Refund, AfterConfirm, Resolved
  <2> QED
    BY <2>1, <2>2
<1>9. CASE LogCompensation(r)
  <2>1. /\ delivery'[r] = delivery[r] /\ stage'[r] = "acked" /\ delivery[r] \in refunded
    BY <1>1, <1>9 DEF LogCompensation, PaymentsTypeOK, SettledFits
  <2> QED
    BY <1>2, <2>1
<1>10. CASE WebhookFails(r) \/ WebhookAnswerLost(r)
  BY <1>1, <1>10 DEF WebhookFails, WebhookAnswerLost, Unacknowledged, PaymentsTypeOK
<1> QED
  BY <1>5, <1>6, <1>7, <1>8, <1>9, <1>10, DeliverySteps

\* Payment rows go on to name their own payment.
LEMMA LinksFitStep ==
  ASSUME PInv, [PaymentsNext]_allVars
  PROVE  LinksFit'
<1> DEFINE Records(r) == AfterConfirm(r) /\ Confirmed(r)
<1>1. PaymentsTypeOK /\ LinksFit /\ PaymentsAssumption
  BY PaymentsAssumption DEF PInv
<1> SUFFICES ASSUME NEW q \in Requests, razorpayPaymentId'[q] # Nil
             PROVE  (q \in BookedFor(razorpayPaymentId[q]))'
  BY DEF LinksFit
<1>2. \/ razorpayPaymentId'[q] = razorpayPaymentId[q]
      \/ \E r \in Requests : /\ Records(r) /\ q = reply[r].id
                             /\ razorpayPaymentId'[q] = delivery[r]
  <2>1. ASSUME NEW o \in Orders,
               \/ \E c \in OrderCalls : PreviewOrder(o, c)
               \/ CreateOrder(o) \/ Capture(o)
               \/ \E r \in Requests : Ignore(r, o) \/ Deliver(r, o)
        PROVE  UNCHANGED razorpayPaymentId
    BY <2>1 DEF PreviewOrder, CreateOrder, Capture, SetOrder, Ignore, Deliver, Receive
  <2>2. ASSUME NEW r \in Requests, Refund(r) \/ LogCompensation(r) \/ WebhookFails(r)
        PROVE  UNCHANGED razorpayPaymentId
    BY <2>2 DEF Refund, LogCompensation, WebhookFails
  <2>3. ASSUME NEW r \in Requests, RecordPayment(r) \/ WebhookAnswerLost(r)
        PROVE  \/ razorpayPaymentId'[q] = razorpayPaymentId[q]
               \/ Records(r) /\ q = reply[r].id /\ razorpayPaymentId'[q] = delivery[r]
    BY <1>1, <2>3 DEF RecordPayment, WebhookAnswerLost, PaymentsTypeOK
  <2>4. CASE BookingSide \/ UNCHANGED allVars
    BY <2>4 DEF BookingSide, allVars, payment
  <2> QED
    BY <2>1, <2>2, <2>3, <2>4 DEF PaymentsNext, PaymentSide, Webhook
<1>3. PICK o : o = razorpayPaymentId'[q]
  OBVIOUS
<1>4. o \in Orders /\ q \in BookedFor(o)
  <2>1. CASE o = razorpayPaymentId[q]
    BY <1>1, <1>3, <2>1 DEF LinksFit, PaymentsTypeOK
  <2>2. ASSUME NEW r \in Requests, Records(r), q = reply[r].id, o = delivery[r]
        PROVE  o \in Orders /\ q \in BookedFor(o)
    BY <2>2, ConfirmedBooks
  <2> QED
    BY <1>2, <1>3, <2>1, <2>2
<1>5. q \in BookedFor(o)'
  BY <1>4, BookedStays
<1> QED
  BY <1>3, <1>5 DEF BookedFor

\* Every step of the payment side keeps the types of its variables.
LEMMA PaymentsTypeStep ==
  ASSUME PInv, [PaymentsNext]_allVars
  PROVE  PaymentsTypeOK'
<1>1. /\ TypeOK /\ RequestsFit /\ PaymentsTypeOK /\ OrdersFit /\ DeliveriesFit /\ SettledFits
  BY DEF PInv, BInv, KInv, LInv, IInv
<1>2. ASSUME NEW o \in Orders, NEW state \in OrderStates, NEW notes \in Call,
             SetOrder(o, state, notes)
      PROVE  PaymentsTypeOK'
  BY <1>1, <1>2 DEF SetOrder, PaymentsTypeOK
<1>3. ASSUME NEW o \in Orders, NEW c \in OrderCalls, PreviewOrder(o, c)
      PROVE  PaymentsTypeOK'
  <2>1. c \in Call /\ (SetOrder(o, "allowed", c) \/ SetOrder(o, "denied", c))
    BY <1>3, PaymentsAssumption DEF PreviewOrder
  <2> QED
    BY <1>2, <2>1 DEF OrderStates
<1>4. ASSUME NEW o \in Orders, CreateOrder(o) PROVE PaymentsTypeOK'
  <2>1. PICK c : c = [order[o].notes EXCEPT !.key = OrderKey[o]]
    OBVIOUS
  <2>2. order[o].notes \in [op: {"confirm"}, user: Users, table: Tables, slot: Slots,
                            hold: Requests, key: Keys \cup {Nil},
                            mandate: Mandates \cup {Nil}]
    BY <1>1, <1>4, NotesTypes DEF CreateOrder
  <2>3. OrderKey[o] \in Keys
    BY PaymentsAssumption
  <2>4. c \in Call
    BY <2>1, <2>2, <2>3 DEF Call
  <2>5. SetOrder(o, "created", c)
    BY <1>4, <2>1 DEF CreateOrder
  <2> QED
    BY <1>2, <2>4, <2>5 DEF OrderStates
<1>5. ASSUME NEW o \in Orders, Capture(o) PROVE PaymentsTypeOK'
  <2>1. order[o].notes \in Call /\ SetOrder(o, "captured", order[o].notes)
    BY <1>1, <1>5 DEF Capture, OrdersFit
  <2> QED
    BY <1>2, <2>1 DEF OrderStates
<1>6. ASSUME NEW r \in Requests, NEW o \in Orders, Ignore(r, o) \/ Deliver(r, o)
      PROVE  PaymentsTypeOK'
  BY <1>1, <1>6 DEF Ignore, Deliver, Receive, PaymentsTypeOK, Stages
<1>7. ASSUME NEW r \in Requests, RecordPayment(r) PROVE PaymentsTypeOK'
  <2>1. delivery[r] \in Orders
    BY <1>7, ConfirmedBooks DEF RecordPayment
  <2> QED
    BY <1>1, <1>7, <2>1 DEF RecordPayment, PaymentsTypeOK, Stages
<1>8. ASSUME NEW r \in Requests, Refund(r) PROVE PaymentsTypeOK'
  <2>1. delivery[r] \in Orders
    BY <1>1, <1>8 DEF Refund, AfterConfirm, Resolved, DeliveriesFit
  <2> QED
    BY <1>1, <1>8, <2>1 DEF Refund, PaymentsTypeOK, Stages
<1>9. ASSUME NEW r \in Requests, LogCompensation(r) PROVE PaymentsTypeOK'
  <2>1. /\ delivery[r] \in Orders /\ order[delivery[r]].state = "captured"
        /\ IsHold(order[delivery[r]].notes.hold) /\ call[r] = ConfirmOf(delivery[r])
    BY <1>1, <1>9 DEF LogCompensation, Resolved, DeliveriesFit
  <2>2. call[r].mandate \in Mandates
    BY <1>1, <1>9, <2>1, ConfirmOfFacts DEF LogCompensation, SettledFits
  <2>3. FailureReason(r) \in Statuses
    BY <1>1 DEF FailureReason, TypeOK, Reply
  <2> QED
    BY <1>1, <1>9, <2>1, <2>2, <2>3 DEF LogCompensation, PaymentsTypeOK, Stages
<1>10. ASSUME NEW r \in Requests, WebhookFails(r) PROVE PaymentsTypeOK'
  BY <1>1, <1>10 DEF WebhookFails, Unacknowledged, PaymentsTypeOK, Stages
<1>12. ASSUME NEW r \in Requests, WebhookAnswerLost(r) PROVE PaymentsTypeOK'
  <2>1. delivery[r] \in Orders
    BY <1>1, <1>12 DEF WebhookAnswerLost, AfterConfirm, Resolved, DeliveriesFit
  <2> QED
    BY <1>1, <1>12, <2>1 DEF WebhookAnswerLost, Unacknowledged, PaymentsTypeOK, Stages
<1>11. CASE BookingSide \/ UNCHANGED allVars
  BY <1>1, <1>11 DEF BookingSide, allVars, payment, PaymentsTypeOK
<1> QED
  BY <1>3, <1>4, <1>5, <1>6, <1>7, <1>8, <1>9, <1>10, <1>11, <1>12
     DEF PaymentsNext, PaymentSide, Webhook

LEMMA PaymentsInitial == PaymentsInit => PInv
<1> SUFFICES ASSUME PaymentsInit PROVE PInv
  OBVIOUS
<1>1. BInv
  BY CoreInitial DEF PaymentsInit
<1>2. PaymentsTypeOK
  BY DEF PaymentsInit, PaymentsTypeOK, OrderStates, Stages
<1>3. OrdersFit /\ DeliveriesFit /\ SettledFits /\ RefundsFit /\ LinksFit
  BY DEF PaymentsInit, OrdersFit, DeliveriesFit, SettledFits, RefundsFit, LinksFit, Resolved
<1> QED
  BY <1>1, <1>2, <1>3 DEF PInv

LEMMA PaymentsInductive == PInv /\ [PaymentsNext]_allVars => PInv'
<1> SUFFICES ASSUME PInv, [PaymentsNext]_allVars PROVE PInv'
  OBVIOUS
<1>1. BInv /\ ([AnyNext]_vars \/ OnlyFaults)
  BY CoreSteps DEF PInv
<1>2. BInv'
  BY <1>1, CoreInductive, FaultsKeep
<1> QED
  BY <1>2, PaymentsTypeStep, OrdersFitStep, DeliveriesFitStep, SettledFitsStep,
     RefundsFitStep, LinksFitStep DEF PInv

LEMMA PaymentsInvariance == PaymentsSpec => []PInv
BY PaymentsInitial, PaymentsInductive, PTL DEF PaymentsSpec

-------------------------------------------------------------------------------
(* Theorems *)

\* Orders, deliveries, refunds and payment ids are what they are declared to be, for
\* any constants.
THEOREM PaymentsTypeCorrect == PaymentsSpec => []PaymentsTypeOK
<1>1. PInv => PaymentsTypeOK
  BY DEF PInv
<1> QED
  BY <1>1, PaymentsInvariance, PTL

\* What holds of confirms holds of the webhook's too: beside paid orders, no seat is booked
\* twice, no hold is booked twice, and final answers and stored successes stand.
THEOREM CoreStands ==
  PaymentsSpec => [](NoDoubleBooking /\ HoldBooksOnce /\ StoredSuccessIsReal /\ AnswersAreKept)
<1>1. ASSUME PInv
      PROVE  NoDoubleBooking /\ HoldBooksOnce /\ StoredSuccessIsReal /\ AnswersAreKept
  BY <1>1, HoldsBookOnce, KeptAreKept DEF PInv, BInv, KInv, LInv, IInv
<1>2. PInv => NoDoubleBooking /\ HoldBooksOnce /\ StoredSuccessIsReal /\ AnswersAreKept
  BY <1>1
<1> QED
  BY <1>2, PaymentsInvariance, PTL

\* Whoever paid, and whose event was acknowledged, has the booking or the money, for any
\* number of orders, deliveries and confirms beside them, and any failures.
THEOREM AcknowledgedIsSettled == PaymentsSpec => []AcknowledgedCaptureIsSettled
<1>1. PInv => AcknowledgedCaptureIsSettled
  BY DEF PInv, SettledFits, AcknowledgedCaptureIsSettled
<1> QED
  BY <1>1, PaymentsInvariance, PTL

\* A payment id is recorded on a row of its own hold, and on one row only.
THEOREM PaymentLinks == PaymentsSpec => []PaymentLinkIsItsOwn
<1>1. ASSUME PInv PROVE PaymentLinkIsItsOwn
  <2>1. LinksFit /\ HoldBooksOnce
    BY <1>1, HoldsBookOnce DEF PInv, BInv, KInv, LInv
  <2>2. ASSUME NEW q1 \in Requests, NEW q2 \in Requests,
               razorpayPaymentId[q1] = razorpayPaymentId[q2], razorpayPaymentId[q1] # Nil
        PROVE  q1 = q2
    <3> DEFINE o == razorpayPaymentId[q1]
    <3>1. q1 \in BookedFor(o) /\ q2 \in BookedFor(o)
      BY <2>1, <2>2 DEF LinksFit
    <3>2. /\ reservations[q1] # Nil /\ call[q1].op = "confirm"
          /\ reservations[q2] # Nil /\ call[q2].op = "confirm"
          /\ call[q1].hold = call[q2].hold
      BY <3>1 DEF BookedFor
    <3> QED
      BY <2>1, <3>2 DEF HoldBooksOnce
  <2> QED
    BY <2>1, <2>2 DEF LinksFit, PaymentLinkIsItsOwn
<1>2. PInv => PaymentLinkIsItsOwn
  BY <1>1
<1> QED
  BY <1>2, PaymentsInvariance, PTL

\* What the key of a confirm that booked says, unless the confirm failed: that it is
\* executing, or its own success.
LEMMA BookedUnderKey ==
  ASSUME BInv, NEW q \in Requests, reservations[q] # Nil, pc[q] # "idle", Keyed(q),
         pc[q] # "crashed", reply[q].status # "error"
  PROVE  LET row == keys[KeyOf(call[q])] IN
         /\ row # Nil /\ row.requestHash = HashOf(call[q])
         /\ row.outcome # Nil => row.outcome.status = "created"
<1>1. /\ SuccessesFit /\ KeptFit /\ AnswersFit /\ RowsFit /\ KeysFit
      /\ TypeOK /\ RequestsFit
  BY DEF BInv, KInv, LInv, IInv
<1> DEFINE k == KeyOf(call[q])
<1>2. k \in Users \X Keys
  BY <1>1, KeyOfType
<1>3. call[q].op = "confirm" /\ pc[q] \notin BeforeWrite
  BY <1>1 DEF RequestsFit, StepFitsCall, Keyed
<1>4. reply[q].status = "created" /\ pc[q] # "lookup" /\ pc[q] # "dropKey"
  BY <1>1, <1>3 DEF AnswersFit, AnswerFits
<1>5. pc[q] \in {"publish", "storeOutcome", "done"}
  BY <1>1, <1>3, <1>4 DEF TypeOK, Steps, Ended, BeforeWrite, BookSteps, RequestsFit,
     StepFitsCall, HoldSteps, CancelSteps
<1>6. CASE pc[q] \in {"publish", "storeOutcome"}
  <2>1. keys[k] = OwnRow(q) /\ keys[k] # Nil
    BY <1>1, <1>6 DEF RowsFit, KeysFit, Executing
  <2> QED
    BY <2>1 DEF OwnRow
<1>7. CASE pc[q] = "done"
  <2>0. reply[q].id = q
    BY <1>1, <1>4 DEF SuccessesFit
  <2>1. keys[k] # Nil /\ keys[k].outcome = Stored(reply[q]) /\ reply[q] \in Reply
    BY <1>1, <1>4, <1>7, <2>0 DEF KeptFit, TypeOK
  <2>2. Stored(reply[q]) = reply[q] /\ reply[q] # Nil
    BY <1>4, <2>1, NilAssumption DEF Stored
  <2>3. Fulfils(reply[q].id, k, keys[k].requestHash)
    BY <1>1, <1>2, <1>4, <2>1, <2>2 DEF SuccessesFit
  <2> QED
    BY <1>4, <2>0, <2>1, <2>2, <2>3 DEF Fulfils
<1> QED
  BY <1>5, <1>6, <1>7

\* One payment is booked and refunded only where a request under its key failed, or was
\* told that another was in progress: a final answer never leads to both.
THEOREM BothByOverlap == PaymentsSpec => []BothOnlyByOverlap
<1>1. ASSUME PInv PROVE BothOnlyByOverlap
  <2>1. /\ BInv /\ PaymentsTypeOK /\ OrdersFit /\ DeliveriesFit /\ RefundsFit
        /\ MismatchesFit /\ KeptFit /\ TypeOK /\ RequestsFit
    BY <1>1 DEF PInv, BInv, KInv, LInv, IInv
  <2> SUFFICES ASSUME NEW o \in refunded, NEW q \in Requests,
                      reservations[q] # Nil, UnderItsKey(q, o),
                      HashOf(call[q]) = HashOf(ConfirmOf(o)),
                      \A p \in Requests :
                        UnderItsKey(p, o) =>
                          pc[p] # "crashed" /\ reply[p].status \notin {"error", "inProgress"}
               PROVE  FALSE
    BY DEF BothOnlyByOverlap, At
  <2> DEFINE k == KeyOf(ConfirmOf(o))
             row == keys[k]
  <2>2. PICK a \in Requests :
          Resolved(a) /\ delivery[a] = o /\ pc[a] = "done" /\ reply[a].status # "created"
    BY <2>1 DEF RefundsFit
  <2>3. call[a] = ConfirmOf(o) /\ Keyed(a)
    <3>1. /\ o \in Orders /\ order[o].state = "captured"
          /\ IsHold(order[o].notes.hold) /\ call[a] = ConfirmOf(o)
      BY <2>1, <2>2 DEF DeliveriesFit
    <3> QED
      BY <2>1, <3>1, ConfirmOfFacts DEF Keyed
  <2>4. UnderItsKey(a, o) /\ reply[a].status \notin {"created", "error", "inProgress"}
    BY <2>2, <2>3 DEF UnderItsKey
  <2>5. /\ row # Nil /\ row.requestHash = HashOf(call[a])
        /\ row.outcome # Nil => row.outcome.status = "created"
    <3>1. /\ pc[q] # "idle" /\ Keyed(q) /\ KeyOf(call[q]) = k
          /\ pc[q] # "crashed" /\ reply[q].status # "error"
      BY DEF UnderItsKey
    <3> QED
      BY <2>1, <2>3, <3>1, BookedUnderKey
  <2>6. CASE reply[a].status = "keyMismatch"
    <3>1. \E p \in Requests : Failed(p, k)
      BY <2>1, <2>2, <2>3, <2>5, <2>6 DEF MismatchesFit
    <3> QED
      BY <3>1 DEF Failed, UnderItsKey
  <2>7. CASE reply[a].status # "keyMismatch"
    <3>1. row.outcome = Stored(reply[a]) /\ reply[a] \in Reply
      BY <2>1, <2>2, <2>3, <2>4, <2>7 DEF KeptFit, TypeOK
    <3> QED
      BY <2>4, <2>5, <3>1, StoredFacts
  <2> QED
    BY <2>6, <2>7
<1>2. PInv => BothOnlyByOverlap
  BY <1>1
<1> QED
  BY <1>2, PaymentsInvariance, PTL
================================================================================
