---------------------------- MODULE ExclusionProofs ----------------------------
(***************************************************************************)
(* What keeps requests out of each other's way, for any constants: the     *)
(* idempotency key, one executing request per key; the slot lock, one seat *)
(* kept free behind it; and the hold, which books once.                    *)
(***************************************************************************)
EXTENDS ReservationsProofs

-------------------------------------------------------------------------------
(* Idempotency keys *)

\* An executing request's row is there, and is its own.
KeysFit ==
  /\ \A r \in Requests : Executing(r) => keys[KeyOf(call[r])] # Nil
  /\ KeyExecutesOnce

\* The key of a keyed request is one of the table's.
LEMMA KeyOfType ==
  ASSUME TypeOK, RequestsFit, NEW r \in Requests, Keyed(r), pc[r] # "idle"
  PROVE  KeyOf(call[r]) \in Users \X Keys
<1>1. call[r] \in Call /\ call[r].op = "confirm" /\ call[r].key # Nil
  BY DEF RequestsFit, StepFitsCall, Keyed
<1>2. call[r].user \in Users /\ call[r].key \in Keys
  BY <1>1, CallTypes
<1> QED
  BY <1>2 DEF KeyOf

\* A rejected request executes under its key only if it did before.
LEMMA RejectExecutes ==
  ASSUME TypeOK, RequestsFit, NEW r \in Requests, NEW status, Reject(r, status),
         pc[r] \in BookSteps \cup HoldSteps \cup CancelSteps
                   \cup {"confirm", "consume", "confirmTx"},
         call' = call
  PROVE  \A q \in Requests : Executing(q)' => Executing(q)
<1>1. CASE Keyed(r)
  <2>1. Executing(r)
    BY <1>1 DEF RequestsFit, StepFitsCall, Keyed, Executing, BookSteps, HoldSteps, CancelSteps
  <2> QED
    BY <2>1 DEF Executing, Reject, Goto, TypeOK, Keyed
<1>2. CASE ~ Keyed(r)
  BY <1>2 DEF Executing, Reject, Goto, TypeOK, Keyed
<1> QED
  BY <1>1, <1>2

\* A move that does not enter the executing steps from outside.
LEMMA MoveExecutes ==
  ASSUME TypeOK, NEW r \in Requests, NEW step, Goto(r, step), call' = call,
         Executing(r) \/ ~ Keyed(r)
           \/ step \notin {"confirm", "consume", "confirmTx", "publish", "storeOutcome",
                           "dropKey"}
  PROVE  \A q \in Requests : Executing(q)' => Executing(q)
BY DEF Executing, Goto, TypeOK, Keyed

\* A call that is no confirm has no key.
LEMMA Unkeyed ==
  ASSUME RequestsFit, NEW r \in Requests, pc[r] \in BookSteps \cup HoldSteps \cup CancelSteps
  PROVE  ~ Keyed(r)
BY DEF RequestsFit, StepFitsCall, Keyed, BookSteps, HoldSteps, CancelSteps

\* A check lets nobody start executing.
LEMMA CheckExecutes ==
  ASSUME TypeOK, RequestsFit, NEW r \in Requests, NEW step, NEW refusal, NEW next,
         step \in BookSteps \cup HoldSteps \cup CancelSteps \cup {"confirm"},
         Check(r, step, refusal, next)
  PROVE  \A q \in Requests : Executing(q)' => Executing(q)
<1>1. call' = call /\ pc[r] = step
  BY DEF Check, At, locals
<1>2. CASE Reject(r, refusal)
  BY <1>1, <1>2, RejectExecutes
<1>3. CASE Goto(r, next)
  <2>1. Executing(r) \/ ~ Keyed(r)
    BY <1>1, Unkeyed DEF Executing
  <2> QED
    BY <1>1, <1>3, <2>1, MoveExecutes
<1> QED
  BY <1>2, <1>3 DEF Check

\* Every step but a claim leaves the requests executing under keys among those that
\* were.
LEMMA ExecutingStep ==
  ASSUME TypeOK, RequestsFit, [AnyNext]_vars
  PROVE  \/ \A q \in Requests : Executing(q)' => Executing(q)
         \/ \E r \in Requests : ClaimKey(r)
<1> DEFINE Among == \A q \in Requests : Executing(q)' => Executing(q)
<1>1. ASSUME NEW r \in Requests, NEW c \in Call, Arrive(r, c) PROVE Among
  <2>1. FirstStep(c) \notin {"confirm", "consume", "confirmTx", "publish", "storeOutcome",
                             "dropKey"}
        \/ (c.op = "confirm" /\ c.key = Nil)
    BY CallTypes DEF FirstStep
  <2>2. /\ pc'[r] = FirstStep(c) /\ call'[r] = c
        /\ \A q \in Requests \ {r} : pc'[q] = pc[q] /\ call'[q] = call[q]
    BY <1>1 DEF Arrive, Goto, TypeOK
  <2> QED
    BY <2>1, <2>2 DEF Executing, Keyed
<1>2. ASSUME NEW r \in Requests, BookStep(r) PROVE Among
  <2>1. CASE BookChecks(r) \/ ReadExisting(r)
    BY <2>1, CheckExecutes DEF BookChecks, ReadExisting, BookSteps
  <2>2. CASE ~ (BookChecks(r) \/ ReadExisting(r))
    <3>1. pc[r] \in BookSteps /\ call' = call
      BY <1>2, <2>2 DEF BookStep, LockSlot, ReadVersion, SwapWon, SwapLost, BookSteps, At,
               BookInTransaction, LockedTransaction, DirectWrite, locals
    <3>2. ~ Keyed(r)
      BY <3>1, Unkeyed
    <3>3. \E step \in {"done", "lockedTx", "readVersion", "readExisting", "bookTx"} :
            Goto(r, step)
      BY <1>2, <2>2, <3>2
         DEF BookStep, LockSlot, ReadVersion, SwapWon, SwapLost,
             BookInTransaction, LockedTransaction, DirectWrite, Reject
    <3> QED
      BY <3>1, <3>2, <3>3, MoveExecutes
  <2> QED
    BY <2>1, <2>2
<1>3. ASSUME NEW r \in Requests, HoldStep(r) PROVE Among
  <2>1. CASE HoldChecks(r) \/ HoldWindow(r)
    BY <2>1, CheckExecutes DEF HoldChecks, HoldWindow, HoldSteps
  <2>2. CASE AcquireHold(r) \/ WriteMeta(r) \/ ReuseTooLate(r)
    <3>1. pc[r] \in HoldSteps /\ call' = call
      BY <2>2 DEF AcquireHold, WriteMeta, ReuseTooLate, HoldSteps, At, locals
    <3>2. ~ Keyed(r)
      BY <3>1, Unkeyed
    <3>3. \E step \in {"done", "writeMeta", "publish"} : Goto(r, step)
      BY <2>2, <3>2 DEF AcquireHold, WriteMeta, ReuseTooLate, Reject
    <3> QED
      BY <3>1, <3>2, <3>3, MoveExecutes
  <2> QED
    BY <1>3, <2>1, <2>2 DEF HoldStep
<1>4. ASSUME NEW r \in Requests, ConfirmStep(r), ~ ClaimKey(r) PROVE Among
  <2>1. CASE LookupKey(r) \/ StoreOutcome(r) \/ DropKey(r)
    <3>1. Goto(r, "done") /\ call' = call
      BY <2>1 DEF LookupKey, StoreOutcome, DropKey, locals
    <3> QED
      BY <3>1, MoveExecutes
  <2>2. CASE ConfirmChecks(r)
    BY <2>2, CheckExecutes DEF ConfirmChecks
  <2>3. CASE ConsumeHold(r) \/ ConfirmWrite(r) \/ ConfirmRollback(r)
    <3>1. pc[r] \in {"consume", "confirmTx"} /\ call' = call
      BY <2>3 DEF ConsumeHold, ConfirmWrite, ConfirmRollback, At, locals
    <3>2. Executing(r) \/ ~ Keyed(r)
      BY <3>1 DEF Executing
    <3>3. \E step \in {"done", "storeOutcome", "confirmTx", "publish"} : Goto(r, step)
      BY <2>3 DEF ConsumeHold, ConfirmWrite, ConfirmRollback, Reject
    <3> QED
      BY <3>1, <3>2, <3>3, MoveExecutes
  <2> QED
    BY <1>4, <2>1, <2>2, <2>3 DEF ConfirmStep
<1>5. ASSUME NEW r \in Requests, CancelStep(r) PROVE Among
  <2>1. CASE CancelChecks(r)
    BY <2>1, CheckExecutes DEF CancelChecks, CancelSteps
  <2>2. CASE CancelTransaction(r)
    <3>1. pc[r] \in CancelSteps /\ call' = call
      BY <2>2 DEF CancelTransaction, CancelSteps, At, locals
    <3>2. ~ Keyed(r)
      BY <3>1, Unkeyed
    <3>3. \E step \in {"done", "publish"} : Goto(r, step)
      BY <2>2, <3>2 DEF CancelTransaction, Reject
    <3> QED
      BY <3>1, <3>2, <3>3, MoveExecutes
  <2> QED
    BY <1>5, <2>1, <2>2 DEF CancelStep
<1>6. ASSUME NEW r \in Requests, Publish(r) \/ Fault(r) \/ Crash(r) PROVE Among
  <2>1. CASE Publish(r)
    <3>1. /\ call' = call /\ pc[r] = "publish"
          /\ \E step \in {"done", "storeOutcome"} : Goto(r, step)
      BY <2>1 DEF Publish, At, locals
    <3>2. Executing(r) \/ ~ Keyed(r)
      BY <3>1 DEF Executing
    <3> QED
      BY <3>1, <3>2, MoveExecutes
  <2>2. CASE Fault(r)
    <3>1. call' = call /\ (Goto(r, "done") \/ (InTry(r) /\ Goto(r, "dropKey")))
      BY <2>2 DEF Fault, Breaks, locals
    <3>2. InTry(r) => Executing(r)
      BY DEF InTry, Executing
    <3> QED
      BY <3>1, <3>2, MoveExecutes
  <2>3. CASE Crash(r)
    <3>1. call' = call /\ Goto(r, "crashed")
      BY <2>3 DEF Crash, Breaks, locals
    <3> QED
      BY <3>1, MoveExecutes
  <2> QED
    BY <1>6, <2>1, <2>2, <2>3
<1>7. CASE UNCHANGED <<pc, call>>
  BY <1>7 DEF Executing, Keyed
<1>8. CASE Environment
  BY <1>7, <1>8 DEF Environment, ExpireHold, ExpireMeta, Tick, locals
<1>9. CASE UNCHANGED vars
  BY <1>7, <1>9 DEF vars, locals
<1>10. ASSUME NEW r \in Requests, AnswerLost(r) PROVE Among
  <2>1. call' = call
    BY <1>10, LostShape DEF locals
  <2>2. CASE Goto(r, "done")
    BY <2>1, <2>2, MoveExecutes
  <2>3. CASE Keyed(r) /\ Goto(r, "dropKey")
    <3>1. pc[r] \in {"confirmTx", "storeOutcome"}
      <4>1. ~ Goto(r, "done")
        BY <2>3 DEF Goto, TypeOK
      <4> QED
        BY <1>10, <4>1 DEF AnswerLost, LostClaim, LostCommit, LostDenial, LostPublish,
                           LostStore, At
    <3>2. Executing(r)
      BY <2>3, <3>1 DEF Executing
    <3> QED
      BY <2>1, <2>3, <3>2, MoveExecutes
  <2> QED
    BY <1>10, <2>2, <2>3, LostShape
<1> QED
  BY <1>1, <1>2, <1>3, <1>4, <1>5, <1>6, <1>8, <1>9, <1>10 DEF AnyNext, Handle, Rest

\* Only a claim, a stored outcome and a drop touch the keys, heard of or not.
LEMMA KeysStep ==
  ASSUME [AnyNext]_vars
  PROVE  \/ UNCHANGED keys
         \/ \E r \in Requests : ClaimKey(r) \/ StoreOutcome(r) \/ DropKey(r)
                               \/ LostClaim(r) \/ LostStore(r)
<1>1. ASSUME NEW r \in Requests, NEW c \in Call, Arrive(r, c) PROVE UNCHANGED keys
  BY <1>1 DEF Arrive, shared
<1>2. ASSUME NEW r \in Requests, BookStep(r) PROVE UNCHANGED keys
  BY <1>2 DEF BookStep, BookChecks, LockSlot, ReadVersion, ReadExisting, SwapWon, SwapLost,
              BookInTransaction, LockedTransaction, DirectWrite, Check, shared
<1>3. ASSUME NEW r \in Requests, HoldStep(r) PROVE UNCHANGED keys
  BY <1>3 DEF HoldStep, HoldChecks, HoldWindow, AcquireHold, WriteMeta, ReuseTooLate,
              Check, shared
<1>4. ASSUME NEW r \in Requests, ConfirmStep(r)
      PROVE  UNCHANGED keys \/ ClaimKey(r) \/ StoreOutcome(r) \/ DropKey(r)
  BY <1>4 DEF ConfirmStep, LookupKey, ConfirmChecks, ConsumeHold, ConfirmWrite,
              ConfirmRollback, Check, shared
<1>5. ASSUME NEW r \in Requests, CancelStep(r) PROVE UNCHANGED keys
  BY <1>5 DEF CancelStep, CancelChecks, CancelTransaction, Check, shared
<1>6. ASSUME NEW r \in Requests, Publish(r) \/ Fault(r) \/ Crash(r) PROVE UNCHANGED keys
  BY <1>6 DEF Publish, Fault, Crash, Breaks
<1>7. CASE Environment
  BY <1>7 DEF Environment, ExpireHold, ExpireMeta, Tick, shared
<1>8. CASE UNCHANGED vars
  BY <1>8 DEF vars, shared
<1>9. ASSUME NEW r \in Requests, AnswerLost(r)
      PROVE  UNCHANGED keys \/ LostClaim(r) \/ LostStore(r)
  BY <1>9 DEF AnswerLost, LostCommit, LostDenial, LostPublish
<1> QED
  BY <1>1, <1>2, <1>3, <1>4, <1>5, <1>6, <1>7, <1>8, <1>9 DEF AnyNext, Handle, Rest

\* The key of a request that executes before and after a step is the same.
LEMMA ExecutingKey ==
  ASSUME TypeOK, [AnyNext]_vars, NEW q \in Requests, Executing(q)
  PROVE  call'[q] = call[q]
BY CallStable DEF Executing

\* The unique key admits one executing request at a time.
LEMMA KeysFitStep ==
  ASSUME TypeOK, RequestsFit, KeysFit, [AnyNext]_vars, TypeOK'
  PROVE  KeysFit'
<1> DEFINE Among == \A q \in Requests : Executing(q)' => Executing(q)
<1>1. ASSUME NEW r \in Requests, ClaimKey(r) PROVE KeysFit'
  <2> DEFINE k == KeyOf(call[r])
  <2>1. pc[r] = "claim" /\ call' = call
    BY <1>1 DEF ClaimKey, At, locals
  <2>2. CASE keys[k] # Nil
    <3>1. Goto(r, "lookup") /\ keys' = keys
      BY <1>1, <2>2 DEF ClaimKey
    <3>2. Among
      BY <2>1, <3>1, MoveExecutes
    <3> QED
      BY <2>1, <3>1, <3>2 DEF KeysFit, KeyExecutesOnce
  <2>3. CASE keys[k] = Nil
    <3>1. /\ Goto(r, "confirm")
          /\ keys' = [keys EXCEPT ![k] = [requestHash |-> HashOf(call[r]), outcome |-> Nil]]
      BY <1>1, <2>3 DEF ClaimKey
    <3>2. \A q \in Requests \ {r} : Executing(q)' => Executing(q)
      BY <2>1, <3>1 DEF Executing, Goto, TypeOK, Keyed
    <3>3. k \in Users \X Keys
      <4>1. Keyed(r)
        BY <2>1 DEF RequestsFit, StepFitsCall, KeySteps, ConfirmSteps, Keyed
      <4> QED
        BY <2>1, <4>1, KeyOfType
    <3>4. keys'[k] # Nil
      <4> DEFINE row == [requestHash |-> HashOf(call[r]), outcome |-> Nil]
      <4>1. HashOf(call[r]) \in Tables \X Slots \X Requests
        <5>1. call[r] \in Call /\ call[r].op = "confirm"
          BY <2>1 DEF RequestsFit, StepFitsCall, KeySteps, ConfirmSteps
        <5> QED
          BY <5>1, CallTypes DEF HashOf
      <4>2. row \in KeyRow
        BY <4>1 DEF KeyRow
      <4>3. keys'[k] = row
        BY <3>1, <3>3 DEF TypeOK
      <4> QED
        BY <4>2, <4>3, NilAssumption
    <3>5. \A l \in Users \X Keys : l # k => keys'[l] = keys[l]
      BY <3>1 DEF TypeOK
    <3>6. ASSUME NEW q \in Requests, q # r, Executing(q)'
          PROVE  KeyOf(call[q]) # k /\ keys'[KeyOf(call[q])] # Nil
      <4>1. Executing(q)
        BY <3>2, <3>6
      <4>2. keys[KeyOf(call[q])] # Nil
        BY <4>1 DEF KeysFit
      <4>3. KeyOf(call[q]) \in Users \X Keys
        BY <4>1, KeyOfType DEF Executing
      <4> QED
        BY <2>3, <3>5, <4>2, <4>3
    <3>7. \A q \in Requests : Executing(q)' => keys'[KeyOf(call'[q])] # Nil
      BY <2>1, <3>4, <3>6
    <3>8. KeyExecutesOnce'
      <4> SUFFICES ASSUME NEW r1 \in Requests, NEW r2 \in Requests,
                          Executing(r1)', Executing(r2)',
                          KeyOf(call[r1]) = KeyOf(call[r2])
                   PROVE  r1 = r2
        BY <2>1 DEF KeyExecutesOnce
      <4>1. CASE r1 = r \/ r2 = r
        BY <3>6, <4>1
      <4>2. CASE r1 # r /\ r2 # r
        BY <3>2, <4>2 DEF KeysFit, KeyExecutesOnce
      <4> QED
        BY <4>1, <4>2
    <3> QED
      BY <3>7, <3>8 DEF KeysFit
  <2> QED
    BY <2>2, <2>3
<1>2. ASSUME Among PROVE KeyExecutesOnce'
  BY <1>2, ExecutingKey DEF KeysFit, KeyExecutesOnce
<1>3. ASSUME Among, UNCHANGED keys PROVE KeysFit'
  BY <1>2, <1>3, ExecutingKey DEF KeysFit
<1>4. ASSUME NEW r \in Requests, Among, StoreOutcome(r) \/ LostStore(r) PROVE KeysFit'
  <2> DEFINE k == KeyOf(call[r])
  <2>0. keys' = [keys EXCEPT ![k] =
                   IF @ = Nil THEN Nil ELSE [@ EXCEPT !.outcome = Stored(reply[r])]]
    BY <1>4 DEF StoreOutcome, LostStore
  <2>1. \A l \in Users \X Keys : l # k => keys'[l] = keys[l]
    BY <2>0 DEF TypeOK
  <2>2. k \in Users \X Keys => (keys[k] # Nil => keys'[k] # Nil)
    <3> SUFFICES ASSUME k \in Users \X Keys, keys[k] # Nil PROVE keys'[k] # Nil
      OBVIOUS
    <3>1. keys'[k] = [keys[k] EXCEPT !.outcome = Stored(reply[r])]
      BY <2>0 DEF TypeOK
    <3>2. keys[k] \in KeyRow
      BY DEF TypeOK
    <3>3. Stored(reply[r]) \in Reply
      <4>1. reply[r] \in Reply
        BY DEF TypeOK
      <4> QED
        BY <4>1 DEF Stored, Reply, Statuses
    <3>4. keys'[k] \in KeyRow
      BY <3>1, <3>2, <3>3 DEF KeyRow
    <3> QED
      BY <3>4, NilAssumption
  <2>3. ASSUME NEW q \in Requests, Executing(q)' PROVE keys'[KeyOf(call'[q])] # Nil
    <3>1. Executing(q) /\ call'[q] = call[q]
      BY <1>4, <2>3, ExecutingKey
    <3>2. KeyOf(call[q]) \in Users \X Keys /\ keys[KeyOf(call[q])] # Nil
      BY <3>1, KeyOfType DEF Executing, KeysFit
    <3> QED
      BY <2>1, <2>2, <3>1, <3>2
  <2> QED
    BY <1>2, <1>4, <2>3 DEF KeysFit
<1>5. ASSUME NEW r \in Requests, Among, DropKey(r) PROVE KeysFit'
  <2> DEFINE k == KeyOf(call[r])
  <2>1. \A l \in Users \X Keys : l # k => keys'[l] = keys[l]
    BY <1>5 DEF DropKey, TypeOK
  <2>2. Executing(r) /\ ~ Executing(r)'
    <3>1. pc[r] = "dropKey" /\ pc'[r] = "done"
      BY <1>5 DEF DropKey, At, Goto, TypeOK
    <3>2. Keyed(r)
      BY <3>1 DEF RequestsFit, StepFitsCall, KeySteps, ConfirmSteps, Keyed
    <3> QED
      BY <3>1, <3>2 DEF Executing
  <2>3. ASSUME NEW q \in Requests, Executing(q)' PROVE keys'[KeyOf(call'[q])] # Nil
    <3>1. Executing(q) /\ call'[q] = call[q] /\ q # r
      BY <1>5, <2>2, <2>3, ExecutingKey
    <3>2. KeyOf(call[q]) \in Users \X Keys /\ keys[KeyOf(call[q])] # Nil
      BY <3>1, KeyOfType DEF Executing, KeysFit
    <3>3. KeyOf(call[q]) # k
      BY <2>2, <3>1 DEF KeysFit, KeyExecutesOnce
    <3> QED
      BY <2>1, <3>1, <3>2, <3>3
  <2> QED
    BY <1>2, <1>5, <2>3 DEF KeysFit
<1>6. ASSUME NEW r \in Requests, Among, LostClaim(r) PROVE KeysFit'
  <2> DEFINE k == KeyOf(call[r])
  <2>1. keys[k] = Nil /\ \A l \in Users \X Keys : l # k => keys'[l] = keys[l]
    BY <1>6 DEF LostClaim, TypeOK
  <2>2. ASSUME NEW q \in Requests, Executing(q)' PROVE keys'[KeyOf(call'[q])] # Nil
    <3>1. Executing(q) /\ call'[q] = call[q]
      BY <1>6, <2>2, ExecutingKey
    <3>2. KeyOf(call[q]) \in Users \X Keys /\ keys[KeyOf(call[q])] # Nil
      BY <3>1, KeyOfType DEF Executing, KeysFit
    <3> QED
      BY <2>1, <3>1, <3>2
  <2> QED
    BY <1>2, <1>6, <2>2 DEF KeysFit
<1> QED
  BY <1>1, <1>3, <1>4, <1>5, <1>6, ExecutingStep, KeysStep

\* One request at a time executes under an idempotency key, however often the key
\* is sent, whatever fails, and whoever dies with it.
THEOREM OneExecutionPerKey == Spec => []KeyExecutesOnce
<1>1. Init => KeysFit
  BY DEF Init, KeysFit, KeyExecutesOnce, Executing
<1>2. IInv /\ KeysFit /\ [AnyNext]_vars /\ IInv' => KeysFit'
  BY KeysFitStep DEF IInv
<1>3. KeysFit => KeyExecutesOnce
  BY DEF KeysFit
<1> QED
  BY <1>1, <1>2, <1>3, Invariance, SpecIsAny, PTL

-------------------------------------------------------------------------------
(* The slot lock *)

\* A transaction past its SELECT ... FOR UPDATE has the row.
LocksFit ==
  /\ \A r \in Requests : pc[r] = "lockedTx" => slotLock[call[r].slot] = r
  /\ LockedSeatStaysFree

\* The slot a pessimistic booking has locked is a slot.
LEMMA LockedCall ==
  ASSUME RequestsFit, NEW q \in Requests, pc[q] \in {"lockSlot", "lockedTx"}
  PROVE  call[q].slot \in Slots
<1>1. call[q] \in Call /\ call[q].op = "book"
  BY DEF RequestsFit, StepFitsCall, BookSteps
<1> QED
  BY <1>1, CallTypes

\* A step that takes r elsewhere and frees at most the locks of r.
LEMMA ElsewhereLocks ==
  ASSUME TypeOK, RequestsFit, [AnyNext]_vars, NEW r \in Requests,
         NEW step, step # "lockedTx", Goto(r, step),
         slotLock' = slotLock \/ ReleaseLocks(r),
         NEW q \in Requests, pc'[q] = "lockedTx"
  PROVE  /\ pc[q] = "lockedTx" /\ call'[q] = call[q]
         /\ slotLock[call[q].slot] = q => slotLock'[call[q].slot] = q
<1>1. q # r /\ pc[q] = "lockedTx"
  BY DEF Goto, TypeOK
<1>2. call[q].slot \in Slots
  BY <1>1, LockedCall
<1>3. call'[q] = call[q]
  BY <1>1, CallStable
<1> QED
  BY <1>1, <1>2, <1>3 DEF ReleaseLocks

\* Who is in a locked transaction after a step was before it, with its lock, or has
\* just found the seat free and locked the slot.
LEMMA LockStep ==
  ASSUME TypeOK, RequestsFit, [AnyNext]_vars, NEW q \in Requests, pc'[q] = "lockedTx"
  PROVE  \/ /\ pc[q] = "lockedTx" /\ call'[q] = call[q]
            /\ slotLock[call[q].slot] = q => slotLock'[call[q].slot] = q
         \/ /\ call'[q] = call[q] /\ slotLock'[call[q].slot] = q
            /\ ~ Taken(call[q].table, call[q].slot) /\ UNCHANGED ledger
<1> DEFINE Kept == /\ pc[q] = "lockedTx" /\ call'[q] = call[q]
                   /\ slotLock[call[q].slot] = q => slotLock'[call[q].slot] = q
           Taking == /\ call'[q] = call[q] /\ slotLock'[call[q].slot] = q
                     /\ ~ Taken(call[q].table, call[q].slot) /\ UNCHANGED ledger
<1>1. ASSUME NEW r \in Requests, NEW step, step # "lockedTx", Goto(r, step),
             slotLock' = slotLock \/ ReleaseLocks(r)
      PROVE  Kept
  BY <1>1, ElsewhereLocks
<1>2. ASSUME NEW r \in Requests, NEW c \in Call, Arrive(r, c) PROVE Kept
  <2>1. FirstStep(c) # "lockedTx"
    BY CallTypes DEF FirstStep
  <2>2. Goto(r, FirstStep(c)) /\ slotLock' = slotLock
    BY <1>2 DEF Arrive, shared, slotRows
  <2> QED
    BY <1>1, <2>1, <2>2
<1>3. ASSUME NEW r \in Requests, NEW step, NEW refusal, NEW next, next # "lockedTx",
             Check(r, step, refusal, next)
      PROVE  Kept
  <2>1. slotLock' = slotLock
    BY <1>3 DEF Check, shared, slotRows
  <2>2. \E to : to # "lockedTx" /\ Goto(r, to)
    BY <1>3 DEF Check, Reject
  <2> QED
    BY <1>1, <2>1, <2>2
<1>4. ASSUME NEW r \in Requests, BookStep(r) PROVE Kept \/ Taking
  <2>1. CASE BookChecks(r)
    <3>1. StrategyStep[call[r].strategy] # "lockedTx"
      <4>1. call[r] \in Call /\ call[r].op = "book"
        BY <2>1 DEF BookChecks, Check, At, RequestsFit, StepFitsCall, BookSteps
      <4>2. call[r].strategy \in Strategies
        BY <4>1, CallTypes
      <4> QED
        BY <4>2 DEF StrategyStep, Strategies
    <3> QED
      BY <1>3, <2>1, <3>1 DEF BookChecks
  <2>2. CASE ReadExisting(r)
    BY <1>3, <2>2 DEF ReadExisting
  <2>3. CASE BookInTransaction(r) \/ LockedTransaction(r)
    <3>1. slotLock' = slotLock \/ ReleaseLocks(r)
      BY <2>3 DEF BookInTransaction, LockedTransaction
    <3>2. \E to : to # "lockedTx" /\ Goto(r, to)
      BY <2>3 DEF BookInTransaction, LockedTransaction, DirectWrite, Reject
    <3> QED
      BY <1>1, <3>1, <3>2
  <2>4. CASE ReadVersion(r) \/ SwapWon(r) \/ SwapLost(r)
    <3>1. slotLock' = slotLock
      BY <2>4 DEF ReadVersion, SwapWon, SwapLost, shared, slotRows
    <3>2. \E to : to # "lockedTx" /\ Goto(r, to)
      BY <2>4 DEF ReadVersion, SwapWon, SwapLost, Reject
    <3> QED
      BY <1>1, <3>1, <3>2
  <2>5. CASE LockSlot(r)
    <3>1. CASE Taken(call[r].table, call[r].slot)
      <4>1. slotLock' = slotLock /\ Reject(r, "taken")
        BY <2>5, <3>1 DEF LockSlot
      <4>2. \E to : to # "lockedTx" /\ Goto(r, to)
        BY <4>1 DEF Reject
      <4> QED
        BY <1>1, <4>1, <4>2
    <3>2. CASE ~ Taken(call[r].table, call[r].slot)
      <4>1. /\ pc[r] = "lockSlot" /\ slotLock[call[r].slot] = Nil
            /\ slotLock' = [slotLock EXCEPT ![call[r].slot] = r]
            /\ Goto(r, "lockedTx") /\ call' = call /\ UNCHANGED ledger
        BY <2>5, <3>2 DEF LockSlot, At, locals
      <4>2. call[r].slot \in Slots
        BY <4>1, LockedCall
      <4>3. CASE q = r
        BY <3>2, <4>1, <4>2, <4>3 DEF TypeOK
      <4>4. CASE q # r
        <5>1. pc[q] = "lockedTx"
          BY <4>1, <4>4 DEF Goto, TypeOK
        <5>2. slotLock[call[q].slot] = q => slotLock'[call[q].slot] = q
          BY <4>1, <4>2, ConstantsAssumption DEF TypeOK
        <5> QED
          BY <4>1, <5>1, <5>2
      <4> QED
        BY <4>3, <4>4
    <3> QED
      BY <3>1, <3>2
  <2> QED
    BY <1>4, <2>1, <2>2, <2>3, <2>4, <2>5 DEF BookStep
<1>5. ASSUME NEW r \in Requests, HoldStep(r) PROVE Kept
  <2>1. slotLock' = slotLock
    BY <1>5 DEF HoldStep, HoldChecks, HoldWindow, AcquireHold, WriteMeta, ReuseTooLate,
                Check, shared, slotRows
  <2>2. \E to : to # "lockedTx" /\ Goto(r, to)
    BY <1>5 DEF HoldStep, HoldChecks, HoldWindow, AcquireHold, WriteMeta, ReuseTooLate,
                Check, Reject
  <2> QED
    BY <1>1, <2>1, <2>2
<1>6. ASSUME NEW r \in Requests, ConfirmStep(r) PROVE Kept
  <2>1. slotLock' = slotLock
    BY <1>6 DEF ConfirmStep, ClaimKey, LookupKey, ConfirmChecks, ConsumeHold, ConfirmWrite,
                ConfirmRollback, StoreOutcome, DropKey, Check, shared, slotRows
  <2>2. \E to : to # "lockedTx" /\ Goto(r, to)
    BY <1>6 DEF ConfirmStep, ClaimKey, LookupKey, ConfirmChecks, ConsumeHold, ConfirmWrite,
                ConfirmRollback, StoreOutcome, DropKey, Check, Reject
  <2> QED
    BY <1>1, <2>1, <2>2
<1>7. ASSUME NEW r \in Requests, CancelStep(r) \/ Publish(r) PROVE Kept
  <2>1. slotLock' = slotLock
    BY <1>7 DEF CancelStep, CancelChecks, CancelTransaction, Publish, Check, shared, slotRows
  <2>2. \E to : to # "lockedTx" /\ Goto(r, to)
    BY <1>7 DEF CancelStep, CancelChecks, CancelTransaction, Publish, Check, Reject
  <2> QED
    BY <1>1, <2>1, <2>2
<1>8. ASSUME NEW r \in Requests, Fault(r) \/ Crash(r) PROVE Kept
  <2>1. ReleaseLocks(r)
    BY <1>8 DEF Fault, Crash, Breaks
  <2>2. \E to : to # "lockedTx" /\ Goto(r, to)
    BY <1>8 DEF Fault, Crash
  <2> QED
    BY <1>1, <2>1, <2>2
<1>12. ASSUME NEW r \in Requests, AnswerLost(r) PROVE Kept
  <2>1. ReleaseLocks(r) /\ \E to : to # "lockedTx" /\ Goto(r, to)
    BY <1>12, LostShape DEF Breaks
  <2> QED
    BY <1>1, <2>1
<1>9. CASE UNCHANGED <<pc, call, slotLock>>
  BY <1>9
<1>10. CASE Environment
  BY <1>9, <1>10 DEF Environment, ExpireHold, ExpireMeta, Tick, locals, shared, slotRows
<1>11. CASE UNCHANGED vars
  BY <1>9, <1>11 DEF vars, locals, shared, slotRows
<1> QED
  BY <1>2, <1>4, <1>5, <1>6, <1>7, <1>8, <1>10, <1>11, <1>12 DEF AnyNext, Handle, Rest

\* No step takes the seat of a locked transaction.
LEMMA LocksFitStep ==
  ASSUME TypeOK, RequestsFit, OutboxMatchesLedger, LocksFit, [AnyNext]_vars
  PROVE  LocksFit'
<1> SUFFICES ASSUME NEW q \in Requests, pc'[q] = "lockedTx"
             PROVE  /\ slotLock'[call'[q].slot] = q
                    /\ ~ Taken(call[q].table, call[q].slot)'
  BY DEF LocksFit, LockedSeatStaysFree, At
<1>1. CASE /\ call'[q] = call[q] /\ slotLock'[call[q].slot] = q
           /\ ~ Taken(call[q].table, call[q].slot) /\ UNCHANGED ledger
  BY <1>1 DEF Taken, Booked, ledger
<1>2. CASE /\ pc[q] = "lockedTx" /\ call'[q] = call[q]
           /\ slotLock[call[q].slot] = q => slotLock'[call[q].slot] = q
  <2>1. slotLock[call[q].slot] = q /\ ~ Taken(call[q].table, call[q].slot)
    BY <1>2 DEF LocksFit, LockedSeatStaysFree, At
  <2>2. CASE UNCHANGED ledger
    BY <1>2, <2>1, <2>2 DEF Taken, Booked, ledger
  <2>3. ASSUME NEW r \in Requests, BooksFor(r)
        PROVE  ~ Taken(call[q].table, call[q].slot)'
    <3>1. r # q
      BY <1>2, <2>3 DEF BooksFor
    <3>2. call[r].slot # call[q].slot
      BY <2>1, <2>3, <3>1, ConstantsAssumption DEF BooksFor, SlotUnlocked, LocksFit
    <3>3. /\ reservations'[r].slot = call[r].slot
          /\ \A o \in Requests \ {r} : reservations'[o] = reservations[o]
      BY <2>3, BooksForFacts
    <3> QED
      BY <1>2, <2>1, <3>2, <3>3 DEF Taken, Booked
  <2>4. ASSUME NEW r \in Requests, NEW o \in Requests, CancelsFor(r, o)
        PROVE  ~ Taken(call[q].table, call[q].slot)'
    <3>1. /\ reservations'[o].status = "cancelled"
          /\ \A p \in Requests \ {o} : reservations'[p] = reservations[p]
      BY <2>4, CancelsForFacts
    <3> QED
      BY <1>2, <2>1, <3>1 DEF Taken, Booked
  <2> QED
    BY <1>2, <2>1, <2>2, <2>3, <2>4, LedgerSteps
<1> QED
  BY <1>1, <1>2, LockStep

\* The seat a pessimistic booking has looked at under its lock stays free until it
\* is booked, whatever the other write paths do meanwhile: an insert of theirs waits
\* for the row lock.
THEOREM LockKeepsSeatFree == Spec => []LockedSeatStaysFree
<1>1. Init => LocksFit
  BY DEF Init, LocksFit, LockedSeatStaysFree, At
<1>2. IInv /\ LocksFit /\ [AnyNext]_vars => LocksFit'
  BY LocksFitStep DEF IInv
<1>3. LocksFit => LockedSeatStaysFree
  BY DEF LocksFit
<1> QED
  BY <1>1, <1>2, <1>3, Invariance, SpecIsAny, PTL

-------------------------------------------------------------------------------
(* Holds: an id is in Redis at one seat, until one confirm takes it, and never again *)

\* The steps of a hold before it may be in Redis.
BeforeHold == {"idle", "hold", "holdWindow", "acquire"}

\* A confirm that has its hold, or had it and booked.
HasConsumed(r) ==
  /\ call[r].op = "confirm"
  /\ pc[r] # "idle"
  /\ pc[r] = "confirmTx" \/ reservations[r] # Nil

\* A hold in Redis was put there by the request it is named after, at its seat.
HoldsAreMade ==
  \A seat \in Tables \X Slots :
    holds[seat] # Nil =>
      /\ pc[holds[seat].id] \notin BeforeHold
      /\ SeatOf(call[holds[seat].id]) = seat

\* A consumed hold is in Redis no more, and is not about to be.
ConsumedIsGone ==
  \A r \in Requests :
    HasConsumed(r) =>
      /\ pc[call[r].hold] \notin BeforeHold
      /\ \A seat \in Tables \X Slots :
           holds[seat] # Nil => holds[seat].id # call[r].hold

\* One confirm consumes a hold.
ConsumedOnce ==
  \A r1, r2 \in Requests :
    HasConsumed(r1) /\ HasConsumed(r2) /\ call[r1].hold = call[r2].hold => r1 = r2

HoldsFit == HoldsAreMade /\ ConsumedIsGone /\ ConsumedOnce

-------------------------------------------------------------------------------
(* What a step does to holds *)

\* A request that is past acquiring its hold stays past it.
LEMMA PastStays ==
  ASSUME TypeOK, RequestsFit, [AnyNext]_vars, NEW h \in Requests, pc[h] \notin BeforeHold
  PROVE  pc'[h] \notin BeforeHold
<1>1. ASSUME NEW r \in Requests, NEW step, step \notin BeforeHold, Goto(r, step)
      PROVE  pc'[h] \notin BeforeHold
  BY <1>1 DEF Goto, TypeOK
<1>2. ASSUME NEW r \in Requests, NEW status, Reject(r, status)
      PROVE  pc'[h] \notin BeforeHold
  BY <1>2 DEF Reject, Goto, TypeOK, BeforeHold
<1>3. ASSUME NEW r \in Requests, pc[r] \in BeforeHold, NEW step, Goto(r, step)
      PROVE  pc'[h] \notin BeforeHold
  BY <1>3 DEF Goto, TypeOK
<1>4. ASSUME NEW r \in Requests, NEW c \in Call, Arrive(r, c)
      PROVE  pc'[h] \notin BeforeHold
  BY <1>3, <1>4 DEF Arrive, At, BeforeHold
<1>5. ASSUME NEW r \in Requests, BookStep(r) PROVE pc'[h] \notin BeforeHold
  <2>1. CASE BookChecks(r)
    <3>1. call[r] \in Call /\ call[r].op = "book"
      BY <2>1 DEF BookChecks, Check, At, RequestsFit, StepFitsCall, BookSteps
    <3>2. StrategyStep[call[r].strategy] \notin BeforeHold
      BY <3>1, CallTypes DEF StrategyStep, Strategies, BeforeHold
    <3> QED
      BY <1>1, <1>2, <2>1, <3>2 DEF BookChecks, Check
  <2>2. CASE ~ BookChecks(r)
    <3>1. \/ \E status : Reject(r, status)
          \/ \E step : step \notin BeforeHold /\ Goto(r, step)
      BY <1>5, <2>2 DEF BookStep, LockSlot, ReadVersion, ReadExisting, SwapWon, SwapLost,
         BookInTransaction, LockedTransaction, DirectWrite, Check, BeforeHold
    <3> QED
      BY <1>1, <1>2, <3>1
  <2> QED
    BY <2>1, <2>2
<1>6. ASSUME NEW r \in Requests, HoldStep(r) PROVE pc'[h] \notin BeforeHold
  <2>1. CASE HoldChecks(r) \/ HoldWindow(r)
    BY <1>2, <1>3, <2>1 DEF HoldChecks, HoldWindow, Check, At, BeforeHold
  <2>2. CASE AcquireHold(r) \/ WriteMeta(r) \/ ReuseTooLate(r)
    <3>1. \/ \E status : Reject(r, status)
          \/ \E step : step \notin BeforeHold /\ Goto(r, step)
      BY <2>2 DEF AcquireHold, WriteMeta, ReuseTooLate, BeforeHold
    <3> QED
      BY <1>1, <1>2, <3>1
  <2> QED
    BY <1>6, <2>1, <2>2 DEF HoldStep
<1>7. ASSUME NEW r \in Requests, ConfirmStep(r) \/ CancelStep(r) \/ Publish(r)
      PROVE  pc'[h] \notin BeforeHold
  <2>1. \/ \E status : Reject(r, status)
        \/ \E step : step \notin BeforeHold /\ Goto(r, step)
    BY <1>7 DEF ConfirmStep, ClaimKey, LookupKey, ConfirmChecks, ConsumeHold, ConfirmWrite,
       ConfirmRollback, StoreOutcome, DropKey, CancelStep, CancelChecks,
       CancelTransaction, Publish, Check, BeforeHold
  <2> QED
    BY <1>1, <1>2, <2>1
<1>8. ASSUME NEW r \in Requests, Fault(r) \/ Crash(r) PROVE pc'[h] \notin BeforeHold
  <2>1. \E step : step \notin BeforeHold /\ Goto(r, step)
    BY <1>8 DEF Fault, Crash, BeforeHold
  <2> QED
    BY <1>1, <2>1
<1>9. CASE Environment \/ UNCHANGED vars
  BY <1>9 DEF Environment, ExpireHold, ExpireMeta, Tick, vars
<1>10. ASSUME NEW r \in Requests, AnswerLost(r) PROVE pc'[h] \notin BeforeHold
  BY <1>1, <1>10, LostShape DEF BeforeHold
<1> QED
  BY <1>4, <1>5, <1>6, <1>7, <1>8, <1>9, <1>10 DEF AnyNext, Handle, Rest

\* A step puts a hold only where its request acquires one.
LEMMA HoldsStep ==
  ASSUME TypeOK, RequestsFit, [AnyNext]_vars, NEW seat \in Tables \X Slots
  PROVE  \/ holds'[seat] \in {holds[seat], Nil}
         \/ \E r \in Requests : /\ AcquireHold(r) /\ SeatOf(call[r]) = seat
                                /\ holds'[seat] = [id |-> r, user |-> call[r].user]
<1>1. ASSUME NEW r \in Requests, AcquireHold(r)
      PROVE  \/ holds'[seat] = holds[seat]
             \/ /\ SeatOf(call[r]) = seat
                /\ holds'[seat] = [id |-> r, user |-> call[r].user]
  BY <1>1 DEF AcquireHold, TypeOK
<1>2. ASSUME NEW r \in Requests, ConsumeHold(r) PROVE holds'[seat] \in {holds[seat], Nil}
  BY <1>2 DEF ConsumeHold, TypeOK
<1>3. ASSUME NEW t \in Tables, NEW s \in Slots, ExpireHold(t, s)
      PROVE  holds'[seat] \in {holds[seat], Nil}
  BY <1>3 DEF ExpireHold, TypeOK
<1>4. ASSUME NEW r \in Requests, Handle(r) \/ Fault(r) \/ Crash(r),
             ~ AcquireHold(r), ~ ConsumeHold(r)
      PROVE  holds' = holds
  <2>1. CASE BookStep(r)
    BY <2>1 DEF BookStep, BookChecks, LockSlot, ReadVersion, ReadExisting, SwapWon,
       SwapLost, BookInTransaction, LockedTransaction, DirectWrite, Check, shared, redis
  <2>2. CASE HoldStep(r)
    BY <1>4, <2>2 DEF HoldStep, HoldChecks, HoldWindow, WriteMeta, ReuseTooLate, Check,
       shared, redis
  <2>3. CASE ConfirmStep(r)
    BY <1>4, <2>3 DEF ConfirmStep, ClaimKey, LookupKey, ConfirmChecks, ConfirmWrite,
       ConfirmRollback, StoreOutcome, DropKey, Check, shared, redis
  <2>4. CASE CancelStep(r) \/ Publish(r) \/ Fault(r) \/ Crash(r)
    BY <2>4 DEF CancelStep, CancelChecks, CancelTransaction, Publish, Fault, Crash,
       Breaks, Check, shared, redis
  <2> QED
    BY <1>4, <2>1, <2>2, <2>3, <2>4 DEF Handle
<1>5. ASSUME NEW r \in Requests, NEW c \in Call, Arrive(r, c) PROVE holds' = holds
  BY <1>5 DEF Arrive, shared, redis
<1>6. CASE UNCHANGED vars
  BY <1>6 DEF vars, shared, redis
<1>7. ASSUME Tick \/ \E h \in Requests : ExpireMeta(h) PROVE holds' = holds
  BY <1>7 DEF Tick, ExpireMeta, shared, redis
<1>8. ASSUME NEW r \in Requests, AnswerLost(r) PROVE holds' = holds
  BY <1>8, LostShape
<1> QED
  BY <1>1, <1>2, <1>3, <1>4, <1>5, <1>6, <1>7, <1>8 DEF AnyNext, Environment, Rest

-------------------------------------------------------------------------------
(* Who has consumed a hold *)

\* Only by consuming its hold does a confirm come to its transaction.
LEMMA TransactionEntered ==
  ASSUME TypeOK, RequestsFit, [AnyNext]_vars, NEW q \in Requests, pc'[q] = "confirmTx"
  PROVE  pc[q] = "confirmTx" \/ ConsumeHold(q)
<1>1. ASSUME NEW r \in Requests, NEW step, step # "confirmTx", Goto(r, step)
      PROVE  pc[q] = "confirmTx"
  BY <1>1 DEF Goto, TypeOK
<1>2. ASSUME NEW r \in Requests, NEW status, Reject(r, status)
      PROVE  pc[q] = "confirmTx"
  BY <1>2 DEF Reject, Goto, TypeOK
<1>3. ASSUME NEW r \in Requests, NEW c \in Call, Arrive(r, c) PROVE pc[q] = "confirmTx"
  <2>1. FirstStep(c) # "confirmTx"
    BY CallTypes DEF FirstStep
  <2> QED
    BY <1>1, <1>3, <2>1 DEF Arrive
<1>4. ASSUME NEW r \in Requests, BookStep(r) PROVE pc[q] = "confirmTx"
  <2>1. CASE BookChecks(r)
    <3>1. call[r] \in Call /\ call[r].op = "book"
      BY <2>1 DEF BookChecks, Check, At, RequestsFit, StepFitsCall, BookSteps
    <3>2. StrategyStep[call[r].strategy] # "confirmTx"
      BY <3>1, CallTypes DEF StrategyStep, Strategies
    <3> QED
      BY <1>1, <1>2, <2>1, <3>2 DEF BookChecks, Check
  <2>2. CASE ~ BookChecks(r)
    <3>1. \/ \E status : Reject(r, status)
          \/ \E step : step # "confirmTx" /\ Goto(r, step)
      BY <1>4, <2>2 DEF BookStep, LockSlot, ReadVersion, ReadExisting, SwapWon, SwapLost,
         BookInTransaction, LockedTransaction, DirectWrite, Check
    <3> QED
      BY <1>1, <1>2, <3>1
  <2> QED
    BY <2>1, <2>2
<1>5. ASSUME NEW r \in Requests, HoldStep(r) PROVE pc[q] = "confirmTx"
  <2>1. \/ \E status : Reject(r, status)
        \/ \E step : step # "confirmTx" /\ Goto(r, step)
    BY <1>5 DEF HoldStep, HoldChecks, HoldWindow, AcquireHold, WriteMeta, ReuseTooLate,
       Check
  <2> QED
    BY <1>1, <1>2, <2>1
<1>6. ASSUME NEW r \in Requests, ConsumeHold(r)
      PROVE  pc[q] = "confirmTx" \/ ConsumeHold(q)
  <2>1. CASE r = q
    BY <1>6, <2>1
  <2>2. CASE r # q
    BY <1>6, <2>2 DEF ConsumeHold, Reject, Goto, TypeOK
  <2> QED
    BY <2>1, <2>2
<1>7. ASSUME NEW r \in Requests, ConfirmStep(r), ~ ConsumeHold(r)
      PROVE  pc[q] = "confirmTx"
  <2>1. \/ \E status : Reject(r, status)
        \/ \E step : step # "confirmTx" /\ Goto(r, step)
    BY <1>7 DEF ConfirmStep, ClaimKey, LookupKey, ConfirmChecks, ConfirmWrite,
       ConfirmRollback, StoreOutcome, DropKey, Check
  <2> QED
    BY <1>1, <1>2, <2>1
<1>8. ASSUME NEW r \in Requests, CancelStep(r) \/ Publish(r) \/ Fault(r) \/ Crash(r)
      PROVE  pc[q] = "confirmTx"
  <2>1. \/ \E status : Reject(r, status)
        \/ \E step : step # "confirmTx" /\ Goto(r, step)
    BY <1>8 DEF CancelStep, CancelChecks, CancelTransaction, Publish, Fault, Crash, Check
  <2> QED
    BY <1>1, <1>2, <2>1
<1>9. CASE Environment \/ UNCHANGED vars
  BY <1>9 DEF Environment, ExpireHold, ExpireMeta, Tick, vars
<1>10. ASSUME NEW r \in Requests, AnswerLost(r) PROVE pc[q] = "confirmTx"
  BY <1>1, <1>10, LostShape
<1> QED
  BY <1>3, <1>4, <1>5, <1>6, <1>7, <1>8, <1>9, <1>10 DEF AnyNext, Handle, Rest

\* Who has consumed after a step did before, or consumes in it.
LEMMA ConsumedStep ==
  ASSUME IInv, [AnyNext]_vars, NEW q \in Requests, HasConsumed(q)'
  PROVE  call'[q] = call[q] /\ (HasConsumed(q) \/ ConsumeHold(q))
<1> USE DEF IInv
<1>1. CASE pc'[q] = "confirmTx"
  <2>1. pc[q] = "confirmTx" \/ ConsumeHold(q)
    BY <1>1, TransactionEntered
  <2>2. call'[q] = call[q]
    BY <2>1, CallStable DEF ConsumeHold, At
  <2> QED
    BY <2>1, <2>2 DEF HasConsumed
<1>2. CASE reservations'[q] # Nil /\ reservations[q] # Nil
  <2>1. pc[q] # "idle"
    BY <1>2 DEF RequestsFit, StepFitsCall, BeforeWrite
  <2> QED
    BY <1>2, <2>1, CallStable DEF HasConsumed
<1>3. CASE reservations'[q] # Nil /\ reservations[q] = Nil
  <2>1. CASE UNCHANGED ledger
    BY <1>3, <2>1 DEF ledger
  <2>2. ASSUME NEW r \in Requests, BooksFor(r)
        PROVE  call'[q] = call[q] /\ HasConsumed(q)
    <3>1. r = q
      <4>1. \A p \in Requests \ {r} : reservations'[p] = reservations[p]
        BY <2>2, BooksForFacts
      <4> QED
        BY <1>3, <4>1
    <3>2. call' = call /\ call[q].op = "confirm"
      BY <2>2 DEF BooksFor, HasConsumed
    <3>3. pc[q] = "confirmTx"
      BY <2>2, <3>1, <3>2, BooksForFacts
    <3> QED
      BY <3>2, <3>3 DEF HasConsumed
  <2>3. ASSUME NEW r \in Requests, NEW o \in Requests, CancelsFor(r, o) PROVE FALSE
    BY <1>3, <2>3, CancelsForFacts DEF Booked
  <2> QED
    BY <2>1, <2>2, <2>3, LedgerSteps
<1> QED
  BY <1>1, <1>2, <1>3 DEF HasConsumed

\* A confirm that consumes finds its hold in Redis, and takes it out.
LEMMA ConsumeFacts ==
  ASSUME IInv, NEW q \in Requests, ConsumeHold(q), HasConsumed(q)'
  PROVE  LET seat == SeatOf(call[q]) IN
         /\ seat \in Tables \X Slots
         /\ call[q].hold \in Requests
         /\ holds[seat] # Nil /\ holds[seat].id = call[q].hold
         /\ holds' = [holds EXCEPT ![seat] = Nil]
         /\ pc' = [pc EXCEPT ![q] = "confirmTx"]
<1> DEFINE seat == SeatOf(call[q])
           hold == [id |-> call[q].hold, user |-> call[q].user]
<1>1. call[q] \in Call /\ call[q].op = "confirm" /\ reservations[q] = Nil
  BY DEF IInv, RequestsFit, StepFitsCall, ConfirmSteps, BeforeWrite, ConsumeHold, At
<1>2. /\ call[q].table \in Tables /\ call[q].slot \in Slots
      /\ call[q].hold \in Requests /\ call[q].user \in Users
  BY <1>1, CallTypes
<1>3. reservations'[q] = Nil
  BY <1>1 DEF ConsumeHold, ledger
<1>4. pc'[q] = "confirmTx"
  BY <1>3 DEF HasConsumed
<1>5. holds[seat] = hold
  BY <1>4 DEF ConsumeHold, Reject, Goto, IInv, TypeOK
<1>6. /\ holds' = [holds EXCEPT ![seat] = Nil]
      /\ pc' = [pc EXCEPT ![q] = "confirmTx"]
  BY <1>5 DEF ConsumeHold, Goto
<1>7. hold \in HoldRow /\ hold # Nil
  BY <1>2, NilAssumption DEF HoldRow
<1> QED
  BY <1>2, <1>5, <1>6, <1>7 DEF SeatOf

-------------------------------------------------------------------------------
(* The invariant *)

\* Holds stay at the seat they were made for.
LEMMA HoldsAreMadeStep ==
  ASSUME IInv, HoldsFit, [AnyNext]_vars
  PROVE  HoldsAreMade'
<1> USE DEF IInv
<1> SUFFICES ASSUME NEW seat \in Tables \X Slots, holds'[seat] # Nil
             PROVE  /\ pc'[holds'[seat].id] \notin BeforeHold
                    /\ SeatOf(call'[holds'[seat].id]) = seat
  BY DEF HoldsAreMade, SeatOf
<1>1. CASE holds'[seat] = holds[seat]
  <2>1. /\ holds[seat].id \in Requests
        /\ pc[holds[seat].id] \notin BeforeHold
        /\ SeatOf(call[holds[seat].id]) = seat
    BY <1>1 DEF HoldsFit, HoldsAreMade, TypeOK, HoldRow
  <2> QED
    BY <1>1, <2>1, PastStays, CallStable DEF BeforeHold
<1>2. ASSUME NEW r \in Requests, AcquireHold(r), SeatOf(call[r]) = seat,
             holds'[seat] = [id |-> r, user |-> call[r].user]
      PROVE  /\ pc'[holds'[seat].id] \notin BeforeHold
             /\ SeatOf(call'[holds'[seat].id]) = seat
  <2>1. pc'[r] \notin BeforeHold /\ call' = call
    BY <1>2 DEF AcquireHold, Reject, Goto, TypeOK, locals, BeforeHold
  <2> QED
    BY <1>2, <2>1
<1> QED
  BY <1>1, <1>2, HoldsStep

\* What was consumed does not come back.
LEMMA ConsumedIsGoneStep ==
  ASSUME IInv, HoldsFit, [AnyNext]_vars
  PROVE  ConsumedIsGone'
<1> USE DEF IInv
<1> SUFFICES ASSUME NEW q \in Requests, HasConsumed(q)'
             PROVE  /\ pc'[call'[q].hold] \notin BeforeHold
                    /\ \A seat \in Tables \X Slots :
                         holds'[seat] # Nil => holds'[seat].id # call'[q].hold
  BY DEF ConsumedIsGone
<1>1. call'[q] = call[q] /\ (HasConsumed(q) \/ ConsumeHold(q))
  BY ConsumedStep
<1>2. CASE HasConsumed(q)
  <2>1. call[q] \in Call /\ call[q].op = "confirm"
    BY <1>2 DEF HasConsumed, RequestsFit, StepFitsCall
  <2>2. call[q].hold \in Requests /\ pc[call[q].hold] \notin BeforeHold
    BY <1>2, <2>1, CallTypes DEF HoldsFit, ConsumedIsGone
  <2>3. ASSUME NEW seat \in Tables \X Slots, holds'[seat] # Nil
        PROVE  holds'[seat].id # call[q].hold
    <3>1. CASE holds'[seat] = holds[seat]
      BY <1>2, <2>3, <3>1 DEF HoldsFit, ConsumedIsGone
    <3>2. ASSUME NEW r \in Requests, AcquireHold(r),
                 holds'[seat] = [id |-> r, user |-> call[r].user]
          PROVE  holds'[seat].id # call[q].hold
      BY <2>2, <3>2 DEF AcquireHold, At, BeforeHold
    <3> QED
      BY <2>3, <3>1, <3>2, HoldsStep
  <2> QED
    BY <1>1, <2>2, <2>3, PastStays
<1>3. CASE ConsumeHold(q)
  <2> DEFINE at == SeatOf(call[q])
  <2>1. /\ at \in Tables \X Slots /\ call[q].hold \in Requests
        /\ holds[at] # Nil /\ holds[at].id = call[q].hold
        /\ holds' = [holds EXCEPT ![at] = Nil]
    BY <1>3, ConsumeFacts
  <2>2. /\ pc[call[q].hold] \notin BeforeHold
        /\ SeatOf(call[call[q].hold]) = at
    BY <2>1 DEF HoldsFit, HoldsAreMade
  <2>3. ASSUME NEW seat \in Tables \X Slots, holds'[seat] # Nil
        PROVE  holds'[seat].id # call[q].hold
    <3>1. seat # at /\ holds'[seat] = holds[seat]
      BY <2>1, <2>3 DEF TypeOK
    <3> QED
      BY <2>2, <2>3, <3>1 DEF HoldsFit, HoldsAreMade
  <2> QED
    BY <1>1, <2>1, <2>2, <2>3, PastStays
<1> QED
  BY <1>1, <1>2, <1>3

\* Two confirms never consume one hold.
LEMMA ConsumedOnceStep ==
  ASSUME IInv, HoldsFit, [AnyNext]_vars
  PROVE  ConsumedOnce'
<1> USE DEF IInv
<1>1. ASSUME NEW q1 \in Requests, NEW q2 \in Requests, ConsumeHold(q1), HasConsumed(q1)',
             HasConsumed(q2), call[q1].hold = call[q2].hold
      PROVE  FALSE
  BY <1>1, ConsumeFacts DEF HoldsFit, ConsumedIsGone
<1>2. ASSUME NEW q1 \in Requests, NEW q2 \in Requests, ConsumeHold(q1), HasConsumed(q1)',
             ConsumeHold(q2), HasConsumed(q2)'
      PROVE  q1 = q2
  <2>1. pc' = [pc EXCEPT ![q1] = "confirmTx"] /\ pc' = [pc EXCEPT ![q2] = "confirmTx"]
    BY <1>2, ConsumeFacts
  <2>2. pc[q1] = "consume" /\ pc[q2] = "consume"
    BY <1>2 DEF ConsumeHold, At
  <2> QED
    BY <2>1, <2>2 DEF TypeOK
<1>3. ASSUME NEW q1 \in Requests, NEW q2 \in Requests, HasConsumed(q1)', HasConsumed(q2)',
             call'[q1].hold = call'[q2].hold
      PROVE  q1 = q2
  <2>1. /\ call'[q1] = call[q1] /\ (HasConsumed(q1) \/ ConsumeHold(q1))
        /\ call'[q2] = call[q2] /\ (HasConsumed(q2) \/ ConsumeHold(q2))
    BY <1>3, ConsumedStep
  <2>2. CASE HasConsumed(q1) /\ HasConsumed(q2)
    BY <1>3, <2>1, <2>2 DEF HoldsFit, ConsumedOnce
  <2> QED
    BY <1>1, <1>2, <1>3, <2>1, <2>2
<1> QED
  BY <1>3 DEF ConsumedOnce

\* Holds fit at first, after every step, and so that one books once.
LEMMA HoldsInitial == Init => HoldsFit
BY ConstantsAssumption DEF Init, HoldsFit, HoldsAreMade, ConsumedIsGone, ConsumedOnce,
   HasConsumed

LEMMA HoldsInductive == IInv /\ HoldsFit /\ [AnyNext]_vars => HoldsFit'
BY HoldsAreMadeStep, ConsumedIsGoneStep, ConsumedOnceStep DEF HoldsFit

LEMMA HoldsBookOnce == IInv /\ HoldsFit => HoldBooksOnce
<1> SUFFICES ASSUME IInv, HoldsFit, NEW o1 \in Requests, NEW o2 \in Requests,
                    reservations[o1] # Nil, call[o1].op = "confirm",
                    reservations[o2] # Nil, call[o2].op = "confirm",
                    call[o1].hold = call[o2].hold
             PROVE  o1 = o2
  BY DEF HoldBooksOnce
<1>1. pc[o1] # "idle" /\ pc[o2] # "idle"
  BY DEF IInv, RequestsFit, StepFitsCall, BeforeWrite
<1> QED
  BY <1>1 DEF HoldsFit, ConsumedOnce, HasConsumed

\* One hold pays for one reservation, for any number of confirms of it: doubled,
\* retried, under keys or none, raced by expiry, new holds, failures and crashes.
THEOREM OneBookingPerHold == Spec => []HoldBooksOnce
BY HoldsInitial, HoldsInductive, HoldsBookOnce, Invariance, SpecIsAny, PTL
================================================================================
