----------------------------- MODULE AgentWorkflow -----------------------------
(***************************************************************************)
(* The durable agent: AgentWorkerService's ticks drive workflows that      *)
(* AgentService creates and its users approve and answer, and call the     *)
(* application's own API through AgentToolsService.                        *)
(*                                                                         *)
(* A tick is one transaction over a batch of PENDING rows, claimed FOR     *)
(* UPDATE SKIP LOCKED.  Its copies are edited in memory and become visible *)
(* when the batch commits; what its tools did through the API is there at  *)
(* once, and stays when the transaction is lost.                           *)
(*                                                                         *)
(* The API appears by what the agent sees of Reservations: holds, and a    *)
(* confirm under an idempotency key.  The model's words are free: any tool *)
(* it knows, in any order.                                                 *)
(***************************************************************************)
EXTENDS Integers, SequencesExt

CONSTANTS
  Workflows,
  Holds,
  Ticks,           \* the running calls of processOnce
  Consoles,        \* requests to approve or answer
  Nil, Answered,
  BatchSize,       \* AGENT_BATCH_SIZE
  MaxSteps,        \* MAX_STEPS_PER_TICK
  MaxHolds,        \* MAX_HOLDS_PER_WORKFLOW
  MaxFaults        \* bound: crashes, lost answers, failures of the API

\* The idempotency key agent:<id>: what it was claimed for, how that went, and whether
\* the request that claimed it is going to delete it all the same.
Outcomes == {"running", "orphaned", "booked", "denied", "refused"}
KeyRow == [hold: Holds, outcome: Outcomes, doomed: BOOLEAN]

ASSUME AgentAssumption ==
  /\ IsFiniteSet(Workflows)
  /\ Nil \notin Workflows \cup Holds \cup KeyRow
  /\ "ask" \notin Holds
  /\ BatchSize \in Nat \ {0} /\ MaxSteps \in Nat \ {0} /\ MaxHolds \in Nat
  /\ MaxFaults \in Nat

VARIABLES
  row,             \* agent_workflows
  tick,            \* each running processOnce
  console,         \* each request to approve or answer: Nil, its copy, Answered
  hold,            \* who has each hold, or had it: [by, live]
  key,             \* the row of idempotency key agent:<id>
  booked,          \* <<workflow, hold>>: reservations
  unkeyed,         \* those whose request dropped the key after their commit
  approved,        \* ghost: <<workflow, hold>> that a user approved
  faults

api == <<hold, key, booked, unkeyed>>
vars == <<row, tick, console, api, approved, faults>>

\* Of history, what a later call depends on: the holds it has seen granted.
Row ==
  [status: {"none", "pending", "awaitingApproval", "awaitingInput", "done", "failed"},
   pending: Holds \cup {"ask", Nil},
   history: SUBSET Holds,
   holdCount: 0..MaxHolds,
   reservation: Holds \cup {Nil},
   mandated: BOOLEAN]

Columns == {"status", "pending", "history", "holdCount", "reservation", "mandated"}

NoTick == [batch |-> <<>>, copy |-> <<>>, at |-> "start", step |-> 0, confirming |-> Nil]

TypeOK ==
  /\ row \in [Workflows -> Row]
  /\ \A t \in Ticks : /\ ToSet(tick[t].batch) \subseteq DOMAIN tick[t].copy
                      /\ \A w \in DOMAIN tick[t].copy : tick[t].copy[w] \in Row
                      /\ tick[t].at \in {"start", "think", "wait"}
                      /\ tick[t].step \in 0..MaxSteps
                      /\ tick[t].confirming \in Holds \cup {Nil}
  /\ \A c \in Consoles : console[c] \notin {Nil, Answered} => console[c].copy \in Row
  /\ hold \in [Holds -> [by: Workflows \cup {Nil}, live: BOOLEAN]]
  /\ key \in [Workflows -> KeyRow \cup {Nil}]
  /\ booked \subseteq Workflows \X Holds /\ unkeyed \subseteq booked
  /\ approved \subseteq Workflows \X (Holds \cup {"ask", Nil})
  /\ faults \in 0..MaxFaults

-------------------------------------------------------------------------------
(* AgentService: create, approve, answer *)

\* With a mandate of the user's, or without.
Create(w) ==
  /\ row[w].status = "none"
  /\ \E m \in BOOLEAN : row' = [row EXCEPT ![w].status = "pending", ![w].mandated = m]
  /\ UNCHANGED <<tick, console, api, approved, faults>>

\* approve: findOwned and the status check; the entity read is edited in memory.
ApproveRead(c, w) ==
  /\ console[c] = Nil
  /\ row[w].status = "awaitingApproval"
  /\ console' = [console EXCEPT ![c] =
       [of |-> w, copy |-> [row[w] EXCEPT !.status = "pending"], adds |-> {},
        changed |-> Nil]]
  /\ approved' = approved \cup {<<w, row[w].pending>>}
  /\ UNCHANGED <<row, tick, api, faults>>

\* answer, which also adds the user's words to the conversation.
AnswerRead(c, w) ==
  /\ console[c] = Nil
  /\ row[w].status = "awaitingInput"
  /\ console' = [console EXCEPT ![c] =
       [of |-> w,
        copy |-> [row[w] EXCEPT !.status = "pending", !.pending = Nil],
        adds |-> {"history"}, changed |-> Nil]]
  /\ UNCHANGED <<row, tick, api, approved, faults>>

\* save reads the row again, without a lock, to see which columns the entity changes.
SaveSelect(c) ==
  /\ console[c] \notin {Nil, Answered} /\ console[c].changed = Nil
  /\ console' = [console EXCEPT ![c].changed =
       console[c].adds
         \cup {f \in Columns : console[c].copy[f] # row[console[c].of][f]}]
  /\ UNCHANGED <<row, tick, api, approved, faults>>

\* The rows some tick has FOR UPDATE.
Locked == UNION {DOMAIN tick[t].copy : t \in Ticks}

\* ... and its UPDATE, behind any row lock, writes those.
SaveUpdate(c) ==
  LET w == console[c].of IN
  /\ console[c] \notin {Nil, Answered} /\ console[c].changed # Nil
  /\ console[c].changed # {} => w \notin Locked
  /\ row' = [row EXCEPT ![w] =
       [f \in Columns |-> IF f \in console[c].changed THEN console[c].copy[f] ELSE @[f]]]
  /\ console' = [console EXCEPT ![c] = Answered]
  /\ UNCHANGED <<tick, api, approved, faults>>

-------------------------------------------------------------------------------
(* processOnce: the transaction *)

Claimable == {w \in Workflows : row[w].status = "pending" /\ w \notin Locked}

Claim(t) ==
  /\ tick[t] = NoTick
  /\ Claimable # {}
  /\ \E ws \in SUBSET Claimable :
       /\ Cardinality(ws) = (IF Cardinality(Claimable) < BatchSize
                             THEN Cardinality(Claimable) ELSE BatchSize)
       /\ \E q \in SetToSeqs(ws) :
            tick' = [tick EXCEPT ![t] = [NoTick EXCEPT !.batch = q,
                                                      !.copy = [w \in ws |-> row[w]]]]
  /\ UNCHANGED <<row, console, api, approved, faults>>

\* The rows of the batch, saved in its transaction, become visible together.
Commit(t) ==
  /\ tick[t] # NoTick /\ tick[t].batch = <<>>
  /\ row' = [w \in Workflows |->
               IF w \in DOMAIN tick[t].copy THEN tick[t].copy[w] ELSE row[w]]
  /\ tick' = [tick EXCEPT ![t] = NoTick]
  /\ UNCHANGED <<console, api, approved, faults>>

\* Mutant: a tick that fails leaves its transaction, and its row locks, open.
AbortLeaked(t) ==
  /\ tick[t] # NoTick
  /\ faults < MaxFaults
  /\ faults' = faults + 1
  /\ tick' = [tick EXCEPT ![t].at = "wait", ![t].confirming = Nil]
  /\ UNCHANGED <<row, console, api, approved>>

\* The process dies, or a statement fails: every row of the batch is as it was.
Abort(t) ==
  /\ tick[t] # NoTick
  /\ faults < MaxFaults
  /\ faults' = faults + 1
  /\ tick' = [tick EXCEPT ![t] = NoTick]
  /\ UNCHANGED <<row, console, api, approved>>

-------------------------------------------------------------------------------
(* runWorkflow, on the batch's first *)

Current(t) == Head(tick[t].batch)
Copy(t) == tick[t].copy[Current(t)]

Running(t, at) == tick[t].batch # <<>> /\ tick[t].at = at

\* The loop goes on with copy c, after n steps.
Goon(t, c, n) ==
  tick' = [tick EXCEPT ![t].copy[Current(t)] = c, ![t].at = "think", ![t].step = n,
                       ![t].confirming = Nil]

\* It returns: the copy is saved and the batch moves on.
Return(t, c) ==
  tick' = [tick EXCEPT ![t] =
    [NoTick EXCEPT !.batch = Tail(tick[t].batch),
                   !.copy = [tick[t].copy EXCEPT ![Current(t)] = c]]]

FailWith(t, c) == Return(t, [c EXCEPT !.status = "failed"])

\* Mutant: the key names the hold as well as the workflow.
KeyPerHold(w, h) == IF key[w] # Nil /\ key[w].hold = h THEN key[w] ELSE Nil

\* What the API finds under agent:<id> for this request.
KeyFor(w, h) == key[w]

\* runTool("confirm_hold"): the key is claimed and the API works on, or it answers
\* at once: a stored booking is replayed; another request's key, one in progress and
\* a stored failure are errors, a replayed denial too, which carries no verdict.  The
\* request's way to the API is not a step of its own.
CallConfirm(t, c, h, n) ==
  LET w == Current(t)
      found == KeyFor(w, h)
  IN
  \/ /\ found = Nil
     /\ key' = [key EXCEPT ![w] = [hold |-> h, outcome |-> "running", doomed |-> FALSE]]
     /\ tick' = [tick EXCEPT ![t].copy[w] = c, ![t].at = "wait", ![t].step = n,
                             ![t].confirming = h]
     /\ UNCHANGED <<hold, booked, unkeyed>>
  \/ /\ found # Nil /\ found.hold = h /\ found.outcome = "booked"
     /\ Goon(t, [c EXCEPT !.reservation = h], n)
     /\ UNCHANGED api
  \/ /\ found # Nil /\ ~ (found.hold = h /\ found.outcome = "booked")
     /\ FailWith(t, c)
     /\ UNCHANGED api

\* The parked action first.  ask_user is no API call: still parked when its row is
\* claimed, it is an unknown tool.
Resume(t) ==
  /\ Running(t, "start")
  /\ LET c == [Copy(t) EXCEPT !.pending = Nil] IN
     CASE Copy(t).pending = Nil   -> Goon(t, c, 0) /\ UNCHANGED api
       [] Copy(t).pending = "ask" -> FailWith(t, c) /\ UNCHANGED api
       [] OTHER                   -> CallConfirm(t, c, Copy(t).pending, 0)
  /\ UNCHANGED <<row, console, approved, faults>>

\* The API answers: a booking; a verdict, once, that the model gets to see; an error.
ReceiveConfirm(t) ==
  /\ Running(t, "wait") /\ tick[t].confirming # Nil
  /\ key[Current(t)] # Nil => ~ key[Current(t)].doomed
  /\ LET w == Current(t) IN
     \/ /\ key[w] # Nil /\ key[w].outcome = "booked"
        /\ Goon(t, [Copy(t) EXCEPT !.reservation = key[w].hold], tick[t].step)
     \/ /\ key[w] # Nil /\ key[w].outcome = "denied"
        /\ Goon(t, Copy(t), tick[t].step)
     \/ /\ key[w] # Nil => key[w].outcome \in {"orphaned", "refused"}
        /\ FailWith(t, Copy(t))
  /\ UNCHANGED <<row, console, api, approved, faults>>

\* The connection breaks; the API goes on.
LoseAnswer(t) ==
  /\ Running(t, "wait") /\ tick[t].confirming # Nil
  /\ faults < MaxFaults
  /\ faults' = faults + 1
  /\ FailWith(t, Copy(t))
  /\ UNCHANGED <<row, console, api, approved>>

-------------------------------------------------------------------------------
(* The model's turns *)

Thinks(t) == Running(t, "think") /\ tick[t].step < MaxSteps

\* No function call: the conversation is over.
SayText(t) ==
  /\ Thinks(t)
  /\ Return(t, [Copy(t) EXCEPT !.status = "done"])
  /\ UNCHANGED <<row, console, api, approved, faults>>

\* The LLM fails, or the step budget is spent.
GiveUp(t) ==
  /\ Running(t, "think")
  /\ FailWith(t, Copy(t))
  /\ UNCHANGED <<row, console, api, approved, faults>>

\* search_cafes, check_availability, propose_alternatives, get_mandate_status.
LookUp(t) ==
  /\ Thinks(t)
  /\ \/ Goon(t, Copy(t), tick[t].step + 1)
     \/ FailWith(t, Copy(t))
  /\ UNCHANGED <<row, console, api, approved, faults>>

AskUser(t) ==
  /\ Thinks(t)
  /\ Return(t, [Copy(t) EXCEPT !.status = "awaitingInput", !.pending = "ask"])
  /\ UNCHANGED <<row, console, api, approved, faults>>

\* Mutant: the budget is looked at one hold too late.
HoldTableUnbudgeted(t) ==
  /\ Thinks(t)
  /\ \E h \in Holds :
       /\ hold[h].by = Nil \/ hold[h] = [by |-> Current(t), live |-> TRUE]
       /\ hold' = [hold EXCEPT ![h] = [by |-> Current(t), live |-> TRUE]]
       /\ Copy(t).holdCount <= MaxHolds
       /\ Goon(t, [Copy(t) EXCEPT !.history = @ \cup {h}, !.holdCount = @ + 1],
               tick[t].step + 1)
  /\ UNCHANGED <<row, console, key, booked, unkeyed, approved, faults>>

\* hold_table, within the budget: a new hold, its own again, or a refusal.
HoldTable(t) ==
  /\ Thinks(t)
  /\ \/ \E h \in Holds :
          /\ hold[h].by = Nil \/ hold[h] = [by |-> Current(t), live |-> TRUE]
          /\ Copy(t).holdCount < MaxHolds
          /\ hold' = [hold EXCEPT ![h] = [by |-> Current(t), live |-> TRUE]]
          /\ Goon(t, [Copy(t) EXCEPT !.history = @ \cup {h}, !.holdCount = @ + 1],
                  tick[t].step + 1)
     \/ FailWith(t, Copy(t)) /\ UNCHANGED hold
  /\ UNCHANGED <<row, console, key, booked, unkeyed, approved, faults>>

\* Mutant: confirm_hold is not among the spending tools.
ConfirmHoldUnparked(t, h) ==
  /\ Thinks(t)
  /\ h \in Copy(t).history
  /\ CallConfirm(t, Copy(t), h, tick[t].step + 1)
  /\ UNCHANGED <<row, console, approved, faults>>

\* confirm_hold of a hold it has seen: at once under a mandate, else parked.
ConfirmHold(t, h) ==
  /\ Thinks(t)
  /\ h \in Copy(t).history
  /\ \/ /\ Copy(t).mandated
        /\ CallConfirm(t, Copy(t), h, tick[t].step + 1)
     \/ /\ ~ Copy(t).mandated
        /\ Return(t, [Copy(t) EXCEPT !.status = "awaitingApproval", !.pending = h])
        /\ UNCHANGED api
  /\ UNCHANGED <<row, console, approved, faults>>

-------------------------------------------------------------------------------
(* The API *)

Settle(w, outcome, doomed) ==
  key' = [key EXCEPT ![w].outcome = outcome, ![w].doomed = doomed]

\* executeConfirm: the hold is consumed and booked, refused by what the API checks
\* before it consumes the hold, or refused after: wallet, mandate.
Executes(w, outcome) ==
  LET h == key[w].hold
      mine == hold[h] = [by |-> w, live |-> TRUE]
  IN
  /\ key[w] # Nil /\ key[w].outcome = "running"
  /\ \/ /\ mine
        /\ hold' = [hold EXCEPT ![h].live = FALSE]
        /\ \/ outcome = "booked" /\ booked' = booked \cup {<<w, h>>}
           \/ outcome = "refused" /\ booked' = booked
           \/ outcome = "denied" /\ row[w].mandated /\ booked' = booked
     \/ outcome = "refused" /\ UNCHANGED <<hold, booked>>

Answers == {"booked", "refused", "denied"}

ServeConfirm(w) ==
  /\ \E outcome \in Answers : Executes(w, outcome) /\ Settle(w, outcome, FALSE)
  /\ UNCHANGED <<row, tick, console, unkeyed, approved, faults>>

\* The UPDATE that stores a booking commits and its acknowledgement is lost: the
\* handler takes it for a failure and goes on to delete the row.  Until then a replay
\* finds the booking there.  (A stored refusal stays, and the tick hears an error, as
\* in LoseAnswer.)
StoreLost(w) ==
  /\ faults < MaxFaults
  /\ faults' = faults + 1
  /\ Executes(w, "booked") /\ Settle(w, "booked", TRUE)
  /\ UNCHANGED <<row, tick, console, unkeyed, approved>>

DropKey(w) ==
  /\ key[w] # Nil /\ key[w].doomed
  /\ key' = [key EXCEPT ![w] = Nil]
  /\ unkeyed' = unkeyed \cup (booked \cap {<<w, key[w].hold>>})
  /\ UNCHANGED <<row, tick, console, hold, booked, approved, faults>>

\* An infrastructure failure drops the key: before the booking or after it, where the
\* announcement fails or, once that is out, the storing of the outcome.  A crash leaves
\* it in progress for good.
ServerFails(w) ==
  LET h == key[w].hold
      mine == hold[h] = [by |-> w, live |-> TRUE]
  IN
  /\ key[w] # Nil /\ key[w].outcome = "running"
  /\ faults < MaxFaults
  /\ faults' = faults + 1
  /\ \/ /\ mine
        /\ hold' = [hold EXCEPT ![h].live = FALSE]
        /\ booked' \in {booked, booked \cup {<<w, h>>}}
     \/ UNCHANGED <<hold, booked>>
  /\ \/ key' = [key EXCEPT ![w] = Nil] /\ unkeyed' = unkeyed \cup (booked' \ booked)
     \/ Settle(w, "orphaned", FALSE) /\ UNCHANGED unkeyed
  /\ UNCHANGED <<row, tick, console, approved>>

Expire(h) ==
  /\ hold[h].live
  /\ hold' = [hold EXCEPT ![h].live = FALSE]
  /\ UNCHANGED <<row, tick, console, key, booked, unkeyed, approved, faults>>

-------------------------------------------------------------------------------
(* The specification *)

Fresh ==
  [status |-> "none", pending |-> Nil, history |-> {}, holdCount |-> 0,
   reservation |-> Nil, mandated |-> FALSE]

Init ==
  /\ row = [w \in Workflows |-> Fresh]
  /\ tick = [t \in Ticks |-> NoTick]
  /\ console = [c \in Consoles |-> Nil]
  /\ hold = [h \in Holds |-> [by |-> Nil, live |-> FALSE]]
  /\ key = [w \in Workflows |-> Nil]
  /\ booked = {} /\ unkeyed = {} /\ approved = {}
  /\ faults = 0

Turn(t) ==
  \/ SayText(t) \/ GiveUp(t) \/ LookUp(t) \/ AskUser(t) \/ HoldTable(t)
  \/ \E h \in Holds : ConfirmHold(t, h)

Serve(w) == ServeConfirm(w) \/ DropKey(w)

Work(t) == Claim(t) \/ Resume(t) \/ ReceiveConfirm(t) \/ Turn(t) \/ Commit(t)

Save(c) ==
  \/ \E w \in Workflows : ApproveRead(c, w) \/ AnswerRead(c, w)
  \/ SaveSelect(c) \/ SaveUpdate(c)

Next ==
  \/ \E w \in Workflows : Create(w) \/ Serve(w) \/ StoreLost(w) \/ ServerFails(w)
  \/ \E t \in Ticks : Work(t) \/ Abort(t) \/ LoseAnswer(t)
  \/ \E c \in Consoles : Save(c)
  \/ \E h \in Holds : Expire(h)

Spec == Init /\ [][Next]_vars

-------------------------------------------------------------------------------
(* Properties *)

\* One workflow books once, however often its row is run again: after a crash, a
\* lost answer, a second approval that restores an older copy of the row, or a model
\* that wants another table too.  Beside that, only bookings whose request dropped
\* the key that would have stopped the next: their announcement failed, or they were
\* announced and the storing of their outcome failed or seemed to.
OneBookingPerWorkflow ==
  \A w \in Workflows :
    Cardinality({h \in Holds : <<w, h>> \in booked \ unkeyed}) <= 1

\* Without a mandate, the API is asked to confirm only the hold that the workflow's
\* row has parked and its queue entry releases: never one the model has just named,
\* and never under a row that someone else is changing.
SpendsOnlyWhatIsParked ==
  [][\A w \in Workflows :
       key[w] = Nil /\ key'[w] # Nil /\ ~ row[w].mandated =>
         row[w].status = "pending" /\ row[w].pending = key'[w].hold]_vars

\* A workflow in the queue leaves it: it is parked, done or failed, past ticks that
\* die with it in hand and confirms that never answer.
EveryRunEnds ==
  \A w \in Workflows : row[w].status = "pending" ~> row[w].status # "pending"
================================================================================
