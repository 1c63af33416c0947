------------------------------ MODULE AgentProofs ------------------------------
(***************************************************************************)
(* What is proved of the durable agent and its page, for any number of     *)
(* workflows, holds, ticks and consoles, any budgets and any faults.  A    *)
(* tick's row locks keep its copies in step with the table; the            *)
(* idempotency key keeps a workflow at one booking.                        *)
(***************************************************************************)
EXTENDS AgentChat, FiniteSetTheorems, TLAPS

(* The invariant *)

\* The copies of a batch's rows.
Copies == UNION {[ws -> Row] : ws \in SUBSET Workflows}

TickRow ==
  [batch: Seq(Workflows), copy: Copies, at: {"start", "think", "wait"},
   step: 0..MaxSteps, confirming: Holds \cup {Nil}]

Consulted ==
  [of: Workflows, copy: Row, adds: SUBSET Columns, changed: {Nil} \cup SUBSET Columns]

\* The batch, the copies and the entities in memory keep their shape.
ShapesFit ==
  /\ tick \in [Ticks -> TickRow]
  /\ \A t \in Ticks :
       /\ ToSet(tick[t].batch) \subseteq DOMAIN tick[t].copy
       /\ \A i, j \in 1..Len(tick[t].batch) :
            tick[t].batch[i] = tick[t].batch[j] => i = j
  /\ console = [c \in Consoles |-> console[c]]
  /\ \A c \in Consoles : console[c] \notin {Nil, Answered} => console[c] \in Consulted

\* A row is in one tick at a time, stays in the queue while it is, and is as it was
\* claimed until the tick gets to it.
LocksFit ==
  /\ \A t, u \in Ticks : t # u => DOMAIN tick[t].copy \cap DOMAIN tick[u].copy = {}
  /\ \A t \in Ticks :
       /\ \A w \in DOMAIN tick[t].copy :
            row[w].status = "pending" /\ tick[t].copy[w].mandated = row[w].mandated
       /\ \A i \in 1..Len(tick[t].batch) :
            i > 1 \/ tick[t].at = "start" =>
              tick[t].copy[tick[t].batch[i]] = row[tick[t].batch[i]]

\* What a workflow has booked, unless its key was dropped, is the hold of its key, and a
\* key at work
\* has booked nothing yet.
KeysStop ==
  \A w \in Workflows, h \in Holds :
    <<w, h>> \in booked \ unkeyed =>
      key[w] # Nil /\ key[w].hold = h /\ key[w].outcome # "running"

WInv == TypeOK /\ ShapesFit /\ LocksFit /\ KeysStop

-------------------------------------------------------------------------------
(* Shapes *)

\* The tables: all of the type invariant that is not of ticks and consoles.
TablesFit ==
  /\ row \in [Workflows -> Row]
  /\ hold \in [Holds -> [by: Workflows \cup {Nil}, live: BOOLEAN]]
  /\ key \in [Workflows -> KeyRow \cup {Nil}]
  /\ booked \subseteq Workflows \X Holds /\ unkeyed \subseteq booked
  /\ approved \subseteq Workflows \X (Holds \cup {"ask", Nil})
  /\ faults \in 0..MaxFaults

LEMMA CopyTypes ==
  ASSUME NEW c \in Copies
  PROVE  DOMAIN c \subseteq Workflows /\ \A w \in DOMAIN c : c[w] \in Row
BY DEF Copies

LEMMA CopyEdited ==
  ASSUME NEW c \in Copies, NEW w \in DOMAIN c, NEW r \in Row
  PROVE  LET d == [c EXCEPT ![w] = r] IN
           /\ d \in Copies /\ DOMAIN d = DOMAIN c /\ d[w] = r
           /\ \A v \in DOMAIN c \ {w} : d[v] = c[v]
<1>1. PICK ws \in SUBSET Workflows : c \in [ws -> Row]
  BY DEF Copies
<1>2. [c EXCEPT ![w] = r] \in [ws -> Row]
  BY <1>1
<1>. QED
  BY <1>1, <1>2 DEF Copies

LEMMA TypeSplits == TypeOK => TablesFit
BY DEF TypeOK, TablesFit

LEMMA TypeFollows == (TablesFit /\ ShapesFit) => TypeOK
<1>. SUFFICES ASSUME TablesFit, ShapesFit
              PROVE  TypeOK
  OBVIOUS
<1>1. ASSUME NEW t \in Ticks
      PROVE  /\ ToSet(tick[t].batch) \subseteq DOMAIN tick[t].copy
             /\ \A w \in DOMAIN tick[t].copy : tick[t].copy[w] \in Row
             /\ tick[t].at \in {"start", "think", "wait"}
             /\ tick[t].step \in 0..MaxSteps
             /\ tick[t].confirming \in Holds \cup {Nil}
  <2>1. tick[t] \in TickRow /\ ToSet(tick[t].batch) \subseteq DOMAIN tick[t].copy
    BY DEF ShapesFit
  <2>. QED
    BY <2>1, CopyTypes DEF TickRow
<1>2. \A c \in Consoles : console[c] \notin {Nil, Answered} => console[c].copy \in Row
  BY DEF ShapesFit, Consulted
<1>. QED
  BY <1>1, <1>2 DEF TypeOK, TablesFit

LEMMA TypeFollowsNext == (TablesFit /\ ShapesFit)' => TypeOK'
BY TypeFollows, PTL

\* The workflow a tick is at.
LEMMA CurrentIsClaimed ==
  ASSUME ShapesFit, NEW t \in Ticks, tick[t].batch # <<>>
  PROVE  /\ tick[t] \in TickRow /\ tick[t].batch \in Seq(Workflows) /\ tick[t].copy \in Copies
         /\ Len(tick[t].batch) \in Nat \ {0}
         /\ Current(t) = tick[t].batch[1] /\ Current(t) \in DOMAIN tick[t].copy
         /\ Current(t) \in Workflows
         /\ Copy(t) \in Row
<1>1. tick[t] \in TickRow /\ ToSet(tick[t].batch) \subseteq DOMAIN tick[t].copy
  BY DEF ShapesFit
<1>2. tick[t].batch \in Seq(Workflows) /\ tick[t].copy \in Copies
  BY <1>1 DEF TickRow
<1>3. Len(tick[t].batch) \in Nat \ {0} /\ Current(t) = tick[t].batch[1]
  BY <1>2 DEF Current
<1>4. Current(t) \in ToSet(tick[t].batch)
  BY <1>2, <1>3 DEF ToSet
<1>. QED
  BY <1>1, <1>2, <1>3, <1>4, CopyTypes DEF Copy

-------------------------------------------------------------------------------
(* A tick goes on in its batch *)

\* It edits its copy of the first row, and stays at it or moves to the next.
Advances(t) ==
  /\ tick[t].batch # <<>>
  /\ tick' \in [Ticks -> TickRow]
  /\ \A u \in Ticks \ {t} : tick'[u] = tick[u]
  /\ DOMAIN tick'[t].copy = DOMAIN tick[t].copy
  /\ tick'[t].copy[Current(t)].mandated = Copy(t).mandated
  /\ \A w \in DOMAIN tick[t].copy \ {Current(t)} : tick'[t].copy[w] = tick[t].copy[w]
  /\ \/ tick'[t].batch = tick[t].batch /\ tick'[t].at # "start"
     \/ tick'[t].batch = Tail(tick[t].batch)

LEMMA GoonAdvances ==
  ASSUME ShapesFit, NEW t \in Ticks, tick[t].batch # <<>>, NEW n \in 0..MaxSteps,
         NEW c \in Row, c.mandated = Copy(t).mandated, Goon(t, c, n)
  PROVE  Advances(t)
<1>1. /\ tick \in [Ticks -> TickRow] /\ tick[t] \in TickRow /\ tick[t].copy \in Copies
      /\ Current(t) \in DOMAIN tick[t].copy
  BY CurrentIsClaimed DEF ShapesFit
<1>. DEFINE d == [tick[t].copy EXCEPT ![Current(t)] = c]
            new == [tick[t] EXCEPT !.copy = d, !.at = "think", !.step = n, !.confirming = Nil]
<1>2. /\ d \in Copies /\ DOMAIN d = DOMAIN tick[t].copy /\ d[Current(t)] = c
      /\ \A v \in DOMAIN tick[t].copy \ {Current(t)} : d[v] = tick[t].copy[v]
  BY <1>1, CopyEdited
<1>3. tick' = [tick EXCEPT ![t] = new]
  BY <1>1 DEF Goon, TickRow
<1>. HIDE DEF d
<1>4. new \in TickRow /\ new.copy = d /\ new.batch = tick[t].batch /\ new.at = "think"
  BY <1>1, <1>2 DEF TickRow
<1>. HIDE DEF new
<1>. QED
  BY <1>1, <1>2, <1>3, <1>4 DEF Advances

LEMMA ReturnAdvances ==
  ASSUME ShapesFit, NEW t \in Ticks, tick[t].batch # <<>>,
         NEW c \in Row, c.mandated = Copy(t).mandated, Return(t, c)
  PROVE  Advances(t)
<1>1. /\ tick \in [Ticks -> TickRow] /\ tick[t] \in TickRow /\ tick[t].copy \in Copies
      /\ tick[t].batch \in Seq(Workflows)
      /\ Current(t) \in DOMAIN tick[t].copy
  BY CurrentIsClaimed DEF ShapesFit
<1>. DEFINE d == [tick[t].copy EXCEPT ![Current(t)] = c]
            new == [NoTick EXCEPT !.batch = Tail(tick[t].batch), !.copy = d]
<1>2. /\ d \in Copies /\ DOMAIN d = DOMAIN tick[t].copy /\ d[Current(t)] = c
      /\ \A v \in DOMAIN tick[t].copy \ {Current(t)} : d[v] = tick[t].copy[v]
  BY <1>1, CopyEdited
<1>3. tick' = [tick EXCEPT ![t] = new]
  BY <1>1 DEF Return
<1>. HIDE DEF d
<1>4. Tail(tick[t].batch) \in Seq(Workflows) /\ 0 \in 0..MaxSteps
  BY <1>1, AgentAssumption
<1>5. new \in TickRow /\ new.copy = d /\ new.batch = Tail(tick[t].batch)
  BY <1>2, <1>4 DEF TickRow, NoTick
<1>. HIDE DEF new
<1>. QED
  BY <1>1, <1>2, <1>3, <1>5 DEF Advances

LEMMA FailAdvances ==
  ASSUME ShapesFit, NEW t \in Ticks, tick[t].batch # <<>>,
         NEW c \in Row, c.mandated = Copy(t).mandated, FailWith(t, c)
  PROVE  Advances(t)
<1>. DEFINE failed == [c EXCEPT !.status = "failed"]
<1>1. failed \in Row /\ failed.mandated = c.mandated
  BY DEF Row
<1>2. Return(t, failed)
  BY DEF FailWith
<1>. HIDE DEF failed
<1>. QED
  BY <1>1, <1>2, ReturnAdvances

\* What is behind the head of a batch.
LEMMA TailIs ==
  ASSUME NEW S, NEW s \in Seq(S), s # <<>>
  PROVE  /\ Len(Tail(s)) = Len(s) - 1
         /\ \A i \in 1..Len(Tail(s)) : i + 1 \in 1..Len(s) /\ Tail(s)[i] = s[i + 1]
<1>1. Len(s) \in Nat \ {0}
  OBVIOUS
<1>2. Len(Tail(s)) = Len(s) - 1
  BY <1>1
<1>3. ASSUME NEW i \in 1..Len(Tail(s)) PROVE i + 1 \in 1..Len(s) /\ Tail(s)[i] = s[i + 1]
  <2>1. i \in 1..(Len(s) - 1) /\ i + 1 \in 1..Len(s)
    BY <1>1, <1>2
  <2>. QED
    BY <1>2, <2>1
<1>. QED
  BY <1>2, <1>3

\* The other ticks and the rest of the batch are as they were.
LEMMA AdvanceKeeps ==
  ASSUME ShapesFit, LocksFit, NEW t \in Ticks, Advances(t), UNCHANGED <<row, console>>
  PROVE  ShapesFit' /\ LocksFit'
<1>1. /\ tick[t].batch \in Seq(Workflows) /\ Len(tick[t].batch) \in Nat \ {0}
      /\ Current(t) = tick[t].batch[1] /\ Current(t) \in DOMAIN tick[t].copy
  BY CurrentIsClaimed DEF Advances
<1>. DEFINE b == tick[t].batch
            rest == tick'[t].batch
            shift == IF rest = b THEN 0 ELSE 1
<1>2. /\ (rest = b /\ tick'[t].at # "start") \/ rest = Tail(b)
      /\ Len(rest) \in Nat
      /\ \A i \in 1..Len(rest) : /\ i + shift \in 1..Len(b) /\ rest[i] = b[i + shift]
                                 /\ i > 1 \/ tick'[t].at = "start" => i + shift > 1
  <2>1. CASE rest = b /\ tick'[t].at # "start"
    BY <1>1, <2>1
  <2>2. CASE rest = Tail(b)
    <3>. HIDE DEF b, rest
    <3>0. /\ b \in Seq(Workflows) /\ Len(b) \in Nat \ {0}
      BY <1>1 DEF b
    <3>1. Len(rest) = Len(b) - 1 /\ rest # b
      BY <2>2, <3>0, TailIs
    <3>2. \A i \in 1..Len(rest) : rest[i] = b[i + 1] /\ i + 1 \in 1..Len(b)
      <4>1. b # <<>>
        BY <3>0
      <4>2. \A i \in 1..Len(Tail(b)) : i + 1 \in 1..Len(b) /\ Tail(b)[i] = b[i + 1]
        BY <3>0, <4>1, TailIs, Zenon
      <4>. QED
        BY <2>2, <4>2
    <3>. QED
      BY <2>2, <3>0, <3>1, <3>2 DEF b, rest
  <2>. QED
    BY <2>1, <2>2 DEF Advances
<1>3. shift \in Nat
  OBVIOUS
<1>. HIDE DEF b, rest, shift
<1>4. /\ \A i, j \in 1..Len(b) : b[i] = b[j] => i = j
      /\ \A i \in 1..Len(b) : b[i] \in DOMAIN tick[t].copy
      /\ b[1] = Current(t) /\ 1 \in 1..Len(b)
  BY <1>1 DEF ShapesFit, ToSet, b
<1>5. \A i, j \in 1..Len(rest) : rest[i] = rest[j] => i = j
  <2>. SUFFICES ASSUME NEW i \in 1..Len(rest), NEW j \in 1..Len(rest), rest[i] = rest[j]
                PROVE  i = j
    OBVIOUS
  <2>1. /\ i + shift \in 1..Len(b) /\ rest[i] = b[i + shift]
        /\ j + shift \in 1..Len(b) /\ rest[j] = b[j + shift]
    BY <1>2
  <2>2. i + shift = j + shift
    BY <1>4, <2>1
  <2>. QED
    BY <1>2, <1>3, <2>2
<1>6. ToSet(rest) \subseteq DOMAIN tick'[t].copy
  <2>1. rest \in Seq(Workflows)
    BY DEF Advances, TickRow, rest
  <2>. QED
    BY <1>2, <1>4, <2>1 DEF ToSet, Advances
<1>7. ShapesFit'
  <2>1. ASSUME NEW u \in Ticks
        PROVE  /\ ToSet(tick'[u].batch) \subseteq DOMAIN tick'[u].copy
               /\ \A i, j \in 1..Len(tick'[u].batch) :
                    tick'[u].batch[i] = tick'[u].batch[j] => i = j
    <3>1. CASE u = t
      BY <1>5, <1>6, <3>1 DEF rest
    <3>2. CASE u # t
      BY <3>2 DEF ShapesFit, Advances
    <3>. QED
      BY <3>1, <3>2
  <2>. QED
    BY <2>1 DEF ShapesFit, Advances
<1>8. \A u \in Ticks : DOMAIN tick'[u].copy = DOMAIN tick[u].copy
  BY DEF Advances
<1>9. ASSUME NEW w \in DOMAIN tick[t].copy
      PROVE  row'[w].status = "pending" /\ tick'[t].copy[w].mandated = row'[w].mandated
  BY DEF LocksFit, Advances, Copy
<1>10. ASSUME NEW i \in 1..Len(rest), i > 1 \/ tick'[t].at = "start"
       PROVE  tick'[t].copy[rest[i]] = row'[rest[i]]
  <2>1. /\ i + shift \in 1..Len(b) /\ i + shift > 1 /\ rest[i] = b[i + shift]
    BY <1>2, <1>10
  <2>2. b[i + shift] # Current(t) /\ b[i + shift] \in DOMAIN tick[t].copy
    BY <1>4, <2>1
  <2>3. tick[t].copy[b[i + shift]] = row[b[i + shift]]
    BY <2>1 DEF LocksFit, b
  <2>. QED
    BY <2>1, <2>2, <2>3 DEF Advances
<1>11. ASSUME NEW u \in Ticks
       PROVE  /\ \A w \in DOMAIN tick'[u].copy :
                   row'[w].status = "pending" /\ tick'[u].copy[w].mandated = row'[w].mandated
              /\ \A i \in 1..Len(tick'[u].batch) :
                   i > 1 \/ tick'[u].at = "start" =>
                     tick'[u].copy[tick'[u].batch[i]] = row'[tick'[u].batch[i]]
  <2>1. CASE u = t
    BY <1>8, <1>9, <1>10, <2>1 DEF rest
  <2>2. CASE u # t
    BY <2>2 DEF LocksFit, Advances
  <2>. QED
    BY <2>1, <2>2
<1>12. LocksFit'
  BY <1>8, <1>11 DEF LocksFit
<1>. QED
  BY <1>7, <1>12

-------------------------------------------------------------------------------
(* What a tick does with its workflow *)

\* The key of the tick's workflow is claimed for a hold: the one its row has parked,
\* unless the workflow has a mandate.
ClaimsKey(t) ==
  \E h \in Holds :
    /\ key[Current(t)] = Nil
    /\ key' = [key EXCEPT ![Current(t)] = [hold |-> h, outcome |-> "running", doomed |-> FALSE]]
    /\ Copy(t).mandated \/ (tick[t].at = "start" /\ Copy(t).pending = h)

\* What a turn leaves alone, and what it does to the API's tables.
TurnsApart(t) ==
  /\ UNCHANGED <<row, console, booked, unkeyed, approved>>
  /\ faults' \in 0..MaxFaults
  /\ hold' \in [Holds -> [by: Workflows \cup {Nil}, live: BOOLEAN]]
  /\ key' = key \/ ClaimsKey(t)

LEMMA CallConfirmAdvances ==
  ASSUME TypeOK, ShapesFit, NEW t \in Ticks, tick[t].batch # <<>>,
         NEW c \in Row, c.mandated = Copy(t).mandated,
         NEW h \in Holds, NEW n \in 0..MaxSteps, CallConfirm(t, c, h, n),
         Copy(t).mandated \/ (tick[t].at = "start" /\ Copy(t).pending = h)
  PROVE  /\ Advances(t) /\ UNCHANGED <<hold, booked, unkeyed>>
         /\ key' = key \/ ClaimsKey(t)
<1>. DEFINE w == Current(t)
<1>1. /\ tick \in [Ticks -> TickRow] /\ tick[t] \in TickRow /\ tick[t].copy \in Copies
      /\ w \in DOMAIN tick[t].copy
  BY CurrentIsClaimed DEF ShapesFit
<1>2. CASE /\ key[w] = Nil
           /\ key' = [key EXCEPT ![w] = [hold |-> h, outcome |-> "running", doomed |-> FALSE]]
           /\ tick' = [tick EXCEPT ![t].copy[w] = c, ![t].at = "wait", ![t].step = n,
                                   ![t].confirming = h]
           /\ UNCHANGED <<hold, booked, unkeyed>>
  <2>. DEFINE d == [tick[t].copy EXCEPT ![w] = c]
              new == [tick[t] EXCEPT !.copy = d, !.at = "wait", !.step = n, !.confirming = h]
  <2>1. /\ d \in Copies /\ DOMAIN d = DOMAIN tick[t].copy /\ d[w] = c
        /\ \A v \in DOMAIN tick[t].copy \ {w} : d[v] = tick[t].copy[v]
    BY <1>1, CopyEdited
  <2>2. tick' = [tick EXCEPT ![t] = new]
    BY <1>1, <1>2 DEF TickRow
  <2>. HIDE DEF d
  <2>3. new \in TickRow /\ new.copy = d /\ new.batch = tick[t].batch /\ new.at = "wait"
    BY <1>1, <2>1 DEF TickRow
  <2>. HIDE DEF new
  <2>4. Advances(t)
    BY <1>1, <2>1, <2>2, <2>3 DEF Advances
  <2>5. ClaimsKey(t)
    BY <1>2 DEF ClaimsKey
  <2>. QED
    BY <1>2, <2>4, <2>5
<1>3. CASE /\ key[w].hold = h /\ key[w].outcome = "booked"
           /\ Goon(t, [c EXCEPT !.reservation = h], n)
           /\ UNCHANGED api
  <2>. DEFINE told_ == [c EXCEPT !.reservation = h]
  <2>1. told_ \in Row /\ told_.mandated = c.mandated
    BY DEF Row
  <2>2. Goon(t, told_, n)
    BY <1>3
  <2>. HIDE DEF told_
  <2>3. Advances(t)
    BY <2>1, <2>2, GoonAdvances
  <2>. QED
    BY <1>3, <2>3 DEF api
<1>4. CASE FailWith(t, c) /\ UNCHANGED api
  <2>1. Advances(t)
    BY <1>4, FailAdvances
  <2>. QED
    BY <1>4, <2>1 DEF api
<1>. QED
  BY <1>2, <1>3, <1>4 DEF CallConfirm, KeyFor

LEMMA FaultCounts ==
  ASSUME TypeOK
  PROVE  faults \in 0..MaxFaults /\ (faults < MaxFaults => faults + 1 \in 0..MaxFaults)
BY AgentAssumption DEF TypeOK

LEMMA ResumeTurns ==
  ASSUME TypeOK, ShapesFit, NEW t \in Ticks, Resume(t)
  PROVE  Advances(t) /\ TurnsApart(t)
<1>. DEFINE c == [Copy(t) EXCEPT !.pending = Nil]
<1>1. /\ tick[t].batch # <<>> /\ tick[t].at = "start" /\ Copy(t) \in Row
      /\ UNCHANGED <<row, console, approved, faults>>
      /\ 0 \in 0..MaxSteps
  BY CurrentIsClaimed, AgentAssumption DEF Resume, Running
<1>2. c \in Row /\ c.mandated = Copy(t).mandated
  BY <1>1 DEF Row
<1>3. \/ Copy(t).pending = Nil /\ Goon(t, c, 0) /\ UNCHANGED api
      \/ Copy(t).pending = "ask" /\ FailWith(t, c) /\ UNCHANGED api
      \/ Copy(t).pending \notin {Nil, "ask"} /\ CallConfirm(t, c, Copy(t).pending, 0)
  BY DEF Resume
<1>. HIDE DEF c
<1>4. faults' \in 0..MaxFaults /\ hold \in [Holds -> [by: Workflows \cup {Nil}, live: BOOLEAN]]
  BY <1>1, FaultCounts DEF TypeOK
<1>5. CASE Copy(t).pending = Nil /\ Goon(t, c, 0) /\ UNCHANGED api
  BY <1>1, <1>2, <1>4, <1>5, GoonAdvances DEF TurnsApart, api
<1>6. CASE Copy(t).pending = "ask" /\ FailWith(t, c) /\ UNCHANGED api
  BY <1>1, <1>2, <1>4, <1>6, FailAdvances DEF TurnsApart, api
<1>7. CASE Copy(t).pending \notin {Nil, "ask"} /\ CallConfirm(t, c, Copy(t).pending, 0)
  <2>1. Copy(t).pending \in Holds
    BY <1>1, <1>7 DEF Row
  <2>2. /\ Advances(t) /\ UNCHANGED <<hold, booked, unkeyed>>
        /\ key' = key \/ ClaimsKey(t)
    BY <1>1, <1>2, <1>7, <2>1, CallConfirmAdvances
  <2>. QED
    BY <1>1, <1>4, <2>2 DEF TurnsApart
<1>. QED
  BY <1>3, <1>5, <1>6, <1>7

LEMMA ReceiveTurns ==
  ASSUME TypeOK, ShapesFit, NEW t \in Ticks, ReceiveConfirm(t) \/ LoseAnswer(t)
  PROVE  Advances(t) /\ TurnsApart(t)
<1>1. /\ tick[t].batch # <<>> /\ Copy(t) \in Row /\ tick[t].step \in 0..MaxSteps
      /\ Current(t) \in Workflows
      /\ UNCHANGED <<row, console, approved, api>> /\ faults' \in 0..MaxFaults
  BY CurrentIsClaimed, FaultCounts DEF ReceiveConfirm, LoseAnswer, Running, TickRow
<1>2. \/ key[Current(t)] # Nil
         /\ Goon(t, [Copy(t) EXCEPT !.reservation = key[Current(t)].hold], tick[t].step)
      \/ Goon(t, Copy(t), tick[t].step)
      \/ FailWith(t, Copy(t))
  BY DEF ReceiveConfirm, LoseAnswer
<1>3. Advances(t)
  <2>1. CASE key[Current(t)] # Nil
             /\ Goon(t, [Copy(t) EXCEPT !.reservation = key[Current(t)].hold], tick[t].step)
    <3>. DEFINE c == [Copy(t) EXCEPT !.reservation = key[Current(t)].hold]
    <3>1. key[Current(t)].hold \in Holds
      BY <1>1, <2>1 DEF TypeOK, KeyRow
    <3>2. c \in Row /\ c.mandated = Copy(t).mandated
      BY <1>1, <3>1 DEF Row
    <3>3. Goon(t, c, tick[t].step)
      BY <2>1
    <3>. HIDE DEF c
    <3>. QED
      BY <1>1, <3>2, <3>3, GoonAdvances
  <2>. QED
    BY <1>1, <1>2, <2>1, GoonAdvances, FailAdvances
<1>. QED
  BY <1>1, <1>3 DEF TurnsApart, api, TypeOK

LEMMA TurnTurns ==
  ASSUME TypeOK, ShapesFit, NEW t \in Ticks, Turn(t)
  PROVE  Advances(t) /\ TurnsApart(t)
<1>1. /\ tick[t].batch # <<>> /\ Copy(t) \in Row /\ tick[t].step \in 0..MaxSteps
      /\ Current(t) \in Workflows
      /\ UNCHANGED <<row, console, approved, faults>>
      /\ faults' \in 0..MaxFaults
      /\ hold \in [Holds -> [by: Workflows \cup {Nil}, live: BOOLEAN]]
  BY CurrentIsClaimed, FaultCounts
     DEF Turn, SayText, GiveUp, LookUp, AskUser, HoldTable, ConfirmHold, Thinks, Running,
         TickRow, TypeOK
<1>2. tick[t].step < MaxSteps => tick[t].step + 1 \in 0..MaxSteps
  BY <1>1, AgentAssumption
<1>3. CASE SayText(t) \/ AskUser(t) \/ GiveUp(t) \/ LookUp(t)
  <2>1. UNCHANGED api
    BY <1>3 DEF SayText, AskUser, GiveUp, LookUp
  <2>. DEFINE done_ == [Copy(t) EXCEPT !.status = "done"]
              asked == [Copy(t) EXCEPT !.status = "awaitingInput", !.pending = "ask"]
  <2>2. /\ done_ \in Row /\ done_.mandated = Copy(t).mandated
        /\ asked \in Row /\ asked.mandated = Copy(t).mandated
    BY <1>1 DEF Row
  <2>3. \/ Return(t, done_) \/ Return(t, asked) \/ FailWith(t, Copy(t))
        \/ tick[t].step < MaxSteps /\ Goon(t, Copy(t), tick[t].step + 1)
    BY <1>3 DEF SayText, AskUser, GiveUp, LookUp, Thinks
  <2>. HIDE DEF done_, asked
  <2>4. Advances(t)
    BY <1>1, <1>2, <2>2, <2>3, ReturnAdvances, FailAdvances, GoonAdvances
  <2>. QED
    BY <1>1, <2>1, <2>4 DEF TurnsApart, api
<1>4. CASE HoldTable(t)
  <2>1. UNCHANGED <<key, booked, unkeyed>>
    BY <1>4 DEF HoldTable
  <2>2. CASE FailWith(t, Copy(t)) /\ UNCHANGED hold
    BY <1>1, <2>1, <2>2, FailAdvances DEF TurnsApart
  <2>3. CASE \E h \in Holds :
               /\ Copy(t).holdCount < MaxHolds
               /\ hold' = [hold EXCEPT ![h] = [by |-> Current(t), live |-> TRUE]]
               /\ Goon(t, [Copy(t) EXCEPT !.history = @ \cup {h}, !.holdCount = @ + 1],
                       tick[t].step + 1)
    <3>1. PICK h \in Holds :
                 /\ Copy(t).holdCount < MaxHolds
                 /\ hold' = [hold EXCEPT ![h] = [by |-> Current(t), live |-> TRUE]]
                 /\ Goon(t, [Copy(t) EXCEPT !.history = @ \cup {h}, !.holdCount = @ + 1],
                         tick[t].step + 1)
      BY <2>3
    <3>. DEFINE c == [Copy(t) EXCEPT !.history = @ \cup {h}, !.holdCount = @ + 1]
    <3>2. Copy(t).holdCount + 1 \in 0..MaxHolds
      BY <1>1, <3>1, AgentAssumption DEF Row
    <3>3. c \in Row /\ c.mandated = Copy(t).mandated
      BY <1>1, <3>2 DEF Row
    <3>4. Goon(t, c, tick[t].step + 1)
      BY <3>1
    <3>. HIDE DEF c
    <3>5. tick[t].step < MaxSteps
      BY <1>4 DEF HoldTable, Thinks
    <3>6. Advances(t)
      BY <1>1, <1>2, <3>3, <3>4, <3>5, GoonAdvances
    <3>7. hold' \in [Holds -> [by: Workflows \cup {Nil}, live: BOOLEAN]]
      BY <1>1, <3>1
    <3>. QED
      BY <1>1, <2>1, <3>6, <3>7 DEF TurnsApart
  <2>. QED
    BY <1>4, <2>2, <2>3 DEF HoldTable
<1>5. ASSUME NEW h \in Holds, ConfirmHold(t, h)
      PROVE  Advances(t) /\ TurnsApart(t)
  <2>1. tick[t].step < MaxSteps
    BY <1>5 DEF ConfirmHold, Thinks
  <2>2. CASE Copy(t).mandated /\ CallConfirm(t, Copy(t), h, tick[t].step + 1)
    <3>. DEFINE n == tick[t].step + 1
    <3>1. n \in 0..MaxSteps /\ CallConfirm(t, Copy(t), h, n)
      BY <1>2, <2>1, <2>2
    <3>2. Copy(t).mandated \/ (tick[t].at = "start" /\ Copy(t).pending = h)
      BY <2>2
    <3>. HIDE DEF n
    <3>3. /\ Advances(t) /\ UNCHANGED <<hold, booked, unkeyed>>
          /\ key' = key \/ ClaimsKey(t)
      BY <1>1, <3>1, <3>2, CallConfirmAdvances, Zenon
    <3>. QED
      BY <1>1, <3>3 DEF TurnsApart
  <2>3. CASE /\ Return(t, [Copy(t) EXCEPT !.status = "awaitingApproval", !.pending = h])
             /\ UNCHANGED api
    <3>. DEFINE parked == [Copy(t) EXCEPT !.status = "awaitingApproval", !.pending = h]
    <3>1. parked \in Row /\ parked.mandated = Copy(t).mandated /\ Return(t, parked)
      BY <1>1, <2>3 DEF Row
    <3>. HIDE DEF parked
    <3>2. Advances(t)
      BY <1>1, <3>1, ReturnAdvances
    <3>. QED
      BY <1>1, <2>3, <3>2 DEF TurnsApart, api
  <2>. QED
    BY <1>5, <2>2, <2>3 DEF ConfirmHold
<1>. QED
  BY <1>3, <1>4, <1>5 DEF Turn

LEMMA TurnKeeps ==
  ASSUME WInv, NEW t \in Ticks,
         \/ Resume(t) \/ ReceiveConfirm(t) \/ LoseAnswer(t) \/ Turn(t)
  PROVE  WInv' /\ Advances(t) /\ TurnsApart(t)
<1>1. Advances(t) /\ TurnsApart(t)
  BY ResumeTurns, ReceiveTurns, TurnTurns DEF WInv
<1>2. ShapesFit' /\ LocksFit'
  BY <1>1, AdvanceKeeps DEF WInv, TurnsApart
<1>3. TablesFit /\ Current(t) \in Workflows
  BY <1>1, TypeSplits, CurrentIsClaimed DEF WInv, Advances
<1>4. ASSUME NEW h \in Holds
      PROVE  /\ [hold |-> h, outcome |-> "running", doomed |-> FALSE] \in KeyRow
             /\ [hold |-> h, outcome |-> "running", doomed |-> FALSE] # Nil
  <2>1. [hold |-> h, outcome |-> "running", doomed |-> FALSE] \in KeyRow
    BY DEF KeyRow, Outcomes
  <2>. QED
    BY <2>1, AgentAssumption
<1>5. key' \in [Workflows -> KeyRow \cup {Nil}]
  BY <1>1, <1>3, <1>4 DEF TablesFit, TurnsApart, ClaimsKey
<1>6. TablesFit'
  BY <1>1, <1>3, <1>5 DEF TablesFit, TurnsApart
<1>7. KeysStop'
  BY <1>1, <1>3 DEF WInv, KeysStop, TablesFit, TurnsApart, ClaimsKey
<1>. QED
  BY <1>1, <1>2, <1>6, <1>7, TypeFollowsNext DEF WInv

-------------------------------------------------------------------------------
(* The transactions of a tick *)

\* A tick that is let go of holds nothing.
LEMMA NoTickType ==
  NoTick \in TickRow /\ DOMAIN NoTick.copy = {} /\ ToSet(NoTick.batch) = {}
  /\ Len(NoTick.batch) = 0
<1>1. <<>> \in [{} -> Row] /\ <<>> \in Seq(Workflows) /\ Len(<<>>) = 0
  OBVIOUS
<1>2. <<>> \in Copies
  BY <1>1 DEF Copies
<1>3. 0 \in 0..MaxSteps
  BY AgentAssumption
<1>. QED
  BY <1>1, <1>2, <1>3 DEF NoTick, TickRow, ToSet

LEMMA ReleaseKeeps ==
  ASSUME WInv, NEW t \in Ticks, tick' = [tick EXCEPT ![t] = NoTick], UNCHANGED console,
         \A u \in Ticks \ {t} : \A w \in DOMAIN tick[u].copy : row'[w] = row[w]
  PROVE  ShapesFit' /\ LocksFit'
<1>1. /\ tick' \in [Ticks -> TickRow] /\ tick'[t] = NoTick
      /\ \A u \in Ticks \ {t} : tick'[u] = tick[u]
  BY NoTickType DEF WInv, ShapesFit
<1>2. /\ DOMAIN tick'[t].copy = {} /\ ToSet(tick'[t].batch) = {} /\ Len(tick'[t].batch) = 0
  BY <1>1, NoTickType
<1>3. \A u \in Ticks : \A i \in 1..Len(tick[u].batch) :
        tick[u].batch[i] \in DOMAIN tick[u].copy
  BY DEF WInv, ShapesFit, TickRow, ToSet
<1>4. ShapesFit'
  BY <1>1, <1>2 DEF WInv, ShapesFit
<1>5. LocksFit'
  BY <1>1, <1>2, <1>3 DEF WInv, LocksFit
<1>. QED
  BY <1>4, <1>5

LEMMA AbortKeeps ==
  ASSUME WInv, NEW t \in Ticks, Abort(t)
  PROVE  WInv' /\ key' = key
<1>1. /\ tick' = [tick EXCEPT ![t] = NoTick] /\ UNCHANGED <<row, console, api, approved>>
      /\ faults' \in 0..MaxFaults
  BY FaultCounts DEF Abort, WInv
<1>2. ShapesFit' /\ LocksFit'
  BY <1>1, ReleaseKeeps
<1>3. TablesFit' /\ KeysStop'
  BY <1>1, TypeSplits DEF WInv, TablesFit, KeysStop, api
<1>. QED
  BY <1>1, <1>2, <1>3, TypeFollowsNext DEF WInv, api

LEMMA CommitKeeps ==
  ASSUME WInv, NEW t \in Ticks, Commit(t)
  PROVE  WInv' /\ key' = key
<1>1. /\ row' = [w \in Workflows |->
                   IF w \in DOMAIN tick[t].copy THEN tick[t].copy[w] ELSE row[w]]
      /\ tick' = [tick EXCEPT ![t] = NoTick] /\ UNCHANGED <<console, api, approved, faults>>
  BY DEF Commit
<1>2. \A u \in Ticks : tick[u].copy \in Copies
  BY DEF WInv, ShapesFit, TickRow
<1>3. \A u \in Ticks : /\ DOMAIN tick[u].copy \subseteq Workflows
                       /\ \A w \in DOMAIN tick[u].copy : tick[u].copy[w] \in Row
  BY <1>2, CopyTypes
<1>4. row' \in [Workflows -> Row]
  BY <1>1, <1>3 DEF WInv, TypeOK
<1>5. \A u \in Ticks \ {t} : \A w \in DOMAIN tick[u].copy : row'[w] = row[w]
  BY <1>1, <1>3 DEF WInv, LocksFit
<1>6. ShapesFit' /\ LocksFit'
  BY <1>1, <1>5, ReleaseKeeps
<1>7. TablesFit' /\ KeysStop'
  BY <1>1, <1>4, TypeSplits DEF WInv, TablesFit, KeysStop, api
<1>. QED
  BY <1>1, <1>6, <1>7, TypeFollowsNext DEF WInv, api

\* The rows of a new batch are nobody else's, and in the queue.
LEMMA ClaimKeeps ==
  ASSUME WInv, NEW t \in Ticks, Claim(t)
  PROVE  WInv' /\ key' = key
<1>1. /\ tick[t] = NoTick /\ UNCHANGED <<row, console, api, approved, faults>>
      /\ \E ws \in SUBSET Claimable :
           \E q \in SetToSeqs(ws) :
             tick' = [tick EXCEPT ![t] = [NoTick EXCEPT !.batch = q,
                                                        !.copy = [w \in ws |-> row[w]]]]
  BY DEF Claim
<1>2. PICK ws \in SUBSET Claimable : \E q \in SetToSeqs(ws) :
        tick' = [tick EXCEPT ![t] = [NoTick EXCEPT !.batch = q, !.copy = [w \in ws |-> row[w]]]]
  BY <1>1
<1>3. PICK q \in SetToSeqs(ws) :
        tick' = [tick EXCEPT ![t] = [NoTick EXCEPT !.batch = q, !.copy = [w \in ws |-> row[w]]]]
  BY <1>2
<1>4. /\ ws \subseteq Workflows
      /\ \A w \in ws : /\ row[w].status = "pending"
                       /\ \A u \in Ticks : w \notin DOMAIN tick[u].copy
  BY DEF Claimable, Locked
<1>5. Cardinality(ws) \in Nat
  BY <1>4, AgentAssumption, FS_Subset, FS_CardinalityType
<1>. DEFINE n == Cardinality(ws)
<1>6. /\ q \in [1..n -> ws]
      /\ \A i, j \in 1..n : i # j => q[i] # q[j]
  BY DEF SetToSeqs
<1>. HIDE DEF n
<1>7. /\ q \in Seq(Workflows) /\ Len(q) = n /\ n \in Nat
      /\ \A i \in 1..n : q[i] \in ws
  <2>1. n \in Nat
    BY <1>5 DEF n
  <2>2. q \in [1..n -> Workflows]
    BY <1>4, <1>6
  <2>3. q \in Seq(Workflows) /\ Len(q) = n
    BY <2>1, <2>2
  <2>. QED
    BY <1>6, <2>1, <2>3
<1>. DEFINE copy == [w \in ws |-> row[w]]
            new == [NoTick EXCEPT !.batch = q, !.copy = copy]
<1>8. copy \in Copies /\ DOMAIN copy = ws /\ \A w \in ws : copy[w] = row[w]
  <2>1. copy \in [ws -> Row]
    BY <1>4 DEF WInv, TypeOK
  <2>. QED
    BY <1>4, <2>1 DEF Copies
<1>9. tick' = [tick EXCEPT ![t] = new]
  BY <1>3
<1>. HIDE DEF copy
<1>10. new \in TickRow /\ new.batch = q /\ new.copy = copy
  BY <1>7, <1>8, NoTickType DEF NoTick, TickRow
<1>. HIDE DEF new
<1>11. /\ tick' \in [Ticks -> TickRow] /\ tick'[t] = new
       /\ \A u \in Ticks \ {t} : tick'[u] = tick[u]
  BY <1>9, <1>10 DEF WInv, ShapesFit
<1>12. ToSet(q) \subseteq ws
  BY <1>7 DEF ToSet
<1>13. ShapesFit'
  <2>1. /\ ToSet(tick'[t].batch) \subseteq DOMAIN tick'[t].copy
        /\ \A i, j \in 1..Len(tick'[t].batch) :
             tick'[t].batch[i] = tick'[t].batch[j] => i = j
    BY <1>6, <1>7, <1>8, <1>10, <1>11, <1>12
  <2>. QED
    BY <1>1, <1>11, <2>1 DEF WInv, ShapesFit
<1>14. LocksFit'
  <2>1. /\ \A w \in DOMAIN tick'[t].copy :
             row[w].status = "pending" /\ tick'[t].copy[w].mandated = row[w].mandated
        /\ \A i \in 1..Len(tick'[t].batch) :
             tick'[t].copy[tick'[t].batch[i]] = row[tick'[t].batch[i]]
        /\ \A u \in Ticks \ {t} : DOMAIN tick'[t].copy \cap DOMAIN tick'[u].copy = {}
    BY <1>4, <1>7, <1>8, <1>10, <1>11
  <2>. QED
    BY <1>1, <1>11, <2>1 DEF WInv, LocksFit
<1>15. TablesFit' /\ KeysStop'
  BY <1>1, TypeSplits DEF WInv, TablesFit, KeysStop, api
<1>. QED
  BY <1>1, <1>13, <1>14, <1>15, TypeFollowsNext DEF WInv, api

-------------------------------------------------------------------------------
(* The users *)

\* Rows that no tick has may change as they like.
LEMMA UnlockedChange ==
  ASSUME WInv, row' \in [Workflows -> Row], UNCHANGED <<tick, api, faults>>,
         approved' \subseteq Workflows \X (Holds \cup {"ask", Nil}),
         \A t \in Ticks : \A w \in DOMAIN tick[t].copy : row'[w] = row[w],
         console' = [c \in Consoles |-> console'[c]],
         \A c \in Consoles : console'[c] \notin {Nil, Answered} => console'[c] \in Consulted
  PROVE  WInv' /\ key' = key
<1>1. \A t \in Ticks : \A i \in 1..Len(tick[t].batch) : tick[t].batch[i] \in DOMAIN tick[t].copy
  BY DEF WInv, ShapesFit, TickRow, ToSet
<1>2. ShapesFit' /\ LocksFit'
  BY <1>1 DEF WInv, ShapesFit, LocksFit
<1>3. TablesFit' /\ KeysStop'
  BY TypeSplits DEF WInv, TablesFit, KeysStop, api
<1>. QED
  BY <1>2, <1>3, TypeFollowsNext DEF WInv, api

LEMMA CreateKeeps ==
  ASSUME WInv, NEW w \in Workflows, Create(w)
  PROVE  WInv' /\ key' = key
<1>1. PICK m \in BOOLEAN :
        /\ row[w].status = "none"
        /\ row' = [row EXCEPT ![w].status = "pending", ![w].mandated = m]
        /\ UNCHANGED <<tick, console, api, approved, faults>>
  BY DEF Create
<1>2. row \in [Workflows -> Row]
  BY DEF WInv, TypeOK
<1>. DEFINE new == [row[w] EXCEPT !.status = "pending", !.mandated = m]
<1>3. row' = [row EXCEPT ![w] = new]
  BY <1>1, <1>2 DEF Row
<1>4. new \in Row
  BY <1>2 DEF Row
<1>. HIDE DEF new
<1>5. row' \in [Workflows -> Row] /\ \A v \in Workflows \ {w} : row'[v] = row[v]
  BY <1>2, <1>3, <1>4
<1>6. \A t \in Ticks : tick[t].copy \in Copies /\ w \notin DOMAIN tick[t].copy
  BY <1>1 DEF WInv, ShapesFit, TickRow, LocksFit
<1>7. \A t \in Ticks : \A v \in DOMAIN tick[t].copy : row'[v] = row[v]
  BY <1>5, <1>6, CopyTypes
<1>8. /\ console' = [c \in Consoles |-> console'[c]]
      /\ \A c \in Consoles : console'[c] \notin {Nil, Answered} => console'[c] \in Consulted
  BY <1>1 DEF WInv, ShapesFit
<1>9. approved' \subseteq Workflows \X (Holds \cup {"ask", Nil})
  BY <1>1 DEF WInv, TypeOK
<1>. QED
  BY <1>1, <1>5, <1>7, <1>8, <1>9, UnlockedChange

\* What a console has read and edited.
LEMMA ConsoleKeeps ==
  ASSUME WInv, NEW c \in Consoles, NEW new \in Consulted \cup {Answered},
         console' = [console EXCEPT ![c] = new]
  PROVE  /\ console' = [d \in Consoles |-> console'[d]]
         /\ \A d \in Consoles : console'[d] \notin {Nil, Answered} => console'[d] \in Consulted
BY DEF WInv, ShapesFit

LEMMA ReadKeeps ==
  ASSUME WInv, NEW c \in Consoles, NEW w \in Workflows, ApproveRead(c, w) \/ AnswerRead(c, w)
  PROVE  WInv' /\ key' = key
<1>1. row[w] \in Row
  BY DEF WInv, TypeOK
<1>. DEFINE approving == [row[w] EXCEPT !.status = "pending"]
            answering == [row[w] EXCEPT !.status = "pending", !.pending = Nil]
<1>2. approving \in Row /\ answering \in Row
  BY <1>1 DEF Row
<1>3. \E copy \in {approving, answering}, adds \in SUBSET Columns :
        console' = [console EXCEPT ![c] =
                      [of |-> w, copy |-> copy, adds |-> adds, changed |-> Nil]]
  BY DEF ApproveRead, AnswerRead, Columns
<1>. HIDE DEF approving, answering
<1>4. PICK copy \in {approving, answering}, adds \in SUBSET Columns :
        console' = [console EXCEPT ![c] =
                      [of |-> w, copy |-> copy, adds |-> adds, changed |-> Nil]]
  BY <1>3
<1>5. [of |-> w, copy |-> copy, adds |-> adds, changed |-> Nil] \in Consulted
  BY <1>2, <1>4 DEF Consulted
<1>6. /\ console' = [d \in Consoles |-> console'[d]]
      /\ \A d \in Consoles : console'[d] \notin {Nil, Answered} => console'[d] \in Consulted
  BY <1>4, <1>5, ConsoleKeeps
<1>7. UNCHANGED <<row, tick, api, faults>>
  BY DEF ApproveRead, AnswerRead
<1>8. approved' \subseteq Workflows \X (Holds \cup {"ask", Nil})
  <2>1. row[w].pending \in Holds \cup {"ask", Nil}
    BY <1>1 DEF Row
  <2>2. approved' \in {approved, approved \cup {<<w, row[w].pending>>}}
    BY DEF ApproveRead, AnswerRead
  <2>. QED
    BY <2>1, <2>2 DEF WInv, TypeOK
<1>9. row' \in [Workflows -> Row]
  BY <1>7 DEF WInv, TypeOK
<1>. QED
  BY <1>6, <1>7, <1>8, <1>9, UnlockedChange

LEMMA SaveSelectKeeps ==
  ASSUME WInv, NEW c \in Consoles, SaveSelect(c)
  PROVE  WInv' /\ key' = key
<1>. DEFINE columns ==
              console[c].adds \cup {f \in Columns : console[c].copy[f] # row[console[c].of][f]}
            new == [console[c] EXCEPT !.changed = columns]
<1>1. console[c] \in Consulted
  BY DEF SaveSelect, WInv, ShapesFit
<1>2. console' = [console EXCEPT ![c] = new] /\ UNCHANGED <<row, tick, api, approved, faults>>
  BY <1>1 DEF SaveSelect, Consulted
<1>3. columns \in SUBSET Columns
  BY <1>1 DEF Consulted
<1>. HIDE DEF columns
<1>4. new \in Consulted
  BY <1>1, <1>3 DEF Consulted
<1>. HIDE DEF new
<1>5. /\ console' = [d \in Consoles |-> console'[d]]
      /\ \A d \in Consoles : console'[d] \notin {Nil, Answered} => console'[d] \in Consulted
  BY <1>2, <1>4, ConsoleKeeps
<1>6. row' \in [Workflows -> Row] /\ approved' \subseteq Workflows \X (Holds \cup {"ask", Nil})
  BY <1>2 DEF WInv, TypeOK
<1>. QED
  BY <1>2, <1>5, <1>6, UnlockedChange

\* A save waits for the lock of the row that it changes.
LEMMA SaveUpdateKeeps ==
  ASSUME WInv, NEW c \in Consoles, SaveUpdate(c)
  PROVE  WInv' /\ key' = key
<1>. DEFINE w == console[c].of
            changed == console[c].changed
            new == [f \in Columns |-> IF f \in changed THEN console[c].copy[f] ELSE row[w][f]]
<1>1. /\ console[c] \in Consulted /\ w \in Workflows /\ console[c].copy \in Row
      /\ row \in [Workflows -> Row] /\ row[w] \in Row
  BY DEF SaveUpdate, WInv, ShapesFit, TypeOK, Consulted
<1>2. /\ changed # {} => \A t \in Ticks : w \notin DOMAIN tick[t].copy
      /\ row' = [row EXCEPT ![w] = new]
      /\ console' = [console EXCEPT ![c] = Answered]
      /\ UNCHANGED <<tick, api, approved, faults>>
  BY <1>1 DEF SaveUpdate, Locked
<1>3. new \in Row /\ (changed = {} => new = row[w])
  <2>1. \A r \in Row : r = [f \in Columns |-> r[f]]
    BY DEF Row, Columns
  <2>2. changed = {} => new = row[w]
    BY <1>1, <2>1
  <2>3. ASSUME NEW f \in Columns
        PROVE  new[f] = console[c].copy[f] \/ new[f] = row[w][f]
    OBVIOUS
  <2>4. /\ \A f \in Columns : f \in DOMAIN new
        /\ new = [f \in Columns |-> new[f]]
    OBVIOUS
  <2>. HIDE DEF new
  <2>5. new = [status |-> new["status"], pending |-> new["pending"], history |-> new["history"],
               holdCount |-> new["holdCount"], reservation |-> new["reservation"],
               mandated |-> new["mandated"]]
    BY <2>4 DEF Columns
  <2>6. new \in Row
    BY <1>1, <2>3, <2>5 DEF Row, Columns
  <2>. QED
    BY <2>2, <2>6
<1>. HIDE DEF new
<1>4. row' \in [Workflows -> Row] /\ row'[w] = new /\ \A v \in Workflows \ {w} : row'[v] = row[v]
  BY <1>1, <1>2, <1>3
<1>5. \A t \in Ticks : tick[t].copy \in Copies
  BY DEF WInv, ShapesFit, TickRow
<1>6. \A t \in Ticks : \A v \in DOMAIN tick[t].copy : row'[v] = row[v]
  BY <1>2, <1>3, <1>4, <1>5, CopyTypes
<1>7. /\ console' = [d \in Consoles |-> console'[d]]
      /\ \A d \in Consoles : console'[d] \notin {Nil, Answered} => console'[d] \in Consulted
  BY <1>2, ConsoleKeeps
<1>8. approved' \subseteq Workflows \X (Holds \cup {"ask", Nil})
  BY <1>2 DEF WInv, TypeOK
<1>. QED
  BY <1>2, <1>4, <1>6, <1>7, <1>8, UnlockedChange

-------------------------------------------------------------------------------
(* The API *)

LEMMA ServerKeeps ==
  ASSUME WInv, UNCHANGED <<row, tick, console, approved>>, faults' \in 0..MaxFaults,
         hold' \in [Holds -> [by: Workflows \cup {Nil}, live: BOOLEAN]],
         key' \in [Workflows -> KeyRow \cup {Nil}],
         booked' \subseteq Workflows \X Holds, unkeyed' \subseteq booked', KeysStop'
  PROVE  WInv'
<1>1. ShapesFit' /\ LocksFit'
  BY DEF WInv, ShapesFit, LocksFit
<1>2. TablesFit'
  BY TypeSplits DEF WInv, TablesFit
<1>. QED
  BY <1>1, <1>2, TypeFollowsNext DEF WInv

\* A hold is consumed, or expires.
LEMMA HoldEnds ==
  ASSUME WInv, NEW h \in Holds
  PROVE  [hold EXCEPT ![h].live = FALSE] \in [Holds -> [by: Workflows \cup {Nil}, live: BOOLEAN]]
BY DEF WInv, TypeOK

\* The key of a request that the API works on.
LEMMA RunningKey ==
  ASSUME WInv, NEW w \in Workflows, key[w] # Nil, key[w].outcome = "running"
  PROVE  /\ key[w] \in KeyRow /\ key[w].hold \in Holds
         /\ \A h \in Holds : <<w, h>> \notin booked \ unkeyed
         /\ \A o \in Outcomes, b \in BOOLEAN :
              Settle(w, o, b) =>
                /\ key' \in [Workflows -> KeyRow \cup {Nil}]
                /\ key'[w] # Nil /\ key'[w].hold = key[w].hold /\ key'[w].outcome = o
                /\ \A v \in Workflows \ {w} : key'[v] = key[v]
<1>1. key \in [Workflows -> KeyRow \cup {Nil}] /\ key[w] \in KeyRow /\ key[w].hold \in Holds
  BY DEF WInv, TypeOK, KeyRow
<1>2. \A h \in Holds : <<w, h>> \notin booked \ unkeyed
  BY DEF WInv, KeysStop
<1>3. ASSUME NEW o \in Outcomes, NEW b \in BOOLEAN, Settle(w, o, b)
      PROVE  /\ key' \in [Workflows -> KeyRow \cup {Nil}]
             /\ key'[w] # Nil /\ key'[w].hold = key[w].hold /\ key'[w].outcome = o
             /\ \A v \in Workflows \ {w} : key'[v] = key[v]
  <2>. DEFINE new == [key[w] EXCEPT !.outcome = o, !.doomed = b]
  <2>1. new \in KeyRow /\ new.hold = key[w].hold /\ new.outcome = o
    BY <1>1 DEF KeyRow
  <2>2. key' = [key EXCEPT ![w] = new]
    BY <1>1, <1>3 DEF Settle, KeyRow
  <2>. HIDE DEF new
  <2>3. key' \in [Workflows -> KeyRow \cup {Nil}] /\ key'[w] = new
        /\ \A v \in Workflows \ {w} : key'[v] = key[v]
    BY <1>1, <2>1, <2>2
  <2>4. new # Nil
    BY <2>1, AgentAssumption
  <2>. QED
    BY <2>1, <2>3, <2>4
<1>. QED
  BY <1>1, <1>2, <1>3

\* The API settles a key, with or without a booking.
LEMMA SettledKeeps ==
  ASSUME WInv, NEW w \in Workflows, key[w] # Nil, key[w].outcome = "running",
         NEW o \in Outcomes \ {"running"}, NEW b \in BOOLEAN, Settle(w, o, b),
         booked' \in {booked, booked \cup {<<w, key[w].hold>>}}, UNCHANGED unkeyed
  PROVE  /\ key' \in [Workflows -> KeyRow \cup {Nil}]
         /\ booked' \subseteq Workflows \X Holds /\ unkeyed' \subseteq booked' /\ KeysStop'
         /\ key'[w] # Nil /\ \A v \in Workflows \ {w} : key'[v] = key[v]
<1>1. /\ key[w].hold \in Holds
      /\ \A h \in Holds : <<w, h>> \notin booked \ unkeyed
      /\ key' \in [Workflows -> KeyRow \cup {Nil}]
      /\ key'[w] # Nil /\ key'[w].hold = key[w].hold /\ key'[w].outcome = o
      /\ \A v \in Workflows \ {w} : key'[v] = key[v]
  BY RunningKey
<1>2. booked' \subseteq Workflows \X Holds /\ unkeyed' \subseteq booked'
  BY <1>1 DEF WInv, TypeOK
<1>3. ASSUME NEW v \in Workflows, NEW h \in Holds, <<v, h>> \in booked' \ unkeyed'
      PROVE  key'[v] # Nil /\ key'[v].hold = h /\ key'[v].outcome # "running"
  <2>1. CASE v = w
    <3>1. <<v, h>> = <<w, key[w].hold>>
      BY <1>1, <1>3, <2>1
    <3>. QED
      BY <1>1, <2>1, <3>1
  <2>2. CASE v # w
    BY <1>1, <1>3, <2>2 DEF WInv, KeysStop
  <2>. QED
    BY <2>1, <2>2
<1>4. KeysStop'
  BY <1>3 DEF KeysStop
<1>. QED
  BY <1>1, <1>2, <1>4

\* The API claims no key: its actions find one, and at most drop it.
LEMMA ServeConfirmKeeps ==
  ASSUME WInv, NEW w \in Workflows, ServeConfirm(w) \/ StoreLost(w)
  PROVE  WInv' /\ \A v \in Workflows : key[v] = Nil => key'[v] = Nil
<1>1. /\ UNCHANGED <<row, tick, console, unkeyed, approved>>
      /\ \E o \in Answers, b \in BOOLEAN : Executes(w, o) /\ Settle(w, o, b)
  BY DEF ServeConfirm, StoreLost, Answers
<1>2. /\ key[w] # Nil /\ key[w].outcome = "running"
      /\ hold' \in {hold, [hold EXCEPT ![key[w].hold].live = FALSE]}
      /\ booked' \in {booked, booked \cup {<<w, key[w].hold>>}}
      /\ \E o \in Outcomes \ {"running"}, b \in BOOLEAN : Settle(w, o, b)
  BY <1>1 DEF Executes, Answers, Outcomes
<1>3. /\ key' \in [Workflows -> KeyRow \cup {Nil}]
      /\ booked' \subseteq Workflows \X Holds /\ unkeyed' \subseteq booked' /\ KeysStop'
      /\ \A v \in Workflows \ {w} : key'[v] = key[v]
  BY <1>1, <1>2, SettledKeeps
<1>4. hold' \in [Holds -> [by: Workflows \cup {Nil}, live: BOOLEAN]]
  <2>1. key[w].hold \in Holds
    BY <1>2, RunningKey
  <2>. QED
    BY <1>2, <2>1, HoldEnds DEF WInv, TypeOK
<1>5. faults' \in 0..MaxFaults
  BY FaultCounts DEF ServeConfirm, StoreLost, WInv
<1>6. WInv'
  BY <1>1, <1>3, <1>4, <1>5, ServerKeeps
<1>. QED
  BY <1>2, <1>3, <1>6

\* A dropped key takes its booking out of those that a key stops.
LEMMA DropKeyKeeps ==
  ASSUME WInv, NEW w \in Workflows, DropKey(w)
  PROVE  WInv' /\ \A v \in Workflows : key[v] = Nil => key'[v] = Nil
<1>1. /\ key[w] # Nil /\ key' = [key EXCEPT ![w] = Nil]
      /\ unkeyed' = unkeyed \cup (booked \cap {<<w, key[w].hold>>})
      /\ UNCHANGED <<row, tick, console, hold, booked, approved, faults>>
  BY DEF DropKey
<1>2. /\ key' \in [Workflows -> KeyRow \cup {Nil}]
      /\ key'[w] = Nil /\ \A v \in Workflows \ {w} : key'[v] = key[v]
  BY <1>1 DEF WInv, TypeOK
<1>3. /\ booked' \subseteq Workflows \X Holds /\ unkeyed' \subseteq booked'
      /\ faults' \in 0..MaxFaults
      /\ hold' \in [Holds -> [by: Workflows \cup {Nil}, live: BOOLEAN]]
  BY <1>1 DEF WInv, TypeOK
<1>4. ASSUME NEW v \in Workflows, NEW h \in Holds, <<v, h>> \in booked' \ unkeyed'
      PROVE  v # w /\ <<v, h>> \in booked \ unkeyed
  <2>1. <<v, h>> \in booked \ unkeyed /\ <<v, h>> # <<w, key[w].hold>>
    BY <1>1, <1>4
  <2>2. v = w => h = key[w].hold
    BY <2>1 DEF WInv, KeysStop
  <2>. QED
    BY <2>1, <2>2
<1>5. KeysStop'
  BY <1>2, <1>4 DEF WInv, KeysStop
<1>6. WInv'
  BY <1>1, <1>2, <1>3, <1>5, ServerKeeps
<1>. QED
  BY <1>1, <1>2, <1>6

LEMMA ServerFailsKeeps ==
  ASSUME WInv, NEW w \in Workflows, ServerFails(w)
  PROVE  WInv' /\ \A v \in Workflows : key[v] = Nil => key'[v] = Nil
<1>1. /\ key[w] # Nil /\ key[w].outcome = "running"
      /\ UNCHANGED <<row, tick, console, approved>>
      /\ hold' \in {hold, [hold EXCEPT ![key[w].hold].live = FALSE]}
      /\ booked' \in {booked, booked \cup {<<w, key[w].hold>>}}
  BY DEF ServerFails
<1>2. hold' \in [Holds -> [by: Workflows \cup {Nil}, live: BOOLEAN]]
  <2>1. key[w].hold \in Holds
    BY <1>1, RunningKey
  <2>. QED
    BY <1>1, <2>1, HoldEnds DEF WInv, TypeOK
<1>3. faults' \in 0..MaxFaults
  BY FaultCounts DEF ServerFails, WInv
<1>4. CASE Settle(w, "orphaned", FALSE) /\ UNCHANGED unkeyed
  <2>1. "orphaned" \in Outcomes \ {"running"}
    BY DEF Outcomes
  <2>2. /\ key' \in [Workflows -> KeyRow \cup {Nil}]
        /\ booked' \subseteq Workflows \X Holds /\ unkeyed' \subseteq booked' /\ KeysStop'
        /\ \A v \in Workflows \ {w} : key'[v] = key[v]
    BY <1>1, <1>4, <2>1, SettledKeeps
  <2>3. WInv'
    BY <1>1, <1>2, <1>3, <2>2, ServerKeeps
  <2>. QED
    BY <1>1, <2>2, <2>3
<1>5. CASE /\ key' = [key EXCEPT ![w] = Nil]
           /\ unkeyed' = unkeyed \cup (booked' \ booked)
  <2>1. /\ key[w].hold \in Holds
        /\ \A h \in Holds : <<w, h>> \notin booked \ unkeyed
    BY <1>1, RunningKey
  <2>2. /\ key' \in [Workflows -> KeyRow \cup {Nil}]
        /\ key'[w] = Nil /\ \A v \in Workflows \ {w} : key'[v] = key[v]
    BY <1>5 DEF WInv, TypeOK
  <2>3. booked' \subseteq Workflows \X Holds /\ unkeyed' \subseteq booked'
    BY <1>1, <1>5, <2>1 DEF WInv, TypeOK
  <2>4. \A v \in Workflows, h \in Holds :
          <<v, h>> \in booked' \ unkeyed' => v # w /\ <<v, h>> \in booked \ unkeyed
    BY <1>1, <1>5, <2>1
  <2>5. KeysStop'
    BY <2>2, <2>4 DEF WInv, KeysStop
  <2>6. WInv'
    BY <1>1, <1>2, <1>3, <2>2, <2>3, <2>5, ServerKeeps
  <2>. QED
    BY <2>2, <2>6
<1>. QED
  BY <1>4, <1>5 DEF ServerFails

LEMMA ExpireKeeps ==
  ASSUME WInv, NEW h \in Holds, Expire(h)
  PROVE  WInv' /\ key' = key
<1>1. /\ hold' = [hold EXCEPT ![h].live = FALSE]
      /\ UNCHANGED <<row, tick, console, key, booked, unkeyed, approved, faults>>
  BY DEF Expire
<1>2. hold' \in [Holds -> [by: Workflows \cup {Nil}, live: BOOLEAN]]
  BY <1>1, HoldEnds
<1>3. /\ key' \in [Workflows -> KeyRow \cup {Nil}] /\ faults' \in 0..MaxFaults
      /\ booked' \subseteq Workflows \X Holds /\ unkeyed' \subseteq booked' /\ KeysStop'
  BY <1>1 DEF WInv, TypeOK, KeysStop
<1>. QED
  BY <1>1, <1>2, <1>3, ServerKeeps

-------------------------------------------------------------------------------
(* What is spent *)

\* A key is claimed for what the row has parked, unless it has a mandate.
SpendsParked ==
  \A w \in Workflows :
    key[w] = Nil /\ key'[w] # Nil /\ ~ row[w].mandated =>
      row[w].status = "pending" /\ row[w].pending = key'[w].hold

\* The copy a claim is made from is the row: its lock is held, and it is as it was
\* claimed until the tick has taken up the parked action.
LEMMA ClaimSpendsParked ==
  ASSUME WInv, NEW t \in Ticks, Advances(t), ClaimsKey(t)
  PROVE  SpendsParked
<1>1. PICK h \in Holds :
        /\ key[Current(t)] = Nil
        /\ key' = [key EXCEPT ![Current(t)] = [hold |-> h, outcome |-> "running", doomed |-> FALSE]]
        /\ Copy(t).mandated \/ (tick[t].at = "start" /\ Copy(t).pending = h)
  BY DEF ClaimsKey
<1>2. /\ Current(t) \in Workflows /\ Current(t) \in DOMAIN tick[t].copy
      /\ Current(t) = tick[t].batch[1] /\ 1 \in 1..Len(tick[t].batch)
  BY CurrentIsClaimed DEF Advances, WInv
<1>3. row[Current(t)].status = "pending" /\ Copy(t).mandated = row[Current(t)].mandated
  BY <1>2 DEF WInv, LocksFit, Copy
<1>4. tick[t].at = "start" => Copy(t) = row[Current(t)]
  BY <1>2 DEF WInv, LocksFit, Copy
<1>5. /\ key'[Current(t)] = [hold |-> h, outcome |-> "running", doomed |-> FALSE]
      /\ \A w \in Workflows \ {Current(t)} : key'[w] = key[w]
  BY <1>1, <1>2 DEF WInv, TypeOK
<1>6. \A w \in Workflows :
        key[w] = Nil /\ key'[w] # Nil => w = Current(t) /\ key'[w].hold = h
  BY <1>5
<1>. QED
  BY <1>1, <1>3, <1>4, <1>6 DEF SpendsParked

-------------------------------------------------------------------------------
(* The steps *)

\* Every step of the agent and the API, by what a page may see of it.
LEMMA AsideKeeps ==
  ASSUME WInv,
         \/ \E w \in Workflows : Create(w) \/ Serve(w) \/ StoreLost(w) \/ ServerFails(w)
         \/ \E t \in Ticks : Resume(t) \/ ReceiveConfirm(t) \/ Turn(t) \/ LoseAnswer(t)
         \/ \E c \in Consoles :
              \/ \E w \in Workflows : ApproveRead(c, w) \/ AnswerRead(c, w)
              \/ SaveSelect(c)
         \/ \E h \in Holds : Expire(h)
  PROVE  WInv' /\ SpendsParked
<1>1. ASSUME NEW w \in Workflows, Create(w)
      PROVE  WInv' /\ SpendsParked
  BY <1>1, CreateKeeps DEF SpendsParked
<1>2. ASSUME NEW w \in Workflows, Serve(w) \/ StoreLost(w) \/ ServerFails(w)
      PROVE  WInv' /\ SpendsParked
  BY <1>2, ServeConfirmKeeps, DropKeyKeeps, ServerFailsKeeps DEF SpendsParked, Serve
<1>3. ASSUME NEW t \in Ticks, Resume(t) \/ ReceiveConfirm(t) \/ Turn(t) \/ LoseAnswer(t)
      PROVE  WInv' /\ SpendsParked
  <2>1. WInv' /\ Advances(t) /\ TurnsApart(t)
    BY <1>3, TurnKeeps
  <2>2. CASE key' = key
    BY <2>1, <2>2 DEF SpendsParked
  <2>3. CASE ClaimsKey(t)
    BY <2>1, <2>3, ClaimSpendsParked
  <2>. QED
    BY <2>1, <2>2, <2>3 DEF TurnsApart
<1>4. ASSUME NEW c \in Consoles, NEW w \in Workflows, ApproveRead(c, w) \/ AnswerRead(c, w)
      PROVE  WInv' /\ SpendsParked
  BY <1>4, ReadKeeps DEF SpendsParked
<1>5. ASSUME NEW c \in Consoles, SaveSelect(c)
      PROVE  WInv' /\ SpendsParked
  BY <1>5, SaveSelectKeeps DEF SpendsParked
<1>6. ASSUME NEW h \in Holds, Expire(h)
      PROVE  WInv' /\ SpendsParked
  BY <1>6, ExpireKeeps DEF SpendsParked
<1>. QED
  BY <1>1, <1>2, <1>3, <1>4, <1>5, <1>6

LEMMA BatchKeeps ==
  ASSUME WInv, NEW t \in Ticks, Claim(t) \/ Commit(t) \/ Abort(t)
  PROVE  WInv' /\ SpendsParked
BY ClaimKeeps, CommitKeeps, AbortKeeps DEF SpendsParked

\* The page and its stream change nothing of the agent's.
LEMMA FeedKeeps ==
  ASSUME WInv, UNCHANGED <<row, tick, console, api, approved>>, faults' \in 0..MaxFaults
  PROVE  WInv' /\ SpendsParked
<1>1. ShapesFit' /\ LocksFit' /\ KeysStop'
  BY DEF WInv, ShapesFit, LocksFit, KeysStop, api
<1>2. TablesFit'
  BY TypeSplits DEF WInv, TablesFit, api
<1>. QED
  BY <1>1, <1>2, TypeFollowsNext DEF WInv, SpendsParked, api

\* What is of the page in the type invariant.
FeedFits ==
  /\ told \in [Ticks -> SUBSET Workflows]
  /\ chat \in [Workflows -> Chat]
  /\ unseen \subseteq Workflows

\* The rows of a tick are workflows.
LEMMA ClaimedAreWorkflows ==
  ASSUME ShapesFit, NEW t \in Ticks
  PROVE  DOMAIN tick[t].copy \subseteq Workflows
BY CopyTypes DEF ShapesFit, TickRow

LEMMA ClaimedAreWorkflowsNext ==
  ASSUME NEW t \in Ticks
  PROVE  ShapesFit' => DOMAIN tick'[t].copy \subseteq Workflows
BY CopyTypes DEF ShapesFit, TickRow

LEMMA PageKeeps ==
  ASSUME WInv, FeedFits, NEW w \in Workflows,
         \/ OpenChat(w) \/ Connect(w) \/ Refused(w) \/ Subscribe(w) \/ Drop(w)
         \/ Refresh(w) \/ RefreshFails(w)
  PROVE  WInv' /\ SpendsParked /\ FeedFits'
<1>1. faults' \in 0..MaxFaults
  BY FaultCounts DEF WInv, OpenChat, Connect, Refused, Subscribe, Drop, Refresh, RefreshFails,
                     vars
<1>2. UNCHANGED <<row, tick, console, api, approved>>
  BY DEF OpenChat, Connect, Refused, Subscribe, Drop, Refresh, RefreshFails, Fetched, vars
<1>3. chat[w] \in Chat
  BY DEF FeedFits
<1>4. chat' \in [Workflows -> Chat]
  <2>1. \A f \in {"none", "lost", "open", "live", "closed"}, d \in BOOLEAN :
          [feed |-> f, due |-> d] \in Chat
    BY DEF Chat
  <2>2. CASE OpenChat(w) \/ Connect(w)
    BY <2>1, <2>2 DEF FeedFits, OpenChat, Connect
  <2>3. CASE Refused(w) \/ Subscribe(w) \/ Drop(w)
    BY <1>3, <2>3 DEF FeedFits, Refused, Subscribe, Drop, Chat
  <2>4. CASE Refresh(w) \/ RefreshFails(w)
    <3>1. chat' = [chat EXCEPT ![w].due = FALSE]
      BY <2>4 DEF Refresh, RefreshFails, Fetched
    <3>. QED
      BY <1>3, <3>1 DEF FeedFits, Chat
  <2>. QED
    BY <2>2, <2>3, <2>4
<1>5. told' \in [Ticks -> SUBSET Workflows] /\ unseen' \subseteq Workflows
  BY DEF FeedFits, OpenChat, Connect, Refused, Subscribe, Drop, Refresh, RefreshFails, Fetched
<1>. QED
  BY <1>1, <1>2, <1>4, <1>5, FeedKeeps DEF FeedFits

LEMMA WorkerKeeps ==
  ASSUME WInv, FeedFits, NEW t \in Ticks,
         \/ ClaimToTell(t) \/ CommitUntold(t) \/ AbortUntold(t) \/ LoseEvents(t)
         \/ \E w \in Workflows : Tell(t, w)
  PROVE  WInv' /\ SpendsParked /\ FeedFits'
<1>1. CASE ClaimToTell(t)
  <2>1. WInv' /\ SpendsParked
    BY <1>1, BatchKeeps DEF ClaimToTell
  <2>2. DOMAIN tick'[t].copy \in SUBSET Workflows
    BY <2>1, ClaimedAreWorkflowsNext DEF WInv
  <2>3. FeedFits'
    BY <1>1, <2>2 DEF ClaimToTell, FeedFits
  <2>. QED
    BY <2>1, <2>3
<1>2. CASE CommitUntold(t)
  <2>1. WInv' /\ SpendsParked
    BY <1>2, BatchKeeps DEF CommitUntold
  <2>2. DOMAIN tick[t].copy \subseteq Workflows
    BY ClaimedAreWorkflows DEF WInv
  <2>3. FeedFits'
    BY <1>2, <2>2 DEF CommitUntold, FeedFits
  <2>. QED
    BY <2>1, <2>3
<1>3. CASE AbortUntold(t)
  <2>1. WInv' /\ SpendsParked
    BY <1>3, BatchKeeps DEF AbortUntold
  <2>2. FeedFits'
    BY <1>3 DEF AbortUntold, FeedFits
  <2>. QED
    BY <2>1, <2>2
<1>4. CASE LoseEvents(t)
  <2>1. UNCHANGED <<row, tick, console, api, approved>> /\ faults' \in 0..MaxFaults
    BY <1>4, FaultCounts DEF LoseEvents, WInv
  <2>2. FeedFits'
    BY <1>4 DEF LoseEvents, FeedFits
  <2>. QED
    BY <2>1, <2>2, FeedKeeps
<1>5. ASSUME NEW w \in Workflows, Tell(t, w)
      PROVE  WInv' /\ SpendsParked /\ FeedFits'
  <2>1. UNCHANGED <<row, tick, console, api, approved>> /\ faults' \in 0..MaxFaults
    BY <1>5, FaultCounts DEF Tell, WInv, vars
  <2>. DEFINE due == chat[w].due \/ chat[w].feed = "live"
  <2>2. due \in BOOLEAN /\ chat' = [chat EXCEPT ![w].due = due]
    BY <1>5 DEF Tell
  <2>. HIDE DEF due
  <2>3. chat' \in [Workflows -> Chat]
    BY <2>2 DEF FeedFits, Chat
  <2>4. told' \in [Ticks -> SUBSET Workflows] /\ unseen' \subseteq Workflows
    BY <1>5 DEF Tell, FeedFits
  <2>. QED
    BY <2>1, <2>3, <2>4, FeedKeeps DEF FeedFits
<1>. QED
  BY <1>1, <1>2, <1>3, <1>4, <1>5

LEMMA SaveAndRefreshKeeps ==
  ASSUME WInv, FeedFits, NEW c \in Consoles, SaveAndRefresh(c)
  PROVE  WInv' /\ SpendsParked /\ FeedFits'
<1>1. WInv' /\ SpendsParked
  BY SaveUpdateKeeps DEF SaveAndRefresh, SpendsParked
<1>2. console[c].of \in Workflows
  BY DEF SaveAndRefresh, SaveUpdate, WInv, ShapesFit, Consulted
<1>. DEFINE w == console[c].of
<1>3. PICK d \in {chat[w].due, chat[w].feed # "none"} : chat' = [chat EXCEPT ![w].due = d]
  BY DEF SaveAndRefresh
<1>4. chat[w] \in Chat
  BY <1>2 DEF FeedFits
<1>5. d \in BOOLEAN
  BY <1>3, <1>4 DEF Chat
<1>6. FeedFits'
  BY <1>2, <1>3, <1>5 DEF FeedFits, Chat, SaveAndRefresh
<1>. QED
  BY <1>1, <1>6

CInv == WInv /\ FeedFits

LEMMA StepKeeps ==
  ASSUME CInv, [ChatNext]_chatVars
  PROVE  CInv' /\ [SpendsParked]_vars
<1>1. CASE Aside
  <2>1. WInv' /\ SpendsParked
    BY <1>1, AsideKeeps DEF Aside, CInv
  <2>. QED
    BY <1>1, <2>1 DEF Aside, CInv, FeedFits, feed
<1>2. ASSUME NEW t \in Ticks, ChatWork(t) \/ AbortUntold(t) \/ LoseEvents(t)
      PROVE  CInv' /\ SpendsParked
  <2>1. CASE (Resume(t) \/ ReceiveConfirm(t) \/ Turn(t)) /\ UNCHANGED feed
    <3>1. WInv' /\ SpendsParked
      BY <2>1, AsideKeeps DEF CInv
    <3>. QED
      BY <2>1, <3>1 DEF CInv, FeedFits, feed
  <2>2. CASE \/ ClaimToTell(t) \/ CommitUntold(t) \/ AbortUntold(t) \/ LoseEvents(t)
             \/ \E w \in Workflows : Tell(t, w)
    BY <2>2, WorkerKeeps DEF CInv
  <2>. QED
    BY <1>2, <2>1, <2>2 DEF ChatWork
<1>3. ASSUME NEW w \in Workflows,
             OpenChat(w) \/ Follow(w) \/ Drop(w) \/ Refresh(w) \/ RefreshFails(w)
      PROVE  CInv' /\ SpendsParked
  BY <1>3, PageKeeps DEF CInv, Follow
<1>4. ASSUME NEW c \in Consoles, SaveAndRefresh(c)
      PROVE  CInv' /\ SpendsParked
  BY <1>4, SaveAndRefreshKeeps DEF CInv
<1>5. CASE UNCHANGED chatVars
  <2>1. UNCHANGED <<row, tick, console, api, approved>> /\ faults' \in 0..MaxFaults
    BY <1>5 DEF chatVars, vars, CInv, WInv, TypeOK
  <2>2. FeedFits'
    BY <1>5 DEF chatVars, feed, CInv, FeedFits
  <2>. QED
    BY <2>1, <2>2, FeedKeeps DEF CInv
<1>. QED
  BY <1>1, <1>2, <1>3, <1>4, <1>5 DEF ChatNext

LEMMA InitHolds == ChatInit => CInv
<1>. SUFFICES ASSUME ChatInit PROVE CInv
  OBVIOUS
<1>1. /\ row = [w \in Workflows |-> Fresh] /\ tick = [t \in Ticks |-> NoTick]
      /\ console = [c \in Consoles |-> Nil]
      /\ hold = [h \in Holds |-> [by |-> Nil, live |-> FALSE]]
      /\ key = [w \in Workflows |-> Nil]
      /\ booked = {} /\ unkeyed = {} /\ approved = {} /\ faults = 0
  BY DEF ChatInit, Init
<1>2. Fresh \in Row
  BY AgentAssumption DEF Fresh, Row
<1>3. ShapesFit /\ LocksFit
  BY <1>1, NoTickType DEF ShapesFit, LocksFit
<1>4. TablesFit /\ KeysStop
  BY <1>1, <1>2, AgentAssumption DEF TablesFit, KeysStop
<1>5. FeedFits
  BY DEF ChatInit, FeedFits, Chat
<1>. QED
  BY <1>3, <1>4, <1>5, TypeFollows DEF CInv, WInv

LEMMA InvHolds == ChatSpec => []CInv
<1>1. CInv /\ [ChatNext]_chatVars => CInv'
  BY StepKeeps
<1>. QED
  BY <1>1, InitHolds, PTL DEF ChatSpec

-------------------------------------------------------------------------------
(* The theorems *)

\* The tables, the batches and copies of the ticks, the entities that the consoles
\* edit and the pages keep their shape.
THEOREM AgentTypeCorrect == ChatSpec => []ChatTypeOK
<1>1. CInv => ChatTypeOK
  BY DEF CInv, WInv, FeedFits, ChatTypeOK
<1>. QED
  BY <1>1, InvHolds, PTL

\* A workflow has at most one booking whose key was not dropped by its request, however
\* often it is run again.
THEOREM WorkflowsBookOnce == ChatSpec => []OneBookingPerWorkflow
<1>1. ASSUME CInv PROVE OneBookingPerWorkflow
  <2>. SUFFICES ASSUME NEW w \in Workflows
                PROVE  Cardinality({h \in Holds : <<w, h>> \in booked \ unkeyed}) <= 1
    BY DEF OneBookingPerWorkflow
  <2>. DEFINE kept == {h \in Holds : <<w, h>> \in booked \ unkeyed}
  <2>1. \A h \in kept : h = key[w].hold
    BY <1>1 DEF CInv, WInv, KeysStop
  <2>2. kept \subseteq {key[w].hold}
    BY <2>1
  <2>. HIDE DEF kept
  <2>3. IsFiniteSet({key[w].hold}) /\ Cardinality({key[w].hold}) = 1
    BY FS_Singleton
  <2>4. Cardinality(kept) <= 1
    BY <2>2, <2>3, FS_Subset
  <2>. QED
    BY <2>4 DEF kept
<1>2. CInv => OneBookingPerWorkflow
  BY <1>1
<1>. QED
  BY <1>2, InvHolds, PTL

\* Without a mandate the API is asked to confirm only what the workflow's row has
\* parked and its queue entry releases.
THEOREM SpendsArePermitted == ChatSpec => SpendsOnlyWhatIsParked
<1>1. CInv /\ [ChatNext]_chatVars => [SpendsParked]_vars
  BY StepKeeps
<1>2. ChatSpec => [][SpendsParked]_vars
  BY <1>1, InvHolds, PTL DEF ChatSpec
<1>. QED
  BY <1>2 DEF SpendsParked, SpendsOnlyWhatIsParked
================================================================================
