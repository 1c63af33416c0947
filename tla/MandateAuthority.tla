--------------------------- MODULE MandateAuthority ---------------------------
(***************************************************************************)
(* The life of a mandate around the confirms that spend it: granted by a   *)
(* person, previewed by an agent, alone or for the alternatives that       *)
(* CafesService looks for, and revoked by its owner (MandatesService),     *)
(* composed with the booking core, which alone consumes it.                *)
(*                                                                         *)
(* A console is one such HTTP call.  Revoking is TypeORM's                 *)
(* find-change-save, which is three accesses and not one: find copies the  *)
(* row, save reads it again to see which columns of the copy differ, and   *)
(* then writes those columns of the copy.                                  *)
(***************************************************************************)
EXTENDS Reservations, FiniteSetsExt, Sequences

CONSTANTS
  Consoles,        \* the revoke, preview and alternatives calls
  Previews,        \* the bookings agents ask about: [table, slot] of one cafe
  Candidates,      \* the sequences of free seats, cold ones first, that a day's
                   \* availability may come to: it is cached, and promises nothing
  MaxAlternatives  \* MAX_ALTERNATIVES

VARIABLES
  granted,         \* the mandates whose row exists
  console,         \* the calls: [step, mandate, copy, columns]
  proposals        \* agent_decisions of step PROPOSE

authority == <<granted, console, proposals>>
allVars == <<vars, authority>>

\* The columns save may find different: nothing else of the row ever changes.
Columns == {"status", "consumedMinor", "consumedBookings"}

SeatRow == [table: Tables, slot: Slots]

ConsoleRow ==
  [step: {"idle", "load", "write", "screen", "log", "revoked", "previewed", "offered"},
   mandate: Mandates \cup {Nil}, copy: MandateRow \cup {Nil},
   columns: SUBSET Columns, check: CheckInput \cup {Nil},
   queue: Seq(SeatRow), alternatives: SUBSET SeatRow]

ProposalRow ==
  [mandate: Mandates, check: CheckInput, verdict: {"ALLOW"} \cup DenyReasons]

\* What agents and the page ask about are seats; a bound is a number.
ASSUME AuthorityAssumption ==
  /\ Previews \subseteq SeatRow
  /\ Candidates \subseteq Seq(SeatRow)
  /\ MaxAlternatives \in Nat

IdleConsole ==
  [step |-> "idle", mandate |-> Nil, copy |-> Nil, columns |-> {}, check |-> Nil,
   queue |-> <<>>, alternatives |-> {}]

AuthorityTypeOK ==
  /\ TypeOK
  /\ granted \subseteq Mandates
  /\ console \in [Consoles -> ConsoleRow]
  /\ proposals \subseteq ProposalRow

-------------------------------------------------------------------------------
(* POST /mandates *)

\* The refusals of grant; the body's own validation bounds each number below by one.
Grantable(row) ==
  /\ row.windowEnd > row.windowStart
  /\ row.maxPerBooking <= row.maxTotal
  /\ row.maxPerBooking >= 1 /\ row.maxTotal >= 1 /\ row.maxBookings >= 1
  /\ row.localities # {}

\* The row a body makes: active, unspent, valid until its window closes.
GrantedRow(row) ==
  [row EXCEPT !.status = "active", !.expiresAt = row.windowEnd,
              !.consumedMinor = 0, !.consumedBookings = 0]

Grant(m) ==
  /\ m \notin granted
  /\ Grantable(InitialMandates[m])
  /\ granted' = granted \cup {m}
  /\ mandates' = [mandates EXCEPT ![m] = GrantedRow(InitialMandates[m])]
  /\ UNCHANGED <<ledger, keys, slotRows, decisions, redis, pc, reply, locals, world,
                 console, proposals>>

-------------------------------------------------------------------------------
(* POST /mandates/:id/revoke *)

\* The call is answered.
Finish(k, step) ==
  console' = [console EXCEPT ![k] =
                [IdleConsole EXCEPT !.step = step, !.mandate = console[k].mandate]]

\* findOwned, for the owner: the rest of the handler works on this copy.
RevokeRead(k, m) ==
  /\ console[k].step = "idle"
  /\ m \in granted
  /\ console' = [console EXCEPT ![k] =
       [IdleConsole EXCEPT !.mandate = m,
          !.step = IF mandates[m].status = "revoked" THEN "revoked" ELSE "load",
          !.copy = [mandates[m] EXCEPT !.status = "revoked"]]]
  /\ UNCHANGED <<vars, granted, proposals>>

\* save's SELECT: the columns in which the changed copy and the row differ.
RevokeLoad(k) ==
  LET row == mandates[console[k].mandate]
      copy == console[k].copy IN
  /\ console[k].step = "load"
  /\ console' = [console EXCEPT ![k].step = "write",
                                ![k].columns = {f \in Columns : copy[f] # row[f]}]
  /\ UNCHANGED <<vars, granted, proposals>>

\* Mutant: the write names the counters only.
RevokeWriteCounters(k) ==
  LET copy == console[k].copy
      m == console[k].mandate IN
  /\ console[k].step = "write"
  /\ mandates' = [mandates EXCEPT ![m] =
       [f \in DOMAIN @ |->
          IF f \in console[k].columns \ {"status"} THEN copy[f] ELSE @[f]]]
  /\ Finish(k, "revoked")
  /\ UNCHANGED <<ledger, keys, slotRows, decisions, redis, pc, reply, locals, world,
                 granted, proposals>>

\* save's UPDATE: those columns, from the copy.
RevokeWrite(k) ==
  LET copy == console[k].copy
      m == console[k].mandate IN
  /\ console[k].step = "write"
  /\ mandates' = [mandates EXCEPT ![m] =
       [f \in DOMAIN @ |-> IF f \in console[k].columns THEN copy[f] ELSE @[f]]]
  /\ Finish(k, "revoked")
  /\ UNCHANGED <<ledger, keys, slotRows, decisions, redis, pc, reply, locals, world,
                 granted, proposals>>

-------------------------------------------------------------------------------
(* POST /mandates/:id/preview *)

\* previewMandate reads the row, then the table and the slot.
PreviewRead(k, m, p) ==
  /\ console[k].step = "idle"
  /\ m \in granted
  /\ console' = [console EXCEPT ![k] =
       [IdleConsole EXCEPT !.mandate = m, !.step = "log",
                           !.copy = mandates[m], !.check = CheckOf(p)]]
  /\ UNCHANGED <<vars, granted, proposals>>

PreviewVerdict(c) == EvaluateMandate(c.copy, c.check, now)

\* The console after a candidate of its alternatives was judged: an allowed one is
\* offered; the next one's turn, unless there is none or enough are offered.
Screened(c) ==
  LET chosen == IF PreviewVerdict(c) = "ALLOW" THEN c.alternatives \cup {Head(c.queue)}
                                        ELSE c.alternatives
      more == Tail(c.queue) # <<>> /\ Cardinality(chosen) < MaxAlternatives
  IN [IdleConsole EXCEPT !.mandate = c.mandate, !.alternatives = chosen,
                         !.step = IF more THEN "screen" ELSE "offered",
                         !.queue = IF more THEN Tail(c.queue) ELSE <<>>]

\* The copy is judged by the clock of this moment, and the verdict is logged, with
\* its reason, on a connection of its own.
PreviewLog(k) ==
  LET c == console[k] IN
  /\ c.step = "log"
  /\ proposals' = proposals \cup
       {[mandate |-> c.mandate, check |-> c.check, verdict |-> PreviewVerdict(c)]}
  /\ IF c.queue = <<>> THEN Finish(k, "previewed")
                       ELSE console' = [console EXCEPT ![k] = Screened(c)]
  /\ UNCHANGED <<vars, granted>>

-------------------------------------------------------------------------------
(* GET /cafes/:id/alternatives *)

\* findAlternatives has the day's free seats, the one asked for left out.
AlternativesRead(k, m, queue) ==
  /\ console[k].step = "idle"
  /\ m \in granted
  /\ console' = [console EXCEPT ![k] =
       [IdleConsole EXCEPT !.mandate = m, !.queue = queue,
                           !.step = IF queue = <<>> THEN "offered" ELSE "screen"]]
  /\ UNCHANGED <<vars, granted, proposals>>

\* previewMandate for the first of those left.
ScreenNext(k) ==
  LET c == console[k] IN
  /\ c.step = "screen"
  /\ console' = [console EXCEPT ![k].step = "log", ![k].copy = mandates[c.mandate],
                                ![k].check = CheckOf(Head(c.queue))]
  /\ UNCHANGED <<vars, granted, proposals>>

-------------------------------------------------------------------------------
(* The specification *)

AuthorityInit ==
  /\ Init
  /\ granted = {}
  /\ console = [k \in Consoles |-> IdleConsole]
  /\ proposals = {}

\* Confirms name mandates that were granted.
Offered(c) == c.op = "confirm" /\ c.mandate # Nil => c.mandate \in granted

BookingSide ==
  /\ \/ \E r \in Requests :
          \/ \E c \in Calls : Offered(c) /\ Arrive(r, c)
          \/ Handle(r) \/ Fault(r) \/ AnswerLost(r) \/ Crash(r)
     \/ Environment
     \/ Rest
  /\ UNCHANGED authority

ConsoleSide ==
  \/ \E m \in Mandates : Grant(m)
  \/ \E k \in Consoles :
       \/ \E m \in Mandates :
            \/ RevokeRead(k, m)
            \/ \E p \in Previews : PreviewRead(k, m, p)
            \/ \E queue \in Candidates : AlternativesRead(k, m, queue)
       \/ RevokeLoad(k) \/ RevokeWrite(k) \/ ScreenNext(k) \/ PreviewLog(k)

AuthorityNext == BookingSide \/ ConsoleSide

AuthoritySpec == AuthorityInit /\ [][AuthorityNext]_allVars

-------------------------------------------------------------------------------
(* Properties *)

RevokedFor(m) ==
  \E k \in Consoles : console[k].step = "revoked" /\ console[k].mandate = m

\* An answered revocation is final: a confirm that had passed its ownership check,
\* or whose key was claimed, before it books nothing after it, whatever the save of
\* the revocation overwrote and whichever revocations raced.
RevocationIsFinal ==
  [][\A m \in Mandates :
       RevokedFor(m) => /\ BookedUnder(m)' = BookedUnder(m)
                        /\ mandates'[m].status = "revoked"]_allVars

\* A preview's denial is for good: whatever is spent, revoked or overwritten after
\* it, the binding gate never admits that booking under that mandate; so nothing that
\* the alternatives leave out could have been booked.  (An ALLOW is no such promise.)
DeniedStaysDenied ==
  \A p \in proposals :
    p.verdict # "ALLOW" => ~ Admits(mandates[p.mandate], p.check, now)

\* While a mandate is active its counters are its bookings and their prices, also
\* while a revocation is under way; only the write of that one may lose some.
ActiveMandateIsAccounted ==
  \A m \in granted :
    mandates[m].status = "active" =>
      /\ mandates[m].consumedBookings = Cardinality(BookedUnder(m))
      /\ mandates[m].consumedMinor =
           MapThenSumSet(LAMBDA o : payments[o], BookedUnder(m))

\* However a revocation and its lost update fall among the confirms, no more is
\* ever booked under a mandate than its owner signed for.
AuthorityIsBounded ==
  \A m \in Mandates :
    /\ Cardinality(BookedUnder(m)) <= InitialMandates[m].maxBookings
    /\ MapThenSumSet(LAMBDA o : payments[o], BookedUnder(m))
         <= InitialMandates[m].maxTotal
================================================================================
