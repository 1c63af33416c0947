-------------------------------- MODULE MCGateway --------------------------------
(***************************************************************************)
(* Calls for TLC: every operation, two generators with grids that share    *)
(* some times, owners and strangers.  Operations that share no state but   *)
(* the buckets and the clock need not meet: Related keeps a behaviour's    *)
(* calls within one subject.                                               *)
(***************************************************************************)
EXTENDS Gateway, TLC

CONSTANTS k1, address, user

MCCafes == [band |-> 100, opened |-> {}]

Anonymous(op) == [op |-> op, address |-> address, user |-> Nil]
Owner(op, who) == [op |-> op, address |-> address, user |-> user, who |-> who]

\* From a Thursday, the day 4.
Generate(who, days, open, close, turn) ==
  Owner("generate", who) @@
    [grid |-> [start |-> 4, days |-> days, open |-> open, close |-> close, turn |-> turn]]
Update(who) == Owner("update", who) @@ [band |-> 200]

Accounts ==
  {Anonymous(op) @@ [email |-> "e1", password |-> p] :
     op \in {"signup", "login"}, p \in {"p1", "p2"}}
Places == {Anonymous("locality")}
Slots ==
  {Generate("owner", 1, 11, 13, 60), Generate("owner", 2, 11, 13, 120), Update("owner")}
Catalogue ==
  {Anonymous("list"), Owner("create", "stranger"), Update("owner")}
Partners ==
  {Owner(op, "owner") @@ [key |-> k1] : op \in {"newKey", "revoke"}}
  \cup {Anonymous("pull") @@ [key |-> k1, scoped |-> b] : b \in BOOLEAN}
Refusals ==
  {Generate("owner", 1, 13, 11, 60), Generate("owner", 1, 11, 13, 10),
   Owner("create", "customer"), Update("stranger"), Owner("read", "owner")}

Subjects == {Accounts, Places, Slots, Catalogue, Partners, Refusals}
MCCalls == UNION Subjects

\* Only the places need a clock that goes on beyond a second.
Related ==
  \E s \in Subjects : /\ \A r \in Requests : call[r] \in s \cup {Nil}
                      /\ s \in {Places, Refusals} \/ now <= 1

Interchangeable == Permutations(Requests) \cup Permutations(Processes)
================================================================================
