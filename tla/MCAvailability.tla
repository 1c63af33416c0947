---------------------------- MODULE MCAvailability ----------------------------
(***************************************************************************)
(* The first day has the seats; once the second comes into view two        *)
(* changes are left to happen instead of three.  A stream is down, opening *)
(* or closed among the first two, never while its page has or asks for a   *)
(* hold, and never while a table is out of service or a seat booked        *)
(* directly: nobody is told of those.                                      *)
(***************************************************************************)
EXTENDS AvailabilityClaims

CONSTANTS s1, d1, d2

MCDateOf == [s \in Seats |-> d1]

Untold == closed # {} \/ \E s \in Seats : booking[s] \in Direct

SecondDay ==
  \/ d2 \in tracked \/ cache[d2] # Nil
  \/ \E p \in Pages : page[p].date = d2
  \/ \E l \in Loads : load[l] # Nil /\ load[l].date = d2

Bounded ==
  /\ SecondDay => changes < MaxChanges
  /\ \A p \in Pages :
       page[p].feed # "live" => /\ ~ Untold /\ changes < MaxChanges
                                /\ page[p].hold = Nil /\ request[p] = Nil

MCSpec == Init /\ [][Next /\ Bounded']_vars /\ Fairness
================================================================================
