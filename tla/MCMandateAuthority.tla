-------------------------- MODULE MCMandateAuthority --------------------------
(***************************************************************************)
(* Instances of MandateAuthority for TLC: the mandate, seats and calls of  *)
(* MCReservations.                                                         *)
(***************************************************************************)
EXTENDS MandateAuthority, MCReservations

\* Agents ask about a seat the confirms book, or for alternatives.
MCPreviews == {[table |-> t1, slot |-> s1]}

MCCandidates == {<<[table |-> t1, slot |-> s1], [table |-> t2, slot |-> s1]>>}

CallSymmetry == Permutations(Requests) \cup Permutations(Consoles)

\* Two tables under one mandate, each held and confirmed.
AuthorityCalls ==
  {Hold(u1, t, s1) : t \in {t1, t2}}
  \cup {Confirm(u1, t, s1, h, Nil, m1) : t \in {t1, t2}, h \in Requests}

\* Holds touch no mandate: they are over before anybody uses the mandate, and confirms
\* name the hold of their seat.
HoldsFirst ==
  /\ \/ \A r \in Requests : call[r] # Nil /\ call[r].op = "hold" => pc[r] \in Ended
     \/ /\ \A r \in Requests : call[r] # Nil => call[r].op = "hold"
        /\ \A k \in Consoles : console[k].step = "idle"
  /\ \A r \in Requests :
       call[r] # Nil /\ call[r].op = "confirm" => SeatOf(call[call[r].hold]) = SeatOf(call[r])
================================================================================
