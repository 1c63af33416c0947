------------------------------ MODULE MCAgentChat ------------------------------
(***************************************************************************)
(* Three consoles, or two and a fault, and the workflow's holds; or its    *)
(* page, one console and a conversation that holds nothing: what a page    *)
(* hears of does not depend on what a tick did.  Events that no page waits *)
(* for are told at once.                                                   *)
(***************************************************************************)
EXTENDS AgentChat

Followed == \E w \in Workflows : chat[w].feed # "none"

Used == Cardinality({c \in Consoles : console[c] # Nil})

Bounded ==
  /\ Used + faults <= 3
  /\ Followed => Used <= 1 /\ \A h \in Holds : hold[h].by = Nil

Telling == \E t \in Ticks : Committed(t) /\ told[t] # {}

MCNext == ChatNext /\ Bounded' /\ (Telling => Followed' \/ told' # told)

MCSpec == ChatInit /\ [][MCNext]_chatVars /\ ChatFairness
================================================================================
