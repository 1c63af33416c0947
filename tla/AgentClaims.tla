------------------------------ MODULE AgentClaims ------------------------------
(***************************************************************************)
(* What the repository says of the agent's spending and its approvals do   *)
(* not keep.                                                               *)
(***************************************************************************)
EXTENDS AgentWorkflow

\* "Pauses for your approval before spending": without a mandate, nothing is paid
\* for before its owner has approved.  save writes what differs from a row that it
\* reads without a lock: answers that are repeated and saved late put the row back in
\* the queue, on whatever the run in between has parked.
NothingSpentUnapproved ==
  \A w \in Workflows :
    ~ row[w].mandated /\ (\E h \in Holds : <<w, h>> \in booked) =>
      \E h \in Holds : <<w, h>> \in approved
================================================================================
