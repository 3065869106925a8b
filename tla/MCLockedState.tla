----------------------------- MODULE MCLockedState -----------------------------
(***************************************************************************)
(* The lock and the state under it.  A behaviour moves the lock alone, by  *)
(* every client and every fault, or the operations on the state, beside    *)
(* operators and holders whose lock commands are answered.                 *)
(***************************************************************************)
EXTENDS MCFencedState

CONSTANTS h1, f1

VARIABLE scene

\* No holder dies or is cut off, no upload or release of the lock goes unanswered,
\* and neither heal nor a freeze comes by.
Answered ==
  /\ UNCHANGED cut
  /\ \A p \in Procs : pc'[p] \notin {"unwind", "rerelease", "crashed"}
  /\ \A p \in Heals \cup Freezers : pc'[p] = "start"

MCInit == Init /\ scene \in {"lock", "state"}

MCNext ==
  \/ scene = "lock" /\ LockNext /\ UNCHANGED <<scene, stateVars>>
  \/ scene = "state" /\ Next /\ Answered /\ UNCHANGED scene

MCSpec == MCInit /\ [][MCNext]_<<scene, vars>>
=============================================================================
