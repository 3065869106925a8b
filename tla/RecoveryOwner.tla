--------------------------- MODULE RecoveryOwner ----------------------------
(***************************************************************************)
(* The replacement owner of a broken lock (ReconcileAfterTakeover and      *)
(* Observe, deploy/reconcile.go) over the true state of the target: each   *)
(* observation reads the container inventory, state.json and the           *)
(* Caddyfile, any of which may fail.  The owner re-observes once when the  *)
(* decision is INSPECT and goes on with its own deploy only on RETRY.      *)
(*                                                                         *)
(* That owner decides from Admitted, the state its own attempt is in, over *)
(* the targets it can find.  For the other states the records may name the *)
(* same loop is run over every target, so the table is checked on all of   *)
(* its domain that an observation can produce.                             *)
(***************************************************************************)
EXTENDS Recovery

VARIABLES
    from,       \* the state the records name
    world,      \* what is true of the target while the owner looks at it
    failed,     \* the reads that failed in the last observation
    looks,      \* observations made
    verdict

vars == <<from, world, failed, looks, verdict>>

(* The predecessor is the release state.json names, so without a state     *)
(* file nothing on the target counts as one; a deploy of the release       *)
(* already current finds its own containers and route, never the other's.  *)
TargetWorld(w) ==
    /\ w.names # "predecessor" =>
           w.has \cap {"predecessorServing", "predecessorStopped"} = {}
    /\ w.names = "none" => w.route \notin {"predecessor", "both"}
    /\ w.names = "candidate" => w.route \in {"none", "both", "other"}

Init == /\ from \in AllStates
        /\ world \in {w \in TargetWorlds : from = Admitted => TargetWorld(w)}
        /\ failed \in SUBSET Reads
        /\ looks = 1
        /\ verdict = "open"

Evidenced == Observe(world, failed)
Decision == Decide(from, Evidenced)

(* Mutant: the re-observation is not bounded. *)
LooksForever ==
    /\ verdict = "open" /\ looks < 3
    /\ Decision = "INSPECT"
    /\ failed' \in SUBSET Reads
    /\ looks' = looks + 1
    /\ UNCHANGED <<from, world, verdict>>

Reobserve ==
    /\ verdict = "open" /\ looks = 1
    /\ Decision = "INSPECT"
    /\ failed' \in SUBSET Reads
    /\ looks' = 2
    /\ UNCHANGED <<from, world, verdict>>

Settle ==
    /\ verdict = "open"
    /\ Decision = "INSPECT" => looks = 2
    /\ verdict' = IF Decision = "RETRY" THEN "proceed" ELSE "refused"
    /\ UNCHANGED <<from, world, failed, looks>>

Next == Reobserve \/ Settle

Spec == Init /\ [][Next]_vars

-----------------------------------------------------------------------------
TypeOK == /\ from \in AllStates
          /\ world \in TargetWorlds
          /\ failed \in SUBSET Reads
          /\ looks \in {1, 2}
          /\ verdict \in {"open", "proceed", "refused"}

(* The deploy goes on only over a target that really is clean, whichever   *)
(* reads failed on the way: nothing runs but the release the authority     *)
(* names, that release is not stopped, and the edge does not name another  *)
(* (the RETRY case of ReconcileAfterTakeover).                             *)
ProceedsOnlyClean ==
    verdict = "proceed" /\ from = Admitted =>
        /\ world.has \subseteq {"predecessorServing", "corpses"}
        /\ world.names # "candidate"
        /\ world.route \in {"none", "predecessor"}

(* Nothing is redone and nothing is undone on evidence that could not be   *)
(* read, on a workload no one can attribute, or on bookkeeping that        *)
(* contradicts itself (R0-R4 of Decide).                                   *)
ActsOnlyOnProof ==
    Decision \in {"RETRY", "COMPENSATE"} =>
        /\ Unread(Evidenced) = {}
        /\ Evidenced["foreign"] = "absent"
        /\ ~Contradictory(Evidenced)

(* COMPENSATE always has something to go back to: the authority names the  *)
(* predecessor and its containers are there, running or restartable (R3    *)
(* and R7 together, deploy/recovery/recovery.go).                          *)
CompensationHasSource ==
    Decision = "COMPENSATE" =>
        /\ world.names = "predecessor"
        /\ world.has \cap {"predecessorServing", "predecessorStopped"} # {}

(* A redo is decided only where the records and the authority agree on     *)
(* whether the release was committed, and never over candidates running    *)
(* without it (R6 and R7 of Decide).                                       *)
RetryAgrees ==
    Decision = "RETRY" =>
        \/ from >= AuthoritativeStateCommitted /\ world.names = "candidate"
        \/ /\ from < AuthoritativeStateCommitted
           /\ world.names # "candidate"
           /\ "candidates" \notin world.has

(* The lattice's crash dispositions are what the table decides on each     *)
(* window's canonical partial world (Lattice and Decide of recovery.go).   *)
LatticeAgrees ==
    \A s \in DOMAIN CanonicalWindow :
        from = s /\ Evidenced = CanonicalWindow[s] => Decision = CrashDisposition[s]

(* A dark window already proven goes to the operator whatever else is      *)
(* unreadable and whatever the records claim (R3 before R4 of Decide).     *)
DarkIsManual == ProvenDark(Evidenced) => Decision = "MANUAL"

(* What is done to a target is justified by what is true of it, whichever  *)
(* reads failed: nothing on guesses, no undo without a source, no redo     *)
(* over uncommitted candidates or against the records, no automation over  *)
(* a dark window, and in each crash window what the lattice says (Decide   *)
(* over Observe).                                                          *)
TableIsSound ==
    /\ ActsOnlyOnProof /\ CompensationHasSource /\ RetryAgrees /\ DarkIsManual
    /\ LatticeAgrees
=============================================================================
