------------------------------ MODULE Recovery ------------------------------
(***************************************************************************)
(* The decision table of internal/deploy/recovery: what automation may do  *)
(* about a deploy that stopped half way, from the state its records name   *)
(* and the evidence read on the target.  Pure operators; the owner that    *)
(* reads, re-reads and acts on the decision is RecoveryOwner and, over a   *)
(* running deploy, DeployLifecycle.                                        *)
(***************************************************************************)
EXTENDS Naturals

(* Lifecycle states in commit order, as their position in AllStates. *)
Admitted == 0
Prepared == 1
CandidatesRunning == 2
ReadinessPassed == 3
TrafficSwitched == 4
AuthoritativeStateCommitted == 5
PredecessorRetired == 6
TerminalReceiptPersisted == 7

AllStates == Admitted .. TerminalReceiptPersisted

Dispositions == {"RETRY", "INSPECT", "COMPENSATE", "MANUAL"}

Evidence == {"absent", "present", "unknown"}

(* The release record is collected too but never consulted by the table.   *)
Classes == {"candidates", "corpses", "foreign", "routeToCandidate",
            "routeToPredecessor", "stateToCandidate", "stateToPredecessor",
            "predecessorServing", "predecessorStopped"}

Observations == [Classes -> Evidence]

Seen(o, c) == o[c] = "present"
Unread(o) == {c \in Classes : o[c] = "unknown"}

-----------------------------------------------------------------------------
(* The rules, in evaluation order. *)

(* R0 *)
Contradictory(o) ==
    \/ Seen(o, "stateToCandidate") /\ Seen(o, "stateToPredecessor")
    \/ Seen(o, "predecessorServing") /\ Seen(o, "predecessorStopped")

(* R1 *)
Unattributable(o) == Seen(o, "foreign")

(* R2 *)
AuthorityUnreadable(o) ==
    {"stateToCandidate", "stateToPredecessor"} \cap Unread(o) # {}

(* R3: traffic on a generation the authority does not name, nothing to     *)
(* restore.                                                                *)
ProvenDark(o) ==
    /\ Seen(o, "routeToCandidate")
    /\ \A c \in {"stateToCandidate", "predecessorServing", "predecessorStopped"} :
          o[c] = "absent"

(* R4, reached only with a readable authority. *)
SomethingUnreadable(o) == Unread(o) # {}

(* R5 *)
BothRouted(o) == Seen(o, "routeToCandidate") /\ Seen(o, "routeToPredecessor")

(* R6 *)
RecordsDisagree(from, o) ==
    (from >= AuthoritativeStateCommitted) # Seen(o, "stateToCandidate")

(* R7: dispatch on the release the authority names. *)
Committed(o) == IF Seen(o, "routeToPredecessor") THEN "INSPECT" ELSE "RETRY"

(* Mutant: running candidates are reconciled before the edge is looked at. *)
CandidatesFirst(o) ==
    IF Seen(o, "candidates") THEN "INSPECT"
    ELSE IF Seen(o, "routeToCandidate") \/ Seen(o, "predecessorStopped") THEN "COMPENSATE"
    ELSE "RETRY"

Uncommitted(o) ==
    IF Seen(o, "routeToCandidate") THEN "COMPENSATE"
    ELSE IF Seen(o, "candidates") THEN "INSPECT"
    ELSE IF Seen(o, "predecessorStopped") THEN "COMPENSATE"
    ELSE "RETRY"

NoState(o) == IF Seen(o, "candidates") THEN "INSPECT" ELSE "RETRY"

Dispatch(o) ==
    IF Seen(o, "stateToCandidate") THEN Committed(o)
    ELSE IF Seen(o, "stateToPredecessor") THEN Uncommitted(o)
    ELSE NoState(o)

(* Mutant: no R3. *)
NoDarkRule(from, o) ==
    IF Contradictory(o) \/ Unattributable(o) \/ AuthorityUnreadable(o) THEN "MANUAL"
    ELSE IF SomethingUnreadable(o) \/ BothRouted(o) \/ RecordsDisagree(from, o)
    THEN "INSPECT"
    ELSE Dispatch(o)

Decide(from, o) ==
    IF Contradictory(o) \/ Unattributable(o) \/ AuthorityUnreadable(o) \/ ProvenDark(o)
    THEN "MANUAL"
    ELSE IF SomethingUnreadable(o) \/ BothRouted(o) \/ RecordsDisagree(from, o)
    THEN "INSPECT"
    ELSE Dispatch(o)

-----------------------------------------------------------------------------
(* The forward transitions and the disposition of a crash inside each      *)
(* one's window; the transition out of state s ends in s + 1.              *)
CrashDisposition ==
    [s \in Admitted .. PredecessorRetired |->
        CASE s \in {CandidatesRunning, Prepared} -> "INSPECT"
          [] s \in {ReadinessPassed, TrafficSwitched} -> "COMPENSATE"
          [] OTHER -> "RETRY"]

(* The canonical partial world of each window: the classes present. *)
CanonicalWindow ==
    [s \in Admitted .. PredecessorRetired |->
        LET present ==
            CASE s = Admitted ->
                    {"predecessorServing", "stateToPredecessor", "routeToPredecessor"}
              [] s \in {Prepared, CandidatesRunning} ->
                    {"predecessorServing", "stateToPredecessor",
                     "routeToPredecessor", "candidates"}
              [] s \in {ReadinessPassed, TrafficSwitched} ->
                    {"predecessorServing", "stateToPredecessor",
                     "routeToCandidate", "candidates"}
              [] s = AuthoritativeStateCommitted ->
                    {"predecessorServing", "stateToCandidate",
                     "routeToCandidate", "candidates"}
              [] s = PredecessorRetired ->
                    {"stateToCandidate", "routeToCandidate", "candidates"}
        IN [c \in Classes |-> IF c \in present THEN "present" ELSE "absent"]]
-----------------------------------------------------------------------------
(* What a replacement owner collects (Observe, deploy/reconcile.go).  A     *)
(* world is what is true of the target: the kinds of web container there,  *)
(* the release state.json names and the release the managed block names.   *)
ContainerFacts == {"candidates", "corpses", "foreign",
                   "predecessorServing", "predecessorStopped"}
StateFacts == {"none", "candidate", "predecessor"}
RouteFacts == {"none", "candidate", "predecessor", "both", "other"}
Reads == {"inventory", "state", "caddyfile"}

TargetWorlds == [has : SUBSET ContainerFacts, names : StateFacts, route : RouteFacts]

Presence(b) == IF b THEN "present" ELSE "absent"

(* Mutant: an unreadable inventory reads as an empty one. *)
ListFailureIsEmpty(w, failed) ==
    [c \in ContainerFacts |->
        Presence("inventory" \notin failed /\ c \in w.has)]

(* The failed listing makes three classes Unknown; the predecessor's two   *)
(* keep their zero value, Absent.                                          *)
ContainerEvidence(w, failed) ==
    [c \in ContainerFacts |->
        IF "inventory" \notin failed THEN Presence(c \in w.has)
        ELSE IF c \in {"candidates", "corpses", "foreign"} THEN "unknown"
        ELSE "absent"]

(* A managed block naming neither release is conflicting evidence. *)
RouteEvidence(w, failed, releases) ==
    IF "caddyfile" \in failed \/ w.route = "other" THEN "unknown"
    ELSE Presence(w.route \in releases)

StateEvidence(w, failed, release) ==
    IF "state" \in failed THEN "unknown" ELSE Presence(w.names = release)

Observe(w, failed) ==
    [c \in Classes |->
        IF c \in ContainerFacts THEN ContainerEvidence(w, failed)[c]
        ELSE IF c = "routeToCandidate" THEN RouteEvidence(w, failed, {"candidate", "both"})
        ELSE IF c = "routeToPredecessor" THEN RouteEvidence(w, failed, {"predecessor", "both"})
        ELSE IF c = "stateToCandidate" THEN StateEvidence(w, failed, "candidate")
        ELSE StateEvidence(w, failed, "predecessor")]
=============================================================================
