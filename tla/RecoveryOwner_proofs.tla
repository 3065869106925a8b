----------------------- MODULE RecoveryOwner_proofs -------------------------
(***************************************************************************)
(* The owner of a broken lock proceeds only over a clean target, whatever  *)
(* reads fail on the way.  The invariant keeps, beside the typing, why a   *)
(* verdict was given: a deploy that proceeds saw RETRY, and neither the    *)
(* target nor the reads changed since.                                     *)
(***************************************************************************)
EXTENDS RecoveryOwner, TLAPS

OwnerInv ==
    /\ TypeOK
    /\ from = Admitted => TargetWorld(world)
    /\ verdict = "proceed" => Decision = "RETRY"

(* What the table acts on: past R0-R6, every class was read, no workload   *)
(* is foreign, the bookkeeping does not contradict itself, and the records *)
(* agree with the authority.                                               *)
LEMMA ActionEvidence ==
    ASSUME NEW o, NEW f, Decide(f, o) \in {"RETRY", "COMPENSATE"}
    PROVE  /\ Unread(o) = {}
           /\ ~Contradictory(o) /\ ~Unattributable(o)
           /\ ~ProvenDark(o) /\ ~RecordsDisagree(f, o)
           /\ Decide(f, o) = Dispatch(o)
  <1>1. ~(Contradictory(o) \/ Unattributable(o) \/ AuthorityUnreadable(o) \/ ProvenDark(o))
    BY DEF Decide
  <1>2. ~(SomethingUnreadable(o) \/ BothRouted(o) \/ RecordsDisagree(f, o))
    BY <1>1 DEF Decide
  <1> QED
    BY <1>1, <1>2 DEF Decide, SomethingUnreadable

(* With every class read, the evidence is the world. *)
LEMMA EvidenceIsTrue ==
    ASSUME NEW w \in TargetWorlds, NEW failed_ \in SUBSET Reads,
           Unread(Observe(w, failed_)) = {}
    PROVE  /\ failed_ = {} /\ w.route # "other"
           /\ \A c \in ContainerFacts : Observe(w, failed_)[c] = Presence(c \in w.has)
           /\ Observe(w, failed_)["routeToCandidate"] = Presence(w.route \in {"candidate", "both"})
           /\ Observe(w, failed_)["stateToPredecessor"] = Presence(w.names = "predecessor")
           /\ Observe(w, failed_)["stateToCandidate"] = Presence(w.names = "candidate")
           /\ Observe(w, failed_)["routeToPredecessor"] = Presence(w.route \in {"predecessor", "both"})
  <1> DEFINE o == Observe(w, failed_)
  <1>1. \A c \in Classes : o[c] # "unknown"
    BY DEF Unread
  <1>2. /\ o["candidates"] = ContainerEvidence(w, failed_)["candidates"]
        /\ o["routeToCandidate"] = RouteEvidence(w, failed_, {"candidate", "both"})
        /\ o["routeToPredecessor"] = RouteEvidence(w, failed_, {"predecessor", "both"})
        /\ o["stateToCandidate"] = StateEvidence(w, failed_, "candidate")
        /\ o["stateToPredecessor"] = StateEvidence(w, failed_, "predecessor")
    BY DEF Observe, Classes, ContainerFacts
  <1>3. "inventory" \notin failed_
    BY <1>1, <1>2 DEF ContainerEvidence, ContainerFacts, Classes
  <1>4. "caddyfile" \notin failed_ /\ w.route # "other"
    BY <1>1, <1>2 DEF RouteEvidence, Classes
  <1>5. "state" \notin failed_
    BY <1>1, <1>2 DEF StateEvidence, Classes
  <1>6. \A c \in ContainerFacts : o[c] = Presence(c \in w.has)
    BY <1>3 DEF Observe, ContainerEvidence, ContainerFacts, Classes
  <1> QED
    BY <1>2, <1>3, <1>4, <1>5, <1>6 DEF Reads, RouteEvidence, StateEvidence

LEMMA OwnerInit == Init => OwnerInv
  BY DEF Init, OwnerInv, TypeOK

LEMMA OwnerStep == OwnerInv /\ [Next]_vars => OwnerInv'
  <1> SUFFICES ASSUME OwnerInv, [Next]_vars PROVE OwnerInv'
    OBVIOUS
  <1>1. CASE Reobserve
    BY <1>1 DEF Reobserve, OwnerInv, TypeOK, TargetWorld
  <1>2. CASE Settle
    <2>1. Decision' = Decision
      BY <1>2 DEF Settle, Decision, Evidenced
    <2> QED
      BY <1>2, <2>1 DEF Settle, OwnerInv, TypeOK, TargetWorld
  <1>3. CASE UNCHANGED vars
    <2>1. Decision' = Decision
      BY <1>3 DEF vars, Decision, Evidenced
    <2> QED
      BY <1>3, <2>1 DEF vars, OwnerInv, TypeOK, TargetWorld
  <1> QED
    BY <1>1, <1>2, <1>3 DEF Next

(* A deploy that proceeds after breaking a lock proceeds over a target     *)
(* where nothing runs but the release the authority names, nothing of it   *)
(* is stopped and no other release carries traffic.                        *)
THEOREM OwnerProceedsClean == Spec => []ProceedsOnlyClean
  <1>1. OwnerInv => ProceedsOnlyClean
    <2> SUFFICES ASSUME OwnerInv, verdict = "proceed", from = Admitted
                 PROVE  /\ world.has \subseteq {"predecessorServing", "corpses"}
                        /\ world.names # "candidate"
                        /\ world.route \in {"none", "predecessor"}
      BY DEF ProceedsOnlyClean
    <2> DEFINE o == Observe(world, failed)
    <2>1. /\ Unread(o) = {} /\ ~Unattributable(o) /\ ~ProvenDark(o)
          /\ ~RecordsDisagree(from, o) /\ Dispatch(o) = "RETRY"
      BY ActionEvidence DEF OwnerInv, Decision, Evidenced
    <2>2. /\ world.route # "other"
          /\ \A c \in ContainerFacts : o[c] = Presence(c \in world.has)
          /\ o["routeToCandidate"] = Presence(world.route \in {"candidate", "both"})
          /\ o["stateToPredecessor"] = Presence(world.names = "predecessor")
          /\ o["stateToCandidate"] = Presence(world.names = "candidate")
      BY <2>1, EvidenceIsTrue DEF OwnerInv, TypeOK
    <2>3. world.names \in {"none", "predecessor"}
      BY <2>1, <2>2 DEF OwnerInv, TypeOK, TargetWorlds, StateFacts, Seen, Presence,
           RecordsDisagree, Admitted, AuthoritativeStateCommitted
    <2>4. "foreign" \notin world.has
      BY <2>1, <2>2 DEF Unattributable, Seen, Presence, ContainerFacts
    <2>5. CASE world.names = "predecessor"
      <3>1. Uncommitted(o) = "RETRY"
        BY <2>1, <2>2, <2>5 DEF Dispatch, Seen, Presence
      <3>2. /\ ~Seen(o, "routeToCandidate") /\ ~Seen(o, "candidates")
            /\ ~Seen(o, "predecessorStopped")
        BY <3>1 DEF Uncommitted
      <3>3. /\ "candidates" \notin world.has /\ "predecessorStopped" \notin world.has
            /\ world.route \notin {"candidate", "both"}
        BY <3>2, <2>2 DEF Seen, Presence, ContainerFacts
      <3> QED
        BY <2>2, <2>4, <2>5, <3>3
           DEF OwnerInv, TypeOK, TargetWorlds, ContainerFacts, RouteFacts
    <2>6. CASE world.names = "none"
      <3>1. NoState(o) = "RETRY"
        BY <2>1, <2>2, <2>6 DEF Dispatch, Seen, Presence
      <3>2. "candidates" \notin world.has
        BY <3>1, <2>2 DEF NoState, Seen, Presence, ContainerFacts
      <3>3. /\ world.has \cap {"predecessorServing", "predecessorStopped"} = {}
            /\ world.route \notin {"predecessor", "both"}
        BY <2>6 DEF OwnerInv, TargetWorld
      <3>4. ~Seen(o, "routeToCandidate")
        BY <2>1, <2>2, <2>6, <3>3 DEF ProvenDark, Seen, Presence, ContainerFacts
      <3>5. world.route # "candidate"
        BY <3>4, <2>2 DEF Seen, Presence
      <3> QED
        BY <2>2, <2>4, <2>6, <3>2, <3>3, <3>5
           DEF OwnerInv, TypeOK, TargetWorlds, ContainerFacts, RouteFacts
    <2> QED
      BY <2>3, <2>5, <2>6
  <1> QED
    BY <1>1, OwnerInit, OwnerStep, PTL DEF Spec

(* The records always name a lifecycle state, the target is one of those   *)
(* a read can find, and there are at most two looks.                       *)
THEOREM OwnerTypes == Spec => []TypeOK
  <1>1. OwnerInv => TypeOK
    BY DEF OwnerInv
  <1> QED
    BY <1>1, OwnerInit, OwnerStep, PTL DEF Spec

(* What holds of the target when the table acts, for every recorded state. *)
LEMMA ActionWorld ==
    ASSUME TypeOK, Decision \in {"RETRY", "COMPENSATE"}
    PROVE  /\ Unread(Evidenced) = {} /\ Dispatch(Evidenced) = Decision
           /\ ~Contradictory(Evidenced) /\ ~Unattributable(Evidenced)
           /\ ~ProvenDark(Evidenced) /\ ~RecordsDisagree(from, Evidenced)
           /\ \A c \in ContainerFacts : Evidenced[c] = Presence(c \in world.has)
           /\ Evidenced["routeToCandidate"] = Presence(world.route \in {"candidate", "both"})
           /\ Evidenced["stateToPredecessor"] = Presence(world.names = "predecessor")
           /\ Evidenced["stateToCandidate"] = Presence(world.names = "candidate")
  <1>1. /\ Unread(Evidenced) = {} /\ Dispatch(Evidenced) = Decision
        /\ ~Contradictory(Evidenced) /\ ~Unattributable(Evidenced)
        /\ ~ProvenDark(Evidenced) /\ ~RecordsDisagree(from, Evidenced)
    BY ActionEvidence DEF Decision
  <1> QED
    BY <1>1, EvidenceIsTrue DEF TypeOK, Evidenced

(* Nothing is redone or undone on unread evidence, foreign workloads or    *)
(* contradictory bookkeeping.                                              *)
LEMMA TableActsOnProof == Spec => []ActsOnlyOnProof
  <1>1. TypeOK => ActsOnlyOnProof
    <2> SUFFICES ASSUME TypeOK, Decision \in {"RETRY", "COMPENSATE"}
                 PROVE  /\ Unread(Evidenced) = {}
                        /\ Evidenced["foreign"] = "absent"
                        /\ ~Contradictory(Evidenced)
      BY DEF ActsOnlyOnProof
    <2>1. Evidenced["foreign"] = Presence("foreign" \in world.has)
      BY ActionWorld DEF ContainerFacts
    <2> QED
      BY <2>1, ActionWorld DEF Unattributable, Seen, Presence
  <1> QED
    BY <1>1, OwnerTypes, PTL

(* An undo always has a restorable predecessor the authority names.        *)
LEMMA TableCompensates == Spec => []CompensationHasSource
  <1>1. TypeOK => CompensationHasSource
    <2> SUFFICES ASSUME TypeOK, Decision = "COMPENSATE"
                 PROVE  /\ world.names = "predecessor"
                        /\ world.has \cap {"predecessorServing", "predecessorStopped"} # {}
      BY DEF CompensationHasSource
    <2> DEFINE o == Evidenced
    <2>1. /\ Seen(o, "stateToPredecessor") /\ ~Seen(o, "stateToCandidate")
          /\ Seen(o, "routeToCandidate") \/ Seen(o, "predecessorStopped")
      BY ActionWorld DEF Dispatch, Committed, Uncommitted, NoState
    <2>2. world.names = "predecessor"
      BY <2>1, ActionWorld DEF Seen, Presence
    <2>3. \A c \in {"predecessorServing", "predecessorStopped"} :
             o[c] = Presence(c \in world.has)
      BY ActionWorld DEF ContainerFacts
    <2>4. o["stateToCandidate"] = "absent"
      BY <2>2, ActionWorld DEF Presence
    <2> QED
      BY <2>1, <2>2, <2>3, <2>4, ActionWorld DEF ProvenDark, Seen, Presence
  <1> QED
    BY <1>1, OwnerTypes, PTL

(* A redo is decided only where records and authority agree on the commit  *)
(* and no uncommitted candidate runs.                                      *)
LEMMA TableRetries == Spec => []RetryAgrees
  <1>1. TypeOK => RetryAgrees
    <2> SUFFICES ASSUME TypeOK, Decision = "RETRY",
                        ~(from >= AuthoritativeStateCommitted /\ world.names = "candidate")
                 PROVE  /\ from < AuthoritativeStateCommitted
                        /\ world.names # "candidate"
                        /\ "candidates" \notin world.has
      BY DEF RetryAgrees
    <2> DEFINE o == Evidenced
    <2>1. Seen(o, "stateToCandidate") <=> world.names = "candidate"
      BY ActionWorld DEF Seen, Presence
    <2>2. from \in Nat
      BY DEF TypeOK, AllStates, Admitted, TerminalReceiptPersisted
    <2>3. from < AuthoritativeStateCommitted /\ world.names # "candidate"
      <3>1. ~RecordsDisagree(from, o)
        BY ActionWorld
      <3>2. (from >= AuthoritativeStateCommitted) <=> world.names = "candidate"
        BY <2>1, <3>1 DEF RecordsDisagree, Seen
      <3> QED
        BY <2>2, <3>2 DEF AuthoritativeStateCommitted
    <2>4. ~Seen(o, "candidates")
      BY <2>1, <2>3, ActionWorld DEF Dispatch, Uncommitted, NoState
    <2>5. o["candidates"] = Presence("candidates" \in world.has)
      BY ActionWorld DEF ContainerFacts
    <2> QED
      BY <2>3, <2>4, <2>5 DEF Seen, Presence
  <1> QED
    BY <1>1, OwnerTypes, PTL

(* A proven dark window is the operator's, whatever else is unreadable.    *)
LEMMA TableDark == Spec => []DarkIsManual
  <1>1. DarkIsManual
    BY DEF DarkIsManual, Decision, Decide
  <1> QED
    BY <1>1, PTL

(* Each window's canonical world, class by class, decides what the lattice *)
(* says of a crash in it.                                                  *)
LEMMA TableLattice == Spec => []LatticeAgrees
  <1>1. ASSUME NEW s \in Admitted .. PredecessorRetired
        PROVE  /\ CanonicalWindow[s]["stateToCandidate"]
                      = IF s >= AuthoritativeStateCommitted THEN "present" ELSE "absent"
               /\ CanonicalWindow[s]["stateToPredecessor"]
                      = IF s >= AuthoritativeStateCommitted THEN "absent" ELSE "present"
               /\ CanonicalWindow[s]["routeToCandidate"]
                      = IF s >= ReadinessPassed THEN "present" ELSE "absent"
               /\ CanonicalWindow[s]["routeToPredecessor"]
                      = IF s >= ReadinessPassed THEN "absent" ELSE "present"
               /\ CanonicalWindow[s]["candidates"]
                      = IF s = Admitted THEN "absent" ELSE "present"
               /\ CanonicalWindow[s]["predecessorServing"]
                      = IF s = PredecessorRetired THEN "absent" ELSE "present"
               /\ CanonicalWindow[s]["predecessorStopped"] = "absent"
               /\ CanonicalWindow[s]["foreign"] = "absent"
               /\ CanonicalWindow[s]["corpses"] = "absent"
    BY DEF CanonicalWindow, Classes, Admitted, Prepared, CandidatesRunning, ReadinessPassed,
           TrafficSwitched, AuthoritativeStateCommitted, PredecessorRetired
  <1>2. ASSUME NEW s \in Admitted .. PredecessorRetired
        PROVE  Decide(s, CanonicalWindow[s]) = CrashDisposition[s]
    <2> DEFINE o == CanonicalWindow[s]
    <2>1. Unread(o) = {}
      BY <1>1 DEF Unread, Classes
    <2>2. ~Contradictory(o) /\ ~Unattributable(o) /\ ~AuthorityUnreadable(o)
      BY <1>1, <2>1 DEF Contradictory, Unattributable, AuthorityUnreadable, Seen
    <2>3. ~ProvenDark(o) /\ ~BothRouted(o) /\ ~RecordsDisagree(s, o)
      BY <1>1 DEF ProvenDark, BothRouted, RecordsDisagree, Seen, Admitted, ReadinessPassed,
              AuthoritativeStateCommitted, PredecessorRetired
    <2>4. Decide(s, o) = Dispatch(o)
      BY <2>1, <2>2, <2>3 DEF Decide, SomethingUnreadable
    <2>5. Dispatch(o) = CrashDisposition[s]
      BY <1>1 DEF Dispatch, Committed, Uncommitted, NoState, Seen, CrashDisposition,
              Admitted, Prepared, CandidatesRunning, ReadinessPassed, TrafficSwitched,
              AuthoritativeStateCommitted, PredecessorRetired
    <2> QED
      BY <2>4, <2>5
  <1>3. DOMAIN CanonicalWindow = Admitted .. PredecessorRetired
    BY DEF CanonicalWindow
  <1>4. LatticeAgrees
    BY <1>2, <1>3 DEF LatticeAgrees, Decision
  <1> QED
    BY <1>4, PTL

(* Whatever is recorded, true and readable: the table acts on proof alone, *)
(* undoes only towards a predecessor the authority names and the target    *)
(* holds, redoes only where records and authority agree, leaves a proven   *)
(* dark window to the operator, and ends each crash window as the lattice  *)
(* says.                                                                   *)
THEOREM TableSoundness == Spec => []TableIsSound
  <1>1. ActsOnlyOnProof /\ CompensationHasSource /\ RetryAgrees /\ DarkIsManual
        /\ LatticeAgrees => TableIsSound
    BY DEF TableIsSound
  <1> QED
    BY <1>1, TableActsOnProof, TableCompensates, TableRetries, TableDark, TableLattice, PTL
=============================================================================
