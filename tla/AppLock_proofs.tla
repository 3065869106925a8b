---------------------------- MODULE AppLock_proofs ----------------------------
(***************************************************************************)
(* Proofs about the per-app lock, for any number of clients, any stale     *)
(* limits and every fault.                                                 *)
(***************************************************************************)
EXTENDS AppLock, TLAPS

\* What the state of a client outside its own step may not do.
LEMMA GoToType ==
  ASSUME LockTypeOK, NEW p \in Procs, NEW point \in Points, GoTo(p, point)
  PROVE  /\ pc' \in [Procs -> Points]
         /\ pc'[p] = point
         /\ \A q \in Procs : q # p => pc'[q] = pc[q]
BY DEF GoTo, LockTypeOK

\* The lock's type invariant holds initially.
LEMMA InitTyped == LockInit => LockTypeOK
BY TimeAssumption DEF TimeAssumption, LockInit, LockTypeOK, Points, Acquiring

\* Every step of a client keeps the lock's variables in their types.
LEMMA ClientTyped ==
  ASSUME LockTypeOK, NEW p \in Procs, ClientStep(p)
  PROVE  LockTypeOK'
<1> USE TimeAssumption DEF TimeAssumption, LockTypeOK, Points, Acquiring, Holding, Final,
        At, GoTo, RemoveLock, KeepLock, Busy, RemoveIfNamed, TakesOver, ProvenLost, Acquirers
<1>1. CASE p \in Acquirers /\ Mkdir(p)
  BY <1>1 DEF Mkdir
<1>2. CASE p \in Acquirers /\ Inspect(p)
  BY <1>2 DEF Inspect
<1>3. CASE p \in Acquirers /\ Break(p)
  BY <1>3 DEF Break
<1>4. CASE p \in Acquirers /\ Remkdir(p)
  BY <1>4 DEF Remkdir
<1>5. CASE p \in Acquirers /\ WriteInfo(p)
  BY <1>5 DEF WriteInfo
<1>6. CASE p \in Acquirers /\ Unwind(p)
  BY <1>6 DEF Unwind
<1>7. CASE p \in Ops /\ Renew(p)
  BY <1>7 DEF Renew
<1>8. CASE p \in Ops /\ Release(p)
  BY <1>8 DEF Release
<1>9. CASE p \in Ops /\ Rerelease(p)
  BY <1>9 DEF Rerelease
<1>10. CASE p \in Heals /\ HealRelease(p)
  BY <1>10 DEF HealRelease
<1>11. CASE p \in Unlockers /\ UnlockRead(p)
  BY <1>11 DEF UnlockRead
<1>12. CASE p \in Unlockers /\ UnlockRemove(p)
  BY <1>12 DEF UnlockRemove
<1> QED
  BY <1>1, <1>2, <1>3, <1>4, <1>5, <1>6, <1>7, <1>8, <1>9, <1>10, <1>11, <1>12
  DEF ClientStep, Acquire

\* So do the end of a holder's work, crashes, outages and the clock.
LEMMA OtherTyped ==
  ASSUME LockTypeOK,
         EnvStep \/ \E p \in Ops \cup Heals : Finish(p)
  PROVE  LockTypeOK'
<1> USE TimeAssumption DEF TimeAssumption, LockTypeOK, Points, Acquiring, Holding, Final, GoTo, KeepLock, Procs, Acquirers
<1>1. CASE Tick
  BY <1>1 DEF Tick
<1>2. ASSUME NEW p \in Procs, Crash(p)
      PROVE  LockTypeOK'
  BY <1>2 DEF Crash
<1>3. ASSUME NEW p \in Procs, Reconnect(p)
      PROVE  LockTypeOK'
  BY <1>3 DEF Reconnect
<1>4. ASSUME NEW p \in Ops \cup Heals, Finish(p)
      PROVE  LockTypeOK'
  BY <1>4 DEF Finish
<1> QED
  BY <1>1, <1>2, <1>3, <1>4 DEF EnvStep

LEMMA StepTyped == LockTypeOK /\ [LockNext]_lockVars => LockTypeOK'
<1>1. CASE UNCHANGED lockVars
  BY <1>1 DEF lockVars, LockTypeOK
<1>2. CASE LockNext
  BY <1>2, ClientTyped, OtherTyped DEF LockNext
<1> QED
  BY <1>1, <1>2

\* Type correctness of the lock protocol.
THEOREM LockTyping == LockSpec => []LockTypeOK
BY InitTyped, StepTyped, PTL DEF LockSpec

-----------------------------------------------------------------------------
(* The invariant the guard rests on.                                       *)

LEMMA InitInv == LockInit => LockInv
BY KindsAssumption DEF KindsAssumption, LockInit, LockInv, Names, Procs, Acquirers

\* A client's step keeps the invariant: only WriteInfo names anyone, and it
\* takes its author out of the acquisition for good.
LEMMA ClientInv ==
  ASSUME LockTypeOK, LockInv, NEW p \in Procs, ClientStep(p)
  PROVE  LockInv'
<1> USE KindsAssumption DEF KindsAssumption, LockTypeOK, LockInv, Names, Points,
        Acquiring, Holding, Final, At, GoTo, RemoveLock, KeepLock, Busy,
        RemoveIfNamed, TakesOver, ProvenLost, Procs, Acquirers
<1>1. CASE p \in Acquirers /\ Mkdir(p)
  BY <1>1 DEF Mkdir
<1>2. CASE p \in Acquirers /\ Inspect(p)
  BY <1>2 DEF Inspect
<1>3. CASE p \in Acquirers /\ Break(p)
  BY <1>3 DEF Break
<1>4. CASE p \in Acquirers /\ Remkdir(p)
  BY <1>4 DEF Remkdir
<1>5. CASE p \in Acquirers /\ WriteInfo(p)
  BY <1>5 DEF WriteInfo
<1>6. CASE p \in Acquirers /\ Unwind(p)
  BY <1>6 DEF Unwind
<1>7. CASE p \in Ops /\ Renew(p)
  BY <1>7 DEF Renew
<1>8. CASE p \in Ops /\ Release(p)
  BY <1>8 DEF Release
<1>9. CASE p \in Ops /\ Rerelease(p)
  BY <1>9 DEF Rerelease
<1>10. CASE p \in Heals /\ HealRelease(p)
  BY <1>10 DEF HealRelease
<1>11. CASE p \in Unlockers /\ UnlockRead(p)
  BY <1>11 DEF UnlockRead
<1>12. CASE p \in Unlockers /\ UnlockRemove(p)
  BY <1>12 DEF UnlockRemove
<1> QED
  BY <1>1, <1>2, <1>3, <1>4, <1>5, <1>6, <1>7, <1>8, <1>9, <1>10, <1>11, <1>12
  DEF ClientStep, Acquire

\* So do the end of a holder's work, crashes, outages and the clock.
LEMMA OtherInv ==
  ASSUME LockTypeOK, LockInv,
         EnvStep \/ \E p \in Ops \cup Heals : Finish(p)
  PROVE  LockInv'
<1> USE DEF LockTypeOK, LockInv, Names, Points, Acquiring, Holding, Final, At,
        GoTo, KeepLock, Procs, Acquirers
<1>1. CASE Tick
  BY <1>1 DEF Tick
<1>2. ASSUME NEW p \in Procs, Crash(p)
      PROVE  LockInv'
  BY <1>2 DEF Crash
<1>3. ASSUME NEW p \in Procs, Reconnect(p)
      PROVE  LockInv'
  BY <1>3 DEF Reconnect
<1>4. ASSUME NEW p \in Ops \cup Heals, Finish(p)
      PROVE  LockInv'
  BY <1>4 DEF Finish
<1> QED
  BY <1>1, <1>2, <1>3, <1>4 DEF EnvStep

LEMMA StepInv == LockTypeOK /\ LockInv /\ [LockNext]_lockVars => LockInv'
<1>1. CASE UNCHANGED lockVars
  BY <1>1 DEF lockVars, LockInv, Names
<1>2. CASE LockNext
  BY <1>2, ClientInv, OtherInv DEF LockNext
<1> QED
  BY <1>1, <1>2

\* A lock file names an operation only past its own acquisition, and a
\* poisoned handle is never the named one.
THEOREM LockInvariant == LockSpec => []LockInv
<1>1. LockInit => LockTypeOK /\ LockInv
  BY InitTyped, InitInv
<1>2. LockTypeOK /\ LockInv /\ [LockNext]_lockVars => (LockTypeOK /\ LockInv)'
  BY StepTyped, StepInv
<1> QED
  BY <1>1, <1>2, PTL DEF LockSpec

-----------------------------------------------------------------------------
(* What a step may never do.                                               *)

\* A client moves nobody but itself.
LEMMA ClientMovesItself ==
  ASSUME LockTypeOK, NEW p \in Procs, NEW q \in Procs, p # q, ClientStep(q)
  PROVE  pc'[p] = pc[p]
BY DEF LockTypeOK, ClientStep, Acquire, Mkdir, Inspect, Break, Remkdir, WriteInfo,
       Unwind, Renew, Release, Rerelease, HealRelease, UnlockRead, UnlockRemove,
       Busy, GoTo

\* Only its own upload brings an info file into being; only a client that is
\* acquiring the lock brings the directory into being.
LEMMA ClientEffect ==
  ASSUME LockTypeOK, LockInv, NEW p \in Procs, ClientStep(p)
  PROVE  /\ \/ lockInfo' = lockInfo
            \/ lockInfo' = NoOne
            \/ p \in Acquirers /\ lockInfo' = p /\ pc[p] = "write"
         /\ \/ lockDir' = lockDir
            \/ lockDir' = "absent"
            \/ p \in Acquirers /\ pc[p] \in Acquiring /\ pc'[p] # pc[p]
<1> USE DEF LockTypeOK, LockInv, Names, Acquiring, At, GoTo, RemoveLock, KeepLock, Busy,
        RemoveIfNamed, TakesOver, ProvenLost, Procs
<1>1. CASE p \in Acquirers /\ Acquire(p)
  BY <1>1 DEF Acquire, Mkdir, Inspect, Break, Remkdir, WriteInfo, Unwind
<1>2. CASE p \in Ops /\ (Renew(p) \/ Release(p) \/ Rerelease(p))
  BY <1>2 DEF Renew, Release, Rerelease
<1>3. CASE p \in Heals /\ HealRelease(p)
  BY <1>3 DEF HealRelease
<1>4. CASE p \in Unlockers /\ (UnlockRead(p) \/ UnlockRemove(p))
  BY <1>4 DEF UnlockRead, UnlockRemove
<1> QED
  BY <1>1, <1>2, <1>3, <1>4 DEF ClientStep

\* The other steps leave the lock's directory and its info file alone.
LEMMA OtherEffect ==
  ASSUME EnvStep \/ \E p \in Ops \cup Heals : Finish(p)
  PROVE  UNCHANGED <<lockDir, lockInfo>>
BY DEF EnvStep, Tick, Crash, Reconnect, Finish, KeepLock

\* An operation whose release finds another's lock, or none, leaves it alone.
LEMMA OwnStepSpares ==
  ASSUME LockTypeOK, NEW p \in Ops, ClientStep(p), pc[p] \in Holding, ~Names(p)
  PROVE  UNCHANGED <<lockDir, lockInfo>>
BY KindsAssumption DEF KindsAssumption, ClientStep, Acquire, Mkdir, Inspect, Break,
   Remkdir, WriteInfo, Unwind, Renew, Release, Rerelease, At, Names, KeepLock,
   RemoveIfNamed, TakesOver, ProvenLost, Holding

\* An operation past its acquisition and not named is not named by the next step.
LEMMA StaysLost ==
  ASSUME LockTypeOK, LockInv, LockNext, NEW p \in Ops,
         pc[p] \notin Acquiring, ~Names(p)
  PROVE  ~Names(p)'
<1>1. CASE \E q \in Procs : ClientStep(q)
  BY <1>1, ClientEffect, KindsAssumption
  DEF KindsAssumption, Names, Acquiring, Procs, Acquirers
<1>2. CASE EnvStep \/ \E q \in Ops \cup Heals : Finish(q)
  BY <1>2, OtherEffect DEF Names
<1> QED
  BY <1>1, <1>2 DEF LockNext

\* Nor does it ever go back to acquiring the lock.
LEMMA StaysAcquired ==
  ASSUME LockTypeOK, LockNext, NEW p \in Ops, pc[p] \notin Acquiring
  PROVE  pc'[p] \notin Acquiring
<1> USE DEF LockTypeOK, Acquiring, At, GoTo, Procs, Acquirers
<1>1. CASE ClientStep(p)
  BY <1>1, KindsAssumption DEF KindsAssumption, ClientStep, Acquire, Mkdir, Inspect, Break,
     Remkdir, WriteInfo, Unwind, Renew, Release, Rerelease
<1>2. ASSUME NEW q \in Procs, q # p, ClientStep(q)
      PROVE  pc'[p] \notin Acquiring
  BY <1>2, ClientMovesItself
<1>3. CASE EnvStep \/ \E q \in Ops \cup Heals : Finish(q)
  BY <1>3 DEF EnvStep, Tick, Crash, Reconnect, Finish
<1> QED
  BY <1>1, <1>2, <1>3 DEF LockNext

\* ErrFenceLost is final: a holder that is no longer named never is again.
THEOREM FenceLossPermanent == LockSpec => FenceLossIsPermanent
<1>1. LockTypeOK /\ LockInv /\ [LockNext]_lockVars
      => [\A p \in Ops : (pc[p] \notin Acquiring /\ ~Names(p)) => ~Names(p)']_lockVars
  BY StaysLost DEF lockVars
<1> QED
  BY <1>1, LockTyping, LockInvariant, PTL DEF LockSpec, FenceLossIsPermanent

\* A release, retried or not, never touches a successor's lock.
THEOREM ReleaseIsFenced == LockSpec => ReleaseSparesSuccessor
<1>1. LockTypeOK /\ [LockNext]_lockVars
      => [\A p \in Ops :
            /\ pc[p] \in Holding /\ pc'[p] # pc[p]
            /\ ~Names(p)
            => UNCHANGED <<lockDir, lockInfo>>]_lockVars
  <2> SUFFICES ASSUME LockTypeOK, LockNext, NEW p \in Ops,
                      pc[p] \in Holding, pc'[p] # pc[p], ~Names(p)
               PROVE  UNCHANGED <<lockDir, lockInfo>>
    BY DEF lockVars
  <2>1. ASSUME NEW q \in Procs, ClientStep(q)
        PROVE  UNCHANGED <<lockDir, lockInfo>>
    BY <2>1, ClientMovesItself, OwnStepSpares DEF Procs, Acquirers
  <2>2. CASE EnvStep \/ \E q \in Ops \cup Heals : Finish(q)
    BY <2>2, OtherEffect
  <2> QED
    BY <2>1, <2>2 DEF LockNext
<1> QED
  BY <1>1, LockTyping, PTL DEF LockSpec, ReleaseSparesSuccessor

\* No renewal or release leaves a ghost lock behind.
THEOREM NoGhostLock == LockSpec => OnlyAcquirersCreate
<1>1. LockTypeOK /\ LockInv /\ [LockNext]_lockVars
      => [(lockDir = "absent" /\ lockDir' = "present")
            => \E p \in Acquirers : pc[p] \in Acquiring /\ pc'[p] # pc[p]]_lockVars
  BY ClientEffect, OtherEffect DEF LockNext, lockVars
<1> QED
  BY <1>1, LockTyping, LockInvariant, PTL DEF LockSpec, OnlyAcquirersCreate
-----------------------------------------------------------------------------
(* The lock implements the lease.                                          *)

\* Whom the lease names, and where its clients are.
LeaseHolder == IF lockInfo \in Ops THEN lockInfo ELSE NoOne
PhaseOf(point) == IF point \in Acquiring THEN "fresh" ELSE IF point \in Holding THEN "in" ELSE "out"
Phases == [p \in Ops |-> PhaseOf(pc[p])]

\* The clients of the lease move as the operations do.
LEMMA PhasesMove ==
  ASSUME LockTypeOK, NEW p \in Procs, NEW point \in Points, GoTo(p, point)
  PROVE  /\ p \in Ops => Phases' = [Phases EXCEPT ![p] = PhaseOf(point)]
         /\ p \notin Ops \/ PhaseOf(point) = PhaseOf(pc[p]) => Phases' = Phases
BY GoToType DEF Phases, Procs, Acquirers

\* An acquisition leaves the lease alone, takes it from whoever has it,
\* and ends in its grant or without it.
LEMMA AcquireLeases ==
  ASSUME LockTypeOK, NEW p \in Ops, Acquire(p)
  PROVE  Lease!Next \/ UNCHANGED <<LeaseHolder, Phases, lost>>
<1> USE KindsAssumption DEF KindsAssumption, At, RemoveLock, KeepLock, Busy, LeaseHolder, PhaseOf,
        Acquiring, Holding, Final, Points, Procs, Acquirers
<1>1. CASE Mkdir(p) \/ Inspect(p) \/ Remkdir(p)
  <2>1. CASE GoTo(p, "refused")
    <3>1. Phases[p] = "fresh"
      BY <1>1 DEF Mkdir, Inspect, Remkdir, Phases
    <3>2. Phases' = [Phases EXCEPT ![p] = "out"]
      BY <2>1, PhasesMove
    <3>3. LeaseHolder' = LeaseHolder /\ lost' = lost
      BY <1>1 DEF Mkdir, Inspect, Remkdir
    <3> QED
      BY <3>1, <3>2, <3>3 DEF Lease!Next, Lease!GiveUp, Lease!Move, Phases
  <2>2. ASSUME NEW point \in Acquiring, GoTo(p, point)
        PROVE  UNCHANGED <<LeaseHolder, Phases, lost>>
    <3>1. Phases' = Phases
      BY <1>1, <2>2, PhasesMove DEF Mkdir, Inspect, Remkdir
    <3> QED
      BY <1>1, <3>1 DEF Mkdir, Inspect, Remkdir
  <2> QED
    BY <1>1, <2>1, <2>2 DEF Mkdir, Inspect, Remkdir
<1>2. CASE Break(p) \/ Unwind(p)
  <2>1. Phases' = Phases
    BY <1>2, PhasesMove DEF Break, Unwind
  <2> QED
    BY <1>2, <2>1 DEF Break, Unwind, Lease!Next, Lease!Revoke, Phases
<1>3. CASE WriteInfo(p)
  <2>1. Phases[p] = "fresh"
    BY <1>3 DEF WriteInfo, Phases
  <2>2. CASE GoTo(p, "held")
    <3>1. Phases' = [Phases EXCEPT ![p] = "in"]
      BY <2>2, PhasesMove
    <3>2. LeaseHolder' = p /\ lost' = lost
      BY <1>3, <2>2, GoToType DEF WriteInfo
    <3> QED
      BY <2>1, <3>1, <3>2 DEF Lease!Next, Lease!Grant, Lease!Move, Phases
  <2>3. CASE GoTo(p, "unwind")
    <3>1. Phases' = [Phases EXCEPT ![p] = "out"]
      BY <2>3, PhasesMove
    <3> QED
      BY <1>3, <2>1, <3>1 DEF WriteInfo, Lease!Next, Lease!GiveUp, Lease!Move, Phases
  <2> QED
    BY <1>3, <2>2, <2>3 DEF WriteInfo
<1> QED
  BY <1>1, <1>2, <1>3 DEF Acquire

\* A holder gives back what is its own, or learns of its loss.
LEMMA HolderLeases ==
  ASSUME LockTypeOK, NEW p \in Ops, Renew(p) \/ Release(p) \/ Rerelease(p)
  PROVE  Lease!Next \/ UNCHANGED <<LeaseHolder, Phases, lost>>
<1> USE KindsAssumption DEF KindsAssumption, At, RemoveLock, KeepLock, RemoveIfNamed, Names, LeaseHolder, PhaseOf,
        Acquiring, Holding, Final, Points, Procs, Acquirers
<1>1. CASE Renew(p)
  BY <1>1 DEF Renew, ProvenLost, Phases, Lease!Next, Lease!Learn
<1>2. CASE Release(p) \/ Rerelease(p)
  <2>0. Phases[p] = "in" /\ UNCHANGED lost
    BY <1>2 DEF Release, Rerelease, Phases
  <2>1. LeaseHolder' = LeaseHolder \/ (LeaseHolder = p /\ LeaseHolder' = NoOne)
    BY <1>2 DEF Release, Rerelease
  <2>2. CASE GoTo(p, "done")
    <3>1. Phases' = [Phases EXCEPT ![p] = "out"]
      BY <2>2, PhasesMove
    <3> QED
      BY <2>0, <2>1, <3>1 DEF Lease!Next, Lease!Leave, Lease!Move, Phases
  <2>3. CASE GoTo(p, "rerelease")
    <3>1. Phases' = Phases
      BY <1>2, <2>3, PhasesMove DEF Release, Rerelease
    <3> QED
      BY <2>0, <2>1, <3>1 DEF Lease!Next, Lease!Revoke, Phases
  <2> QED
    BY <1>2, <2>2, <2>3 DEF Release, Rerelease
<1> QED
  BY <1>1, <1>2

\* Heal passes, freezes and unlocks only ever take it away.
LEMMA OthersLease ==
  ASSUME LockTypeOK, NEW p \in Procs \ Ops, ClientStep(p)
  PROVE  Lease!Next \/ UNCHANGED <<LeaseHolder, Phases, lost>>
<1> USE KindsAssumption DEF KindsAssumption, Procs, Acquirers
<1>1. Phases' = Phases
  BY ClientMovesItself, ClientTyped DEF Phases
<1>2. UNCHANGED lost
  BY DEF ClientStep, Acquire, Mkdir, Inspect, Break, Remkdir, WriteInfo, Unwind,
         HealRelease, UnlockRead, UnlockRemove
<1>3. LeaseHolder' = LeaseHolder \/ LeaseHolder' = NoOne
  BY DEF ClientStep, Acquire, Mkdir, Inspect, Break, Remkdir, WriteInfo, Unwind, HealRelease,
         UnlockRead, UnlockRemove, RemoveLock, KeepLock, LeaseHolder
<1> QED
  BY <1>1, <1>2, <1>3 DEF Lease!Next, Lease!Revoke, Phases, PhaseOf, LeaseHolder

\* A holder that dies leaves with the lease; the rest does not concern it.
LEMMA EnvLeases ==
  ASSUME LockTypeOK, EnvStep \/ \E p \in Ops \cup Heals : Finish(p)
  PROVE  Lease!Next \/ UNCHANGED <<LeaseHolder, Phases, lost>>
<1> USE KindsAssumption DEF KindsAssumption, At, KeepLock, LeaseHolder, PhaseOf, Acquiring, Holding, Final,
        Points, Procs, Acquirers
<1>1. ASSUME NEW p \in Procs, Crash(p)
      PROVE  Lease!Next \/ UNCHANGED <<LeaseHolder, Phases, lost>>
  <2> USE <1>1, FaultAssumption DEF FaultAssumption, Crash
  <2>1. CASE p \in Ops /\ pc[p] \in Acquiring
    <3>1. Phases[p] = "fresh" /\ Phases' = [Phases EXCEPT ![p] = "out"]
      BY <2>1, PhasesMove DEF Phases
    <3>2. LeaseHolder' = LeaseHolder /\ lost' = lost
      OBVIOUS
    <3> QED
      BY <3>1, <3>2, <2>1 DEF Lease!Next, Lease!GiveUp, Lease!Move, Phases
  <2>2. CASE p \in Ops /\ pc[p] \in Holding
    <3>1. Phases[p] = "in" /\ Phases' = [Phases EXCEPT ![p] = "out"]
      BY <2>2, PhasesMove DEF Phases
    <3> QED
      BY <3>1, <2>2 DEF Lease!Next, Lease!Leave, Lease!Move, Phases
  <2>3. CASE p \notin Ops \/ pc[p] \notin Acquiring \cup Holding
    BY <2>3, PhasesMove
  <2> QED
    BY <2>1, <2>2, <2>3
<1>2. ASSUME NEW p \in Ops \cup Heals, Finish(p)
      PROVE  UNCHANGED <<LeaseHolder, Phases, lost>>
  BY <1>2, PhasesMove DEF Finish
<1>3. CASE Tick
  BY <1>3 DEF Tick, Phases
<1>4. ASSUME NEW p \in Procs, Reconnect(p)
      PROVE  UNCHANGED <<LeaseHolder, Phases, lost>>
  BY <1>4 DEF Reconnect, Phases
<1> QED
  BY <1>1, <1>2, <1>3, <1>4 DEF EnvStep

\* Whatever breakers, ambiguous releases and dead clients do, the lock is a lease.
THEOREM LeaseImplemented == LockSpec => ImplementsLease
<1>1. LockInit => Lease!Init
  BY KindsAssumption DEF KindsAssumption, LockInit, Lease!Init, Procs, Acquirers, Acquiring
<1>2. LockTypeOK /\ [LockNext]_lockVars => [Lease!Next]_Lease!leaseVars
  <2> SUFFICES ASSUME LockTypeOK, [LockNext]_lockVars
               PROVE  Lease!Next \/ UNCHANGED <<LeaseHolder, Phases, lost>>
    BY DEF Lease!leaseVars, LeaseHolder, Phases, PhaseOf
  <2>1. ASSUME NEW p \in Procs, ClientStep(p)
        PROVE  Lease!Next \/ UNCHANGED <<LeaseHolder, Phases, lost>>
    BY <2>1, AcquireLeases, HolderLeases, OthersLease, KindsAssumption DEF KindsAssumption, ClientStep
  <2>2. CASE UNCHANGED lockVars
    BY <2>2 DEF lockVars, LeaseHolder, Phases
  <2> QED
    BY <2>1, <2>2, EnvLeases DEF LockNext
<1> QED
  BY <1>1, <1>2, LockTyping, PTL DEF LockSpec, ImplementsLease, Lease!Spec
=============================================================================
