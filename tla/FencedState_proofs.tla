-------------------------- MODULE FencedState_proofs --------------------------
(***************************************************************************)
(* Proofs about the fenced publication of an app's state, for any number   *)
(* of clients, whatever the lock, the network and the operator do.         *)
(***************************************************************************)
EXTENDS FencedState, AppLock_proofs

-----------------------------------------------------------------------------
(* The invariant.  A named holder has held the lock since it read, so what *)
(* it read is still there, or an unguarded erase has removed it.           *)

\* A publication still to come, from the client or from a late command.
Pending(p) == work[p] = "staged" \/ p \in inflight

WorkAfterLock ==
  \A p \in Ops : (work[p] # "idle" \/ p \in inflight) => pc[p] \notin Acquiring

DraftIsNext ==
  \A p \in Ops : (Pending(p) \/ work[p] = "resolve")
    => draft[p].kind # "absent" /\ draft[p].gen = saw[p].gen + 1

ReadStillCurrent ==
  \A p \in Ops : (Names(p) /\ Pending(p))
    => stateFile = saw[p] \/ stateFile.kind = "absent"

\* A holder that has not lost its lease waits for its late command to settle.
LateUnresolved ==
  \A p \in Ops : (Names(p) /\ p \in inflight)
    => work[p] \in {"resolve", "aborted", "preserved"}

ReadInv == WorkAfterLock /\ DraftIsNext /\ ReadStillCurrent /\ LateUnresolved

\* Without `teploy remove` nothing is erased behind a holder's back.
NeverErasing == \A p \in Ops : work[p] # "erase"

ReadExact == \A p \in Ops : (Names(p) /\ Pending(p)) => stateFile = saw[p]

OwnIsAuthority ==
  \A p \in Ops : (Names(p) /\ work[p] \in {"check", "repair", "mv", "ok"})
    => stateFile = draft[p]

HeldInv == NeverErasing /\ ReadExact /\ OwnIsAuthority

\* When nothing deletes the state either, generations only grow.
SidecarBehind == sidecar <= stateFile.gen /\ sideTmp <= stateFile.gen

RepairBehind ==
  \A p \in Ops : work[p] \in {"check", "repair", "mv"} => draft[p].gen <= stateFile.gen

OutBehind ==
  \A p \in Ops : p \in everOut => draft[p].gen <= stateFile.gen

OutPresent == \A p \in Ops : p \in everOut => stateFile.kind # "absent"

GrowInv == SidecarBehind /\ RepairBehind /\ OutBehind /\ OutPresent

-----------------------------------------------------------------------------
(* The lock underneath, and types.                                         *)

LEMMA LockStepIsLockNext == LockStep => LockNext
BY DEF LockStep, LockNext, FinishOp

\* The lock of the composed system is the lock specified in AppLock.
THEOREM LockRefined == Spec => LockSpec
<1>1. Init => LockInit
  BY DEF Init
<1>2. [Next]_vars => [LockNext]_lockVars
  BY LockStepIsLockNext DEF Next, vars
<1> QED
  BY <1>1, <1>2, PTL DEF Spec, LockSpec

\* What any job publishes is the next generation of what it read.
LEMMA DraftsAreNext ==
  ASSUME NEW p \in Ops, NEW job \in AllJobs, NEW cur \in Files,
         NEW d \in Drafts(p, job, cur)
  PROVE  d \in Files /\ d.kind # "absent" /\ d.gen = cur.gen + 1
<1> USE DEF Drafts, Files, File, Kinds
<1>1. CASE job = "release"
  BY <1>1 DEF NextRelease
<1>2. CASE job = "remove"
  BY <1>2 DEF NextTombstone
<1>3. CASE job = "home"
  BY <1>3 DEF NextTombstone, Remarked
<1>4. CASE job = "folder"
  BY <1>4 DEF Remarked
<1> QED
  BY <1>1, <1>2, <1>3, <1>4 DEF AllJobs

LEMMA InitTypeOK == Init => TypeOK
BY InitTyped DEF Init, TypeOK, Files, File, Kinds, Absent, Points2

\* Every step of an operation keeps the state's variables in their types.
LEMMA FileTyped ==
  ASSUME TypeOK, FileStep, UNCHANGED lockVars
  PROVE  TypeOK'
<1> USE DEF TypeOK, Points2, Working, Ended, Do, Publish, fileVars
<1>1. LockTypeOK'
  BY DEF LockTypeOK, lockVars
<1>2. Absent \in Files
  BY DEF Absent, Files, File, Kinds
<1>3. \A p \in Ops : draft[p].gen \in Nat
  BY DEF Files
<1>4. ASSUME NEW p \in Ops, Prepare(p)
      PROVE  TypeOK'
  <2>1. draft' \in [Ops -> Files]
    BY <1>4, DraftsAreNext, StateAssumption DEF Prepare, StateAssumption
  <2> QED
    BY <1>1, <1>4, <2>1 DEF Prepare
<1>5. ASSUME NEW p \in Ops, Commit(p)
      PROVE  TypeOK'
  BY <1>1, <1>3, <1>5 DEF Commit, CommitRuns, MayPublish, AfterFailure
<1>6. ASSUME NEW p \in Ops, CommitDelayed(p) \/ Land(p)
      PROVE  TypeOK'
  BY <1>1, <1>3, <1>6 DEF CommitDelayed, Land, CommitRuns, MayPublish, AfterFailure
<1>7. ASSUME NEW p \in Ops, Resolve(p) \/ CheckLease(p)
      PROVE  TypeOK'
  BY <1>1, <1>7 DEF Resolve, CheckLease
<1>8. ASSUME NEW p \in Ops, StageSidecar(p) \/ PublishSidecar(p)
      PROVE  TypeOK'
  BY <1>1, <1>3, <1>8 DEF StageSidecar, PublishSidecar, RenameSidecar
<1>9. ASSUME NEW p \in Ops, DropTombstone(p) \/ RemoveCheck(p) \/ RemoveErase(p)
      PROVE  TypeOK'
  BY <1>1, <1>2, <1>9 DEF DropTombstone, RemoveCheck, RemoveErase
<1> QED
  BY <1>4, <1>5, <1>6, <1>7, <1>8, <1>9 DEF FileStep, Operate

LEMMA NextTyped == TypeOK /\ [Next]_vars => TypeOK'
<1> SUFFICES ASSUME TypeOK, [Next]_vars
             PROVE  TypeOK'
  OBVIOUS
<1>1. CASE LockStep /\ UNCHANGED stateVars
  <2>1. LockTypeOK'
    BY <1>1, LockStepIsLockNext, StepTyped DEF TypeOK
  <2> QED
    BY <1>1, <2>1 DEF TypeOK, stateVars
<1>2. CASE FileStep /\ UNCHANGED lockVars
  BY <1>2, FileTyped
<1>3. CASE UNCHANGED vars
  BY <1>3 DEF vars, lockVars, stateVars, TypeOK, LockTypeOK
<1> QED
  BY <1>1, <1>2, <1>3 DEF Next

\* Type correctness of the publication protocol.
THEOREM Typing == Spec => []TypeOK
BY InitTypeOK, NextTyped, PTL DEF Spec

-----------------------------------------------------------------------------
(* No lost update.                                                         *)

LEMMA InitReadInv == Init => ReadInv
BY DEF Init, ReadInv, WorkAfterLock, DraftIsNext, ReadStillCurrent, LateUnresolved, Pending

\* The lock may change hands between two steps of a holder, but a name once
\* lost is never regained, so no stale read comes to be published.
LEMMA LockKeepsReadInv ==
  ASSUME TypeOK, LockInv, ReadInv, LockStep, UNCHANGED stateVars
  PROVE  ReadInv'
<1>1. \A p \in Ops : pc[p] \notin Acquiring => pc'[p] \notin Acquiring
  BY LockStepIsLockNext, StaysAcquired DEF TypeOK
<1>2. \A p \in Ops : (pc[p] \notin Acquiring /\ Names(p)') => Names(p)
  BY LockStepIsLockNext, StaysLost DEF TypeOK
<1>3. WorkAfterLock'
  BY <1>1 DEF ReadInv, WorkAfterLock, stateVars
<1>4. DraftIsNext'
  BY DEF ReadInv, DraftIsNext, Pending, stateVars
<1>5. ReadStillCurrent' /\ LateUnresolved'
  BY <1>2 DEF ReadInv, WorkAfterLock, ReadStillCurrent, LateUnresolved, Pending, stateVars
<1> QED
  BY <1>3, <1>4, <1>5 DEF ReadInv

\* Every step on the files keeps it: only the named holder publishes, and an
\* unguarded erase leaves no state at all.
LEMMA FileKeepsReadInv ==
  ASSUME TypeOK, ReadInv, FileStep, UNCHANGED lockVars
  PROVE  ReadInv'
<1> USE DEF TypeOK, ReadInv, WorkAfterLock, DraftIsNext, ReadStillCurrent, LateUnresolved,
        Pending, Names, Held, At, Do, Publish, fileVars, lockVars, Acquiring
<1>1. ASSUME NEW p \in Ops, Prepare(p)
      PROVE  ReadInv'
  <2>1. draft'[p].kind # "absent" /\ draft'[p].gen = saw'[p].gen + 1
    BY <1>1, DraftsAreNext, StateAssumption DEF Prepare, StateAssumption
  <2>2. saw'[p] = stateFile' /\ work'[p] = "staged" /\ pc[p] = "held"
    BY <1>1 DEF Prepare
  <2>3. Names(p) => p \notin inflight
    BY <1>1 DEF Prepare
  <2>4. \A q \in Ops : q # p =>
          draft'[q] = draft[q] /\ saw'[q] = saw[q] /\ work'[q] = work[q]
    BY <1>1 DEF Prepare
  <2> QED
    BY <1>1, <2>1, <2>2, <2>3, <2>4 DEF Prepare
<1>2. ASSUME NEW p \in Ops, Commit(p)
      PROVE  ReadInv'
  BY <1>2 DEF Commit, CommitRuns, MayPublish, AfterFailure
<1>3. ASSUME NEW p \in Ops, CommitDelayed(p)
      PROVE  ReadInv'
  BY <1>3 DEF CommitDelayed
<1>4. ASSUME NEW p \in Ops, Land(p)
      PROVE  ReadInv'
  BY <1>4 DEF Land, CommitRuns, MayPublish, AfterFailure
<1>5. ASSUME NEW p \in Ops, Resolve(p)
      PROVE  ReadInv'
  <2>1. (Names(p) /\ p \in inflight) => stateFile # draft[p]
    BY DEF Files
  <2> QED
    BY <1>5, <2>1 DEF Resolve
<1>6. ASSUME NEW p \in Ops, CheckLease(p) \/ StageSidecar(p) \/ PublishSidecar(p)
      PROVE  ReadInv'
  BY <1>6 DEF CheckLease, StageSidecar, PublishSidecar
<1>7. ASSUME NEW p \in Ops, DropTombstone(p)
      PROVE  ReadInv'
  BY <1>7 DEF DropTombstone
<1>8. ASSUME NEW p \in Ops, RemoveCheck(p)
      PROVE  ReadInv'
  BY <1>8 DEF RemoveCheck
<1>9. ASSUME NEW p \in Ops, RemoveErase(p)
      PROVE  ReadInv'
  BY <1>9 DEF RemoveErase, Absent, File
<1> QED
  BY <1>1, <1>2, <1>3, <1>4, <1>5, <1>6, <1>7, <1>8, <1>9 DEF FileStep, Operate

LEMMA NextReadInv == TypeOK /\ LockInv /\ ReadInv /\ [Next]_vars => ReadInv'
<1> SUFFICES ASSUME TypeOK, LockInv, ReadInv, UNCHANGED vars
             PROVE  ReadInv'
  BY LockKeepsReadInv, FileKeepsReadInv DEF Next
<1> QED
  BY DEF ReadInv, WorkAfterLock, DraftIsNext, ReadStillCurrent, LateUnresolved,
     Pending, Names, vars, lockVars, stateVars

\* What a named holder has read is the committed state until it publishes.
THEOREM ReadInvariant == Spec => []ReadInv
<1>1. Init => ReadInv
  BY InitReadInv
<1> QED
  BY <1>1, NextReadInv, Typing, LockRefined, LockInvariant, PTL DEF Spec

\* Whatever happens to the lock, a state that replaces a state is its next
\* generation: no successor's commit is overwritten.
THEOREM NoUpdateLost == Spec => NoLostUpdate
<1>1. TypeOK /\ ReadInv /\ [Next]_vars
      => [(stateFile.kind # "absent" /\ stateFile'.kind # "absent" /\ stateFile' # stateFile)
            => stateFile'.gen = stateFile.gen + 1]_stateFile
  <2> SUFFICES ASSUME TypeOK, ReadInv, FileStep, UNCHANGED lockVars,
                      stateFile.kind # "absent", stateFile'.kind # "absent",
                      stateFile' # stateFile
               PROVE  stateFile'.gen = stateFile.gen + 1
    BY DEF Next, vars, stateVars
  <2>1. ASSUME NEW p \in Ops, Commit(p) \/ Land(p)
        PROVE  stateFile'.gen = stateFile.gen + 1
    BY <2>1 DEF Commit, Land, CommitRuns, MayPublish, AfterFailure, Publish, Held, ReadInv, DraftIsNext,
       ReadStillCurrent, Pending
  <2>2. ASSUME NEW p \in Ops, DropTombstone(p) \/ RemoveErase(p)
        PROVE  FALSE
    BY <2>2 DEF DropTombstone, RemoveErase, Absent, File
  <2> QED
    BY <2>1, <2>2 DEF FileStep, Operate, Prepare, CommitDelayed, Resolve, CheckLease,
       StageSidecar, PublishSidecar, RemoveCheck, fileVars
<1> QED
  BY <1>1, Typing, ReadInvariant, PTL DEF Spec, NoLostUpdate

-----------------------------------------------------------------------------
(* Implementing the register: the jobs other than `teploy remove`.         *)

LEMMA InitHeldInv == Init => HeldInv
BY DEF Init, HeldInv, NeverErasing, ReadExact, OwnIsAuthority, Pending

LEMMA LockKeepsHeldInv ==
  ASSUME TypeOK, LockInv, ReadInv, HeldInv, LockStep, UNCHANGED stateVars
  PROVE  HeldInv'
<1>1. \A p \in Ops : (work[p] # "idle" \/ p \in inflight) /\ Names(p)' => Names(p)
  BY LockStepIsLockNext, StaysLost DEF TypeOK, ReadInv, WorkAfterLock
<1> QED
  BY <1>1 DEF HeldInv, NeverErasing, ReadExact, OwnIsAuthority, Pending, stateVars

LEMMA FileKeepsHeldInv ==
  ASSUME TypeOK, ReadInv, HeldInv, FileStep, UNCHANGED lockVars, "remove" \notin Jobs
  PROVE  HeldInv'
<1> USE DEF TypeOK, HeldInv, NeverErasing, ReadExact, OwnIsAuthority, ReadInv,
        DraftIsNext, LateUnresolved, Pending, Names, Held, At, Do, Publish, fileVars, lockVars
<1>1. ASSUME NEW p \in Ops, Prepare(p)
      PROVE  HeldInv'
  <2>1. saw'[p] = stateFile' /\ work'[p] = "staged"
    BY <1>1 DEF Prepare
  <2>2. \A q \in Ops : q # p =>
          draft'[q] = draft[q] /\ saw'[q] = saw[q] /\ work'[q] = work[q]
    BY <1>1 DEF Prepare
  <2> QED
    BY <1>1, <2>1, <2>2 DEF Prepare
<1>2. ASSUME NEW p \in Ops, Commit(p)
      PROVE  HeldInv'
  BY <1>2 DEF Commit, CommitRuns, MayPublish, AfterFailure
<1>3. ASSUME NEW p \in Ops, CommitDelayed(p)
      PROVE  HeldInv'
  BY <1>3 DEF CommitDelayed
<1>4. ASSUME NEW p \in Ops, Land(p)
      PROVE  HeldInv'
  BY <1>4 DEF Land, CommitRuns, MayPublish, AfterFailure
<1>5. ASSUME NEW p \in Ops, Resolve(p)
      PROVE  HeldInv'
  BY <1>5 DEF Resolve
<1>6. ASSUME NEW p \in Ops, CheckLease(p) \/ StageSidecar(p) \/ PublishSidecar(p)
      PROVE  HeldInv'
  BY <1>6 DEF CheckLease, StageSidecar, PublishSidecar
<1>7. ASSUME NEW p \in Ops, DropTombstone(p)
      PROVE  HeldInv'
  BY <1>7 DEF DropTombstone
<1>8. ASSUME NEW p \in Ops, RemoveCheck(p) \/ RemoveErase(p)
      PROVE  FALSE
  BY <1>8 DEF RemoveCheck, RemoveErase
<1> QED
  BY <1>1, <1>2, <1>3, <1>4, <1>5, <1>6, <1>7, <1>8 DEF FileStep, Operate

LEMMA NextHeldInv ==
  "remove" \notin Jobs
    => (TypeOK /\ LockInv /\ ReadInv /\ HeldInv /\ [Next]_vars => HeldInv')
<1> SUFFICES ASSUME HeldInv, UNCHANGED vars
             PROVE  HeldInv'
  BY LockKeepsHeldInv, FileKeepsHeldInv DEF Next
<1> QED
  BY DEF HeldInv, NeverErasing, ReadExact, OwnIsAuthority, Pending, Names, vars,
     lockVars, stateVars

\* Without `remove`, what a named holder read or published is authority exactly.
THEOREM HeldInvariant ==
  ASSUME "remove" \notin Jobs
  PROVE  Spec => []HeldInv
<1>1. TypeOK /\ LockInv /\ ReadInv /\ HeldInv /\ [Next]_vars => HeldInv'
  BY NextHeldInv
<1> QED
  BY <1>1, InitHeldInv, Typing, ReadInvariant, LockRefined, LockInvariant, PTL DEF Spec

\* A commit that answered success stays authority while its lock is held.
THEOREM OkStaysAuthority ==
  ASSUME "remove" \notin Jobs
  PROVE  Spec => []OkIsAuthority
<1>1. HeldInv => OkIsAuthority
  BY DEF HeldInv, OwnIsAuthority, OkIsAuthority
<1> QED
  BY <1>1, HeldInvariant, PTL

\* The guarded publication is a compare-and-swap on the app's state.
THEOREM RegisterImplemented ==
  ASSUME "remove" \notin Jobs
  PROVE  Spec => ImplementsRegister
<1>1. Init => Register!Init
  BY DEF Init, Register!Init
<1>2. TypeOK /\ TypeOK' /\ HeldInv /\ [Next]_vars => [Register!Next]_Register!registerVars
  <2> SUFFICES ASSUME TypeOK, TypeOK', HeldInv, FileStep
               PROVE  Register!Next \/ UNCHANGED <<stateFile, saw>>
    BY DEF Next, vars, stateVars, Register!registerVars
  <2> USE DEF Register!Next, fileVars
  <2>1. ASSUME NEW p \in Ops, Prepare(p)
        PROVE  Register!Read(p)
    BY <2>1 DEF Prepare, Register!Read
  <2>2. ASSUME NEW p \in Ops, Commit(p) \/ Land(p)
        PROVE  Register!Replace(p) \/ UNCHANGED <<stateFile, saw>>
    BY <2>2 DEF Commit, Land, CommitRuns, MayPublish, AfterFailure, Publish, Held, HeldInv, ReadExact, Pending,
       TypeOK, Register!Replace
  <2>3. ASSUME NEW p \in Ops, DropTombstone(p) \/ RemoveErase(p)
        PROVE  Register!Reset
    BY <2>3 DEF DropTombstone, RemoveErase, Register!Reset
  <2>4. ASSUME NEW p \in Ops,
               \/ CommitDelayed(p) \/ Resolve(p) \/ CheckLease(p)
               \/ StageSidecar(p) \/ PublishSidecar(p) \/ RemoveCheck(p)
        PROVE  UNCHANGED <<stateFile, saw>>
    BY <2>4 DEF CommitDelayed, Resolve, CheckLease, StageSidecar, PublishSidecar, RemoveCheck
  <2> QED
    BY <2>1, <2>2, <2>3, <2>4 DEF FileStep, Operate
<1> QED
  BY <1>1, <1>2, Typing, HeldInvariant, PTL DEF Spec, ImplementsRegister, Register!Spec

-----------------------------------------------------------------------------
(* Commits alone: no operation that deletes state.json.                    *)

CommitsOnly == Jobs \subseteq {"release", "home"}

LEMMA InitGrowInv == Init => GrowInv
BY DEF Init, GrowInv, SidecarBehind, RepairBehind, OutBehind, OutPresent, Absent, File

LEMMA FileKeepsGrowInv ==
  ASSUME CommitsOnly, TypeOK, ReadInv, HeldInv, GrowInv, FileStep, UNCHANGED lockVars
  PROVE  GrowInv'
<1> USE DEF GrowInv, SidecarBehind, RepairBehind, OutBehind, OutPresent, Held, Do, Publish,
        fileVars, lockVars
<1> DEFINE Gens == /\ stateFile.gen \in Nat /\ sidecar \in Nat /\ sideTmp \in Nat
                   /\ \A q \in Ops : saw[q].gen \in Nat /\ draft[q].gen \in Nat
<1>1. Gens
  BY DEF TypeOK, Files
<1>2. \A p \in Ops : (Names(p) /\ Pending(p)) =>
        draft[p].kind # "absent" /\ draft[p].gen = stateFile.gen + 1
  BY DEF ReadInv, DraftIsNext, HeldInv, ReadExact
<1>3. ASSUME NEW p \in Ops, Prepare(p)
      PROVE  GrowInv'
  <2>1. \A q \in Ops : q # p => draft'[q] = draft[q] /\ work'[q] = work[q]
    BY <1>3 DEF Prepare, TypeOK
  <2>2. work'[p] = "staged" /\ p \notin everOut' /\ everOut' \subseteq everOut
    BY <1>3 DEF Prepare, TypeOK
  <2> QED
    BY <1>3, <2>1, <2>2 DEF Prepare, TypeOK
<1>4. ASSUME NEW p \in Ops, Commit(p)
      PROVE  GrowInv'
  BY <1>1, <1>2, <1>4 DEF Commit, CommitRuns, MayPublish, AfterFailure, Pending, TypeOK
<1>5. ASSUME NEW p \in Ops, CommitDelayed(p)
      PROVE  GrowInv'
  BY <1>5 DEF CommitDelayed, TypeOK
<1>6. ASSUME NEW p \in Ops, Land(p)
      PROVE  GrowInv'
  BY <1>1, <1>2, <1>6 DEF Land, CommitRuns, MayPublish, AfterFailure, Pending, TypeOK
<1>7. ASSUME NEW p \in Ops, Resolve(p) \/ CheckLease(p)
      PROVE  GrowInv'
  BY <1>1, <1>7 DEF Resolve, CheckLease, TypeOK
<1>8. ASSUME NEW p \in Ops, StageSidecar(p) \/ PublishSidecar(p)
      PROVE  GrowInv'
  BY <1>1, <1>8 DEF StageSidecar, PublishSidecar, RenameSidecar, TypeOK
<1>9. ASSUME NEW p \in Ops, DropTombstone(p) \/ RemoveCheck(p) \/ RemoveErase(p)
      PROVE  FALSE
  BY <1>9 DEF DropTombstone, RemoveCheck, RemoveErase, CommitsOnly, HeldInv, NeverErasing
<1> QED
  BY <1>3, <1>4, <1>5, <1>6, <1>7, <1>8, <1>9 DEF FileStep, Operate

LEMMA NextGrowInv ==
  CommitsOnly => (TypeOK /\ ReadInv /\ HeldInv /\ GrowInv /\ [Next]_vars => GrowInv')
<1> SUFFICES ASSUME GrowInv, UNCHANGED stateVars
             PROVE  GrowInv'
  BY FileKeepsGrowInv DEF Next, vars
<1> QED
  BY DEF GrowInv, SidecarBehind, RepairBehind, OutBehind, OutPresent, stateVars

\* When nothing deletes the state, its sidecar never runs ahead of it.
THEOREM GrowInvariant ==
  ASSUME CommitsOnly
  PROVE  Spec => []GrowInv
<1>1. TypeOK /\ ReadInv /\ HeldInv /\ GrowInv /\ [Next]_vars => GrowInv'
  BY NextGrowInv
<1>2. Spec => []HeldInv
  BY HeldInvariant DEF CommitsOnly
<1> QED
  BY <1>1, <1>2, InitGrowInv, Typing, ReadInvariant, PTL DEF Spec

\* A holder that read the current state is never fenced by a predecessor.
THEOREM CommitNotFenced ==
  ASSUME CommitsOnly
  PROVE  Spec => []HolderCanCommit
<1>1. TypeOK /\ HeldInv /\ GrowInv => HolderCanCommit
  BY DEF TypeOK, Files, HeldInv, ReadExact, Pending, GrowInv, SidecarBehind,
     HolderCanCommit, CASRefuses
<1>2. Spec => []HeldInv
  BY HeldInvariant DEF CommitsOnly
<1> QED
  BY <1>1, <1>2, Typing, GrowInvariant, PTL

-----------------------------------------------------------------------------
(* The proof an abort rests on.                                            *)

LEMMA InitAborted == Init => AbortedUnpublished
BY DEF Init, AbortedUnpublished

\* What an operation prepared was not authority when it aborted, and becomes so
\* only by a command that runs after that.
LEMMA NextAborted ==
  CommitsOnly
    => (/\ TypeOK /\ ReadInv /\ HeldInv /\ GrowInv /\ AbortedUnpublished
        /\ [Next]_vars
        => AbortedUnpublished')
<1> SUFFICES ASSUME CommitsOnly, TypeOK, ReadInv, HeldInv, GrowInv,
                    AbortedUnpublished, FileStep
             PROVE  AbortedUnpublished'
  BY DEF Next, vars, stateVars, AbortedUnpublished
<1> USE DEF TypeOK, AbortedUnpublished, Held, Do, Publish, fileVars
<1>1. ASSUME NEW p \in Ops, Resolve(p)
      PROVE  AbortedUnpublished'
  <2>1. work'[p] = "aborted" => p \notin everOut
    BY <1>1 DEF Resolve, PriorProves, GrowInv, OutBehind, OutPresent, Files
  <2> QED
    BY <1>1, <2>1 DEF Resolve
<1>2. ASSUME NEW p \in Ops, Prepare(p) \/ Commit(p) \/ CommitDelayed(p)
      PROVE  AbortedUnpublished'
  BY <1>2 DEF Prepare, Commit, CommitRuns, MayPublish, AfterFailure, CommitDelayed
<1>3. ASSUME NEW p \in Ops, Land(p)
      PROVE  AbortedUnpublished'
  BY <1>3 DEF Land, CommitRuns, MayPublish
<1>4. ASSUME NEW p \in Ops, CheckLease(p) \/ StageSidecar(p) \/ PublishSidecar(p)
      PROVE  AbortedUnpublished'
  BY <1>4 DEF CheckLease, StageSidecar, PublishSidecar
<1>5. ASSUME NEW p \in Ops, DropTombstone(p) \/ RemoveCheck(p) \/ RemoveErase(p)
      PROVE  AbortedUnpublished'
  BY <1>5 DEF DropTombstone, RemoveCheck, RemoveErase
<1> QED
  BY <1>1, <1>2, <1>3, <1>4, <1>5 DEF FileStep, Operate

(* resolvePublication: "a prior state proves this write did not publish".  *)
(* While nothing deletes the state, the operation that concludes so is     *)
(* right when it does, whatever became of its answer, its lock and the     *)
(* sidecar, for any number of clients; only a command it stopped waiting   *)
(* for, run after that, can prove it wrong.                                *)
THEOREM AbortIsSafe ==
  ASSUME CommitsOnly
  PROVE  Spec => []AbortedUnpublished
<1>1. /\ TypeOK /\ ReadInv /\ HeldInv /\ GrowInv /\ AbortedUnpublished
      /\ [Next]_vars
      => AbortedUnpublished'
  BY NextAborted
<1>2. Spec => []HeldInv
  BY HeldInvariant DEF CommitsOnly
<1> QED
  BY <1>1, <1>2, InitAborted, Typing, ReadInvariant, GrowInvariant, PTL DEF Spec
=============================================================================
