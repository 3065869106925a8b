------------------------------ MODULE MCTriggers ------------------------------
(***************************************************************************)
(* What happens around a deploy: the operations that wait for the app      *)
(* lock, the webhook listener and the git poll that start deploys, and the *)
(* replacement owner of a broken lock.  They meet in the app lock only, so *)
(* a behaviour moves one of them, its scene, and the others rest: the      *)
(* state space is the sum of theirs and not the product.                   *)
(***************************************************************************)
EXTENDS MCAppLock, RecoveryOwner, Admission, GitPoll

CONSTANT ping

VARIABLE scene

\* A root, a commit on it that touches no watched path, and a fork.
DocsAndAFork == <<0, 1, 1>>

NobodyLocks ==
    /\ lockDir = "absent" /\ lockInfo = NoOne /\ age = 0
    /\ pc = [p \in Procs |-> "done"]
    /\ tookOver = {} /\ lost = {} /\ cut = {}

NothingToRecover ==
    /\ from = Admitted /\ failed = {} /\ looks = 1 /\ verdict = "refused"
    /\ world = [has |-> {}, names |-> "none", route |-> "none"]

MCInit ==
    /\ scene \in {"lock", "takeover", "webhook", "poll"}
    /\ AdmInit /\ GitInit
    /\ scene = "lock" => LockInit
    /\ scene # "lock" => NobodyLocks
    /\ scene = "takeover" => Init
    /\ scene # "takeover" => NothingToRecover
    /\ scene # "poll" => remote = None

MCNext ==
    \/ scene = "lock" /\ LockNext /\ UNCHANGED <<scene, vars, admVars, gitVars>>
    \/ scene = "takeover" /\ Next /\ UNCHANGED <<scene, lockVars, admVars, gitVars>>
    \/ scene = "webhook" /\ AdmNext /\ UNCHANGED <<scene, lockVars, vars, gitVars>>
    \/ scene = "poll" /\ GitNext /\ UNCHANGED <<scene, lockVars, vars, admVars>>

MCSpec ==
    /\ MCInit
    /\ [][MCNext]_<<scene, lockVars, vars, admVars, gitVars>>
    /\ \A p \in Procs : WF_lockVars(scene = "lock" /\ ClientStep(p))
    /\ \A p \in Ops \cup Heals : WF_lockVars(scene = "lock" /\ Finish(p))
    /\ WF_lockVars(scene = "lock" /\ Tick)
    /\ WF_admVars(scene = "webhook" /\ Handler)
    /\ WF_admVars(scene = "webhook" /\ Worker)
    /\ WF_admVars(scene = "webhook" /\ Start)
    /\ WF_gitVars(scene = "poll" /\ StartPoll)
    /\ WF_gitVars(scene = "poll" /\ JobStep)
    /\ WF_gitVars(scene = "poll" /\ RetrySave)

\* The lock, the owner, the listener and the poll stay in their types, on disk too.
TriggersTypeOK == LockTypeOK /\ TypeOK /\ AdmTypeOK /\ GitTypeOK
=============================================================================
