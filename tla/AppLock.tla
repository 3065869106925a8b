------------------------------- MODULE AppLock -------------------------------
(***************************************************************************)
(* The per-app lock of internal/state: the directory                       *)
(* /deployments/<app>/.lock on the target and the info file inside it.     *)
(* Each command a client sends is one step; between two commands of one    *)
(* client any other client may run.  A guarded command (the holdership     *)
(* grep and its effect in one remote shell) is one step.                   *)
(*                                                                         *)
(* Time is the age of the info file's liveness stamp (renew_ts, or ts      *)
(* before the first renewal), in units of which AutoTTL and HealTTL are    *)
(* the two stale limits.  Ages past the larger limit are one age.          *)
(***************************************************************************)
EXTENDS Integers

CONSTANTS
  Ops,         \* operations taking an "auto" lock; each is its owner token
  Renewing,    \* the operations that call StartRenewal
  Patient,     \* the operations that wait (--wait) for as long as it takes
  Heals,       \* heal passes, taking a "heal" lock
  Freezers,    \* `teploy lock` invocations, taking a "manual" lock
  Unlockers,   \* `teploy unlock` invocations
  NoOne,       \* no info file
  AutoTTL, HealTTL, RenewEvery,
  CrashAt,     \* the program points at which a client may die
  Lossy        \* TRUE: a command may fail with or without having run,
               \* and a client may lose the target for a while

Acquirers == Ops \cup Heals \cup Freezers
Procs == Acquirers \cup Unlockers

Acquiring == {"start", "inspect", "break", "remkdir", "write"}
Holding == {"held", "release", "rerelease"}
Final == {"done", "refused", "crashed"}
Points == Acquiring \cup Holding \cup Final \cup {"unwind"}

\* The four kinds of client are distinct, and a lock file always names one.
ASSUME KindsAssumption ==
  /\ Renewing \subseteq Ops /\ Patient \subseteq Ops
  /\ Ops \cap (Heals \cup Freezers \cup Unlockers) = {}
  /\ Heals \cap (Freezers \cup Unlockers) = {}
  /\ Freezers \cap Unlockers = {}
  /\ NoOne \notin Procs

\* Three missed renewals fit inside the TTL, and heal locks expire first.
ASSUME TimeAssumption ==
  /\ AutoTTL \in Nat /\ HealTTL \in Nat /\ RenewEvery \in Nat \ {0}
  /\ 3 * RenewEvery <= AutoTTL
  /\ HealTTL <= AutoTTL

ASSUME FaultAssumption ==
  /\ CrashAt \subseteq Points \ Final
  /\ Lossy \in BOOLEAN

VARIABLES
  lockDir,     \* whether the .lock directory exists
  lockInfo,    \* whose info file is inside it (its type is the writer's kind)
  age,         \* time since that file's liveness stamp
  pc,          \* where each client is
  tookOver,    \* the handles recording that their acquisition broke a stale lock
  lost,        \* the handles poisoned because their renewer was refused
  cut          \* the holders whose connection to the target is down

lockVars == <<lockDir, lockInfo, age, pc, tookOver, lost, cut>>

LockTypeOK ==
  /\ lockDir \in {"absent", "present"}
  /\ lockInfo \in Acquirers \cup {NoOne}
  /\ age \in 0 .. AutoTTL + 1
  /\ pc \in [Procs -> Points]
  /\ tookOver \subseteq Ops
  /\ lost \subseteq Renewing
  /\ cut \subseteq Renewing

LockInit ==
  /\ lockDir = "absent"
  /\ lockInfo = NoOne
  /\ age = 0
  /\ pc = [p \in Procs |-> "start"]
  /\ tookOver = {}
  /\ lost = {}
  /\ cut = {}

-----------------------------------------------------------------------------
(* Helpers.                                                                *)

At(p, point) == pc[p] = point /\ p \notin cut
GoTo(p, point) == pc' = [pc EXCEPT ![p] = point]

\* The guard fragment: the info file names this operation's token.
Names(p) == lockInfo = p

AutoStale == lockInfo \in Ops /\ age > AutoTTL
HealStale == lockInfo \in Heals /\ age > HealTTL

\* ReleaseLock: rm -rf of the directory, whoever it belongs to.
RemoveLock ==
  /\ lockDir' = "absent"
  /\ lockInfo' = NoOne
  /\ age' = 0

KeepLock == UNCHANGED <<lockDir, lockInfo, age>>

\* (Mutant: an acquirer that breaks heal locks only.)
MayBreakHealOnly(p) == HealStale

\* What an acquirer that found the lock taken may break.
MayBreak(p) == HealStale \/ (p \in Ops /\ AutoStale)

\* A contended operation is refused, or waits and tries again.
Busy(p) ==
  \/ GoTo(p, "refused") /\ p \notin Patient
  \/ GoTo(p, "start") /\ p \in Ops

-----------------------------------------------------------------------------
(* Acquisition.                                                            *)

\* mkdir.  A lost reply reads as "taken" although the directory is now ours.
Mkdir(p) ==
  /\ At(p, "start")
  /\ \/ lockDir = "absent" /\ lockDir' = "present" /\ GoTo(p, "write")
     \/ /\ lockDir = "present" \/ Lossy
        /\ lockDir' \in IF Lossy THEN {lockDir, "present"} ELSE {lockDir}
        /\ GoTo(p, IF p \in Freezers THEN "refused" ELSE "inspect")
  /\ UNCHANGED <<lockInfo, age, tookOver, lost, cut>>

\* Read the info file and decide on what it said.  A failed read is no info.
Inspect(p) ==
  /\ At(p, "inspect")
  /\ \/ p \in Ops /\ lockInfo \in Freezers /\ GoTo(p, "refused")
     \/ MayBreak(p) /\ GoTo(p, "break")
     \/ /\ Lossy \/ (~MayBreak(p) /\ ~(p \in Ops /\ lockInfo \in Freezers))
        /\ Busy(p)
  /\ KeepLock
  /\ UNCHANGED <<tookOver, lost, cut>>

\* Remove the lock judged stale: a separate command, with no re-check.
Break(p) ==
  /\ At(p, "break")
  /\ \/ RemoveLock
     \/ Lossy /\ KeepLock
  /\ GoTo(p, "remkdir")
  /\ UNCHANGED <<tookOver, lost, cut>>

\* The handle of an operation records that it took over; a heal pass has none.
TakesOver(p) == {p} \cap Ops

\* The second mkdir; losing it is "someone else won the race".
Remkdir(p) ==
  /\ At(p, "remkdir")
  /\ \/ /\ lockDir = "absent" /\ lockDir' = "present"
        /\ GoTo(p, "write")
        /\ tookOver' = tookOver \cup TakesOver(p)
     \/ /\ lockDir = "present" \/ Lossy
        /\ lockDir' \in IF Lossy THEN {lockDir, "present"} ELSE {lockDir}
        /\ Busy(p)
        /\ UNCHANGED tookOver
  /\ UNCHANGED <<lockInfo, age, lost, cut>>

\* (Mutant: the error of the upload is dropped.)
WriteInfoUnchecked(p) ==
  /\ At(p, "write")
  /\ \/ lockDir' = "present" /\ lockInfo' = p /\ age' = 0
     \/ Lossy /\ KeepLock
  /\ GoTo(p, IF p \in Freezers THEN "done" ELSE "held")
  /\ UNCHANGED <<tookOver, lost, cut>>

\* Upload the info file; Upload itself makes the directory when it is gone.
WriteInfo(p) ==
  /\ At(p, "write")
  /\ \/ /\ lockDir' = "present" /\ lockInfo' = p /\ age' = 0
        /\ \/ GoTo(p, IF p \in Freezers THEN "done" ELSE "held")
           \/ Lossy /\ GoTo(p, "unwind")
     \/ Lossy /\ KeepLock /\ GoTo(p, "unwind")
  /\ UNCHANGED <<tookOver, lost, cut>>

\* A failed upload releases what the client believes is its own lock.
Unwind(p) ==
  /\ At(p, "unwind")
  /\ \/ RemoveLock
     \/ Lossy /\ KeepLock
  /\ GoTo(p, "refused")
  /\ UNCHANGED <<tookOver, lost, cut>>

Acquire(p) ==
  \/ Mkdir(p) \/ Inspect(p) \/ Break(p) \/ Remkdir(p) \/ WriteInfo(p) \/ Unwind(p)

-----------------------------------------------------------------------------
(* Renewal and release.                                                    *)

\* A refused renewal proves the loss.  (Mutant: so does any failed one.)
AnyFailureLost(p) == ~Names(p) \/ Lossy
ProvenLost(p) == ~Names(p)

\* (Mutant: the renewal is an upload, which makes the directory it needs.)
RenewByUpload(p) ==
  /\ p \in Renewing /\ At(p, "held") /\ p \notin lost
  /\ lockDir' = "present" /\ lockInfo' = p /\ age' = 0
  /\ UNCHANGED <<pc, tookOver, lost, cut>>

\* One tick of the renewer: the rename over the info file is guarded.
Renew(p) ==
  /\ p \in Renewing /\ At(p, "held") /\ p \notin lost
  /\ \/ Names(p) /\ age >= RenewEvery /\ age' = 0 /\ UNCHANGED lost
     \/ ProvenLost(p) /\ lost' = lost \cup {p} /\ UNCHANGED age
  /\ UNCHANGED <<lockDir, lockInfo, pc, tookOver, cut>>

\* The holder's work is over (well or badly) and renewal stops.
Finish(p) ==
  /\ At(p, "held")
  /\ GoTo(p, "release")
  /\ KeepLock
  /\ UNCHANGED <<tookOver, lost, cut>>

\* (Mutant: the release is the unfenced one.)
RemoveAnyway(p) == RemoveLock
RemoveIfNamed(p) == IF Names(p) THEN RemoveLock ELSE KeepLock

\* The guarded release; an ambiguous failure goes on to the conditional one.
Release(p) ==
  /\ p \in Ops /\ At(p, "release")
  /\ \/ RemoveIfNamed(p) /\ GoTo(p, "done")
     \/ Lossy /\ (RemoveIfNamed(p) \/ KeepLock) /\ GoTo(p, "rerelease")
  /\ UNCHANGED <<tookOver, lost, cut>>

Rerelease(p) ==
  /\ At(p, "rerelease")
  /\ \/ RemoveIfNamed(p)
     \/ Lossy /\ KeepLock
  /\ GoTo(p, "done")
  /\ UNCHANGED <<tookOver, lost, cut>>

\* Heal releases without a guard, however long its restart took.
HealRelease(h) ==
  /\ h \in Heals /\ At(h, "release")
  /\ \/ RemoveLock
     \/ Lossy /\ KeepLock
  /\ GoTo(h, "done")
  /\ UNCHANGED <<tookOver, lost, cut>>

\* `teploy unlock`: read the info file, then remove the lock if there was one.
UnlockRead(u) ==
  /\ At(u, "start")
  /\ GoTo(u, IF lockInfo = NoOne THEN "done" ELSE "break")
  /\ KeepLock
  /\ UNCHANGED <<tookOver, lost, cut>>

UnlockRemove(u) ==
  /\ At(u, "break")
  /\ RemoveLock
  /\ GoTo(u, "done")
  /\ UNCHANGED <<tookOver, lost, cut>>

-----------------------------------------------------------------------------
(* The environment.                                                        *)

Crash(p) ==
  /\ pc[p] \in CrashAt
  /\ GoTo(p, "crashed")
  /\ KeepLock
  /\ UNCHANGED <<tookOver, lost, cut>>

\* The connection of a live holder goes down or comes back.  (Of a client
\* that does not renew, an outage is a pause, which any interleaving has.)
Reconnect(p) ==
  /\ Lossy /\ p \in Renewing /\ pc[p] = "held"
  /\ cut' = IF p \in cut THEN cut \ {p} ELSE cut \cup {p}
  /\ KeepLock
  /\ UNCHANGED <<pc, tookOver, lost>>

\* The renewer of a connected live holder fires on time.
RenewalDue ==
  \E p \in Renewing : Names(p) /\ At(p, "held") /\ p \notin lost /\ age >= RenewEvery

Tick ==
  /\ lockInfo # NoOne
  /\ age <= AutoTTL
  /\ ~RenewalDue
  /\ age' = age + 1
  /\ UNCHANGED <<lockDir, lockInfo, pc, tookOver, lost, cut>>

\* Everything but a holder's own work: what FencedState composes with.
ClientStep(p) ==
  \/ p \in Acquirers /\ Acquire(p)
  \/ p \in Ops /\ (Renew(p) \/ Release(p) \/ Rerelease(p))
  \/ p \in Heals /\ HealRelease(p)
  \/ p \in Unlockers /\ (UnlockRead(p) \/ UnlockRemove(p))

EnvStep == Tick \/ \E p \in Procs : Crash(p) \/ Reconnect(p)

Stopped == \A p \in Procs : pc[p] \in Final

LockNext ==
  \/ \E p \in Procs : ClientStep(p)
  \/ \E p \in Ops \cup Heals : Finish(p)
  \/ EnvStep

LockSpec == LockInit /\ [][LockNext]_lockVars

\* Every client keeps issuing its commands, and time passes.
LockFairness ==
  /\ \A p \in Procs : WF_lockVars(ClientStep(p))
  /\ \A p \in Ops \cup Heals : WF_lockVars(Finish(p))
  /\ WF_lockVars(Tick)

FairLockSpec == LockSpec /\ LockFairness

-----------------------------------------------------------------------------
(* Properties.                                                             *)

\* What the guard rests on: an info file names an operation only after that
\* operation's own upload, never while it is still acquiring, and a poisoned
\* handle (StartRenewal's "proven loss") is never the named one.
LockInv ==
  /\ lockInfo # NoOne => lockDir = "present"
  /\ \A p \in Ops : Names(p) => pc[p] \notin Acquiring
  /\ \A p \in lost : ~Names(p) /\ pc[p] \notin Acquiring

\* lock.go, ErrFenceLost: "refused, not retried".  An operation that got past
\* its acquisition and is no longer named is never named again, whatever
\* stale renewals, ambiguous releases and late breakers do.
FenceLossIsPermanent ==
  [][\A p \in Ops : (pc[p] \notin Acquiring /\ ~Names(p)) => ~Names(p)']_lockVars

\* ReleaseLockFenced: a deferred release, its ambiguous retry included, leaves
\* a lock that names someone else strictly alone (audits A04 and T02).
ReleaseSparesSuccessor ==
  [][\A p \in Ops :
       /\ pc[p] \in Holding /\ pc'[p] # pc[p]
       /\ ~Names(p)
       => UNCHANGED <<lockDir, lockInfo>>]_lockVars

\* The lease this lock is meant to be, for the operations.
Lease == INSTANCE Lease WITH
  Clients <- Ops,
  holder <- IF lockInfo \in Ops THEN lockInfo ELSE NoOne,
  phase <- [p \in Ops |-> IF pc[p] \in Acquiring THEN "fresh"
                         ELSE IF pc[p] \in Holding THEN "in" ELSE "out"],
  poisoned <- lost

\* AcquireLockFenced's promise, with a takeover that is racy, releases that are
\* ambiguous and breakers that come late: an operation goes to work only with
\* the info file naming it, once, nothing it does touches the lock of another,
\* and a poisoned handle has lost its lock.
ImplementsLease == Lease!Spec

\* renew: only a client acquiring the lock brings its directory into being;
\* a renewal or a release that lost a race leaves no ghost lock behind.
OnlyAcquirersCreate ==
  [][(lockDir = "absent" /\ lockDir' = "present")
       => \E p \in Acquirers : pc[p] \in Acquiring /\ pc'[p] # pc[p]]_lockVars

\* A dead holder's lock heals by itself: an operation that waits long enough
\* stops waiting, holding the lock or refused by a manual freeze.
WaiterGetsThrough ==
  \A p \in Patient : pc[p] = "start" ~> pc[p] \notin Acquiring
=============================================================================
