----------------------------- MODULE FencedState -----------------------------
(***************************************************************************)
(* An app's committed state under its lock: state.json, the                *)
(* committed-generation sidecar .generation, and the operations that       *)
(* replace them (a deploy's or rollback's commit, `teploy remove`,         *)
(* `teploy config home teploy` and `... folder`).  A holder reads          *)
(* state.json, prepares a successor, and publishes it in one guarded       *)
(* command that first compares the sidecar with the generation it read;    *)
(* when the answer is lost it re-reads authority before it concludes.      *)
(*                                                                         *)
(* Files staged under a unique name have no effect until they are renamed, *)
(* so only the one fixed staging name, .generation.tmp-commit, is state.   *)
(***************************************************************************)
EXTENDS AppLock

CONSTANTS
  Jobs,      \* the kinds of operation that run: a subset of AllJobs
  MaxGen,    \* bound on the generations a run explores
  Ambiguous, \* TRUE: a command on the files may fail with or without having run
  Delayed    \* TRUE: a command whose answer was lost may still run later

AllJobs == {"release", "remove", "home", "folder"}

ASSUME StateAssumption ==
  /\ Jobs \subseteq AllJobs
  /\ MaxGen \in Nat
  /\ Ambiguous \in BOOLEAN /\ Delayed \in BOOLEAN

VARIABLES
  stateFile,  \* state.json
  sidecar,    \* .generation (0: absent)
  sideTmp,    \* .generation.tmp-commit (0: absent)
  work,       \* where a holder is in its current operation
  saw,        \* the state it read under its lock
  draft,      \* the state it publishes
  everOut,    \* history: the holders whose current draft has been state.json
  inflight,   \* the holders whose commit command may still run on the target
  belied      \* history: the holders whose draft was published after they aborted

fileVars == <<stateFile, sidecar, sideTmp>>
stateVars == <<stateFile, sidecar, sideTmp, work, saw, draft, everOut, inflight, belied>>
vars == <<lockVars, stateVars>>

Kinds == {"absent", "release", "tombstone"}
File(kind, gen, schema, by) == [kind |-> kind, gen |-> gen, schema |-> schema, by |-> by]
Files == [kind : Kinds, gen : Nat, schema : {2, 3}, by : Ops \cup {NoOne}]

\* No state.json: generation 0, folder home.
Absent == File("absent", 0, 2, NoOne)

\* A holder's operation, and how it ended.  "preserved" is a PublicationError
\* with Committed or Unknown: the caller must not compensate.  "aborted" is
\* the error that lets the caller undo what it did.
Working == {"staged", "resolve", "check", "repair", "mv", "erase"}
Ended == {"ok", "aborted", "fenced", "preserved"}
Points2 == {"idle"} \cup Working \cup Ended

TypeOK ==
  /\ LockTypeOK
  /\ stateFile \in Files
  /\ sidecar \in Nat
  /\ sideTmp \in Nat
  /\ work \in [Ops -> Points2]
  /\ saw \in [Ops -> Files]
  /\ draft \in [Ops -> Files]
  /\ everOut \subseteq Ops
  /\ inflight \subseteq Ops
  /\ belied \subseteq Ops

Init ==
  /\ LockInit
  /\ stateFile = Absent
  /\ sidecar = 0
  /\ sideTmp = 0
  /\ work = [p \in Ops |-> "idle"]
  /\ saw = [p \in Ops |-> Absent]
  /\ draft = [p \in Ops |-> Absent]
  /\ everOut = {}
  /\ inflight = {}
  /\ belied = {}

-----------------------------------------------------------------------------
(* Preparing an operation.                                                 *)

Held(p, point) == p \in Ops /\ At(p, "held") /\ work[p] = point
Do(p, point) == work' = [work EXCEPT ![p] = point]

\* NewAppliedState: one generation on; the home marker carries forward.
NextRelease(p, cur) == File("release", cur.gen + 1, cur.schema, p)
\* WriteTombstone: one generation on, or generation 1 with no predecessor.
NextTombstone(p, cur) == File("tombstone", cur.gen + 1, 3, p)
\* SetSchemaVersion: the same state, one generation on, with another marker.
Remarked(p, cur, schema) == File(cur.kind, cur.gen + 1, schema, p)

\* What a job publishes over the state it read; nothing for a job that has
\* nothing to publish there.
Drafts(p, job, cur) ==
  CASE job = "release" -> {NextRelease(p, cur)}
    [] job = "remove"  -> IF cur.schema = 3 THEN {NextTombstone(p, cur)} ELSE {}
    [] job = "home"    -> IF cur.kind = "absent" THEN {NextTombstone(p, cur)}
                          ELSE IF cur.schema = 2 THEN {Remarked(p, cur, 3)} ELSE {}
    [] job = "folder"  -> IF cur.schema = 3 /\ cur.kind = "release"
                          THEN {Remarked(p, cur, 2)} ELSE {}

\* Read state.json under the lock and prepare its successor.  Staging it and
\* its sidecar under names of their own is part of the commit that follows.
Prepare(p) ==
  /\ Held(p, "idle") \/ Held(p, "ok")
  /\ stateFile.gen < MaxGen
  /\ \E job \in Jobs : \E d \in Drafts(p, job, stateFile) :
       draft' = [draft EXCEPT ![p] = d]
  /\ saw' = [saw EXCEPT ![p] = stateFile]
  /\ everOut' = everOut \ {p} /\ belied' = belied \ {p}
  /\ Do(p, "staged")
  /\ UNCHANGED <<fileVars, inflight>>

\* The commit compares generations except over a confirmed-missing state,
\* where WriteTombstone has no predecessor to compare with.
Compared(p) == ~(draft[p].kind = "tombstone" /\ saw[p].kind = "absent")
CASRefusesEqual(p) == Compared(p) /\ sidecar >= saw[p].gen \* (Mutant.)
CASRefuses(p) == Compared(p) /\ sidecar > saw[p].gen

-----------------------------------------------------------------------------
(* Publishing.                                                             *)

Publish(p) ==
  /\ stateFile' = draft[p]
  /\ everOut' = everOut \cup {p}

\* The guard and the comparison.  (Mutant: the comparison alone.)
PublishOnGeneration(p) == ~CASRefuses(p)
MayPublish(p) == Names(p) /\ ~CASRefuses(p)

\* The guarded command ran to the end, or its shell died between its renames.
CommitRuns(p) ==
  /\ MayPublish(p)
  /\ Publish(p)
  /\ \/ sidecar' = draft[p].gen
     \/ Ambiguous /\ UNCHANGED sidecar

\* Any failure is resolved against authority.  (Mutant: it is dropped.)
FailureIgnored == "ok"
AfterFailure == "resolve"

Commit(p) ==
  /\ Held(p, "staged")
  /\ \/ MayPublish(p) /\ Publish(p) /\ sidecar' = draft[p].gen /\ Do(p, "ok")
     \/ /\ Names(p) /\ CASRefuses(p) /\ Do(p, "fenced")
        /\ UNCHANGED <<stateFile, sidecar, everOut>>
     \/ /\ ~Names(p) \/ Ambiguous
        /\ Do(p, AfterFailure)
        /\ UNCHANGED <<stateFile, sidecar, everOut>>
     \/ Ambiguous /\ CommitRuns(p) /\ Do(p, AfterFailure)
  /\ UNCHANGED <<sideTmp, saw, draft, inflight, belied>>

\* The client stops waiting (a cancelled or expired context) while the command
\* is still on its way; it runs, guarded, at some later time or not at all.
CommitDelayed(p) ==
  /\ Delayed /\ Held(p, "staged")
  /\ Do(p, "resolve")
  /\ inflight' = inflight \cup {p}
  /\ UNCHANGED <<fileVars, saw, draft, everOut, belied>>

Land(p) ==
  /\ p \in inflight
  /\ inflight' = inflight \ {p}
  /\ \/ /\ CommitRuns(p)
        /\ belied' = IF work[p] = "aborted" THEN belied \cup {p} ELSE belied
     \/ ~MayPublish(p) /\ UNCHANGED <<stateFile, sidecar, everOut, belied>>
  /\ UNCHANGED <<sideTmp, work, saw, draft>>

-----------------------------------------------------------------------------
(* resolvePublication: what did the failed command do?                     *)

\* Another state proves the command did not publish only when it is a release
\* of an earlier generation (Read reports a tombstone as no state at all).
AnyPriorProves(p) == stateFile.kind = "release" \* (Mutant.)
PriorProves(p) == stateFile.kind = "release" /\ stateFile.gen < draft[p].gen

Resolve(p) ==
  /\ Held(p, "resolve")
  /\ \/ stateFile = draft[p] /\ Do(p, "check")
     \/ /\ stateFile # draft[p]
        /\ stateFile.kind = "absent" \/ PriorProves(p)
        /\ Do(p, "aborted")
     \/ /\ stateFile # draft[p]
        /\ stateFile.kind # "absent" /\ ~PriorProves(p)
        /\ Do(p, "preserved")
     \/ Ambiguous /\ Do(p, "preserved")
  /\ UNCHANGED <<fileVars, saw, draft, everOut, inflight, belied>>

\* Our state is there: repair its sidecar only while the lease still holds.
CheckLease(p) ==
  /\ Held(p, "check")
  /\ \/ Names(p) /\ Do(p, "repair")
     \/ (~Names(p) \/ Ambiguous) /\ Do(p, "preserved")
  /\ UNCHANGED <<fileVars, saw, draft, everOut, inflight, belied>>

\* writeGenerationSidecarFenced stages to one name shared by every client.
StageSidecar(p) ==
  /\ Held(p, "repair")
  /\ \/ sideTmp' = draft[p].gen /\ Do(p, "mv")
     \/ Ambiguous /\ sideTmp' \in {sideTmp, draft[p].gen} /\ Do(p, "preserved")
  /\ UNCHANGED <<stateFile, sidecar, saw, draft, everOut, inflight, belied>>

RenameSidecar == sidecar' = sideTmp /\ sideTmp' = 0

PublishSidecar(p) ==
  /\ Held(p, "mv")
  /\ \/ Names(p) /\ sideTmp # 0 /\ RenameSidecar /\ (Do(p, "ok") \/ (Ambiguous /\ Do(p, "preserved")))
     \/ /\ ~Names(p) \/ sideTmp = 0 \/ Ambiguous
        /\ Do(p, "preserved")
        /\ UNCHANGED <<sidecar, sideTmp>>
  /\ UNCHANGED <<stateFile, saw, draft, everOut, inflight, belied>>

-----------------------------------------------------------------------------
(* The two operations that delete state.json.                              *)

\* SetSchemaVersion(2) over a tombstone: a guarded rm of state.json alone.
DropTombstone(p) ==
  /\ "folder" \in Jobs
  /\ Held(p, "idle") \/ Held(p, "ok")
  /\ stateFile.kind = "tombstone" /\ Names(p)
  /\ stateFile' = Absent
  /\ draft' = [draft EXCEPT ![p] = Absent]
  /\ Do(p, "ok")
  /\ UNCHANGED <<sidecar, sideTmp, saw, everOut, inflight, belied>>

\* executeRemove of a folder app: one lease check, then a find, unguarded,
\* that deletes both files and everything staged beside them.
RemoveCheck(p) ==
  /\ "remove" \in Jobs
  /\ Held(p, "idle") \/ Held(p, "ok")
  /\ stateFile.schema = 2 /\ Names(p)
  /\ Do(p, "erase")
  /\ UNCHANGED <<fileVars, saw, draft, everOut, inflight, belied>>

RemoveErase(p) ==
  /\ Held(p, "erase")
  /\ stateFile' = Absent
  /\ sideTmp' = 0
  /\ sidecar' \in IF Ambiguous THEN {0, sidecar} ELSE {0}
  /\ draft' = [draft EXCEPT ![p] = Absent]
  /\ inflight' = {}
  /\ Do(p, "ok")
  /\ UNCHANGED <<saw, everOut, belied>>

-----------------------------------------------------------------------------
(* Composition with the lock: a holder finishes when its operation has.    *)

Operate(p) ==
  \/ Prepare(p) \/ Commit(p) \/ CommitDelayed(p)
  \/ Resolve(p) \/ CheckLease(p) \/ StageSidecar(p) \/ PublishSidecar(p)
  \/ DropTombstone(p) \/ RemoveCheck(p) \/ RemoveErase(p)

FinishOp(p) == Finish(p) /\ (p \in Ops => work[p] \notin Working)

LockStep ==
  \/ \E p \in Procs : ClientStep(p)
  \/ \E p \in Ops \cup Heals : FinishOp(p)
  \/ EnvStep

FileStep == \E p \in Ops : Operate(p) \/ Land(p)

Next ==
  \/ LockStep /\ UNCHANGED stateVars
  \/ FileStep /\ UNCHANGED lockVars

Spec == Init /\ [][Next]_vars

-----------------------------------------------------------------------------
(* Properties.                                                             *)

\* The register an app's state is meant to be.
Register == INSTANCE CommitRegister WITH
  Writers <- Ops, Values <- Files, Initial <- Absent,
  value <- stateFile, seen <- saw

\* WriteFencedGeneration implements a compare-and-swap register: whatever the
\* lock does meanwhile, a publication replaces exactly the state its author
\* read, or nothing at all (`teploy remove` of a folder app excepted).
ImplementsRegister == Register!Spec

\* No lost update: where one state replaces another, it is the next
\* generation of that one, so no successor's commit is ever overwritten.
NoLostUpdate ==
  [][(stateFile.kind # "absent" /\ stateFile'.kind # "absent" /\ stateFile' # stateFile)
       => stateFile'.gen = stateFile.gen + 1]_stateFile

\* publication.go: an error that allows the caller to compensate proves that
\* its state never became authority.  It never had when the caller concludes so;
\* what belies it is a command the caller stopped waiting for, run afterwards.
AbortedUnpublished ==
  \A p \in Ops : work[p] = "aborted" /\ p \notin belied => p \notin everOut

\* writeFenced: the sidecar follows authority and never runs ahead of it, so a
\* holder that read the current state is never fenced by its own predecessor.
SidecarNeverAhead == sidecar <= stateFile.gen
HolderCanCommit == \A p \in Ops : (work[p] = "staged" /\ Names(p)) => ~CASRefuses(p)

\* A commit that returned success is authority for as long as the lock is held.
OkIsAuthority == \A p \in Ops : (work[p] = "ok" /\ Names(p)) => stateFile = draft[p]
=============================================================================
