------------------------------- MODULE Rollback --------------------------------
(***************************************************************************)
(* Going back to an earlier release, and stopping, starting and restarting *)
(* the current one (internal/deploy/rollback.go, lifecycle.go), beside     *)
(* each other and beside redeploys.  Each command a rollback sends is one  *)
(* step; a guard and its effect in one remote shell are one step.          *)
(*                                                                         *)
(* A container is named for its release and process, so a rollback and a   *)
(* redeploy of one release meet under one name; it keeps the generation    *)
(* label it was created under through every recreate, and gets a new id.   *)
(* The lock is AppLock's lease and the commit FencedState's, both seen     *)
(* from outside; a redeploy is one step (DeployLifecycle has its commands).*)
(* All releases have the same ingress; a web process has one replica.      *)
(* Release records, drains, logs and accessories are left out.             *)
(***************************************************************************)
EXTENDS Naturals

CONSTANTS
    Actors,         \* the operations
    Nobody,         \* nobody
    Releases,       \* release hashes, numbered as the first deploys ran
    NoRelease,
    Workers,        \* the releases that have a worker beside the web process
    Jobs,           \* what an operation may be about
    Ingresses,      \* how the app may be reached
    Robbing,        \* TRUE: a live holder's lock may be broken
    Fails,          \* commands that may fail: "run", "health", "route", "state", "answer", "stop"
    Dies            \* points where a client may die

ASSUME RollbackAssumption ==
    /\ Nobody \notin Actors /\ NoRelease \notin Releases /\ Workers \subseteq Releases
    /\ Releases \subseteq Nat \ {0} /\ \E n \in Releases : Releases = 1..n
    /\ Jobs \subseteq {"rollback", "stop", "start", "restart", "redeploy"}
    /\ Ingresses \subseteq {"caddy", "published", "host", "external"}
    /\ Robbing \in BOOLEAN
    /\ Fails \subseteq {"run", "health", "route", "state", "answer", "stop"}

VARIABLES
    ingress,        \* "caddy"; "published": caddy and a fixed port; "host": a
                    \* fixed port and no caddy; "external": neither
    lease,          \* whom the lock's info file names
    boxes,          \* the app's containers by name
    edge,           \* the app's managed block
    applied,        \* state.json
    at, mind, ended,\* where each operation is, what it remembers, what it said
    robbed,         \* history: the operations that lost the lock alive
    muddied,        \* history: the operations that dropped an error of their undo
    misled          \* history: those told that a command failed which had its effect

rbVars == <<ingress, lease, boxes, edge, applied, at, mind, ended, robbed, muddied, misled>>
target == <<boxes, edge, applied>>
told == <<ended, robbed, muddied, misled>>

FixedPorts == ingress \in {"published", "host"}
UsesCaddy == ingress \in {"caddy", "published"}

Web(v) == <<v, "web">>
BoxesOf(v) == {Web(v)} \cup (IF v \in Workers THEN {<<v, "worker">>} ELSE {})
BoxNames == UNION {BoxesOf(v) : v \in Releases}
Gone == [run |-> FALSE, gen |-> 0, by |-> Nobody]
Running == {k \in BoxNames : boxes[k].run}
There == {k \in BoxNames : boxes[k] # Gone}

(* What an operation knows at the start of its job, and otherwise.         *)
NoJob_ == [job |-> "none"]
Blank_ == [job |-> "rollback", to |-> NoRelease, saw |-> applied, region |-> edge,
           switched |-> edge, listed |-> boxes, todo |-> {}, later |-> {}, now |-> Web(NoRelease),
           started |-> {}, freed |-> {}, uncommitted |-> FALSE,
           foundRunning |-> {}, foundEdge |-> edge]

Guarded(p) == lease = p
GoesTo(p, point) == at' = [at EXCEPT ![p] = point]
Says(p, outcome) ==
    ended' = [ended EXCEPT ![p] = outcome] /\ UNCHANGED <<robbed, muddied, misled>>
Leaves(p, outcome) == GoesTo(p, "release") /\ Says(p, outcome)
Keeps(p, m) == mind' = [mind EXCEPT ![p] = m]
Muddies(p) == muddied' = muddied \cup {p} /\ UNCHANGED <<ended, robbed, misled>>
Misleads(p) == misled' = misled \cup {p} /\ UNCHANGED <<ended, robbed, muddied>>
From(p) == mind[p].saw.gen

-----------------------------------------------------------------------------
(* The container commands.                                                 *)
Stopped(k) == boxes' = [boxes EXCEPT ![k].run = FALSE]

(* A stop that answers an error has stopped the container, or has not.     *)
StopFails(k) == "stop" \in Fails /\ (UNCHANGED boxes \/ Stopped(k))

(* (Mutant: the label is not looked at.)                                   *)
AnyGeneration(p, k) == TRUE

(* A name whose container carries a newer generation's label is refused.   *)
NotNewer(p, k) == boxes[k].gen <= From(p)

PortTaken(k) == FixedPorts /\ k[2] = "web" /\ \E j \in Running : j[2] = "web" /\ j # k

(* docker run of the spec inspected before the removal: the name must be   *)
(* free and a fixed port must be too.  A run that fails may leave the      *)
(* container made and not started; one whose answer is lost runs.          *)
Recreated(p, k, runs) == [run |-> runs, gen |-> mind[p].listed[k].gen, by |-> p]

RunsBox(p, k) ==
    /\ boxes[k] = Gone /\ ~PortTaken(k)
    /\ boxes' = [boxes EXCEPT ![k] = Recreated(p, k, TRUE)]

RunFails(p, k) ==
    /\ boxes[k] # Gone \/ PortTaken(k) \/ "run" \in Fails
    /\ \/ UNCHANGED boxes
       \/ boxes[k] = Gone /\ boxes' = [boxes EXCEPT ![k] = Recreated(p, k, FALSE)]

RunsUnheard(p, k) == "run" \in Fails /\ RunsBox(p, k)

(* The container an id of the inventory names, when it is still there.     *)
Same(p, k) == boxes[k] # Gone /\ boxes[k].by = mind[p].listed[k].by

-----------------------------------------------------------------------------
(* Taking the lock.                                                        *)
Free == lease \in {Nobody} \cup {q \in Actors : at[q] = "dead"}

Begin(p) ==
    /\ at[p] = "idle"
    /\ \/ Free /\ UNCHANGED robbed
       \/ ~Free /\ Robbing /\ robbed' = robbed \cup {lease}
    /\ lease' = p
    /\ \E job \in Jobs, v \in Releases \cup {NoRelease} :
          /\ job = "rollback" \/ (job = "redeploy" <=> v # NoRelease)
          /\ Keeps(p, [Blank_ EXCEPT !.job = job, !.to = v, !.foundRunning = Running])
    /\ GoesTo(p, "read")
    /\ UNCHANGED <<ingress, target, ended, muddied, misled>>

Release(p) ==
    /\ at[p] = "release"
    /\ lease' = IF Guarded(p) THEN Nobody ELSE lease
    /\ GoesTo(p, "done")
    /\ Keeps(p, NoJob_)
    /\ UNCHANGED <<ingress, target, told>>

Dying(p) ==
    /\ at[p] \in Dies
    /\ GoesTo(p, "dead")
    /\ Keeps(p, NoJob_)
    /\ UNCHANGED <<ingress, lease, target, told>>

-----------------------------------------------------------------------------
(* rollback.                                                               *)

(* The target is the release asked for, or else the previous one.          *)
ReadState(p) ==
    /\ at[p] = "read" /\ mind[p].job = "rollback"
    /\ LET to == IF mind[p].to = NoRelease THEN applied.previous ELSE mind[p].to
       IN IF to \in {NoRelease, applied.current}
          THEN Leaves(p, "refused") /\ UNCHANGED mind
          ELSE /\ Keeps(p, [mind[p] EXCEPT !.to = to, !.saw = applied])
               /\ GoesTo(p, "region")
               /\ UNCHANGED told
    /\ UNCHANGED <<ingress, lease, target>>

ReadRegion(p) ==
    /\ at[p] = "region"
    /\ Keeps(p, [mind[p] EXCEPT !.region = edge, !.switched = edge])
    /\ GoesTo(p, "list")
    /\ UNCHANGED <<ingress, lease, target, told>>

(* (Mutant: the target's web process alone comes back.)                    *)
TargetWeb(p) == {Web(mind[p].to)}

(* The target's containers, by their release label.                        *)
TargetBoxes(p) == {k \in BoxesOf(mind[p].to) : mind[p].listed[k] # Gone}

(* With fixed ports the current release's running web containers make way. *)
InTheWay(p) == {k \in Running : k = Web(mind[p].saw.current)}

ListBoxes(p) ==
    /\ at[p] = "list" /\ mind[p].job = "rollback"
    /\ IF Web(mind[p].to) \notin There
       THEN Leaves(p, "refused") /\ UNCHANGED mind
       ELSE /\ Keeps(p, [mind[p] EXCEPT !.listed = boxes,
                                        !.todo = IF FixedPorts THEN InTheWay(p) ELSE {}])
            /\ GoesTo(p, "free")
            /\ UNCHANGED told
    /\ UNCHANGED <<ingress, lease, target>>

(* A failure before the commit: stop by name what was started, bring back  *)
(* what was displaced.  Only a command that answered success is on either  *)
(* list.                                                                   *)
Unwinds(p) ==
    /\ Keeps(p, [mind[p] EXCEPT !.todo = mind[p].started, !.later = mind[p].freed])
    /\ GoesTo(p, "unstart")

FreePort(p) ==
    /\ at[p] = "free"
    /\ \/ /\ mind[p].todo = {}
          /\ Keeps(p, [mind[p] EXCEPT !.todo = TargetBoxes(p)])
          /\ GoesTo(p, "start")
          /\ UNCHANGED <<target, told>>
       \/ \E k \in mind[p].todo :
             \/ /\ Guarded(p) /\ NotNewer(p, k) /\ Same(p, k)
                /\ Stopped(k)
                /\ Keeps(p, [mind[p] EXCEPT !.todo = @ \ {k}, !.freed = @ \cup {k}])
                /\ UNCHANGED <<edge, applied, at, told>>
             \/ /\ ~Guarded(p) \/ ~NotNewer(p, k) \/ ~Same(p, k) \/ "stop" \in Fails
                /\ Unwinds(p)
                /\ UNCHANGED <<target, told>>
             \/ /\ Guarded(p) /\ NotNewer(p, k) /\ Same(p, k) /\ "stop" \in Fails
                /\ Stopped(k)
                /\ Unwinds(p) /\ Misleads(p)
                /\ UNCHANGED <<edge, applied>>
    /\ UNCHANGED <<ingress, lease>>

(* RestartFenced of a target container: inspection, then guard, label      *)
(* check and removal.  (A removal that answers an error ends like a run    *)
(* that failed and made nothing.)                                          *)
RemoveOld(p) ==
    /\ at[p] = "start"
    /\ \/ /\ mind[p].todo = {}
          /\ GoesTo(p, "health")
          /\ UNCHANGED <<target, mind, told>>
       \/ \E k \in mind[p].todo :
             \/ /\ Guarded(p) /\ NotNewer(p, k) /\ boxes[k] # Gone
                /\ boxes' = [boxes EXCEPT ![k] = Gone]
                /\ Keeps(p, [mind[p] EXCEPT !.todo = @ \ {k}, !.now = k,
                                            !.listed[k].gen = boxes[k].gen])
                /\ GoesTo(p, "run")
                /\ UNCHANGED <<edge, applied, told>>
             \/ /\ ~Guarded(p) \/ ~NotNewer(p, k) \/ boxes[k] = Gone \/ "run" \in Fails
                /\ Unwinds(p)
                /\ UNCHANGED <<target, told>>
    /\ UNCHANGED <<ingress, lease>>

RunNew(p) ==
    /\ at[p] = "run"
    /\ \/ /\ RunsBox(p, mind[p].now)
          /\ Keeps(p, [mind[p] EXCEPT !.started = @ \cup {mind[p].now}])
          /\ GoesTo(p, "start")
          /\ UNCHANGED told
       \/ RunFails(p, mind[p].now) /\ Unwinds(p) /\ UNCHANGED told
       \/ RunsUnheard(p, mind[p].now) /\ Unwinds(p) /\ Misleads(p)
    /\ UNCHANGED <<ingress, lease, edge, applied>>

(* The host port is inspected first, which a stopped container has not.    *)
CheckHealth(p) ==
    /\ at[p] = "health" /\ mind[p].job = "rollback"
    /\ \/ /\ Web(mind[p].to) \in Running
          /\ GoesTo(p, IF UsesCaddy THEN "switch" ELSE "commit")
          /\ UNCHANGED <<mind, told>>
       \/ /\ Web(mind[p].to) \notin Running \/ "health" \in Fails
          /\ Unwinds(p) /\ UNCHANGED told
    /\ UNCHANGED <<ingress, lease, target>>

RouteTo(v, gen) == [to |-> v, gen |-> gen]

(* The exact-block comparison with what was resolved, under the guard.  A  *)
(* switch that fails leaves the block, or its answer is lost; this unwind  *)
(* does not put the block back.                                            *)
SwitchRoute(p) ==
    /\ at[p] = "switch"
    /\ \/ /\ Guarded(p) /\ edge = mind[p].region
          /\ edge' = RouteTo(mind[p].to, From(p) + 1)
          /\ GoesTo(p, "reread")
          /\ UNCHANGED <<boxes, applied, mind, told>>
       \/ /\ ~Guarded(p) \/ edge # mind[p].region \/ "route" \in Fails
          /\ Unwinds(p)
          /\ UNCHANGED <<target, told>>
       \/ /\ Guarded(p) /\ edge = mind[p].region /\ "route" \in Fails
          /\ edge' = RouteTo(mind[p].to, From(p) + 1)
          /\ Unwinds(p) /\ Misleads(p)
          /\ UNCHANGED <<boxes, applied>>
    /\ UNCHANGED <<ingress, lease>>

RereadRegion(p) ==
    /\ at[p] = "reread"
    /\ Keeps(p, [mind[p] EXCEPT !.switched = edge])
    /\ GoesTo(p, "commit")
    /\ UNCHANGED <<ingress, lease, target, told>>

RolledBack(p) == [current |-> mind[p].to, previous |-> mind[p].saw.current,
                  gen |-> From(p) + 1]

(* What was running of the rolled-back-from release, by the inventory.     *)
ToRetire(p) == {k \in BoxNames : k[1] = mind[p].saw.current /\ mind[p].listed[k].run}

(* The guarded commit compares the generation.  A failure that may hide a  *)
(* publication preserves everything: an answer that did not come, or a     *)
(* lost lock over a state that is not older (resolvePublication).          *)
CommitState(p) ==
    /\ at[p] = "commit"
    /\ \/ /\ Guarded(p) /\ applied.gen <= From(p)
          /\ applied' = RolledBack(p)
          /\ Keeps(p, [mind[p] EXCEPT !.todo = ToRetire(p)])
          /\ GoesTo(p, "retire")
          /\ UNCHANGED told
       \/ /\ Guarded(p) /\ applied.gen <= From(p) /\ "answer" \in Fails
          /\ applied' \in {applied, RolledBack(p)}
          /\ Leaves(p, "preserved")
          /\ UNCHANGED mind
       \/ /\ ~Guarded(p) /\ applied.gen > From(p)
          /\ Leaves(p, "preserved")
          /\ UNCHANGED <<applied, mind>>
       \/ /\ IF Guarded(p) THEN applied.gen > From(p) \/ "state" \in Fails
                            ELSE applied.gen <= From(p)
          /\ Keeps(p, [mind[p] EXCEPT !.todo = mind[p].started, !.later = mind[p].freed,
                                      !.uncommitted = TRUE])
          /\ GoesTo(p, IF UsesCaddy THEN "unroute" ELSE "unstart")
          /\ UNCHANGED <<applied, told>>
    /\ UNCHANGED <<ingress, lease, boxes, edge>>

Sweeps(p, k) == Keeps(p, [mind[p] EXCEPT !.todo = @ \ {k}])

Retire(p) ==
    /\ at[p] = "retire"
    /\ IF mind[p].todo = {}
       THEN Leaves(p, "ok") /\ UNCHANGED <<target, mind>>
       ELSE \E k \in mind[p].todo :
              \/ /\ Guarded(p) /\ NotNewer(p, k) /\ Same(p, k)
                 /\ Stopped(k) /\ Sweeps(p, k)
                 /\ UNCHANGED <<edge, applied, at, told>>
              \/ /\ ~Guarded(p)
                 /\ Leaves(p, "ok")
                 /\ UNCHANGED <<target, mind>>
              \/ /\ Guarded(p)
                 /\ IF NotNewer(p, k) /\ Same(p, k) THEN StopFails(k) ELSE UNCHANGED boxes
                 /\ Sweeps(p, k) /\ Muddies(p)
                 /\ UNCHANGED <<edge, applied, at>>
    /\ UNCHANGED <<ingress, lease>>

-----------------------------------------------------------------------------
(* The undo.                                                               *)

(* restoreRollbackRoute goes through the client that carries the commit    *)
(* guard, and accepts the block it resolved and the one it switched to.    *)
RestoreRoute(p) ==
    /\ at[p] = "unroute"
    /\ LET back == RouteTo(mind[p].saw.current, From(p))
           ours == Guarded(p) /\ edge \in {mind[p].region, mind[p].switched}
       IN \/ ours /\ edge' = back /\ GoesTo(p, "unstart") /\ UNCHANGED told
          \/ ~ours /\ UNCHANGED edge /\ Leaves(p, "attention")
          \/ ours /\ "route" \in Fails /\ edge' \in {edge, back} /\ Leaves(p, "attention")
    /\ UNCHANGED <<boxes, applied>>
    /\ UNCHANGED <<ingress, lease, mind>>

(* By name, with neither the guard nor the label.  Only the fixed-port     *)
(* undo of a refused commit looks at the answer.                           *)
StopStarted(p) ==
    /\ at[p] = "unstart"
    /\ IF mind[p].todo = {}
       THEN /\ IF mind[p].uncommitted /\ ~FixedPorts
               THEN Leaves(p, "failed")
               ELSE GoesTo(p, "unfree") /\ UNCHANGED told
            /\ UNCHANGED <<target, mind>>
       ELSE \E k \in mind[p].todo :
              \/ /\ boxes[k] # Gone
                 /\ Stopped(k) /\ Sweeps(p, k)
                 /\ UNCHANGED <<edge, applied, at, told>>
              \/ /\ IF boxes[k] = Gone THEN UNCHANGED boxes ELSE StopFails(k)
                 /\ IF mind[p].uncommitted /\ FixedPorts
                    THEN Leaves(p, "attention") /\ UNCHANGED mind
                    ELSE Sweeps(p, k) /\ Muddies(p) /\ UNCHANGED at
                 /\ UNCHANGED <<edge, applied>>
    /\ UNCHANGED <<ingress, lease>>

(* (Mutant: the failed commit's undo leaves the displaced workload down.)  *)
NothingToRestore(p) == {}

Displaced(p) == mind[p].later

Restored(p, k) == Keeps(p, [mind[p] EXCEPT !.later = @ \ {k}])

(* restoreDisplaced: a recreate under the label check alone; its errors    *)
(* are collected.  After a refused commit the target is then removed,      *)
(* which docker refuses of a running container.                            *)
RestoreDisplaced(p) ==
    /\ at[p] = "unfree"
    /\ IF Displaced(p) = {}
       THEN /\ CASE ~mind[p].uncommitted -> Leaves(p, "failed") /\ UNCHANGED mind
                 [] mind[p].uncommitted /\ p \in muddied ->
                       Leaves(p, "attention") /\ UNCHANGED mind
                 [] OTHER -> /\ Keeps(p, [mind[p] EXCEPT !.todo = mind[p].started])
                             /\ GoesTo(p, "unmake")
                             /\ UNCHANGED told
            /\ UNCHANGED target
       ELSE \E k \in Displaced(p) :
              \/ /\ boxes[k] # Gone /\ NotNewer(p, k)
                 /\ boxes' = [boxes EXCEPT ![k] = Gone]
                 /\ Keeps(p, [mind[p] EXCEPT !.now = k, !.listed[k].gen = boxes[k].gen])
                 /\ GoesTo(p, "rerun")
                 /\ UNCHANGED <<edge, applied, told>>
              \/ /\ boxes[k] = Gone \/ ~NotNewer(p, k) \/ "run" \in Fails
                 /\ Restored(p, k) /\ Muddies(p) /\ UNCHANGED <<target, at>>
    /\ UNCHANGED <<ingress, lease>>

RerunDisplaced(p) ==
    /\ at[p] = "rerun"
    /\ \/ RunsBox(p, mind[p].now) /\ UNCHANGED told
       \/ (RunFails(p, mind[p].now) \/ RunsUnheard(p, mind[p].now)) /\ Muddies(p)
    /\ Restored(p, mind[p].now)
    /\ GoesTo(p, "unfree")
    /\ UNCHANGED <<ingress, lease, edge, applied>>

RemoveTarget(p) ==
    /\ at[p] = "unmake"
    /\ IF mind[p].todo = {}
       THEN Leaves(p, "failed") /\ UNCHANGED <<target, mind>>
       ELSE \E k \in mind[p].todo :
              LET may == boxes[k] # Gone /\ ~boxes[k].run
                  removed == [boxes EXCEPT ![k] = Gone]
              IN \/ /\ may /\ boxes' = removed
                    /\ Sweeps(p, k)
                    /\ UNCHANGED <<edge, applied, at, told>>
                 \/ /\ IF may THEN "stop" \in Fails /\ boxes' \in {boxes, removed}
                              ELSE UNCHANGED boxes
                    /\ Leaves(p, "attention")
                    /\ UNCHANGED <<edge, applied, mind>>
    /\ UNCHANGED <<ingress, lease>>

-----------------------------------------------------------------------------
(* stop, start and restart: every command guarded and addressed by id; the *)
(* first error ends the command.                                           *)
IsLifecycle(p) == mind[p].job \in {"stop", "start", "restart"}

ReadCurrent(p) ==
    /\ at[p] = "read" /\ IsLifecycle(p)
    /\ Keeps(p, [mind[p] EXCEPT !.saw = applied])
    /\ GoesTo(p, "list")
    /\ UNCHANGED <<ingress, lease, target, told>>

(* Its containers carry the generation its release record names.           *)
ListCurrent(p) ==
    /\ at[p] = "list" /\ IsLifecycle(p)
    /\ LET v == mind[p].saw.current
           found == BoxesOf(v) \cap (IF mind[p].job = "stop" THEN Running ELSE There)
       IN IF applied.current # v \/ found = {}
          THEN Leaves(p, "refused") /\ UNCHANGED mind
          ELSE /\ Keeps(p, [mind[p] EXCEPT !.listed = boxes, !.todo = found, !.later = found])
               /\ GoesTo(p, IF mind[p].job = "start" THEN "launch" ELSE "halt")
               /\ UNCHANGED told
    /\ UNCHANGED <<ingress, lease, target>>

Halt(p) ==
    /\ at[p] = "halt"
    /\ IF mind[p].todo = {}
       THEN /\ IF mind[p].job = "stop"
               THEN Leaves(p, "ok") /\ UNCHANGED mind
               ELSE /\ Keeps(p, [mind[p] EXCEPT !.todo = mind[p].later])
                    /\ GoesTo(p, "launch")
                    /\ UNCHANGED told
            /\ UNCHANGED target
       ELSE \E k \in mind[p].todo :
              \/ /\ Guarded(p) /\ Same(p, k)
                 /\ Stopped(k) /\ Sweeps(p, k)
                 /\ UNCHANGED <<edge, applied, at, told>>
              \/ /\ IF Guarded(p) /\ Same(p, k) THEN StopFails(k) ELSE UNCHANGED boxes
                 /\ Leaves(p, "failed")
                 /\ UNCHANGED <<edge, applied, mind>>
    /\ UNCHANGED <<ingress, lease>>

Launch(p) ==
    /\ at[p] = "launch"
    /\ IF mind[p].todo = {}
       THEN GoesTo(p, "health") /\ UNCHANGED <<target, mind, told>>
       ELSE \E k \in mind[p].todo :
              LET may == Guarded(p) /\ Same(p, k) /\ (boxes[k].run \/ ~PortTaken(k))
                  up == [boxes EXCEPT ![k].run = TRUE]
              IN \/ /\ may /\ boxes' = up
                    /\ Sweeps(p, k)
                    /\ UNCHANGED <<edge, applied, at, told>>
                 \/ /\ IF may THEN "run" \in Fails /\ boxes' \in {boxes, up}
                              ELSE UNCHANGED boxes
                    /\ Leaves(p, "failed")
                    /\ UNCHANGED <<edge, applied, mind>>
    /\ UNCHANGED <<ingress, lease>>

(* The probe goes to the port the state names, which with a fixed port is  *)
(* whoever's web process holds it.                                         *)
Answers(v) == IF FixedPorts THEN \E k \in Running : k[2] = "web" ELSE Web(v) \in Running

(* What was listed must have a web container, and it must answer.          *)
Up(p, v) == mind[p].listed[Web(v)] # Gone /\ Answers(v)

CheckStarted(p) ==
    /\ at[p] = "health" /\ IsLifecycle(p)
    /\ \/ Up(p, mind[p].saw.current) /\ Leaves(p, "ok")
       \/ /\ ~Up(p, mind[p].saw.current) \/ "health" \in Fails
          /\ Leaves(p, "failed")
    /\ UNCHANGED <<ingress, lease, target, mind>>

-----------------------------------------------------------------------------
(* A deploy, in one step.  It moves the current release's names aside; of  *)
(* another release it may not take the name of a container that runs,      *)
(* except where it has stopped the web containers for their fixed port.    *)
Occupied(v) ==
    /\ v # applied.current
    /\ \E k \in BoxesOf(v) \cap Running : ~(FixedPorts /\ k[2] = "web")

(* Refused the web name, it has changed nothing; refused the worker's, it  *)
(* removes the web container it ran and recreates those it had stopped.    *)
RedeployUndone(p, v) ==
    /\ boxes' = IF Web(v) \in Running /\ ~FixedPorts THEN boxes
                ELSE [k \in BoxNames |->
                        CASE k = Web(v) -> Gone
                          [] k # Web(v) /\ FixedPorts /\ k[2] = "web" /\ boxes[k].run ->
                               [boxes[k] EXCEPT !.by = p]
                          [] OTHER -> boxes[k]]
    /\ UNCHANGED <<edge, applied>>

Redeploy(p) ==
    /\ at[p] = "read" /\ mind[p].job = "redeploy"
    /\ LET v == mind[p].to
           gen == applied.gen + 1
       IN \/ ~Guarded(p) /\ Leaves(p, "refused") /\ UNCHANGED target
          \/ /\ Guarded(p) /\ ~Occupied(v)
             /\ boxes' = [k \in BoxNames |->
                            IF k \in BoxesOf(v) THEN [run |-> TRUE, gen |-> gen, by |-> p]
                            ELSE [boxes[k] EXCEPT !.run = FALSE]]
             /\ edge' = IF UsesCaddy THEN RouteTo(v, gen) ELSE edge
             /\ applied' = [current |-> v, previous |-> applied.current, gen |-> gen]
             /\ Leaves(p, "ok")
          \/ Guarded(p) /\ Occupied(v) /\ RedeployUndone(p, v) /\ Leaves(p, "failed")
    /\ UNCHANGED <<ingress, lease, mind>>

-----------------------------------------------------------------------------
Latest == CHOOSE v \in Releases : \A u \in Releases : u <= v
Earlier == {v \in Releases : v # Latest}

RbInit ==
    /\ ingress \in Ingresses
    /\ lease = Nobody
    /\ boxes = [k \in BoxNames |-> [run |-> k[1] = Latest, gen |-> k[1], by |-> Nobody]]
    /\ edge = IF UsesCaddy THEN RouteTo(Latest, Latest) ELSE RouteTo(NoRelease, 0)
    /\ applied = [current |-> Latest, gen |-> Latest,
                  previous |-> IF Earlier = {} THEN NoRelease
                               ELSE CHOOSE v \in Earlier : \A u \in Earlier : u <= v]
    /\ at = [p \in Actors |-> "idle"]
    /\ mind = [p \in Actors |-> NoJob_]
    /\ ended = [p \in Actors |-> "none"]
    /\ robbed = {} /\ muddied = {} /\ misled = {}

RollbackStep(p) ==
    \/ ReadState(p) \/ ReadRegion(p) \/ ListBoxes(p) \/ FreePort(p) \/ RemoveOld(p)
    \/ RunNew(p) \/ CheckHealth(p) \/ SwitchRoute(p) \/ RereadRegion(p)
    \/ CommitState(p) \/ Retire(p)

UndoStep(p) ==
    \/ RestoreRoute(p) \/ StopStarted(p) \/ RestoreDisplaced(p) \/ RerunDisplaced(p)
    \/ RemoveTarget(p)

LifecycleStep(p) ==
    ReadCurrent(p) \/ ListCurrent(p) \/ Halt(p) \/ Launch(p) \/ CheckStarted(p)

ActorStep(p) ==
    \/ Begin(p) \/ RollbackStep(p) \/ UndoStep(p) \/ LifecycleStep(p) \/ Redeploy(p)
    \/ Release(p) \/ Dying(p)

RbNext == \E p \in Actors : ActorStep(p)

RbSpec == RbInit /\ [][RbNext]_rbVars

-----------------------------------------------------------------------------
RbTypeOK ==
    /\ ingress \in Ingresses
    /\ lease \in Actors \cup {Nobody}
    /\ \A k \in BoxNames : boxes[k] \in [run : BOOLEAN, gen : Nat, by : Actors \cup {Nobody}]
    /\ edge \in [to : Releases \cup {NoRelease}, gen : Nat]
    /\ applied \in [current : Releases, previous : Releases \cup {NoRelease}, gen : Nat \ {0}]
    /\ \A p \in {q \in Actors : mind[q] # NoJob_} :
                         /\ mind[p].todo \cup mind[p].started \subseteq BoxNames
                         /\ mind[p].freed \subseteq BoxNames
    /\ \A p \in Actors : ended[p] \in {"none", "refused", "failed", "attention", "preserved", "ok"}
    /\ robbed \subseteq Actors /\ muddied \subseteq Actors /\ misled \subseteq Actors

(* The target was in order when the operation took the lock: nothing but   *)
(* the release the state names ran, and the route was on it.               *)
FoundInOrder(p) ==
    /\ mind[p].foundRunning \subseteq BoxesOf(mind[p].saw.current)
    /\ UsesCaddy => mind[p].foundEdge.to = mind[p].saw.current

Ends(p, outcome) == at[p] = "release" /\ ended[p] = outcome

(* A rollback that fails leaves what it found: the release it was leaving  *)
(* runs as it ran, its target does not run, and the route is back, at      *)
(* every failing step and with fixed ports too; unless it says it needs    *)
(* attention, dropped an error of its undo, or a lock was lost (audits     *)
(* F12, T06).  Nor of a rollback whose stop, run or switch answered an     *)
(* error and had its effect all the same: what it does not know it did is  *)
(* on none of the lists it undoes (rollback.go:356, 387, 536).             *)
FailedRollbackUndone ==
    \A p \in Actors :
        /\ Ends(p, "failed") /\ mind[p].job = "rollback"
        /\ robbed = {} /\ p \notin muddied \cup misled /\ FoundInOrder(p)
        => /\ Running = mind[p].foundRunning
           /\ edge.to = mind[p].foundEdge.to
           /\ applied = mind[p].saw

(* What reports success serves: the release the state names runs whole,    *)
(* the route is on it, and nothing else runs when nothing else ran before; *)
(* also over what a dead operation left, while no lock was lost.           *)
OkServes ==
    \A p \in Actors :
        Ends(p, "ok") /\ mind[p].job # "stop" /\ robbed = {} =>
            /\ BoxesOf(applied.current) \cap There \subseteq Running
            /\ Web(applied.current) \in Running
            /\ mind[p].job \notin {"start", "restart"} /\ UsesCaddy => edge.to = applied.current
            /\ FoundInOrder(p) /\ p \notin muddied => Running \subseteq BoxesOf(applied.current)

(* A step p takes without the lock.                                        *)
LateStep(p) == lease # p /\ at[p] # "idle" /\ <<at'[p], mind'[p]>> # <<at[p], mind[p]>>

SparesNewer(p) ==
    /\ UNCHANGED <<edge, applied>>
    /\ \A k \in Running : boxes'[k] = boxes[k] \/ boxes[k].gen <= From(p)

(* A rollback, a stop or a start that lost its lock moves neither the      *)
(* route nor the state, and stops or removes no container of a newer       *)
(* generation: outside of what its undo stops by name.                     *)
FencedRollbackSparesNewer ==
    [][\A p \in Actors : LateStep(p) /\ at[p] # "unstart" => SparesNewer(p)]_rbVars

(* rollback.go: "a stale rollback can never stop, remove, or overwrite a   *)
(* newer generation, no matter when its SSH commands land".                *)
StaleRollbackSparesNewer ==
    [][\A p \in Actors : LateStep(p) => SparesNewer(p)]_rbVars
=============================================================================
