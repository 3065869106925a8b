--------------------------- MODULE DeployLifecycle ---------------------------
(***************************************************************************)
(* One app's deploys on one target (deployFenced, internal/deploy/         *)
(* deploy.go): each resolves the world under the app lock, renames or      *)
(* displaces what is in its way, starts and checks its candidates,         *)
(* switches the route, commits state.json, and retires its predecessor;    *)
(* or undoes its own effects.  Each command a deploy sends is one step,    *)
(* and between two of them the lock may be broken, another deploy may run  *)
(* or the client may die.  A guard and its effect in one remote shell are  *)
(* one step.                                                               *)
(*                                                                         *)
(* The lock is the lease AppLock describes, seen from outside: it names    *)
(* one operation at most and may be broken.  The commit is FencedState's,  *)
(* seen from outside.  A release has one web replica and at most one       *)
(* worker.  Attempt files, hooks, volumes, images and pruning are left     *)
(* out: no step here reads them.                                           *)
(***************************************************************************)
EXTENDS Naturals, FiniteSets

CONSTANTS
  Ops,         \* deploys, each of one release
  Founder,     \* who made the release that serves at the start
  NoOne,       \* nobody
  Vers, NoVer, \* release hashes; no release
  Plans,       \* what the deploys and the founder may be about
  LiveBreaks,  \* TRUE: a live holder may lose the lock
  Unlocks,     \* TRUE: an operator may unlock
  Faults,      \* the commands that may fail: see Faulty
  CrashAt      \* the points where a client may die

Makers == Ops \cup {Founder}
Procs == {"web", "worker"}
Plan == [ver : Vers \cup {NoVer}, worker : BOOLEAN, recreate : BOOLEAN, caddy : BOOLEAN]

Final == {"done", "crashed"}
Steps ==
  {"start", "read", "resolve", "reconcile", "rename", "renaming", "clearing", "moving",
   "confirming", "snapshot", "displace", "displacing", "web", "health", "worker",
   "occupied", "vacate", "rerun", "partial", "unpartial", "switch", "reread",
   "commit", "stale", "record", "retire", "retiring", "byname", "clean",
   "restore", "abort", "abortRestore", "abortStart", "abortRoute", "abortKeep",
   "abortRemove", "release"}
\* Reads of the inventory and of one container; stops, removals and renames;
\* the answer of a `docker run`, of the commit, of the switch.
Faulty == {"list", "inspect", "stop", "run", "state", "route"}
Outcomes == {"none", "refused", "failed", "attention", "preserved", "ok", "degraded"}

ASSUME DeployAssumption ==
  /\ Founder \notin Ops /\ NoOne \notin Makers /\ NoVer \notin Vers
  /\ Plans \subseteq [Makers -> Plan]
  /\ \A f \in Plans : \A p \in Ops : f[p].ver \in Vers
  /\ LiveBreaks \in BOOLEAN /\ Unlocks \in BOOLEAN
  /\ Faults \subseteq Faulty /\ CrashAt \subseteq Steps

VARIABLES
  plan,       \* what each deploy is about
  holder,     \* whom the lock's info file names
  tookOver,   \* the deploys whose acquisition broke a lock
  containers, \* the app's containers
  route,      \* the app's block in the Caddyfile
  current,    \* state.json
  records,    \* the releases with a release record
  pc,
  mem,        \* what each deploy keeps in memory
  outcome,    \* what each deploy reported
  usurped,    \* history: the deploys that lost the lock alive
  unsaid,     \* history: the deploys that left something up or down unreported
  blind,      \* history: the deploys that acted on a name unseen or without the lock
  unsure      \* history: the deploys that switched the route and were told otherwise

vars == <<plan, holder, tookOver, containers, route, current, records, pc, mem,
          outcome, usurped, unsaid, blind, unsure>>
worldVars == <<containers, route, current, records>>
lockVars == <<plan, tookOver, usurped, unsaid, blind, unsure>>

\* Names and labels.  A container is addressed by its name or by its id.
Name(ver, proc, replaced) == <<ver, proc, replaced>>
Names == (Vers \cup {NoVer}) \X Procs \X BOOLEAN
IdOf(c) == <<c.by, c.how, c.ver, c.proc>>
\* (Mutant: what a deploy displaced is listed by container id.)
NameIsId(c) == IdOf(c)
NameOf(c) == Name(c.ver, c.proc, c.replaced)
Containers ==
  [ver : Vers, proc : Procs, replaced : BOOLEAN, by : Makers, how : {"run", "restart"},
   gen : Nat, fixed : BOOLEAN, running : BOOLEAN]
Ids == Makers \X {"run", "restart"} \X Vers \X Procs

Named(n) == {c \in containers : NameOf(c) = n}
Identified(i) == {c \in containers : IdOf(c) = i}
Webs == {c \in containers : c.proc = "web" /\ c.running}

Blocks == [dial : Names, gen : Nat]
NoBlock == [dial |-> Name(NoVer, "web", FALSE), gen |-> 0]
BlockTo(n, gen) == [dial |-> n, gen |-> gen]

States == [hash : Vers \cup {NoVer}, gen : Nat, caddy : BOOLEAN]
NoState == [hash |-> NoVer, gen |-> 0, caddy |-> FALSE]

Blank == [saw |-> NoState, resolved |-> NoBlock, switched |-> NoBlock, listed |-> FALSE,
          snap |-> {}, todo |-> {}, proc |-> "web", displaced |-> {}, started |-> {},
          flaw |-> FALSE]

TypeOK ==
  /\ plan \in Plans
  /\ holder \in Ops \cup {NoOne}
  /\ tookOver \subseteq Ops /\ usurped \subseteq Ops /\ unsaid \subseteq Ops
  /\ blind \subseteq Ops /\ unsure \subseteq Ops
  /\ containers \subseteq Containers
  /\ route \in Blocks
  /\ current \in States
  /\ records \subseteq Vers
  /\ pc \in [Ops -> Steps \cup Final]
  /\ outcome \in [Ops -> Outcomes]
  /\ \A p \in Ops :
       /\ mem[p].saw \in States
       /\ mem[p].resolved \in Blocks /\ mem[p].switched \in Blocks
       /\ mem[p].snap \subseteq Containers
       /\ mem[p].displaced \subseteq Names
       /\ mem[p].started \subseteq Ids

-----------------------------------------------------------------------------
(* Helpers.                                                                *)

At(p, s) == pc[p] = s
Go(p, s) == pc' = [pc EXCEPT ![p] = s]
End(p, o) == Go(p, "release") /\ outcome' = [outcome EXCEPT ![p] = o]
Holds(p) == holder = p
Alive(p) == pc[p] \notin Final

From(p) == mem[p].saw.gen
Next_(p) == From(p) + 1
SameVersion(p) == mem[p].saw.hash = plan[p].ver
Mine(p, proc) == Name(plan[p].ver, proc, FALSE)
Renamed(p, proc) == Name(plan[p].ver, proc, TRUE)
ProcsOf(p) == {"web"} \cup (IF plan[p].worker THEN {"worker"} ELSE {})

Container(p, proc, gen) ==
  [ver |-> plan[p].ver, proc |-> proc, replaced |-> FALSE, by |-> p, how |-> "run",
   gen |-> gen, fixed |-> plan[p].recreate /\ proc = "web", running |-> TRUE]

Stopped(c) == [c EXCEPT !.running = FALSE]
Remade(p, c) == [c EXCEPT !.by = p, !.how = "restart", !.running = TRUE]

\* A command that names a container and does not ask for the lock: noted when
\* the lock is another's, or nobody's, by now.
Noted(p) == blind' = IF Holds(p) THEN blind ELSE blind \cup {p}
Swap(old, new) == containers' = (containers \ old) \cup new

\* A fixed host port is held by one running container.
PortFree(fixed, others) == fixed => ~\E c \in others : c.fixed /\ c.running

Founded ==
  IF plan[Founder].ver = NoVer THEN {}
  ELSE {Container(Founder, proc, 1) : proc \in ProcsOf(Founder)}

Init ==
  /\ plan \in Plans
  /\ holder = NoOne /\ tookOver = {} /\ usurped = {} /\ unsaid = {}
  /\ blind = {} /\ unsure = {}
  /\ containers = Founded
  /\ route = IF plan[Founder].ver # NoVer /\ plan[Founder].caddy
             THEN BlockTo(Mine(Founder, "web"), 1) ELSE NoBlock
  /\ current = IF plan[Founder].ver = NoVer THEN NoState
               ELSE [hash |-> plan[Founder].ver, gen |-> 1, caddy |-> plan[Founder].caddy]
  /\ records = {plan[Founder].ver} \cap Vers
  /\ pc = [p \in Ops |-> "start"]
  /\ mem = [p \in Ops |-> Blank]
  /\ outcome = [p \in Ops |-> "none"]

-----------------------------------------------------------------------------
(* The lock and what is read under it.                                     *)

Breakable(q) == pc[q] = "crashed" \/ LiveBreaks

Acquire(p) ==
  /\ At(p, "start")
  /\ \/ holder = NoOne /\ UNCHANGED <<tookOver, usurped>>
     \/ /\ holder # NoOne /\ Breakable(holder)
        /\ tookOver' = tookOver \cup {p}
        /\ usurped' = usurped \cup {q \in {holder} : Alive(q)}
  /\ holder' = p
  /\ Go(p, "read")
  /\ UNCHANGED <<plan, worldVars, mem, outcome, unsaid, blind, unsure>>

\* `teploy unlock`: the next deploy takes a free lock and reconciles nothing.
Unlock ==
  /\ Unlocks /\ holder # NoOne /\ Breakable(holder)
  /\ usurped' = usurped \cup {q \in {holder} : Alive(q)}
  /\ holder' = NoOne
  /\ UNCHANGED <<plan, tookOver, worldVars, pc, mem, outcome, unsaid, blind, unsure>>

ReadState(p) ==
  /\ At(p, "read")
  /\ \/ mem' = [mem EXCEPT ![p].saw = current] /\ Go(p, "resolve") /\ UNCHANGED outcome
     \/ End(p, "refused") /\ UNCHANGED mem
  /\ UNCHANGED <<lockVars, worldVars>>

ResolveRoute(p) ==
  /\ At(p, "resolve")
  /\ \/ /\ mem' = [mem EXCEPT ![p].resolved = route, ![p].switched = route]
        /\ Go(p, IF p \in tookOver THEN "reconcile" ELSE "rename")
        /\ UNCHANGED outcome
     \/ plan[p].caddy /\ End(p, "refused") /\ UNCHANGED mem
     \/ /\ ~plan[p].caddy
        /\ Go(p, IF p \in tookOver THEN "reconcile" ELSE "rename")
        /\ UNCHANGED <<mem, outcome>>
  /\ UNCHANGED <<lockVars, worldVars>>

\* What Observe makes of the target for a deploy of this release.
Table == INSTANCE Recovery

Kind(p, c) ==
  IF c.proc # "web" /\ c.ver \in {plan[p].ver, mem[p].saw.hash}
  THEN IF c.ver \in records \/ ~c.running THEN {} ELSE {"foreign"}
  ELSE IF c.proc = "web" /\ c.ver = plan[p].ver
  THEN IF c.running THEN {"candidates"} ELSE {"corpses"}
  ELSE IF c.proc = "web" /\ c.ver = mem[p].saw.hash
  THEN IF c.replaced \/ c.running THEN {"predecessorServing"} ELSE {"predecessorStopped"}
  ELSE IF c.running THEN {"foreign"} ELSE {}

RouteKind(p) ==
  IF route = NoBlock THEN "none"
  ELSE IF route.dial[1] = plan[p].ver THEN "candidate"
  ELSE IF route.dial[1] = mem[p].saw.hash THEN "predecessor" ELSE "other"

Seen(p) ==
  Table!Observe(
    [has |-> UNION {Kind(p, c) : c \in containers},
     names |-> IF current.hash = NoVer THEN "none"
               ELSE IF current.hash = plan[p].ver THEN "candidate" ELSE "predecessor",
     route |-> RouteKind(p)], {})

Clean(p) == Table!Decide(Table!Admitted, Seen(p)) = "RETRY"

\* The look that decides: on INSPECT it is the second one.
Reconcile(p) ==
  /\ At(p, "reconcile")
  /\ IF Clean(p) THEN Go(p, "rename") /\ UNCHANGED outcome ELSE End(p, "refused")
  /\ UNCHANGED <<lockVars, worldVars, mem>>

-----------------------------------------------------------------------------
(* Making room.                                                            *)

\* A deploy of the release already current moves its containers aside; the
\* check of the lock is a command of its own.
CheckRename(p) ==
  /\ At(p, "rename")
  /\ \/ ~SameVersion(p) /\ Go(p, "snapshot") /\ UNCHANGED <<mem, outcome>>
     \/ /\ SameVersion(p) /\ Holds(p)
        /\ mem' = [mem EXCEPT ![p].todo = ProcsOf(p)]
        /\ Go(p, "renaming") /\ UNCHANGED outcome
     \/ SameVersion(p) /\ ~Holds(p) /\ End(p, "failed") /\ UNCHANGED mem
  /\ UNCHANGED <<lockVars, worldVars>>

\* (Mutant: a running _replaced container is cleared like a stopped one.)
ClearsRunning(p, proc) == TRUE
MayClear(p, proc) == \A c \in Named(Renamed(p, proc)) : ~c.running

\* A _replaced container seen to run stops the deploy; a look that fails does
\* not.
InspectReplaced(p) ==
  /\ At(p, "renaming")
  /\ \E proc \in mem[p].todo :
       /\ mem' = [mem EXCEPT ![p].proc = proc]
       /\ \/ MayClear(p, proc) /\ Go(p, "clearing") /\ UNCHANGED <<blind, outcome>>
          \/ ~MayClear(p, proc) /\ End(p, "failed") /\ UNCHANGED blind
          \/ /\ "inspect" \in Faults
             /\ Go(p, "clearing") /\ blind' = blind \cup {p} /\ UNCHANGED outcome
  /\ UNCHANGED <<plan, tookOver, usurped, unsaid, unsure, worldVars>>

\* `docker rm -f`, of whatever bears the name by now; its error is dropped.
ClearReplaced(p) ==
  /\ At(p, "clearing")
  /\ \/ Swap(Named(Renamed(p, mem[p].proc)), {})
     \/ "stop" \in Faults /\ UNCHANGED containers
  /\ Noted(p)
  /\ Go(p, "moving")
  /\ UNCHANGED <<plan, tookOver, usurped, unsaid, unsure, route, current, records, mem, outcome>>

Moved(p) ==
  /\ mem' = [mem EXCEPT ![p].todo = @ \ {mem[p].proc}]
  /\ Go(p, IF mem[p].todo \subseteq {mem[p].proc} THEN "snapshot" ELSE "renaming")

\* `docker rename`, refused without a source or over a taken name.
Rename(p) ==
  LET mine == Named(Mine(p, mem[p].proc))
      may == mine # {} /\ Named(Renamed(p, mem[p].proc)) = {}
  IN /\ At(p, "moving")
     /\ \/ /\ may /\ Swap(mine, {[c EXCEPT !.replaced = TRUE] : c \in mine})
           /\ \/ Moved(p)
              \/ "stop" \in Faults /\ Go(p, "confirming") /\ UNCHANGED mem
        \/ /\ ~may \/ "stop" \in Faults
           /\ Go(p, "confirming") /\ UNCHANGED <<containers, mem>>
     /\ Noted(p)
     /\ UNCHANGED <<plan, tookOver, usurped, unsaid, unsure, route, current, records, outcome>>

\* A failed rename is nothing when its source is known to be absent.
ConfirmAbsent(p) ==
  /\ At(p, "confirming")
  /\ \/ Named(Mine(p, mem[p].proc)) = {} /\ Moved(p) /\ UNCHANGED outcome
     \/ /\ Named(Mine(p, mem[p].proc)) # {} \/ "inspect" \in Faults
        /\ End(p, "failed") /\ UNCHANGED mem
  /\ UNCHANGED <<lockVars, worldVars>>

\* (Mutant: only web containers are retired.)
WebPredecessors(p) ==
  {c \in containers : c.proc = "web" /\ c.ver = mem[p].saw.hash /\ (SameVersion(p) \/ c.running)}
\* selectPredecessors over the inventory of this moment.
Predecessors(p) ==
  {c \in containers : c.ver = mem[p].saw.hash /\ (SameVersion(p) \/ c.running)}

Snapshot(p) ==
  /\ At(p, "snapshot")
  /\ \/ /\ From(p) > 0
        /\ mem' = [mem EXCEPT ![p].listed = TRUE, ![p].snap = Predecessors(p)]
     \/ (From(p) = 0 \/ "list" \in Faults) /\ UNCHANGED mem
  /\ Go(p, IF plan[p].recreate THEN "displace" ELSE "web")
  /\ UNCHANGED <<lockVars, worldVars, outcome>>

CheckDisplace(p) ==
  /\ At(p, "displace")
  /\ IF Holds(p) THEN Go(p, "displacing") /\ UNCHANGED outcome ELSE End(p, "failed")
  /\ UNCHANGED <<lockVars, worldVars, mem>>

\* Every running web container of the app is stopped, by name; a list that
\* cannot be read is an empty one.  When a stop fails the ones before it are
\* made again, from what their containers were made of; the one it was for may
\* have stopped.
Displace(p) ==
  /\ At(p, "displacing")
  /\ \/ /\ Swap(Webs, {Stopped(c) : c \in Webs})
        /\ mem' = [mem EXCEPT ![p].displaced = {NameOf(c) : c \in Webs}]
        /\ Go(p, "web") /\ UNCHANGED <<outcome, unsaid>>
     \/ "list" \in Faults /\ Go(p, "web") /\ UNCHANGED <<containers, mem, outcome, unsaid>>
     \/ /\ "stop" \in Faults /\ UNCHANGED mem
        /\ \E c \in Webs : \E hit \in {{}, {c}} :
           \E before \in SUBSET (Webs \ {c}) : \E lost \in SUBSET before :
             /\ Swap(before \cup hit,
                     {Remade(p, x) : x \in before \ lost} \cup {Stopped(x) : x \in hit})
             /\ End(p, IF lost = {} THEN "failed" ELSE "attention")
             /\ unsaid' = IF hit = {} THEN unsaid ELSE unsaid \cup {p}
  /\ UNCHANGED <<plan, tookOver, usurped, blind, unsure, route, current, records>>

-----------------------------------------------------------------------------
(* Candidates.                                                             *)

\* The process to run next, the web first.
NextProc(p) == IF mem[p].started = {} THEN "web" ELSE "worker"

\* `docker run` under the guard.  A taken name is an error of its own; any other
\* leaves nothing, a container that never ran or, when the answer is lost, one
\* that runs and that this deploy does not know of.
Run(p, proc, taken, next) ==
  LET n == Mine(p, proc)
      new == Container(p, proc, Next_(p))
  IN \/ ~Holds(p) /\ Go(p, "clean") /\ UNCHANGED <<containers, mem, unsaid>>
     \/ /\ Holds(p) /\ Named(n) = {} /\ PortFree(new.fixed, containers)
        /\ Swap({}, {new})
        /\ mem' = [mem EXCEPT ![p].started = @ \cup {IdOf(new)}]
        /\ Go(p, next) /\ UNCHANGED unsaid
     \/ /\ Holds(p) /\ Named(n) # {}
        /\ Go(p, taken) /\ UNCHANGED <<containers, mem, unsaid>>
     \/ Holds(p) /\ Go(p, "partial") /\ UNCHANGED <<containers, mem, unsaid>>
     \/ /\ Holds(p) /\ Named(n) = {}
        /\ Swap({}, {Stopped(new)})
        /\ Go(p, "partial") /\ UNCHANGED <<mem, unsaid>>
     \/ /\ "run" \in Faults
        /\ Holds(p) /\ Named(n) = {} /\ PortFree(new.fixed, containers)
        /\ Swap({}, {new}) /\ unsaid' = unsaid \cup {p}
        /\ Go(p, "partial") /\ UNCHANGED mem

StartWeb(p) ==
  /\ At(p, "web")
  /\ Run(p, "web", "occupied", "health")
  /\ UNCHANGED <<plan, tookOver, usurped, blind, unsure, route, current, records, outcome>>

\* The container's status is asked by name, its health at its port.
MayPass(p) ==
  /\ \E c \in Named(Mine(p, "web")) : c.running
  /\ \E c \in Webs : IF plan[p].recreate THEN c.fixed ELSE IdOf(c) \in mem[p].started

Health(p) ==
  /\ At(p, "health")
  /\ \/ MayPass(p) /\ Go(p, IF plan[p].worker THEN "worker" ELSE "switch")
     \/ Go(p, "clean")
  /\ UNCHANGED <<lockVars, worldVars, mem, outcome>>

\* The worker must still run a moment later.
Tried(p, proc) == IF proc = "web" THEN {"health"} ELSE {"switch", "clean"}

StartWorker(p) ==
  /\ At(p, "worker")
  /\ \E next \in Tried(p, "worker") : Run(p, "worker", "occupied", next)
  /\ UNCHANGED <<plan, tookOver, usurped, blind, unsure, route, current, records, outcome>>

\* What holds the name is looked at: one that runs is refused, and a look that
\* fails finds nothing...
ClearStopped(p) ==
  /\ At(p, "occupied")
  /\ LET there == Named(Mine(p, NextProc(p)))
     IN \/ (\E c \in there : c.running) /\ Go(p, "partial")
        \/ (\E c \in there : ~c.running) /\ Go(p, "vacate")
        \/ (there = {} \/ "inspect" \in Faults) /\ Go(p, "rerun")
  /\ UNCHANGED <<lockVars, worldVars, mem, outcome>>

\* ...one that does not goes: `docker rm` refuses what runs by now...
Vacate(p) ==
  /\ At(p, "vacate")
  /\ LET there == {c \in Named(Mine(p, NextProc(p))) : ~c.running}
     IN \/ there # {} /\ Swap(there, {}) /\ Go(p, "rerun")
        \/ there # {} /\ "stop" \in Faults /\ Swap(there, {}) /\ Go(p, "partial")
        \/ (there = {} \/ "stop" \in Faults) /\ UNCHANGED containers /\ Go(p, "partial")
  /\ UNCHANGED <<lockVars, route, current, records, mem, outcome>>

\* ...and the run is tried once more.
Rerun(p) ==
  /\ At(p, "rerun")
  /\ \E next \in Tried(p, NextProc(p)) : Run(p, NextProc(p), "partial", next)
  /\ UNCHANGED <<plan, tookOver, usurped, blind, unsure, route, current, records, outcome>>

\* reconcilePartialRun: what bears the name after a failed run is looked at, and
\* goes unless it was seen to run.  Neither command asks for the lock.
InspectPartial(p) ==
  /\ At(p, "partial")
  /\ LET there == Named(Mine(p, NextProc(p)))
     IN \/ (\E c \in there : ~c.running) /\ Go(p, "unpartial")
        \/ /\ there = {} \/ (\E c \in there : c.running) \/ "inspect" \in Faults
           /\ Go(p, "clean")
  /\ UNCHANGED <<lockVars, worldVars, mem, outcome>>

RemovePartial(p) ==
  /\ At(p, "unpartial")
  /\ \/ Swap(Named(Mine(p, NextProc(p))), {})
     \/ "stop" \in Faults /\ UNCHANGED containers
  /\ Noted(p)
  /\ Go(p, "clean")
  /\ UNCHANGED <<plan, tookOver, usurped, unsaid, unsure, route, current, records, mem, outcome>>

-----------------------------------------------------------------------------
(* Switch and commit.                                                      *)

NewBlock(p) == BlockTo(Mine(p, "web"), Next_(p))

\* The guarded compare-and-swap of the app's block; a block that already reads
\* so is not written.  A reload whose answer is lost is a failed switch.
Switch(p) ==
  /\ At(p, "switch")
  /\ \/ ~plan[p].caddy /\ Go(p, "commit") /\ UNCHANGED <<route, unsure>>
     \/ /\ plan[p].caddy
        /\ (Holds(p) /\ route = mem[p].resolved) \/ route = NewBlock(p)
        /\ route' = NewBlock(p)
        /\ \/ Go(p, "reread") /\ UNCHANGED unsure
           \/ "route" \in Faults /\ Go(p, "clean") /\ unsure' = unsure \cup {p}
     \/ plan[p].caddy /\ Go(p, "clean") /\ UNCHANGED <<route, unsure>>
  /\ UNCHANGED <<plan, tookOver, usurped, unsaid, blind, containers, current, records, mem,
                 outcome>>

\* The block now in the file is taken for the one this deploy wrote.
Reread(p) ==
  /\ At(p, "reread")
  /\ mem' \in {[mem EXCEPT ![p].switched = route], mem}
  /\ Go(p, "commit")
  /\ UNCHANGED <<lockVars, worldVars, outcome>>

NewState(p) == [hash |-> plan[p].ver, gen |-> Next_(p), caddy |-> plan[p].caddy]
MayCommit(p) == Holds(p) /\ current.gen <= From(p)

\* A failed commit is undone only when authority proves it did not publish.
Commit(p) ==
  /\ At(p, "commit")
  /\ \/ /\ MayCommit(p) /\ current' = NewState(p)
        /\ \/ Go(p, "stale") /\ UNCHANGED outcome
           \/ "state" \in Faults /\ End(p, "preserved")
     \/ /\ (Holds(p) /\ ~MayCommit(p)) \/ current.gen < Next_(p)
        /\ Go(p, IF plan[p].recreate THEN "abort" ELSE "abortRoute")
        /\ UNCHANGED <<current, outcome>>
     \/ /\ (~Holds(p) /\ current.gen >= Next_(p)) \/ "state" \in Faults
        /\ End(p, "preserved") /\ UNCHANGED current
  /\ UNCHANGED <<lockVars, containers, route, records, mem>>

\* A release without a route removes the block an earlier one left.
RetireStaleRoute(p) ==
  /\ At(p, "stale")
  /\ \/ (plan[p].caddy \/ NoBlock \in {mem[p].resolved, route}) /\ UNCHANGED <<route, mem>>
     \/ /\ ~plan[p].caddy /\ Holds(p) /\ route = mem[p].resolved
        /\ route' = NoBlock /\ UNCHANGED mem
     \/ /\ ~plan[p].caddy /\ mem[p].resolved # NoBlock
        /\ mem' = [mem EXCEPT ![p].flaw = TRUE] /\ UNCHANGED route
  /\ Go(p, "record")
  /\ UNCHANGED <<lockVars, containers, current, records, outcome>>

\* A record that cannot be written is repair debt, not a failure.
Record(p) ==
  /\ At(p, "record")
  /\ records' \in {records, records \cup {plan[p].ver}}
  /\ Go(p, "retire")
  /\ UNCHANGED <<lockVars, containers, route, current, mem, outcome>>

-----------------------------------------------------------------------------
(* Retirement.                                                             *)

\* Without a snapshot the inventory is taken again, and without that the
\* predecessor's names are derived.
BeginRetire(p) ==
  /\ At(p, "retire")
  /\ \/ mem[p].listed /\ mem' = [mem EXCEPT ![p].todo = mem[p].snap] /\ Go(p, "retiring")
     \/ /\ ~mem[p].listed /\ From(p) = 0 /\ Go(p, "retiring")
        /\ mem' = [mem EXCEPT ![p].todo = {}]
     \/ /\ ~mem[p].listed /\ From(p) > 0 /\ Holds(p)
        /\ \/ mem' = [mem EXCEPT ![p].todo = Predecessors(p)] /\ Go(p, "retiring")
           \/ mem' = [mem EXCEPT ![p].todo = {}] /\ Go(p, "byname")
     \/ /\ ~mem[p].listed /\ From(p) > 0 /\ ~Holds(p)
        /\ mem' = [mem EXCEPT ![p].todo = {}, ![p].flaw = TRUE] /\ Go(p, "retiring")
  /\ UNCHANGED <<lockVars, worldVars, outcome>>

\* (Mutant: retirement does not look at the generation label.)
AnyGeneration(c, gen) == TRUE
NotNewer(c, gen) == c.gen <= gen

\* One predecessor, by id, under the lock's guard and its generation label.
Retire(p) ==
  /\ At(p, "retiring")
  /\ \E c \in mem[p].todo :
       LET there == Identified(IdOf(c))
           gone == {x \in there : NotNewer(x, From(p))}
       IN \/ /\ Holds(p) /\ gone # {}
             /\ Swap(gone, IF SameVersion(p) THEN {} ELSE {Stopped(x) : x \in gone})
             /\ mem' = [mem EXCEPT ![p].todo = @ \ {c}]
          \/ /\ Holds(p) /\ gone # {} /\ "stop" \in Faults
             /\ Swap(gone, {Stopped(x) : x \in gone})
             /\ mem' = [mem EXCEPT ![p].todo = @ \ {c}, ![p].flaw = TRUE]
          \/ /\ Holds(p) /\ (gone = {} \/ "stop" \in Faults)
             /\ mem' = [mem EXCEPT ![p].todo = @ \ {c}, ![p].flaw = TRUE]
             /\ UNCHANGED containers
          \/ /\ ~Holds(p)
             /\ mem' = [mem EXCEPT ![p].todo = {}, ![p].flaw = TRUE]
             /\ UNCHANGED containers
  /\ UNCHANGED <<lockVars, route, current, records, pc, outcome>>

\* The names of the old release's web container and of this one's processes.
\* (With one replica the web name is stopped twice, so a same-version deploy
\* always reports the second, vanished, one.)
RetireByName(p) ==
  /\ At(p, "byname")
  /\ LET names == {Name(mem[p].saw.hash, proc, SameVersion(p)) : proc \in ProcsOf(p)}
         old == {c \in containers : NameOf(c) \in names}
     IN /\ Swap(old, IF SameVersion(p) THEN {} ELSE {Stopped(c) : c \in old})
        /\ mem' = [mem EXCEPT ![p].flaw = SameVersion(p) \/ @ \/ {NameOf(c) : c \in old} # names]
        /\ unsaid' = IF \E c \in Predecessors(p) \ old : c.running THEN unsaid \cup {p}
                     ELSE unsaid
  /\ Noted(p)
  /\ Go(p, "retiring")
  /\ UNCHANGED <<plan, tookOver, usurped, unsure, route, current, records, outcome>>

Finish(p) ==
  /\ At(p, "retiring") /\ mem[p].todo = {}
  /\ End(p, IF mem[p].flaw THEN "degraded" ELSE "ok")
  /\ UNCHANGED <<lockVars, worldVars, mem>>

-----------------------------------------------------------------------------
(* Undoing.  None of it asks for the lock.                                 *)

\* The fixed-port workload to bring back: what this deploy displaced, or else
\* the snapshot's web containers that do not run now.
Displaced(p, others) ==
  IF mem[p].displaced # {} THEN mem[p].displaced
  ELSE {NameOf(c) : c \in {s \in mem[p].snap : s.proc = "web" /\
          \E x \in others : NameOf(x) = NameOf(s) /\ ~x.running}}

\* A failure before the commit stops and removes what this deploy started...
Clean_(p) ==
  /\ At(p, "clean")
  /\ \E stuck \in IF "stop" \in Faults THEN SUBSET mem[p].started ELSE {{}} :
       LET gone == {c \in containers : IdOf(c) \in mem[p].started \ stuck}
       IN /\ Swap(gone, {})
          /\ mem' = [mem EXCEPT ![p].todo = Displaced(p, containers \ gone),
                                ![p].flaw = {IdOf(c) : c \in gone} # mem[p].started]
  /\ Go(p, "restore")
  /\ UNCHANGED <<lockVars, route, current, records, outcome>>

\* RestartFenced: inspect, then remove under the label check, then run again.
\* (Mutant: the name is recreated whatever its generation.)
RestartsAnything(p, c) == TRUE
MayRestart(p, c) == c.gen <= From(p)

Restarted(p, n) ==
  \E c \in Named(n) :
    /\ MayRestart(p, c) /\ PortFree(c.fixed, containers \ {c})
    /\ Swap({c}, {Remade(p, c)})

RestartRefused(p, n) ==
  (\E c \in Named(n) : ~MayRestart(p, c)) /\ UNCHANGED containers

\* A failed restart has not touched the container, has removed it, or runs it.
RestartFailed(p, n) ==
  \/ (Named(n) = {} \/ "stop" \in Faults) /\ UNCHANGED containers
  \/ /\ "run" \in Faults
     /\ \E c \in Named(n) :
          /\ MayRestart(p, c)
          /\ \/ Swap({c}, {})
             \/ PortFree(c.fixed, containers \ {c}) /\ Swap({c}, {Remade(p, c)})

\* Or it has made one that never ran.
RestartSpoils(p, n) ==
  /\ \E c \in Named(n) :
       /\ MayRestart(p, c)
       /\ ~PortFree(c.fixed, containers \ {c}) \/ "run" \in Faults
       /\ Swap({c}, {Stopped(Remade(p, c))})

\* ...and restarts what it displaced.
Restore(p) ==
  /\ At(p, "restore")
  /\ \E n \in mem[p].todo :
       /\ \/ Restarted(p, n) /\ mem' = [mem EXCEPT ![p].todo = @ \ {n}]
          \/ /\ RestartRefused(p, n) \/ RestartFailed(p, n) \/ RestartSpoils(p, n)
             /\ mem' = [mem EXCEPT ![p].todo = @ \ {n}, ![p].flaw = TRUE]
       /\ IF n[3] THEN Noted(p) ELSE UNCHANGED blind
  /\ UNCHANGED <<plan, tookOver, usurped, unsaid, unsure, route, current, records, pc, outcome>>

Restored(p) ==
  /\ At(p, "restore") /\ mem[p].todo = {}
  /\ End(p, IF mem[p].flaw THEN "attention" ELSE "failed")
  /\ UNCHANGED <<lockVars, worldVars, mem>>

Started(p) == {c \in containers : IdOf(c) \in mem[p].started}

\* A failed commit of a recreate deploy: the errors of these stops are dropped.
AbortStop(p) ==
  /\ At(p, "abort")
  /\ \E stuck \in IF "stop" \in Faults THEN SUBSET Started(p) ELSE {{}} :
       /\ Swap(Started(p) \ stuck, {Stopped(c) : c \in Started(p) \ stuck})
       /\ unsaid' = IF stuck = {} THEN unsaid ELSE unsaid \cup {p}
  /\ mem' = [mem EXCEPT ![p].todo = Displaced(p, containers)]
  /\ Go(p, "abortRestore")
  /\ UNCHANGED <<plan, tookOver, usurped, blind, unsure, route, current, records, outcome>>

\* What the workload is left as when it cannot be undone: started again.
StartAgain(p, cs) ==
  \E up \in SUBSET {c \in Started(p) \cap cs : ~c.running} :
    /\ \A c \in up : PortFree(c.fixed, cs)
    /\ containers' = (cs \ up) \cup {[c EXCEPT !.running = TRUE] : c \in up}

AbortRestore(p) ==
  /\ At(p, "abortRestore")
  /\ \/ /\ mem[p].todo = {}
        /\ Go(p, "abortRoute") /\ UNCHANGED <<containers, mem>>
     \/ \E n \in mem[p].todo :
          /\ Restarted(p, n) \/ RestartRefused(p, n)
          /\ mem' = [mem EXCEPT ![p].todo = @ \ {n}]
          /\ UNCHANGED pc
     \/ \E n \in mem[p].todo :
          /\ RestartFailed(p, n) \/ RestartSpoils(p, n)
          /\ Go(p, "abortStart") /\ UNCHANGED mem
  /\ UNCHANGED <<lockVars, route, current, records, outcome>>

AbortStart(p) ==
  /\ At(p, "abortStart")
  /\ StartAgain(p, containers)
  /\ End(p, "attention")
  /\ UNCHANGED <<lockVars, route, current, records, mem>>

\* The predecessor's block; a same-version predecessor was renamed.
OldBlock(p) ==
  IF From(p) = 0 \/ ~mem[p].saw.caddy THEN NoBlock
  ELSE BlockTo(Name(mem[p].saw.hash, "web", SameVersion(p)), From(p))

MayRestore(p) == route \in {mem[p].resolved, mem[p].switched, OldBlock(p)}

\* (Mutant: the workload goes whether or not the route could be restored.)
RemovesRegardless(p) ==
  /\ At(p, "abortRoute")
  /\ \/ plan[p].caddy /\ MayRestore(p) /\ route' = OldBlock(p)
     \/ UNCHANGED route
  /\ Go(p, "abortRemove")
  /\ UNCHANGED <<lockVars, containers, current, records, mem, outcome>>

\* restorePreviousRoute: over the block resolved or the block switched to; its
\* answer may be lost too.
RestoreRoute(p) ==
  /\ At(p, "abortRoute")
  /\ \/ /\ plan[p].caddy /\ MayRestore(p) /\ route' = OldBlock(p)
        /\ Go(p, "abortRemove") \/ ("route" \in Faults /\ Go(p, "abortKeep"))
     \/ ~plan[p].caddy /\ Go(p, "abortRemove") /\ UNCHANGED route
     \/ plan[p].caddy /\ Go(p, "abortKeep") /\ UNCHANGED route
  /\ UNCHANGED <<lockVars, containers, current, records, mem, outcome>>

\* The route could not be restored: both workloads stay.
AbortKeep(p) ==
  /\ At(p, "abortKeep")
  /\ IF plan[p].recreate THEN StartAgain(p, containers) ELSE UNCHANGED containers
  /\ End(p, "attention")
  /\ UNCHANGED <<lockVars, route, current, records, mem>>

\* The uncommitted workload goes; `docker rm` does not remove what still runs.
AbortRemove(p) ==
  /\ At(p, "abortRemove")
  /\ \E stuck \in IF "stop" \in Faults THEN SUBSET Started(p) ELSE {{}} :
       LET left == IF plan[p].recreate THEN stuck \cup {c \in Started(p) : c.running} ELSE stuck
       IN /\ Swap(Started(p) \ left, {})
          /\ unsaid' = IF left = {} THEN unsaid ELSE unsaid \cup {p}
  /\ End(p, "failed")
  /\ UNCHANGED <<plan, tookOver, usurped, blind, unsure, route, current, records, mem>>

-----------------------------------------------------------------------------
(* The end of a deploy, and the environment.                               *)

\* What it read is kept for the properties.
Forget(p) == mem' = [mem EXCEPT ![p] = [Blank EXCEPT !.saw = mem[p].saw]]

Release(p) ==
  /\ At(p, "release")
  /\ holder' = IF Holds(p) THEN NoOne ELSE holder
  /\ Go(p, "done") /\ Forget(p)
  /\ UNCHANGED <<lockVars, worldVars, outcome>>

Crash(p) ==
  /\ pc[p] \in CrashAt
  /\ Go(p, "crashed") /\ Forget(p)
  /\ UNCHANGED <<lockVars, holder, worldVars, outcome>>

DeployStep(p) ==
  \/ ReadState(p) \/ ResolveRoute(p) \/ Reconcile(p)
  \/ CheckRename(p) \/ InspectReplaced(p) \/ ClearReplaced(p) \/ Rename(p) \/ ConfirmAbsent(p)
  \/ Snapshot(p) \/ CheckDisplace(p) \/ Displace(p)
  \/ StartWeb(p) \/ Health(p) \/ StartWorker(p) \/ ClearStopped(p) \/ Vacate(p) \/ Rerun(p)
  \/ InspectPartial(p) \/ RemovePartial(p)
  \/ Switch(p) \/ Reread(p) \/ Commit(p) \/ RetireStaleRoute(p) \/ Record(p)
  \/ BeginRetire(p) \/ Retire(p) \/ RetireByName(p) \/ Finish(p)
  \/ Clean_(p) \/ Restore(p) \/ Restored(p)
  \/ AbortStop(p) \/ AbortRestore(p) \/ AbortStart(p) \/ RestoreRoute(p)
  \/ AbortKeep(p) \/ AbortRemove(p)

Next ==
  \/ \E p \in Ops : Acquire(p) \/ Release(p) \/ Crash(p)
  \/ Unlock
  \/ \E p \in Ops : DeployStep(p) /\ UNCHANGED holder

Spec == Init /\ [][Next]_vars

-----------------------------------------------------------------------------
(* What the deploys promise.                                               *)

BlueGreen == \A p \in Ops : ~plan[p].recreate
Running == {c \in containers : c.running}

\* While every deploy is blue/green, the release state.json names has a web
\* container that runs: whatever a client does before its commit, after it,
\* when it fails, dies or has its lock broken, the authority is served.  Not so
\* once a deploy is blind.  The look at a _replaced name, its removal, the rename
\* onto it, its restart, a retirement by derived names and the removal of what a
\* failed run left are commands of their own, each sent after the look and the
\* check of the lock before it: a look that failed, or a lock lost before the
\* command, lets it remove the container that serves, which a deploy of the same
\* release has moved under that name (deploy.go:616-625).
AuthorityRunning ==
  BlueGreen /\ blind = {} /\ current.hash # NoVer => \E c \in Webs : c.ver = current.hash

\* While no live deploy loses its lock or the answer of a switch it made, the
\* app's block dials a container that runs: the switch comes after the health
\* check, the old container goes after the commit, and an undo puts the old block
\* back before the new one's container goes.  A deploy told that its switch
\* failed removes its candidates and leaves the block (deploy.go:1039-1048).
\* Deploys of the release already current are excluded: their rename takes the
\* dialled name away (FailureKeepsServing).
RouteLive ==
  /\ BlueGreen /\ usurped = {} /\ unsure = {} /\ current.caddy /\ route # NoBlock
  /\ \A p \in Ops : At(p, "start") \/ ~SameVersion(p)
  => \E c \in Webs : NameOf(c) = route.dial

\* When every deploy has ended and reported success or a plain failure, with no
\* lock lost, no look at a _replaced name failed and nothing left up or down
\* unreported, what runs is the authority's release, once: a success has retired
\* what it replaced, its removed worker included, and a failure has left nothing
\* of its own and brought back what it displaced.  Left unreported are the
\* container of a run whose answer was lost (deploy.go:1942), the one whose stop
\* failed after it had stopped (deploy.go:687) and what an undo that drops its
\* errors did not stop or remove.
SettledClean ==
  /\ \A p \in Ops : At(p, "done") /\ outcome[p] \in {"ok", "failed", "refused"}
  /\ usurped = {} /\ unsaid = {} /\ blind = {}
  => /\ \A c \in Running : c.ver = current.hash /\ c.gen = current.gen
     /\ current.hash # NoVer => Cardinality(Webs) = 1

\* A deploy never stops or removes a running container that another deploy made
\* at a later generation than the one it read, however late its commands
\* arrive (deploy.go's comment on the generation identities).
SparesNewer(p) ==
  \A c \in Running : c.gen > From(p) /\ c.by # p =>
    \E x \in containers' : IdOf(x) = IdOf(c) /\ x.running
StaleSparesNewer == [][\A p \in Ops : DeployStep(p) => SparesNewer(p)]_vars

\* The four commands that stop or remove what bears a name, running or not, and
\* look at neither the lock nor the generation.
ByName(p) == Displace(p) \/ RetireByName(p) \/ ClearReplaced(p) \/ RemovePartial(p)

\* Every step but those four spares it: the undo and the retirement, fenced on the
\* generation, and the guarded runs with what they clear.
FencedSparesNewer ==
  [][\A p \in Ops : ~SparesNewer(p) /\ DeployStep(p) => ByName(p)]_vars

\* What deploy.go says of restorePreviousRoute: a successor that switched the
\* route has a block in neither set, and the restore refuses.
StaleRestoreSparesNewer ==
  [][\A p \in Ops : RestoreRoute(p) /\ route' # route =>
       route.gen <= From(p) \/ route = NewBlock(p)]_vars

\* What docs/first-success.md says of a failed deploy: the previous version
\* keeps serving.
FailureKeepsServing ==
  \A p \in Ops : At(p, "done") /\ outcome[p] = "failed" /\ route # NoBlock
    => \E c \in Webs : NameOf(c) = route.dial
=============================================================================
