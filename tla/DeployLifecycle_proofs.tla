------------------------ MODULE DeployLifecycle_proofs ------------------------
(***************************************************************************)
(* What TLAPS proves of the deploys, for any number of them.  Whatever the *)
(* plans, the faults, the crashes and the fate of the lock, no step but    *)
(* the four that go by a name ends a container of a generation later than  *)
(* the deploy's own: a deploy's list of what it started names only what it *)
(* started.  Everything keeps its type.  While no live deploy loses its    *)
(* lock or the answer of its switch, the app's block dials a container     *)
(* that runs: an invariant of where each deploy stands, before its commit  *)
(* and after it.  While no deploy acts on a name unseen or without the     *)
(* lock, the authority is served, whoever loses the lock: an invariant of  *)
(* what each deploy read, and of what became of it since.  And when        *)
(* nothing is left unsaid either and no lock was lost, what has settled is *)
(* clean: an invariant of what runs beside each deploy's own, place by     *)
(* place.                                                                  *)
(***************************************************************************)
EXTENDS DeployLifecycle, TLAPS, FiniteSetTheorems

Fields == {"saw", "resolved", "switched", "listed", "snap", "todo", "proc", "displaced",
           "started", "flaw"}

OwnMemory(m, p) ==
  /\ DOMAIN m = Fields
  /\ m.saw \in States
  /\ \A i \in m.started : i[1] = p

Shape ==
  /\ plan \in Plans
  /\ containers \subseteq Containers
  /\ current \in States
  /\ DOMAIN mem = Ops
  /\ \A p \in Ops : OwnMemory(mem[p], p)

-----------------------------------------------------------------------------
(* What is made of a container is a container. *)

\* A container stopped, remade, renamed or started again is one.
LEMMA MadeOf ==
  ASSUME NEW c \in Containers, NEW p \in Makers
  PROVE  /\ Stopped(c) \in Containers
         /\ Remade(p, c) \in Containers
         /\ [c EXCEPT !.replaced = TRUE] \in Containers
         /\ [c EXCEPT !.running = TRUE] \in Containers
BY DEF Containers, Stopped, Remade

\* What a deploy runs is a container of its own.
LEMMA Fresh ==
  ASSUME NEW p \in Ops, NEW proc \in Procs, Shape
  PROVE  /\ Container(p, proc, Next_(p)) \in Containers
         /\ Container(p, proc, Next_(p)).by = p
         /\ IdOf(Container(p, proc, Next_(p)))[1] = p
<1>1. plan[p].ver \in Vers /\ plan[p].recreate \in BOOLEAN
  BY DeployAssumption DEF Shape, Plan, Makers
<1>2. Next_(p) \in Nat
  BY DEF Next_, From, Shape, OwnMemory, States
<1>3. (plan[p].recreate /\ proc = "web") \in BOOLEAN
  OBVIOUS
<1> QED
  BY <1>1, <1>2, <1>3 DEF Container, Containers, IdOf, Makers

\* The shapes at the start.
LEMMA Starts == Init => Shape
<1> SUFFICES ASSUME Init PROVE Shape
  OBVIOUS
<1>1. plan \in Plans /\ plan[Founder] \in Plan
  BY DeployAssumption DEF Init, Makers
<1>2. containers \subseteq Containers
  <2>1. CASE plan[Founder].ver = NoVer
    BY <2>1 DEF Init, Founded
  <2>2. CASE plan[Founder].ver # NoVer
    <3>1. plan[Founder].ver \in Vers /\ plan[Founder].recreate \in BOOLEAN
      BY <1>1, <2>2 DEF Plan
    <3>2. ProcsOf(Founder) \subseteq Procs
      BY DEF ProcsOf, Procs
    <3>3. \A proc \in ProcsOf(Founder) : (plan[Founder].recreate /\ proc = "web") \in BOOLEAN
      OBVIOUS
    <3>4. \A proc \in ProcsOf(Founder) : Container(Founder, proc, 1) \in Containers
      BY <3>1, <3>2, <3>3 DEF Container, Containers, Makers
    <3> QED
      BY <2>2, <3>4 DEF Init, Founded
  <2> QED
    BY <2>1, <2>2
<1>3. current \in States
  BY <1>1 DEF Init, Plan, States, NoState
<1>4. DOMAIN mem = Ops /\ \A p \in Ops : OwnMemory(mem[p], p)
  BY DEF Init, OwnMemory, Blank, Fields, States, NoState
<1> QED
  BY <1>1, <1>2, <1>3, <1>4 DEF Shape

-----------------------------------------------------------------------------
(* A swap of containers ends only what it takes out. *)

\* What is swapped out was old, its own, or comes back running.
LEMMA SwapKeeps ==
  ASSUME Shape, NEW p \in Ops, NEW old, NEW new, Swap(old, new),
         new \subseteq Containers,
         \A c \in old : c.running => c.gen <= From(p) \/ c.by = p
                         \/ \E x \in new : IdOf(x) = IdOf(c) /\ x.running
  PROVE  containers' \subseteq Containers /\ SparesNewer(p)
<1>1. containers' \subseteq Containers
  BY DEF Swap, Shape
<1>2. ASSUME NEW c \in Running, c.gen > From(p), c.by # p
      PROVE  \E x \in containers' : IdOf(x) = IdOf(c) /\ x.running
  <2>1. c \in Containers /\ c.running /\ From(p) \in Nat /\ c.gen \in Nat
    BY <1>2 DEF Running, Shape, Containers, From, OwnMemory, States
  <2>2. CASE c \in old
    <3>1. ~(c.gen <= From(p))
      BY <1>2, <2>1
    <3> QED
      BY <1>2, <2>1, <2>2, <3>1 DEF Swap
  <2>3. CASE c \notin old
    <3>1. c \in containers'
      BY <2>3 DEF Swap, Running
    <3> QED
      BY <2>1, <3>1
  <2> QED
    BY <2>2, <2>3
<1> QED
  BY <1>1, <1>2 DEF SparesNewer

\* A step that swaps nothing spares everything.
LEMMA StillKeeps ==
  ASSUME Shape, NEW p \in Ops, UNCHANGED containers
  PROVE  containers' \subseteq Containers /\ SparesNewer(p)
BY DEF Shape, SparesNewer, Running

(* What a deploy started is its own. *)
LEMMA StartedOwn ==
  ASSUME Shape, NEW p \in Ops, NEW c \in containers, IdOf(c) \in mem[p].started
  PROVE  c.by = p
BY DEF Shape, OwnMemory, IdOf

\* A restart under the generation guard.
LEMMA RestartKeeps ==
  ASSUME Shape, NEW p \in Ops, NEW n,
         \/ Restarted(p, n) \/ RestartRefused(p, n) \/ RestartFailed(p, n)
         \/ RestartSpoils(p, n)
  PROVE  containers' \subseteq Containers /\ SparesNewer(p)
<1>1. CASE Restarted(p, n)
  <2>1. PICK c \in Named(n) : MayRestart(p, c) /\ Swap({c}, {Remade(p, c)})
    BY <1>1 DEF Restarted
  <2>2. Remade(p, c) \in Containers
    BY MadeOf DEF Named, Shape, Makers
  <2> QED
    BY <2>1, <2>2, SwapKeeps DEF MayRestart
<1>2. CASE RestartRefused(p, n)
  BY <1>2, StillKeeps DEF RestartRefused
<1>3. CASE RestartFailed(p, n)
  <2>1. CASE UNCHANGED containers
    BY <2>1, StillKeeps
  <2>2. CASE \E c \in Named(n) : MayRestart(p, c) /\ Swap({c}, {})
    <3>1. PICK c \in Named(n) : MayRestart(p, c) /\ Swap({c}, {})
      BY <2>2
    <3> QED
      BY <3>1, SwapKeeps DEF MayRestart
  <2>3. CASE \E c \in Named(n) : MayRestart(p, c) /\ Swap({c}, {Remade(p, c)})
    <3>1. PICK c \in Named(n) : MayRestart(p, c) /\ Swap({c}, {Remade(p, c)})
      BY <2>3
    <3>2. Remade(p, c) \in Containers
      BY MadeOf DEF Named, Shape, Makers
    <3> QED
      BY <3>1, <3>2, SwapKeeps DEF MayRestart
  <2> QED
    BY <1>3, <2>1, <2>2, <2>3 DEF RestartFailed
<1>4. CASE RestartSpoils(p, n)
  <2>1. PICK c \in Named(n) : MayRestart(p, c) /\ Swap({c}, {Stopped(Remade(p, c))})
    BY <1>4 DEF RestartSpoils
  <2>2. Remade(p, c) \in Containers
    BY MadeOf DEF Named, Shape, Makers
  <2>3. Stopped(Remade(p, c)) \in Containers
    BY <2>2, MadeOf DEF Makers
  <2> QED
    BY <2>1, <2>3, SwapKeeps DEF MayRestart
<1> QED
  BY <1>1, <1>2, <1>3, <1>4

\* A `docker run` takes nothing away.
LEMMA RunKeeps ==
  ASSUME Shape, NEW p \in Ops, NEW proc \in Procs, NEW taken, NEW next,
         Run(p, proc, taken, next)
  PROVE  containers' \subseteq Containers /\ SparesNewer(p)
<1> DEFINE new == Container(p, proc, Next_(p))
<1>1. new \in Containers /\ Stopped(new) \in Containers
  BY Fresh, MadeOf DEF Makers
<1>2. CASE UNCHANGED containers
  BY <1>2, StillKeeps
<1>3. CASE Swap({}, {new}) \/ Swap({}, {Stopped(new)})
  BY <1>1, <1>3, SwapKeeps
<1> QED
  BY <1>2, <1>3 DEF Run

\* Its own stopped workload is started again.
LEMMA StartAgainKeeps ==
  ASSUME Shape, NEW p \in Ops, StartAgain(p, containers)
  PROVE  containers' \subseteq Containers /\ SparesNewer(p)
<1>1. PICK up \in SUBSET {c \in Started(p) \cap containers : ~c.running} :
        containers' = (containers \ up) \cup {[c EXCEPT !.running = TRUE] : c \in up}
  BY DEF StartAgain
<1>2. \A c \in up : [c EXCEPT !.running = TRUE] \in Containers
  BY <1>1, MadeOf, DeployAssumption DEF Shape, Makers
<1>3. Swap(up, {[c EXCEPT !.running = TRUE] : c \in up})
  BY <1>1 DEF Swap
<1> QED
  BY <1>1, <1>2, <1>3, SwapKeeps

(* The steps that neither stop nor remove another's container. *)
LEMMA OwnSwapKeeps ==
  ASSUME Shape, NEW p \in Ops, NEW own, own \subseteq Started(p),
         Swap(own, {}) \/ Swap(own, {Stopped(c) : c \in own})
  PROVE  containers' \subseteq Containers /\ SparesNewer(p)
<1>1. \A c \in own : c.by = p /\ c \in Containers
  BY StartedOwn DEF Started, Shape
<1>2. \A c \in own : Stopped(c) \in Containers
  BY <1>1, MadeOf DEF Makers
<1>3. CASE Swap(own, {})
  BY <1>1, <1>3, SwapKeeps
<1>4. CASE Swap(own, {Stopped(c) : c \in own})
  BY <1>1, <1>2, <1>4, SwapKeeps
<1> QED
  BY <1>3, <1>4

\* A renamed container still runs under its id.
LEMMA RenameKeeps ==
  ASSUME Shape, NEW p \in Ops, Rename(p)
  PROVE  containers' \subseteq Containers /\ SparesNewer(p)
<1> DEFINE old == Named(Mine(p, mem[p].proc))
           new == {[c EXCEPT !.replaced = TRUE] : c \in old}
<1>1. CASE UNCHANGED containers
  BY <1>1, StillKeeps
<1>2. CASE Swap(old, new)
  <2>1. old \subseteq Containers
    BY DEF Named, Shape
  <2>2. \A c \in old : [c EXCEPT !.replaced = TRUE] \in Containers
    BY <2>1, MadeOf DEF Makers
  <2>3. \A c \in old : LET x == [c EXCEPT !.replaced = TRUE]
                       IN x.running = c.running /\ IdOf(x) = IdOf(c)
    BY <2>1 DEF IdOf, Containers
  <2>4. \A c \in old : c.running => \E x \in new : IdOf(x) = IdOf(c) /\ x.running
    BY <2>3
  <2>5. new \subseteq Containers
    BY <2>2
  <2> HIDE DEF old, new
  <2> QED
    BY <1>2, <2>4, <2>5, SwapKeeps
<1> QED
  BY <1>1, <1>2 DEF Rename

\* What is removed before a second run does not run.
LEMMA VacateKeeps ==
  ASSUME Shape, NEW p \in Ops, Vacate(p)
  PROVE  containers' \subseteq Containers /\ SparesNewer(p)
<1>1. CASE UNCHANGED containers
  BY <1>1, StillKeeps
<1>2. CASE Swap({c \in Named(Mine(p, NextProc(p))) : ~c.running}, {})
  BY <1>2, SwapKeeps
<1> QED
  BY <1>1, <1>2 DEF Vacate

\* Retirement looks at the generation label.
LEMMA RetireKeeps ==
  ASSUME Shape, NEW p \in Ops, Retire(p)
  PROVE  containers' \subseteq Containers /\ SparesNewer(p)
<1>1. CASE UNCHANGED containers
  BY <1>1, StillKeeps
<1>2. CASE \E c \in mem[p].todo :
        LET gone == {x \in Identified(IdOf(c)) : NotNewer(x, From(p))}
        IN Swap(gone, {}) \/ Swap(gone, {Stopped(x) : x \in gone})
  <2>1. PICK c \in mem[p].todo :
        LET gone == {x \in Identified(IdOf(c)) : NotNewer(x, From(p))}
        IN Swap(gone, {}) \/ Swap(gone, {Stopped(x) : x \in gone})
    BY <1>2
  <2> DEFINE gone == {x \in Identified(IdOf(c)) : NotNewer(x, From(p))}
             new == {Stopped(x) : x \in gone}
  <2>2. \A x \in gone : x.gen <= From(p) /\ x \in Containers
    BY DEF NotNewer, Identified, Shape
  <2>3. \A x \in gone : Stopped(x) \in Containers
    BY <2>2, MadeOf DEF Makers
  <2>4. new \subseteq Containers
    BY <2>3
  <2>5. Swap(gone, {}) \/ Swap(gone, new)
    BY <2>1
  <2> HIDE DEF gone, new
  <2> QED
    BY <2>2, <2>4, <2>5, SwapKeeps
<1> QED
  BY <1>1, <1>2 DEF Retire

\* Displacement spares nothing newer, but makes containers of containers.
LEMMA DisplaceTyped ==
  ASSUME Shape, NEW p \in Ops, Displace(p)
  PROVE  containers' \subseteq Containers
<1>1. \A c \in Webs : Stopped(c) \in Containers /\ Remade(p, c) \in Containers
  BY MadeOf DEF Webs, Shape, Makers
<1>2. CASE Swap(Webs, {Stopped(c) : c \in Webs})
  BY <1>1, <1>2 DEF Swap, Shape
<1>3. CASE UNCHANGED containers
  BY <1>3 DEF Shape
<1>4. CASE \E c \in Webs : \E hit \in {{}, {c}} :
           \E before \in SUBSET (Webs \ {c}) : \E lost \in SUBSET before :
             Swap(before \cup hit,
                  {Remade(p, x) : x \in before \ lost} \cup {Stopped(x) : x \in hit})
  <2>1. PICK c \in Webs : \E hit \in {{}, {c}} :
          \E before \in SUBSET (Webs \ {c}) : \E lost \in SUBSET before :
             Swap(before \cup hit,
                  {Remade(p, x) : x \in before \ lost} \cup {Stopped(x) : x \in hit})
    BY <1>4
  <2>2. PICK hit \in {{}, {c}} : \E before \in SUBSET (Webs \ {c}) : \E lost \in SUBSET before :
             Swap(before \cup hit,
                  {Remade(p, x) : x \in before \ lost} \cup {Stopped(x) : x \in hit})
    BY <2>1
  <2>5. PICK before \in SUBSET (Webs \ {c}) : \E lost \in SUBSET before :
             Swap(before \cup hit,
                  {Remade(p, x) : x \in before \ lost} \cup {Stopped(x) : x \in hit})
    BY <2>2
  <2>6. PICK lost \in SUBSET before :
             Swap(before \cup hit,
                  {Remade(p, x) : x \in before \ lost} \cup {Stopped(x) : x \in hit})
    BY <2>5
  <2>3. {Remade(p, x) : x \in before \ lost} \subseteq Containers
    BY <1>1, <2>1, <2>5
  <2>4. {Stopped(x) : x \in hit} \subseteq Containers
    BY <1>1, <2>1, <2>2
  <2> QED
    BY <2>6, <2>3, <2>4 DEF Swap, Shape
<1> QED
  BY <1>2, <1>3, <1>4 DEF Displace

\* So does the retirement by derived names.
LEMMA ByNameTyped ==
  ASSUME Shape, NEW p \in Ops, RetireByName(p)
  PROVE  containers' \subseteq Containers
<1>1. PICK old \in SUBSET containers :
        Swap(old, IF SameVersion(p) THEN {} ELSE {Stopped(c) : c \in old})
  BY DEF RetireByName
<1>2. \A c \in old : Stopped(c) \in Containers
  BY <1>1, MadeOf DEF Shape, Makers
<1> QED
  BY <1>1, <1>2 DEF Swap, Shape

\* So do the two removals by name.
LEMMA RemovalTyped ==
  ASSUME Shape, NEW p \in Ops, ClearReplaced(p) \/ RemovePartial(p)
  PROVE  containers' \subseteq Containers
BY DEF ClearReplaced, RemovePartial, Swap, Shape

(* One step of one deploy, action by action. *)
LEMMA StepKeeps ==
  ASSUME Shape, NEW p \in Ops, DeployStep(p)
  PROVE  /\ containers' \subseteq Containers
         /\ ByName(p) \/ SparesNewer(p)
<1>1. CASE UNCHANGED containers
  BY <1>1, StillKeeps
<1>2. CASE Rename(p)
  BY <1>2, RenameKeeps
<1>3. CASE Displace(p)
  BY <1>3, DisplaceTyped DEF ByName
<1>4. CASE StartWeb(p)
  BY <1>4, RunKeeps DEF StartWeb, Procs
<1>5. CASE StartWorker(p) \/ Rerun(p)
  BY <1>5, RunKeeps DEF StartWorker, Rerun, NextProc, Procs
<1>6. CASE Retire(p)
  BY <1>6, RetireKeeps
<1>7. CASE RetireByName(p)
  BY <1>7, ByNameTyped DEF ByName
<1>8. CASE Clean_(p)
  <2>1. PICK stuck : Swap({c \in containers : IdOf(c) \in mem[p].started \ stuck}, {})
    BY <1>8 DEF Clean_
  <2>2. {c \in containers : IdOf(c) \in mem[p].started \ stuck} \subseteq Started(p)
    BY DEF Started
  <2> QED
    BY <2>1, <2>2, OwnSwapKeeps
<1>9. CASE Restore(p)
  BY <1>9, RestartKeeps DEF Restore
<1>10. CASE AbortStop(p)
  <2>1. PICK stuck : Swap(Started(p) \ stuck, {Stopped(c) : c \in Started(p) \ stuck})
    BY <1>10 DEF AbortStop
  <2> QED
    BY <2>1, OwnSwapKeeps
<1>11. CASE AbortRestore(p)
  BY <1>1, <1>11, RestartKeeps DEF AbortRestore
<1>12. CASE AbortStart(p)
  BY <1>12, StartAgainKeeps DEF AbortStart
<1>13. CASE AbortKeep(p)
  BY <1>1, <1>13, StartAgainKeeps DEF AbortKeep
<1>14. CASE AbortRemove(p)
  <2>1. PICK left : Swap(Started(p) \ left, {})
    BY <1>14 DEF AbortRemove
  <2> QED
    BY <2>1, OwnSwapKeeps
<1>15. CASE ClearReplaced(p) \/ RemovePartial(p)
  BY <1>15, RemovalTyped DEF ByName
<1>16. CASE Vacate(p)
  BY <1>16, VacateKeeps
<1>17. \/ UNCHANGED containers
       \/ Rename(p) \/ Displace(p) \/ StartWeb(p) \/ StartWorker(p) \/ Rerun(p) \/ Retire(p)
       \/ RetireByName(p) \/ Clean_(p) \/ Restore(p) \/ AbortStop(p) \/ AbortRestore(p)
       \/ AbortStart(p) \/ AbortKeep(p) \/ AbortRemove(p)
       \/ ClearReplaced(p) \/ RemovePartial(p) \/ Vacate(p)
  BY DEF DeployStep, worldVars, ReadState, ResolveRoute, Reconcile, CheckRename,
         InspectReplaced, ConfirmAbsent, Snapshot, CheckDisplace, Health, ClearStopped,
         InspectPartial, Switch, Reread, Commit, RetireStaleRoute, Record, BeginRetire,
         Finish, Restored, RestoreRoute
<1> QED
  BY <1>1, <1>2, <1>3, <1>4, <1>5, <1>6, <1>7, <1>8, <1>9, <1>10, <1>11, <1>12, <1>13,
     <1>14, <1>15, <1>16, <1>17

-----------------------------------------------------------------------------
(* What a deploy remembers. *)

Remembers == DOMAIN mem = Ops /\ \A p \in Ops : OwnMemory(mem[p], p)

\* One deploy remembers something else.
LEMMA OneMemory ==
  ASSUME Shape, NEW p \in Ops, NEW m, OwnMemory(m, p), mem' = [mem EXCEPT ![p] = m]
  PROVE  Remembers'
BY DEF Shape, Remembers, OwnMemory

\* The fields that say nothing of whose a container is.
LEMMA Overlay ==
  ASSUME Shape, NEW p \in Ops, NEW x
  PROVE  /\ OwnMemory([mem[p] EXCEPT !.todo = x], p)
         /\ OwnMemory([mem[p] EXCEPT !.flaw = x], p)
         /\ OwnMemory([mem[p] EXCEPT !.proc = x], p)
         /\ OwnMemory([mem[p] EXCEPT !.displaced = x], p)
         /\ OwnMemory([mem[p] EXCEPT !.switched = x], p)
BY DEF Shape, OwnMemory, Fields

\* A step that remembers nothing new.
LEMMA MemoryStill ==
  ASSUME Shape, UNCHANGED mem PROVE Remembers'
BY DEF Shape, Remembers, OwnMemory

\* What a run adds to the list of what was started is its own.
LEMMA RunRemembers ==
  ASSUME Shape, NEW p \in Ops, NEW proc \in Procs, NEW taken, NEW next,
         Run(p, proc, taken, next)
  PROVE  Remembers'
<1>1. CASE UNCHANGED mem
  BY <1>1, MemoryStill
<1>2. CASE mem' = [mem EXCEPT ![p].started = @ \cup {IdOf(Container(p, proc, Next_(p)))}]
  <2>1. OwnMemory([mem[p] EXCEPT !.started = @ \cup {IdOf(Container(p, proc, Next_(p)))}], p)
    BY Fresh DEF Shape, OwnMemory, Fields
  <2> QED
    BY <1>2, <2>1, OneMemory
<1> QED
  BY <1>1, <1>2 DEF Run

\* A deploy that has ended keeps only what it read.
LEMMA ForgetRemembers ==
  ASSUME Shape, NEW p \in Ops, Forget(p) PROVE Remembers'
<1>1. OwnMemory([Blank EXCEPT !.saw = mem[p].saw], p)
  BY DEF Shape, OwnMemory, Fields, Blank
<1> QED
  BY <1>1, OneMemory DEF Forget

\* The memory after one step, action by action.
LEMMA StepRemembers ==
  ASSUME Shape, NEW p \in Ops, DeployStep(p)
  PROVE  Remembers'
<1>1. CASE UNCHANGED mem
  BY <1>1, MemoryStill
<1>2. CASE StartWeb(p) \/ StartWorker(p) \/ Rerun(p)
  BY <1>2, RunRemembers DEF StartWeb, StartWorker, Rerun, NextProc, Procs
<1>3. CASE ReadState(p)
  <2>1. OwnMemory([mem[p] EXCEPT !.saw = current], p)
    BY DEF Shape, OwnMemory, Fields
  <2> QED
    BY <1>1, <1>3, <2>1, OneMemory DEF ReadState
<1>4. CASE \E x : mem' = [mem EXCEPT ![p].todo = x]
  BY <1>4, Overlay, OneMemory
<1>5. CASE \E x : mem' = [mem EXCEPT ![p].flaw = x]
  BY <1>5, Overlay, OneMemory
<1>6. CASE \E x : mem' = [mem EXCEPT ![p].displaced = x]
  BY <1>6, Overlay, OneMemory
<1>7. CASE \E x : mem' = [mem EXCEPT ![p].switched = x]
  BY <1>7, Overlay, OneMemory
<1>8. CASE \E x, y : mem' = [mem EXCEPT ![p].todo = x, ![p].flaw = y]
  BY <1>8 DEF Shape, Remembers, OwnMemory, Fields
<1>9. CASE \E x, y : mem' = [mem EXCEPT ![p].listed = x, ![p].snap = y]
  BY <1>9 DEF Shape, Remembers, OwnMemory, Fields
<1>10. CASE \E x, y : mem' = [mem EXCEPT ![p].resolved = x, ![p].switched = y]
  BY <1>10 DEF Shape, Remembers, OwnMemory, Fields
<1>11. CASE ResolveRoute(p)
  BY <1>1, <1>10, <1>11 DEF ResolveRoute
<1>12. CASE CheckRename(p) \/ Rename(p) \/ ConfirmAbsent(p)
  BY <1>1, <1>4, <1>12 DEF CheckRename, Rename, ConfirmAbsent, Moved
<1>13. CASE Snapshot(p)
  BY <1>1, <1>9, <1>13 DEF Snapshot
<1>14. CASE Displace(p)
  BY <1>1, <1>6, <1>14 DEF Displace
<1>15. CASE Reread(p)
  BY <1>1, <1>7, <1>15 DEF Reread
<1>16. CASE RetireStaleRoute(p)
  BY <1>1, <1>5, <1>16 DEF RetireStaleRoute
<1>17. CASE BeginRetire(p)
  BY <1>1, <1>4, <1>8, <1>17 DEF BeginRetire
<1>18. CASE Retire(p)
  BY <1>4, <1>8, <1>18 DEF Retire
<1>19. CASE RetireByName(p)
  BY <1>5, <1>19 DEF RetireByName
<1>20. CASE Clean_(p)
  BY <1>8, <1>20 DEF Clean_
<1>21. CASE Restore(p)
  BY <1>4, <1>8, <1>21 DEF Restore
<1>22. CASE AbortStop(p)
  BY <1>4, <1>22 DEF AbortStop
<1>23. CASE AbortRestore(p)
  BY <1>1, <1>4, <1>23 DEF AbortRestore
<1>24. CASE \/ Reconcile(p) \/ CheckDisplace(p) \/ Health(p) \/ Switch(p) \/ Commit(p)
            \/ Record(p) \/ Finish(p) \/ Restored(p) \/ AbortStart(p) \/ RestoreRoute(p)
            \/ AbortKeep(p) \/ AbortRemove(p) \/ ClearReplaced(p) \/ ClearStopped(p)
            \/ Vacate(p) \/ InspectPartial(p) \/ RemovePartial(p)
  BY <1>1, <1>24 DEF Reconcile, CheckDisplace, Health, Switch, Commit, Record, Finish,
                     Restored, AbortStart, RestoreRoute, AbortKeep, AbortRemove,
                     ClearReplaced, ClearStopped, Vacate, InspectPartial, RemovePartial
<1>25. CASE InspectReplaced(p)
  <2>1. \E x : mem' = [mem EXCEPT ![p].proc = x]
    BY <1>25 DEF InspectReplaced
  <2> QED
    BY <2>1, Overlay, OneMemory
<1> QED
  BY <1>2, <1>3, <1>11, <1>12, <1>13, <1>14, <1>15, <1>16, <1>17, <1>18, <1>19, <1>20,
     <1>21, <1>22, <1>23, <1>24, <1>25 DEF DeployStep

-----------------------------------------------------------------------------
\* No step changes what a deploy is about.
LEMMA StepPlan ==
  ASSUME NEW p \in Ops, DeployStep(p) PROVE UNCHANGED plan
<1>1. (ReadState(p) \/ ResolveRoute(p) \/ Reconcile(p)) => UNCHANGED plan
  BY DEF lockVars, worldVars, ReadState, ResolveRoute, Reconcile
<1>2. (CheckRename(p) \/ Rename(p) \/ Snapshot(p)) => UNCHANGED plan
  BY DEF lockVars, worldVars, CheckRename, Rename, Snapshot
<1>3. (CheckDisplace(p) \/ Displace(p) \/ StartWeb(p)) => UNCHANGED plan
  BY DEF lockVars, worldVars, CheckDisplace, Displace, StartWeb
<1>4. (Health(p) \/ StartWorker(p) \/ Switch(p)) => UNCHANGED plan
  BY DEF lockVars, worldVars, Health, StartWorker, Switch
<1>11. (InspectReplaced(p) \/ ClearReplaced(p) \/ ConfirmAbsent(p)) => UNCHANGED plan
  BY DEF lockVars, worldVars, InspectReplaced, ClearReplaced, ConfirmAbsent
<1>12. (ClearStopped(p) \/ Vacate(p) \/ Rerun(p)) => UNCHANGED plan
  BY DEF lockVars, worldVars, ClearStopped, Vacate, Rerun
<1>13. (InspectPartial(p) \/ RemovePartial(p)) => UNCHANGED plan
  BY DEF lockVars, worldVars, InspectPartial, RemovePartial
<1>5. (Reread(p) \/ Commit(p) \/ RetireStaleRoute(p)) => UNCHANGED plan
  BY DEF lockVars, worldVars, Reread, Commit, RetireStaleRoute
<1>6. (Record(p) \/ BeginRetire(p) \/ Retire(p)) => UNCHANGED plan
  BY DEF lockVars, worldVars, Record, BeginRetire, Retire
<1>7. (RetireByName(p) \/ Finish(p) \/ Clean_(p)) => UNCHANGED plan
  BY DEF lockVars, worldVars, RetireByName, Finish, Clean_
<1>8. (Restore(p) \/ Restored(p) \/ AbortStop(p)) => UNCHANGED plan
  BY DEF lockVars, worldVars, Restore, Restored, AbortStop
<1>9. (AbortRestore(p) \/ AbortStart(p) \/ RestoreRoute(p)) => UNCHANGED plan
  BY DEF lockVars, worldVars, AbortRestore, AbortStart, RestoreRoute
<1>10. (AbortKeep(p) \/ AbortRemove(p)) => UNCHANGED plan
  BY DEF lockVars, worldVars, AbortKeep, AbortRemove
<1> QED
  BY <1>1, <1>2, <1>3, <1>4, <1>5, <1>6, <1>7, <1>8, <1>9, <1>10, <1>11, <1>12, <1>13
     DEF DeployStep

\* The plans are constants of a behaviour.
LEMMA PlanStays ==
  ASSUME [Next]_vars PROVE UNCHANGED plan
<1>1. ASSUME NEW p \in Ops, Acquire(p) \/ Release(p) \/ Crash(p) PROVE UNCHANGED plan
  BY <1>1 DEF Acquire, Release, Crash, lockVars, worldVars, vars
<1>2. Unlock \/ UNCHANGED vars => UNCHANGED plan
  BY DEF Unlock, vars, lockVars, worldVars
<1> QED
  BY <1>1, <1>2, StepPlan DEF Next

\* Only a commit writes state.json.
LEMMA StepState ==
  ASSUME NEW p \in Ops, DeployStep(p), ~Commit(p) PROVE UNCHANGED current
<1>1. (ReadState(p) \/ ResolveRoute(p) \/ Reconcile(p)) => UNCHANGED current
  BY DEF lockVars, worldVars, ReadState, ResolveRoute, Reconcile
<1>2. (CheckRename(p) \/ Rename(p) \/ Snapshot(p)) => UNCHANGED current
  BY DEF lockVars, worldVars, CheckRename, Rename, Snapshot
<1>3. (CheckDisplace(p) \/ Displace(p) \/ StartWeb(p)) => UNCHANGED current
  BY DEF lockVars, worldVars, CheckDisplace, Displace, StartWeb
<1>4. (Health(p) \/ StartWorker(p) \/ Switch(p)) => UNCHANGED current
  BY DEF lockVars, worldVars, Health, StartWorker, Switch
<1>11. (InspectReplaced(p) \/ ClearReplaced(p) \/ ConfirmAbsent(p)) => UNCHANGED current
  BY DEF lockVars, worldVars, InspectReplaced, ClearReplaced, ConfirmAbsent
<1>12. (ClearStopped(p) \/ Vacate(p) \/ Rerun(p)) => UNCHANGED current
  BY DEF lockVars, worldVars, ClearStopped, Vacate, Rerun
<1>13. (InspectPartial(p) \/ RemovePartial(p)) => UNCHANGED current
  BY DEF lockVars, worldVars, InspectPartial, RemovePartial
<1>5. (Reread(p) \/ RetireStaleRoute(p) \/ Record(p)) => UNCHANGED current
  BY DEF lockVars, worldVars, Reread, RetireStaleRoute, Record
<1>6. (BeginRetire(p) \/ Retire(p) \/ RetireByName(p)) => UNCHANGED current
  BY DEF lockVars, worldVars, BeginRetire, Retire, RetireByName
<1>7. (Finish(p) \/ Clean_(p) \/ Restore(p)) => UNCHANGED current
  BY DEF lockVars, worldVars, Finish, Clean_, Restore
<1>8. (Restored(p) \/ AbortStop(p) \/ AbortRestore(p)) => UNCHANGED current
  BY DEF lockVars, worldVars, Restored, AbortStop, AbortRestore
<1>9. (AbortStart(p) \/ RestoreRoute(p) \/ AbortKeep(p)) => UNCHANGED current
  BY DEF lockVars, worldVars, AbortStart, RestoreRoute, AbortKeep
<1>10. AbortRemove(p) => UNCHANGED current
  BY DEF lockVars, worldVars, AbortRemove
<1> QED
  BY <1>1, <1>2, <1>3, <1>4, <1>5, <1>6, <1>7, <1>8, <1>9, <1>10, <1>11, <1>12, <1>13
     DEF DeployStep

\* A state.json is a state.json.
LEMMA StateTyped ==
  ASSUME Shape, [Next]_vars PROVE current' \in States
<1>1. CASE UNCHANGED current
  BY <1>1 DEF Shape
<1>2. ASSUME NEW p \in Ops, current' = NewState(p) PROVE current' \in States
  <2>1. plan[p].ver \in Vers /\ plan[p].caddy \in BOOLEAN
    BY DeployAssumption DEF Shape, Plan, Makers
  <2>2. Next_(p) \in Nat
    BY DEF Next_, From, Shape, OwnMemory, States
  <2> QED
    BY <1>2, <2>1, <2>2 DEF NewState, States
<1>3. CASE \E p \in Ops : Commit(p)
  BY <1>1, <1>2, <1>3 DEF Commit
<1>4. ASSUME NEW p \in Ops, Acquire(p) \/ Release(p) \/ Crash(p) PROVE UNCHANGED current
  BY <1>4 DEF Acquire, Release, Crash, lockVars, worldVars, vars
<1>5. Unlock \/ UNCHANGED vars => UNCHANGED current
  BY DEF Unlock, vars, lockVars, worldVars
<1> QED
  BY <1>1, <1>3, <1>4, <1>5, StepState DEF Next

\* Every step keeps the shapes.
LEMMA ShapeStays == Shape /\ [Next]_vars => Shape'
<1> SUFFICES ASSUME Shape, [Next]_vars PROVE Shape'
  OBVIOUS
<1>1. plan' \in Plans /\ current' \in States
  BY PlanStays, StateTyped DEF Shape
<1>2. CASE \E p \in Ops : DeployStep(p)
  BY <1>1, <1>2, StepKeeps, StepRemembers DEF Shape, Remembers
<1>3. CASE \E p \in Ops : Acquire(p) \/ Release(p) \/ Crash(p)
  <2>1. UNCHANGED containers
    BY <1>3 DEF Acquire, Release, Crash, worldVars
  <2>2. Remembers'
    BY <1>3, ForgetRemembers, MemoryStill DEF Acquire, Release, Crash
  <2> QED
    BY <1>1, <2>1, <2>2 DEF Shape, Remembers
<1>4. CASE Unlock \/ UNCHANGED vars
  <2>1. UNCHANGED <<containers, mem>>
    BY <1>4 DEF Unlock, vars, worldVars
  <2> QED
    BY <1>1, <2>1, MemoryStill DEF Shape, Remembers
<1> QED
  BY <1>2, <1>3, <1>4 DEF Next

(* No deploy removes or stops a running container another deploy made at a *)
(* later generation than the one it read, save where it goes by a name:    *)
(* where it displaces a fixed-port workload, retires by derived names,     *)
(* clears a _replaced name or removes what a failed run left.  deploy.go's *)
(* generation identities, and the runs that take a name, for any number of *)
(* deploys and any fate of their locks.                                    *)
THEOREM SuccessorSpared == Spec => FencedSparesNewer
<1>1. Init => Shape
  BY Starts
<1>2. Shape /\ [Next]_vars => Shape'
  BY ShapeStays
<1>3. Shape => [\A p \in Ops : ~SparesNewer(p) /\ DeployStep(p) => ByName(p)]_vars
  BY StepKeeps
<1> QED
  BY <1>1, <1>2, <1>3, PTL DEF Spec, FencedSparesNewer

-----------------------------------------------------------------------------
(* The types of everything a deploy touches.                               *)

\* The typed part of a deploy's memory.
Remembered(m) ==
  /\ m.saw \in States
  /\ m.resolved \in Blocks /\ m.switched \in Blocks
  /\ m.snap \subseteq Containers
  /\ m.displaced \subseteq Names
  /\ m.started \subseteq Ids

TypeInv == TypeOK /\ Shape

ControlTypes == pc \in [Ops -> Steps \cup Final] /\ outcome \in [Ops -> Outcomes]
PlaceTypes ==
  /\ holder \in Ops \cup {NoOne}
  /\ tookOver \subseteq Ops /\ usurped \subseteq Ops /\ unsaid \subseteq Ops
  /\ blind \subseteq Ops /\ unsure \subseteq Ops
  /\ route \in Blocks /\ records \subseteq Vers
MemoryTypes == \A p \in Ops : Remembered(mem[p])

\* What a deploy names and writes.
LEMMA Vocabulary ==
  ASSUME TypeInv, NEW p \in Ops
  PROVE  /\ plan[p].ver \in Vers /\ plan[p].worker \in BOOLEAN
         /\ plan[p].recreate \in BOOLEAN /\ plan[p].caddy \in BOOLEAN
         /\ From(p) \in Nat /\ Next_(p) \in Nat
         /\ NewBlock(p) \in Blocks /\ OldBlock(p) \in Blocks /\ NoBlock \in Blocks
         /\ DOMAIN mem = Ops /\ DOMAIN mem[p] = Fields
<1>1. /\ plan[p].ver \in Vers /\ plan[p].worker \in BOOLEAN
      /\ plan[p].recreate \in BOOLEAN /\ plan[p].caddy \in BOOLEAN
  BY DeployAssumption DEF TypeInv, Shape, Plan, Makers
<1>2. mem[p].saw \in States /\ From(p) \in Nat /\ Next_(p) \in Nat
  BY DEF TypeInv, TypeOK, From, Next_, States
<1>3. NewBlock(p) \in Blocks /\ NoBlock \in Blocks
  BY <1>1, <1>2 DEF NewBlock, NoBlock, BlockTo, Mine, Name, Blocks, Names, Procs
<1>4. SameVersion(p) \in BOOLEAN
  BY DEF SameVersion
<1>5. OldBlock(p) \in Blocks
  BY <1>2, <1>3, <1>4 DEF OldBlock, BlockTo, Name, Blocks, Names, Procs, States
<1> QED
  BY <1>1, <1>2, <1>3, <1>5 DEF TypeInv, Shape, OwnMemory

\* A container has a name and an id.
LEMMA NamesTyped ==
  ASSUME NEW c \in Containers PROVE NameOf(c) \in Names /\ IdOf(c) \in Ids
BY DEF Containers, NameOf, IdOf, Name, Names, Ids

\* The control of a deploy, and what it reports.
LEMMA ControlTyped ==
  ASSUME TypeInv, [Next]_vars
  PROVE  ControlTypes'
<1>0. pc \in [Ops -> Steps \cup Final] /\ outcome \in [Ops -> Outcomes]
  BY DEF TypeInv, TypeOK
<1>1. ASSUME NEW p \in Ops, NEW s \in Steps \cup Final, Go(p, s), UNCHANGED outcome
      PROVE  ControlTypes'
  BY <1>0, <1>1 DEF Go, ControlTypes
<1>2. ASSUME NEW p \in Ops, NEW o \in Outcomes, End(p, o) PROVE ControlTypes'
  BY <1>0, <1>2 DEF End, Go, Steps, ControlTypes
<1>3. CASE UNCHANGED <<pc, outcome>>
  BY <1>0, <1>3 DEF ControlTypes
<1>4. ASSUME NEW p \in Ops, Acquire(p) \/ Release(p) \/ Crash(p) PROVE ControlTypes'
  BY <1>1, <1>4 DEF Acquire, Release, Crash, Steps, Final
<1>5. ASSUME NEW p \in Ops, ReadState(p) \/ ResolveRoute(p) \/ Reconcile(p) \/ CheckRename(p)
      PROVE  ControlTypes'
  BY <1>1, <1>2, <1>5 DEF ReadState, ResolveRoute, Reconcile, CheckRename, Steps, Outcomes
<1>6. ASSUME NEW p \in Ops, Snapshot(p) \/ CheckDisplace(p) PROVE ControlTypes'
  BY <1>1, <1>2, <1>6 DEF Snapshot, CheckDisplace, Steps, Outcomes
<1>19. ASSUME NEW p \in Ops, InspectReplaced(p) \/ ClearReplaced(p) PROVE ControlTypes'
  BY <1>1, <1>2, <1>19 DEF InspectReplaced, ClearReplaced, Steps, Outcomes
<1>20. ASSUME NEW p \in Ops, Rename(p) \/ ConfirmAbsent(p) PROVE ControlTypes'
  <2>1. Moved(p) => Go(p, "snapshot") \/ Go(p, "renaming")
    BY DEF Moved
  <2> QED
    BY <1>1, <1>2, <1>20, <2>1 DEF Rename, ConfirmAbsent, Steps, Outcomes
<1>21. ASSUME NEW p \in Ops, ClearStopped(p) \/ Vacate(p) \/ InspectPartial(p) \/ RemovePartial(p)
       PROVE  ControlTypes'
  BY <1>1, <1>21 DEF ClearStopped, Vacate, InspectPartial, RemovePartial, Steps
<1>7. ASSUME NEW p \in Ops, Displace(p) PROVE ControlTypes'
  <2>1. CASE Go(p, "web") /\ UNCHANGED outcome
    BY <1>1, <2>1 DEF Steps
  <2>2. CASE End(p, "failed") \/ End(p, "attention")
    BY <1>2, <2>2 DEF Outcomes
  <2> QED
    BY <1>7, <2>1, <2>2 DEF Displace
<1>8. ASSUME NEW p \in Ops, StartWeb(p) \/ StartWorker(p) \/ Health(p) \/ Rerun(p)
      PROVE  ControlTypes'
  <2>1. \/ Go(p, "health") \/ Go(p, "switch") \/ Go(p, "clean") \/ Go(p, "worker")
        \/ Go(p, "occupied") \/ Go(p, "partial")
    BY <1>8 DEF StartWeb, StartWorker, Health, Rerun, Tried, Run
  <2>2. UNCHANGED outcome
    BY <1>8 DEF StartWeb, StartWorker, Health, Rerun
  <2> QED
    BY <1>1, <2>1, <2>2 DEF Steps
<1>9. ASSUME NEW p \in Ops, Switch(p) \/ Reread(p) \/ RetireStaleRoute(p) \/ Record(p)
      PROVE  ControlTypes'
  BY <1>1, <1>9 DEF Switch, Reread, RetireStaleRoute, Record, Steps
<1>10. ASSUME NEW p \in Ops, Commit(p) PROVE ControlTypes'
  BY <1>1, <1>2, <1>10 DEF Commit, Steps, Outcomes
<1>11. ASSUME NEW p \in Ops, BeginRetire(p) \/ RetireByName(p) PROVE ControlTypes'
  BY <1>1, <1>11 DEF BeginRetire, RetireByName, Steps
<1>12. ASSUME NEW p \in Ops, Finish(p) \/ Restored(p) PROVE ControlTypes'
  BY <1>2, <1>12 DEF Finish, Restored, Outcomes
<1>13. ASSUME NEW p \in Ops, Clean_(p) \/ AbortStop(p) \/ RestoreRoute(p) PROVE ControlTypes'
  BY <1>1, <1>13 DEF Clean_, AbortStop, RestoreRoute, Steps
<1>14. ASSUME NEW p \in Ops, AbortRestore(p) PROVE ControlTypes'
  BY <1>1, <1>3, <1>14 DEF AbortRestore, Steps
<1>15. ASSUME NEW p \in Ops, AbortStart(p) \/ AbortKeep(p) \/ AbortRemove(p) PROVE ControlTypes'
  BY <1>2, <1>15 DEF AbortStart, AbortKeep, AbortRemove, Outcomes
<1>16. ASSUME NEW p \in Ops, Retire(p) \/ Restore(p) PROVE ControlTypes'
  BY <1>3, <1>16 DEF Retire, Restore
<1>17. CASE Unlock \/ UNCHANGED vars
  BY <1>3, <1>17 DEF Unlock, vars
<1>18. CASE \E p \in Ops : DeployStep(p)
  BY <1>5, <1>6, <1>7, <1>8, <1>9, <1>10, <1>11, <1>12, <1>13, <1>14, <1>15, <1>16, <1>18,
     <1>19, <1>20, <1>21 DEF DeployStep
<1> QED
  BY <1>4, <1>17, <1>18 DEF Next

\* The lock, the route, the records and the histories.
LEMMA PlacesTyped ==
  ASSUME TypeInv, [Next]_vars
  PROVE  PlaceTypes'
<1>0. /\ holder \in Ops \cup {NoOne} /\ tookOver \subseteq Ops
      /\ usurped \subseteq Ops /\ unsaid \subseteq Ops
      /\ blind \subseteq Ops /\ unsure \subseteq Ops
      /\ route \in Blocks /\ records \subseteq Vers
  BY DEF TypeInv, TypeOK
<1>1. CASE UNCHANGED <<holder, lockVars, route, records>>
  BY <1>0, <1>1 DEF PlaceTypes, lockVars
<1>2. ASSUME NEW p \in Ops, Acquire(p) PROVE PlaceTypes'
  BY <1>0, <1>2 DEF PlaceTypes, Acquire, worldVars
<1>3. ASSUME NEW p \in Ops, Release(p) \/ Crash(p) PROVE PlaceTypes'
  BY <1>0, <1>3 DEF PlaceTypes, Release, Crash, lockVars, worldVars
<1>4. CASE Unlock
  BY <1>0, <1>4 DEF PlaceTypes, Unlock, worldVars
<1>5. CASE UNCHANGED vars
  BY <1>1, <1>5 DEF vars, lockVars
<1>6. ASSUME NEW p \in Ops, UNCHANGED holder,
             \/ ReadState(p) \/ ResolveRoute(p) \/ Reconcile(p) \/ CheckRename(p)
             \/ ConfirmAbsent(p) \/ Snapshot(p) \/ CheckDisplace(p) \/ Health(p)
             \/ ClearStopped(p) \/ Vacate(p) \/ InspectPartial(p) \/ Reread(p) \/ Commit(p)
      PROVE  PlaceTypes'
  <2>1. UNCHANGED <<lockVars, route, records>>
    BY <1>6 DEF ReadState, ResolveRoute, Reconcile, CheckRename, ConfirmAbsent, Snapshot,
                CheckDisplace, Health, ClearStopped, Vacate, InspectPartial, Reread, Commit,
                worldVars
  <2> QED
    BY <1>1, <1>6, <2>1
<1>7. ASSUME NEW p \in Ops, UNCHANGED holder,
             \/ BeginRetire(p) \/ Retire(p) \/ Finish(p) \/ Clean_(p)
             \/ Restored(p) \/ AbortStart(p) \/ AbortKeep(p)
      PROVE  PlaceTypes'
  <2>1. UNCHANGED <<lockVars, route, records>>
    BY <1>7 DEF BeginRetire, Retire, Finish, Clean_, Restored, AbortStart, AbortKeep, worldVars
  <2> QED
    BY <1>1, <1>7, <2>1
<1>8. ASSUME NEW p \in Ops, UNCHANGED holder, Switch(p) \/ RetireStaleRoute(p) \/ RestoreRoute(p)
      PROVE  PlaceTypes'
  <2>1. route' \in Blocks
    BY <1>0, <1>8, Vocabulary DEF PlaceTypes, Switch, RetireStaleRoute, RestoreRoute
  <2>2. /\ UNCHANGED <<tookOver, usurped, unsaid, blind, records>>
        /\ unsure' \in {unsure, unsure \cup {p}}
    BY <1>8 DEF Switch, RetireStaleRoute, RestoreRoute, lockVars
  <2> QED
    BY <1>0, <1>8, <2>1, <2>2 DEF PlaceTypes
<1>9. ASSUME NEW p \in Ops, UNCHANGED holder, Record(p) PROVE PlaceTypes'
  BY <1>0, <1>9, Vocabulary DEF PlaceTypes, Record, lockVars
<1>10. ASSUME NEW p \in Ops, UNCHANGED holder,
              \/ InspectReplaced(p) \/ ClearReplaced(p) \/ Rename(p) \/ RemovePartial(p)
              \/ RetireByName(p) \/ Restore(p) \/ AbortRestore(p)
       PROVE  PlaceTypes'
  <2>1. /\ unsaid' \in {unsaid, unsaid \cup {p}} /\ blind' \in {blind, blind \cup {p}}
        /\ UNCHANGED <<tookOver, usurped, unsure, route, records>>
    BY <1>10 DEF InspectReplaced, ClearReplaced, Rename, RemovePartial, RetireByName, Restore,
                 AbortRestore, Noted, lockVars, worldVars
  <2> QED
    BY <1>0, <2>1, <1>10 DEF PlaceTypes
<1>11. ASSUME NEW p \in Ops, UNCHANGED holder,
              \/ AbortStop(p) \/ AbortRemove(p) \/ Displace(p)
              \/ StartWeb(p) \/ StartWorker(p) \/ Rerun(p)
       PROVE  PlaceTypes'
  <2>1. /\ unsaid' \in {unsaid, unsaid \cup {p}}
        /\ UNCHANGED <<tookOver, usurped, blind, unsure, route, records>>
    BY <1>11 DEF AbortStop, AbortRemove, Displace, StartWeb, StartWorker, Rerun, Run
  <2> QED
    BY <1>0, <1>11, <2>1 DEF PlaceTypes
<1>12. CASE \E p \in Ops : DeployStep(p) /\ UNCHANGED holder
  BY <1>6, <1>7, <1>8, <1>9, <1>10, <1>11, <1>12 DEF DeployStep
<1> QED
  BY <1>2, <1>3, <1>4, <1>5, <1>12 DEF Next

\* One deploy remembers something else.
LEMMA OneRemembered ==
  ASSUME TypeInv, NEW p \in Ops, NEW m, Remembered(m), mem' = [mem EXCEPT ![p] = m]
  PROVE  MemoryTypes'
BY DEF TypeInv, TypeOK, Shape, Remembered, MemoryTypes

\* The fields no type is stated of.
LEMMA Rewritten ==
  ASSUME TypeInv, NEW p \in Ops, NEW x, NEW y
  PROVE  /\ Remembered(mem[p])
         /\ Remembered([mem[p] EXCEPT !.todo = x])
         /\ Remembered([mem[p] EXCEPT !.flaw = x])
         /\ Remembered([mem[p] EXCEPT !.proc = x])
         /\ Remembered([mem[p] EXCEPT !.todo = x, !.flaw = y])
BY DEF TypeInv, TypeOK, Shape, OwnMemory, Fields, Remembered

\* What a deploy keeps in memory.
LEMMA MemoryTyped ==
  ASSUME TypeInv, [Next]_vars PROVE MemoryTypes'
<1>1. CASE UNCHANGED mem
  BY <1>1, Rewritten DEF MemoryTypes
<1>2. ASSUME NEW p \in Ops, NEW x, NEW y,
             \/ mem' = [mem EXCEPT ![p].todo = x]
             \/ mem' = [mem EXCEPT ![p].flaw = x]
             \/ mem' = [mem EXCEPT ![p].proc = x]
             \/ mem' = [mem EXCEPT ![p].todo = x, ![p].flaw = y]
      PROVE  MemoryTypes'
  <2>1. CASE mem' = [mem EXCEPT ![p].todo = x]
    BY <2>1, Rewritten, OneRemembered
  <2>2. CASE mem' = [mem EXCEPT ![p].flaw = x]
    BY <2>2, Rewritten, OneRemembered
  <2>3. CASE mem' = [mem EXCEPT ![p].todo = x, ![p].flaw = y]
    <3>1. mem' = [mem EXCEPT ![p] = [mem[p] EXCEPT !.todo = x, !.flaw = y]]
      BY <2>3 DEF TypeInv, Shape
    <3> QED
      BY <3>1, Rewritten, OneRemembered
  <2>4. CASE mem' = [mem EXCEPT ![p].proc = x]
    BY <2>4, Rewritten, OneRemembered
  <2> QED
    BY <1>2, <2>1, <2>2, <2>3, <2>4
<1>3. ASSUME NEW p \in Ops, ReadState(p) PROVE MemoryTypes'
  <2>1. Remembered([mem[p] EXCEPT !.saw = current])
    BY DEF TypeInv, TypeOK, Shape, OwnMemory, Fields, Remembered
  <2> QED
    BY <1>1, <1>3, <2>1, OneRemembered DEF ReadState
<1>4. ASSUME NEW p \in Ops, ResolveRoute(p) PROVE MemoryTypes'
  <2>1. Remembered([mem[p] EXCEPT !.resolved = route, !.switched = route])
    BY DEF TypeInv, TypeOK, Shape, OwnMemory, Fields, Remembered
  <2>2. CASE mem' = [mem EXCEPT ![p].resolved = route, ![p].switched = route]
    <3>1. mem' = [mem EXCEPT ![p] = [mem[p] EXCEPT !.resolved = route, !.switched = route]]
      BY <2>2 DEF TypeInv, Shape
    <3> QED
      BY <3>1, <2>1, OneRemembered
  <2> QED
    BY <1>1, <1>4, <2>2 DEF ResolveRoute
<1>5. ASSUME NEW p \in Ops, Reread(p) PROVE MemoryTypes'
  <2>1. Remembered([mem[p] EXCEPT !.switched = route])
    BY DEF TypeInv, TypeOK, Shape, OwnMemory, Fields, Remembered
  <2> QED
    BY <1>1, <1>5, <2>1, OneRemembered DEF Reread
<1>6. ASSUME NEW p \in Ops, Snapshot(p) PROVE MemoryTypes'
  <2>1. Predecessors(p) \subseteq Containers
    BY DEF Predecessors, TypeInv, Shape
  <2>2. Remembered([mem[p] EXCEPT !.listed = TRUE, !.snap = Predecessors(p)])
    BY <2>1 DEF TypeInv, TypeOK, Shape, OwnMemory, Fields, Remembered
  <2>3. CASE mem' = [mem EXCEPT ![p].listed = TRUE, ![p].snap = Predecessors(p)]
    <3>1. mem' = [mem EXCEPT ![p] = [mem[p] EXCEPT !.listed = TRUE, !.snap = Predecessors(p)]]
      BY <2>3 DEF TypeInv, Shape
    <3> QED
      BY <3>1, <2>2, OneRemembered
  <2> QED
    BY <1>1, <1>6, <2>3 DEF Snapshot
<1>7. ASSUME NEW p \in Ops, Displace(p) PROVE MemoryTypes'
  <2>1. {NameOf(c) : c \in Webs} \subseteq Names
    BY NamesTyped DEF Webs, TypeInv, Shape
  <2>2. Remembered([mem[p] EXCEPT !.displaced = {NameOf(c) : c \in Webs}])
    BY <2>1 DEF TypeInv, TypeOK, Shape, OwnMemory, Fields, Remembered
  <2> QED
    BY <1>1, <1>7, <2>2, OneRemembered DEF Displace
<1>8. ASSUME NEW p \in Ops, NEW proc \in Procs, NEW taken, NEW next, Run(p, proc, taken, next)
      PROVE  MemoryTypes'
  <2> DEFINE i == IdOf(Container(p, proc, Next_(p)))
  <2>1. i \in Ids
    BY Fresh, NamesTyped DEF TypeInv
  <2> HIDE DEF i
  <2>2. Remembered([mem[p] EXCEPT !.started = @ \cup {i}])
    BY <2>1 DEF TypeInv, TypeOK, Shape, OwnMemory, Fields, Remembered
  <2>3. mem' \in {mem, [mem EXCEPT ![p].started = @ \cup {i}]}
    BY <1>8 DEF Run, i
  <2> QED
    BY <1>1, <2>2, <2>3, OneRemembered
<1>9. ASSUME NEW p \in Ops, Forget(p) PROVE MemoryTypes'
  <2>1. Remembered([Blank EXCEPT !.saw = mem[p].saw])
    <3>1. NoBlock \in Blocks /\ mem[p].saw \in States
      BY Vocabulary DEF TypeInv, TypeOK
    <3> QED
      BY <3>1 DEF Remembered, Blank
  <2> QED
    BY <1>9, <2>1, OneRemembered DEF Forget
<1>10. ASSUME NEW p \in Ops, StartWeb(p) \/ StartWorker(p) \/ Rerun(p) PROVE MemoryTypes'
  BY <1>8, <1>10 DEF StartWeb, StartWorker, Rerun, NextProc, Procs
<1>11. ASSUME NEW p \in Ops, CheckRename(p) \/ BeginRetire(p) \/ Retire(p)
       PROVE  MemoryTypes'
  BY <1>1, <1>2, <1>11 DEF CheckRename, BeginRetire, Retire
<1>18. ASSUME NEW p \in Ops, InspectReplaced(p) \/ Rename(p) \/ ConfirmAbsent(p)
       PROVE  MemoryTypes'
  BY <1>1, <1>2, <1>18 DEF InspectReplaced, Rename, ConfirmAbsent, Moved
<1>12. ASSUME NEW p \in Ops, RetireStaleRoute(p) \/ RetireByName(p) PROVE MemoryTypes'
  BY <1>1, <1>2, <1>12 DEF RetireStaleRoute, RetireByName
<1>13. ASSUME NEW p \in Ops, Clean_(p) \/ Restore(p) \/ AbortStop(p) \/ AbortRestore(p)
       PROVE  MemoryTypes'
  BY <1>1, <1>2, <1>13 DEF Clean_, Restore, AbortStop, AbortRestore
<1>14. ASSUME NEW p \in Ops,
              \/ Reconcile(p) \/ CheckDisplace(p) \/ Health(p) \/ Switch(p) \/ Commit(p)
              \/ Record(p) \/ Finish(p) \/ Restored(p) \/ AbortStart(p) \/ RestoreRoute(p)
              \/ AbortKeep(p) \/ AbortRemove(p) \/ ClearReplaced(p) \/ ClearStopped(p)
              \/ Vacate(p) \/ InspectPartial(p) \/ RemovePartial(p)
       PROVE  MemoryTypes'
  BY <1>1, <1>14 DEF Reconcile, CheckDisplace, Health, Switch, Commit, Record, Finish,
                     Restored, AbortStart, RestoreRoute, AbortKeep, AbortRemove,
                     ClearReplaced, ClearStopped, Vacate, InspectPartial, RemovePartial
<1>15. ASSUME NEW p \in Ops, Acquire(p) \/ Release(p) \/ Crash(p) PROVE MemoryTypes'
  BY <1>1, <1>9, <1>15 DEF Acquire, Release, Crash
<1>16. CASE Unlock \/ UNCHANGED vars
  BY <1>1, <1>16 DEF Unlock, vars
<1>17. CASE \E p \in Ops : DeployStep(p)
  BY <1>3, <1>4, <1>5, <1>6, <1>7, <1>10, <1>11, <1>12, <1>13, <1>14, <1>17, <1>18
     DEF DeployStep
<1> QED
  BY <1>15, <1>16, <1>17 DEF Next

\* The types at the start.
LEMMA TypesStart == Init => TypeInv
<1> SUFFICES ASSUME Init PROVE TypeInv
  OBVIOUS
<1>1. Shape
  BY Starts
<1>2. plan[Founder] \in Plan
  BY DeployAssumption DEF Init, Makers
<1>3. NoBlock \in Blocks
  BY DEF NoBlock, Blocks, Names, Name, Procs
<1>4. route \in Blocks
  BY <1>2, <1>3 DEF Init, BlockTo, Mine, Name, Blocks, Names, Procs, Plan
<1>5. Remembered(Blank)
  BY <1>3 DEF Remembered, Blank, States, NoState
<1>6. \A p \in Ops : mem[p] = Blank
  BY DEF Init
<1>7. \A p \in Ops : Remembered(mem[p])
  BY <1>5, <1>6
<1>8. /\ holder \in Ops \cup {NoOne} /\ records \subseteq Vers
      /\ pc \in [Ops -> Steps \cup Final] /\ outcome \in [Ops -> Outcomes]
      /\ tookOver = {} /\ usurped = {} /\ unsaid = {} /\ blind = {} /\ unsure = {}
  BY DEF Init, Steps, Outcomes
<1>9. plan \in Plans /\ containers \subseteq Containers /\ current \in States
  BY <1>1 DEF Shape
<1> QED
  BY <1>1, <1>4, <1>7, <1>8, <1>9 DEF TypeInv, TypeOK, Remembered

\* Every step keeps the types.
LEMMA TypesStay == TypeInv /\ [Next]_vars => TypeInv'
<1> SUFFICES ASSUME TypeInv, [Next]_vars PROVE TypeInv'
  OBVIOUS
<1>1. Shape'
  BY ShapeStays DEF TypeInv
<1>2. plan' \in Plans /\ containers' \subseteq Containers /\ current' \in States
  BY <1>1 DEF Shape
<1> QED
  BY <1>1, <1>2, ControlTyped, PlacesTyped, MemoryTyped
     DEF TypeInv, TypeOK, ControlTypes, PlaceTypes, MemoryTypes, Remembered

(* The plan, the lock, the containers, the route, the state and what each  *)
(* deploy remembers stay in their domains (deployFenced).                  *)
THEOREM DeployTypes == Spec => []TypeOK
<1> QED
  BY TypesStart, TypesStay, PTL DEF Spec, TypeInv

-----------------------------------------------------------------------------
(* The block dials what runs.  While no live deploy loses its lock, one    *)
(* deploy moves at a time, so what it saw is still the authority until it  *)
(* commits (Uncommitted) and its own release is after that (Committed).    *)

\* The premises of RouteLive that every step keeps backwards.
Quiet ==
  /\ BlueGreen /\ usurped = {} /\ unsure = {}
  /\ \A p \in Ops : At(p, "start") \/ ~SameVersion(p)

\* Not between the lock and its release.
Idle(p) == pc[p] \in {"start", "done", "crashed"}
\* Before the commit, after it, and where a blue/green deploy never is.
Before == {"resolve", "reconcile", "rename", "snapshot", "web", "health", "worker",
           "occupied", "vacate", "rerun", "partial", "unpartial", "switch",
           "reread", "commit", "clean", "restore", "abortRoute", "abortKeep", "abortRemove"}
After == {"stale", "record", "retire", "retiring", "byname"}
Elsewhere == {"renaming", "clearing", "moving", "confirming", "displace", "displacing",
              "abort", "abortRestore", "abortStart"}

\* A running web container of the name; the block dials the name.
Has(n) == \E c \in Webs : NameOf(c) = n
Dials(n) == current.caddy /\ route # NoBlock /\ route.dial = n

\* A deploy that has read nothing remembers nothing.
Pristine == \A p \in Ops : pc[p] \in {"start", "read"} => mem[p] = Blank

\* One deploy moves, and the lock names it.
Lone ==
  /\ \A p \in Ops : Idle(p) \/ Holds(p)
  /\ holder # NoOne => pc[holder] \notin {"start", "done"}

\* One container of a name, one for the authority, one for the block.
Serving ==
  /\ \A c \in containers : ~c.replaced
  /\ \A c, d \in containers : NameOf(c) = NameOf(d) => c = d
  /\ current.hash # NoVer => Has(Name(current.hash, "web", FALSE))
  /\ current.caddy => current.hash # NoVer
  /\ current.caddy /\ route # NoBlock => Has(route.dial)

\* What it started is of its own release, what it saw of the old one.
Kept(p) ==
  /\ pc[p] \notin Elsewhere
  /\ mem[p].displaced = {}
  /\ \A i \in mem[p].started : i[3] = plan[p].ver
  /\ \A s \in mem[p].snap : s.ver = mem[p].saw.hash

\* What it saw is the authority, and the block does not dial a candidate that
\* may go.
Uncommitted(p) ==
  /\ mem[p].saw = current
  /\ \A s \in mem[p].snap : s \in containers /\ s.running
  /\ pc[p] \in {"resolve", "reconcile", "rename", "snapshot", "web"} => mem[p].started = {}
  /\ pc[p] \in {"health", "worker", "switch", "reread", "commit"} => Has(Mine(p, "web"))
  /\ \/ pc[p] \in {"health", "worker", "switch"}
     \/ pc[p] \in {"commit", "abortRoute"} /\ ~plan[p].caddy
     => ~Dials(Mine(p, "web"))
  /\ pc[p] \in {"occupied", "vacate", "rerun"} /\ mem[p].started # {}
     => Has(Mine(p, "web")) /\ ~Dials(Mine(p, "web"))
  /\ pc[p] \in {"partial", "unpartial", "clean", "restore", "abortRemove"}
     => mem[p].started = {} \/ ~Dials(Mine(p, "web"))
  /\ pc[p] = "unpartial" => \A c \in Named(Mine(p, NextProc(p))) : ~c.running
  /\ pc[p] = "reread" => plan[p].caddy
  /\ pc[p] \in {"reread", "commit"} /\ plan[p].caddy => route = NewBlock(p)
  /\ pc[p] = "restore" => mem[p].todo = {}

\* The authority is its own release, and only the one it saw is to go.
Committed(p) ==
  /\ current.hash = plan[p].ver /\ current.caddy = plan[p].caddy
  /\ plan[p].caddy => route = NewBlock(p)
  /\ pc[p] \in {"byname", "retiring"} => \A c \in mem[p].todo : c.ver = mem[p].saw.hash

Stage(p) ==
  /\ Kept(p)
  /\ pc[p] \in Before => Uncommitted(p)
  /\ pc[p] \in After => Committed(p)

LiveInv == Lone /\ Serving /\ \A p \in Ops : Stage(p)

LiveIInv == TypeInv /\ Pristine /\ (Quiet => LiveInv)

-----------------------------------------------------------------------------
\* The domains a step is computed in.
LEMMA Handy ==
  ASSUME TypeInv, NEW p \in Ops
  PROVE  /\ pc \in [Ops -> Steps \cup Final] /\ outcome \in [Ops -> Outcomes]
         /\ DOMAIN mem = Ops /\ DOMAIN mem[p] = Fields
         /\ plan[p].ver \in Vers /\ plan[p].caddy \in BOOLEAN
         /\ containers \subseteq Containers
BY Vocabulary DEF TypeInv, TypeOK, Shape

\* A deploy that takes a step is on its way.
LEMMA Mover ==
  ASSUME NEW p \in Ops, DeployStep(p) PROVE ~Idle(p) /\ pc[p] # "release"
<1>1. (ReadState(p) \/ ResolveRoute(p) \/ Reconcile(p) \/ CheckRename(p) \/ Rename(p)
       \/ Snapshot(p) \/ CheckDisplace(p) \/ Displace(p) \/ StartWeb(p) \/ Health(p)
       \/ StartWorker(p) \/ Switch(p) \/ Reread(p) \/ Commit(p)) => ~Idle(p) /\ pc[p] # "release"
  BY DEF ReadState, ResolveRoute, Reconcile, CheckRename, Rename, Snapshot, CheckDisplace,
         Displace, StartWeb, Health, StartWorker, Switch, Reread, Commit, At, Idle
<1>3. (InspectReplaced(p) \/ ClearReplaced(p) \/ ConfirmAbsent(p) \/ ClearStopped(p)
       \/ Vacate(p) \/ Rerun(p) \/ InspectPartial(p) \/ RemovePartial(p))
      => ~Idle(p) /\ pc[p] # "release"
  BY DEF InspectReplaced, ClearReplaced, ConfirmAbsent, ClearStopped, Vacate, Rerun,
         InspectPartial, RemovePartial, At, Idle
<1>2. (RetireStaleRoute(p) \/ Record(p) \/ BeginRetire(p) \/ Retire(p) \/ RetireByName(p)
       \/ Finish(p) \/ Clean_(p) \/ Restore(p) \/ Restored(p) \/ AbortStop(p)
       \/ AbortRestore(p) \/ AbortStart(p) \/ RestoreRoute(p) \/ AbortKeep(p)
       \/ AbortRemove(p)) => ~Idle(p) /\ pc[p] # "release"
  BY DEF RetireStaleRoute, Record, BeginRetire, Retire, RetireByName, Finish, Clean_, Restore,
         Restored, AbortStop, AbortRestore, AbortStart, RestoreRoute, AbortKeep, AbortRemove,
         At, Idle
<1> QED
  BY <1>1, <1>2, <1>3 DEF DeployStep

\* A step of a deploy: only the holder takes one, and only its own memory and
\* its own place in the code change.
LEMMA Alone ==
  ASSUME TypeInv, LiveInv, NEW p \in Ops, DeployStep(p)
  PROVE  Holds(p) /\ ~Idle(p) /\ pc[p] # "release" /\ \A q \in Ops \ {p} : Idle(q)
BY Mover DEF LiveInv, Lone, Holds

\* What holds of another deploy while this one moves.
LEMMA OtherStage ==
  ASSUME TypeInv, LiveInv, NEW q \in Ops, Idle(q),
         pc'[q] = pc[q], mem'[q] = mem[q], UNCHANGED plan
  PROVE  Stage(q)'
BY DEF LiveInv, Stage, Kept, Idle, Before, After, Elsewhere

\* What runs and what the block says change with their variables only.
LEMMA ServingStill ==
  ASSUME Serving, UNCHANGED <<containers, route, current>> PROVE Serving'
BY DEF Serving, Has, Webs

\* What a step of the lock's holder must show.
Shown(p) == Serving' /\ Stage(p)'

\* The steps that only read, or only decide.
LEMMA ReadsLive ==
  ASSUME TypeInv, Pristine, Quiet, Quiet', LiveInv, NEW p \in Ops, UNCHANGED plan,
         ReadState(p) \/ ResolveRoute(p) \/ Reconcile(p)
  PROVE  Shown(p)
<1> USE Handy
<1>0. Stage(p) /\ Serving /\ UNCHANGED <<containers, route, current>>
  BY DEF LiveInv, ReadState, ResolveRoute, Reconcile, worldVars
<1>1. Serving'
  BY <1>0, ServingStill
<1>2. CASE ReadState(p)
  <2>1. mem[p] = Blank
    BY <1>2 DEF Pristine, ReadState, At
  <2>2. CASE mem' = [mem EXCEPT ![p].saw = current] /\ Go(p, "resolve")
    <3>1. /\ mem'[p].saw = current /\ mem'[p].displaced = {} /\ mem'[p].started = {}
          /\ mem'[p].snap = {} /\ pc'[p] = "resolve"
      BY <2>1, <2>2 DEF Go, Blank, Fields
    <3> QED
      BY <1>0, <1>1, <3>1 DEF Shown, Stage, Kept, Uncommitted, Before, After, Elsewhere
  <2>3. CASE End(p, "refused") /\ UNCHANGED mem
    BY <1>0, <1>1, <2>3 DEF End, Go, Shown, Stage, Kept, Before, After, Elsewhere
  <2> QED
    BY <1>2, <2>2, <2>3 DEF ReadState
<1>3. CASE ResolveRoute(p) \/ Reconcile(p)
  <2>1. pc[p] \in {"resolve", "reconcile"} /\ pc'[p] \in {"reconcile", "rename", "release"}
    BY <1>3 DEF ResolveRoute, Reconcile, At, Go, End
  <2>2. /\ mem'[p].saw = mem[p].saw /\ mem'[p].displaced = mem[p].displaced
        /\ mem'[p].started = mem[p].started /\ mem'[p].snap = mem[p].snap
    BY <1>3 DEF ResolveRoute, Reconcile, Fields
  <2> QED
    BY <1>0, <1>1, <2>1, <2>2 DEF Shown, Stage, Kept, Uncommitted, Before, After, Elsewhere
<1> QED
  BY <1>2, <1>3

\* Nothing to rename, the inventory, the health check.
LEMMA PreparesLive ==
  ASSUME TypeInv, Quiet, LiveInv, NEW p \in Ops, UNCHANGED plan,
         CheckRename(p) \/ Snapshot(p) \/ Health(p)
  PROVE  Shown(p)
<1> USE Handy
<1>0. Stage(p) /\ Serving /\ UNCHANGED <<containers, route, current>>
  BY DEF LiveInv, CheckRename, Snapshot, Health, worldVars
<1>1. Serving'
  BY <1>0, ServingStill
<1>2. ASSUME pc[p] # "start" PROVE ~SameVersion(p) /\ ~plan[p].recreate
  BY <1>2 DEF Quiet, At, BlueGreen
<1>3. CASE CheckRename(p)
  <2>1. pc[p] = "rename" /\ pc'[p] = "snapshot" /\ UNCHANGED mem
    BY <1>2, <1>3 DEF CheckRename, At, Go
  <2> QED
    BY <1>0, <1>1, <2>1 DEF Shown, Stage, Kept, Uncommitted, Before, After, Elsewhere
<1>4. CASE Snapshot(p)
  <2>1. pc[p] = "snapshot" /\ pc'[p] = "web"
    BY <1>2, <1>4 DEF Snapshot, At, Go
  <2>2. /\ mem'[p].saw = mem[p].saw /\ mem'[p].displaced = mem[p].displaced
        /\ mem'[p].started = mem[p].started /\ mem'[p].snap \in {mem[p].snap, Predecessors(p)}
    BY <1>4 DEF Snapshot, Fields
  <2>3. \A s \in Predecessors(p) : s.ver = mem[p].saw.hash /\ s \in containers /\ s.running
    BY <1>2, <2>1 DEF Predecessors
  <2> QED
    BY <1>0, <1>1, <2>1, <2>2, <2>3 DEF Shown, Stage, Kept, Uncommitted, Before, After, Elsewhere
<1>5. CASE Health(p)
  <2>1. pc[p] = "health" /\ pc'[p] \in {"worker", "switch", "clean"} /\ UNCHANGED mem
    BY <1>5 DEF Health, At, Go
  <2> QED
    BY <1>0, <1>1, <2>1
       DEF Shown, Stage, Kept, Uncommitted, Before, After, Elsewhere, Has, Webs, Mine, Dials
<1> QED
  BY <1>3, <1>4, <1>5

-----------------------------------------------------------------------------
\* Candidates: what is taken away does not run, what is added has a free name.
LEMMA SwapServes ==
  ASSUME Serving, UNCHANGED <<route, current>>, NEW old, NEW more, Swap(old, more),
         \A c \in old : ~c.running,
         \A c \in more : ~c.replaced /\ Named(NameOf(c)) = {},
         \A c, d \in more : c = d
  PROVE  /\ Serving'
         /\ \A n : Has(n) => Has(n)'
         /\ \A c \in containers : c.running => c \in containers'
<1>0. containers' = (containers \ old) \cup more
  BY DEF Swap
<1>1. \A c \in containers : c.running => c \in containers'
  BY <1>0
<1>2. \A n : Has(n) => Has(n)'
  BY <1>1 DEF Has, Webs
<1>3. \A c \in containers' : ~c.replaced
  BY <1>0 DEF Serving
<1>4. \A c, d \in containers' : NameOf(c) = NameOf(d) => c = d
  <2>1. \A c \in more : \A d \in containers : NameOf(c) # NameOf(d)
    BY DEF Named
  <2>2. \A c, d \in containers : NameOf(c) = NameOf(d) => c = d
    BY DEF Serving
  <2> QED
    BY <1>0, <2>1, <2>2
<1> QED
  BY <1>1, <1>2, <1>3, <1>4 DEF Serving

\* A run leaves what runs alone; what it starts, a free name's.
LEMMA RunServes ==
  ASSUME TypeInv, LiveInv, NEW p \in Ops, NEW proc \in Procs, NEW taken, NEW next,
         Run(p, proc, taken, next), UNCHANGED <<plan, route, current>>
  PROVE  /\ Serving'
         /\ \A n : Has(n) => Has(n)'
         /\ \A c \in containers : c.running => c \in containers'
         /\ \A f \in {"saw", "displaced", "snap"} : mem'[p][f] = mem[p][f]
         /\ \/ pc'[p] \in {"clean", "partial", taken} /\ UNCHANGED mem
            \/ /\ pc'[p] = next
               /\ proc = "web" => Has(Mine(p, "web"))' /\ ~Has(Mine(p, "web"))
               /\ \A i \in mem'[p].started : i \in mem[p].started \/ i[3] = plan[p].ver
<1> DEFINE n0 == Mine(p, proc)
           new == Container(p, proc, Next_(p))
<1>0. Serving
  BY DEF LiveInv
<1>1. /\ new.running /\ ~new.replaced /\ new.proc = proc
      /\ NameOf(new) = n0 /\ IdOf(new)[3] = plan[p].ver
      /\ ~Stopped(new).replaced /\ NameOf(Stopped(new)) = n0
  BY DEF Container, NameOf, Mine, Name, IdOf, Stopped
<1>2. ASSUME NEW c, c \in {new, Stopped(new)}, Named(n0) = {}, Swap({}, {c})
      PROVE  /\ Serving'
             /\ \A n : Has(n) => Has(n)'
             /\ \A d \in containers : d.running => d \in containers'
  <2> HIDE DEF new, n0
  <2> QED
    BY <1>0, <1>1, <1>2, SwapServes
<1>3. CASE /\ UNCHANGED <<containers, mem>>
           /\ Go(p, "clean") \/ Go(p, taken) \/ Go(p, "partial")
  <2>1. Serving' /\ \A n : Has(n) => Has(n)'
    BY <1>0, <1>3, ServingStill DEF Has, Webs
  <2> QED
    BY <1>3, <2>1, Handy DEF Go
<1>4. CASE /\ Named(n0) = {}
           /\ Swap({}, {new})
           /\ mem' = [mem EXCEPT ![p].started = @ \cup {IdOf(new)}]
           /\ Go(p, next)
  <2>1. /\ Serving'
        /\ \A n : Has(n) => Has(n)'
        /\ \A c \in containers : c.running => c \in containers'
    BY <1>2, <1>4
  <2>2. \A f \in {"saw", "displaced", "snap"} : mem'[p][f] = mem[p][f]
    BY <1>4, Handy DEF Fields
  <2>3. mem'[p].started = mem[p].started \cup {IdOf(new)}
    BY <1>4, Handy DEF Fields
  <2>4. pc'[p] = next
    BY <1>4, Handy DEF Go
  <2>5. proc = "web" => Has(Mine(p, "web"))' /\ ~Has(Mine(p, "web"))
    <3>1. Mine(p, "web")' = Mine(p, "web")
      BY DEF Mine
    <3>2. proc = "web" => new \in containers' /\ new \in Webs'
      BY <1>1, <1>4 DEF Swap, Webs
    <3>3. proc = "web" => ~Has(Mine(p, "web"))
      BY <1>4 DEF Has, Named, Webs
    <3> QED
      BY <1>1, <3>1, <3>2, <3>3 DEF Has
  <2> QED
    BY <1>1, <2>1, <2>2, <2>3, <2>4, <2>5
<1>5. CASE /\ Named(n0) = {}
           /\ Swap({}, {Stopped(new)}) \/ Swap({}, {new})
           /\ Go(p, "partial") /\ UNCHANGED mem
  <2>1. /\ Serving'
        /\ \A n : Has(n) => Has(n)'
        /\ \A c \in containers : c.running => c \in containers'
    BY <1>2, <1>5
  <2> QED
    BY <1>5, <2>1, Handy DEF Go
<1>6. \/ /\ UNCHANGED <<containers, mem>>
         /\ Go(p, "clean") \/ Go(p, taken) \/ Go(p, "partial")
      \/ /\ Named(n0) = {}
         /\ Swap({}, {new})
         /\ mem' = [mem EXCEPT ![p].started = @ \cup {IdOf(new)}]
         /\ Go(p, next)
      \/ /\ Named(n0) = {}
         /\ Swap({}, {Stopped(new)}) \/ Swap({}, {new})
         /\ Go(p, "partial") /\ UNCHANGED mem
  BY DEF Run
<1> HIDE DEF n0, new
<1> QED
  BY <1>3, <1>4, <1>5, <1>6

\* The candidate beside the release that serves.
LEMMA StartsLive ==
  ASSUME TypeInv, Quiet, LiveInv, NEW p \in Ops, UNCHANGED plan,
         StartWeb(p) \/ StartWorker(p) \/ Rerun(p)
  PROVE  Shown(p)
<1>0. Stage(p) /\ Serving
  BY DEF LiveInv
<1>1. UNCHANGED <<route, current>> /\ pc[p] \in {"web", "worker", "rerun"}
  BY DEF StartWeb, StartWorker, Rerun, At
<1>2. Mine(p, "web")' = Mine(p, "web") /\ \A n : Dials(n)' = Dials(n)
  BY <1>1 DEF Mine, Dials
<1>3. Kept(p) /\ Uncommitted(p)
  BY <1>0, <1>1 DEF Stage, Before
<1>4. ASSUME Run(p, "web", "occupied", "health") \/ Run(p, "web", "partial", "health"),
             mem[p].started = {}
      PROVE  Shown(p)
  <2>1. /\ Serving'
        /\ \A c \in containers : c.running => c \in containers'
        /\ \A f \in {"saw", "displaced", "snap"} : mem'[p][f] = mem[p][f]
        /\ \/ pc'[p] \in {"clean", "partial", "occupied"} /\ UNCHANGED mem
           \/ /\ pc'[p] = "health"
              /\ Has(Mine(p, "web"))' /\ ~Has(Mine(p, "web"))
              /\ \A i \in mem'[p].started : i \in mem[p].started \/ i[3] = plan[p].ver
    BY <1>1, <1>4, RunServes DEF Procs
  <2>2. ~Has(Mine(p, "web")) => ~Dials(Mine(p, "web"))
    BY <1>0 DEF Serving, Dials
  <2>3. Kept(p)'
    BY <1>3, <2>1 DEF Kept, Elsewhere
  <2>4. mem'[p].saw = current' /\ \A s \in mem'[p].snap : s \in containers' /\ s.running
    BY <1>1, <1>3, <2>1 DEF Uncommitted
  <2>5. CASE pc'[p] \in {"clean", "partial", "occupied"} /\ UNCHANGED mem
    <3>1. Uncommitted(p)'
      BY <1>4, <2>4, <2>5 DEF Uncommitted
    <3> QED
      BY <2>1, <2>3, <2>5, <3>1 DEF Shown, Stage, After
  <2>6. CASE pc'[p] = "health" /\ Has(Mine(p, "web"))' /\ ~Has(Mine(p, "web"))
    <3>1. Uncommitted(p)'
      BY <1>2, <2>2, <2>4, <2>6 DEF Uncommitted
    <3> QED
      BY <2>1, <2>3, <2>6, <3>1 DEF Shown, Stage, After
  <2> QED
    BY <2>1, <2>5, <2>6
<1>5. ASSUME NEW next \in {"switch", "clean"},
             Run(p, "worker", "occupied", next) \/ Run(p, "worker", "partial", next),
             Has(Mine(p, "web")), ~Dials(Mine(p, "web"))
      PROVE  Shown(p)
  <2>1. /\ Serving'
        /\ \A n : Has(n) => Has(n)'
        /\ \A c \in containers : c.running => c \in containers'
        /\ \A f \in {"saw", "displaced", "snap"} : mem'[p][f] = mem[p][f]
        /\ \/ pc'[p] \in {"clean", "partial", "occupied"} /\ UNCHANGED mem
           \/ /\ pc'[p] = next
              /\ \A i \in mem'[p].started : i \in mem[p].started \/ i[3] = plan[p].ver
    BY <1>1, <1>5, RunServes DEF Procs
  <2>2. Kept(p)'
    BY <1>3, <2>1 DEF Kept, Elsewhere
  <2>3. mem'[p].saw = current' /\ \A s \in mem'[p].snap : s \in containers' /\ s.running
    BY <1>1, <1>3, <2>1 DEF Uncommitted
  <2>4. Has(Mine(p, "web"))'
    <3>1. Has(Mine(p, "web")) => Has(Mine(p, "web"))'
      <4>1. \A n : (\E c \in Webs : NameOf(c) = n) => (\E c \in Webs' : NameOf(c) = n)
        BY <2>1 DEF Has
      <4> QED
        BY <1>2, <4>1 DEF Has
    <3> QED
      BY <1>5, <3>1
  <2>5. ~Dials(Mine(p, "web"))' /\ pc'[p] \in {"switch", "clean", "partial", "occupied"}
    BY <1>2, <1>5, <2>1
  <2>6. Uncommitted(p)'
    BY <2>3, <2>4, <2>5 DEF Uncommitted
  <2> QED
    BY <2>1, <2>2, <2>5, <2>6 DEF Shown, Stage, After
<1>6. CASE StartWeb(p)
  BY <1>3, <1>4, <1>6 DEF StartWeb, At, Uncommitted
<1>7. CASE StartWorker(p)
  <2>1. Has(Mine(p, "web")) /\ ~Dials(Mine(p, "web"))
    BY <1>3, <1>7 DEF StartWorker, At, Uncommitted
  <2> QED
    BY <1>5, <1>7, <2>1 DEF StartWorker, Tried
<1>8. CASE Rerun(p)
  <2>1. CASE mem[p].started = {}
    BY <1>4, <1>8, <2>1 DEF Rerun, NextProc, Tried
  <2>2. CASE mem[p].started # {}
    <3>1. Has(Mine(p, "web")) /\ ~Dials(Mine(p, "web"))
      BY <1>3, <1>8, <2>2 DEF Rerun, At, Uncommitted
    <3> QED
      BY <1>5, <1>8, <2>2, <3>1 DEF Rerun, NextProc, Tried
  <2> QED
    BY <2>1, <2>2
<1> QED
  BY <1>6, <1>7, <1>8

\* What bears the name of the next process: looked at, and gone if it does not run.
LEMMA VacatesLive ==
  ASSUME TypeInv, Quiet, LiveInv, NEW p \in Ops, UNCHANGED plan,
         ClearStopped(p) \/ Vacate(p) \/ InspectPartial(p) \/ RemovePartial(p)
  PROVE  Shown(p)
<1>0. Stage(p) /\ Serving /\ UNCHANGED <<route, current, mem>>
  BY DEF LiveInv, ClearStopped, Vacate, InspectPartial, RemovePartial, worldVars
<1>1. /\ pc[p] \in {"occupied", "vacate", "partial", "unpartial"}
      /\ pc[p] \in {"occupied", "vacate"} => pc'[p] \in {"vacate", "rerun", "partial"}
      /\ pc[p] \in {"partial", "unpartial"} => pc'[p] \in {"unpartial", "clean"}
  BY Handy DEF ClearStopped, Vacate, InspectPartial, RemovePartial, At, Go
<1>2. Kept(p) /\ Uncommitted(p)
  BY <1>0, <1>1 DEF Stage, Before
<1>3. PICK old : Swap(old, {}) /\ \A c \in old : ~c.running
  <2>1. CASE UNCHANGED containers
    <3>1. Swap({}, {}) /\ \A c \in {} : ~c.running
      BY <2>1 DEF Swap
    <3> QED
      BY <3>1
  <2>2. CASE RemovePartial(p)
    BY <1>2, <2>1, <2>2 DEF RemovePartial, At, Uncommitted
  <2>3. CASE Vacate(p)
    BY <2>1, <2>3 DEF Vacate
  <2> QED
    BY <2>1, <2>2, <2>3 DEF ClearStopped, InspectPartial, worldVars
<1>4. /\ Serving'
      /\ \A n : Has(n) => Has(n)'
      /\ \A c \in containers : c.running => c \in containers'
  <2> HIDE DEF Serving
  <2> QED
    BY <1>0, <1>3, SwapServes
<1>5. Kept(p)'
  BY <1>0, <1>1, <1>2 DEF Kept, Elsewhere
<1>6. mem'[p].saw = current' /\ \A s \in mem'[p].snap : s \in containers' /\ s.running
  BY <1>0, <1>2, <1>4 DEF Uncommitted
<1>7. Mine(p, "web")' = Mine(p, "web") /\ \A n : Dials(n)' = Dials(n)
  BY <1>0 DEF Mine, Dials
<1>8. Has(Mine(p, "web")) => Has(Mine(p, "web"))'
  <2>1. \A n : (\E c \in Webs : NameOf(c) = n) => (\E c \in Webs' : NameOf(c) = n)
    BY <1>4 DEF Has
  <2> QED
    BY <1>7, <2>1 DEF Has
<1>9. pc'[p] = "unpartial" => (\A c \in Named(Mine(p, NextProc(p))) : ~c.running)'
  <2> SUFFICES ASSUME pc'[p] = "unpartial"
               PROVE  (\A c \in Named(Mine(p, NextProc(p))) : ~c.running)'
    OBVIOUS
  <2>1. /\ \E c \in Named(Mine(p, NextProc(p))) : ~c.running
        /\ UNCHANGED containers
    BY Handy DEF ClearStopped, Vacate, InspectPartial, RemovePartial, Go, worldVars
  <2>2. \A c, d \in Named(Mine(p, NextProc(p))) : c = d
    BY <1>0 DEF Serving, Named
  <2>3. Named(Mine(p, NextProc(p)))' = Named(Mine(p, NextProc(p)))
    BY <1>0, <2>1 DEF Named, Mine, NextProc
  <2> QED
    BY <2>1, <2>2, <2>3
<1>10. Uncommitted(p)'
  BY <1>0, <1>1, <1>2, <1>6, <1>7, <1>8, <1>9 DEF Uncommitted
<1> QED
  BY <1>1, <1>4, <1>5, <1>10 DEF Shown, Stage, After

-----------------------------------------------------------------------------
\* The switch: the candidate runs when the block dials it, and dials it when
\* the release becomes the authority.
LEMMA SwitchLive ==
  ASSUME TypeInv, Quiet, Quiet', LiveInv, NEW p \in Ops, UNCHANGED plan, Switch(p)
  PROVE  Shown(p)
<1>0. Serving /\ Kept(p) /\ Uncommitted(p) /\ pc[p] = "switch"
  BY DEF LiveInv, Switch, At, Stage, Before
<1>1. UNCHANGED <<containers, current, mem>>
  BY DEF Switch
<1>2. /\ Mine(p, "web")' = Mine(p, "web") /\ NewBlock(p)' = NewBlock(p)
      /\ NewBlock(p).dial = Mine(p, "web")
  BY <1>1 DEF Mine, NewBlock, Next_, From, BlockTo
<1>3. Has(Mine(p, "web")) /\ ~Dials(Mine(p, "web"))
  BY <1>0 DEF Uncommitted
<1>4. \A n : Has(n)' = Has(n)
  BY <1>1 DEF Has, Webs
<1>5. CASE plan[p].caddy /\ route' = NewBlock(p) /\ pc'[p] = "reread"
  <2>1. Serving'
    BY <1>0, <1>1, <1>2, <1>3, <1>4, <1>5 DEF Serving
  <2>2. Kept(p)'
    BY <1>0, <1>1, <1>5 DEF Kept, Elsewhere
  <2>3. Uncommitted(p)'
    BY <1>0, <1>1, <1>2, <1>3, <1>4, <1>5 DEF Uncommitted
  <2> QED
    BY <1>5, <2>1, <2>2, <2>3 DEF Shown, Stage, After
<1>6. CASE UNCHANGED route /\ (pc'[p] = "clean" \/ (pc'[p] = "commit" /\ ~plan[p].caddy))
  <2>1. Serving'
    BY <1>0, <1>1, <1>6, ServingStill
  <2>2. Kept(p)'
    BY <1>0, <1>1, <1>6 DEF Kept, Elsewhere
  <2>3. ~Dials(Mine(p, "web"))'
    BY <1>1, <1>2, <1>3, <1>6 DEF Dials
  <2>4. Uncommitted(p)'
    BY <1>0, <1>1, <1>2, <1>3, <1>4, <1>6, <2>3 DEF Uncommitted
  <2> QED
    BY <1>6, <2>1, <2>2, <2>4 DEF Shown, Stage, After
<1>7. unsure' # unsure \cup {p}
  BY DEF Quiet
<1> QED
  BY <1>5, <1>6, <1>7, Handy DEF Switch, Go

\* The block read back is the one written.
LEMMA RereadLive ==
  ASSUME TypeInv, Quiet, LiveInv, NEW p \in Ops, UNCHANGED plan, Reread(p)
  PROVE  Shown(p)
<1>0. Serving /\ Kept(p) /\ Uncommitted(p) /\ pc[p] = "reread" /\ pc'[p] = "commit"
  BY Handy DEF LiveInv, Reread, At, Go, Stage, Before
<1>1. UNCHANGED <<containers, current, route>> /\ Serving'
  BY <1>0, ServingStill DEF Reread, worldVars
<1>2. /\ mem'[p].saw = mem[p].saw /\ mem'[p].displaced = mem[p].displaced
      /\ mem'[p].started = mem[p].started /\ mem'[p].snap = mem[p].snap
  BY Handy DEF Reread, Fields
<1>3. Mine(p, "web")' = Mine(p, "web") /\ NewBlock(p)' = NewBlock(p)
  BY <1>2 DEF Mine, NewBlock, Next_, From, BlockTo
<1>4. \A n : Has(n)' = Has(n)
  BY <1>1 DEF Has, Webs
<1>5. Kept(p)'
  BY <1>0, <1>2 DEF Kept, Elsewhere
<1>6. plan[p].caddy /\ route = NewBlock(p) /\ Has(Mine(p, "web"))
  BY <1>0 DEF Uncommitted
<1>7. Uncommitted(p)'
  BY <1>0, <1>1, <1>2, <1>3, <1>4, <1>6 DEF Uncommitted
<1> QED
  BY <1>0, <1>1, <1>5, <1>7 DEF Shown, Stage, After

\* The release that becomes the authority is the one the block dials.
LEMMA CommitLive ==
  ASSUME TypeInv, Quiet, LiveInv, NEW p \in Ops, UNCHANGED plan, Commit(p)
  PROVE  Shown(p)
<1>0. Serving /\ Kept(p) /\ Uncommitted(p) /\ pc[p] = "commit" /\ ~plan[p].recreate
  BY DEF LiveInv, Commit, At, Stage, Before, Quiet, BlueGreen
<1>1. UNCHANGED <<containers, route, mem>>
  BY DEF Commit
<1>2. /\ Mine(p, "web")' = Mine(p, "web") /\ NewBlock(p)' = NewBlock(p)
      /\ NewBlock(p).dial = Mine(p, "web")
  BY <1>1 DEF Mine, NewBlock, Next_, From, BlockTo
<1>3. \A n : Has(n)' = Has(n)
  BY <1>1 DEF Has, Webs
<1>4. Has(Mine(p, "web")) /\ (plan[p].caddy => route = NewBlock(p))
  BY <1>0 DEF Uncommitted
<1>5. pc'[p] \in {"stale", "abortRoute", "release"}
  BY <1>0, Handy DEF Commit, Go, End
<1>6. Kept(p)'
  BY <1>0, <1>1, <1>5 DEF Kept, Elsewhere
<1>7. CASE current' = NewState(p) /\ pc'[p] # "abortRoute"
  <2>1. /\ current'.hash = plan[p].ver /\ current'.caddy = plan[p].caddy
        /\ current'.hash # NoVer
        /\ Mine(p, "web") = Name(current'.hash, "web", FALSE)
    BY <1>7, Handy, DeployAssumption DEF NewState, Mine
  <2>2. Serving'
    BY <1>0, <1>1, <1>2, <1>3, <1>4, <2>1 DEF Serving
  <2>3. pc'[p] = "stale" => Committed(p)'
    BY <1>1, <1>2, <1>4, <2>1 DEF Committed
  <2> QED
    BY <1>5, <1>6, <1>7, <2>2, <2>3 DEF Shown, Stage, Before, After
<1>8. CASE UNCHANGED current /\ pc'[p] # "stale"
  <2>1. Serving'
    BY <1>0, <1>1, <1>8, ServingStill
  <2>2. ~plan[p].caddy => ~Dials(Mine(p, "web"))'
    BY <1>0, <1>1, <1>2, <1>8 DEF Uncommitted, Dials
  <2>3. pc'[p] = "abortRoute" => Uncommitted(p)'
    BY <1>0, <1>1, <1>2, <1>8, <2>2 DEF Uncommitted
  <2> QED
    BY <1>5, <1>6, <1>8, <2>1, <2>3 DEF Shown, Stage, Before, After
<1> QED
  BY <1>0, <1>7, <1>8, Handy DEF Commit, Go, End

\* After the commit: the block, the records, and the old release.
LEMMA RecordsLive ==
  ASSUME TypeInv, Quiet, LiveInv, NEW p \in Ops, UNCHANGED plan,
         RetireStaleRoute(p) \/ Record(p) \/ BeginRetire(p) \/ Finish(p)
  PROVE  Shown(p)
<1>0. Serving /\ Kept(p) /\ Committed(p) /\ pc[p] \in {"stale", "record", "retire", "retiring"}
  BY DEF LiveInv, RetireStaleRoute, Record, BeginRetire, Finish, At, Stage, After
<1>1. UNCHANGED <<containers, current>>
  BY DEF RetireStaleRoute, Record, BeginRetire, Finish, worldVars
<1>2. /\ mem'[p].saw = mem[p].saw /\ mem'[p].displaced = mem[p].displaced
      /\ mem'[p].started = mem[p].started /\ mem'[p].snap = mem[p].snap
  BY Handy DEF RetireStaleRoute, Record, BeginRetire, Finish, Fields
<1>3. NewBlock(p)' = NewBlock(p)
  BY <1>2 DEF Mine, NewBlock, Next_, From, BlockTo
<1>4. route' = route \/ (~plan[p].caddy /\ route' = NoBlock)
  BY DEF RetireStaleRoute, Record, BeginRetire, Finish, worldVars
<1>5. Serving'
  BY <1>0, <1>1, <1>4 DEF Serving, Has, Webs
<1>6. pc'[p] \in {"record", "retire", "retiring", "byname", "release"}
  BY Handy DEF RetireStaleRoute, Record, BeginRetire, Finish, Go, End
<1>7. Kept(p)'
  BY <1>0, <1>2, <1>6 DEF Kept, Elsewhere
<1>8. pc'[p] \in {"byname", "retiring"} => \A c \in mem'[p].todo : c.ver = mem[p].saw.hash
  <2>1. CASE BeginRetire(p)
    <3>1. mem'[p].todo \in {mem[p].snap, {}, Predecessors(p)}
      BY <2>1, Handy DEF BeginRetire, Fields
    <3> QED
      BY <1>0, <3>1 DEF Kept, Predecessors
  <2>2. CASE ~BeginRetire(p)
    <3>1. pc'[p] \in {"record", "retire", "release"}
      BY <2>2, Handy DEF RetireStaleRoute, Record, Finish, Go, End
    <3> QED
      BY <3>1
  <2> QED
    BY <2>1, <2>2
<1>9. Committed(p)'
  BY <1>0, <1>1, <1>2, <1>3, <1>4, <1>8 DEF Committed
<1> QED
  BY <1>5, <1>6, <1>7, <1>9 DEF Shown, Stage, Before

\* Stopping containers of the release that is no longer the authority.
LEMMA StopsOld ==
  ASSUME TypeInv, Quiet, LiveInv, NEW p \in Ops, UNCHANGED <<plan, route, current>>,
         pc[p] \in After, NEW old, old \subseteq containers,
         \A c \in old : c.ver = mem[p].saw.hash,
         Swap(old, {Stopped(c) : c \in old})
  PROVE  Serving'
<1>0. Serving /\ Committed(p) /\ mem[p].saw.hash # plan[p].ver
  BY DEF LiveInv, Stage, After, Quiet, At, SameVersion
<1>1. \A c \in old : NameOf(Stopped(c)) = NameOf(c) /\ Stopped(c).replaced = c.replaced
  BY Handy DEF Stopped, NameOf, Name, Containers
<1>2. containers' = (containers \ old) \cup {Stopped(c) : c \in old}
  BY DEF Swap
<1>3. \A c \in containers' : ~c.replaced
  BY <1>0, <1>1, <1>2 DEF Serving
<1>4. \A c, d \in containers' : NameOf(c) = NameOf(d) => c = d
  <2>1. \A c \in containers' : \E x \in containers :
          NameOf(x) = NameOf(c) /\ c = (IF x \in old THEN Stopped(x) ELSE x)
    BY <1>1, <1>2
  <2>2. \A c, d \in containers : NameOf(c) = NameOf(d) => c = d
    BY <1>0 DEF Serving
  <2> QED
    BY <2>1, <2>2
<1>5. \A n : Has(n) /\ n[1] = plan[p].ver => Has(n)'
  <2> SUFFICES ASSUME NEW n, NEW c \in Webs, NameOf(c) = n, n[1] = plan[p].ver PROVE Has(n)'
    BY DEF Has
  <2>1. c.ver = plan[p].ver
    BY DEF NameOf, Name
  <2>2. c \in Webs'
    BY <1>0, <1>2, <2>1 DEF Webs
  <2> QED
    BY <2>2 DEF Has
<1>6. Name(current.hash, "web", FALSE)[1] = plan[p].ver
  BY <1>0 DEF Name, Committed
<1>7. current.caddy /\ route # NoBlock => route.dial[1] = plan[p].ver
  BY <1>0 DEF Committed, NewBlock, BlockTo, Mine, Name
<1> QED
  BY <1>0, <1>3, <1>4, <1>5, <1>6, <1>7 DEF Serving

\* The old release stops; the block no longer dials it.
LEMMA RetiresLive ==
  ASSUME TypeInv, Quiet, LiveInv, NEW p \in Ops, UNCHANGED plan, Retire(p) \/ RetireByName(p)
  PROVE  Shown(p)
<1>0. Serving /\ Kept(p) /\ Committed(p) /\ ~SameVersion(p) /\ pc[p] \in {"retiring", "byname"}
  BY DEF LiveInv, Retire, RetireByName, At, Stage, After, Quiet
<1>1. \A c \in mem[p].todo : c.ver = mem[p].saw.hash
  BY <1>0 DEF Committed
<1>2. UNCHANGED <<route, current>> /\ pc'[p] = "retiring"
  BY <1>0, Handy DEF Retire, RetireByName, At, Go
<1>3. /\ mem'[p].saw = mem[p].saw /\ mem'[p].displaced = mem[p].displaced
      /\ mem'[p].started = mem[p].started /\ mem'[p].snap = mem[p].snap
      /\ mem'[p].todo \subseteq mem[p].todo
  <2>1. \/ \E x \in SUBSET mem[p].todo : \/ mem' = [mem EXCEPT ![p].todo = x]
                                       \/ mem' = [mem EXCEPT ![p].todo = x, ![p].flaw = TRUE]
        \/ \E x : mem' = [mem EXCEPT ![p].flaw = x]
    <3>1. \A c : mem[p].todo \ {c} \in SUBSET mem[p].todo
      OBVIOUS
    <3>2. CASE Retire(p)
      BY <3>1, <3>2 DEF Retire
    <3>3. CASE RetireByName(p)
      BY <3>3 DEF RetireByName
    <3> QED
      BY <3>2, <3>3
  <2>2. CASE \E x \in SUBSET mem[p].todo : mem' = [mem EXCEPT ![p].todo = x]
    BY <2>2, Handy DEF Fields
  <2>3. CASE \E x \in SUBSET mem[p].todo : mem' = [mem EXCEPT ![p].todo = x, ![p].flaw = TRUE]
    BY <2>3, Handy DEF Fields
  <2>4. CASE \E x : mem' = [mem EXCEPT ![p].flaw = x]
    BY <2>4, Handy DEF Fields
  <2> QED
    BY <2>1, <2>2, <2>3, <2>4
<1>4. Serving'
  <2>1. CASE UNCHANGED containers
    BY <1>0, <1>2, <2>1, ServingStill
  <2>2. CASE \E c \in mem[p].todo :
          LET gone == {x \in Identified(IdOf(c)) : NotNewer(x, From(p))}
          IN  Swap(gone, {Stopped(x) : x \in gone})
    <3>1. PICK c \in mem[p].todo :
            Swap({x \in Identified(IdOf(c)) : NotNewer(x, From(p))},
                 {Stopped(x) : x \in {x \in Identified(IdOf(c)) : NotNewer(x, From(p))}})
      BY <2>2
    <3>2. \A x \in Identified(IdOf(c)) : x \in containers /\ x.ver = mem[p].saw.hash
      BY <1>1 DEF Identified, IdOf
    <3> QED
      BY <1>0, <1>2, <3>1, <3>2, StopsOld DEF After
  <2>3. CASE RetireByName(p)
    <3>1. PICK old \in SUBSET containers :
            /\ \A c \in old : c.ver = mem[p].saw.hash
            /\ Swap(old, {Stopped(c) : c \in old})
      <4> DEFINE names == {Name(mem[p].saw.hash, proc, SameVersion(p)) : proc \in ProcsOf(p)}
                 old == {c \in containers : NameOf(c) \in names}
      <4>1. Swap(old, {Stopped(c) : c \in old})
        BY <1>0, <2>3 DEF RetireByName
      <4>2. \A c \in old : c.ver = mem[p].saw.hash
        BY DEF NameOf, Name
      <4>3. old \in SUBSET containers
        OBVIOUS
      <4> HIDE DEF old
      <4> QED
        BY <4>1, <4>2, <4>3
    <3> QED
      BY <1>0, <1>2, <3>1, StopsOld DEF After
  <2> QED
    BY <1>0, <2>1, <2>2, <2>3 DEF Retire
<1>5. Kept(p)'
  BY <1>0, <1>2, <1>3 DEF Kept, Elsewhere
<1>6. Committed(p)'
  <2>1. NewBlock(p)' = NewBlock(p)
    BY <1>3 DEF Mine, NewBlock, Next_, From, BlockTo
  <2> QED
    BY <1>0, <1>1, <1>2, <1>3, <2>1 DEF Committed
<1> QED
  BY <1>2, <1>4, <1>5, <1>6 DEF Shown, Stage, Before

-----------------------------------------------------------------------------
\* Undoing what is uncommitted: this deploy's own containers, whose name the
\* block does not dial.
LEMMA RemovesOwn ==
  ASSUME TypeInv, Quiet, LiveInv, NEW p \in Ops, UNCHANGED <<plan, route, current>>,
         pc[p] \in {"clean", "abortRemove"}, NEW own, own \subseteq Started(p), Swap(own, {})
  PROVE  Serving' /\ \A s \in mem[p].snap : s \in containers'
<1>0. /\ Serving /\ Kept(p) /\ Uncommitted(p)
      /\ mem[p].saw.hash # plan[p].ver /\ mem[p].saw = current
      /\ mem[p].started = {} \/ ~Dials(Mine(p, "web"))
  <2>1. Serving /\ Kept(p) /\ Uncommitted(p)
    BY DEF LiveInv, Stage, Before
  <2>2. mem[p].saw.hash # plan[p].ver
    BY DEF Quiet, At, SameVersion
  <2> QED
    BY <2>1, <2>2 DEF Uncommitted
<1>1. containers' = containers \ own
  BY DEF Swap
<1>2. \A c \in own : c \in containers /\ c.ver = plan[p].ver /\ mem[p].started # {}
  BY <1>0 DEF Started, IdOf, Kept
<1>3. \A c \in own : c \in Webs => NameOf(c) = Mine(p, "web")
  <2>1. \A c \in own : c.replaced \in BOOLEAN
    BY <1>2, Handy DEF Containers
  <2>2. \A c \in own : c.replaced = FALSE
    BY <1>0, <1>2, <2>1 DEF Serving
  <2> QED
    BY <1>2, <2>2 DEF NameOf, Mine, Name, Webs
<1>4. Has(Name(current.hash, "web", FALSE)) => Has(Name(current.hash, "web", FALSE))'
  BY <1>0, <1>1, <1>2 DEF Has, Webs, NameOf, Name
<1>5. current.caddy /\ route # NoBlock => Has(route.dial)'
  <2> SUFFICES ASSUME current.caddy, route # NoBlock PROVE Has(route.dial)'
    OBVIOUS
  <2>1. PICK w \in Webs : NameOf(w) = route.dial
    BY <1>0 DEF Serving, Has
  <2>2. w \notin own
    BY <1>0, <1>2, <1>3, <2>1 DEF Dials
  <2>3. w \in Webs'
    BY <1>1, <2>1, <2>2 DEF Webs
  <2> QED
    BY <2>1, <2>3 DEF Has
<1>6. \A s \in mem[p].snap : s \in containers'
  BY <1>0, <1>1, <1>2 DEF Uncommitted, Kept
<1> QED
  BY <1>0, <1>1, <1>4, <1>5, <1>6 DEF Serving

\* A failure before the commit removes what it started, and displaced nothing.
LEMMA CleansLive ==
  ASSUME TypeInv, Quiet, LiveInv, NEW p \in Ops, UNCHANGED plan, Clean_(p)
  PROVE  Shown(p)
<1>0. /\ Serving /\ Kept(p) /\ Uncommitted(p) /\ pc[p] = "clean" /\ pc'[p] = "restore"
      /\ UNCHANGED <<route, current>>
  BY Handy DEF LiveInv, Clean_, At, Go, Stage, Before
<1>1. PICK stuck \in SUBSET mem[p].started :
        LET gone == {c \in containers : IdOf(c) \in mem[p].started \ stuck}
        IN /\ Swap(gone, {})
           /\ mem' = [mem EXCEPT ![p].todo = Displaced(p, containers \ gone),
                                 ![p].flaw = {IdOf(c) : c \in gone} # mem[p].started]
  BY DEF Clean_
<1> DEFINE gone == {c \in containers : IdOf(c) \in mem[p].started \ stuck}
<1>2. gone \subseteq Started(p) /\ Swap(gone, {})
  BY <1>1 DEF Started
<1>3. Serving' /\ \A s \in mem[p].snap : s \in containers'
  BY <1>0, <1>2, RemovesOwn
<1>4. Displaced(p, containers \ gone) = {}
  <2>1. \A s \in mem[p].snap : \A x \in containers : NameOf(x) = NameOf(s) => x = s /\ x.running
    BY <1>0 DEF Uncommitted, Serving
  <2>2. mem[p].displaced = {}
    BY <1>0 DEF Kept
  <2> QED
    BY <2>1, <2>2 DEF Displaced
<1>5. /\ mem'[p].saw = mem[p].saw /\ mem'[p].displaced = mem[p].displaced
      /\ mem'[p].started = mem[p].started /\ mem'[p].snap = mem[p].snap
      /\ mem'[p].todo = {}
  BY <1>1, <1>4, Handy DEF Fields
<1>6. Kept(p)'
  BY <1>0, <1>5 DEF Kept, Elsewhere
<1>7. Dials(Mine(p, "web"))' = Dials(Mine(p, "web"))
  BY <1>0 DEF Dials, Mine
<1>8. Uncommitted(p)'
  BY <1>0, <1>3, <1>5, <1>7 DEF Uncommitted
<1> QED
  BY <1>0, <1>3, <1>6, <1>8 DEF Shown, Stage, After

\* The old block comes back before the new container goes.
LEMMA UndoesRoute ==
  ASSUME TypeInv, Quiet, LiveInv, NEW p \in Ops, UNCHANGED plan, RestoreRoute(p)
  PROVE  Shown(p)
<1>0. /\ Serving /\ Kept(p) /\ Uncommitted(p) /\ pc[p] = "abortRoute"
      /\ mem[p].saw = current /\ mem[p].saw.hash # plan[p].ver
      /\ UNCHANGED <<containers, current, mem>>
  BY DEF LiveInv, RestoreRoute, At, Stage, Before, Uncommitted, Quiet, SameVersion
<1>1. /\ plan[p].caddy => \/ route' = OldBlock(p) /\ pc'[p] \in {"abortRemove", "abortKeep"}
                          \/ UNCHANGED route /\ pc'[p] = "abortKeep"
      /\ ~plan[p].caddy => UNCHANGED route /\ pc'[p] = "abortRemove"
  BY Handy DEF RestoreRoute, Go
<1>2. Mine(p, "web")' = Mine(p, "web") /\ \A n : Has(n)' = Has(n)
  BY <1>0 DEF Mine, Has, Webs
<1>3. Kept(p)'
  BY <1>0, <1>1 DEF Kept, Elsewhere
<1>4. CASE route' = OldBlock(p) /\ pc'[p] \in {"abortRemove", "abortKeep"}
  <2>1. \/ route' = NoBlock
        \/ /\ current.hash # NoVer
           /\ route'.dial = Name(current.hash, "web", FALSE)
           /\ route'.dial # Mine(p, "web")
    BY <1>0, <1>4 DEF OldBlock, BlockTo, Mine, Name, SameVersion, Serving
  <2>2. Serving'
    BY <1>0, <1>2, <2>1 DEF Serving
  <2>3. ~Dials(Mine(p, "web"))'
    BY <1>2, <2>1 DEF Dials
  <2>4. Uncommitted(p)'
    BY <1>0, <1>4, <2>3 DEF Uncommitted
  <2> QED
    BY <1>3, <1>4, <2>2, <2>4 DEF Shown, Stage, After
<1>5. CASE UNCHANGED route
  <2>1. Serving'
    BY <1>0, <1>5, ServingStill
  <2>2. Dials(Mine(p, "web"))' = Dials(Mine(p, "web"))
    BY <1>0, <1>2, <1>5 DEF Dials
  <2>3. pc'[p] = "abortKeep" => Uncommitted(p)'
    BY <1>0, <2>2 DEF Uncommitted
  <2>4. pc'[p] = "abortRemove" /\ ~plan[p].caddy => Uncommitted(p)'
    BY <1>0, <2>2 DEF Uncommitted
  <2>5. pc'[p] = "abortRemove" /\ plan[p].caddy => route' = OldBlock(p)
    BY <1>1
  <2>6. CASE pc'[p] = "abortRemove" /\ plan[p].caddy
    BY <1>4, <2>5, <2>6
  <2>7. CASE pc'[p] = "abortKeep" \/ ~plan[p].caddy
    BY <1>1, <1>3, <2>1, <2>3, <2>4, <2>7 DEF Shown, Stage, After
  <2> QED
    BY <1>1, <2>6, <2>7
<1> QED
  BY <1>1, <1>4, <1>5

\* The last step of an undo.
LEMMA EndsLive ==
  ASSUME TypeInv, Quiet, LiveInv, NEW p \in Ops, UNCHANGED plan,
         Restored(p) \/ AbortKeep(p) \/ AbortRemove(p)
  PROVE  Shown(p)
<1>0. /\ Serving /\ Kept(p) /\ Uncommitted(p)
      /\ pc[p] \in {"restore", "abortKeep", "abortRemove"} /\ ~plan[p].recreate
  BY DEF LiveInv, Restored, AbortKeep, AbortRemove, At, Stage, Before, Quiet, BlueGreen
<1>1. UNCHANGED <<route, current, mem>> /\ pc'[p] = "release"
  BY Handy DEF Restored, AbortKeep, AbortRemove, worldVars, End, Go
<1>2. Serving'
  <2>1. CASE UNCHANGED containers
    BY <1>0, <1>1, <2>1, ServingStill
  <2>2. CASE AbortRemove(p)
    <3>1. PICK left : Swap(Started(p) \ left, {})
      BY <2>2 DEF AbortRemove
    <3>2. pc[p] = "abortRemove"
      BY <2>2 DEF AbortRemove, At
    <3> QED
      BY <1>1, <3>1, <3>2, RemovesOwn
  <2> QED
    BY <1>0, <2>1, <2>2 DEF Restored, AbortKeep, worldVars
<1>3. Kept(p)'
  BY <1>0, <1>1 DEF Kept, Elsewhere
<1> QED
  BY <1>1, <1>2, <1>3 DEF Shown, Stage, Before, After

\* The steps a blue/green deploy of another release never takes.
LEMMA NotTaken ==
  ASSUME TypeInv, Quiet, LiveInv, NEW p \in Ops
  PROVE  /\ ~InspectReplaced(p) /\ ~ClearReplaced(p) /\ ~Rename(p) /\ ~ConfirmAbsent(p)
         /\ ~CheckDisplace(p) /\ ~Displace(p)
         /\ ~AbortStop(p) /\ ~AbortRestore(p) /\ ~AbortStart(p) /\ ~Restore(p)
<1>1. pc[p] \notin Elsewhere
  BY DEF LiveInv, Stage, Kept
<1>2. pc[p] = "restore" => mem[p].todo = {}
  BY DEF LiveInv, Stage, Before, Uncommitted
<1> QED
  BY <1>1, <1>2 DEF Elsewhere, InspectReplaced, ClearReplaced, Rename, ConfirmAbsent,
     CheckDisplace, Displace, AbortStop, AbortRestore, AbortStart, Restore, At

\* What a step of a deploy leaves to the others.
LEMMA OwnPlace ==
  ASSUME TypeInv, NEW p \in Ops, DeployStep(p)
  PROVE  /\ pc'[p] \notin {"start", "read", "done", "crashed"}
         /\ \A q \in Ops \ {p} : pc'[q] = pc[q] /\ mem'[q] = mem[q]
<1> USE Handy
<1>1. CASE \/ ReadState(p) \/ ResolveRoute(p) \/ Reconcile(p) \/ CheckRename(p)
           \/ Snapshot(p) \/ CheckDisplace(p) \/ Displace(p) \/ Health(p)
  BY <1>1 DEF ReadState, ResolveRoute, Reconcile, CheckRename, Snapshot,
              CheckDisplace, Displace, Health, Go, End
<1>7. CASE InspectReplaced(p) \/ ClearReplaced(p) \/ Rename(p) \/ ConfirmAbsent(p)
  BY <1>7 DEF InspectReplaced, ClearReplaced, Rename, ConfirmAbsent, Moved, Go, End
<1>8. CASE ClearStopped(p) \/ Vacate(p) \/ InspectPartial(p) \/ RemovePartial(p)
  BY <1>8 DEF ClearStopped, Vacate, InspectPartial, RemovePartial, Go
<1>2. CASE StartWeb(p) \/ StartWorker(p) \/ Rerun(p)
  <2>1. PICK proc, taken, next : /\ Run(p, proc, taken, next)
                                 /\ {taken, next} \subseteq
                                      {"occupied", "partial", "health", "switch", "clean"}
    BY <1>2 DEF StartWeb, StartWorker, Rerun, Tried
  <2> QED
    BY <2>1 DEF Run, Go
<1>3. CASE \/ Switch(p) \/ Reread(p) \/ Commit(p) \/ RetireStaleRoute(p) \/ Record(p)
           \/ BeginRetire(p) \/ RetireByName(p) \/ Finish(p)
  BY <1>3 DEF Switch, Reread, Commit, RetireStaleRoute, Record, BeginRetire, RetireByName,
              Finish, Go, End
<1>4. CASE Clean_(p) \/ Restored(p) \/ AbortStop(p) \/ AbortStart(p) \/ RestoreRoute(p)
           \/ AbortKeep(p) \/ AbortRemove(p)
  BY <1>4 DEF Clean_, Restored, AbortStop, AbortStart, RestoreRoute, AbortKeep,
              AbortRemove, Go, End
<1>5. CASE Retire(p) \/ Restore(p)
  BY <1>5 DEF Retire, Restore, At
<1>6. CASE AbortRestore(p)
  BY <1>6 DEF AbortRestore, At, Go
<1> QED
  BY <1>1, <1>2, <1>3, <1>4, <1>5, <1>6, <1>7, <1>8 DEF DeployStep

\* One step of one deploy.
LEMMA StepLive ==
  ASSUME TypeInv, Pristine, Quiet, Quiet', LiveInv,
         NEW p \in Ops, DeployStep(p), UNCHANGED holder
  PROVE  LiveInv'
<1>1. UNCHANGED plan
  BY StepPlan
<1>2. Shown(p)
  BY <1>1, NotTaken, ReadsLive, PreparesLive, StartsLive, VacatesLive, SwitchLive, RereadLive,
     CommitLive, RecordsLive, RetiresLive, CleansLive, UndoesRoute, EndsLive DEF DeployStep
<1>3. Holds(p) /\ \A q \in Ops \ {p} : Idle(q)
  BY Alone
<1>4. pc'[p] \notin {"start", "done", "crashed"} /\
      \A q \in Ops \ {p} : pc'[q] = pc[q] /\ mem'[q] = mem[q]
  BY OwnPlace
<1>5. Lone'
  BY <1>3, <1>4 DEF Lone, Idle, Holds
<1>6. \A q \in Ops : Stage(q)'
  <2>1. ASSUME NEW q \in Ops \ {p} PROVE Stage(q)'
    BY <1>1, <1>3, <1>4, OtherStage
  <2> QED
    BY <1>2, <2>1 DEF Shown
<1> QED
  BY <1>2, <1>5, <1>6 DEF LiveInv, Shown

-----------------------------------------------------------------------------
(* The lock, the end of a deploy, and the whole.                           *)

\* A stage is a matter of the world and of the deploy itself.
LEMMA StageStill ==
  ASSUME NEW q \in Ops, Stage(q), UNCHANGED <<plan, containers, route, current>>,
         pc'[q] = pc[q], mem'[q] = mem[q]
  PROVE  Stage(q)'
<1>1. Mine(q, "web")' = Mine(q, "web") /\ NewBlock(q)' = NewBlock(q)
  BY DEF Mine, NewBlock, Next_, From, BlockTo
<1>2. \A n : Has(n)' = Has(n) /\ Dials(n)' = Dials(n)
  BY DEF Has, Webs, Dials
<1>3. Kept(q)'
  BY DEF Stage, Kept
<1>4. Uncommitted(q) => Uncommitted(q)'
  <2>1. Has(Mine(q, "web"))' = Has(Mine(q, "web")) /\ Dials(Mine(q, "web"))' = Dials(Mine(q, "web"))
    BY <1>1, <1>2
  <2>2. Named(Mine(q, NextProc(q)))' = Named(Mine(q, NextProc(q)))
    BY DEF Named, Mine, NextProc
  <2> QED
    BY <1>1, <2>1, <2>2 DEF Uncommitted
<1>5. Committed(q) => Committed(q)'
  BY <1>1 DEF Committed
<1> QED
  BY <1>3, <1>4, <1>5 DEF Stage

\* Only a dead holder loses the lock, and then nobody moves.
LEMMA LockLive ==
  ASSUME TypeInv, Pristine, Quiet, Quiet', LiveInv, NEW p \in Ops,
         Acquire(p) \/ Release(p) \/ Crash(p)
  PROVE  LiveInv'
<1> USE Handy
<1>0. UNCHANGED <<plan, containers, route, current>> /\ Lone /\ Serving
  BY DEF Acquire, Release, Crash, lockVars, worldVars, LiveInv
<1>1. Serving'
  BY <1>0, ServingStill
<1>2. ASSUME NEW q \in Ops \ {p}, pc'[q] = pc[q], mem'[q] = mem[q], Idle(q) PROVE Stage(q)'
  BY <1>0, <1>2, OtherStage
<1>3. /\ \A q \in Ops \ {p} : pc'[q] = pc[q] /\ mem'[q] = mem[q]
      /\ Acquire(p) => pc[p] = "start" /\ pc'[p] = "read" /\ mem'[p] = mem[p] /\ holder' = p
      /\ Release(p) => pc[p] = "release" /\ pc'[p] = "done"
      /\ Crash(p) => pc[p] \in Steps /\ pc'[p] = "crashed" /\ UNCHANGED holder
      /\ ~Acquire(p) => mem'[p] = [Blank EXCEPT !.saw = mem[p].saw]
  BY DeployAssumption DEF Acquire, Release, Crash, Go, Forget, At
<1>4. CASE Acquire(p)
  <2>1. holder = NoOne \/ (holder \in Ops /\ ~Alive(holder))
    <3>1. ASSUME holder # NoOne PROVE ~Alive(holder)
      <4>1. usurped' = usurped \cup {q \in {holder} : Alive(q)} /\ usurped' = {}
        BY <1>4, <3>1 DEF Acquire, Quiet
      <4> QED
        BY <4>1
    <3> QED
      BY <3>1 DEF TypeInv, TypeOK
  <2>2. \A q \in Ops \ {p} : Idle(q)
    BY <1>0, <2>1, DeployAssumption DEF Lone, Idle, Holds, Alive, Final, Makers
  <2>3. Lone'
    BY <1>3, <1>4, <2>2 DEF Lone, Idle, Holds
  <2>4. Stage(p)'
    <3>1. mem'[p] = Blank /\ pc'[p] = "read"
      BY <1>3, <1>4 DEF Pristine
    <3> QED
      BY <3>1 DEF Stage, Kept, Blank, Before, After, Elsewhere
  <2> QED
    BY <1>1, <1>2, <1>3, <2>2, <2>3, <2>4 DEF LiveInv
<1>5. CASE Release(p)
  <2>1. Holds(p) /\ \A q \in Ops \ {p} : Idle(q)
    BY <1>0, <1>3, <1>5 DEF Lone, Idle, Holds
  <2>2. holder' = NoOne
    BY <1>5, <2>1 DEF Release
  <2>3. Lone'
    BY <1>3, <1>5, <2>1, <2>2 DEF Lone, Idle
  <2>4. Stage(p)'
    BY <1>3, <1>5 DEF Stage, Kept, Blank, Before, After, Elsewhere, Acquire, At
  <2> QED
    BY <1>1, <1>2, <1>3, <2>1, <2>3, <2>4 DEF LiveInv
<1>6. CASE Crash(p)
  <2>1. \A q \in Ops \ {p} : Idle(q)' = Idle(q) /\ Holds(q)' = Holds(q)
    BY <1>3, <1>6 DEF Idle, Holds
  <2>2. Lone'
    BY <1>0, <1>3, <1>6, <2>1, DeployAssumption DEF Lone, Idle, Holds, Makers, TypeInv, TypeOK
  <2>3. Stage(p)'
    BY <1>3, <1>6 DEF Stage, Kept, Blank, Before, After, Elsewhere
  <2>4. \A q \in Ops \ {p} : Stage(q)'
    BY <1>0, <1>3, StageStill DEF LiveInv
  <2> QED
    BY <1>1, <2>2, <2>3, <2>4 DEF LiveInv
<1> QED
  BY <1>4, <1>5, <1>6

\* An unlock that takes the lock from nobody alive.
LEMMA UnlockLive ==
  ASSUME TypeInv, Quiet, Quiet', LiveInv, Unlock
  PROVE  LiveInv'
<1>0. UNCHANGED <<plan, containers, route, current, pc, mem>> /\ holder' = NoOne /\ Lone
  BY DEF Unlock, worldVars, LiveInv
<1>1. ~Alive(holder) /\ holder \in Ops
  <2>1. usurped' = usurped \cup {q \in {holder} : Alive(q)} /\ usurped' = {}
    BY DEF Unlock, Quiet
  <2> QED
    BY <2>1 DEF TypeInv, TypeOK, Unlock
<1>2. \A q \in Ops : Idle(q)
  BY <1>0, <1>1 DEF Lone, Idle, Holds, Alive, Final
<1>3. Lone'
  BY <1>0, <1>2 DEF Lone, Idle
<1>4. Serving' /\ \A q \in Ops : Stage(q)'
  BY <1>0, <1>2, ServingStill, OtherStage DEF LiveInv
<1> QED
  BY <1>3, <1>4 DEF LiveInv

\* A stutter.
LEMMA StillLive ==
  ASSUME LiveInv, UNCHANGED vars PROVE LiveInv'
<1>1. UNCHANGED <<plan, holder, containers, route, current, pc, mem>>
  BY DEF vars
<1>2. Lone' /\ Serving'
  BY <1>1, ServingStill DEF LiveInv, Lone, Idle, Holds
<1>3. \A q \in Ops : Stage(q)'
  BY <1>1, StageStill DEF LiveInv
<1> QED
  BY <1>2, <1>3 DEF LiveInv

\* A deploy that has not read keeps nothing; none starts twice.
LEMMA PristineStays ==
  ASSUME TypeInv, Pristine, [Next]_vars
  PROVE  Pristine' /\ \A p \in Ops : pc'[p] = "start" => pc[p] = "start"
<1> USE Handy
<1>1. ASSUME NEW p \in Ops, Acquire(p) \/ Release(p) \/ Crash(p)
      PROVE  Pristine' /\ \A q \in Ops : pc'[q] = "start" => pc[q] = "start"
  BY <1>1 DEF Acquire, Release, Crash, Go, Forget, At, Pristine
<1>2. ASSUME NEW p \in Ops, DeployStep(p)
      PROVE  Pristine' /\ \A q \in Ops : pc'[q] = "start" => pc[q] = "start"
  BY <1>2, OwnPlace DEF Pristine
<1>3. Unlock \/ UNCHANGED vars => UNCHANGED <<pc, mem>>
  BY DEF Unlock, vars
<1> QED
  BY <1>1, <1>2, <1>3 DEF Next, Pristine

\* What a deploy saw is what it read once.
LEMMA SawOnce ==
  ASSUME TypeInv, [Next]_vars, NEW p \in Ops, pc[p] \notin {"start", "read"}
  PROVE  mem'[p].saw = mem[p].saw
<1> USE Handy
<1>1. CASE \E q \in Ops : Acquire(q) \/ Release(q) \/ Crash(q)
  BY <1>1 DEF Acquire, Release, Crash, Forget, Blank
<1>2. CASE \E q \in Ops : DeployStep(q)
  <2>1. PICK q \in Ops : DeployStep(q)
    BY <1>2
  <2>2. CASE q # p
    BY <2>1, <2>2, OwnPlace
  <2>3. CASE q = p
    <3>1. CASE UNCHANGED mem
      BY <3>1
    <3>2. CASE StartWeb(p) \/ StartWorker(p) \/ Rerun(p)
      <4>1. PICK proc, taken, next : Run(p, proc, taken, next)
        BY <3>2 DEF StartWeb, StartWorker, Rerun
      <4> QED
        BY <4>1 DEF Run, Fields
    <3>3. CASE ResolveRoute(p) \/ CheckRename(p) \/ Snapshot(p) \/ Displace(p)
      BY <3>3 DEF ResolveRoute, CheckRename, Snapshot, Displace, Fields
    <3>8. CASE InspectReplaced(p) \/ Rename(p) \/ ConfirmAbsent(p)
      BY <3>8 DEF InspectReplaced, Rename, ConfirmAbsent, Moved, Fields
    <3>4. CASE Reread(p) \/ RetireStaleRoute(p) \/ BeginRetire(p) \/ RetireByName(p)
      BY <3>4 DEF Reread, RetireStaleRoute, BeginRetire, RetireByName, Fields
    <3>5. CASE Clean_(p) \/ AbortStop(p) \/ AbortRestore(p) \/ Retire(p) \/ Restore(p)
      <4>1. \E x, y : \/ mem' = [mem EXCEPT ![p].todo = x]
                      \/ mem' = [mem EXCEPT ![p].todo = x, ![p].flaw = y]
                      \/ mem' = mem
        BY <3>5 DEF Clean_, AbortStop, AbortRestore, Retire, Restore
      <4> QED
        BY <4>1 DEF Fields
    <3>6. CASE ReadState(p)
      BY <3>6 DEF ReadState, At
    <3>7. CASE \/ Reconcile(p) \/ CheckDisplace(p) \/ Health(p) \/ Switch(p) \/ Commit(p)
               \/ Record(p) \/ Finish(p) \/ Restored(p) \/ AbortStart(p) \/ RestoreRoute(p)
               \/ AbortKeep(p) \/ AbortRemove(p) \/ ClearReplaced(p) \/ ClearStopped(p)
               \/ Vacate(p) \/ InspectPartial(p) \/ RemovePartial(p)
      BY <3>1, <3>7 DEF Reconcile, CheckDisplace, Health, Switch, Commit, Record, Finish,
                        Restored, AbortStart, RestoreRoute, AbortKeep, AbortRemove,
                        ClearReplaced, ClearStopped, Vacate, InspectPartial, RemovePartial
    <3> QED
      BY <2>1, <2>3, <3>2, <3>3, <3>4, <3>5, <3>6, <3>7, <3>8 DEF DeployStep
  <2> QED
    BY <2>2, <2>3
<1>3. CASE Unlock \/ UNCHANGED vars
  BY <1>3 DEF Unlock, vars
<1> QED
  BY <1>1, <1>2, <1>3 DEF Next

\* What the histories name stays named.
LEMMA HistoriesStay ==
  ASSUME [Next]_vars
  PROVE  usurped \subseteq usurped' /\ unsaid \subseteq unsaid'
         /\ blind \subseteq blind' /\ unsure \subseteq unsure'
<1> DEFINE Stay == usurped \subseteq usurped' /\ unsaid \subseteq unsaid'
                   /\ blind \subseteq blind' /\ unsure \subseteq unsure'
<1>1. ASSUME NEW p \in Ops, DeployStep(p) PROVE Stay
  <2>1. CASE \/ ReadState(p) \/ ResolveRoute(p) \/ Reconcile(p) \/ CheckRename(p)
             \/ InspectReplaced(p) \/ ClearReplaced(p) \/ Rename(p) \/ ConfirmAbsent(p)
             \/ Snapshot(p) \/ CheckDisplace(p) \/ Displace(p) \/ Health(p)
             \/ ClearStopped(p) \/ Vacate(p) \/ InspectPartial(p) \/ RemovePartial(p)
    BY <2>1 DEF ReadState, ResolveRoute, Reconcile, CheckRename, InspectReplaced, ClearReplaced,
            Rename, ConfirmAbsent, Snapshot, CheckDisplace, Displace, Health, ClearStopped,
            Vacate, InspectPartial, RemovePartial, Noted, lockVars
  <2>2. CASE \/ StartWeb(p) \/ StartWorker(p) \/ Rerun(p) \/ Switch(p) \/ Reread(p) \/ Commit(p)
             \/ RetireStaleRoute(p) \/ Record(p) \/ BeginRetire(p) \/ Retire(p)
             \/ RetireByName(p) \/ Finish(p)
    BY <2>2 DEF StartWeb, StartWorker, Rerun, Run, Switch, Reread, Commit, RetireStaleRoute,
            Record, BeginRetire, Retire, RetireByName, Finish, Noted, lockVars
  <2>3. CASE \/ Clean_(p) \/ Restore(p) \/ Restored(p)
             \/ AbortStop(p) \/ AbortRestore(p) \/ AbortStart(p) \/ RestoreRoute(p)
             \/ AbortKeep(p) \/ AbortRemove(p)
    BY <2>3 DEF Clean_, Restore, Restored, AbortStop, AbortRestore, AbortStart, RestoreRoute,
            AbortKeep, AbortRemove, RestartSpoils, Noted, lockVars
  <2> QED
    BY <1>1, <2>1, <2>2, <2>3 DEF DeployStep
<1>2. ASSUME NEW p \in Ops, Acquire(p) \/ Release(p) \/ Crash(p) PROVE Stay
  BY <1>2 DEF Acquire, Release, Crash, lockVars
<1>3. Unlock \/ UNCHANGED vars => Stay
  BY DEF Unlock, vars
<1> QED
  BY <1>1, <1>2, <1>3 DEF Next

\* The premises held before they hold now.
LEMMA QuietBefore ==
  ASSUME TypeInv, Pristine, [Next]_vars, Quiet' PROVE Quiet
<1>1. UNCHANGED plan
  BY PlanStays
<1>2. BlueGreen /\ usurped = {} /\ unsure = {}
  BY <1>1, HistoriesStay DEF Quiet, BlueGreen
<1>3. ASSUME NEW p \in Ops, pc[p] # "start" PROVE ~SameVersion(p)
  <2>1. CASE pc[p] = "read"
    BY <2>1, Handy, DeployAssumption DEF Pristine, SameVersion, Blank, NoState
  <2>2. CASE pc[p] # "read"
    <3>1. mem'[p].saw = mem[p].saw
      BY <1>3, <2>2, SawOnce
    <3>2. pc'[p] # "start"
      BY <1>3, PristineStays
    <3> QED
      BY <1>1, <3>1, <3>2 DEF Quiet, At, SameVersion
  <2> QED
    BY <2>1, <2>2
<1> QED
  BY <1>2, <1>3 DEF Quiet, At

\* The founding release serves.
LEMMA LiveStarts == Init => LiveIInv
<1> SUFFICES ASSUME Init PROVE LiveIInv
  OBVIOUS
<1>1. TypeInv
  BY TypesStart
<1>2. Pristine
  BY DEF Init, Pristine
<1>3. Lone
  BY DEF Init, Lone, Idle
<1>4. \A p \in Ops : Stage(p)
  BY DEF Init, Stage, Kept, Blank, Before, After, Elsewhere
<1>5. CASE plan[Founder].ver = NoVer
  BY <1>1, <1>2, <1>3, <1>4, <1>5 DEF Init, Founded, Serving, NoState, LiveInv, LiveIInv
<1>6. CASE plan[Founder].ver # NoVer
  <2> DEFINE Of(proc) == Container(Founder, proc, 1)
  <2>1. containers = {Of(proc) : proc \in ProcsOf(Founder)}
    BY <1>6 DEF Init, Founded
  <2>2. \A proc : /\ Of(proc).replaced = FALSE /\ Of(proc).running /\ Of(proc).proc = proc
                  /\ NameOf(Of(proc)) = Mine(Founder, proc)
    BY DEF Container, NameOf, Mine, Name
  <2>3. \A proc, other : Mine(Founder, proc) = Mine(Founder, other) => proc = other
    BY DEF Mine, Name
  <2>4. "web" \in ProcsOf(Founder)
    BY DEF ProcsOf
  <2> HIDE DEF Of
  <2>5. Has(Mine(Founder, "web"))
    BY <2>1, <2>2, <2>4 DEF Has, Webs
  <2>6. /\ current.hash = plan[Founder].ver /\ current.caddy = plan[Founder].caddy
        /\ Mine(Founder, "web") = Name(current.hash, "web", FALSE)
        /\ route = IF plan[Founder].caddy THEN BlockTo(Mine(Founder, "web"), 1) ELSE NoBlock
    BY <1>6 DEF Init, Mine
  <2>7. route # NoBlock => route.dial = Mine(Founder, "web")
    BY <2>6 DEF BlockTo
  <2>8. Serving
    <3>1. \A c \in containers : ~c.replaced
      BY <2>1, <2>2
    <3>2. \A c, d \in containers : NameOf(c) = NameOf(d) => c = d
      BY <2>1, <2>2, <2>3
    <3> QED
      BY <1>6, <2>5, <2>6, <2>7, <3>1, <3>2 DEF Serving
  <2> QED
    BY <1>1, <1>2, <1>3, <1>4, <2>8 DEF LiveInv, LiveIInv
<1> QED
  BY <1>5, <1>6

\* Every step keeps the invariant.
LEMMA LiveStays ==
  ASSUME LiveIInv, [Next]_vars PROVE LiveIInv'
<1>1. TypeInv' /\ Pristine' /\ TypeInv /\ Pristine
  BY TypesStay, PristineStays DEF LiveIInv
<1>2. ASSUME Quiet' PROVE LiveInv'
  <2>1. Quiet /\ LiveInv
    BY <1>1, <1>2, QuietBefore DEF LiveIInv
  <2> QED
    BY <1>1, <1>2, <2>1, StepLive, LockLive, UnlockLive, StillLive DEF Next
<1> QED
  BY <1>1, <1>2 DEF LiveIInv

(* While no live deploy has lost the lock or the answer of a switch it     *)
(* made, and no deploy is of the release already current, the app's block  *)
(* dials a running container, through every failure, crash and undo, for   *)
(* any number of deploys and any faults: the order of health check,        *)
(* switch, commit and retirement in deployFenced.                          *)
THEOREM RouteServes == Spec => []RouteLive
<1>1. LiveIInv => RouteLive
  BY DEF LiveIInv, Quiet, LiveInv, Serving, Has, RouteLive
<1>2. LiveIInv /\ [Next]_vars => LiveIInv'
  BY LiveStays
<1> QED
  BY <1>1, <1>2, LiveStarts, PTL DEF Spec

-----------------------------------------------------------------------------
(* The authority is served, whoever loses the lock.  The deploys may move  *)
(* at the same time here, each on what it once read.  A container of the   *)
(* authority's release and generation is never stopped: what a late deploy *)
(* may undo, retire or restart bears an older generation, or is its own.   *)

\* The premises of AuthorityRunning.
Calm == BlueGreen /\ blind = {}

\* Before the commit, from the read on; while containers are moved aside; before
\* the first candidate; with one that should run; where a taken name is cleared;
\* between commit and retirement.
Asides == {"renaming", "clearing", "moving", "confirming"}
Open == {"resolve", "reconcile", "rename", "snapshot", "web", "health", "worker", "occupied",
         "vacate", "rerun", "partial", "unpartial", "switch", "reread", "commit", "clean",
         "restore"} \cup Asides
Young == {"start", "read", "resolve", "reconcile", "rename", "snapshot", "web"} \cup Asides
Ready == {"health", "worker", "switch", "reread", "commit"}
Again == {"occupied", "vacate", "rerun"}
Going == {"stale", "record", "retire", "byname"}
\* Where a blue/green deploy never is, and where none undoes its own start any more.
Never == {"displace", "displacing", "abort", "abortRestore", "abortStart"}
Secure == After \cup {"release", "done", "crashed"}

\* A web container of the authority's release and generation; nobody is going to
\* take it away as its own.
OfState(c) == c.proc = "web" /\ c.ver = current.hash /\ c.gen = current.gen
Safe(c) == c.how = "restart" \/ c.by = Founder \/ pc[c.by] \in Secure
Base(c) == OfState(c) /\ Safe(c)
UpToDate(p) == mem[p].saw = current

OneName == \A c, d \in containers : NameOf(c) = NameOf(d) => c = d

\* A generation is one state; what a holder has read is the authority.
ReadInv ==
  /\ current.hash = NoVer => current = NoState
  /\ \A p \in Ops : From(p) <= current.gen /\ (From(p) = current.gen => UpToDate(p))
  /\ \A p, q \in Ops : From(p) = From(q) => mem[p].saw = mem[q].saw
  /\ \A p \in Ops : Holds(p) => /\ pc[p] \in Open => UpToDate(p)
                                /\ pc[p] \in After => current = NewState(p)

Steady == \A c \in containers : OfState(c) => c.running
AsideOld == \A c \in containers : c.proc = "web" /\ c.replaced => c.gen <= current.gen
Served == current.hash # NoVer => \E c \in containers : Base(c)

\* What it remembers is its own, or of the release it read.
Modest(p) ==
  /\ pc[p] \notin Never
  /\ mem[p].displaced = {}
  /\ \A i \in mem[p].started : i[1] = p /\ i[2] = "run"
  /\ \A s \in mem[p].snap : s.ver = mem[p].saw.hash
  /\ pc[p] \in {"retiring", "byname"} => \A c \in mem[p].todo : c.ver = mem[p].saw.hash
  /\ pc[p] \in Young => mem[p].started = {}
  /\ pc[p] \in {"start", "read"} => mem[p].snap = {}
  /\ pc[p] \in Asides => SameVersion(p)

\* The candidate of a holder runs under its own name.
OwnUp(p) ==
  Holds(p) /\ (pc[p] \in Ready \/ (pc[p] \in Again /\ mem[p].started # {})) =>
    \E c \in Webs : c.by = p /\ c.how = "run" /\ NameOf(c) = Mine(p, "web") /\ c.gen = Next_(p)

\* What it committed was not moved aside.
OldAside(p) ==
  Holds(p) /\ pc[p] \in Going =>
    \A c \in containers : c.proc = "web" /\ c.replaced => c.gen <= From(p)

\* A holder that saw a name bear what does not run removes nothing of the authority.
ClearsOther(p) ==
  /\ Holds(p) /\ pc[p] = "clearing" => \A c \in Named(Renamed(p, mem[p].proc)) : ~OfState(c)
  /\ Holds(p) /\ pc[p] = "unpartial" => \A c \in Named(Mine(p, NextProc(p))) : ~OfState(c)

\* Nor does an undo restart it: what it listed as stopped was older, and only a
\* rename gives its name to another container.
RestartsOther(p) ==
  UpToDate(p) /\ pc[p] = "restore" =>
    \A n \in mem[p].todo : Holds(p) \/ ~n[3] => \A c \in Named(n) : ~OfState(c)

Standing(p) ==
  Modest(p) /\ OwnUp(p) /\ OldAside(p) /\ ClearsOther(p) /\ RestartsOther(p)

AuthInv ==
  OneName /\ ReadInv /\ Steady /\ AsideOld /\ Served /\ \A p \in Ops : Standing(p)

AuthIInv == TypeInv /\ Pristine /\ (Calm => AuthInv)

-----------------------------------------------------------------------------
\* The places of a deploy are apart.
LEMMA Places ==
  /\ Going \subseteq After /\ Ready \subseteq Open /\ Again \subseteq Open
  /\ After \subseteq Secure /\ Open \cap Secure = {}
  /\ (Open \cup Young) \cap Going = {}
BY DEF Open, Young, Ready, Again, Going, After, Secure, Asides

\* Safety lasts while the places it names last.
LEMMA SafeStays ==
  ASSUME NEW c, \A q \in Ops : pc[q] \in Secure => pc'[q] \in Secure,
         c.by \in Makers, Safe(c)
  PROVE  Safe(c)'
BY DEF Safe, Makers

\* Nobody but the holder holds.
LEMMA OneHolder ==
  ASSUME NEW p, Holds(p), NEW q, q # p PROVE ~Holds(q)
BY DEF Holds

\* One container of a name, whatever is made again of what went.
LEMMA NamesStay ==
  ASSUME OneName, NEW gone \in SUBSET containers, NEW new,
         containers' = (containers \ gone) \cup new,
         \A x \in new : \E c \in gone : NameOf(x) = NameOf(c),
         \A x, y \in new : NameOf(x) = NameOf(y) => x = y
  PROVE  OneName'
BY DEF OneName, NameOf

\* Stopping keeps the names.
LEMMA StopsKeepNames ==
  ASSUME TypeInv, OneName, NEW gone \in SUBSET containers,
         \/ containers' = (containers \ gone) \cup {Stopped(c) : c \in gone}
         \/ containers' = containers \ gone
  PROVE  OneName'
<1>1. \A c \in gone : NameOf(Stopped(c)) = NameOf(c)
  BY DEF TypeInv, Shape, Containers, Stopped, NameOf
<1>2. CASE containers' = containers \ gone
  BY <1>2 DEF OneName, NameOf
<1>3. CASE containers' = (containers \ gone) \cup {Stopped(c) : c \in gone}
  <2> DEFINE new == {Stopped(c) : c \in gone}
  <2>1. \A x, y \in new : NameOf(x) = NameOf(y) => x = y
    BY <1>1 DEF OneName
  <2>2. \A x \in new : \E c \in gone : NameOf(x) = NameOf(c)
    BY <1>1
  <2> HIDE DEF new
  <2> QED
    BY <1>3, <2>1, <2>2, NamesStay DEF new
<1> QED
  BY <1>2, <1>3

\* What a holder runs is of the generation after the authority's.
LEMMA HolderReads ==
  ASSUME TypeInv, ReadInv, NEW p \in Ops, Holds(p), pc[p] \in Open
  PROVE  /\ UpToDate(p) /\ From(p) = current.gen /\ Next_(p) = current.gen + 1
         /\ current.gen \in Nat
BY Vocabulary DEF ReadInv, UpToDate, From, Next_, TypeInv, TypeOK, States

\* What a holder retires is of a generation before the authority's.
LEMMA HolderLeft ==
  ASSUME TypeInv, ReadInv, NEW p \in Ops, Holds(p), pc[p] \in After
  PROVE  /\ current.hash = plan[p].ver /\ current.gen = From(p) + 1
         /\ From(p) \in Nat /\ current.gen \in Nat
BY Vocabulary DEF ReadInv, NewState, Next_, TypeInv, TypeOK, States

\* What one deploy's step leaves of the others' standing: it makes nothing of
\* the authority, and moves nothing aside, but by the holder's rename.
LEMMA OthersStand ==
  ASSUME TypeInv, AuthInv, NEW p \in Ops, UNCHANGED <<plan, current>>,
         \A q \in Ops \ {p} : pc'[q] = pc[q] /\ mem'[q] = mem[q] /\ (Holds(q)' => Holds(q)),
         \A x \in containers' \ containers :
            /\ OfState(x) => x.replaced /\ Holds(p)
            /\ x.proc = "web" /\ x.replaced => Holds(p),
         ~Holds(p) => \A c \in Webs : c.by # p /\ c.how = "run" /\ c.gen > current.gen
                                      => c \in containers'
  PROVE  \A q \in Ops \ {p} : Standing(q)'
<1> SUFFICES ASSUME NEW q \in Ops \ {p} PROVE Standing(q)'
  OBVIOUS
<1>0. /\ pc'[q] = pc[q] /\ mem'[q] = mem[q] /\ (Holds(q)' => Holds(q)) /\ Standing(q)
      /\ ReadInv /\ OneName
  BY DEF AuthInv
<1>1. /\ SameVersion(q)' = SameVersion(q) /\ From(q)' = From(q) /\ Next_(q)' = Next_(q)
      /\ UpToDate(q)' = UpToDate(q) /\ NextProc(q)' = NextProc(q)
      /\ \A proc : Mine(q, proc)' = Mine(q, proc) /\ Renamed(q, proc)' = Renamed(q, proc)
      /\ \A c : OfState(c)' = OfState(c) /\ NameOf(c)' = NameOf(c)
  BY <1>0 DEF SameVersion, From, Next_, UpToDate, NextProc, Mine, Renamed, OfState, NameOf
<1>2. Holds(q)' => ~Holds(p)
  BY <1>0, OneHolder
<1>3. Modest(q)'
  BY <1>0, <1>1 DEF Standing, Modest
<1>4. OwnUp(q)'
  <2> SUFFICES ASSUME Holds(q)', pc[q] \in Ready \/ (pc[q] \in Again /\ mem[q].started # {})
               PROVE  \E c \in Webs' : /\ c.by = q /\ c.how = "run" /\ NameOf(c) = Mine(q, "web")
                                       /\ c.gen = Next_(q)
    BY <1>0, <1>1 DEF OwnUp
  <2>1. PICK c \in Webs : /\ c.by = q /\ c.how = "run" /\ NameOf(c) = Mine(q, "web")
                          /\ c.gen = Next_(q)
    BY <1>0 DEF Standing, OwnUp
  <2>2. c.gen > current.gen
    BY <1>0, <2>1, HolderReads, Places
  <2>3. c \in containers'
    BY <1>2, <2>1, <2>2
  <2> QED
    BY <2>1, <2>3 DEF Webs
<1>5. OldAside(q)'
  BY <1>0, <1>1, <1>2 DEF Standing, OldAside
<1>6. ClearsOther(q)'
  BY <1>0, <1>1, <1>2 DEF Standing, ClearsOther, Named
<1>7. RestartsOther(q)'
  <2> SUFFICES ASSUME UpToDate(q), pc[q] = "restore", NEW n \in mem[q].todo, Holds(q)' \/ ~n[3],
                      NEW c \in containers', NameOf(c) = n, OfState(c)
               PROVE  FALSE
    BY <1>0, <1>1 DEF RestartsOther, Named
  <2>1. c \notin containers
    BY <1>0 DEF Standing, RestartsOther, Named
  <2>2. n[3] = c.replaced
    BY DEF NameOf, Name
  <2> QED
    BY <1>2, <2>1, <2>2
<1> QED
  BY <1>3, <1>4, <1>5, <1>6, <1>7 DEF Standing

\* What was read stays read.
LEMMA ReadStays ==
  ASSUME TypeInv, ReadInv, NEW p \in Ops, UNCHANGED <<plan, current>>,
         \A q \in Ops \ {p} : pc'[q] = pc[q] /\ mem'[q] = mem[q] /\ (Holds(q)' => Holds(q)),
         mem'[p].saw \in {mem[p].saw, current},
         Holds(p)' => Holds(p) \/ pc'[p] \notin Open \cup After,
         pc'[p] \in Open => pc[p] \in Open \/ mem'[p].saw = current,
         pc'[p] \in After => pc[p] \in After /\ mem'[p].saw = mem[p].saw
  PROVE  ReadInv'
<1>0. current.gen \in Nat /\ From(p) \in Nat
  BY Vocabulary DEF TypeInv, TypeOK, States
<1>1. \A q \in Ops \ {p} : /\ From(q)' = From(q) /\ UpToDate(q)' = UpToDate(q)
                           /\ NewState(q)' = NewState(q)
  BY DEF From, UpToDate, NewState, Next_
<1>2. \/ From(p)' = From(p) /\ UpToDate(p)' = UpToDate(p) /\ mem'[p].saw = mem[p].saw
      \/ From(p)' = current.gen /\ UpToDate(p)' /\ mem'[p].saw = current
  BY DEF From, UpToDate
<1>3. ASSUME NEW q \in Ops
      PROVE  From(q)' <= current.gen /\ (From(q)' = current.gen => UpToDate(q)')
  <2>1. From(q) <= current.gen /\ (From(q) = current.gen => UpToDate(q))
    BY DEF ReadInv
  <2>2. CASE q # p
    BY <1>1, <2>1, <2>2
  <2>3. CASE q = p
    BY <1>0, <1>2, <2>1, <2>3
  <2> QED
    BY <2>2, <2>3
<1>4. ASSUME NEW q \in Ops
      PROVE  \/ mem'[q].saw = mem[q].saw /\ From(q)' = From(q)
             \/ mem'[q].saw = current /\ From(q)' = current.gen
  BY <1>1, <1>2, q = p \/ q \in Ops \ {p}
<1>5. \A q, r \in Ops : From(q)' = From(r)' => mem'[q].saw = mem'[r].saw
  BY <1>4 DEF ReadInv, UpToDate
<1>6. ASSUME NEW q \in Ops, Holds(q)'
      PROVE  /\ pc'[q] \in Open => UpToDate(q)'
             /\ pc'[q] \in After => current = NewState(q)'
  <2>1. CASE q # p
    BY <1>1, <1>6, <2>1 DEF ReadInv
  <2>2. CASE q = p
    <3>1. mem'[p].saw = mem[p].saw => NewState(p)' = NewState(p)
      BY DEF NewState, Next_, From
    <3> QED
      BY <1>2, <1>6, <2>2, <3>1 DEF ReadInv, UpToDate
  <2> QED
    BY <2>1, <2>2
<1> QED
  BY <1>3, <1>5, <1>6 DEF ReadInv

\* What a step leaves standing beside its own deploy: it makes nothing of the
\* authority that does not run, moves nothing newer aside, and leaves what serves.
LEMMA RestStands ==
  ASSUME TypeInv, AuthInv, NEW p \in Ops, UNCHANGED <<plan, current>>,
         \A q \in Ops \ {p} : pc'[q] = pc[q] /\ mem'[q] = mem[q] /\ (Holds(q)' => Holds(q)),
         mem'[p].saw \in {mem[p].saw, current},
         Holds(p)' => Holds(p) \/ pc'[p] \notin Open \cup After,
         pc'[p] \in Open => pc[p] \in Open \/ mem'[p].saw = current,
         pc'[p] \in After => pc[p] \in After /\ mem'[p].saw = mem[p].saw,
         pc[p] \in Secure => pc'[p] \in Secure,
         \A x \in containers' \ containers :
            /\ OfState(x) => x.running /\ x.replaced /\ Holds(p)
            /\ x.proc = "web" /\ x.replaced => x.gen <= current.gen /\ Holds(p),
         \A c \in containers : Base(c) =>
            \E d \in containers' : OfState(d) /\ d.how = c.how /\ d.by = c.by,
         ~Holds(p) => \A c \in Webs : c.by # p /\ c.how = "run" /\ c.gen > current.gen
                                      => c \in containers'
  PROVE  ReadInv' /\ Steady' /\ AsideOld' /\ Served' /\ \A q \in Ops \ {p} : Standing(q)'
<1>0. \A c : OfState(c)' = OfState(c)
  BY DEF OfState
<1>1. ReadInv'
  BY ReadStays DEF AuthInv
<1>2. Steady' /\ AsideOld'
  BY <1>0 DEF AuthInv, Steady, AsideOld
<1>3. Served'
  <2> SUFFICES ASSUME current.hash # NoVer PROVE \E c \in containers' : Base(c)'
    BY DEF Served
  <2>1. PICK c \in containers : Base(c)
    BY DEF AuthInv, Served
  <2>2. PICK d \in containers' : OfState(d) /\ d.how = c.how /\ d.by = c.by
    BY <2>1
  <2>3. c.by \in Makers
    BY DEF TypeInv, Shape, Containers
  <2>4. \A q \in Ops : pc[q] \in Secure => pc'[q] \in Secure
    OBVIOUS
  <2>5. Safe(c)'
    BY <2>1, <2>3, <2>4, SafeStays DEF Base
  <2>6. Safe(d)'
    BY <2>2, <2>5 DEF Safe
  <2> QED
    BY <1>0, <2>2, <2>6 DEF Base
<1>4. \A q \in Ops \ {p} : Standing(q)'
  BY OthersStand
<1> QED
  BY <1>1, <1>2, <1>3, <1>4

\* A step that leaves the containers leaves the rest standing.
LEMMA StillStand ==
  ASSUME TypeInv, AuthInv, NEW p \in Ops, UNCHANGED <<plan, current, containers>>,
         \A q \in Ops \ {p} : pc'[q] = pc[q] /\ mem'[q] = mem[q] /\ (Holds(q)' => Holds(q)),
         mem'[p].saw \in {mem[p].saw, current},
         Holds(p)' => Holds(p) \/ pc'[p] \notin Open \cup After,
         pc'[p] \in Open => pc[p] \in Open \/ mem'[p].saw = current,
         pc'[p] \in After => pc[p] \in After /\ mem'[p].saw = mem[p].saw,
         pc[p] \in Secure => pc'[p] \in Secure
  PROVE  OneName' /\ ReadInv' /\ Steady' /\ AsideOld' /\ Served'
         /\ \A q \in Ops \ {p} : Standing(q)'
<1>1. OneName'
  BY DEF AuthInv, OneName, NameOf
<1>2. \A c \in containers : Base(c) =>
         \E d \in containers' : OfState(d) /\ d.how = c.how /\ d.by = c.by
  BY DEF Base
<1>3. \A c \in Webs : c \in containers'
  BY DEF Webs
<1>4. \A x \in containers' \ containers : FALSE
  OBVIOUS
<1>5. ReadInv' /\ Steady' /\ AsideOld' /\ Served' /\ \A q \in Ops \ {p} : Standing(q)'
  BY <1>2, <1>3, <1>4, RestStands
<1> QED
  BY <1>1, <1>5

\* What a deploy remembers stays modest.
LEMMA ModestStays ==
  ASSUME NEW p \in Ops, Modest(p), UNCHANGED plan, mem'[p].saw = mem[p].saw,
         mem'[p].displaced = mem[p].displaced,
         \A i \in mem'[p].started : i \in mem[p].started \/ (i[1] = p /\ i[2] = "run"),
         \A s \in mem'[p].snap : s \in mem[p].snap \/ s.ver = mem[p].saw.hash,
         pc'[p] \notin Never \cup {"start", "read"},
         pc'[p] \in {"retiring", "byname"} => \A c \in mem'[p].todo : c.ver = mem[p].saw.hash,
         pc'[p] \in Young => mem'[p].started = {},
         pc'[p] \in Asides => SameVersion(p)
  PROVE  Modest(p)'
BY DEF Modest, SameVersion

\* Where a deploy owes nothing but what it remembers.
LEMMA PlainStands ==
  ASSUME NEW p \in Ops, Modest(p)',
         pc'[p] \notin Ready \cup Again \cup Going \cup {"clearing", "unpartial", "restore"}
  PROVE  Standing(p)'
BY DEF Standing, OwnUp, OldAside, ClearsOther, RestartsOther

\* Going on, with what it needs still there.
LEMMA CarryStands ==
  ASSUME TypeInv, AuthInv, NEW p \in Ops, UNCHANGED <<plan, current, containers>>,
         Holds(p)' = Holds(p), mem'[p].saw = mem[p].saw, mem'[p].started = mem[p].started,
         Modest(p)',
         pc'[p] \in Ready => pc[p] \in Ready,
         pc'[p] \in Again => pc[p] \in Again \/ (pc[p] \in Ready \/ mem[p].started = {}),
         pc'[p] \in Going => pc[p] \in Going,
         pc'[p] \notin {"clearing", "unpartial", "restore"}
  PROVE  Standing(p)'
<1>1. Standing(p) /\ From(p)' = From(p) /\ Next_(p)' = Next_(p)
  BY DEF AuthInv, From, Next_
<1>2. Mine(p, "web")' = Mine(p, "web") /\ \A c : NameOf(c)' = NameOf(c)
  BY DEF Mine, NameOf
<1>3. OwnUp(p)'
  BY <1>1, <1>2 DEF Standing, OwnUp, Webs
<1>4. OldAside(p)' /\ ClearsOther(p)' /\ RestartsOther(p)'
  BY <1>1 DEF Standing, OldAside, ClearsOther, RestartsOther
<1> QED
  BY <1>3, <1>4 DEF Standing

\* What a step of this deploy needs of it before, and finds of the others after.
LEMMA StepFrame ==
  ASSUME TypeInv, AuthInv, NEW p \in Ops, DeployStep(p), UNCHANGED holder
  PROVE  /\ UNCHANGED plan /\ Standing(p) /\ OneName /\ ReadInv /\ Modest(p)
         /\ \A q \in Ops \ {p} : pc'[q] = pc[q] /\ mem'[q] = mem[q] /\ (Holds(q)' => Holds(q))
         /\ Holds(p)' = Holds(p)
         /\ DOMAIN mem = Ops /\ DOMAIN mem[p] = Fields
         /\ pc \in [Ops -> Steps \cup Final]
BY StepPlan, OwnPlace, Handy DEF AuthInv, Holds, Standing

\* A deploy that names a container without the lock is blind.
LEMMA NotedHolds ==
  ASSUME NEW p \in Ops, Noted(p), Calm' PROVE Holds(p)
BY DEF Noted, Calm

\* Reading, looking, deciding, and the ends of a deploy.
LEMMA ReadsStand ==
  ASSUME TypeInv, TypeInv', Pristine, Calm, Calm', AuthInv, NEW p \in Ops, UNCHANGED holder,
         \/ ReadState(p) \/ ResolveRoute(p) \/ Reconcile(p) \/ CheckRename(p)
         \/ ConfirmAbsent(p) \/ Snapshot(p) \/ Finish(p) \/ Restored(p)
         \/ RestoreRoute(p) \/ AbortKeep(p)
  PROVE  AuthInv'
<1>1. DeployStep(p)
  BY DEF DeployStep
<1> USE StepFrame, <1>1
<1>2. UNCHANGED <<containers, current>> /\ ~plan[p].recreate
  BY DEF ReadState, ResolveRoute, Reconcile, CheckRename, ConfirmAbsent, Snapshot, Finish,
         Restored, RestoreRoute, AbortKeep, worldVars, Calm, BlueGreen
<1>3. \/ pc[p] = "read" /\ pc'[p] = "resolve" /\ mem'[p].saw = current
      \/ pc[p] = "read" /\ pc'[p] = "release" /\ mem' = mem
      \/ pc[p] \in {"resolve", "reconcile"} /\ pc'[p] \in {"reconcile", "rename", "release"}
      \/ pc[p] = "rename" /\ pc'[p] \in {"snapshot", "release"}
      \/ pc[p] = "rename" /\ pc'[p] = "renaming" /\ SameVersion(p)
      \/ pc[p] = "confirming" /\ pc'[p] \in {"snapshot", "renaming", "release"}
      \/ pc[p] = "snapshot" /\ pc'[p] = "web"
      \/ pc[p] \in {"retiring", "restore"} /\ pc'[p] = "release"
      \/ pc[p] \in {"abortRoute", "abortKeep"} /\ pc'[p] \in {"abortRemove", "abortKeep", "release"}
  BY <1>2 DEF ReadState, ResolveRoute, Reconcile, CheckRename, ConfirmAbsent, Snapshot, Finish,
              Restored, RestoreRoute, AbortKeep, Moved, At, Go, End, Fields
<1>4. /\ mem'[p].saw = mem[p].saw \/ (pc[p] = "read" /\ mem'[p].saw = current)
      /\ \A f \in {"displaced", "started"} : mem'[p][f] = mem[p][f]
      /\ mem'[p].snap \in {mem[p].snap, Predecessors(p)}
      /\ pc[p] = "read" => mem'[p].snap = mem[p].snap
  BY DEF ReadState, ResolveRoute, Reconcile, CheckRename, ConfirmAbsent, Snapshot, Finish,
         Restored, RestoreRoute, AbortKeep, Moved, Fields, At
<1>5. /\ pc'[p] \in Open => pc[p] \in Open \/ mem'[p].saw = current
      /\ pc'[p] \notin After /\ (pc[p] \in Secure => pc'[p] \in Secure)
      /\ pc'[p] \notin Never \cup {"start", "read"}
      /\ pc'[p] \in Young => pc[p] \in Young
      /\ pc'[p] \in Asides => SameVersion(p) /\ mem'[p].saw = mem[p].saw
      /\ pc'[p] \notin Ready \cup Again \cup Going \cup {"clearing", "unpartial", "restore"}
      /\ pc'[p] \notin {"retiring", "byname"}
  BY <1>3, <1>4 DEF Open, After, Secure, Never, Young, Asides, Ready, Again, Going, Modest
<1>6. /\ OneName' /\ ReadInv' /\ Steady' /\ AsideOld' /\ Served'
      /\ \A q \in Ops \ {p} : Standing(q)'
  <2>1. mem'[p].saw \in {mem[p].saw, current}
    BY <1>4
  <2> QED
    BY <1>2, <1>5, <2>1, StillStand
<1>7. Modest(p)'
  <2>1. CASE pc[p] = "read" /\ mem'[p].saw = current
    <3>1. pc'[p] \in {"resolve", "release"}
      BY <1>3, <2>1
    <3>2. /\ mem'[p].displaced = {} /\ mem'[p].started = {} /\ mem'[p].snap = {}
      BY <1>4, <2>1 DEF Modest, Young
    <3> QED
      BY <3>1, <3>2 DEF Modest, Never, Asides
  <2>2. CASE mem'[p].saw = mem[p].saw
    <3>1. \A s \in mem'[p].snap : s \in mem[p].snap \/ s.ver = mem[p].saw.hash
      BY <1>4 DEF Predecessors
    <3>2. pc'[p] \in Young => mem'[p].started = {}
      BY <1>4, <1>5 DEF Modest
    <3> QED
      BY <1>4, <1>5, <2>2, <3>1, <3>2, ModestStays
  <2> QED
    BY <1>4, <2>1, <2>2
<1>8. Standing(p)'
  BY <1>5, <1>7, PlainStands
<1> QED
  BY <1>6, <1>8 DEF AuthInv

\* A look at a _replaced name that did not fail.
LEMMA InspectStands ==
  ASSUME TypeInv, Calm', AuthInv, NEW p \in Ops, UNCHANGED holder, InspectReplaced(p)
  PROVE  AuthInv'
<1>1. /\ DeployStep(p) /\ pc[p] = "renaming" /\ UNCHANGED <<containers, current>>
  BY DEF DeployStep, InspectReplaced, At, worldVars
<1> USE StepFrame, <1>1
<1>2. PICK proc \in mem[p].todo :
        /\ mem' = [mem EXCEPT ![p].proc = proc]
        /\ \/ MayClear(p, proc) /\ Go(p, "clearing")
           \/ End(p, "failed")
           \/ blind' = blind \cup {p}
  BY DEF InspectReplaced
<1>3. /\ mem'[p].proc = proc /\ mem'[p].saw = mem[p].saw
      /\ \A f \in {"displaced", "started", "snap"} : mem'[p][f] = mem[p][f]
      /\ \/ MayClear(p, proc) /\ pc'[p] = "clearing"
         \/ pc'[p] = "release"
  BY <1>2 DEF Fields, Go, End, Calm
<1>4. /\ OneName' /\ ReadInv' /\ Steady' /\ AsideOld' /\ Served'
      /\ \A q \in Ops \ {p} : Standing(q)'
  <2>1. /\ pc'[p] \in Open => pc[p] \in Open
        /\ pc'[p] \notin After /\ pc[p] \notin Secure
    BY <1>3 DEF Open, After, Secure, Asides
  <2> QED
    BY <1>3, <2>1, StillStand
<1>5. Modest(p)'
  <2>1. SameVersion(p) /\ mem[p].started = {}
    BY DEF Modest, Asides, Young
  <2> QED
    BY <1>3, <2>1, ModestStays DEF Never
<1>6. CASE pc'[p] = "release"
  <2>1. Standing(p)'
    BY <1>5, <1>6, PlainStands DEF Ready, Again, Going
  <2> QED
    BY <1>4, <2>1 DEF AuthInv
<1>7. CASE MayClear(p, proc) /\ pc'[p] = "clearing"
  <2>1. \A c \in Named(Renamed(p, proc)) : ~OfState(c)
    BY <1>7 DEF MayClear, AuthInv, Steady, Named
  <2>2. /\ Named(Renamed(p, mem[p].proc))' = Named(Renamed(p, proc))
        /\ \A c : OfState(c)' = OfState(c)
    BY <1>3 DEF Named, NameOf, Renamed, OfState
  <2>3. ClearsOther(p)'
    BY <1>7, <2>1, <2>2 DEF ClearsOther
  <2>4. OwnUp(p)' /\ OldAside(p)' /\ RestartsOther(p)'
    BY <1>7 DEF OwnUp, OldAside, RestartsOther, Ready, Again, Going
  <2> QED
    BY <1>4, <1>5, <2>3, <2>4 DEF Standing, AuthInv
<1> QED
  BY <1>3, <1>6, <1>7

\* The decisions on the way to the commit and after it, and the looks at what
\* holds the candidate's name.
LEMMA DecidesStand ==
  ASSUME TypeInv, Calm, AuthInv, NEW p \in Ops, UNCHANGED <<holder, current>>,
         \/ Health(p) \/ ClearStopped(p) \/ InspectPartial(p)
         \/ Switch(p) \/ Reread(p) \/ Commit(p) \/ RetireStaleRoute(p) \/ Record(p)
         \/ BeginRetire(p)
  PROVE  AuthInv'
<1>1. DeployStep(p)
  BY DEF DeployStep
<1> USE StepFrame, <1>1
<1>2. UNCHANGED containers /\ ~plan[p].recreate
  BY DEF Health, ClearStopped, InspectPartial, Switch, Reread, Commit, RetireStaleRoute, Record,
         BeginRetire, worldVars, Calm, BlueGreen
<1>3. /\ mem'[p].saw = mem[p].saw
      /\ \A f \in {"displaced", "started", "snap"} : mem'[p][f] = mem[p][f]
  BY DEF Health, ClearStopped, InspectPartial, Switch, Reread, Commit, RetireStaleRoute, Record,
         BeginRetire, Fields
<1>4. \/ pc[p] \in Ready /\ pc'[p] \in Ready \cup {"clean", "abortRoute", "release"}
      \/ pc[p] = "occupied" /\ pc'[p] \in {"partial", "vacate", "rerun"}
      \/ InspectPartial(p) /\ pc[p] = "partial" /\ pc'[p] \in {"clean", "unpartial"}
      \/ pc[p] = "stale" /\ pc'[p] = "record"
      \/ pc[p] = "record" /\ pc'[p] = "retire"
      \/ BeginRetire(p) /\ pc[p] = "retire" /\ pc'[p] \in {"retiring", "byname"}
      \/ pc[p] = "commit" /\ pc'[p] = "stale" /\ current' = NewState(p) /\ MayCommit(p)
  BY <1>2 DEF Health, ClearStopped, InspectPartial, Switch, Reread, Commit, RetireStaleRoute,
              Record, BeginRetire, At, Go, End, Ready
<1>5. ~(current' = NewState(p) /\ MayCommit(p))
  <2>1. ASSUME current' = NewState(p), MayCommit(p) PROVE FALSE
    <3>1. current.gen <= From(p) /\ current.gen = From(p) + 1
      BY <2>1 DEF MayCommit, NewState, Next_
    <3> QED
      BY <3>1, Vocabulary DEF TypeInv, TypeOK, States
  <2> QED
    BY <2>1
<1>6. /\ pc'[p] \in Open => pc[p] \in Open
      /\ pc'[p] \in After => pc[p] \in After
      /\ pc'[p] \in Going => pc[p] \in Going
      /\ pc[p] \in Secure => pc'[p] \in Secure
      /\ pc'[p] \in Ready => pc[p] \in Ready
      /\ pc'[p] \in Again => pc[p] \in Again
      /\ pc'[p] \notin {"clearing", "restore"}
      /\ pc'[p] \notin Never \cup Young \cup Asides
  BY <1>4, <1>5 DEF Ready, Open, After, Going, Secure, Never, Young, Asides, Again
<1>7. /\ OneName' /\ ReadInv' /\ Steady' /\ AsideOld' /\ Served'
      /\ \A q \in Ops \ {p} : Standing(q)'
  BY <1>2, <1>3, <1>6, StillStand
<1>8. Modest(p)'
  <2>1. pc'[p] \in {"retiring", "byname"} => \A c \in mem'[p].todo : c.ver = mem[p].saw.hash
    <3>1. pc'[p] \in {"retiring", "byname"} => BeginRetire(p)
      BY <1>4, <1>5 DEF Ready
    <3>2. BeginRetire(p) => mem'[p].todo \in {mem[p].snap, {}, Predecessors(p)}
      BY DEF BeginRetire, Fields
    <3>3. \A c \in mem[p].snap \cup Predecessors(p) : c.ver = mem[p].saw.hash
      BY DEF Modest, Predecessors
    <3> QED
      BY <3>1, <3>2, <3>3
  <2> QED
    BY <1>3, <1>6, <2>1, ModestStays DEF Young
<1>9. Standing(p)'
  <2>1. CASE pc'[p] # "unpartial"
    BY <1>2, <1>3, <1>6, <1>8, <2>1, CarryStands
  <2>2. CASE pc'[p] = "unpartial"
    <3>1. InspectPartial(p)
      BY <1>4, <1>5, <2>2 DEF Ready
    <3>2. PICK c \in Named(Mine(p, NextProc(p))) : ~c.running
      BY <2>2, <3>1 DEF InspectPartial, Go
    <3>3. \A d \in Named(Mine(p, NextProc(p))) : ~OfState(d)
      BY <3>2 DEF Named, OneName, AuthInv, Steady
    <3>4. /\ Named(Mine(p, NextProc(p)))' = Named(Mine(p, NextProc(p)))
          /\ \A d : OfState(d)' = OfState(d)
      BY <1>2, <1>3 DEF Named, NameOf, Mine, NextProc, OfState
    <3>5. ClearsOther(p)'
      BY <2>2, <3>3, <3>4 DEF ClearsOther
    <3>6. OwnUp(p)' /\ OldAside(p)' /\ RestartsOther(p)'
      BY <2>2 DEF OwnUp, OldAside, RestartsOther, Ready, Again, Going
    <3> QED
      BY <1>8, <3>5, <3>6 DEF Standing
  <2> QED
    BY <2>1, <2>2
<1> QED
  BY <1>7, <1>9 DEF AuthInv

\* What a name bears goes, none of it the authority's.
LEMMA RemovedStands ==
  ASSUME TypeInv, AuthInv, NEW p \in Ops, DeployStep(p), UNCHANGED <<holder, current, mem>>,
         Holds(p), NEW gone \in SUBSET containers, \A c \in gone : ~OfState(c),
         containers' \in {containers \ gone, containers},
         pc[p] \in Open, pc'[p] \in {"moving", "clean"}, pc'[p] = "moving" => SameVersion(p),
         pc'[p] = "moving" => mem[p].started = {}
  PROVE  AuthInv'
<1> USE StepFrame
<1>1. OneName'
  BY DEF OneName, NameOf
<1>2. /\ pc'[p] \in Open => pc[p] \in Open
      /\ pc'[p] \notin After /\ pc[p] \notin Secure
      /\ pc'[p] \notin Never \cup {"start", "read", "retiring", "byname"}
      /\ pc'[p] \in Young => pc'[p] = "moving"
      /\ pc'[p] \in Asides => pc'[p] = "moving"
      /\ pc'[p] \notin Ready \cup Again \cup Going \cup {"clearing", "unpartial", "restore"}
  BY Places DEF After, Never, Young, Asides, Ready, Again, Going, Open, Secure
<1>3. ReadInv' /\ Steady' /\ AsideOld' /\ Served' /\ \A q \in Ops \ {p} : Standing(q)'
  <2>1. \A c \in containers : Base(c) =>
          \E d \in containers' : OfState(d) /\ d.how = c.how /\ d.by = c.by
    BY DEF Base
  <2>2. \A x \in containers' \ containers : FALSE
    OBVIOUS
  <2> QED
    BY <1>2, <2>1, <2>2, RestStands
<1>4. Modest(p)'
  BY <1>2, ModestStays
<1>5. Standing(p)'
  BY <1>2, <1>4, PlainStands
<1> QED
  BY <1>1, <1>3, <1>5 DEF AuthInv

\* The two removals by name, by a holder.
LEMMA NamedGoes ==
  ASSUME TypeInv, Calm', AuthInv, NEW p \in Ops, UNCHANGED holder,
         ClearReplaced(p) \/ RemovePartial(p)
  PROVE  AuthInv'
<1>1. /\ DeployStep(p) /\ UNCHANGED <<current, mem>> /\ Noted(p)
  BY DEF DeployStep, ClearReplaced, RemovePartial
<1> USE StepFrame, <1>1
<1>2. Holds(p)
  BY NotedHolds
<1>3. CASE ClearReplaced(p)
  <2>1. pc[p] = "clearing" /\ pc'[p] = "moving"
    BY <1>3 DEF ClearReplaced, At, Go
  <2>2. \A c \in Named(Renamed(p, mem[p].proc)) : c \in containers /\ ~OfState(c)
    BY <1>2, <2>1 DEF Standing, ClearsOther, Named
  <2>3. containers' \in {containers \ Named(Renamed(p, mem[p].proc)), containers}
    BY <1>3 DEF ClearReplaced, Swap
  <2>4. SameVersion(p) /\ mem[p].started = {} /\ pc[p] \in Open
    BY <2>1 DEF Modest, Asides, Young, Open
  <2> QED
    BY <1>2, <2>1, <2>2, <2>3, <2>4, RemovedStands
<1>4. CASE RemovePartial(p)
  <2>1. pc[p] = "unpartial" /\ pc'[p] = "clean"
    BY <1>4 DEF RemovePartial, At, Go
  <2>2. \A c \in Named(Mine(p, NextProc(p))) : c \in containers /\ ~OfState(c)
    BY <1>2, <2>1 DEF Standing, ClearsOther, Named
  <2>3. containers' \in {containers \ Named(Mine(p, NextProc(p))), containers}
    BY <1>4 DEF RemovePartial, Swap
  <2>4. pc[p] \in Open
    BY <2>1 DEF Open
  <2> QED
    BY <1>2, <2>1, <2>2, <2>3, <2>4, RemovedStands
<1> QED
  BY <1>3, <1>4

\* What stands in the way of a run and does not run goes, whoever removes it.
LEMMA VacateStands ==
  ASSUME TypeInv, AuthInv, NEW p \in Ops, UNCHANGED holder, Vacate(p)
  PROVE  AuthInv'
<1>1. /\ DeployStep(p) /\ UNCHANGED <<current, mem>> /\ pc[p] = "vacate"
      /\ pc'[p] \in {"rerun", "partial"}
  BY Handy DEF DeployStep, Vacate, At, Go
<1> USE StepFrame, <1>1
<1>2. /\ containers' \subseteq containers
      /\ \A c \in containers : c.running => c \in containers'
  BY DEF Vacate, Swap
<1>3. OneName'
  BY <1>2 DEF OneName, NameOf
<1>4. /\ pc'[p] \in Open => pc[p] \in Open
      /\ pc'[p] \notin After /\ pc[p] \notin Secure
      /\ pc'[p] \notin Never \cup {"start", "read", "retiring", "byname"}
      /\ pc'[p] \notin Young \cup Asides \cup Ready \cup Going
      /\ pc'[p] \notin {"clearing", "unpartial", "restore"}
  BY DEF After, Never, Young, Asides, Ready, Going, Open, Secure
<1>5. ReadInv' /\ Steady' /\ AsideOld' /\ Served' /\ \A q \in Ops \ {p} : Standing(q)'
  <2>1. \A c \in containers : Base(c) =>
          \E d \in containers' : OfState(d) /\ d.how = c.how /\ d.by = c.by
    BY <1>2 DEF Base, AuthInv, Steady
  <2>2. (\A x \in containers' \ containers : FALSE) /\ \A c \in Webs : c \in containers'
    BY <1>2 DEF Webs
  <2> QED
    BY <1>4, <2>1, <2>2, RestStands
<1>6. Modest(p)'
  BY <1>4, ModestStays
<1>7. OwnUp(p)'
  <2> SUFFICES ASSUME Holds(p), mem[p].started # {}
               PROVE  \E c \in Webs' : /\ c.by = p /\ c.how = "run" /\ NameOf(c) = Mine(p, "web")
                                       /\ c.gen = Next_(p)
    BY <1>4 DEF OwnUp, NameOf, Mine, Next_, From
  <2>1. PICK c \in Webs : /\ c.by = p /\ c.how = "run" /\ NameOf(c) = Mine(p, "web")
                          /\ c.gen = Next_(p)
    BY DEF Standing, OwnUp, Again
  <2> QED
    BY <1>2, <2>1 DEF Webs
<1>8. OldAside(p)' /\ ClearsOther(p)' /\ RestartsOther(p)'
  BY <1>4 DEF OldAside, ClearsOther, RestartsOther
<1> QED
  BY <1>3, <1>5, <1>6, <1>7, <1>8 DEF Standing, AuthInv

\* A redeploy by the holder moves the serving container aside, and it serves on.
LEMMA RenameStands ==
  ASSUME TypeInv, Calm', AuthInv, NEW p \in Ops, UNCHANGED holder, Rename(p)
  PROVE  AuthInv'
<1>1. DeployStep(p) /\ UNCHANGED current /\ pc[p] = "moving" /\ Noted(p)
  BY DEF DeployStep, Rename, At
<1> USE StepFrame, <1>1
<1> DEFINE F == Named(Mine(p, mem[p].proc))
           T == Named(Renamed(p, mem[p].proc))
           Put(c) == [c EXCEPT !.replaced = TRUE]
<1>2. /\ mem'[p].saw = mem[p].saw
      /\ \A f \in {"displaced", "started", "snap"} : mem'[p][f] = mem[p][f]
  BY DEF Rename, Moved, Fields
<1>3. /\ pc'[p] \in {"snapshot", "renaming", "confirming"}
      /\ \/ UNCHANGED containers
         \/ T = {} /\ containers' = (containers \ F) \cup {Put(c) : c \in F}
  BY DEF Rename, Moved, Go, Swap
<1>4. /\ Holds(p) /\ UpToDate(p) /\ SameVersion(p) /\ mem[p].started = {}
      /\ current.hash = plan[p].ver /\ current.hash # NoVer
  <2>1. Holds(p)
    BY NotedHolds
  <2>2. UpToDate(p) /\ SameVersion(p) /\ mem[p].started = {}
    BY <2>1, HolderReads DEF Modest, Open, Asides, Young
  <2> QED
    BY <2>1, <2>2, Vocabulary, DeployAssumption DEF UpToDate, SameVersion
<1>5. Standing(p)'
  <2>1. Modest(p)'
    BY <1>2, <1>3, <1>4, ModestStays DEF Never
  <2> QED
    BY <1>3, <2>1, PlainStands DEF Ready, Again, Going
<1>6. /\ pc'[p] \in Open /\ pc[p] \in Open /\ pc'[p] \notin After /\ pc[p] \notin Secure
  BY <1>3 DEF Open, Asides, After, Secure
<1>7. CASE UNCHANGED containers
  <2>1. /\ OneName' /\ ReadInv' /\ Steady' /\ AsideOld' /\ Served'
        /\ \A q \in Ops \ {p} : Standing(q)'
    BY <1>2, <1>6, <1>7, StillStand
  <2> QED
    BY <1>5, <2>1 DEF AuthInv
<1>8. CASE T = {} /\ containers' = (containers \ F) \cup {Put(c) : c \in F}
  <2>1. /\ F \subseteq containers
        /\ \A c \in F : c.ver = plan[p].ver /\ c.proc = mem[p].proc
        /\ \A c \in containers : /\ c \in F <=> NameOf(c) = Mine(p, mem[p].proc)
                                 /\ NameOf(c) # Renamed(p, mem[p].proc)
    BY <1>8 DEF Named, NameOf, Name, Mine
  <2>2. \A c \in F : /\ Put(c).ver = c.ver /\ Put(c).proc = c.proc /\ Put(c).gen = c.gen
                     /\ Put(c).by = c.by /\ Put(c).how = c.how
                     /\ Put(c).running = c.running /\ Put(c).replaced = TRUE
                     /\ NameOf(Put(c)) = Renamed(p, mem[p].proc)
    BY <2>1 DEF TypeInv, Shape, Containers, NameOf, Name, Renamed
  <2>3. \A c, d \in F : c = d
    BY <2>1 DEF OneName
  <2> HIDE DEF F, T, Put
  <2>4. OneName'
    <3>1. \A x \in containers' : x \in containers \ F \/ \E c \in F : x = Put(c)
      BY <1>8
    <3>2. \A x \in containers, c \in F : NameOf(x) # NameOf(Put(c))
      BY <2>1, <2>2
    <3> QED
      BY <2>3, <3>1, <3>2 DEF OneName, NameOf
  <2>5. PICK b \in containers : Base(b)
    BY <1>4 DEF AuthInv, Served
  <2>6. /\ b.running /\ b.proc = "web" /\ b.ver = plan[p].ver
        /\ b.gen = current.gen
    BY <1>4, <2>5 DEF Base, OfState, AuthInv, Steady
  <2>7. mem[p].proc = "web" => F = {b}
    <3> SUFFICES ASSUME mem[p].proc = "web" PROVE b \in F
      BY <2>3
    <3>1. b.replaced \in BOOLEAN
      BY DEF TypeInv, Shape, Containers
    <3> QED
      BY <2>1, <2>6, <3>1 DEF NameOf, Name, Mine, Renamed
  <2>8. ASSUME NEW x \in containers' \ containers
        PROVE  /\ OfState(x) => x.running /\ x.replaced
               /\ x.proc = "web" /\ x.replaced => x.gen <= current.gen
    <3>1. PICK c \in F : x = Put(c)
      BY <1>8, <2>8
    <3>2. x.proc = "web" => c = b
      BY <2>1, <2>2, <2>7, <3>1
    <3>3. x.proc = "web" => x.running /\ x.replaced /\ x.gen = current.gen
      BY <2>2, <2>6, <3>1, <3>2
    <3>4. current.gen <= current.gen
      BY DEF TypeInv, TypeOK, States
    <3> QED
      BY <3>3, <3>4 DEF OfState
  <2>9. ASSUME NEW c \in containers, Base(c)
        PROVE  \E d \in containers' : OfState(d) /\ d.how = c.how /\ d.by = c.by
    <3>1. CASE c \in F
      <4>1. Put(c) \in containers'
        BY <1>8, <3>1
      <4> QED
        BY <2>2, <2>9, <3>1, <4>1 DEF Base, OfState
    <3>2. CASE c \notin F
      BY <1>8, <2>9, <3>2 DEF Base
    <3> QED
      BY <3>1, <3>2
  <2>10. ReadInv' /\ Steady' /\ AsideOld' /\ Served' /\ \A q \in Ops \ {p} : Standing(q)'
    BY <1>2, <1>4, <1>6, <2>8, <2>9, RestStands
  <2> QED
    BY <1>5, <2>4, <2>10 DEF AuthInv
<1> QED
  BY <1>3, <1>7, <1>8

\* A start removes nothing, and what it makes is of the next generation.
LEMMA StartsStand ==
  ASSUME TypeInv, AuthInv, NEW p \in Ops, UNCHANGED holder,
         StartWeb(p) \/ StartWorker(p) \/ Rerun(p)
  PROVE  AuthInv'
<1>1. DeployStep(p) /\ UNCHANGED current
  BY DEF DeployStep, StartWeb, StartWorker, Rerun
<1> USE StepFrame, <1>1
<1>2. PICK proc \in Procs, taken \in {"occupied", "partial"},
           next \in {"health", "switch", "clean"} :
        /\ Run(p, proc, taken, next)
        /\ \/ pc[p] = "web" /\ proc = "web"
           \/ pc[p] = "worker" /\ proc = "worker"
           \/ pc[p] = "rerun" /\ proc = NextProc(p) /\ taken = "partial"
  BY DEF StartWeb, StartWorker, Rerun, At, Procs, Tried, NextProc
<1> DEFINE new == Container(p, proc, Next_(p))
           n == Mine(p, proc)
<1>3. /\ new.running /\ new.by = p /\ new.how = "run" /\ new.gen = Next_(p) /\ ~new.replaced
      /\ new.proc = proc /\ NameOf(new) = n /\ IdOf(new)[1] = p /\ IdOf(new)[2] = "run"
      /\ Stopped(new).gen = Next_(p) /\ Stopped(new).replaced = FALSE /\ NameOf(Stopped(new)) = n
  BY DEF Container, NameOf, Mine, Name, IdOf, Stopped
<1> HIDE DEF new
<1>4. /\ mem'[p].saw = mem[p].saw
      /\ \A f \in {"displaced", "snap"} : mem'[p][f] = mem[p][f]
      /\ \A i \in mem'[p].started : i \in mem[p].started \/ i = IdOf(new)
      /\ mem[p].started \subseteq mem'[p].started
  BY <1>2 DEF Run, Fields, new
<1>5. /\ \/ containers' = containers /\ pc'[p] \in {"clean", "occupied", "partial"}
            /\ mem'[p].started = mem[p].started
         \/ /\ Holds(p) /\ Named(n) = {} /\ containers' = containers \cup {new} /\ pc'[p] = next
         \/ /\ Holds(p) /\ Named(n) = {} /\ pc'[p] = "partial"
            /\ containers' = containers \cup {Stopped(new)}
         \/ /\ Holds(p) /\ Named(n) = {} /\ pc'[p] = "partial"
            /\ containers' = containers \cup {new}
      /\ pc'[p] = "occupied" => pc[p] # "rerun"
  BY <1>2 DEF Run, Go, Swap, new, Fields
<1>6. /\ containers \subseteq containers'
      /\ \A x \in containers' \ containers : /\ Holds(p) /\ Named(n) = {}
                                             /\ x.gen = Next_(p) /\ ~x.replaced /\ NameOf(x) = n
  BY <1>3, <1>5
<1>7. OneName'
  <2>1. \A x, y \in containers' \ containers : x = y
    BY <1>5
  <2>2. \A x \in containers' \ containers, y \in containers : NameOf(x) # NameOf(y)
    BY <1>6 DEF Named
  <2> QED
    BY <2>1, <2>2 DEF OneName, NameOf
<1>8. /\ pc[p] \in {"web", "worker", "rerun"}
      /\ pc'[p] \in {"health", "switch", "clean", "occupied", "partial"}
  BY <1>2, <1>5
<1>9. /\ pc'[p] \in Open /\ pc[p] \in Open /\ pc'[p] \notin After /\ pc[p] \notin Secure
      /\ pc'[p] \notin Never \cup {"start", "read", "retiring", "byname"}
      /\ pc'[p] \notin Young \cup Asides \cup Going
      /\ pc'[p] \notin {"clearing", "unpartial", "restore"}
  BY <1>8 DEF Open, Asides, After, Secure, Never, Young, Going
<1>10. ReadInv' /\ Steady' /\ AsideOld' /\ Served' /\ \A q \in Ops \ {p} : Standing(q)'
  <2>1. \A x \in containers' \ containers : ~x.replaced /\ ~OfState(x)
    <3>1. Holds(p) => Next_(p) # current.gen
      BY <1>9, HolderReads
    <3> QED
      BY <1>6, <3>1 DEF OfState
  <2>2. \A c \in containers : Base(c) =>
          \E d \in containers' : OfState(d) /\ d.how = c.how /\ d.by = c.by
    BY <1>6 DEF Base
  <2>3. \A c \in Webs : c \in containers'
    BY <1>6 DEF Webs
  <2> QED
    BY <1>4, <1>9, <2>1, <2>2, <2>3, RestStands
<1>11. Modest(p)'
  BY <1>3, <1>4, <1>9, ModestStays
<1>12. OwnUp(p)'
  <2> SUFFICES ASSUME Holds(p), \/ pc'[p] \in {"health", "switch"}
                                \/ pc'[p] = "occupied" /\ mem'[p].started # {}
               PROVE  \E c \in Webs' : /\ c.by = p /\ c.how = "run" /\ NameOf(c) = Mine(p, "web")
                                       /\ c.gen = Next_(p)
    BY <1>4, <1>8 DEF OwnUp, Ready, Again, NameOf, Mine, Next_, From
  <2>1. CASE containers' = containers \cup {new} /\ proc = "web"
    BY <1>3, <2>1 DEF Webs
  <2>2. CASE ~(containers' = containers \cup {new} /\ proc = "web")
    <3>1. pc[p] \in Ready \/ (pc[p] = "rerun" /\ mem[p].started # {})
      <4>1. CASE pc[p] = "web"
        BY <1>2, <1>5, <2>2, <4>1 DEF Modest, Young
      <4>2. CASE pc[p] = "worker"
        BY <4>2 DEF Ready
      <4>3. CASE pc[p] = "rerun"
        BY <1>2, <1>5, <2>2, <4>3 DEF NextProc
      <4> QED
        BY <1>8, <4>1, <4>2, <4>3
    <3>2. PICK c \in Webs : /\ c.by = p /\ c.how = "run" /\ NameOf(c) = Mine(p, "web")
                            /\ c.gen = Next_(p)
      BY <3>1 DEF Standing, OwnUp, Again
    <3> QED
      BY <1>6, <3>2 DEF Webs
  <2> QED
    BY <2>1, <2>2
<1>13. OldAside(p)' /\ ClearsOther(p)' /\ RestartsOther(p)'
  BY <1>9 DEF OldAside, ClearsOther, RestartsOther
<1> QED
  BY <1>7, <1>10, <1>11, <1>12, <1>13 DEF Standing, AuthInv

-----------------------------------------------------------------------------
(* What stops and removes containers.                                      *)

\* Stopping or removing what is older, or of another release, under the lock.
LEMMA RetiresStand ==
  ASSUME TypeInv, AuthInv, NEW p \in Ops, DeployStep(p), UNCHANGED <<holder, current>>,
         Holds(p), pc[p] \in {"retiring", "byname"}, pc'[p] = "retiring",
         mem'[p].saw = mem[p].saw, Modest(p)',
         NEW gone \in SUBSET containers,
         \/ containers' = containers \ gone
         \/ containers' = (containers \ gone) \cup {Stopped(c) : c \in gone},
         \A c \in gone : ~OfState(c)
  PROVE  AuthInv'
<1> USE StepFrame
<1>1. OneName'
  BY StopsKeepNames
<1>2. \A c \in gone : /\ ~OfState(Stopped(c)) /\ Stopped(c).proc = c.proc
                      /\ Stopped(c).replaced = c.replaced /\ Stopped(c).gen = c.gen
  BY DEF Stopped, OfState, TypeInv, Shape, Containers
<1>3. \A x \in containers' \ containers :
         /\ OfState(x) => x.running /\ x.replaced /\ Holds(p)
         /\ x.proc = "web" /\ x.replaced => x.gen <= current.gen /\ Holds(p)
  <2> SUFFICES ASSUME NEW c \in gone
               PROVE  /\ ~OfState(Stopped(c))
                      /\ Stopped(c).proc = "web" /\ Stopped(c).replaced
                         => Stopped(c).gen <= current.gen
    OBVIOUS
  <2> QED
    BY <1>2 DEF AuthInv, AsideOld
<1>4. \A c \in containers : Base(c) =>
         \E d \in containers' : OfState(d) /\ d.how = c.how /\ d.by = c.by
  <2>1. \A c \in containers \ gone : c \in containers'
    OBVIOUS
  <2> QED
    BY <2>1 DEF Base
<1>5. /\ pc'[p] \notin Open /\ pc[p] \in After /\ pc'[p] \in Secure
      /\ pc'[p] \notin Ready \cup Again \cup Going \cup {"clearing", "unpartial", "restore"}
  BY DEF Open, Asides, After, Secure, Ready, Again, Going
<1>6. ReadInv' /\ Steady' /\ AsideOld' /\ Served' /\ \A q \in Ops \ {p} : Standing(q)'
  BY <1>3, <1>4, <1>5, RestStands
<1>7. Standing(p)'
  BY <1>5, PlainStands
<1> QED
  BY <1>1, <1>6, <1>7 DEF AuthInv

\* A retirement under the guard ends nothing of the generation committed.
LEMMA RetireStands ==
  ASSUME TypeInv, AuthInv, NEW p \in Ops, UNCHANGED holder, Retire(p)
  PROVE  AuthInv'
<1>1. DeployStep(p) /\ UNCHANGED <<current, pc>> /\ pc[p] = "retiring"
  BY DEF DeployStep, Retire, At
<1> USE StepFrame, <1>1
<1>2. PICK c \in mem[p].todo :
        LET there == Identified(IdOf(c))
            gone == {x \in there : NotNewer(x, From(p))}
        IN \/ /\ Holds(p) /\ gone # {}
              /\ Swap(gone, IF SameVersion(p) THEN {} ELSE {Stopped(x) : x \in gone})
              /\ mem' = [mem EXCEPT ![p].todo = @ \ {c}]
           \/ /\ Holds(p) /\ gone # {} /\ "stop" \in Faults
              /\ Swap(gone, {Stopped(x) : x \in gone})
              /\ mem' = [mem EXCEPT ![p].todo = @ \ {c}, ![p].flaw = TRUE]
           \/ /\ Holds(p) /\ (gone = {} \/ "stop" \in Faults)
              /\ mem' = [mem EXCEPT ![p].todo = @ \ {c}, ![p].flaw = TRUE]
              /\ UNCHANGED containers
           \/ /\ ~Holds(p)
              /\ mem' = [mem EXCEPT ![p].todo = {}, ![p].flaw = TRUE]
              /\ UNCHANGED containers
  BY DEF Retire
<1> DEFINE gone == {x \in Identified(IdOf(c)) : NotNewer(x, From(p))}
<1>3. /\ mem'[p].saw = mem[p].saw /\ mem'[p].todo \subseteq mem[p].todo
      /\ \A f \in {"displaced", "started", "snap"} : mem'[p][f] = mem[p][f]
  BY <1>2 DEF Fields
<1>4. Modest(p)'
  <2>1. \A x \in mem'[p].todo : x.ver = mem[p].saw.hash
    BY <1>3 DEF Modest
  <2> QED
    BY <1>3, <2>1, ModestStays DEF Never, Young, Asides
<1>5. CASE UNCHANGED containers
  <2>1. Standing(p)'
    BY <1>4, PlainStands DEF Ready, Again, Going
  <2>2. /\ OneName' /\ ReadInv' /\ Steady' /\ AsideOld' /\ Served'
        /\ \A q \in Ops \ {p} : Standing(q)'
    BY <1>3, <1>5, StillStand DEF Open, Asides
  <2> QED
    BY <2>1, <2>2 DEF AuthInv
<1>6. CASE /\ Holds(p)
           /\ \/ containers' = containers \ gone
              \/ containers' = (containers \ gone) \cup {Stopped(x) : x \in gone}
  <2>1. current.gen = From(p) + 1 /\ From(p) \in Nat
    BY <1>6, HolderLeft DEF After
  <2>2. \A x \in gone : x \in containers /\ x.gen <= From(p) /\ x.gen \in Nat
    BY DEF Identified, NotNewer, TypeInv, Shape, Containers
  <2> HIDE DEF gone
  <2>3. \A x \in gone : ~OfState(x)
    BY <2>1, <2>2 DEF OfState
  <2>4. gone \in SUBSET containers
    BY <2>2
  <2> QED
    BY <1>3, <1>4, <1>6, <2>3, <2>4, RetiresStand
<1> QED
  BY <1>2, <1>5, <1>6 DEF Swap

\* A retirement by name under the lock: what was committed bears another name.
LEMMA ByNameStands ==
  ASSUME TypeInv, Calm', AuthInv, NEW p \in Ops, UNCHANGED holder, RetireByName(p)
  PROVE  AuthInv'
<1>1. /\ DeployStep(p) /\ UNCHANGED current /\ pc[p] = "byname" /\ pc'[p] = "retiring"
      /\ Noted(p)
  BY Handy DEF DeployStep, RetireByName, At, Go
<1> USE StepFrame, <1>1
<1>0. Holds(p)
  BY NotedHolds
<1> DEFINE names == {Name(mem[p].saw.hash, proc, SameVersion(p)) : proc \in ProcsOf(p)}
           old == {c \in containers : NameOf(c) \in names}
<1>2. /\ mem'[p].saw = mem[p].saw /\ mem'[p].todo = mem[p].todo
      /\ \A f \in {"displaced", "started", "snap"} : mem'[p][f] = mem[p][f]
      /\ containers' = (containers \ old)
                        \cup (IF SameVersion(p) THEN {} ELSE {Stopped(c) : c \in old})
  BY DEF RetireByName, Fields, Swap
<1>3. \A c \in old : c \in containers /\ c.ver = mem[p].saw.hash /\ c.replaced = SameVersion(p)
  BY DEF NameOf, Name
<1> HIDE DEF old
<1>4. current.gen = From(p) + 1 /\ From(p) \in Nat /\ current.hash = plan[p].ver
  BY <1>0, HolderLeft DEF After
<1>5. Modest(p)'
  <2>1. \A x \in mem'[p].todo : x.ver = mem[p].saw.hash
    BY <1>2 DEF Modest
  <2> QED
    BY <1>2, <2>1, ModestStays DEF Never, Young, Asides
<1>6. ASSUME NEW c \in old PROVE ~OfState(c)
  <2>1. CASE SameVersion(p)
    <3>1. c.proc = "web" => c.gen <= From(p)
      BY <1>0, <1>3, <2>1 DEF Standing, OldAside, Going
    <3> QED
      BY <1>4, <3>1 DEF OfState
  <2>2. CASE ~SameVersion(p)
    BY <1>3, <1>4, <2>2 DEF OfState, SameVersion
  <2> QED
    BY <2>1, <2>2
<1>7. old \in SUBSET containers
  BY <1>3
<1>8. \/ containers' = containers \ old
      \/ containers' = (containers \ old) \cup {Stopped(c) : c \in old}
  BY <1>2
<1> QED
  BY <1>0, <1>2, <1>5, <1>6, <1>7, <1>8, RetiresStand

\* What a deploy that has not committed removes of its own is nobody's stay.
LEMMA OwnGoes ==
  ASSUME TypeInv, AuthInv, NEW p \in Ops, UNCHANGED <<holder, current>>, DeployStep(p),
         pc[p] \in {"clean", "abortRemove"}, pc'[p] \in {"restore", "release"},
         pc'[p] = "restore" => pc[p] = "clean",
         mem'[p].saw = mem[p].saw, NEW gone \in SUBSET containers,
         containers' = containers \ gone, \A c \in gone : IdOf(c) \in mem[p].started
  PROVE  /\ OneName' /\ ReadInv' /\ Steady' /\ AsideOld' /\ Served'
         /\ \A q \in Ops \ {p} : Standing(q)'
<1> USE StepFrame
<1>1. ASSUME NEW c \in gone PROVE c.by = p /\ c.how = "run"
  <2>1. IdOf(c)[1] = p /\ IdOf(c)[2] = "run"
    BY DEF Modest
  <2> QED
    BY <2>1 DEF IdOf
<1>2. \A c \in gone : ~Safe(c)
  BY <1>1, DeployAssumption DEF Safe, Secure, After
<1>3. OneName'
  BY StopsKeepNames
<1>4. ReadInv' /\ Steady' /\ AsideOld' /\ Served' /\ \A q \in Ops \ {p} : Standing(q)'
  <2>1. \A x \in containers' \ containers : FALSE
    OBVIOUS
  <2>2. \A c \in Webs : c.by # p => c \in containers'
    BY <1>1 DEF Webs
  <2>3. \A c \in containers : Base(c) =>
          \E d \in containers' : OfState(d) /\ d.how = c.how /\ d.by = c.by
    BY <1>2 DEF Base
  <2>4. /\ pc'[p] \in Open => pc[p] \in Open
        /\ pc'[p] \notin After /\ pc[p] \notin Secure
    BY DEF Open, Asides, After, Secure
  <2> QED
    BY <2>1, <2>2, <2>3, <2>4, RestStands
<1> QED
  BY <1>3, <1>4

\* The undo before the commit: what it is to restart has stopped, and the
\* authority's has not.
LEMMA CleanStands ==
  ASSUME TypeInv, AuthInv, NEW p \in Ops, UNCHANGED holder, Clean_(p)
  PROVE  AuthInv'
<1>1. /\ DeployStep(p) /\ UNCHANGED current /\ pc[p] = "clean" /\ pc'[p] = "restore"
  BY Handy DEF DeployStep, Clean_, At, Go
<1> USE StepFrame, <1>1
<1>2. PICK stuck : LET gone == {c \in containers : IdOf(c) \in mem[p].started \ stuck}
                   IN /\ Swap(gone, {})
                      /\ mem' = [mem EXCEPT ![p].todo = Displaced(p, containers \ gone),
                                            ![p].flaw = {IdOf(c) : c \in gone} # mem[p].started]
  BY DEF Clean_
<1> DEFINE gone == {c \in containers : IdOf(c) \in mem[p].started \ stuck}
<1>3. /\ containers' = containers \ gone /\ mem'[p].todo = Displaced(p, containers \ gone)
      /\ mem'[p].saw = mem[p].saw
      /\ \A f \in {"displaced", "started", "snap"} : mem'[p][f] = mem[p][f]
      /\ gone \subseteq containers /\ \A c \in gone : IdOf(c) \in mem[p].started
  BY <1>2 DEF Swap, Fields
<1> HIDE DEF gone
<1>4. /\ OneName' /\ ReadInv' /\ Steady' /\ AsideOld' /\ Served'
      /\ \A q \in Ops \ {p} : Standing(q)'
  BY <1>3, OwnGoes
<1>5. Modest(p)'
  BY <1>3, ModestStays DEF Never, Young, Asides
<1>6. RestartsOther(p)'
  <2>1. \A n \in mem'[p].todo : \E x \in containers : NameOf(x) = n /\ ~x.running
    BY <1>3 DEF Displaced, Modest
  <2>2. ASSUME NEW n \in mem'[p].todo, NEW c \in containers', NameOf(c) = n PROVE ~OfState(c)
    <3>1. ~c.running
      BY <1>3, <2>1, <2>2 DEF OneName
    <3> QED
      BY <1>3, <2>2, <3>1 DEF AuthInv, Steady
  <2>3. \A c : OfState(c)' = OfState(c) /\ NameOf(c)' = NameOf(c)
    BY DEF OfState, NameOf
  <2> QED
    BY <2>2, <2>3 DEF RestartsOther, Named
<1>7. OwnUp(p)' /\ OldAside(p)' /\ ClearsOther(p)'
  BY DEF OwnUp, OldAside, ClearsOther, Ready, Again, Going
<1> QED
  BY <1>4, <1>5, <1>6, <1>7 DEF Standing, AuthInv

\* The end of an undo after a failed commit.
LEMMA RemoveStands ==
  ASSUME TypeInv, Calm, AuthInv, NEW p \in Ops, UNCHANGED holder, AbortRemove(p)
  PROVE  AuthInv'
<1>1. /\ DeployStep(p) /\ UNCHANGED <<current, mem>> /\ pc[p] = "abortRemove" /\ pc'[p] = "release"
  BY Handy DEF DeployStep, AbortRemove, At, Go, End
<1> USE StepFrame, <1>1
<1>2. PICK left : Swap(Started(p) \ left, {})
  BY DEF AbortRemove
<1>3. /\ containers' = containers \ (Started(p) \ left)
      /\ (Started(p) \ left) \subseteq containers
      /\ \A c \in Started(p) \ left : IdOf(c) \in mem[p].started
  BY <1>2 DEF Swap, Started
<1>4. /\ OneName' /\ ReadInv' /\ Steady' /\ AsideOld' /\ Served'
      /\ \A q \in Ops \ {p} : Standing(q)'
  BY <1>3, OwnGoes
<1>5. Modest(p)'
  BY ModestStays DEF Never, Young, Asides
<1>6. Standing(p)'
  BY <1>5, PlainStands DEF Ready, Again, Going
<1> QED
  BY <1>4, <1>6 DEF AuthInv

\* A restart makes again what is not the authority's.
LEMMA RestoreStands ==
  ASSUME TypeInv, Calm', AuthInv, NEW p \in Ops, UNCHANGED holder, Restore(p)
  PROVE  AuthInv'
<1>1. DeployStep(p) /\ UNCHANGED <<current, pc>> /\ pc[p] = "restore"
  BY DEF DeployStep, Restore, At
<1> USE StepFrame, <1>1
<1>2. PICK n \in mem[p].todo :
        /\ \/ Restarted(p, n) \/ RestartRefused(p, n) \/ RestartFailed(p, n)
           \/ RestartSpoils(p, n)
        /\ \/ mem' = [mem EXCEPT ![p].todo = @ \ {n}]
           \/ mem' = [mem EXCEPT ![p].todo = @ \ {n}, ![p].flaw = TRUE]
        /\ n[3] => Noted(p)
  BY DEF Restore
<1>3. /\ mem'[p].saw = mem[p].saw /\ mem'[p].todo \subseteq mem[p].todo
      /\ \A f \in {"displaced", "started", "snap"} : mem'[p][f] = mem[p][f]
  BY <1>2 DEF Fields
<1>4. Holds(p) \/ ~n[3]
  BY <1>2, NotedHolds
<1>5. ASSUME NEW c \in Named(n), MayRestart(p, c) PROVE ~OfState(c) /\ c.gen <= current.gen
  <2>1. From(p) <= current.gen /\ (From(p) = current.gen => UpToDate(p))
    BY DEF ReadInv
  <2>2. /\ c.gen <= From(p) /\ c.gen \in Nat /\ From(p) \in Nat /\ current.gen \in Nat
    BY <1>5, Vocabulary DEF MayRestart, Named, TypeInv, TypeOK, Shape, Containers, States
  <2>3. UpToDate(p) => ~OfState(c)
    BY <1>2, <1>4, <1>5 DEF Standing, RestartsOther
  <2> QED
    BY <2>1, <2>2, <2>3 DEF OfState
<1>6. \/ UNCHANGED containers
      \/ \E c \in Named(n) :
           /\ MayRestart(p, c)
           /\ \/ containers' = containers \ {c}
              \/ containers' = (containers \ {c}) \cup {Remade(p, c)}
              \/ containers' = (containers \ {c}) \cup {Stopped(Remade(p, c))}
  <2>1. \A c : (containers \ {c}) \cup {} = containers \ {c}
    OBVIOUS
  <2> QED
    BY <1>2, <2>1 DEF Restarted, RestartRefused, RestartFailed, RestartSpoils, Swap
<1>7. Modest(p)'
  BY <1>3, ModestStays DEF Never, Young, Asides
<1>8. OwnUp(p)' /\ OldAside(p)' /\ ClearsOther(p)'
  BY DEF OwnUp, OldAside, ClearsOther, Ready, Again, Going
<1>9. \A c : OfState(c)' = OfState(c) /\ NameOf(c)' = NameOf(c)
  BY DEF OfState, NameOf
<1>10. (\A x \in containers' \ containers : ~OfState(x)) => RestartsOther(p)'
  BY <1>3, <1>9 DEF Standing, RestartsOther, UpToDate, Named
<1>11. CASE UNCHANGED containers
  <2>1. /\ OneName' /\ ReadInv' /\ Steady' /\ AsideOld' /\ Served'
        /\ \A q \in Ops \ {p} : Standing(q)'
    BY <1>3, <1>11, StillStand
  <2>2. RestartsOther(p)'
    BY <1>10, <1>11
  <2> QED
    BY <1>7, <1>8, <2>1, <2>2 DEF Standing, AuthInv
<1>12. ASSUME NEW c \in Named(n), MayRestart(p, c),
              \/ containers' = containers \ {c}
              \/ containers' = (containers \ {c}) \cup {Remade(p, c)}
              \/ containers' = (containers \ {c}) \cup {Stopped(Remade(p, c))}
       PROVE  AuthInv'
  <2>1. /\ c \in containers /\ NameOf(c) = n /\ ~OfState(c) /\ c.gen <= current.gen
        /\ c.gen <= From(p)
    BY <1>5, <1>12 DEF Named, MayRestart
  <2>2. \A x \in {Remade(p, c), Stopped(Remade(p, c))} :
          /\ NameOf(x) = NameOf(c) /\ x.ver = c.ver /\ x.proc = c.proc /\ x.gen = c.gen
          /\ x.replaced = c.replaced
    BY <2>1 DEF Remade, Stopped, NameOf, TypeInv, Shape, Containers
  <2>3. OneName'
    <3>1. CASE containers' = containers \ {c}
      BY <3>1 DEF OneName, NameOf
    <3>2. ASSUME NEW x \in {Remade(p, c), Stopped(Remade(p, c))},
                 containers' = (containers \ {c}) \cup {x}
          PROVE  OneName'
      <4> DEFINE gone == {c}
                 new == {x}
      <4>1. /\ gone \in SUBSET containers /\ containers' = (containers \ gone) \cup new
            /\ \A y \in new : \E z \in gone : NameOf(y) = NameOf(z)
            /\ \A y, z \in new : NameOf(y) = NameOf(z) => y = z
        BY <2>1, <2>2, <3>2
      <4> HIDE DEF gone, new
      <4> QED
        BY <4>1, NamesStay
    <3> QED
      BY <1>12, <3>1, <3>2
  <2>4. \A x \in containers' \ containers :
          /\ ~OfState(x)
          /\ x.proc = "web" /\ x.replaced => x.gen <= current.gen /\ Holds(p)
    <3>1. n[3] = c.replaced
      BY <2>1 DEF NameOf, Name
    <3> QED
      BY <1>4, <1>12, <2>1, <2>2, <3>1 DEF OfState
  <2>5. \A d \in containers : d # c => d \in containers'
    BY <1>12
  <2>6. \A d \in containers : Base(d) =>
          \E e \in containers' : OfState(e) /\ e.how = d.how /\ e.by = d.by
    BY <2>1, <2>5 DEF Base
  <2>7. \A d \in Webs : d.gen > current.gen => d \in containers'
    <3>1. c.gen \in Nat /\ current.gen \in Nat
      BY <2>1 DEF TypeInv, TypeOK, Shape, Containers, States
    <3> QED
      BY <2>1, <2>5, <3>1 DEF Webs
  <2>8. ReadInv' /\ Steady' /\ AsideOld' /\ Served' /\ \A q \in Ops \ {p} : Standing(q)'
    BY <1>3, <2>4, <2>6, <2>7, RestStands
  <2> QED
    BY <1>7, <1>8, <1>10, <2>3, <2>4, <2>8 DEF Standing, AuthInv
<1> QED
  BY <1>6, <1>11, <1>12

-----------------------------------------------------------------------------
(* The commit, the lock, and the whole.                                    *)

\* A commit: the candidate that was checked is the authority's container, and
\* whoever read before is behind.
LEMMA CommitStands ==
  ASSUME TypeInv, AuthInv, NEW p \in Ops, UNCHANGED holder,
         Commit(p), MayCommit(p), current' = NewState(p)
  PROVE  AuthInv'
<1>1. /\ DeployStep(p) /\ UNCHANGED <<containers, mem>> /\ pc[p] = "commit" /\ Holds(p)
  BY DEF DeployStep, Commit, At, MayCommit
<1> USE StepFrame, <1>1
<1>2. UpToDate(p) /\ current.gen \in Nat /\ From(p) = current.gen
  BY HolderReads DEF Open
<1>3. /\ current'.gen = current.gen + 1 /\ current'.hash = plan[p].ver
      /\ Next_(p) = current.gen + 1 /\ plan[p].ver # NoVer
  BY <1>2, Vocabulary, DeployAssumption DEF NewState, Next_
<1>4. pc'[p] \in {"stale", "release"}
  <2>1. pc'[p] \in {"stale", "release"} \/ UNCHANGED current
    BY Handy DEF Commit, Go, End
  <2> QED
    BY <1>2, <1>3, <2>1
<1>5. \A q \in Ops : /\ From(q)' = From(q) /\ NewState(q)' = NewState(q)
                     /\ SameVersion(q)' = SameVersion(q)
                     /\ From(q) <= current.gen /\ From(q)' < current'.gen
                     /\ ~UpToDate(q)'
  <2>1. \A q \in Ops : /\ From(q)' = From(q) /\ NewState(q)' = NewState(q)
                       /\ SameVersion(q)' = SameVersion(q)
    BY DEF From, NewState, Next_, SameVersion
  <2>2. \A q \in Ops : From(q) <= current.gen /\ From(q) \in Nat
    BY Vocabulary DEF ReadInv
  <2>3. \A q \in Ops : From(q) < current'.gen
    BY <1>2, <1>3, <2>2
  <2>4. \A q \in Ops : UpToDate(q)' => From(q)' = current'.gen
    BY DEF UpToDate, From
  <2>5. \A q \in Ops : From(q) # current'.gen
    BY <1>2, <1>3, <2>2
  <2> QED
    BY <2>1, <2>2, <2>3, <2>4, <2>5
<1>6. OneName' /\ \A c : NameOf(c)' = NameOf(c)
  BY DEF OneName, NameOf
<1>7. ReadInv'
  <2>1. \A q, r \in Ops : From(q)' = From(r)' => mem'[q].saw = mem'[r].saw
    BY <1>5 DEF ReadInv
  <2>2. \A q \in Ops : From(q)' <= current'.gen /\ From(q)' # current'.gen
    BY <1>2, <1>3, <1>5, Vocabulary
  <2>3. \A q \in Ops : Holds(q)' => q = p
    BY DEF Holds
  <2> QED
    BY <1>3, <1>4, <1>5, <2>1, <2>2, <2>3 DEF ReadInv, Open, Asides, After
<1>8. PICK c \in Webs : /\ c.by = p /\ c.how = "run" /\ NameOf(c) = Mine(p, "web")
                        /\ c.gen = Next_(p)
  BY DEF Standing, OwnUp, Ready
<1>9. c \in containers /\ c.running /\ c.ver = plan[p].ver /\ c.proc = "web"
  BY <1>8 DEF Webs, NameOf, Mine, Name
<1>10. Served'
  <2>1. OfState(c)' /\ Safe(c)'
    BY <1>3, <1>4, <1>8, <1>9 DEF OfState, Safe, Secure, After
  <2> QED
    BY <1>9, <2>1 DEF Served, Base
<1>11. AsideOld'
  BY <1>2, <1>3 DEF AuthInv, AsideOld, TypeInv, Shape, Containers
<1>12. Steady'
  <2> SUFFICES ASSUME NEW x \in containers, OfState(x)' PROVE x = c
    BY <1>9 DEF Steady
  <2>1. x.proc = "web" /\ x.ver = plan[p].ver /\ x.gen = current.gen + 1
    BY <1>3 DEF OfState
  <2>2. x.replaced = FALSE
    <3>1. x.replaced \in BOOLEAN
      BY DEF TypeInv, Shape, Containers
    <3> QED
      BY <1>2, <2>1, <3>1 DEF AuthInv, AsideOld
  <2>3. NameOf(x) = NameOf(c)
    BY <1>8, <2>1, <2>2 DEF NameOf, Mine
  <2> QED
    BY <1>9, <2>3 DEF OneName
<1>13. Standing(p)'
  <2>1. Modest(p)'
    BY <1>4, ModestStays DEF Never, Young, Asides
  <2>2. OldAside(p)'
    BY <1>2, <1>5 DEF OldAside, AuthInv, AsideOld
  <2>3. OwnUp(p)' /\ ClearsOther(p)' /\ RestartsOther(p)'
    BY <1>4 DEF OwnUp, ClearsOther, RestartsOther, Ready, Again
  <2> QED
    BY <2>1, <2>2, <2>3 DEF Standing
<1>14. ASSUME NEW q \in Ops \ {p} PROVE Standing(q)'
  <2>1. Standing(q) /\ ~Holds(q)' /\ pc'[q] = pc[q] /\ mem'[q] = mem[q]
    BY DEF AuthInv, Holds
  <2>2. OwnUp(q)' /\ OldAside(q)' /\ ClearsOther(q)' /\ RestartsOther(q)'
    BY <1>5, <2>1 DEF OwnUp, OldAside, ClearsOther, RestartsOther
  <2>3. Modest(q)'
    BY <1>5, <2>1 DEF Standing, Modest
  <2> QED
    BY <2>2, <2>3 DEF Standing
<1> QED
  BY <1>6, <1>7, <1>10, <1>11, <1>12, <1>13, <1>14 DEF AuthInv

\* One step of one deploy.
LEMMA StepStands ==
  ASSUME TypeInv, TypeInv', Pristine, Calm, Calm', AuthInv, NEW p \in Ops, DeployStep(p),
         UNCHANGED holder
  PROVE  AuthInv'
<1>1. pc[p] \notin Never
  BY DEF AuthInv, Standing, Modest
<1>2. ~(CheckDisplace(p) \/ Displace(p) \/ AbortStop(p) \/ AbortRestore(p) \/ AbortStart(p))
  BY <1>1 DEF Never, CheckDisplace, Displace, AbortStop, AbortRestore, AbortStart, At
<1>3. CASE \/ ReadState(p) \/ ResolveRoute(p) \/ Reconcile(p) \/ CheckRename(p)
           \/ ConfirmAbsent(p) \/ Snapshot(p) \/ Finish(p) \/ Restored(p)
           \/ RestoreRoute(p) \/ AbortKeep(p)
  BY <1>3, ReadsStand
<1>4. CASE \/ InspectReplaced(p) \/ ClearReplaced(p) \/ RemovePartial(p) \/ Rename(p)
  BY <1>4, InspectStands, NamedGoes, RenameStands
<1>5. CASE StartWeb(p) \/ StartWorker(p) \/ Rerun(p) \/ Vacate(p)
  BY <1>5, StartsStand, VacateStands
<1>6. CASE \/ Health(p) \/ ClearStopped(p) \/ InspectPartial(p) \/ Switch(p) \/ Reread(p)
           \/ RetireStaleRoute(p) \/ Record(p) \/ BeginRetire(p)
  <2>1. UNCHANGED current
    BY <1>6 DEF Health, ClearStopped, InspectPartial, Switch, Reread, RetireStaleRoute, Record,
                BeginRetire, worldVars
  <2> QED
    BY <1>6, <2>1, DecidesStand
<1>7. CASE Commit(p)
  <2>1. UNCHANGED current \/ (MayCommit(p) /\ current' = NewState(p))
    BY <1>7 DEF Commit
  <2> QED
    BY <1>7, <2>1, CommitStands, DecidesStand
<1>8. CASE Retire(p) \/ RetireByName(p) \/ Clean_(p) \/ Restore(p) \/ AbortRemove(p)
  BY <1>8, RetireStands, ByNameStands, CleanStands, RestoreStands, RemoveStands
<1> QED
  BY <1>2, <1>3, <1>4, <1>5, <1>6, <1>7, <1>8 DEF DeployStep

\* The lock taken and given up, and a client's end.
LEMMA LockStands ==
  ASSUME TypeInv, TypeInv', Pristine, AuthInv, NEW p \in Ops, Acquire(p) \/ Release(p) \/ Crash(p)
  PROVE  AuthInv'
<1> USE Handy
<1>1. UNCHANGED <<plan, containers, current>>
  BY DEF Acquire, Release, Crash, lockVars, worldVars
<1>2. /\ \A q \in Ops \ {p} : pc'[q] = pc[q] /\ mem'[q] = mem[q] /\ (Holds(q)' => Holds(q))
      /\ pc'[p] \in {"read", "done", "crashed"} /\ mem'[p].saw = mem[p].saw
      /\ pc'[p] = "read" => mem'[p] = Blank /\ pc[p] = "start"
      /\ pc'[p] # "read" => mem'[p] = [Blank EXCEPT !.saw = mem[p].saw]
  <2>1. CASE Acquire(p)
    BY <2>1 DEF Acquire, Go, At, Holds, Pristine
  <2>2. CASE Release(p)
    BY <2>2, DeployAssumption DEF Release, Go, Forget, Holds, Blank, Makers
  <2>3. CASE Crash(p)
    BY <2>3 DEF Crash, Go, Forget, Holds, Blank
  <2> QED
    BY <2>1, <2>2, <2>3
<1>3. /\ OneName' /\ ReadInv' /\ Steady' /\ AsideOld' /\ Served'
      /\ \A q \in Ops \ {p} : Standing(q)'
  <2>1. /\ pc'[p] \notin Open \cup After
        /\ pc[p] \in Secure => pc'[p] \in Secure
    BY <1>2 DEF Open, Asides, After, Secure
  <2> QED
    BY <1>1, <1>2, <2>1, StillStand
<1>4. Modest(p)'
  BY <1>2 DEF Modest, Blank, Never, Asides, Young
<1>5. Standing(p)'
  BY <1>2, <1>4, PlainStands DEF Ready, Again, Going
<1> QED
  BY <1>3, <1>5 DEF AuthInv

\* A lock that is only given up, and a stutter.
LEMMA LooseStands ==
  ASSUME TypeInv, AuthInv, UNCHANGED <<plan, containers, current, pc, mem>>,
         \A q \in Ops : Holds(q)' => Holds(q)
  PROVE  AuthInv'
<1>1. OneName' /\ Served' /\ Steady' /\ AsideOld'
  BY DEF AuthInv, OneName, Served, Steady, AsideOld, Base, OfState, Safe, NameOf
<1>2. ReadInv'
  BY DEF AuthInv, ReadInv, From, UpToDate, NewState, Next_
<1>3. ASSUME NEW q \in Ops PROVE Standing(q)'
  <2>1. Standing(q)
    BY DEF AuthInv
  <2>2. Modest(q)' /\ OldAside(q)'
    BY <2>1 DEF Standing, Modest, OldAside, SameVersion, From
  <2>3. OwnUp(q)'
    BY <2>1 DEF Standing, OwnUp, Webs, Next_, From, NameOf, Mine
  <2>4. ClearsOther(q)'
    BY <2>1 DEF Standing, ClearsOther, Named, NameOf, Mine, Renamed, NextProc, OfState
  <2>5. RestartsOther(q)'
    BY <2>1 DEF Standing, RestartsOther, Named, NameOf, UpToDate, OfState
  <2> QED
    BY <2>2, <2>3, <2>4, <2>5 DEF Standing
<1> QED
  BY <1>1, <1>2, <1>3 DEF AuthInv

\* The founding release is served.
LEMMA AuthStarts == Init => AuthIInv
<1> SUFFICES ASSUME Init PROVE AuthIInv
  OBVIOUS
<1>1. TypeInv /\ Pristine
  BY TypesStart DEF Init, Pristine
<1>2. \A p \in Ops : /\ pc[p] = "start" /\ mem[p] = Blank /\ ~Holds(p)
                     /\ mem[p].saw = NoState /\ From(p) = 0
  BY DeployAssumption DEF Init, Holds, Makers, Blank, From, NoState
<1>3. ASSUME NEW p \in Ops PROVE Standing(p)
  <2>1. OwnUp(p) /\ OldAside(p) /\ ClearsOther(p) /\ RestartsOther(p)
    BY <1>2 DEF OwnUp, OldAside, ClearsOther, RestartsOther
  <2>2. Modest(p)
    BY <1>2 DEF Modest, Never, Asides, Blank
  <2> QED
    BY <2>1, <2>2 DEF Standing
<1>4. current = NoState \/ (current.hash = plan[Founder].ver /\ current.gen = 1
                            /\ plan[Founder].ver # NoVer)
  BY DEF Init
<1>5. ReadInv
  <2>1. CASE current = NoState
    <3>1. current.gen = 0 /\ \A p \in Ops : UpToDate(p)
      BY <1>2, <2>1 DEF UpToDate, NoState
    <3> QED
      BY <1>2, <2>1, <3>1 DEF ReadInv
  <2>2. CASE current # NoState
    BY <1>2, <1>4, <2>2 DEF ReadInv
  <2> QED
    BY <2>1, <2>2
<1>6. CASE plan[Founder].ver = NoVer
  BY <1>1, <1>3, <1>5, <1>6 DEF Init, Founded, OneName, Served, Steady, AsideOld, NoState, AuthInv,
                                AuthIInv
<1>7. CASE plan[Founder].ver # NoVer
  <2> DEFINE Of(proc) == Container(Founder, proc, 1)
  <2>1. containers = {Of(proc) : proc \in ProcsOf(Founder)} /\ "web" \in ProcsOf(Founder)
    BY <1>7 DEF Init, Founded, ProcsOf
  <2>2. \A proc : /\ Of(proc).running /\ Of(proc).proc = proc /\ Of(proc).by = Founder
                  /\ Of(proc).ver = plan[Founder].ver /\ Of(proc).gen = 1 /\ ~Of(proc).replaced
                  /\ NameOf(Of(proc)) = Mine(Founder, proc)
    BY DEF Container, NameOf, Mine, Name
  <2>3. \A proc, other : Mine(Founder, proc) = Mine(Founder, other) => proc = other
    BY DEF Mine, Name
  <2> HIDE DEF Of
  <2>4. OneName /\ Steady /\ AsideOld
    BY <2>1, <2>2, <2>3 DEF OneName, Steady, AsideOld
  <2>5. current.hash = plan[Founder].ver /\ current.gen = 1
    BY <1>7 DEF Init
  <2>6. Of("web") \in containers /\ Base(Of("web"))
    BY <2>1, <2>2, <2>5 DEF Base, OfState, Safe
  <2> QED
    BY <1>1, <1>3, <1>5, <2>4, <2>6 DEF Served, AuthInv, AuthIInv
<1> QED
  BY <1>6, <1>7

\* Every step keeps the invariant.
LEMMA AuthStays == AuthIInv /\ [Next]_vars => AuthIInv'
<1> SUFFICES ASSUME AuthIInv, [Next]_vars PROVE AuthIInv'
  OBVIOUS
<1>1. TypeInv' /\ Pristine' /\ TypeInv /\ Pristine
  BY TypesStay, PristineStays DEF AuthIInv
<1>2. ASSUME Calm' PROVE AuthInv'
  <2>1. Calm /\ AuthInv
    BY <1>2, PlanStays, HistoriesStay DEF Calm, BlueGreen, AuthIInv
  <2>2. CASE \E p \in Ops : DeployStep(p) /\ UNCHANGED holder
    BY <1>1, <1>2, <2>1, <2>2, StepStands
  <2>3. CASE \E p \in Ops : Acquire(p) \/ Release(p) \/ Crash(p)
    BY <1>1, <2>1, <2>3, LockStands
  <2>4. CASE Unlock
    <3>1. UNCHANGED <<plan, containers, current, pc, mem>> /\ holder' = NoOne
      BY <2>4 DEF Unlock, worldVars
    <3>2. \A q \in Ops : ~Holds(q)'
      BY <3>1, DeployAssumption DEF Holds, Makers
    <3> QED
      BY <1>1, <2>1, <3>1, <3>2, LooseStands
  <2>5. CASE UNCHANGED vars
    BY <1>1, <2>1, <2>5, LooseStands DEF vars, Holds
  <2> QED
    BY <2>2, <2>3, <2>4, <2>5 DEF Next
<1> QED
  BY <1>1, <1>2 DEF AuthIInv

(* While every deploy is blue/green, the release state.json names has a    *)
(* web container that runs: through every failure, crash and undo, and     *)
(* whoever loses the lock to whom, for any number of deploys and any       *)
(* faults.  What deployFenced undoes, restarts or retires late bears a     *)
(* generation the commit has left behind.  It holds until a deploy acts on *)
(* a name blindly: removes, renames or restarts under a _replaced name,    *)
(* retires by a derived name or clears up after a failed run without the   *)
(* lock, or when the look before it failed.                                *)
THEOREM AuthorityServes == Spec => []AuthorityRunning
<1>1. AuthIInv => AuthorityRunning
  BY DEF AuthIInv, Calm, AuthInv, Served, Steady, Base, OfState, Webs, AuthorityRunning
<1>2. AuthIInv /\ [Next]_vars => AuthIInv'
  BY AuthStays
<1> QED
  BY <1>1, <1>2, AuthStarts, PTL DEF Spec

-----------------------------------------------------------------------------
(* What is settled is clean.  While no lock is lost, no client dies and    *)
(* nothing is left up unreported, one deploy moves at a time; what it      *)
(* finds is the authority's release and what it leaves is again, so each   *)
(* of its places is described by what runs beside its own containers.      *)

\* The premises of SettledClean, as they are on the way.
Tame ==
  /\ usurped = {} /\ unsaid = {} /\ blind = {}
  /\ \A p \in Ops : pc[p] # "crashed" /\ outcome[p] \in {"none", "ok", "failed", "refused"}

\* A deploy reports once, at its end.
Answered == \A p \in Ops : outcome[p] # "none" => pc[p] \in {"release", "done", "crashed"}

\* Before its first effect; before its candidates; before its commit; after it.
Unlisted == {"resolve", "reconcile", "rename", "snapshot"} \cup Asides
Room == Unlisted \cup {"displace", "displacing"}
Trial == Ready \cup Again \cup {"web", "partial", "unpartial", "clean", "abort"}
Landed == {"stale", "record", "retire"}

\* What a deploy started; what is of a release.
OwnOf(p, c) == c.by = p /\ c.how = "run"
IsOf(s, c) == c.ver = s.hash /\ c.gen = s.gen

\* What runs is the authority's release, with one web container.
Tidy ==
  /\ \A c \in Running : IsOf(current, c)
  /\ current.hash # NoVer => \E c \in Webs : \A d \in Webs : d = c

\* What runs beside its own is the release it saw,
Beside(p) == \A c \in Running : OwnOf(p, c) \/ IsOf(mem[p].saw, c)

\* with its one web container,
Serves(p) ==
  /\ Beside(p)
  /\ mem[p].saw.hash # NoVer =>
       \E c \in Webs : ~OwnOf(p, c) /\ \A d \in Webs : OwnOf(p, d) \/ d = c

\* or with none, and it owes the one it displaced.
Owed(p) == IF pc[p] \in {"restore", "abortRestore"} THEN mem[p].todo ELSE mem[p].displaced
Down(p) ==
  /\ Beside(p)
  /\ \A c \in Webs : OwnOf(p, c)
  /\ \E x \in containers : /\ ~OwnOf(p, x) /\ x.proc = "web" /\ ~x.running
                           /\ IsOf(mem[p].saw, x)
                           /\ Owed(p) = {NameOf(x)} /\ NameOf(x) # Mine(p, "web")
Even(p) == (Owed(p) = {} /\ Serves(p)) \/ Down(p)

\* Nothing is its own before its first start; then it is on its list.
Untouched(p) ==
  pc[p] \in {"start", "read", "web"} \cup Room =>
    mem[p].started = {} /\ \A c \in containers : c.by # p
OwnMade(p) == ~Idle(p) /\ pc[p] # "release" =>
  /\ \A i \in mem[p].started : i[1] = p /\ i[2] = "run"
  /\ \A c \in containers : OwnOf(p, c) =>
       /\ c.running => IdOf(c) \in mem[p].started
       /\ c.ver = plan[p].ver /\ c.gen = Next_(p) /\ ~c.replaced
OwnRuns(p) ==
  \/ pc[p] \in Ready \cup Landed \cup {"retiring", "byname"}
  \/ pc[p] \in Again /\ mem[p].started # {}
  => \E c \in Webs : OwnOf(p, c)

\* What it saw is the authority, and what it remembers of it.
Behind(p) ==
  /\ pc[p] \in {"read", "release"} \cup Room => Tidy
  /\ pc[p] \in Room \cup Trial \cup {"restore", "abortRestore", "abortRoute", "abortRemove"}
     => mem[p].saw = current
  /\ mem[p].displaced # {} \/ pc[p] \in {"displace", "displacing"} => plan[p].recreate
  /\ pc[p] \in Room => mem[p].displaced = {}
  /\ pc[p] \in Unlisted => mem[p].snap = {} /\ ~mem[p].listed

\* A redeploy removes and moves what it looked at, and what serves is moved.
Aside(p) ==
  /\ pc[p] \in {"clearing", "moving", "confirming"} => mem[p].proc \in mem[p].todo
  /\ pc[p] = "clearing" => \A c \in Named(Renamed(p, mem[p].proc)) : ~c.running
  /\ pc[p] = "unpartial" => \A c \in Named(Mine(p, NextProc(p))) : ~c.running
  /\ pc[p] \in Asides => SameVersion(p)
  /\ \/ pc[p] \in Asides /\ "web" \notin mem[p].todo
     \/ pc[p] \in {"snapshot", "displace", "displacing"} /\ SameVersion(p)
     => Named(Mine(p, "web")) = {}

\* What is listed is all that is to go, and runs unless it was displaced.
Listing(p) ==
  /\ pc[p] \in {"displace", "displacing"} \cup Trial \cup Landed /\ mem[p].listed =>
       \A c \in Running : OwnOf(p, c) \/ \E s \in mem[p].snap : IdOf(s) = IdOf(c)
  /\ pc[p] \in {"displace", "displacing"} \cup Trial /\ mem[p].displaced = {} =>
       \A s \in mem[p].snap : s.proc = "web" =>
         NameOf(s) # Mine(p, "web") /\ \A x \in Named(NameOf(s)) : x.running

Trying(p) == pc[p] \in Trial => Even(p)

Undoing(p) ==
  /\ pc[p] = "restore" /\ ~mem[p].flaw => Even(p) /\ \A c \in Running : ~OwnOf(p, c)
  /\ pc[p] = "abortRestore" => Even(p) /\ \A c \in Running : ~OwnOf(p, c)
  /\ pc[p] \in {"abortRoute", "abortRemove"} => Serves(p)

Retiring(p) ==
  /\ pc[p] \in Landed \cup {"retiring", "byname"} => current = NewState(p)
  /\ pc[p] \in Landed \cup {"byname"} => Beside(p) /\ (From(p) = 0 => mem[p].saw.hash = NoVer)
  /\ pc[p] = "byname" => mem[p].todo = {}
  /\ pc[p] = "retiring" /\ ~mem[p].flaw =>
       \A c \in Running : \/ OwnOf(p, c)
                          \/ c.gen = From(p) /\ \E t \in mem[p].todo : IdOf(t) = IdOf(c)

Accounted(p) ==
  /\ Untouched(p) /\ OwnMade(p) /\ OwnRuns(p) /\ Behind(p) /\ Aside(p)
  /\ Listing(p) /\ Trying(p) /\ Undoing(p) /\ Retiring(p)

Grounded == current.hash = NoVer <=> current.gen = 0
Rested == (\A p \in Ops : pc[p] \in {"start", "done"}) => Tidy

TidyInv == Lone /\ OneName /\ Grounded /\ Rested /\ \A p \in Ops : Accounted(p)

TidyIInv == TypeInv /\ Pristine /\ Answered /\ (Tame => TidyInv)

-----------------------------------------------------------------------------
\* Whose the containers are after a step: its own, or whose they were.
Inherits(p) == \A x \in containers' : x.by = p \/ \E c \in containers : x.by = c.by

\* What a swap brings in decides whose the containers are.
LEMMA SwapInherits ==
  ASSUME NEW p \in Ops, NEW old, NEW new, Swap(old, new),
         \A x \in new : x.by = p \/ \E c \in containers : x.by = c.by
  PROVE  Inherits(p)
BY DEF Swap, Inherits

\* Whose a container is after it is made of another.
LEMMA MadeBy ==
  ASSUME NEW c \in Containers, NEW p
  PROVE  /\ Stopped(c).by = c.by /\ Remade(p, c).by = p
         /\ [c EXCEPT !.replaced = TRUE].by = c.by /\ [c EXCEPT !.running = TRUE].by = c.by
BY DEF Containers, Stopped, Remade

\* A step makes containers of its own, or leaves them whose they were.
LEMMA StepInherits ==
  ASSUME TypeInv, NEW p \in Ops, DeployStep(p)
  PROVE  Inherits(p)
<1>0. containers \subseteq Containers
  BY Handy
<1>1. CASE UNCHANGED containers
  BY <1>1 DEF Inherits
<1>2. ASSUME NEW old, NEW new, Swap(old, new), new \subseteq {Stopped(c) : c \in containers}
      PROVE  Inherits(p)
  <2>1. \A x \in new : \E c \in containers : x.by = c.by
    BY <1>0, <1>2, MadeBy
  <2> QED
    BY <1>2, <2>1, SwapInherits
<1>3. ASSUME NEW old, NEW new, Swap(old, new), new \subseteq {Remade(p, c) : c \in containers}
      PROVE  Inherits(p)
  <2>1. \A x \in new : x.by = p
    BY <1>0, <1>3, MadeBy
  <2> QED
    BY <1>3, <2>1, SwapInherits
<1>15. ASSUME NEW old, Swap(old, {}) PROVE Inherits(p)
  BY <1>15, SwapInherits
<1>4. CASE Rename(p)
  <2> DEFINE mine == Named(Mine(p, mem[p].proc))
             new == {[c EXCEPT !.replaced = TRUE] : c \in mine}
  <2>1. Swap(mine, new) \/ UNCHANGED containers
    BY <1>4 DEF Rename
  <2>2. \A c \in mine : c \in containers /\ [c EXCEPT !.replaced = TRUE].by = c.by
    BY <1>0, MadeBy DEF Named
  <2>3. \A x \in new : \E c \in containers : x.by = c.by
    BY <2>2
  <2> QED
    BY <1>1, <2>1, <2>3, SwapInherits
<1>5. CASE Displace(p)
  <2>1. CASE \E c \in Webs : \E hit \in {{}, {c}} :
             \E before \in SUBSET (Webs \ {c}) : \E lost \in SUBSET before :
               Swap(before \cup hit,
                    {Remade(p, x) : x \in before \ lost} \cup {Stopped(x) : x \in hit})
    <3>1. PICK c \in Webs : \E hit \in {{}, {c}} :
            \E before \in SUBSET (Webs \ {c}) : \E lost \in SUBSET before :
              Swap(before \cup hit,
                   {Remade(p, x) : x \in before \ lost} \cup {Stopped(x) : x \in hit})
      BY <2>1
    <3>2. PICK hit \in {{}, {c}} :
            \E before \in SUBSET (Webs \ {c}) : \E lost \in SUBSET before :
              Swap(before \cup hit,
                   {Remade(p, x) : x \in before \ lost} \cup {Stopped(x) : x \in hit})
      BY <3>1
    <3>3. PICK before \in SUBSET (Webs \ {c}) : \E lost \in SUBSET before :
            Swap(before \cup hit,
                 {Remade(p, x) : x \in before \ lost} \cup {Stopped(x) : x \in hit})
      BY <3>2
    <3>4. PICK lost \in SUBSET before :
            Swap(before \cup hit,
                 {Remade(p, x) : x \in before \ lost} \cup {Stopped(x) : x \in hit})
      BY <3>3
    <3>5. \A x \in before \cup hit : x \in containers
      BY <3>2, <3>3 DEF Webs
    <3>6. \A x \in before \cup hit : Remade(p, x).by = p /\ Stopped(x).by = x.by
      BY <1>0, <3>5, MadeBy
    <3>7. \A y \in {Remade(p, x) : x \in before \ lost} \cup {Stopped(x) : x \in hit} :
            y.by = p \/ \E x \in containers : y.by = x.by
      BY <3>5, <3>6
    <3> QED
      BY <3>4, <3>7, SwapInherits
  <2>2. CASE Swap(Webs, {Stopped(c) : c \in Webs})
    <3>1. {Stopped(c) : c \in Webs} \subseteq {Stopped(c) : c \in containers}
      BY DEF Webs
    <3> QED
      BY <1>2, <2>2, <3>1
  <2>3. \/ UNCHANGED containers \/ Swap(Webs, {Stopped(c) : c \in Webs})
        \/ \E c \in Webs : \E hit \in {{}, {c}} :
           \E before \in SUBSET (Webs \ {c}) : \E lost \in SUBSET before :
             Swap(before \cup hit,
                  {Remade(p, x) : x \in before \ lost} \cup {Stopped(x) : x \in hit})
    BY <1>5 DEF Displace
  <2> QED
    BY <1>1, <2>1, <2>2, <2>3
<1>6. ASSUME NEW proc, NEW taken, NEW next, Run(p, proc, taken, next) PROVE Inherits(p)
  <2> DEFINE new == Container(p, proc, Next_(p))
  <2>1. new.by = p /\ Stopped(new).by = p
    BY DEF Container, Stopped
  <2>2. UNCHANGED containers \/ Swap({}, {new}) \/ Swap({}, {Stopped(new)})
    BY <1>6 DEF Run
  <2> HIDE DEF new
  <2> QED
    BY <1>1, <2>1, <2>2, SwapInherits
<1>7. CASE Retire(p) \/ RetireByName(p)
  <2>1. UNCHANGED containers \/ \E old \in SUBSET containers :
          Swap(old, {}) \/ Swap(old, {Stopped(c) : c \in old})
    BY <1>7 DEF Retire, RetireByName, Identified
  <2> QED
    BY <1>1, <1>2, <2>1
<1>8. CASE Clean_(p) \/ AbortStop(p) \/ AbortRemove(p)
  <2>1. \E old \in SUBSET containers : Swap(old, {}) \/ Swap(old, {Stopped(c) : c \in old})
    BY <1>8 DEF Clean_, AbortStop, AbortRemove, Started
  <2> QED
    BY <1>2, <2>1
<1>9. ASSUME NEW n, \/ Restarted(p, n) \/ RestartRefused(p, n)
                    \/ RestartFailed(p, n) \/ RestartSpoils(p, n)
      PROVE  Inherits(p)
  <2>1. \/ UNCHANGED containers
        \/ \E c \in Named(n) : \/ Swap({c}, {}) \/ Swap({c}, {Remade(p, c)})
                              \/ Swap({c}, {Stopped(Remade(p, c))})
    BY <1>9 DEF Restarted, RestartRefused, RestartFailed, RestartSpoils
  <2>2. CASE \E c \in Named(n) : \/ Swap({c}, {}) \/ Swap({c}, {Remade(p, c)})
                                \/ Swap({c}, {Stopped(Remade(p, c))})
    <3>1. PICK c \in Named(n) : \/ Swap({c}, {}) \/ Swap({c}, {Remade(p, c)})
                              \/ Swap({c}, {Stopped(Remade(p, c))})
      BY <2>2
    <3>2. Remade(p, c).by = p /\ Stopped(Remade(p, c)).by = p
      BY <1>0 DEF Named, Remade, Stopped, Containers
    <3> QED
      BY <3>1, <3>2, SwapInherits
  <2> QED
    BY <1>1, <2>1, <2>2
<1>10. CASE StartAgain(p, containers)
  <2>1. PICK up \in SUBSET Started(p) :
          containers' = (containers \ up) \cup {[c EXCEPT !.running = TRUE] : c \in up}
    BY <1>10 DEF StartAgain
  <2> DEFINE new == {[c EXCEPT !.running = TRUE] : c \in up}
  <2>2. \A c \in up : c \in containers /\ [c EXCEPT !.running = TRUE].by = c.by
    BY <1>0, <2>1, MadeBy DEF Started
  <2>3. \A x \in new : \E c \in containers : x.by = c.by
    BY <2>2
  <2>4. Swap(up, new)
    BY <2>1 DEF Swap
  <2> QED
    BY <2>3, <2>4, SwapInherits
<1>11. CASE StartWeb(p) \/ StartWorker(p) \/ Rerun(p)
  BY <1>6, <1>11 DEF StartWeb, StartWorker, Rerun
<1>12. CASE Restore(p) \/ AbortRestore(p)
  BY <1>1, <1>9, <1>12 DEF Restore, AbortRestore
<1>13. CASE AbortStart(p) \/ AbortKeep(p)
  BY <1>1, <1>10, <1>13 DEF AbortStart, AbortKeep
<1>16. CASE ClearReplaced(p) \/ Vacate(p) \/ RemovePartial(p)
  BY <1>1, <1>15, <1>16 DEF ClearReplaced, Vacate, RemovePartial
<1>14. \/ UNCHANGED containers
       \/ Rename(p) \/ Displace(p) \/ StartWeb(p) \/ StartWorker(p) \/ Rerun(p) \/ Retire(p)
       \/ RetireByName(p) \/ Clean_(p) \/ Restore(p) \/ AbortStop(p) \/ AbortRestore(p)
       \/ AbortStart(p) \/ AbortKeep(p) \/ AbortRemove(p)
       \/ ClearReplaced(p) \/ Vacate(p) \/ RemovePartial(p)
  BY DEF DeployStep, worldVars, ReadState, ResolveRoute, Reconcile, CheckRename, Snapshot,
         CheckDisplace, Health, Switch, Reread, Commit, RetireStaleRoute, Record, BeginRetire,
         Finish, Restored, RestoreRoute, InspectReplaced, ConfirmAbsent, ClearStopped,
         InspectPartial
<1> QED
  BY <1>1, <1>4, <1>5, <1>7, <1>8, <1>11, <1>12, <1>13, <1>14, <1>16

\* What a step of this deploy finds.
LEMMA TidyFrame ==
  ASSUME TypeInv, Pristine, Tame, TidyInv, NEW p \in Ops, DeployStep(p)
  PROVE  /\ UNCHANGED plan /\ Holds(p) /\ Accounted(p) /\ OneName /\ Grounded
         /\ \A q \in Ops \ {p} : pc[q] \in {"start", "done"} /\ pc'[q] = pc[q] /\ mem'[q] = mem[q]
         /\ pc'[p] \notin {"start", "read", "done", "crashed"}
         /\ DOMAIN mem = Ops /\ DOMAIN mem[p] = Fields
         /\ pc \in [Ops -> Steps \cup Final] /\ outcome \in [Ops -> Outcomes]
<1>1. Holds(p) /\ \A q \in Ops \ {p} : Idle(q)
  BY Mover DEF TidyInv, Lone, Holds
<1> QED
  BY <1>1, StepPlan, OwnPlace, Handy DEF TidyInv, Tame, Idle

\* What it must show, and what that is enough for.
Sound(p) == OneName' /\ Grounded' /\ Accounted(p)'
LEMMA TidyStep ==
  ASSUME TypeInv, Pristine, Tame, TidyInv, NEW p \in Ops, DeployStep(p), UNCHANGED holder,
         Sound(p)
  PROVE  TidyInv'
<1> USE TidyFrame
<1>1. Lone'
  BY DEF Lone, Idle, Holds
<1>2. Rested'
  BY DEF Rested
<1>3. ASSUME NEW q \in Ops \ {p} PROVE Accounted(q)'
  <2>1. pc'[q] = pc[q] /\ mem'[q] = mem[q] /\ pc[q] \in {"start", "done"} /\ UNCHANGED plan
    OBVIOUS
  <2>2. Untouched(q)'
    <3>1. Untouched(q)
      BY DEF TidyInv, Accounted
    <3>2. Inherits(p)
      BY StepInherits
    <3> QED
      BY <2>1, <3>1, <3>2 DEF Untouched, Inherits, Room, Unlisted, Asides
  <2>3. OwnMade(q)' /\ OwnRuns(q)' /\ Aside(q)' /\ Listing(q)' /\ Trying(q)'
    BY <2>1 DEF OwnMade, Idle, OwnRuns, Ready, Landed, Aside, Asides, Listing, Trial, Again,
                Trying
  <2>4. Behind(q)'
    <3>1. Behind(q)
      BY DEF TidyInv, Accounted
    <3> QED
      BY <2>1, <3>1 DEF Behind, Room, Unlisted, Asides, Trial, Again, Ready
  <2>5. Undoing(q)' /\ Retiring(q)'
    BY <2>1 DEF Undoing, Retiring, Landed
  <2> QED
    BY <2>2, <2>3, <2>4, <2>5 DEF Accounted
<1> QED
  BY <1>1, <1>2, <1>3 DEF TidyInv, Sound

-----------------------------------------------------------------------------
\* What runs beside its own stays so while no container that is not its own
\* goes or starts, but for the stopped ones of its own web name.
LEMMA BesideLasts ==
  ASSUME NEW p \in Ops, Beside(p), mem'[p].saw = mem[p].saw,
         \A c \in containers' : c.running => c \in containers \/ OwnOf(p, c)
  PROVE  Beside(p)'
BY DEF Beside, Running, OwnOf, IsOf

\* The one that serves goes on serving.
LEMMA ServesLasts ==
  ASSUME NEW p \in Ops, Serves(p), mem'[p].saw = mem[p].saw,
         \A c \in containers : ~OwnOf(p, c) /\ c.proc = "web" /\ c.running => c \in containers',
         \A c \in containers' : c.running => c \in containers \/ OwnOf(p, c)
  PROVE  Serves(p)'
<1>1. Beside(p)'
  BY BesideLasts DEF Serves
<1>2. ASSUME mem[p].saw.hash # NoVer
      PROVE  \E c \in Webs' : ~OwnOf(p, c) /\ \A d \in Webs' : OwnOf(p, d) \/ d = c
  <2>1. PICK c \in Webs : ~OwnOf(p, c) /\ \A d \in Webs : OwnOf(p, d) \/ d = c
    BY <1>2 DEF Serves
  <2>2. c \in Webs'
    BY <2>1 DEF Webs
  <2>3. \A d \in Webs' : OwnOf(p, d) \/ d = c
    BY <2>1 DEF Webs
  <2> QED
    BY <2>1, <2>2, <2>3
<1> QED
  BY <1>1, <1>2 DEF Serves, OwnOf

\* The one displaced is still there to be brought back.
LEMMA DownLasts ==
  ASSUME NEW p \in Ops, Down(p), mem'[p].saw = mem[p].saw, UNCHANGED plan,
         Owed(p)' = Owed(p),
         \A c \in containers :
           ~OwnOf(p, c) /\ c.proc = "web" /\ ~c.running /\ NameOf(c) # Mine(p, "web")
             => c \in containers',
         \A c \in containers' : c.running => c \in containers \/ OwnOf(p, c)
  PROVE  Down(p)'
<1>1. Beside(p)'
  BY BesideLasts DEF Down
<1>2. \A c \in Webs' : OwnOf(p, c)
  BY DEF Down, Webs
<1>3. PICK x \in containers : /\ ~OwnOf(p, x) /\ x.proc = "web" /\ ~x.running
                              /\ IsOf(mem[p].saw, x)
                              /\ Owed(p) = {NameOf(x)} /\ NameOf(x) # Mine(p, "web")
  BY DEF Down
<1>4. x \in containers' /\ Mine(p, "web")' = Mine(p, "web")
  BY <1>3 DEF Mine
<1>5. IsOf(mem'[p].saw, x) /\ Owed(p)' = {NameOf(x)}
  BY <1>3
<1> QED
  BY <1>1, <1>2, <1>3, <1>4, <1>5 DEF Down, OwnOf, IsOf, NameOf

\* Either way, it is even with what it saw.
LEMMA EvenLasts ==
  ASSUME NEW p \in Ops, Even(p), mem'[p].saw = mem[p].saw, UNCHANGED plan,
         Owed(p)' = Owed(p),
         \A c \in containers :
           ~OwnOf(p, c) /\ c.proc = "web" /\ (c.running \/ NameOf(c) # Mine(p, "web"))
             => c \in containers',
         \A c \in containers' : c.running => c \in containers \/ OwnOf(p, c)
  PROVE  Even(p)'
<1>1. CASE Owed(p) = {} /\ Serves(p)
  <2>1. Serves(p)'
    BY <1>1, ServesLasts
  <2> QED
    BY <1>1, <2>1 DEF Even
<1>2. CASE Down(p)
  <2>1. Down(p)'
    BY <1>2, DownLasts
  <2> QED
    BY <2>1 DEF Even
<1> QED
  BY <1>1, <1>2 DEF Even

\* While nothing of the world changes.
LEMMA SightStill ==
  ASSUME NEW p \in Ops, UNCHANGED <<plan, containers>>, mem'[p].saw = mem[p].saw
  PROVE  /\ Beside(p) => Beside(p)'
         /\ Serves(p) => Serves(p)'
         /\ Even(p) /\ Owed(p)' = Owed(p) => Even(p)'
<1>1. Beside(p) => Beside(p)'
  BY BesideLasts
<1>2. Serves(p) => Serves(p)'
  BY ServesLasts
<1>3. Even(p) /\ Owed(p)' = Owed(p) => Even(p)'
  BY EvenLasts
<1> QED
  BY <1>1, <1>2, <1>3

\* What runs changes with the containers and the authority only.
LEMMA TidyStill == Tidy /\ UNCHANGED <<containers, current>> => Tidy'
BY DEF Tidy, Running, Webs, IsOf

\* So do the names, with the containers.
LEMMA OneNameStill == OneName /\ UNCHANGED containers => OneName'
BY DEF OneName

\* Going on, with what it counts on still there.
LEMMA CarryTidy ==
  ASSUME NEW p \in Ops, Accounted(p), OneName, Grounded, UNCHANGED <<plan, containers, current>>,
         mem'[p].saw = mem[p].saw, mem'[p].snap = mem[p].snap, mem'[p].listed = mem[p].listed,
         mem'[p].displaced = mem[p].displaced, mem'[p].started = mem[p].started,
         ~Idle(p), pc[p] # "release", pc'[p] # "start", pc'[p] # "read", pc'[p] # "web",
         pc'[p] \in Unlisted => pc[p] \in Unlisted,
         pc'[p] \in {"displace", "displacing"} => pc[p] = "displace",
         pc'[p] = "release" => pc[p] \in {"read"} \cup Room,
         pc'[p] \in Trial => pc[p] \in Trial,
         pc'[p] \in Landed => pc[p] \in Landed,
         pc'[p] \in Ready \cup Landed => pc[p] \in Ready \cup Landed,
         pc'[p] \in Again => pc[p] \in Ready \cup Again,
         pc'[p] \notin {"restore", "abortRestore", "retiring", "byname"},
         pc'[p] = "abortRoute" => Serves(p) /\ mem[p].saw = current,
         pc'[p] = "abortRemove" => pc[p] = "abortRoute",
         Aside(p)'
  PROVE  Sound(p)
<1>0. /\ SameVersion(p)' = SameVersion(p) /\ From(p)' = From(p) /\ Next_(p)' = Next_(p)
      /\ NewState(p)' = NewState(p)
  BY DEF SameVersion, From, Next_, NewState
<1>1. OneName' /\ Grounded'
  BY OneNameStill DEF Grounded
<1>2. Untouched(p)'
  BY DEF Accounted, Untouched, Room, Unlisted, Asides
<1>3. OwnMade(p)'
  BY <1>0 DEF Accounted, OwnMade, OwnOf
<1>4. OwnRuns(p)'
  BY DEF Accounted, OwnRuns, OwnOf, Webs
<1>5. Behind(p)'
  <2>1. Behind(p)
    BY DEF Accounted
  <2>2. pc'[p] \in {"release"} \cup Room => Tidy'
    BY <2>1, TidyStill DEF Behind, Room
  <2>3. pc'[p] \in Room \cup Trial => mem[p].saw = current
    BY <2>1 DEF Behind, Room
  <2>4. pc'[p] = "abortRemove" => mem[p].saw = current
    BY <2>1 DEF Behind
  <2>5. pc'[p] \in Room => mem[p].displaced = {}
    BY <2>1 DEF Behind, Room
  <2>6. mem[p].displaced # {} \/ pc'[p] \in {"displace", "displacing"} => plan[p].recreate
    BY <2>1 DEF Behind
  <2> QED
    BY <2>1, <2>2, <2>3, <2>4, <2>5, <2>6 DEF Behind
<1>7. Listing(p)'
  <2>1. Listing(p) /\ Mine(p, "web")' = Mine(p, "web")
    BY DEF Accounted, Mine
  <2> QED
    BY <2>1 DEF Listing, Running, Named, OwnOf
<1>8. Trying(p)'
  <2>1. pc'[p] \in Trial => Owed(p)' = Owed(p)
    BY DEF Owed, Trial, Again, Ready
  <2> QED
    BY <2>1, SightStill DEF Accounted, Trying
<1>9. Undoing(p)'
  BY SightStill DEF Accounted, Undoing
<1>10. Retiring(p)'
  BY <1>0, SightStill DEF Accounted, Retiring, Landed
<1> QED
  BY <1>1, <1>2, <1>3, <1>4, <1>5, <1>7, <1>8, <1>9, <1>10 DEF Sound, Accounted

\* Where a redeploy has nothing to account for.
LEMMA NothingAside ==
  ASSUME NEW p \in Ops,
         pc'[p] \notin Asides \cup {"unpartial", "snapshot", "displace", "displacing"}
  PROVE  Aside(p)'
BY DEF Aside, Asides

\* The steps that only decide.
LEMMA DecidesTidy ==
  ASSUME TypeInv, Pristine, Tame, Tame', TidyInv, NEW p \in Ops,
         \/ ResolveRoute(p) \/ Reconcile(p) \/ CheckRename(p) \/ InspectReplaced(p)
         \/ ConfirmAbsent(p) \/ CheckDisplace(p) \/ Health(p) \/ ClearStopped(p)
         \/ InspectPartial(p) \/ Switch(p) \/ Reread(p) \/ RetireStaleRoute(p) \/ Record(p)
         \/ RestoreRoute(p)
  PROVE  Sound(p)
<1>1. DeployStep(p)
  BY DEF DeployStep
<1>2. ~Idle(p) /\ pc[p] # "release"
  BY <1>1, Mover
<1> USE TidyFrame, <1>1
<1>3. UNCHANGED <<plan, containers, current>>
  BY DEF ResolveRoute, Reconcile, CheckRename, CheckDisplace, Health, Switch, Reread,
         RetireStaleRoute, Record, RestoreRoute, InspectReplaced, ConfirmAbsent, ClearStopped,
         InspectPartial, worldVars
<1>4. /\ mem'[p].saw = mem[p].saw /\ mem'[p].snap = mem[p].snap /\ mem'[p].listed = mem[p].listed
      /\ mem'[p].displaced = mem[p].displaced /\ mem'[p].started = mem[p].started
  BY DEF ResolveRoute, Reconcile, CheckRename, CheckDisplace, Health, Switch, Reread,
         RetireStaleRoute, Record, RestoreRoute, InspectReplaced, ConfirmAbsent, ClearStopped,
         InspectPartial, Moved, Fields
<1>5. \/ pc[p] \in {"resolve", "reconcile"} /\ pc'[p] \in {"reconcile", "rename", "release"}
      \/ /\ pc[p] = "rename" /\ pc'[p] \in {"snapshot", "renaming", "release"}
         /\ pc'[p] = "snapshot" => ~SameVersion(p)
         /\ pc'[p] = "renaming" => SameVersion(p) /\ mem'[p].todo = ProcsOf(p)
      \/ InspectReplaced(p) /\ pc[p] = "renaming" /\ pc'[p] \in {"clearing", "release"}
      \/ ConfirmAbsent(p) /\ pc[p] = "confirming" /\ pc'[p] \in {"renaming", "snapshot", "release"}
      \/ pc[p] = "displace" /\ pc'[p] \in {"displacing", "release"}
      \/ pc[p] = "health" /\ pc'[p] \in {"worker", "switch", "clean"}
      \/ pc[p] = "occupied" /\ pc'[p] \in {"vacate", "rerun", "partial"}
      \/ InspectPartial(p) /\ pc[p] = "partial" /\ pc'[p] \in {"unpartial", "clean"}
      \/ pc[p] = "switch" /\ pc'[p] \in {"commit", "reread", "clean"}
      \/ pc[p] = "reread" /\ pc'[p] = "commit"
      \/ pc[p] = "stale" /\ pc'[p] = "record"
      \/ pc[p] = "record" /\ pc'[p] = "retire"
      \/ pc[p] = "abortRoute" /\ pc'[p] \in {"abortRemove", "abortKeep"}
  <2>1. CASE \/ ResolveRoute(p) \/ Reconcile(p) \/ CheckRename(p) \/ CheckDisplace(p)
             \/ Health(p)
    BY <2>1 DEF ResolveRoute, Reconcile, CheckRename, CheckDisplace, Health, At, Go, End, Fields
  <2>2. CASE InspectReplaced(p) \/ ConfirmAbsent(p) \/ ClearStopped(p) \/ InspectPartial(p)
    BY <2>2 DEF InspectReplaced, ConfirmAbsent, Moved, ClearStopped, InspectPartial, At, Go, End
  <2>3. CASE Switch(p) \/ Reread(p) \/ RetireStaleRoute(p) \/ Record(p) \/ RestoreRoute(p)
    BY <2>3 DEF Switch, Reread, RetireStaleRoute, Record, RestoreRoute, At, Go, End
  <2> QED
    BY <2>1, <2>2, <2>3
<1>0. Aside(p) /\ SameVersion(p)' = SameVersion(p) /\ Mine(p, "web")' = Mine(p, "web")
  BY <1>4 DEF Accounted, SameVersion, Mine
<1>6. Aside(p)'
  <2>1. CASE pc[p] = "rename"
    <3>1. pc'[p] = "renaming" => SameVersion(p) /\ "web" \in mem'[p].todo
      BY <1>5, <2>1 DEF ProcsOf
    <3>2. pc'[p] \in {"snapshot", "renaming", "release"} /\ (pc'[p] = "snapshot" => ~SameVersion(p))
      BY <1>5, <2>1
    <3> QED
      BY <1>0, <3>1, <3>2 DEF Aside, Asides
  <2>2. CASE pc[p] = "renaming" /\ pc'[p] = "clearing"
    <3>1. mem'[p].proc \in mem[p].todo /\ mem'[p].todo = mem[p].todo /\ MayClear(p, mem'[p].proc)
      <4>1. InspectReplaced(p) /\ blind' = {}
        BY <1>5, <2>2 DEF Tame
      <4>2. PICK proc \in mem[p].todo :
              /\ mem' = [mem EXCEPT ![p].proc = proc]
              /\ \/ MayClear(p, proc) /\ Go(p, "clearing") /\ UNCHANGED <<blind, outcome>>
                 \/ ~MayClear(p, proc) /\ End(p, "failed") /\ UNCHANGED blind
                 \/ blind' = blind \cup {p}
        BY <4>1 DEF InspectReplaced
      <4>3. MayClear(p, proc)
        BY <2>2, <4>1, <4>2 DEF End, Go
      <4> QED
        BY <4>2, <4>3 DEF Fields
    <3>2. \A c \in Named(Renamed(p, mem'[p].proc)) : ~c.running
      BY <3>1 DEF MayClear
    <3> QED
      BY <1>0, <1>3, <2>2, <3>1, <3>2 DEF Aside, Asides, Named, Renamed
  <2>3. CASE pc[p] = "confirming" /\ pc'[p] \in {"renaming", "snapshot"}
    <3>1. /\ Named(Mine(p, mem[p].proc)) = {} /\ mem'[p].todo = mem[p].todo \ {mem[p].proc}
          /\ pc'[p] = "snapshot" => mem[p].todo \subseteq {mem[p].proc}
      <4>1. ConfirmAbsent(p)
        BY <1>5, <2>3
      <4>2. Named(Mine(p, mem[p].proc)) = {} /\ Moved(p)
        BY <2>3, <4>1 DEF ConfirmAbsent, End, Go
      <4> QED
        BY <2>3, <4>2 DEF Moved, Go, Fields
    <3>2. ("web" \in mem[p].todo /\ mem[p].proc # "web") \/ Named(Mine(p, "web")) = {}
      BY <1>0, <2>3, <3>1 DEF Aside, Asides
    <3>3. \/ pc'[p] = "renaming" /\ "web" \notin mem'[p].todo
          \/ pc'[p] = "snapshot"
          => Named(Mine(p, "web")) = {}
      BY <3>1, <3>2
    <3>4. SameVersion(p)
      BY <1>0, <2>3 DEF Aside, Asides
    <3> QED
      BY <1>0, <1>3, <2>3, <3>3, <3>4 DEF Aside, Asides, Named
  <2>4. CASE pc[p] = "displace" /\ pc'[p] = "displacing"
    BY <1>0, <1>3, <2>4 DEF Aside, Asides, Named
  <2>5. CASE pc[p] = "partial" /\ pc'[p] = "unpartial"
    <3>1. \E c \in Named(Mine(p, NextProc(p))) : ~c.running
      BY <1>5, <2>5 DEF InspectPartial, Go
    <3>2. \A c \in Named(Mine(p, NextProc(p))) : ~c.running
      BY <3>1 DEF OneName, Named
    <3>3. NextProc(p)' = NextProc(p) /\ \A proc : Mine(p, proc)' = Mine(p, proc)
      BY <1>4 DEF NextProc, Mine
    <3> QED
      BY <1>3, <2>5, <3>2, <3>3 DEF Aside, Asides, Named
  <2> QED
    BY <1>5, <2>1, <2>2, <2>3, <2>4, <2>5, NothingAside DEF Asides
<1> QED
  BY <1>2, <1>3, <1>4, <1>5, <1>6, CarryTidy
     DEF Unlisted, Asides, Room, Trial, Again, Landed, Ready

-----------------------------------------------------------------------------
\* What runs is of the authority, if there is one; and of the web one at most.
LEMMA TidyOne ==
  ASSUME TypeInv, Tidy
  PROVE  /\ \A c \in Running : current.hash # NoVer
         /\ Webs = {} => current.hash = NoVer
         /\ Webs # {} => \E c \in Webs : Webs = {c}
<1>1. \A c \in Running : c.ver \in Vers
  BY DEF TypeInv, Shape, Running, Containers
<1>2. \A c \in Running : current.hash # NoVer
  BY <1>1, DeployAssumption DEF Tidy, IsOf
<1>3. Webs \subseteq Running
  BY DEF Webs, Running
<1> QED
  BY <1>2, <1>3 DEF Tidy

\* With nothing of its own yet, what it sees is what runs.
LEMMA TidySees ==
  ASSUME NEW p \in Ops, Tidy, mem[p].saw = current, \A c \in containers : c.by # p
  PROVE  Serves(p)
BY DEF Tidy, Serves, Beside, OwnOf, Webs, IsOf

\* Of a redeploy's release only what serves is left, moved aside.
LEMMA MovedServes ==
  ASSUME TypeInv, OneName, Tidy, NEW p \in Ops, mem[p].saw = current, SameVersion(p),
         Named(Mine(p, "web")) = {}
  PROVE  \A c \in containers : c.proc = "web" /\ c.ver = current.hash => c.running /\ c.replaced
<1>1. \A c \in containers : c.proc = "web" /\ c.ver = current.hash => NameOf(c) = Renamed(p, "web")
  BY DEF SameVersion, Named, Mine, Renamed, NameOf, Name, TypeInv, Shape, Containers
<1>2. current.hash # NoVer
  BY Handy, DeployAssumption DEF SameVersion
<1>3. PICK c \in Webs : \A d \in Webs : d = c
  BY <1>2 DEF Tidy
<1>4. c \in containers /\ c.running /\ c.proc = "web" /\ c.ver = current.hash
  BY <1>3 DEF Webs, Tidy, Running, IsOf
<1>5. c.replaced
  BY <1>1, <1>4 DEF NameOf, Renamed, Name
<1> QED
  BY <1>1, <1>4, <1>5 DEF OneName

\* It reads the authority, and nothing is its own yet.
LEMMA ReadsTidy ==
  ASSUME TypeInv, Pristine, Tame, Tame', TidyInv, NEW p \in Ops, ReadState(p)
  PROVE  Sound(p)
<1>1. DeployStep(p)
  BY DEF DeployStep
<1> USE TidyFrame, <1>1
<1>2. UNCHANGED <<plan, containers, current>> /\ pc[p] = "read" /\ mem[p] = Blank
  BY DEF ReadState, worldVars, At, Pristine
<1>3. OneName' /\ Grounded'
  BY <1>2, OneNameStill DEF Grounded
<1>4. Tidy' /\ \A c \in containers : c.by # p
  <2>1. Behind(p) /\ Untouched(p)
    BY DEF Accounted
  <2> QED
    BY <1>2, <2>1, TidyStill DEF Behind, Untouched
<1>5. /\ mem'[p].snap = {} /\ ~mem'[p].listed /\ mem'[p].displaced = {} /\ mem'[p].started = {}
      /\ \/ pc'[p] = "resolve" /\ mem'[p].saw = current
         \/ pc'[p] = "release"
  BY <1>2 DEF ReadState, Go, End, Blank, Fields
<1>6. Untouched(p)' /\ OwnMade(p)' /\ OwnRuns(p)'
  BY <1>2, <1>4, <1>5 DEF Untouched, OwnMade, OwnRuns, OwnOf, Room, Unlisted, Asides, Ready, Landed
<1>7. Behind(p)' /\ Aside(p)' /\ Listing(p)' /\ Trying(p)'
  BY <1>2, <1>4, <1>5
     DEF Behind, Aside, Listing, Trying, Room, Unlisted, Asides, Trial, Again, Ready, Landed
<1>8. Undoing(p)' /\ Retiring(p)'
  BY <1>5 DEF Undoing, Retiring, Landed
<1> QED
  BY <1>3, <1>6, <1>7, <1>8 DEF Sound, Accounted

\* The inventory lists all that runs; of its own release, all is moved aside.
LEMMA SnapshotTidy ==
  ASSUME TypeInv, Pristine, Tame, Tame', TidyInv, NEW p \in Ops, Snapshot(p)
  PROVE  Sound(p)
<1>1. DeployStep(p)
  BY DEF DeployStep
<1> USE TidyFrame, <1>1
<1>2. /\ UNCHANGED <<plan, containers, current>> /\ pc[p] = "snapshot"
      /\ pc'[p] = IF plan[p].recreate THEN "displace" ELSE "web"
  BY DEF Snapshot, worldVars, At, Go
<1>3. /\ mem'[p].saw = mem[p].saw /\ mem'[p].displaced = mem[p].displaced
      /\ mem'[p].started = mem[p].started
      /\ \/ mem'[p].snap = Predecessors(p)
         \/ mem'[p].snap = mem[p].snap /\ mem'[p].listed = mem[p].listed
  BY DEF Snapshot, Fields
<1>4. /\ Tidy /\ mem[p].saw = current /\ mem[p].displaced = {} /\ mem[p].snap = {} /\ ~mem[p].listed
      /\ mem[p].started = {} /\ \A c \in containers : c.by # p
  BY <1>2 DEF Accounted, Behind, Untouched, Room, Unlisted, Asides
<1>5. OneName' /\ Grounded' /\ Tidy'
  BY <1>2, <1>4, OneNameStill, TidyStill DEF Grounded
<1>13. SameVersion(p) => Named(Mine(p, "web")) = {}
  BY <1>2 DEF Accounted, Aside
<1>6. SameVersion(p) => \A c \in containers : c.proc = "web" /\ c.ver = current.hash
                          => c.running /\ c.replaced
  BY <1>4, <1>13, MovedServes
<1>7. Untouched(p)' /\ OwnMade(p)' /\ OwnRuns(p)'
  <2>1. \A i \in mem[p].started : i[1] = p /\ i[2] = "run"
    BY <1>2 DEF Accounted, OwnMade, Idle
  <2> QED
    BY <1>2, <1>3, <1>4, <2>1 DEF Untouched, OwnMade, OwnRuns, OwnOf, Ready, Landed, Again
<1>8. Behind(p)'
  BY <1>2, <1>3, <1>4, <1>5 DEF Behind, Unlisted, Asides, Room
<1>9. Aside(p)'
  <2>1. SameVersion(p)' = SameVersion(p) /\ Named(Mine(p, "web"))' = Named(Mine(p, "web"))
    BY <1>2, <1>3 DEF SameVersion, Named, Mine
  <2> QED
    BY <1>2, <1>13, <2>1 DEF Aside, Asides
<1>10. Listing(p)'
  <2>1. mem'[p].listed => \A c \in Running : \E s \in mem'[p].snap : IdOf(s) = IdOf(c)
    <3>1. \A c \in Running : c \in Predecessors(p)
      BY <1>4 DEF Tidy, IsOf, Predecessors, Running
    <3> QED
      BY <1>3, <1>4, <3>1
  <2>2. \A s \in mem'[p].snap : s.proc = "web" =>
          NameOf(s) # Mine(p, "web") /\ \A x \in Named(NameOf(s)) : x.running
    <3> SUFFICES ASSUME NEW s \in Predecessors(p), s.proc = "web"
                 PROVE  NameOf(s) # Mine(p, "web") /\ \A x \in Named(NameOf(s)) : x.running
      BY <1>3, <1>4
    <3>1. s \in containers /\ s.ver = mem[p].saw.hash /\ (SameVersion(p) \/ s.running)
      BY DEF Predecessors
    <3>2. \A x \in Named(NameOf(s)) : x = s
      BY <3>1 DEF Named, OneName
    <3>3. NameOf(s) # Mine(p, "web")
      <4>1. CASE SameVersion(p)
        BY <1>13, <3>1, <4>1 DEF Named
      <4>2. CASE ~SameVersion(p)
        BY <3>1, <4>2 DEF SameVersion, NameOf, Mine, Name
      <4> QED
        BY <4>1, <4>2
    <3> QED
      BY <1>4, <1>6, <3>1, <3>2, <3>3
  <2>3. Mine(p, "web")' = Mine(p, "web")
    BY <1>2 DEF Mine
  <2> QED
    BY <1>2, <2>1, <2>2, <2>3 DEF Listing, Running, Named
<1>11. Trying(p)'
  <2>1. Serves(p)'
    BY <1>2, <1>3, <1>4, TidySees, SightStill
  <2> QED
    BY <1>2, <1>3, <1>4, <2>1 DEF Trying, Even, Owed, Trial, Again, Ready
<1>12. Undoing(p)' /\ Retiring(p)'
  BY <1>2 DEF Undoing, Retiring, Landed
<1> QED
  BY <1>5, <1>7, <1>8, <1>9, <1>10, <1>11, <1>12 DEF Sound, Accounted

\* While room is made, what serves goes on, whatever is removed or moved beside.
LEMMA RoomTidy ==
  ASSUME TypeInv, Pristine, Tame, TidyInv, NEW p \in Ops, DeployStep(p),
         UNCHANGED current, pc[p] \in Asides, pc'[p] \in Asides \cup {"snapshot"},
         mem'[p].saw = mem[p].saw, mem'[p].displaced = mem[p].displaced,
         mem'[p].started = mem[p].started, mem'[p].snap = mem[p].snap,
         mem'[p].listed = mem[p].listed,
         OneName', Tidy', \A x \in containers' : x.by # p, Aside(p)'
  PROVE  Sound(p)
<1> USE TidyFrame
<1>1. /\ mem[p].saw = current /\ mem[p].displaced = {} /\ mem[p].snap = {} /\ ~mem[p].listed
      /\ mem[p].started = {}
  BY DEF Accounted, Behind, Untouched, Room, Unlisted
<1>2. Grounded' /\ Untouched(p)' /\ OwnMade(p)'
  BY <1>1 DEF Grounded, Untouched, OwnMade, OwnOf
<1>3. Behind(p)'
  BY <1>1 DEF Behind, Unlisted, Room, Asides
<1>4. OwnRuns(p)' /\ Listing(p)' /\ Trying(p)' /\ Undoing(p)' /\ Retiring(p)'
  BY DEF OwnRuns, Listing, Trying, Undoing, Retiring, Trial, Again, Landed, Ready, Asides
<1> QED
  BY <1>2, <1>3, <1>4 DEF Sound, Accounted

\* What does not run may go.
LEMMA TidyLess ==
  ASSUME Tidy, UNCHANGED current, containers' \subseteq containers,
         \A c \in containers : c.running => c \in containers'
  PROVE  Tidy'
<1>1. Webs' = Webs /\ Running' = Running
  BY DEF Webs, Running
<1> QED
  BY <1>1 DEF Tidy, IsOf

\* What is cleared was seen to be stopped.
LEMMA ClearTidy ==
  ASSUME TypeInv, Pristine, Tame, Tame', TidyInv, NEW p \in Ops, ClearReplaced(p)
  PROVE  Sound(p)
<1>1. DeployStep(p) /\ UNCHANGED <<current, mem>> /\ pc[p] = "clearing" /\ pc'[p] = "moving"
  BY TidyFrame DEF DeployStep, ClearReplaced, At, Go
<1> USE TidyFrame, <1>1
<1>2. Tidy /\ Aside(p) /\ \A c \in containers : c.by # p
  BY DEF Accounted, Behind, Untouched, Room, Unlisted, Asides
<1>3. /\ containers' \subseteq containers
      /\ \A c \in containers : c.running => c \in containers'
  BY <1>2 DEF ClearReplaced, Swap, Aside
<1>4. OneName' /\ Tidy'
  BY <1>2, <1>3, TidyLess DEF OneName, NameOf
<1>5. Aside(p)'
  <2>1. Named(Mine(p, "web"))' \subseteq Named(Mine(p, "web"))
    BY <1>3 DEF Named, Mine, NameOf
  <2>2. SameVersion(p)' = SameVersion(p)
    BY DEF SameVersion
  <2> QED
    BY <1>2, <2>1, <2>2 DEF Aside, Asides
<1> QED
  BY <1>2, <1>3, <1>4, <1>5, RoomTidy DEF Asides

\* A rename moves what serves aside, running as it was.
LEMMA RenameTidy ==
  ASSUME TypeInv, Pristine, Tame, Tame', TidyInv, NEW p \in Ops, Rename(p)
  PROVE  Sound(p)
<1>1. DeployStep(p) /\ UNCHANGED current /\ pc[p] = "moving"
  BY DEF DeployStep, Rename, At
<1> USE TidyFrame, <1>1
<1>2. Tidy /\ Aside(p) /\ \A c \in containers : c.by # p
  BY DEF Accounted, Behind, Untouched, Room, Unlisted, Asides
<1> DEFINE proc == mem[p].proc
           F == Named(Mine(p, proc))
           Put(c) == [c EXCEPT !.replaced = TRUE]
<1>3. /\ \/ Moved(p)
         \/ Go(p, "confirming") /\ UNCHANGED mem
      /\ \/ Go(p, "confirming") /\ UNCHANGED <<containers, mem>>
         \/ /\ Named(Renamed(p, proc)) = {}
            /\ containers' = (containers \ F) \cup {Put(c) : c \in F}
  BY DEF Rename, Swap
<1>4. /\ mem'[p].saw = mem[p].saw /\ mem'[p].displaced = mem[p].displaced
      /\ mem'[p].started = mem[p].started /\ mem'[p].snap = mem[p].snap
      /\ mem'[p].listed = mem[p].listed
      /\ \/ pc'[p] = "confirming" /\ mem'[p] = mem[p]
         \/ /\ mem'[p].todo = mem[p].todo \ {proc} /\ mem'[p].proc = mem[p].proc
            /\ \/ pc'[p] = "snapshot" /\ mem[p].todo \subseteq {proc}
               \/ pc'[p] = "renaming"
  BY <1>3 DEF Moved, Go, Fields
<1>5. SameVersion(p)' = SameVersion(p) /\ SameVersion(p) /\ proc \in mem[p].todo
  BY <1>2, <1>4 DEF SameVersion, Aside, Asides
<1>6. CASE Go(p, "confirming") /\ UNCHANGED <<containers, mem>>
  <2>1. pc'[p] = "confirming"
    BY <1>6 DEF Go
  <2>2. Aside(p)'
    BY <1>2, <1>5, <1>6, <2>1 DEF Aside, Asides, Named, Mine, NameOf
  <2>3. OneName' /\ Tidy'
    BY <1>2, <1>6, OneNameStill, TidyStill
  <2> QED
    BY <1>2, <1>4, <1>6, <2>1, <2>2, <2>3, RoomTidy DEF Asides
<1>7. CASE /\ Named(Renamed(p, proc)) = {}
           /\ containers' = (containers \ F) \cup {Put(c) : c \in F}
  <2>1. /\ \A c \in containers : NameOf(c) # Renamed(p, proc)
        /\ \A c \in containers : NameOf(c) = Mine(p, proc) <=> c \in F
        /\ \A c \in F : c \in containers
    BY <1>7 DEF Named
  <2>2. \A c \in F : /\ Put(c).ver = c.ver /\ Put(c).proc = c.proc /\ Put(c).gen = c.gen
                     /\ Put(c).running = c.running /\ Put(c).by = c.by
                     /\ NameOf(Put(c)) = Renamed(p, proc)
    <3>1. \A c \in F : c \in Containers /\ c.ver = plan[p].ver /\ c.proc = proc
      BY <2>1 DEF TypeInv, Shape, NameOf, Mine, Name
    <3> QED
      BY <3>1 DEF Containers, NameOf, Renamed, Name
  <2>3. ASSUME NEW c \in F, NEW d \in F PROVE c = d
    BY <2>1, <2>3 DEF OneName
  <2>9. Renamed(p, proc) # Mine(p, "web")
    BY DEF Renamed, Mine, Name
  <2> HIDE DEF F, Put
  <2>4. \A x \in containers' : x \in containers \ F \/ \E c \in F : x = Put(c)
    BY <1>7
  <2>5. OneName'
    <3>1. ASSUME NEW x \in containers', NEW y \in containers', NameOf(x) = NameOf(y) PROVE x = y
      <4>1. CASE x \in containers /\ y \in containers
        BY <3>1, <4>1 DEF OneName
      <4> QED
        BY <2>1, <2>2, <2>3, <2>4, <3>1, <4>1
    <3> QED
      BY <3>1 DEF OneName, NameOf
  <2>6. \A x \in containers' : x.by # p
    <3>1. ASSUME NEW c \in F PROVE Put(c).by # p
      <4>1. c \in containers /\ Put(c).by = c.by
        BY <2>1, <2>2
      <4> QED
        BY <1>2, <4>1
    <3> QED
      BY <1>2, <2>4, <3>1
  <2>7. Tidy'
    <3>1. ASSUME NEW x \in containers', x.running PROVE IsOf(current, x)
      <4>1. CASE x \in containers
        BY <1>2, <3>1, <4>1 DEF Tidy, Running
      <4>2. CASE \E c \in F : x = Put(c)
        <5>1. PICK c \in F : x = Put(c)
          BY <4>2
        <5>2. c \in containers /\ c.running /\ x.ver = c.ver /\ x.gen = c.gen
          BY <2>1, <2>2, <3>1, <5>1
        <5>3. IsOf(current, c)
          BY <1>2, <5>2 DEF Tidy, Running
        <5> QED
          BY <5>2, <5>3 DEF IsOf
      <4> QED
        BY <2>4, <4>1, <4>2
    <3>2. ASSUME current.hash # NoVer PROVE \E c \in Webs' : \A d \in Webs' : d = c
      <4>1. PICK c \in Webs : \A d \in Webs : d = c
        BY <1>2, <3>2 DEF Tidy
      <4>2. c \in containers /\ c.proc = "web" /\ c.running
        BY <4>1 DEF Webs
      <4>3. CASE c \in F
        <5>1. Put(c) \in Webs'
          BY <1>7, <2>2, <4>2, <4>3 DEF Webs
        <5>2. \A d \in Webs' : d = Put(c)
          BY <2>3, <2>4, <4>1, <4>3 DEF Webs
        <5> QED
          BY <5>1, <5>2
      <4>4. CASE c \notin F
        <5>1. c \in Webs'
          BY <1>7, <4>2, <4>4 DEF Webs
        <5>2. \A d \in F : ~(d.proc = "web" /\ d.running)
          BY <2>1, <4>1, <4>4 DEF Webs
        <5>3. ASSUME NEW d \in containers', d.proc = "web", d.running PROVE d = c
          <6>1. \A e \in F : ~(Put(e).proc = "web" /\ Put(e).running)
            BY <2>2, <5>2
          <6>2. d \in containers
            BY <2>4, <5>3, <6>1
          <6> QED
            BY <4>1, <5>3, <6>2 DEF Webs
        <5> QED
          BY <5>1, <5>3 DEF Webs
      <4> QED
        BY <4>3, <4>4
    <3> QED
      BY <3>1, <3>2 DEF Tidy, IsOf, Running
  <2>8. Aside(p)'
    <3>1. \A x \in containers' : NameOf(x) = Mine(p, "web") => x \in containers \ F
      BY <2>2, <2>4, <2>9
    <3>2. Mine(p, "web")' = Mine(p, "web")
      BY DEF Mine
    <3>3. Named(Mine(p, "web")) = {} \/ proc = "web" => Named(Mine(p, "web"))' = {}
      <4>1. Named(Mine(p, "web"))' = {x \in containers' : NameOf(x) = Mine(p, "web")}
        BY <3>2 DEF Named, NameOf
      <4> QED
        BY <2>1, <3>1, <4>1 DEF Named
    <3>4. "web" \notin mem[p].todo => Named(Mine(p, "web")) = {}
      BY <1>2 DEF Aside, Asides
    <3>5. \/ pc'[p] \in Asides /\ "web" \notin mem'[p].todo
          \/ pc'[p] = "snapshot"
          => Named(Mine(p, "web"))' = {}
      BY <1>4, <1>5, <3>3, <3>4 DEF Asides
    <3> QED
      BY <1>4, <1>5, <3>5 DEF Aside, Asides
  <2> QED
    BY <1>4, <2>5, <2>6, <2>7, <2>8, RoomTidy DEF Asides
<1> QED
  BY <1>3, <1>6, <1>7

\* A displacement stops the one that serves, and owes it.
LEMMA DisplaceTidy ==
  ASSUME TypeInv, Pristine, Tame, Tame', TidyInv, NEW p \in Ops, Displace(p)
  PROVE  Sound(p)
<1>1. DeployStep(p) /\ UNCHANGED current /\ pc[p] = "displacing"
  BY DEF DeployStep, Displace, At
<1> USE TidyFrame, <1>1
<1>2. /\ Tidy /\ mem[p].saw = current /\ mem[p].displaced = {} /\ plan[p].recreate
      /\ mem[p].started = {} /\ \A c \in containers : c.by # p
  BY DEF Accounted, Behind, Untouched, Room
<1>3. \A c \in Webs : Webs = {c}
  BY <1>2, TidyOne
<1>4. ASSUME UNCHANGED <<containers, mem>>, pc'[p] = "release" PROVE Sound(p)
  BY <1>4, NothingAside, CarryTidy DEF Unlisted, Asides, Room, Trial, Again, Landed, Ready, Idle
<1>5. CASE /\ UNCHANGED mem
           /\ \E c \in Webs : \E hit \in {{}, {c}} :
              \E before \in SUBSET (Webs \ {c}) : \E lost \in SUBSET before :
                /\ Swap(before \cup hit,
                        {Remade(p, x) : x \in before \ lost} \cup {Stopped(x) : x \in hit})
                /\ End(p, IF lost = {} THEN "failed" ELSE "attention")
                /\ unsaid' = IF hit = {} THEN unsaid ELSE unsaid \cup {p}
  <2>1. PICK c \in Webs : \E hit \in {{}, {c}} :
          \E before \in SUBSET (Webs \ {c}) : \E lost \in SUBSET before :
            /\ Swap(before \cup hit,
                    {Remade(p, x) : x \in before \ lost} \cup {Stopped(x) : x \in hit})
            /\ End(p, IF lost = {} THEN "failed" ELSE "attention")
            /\ unsaid' = IF hit = {} THEN unsaid ELSE unsaid \cup {p}
    BY <1>5
  <2>2. PICK hit \in {{}, {c}} :
          \E before \in SUBSET (Webs \ {c}) : \E lost \in SUBSET before :
            /\ Swap(before \cup hit,
                    {Remade(p, x) : x \in before \ lost} \cup {Stopped(x) : x \in hit})
            /\ End(p, IF lost = {} THEN "failed" ELSE "attention")
            /\ unsaid' = IF hit = {} THEN unsaid ELSE unsaid \cup {p}
    BY <2>1
  <2>3. PICK before \in SUBSET (Webs \ {c}) : \E lost \in SUBSET before :
          /\ Swap(before \cup hit,
                  {Remade(p, x) : x \in before \ lost} \cup {Stopped(x) : x \in hit})
          /\ End(p, IF lost = {} THEN "failed" ELSE "attention")
          /\ unsaid' = IF hit = {} THEN unsaid ELSE unsaid \cup {p}
    BY <2>2
  <2>4. PICK lost \in SUBSET before :
          /\ Swap(before \cup hit,
                  {Remade(p, x) : x \in before \ lost} \cup {Stopped(x) : x \in hit})
          /\ End(p, IF lost = {} THEN "failed" ELSE "attention")
    BY <2>3
  <2>5. before = {}
    BY <1>3, <2>3
  <2>6. hit = {}
    <3>1. unsaid' = {} /\ unsaid = {}
      BY DEF Tame
    <3> QED
      BY <2>3, <3>1
  <2>7. UNCHANGED containers
    BY <2>4, <2>5, <2>6 DEF Swap
  <2>8. pc'[p] = "release"
    BY <2>4 DEF End, Go
  <2> QED
    BY <1>4, <1>5, <2>7, <2>8
<1>6. ASSUME pc'[p] = "web", mem'[p].saw = mem[p].saw, mem'[p].started = mem[p].started,
             mem'[p].snap = mem[p].snap, mem'[p].listed = mem[p].listed,
             \A x \in containers' : x.by # p, OneName', Listing(p)', Even(p)'
      PROVE  Sound(p)
  <2>1. Grounded' /\ Untouched(p)'
    BY <1>2, <1>6 DEF Grounded, Untouched
  <2>2. OwnMade(p)'
    BY <1>2, <1>6 DEF OwnMade, OwnOf
  <2>3. Behind(p)'
    BY <1>2, <1>6 DEF Behind, Unlisted, Asides, Room
  <2>4. OwnRuns(p)' /\ Aside(p)' /\ Trying(p)' /\ Undoing(p)' /\ Retiring(p)'
    BY <1>6, NothingAside DEF OwnRuns, Asides, Trying, Undoing, Retiring, Trial, Again, Landed,
                              Ready
  <2> QED
    BY <1>6, <2>1, <2>2, <2>3, <2>4 DEF Sound, Accounted
<1>7. CASE "list" \in Faults /\ Go(p, "web") /\ UNCHANGED <<containers, mem, outcome>>
  <2>1. pc'[p] = "web"
    BY <1>7 DEF Go
  <2>2. Even(p)'
    <3>1. Serves(p)'
      BY <1>2, <1>7, TidySees, SightStill
    <3> QED
      BY <1>2, <1>7, <2>1, <3>1 DEF Even, Owed
  <2>3. Listing(p)'
    <3>1. Mine(p, "web")' = Mine(p, "web")
      BY DEF Mine
    <3> QED
      BY <1>7, <2>1, <3>1 DEF Accounted, Listing, Running, Named, OwnOf
  <2>4. OneName'
    BY <1>7, OneNameStill
  <2> QED
    BY <1>2, <1>6, <1>7, <2>1, <2>2, <2>3, <2>4
<1>8. CASE /\ Swap(Webs, {Stopped(c) : c \in Webs})
           /\ mem' = [mem EXCEPT ![p].displaced = {NameOf(c) : c \in Webs}]
           /\ Go(p, "web")
  <2>1. /\ containers' = (containers \ Webs) \cup {Stopped(c) : c \in Webs}
        /\ mem'[p].displaced = {NameOf(c) : c \in Webs} /\ pc'[p] = "web"
        /\ mem'[p].saw = mem[p].saw /\ mem'[p].started = mem[p].started
        /\ mem'[p].snap = mem[p].snap /\ mem'[p].listed = mem[p].listed
    BY <1>8 DEF Swap, Go, Fields
  <2>2. Webs \subseteq containers
    BY DEF Webs
  <2>3. OneName'
    BY <2>1, <2>2, StopsKeepNames
  <2>4. \A c \in Webs : /\ ~Stopped(c).running /\ Stopped(c).proc = "web" /\ Stopped(c).by = c.by
                        /\ Stopped(c).ver = c.ver /\ Stopped(c).gen = c.gen
                        /\ NameOf(Stopped(c)) = NameOf(c) /\ Stopped(c) \in containers'
    BY <2>1, <2>2 DEF Webs, TypeInv, Shape, Containers, Stopped, NameOf
  <2>5. \A x \in containers' : x.running => x \in containers /\ x.proc # "web"
    BY <2>1, <2>4 DEF Webs
  <2>9. \A x \in containers' : x.by # p
    BY <1>2, <2>1, <2>2, <2>4
  <2>6. Beside(p)' /\ Webs' = {}
    BY <1>2, <2>1, <2>5 DEF Tidy, Beside, Running, Webs, IsOf, OwnOf
  <2>7. CASE Webs = {}
    <3>1. UNCHANGED containers /\ mem'[p].displaced = {}
      BY <2>1, <2>7
    <3>2. Even(p)'
      <4>1. current.hash = NoVer
        BY <1>2, <2>7, TidyOne
      <4> QED
        BY <1>2, <2>1, <2>6, <3>1, <4>1 DEF Even, Owed, Serves
    <3>3. Listing(p)'
      <4>1. Mine(p, "web")' = Mine(p, "web")
        BY DEF Mine
      <4> QED
        BY <1>2, <2>1, <3>1, <4>1 DEF Accounted, Listing, Running, Named, OwnOf
    <3> QED
      BY <1>6, <2>1, <2>3, <2>9, <3>2, <3>3
  <2>8. CASE Webs # {}
    <3>1. PICK c \in Webs : Webs = {c}
      BY <1>2, <2>8, TidyOne
    <3>2. mem'[p].displaced = {NameOf(Stopped(c))}
      BY <2>1, <2>4, <3>1
    <3>3. IsOf(current, c) /\ c \in containers /\ c.proc = "web"
      BY <1>2, <3>1 DEF Tidy, Webs, Running
    <3>4. NameOf(Stopped(c)) # Mine(p, "web")
      <4>1. SameVersion(p) => NameOf(c) # Mine(p, "web")
        BY <1>2, <3>3 DEF Accounted, Aside, Named
      <4>2. ~SameVersion(p) => c.ver # plan[p].ver
        BY <1>2, <3>3 DEF SameVersion, IsOf
      <4> QED
        BY <2>4, <4>1, <4>2 DEF NameOf, Mine, Name
    <3>5. Down(p)'
      <4>1. Mine(p, "web")' = Mine(p, "web")
        BY DEF Mine
      <4>2. ~OwnOf(p, Stopped(c))' /\ IsOf(mem[p].saw, Stopped(c))' /\ IsOf(mem'[p].saw, Stopped(c))
        BY <1>2, <2>1, <2>4, <3>3 DEF OwnOf, IsOf
      <4>3. Owed(p)' = {NameOf(Stopped(c))}
        BY <2>1, <3>2 DEF Owed
      <4> DEFINE x == Stopped(c)
      <4>4. x \in containers' /\ ~x.running /\ x.proc = "web" /\ NameOf(x) # Mine(p, "web")
        BY <2>4, <3>4
      <4>5. /\ ~OwnOf(p, x) /\ IsOf(mem'[p].saw, x) /\ Owed(p)' = {NameOf(x)}
        BY <4>2, <4>3 DEF OwnOf
      <4> HIDE DEF x
      <4> QED
        BY <2>6, <4>1, <4>4, <4>5 DEF Down, OwnOf, IsOf, NameOf
    <3>6. Listing(p)'
      <4>1. Listing(p)
        BY DEF Accounted
      <4>2. mem'[p].displaced # {}
        BY <3>2
      <4> QED
        BY <2>1, <2>5, <4>1, <4>2 DEF Listing, Running, OwnOf
    <3> QED
      BY <1>6, <2>1, <2>3, <2>9, <3>5, <3>6 DEF Even
  <2> QED
    BY <2>7, <2>8
<1> QED
  BY <1>5, <1>7, <1>8 DEF Displace

-----------------------------------------------------------------------------
\* A run adds one of its own or nothing, under a name that nothing bears.
LEMMA RunTidy ==
  ASSUME TypeInv, Pristine, Tame, Tame', TidyInv, NEW p \in Ops, DeployStep(p), UNCHANGED current,
         NEW proc, NEW taken \in {"occupied", "partial"},
         NEW next \in {"health", "switch", "clean"},
         Run(p, proc, taken, next),
         pc[p] \in {"web", "worker", "rerun"}, proc = "web" \/ mem[p].started # {},
         next = "health" => proc = "web",
         taken = "occupied" => pc[p] # "rerun"
  PROVE  Sound(p)
<1> USE TidyFrame
<1> DEFINE new == Container(p, proc, Next_(p))
           n == Mine(p, proc)
<1>1. /\ new.running /\ new.by = p /\ new.how = "run" /\ new.ver = plan[p].ver
      /\ new.gen = Next_(p) /\ ~new.replaced /\ new.proc = proc /\ NameOf(new) = n
      /\ IdOf(new)[1] = p /\ IdOf(new)[2] = "run"
  BY DEF Container, NameOf, Mine, Name, IdOf
<1>2. LET c == Stopped(new)
      IN /\ ~c.running /\ c.by = p /\ c.how = "run" /\ c.ver = plan[p].ver
         /\ c.gen = Next_(p) /\ ~c.replaced /\ c.proc = proc /\ NameOf(c) = n
  BY DEF Container, Stopped, NameOf, Mine, Name
<1>3. /\ mem'[p].saw = mem[p].saw /\ mem'[p].displaced = mem[p].displaced
      /\ mem'[p].snap = mem[p].snap /\ mem'[p].listed = mem[p].listed
  BY DEF Run, Fields, new
<1>4. \/ /\ Named(n) = {} /\ containers' = containers \cup {new} /\ pc'[p] = next
         /\ mem'[p].started = mem[p].started \cup {IdOf(new)}
      \/ /\ UNCHANGED containers /\ pc'[p] \in {"clean", taken, "partial"}
         /\ mem'[p].started = mem[p].started
      \/ /\ Named(n) = {} /\ containers' = containers \cup {Stopped(new)} /\ pc'[p] = "partial"
         /\ mem'[p].started = mem[p].started
  <2>1. unsaid' = {}
    BY DEF Tame
  <2> QED
    BY <2>1 DEF Run, Go, Swap, Fields, new
<1> HIDE DEF new
<1>5. PICK c : /\ c.by = p /\ c.how = "run" /\ c.ver = plan[p].ver /\ c.gen = Next_(p)
               /\ ~c.replaced /\ NameOf(c) = n /\ (c.running => IdOf(c) \in mem'[p].started)
               /\ \/ Named(n) = {} /\ containers' = containers \cup {c}
                  \/ UNCHANGED containers
  <2>1. CASE /\ Named(n) = {} /\ containers' = containers \cup {new}
             /\ IdOf(new) \in mem'[p].started
    BY <1>1, <2>1
  <2>2. CASE UNCHANGED containers
    BY <1>2, <2>2
  <2>3. CASE Named(n) = {} /\ containers' = containers \cup {Stopped(new)}
    BY <1>2, <2>3
  <2>4. Named(n) = {} \/ UNCHANGED containers
    BY <1>4
  <2>5. CASE Named(n) = {} /\ containers' = containers \cup {new} /\ IdOf(new) \in mem'[p].started
    BY <1>1, <2>5
  <2> QED
    BY <1>4, <2>2, <2>3, <2>5
<1>6. /\ \A x \in containers : x \in containers' /\ (NameOf(x) = n => UNCHANGED containers)
      /\ \A x \in containers' : x \in containers \/ x = c
  BY <1>5 DEF Named
<1>7. OneName'
  <2>1. CASE UNCHANGED containers
    BY <2>1, OneNameStill
  <2>2. CASE Named(n) = {} /\ containers' = containers \cup {c}
    <3>1. \A x \in containers : NameOf(x) # NameOf(c)
      BY <1>5, <2>2 DEF Named
    <3>2. \A x, y \in containers' : NameOf(x) = NameOf(y) => x = y
      BY <2>2, <3>1 DEF OneName
    <3> QED
      BY <3>2 DEF OneName, NameOf
  <2> QED
    BY <1>5, <2>1, <2>2
<1>8. pc'[p] \in {"health", "switch", "clean", "occupied", "partial"} /\ ~Idle(p)
  BY <1>4, Mover
<1>9. /\ SameVersion(p)' = SameVersion(p) /\ Next_(p)' = Next_(p)
      /\ Mine(p, "web")' = Mine(p, "web")
  BY <1>3 DEF SameVersion, Next_, From, Mine
<1>10. mem[p].started \subseteq mem'[p].started
  BY <1>4
<1>11. OwnMade(p)'
  <2>1. OwnMade(p)
    BY DEF Accounted
  <2>2. \A i \in mem'[p].started : i[1] = p /\ i[2] = "run"
    BY <1>1, <1>4, <1>8, <2>1 DEF OwnMade
  <2>3. ASSUME NEW x \in containers', OwnOf(p, x)
        PROVE  /\ x.running => IdOf(x) \in mem'[p].started
               /\ x.ver = plan[p].ver /\ x.gen = Next_(p) /\ ~x.replaced
    <3>1. CASE x \in containers
      BY <1>8, <1>10, <2>1, <2>3, <3>1 DEF OwnMade
    <3>2. CASE x = c
      BY <1>5, <3>2
    <3> QED
      BY <1>6, <3>1, <3>2
  <2> QED
    BY <1>9, <2>2, <2>3 DEF OwnMade, OwnOf, IdOf
<1>12. OwnRuns(p)'
  <2> SUFFICES ASSUME pc'[p] \in {"health", "switch", "occupied"},
                      pc'[p] = "occupied" => mem'[p].started # {}
               PROVE  \E x \in Webs' : OwnOf(p, x)
    BY <1>8 DEF OwnRuns, OwnOf, Ready, Landed, Again
  <2>1. CASE containers' = containers \cup {new} /\ proc = "web"
    <3>1. new \in Webs' /\ OwnOf(p, new)
      BY <1>1, <2>1 DEF Webs, OwnOf
    <3> QED
      BY <3>1
  <2>2. CASE mem[p].started # {}
    <3>1. pc[p] # "web"
      BY <2>2 DEF Accounted, Untouched
    <3>2. PICK x \in Webs : OwnOf(p, x)
      BY <2>2, <3>1 DEF Accounted, OwnRuns, Ready, Again
    <3>3. x \in Webs'
      BY <1>6, <3>2 DEF Webs
    <3> QED
      BY <3>2, <3>3
  <2>3. \/ containers' = containers \cup {new}
        \/ pc'[p] = "occupied" /\ mem'[p].started = mem[p].started
    BY <1>4
  <2> QED
    BY <2>1, <2>2, <2>3
<1>13. Behind(p)'
  <2>1. mem[p].saw = current /\ (mem[p].displaced # {} => plan[p].recreate)
    BY DEF Accounted, Behind, Trial, Ready, Again
  <2> QED
    BY <1>3, <1>8, <2>1 DEF Behind, Room, Unlisted, Asides
<1>14. Listing(p)'
  <2>1. Listing(p) /\ pc[p] \in Trial
    BY DEF Accounted, Trial, Ready, Again
  <2>2. OwnOf(p, c)
    BY <1>5 DEF OwnOf
  <2>3. mem[p].listed => \A x \in Running' : OwnOf(p, x) \/ \E s \in mem[p].snap : IdOf(s) = IdOf(x)
    BY <1>6, <2>1, <2>2 DEF Listing, Running
  <2>4. mem[p].displaced = {} =>
          \A s \in mem[p].snap : s.proc = "web" =>
            NameOf(s) # Mine(p, "web") /\ \A x \in Named(NameOf(s))' : x.running
    <3> SUFFICES ASSUME mem[p].displaced = {}, NEW s \in mem[p].snap, s.proc = "web"
                 PROVE  NameOf(s) # Mine(p, "web") /\ \A x \in Named(NameOf(s))' : x.running
      OBVIOUS
    <3>1. NameOf(s) # Mine(p, "web") /\ \A x \in Named(NameOf(s)) : x.running
      BY <2>1 DEF Listing
    <3>2. NameOf(s) # n
      BY <3>1 DEF NameOf, Mine, Name
    <3>3. ASSUME NEW x \in containers', NameOf(x) = NameOf(s) PROVE x.running
      BY <1>5, <1>6, <3>1, <3>2, <3>3 DEF Named
    <3>4. Named(NameOf(s))' = {x \in containers' : NameOf(x) = NameOf(s)'}
      BY DEF Named, NameOf
    <3>5. NameOf(s)' = NameOf(s)' /\ mem'[p].snap = mem[p].snap
      BY <1>3
    <3> QED
      BY <3>1, <3>3 DEF Named, NameOf
  <2> QED
    BY <1>3, <1>9, <2>3, <2>4 DEF Listing, OwnOf, IdOf, Named, NameOf
<1>15. Trying(p)'
  <2>1. Even(p)
    BY DEF Accounted, Trying, Trial, Ready, Again
  <2>2. Owed(p)' = Owed(p)
    BY <1>3, <1>8 DEF Owed
  <2>3. \A x \in containers' : x.running => x \in containers \/ OwnOf(p, x)
    BY <1>5, <1>6 DEF OwnOf
  <2> QED
    BY <1>3, <1>6, <2>1, <2>2, <2>3, EvenLasts DEF Trying
<1>16. Untouched(p)' /\ Aside(p)' /\ Undoing(p)' /\ Retiring(p)' /\ Grounded'
  BY <1>8, NothingAside
     DEF Untouched, Undoing, Retiring, Grounded, Room, Unlisted, Asides, Landed
<1> QED
  BY <1>7, <1>11, <1>12, <1>13, <1>14, <1>15, <1>16 DEF Sound, Accounted

\* The runs of a deploy.
LEMMA StartsTidy ==
  ASSUME TypeInv, Pristine, Tame, Tame', TidyInv, NEW p \in Ops,
         StartWeb(p) \/ StartWorker(p) \/ Rerun(p)
  PROVE  Sound(p)
<1>1. DeployStep(p) /\ UNCHANGED current
  BY DEF DeployStep, StartWeb, StartWorker, Rerun
<1>2. CASE StartWeb(p)
  BY <1>1, <1>2, RunTidy DEF StartWeb, At
<1>3. CASE StartWorker(p)
  <2>1. PICK next \in {"switch", "clean"} : Run(p, "worker", "occupied", next)
    BY <1>3 DEF StartWorker, Tried
  <2>2. pc[p] = "worker"
    BY <1>3 DEF StartWorker, At
  <2>3. mem[p].started # {}
    <3>1. PICK x \in Webs : OwnOf(p, x)
      BY <1>1, <2>2, TidyFrame DEF Accounted, OwnRuns, Ready
    <3>2. IdOf(x) \in mem[p].started
      BY <1>1, <2>2, <3>1, TidyFrame DEF Accounted, OwnMade, Idle, Webs
    <3> QED
      BY <3>2
  <2> QED
    BY <1>1, <2>1, <2>2, <2>3, RunTidy
<1>4. CASE Rerun(p)
  <2>1. PICK next \in Tried(p, NextProc(p)) : Run(p, NextProc(p), "partial", next)
    BY <1>4 DEF Rerun
  <2>2. pc[p] = "rerun"
    BY <1>4 DEF Rerun, At
  <2>3. next \in {"health", "switch", "clean"} /\ (next = "health" => NextProc(p) = "web")
    BY <2>1 DEF Tried
  <2>4. NextProc(p) = "web" \/ mem[p].started # {}
    BY DEF NextProc
  <2> QED
    BY <1>1, <2>1, <2>2, <2>3, <2>4, RunTidy
<1> QED
  BY <1>2, <1>3, <1>4

\* What is cleared under its own name did not run.
LEMMA ClearsOwnName ==
  ASSUME TypeInv, Pristine, Tame, Tame', TidyInv, NEW p \in Ops, Vacate(p) \/ RemovePartial(p)
  PROVE  Sound(p)
<1>1. DeployStep(p) /\ UNCHANGED <<current, mem>>
  BY DEF DeployStep, Vacate, RemovePartial
<1> USE TidyFrame, <1>1
<1>2. /\ pc[p] \in {"vacate", "unpartial"} /\ pc'[p] \in {"rerun", "partial", "clean"}
      /\ pc'[p] = "rerun" => pc[p] = "vacate"
  BY DEF Vacate, RemovePartial, At, Go
<1>3. /\ containers' \subseteq containers
      /\ \A c \in containers : c.running \/ NameOf(c) # Mine(p, NextProc(p)) => c \in containers'
  <2>1. CASE Vacate(p)
    BY <2>1 DEF Vacate, Swap, Named
  <2>2. CASE RemovePartial(p)
    <3>1. \A c \in Named(Mine(p, NextProc(p))) : ~c.running
      BY <2>2 DEF Accounted, Aside, RemovePartial, At
    <3> QED
      BY <2>2, <3>1 DEF RemovePartial, Swap, Named
  <2> QED
    BY <2>1, <2>2
<1>4. ~Idle(p) /\ pc[p] # "release" /\ Mine(p, "web")' = Mine(p, "web") /\ Next_(p)' = Next_(p)
  BY Mover DEF Mine, Next_, From
<1>5. OneName' /\ Grounded'
  BY <1>3 DEF OneName, NameOf, Grounded
<1>6. OwnMade(p)'
  BY <1>3, <1>4 DEF Accounted, OwnMade, OwnOf, IdOf
<1>7. OwnRuns(p)'
  <2> SUFFICES ASSUME pc'[p] = "rerun", mem[p].started # {} PROVE \E c \in Webs' : OwnOf(p, c)
    BY <1>2 DEF OwnRuns, OwnOf, Ready, Landed, Again
  <2>1. PICK c \in Webs : OwnOf(p, c)
    BY <1>2 DEF Accounted, OwnRuns, Again
  <2>2. c \in Webs'
    BY <1>3, <2>1 DEF Webs
  <2> QED
    BY <2>1, <2>2
<1>8. Behind(p)'
  <2>1. mem[p].saw = current /\ (mem[p].displaced # {} => plan[p].recreate)
    BY <1>2 DEF Accounted, Behind, Trial, Again
  <2> QED
    BY <1>2, <2>1 DEF Behind, Room, Unlisted, Asides
<1>9. Listing(p)'
  <2>1. Listing(p) /\ pc[p] \in Trial
    BY <1>2 DEF Accounted, Trial, Again
  <2> QED
    BY <1>3, <1>4, <2>1 DEF Listing, Running, Named, NameOf, OwnOf, IdOf
<1>10. Trying(p)'
  <2>1. Even(p) /\ Owed(p)' = Owed(p)
    BY <1>2 DEF Accounted, Trying, Trial, Again, Owed
  <2>2. \A c \in containers : c.proc = "web" /\ NameOf(c) # Mine(p, "web")
                              => NameOf(c) # Mine(p, NextProc(p))
    BY DEF NameOf, Mine, Name
  <2> QED
    BY <1>3, <2>1, <2>2, EvenLasts DEF Trying
<1>11. Untouched(p)' /\ Aside(p)' /\ Undoing(p)' /\ Retiring(p)'
  BY <1>2, NothingAside DEF Untouched, Undoing, Retiring, Room, Unlisted, Asides, Landed
<1> QED
  BY <1>5, <1>6, <1>7, <1>8, <1>9, <1>10, <1>11 DEF Sound, Accounted

\* A commit publishes what runs; one undone is of a release that still serves.
LEMMA CommitTidy ==
  ASSUME TypeInv, Pristine, Tame, Tame', TidyInv, NEW p \in Ops, Commit(p)
  PROVE  Sound(p)
<1>1. DeployStep(p) /\ UNCHANGED <<containers, mem>> /\ pc[p] = "commit"
  BY DEF DeployStep, Commit, At
<1> USE TidyFrame, <1>1
<1>2. /\ mem[p].saw = current /\ Even(p) /\ OwnRuns(p) /\ OwnMade(p) /\ Listing(p)
      /\ (mem[p].displaced # {} => plan[p].recreate)
  BY DEF Accounted, Behind, Trying, Trial, Again, Ready
<1>3. CASE End(p, "preserved")
  BY <1>3 DEF End, Tame
<1>4. CASE UNCHANGED current /\ Go(p, IF plan[p].recreate THEN "abort" ELSE "abortRoute")
  <2>1. pc'[p] = IF plan[p].recreate THEN "abort" ELSE "abortRoute"
    BY <1>4 DEF Go
  <2>2. ~plan[p].recreate => Serves(p)
    BY <1>2 DEF Even, Down, Owed
  <2> QED
    BY <1>2, <1>4, <2>1, <2>2, NothingAside, CarryTidy
       DEF Unlisted, Asides, Room, Trial, Again, Landed, Ready, Idle
<1>5. CASE current' = NewState(p) /\ Go(p, "stale")
  <2>1. pc'[p] = "stale"
    BY <1>5 DEF Go
  <2>2. OneName'
    BY OneNameStill
  <2>3. Grounded'
    BY <1>5, Vocabulary, DeployAssumption DEF Grounded, NewState, Next_
  <2>4. OwnMade(p)' /\ OwnRuns(p)'
    BY <1>2, <2>1 DEF OwnMade, OwnRuns, OwnOf, Next_, From, Webs, Idle, Ready
  <2>5. Behind(p)'
    BY <1>2, <2>1 DEF Behind, Room, Unlisted, Asides, Trial, Again, Ready
  <2>6. Listing(p)'
    BY <1>2, <2>1 DEF Listing, Running, OwnOf, Trial, Again, Ready, Landed
  <2>7. Retiring(p)'
    <3>1. Beside(p)'
      BY <1>2, SightStill DEF Even, Serves, Down
    <3>2. From(p) = 0 => mem[p].saw.hash = NoVer
      BY <1>2 DEF Grounded, From
    <3> QED
      BY <1>5, <2>1, <3>1, <3>2 DEF Retiring, NewState, Next_, From
  <2>8. Untouched(p)' /\ Aside(p)' /\ Trying(p)' /\ Undoing(p)'
    BY <2>1 DEF Untouched, Aside, Undoing, Trying, Room, Unlisted, Asides, Trial, Again, Ready
  <2> QED
    BY <2>2, <2>3, <2>4, <2>5, <2>6, <2>7, <2>8 DEF Sound, Accounted
<1> QED
  BY <1>3, <1>4, <1>5 DEF Commit

-----------------------------------------------------------------------------
\* What is to be retired is all that runs beside its own.
LEMMA BeginsTidy ==
  ASSUME TypeInv, Pristine, Tame, Tame', TidyInv, NEW p \in Ops, BeginRetire(p)
  PROVE  Sound(p)
<1>1. DeployStep(p) /\ UNCHANGED <<containers, current>> /\ pc[p] = "retire"
  BY DEF DeployStep, BeginRetire, At, worldVars
<1> USE TidyFrame, <1>1
<1>2. /\ OwnRuns(p) /\ OwnMade(p) /\ Listing(p) /\ Beside(p) /\ current = NewState(p)
      /\ (From(p) = 0 => mem[p].saw.hash = NoVer)
      /\ (mem[p].displaced # {} => plan[p].recreate)
  BY DEF Accounted, Behind, Retiring, Landed
<1>3. /\ mem'[p].saw = mem[p].saw /\ mem'[p].started = mem[p].started
      /\ mem'[p].displaced = mem[p].displaced
      /\ \/ pc'[p] = "byname" /\ mem'[p].todo = {}
         \/ /\ pc'[p] = "retiring"
            /\ \/ mem[p].listed /\ mem'[p].todo = mem[p].snap
               \/ From(p) = 0 /\ mem'[p].todo = {}
               \/ mem'[p].todo = Predecessors(p)
  BY DEF BeginRetire, Go, Fields
<1>4. /\ From(p)' = From(p) /\ Next_(p)' = Next_(p) /\ NewState(p)' = NewState(p)
  BY <1>3 DEF From, Next_, NewState
<1>5. OneName' /\ Grounded'
  BY OneNameStill DEF Grounded
<1>6. OwnMade(p)' /\ OwnRuns(p)'
  BY <1>2, <1>3, <1>4 DEF OwnMade, OwnRuns, OwnOf, Webs, Idle, Landed
<1>7. Behind(p)'
  BY <1>2, <1>3 DEF Behind, Room, Unlisted, Asides, Trial, Again, Ready
<1>8. pc'[p] = "retiring" => \A c \in Running :
        \/ OwnOf(p, c)
        \/ c.gen = From(p) /\ \E t \in mem'[p].todo : IdOf(t) = IdOf(c)
  <2> SUFFICES ASSUME pc'[p] = "retiring", NEW c \in Running, ~OwnOf(p, c)
               PROVE  c.gen = From(p) /\ \E t \in mem'[p].todo : IdOf(t) = IdOf(c)
    OBVIOUS
  <2>1. IsOf(mem[p].saw, c) /\ c \in containers /\ c.running
    BY <1>2 DEF Beside, Running
  <2>2. c.gen = From(p)
    BY <2>1 DEF IsOf, From
  <2>3. c \in Predecessors(p)
    BY <2>1 DEF IsOf, Predecessors
  <2>4. From(p) # 0
    <3>1. c.ver \in Vers
      BY <2>1 DEF TypeInv, Shape, Containers
    <3> QED
      BY <1>2, <2>1, <3>1, DeployAssumption DEF IsOf
  <2>5. mem[p].listed => \E s \in mem[p].snap : IdOf(s) = IdOf(c)
    BY <1>2 DEF Listing, Landed
  <2> QED
    BY <1>3, <2>2, <2>3, <2>4, <2>5
<1>9. Retiring(p)'
  <2>1. Beside(p)'
    BY <1>2, <1>3, SightStill
  <2> QED
    BY <1>2, <1>3, <1>4, <1>8, <2>1 DEF Retiring, Landed, Running, OwnOf
<1>10. Untouched(p)' /\ Aside(p)' /\ Listing(p)' /\ Trying(p)' /\ Undoing(p)'
  BY <1>3 DEF Untouched, Aside, Listing, Trying, Undoing, Room, Unlisted, Asides, Trial, Again,
              Ready, Landed
<1> QED
  BY <1>5, <1>6, <1>7, <1>9, <1>10 DEF Sound, Accounted

\* What a retirement ends, and what that leaves.
LEMMA EndsOld ==
  ASSUME TypeInv, Pristine, Tame, TidyInv, NEW p \in Ops, DeployStep(p), UNCHANGED current,
         pc[p] \in {"retiring", "byname"}, pc'[p] = "retiring",
         NEW gone \in SUBSET containers, \A x \in gone : ~OwnOf(p, x),
         \/ containers' = containers \ gone
         \/ containers' = (containers \ gone) \cup {Stopped(x) : x \in gone},
         mem'[p].saw = mem[p].saw, mem'[p].started = mem[p].started,
         mem'[p].displaced = mem[p].displaced,
         ~mem'[p].flaw => \A c \in Running : \/ OwnOf(p, c) \/ c \in gone
                                             \/ /\ c.gen = From(p)
                                                /\ \E t \in mem'[p].todo : IdOf(t) = IdOf(c)
  PROVE  Sound(p)
<1> USE TidyFrame
<1>1. /\ OwnRuns(p) /\ OwnMade(p) /\ current = NewState(p)
      /\ (mem[p].displaced # {} => plan[p].recreate)
  BY DEF Accounted, Behind, Retiring
<1>2. /\ From(p)' = From(p) /\ Next_(p)' = Next_(p) /\ NewState(p)' = NewState(p)
  BY DEF From, Next_, NewState
<1>3. \A x \in gone : ~Stopped(x).running /\ ~OwnOf(p, Stopped(x))
  BY DEF Stopped, OwnOf, TypeInv, Shape, Containers
<1>4. \A x \in containers' : \/ x \in containers \ gone
                             \/ ~x.running /\ ~OwnOf(p, x)
  BY <1>3
<1>5. OneName' /\ Grounded'
  BY StopsKeepNames DEF Grounded
<1>6. OwnMade(p)'
  BY <1>1, <1>2, <1>4 DEF OwnMade, OwnOf, IdOf, Idle
<1>7. OwnRuns(p)'
  <2>1. PICK c \in Webs : OwnOf(p, c)
    BY <1>1 DEF OwnRuns
  <2>2. c \in Webs'
    BY <2>1 DEF Webs
  <2> QED
    BY <2>1, <2>2 DEF OwnRuns, OwnOf
<1>8. Behind(p)'
  BY <1>1 DEF Behind, Room, Unlisted, Asides, Trial, Again, Ready
<1>9. Retiring(p)'
  <2>1. ~mem'[p].flaw => \A c \in containers' : c.running =>
          \/ OwnOf(p, c)
          \/ c.gen = From(p) /\ \E t \in mem'[p].todo : IdOf(t) = IdOf(c)
    BY <1>4 DEF Running
  <2> QED
    BY <1>1, <1>2, <2>1 DEF Retiring, Landed, Running, OwnOf, IdOf
<1>10. Untouched(p)' /\ Aside(p)' /\ Listing(p)' /\ Trying(p)' /\ Undoing(p)'
  BY DEF Untouched, Aside, Listing, Trying, Undoing, Room, Unlisted, Asides, Trial, Again,
         Ready, Landed
<1> QED
  BY <1>5, <1>6, <1>7, <1>8, <1>9, <1>10 DEF Sound, Accounted

\* A predecessor retired by its id is not its own.
LEMMA RetireTidy ==
  ASSUME TypeInv, Pristine, Tame, Tame', TidyInv, NEW p \in Ops, Retire(p)
  PROVE  Sound(p)
<1>1. DeployStep(p) /\ UNCHANGED <<current, pc>> /\ pc[p] = "retiring"
  BY DEF DeployStep, Retire, At
<1> USE TidyFrame, <1>1
<1>2. PICK c \in mem[p].todo :
        LET there == Identified(IdOf(c))
            gone == {x \in there : NotNewer(x, From(p))}
        IN \/ /\ Holds(p) /\ gone # {}
              /\ Swap(gone, IF SameVersion(p) THEN {} ELSE {Stopped(x) : x \in gone})
              /\ mem' = [mem EXCEPT ![p].todo = @ \ {c}]
           \/ /\ mem' = [mem EXCEPT ![p].todo = @ \ {c}, ![p].flaw = TRUE]
              /\ UNCHANGED containers \/ Swap(gone, {Stopped(x) : x \in gone})
           \/ ~Holds(p)
  BY DEF Retire
<1> DEFINE gone == {x \in Identified(IdOf(c)) : NotNewer(x, From(p))}
<1>3. gone \in SUBSET containers
  BY DEF Identified
<1>4. \A x \in gone : ~OwnOf(p, x)
  <2>1. OwnMade(p) /\ ~Idle(p)
    BY DEF Accounted, Idle
  <2>2. \A x \in containers : OwnOf(p, x) => x.gen = From(p) + 1
    BY <2>1 DEF OwnMade, Next_
  <2> QED
    BY <2>2, Vocabulary DEF NotNewer, Identified
<1>5. CASE /\ mem' = [mem EXCEPT ![p].todo = @ \ {c}, ![p].flaw = TRUE]
           /\ UNCHANGED containers
  <2>1. /\ mem'[p].saw = mem[p].saw /\ mem'[p].started = mem[p].started
        /\ mem'[p].displaced = mem[p].displaced /\ mem'[p].flaw = TRUE
    BY <1>5 DEF Fields
  <2> DEFINE none == {x \in containers : FALSE}
  <2>2. containers' = containers \ none /\ none \in SUBSET containers /\ \A x \in none : FALSE
    BY <1>5
  <2> HIDE DEF gone, none
  <2> QED
    BY <2>1, <2>2, EndsOld
<1>6. CASE /\ mem' = [mem EXCEPT ![p].todo = @ \ {c}, ![p].flaw = TRUE]
           /\ Swap(gone, {Stopped(x) : x \in gone})
  <2>1. /\ mem'[p].saw = mem[p].saw /\ mem'[p].started = mem[p].started
        /\ mem'[p].displaced = mem[p].displaced /\ mem'[p].flaw = TRUE
    BY <1>6 DEF Fields
  <2>2. containers' = (containers \ gone) \cup {Stopped(x) : x \in gone}
    BY <1>6 DEF Swap
  <2> HIDE DEF gone
  <2> QED
    BY <1>3, <1>4, <2>1, <2>2, EndsOld
<1>7. CASE /\ Swap(gone, IF SameVersion(p) THEN {} ELSE {Stopped(x) : x \in gone})
           /\ mem' = [mem EXCEPT ![p].todo = @ \ {c}]
  <2>1. /\ mem'[p].saw = mem[p].saw /\ mem'[p].started = mem[p].started
        /\ mem'[p].displaced = mem[p].displaced /\ mem'[p].flaw = mem[p].flaw
        /\ mem'[p].todo = mem[p].todo \ {c}
    BY <1>7 DEF Fields
  <2>2. \/ containers' = containers \ gone
        \/ containers' = (containers \ gone) \cup {Stopped(x) : x \in gone}
    BY <1>7 DEF Swap
  <2>3. ASSUME ~mem[p].flaw, NEW x \in Running, ~OwnOf(p, x), x \notin gone
        PROVE  x.gen = From(p) /\ \E t \in mem'[p].todo : IdOf(t) = IdOf(x)
    <3>1. x.gen = From(p) /\ \E t \in mem[p].todo : IdOf(t) = IdOf(x)
      BY <2>3 DEF Accounted, Retiring
    <3>2. NotNewer(x, From(p)) /\ x \in containers
      BY <3>1, Vocabulary DEF NotNewer, Running
    <3>3. IdOf(x) # IdOf(c)
      BY <2>3, <3>2 DEF Identified
    <3> QED
      BY <2>1, <3>1, <3>3
  <2> HIDE DEF gone
  <2> QED
    BY <1>3, <1>4, <2>1, <2>2, <2>3, EndsOld
<1> QED
  BY <1>2, <1>5, <1>7, <1>6

\* Neither is one retired by its name; what its name missed is left up.
LEMMA ByNameTidy ==
  ASSUME TypeInv, Pristine, Tame, Tame', TidyInv, NEW p \in Ops, RetireByName(p)
  PROVE  Sound(p)
<1>1. DeployStep(p) /\ UNCHANGED current /\ pc[p] = "byname"
  BY DEF DeployStep, RetireByName, At
<1> USE TidyFrame, <1>1
<1> DEFINE names == {Name(mem[p].saw.hash, proc, SameVersion(p)) : proc \in ProcsOf(p)}
           old == {c \in containers : NameOf(c) \in names}
<1>2. /\ Swap(old, IF SameVersion(p) THEN {} ELSE {Stopped(c) : c \in old})
      /\ mem' = [mem EXCEPT ![p].flaw = SameVersion(p) \/ @ \/ {NameOf(c) : c \in old} # names]
      /\ unsaid' = IF \E c \in Predecessors(p) \ old : c.running THEN unsaid \cup {p} ELSE unsaid
      /\ pc'[p] = "retiring"
  BY DEF RetireByName, Go
<1>3. \A c \in old : ~OwnOf(p, c)
  <2>1. OwnMade(p) /\ ~Idle(p)
    BY DEF Accounted, Idle
  <2>2. ASSUME NEW c \in containers, OwnOf(p, c), NEW proc,
               NameOf(c) = Name(mem[p].saw.hash, proc, SameVersion(p))
        PROVE  FALSE
    <3>1. c.ver = plan[p].ver /\ ~c.replaced
      BY <2>1, <2>2 DEF OwnMade
    <3>2. c.ver = mem[p].saw.hash /\ c.replaced = SameVersion(p)
      BY <2>2 DEF NameOf, Name
    <3> QED
      BY <3>1, <3>2 DEF SameVersion
  <2> QED
    BY <2>2
<1>4. /\ mem'[p].saw = mem[p].saw /\ mem'[p].started = mem[p].started
      /\ mem'[p].displaced = mem[p].displaced
  BY <1>2 DEF Fields
<1>5. \/ containers' = containers \ old
      \/ containers' = (containers \ old) \cup {Stopped(x) : x \in old}
  BY <1>2 DEF Swap
<1>6. \A c \in Running : OwnOf(p, c) \/ c \in old
  <2> SUFFICES ASSUME NEW c \in Running, ~OwnOf(p, c) PROVE c \in old
    OBVIOUS
  <2>1. IsOf(mem[p].saw, c) /\ c.running /\ c \in containers
    BY DEF Accounted, Retiring, Beside, Running
  <2>2. c \in Predecessors(p)
    BY <2>1 DEF IsOf, Predecessors
  <2>3. unsaid' = {}
    BY DEF Tame
  <2>4. ~\E x \in Predecessors(p) \ old : x.running
    BY <1>2, <2>3
  <2> QED
    BY <2>1, <2>2, <2>4
<1>7. old \in SUBSET containers
  OBVIOUS
<1> HIDE DEF old
<1> QED
  BY <1>2, <1>3, <1>4, <1>5, <1>6, <1>7, EndsOld

\* Of a deploy that reports success nothing runs but its own.
LEMMA FinishTidy ==
  ASSUME TypeInv, Pristine, Tame, Tame', TidyInv, NEW p \in Ops, Finish(p)
  PROVE  Sound(p)
<1>1. /\ DeployStep(p) /\ UNCHANGED <<containers, current, mem>>
      /\ pc[p] = "retiring" /\ mem[p].todo = {}
  BY DEF DeployStep, Finish, At, worldVars
<1> USE TidyFrame, <1>1
<1>2. pc'[p] = "release" /\ ~mem[p].flaw
  BY DEF Finish, End, Go, Tame
<1>3. /\ OwnMade(p) /\ OwnRuns(p) /\ Retiring(p) /\ ~Idle(p)
      /\ (mem[p].displaced # {} => plan[p].recreate)
  BY DEF Accounted, Behind, Idle
<1>4. \A c \in Running : /\ OwnOf(p, c) /\ c.ver = plan[p].ver /\ c.gen = Next_(p)
                         /\ ~c.replaced
  <2>1. \A c \in Running : OwnOf(p, c) /\ c \in containers
    BY <1>2, <1>3 DEF Retiring, Running
  <2> QED
    BY <1>3, <2>1 DEF OwnMade
<1>5. Tidy
  <2>1. current = NewState(p)
    BY <1>3 DEF Retiring
  <2>2. \A c \in Running : IsOf(current, c)
    BY <1>4, <2>1 DEF IsOf, NewState
  <2>3. \A c, d \in Webs : c = d
    <3>1. \A c \in Webs : c \in containers /\ NameOf(c) = Mine(p, "web")
      BY <1>4 DEF Webs, Running, NameOf, Mine, Name, TypeInv, Shape, Containers
    <3> QED
      BY <3>1 DEF OneName
  <2>4. \E c \in Webs : TRUE
    BY <1>3 DEF OwnRuns
  <2> QED
    BY <2>2, <2>3, <2>4 DEF Tidy
<1>6. Tidy' /\ OneName' /\ Grounded'
  BY <1>5, TidyStill, OneNameStill DEF Grounded
<1>7. Behind(p)'
  BY <1>2, <1>3, <1>6 DEF Behind, Room, Unlisted, Asides, Trial, Again, Ready
<1>8. /\ Untouched(p)' /\ OwnMade(p)' /\ OwnRuns(p)' /\ Aside(p)' /\ Listing(p)' /\ Trying(p)'
      /\ Undoing(p)' /\ Retiring(p)'
  BY <1>2 DEF Untouched, OwnMade, OwnRuns, Aside, Listing, Trying, Undoing, Retiring,
              Room, Unlisted, Asides, Trial, Again, Ready, Landed
<1> QED
  BY <1>6, <1>7, <1>8 DEF Sound, Accounted

-----------------------------------------------------------------------------
\* What it started is its own, and all of its own that runs.
LEMMA OwnStarted ==
  ASSUME TypeInv, NEW p \in Ops, OwnMade(p), ~Idle(p), pc[p] # "release"
  PROVE  \A c \in containers : /\ IdOf(c) \in mem[p].started => OwnOf(p, c)
                               /\ OwnOf(p, c) /\ c.running => IdOf(c) \in mem[p].started
<1>1. \A c \in containers : IdOf(c)[1] = c.by /\ IdOf(c)[2] = c.how
  BY DEF IdOf
<1> QED
  BY <1>1 DEF OwnMade, OwnOf

\* Until it undoes something, what it owes is what it displaced.
LEMMA OwesDisplaced ==
  ASSUME NEW p \in Ops, Listing(p), pc[p] \in Trial, NEW others \in SUBSET containers
  PROVE  Displaced(p, others) = mem[p].displaced
<1>1. CASE mem[p].displaced # {}
  BY <1>1 DEF Displaced
<1>2. CASE mem[p].displaced = {}
  <2>1. \A s \in mem[p].snap : s.proc = "web" => \A x \in Named(NameOf(s)) : x.running
    BY <1>2 DEF Listing
  <2>2. \A s \in mem[p].snap, x \in others :
          s.proc = "web" /\ NameOf(x) = NameOf(s) => x.running
    BY <2>1 DEF Named
  <2> QED
    BY <1>2, <2>2 DEF Displaced
<1> QED
  BY <1>1, <1>2

\* The removal of what it started leaves what was beside it.
LEMMA CleanTidy ==
  ASSUME TypeInv, Pristine, Tame, Tame', TidyInv, NEW p \in Ops, Clean_(p)
  PROVE  Sound(p)
<1>1. DeployStep(p) /\ UNCHANGED current /\ pc[p] = "clean"
  BY DEF DeployStep, Clean_, At
<1> USE TidyFrame, <1>1
<1>2. /\ OwnMade(p) /\ ~Idle(p) /\ Listing(p) /\ Even(p) /\ mem[p].saw = current
      /\ (mem[p].displaced # {} => plan[p].recreate)
  BY DEF Accounted, Behind, Trying, Trial, Again, Idle
<1>3. PICK stuck \in SUBSET mem[p].started :
        LET gone == {c \in containers : IdOf(c) \in mem[p].started \ stuck}
        IN /\ Swap(gone, {})
           /\ mem' = [mem EXCEPT ![p].todo = Displaced(p, containers \ gone),
                                 ![p].flaw = {IdOf(c) : c \in gone} # mem[p].started]
  BY DEF Clean_
<1> DEFINE gone == {c \in containers : IdOf(c) \in mem[p].started \ stuck}
<1>4. /\ containers' = containers \ gone /\ pc'[p] = "restore"
      /\ mem'[p].todo = Displaced(p, containers \ gone)
      /\ mem'[p].flaw = ({IdOf(c) : c \in gone} # mem[p].started)
      /\ mem'[p].saw = mem[p].saw /\ mem'[p].displaced = mem[p].displaced
      /\ mem'[p].started = mem[p].started
  BY <1>3 DEF Swap, Go, Fields, Clean_
<1>5. \A c \in containers : /\ IdOf(c) \in mem[p].started => OwnOf(p, c)
                            /\ OwnOf(p, c) /\ c.running => IdOf(c) \in mem[p].started
  BY <1>2, OwnStarted
<1>6. \A c \in gone : OwnOf(p, c)
  BY <1>5
<1>7. ~mem'[p].flaw => \A c \in Running' : ~OwnOf(p, c)
  <2> SUFFICES ASSUME {IdOf(c) : c \in gone} = mem[p].started,
                      NEW c \in containers, c.running, OwnOf(p, c)
               PROVE  c \in gone
    BY <1>4 DEF Running
  <2>1. IdOf(c) \in mem[p].started
    BY <1>5
  <2>2. PICK d \in gone : IdOf(d) = IdOf(c)
    BY <2>1
  <2> QED
    BY <2>2
<1>8. mem'[p].todo = mem[p].displaced
  BY <1>2, <1>4, OwesDisplaced DEF Trial, Again
<1>9. Even(p)'
  <2>1. Owed(p)' = Owed(p)
    BY <1>4, <1>8 DEF Owed
  <2>2. /\ \A c \in containers : ~OwnOf(p, c) => c \in containers'
        /\ \A c \in containers' : c \in containers
    BY <1>4, <1>6
  <2> HIDE DEF gone
  <2> QED
    BY <1>2, <1>4, <2>1, <2>2, EvenLasts
<1>10. OneName' /\ Grounded'
  BY <1>4 DEF OneName, NameOf, Grounded
<1>11. OwnMade(p)'
  <2>1. \A c \in containers' : c \in containers
    BY <1>4
  <2> QED
    BY <1>2, <1>4, <2>1 DEF OwnMade, OwnOf, IdOf, Next_, From
<1>12. Behind(p)'
  BY <1>2, <1>4 DEF Behind, Room, Unlisted, Asides
<1>13. Undoing(p)'
  BY <1>4, <1>7, <1>9 DEF Undoing, OwnOf, Running
<1>14. /\ Untouched(p)' /\ OwnRuns(p)' /\ Aside(p)' /\ Listing(p)' /\ Trying(p)' /\ Retiring(p)'
  BY <1>4 DEF Untouched, OwnRuns, Aside, Listing, Trying, Retiring, Room, Unlisted, Asides,
              Trial, Again, Ready, Landed
<1> QED
  BY <1>10, <1>11, <1>12, <1>13, <1>14 DEF Sound, Accounted

\* So does stopping it, before a failed commit is undone.
LEMMA AbortStopTidy ==
  ASSUME TypeInv, Pristine, Tame, Tame', TidyInv, NEW p \in Ops, AbortStop(p)
  PROVE  Sound(p)
<1>1. DeployStep(p) /\ UNCHANGED current /\ pc[p] = "abort"
  BY DEF DeployStep, AbortStop, At
<1> USE TidyFrame, <1>1
<1>2. /\ OwnMade(p) /\ ~Idle(p) /\ Listing(p) /\ Even(p) /\ mem[p].saw = current
      /\ (mem[p].displaced # {} => plan[p].recreate)
  BY DEF Accounted, Behind, Trying, Trial, Again, Idle
<1>3. /\ containers' = (containers \ Started(p)) \cup {Stopped(c) : c \in Started(p)}
      /\ pc'[p] = "abortRestore" /\ mem'[p].todo = Displaced(p, containers)
      /\ mem'[p].saw = mem[p].saw /\ mem'[p].displaced = mem[p].displaced
      /\ mem'[p].started = mem[p].started
  <2>1. PICK stuck : /\ Swap(Started(p) \ stuck, {Stopped(c) : c \in Started(p) \ stuck})
                     /\ unsaid' = IF stuck = {} THEN unsaid ELSE unsaid \cup {p}
    BY DEF AbortStop
  <2>2. stuck = {}
    BY <2>1 DEF Tame
  <2>3. Swap(Started(p), {Stopped(c) : c \in Started(p)})
    BY <2>1, <2>2
  <2>4. pc'[p] = "abortRestore" /\ mem' = [mem EXCEPT ![p].todo = Displaced(p, containers)]
    BY DEF AbortStop, Go
  <2> QED
    BY <2>3, <2>4 DEF Swap, Fields
<1>4. \A c \in containers : /\ c \in Started(p) => OwnOf(p, c)
                            /\ OwnOf(p, c) /\ c.running => c \in Started(p)
  BY <1>2, OwnStarted DEF Started
<1>5. \A c \in Started(p) :
        /\ c \in containers /\ ~Stopped(c).running /\ IdOf(Stopped(c)) = IdOf(c)
        /\ Stopped(c).by = c.by /\ Stopped(c).how = c.how /\ Stopped(c).ver = c.ver
        /\ Stopped(c).gen = c.gen /\ Stopped(c).replaced = c.replaced
  BY DEF Started, Stopped, IdOf, TypeInv, Shape, Containers
<1>6. \A x \in containers' : \/ x \in containers \ Started(p)
                             \/ \E c \in Started(p) : x = Stopped(c)
  BY <1>3
<1>7. \A x \in containers' : x.running => x \in containers /\ ~OwnOf(p, x)
  BY <1>4, <1>5, <1>6
<1>8. mem'[p].todo = mem[p].displaced
  BY <1>2, <1>3, OwesDisplaced DEF Trial, Again
<1>9. Even(p)'
  <2>1. Owed(p)' = Owed(p)
    BY <1>3, <1>8 DEF Owed
  <2>2. \A c \in containers : ~OwnOf(p, c) => c \in containers'
    BY <1>3, <1>4
  <2> QED
    BY <1>2, <1>3, <1>7, <2>1, <2>2, EvenLasts
<1>10. OneName' /\ Grounded'
  <2>1. Started(p) \in SUBSET containers
    BY DEF Started
  <2> QED
    BY <1>3, <2>1, StopsKeepNames DEF Grounded
<1>11. OwnMade(p)'
  <2>1. ASSUME NEW x \in containers', OwnOf(p, x)
        PROVE  /\ ~x.running /\ x.ver = plan[p].ver /\ x.gen = Next_(p) /\ ~x.replaced
    <3>1. \E c \in containers : /\ OwnOf(p, c) /\ x.ver = c.ver
                                /\ x.gen = c.gen /\ x.replaced = c.replaced
      BY <1>5, <1>6, <2>1 DEF OwnOf
    <3> QED
      BY <1>2, <1>7, <2>1, <3>1 DEF OwnMade
  <2> QED
    BY <1>2, <1>3, <2>1 DEF OwnMade, OwnOf, IdOf, Next_, From
<1>12. Behind(p)'
  BY <1>2, <1>3 DEF Behind, Room, Unlisted, Asides
<1>13. Undoing(p)'
  BY <1>3, <1>7, <1>9 DEF Undoing, OwnOf, Running
<1>14. /\ Untouched(p)' /\ OwnRuns(p)' /\ Aside(p)' /\ Listing(p)' /\ Trying(p)' /\ Retiring(p)'
  BY <1>3 DEF Untouched, OwnRuns, Aside, Listing, Trying, Retiring, Room, Unlisted, Asides,
              Trial, Again, Ready, Landed
<1> QED
  BY <1>10, <1>11, <1>12, <1>13, <1>14 DEF Sound, Accounted

\* What is made again of what was displaced serves as it did.
LEMMA ServesAgain ==
  ASSUME TypeInv, OneName, NEW p \in Ops, Down(p), NEW n \in Owed(p), NEW c \in Named(n),
         Swap({c}, {Remade(p, c)}), mem'[p].saw = mem[p].saw
  PROVE  Serves(p)' /\ Owed(p) = {n} /\ c.gen = From(p)
<1>1. PICK x \in containers : /\ ~OwnOf(p, x) /\ x.proc = "web" /\ ~x.running
                              /\ IsOf(mem[p].saw, x) /\ Owed(p) = {NameOf(x)}
  BY DEF Down
<1>2. c = x /\ n = NameOf(x)
  BY <1>1 DEF Named, OneName
<1>3. /\ Remade(p, c).running /\ Remade(p, c).how = "restart" /\ Remade(p, c).ver = c.ver
      /\ Remade(p, c).gen = c.gen /\ Remade(p, c).proc = "web"
  BY <1>1, <1>2 DEF Remade, TypeInv, Shape, Containers
<1> DEFINE r == Remade(p, c)
<1>4. r \in containers' /\ \A y \in containers' : y \in containers \/ y = r
  BY DEF Swap
<1>5. ~OwnOf(p, r) /\ IsOf(mem[p].saw, r) /\ r.running /\ r.proc = "web"
  BY <1>1, <1>2, <1>3 DEF OwnOf, IsOf
<1> HIDE DEF r
<1>6. Beside(p)'
  BY <1>4, <1>5 DEF Down, Beside, Running, OwnOf, IsOf
<1>7. r \in Webs' /\ \A d \in Webs' : OwnOf(p, d) \/ d = r
  BY <1>4, <1>5 DEF Down, Webs
<1>8. Serves(p)'
  BY <1>5, <1>6, <1>7 DEF Serves, OwnOf
<1> QED
  BY <1>1, <1>2, <1>8 DEF IsOf, From

\* A restart, made or not, adds nothing of its own.
LEMMA RestartOwn ==
  ASSUME TypeInv, OneName, NEW p \in Ops, NEW n,
         Restarted(p, n) \/ RestartRefused(p, n) \/ RestartFailed(p, n) \/ RestartSpoils(p, n)
  PROVE  OneName' /\ \A x \in containers' : x \in containers \/ ~OwnOf(p, x)
<1>1. CASE containers' \subseteq containers
  BY <1>1 DEF OneName, NameOf
<1>2. ASSUME NEW c \in Named(n), NEW r \in {Remade(p, c), Stopped(Remade(p, c))}, Swap({c}, {r})
      PROVE  OneName' /\ \A x \in containers' : x \in containers \/ ~OwnOf(p, x)
  <2>1. c \in containers /\ c \in Containers
    BY DEF Named, TypeInv, Shape
  <2>2. NameOf(r) = NameOf(c) /\ r.how = "restart"
    BY <1>2, <2>1 DEF Remade, Stopped, Containers, NameOf
  <2>3. containers' = (containers \ {c}) \cup {r}
    BY <1>2 DEF Swap
  <2>4. \A x \in containers' : x = r \/ (x \in containers /\ NameOf(x) # NameOf(c))
    BY <2>1, <2>3 DEF OneName
  <2>5. \A x, y \in containers' : NameOf(x) = NameOf(y) => x = y
    BY <2>2, <2>4 DEF OneName
  <2> QED
    BY <2>2, <2>3, <2>5 DEF OneName, NameOf, OwnOf
<1>3. \/ containers' \subseteq containers
      \/ \E c \in Named(n) : Swap({c}, {Remade(p, c)}) \/ Swap({c}, {Stopped(Remade(p, c))})
  <2>1. \/ UNCHANGED containers
        \/ \E c \in Named(n) : \/ Swap({c}, {}) \/ Swap({c}, {Remade(p, c)})
                              \/ Swap({c}, {Stopped(Remade(p, c))})
    BY DEF Restarted, RestartRefused, RestartFailed, RestartSpoils
  <2> QED
    BY <2>1 DEF Swap
<1> QED
  BY <1>1, <1>2, <1>3

\* What it displaced comes back, or it says so.
LEMMA RestoreTidy ==
  ASSUME TypeInv, Pristine, Tame, Tame', TidyInv, NEW p \in Ops, Restore(p)
  PROVE  Sound(p)
<1>1. DeployStep(p) /\ UNCHANGED <<current, pc>> /\ pc[p] = "restore"
  BY DEF DeployStep, Restore, At
<1> USE TidyFrame, <1>1
<1>2. /\ OwnMade(p) /\ ~Idle(p) /\ mem[p].saw = current
      /\ (mem[p].displaced # {} => plan[p].recreate)
  BY DEF Accounted, Behind, Idle
<1>3. PICK n \in mem[p].todo :
        \/ Restarted(p, n) /\ mem' = [mem EXCEPT ![p].todo = @ \ {n}]
        \/ /\ RestartRefused(p, n) \/ RestartFailed(p, n) \/ RestartSpoils(p, n)
           /\ mem' = [mem EXCEPT ![p].todo = @ \ {n}, ![p].flaw = TRUE]
  BY DEF Restore
<1>4. /\ mem'[p].todo = mem[p].todo \ {n}
      /\ mem'[p].saw = mem[p].saw /\ mem'[p].displaced = mem[p].displaced
      /\ mem'[p].started = mem[p].started
      /\ ~mem'[p].flaw => ~mem[p].flaw /\ Restarted(p, n)
  BY <1>3 DEF Fields
<1>5. OneName' /\ \A x \in containers' : x \in containers \/ ~OwnOf(p, x)
  BY <1>3, RestartOwn
<1>6. OwnMade(p)'
  BY <1>2, <1>4, <1>5 DEF OwnMade, OwnOf, IdOf, Next_, From
<1>7. Behind(p)'
  BY <1>2, <1>4 DEF Behind, Room, Unlisted, Asides
<1>8. Undoing(p)'
  <2> SUFFICES ASSUME ~mem'[p].flaw PROVE Even(p)' /\ \A c \in Running' : ~OwnOf(p, c)
    BY DEF Undoing, OwnOf
  <2>1. Even(p) /\ \A c \in Running : ~OwnOf(p, c)
    BY <1>4 DEF Accounted, Undoing
  <2>2. Owed(p) = mem[p].todo /\ Owed(p)' = mem'[p].todo
    BY DEF Owed
  <2>3. Down(p)
    BY <2>1, <2>2 DEF Even
  <2>4. PICK c \in Named(n) : Swap({c}, {Remade(p, c)})
    BY <1>4 DEF Restarted
  <2>5. Serves(p)' /\ Owed(p) = {n}
    BY <1>4, <2>2, <2>3, <2>4, ServesAgain
  <2>6. Owed(p)' = {}
    BY <1>4, <2>2, <2>5
  <2> QED
    BY <1>5, <2>1, <2>5, <2>6 DEF Even, Running
<1>9. /\ Untouched(p)' /\ OwnRuns(p)' /\ Aside(p)' /\ Listing(p)' /\ Trying(p)' /\ Retiring(p)'
      /\ Grounded'
  BY DEF Untouched, OwnRuns, Aside, Listing, Trying, Retiring, Grounded, Room,
         Unlisted, Asides, Trial, Again, Ready, Landed
<1> QED
  BY <1>5, <1>6, <1>7, <1>8, <1>9 DEF Sound, Accounted

\* So it does when a commit failed, before the route is put back.
LEMMA AbortRestoreTidy ==
  ASSUME TypeInv, Pristine, Tame, Tame', TidyInv, NEW p \in Ops, AbortRestore(p)
  PROVE  Sound(p)
<1>1. DeployStep(p) /\ UNCHANGED current /\ pc[p] = "abortRestore"
  BY DEF DeployStep, AbortRestore, At
<1> USE TidyFrame, <1>1
<1>2. /\ OwnMade(p) /\ ~Idle(p) /\ mem[p].saw = current
      /\ (mem[p].displaced # {} => plan[p].recreate)
      /\ Even(p) /\ (\A c \in Running : ~OwnOf(p, c)) /\ Owed(p) = mem[p].todo
  BY DEF Accounted, Behind, Undoing, Idle, Owed
<1>3. CASE mem[p].todo = {} /\ Go(p, "abortRoute") /\ UNCHANGED <<containers, mem>>
  <2>1. pc'[p] = "abortRoute" /\ Serves(p)
    BY <1>2, <1>3 DEF Go, Even, Down
  <2> QED
    BY <1>2, <1>3, <2>1, NothingAside, CarryTidy
       DEF Unlisted, Asides, Room, Trial, Again, Landed, Ready, Idle
<1>4. ASSUME NEW n, \/ Restarted(p, n) \/ RestartRefused(p, n)
                    \/ RestartFailed(p, n) \/ RestartSpoils(p, n),
             mem'[p].saw = mem[p].saw, mem'[p].displaced = mem[p].displaced,
             mem'[p].started = mem[p].started, pc'[p] \in {"abortRestore", "abortStart"},
             Undoing(p)'
      PROVE  Sound(p)
  <2>1. OneName' /\ \A x \in containers' : x \in containers \/ ~OwnOf(p, x)
    BY <1>4, RestartOwn
  <2>2. OwnMade(p)'
    BY <1>2, <1>4, <2>1 DEF OwnMade, OwnOf, IdOf, Next_, From
  <2>3. Behind(p)'
    BY <1>2, <1>4 DEF Behind, Room, Unlisted, Asides, Trial, Again, Ready
  <2>4. /\ Untouched(p)' /\ OwnRuns(p)' /\ Aside(p)' /\ Listing(p)' /\ Trying(p)' /\ Retiring(p)'
        /\ Grounded'
    BY <1>4 DEF Untouched, OwnRuns, Aside, Listing, Trying, Retiring, Grounded, Room,
                Unlisted, Asides, Trial, Again, Ready, Landed
  <2> QED
    BY <1>4, <2>1, <2>2, <2>3, <2>4 DEF Sound, Accounted
<1>5. CASE \E n \in mem[p].todo :
             /\ Restarted(p, n) \/ RestartRefused(p, n)
             /\ mem' = [mem EXCEPT ![p].todo = @ \ {n}]
             /\ UNCHANGED pc
  <2>1. PICK n \in mem[p].todo : /\ Restarted(p, n) \/ RestartRefused(p, n)
                                 /\ mem' = [mem EXCEPT ![p].todo = @ \ {n}]
                                 /\ UNCHANGED pc
    BY <1>5
  <2>2. /\ mem'[p].todo = mem[p].todo \ {n}
        /\ mem'[p].saw = mem[p].saw /\ mem'[p].displaced = mem[p].displaced
        /\ mem'[p].started = mem[p].started
    BY <2>1 DEF Fields
  <2>3. Down(p)
    BY <1>2 DEF Even
  <2>4. ~RestartRefused(p, n)
    <3>1. PICK x \in containers : IsOf(mem[p].saw, x) /\ Owed(p) = {NameOf(x)}
      BY <2>3 DEF Down
    <3>2. \A c \in Named(n) : c = x
      BY <1>2, <3>1 DEF Named, OneName
    <3>3. MayRestart(p, x)
      BY <3>1, Vocabulary DEF MayRestart, IsOf, From
    <3> QED
      BY <3>2, <3>3 DEF RestartRefused
  <2>5. PICK c \in Named(n) : Swap({c}, {Remade(p, c)})
    BY <2>1, <2>4 DEF Restarted
  <2>6. Serves(p)' /\ Owed(p) = {n}
    BY <1>2, <2>2, <2>3, <2>5, ServesAgain
  <2>7. Owed(p)' = {}
    BY <1>2, <2>1, <2>2, <2>6 DEF Owed
  <2>8. \A x \in containers' : x.running => ~OwnOf(p, x)
    <3>1. \A x \in containers' : x \in containers \/ ~OwnOf(p, x)
      BY <2>1, RestartOwn
    <3> QED
      BY <1>2, <3>1 DEF Running
  <2>9. Undoing(p)'
    BY <2>1, <2>6, <2>7, <2>8 DEF Undoing, Even, Running, OwnOf
  <2> QED
    BY <1>4, <2>1, <2>2, <2>9
<1>6. CASE \E n \in mem[p].todo :
             /\ RestartFailed(p, n) \/ RestartSpoils(p, n)
             /\ Go(p, "abortStart") /\ UNCHANGED mem
  <2>1. PICK n \in mem[p].todo : /\ RestartFailed(p, n) \/ RestartSpoils(p, n)
                                 /\ Go(p, "abortStart") /\ UNCHANGED mem
    BY <1>6
  <2>2. pc'[p] = "abortStart"
    BY <2>1 DEF Go
  <2> QED
    BY <1>4, <2>1, <2>2 DEF Undoing
<1> QED
  BY <1>3, <1>5, <1>6 DEF AbortRestore

\* The ends of an undoing.
LEMMA UndoneTidy ==
  ASSUME TypeInv, Pristine, Tame, Tame', TidyInv, NEW p \in Ops, Restored(p) \/ AbortRemove(p)
  PROVE  Sound(p)
<1>1. DeployStep(p) /\ UNCHANGED <<current, mem>>
  BY DEF DeployStep, Restored, AbortRemove, worldVars
<1> USE TidyFrame, <1>1
<1>2. pc[p] \in {"restore", "abortRemove"} /\ pc'[p] = "release" /\ ~Idle(p)
  BY DEF Restored, AbortRemove, At, End, Go, Idle
<1>3. /\ OwnMade(p) /\ mem[p].saw = current
      /\ (mem[p].displaced # {} => plan[p].recreate)
  BY <1>2 DEF Accounted, Behind
<1>4. /\ Serves(p) /\ containers' \subseteq containers
      /\ \A c \in containers : ~OwnOf(p, c) => c \in containers'
      /\ \A c \in Running' : ~OwnOf(p, c)
  <2>1. CASE Restored(p)
    <3>1. pc[p] = "restore" /\ mem[p].todo = {} /\ UNCHANGED containers /\ ~mem[p].flaw
      BY <2>1 DEF Restored, At, worldVars, End, Tame
    <3>2. Even(p) /\ \A c \in Running : ~OwnOf(p, c)
      BY <3>1 DEF Accounted, Undoing
    <3>3. Serves(p)
      BY <3>1, <3>2 DEF Even, Down, Owed
    <3> QED
      BY <3>1, <3>2, <3>3 DEF Running
  <2>2. CASE AbortRemove(p)
    <3>1. Serves(p)
      BY <2>2 DEF Accounted, Undoing, AbortRemove, At
    <3>2. PICK stuck :
            LET left == IF plan[p].recreate
                        THEN stuck \cup {x \in Started(p) : x.running} ELSE stuck
            IN /\ Swap(Started(p) \ left, {})
               /\ unsaid' = IF left = {} THEN unsaid ELSE unsaid \cup {p}
      BY <2>2 DEF AbortRemove
    <3> DEFINE left == IF plan[p].recreate THEN stuck \cup {x \in Started(p) : x.running} ELSE stuck
    <3>3. Swap(Started(p) \ left, {}) /\ unsaid' = IF left = {} THEN unsaid ELSE unsaid \cup {p}
      BY <3>2
    <3> HIDE DEF left
    <3>4. left = {}
      BY <3>3 DEF Tame
    <3>5. containers' = containers \ Started(p)
      BY <3>3, <3>4 DEF Swap
    <3>6. \A c \in containers : /\ c \in Started(p) => OwnOf(p, c)
                                /\ OwnOf(p, c) /\ c.running => c \in Started(p)
      BY <1>2, <1>3, OwnStarted DEF Started
    <3> QED
      BY <3>1, <3>5, <3>6 DEF Running
  <2> QED
    BY <2>1, <2>2
<1>5. OneName' /\ Grounded'
  BY <1>4 DEF OneName, NameOf, Grounded
<1>6. Serves(p)'
  BY <1>4, ServesLasts
<1>7. Tidy'
  BY <1>3, <1>4, <1>6 DEF Tidy, Serves, Beside, Running, Webs, OwnOf, IsOf
<1>8. Behind(p)'
  BY <1>2, <1>3, <1>7 DEF Behind, Room, Unlisted, Asides, Trial, Again, Ready
<1>9. /\ Untouched(p)' /\ OwnMade(p)' /\ OwnRuns(p)' /\ Aside(p)' /\ Listing(p)' /\ Trying(p)'
      /\ Undoing(p)' /\ Retiring(p)'
  BY <1>2 DEF Untouched, OwnMade, OwnRuns, Aside, Listing, Trying, Undoing, Retiring,
              Room, Unlisted, Asides, Trial, Again, Ready, Landed
<1> QED
  BY <1>5, <1>8, <1>9 DEF Sound, Accounted

\* One step of one deploy.
LEMMA StepTidy ==
  ASSUME TypeInv, Pristine, Tame, Tame', TidyInv, NEW p \in Ops, DeployStep(p), UNCHANGED holder
  PROVE  TidyInv'
<1>1. ~AbortStart(p) /\ ~AbortKeep(p)
  <2>1. AbortStart(p) \/ AbortKeep(p) => outcome'[p] = "attention"
    BY Handy DEF AbortStart, AbortKeep, End
  <2> QED
    BY <2>1 DEF Tame
<1>2. Sound(p)
  BY <1>1, ReadsTidy, DecidesTidy, SnapshotTidy, ClearTidy, RenameTidy, DisplaceTidy, StartsTidy,
     ClearsOwnName, CommitTidy, BeginsTidy, RetireTidy, ByNameTidy, FinishTidy, CleanTidy,
     RestoreTidy, AbortStopTidy, AbortRestoreTidy, UndoneTidy DEF DeployStep
<1> QED
  BY <1>2, TidyStep

-----------------------------------------------------------------------------
(* The premises, the lock and the whole.                                   *)

\* A deploy's step reports its end, or nothing.
LEMMA StepReports ==
  ASSUME TypeInv, NEW p \in Ops, DeployStep(p)
  PROVE  /\ \A q \in Ops \ {p} : outcome'[q] = outcome[q]
         /\ outcome'[p] = outcome[p] \/ pc'[p] = "release"
<1> USE Handy
<1>1. CASE \/ ReadState(p) \/ ResolveRoute(p) \/ Reconcile(p) \/ CheckRename(p) \/ Rename(p)
           \/ Snapshot(p) \/ CheckDisplace(p) \/ Displace(p) \/ Health(p)
  BY <1>1 DEF ReadState, ResolveRoute, Reconcile, CheckRename, Rename, Snapshot, lockVars,
              CheckDisplace, Displace, Health, Go, End
<1>2. CASE StartWeb(p) \/ StartWorker(p) \/ Rerun(p)
  BY <1>2 DEF StartWeb, StartWorker, Rerun
<1>8. CASE \/ InspectReplaced(p) \/ ClearReplaced(p) \/ ConfirmAbsent(p) \/ ClearStopped(p)
           \/ Vacate(p) \/ InspectPartial(p) \/ RemovePartial(p)
  BY <1>8 DEF InspectReplaced, ClearReplaced, ConfirmAbsent, ClearStopped, Vacate,
              InspectPartial, RemovePartial, Go, End
<1>3. CASE \/ Switch(p) \/ Reread(p) \/ Commit(p) \/ RetireStaleRoute(p) \/ Record(p)
           \/ BeginRetire(p) \/ Finish(p)
  BY <1>3 DEF Switch, Reread, Commit, RetireStaleRoute, Record, BeginRetire,
              Finish, Go, End, lockVars
<1>4. CASE Clean_(p) \/ Restored(p) \/ AbortStart(p) \/ RestoreRoute(p) \/ AbortKeep(p)
  BY <1>4 DEF Clean_, Restored, AbortStart, RestoreRoute, AbortKeep, Go, End, lockVars
<1>5. CASE Retire(p) \/ Restore(p)
  BY <1>5 DEF Retire, Restore, lockVars
<1>6. CASE AbortRestore(p)
  BY <1>6 DEF AbortRestore, Go, lockVars
<1>7. CASE RetireByName(p) \/ AbortStop(p) \/ AbortRemove(p)
  BY <1>7 DEF RetireByName, AbortStop, AbortRemove, Go, End
<1> QED
  BY <1>1, <1>2, <1>3, <1>4, <1>5, <1>6, <1>7, <1>8 DEF DeployStep

\* What is reported stays; who is dead stays so.
LEMMA ReportsStay ==
  ASSUME TypeInv, Answered, [Next]_vars
  PROVE  /\ Answered'
         /\ \A q \in Ops : outcome[q] # "none" => outcome'[q] = outcome[q]
         /\ \A q \in Ops : pc[q] = "crashed" => pc'[q] = "crashed"
<1> USE Handy
<1>1. ASSUME NEW p \in Ops, Acquire(p) \/ Release(p) \/ Crash(p)
      PROVE  /\ Answered' /\ UNCHANGED outcome
             /\ \A q \in Ops : pc[q] = "crashed" => pc'[q] = "crashed"
  <2>1. UNCHANGED outcome
    BY <1>1 DEF Acquire, Release, Crash
  <2>2. /\ \A q \in Ops \ {p} : pc'[q] = pc[q]
        /\ pc[p] # "crashed"
        /\ pc[p] = "start" \/ pc'[p] \in {"done", "crashed"}
    BY <1>1, DeployAssumption DEF Acquire, Release, Crash, At, Go, Steps
  <2> QED
    BY <2>1, <2>2 DEF Answered
<1>2. ASSUME NEW p \in Ops, DeployStep(p)
      PROVE  /\ Answered'
             /\ \A q \in Ops : outcome[q] # "none" => outcome'[q] = outcome[q]
             /\ \A q \in Ops : pc[q] = "crashed" => pc'[q] = "crashed"
  <2>1. pc[p] \notin {"release", "done", "crashed"}
    BY <1>2, Mover DEF Idle
  <2>2. outcome[p] = "none"
    BY <2>1 DEF Answered
  <2> QED
    BY <1>2, <2>1, <2>2, OwnPlace, StepReports DEF Answered
<1>3. Unlock \/ UNCHANGED vars => UNCHANGED <<outcome, pc>>
  BY DEF Unlock, vars
<1> QED
  BY <1>1, <1>2, <1>3 DEF Next, Answered

\* The premises held before they hold now.
LEMMA TameBefore ==
  ASSUME TypeInv, Answered, [Next]_vars, Tame' PROVE Tame
<1>1. /\ \A q \in Ops : outcome[q] # "none" => outcome'[q] = outcome[q]
      /\ \A q \in Ops : pc[q] = "crashed" => pc'[q] = "crashed"
  BY ReportsStay
<1>2. usurped = {} /\ unsaid = {} /\ blind = {}
  BY HistoriesStay DEF Tame
<1> QED
  BY <1>1, <1>2 DEF Tame

\* What an idle deploy has to account for.
LEMMA IdleAccounts ==
  ASSUME NEW q \in Ops, pc'[q] = pc[q], pc[q] \in {"start", "done"}, mem'[q] = mem[q],
         Accounted(q), UNCHANGED <<plan, containers, current>>
  PROVE  Accounted(q)'
<1>1. Untouched(q)' /\ Behind(q)'
  BY DEF Accounted, Untouched, Behind, Room, Unlisted, Asides, Trial, Again, Ready
<1>2. /\ OwnMade(q)' /\ OwnRuns(q)' /\ Aside(q)' /\ Listing(q)' /\ Trying(q)'
      /\ Undoing(q)' /\ Retiring(q)'
  BY DEF OwnMade, Idle, OwnRuns, Aside, Listing, Trying, Undoing, Retiring, Trial, Again,
         Ready, Landed, Asides
<1> QED
  BY <1>1, <1>2 DEF Accounted

\* The lock is taken when nobody moves, and given back when all is tidy.
LEMMA LockTidy ==
  ASSUME TypeInv, Pristine, Tame, Tame', TidyInv, NEW p \in Ops,
         Acquire(p) \/ Release(p) \/ Crash(p)
  PROVE  TidyInv'
<1> USE Handy
<1>0. UNCHANGED <<plan, containers, current>> /\ Lone /\ Accounted(p)
  BY DEF Acquire, Release, Crash, lockVars, worldVars, TidyInv
<1>1. OneName' /\ Grounded'
  BY <1>0, OneNameStill DEF TidyInv, Grounded
<1>2. /\ \A q \in Ops \ {p} : pc'[q] = pc[q] /\ mem'[q] = mem[q]
      /\ Acquire(p) => pc[p] = "start" /\ pc'[p] = "read" /\ mem'[p] = mem[p] /\ holder' = p
      /\ Release(p) => pc[p] = "release" /\ pc'[p] = "done"
                       /\ mem'[p] = [Blank EXCEPT !.saw = mem[p].saw]
      /\ Crash(p) => pc'[p] = "crashed"
  BY DeployAssumption DEF Acquire, Release, Crash, Go, Forget, At
<1>3. ~Crash(p)
  BY <1>2 DEF Tame
<1>4. ASSUME \A q \in Ops \ {p} : pc[q] \in {"start", "done"}
      PROVE  \A q \in Ops \ {p} : Accounted(q)'
  BY <1>0, <1>2, <1>4, IdleAccounts DEF TidyInv
<1>5. CASE Acquire(p)
  <2>1. holder = NoOne
    <3>1. ASSUME holder # NoOne PROVE FALSE
      <4>1. usurped' = usurped \cup {q \in {holder} : Alive(q)} /\ usurped' = {}
        BY <1>5, <3>1 DEF Acquire, Tame
      <4>2. holder \in Ops /\ ~Alive(holder)
        BY <3>1, <4>1 DEF TypeInv, TypeOK
      <4>3. pc[holder] # "done" /\ pc[holder] # "crashed"
        BY <1>0, <3>1, <4>2 DEF Lone, Tame
      <4> QED
        BY <4>2, <4>3 DEF Alive, Final
    <3> QED
      BY <3>1
  <2>2. \A q \in Ops : pc[q] \in {"start", "done"}
    BY <1>0, <2>1, DeployAssumption DEF Lone, Idle, Holds, Tame, Makers
  <2>3. Lone'
    BY <1>2, <1>5, <2>2 DEF Lone, Idle, Holds
  <2>4. Tidy' /\ \A c \in containers : c.by # p
    BY <1>0, <1>2, <1>5, <2>2, TidyStill DEF TidyInv, Rested, Accounted, Untouched
  <2>5. mem'[p] = Blank /\ pc'[p] = "read"
    BY <1>2, <1>5 DEF Pristine
  <2>6. Untouched(p)' /\ OwnMade(p)' /\ OwnRuns(p)' /\ Behind(p)'
    BY <1>0, <2>4, <2>5
       DEF Untouched, OwnMade, OwnOf, OwnRuns, Behind, Blank, Room, Unlisted, Asides,
                            Trial, Again, Ready, Landed
  <2>7. Aside(p)' /\ Listing(p)' /\ Trying(p)' /\ Undoing(p)' /\ Retiring(p)'
    BY <2>5 DEF Aside, Listing, Trying, Undoing, Retiring, Trial, Again, Ready, Landed, Asides
  <2>8. Rested'
    BY <2>5 DEF Rested
  <2> QED
    BY <1>1, <1>4, <2>2, <2>3, <2>6, <2>7, <2>8 DEF TidyInv, Accounted
<1>6. CASE Release(p)
  <2>1. Holds(p) /\ \A q \in Ops \ {p} : pc[q] \in {"start", "done"}
    BY <1>0, <1>2, <1>6 DEF Lone, Idle, Holds, Tame
  <2>2. holder' = NoOne
    BY <1>6, <2>1 DEF Release
  <2>3. Lone'
    BY <1>2, <1>6, <2>1, <2>2 DEF Lone, Idle
  <2>4. Rested'
    <3>1. Tidy
      BY <1>0, <1>2, <1>6 DEF Accounted, Behind
    <3> QED
      BY <1>0, <3>1, TidyStill DEF Rested
  <2>5. pc'[p] = "done" /\ mem'[p].displaced = {}
    BY <1>2, <1>6 DEF Blank
  <2>6. Untouched(p)' /\ OwnMade(p)' /\ OwnRuns(p)' /\ Behind(p)'
    BY <2>5 DEF Untouched, OwnMade, OwnRuns, Behind, Idle, Room, Unlisted, Asides, Trial, Again,
                Ready, Landed
  <2>7. Aside(p)' /\ Listing(p)' /\ Trying(p)' /\ Undoing(p)' /\ Retiring(p)'
    BY <2>5 DEF Aside, Listing, Trying, Undoing, Retiring, Trial, Again, Ready, Landed, Asides
  <2> QED
    BY <1>1, <1>4, <2>1, <2>3, <2>4, <2>6, <2>7 DEF TidyInv, Accounted
<1> QED
  BY <1>3, <1>5, <1>6

\* No one's lock is taken away.
LEMMA UnlockNever ==
  ASSUME TypeInv, Tame, Tame', TidyInv PROVE ~Unlock
<1> SUFFICES ASSUME Unlock PROVE FALSE
  OBVIOUS
<1>1. ~Alive(holder) /\ holder \in Ops /\ holder # NoOne
  <2>1. usurped' = usurped \cup {q \in {holder} : Alive(q)} /\ usurped' = {} /\ holder # NoOne
    BY DEF Unlock, Tame
  <2> QED
    BY <2>1 DEF TypeInv, TypeOK
<1> QED
  BY <1>1 DEF TidyInv, Lone, Tame, Alive, Final

\* A stutter changes nothing.
LEMMA StillTidy ==
  ASSUME TidyInv, UNCHANGED vars PROVE TidyInv'
<1>1. UNCHANGED <<plan, holder, containers, current, pc, mem>>
  BY DEF vars
<1>2. Lone' /\ OneName' /\ Grounded' /\ Rested'
  BY <1>1, OneNameStill, TidyStill DEF TidyInv, Lone, Idle, Holds, Grounded, Rested
<1>3. ASSUME NEW p \in Ops PROVE Accounted(p)'
  <2>0. Accounted(p)
    BY DEF TidyInv
  <2>1. /\ SameVersion(p)' = SameVersion(p) /\ From(p)' = From(p) /\ Next_(p)' = Next_(p)
        /\ NewState(p)' = NewState(p) /\ Owed(p)' = Owed(p) /\ Mine(p, "web")' = Mine(p, "web")
    BY <1>1 DEF SameVersion, From, Next_, NewState, Owed, Mine
  <2>2. Untouched(p)' /\ OwnMade(p)' /\ OwnRuns(p)'
    BY <1>1, <2>0, <2>1 DEF Accounted, Untouched, OwnMade, OwnRuns, OwnOf, Idle, Webs
  <2>3. Behind(p)' /\ Aside(p)'
    BY <1>1, <2>0, <2>1, TidyStill DEF Accounted, Behind, Aside, Named, Renamed, Mine, NextProc
  <2>4. Listing(p)'
    BY <1>1, <2>0, <2>1 DEF Accounted, Listing, Running, Named, OwnOf
  <2>5. Trying(p)' /\ Undoing(p)'
    BY <1>1, <2>0, <2>1, SightStill DEF Accounted, Trying, Undoing, Running, OwnOf
  <2>6. Retiring(p)'
    BY <1>1, <2>0, <2>1, SightStill DEF Accounted, Retiring, Running, OwnOf
  <2> QED
    BY <2>2, <2>3, <2>4, <2>5, <2>6 DEF Accounted
<1> QED
  BY <1>2, <1>3 DEF TidyInv

\* The founding release is all that runs.
LEMMA TidyStarts == Init => TidyIInv
<1> SUFFICES ASSUME Init PROVE TidyIInv
  OBVIOUS
<1>1. TypeInv /\ Pristine /\ Answered /\ Lone
  BY TypesStart DEF Init, Pristine, Answered, Lone, Idle
<1>2. containers = Founded /\ \A p \in Ops : pc[p] = "start" /\ mem[p] = Blank
  BY DEF Init
<1>3. /\ \A c \in containers : /\ c.by = Founder /\ c.ver = plan[Founder].ver /\ c.gen = 1
                               /\ ~c.replaced /\ c.running /\ plan[Founder].ver # NoVer
      /\ \A c, d \in containers : c.proc = d.proc => c = d
      /\ plan[Founder].ver # NoVer => \E c \in containers : c.proc = "web"
  <2>1. CASE plan[Founder].ver = NoVer
    BY <1>2, <2>1 DEF Founded
  <2>2. CASE plan[Founder].ver # NoVer
    <3> DEFINE Of(proc) == Container(Founder, proc, 1)
    <3>1. containers = {Of(proc) : proc \in ProcsOf(Founder)}
      BY <1>2, <2>2 DEF Founded
    <3>2. \A proc : /\ Of(proc).by = Founder /\ Of(proc).ver = plan[Founder].ver
                    /\ Of(proc).gen = 1 /\ Of(proc).replaced = FALSE /\ Of(proc).running = TRUE
                    /\ Of(proc).proc = proc
      BY DEF Container
    <3>3. "web" \in ProcsOf(Founder)
      BY DEF ProcsOf
    <3> HIDE DEF Of
    <3> QED
      BY <2>2, <3>1, <3>2, <3>3
  <2> QED
    BY <2>1, <2>2
<1>4. OneName
  BY <1>3 DEF OneName, NameOf, Name
<1>5. /\ current.hash = plan[Founder].ver
      /\ current.gen = IF plan[Founder].ver = NoVer THEN 0 ELSE 1
  BY DEF Init, NoState
<1>6. Grounded
  BY <1>5 DEF Grounded
<1>7. Tidy
  <2>1. \A c \in Running : IsOf(current, c)
    BY <1>3, <1>5 DEF Running, IsOf
  <2>2. ASSUME current.hash # NoVer PROVE \E c \in Webs : \A d \in Webs : d = c
    <3>1. PICK c \in containers : c.proc = "web"
      BY <1>3, <1>5, <2>2
    <3> QED
      BY <1>3, <3>1 DEF Webs
  <2> QED
    BY <2>1, <2>2 DEF Tidy
<1>8. ASSUME NEW p \in Ops PROVE Accounted(p)
  <2>1. Untouched(p) /\ Behind(p)
    BY <1>2, <1>3, DeployAssumption
       DEF Untouched, Behind, Blank, Room, Unlisted, Asides, Trial, Again, Ready
  <2>2. /\ OwnMade(p) /\ OwnRuns(p) /\ Aside(p) /\ Listing(p) /\ Trying(p) /\ Undoing(p)
        /\ Retiring(p)
    BY <1>2 DEF OwnMade, Idle, OwnRuns, Aside, Listing, Trying, Undoing, Retiring,
                Trial, Again, Ready, Landed, Asides
  <2> QED
    BY <2>1, <2>2 DEF Accounted
<1> QED
  BY <1>1, <1>4, <1>6, <1>7, <1>8 DEF TidyIInv, TidyInv, Rested

\* Every step keeps the invariant.
LEMMA TidyStays == TidyIInv /\ [Next]_vars => TidyIInv'
<1> SUFFICES ASSUME TidyIInv, [Next]_vars PROVE TidyIInv'
  OBVIOUS
<1>1. TypeInv' /\ Pristine' /\ Answered' /\ TypeInv /\ Pristine /\ Answered
  BY TypesStay, PristineStays, ReportsStay DEF TidyIInv
<1>2. ASSUME Tame' PROVE TidyInv'
  <2>1. Tame /\ TidyInv
    BY <1>1, <1>2, TameBefore DEF TidyIInv
  <2> QED
    BY <1>1, <1>2, <2>1, StepTidy, LockTidy, UnlockNever, StillTidy DEF Next
<1> QED
  BY <1>1, <1>2 DEF TidyIInv

(* When every deploy has ended and reported success, a plain failure or a  *)
(* refusal, with no lock lost, no look at a _replaced name failed and      *)
(* nothing left running outside what it undoes or retires, what runs is    *)
(* the authority's release with one web container: for any number of       *)
(* deploys, whatever runs, lists, stops, restarts, routes and commits fail *)
(* on the way, a success of deployFenced has retired what it replaced, and *)
(* a failure has undone itself.                                            *)
THEOREM SettlesClean == Spec => []SettledClean
<1>1. TidyIInv => SettledClean
  <2> SUFFICES ASSUME TidyIInv,
                      \A p \in Ops : At(p, "done") /\ outcome[p] \in {"ok", "failed", "refused"},
                      usurped = {} /\ unsaid = {} /\ blind = {}
               PROVE  /\ \A c \in Running : c.ver = current.hash /\ c.gen = current.gen
                      /\ current.hash # NoVer => Cardinality(Webs) = 1
    BY DEF SettledClean
  <2>1. Tame
    BY DEF Tame, At
  <2>2. Tidy
    BY <2>1 DEF TidyIInv, TidyInv, Rested, At
  <2>3. \A c \in Running : c.ver = current.hash /\ c.gen = current.gen
    BY <2>2 DEF Tidy, IsOf
  <2>4. ASSUME current.hash # NoVer PROVE Cardinality(Webs) = 1
    <3>1. PICK c \in Webs : Webs = {c}
      BY <2>2, <2>4 DEF Tidy
    <3> QED
      BY <3>1, FS_Singleton
  <2> QED
    BY <2>3, <2>4
<1>2. TidyIInv /\ [Next]_vars => TidyIInv'
  BY TidyStays
<1> QED
  BY <1>1, <1>2, TidyStarts, PTL DEF Spec
=============================================================================
