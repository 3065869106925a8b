------------------------------ MODULE Routes_proofs -----------------------------
(***************************************************************************)
(* What TLAPS proves of what moves an app's route after its deploys, for   *)
(* any number of edits, apps, operations and releases.                     *)
(*                                                                         *)
(* The edits of the shared Caddyfile, while no editor that lost the lock   *)
(* has put a file back: no edit changes another app's block, one of the    *)
(* edits that compare with the same block succeeds, and what is left when  *)
(* all have ended is Caddy running a file of successful edits.  An editor  *)
(* is named once, between its upload and its end; so an editor that is     *)
(* still named has seen every write since it read, and those were its own. *)
(*                                                                         *)
(* A rollback that lost its lock moves neither the route nor the state and *)
(* touches no running container of a newer generation, but for the         *)
(* containers its undo stops by name.  Every other effect carries the lock *)
(* guard, or takes a free name, or compares the generation the rollback    *)
(* started from with the container's label.                                *)
(*                                                                         *)
(* While no lock was lost one operation is at work at a time, and what it  *)
(* has done so far is what its stage says: which containers it stopped and *)
(* which it made, what it remembers of them, and where the route is.  So a *)
(* rollback that fails leaves what it found, and what ends in success      *)
(* serves, whichever command failed and whatever a dead operation left.    *)
(***************************************************************************)
EXTENDS CaddyEdit, Rollback, TLAPS

\* Past the upload of its info, answered or not, and before its end; an editor
\* whose release was not answered stays named.
Editing == {"read", "commit", "reload", "verify", "rollback", "reloadBack", "release",
            "unwind", "done", "crashed"}

Shape ==
  /\ file \in CaddyFiles /\ prev \in [Editors -> CaddyFiles]
  /\ pc \in [Editors -> Steps \cup Final]
  /\ info \in Editors \cup {NoOne}
  /\ expect \in [Editors -> Blocks] /\ outcome \in [Editors -> Outcomes]

NamedIsEditing == \A e \in Editors : Named(e) => pc[e] \in Editing

ReadIsCurrent ==
  strays = {} => \A e \in Editors : Named(e) =>
    /\ At(e, "commit") => file = prev[e]
    /\ pc[e] \in {"reload", "verify", "rollback"} => file = Edited(e)

\* An outcome comes last, and what is to be committed replaces what was read.
OutcomeLast == \A e \in Editors :
  /\ outcome[e] # "none" => pc[e] \in {"release", "done", "crashed"}
  /\ pc[e] \in {"commit", "reload", "verify"} => Replaced(e)

\* The block of an edit is nowhere before its commit.
NotYet == \A e \in Editors :
  /\ \A a \in Apps : prev[e][a] # e
  /\ ~Past(e) => \A a \in Apps : /\ file[a] # e
                                 /\ \A h \in Editors : prev[h][a] # e /\ expect[h] # e

\* Caddy runs the file, or some edit is not through with it.
Unsettled(e) == \/ pc[e] \in {"reload", "rollback", "reloadBack", "crashed"}
                \/ outcome[e] \in {"lost", "stale"}
RunsFile == running # file => \E e \in Editors : Unsettled(e)

\* The edits whose block may be there, and those that put theirs there.
Lives(e) == \/ pc[e] \in {"reload", "verify", "rollback", "crashed"}
            \/ outcome[e] \in {"lost", "stale"}
            \/ outcome[e] = "ok" /\ Replaced(e)
Won(e) == pc[e] \in {"reload", "verify"} \/ (outcome[e] = "ok" /\ Replaced(e))
Holding(h) == Named(h) /\ pc[h] \in {"commit", "reload", "verify", "rollback"}

\* An app's block in a file is of such an edit, or the first one where no edit
\* has put its own; and so for what a named editor may put back.
Backed(f, a, but) ==
  \/ \E g \in Editors \ {but} : AppOf[g] = a /\ Lives(g) /\ f[a] = Block(g)
  \/ f[a] = Before /\ \A w \in Editors \ {but} : AppOf[w] = a => ~Won(w)
AllBacked == strays = {} => \A a \in Apps :
  /\ Backed(file, a, NoOne)
  /\ \A h \in Editors : Holding(h) => Backed(prev[h], a, h)

\* The block an edit was compared with does not come back, nor is it about to,
\* and so no second edit that compares with it succeeds.
Removed(e) == expect[e] = NoBlock /\ \E r \in Removers : AppOf[r] = AppOf[e] /\ Past(r)
NotBack == strays = {} => \A w \in Comparing \ Removers : Won(w) /\ ~Removed(w) =>
  /\ file[AppOf[w]] # expect[w]
  /\ \A h \in Editors \ {w} : Holding(h) => prev[h][AppOf[w]] # expect[w]
OnlyOne == strays = {} => \A d, e \in Comparing \ Removers :
  d # e /\ AppOf[d] = AppOf[e] /\ Won(d) /\ Won(e) => expect[d] # expect[e] \/ Removed(d)

EditInv == /\ Shape /\ NamedIsEditing /\ ReadIsCurrent /\ OutcomeLast /\ NotYet /\ RunsFile
           /\ AllBacked /\ NotBack /\ OnlyOne

-----------------------------------------------------------------------------
\* An edit makes a file that differs in its app's block only.
LEMMA EditedIsFile ==
  ASSUME Shape, NEW e \in Editors
  PROVE  /\ Edited(e) \in CaddyFiles
         /\ \A a \in Apps \ {AppOf[e]} : Edited(e)[a] = prev[e][a]
BY EditAssumption DEF Shape, Edited, CaddyFiles, Blocks, Block

\* The file before any edit.
LEMMA EditStarts == Init => EditInv
<1> SUFFICES ASSUME Init PROVE EditInv
  OBVIOUS
<1>1. Shape /\ NamedIsEditing /\ ReadIsCurrent
  BY EditAssumption DEF Init, Shape, NamedIsEditing, ReadIsCurrent, CaddyFiles,
     Blocks, Named, At, Steps, Final, Outcomes
<1>2. OutcomeLast /\ NotYet /\ RunsFile
  BY EditAssumption DEF Init, OutcomeLast, NotYet, RunsFile
<1>3. \A e \in Editors : ~Won(e) /\ ~Holding(e)
  BY EditAssumption DEF Init, Won, Holding
<1>4. \A a \in Apps : file[a] = Before
  BY DEF Init
<1>5. AllBacked
  BY <1>3, <1>4 DEF AllBacked, Backed
<1>6. NotBack /\ OnlyOne
  BY <1>3, EditAssumption DEF NotBack, OnlyOne
<1> QED
  BY <1>1, <1>2, <1>5, <1>6 DEF EditInv

\* The types of the edits.
LEMMA ShapeStays ==
  ASSUME Shape, [Next]_vars PROVE Shape'
<1>1. CASE UNCHANGED vars
  BY <1>1 DEF Shape, vars
<1>2. ASSUME NEW e \in Editors, EditorStep(e) \/ Crash(e) PROVE Shape'
  <2>1. pc' \in [Editors -> Steps \cup Final]
    BY <1>2 DEF Shape, EditorStep, Crash, Resolve, Mkdir, Judge, Break, WriteInfo, Unwind,
       ReleaseLock, Read, Commit, Reload, Verify, Rollback, ReloadBack, AfterUnverified,
       Go, End, Quit, Steps, Final
  <2>2. file' \in CaddyFiles
    BY <1>2, EditedIsFile DEF Shape, EditorStep, Crash, Resolve, Mkdir, Judge, Break,
       WriteInfo, Unwind, ReleaseLock, Read, Commit, Reload, Verify, Rollback, ReloadBack
  <2>4. expect' \in [Editors -> Blocks] /\ outcome' \in [Editors -> Outcomes]
    BY <1>2, EditAssumption DEF Shape, CaddyFiles, EditorStep, Crash, Resolve, Mkdir, Judge, Break,
       WriteInfo, Unwind, ReleaseLock, Read, Commit, Reload, Verify, Rollback, ReloadBack,
       AfterUnverified, End, Quit, Outcomes
  <2>3. prev' \in [Editors -> CaddyFiles] /\ info' \in Editors \cup {NoOne}
    BY <1>2 DEF Shape, EditorStep, Crash, Resolve, Mkdir, Judge, Break, lockVars, RemoveLock, Upload,
       WriteInfo, Unwind, ReleaseLock, Read, Commit, Reload, Verify, Rollback, ReloadBack
  <2> QED
    BY <2>1, <2>2, <2>3, <2>4 DEF Shape
<1> QED
  BY <1>1, <1>2 DEF Next

\* An editor the info names is past its upload and not yet over.
LEMMA NamingStays ==
  ASSUME EditInv, [Next]_vars PROVE NamedIsEditing'
<1>1. CASE UNCHANGED vars
  BY <1>1 DEF EditInv, NamedIsEditing, vars, Named
<1>2. ASSUME NEW e \in Editors, EditorStep(e) \/ Crash(e) PROVE NamedIsEditing'
  <2> SUFFICES ASSUME NEW n \in Editors, Named(n)' PROVE pc'[n] \in Editing
    BY DEF NamedIsEditing
  <2>1. NoOne \notin Editors
    BY EditAssumption
  <2>2. CASE WriteInfo(e)
    <3>1. CASE info' = e
      BY <2>1, <2>2, <3>1 DEF WriteInfo, Go, Named, EditInv, Shape, Editing
    <3>2. CASE Go(e, "unwind") /\ UNCHANGED info
      <4>1. n # e
        BY <2>2, <3>2 DEF WriteInfo, At, EditInv, NamedIsEditing, Named, Editing
      <4> QED
        BY <3>2, <4>1 DEF Go, EditInv, Shape, NamedIsEditing, Named
    <3> QED
      BY <2>2, <3>1, <3>2 DEF WriteInfo, Upload, lockVars
  <2>3. CASE Break(e) \/ Unwind(e)
    BY <2>1, <2>3 DEF Break, Unwind, RemoveLock, Named
  <2>4. CASE ReleaseLock(e)
    BY <2>1, <2>4 DEF ReleaseLock, RemoveLock, lockVars, Go, EditInv, Shape, NamedIsEditing, Named, Editing
  <2>5. CASE Resolve(e) \/ Mkdir(e) \/ Judge(e)
    BY <2>5 DEF Resolve, Mkdir, Judge, At, Go, Quit, EditInv, Shape, NamedIsEditing, Named,
       Editing, lockVars
  <2>6. CASE Read(e) \/ Commit(e) \/ Reload(e) \/ Verify(e)
    BY <2>6 DEF Read, Commit, Reload, Verify, AfterUnverified, Go, End, EditInv, Shape,
       NamedIsEditing, Named, Editing, lockVars
  <2>7. CASE Rollback(e) \/ ReloadBack(e) \/ Crash(e)
    BY <2>7 DEF Rollback, ReloadBack, Crash, Go, End, EditInv, Shape, NamedIsEditing, Named,
       Editing, lockVars
  <2> QED
    BY <1>2, <2>2, <2>3, <2>4, <2>5, <2>6, <2>7 DEF EditorStep
<1> QED
  BY <1>1, <1>2 DEF Next

\* A named editor has seen the last write.
LEMMA CurrencyStays ==
  ASSUME EditInv, [Next]_vars PROVE ReadIsCurrent'
<1>1. CASE UNCHANGED vars
  BY <1>1 DEF EditInv, ReadIsCurrent, vars, Named, At, Edited
<1>2. ASSUME NEW e \in Editors, EditorStep(e) \/ Crash(e) PROVE ReadIsCurrent'
  <2> SUFFICES ASSUME strays' = {}, NEW n \in Editors, Named(n)'
               PROVE  /\ At(n, "commit")' => file' = prev'[n]
                      /\ pc'[n] \in {"reload", "verify", "rollback"} => file' = Edited(n)'
    BY DEF ReadIsCurrent
  <2>1. NoOne \notin Editors
    BY EditAssumption
  <2>2. CASE WriteInfo(e)
    BY <2>1, <2>2 DEF WriteInfo, Upload, lockVars, Go, EditInv, Shape, ReadIsCurrent, Named, At, Edited
  <2>3. CASE Break(e) \/ Unwind(e)
    BY <2>1, <2>3 DEF Break, Unwind, RemoveLock, Named
  <2>4. CASE ReleaseLock(e)
    BY <2>1, <2>4 DEF ReleaseLock, RemoveLock, lockVars, Go, EditInv, Shape, ReadIsCurrent, Named, At, Edited
  <2>5. CASE Resolve(e) \/ Mkdir(e) \/ Judge(e) \/ Crash(e)
    BY <2>5 DEF Resolve, Mkdir, Judge, Crash, At, Go, Quit, EditInv, Shape, ReadIsCurrent,
       Named, Edited, lockVars
  <2>6. CASE Read(e)
    BY <2>6 DEF Read, Go, End, EditInv, Shape, ReadIsCurrent, Named, At, Edited, lockVars
  <2>7. CASE Commit(e)
    <3>1. CASE UNCHANGED file
      BY <2>7, <3>1 DEF Commit, Go, End, EditInv, Shape, ReadIsCurrent, Named, At, Edited, lockVars
    <3>2. CASE MayCommit(e) /\ file' = Edited(e)
      <4>1. n = e
        BY <2>7, <3>2 DEF Commit, MayCommit, Named, lockVars
      <4> QED
        BY <2>7, <3>2, <4>1 DEF Commit, Go, End, EditInv, Shape, At, Edited
    <3> QED
      BY <2>7, <3>1, <3>2 DEF Commit
  <2>8. CASE Reload(e) \/ Verify(e) \/ ReloadBack(e)
    BY <2>8 DEF Reload, Verify, ReloadBack, AfterUnverified, Go, End, EditInv, Shape,
       ReadIsCurrent, Named, At, Edited, lockVars
  <2>9. CASE Rollback(e)
    <3>1. CASE UNCHANGED file
      BY <2>9, <3>1 DEF Rollback, Go, End, EditInv, Shape, ReadIsCurrent, Named, At, Edited, lockVars
    <3>2. CASE Go(e, "reloadBack") /\ strays' = IF Named(e) THEN strays ELSE strays \cup {e}
      <4>1. n = e
        BY <2>9, <3>2 DEF Rollback, Named, lockVars
      <4> QED
        BY <3>2, <4>1 DEF Go, EditInv, Shape, At
    <3> QED
      BY <2>9, <3>1, <3>2 DEF Rollback
  <2> QED
    BY <1>2, <2>2, <2>3, <2>4, <2>5, <2>6, <2>7, <2>8, <2>9 DEF EditorStep
<1> QED
  BY <1>1, <1>2 DEF Next

\* Commits and rollbacks under the lock, block by block.
LEMMA StepKeepsOthers ==
  ASSUME EditInv, NEW e \in Editors, strays = {}, EditorStep(e), Rollback(e) => Named(e)
  PROVE  KeepsOthers(e)
<1>1. CASE UNCHANGED file
  BY <1>1 DEF KeepsOthers
<1>2. CASE Commit(e) /\ MayCommit(e) /\ file' = Edited(e)
  <2>1. file = prev[e]
    BY <1>2 DEF Commit, MayCommit, EditInv, ReadIsCurrent
  <2> QED
    BY <1>2, <2>1, EditedIsFile DEF KeepsOthers, EditInv
<1>3. CASE Rollback(e) /\ file' = prev[e]
  <2>1. file = Edited(e)
    BY <1>3 DEF Rollback, EditInv, ReadIsCurrent, At
  <2> QED
    BY <1>3, <2>1, EditedIsFile DEF KeepsOthers, EditInv
<1> QED
  BY <1>1, <1>2, <1>3 DEF EditorStep, Resolve, Mkdir, Judge, Break, WriteInfo, Unwind,
     ReleaseLock, Read, Commit, Reload, Verify, Rollback, ReloadBack

-----------------------------------------------------------------------------
(* What one step does to the other editors, and to what is past.           *)
LEMMA OthersStand ==
  ASSUME Shape, NEW e \in Editors, EditorStep(e) \/ Crash(e), NEW h \in Editors \ {e}
  PROVE  /\ pc'[h] = pc[h] /\ prev'[h] = prev[h] /\ expect'[h] = expect[h]
         /\ outcome'[h] = outcome[h]
<1>1. pc'[h] = pc[h]
  BY DEF Shape, EditorStep, Crash, Resolve, Mkdir, Judge, Break, WriteInfo, Unwind,
     ReleaseLock, Read, Commit, Reload, Verify, Rollback, ReloadBack, AfterUnverified,
     Go, End, Quit
<1>2. outcome'[h] = outcome[h]
  BY DEF Shape, EditorStep, Crash, Resolve, Mkdir, Judge, Break, WriteInfo, Unwind,
     ReleaseLock, Read, Commit, Reload, Verify, Rollback, ReloadBack, AfterUnverified,
     Go, End, Quit
<1>3. prev'[h] = prev[h] /\ expect'[h] = expect[h]
  BY DEF Shape, EditorStep, Crash, Resolve, Mkdir, Judge, Break, WriteInfo, Unwind,
     ReleaseLock, Read, Commit, Reload, Verify, Rollback, ReloadBack
<1> QED
  BY <1>1, <1>2, <1>3

\* The two steps that write the file.
Commits(e) == /\ Commit(e) /\ MayCommit(e) /\ file' = Edited(e)
              /\ \/ pc'[e] = "reload" /\ outcome'[e] = outcome[e]
                 \/ pc'[e] = "release" /\ outcome'[e] = "lost"
PutsBack(e) == /\ Rollback(e) /\ file' = prev[e] /\ pc'[e] = "reloadBack"
               /\ outcome'[e] = outcome[e] /\ strays' = IF Named(e) THEN strays ELSE strays \cup {e}

\* Who may change the file: a commit, or a rollback of it.
LEMMA Writes ==
  ASSUME Shape, NEW e \in Editors, EditorStep(e) \/ Crash(e)
  PROVE  Commits(e) \/ PutsBack(e) \/ file' = file
<1>1. CASE Commit(e)
  BY <1>1 DEF Commit, Commits, Shape, Go, End
<1>2. CASE Rollback(e)
  BY <1>2 DEF Rollback, PutsBack, Shape, Go, End
<1> QED
  BY <1>1, <1>2 DEF EditorStep, Crash, Resolve, Mkdir, Judge, Break, WriteInfo, Unwind,
     ReleaseLock, Read, Reload, Verify, ReloadBack

\* What an editor's own step does to it.
LEMMA OwnStep ==
  ASSUME Shape, OutcomeLast, NEW e \in Editors, EditorStep(e) \/ Crash(e)
  PROVE  /\ Past(e) => Past(e)'
         /\ strays \subseteq strays'
         /\ prev'[e] = prev[e] \/ (Read(e) /\ prev'[e] = file /\ ~Past(e) /\ outcome[e] = "none")
         /\ expect'[e] = expect[e] \/ (At(e, "start") /\ pc'[e] = "acquire"
                                       /\ expect'[e] \in {file[a] : a \in Apps})
<1>1. Past(e) => Past(e)'
  BY DEF Past, Shape, EditorStep, Crash, Resolve, Mkdir, Judge, Break, WriteInfo, Unwind,
     ReleaseLock, Read, Commit, Reload, Verify, Rollback, ReloadBack, AfterUnverified,
     Go, End, Quit, At
<1>2. strays \subseteq strays'
  BY DEF EditorStep, Crash, Resolve, Mkdir, Judge, Break, WriteInfo, Unwind,
     ReleaseLock, Read, Commit, Reload, Verify, Rollback, ReloadBack
<1>3. prev'[e] = prev[e] \/ (Read(e) /\ prev'[e] = file /\ ~Past(e) /\ outcome[e] = "none")
  <2>1. CASE Read(e)
    BY <2>1 DEF Read, Shape, At, Past, OutcomeLast
  <2> QED
    BY <2>1 DEF EditorStep, Crash, Resolve, Mkdir, Judge, Break, WriteInfo, Unwind,
       ReleaseLock, Commit, Reload, Verify, Rollback, ReloadBack
<1>4. expect'[e] = expect[e] \/ (At(e, "start") /\ pc'[e] = "acquire"
                                 /\ expect'[e] \in {file[a] : a \in Apps})
  <2>1. CASE Resolve(e)
    BY <2>1, EditAssumption DEF Resolve, Shape, Go
  <2> QED
    BY <2>1 DEF EditorStep, Crash, Mkdir, Judge, Break, WriteInfo, Unwind,
       ReleaseLock, Read, Commit, Reload, Verify, Rollback, ReloadBack
<1> QED
  BY <1>1, <1>2, <1>3, <1>4

\* Outcomes are final.
LEMMA OutcomesStay ==
  ASSUME EditInv, NEW e \in Editors, EditorStep(e) \/ Crash(e)
  PROVE  OutcomeLast'
<1> SUFFICES ASSUME NEW h \in Editors
             PROVE  /\ outcome'[h] # "none" => pc'[h] \in {"release", "done", "crashed"}
                    /\ pc'[h] \in {"commit", "reload", "verify"} => Replaced(h)'
  BY DEF OutcomeLast
<1>1. CASE h # e
  BY <1>1, OthersStand DEF EditInv, OutcomeLast, Replaced
<1>2. CASE h = e
  <2>1. outcome'[e] # "none" => pc'[e] \in {"release", "done", "crashed"}
    BY DEF EditInv, OutcomeLast, Shape, EditorStep, Crash, Resolve, Mkdir, Judge, Break,
       WriteInfo, Unwind, ReleaseLock, Read, Commit, Reload, Verify, Rollback, ReloadBack,
       AfterUnverified, Go, End, Quit, At
  <2>2. pc'[e] \in {"commit", "reload", "verify"} => Replaced(e)'
    <3>1. CASE Read(e)
      BY <3>1 DEF Read, EditInv, Shape, Go, End, Replaced
    <3>2. CASE ~Read(e)
      <4>1. prev'[e] = prev[e]
        BY <3>2, OwnStep DEF EditInv
      <4>2. pc'[e] \in {"commit", "reload", "verify"} => pc[e] \in {"commit", "reload", "verify"}
        BY <3>2 DEF EditInv, Shape, EditorStep, Crash, Resolve, Mkdir, Judge, Break,
           WriteInfo, Unwind, ReleaseLock, Commit, Reload, Verify, Rollback, ReloadBack,
           AfterUnverified, Go, End, Quit, At
      <4> QED
        BY <4>1, <4>2 DEF EditInv, OutcomeLast, Replaced
    <3> QED
      BY <3>1, <3>2
  <2> QED
    BY <1>2, <2>1, <2>2
<1> QED
  BY <1>1, <1>2

\* An edit's block comes from its commit.
LEMMA NotYetStays ==
  ASSUME EditInv, NEW e \in Editors, EditorStep(e) \/ Crash(e)
  PROVE  NotYet'
<1> USE DEF EditInv
<1>1. ASSUME NEW h \in Editors, ~Past(h)' PROVE ~Past(h)
  <2>1. CASE h = e
    BY <1>1, <2>1, OwnStep
  <2>2. CASE h # e
    BY <1>1, <2>2, OthersStand DEF Past
  <2> QED
    BY <2>1, <2>2
<1>2. ASSUME NEW h \in Editors, NEW a \in Apps, ~Past(h)' PROVE file'[a] # h
  <2>1. ~Past(h) /\ file[a] # h /\ prev[e][a] # h
    BY <1>1, <1>2 DEF NotYet
  <2>2. CASE Commits(e)
    <3>1. h # e
      BY <1>2, <2>2 DEF Commits, Past
    <3>2. file'[a] = prev[e][a] \/ file'[a] = Block(e)
      BY <2>2, EditAssumption DEF Commits, Edited, Shape, CaddyFiles
    <3> QED
      BY <2>1, <3>1, <3>2, EditAssumption DEF Block
  <2> QED
    BY <2>1, <2>2, Writes DEF PutsBack
<1>3. ASSUME NEW h \in Editors, NEW g \in Editors, NEW a \in Apps, ~Past(h)'
      PROVE  prev'[g][a] # h /\ expect'[g] # h
  <2>1. ~Past(h) /\ prev[g][a] # h /\ expect[g] # h /\ \A b \in Apps : file[b] # h
    BY <1>1, <1>3 DEF NotYet
  <2> QED
    BY <2>1, OwnStep, OthersStand
<1>4. ASSUME NEW h \in Editors, NEW a \in Apps PROVE prev'[h][a] # h
  <2>1. CASE h = e
    BY <2>1, OwnStep DEF NotYet
  <2>2. CASE h # e
    BY <2>2, OthersStand DEF NotYet
  <2> QED
    BY <2>1, <2>2
<1> QED
  BY <1>2, <1>3, <1>4 DEF NotYet

\* Only an edit that is not through leaves Caddy behind the file.
LEMMA RunsFileStays ==
  ASSUME EditInv, NEW e \in Editors, EditorStep(e) \/ Crash(e)
  PROVE  RunsFile'
<1> USE DEF EditInv
<1>1. \A h \in Editors \ {e} : Unsettled(h)' = Unsettled(h)
  BY OthersStand DEF Unsettled
<1>2. \/ running' = file' \/ Unsettled(e)'
      \/ (running' = running /\ file' = file /\ ~Unsettled(e))
  <2>1. CASE Commit(e)
    BY <2>1 DEF Commit, At, Go, End, Shape, Unsettled, OutcomeLast
  <2>2. CASE Reload(e)
    BY <2>2 DEF Reload, At, Go, End, Shape, Unsettled, OutcomeLast
  <2>3. CASE Rollback(e)
    BY <2>3 DEF Rollback, At, Go, End, Shape, Unsettled, OutcomeLast
  <2>4. CASE ReloadBack(e)
    BY <2>4 DEF ReloadBack, At, Go, End, Shape, Unsettled, OutcomeLast
  <2>5. CASE Crash(e)
    BY <2>5 DEF Crash, Go, Shape, Unsettled
  <2>6. CASE ReleaseLock(e)
    BY <2>6 DEF ReleaseLock, At, Go, Shape, Unsettled
  <2>7. CASE Read(e) \/ Verify(e)
    BY <2>7 DEF Read, Verify, At, Shape, Unsettled, OutcomeLast
  <2>8. CASE Resolve(e) \/ Mkdir(e) \/ Judge(e) \/ Break(e) \/ WriteInfo(e) \/ Unwind(e)
    BY <2>8 DEF Resolve, Mkdir, Judge, Break, WriteInfo, Unwind, At, Shape, Unsettled,
       OutcomeLast
  <2> QED
    BY <2>1, <2>2, <2>3, <2>4, <2>5, <2>6, <2>7, <2>8 DEF EditorStep
<1> QED
  BY <1>1, <1>2 DEF RunsFile

\* Who lives, has won and holds after a step.
LEMMA Standing ==
  ASSUME EditInv, NEW e \in Editors, EditorStep(e) \/ Crash(e), NEW h \in Editors
  PROVE  /\ Lives(h) => Lives(h)' \/ (h = e /\ PutsBack(e))
         /\ Won(h)' => Won(h) \/ (h = e /\ Commits(e))
         /\ Past(h) => Past(h)'
         /\ Holding(h)' => \/ Holding(h) /\ prev'[h] = prev[h]
                           \/ h = e /\ Read(e) /\ prev'[h] = file /\ ~Lives(h)
<1> USE DEF EditInv
<1>1. CASE h # e
  <2>1. Past(h) => Past(h)'
    BY <1>1, OthersStand DEF Past
  <2>2. Lives(h)' = Lives(h) /\ Won(h)' = Won(h)
    BY <1>1, OthersStand DEF Lives, Won, Replaced
  <2>3. info' # h \/ info = h
    BY <1>1, EditAssumption DEF EditorStep, Crash, Resolve, Mkdir, Judge, Break, WriteInfo, Unwind,
       ReleaseLock, Read, Commit, Reload, Verify, Rollback, ReloadBack, lockVars, RemoveLock,
       Upload
  <2> QED
    BY <1>1, <2>1, <2>2, <2>3, OthersStand DEF Holding, Named
<1>2. CASE h = e
  <2>1. Past(e) => Past(e)'
    BY OwnStep
  <2>2. CASE Read(e)
    <3>1. ~Lives(e) /\ outcome[e] = "none"
      BY <2>2 DEF Read, At, Lives, OutcomeLast
    <3>2. prev'[e] = file /\ ~Won(e)' /\ info' = info
      BY <2>2, <3>1 DEF Read, Won, Replaced, Shape, Go, End, lockVars
    <3> QED
      BY <1>2, <2>1, <2>2, <3>1, <3>2
  <2>3. CASE ~Read(e)
    <3>1. prev'[e] = prev[e]
      BY <2>3, OwnStep
    <3>2. Lives(e) => Lives(e)' \/ PutsBack(e)
      <4>1. CASE Rollback(e)
        BY <4>1 DEF Rollback, PutsBack, Lives, Shape, Go, End
      <4>2. CASE ~Rollback(e)
        BY <2>3, <3>1, <4>2 DEF Lives, Replaced, Shape, EditorStep, Crash, Resolve, Mkdir,
           Judge, Break, WriteInfo, Unwind, ReleaseLock, Commit, Reload, Verify, ReloadBack,
           AfterUnverified, Go, End, Quit, At, OutcomeLast
      <4> QED
        BY <4>1, <4>2
    <3>3. Won(e)' => Won(e) \/ Commits(e)
      <4>1. CASE Commit(e)
        BY <3>1, <4>1 DEF Commit, Commits, Won, Replaced, Shape, Go, End, At, OutcomeLast
      <4>2. CASE ~Commit(e)
        BY <2>3, <3>1, <4>2 DEF Won, Replaced, Shape, EditorStep, Crash, Resolve, Mkdir,
           Judge, Break, WriteInfo, Unwind, ReleaseLock, Reload, Verify, Rollback, ReloadBack,
           AfterUnverified, Go, End, Quit, At, OutcomeLast
      <4> QED
        BY <4>1, <4>2
    <3>4. Holding(e)' => Holding(e)
      BY <2>3, EditAssumption DEF Holding, Named, Shape, EditorStep, Crash, Resolve, Mkdir,
         Judge, Break, WriteInfo, Unwind, ReleaseLock, Commit, Reload, Verify, Rollback,
         ReloadBack, AfterUnverified, Go, End, Quit, At, lockVars, RemoveLock, Upload
    <3> QED
      BY <1>2, <2>1, <3>1, <3>2, <3>3, <3>4
  <2> QED
    BY <2>2, <2>3
<1> QED
  BY <1>1, <1>2

\* A write is by the editor that is named, who alone may hold and has read the file.
LEMMA WriterHolds ==
  ASSUME EditInv, NEW e \in Editors, Commits(e) \/ PutsBack(e), strays' = {}
  PROVE  /\ Holding(e) /\ info' = info /\ prev' = prev /\ expect' = expect
         /\ \A h \in Editors : Holding(h)' => h = e
         /\ Commits(e) => file = prev[e] /\ Replaced(e) /\ ~Past(e) /\ Past(e)'
         /\ PutsBack(e) => ~Holding(e)' /\ ~Won(e)'
<1> USE DEF EditInv
<1>1. Named(e) /\ info' = info /\ prev' = prev /\ expect' = expect /\ strays = {}
  BY EditAssumption DEF Commits, PutsBack, Commit, Rollback, MayCommit, lockVars
<1>2. \A h \in Editors : Holding(h)' => h = e
  BY <1>1 DEF Holding, Named
<1>3. CASE Commits(e)
  BY <1>1, <1>2, <1>3 DEF Commits, PutsBack, Commit, Rollback, At, ReadIsCurrent, OutcomeLast,
     Past, Holding
<1>4. CASE PutsBack(e)
  <2>1. pc[e] = "rollback" /\ pc'[e] = "reloadBack" /\ outcome'[e] = "none"
    BY <1>4 DEF PutsBack, Rollback, At, OutcomeLast
  <2> QED
    BY <1>1, <1>2, <1>4, <2>1 DEF Holding, Won, Commits, Commit, At
<1> QED
  BY <1>3, <1>4

\* A block in the file, or about to be put back, has an edit behind it.
LEMMA BackedStays ==
  ASSUME EditInv, NEW e \in Editors, EditorStep(e) \/ Crash(e)
  PROVE  AllBacked'
<1> USE DEF EditInv
<1> SUFFICES ASSUME strays' = {}, NEW a \in Apps
             PROVE  /\ Backed(file, a, NoOne)'
                    /\ \A h \in Editors : Holding(h)' => Backed(prev[h], a, h)'
  BY DEF AllBacked
<1>1. /\ Backed(file, a, NoOne)
      /\ \A h \in Editors : Holding(h) => Backed(prev[h], a, h)
  BY OwnStep DEF AllBacked
<1>2. CASE file' = file /\ ~Commits(e) /\ ~PutsBack(e)
  <2>1. \A h \in Editors : (Lives(h) => Lives(h)') /\ (Won(h)' => Won(h))
    BY <1>2, Standing
  <2>2. Backed(file, a, NoOne)'
    BY <1>1, <1>2, <2>1 DEF Backed, Block
  <2>3. ASSUME NEW h \in Editors, Holding(h)' PROVE Backed(prev[h], a, h)'
    <3>1. CASE Holding(h) /\ prev'[h] = prev[h]
      BY <1>1, <2>1, <3>1 DEF Backed, Block
    <3>2. CASE h = e /\ prev'[h] = file /\ ~Lives(h)
      <4>1. CASE \E g \in Editors \ {NoOne} : AppOf[g] = a /\ Lives(g) /\ file[a] = Block(g)
        BY <2>1, <3>2, <4>1 DEF Backed, Block
      <4>2. CASE file[a] = Before /\ \A w \in Editors \ {NoOne} : AppOf[w] = a => ~Won(w)
        BY <2>1, <3>2, <4>2, EditAssumption DEF Backed
      <4> QED
        BY <1>1, <4>1, <4>2 DEF Backed
    <3> QED
      BY <2>3, <3>1, <3>2, Standing
  <2> QED
    BY <2>2, <2>3
<1>3. CASE Commits(e)
  <2>1. /\ Holding(e) /\ prev' = prev /\ file = prev[e]
        /\ \A h \in Editors : Holding(h)' => h = e
    BY <1>3, WriterHolds
  <2>2. Lives(e)' /\ ~PutsBack(e)
    BY <1>3 DEF Commits, Lives, PutsBack
  <2>3. \A h \in Editors \ {e} : (Lives(h) => Lives(h)') /\ (Won(h)' => Won(h))
    BY Standing
  <2>4. Backed(prev[e], a, e)'
    BY <1>1, <2>1, <2>3 DEF Backed, Block
  <2>5. Backed(file, a, NoOne)'
    <3>1. CASE a = AppOf[e]
      <4>1. file'[a] = Block(e)
        BY <1>3, <3>1 DEF Commits, Edited, Shape, CaddyFiles
      <4> QED
        BY <2>2, <3>1, <4>1, EditAssumption DEF Backed, Block
    <3>2. CASE a # AppOf[e]
      <4>1. file'[a] = file[a]
        BY <1>3, <2>1, <3>2 DEF Commits, Edited, Shape, CaddyFiles
      <4>2. \A g \in Editors : Lives(g) => Lives(g)'
        BY <2>2, <2>3
      <4> QED
        BY <1>1, <2>3, <3>2, <4>1, <4>2 DEF Backed, Block
    <3> QED
      BY <3>1, <3>2
  <2> QED
    BY <2>1, <2>4, <2>5
<1>4. CASE PutsBack(e)
  <2>1. /\ Holding(e) /\ prev' = prev /\ file' = prev[e] /\ ~Holding(e)' /\ ~Won(e)'
        /\ \A h \in Editors : Holding(h)' => h = e
    BY <1>4, WriterHolds DEF PutsBack
  <2>2. \A h \in Editors \ {e} : (Lives(h) => Lives(h)') /\ (Won(h)' => Won(h))
    BY <1>4, Standing DEF Commits, PutsBack
  <2>3. Backed(file, a, NoOne)'
    BY <1>1, <2>1, <2>2, EditAssumption DEF Backed, Block
  <2> QED
    BY <2>1, <2>3
<1> QED
  BY <1>2, <1>3, <1>4, Writes

\* The block an edit replaced does not return.
LEMMA NotBackStays ==
  ASSUME EditInv, NEW e \in Editors, EditorStep(e) \/ Crash(e)
  PROVE  NotBack'
<1> USE DEF EditInv
<1> SUFFICES ASSUME strays' = {}, NEW w \in Comparing \ Removers, Won(w)', ~Removed(w)'
             PROVE  /\ file'[AppOf[w]] # expect'[w]
                    /\ \A h \in Editors \ {w} : Holding(h)' => prev'[h][AppOf[w]] # expect'[w]
  BY DEF NotBack
<1>0. w \in Editors /\ AppOf[w] \in Apps /\ strays = {} /\ Block(w) = w
  BY EditAssumption, OwnStep DEF Block
<1>1. ASSUME Won(w)
      PROVE  /\ expect'[w] = expect[w] /\ file[AppOf[w]] # expect[w]
             /\ \A h \in Editors \ {w} : Holding(h) => prev[h][AppOf[w]] # expect[w]
  <2>1. expect'[w] = expect[w]
    BY <1>0, <1>1, OwnStep, OthersStand DEF Won, At, OutcomeLast
  <2>2. ~Removed(w)
    BY <1>0, <2>1, Standing, EditAssumption DEF Removed
  <2> QED
    BY <1>0, <1>1, <2>1, <2>2 DEF NotBack
<1>2. CASE file' = file /\ ~Commits(e) /\ ~PutsBack(e)
  <2>1. Won(w)
    BY <1>0, <1>2, Standing
  <2>2. \A h \in Editors : Holding(h)' => (Holding(h) /\ prev'[h] = prev[h]) \/ prev'[h] = file
    BY Standing
  <2> QED
    BY <1>1, <1>2, <2>1, <2>2
<1>3. CASE Commits(e)
  <2>1. /\ Holding(e) /\ prev' = prev /\ expect' = expect /\ file = prev[e] /\ Replaced(e)
        /\ ~Past(e) /\ Past(e)'
        /\ \A h \in Editors : Holding(h)' => h = e
    BY <1>3, WriterHolds
  <2>2. /\ file'[AppOf[e]] = Block(e)
        /\ \A a \in Apps \ {AppOf[e]} : file'[a] = file[a]
        /\ e \in Comparing => file[AppOf[e]] = expect[e]
    BY <1>3, <2>1, EditAssumption DEF Commits, MayCommit, Edited, Shape, CaddyFiles
  <2>3. CASE w = e
    BY <2>1, <2>2, <2>3 DEF Replaced
  <2>4. CASE w # e
    <3>1. Won(w)
      BY <1>0, <2>4, Standing
    <3>2. expect[w] # Block(e) \/ AppOf[w] # AppOf[e]
      <4>1. CASE e \in Removers
        BY <1>1, <2>1, <3>1, <4>1 DEF Removed, Block
      <4>2. CASE e \notin Removers
        BY <1>0, <2>1, <4>2 DEF Block, NotYet
      <4> QED
        BY <4>1, <4>2
    <3> QED
      BY <1>0, <1>1, <2>1, <2>2, <2>4, <3>1, <3>2
  <2> QED
    BY <2>3, <2>4
<1>4. CASE PutsBack(e)
  <2>1. /\ Holding(e) /\ prev' = prev /\ file' = prev[e] /\ ~Holding(e)' /\ ~Won(e)'
        /\ \A h \in Editors : Holding(h)' => h = e
    BY <1>4, WriterHolds DEF PutsBack
  <2>2. w # e /\ Won(w)
    BY <1>0, <1>4, <2>1, Standing DEF Commits, PutsBack
  <2> QED
    BY <1>1, <2>1, <2>2
<1> QED
  BY <1>2, <1>3, <1>4, Writes

\* Two edits that compare with one block do not both win.
LEMMA OnlyOneStays ==
  ASSUME EditInv, NEW e \in Editors, EditorStep(e) \/ Crash(e)
  PROVE  OnlyOne'
<1> USE DEF EditInv
<1> SUFFICES ASSUME strays' = {}, NEW d \in Comparing \ Removers, NEW g \in Comparing \ Removers,
                    d # g, AppOf[d] = AppOf[g], Won(d)', Won(g)', ~Removed(d)'
             PROVE  expect'[d] # expect'[g]
  BY DEF OnlyOne
<1>0. d \in Editors /\ g \in Editors /\ strays = {}
  BY EditAssumption, OwnStep
<1>1. \A w \in Editors : Won(w) => expect'[w] = expect[w]
  BY OwnStep, OthersStand DEF Won, At, OutcomeLast
<1>2. \A w \in Editors : Removed(w) /\ expect'[w] = expect[w] => Removed(w)'
  BY Standing, EditAssumption DEF Removed
<1>3. CASE Won(d) /\ Won(g)
  BY <1>0, <1>1, <1>2, <1>3 DEF OnlyOne
<1>4. ASSUME NEW w \in {d, g}, NEW v \in {d, g}, w # v, ~Won(w), Won(w)', Won(v)'
      PROVE  expect'[d] # expect'[g]
  <2>1. w = e /\ Commits(e)
    BY <1>0, <1>4, Standing
  <2>2. /\ expect' = expect /\ file = prev[e] /\ file[AppOf[e]] = expect[e]
    BY <2>1, WriterHolds DEF Commits, MayCommit
  <2>3. Won(v)
    BY <1>0, <1>4, <2>1, Standing
  <2>4. expect'[d] = expect'[g] => ~Removed(v)
    BY <1>0, <1>2, <1>4, <2>2 DEF Removed
  <2>5. expect'[d] = expect'[g] => file[AppOf[v]] # expect[v]
    BY <1>0, <1>4, <2>3, <2>4 DEF NotBack
  <2> QED
    BY <1>4, <2>1, <2>2, <2>5
<1> QED
  BY <1>3, <1>4

\* The parts together.
LEMMA EditStep == EditInv /\ [Next]_vars => EditInv'
<1> SUFFICES ASSUME EditInv, [Next]_vars PROVE EditInv'
  OBVIOUS
<1>1. Shape' /\ NamedIsEditing' /\ ReadIsCurrent'
  BY ShapeStays, NamingStays, CurrencyStays DEF EditInv
<1>2. CASE UNCHANGED vars
  <2>1. OutcomeLast' /\ NotYet' /\ RunsFile'
    BY <1>2 DEF EditInv, vars, OutcomeLast, NotYet, RunsFile, Past, Replaced, Unsettled
  <2>2. AllBacked'
    BY <1>2 DEF EditInv, vars, AllBacked, Backed, Holding, Named, Lives, Won, Replaced, Block
  <2>3. NotBack' /\ OnlyOne'
    BY <1>2 DEF EditInv, vars, NotBack, OnlyOne, Holding, Named, Won, Replaced, Removed, Past
  <2> QED
    BY <1>1, <2>1, <2>2, <2>3 DEF EditInv
<1>3. ASSUME NEW e \in Editors, EditorStep(e) \/ Crash(e) PROVE EditInv'
  <2>1. OutcomeLast' /\ NotYet' /\ RunsFile'
    BY <1>3, OutcomesStay, NotYetStays, RunsFileStays
  <2>2. AllBacked' /\ NotBack' /\ OnlyOne'
    BY <1>3, BackedStays, NotBackStays, OnlyOneStays
  <2> QED
    BY <1>1, <2>1, <2>2 DEF EditInv
<1> QED
  BY <1>2, <1>3 DEF Next

\* The invariant of the Caddyfile's edits.
LEMMA EditInvariant == Spec => []EditInv
  BY EditStarts, EditStep, PTL DEF Spec

-----------------------------------------------------------------------------
(* While no editor has put a file back after losing the lock, no edit      *)
(* changes another app's block: mutateWithCAS under its owner-tagged guard *)
(* and the rollback by an owner, whichever locks were broken meanwhile.    *)
THEOREM OthersKept == Spec => LockedEditsKeepOthers
<1>1. EditInv => [\A e \in Editors :
        strays = {} /\ EditorStep(e) /\ (Rollback(e) => Named(e)) => KeepsOthers(e)]_vars
  BY StepKeepsOthers
<1> QED
  BY <1>1, EditInvariant, PTL DEF Spec, LockedEditsKeepOthers

\* Of the edits that compare with the same block of an app, one succeeds (the
\* exact-block comparison in mutateWithCAS).
THEOREM OneEditWins == Spec => []OneWins
<1>1. EditInv => OneWins
  <2> SUFFICES ASSUME EditInv, strays = {}, NEW d \in Comparing \ Removers,
                      NEW e \in Comparing \ Removers, d # e, AppOf[d] = AppOf[e],
                      outcome[d] = "ok", outcome[e] = "ok"
               PROVE  expect[d] # expect[e] \/ Removed(d)
    BY DEF OneWins, Removed
  <2>1. Won(d) /\ Won(e)
    BY EditAssumption DEF EditInv, NotYet, Won, Replaced, Block
  <2> QED
    BY <2>1 DEF EditInv, OnlyOne
<1> QED
  BY <1>1, EditInvariant, PTL

\* When every edit has ended well or failed cleanly, Caddy runs the file and
\* every block in it is a successful edit's (mutateWithCAS and its rollback).
THEOREM EditsSettle == Spec => []SettledAgrees
<1>1. EditInv => SettledAgrees
  <2> SUFFICES ASSUME EditInv, strays = {},
                      \A e \in Editors : At(e, "done") /\ outcome[e] \in {"ok", "failed"}
               PROVE  /\ running = file
                      /\ \A a \in Apps :
                           LET won == {e \in Editors : AppOf[e] = a /\ outcome[e] = "ok" /\ Replaced(e)}
                           IN IF won = {} THEN file[a] = Before ELSE file[a] \in {Block(e) : e \in won}
    BY DEF SettledAgrees
  <2>1. \A e \in Editors : /\ ~Unsettled(e)
                           /\ Lives(e) <=> outcome[e] = "ok" /\ Replaced(e)
                           /\ Won(e) <=> outcome[e] = "ok" /\ Replaced(e)
    BY DEF At, Unsettled, Lives, Won
  <2>2. running = file
    BY <2>1 DEF EditInv, RunsFile
  <2>3. ASSUME NEW a \in Apps
        PROVE  LET won == {e \in Editors : AppOf[e] = a /\ outcome[e] = "ok" /\ Replaced(e)}
               IN IF won = {} THEN file[a] = Before ELSE file[a] \in {Block(e) : e \in won}
    <3> DEFINE won == {e \in Editors : AppOf[e] = a /\ outcome[e] = "ok" /\ Replaced(e)}
    <3>1. \/ \E g \in won : file[a] = Block(g)
          \/ file[a] = Before /\ won = {}
      BY <2>1, EditAssumption DEF EditInv, AllBacked, Backed
    <3> QED
      BY <3>1
  <2> QED
    BY <2>2, <2>3
<1> QED
  BY <1>1, EditInvariant, PTL

-----------------------------------------------------------------------------
\* Everyone is somewhere, remembers something, and every name is kept.
RbShape ==
    /\ at = [p \in Actors |-> at[p]]
    /\ mind = [p \in Actors |-> mind[p]]
    /\ boxes = [k \in BoxNames |-> boxes[k]]

-----------------------------------------------------------------------------
\* The rollback's remembered releases and containers, at the start.
LEMMA RbStarts == RbInit => RbShape
BY DEF RbInit, RbShape

\* What an operation remembers stays in its domain.
LEMMA RbShapeStays == RbShape /\ [RbNext]_rbVars => RbShape'
<1> SUFFICES ASSUME RbShape, [RbNext]_rbVars PROVE RbShape'
  OBVIOUS
<1>1. CASE UNCHANGED rbVars
  BY <1>1 DEF RbShape, rbVars
<1>2. ASSUME NEW p \in Actors, ActorStep(p) PROVE RbShape'
  <2> USE DEF RbShape, Leaves, Unwinds, GoesTo, Keeps, Sweeps, Restored, target
  <2>1. CASE Begin(p) \/ Release(p) \/ Dying(p) \/ Redeploy(p)
    BY <2>1 DEF Begin, Release, Dying, Redeploy, RedeployUndone
  <2>2. CASE RollbackStep(p)
    <3>1. CASE ReadState(p) \/ ReadRegion(p) \/ ListBoxes(p) \/ CheckHealth(p)
               \/ SwitchRoute(p) \/ RereadRegion(p) \/ CommitState(p)
      BY <3>1 DEF ReadState, ReadRegion, ListBoxes, CheckHealth, SwitchRoute, RereadRegion,
         CommitState
    <3>2. CASE FreePort(p) \/ RemoveOld(p) \/ RunNew(p) \/ Retire(p)
      BY <3>2 DEF FreePort, RemoveOld, RunNew, Retire, Stopped, StopFails, RunsBox, RunFails,
         RunsUnheard
    <3> QED
      BY <2>2, <3>1, <3>2 DEF RollbackStep
  <2>3. CASE UndoStep(p)
    BY <2>3 DEF UndoStep, RestoreRoute, StopStarted, RestoreDisplaced, RerunDisplaced,
       RemoveTarget, Stopped, StopFails, RunsBox, RunsUnheard, RunFails
  <2>4. CASE LifecycleStep(p)
    BY <2>4 DEF LifecycleStep, ReadCurrent, ListCurrent, Halt, Launch, CheckStarted, Stopped,
       StopFails
  <2> QED
    BY <1>2, <2>1, <2>2, <2>3, <2>4 DEF ActorStep
<1> QED
  BY <1>1, <1>2 DEF RbNext

-----------------------------------------------------------------------------
\* An operation moves itself alone.
LEMMA OthersRest ==
  ASSUME RbShape, NEW p \in Actors, NEW q \in Actors \ {p}, ActorStep(q)
  PROVE  at'[p] = at[p] /\ mind'[p] = mind[p]
<1> USE DEF RbShape, Leaves, Unwinds, GoesTo, Keeps, Sweeps, Restored
<1>1. CASE Begin(q) \/ Release(q) \/ Dying(q) \/ Redeploy(q)
  BY <1>1 DEF Begin, Release, Dying, Redeploy
<1>2. CASE RollbackStep(q)
  BY <1>2 DEF RollbackStep, ReadState, ReadRegion, ListBoxes, FreePort, RemoveOld, RunNew,
     CheckHealth, SwitchRoute, RereadRegion, CommitState, Retire
<1>3. CASE UndoStep(q)
  BY <1>3 DEF UndoStep, RestoreRoute, StopStarted, RestoreDisplaced, RerunDisplaced, RemoveTarget
<1>4. CASE LifecycleStep(q)
  BY <1>4 DEF LifecycleStep, ReadCurrent, ListCurrent, Halt, Launch, CheckStarted
<1> QED
  BY <1>1, <1>2, <1>3, <1>4 DEF ActorStep

\* A late step is the operation's own, and not its first.
LEMMA LateIsOwn ==
  ASSUME RbShape, RbNext, NEW p \in Actors, LateStep(p)
  PROVE  ActorStep(p) /\ ~Begin(p)
<1>1. ActorStep(p)
  BY OthersRest DEF RbNext, LateStep
<1> QED
  BY <1>1 DEF LateStep, Begin

\* A container that runs does not have a free name.
LEMMA NewNameSpares ==
  ASSUME RbShape, NEW p \in Actors, NEW k,
         RunsBox(p, k) \/ RunFails(p, k) \/ RunsUnheard(p, k)
  PROVE  \A j \in Running : boxes'[j] = boxes[j]
<1>1. UNCHANGED boxes \/ \E made : boxes[k] = Gone /\ boxes' = [boxes EXCEPT ![k] = made]
  BY DEF RunsBox, RunFails, RunsUnheard
<1>2. k \notin Running \/ UNCHANGED boxes
  BY <1>1 DEF Running, Gone
<1> QED
  BY <1>1, <1>2 DEF RbShape, Running

\* A step without the lease.
LEMMA LateSpares ==
  ASSUME RbShape, RbNext, NEW p \in Actors, LateStep(p), at[p] # "unstart"
  PROVE  SparesNewer(p)
<1>1. ~Guarded(p)
  BY DEF LateStep, Guarded
<1>2. CASE UNCHANGED target
  BY <1>2 DEF target, SparesNewer
<1>3. CASE RollbackStep(p) /\ ~UNCHANGED target
  <2>1. RunNew(p) \/ CommitState(p)
    BY <1>1, <1>3 DEF RollbackStep, ReadState, ReadRegion, ListBoxes, FreePort, RemoveOld,
       CheckHealth, SwitchRoute, RereadRegion, Retire, target
  <2> QED
    BY <1>1, <2>1, <1>3, NewNameSpares DEF RunNew, CommitState, SparesNewer, target
<1>4. CASE UndoStep(p) /\ ~UNCHANGED target
  <2>1. RestoreDisplaced(p) \/ RerunDisplaced(p) \/ RemoveTarget(p)
    BY <1>1, <1>4 DEF UndoStep, RestoreRoute, StopStarted, target
  <2>2. CASE RestoreDisplaced(p)
    BY <1>4, <2>2 DEF RestoreDisplaced, NotNewer, SparesNewer, RbShape, Running, target
  <2>3. CASE RerunDisplaced(p)
    BY <1>4, <2>3, NewNameSpares DEF RerunDisplaced, SparesNewer, target
  <2>4. CASE RemoveTarget(p)
    BY <1>4, <2>4 DEF RemoveTarget, SparesNewer, RbShape, Running, target
  <2> QED
    BY <2>1, <2>2, <2>3, <2>4
<1>5. CASE LifecycleStep(p) \/ Redeploy(p) \/ Release(p) \/ Dying(p)
  <2>1. UNCHANGED target
    BY <1>1, <1>5 DEF LifecycleStep, ReadCurrent, ListCurrent, Halt, Launch, CheckStarted,
       Redeploy, Release, Dying, target
  <2> QED
    BY <1>2, <2>1
<1> QED
  BY <1>2, <1>3, <1>4, <1>5, LateIsOwn DEF ActorStep

\* A rollback, a stop or a start that lost its lock spares what is newer,
\* outside of what its undo stops by name (FencedRollbackSparesNewer).
THEOREM LateRollbackSpares == RbSpec => FencedRollbackSparesNewer
<1>1. RbInit => RbShape
  BY RbStarts
<1>2. RbShape /\ [RbNext]_rbVars => RbShape'
  BY RbShapeStays
<1>3. RbShape /\ [RbNext]_rbVars =>
        [\A p \in Actors : LateStep(p) /\ at[p] # "unstart" => SparesNewer(p)]_rbVars
  BY LateSpares
<1> QED
  BY <1>1, <1>2, <1>3, PTL DEF RbSpec, FencedRollbackSparesNewer

-----------------------------------------------------------------------------
(* What holds of the one operation at work, stage by stage, while no lock  *)
(* was lost.                                                               *)

\* What docker, the state and an operation remember, field by field.
Fields == {"job", "to", "saw", "region", "switched", "listed", "todo", "later", "now",
           "started", "freed", "uncommitted", "foundRunning", "foundEdge"}

IsBox(b) == b = [run |-> b.run, gen |-> b.gen, by |-> b.by] /\ b.run \in BOOLEAN

TripShape ==
    /\ RbShape
    /\ ended = [p \in Actors |-> ended[p]]
    /\ \A k \in BoxNames : IsBox(boxes[k])
    /\ applied.current \in Releases /\ applied.previous \in Releases \cup {NoRelease}

\* From its lock to its end.
Busy(p) == at[p] \notin {"idle", "done", "dead"}
Recalls(p) == DOMAIN mind[p] = Fields /\ mind[p] = [f \in Fields |-> mind[p][f]]

\* What the operation remembers of the containers it listed.
ListedRun(p) == {k \in BoxNames : mind[p].listed[k].run}
Inventory(p) == /\ mind[p].listed = [k \in BoxNames |-> mind[p].listed[k]]
                /\ \A k \in BoxNames : IsBox(mind[p].listed[k])
                /\ ListedRun(p) = mind[p].foundRunning

\* A rollback's two releases, and what it made way for.
Aims(p) == /\ mind[p].job = "rollback" /\ mind[p].saw = applied
           /\ mind[p].to \in Releases /\ mind[p].to # mind[p].saw.current
Shiftable(p) == IF FixedPorts THEN {Web(mind[p].saw.current)} \cap mind[p].foundRunning ELSE {}

\* The containers that run: those found but for the ones down, and of the
\* target no more than the ones up.
RunsBut(p, down, up) ==
    /\ Running \ BoxesOf(mind[p].to) = mind[p].foundRunning \ down
    /\ Running \cap BoxesOf(mind[p].to) \subseteq up

\* Between the inventory and the commit.
Forth(p) == /\ Aims(p) /\ Inventory(p)
            /\ mind[p].started \subseteq BoxesOf(mind[p].to)
            /\ mind[p].freed \subseteq Shiftable(p)
            /\ FoundInOrder(p) => RunsBut(p, mind[p].freed, mind[p].started)

\* What is there of a release runs, but for what has its turn to come.
Whole(v, but) == BoxesOf(v) \cap There \subseteq Running \cup but
Untouched(p) == edge = mind[p].foundEdge
Switched(p) == IF UsesCaddy THEN edge.to = mind[p].to ELSE Untouched(p)

\* After a failure: what is left to stop and what to bring back.
Back(p, up) == /\ Aims(p)
               /\ mind[p].started \subseteq BoxesOf(mind[p].to)
               /\ mind[p].later \subseteq Shiftable(p)
               /\ FoundInOrder(p) /\ p \notin muddied \cup misled => RunsBut(p, mind[p].later, up)
RouteBack(p) == FoundInOrder(p) /\ p \notin misled => edge.to = mind[p].foundEdge.to

\* A stop, start or restart of the current release.
Tends(p) == /\ mind[p].job \in {"stop", "start", "restart"}
            /\ mind[p].saw = applied
            /\ mind[p].todo \cup mind[p].later \subseteq BoxesOf(applied.current) \cap BoxNames
            /\ FoundInOrder(p) => Running \subseteq BoxesOf(applied.current)
WebIn(p, ks) == mind[p].listed[Web(applied.current)] # Gone => Web(applied.current) \in ks

\* Before its first effect.
Outset(p) ==
    /\ Running = mind[p].foundRunning /\ Untouched(p)
    /\ mind[p].started = {} /\ mind[p].freed = {}

\* One predicate per stage.
AtRead(p) ==
    /\ Outset(p)
    /\ \/ mind[p].job \in {"rollback", "stop", "start", "restart"}
       \/ mind[p].job = "redeploy" /\ mind[p].to \in Releases
    /\ mind[p].to \in Releases \cup {NoRelease}
AtRegion(p) ==
    Aims(p) /\ Outset(p)
AtList(p) ==
    \/ AtRegion(p)
    \/ /\ mind[p].job \in {"stop", "start", "restart"} /\ mind[p].saw = applied
       /\ Running = mind[p].foundRunning
AtFree(p) ==
    /\ Forth(p) /\ Untouched(p) /\ mind[p].started = {}
    /\ mind[p].todo \subseteq Shiftable(p)
    /\ TargetBoxes(p) = BoxesOf(mind[p].to) \cap There
AtStart(p) ==
    /\ Forth(p) /\ Untouched(p) /\ mind[p].todo \subseteq BoxesOf(mind[p].to)
    /\ Whole(mind[p].to, mind[p].todo)
AtRun(p) == AtStart(p) /\ mind[p].now \in BoxesOf(mind[p].to)
RbHealth(p) == Forth(p) /\ Untouched(p) /\ Whole(mind[p].to, {})
AtSwitch(p) == RbHealth(p) /\ Web(mind[p].to) \in Running
AtCommit(p) == Forth(p) /\ Switched(p) /\ Whole(mind[p].to, {}) /\ Web(mind[p].to) \in Running
AtRetire(p) ==
    /\ mind[p].job = "rollback" /\ applied.current = mind[p].to
    /\ UsesCaddy => edge.to = mind[p].to
    /\ Whole(mind[p].to, {}) /\ Web(mind[p].to) \in Running
    /\ mind[p].todo \subseteq BoxNames \ BoxesOf(mind[p].to)
    /\ FoundInOrder(p) /\ p \notin muddied => Running \subseteq BoxesOf(mind[p].to) \cup mind[p].todo
AtUnroute(p) == Back(p, mind[p].todo) /\ UsesCaddy /\ mind[p].todo \subseteq BoxesOf(mind[p].to)
AtUnstart(p) == Back(p, mind[p].todo) /\ RouteBack(p) /\ mind[p].todo \subseteq BoxesOf(mind[p].to)
AtUnfree(p) == Back(p, {}) /\ RouteBack(p)
AtRerun(p) == AtUnfree(p) /\ mind[p].now \in mind[p].later
AtUnmake(p) == AtUnfree(p) /\ mind[p].later = {} /\ mind[p].todo \subseteq BoxesOf(mind[p].to)
AtHalt(p) == /\ Tends(p)
             /\ mind[p].todo \subseteq mind[p].later
             /\ mind[p].job # "stop" =>
                   WebIn(p, mind[p].later) /\ Whole(applied.current, mind[p].later)
AtLaunch(p) == /\ Tends(p) /\ WebIn(p, Running \cup mind[p].todo)
               /\ Whole(applied.current, mind[p].todo)
TendsHealth(p) == Tends(p) /\ WebIn(p, Running) /\ Whole(applied.current, {})

\* What a failed rollback and a reported success owe.
Undone(p) ==
    /\ ended[p] = "failed" /\ mind[p].job = "rollback"
    /\ p \notin muddied \cup misled /\ FoundInOrder(p)
    => Running = mind[p].foundRunning /\ edge.to = mind[p].foundEdge.to /\ applied = mind[p].saw
Serves(p) ==
    ended[p] = "ok" /\ mind[p].job # "stop" =>
        /\ BoxesOf(applied.current) \cap There \subseteq Running
        /\ Web(applied.current) \in Running
        /\ mind[p].job \notin {"start", "restart"} /\ UsesCaddy => edge.to = applied.current
        /\ FoundInOrder(p) /\ p \notin muddied => Running \subseteq BoxesOf(applied.current)

Stage(p) ==
    /\ at[p] = "read" => AtRead(p)
    /\ at[p] = "region" => AtRegion(p)
    /\ at[p] = "list" => AtList(p)
    /\ at[p] = "free" => AtFree(p)
    /\ at[p] = "start" => AtStart(p)
    /\ at[p] = "run" => AtRun(p)
    /\ at[p] = "health" => RbHealth(p) \/ TendsHealth(p)
    /\ at[p] = "switch" => AtSwitch(p) /\ UsesCaddy
    /\ at[p] \in {"reread", "commit"} => AtCommit(p)
    /\ at[p] = "retire" => AtRetire(p)
    /\ at[p] = "unroute" => AtUnroute(p)
    /\ at[p] = "unstart" => AtUnstart(p)
    /\ at[p] = "unfree" => AtUnfree(p)
    /\ at[p] = "rerun" => AtRerun(p)
    /\ at[p] = "unmake" => AtUnmake(p)
    /\ at[p] = "halt" => AtHalt(p)
    /\ at[p] = "launch" => AtLaunch(p)
    /\ at[p] = "release" => Undone(p) /\ Serves(p)

\* The operation at work holds the lock: nobody else is.
Alone(p) == lease = p /\ Recalls(p) /\ Stage(p)
TripInv ==
    /\ RbShape
    /\ robbed = {} => TripShape /\ \A p \in Actors : Busy(p) => Alone(p)

-----------------------------------------------------------------------------
\* The releases and the target an operation set out from stay known.
Bearings(p) ==
    /\ Recalls(p)'
    /\ mind'[p].job = mind[p].job /\ mind'[p].to = mind[p].to
    /\ mind'[p].saw = mind[p].saw
    /\ mind'[p].foundRunning = mind[p].foundRunning /\ mind'[p].foundEdge = mind[p].foundEdge

\* What is one release's is no other's.
LEMMA BoxesApart ==
  /\ \A u, v : u # v => BoxesOf(u) \cap BoxesOf(v) = {} /\ Web(u) \notin BoxesOf(v)
  /\ \A v : Web(v) \in BoxesOf(v)
  /\ \A v \in Releases : BoxesOf(v) \subseteq BoxNames
BY DEF BoxesOf, Web, BoxNames

\* Every name keeps a container, or none.
BoxesKept == boxes' = [j \in BoxNames |-> boxes'[j]] /\ \A j \in BoxNames : IsBox(boxes'[j])

\* What runs and what is there after one container changed.
LEMMA BoxPut ==
  ASSUME TripShape, NEW k \in BoxNames, NEW b, IsBox(b), boxes' = [boxes EXCEPT ![k] = b]
  PROVE  /\ Running' = IF b.run THEN Running \cup {k} ELSE Running \ {k}
         /\ There' = IF b # Gone THEN There \cup {k} ELSE There \ {k}
         /\ BoxesKept
<1>1. /\ boxes' = [j \in BoxNames |-> boxes'[j]]
      /\ boxes'[k] = b /\ \A j \in BoxNames \ {k} : boxes'[j] = boxes[j]
  BY DEF TripShape, RbShape
<1>2. \A j \in BoxNames : IsBox(boxes'[j])
  BY <1>1 DEF TripShape
<1>3. Running' = IF b.run THEN Running \cup {k} ELSE Running \ {k}
  BY <1>1 DEF Running, IsBox
<1>4. There' = IF b # Gone THEN There \cup {k} ELSE There \ {k}
  BY <1>1 DEF There
<1> QED
  BY <1>1, <1>2, <1>3, <1>4 DEF BoxesKept

\* Turning a container on or off.
LEMMA BoxTurned ==
  ASSUME NEW b, IsBox(b), NEW on \in BOOLEAN
  PROVE  /\ IsBox([b EXCEPT !.run = on]) /\ [b EXCEPT !.run = on].run = on
         /\ b = Gone /\ ~on => [b EXCEPT !.run = on] = Gone
<1>1. [b EXCEPT !.run = on] = [run |-> on, gen |-> b.gen, by |-> b.by]
  BY DEF IsBox
<1>2. \A g, y : IsBox([run |-> on, gen |-> g, by |-> y])
  BY DEF IsBox
<1>3. b = Gone /\ ~on => [run |-> on, gen |-> b.gen, by |-> b.by] = Gone
  <2>1. Gone.gen = 0 /\ Gone.by = Nobody
    BY DEF Gone
  <2>2. ~on => on = FALSE
    OBVIOUS
  <2> QED
    BY <2>1, <2>2 DEF Gone
<1> QED
  BY <1>1, <1>2, <1>3

\* A stop takes a container out of what runs, and removes no other.
LEMMA WhenStopped ==
  ASSUME TripShape, NEW k \in BoxNames, Stopped(k)
  PROVE  /\ Running' = Running \ {k} /\ There' \subseteq There /\ There \ {k} \subseteq There'
         /\ BoxesKept
<1>1. IsBox([boxes[k] EXCEPT !.run = FALSE]) /\ ~[boxes[k] EXCEPT !.run = FALSE].run
  BY BoxTurned DEF TripShape
<1>2. boxes' = [boxes EXCEPT ![k] = [boxes[k] EXCEPT !.run = FALSE]]
  BY DEF Stopped
<1>3. boxes[k] = Gone => [boxes[k] EXCEPT !.run = FALSE] = Gone
  BY BoxTurned DEF TripShape
<1> QED
  BY <1>1, <1>2, <1>3, BoxPut DEF There

\* A start adds it to what runs.
LEMMA WhenLaunched ==
  ASSUME TripShape, NEW k \in BoxNames, boxes' = [boxes EXCEPT ![k].run = TRUE]
  PROVE  Running' = Running \cup {k} /\ There' \subseteq There \cup {k} /\ BoxesKept
<1>1. IsBox([boxes[k] EXCEPT !.run = TRUE]) /\ [boxes[k] EXCEPT !.run = TRUE].run
  BY BoxTurned DEF TripShape
<1>2. boxes' = [boxes EXCEPT ![k] = [boxes[k] EXCEPT !.run = TRUE]]
  OBVIOUS
<1> QED
  BY <1>1, <1>2, BoxPut DEF There

\* A removal takes it out of what runs and of what is there.
LEMMA WhenRemoved ==
  ASSUME TripShape, NEW k \in BoxNames, boxes' = [boxes EXCEPT ![k] = Gone]
  PROVE  Running' = Running \ {k} /\ There' = There \ {k} /\ BoxesKept
<1>1. IsBox(Gone) /\ ~Gone.run
  BY DEF Gone, IsBox
<1> QED
  BY <1>1, BoxPut

\* A run makes it and starts it.
LEMMA WhenMade ==
  ASSUME TripShape, NEW p \in Actors, NEW k \in BoxNames, RunsBox(p, k)
  PROVE  Running' = Running \cup {k} /\ There' \subseteq There \cup {k} /\ BoxesKept
<1>1. IsBox(Recreated(p, k, TRUE)) /\ Recreated(p, k, TRUE).run
  BY DEF Recreated, IsBox
<1> QED
  BY <1>1, BoxPut DEF RunsBox, There

\* A run that fails starts nothing, and may make it.
LEMMA WhenNotMade ==
  ASSUME TripShape, NEW p \in Actors, NEW k \in BoxNames, RunFails(p, k)
  PROVE  Running' = Running /\ There' \subseteq There \cup {k} /\ BoxesKept
<1>1. CASE UNCHANGED boxes
  BY <1>1 DEF Running, There, BoxesKept, TripShape, RbShape
<1>2. CASE boxes[k] = Gone /\ boxes' = [boxes EXCEPT ![k] = Recreated(p, k, FALSE)]
  <2>1. IsBox(Recreated(p, k, FALSE)) /\ ~Recreated(p, k, FALSE).run
    BY DEF Recreated, IsBox
  <2>2. k \notin Running
    BY <1>2 DEF Running, Gone
  <2> QED
    <3> DEFINE made == Recreated(p, k, FALSE)
    <3>1. IsBox(made) /\ ~made.run /\ boxes' = [boxes EXCEPT ![k] = made]
      BY <1>2, <2>1
    <3> HIDE DEF made
    <3>2. Running' = Running \ {k} /\ There' \subseteq There \cup {k} /\ BoxesKept
      BY <3>1, BoxPut
    <3> QED
      BY <2>2, <3>2
<1> QED
  BY <1>1, <1>2 DEF RunFails

\* What no command touched is as it was.
LEMMA WhenKept ==
  ASSUME TripShape, UNCHANGED boxes
  PROVE  Running' = Running /\ There' = There /\ BoxesKept
BY DEF Running, There, BoxesKept, TripShape, RbShape


-----------------------------------------------------------------------------
\* A step after which the operation still holds the lock, and is in the state
\* its next stage asks for.
Carries(p) ==
    /\ lease' = lease /\ robbed' = robbed /\ BoxesKept
    /\ ended' = [q \in Actors |-> ended'[q]]
    /\ applied'.current \in Releases /\ applied'.previous \in Releases \cup {NoRelease}
Lands(p) == TripShape' /\ lease' = lease /\ robbed' = robbed /\ Recalls(p)' /\ Stage(p)'

\* The parts of a step make the step.
LEMMA Landing ==
  ASSUME RbShape', NEW p \in Actors, Carries(p), Recalls(p)', Stage(p)'
  PROVE  Lands(p)
BY DEF Lands, Carries, TripShape, BoxesKept

\* What an operation set out from stays, whatever else it notes.
LEMMA Steady ==
  ASSUME NEW p \in Actors, Bearings(p), UNCHANGED ingress
  PROVE  /\ FoundInOrder(p)' <=> FoundInOrder(p)
         /\ Shiftable(p)' = Shiftable(p)
         /\ (FixedPorts' <=> FixedPorts) /\ (UsesCaddy' <=> UsesCaddy)
         /\ UNCHANGED applied => (Aims(p)' <=> Aims(p))
BY DEF Bearings, FoundInOrder, Shiftable, FixedPorts, UsesCaddy, Aims

\* So does one that notes nothing.
LEMMA NothingNoted ==
  ASSUME NEW p \in Actors, Recalls(p), UNCHANGED mind
  PROVE  Bearings(p)
BY DEF Bearings, Recalls

\* What ends neither well nor undone owes nothing.
LEMMA GivesUp ==
  ASSUME TripShape, RbShape', NEW p \in Actors, Alone(p), UNCHANGED <<mind, lease>>, BoxesKept,
         Leaves(p, "refused") \/ Leaves(p, "attention") \/ Leaves(p, "preserved"),
         applied'.current \in Releases, applied'.previous \in Releases \cup {NoRelease}
  PROVE  Lands(p)
<1>1. at'[p] = "release" /\ ended'[p] \in {"refused", "attention", "preserved"} /\ Carries(p)
  BY DEF Leaves, GoesTo, Says, TripShape, RbShape, Carries
<1>2. Stage(p)'
  BY <1>1 DEF Stage, Undone, Serves
<1>3. Recalls(p)'
  BY DEF Alone, Recalls
<1> QED
  BY <1>1, <1>2, <1>3, Landing

\* A step that changes no container, nor the state.
LEMMA Still ==
  ASSUME TripShape, NEW p \in Actors, UNCHANGED <<ingress, lease, target>>,
         UNCHANGED told \/ \E o : Says(p, o)
  PROVE  Carries(p) /\ Running' = Running /\ There' = There /\ UNCHANGED <<edge, applied>>
BY WhenKept DEF Carries, Says, told, target, TripShape

\* What holds between the inventory and the commit needs no more than this.
LEMMA ForthStays ==
  ASSUME NEW p \in Actors, Forth(p), Bearings(p), UNCHANGED <<ingress, applied>>,
         mind'[p].listed = mind[p].listed, mind'[p].started = mind[p].started,
         mind'[p].freed = mind[p].freed, Running' = Running
  PROVE  Forth(p)'
<1>1. /\ FoundInOrder(p)' <=> FoundInOrder(p)
      /\ Shiftable(p)' = Shiftable(p)
      /\ Aims(p)'
  BY Steady DEF Forth
<1>2. Inventory(p)'
  BY DEF Forth, Inventory, ListedRun, Bearings
<1>3. (FoundInOrder(p) => RunsBut(p, mind[p].freed, mind[p].started))'
  BY <1>1 DEF RunsBut, Bearings, Forth
<1> QED
  BY <1>1, <1>2, <1>3 DEF Forth, Bearings

\* A newer label in the inventory is no other container.
LEMMA Relabelled ==
  ASSUME NEW p \in Actors, Inventory(p), NEW k \in BoxNames, NEW gen,
         mind'[p].foundRunning = mind[p].foundRunning,
         mind'[p].listed = [mind[p].listed EXCEPT ![k].gen = gen]
  PROVE  Inventory(p)'
<1> DEFINE b == [mind[p].listed[k] EXCEPT !.gen = gen]
<1>1. mind'[p].listed = [mind[p].listed EXCEPT ![k] = b]
  OBVIOUS
<1>2. b = [run |-> mind[p].listed[k].run, gen |-> gen, by |-> mind[p].listed[k].by]
  BY DEF Inventory, IsBox
<1>3. IsBox(b) /\ b.run = mind[p].listed[k].run
  BY <1>2 DEF Inventory, IsBox
<1> HIDE DEF b
<1> QED
  BY <1>1, <1>3 DEF Inventory, ListedRun

\* A failure before the commit, with the route where it was found.
LEMMA UnwindsLands ==
  ASSUME TripShape, RbShape', NEW p \in Actors, Alone(p), Forth(p), Untouched(p), BoxesKept,
         UNCHANGED <<ingress, lease, edge, applied, told>>, Unwinds(p), Running' = Running
  PROVE  Lands(p)
<1>1. Recalls(p) /\ Aims(p)
  BY DEF Alone, Forth
<1>2. /\ Bearings(p) /\ at'[p] = "unstart"
      /\ mind'[p].started = mind[p].started
      /\ mind'[p].todo = mind[p].started /\ mind'[p].later = mind[p].freed
  BY <1>1 DEF Unwinds, Bearings, Keeps, GoesTo, Recalls, Fields, TripShape, RbShape
<1>3. Carries(p)
  BY DEF Carries, told, TripShape
<1>4. /\ FoundInOrder(p)' <=> FoundInOrder(p)
      /\ Shiftable(p)' = Shiftable(p)
      /\ Aims(p)'
  BY <1>1, <1>2, Steady
<1>5. (FoundInOrder(p) => RunsBut(p, mind[p].later, mind[p].todo))'
  BY <1>2, <1>4 DEF RunsBut, Bearings, Forth
<1>6. Back(p, mind[p].todo)'
  BY <1>2, <1>4, <1>5 DEF Back, Forth, Bearings
<1>7. RouteBack(p)'
  BY <1>2 DEF RouteBack, Untouched, Bearings
<1>8. AtUnstart(p)'
  BY <1>2, <1>6, <1>7 DEF AtUnstart, Forth, Bearings
<1> QED
  BY <1>2, <1>3, <1>8, Landing DEF Stage, Bearings

\* One that is told so of what took effect: what it did without knowing stays.
LEMMA MisledLands ==
  ASSUME TripShape, RbShape', NEW p \in Actors, Alone(p), Forth(p), BoxesKept,
         UNCHANGED <<ingress, lease, applied>>, Unwinds(p), Misleads(p)
  PROVE  Lands(p)
<1>1. Recalls(p) /\ Aims(p)
  BY DEF Alone, Forth
<1>2. /\ Bearings(p) /\ at'[p] = "unstart"
      /\ mind'[p].started = mind[p].started
      /\ mind'[p].todo = mind[p].started /\ mind'[p].later = mind[p].freed
  BY <1>1 DEF Unwinds, Bearings, Keeps, GoesTo, Recalls, Fields, TripShape, RbShape
<1>3. Carries(p) /\ p \in misled'
  BY DEF Misleads, Carries, TripShape
<1>4. Shiftable(p)' = Shiftable(p) /\ Aims(p)'
  BY <1>1, <1>2, Steady
<1>5. Back(p, mind[p].todo)' /\ RouteBack(p)'
  BY <1>2, <1>3, <1>4 DEF Back, RouteBack, Forth, Bearings
<1>6. AtUnstart(p)'
  BY <1>2, <1>5 DEF AtUnstart, Forth, Bearings
<1> QED
  BY <1>2, <1>3, <1>6, Landing DEF Stage, Bearings

\* What the undo has left to do changes only with what it does.
LEMMA BackStays ==
  ASSUME NEW p \in Actors, NEW up, Back(p, up), Bearings(p),
         UNCHANGED <<ingress, applied, muddied, misled>>, mind'[p].started = mind[p].started,
         mind'[p].later = mind[p].later, Running' = Running
  PROVE  /\ Back(p, {})' \/ up # {}
         /\ mind'[p].todo = up => Back(p, mind[p].todo)'
<1>1. /\ FoundInOrder(p)' <=> FoundInOrder(p)
      /\ Shiftable(p)' = Shiftable(p)
      /\ Aims(p)'
  BY Steady DEF Back
<1>2. RunsBut(p, mind[p].later, up) =>
        /\ up = {} => RunsBut(p, mind[p].later, {})'
        /\ mind'[p].todo = up => RunsBut(p, mind[p].later, mind[p].todo)'
  BY DEF RunsBut, Bearings
<1> QED
  BY <1>1, <1>2 DEF Back, Bearings

\* The route that was brought back stays.
LEMMA RouteStays ==
  ASSUME NEW p \in Actors, RouteBack(p), Bearings(p), UNCHANGED <<ingress, edge, misled>>
  PROVE  RouteBack(p)'
BY Steady DEF RouteBack, Bearings

\* A rollback that fails with nothing left to stop or to bring back.
LEMMA UndoneLands ==
  ASSUME TripShape, RbShape', NEW p \in Actors, Alone(p), NEW up, up = {}, Back(p, up),
         RouteBack(p), mind[p].later = {}, Leaves(p, "failed"), UNCHANGED mind,
         UNCHANGED target, UNCHANGED <<ingress, lease>>
  PROVE  Lands(p)
<1>1. /\ Carries(p) /\ Running' = Running /\ UNCHANGED <<edge, applied, muddied, misled>>
  BY Still DEF Leaves, Says
<1>2. Bearings(p) /\ at'[p] = "release" /\ ended'[p] = "failed" /\ mind[p].job = "rollback"
  BY NothingNoted DEF Alone, Back, Aims, Leaves, Says, GoesTo, TripShape, RbShape
<1>3. FoundInOrder(p) /\ p \notin muddied \cup misled => Running = mind[p].foundRunning
  BY DEF Back, RunsBut, FoundInOrder
<1>4. Undone(p)'
  BY <1>1, <1>2, <1>3, Steady DEF Undone, RouteBack, Back, Aims, Bearings
<1> QED
  BY <1>1, <1>2, <1>4, Landing DEF Stage, Serves, Bearings

\* The target is a release, and not the current one.
LEMMA ReadStateLands ==
  ASSUME TripShape, RbShape', NEW p \in Actors, Alone(p), ReadState(p)
  PROVE  Lands(p)
<1>1. AtRead(p) /\ mind[p].job = "rollback" /\ Recalls(p)
  BY DEF Alone, Stage, ReadState
<1>2. Carries(p) /\ Running' = Running /\ UNCHANGED <<edge, applied>>
  BY Still DEF ReadState, Leaves
<1> DEFINE to == IF mind[p].to = NoRelease THEN applied.previous ELSE mind[p].to
<1>3. CASE to \in {NoRelease, applied.current}
  BY <1>2, <1>3, GivesUp DEF ReadState, Carries, TripShape
<1>4. CASE to \notin {NoRelease, applied.current}
  <2>1. Keeps(p, [mind[p] EXCEPT !.to = to, !.saw = applied]) /\ GoesTo(p, "region")
    BY <1>4 DEF ReadState
  <2>2. to \in Releases /\ to # applied.current
    BY <1>1, <1>4 DEF TripShape, AtRead
  <2> HIDE DEF to
  <2>3. /\ Recalls(p)' /\ mind'[p].job = "rollback" /\ mind'[p].to = to /\ mind'[p].saw = applied
        /\ mind'[p].foundRunning = mind[p].foundRunning /\ mind'[p].foundEdge = mind[p].foundEdge
        /\ mind'[p].started = mind[p].started /\ mind'[p].freed = mind[p].freed
        /\ at'[p] = "region"
    BY <1>1, <2>1 DEF Keeps, GoesTo, Recalls, Fields, TripShape, RbShape
  <2>4. AtRegion(p)'
    BY <1>1, <1>2, <2>2, <2>3 DEF AtRegion, AtRead, Outset, Aims, Untouched
  <2> QED
    BY <1>2, <2>3, <2>4, Landing DEF Stage
<1> QED
  BY <1>3, <1>4

\* The block the state names is still the one found.
LEMMA ReadRegionLands ==
  ASSUME TripShape, RbShape', NEW p \in Actors, Alone(p), ReadRegion(p)
  PROVE  Lands(p)
<1>1. AtRegion(p) /\ Recalls(p)
  BY DEF Alone, Stage, ReadRegion
<1>2. Carries(p) /\ Running' = Running /\ UNCHANGED <<edge, applied>>
  BY Still DEF ReadRegion
<1>3. /\ Bearings(p) /\ at'[p] = "list"
      /\ mind'[p].started = mind[p].started /\ mind'[p].freed = mind[p].freed
  BY <1>1 DEF ReadRegion, Bearings, Keeps, GoesTo, Recalls, Fields, TripShape, RbShape
<1>4. AtList(p)'
  BY <1>1, <1>2, <1>3 DEF AtList, AtRegion, Outset, Aims, Untouched, Bearings
<1> QED
  BY <1>2, <1>3, <1>4, Landing DEF Stage, Bearings

\* The inventory is what runs.
LEMMA ListBoxesLands ==
  ASSUME TripShape, RbShape', NEW p \in Actors, Alone(p), ListBoxes(p)
  PROVE  Lands(p)
<1>1. AtRegion(p) /\ Recalls(p)
  BY DEF Alone, Stage, ListBoxes, AtList
<1>2. Carries(p) /\ Running' = Running /\ There' = There /\ UNCHANGED <<edge, applied, ingress>>
  BY Still DEF ListBoxes, Leaves
<1>3. CASE Web(mind[p].to) \notin There
  BY <1>2, <1>3, GivesUp DEF ListBoxes, Carries, TripShape
<1>4. CASE Web(mind[p].to) \in There
  <2> DEFINE way == IF FixedPorts THEN InTheWay(p) ELSE {}
  <2>1. Keeps(p, [mind[p] EXCEPT !.listed = boxes, !.todo = way]) /\ GoesTo(p, "free")
    BY <1>4 DEF ListBoxes
  <2>2. way = IF FixedPorts THEN InTheWay(p) ELSE {}
    OBVIOUS
  <2> HIDE DEF way
  <2>3. /\ Bearings(p) /\ at'[p] = "free" /\ mind'[p].listed = boxes
        /\ mind'[p].todo = way
        /\ mind'[p].started = mind[p].started /\ mind'[p].freed = mind[p].freed
    BY <1>1, <2>1 DEF Bearings, Keeps, GoesTo, Recalls, Fields, TripShape, RbShape
  <2>4. Inventory(p)'
    BY <1>1, <1>2, <2>3 DEF Inventory, ListedRun, TripShape, RbShape, Bearings, AtRegion, Outset,
       Running
  <2>5. /\ FoundInOrder(p)' <=> FoundInOrder(p)
        /\ Shiftable(p)' = Shiftable(p)
        /\ Aims(p)'
    BY <1>1, <1>2, <2>3, Steady DEF AtRegion
  <2>6. Forth(p)'
    <3>1. FoundInOrder(p) => /\ Running \ BoxesOf(mind[p].to) = mind[p].foundRunning
                             /\ Running \cap BoxesOf(mind[p].to) = {}
      BY <1>1, BoxesApart DEF FoundInOrder, AtRegion, Outset, Aims
    <3>2. (FoundInOrder(p) => RunsBut(p, mind[p].freed, mind[p].started))'
      BY <1>1, <1>2, <2>3, <2>5, <3>1 DEF RunsBut, Bearings, AtRegion, Outset
    <3> QED
      BY <1>1, <2>3, <2>4, <2>5, <3>2 DEF Forth, AtRegion, Outset
  <2>7. mind'[p].todo \subseteq Shiftable(p)'
    BY <1>1, <2>3, <2>5, <2>2 DEF Shiftable, InTheWay, AtRegion, Outset
  <2>8. TargetBoxes(p)' = BoxesOf(mind'[p].to) \cap There'
    BY <1>1, <1>2, <2>3, BoxesApart DEF TargetBoxes, There, Bearings, AtRegion, Aims
  <2>9. AtFree(p)'
    BY <1>1, <1>2, <2>3, <2>6, <2>7, <2>8 DEF AtFree, Untouched, Bearings, AtRegion, Outset
  <2> QED
    BY <1>2, <2>3, <2>9, Landing DEF Stage, Bearings
<1> QED
  BY <1>3, <1>4

\* Making way stops what was found running of the release it leaves.
LEMMA FreePortLands ==
  ASSUME TripShape, RbShape', NEW p \in Actors, Alone(p), FreePort(p)
  PROVE  Lands(p)
<1>1. AtFree(p) /\ Recalls(p) /\ Forth(p) /\ Aims(p) /\ Inventory(p)
  BY DEF Alone, Stage, FreePort, AtFree, Forth
<1>2. Shiftable(p) \cap BoxesOf(mind[p].to) = {}
  BY <1>1, BoxesApart DEF Shiftable, Aims
<1>3. CASE /\ mind[p].todo = {} /\ UNCHANGED <<target, told>>
           /\ Keeps(p, [mind[p] EXCEPT !.todo = TargetBoxes(p)]) /\ GoesTo(p, "start")
  <2>1. /\ Bearings(p) /\ at'[p] = "start" /\ mind'[p].todo = TargetBoxes(p)
        /\ mind'[p].started = mind[p].started /\ mind'[p].freed = mind[p].freed
        /\ mind'[p].listed = mind[p].listed
    BY <1>1, <1>3 DEF Bearings, Keeps, GoesTo, Recalls, Fields, TripShape, RbShape
  <2>2. Carries(p) /\ Running' = Running /\ There' = There /\ UNCHANGED <<edge, applied, ingress>>
    BY <1>3, Still DEF FreePort
  <2>3. Forth(p)'
    BY <1>1, <2>1, <2>2, ForthStays
  <2>4. AtStart(p)'
    BY <1>1, <2>1, <2>2, <2>3 DEF AtStart, AtFree, Untouched, Bearings, Whole, Aims
  <2> QED
    BY <2>1, <2>2, <2>4, Landing DEF Stage, Bearings
<1>4. ASSUME NEW k \in mind[p].todo, Stopped(k), UNCHANGED <<edge, applied, at, told>>,
             Keeps(p, [mind[p] EXCEPT !.todo = @ \ {k}, !.freed = @ \cup {k}])
      PROVE  Lands(p)
  <2>1. /\ Bearings(p) /\ at'[p] = "free" /\ mind'[p].todo = mind[p].todo \ {k}
        /\ mind'[p].started = mind[p].started /\ mind'[p].freed = mind[p].freed \cup {k}
        /\ mind'[p].listed = mind[p].listed
    BY <1>1, <1>4 DEF FreePort, Bearings, Keeps, GoesTo, Recalls, Fields, TripShape, RbShape
  <2>2. k \in Shiftable(p) /\ k \in BoxNames /\ k \notin BoxesOf(mind[p].to)
    BY <1>1, <1>2, BoxesApart DEF AtFree, Shiftable, Aims, TripShape, Inventory, ListedRun
  <2>3. Running' = Running \ {k} /\ There' \ {k} = There \ {k} /\ BoxesKept
    BY <1>4, <2>2, WhenStopped
  <2>4. Carries(p) /\ UNCHANGED <<edge, applied, ingress>>
    BY <1>4, <2>3 DEF FreePort, Carries, told, TripShape
  <2>5. /\ FoundInOrder(p)' <=> FoundInOrder(p)
        /\ Shiftable(p)' = Shiftable(p)
        /\ Aims(p)'
    BY <1>1, <2>1, <2>4, Steady
  <2>6. Inventory(p)'
    BY <1>1, <2>1 DEF Inventory, ListedRun, Bearings
  <2>7. (FoundInOrder(p) => RunsBut(p, mind[p].freed, mind[p].started))'
    BY <1>1, <2>1, <2>2, <2>3, <2>5 DEF RunsBut, Bearings, Forth
  <2>8. Forth(p)'
    BY <1>1, <2>1, <2>2, <2>5, <2>6, <2>7 DEF Forth, Bearings
  <2>9. AtFree(p)'
    BY <1>1, <2>1, <2>2, <2>3, <2>4, <2>5, <2>8 DEF AtFree, Untouched, Bearings, TargetBoxes
  <2> QED
    BY <2>1, <2>4, <2>9, Landing DEF Stage, Bearings
<1>5. CASE Unwinds(p) /\ UNCHANGED <<target, told>>
  BY <1>1, <1>5, UnwindsLands, WhenKept DEF FreePort, target, AtFree
<1>6. ASSUME NEW k \in mind[p].todo, Stopped(k), Unwinds(p), Misleads(p), UNCHANGED <<edge, applied>>
      PROVE  Lands(p)
  <2>1. k \in BoxNames
    BY <1>1, BoxesApart DEF AtFree, Shiftable, Aims, TripShape
  <2> QED
    BY <1>1, <1>6, <2>1, WhenStopped, MisledLands DEF FreePort
<1> QED
  BY <1>3, <1>4, <1>5, <1>6 DEF FreePort

\* A target container is removed on its way to being made again.
LEMMA RemoveOldLands ==
  ASSUME TripShape, RbShape', NEW p \in Actors, Alone(p), RemoveOld(p)
  PROVE  Lands(p)
<1>1. AtStart(p) /\ Recalls(p) /\ Forth(p) /\ Aims(p) /\ Inventory(p) /\ Untouched(p)
  BY DEF Alone, Stage, RemoveOld, AtStart, Forth
<1>2. CASE mind[p].todo = {} /\ GoesTo(p, "health") /\ UNCHANGED <<target, mind, told>>
  <2>1. Carries(p) /\ Running' = Running /\ There' = There /\ UNCHANGED <<edge, applied, ingress>>
    BY <1>2, Still DEF RemoveOld
  <2>2. Bearings(p) /\ at'[p] = "health"
    BY <1>1, <1>2, NothingNoted DEF GoesTo, TripShape, RbShape
  <2>3. Forth(p)'
    BY <1>1, <1>2, <2>1, <2>2, ForthStays
  <2>4. RbHealth(p)'
    BY <1>1, <1>2, <2>1, <2>2, <2>3 DEF RbHealth, AtStart, Whole, Untouched
  <2> QED
    BY <2>1, <2>2, <2>4, Landing DEF Stage, Bearings
<1>3. ASSUME NEW k \in mind[p].todo, boxes' = [boxes EXCEPT ![k] = Gone],
             Keeps(p, [mind[p] EXCEPT !.todo = @ \ {k}, !.now = k,
                                      !.listed[k].gen = boxes[k].gen]),
             GoesTo(p, "run"), UNCHANGED <<edge, applied, told>>
      PROVE  Lands(p)
  <2>1. k \in BoxNames /\ k \in BoxesOf(mind[p].to)
    BY <1>1, BoxesApart DEF AtStart, Aims
  <2>2. /\ Bearings(p) /\ at'[p] = "run" /\ mind'[p].todo = mind[p].todo \ {k}
        /\ mind'[p].started = mind[p].started /\ mind'[p].freed = mind[p].freed
        /\ mind'[p].now = k
        /\ mind'[p].listed = [mind[p].listed EXCEPT ![k].gen = boxes[k].gen]
    BY <1>1, <1>3, <2>1 DEF Bearings, Keeps, GoesTo, Recalls, Fields, TripShape, RbShape
  <2>3. Running' = Running \ {k} /\ There' = There \ {k} /\ BoxesKept
    BY <1>3, <2>1, WhenRemoved
  <2>4. Carries(p) /\ UNCHANGED <<edge, applied, ingress>>
    BY <1>3, <2>3 DEF RemoveOld, Carries, told, TripShape
  <2>5. /\ FoundInOrder(p)' <=> FoundInOrder(p)
        /\ Shiftable(p)' = Shiftable(p)
        /\ Aims(p)'
    BY <1>1, <2>2, <2>4, Steady
  <2>6. Inventory(p)'
    BY <1>1, <2>1, <2>2, Relabelled DEF Bearings
  <2>7. (FoundInOrder(p) => RunsBut(p, mind[p].freed, mind[p].started))'
    BY <1>1, <2>1, <2>2, <2>3, <2>5 DEF RunsBut, Bearings, Forth
  <2>8. Forth(p)'
    BY <1>1, <2>2, <2>5, <2>6, <2>7 DEF Forth, Bearings
  <2>9. AtRun(p)'
    BY <1>1, <2>1, <2>2, <2>3, <2>4, <2>8 DEF AtRun, AtStart, Whole, Untouched, Bearings
  <2> QED
    BY <2>2, <2>4, <2>9, Landing DEF Stage, Bearings
<1>4. CASE Unwinds(p) /\ UNCHANGED <<target, told>>
  BY <1>1, <1>4, UnwindsLands, WhenKept DEF RemoveOld, target
<1> QED
  BY <1>2, <1>3, <1>4 DEF RemoveOld

\* It is made and started, or the rollback unwinds.
LEMMA RunNewLands ==
  ASSUME TripShape, RbShape', NEW p \in Actors, Alone(p), RunNew(p)
  PROVE  Lands(p)
<1>1. AtRun(p) /\ Recalls(p) /\ Forth(p) /\ Aims(p) /\ Inventory(p) /\ Untouched(p)
  BY DEF Alone, Stage, RunNew, AtStart, AtRun, Forth
<1> DEFINE k == mind[p].now
<1>2. k \in BoxesOf(mind[p].to) /\ k \in BoxNames
  BY <1>1, BoxesApart DEF AtRun, Aims
<1>3. CASE RunsBox(p, k) /\ UNCHANGED told
           /\ Keeps(p, [mind[p] EXCEPT !.started = @ \cup {k}]) /\ GoesTo(p, "start")
  <2>1. /\ Bearings(p) /\ at'[p] = "start" /\ mind'[p].todo = mind[p].todo
        /\ mind'[p].started = mind[p].started \cup {k} /\ mind'[p].freed = mind[p].freed
        /\ mind'[p].listed = mind[p].listed
    BY <1>1, <1>3 DEF Bearings, Keeps, GoesTo, Recalls, Fields, TripShape, RbShape
  <2>2. Running' = Running \cup {k} /\ There' \subseteq There \cup {k} /\ BoxesKept
    BY <1>2, <1>3, WhenMade
  <2>3. Carries(p) /\ UNCHANGED <<edge, applied, ingress>>
    BY <1>3, <2>2 DEF RunNew, Carries, told, TripShape
  <2>4. /\ FoundInOrder(p)' <=> FoundInOrder(p)
        /\ Shiftable(p)' = Shiftable(p)
        /\ Aims(p)'
    BY <1>1, <2>1, <2>3, Steady
  <2>5. Inventory(p)'
    BY <1>1, <2>1 DEF Inventory, ListedRun, Bearings
  <2>6. (FoundInOrder(p) => RunsBut(p, mind[p].freed, mind[p].started))'
    BY <1>1, <1>2, <2>1, <2>2, <2>4 DEF RunsBut, Bearings, Forth
  <2>7. Forth(p)'
    BY <1>1, <1>2, <2>1, <2>4, <2>5, <2>6 DEF Forth, Bearings
  <2>8. AtStart(p)'
    BY <1>1, <1>2, <2>1, <2>2, <2>3, <2>7 DEF AtRun, AtStart, Whole, Untouched, Bearings
  <2> QED
    BY <2>1, <2>3, <2>8, Landing DEF Stage, Bearings
<1>4. CASE RunFails(p, k) /\ Unwinds(p) /\ UNCHANGED told
  <2>1. Running' = Running /\ BoxesKept
    BY <1>2, <1>4, WhenNotMade
  <2> QED
    BY <1>1, <1>4, <2>1, UnwindsLands DEF RunNew
<1>5. CASE RunsUnheard(p, k) /\ Unwinds(p) /\ Misleads(p)
  <2>1. BoxesKept
    BY <1>2, <1>5, WhenMade DEF RunsUnheard
  <2> QED
    BY <1>1, <1>5, <2>1, MisledLands DEF RunNew
<1> QED
  BY <1>3, <1>4, <1>5 DEF RunNew

\* A web process that answers runs.
LEMMA CheckHealthLands ==
  ASSUME TripShape, RbShape', NEW p \in Actors, Alone(p), CheckHealth(p)
  PROVE  Lands(p)
<1>1. RbHealth(p) /\ Recalls(p) /\ Forth(p) /\ Aims(p) /\ Untouched(p)
  BY DEF Alone, Stage, CheckHealth, RbHealth, TendsHealth, Tends, Forth
<1>2. Running' = Running /\ There' = There /\ BoxesKept /\ UNCHANGED <<edge, applied, ingress, lease>>
  BY WhenKept DEF CheckHealth, target
<1>3. CASE /\ Web(mind[p].to) \in Running /\ UNCHANGED <<mind, told>>
           /\ GoesTo(p, IF UsesCaddy THEN "switch" ELSE "commit")
  <2>1. Bearings(p)
    BY <1>1, <1>3, NothingNoted
  <2>2. Carries(p)
    BY <1>2, <1>3, Still DEF CheckHealth
  <2>3. Forth(p)'
    BY <1>1, <1>2, <1>3, <2>1, ForthStays
  <2>4. RbHealth(p)' /\ Web(mind'[p].to) \in Running' /\ (UsesCaddy' <=> UsesCaddy)
    BY <1>1, <1>2, <1>3, <2>1, <2>3, Steady DEF RbHealth, Whole, Untouched
  <2>5. at'[p] = IF UsesCaddy THEN "switch" ELSE "commit"
    BY <1>3 DEF GoesTo, TripShape, RbShape
  <2>6. Stage(p)'
    BY <2>4, <2>5 DEF Stage, AtSwitch, AtCommit, Switched, RbHealth
  <2> QED
    BY <2>1, <2>2, <2>6, Landing DEF Bearings
<1>4. CASE Unwinds(p) /\ UNCHANGED told
  BY <1>1, <1>2, <1>4, UnwindsLands
<1> QED
  BY <1>3, <1>4 DEF CheckHealth

\* The route moves to the target.
LEMMA SwitchRouteLands ==
  ASSUME TripShape, RbShape', NEW p \in Actors, Alone(p), SwitchRoute(p)
  PROVE  Lands(p)
<1>1. AtSwitch(p) /\ Recalls(p) /\ Forth(p) /\ Aims(p) /\ Untouched(p) /\ UsesCaddy
  BY DEF Alone, Stage, SwitchRoute, AtSwitch, RbHealth, Forth
<1>2. CASE /\ edge' = RouteTo(mind[p].to, From(p) + 1) /\ GoesTo(p, "reread")
           /\ UNCHANGED <<boxes, applied, mind, told>>
  <2>1. Bearings(p) /\ at'[p] = "reread"
    BY <1>1, <1>2, NothingNoted DEF GoesTo, TripShape, RbShape
  <2>2. Running' = Running /\ There' = There /\ BoxesKept
    BY <1>2, WhenKept
  <2>3. Carries(p)
    BY <1>2, <2>2 DEF SwitchRoute, Carries, told, TripShape
  <2>4. Forth(p)'
    BY <1>1, <1>2, <2>1, <2>2, ForthStays DEF SwitchRoute
  <2>5. edge'.to = mind'[p].to
    BY <1>2 DEF RouteTo
  <2>6. UsesCaddy'
    BY <1>1, <2>1, Steady DEF SwitchRoute
  <2>7. AtCommit(p)'
    BY <1>1, <1>2, <2>1, <2>2, <2>4, <2>5, <2>6 DEF AtCommit, AtSwitch, RbHealth, Switched, Whole
  <2> QED
    BY <2>1, <2>3, <2>7, Landing DEF Stage, Bearings
<1>3. CASE Unwinds(p) /\ UNCHANGED <<target, told>>
  BY <1>1, <1>3, UnwindsLands, WhenKept DEF SwitchRoute, target
<1>4. CASE Unwinds(p) /\ Misleads(p) /\ UNCHANGED <<boxes, applied>>
  BY <1>1, <1>4, MisledLands, WhenKept DEF SwitchRoute
<1> QED
  BY <1>2, <1>3, <1>4 DEF SwitchRoute

\* The block is read again.
LEMMA RereadRegionLands ==
  ASSUME TripShape, RbShape', NEW p \in Actors, Alone(p), RereadRegion(p)
  PROVE  Lands(p)
<1>1. AtCommit(p) /\ Recalls(p) /\ Forth(p)
  BY DEF Alone, Stage, RereadRegion, AtCommit
<1>2. Carries(p) /\ Running' = Running /\ There' = There /\ UNCHANGED <<edge, applied, ingress>>
  BY Still DEF RereadRegion
<1>3. /\ Bearings(p) /\ at'[p] = "commit" /\ mind'[p].started = mind[p].started
      /\ mind'[p].freed = mind[p].freed /\ mind'[p].listed = mind[p].listed
  BY <1>1 DEF RereadRegion, Bearings, Keeps, GoesTo, Recalls, Fields, TripShape, RbShape
<1>4. Forth(p)'
  BY <1>1, <1>2, <1>3, ForthStays
<1>5. AtCommit(p)'
  BY <1>1, <1>2, <1>3, <1>4, Steady DEF AtCommit, Switched, Untouched, Whole, Bearings
<1> QED
  BY <1>2, <1>3, <1>5, Landing DEF Stage, Bearings

\* The commit names the target; a refused one is undone.
LEMMA CommitStateLands ==
  ASSUME TripShape, RbShape', NEW p \in Actors, Alone(p), CommitState(p)
  PROVE  Lands(p)
<1>1. /\ AtCommit(p) /\ Recalls(p) /\ Forth(p) /\ Aims(p) /\ Inventory(p)
      /\ Switched(p) /\ Whole(mind[p].to, {}) /\ Web(mind[p].to) \in Running
  BY DEF Alone, Stage, CommitState, AtCommit, Forth
<1>2. /\ Running' = Running /\ There' = There /\ BoxesKept
      /\ UNCHANGED <<edge, boxes, ingress, lease>>
  BY WhenKept DEF CommitState
<1>3. /\ RolledBack(p).current \in Releases
      /\ RolledBack(p).previous \in Releases \cup {NoRelease}
  BY <1>1 DEF RolledBack, Aims, TripShape
<1>4. CASE /\ applied' = RolledBack(p) /\ GoesTo(p, "retire") /\ UNCHANGED told
           /\ Keeps(p, [mind[p] EXCEPT !.todo = ToRetire(p)])
  <2>1. Bearings(p) /\ at'[p] = "retire" /\ mind'[p].todo = ToRetire(p)
    BY <1>1, <1>4 DEF Bearings, Keeps, GoesTo, Recalls, Fields, TripShape, RbShape
  <2>2. Carries(p)
    BY <1>2, <1>3, <1>4 DEF Carries, told, TripShape
  <2>3. /\ FoundInOrder(p)' <=> FoundInOrder(p)
        /\ UsesCaddy' <=> UsesCaddy
    BY <1>2, <2>1, Steady
  <2>4. mind'[p].todo \subseteq BoxNames \ BoxesOf(mind[p].to)
    <3>1. \A k \in BoxesOf(mind[p].to) : k[1] = mind[p].to
      BY DEF BoxesOf, Web
    <3> QED
      BY <1>1, <2>1, <3>1 DEF ToRetire, Aims
  <2>5. FoundInOrder(p) => Running \subseteq BoxesOf(mind[p].to) \cup mind'[p].todo
    <3>1. \A k \in BoxesOf(mind[p].saw.current) : k[1] = mind[p].saw.current
      BY DEF BoxesOf, Web
    <3>2. mind[p].foundRunning = {k \in BoxNames : mind[p].listed[k].run}
      BY <1>1 DEF Inventory, ListedRun
    <3> QED
      BY <1>1, <2>1, <3>1, <3>2 DEF ToRetire, FoundInOrder, Forth, RunsBut
  <2>6. AtRetire(p)'
    <3>1. mind'[p].job = "rollback" /\ applied'.current = mind'[p].to
      BY <1>1, <1>4, <2>1 DEF Bearings, RolledBack, Aims
    <3>2. UsesCaddy' => edge'.to = mind'[p].to
      BY <1>1, <1>2, <2>1, <2>3 DEF Bearings, Switched
    <3>3. Whole(mind[p].to, {})' /\ Web(mind'[p].to) \in Running'
      BY <1>1, <1>2, <2>1 DEF Bearings, Whole
    <3>4. FoundInOrder(p)' => Running' \subseteq BoxesOf(mind'[p].to) \cup mind'[p].todo
      BY <1>2, <2>1, <2>3, <2>5 DEF Bearings
    <3>5. mind'[p].todo \subseteq BoxNames \ BoxesOf(mind'[p].to)
      BY <2>1, <2>4 DEF Bearings
    <3> QED
      BY <3>1, <3>2, <3>3, <3>4, <3>5 DEF AtRetire
  <2> QED
    BY <2>1, <2>2, <2>6, Landing DEF Stage, Bearings
<1>5. CASE applied' \in {applied, RolledBack(p)} /\ Leaves(p, "preserved") /\ UNCHANGED mind
  BY <1>2, <1>3, <1>5, GivesUp DEF TripShape
<1>6. CASE /\ UNCHANGED <<applied, told>> /\ GoesTo(p, IF UsesCaddy THEN "unroute" ELSE "unstart")
           /\ Keeps(p, [mind[p] EXCEPT !.todo = mind[p].started, !.later = mind[p].freed,
                                       !.uncommitted = TRUE])
  <2>1. /\ Bearings(p) /\ mind'[p].started = mind[p].started
        /\ mind'[p].todo = mind[p].started /\ mind'[p].later = mind[p].freed
    BY <1>1, <1>6 DEF Bearings, Keeps, Recalls, Fields, TripShape, RbShape
  <2>2. at'[p] = IF UsesCaddy THEN "unroute" ELSE "unstart"
    BY <1>6 DEF GoesTo, TripShape, RbShape
  <2>3. Carries(p)
    BY <1>2, <1>6 DEF Carries, told, TripShape
  <2>4. /\ FoundInOrder(p)' <=> FoundInOrder(p)
        /\ Shiftable(p)' = Shiftable(p)
        /\ UsesCaddy' <=> UsesCaddy
        /\ Aims(p)'
    BY <1>1, <1>2, <1>6, <2>1, Steady
  <2>5. (FoundInOrder(p) => RunsBut(p, mind[p].later, mind[p].todo))'
    BY <1>1, <1>2, <2>1, <2>4 DEF RunsBut, Bearings, Forth
  <2>6. Back(p, mind[p].todo)' /\ mind'[p].todo \subseteq BoxesOf(mind'[p].to)
    BY <1>1, <2>1, <2>4, <2>5 DEF Back, Forth, Bearings
  <2>7. ~UsesCaddy => RouteBack(p)'
    BY <1>1, <1>2, <2>1 DEF RouteBack, Switched, Untouched, Bearings
  <2>8. Stage(p)'
    BY <2>2, <2>4, <2>6, <2>7 DEF Stage, AtUnroute, AtUnstart
  <2> QED
    BY <2>1, <2>3, <2>8, Landing DEF Bearings
<1>7. CASE UNCHANGED applied /\ Leaves(p, "preserved") /\ UNCHANGED mind
  BY <1>5, <1>7
<1> QED
  BY <1>4, <1>5, <1>6, <1>7 DEF CommitState

\* Retiring stops none of the target.
LEMMA RetireLands ==
  ASSUME TripShape, RbShape', NEW p \in Actors, Alone(p), Retire(p)
  PROVE  Lands(p)
<1>1. AtRetire(p) /\ Recalls(p)
  BY DEF Alone, Stage, Retire
<1>2. CASE Leaves(p, "ok") /\ UNCHANGED <<target, mind>>
  <2>1. /\ Carries(p) /\ Running' = Running /\ There' = There
        /\ UNCHANGED <<edge, applied, ingress, muddied, misled>>
    BY <1>2, Still DEF Retire, Leaves, Says
  <2>2. Bearings(p) /\ at'[p] = "release" /\ ended'[p] = "ok"
    BY <1>1, <1>2, NothingNoted DEF Leaves, Says, GoesTo, TripShape, RbShape
  <2>3. CASE mind[p].todo = {}
    <3>1. Serves(p)'
      BY <1>1, <1>2, <2>1, <2>2, <2>3, Steady DEF AtRetire, Serves, Whole
    <3> QED
      BY <2>1, <2>2, <3>1, Landing DEF Stage, Undone, Bearings
  <2>4. CASE ~Guarded(p)
    BY <2>4 DEF Guarded, Alone
  <2> QED
    BY <1>2, <2>2, <2>3, <2>4 DEF Retire
<1>3. ASSUME NEW k \in mind[p].todo, Stopped(k), Sweeps(p, k), UNCHANGED <<edge, applied, at, told>>
      PROVE  Lands(p)
  <2>1. /\ Bearings(p) /\ at'[p] = "retire" /\ mind'[p].todo = mind[p].todo \ {k}
    BY <1>1, <1>3 DEF Retire, Bearings, Sweeps, Keeps, GoesTo, Recalls, Fields, TripShape, RbShape
  <2>2. Running' = Running \ {k} /\ There' \subseteq There /\ BoxesKept
    BY <1>1, <1>3, WhenStopped DEF AtRetire
  <2>3. Carries(p) /\ UNCHANGED <<edge, applied, ingress, muddied, misled>>
    BY <1>3, <2>2 DEF Retire, Carries, told, TripShape
  <2>4. /\ FoundInOrder(p)' <=> FoundInOrder(p)
        /\ UsesCaddy' <=> UsesCaddy
    BY <2>1, <2>3, Steady
  <2>5. k \notin BoxesOf(mind[p].to)
    BY <1>1 DEF AtRetire
  <2>6. Whole(mind[p].to, {})' /\ Web(mind'[p].to) \in Running'
    BY <1>1, <2>1, <2>2, <2>5, BoxesApart DEF AtRetire, Whole, Bearings
  <2>7. (FoundInOrder(p) /\ p \notin muddied =>
            Running \subseteq BoxesOf(mind[p].to) \cup mind[p].todo)'
    BY <1>1, <2>1, <2>2, <2>3, <2>4 DEF AtRetire, Bearings
  <2>8. AtRetire(p)'
    BY <1>1, <2>1, <2>3, <2>4, <2>6, <2>7 DEF AtRetire, Bearings
  <2> QED
    BY <2>1, <2>3, <2>8, Landing DEF Stage, Bearings
<1>4. ASSUME NEW k \in mind[p].todo, UNCHANGED boxes \/ StopFails(k), Sweeps(p, k), Muddies(p),
             UNCHANGED <<edge, applied, at>>
      PROVE  Lands(p)
  <2>1. /\ Bearings(p) /\ at'[p] = "retire" /\ mind'[p].todo = mind[p].todo \ {k}
    BY <1>1, <1>4 DEF Retire, Bearings, Sweeps, Keeps, GoesTo, Recalls, Fields, TripShape, RbShape
  <2>2. Running \ {k} \subseteq Running' /\ There' \subseteq There /\ BoxesKept
    BY <1>1, <1>4, WhenKept, WhenStopped DEF StopFails, AtRetire
  <2>3. Carries(p) /\ UNCHANGED <<edge, applied, ingress>> /\ p \in muddied'
    BY <1>4, <2>2 DEF Retire, Carries, Muddies, TripShape
  <2>4. UsesCaddy' <=> UsesCaddy
    BY <2>1, <2>3, Steady
  <2>5. k \notin BoxesOf(mind[p].to)
    BY <1>1 DEF AtRetire
  <2>6. Whole(mind[p].to, {})' /\ Web(mind'[p].to) \in Running'
    BY <1>1, <2>1, <2>2, <2>5, BoxesApart DEF AtRetire, Whole, Bearings
  <2>7. AtRetire(p)'
    BY <1>1, <2>1, <2>3, <2>4, <2>6 DEF AtRetire, Bearings
  <2> QED
    BY <2>1, <2>3, <2>7, Landing DEF Stage, Bearings
<1> QED
  BY <1>2, <1>3, <1>4 DEF Retire

\* The route goes back to the release it was on.
LEMMA RestoreRouteLands ==
  ASSUME TripShape, RbShape', NEW p \in Actors, Alone(p), RestoreRoute(p)
  PROVE  Lands(p)
<1>1. AtUnroute(p) /\ Recalls(p) /\ Back(p, mind[p].todo) /\ Aims(p)
  BY DEF Alone, Stage, RestoreRoute, AtUnroute, Back
<1>2. CASE /\ edge' = RouteTo(mind[p].saw.current, From(p)) /\ GoesTo(p, "unstart")
           /\ UNCHANGED <<boxes, applied, told>>
  <2>1. Bearings(p) /\ at'[p] = "unstart"
    BY <1>1, <1>2, NothingNoted DEF RestoreRoute, GoesTo, TripShape, RbShape
  <2>2. Running' = Running /\ There' = There /\ BoxesKept
    BY <1>2, WhenKept
  <2>3. Carries(p)
    BY <1>2, <2>2 DEF RestoreRoute, Carries, told, TripShape
  <2>4. Back(p, mind[p].todo)'
    BY <1>1, <1>2, <2>1, <2>2, BackStays DEF RestoreRoute, told
  <2>5. RouteBack(p)'
    <3>1. FoundInOrder(p) => mind[p].foundEdge.to = mind[p].saw.current
      BY <1>1 DEF FoundInOrder, AtUnroute
    <3>2. edge'.to = mind[p].saw.current
      BY <1>2 DEF RouteTo
    <3> QED
      BY <2>1, <3>1, <3>2, Steady DEF RouteBack, Bearings, RestoreRoute
  <2>6. AtUnstart(p)'
    BY <1>1, <1>2, <2>1, <2>4, <2>5 DEF AtUnstart, AtUnroute, RestoreRoute, Bearings
  <2> QED
    BY <2>1, <2>3, <2>6, Landing DEF Stage, Bearings
<1>3. CASE Leaves(p, "attention") /\ UNCHANGED <<boxes, applied>>
  BY <1>3, GivesUp, WhenKept DEF RestoreRoute, TripShape
<1> QED
  BY <1>2, <1>3 DEF RestoreRoute

\* What was started of the target stops.
LEMMA StopStartedLands ==
  ASSUME TripShape, RbShape', NEW p \in Actors, Alone(p), StopStarted(p)
  PROVE  Lands(p)
<1>1. AtUnstart(p) /\ Recalls(p) /\ Back(p, mind[p].todo) /\ Aims(p) /\ RouteBack(p)
  BY DEF Alone, Stage, StopStarted, AtUnstart, Back
<1>2. CASE mind[p].todo = {} /\ ~FixedPorts /\ Leaves(p, "failed") /\ UNCHANGED <<target, mind>>
  <2>1. mind[p].later = {}
    BY <1>1, <1>2 DEF Back, Shiftable
  <2> QED
    BY <1>1, <1>2, <2>1, UndoneLands DEF StopStarted
<1>3. CASE mind[p].todo = {} /\ GoesTo(p, "unfree") /\ UNCHANGED told /\ UNCHANGED <<target, mind>>
  <2>1. /\ Carries(p) /\ Running' = Running /\ There' = There
        /\ UNCHANGED <<edge, applied, ingress, muddied, misled>>
    BY <1>3, Still DEF StopStarted, told
  <2>2. Bearings(p) /\ at'[p] = "unfree"
    BY <1>1, <1>3, NothingNoted DEF GoesTo, TripShape, RbShape
  <2>3. Back(p, {})'
    BY <1>1, <1>3, <2>1, <2>2, BackStays
  <2>4. AtUnfree(p)'
    BY <1>1, <2>1, <2>2, <2>3, RouteStays DEF AtUnfree
  <2> QED
    BY <2>1, <2>2, <2>4, Landing DEF Stage, Bearings
<1>4. ASSUME NEW k \in mind[p].todo, Stopped(k), Sweeps(p, k), UNCHANGED <<edge, applied, at, told>>
      PROVE  Lands(p)
  <2>1. /\ Bearings(p) /\ at'[p] = "unstart" /\ mind'[p].todo = mind[p].todo \ {k}
        /\ mind'[p].later = mind[p].later /\ mind'[p].started = mind[p].started
    BY <1>1, <1>4 DEF StopStarted, Bearings, Sweeps, Keeps, Recalls, Fields, TripShape, RbShape
  <2>2. k \in BoxesOf(mind[p].to) /\ k \in BoxNames
    BY <1>1, BoxesApart DEF AtUnstart, Aims
  <2>3. Running' = Running \ {k} /\ BoxesKept
    BY <1>4, <2>2, WhenStopped
  <2>4. Carries(p) /\ UNCHANGED <<edge, applied, ingress, muddied, misled>>
    BY <1>4, <2>3 DEF StopStarted, Carries, told, TripShape
  <2>5. RunsBut(p, mind[p].later, mind[p].todo) => RunsBut(p, mind[p].later, mind[p].todo)'
    BY <2>1, <2>2, <2>3 DEF RunsBut, Bearings
  <2>6. Back(p, mind[p].todo)'
    BY <1>1, <2>1, <2>4, <2>5, Steady DEF Back, Bearings
  <2>7. AtUnstart(p)'
    BY <1>1, <2>1, <2>4, <2>6, RouteStays DEF AtUnstart, Bearings
  <2> QED
    BY <2>1, <2>4, <2>7, Landing DEF Stage, Bearings
<1>5. ASSUME NEW k \in mind[p].todo, BoxesKept, Sweeps(p, k), Muddies(p),
             UNCHANGED <<at, edge, applied>>
      PROVE  Lands(p)
  <2>1. /\ Bearings(p) /\ at'[p] = "unstart" /\ mind'[p].todo = mind[p].todo \ {k}
        /\ mind'[p].later = mind[p].later /\ mind'[p].started = mind[p].started
    BY <1>1, <1>5 DEF StopStarted, Bearings, Sweeps, Keeps, Recalls, Fields, TripShape, RbShape
  <2>2. Carries(p) /\ UNCHANGED <<edge, applied, ingress, misled>> /\ p \in muddied'
    BY <1>5 DEF StopStarted, Carries, Muddies, TripShape
  <2>3. Back(p, mind[p].todo)'
    BY <1>1, <2>1, <2>2, Steady DEF Back, Bearings
  <2>4. AtUnstart(p)'
    BY <1>1, <2>1, <2>2, <2>3, RouteStays DEF AtUnstart, Bearings
  <2> QED
    BY <2>1, <2>2, <2>4, Landing DEF Stage, Bearings
<1>6. CASE BoxesKept /\ Leaves(p, "attention") /\ UNCHANGED mind /\ UNCHANGED <<edge, applied>>
  BY <1>6, GivesUp DEF StopStarted, TripShape
<1>7. ASSUME NEW k \in mind[p].todo, UNCHANGED boxes \/ StopFails(k)
      PROVE  BoxesKept
  <2>1. k \in BoxNames
    BY <1>1, BoxesApart DEF AtUnstart, Aims
  <2> QED
    BY <1>7, <2>1, WhenKept, WhenStopped DEF StopFails
<1> QED
  BY <1>2, <1>3, <1>4, <1>5, <1>6, <1>7 DEF StopStarted

\* What made way is brought back, or the error is kept.
LEMMA RestoreDisplacedLands ==
  ASSUME TripShape, RbShape', NEW p \in Actors, Alone(p), RestoreDisplaced(p)
  PROVE  Lands(p)
<1>1. AtUnfree(p) /\ Recalls(p) /\ Back(p, {}) /\ Aims(p) /\ RouteBack(p)
  BY DEF Alone, Stage, RestoreDisplaced, AtUnfree, Back
<1>2. CASE mind[p].later = {} /\ Leaves(p, "failed") /\ UNCHANGED mind /\ UNCHANGED target
  BY <1>1, <1>2, UndoneLands DEF RestoreDisplaced
<1>3. CASE Leaves(p, "attention") /\ UNCHANGED mind /\ UNCHANGED target
  BY <1>3, GivesUp, WhenKept DEF RestoreDisplaced, target, TripShape
<1>4. CASE /\ mind[p].later = {} /\ GoesTo(p, "unmake") /\ UNCHANGED told /\ UNCHANGED target
           /\ Keeps(p, [mind[p] EXCEPT !.todo = mind[p].started])
  <2>1. /\ Carries(p) /\ Running' = Running /\ There' = There
        /\ UNCHANGED <<edge, applied, ingress, muddied, misled>>
    BY <1>4, Still DEF RestoreDisplaced, told
  <2>2. /\ Bearings(p) /\ at'[p] = "unmake" /\ mind'[p].todo = mind[p].started
        /\ mind'[p].later = mind[p].later /\ mind'[p].started = mind[p].started
    BY <1>1, <1>4 DEF Bearings, Keeps, GoesTo, Recalls, Fields, TripShape, RbShape
  <2>3. Back(p, {})'
    BY <1>1, <2>1, <2>2, BackStays
  <2>4. AtUnmake(p)'
    BY <1>1, <1>4, <2>1, <2>2, <2>3, RouteStays DEF AtUnmake, AtUnfree, Back, Bearings
  <2> QED
    BY <2>1, <2>2, <2>4, Landing DEF Stage, Bearings
<1>5. ASSUME NEW k \in mind[p].later, boxes' = [boxes EXCEPT ![k] = Gone],
             Keeps(p, [mind[p] EXCEPT !.now = k, !.listed[k].gen = boxes[k].gen]),
             GoesTo(p, "rerun"), UNCHANGED <<edge, applied, told>>
      PROVE  Lands(p)
  <2>1. /\ Bearings(p) /\ at'[p] = "rerun" /\ mind'[p].now = k
        /\ mind'[p].later = mind[p].later /\ mind'[p].started = mind[p].started
    BY <1>1, <1>5 DEF Bearings, Keeps, GoesTo, Recalls, Fields, TripShape, RbShape
  <2>2. k \in Shiftable(p) /\ k \in BoxNames /\ k \notin BoxesOf(mind[p].to)
    BY <1>1, BoxesApart DEF Back, Shiftable, Aims, TripShape
  <2>3. Running' = Running \ {k} /\ BoxesKept
    BY <1>5, <2>2, WhenRemoved
  <2>4. Carries(p) /\ UNCHANGED <<edge, applied, ingress, muddied, misled>>
    BY <1>5, <2>3 DEF RestoreDisplaced, Carries, told, TripShape
  <2>5. RunsBut(p, mind[p].later, {}) => RunsBut(p, mind[p].later, {})'
    BY <2>1, <2>2, <2>3 DEF RunsBut, Bearings
  <2>6. Back(p, {})'
    BY <1>1, <2>1, <2>4, <2>5, Steady DEF Back, Bearings
  <2>7. AtRerun(p)'
    BY <1>1, <2>1, <2>4, <2>6, RouteStays DEF AtRerun, AtUnfree, Bearings
  <2> QED
    BY <2>1, <2>4, <2>7, Landing DEF Stage, Bearings
<1>6. ASSUME NEW k \in mind[p].later, Restored(p, k), Muddies(p), UNCHANGED <<target, at>>
      PROVE  Lands(p)
  <2>1. /\ Bearings(p) /\ at'[p] = "unfree"
        /\ mind'[p].later = mind[p].later \ {k} /\ mind'[p].started = mind[p].started
    BY <1>1, <1>6
       DEF RestoreDisplaced, Bearings, Restored, Keeps, Recalls, Fields, TripShape, RbShape
  <2>2. Carries(p) /\ UNCHANGED <<edge, applied, ingress, misled>> /\ p \in muddied'
    BY <1>6, WhenKept DEF RestoreDisplaced, Carries, Muddies, target, TripShape
  <2>3. AtUnfree(p)'
    BY <1>1, <2>1, <2>2, Steady, RouteStays DEF AtUnfree, Back, Bearings
  <2> QED
    BY <2>1, <2>2, <2>3, Landing DEF Stage, Bearings
<1> QED
  BY <1>2, <1>3, <1>4, <1>5, <1>6 DEF RestoreDisplaced, Displaced

\* It runs again under its name.
LEMMA RerunDisplacedLands ==
  ASSUME TripShape, RbShape', NEW p \in Actors, Alone(p), RerunDisplaced(p)
  PROVE  Lands(p)
<1>1. AtRerun(p) /\ AtUnfree(p) /\ Recalls(p) /\ Back(p, {}) /\ Aims(p) /\ RouteBack(p)
  BY DEF Alone, Stage, RerunDisplaced, AtRerun, AtUnfree, Back
<1> DEFINE k == mind[p].now
<1>2. k \in Shiftable(p) /\ k \in BoxNames /\ k \notin BoxesOf(mind[p].to) /\ k \in mind[p].later
  BY <1>1, BoxesApart DEF AtRerun, Back, Shiftable, Aims, TripShape
<1>3. /\ Bearings(p) /\ at'[p] = "unfree"
      /\ mind'[p].later = mind[p].later \ {k} /\ mind'[p].started = mind[p].started
  BY <1>1
     DEF RerunDisplaced, GoesTo, Bearings, Restored, Keeps, Recalls, Fields, TripShape, RbShape
<1>4. CASE RunsBox(p, k) /\ UNCHANGED told
  <2>1. Running' = Running \cup {k} /\ BoxesKept
    BY <1>2, <1>4, WhenMade
  <2>2. Carries(p) /\ UNCHANGED <<edge, applied, ingress, muddied, misled>>
    BY <1>4, <2>1 DEF RerunDisplaced, Carries, told, TripShape
  <2>3. RunsBut(p, mind[p].later, {}) => RunsBut(p, mind[p].later, {})'
    BY <1>2, <1>3, <2>1 DEF RunsBut, Bearings, Shiftable
  <2>4. AtUnfree(p)'
    BY <1>1, <1>3, <2>2, <2>3, Steady, RouteStays DEF AtUnfree, Back, Bearings
  <2> QED
    BY <1>3, <2>2, <2>4, Landing DEF Stage, Bearings
<1>5. CASE (RunFails(p, k) \/ RunsUnheard(p, k)) /\ Muddies(p)
  <2>1. BoxesKept
    BY <1>2, <1>5, WhenNotMade, WhenMade DEF RunsUnheard
  <2>2. Carries(p) /\ UNCHANGED <<edge, applied, ingress, misled>> /\ p \in muddied'
    BY <1>5, <2>1 DEF RerunDisplaced, Carries, Muddies, TripShape
  <2>3. AtUnfree(p)'
    BY <1>1, <1>3, <2>2, Steady, RouteStays DEF AtUnfree, Back, Bearings
  <2> QED
    BY <1>3, <2>2, <2>3, Landing DEF Stage, Bearings
<1> QED
  BY <1>4, <1>5 DEF RerunDisplaced

\* What is removed in the end does not run.
LEMMA RemoveTargetLands ==
  ASSUME TripShape, RbShape', NEW p \in Actors, Alone(p), RemoveTarget(p)
  PROVE  Lands(p)
<1>1. /\ AtUnmake(p) /\ Recalls(p) /\ Back(p, {}) /\ Aims(p) /\ RouteBack(p)
      /\ mind[p].later = {}
  BY DEF Alone, Stage, RemoveTarget, AtUnmake, AtUnfree, Back
<1>2. CASE Leaves(p, "failed") /\ UNCHANGED <<target, mind>>
  BY <1>1, <1>2, UndoneLands DEF RemoveTarget
<1>3. ASSUME NEW k \in mind[p].todo, boxes[k] # Gone, ~boxes[k].run,
             boxes' = [boxes EXCEPT ![k] = Gone], Sweeps(p, k), UNCHANGED <<edge, applied, at, told>>
      PROVE  Lands(p)
  <2>1. /\ Bearings(p) /\ at'[p] = "unmake" /\ mind'[p].todo = mind[p].todo \ {k}
        /\ mind'[p].later = mind[p].later /\ mind'[p].started = mind[p].started
    BY <1>1, <1>3 DEF RemoveTarget, Bearings, Sweeps, Keeps, Recalls, Fields, TripShape, RbShape
  <2>2. k \in BoxNames /\ k \notin Running
    BY <1>1, <1>3, BoxesApart DEF AtUnmake, Aims, Running
  <2>3. Running' = Running /\ BoxesKept
    BY <1>3, <2>2, WhenRemoved
  <2>4. Carries(p) /\ UNCHANGED <<edge, applied, ingress, muddied, misled>>
    BY <1>3, <2>3 DEF RemoveTarget, Carries, told, TripShape
  <2>5. Back(p, {})'
    BY <1>1, <2>1, <2>3, <2>4, BackStays
  <2>6. AtUnmake(p)'
    BY <1>1, <2>1, <2>4, <2>5, RouteStays DEF AtUnmake, AtUnfree, Bearings
  <2> QED
    BY <2>1, <2>4, <2>6, Landing DEF Stage, Bearings
<1>4. CASE BoxesKept /\ Leaves(p, "attention") /\ UNCHANGED <<edge, applied, mind>>
  BY <1>4, GivesUp DEF RemoveTarget, TripShape
<1>5. ASSUME NEW k \in mind[p].todo, boxes' \in {boxes, [boxes EXCEPT ![k] = Gone]}
      PROVE  BoxesKept
  <2>1. k \in BoxNames
    BY <1>1, BoxesApart DEF AtUnmake, Aims
  <2> QED
    BY <1>5, <2>1, WhenKept, WhenRemoved
<1> QED
  BY <1>2, <1>3, <1>4, <1>5 DEF RemoveTarget

-----------------------------------------------------------------------------
\* Stopping, starting and restarting: the state names what to tend.
LEMMA ReadCurrentLands ==
  ASSUME TripShape, RbShape', NEW p \in Actors, Alone(p), ReadCurrent(p)
  PROVE  Lands(p)
<1>1. AtRead(p) /\ mind[p].job \in {"stop", "start", "restart"} /\ Recalls(p)
  BY DEF Alone, Stage, ReadCurrent, IsLifecycle
<1>2. Carries(p) /\ Running' = Running /\ UNCHANGED <<edge, applied>>
  BY Still DEF ReadCurrent
<1>3. /\ Recalls(p)' /\ at'[p] = "list" /\ mind'[p].saw = applied /\ mind'[p].job = mind[p].job
      /\ mind'[p].foundRunning = mind[p].foundRunning
  BY <1>1 DEF ReadCurrent, Keeps, GoesTo, Recalls, Fields, TripShape, RbShape
<1>4. AtList(p)'
  BY <1>1, <1>2, <1>3 DEF AtList, AtRead, Outset
<1> QED
  BY <1>2, <1>3, <1>4, Landing DEF Stage

\* What is listed is all there is of the current release.
LEMMA ListCurrentLands ==
  ASSUME TripShape, RbShape', NEW p \in Actors, Alone(p), ListCurrent(p)
  PROVE  Lands(p)
<1>1. /\ mind[p].job \in {"stop", "start", "restart"} /\ mind[p].saw = applied
      /\ Running = mind[p].foundRunning /\ Recalls(p)
  BY DEF Alone, Stage, ListCurrent, IsLifecycle, AtList, AtRegion, Aims
<1>2. /\ Carries(p) /\ Running' = Running /\ There' = There
      /\ UNCHANGED <<edge, applied, ingress>>
  BY Still DEF ListCurrent, Leaves
<1> DEFINE v == mind[p].saw.current
           found == BoxesOf(v) \cap (IF mind[p].job = "stop" THEN Running ELSE There)
<1>3. CASE Leaves(p, "refused") /\ UNCHANGED mind
  BY <1>2, <1>3, GivesUp DEF ListCurrent, Carries
<1>4. CASE /\ Keeps(p, [mind[p] EXCEPT !.listed = boxes, !.todo = found, !.later = found])
           /\ GoesTo(p, IF mind[p].job = "start" THEN "launch" ELSE "halt")
  <2>1. /\ found \subseteq BoxesOf(applied.current) \cap BoxNames
        /\ mind[p].job # "stop" => found = BoxesOf(applied.current) \cap There
    BY <1>1 DEF Running, There
  <2> DEFINE next == IF mind[p].job = "start" THEN "launch" ELSE "halt"
  <2>2. Keeps(p, [mind[p] EXCEPT !.listed = boxes, !.todo = found, !.later = found])
    BY <1>4
  <2>3. GoesTo(p, next)
    BY <1>4
  <2>4. next = IF mind[p].job = "start" THEN "launch" ELSE "halt"
    OBVIOUS
  <2> HIDE DEF found, next
  <2>5. /\ Bearings(p) /\ at'[p] = next /\ mind'[p].listed = boxes
        /\ mind'[p].todo = found /\ mind'[p].later = found
    BY <1>1, <2>2, <2>3 DEF Bearings, Keeps, GoesTo, Recalls, Fields, TripShape, RbShape
  <2>6. FoundInOrder(p)' => Running' \subseteq BoxesOf(applied'.current)
    BY <1>1, <1>2, <2>5, Steady DEF FoundInOrder
  <2>7. Tends(p)'
    BY <1>1, <1>2, <2>1, <2>5, <2>6 DEF Tends, Bearings
  <2>8. /\ mind[p].job # "stop" => WebIn(p, mind[p].later)'
        /\ mind[p].job # "stop" => WebIn(p, Running \cup mind[p].todo)'
    BY <1>2, <2>1, <2>5, BoxesApart DEF WebIn, There, TripShape
  <2>9. /\ mind[p].job # "stop" => Whole(applied.current, mind[p].later)'
        /\ mind[p].job # "stop" => Whole(applied.current, mind[p].todo)'
    BY <1>2, <2>1, <2>5 DEF Whole
  <2>10. Stage(p)'
    BY <1>1, <2>4, <2>5, <2>7, <2>8, <2>9 DEF Stage, AtHalt, AtLaunch, Bearings
  <2> QED
    BY <1>2, <2>5, <2>10, Landing DEF Bearings
<1> QED
  BY <1>3, <1>4 DEF ListCurrent

\* What failed of them owes nothing.
LEMMA TendsFails ==
  ASSUME TripShape, RbShape', NEW p \in Actors, Alone(p), Tends(p), Leaves(p, "failed"),
         BoxesKept, UNCHANGED <<mind, ingress, lease, edge, applied>>
  PROVE  Lands(p)
<1>1. Carries(p)
  BY DEF Leaves, Says, Carries, TripShape
<1>2. Bearings(p) /\ at'[p] = "release" /\ ended'[p] = "failed" /\ mind[p].job # "rollback"
  BY NothingNoted DEF Alone, Tends, Leaves, Says, GoesTo, TripShape, RbShape
<1> QED
  BY <1>1, <1>2, Landing DEF Stage, Serves, Undone, Bearings

\* What was stopped is started again.
LEMMA HaltLands ==
  ASSUME TripShape, RbShape', NEW p \in Actors, Alone(p), Halt(p)
  PROVE  Lands(p)
<1>1. AtHalt(p) /\ Recalls(p) /\ Tends(p)
  BY DEF Alone, Stage, Halt, AtHalt
<1>2. CASE mind[p].job = "stop" /\ Leaves(p, "ok") /\ UNCHANGED mind /\ UNCHANGED target
  <2>1. Carries(p)
    BY <1>2, Still DEF Halt, Leaves
  <2>2. Bearings(p) /\ at'[p] = "release" /\ ended'[p] = "ok"
    BY <1>1, <1>2, NothingNoted DEF Leaves, Says, GoesTo, TripShape, RbShape
  <2> QED
    BY <1>2, <2>1, <2>2, Landing DEF Stage, Serves, Undone, Bearings
<1>3. CASE /\ mind[p].job # "stop" /\ GoesTo(p, "launch") /\ UNCHANGED told /\ UNCHANGED target
           /\ Keeps(p, [mind[p] EXCEPT !.todo = mind[p].later])
  <2>1. /\ Carries(p) /\ Running' = Running /\ There' = There
        /\ UNCHANGED <<edge, applied, ingress>>
    BY <1>3, Still DEF Halt
  <2>2. /\ Bearings(p) /\ at'[p] = "launch" /\ mind'[p].listed = mind[p].listed
        /\ mind'[p].todo = mind[p].later /\ mind'[p].later = mind[p].later
    BY <1>1, <1>3 DEF Bearings, Keeps, GoesTo, Recalls, Fields, TripShape, RbShape
  <2>3. Tends(p)'
    BY <1>1, <2>1, <2>2, Steady DEF Tends, Bearings
  <2>4. AtLaunch(p)'
    BY <1>1, <1>3, <2>1, <2>2, <2>3 DEF AtLaunch, AtHalt, WebIn, Whole
  <2> QED
    BY <2>1, <2>2, <2>4, Landing DEF Stage, Bearings
<1>4. ASSUME NEW k \in mind[p].todo, Stopped(k), Sweeps(p, k), UNCHANGED <<edge, applied, at, told>>
      PROVE  Lands(p)
  <2>1. /\ Bearings(p) /\ at'[p] = "halt" /\ mind'[p].todo = mind[p].todo \ {k}
        /\ mind'[p].later = mind[p].later /\ mind'[p].listed = mind[p].listed
    BY <1>1, <1>4 DEF Halt, Bearings, Sweeps, Keeps, Recalls, Fields, TripShape, RbShape
  <2>2. k \in BoxNames /\ k \in mind[p].later
    BY <1>1 DEF AtHalt, Tends
  <2>3. Running' = Running \ {k} /\ There' \subseteq There /\ BoxesKept
    BY <1>4, <2>2, WhenStopped
  <2>4. Carries(p) /\ UNCHANGED <<edge, applied, ingress>>
    BY <1>4, <2>3 DEF Halt, Carries, told, TripShape
  <2>5. Tends(p)'
    BY <1>1, <2>1, <2>3, <2>4, Steady DEF Tends, Bearings
  <2>6. mind[p].job # "stop" => WebIn(p, mind[p].later)' /\ Whole(applied.current, mind[p].later)'
    BY <1>1, <2>1, <2>2, <2>3, <2>4 DEF AtHalt, WebIn, Whole
  <2>7. AtHalt(p)'
    BY <1>1, <2>1, <2>5, <2>6 DEF AtHalt, Bearings
  <2> QED
    BY <2>1, <2>4, <2>7, Landing DEF Stage, Bearings
<1>5. CASE BoxesKept /\ Leaves(p, "failed") /\ UNCHANGED <<edge, applied, mind>>
  BY <1>1, <1>5, TendsFails DEF Halt
<1>6. ASSUME NEW k \in mind[p].todo, UNCHANGED boxes \/ StopFails(k)
      PROVE  BoxesKept
  BY <1>1, <1>6, WhenKept, WhenStopped DEF StopFails, Tends
<1> QED
  BY <1>2, <1>3, <1>4, <1>5, <1>6 DEF Halt

\* What was started runs.
LEMMA LaunchLands ==
  ASSUME TripShape, RbShape', NEW p \in Actors, Alone(p), Launch(p)
  PROVE  Lands(p)
<1>1. AtLaunch(p) /\ Recalls(p) /\ Tends(p)
  BY DEF Alone, Stage, Launch, AtLaunch
<1>2. CASE mind[p].todo = {} /\ GoesTo(p, "health") /\ UNCHANGED <<target, mind, told>>
  <2>1. /\ Carries(p) /\ Running' = Running /\ There' = There
        /\ UNCHANGED <<edge, applied, ingress>>
    BY <1>2, Still DEF Launch
  <2>2. Bearings(p) /\ at'[p] = "health"
    BY <1>1, <1>2, NothingNoted DEF GoesTo, TripShape, RbShape
  <2>3. Tends(p)'
    BY <1>1, <1>2, <2>1, <2>2, Steady DEF Tends, Bearings
  <2>4. TendsHealth(p)'
    BY <1>1, <1>2, <2>1, <2>2, <2>3 DEF AtLaunch, TendsHealth, WebIn, Whole
  <2> QED
    BY <2>1, <2>2, <2>4, Landing DEF Stage, Bearings
<1>3. ASSUME NEW k \in mind[p].todo, boxes' = [boxes EXCEPT ![k].run = TRUE], Sweeps(p, k),
             UNCHANGED <<edge, applied, at, told>>
      PROVE  Lands(p)
  <2>1. /\ Bearings(p) /\ at'[p] = "launch" /\ mind'[p].todo = mind[p].todo \ {k}
        /\ mind'[p].later = mind[p].later /\ mind'[p].listed = mind[p].listed
    BY <1>1, <1>3 DEF Launch, Bearings, Sweeps, Keeps, Recalls, Fields, TripShape, RbShape
  <2>2. k \in BoxNames /\ k \in BoxesOf(applied.current)
    BY <1>1 DEF Tends
  <2>3. Running' = Running \cup {k} /\ There' \subseteq There \cup {k} /\ BoxesKept
    BY <1>3, <2>2, WhenLaunched
  <2>4. Carries(p) /\ UNCHANGED <<edge, applied, ingress>>
    BY <1>3, <2>3 DEF Launch, Carries, told, TripShape
  <2>5. Tends(p)'
    BY <1>1, <2>1, <2>2, <2>3, <2>4, Steady DEF Tends, Bearings
  <2>6. AtLaunch(p)'
    BY <1>1, <2>1, <2>2, <2>3, <2>4, <2>5 DEF AtLaunch, WebIn, Whole
  <2> QED
    BY <2>1, <2>4, <2>6, Landing DEF Stage, Bearings
<1>4. CASE BoxesKept /\ Leaves(p, "failed") /\ UNCHANGED <<edge, applied, mind>>
  BY <1>1, <1>4, TendsFails DEF Launch
<1>5. ASSUME NEW k \in mind[p].todo, boxes' \in {boxes, [boxes EXCEPT ![k].run = TRUE]}
      PROVE  BoxesKept
  BY <1>1, <1>5, WhenKept, WhenLaunched DEF Tends
<1> QED
  BY <1>2, <1>3, <1>4, <1>5 DEF Launch

\* A start is ok when a web process was listed and answers.
LEMMA CheckStartedLands ==
  ASSUME TripShape, RbShape', NEW p \in Actors, Alone(p), CheckStarted(p)
  PROVE  Lands(p)
<1>1. /\ TendsHealth(p) /\ Recalls(p) /\ Tends(p)
      /\ WebIn(p, Running) /\ Whole(applied.current, {})
  BY DEF Alone, Stage, CheckStarted, IsLifecycle, TendsHealth, RbHealth, Forth, Aims
<1>2. CASE Up(p, mind[p].saw.current) /\ Leaves(p, "ok")
  <2>1. /\ Carries(p) /\ Running' = Running /\ There' = There
        /\ UNCHANGED <<edge, applied, ingress>>
    BY <1>2, Still DEF CheckStarted, Leaves
  <2>2. Bearings(p) /\ at'[p] = "release" /\ ended'[p] = "ok"
    BY <1>1, <1>2, NothingNoted DEF CheckStarted, Leaves, Says, GoesTo, TripShape, RbShape
  <2>3. mind[p].job # "stop" => mind[p].job \in {"start", "restart"}
    BY <1>1 DEF Tends
  <2>4. Web(applied.current) \in Running
    BY <1>1, <1>2 DEF Tends, WebIn, Up
  <2>5. FoundInOrder(p)' => Running' \subseteq BoxesOf(applied'.current)
    BY <1>1, <2>1, <2>2, Steady DEF Tends
  <2>6. Serves(p)'
    BY <1>1, <2>1, <2>2, <2>3, <2>4, <2>5 DEF Serves, Whole, Bearings
  <2> QED
    BY <2>1, <2>2, <2>6, Landing DEF Stage, Undone, Bearings
<1>3. CASE Leaves(p, "failed")
  BY <1>1, <1>3, TendsFails, WhenKept DEF CheckStarted, target
<1> QED
  BY <1>2, <1>3 DEF CheckStarted

-----------------------------------------------------------------------------
\* A container made again is of whoever makes it.
LEMMA BoxRenewed ==
  ASSUME NEW b, IsBox(b), NEW y
  PROVE  IsBox([b EXCEPT !.by = y])
<1>1. [b EXCEPT !.by = y] = [run |-> b.run, gen |-> b.gen, by |-> y]
  BY DEF IsBox
<1>2. \A on \in BOOLEAN : \A g : IsBox([run |-> on, gen |-> g, by |-> y])
  BY DEF IsBox
<1>3. b.run \in BOOLEAN
  BY DEF IsBox
<1> QED
  BY <1>1, <1>2, <1>3

\* The undo of a refused redeploy leaves a container or none under every name.
LEMMA UndoneKeeps ==
  ASSUME TripShape, NEW p \in Actors, NEW v, RedeployUndone(p, v)
  PROVE  BoxesKept
<1>1. CASE UNCHANGED boxes
  BY <1>1, WhenKept
<1>2. CASE boxes' = [k \in BoxNames |->
                       CASE k = Web(v) -> Gone
                         [] k # Web(v) /\ FixedPorts /\ k[2] = "web" /\ boxes[k].run ->
                              [boxes[k] EXCEPT !.by = p]
                         [] OTHER -> boxes[k]]
  <2>1. IsBox(Gone)
    BY DEF Gone, IsBox
  <2>2. \A k \in BoxNames : IsBox([boxes[k] EXCEPT !.by = p])
    BY BoxRenewed DEF TripShape
  <2>3. \A k \in BoxNames : boxes'[k] \in {Gone, boxes[k], [boxes[k] EXCEPT !.by = p]}
    BY <1>2
  <2> QED
    BY <1>2, <2>1, <2>2, <2>3 DEF BoxesKept, TripShape
<1> QED
  BY <1>1, <1>2 DEF RedeployUndone

\* A deploy, in one step, under its lock.
LEMMA RedeployLands ==
  ASSUME TripShape, RbShape', NEW p \in Actors, Alone(p), Redeploy(p)
  PROVE  Lands(p)
<1>1. AtRead(p) /\ Recalls(p) /\ mind[p].job = "redeploy" /\ mind[p].to \in Releases /\ lease = p
  BY DEF Alone, Stage, Redeploy, AtRead
<1> DEFINE v == mind[p].to
           gen == applied.gen + 1
<1> SUFFICES ASSUME ~Occupied(v) PROVE Lands(p)
  <2>1. CASE Occupied(v)
    <3>1. /\ RedeployUndone(p, v) /\ Leaves(p, "failed")
          /\ UNCHANGED <<ingress, lease, mind, edge, applied>>
      BY <1>1, <2>1 DEF Redeploy, RedeployUndone, Guarded
    <3>2. BoxesKept
      BY <3>1, UndoneKeeps
    <3>3. Carries(p)
      BY <3>1, <3>2 DEF Leaves, Says, Carries, TripShape
    <3>4. Bearings(p) /\ at'[p] = "release" /\ ended'[p] = "failed"
      BY <1>1, <3>1, NothingNoted DEF Leaves, Says, GoesTo, TripShape, RbShape
    <3> QED
      BY <1>1, <3>3, <3>4, Landing DEF Stage, Serves, Undone, Bearings
  <2> QED
    BY <2>1
<1>2. /\ boxes' = [k \in BoxNames |-> IF k \in BoxesOf(v)
                                      THEN [run |-> TRUE, gen |-> gen, by |-> p]
                                      ELSE [boxes[k] EXCEPT !.run = FALSE]]
      /\ edge' = IF UsesCaddy THEN RouteTo(v, gen) ELSE edge
      /\ applied' = [current |-> v, previous |-> applied.current, gen |-> gen]
      /\ Leaves(p, "ok") /\ UNCHANGED <<ingress, lease, mind>>
  BY <1>1 DEF Redeploy, Guarded
<1>3. \A k \in BoxNames : /\ k \in BoxesOf(v) => IsBox(boxes'[k]) /\ boxes'[k].run
                          /\ k \notin BoxesOf(v) => IsBox(boxes'[k]) /\ ~boxes'[k].run
  <2>1. \A k \in BoxNames : k \notin BoxesOf(v) => boxes'[k] = [boxes[k] EXCEPT !.run = FALSE]
    BY <1>2
  <2>2. \A k \in BoxNames : k \in BoxesOf(v) => boxes'[k] = [run |-> TRUE, gen |-> gen, by |-> p]
    BY <1>2
  <2>3. IsBox([run |-> TRUE, gen |-> gen, by |-> p]) /\ [run |-> TRUE, gen |-> gen, by |-> p].run
    BY DEF IsBox
  <2>4. \A k \in BoxNames : /\ IsBox([boxes[k] EXCEPT !.run = FALSE])
                             /\ [boxes[k] EXCEPT !.run = FALSE].run = FALSE
    BY BoxTurned DEF TripShape
  <2> QED
    BY <2>1, <2>2, <2>3, <2>4
<1>4. Running' = BoxesOf(v)
  BY <1>1, <1>3, BoxesApart DEF Running
<1>5. Carries(p)
  <2>1. BoxesKept
    BY <1>2, <1>3 DEF BoxesKept
  <2>2. ended' = [q \in Actors |-> ended'[q]] /\ robbed' = robbed
    BY <1>2 DEF Leaves, Says, TripShape
  <2> QED
    BY <1>1, <1>2, <2>1, <2>2 DEF Carries, TripShape
<1>6. Bearings(p) /\ at'[p] = "release" /\ ended'[p] = "ok"
  BY <1>1, <1>2, NothingNoted DEF Leaves, Says, GoesTo, TripShape, RbShape
<1>7. Serves(p)'
  <2>1. applied'.current = v
    BY <1>2
  <2>2. UsesCaddy' => edge'.to = v
    BY <1>2, <1>6, Steady DEF RouteTo
  <2> QED
    BY <1>4, <2>1, <2>2, BoxesApart DEF Serves
<1> QED
  BY <1>1, <1>5, <1>6, <1>7, Landing DEF Stage, Undone, Bearings

-----------------------------------------------------------------------------
\* One operation at a time, while no lock was lost.
LEMMA IdleWaits ==
  ASSUME RbShape, RbShape', NEW p \in Actors, ~Busy(p), ActorStep(p)
  PROVE  /\ Begin(p) \/ Dying(p)
         /\ Begin(p) \/ (~Busy(p)' /\ UNCHANGED <<ingress, lease, target, told>>)
<1>1. Begin(p) \/ Dying(p)
  BY DEF Busy, ActorStep, RollbackStep, UndoStep, LifecycleStep, ReadState, ReadRegion, ListBoxes,
     FreePort, RemoveOld, RunNew, CheckHealth, SwitchRoute, RereadRegion, CommitState, Retire,
     RestoreRoute, StopStarted, RestoreDisplaced, RerunDisplaced, RemoveTarget, ReadCurrent,
     ListCurrent, Halt, Launch, CheckStarted, Redeploy, Release
<1>2. Dying(p) => ~Busy(p)' /\ UNCHANGED <<ingress, lease, target, told>>
  BY DEF Dying, GoesTo, Busy, RbShape
<1> QED
  BY <1>1, <1>2

\* A holder at work sees nothing of the others' ends.
LEMMA AloneStays ==
  ASSUME TripShape, NEW p \in Actors, Alone(p), UNCHANGED <<ingress, lease, target, told>>,
         at'[p] = at[p], mind'[p] = mind[p]
  PROVE  Alone(p)'
<1>1. Running' = Running /\ There' = There /\ UNCHANGED <<boxes, edge, applied, ended, muddied, misled>>
  BY DEF Running, There, target, told
<1>2. Recalls(p)' /\ lease' = p /\ Bearings(p)
  BY DEF Alone, Recalls, Bearings
<1>3. /\ FoundInOrder(p)' <=> FoundInOrder(p)
      /\ Shiftable(p)' = Shiftable(p)
      /\ (FixedPorts' <=> FixedPorts) /\ (UsesCaddy' <=> UsesCaddy)
      /\ Aims(p)' <=> Aims(p)
  BY <1>1, <1>2, Steady
<1>4. /\ Inventory(p)' <=> Inventory(p)
      /\ Untouched(p)' <=> Untouched(p)
      /\ Switched(p)' <=> Switched(p)
      /\ RouteBack(p)' <=> RouteBack(p)
      /\ TargetBoxes(p)' = TargetBoxes(p)
  BY <1>1, <1>3 DEF Inventory, ListedRun, Untouched, Switched, RouteBack, TargetBoxes
<1>5. /\ (AtRead(p) => AtRead(p)') /\ (AtRegion(p) => AtRegion(p)') /\ (AtList(p) => AtList(p)')
  BY <1>1, <1>3, <1>4 DEF AtRead, AtRegion, AtList, Outset
<1>6. Forth(p) => Forth(p)'
  BY <1>1, <1>2, ForthStays
<1>7. /\ (AtFree(p) => AtFree(p)') /\ (AtStart(p) => AtStart(p)') /\ (AtRun(p) => AtRun(p)')
      /\ (RbHealth(p) => RbHealth(p)') /\ (AtSwitch(p) => AtSwitch(p)')
      /\ (AtCommit(p) => AtCommit(p)') /\ (AtRetire(p) => AtRetire(p)')
  BY <1>1, <1>3, <1>4, <1>6
     DEF AtFree, AtStart, AtRun, RbHealth, AtSwitch, AtCommit, AtRetire, Whole
<1>8. \A up : Back(p, up) => Back(p, up)'
  BY <1>1, <1>3 DEF Back, RunsBut
<1>9. /\ (AtUnroute(p) => AtUnroute(p)') /\ (AtUnstart(p) => AtUnstart(p)')
      /\ (AtUnfree(p) => AtUnfree(p)') /\ (AtRerun(p) => AtRerun(p)')
      /\ (AtUnmake(p) => AtUnmake(p)')
  BY <1>3, <1>4, <1>8 DEF AtUnroute, AtUnstart, AtUnfree, AtRerun, AtUnmake, Back, RunsBut
<1>10. Tends(p) => Tends(p)'
  BY <1>1, <1>3 DEF Tends
<1>11. /\ (AtHalt(p) => AtHalt(p)') /\ (AtLaunch(p) => AtLaunch(p)')
       /\ (TendsHealth(p) => TendsHealth(p)')
  BY <1>1, <1>10 DEF AtHalt, AtLaunch, TendsHealth, WebIn, Whole
<1>12. (Undone(p) => Undone(p)') /\ (Serves(p) => Serves(p)')
  BY <1>1, <1>3 DEF Undone, Serves
<1>13. Stage(p)'
  BY <1>3, <1>5, <1>7, <1>9, <1>11, <1>12 DEF Alone, Stage
<1> QED
  BY <1>2, <1>13 DEF Alone

\* Who takes a free lock finds nobody at work.
LEMMA Arrives ==
  ASSUME RbShape, RbShape', robbed' = {}, TripInv, NEW p \in Actors, Begin(p)
  PROVE  /\ \A q \in Actors : ~Busy(q)
         /\ TripShape' /\ lease' = p /\ Recalls(p)' /\ Stage(p)'
<1>1. robbed = {} /\ Free
  BY DEF Begin
<1>2. TripShape /\ \A q \in Actors : ~Busy(q)
  BY <1>1, RollbackAssumption DEF TripInv, Alone, Free, Busy
<1>3. UNCHANGED <<ingress, target, ended, muddied>> /\ lease' = p /\ at'[p] = "read"
  BY DEF Begin, GoesTo, RbShape
<1>4. PICK job \in Jobs, v \in Releases \cup {NoRelease} :
        /\ job = "rollback" \/ (job = "redeploy" <=> v # NoRelease)
        /\ Keeps(p, [Blank_ EXCEPT !.job = job, !.to = v, !.foundRunning = Running])
  BY DEF Begin
<1>5. /\ Recalls(p)' /\ mind'[p].job = job /\ mind'[p].to = v
      /\ mind'[p].foundRunning = Running /\ mind'[p].foundEdge = edge
      /\ mind'[p].started = {} /\ mind'[p].freed = {}
  BY <1>4 DEF Keeps, Blank_, Recalls, Fields, RbShape
<1>6. AtRead(p)'
  <2>1. Running' = Running /\ edge' = edge
    BY <1>3 DEF Running, target
  <2>2. job \in {"rollback", "stop", "start", "restart"} \/ (job = "redeploy" /\ v \in Releases)
    BY <1>4, RollbackAssumption
  <2> QED
    BY <1>4, <1>5, <2>1, <2>2 DEF AtRead, Outset, Untouched
<1>7. TripShape'
  BY <1>2, <1>3 DEF TripShape, target
<1> QED
  BY <1>2, <1>3, <1>5, <1>6, <1>7 DEF Stage

\* Only who takes the lock can rob it.
LEMMA RobbedStays ==
  ASSUME NEW p \in Actors, ActorStep(p), ~Begin(p)
  PROVE  robbed' = robbed
<1> USE DEF Leaves, Says, Unwinds, Muddies, Misleads, told
<1>1. CASE RollbackStep(p)
  BY <1>1 DEF RollbackStep, ReadState, ReadRegion, ListBoxes, FreePort, RemoveOld, RunNew,
     CheckHealth, SwitchRoute, RereadRegion, CommitState, Retire
<1>2. CASE UndoStep(p)
  BY <1>2 DEF UndoStep, RestoreRoute, StopStarted, RestoreDisplaced, RerunDisplaced, RemoveTarget
<1>3. CASE LifecycleStep(p)
  BY <1>3 DEF LifecycleStep, ReadCurrent, ListCurrent, Halt, Launch, CheckStarted
<1>4. CASE Redeploy(p) \/ Release(p) \/ Dying(p)
  BY <1>4 DEF Redeploy, Release, Dying
<1> QED
  BY <1>1, <1>2, <1>3, <1>4 DEF ActorStep

\* What the holder does leads where its next stage begins.
LEMMA HolderLands ==
  ASSUME TripShape, RbShape', NEW p \in Actors, Alone(p), Busy(p), Busy(p)', ActorStep(p)
  PROVE  Lands(p)
<1>1. ~Begin(p) /\ ~Release(p) /\ ~Dying(p)
  BY DEF Begin, Release, Dying, Busy, GoesTo, TripShape, RbShape
<1>2. CASE RollbackStep(p)
  BY <1>2, ReadStateLands, ReadRegionLands, ListBoxesLands, FreePortLands, RemoveOldLands,
     RunNewLands, CheckHealthLands, SwitchRouteLands, RereadRegionLands, CommitStateLands,
     RetireLands DEF RollbackStep
<1>3. CASE UndoStep(p)
  BY <1>3, RestoreRouteLands, StopStartedLands, RestoreDisplacedLands, RerunDisplacedLands,
     RemoveTargetLands DEF UndoStep
<1>4. CASE LifecycleStep(p)
  BY <1>4, ReadCurrentLands, ListCurrentLands, HaltLands, LaunchLands, CheckStartedLands
     DEF LifecycleStep
<1> QED
  BY <1>1, <1>2, <1>3, <1>4, RedeployLands DEF ActorStep

\* Its end and its death leave the containers and the state alone.
LEMMA HolderLeaves ==
  ASSUME TripShape, RbShape', NEW p \in Actors, Alone(p), Busy(p), ~Busy(p)', ActorStep(p)
  PROVE  TripShape'
<1>1. CASE Release(p) \/ Dying(p)
  BY <1>1 DEF Release, Dying, TripShape, told, target
<1>2. CASE ~Release(p) /\ ~Dying(p)
  <2>1. ~Begin(p)
    BY DEF Begin, Busy
  <2>2. Lands(p)
    BY <1>2, <2>1, ReadStateLands, ReadRegionLands, ListBoxesLands, FreePortLands, RemoveOldLands,
       RunNewLands, CheckHealthLands, SwitchRouteLands, RereadRegionLands, CommitStateLands,
       RetireLands, RestoreRouteLands, StopStartedLands, RestoreDisplacedLands,
       RerunDisplacedLands, RemoveTargetLands, ReadCurrentLands, ListCurrentLands, HaltLands,
       LaunchLands, CheckStartedLands, RedeployLands
       DEF ActorStep, RollbackStep, UndoStep, LifecycleStep
  <2> QED
    BY <2>2 DEF Lands
<1> QED
  BY <1>1, <1>2

\* At the start nothing is under way.
LEMMA TripStarts == RbInit => TripInv
<1> SUFFICES ASSUME RbInit PROVE TripInv
  OBVIOUS
<1>1. PICK n \in Nat : n \in Releases /\ Releases = 1..n
  BY RollbackAssumption
<1>2. Latest \in Releases
  <2>1. n \in Releases /\ \A u \in Releases : u <= n
    BY <1>1
  <2> QED
    BY <2>1 DEF Latest
<1>3. applied.current \in Releases /\ applied.previous \in Releases \cup {NoRelease}
  <2>1. CASE Earlier = {}
    BY <1>2, <2>1 DEF RbInit
  <2>2. CASE Earlier # {}
    <3>1. Latest = n
      <4>1. n \in Releases /\ \A u \in Releases : u <= n
        BY <1>1
      <4>2. \A v \in Releases : (\A u \in Releases : u <= v) => v = n
        BY <1>1, <4>1
      <4> QED
        BY <4>1, <4>2 DEF Latest
    <3>2. n - 1 \in Earlier /\ \A u \in Earlier : u <= n - 1
      BY <1>1, <2>2, <3>1 DEF Earlier
    <3>3. (CHOOSE v \in Earlier : \A u \in Earlier : u <= v) \in Earlier
      BY <3>2
    <3> QED
      BY <1>2, <2>2, <3>3 DEF RbInit, Earlier
  <2> QED
    BY <2>1, <2>2
<1>4. \A k \in BoxNames : IsBox(boxes[k])
  <2>1. \A k \in BoxNames : boxes[k] = [run |-> k[1] = Latest, gen |-> k[1], by |-> Nobody]
    BY DEF RbInit
  <2>2. \A on \in BOOLEAN : \A g, y : IsBox([run |-> on, gen |-> g, by |-> y])
    BY DEF IsBox
  <2>3. ASSUME NEW k \in BoxNames PROVE IsBox(boxes[k])
    <3> DEFINE on == k[1] = Latest
    <3>1. on \in BOOLEAN /\ boxes[k] = [run |-> on, gen |-> k[1], by |-> Nobody]
      BY <2>1
    <3> HIDE DEF on
    <3> QED
      BY <2>2, <3>1
  <2> QED
    BY <2>3
<1>5. ended = [p \in Actors |-> ended[p]] /\ \A p \in Actors : ~Busy(p)
  BY DEF RbInit, Busy
<1> QED
  BY <1>3, <1>4, <1>5, RbStarts DEF TripInv, TripShape

\* One operation at a time carries its stage along.
LEMMA TripStep == TripInv /\ [RbNext]_rbVars => TripInv'
<1> SUFFICES ASSUME TripInv, [RbNext]_rbVars PROVE TripInv'
  OBVIOUS
<1>1. RbShape /\ RbShape'
  BY RbShapeStays DEF TripInv
<1> SUFFICES ASSUME robbed' = {} PROVE TripShape' /\ \A p \in Actors : Busy(p)' => Alone(p)'
  BY <1>1 DEF TripInv
<1>2. CASE UNCHANGED rbVars
  <2>1. robbed = {} /\ TripShape /\ UNCHANGED <<ingress, lease, target, told, at, mind>>
    BY <1>2 DEF rbVars, TripInv, target, told
  <2>2. TripShape'
    BY <1>1, <2>1 DEF TripShape, target, told
  <2>3. ASSUME NEW p \in Actors, Busy(p)' PROVE Alone(p)'
    <3>1. Busy(p) /\ Alone(p)
      BY <2>1, <2>3 DEF Busy, TripInv
    <3> QED
      BY <2>1, <3>1, AloneStays
  <2> QED
    BY <2>2, <2>3
<1>3. ASSUME NEW q \in Actors, ActorStep(q)
      PROVE  TripShape' /\ \A p \in Actors : Busy(p)' => Alone(p)'
  <2>1. \A p \in Actors \ {q} : at'[p] = at[p] /\ mind'[p] = mind[p] /\ (Busy(p)' <=> Busy(p))
    BY <1>1, <1>3, OthersRest DEF Busy
  <2>2. CASE Begin(q)
    <3>1. /\ \A p \in Actors : ~Busy(p)
          /\ TripShape' /\ lease' = q /\ Recalls(q)' /\ Stage(q)'
      BY <1>1, <2>2, Arrives
    <3> QED
      BY <2>1, <3>1 DEF Alone
  <2>3. CASE ~Begin(q)
    <3>1. robbed = {}
      BY <1>3, <2>3, RobbedStays
    <3>2. TripShape /\ \A p \in Actors : Busy(p) => Alone(p)
      BY <3>1 DEF TripInv
    <3>3. CASE ~Busy(q)
      <4>1. ~Busy(q)' /\ UNCHANGED <<ingress, lease, target, told>>
        BY <1>1, <1>3, <2>3, <3>3, IdleWaits
      <4>2. TripShape'
        BY <1>1, <3>2, <4>1 DEF TripShape, target, told
      <4>3. ASSUME NEW p \in Actors, Busy(p)' PROVE Alone(p)'
        <5>1. p # q /\ Busy(p) /\ Alone(p) /\ at'[p] = at[p] /\ mind'[p] = mind[p]
          BY <2>1, <3>2, <4>1, <4>3
        <5> QED
          BY <3>2, <4>1, <5>1, AloneStays
      <4> QED
        BY <4>2, <4>3
    <3>4. CASE Busy(q)
      <4>1. \A p \in Actors \ {q} : ~Busy(p)'
        BY <2>1, <3>2, <3>4 DEF Alone
      <4>2. CASE Busy(q)'
        BY <1>1, <1>3, <3>2, <3>4, <4>1, <4>2, HolderLands DEF Lands, Alone
      <4>3. CASE ~Busy(q)'
        BY <1>1, <1>3, <3>2, <3>4, <4>1, <4>3, HolderLeaves
      <4> QED
        BY <4>2, <4>3
    <3> QED
      BY <3>3, <3>4
  <2> QED
    BY <2>2, <2>3
<1> QED
  BY <1>2, <1>3 DEF RbNext

\* The inductive invariant.
LEMMA TripInvariant == RbSpec => []TripInv
<1> QED
  BY TripStarts, TripStep, PTL DEF RbSpec

\* A rollback that fails leaves what it found (FailedRollbackUndone).
THEOREM FailureLeavesWhatItFound == RbSpec => []FailedRollbackUndone
<1>1. TripInv => FailedRollbackUndone
  BY DEF TripInv, FailedRollbackUndone, Ends, Busy, Alone, Stage, Undone
<1> QED
  BY <1>1, TripInvariant, PTL

\* What reports success serves (OkServes).
THEOREM SuccessServes == RbSpec => []OkServes
<1>1. TripInv => OkServes
  BY DEF TripInv, OkServes, Ends, Busy, Alone, Stage, Serves
<1> QED
  BY <1>1, TripInvariant, PTL
===============================================================================
