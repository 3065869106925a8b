------------------------------ MODULE CaddyEdit ------------------------------
(***************************************************************************)
(* Edits of the Caddyfile that every app of a server shares (mutateWithCAS,*)
(* internal/caddy/caddy.go).  An editor takes the shared lock, reads the   *)
(* whole file, commits a whole file that differs in its own app's block,   *)
(* reloads Caddy, checks that the container sees the file, and on failure  *)
(* puts the file it had read back.  Only the commit looks at the lock.     *)
(*                                                                         *)
(* A block stands for its text.  The lock has no renewal: an editor slower *)
(* than staleLockSeconds may be broken (LiveBreaks).  Staged files have    *)
(* unique names and no effect, so they are not state.  Apps have distinct  *)
(* hosts: the adoption of foreign blocks is left out.                      *)
(***************************************************************************)
EXTENDS Naturals, FiniteSets

CONSTANTS
  Editors, NoOne,   \* the edits; nobody
  Apps, AppOf,      \* the apps; whose block each edit is about
  Before, NoBlock,  \* the block an app has at the start; no block
  Removers,         \* the edits that remove the block
  Comparing,        \* the edits that commit under the exact-block comparison
  LiveBreaks,       \* TRUE: a live editor's lock may be judged stale
  Faults,           \* the commands that may fail: "info", "answer", "reload",
                    \* "verify", "restore"
  CrashAt           \* the points where an editor may die

Steps == {"start", "acquire", "break", "info", "unwind", "read", "commit", "reload",
          "verify", "rollback", "reloadBack", "release"}
Final == {"done", "crashed"}
Blocks == Editors \cup {Before, NoBlock}
CaddyFiles == [Apps -> Blocks]
Outcomes == {"none", "ok", "failed", "lost", "stale"}

ASSUME EditAssumption ==
  /\ NoOne \notin Editors /\ Before \notin Editors /\ NoBlock \notin Editors
  /\ AppOf \in [Editors -> Apps]
  /\ Removers \subseteq Editors /\ Comparing \subseteq Editors
  /\ LiveBreaks \in BOOLEAN
  /\ Faults \subseteq {"info", "answer", "reload", "verify", "restore"}
  /\ CrashAt \subseteq Steps

VARIABLES
  maker,    \* who made the lock directory that is there, or NoOne
  info,     \* whom its info file names, or NoOne
  file,     \* the Caddyfile, app by app
  running,  \* what Caddy has loaded
  pc,
  expect,   \* the block an edit was prepared against
  prev,     \* the file an edit has read
  outcome,
  strays    \* history: the editors that put a file back without the lock

vars == <<maker, info, file, running, pc, expect, prev, outcome, strays>>
lockVars == <<maker, info>>

TypeOK ==
  /\ maker \in Editors \cup {NoOne} /\ info \in Editors \cup {NoOne}
  /\ maker = NoOne => info = NoOne
  /\ file \in CaddyFiles /\ running \in CaddyFiles
  /\ pc \in [Editors -> Steps \cup Final]
  /\ expect \in [Editors -> Blocks]
  /\ prev \in [Editors -> CaddyFiles]
  /\ outcome \in [Editors -> Outcomes]
  /\ strays \subseteq Editors

At(e, s) == pc[e] = s
Go(e, s) == pc' = [pc EXCEPT ![e] = s]
End(e, o) == Go(e, "release") /\ outcome' = [outcome EXCEPT ![e] = o]
Quit(e) == Go(e, "done") /\ outcome' = [outcome EXCEPT ![e] = "failed"]
Named(e) == info = e
RemoveLock == maker' = NoOne /\ info' = NoOne

Block(e) == IF e \in Removers THEN NoBlock ELSE e
Edited(e) == [prev[e] EXCEPT ![AppOf[e]] = Block(e)]

Init ==
  /\ maker = NoOne /\ info = NoOne
  /\ file = [a \in Apps |-> Before] /\ running = file
  /\ pc = [e \in Editors |-> "start"]
  /\ expect = [e \in Editors |-> NoBlock]
  /\ prev = [e \in Editors |-> file]
  /\ outcome = [e \in Editors |-> "none"]
  /\ strays = {}

-----------------------------------------------------------------------------
(* The shared lock.                                                        *)

\* ReadManagedBlock, by the operation the edit is part of.
Resolve(e) ==
  /\ At(e, "start")
  /\ expect' = [expect EXCEPT ![e] = file[AppOf[e]]]
  /\ Go(e, "acquire")
  /\ UNCHANGED <<lockVars, file, running, prev, outcome, strays>>

\* A directory made by a command whose answer is lost is taken for another's.
Mkdir(e) ==
  /\ At(e, "acquire") /\ maker = NoOne
  /\ maker' = e
  /\ Go(e, "info") \/ ("answer" \in Faults /\ Go(e, "acquire"))
  /\ UNCHANGED <<info, file, running, expect, prev, outcome, strays>>

\* By the age of the info, or of the directory where there is none yet.
Holder == IF info = NoOne THEN maker ELSE info
Stale == maker # NoOne /\ (LiveBreaks \/ pc[Holder] \in Final)

\* The tries run out while the lock is held.
Judge(e) ==
  /\ At(e, "acquire") /\ maker # NoOne
  /\ \/ Stale /\ Go(e, "break") /\ UNCHANGED outcome
     \/ Quit(e)
  /\ UNCHANGED <<lockVars, file, running, expect, prev, strays>>

\* The directory that is removed need not be the one that was judged.
Break(e) ==
  /\ At(e, "break")
  /\ RemoveLock
  /\ Go(e, "acquire")
  /\ UNCHANGED <<file, running, expect, prev, outcome, strays>>

\* The upload makes the directory it lacks, or names e in another's.
\* (Mutant: it needs the directory and leaves a name without one.)
KeepsMaker(e) == maker
InfoMaker(e) == IF maker = NoOne THEN e ELSE maker
Upload(e) == info' = e /\ maker' = InfoMaker(e)

WriteInfo(e) ==
  /\ At(e, "info")
  /\ \/ Upload(e) /\ Go(e, "read")
     \/ "info" \in Faults /\ (Upload(e) \/ UNCHANGED lockVars) /\ Go(e, "unwind")
  /\ UNCHANGED <<file, running, expect, prev, outcome, strays>>

\* A failed upload removes the directory, whoever's it is by then.
Unwind(e) ==
  /\ At(e, "unwind")
  /\ RemoveLock
  /\ Quit(e)
  /\ UNCHANGED <<file, running, expect, prev, strays>>

\* Only a lock that names e goes; the answer is not looked at.
ReleaseLock(e) ==
  /\ At(e, "release")
  /\ \/ Named(e) /\ RemoveLock
     \/ ~Named(e) /\ UNCHANGED lockVars
     \/ "answer" \in Faults /\ UNCHANGED lockVars
  /\ Go(e, "done")
  /\ UNCHANGED <<file, running, expect, prev, outcome, strays>>

-----------------------------------------------------------------------------
(* The edit.                                                               *)

\* An edit that changes nothing is done; one Caddy would not adapt is refused.
Read(e) ==
  /\ At(e, "read")
  /\ prev' = [prev EXCEPT ![e] = file]
  /\ \/ file[AppOf[e]] = Block(e) /\ End(e, "ok")
     \/ file[AppOf[e]] # Block(e) /\ Go(e, "commit") /\ UNCHANGED outcome
     \/ End(e, "failed")
  /\ UNCHANGED <<lockVars, file, running, expect, strays>>

\* (Mutants: the rename looks at the comparison only; at the lock only.)
ComparesOnly(e) == e \in Comparing => file[AppOf[e]] = expect[e]
LocksOnly(e) == Named(e)
MayCommit(e) == Named(e) /\ (e \in Comparing => file[AppOf[e]] = expect[e])

\* The guard, the comparison and the rename are one command.  When only its
\* answer is lost the edit is reported failed and stays.
Commit(e) ==
  /\ At(e, "commit")
  /\ \/ /\ MayCommit(e)
        /\ file' = Edited(e)
        /\ \/ Go(e, "reload") /\ UNCHANGED outcome
           \/ "answer" \in Faults /\ End(e, "lost")
     \/ End(e, "failed") /\ UNCHANGED file
  /\ UNCHANGED <<lockVars, running, expect, prev, strays>>

Reload(e) ==
  /\ At(e, "reload")
  /\ \/ running' = file /\ Go(e, "verify")
     \/ "reload" \in Faults /\ Go(e, "rollback") /\ UNCHANGED running
  /\ UNCHANGED <<lockVars, file, expect, prev, outcome, strays>>

\* (Mutant: an edit that cannot be verified is reported and left.)
LeavesUnverified(e) == End(e, "failed")
AfterUnverified(e) == Go(e, "rollback") /\ UNCHANGED outcome

Verify(e) ==
  /\ At(e, "verify")
  /\ \/ End(e, "ok")
     \/ "verify" \in Faults /\ AfterUnverified(e)
  /\ UNCHANGED <<lockVars, file, running, expect, prev, strays>>

\* The whole file goes back as it was read; no lock is looked at.
Rollback(e) ==
  /\ At(e, "rollback")
  /\ \/ /\ file' = prev[e] /\ Go(e, "reloadBack") /\ UNCHANGED outcome
        /\ strays' = IF Named(e) THEN strays ELSE strays \cup {e}
     \/ "restore" \in Faults /\ End(e, "stale") /\ UNCHANGED <<file, strays>>
  /\ UNCHANGED <<lockVars, running, expect, prev>>

ReloadBack(e) ==
  /\ At(e, "reloadBack")
  /\ \/ running' = file /\ End(e, "failed")
     \/ "restore" \in Faults /\ End(e, "stale") /\ UNCHANGED running
  /\ UNCHANGED <<lockVars, file, expect, prev, strays>>

Crash(e) ==
  /\ pc[e] \in CrashAt
  /\ Go(e, "crashed")
  /\ UNCHANGED <<lockVars, file, running, expect, prev, outcome, strays>>

EditorStep(e) ==
  \/ Resolve(e) \/ Mkdir(e) \/ Judge(e) \/ Break(e) \/ WriteInfo(e) \/ Unwind(e)
  \/ ReleaseLock(e) \/ Read(e) \/ Commit(e) \/ Reload(e) \/ Verify(e) \/ Rollback(e)
  \/ ReloadBack(e)

Next == \E e \in Editors : EditorStep(e) \/ Crash(e)

Spec == Init /\ [][Next]_vars

-----------------------------------------------------------------------------
(* What the edits promise.                                                 *)

KeepsOthers(e) == \A a \in Apps \ {AppOf[e]} : file'[a] = file[a]

\* caddy.go says of its lock that concurrent deploys of different apps cannot
\* clobber the shared file: no edit changes another app's block.
NoClobber == [][\A e \in Editors : EditorStep(e) => KeepsOthers(e)]_vars

\* It holds as long as no editor has put a file back after losing its lock,
\* whatever breaks, races of breakers, crashes and failed uploads the lock has
\* seen: a commit that passes the guard has read the file it replaces, and a
\* rollback by the editor the lock still names takes back its own edit only.
LockedEditsKeepOthers ==
  [][\A e \in Editors :
       strays = {} /\ EditorStep(e) /\ (Rollback(e) => Named(e)) => KeepsOthers(e)]_vars

\* An edit that may have reached its commit.
Past(e) == pc[e] \notin {"start", "acquire", "break", "info", "unwind", "read", "commit"}
Replaced(e) == prev[e][AppOf[e]] # Block(e)

\* Of the edits of an app that compare with the same block, one succeeds; they
\* can compare with its absence again once a removal has come between.
OneWins ==
  strays = {} =>
    \A d, e \in Comparing \ Removers :
      d # e /\ AppOf[d] = AppOf[e] /\ outcome[d] = "ok" /\ outcome[e] = "ok"
        => \/ expect[d] # expect[e]
           \/ /\ expect[d] = NoBlock
              /\ \E r \in Removers : AppOf[r] = AppOf[d] /\ Past(r)

\* When every edit has ended with success or a plain failure, Caddy runs what
\* the file says, and the file holds the blocks of successful edits only: of
\* those that replaced the block they read.
SettledAgrees ==
  (\A e \in Editors : At(e, "done") /\ outcome[e] \in {"ok", "failed"}) /\ strays = {} =>
    /\ running = file
    /\ \A a \in Apps :
         LET won == {e \in Editors : AppOf[e] = a /\ outcome[e] = "ok" /\ Replaced(e)}
         IN IF won = {} THEN file[a] = Before ELSE file[a] \in {Block(e) : e \in won}
=============================================================================
