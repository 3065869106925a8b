------------------------------ MODULE ConfigHome ------------------------------
(***************************************************************************)
(* The settings of one app kept on its server: config.git, whose only      *)
(* writer is a helper under a file lock that commits when the head is the  *)
(* one its caller read (confighome/store.go), the home marker of           *)
(* state.json and the gate that squares the two (confighome/gate.go), and  *)
(* the commands over them (cli/config.go, cli/deployserver.go,             *)
(* cli/remove.go).                                                         *)
(*                                                                         *)
(* Edits, restores and purges hold no app lock; deploys, removals and the  *)
(* changes of home do.  A config is the set of edits it contains.  The     *)
(* marker is written by fenced commits, which FencedState models, and is   *)
(* one step here.                                                          *)
(***************************************************************************)
EXTENDS Integers, Sequences, SequencesExt

CONSTANTS
    Clients,
    MaxTries,       \* retries of a key edit that met a conflict, 3 in the code
    MaxOps,         \* bound: commands started
    MaxCuts         \* bound: clients that die in the middle of one

Unheld == "nobody"

ASSUME ConfigHomeAssumption ==
    Unheld \notin Clients /\ MaxTries \in Nat /\ MaxOps \in Nat /\ MaxCuts \in Nat

VARIABLES
    hasRepo, history,   \* config.git: whether it is there; its commits, head last
    archives,       \* the configs at the heads of archived repositories
    marker,         \* state.json: "none", "v2" (folder), "v3", "tomb" (v3, not deployed)
    folder,         \* the config in the operator's folder
    confLock,       \* the holder of the app lock, or Unheld
    task,           \* the command each client is in
    tasks, commitIds, deaths,
    savedEdits,     \* edits answered as saved
    givenUp,        \* edits an operator's restore or removal gave up
    erased,         \* edits a purge answered as gone from the history
    strays          \* a move to the folder was cut off, or a purge ran beside a command

confVars == <<hasRepo, history, archives, marker, folder, confLock, task, tasks, commitIds,
              deaths, savedEdits, givenUp, erased, strays>>

ZeroCommit == [id |-> 0, edits |-> {}]
NoTask == [kind |-> "none", pc |-> "-", base |-> ZeroCommit, edits |-> {}, token |-> 0,
           tries |-> 0]
Task(kind, step) == [NoTask EXCEPT !.kind = kind, !.pc = step]

Tip == IF history = <<>> THEN ZeroCommit ELSE Last(history)
EditsOf(s) == UNION {s[n].edits : n \in DOMAIN s}
InServerHome == marker \in {"v3", "tomb"}

OffLock == UNCHANGED <<archives, marker, folder, confLock, strays>>
OnlyReads ==
    OffLock /\ UNCHANGED <<hasRepo, history, commitIds, deaths, savedEdits, givenUp, erased>>

Starts(c, o) == /\ task[c] = NoTask /\ tasks < MaxOps
               /\ tasks' = tasks + 1
               /\ task' = [task EXCEPT ![c] = o]
Goes(c, o) == task' = [task EXCEPT ![c] = o] /\ UNCHANGED tasks
Stops(c) == Goes(c, NoTask)

-----------------------------------------------------------------------------
(* The helper's write, one step under its file lock: the caller's base     *)
(* must be the head, and ZeroCommit where there is no commit or no         *)
(* repository, which the write then creates.                               *)

AtTip(base) == base = Tip /\ (hasRepo \/ base = ZeroCommit)

HelperWrites(base, edits) ==
    /\ AtTip(base)
    /\ commitIds' = commitIds + 1
    /\ hasRepo' = TRUE
    /\ history' = Append(history, [id |-> commitIds + 1, edits |-> edits])

(* readHead looks at HEAD and at the loose ref in two reads: a repository  *)
(* archived in between reads as one without a commit.                      *)
StartSet(c) ==
    /\ hasRepo
    /\ Starts(c, [Task("set", "ref") EXCEPT !.token = tasks + 1])
    /\ OnlyReads

ReadRef(c) ==
    /\ task[c].kind = "set" /\ task[c].pc = "ref"
    /\ Goes(c, [task[c] EXCEPT !.pc = "write", !.base = Tip])
    /\ OnlyReads

(* The key edit, or the merge of `config edit`, over the head it read.     *)
SetCommits(c) ==
    /\ task[c].kind = "set" /\ task[c].pc = "write"
    /\ HelperWrites(task[c].base, task[c].base.edits \cup {task[c].token})
    /\ savedEdits' = savedEdits \cup {task[c].token}
    /\ Stops(c)
    /\ OffLock /\ UNCHANGED <<deaths, givenUp, erased>>

(* (Mutant: the retries of a key edit are not counted against a limit.)    *)
RetriesForever(c) ==
    /\ task[c].kind = "set" /\ task[c].pc = "write"
    /\ ~AtTip(task[c].base)
    /\ Goes(c, [task[c] EXCEPT !.pc = "ref", !.base = ZeroCommit, !.tries = @ + 1])
    /\ OnlyReads

(* A conflict: read again and edit again, a bounded number of times and    *)
(* while there is a repository.                                            *)
SetConflicts(c) ==
    /\ task[c].kind = "set" /\ task[c].pc = "write"
    /\ ~AtTip(task[c].base)
    /\ IF hasRepo /\ task[c].tries < MaxTries
       THEN Goes(c, [task[c] EXCEPT !.pc = "ref", !.base = ZeroCommit, !.tries = @ + 1])
       ELSE Stops(c)
    /\ OnlyReads

(* `config set --file --expect 000...`: the first config, wherever the     *)
(* app's home is; it conflicts where there is a commit.                    *)
CreateFromFile(c) ==
    /\ task[c] = NoTask /\ tasks < MaxOps
    /\ tasks' = tasks + 1
    /\ HelperWrites(ZeroCommit, {tasks + 1})
    /\ savedEdits' = savedEdits \cup {tasks + 1}
    /\ OffLock /\ UNCHANGED <<task, deaths, givenUp, erased>>

(* `config restore`: the head first, then the old commit.                  *)
StartRestore(c) ==
    /\ hasRepo /\ history # <<>>
    /\ Starts(c, [Task("restore", "old") EXCEPT !.base = Tip])
    /\ OnlyReads

ReadOld(c) ==
    /\ task[c].kind = "restore" /\ task[c].pc = "old"
    /\ \E n \in DOMAIN history :
          Goes(c, [task[c] EXCEPT !.pc = "write", !.edits = history[n].edits])
    /\ OnlyReads

(* (Mutant: the head the restore replaces is read when it writes.)         *)
RestoreOverAnything(c) ==
    /\ task[c].kind = "restore" /\ task[c].pc = "write"
    /\ HelperWrites(Tip, task[c].edits)
    /\ givenUp' = givenUp \cup (Tip.edits \ task[c].edits)
    /\ Stops(c)
    /\ OffLock /\ UNCHANGED <<deaths, savedEdits, erased>>

RestoreCommits(c) ==
    /\ task[c].kind = "restore" /\ task[c].pc = "write"
    /\ HelperWrites(task[c].base, task[c].edits)
    /\ givenUp' = givenUp \cup (task[c].base.edits \ task[c].edits)
    /\ Stops(c)
    /\ OffLock /\ UNCHANGED <<deaths, savedEdits, erased>>

(* `config purge-history --expect <head>`: one commit holding the current  *)
(* config; the old objects go last, so a cut leaves them readable.         *)
StartPurge(c) ==
    /\ hasRepo /\ history # <<>>
    /\ Starts(c, [Task("purge", "run") EXCEPT !.base = Tip])
    /\ OnlyReads

PurgeHistory(c) ==
    /\ task[c].kind = "purge" /\ hasRepo /\ Tip = task[c].base
    /\ commitIds' = commitIds + 1
    /\ LET new == [id |-> commitIds + 1, edits |-> Tip.edits]
       IN \/ /\ history' = <<new>>
             /\ erased' = erased \cup (EditsOf(history) \ Tip.edits)
             /\ UNCHANGED <<deaths>>
          \/ /\ history' = Append(history, new)
             /\ deaths < MaxCuts /\ deaths' = deaths + 1
             /\ UNCHANGED <<erased>>
    /\ Stops(c)
    /\ OffLock /\ UNCHANGED <<hasRepo, savedEdits, givenUp>>

(* A restore or a purge that lost its head, its commit or its repository.  *)
GivesUp(c) ==
    /\ \/ task[c].kind = "restore" /\ task[c].pc = "old" /\ history = <<>>
       \/ task[c].kind = "restore" /\ task[c].pc = "write" /\ ~AtTip(task[c].base)
       \/ task[c].kind = "purge" /\ ~(hasRepo /\ Tip = task[c].base)
    /\ Stops(c)
    /\ OnlyReads

-----------------------------------------------------------------------------
(* The commands under the app lock.                                        *)
HomeKept == UNCHANGED <<commitIds, deaths, savedEdits, erased, strays>>

(* CheckGate: a repository without the marker is marked again; the marker  *)
(* without a repository is refused.                                        *)
OrphanedMarker == InServerHome /\ ~hasRepo
Teploys == CASE marker = "none" -> "tomb" [] marker = "v2" -> "v3" [] OTHER -> marker
MarkedAgain == IF hasRepo THEN Teploys ELSE marker

StartLocked(c, kind, step) ==
    /\ confLock = Unheld
    /\ Starts(c, Task(kind, step))
    /\ confLock' = c

CheckGate(c, kind) ==
    /\ ~OrphanedMarker
    /\ StartLocked(c, kind, "go")
    /\ marker' = MarkedAgain
    /\ UNCHANGED <<hasRepo, history, archives, folder, givenUp>> /\ HomeKept

LetsGo(c) == confLock' = Unheld /\ Stops(c)

(* (Mutant: the marker first, then the repository.)                        *)
MarkThenClaim(c) ==
    \/ /\ task[c].kind = "claim" /\ task[c].pc = "go" /\ ~hasRepo
       /\ marker' = Teploys
       /\ Goes(c, [task[c] EXCEPT !.pc = "mark"])
       /\ UNCHANGED <<hasRepo, history, archives, folder, confLock, givenUp>> /\ HomeKept
    \/ /\ task[c].kind = "claim" /\ task[c].pc = "mark"
       /\ HelperWrites(ZeroCommit, folder)
       /\ savedEdits' = savedEdits \cup folder
       /\ LetsGo(c)
       /\ UNCHANGED <<archives, marker, folder, deaths, givenUp, erased, strays>>

(* `config home teploy`: the repository first, then the marker.            *)
ClaimHome(c) ==
    /\ task[c].kind = "claim" /\ task[c].pc = "go"
    /\ HelperWrites(ZeroCommit, folder)
    /\ savedEdits' = savedEdits \cup folder
    /\ Goes(c, [task[c] EXCEPT !.pc = "mark"])
    /\ UNCHANGED <<archives, marker, folder, confLock, deaths, givenUp, erased, strays>>

(* SetSchemaVersion to v3; nothing deployed becomes a tombstone.           *)
MarkHome(c) ==
    /\ task[c].kind = "claim" /\ task[c].pc = "mark"
    /\ marker' = Teploys
    /\ LetsGo(c)
    /\ UNCHANGED <<hasRepo, history, archives, folder, givenUp>> /\ HomeKept

ClaimRefused(c) ==
    /\ task[c].kind = "claim" /\ task[c].pc = "go" /\ (hasRepo /\ history # <<>>)
    /\ LetsGo(c)
    /\ UNCHANGED <<hasRepo, history, archives, marker, folder, givenUp>> /\ HomeKept

(* `config home folder`: write the head to the folder, unless another file *)
(* is there; archive the repository; then the marker.  It asks no gate:    *)
(* it is the way out of an orphaned marker.                                *)
StartMove(c) ==
    /\ StartLocked(c, "move", IF hasRepo THEN "archive" ELSE "unmark")
    /\ folder' \in {folder, IF history = <<>> THEN folder ELSE Tip.edits}
    /\ UNCHANGED <<hasRepo, history, archives, marker, givenUp>> /\ HomeKept

(* (Mutant: the repository is deleted.)                                    *)
DeleteRepository(c) ==
    /\ task[c].kind = "move" /\ task[c].pc = "archive"
    /\ hasRepo' = FALSE /\ history' = <<>>
    /\ Goes(c, [task[c] EXCEPT !.pc = "unmark"])
    /\ UNCHANGED <<archives, marker, folder, confLock, givenUp>> /\ HomeKept

ArchiveRepo(c) ==
    /\ task[c].kind = "move" /\ task[c].pc = "archive"
    /\ archives' = IF hasRepo THEN archives \cup {Tip.edits} ELSE archives
    /\ hasRepo' = FALSE /\ history' = <<>>
    /\ Goes(c, [task[c] EXCEPT !.pc = "unmark"])
    /\ UNCHANGED <<marker, folder, confLock, givenUp>> /\ HomeKept

UnmarkHome(c) ==
    /\ task[c].kind = "move" /\ task[c].pc = "unmark"
    /\ marker' = CASE marker = "v3" -> "v2" [] marker = "tomb" -> "none"
                   [] OTHER -> marker
    /\ LetsGo(c)
    /\ UNCHANGED <<hasRepo, history, archives, folder, givenUp>> /\ HomeKept

(* A deploy commits the state of the home its gate saw: deployServerConfig *)
(* where the repository has a commit, a folder deploy where there is none. *)
DeployCommits(c) ==
    /\ task[c].kind \in {"deploy", "folderDeploy"} /\ task[c].pc = "go"
    /\ marker' = IF task[c].kind = "deploy" THEN "v3" ELSE "v2"
    /\ LetsGo(c)
    /\ UNCHANGED <<hasRepo, history, archives, folder, givenUp>> /\ HomeKept

StartDeploy(c) == CheckGate(c, "deploy") /\ hasRepo /\ history # <<>>
StartFolderDeploy(c) == CheckGate(c, "folderDeploy") /\ ~hasRepo
StartClaim(c) == CheckGate(c, "claim") /\ ~hasRepo

(* `remove`: the state goes, or stays as a tombstone where the repository  *)
(* does.  --purge deletes the whole app directory, the lock with it, and   *)
(* only then the repository and its archives.                              *)
StartRemove(c) ==
    /\ StartLocked(c, "remove", "done")
    /\ marker' = IF hasRepo THEN "tomb" ELSE "none"
    /\ UNCHANGED <<hasRepo, history, archives, folder, givenUp>> /\ HomeKept

StartPurgingRemove(c) ==
    /\ confLock = Unheld /\ UNCHANGED confLock
    /\ Starts(c, Task("remove", IF hasRepo THEN "wipe" ELSE "done"))
    /\ marker' = "none"
    /\ UNCHANGED <<hasRepo, history, archives, folder, givenUp>> /\ HomeKept

WipeRepo(c) ==
    /\ task[c].kind = "remove" /\ task[c].pc = "wipe"
    /\ hasRepo' = FALSE /\ history' = <<>> /\ archives' = {}
    /\ givenUp' = givenUp \cup savedEdits
    /\ strays' = (strays \/ InServerHome \/ confLock # Unheld)
    /\ Goes(c, [task[c] EXCEPT !.pc = "done"])
    /\ UNCHANGED <<marker, folder, confLock, commitIds, deaths, savedEdits, erased>>

(* The release spares a lock that is another client's by now.              *)
FinishRemove(c) ==
    /\ task[c].kind = "remove" /\ task[c].pc = "done"
    /\ confLock' = IF confLock = c THEN Unheld ELSE confLock
    /\ Stops(c)
    /\ UNCHANGED <<hasRepo, history, archives, marker, folder, givenUp>> /\ HomeKept

(* A client dies; a later one breaks its lock.                             *)
ClientDies(c) ==
    /\ task[c] # NoTask /\ deaths < MaxCuts
    /\ deaths' = deaths + 1
    /\ strays' = (strays \/ task[c].kind = "move")
    /\ confLock' = IF confLock = c THEN Unheld ELSE confLock
    /\ Stops(c)
    /\ UNCHANGED <<hasRepo, history, archives, marker, folder, commitIds, savedEdits, givenUp, erased>>

-----------------------------------------------------------------------------
ConfInit ==
    /\ hasRepo = FALSE /\ history = <<>> /\ archives = {}
    /\ marker \in {"none", "v2"} /\ folder = {}
    /\ confLock = Unheld /\ task = [c \in Clients |-> NoTask]
    /\ tasks = 0 /\ commitIds = 0 /\ deaths = 0
    /\ savedEdits = {} /\ givenUp = {} /\ erased = {} /\ strays = FALSE

EditConfig(c) == StartSet(c) \/ ReadRef(c) \/ SetCommits(c) \/ SetConflicts(c)
                 \/ CreateFromFile(c)
RewriteConfig(c) == StartRestore(c) \/ ReadOld(c) \/ RestoreCommits(c)
                    \/ StartPurge(c) \/ PurgeHistory(c) \/ GivesUp(c)
Rehome(c) == StartClaim(c) \/ ClaimHome(c) \/ MarkHome(c) \/ ClaimRefused(c)
             \/ StartMove(c) \/ ArchiveRepo(c) \/ UnmarkHome(c)
OperateApp(c) == StartDeploy(c) \/ StartFolderDeploy(c) \/ DeployCommits(c)
              \/ StartRemove(c) \/ StartPurgingRemove(c) \/ WipeRepo(c) \/ FinishRemove(c)

ConfNext == \E c \in Clients : EditConfig(c) \/ RewriteConfig(c) \/ Rehome(c)
                               \/ OperateApp(c) \/ ClientDies(c)

ConfSpec == ConfInit /\ [][ConfNext]_confVars

-----------------------------------------------------------------------------
ConfTypeOK ==
    /\ hasRepo \in BOOLEAN /\ (history # <<>> => hasRepo)
    /\ \A n \in DOMAIN history : history[n].id \in 1..commitIds /\ history[n].edits \subseteq 1..tasks
    /\ archives \subseteq SUBSET (1..tasks)
    /\ marker \in {"none", "v2", "v3", "tomb"}
    /\ folder \subseteq 1..tasks /\ confLock \in Clients \cup {Unheld}
    /\ DOMAIN task = Clients /\ \A c \in Clients : task[c].tries \in 0..MaxTries
    /\ tasks \in 0..MaxOps /\ deaths \in 0..MaxCuts /\ commitIds \in Nat
    /\ savedEdits \cup givenUp \cup erased \subseteq 1..tasks /\ strays \in BOOLEAN

(* An edit answered as saved is in the current config, in the folder the   *)
(* config moved to or at the head of an archive, over every interleaving   *)
(* of edits, merges, purges and moves, unless an operator restored past it *)
(* or removed the app's data (the compare-and-swap of the helper).         *)
AckedKept ==
    savedEdits \ givenUp \subseteq Tip.edits \cup folder \cup UNION archives

(* The marker is without its repository, which refuses every deploy, only  *)
(* while the app moves to its folder, after such a move was cut off, or    *)
(* after a purging removal that another command overlapped: it has deleted *)
(* its own lock (commitHomeTeploy, CheckGate, runConfigHomeFolder).        *)
OrphansHaveACause ==
    OrphanedMarker => strays \/ \E c \in Clients : task[c].kind = "move"

(* What a purge answered as gone does not come back into the config by a   *)
(* restore, an edit or a merge that had read it before; only a claim from  *)
(* a folder that still has it brings it back (PurgeHistory).               *)
PurgeHolds ==
    [][(Tip.edits' \ Tip.edits) \cap erased # {} =>
          \E c \in Clients : task[c].kind = "claim"]_confVars
=============================================================================
