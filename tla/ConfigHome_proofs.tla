--------------------------- MODULE ConfigHome_proofs ---------------------------
(***************************************************************************)
(* Proofs about the settings of an app, for any number of clients, of      *)
(* retries, of commands and of cut-off clients.                            *)
(*                                                                         *)
(* The repository's part: commits are made on the head they were read at   *)
(* and under ids that only grow, so a head that was read and still is the  *)
(* head stands for the same history; whatever was saved is at a head.      *)
(* The home's part: the commands under the app lock exclude each other, so *)
(* only a move takes the repository away, or a purging removal, which      *)
(* knows whom it overlapped.                                               *)
(***************************************************************************)
EXTENDS ConfigHome, SequenceTheorems, TLAPS

(* A commit in config.git.                                                 *)
ConfCommits == [id : Nat \ {0}, edits : SUBSET Nat]

ConfTasks ==
    [kind : {"none", "set", "restore", "purge", "claim", "move", "deploy", "folderDeploy",
             "remove"},
     pc : {"-", "ref", "write", "old", "run", "go", "mark", "archive", "unmark", "wipe",
           "done"},
     base : [id : Nat, edits : SUBSET Nat], edits : SUBSET Nat, token : Nat,
     tries : 0..MaxTries]

InStore == EditsOf(history)

ConfShape ==
    /\ hasRepo \in BOOLEAN /\ (history # <<>> => hasRepo)
    /\ history \in Seq(ConfCommits) /\ commitIds \in Nat
    /\ \A n \in DOMAIN history : history[n].id <= commitIds
    /\ task \in [Clients -> ConfTasks] /\ tasks \in 0..MaxOps

(* An edit in the repository was answered as saved; the one a command is   *)
(* about to make is in none, and no other command makes it.                *)
TokensFresh ==
    /\ savedEdits \subseteq 1..tasks
    /\ folder \subseteq savedEdits /\ InStore \subseteq savedEdits /\ erased \subseteq savedEdits
    /\ \A c \in Clients : task[c].kind = "set" =>
          /\ task[c].token \in 1..tasks /\ task[c].token \notin savedEdits
          /\ \A d \in Clients \ {c} :
                task[d].kind = "set" => task[d].token # task[c].token

(* What is saved and not given up is at the head of the repository or of   *)
(* an archive.                                                             *)
SavedAtHeads == savedEdits \ givenUp \subseteq Tip.edits \cup UNION archives

(* What was erased and is back is in all of the history.                   *)
ErasedIsBack == \A n \in DOMAIN history : InStore \cap erased \subseteq history[n].edits

(* A restore whose head still is the head holds a config of its history.   *)
RestoreHolds(t) ==
    /\ t.base.id \in 1..commitIds
    /\ t.pc = "write" /\ t.base = Tip => \E n \in DOMAIN history : t.edits = history[n].edits
RestoresHold == \A c \in Clients : task[c].kind = "restore" => RestoreHolds(task[c])

StoreInv == /\ ConfShape /\ TokensFresh /\ SavedAtHeads /\ ErasedIsBack /\ RestoresHold

(* The commands under the app lock hold it, and what they saw of the       *)
(* repository holds.                                                       *)
SawRepo(t) == t.kind = "deploy" \/ (t.kind = "claim" /\ t.pc = "mark")
LockedTasks ==
    \A c \in Clients :
       /\ task[c].kind \in {"claim", "move", "deploy", "folderDeploy"} => confLock = c
       /\ SawRepo(task[c]) => hasRepo \/ strays

HomeInv == LockedTasks /\ OrphansHaveACause

-----------------------------------------------------------------------------
(* The repository.                                                         *)

\* What the head is, and what the repository contains.
LEMMA TipIs ==
  ASSUME ConfShape
  PROVE  /\ history = <<>> => Tip = ZeroCommit /\ Tip.id = 0 /\ Tip.edits = {}
         /\ history # <<>> => /\ Len(history) \in DOMAIN history
                              /\ Tip = history[Len(history)]
                              /\ Tip.id \in 1..commitIds
         /\ Tip.edits \subseteq InStore /\ Tip \in [id : Nat, edits : SUBSET Nat]
         /\ Tip.id \in 0..commitIds
         /\ \A n \in DOMAIN history : history[n] \in ConfCommits
                                      /\ history[n].edits \subseteq InStore
  <1>1. CASE history = <<>>
    <2>1. Tip = ZeroCommit /\ Tip.id = 0 /\ Tip.edits = {}
      BY <1>1 DEF Tip, ZeroCommit
    <2>2. Tip \in [id : Nat, edits : SUBSET Nat]
      BY <2>1 DEF ZeroCommit
    <2>3. DOMAIN history = {}
      BY <1>1
    <2> QED
      BY <1>1, <2>1, <2>2, <2>3 DEF ConfShape
  <1>2. CASE history # <<>>
    <2>1. /\ Len(history) \in Nat /\ Len(history) # 0
          /\ DOMAIN history = 1..Len(history)
      BY <1>2, LenProperties, EmptySeq DEF ConfShape
    <2>2. \A n \in DOMAIN history : history[n] \in ConfCommits
      BY <2>1, ElementOfSeq DEF ConfShape
    <2>3. Len(history) \in DOMAIN history /\ Tip = history[Len(history)]
      BY <1>2, <2>1 DEF Tip, Last
    <2>4. \A n \in DOMAIN history : history[n].edits \subseteq InStore
      BY DEF InStore, EditsOf
    <2>5. Tip \in ConfCommits /\ Tip.id \in 1..commitIds
      BY <2>2, <2>3 DEF ConfShape, ConfCommits
    <2> QED
      BY <1>2, <2>2, <2>3, <2>4, <2>5 DEF ConfCommits, ConfShape
  <1> QED
    BY <1>1, <1>2

\* What one commit more makes of the repository (config-home-helper's commit).
LEMMA Appended ==
  ASSUME ConfShape, NEW edits \in SUBSET Nat, commitIds' = commitIds + 1,
         history' = Append(history, [id |-> commitIds + 1, edits |-> edits])
  PROVE  /\ history' \in Seq(ConfCommits) /\ history' # <<>> /\ commitIds' \in Nat
         /\ Tip'.id = commitIds' /\ Tip'.edits = edits
         /\ InStore' = InStore \cup edits
         /\ \A n \in DOMAIN history' : \/ n \in DOMAIN history /\ history'[n] = history[n]
                                       \/ history'[n].id = commitIds' /\ history'[n].edits = edits
         /\ \A n \in DOMAIN history : n \in DOMAIN history'
         /\ \A n \in DOMAIN history' : history'[n].id <= commitIds'
  <1> DEFINE new == [id |-> commitIds + 1, edits |-> edits]
  <1>1. new \in ConfCommits /\ new.id = commitIds' /\ new.edits = edits
    BY DEF ConfShape, ConfCommits
  <1>2. history \in Seq(ConfCommits) /\ history' = Append(history, new)
    BY DEF ConfShape
  <1> HIDE DEF new
  <1>3. /\ history' \in Seq(ConfCommits) /\ history' # <<>>
        /\ Len(history') = Len(history) + 1
        /\ \A n \in 1..Len(history) : history'[n] = history[n]
        /\ history'[Len(history) + 1] = new
    BY <1>1, <1>2, AppendProperties
  <1>4. /\ Len(history) \in Nat /\ DOMAIN history = 1..Len(history)
        /\ DOMAIN history' = 1..(Len(history) + 1)
    BY <1>2, <1>3, LenProperties
  <1>5. Tip' = new
    BY <1>3 DEF Tip, Last
  <1>6. /\ \A n \in DOMAIN history' : \/ n \in DOMAIN history /\ history'[n] = history[n]
                                      \/ n = Len(history) + 1 /\ history'[n] = new
        /\ \A n \in DOMAIN history : n \in DOMAIN history'
        /\ Len(history) + 1 \in DOMAIN history'
    BY <1>3, <1>4
  <1>7. InStore' = InStore \cup edits
    <2>1. ASSUME NEW e \in InStore'
          PROVE  e \in InStore \cup edits
      BY <1>1, <1>6 DEF InStore, EditsOf
    <2>2. ASSUME NEW e \in InStore
          PROVE  e \in InStore'
      BY <1>3, <1>4, <1>6 DEF InStore, EditsOf
    <2>3. edits \subseteq InStore'
      BY <1>1, <1>3, <1>6 DEF InStore, EditsOf
    <2> QED
      BY <2>1, <2>2, <2>3
  <1>8. \A n \in DOMAIN history' : history'[n].id <= commitIds'
    <2>1. \A n \in DOMAIN history : history[n].id \in Nat /\ history[n].id <= commitIds
      BY TipIs DEF ConfShape, ConfCommits
    <2>2. commitIds \in Nat
      BY DEF ConfShape
    <2> QED
      BY <1>1, <1>6, <2>1, <2>2
  <1> QED
    BY <1>1, <1>3, <1>5, <1>6, <1>7, <1>8 DEF ConfShape

\* A head that was read before the head moved is the head no more.
LEMMA HeadMoved ==
  ASSUME StoreInv, commitIds' >= commitIds, commitIds' \in Nat,
         Tip'.id = 0 \/ Tip'.id > commitIds,
         \A c \in Clients : task'[c].kind = "restore" => task'[c] = task[c]
  PROVE  RestoresHold'
  <1> SUFFICES ASSUME NEW c \in Clients, task'[c].kind = "restore"
               PROVE  RestoreHolds(task[c])'
    BY DEF RestoresHold
  <1>1. task'[c] = task[c] /\ task[c].base.id \in 1..commitIds /\ commitIds \in Nat
    BY DEF StoreInv, ConfShape, RestoresHold, RestoreHolds
  <1>2. task'[c].base # Tip' /\ task'[c].base.id \in 1..commitIds'
    BY <1>1
  <1> QED
    BY <1>2 DEF RestoreHolds

\* A step that leaves the repository and what was saved as they are, and at
\* most moves one client's command on.
StoreRests == UNCHANGED <<hasRepo, history, archives, commitIds, savedEdits, givenUp, erased>>
QuietStep(c, o) ==
    /\ StoreRests /\ folder' \in {folder, Tip.edits}
    /\ task' = [task EXCEPT ![c] = o]
    /\ tasks' = tasks \/ (tasks' = tasks + 1 /\ tasks < MaxOps)
    /\ o.kind = "set" => \/ task[c].kind = "set" /\ o.token = task[c].token
                         \/ tasks' = tasks + 1 /\ o.token = tasks'
    /\ o.kind = "restore" => RestoreHolds(o)

\* A step that changes neither the repository nor what was saved, and gives its
\* client a task with nothing of the repository's in it but what is true.
LEMMA Quiet ==
  ASSUME StoreInv, NEW c \in Clients, NEW o \in ConfTasks, QuietStep(c, o)
  PROVE  StoreInv'
  <1> USE DEF StoreInv, QuietStep, StoreRests
  <1>1. /\ tasks \in Nat /\ tasks' \in 0..MaxOps /\ tasks' >= tasks
    BY ConfigHomeAssumption DEF ConfShape
  <1>2. /\ task' \in [Clients -> ConfTasks] /\ task'[c] = o
        /\ \A d \in Clients \ {c} : task'[d] = task[d]
    BY DEF ConfShape
  <1>3. Tip' = Tip /\ InStore' = InStore
    BY DEF Tip, InStore
  <1>4. ConfShape'
    <2>1. hasRepo' \in BOOLEAN /\ (history' # <<>> => hasRepo')
      BY DEF ConfShape
    <2>2. history' \in Seq(ConfCommits) /\ commitIds' \in Nat
          /\ \A n \in DOMAIN history' : history'[n].id <= commitIds'
      BY DEF ConfShape
    <2> QED
      BY <1>1, <1>2, <2>1, <2>2 DEF ConfShape
  <1>5. TokensFresh'
    <2>1. /\ savedEdits' \subseteq 1..tasks' /\ folder' \subseteq savedEdits'
          /\ InStore' \subseteq savedEdits' /\ erased' \subseteq savedEdits'
      BY <1>1, <1>3, TipIs DEF TokensFresh
    <2>2. \A d \in Clients : task[d].kind = "set" => task[d].token \in 1..tasks
                                                     /\ task[d].token \notin savedEdits
      BY DEF TokensFresh
    <2>3. tasks' # tasks => tasks' \notin savedEdits /\ tasks' \in 1..tasks'
                            /\ \A d \in Clients : task[d].kind = "set" => task[d].token # tasks'
      BY <1>1, <2>2 DEF TokensFresh
    <2>4. ASSUME NEW d \in Clients, task'[d].kind = "set"
          PROVE  /\ task'[d].token \in 1..tasks' /\ task'[d].token \notin savedEdits'
                 /\ \A b \in Clients \ {d} :
                       task'[b].kind = "set" => task'[b].token # task'[d].token
      <3>1. CASE task[d].kind = "set" /\ task'[d].token = task[d].token
        <4>1. task'[d].token \in 1..tasks' /\ task'[d].token \notin savedEdits'
          BY <1>1, <2>2, <3>1
        <4>2. ASSUME NEW b \in Clients \ {d}, task'[b].kind = "set"
              PROVE  task'[b].token # task'[d].token
          <5>1. CASE task[b].kind = "set" /\ task'[b].token = task[b].token
            BY <3>1, <5>1 DEF TokensFresh
          <5>2. CASE tasks' = tasks + 1 /\ task'[b].token = tasks'
            BY <1>1, <2>3, <3>1, <5>2
          <5> QED
            BY <1>2, <4>2, <5>1, <5>2
        <4> QED
          BY <4>1, <4>2
      <3>2. CASE d = c /\ tasks' = tasks + 1 /\ task'[d].token = tasks'
        <4>1. \A b \in Clients \ {d} : task'[b] = task[b]
          BY <1>2, <3>2
        <4> QED
          BY <1>1, <2>3, <3>2, <4>1
      <3> QED
        BY <1>2, <2>4, <3>1, <3>2
    <2> QED
      BY <2>1, <2>4 DEF TokensFresh
  <1>6. SavedAtHeads' /\ ErasedIsBack'
    BY <1>3 DEF SavedAtHeads, ErasedIsBack
  <1>7. RestoresHold'
    <2> SUFFICES ASSUME NEW d \in Clients, task'[d].kind = "restore"
                 PROVE  RestoreHolds(task[d])'
      BY DEF RestoresHold
    <2>1. RestoreHolds(task'[d])
      BY <1>2 DEF RestoresHold
    <2> QED
      BY <1>3, <2>1 DEF RestoreHolds
  <1> QED
    BY <1>4, <1>5, <1>6, <1>7

\* A step in which no command to set or restore begins or changes, and what
\* is saved grows by nothing such a command is about.
LEMMA TokensStay ==
  ASSUME StoreInv, tasks' \in Nat, tasks' >= tasks,
         savedEdits \subseteq savedEdits', savedEdits' \subseteq 1..tasks',
         folder' = folder, InStore' \subseteq savedEdits', erased' \subseteq savedEdits',
         \A d \in Clients : task'[d].kind = "set" =>
            task'[d] = task[d] /\ task[d].token \notin savedEdits'
  PROVE  TokensFresh'
  <1>1. ASSUME NEW d \in Clients, task'[d].kind = "set"
        PROVE  /\ task'[d].token \in 1..tasks' /\ task'[d].token \notin savedEdits'
               /\ \A b \in Clients \ {d} :
                     task'[b].kind = "set" => task'[b].token # task'[d].token
    <2>1. task'[d] = task[d] /\ task[d].token \in 1..tasks /\ task[d].token \notin savedEdits'
      BY <1>1 DEF StoreInv, TokensFresh
    <2>2. \A b \in Clients \ {d} :
             task'[b].kind = "set" => task[b].kind = "set" /\ task'[b].token = task[b].token
      OBVIOUS
    <2>3. \A b \in Clients \ {d} : task[b].kind = "set" => task[b].token # task[d].token
      BY <1>1, <2>1 DEF StoreInv, TokensFresh
    <2>4. tasks \in Nat
      BY DEF StoreInv, ConfShape
    <2> QED
      BY <2>1, <2>2, <2>3, <2>4
  <1> QED
    BY <1>1 DEF StoreInv, TokensFresh

\* A commit on the head: what it leaves out is given up, what is erased
\* comes in by it only where there is no history.
CommitStep(edits) ==
    /\ commitIds' = commitIds + 1 /\ hasRepo' = TRUE
    /\ history' = Append(history, [id |-> commitIds + 1, edits |-> edits])
    /\ task' \in [Clients -> ConfTasks] /\ tasks' \in 0..MaxOps /\ tasks' >= tasks
    /\ UNCHANGED <<archives, folder, erased>>
    /\ savedEdits \subseteq savedEdits' /\ savedEdits' \subseteq 1..tasks'
    /\ edits \subseteq savedEdits' /\ savedEdits' \ savedEdits \subseteq edits
    /\ givenUp \subseteq givenUp' /\ Tip.edits \ edits \subseteq givenUp'
    /\ history # <<>> => edits \cap erased \subseteq Tip.edits
                         /\ (InStore \cap erased \subseteq edits)
    /\ \A d \in Clients : task'[d].kind \in {"set", "restore"} =>
          task'[d] = task[d] /\ (task[d].kind = "set" => task[d].token \notin savedEdits')

\* A commit over the head its client read.
LEMMA Committed ==
  ASSUME StoreInv, NEW edits \in SUBSET Nat, CommitStep(edits)
  PROVE  StoreInv'
  <1> USE DEF StoreInv, CommitStep
  <1>1. /\ commitIds' = commitIds + 1 /\ hasRepo' = TRUE
        /\ history' = Append(history, [id |-> commitIds + 1, edits |-> edits])
    OBVIOUS
  <1>2. /\ history' \in Seq(ConfCommits) /\ history' # <<>> /\ commitIds' \in Nat
        /\ Tip'.id = commitIds' /\ Tip'.edits = edits
        /\ InStore' = InStore \cup edits
        /\ \A n \in DOMAIN history' : \/ n \in DOMAIN history /\ history'[n] = history[n]
                                      \/ history'[n].id = commitIds' /\ history'[n].edits = edits
        /\ \A n \in DOMAIN history' : history'[n].id <= commitIds'
    BY <1>1, Appended
  <1>3. tasks \in Nat /\ tasks' \in Nat /\ commitIds \in Nat
    BY ConfigHomeAssumption DEF ConfShape
  <1>4. ConfShape'
    <2>1. hasRepo' \in BOOLEAN /\ (history' # <<>> => hasRepo')
      BY <1>1
    <2> QED
      BY <1>2, <2>1 DEF ConfShape
  <1>5. TokensFresh'
    <2>1. InStore' \subseteq savedEdits' /\ erased' \subseteq savedEdits'
      BY <1>2 DEF TokensFresh
    <2> QED
      BY <1>3, <2>1, TokensStay
  <1>6. SavedAtHeads'
    BY <1>2 DEF SavedAtHeads
  <1>7. ErasedIsBack'
    <2>1. CASE history = <<>>
      <3>1. InStore = {} /\ DOMAIN history = {}
        BY <2>1 DEF InStore, EditsOf
      <3> QED
        BY <1>2, <3>1 DEF ErasedIsBack
    <2>2. CASE history # <<>>
      <3>1. InStore' \cap erased' \subseteq InStore \cap erased
        BY <1>2, <2>2, TipIs
      <3> QED
        BY <1>2, <2>2, <3>1 DEF ErasedIsBack
    <2> QED
      BY <2>1, <2>2
  <1>8. RestoresHold'
    BY <1>1, <1>2, <1>3, HeadMoved
  <1> QED
    BY <1>4, <1>5, <1>6, <1>7, <1>8

\* A repository that is archived or deleted.
TakeStep ==
    /\ hasRepo' = FALSE /\ history' = <<>>
    /\ task' \in [Clients -> ConfTasks]
    /\ UNCHANGED <<commitIds, tasks, folder, savedEdits, erased>>
    /\ savedEdits' \ givenUp' \subseteq UNION archives'
    /\ \A d \in Clients : task'[d].kind \in {"set", "restore"} => task'[d] = task[d]

\* The repository goes away, into an archive or for good.
LEMMA TakenAway == ASSUME StoreInv, TakeStep  PROVE StoreInv'
  <1> USE DEF StoreInv, TakeStep
  <1>1. history' \in Seq(ConfCommits) /\ DOMAIN history' = {} /\ InStore' = {}
    BY EmptySeq DEF InStore, EditsOf
  <1>2. Tip'.id = 0 /\ Tip'.edits = {}
    BY DEF Tip, ZeroCommit
  <1>3. ConfShape'
    BY <1>1 DEF ConfShape
  <1>4. tasks \in Nat /\ commitIds \in Nat
    BY ConfigHomeAssumption DEF ConfShape
  <1>5. TokensFresh'
    <2>1. \A d \in Clients : task'[d].kind = "set" =>
             task'[d] = task[d] /\ task[d].token \notin savedEdits'
      BY DEF TokensFresh
    <2> QED
      BY <1>1, <1>4, <2>1, TokensStay DEF TokensFresh
  <1>6. SavedAtHeads' /\ ErasedIsBack'
    BY <1>1 DEF SavedAtHeads, ErasedIsBack
  <1>7. RestoresHold'
    BY <1>2, <1>4, HeadMoved
  <1> QED
    BY <1>3, <1>5, <1>6, <1>7

\* The commands clients are in.
LEMMA TaskIs ==
  ASSUME NEW kind, NEW step
  PROVE  Task(kind, step) = [kind |-> kind, pc |-> step, base |-> ZeroCommit, edits |-> {},
                             token |-> 0, tries |-> 0]
  <1> DEFINE fields == {"kind", "pc", "base", "edits", "token", "tries"}
             t == [kind |-> kind, pc |-> step, base |-> ZeroCommit, edits |-> {},
                   token |-> 0, tries |-> 0]
  <1>1. DOMAIN NoTask = fields
    BY DEF NoTask
  <1>2. Task(kind, step) = [x \in fields |-> IF x = "pc" THEN step
                                             ELSE IF x = "kind" THEN kind ELSE NoTask[x]]
    BY <1>1 DEF Task
  <1>3. t = [x \in fields |-> IF x = "pc" THEN step
                              ELSE IF x = "kind" THEN kind ELSE NoTask[x]]
    BY DEF NoTask
  <1> QED
    BY <1>2, <1>3

Kinds == {"none", "set", "restore", "purge", "claim", "move", "deploy", "folderDeploy", "remove"}
Steps == {"-", "ref", "write", "old", "run", "go", "mark", "archive", "unmark", "wipe", "done"}

\* The tasks a step can give a client.
LEMMA TasksTyped ==
  /\ ZeroCommit \in [id : Nat, edits : SUBSET Nat]
  /\ NoTask \in ConfTasks /\ NoTask.kind = "none" /\ NoTask.pc = "-"
  /\ \A kind \in Kinds, step \in Steps :
        Task(kind, step) \in ConfTasks /\ Task(kind, step).kind = kind /\ Task(kind, step).pc = step
  <1>1. ZeroCommit \in [id : Nat, edits : SUBSET Nat]
    BY DEF ZeroCommit
  <1>2. 0 \in 0..MaxTries
    BY ConfigHomeAssumption
  <1>3. NoTask \in ConfTasks /\ NoTask.kind = "none" /\ NoTask.pc = "-"
    BY <1>1, <1>2 DEF NoTask, ConfTasks
  <1>4. ASSUME NEW kind \in Kinds, NEW step \in Steps
        PROVE  /\ Task(kind, step) \in ConfTasks
               /\ Task(kind, step).kind = kind /\ Task(kind, step).pc = step
    <2> DEFINE t == [kind |-> kind, pc |-> step, base |-> ZeroCommit, edits |-> {},
                     token |-> 0, tries |-> 0]
    <2>1. t \in ConfTasks /\ t.kind = kind /\ t.pc = step
      BY <1>1, <1>2 DEF ConfTasks, Kinds, Steps
    <2>2. Task(kind, step) = t
      BY TaskIs
    <2> HIDE DEF t
    <2> QED
      BY <2>1, <2>2
  <1> QED
    BY <1>1, <1>3, <1>4

\* A command that is no edit and no restore starts.
LEMMA Starting ==
  ASSUME StoreInv, NEW c \in Clients, NEW kind \in Kinds \ {"set", "restore"}, NEW step \in Steps,
         Starts(c, Task(kind, step)), StoreRests, folder' \in {folder, Tip.edits}
  PROVE  StoreInv'
  <1> DEFINE o == Task(kind, step)
  <1>1. o \in ConfTasks /\ o.kind = kind
    BY TasksTyped
  <1>2. task' = [task EXCEPT ![c] = o] /\ tasks' = tasks + 1 /\ tasks < MaxOps
    BY DEF Starts
  <1> HIDE DEF o
  <1>3. QuietStep(c, o)
    BY <1>1, <1>2 DEF QuietStep
  <1> QED
    BY <1>1, <1>3, Quiet

\* A command ends.
LEMMA Stopping ==
  ASSUME StoreInv, NEW c \in Clients, Stops(c), StoreRests, folder' = folder
  PROVE  StoreInv'
  <1>1. NoTask \in ConfTasks /\ NoTask.kind = "none"
    BY TasksTyped
  <1>2. task' = [task EXCEPT ![c] = NoTask] /\ tasks' = tasks
    BY DEF Stops, Goes
  <1>3. QuietStep(c, NoTask)
    BY <1>1, <1>2 DEF QuietStep
  <1> QED
    BY <1>1, <1>3, Quiet

\* An edit of a key, up to its commit.
LEMMA SetReads ==
  ASSUME StoreInv, NEW c \in Clients, StartSet(c) \/ ReadRef(c) \/ SetConflicts(c)
  PROVE  StoreInv'
  <1> USE DEF StoreInv
  <1>1. StoreRests /\ folder' = folder
    BY DEF StartSet, ReadRef, SetConflicts, OnlyReads, OffLock, StoreRests
  <1>2. task[c] \in ConfTasks /\ tasks \in Nat /\ Tip \in [id : Nat, edits : SUBSET Nat]
    BY TipIs, ConfigHomeAssumption DEF ConfShape
  <1>3. CASE StartSet(c)
    <2> DEFINE o == [Task("set", "ref") EXCEPT !.token = tasks + 1]
    <2>1. Task("set", "ref") \in ConfTasks /\ Task("set", "ref").kind = "set"
      BY TasksTyped DEF Kinds, Steps
    <2>2. o \in ConfTasks /\ o.kind = "set" /\ o.token = tasks + 1
      BY <1>2, <2>1 DEF ConfTasks
    <2>3. task' = [task EXCEPT ![c] = o] /\ tasks' = tasks + 1 /\ tasks < MaxOps
      BY <1>3 DEF StartSet, Starts
    <2> HIDE DEF o
    <2>4. QuietStep(c, o)
      BY <1>1, <2>2, <2>3 DEF QuietStep
    <2> QED
      BY <2>2, <2>4, Quiet
  <1>4. CASE ReadRef(c)
    <2> DEFINE o == [task[c] EXCEPT !.pc = "write", !.base = Tip]
    <2>1. o \in ConfTasks /\ o.kind = task[c].kind /\ o.token = task[c].token
      BY <1>2 DEF ConfTasks
    <2>2. /\ task' = [task EXCEPT ![c] = o] /\ tasks' = tasks /\ task[c].kind = "set"
      BY <1>4 DEF ReadRef, Goes
    <2> HIDE DEF o
    <2>3. QuietStep(c, o)
      BY <1>1, <2>1, <2>2 DEF QuietStep
    <2> QED
      BY <2>1, <2>3, Quiet
  <1>5. CASE SetConflicts(c) /\ ~Stops(c)
    <2> DEFINE o == [task[c] EXCEPT !.pc = "ref", !.base = ZeroCommit, !.tries = @ + 1]
    <2>1. /\ task' = [task EXCEPT ![c] = o] /\ tasks' = tasks /\ task[c].kind = "set"
          /\ task[c].tries < MaxTries
      BY <1>5 DEF SetConflicts, Goes
    <2>2. o \in ConfTasks /\ o.kind = task[c].kind /\ o.token = task[c].token
      <3>1. task[c].tries + 1 \in 0..MaxTries
        <4>1. task[c].tries \in 0..MaxTries /\ MaxTries \in Nat
          BY <1>2, ConfigHomeAssumption DEF ConfTasks
        <4> QED
          BY <2>1, <4>1
      <3> QED
        BY <1>2, <3>1, TasksTyped DEF ConfTasks
    <2> HIDE DEF o
    <2>3. QuietStep(c, o)
      BY <1>1, <2>1, <2>2 DEF QuietStep
    <2> QED
      BY <2>2, <2>3, Quiet
  <1> QED
    BY <1>1, <1>3, <1>4, <1>5, Stopping

\* A restore or a purge, up to its commit.
LEMMA RewriteReads ==
  ASSUME StoreInv, NEW c \in Clients,
         StartRestore(c) \/ ReadOld(c) \/ StartPurge(c) \/ GivesUp(c)
  PROVE  StoreInv'
  <1> USE DEF StoreInv
  <1>1. StoreRests /\ folder' = folder
    BY DEF StartRestore, ReadOld, StartPurge, GivesUp, OnlyReads, OffLock, StoreRests
  <1>2. task[c] \in ConfTasks /\ tasks \in Nat /\ Tip \in [id : Nat, edits : SUBSET Nat]
    BY TipIs, ConfigHomeAssumption DEF ConfShape
  <1>3. CASE StartRestore(c)
    <2> DEFINE o == [Task("restore", "old") EXCEPT !.base = Tip]
    <2>1. Task("restore", "old") \in ConfTasks /\ Task("restore", "old").kind = "restore"
          /\ Task("restore", "old").pc = "old"
      BY TasksTyped DEF Kinds, Steps
    <2>2. o \in ConfTasks /\ o.kind = "restore" /\ o.pc = "old" /\ o.base = Tip
      BY <1>2, <2>1 DEF ConfTasks
    <2>3. task' = [task EXCEPT ![c] = o] /\ tasks' = tasks + 1 /\ tasks < MaxOps
          /\ history # <<>>
      BY <1>3 DEF StartRestore, Starts
    <2> HIDE DEF o
    <2>4. RestoreHolds(o)
      BY <2>2, <2>3, TipIs DEF RestoreHolds
    <2>5. QuietStep(c, o)
      BY <1>1, <2>2, <2>3, <2>4 DEF QuietStep
    <2> QED
      BY <2>2, <2>5, Quiet
  <1>4. CASE ReadOld(c)
    <2>1. PICK n \in DOMAIN history :
             task' = [task EXCEPT ![c] = [task[c] EXCEPT !.pc = "write", !.edits = history[n].edits]]
      BY <1>4 DEF ReadOld, Goes
    <2> DEFINE o == [task[c] EXCEPT !.pc = "write", !.edits = history[n].edits]
    <2>2. /\ task' = [task EXCEPT ![c] = o] /\ tasks' = tasks /\ task[c].kind = "restore"
      BY <1>4, <2>1 DEF ReadOld, Goes
    <2>3. history[n].edits \in SUBSET Nat
      BY TipIs DEF ConfCommits
    <2>4. o \in ConfTasks /\ o.kind = "restore" /\ o.base = task[c].base
          /\ o.edits = history[n].edits
      BY <1>2, <2>2, <2>3 DEF ConfTasks
    <2> HIDE DEF o
    <2>5. RestoreHolds(o)
      BY <2>2, <2>4 DEF RestoreHolds, RestoresHold
    <2>6. QuietStep(c, o)
      BY <1>1, <2>2, <2>4, <2>5 DEF QuietStep
    <2> QED
      BY <2>4, <2>6, Quiet
  <1>5. CASE StartPurge(c)
    <2> DEFINE o == [Task("purge", "run") EXCEPT !.base = Tip]
    <2>1. Task("purge", "run") \in ConfTasks /\ Task("purge", "run").kind = "purge"
      BY TasksTyped DEF Kinds, Steps
    <2>2. o \in ConfTasks /\ o.kind = "purge"
      BY <1>2, <2>1 DEF ConfTasks
    <2>3. task' = [task EXCEPT ![c] = o] /\ tasks' = tasks + 1 /\ tasks < MaxOps
      BY <1>5 DEF StartPurge, Starts
    <2> HIDE DEF o
    <2>4. QuietStep(c, o)
      BY <1>1, <2>2, <2>3 DEF QuietStep
    <2> QED
      BY <2>2, <2>4, Quiet
  <1>6. CASE GivesUp(c)
    <2>1. Stops(c)
      BY <1>6 DEF GivesUp
    <2> QED
      BY <1>1, <2>1, Stopping
  <1> QED
    BY <1>3, <1>4, <1>5, <1>6

\* What ends or goes on of one client's command leaves the others'.
LEMMA Moved ==
  ASSUME StoreInv, NEW c \in Clients, NEW o \in ConfTasks, o.kind \notin {"set", "restore"},
         task' = [task EXCEPT ![c] = o]
  PROVE  /\ task' \in [Clients -> ConfTasks]
         /\ \A d \in Clients : task'[d].kind \in {"set", "restore"} =>
               d # c /\ task'[d] = task[d]
  BY DEF StoreInv, ConfShape

\* A key edit commits over the head it read.
LEMMA SetKeeps == ASSUME StoreInv, NEW c \in Clients, SetCommits(c)  PROVE StoreInv'
  <1> USE DEF StoreInv
  <1> DEFINE tok == task[c].token
             edits == Tip.edits \cup {tok}
  <1>1. /\ task[c].kind = "set" /\ commitIds' = commitIds + 1 /\ hasRepo' = TRUE
        /\ history' = Append(history, [id |-> commitIds + 1, edits |-> edits])
        /\ savedEdits' = savedEdits \cup {tok}
        /\ task' = [task EXCEPT ![c] = NoTask] /\ tasks' = tasks
        /\ UNCHANGED <<archives, folder, erased, givenUp>>
    BY DEF SetCommits, HelperWrites, AtTip, Stops, Goes, OffLock
  <1>2. /\ task' \in [Clients -> ConfTasks]
        /\ \A d \in Clients : task'[d].kind \in {"set", "restore"} =>
              d # c /\ task'[d] = task[d]
    BY <1>1, TasksTyped, Moved
  <1>3. tasks \in Nat /\ tasks' \in 0..MaxOps /\ Tip.edits \subseteq InStore
        /\ Tip.edits \subseteq Nat
    BY <1>1, TipIs, ConfigHomeAssumption DEF ConfShape
  <1>4. /\ tok \in 1..tasks /\ tok \notin savedEdits
        /\ \A d \in Clients \ {c} : task[d].kind = "set" => task[d].token # tok
        /\ \A d \in Clients : task[d].kind = "set" => task[d].token \notin savedEdits
        /\ savedEdits \subseteq 1..tasks /\ InStore \subseteq savedEdits
        /\ erased \subseteq savedEdits
    BY <1>1 DEF TokensFresh
  <1>5. history # <<>> => InStore \cap erased \subseteq Tip.edits
    BY TipIs DEF ErasedIsBack
  <1>6. \A d \in Clients : task'[d].kind \in {"set", "restore"} =>
           task'[d] = task[d] /\ (task[d].kind = "set" => task[d].token \notin savedEdits')
    BY <1>1, <1>2, <1>4
  <1>7. edits \in SUBSET Nat
    BY <1>3, <1>4
  <1>8. /\ savedEdits' \subseteq 1..tasks' /\ edits \subseteq savedEdits'
        /\ Tip.edits \ edits = {} /\ edits \cap erased \subseteq Tip.edits
        /\ savedEdits' \ savedEdits \subseteq edits
    BY <1>1, <1>3, <1>4
  <1>9. history # <<>> => InStore \cap erased \subseteq edits
    BY <1>5
  <1> HIDE DEF edits
  <1>10. CommitStep(edits)
    <2>1. tasks' >= tasks
      BY <1>1, <1>3
    <2> QED
      BY <1>1, <1>2, <1>3, <1>6, <1>8, <1>9, <2>1 DEF CommitStep
  <1> QED
    BY <1>7, <1>10, Committed

\* The first config, from a file.
LEMMA CreateKeeps == ASSUME StoreInv, NEW c \in Clients, CreateFromFile(c)  PROVE StoreInv'
  <1> USE DEF StoreInv
  <1> DEFINE tok == tasks + 1
             edits == {tok}
  <1>1. /\ tasks < MaxOps /\ tasks' = tok /\ Tip = ZeroCommit
        /\ commitIds' = commitIds + 1 /\ hasRepo' = TRUE
        /\ history' = Append(history, [id |-> commitIds + 1, edits |-> edits])
        /\ savedEdits' = savedEdits \cup {tok}
        /\ UNCHANGED <<task, archives, folder, erased, givenUp>>
    BY DEF CreateFromFile, HelperWrites, AtTip, OffLock
  <1>2. history = <<>> /\ Tip.edits = {}
    BY <1>1, TipIs DEF ZeroCommit
  <1>3. tasks \in Nat /\ tasks' \in 0..MaxOps /\ tasks' >= tasks
    BY <1>1, ConfigHomeAssumption DEF ConfShape
  <1>4. /\ \A d \in Clients : task[d].kind = "set" => task[d].token \in 1..tasks
                                                      /\ task[d].token \notin savedEdits
        /\ savedEdits \subseteq 1..tasks
    BY DEF TokensFresh
  <1>5. \A d \in Clients : task[d].kind = "set" => task[d].token \notin savedEdits'
    BY <1>1, <1>3, <1>4
  <1>6. /\ savedEdits' \subseteq 1..tasks' /\ edits \subseteq savedEdits' /\ edits \in SUBSET Nat
        /\ savedEdits' \ savedEdits \subseteq edits
    <2>1. tok \in 1..tasks' /\ tok \in Nat /\ 1..tasks \subseteq 1..tasks'
      BY <1>1, <1>3
    <2>2. edits \subseteq savedEdits' /\ savedEdits' \ savedEdits \subseteq edits
      BY <1>1
    <2> QED
      BY <1>1, <1>4, <2>1, <2>2
  <1>7. task' \in [Clients -> ConfTasks]
    BY <1>1 DEF ConfShape
  <1> HIDE DEF edits
  <1>8. CommitStep(edits)
    BY <1>1, <1>2, <1>3, <1>5, <1>6, <1>7 DEF CommitStep
  <1> QED
    BY <1>6, <1>8, Committed

\* A restore commits an older config of the history its head stands for.
LEMMA RestoreKeeps == ASSUME StoreInv, NEW c \in Clients, RestoreCommits(c)  PROVE StoreInv'
  <1> USE DEF StoreInv
  <1> DEFINE edits == task[c].edits
  <1>1. /\ task[c].kind = "restore" /\ task[c].pc = "write" /\ task[c].base = Tip
        /\ commitIds' = commitIds + 1 /\ hasRepo' = TRUE
        /\ history' = Append(history, [id |-> commitIds + 1, edits |-> edits])
        /\ givenUp' = givenUp \cup (Tip.edits \ edits)
        /\ task' = [task EXCEPT ![c] = NoTask] /\ tasks' = tasks
        /\ UNCHANGED <<archives, folder, erased, savedEdits>>
    BY DEF RestoreCommits, HelperWrites, AtTip, Stops, Goes, OffLock
  <1>2. PICK n \in DOMAIN history : edits = history[n].edits
    BY <1>1 DEF RestoresHold, RestoreHolds
  <1>3. /\ task' \in [Clients -> ConfTasks]
        /\ \A d \in Clients : task'[d].kind \in {"set", "restore"} =>
              d # c /\ task'[d] = task[d]
    BY <1>1, TasksTyped, Moved
  <1>4. /\ tasks \in Nat /\ tasks' \in 0..MaxOps /\ tasks' >= tasks
        /\ edits \in SUBSET Nat /\ edits \subseteq InStore
    BY <1>1, <1>2, TipIs, ConfigHomeAssumption DEF ConfShape, ConfCommits
  <1>5. /\ InStore \cap erased \subseteq edits
        /\ history # <<>> => InStore \cap erased \subseteq Tip.edits
    BY <1>2, TipIs DEF ErasedIsBack
  <1>6. /\ savedEdits \subseteq 1..tasks /\ InStore \subseteq savedEdits
        /\ \A d \in Clients : task[d].kind = "set" => task[d].token \notin savedEdits
    BY DEF TokensFresh
  <1> HIDE DEF edits
  <1>7. CommitStep(edits)
    BY <1>1, <1>3, <1>4, <1>5, <1>6 DEF CommitStep
  <1> QED
    BY <1>4, <1>7, Committed

\* The claim of the home writes the folder's config where there is none.
LEMMA ClaimKeeps == ASSUME StoreInv, NEW c \in Clients, ClaimHome(c)  PROVE StoreInv'
  <1> USE DEF StoreInv
  <1> DEFINE o == [task[c] EXCEPT !.pc = "mark"]
  <1>1. /\ task[c].kind = "claim" /\ Tip = ZeroCommit
        /\ commitIds' = commitIds + 1 /\ hasRepo' = TRUE
        /\ history' = Append(history, [id |-> commitIds + 1, edits |-> folder])
        /\ savedEdits' = savedEdits \cup folder
        /\ task' = [task EXCEPT ![c] = o] /\ tasks' = tasks
        /\ UNCHANGED <<archives, folder, erased, givenUp>>
    BY DEF ClaimHome, HelperWrites, AtTip, Goes
  <1>2. history = <<>> /\ Tip.edits = {}
    BY <1>1, TipIs DEF ZeroCommit
  <1>3. o \in ConfTasks /\ o.kind = "claim"
    BY <1>1 DEF ConfShape, ConfTasks
  <1> HIDE DEF o
  <1>4. /\ task' \in [Clients -> ConfTasks]
        /\ \A d \in Clients : task'[d].kind \in {"set", "restore"} =>
              d # c /\ task'[d] = task[d]
    BY <1>1, <1>3, Moved
  <1>5. /\ savedEdits \subseteq 1..tasks /\ folder \subseteq savedEdits
        /\ \A d \in Clients : task[d].kind = "set" => task[d].token \notin savedEdits
    BY DEF TokensFresh
  <1>6. tasks \in Nat /\ tasks' \in 0..MaxOps /\ tasks' >= tasks /\ folder \in SUBSET Nat
    BY <1>1, <1>5, ConfigHomeAssumption DEF ConfShape
  <1>7. savedEdits' = savedEdits
    BY <1>1, <1>5
  <1>8. CommitStep(folder)
    BY <1>1, <1>2, <1>4, <1>5, <1>6, <1>7 DEF CommitStep
  <1> QED
    BY <1>6, <1>8, Committed

\* The purge: one commit in the place of the history, or, cut off, after it.
LEMMA PurgeKeeps == ASSUME StoreInv, NEW c \in Clients, PurgeHistory(c)  PROVE StoreInv'
  <1> USE DEF StoreInv
  <1> DEFINE new == [id |-> commitIds + 1, edits |-> Tip.edits]
  <1>1. /\ task[c].kind = "purge" /\ hasRepo /\ hasRepo' = hasRepo
        /\ commitIds' = commitIds + 1
        /\ task' = [task EXCEPT ![c] = NoTask] /\ tasks' = tasks
        /\ UNCHANGED <<archives, folder, savedEdits, givenUp>>
    BY DEF PurgeHistory, Stops, Goes, OffLock
  <1>2. /\ task' \in [Clients -> ConfTasks]
        /\ \A d \in Clients : task'[d].kind \in {"set", "restore"} =>
              d # c /\ task'[d] = task[d]
    BY <1>1, TasksTyped, Moved
  <1>3. /\ tasks \in Nat /\ tasks' \in 0..MaxOps /\ tasks' >= tasks
        /\ Tip.edits \subseteq InStore /\ Tip.edits \in SUBSET Nat
        /\ commitIds \in Nat
    BY <1>1, TipIs, ConfigHomeAssumption DEF ConfShape
  <1>4. /\ savedEdits \subseteq 1..tasks /\ InStore \subseteq savedEdits
        /\ erased \subseteq savedEdits
        /\ \A d \in Clients : task[d].kind = "set" => task[d].token \notin savedEdits
    BY DEF TokensFresh
  <1>5. CASE history' = Append(history, new) /\ erased' = erased
    <2>1. history # <<>> => InStore \cap erased \subseteq Tip.edits
      BY TipIs DEF ErasedIsBack
    <2>2. CommitStep(Tip.edits)
      BY <1>1, <1>2, <1>3, <1>4, <1>5, <2>1 DEF CommitStep
    <2> QED
      BY <1>3, <2>2, Committed
  <1>6. CASE history' = <<new>> /\ erased' = erased \cup (InStore \ Tip.edits)
    <2>1. new \in ConfCommits /\ new.id = commitIds' /\ new.edits = Tip.edits
      BY <1>1, <1>3 DEF ConfCommits
    <2> HIDE DEF new
    <2>2. /\ history' \in Seq(ConfCommits) /\ history' # <<>> /\ Len(history') = 1
          /\ DOMAIN history' = {1} /\ history'[1] = new
      BY <1>6, <2>1
    <2>3. Tip' = new
      BY <2>2 DEF Tip, Last
    <2>4. InStore' = Tip.edits
      BY <2>1, <2>2 DEF InStore, EditsOf
    <2>5. ConfShape'
      <3>1. hasRepo' \in BOOLEAN /\ hasRepo'
        BY <1>1 DEF ConfShape
      <3>2. commitIds' \in Nat /\ \A n \in DOMAIN history' : history'[n].id <= commitIds'
        BY <1>1, <1>3, <2>1, <2>2
      <3> QED
        BY <1>2, <1>3, <2>2, <3>1, <3>2 DEF ConfShape
    <2>6. TokensFresh'
      <3>1. InStore' \subseteq savedEdits' /\ erased' \subseteq savedEdits'
        BY <1>1, <1>3, <1>4, <1>6, <2>4
      <3>2. \A d \in Clients : task'[d].kind = "set" =>
               task'[d] = task[d] /\ task[d].token \notin savedEdits'
        BY <1>1, <1>2, <1>4
      <3> QED
        BY <1>1, <1>3, <1>4, <3>1, <3>2, TokensStay
    <2>7. SavedAtHeads'
      BY <1>1, <2>1, <2>3 DEF SavedAtHeads
    <2>8. ErasedIsBack'
      BY <2>1, <2>2, <2>4 DEF ErasedIsBack
    <2>9. RestoresHold'
      <3>1. Tip'.id > commitIds /\ commitIds' >= commitIds /\ commitIds' \in Nat
        BY <1>1, <1>3, <2>1, <2>3
      <3> QED
        BY <1>2, <3>1, HeadMoved
    <2> QED
      BY <2>5, <2>6, <2>7, <2>8, <2>9
  <1> QED
    BY <1>5, <1>6 DEF PurgeHistory, InStore

\* The repository goes to the archive, or with the app's data.
LEMMA TakesKeep ==
  ASSUME StoreInv, NEW c \in Clients, ArchiveRepo(c) \/ WipeRepo(c)
  PROVE  StoreInv'
  <1> USE DEF StoreInv
  <1>1. PICK step \in {"unmark", "done"} :
          /\ task' = [task EXCEPT ![c] = [task[c] EXCEPT !.pc = step]]
          /\ task[c].kind \in {"move", "remove"}
    BY DEF ArchiveRepo, WipeRepo, Goes
  <1> DEFINE o == [task[c] EXCEPT !.pc = step]
  <1>2. o \in ConfTasks /\ o.kind = task[c].kind
    BY <1>1 DEF ConfShape, ConfTasks
  <1>3. task' = [task EXCEPT ![c] = o]
    BY <1>1
  <1> HIDE DEF o
  <1>4. /\ task' \in [Clients -> ConfTasks]
        /\ \A d \in Clients : task'[d].kind \in {"set", "restore"} =>
              d # c /\ task'[d] = task[d]
    BY <1>1, <1>2, <1>3, Moved
  <1>5. savedEdits' \ givenUp' \subseteq UNION archives'
    <2>1. CASE ArchiveRepo(c) /\ hasRepo
      <3>1. archives' = archives \cup {Tip.edits} /\ savedEdits' = savedEdits
            /\ givenUp' = givenUp
        BY <2>1 DEF ArchiveRepo, HomeKept
      <3> QED
        BY <3>1 DEF SavedAtHeads
    <2>2. CASE ArchiveRepo(c) /\ ~hasRepo
      <3>1. archives' = archives /\ savedEdits' = savedEdits /\ givenUp' = givenUp
        BY <2>2 DEF ArchiveRepo, HomeKept
      <3>2. Tip.edits = {}
        BY <2>2, TipIs DEF ConfShape
      <3> QED
        BY <3>1, <3>2 DEF SavedAtHeads
    <2>3. CASE WipeRepo(c)
      BY <2>3 DEF WipeRepo
    <2> QED
      BY <2>1, <2>2, <2>3
  <1>6. TakeStep
    BY <1>4, <1>5 DEF TakeStep, ArchiveRepo, WipeRepo, HomeKept, Goes
  <1> QED
    BY <1>6, TakenAway

\* The commands of the home, of the deploys and of the removals, for the rest.
LEMMA OperatorsKeep ==
  ASSUME StoreInv, NEW c \in Clients,
         \/ StartClaim(c) \/ StartDeploy(c) \/ StartFolderDeploy(c) \/ StartMove(c)
         \/ StartRemove(c) \/ StartPurgingRemove(c)
         \/ MarkHome(c) \/ ClaimRefused(c) \/ UnmarkHome(c) \/ DeployCommits(c)
         \/ FinishRemove(c) \/ ClientDies(c)
  PROVE  StoreInv'
  <1>1. CASE StartClaim(c) \/ StartDeploy(c) \/ StartFolderDeploy(c)
    <2>1. PICK kind \in {"claim", "deploy", "folderDeploy"} : CheckGate(c, kind)
      BY <1>1 DEF StartClaim, StartDeploy, StartFolderDeploy
    <2>2. Starts(c, Task(kind, "go")) /\ StoreRests /\ folder' = folder
      BY <2>1 DEF CheckGate, StartLocked, HomeKept, StoreRests
    <2>3. kind \in Kinds \ {"set", "restore"} /\ "go" \in Steps
      BY DEF Kinds, Steps
    <2> QED
      BY <2>2, <2>3, Starting
  <1>2. CASE StartMove(c)
    <2>1. PICK step \in {"archive", "unmark"} : Starts(c, Task("move", step))
      BY <1>2 DEF StartMove, StartLocked
    <2>2. StoreRests /\ folder' \in {folder, Tip.edits}
      BY <1>2 DEF StartMove, HomeKept, StoreRests
    <2>3. "move" \in Kinds \ {"set", "restore"} /\ step \in Steps
      BY DEF Kinds, Steps
    <2> QED
      BY <2>1, <2>2, <2>3, Starting
  <1>3. CASE StartRemove(c) \/ StartPurgingRemove(c)
    <2>1. PICK step \in {"done", "wipe"} : Starts(c, Task("remove", step))
      BY <1>3 DEF StartRemove, StartPurgingRemove, StartLocked
    <2>2. StoreRests /\ folder' = folder
      BY <1>3 DEF StartRemove, StartPurgingRemove, HomeKept, StoreRests
    <2>3. "remove" \in Kinds \ {"set", "restore"} /\ step \in Steps
      BY DEF Kinds, Steps
    <2> QED
      BY <2>1, <2>2, <2>3, Starting
  <1>4. CASE \/ MarkHome(c) \/ ClaimRefused(c) \/ UnmarkHome(c) \/ DeployCommits(c)
             \/ FinishRemove(c) \/ ClientDies(c)
    <2>1. Stops(c) /\ folder' = folder
      BY <1>4 DEF MarkHome, ClaimRefused, UnmarkHome, DeployCommits, FinishRemove, ClientDies,
                  LetsGo
    <2>2. StoreRests
      BY <1>4 DEF MarkHome, ClaimRefused, UnmarkHome, DeployCommits, FinishRemove, ClientDies,
                  HomeKept, StoreRests
    <2> QED
      BY <2>1, <2>2, Stopping
  <1> QED
    BY <1>1, <1>2, <1>3, <1>4

\* Nothing is in the repository at the start.
LEMMA StoreStarts == ConfInit => StoreInv
  <1> SUFFICES ASSUME ConfInit
               PROVE  StoreInv
    OBVIOUS
  <1>1. /\ history = <<>> /\ history \in Seq(ConfCommits) /\ DOMAIN history = {}
        /\ InStore = {} /\ Tip.edits = {}
    BY EmptySeq DEF ConfInit, InStore, EditsOf, Tip, ZeroCommit
  <1>2. \A c \in Clients : task[c].kind = "none"
    BY TasksTyped DEF ConfInit
  <1>3. ConfShape
    <2>1. task \in [Clients -> ConfTasks] /\ tasks \in 0..MaxOps /\ commitIds \in Nat
      BY TasksTyped, ConfigHomeAssumption DEF ConfInit
    <2>2. hasRepo \in BOOLEAN
      BY DEF ConfInit
    <2> QED
      BY <1>1, <2>1, <2>2 DEF ConfShape
  <1>4. TokensFresh
    BY <1>1, <1>2 DEF TokensFresh, ConfInit
  <1> QED
    BY <1>1, <1>2, <1>3, <1>4
       DEF StoreInv, SavedAtHeads, ErasedIsBack, RestoresHold, ConfInit

\* Every step of a client keeps the repository's part.
LEMMA StoreStep == StoreInv /\ [ConfNext]_confVars => StoreInv'
  <1> SUFFICES ASSUME StoreInv, [ConfNext]_confVars
               PROVE  StoreInv'
    OBVIOUS
  <1>1. CASE UNCHANGED confVars
    BY <1>1 DEF confVars, StoreInv, ConfShape, TokensFresh, InStore, SavedAtHeads, Tip,
                ErasedIsBack, RestoresHold, RestoreHolds
  <1>2. ASSUME NEW c \in Clients, EditConfig(c)
        PROVE  StoreInv'
    BY <1>2, SetReads, SetKeeps, CreateKeeps DEF EditConfig
  <1>3. ASSUME NEW c \in Clients, RewriteConfig(c)
        PROVE  StoreInv'
    BY <1>3, RewriteReads, RestoreKeeps, PurgeKeeps DEF RewriteConfig
  <1>4. ASSUME NEW c \in Clients, Rehome(c)
        PROVE  StoreInv'
    BY <1>4, OperatorsKeep, ClaimKeeps, TakesKeep DEF Rehome
  <1>5. ASSUME NEW c \in Clients, OperateApp(c)
        PROVE  StoreInv'
    BY <1>5, OperatorsKeep, TakesKeep DEF OperateApp
  <1>6. ASSUME NEW c \in Clients, ClientDies(c)
        PROVE  StoreInv'
    BY <1>6, OperatorsKeep
  <1> QED
    BY <1>1, <1>2, <1>3, <1>4, <1>5, <1>6 DEF ConfNext

\* What the commits of config.git keep to, for all that edits, restores,
\* purges, claims, moves and removals do to each other (confighome/store.go).
THEOREM StoreInvariant == ConfSpec => []StoreInv
  BY StoreStarts, StoreStep, PTL DEF ConfSpec

\* An edit answered as saved stays where the app's config is, unless an
\* operator gave it up (the helper's compare-and-swap, runConfigHomeFolder).
THEOREM SavedEditsKept == ConfSpec => []AckedKept
  <1>1. StoreInv => AckedKept
    BY DEF StoreInv, SavedAtHeads, AckedKept
  <1> QED
    BY <1>1, StoreInvariant, PTL

\* What a purge answered as gone comes back only by a claim of a folder that
\* still has it (PurgeHistory, runConfigRestore).
THEOREM ErasedStaysOut == ConfSpec => PurgeHolds
  <1>1. StoreInv /\ [ConfNext]_confVars =>
          [(Tip.edits' \ Tip.edits) \cap erased # {} =>
              \E c \in Clients : task[c].kind = "claim"]_confVars
    <2> SUFFICES ASSUME StoreInv, NEW c \in Clients,
                        \/ EditConfig(c) \/ RewriteConfig(c) \/ Rehome(c) \/ OperateApp(c)
                        \/ ClientDies(c),
                        \A d \in Clients : task[d].kind # "claim"
                 PROVE  (Tip.edits' \ Tip.edits) \cap erased = {}
      BY DEF ConfNext
    <2>1. CASE history' = history
      BY <2>1 DEF Tip
    <2>2. CASE SetCommits(c)
      <3>1. /\ task[c].kind = "set" /\ task[c].base = Tip
            /\ history' = Append(history, [id |-> commitIds + 1,
                                           edits |-> Tip.edits \cup {task[c].token}])
            /\ commitIds' = commitIds + 1
        BY <2>2 DEF SetCommits, HelperWrites, AtTip
      <3>2. task[c].token \notin erased /\ task[c].token \in Nat /\ Tip.edits \subseteq Nat
        BY <3>1, TipIs DEF StoreInv, TokensFresh, ConfShape, ConfTasks
      <3>3. Tip'.edits = Tip.edits \cup {task[c].token}
        BY <3>1, <3>2, Appended DEF StoreInv
      <3> QED
        BY <3>2, <3>3
    <2>3. CASE CreateFromFile(c)
      <3>1. /\ history' = Append(history, [id |-> commitIds + 1, edits |-> {tasks + 1}])
            /\ commitIds' = commitIds + 1
        BY <2>3 DEF CreateFromFile, HelperWrites
      <3>2. tasks \in Nat
        BY ConfigHomeAssumption DEF StoreInv, ConfShape
      <3>3. tasks + 1 \notin erased
        BY <3>2 DEF StoreInv, TokensFresh
      <3>4. Tip'.edits = {tasks + 1}
        BY <3>1, <3>2, Appended DEF StoreInv
      <3> QED
        BY <3>3, <3>4
    <2>4. CASE RestoreCommits(c)
      <3>1. /\ task[c].kind = "restore" /\ task[c].pc = "write" /\ task[c].base = Tip
            /\ history' = Append(history, [id |-> commitIds + 1, edits |-> task[c].edits])
            /\ commitIds' = commitIds + 1
        BY <2>4 DEF RestoreCommits, HelperWrites, AtTip
      <3>2. PICK n \in DOMAIN history : task[c].edits = history[n].edits
        BY <3>1 DEF StoreInv, RestoresHold, RestoreHolds
      <3>3. task[c].edits \in SUBSET Nat /\ task[c].edits \subseteq InStore /\ history # <<>>
        BY <3>2, TipIs DEF StoreInv, ConfCommits
      <3>4. InStore \cap erased \subseteq Tip.edits
        BY <3>3, TipIs DEF StoreInv, ErasedIsBack
      <3>5. Tip'.edits = task[c].edits
        BY <3>1, <3>3, Appended DEF StoreInv
      <3> QED
        BY <3>3, <3>4, <3>5
    <2>5. CASE PurgeHistory(c)
      <3> DEFINE new == [id |-> commitIds + 1, edits |-> Tip.edits]
      <3>1. history' = <<new>> \/ history' = Append(history, new)
        BY <2>5 DEF PurgeHistory
      <3>2. history \in Seq(ConfCommits) /\ new.edits = Tip.edits
        BY DEF StoreInv, ConfShape
      <3> HIDE DEF new
      <3>3. history' # <<>> /\ history'[Len(history')] = new
        <4>1. CASE history' = <<new>>
          BY <4>1
        <4>2. CASE history' = Append(history, new)
          BY <3>2, <4>2
        <4> QED
          BY <3>1, <4>1, <4>2
      <3> QED
        BY <3>2, <3>3 DEF Tip, Last
    <2>6. CASE ArchiveRepo(c) \/ WipeRepo(c)
      <3>1. history' = <<>>
        BY <2>6 DEF ArchiveRepo, WipeRepo
      <3> QED
        BY <3>1 DEF Tip, ZeroCommit
    <2>7. ~ClaimHome(c)
      BY DEF ClaimHome
    <2>8. CASE EditConfig(c)
      BY <2>1, <2>2, <2>3, <2>8 DEF EditConfig, StartSet, ReadRef, SetConflicts, OnlyReads
    <2>9. CASE RewriteConfig(c)
      BY <2>1, <2>4, <2>5, <2>9 DEF RewriteConfig, StartRestore, ReadOld, StartPurge, GivesUp,
                                    OnlyReads
    <2>10. CASE Rehome(c)
      BY <2>1, <2>6, <2>7, <2>10 DEF Rehome, StartClaim, CheckGate, MarkHome, ClaimRefused,
                                     StartMove, UnmarkHome
    <2>11. CASE OperateApp(c)
      BY <2>1, <2>6, <2>11 DEF OperateApp, StartDeploy, StartFolderDeploy, CheckGate,
                               DeployCommits, StartRemove, StartPurgingRemove, FinishRemove
    <2>12. CASE ClientDies(c)
      BY <2>1, <2>12 DEF ClientDies
    <2> QED
      BY <2>8, <2>9, <2>10, <2>11, <2>12
  <1> QED
    BY <1>1, StoreInvariant, PTL DEF ConfSpec, PurgeHolds
-----------------------------------------------------------------------------
(* The home.                                                               *)
LockedKinds == {"claim", "move", "deploy", "folderDeploy"}

\* A step of a command that needs no app lock takes no repository away.
Aside(c, o) ==
    /\ task' = task \/ task' = [task EXCEPT ![c] = o]
    /\ task[c].kind \notin LockedKinds /\ o.kind \notin LockedKinds
    /\ hasRepo => hasRepo'
    /\ UNCHANGED <<marker, confLock, strays>>

\* A step that leaves the home alone.
LEMMA AsideKeeps ==
  ASSUME ConfShape, HomeInv, NEW c \in Clients, NEW o \in ConfTasks, Aside(c, o)
  PROVE  HomeInv'
  <1> USE DEF HomeInv, Aside
  <1>1. \A d \in Clients : task'[d] = task[d] \/ task'[d].kind \notin LockedKinds
    BY DEF ConfShape
  <1>2. \A d \in Clients : task[d].kind \in LockedKinds => task'[d] = task[d]
    BY DEF ConfShape
  <1>3. LockedTasks'
    BY <1>1 DEF LockedTasks, LockedKinds, SawRepo
  <1>4. OrphansHaveACause'
    BY <1>2 DEF OrphansHaveACause, OrphanedMarker, InServerHome, LockedKinds
  <1> QED
    BY <1>3, <1>4

\* Who holds the lock is the only one in a command under it.
LEMMA LockExcludes ==
  ASSUME HomeInv
  PROVE  /\ confLock = Unheld => \A d \in Clients : task[d].kind \notin LockedKinds
         /\ \A c, d \in Clients : task[c].kind \in LockedKinds /\ d # c =>
               task[d].kind \notin LockedKinds
         /\ \A d \in Clients : task[d].kind \notin LockedKinds => ~SawRepo(task[d])
  BY ConfigHomeAssumption DEF HomeInv, LockedTasks, LockedKinds, SawRepo

\* What a command under the lock may leave: nobody else is in one.
LEMMA LockedStep ==
  ASSUME ConfShape, HomeInv, NEW c \in Clients, NEW o \in ConfTasks,
         task' = [task EXCEPT ![c] = o],
         \A d \in Clients \ {c} : task[d].kind \notin LockedKinds,
         o.kind \in LockedKinds => confLock' = c,
         SawRepo(o) => hasRepo' \/ strays',
         OrphanedMarker' => strays' \/ o.kind = "move"
  PROVE  HomeInv'
  <1>1. task'[c] = o /\ \A d \in Clients \ {c} : task'[d] = task[d]
    BY DEF ConfShape
  <1>2. \A d \in Clients \ {c} : task'[d].kind \notin LockedKinds /\ ~SawRepo(task'[d])
    BY <1>1, LockExcludes
  <1>3. LockedTasks'
    <2> SUFFICES ASSUME NEW d \in Clients
                 PROVE  /\ task'[d].kind \in LockedKinds => confLock' = d
                        /\ SawRepo(task'[d]) => hasRepo' \/ strays'
      BY DEF LockedTasks, LockedKinds, SawRepo
    <2>1. CASE d = c
      BY <1>1, <2>1
    <2>2. CASE d # c
      BY <1>2, <2>2
    <2> QED
      BY <2>1, <2>2
  <1>4. OrphansHaveACause'
    BY <1>1 DEF OrphansHaveACause
  <1> QED
    BY <1>3, <1>4 DEF HomeInv

\* The edits, restores and purges.
LEMMA EditsAside ==
  ASSUME ConfShape, HomeInv, NEW c \in Clients, EditConfig(c) \/ RewriteConfig(c)
  PROVE  HomeInv'
  <1>1. UNCHANGED <<marker, confLock, strays>>
    BY DEF EditConfig, RewriteConfig, StartSet, ReadRef, SetCommits, SetConflicts, CreateFromFile,
           StartRestore, ReadOld, RestoreCommits, StartPurge, PurgeHistory, GivesUp, OnlyReads,
           OffLock
  <1>2. hasRepo => hasRepo'
    BY DEF EditConfig, RewriteConfig, StartSet, ReadRef, SetCommits, SetConflicts, CreateFromFile,
           StartRestore, ReadOld, RestoreCommits, StartPurge, PurgeHistory, GivesUp, OnlyReads,
           HelperWrites
  <1>3. task[c] \in ConfTasks /\ Tip \in [id : Nat, edits : SUBSET Nat] /\ tasks \in Nat
    BY TipIs, ConfigHomeAssumption DEF ConfShape
  <1>4. \E o \in ConfTasks : Aside(c, o)
    <2>1. ASSUME NEW o, o \in ConfTasks,
                 task' = task \/ task' = [task EXCEPT ![c] = o],
                 task[c].kind \notin LockedKinds, o.kind \notin LockedKinds
          PROVE  \E p \in ConfTasks : Aside(c, p)
      BY <1>1, <1>2, <2>1 DEF Aside
    <2>2. /\ NoTask \in ConfTasks /\ NoTask.kind \notin LockedKinds
      BY TasksTyped DEF LockedKinds
    <2>3. CASE StartSet(c)
      <3> DEFINE o == [Task("set", "ref") EXCEPT !.token = tasks + 1]
      <3>1. Task("set", "ref") \in ConfTasks /\ Task("set", "ref").kind = "set"
        BY TasksTyped DEF Kinds, Steps
      <3>2. o \in ConfTasks /\ o.kind = "set"
        BY <1>3, <3>1 DEF ConfTasks
      <3>3. task' = [task EXCEPT ![c] = o] /\ task[c] = NoTask
        BY <2>3 DEF StartSet, Starts
      <3> HIDE DEF o
      <3> QED
        BY <2>1, <2>2, <3>2, <3>3 DEF LockedKinds
    <2>4. CASE ReadRef(c)
      <3> DEFINE o == [task[c] EXCEPT !.pc = "write", !.base = Tip]
      <3>1. o \in ConfTasks /\ o.kind = task[c].kind
        BY <1>3 DEF ConfTasks
      <3>2. task' = [task EXCEPT ![c] = o] /\ task[c].kind = "set"
        BY <2>4 DEF ReadRef, Goes
      <3> HIDE DEF o
      <3> QED
        BY <2>1, <3>1, <3>2 DEF LockedKinds
    <2>5. CASE SetConflicts(c) /\ ~Stops(c)
      <3> DEFINE o == [task[c] EXCEPT !.pc = "ref", !.base = ZeroCommit, !.tries = @ + 1]
      <3>1. /\ task' = [task EXCEPT ![c] = o] /\ task[c].kind = "set"
            /\ task[c].tries < MaxTries
        BY <2>5 DEF SetConflicts, Goes
      <3>2. o \in ConfTasks /\ o.kind = task[c].kind
        <4>1. task[c].tries + 1 \in 0..MaxTries
          <5>1. task[c].tries \in 0..MaxTries /\ MaxTries \in Nat
            BY <1>3, ConfigHomeAssumption DEF ConfTasks
          <5> QED
            BY <3>1, <5>1
        <4> QED
          BY <1>3, <4>1, TasksTyped DEF ConfTasks
      <3> HIDE DEF o
      <3> QED
        BY <2>1, <3>1, <3>2 DEF LockedKinds
    <2>6. CASE StartRestore(c)
      <3> DEFINE o == [Task("restore", "old") EXCEPT !.base = Tip]
      <3>1. Task("restore", "old") \in ConfTasks /\ Task("restore", "old").kind = "restore"
        BY TasksTyped DEF Kinds, Steps
      <3>2. o \in ConfTasks /\ o.kind = "restore"
        BY <1>3, <3>1 DEF ConfTasks
      <3>3. task' = [task EXCEPT ![c] = o] /\ task[c] = NoTask
        BY <2>6 DEF StartRestore, Starts
      <3> HIDE DEF o
      <3> QED
        BY <2>1, <2>2, <3>2, <3>3 DEF LockedKinds
    <2>7. CASE ReadOld(c)
      <3>1. PICK n \in DOMAIN history :
               task' = [task EXCEPT ![c] =
                          [task[c] EXCEPT !.pc = "write", !.edits = history[n].edits]]
        BY <2>7 DEF ReadOld, Goes
      <3> DEFINE o == [task[c] EXCEPT !.pc = "write", !.edits = history[n].edits]
      <3>2. history[n].edits \in SUBSET Nat
        BY TipIs DEF ConfCommits
      <3>3. o \in ConfTasks /\ o.kind = task[c].kind
        BY <1>3, <3>2 DEF ConfTasks
      <3>4. task' = [task EXCEPT ![c] = o] /\ task[c].kind = "restore"
        BY <2>7, <3>1 DEF ReadOld
      <3> HIDE DEF o
      <3> QED
        BY <2>1, <3>3, <3>4 DEF LockedKinds
    <2>8. CASE StartPurge(c)
      <3> DEFINE o == [Task("purge", "run") EXCEPT !.base = Tip]
      <3>1. Task("purge", "run") \in ConfTasks /\ Task("purge", "run").kind = "purge"
        BY TasksTyped DEF Kinds, Steps
      <3>2. o \in ConfTasks /\ o.kind = "purge"
        BY <1>3, <3>1 DEF ConfTasks
      <3>3. task' = [task EXCEPT ![c] = o] /\ task[c] = NoTask
        BY <2>8 DEF StartPurge, Starts
      <3> HIDE DEF o
      <3> QED
        BY <2>1, <2>2, <3>2, <3>3 DEF LockedKinds
    <2>9. CASE CreateFromFile(c)
      BY <2>1, <2>2, <2>9 DEF CreateFromFile
    <2>10. CASE Stops(c) /\ (SetCommits(c) \/ SetConflicts(c) \/ RestoreCommits(c)
                             \/ PurgeHistory(c) \/ GivesUp(c))
      <3>1. task[c].kind \in {"set", "restore", "purge"} /\ task' = [task EXCEPT ![c] = NoTask]
        BY <2>10 DEF SetCommits, SetConflicts, RestoreCommits, PurgeHistory, GivesUp, Stops, Goes
      <3> QED
        BY <2>1, <2>2, <3>1 DEF LockedKinds
    <2> QED
      BY <2>3, <2>4, <2>5, <2>6, <2>7, <2>8, <2>9, <2>10
         DEF EditConfig, RewriteConfig, SetCommits, RestoreCommits, PurgeHistory, GivesUp
  <1> QED
    BY <1>4, AsideKeeps

\* What starts finds the lock free, and the home as its gate saw it.
LEMMA LockedStarts ==
  ASSUME ConfShape, HomeInv, NEW c \in Clients,
         \/ StartClaim(c) \/ StartDeploy(c) \/ StartFolderDeploy(c) \/ StartMove(c)
         \/ StartRemove(c) \/ StartPurgingRemove(c)
  PROVE  HomeInv'
  <1>1. PICK kind \in {"claim", "move", "deploy", "folderDeploy", "remove"}, step \in Steps :
          /\ task' = [task EXCEPT ![c] = Task(kind, step)] /\ confLock = Unheld
          /\ kind \in LockedKinds => confLock' = c
          /\ kind = "claim" => step = "go"
          /\ hasRepo' = hasRepo /\ strays' = strays
          /\ kind = "deploy" => hasRepo
          /\ kind \in {"claim", "deploy", "folderDeploy"} =>
                ~OrphanedMarker /\ (hasRepo \/ marker' = marker)
          /\ kind = "remove" => hasRepo \/ marker' = "none"
    <2>1. CASE StartClaim(c)
      BY <2>1 DEF StartClaim, CheckGate, StartLocked, Starts, HomeKept, MarkedAgain, Steps
    <2>2. CASE StartDeploy(c)
      BY <2>2 DEF StartDeploy, CheckGate, StartLocked, Starts, HomeKept, MarkedAgain, Steps
    <2>3. CASE StartFolderDeploy(c)
      BY <2>3 DEF StartFolderDeploy, CheckGate, StartLocked, Starts, HomeKept, MarkedAgain, Steps
    <2>4. CASE StartMove(c)
      BY <2>4 DEF StartMove, StartLocked, Starts, HomeKept, Steps
    <2>5. CASE StartRemove(c)
      BY <2>5 DEF StartRemove, StartLocked, Starts, HomeKept, Steps, LockedKinds
    <2>6. CASE StartPurgingRemove(c)
      BY <2>6 DEF StartPurgingRemove, Starts, HomeKept, Steps, LockedKinds
    <2> QED
      BY <2>1, <2>2, <2>3, <2>4, <2>5, <2>6
  <1> DEFINE o == Task(kind, step)
  <1>2. o \in ConfTasks /\ o.kind = kind /\ o.pc = step
    BY TasksTyped DEF Kinds
  <1>3. task' = [task EXCEPT ![c] = o]
    BY <1>1
  <1> HIDE DEF o
  <1>4. \A d \in Clients \ {c} : task[d].kind \notin LockedKinds
    BY <1>1, LockExcludes
  <1>5. SawRepo(o) => hasRepo' \/ strays'
    BY <1>1, <1>2 DEF SawRepo
  <1>6. OrphanedMarker' => strays' \/ o.kind = "move"
    BY <1>1, <1>2 DEF OrphanedMarker, InServerHome
  <1>7. o.kind \in LockedKinds => confLock' = c
    BY <1>1, <1>2
  <1> QED
    BY <1>2, <1>3, <1>4, <1>5, <1>6, <1>7, LockedStep

\* What ends under the lock leaves the marker to a repository.
LEMMA LockedEnds ==
  ASSUME ConfShape, HomeInv, NEW c \in Clients,
         MarkHome(c) \/ ClaimRefused(c) \/ UnmarkHome(c) \/ DeployCommits(c)
  PROVE  HomeInv'
  <1>1. /\ task' = [task EXCEPT ![c] = NoTask] /\ task[c].kind \in LockedKinds
        /\ hasRepo' = hasRepo /\ strays' = strays
    BY DEF MarkHome, ClaimRefused, UnmarkHome, DeployCommits, LetsGo, Stops, Goes, HomeKept,
           LockedKinds
  <1>2. NoTask \in ConfTasks /\ NoTask.kind = "none"
    BY TasksTyped
  <1>3. \A d \in Clients \ {c} : task[d].kind \notin LockedKinds
    BY <1>1, LockExcludes
  <1>4. OrphanedMarker' => strays'
    <2>1. CASE MarkHome(c)
      BY <1>1, <2>1 DEF MarkHome, HomeInv, LockedTasks, SawRepo, OrphanedMarker
    <2>2. CASE ClaimRefused(c)
      BY <1>1, <2>2 DEF ClaimRefused, OrphanedMarker
    <2>3. CASE UnmarkHome(c)
      BY <2>3 DEF UnmarkHome, OrphanedMarker, InServerHome
    <2>4. CASE DeployCommits(c)
      BY <1>1, <2>4 DEF DeployCommits, HomeInv, LockedTasks, SawRepo, OrphanedMarker, InServerHome
    <2> QED
      BY <2>1, <2>2, <2>3, <2>4
  <1>5. ~SawRepo(NoTask) /\ NoTask.kind \notin LockedKinds
    BY <1>2 DEF SawRepo, LockedKinds
  <1> QED
    BY <1>1, <1>2, <1>3, <1>4, <1>5, LockedStep

\* The claim makes the repository, the move takes it away.
LEMMA LockedWrites ==
  ASSUME ConfShape, HomeInv, NEW c \in Clients, ClaimHome(c) \/ ArchiveRepo(c)
  PROVE  HomeInv'
  <1>1. PICK step \in {"mark", "unmark"} :
          /\ task' = [task EXCEPT ![c] = [task[c] EXCEPT !.pc = step]]
          /\ task[c].kind \in {"claim", "move"}
          /\ UNCHANGED <<marker, confLock, strays>>
          /\ task[c].kind = "claim" => hasRepo'
    BY DEF ClaimHome, ArchiveRepo, Goes, HelperWrites, HomeKept
  <1> DEFINE o == [task[c] EXCEPT !.pc = step]
  <1>2. o \in ConfTasks /\ o.kind = task[c].kind /\ o.pc = step
    BY <1>1 DEF ConfShape, ConfTasks
  <1>3. task' = [task EXCEPT ![c] = o]
    BY <1>1
  <1> HIDE DEF o
  <1>4. \A d \in Clients \ {c} : task[d].kind \notin LockedKinds
    BY <1>1, LockExcludes DEF LockedKinds
  <1>5. o.kind \in LockedKinds => confLock' = c
    BY <1>1, <1>2 DEF HomeInv, LockedTasks
  <1>6. SawRepo(o) => hasRepo' \/ strays'
    BY <1>1, <1>2 DEF SawRepo
  <1>7. OrphanedMarker' => strays' \/ o.kind = "move"
    BY <1>1, <1>2 DEF OrphanedMarker
  <1> QED
    BY <1>2, <1>3, <1>4, <1>5, <1>6, <1>7, LockedStep

\* A removal's later steps, and a death, beside whoever holds the lock.
LEMMA RemovalsKeep ==
  ASSUME ConfShape, HomeInv, NEW c \in Clients, WipeRepo(c) \/ FinishRemove(c) \/ ClientDies(c)
  PROVE  HomeInv'
  <1>1. PICK o \in ConfTasks :
          /\ task' = [task EXCEPT ![c] = o] /\ o.kind \notin LockedKinds
          /\ confLock' = confLock \/ (confLock = c /\ confLock' = Unheld)
          /\ marker' = marker
          /\ strays => strays'
          /\ \/ hasRepo' = hasRepo /\ task[c].kind # "move"
             \/ strays'
             \/ confLock = Unheld /\ ~InServerHome
    <2>1. CASE WipeRepo(c)
      <3> DEFINE o == [task[c] EXCEPT !.pc = "done"]
      <3>1. o \in ConfTasks /\ o.kind = task[c].kind
        BY DEF ConfShape, ConfTasks
      <3>2. task' = [task EXCEPT ![c] = o] /\ task[c].kind = "remove"
            /\ confLock' = confLock /\ marker' = marker
        BY <2>1 DEF WipeRepo, Goes
      <3>3. strays' = (strays \/ InServerHome \/ confLock # Unheld)
        BY <2>1 DEF WipeRepo
      <3> HIDE DEF o
      <3>4. (strays => strays') /\ (strays' \/ (confLock = Unheld /\ ~InServerHome))
        BY <3>3, Zenon
      <3> QED
        BY <3>1, <3>2, <3>4 DEF LockedKinds
    <2>2. CASE FinishRemove(c)
      BY <2>2, TasksTyped DEF FinishRemove, Stops, Goes, HomeKept, LockedKinds
    <2>3. CASE ClientDies(c)
      <3>1. strays' = (strays \/ task[c].kind = "move")
        BY <2>3 DEF ClientDies
      <3>2. (strays => strays') /\ (strays' \/ task[c].kind # "move")
        BY <3>1, Zenon
      <3> QED
        BY <2>3, <3>2, TasksTyped DEF ClientDies, Stops, Goes, LockedKinds
    <2> QED
      BY <2>1, <2>2, <2>3
  <1>2. task'[c] = o /\ \A d \in Clients \ {c} : task'[d] = task[d]
    BY <1>1 DEF ConfShape
  <1>3. LockedTasks'
    <2> SUFFICES ASSUME NEW d \in Clients
                 PROVE  /\ task'[d].kind \in LockedKinds => confLock' = d
                        /\ SawRepo(task'[d]) => hasRepo' \/ strays'
      BY DEF LockedTasks, LockedKinds, SawRepo
    <2>1. CASE d = c
      BY <1>1, <1>2, <2>1 DEF SawRepo, LockedKinds
    <2>2. CASE d # c
      <3>1. task'[d] = task[d]
        BY <1>2, <2>2
      <3>2. /\ task[d].kind \in LockedKinds => confLock = d
            /\ SawRepo(task[d]) => (hasRepo \/ strays) /\ task[d].kind \in LockedKinds
        BY DEF HomeInv, LockedTasks, LockedKinds, SawRepo
      <3>3. confLock = Unheld => task[d].kind \notin LockedKinds
        BY LockExcludes
      <3> QED
        BY <1>1, <2>2, <3>1, <3>2, <3>3
    <2> QED
      BY <2>1, <2>2
  <1>4. OrphansHaveACause'
    <2> SUFFICES ASSUME OrphanedMarker', ~strays'
                 PROVE  \E d \in Clients : task'[d].kind = "move"
      BY DEF OrphansHaveACause
    <2>1. hasRepo' = hasRepo /\ ~strays /\ task[c].kind # "move"
      BY <1>1 DEF OrphanedMarker, InServerHome
    <2>2. \E d \in Clients : task[d].kind = "move"
      BY <1>1, <2>1 DEF HomeInv, OrphansHaveACause, OrphanedMarker, InServerHome
    <2> QED
      BY <1>2, <2>1, <2>2
  <1> QED
    BY <1>3, <1>4 DEF HomeInv

\* The app lock excludes what would take a repository from under its marker.
LEMMA HomeStep == ConfShape /\ HomeInv /\ [ConfNext]_confVars => HomeInv'
  <1> SUFFICES ASSUME ConfShape, HomeInv, [ConfNext]_confVars
               PROVE  HomeInv'
    OBVIOUS
  <1>1. CASE UNCHANGED confVars
    BY <1>1 DEF confVars, HomeInv, LockedTasks, SawRepo, OrphansHaveACause, OrphanedMarker,
                InServerHome
  <1>2. ASSUME NEW c \in Clients,
               \/ EditConfig(c) \/ RewriteConfig(c) \/ Rehome(c) \/ OperateApp(c)
               \/ ClientDies(c)
        PROVE  HomeInv'
    BY <1>2, EditsAside, LockedStarts, LockedEnds, LockedWrites, RemovalsKeep
       DEF Rehome, OperateApp
  <1> QED
    BY <1>1, <1>2 DEF ConfNext

\* The marker of the server's home is without its repository only while the
\* app moves away, after such a move was cut off, or after a purging removal
\* that overlapped another command (CheckGate, runConfigHomeFolder).
THEOREM NoStrayMarkers == ConfSpec => []OrphansHaveACause
  <1>1. ConfInit => HomeInv
    <2>1. ConfInit => \A c \in Clients : task[c].kind = "none"
      BY TasksTyped DEF ConfInit
    <2> QED
      BY <2>1 DEF ConfInit, HomeInv, LockedTasks, SawRepo, OrphansHaveACause, OrphanedMarker,
                  InServerHome
  <1>2. StoreInv /\ HomeInv /\ [ConfNext]_confVars => HomeInv'
    BY HomeStep DEF StoreInv
  <1>3. HomeInv => OrphansHaveACause
    BY DEF HomeInv
  <1> QED
    BY <1>1, <1>2, <1>3, StoreInvariant, PTL DEF ConfSpec
===============================================================================
