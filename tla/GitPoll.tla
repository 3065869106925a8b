------------------------------- MODULE GitPoll --------------------------------
(***************************************************************************)
(* The git trigger of one app: `trigger poll` admits the head of a branch  *)
(* against a recorded watermark, refuses rewritten history, skips          *)
(* irrelevant changes and caps retries (gitsource/poll.go), beside manual  *)
(* deploys (cli/deployserver.go) and the operator's `trigger reset` and    *)
(* `trigger retry` (cli/trigger_poll.go).                                  *)
(*                                                                         *)
(* A poll and a manual deploy hold the app lock, which AppLock models and  *)
(* this module takes as held; the two commands hold nothing.  Each of them *)
(* loads admissions/state.json and later saves all of it.  One repository  *)
(* and one branch; the interval between polls is any delay.                *)
(***************************************************************************)
EXTENDS Integers

CONSTANTS
    Parent,         \* Parent[c]: the commit c was made on, 0 for a root
    Docs,           \* commits that touch no path the app is built from
    MaxDeployAttempts, \* attempts of a commit, 3 in the code
    MaxMoves,       \* bound: moves of the remote branch
    MaxFailures,    \* bound: polls and deploys cut off by an error or a death
    MaxCommands     \* bound: manual deploys, reset and retry commands

Commits == DOMAIN Parent
None == 0           \* no commit

ASSUME GitPollAssumption ==
    /\ Commits \subseteq Nat \ {0} /\ Docs \subseteq Commits
    /\ \A c \in Commits : Parent[c] \in {None} \cup Commits /\ Parent[c] < c
    /\ MaxDeployAttempts \in Nat \ {0}
    /\ MaxMoves \in Nat /\ MaxFailures \in Nat /\ MaxCommands \in Nat

VARIABLES
    remote,         \* the branch's head on the remote, None when it is gone
    mirror,         \* commits in the app's mirror, which is never pruned
    adm,            \* admissions/state.json
    job,            \* the poll or manual deploy holding the app lock
    cmd,            \* the retry command between its load and its save
    served,         \* the commit whose build serves
    recorded,       \* the last deploy a save recorded, None after a reset
    runs,           \* poll deploys of each commit since its record was cleared
    overwrote,           \* some save overwrote a change it had not loaded
    moves, failures, commands

history == <<served, recorded, runs, overwrote>>
limits == <<moves, failures, commands>>
gitVars == <<remote, mirror, adm, job, cmd, history, limits>>

(* An admission record is never pruned here: fewer than maxLedger commits. *)
Fresh_ == [c \in Commits |-> [status |-> "", attempts |-> 0]]
NoAdmissions == [watermark |-> None, lastSeen |-> None, refusedHead |-> None, ledger |-> Fresh_]
NoJob == [kind |-> "none"]
NoCmd == [kind |-> "none"]

(* What is in every set that holds the commit and, with each, its parent.  *)
AncestorsOf[c \in Commits] ==
    {a \in Commits : \A s \in SUBSET Commits :
        c \in s /\ (\A b \in s : Parent[b] # None => Parent[b] \in s) => a \in s}
Descends(c, a) == a \in AncestorsOf[c]

(* PathRelevant of DiffNames: some commit since the watermark matters.     *)
Relevant(from_, head) == AncestorsOf[head] \ (AncestorsOf[from_] \cup Docs) # {}

-----------------------------------------------------------------------------
(* (Mutant: one attempt more than the cap is let through.)                 *)
OneMore(st, head) ==
    \/ head = st.watermark
    \/ st.refusedHead = head
    \/ st.ledger[head].status \in {"deployed", "skipped", "refused"}
    \/ st.ledger[head].status = "failed" /\ st.ledger[head].attempts > MaxDeployAttempts

(* deduped: the outcomes that need no work.                                *)
Deduped(st, head) ==
    \/ head = st.watermark
    \/ st.refusedHead = head
    \/ st.ledger[head].status \in {"deployed", "skipped", "refused"}
    \/ st.ledger[head].status = "failed" /\ st.ledger[head].attempts >= MaxDeployAttempts

(* SaveState replaces the file, whatever it holds by now.                  *)
Save(st, base) == /\ adm' = st
                  /\ overwrote' = (overwrote \/ adm # base)

-----------------------------------------------------------------------------
(* One poll: lock, load and ls-remote; nothing but the file is read before *)
(* the decision, so the two reads are one step.                            *)
StartPoll ==
    /\ job = NoJob
    /\ job' = [kind |-> "poll", pc |-> "seen", st |-> adm, base |-> adm, head |-> remote]
    /\ UNCHANGED <<remote, mirror, adm, cmd, history, limits>>

(* ErrAbsent: a missing branch is recorded.                                *)
PollGone ==
    /\ job.kind = "poll" /\ job.pc = "seen" /\ job.head = None
    /\ Save([job.st EXCEPT !.lastSeen = None], job.base)
    /\ job' = NoJob
    /\ UNCHANGED <<remote, mirror, cmd, served, recorded, runs, limits>>

(* A head already dealt with ends the poll, which saves what it loaded.    *)
PollDeduped ==
    /\ job.kind = "poll" /\ job.pc = "seen" /\ job.head # None
    /\ Deduped(job.st, job.head)
    /\ Save(job.st, job.base)
    /\ job' = NoJob
    /\ UNCHANGED <<remote, mirror, cmd, served, recorded, runs, limits>>

(* The mirror takes the branch as it is by now and the helper answers the  *)
(* commit it was asked for, if that is there; otherwise the run ends.      *)
Fetch ==
    /\ job # NoJob /\ job.pc = "seen" /\ job.head # None
    /\ job.kind = "poll" => ~Deduped(job.st, job.head)
    /\ mirror' = mirror \cup (IF remote = None THEN {} ELSE AncestorsOf[remote])
    /\ job' = IF remote # None /\ job.head \in mirror'
              THEN [job EXCEPT !.pc = "fetched", !.st.lastSeen = job.head]
              ELSE NoJob
    /\ UNCHANGED <<remote, adm, cmd, history, limits>>

(* (Mutant: history is judged against nothing.)                            *)
NeverRewritten(w, head) == FALSE

(* IsAncestor: also refused when the watermark is not in the mirror.       *)
Rewritten(w, head) == w # None /\ (w \notin mirror \/ ~Descends(head, w))

(* (Mutant: the refusal is answered and not saved.)                        *)
RefuseUnsaved ==
    /\ job.kind = "poll" /\ job.pc = "fetched"
    /\ Rewritten(job.st.watermark, job.head)
    /\ job' = NoJob
    /\ UNCHANGED <<remote, mirror, adm, cmd, history, limits>>

(* refuse: one record per head, until the reset.                           *)
PollRefuse ==
    /\ job.kind = "poll" /\ job.pc = "fetched"
    /\ Rewritten(job.st.watermark, job.head)
    /\ Save([job.st EXCEPT !.refusedHead = job.head,
                           !.ledger[job.head].status = "refused"], job.base)
    /\ job' = NoJob
    /\ UNCHANGED <<remote, mirror, cmd, served, recorded, runs, limits>>

PollSkip ==
    /\ job.kind = "poll" /\ job.pc = "fetched"
    /\ ~Rewritten(job.st.watermark, job.head)
    /\ job.st.watermark # None /\ ~Relevant(job.st.watermark, job.head)
    /\ Save([job.st EXCEPT !.watermark = job.head,
                           !.ledger[job.head].status = "skipped"], job.base)
    /\ job' = NoJob
    /\ UNCHANGED <<remote, mirror, cmd, served, recorded, runs, limits>>

Failed(st, head) ==
    [st EXCEPT !.ledger[head] = [status |-> "failed", attempts |-> @.attempts + 1]]

Deployed(st, head) ==
    [st EXCEPT !.watermark = head, !.refusedHead = None,
               !.ledger[head] = [status |-> "deployed", attempts |-> @.attempts + 1]]

PollDeploy ==
    /\ job.kind = "poll" /\ job.pc = "fetched"
    /\ ~Rewritten(job.st.watermark, job.head)
    /\ job.st.watermark # None => Relevant(job.st.watermark, job.head)
    /\ runs' = [runs EXCEPT ![job.head] = @ + 1]
    /\ \/ /\ served' = job.head
          /\ job' = [job EXCEPT !.pc = "save", !.st = Deployed(@, job.head)]
       \/ /\ job' = [job EXCEPT !.pc = "save", !.st = Failed(@, job.head)]
          /\ UNCHANGED served
    /\ UNCHANGED <<remote, mirror, adm, cmd, recorded, overwrote, limits>>

SaveJob ==
    /\ job # NoJob /\ job.pc = "save"
    /\ Save(job.st, job.base)
    /\ recorded' = IF job.st.ledger[job.head].status = "deployed" THEN job.head ELSE recorded
    /\ job' = NoJob
    /\ UNCHANGED <<remote, mirror, cmd, served, runs, limits>>

(* An error, a cancelled command or a death of the client.                 *)
CutOff ==
    /\ job # NoJob /\ failures < MaxFailures
    /\ failures' = failures + 1
    /\ job' = NoJob
    /\ UNCHANGED <<remote, mirror, adm, cmd, history, moves, commands>>

-----------------------------------------------------------------------------
(* A manual deploy: the head of the branch whatever its history, recorded  *)
(* afterwards.  One that reads a refusal of the ref is refused and changes *)
(* nothing; a failed read counts as no refusal, and any read may fail, so  *)
(* the refusal is no guard of this action.                                 *)
StartManual ==
    /\ job = NoJob /\ remote # None
    /\ commands < MaxCommands
    /\ commands' = commands + 1
    /\ job' = [kind |-> "manual", pc |-> "seen", st |-> adm, base |-> adm, head |-> remote]
    /\ UNCHANGED <<remote, mirror, adm, cmd, history, moves, failures>>

ManualDeploy ==
    /\ job.kind = "manual" /\ job.pc = "fetched"
    /\ \/ /\ served' = job.head
          /\ job' = [job EXCEPT !.pc = "record"]
       \/ /\ job' = NoJob
          /\ UNCHANGED served
    /\ UNCHANGED <<remote, mirror, adm, cmd, recorded, runs, overwrote, limits>>

(* RecordManualDeploy loads the state anew; the attempts stay.             *)
RecordManual ==
    /\ job.kind = "manual" /\ job.pc = "record"
    /\ job' = [job EXCEPT !.pc = "save", !.base = adm,
                          !.st = [adm EXCEPT !.watermark = job.head, !.lastSeen = job.head,
                                             !.refusedHead = None,
                                             !.ledger[job.head].status = "deployed"]]
    /\ UNCHANGED <<remote, mirror, adm, cmd, history, limits>>

-----------------------------------------------------------------------------
(* The operator's commands and the outside world.                          *)

(* ResetRef keeps nothing of what it loads of the ref.                     *)
Reset ==
    /\ commands < MaxCommands
    /\ commands' = commands + 1
    /\ adm' = NoAdmissions
    /\ recorded' = None /\ runs' = [c \in Commits |-> 0]
    /\ UNCHANGED <<remote, mirror, job, cmd, served, overwrote, moves, failures>>

RetryHead == IF adm.lastSeen # None THEN adm.lastSeen ELSE adm.watermark

RetryLoad ==
    /\ cmd = NoCmd /\ commands < MaxCommands
    /\ RetryHead # None /\ adm.ledger[RetryHead].status = "failed"
    /\ commands' = commands + 1
    /\ cmd' = [kind |-> "retry", head |-> RetryHead, base |-> adm]
    /\ UNCHANGED <<remote, mirror, adm, job, history, moves, failures>>

RetrySave ==
    /\ cmd # NoCmd
    /\ Save([cmd.base EXCEPT !.ledger[cmd.head].attempts = 0], cmd.base)
    /\ runs' = [runs EXCEPT ![cmd.head] = 0]
    /\ cmd' = NoCmd
    /\ UNCHANGED <<remote, mirror, job, served, recorded, limits>>

(* A push, a force-push or a deletion.                                     *)
Move ==
    /\ moves < MaxMoves
    /\ moves' = moves + 1
    /\ remote' \in ({None} \cup Commits) \ {remote}
    /\ UNCHANGED <<mirror, adm, job, cmd, history, failures, commands>>

-----------------------------------------------------------------------------
GitInit ==
    /\ remote \in {None} \cup Commits /\ mirror = {} /\ adm = NoAdmissions /\ job = NoJob /\ cmd = NoCmd
    /\ served = None /\ recorded = None
    /\ runs = [c \in Commits |-> 0] /\ overwrote = FALSE
    /\ moves = 0 /\ failures = 0 /\ commands = 0

PollStep == PollGone \/ PollDeduped \/ PollRefuse \/ PollSkip \/ PollDeploy
ManualStep == ManualDeploy \/ RecordManual
JobStep == Fetch \/ PollStep \/ ManualStep \/ SaveJob

GitNext == StartPoll \/ JobStep \/ CutOff \/ StartManual
           \/ Reset \/ RetryLoad \/ RetrySave \/ Move

(* The timer starts a poll every minute and a running command goes on.     *)
GitSpec == /\ GitInit /\ [][GitNext]_gitVars
           /\ WF_gitVars(StartPoll) /\ WF_gitVars(JobStep) /\ WF_gitVars(RetrySave)

-----------------------------------------------------------------------------
States == [watermark : {None} \cup Commits, lastSeen : {None} \cup Commits,
           refusedHead : {None} \cup Commits,
           ledger : [Commits -> [status : {"", "deployed", "failed", "skipped", "refused"},
                                 attempts : 0..MaxDeployAttempts]]]

GitTypeOK ==
    /\ remote \in {None} \cup Commits /\ mirror \subseteq Commits
    /\ adm \in States
    /\ job = NoJob \/ job \in [kind : {"poll", "manual"},
                               pc : {"seen", "fetched", "record", "save"},
                               st : States, base : States, head : {None} \cup Commits]
    /\ cmd = NoCmd \/ cmd \in [kind : {"retry"}, head : Commits, base : States]
    /\ {served, recorded} \subseteq {None} \cup Commits
    /\ runs \in [Commits -> Nat] /\ overwrote \in BOOLEAN /\ failures \in 0..MaxFailures

PollDeploys == /\ job # NoJob /\ job.kind = "poll" /\ job.pc = "fetched"
               /\ job' # NoJob /\ job'.pc = "save"

(* The poll deploys nothing that does not contain the last deploy on       *)
(* record, unless a reset asked for it, as long as no save overwrote       *)
(* another: the ancestry check holds from the load to the deploy, over     *)
(* fetches of a branch that moves, cut-off runs and manual deploys (Poll). *)
NoForcedDeploy ==
    [][PollDeploys /\ ~overwrote /\ recorded # None => Descends(job.head, recorded)]_gitVars

(* A commit is deployed by the poll at most three times per clearing of    *)
(* its record, and once more for each run whose save never came            *)
(* (MaxDeployAttempts).                                                    *)
AttemptsBounded ==
    ~overwrote => \A c \in Commits : runs[c] <= MaxDeployAttempts + failures

(* When the branch and the operator come to rest, its head is dealt with:  *)
(* deployed, skipped, refused or given up on (Poll, run by the timer).     *)
HeadIsDealtWith == <>[](remote # None => Deduped(adm, remote))
=============================================================================
