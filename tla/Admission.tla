------------------------------ MODULE Admission -------------------------------
(***************************************************************************)
(* The webhook listener of one app (`teploy autodeploy serve`): a push is  *)
(* answered 200 only after its admission record is on disk, deploys run    *)
(* one at a time from a newest-wins slot, and a restart replays what the   *)
(* ledger says was admitted and never closed (cli/autodeploy_serve.go,     *)
(* autodeploy/ledger.go, autodeploy/webhook.go).                           *)
(*                                                                         *)
(* A body stands for one authenticated delivery; sending it again is the   *)
(* provider's redelivery.  An id is minted per admission, so ids are in    *)
(* admission order and so are the Received stamps (a wall clock that does  *)
(* not step back).  The 24 h pruning of the replay set is not modelled.    *)
(***************************************************************************)
EXTENDS Integers, Sequences, SequencesExt, FiniteSets

CONSTANTS
    MaxPushes,      \* bound: bodies that push the watched branch, in the order
                    \* they are first sent
    Others,         \* authenticated bodies that deploy nothing (pings, tags)
    MaxSends,       \* bound: deliveries, redeliveries included
    MaxFaults,      \* bound: appends that fail
    MaxCrashes      \* bound: deaths of the process

ASSUME AdmissionAssumption ==
    /\ Others \cap Nat = {}
    /\ MaxPushes \in Nat /\ MaxSends \in Nat /\ MaxFaults \in Nat /\ MaxCrashes \in Nat

VARIABLES
    ledger,         \* .autodeploy-ledger.jsonl: the lines on disk
    dedupFile,      \* .autodeploy-dedup.json
    up,             \* the process: "down", "starting", "up"
    latched,        \* FileLedger.failed: an append failed in this process
    dedup,          \* DeliveryDedup.seen
    req,            \* the request holding admissionMu
    workerLive, pending, workers,   \* admissionQueue
    minted,         \* admission ids minted so far
    acked,          \* pushes a provider was answered 200 for
    tried,          \* ids whose deploy was run to an end
    liveId,         \* the admission whose commit serves, 0 before the first
    pushed,         \* bodies 1..pushed have been sent
    sends, faults, crashes

disk == <<ledger, dedupFile>>
memory == <<up, latched, dedup, req, workerLive, pending, workers>>
record == <<minted, acked, tried, liveId>>
bounds == <<pushed, sends, faults, crashes>>
admVars == <<disk, memory, record, bounds>>

Pushes == 1..MaxPushes
Bodies == Pushes \cup Others
Idle == [pc |-> "idle"]
TornLine == [kind |-> "torn"]
Line(kind, id, body) == [kind |-> kind, id |-> id, body |-> body]

-----------------------------------------------------------------------------
(* Folding the lines (FoldAdmissions): a torn final line is ignored.       *)
Lines(kind) == {n \in DOMAIN ledger : ledger[n].kind = kind}
AdmittedIds == {ledger[n].id : n \in Lines("admitted")}
AdmittedBodies == {ledger[n].body : n \in Lines("admitted")}
Closed == {ledger[n].id : n \in Lines("processed") \cup Lines("superseded")}
Unclosed == AdmittedIds \ Closed
BodyOf(id) == ledger[CHOOSE n \in Lines("admitted") : ledger[n].id = id].body

(* ParseLedger refuses a line it cannot read anywhere but at the end.      *)
Corrupt == \E n \in Lines("torn") : n < Len(ledger)

(* (Mutant: the restart appends after a torn tail instead of cutting it.)  *)
TailKept == ledger

(* OpenLedger truncates to the last newline.                               *)
Repaired == IF Lines("torn") = {} THEN ledger ELSE Front(ledger)

(* FileLedger.Append: after the first failure every append of the process  *)
(* fails.  A failed append leaves the line whole, torn or absent.          *)
Durable(line) ==
    /\ ~latched
    /\ ledger' = Append(ledger, line)
    /\ UNCHANGED <<latched, faults>>

(* (Mutant: a failed append is not remembered.)                            *)
UnlatchedFailure(line) ==
    /\ faults < MaxFaults
    /\ ledger' \in {ledger, Append(ledger, line), Append(ledger, TornLine)}
    /\ faults' = faults + 1
    /\ UNCHANGED latched

Failure(line) ==
    \/ latched /\ UNCHANGED <<ledger, latched, faults>>
    \/ /\ ~latched /\ faults < MaxFaults
       /\ ledger' \in {ledger, Append(ledger, line), Append(ledger, TornLine)}
       /\ latched' = TRUE
       /\ faults' = faults + 1

BestEffort(line) == Durable(line) \/ Failure(line)

-----------------------------------------------------------------------------
(* The queue: one worker, one pending slot.                                *)

(* admit with the slot empty or no worker; the third disposition, which    *)
(* replaces the pending item, also appends and is Queue's.                 *)
(* (Mutant: every admission starts a worker.)                              *)
AlwaysStart(id) ==
    /\ workerLive' = TRUE
    /\ workers' = workers \cup {[id |-> id, pc |-> "run"]}
    /\ UNCHANGED pending

Enqueue(id) ==
    IF workerLive
    THEN pending' = id /\ UNCHANGED <<workerLive, workers>>
    ELSE /\ workerLive' = TRUE
         /\ workers' = workers \cup {[id |-> id, pc |-> "run"]}
         /\ UNCHANGED pending

(* The handler, serialised from the replay check to the answer by          *)
(* admissionMu.                                                            *)
Delivered(b) ==
    /\ up = "up" /\ req = Idle /\ sends < MaxSends
    /\ b \in Others \cup 1..(pushed + 1)
    /\ sends' = sends + 1
    /\ pushed' = IF b \in Others \/ b <= pushed THEN pushed ELSE b

Replayed(b) ==
    /\ Delivered(b)
    /\ b \in dedup
    /\ acked' = acked \cup ({b} \cap Pushes)
    /\ UNCHANGED <<disk, memory, minted, tried, liveId, faults, crashes>>

(* A new body is recorded as seen before anything else is decided; one     *)
(* that deploys nothing is answered 202 at once.                           *)
Fresh(b) ==
    /\ Delivered(b)
    /\ b \notin dedup
    /\ dedup' = dedup \cup {b}
    /\ IF b \in Others
       THEN UNCHANGED <<req, minted>>
       ELSE /\ minted' = minted + 1
            /\ req' = [pc |-> "append", body |-> b, id |-> minted + 1]
    /\ UNCHANGED <<disk, up, latched, workerLive, pending, workers, acked, tried,
                   liveId, faults, crashes>>

(* (Mutant: the 503 leaves the body in the replay set.)                    *)
RefuseKeepsSeen ==
    /\ req.pc = "append"
    /\ Failure(Line("admitted", req.id, req.body))
    /\ req' = Idle
    /\ UNCHANGED <<dedup, dedupFile, up, workerLive, pending, workers, record, pushed, sends, crashes>>

(* The append fails: the body is un-recorded and answered 503.             *)
Refuse ==
    /\ req.pc = "append"
    /\ Failure(Line("admitted", req.id, req.body))
    /\ dedup' = dedup \ {req.body}
    /\ req' = Idle
    /\ UNCHANGED <<dedupFile, up, workerLive, pending, workers, record, pushed, sends, crashes>>

Admit ==
    /\ req.pc = "append"
    /\ Durable(Line("admitted", req.id, req.body))
    /\ req' = [req EXCEPT !.pc = "persist"]
    /\ UNCHANGED <<dedupFile, up, dedup, workerLive, pending, workers, record, pushed, sends, crashes>>

(* onDedupChanged is best-effort: the snapshot is renamed in or dropped.   *)
PersistDedup ==
    /\ req.pc = "persist"
    /\ dedupFile' \in {dedup, dedupFile}
    /\ req' = [req EXCEPT !.pc = "queue"]
    /\ UNCHANGED <<ledger, up, latched, dedup, workerLive, pending, workers, record, bounds>>

(* admit: a worker and a pending item make the new one replace the pending *)
(* one, whose ledger mark is best-effort.                                  *)
Queue ==
    /\ req.pc = "queue"
    /\ req' = [req EXCEPT !.pc = "answer"]
    /\ IF workerLive /\ pending # 0
       THEN /\ pending' = req.id
            /\ BestEffort(Line("superseded", pending, BodyOf(pending)))
            /\ UNCHANGED <<workerLive, workers>>
       ELSE Enqueue(req.id) /\ UNCHANGED <<ledger, latched, faults>>
    /\ UNCHANGED <<dedupFile, up, dedup, record, pushed, sends, crashes>>

Answer ==
    /\ req.pc = "answer"
    /\ acked' = acked \cup {req.body}
    /\ req' = Idle
    /\ UNCHANGED <<disk, up, latched, dedup, workerLive, pending, workers, minted,
                   tried, liveId, bounds>>

-----------------------------------------------------------------------------
(* The worker.                                                             *)
Becomes(w, pc) == (workers \ {w}) \cup {[w EXCEPT !.pc = pc]}

(* triggerAutoDeploy succeeds, or fails at its lock, its fetch, its build  *)
(* or its deploy: the error is logged and the admission goes on alike.     *)
Run(w) ==
    /\ w.pc = "run"
    /\ liveId' \in {w.id, liveId}
    /\ tried' = tried \cup {w.id}
    /\ workers' = Becomes(w, "mark")
    /\ UNCHANGED <<disk, up, latched, dedup, req, workerLive, pending, minted, acked, bounds>>

MarkProcessed(w) ==
    /\ w.pc = "mark"
    /\ BestEffort(Line("processed", w.id, BodyOf(w.id)))
    /\ workers' = Becomes(w, "drain")
    /\ UNCHANGED <<dedupFile, up, dedup, req, workerLive, pending, record, pushed, sends, crashes>>

(* (Mutant: the worker leaves without looking at the slot.)                *)
LeaveAlways(w) ==
    /\ w.pc = "drain"
    /\ workerLive' = FALSE
    /\ workers' = workers \ {w}
    /\ UNCHANGED <<disk, up, latched, dedup, req, pending, record, bounds>>

(* (Mutant: the worker takes the slot without asking whether it is empty.) *)
DrainUnchecked(w) ==
    /\ w.pc = "drain"
    /\ workers' = (workers \ {w}) \cup {[id |-> pending, pc |-> "run"]}
    /\ pending' = 0
    /\ UNCHANGED <<disk, up, latched, dedup, req, workerLive, record, bounds>>

Drain(w) ==
    /\ w.pc = "drain"
    /\ IF pending = 0
       THEN /\ workerLive' = FALSE
            /\ workers' = workers \ {w}
            /\ UNCHANGED pending
       ELSE /\ workers' = (workers \ {w}) \cup {[id |-> pending, pc |-> "run"]}
            /\ pending' = 0
            /\ UNCHANGED workerLive
    /\ UNCHANGED <<disk, up, latched, dedup, req, record, bounds>>

-----------------------------------------------------------------------------
(* Death and restart.                                                      *)

(* The lines a death can catch half-written.                               *)
InFlight ==
    (IF req.pc = "append" THEN {Line("admitted", req.id, req.body)} ELSE {})
    \cup {Line("processed", w.id, BodyOf(w.id)) : w \in {v \in workers : v.pc = "mark"}}

ServerDies ==
    /\ up # "down" /\ crashes < MaxCrashes
    /\ crashes' = crashes + 1
    /\ ledger' \in {ledger} \cup
           (IF latched THEN {}
            ELSE UNION {{Append(ledger, l), Append(ledger, TornLine)} : l \in InFlight})
    /\ up' = "down"
    /\ latched' = FALSE /\ dedup' = {} /\ req' = Idle
    /\ workerLive' = FALSE /\ pending' = 0 /\ workers' = {}
    /\ UNCHANGED <<dedupFile, record, pushed, sends, faults>>

(* runAutoDeployServe up to OpenLedger; a ledger that cannot be parsed     *)
(* keeps the listener down.                                                *)
Open ==
    /\ up = "down"
    /\ ~Corrupt
    /\ ledger' = Repaired
    /\ dedup' = dedupFile
    /\ up' = "starting"
    /\ UNCHANGED <<dedupFile, latched, req, workerLive, pending, workers, record, bounds>>

(* (Mutant: the restart trusts the snapshot of the replay set alone.)      *)
SnapshotOnly == dedup

(* SeedDedupFromLedger.                                                    *)
Reseeded == dedup \cup AdmittedBodies

Newest(i) == i \in Unclosed /\ \A j \in Unclosed : i >= j

(* The older pending admissions in ledger order, each marked superseded.   *)
InLedgerOrder(ids) ==
    {older \in [1..Cardinality(ids) -> ids] :
        /\ \A i \in ids : \E n \in DOMAIN older : older[n] = i
        /\ \A m, n \in DOMAIN older : m < n => older[m] < older[n]}
Marks(older, k) == [n \in 1..k |-> Line("superseded", older[n], BodyOf(older[n]))]

(* The k-th mark may be the one that fails.                                *)
Supersede(older) ==
    \/ /\ ledger' = ledger \o Marks(older, Len(older))
       /\ UNCHANGED <<latched, faults>>
    \/ /\ faults < MaxFaults
       /\ \E k \in 0..(Len(older) - 1) :
             ledger' \in {ledger \o Marks(older, k), ledger \o Marks(older, k + 1),
                          Append(ledger \o Marks(older, k), TornLine)}
       /\ latched' = TRUE
       /\ faults' = faults + 1

(* resumeAdmissions: reseed the replay set, close the older admissions and *)
(* hand the newest to the queue.                                           *)
Resume ==
    /\ up = "starting"
    /\ up' = "up"
    /\ dedup' = Reseeded
    /\ \/ /\ Unclosed = {}
          /\ UNCHANGED <<ledger, latched, faults, workerLive, pending, workers>>
       \/ \E i \in Unclosed :
             /\ Newest(i)
             /\ \E older \in InLedgerOrder(Unclosed \ {i}) : Supersede(older)
             /\ Enqueue(i)
    /\ UNCHANGED <<dedupFile, req, record, pushed, sends, crashes>>

-----------------------------------------------------------------------------
AdmInit ==
    /\ ledger = <<>> /\ dedupFile = {}
    /\ up = "starting" /\ latched = FALSE /\ dedup = {} /\ req = Idle
    /\ workerLive = FALSE /\ pending = 0 /\ workers = {}
    /\ minted = 0 /\ acked = {} /\ tried = {} /\ liveId = 0
    /\ pushed = 0 /\ sends = 0 /\ faults = 0 /\ crashes = 0

Handler == Refuse \/ Admit \/ PersistDedup \/ Queue \/ Answer
Worker == \E w \in workers : Run(w) \/ MarkProcessed(w) \/ Drain(w)
Start == Open \/ Resume

AdmNext ==
    \/ \E b \in Bodies : Replayed(b) \/ Fresh(b)
    \/ Handler \/ Worker \/ Start \/ ServerDies

(* The goroutines are scheduled and systemd restarts the unit.  Nothing    *)
(* obliges a provider to send, an append to fail or a process to die.      *)
AdmSpec == /\ AdmInit /\ [][AdmNext]_admVars
           /\ WF_admVars(Handler) /\ WF_admVars(Worker) /\ WF_admVars(Start)

-----------------------------------------------------------------------------
LedgerLines ==
    {TornLine} \cup [kind : {"admitted", "processed", "superseded"},
                     id : 1..minted, body : Pushes]

AdmTypeOK ==
    /\ ledger \in Seq(LedgerLines)
    /\ dedupFile \subseteq Bodies /\ dedup \subseteq Bodies
    /\ up \in {"down", "starting", "up"}
    /\ latched \in BOOLEAN /\ workerLive \in BOOLEAN
    /\ req = Idle \/ req \in [pc : {"append", "persist", "queue", "answer"},
                              body : Pushes, id : 1..minted]
    /\ pending \in 0..minted /\ liveId \in 0..minted
    /\ workers \subseteq [id : 1..minted, pc : {"run", "mark", "drain"}]
    /\ minted \in Nat /\ acked \subseteq Pushes /\ tried \subseteq 1..minted
    /\ pushed \in 0..MaxPushes /\ sends \in 0..MaxSends
    /\ faults \in 0..MaxFaults /\ crashes \in 0..MaxCrashes

(* A push answered 200, as a new admission or as a replay, has its record  *)
(* on disk, through failed appends, redeliveries and restarts: "never ack  *)
(* what isn't durable" (newWebhookHandler).                                *)
AckedIsDurable == acked \subseteq AdmittedBodies

(* No crash or failed append leaves a ledger the next start refuses, and   *)
(* one delivery is admitted once, however often it is sent: also when a    *)
(* failed append did reach the disk and its body was un-recorded           *)
(* (FileLedger.failed, ParseLedger and SeedDedupFromLedger).               *)
LedgerSound ==
    /\ ~Corrupt
    /\ \A m, n \in Lines("admitted") : ledger[m].body = ledger[n].body => m = n

(* While every append of this process succeeded, an admission the ledger   *)
(* holds open is somewhere in memory, once: being admitted, in the slot or *)
(* with the worker, of which there is at most one (admissionQueue).        *)
NoneForgotten ==
    /\ Cardinality(workers) <= 1
    /\ workerLive <=> workers # {}
    /\ up = "up" /\ ~latched =>
          \A i \in Unclosed : \/ req # Idle /\ req.id = i
                              \/ pending = i
                              \/ \E w \in workers : w.id = i

(* The app never goes back to a push admitted before the one that serves,  *)
(* through lost marks, restarts and replays (markSupersededLocked,         *)
(* markProcessed, NewestPending).                                          *)
NeverBackwards == [][liveId' >= liveId]_admVars

(* Whatever was answered 200 gets its turn: again and again every such     *)
(* push has been deployed, or one admitted after it, and pushes once       *)
(* answered or deployed stay so.  The provider will not send it again      *)
(* (resumeAdmissions).                                                     *)
AckedIsTried ==
    []<>(\A n \in Lines("admitted") :
            ledger[n].body \in acked => \E i \in tried : i >= ledger[n].id)
=============================================================================
