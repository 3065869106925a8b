# teploy: a verification development

teploy deploys container and static applications to plain servers over SSH.
Nothing of it runs permanently on a target: every operation is a CLI process (a
developer's, a CI job's, a systemd timer's, a webhook listener's) that sends
shell commands one at a time, and several may work on one application at once.
What makes the system correct is therefore a protocol over files, containers and
labels on the target, executed by clients that lose connections, die between two
commands, or send a command that runs long after its sender gave up.

The modules here specify those protocols, TLC checks them on small instances,
and TLAPS proves the central properties for every instance.  Paths below are
relative to `src/internal/`.

Contents: [the system](#the-system), [the modules](#the-modules),
[the runs](#the-runs), [the proofs](#the-proofs), [findings](#findings),
[what is not modelled](#what-is-not-modelled), [the plan](#the-plan).

## The system

### State on a target

| state | written by | read by |
|---|---|---|
| `/deployments/<app>/.lock/` and its `info` | every operation on the app; heal; `teploy lock`, `teploy unlock` | all of them, and the guard of every fenced command |
| `state.json`, `.generation` | deploys, rollbacks, `teploy remove`, home changes, cutovers | all of them; `status`, `plan`, `domains` |
| the containers, with version, process and generation labels | deploys, rollbacks, lifecycle commands, heal, cutovers | deploys, takeover reconciliation, prunes |
| the Caddyfile shared by a server's apps, and `lockDir` beside it | deploys, rollbacks, `route`, maintenance, previews | Caddy; the same |
| attempt journals, release records, the repair-debt marker, pins | deploys, rollbacks, `pin` | takeover reconciliation, rollback, retention |
| the config home (a bare git repository), poll state, webhook ledger | `config set`, the poller, the webhook server | deploys triggered from a server |
| backups in an object store | backup, prune | restore, verify, cutover |

### Components

| component | operations | what is hard | what makes it correct | status |
|---|---|---|---|---|
| lock (`state/state.go`, `state/lock.go`) | acquire, break, renew, release, heal, freeze, unlock | judge and remove are two commands; a renewal or release races a takeover; lost answers | a lost lock is never regained; a late command leaves a successor alone; waiters get through | modelled |
| committed state (`state/publication.go`, `state/state.go`) | commit, tombstone, home marker, remove | a lost answer; a command that runs later; two files | a compare-and-swap register; an "aborted" commit never was visible | modelled |
| recovery table (`deploy/recovery/recovery.go`) | decide | order of the rules; three-valued evidence | acts only on proof, undoes only what can be restored | modelled |
| takeover (`deploy/reconcile.go`) | observe, re-observe, decide | any read may fail | proceeds only over a clean target | modelled |
| deploy (`deploy/deploy.go`, `journal.go`, `staleroute.go`) | start, check, switch, commit, retire, undo | takeovers between any two steps; partial failure of an undo | authority served, route live, successors spared | in part |
| Caddyfile (`caddy/caddy.go`) | the edit transaction, its lock | breakers race; rollback of a shared file | other apps' blocks survive; file and Caddy agree | in part |
| rollback and lifecycle commands (`deploy/rollback.go`, `lifecycle.go`) | back to an earlier release; stop, start, restart | two undos whose own commands fail; compensation by name | a failed rollback leaves what it found; success serves; the newer is spared | in part |
| webhook listener (`autodeploy/`, `cli/autodeploy_serve.go`) | admit, queue, supersede, run, resume | a death between admission, deploy and mark; torn ledger lines; redeliveries | an acknowledged push is durable, is tried, and never moves the app backwards | in part |
| git trigger (`gitsource/poll.go`) | poll, refuse, skip, retry, reset, manual deploy | a death between deploy and save; force pushes; a writer without the lock | no rewritten history deployed; attempts bounded; every head dealt with | in part |
| config home (`confighome/`) | edit, merge, restore, purge, change of home | two editors of one head; moves that die half way; a purge that deletes its own lock | no saved edit lost; purged history stays gone; the marker has its repository | in part |
| backups (`backup/accessory.go`, `retention.go`) | store, mark as safety copy, prune | a plan from one listing while others store; wrong clocks; refused and cut-off deletions | what the rules keep is never lost; a primary implies what belongs to it | in part |
| heal, static sites, records, pins, cutover, fleet, previews, reconnection, accessories | | see [the plan](#the-plan) | | not modelled |
| parsing, building, secrets, DNS, reporting, host setup | | no protocol between actors | | not modelled |

`PROJECT.json` lists them all with their sources, and under `hazards` the
places where one of these difficulties bites, with the properties that would
catch it; the rest are in [other hazards](#other-hazards).

### How they interact

An operation takes the app's lock, starts a renewal, reads the state, and from
then on prefixes each command that matters with a guard: a `grep` of its own
token in the lock's `info` file, in the same remote shell as the effect.  A deploy
edits the shared Caddyfile, which has a lock of its own; its commit goes through
the guarded, generation-compared rename of `state.json`.  Containers carry the
generation of the deploy that made them, so that a late stop can be refused.
Undoing is deliberately not guarded by the lock: it must work for a deploy that
has lost it.  A client that broke a stale lock looks at the target before it goes
on, and the recovery table decides whether it may.

Deploys are started by people, by the webhook listener and by the poll; each
takes the app lock for the length of the deploy and none holds it between two.
What the listener and the poll know across deploys is in their files: the
admission ledger, and `admissions/state.json`.  An app's settings are either in a folder
beside the code or in a repository on the server, and `state.json` carries the marker
that says which; a gate before every deploy squares marker and repository.
Backups go to an object store.  They take no lock of the app, and a prune and a
backup have none in common.

## The modules

```
Lease
   | refined by
AppLock ── EXTENDS ── FencedState ── refines ── CommitRegister
   :                       :   :
 (lease, from outside)     : (commit, from outside)
   :                       :   :
DeployLifecycle ───────────:───+── Rollback          CaddyEdit
   |                       :                         (a switch, from outside,
INSTANCE Recovery ── RecoveryOwner                    of both)

Admission    GitPoll    ConfigHome    Retention
```

| instance | composes |
|---|---|
| MCAppLock, MCFencedState, MCCaddyEdit, MCDeployLifecycle | constants, plans and symmetry of one module |
| MCLockedState | AppLock under every fault, FencedState under its every operation |
| MCServed | FencedState, ConfigHome, Retention: what is kept of an app |
| MCTriggers | AppLock, RecoveryOwner, Admission, GitPoll: what happens around a deploy |
| MCRoutes | CaddyEdit, Rollback: what moves a route after the deploys |

The last four have a variable `scene`: a behaviour moves one of the modules and the
others rest.  The modules of one host meet only in a lock or a commit that
another module shows to behave as one step, so what they do together is what
each does beside any behaviour of that step; the run explores the sum of their
state spaces and not the product.

A module has its theorems in `<module>_proofs`; `Triggers_proofs` has those of Admission and GitPoll,
`Routes_proofs` those of CaddyEdit and Rollback.

Conventions.  A command sent to the target is one step; a guard and its effect,
being one remote shell, are one step.  Files staged under a unique name have no
effect until they are renamed and are not state.  Constants ending in `At`
(`CrashAt`) and `Dies` say where clients may die, and `Faults`, `Fails`, `Lossy`, `Ambiguous`,
`Delayed` which commands may fail, with their effect or without, and whether they
may run after their sender has given up; constants beginning with `Max` bound
what is otherwise unbounded.  Definitions marked "Mutant" are changes
a plausible bug would make; no specification uses them.  Variables marked
"history" are for properties only.

**AppLock** is `/deployments/<app>/.lock`: `lockDir`, the `info` file's owner
(`lockInfo`), the `age` of its stamp, and where each client is (`pc`).  `Mkdir`,
`Inspect`, `Break`, `Remkdir`, `WriteInfo`, `Unwind` are the commands of
`acquireAutoLockOnce` and `AcquireHealLock`, `Renew` a tick of `StartRenewal`,
`Release` and `Rerelease` the two commands of `ReleaseLockFenced`, `HealRelease`
the unconditional `ReleaseLock`, `UnlockRead` and `UnlockRemove` `teploy unlock`.
An operation in `Renewing` started renewal, one in `Patient` was given `--wait`.
Time is an age saturating past the larger limit; limits are scaled to AutoTTL = 3,
HealTTL = 1, RenewEvery = 1, which keeps "three missed renewals fit".

**Lease** is what the lock promises its operations: one name at a time, granted to each at
most once, given back only by whom it names, and possibly taken away at any moment.  `holder` is
the operation in the `info` file, `phase` where it is by `pc` (a client whose upload failed is "out", though the file may name it), `poisoned` is `lost`.

**FencedState** adds `state.json` (`stateFile`), `.generation` (`sidecar`) and its
one shared staging name (`sideTmp`), and each holder's operation.  `Prepare` is
reading the state and building its successor (`NewAppliedState`,
`WriteTombstone`, `SetSchemaVersion`), `Commit` the guarded command of
`writeFenced`, `CommitDelayed` and `Land` the same command outliving its sender,
`Resolve`, `CheckLease`, `StageSidecar`, `PublishSidecar` are
`resolvePublication` and `writeGenerationSidecarFenced`, `DropTombstone` the
return of an undeployed app to its folder, `RemoveCheck` and `RemoveErase`
`teploy remove`.  `teploy remove --purge`, which deletes the whole directory, lock and
all, is in ConfigHome.

**CommitRegister** is what the state promises: a register replaced only by a
writer that still holds the value it read.

**Recovery** is the table as operators, rule by rule in the code's order
(`Decide`), the lattice's canonical windows, and `Observe`, the reads that feed
it.  **RecoveryOwner** is the client that broke a lock: any reads may fail, an
INSPECT is re-observed once, and only RETRY proceeds.  A look is one snapshot of
the target; web containers are told apart, other processes count as foreign when
no release record explains them.

**DeployLifecycle** is `deployFenced`: 37 steps from the lock to its release, with
the containers (name, maker, generation, whether fixed to a host port, whether
running), the app's `route`, `current` (state.json) and `records`.  A container is
addressed by name or by id exactly as the code does at that place, which is what
its properties are about.  The lock is AppLock's lease seen from outside: it names
one operation at most and may be broken; the commit is FencedState's seen from
outside.  A release has one web replica and at most one worker.  Hooks, volumes,
attempt files, images, pruning and the readiness receipt are left out: no other
step reads them.  What a redeploy does to the name its predecessor had is `InspectReplaced`, `ClearReplaced`, `Rename` and
`ConfirmAbsent`, one command each; a candidate is started by `Run`, with `ClearStopped`, `Vacate` and `Rerun` where its name is taken
(`clearStoppedContainer` and the second try of `RunGuarded`) and `InspectPartial` and `RemovePartial` after a failure (`reconcilePartialRun`).  Only the
run itself carries the lock's guard; a look may fail and is then taken for what the code takes it for, and a run, a stop, a
rename or a switch may answer an error and have had its effect.  `usurped` (lost the lock alive), `unsaid` (left something up or down that its
outcome does not tell), `blind` (acted on a name unseen or after the lock was lost) and `unsure` (switched the
route and was told otherwise) are history variables, for properties only.

**CaddyEdit** is `mutateWithCAS`: the shared lock with its races, the whole-file
read, the guarded commit with the exact-block comparison, reload, delivery check
and whole-file rollback.  A block stands for its text; apps have distinct hosts, so
the adoption of foreign blocks does not arise.  `strays` is a history variable.

**Rollback** is rollback, stop, start and restart over three releases of one app, each beside
another operation or a redeploy.  A container is named for its release and process, so a
rollback and a redeploy of one release meet under one name; it keeps its generation label through every
recreate.  `ReadState` to `Retire` are the commands of a rollback in order: read state, region and containers, free
the fixed ports, remove and run the target's containers (`RestartFenced` is two commands),
check health, switch, commit, retire.  `RestoreRoute`, `StopStarted` and `RestoreDisplaced` are its undos, which the code addresses
by comparison, by name, and by label; `Halt`, `Launch` and `CheckStarted` are stop and start.  The route edit is CaddyEdit's, the lock and the commit are
FencedState's, all seen from outside; a redeploy is one step.  It may not take the name of a container that runs (`Occupied`, docker's refusal and
`clearStoppedContainer`'s), unless it frees a fixed port and so has stopped the web container first; refused, it undoes what it began.
A stop, a run (`StopFails`, `RunsUnheard`) or a switch may answer an error and have had its effect; whom that happened to is in `misled`, a
history variable like `robbed` and `muddied`.

**Admission** is the webhook listener: the ledger's lines and the replay set's snapshot on
disk (`ledger`, `dedupFile`), the process's memory, and one request at a time under
`admissionMu`.  `Admit` appends the admission, `Refuse` un-records a body whose append failed, `Queue` is the newest-wins slot,
`Run`, `MarkProcessed`, `Drain` the worker, `Open` and `Resume` the start after a death.  An append
that fails leaves its line whole, torn or absent; a death may tear the lines being
written.  A body is a delivery; the same body again is a provider's redelivery.

**GitPoll** is `trigger poll` against a branch that moves: `adm` is
`admissions/state.json`, which every command loads and saves whole.  The poll is `StartPoll` (lock,
load, ls-remote), `Fetch` (the mirror takes the branch as it is by then), one of `PollGone`, `PollDeduped`, `PollRefuse`,
`PollSkip`, `PollDeploy`, and `SaveJob`; `CutOff` ends it anywhere.  Manual deploys hold the lock too; `Reset` and
`RetryLoad`/`RetrySave` hold nothing.  Commits are a small tree, `Docs` those that touch no watched path.

**ConfigHome** is the repository of an app's settings: `HelperWrites` is the server's helper under its
file lock, which commits only over the head its caller read.  Edits, merges, full writes, restores and purges
read, then write; a key edit retries a conflict a bounded number of times.  `config home teploy` and
`config home folder` move the settings, deploys ask the gate, `remove` takes the state and with `--purge` the whole
directory, its own lock included.  A config is the set of edits in it.

**Retention** is a prune beside the commands that store.  Selection is operators: `SelectKept` says what the
rules keep, `Scanned` computes it the way the code's one pass does, `Primaries` and `Sidecars` are the plan from
one listing, `PruneBrake` the refusal of a mass delete.  `StartBackup` to `MarkSafetyCopy` store globals, databases, the primary
object and the safety marker in that order; `CheckPruneClock`, `PlanPrune`, `DeleteObject` are the
prune.  Every command reads its own machine's clock.  A day and a week are small numbers of ticks (`Period`); a monthly
rule is another period.

## The runs

| run | instance | properties | states |
|---|---|---|---|
| `locks` | *lock:* 2 renewing operations, a heal pass, a freeze, an unlock; crashes, lost answers, outages. *state:* 2 operations of every kind, removal and return to a folder included, an unlock; delayed commands; 2 generations | LockInv, ImplementsLease, FenceLossIsPermanent, ReleaseSparesSuccessor; NoLostUpdate | 1 946 000 |
| `commits` | *state:* 2 operations, an unlock, deploys and home changes, lost answers, late commands, 3 generations. *config:* 2 clients, 5 commands, one cut off. *backups:* 2 machines, 2 backups and any number of prunes, one refusal | ServedTypeOK; AbortedUnpublished, HolderCanCommit, OkIsAuthority, ImplementsRegister; AckedKept, OrphansHaveACause, PurgeHolds; NothingKeptIsLost, SurvivorsWhole, ScanAgrees | 1 653 000 |
| `triggers` | *lock:* 3 operations (2 waiting, 1 not renewing), a heal pass; a holder may die. *takeover:* every recorded state, target and set of failed reads, two looks. *webhook:* 3 pushes and a ping sent 4 times, one failed append, one death. *poll:* a branch over 3 commits moved twice, one run cut off, one command | TriggersTypeOK; WaiterGetsThrough; ProceedsOnlyClean, TableIsSound; AckedIsDurable, LedgerSound, NoneForgotten, NeverBackwards, AckedIsTried; AttemptsBounded, NoForcedDeploy, HeadIsDealtWith | 850 000 |
| `deploys` | 2 deploys after a founder, 6 sets of plans; lists, looks, stops, runs, switches and commits that fail, with their effect or without; crashes, broken locks, unlock | TypeOK, AuthorityRunning, RouteLive, SettledClean, FencedSparesNewer | 2 721 000 |
| `routes` | *edit:* 3 edits of 2 apps; broken live locks, failing uploads, reloads, checks, restores, lost answers, crashes. *rollback:* 2 operations of 5 kinds on an app of 3 releases, one with a worker, over 3 kinds of ingress; 6 faults, with their effect or without, broken locks, deaths | RoutesTypeOK; OneWins, SettledAgrees, LockedEditsKeepOthers; FailedRollbackUndone, OkServes, FencedRollbackSparesNewer | 3 978 000 |
| `orphan`, `folder`, `dark`, `displace`, `late_restore`, `clobber`, `stale_rollback` | see [findings](#findings) | one each, violated | |

What they show.  *The lock:* its guard is sound although its
takeover is racy, and to its operations it is a lease; under fair scheduling a dead holder does not block anyone for
ever.  *State:* a commit that allows its caller to undo never was visible; no operation
overwrites a state it did not read.  *Takeover:* a client that broke a lock proceeds only over a clean target.
*Deploys:* wherever a deploy stops, the authority stays served, the route live and a later generation's
containers alone, and what settled is clean, each up to the commands that are not guarded and the answers that lie.  *Routes:* an edit of one app's route does not cost
another app its own.  *Rollbacks:* one that fails, and heard the truth of its commands, leaves what it found; one that succeeds serves, and one that lost its
lock spares what is newer, but for what its undo stops by name.  *Webhook:* an acknowledged push is on disk, is
admitted once, is tried, and the app never moves back to an earlier one.  *Poll:* no commit is deployed that does not contain the
last one recorded, none more often than the cap, and every head is dealt with in the end.  *Settings:* no saved edit is lost, what was
purged stays gone, and a marker without its repository has a known cause.  *Backups:* what the rules keep of
everything ever stored is in the store, and a backup whose primary is there is whole.

Some properties carry an exception, each named in the property and none hidden in the model.  The model has the steps that are
excepted, and without the exception TLC finds the counterexample described.

- `NoForcedDeploy` and `AttemptsBounded` speak of behaviours in which no save of the poll state overwrote another.
  `trigger retry` reads and writes that file without the lock (poll.go:366-392); without the exception TLC finds it putting an old
  watermark back, after which a force-push is deployed unrefused.
- `OrphansHaveACause` excepts the move to a folder and a purging removal that another
  command overlapped: `remove --purge` deletes the app directory with its own lock in it (cli/remove.go:348), so a deploy may commit a
  marker before the repository is wiped.
- `SurvivorsWhole` excepts backups that a prune's listing caught half stored with a newer one beside them, whose globals or database copies it
  may then delete, and backups one of whose deletions was refused: PruneBackups goes on to delete what belongs to a primary that stays.
- `AuthorityRunning` excepts behaviours in which a deploy was `blind`: a look at a `_replaced` name failed, and the code takes that for "not running" and
  goes on to `rm -f` (deploy.go:616-619); or a command by name that has no guard of its own came after the lock was lost.  These are the `rm -f` and the rename of a
  redeploy, the `rm -f` of what a failed run left (deploy.go:1946), the retirement by derived names and the undo's restart of a
  `_replaced` name.  Each then may end the one container that serves.  No command need fail: A redeploys, finds nothing under the
  `_replaced` name and loses its lock; B redeploys the same release and looks too; the rename of one moves the serving container under the name, and the other's removal takes it.
- `RouteLive` excepts a switch that was made and whose answer was lost (`unsure`): the deploy treats it as failed, removes its
  candidates and leaves the block that dials them (deploy.go:1039-1048); nothing puts the old block back.
- `SettledClean` excepts what a deploy leaves without a word (`unsaid`): a candidate whose run's answer was lost and which runs, for
  `reconcilePartialRun` leaves what runs alone (deploy.go:1943) and the undo knows only what was started; a fixed-port container whose stop failed after it had
  stopped, which is not on the list of the displaced (deploy.go:687-700); and what an undo that drops its errors did not stop.  A failed look at a
  `_replaced` name is excepted too: the redeploy then may remove the old container and, when its own fails its check, end in a plain failure with no web container.
- `FencedSparesNewer` excepts the four commands that address by name with neither guard nor label: the displacement (finding `displace`), the by-name
  retirement, and the two `rm -f` above.
- `AbortedUnpublished` excepts an operation whose own commit ran after it had been given up and the state read (`belied`).  A cancelled command
  may still run on the target (ssh/remote.go:176), and nothing the client reads can exclude that; the run has such commands.
- `FailedRollbackUndone` excepts a rollback that was `misled`: a stop that failed after it had stopped is not on the list of the displaced
  (rollback.go:356-363), a restart or run that failed with its container up is not on the list of the started (rollback.go:387-403), and a switch
  whose answer was lost is not put back (rollback.go:536-550).  Each gives a plain failure over what it did not find.  It also excepts dropped errors of the undo (`muddied`) and lost locks.
- `FencedRollbackSparesNewer` excepts the undo's stop by name, which is the finding `stale_rollback`.

**Bounds.**  Two operations and one of each other kind give every pairwise race;
a third operation is in the lock scene (a waiter must be able to lose to another waiter)
and a third edit in `routes` (two breakers of one dead editor).  A successor's
successor adds nothing to properties that relate a client to whoever comes after it:
generations and tokens distinguish "mine", "earlier" and "later" only.  `MaxGen`
bounds generations: 2 is the least with a state replaced twice, 3 the least at which a
generation is refused over one refused before.  The plans of `deploys` are each a way two deploys can
collide: new releases with a worker dropped, a redeploy of the current release
followed by another or by the same, the same first release twice, a route left
behind by a release that has none, and fixed ports behind a route.

Three releases let a rollback meet a third one's leftovers.  Three pushes are the least with one running, one waiting and one
superseding it, and the fourth delivery repeats any of them.  The poll's tree is a root, a commit on it that touches
no watched path, and a fork; with three attempts per commit scaled to two.  Five commands let two clients edit, purge, move and edit again.  For backups
the calendar is scaled to a day of 2 and a week of 4 ticks, the clocks are one tick behind (accepted) or two ahead (refused), and the store starts
with a backup dated far ahead, or with an empty dump beside a good one.
`locks` and `commits` use symmetry over two
operations of one configuration; their properties are invariants and action properties that
treat the operations alike.  So do `routes`, over the two edits of one app and over the two rollbacks, and `deploys`, whose plans come with the parts of the two deploys exchanged.  Runs that check liveness use none.

**Deadlock** is not checked: every client may finish, and nothing is left to do.

**Fairness.**  *Lock* (`triggers`, `orphan`): weak fairness of each client's commands, of the
end of each holder's work, and of the clock.  A client is one process that sends its next command
when the last has answered or timed out, so a step that stays enabled is taken;
work ends because deploys, probes and drains carry deadlines; `Tick` waits for a
renewal that is due, which is what a connected live renewer's timer gives.  *Webhook:* weak
fairness of the handler, the worker and the start: goroutines are scheduled and systemd restarts the
unit.  *Poll:* weak fairness of the timer's next poll, of a running command's next step and of a retry's save.  A crash, a
failure, a push and a person's command are never fair.

## The proofs

14374 obligations, all for arbitrary sets of clients, any timing and any combination of
faults unless a theorem says otherwise.

| module | theorem | what |
|---|---|---|
| AppLock_proofs | LockTyping, LockInvariant, FenceLossPermanent, ReleaseIsFenced, NoGhostLock | the lock's types and every safety property of the lock |
| | LeaseImplemented | the lock implements the abstract lease, whatever breaks it, dies or goes unanswered |
| FencedState_proofs | LockRefined | the composed lock behaves as AppLock specifies |
| | NoUpdateLost, OkStaysAuthority, RegisterImplemented | the state is a compare-and-swap register; the last two without `remove` |
| | CommitNotFenced, AbortIsSafe | when only commits run, late ones included; the latter but for an abort that its own late commit belies |
| RecoveryOwner_proofs | OwnerTypes, OwnerProceedsClean, TableSoundness | the table, its agreement with the lattice, and its owner |
| DeployLifecycle_proofs | DeployTypes | what a deploy remembers is shaped as its position in the code requires |
| | SuccessorSpared | only four unguarded commands by name can end a successor's running container |
| | AuthorityServes | whoever loses the lock to whom, the release in state.json has a running web container, while the deploys are blue/green and none was blind |
| | SettlesClean | when every deploy has ended in success, plain failure or refusal, with no lock lost, no deploy blind and nothing left up or down unreported, only the authority's release runs, with one web container |
| | RouteServes | while no live deploy loses its lock, and until a switch's answer is lost, the route dials a running container |
| Routes_proofs | OthersKept | edits that commit or roll back under the lock leave other apps' blocks alone |
| | OneEditWins, EditsSettle | of edits that compare with one block one succeeds; what settles is what Caddy runs, and only successful edits are in it |
| | LateRollbackSpares | a rollback, stop or start that lost its lock spares what is newer, but for its undo by name |
| | FailureLeavesWhatItFound | while no lock was lost: a rollback that fails leaves what it found, but for an undo whose dropped error is on record and a command that lied |
| | SuccessServes | while no lock was lost: what reports success serves, also over what dead operations left |
| Triggers_proofs | AdmissionInvariant, Durability, SoundLedger, NothingForgotten, ForwardOnly | every safety property of the webhook listener |
| | GitInvariant, CappedAttempts, NothingForced | every safety property of the poll |
| ConfigHome_proofs | StoreInvariant, SavedEditsKept, ErasedStaysOut | no saved edit lost, nothing purged comes back unclaimed |
| | NoStrayMarkers | the marker has its repository, but for the two named exceptions |
| Retention_proofs | RetTypes, RulesHold | no prune, however concurrent, deletes what the rules keep of everything ever stored |
| | SurvivorsStayWhole | what survives is whole, but for the two named exceptions |

**The arguments.**  *Lock.*  `LockInv` is inductive with the types: an `info` file names an
operation only after that operation's own upload, so a client that is past its
acquisition and not named has no step left that would name it.  Everything else
about the lock follows from it, step by step.  The refinement of Lease needs only the types: a write of the
`info` file is the grant, or, when its answer is lost, the end of the attempt; a removal, whoever's and however
late, is a loss for whom the file names; a renewal or a retried release that finds another's name changes nothing.
Its proof goes client by client (`AcquireLeases`, `HolderLeases`, `OthersLease`, `EnvLeases`).

*State.*  A replacement is guarded by the token and by `sidecar <= saw.gen`.  The comparison alone would not do: a
sidecar may lag behind the state when the shell dies between its two renames.
The strengthening (`ReadInv`) says that what a named holder has read is still the
committed state until it publishes, because the only others that may publish must be named too;
with the fence theorem of the lock this gives the next-generation property.  `HeldInv`
carries it through a holder's later steps to "an acknowledged commit is authority".
`GrowInv` adds that the sidecar never runs ahead, which needs the operations that
delete state.json excluded: with them it is false (finding `folder`).
A commit given up may still run.  AbortIsSafe says that a conclusion "it may be undone" was right when it was drawn, lost answers and late commands of
others included, and that only the operation's own command can belie it afterwards.  The refinement
maps `value` to `stateFile` and `seen` to `saw`; every step is a read, a
replacement, a reset or a stutter.

*Recovery.*  `OwnerInv` restricts the admitted target to the worlds its reads can produce and ties a
verdict to proceed to the table's answer RETRY; the rest is a case analysis over the rules.

*Deploy.*  The strengthening (`Shape`) says that the containers a deploy remembers as started
carry its own name as their maker, beside the types of the plan, the containers and the memories;
each step that stops, removes or remakes a container then either matches by maker or looks at the
generation label.  `TypeInv` adds what a deploy has read by each position, which the steps that use it rely on.

For the route, `LiveIInv` is `LiveInv` wherever nothing has disturbed the deploys so far (`Quiet`: all blue/green, no live lock and no answer of a
switch lost, no redeploy of the current version).  `Lone` says that one deploy moves and the lock names it; `Serving` that
containers of one name are one, and that the authority and the block have theirs; `Stage` what the deploy relies on where it is: before the switch
that its container is not dialled, between switch and commit that the block is its own and what it would put back
dials the authority's container, after the commit that what it retires is dialled no more.  With a lock broken under a live deploy it is not inductive,
and `late_restore` shows why.  No assumption on the faults is made: the switch that answers an error after it was made is a step, and the
history of it ends the claim.  The answer of the undo's own switch may be lost without harm, both workloads then stay.

For the authority no such premise is left: any number of deploys may move, each on what it once read.  `AuthIInv` is `AuthInv` while all are blue/green
and none was blind (`Calm`).  Its core is `Steady`: a web container of the authority's release and generation, `OfState`, is never stopped, and `Served`: there
is one which nobody will take away as its own any more (`Safe`).  `ReadInv` is the fence: a generation is one state, so a deploy that read an earlier
generation than the authority's stays behind for good, and its restarts and retirements look at a label such a container does not bear.  What is left are the
deploys that read the authority itself (`UpToDate`): what such a holder is about to remove by name is not of the authority (`ClearsOther`, since
it looked, and only a holder renames), nor is what its undo restarts (`RestartsOther`).  The commit is the step that needs most: the holder's candidate runs (`OwnUp`), and
nothing of a later generation was moved aside under it (`AsideOld`, `OldAside`).  A redeploy of the current release keeps the serving container in all this, under
another name.  Here the checks of the lock do matter: without the lock the look at the `_replaced` name says nothing of what the removal finds there, and this is what `blind` records.
TLC checked `AuthIInv` with 2 deploys over blue/green plans of two releases and every fault (2 085 000 states).

For what a settled set of deploys leaves behind, `TidyIInv` says what runs at each place of a deploy, while the premises of SettledClean still can
come true (`Tame`).  They cannot come back once gone: a deploy reports once (`Answered`), and lost locks and leftovers left unsaid stay.
Then one deploy moves at a time (`Lone`), and it finds and leaves the authority's release with its one web container (`Tidy`).
In between `Accounted` says what runs beside the containers of the deploy itself: either the release it saw, whole (`Serves`), or that release with its
web container displaced, and then the deploy owes exactly that one (`Even`, `Down`).  Its own containers are on its list of
what it started (`OwnMade`, `OwnRuns`), so an abort takes them all; the inventory holds everything that is to go (`Listing`), so a retirement leaves none of the
old release (`Retiring`); and a redeploy's predecessor has been moved out of the way of the new name (`Aside`), which also says that what
is removed by name after a look does not run.  Where a name is taken (`Again`) the candidate before it keeps running (`OwnRuns`).  Every failure leads back to
`Tidy`, or ends in an outcome or a leftover that the property excludes by name.  The theorem needs no assumption on plans or faults, recreate and
redeploy included.  TLC checked `TidyIInv` with 2 deploys one after the other over all plans of two releases, recreate included, and every fault (377 000 states).

*Caddyfile.*  `EditInv` says, until an editor without the lock puts a file back, that an
editor the info names is between its upload and its end, and that the file is what it read
(before its commit) or what it read with its own block replaced (after it).  A breaker that removes a live
lock does not disturb it: it makes the named editor unnamed, and the guard then
refuses its commit.  That gives OthersKept.  For the outcomes it adds that a block is nowhere before its edit's commit
(`NotYet`), that each block in the file, and in what a named editor may put back, is of an edit that succeeded or has yet to
answer (`AllBacked`), and that the block a successful edit was compared with is gone for good (`NotBack`), unless it was no block
and a removal came between: two edits that both found none may then both succeed, one after the other.

*Webhook.*  `AdmInv`: the replay set and the ledger agree but for the body being admitted and one whose failed append
reached the disk (`ReplayAgrees`); the deployed, running, waiting and arriving admissions are in that order
(`InOrder`); what is to be run is open (`StillOpen`), and while no append has failed each open admission is held by somebody
(`AllCovered`).  A failed append latches the ledger: nothing is written until a restart has read it all back and repaired the end.

*Poll.*  `GitInv` carries the exception of the properties: while no save overwrote another, a job's base is the file as far as attempts
go, since beside a job only resets and retries write and both lower them (`OnlyLowered`); runs are on record, cut off or
about to be saved (`RunsCounted`); and the watermark, in the file and in the job's memory, contains the last recorded deploy (`WatermarkHolds`).
`AncestorsOf` is defined as the least set closed under parents, so that transitivity follows from the definition
where a recursive one would need induction.

*Settings.*  `StoreInv` is about the repository: commit ids grow, so a head that was read and still is the head stands for the same history;
each command's edit is fresh; what is saved is at a head, its own or an archive's; what was erased and is back is in every
commit since.  `HomeInv` is about the home: the commands under the app lock exclude each other, and what a deploy or a claim saw of the repository holds or a purging removal is on record.
`Unheld`, the free lock, is no client.

*Rollback.*  `LateRollbackSpares` needs no strengthening beyond the shape of what an operation remembers: each
command is guarded by the lease, compares the generation label of the container it addresses, or is the undo by name.
The other two are about one operation at a time, which is what a lock nobody lost gives (`Alone`), and about each of its stages in
turn (`Stage`, one predicate per stage): before the commit, what runs is what was found but for the containers that made
way, and of the target no more than what was started (`Forth`); after a failure, what is left to stop and to bring back is exactly
the difference to what was found (`Back`), unless the operation was misled, in which case its position is all that is kept (`MisledLands`); what is there of the target runs, but for the containers whose turn is to come (`Whole`).
`FoundInOrder` is needed where a container may run that no release the rollback knows owns.

*Retention.*  The rules are monotone in two ways (`NewerGrows`, `BucketsGrow` and the lemmas built on them): a series with more in it keeps no
more of what it had, and a later clock keeps no more than an earlier one.  So a backup that one
listing, read by any clock a prune accepts, puts outside the rules is outside them among everything ever stored and by the
latest accepted clock.  `RetInv` says so of every doomed object of every running prune (`RunsSound`) and of
everything no longer in the store (`LostExpired`); backups stored meanwhile only make the series larger.
`WholeInv` is for the parts of one backup.  Ids are given once, so a backup that is being stored, and one that a marker protects
(protection too only shrinks as markers and time are added), has nothing condemned and nothing lost (`ShieldHolds`); a plan that condemns a part
condemns the primary object of its id, if that is in the store (`RootsCondemned`); and because primary objects go first, a part that is gone has left no primary behind (`LostRootless`).
A listing that catches a backup half stored, and a refused delete, are where this fails, and what `torn` records.

**Assumptions** are the named ASSUMEs of the modules (the kinds of client are distinct,
three renewals fit the TTL, fault sets are subsets of the points that exist, releases are numbered as they were first deployed, a target's stored backups are a finite set of objects), which TLC
evaluates on every run.

**Only model-checked:** liveness (`WaiterGetsThrough`, `AckedIsTried`, `HeadIsDealtWith`), which needs fairness and ENABLED;
`ScanAgrees`, which speaks of a recursive function.

## Findings

| run | what TLC shows | what the repository says |
|---|---|---|
| `orphan` | a client that dies between mkdir and the upload leaves a lock without info, which no operation breaks and `teploy unlock` does not remove | lock.go:15-16: a dead holder "still self-heals" |
| `folder` | an undeployed app moved back to its folder keeps its `.generation`; every later commit is refused | cli/config.go:1065: "deploy with `teploy deploy` from there" |
| `dark` | a redeploy of the current version renames the serving container; when its check fails nothing renames it back, and the route dials a name nobody has | docs/first-success.md:108: "the previous version keeps serving" |
| `displace` | the stop of a fixed-port workload has no guard: a deploy whose lock was broken stops its successor's container | deploy.go:434-436: a stale operation can not "stop a newer generation" |
| `late_restore` | after its switch a deploy reads the block again and takes what it finds for its own; when a successor has switched in between, the undo of the first puts the old block over the successor's | deploy.go:1592-1595: the restore "refuses (ErrRouteCAS) rather than clobber the newer generation's route" |
| `clobber` | two breakers of one dead editor; a whole-file rollback without the lock takes another app's committed block back | caddy.go:53-54: deploys "can't clobber the shared file" |
| `stale_rollback` | a rollback that lost its lock to a redeploy of its own target stops the newer generation's containers when it unwinds: they bear the names it started | rollback.go:177-182: "a stale rollback can never stop, remove, or overwrite a newer generation" |

`dark`, `displace` and `late_restore` need no failing command and no crash; `folder` needs no concurrency at all.

Other places where code and comment part, seen while modelling and carried by the models as the code has them:

- `restoreRollbackRoute` says it is "deliberately UNFENCED", but the Caddy client it uses carries the commit guard (deploy/rollback.go:151): after a lost lock
  the restore is refused and both workloads are left running.
- The retirement by names follows a check of the lock under the comment "post-commit cleanup never interleaves with a new holder"
  (deploy/deploy.go:1222); the stops are later commands without a guard, and may (see `AuthorityRunning` above).
- The undo of a fixed-port rollback whose commit was refused removes the target's containers, so the app cannot be rolled back to them again.
- A redeploy of the current hash records it as its own predecessor, and a plain rollback then answers that it is already current.
- `FetchMirror` always answers the commit it was asked for, so a poll never lands "on something newer" (gitsource/poll.go:149-156).
- A refusal recorded for a head also refuses manual deploys of the ref until a reset; a branch forced back to a commit deployed earlier reads as up to date.
- `config home folder` reads the head before it archives the repository, with no lock against editors; the edit in between is at the head of the archive.
- A cutover appends the directory of originals to its receipt only after every move succeeded, so a partly moved accessory's
  originals are not "named in the receipt" (backup/bundle_restore.go:663-664).

## What is not modelled

Read-only reporting (status, domains, doctor, plan's rendering), parsing and validation of configuration,
image builds, secret encryption, vault and object-store APIs, DNS, and host setup: they keep
no state that another actor's step depends on, or their state is an external
service's.

Within modelled components:

| component | left out |
|---|---|
| deploy, rollback | more than one web replica, hooks, volumes, drains, image acquisition and pruning, attempt files, release records and their repair, the readiness receipt; a change of ingress between releases |
| Caddyfile | what a block says, adoption of foreign blocks, the maintenance stash, firewall, access and webhook fragments |
| webhook | setup, schedules, signatures, the path filter, the 24 h pruning of the replay set; a clock that steps back |
| git trigger | credentials and host keys, the interval, a change of repository, the pruning of old commit records, the timer unit |
| config home | what a config says: seed, validation, the three-way merge of keys |
| backups | dumps and engines, encryption and checksums, volumes, restore, verify; previous locations, the proof that a namespace is this server's (a check, then a write, that an unmarked first backup of another server may overtake), stale uploads, `--ignore-clock`, `--allow-mass-delete`, targets without a primary database.  The brake is a guard of the plan, but what it is for, a store that shares the server's wrong clock, does not arise: the store's clock is the true one |

## The plan

What remains, the most important first, each a module beside those it composes with:

1. **Cutover** (`backup/bundle_restore.go`): promotion of staged data with its originals kept, the state installed
   last, the containers restarted on failure.  To check: whatever fails or dies, every
   path is the old one, the new one, or named for recovery.
2. **Heal** over Rollback's containers: a pass lists and probes before it takes the lock, and restarts what a deploy may have retired meanwhile.
3. **Lease** as the lock of DeployLifecycle and Rollback in place of the lease each has inside.
4. **StaticSite**: publication by symlink swap, its undo, the pruning of releases.
5. **Maintenance** in CaddyEdit; **Records** (release records, the repair-debt marker, pins, what a prune may take); **Preview**; **Fleet** (bounded
   parallelism with fail-fast, then the load balancer); **Reconnect**.

## Other hazards

Beside those in `PROJECT.json`, which has the ones the properties are for:

| at | what can go wrong |
|---|---|
| src/internal/state/publication.go:41 | A cancelled commit is resolved by reading the state; if it lands after that read, its caller has already undone its work. `NoLostUpdate` holds all the same; `AbortedUnpublished` excepts such an operation (`belied`). |
| src/internal/state/state.go:108 | The generation fence refuses only over a newer committed generation; until a successor commits, the lock's token alone stands against an old operation. |
| src/internal/deploy/reconcile.go:62 | With the listing failed and the route on the candidates, the defaulted predecessor classes complete a window that was not observed. |
| src/internal/deploy/reconcile.go:150 | A block is attributed by substring: version v1 also matches a block of v12. |
| src/internal/deploy/recovery/recovery.go:362 | With no state file and a predecessor container seen, the table answers RETRY over traffic on the candidates. |
| src/internal/deploy/deploy.go:481 | After a refused takeover the lock is released, and a plain retry breaks no lock: it reconciles nothing. |
| src/internal/caddy/caddy.go:617 | The answer of the Caddyfile's rename is lost: a deploy or rollback treats its switch as failed and removes what it has just routed to. The models have the step; `RouteLive` and `FailedRollbackUndone` except what follows it. |
| src/internal/deploy/deploy.go:1447 | Retirement by derived names stops the single web name twice; on a redeploy the second, removed, one always reports a degraded outcome. |
| src/internal/docker/recreate.go:591 | `RestartFenced` removes and runs in two commands: a failed run leaves an app without the container it had. |
| src/internal/deploy/repairdebt.go:127 | A marker for another release replaces the one there: the older release's missing record is never repaired. |
| src/internal/cli/heal.go:398 | Heal lists and probes before it takes the lock: a restart may start what a deploy has just stopped. |
| src/internal/state/pins.go:47 | A pin is added by read and write of the file under a lock that cli/pin.go:92 never renews. |
| src/internal/cli/remove.go:250 | Several commands take the fenced lock and never renew it (cli/route.go:126, cli/maintenance.go:103, cli/retention.go:95, cli/pin.go:92, releasemeta/scrub.go:96): past thirty minutes they are broken while they work. |
| src/internal/cli/autodeploy_serve.go:474 | The worker marks an admission processed whatever its run's outcome: a deploy refused because the lock was busy is never tried again. |
| src/internal/gitsource/poll.go:259 | The branch is forced back to a commit deployed earlier: the ledger says up to date and the newer release keeps serving unannounced. |
| src/internal/gitsource/poll.go:313 | A manual deploy writes the watermark by read and write of the whole poll state; a retry in between is lost. |
| src/internal/confighome/store.go:376 | Leftover git locks are removed under the store's own file lock, on the argument that no other writer exists; a killed client's git child may outlive it. |
| src/internal/backup/retention.go:424 | The brake compares twice the doomed with the good ones of a series: off by one at exactly half, and bad or future-dated backups must count on neither side. |
| src/internal/backup/retention.go:555 | A primary's deletion is refused and its copies and sidecars are deleted all the same. |
| src/internal/backup/bundle_restore.go:815 | A cutover stops the live containers, promotes data path by path and installs the state last: a crash between leaves a stopped app over half-promoted data. |
| src/internal/caddy/caddy.go:463 | A second maintenance-on must not stash the maintenance block over the stashed route, and a failed reload must keep the stash that off has just restored. |
| src/internal/multideploy/multideploy.go:162 | Fail-fast only skips servers not started yet: the fleet may end on two versions, and the load balancer's update follows. |
