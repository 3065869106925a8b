------------------------------- MODULE Retention -------------------------------
(***************************************************************************)
(* Which backups stay (internal/backup/retention.go), beside the commands  *)
(* that store them (accessory.go): a backup stores what belongs to it,     *)
(* then its primary object, and prunes by one listing of the store.        *)
(*                                                                         *)
(* An object stands for a stored key: the id and date of its backup, the   *)
(* part it is ("root" for the primary object, a database's name for its    *)
(* own series, "globals" for roles and metadata, "safety" for a safety     *)
(* copy's marker) and whether it is below its engine's floor.  An object   *)
(* is stored whole or not at all (put); pending uploads are left out.  One *)
(* server writes the namespace, which claimNamespace proves, and it has    *)
(* one location.  Each command reads the clock of the machine it runs on.  *)
(* --ignore-clock and --allow-mass-delete are not given.                   *)
(***************************************************************************)
EXTENDS Integers, FiniteSets

CONSTANTS
    Runs,           \* commands that back up or prune
    Databases,      \* the databases that have a series of their own
    Rules,          \* the calendar rules: daily, weekly, monthly
    Period,         \* how long a day, a week, a month is
    MaxClockSkew, SafetyWindow, SafetyKeep, PruneBrakeMin,
    Skews,          \* how far the machines' clocks may be off
    Targets,        \* what is backed up: its rules, never all zero, and what is stored
    MaxIds, MaxClock, MaxFaults

Series == {"root"} \cup Databases
Policies == [last : Nat, age : Nat, per : [Rules -> Nat]]
Objects == [id : Int, date : Int, part : Series \cup {"globals", "safety"}, bad : BOOLEAN]

ASSUME RetentionAssumption ==
    /\ \A t \in Targets : t.policy \in Policies /\ t.past \subseteq Objects /\ IsFiniteSet(t.past)
    /\ \A t \in Targets : \A o, p \in t.past :
          o.id <= 0 /\ (o.id = p.id /\ o.part = p.part => o = p)
    /\ \A rule \in Rules : Period[rule] \in Nat \ {0}
    /\ {"root", "globals", "safety"} \cap Databases = {}
    /\ Skews \subseteq Int /\ MaxClockSkew \in Nat /\ MaxIds \in Nat /\ MaxClock \in Nat
    /\ SafetyWindow \in Nat /\ SafetyKeep \in Nat

VARIABLES
    policy,         \* the target's rules
    clock,          \* the store's time
    store,          \* the objects in the store
    run,            \* what each command is at
    ids, outages,   \* ids given, and commands the store has refused
    ever,           \* history: every object ever stored
    torn            \* history: backups a listing caught half stored, or kept by a refusal

retVars == <<policy, clock, store, run, ids, outages, ever, torn>>

-----------------------------------------------------------------------------
(* Selection.                                                              *)
After(p, o) == p.date > o.date \/ (p.date = o.date /\ p.id > o.id)
Good(objs) == {o \in objs : ~o.bad}
Newer(objs, o) == {p \in Good(objs) : After(p, o)}
Bucket(rule, o) == o.date \div Period[rule]

(* Mutant: a rule has one bucket more. *)
KeptByOneMore(rule, objs, pol, o) ==
    /\ \A p \in Newer(objs, o) : Bucket(rule, p) # Bucket(rule, o)
    /\ Cardinality({Bucket(rule, p) : p \in Newer(objs, o)}) <= pol.per[rule]

(* A rule's walk over the good objects, newest first: it keeps the first   *)
(* of each bucket while it has buckets left.                               *)
KeptBy(rule, objs, pol, o) ==
    /\ \A p \in Newer(objs, o) : Bucket(rule, p) # Bucket(rule, o)
    /\ Cardinality({Bucket(rule, p) : p \in Newer(objs, o)}) < pol.per[rule]

SelectKept(objs, pol, now) ==
    {o \in Good(objs) :
        \/ Newer(objs, o) = {}
        \/ Cardinality(Newer(objs, o)) < pol.last
        \/ pol.age > 0 /\ o.date >= now - pol.age
        \/ \E rule \in Rules : KeptBy(rule, objs, pol, o)}

(* The same as the code's one pass computes it: each rule with the buckets *)
(* it has left and the last one it saw.                                    *)
Scanned(objs, pol, now) ==
    LET good == Good(objs)
        newest(rest) == {o \in rest : Newer(rest, o) = {}}
        pass[n \in Nat] ==
            IF n = 0
            THEN [rest |-> good, keep |-> newest(good), left |-> pol.per,
                  last |-> [rule \in Rules |-> {}]]
            ELSE LET s == pass[n - 1]
                     o == CHOOSE o \in newest(s.rest) : TRUE
                     fresh == {rule \in Rules : /\ s.left[rule] > 0
                                               /\ Bucket(rule, o) \notin s.last[rule]}
                     kept == \/ n <= pol.last \/ fresh # {}
                             \/ pol.age > 0 /\ o.date >= now - pol.age
                 IN [rest |-> s.rest \ {o},
                     keep |-> IF kept THEN s.keep \cup {o} ELSE s.keep,
                     left |-> [rule \in Rules |->
                                 IF rule \in fresh THEN s.left[rule] - 1 ELSE s.left[rule]],
                     last |-> [rule \in Rules |->
                                 IF rule \in fresh THEN {Bucket(rule, o)} ELSE s.last[rule]]]
    IN pass[Cardinality(good)].keep

(* A bad object not older than the newest good one stays; without a good   *)
(* one everything does.                                                    *)
SelectForDeletion(objs, pol, now) ==
    {o \in objs \ SelectKept(objs, pol, now) :
        /\ Good(objs) # {}
        /\ o.bad => \E p \in Good(objs) : p.date > o.date}

-----------------------------------------------------------------------------
(* The plan of a prune, from one listing and the machine's time.  A copy   *)
(* of an id the primary series keeps is kept in every database's.          *)
FutureDated(o, now) == o.date - now > MaxClockSkew
InSeries(objs, s) == {o \in objs : o.part = s}
Current(objs, now) == {o \in objs : ~FutureDated(o, now)}

(* The newest safety copies younger than the window.                       *)
Protected(objs, now) ==
    LET young == {o \in InSeries(objs, "safety") : now - o.date < SafetyWindow}
    IN {m.id : m \in {o \in young : Cardinality({n \in young : After(n, o)}) < SafetyKeep}}

(* Mutant: a backup dated in the future counts. *)
PickAnyDate(objs, s, pol, now, spare) ==
    {o \in SelectForDeletion(InSeries(objs, s), pol, now) :
        o.id \notin Protected(objs, now) \cup spare}

Pick(objs, s, pol, now, spare) ==
    {o \in SelectForDeletion(Current(InSeries(objs, s), now), pol, now) :
        o.id \notin Protected(objs, now) \cup spare}

(* Mutant: a database's series does not look at the primary one. *)
EachSeriesAlone(objs, pol, now) == UNION {Pick(objs, s, pol, now, {}) : s \in Series}

Primaries(objs, pol, now) ==
    LET roots == Pick(objs, "root", pol, now, {})
        rootKept == {o.id : o \in InSeries(objs, "root") \ roots}
    IN roots \cup UNION {Pick(objs, db, pol, now, rootKept) : db \in Databases}

Sidecars(objs, pol, now) ==
    LET copies == {o \in objs : o.part \in Series}
        surviving == {o.id : o \in copies \ Primaries(objs, pol, now)}
    IN {o \in objs \ copies :
            /\ o.id \notin surviving
            /\ \E p \in Current(copies, now) : p.date > o.date}

(* Most of a series: rather a wrong clock than a policy.                   *)
PruneBrake(objs, pol, now) ==
    \E s \in Series :
        LET good == Good(Current(InSeries(objs, s), now))
            gone == Cardinality(good \cap Primaries(objs, pol, now))
        IN gone >= PruneBrakeMin /\ 2 * gone > Cardinality(good)

-----------------------------------------------------------------------------
NoRun == [pc |-> "off", skew |-> 0, now |-> 0, id |-> 0, date |-> 0,
          safety |-> FALSE, todo |-> {}, failed |-> FALSE, doomed |-> {}]

RunGoes(r, to) == run' = [run EXCEPT ![r] = to]
Ends(r) == RunGoes(r, NoRun)
PutObject(r, part) ==
    LET o == [id |-> run[r].id, date |-> run[r].date, part |-> part, bad |-> FALSE]
    IN store' = store \cup {o} /\ ever' = ever \cup {o} /\ UNCHANGED outages
StoreRefuses == outages < MaxFaults /\ outages' = outages + 1
NothingStored == StoreRefuses /\ UNCHANGED <<store, ever>>

(* A safety copy is taken by a restore or an upgrade, which prunes nothing. *)
StartBackup(r) ==
    /\ run[r] = NoRun /\ ids < MaxIds
    /\ ids' = ids + 1
    /\ \E skew \in Skews, safety \in BOOLEAN :
          RunGoes(r, [NoRun EXCEPT !.pc = "globals", !.skew = skew, !.id = ids + 1,
                                !.date = clock + skew, !.safety = safety, !.todo = Databases])
    /\ UNCHANGED <<policy, clock, store, outages, ever, torn>>

(* The roles: a failure is a warning.                                      *)
StoreGlobals(r) ==
    /\ run[r].pc = "globals"
    /\ PutObject(r, "globals") \/ NothingStored
    /\ RunGoes(r, [run[r] EXCEPT !.pc = "databases"])
    /\ UNCHANGED <<policy, clock, ids, torn>>

(* One database failing does not stop the others.                          *)
StoreDatabase(r) ==
    /\ run[r].pc = "databases"
    /\ \E db \in run[r].todo :
          \/ PutObject(r, db) /\ RunGoes(r, [run[r] EXCEPT !.todo = @ \ {db}])
          \/ NothingStored /\ RunGoes(r, [run[r] EXCEPT !.todo = @ \ {db}, !.failed = TRUE])
    /\ UNCHANGED <<policy, clock, ids, torn>>

(* The primary object commits the backup.  When any part failed nothing is *)
(* pruned.                                                                 *)
PruneNext(skew) == [NoRun EXCEPT !.pc = "clock", !.skew = skew]

StorePrimary(r) ==
    /\ run[r].pc = "databases" /\ run[r].todo = {}
    /\ \/ /\ PutObject(r, "root")
          /\ RunGoes(r, IF run[r].safety THEN [run[r] EXCEPT !.pc = "mark"]
                     ELSE IF run[r].failed THEN NoRun ELSE PruneNext(run[r].skew))
       \/ NothingStored /\ Ends(r)
    /\ UNCHANGED <<policy, clock, ids, torn>>

MarkSafetyCopy(r) ==
    /\ run[r].pc = "mark"
    /\ PutObject(r, "safety") \/ NothingStored
    /\ Ends(r)
    /\ UNCHANGED <<policy, clock, ids, torn>>

StartPrune(r) ==
    /\ run[r] = NoRun
    /\ \E skew \in Skews : RunGoes(r, PruneNext(skew))
    /\ UNCHANGED <<policy, clock, store, ids, outages, ever, torn>>

(* The machine's clock against the store's.                                *)
CheckPruneClock(r) ==
    /\ run[r].pc = "clock"
    /\ IF run[r].skew > MaxClockSkew \/ run[r].skew < -MaxClockSkew
       THEN Ends(r)
       ELSE RunGoes(r, [NoRun EXCEPT !.pc = "plan", !.now = clock + run[r].skew])
    /\ UNCHANGED <<policy, clock, store, ids, outages, ever, torn>>

(* The backups still being stored that something newer in the listing      *)
(* exposes to the rules.                                                   *)
Storing(q) == run[q].pc \in {"globals", "databases", "mark"}
HalfStored ==
    {run[q].id : q \in {q \in Runs : Storing(q) /\
        \E o, p \in store : o.id = run[q].id /\ p.part \in Series /\ After(p, o)}}

PlanPrune(r) ==
    /\ run[r].pc = "plan"
    /\ IF PruneBrake(store, policy, run[r].now)
       THEN Ends(r) /\ UNCHANGED torn
       ELSE /\ RunGoes(r, [NoRun EXCEPT !.pc = "delete",
                                    !.doomed = Primaries(store, policy, run[r].now)
                                               \cup Sidecars(store, policy, run[r].now)])
            /\ torn' = torn \cup HalfStored
    /\ UNCHANGED <<policy, clock, store, ids, outages, ever>>

(* Mutant: what belongs to a backup goes before it. *)
SidecarsFirst(o) == IF o.part = "root" THEN 3 ELSE IF o.part \in Databases THEN 2 ELSE 1

(* Primary objects, then the databases' copies, newest first, then the     *)
(* sidecars.                                                               *)
Stage(o) == IF o.part = "root" THEN 1 ELSE IF o.part \in Databases THEN 2 ELSE 3
GoesFirst(o, p) ==
    /\ Stage(o) <= Stage(p)
    /\ o.part = p.part /\ o.part \in Series => ~After(p, o)

(* A refused delete does not stop the rest.                                *)
DeleteObject(r) ==
    /\ run[r].pc = "delete"
    /\ \E o \in run[r].doomed :
          /\ \A p \in run[r].doomed : GoesFirst(o, p)
          /\ RunGoes(r, [run[r] EXCEPT !.doomed = @ \ {o}])
          /\ \/ store' = store \ {o} /\ UNCHANGED <<outages, torn>>
             \/ StoreRefuses /\ torn' = torn \cup {o.id} /\ UNCHANGED store
    /\ UNCHANGED <<policy, clock, ids, ever>>

FinishPrune(r) ==
    /\ run[r].pc = "delete" /\ run[r].doomed = {}
    /\ Ends(r)
    /\ UNCHANGED <<policy, clock, store, ids, outages, ever, torn>>

(* The process is killed: what it had stored or deleted stays so.          *)
RunDies(r) ==
    /\ run[r] # NoRun
    /\ Ends(r)
    /\ UNCHANGED <<policy, clock, store, ids, outages, ever, torn>>

TimePasses ==
    /\ clock < MaxClock
    /\ clock' = clock + 1
    /\ UNCHANGED <<policy, store, run, ids, outages, ever, torn>>

RetInit ==
    /\ \E t \in Targets : policy = t.policy /\ store = t.past
    /\ ever = store
    /\ clock = 0 /\ run = [r \in Runs |-> NoRun]
    /\ ids = 0 /\ outages = 0 /\ torn = {}

BackUp(r) == StartBackup(r) \/ StoreGlobals(r) \/ StoreDatabase(r) \/ StorePrimary(r)
             \/ MarkSafetyCopy(r)
Prune(r) == StartPrune(r) \/ CheckPruneClock(r) \/ PlanPrune(r) \/ DeleteObject(r)
            \/ FinishPrune(r)

RetNext == TimePasses \/ \E r \in Runs : BackUp(r) \/ Prune(r) \/ RunDies(r)

RetSpec == RetInit /\ [][RetNext]_retVars

-----------------------------------------------------------------------------
Stages == {"off", "globals", "databases", "mark", "clock", "plan", "delete"}
RunRecords == [pc : Stages, skew : Int, now : Int, id : Int, date : Int, safety : BOOLEAN,
               todo : SUBSET Databases, failed : BOOLEAN, doomed : SUBSET Objects]

RetTypeOK ==
    /\ policy \in Policies /\ clock \in Int
    /\ store \subseteq ever /\ ever \subseteq Objects /\ IsFiniteSet(ever)
    /\ run \in [Runs -> RunRecords]
    /\ ids \in Nat /\ outages \in Nat /\ torn \subseteq Int

(* What the most advanced clock a prune accepts would read.                *)
LatestNow == clock + MaxClockSkew

(* Whatever the rules keep of everything ever stored is in the store: over *)
(* prunes that list while others store, by machines whose clocks differ,   *)
(* beside backups dated in the future, cut off or refused anywhere.  The   *)
(* newest good copy of every series is among it (PruneBackups).            *)
NothingKeptIsLost ==
    \A s \in Series :
        SelectKept(Current(InSeries(ever, s), LatestNow), policy, LatestNow) \subseteq store

(* The pass over a series keeps what the rules say of it: the most recent, *)
(* and the most recent of the last periods that have one (selectKept and   *)
(* the comment of RetentionPolicy).                                        *)
ScanAgrees ==
    \A r \in Runs, s \in Series :
        run[r].pc = "plan" =>
            LET objs == Current(InSeries(store, s), run[r].now)
            IN Scanned(objs, policy, run[r].now) = SelectKept(objs, policy, run[r].now)

(* A backup whose primary object is there, or that is a safety copy under  *)
(* protection, is whole: "a primary implies everything that belongs to it" *)
(* (store.go) after any prune, however it ended.  Excepted are backups a   *)
(* listing caught half stored and those with a refused delete.             *)
SurvivorsWhole ==
    \A o \in ever :
        /\ o.part = "root" /\ o.id \notin torn
        /\ o \in store \/ o.id \in Protected(ever, LatestNow)
        => {p \in ever : p.id = o.id} \subseteq store
=============================================================================
