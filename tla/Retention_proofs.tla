---------------------------- MODULE Retention_proofs ----------------------------
(***************************************************************************)
(* What the rules keep is never deleted, for any number of commands,       *)
(* databases and clocks.  The argument: the rules keep less of a series    *)
(* that has more, and less of it later.  So what a prune finds outside its *)
(* rules in one listing, by any clock it accepts, stays outside them.      *)
(* And a backup that survives is whole, over any listings, refusals and    *)
(* deaths, by the order a plan deletes in.                                 *)
(***************************************************************************)
EXTENDS Retention, FiniteSetTheorems, TLAPS

(* Outside the rules among everything stored, and not for its date.        *)
Expired(o, objs, pol, now) ==
    /\ ~FutureDated(o, now)
    /\ o \notin SelectKept(Current(InSeries(objs, o.part), now), pol, now)

RunsSound ==
    \A r \in Runs :
        /\ run[r].pc = "plan" => run[r].now <= LatestNow
        /\ run[r].doomed \subseteq ever
        /\ \A o \in run[r].doomed :
              o.part \in Series => Expired(o, ever, policy, LatestNow)

LostExpired ==
    \A o \in ever \ store : o.part \in Series => Expired(o, ever, policy, LatestNow)

RetInv == RetTypeOK /\ RunsSound /\ LostExpired

-----------------------------------------------------------------------------
(* A larger series has at least as many newer objects, in as many buckets. *)
LEMMA NewerGrows ==
  ASSUME NEW more, IsFiniteSet(more), NEW objs \in SUBSET more, NEW o
  PROVE  /\ Newer(objs, o) \subseteq Newer(more, o)
         /\ IsFiniteSet(Newer(more, o))
         /\ Cardinality(Newer(objs, o)) \in Nat
         /\ Cardinality(Newer(more, o)) \in Nat
         /\ Cardinality(Newer(objs, o)) <= Cardinality(Newer(more, o))
  <1>1. Newer(objs, o) \subseteq Newer(more, o) /\ Newer(more, o) \subseteq more
    BY DEF Newer, Good
  <1>2. IsFiniteSet(Newer(more, o))
    BY <1>1, FS_Subset
  <1>3. /\ IsFiniteSet(Newer(objs, o))
        /\ Cardinality(Newer(objs, o)) <= Cardinality(Newer(more, o))
    BY <1>1, <1>2, FS_Subset
  <1> QED
    BY <1>1, <1>2, <1>3, FS_CardinalityType

LEMMA BucketsGrow ==
  ASSUME NEW more, IsFiniteSet(more), NEW objs \in SUBSET more, NEW o, NEW rule \in Rules
  PROVE  LET few == {Bucket(rule, p) : p \in Newer(objs, o)}
             many == {Bucket(rule, p) : p \in Newer(more, o)}
         IN /\ Cardinality(few) \in Nat /\ Cardinality(many) \in Nat
            /\ Cardinality(few) <= Cardinality(many)
  <1> DEFINE few == {Bucket(rule, p) : p \in Newer(objs, o)}
             many == {Bucket(rule, p) : p \in Newer(more, o)}
             f == [p \in Newer(more, o) |-> Bucket(rule, p)]
  <1>1. Newer(objs, o) \subseteq Newer(more, o) /\ IsFiniteSet(Newer(more, o))
    BY NewerGrows
  <1>2. f \in Surjection(Newer(more, o), many)
    BY DEF Surjection
  <1>3. IsFiniteSet(many)
    <2> HIDE DEF f, many
    <2> QED
      BY <1>1, <1>2, FS_Surjection
  <1>4. few \in SUBSET many
    BY <1>1
  <1>5. IsFiniteSet(few) /\ Cardinality(few) <= Cardinality(many)
    <2> HIDE DEF few, many
    <2> QED
      BY <1>3, <1>4, FS_Subset
  <1>6. Cardinality(few) \in Nat /\ Cardinality(many) \in Nat
    <2> HIDE DEF few, many
    <2> QED
      BY <1>3, <1>5, FS_CardinalityType
  <1> QED
    BY <1>5, <1>6

(* What the rules keep of a larger series later, they keep of a smaller    *)
(* one earlier.                                                            *)
LEMMA KeptOfMore ==
  ASSUME NEW more, IsFiniteSet(more), more \subseteq Objects, NEW objs \in SUBSET more,
         NEW pol \in Policies, NEW now \in Int, NEW later \in Int, now <= later,
         NEW o \in objs, o \in SelectKept(more, pol, later)
  PROVE  o \in SelectKept(objs, pol, now)
  <1>1. o \in Good(objs)
    BY DEF SelectKept, Good
  <1>2. CASE Newer(more, o) = {}
    <2>1. Newer(objs, o) = {}
      BY <1>2 DEF Newer, Good
    <2> QED
      BY <1>1, <2>1 DEF SelectKept
  <1>3. CASE Cardinality(Newer(more, o)) < pol.last
    <2>1. Cardinality(Newer(objs, o)) <= Cardinality(Newer(more, o))
          /\ Cardinality(Newer(objs, o)) \in Nat /\ Cardinality(Newer(more, o)) \in Nat
      BY NewerGrows
    <2> QED
      BY <1>1, <1>3, <2>1 DEF SelectKept, Policies
  <1>4. CASE pol.age > 0 /\ o.date >= later - pol.age
    <2>1. o.date \in Int /\ pol.age \in Nat
      BY DEF Objects, Policies
    <2>2. o.date >= now - pol.age
      BY <1>4, <2>1
    <2> QED
      BY <1>1, <1>4, <2>2 DEF SelectKept
  <1>5. CASE \E rule \in Rules : KeptBy(rule, more, pol, o)
    <2>1. PICK rule \in Rules : KeptBy(rule, more, pol, o)
      BY <1>5
    <2>2. \A p \in Newer(objs, o) : Bucket(rule, p) # Bucket(rule, o)
      BY <2>1 DEF KeptBy, Newer, Good
    <2> DEFINE few == Cardinality({Bucket(rule, p) : p \in Newer(objs, o)})
               many == Cardinality({Bucket(rule, p) : p \in Newer(more, o)})
    <2>3. few < pol.per[rule]
      <3>1. few \in Nat /\ many \in Nat /\ few <= many
        BY BucketsGrow
      <3>2. many < pol.per[rule]
        BY <2>1 DEF KeptBy
      <3>3. pol.per[rule] \in Nat
        BY DEF Policies
      <3> HIDE DEF few, many
      <3> QED
        BY <3>1, <3>2, <3>3
    <2>4. KeptBy(rule, objs, pol, o)
      BY <2>2, <2>3 DEF KeptBy
    <2> QED
      BY <1>1, <2>4 DEF SelectKept
  <1> QED
    BY <1>2, <1>3, <1>4, <1>5 DEF SelectKept

(* So what is outside the rules stays outside, as copies and time are      *)
(* added.                                                                  *)
LEMMA ExpiredStays ==
  ASSUME NEW more, IsFiniteSet(more), more \subseteq Objects, NEW objs \in SUBSET more,
         NEW pol \in Policies, NEW now \in Int, NEW later \in Int, now <= later,
         NEW o \in objs, Expired(o, objs, pol, now)
  PROVE  Expired(o, more, pol, later)
  <1> DEFINE A == Current(InSeries(objs, o.part), now)
             B == Current(InSeries(more, o.part), later)
  <1>1. \A x \in objs : ~FutureDated(x, now) => ~FutureDated(x, later)
    BY RetentionAssumption DEF FutureDated, Objects
  <1>2. o \in A /\ A \subseteq B /\ B \subseteq more
    BY <1>1 DEF Current, InSeries, Expired
  <1>3. IsFiniteSet(B)
    BY <1>2, FS_Subset
  <1>4. ~FutureDated(o, later)
    BY <1>1 DEF Expired
  <1>5. o \notin SelectKept(A, pol, now)
    BY DEF Expired
  <1>6. o \notin SelectKept(B, pol, later)
    <2> HIDE DEF A, B
    <2> QED
      BY <1>2, <1>3, <1>5, KeptOfMore
  <1> QED
    BY <1>4, <1>6 DEF Expired

(* What a plan condemns in a series is outside the rules of its listing.   *)
LEMMA PlanExpired ==
  ASSUME NEW objs, NEW pol, NEW now
  PROVE  /\ Primaries(objs, pol, now) \cup Sidecars(objs, pol, now) \subseteq objs
         /\ \A o \in Primaries(objs, pol, now) \cup Sidecars(objs, pol, now) :
               o.part \in Series => Expired(o, objs, pol, now)
  <1>1. ASSUME NEW s \in Series, NEW spare, NEW o \in Pick(objs, s, pol, now, spare)
        PROVE  o \in objs /\ Expired(o, objs, pol, now)
    BY <1>1 DEF Pick, SelectForDeletion, Current, InSeries, Expired
  <1>2. ASSUME NEW o \in Primaries(objs, pol, now)
        PROVE  o \in objs /\ Expired(o, objs, pol, now)
    BY <1>1, <1>2 DEF Primaries, Series
  <1>3. ASSUME NEW o \in Sidecars(objs, pol, now)
        PROVE  o \in objs /\ o.part \notin Series
    BY <1>3 DEF Sidecars
  <1> QED
    BY <1>2, <1>3

-----------------------------------------------------------------------------
LEMMA RetTypesInit == RetInit => RetTypeOK
  <1> SUFFICES ASSUME RetInit PROVE RetTypeOK
    OBVIOUS
  <1>1. NoRun \in RunRecords
    BY DEF NoRun, RunRecords, Stages
  <1> QED
    BY <1>1, RetentionAssumption DEF RetInit, RetTypeOK

(* An object a run stores has the types of one.                            *)
LEMMA PutTypes ==
  ASSUME RetTypeOK, NEW r \in Runs, NEW part \in Series \cup {"globals", "safety"},
         PutObject(r, part)
  PROVE  /\ ever \subseteq ever' /\ ever' \subseteq Objects /\ IsFiniteSet(ever')
         /\ store' \subseteq ever' /\ outages' = outages
         /\ ever' \ store' \subseteq ever \ store
  <1> DEFINE o == [id |-> run[r].id, date |-> run[r].date, part |-> part, bad |-> FALSE]
  <1>1. o \in Objects
    BY DEF RetTypeOK, RunRecords, Objects
  <1>2. ever' = ever \cup {o} /\ store' = store \cup {o} /\ outages' = outages
    BY DEF PutObject
  <1>3. IsFiniteSet(ever \cup {o})
    <2> HIDE DEF o
    <2> QED
      BY FS_AddElement DEF RetTypeOK
  <1> QED
    BY <1>1, <1>2, <1>3 DEF RetTypeOK

LEMMA RetTypesStep == RetTypeOK /\ [RetNext]_retVars => RetTypeOK'
  <1> SUFFICES ASSUME RetTypeOK, [RetNext]_retVars PROVE RetTypeOK'
    OBVIOUS
  <1> USE DEF RetTypeOK
  <1>0. NoRun \in RunRecords
    BY DEF NoRun, RunRecords, Stages
  <1>a. {"globals", "databases", "mark", "clock", "plan", "delete"} \subseteq Stages
    BY DEF Stages
  <1>1. CASE UNCHANGED retVars
    BY <1>1 DEF retVars
  <1>2. CASE TimePasses
    BY <1>2 DEF TimePasses
  <1>3. ASSUME NEW r \in Runs, StartBackup(r) PROVE RetTypeOK'
    <2>1. PICK skew \in Skews, safety \in BOOLEAN :
             run' = [run EXCEPT ![r] =
                       [NoRun EXCEPT !.pc = "globals", !.skew = skew, !.id = ids + 1,
                                     !.date = clock + skew, !.safety = safety,
                                     !.todo = Databases]]
      BY <1>3 DEF StartBackup, RunGoes
    <2>2. skew \in Int /\ ids + 1 \in Nat
      BY RetentionAssumption
    <2>3. ASSUME NEW i \in Int, NEW d \in Int
          PROVE  [NoRun EXCEPT !.pc = "globals", !.skew = skew, !.id = i, !.date = d,
                               !.safety = safety, !.todo = Databases] \in RunRecords
      BY <1>0, <1>a, <2>2 DEF RunRecords
    <2>4. ids + 1 \in Int /\ clock + skew \in Int
      BY <2>2
    <2>5. run' \in [Runs -> RunRecords]
      BY <2>1, <2>3, <2>4
    <2> QED
      BY <1>3, <2>2, <2>5 DEF StartBackup
  <1>4. ASSUME NEW r \in Runs, StoreGlobals(r) PROVE RetTypeOK'
    <2>1. run' \in [Runs -> RunRecords]
      BY <1>4 DEF StoreGlobals, RunGoes, RunRecords, Stages
    <2>2. CASE PutObject(r, "globals")
      BY <1>4, <2>1, <2>2, PutTypes DEF StoreGlobals
    <2>3. CASE NothingStored
      BY <1>4, <2>1, <2>3 DEF StoreGlobals, NothingStored, StoreRefuses
    <2> QED
      BY <1>4, <2>2, <2>3 DEF StoreGlobals
  <1>5. ASSUME NEW r \in Runs, StoreDatabase(r) PROVE RetTypeOK'
    <2>1. run' \in [Runs -> RunRecords]
      <3>1. PICK db \in run[r].todo :
               \/ run' = [run EXCEPT ![r] = [run[r] EXCEPT !.todo = @ \ {db}]]
               \/ run' = [run EXCEPT ![r] = [run[r] EXCEPT !.todo = @ \ {db}, !.failed = TRUE]]
        BY <1>5 DEF StoreDatabase, RunGoes
      <3>2. /\ [run[r] EXCEPT !.todo = @ \ {db}] \in RunRecords
            /\ [run[r] EXCEPT !.todo = @ \ {db}, !.failed = TRUE] \in RunRecords
        BY DEF RunRecords
      <3> QED
        BY <3>1, <3>2
    <2>2. PICK db \in Databases : PutObject(r, db) \/ NothingStored
      BY <1>5 DEF StoreDatabase, RunRecords
    <2>3. CASE PutObject(r, db)
      BY <1>5, <2>1, <2>3, PutTypes DEF StoreDatabase, Series
    <2>4. CASE NothingStored
      BY <1>5, <2>1, <2>4 DEF StoreDatabase, NothingStored, StoreRefuses
    <2> QED
      BY <2>2, <2>3, <2>4
  <1>6. ASSUME NEW r \in Runs, StorePrimary(r) PROVE RetTypeOK'
    <2>1. run' \in [Runs -> RunRecords]
      <3>1. \/ run' = [run EXCEPT ![r] = [run[r] EXCEPT !.pc = "mark"]]
            \/ run' = [run EXCEPT ![r] = NoRun]
            \/ run' = [run EXCEPT ![r] = [NoRun EXCEPT !.pc = "clock", !.skew = run[r].skew]]
        BY <1>6 DEF StorePrimary, RunGoes, Ends, PruneNext
      <3>2. /\ [run[r] EXCEPT !.pc = "mark"] \in RunRecords
            /\ [NoRun EXCEPT !.pc = "clock", !.skew = run[r].skew] \in RunRecords
        BY <1>0, <1>a DEF RunRecords
      <3> QED
        BY <1>0, <3>1, <3>2
    <2>2. CASE PutObject(r, "root")
      BY <1>6, <2>1, <2>2, PutTypes DEF StorePrimary, Series
    <2>3. CASE NothingStored
      BY <1>6, <2>1, <2>3 DEF StorePrimary, NothingStored, StoreRefuses
    <2> QED
      BY <1>6, <2>2, <2>3 DEF StorePrimary
  <1>7. ASSUME NEW r \in Runs, MarkSafetyCopy(r) PROVE RetTypeOK'
    <2>1. run' \in [Runs -> RunRecords]
      BY <1>0, <1>7 DEF MarkSafetyCopy, RunGoes, Ends
    <2>2. CASE PutObject(r, "safety")
      BY <1>7, <2>1, <2>2, PutTypes DEF MarkSafetyCopy
    <2>3. CASE NothingStored
      BY <1>7, <2>1, <2>3 DEF MarkSafetyCopy, NothingStored, StoreRefuses
    <2> QED
      BY <1>7, <2>2, <2>3 DEF MarkSafetyCopy
  <1>8. ASSUME NEW r \in Runs, StartPrune(r) PROVE RetTypeOK'
    <2>1. PICK skew \in Skews :
             run' = [run EXCEPT ![r] = [NoRun EXCEPT !.pc = "clock", !.skew = skew]]
      BY <1>8 DEF StartPrune, RunGoes, PruneNext
    <2>2. skew \in Int
      BY RetentionAssumption
    <2>3. run' \in [Runs -> RunRecords]
      BY <1>0, <1>a, <2>1, <2>2 DEF RunRecords
    <2> QED
      BY <1>8, <2>3 DEF StartPrune
  <1>9. ASSUME NEW r \in Runs, CheckPruneClock(r) PROVE RetTypeOK'
    <2>1. \/ run' = [run EXCEPT ![r] = NoRun]
          \/ run' = [run EXCEPT ![r] = [NoRun EXCEPT !.pc = "plan", !.now = clock + run[r].skew]]
      BY <1>9 DEF CheckPruneClock, RunGoes, Ends
    <2>2. clock + run[r].skew \in Int
      BY DEF RunRecords
    <2>3. [NoRun EXCEPT !.pc = "plan", !.now = clock + run[r].skew] \in RunRecords
      BY <1>0, <1>a, <2>2 DEF RunRecords
    <2>4. run' \in [Runs -> RunRecords]
      BY <1>0, <2>1, <2>3
    <2> QED
      BY <1>9, <2>4 DEF CheckPruneClock
  <1>10. ASSUME NEW r \in Runs, PlanPrune(r) PROVE RetTypeOK'
    <2>1. torn' \subseteq Int
      BY <1>10 DEF PlanPrune, HalfStored, RunRecords
    <2> DEFINE plan == Primaries(store, policy, run[r].now) \cup Sidecars(store, policy, run[r].now)
    <2>2. plan \subseteq Objects
      BY PlanExpired
    <2>3. run' = [run EXCEPT ![r] = NoRun]
          \/ run' = [run EXCEPT ![r] = [NoRun EXCEPT !.pc = "delete", !.doomed = plan]]
      BY <1>10 DEF PlanPrune, RunGoes, Ends
    <2>4. [NoRun EXCEPT !.pc = "delete", !.doomed = plan] \in RunRecords
      <3> HIDE DEF plan
      <3> QED
        BY <1>0, <1>a, <2>2 DEF RunRecords
    <2>5. run' \in [Runs -> RunRecords]
      <3> HIDE DEF plan
      <3> QED
        BY <1>0, <2>3, <2>4
    <2> QED
      BY <1>10, <2>1, <2>5 DEF PlanPrune
  <1>11. ASSUME NEW r \in Runs, DeleteObject(r) PROVE RetTypeOK'
    <2>1. PICK o \in run[r].doomed :
             /\ run' = [run EXCEPT ![r] = [run[r] EXCEPT !.doomed = @ \ {o}]]
             /\ \/ store' = store \ {o} /\ UNCHANGED <<outages, torn>>
                \/ StoreRefuses /\ torn' = torn \cup {o.id} /\ UNCHANGED store
      BY <1>11 DEF DeleteObject, RunGoes
    <2>2. o.id \in Int
      BY DEF RunRecords, Objects
    <2>3. run' \in [Runs -> RunRecords]
      BY <2>1 DEF RunRecords
    <2> QED
      BY <1>11, <2>1, <2>2, <2>3 DEF DeleteObject, StoreRefuses
  <1>12. ASSUME NEW r \in Runs, FinishPrune(r) \/ RunDies(r) PROVE RetTypeOK'
    BY <1>0, <1>12 DEF FinishPrune, RunDies, RunGoes, Ends
  <1> QED
    BY <1>1, <1>2, <1>3, <1>4, <1>5, <1>6, <1>7, <1>8, <1>9, <1>10, <1>11, <1>12
    DEF RetNext, BackUp, Prune

(* Commands and the clocks they read stay in their types.                  *)
THEOREM RetTypes == RetSpec => []RetTypeOK
  <1> QED
    BY RetTypesInit, RetTypesStep, PTL DEF RetSpec

-----------------------------------------------------------------------------
LEMMA Growth ==
  ASSUME RetTypeOK, [RetNext]_retVars
  PROVE  policy' = policy /\ clock <= clock' /\ ever \subseteq ever'
  <1> USE DEF RetTypeOK
  <1>1. CASE UNCHANGED retVars
    BY <1>1 DEF retVars
  <1>2. CASE TimePasses
    BY <1>2 DEF TimePasses
  <1>3. ASSUME NEW r \in Runs, BackUp(r)
        PROVE  policy' = policy /\ clock' = clock /\ ever \subseteq ever'
    BY <1>3 DEF BackUp, StartBackup, StoreGlobals, StoreDatabase, StorePrimary, MarkSafetyCopy,
            PutObject, NothingStored
  <1>4. ASSUME NEW r \in Runs, Prune(r) \/ RunDies(r)
        PROVE  policy' = policy /\ clock' = clock /\ ever' = ever
    BY <1>4 DEF Prune, StartPrune, CheckPruneClock, PlanPrune, DeleteObject, FinishPrune, RunDies
  <1> QED
    BY <1>1, <1>2, <1>3, <1>4 DEF RetNext

LEMMA SkewNat == MaxClockSkew \in Nat
  BY RetentionAssumption

LEMMA StillExpired ==
  ASSUME RetTypeOK, [RetNext]_retVars, NEW o \in ever, Expired(o, ever, policy, LatestNow)
  PROVE  Expired(o, ever', policy', clock' + MaxClockSkew)
  <1>1. RetTypeOK' /\ policy' = policy /\ clock <= clock' /\ ever \subseteq ever'
    BY Growth, RetTypesStep
  <1>2. IsFiniteSet(ever') /\ ever' \subseteq Objects /\ policy \in Policies
    BY <1>1 DEF RetTypeOK
  <1>3. clock \in Int /\ clock' \in Int /\ MaxClockSkew \in Nat
    BY <1>1, SkewNat DEF RetTypeOK
  <1>4. ASSUME NEW a \in Int, NEW b \in Int, NEW k \in Nat, a <= b
        PROVE  a + k \in Int /\ b + k \in Int /\ a + k <= b + k
    BY <1>4
  <1>5. /\ LatestNow \in Int /\ clock' + MaxClockSkew \in Int
        /\ LatestNow <= clock' + MaxClockSkew
    BY <1>1, <1>3, <1>4, Zenon DEF LatestNow
  <1> QED
    BY <1>1, <1>2, <1>5, ExpiredStays

(* What a command is about to delete is what it was, or was just planned.  *)
LEMMA DoomedFrom ==
  ASSUME RetInv, [RetNext]_retVars, NEW r \in Runs, NEW o \in run'[r].doomed
  PROVE  o \in ever /\ (o.part \in Series => Expired(o, ever, policy, LatestNow))
  <1> USE DEF RetInv, RetTypeOK
  <1>1. CASE o \in run[r].doomed
    BY <1>1 DEF RunsSound
  <1>2. ASSUME NEW q \in Runs, PlanPrune(q), o \notin run[r].doomed
        PROVE  o \in ever /\ (o.part \in Series => Expired(o, ever, policy, LatestNow))
    <2> DEFINE plan == Primaries(store, policy, run[q].now)
                       \cup Sidecars(store, policy, run[q].now)
    <2>1. o \in plan
      <3>1. \/ run' = [run EXCEPT ![q] = NoRun]
            \/ run' = [run EXCEPT ![q] = [NoRun EXCEPT !.pc = "delete", !.doomed = plan]]
        BY <1>2 DEF PlanPrune, RunGoes, Ends
      <3>2. NoRun.doomed = {} /\ [NoRun EXCEPT !.pc = "delete", !.doomed = plan].doomed = plan
        BY DEF NoRun
      <3> HIDE DEF plan
      <3> QED
        BY <1>2, <3>1, <3>2
    <2>2. o \in store /\ (o.part \in Series => Expired(o, store, policy, run[q].now))
      BY <2>1, PlanExpired
    <2>3. /\ store \subseteq ever /\ run[q].now \in Int /\ LatestNow \in Int
          /\ run[q].now <= LatestNow
      BY <1>2, RetentionAssumption DEF PlanPrune, RunsSound, RunRecords, LatestNow
    <2> QED
      BY <2>2, <2>3, ExpiredStays
  <1>3. ASSUME o \notin run[r].doomed PROVE \E q \in Runs : PlanPrune(q)
    <2>0. NoRun.doomed = {}
      BY DEF NoRun
    <2>1. CASE UNCHANGED retVars \/ TimePasses
      BY <1>3, <2>1 DEF retVars, TimePasses
    <2>2. ASSUME NEW q \in Runs, StartBackup(q) \/ StartPrune(q) \/ CheckPruneClock(q)
                                 \/ FinishPrune(q) \/ RunDies(q)
          PROVE  FALSE
      BY <1>3, <2>0, <2>2 DEF StartBackup, StartPrune, CheckPruneClock, FinishPrune, RunDies,
              RunGoes, Ends, PruneNext, NoRun
    <2>3. ASSUME NEW q \in Runs, StoreGlobals(q) \/ StoreDatabase(q) \/ StorePrimary(q)
                                 \/ MarkSafetyCopy(q)
          PROVE  FALSE
      <3>1. CASE StoreGlobals(q)
        BY <1>3, <3>1 DEF StoreGlobals, RunGoes, RunRecords
      <3>2. CASE StoreDatabase(q)
        <4>1. PICK db \in run[q].todo :
                 \/ run' = [run EXCEPT ![q] = [run[q] EXCEPT !.todo = @ \ {db}]]
                 \/ run' = [run EXCEPT ![q] = [run[q] EXCEPT !.todo = @ \ {db}, !.failed = TRUE]]
          BY <3>2 DEF StoreDatabase, RunGoes
        <4>2. ASSUME NEW some
              PROVE  /\ [run[q] EXCEPT !.todo = some].doomed = run[q].doomed
                     /\ [run[q] EXCEPT !.todo = some, !.failed = TRUE].doomed = run[q].doomed
          BY DEF RunRecords
        <4>3. run'[q].doomed = run[q].doomed /\ (r # q => run'[r] = run[r])
          <5>1. DOMAIN run = Runs
            OBVIOUS
          <5> QED
            BY <4>1, <4>2, <5>1
        <4> QED
          BY <1>3, <4>3
      <3>3. CASE StorePrimary(q)
        <4>1. \/ run' = [run EXCEPT ![q] = [run[q] EXCEPT !.pc = "mark"]]
              \/ run' = [run EXCEPT ![q] = NoRun]
              \/ run' = [run EXCEPT ![q] = PruneNext(run[q].skew)]
          BY <3>3 DEF StorePrimary, RunGoes, Ends
        <4>2. /\ [run[q] EXCEPT !.pc = "mark"].doomed = run[q].doomed
              /\ PruneNext(run[q].skew).doomed = {}
          BY DEF PruneNext, NoRun, RunRecords
        <4> QED
          BY <1>3, <2>0, <4>1, <4>2
      <3>4. CASE MarkSafetyCopy(q)
        BY <1>3, <2>0, <3>4 DEF MarkSafetyCopy, RunGoes, Ends
      <3> QED
        BY <2>3, <3>1, <3>2, <3>3, <3>4
    <2>4. ASSUME NEW q \in Runs, DeleteObject(q) PROVE FALSE
      BY <1>3, <2>4 DEF DeleteObject, RunGoes, RunRecords
    <2> QED
      BY <2>1, <2>2, <2>3, <2>4 DEF RetNext, BackUp, Prune
  <1> QED
    BY <1>1, <1>2, <1>3

(* A clock a plan goes by was accepted, and time only passes.              *)
LEMMA PlansTimely ==
  ASSUME RetInv, [RetNext]_retVars, NEW r \in Runs, run'[r].pc = "plan"
  PROVE  run'[r].now <= clock' + MaxClockSkew
  <1> USE DEF RetInv, RetTypeOK
  <1>1. clock <= clock' /\ clock' \in Int /\ MaxClockSkew \in Int
    BY Growth, RetTypesStep, RetentionAssumption
  <1>2. CASE run[r].pc = "plan" /\ run'[r] = run[r]
    BY <1>1, <1>2 DEF RunsSound, RunRecords, LatestNow
  <1>3. CASE CheckPruneClock(r)
    <2>1. run[r].skew \in Int /\ clock' = clock
      BY <1>3 DEF CheckPruneClock, RunRecords
    <2>2. run[r].skew <= MaxClockSkew /\ run'[r].now = clock + run[r].skew
      <3>1. CASE Ends(r)
        BY <3>1 DEF Ends, RunGoes, NoRun
      <3>2. CASE ~(run[r].skew > MaxClockSkew) /\ RunGoes(r, [NoRun EXCEPT !.pc = "plan", !.now = clock + run[r].skew])
        BY <1>1, <2>1, <3>2 DEF RunGoes, NoRun
      <3> QED
        BY <1>3, <3>1, <3>2 DEF CheckPruneClock
    <2> QED
      BY <1>1, <2>1, <2>2
  <1>4. (run[r].pc = "plan" /\ run'[r] = run[r]) \/ CheckPruneClock(r)
    <2>0. NoRun.pc = "off"
      BY DEF NoRun
    <2>1. CASE UNCHANGED retVars \/ TimePasses
      BY <2>1 DEF retVars, TimePasses
    <2>2. ASSUME NEW q \in Runs, q # r, BackUp(q) \/ Prune(q) \/ RunDies(q)
          PROVE  run'[r] = run[r]
      BY <2>2 DEF BackUp, Prune, StartBackup, StoreGlobals, StoreDatabase, StorePrimary,
              MarkSafetyCopy, StartPrune, CheckPruneClock, PlanPrune, DeleteObject,
              FinishPrune, RunDies, RunGoes, Ends
    <2>3. ASSUME BackUp(r)
          PROVE  FALSE
      <3>1. CASE StartBackup(r)
        BY <3>1 DEF StartBackup, RunGoes, NoRun
      <3>2. CASE StoreGlobals(r)
        BY <3>2 DEF StoreGlobals, RunGoes
      <3>3. CASE StoreDatabase(r)
        <4>1. run[r].pc = "databases"
              /\ \E db \in run[r].todo :
                    \/ RunGoes(r, [run[r] EXCEPT !.todo = @ \ {db}])
                    \/ RunGoes(r, [run[r] EXCEPT !.todo = @ \ {db}, !.failed = TRUE])
          BY <3>3 DEF StoreDatabase
        <4> QED
          BY <4>1 DEF RunGoes, RunRecords
      <3>4. CASE StorePrimary(r)
        BY <2>0, <3>4 DEF StorePrimary, RunGoes, Ends, PruneNext, NoRun, RunRecords
      <3>5. CASE MarkSafetyCopy(r)
        BY <2>0, <3>5 DEF MarkSafetyCopy, RunGoes, Ends
      <3> QED
        BY <2>3, <3>1, <3>2, <3>3, <3>4, <3>5 DEF BackUp
    <2>4. ASSUME StartPrune(r) \/ PlanPrune(r) \/ DeleteObject(r) \/ FinishPrune(r) \/ RunDies(r)
          PROVE  FALSE
      <3>1. CASE StartPrune(r)
        BY <3>1 DEF StartPrune, RunGoes, PruneNext, NoRun
      <3>2. CASE PlanPrune(r)
        BY <2>0, <3>2 DEF PlanPrune, RunGoes, Ends, NoRun
      <3>3. CASE DeleteObject(r)
        BY <3>3 DEF DeleteObject, RunGoes, RunRecords
      <3>4. CASE FinishPrune(r) \/ RunDies(r)
        BY <2>0, <3>4 DEF FinishPrune, RunDies, RunGoes, Ends
      <3> QED
        BY <2>4, <3>1, <3>2, <3>3, <3>4
    <2> QED
      BY <2>1, <2>2, <2>3, <2>4 DEF RetNext, Prune
  <1> QED
    BY <1>2, <1>3, <1>4

(* Only a delete takes an object away, and only a condemned one.           *)
LEMMA LostWasDoomed ==
  ASSUME RetInv, [RetNext]_retVars, NEW o \in ever' \ store'
  PROVE  o \in ever /\ (o \notin store \/ \E r \in Runs : o \in run[r].doomed)
  <1> USE DEF RetInv
  <1>1. CASE UNCHANGED retVars \/ TimePasses
    BY <1>1 DEF retVars, TimePasses
  <1>2. ASSUME NEW r \in Runs, NEW part, PutObject(r, part)
        PROVE  o \in ever \ store
    BY <1>2 DEF PutObject
  <1>3. ASSUME NEW r \in Runs, BackUp(r)
        PROVE  o \in ever \ store
    BY <1>2, <1>3 DEF BackUp, StartBackup, StoreGlobals, StoreDatabase, StorePrimary,
            MarkSafetyCopy, NothingStored
  <1>4. ASSUME NEW r \in Runs, DeleteObject(r)
        PROVE  o \in ever /\ (o \notin store \/ o \in run[r].doomed)
    BY <1>4 DEF DeleteObject
  <1>5. ASSUME NEW r \in Runs, Prune(r) \/ RunDies(r), ~DeleteObject(r)
        PROVE  o \in ever \ store
    BY <1>5 DEF Prune, StartPrune, CheckPruneClock, PlanPrune, FinishPrune, RunDies
  <1> QED
    BY <1>1, <1>3, <1>4, <1>5 DEF RetNext

LEMMA RetInvInit == RetInit => RetInv
  <1> SUFFICES ASSUME RetInit PROVE RetInv
    OBVIOUS
  <1>1. RetTypeOK
    BY RetTypesInit
  <1>2. \A r \in Runs : run[r].pc = "off" /\ run[r].doomed = {}
    BY DEF RetInit, NoRun
  <1>3. ever \ store = {}
    BY DEF RetInit
  <1> QED
    BY <1>1, <1>2, <1>3 DEF RetInv, RunsSound, LostExpired

LEMMA RetInvStep == RetInv /\ [RetNext]_retVars => RetInv'
  <1> SUFFICES ASSUME RetInv, [RetNext]_retVars PROVE RetInv'
    OBVIOUS
  <1>1. RetTypeOK /\ RetTypeOK'
    BY RetTypesStep DEF RetInv
  <1>2. ASSUME NEW r \in Runs
        PROVE  /\ run'[r].pc = "plan" => run'[r].now <= clock' + MaxClockSkew
               /\ run'[r].doomed \subseteq ever'
               /\ \A o \in run'[r].doomed :
                     o.part \in Series => Expired(o, ever', policy', clock' + MaxClockSkew)
    BY <1>1, PlansTimely, DoomedFrom, Growth, StillExpired
  <1>3. ASSUME NEW o \in ever' \ store', o.part \in Series
        PROVE  Expired(o, ever', policy', clock' + MaxClockSkew)
    <2>1. o \in ever /\ Expired(o, ever, policy, LatestNow)
      BY <1>3, LostWasDoomed DEF RetInv, RunsSound, LostExpired
    <2> QED
      BY <1>1, <2>1, StillExpired
  <1>4. RunsSound'
    BY <1>2 DEF RunsSound, LatestNow
  <1>5. LostExpired'
    BY <1>3 DEF LostExpired, LatestNow
  <1> QED
    BY <1>1, <1>4, <1>5 DEF RetInv

(* What the rules keep of everything ever stored is in the store, for any  *)
(* number of commands that list, store and delete at once, by any clocks a *)
(* prune accepts (planPrune, PruneBackups).                                *)
THEOREM RulesHold == RetSpec => []NothingKeptIsLost
  <1>1. RetInv => NothingKeptIsLost
    <2> SUFFICES ASSUME RetInv, NEW s \in Series,
                        NEW o \in SelectKept(Current(InSeries(ever, s), LatestNow), policy, LatestNow)
                 PROVE  o \in store
      BY DEF NothingKeptIsLost
    <2>1. o \in ever /\ o.part = s
      BY DEF SelectKept, Good, Current, InSeries
    <2> QED
      BY <2>1 DEF RetInv, LostExpired, Expired
  <1> QED
    BY <1>1, RetInvInit, RetInvStep, PTL DEF RetSpec
-----------------------------------------------------------------------------
(* What survives is whole.  An id is given once, so a backup that is being *)
(* stored, and one that a marker protects, has nothing condemned and       *)
(* nothing lost; elsewhere a part goes only in a plan that takes the       *)
(* primary object first.                                                   *)
BeingStored(i) == \E q \in Runs : Storing(q) /\ run[q].id = i
Shielded(i) ==
    i \in Protected(ever, LatestNow) /\ \E o \in ever : o.part = "root" /\ o.id = i
Untouched(p) == p \in store /\ \A r \in Runs : p \notin run[r].doomed

IdsGiven ==
    /\ \A o \in ever : o.id <= ids
    /\ \A q \in Runs : Storing(q) => run[q].id <= ids
    /\ \A q, r \in Runs : Storing(q) /\ Storing(r) /\ run[q].id = run[r].id => q = r

Committing(q) == run[q].pc \in {"globals", "databases"}
OneRoot ==
    /\ \A o, p \in ever : o.part = "root" /\ p.part = "root" /\ o.id = p.id => o = p
    /\ \A q \in Runs, o \in ever : Committing(q) /\ o.part = "root" => o.id # run[q].id

ShieldHolds ==
    \A p \in ever :
        p.id \notin torn /\ (BeingStored(p.id) \/ Shielded(p.id)) => Untouched(p)

RootsCondemned ==
    \A r \in Runs : \A p \in run[r].doomed, o \in store :
        /\ p.id \notin torn /\ p.part # "root"
        /\ o.part = "root" /\ o.id = p.id
        => o \in run[r].doomed

LostRootless ==
    \A p \in ever \ store, o \in store :
        p.id \notin torn /\ o.part = "root" => o.id # p.id

WholeInv ==
    RetInv /\ IdsGiven /\ OneRoot /\ ShieldHolds /\ RootsCondemned /\ LostRootless

(* A marker that is protected later and among more was so before.          *)
Marks(m, objs, now) ==
    /\ m \in objs /\ m.part = "safety" /\ now - m.date < SafetyWindow
    /\ Cardinality({n \in InSeries(objs, "safety") :
                      now - n.date < SafetyWindow /\ After(n, m)}) < SafetyKeep

LEMMA ProtectedByMarker ==
  ASSUME NEW objs, NEW now, NEW i
  PROVE  i \in Protected(objs, now) <=> \E m \in objs : m.id = i /\ Marks(m, objs, now)
  <1> DEFINE young == {o \in InSeries(objs, "safety") : now - o.date < SafetyWindow}
  <1>1. ASSUME NEW m
        PROVE  {n \in young : After(n, m)}
               = {n \in InSeries(objs, "safety") :
                    now - n.date < SafetyWindow /\ After(n, m)}
    OBVIOUS
  <1>2. i \in Protected(objs, now)
        <=> \E m \in young : m.id = i /\ Cardinality({n \in young : After(n, m)}) < SafetyKeep
    BY DEF Protected
  <1> QED
    BY <1>1, <1>2 DEF Marks, InSeries

LEMMA MarkedBefore ==
  ASSUME NEW more, IsFiniteSet(more), more \subseteq Objects, NEW objs \in SUBSET more,
         NEW now \in Int, NEW later \in Int, now <= later,
         NEW m \in objs, Marks(m, more, later)
  PROVE  Marks(m, objs, now)
  <1> DEFINE Rivals(s, t) ==
               {n \in InSeries(s, "safety") : t - n.date < SafetyWindow /\ After(n, m)}
  <1>0. SafetyWindow \in Int /\ SafetyKeep \in Int /\ m.date \in Int
    BY RetentionAssumption DEF Objects
  <1>1. now - m.date < SafetyWindow
    BY <1>0 DEF Marks
  <1>2. Rivals(objs, now) \subseteq Rivals(more, later) /\ Rivals(more, later) \subseteq more
    <2>1. ASSUME NEW n \in more, After(n, m)
          PROVE  later - n.date < SafetyWindow
      <3>1. n.date \in Int /\ n.date >= m.date
        BY <1>0, <2>1 DEF After, Objects
      <3>2. later - m.date < SafetyWindow
        BY DEF Marks
      <3> QED
        BY <1>0, <3>1, <3>2
    <2> QED
      BY <2>1 DEF InSeries
  <1>3. /\ Cardinality(Rivals(objs, now)) \in Nat /\ Cardinality(Rivals(more, later)) \in Nat
        /\ Cardinality(Rivals(objs, now)) <= Cardinality(Rivals(more, later))
    <2> HIDE DEF Rivals
    <2>1. IsFiniteSet(Rivals(more, later))
      BY <1>2, FS_Subset
    <2>2. IsFiniteSet(Rivals(objs, now))
          /\ Cardinality(Rivals(objs, now)) <= Cardinality(Rivals(more, later))
      BY <1>2, <2>1, FS_Subset
    <2> QED
      BY <2>1, <2>2, FS_CardinalityType
  <1>4. Cardinality(Rivals(more, later)) < SafetyKeep
    BY DEF Marks
  <1>5. Cardinality(Rivals(objs, now)) < SafetyKeep
    <2> HIDE DEF Rivals
    <2> QED
      BY <1>0, <1>3, <1>4
  <1> QED
    BY <1>1, <1>5 DEF Marks

(* What a plan condemns has something newer beside it, goes with its       *)
(* primary object, and is not under protection.                            *)
LEMMA PlanSpares ==
  ASSUME NEW objs, NEW pol, NEW now,
         NEW p \in Primaries(objs, pol, now) \cup Sidecars(objs, pol, now)
  PROVE  /\ \E n \in objs : n.part \in Series /\ After(n, p)
         /\ \A o \in objs : p.part # "root" /\ o.part = "root" /\ o.id = p.id
                              => o \in Primaries(objs, pol, now)
         /\ p.id \in Protected(objs, now) => \A o \in objs : o.part = "root" => o.id # p.id
  <1>1. ASSUME NEW s \in Series, NEW spare, NEW o \in Pick(objs, s, pol, now, spare)
        PROVE  /\ o \in objs /\ o.part = s
               /\ \E n \in objs : n.part \in Series /\ After(n, o)
               /\ o.id \notin Protected(objs, now) /\ o.id \notin spare
    <2> DEFINE here == Current(InSeries(objs, s), now)
    <2>1. /\ o \in here /\ o \notin SelectKept(here, pol, now)
          /\ o.bad => \E n \in Good(here) : n.date > o.date
          /\ o.id \notin Protected(objs, now) /\ o.id \notin spare
      BY <1>1 DEF Pick, SelectForDeletion
    <2>2. \E n \in here : After(n, o)
      <3>1. CASE o.bad
        BY <2>1, <3>1 DEF Good, After
      <3>2. CASE ~o.bad
        <4>1. Newer(here, o) # {}
          BY <2>1, <3>2 DEF SelectKept, Good
        <4> QED
          BY <4>1 DEF Newer, Good
      <3> QED
        BY <3>1, <3>2
    <2> QED
      BY <2>1, <2>2 DEF Current, InSeries
  <1> DEFINE roots == Pick(objs, "root", pol, now, {})
             rootKept == {o.id : o \in InSeries(objs, "root") \ roots}
  <1>2. /\ roots \subseteq Primaries(objs, pol, now)
        /\ \A o \in Primaries(objs, pol, now) :
              o \in roots \/ \E db \in Databases : o \in Pick(objs, db, pol, now, rootKept)
    BY DEF Primaries
  <1>3. \A s \in {"root"} \cup Databases : s \in Series
    BY DEF Series
  <1>4. "root" \notin Databases
    BY RetentionAssumption
  <1>5. CASE p \in Primaries(objs, pol, now)
    <2>1. PICK s \in Series, spare \in {{}, rootKept} :
             p \in Pick(objs, s, pol, now, spare) /\ (s # "root" => spare = rootKept)
      BY <1>2, <1>3, <1>5
    <2>2. /\ p \in objs /\ p.part = s
          /\ \E n \in objs : n.part \in Series /\ After(n, p)
          /\ p.id \notin Protected(objs, now) /\ p.id \notin spare
      BY <1>1, <2>1
    <2>3. ASSUME NEW o \in objs, p.part # "root", o.part = "root", o.id = p.id
          PROVE  o \in roots
      BY <2>1, <2>2, <2>3 DEF InSeries
    <2> QED
      BY <1>2, <2>2, <2>3
  <1>6. CASE p \in Sidecars(objs, pol, now)
    <2>1. /\ p \in objs /\ p.part \notin Series
          /\ \E n \in objs : n.part \in Series /\ n.date > p.date
          /\ \A o \in objs : o.part \in Series /\ o \notin Primaries(objs, pol, now)
                               => o.id # p.id
      BY <1>6 DEF Sidecars, Current
    <2>2. ASSUME NEW o \in objs, o.part = "root", o.id = p.id
          PROVE  o \in Primaries(objs, pol, now)
      BY <1>3, <2>1, <2>2
    <2>3. ASSUME NEW o \in objs, o.part = "root", o.id = p.id
          PROVE  p.id \notin Protected(objs, now)
      <3>1. o \in roots
        <4>1. o \in roots \/ \E db \in Databases : o \in Pick(objs, db, pol, now, rootKept)
          BY <1>2, <2>2, <2>3
        <4>2. ASSUME NEW db \in Databases, o \in Pick(objs, db, pol, now, rootKept)
              PROVE  FALSE
          <5>1. db \in Series
            BY <1>3
          <5> HIDE DEF rootKept
          <5>2. o.part = db
            BY <1>1, <4>2, <5>1
          <5> QED
            BY <1>4, <2>3, <5>2
        <4> QED
          BY <4>1, <4>2
      <3> QED
        BY <1>1, <1>3, <2>3, <3>1
    <2> QED
      BY <2>1, <2>2, <2>3 DEF After
  <1> QED
    BY <1>5, <1>6

-----------------------------------------------------------------------------
(* How the commands move: none but a plan condemns, none but a start sets  *)
(* out to store.                                                           *)
RunsRest ==
    \A q \in Runs :
        /\ run'[q].doomed \in {{}, run[q].doomed}
        /\ Storing(q)' => Storing(q) /\ run'[q].id = run[q].id
        /\ Committing(q)' => Committing(q)

LEMMA Moves ==
  ASSUME RetTypeOK, NEW r \in Runs, NEW to, RunGoes(r, to),
         to.doomed \in {{}, run[r].doomed},
         to.pc \in {"globals", "databases", "mark"} => Storing(r) /\ to.id = run[r].id,
         to.pc \in {"globals", "databases"} => Committing(r)
  PROVE  RunsRest
  <1>1. \A q \in Runs : run'[q] = IF q = r THEN to ELSE run[q]
    BY DEF RunGoes, RetTypeOK
  <1> QED
    BY <1>1 DEF RunsRest, Storing, Committing

LEMMA EndsRest == ASSUME RetTypeOK, NEW r \in Runs, Ends(r)  PROVE RunsRest
  <1>1. NoRun.pc = "off" /\ NoRun.doomed = {}
    BY DEF NoRun
  <1> QED
    BY <1>1, Moves DEF Ends

LEMMA ToPruneRests ==
  ASSUME RetTypeOK, NEW r \in Runs, NEW skew, RunGoes(r, PruneNext(skew))  PROVE RunsRest
  <1>1. PruneNext(skew).pc = "clock" /\ PruneNext(skew).doomed = {}
    BY DEF NoRun, PruneNext
  <1> QED
    BY <1>1, Moves

(* What was to be clear of an id is so still, where nothing was lost or    *)
(* condemned of it.                                                        *)
LEMMA ShieldsBefore ==
  ASSUME RetInv, [RetNext]_retVars, NEW o \in ever, Shielded(o.id)',
         \A p \in ever' \ ever : BeingStored(p.id)
  PROVE  Shielded(o.id) \/ BeingStored(o.id)
  <1>1. RetTypeOK /\ RetTypeOK' /\ clock <= clock' /\ ever \subseteq ever'
    BY RetTypesStep, Growth DEF RetInv
  <1>a. clock \in Int /\ clock' \in Int /\ MaxClockSkew \in Nat
    BY <1>1, SkewNat DEF RetTypeOK
  <1>b. ASSUME NEW a \in Int, NEW b \in Int, NEW k \in Nat, a <= b
        PROVE  a + k \in Int /\ b + k \in Int /\ a + k <= b + k
    BY <1>b
  <1>2. /\ LatestNow \in Int /\ clock' + MaxClockSkew \in Int
        /\ LatestNow <= clock' + MaxClockSkew
    BY <1>1, <1>a, <1>b, Zenon DEF LatestNow
  <1>3. o.id \in Protected(ever', clock' + MaxClockSkew)
    BY DEF Shielded, LatestNow
  <1>4. PICK m \in ever' : m.id = o.id /\ Marks(m, ever', clock' + MaxClockSkew)
    BY <1>3, ProtectedByMarker
  <1>5. CASE m \notin ever
    BY <1>4, <1>5
  <1>6. CASE m \in ever
    <2>1. Marks(m, ever, LatestNow)
      BY <1>1, <1>2, <1>4, <1>6, MarkedBefore DEF RetTypeOK
    <2>2. o.id \in Protected(ever, LatestNow)
      BY <1>4, <1>6, <2>1, ProtectedByMarker
    <2>3. PICK p \in ever' : p.part = "root" /\ p.id = o.id
      BY DEF Shielded
    <2> QED
      BY <2>2, <2>3 DEF Shielded
  <1> QED
    BY <1>5, <1>6

Parts == IdsGiven /\ OneRoot /\ ShieldHolds /\ RootsCondemned /\ LostRootless

LEMMA RestKeeps ==
  ASSUME WholeInv, [RetNext]_retVars, RunsRest,
         store' = store, ever' = ever, torn \subseteq torn', ids' = ids
  PROVE  Parts'
  <1> USE DEF WholeInv
  <1>1. IdsGiven'
    BY DEF RunsRest, IdsGiven
  <1>2. OneRoot'
    BY DEF RunsRest, OneRoot, Committing, Storing
  <1>3. ShieldHolds'
    <2> SUFFICES ASSUME NEW p \in ever, p.id \notin torn',
                        BeingStored(p.id)' \/ Shielded(p.id)'
                 PROVE  Untouched(p)'
      BY DEF ShieldHolds
    <2>1. BeingStored(p.id)' => BeingStored(p.id)
      BY DEF BeingStored, RunsRest
    <2>2. BeingStored(p.id) \/ Shielded(p.id)
      BY <2>1, ShieldsBefore
    <2>3. Untouched(p)
      BY <2>2 DEF ShieldHolds
    <2> QED
      BY <2>3 DEF Untouched, RunsRest
  <1>4. RootsCondemned'
    BY DEF RunsRest, RootsCondemned
  <1>5. LostRootless'
    BY DEF LostRootless
  <1> QED
    BY <1>1, <1>2, <1>3, <1>4, <1>5 DEF Parts

\* A backup that is being stored has its key's parts once, and is shielded.
LEMMA PutKeeps ==
  ASSUME WholeInv, [RetNext]_retVars, RunsRest, NEW r \in Runs, Storing(r),
         NEW part \in Series \cup {"globals", "safety"}, PutObject(r, part),
         torn' = torn, ids' = ids,
         part = "root" => Committing(r) /\ ~Committing(r)'
  PROVE  Parts'
  <1> USE DEF WholeInv
  <1>1. PICK new : /\ new.id = run[r].id /\ new.part = part
                   /\ store' = store \cup {new} /\ ever' = ever \cup {new}
    BY DEF PutObject
  <1>2. BeingStored(new.id)
    BY <1>1 DEF BeingStored
  <1>3. \A q \in Runs : Committing(q) => Storing(q)
    BY DEF Committing, Storing
  <1>4. store \subseteq ever /\ \A q \in Runs : run[q].doomed \subseteq ever
    BY DEF RetInv, RetTypeOK, RunsSound
  <1>5. new.id \notin torn => \A p \in ever : p.id = new.id => Untouched(p)
    BY <1>2 DEF ShieldHolds
  <1>6. IdsGiven'
    BY <1>1 DEF RunsRest, IdsGiven
  <1>7. OneRoot'
    <2>1. part = "root" => \A p \in ever : p.part = "root" => p.id # new.id
      BY <1>1 DEF OneRoot
    <2>2. ASSUME NEW q \in Runs, Committing(q)', part = "root"
          PROVE  new.id # run'[q].id
      <3>1. q # r /\ Committing(q) /\ Storing(q)' /\ Storing(q)
        BY <1>3, <2>2 DEF RunsRest, Committing, Storing
      <3>2. run'[q].id = run[q].id
        BY <3>1 DEF RunsRest
      <3> QED
        BY <1>1, <3>1, <3>2 DEF IdsGiven
    <2>3. ASSUME NEW q \in Runs, Committing(q)'
          PROVE  Committing(q) /\ run'[q].id = run[q].id
      BY <2>3 DEF RunsRest, Committing, Storing
    <2> QED
      BY <1>1, <2>1, <2>2, <2>3 DEF OneRoot
  <1>8. ShieldHolds'
    <2> SUFFICES ASSUME NEW p \in ever', p.id \notin torn,
                        BeingStored(p.id)' \/ Shielded(p.id)'
                 PROVE  Untouched(p)'
      BY DEF ShieldHolds
    <2>1. BeingStored(p.id)' => BeingStored(p.id)
      BY DEF BeingStored, RunsRest
    <2>2. CASE p \in ever
      <3>1. \A x \in ever' \ ever : BeingStored(x.id)
        BY <1>1, <1>2
      <3>2. BeingStored(p.id) \/ Shielded(p.id)
        BY <2>1, <2>2, <3>1, ShieldsBefore
      <3>3. Untouched(p)
        BY <2>2, <3>2 DEF ShieldHolds
      <3> QED
        BY <1>1, <3>3 DEF Untouched, RunsRest
    <2>3. CASE p \notin ever
      BY <1>1, <1>4, <2>3 DEF Untouched, RunsRest
    <2> QED
      BY <2>2, <2>3
  <1>9. RootsCondemned'
    <2> SUFFICES ASSUME NEW q \in Runs, NEW p \in run'[q].doomed, NEW o \in store',
                        p.id \notin torn, p.part # "root", o.part = "root", o.id = p.id
                 PROVE  o \in run'[q].doomed
      BY DEF RootsCondemned
    <2>1. p \in run[q].doomed /\ run'[q].doomed = run[q].doomed
      BY DEF RunsRest
    <2>2. o # new
      BY <1>1, <1>4, <1>5, <2>1 DEF Untouched
    <2> QED
      BY <1>1, <2>1, <2>2 DEF RootsCondemned
  <1>10. LostRootless'
    <2> SUFFICES ASSUME NEW p \in ever' \ store', NEW o \in store',
                        p.id \notin torn, o.part = "root", o.id = p.id
                 PROVE  FALSE
      BY DEF LostRootless
    <2>1. p \in ever \ store
      BY <1>1
    <2>2. o # new
      BY <1>5, <2>1 DEF Untouched
    <2> QED
      BY <1>1, <2>1, <2>2 DEF LostRootless
  <1> QED
    BY <1>6, <1>7, <1>8, <1>9, <1>10 DEF Parts

\* A backup starts under an id of its own: nothing of it is there.
LEMMA StartKeeps ==
  ASSUME WholeInv, [RetNext]_retVars, NEW r \in Runs, StartBackup(r)
  PROVE  Parts'
  <1> USE DEF WholeInv
  <1>0. RetTypeOK /\ ids \in Nat
    BY DEF RetInv, RetTypeOK
  <1>1. /\ store' = store /\ ever' = ever /\ torn' = torn /\ ids' = ids + 1
        /\ run[r] = NoRun
    BY DEF StartBackup
  <1>2. PICK to : /\ run' = [run EXCEPT ![r] = to]
                  /\ to.id = ids + 1 /\ to.doomed = {}
    <2>1. PICK skew \in Skews, safety \in BOOLEAN :
             run' = [run EXCEPT ![r] =
                       [NoRun EXCEPT !.pc = "globals", !.skew = skew, !.id = ids + 1,
                                     !.date = clock + skew, !.safety = safety,
                                     !.todo = Databases]]
      BY DEF StartBackup, RunGoes
    <2> DEFINE new == [NoRun EXCEPT !.pc = "globals", !.skew = skew, !.id = ids + 1,
                                    !.date = clock + skew, !.safety = safety,
                                    !.todo = Databases]
    <2>2. new.id = ids + 1 /\ new.doomed = {}
      BY DEF NoRun
    <2>3. run' = [run EXCEPT ![r] = new]
      BY <2>1
    <2> HIDE DEF new
    <2> QED
      BY <2>2, <2>3
  <1>3. \A q \in Runs : run'[q] = IF q = r THEN to ELSE run[q]
    BY <1>0, <1>2 DEF RetTypeOK
  <1>4. \A p \in ever : p.id \in Int /\ p.id <= ids
    BY <1>0 DEF IdsGiven, RetTypeOK, Objects
  <1>5. \A q \in Runs : Storing(q) => run[q].id \in Int /\ run[q].id <= ids
    BY <1>0 DEF IdsGiven, RetTypeOK, RunRecords
  <1>6. \A p \in ever : p.id # ids + 1
    BY <1>0, <1>4
  <1>7. \A q \in Runs : Storing(q) => run[q].id # ids + 1
    BY <1>0, <1>5
  <1>8. IdsGiven'
    <2>1. \A o \in ever' : o.id <= ids'
      BY <1>0, <1>1, <1>4
    <2>2. \A q \in Runs : Storing(q)' => run'[q].id <= ids'
      BY <1>0, <1>1, <1>2, <1>3, <1>5 DEF Storing
    <2>3. \A q, s \in Runs : Storing(q)' /\ Storing(s)' /\ run'[q].id = run'[s].id => q = s
      BY <1>2, <1>3, <1>7 DEF Storing, IdsGiven
    <2> QED
      BY <2>1, <2>2, <2>3 DEF IdsGiven
  <1>9. OneRoot'
    BY <1>1, <1>2, <1>3, <1>6 DEF OneRoot, Committing
  <1>10. ShieldHolds'
    <2> SUFFICES ASSUME NEW p \in ever, p.id \notin torn,
                        BeingStored(p.id)' \/ Shielded(p.id)'
                 PROVE  Untouched(p)'
      BY <1>1 DEF ShieldHolds
    <2>1. BeingStored(p.id)' => BeingStored(p.id)
      BY <1>2, <1>3, <1>6 DEF BeingStored, Storing
    <2>2. BeingStored(p.id) \/ Shielded(p.id)
      BY <1>1, <2>1, ShieldsBefore
    <2>3. Untouched(p)
      BY <2>2 DEF ShieldHolds
    <2> QED
      BY <1>1, <1>2, <1>3, <2>3 DEF Untouched
  <1>11. RootsCondemned'
    BY <1>1, <1>2, <1>3 DEF RootsCondemned
  <1>12. LostRootless'
    BY <1>1 DEF LostRootless
  <1> QED
    BY <1>8, <1>9, <1>10, <1>11, <1>12 DEF Parts

\* A plan takes no part without its primary object, nothing under protection, and
\* of what is being stored nothing unless it caught it half stored.
LEMMA PlanKeeps ==
  ASSUME WholeInv, [RetNext]_retVars, NEW r \in Runs, PlanPrune(r)
  PROVE  Parts'
  <1> USE DEF WholeInv
  <1>0. /\ RetTypeOK /\ torn \subseteq torn'
        /\ store' = store /\ ever' = ever /\ ids' = ids
    BY DEF PlanPrune, RetInv
  <1>1. CASE Ends(r)
    BY <1>0, <1>1, EndsRest, RestKeeps
  <1> DEFINE now == run[r].now
             plan == Primaries(store, policy, now) \cup Sidecars(store, policy, now)
  <1>2. CASE RunGoes(r, [NoRun EXCEPT !.pc = "delete", !.doomed = plan])
             /\ torn' = torn \cup HalfStored
    <2> DEFINE to == [NoRun EXCEPT !.pc = "delete", !.doomed = plan]
    <2>1. to.pc = "delete" /\ to.doomed = plan
      BY DEF NoRun
    <2>2. run' = [run EXCEPT ![r] = to]
      BY <1>2 DEF RunGoes
    <2>3. \A q \in Runs : run'[q] = IF q = r THEN to ELSE run[q]
      <3> HIDE DEF to
      <3> QED
        BY <1>0, <2>2 DEF RetTypeOK
    <2>4. /\ store \subseteq ever /\ IsFiniteSet(ever) /\ ever \subseteq Objects
          /\ now \in Int /\ LatestNow \in Int /\ now <= LatestNow
      BY <1>0, SkewNat DEF PlanPrune, RetInv, RetTypeOK, RunsSound, RunRecords, LatestNow
    <2>5. plan \subseteq store
      BY PlanExpired
    <2>6. ASSUME NEW p \in plan, NEW q \in Runs, Storing(q), run[q].id = p.id
          PROVE  p.id \in torn'
      <3>1. p \in store /\ \E n \in store : n.part \in Series /\ After(n, p)
        BY <2>5, PlanSpares
      <3>2. p.id \in HalfStored
        BY <2>6, <3>1 DEF HalfStored
      <3> QED
        BY <1>2, <3>2
    <2>7. ASSUME NEW p \in plan, p.id \notin torn, Shielded(p.id)
          PROVE  FALSE
      <3>1. PICK o \in ever : o.part = "root" /\ o.id = p.id
        BY <2>7 DEF Shielded
      <3>2. \A x \in ever : x.id = p.id => x \in store
        BY <2>7 DEF ShieldHolds, Untouched
      <3>3. PICK m \in ever : m.id = p.id /\ Marks(m, ever, LatestNow)
        <4>1. p.id \in Protected(ever, LatestNow)
          BY <2>7 DEF Shielded
        <4> QED
          BY <4>1, ProtectedByMarker
      <3>4. m \in store /\ o \in store
        BY <3>1, <3>2, <3>3
      <3>5. Marks(m, store, now)
        <4> HIDE DEF now
        <4> QED
          BY <2>4, <3>3, <3>4, MarkedBefore
      <3>6. p.id \in Protected(store, now)
        BY <3>3, <3>4, <3>5, ProtectedByMarker
      <3> QED
        BY <3>1, <3>4, <3>6, PlanSpares
    <2>8. ASSUME NEW p \in plan, NEW o \in store, p.part # "root", o.part = "root", o.id = p.id
          PROVE  o \in plan
      BY <2>8, PlanSpares
    <2> HIDE DEF plan, to
    <2>9. \A q \in Runs : /\ Storing(q)' => Storing(q) /\ run'[q] = run[q]
                          /\ Committing(q)' => Committing(q) /\ run'[q] = run[q]
      BY <2>1, <2>3 DEF Storing, Committing
    <2>10. IdsGiven'
      BY <1>0, <2>9 DEF IdsGiven
    <2>11. OneRoot'
      BY <1>0, <2>9 DEF OneRoot
    <2>12. ShieldHolds'
      <3> SUFFICES ASSUME NEW p \in ever, p.id \notin torn',
                          BeingStored(p.id)' \/ Shielded(p.id)'
                   PROVE  Untouched(p)'
        BY <1>0 DEF ShieldHolds
      <3>1. BeingStored(p.id)' => BeingStored(p.id)
        BY <2>9 DEF BeingStored
      <3>2. p.id \notin torn /\ (BeingStored(p.id) \/ Shielded(p.id))
        BY <1>0, <3>1, ShieldsBefore
      <3>3. Untouched(p)
        BY <3>2 DEF ShieldHolds
      <3>4. p \notin plan
        BY <2>6, <2>7, <3>2 DEF BeingStored
      <3> QED
        BY <1>0, <2>1, <2>3, <3>3, <3>4 DEF Untouched
    <2>13. RootsCondemned'
      <3> SUFFICES ASSUME NEW q \in Runs, NEW p \in run'[q].doomed, NEW o \in store,
                          p.id \notin torn', p.part # "root", o.part = "root", o.id = p.id
                   PROVE  o \in run'[q].doomed
        BY <1>0 DEF RootsCondemned
      <3>1. CASE q = r
        BY <2>1, <2>3, <2>8, <3>1
      <3>2. CASE q # r
        BY <1>0, <2>3, <3>2 DEF RootsCondemned
      <3> QED
        BY <3>1, <3>2
    <2>14. LostRootless'
      BY <1>0 DEF LostRootless
    <2> QED
      BY <2>10, <2>11, <2>12, <2>13, <2>14 DEF Parts
  <1> QED
    BY <1>1, <1>2 DEF PlanPrune

\* A part goes when no primary object of its id is left to go, or a refusal left one.
LEMMA DeleteKeeps ==
  ASSUME WholeInv, [RetNext]_retVars, NEW r \in Runs, DeleteObject(r)
  PROVE  Parts'
  <1> USE DEF WholeInv
  <1>0. RetTypeOK /\ ever' = ever /\ ids' = ids
    BY DEF DeleteObject, RetInv
  <1>1. PICK gone \in run[r].doomed :
           /\ \A p \in run[r].doomed : GoesFirst(gone, p)
           /\ run' = [run EXCEPT ![r] = [run[r] EXCEPT !.doomed = @ \ {gone}]]
           /\ \/ store' = store \ {gone} /\ torn' = torn
              \/ store' = store /\ torn' = torn \cup {gone.id}
    BY DEF DeleteObject, RunGoes
  <1>2. /\ \A q \in Runs : run'[q].doomed = IF q = r THEN run[q].doomed \ {gone}
                                            ELSE run[q].doomed
        /\ \A q \in Runs : run'[q].pc = run[q].pc /\ run'[q].id = run[q].id
    BY <1>0, <1>1 DEF RetTypeOK, RunRecords
  <1>3. torn \subseteq torn' /\ store' \subseteq store /\ gone \in ever
    BY <1>1 DEF RetInv, RunsSound
  <1>4. store' = store \ {gone} \/ (store' = store /\ gone.id \in torn')
    BY <1>1
  <1>5. ASSUME NEW o \in store, gone.id \notin torn, gone.part # "root", o.part = "root"
        PROVE  o.id # gone.id
    <2>1. Stage(gone) # 1 /\ Stage(o) = 1 /\ Stage(gone) \in 1..3
      BY <1>5 DEF Stage
    <2>2. o \notin run[r].doomed
      BY <1>1, <2>1 DEF GoesFirst
    <2> QED
      BY <1>5, <2>2 DEF RootsCondemned
  <1>6. IdsGiven'
    BY <1>0, <1>2 DEF IdsGiven, Storing
  <1>7. OneRoot'
    BY <1>0, <1>2 DEF OneRoot, Committing
  <1>8. ShieldHolds'
    <2> SUFFICES ASSUME NEW p \in ever, p.id \notin torn',
                        BeingStored(p.id)' \/ Shielded(p.id)'
                 PROVE  Untouched(p)'
      BY <1>0 DEF ShieldHolds
    <2>1. BeingStored(p.id)' => BeingStored(p.id)
      BY <1>2 DEF BeingStored, Storing
    <2>2. p.id \notin torn /\ (BeingStored(p.id) \/ Shielded(p.id))
      BY <1>0, <1>3, <2>1, ShieldsBefore
    <2>3. Untouched(p)
      BY <2>2 DEF ShieldHolds
    <2> QED
      BY <1>1, <1>2, <1>4, <2>3 DEF Untouched
  <1>9. RootsCondemned'
    <2> SUFFICES ASSUME NEW q \in Runs, NEW p \in run'[q].doomed, NEW o \in store',
                        p.id \notin torn', p.part # "root", o.part = "root", o.id = p.id
                 PROVE  o \in run'[q].doomed
      BY DEF RootsCondemned
    <2>1. o \in run[q].doomed
      BY <1>2, <1>3 DEF RootsCondemned
    <2>2. o # gone
      BY <1>4
    <2> QED
      BY <1>2, <2>1, <2>2
  <1>10. LostRootless'
    <2> SUFFICES ASSUME NEW p \in ever \ store', NEW o \in store',
                        p.id \notin torn', o.part = "root", o.id = p.id
                 PROVE  FALSE
      BY <1>0 DEF LostRootless
    <2>1. CASE p \in store
      <3>1. p = gone /\ store' = store \ {gone}
        BY <1>4, <2>1
      <3>2. p.part # "root"
        BY <1>3, <3>1 DEF OneRoot, RetInv, RetTypeOK
      <3> QED
        BY <1>3, <1>5, <3>1, <3>2
    <2>2. CASE p \notin store
      BY <1>3, <2>2 DEF LostRootless
    <2> QED
      BY <2>1, <2>2
  <1> QED
    BY <1>6, <1>7, <1>8, <1>9, <1>10 DEF Parts

LEMMA WholeStarts == RetInit => WholeInv
  <1> SUFFICES ASSUME RetInit PROVE WholeInv
    OBVIOUS
  <1>1. RetInv
    BY RetInvInit
  <1>2. \A r \in Runs : ~Storing(r) /\ ~Committing(r) /\ run[r].doomed = {}
    BY DEF RetInit, NoRun, Storing, Committing
  <1>3. ever = store /\ ids = 0
    BY DEF RetInit
  <1>4. \A o, p \in ever : o.id <= 0 /\ (o.id = p.id /\ o.part = p.part => o = p)
    BY RetentionAssumption DEF RetInit
  <1>5. IdsGiven /\ OneRoot
    BY <1>2, <1>3, <1>4 DEF IdsGiven, OneRoot
  <1>6. ShieldHolds /\ RootsCondemned /\ LostRootless
    BY <1>2, <1>3 DEF ShieldHolds, Untouched, RootsCondemned, LostRootless
  <1> QED
    BY <1>1, <1>5, <1>6 DEF WholeInv

\* A step of a backup after its start.
LEMMA StoresKeep ==
  ASSUME WholeInv, [RetNext]_retVars, NEW r \in Runs,
         StoreGlobals(r) \/ StoreDatabase(r) \/ StorePrimary(r) \/ MarkSafetyCopy(r)
  PROVE  Parts'
  <1>0. RetTypeOK /\ torn' = torn /\ ids' = ids /\ run[r] \in RunRecords
    BY DEF WholeInv, RetInv, RetTypeOK, StoreGlobals, StoreDatabase, StorePrimary, MarkSafetyCopy
  <1>1. NothingStored => store' = store /\ ever' = ever
    BY DEF NothingStored
  <1>2. CASE StoreGlobals(r)
    <2>1. Storing(r) /\ Committing(r) /\ RunGoes(r, [run[r] EXCEPT !.pc = "databases"])
      BY <1>2 DEF StoreGlobals, Storing, Committing
    <2>2. RunsRest
      <3>1. /\ [run[r] EXCEPT !.pc = "databases"].id = run[r].id
            /\ [run[r] EXCEPT !.pc = "databases"].doomed = run[r].doomed
        BY <1>0 DEF RunRecords
      <3> QED
        BY <1>0, <2>1, <3>1, Moves
    <2>3. CASE PutObject(r, "globals")
      BY <1>0, <2>1, <2>2, <2>3, PutKeeps
    <2>4. CASE NothingStored
      BY <1>0, <1>1, <2>2, <2>4, RestKeeps
    <2> QED
      BY <1>2, <2>3, <2>4 DEF StoreGlobals
  <1>3. CASE StoreDatabase(r)
    <2>1. Storing(r) /\ Committing(r)
      BY <1>3 DEF StoreDatabase, Storing, Committing
    <2>2. PICK db \in Databases :
             /\ PutObject(r, db) \/ NothingStored
             /\ \/ RunGoes(r, [run[r] EXCEPT !.todo = @ \ {db}])
                \/ RunGoes(r, [run[r] EXCEPT !.todo = @ \ {db}, !.failed = TRUE])
      BY <1>0, <1>3 DEF StoreDatabase, RunRecords
    <2>3. ASSUME NEW some
          PROVE  /\ [run[r] EXCEPT !.todo = some].id = run[r].id
                 /\ [run[r] EXCEPT !.todo = some].doomed = run[r].doomed
                 /\ [run[r] EXCEPT !.todo = some, !.failed = TRUE].id = run[r].id
                 /\ [run[r] EXCEPT !.todo = some, !.failed = TRUE].doomed = run[r].doomed
      BY <1>0 DEF RunRecords
    <2>4. RunsRest
      BY <1>0, <2>1, <2>2, <2>3, Moves
    <2>5. CASE PutObject(r, db)
      <3>1. db \in Series \cup {"globals", "safety"} /\ db # "root"
        BY RetentionAssumption DEF Series
      <3> QED
        BY <1>0, <2>1, <2>4, <2>5, <3>1, PutKeeps
    <2>6. CASE NothingStored
      BY <1>0, <1>1, <2>4, <2>6, RestKeeps
    <2> QED
      BY <2>2, <2>5, <2>6
  <1>4. CASE StorePrimary(r)
    <2>1. Storing(r) /\ Committing(r)
      BY <1>4 DEF StorePrimary, Storing, Committing
    <2>2. PICK to : /\ RunGoes(r, to)
                    /\ to \in {NoRun, PruneNext(run[r].skew), [run[r] EXCEPT !.pc = "mark"]}
      BY <1>4 DEF StorePrimary, Ends
    <2>3. /\ to.pc \notin {"globals", "databases"}
          /\ to.pc = "mark" => to.id = run[r].id
          /\ to.doomed \in {{}, run[r].doomed}
      <3>1. /\ NoRun.pc = "off" /\ NoRun.doomed = {}
            /\ PruneNext(run[r].skew).pc = "clock" /\ PruneNext(run[r].skew).doomed = {}
        BY DEF NoRun, PruneNext
      <3>2. /\ [run[r] EXCEPT !.pc = "mark"].pc = "mark"
            /\ [run[r] EXCEPT !.pc = "mark"].id = run[r].id
            /\ [run[r] EXCEPT !.pc = "mark"].doomed = run[r].doomed
        BY <1>0 DEF RunRecords
      <3> QED
        BY <2>2, <3>1, <3>2
    <2>4. RunsRest
      BY <1>0, <2>1, <2>2, <2>3, Moves
    <2>5. ~Committing(r)'
      BY <1>0, <2>2, <2>3 DEF RunGoes, Committing, RetTypeOK
    <2>6. CASE PutObject(r, "root")
      BY <1>0, <2>1, <2>4, <2>5, <2>6, PutKeeps DEF Series
    <2>7. CASE NothingStored
      BY <1>0, <1>1, <2>4, <2>7, RestKeeps
    <2> QED
      BY <1>4, <2>6, <2>7 DEF StorePrimary
  <1>5. CASE MarkSafetyCopy(r)
    <2>1. Storing(r) /\ RunsRest
      BY <1>0, <1>5, EndsRest DEF MarkSafetyCopy, Storing
    <2>2. CASE PutObject(r, "safety")
      BY <1>0, <2>1, <2>2, PutKeeps
    <2>3. CASE NothingStored
      BY <1>0, <1>1, <2>1, <2>3, RestKeeps
    <2> QED
      BY <1>5, <2>2, <2>3 DEF MarkSafetyCopy
  <1> QED
    BY <1>2, <1>3, <1>4, <1>5

LEMMA WholeStays == WholeInv /\ [RetNext]_retVars => WholeInv'
  <1> SUFFICES ASSUME WholeInv, [RetNext]_retVars PROVE WholeInv'
    OBVIOUS
  <1>0. RetTypeOK /\ RetInv'
    BY RetInvStep DEF WholeInv, RetInv
  <1>1. CASE UNCHANGED retVars \/ TimePasses
    <2>1. /\ run' = run /\ store' = store /\ ever' = ever /\ torn' = torn /\ ids' = ids
      BY <1>1 DEF retVars, TimePasses
    <2>2. RunsRest
      BY <2>1 DEF RunsRest, Storing, Committing
    <2> QED
      BY <1>0, <2>1, <2>2, RestKeeps DEF Parts, WholeInv
  <1>2. ASSUME NEW r \in Runs, BackUp(r) PROVE Parts'
    BY <1>2, StartKeeps, StoresKeep DEF BackUp
  <1>3. ASSUME NEW r \in Runs, StartPrune(r) \/ CheckPruneClock(r) \/ FinishPrune(r) \/ RunDies(r)
        PROVE  Parts'
    <2>1. store' = store /\ ever' = ever /\ torn' = torn /\ ids' = ids
      BY <1>3 DEF StartPrune, CheckPruneClock, FinishPrune, RunDies
    <2>2. CASE StartPrune(r)
      BY <1>0, <2>1, <2>2, ToPruneRests, RestKeeps DEF StartPrune
    <2>3. CASE CheckPruneClock(r)
      <3>1. CASE Ends(r)
        BY <1>0, <2>1, <3>1, EndsRest, RestKeeps
      <3>2. CASE RunGoes(r, [NoRun EXCEPT !.pc = "plan", !.now = clock + run[r].skew])
        <4>1. /\ [NoRun EXCEPT !.pc = "plan", !.now = clock + run[r].skew].pc = "plan"
              /\ [NoRun EXCEPT !.pc = "plan", !.now = clock + run[r].skew].doomed = {}
          BY DEF NoRun
        <4>2. RunsRest
          BY <1>0, <3>2, <4>1, Moves
        <4> QED
          BY <2>1, <4>2, RestKeeps
      <3> QED
        BY <2>3, <3>1, <3>2 DEF CheckPruneClock
    <2>4. CASE FinishPrune(r) \/ RunDies(r)
      BY <1>0, <2>1, <2>4, EndsRest, RestKeeps DEF FinishPrune, RunDies
    <2> QED
      BY <1>3, <2>2, <2>3, <2>4
  <1>4. ASSUME NEW r \in Runs, Prune(r) PROVE Parts'
    BY <1>3, <1>4, PlanKeeps, DeleteKeeps DEF Prune
  <1>5. ASSUME Parts' PROVE WholeInv'
    BY <1>0, <1>5 DEF Parts, WholeInv
  <1> QED
    BY <1>1, <1>2, <1>3, <1>4, <1>5 DEF RetNext

(* A backup whose primary object is there, or that is under protection,    *)
(* has everything that was stored of it, whatever was listed, deleted,     *)
(* refused or cut off beside it (PruneBackups, store.go).                  *)
THEOREM SurvivorsStayWhole == RetSpec => []SurvivorsWhole
  <1>1. WholeInv => SurvivorsWhole
    <2> SUFFICES ASSUME WholeInv, NEW o \in ever, o.part = "root", o.id \notin torn,
                        o \in store \/ o.id \in Protected(ever, LatestNow),
                        NEW p \in ever, p.id = o.id
                 PROVE  p \in store
      BY DEF SurvivorsWhole
    <2>1. CASE o \in store
      BY <2>1 DEF WholeInv, LostRootless
    <2>2. CASE o.id \in Protected(ever, LatestNow)
      BY <2>2 DEF WholeInv, ShieldHolds, Shielded, Untouched
    <2> QED
      BY <2>1, <2>2
  <1> QED
    BY <1>1, WholeStarts, WholeStays, PTL DEF RetSpec
=============================================================================
