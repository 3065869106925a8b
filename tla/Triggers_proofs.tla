---------------------------- MODULE Triggers_proofs -----------------------------
(***************************************************************************)
(* What TLAPS proves of what starts deploys: the webhook listener, for any *)
(* number of pushes, deliveries, failed appends and deaths, and the git    *)
(* poll, for any history of commits, moves of the branch, cut-off runs and *)
(* commands.                                                               *)
(*                                                                         *)
(* The listener: what was acknowledged is on disk, a delivery is admitted  *)
(* once, no open admission is forgotten and the app never goes back to an  *)
(* earlier push.  A process that has had no failed append knows all that   *)
(* the ledger says; one that has had a failure writes nothing any more;    *)
(* and the next start reads everything back.                               *)
(*                                                                         *)
(* The poll, while no save overwrote another: it forces no deploy over     *)
(* history it does not contain, and retries a commit a bounded number of   *)
(* times.  Beside a job the file changes by a reset and a retry only, and  *)
(* both of them lower what the job was judged by.                          *)
(***************************************************************************)
EXTENDS Admission, GitPoll, FiniteSetTheorems, SequenceTheorems, TLAPS

\* Before it is up a process holds nothing, and no failure is remembered.
NothingHeld ==
    up # "up" => /\ req = Idle /\ workers = {} /\ ~workerLive /\ pending = 0
                 /\ ~latched

\* There is one worker, and a slot is filled only beside it.
OneWorker ==
    /\ \A v, w \in workers : v = w
    /\ workerLive <=> workers # {}
    /\ pending # 0 => workerLive

\* Only the last line may be torn, and only until the next start.
TornAtEnd == \A n \in Lines("torn") : n = Len(ledger) /\ (up = "down" \/ latched)

\* A request is the newest admission; what is held in memory was admitted.
HeldAdmitted ==
    /\ req # Idle => /\ req.id = minted
                     /\ IF req.pc = "append" THEN req.id \notin AdmittedIds
                        ELSE req.id \in AdmittedIds /\ req.body \in AdmittedBodies
    /\ pending # 0 => pending \in AdmittedIds
    /\ \A w \in workers : w.id \in AdmittedIds

\* The replay set and the ledger say the same of a push, but for the one that
\* is being admitted and for one whose failed append did reach the disk.
ReplayAgrees ==
    /\ dedupFile \cap Pushes \subseteq AdmittedBodies
    /\ dedup \cap Pushes \subseteq
          AdmittedBodies \cup (IF req # Idle /\ req.pc = "append" THEN {req.body} ELSE {})
    /\ up = "up" /\ ~latched => AdmittedBodies \subseteq dedup
    /\ req # Idle => req.body \in dedup
    /\ req # Idle /\ req.pc = "append" /\ ~latched => req.body \notin AdmittedBodies

\* A push is admitted once.
OnceEach == \A m, n \in Lines("admitted") : ledger[m].body = ledger[n].body => m = n

\* The deployed, the running, the waiting and the arriving are in that order.
Queued == req # Idle /\ req.pc # "answer"
InOrder ==
    /\ \A w \in workers : liveId <= w.id
    /\ pending # 0 => liveId < pending /\ \A w \in workers : w.id < pending
    /\ Queued => liveId < req.id /\ pending < req.id /\ \A w \in workers : w.id < req.id

\* What is still to be run is open.
StillOpen ==
    /\ Queued => req.id \notin Closed
    /\ pending # 0 => pending \notin Closed
    /\ \A w \in workers : /\ w.pc # "drain" => w.id \notin Closed
                          /\ w.pc = "drain" /\ ~latched => w.id \in Closed

\* Who will run an open admission, while every append succeeds.
Covered(i) == (Queued /\ req.id = i) \/ pending = i \/ \E w \in workers : w.id = i
AllCovered == up = "up" /\ ~latched => \A i \in Unclosed : Covered(i)

\* If anything is open, then something not older than what serves.
OpenIsNewer == \A i \in Unclosed : \E j \in Unclosed : liveId <= j

AdmInv == /\ AdmTypeOK /\ NothingHeld /\ OneWorker /\ TornAtEnd /\ HeldAdmitted
          /\ ReplayAgrees /\ OnceEach /\ InOrder /\ StillOpen /\ AllCovered /\ OpenIsNewer
          /\ AckedIsDurable

-----------------------------------------------------------------------------
(* What a line at the end of the ledger adds to what the ledger says.      *)
LEMMA Appended ==
  ASSUME AdmTypeOK, NEW l, ledger' = Append(ledger, l)
  PROVE  /\ DOMAIN ledger = 1..Len(ledger) /\ Len(ledger) \in Nat
         /\ Len(ledger') = Len(ledger) + 1 /\ DOMAIN ledger' = 1..(Len(ledger) + 1)
         /\ \A n \in 1..Len(ledger) : ledger'[n] = ledger[n]
         /\ ledger'[Len(ledger) + 1] = l
  BY DEF AdmTypeOK

\* An admission at the end of the ledger.
LEMMA AppendAdmitted ==
  ASSUME AdmTypeOK, NEW i, NEW b, ledger' = Append(ledger, Line("admitted", i, b))
  PROVE  /\ AdmittedIds' = AdmittedIds \cup {i} /\ Closed' = Closed
         /\ AdmittedBodies' = AdmittedBodies \cup {b}
         /\ Lines("torn")' = Lines("torn")
         /\ OnceEach /\ b \notin AdmittedBodies => OnceEach'
  <1> DEFINE l == Line("admitted", i, b)
  <1>1. l.kind = "admitted" /\ l.id = i /\ l.body = b
    BY DEF Line
  <1>0. ledger' = Append(ledger, l)
    OBVIOUS
  <1> HIDE DEF l
  <1>2. /\ Lines("admitted")' = Lines("admitted") \cup {Len(ledger) + 1}
        /\ \A k \in {"processed", "superseded", "torn"} : Lines(k)' = Lines(k)
    BY <1>0, <1>1, Appended DEF Lines
  <1>3. /\ \A n \in DOMAIN ledger : ledger'[n] = ledger[n] /\ n # Len(ledger) + 1
        /\ ledger'[Len(ledger) + 1] = l
    BY <1>0, Appended
  <1>4. \A k : Lines(k) \subseteq DOMAIN ledger
    BY DEF Lines
  <1>5. AdmittedIds' = AdmittedIds \cup {i} /\ AdmittedBodies' = AdmittedBodies \cup {b}
    BY <1>1, <1>2, <1>3, <1>4 DEF AdmittedIds, AdmittedBodies
  <1>6. Closed' = Closed
    BY <1>2, <1>3, <1>4 DEF Closed
  <1>7. OnceEach /\ b \notin AdmittedBodies => OnceEach'
    BY <1>1, <1>2, <1>3, <1>4 DEF OnceEach, AdmittedBodies
  <1> QED
    BY <1>2, <1>5, <1>6, <1>7

\* A mark at the end of the ledger.
LEMMA AppendClosing ==
  ASSUME AdmTypeOK, NEW k \in {"processed", "superseded"}, NEW i, NEW b,
         ledger' = Append(ledger, Line(k, i, b))
  PROVE  /\ AdmittedIds' = AdmittedIds /\ Closed' = Closed \cup {i}
         /\ AdmittedBodies' = AdmittedBodies
         /\ Lines("torn")' = Lines("torn")
         /\ OnceEach => OnceEach'
  <1> DEFINE l == Line(k, i, b)
  <1>1. l.kind = k /\ l.id = i
    BY DEF Line
  <1>0. ledger' = Append(ledger, l)
    OBVIOUS
  <1> HIDE DEF l
  <1>2. /\ Lines("admitted")' = Lines("admitted") /\ Lines("torn")' = Lines("torn")
        /\ (Lines("processed") \cup Lines("superseded"))'
              = Lines("processed") \cup Lines("superseded") \cup {Len(ledger) + 1}
    BY <1>0, <1>1, Appended DEF Lines
  <1>3. /\ \A n \in DOMAIN ledger : ledger'[n] = ledger[n]
        /\ ledger'[Len(ledger) + 1] = l
    BY <1>0, Appended
  <1>4. \A kind : Lines(kind) \subseteq DOMAIN ledger
    BY DEF Lines
  <1>5. AdmittedIds' = AdmittedIds /\ AdmittedBodies' = AdmittedBodies
    BY <1>2, <1>3, <1>4 DEF AdmittedIds, AdmittedBodies
  <1>6. Closed' = Closed \cup {i}
    BY <1>1, <1>2, <1>3, <1>4 DEF Closed
  <1>7. OnceEach => OnceEach'
    BY <1>2, <1>3, <1>4 DEF OnceEach
  <1> QED
    BY <1>2, <1>5, <1>6, <1>7

\* A torn line at the end of the ledger.
LEMMA AppendTorn ==
  ASSUME AdmTypeOK, ledger' = Append(ledger, TornLine)
  PROVE  /\ AdmittedIds' = AdmittedIds /\ Closed' = Closed
         /\ AdmittedBodies' = AdmittedBodies
         /\ Lines("torn")' = Lines("torn") \cup {Len(ledger')}
         /\ OnceEach => OnceEach'
  <1>1. TornLine.kind = "torn"
    BY DEF TornLine
  <1>2. /\ \A k \in {"admitted", "processed", "superseded"} : Lines(k)' = Lines(k)
        /\ Lines("torn")' = Lines("torn") \cup {Len(ledger')}
    BY <1>1, Appended DEF Lines
  <1>3. \A n \in DOMAIN ledger : ledger'[n] = ledger[n]
    BY Appended
  <1>4. \A kind : Lines(kind) \subseteq DOMAIN ledger
    BY DEF Lines
  <1> QED
    BY <1>2, <1>3, <1>4 DEF AdmittedIds, AdmittedBodies, Closed, OnceEach

(* What the start finds and does.                                          *)
LEMMA RepairedSays ==
  ASSUME AdmTypeOK, ~Corrupt, ledger' = Repaired
  PROVE  /\ AdmittedIds' = AdmittedIds /\ Closed' = Closed
         /\ AdmittedBodies' = AdmittedBodies
         /\ Lines("torn")' = {}
         /\ OnceEach => OnceEach'
         /\ ledger' \in Seq(LedgerLines)
  <1>1. CASE Lines("torn") = {}
    BY <1>1 DEF Repaired, AdmTypeOK, AdmittedIds, AdmittedBodies, Closed, OnceEach, Lines
  <1>2. CASE Lines("torn") # {}
    <2>1. PICK last \in Lines("torn") : TRUE
      BY <1>2
    <2>2. /\ Len(ledger) \in Nat /\ DOMAIN ledger = 1..Len(ledger)
          /\ last \in DOMAIN ledger /\ last = Len(ledger)
      BY <2>1 DEF AdmTypeOK, Corrupt, Lines
    <2>3. /\ DOMAIN ledger' = 1..(Len(ledger) - 1)
          /\ \A n \in DOMAIN ledger' : ledger'[n] = ledger[n]
          /\ ledger' \in Seq(LedgerLines)
      BY <1>2, <2>2 DEF AdmTypeOK, Repaired, Front
    <2>4. \A n \in Lines("torn") : n = Len(ledger)
      BY <2>2 DEF Corrupt, Lines
    <2>5. /\ \A k \in {"admitted", "processed", "superseded"} : Lines(k)' = Lines(k)
          /\ Lines("torn")' = {}
      BY <2>1, <2>2, <2>3, <2>4 DEF Lines
    <2>6. \A k \in {"admitted", "processed", "superseded"} : Lines(k)' \subseteq DOMAIN ledger'
      BY DEF Lines
    <2> QED
      BY <2>3, <2>5, <2>6 DEF AdmittedIds, AdmittedBodies, Closed, OnceEach
  <1> QED
    BY <1>1, <1>2

\* The lines of a kind are places in the ledger.
LEMMA LinesTyped ==
  ASSUME AdmTypeOK
  PROVE  /\ \A n \in DOMAIN ledger : ledger[n] \in LedgerLines
         /\ \A n \in DOMAIN ledger : ledger[n].kind # "torn" =>
               ledger[n].id \in 1..minted /\ ledger[n].body \in Pushes
         /\ AdmittedIds \subseteq 1..minted /\ Closed \subseteq 1..minted
         /\ AdmittedBodies \subseteq Pushes
         /\ \A i \in AdmittedIds : BodyOf(i) \in Pushes
  <1>1. \A n \in DOMAIN ledger : ledger[n] \in LedgerLines
    BY DEF AdmTypeOK
  <1>2. \A n \in DOMAIN ledger : ledger[n].kind # "torn" =>
               ledger[n].id \in 1..minted /\ ledger[n].body \in Pushes
    BY <1>1 DEF LedgerLines, TornLine
  <1>3. \A i \in AdmittedIds : BodyOf(i) \in Pushes
    BY <1>2 DEF BodyOf, AdmittedIds, Lines
  <1> QED
    BY <1>1, <1>2, <1>3 DEF AdmittedIds, Closed, AdmittedBodies, Lines

\* A line the server writes is a ledger line.
LEMMA LineTyped ==
  ASSUME NEW k \in {"admitted", "processed", "superseded"}, NEW i \in 1..minted,
         NEW b \in Pushes
  PROVE  Line(k, i, b) \in LedgerLines
  BY DEF Line, LedgerLines

(* A ledger that grew by marks, and perhaps a torn line, of no admission.  *)
LEMMA Extended ==
  ASSUME AdmTypeOK, NEW X, ledger' \in Seq(X), Len(ledger) <= Len(ledger'),
         \A n \in DOMAIN ledger : ledger'[n] = ledger[n],
         \A n \in (Len(ledger) + 1)..Len(ledger') : ledger'[n].kind \in {"superseded", "torn"}
  PROVE  /\ AdmittedIds' = AdmittedIds /\ AdmittedBodies' = AdmittedBodies
         /\ Closed' = Closed \cup {ledger'[n].id : n \in
               {m \in (Len(ledger) + 1)..Len(ledger') : ledger'[m].kind = "superseded"}}
         /\ Lines("torn")' = Lines("torn") \cup
               {m \in (Len(ledger) + 1)..Len(ledger') : ledger'[m].kind = "torn"}
         /\ OnceEach => OnceEach'
  <1> DEFINE grown == (Len(ledger) + 1)..Len(ledger')
  <1>1. /\ DOMAIN ledger' = DOMAIN ledger \cup grown
        /\ \A n \in grown : n \notin DOMAIN ledger
    <2>1. /\ Len(ledger) \in Nat /\ DOMAIN ledger = 1..Len(ledger)
          /\ Len(ledger') \in Nat /\ DOMAIN ledger' = 1..Len(ledger')
      BY LenProperties DEF AdmTypeOK
    <2> QED
      BY <2>1
  <1>2. \A n \in grown : ledger'[n].kind \in {"superseded", "torn"}
    OBVIOUS
  <1> HIDE DEF grown
  <1>3. /\ Lines("admitted")' = Lines("admitted")
        /\ (Lines("processed") \cup Lines("superseded"))'
              = Lines("processed") \cup Lines("superseded")
                \cup {m \in grown : ledger'[m].kind = "superseded"}
        /\ Lines("torn")' = Lines("torn") \cup {m \in grown : ledger'[m].kind = "torn"}
    BY <1>1, <1>2 DEF Lines
  <1>4. \A kind : Lines(kind) \subseteq DOMAIN ledger
    BY DEF Lines
  <1>5. AdmittedIds' = AdmittedIds /\ AdmittedBodies' = AdmittedBodies
    BY <1>3, <1>4 DEF AdmittedIds, AdmittedBodies
  <1>6. Closed' = Closed \cup
          {ledger'[n].id : n \in {m \in grown : ledger'[m].kind = "superseded"}}
    BY <1>3, <1>4 DEF Closed
  <1>7. OnceEach => OnceEach'
    BY <1>3, <1>4 DEF OnceEach
  <1> QED
    BY <1>3, <1>5, <1>6, <1>7 DEF grown

(* The marks of the older open admissions, in a sequence.                  *)
LEMMA MarksAre ==
  ASSUME AdmTypeOK, NEW ids \in SUBSET AdmittedIds, NEW older \in InLedgerOrder(ids),
         NEW k \in 0..Len(older)
  PROVE  /\ Len(older) \in Nat /\ DOMAIN older = 1..Len(older)
         /\ Marks(older, k) \in Seq(LedgerLines) /\ Len(Marks(older, k)) = k
         /\ \A n \in 1..k : /\ Marks(older, k)[n].kind = "superseded"
                             /\ Marks(older, k)[n].id = older[n] /\ older[n] \in ids
  <1>1. IsFiniteSet(ids)
    <2>1. ids \in SUBSET (1..minted) /\ minted \in Int
      BY LinesTyped DEF AdmTypeOK
    <2>2. IsFiniteSet(1..minted)
      BY <2>1, FS_Interval
    <2> QED
      BY <2>1, <2>2, FS_Subset
  <1>2. Cardinality(ids) \in Nat /\ older \in [1..Cardinality(ids) -> ids]
    BY <1>1, FS_CardinalityType DEF InLedgerOrder
  <1>3. older \in Seq(ids) /\ Len(older) \in Nat /\ DOMAIN older = 1..Len(older)
    BY <1>2, SeqDef, LenProperties
  <1>4. \A n \in 1..Len(older) : older[n] \in ids
    BY <1>3, ElementOfSeq
  <1>5. \A n \in 1..k : Line("superseded", older[n], BodyOf(older[n])) \in LedgerLines
    BY <1>3, <1>4, LinesTyped, LineTyped
  <1>6. Marks(older, k) \in [1..k -> LedgerLines]
    BY <1>5 DEF Marks
  <1>7. Marks(older, k) \in Seq(LedgerLines) /\ Len(Marks(older, k)) = k
    BY <1>3, <1>6, SeqDef, LenProperties
  <1>8. \A n \in 1..k : /\ Marks(older, k)[n].kind = "superseded"
                        /\ Marks(older, k)[n].id = older[n] /\ older[n] \in ids
    BY <1>3, <1>4 DEF Marks, Line
  <1> QED
    BY <1>3, <1>7, <1>8

\* Marks of older admissions at the end of the ledger.
LEMMA Superseded ==
  ASSUME AdmTypeOK, NEW ids \in SUBSET AdmittedIds, NEW older \in InLedgerOrder(ids),
         ~latched, Supersede(older)
  PROVE  /\ ledger' \in Seq(LedgerLines)
         /\ AdmittedIds' = AdmittedIds /\ AdmittedBodies' = AdmittedBodies
         /\ Closed \subseteq Closed' /\ Closed' \subseteq Closed \cup ids
         /\ ~latched' => Closed' = Closed \cup ids
         /\ Lines("torn")' \subseteq Lines("torn") \cup {Len(ledger')}
         /\ ~latched' => Lines("torn")' = Lines("torn")
         /\ OnceEach => OnceEach'
         /\ latched' \in BOOLEAN /\ faults' \in 0..MaxFaults
  <1> DEFINE grown == (Len(ledger) + 1)..Len(ledger')
  <1>0. ledger \in Seq(LedgerLines) /\ Len(ledger) \in Nat /\ DOMAIN ledger = 1..Len(ledger)
    BY LenProperties DEF AdmTypeOK
  <1>1. latched' \in BOOLEAN /\ faults' \in 0..MaxFaults
    <2>1. \/ latched' = latched /\ faults' = faults
          \/ latched' = TRUE /\ faults < MaxFaults /\ faults' = faults + 1
      BY Zenon DEF Supersede
    <2>2. latched' \in BOOLEAN
      BY <2>1 DEF AdmTypeOK
    <2>3. MaxFaults \in Nat /\ faults \in 0..MaxFaults
      BY AdmissionAssumption DEF AdmTypeOK
    <2> QED
      BY <2>1, <2>2, <2>3
  <1>2. ASSUME NEW k \in 0..Len(older), ledger' = ledger \o Marks(older, k)
        PROVE  /\ ledger' \in Seq(LedgerLines) /\ Len(ledger') = Len(ledger) + k
               /\ \A n \in DOMAIN ledger : ledger'[n] = ledger[n]
               /\ \A n \in grown : /\ ledger'[n].kind = "superseded"
                                   /\ n - Len(ledger) \in 1..k
                                   /\ ledger'[n].id = older[n - Len(ledger)]
                                   /\ ledger'[n].id \in ids
    <2>1. /\ Marks(older, k) \in Seq(LedgerLines) /\ Len(Marks(older, k)) = k
          /\ k \in Nat
          /\ \A n \in 1..k : /\ Marks(older, k)[n].kind = "superseded"
                              /\ Marks(older, k)[n].id = older[n] /\ older[n] \in ids
      <3>1. Marks(older, k) \in Seq(LedgerLines) /\ Len(Marks(older, k)) = k
        BY <1>2, MarksAre
      <3>2. \A n \in 1..k : /\ Marks(older, k)[n].kind = "superseded"
                              /\ Marks(older, k)[n].id = older[n] /\ older[n] \in ids
        BY <1>2, MarksAre
      <3>3. Len(older) \in Nat
        BY MarksAre
      <3> QED
        BY <1>2, <3>1, <3>2, <3>3
    <2>2. /\ ledger' \in Seq(LedgerLines) /\ Len(ledger') = Len(ledger) + k
          /\ \A n \in 1..(Len(ledger) + k) :
                ledger'[n] = IF n <= Len(ledger) THEN ledger[n]
                             ELSE Marks(older, k)[n - Len(ledger)]
      <3> DEFINE m == Marks(older, k)
      <3>1. m \in Seq(LedgerLines) /\ Len(m) = k /\ ledger' = ledger \o m
        BY <1>2, <2>1
      <3> HIDE DEF m
      <3>2. /\ ledger \o m \in Seq(LedgerLines) /\ Len(ledger \o m) = Len(ledger) + k
            /\ \A n \in 1..(Len(ledger) + k) :
                  (ledger \o m)[n] = IF n <= Len(ledger) THEN ledger[n] ELSE m[n - Len(ledger)]
        BY <1>0, <3>1, ConcatProperties
      <3>3. /\ ledger' \in Seq(LedgerLines) /\ Len(ledger') = Len(ledger) + k
            /\ \A n \in 1..(Len(ledger) + k) :
                  ledger'[n] = IF n <= Len(ledger) THEN ledger[n] ELSE m[n - Len(ledger)]
        BY <3>1, <3>2
      <3> QED
        BY <3>3 DEF m
    <2>3. \A n \in grown : /\ n - Len(ledger) \in 1..k
                           /\ ledger'[n] = Marks(older, k)[n - Len(ledger)]
      BY <1>0, <2>1, <2>2
    <2> QED
      BY <1>0, <2>1, <2>2, <2>3
  <1>3. CASE \E k \in 0..Len(older) : ledger' = ledger \o Marks(older, k)
    <2>1. PICK k \in 0..Len(older) : ledger' = ledger \o Marks(older, k)
      BY <1>3
    <2>2. /\ ledger' \in Seq(LedgerLines) /\ Len(ledger) <= Len(ledger')
          /\ \A n \in DOMAIN ledger : ledger'[n] = ledger[n]
          /\ \A n \in grown : ledger'[n].kind = "superseded" /\ ledger'[n].id \in ids
      BY SMTT(20), <1>0, <1>2, <2>1
    <2>3. /\ AdmittedIds' = AdmittedIds /\ AdmittedBodies' = AdmittedBodies
          /\ Closed' = Closed \cup {ledger'[n].id : n \in grown}
          /\ Lines("torn")' = Lines("torn")
          /\ OnceEach => OnceEach'
      BY <2>2, Extended
    <2>4. ~latched' => ids \subseteq {ledger'[n].id : n \in grown}
      <3> SUFFICES ASSUME ~latched', NEW i \in ids PROVE \E n \in grown : ledger'[n].id = i
        OBVIOUS
      <3>1. ledger' = ledger \o Marks(older, Len(older)) /\ Len(older) \in 0..Len(older)
        BY MarksAre, <2>1 DEF Supersede
      <3>2. PICK n \in 1..Len(older) : older[n] = i
        BY <2>1, MarksAre DEF InLedgerOrder
      <3>3. Len(ledger) + n \in grown /\ (Len(ledger) + n) - Len(ledger) = n
        BY <1>0, <1>2, <3>1, <3>2, MarksAre
      <3> QED
        BY <1>2, <3>1, <3>2, <3>3
    <2> QED
      BY <1>1, <2>2, <2>3, <2>4
  <1>4. CASE \E k \in 0..Len(older) : ledger' = Append(ledger \o Marks(older, k), TornLine)
    <2>1. PICK k \in 0..Len(older) : ledger' = Append(ledger \o Marks(older, k), TornLine)
      BY <1>4
    <2> DEFINE m == Marks(older, k)
    <2>2. /\ m \in Seq(LedgerLines) /\ Len(m) = k /\ k \in Nat
          /\ \A n \in 1..k : m[n].kind = "superseded" /\ m[n].id \in ids
      BY MarksAre
    <2>3. ledger' = Append(ledger \o m, TornLine) /\ TornLine.kind = "torn"
      BY <2>1 DEF TornLine
    <2> HIDE DEF m
    <2>4. /\ ledger \o m \in Seq(LedgerLines) /\ Len(ledger \o m) = Len(ledger) + k
          /\ \A n \in 1..(Len(ledger) + k) :
                (ledger \o m)[n] = IF n <= Len(ledger) THEN ledger[n] ELSE m[n - Len(ledger)]
      BY <1>0, <2>2, ConcatProperties
    <2>5. /\ ledger' \in Seq(LedgerLines) /\ Len(ledger') = Len(ledger) + k + 1
          /\ \A n \in 1..(Len(ledger) + k) :
                ledger'[n] = IF n <= Len(ledger) THEN ledger[n] ELSE m[n - Len(ledger)]
          /\ ledger'[Len(ledger')] = TornLine
      BY <1>0, <2>2, <2>3, <2>4 DEF LedgerLines
    <2>6. /\ Len(ledger) <= Len(ledger')
          /\ \A n \in DOMAIN ledger : ledger'[n] = ledger[n]
          /\ \A n \in grown : \/ n = Len(ledger') /\ ledger'[n].kind = "torn"
                              \/ ledger'[n].kind = "superseded" /\ ledger'[n].id \in ids
      <3>1. \A n \in DOMAIN ledger : n \in 1..(Len(ledger) + k) /\ n <= Len(ledger)
        BY <1>0, <2>2
      <3>2. \A n \in grown : n = Len(ledger') \/ (/\ n \in 1..(Len(ledger) + k)
                                                 /\ ~(n <= Len(ledger))
                                                 /\ n - Len(ledger) \in 1..k)
        BY <1>0, <2>2, <2>5
      <3>3. Len(ledger) <= Len(ledger')
        BY <1>0, <2>2, <2>5
      <3> QED
        BY <2>2, <2>3, <2>5, <3>1, <3>2, <3>3
    <2>7. /\ AdmittedIds' = AdmittedIds /\ AdmittedBodies' = AdmittedBodies
          /\ Closed' = Closed \cup {ledger'[n].id : n \in
                                       {x \in grown : ledger'[x].kind = "superseded"}}
          /\ Lines("torn")' = Lines("torn") \cup {x \in grown : ledger'[x].kind = "torn"}
          /\ OnceEach => OnceEach'
      BY <2>5, <2>6, Extended
    <2>8. latched'
      <3>1. ~(ledger' = ledger \o Marks(older, Len(older)))
        <4> SUFFICES ASSUME ledger' = ledger \o Marks(older, Len(older)) PROVE FALSE
          OBVIOUS
        <4>1. Len(older) \in 0..Len(older)
          BY MarksAre
        <4>2. Len(ledger') \in grown /\ ledger'[Len(ledger')].kind = "torn"
          BY <1>0, <2>2, <2>3, <2>5
        <4> QED
          BY <1>2, <4>1, <4>2
      <3> QED
        BY <3>1 DEF Supersede
    <2> QED
      BY SMTT(20), <1>1, <2>5, <2>6, <2>7, <2>8
  <1>5. ASSUME NEW k \in 0..(Len(older) - 1) PROVE k \in 0..Len(older) /\ k + 1 \in 0..Len(older)
    BY MarksAre
  <1>6. Len(older) \in 0..Len(older)
    BY MarksAre
  <1>7. \/ \E k \in 0..Len(older) : ledger' = ledger \o Marks(older, k)
        \/ \E k \in 0..Len(older) : ledger' = Append(ledger \o Marks(older, k), TornLine)
    BY <1>5, <1>6, Zenon DEF Supersede
  <1> QED
    BY <1>3, <1>4, <1>7

-----------------------------------------------------------------------------
\* The parts of a request in progress.
LEMMA ReqTyped ==
  ASSUME AdmTypeOK
  PROVE  /\ Idle.pc = "idle"
         /\ req # Idle => /\ req.pc \in {"append", "persist", "queue", "answer"}
                          /\ req.id \in 1..minted /\ req.body \in Pushes
         /\ req.pc # "idle" => req # Idle
         /\ minted \in Nat /\ pending \in Nat /\ liveId \in Nat
         /\ \A w \in workers : /\ w.id \in 1..minted /\ w.id \in Nat
                                /\ w.pc \in {"run", "mark", "drain"}
  BY DEF AdmTypeOK, Idle

\* With the ledger as it was, so is all it says.
SaysTheSame ==
    /\ AdmittedIds' = AdmittedIds /\ AdmittedBodies' = AdmittedBodies /\ Closed' = Closed

\* What the ledger says depends on the ledger alone.
LEMMA SameLedger ==
  ASSUME ledger' = ledger
  PROVE  /\ SaysTheSame /\ Lines("torn")' = Lines("torn") /\ OnceEach' = OnceEach
         /\ Unclosed' = Unclosed
  BY DEF SaysTheSame, AdmittedIds, AdmittedBodies, Closed, Lines, OnceEach, Unclosed

\* A failed append of the admission of body b, while the process is up.
LEMMA Unadmitted ==
  ASSUME AdmTypeOK, TornAtEnd, OnceEach, up = "up", NEW i \in 1..minted, NEW b \in Pushes,
         ~latched => b \notin AdmittedBodies, Failure(Line("admitted", i, b))
  PROVE  /\ ledger' \in Seq(LedgerLines) /\ latched' /\ faults' \in 0..MaxFaults
         /\ Closed' = Closed /\ OnceEach'
         /\ \/ AdmittedIds' = AdmittedIds /\ AdmittedBodies' = AdmittedBodies
            \/ /\ AdmittedIds' = AdmittedIds \cup {i} /\ ~latched
               /\ AdmittedBodies' = AdmittedBodies \cup {b}
         /\ \A n \in Lines("torn")' : n = Len(ledger')
  <1> DEFINE l == Line("admitted", i, b)
  <1>1. l \in LedgerLines /\ TornLine \in LedgerLines
    BY LineTyped DEF LedgerLines
  <1>2. CASE latched
    <2>1. ledger' = ledger /\ latched' = latched /\ faults' = faults
      BY <1>2 DEF Failure
    <2> QED
      BY <1>2, <2>1, SameLedger DEF SaysTheSame, TornAtEnd, AdmTypeOK
  <1>3. CASE ~latched
    <2>1. /\ ledger' \in {ledger, Append(ledger, l), Append(ledger, TornLine)}
          /\ latched' = TRUE /\ faults < MaxFaults /\ faults' = faults + 1
      BY <1>3 DEF Failure
    <2>2. Lines("torn") = {} /\ b \notin AdmittedBodies
      BY <1>3 DEF TornAtEnd
    <2>3. latched' /\ faults' \in 0..MaxFaults
      BY <2>1, AdmissionAssumption DEF AdmTypeOK
    <2>4. CASE ledger' = ledger
      BY <2>2, <2>3, <2>4, SameLedger DEF SaysTheSame, AdmTypeOK
    <2>5. CASE ledger' = Append(ledger, l)
      <3>1. ledger' \in Seq(LedgerLines)
        BY <1>1, <2>5 DEF AdmTypeOK
      <3> QED
        BY <1>3, <2>2, <2>3, <2>5, <3>1, AppendAdmitted
    <2>6. CASE ledger' = Append(ledger, TornLine)
      <3>1. ledger' \in Seq(LedgerLines)
        BY <1>1, <2>6 DEF AdmTypeOK
      <3> QED
        BY <2>2, <2>3, <2>6, <3>1, AppendTorn
    <2> QED
      BY <2>1, <2>4, <2>5, <2>6
  <1> QED
    BY <1>2, <1>3

\* The best-effort mark that closes admission i, while the process is up.
LEMMA Marked ==
  ASSUME AdmTypeOK, TornAtEnd, OnceEach, up = "up", NEW k \in {"processed", "superseded"},
         NEW i \in 1..minted, NEW b \in Pushes, BestEffort(Line(k, i, b))
  PROVE  /\ ledger' \in Seq(LedgerLines) /\ latched' \in BOOLEAN /\ faults' \in 0..MaxFaults
         /\ AdmittedIds' = AdmittedIds /\ AdmittedBodies' = AdmittedBodies /\ OnceEach'
         /\ Closed' = Closed \/ Closed' = Closed \cup {i}
         /\ latched => latched' /\ Closed' = Closed
         /\ ~latched' => ~latched /\ Closed' = Closed \cup {i}
         /\ \A n \in Lines("torn")' : n = Len(ledger') /\ latched'
  <1> DEFINE l == Line(k, i, b)
  <1>1. l \in LedgerLines /\ TornLine \in LedgerLines
    BY LineTyped DEF LedgerLines
  <1>2. CASE latched
    <2>1. ledger' = ledger /\ latched' = latched /\ faults' = faults
      BY <1>2 DEF Failure, BestEffort, Durable
    <2> QED
      BY <1>2, <2>1, SameLedger DEF SaysTheSame, TornAtEnd, AdmTypeOK
  <1>3. CASE ~latched
    <2>1. \/ ledger' = Append(ledger, l) /\ latched' = latched /\ faults' = faults
          \/ /\ ledger' \in {ledger, Append(ledger, l), Append(ledger, TornLine)}
             /\ latched' = TRUE /\ faults < MaxFaults /\ faults' = faults + 1
      BY <1>3 DEF Failure, BestEffort, Durable
    <2>2. Lines("torn") = {}
      BY <1>3 DEF TornAtEnd
    <2>3. latched' \in BOOLEAN
      BY <2>1 DEF AdmTypeOK
    <2>4. faults' \in 0..MaxFaults
      BY <2>1, AdmissionAssumption DEF AdmTypeOK
    <2>5. CASE ledger' = ledger
      <3>1. latched'
        <4>1. Append(ledger, l) # ledger
          <5>1. Len(Append(ledger, l)) = Len(ledger) + 1 /\ Len(ledger) \in Nat
            BY DEF AdmTypeOK
          <5> QED
            BY <5>1
        <4> QED
          BY <2>1, <2>5, <4>1
      <3> QED
        BY <1>3, <2>2, <2>4, <2>5, <3>1, SameLedger DEF SaysTheSame, AdmTypeOK
    <2>6. CASE ledger' = Append(ledger, l)
      <3>1. ledger' \in Seq(LedgerLines)
        BY <1>1, <2>6 DEF AdmTypeOK
      <3> QED
        BY <1>3, <2>2, <2>3, <2>4, <2>6, <3>1, AppendClosing
    <2>7. CASE ledger' = Append(ledger, TornLine)
      <3>1. ledger' \in Seq(LedgerLines)
        BY <1>1, <2>7 DEF AdmTypeOK
      <3>2. latched'
        <4>1. Append(ledger, l) # Append(ledger, TornLine)
          <5>1. l.kind # TornLine.kind
            BY DEF Line, TornLine
          <5>2. Append(ledger, l)[Len(ledger) + 1] = l
            BY DEF AdmTypeOK
          <5>3. Append(ledger, TornLine)[Len(ledger) + 1] = TornLine
            BY DEF AdmTypeOK
          <5> QED
            BY <5>1, <5>2, <5>3
        <4> QED
          BY <2>1, <2>7, <4>1
      <3> QED
        BY <1>3, <2>2, <2>4, <2>7, <3>1, <3>2, AppendTorn
    <2> QED
      BY <2>1, <2>5, <2>6, <2>7
  <1> QED
    BY <1>2, <1>3

\* A body that is in the replay set.
LEMMA ReplayedKeeps ==
  ASSUME AdmInv, NEW b \in Bodies, Replayed(b) PROVE AdmInv'
  <1> USE DEF AdmInv
  <1>1. /\ ledger' = ledger /\ UNCHANGED <<dedupFile, memory, minted, tried, liveId>>
        /\ acked' = acked \cup ({b} \cap Pushes) /\ req = Idle /\ b \in dedup
    BY DEF Replayed, Delivered, disk
  <1>2. SaysTheSame /\ Lines("torn")' = Lines("torn") /\ OnceEach' /\ Unclosed' = Unclosed
    BY <1>1, SameLedger
  <1>3. AdmTypeOK'
    <2>1. (ledger \in Seq(LedgerLines))' /\ pushed' \in 0..MaxPushes /\ sends' \in 0..MaxSends
      <3>1. pushed' \in 0..MaxPushes /\ sends' \in 0..MaxSends
        BY AdmissionAssumption DEF Replayed, Delivered, AdmTypeOK, Bodies, Pushes
      <3> QED
        BY <1>1, <3>1 DEF AdmTypeOK, LedgerLines
    <2>2. acked' \subseteq Pushes /\ UNCHANGED <<faults, crashes>>
      BY <1>1 DEF AdmTypeOK, Replayed
    <2> QED
      BY <1>1, <2>1, <2>2 DEF AdmTypeOK, memory
  <1>6. NothingHeld' /\ OneWorker'
    BY <1>1, Zenon DEF NothingHeld, OneWorker, memory
  <1>4. TornAtEnd' /\ HeldAdmitted' /\ ReplayAgrees' /\ AckedIsDurable'
    BY <1>1, <1>2 DEF TornAtEnd, HeldAdmitted, ReplayAgrees, AckedIsDurable, SaysTheSame, memory
  <1>5. InOrder' /\ StillOpen' /\ AllCovered' /\ OpenIsNewer'
    BY <1>1, <1>2 DEF InOrder, StillOpen, AllCovered, OpenIsNewer, SaysTheSame, Queued,
       Covered, memory
  <1> QED
    BY <1>2, <1>3, <1>4, <1>5, <1>6

\* A body that is not: it gets the next id.
LEMMA FreshKeeps ==
  ASSUME AdmInv, NEW b \in Bodies, Fresh(b) PROVE AdmInv'
  <1> USE DEF AdmInv
  <1>1. /\ ledger' = ledger /\ dedupFile' = dedupFile /\ dedup' = dedup \cup {b}
        /\ UNCHANGED <<up, latched, workerLive, pending, workers, acked, tried, liveId,
                       faults, crashes>>
        /\ req = Idle /\ b \notin dedup /\ up = "up"
    BY DEF Fresh, Delivered, disk
  <1>2. SaysTheSame /\ Lines("torn")' = Lines("torn") /\ OnceEach' /\ Unclosed' = Unclosed
    BY <1>1, SameLedger
  <1>3. \/ b \in Others /\ b \notin Pushes /\ req' = Idle /\ minted' = minted
        \/ /\ b \in Pushes /\ minted' = minted + 1
           /\ req' = [pc |-> "append", body |-> b, id |-> minted + 1]
    BY <1>1, AdmissionAssumption DEF Fresh, Bodies, Pushes
  <1>4. minted \in Nat /\ minted' \in Nat /\ minted <= minted' /\ 1..minted \subseteq 1..minted'
    BY <1>3 DEF AdmTypeOK
  <1>5. AdmTypeOK'
    <2>1. pushed' \in 0..MaxPushes /\ sends' \in 0..MaxSends
      BY AdmissionAssumption DEF Fresh, Delivered, AdmTypeOK, Bodies, Pushes
    <2>2. (ledger \in Seq(LedgerLines))'
      <3>1. LedgerLines \subseteq LedgerLines'
        BY <1>4 DEF LedgerLines
      <3>2. \A n \in 1..Len(ledger) : ledger[n] \in LedgerLines'
        BY <3>1 DEF AdmTypeOK
      <3>3. ledger = [n \in 1..Len(ledger) |-> ledger[n]] /\ Len(ledger) \in Nat
        BY DEF AdmTypeOK
      <3>4. ledger \in [1..Len(ledger) -> LedgerLines']
        BY <3>2, <3>3
      <3> QED
        BY <1>1, <3>3, <3>4, SeqDef
    <2>3. \/ req' = Idle
          \/ req' \in [pc : {"append", "persist", "queue", "answer"}, body : Pushes,
                       id : 1..minted']
      BY <1>3, <1>4
    <2>4. /\ pending' \in 0..minted' /\ liveId' \in 0..minted' /\ tried' \subseteq 1..minted'
          /\ workers' \subseteq [id : 1..minted', pc : {"run", "mark", "drain"}]
      BY <1>1, <1>4 DEF AdmTypeOK
    <2> QED
      BY <1>1, <1>4, <2>1, <2>2, <2>3, <2>4 DEF AdmTypeOK
  <1>6. NothingHeld' /\ OneWorker'
    BY <1>1, Zenon DEF NothingHeld, OneWorker
  <1>7. TornAtEnd' /\ AckedIsDurable'
    BY <1>1, <1>2 DEF TornAtEnd, AckedIsDurable, SaysTheSame
  <1>8. CASE req' = Idle /\ minted' = minted /\ b \notin Pushes
    <2>1. HeldAdmitted' /\ ReplayAgrees'
      BY <1>1, <1>2, <1>8 DEF HeldAdmitted, ReplayAgrees, SaysTheSame
    <2>2. InOrder' /\ StillOpen' /\ AllCovered' /\ OpenIsNewer'
      BY <1>1, <1>2, <1>8 DEF InOrder, StillOpen, AllCovered, OpenIsNewer, SaysTheSame, Queued,
         Covered
    <2> QED
      BY <1>2, <1>5, <1>6, <1>7, <2>1, <2>2
  <1>9. CASE /\ b \in Pushes /\ minted' = minted + 1
             /\ req' = [pc |-> "append", body |-> b, id |-> minted + 1]
    <2>1. /\ req' # Idle /\ req'.pc = "append" /\ req'.id = minted' /\ req'.body = b
          /\ req'.id = minted + 1
      BY <1>9 DEF Idle
    <2>2. /\ minted + 1 \notin AdmittedIds /\ minted + 1 \notin Closed
          /\ liveId < minted + 1 /\ pending < minted + 1
          /\ \A w \in workers : w.id < minted + 1
      BY LinesTyped DEF AdmTypeOK
    <2>3. HeldAdmitted'
      BY <1>1, <1>2, <2>1, <2>2 DEF HeldAdmitted, SaysTheSame
    <2>4. ReplayAgrees'
      BY <1>1, <1>2, <2>1 DEF ReplayAgrees, SaysTheSame
    <2>5. InOrder'
      BY <1>1, <2>1, <2>2 DEF InOrder, Queued
    <2>6. StillOpen'
      BY <1>1, <1>2, <2>1, <2>2 DEF StillOpen, Queued, SaysTheSame
    <2>7. AllCovered' /\ OpenIsNewer'
      BY <1>1, <1>2 DEF AllCovered, OpenIsNewer, Queued, Covered
    <2> QED
      BY <1>2, <1>5, <1>6, <1>7, <2>3, <2>4, <2>5, <2>6, <2>7
  <1> QED
    BY <1>3, <1>8, <1>9

\* A body whose admission was not written is un-recorded.
LEMMA RefuseKeeps ==
  ASSUME AdmInv, Refuse PROVE AdmInv'
  <1> USE DEF AdmInv
  <1>1. /\ req.pc = "append" /\ Failure(Line("admitted", req.id, req.body))
        /\ dedup' = dedup \ {req.body} /\ req' = Idle
        /\ UNCHANGED <<dedupFile, up, workerLive, pending, workers, minted, acked, tried,
                       liveId, pushed, sends, crashes>>
    BY DEF Refuse, record
  <1>2. /\ req # Idle /\ req.id \in 1..minted /\ req.body \in Pushes /\ up = "up"
        /\ req.id = minted /\ (~latched => req.body \notin AdmittedBodies)
    BY <1>1, ReqTyped DEF NothingHeld, HeldAdmitted, ReplayAgrees
  <1>3. /\ ledger' \in Seq(LedgerLines) /\ latched' /\ faults' \in 0..MaxFaults
        /\ Closed' = Closed /\ OnceEach'
        /\ \/ AdmittedIds' = AdmittedIds /\ AdmittedBodies' = AdmittedBodies
           \/ /\ AdmittedIds' = AdmittedIds \cup {req.id} /\ ~latched
              /\ AdmittedBodies' = AdmittedBodies \cup {req.body}
        /\ \A n \in Lines("torn")' : n = Len(ledger')
    BY <1>1, <1>2, Unadmitted
  <1>4. AdmTypeOK'
    <2>1. (ledger \in Seq(LedgerLines))' /\ dedup' \subseteq Bodies /\ latched' \in BOOLEAN
      <3>1. latched' \in BOOLEAN
        BY <1>1 DEF Failure, AdmTypeOK
      <3> QED
        BY <1>1, <1>3, <3>1 DEF AdmTypeOK, LedgerLines
    <2> QED
      BY <1>1, <1>3, <2>1 DEF AdmTypeOK
  <1>5. NothingHeld' /\ OneWorker'
    BY <1>1, <1>2, Zenon DEF NothingHeld, OneWorker
  <1>6. TornAtEnd' /\ AckedIsDurable' /\ HeldAdmitted'
    BY <1>1, <1>3 DEF TornAtEnd, AckedIsDurable, HeldAdmitted
  <1>7. ReplayAgrees'
    BY <1>1, <1>2, <1>3 DEF ReplayAgrees
  <1>8. ~Queued' /\ Queued
    BY <1>1, <1>2 DEF Queued
  <1>9. InOrder' /\ StillOpen' /\ AllCovered'
    BY <1>1, <1>3, <1>8 DEF InOrder, StillOpen, AllCovered
  <1>10. OpenIsNewer'
    <2>1. liveId < req.id /\ liveId <= req.id /\ req.id \notin Closed
      BY <1>2, <1>8, ReqTyped DEF InOrder, StillOpen
    <2> QED
      BY <1>1, <1>3, <2>1 DEF OpenIsNewer, Unclosed
  <1> QED
    BY <1>3, <1>4, <1>5, <1>6, <1>7, <1>9, <1>10

\* The admission is appended, or its append fails.
LEMMA AdmitKeeps ==
  ASSUME AdmInv, Admit PROVE AdmInv'
  <1> USE DEF AdmInv
  <1>1. /\ req.pc = "append" /\ ~latched
        /\ ledger' = Append(ledger, Line("admitted", req.id, req.body))
        /\ req' = [req EXCEPT !.pc = "persist"]
        /\ UNCHANGED <<latched, faults, dedupFile, up, dedup, workerLive, pending, workers,
                       minted, acked, tried, liveId, pushed, sends, crashes>>
    BY DEF Admit, Durable, record
  <1>2. /\ req # Idle /\ req.id \in 1..minted /\ req.body \in Pushes /\ up = "up"
        /\ req.id = minted /\ req.body \notin AdmittedBodies /\ req.body \in dedup
    BY <1>1, ReqTyped DEF NothingHeld, HeldAdmitted, ReplayAgrees
  <1>3. /\ AdmittedIds' = AdmittedIds \cup {req.id} /\ Closed' = Closed
        /\ AdmittedBodies' = AdmittedBodies \cup {req.body}
        /\ Lines("torn")' = Lines("torn") /\ OnceEach'
    BY <1>1, <1>2, AppendAdmitted
  <1>4. /\ req' \in [pc : {"append", "persist", "queue", "answer"}, body : Pushes,
                     id : 1..minted]
        /\ req'.pc = "persist" /\ req'.id = req.id /\ req'.body = req.body /\ req' # Idle
    BY <1>1, <1>2 DEF AdmTypeOK, Idle
  <1>5. AdmTypeOK'
    <2>1. Line("admitted", req.id, req.body) \in LedgerLines
      BY <1>2, LineTyped
    <2>2. (ledger \in Seq(LedgerLines))'
      <3>1. ledger' \in Seq(LedgerLines)
        BY <1>1, <2>1 DEF AdmTypeOK
      <3> QED
        BY <1>1, <3>1 DEF LedgerLines
    <2> QED
      BY <1>1, <1>4, <2>2 DEF AdmTypeOK
  <1>6. NothingHeld' /\ OneWorker'
    BY <1>1, <1>2, Zenon DEF NothingHeld, OneWorker
  <1>7. TornAtEnd' /\ AckedIsDurable' /\ HeldAdmitted'
    BY <1>1, <1>2, <1>3, <1>4 DEF TornAtEnd, AckedIsDurable, HeldAdmitted
  <1>8. ReplayAgrees'
    BY <1>1, <1>2, <1>3, <1>4 DEF ReplayAgrees
  <1>9. Queued' /\ Queued
    BY <1>1, <1>2, <1>4 DEF Queued
  <1>10. InOrder' /\ StillOpen'
    BY <1>1, <1>3, <1>4, <1>9 DEF InOrder, StillOpen
  <1>11. AllCovered'
    <2>1. Unclosed' \subseteq Unclosed \cup {req.id}
      BY <1>3 DEF Unclosed
    <2> QED
      BY <1>1, <1>4, <1>9, <2>1 DEF AllCovered, Covered
  <1>12. OpenIsNewer'
    <2>1. liveId <= req.id /\ req.id \notin Closed
      BY <1>2, <1>9, ReqTyped DEF InOrder, StillOpen
    <2> QED
      BY <1>1, <1>3, <2>1 DEF OpenIsNewer, Unclosed
  <1> QED
    BY <1>3, <1>5, <1>6, <1>7, <1>8, <1>10, <1>11, <1>12

\* The snapshot of the replay set.
LEMMA PersistDedupKeeps ==
  ASSUME AdmInv, PersistDedup PROVE AdmInv'
  <1> USE DEF AdmInv
  <1>1. /\ req.pc = "persist" /\ dedupFile' \in {dedup, dedupFile}
        /\ req' = [req EXCEPT !.pc = "queue"] /\ ledger' = ledger
        /\ UNCHANGED <<up, latched, dedup, workerLive, pending, workers, minted, acked,
                       tried, liveId, bounds>>
    BY DEF PersistDedup, record
  <1>2. req # Idle
    BY <1>1, ReqTyped
  <1>3. SaysTheSame /\ Lines("torn")' = Lines("torn") /\ OnceEach' /\ Unclosed' = Unclosed
    BY <1>1, SameLedger
  <1>4. /\ req' \in [pc : {"append", "persist", "queue", "answer"}, body : Pushes,
                     id : 1..minted]
        /\ req'.pc = "queue" /\ req'.id = req.id /\ req'.body = req.body /\ req' # Idle
    BY <1>1, <1>2 DEF AdmTypeOK, Idle
  <1>5. AdmTypeOK'
    <2>1. (ledger \in Seq(LedgerLines))' /\ dedupFile' \subseteq Bodies
      BY <1>1 DEF AdmTypeOK, LedgerLines
    <2> QED
      BY <1>1, <1>4, <2>1 DEF AdmTypeOK, bounds
  <1>6. NothingHeld' /\ OneWorker'
    BY <1>1, <1>2, Zenon DEF NothingHeld, OneWorker
  <1>7. TornAtEnd' /\ AckedIsDurable' /\ HeldAdmitted'
    BY <1>1, <1>2, <1>3, <1>4 DEF TornAtEnd, AckedIsDurable, HeldAdmitted, SaysTheSame
  <1>8. ReplayAgrees'
    BY <1>1, <1>2, <1>3, <1>4 DEF ReplayAgrees, SaysTheSame
  <1>9. Queued' /\ Queued
    BY <1>1, <1>2, <1>4 DEF Queued
  <1>10. InOrder' /\ StillOpen' /\ AllCovered' /\ OpenIsNewer'
    BY <1>1, <1>3, <1>4, <1>9 DEF InOrder, StillOpen, AllCovered, Covered, OpenIsNewer, SaysTheSame
  <1> QED
    BY <1>3, <1>5, <1>6, <1>7, <1>8, <1>10

\* The answer, for what is on disk by then.
LEMMA AnswerKeeps ==
  ASSUME AdmInv, Answer PROVE AdmInv'
  <1> USE DEF AdmInv
  <1>1. /\ req.pc = "answer" /\ acked' = acked \cup {req.body} /\ req' = Idle
        /\ ledger' = ledger
        /\ UNCHANGED <<dedupFile, up, latched, dedup, workerLive, pending, workers, minted,
                       tried, liveId, bounds>>
    BY DEF Answer, disk
  <1>2. req # Idle /\ req.body \in Pushes /\ req.body \in AdmittedBodies
    BY <1>1, ReqTyped DEF HeldAdmitted
  <1>3. SaysTheSame /\ Lines("torn")' = Lines("torn") /\ OnceEach' /\ Unclosed' = Unclosed
    BY <1>1, SameLedger
  <1>4. AdmTypeOK'
    <2>1. (ledger \in Seq(LedgerLines))' /\ acked' \subseteq Pushes
      BY <1>1, <1>2 DEF AdmTypeOK, LedgerLines
    <2> QED
      BY <1>1, <2>1 DEF AdmTypeOK, bounds
  <1>5. NothingHeld' /\ OneWorker'
    BY <1>1, Zenon DEF NothingHeld, OneWorker
  <1>6. TornAtEnd' /\ AckedIsDurable' /\ HeldAdmitted'
    BY <1>1, <1>2, <1>3 DEF TornAtEnd, AckedIsDurable, HeldAdmitted, SaysTheSame
  <1>7. ReplayAgrees'
    BY <1>1, <1>2, <1>3 DEF ReplayAgrees, SaysTheSame
  <1>8. ~Queued' /\ ~Queued
    BY <1>1 DEF Queued
  <1>9. InOrder' /\ StillOpen' /\ AllCovered' /\ OpenIsNewer'
    BY <1>1, <1>3, <1>8 DEF InOrder, StillOpen, AllCovered, Covered, OpenIsNewer, SaysTheSame
  <1> QED
    BY <1>3, <1>4, <1>5, <1>6, <1>7, <1>9

\* A worker that ends its admission, with the admissions after it in memory.
LEMMA OthersAreNewer ==
  ASSUME AdmInv, ~latched, up = "up", NEW w \in workers, NEW i \in Unclosed, i # w.id
  PROVE  liveId <= i /\ i \in AdmittedIds /\ i \notin Closed
  <1> USE DEF AdmInv
  <1>1. i \in AdmittedIds /\ i \notin Closed /\ i \in 1..minted
    BY LinesTyped DEF Unclosed
  <1>2. (Queued /\ req.id = i) \/ pending = i
    BY DEF AllCovered, Covered, OneWorker
  <1>3. liveId < i
    BY <1>1, <1>2 DEF InOrder
  <1> QED
    BY <1>1, <1>3, ReqTyped

\* The slot, and the mark of what it held.
LEMMA QueueKeeps ==
  ASSUME AdmInv, Queue PROVE AdmInv'
  <1> USE DEF AdmInv
  <1>1. /\ req.pc = "queue" /\ req' = [req EXCEPT !.pc = "answer"]
        /\ UNCHANGED <<dedupFile, up, dedup, minted, acked, tried, liveId, pushed, sends,
                       crashes>>
    BY DEF Queue, record
  <1>2. /\ req # Idle /\ req.id \in 1..minted /\ req.body \in Pushes /\ up = "up"
        /\ req.id \in AdmittedIds /\ Queued
    BY <1>1, ReqTyped DEF NothingHeld, HeldAdmitted, Queued
  <1>3. /\ req' \in [pc : {"append", "persist", "queue", "answer"}, body : Pushes,
                     id : 1..minted]
        /\ req'.pc = "answer" /\ req'.id = req.id /\ req'.body = req.body /\ req' # Idle
        /\ ~Queued'
    BY <1>1, <1>2 DEF AdmTypeOK, Idle, Queued
  <1>4. /\ liveId < req.id /\ liveId <= req.id /\ pending < req.id /\ req.id \notin Closed
        /\ req.id # 0 /\ req.id # pending
        /\ \A w \in workers : w.id < req.id /\ liveId <= w.id
    BY <1>2, ReqTyped DEF InOrder, StillOpen
  <1>5. CASE workerLive /\ pending # 0
    <2>1. /\ pending' = req.id /\ workerLive' = workerLive /\ workers' = workers
          /\ BestEffort(Line("superseded", pending, BodyOf(pending)))
      BY <1>5 DEF Queue
    <2>2. pending \in 1..minted /\ pending \in AdmittedIds /\ BodyOf(pending) \in Pushes
      <3>1. pending \in AdmittedIds
        BY <1>5 DEF HeldAdmitted
      <3> QED
        BY <3>1, LinesTyped
    <2>3. /\ ledger' \in Seq(LedgerLines) /\ latched' \in BOOLEAN /\ faults' \in 0..MaxFaults
          /\ AdmittedIds' = AdmittedIds /\ AdmittedBodies' = AdmittedBodies /\ OnceEach'
          /\ Closed' = Closed \/ Closed' = Closed \cup {pending}
          /\ latched => latched' /\ Closed' = Closed
          /\ ~latched' => ~latched /\ Closed' = Closed \cup {pending}
          /\ \A n \in Lines("torn")' : n = Len(ledger') /\ latched'
      BY <1>2, <2>1, <2>2, Marked
    <2>4. AdmTypeOK'
      <3>1. (ledger \in Seq(LedgerLines))' /\ pending' \in 0..minted'
        BY <1>1, <1>2, <2>1, <2>3 DEF AdmTypeOK, LedgerLines
      <3> QED
        BY <1>1, <1>3, <2>1, <2>3, <3>1 DEF AdmTypeOK
    <2>5. NothingHeld' /\ OneWorker'
      <3>1. NothingHeld'
        BY <1>1, <1>2 DEF NothingHeld
      <3> QED
        BY <1>5, <2>1, <3>1, Zenon DEF OneWorker
    <2>6. TornAtEnd' /\ AckedIsDurable' /\ HeldAdmitted'
      BY <1>1, <1>2, <1>3, <2>1, <2>3 DEF TornAtEnd, AckedIsDurable, HeldAdmitted
    <2>7. ReplayAgrees'
      <3>1. ~latched' => ~latched
        BY <2>3
      <3> QED
        BY <1>1, <1>2, <1>3, <2>3, <3>1 DEF ReplayAgrees
    <2>8. InOrder'
      BY <1>1, <1>3, <1>4, <2>1 DEF InOrder
    <2>9. StillOpen'
      <3>1. \A w \in workers : w.id # pending
        BY <1>5, ReqTyped DEF InOrder
      <3>2. req.id \notin Closed' /\ \A w \in workers : w.id \in Closed' <=> w.id \in Closed
        BY <1>4, <2>3, <3>1
      <3> QED
        BY <1>3, <2>1, <2>3, <3>2 DEF StillOpen
    <2>10. AllCovered'
      <3>1. ASSUME ~latched', NEW i \in Unclosed' PROVE Covered(i)'
        <4>1. i \in Unclosed /\ i # pending /\ ~latched
          BY <2>3, <3>1 DEF Unclosed
        <4>2. (Queued /\ req.id = i) \/ \E w \in workers : w.id = i
          BY <1>2, <4>1 DEF AllCovered, Covered
        <4> QED
          BY <2>1, <4>2 DEF Covered
      <3> QED
        BY <3>1 DEF AllCovered
    <2>11. OpenIsNewer'
      <3>1. req.id \in Unclosed'
        BY <1>2, <1>4, <2>3 DEF Unclosed
      <3> QED
        BY <1>1, <1>4, <3>1 DEF OpenIsNewer
    <2> QED
      BY <2>3, <2>4, <2>5, <2>6, <2>7, <2>8, <2>9, <2>10, <2>11
  <1>6. CASE ~(workerLive /\ pending # 0)
    <2>1. Enqueue(req.id) /\ ledger' = ledger /\ latched' = latched /\ faults' = faults
      BY <1>6 DEF Queue
    <2>2. SaysTheSame /\ Lines("torn")' = Lines("torn") /\ OnceEach' /\ Unclosed' = Unclosed
      BY <2>1, SameLedger
    <2>3. pending = 0
      BY <1>6 DEF OneWorker
    <2>4. \/ /\ workerLive /\ pending' = req.id /\ workers' = workers
             /\ workerLive' = workerLive
          \/ /\ ~workerLive /\ workers = {} /\ workerLive' = TRUE /\ pending' = 0
             /\ workers' = {[id |-> req.id, pc |-> "run"]}
      BY <2>1, <2>3, Zenon DEF Enqueue, OneWorker
    <2>5. \/ pending' = req.id /\ workers' = workers
          \/ /\ workers = {} /\ pending' = 0 /\ workers' = {[id |-> req.id, pc |-> "run"]}
      BY <2>4
    <2>6. AdmTypeOK'
      <3>1. (ledger \in Seq(LedgerLines))'
        BY <1>1, <2>1 DEF AdmTypeOK, LedgerLines
      <3>2. pending' \in 0..minted'
        BY <1>1, <1>2, <2>5 DEF AdmTypeOK
      <3>3. workers' \subseteq [id : 1..minted', pc : {"run", "mark", "drain"}]
        BY <1>1, <1>2, <2>5 DEF AdmTypeOK
      <3>4. workerLive' \in BOOLEAN
        BY <2>4 DEF AdmTypeOK
      <3> QED
        BY <1>1, <1>3, <2>1, <3>1, <3>2, <3>3, <3>4 DEF AdmTypeOK
    <2>7. NothingHeld' /\ OneWorker'
      <3>1. NothingHeld'
        BY <1>1, <1>2 DEF NothingHeld
      <3>2. OneWorker'
        BY <2>4 DEF OneWorker
      <3> QED
        BY <3>1, <3>2
    <2>8. TornAtEnd' /\ AckedIsDurable' /\ HeldAdmitted'
      BY <1>1, <1>2, <1>3, <2>1, <2>2, <2>5
      DEF TornAtEnd, AckedIsDurable, HeldAdmitted, SaysTheSame
    <2>9. ReplayAgrees'
      BY <1>1, <1>2, <1>3, <2>1, <2>2 DEF ReplayAgrees, SaysTheSame
    <2>10. InOrder'
      BY <1>1, <1>3, <1>4, <2>5 DEF InOrder
    <2>11. StillOpen'
      BY <1>3, <1>4, <2>1, <2>2, <2>5 DEF StillOpen, SaysTheSame
    <2>12. AllCovered'
      <3>1. ASSUME ~latched', NEW i \in Unclosed' PROVE Covered(i)'
        <4>1. i \in Unclosed /\ ~latched /\ i # 0
          BY <2>1, <2>2, <3>1, LinesTyped DEF Unclosed
        <4>2. (Queued /\ req.id = i) \/ \E w \in workers : w.id = i
          BY <1>2, <2>3, <4>1 DEF AllCovered, Covered
        <4>3. pending' = i \/ \E w \in workers' : w.id = i
          <5>1. [id |-> req.id, pc |-> "run"].id = req.id
            OBVIOUS
          <5> QED
            BY <2>5, <4>2, <5>1
        <4> QED
          BY <4>3 DEF Covered
      <3> QED
        BY <3>1 DEF AllCovered
    <2>13. OpenIsNewer'
      BY <1>1, <2>2 DEF OpenIsNewer
    <2> QED
      BY <2>2, <2>6, <2>7, <2>8, <2>9, <2>10, <2>11, <2>12, <2>13
  <1> QED
    BY <1>5, <1>6

\* A deploy, which may fail, of nothing older than what serves.
LEMMA RunKeeps ==
  ASSUME AdmInv, NEW w \in workers, Run(w) PROVE AdmInv' /\ liveId' >= liveId
  <1> USE DEF AdmInv
  <1> DEFINE x == [w EXCEPT !.pc = "mark"]
  <1>1. /\ w.pc = "run" /\ liveId' \in {w.id, liveId} /\ tried' = tried \cup {w.id}
        /\ ledger' = ledger
        /\ UNCHANGED <<dedupFile, up, latched, dedup, req, workerLive, pending, minted, acked,
                       bounds>>
    BY DEF Run, disk
  <1>2. workers = {w}
    BY DEF OneWorker
  <1>3. workers' = {x}
    BY <1>2 DEF Run, Becomes
  <1>4. /\ x.id = w.id /\ x.pc = "mark" /\ x \in [id : 1..minted, pc : {"run", "mark", "drain"}]
        /\ w.id \in 1..minted /\ w.id \in Nat /\ liveId \in Nat /\ liveId <= w.id
        /\ w.id \in AdmittedIds /\ w.id \notin Closed
    BY <1>1, ReqTyped DEF AdmTypeOK, InOrder, HeldAdmitted, StillOpen
  <1> HIDE DEF x
  <1>5. SaysTheSame /\ Lines("torn")' = Lines("torn") /\ OnceEach' /\ Unclosed' = Unclosed
    BY <1>1, SameLedger
  <1>6. liveId <= liveId' /\ liveId' <= w.id /\ liveId' \in 0..minted
    BY <1>1, <1>4 DEF AdmTypeOK
  <1>7. AdmTypeOK'
    <2>1. (ledger \in Seq(LedgerLines))' /\ tried' \subseteq 1..minted'
      BY <1>1, <1>4 DEF AdmTypeOK, LedgerLines
    <2> QED
      BY <1>1, <1>3, <1>4, <1>6, <2>1 DEF AdmTypeOK, bounds
  <1>8. NothingHeld'
    <2>1. up = "up"
      BY DEF NothingHeld
    <2> QED
      BY <1>1, <2>1 DEF NothingHeld
  <1>9. OneWorker'
    BY <1>1, <1>2, <1>3 DEF OneWorker
  <1>10. TornAtEnd' /\ AckedIsDurable' /\ HeldAdmitted'
    BY <1>1, <1>2, <1>3, <1>4, <1>5 DEF TornAtEnd, AckedIsDurable, HeldAdmitted, SaysTheSame
  <1>11. ReplayAgrees'
    BY <1>1, <1>5 DEF ReplayAgrees, SaysTheSame
  <1>12. InOrder'
    <2>1. /\ pending # 0 => w.id < pending
          /\ Queued => w.id < req.id /\ pending < req.id
      BY DEF InOrder
    <2>2. Queued' = Queued
      BY <1>1 DEF Queued
    <2>3. Queued => req.id \in Nat
      BY ReqTyped DEF Queued
    <2> QED
      BY <1>1, <1>3, <1>4, <1>6, <2>1, <2>2, <2>3, ReqTyped DEF InOrder
  <1>13. StillOpen'
    BY <1>1, <1>3, <1>4, <1>5 DEF StillOpen, SaysTheSame, Queued
  <1>14. AllCovered'
    BY <1>1, <1>2, <1>3, <1>4, <1>5 DEF AllCovered, Covered, Queued
  <1>15. OpenIsNewer'
    <2>1. w.id \in Unclosed'
      BY <1>4, <1>5 DEF Unclosed
    <2> QED
      BY <1>6, <2>1 DEF OpenIsNewer
  <1> QED
    BY <1>4, <1>5, <1>6, <1>7, <1>8, <1>9, <1>10, <1>11, <1>12, <1>13, <1>14, <1>15

\* A deploy is marked, or its mark fails.
LEMMA MarkProcessedKeeps ==
  ASSUME AdmInv, NEW w \in workers, MarkProcessed(w) PROVE AdmInv'
  <1> USE DEF AdmInv
  <1> DEFINE x == [w EXCEPT !.pc = "drain"]
  <1>1. /\ w.pc = "mark" /\ BestEffort(Line("processed", w.id, BodyOf(w.id)))
        /\ UNCHANGED <<dedupFile, up, dedup, req, workerLive, pending, minted, acked, tried,
                       liveId, pushed, sends, crashes>>
    BY DEF MarkProcessed, record
  <1>2. workers = {w} /\ up = "up"
    BY DEF OneWorker, NothingHeld
  <1>3. workers' = {x}
    BY <1>2 DEF MarkProcessed, Becomes
  <1>4. /\ x.id = w.id /\ x.pc = "drain" /\ x \in [id : 1..minted, pc : {"run", "mark", "drain"}]
        /\ w.id \in 1..minted /\ w.id \in AdmittedIds /\ w.id \notin Closed
        /\ BodyOf(w.id) \in Pushes
    BY <1>1, ReqTyped, LinesTyped DEF AdmTypeOK, HeldAdmitted, StillOpen
  <1> HIDE DEF x
  <1>5. /\ ledger' \in Seq(LedgerLines) /\ latched' \in BOOLEAN /\ faults' \in 0..MaxFaults
        /\ AdmittedIds' = AdmittedIds /\ AdmittedBodies' = AdmittedBodies /\ OnceEach'
        /\ Closed' = Closed \/ Closed' = Closed \cup {w.id}
        /\ latched => latched' /\ Closed' = Closed
        /\ ~latched' => ~latched /\ Closed' = Closed \cup {w.id}
        /\ \A n \in Lines("torn")' : n = Len(ledger') /\ latched'
    BY <1>1, <1>2, <1>4, Marked
  <1>6. AdmTypeOK'
    <2>1. (ledger \in Seq(LedgerLines))'
      BY <1>1, <1>5 DEF LedgerLines
    <2> QED
      BY <1>1, <1>3, <1>4, <1>5, <2>1 DEF AdmTypeOK
  <1>7. NothingHeld'
    BY <1>1, <1>2 DEF NothingHeld
  <1>8. OneWorker'
    BY <1>1, <1>2, <1>3 DEF OneWorker
  <1>9. TornAtEnd' /\ AckedIsDurable' /\ HeldAdmitted'
    BY <1>1, <1>3, <1>4, <1>5 DEF TornAtEnd, AckedIsDurable, HeldAdmitted
  <1>10. ReplayAgrees'
    <2>1. ~latched' => ~latched
      BY <1>5
    <2> QED
      BY <1>1, <1>5, <2>1 DEF ReplayAgrees
  <1>11. InOrder'
    BY <1>1, <1>3, <1>4 DEF InOrder, Queued
  <1>12. StillOpen'
    <2>1. Queued => req.id # w.id
      <3>1. Queued => w.id < req.id
        BY DEF InOrder
      <3> QED
        BY <3>1, <1>4
    <2>2. pending # 0 => pending # w.id
      <3>1. pending # 0 => w.id < pending
        BY DEF InOrder
      <3> QED
        BY <3>1, <1>4
    <2>3. Queued' = Queued
      BY <1>1 DEF Queued
    <2>4. (Queued => req.id \notin Closed') /\ (pending # 0 => pending \notin Closed')
      BY <1>5, <2>1, <2>2 DEF StillOpen
    <2>5. ~latched' => w.id \in Closed'
      BY <1>5
    <2> QED
      BY <1>1, <1>3, <1>4, <2>3, <2>4, <2>5 DEF StillOpen
  <1>13. AllCovered'
    <2>1. ASSUME ~latched', NEW i \in Unclosed' PROVE Covered(i)'
      <3>1. i \in Unclosed /\ i # w.id /\ ~latched
        BY <1>5, <2>1 DEF Unclosed
      <3>2. (Queued /\ req.id = i) \/ pending = i
        BY <1>2, <3>1 DEF AllCovered, Covered
      <3> QED
        BY <1>1, <3>2 DEF Covered, Queued
    <2> QED
      BY <2>1 DEF AllCovered
  <1>14. OpenIsNewer'
    <2>1. CASE Closed' = Closed
      BY <1>1, <1>5, <2>1 DEF OpenIsNewer, Unclosed
    <2>2. CASE ~latched /\ Closed' = Closed \cup {w.id}
      <3> SUFFICES ASSUME NEW i \in Unclosed' PROVE liveId' <= i
        BY DEF OpenIsNewer
      <3>1. i \in Unclosed /\ i # w.id
        BY <1>5, <2>2 DEF Unclosed
      <3> QED
        BY <1>1, <1>2, <2>2, <3>1, OthersAreNewer
    <2> QED
      BY <1>5, <2>1, <2>2
  <1> QED
    BY <1>5, <1>6, <1>7, <1>8, <1>9, <1>10, <1>11, <1>12, <1>13, <1>14

\* The worker takes what waits, or ends.
LEMMA DrainKeeps ==
  ASSUME AdmInv, NEW w \in workers, Drain(w) PROVE AdmInv'
  <1> USE DEF AdmInv
  <1> DEFINE x == [id |-> pending, pc |-> "run"]
  <1>1. /\ w.pc = "drain" /\ ledger' = ledger
        /\ UNCHANGED <<dedupFile, up, latched, dedup, req, minted, acked, tried, liveId,
                       bounds>>
    BY DEF Drain, disk, record
  <1>2. workers = {w} /\ up = "up"
    BY DEF OneWorker, NothingHeld
  <1>3. \/ pending = 0 /\ pending' = 0 /\ workerLive' = FALSE /\ workers' = {}
        \/ pending # 0 /\ pending' = 0 /\ workerLive' = workerLive /\ workers' = {x}
    BY <1>2 DEF Drain
  <1>4. SaysTheSame /\ Lines("torn")' = Lines("torn") /\ OnceEach' /\ Unclosed' = Unclosed
    BY <1>1, SameLedger
  <1>5. pending # 0 => /\ x.id = pending /\ x.pc = "run"
                       /\ x \in [id : 1..minted, pc : {"run", "mark", "drain"}]
                       /\ pending \in AdmittedIds /\ pending \notin Closed
                       /\ liveId <= pending
    BY ReqTyped DEF AdmTypeOK, HeldAdmitted, StillOpen, InOrder
  <1> HIDE DEF x
  <1>6. AdmTypeOK'
    <2>1. (ledger \in Seq(LedgerLines))' /\ pending' \in 0..minted'
      BY <1>1, <1>3 DEF AdmTypeOK, LedgerLines
    <2>2. workers' \subseteq [id : 1..minted', pc : {"run", "mark", "drain"}]
      BY <1>1, <1>3, <1>5 DEF AdmTypeOK
    <2>3. workerLive' \in BOOLEAN
      BY <1>3 DEF AdmTypeOK
    <2> QED
      BY <1>1, <2>1, <2>2, <2>3 DEF AdmTypeOK, bounds
  <1>7. NothingHeld'
    BY <1>1, <1>2 DEF NothingHeld
  <1>8. OneWorker'
    <2>1. pending' = 0 /\ \A u, v \in workers' : u = v
      BY <1>3
    <2>2. workerLive' <=> workers' # {}
      <3>1. workerLive
        BY DEF OneWorker
      <3> QED
        BY <1>3, <3>1, Zenon
    <2> QED
      BY <2>1, <2>2 DEF OneWorker
  <1>9. TornAtEnd' /\ AckedIsDurable' /\ HeldAdmitted'
    BY <1>1, <1>3, <1>4, <1>5 DEF TornAtEnd, AckedIsDurable, HeldAdmitted, SaysTheSame
  <1>10. ReplayAgrees'
    BY <1>1, <1>4 DEF ReplayAgrees, SaysTheSame
  <1>11. InOrder'
    <2>1. Queued' = Queued
      BY <1>1 DEF Queued
    <2>2. Queued => liveId < req.id /\ pending < req.id /\ w.id < req.id /\ 0 < req.id
      <3>1. Queued => liveId < req.id /\ pending < req.id /\ w.id < req.id
        BY DEF InOrder
      <3> QED
        BY <3>1, ReqTyped DEF Queued
    <2> QED
      BY <1>1, <1>3, <1>5, <2>1, <2>2 DEF InOrder
  <1>12. StillOpen'
    BY <1>1, <1>3, <1>4, <1>5 DEF StillOpen, SaysTheSame, Queued
  <1>13. AllCovered'
    <2>1. ASSUME ~latched', NEW i \in Unclosed' PROVE Covered(i)'
      <3>1. i \in Unclosed /\ ~latched /\ i # 0
        BY <1>1, <1>4, <2>1, LinesTyped DEF Unclosed
      <3>2. i # w.id
        BY <1>1, <3>1 DEF StillOpen, Unclosed
      <3>3. (Queued /\ req.id = i) \/ pending = i
        BY <1>2, <3>1, <3>2 DEF AllCovered, Covered
      <3>4. CASE Queued /\ req.id = i
        BY <1>1, <3>4 DEF Covered, Queued
      <3>5. CASE pending = i
        <4>1. x \in workers' /\ x.id = i
          BY <1>3, <1>5, <3>1, <3>5
        <4> QED
          BY <4>1 DEF Covered
      <3> QED
        BY <3>3, <3>4, <3>5
    <2> QED
      BY <2>1 DEF AllCovered
  <1>14. OpenIsNewer'
    BY <1>1, <1>4 DEF OpenIsNewer
  <1> QED
    BY <1>4, <1>6, <1>7, <1>8, <1>9, <1>10, <1>11, <1>12, <1>13, <1>14

\* A death loses the memory and may tear what was being written.
LEMMA ServerDiesKeeps ==
  ASSUME AdmInv, ServerDies PROVE AdmInv'
  <1> USE DEF AdmInv
  <1>1. /\ up # "down" /\ up' = "down" /\ latched' = FALSE /\ dedup' = {} /\ req' = Idle
        /\ workerLive' = FALSE /\ pending' = 0 /\ workers' = {}
        /\ UNCHANGED <<dedupFile, minted, acked, tried, liveId, pushed, sends, faults>>
    BY DEF ServerDies, record
  <1>2. crashes' \in 0..MaxCrashes
    BY AdmissionAssumption DEF ServerDies, AdmTypeOK
  <1>3. /\ ledger' \in Seq(LedgerLines) /\ OnceEach' /\ OpenIsNewer'
        /\ AdmittedIds \subseteq AdmittedIds' /\ AdmittedBodies \subseteq AdmittedBodies'
        /\ \A n \in Lines("torn")' : n = Len(ledger')
    <2>1. CASE ledger' = ledger
      <3>1. SaysTheSame /\ Lines("torn")' = Lines("torn") /\ OnceEach' /\ Unclosed' = Unclosed
        BY <2>1, SameLedger
      <3> QED
        BY <1>1, <2>1, <3>1 DEF SaysTheSame, TornAtEnd, AdmTypeOK, OpenIsNewer
    <2>2. CASE ~latched /\ ledger' = Append(ledger, TornLine)
      <3>1. Lines("torn") = {} /\ TornLine \in LedgerLines
        BY <1>1, <2>2 DEF TornAtEnd, LedgerLines
      <3>2. ledger' \in Seq(LedgerLines)
        BY <2>2, <3>1 DEF AdmTypeOK
      <3>3. /\ AdmittedIds' = AdmittedIds /\ Closed' = Closed
            /\ AdmittedBodies' = AdmittedBodies
            /\ Lines("torn")' = Lines("torn") \cup {Len(ledger')} /\ OnceEach'
        BY <2>2, AppendTorn
      <3> QED
        BY <1>1, <3>1, <3>2, <3>3 DEF OpenIsNewer, Unclosed
    <2>3. CASE /\ ~latched /\ req.pc = "append"
               /\ ledger' = Append(ledger, Line("admitted", req.id, req.body))
      <3>1. Lines("torn") = {}
        BY <1>1, <2>3 DEF TornAtEnd
      <3>2. /\ req # Idle /\ req.id \in 1..minted /\ req.body \in Pushes
            /\ req.body \notin AdmittedBodies /\ Queued
        BY <2>3, ReqTyped DEF ReplayAgrees, Queued
      <3>3. ledger' \in Seq(LedgerLines)
        BY <2>3, <3>2, LineTyped DEF AdmTypeOK
      <3>4. /\ AdmittedIds' = AdmittedIds \cup {req.id} /\ Closed' = Closed
            /\ AdmittedBodies' = AdmittedBodies \cup {req.body}
            /\ Lines("torn")' = Lines("torn") /\ OnceEach'
        BY <2>3, <3>2, AppendAdmitted
      <3>5. liveId <= req.id /\ req.id \notin Closed
        BY <3>2, ReqTyped DEF InOrder, StillOpen
      <3> QED
        BY <1>1, <3>1, <3>3, <3>4, <3>5 DEF OpenIsNewer, Unclosed
    <2>4. ASSUME NEW w \in workers, w.pc = "mark", ~latched,
                 ledger' = Append(ledger, Line("processed", w.id, BodyOf(w.id)))
          PROVE  /\ ledger' \in Seq(LedgerLines) /\ OnceEach' /\ OpenIsNewer'
                 /\ AdmittedIds' = AdmittedIds /\ AdmittedBodies' = AdmittedBodies
                 /\ Lines("torn")' = {}
      <3>1. Lines("torn") = {}
        BY <1>1, <2>4 DEF TornAtEnd
      <3>2. w.id \in 1..minted /\ BodyOf(w.id) \in Pushes /\ up = "up"
        BY ReqTyped, LinesTyped DEF HeldAdmitted, NothingHeld
      <3>3. ledger' \in Seq(LedgerLines)
        BY <2>4, <3>2, LineTyped DEF AdmTypeOK
      <3>4. /\ AdmittedIds' = AdmittedIds /\ Closed' = Closed \cup {w.id}
            /\ AdmittedBodies' = AdmittedBodies
            /\ Lines("torn")' = Lines("torn") /\ OnceEach'
        BY <2>4, AppendClosing
      <3>5. ASSUME NEW i \in Unclosed' PROVE liveId' <= i
        <4>1. i \in Unclosed /\ i # w.id
          BY <3>4 DEF Unclosed
        <4> QED
          BY <1>1, <2>4, <3>2, <4>1, OthersAreNewer
      <3> QED
        BY <3>1, <3>3, <3>4, <3>5 DEF OpenIsNewer
    <2>5. \/ ledger' = ledger
          \/ ~latched /\ ledger' = Append(ledger, TornLine)
          \/ /\ ~latched /\ req.pc = "append"
             /\ ledger' = Append(ledger, Line("admitted", req.id, req.body))
          \/ /\ ~latched
             /\ \E w \in workers : /\ w.pc = "mark"
                                   /\ ledger' = Append(ledger,
                                                      Line("processed", w.id, BodyOf(w.id)))
      BY DEF ServerDies, InFlight
    <2> QED
      BY <2>1, <2>2, <2>3, <2>4, <2>5
  <1>4. AdmTypeOK'
    <2>1. (ledger \in Seq(LedgerLines))'
      BY <1>1, <1>3 DEF LedgerLines
    <2>2. latched' \in BOOLEAN /\ workerLive' \in BOOLEAN
      BY <1>1
    <2>5. pending' \in 0..minted'
      BY <1>1, ReqTyped
    <2>3. /\ dedupFile' \subseteq Bodies /\ dedup' \subseteq Bodies
          /\ up' \in {"down", "starting", "up"} /\ liveId' \in 0..minted'
          /\ workers' \subseteq [id : 1..minted', pc : {"run", "mark", "drain"}]
      BY <1>1 DEF AdmTypeOK
    <2>4. /\ minted' \in Nat /\ acked' \subseteq Pushes /\ tried' \subseteq 1..minted'
          /\ pushed' \in 0..MaxPushes /\ sends' \in 0..MaxSends /\ faults' \in 0..MaxFaults
      BY <1>1 DEF AdmTypeOK
    <2> QED
      BY <1>1, <1>2, <2>1, <2>2, <2>3, <2>4, <2>5 DEF AdmTypeOK
  <1>5. NothingHeld' /\ OneWorker' /\ TornAtEnd' /\ AllCovered'
    BY <1>1, <1>3 DEF NothingHeld, OneWorker, TornAtEnd, AllCovered
  <1>6. HeldAdmitted' /\ ReplayAgrees' /\ AckedIsDurable'
    BY <1>1, <1>3 DEF HeldAdmitted, ReplayAgrees, AckedIsDurable
  <1>7. InOrder' /\ StillOpen'
    BY <1>1 DEF InOrder, StillOpen, Queued
  <1> QED
    BY <1>3, <1>4, <1>5, <1>6, <1>7

\* The start cuts a torn line off.
LEMMA OpenKeeps ==
  ASSUME AdmInv, Open PROVE AdmInv'
  <1> USE DEF AdmInv
  <1>1. /\ up = "down" /\ ~Corrupt /\ ledger' = Repaired /\ dedup' = dedupFile
        /\ up' = "starting"
        /\ UNCHANGED <<dedupFile, latched, req, workerLive, pending, workers, minted, acked,
                       tried, liveId, bounds>>
    BY DEF Open, record
  <1>2. /\ AdmittedIds' = AdmittedIds /\ Closed' = Closed
        /\ AdmittedBodies' = AdmittedBodies /\ Lines("torn")' = {} /\ OnceEach'
        /\ ledger' \in Seq(LedgerLines)
    BY <1>1, RepairedSays
  <1>3. req = Idle /\ workers = {} /\ pending = 0 /\ ~latched
    BY <1>1 DEF NothingHeld
  <1>4. AdmTypeOK'
    <2>1. (ledger \in Seq(LedgerLines))' /\ dedup' \subseteq Bodies
      BY <1>1, <1>2 DEF LedgerLines, AdmTypeOK
    <2> QED
      BY <1>1, <2>1 DEF AdmTypeOK, bounds
  <1>5. NothingHeld' /\ OneWorker'
    BY <1>1, Zenon DEF NothingHeld, OneWorker
  <1>6. TornAtEnd' /\ HeldAdmitted' /\ ReplayAgrees' /\ AckedIsDurable'
    BY <1>1, <1>2, <1>3 DEF TornAtEnd, HeldAdmitted, ReplayAgrees, AckedIsDurable
  <1>7. InOrder' /\ StillOpen' /\ AllCovered' /\ OpenIsNewer'
    BY <1>1, <1>2, <1>3 DEF InOrder, StillOpen, AllCovered, OpenIsNewer, Queued, Unclosed
  <1> QED
    BY <1>2, <1>4, <1>5, <1>6, <1>7

\* The start closes the older admissions and takes the newest.
LEMMA ResumeKeeps ==
  ASSUME AdmInv, Resume PROVE AdmInv'
  <1> USE DEF AdmInv
  <1>1. /\ up = "starting" /\ up' = "up" /\ dedup' = dedup \cup AdmittedBodies
        /\ UNCHANGED <<dedupFile, req, minted, acked, tried, liveId, pushed, sends, crashes>>
    BY DEF Resume, Reseeded, record
  <1>2. req = Idle /\ workers = {} /\ ~workerLive /\ pending = 0 /\ ~latched
    BY <1>1 DEF NothingHeld
  <1>3. Lines("torn") = {}
    BY <1>1, <1>2 DEF TornAtEnd
  <1>4. dedup' \subseteq Bodies
    BY <1>1, LinesTyped DEF AdmTypeOK, Bodies
  <1>5. CASE /\ Unclosed = {}
             /\ UNCHANGED <<ledger, latched, faults, workerLive, pending, workers>>
    <2>1. SaysTheSame /\ Lines("torn")' = Lines("torn") /\ OnceEach' /\ Unclosed' = Unclosed
      BY <1>5, SameLedger
    <2>2. AdmTypeOK'
      <3>1. (ledger \in Seq(LedgerLines))'
        BY <1>1, <1>5 DEF LedgerLines, AdmTypeOK
      <3> QED
        BY <1>1, <1>4, <1>5, <3>1 DEF AdmTypeOK
    <2>3. NothingHeld' /\ OneWorker'
      BY <1>1, <1>5, Zenon DEF NothingHeld, OneWorker
    <2>4. TornAtEnd' /\ HeldAdmitted' /\ ReplayAgrees' /\ AckedIsDurable'
      BY <1>1, <1>2, <1>3, <1>5, <2>1
      DEF TornAtEnd, HeldAdmitted, ReplayAgrees, AckedIsDurable, SaysTheSame
    <2>5. InOrder' /\ StillOpen' /\ AllCovered' /\ OpenIsNewer'
      BY <1>1, <1>2, <1>5, <2>1 DEF InOrder, StillOpen, AllCovered, OpenIsNewer, Queued
    <2> QED
      BY <2>1, <2>2, <2>3, <2>4, <2>5
  <1>6. ASSUME NEW i \in Unclosed, Newest(i), Enqueue(i),
               NEW older \in InLedgerOrder(Unclosed \ {i}), Supersede(older)
        PROVE  AdmInv'
    <2> DEFINE x == [id |-> i, pc |-> "run"]
    <2>1. i \in AdmittedIds /\ i \notin Closed /\ i \in 1..minted
      BY LinesTyped DEF Unclosed
    <2>2. /\ x.id = i /\ x.pc = "run" /\ x \in [id : 1..minted, pc : {"run", "mark", "drain"}]
      BY <2>1
    <2>3. workerLive' = TRUE /\ workers' = {x} /\ pending' = 0
      BY <1>2, <1>6 DEF Enqueue
    <2> HIDE DEF x
    <2>4. /\ ledger' \in Seq(LedgerLines)
          /\ AdmittedIds' = AdmittedIds /\ AdmittedBodies' = AdmittedBodies
          /\ Closed \subseteq Closed' /\ Closed' \subseteq Closed \cup (Unclosed \ {i})
          /\ ~latched' => Closed' = Closed \cup (Unclosed \ {i})
          /\ Lines("torn")' \subseteq Lines("torn") \cup {Len(ledger')}
          /\ ~latched' => Lines("torn")' = Lines("torn")
          /\ OnceEach'
          /\ latched' \in BOOLEAN /\ faults' \in 0..MaxFaults
      <3>1. Unclosed \ {i} \in SUBSET AdmittedIds
        BY DEF Unclosed
      <3> QED
        BY <1>2, <1>6, <3>1, Superseded
    <2>5. liveId <= i
      <3>1. PICK j \in Unclosed : liveId <= j
        BY DEF OpenIsNewer
      <3>2. j <= i /\ j \in 1..minted
        BY <1>6, LinesTyped DEF Newest, Unclosed
      <3> QED
        BY <2>1, <3>1, <3>2, ReqTyped
    <2>6. AdmTypeOK'
      <3>1. (ledger \in Seq(LedgerLines))' /\ workerLive' \in BOOLEAN /\ pending' \in 0..minted'
        BY <1>1, <2>3, <2>4, ReqTyped DEF LedgerLines
      <3> QED
        BY <1>1, <1>4, <2>2, <2>3, <2>4, <3>1 DEF AdmTypeOK
    <2>7. NothingHeld' /\ OneWorker'
      <3>1. NothingHeld'
        BY <1>1 DEF NothingHeld
      <3>2. OneWorker'
        BY <2>3 DEF OneWorker
      <3> QED
        BY <3>1, <3>2
    <2>8. TornAtEnd'
      BY <1>1, <1>3, <2>4 DEF TornAtEnd
    <2>9. HeldAdmitted' /\ AckedIsDurable'
      BY <1>1, <1>2, <2>1, <2>2, <2>3, <2>4 DEF HeldAdmitted, AckedIsDurable
    <2>10. ReplayAgrees'
      BY <1>1, <1>2, <2>4 DEF ReplayAgrees
    <2>11. ~Queued'
      BY <1>1, <1>2 DEF Queued
    <2>12. InOrder'
      BY <1>1, <2>2, <2>3, <2>5, <2>11 DEF InOrder
    <2>13. StillOpen'
      BY <2>1, <2>2, <2>3, <2>4, <2>11 DEF StillOpen
    <2>14. AllCovered'
      <3>1. ASSUME ~latched', NEW j \in Unclosed' PROVE Covered(j)'
        <4>1. j = i
          BY <2>4, <3>1 DEF Unclosed
        <4> QED
          BY <2>2, <2>3, <4>1 DEF Covered
      <3> QED
        BY <3>1 DEF AllCovered
    <2>15. OpenIsNewer'
      <3>1. i \in Unclosed'
        BY <2>1, <2>4 DEF Unclosed
      <3> QED
        BY <1>1, <2>5, <3>1 DEF OpenIsNewer
    <2> QED
      BY <2>4, <2>6, <2>7, <2>8, <2>9, <2>10, <2>12, <2>13, <2>14, <2>15
  <1>7. \/ /\ Unclosed = {}
           /\ UNCHANGED <<ledger, latched, faults, workerLive, pending, workers>>
        \/ \E i \in Unclosed :
             /\ Newest(i)
             /\ \E older \in InLedgerOrder(Unclosed \ {i}) : Supersede(older)
             /\ Enqueue(i)
    BY DEF Resume
  <1> QED
    BY <1>5, <1>6, <1>7

-----------------------------------------------------------------------------
\* An empty ledger.
LEMMA AdmInitInv == AdmInit => AdmInv
  <1> SUFFICES ASSUME AdmInit PROVE AdmInv
    OBVIOUS
  <1> USE DEF AdmInit
  <1>1. \A kind : Lines(kind) = {}
    BY DEF Lines
  <1>2. AdmittedIds = {} /\ AdmittedBodies = {} /\ Closed = {} /\ Unclosed = {}
    BY <1>1 DEF AdmittedIds, AdmittedBodies, Closed, Unclosed
  <1>3. AdmTypeOK
    <2>1. ledger \in Seq(LedgerLines)
      BY EmptySeq
    <2>2. latched \in BOOLEAN /\ workerLive \in BOOLEAN
      OBVIOUS
    <2> QED
      BY <2>1, <2>2, AdmissionAssumption DEF AdmTypeOK
  <1>4. NothingHeld /\ OneWorker /\ TornAtEnd /\ HeldAdmitted
    BY <1>1 DEF NothingHeld, OneWorker, TornAtEnd, HeldAdmitted
  <1>5. ReplayAgrees /\ OnceEach /\ AckedIsDurable
    BY <1>1, <1>2 DEF ReplayAgrees, OnceEach, AckedIsDurable
  <1>6. InOrder /\ StillOpen /\ AllCovered /\ OpenIsNewer
    BY <1>2 DEF InOrder, StillOpen, AllCovered, OpenIsNewer, Queued, Idle
  <1> QED
    BY <1>3, <1>4, <1>5, <1>6 DEF AdmInv

\* The steps together: the invariant, and that what serves is never older.
LEMMA AdmStep == AdmInv /\ [AdmNext]_admVars => AdmInv' /\ liveId' >= liveId
  <1> SUFFICES ASSUME AdmInv, [AdmNext]_admVars PROVE AdmInv' /\ liveId' >= liveId
    OBVIOUS
  <1>1. liveId \in Nat
    BY ReqTyped DEF AdmInv
  <1>2. CASE UNCHANGED admVars
    <2>1. /\ ledger' = ledger
          /\ UNCHANGED <<dedupFile, memory, record, bounds>>
      BY <1>2 DEF admVars, disk
    <2>2. SaysTheSame /\ Lines("torn")' = Lines("torn") /\ OnceEach' = OnceEach
          /\ Unclosed' = Unclosed
      BY <2>1, SameLedger
    <2>3. AdmTypeOK'
      <3>1. (ledger \in Seq(LedgerLines))'
        BY <2>1 DEF LedgerLines, AdmInv, AdmTypeOK, record
      <3> QED
        BY <2>1, <3>1 DEF AdmInv, AdmTypeOK, memory, record, bounds
    <2>4. NothingHeld' /\ OneWorker'
      BY <2>1, Zenon DEF AdmInv, NothingHeld, OneWorker, memory
    <2>5. TornAtEnd' /\ HeldAdmitted' /\ ReplayAgrees' /\ AckedIsDurable'
      BY <2>1, <2>2 DEF AdmInv, TornAtEnd, HeldAdmitted, ReplayAgrees, AckedIsDurable,
         SaysTheSame, memory, record
    <2>6. InOrder' /\ StillOpen' /\ AllCovered' /\ OpenIsNewer'
      BY <2>1, <2>2 DEF AdmInv, InOrder, StillOpen, AllCovered, OpenIsNewer, Queued, Covered,
         SaysTheSame, memory, record
    <2>7. liveId' >= liveId
      BY <1>1, <2>1 DEF record
    <2> QED
      BY <2>2, <2>3, <2>4, <2>5, <2>6, <2>7 DEF AdmInv
  <1>3. ASSUME NEW w \in workers, Run(w) PROVE AdmInv' /\ liveId' >= liveId
    BY <1>3, RunKeeps
  <1>4. ASSUME NEW b \in Bodies, Replayed(b) \/ Fresh(b) PROVE AdmInv' /\ liveId' = liveId
    BY <1>4, ReplayedKeeps, FreshKeeps DEF Replayed, Fresh
  <1>5. ASSUME NEW w \in workers, MarkProcessed(w) \/ Drain(w)
        PROVE  AdmInv' /\ liveId' = liveId
    BY <1>5, MarkProcessedKeeps, DrainKeeps DEF MarkProcessed, Drain, record
  <1>6. ASSUME Handler PROVE AdmInv' /\ liveId' = liveId
    <2>1. AdmInv'
      BY <1>6, RefuseKeeps, AdmitKeeps, PersistDedupKeeps, QueueKeeps, AnswerKeeps DEF Handler
    <2>2. liveId' = liveId
      BY <1>6 DEF Handler, Refuse, Admit, PersistDedup, Queue, Answer, record
    <2> QED
      BY <2>1, <2>2
  <1>7. ASSUME Start \/ ServerDies PROVE AdmInv' /\ liveId' = liveId
    <2>1. AdmInv'
      BY <1>7, OpenKeeps, ResumeKeeps, ServerDiesKeeps DEF Start
    <2>2. liveId' = liveId
      BY <1>7 DEF Start, Open, Resume, ServerDies, record
    <2> QED
      BY <2>1, <2>2
  <1>8. \/ UNCHANGED admVars \/ Handler \/ Start \/ ServerDies
        \/ \E b \in Bodies : Replayed(b) \/ Fresh(b)
        \/ \E w \in workers : Run(w) \/ MarkProcessed(w) \/ Drain(w)
    BY Zenon DEF AdmNext, Worker
  <1>9. liveId >= liveId
    BY <1>1
  <1> QED
    BY <1>2, <1>3, <1>4, <1>5, <1>6, <1>7, <1>8, <1>9

\* The ledger, the replay set, the slot and the worker stay in step through any
\* deliveries, failed appends, deaths and restarts (the admissionQueue and its
\* FileLedger).
THEOREM AdmissionInvariant == AdmSpec => []AdmInv
  <1> QED
    BY AdmInitInv, AdmStep, PTL DEF AdmSpec

\* A push that was answered 200 is in the ledger, whatever appends failed and
\* whatever processes died since ("never ack what isn't durable").
THEOREM Durability == AdmSpec => []AckedIsDurable
  <1>1. AdmInv => AckedIsDurable
    BY DEF AdmInv
  <1> QED
    BY <1>1, AdmissionInvariant, PTL

\* Every start can read the ledger the last process left, and it holds one
\* admission of a push, however often it was delivered (ParseLedger,
\* SeedDedupFromLedger).
THEOREM SoundLedger == AdmSpec => []LedgerSound
  <1>1. AdmInv => LedgerSound
    BY DEF AdmInv, LedgerSound, TornAtEnd, OnceEach, Corrupt, Lines
  <1> QED
    BY <1>1, AdmissionInvariant, PTL

\* There is at most one worker, and with the appends of a process all
\* successful every admission the ledger holds open is in its memory
\* (admissionQueue).
THEOREM NothingForgotten == AdmSpec => []NoneForgotten
  <1>1. AdmInv => NoneForgotten
    <2> SUFFICES ASSUME AdmInv PROVE NoneForgotten
      OBVIOUS
    <2>1. Cardinality(workers) <= 1
      <3>1. CASE workers = {}
        BY <3>1, FS_EmptySet
      <3>2. CASE workers # {}
        <4>1. PICK w : workers = {w}
          BY <3>2 DEF AdmInv, OneWorker
        <4>2. Cardinality({w}) = 1
          BY FS_Singleton
        <4> QED
          BY <4>1, <4>2
      <3> QED
        BY <3>1, <3>2
    <2>2. workerLive <=> workers # {}
      BY DEF AdmInv, OneWorker
    <2>3. up = "up" /\ ~latched =>
            \A i \in Unclosed : \/ req # Idle /\ req.id = i
                                \/ pending = i
                                \/ \E w \in workers : w.id = i
      BY DEF AdmInv, AllCovered, Covered, Queued
    <2> QED
      BY <2>1, <2>2, <2>3 DEF NoneForgotten
  <1> QED
    BY <1>1, AdmissionInvariant, PTL

\* The app never goes back to a push older than the one that serves, over
\* lost marks, deaths and restarts (markSupersededLocked, NewestPending).
THEOREM ForwardOnly == AdmSpec => NeverBackwards
  <1>1. AdmInv /\ [AdmNext]_admVars => [liveId' >= liveId]_admVars
    BY AdmStep
  <1> QED
    BY <1>1, AdmissionInvariant, PTL DEF AdmSpec, NeverBackwards
-----------------------------------------------------------------------------
(* The git poll.                                                           *)

\* A commit that was never tried has no attempts.
Untried(st) == \A c \in Commits : st.ledger[c].status = "" => st.ledger[c].attempts = 0

\* A commit that is not dealt with has attempts left.
Runnable(st, c) ==
    st.ledger[c].status \in {"", "failed"} /\ st.ledger[c].attempts < MaxDeployAttempts

InJob(kind, points) == job # NoJob /\ job.kind = kind /\ job.pc \in points
Unsaved(c) == IF InJob("poll", {"save"}) /\ job.head = c THEN 1 ELSE 0

\* What a job and a command carry, beside what they were judged by.
AllUntried ==
    /\ Untried(adm)
    /\ cmd # NoCmd => Untried(cmd.base)
    /\ job # NoJob => Untried(job.st) /\ Untried(job.base)
JobCarries ==
    /\ job # NoJob /\ job.pc # "seen" => job.head \in Commits
    /\ ~InJob("poll", {"record"})
    /\ InJob("poll", {"seen", "fetched"}) => /\ job.st.ledger = job.base.ledger
                                            /\ job.st.watermark = job.base.watermark
    /\ InJob("poll", {"fetched"}) => Runnable(job.st, job.head)
    /\ job # NoJob /\ job.pc = "save" =>
          /\ \A c \in Commits :
                job.st.ledger[c].attempts = job.base.ledger[c].attempts + Unsaved(c)
          /\ job.st.watermark = IF job.st.ledger[job.head].status = "deployed"
                                THEN job.head ELSE job.base.watermark

\* Beside a job, attempts are only taken back.
OnlyLowered == job # NoJob /\ ~overwrote =>
    \A c \in Commits : adm.ledger[c].attempts <= job.base.ledger[c].attempts

\* A run is on record, or was cut off, or is about to be saved.
RunsCounted == ~overwrote =>
    \A c \in Commits : runs[c] <= adm.ledger[c].attempts + failures + Unsaved(c)

\* The watermark contains the last deploy on record, for the job too.
HoldsDeploy(w) == w # None /\ Descends(w, recorded)
WatermarkHolds == ~overwrote /\ recorded # None =>
    /\ HoldsDeploy(adm.watermark)
    /\ InJob("poll", {"seen", "fetched"}) => HoldsDeploy(job.st.watermark)

GitInv == /\ GitTypeOK /\ AllUntried /\ JobCarries /\ OnlyLowered /\ RunsCounted
          /\ WatermarkHolds

\* A commit contains itself and whatever a commit it contains contains.
LEMMA Ancestry ==
  ASSUME NEW a \in Commits, NEW b \in Commits, NEW c \in Commits
  PROVE  /\ Descends(a, a)
         /\ Descends(a, b) /\ Descends(b, c) => Descends(a, c)
         /\ AncestorsOf[a] \subseteq Commits
  <1> DEFINE Closed_(s) == \A x \in s : Parent[x] # None => Parent[x] \in s
  <1>1. \A x \in Commits : AncestorsOf[x] =
           {y \in Commits : \A s \in SUBSET Commits : x \in s /\ Closed_(s) => y \in s}
    BY DEF AncestorsOf
  <1> HIDE DEF Closed_
  <1> QED
    BY <1>1 DEF Descends

\* A job is typed, and what is in it.
LEMMA JobTyped ==
  ASSUME GitTypeOK
  PROVE  /\ NoJob.kind = "none" /\ NoCmd.kind = "none"
         /\ job # NoJob => /\ job \in [kind : {"poll", "manual"},
                                       pc : {"seen", "fetched", "record", "save"},
                                       st : States, base : States, head : {None} \cup Commits]
                           /\ job.st \in States /\ job.base \in States
                           /\ job.head \in {None} \cup Commits /\ job.kind \in {"poll", "manual"}
                           /\ job.pc \in {"seen", "fetched", "record", "save"}
         /\ cmd # NoCmd => cmd.head \in Commits /\ cmd.base \in States
  BY DEF GitTypeOK, NoJob, NoCmd

\* The record of one commit in the ledger of admissions/state.json.
Records == [status : {"", "deployed", "failed", "skipped", "refused"},
            attempts : 0..MaxDeployAttempts]

\* A state and what it is made of.
LEMMA StateParts ==
  ASSUME NEW st
  PROVE  st \in States <=>
           /\ st = [watermark |-> st.watermark, lastSeen |-> st.lastSeen,
                    refusedHead |-> st.refusedHead, ledger |-> st.ledger]
           /\ {st.watermark, st.lastSeen, st.refusedHead} \subseteq {None} \cup Commits
           /\ st.ledger \in [Commits -> Records]
  BY DEF States, Records

\* A record and what it is made of.
LEMMA RecordParts ==
  ASSUME NEW rec \in Records
  PROVE  /\ rec = [status |-> rec.status, attempts |-> rec.attempts]
         /\ rec.status \in {"", "deployed", "failed", "skipped", "refused"}
         /\ rec.attempts \in 0..MaxDeployAttempts
         /\ rec.attempts \in Nat /\ rec.attempts <= MaxDeployAttempts
  <1>1. rec.attempts \in 0..MaxDeployAttempts
    BY DEF Records
  <1>2. rec = [status |-> rec.status, attempts |-> rec.attempts]
    BY DEF Records
  <1>3. rec.status \in {"", "deployed", "failed", "skipped", "refused"}
    BY DEF Records
  <1>4. rec.attempts \in Nat /\ rec.attempts <= MaxDeployAttempts
    <2>1. MaxDeployAttempts \in Nat
      BY GitPollAssumption
    <2> QED
      BY <1>1, <2>1
  <1> QED
    BY <1>1, <1>2, <1>3, <1>4

\* A state with the record of one commit replaced, and the fields beside.
Changed(st, head, rec, w, l, r) ==
    [watermark |-> w, lastSeen |-> l, refusedHead |-> r,
     ledger |-> [st.ledger EXCEPT ![head] = rec]]

Altered(st2, st, head, rec, w) ==
    /\ st2 \in States /\ st2.watermark = w /\ st2.ledger[head] = rec
    /\ \A c \in Commits \ {head} : st2.ledger[c] = st.ledger[c]
    /\ Untried(st) /\ rec.status # "" => Untried(st2)

\* One commit's record replaced.
LEMMA RecordSet ==
  ASSUME NEW st \in States, NEW head \in Commits, NEW rec \in Records,
         NEW w \in {None} \cup Commits, NEW l \in {None} \cup Commits,
         NEW r \in {None} \cup Commits
  PROVE  Altered(Changed(st, head, rec, w, l, r), st, head, rec, w)
  <1> DEFINE st2 == Changed(st, head, rec, w, l, r)
  <1>1. st.ledger \in [Commits -> Records]
    BY StateParts
  <1>2. /\ st2.watermark = w /\ st2.lastSeen = l /\ st2.refusedHead = r
        /\ st2.ledger = [st.ledger EXCEPT ![head] = rec]
        /\ st2 = [watermark |-> st2.watermark, lastSeen |-> st2.lastSeen,
                  refusedHead |-> st2.refusedHead, ledger |-> st2.ledger]
    BY DEF Changed
  <1> HIDE DEF st2
  <1>3. /\ st2.ledger \in [Commits -> Records] /\ st2.ledger[head] = rec
        /\ \A c \in Commits \ {head} : st2.ledger[c] = st.ledger[c]
    BY <1>1, <1>2
  <1>4. st2 \in States
    BY <1>2, <1>3, StateParts
  <1>5. Untried(st) /\ rec.status # "" => Untried(st2)
    BY <1>3 DEF Untried
  <1> QED
    BY <1>2, <1>3, <1>4, <1>5 DEF st2, Altered

\* What a state and its record of one commit are made of.
LEMMA Parts ==
  ASSUME NEW st \in States, NEW head \in Commits
  PROVE  /\ st.ledger \in [Commits -> Records] /\ st.ledger[head] \in Records
         /\ st.watermark \in {None} \cup Commits /\ st.lastSeen \in {None} \cup Commits
         /\ st.refusedHead \in {None} \cup Commits
         /\ st = [watermark |-> st.watermark, lastSeen |-> st.lastSeen,
                  refusedHead |-> st.refusedHead, ledger |-> st.ledger]
         /\ st.ledger[head]
              = [status |-> st.ledger[head].status, attempts |-> st.ledger[head].attempts]
         /\ st.ledger[head].status \in {"", "deployed", "failed", "skipped", "refused"}
         /\ st.ledger[head].attempts \in Nat /\ st.ledger[head].attempts <= MaxDeployAttempts
  <1>1. /\ st.ledger \in [Commits -> Records]
        /\ st.watermark \in {None} \cup Commits /\ st.lastSeen \in {None} \cup Commits
        /\ st.refusedHead \in {None} \cup Commits
        /\ st = [watermark |-> st.watermark, lastSeen |-> st.lastSeen,
                 refusedHead |-> st.refusedHead, ledger |-> st.ledger]
    BY StateParts
  <1>2. st.ledger[head] \in Records
    BY <1>1
  <1>3. /\ st.ledger[head]
             = [status |-> st.ledger[head].status, attempts |-> st.ledger[head].attempts]
        /\ st.ledger[head].status \in {"", "deployed", "failed", "skipped", "refused"}
        /\ st.ledger[head].attempts \in Nat /\ st.ledger[head].attempts <= MaxDeployAttempts
    BY <1>2, RecordParts
  <1> QED
    BY <1>1, <1>2, <1>3

\* A new status of one commit, whatever becomes of the other fields.
Restated(st2, st, head, status, w) ==
    /\ st2 \in States /\ st2.watermark = w /\ st2.ledger[head].status = status
    /\ \A c \in Commits : st2.ledger[c].attempts = st.ledger[c].attempts
    /\ Untried(st) => Untried(st2)

\* One commit's status replaced.
LEMMA StatusSet ==
  ASSUME NEW st \in States, NEW head \in Commits,
         NEW status \in {"deployed", "skipped", "refused"},
         NEW w \in {None} \cup Commits, NEW l \in {None} \cup Commits,
         NEW r \in {None} \cup Commits
  PROVE  Restated([watermark |-> w, lastSeen |-> l, refusedHead |-> r,
                 ledger |-> [st.ledger EXCEPT ![head].status = status]],
                st, head, status, w)
  <1> DEFINE rec == [status |-> status, attempts |-> st.ledger[head].attempts]
             st2 == [watermark |-> w, lastSeen |-> l, refusedHead |-> r,
                     ledger |-> [st.ledger EXCEPT ![head].status = status]]
  <1>1. /\ st.ledger[head].attempts \in 0..MaxDeployAttempts
        /\ st.ledger[head]
             = [status |-> st.ledger[head].status, attempts |-> st.ledger[head].attempts]
    BY Parts, RecordParts
  <1>2. rec \in Records
    BY <1>1 DEF Records
  <1>3. [st.ledger EXCEPT ![head].status = status] = [st.ledger EXCEPT ![head] = rec]
    <2>1. [st.ledger[head] EXCEPT !.status = status] = rec
      BY <1>1
    <2> QED
      BY <2>1
  <1>4. st2 = Changed(st, head, rec, w, l, r)
    BY <1>3 DEF Changed
  <1>5. rec.status = status /\ rec.attempts = st.ledger[head].attempts
    OBVIOUS
  <1> HIDE DEF rec, st2
  <1>6. /\ st2 \in States /\ st2.watermark = w /\ st2.ledger[head] = rec
        /\ \A c \in Commits \ {head} : st2.ledger[c] = st.ledger[c]
        /\ Untried(st) /\ rec.status # "" => Untried(st2)
    <2>1. Altered(Changed(st, head, rec, w, l, r), st, head, rec, w)
      BY <1>2, RecordSet
    <2> QED
      BY <1>4, <2>1 DEF Altered
  <1>7. Restated(st2, st, head, status, w)
    BY <1>5, <1>6 DEF Restated
  <1> QED
    BY <1>7 DEF st2

\* One attempt more of one commit, with its outcome.
LEMMA AttemptSet ==
  ASSUME NEW st \in States, NEW head \in Commits, st.ledger[head].attempts < MaxDeployAttempts,
         NEW st2 \in {Failed(st, head), Deployed(st, head)}
  PROVE  /\ st2 \in States
         /\ st2.ledger[head].attempts = st.ledger[head].attempts + 1
         /\ \A c \in Commits \ {head} : st2.ledger[c] = st.ledger[c]
         /\ Untried(st) => Untried(st2)
         /\ st2.watermark = IF st2.ledger[head].status = "deployed" THEN head ELSE st.watermark
  <1> DEFINE rec(s) == [status |-> s, attempts |-> st.ledger[head].attempts + 1]
             f(s) == [st.ledger EXCEPT ![head] = rec(s)]
  <1>1. \A s \in {"failed", "deployed"} :
           rec(s) \in Records /\ rec(s).status = s
           /\ rec(s).attempts = st.ledger[head].attempts + 1
    <2>1. st.ledger[head].attempts + 1 \in 0..MaxDeployAttempts
      <3>1. st.ledger[head].attempts \in Nat
        BY Parts
      <3>2. MaxDeployAttempts \in Nat
        BY GitPollAssumption
      <3> QED
        BY <3>1, <3>2
    <2> QED
      BY <2>1 DEF Records
  <1>2. Failed(st, head) = Changed(st, head, rec("failed"), st.watermark, st.lastSeen,
                                   st.refusedHead)
    <2>1. Failed(st, head) = [st EXCEPT !.ledger = f("failed")]
      BY Parts DEF Failed
    <2>2. st = [watermark |-> st.watermark, lastSeen |-> st.lastSeen,
                refusedHead |-> st.refusedHead, ledger |-> st.ledger]
      BY Parts
    <2> HIDE DEF f
    <2>3. Failed(st, head) = [watermark |-> st.watermark, lastSeen |-> st.lastSeen,
                              refusedHead |-> st.refusedHead, ledger |-> f("failed")]
      BY <2>1, <2>2
    <2> QED
      BY <2>3 DEF f, Changed
  <1>3. Deployed(st, head) = Changed(st, head, rec("deployed"), head, st.lastSeen, None)
    <2> DEFINE one == [st EXCEPT !.watermark = head]
               two == [one EXCEPT !.refusedHead = None]
    <2>1. Deployed(st, head) = [two EXCEPT !.ledger = f("deployed")]
      BY Parts DEF Deployed
    <2>2. st = [watermark |-> st.watermark, lastSeen |-> st.lastSeen,
                refusedHead |-> st.refusedHead, ledger |-> st.ledger]
      BY Parts
    <2> HIDE DEF f, two
    <2>3. one = [watermark |-> head, lastSeen |-> st.lastSeen,
                 refusedHead |-> st.refusedHead, ledger |-> st.ledger]
      BY <2>2
    <2> HIDE DEF one
    <2>4. two = [watermark |-> head, lastSeen |-> st.lastSeen,
                 refusedHead |-> None, ledger |-> st.ledger]
      BY <2>3 DEF two
    <2>5. Deployed(st, head) = [watermark |-> head, lastSeen |-> st.lastSeen,
                                refusedHead |-> None, ledger |-> f("deployed")]
      BY <2>1, <2>4
    <2> QED
      BY <2>5 DEF f, Changed
  <1> HIDE DEF rec
  <1>4. {st.watermark, st.lastSeen, st.refusedHead, head, None} \subseteq {None} \cup Commits
    BY Parts
  <1>5. CASE st2 = Failed(st, head)
    <2>1. /\ st2 \in States /\ st2.watermark = st.watermark
          /\ st2.ledger[head] = rec("failed")
          /\ \A c \in Commits \ {head} : st2.ledger[c] = st.ledger[c]
          /\ Untried(st) /\ rec("failed").status # "" => Untried(st2)
      <3>1. Altered(Changed(st, head, rec("failed"), st.watermark, st.lastSeen, st.refusedHead),
                    st, head, rec("failed"), st.watermark)
        BY <1>1, <1>4, RecordSet
      <3> QED
        BY <1>2, <1>5, <3>1 DEF Altered
    <2> QED
      BY <1>1, <2>1
  <1>6. CASE st2 = Deployed(st, head)
    <2>1. /\ st2 \in States /\ st2.watermark = head
          /\ st2.ledger[head] = rec("deployed")
          /\ \A c \in Commits \ {head} : st2.ledger[c] = st.ledger[c]
          /\ Untried(st) /\ rec("deployed").status # "" => Untried(st2)
      <3>1. Altered(Changed(st, head, rec("deployed"), head, st.lastSeen, None),
                    st, head, rec("deployed"), head)
        BY <1>1, <1>4, RecordSet
      <3> QED
        BY <1>3, <1>6, <3>1 DEF Altered
    <2> QED
      BY <1>1, <2>1
  <1> QED
    BY <1>5, <1>6

\* The attempts of one commit taken back.
TakenBack(st2, st, head) ==
    /\ st2 \in States /\ st2.watermark = st.watermark
    /\ st2.ledger[head].attempts = 0
    /\ \A c \in Commits \ {head} : st2.ledger[c] = st.ledger[c]
    /\ Untried(st) => Untried(st2)

\* A retry's clearing of one commit's record.
LEMMA AttemptsCleared ==
  ASSUME NEW st \in States, NEW head \in Commits
  PROVE  TakenBack([st EXCEPT !.ledger[head].attempts = 0], st, head)
  <1> DEFINE rec == [status |-> st.ledger[head].status, attempts |-> 0]
             f == [st.ledger EXCEPT ![head].attempts = 0]
             st2 == [st EXCEPT !.ledger[head].attempts = 0]
  <1>1. rec \in Records
    <2>1. 0 \in 0..MaxDeployAttempts
      BY GitPollAssumption
    <2>2. st.ledger[head].status \in {"", "deployed", "failed", "skipped", "refused"}
      BY Parts
    <2> QED
      BY <2>1, <2>2 DEF Records
  <1>2. f = [st.ledger EXCEPT ![head] = rec]
    <2>1. st.ledger[head]
             = [status |-> st.ledger[head].status, attempts |-> st.ledger[head].attempts]
      BY Parts
    <2>2. [st.ledger[head] EXCEPT !.attempts = 0] = rec
      BY <2>1
    <2> QED
      BY <2>2
  <1>3. st2 = Changed(st, head, rec, st.watermark, st.lastSeen, st.refusedHead)
    <2>1. st2 = [st EXCEPT !.ledger = f]
      BY Parts
    <2>2. st = [watermark |-> st.watermark, lastSeen |-> st.lastSeen,
                refusedHead |-> st.refusedHead, ledger |-> st.ledger]
      BY Parts
    <2> HIDE DEF f
    <2>3. st2 = [watermark |-> st.watermark, lastSeen |-> st.lastSeen,
                 refusedHead |-> st.refusedHead, ledger |-> f]
      BY <2>1, <2>2
    <2> QED
      BY <1>2, <2>3 DEF Changed
  <1>4. rec.status = st.ledger[head].status /\ rec.attempts = 0
    OBVIOUS
  <1>5. {st.watermark, st.lastSeen, st.refusedHead} \subseteq {None} \cup Commits
    BY Parts
  <1> HIDE DEF rec, f, st2
  <1>6. /\ st2 \in States /\ st2.watermark = st.watermark /\ st2.ledger[head] = rec
        /\ \A c \in Commits \ {head} : st2.ledger[c] = st.ledger[c]
    <2>1. Altered(Changed(st, head, rec, st.watermark, st.lastSeen, st.refusedHead),
                  st, head, rec, st.watermark)
      BY <1>1, <1>5, RecordSet
    <2> QED
      BY <1>3, <2>1 DEF Altered
  <1>7. TakenBack(st2, st, head)
    BY <1>4, <1>6 DEF Untried, TakenBack
  <1> QED
    BY <1>7 DEF st2

\* The file of a ref that has no record.
LEMMA Cleared ==
  /\ NoAdmissions \in States /\ Untried(NoAdmissions)
  /\ NoAdmissions.watermark = None
  /\ \A c \in Commits : NoAdmissions.ledger[c].attempts = 0
  <1> DEFINE rec == [status |-> "", attempts |-> 0]
  <1>1. rec \in Records /\ rec.attempts = 0
    <2>1. 0 \in 0..MaxDeployAttempts
      BY GitPollAssumption
    <2> QED
      BY <2>1 DEF Records
  <1>2. NoAdmissions = [watermark |-> None, lastSeen |-> None, refusedHead |-> None,
                        ledger |-> [c \in Commits |-> rec]]
    BY DEF NoAdmissions, Fresh_
  <1> HIDE DEF rec
  <1>3. /\ NoAdmissions.ledger \in [Commits -> Records] /\ NoAdmissions.watermark = None
        /\ \A c \in Commits : NoAdmissions.ledger[c].attempts = 0
    BY <1>1, <1>2
  <1>4. NoAdmissions \in States
    BY <1>2, <1>3, StateParts
  <1> QED
    BY <1>3, <1>4 DEF Untried

\* At the start nothing is admitted and nothing ran.
LEMMA GitStarts == GitInit => GitInv
  <1> SUFFICES ASSUME GitInit
               PROVE  GitInv
    OBVIOUS
  <1>1. /\ NoAdmissions \in States /\ Untried(NoAdmissions)
        /\ NoAdmissions.watermark = None
        /\ \A c \in Commits : NoAdmissions.ledger[c].attempts = 0
    BY Cleared
  <1>2. /\ job = NoJob /\ cmd = NoCmd /\ NoJob.kind = "none"
    BY DEF GitInit, NoJob
  <1>3. GitTypeOK
    <2>1. runs \in [Commits -> Nat] /\ failures \in 0..MaxFailures
      BY GitPollAssumption DEF GitInit
    <2>2. overwrote \in BOOLEAN
      BY DEF GitInit
    <2> QED
      BY <1>1, <2>1, <2>2 DEF GitInit, GitTypeOK
  <1>4. RunsCounted
    <2> SUFFICES ASSUME NEW c \in Commits
                 PROVE  runs[c] <= adm.ledger[c].attempts + failures + Unsaved(c)
      BY DEF RunsCounted
    <2>1. Unsaved(c) = 0 /\ runs[c] = 0 /\ failures = 0 /\ adm.ledger[c].attempts = 0
      BY <1>1, <1>2 DEF Unsaved, InJob, GitInit
    <2> QED
      BY <2>1
  <1>5. AllUntried /\ JobCarries /\ OnlyLowered /\ WatermarkHolds
    BY <1>1, <1>2 DEF GitInit, AllUntried, JobCarries, OnlyLowered, WatermarkHolds, InJob
  <1> QED
    BY <1>3, <1>4, <1>5 DEF GitInv

\* The counts of the invariant are numbers.
LEMMA Counts ==
  ASSUME GitTypeOK, NEW c \in Commits
  PROVE  /\ Unsaved(c) \in {0, 1} /\ runs[c] \in Nat /\ failures \in Nat
         /\ adm.ledger[c].attempts \in Nat /\ adm.ledger[c].attempts <= MaxDeployAttempts
         /\ job # NoJob => /\ job.base.ledger[c].attempts \in Nat
                           /\ job.st.ledger[c].attempts \in Nat
                           /\ job.st.ledger[c].attempts <= MaxDeployAttempts
  <1>1. Unsaved(c) \in {0, 1}
    BY DEF Unsaved
  <1>2. /\ adm \in States /\ runs[c] \in Nat
        /\ (job # NoJob => job.st \in States /\ job.base \in States)
    BY JobTyped DEF GitTypeOK
  <1>3. failures \in Nat
    BY GitPollAssumption DEF GitTypeOK
  <1> QED
    BY <1>1, <1>2, <1>3, Parts

\* A job that is over leaves what it saves: the attempts it loaded, and one
\* more for a run (SaveState).
LEMMA Saving ==
  ASSUME GitInv, job # NoJob, job' = NoJob, NEW st \in States, Save(st, job.base),
         Untried(st),
         \A c \in Commits :
            st.ledger[c].attempts = job.base.ledger[c].attempts + Unsaved(c),
         UNCHANGED <<remote, mirror, cmd, served, runs, failures>>,
         recorded' \in {None} \cup Commits,
         ~overwrote /\ adm = job.base /\ recorded' # None =>
            st.watermark # None /\ Descends(st.watermark, recorded')
  PROVE  GitInv'
  <1> USE DEF GitInv
  <1>1. adm' = st /\ (~overwrote' => ~overwrote /\ adm = job.base)
        /\ overwrote' \in BOOLEAN
    BY DEF Save, GitTypeOK
  <1>2. job' = NoJob /\ NoJob.kind = "none"
    BY DEF NoJob
  <1>3. GitTypeOK'
    BY <1>1, <1>2 DEF GitTypeOK
  <1>4. RunsCounted'
    <2> SUFFICES ASSUME ~overwrote', NEW c \in Commits
                 PROVE  runs'[c] <= adm'.ledger[c].attempts + failures' + Unsaved(c)'
      BY DEF RunsCounted
    <2>1. Unsaved(c)' = 0
      BY <1>2 DEF Unsaved, InJob
    <2>2. runs[c] <= adm.ledger[c].attempts + failures + Unsaved(c)
      BY <1>1 DEF RunsCounted
    <2>3. st.ledger[c].attempts = adm.ledger[c].attempts + Unsaved(c)
      BY <1>1
    <2>4. /\ runs'[c] = runs[c] /\ failures' = failures
          /\ adm'.ledger[c].attempts = st.ledger[c].attempts
      BY <1>1
    <2>5. /\ Unsaved(c) \in {0, 1} /\ runs[c] \in Nat /\ failures \in Nat
          /\ adm.ledger[c].attempts \in Nat
      BY Counts
    <2> QED
      BY <2>1, <2>2, <2>3, <2>4, <2>5
  <1>5. AllUntried' /\ JobCarries' /\ OnlyLowered'
    <2>1. \A kind, points : ~InJob(kind, points)'
      BY <1>2 DEF InJob
    <2>2. AllUntried'
      BY <1>1, <1>2 DEF AllUntried, Untried
    <2>3. JobCarries'
      BY <1>2, <2>1 DEF JobCarries
    <2> QED
      BY <1>2, <2>2, <2>3 DEF OnlyLowered
  <1>6. WatermarkHolds'
    BY <1>1, <1>2 DEF WatermarkHolds, HoldsDeploy, InJob
  <1> QED
    BY <1>3, <1>4, <1>5, <1>6

\* A poll that found its head dealt with, gone, refused or irrelevant.
LEMMA PollSaves == ASSUME GitInv, PollGone \/ PollDeduped \/ PollRefuse \/ PollSkip  PROVE GitInv'
  <1> USE DEF GitInv
  <1>1. /\ job # NoJob /\ job.kind = "poll" /\ job.pc \in {"seen", "fetched"}
        /\ job' = NoJob /\ UNCHANGED <<remote, mirror, cmd, served, recorded, runs, failures>>
    BY JobTyped DEF PollGone, PollDeduped, PollRefuse, PollSkip, limits
  <1>2. /\ job.st \in States /\ job.base \in States /\ job.head \in {None} \cup Commits
        /\ Untried(job.st)
        /\ job.st.ledger = job.base.ledger /\ job.st.watermark = job.base.watermark
        /\ recorded' \in {None} \cup Commits
    BY <1>1, JobTyped DEF AllUntried, JobCarries, InJob, GitTypeOK
  <1>3. \A c \in Commits : Unsaved(c) = 0
    BY <1>1 DEF Unsaved, InJob
  <1>4. ASSUME NEW st \in States, Save(st, job.base), Untried(st),
               \A c \in Commits : st.ledger[c].attempts = job.st.ledger[c].attempts,
               \/ st.watermark = job.st.watermark
               \/ st.watermark \in Commits
                  /\ (job.st.watermark # None => Descends(st.watermark, job.st.watermark))
        PROVE  GitInv'
    <2>1. ~overwrote /\ adm = job.base /\ recorded' # None =>
             st.watermark # None /\ Descends(st.watermark, recorded')
      <3> SUFFICES ASSUME ~overwrote, adm = job.base, recorded # None
                   PROVE  st.watermark # None /\ Descends(st.watermark, recorded)
        BY <1>1
      <3>1. job.st.watermark # None /\ Descends(job.st.watermark, recorded)
        BY <1>1 DEF WatermarkHolds, HoldsDeploy, InJob
      <3>2. recorded \in Commits /\ job.st.watermark \in {None} \cup Commits
        BY <1>2, Parts, StateParts DEF GitTypeOK
      <3>3. st.watermark \in Commits => st.watermark # None
        BY GitPollAssumption DEF None
      <3> QED
        BY <1>4, <3>1, <3>2, <3>3, Ancestry
    <2>2. \A c \in Commits : st.ledger[c].attempts = job.base.ledger[c].attempts + Unsaved(c)
      <3> SUFFICES ASSUME NEW c \in Commits
                   PROVE  st.ledger[c].attempts = job.base.ledger[c].attempts + Unsaved(c)
        OBVIOUS
      <3>1. st.ledger[c].attempts = job.base.ledger[c].attempts /\ Unsaved(c) = 0
        BY <1>2, <1>3, <1>4
      <3>2. job.base.ledger[c].attempts \in Nat
        BY <1>1, Counts
      <3> QED
        BY <3>1, <3>2
    <2> QED
      BY <1>1, <1>2, <1>4, <2>1, <2>2, Saving
  <1> DEFINE old == job.st
  <1>5. /\ old = [watermark |-> old.watermark, lastSeen |-> old.lastSeen,
                  refusedHead |-> old.refusedHead, ledger |-> old.ledger]
        /\ old.ledger \in [Commits -> Records]
        /\ old.watermark \in {None} \cup Commits /\ old.lastSeen \in {None} \cup Commits
        /\ old.refusedHead \in {None} \cup Commits
    BY <1>2, StateParts
  <1>6. CASE PollGone
    <2> DEFINE st == [old EXCEPT !.lastSeen = None]
    <2>1. st = [watermark |-> old.watermark, lastSeen |-> None,
                refusedHead |-> old.refusedHead, ledger |-> old.ledger]
      BY <1>5
    <2>2. Save(st, job.base)
      BY <1>6 DEF PollGone
    <2> HIDE DEF st
    <2>3. st.ledger = old.ledger /\ st.watermark = old.watermark
          /\ st.lastSeen = None /\ st.refusedHead = old.refusedHead
      BY <2>1
    <2>4. st \in States
      BY <1>5, <2>1, <2>3, StateParts
    <2> QED
      BY <1>2, <1>4, <2>2, <2>3, <2>4 DEF Untried
  <1>7. CASE PollDeduped
    BY <1>2, <1>4, <1>7 DEF PollDeduped
  <1>8. CASE PollRefuse
    <2> DEFINE st == [old EXCEPT !.refusedHead = job.head, !.ledger[job.head].status = "refused"]
               f == [old.ledger EXCEPT ![job.head].status = "refused"]
    <2>1. job.head \in Commits
      BY <1>1, <1>8 DEF PollRefuse, JobCarries
    <2>2. Save(st, job.base)
      BY <1>8 DEF PollRefuse
    <2>3. st = [[old EXCEPT !.refusedHead = job.head] EXCEPT !.ledger = f]
      BY <1>5
    <2> HIDE DEF st, f
    <2>4. st = [watermark |-> old.watermark, lastSeen |-> old.lastSeen,
                refusedHead |-> job.head, ledger |-> f]
      <3>1. [old EXCEPT !.refusedHead = job.head]
              = [watermark |-> old.watermark, lastSeen |-> old.lastSeen,
                 refusedHead |-> job.head, ledger |-> old.ledger]
        BY <1>5
      <3> QED
        BY <2>3, <3>1
    <2>5. Restated(st, old, job.head, "refused", old.watermark)
      BY <1>2, <1>5, <2>1, <2>4, StatusSet DEF f
    <2> QED
      BY <1>2, <1>4, <2>2, <2>5 DEF Restated
  <1>9. CASE PollSkip
    <2> DEFINE st == [old EXCEPT !.watermark = job.head, !.ledger[job.head].status = "skipped"]
               f == [old.ledger EXCEPT ![job.head].status = "skipped"]
    <2>1. job.head \in Commits
      BY <1>1, <1>9 DEF PollSkip, JobCarries
    <2>2. Save(st, job.base) /\ Descends(job.head, old.watermark)
      BY <1>9 DEF PollSkip, Rewritten
    <2>3. st = [[old EXCEPT !.watermark = job.head] EXCEPT !.ledger = f]
      BY <1>5
    <2> HIDE DEF st, f
    <2>4. st = [watermark |-> job.head, lastSeen |-> old.lastSeen,
                refusedHead |-> old.refusedHead, ledger |-> f]
      <3>1. [old EXCEPT !.watermark = job.head]
              = [watermark |-> job.head, lastSeen |-> old.lastSeen,
                 refusedHead |-> old.refusedHead, ledger |-> old.ledger]
        BY <1>5
      <3> QED
        BY <2>3, <3>1
    <2>5. Restated(st, old, job.head, "skipped", job.head)
      BY <1>2, <1>5, <2>1, <2>4, StatusSet DEF f
    <2> QED
      BY <1>2, <1>4, <2>1, <2>2, <2>5 DEF Restated
  <1> QED
    BY <1>6, <1>7, <1>8, <1>9

\* What the saves of a finished deploy leave.
LEMMA SaveJobKeeps == ASSUME GitInv, SaveJob  PROVE GitInv'
  <1> USE DEF GitInv
  <1>1. /\ job # NoJob /\ job.pc = "save" /\ job' = NoJob /\ Save(job.st, job.base)
        /\ UNCHANGED <<remote, mirror, cmd, served, runs, failures>>
        /\ recorded' = IF job.st.ledger[job.head].status = "deployed" THEN job.head ELSE recorded
    BY DEF SaveJob, limits
  <1>2. /\ job.st \in States /\ Untried(job.st) /\ job.head \in Commits
        /\ \A c \in Commits :
              job.st.ledger[c].attempts = job.base.ledger[c].attempts + Unsaved(c)
        /\ job.st.watermark = IF job.st.ledger[job.head].status = "deployed"
                              THEN job.head ELSE job.base.watermark
    BY <1>1, JobTyped DEF AllUntried, JobCarries
  <1>3. recorded' \in {None} \cup Commits
    BY <1>1, <1>2 DEF GitTypeOK
  <1>4. ~overwrote /\ adm = job.base /\ recorded' # None =>
           job.st.watermark # None /\ Descends(job.st.watermark, recorded')
    <2>1. CASE job.st.ledger[job.head].status = "deployed"
      <3>1. recorded' = job.head /\ job.st.watermark = job.head /\ job.head # None
        BY <1>1, <1>2, <2>1, GitPollAssumption DEF None
      <3> QED
        BY <1>2, <3>1, Ancestry
    <2>2. CASE job.st.ledger[job.head].status # "deployed"
      BY <1>1, <1>2, <2>2 DEF WatermarkHolds, HoldsDeploy
    <2> QED
      BY <2>1, <2>2
  <1> QED
    BY <1>1, <1>2, <1>3, <1>4, Saving

\* A job that starts has loaded what is on file.
LEMMA StartKeeps == ASSUME GitInv, StartPoll \/ StartManual  PROVE GitInv'
  <1> USE DEF GitInv
  <1>1. PICK k \in {"poll", "manual"} :
          /\ job = NoJob
          /\ job' = [kind |-> k, pc |-> "seen", st |-> adm, base |-> adm, head |-> remote]
          /\ UNCHANGED <<remote, mirror, adm, cmd, history, failures>>
    BY DEF StartPoll, StartManual, limits
  <1>2. /\ job'.kind = k /\ job'.pc = "seen" /\ job'.st = adm /\ job'.base = adm
        /\ job'.head = remote /\ NoJob.kind = "none"
        /\ UNCHANGED <<remote, mirror, adm, cmd, served, recorded, runs, overwrote, failures>>
    BY <1>1 DEF NoJob, history
  <1>3. GitTypeOK'
    <2>1. job' \in [kind : {"poll", "manual"}, pc : {"seen", "fetched", "record", "save"},
                    st : States, base : States, head : {None} \cup Commits]
      BY <1>1 DEF GitTypeOK
    <2>2. overwrote' \in BOOLEAN
      BY <1>2 DEF GitTypeOK
    <2> QED
      BY <1>2, <2>1, <2>2 DEF GitTypeOK
  <1>4. AllUntried'
    BY <1>2 DEF AllUntried, Untried
  <1>5. JobCarries'
    BY <1>2 DEF JobCarries, InJob
  <1>6. OnlyLowered'
    <2> SUFFICES ASSUME NEW c \in Commits
                 PROVE  adm'.ledger[c].attempts <= job'.base.ledger[c].attempts
      BY DEF OnlyLowered
    <2> QED
      BY <1>2, Counts
  <1>7. RunsCounted'
    <2>1. \A c \in Commits : Unsaved(c)' = 0 /\ Unsaved(c) = 0
      BY <1>1, <1>2 DEF Unsaved, InJob
    <2> QED
      BY <1>2, <2>1 DEF RunsCounted
  <1>8. WatermarkHolds'
    BY <1>2 DEF WatermarkHolds, HoldsDeploy, InJob
  <1> QED
    BY <1>3, <1>4, <1>5, <1>6, <1>7, <1>8

\* A run that ends without a save is a failure more.
LEMMA CutOffKeeps == ASSUME GitInv, CutOff  PROVE GitInv'
  <1> USE DEF GitInv
  <1>1. /\ job' = NoJob /\ NoJob.kind = "none"
        /\ failures < MaxFailures /\ failures' = failures + 1
        /\ UNCHANGED <<remote, mirror, adm, cmd, served, recorded, runs, overwrote>>
    BY DEF CutOff, NoJob, history
  <1>2. \A kind, points : ~InJob(kind, points)'
    BY <1>1 DEF InJob
  <1>3. GitTypeOK'
    <2>1. failures' \in 0..MaxFailures
      BY <1>1, GitPollAssumption DEF GitTypeOK
    <2>2. overwrote' \in BOOLEAN
      BY <1>1 DEF GitTypeOK
    <2> QED
      BY <1>1, <2>1, <2>2 DEF GitTypeOK
  <1>4. RunsCounted'
    <2> SUFFICES ASSUME ~overwrote', NEW c \in Commits
                 PROVE  runs'[c] <= adm'.ledger[c].attempts + failures' + Unsaved(c)'
      BY DEF RunsCounted
    <2>1. Unsaved(c)' = 0
      BY <1>2 DEF Unsaved
    <2>2. /\ runs[c] <= adm.ledger[c].attempts + failures + Unsaved(c)
          /\ runs' = runs /\ adm' = adm
      BY <1>1 DEF RunsCounted
    <2>3. /\ Unsaved(c) \in {0, 1} /\ runs[c] \in Nat /\ failures \in Nat
          /\ adm.ledger[c].attempts \in Nat
      BY Counts
    <2> QED
      BY <1>1, <2>1, <2>2, <2>3
  <1>5. AllUntried'
    BY <1>1 DEF AllUntried, Untried
  <1>6. JobCarries'
    BY <1>1, <1>2 DEF JobCarries
  <1>7. OnlyLowered' /\ WatermarkHolds'
    BY <1>1, <1>2 DEF OnlyLowered, WatermarkHolds, HoldsDeploy
  <1> QED
    BY <1>3, <1>4, <1>5, <1>6, <1>7

\* The outside world moves the branch and nothing else.
LEMMA MoveKeeps == ASSUME GitInv, Move \/ UNCHANGED gitVars  PROVE GitInv'
  <1> USE DEF GitInv
  <1>1. /\ remote' \in {None} \cup Commits
        /\ UNCHANGED <<mirror, adm, job, cmd, served, recorded, runs, overwrote, failures>>
    BY DEF Move, gitVars, history, limits, GitTypeOK
  <1>2. overwrote' \in BOOLEAN
    BY <1>1 DEF GitTypeOK
  <1>3. GitTypeOK'
    BY <1>1, <1>2 DEF GitTypeOK
  <1>4. \A c \in Commits : Unsaved(c)' = Unsaved(c)
    BY <1>1 DEF Unsaved, InJob
  <1>5. AllUntried' /\ OnlyLowered'
    BY <1>1 DEF AllUntried, OnlyLowered, Untried
  <1>6. JobCarries'
    BY <1>1, <1>4 DEF JobCarries, InJob, Runnable
  <1>7. RunsCounted' /\ WatermarkHolds'
    BY <1>1, <1>4 DEF RunsCounted, WatermarkHolds, HoldsDeploy, InJob
  <1> QED
    BY <1>3, <1>5, <1>6, <1>7

\* What a fetch leaves of the job: the ledger and the watermark it loaded.
LEMMA FetchKeeps == ASSUME GitInv, Fetch  PROVE GitInv'
  <1> USE DEF GitInv
  <1>1. /\ job # NoJob /\ job.pc = "seen" /\ job.head \in Commits
        /\ job.kind = "poll" => ~Deduped(job.st, job.head)
        /\ UNCHANGED <<remote, adm, cmd, served, recorded, runs, overwrote, failures>>
        /\ \/ job' = [job EXCEPT !.pc = "fetched", !.st.lastSeen = job.head]
           \/ job' = NoJob
    BY JobTyped DEF Fetch, history, limits
  <1>2. /\ job.st \in States /\ job.base \in States /\ job.kind \in {"poll", "manual"}
        /\ job = [kind |-> job.kind, pc |-> job.pc, st |-> job.st, base |-> job.base,
                  head |-> job.head]
        /\ NoJob.kind = "none"
    BY <1>1, JobTyped
  <1> DEFINE old == job.st
             st == [old EXCEPT !.lastSeen = job.head]
             next == [kind |-> job.kind, pc |-> "fetched", st |-> st, base |-> job.base,
                      head |-> job.head]
  <1>3. /\ st \in States /\ st.ledger = old.ledger /\ st.watermark = old.watermark
    <2>1. /\ old = [watermark |-> old.watermark, lastSeen |-> old.lastSeen,
                    refusedHead |-> old.refusedHead, ledger |-> old.ledger]
          /\ old.ledger \in [Commits -> Records]
          /\ old.watermark \in {None} \cup Commits /\ old.refusedHead \in {None} \cup Commits
      BY <1>2, StateParts
    <2>2. st = [watermark |-> old.watermark, lastSeen |-> job.head,
                refusedHead |-> old.refusedHead, ledger |-> old.ledger]
      BY <2>1
    <2> HIDE DEF st
    <2>3. /\ st.ledger = old.ledger /\ st.watermark = old.watermark
          /\ st.lastSeen = job.head /\ st.refusedHead = old.refusedHead
      BY <2>2
    <2> QED
      BY <1>1, <2>1, <2>2, <2>3, StateParts
  <1>4. job' = next \/ job' = NoJob
    <2> DEFINE one == [job EXCEPT !.pc = "fetched"]
    <2>1. [job EXCEPT !.pc = "fetched", !.st.lastSeen = job.head] = [one EXCEPT !.st = st]
      BY <1>2
    <2> HIDE DEF st
    <2>2. one = [kind |-> job.kind, pc |-> "fetched", st |-> job.st, base |-> job.base,
                 head |-> job.head]
      BY <1>2
    <2> HIDE DEF one
    <2>3. [one EXCEPT !.st = st] = next
      BY <2>2
    <2> QED
      BY <1>1, <2>1, <2>3
  <1> HIDE DEF st
  <1>5. /\ next.kind = job.kind /\ next.pc = "fetched" /\ next.st = st /\ next.base = job.base
        /\ next.head = job.head
        /\ next \in [kind : {"poll", "manual"}, pc : {"seen", "fetched", "record", "save"},
                     st : States, base : States, head : {None} \cup Commits]
    BY <1>1, <1>2, <1>3
  <1> HIDE DEF next
  <1>6. job.kind = "poll" => /\ Runnable(st, job.head)
                             /\ st.ledger = job.base.ledger
                             /\ st.watermark = job.base.watermark
    <2> SUFFICES ASSUME job.kind = "poll"
                 PROVE  /\ Runnable(st, job.head) /\ st.ledger = job.base.ledger
                        /\ st.watermark = job.base.watermark
      OBVIOUS
    <2>1. old.ledger = job.base.ledger /\ old.watermark = job.base.watermark
      BY <1>1 DEF JobCarries, InJob
    <2>2. ~Deduped(old, job.head) /\ Untried(old)
      BY <1>1 DEF AllUntried
    <2>3. /\ old.ledger[job.head].status \in {"", "deployed", "failed", "skipped", "refused"}
          /\ old.ledger[job.head].attempts \in Nat
      BY <1>1, <1>2, Parts
    <2>4. old.ledger[job.head].status \in {"", "failed"}
      BY <2>2, <2>3 DEF Deduped
    <2>5. old.ledger[job.head].attempts < MaxDeployAttempts
      <3>1. old.ledger[job.head].status = "" => old.ledger[job.head].attempts = 0
        BY <1>1, <2>2 DEF Untried
      <3>2. old.ledger[job.head].status = "failed" =>
               ~(old.ledger[job.head].attempts >= MaxDeployAttempts)
        BY <2>2 DEF Deduped
      <3>3. MaxDeployAttempts \in Nat /\ MaxDeployAttempts > 0
        BY GitPollAssumption
      <3> QED
        <4> DEFINE n == old.ledger[job.head].attempts
        <4>1. n \in Nat /\ (n = 0 \/ ~(n >= MaxDeployAttempts))
          BY <2>3, <2>4, <3>1, <3>2
        <4> HIDE DEF n
        <4>2. n < MaxDeployAttempts
          BY <3>3, <4>1
        <4> QED
          BY <4>2 DEF n
    <2> QED
      BY <1>3, <2>1, <2>4, <2>5 DEF Runnable
  <1>7. \A c \in Commits : Unsaved(c) = 0 /\ Unsaved(c)' = 0
    BY <1>1, <1>2, <1>4, <1>5 DEF Unsaved, InJob
  <1>8. GitTypeOK'
    <2>1. mirror' \subseteq Commits
      <3>1. mirror' = mirror \cup (IF remote = None THEN {} ELSE AncestorsOf[remote])
        BY DEF Fetch
      <3> QED
        BY <3>1, Ancestry DEF GitTypeOK
    <2>2. overwrote' \in BOOLEAN
      BY <1>1 DEF GitTypeOK
    <2> QED
      BY <1>1, <1>4, <1>5, <2>1, <2>2 DEF GitTypeOK
  <1>9. AllUntried'
    <2>1. Untried(st) /\ Untried(job.base) /\ Untried(adm')
      BY <1>1, <1>3 DEF AllUntried, Untried
    <2>2. job' # NoJob => job'.st = st /\ job'.base = job.base
      BY <1>4, <1>5
    <2>3. cmd' # NoCmd => Untried(cmd'.base)
      BY <1>1 DEF AllUntried, Untried
    <2>4. job' # NoJob => Untried(job'.st) /\ Untried(job'.base)
      BY <2>1, <2>2
    <2> QED
      BY <2>1, <2>3, <2>4 DEF AllUntried, Untried
  <1>10. JobCarries'
    BY <1>1, <1>2, <1>4, <1>5, <1>6 DEF JobCarries, InJob, Runnable
  <1>11. OnlyLowered' /\ RunsCounted'
    BY <1>1, <1>4, <1>5, <1>7 DEF OnlyLowered, RunsCounted
  <1>12. WatermarkHolds'
    <2>1. InJob("poll", {"seen", "fetched"})' => InJob("poll", {"seen", "fetched"})
                                               /\ job'.st.watermark = job.st.watermark
      BY <1>1, <1>2, <1>3, <1>4, <1>5 DEF InJob
    <2> QED
      BY <1>1, <2>1 DEF WatermarkHolds, HoldsDeploy
  <1> QED
    BY <1>8, <1>9, <1>10, <1>11, <1>12

\* A deploy of the poll is one run and one attempt of its head.
LEMMA PollDeployKeeps == ASSUME GitInv, PollDeploy  PROVE GitInv'
  <1> USE DEF GitInv
  <1>1. /\ job # NoJob /\ job.kind = "poll" /\ job.pc = "fetched"
        /\ runs' = [runs EXCEPT ![job.head] = @ + 1]
        /\ served' \in {job.head, served}
        /\ UNCHANGED <<remote, mirror, adm, cmd, recorded, overwrote, failures>>
    BY JobTyped DEF PollDeploy, limits
  <1>2. /\ job.st \in States /\ job.base \in States /\ job.head \in Commits
        /\ Untried(job.st) /\ Untried(job.base)
        /\ job.st.ledger = job.base.ledger /\ job.st.watermark = job.base.watermark
        /\ job.st.ledger[job.head].attempts < MaxDeployAttempts
        /\ job = [kind |-> job.kind, pc |-> job.pc, st |-> job.st, base |-> job.base,
                  head |-> job.head]
    BY <1>1, JobTyped DEF AllUntried, JobCarries, InJob, Runnable
  <1>3. PICK st \in {Failed(job.st, job.head), Deployed(job.st, job.head)} :
           job' = [job EXCEPT !.pc = "save", !.st = st]
    BY DEF PollDeploy
  <1>4. /\ st \in States
        /\ st.ledger[job.head].attempts = job.st.ledger[job.head].attempts + 1
        /\ \A c \in Commits \ {job.head} : st.ledger[c] = job.st.ledger[c]
        /\ Untried(st)
        /\ st.watermark = IF st.ledger[job.head].status = "deployed"
                          THEN job.head ELSE job.st.watermark
    BY <1>2, AttemptSet
  <1> DEFINE next == [kind |-> job.kind, pc |-> "save", st |-> st, base |-> job.base,
                      head |-> job.head]
  <1>5. job' = next
    <2>1. job' = [[job EXCEPT !.pc = "save"] EXCEPT !.st = st]
      BY <1>2, <1>3
    <2>2. [job EXCEPT !.pc = "save"]
             = [kind |-> job.kind, pc |-> "save", st |-> job.st, base |-> job.base,
                head |-> job.head]
      BY <1>2
    <2> QED
      BY <2>1, <2>2
  <1>6. /\ next.kind = "poll" /\ next.pc = "save" /\ next.st = st /\ next.base = job.base
        /\ next.head = job.head
        /\ next \in [kind : {"poll", "manual"}, pc : {"seen", "fetched", "record", "save"},
                     st : States, base : States, head : {None} \cup Commits]
        /\ NoJob.kind = "none"
    BY <1>1, <1>2, <1>4 DEF NoJob
  <1> HIDE DEF next
  <1>7. job' # NoJob
    BY <1>5, <1>6
  <1>8. \A c \in Commits : Unsaved(c) = 0 /\ Unsaved(c)' = IF c = job.head THEN 1 ELSE 0
    BY <1>1, <1>5, <1>6, <1>7 DEF Unsaved, InJob
  <1>9. GitTypeOK'
    <2>1. runs' \in [Commits -> Nat]
      BY <1>1, <1>2 DEF GitTypeOK
    <2>2. overwrote' \in BOOLEAN
      BY <1>1 DEF GitTypeOK
    <2> QED
      BY <1>1, <1>2, <1>5, <1>6, <2>1, <2>2 DEF GitTypeOK
  <1>10. AllUntried'
    BY <1>1, <1>2, <1>4, <1>5, <1>6 DEF AllUntried, Untried
  <1>11. JobCarries'
    <2>1. ASSUME NEW c \in Commits
          PROVE  st.ledger[c].attempts = job.base.ledger[c].attempts + Unsaved(c)'
      <3>1. job.base.ledger[c].attempts \in Nat
        BY <1>1, Counts
      <3>2. c # job.head => st.ledger[c].attempts = job.base.ledger[c].attempts
        BY <1>2, <1>4
      <3>3. c = job.head => st.ledger[c].attempts = job.base.ledger[c].attempts + 1
        BY <1>2, <1>4
      <3> QED
        BY <1>8, <3>1, <3>2, <3>3
    <2>2. ~InJob("poll", {"record"})' /\ ~InJob("poll", {"seen", "fetched"})'
          /\ ~InJob("poll", {"fetched"})'
      BY <1>5, <1>6 DEF InJob
    <2>3. \A c \in Commits :
             job'.st.ledger[c].attempts = job'.base.ledger[c].attempts + Unsaved(c)'
      BY <1>5, <1>6, <2>1
    <2>4. job'.st.watermark = IF job'.st.ledger[job'.head].status = "deployed"
                              THEN job'.head ELSE job'.base.watermark
      BY <1>2, <1>4, <1>5, <1>6
    <2>5. job'.head \in Commits
      BY <1>2, <1>5, <1>6
    <2> QED
      BY <2>2, <2>3, <2>4, <2>5 DEF JobCarries
  <1>12. OnlyLowered'
    BY <1>1, <1>5, <1>6 DEF OnlyLowered
  <1>13. RunsCounted'
    <2> SUFFICES ASSUME ~overwrote', NEW c \in Commits
                 PROVE  runs'[c] <= adm'.ledger[c].attempts + failures' + Unsaved(c)'
      BY DEF RunsCounted
    <2>1. runs[c] <= adm.ledger[c].attempts + failures + Unsaved(c)
      BY <1>1 DEF RunsCounted
    <2>2. /\ runs[c] \in Nat /\ failures \in Nat /\ adm.ledger[c].attempts \in Nat
      BY Counts
    <2>3. runs'[c] = IF c = job.head THEN runs[c] + 1 ELSE runs[c]
      BY <1>1, <1>2 DEF GitTypeOK
    <2>4. adm' = adm /\ failures' = failures
      BY <1>1
    <2> QED
      BY <1>8, <2>1, <2>2, <2>3, <2>4
  <1>14. WatermarkHolds'
    <2>1. ~InJob("poll", {"seen", "fetched"})'
      BY <1>5, <1>6 DEF InJob
    <2> QED
      BY <1>1, <2>1 DEF WatermarkHolds, HoldsDeploy
  <1> QED
    BY <1>9, <1>10, <1>11, <1>12, <1>13, <1>14

\* A manual deploy runs whatever the poll would say, and records itself anew.
LEMMA ManualKeeps == ASSUME GitInv, ManualStep  PROVE GitInv'
  <1> USE DEF GitInv
  <1>1. /\ job # NoJob /\ job.kind = "manual" /\ job.pc \in {"fetched", "record"}
        /\ served' \in {job.head, served}
        /\ UNCHANGED <<remote, mirror, adm, cmd, recorded, runs, overwrote, failures>>
    BY JobTyped DEF ManualStep, ManualDeploy, RecordManual, history, limits
  <1>2. /\ job.st \in States /\ job.base \in States /\ job.head \in Commits
        /\ adm \in States /\ Untried(job.st) /\ Untried(job.base) /\ Untried(adm)
        /\ job = [kind |-> job.kind, pc |-> job.pc, st |-> job.st, base |-> job.base,
                  head |-> job.head]
    BY <1>1, JobTyped DEF AllUntried, JobCarries, InJob, GitTypeOK
  <1> DEFINE manual(pc, st, base) ==
               [kind |-> "manual", pc |-> pc, st |-> st, base |-> base, head |-> job.head]
  <1>3. PICK pc \in {"record", "save"}, st \in States, base \in States :
          /\ job' = NoJob \/ job' = manual(pc, st, base)
          /\ Untried(st) /\ Untried(base)
          /\ base = adm \/ base = job.base
          /\ pc = "save" => /\ \A c \in Commits :
                                  st.ledger[c].attempts = base.ledger[c].attempts
                            /\ st.watermark = job.head
                            /\ st.ledger[job.head].status = "deployed"
    <2>1. CASE ManualDeploy
      <3>1. job' = NoJob \/ job' = [job EXCEPT !.pc = "record"]
        BY <2>1 DEF ManualDeploy
      <3>2. [job EXCEPT !.pc = "record"] = manual("record", job.st, job.base)
        BY <1>1, <1>2
      <3> QED
        BY <1>2, <3>1, <3>2
    <2>2. CASE RecordManual
      <3> DEFINE f == [adm.ledger EXCEPT ![job.head].status = "deployed"]
                 st == [adm EXCEPT !.watermark = job.head, !.lastSeen = job.head,
                                   !.refusedHead = None,
                                   !.ledger[job.head].status = "deployed"]
                 one == [job EXCEPT !.pc = "save"]
                 two == [one EXCEPT !.base = adm]
      <3>1. job' = [two EXCEPT !.st = st]
        BY <1>2, <2>2 DEF RecordManual
      <3>2. st = [watermark |-> job.head, lastSeen |-> job.head, refusedHead |-> None,
                  ledger |-> f]
        <4>1. st = [adm EXCEPT !.watermark = job.head, !.lastSeen = job.head,
                               !.refusedHead = None, !.ledger = f]
          BY <1>2, Parts
        <4>2. DOMAIN adm = {"watermark", "lastSeen", "refusedHead", "ledger"}
          <5>1. adm = [watermark |-> adm.watermark, lastSeen |-> adm.lastSeen,
                       refusedHead |-> adm.refusedHead, ledger |-> adm.ledger]
            BY <1>2, StateParts
          <5> QED
            BY <5>1
        <4> HIDE DEF f
        <4>3. st = [x \in {"watermark", "lastSeen", "refusedHead", "ledger"} |->
                      IF x = "ledger" THEN f ELSE IF x = "refusedHead" THEN None ELSE job.head]
          BY <4>1, <4>2
        <4> QED
          BY <4>3
      <3>3. Restated(st, adm, job.head, "deployed", job.head)
        <4> HIDE DEF st
        <4> QED
          BY <1>2, <3>2, StatusSet DEF f
      <3> HIDE DEF st, two
      <3>4. one = manual("save", job.st, job.base)
        BY <1>1, <1>2
      <3> HIDE DEF one
      <3>5. two = manual("save", job.st, adm)
        BY <3>4 DEF two
      <3>6. job' = manual("save", st, adm)
        BY <3>1, <3>5
      <3> HIDE DEF manual
      <3>7. /\ st \in States /\ Untried(st) /\ st.watermark = job.head
            /\ st.ledger[job.head].status = "deployed"
            /\ \A c \in Commits : st.ledger[c].attempts = adm.ledger[c].attempts
        BY <1>2, <3>3 DEF Restated
      <3> QED
        BY <1>2, <3>6, <3>7
    <2> QED
      BY <2>1, <2>2 DEF ManualStep
  <1> DEFINE next == manual(pc, st, base)
  <1>4. /\ next.kind = "manual" /\ next.pc = pc /\ next.st = st /\ next.base = base
        /\ next.head = job.head
        /\ next \in [kind : {"poll", "manual"}, pc : {"seen", "fetched", "record", "save"},
                     st : States, base : States, head : {None} \cup Commits]
        /\ NoJob.kind = "none"
    BY <1>2, <1>3 DEF NoJob
  <1>5. job' = NoJob \/ job' = next
    BY <1>3
  <1> HIDE DEF next, manual
  <1>6. \A points : ~InJob("poll", points)' /\ ~InJob("poll", points)
    BY <1>1, <1>4, <1>5 DEF InJob
  <1>7. \A c \in Commits : Unsaved(c) = 0 /\ Unsaved(c)' = 0
    BY <1>6 DEF Unsaved
  <1>8. GitTypeOK'
    <2>1. overwrote' \in BOOLEAN
      BY <1>1 DEF GitTypeOK
    <2> QED
      BY <1>1, <1>2, <1>4, <1>5, <2>1 DEF GitTypeOK
  <1>9. AllUntried'
    <2>1. job' # NoJob => Untried(job'.st) /\ Untried(job'.base)
      BY <1>3, <1>4, <1>5
    <2> QED
      BY <1>1, <2>1 DEF AllUntried, Untried
  <1>10. JobCarries'
    <2>1. ASSUME job' # NoJob, job'.pc = "save"
          PROVE  /\ \A c \in Commits :
                       job'.st.ledger[c].attempts = job'.base.ledger[c].attempts + Unsaved(c)'
                 /\ job'.st.watermark = IF job'.st.ledger[job'.head].status = "deployed"
                                        THEN job'.head ELSE job'.base.watermark
      <3>1. /\ job'.st = st /\ job'.base = base /\ job'.head = job.head /\ pc = "save"
        BY <1>4, <1>5, <2>1
      <3>2. \A c \in Commits : st.ledger[c].attempts = base.ledger[c].attempts
        BY <1>3, <3>1
      <3>3. \A c \in Commits : base.ledger[c].attempts \in Nat
        BY <1>3, Parts
      <3>4. st.watermark = job.head /\ st.ledger[job.head].status = "deployed"
        BY <1>3, <3>1
      <3> QED
        BY <1>7, <3>1, <3>2, <3>3, <3>4
    <2>2. job' # NoJob => job'.head \in Commits
      BY <1>2, <1>4, <1>5
    <2> QED
      BY <1>6, <2>1, <2>2 DEF JobCarries
  <1>11. OnlyLowered'
    <2> SUFFICES ASSUME job' # NoJob, ~overwrote', NEW c \in Commits
                 PROVE  adm'.ledger[c].attempts <= job'.base.ledger[c].attempts
      BY DEF OnlyLowered
    <2>1. job'.base = base /\ adm' = adm
      BY <1>1, <1>4, <1>5
    <2>2. adm.ledger[c].attempts <= job.base.ledger[c].attempts
      BY <1>1 DEF OnlyLowered
    <2>3. adm.ledger[c].attempts <= adm.ledger[c].attempts
      BY Counts
    <2> QED
      BY <1>3, <2>1, <2>2, <2>3
  <1>12. RunsCounted' /\ WatermarkHolds'
    BY <1>1, <1>6, <1>7 DEF RunsCounted, WatermarkHolds, HoldsDeploy
  <1> QED
    BY <1>8, <1>9, <1>10, <1>11, <1>12

\* The reset forgets the attempts and the deploys with the record of them.
LEMMA ResetKeeps == ASSUME GitInv, Reset  PROVE GitInv'
  <1> USE DEF GitInv
  <1>1. /\ adm' = NoAdmissions /\ recorded' = None /\ runs' = [c \in Commits |-> 0]
        /\ UNCHANGED <<remote, mirror, job, cmd, served, overwrote, failures>>
    BY DEF Reset
  <1>2. /\ NoAdmissions \in States /\ Untried(NoAdmissions)
        /\ \A c \in Commits : NoAdmissions.ledger[c].attempts = 0
    BY Cleared
  <1>3. \A c \in Commits : Unsaved(c)' = Unsaved(c)
    BY <1>1 DEF Unsaved, InJob
  <1>4. GitTypeOK'
    <2>1. overwrote' \in BOOLEAN
      BY <1>1 DEF GitTypeOK
    <2>2. runs' \in [Commits -> Nat]
      BY <1>1
    <2> QED
      BY <1>1, <1>2, <2>1, <2>2 DEF GitTypeOK
  <1>5. AllUntried'
    BY <1>1, <1>2 DEF AllUntried, Untried
  <1>6. JobCarries'
    BY <1>1, <1>3 DEF JobCarries, InJob, Runnable
  <1>7. OnlyLowered'
    <2> SUFFICES ASSUME job # NoJob, NEW c \in Commits
                 PROVE  adm'.ledger[c].attempts <= job'.base.ledger[c].attempts
      BY <1>1 DEF OnlyLowered
    <2>1. adm'.ledger[c].attempts = 0 /\ job'.base.ledger[c].attempts \in Nat
      BY <1>1, <1>2, Counts
    <2> QED
      BY <2>1
  <1>8. RunsCounted'
    <2> SUFFICES ASSUME NEW c \in Commits
                 PROVE  runs'[c] <= adm'.ledger[c].attempts + failures' + Unsaved(c)'
      BY DEF RunsCounted
    <2>1. /\ runs'[c] = 0 /\ adm'.ledger[c].attempts = 0 /\ failures' \in Nat
          /\ Unsaved(c)' \in {0, 1}
      BY <1>1, <1>2, <1>3, Counts
    <2> QED
      BY <2>1
  <1>9. WatermarkHolds'
    BY <1>1 DEF WatermarkHolds
  <1> QED
    BY <1>4, <1>5, <1>6, <1>7, <1>8, <1>9

\* The retry takes the attempts of a commit back, and with them its runs.
LEMMA RetryKeeps == ASSUME GitInv, RetryLoad \/ RetrySave  PROVE GitInv'
  <1> USE DEF GitInv
  <1>1. CASE RetryLoad
    <2>1. /\ cmd' = [kind |-> "retry", head |-> RetryHead, base |-> adm]
          /\ RetryHead \in Commits
          /\ UNCHANGED <<remote, mirror, adm, job, served, recorded, runs, overwrote, failures>>
      <3>1. adm.lastSeen \in {None} \cup Commits /\ adm.watermark \in {None} \cup Commits
        BY StateParts DEF GitTypeOK
      <3> QED
        BY <1>1, <3>1 DEF RetryLoad, RetryHead, history
    <2>2. \A c \in Commits : Unsaved(c)' = Unsaved(c)
      BY <2>1 DEF Unsaved, InJob
    <2>3. GitTypeOK'
      <3>1. overwrote' \in BOOLEAN
        BY <2>1 DEF GitTypeOK
      <3>2. cmd' \in [kind : {"retry"}, head : Commits, base : States]
        BY <2>1 DEF GitTypeOK
      <3> QED
        BY <2>1, <3>1, <3>2 DEF GitTypeOK
    <2>4. AllUntried'
      BY <2>1 DEF AllUntried, Untried
    <2>5. JobCarries'
      BY <2>1, <2>2 DEF JobCarries, InJob, Runnable
    <2>6. OnlyLowered' /\ RunsCounted' /\ WatermarkHolds'
      BY <2>1, <2>2 DEF OnlyLowered, RunsCounted, WatermarkHolds, HoldsDeploy, InJob
    <2> QED
      BY <2>3, <2>4, <2>5, <2>6
  <1>2. CASE RetrySave
    <2> DEFINE st == [cmd.base EXCEPT !.ledger[cmd.head].attempts = 0]
    <2>1. /\ cmd # NoCmd /\ cmd' = NoCmd
          /\ adm' = st /\ overwrote' = (overwrote \/ adm # cmd.base)
          /\ runs' = [runs EXCEPT ![cmd.head] = 0]
          /\ UNCHANGED <<remote, mirror, job, served, recorded, failures>>
      BY <1>2 DEF RetrySave, Save, limits
    <2>2. /\ cmd.base \in States /\ cmd.head \in Commits /\ Untried(cmd.base)
      BY <2>1, JobTyped DEF AllUntried
    <2>3. /\ st \in States /\ st.watermark = cmd.base.watermark
          /\ st.ledger[cmd.head].attempts = 0
          /\ \A c \in Commits \ {cmd.head} : st.ledger[c] = cmd.base.ledger[c]
          /\ Untried(st)
      BY <2>2, AttemptsCleared DEF TakenBack
    <2> HIDE DEF st
    <2>4. \A c \in Commits : Unsaved(c)' = Unsaved(c)
      BY <2>1 DEF Unsaved, InJob
    <2>5. GitTypeOK'
      <3>1. overwrote' \in BOOLEAN
        BY <2>1
      <3>2. runs' \in [Commits -> Nat]
        BY <2>1, <2>2 DEF GitTypeOK
      <3> QED
        BY <2>1, <2>3, <3>1, <3>2 DEF GitTypeOK
    <2>6. AllUntried'
      BY <2>1, <2>3 DEF AllUntried, Untried
    <2>7. JobCarries'
      BY <2>1, <2>4 DEF JobCarries, InJob, Runnable
    <2>8. ~overwrote' => ~overwrote /\ adm = cmd.base
      BY <2>1
    <2>9. ASSUME ~overwrote', NEW c \in Commits
          PROVE  adm'.ledger[c].attempts = IF c = cmd.head THEN 0 ELSE adm.ledger[c].attempts
      BY <2>1, <2>3, <2>8, <2>9
    <2>10. OnlyLowered'
      <3> SUFFICES ASSUME job # NoJob, ~overwrote', NEW c \in Commits
                   PROVE  adm'.ledger[c].attempts <= job.base.ledger[c].attempts
        BY <2>1 DEF OnlyLowered
      <3>1. adm.ledger[c].attempts <= job.base.ledger[c].attempts
        BY <2>8 DEF OnlyLowered
      <3>2. job.base.ledger[c].attempts \in Nat
        BY Counts
      <3> QED
        BY <2>9, <3>1, <3>2
    <2>11. RunsCounted'
      <3> SUFFICES ASSUME ~overwrote', NEW c \in Commits
                   PROVE  runs'[c] <= adm'.ledger[c].attempts + failures' + Unsaved(c)'
        BY DEF RunsCounted
      <3>1. runs[c] <= adm.ledger[c].attempts + failures + Unsaved(c)
        BY <2>8 DEF RunsCounted
      <3>2. runs'[c] = IF c = cmd.head THEN 0 ELSE runs[c]
        BY <2>1, <2>2 DEF GitTypeOK
      <3>3. failures' = failures /\ failures \in Nat /\ Unsaved(c) \in {0, 1}
        BY <2>1, Counts
      <3> QED
        BY <2>4, <2>9, <3>1, <3>2, <3>3
    <2>12. WatermarkHolds'
      BY <2>1, <2>3, <2>8 DEF WatermarkHolds, HoldsDeploy, InJob
    <2> QED
      BY <2>5, <2>6, <2>7, <2>10, <2>11, <2>12
  <1> QED
    BY <1>1, <1>2

\* The parts together.
LEMMA GitStep == GitInv /\ [GitNext]_gitVars => GitInv'
  <1> SUFFICES ASSUME GitInv, [GitNext]_gitVars
               PROVE  GitInv'
    OBVIOUS
  <1>1. CASE StartPoll \/ StartManual
    BY <1>1, StartKeeps
  <1>2. CASE Fetch
    BY <1>2, FetchKeeps
  <1>3. CASE PollGone \/ PollDeduped \/ PollRefuse \/ PollSkip
    BY <1>3, PollSaves
  <1>4. CASE PollDeploy
    BY <1>4, PollDeployKeeps
  <1>5. CASE ManualStep
    BY <1>5, ManualKeeps
  <1>6. CASE SaveJob
    BY <1>6, SaveJobKeeps
  <1>7. CASE CutOff
    BY <1>7, CutOffKeeps
  <1>8. CASE Reset
    BY <1>8, ResetKeeps
  <1>9. CASE RetryLoad \/ RetrySave
    BY <1>9, RetryKeeps
  <1>10. CASE Move \/ UNCHANGED gitVars
    BY <1>10, MoveKeeps
  <1> QED
    BY <1>1, <1>2, <1>3, <1>4, <1>5, <1>6, <1>7, <1>8, <1>9, <1>10 DEF GitNext, JobStep, PollStep

\* What a poll, a manual deploy and a command may rely on in each other's
\* saves (SaveState): the shape of the file, what it counts and what its
\* watermark contains.
THEOREM GitInvariant == GitSpec => []GitInv
  BY GitStarts, GitStep, PTL DEF GitSpec

\* The poll deploys a commit at most three times per clearing of its record,
\* and once more for each run whose save never came (MaxDeployAttempts).
THEOREM CappedAttempts == GitSpec => []AttemptsBounded
  <1>1. GitInv => AttemptsBounded
    <2> SUFFICES ASSUME GitInv, ~overwrote, NEW c \in Commits
                 PROVE  runs[c] <= MaxDeployAttempts + failures
      BY DEF AttemptsBounded
    <2>1. GitTypeOK /\ MaxDeployAttempts \in Nat
      BY GitPollAssumption DEF GitInv
    <2>2. /\ runs[c] <= adm.ledger[c].attempts + failures + Unsaved(c)
          /\ runs[c] \in Nat /\ failures \in Nat
          /\ adm.ledger[c].attempts \in Nat /\ adm.ledger[c].attempts <= MaxDeployAttempts
      BY <2>1, Counts DEF GitInv, RunsCounted
    <2>3. CASE Unsaved(c) = 0
      BY <2>1, <2>2, <2>3
    <2>4. CASE Unsaved(c) = 1
      <3>1. job # NoJob /\ job.pc = "save"
        BY <2>4 DEF Unsaved, InJob
      <3>2. /\ job.st.ledger[c].attempts = job.base.ledger[c].attempts + 1
            /\ adm.ledger[c].attempts <= job.base.ledger[c].attempts
        BY <2>4, <3>1 DEF GitInv, JobCarries, OnlyLowered
      <3>3. /\ job.base.ledger[c].attempts \in Nat
            /\ job.st.ledger[c].attempts <= MaxDeployAttempts
        BY <2>1, <3>1, Counts
      <3> QED
        BY <2>1, <2>2, <2>4, <3>2, <3>3
    <2> QED
      BY <2>1, <2>3, <2>4, Counts
  <1> QED
    BY <1>1, GitInvariant, PTL

\* The poll deploys nothing that does not contain the last deploy on record,
\* whatever moves the branch and whoever deploys between its load and its
\* ancestry check (Poll, IsAncestor).
THEOREM NothingForced == GitSpec => NoForcedDeploy
  <1>1. GitInv /\ [GitNext]_gitVars =>
           [PollDeploys /\ ~overwrote /\ recorded # None => Descends(job.head, recorded)]_gitVars
    <2> SUFFICES ASSUME GitInv, GitNext, PollDeploys, ~overwrote, recorded # None
                 PROVE  Descends(job.head, recorded)
      OBVIOUS
    <2>1. /\ job # NoJob /\ job.kind = "poll" /\ job.pc = "fetched"
          /\ job' # NoJob /\ job'.pc = "save"
      BY DEF PollDeploys
    <2>2. PollDeploy
      <3>1. job' # job
        BY <2>1
      <3>2. ~StartPoll /\ ~StartManual /\ ~Fetch /\ ~ManualStep
        BY <2>1 DEF StartPoll, StartManual, Fetch, ManualStep, ManualDeploy, RecordManual
      <3>3. ~(PollGone \/ PollDeduped \/ PollRefuse \/ PollSkip \/ SaveJob \/ CutOff)
        BY <2>1 DEF PollGone, PollDeduped, PollRefuse, PollSkip, SaveJob, CutOff
      <3>4. ~(Reset \/ RetryLoad \/ RetrySave \/ Move)
        BY <3>1 DEF Reset, RetryLoad, RetrySave, Move
      <3> QED
        BY <3>2, <3>3, <3>4 DEF GitNext, JobStep, PollStep
    <2>3. /\ job.head \in Commits /\ recorded \in Commits
          /\ job.st.watermark \in Commits
          /\ Descends(job.st.watermark, recorded)
      <3>1. job.st.watermark # None /\ Descends(job.st.watermark, recorded)
        BY <2>1 DEF GitInv, WatermarkHolds, HoldsDeploy, InJob
      <3>2. job.head \in Commits /\ recorded \in {None} \cup Commits
        BY <2>1 DEF GitInv, JobCarries, GitTypeOK
      <3>3. job.st.watermark \in {None} \cup Commits
        BY <2>1, JobTyped, StateParts DEF GitInv
      <3> QED
        BY <3>1, <3>2, <3>3
    <2>4. Descends(job.head, job.st.watermark)
      BY <2>2, <2>3, GitPollAssumption DEF PollDeploy, Rewritten, None
    <2> QED
      BY <2>3, <2>4, Ancestry
  <1> QED
    BY <1>1, GitInvariant, PTL DEF GitSpec, NoForcedDeploy
===============================================================================
