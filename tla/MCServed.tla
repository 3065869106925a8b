-------------------------------- MODULE MCServed --------------------------------
(***************************************************************************)
(* What is kept of an app: the state its commits publish, the repository   *)
(* of its settings and its backups in the object store.  A behaviour moves *)
(* one of the three, its scene, and the others rest: the marker that ties  *)
(* the first two is a commit FencedState shows to be one step, and no      *)
(* backup or prune takes the app's lock or writes its state.               *)
(***************************************************************************)
EXTENDS MCFencedState, ConfigHome, Retention

VARIABLE scene

Whole(i, d) ==
    {[id |-> i, date |-> d, part |-> s, bad |-> FALSE] : s \in {"root", "db", "globals"}}
Empty(i, d) == [id |-> i, date |-> d, part |-> "root", bad |-> TRUE]
Keep(count, hours, daily, weekly) ==
    [last |-> count, age |-> hours,
     per |-> [rule \in Rules |-> IF rule = "daily" THEN daily ELSE weekly]]

\* The last one, beside a backup a wrong clock dated far ahead; everything of two
\* hours, the last day and two weeks, beside an empty dump.
LastOrByCalendar ==
    {[policy |-> Keep(1, 0, 0, 0), past |-> Whole(-2, -2) \cup Whole(-1, 6)],
     [policy |-> Keep(0, 2, 1, 2), past |-> Whole(-2, -3) \cup {Empty(-1, -2)}]}

DaysAndWeeks == [rule \in Rules |-> IF rule = "daily" THEN 2 ELSE 4]

\* A clock behind within what a prune accepts, and one far ahead.
BehindOrFarAhead == {-1, 2}

NoBackups ==
    /\ policy = Keep(0, 0, 0, 0) /\ store = {} /\ ever = {} /\ clock = 0
    /\ run = [r \in Runs |-> NoRun] /\ ids = 0 /\ outages = 0 /\ torn = {}

MCInit ==
    /\ Init /\ ConfInit
    /\ \/ scene = "config" /\ NoBackups
       \/ scene = "state" /\ marker = "none" /\ NoBackups
       \/ scene = "backups" /\ marker = "none" /\ RetInit

MCNext ==
    \/ scene = "state" /\ Next /\ UNCHANGED <<scene, confVars, retVars>>
    \/ scene = "config" /\ ConfNext /\ UNCHANGED <<scene, vars, retVars>>
    \/ scene = "backups" /\ RetNext /\ UNCHANGED <<scene, vars, confVars>>

MCSpec == MCInit /\ [][MCNext]_<<scene, vars, confVars, retVars>>

\* The state, its lock, the settings and the store stay in their types, tries included.
ServedTypeOK == TypeOK /\ ConfTypeOK /\ RetTypeOK
=============================================================================
