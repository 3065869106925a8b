-------------------------------- MODULE Lease --------------------------------
(***************************************************************************)
(* What the per-app lock promises its operations: a lease that names one   *)
(* of them at a time, is granted to each at most once, and may be taken    *)
(* away at any moment.  An operation that was not told so still acts as    *)
(* its holder; whoever acts on the lease asks first whom it names.         *)
(***************************************************************************)
CONSTANTS Clients, NoOne

VARIABLES
  holder,    \* whom the lease names
  phase,     \* "fresh" before its grant, "in" while it acts as holder, "out" after
  poisoned   \* the clients that know they lost it

leaseVars == <<holder, phase, poisoned>>

Init ==
  /\ holder = NoOne
  /\ phase = [c \in Clients |-> "fresh"]
  /\ poisoned = {}

Move(c, from, to) == phase[c] = from /\ phase' = [phase EXCEPT ![c] = to]

\* The lease is granted, to whoever was not granted it before.
Grant(c) ==
  /\ Move(c, "fresh", "in")
  /\ holder' = c
  /\ UNCHANGED poisoned

\* A client gives up acquiring; of a grant it was not told of it stays the name.
GiveUp(c) ==
  /\ Move(c, "fresh", "out")
  /\ holder' \in {holder, c}
  /\ UNCHANGED poisoned

\* A holder leaves: what it gives back is its own, or it dies with the lease.
Leave(c) ==
  /\ Move(c, "in", "out")
  /\ holder' = holder \/ (holder = c /\ holder' = NoOne)
  /\ UNCHANGED poisoned

\* The lease is taken from whoever has it.
Revoke ==
  /\ holder' = NoOne
  /\ UNCHANGED <<phase, poisoned>>

\* A holder learns that it has lost the lease, and only then.
Learn(c) ==
  /\ phase[c] = "in" /\ holder # c
  /\ poisoned' = poisoned \cup {c}
  /\ UNCHANGED <<holder, phase>>

Next == Revoke \/ \E c \in Clients : Grant(c) \/ GiveUp(c) \/ Leave(c) \/ Learn(c)

Spec == Init /\ [][Next]_leaseVars
=============================================================================
