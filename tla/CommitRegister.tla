--------------------------- MODULE CommitRegister ---------------------------
(***************************************************************************)
(* What an app's committed state promises its operations: a register that  *)
(* a writer replaces only when it still holds the value that writer read.  *)
(***************************************************************************)
CONSTANTS Writers, Values, Initial

VARIABLES
  value,   \* the committed value
  seen     \* the value each writer last read

registerVars == <<value, seen>>

Init ==
  /\ value = Initial
  /\ seen = [w \in Writers |-> Initial]

Read(w) ==
  /\ seen' = [seen EXCEPT ![w] = value]
  /\ UNCHANGED value

\* Compare and swap: the writer's read is still current.
Replace(w) ==
  /\ seen[w] = value
  /\ value' \in Values
  /\ UNCHANGED seen

\* The value is withdrawn and the register is as it was at first.
Reset ==
  /\ value' = Initial
  /\ UNCHANGED seen

Next == Reset \/ \E w \in Writers : Read(w) \/ Replace(w)

Spec == Init /\ [][Next]_registerVars
=============================================================================
