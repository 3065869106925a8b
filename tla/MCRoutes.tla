------------------------------- MODULE MCRoutes -------------------------------
(***************************************************************************)
(* What moves an app's route after its deploys: the edits of the Caddyfile *)
(* every app of the server is in, and the rollbacks of one app.  A         *)
(* behaviour moves one of the two, its scene, and the other rests: a       *)
(* rollback sees a route edit as the one step CaddyEdit's edits promise.   *)
(***************************************************************************)
EXTENDS MCCaddyEdit, Rollback

CONSTANTS p1, p2

VARIABLE scene

RouteSymmetry == Permutations({p1, p2}) \cup Permutations({d, e})

MCInit ==
    /\ scene \in {"edit", "rollback"}
    /\ Init /\ RbInit
    /\ scene = "edit" => ingress = "host"

MCNext ==
    \/ scene = "edit" /\ Next /\ UNCHANGED <<scene, rbVars>>
    \/ scene = "rollback" /\ RbNext /\ UNCHANGED <<scene, vars>>

MCSpec == MCInit /\ [][MCNext]_<<scene, vars, rbVars>>

\* The edits and the rollbacks stay in their types.
RoutesTypeOK == TypeOK /\ RbTypeOK
=============================================================================
