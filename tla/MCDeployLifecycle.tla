-------------------------- MODULE MCDeployLifecycle --------------------------
(* Two deploys of an app over what a founder left on the target.           *)
EXTENDS DeployLifecycle, TLC

CONSTANTS a, b, v1, v2, v3

Of(ver, worker, recreate, caddy) ==
  [ver |-> ver, worker |-> worker, recreate |-> recreate, caddy |-> caddy]
Caddy(ver, worker) == Of(ver, worker, FALSE, TRUE)
External(ver) == Of(ver, FALSE, FALSE, FALSE)
Published(ver) == Of(ver, FALSE, TRUE, TRUE)

Planned(first, x, y) == Founder :> first @@ a :> x @@ b :> y

\* A new release each, a worker dropped; a redeploy of what serves, and then of
\* something else or of that again; the same first release twice; a route left
\* behind; a published port behind a route, twice replaced by the same release.
Cases ==
  {Planned(Caddy(v1, TRUE), Caddy(v2, FALSE), Caddy(v3, FALSE)),
   Planned(Caddy(v1, FALSE), Caddy(v1, FALSE), Caddy(v2, FALSE)),
   Planned(Caddy(v1, FALSE), Caddy(v1, FALSE), Caddy(v1, FALSE)),
   Planned(Caddy(NoVer, FALSE), Caddy(v1, TRUE), Caddy(v1, FALSE)),
   Planned(Caddy(v1, FALSE), External(v2), Caddy(v2, FALSE)),
   Planned(Published(v1), Published(v2), Published(v2))}

\* Each with the deploys' parts exchanged, so that the two are alike.
MCPlans == Cases \cup {Planned(c[Founder], c[b], c[a]) : c \in Cases}
DeploySymmetry == Permutations({a, b})
=============================================================================
