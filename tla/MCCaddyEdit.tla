----------------------------- MODULE MCCaddyEdit -----------------------------
(* Two edits of one app and one of another.                                *)
EXTENDS CaddyEdit, TLC

CONSTANTS d, e, f, x, y

MCAppOf == d :> x @@ e :> x @@ f :> y
=============================================================================
