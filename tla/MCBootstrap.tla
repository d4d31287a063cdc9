----------------------------- MODULE MCBootstrap -----------------------------
(* The default pool, the fallback pool and a pool whose name sorts after   *)
(* theirs; only the last is given new templates.                           *)
EXTENDS Bootstrap, TLC

CONSTANTS default, fallback, other

Order == <<default, fallback, other>>
OneRollout == default :> 1 @@ fallback :> 1 @@ other :> 2
=============================================================================
