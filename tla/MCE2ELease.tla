----------------------------- MODULE MCE2ELease -----------------------------
(* Three runners; two of them were started with the same lock ID. *)
EXTENDS E2ELease, TLC

CONSTANTS r1, r2, r3

LockID == (r1 :> "ci") @@ (r2 :> "ci") @@ (r3 :> "dev")
=============================================================================
