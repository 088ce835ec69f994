----------------------------- MODULE MCIdempotency -----------------------------
(* Small instances of Idempotency. *)
EXTENDS Idempotency, TLC

CONSTANTS k1, i1, i2, i3, b1, b2, patch
================================================================================
