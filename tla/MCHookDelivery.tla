---------------------------- MODULE MCHookDelivery -----------------------------
(* Small instances of HookDelivery. *)
EXTENDS HookDelivery

MCBudgets ==
  {[entry |-> 3, crash |-> 0, reset |-> 0, install |-> 0],
   [entry |-> 2, crash |-> 1, reset |-> 1, install |-> 0],
   [entry |-> 2, crash |-> 0, reset |-> 0, install |-> 1]}
================================================================================
