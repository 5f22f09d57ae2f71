-------------------------- MODULE MCBackgroundTasks --------------------------
(* A small instance of BackgroundTasks for TLC: two tasks and one slot.      *)
EXTENDS BackgroundTasks, TLC

CONSTANTS t1, t2, own1, own2

OwnSites == (t1 :> own1) @@ (t2 :> own2)
Lives ==
  (t1 :> Events) @@ (t2 :> {"cancel"})
Undisturbed == (t1 :> {}) @@ (t2 :> {})
=============================================================================
