----------------------------- MODULE MCExecutor -----------------------------
(***************************************************************************)
(* The two pools of the process: the executor of overlays, with four calls *)
(* for two keys, one more than a pool of two and a queue of one take; and  *)
(* the pool that delivers webhooks, with two events for two endpoints, one *)
(* of them reconfigured by a restart.  A behaviour is of one of them, and  *)
(* nothing is to be done for the other.                                    *)
(***************************************************************************)
EXTENDS OverlayExecutor, Webhooks, TLC

CONSTANTS i1, i2, i3, i4, k1, k2, o1, o2, t1, t2

VARIABLE part  \* the one that this behaviour is of

TwoKeys == (i1 :> k1) @@ (i2 :> k1) @@ (i3 :> k1) @@ (i4 :> k2)

TwoEvents == (o1 :> "set_end") @@ (o2 :> "match_end")
TwoWishes == (t1 :> {"match_end"}) @@ (t2 :> {"set-end"})
TwoConfigs == {[json |-> {t1, t2}, url |-> {}], [json |-> {}, url |-> {t1}]}

PoolsNext ==
  /\ \/ part = "overlays" /\ Next /\ UNCHANGED hookVars
     \/ part = "webhooks" /\ HooksNext /\ UNCHANGED vars
  /\ UNCHANGED part

PoolsInit == Init /\ HooksInit /\ part \in {"overlays", "webhooks"}

PoolsSpec == PoolsInit /\ [][PoolsNext]_<<part, vars, hookVars>> /\ Fairness /\ HooksFairness
=============================================================================
