----------------------------- MODULE MCRevision -----------------------------
(* Two tabs, each with its own gestures. *)
EXTENDS RevisionProtocol, TLC

CONSTANTS c1, c2, p1, p2

OneOwner == p1 :> c1
TwoOwners == (p1 :> c1) @@ (p2 :> c2)
=============================================================================
