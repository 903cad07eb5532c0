---------------------------- MODULE MCLifecycle ----------------------------
(* One board that is scored, opened, deleted and created again, beside one   *)
(* that only the deletion of the account touches; and two requests that      *)
(* score one board while another is deleted, and then the account.           *)
EXTENDS OverlayLifecycle, TLC

CONSTANTS b1, b2, m1, m2, o1, l1, d2, a1

Together == (m1 :> b2) @@ (o1 :> b2) @@ (l1 :> b2) @@ (d2 :> b2)
Apart == (m1 :> b1) @@ (m2 :> b1) @@ (d2 :> b2)
=============================================================================
