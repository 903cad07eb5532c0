-------------------------------- MODULE MCTab --------------------------------
(***************************************************************************)
(* The tabs of operators: what one of them keeps of two boards, of which   *)
(* one is a set ahead; and the connections of two of them to the hub of a  *)
(* board, one tab connecting a second time.  The two share nothing but the *)
(* server, which each model has for itself: a behaviour is of one of them, *)
(* and the other stays as it began.                                        *)
(***************************************************************************)
EXTENDS OperatorTab, ConnectionHub, TLC

CONSTANTS b1, b2, s1, s2, s3

VARIABLES
  part  \* the one that this behaviour is of

OneAhead == {start \in [Boards -> 0..1] : start[b1] # start[b2]}

TabOf == [s \in Sockets |-> s = s3]

Symmetric == {f @@ g : f \in Permutations(Boards), g \in Permutations({s1, s2})}

\* One of the tab's initial states is enough for the hub.
TabsInit ==
  /\ Init /\ HubInit
  /\ part \in {"tab", "hub"} /\ (part = "hub" => match[oid].sets = 0)

TabsNext ==
  /\ \/ part = "tab" /\ Next /\ UNCHANGED hubVars
     \/ part = "hub" /\ HubNext /\ UNCHANGED vars
  /\ UNCHANGED part

TabsSpec == TabsInit /\ [][TabsNext]_<<part, vars, hubVars>>
=============================================================================
