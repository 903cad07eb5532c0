----------------------------- MODULE KeyedFifo -----------------------------
(***************************************************************************)
(* What the overlay executor promises its callers: the work of one key is  *)
(* started in the order it was accepted and never overlaps, no more than a *)
(* fixed amount of work is accepted and unfinished at a time, and work may *)
(* be dropped, the newest first, but never reordered.                      *)
(***************************************************************************)
EXTENDS Integers, Sequences, FiniteSets

CONSTANTS Items, Keys, KeyOf, Capacity

VARIABLES
  waiting,  \* per key: work accepted and not started, oldest first
  active    \* work under way

Accepted == active \cup UNION {{waiting[k][j] : j \in DOMAIN waiting[k]} : k \in Keys}

Init == waiting = [k \in Keys |-> <<>>] /\ active = {}

Accept(i) ==
  /\ i \notin Accepted /\ Cardinality(Accepted) < Capacity
  /\ waiting' = [waiting EXCEPT ![KeyOf[i]] = Append(@, i)]
  /\ UNCHANGED active

Start(k) ==
  /\ waiting[k] # <<>> /\ \A i \in active : KeyOf[i] # k
  /\ active' = active \cup {Head(waiting[k])}
  /\ waiting' = [waiting EXCEPT ![k] = Tail(@)]

End(i) == i \in active /\ active' = active \ {i} /\ UNCHANGED waiting

Drop ==
  /\ \E kept \in [Keys -> 0..Capacity] :
       /\ \A k \in Keys : kept[k] <= Len(waiting[k])
       /\ waiting' = [k \in Keys |-> SubSeq(waiting[k], 1, kept[k])]
  /\ UNCHANGED active

Next == (\E i \in Items : Accept(i) \/ End(i)) \/ (\E k \in Keys : Start(k)) \/ Drop

Spec == Init /\ [][Next]_<<waiting, active>>
=============================================================================
