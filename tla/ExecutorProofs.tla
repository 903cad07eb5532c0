--------------------------- MODULE ExecutorProofs ---------------------------
(***************************************************************************)
(* What holds of the work that an answered request leaves behind: of the   *)
(* executor for any number of calls, keys, threads of the pool and places  *)
(* in the queue; of the webhooks for any occurrences, endpoints, threads,  *)
(* replays, stops and room in the dead-letter file; of the copies of the   *)
(* action log, whatever the size of their window, the boards, the          *)
(* mutations and the outages.                                              *)
(***************************************************************************)
EXTENDS OverlayExecutor, Webhooks, AuditFeed, FiniteSetTheorems, FunctionTheorems, SequenceTheorems, TLAPS

Active == {"assigned", "running", "ended", "released"}
Pending == {"queued", "assigned", "running", "ended", "released"}

\* The sections under the condition pass Dispatch what they found and changed, so
\* what has to hold of it is said of the values and not of the variables.
Types(q, r, b, st) ==
  /\ q \in [Keys -> Seq(Items)] /\ r \in Seq(Keys) /\ b \subseteq Keys
  /\ st \in [Items -> Stages]
  /\ Cardinality(b) <= Workers

Distinct(s) == \A j, m \in DOMAIN s : s[j] = s[m] => j = m

\* The queues hold the queued items, each once and under its key.
Queued(q, st) ==
  /\ \A k \in Keys : \A j \in DOMAIN q[k] : st[q[k][j]] = "queued" /\ KeyOf[q[k][j]] = k
  /\ \A k \in Keys : Distinct(q[k])
  /\ \A i \in Items : st[i] = "queued" =>
        \E j \in DOMAIN q[KeyOf[i]] : q[KeyOf[i]][j] = i

\* A key is ready if it has work and no worker, and is listed once.
Listed(r, k) == \E j \in DOMAIN r : r[j] = k

ReadyKeys(q, r, b) ==
  /\ Distinct(r)
  /\ \A k \in Keys : Listed(r, k) <=> q[k] # <<>> /\ k \notin b

\* A busy key has exactly one item with a worker.
BusyKeys(b, st) ==
  /\ \A i \in Items : st[i] \in Active => KeyOf[i] \in b
  /\ \A k \in b : \E i \in Items : st[i] \in Active /\ KeyOf[i] = k
  /\ \A i, m \in Items :
        st[i] \in Active /\ st[m] \in Active /\ KeyOf[i] = KeyOf[m] => i = m

Good(q, r, b, st) ==
  Types(q, r, b, st) /\ Queued(q, st) /\ ReadyKeys(q, r, b) /\ BusyKeys(b, st)

-----------------------------------------------------------------------------
\* Dispatching.

LEMMA MinOfTwo ==
  ASSUME NEW a \in Int, NEW b \in Int
  PROVE  Min({a, b}) = IF a <= b THEN a ELSE b
<1> DEFINE m == IF a <= b THEN a ELSE b
<1>1. m \in {a, b} /\ \A y \in {a, b} : m <= y
  OBVIOUS
<1>2. \A x \in {a, b} : (\A y \in {a, b} : x <= y) => x = m
  OBVIOUS
<1> HIDE DEF m
<1>3. Min({a, b}) \in {a, b} /\ \A y \in {a, b} : Min({a, b}) <= y
  BY <1>1 DEF Min
<1>4. Min({a, b}) = m
  BY <1>2, <1>3
<1> QED
  BY <1>4 DEF m

LEMMA KeysFinite ==
  ASSUME NEW b, b \subseteq Keys
  PROVE  IsFiniteSet(b) /\ Cardinality(b) \in Nat
BY ExecutorAssumption, FS_Subset, FS_CardinalityType

\* How many of the ready keys get a worker.
LEMMA Started ==
  ASSUME NEW q, NEW r, NEW b, NEW st, Types(q, r, b, st),
         NEW n, n = Min({Len(r), Workers - Cardinality(b)})
  PROVE  /\ n \in Nat /\ n <= Len(r) /\ n + Cardinality(b) <= Workers
         /\ n < Len(r) => n + Cardinality(b) = Workers
<1>1. Len(r) \in Nat /\ Cardinality(b) \in Nat /\ Cardinality(b) <= Workers /\ Workers \in Nat
  BY KeysFinite, ExecutorAssumption DEF Types
<1>2. Workers - Cardinality(b) \in Int
  BY <1>1
<1>3. n = IF Len(r) <= Workers - Cardinality(b) THEN Len(r) ELSE Workers - Cardinality(b)
  BY <1>1, <1>2, MinOfTwo
<1> QED
  BY <1>1, <1>3

FirstOf(r, n) == {r[j] : j \in 1..n}

\* Different places of a list without repetitions name different keys.
LEMMA FirstKeys ==
  ASSUME NEW r \in Seq(Keys), Distinct(r),
         NEW n \in Nat, n <= Len(r)
  PROVE  IsFiniteSet(FirstOf(r, n)) /\ Cardinality(FirstOf(r, n)) = n
<1> DEFINE go == FirstOf(r, n)
           f == [j \in 1..n |-> r[j]]
<1>1. 1..n \subseteq DOMAIN r
  OBVIOUS
<1>2. f \in Bijection(1..n, go)
  BY <1>1 DEF Bijection, Injection, Surjection, IsInjective, Distinct, FirstOf
<1>3. IsFiniteSet(1..n) /\ Cardinality(1..n) = n
  BY FS_Interval
<1> HIDE DEF go, f
<1>4. ExistsBijection(1..n, go)
  BY <1>2 DEF ExistsBijection
<1> QED
  BY <1>3, <1>4, FS_Bijection DEF go

\* The ready keys that have to wait are the others.
LEMMA OtherKeys ==
  ASSUME NEW r \in Seq(Keys), Distinct(r),
         NEW n \in Nat, n <= Len(r), NEW rest, rest = SubSeq(r, n + 1, Len(r))
  PROVE  /\ rest \in Seq(Keys) /\ (rest # <<>> => n < Len(r))
         /\ Distinct(rest)
         /\ \A k : Listed(rest, k) <=> Listed(r, k) /\ k \notin FirstOf(r, n)
<1>0. /\ rest \in Seq(Keys) /\ Len(rest) = Len(r) - n
      /\ Len(r) \in Nat /\ n \in Nat /\ n <= Len(r)
      /\ DOMAIN rest = 1..(Len(r) - n) /\ DOMAIN r = 1..Len(r)
      /\ \A j \in DOMAIN rest : rest[j] = r[j + n]
  OBVIOUS
<1>1. /\ \A j \in DOMAIN rest : j \in Nat /\ j > 0 /\ j + n \in DOMAIN r /\ rest[j] = r[j + n]
      /\ \A j \in DOMAIN r : j \in Nat /\ (j > n => j - n \in DOMAIN rest)
  BY ONLY <1>0
<1>2. Distinct(rest)
  BY <1>1 DEF Distinct
<1>3. ASSUME NEW k, Listed(rest, k)
      PROVE  Listed(r, k) /\ k \notin FirstOf(r, n)
  <2>1. PICK j \in DOMAIN rest : rest[j] = k
    BY <1>3 DEF Listed
  <2>2. j + n \in DOMAIN r /\ r[j + n] = k
    BY <1>1, <2>1
  <2>3. \A m \in 1..n : m \in DOMAIN r /\ m # j + n
    BY ONLY <1>0, <1>1, <2>1
  <2> QED
    BY <2>2, <2>3 DEF Listed, Distinct, FirstOf
<1>4. ASSUME NEW k, Listed(r, k), k \notin FirstOf(r, n)
      PROVE  Listed(rest, k)
  <2>1. PICK j \in DOMAIN r : r[j] = k
    BY <1>4 DEF Listed
  <2>2. j \notin 1..n
    BY <1>4, <2>1 DEF FirstOf
  <2>3. j - n \in DOMAIN rest /\ j = (j - n) + n
    BY <1>1, <2>1, <2>2
  <2>4. rest[j - n] = k
    BY <1>1, <2>1, <2>3
  <2> QED
    BY <2>3, <2>4 DEF Listed
<1>5. \A k : Listed(rest, k) <=> Listed(r, k) /\ k \notin FirstOf(r, n)
  BY <1>3, <1>4
<1>6. rest # <<>> => n < Len(r)
  BY ONLY <1>0
<1> QED
  BY <1>0, <1>2, <1>5, <1>6

\* The oldest item of a queue, and what is left of the queue without it.
LEMMA Oldest ==
  ASSUME NEW s \in Seq(Items), s # <<>>
  PROVE  /\ 1 \in DOMAIN s /\ Head(s) = s[1] /\ s[1] \in Items
         /\ Tail(s) \in Seq(Items)
         /\ \A j \in DOMAIN Tail(s) : j + 1 \in DOMAIN s /\ j + 1 # 1 /\ Tail(s)[j] = s[j + 1]
         /\ \A j \in DOMAIN s : j # 1 => j - 1 \in DOMAIN Tail(s) /\ Tail(s)[j - 1] = s[j]
OBVIOUS

\* Dispatch keeps the books, moves items from the queues to workers and nothing
\* else, and leaves a key waiting only if every worker is busy.
LEMMA DispatchStep ==
  ASSUME NEW q, NEW r, NEW b, NEW st, Good(q, r, b, st), Dispatch(q, r, b, st)
  PROVE  /\ Good(queues', ready', busy', stage')
         /\ \A i \in Items : \/ stage'[i] = st[i]
                             \/ st[i] = "queued" /\ stage'[i] = "assigned"
         /\ ready' # <<>> => Cardinality(busy') = Workers
         /\ \A k \in Keys :
              \/ /\ queues'[k] = q[k]
                 /\ \A i \in Items : KeyOf[i] = k => stage'[i] = st[i]
              \/ /\ k \notin b /\ q[k] # <<>>
                 /\ queues'[k] = Tail(q[k]) /\ stage'[Head(q[k])] = "assigned"
<1> DEFINE n == Min({Len(r), Workers - Cardinality(b)})
           go == {r[j] : j \in 1..n}
           first == {Head(q[k]) : k \in go}
<1>1. /\ queues' = [k \in Keys |-> IF k \in go THEN Tail(q[k]) ELSE q[k]]
      /\ ready' = SubSeq(r, n + 1, Len(r))
      /\ busy' = b \cup go
      /\ stage' = [i \in Items |-> IF i \in first THEN "assigned" ELSE st[i]]
  BY DEF Dispatch
<1>2. /\ q \in [Keys -> Seq(Items)] /\ r \in Seq(Keys) /\ b \subseteq Keys
      /\ st \in [Items -> Stages]
  BY DEF Good, Types
<1>3. /\ n \in Nat /\ n <= Len(r) /\ n + Cardinality(b) <= Workers
      /\ n < Len(r) => n + Cardinality(b) = Workers
  BY Started DEF Good
<1>4. Distinct(r)
  BY DEF Good, ReadyKeys
<1> HIDE DEF n
<1>5. IsFiniteSet(go) /\ Cardinality(go) = n
  BY <1>2, <1>3, <1>4, FirstKeys DEF FirstOf
<1>6. /\ ready' \in Seq(Keys) /\ (ready' # <<>> => n < Len(r))
      /\ Distinct(ready')
      /\ \A k : Listed(ready', k) <=> Listed(r, k) /\ k \notin go
  <2>1. ready' = SubSeq(r, n + 1, Len(r)) /\ r \in Seq(Keys) /\ n \in Nat /\ n <= Len(r)
    BY <1>1, <1>2, <1>3
  <2>2. go = FirstOf(r, n)
    BY DEF FirstOf
  <2> HIDE DEF go
  <2> QED
    <3> DEFINE rest == SubSeq(r, n + 1, Len(r))
    <3>1. rest = SubSeq(r, n + 1, Len(r)) /\ rest = ready'
      BY <2>1
    <3> HIDE DEF rest
    <3>2. rest \in Seq(Keys)
      BY ONLY <1>4, <2>1, <2>2, <3>1, OtherKeys
    <3>3. rest # <<>> => n < Len(r)
      BY ONLY <1>4, <2>1, <2>2, <3>1, OtherKeys
    <3>4. Distinct(rest)
      BY ONLY <1>4, <2>1, <2>2, <3>1, OtherKeys
    <3>5. ASSUME NEW k
          PROVE Listed(rest, k) <=> Listed(r, k) /\ k \notin go
      BY ONLY <1>4, <2>1, <2>2, <3>1, OtherKeys
    <3> QED
      BY <3>1, <3>2, <3>3, <3>4, <3>5
<1>7. \A k \in go : k \in Keys /\ Listed(r, k)
  BY <1>2, <1>3 DEF Listed
<1> HIDE DEF go
<1>8. \A k \in go : k \in Keys /\ k \notin b /\ q[k] \in Seq(Items) /\ q[k] # <<>>
  BY <1>2, <1>7 DEF Good, ReadyKeys
<1>9. \A k \in go : /\ Head(q[k]) = q[k][1] /\ 1 \in DOMAIN q[k] /\ q[k][1] \in Items
                    /\ st[q[k][1]] = "queued" /\ KeyOf[q[k][1]] = k
  BY <1>8, Oldest DEF Good, Queued
<1>10. \A i \in first : /\ i \in Items /\ st[i] = "queued" /\ KeyOf[i] \in go
                        /\ i = q[KeyOf[i]][1]
  BY <1>9
<1>11. \A k \in go : q[k][1] \in first
  BY <1>9
<1> HIDE DEF first
<1>12. Cardinality(busy') = n + Cardinality(b)
  <2>1. b \cap go = {} /\ IsFiniteSet(b) /\ Cardinality(b) \in Nat
    BY <1>2, <1>8, KeysFinite
  <2>2. Cardinality(b \cap go) = 0
    BY <2>1, FS_EmptySet
  <2>3. Cardinality(b \cup go) = Cardinality(b) + Cardinality(go) - Cardinality(b \cap go)
    BY <1>5, <2>1, FS_Union
  <2> QED
    BY <1>1, <1>3, <1>5, <2>1, <2>2, <2>3
<1>13. Types(queues', ready', busy', stage')
  <2>1. queues' \in [Keys -> Seq(Items)]
    BY <1>1, <1>2, <1>8, Oldest
  <2>2. stage' \in [Items -> Stages]
    BY <1>1, <1>2 DEF Stages
  <2> QED
    BY <1>1, <1>2, <1>3, <1>6, <1>8, <1>12, <2>1, <2>2 DEF Types
<1>14. Queued(queues', stage')
  <2>1. ASSUME NEW k \in go
        PROVE  /\ \A j \in DOMAIN queues'[k] : /\ queues'[k][j] \in Items
                                               /\ queues'[k][j] \notin first
                                               /\ st[queues'[k][j]] = "queued"
                                               /\ KeyOf[queues'[k][j]] = k
               /\ Distinct(queues'[k])
               /\ \A j \in DOMAIN q[k] : q[k][j] \notin first =>
                     \E m \in DOMAIN queues'[k] : queues'[k][m] = q[k][j]
    <3>1. queues'[k] = Tail(q[k]) /\ k \in Keys /\ q[k] \in Seq(Items) /\ q[k] # <<>>
      BY <1>1, <1>8
    <3>2. \A j \in DOMAIN queues'[k] : /\ j + 1 \in DOMAIN q[k] /\ j + 1 # 1
                                       /\ queues'[k][j] = q[k][j + 1] /\ j \in Int
      BY <3>1, Oldest
    <3>3. /\ \A j \in DOMAIN q[k] : st[q[k][j]] = "queued" /\ KeyOf[q[k][j]] = k
          /\ Distinct(q[k])
      BY <3>1 DEF Good, Queued
    <3>4. \A j \in DOMAIN q[k] : q[k][j] \in Items
      BY <3>1
    <3>5. \A j \in DOMAIN queues'[k] : queues'[k][j] \notin first
      BY <1>9, <1>10, <3>2, <3>3 DEF Distinct
    <3>6. \A j \in DOMAIN q[k] : q[k][j] \notin first =>
             \E m \in DOMAIN queues'[k] : queues'[k][m] = q[k][j]
      <4>1. \A j \in DOMAIN q[k] : q[k][j] \notin first => j # 1
        BY <1>11, <2>1
      <4>2. ASSUME NEW j \in DOMAIN q[k], q[k][j] \notin first
            PROVE  j - 1 \in DOMAIN Tail(q[k]) /\ Tail(q[k])[j - 1] = q[k][j]
        BY <3>1, <4>1, <4>2, Oldest
      <4> QED
        BY <3>1, <4>2
    <3>7. Distinct(queues'[k])
      BY <3>2, <3>3 DEF Distinct
    <3> QED
      BY <3>2, <3>3, <3>4, <3>5, <3>6, <3>7
  <2>2. ASSUME NEW k \in Keys, k \notin go
        PROVE  /\ queues'[k] = q[k]
               /\ \A j \in DOMAIN q[k] : /\ q[k][j] \in Items /\ q[k][j] \notin first
                                         /\ st[q[k][j]] = "queued" /\ KeyOf[q[k][j]] = k
    <3>1. queues'[k] = q[k] /\ q[k] \in Seq(Items)
      BY <1>1, <1>2, <2>2
    <3>2. \A j \in DOMAIN q[k] : st[q[k][j]] = "queued" /\ KeyOf[q[k][j]] = k
      BY DEF Good, Queued
    <3> QED
      BY <1>10, <2>2, <3>1, <3>2
  <2>3. \A i \in Items : i \notin first => stage'[i] = st[i]
    BY <1>1
  <2>4. \A k \in Keys : \A j \in DOMAIN queues'[k] :
           stage'[queues'[k][j]] = "queued" /\ KeyOf[queues'[k][j]] = k
    BY <2>1, <2>2, <2>3
  <2>5. \A k \in Keys : Distinct(queues'[k])
    BY <2>1, <2>2 DEF Good, Queued
  <2>6. ASSUME NEW i \in Items, stage'[i] = "queued"
        PROVE  \E j \in DOMAIN queues'[KeyOf[i]] : queues'[KeyOf[i]][j] = i
    <3>1. i \notin first /\ st[i] = "queued" /\ KeyOf[i] \in Keys
      BY <1>1, <2>6, ExecutorAssumption
    <3>2. PICK j \in DOMAIN q[KeyOf[i]] : q[KeyOf[i]][j] = i
      BY <3>1 DEF Good, Queued
    <3> QED
      BY <2>1, <2>2, <3>1, <3>2
  <2> QED
    BY <2>4, <2>5, <2>6 DEF Queued
<1>15. ReadyKeys(queues', ready', busy')
  <2>1. \A k \in Keys : Listed(ready', k) <=> queues'[k] # <<>> /\ k \notin busy'
    BY <1>1, <1>6 DEF Good, ReadyKeys
  <2> QED
    BY <1>6, <2>1 DEF ReadyKeys
<1>16. BusyKeys(busy', stage')
  <2>1. \A i \in Items : stage'[i] \in Active <=> st[i] \in Active \/ i \in first
    BY <1>1 DEF Active
  <2>2. \A i \in Items : stage'[i] \in Active => KeyOf[i] \in busy'
    BY <1>1, <1>10, <2>1 DEF Good, BusyKeys
  <2>3. \A k \in busy' : \E i \in Items : stage'[i] \in Active /\ KeyOf[i] = k
    BY <1>1, <1>9, <1>11, <2>1 DEF Good, BusyKeys
  <2>4. \A i \in Items : st[i] \in Active => KeyOf[i] \notin go
    BY <1>8 DEF Good, BusyKeys
  <2>5. \A i, m \in Items :
           stage'[i] \in Active /\ stage'[m] \in Active /\ KeyOf[i] = KeyOf[m] => i = m
    BY <1>10, <2>1, <2>4 DEF Good, BusyKeys
  <2> QED
    BY <2>2, <2>3, <2>5 DEF BusyKeys
<1>17. ASSUME NEW k \in go
       PROVE  /\ k \notin b /\ q[k] # <<>>
              /\ queues'[k] = Tail(q[k]) /\ stage'[Head(q[k])] = "assigned"
  BY <1>1, <1>8, <1>9, <1>11
<1>18. ASSUME NEW k \in Keys, k \notin go
       PROVE  queues'[k] = q[k] /\ \A i \in Items : KeyOf[i] = k => stage'[i] = st[i]
  BY <1>1, <1>10, <1>18
<1>19. \A i \in Items : stage'[i] = st[i] \/ (st[i] = "queued" /\ stage'[i] = "assigned")
  BY <1>1, <1>10
<1>20. ready' # <<>> => Cardinality(busy') = Workers
  BY <1>3, <1>6, <1>12
<1> QED
  BY <1>13, <1>14, <1>15, <1>16, <1>17, <1>18, <1>19, <1>20 DEF Good

-----------------------------------------------------------------------------
\* Counting.

Held(st) == {i \in Items : st[i] \in Holding}
Counted(st) == {i \in Items : st[i] \in Pending}

LEMMA ItemsFinite ==
  ASSUME NEW S, S \subseteq Items
  PROVE  IsFiniteSet(S) /\ Cardinality(S) \in Nat
BY ExecutorAssumption, FS_Subset, FS_CardinalityType

LEMMA OneMore ==
  ASSUME NEW S, S \subseteq Items, NEW i \in Items, i \notin S
  PROVE  Cardinality(S \cup {i}) = Cardinality(S) + 1
BY ItemsFinite, FS_AddElement

LEMMA OneLess ==
  ASSUME NEW S, S \subseteq Items, NEW i \in S
  PROVE  Cardinality(S \ {i}) = Cardinality(S) - 1
BY ItemsFinite, FS_RemoveElement

\* A dispatch changes neither count: an item keeps its permit, and is unfinished,
\* in a queue as well as with a worker.
LEMMA DispatchCounts ==
  ASSUME NEW st, NEW now,
         \A i \in Items : now[i] = st[i] \/ (st[i] = "queued" /\ now[i] = "assigned")
  PROVE  Held(now) = Held(st) /\ Counted(now) = Counted(st)
BY DEF Held, Counted, Holding, Pending

-----------------------------------------------------------------------------
ExecutorInv ==
  /\ Good(queues, ready, busy, stage)
  /\ permits \in Nat /\ permits + Cardinality(Held(stage)) = Capacity
  /\ unfinished \in Int /\ unfinished = Cardinality(Counted(stage))
  /\ ready # <<>> => Cardinality(busy) = Workers
  /\ stopper # "none" => closed
  /\ stopper = "stopped" => \A k \in Keys : queues[k] = <<>>

LEMMA InitExecutor == Init => ExecutorInv
<1> SUFFICES ASSUME Init PROVE ExecutorInv
  OBVIOUS
<1>1. Cardinality({}) = 0
  BY FS_EmptySet
<1>2. Held(stage) = {} /\ Counted(stage) = {}
  BY DEF Init, Held, Counted, Holding, Pending
<1>3. Types(queues, ready, busy, stage)
  BY <1>1, ExecutorAssumption DEF Init, Types, Stages
<1>4. Queued(queues, stage)
  BY DEF Init, Queued, Distinct
<1>5. ReadyKeys(queues, ready, busy) /\ BusyKeys(busy, stage)
  BY DEF Init, ReadyKeys, BusyKeys, Listed, Distinct, Active
<1>6. Capacity \in Nat
  BY ExecutorAssumption DEF Capacity
<1>7. Good(queues, ready, busy, stage)
  BY <1>3, <1>4, <1>5 DEF Good
<1>8. permits \in Nat /\ permits + Cardinality(Held(stage)) = Capacity
  <2>1. Cardinality(Held(stage)) = 0 /\ permits = Capacity
    BY <1>1, <1>2 DEF Init
  <2> QED
    BY <1>6, <2>1
<1>9. unfinished \in Int /\ unfinished = Cardinality(Counted(stage))
  <2>1. Cardinality(Counted(stage)) = 0 /\ unfinished = 0
    BY <1>1, <1>2 DEF Init
  <2> QED
    BY <2>1
<1> QED
  BY <1>7, <1>8, <1>9 DEF Init, ExecutorInv

\* Outside the sections, an item moves on without joining or leaving a queue or a
\* worker.
LEMMA MoveKeeps ==
  ASSUME NEW q, NEW r, NEW b, NEW st, Good(q, r, b, st),
         NEW i \in Items, NEW to \in Stages, st[i] # "queued", to # "queued",
         st[i] \in Active <=> to \in Active
  PROVE  Good(q, r, b, [st EXCEPT ![i] = to])
<1> DEFINE now == [st EXCEPT ![i] = to]
<1>1. st \in [Items -> Stages]
  BY DEF Good, Types
<1>2. now \in [Items -> Stages] /\ now[i] = to /\ \A m \in Items \ {i} : now[m] = st[m]
  BY <1>1
<1> HIDE DEF now
<1>3. Types(q, r, b, now)
  BY <1>2 DEF Good, Types
<1>4. Queued(q, now)
  <2>1. \A k \in Keys : \A j \in DOMAIN q[k] : q[k][j] \in Items
    BY DEF Good, Types
  <2> QED
    BY <1>2, <2>1 DEF Good, Queued
<1>5. BusyKeys(b, now)
  BY <1>2 DEF Good, BusyKeys
<1>6. Good(q, r, b, now)
  BY <1>3, <1>4, <1>5 DEF Good
<1> QED
  BY <1>6 DEF now

\* The steps that take or return a permit, or only move the item on.
LEMMA MoveStep ==
  ASSUME ExecutorInv, NEW i \in Items,
         \/ Acquire(i) \/ Block(i) \/ Saturate(i) \/ Wake(i) \/ Refuse(i)
         \/ Run(i) \/ Complete(i) \/ Release(i)
  PROVE  ExecutorInv'
<1> DEFINE to == stage'[i]
<1>1. /\ stage \in [Items -> Stages]
      /\ UNCHANGED <<queues, ready, busy, unfinished, closed, stopper>>
  BY DEF ExecutorInv, Good, Types, keyed, Acquire, Block, Saturate, Wake, Refuse, Run,
     Complete, Release
<1>2. /\ stage' = [stage EXCEPT ![i] = to] /\ to \in Stages
      /\ stage[i] # "queued" /\ to # "queued" /\ (stage[i] \in Active <=> to \in Active)
      /\ (stage[i] \in Pending <=> to \in Pending)
      /\ \/ stage[i] \notin Holding /\ to \in Holding /\ permits > 0 /\ permits' = permits - 1
         \/ stage[i] \in Holding /\ to \notin Holding /\ permits' = permits + 1
         \/ (stage[i] \in Holding <=> to \in Holding) /\ permits' = permits
  BY <1>1 DEF Acquire, Block, Saturate, Wake, Refuse, Run, Complete, Release, Move, Stages,
     Active, Pending, Holding
<1> HIDE DEF to
<1>3. Good(queues', ready', busy', stage')
  BY <1>1, <1>2, MoveKeeps DEF ExecutorInv
<1>4. \A m \in Items \ {i} : stage'[m] = stage[m]
  BY <1>1, <1>2
<1>5. stage'[i] = to
  BY <1>1, <1>2
<1>6. Counted(stage') = Counted(stage)
  BY <1>2, <1>4, <1>5 DEF Counted
<1>7. permits' \in Nat /\ permits' + Cardinality(Held(stage')) = Capacity
  <2>1. Held(stage) \subseteq Items /\ Cardinality(Held(stage)) \in Nat
    BY ItemsFinite DEF Held
  <2>2. CASE stage[i] \notin Holding /\ to \in Holding /\ permits > 0 /\ permits' = permits - 1
    <3>1. Held(stage') = Held(stage) \cup {i} /\ i \notin Held(stage)
      BY <1>4, <1>5, <2>2 DEF Held
    <3>2. Cardinality(Held(stage')) = Cardinality(Held(stage)) + 1
      BY <2>1, <3>1, OneMore
    <3> QED
      BY <2>1, <2>2, <3>2 DEF ExecutorInv
  <2>3. CASE stage[i] \in Holding /\ to \notin Holding /\ permits' = permits + 1
    <3>1. Held(stage') = Held(stage) \ {i} /\ i \in Held(stage)
      BY <1>4, <1>5, <2>3 DEF Held
    <3>2. Cardinality(Held(stage')) = Cardinality(Held(stage)) - 1
      BY <2>1, <3>1, OneLess
    <3> QED
      BY <2>1, <2>3, <3>2 DEF ExecutorInv
  <2>4. CASE (stage[i] \in Holding <=> to \in Holding) /\ permits' = permits
    <3>1. Held(stage') = Held(stage)
      BY <1>4, <1>5, <2>4 DEF Held
    <3> QED
      BY <2>4, <3>1 DEF ExecutorInv
  <2> QED
    BY <1>2, <2>2, <2>3, <2>4
<1> QED
  BY <1>1, <1>3, <1>6, <1>7 DEF ExecutorInv

-----------------------------------------------------------------------------
\* The sections: what they pass to Dispatch is in order.

LEMMA Appended ==
  ASSUME NEW S, NEW s \in Seq(S), NEW x \in S
  PROVE  /\ Append(s, x) \in Seq(S) /\ Append(s, x) # <<>>
         /\ Len(s) + 1 \in DOMAIN Append(s, x) /\ Append(s, x)[Len(s) + 1] = x
         /\ \A j \in DOMAIN s : j \in DOMAIN Append(s, x) /\ Append(s, x)[j] = s[j]
         /\ \A j \in DOMAIN Append(s, x) : j \in DOMAIN s \/ j = Len(s) + 1
OBVIOUS

LEMMA AppendedDistinct ==
  ASSUME NEW S, NEW s \in Seq(S), NEW x \in S, Distinct(s), \A j \in DOMAIN s : s[j] # x
  PROVE  Distinct(Append(s, x))
<1> DEFINE a == Append(s, x)
<1>1. /\ \A j \in DOMAIN s : a[j] = s[j]
      /\ \A j \in DOMAIN a : j \in DOMAIN s \/ j = Len(s) + 1
      /\ a[Len(s) + 1] = x
  BY Appended
<1> HIDE DEF a
<1>2. Distinct(a)
  BY <1>1 DEF Distinct
<1> QED
  BY <1>2 DEF a

LEMMA AppendedListed ==
  ASSUME NEW s \in Seq(Keys), NEW k \in Keys
  PROVE  \A m : Listed(Append(s, k), m) <=> Listed(s, m) \/ m = k
<1> DEFINE a == Append(s, k)
<1>1. /\ \A j \in DOMAIN s : j \in DOMAIN a /\ a[j] = s[j]
      /\ \A j \in DOMAIN a : j \in DOMAIN s \/ j = Len(s) + 1
      /\ Len(s) + 1 \in DOMAIN a /\ a[Len(s) + 1] = k
  BY Appended
<1> HIDE DEF a
<1>2. \A m : Listed(a, m) <=> Listed(s, m) \/ m = k
  BY <1>1 DEF Listed
<1> QED
  BY <1>2 DEF a

Joined(i) == [queues EXCEPT ![KeyOf[i]] = Append(@, i)]

LEMMA EnqueueGood ==
  ASSUME ExecutorInv, NEW i \in Items, Enqueue(i)
  PROVE  \E r : LET st == [stage EXCEPT ![i] = "queued"]
                IN  Good(Joined(i), r, busy, st) /\ Dispatch(Joined(i), r, busy, st)
<1> DEFINE k == KeyOf[i]
           q == Joined(i)
           r == IF k \in busy \cup ToSet(ready) THEN ready ELSE Append(ready, k)
           st == [stage EXCEPT ![i] = "queued"]
<1>1. /\ stage[i] = "admitted" /\ ~closed /\ unfinished' = unfinished + 1
      /\ Dispatch(q, r, busy, st) /\ UNCHANGED <<permits, closed, stopper>>
  BY DEF Enqueue, Joined
<1>2. /\ queues \in [Keys -> Seq(Items)] /\ ready \in Seq(Keys) /\ busy \subseteq Keys
      /\ stage \in [Items -> Stages] /\ k \in Keys
  BY ExecutorAssumption DEF ExecutorInv, Good, Types
<1>3. st \in [Items -> Stages] /\ st[i] = "queued" /\ \A m \in Items \ {i} : st[m] = stage[m]
  BY <1>2 DEF Stages
<1>4. /\ q[k] = Append(queues[k], i) /\ q \in [Keys -> Seq(Items)]
      /\ \A m \in Keys \ {k} : q[m] = queues[m]
  BY <1>2 DEF Joined
<1>5. k \in ToSet(ready) <=> Listed(ready, k)
  BY DEF ToSet, Listed
<1>6. r = IF k \in busy \/ Listed(ready, k) THEN ready ELSE Append(ready, k)
  BY <1>5
<1> HIDE DEF k, q, r, st
<1>7. \A m \in Keys : \A j \in DOMAIN queues[m] :
         queues[m][j] # i /\ st[queues[m][j]] = "queued" /\ KeyOf[queues[m][j]] = m
  <2>1. \A m \in Keys : \A j \in DOMAIN queues[m] :
           queues[m][j] \in Items /\ stage[queues[m][j]] = "queued" /\ KeyOf[queues[m][j]] = m
    BY <1>2 DEF ExecutorInv, Good, Queued
  <2> QED
    BY <1>1, <1>3, <2>1
<1>8. queues[k] \in Seq(Items)
  BY <1>2
<1>9. Queued(q, st)
  <2>1. ASSUME NEW m \in Keys, NEW j \in DOMAIN q[m]
        PROVE  st[q[m][j]] = "queued" /\ KeyOf[q[m][j]] = m
    <3>1. CASE m = k
      <4>1. (j \in DOMAIN queues[k] /\ q[k][j] = queues[k][j]) \/ q[k][j] = i
        BY <1>4, <1>8, <2>1, <3>1, Appended
      <4> QED
        BY <1>2, <1>3, <1>7, <3>1, <4>1 DEF k
    <3> QED
      BY <1>4, <1>7, <2>1, <3>1
  <2>2. ASSUME NEW m \in Keys
        PROVE  Distinct(q[m])
    <3>1. Distinct(queues[m])
      BY DEF ExecutorInv, Good, Queued
    <3> QED
      <4>1. CASE m = k
        <5>1. \A j \in DOMAIN queues[k] : queues[k][j] # i
          BY <1>2, <1>7
        <5> QED
          BY <1>4, <1>8, <3>1, <4>1, <5>1, AppendedDistinct
      <4> QED
        BY <1>4, <3>1, <4>1
  <2>3. ASSUME NEW m \in Items, st[m] = "queued"
        PROVE  \E j \in DOMAIN q[KeyOf[m]] : q[KeyOf[m]][j] = m
    <3>1. CASE m = i
      BY <1>4, <1>8, <3>1, Appended DEF k
    <3>2. CASE m # i
      <4>1. PICK j \in DOMAIN queues[KeyOf[m]] : queues[KeyOf[m]][j] = m
        BY <1>3, <2>3, <3>2 DEF ExecutorInv, Good, Queued
      <4>2. KeyOf[m] \in Keys
        BY ExecutorAssumption
      <4>3. j \in DOMAIN q[KeyOf[m]] /\ q[KeyOf[m]][j] = m
        <5>1. CASE KeyOf[m] = k
          BY <1>4, <1>8, <4>1, <5>1, Appended
        <5> QED
          BY <1>4, <4>1, <4>2, <5>1
      <4> QED
        BY <4>3
    <3> QED
      BY <3>1, <3>2
  <2> QED
    BY <2>1, <2>2, <2>3 DEF Queued
<1>10. /\ Distinct(ready)
       /\ \A m \in Keys : Listed(ready, m) <=> queues[m] # <<>> /\ m \notin busy
  BY DEF ExecutorInv, Good, ReadyKeys
<1>11. q[k] # <<>>
  BY <1>4, <1>8, Appended
<1>12. r \in Seq(Keys) /\ ReadyKeys(q, r, busy)
  <2>1. CASE k \in busy \/ Listed(ready, k)
    <3>1. r = ready
      BY <1>6, <2>1
    <3>2. \A m \in Keys : Listed(r, m) <=> q[m] # <<>> /\ m \notin busy
      BY <1>4, <1>10, <1>11, <2>1, <3>1
    <3> QED
      BY <1>2, <1>10, <3>1, <3>2 DEF ReadyKeys
  <2>2. CASE k \notin busy /\ ~Listed(ready, k)
    <3>1. r = Append(ready, k)
      BY <1>6, <2>2
    <3>2. r \in Seq(Keys) /\ \A m : Listed(r, m) <=> Listed(ready, m) \/ m = k
      BY <1>2, <3>1, Appended, AppendedListed
    <3>3. Distinct(r)
      BY <1>2, <1>10, <2>2, <3>1, AppendedDistinct DEF Listed
    <3>4. \A m \in Keys : Listed(r, m) <=> q[m] # <<>> /\ m \notin busy
      BY <1>4, <1>10, <1>11, <2>2, <3>2
    <3> QED
      BY <3>2, <3>3, <3>4 DEF ReadyKeys
  <2> QED
    BY <2>1, <2>2
<1>13. BusyKeys(busy, st)
  <2>1. \A m \in Items : st[m] \in Active <=> stage[m] \in Active
    BY <1>1, <1>3 DEF Active
  <2> QED
    BY <2>1 DEF ExecutorInv, Good, BusyKeys
<1>14. Good(q, r, busy, st)
  BY <1>2, <1>3, <1>4, <1>9, <1>12, <1>13 DEF ExecutorInv, Good, Types
<1> QED
  BY <1>1, <1>14 DEF st, q

LEMMA EnqueueStep ==
  ASSUME ExecutorInv, NEW i \in Items, Enqueue(i)
  PROVE  ExecutorInv'
<1> DEFINE st == [stage EXCEPT ![i] = "queued"]
<1>1. /\ stage[i] = "admitted" /\ ~closed /\ unfinished' = unfinished + 1
      /\ UNCHANGED <<permits, closed, stopper>>
  BY DEF Enqueue
<1>2. PICK r : Good(Joined(i), r, busy, st) /\ Dispatch(Joined(i), r, busy, st)
  BY EnqueueGood
<1>3. st[i] = "queued" /\ \A m \in Items \ {i} : st[m] = stage[m]
  BY DEF ExecutorInv, Good, Types
<1> HIDE DEF st
<1>4. /\ Good(queues', ready', busy', stage')
      /\ ready' # <<>> => Cardinality(busy') = Workers
      /\ Held(stage') = Held(st) /\ Counted(stage') = Counted(st)
  BY <1>2, DispatchStep, DispatchCounts
<1>5. Held(st) = Held(stage)
  BY <1>1, <1>3 DEF Held, Holding
<1>6. Counted(st) = Counted(stage) \cup {i} /\ i \notin Counted(stage)
  BY <1>1, <1>3 DEF Counted, Pending
<1>7. /\ Cardinality(Counted(st)) = Cardinality(Counted(stage)) + 1
      /\ Cardinality(Counted(stage)) \in Nat
  BY <1>6, OneMore, ItemsFinite DEF Counted
<1> QED
  BY <1>1, <1>4, <1>5, <1>7 DEF ExecutorInv

LEMMA RetireGood ==
  ASSUME ExecutorInv, NEW i \in Items, Retire(i)
  PROVE  \E r : LET b == busy \ {KeyOf[i]}
                    st == [stage EXCEPT ![i] = "done"]
                IN  Good(queues, r, b, st) /\ Dispatch(queues, r, b, st)
<1> DEFINE k == KeyOf[i]
           r == IF queues[k] # <<>> THEN Append(ready, k) ELSE ready
           b == busy \ {k}
           st == [stage EXCEPT ![i] = "done"]
<1>1. /\ stage[i] = "released" /\ unfinished' = unfinished - 1
      /\ Dispatch(queues, r, b, st) /\ UNCHANGED <<permits, closed, stopper>>
  BY DEF Retire
<1>2. /\ queues \in [Keys -> Seq(Items)] /\ ready \in Seq(Keys) /\ busy \subseteq Keys
      /\ stage \in [Items -> Stages] /\ k \in Keys
  BY ExecutorAssumption DEF ExecutorInv, Good, Types
<1>3. st \in [Items -> Stages] /\ st[i] = "done" /\ \A m \in Items \ {i} : st[m] = stage[m]
  BY <1>2 DEF Stages
<1>4. k \in busy
  BY <1>1 DEF ExecutorInv, Good, BusyKeys, Active
<1>5. b \subseteq Keys /\ \A m : m \in b <=> m \in busy /\ m # k
  BY <1>2
<1>6. Cardinality(b) <= Workers
  <2>1. IsFiniteSet(busy) /\ Cardinality(busy) \in Nat /\ Cardinality(busy) <= Workers
    BY <1>2, KeysFinite DEF ExecutorInv, Good, Types
  <2>2. Cardinality(b) <= Cardinality(busy) /\ Cardinality(b) \in Nat
    BY <1>5, <2>1, FS_Subset, KeysFinite
  <2> QED
    BY <2>1, <2>2, ExecutorAssumption
<1>7. r = IF queues[k] # <<>> THEN Append(ready, k) ELSE ready
  OBVIOUS
<1>8. KeyOf[i] = k
  OBVIOUS
<1> HIDE DEF k, r, b, st
<1>9. Queued(queues, st)
  <2>1. \A m \in Keys : \A j \in DOMAIN queues[m] :
           /\ queues[m][j] \in Items /\ stage[queues[m][j]] = "queued"
           /\ KeyOf[queues[m][j]] = m
    BY <1>2 DEF ExecutorInv, Good, Queued
  <2>2. \A m \in Keys : \A j \in DOMAIN queues[m] : st[queues[m][j]] = "queued"
    BY <1>1, <1>3, <2>1
  <2>3. \A m \in Items : st[m] = "queued" => stage[m] = "queued"
    BY <1>1, <1>3
  <2> QED
    BY <2>1, <2>2, <2>3 DEF ExecutorInv, Good, Queued
<1>10. /\ Distinct(ready) /\ ~Listed(ready, k)
       /\ \A m \in Keys : Listed(ready, m) <=> queues[m] # <<>> /\ m \notin busy
  BY <1>2, <1>4 DEF ExecutorInv, Good, ReadyKeys
<1>11. r \in Seq(Keys) /\ ReadyKeys(queues, r, b)
  <2>1. CASE queues[k] = <<>>
    BY <1>2, <1>5, <1>7, <1>10, <2>1 DEF ReadyKeys
  <2>2. CASE queues[k] # <<>>
    <3>1. r = Append(ready, k)
      BY <1>7, <2>2
    <3>2. r \in Seq(Keys) /\ \A m : Listed(r, m) <=> Listed(ready, m) \/ m = k
      BY <1>2, <3>1, Appended, AppendedListed
    <3>3. Distinct(r)
      BY <1>2, <1>10, <3>1, AppendedDistinct DEF Listed
    <3> QED
      BY <1>5, <1>10, <2>2, <3>2, <3>3 DEF ReadyKeys
  <2> QED
    BY <2>1, <2>2
<1>12. BusyKeys(b, st)
  <2>1. \A m \in Items : st[m] \in Active <=> stage[m] \in Active /\ m # i
    BY <1>1, <1>3 DEF Active
  <2>2. \A m \in Items : stage[m] \in Active /\ m # i => KeyOf[m] # k
    BY <1>1, <1>8 DEF ExecutorInv, Good, BusyKeys, Active
  <2>3. \A m \in Items : st[m] \in Active => KeyOf[m] \in b
    BY <1>5, <2>1, <2>2 DEF ExecutorInv, Good, BusyKeys
  <2>4. \A key \in b : \E m \in Items : st[m] \in Active /\ KeyOf[m] = key
    BY <1>5, <1>8, <2>1 DEF ExecutorInv, Good, BusyKeys
  <2> QED
    BY <2>1, <2>3, <2>4 DEF ExecutorInv, Good, BusyKeys
<1>13. Good(queues, r, b, st)
  BY <1>2, <1>3, <1>5, <1>6, <1>9, <1>11, <1>12 DEF Good, Types
<1> QED
  BY <1>1, <1>13 DEF st, b, k

LEMMA RetireStep ==
  ASSUME ExecutorInv, NEW i \in Items, Retire(i)
  PROVE  ExecutorInv'
<1> DEFINE b == busy \ {KeyOf[i]}
           st == [stage EXCEPT ![i] = "done"]
<1>1. /\ stage[i] = "released" /\ unfinished' = unfinished - 1
      /\ UNCHANGED <<permits, closed, stopper>>
  BY DEF Retire
<1>2. PICK r : Good(queues, r, b, st) /\ Dispatch(queues, r, b, st)
  BY RetireGood
<1>3. st[i] = "done" /\ \A m \in Items \ {i} : st[m] = stage[m]
  BY DEF ExecutorInv, Good, Types
<1> HIDE DEF b, st
<1>4. /\ Good(queues', ready', busy', stage')
      /\ ready' # <<>> => Cardinality(busy') = Workers
      /\ Held(stage') = Held(st) /\ Counted(stage') = Counted(st)
  BY <1>2, DispatchStep, DispatchCounts
<1>5. Held(st) = Held(stage)
  BY <1>1, <1>3 DEF Held, Holding
<1>6. Counted(st) = Counted(stage) \ {i} /\ i \in Counted(stage)
  BY <1>1, <1>3 DEF Counted, Pending
<1>7. /\ Cardinality(Counted(st)) = Cardinality(Counted(stage)) - 1
      /\ Cardinality(Counted(stage)) \in Nat
  BY <1>6, OneLess, ItemsFinite DEF Counted
<1>8. ASSUME NEW k \in Keys, queues[k] = <<>>
      PROVE  queues'[k] = <<>>
  BY <1>2, <1>8, DispatchStep
<1> QED
  BY <1>1, <1>4, <1>5, <1>7, <1>8 DEF ExecutorInv

-----------------------------------------------------------------------------
\* Shutting down.

\* Cancelled items leave the queues and both counts; the workers go on.
LEMMA CancelStep ==
  ASSUME ExecutorInv, NEW wait \in BOOLEAN, Shutdown(wait, TRUE)
  PROVE  ExecutorInv'
<1> DEFINE gone == In({"queued"})
<1>1. /\ closed' = TRUE /\ busy' = busy
      /\ stage' = [i \in Items |-> IF i \in gone THEN "cancelled" ELSE stage[i]]
      /\ permits' = permits + Cardinality(gone)
      /\ unfinished' = unfinished - Cardinality(gone)
      /\ queues' = [k \in Keys |-> <<>>] /\ ready' = <<>>
  BY DEF Shutdown
<1>2. \A i \in Items : i \in gone <=> stage[i] = "queued"
  BY DEF In
<1>3. gone \subseteq Items
  BY DEF In
<1> HIDE DEF gone
<1>4. /\ stage \in [Items -> Stages] /\ busy \subseteq Keys /\ Cardinality(busy) <= Workers
  BY DEF ExecutorInv, Good, Types
<1>5. \A i \in Items : stage'[i] = IF stage[i] = "queued" THEN "cancelled" ELSE stage[i]
  BY <1>1, <1>2
<1>6. Types(queues', ready', busy', stage')
  <2>1. stage' \in [Items -> Stages]
    BY <1>1, <1>4 DEF Stages
  <2> QED
    BY <1>1, <1>4, <2>1 DEF Types
<1>7. Queued(queues', stage')
  BY <1>1, <1>5 DEF Queued, Distinct
<1>8. ReadyKeys(queues', ready', busy')
  BY <1>1 DEF ReadyKeys, Listed, Distinct
<1>9. BusyKeys(busy', stage')
  <2>1. \A i \in Items : stage'[i] \in Active <=> stage[i] \in Active
    BY <1>5 DEF Active
  <2> QED
    BY <1>1, <1>4, <2>1 DEF ExecutorInv, Good, BusyKeys
<1>10. Held(stage') = Held(stage) \ gone /\ Held(stage) \cap gone = gone
  BY <1>2, <1>3, <1>5 DEF Held, Holding
<1>11. Counted(stage') = Counted(stage) \ gone /\ Counted(stage) \cap gone = gone
  BY <1>2, <1>3, <1>5 DEF Counted, Pending
<1>12. /\ Cardinality(Held(stage')) = Cardinality(Held(stage)) - Cardinality(gone)
       /\ Cardinality(Held(stage)) \in Nat /\ Cardinality(gone) \in Nat
  BY <1>3, <1>10, ItemsFinite, FS_Difference DEF Held
<1>13. /\ Cardinality(Counted(stage')) = Cardinality(Counted(stage)) - Cardinality(gone)
       /\ Cardinality(Counted(stage)) \in Nat
  BY <1>11, ItemsFinite, FS_Difference DEF Counted
<1>14. permits' \in Nat /\ permits' + Cardinality(Held(stage')) = Capacity
  BY <1>1, <1>12 DEF ExecutorInv
<1>15. unfinished' \in Int /\ unfinished' = Cardinality(Counted(stage'))
  BY <1>1, <1>12, <1>13 DEF ExecutorInv
<1> QED
  BY <1>1, <1>6, <1>7, <1>8, <1>9, <1>14, <1>15 DEF ExecutorInv, Good

LEMMA WaitStep ==
  ASSUME ExecutorInv, NEW wait \in BOOLEAN, Shutdown(wait, FALSE)
  PROVE  ExecutorInv'
<1>1. wait /\ closed' = TRUE /\ stopper' = "waiting"
  BY DEF Shutdown
<1>2. UNCHANGED <<queues, ready, busy>>
  BY DEF Shutdown
<1>3. Cardinality({}) = 0
  BY FS_EmptySet
<1>4. permits' = permits /\ unfinished' = unfinished
  BY <1>3 DEF Shutdown, ExecutorInv
<1>5. stage' = stage
  BY DEF Shutdown, ExecutorInv, Good, Types
<1> QED
  BY <1>1, <1>2, <1>4, <1>5 DEF ExecutorInv

\* Nothing is unfinished, so nothing is queued.
LEMMA DrainedStep ==
  ASSUME ExecutorInv, Drained
  PROVE  ExecutorInv'
<1>1. /\ unfinished = 0 /\ stopper = "waiting"
      /\ UNCHANGED <<stage, permits, queues, ready, busy, unfinished, closed>>
  BY DEF Drained, keyed
<1>2. Counted(stage) = {}
  <2>1. IsFiniteSet(Counted(stage)) /\ Cardinality(Counted(stage)) = 0
    BY <1>1, ItemsFinite DEF ExecutorInv, Counted
  <2> QED
    BY <2>1, FS_EmptySet
<1>3. ASSUME NEW k \in Keys, queues[k] # <<>>
      PROVE  FALSE
  <2>1. queues[k] \in Seq(Items)
    BY DEF ExecutorInv, Good, Types
  <2>2. 1 \in DOMAIN queues[k] /\ queues[k][1] \in Items
    BY <1>3, <2>1, Oldest
  <2>3. stage[queues[k][1]] = "queued"
    BY <2>2 DEF ExecutorInv, Good, Queued
  <2> QED
    BY <1>2, <2>2, <2>3 DEF Counted, Pending
<1> QED
  BY <1>1, <1>3 DEF ExecutorInv

LEMMA StepExecutor == ExecutorInv /\ [Next]_vars => ExecutorInv'
<1> SUFFICES ASSUME ExecutorInv, [Next]_vars PROVE ExecutorInv'
  OBVIOUS
<1>1. CASE UNCHANGED vars
  BY <1>1 DEF vars, ExecutorInv
<1>2. ASSUME NEW i \in Items, Submitter(i) \/ Worker(i)
      PROVE  ExecutorInv'
  BY <1>2, MoveStep, EnqueueStep, RetireStep DEF Submitter, Worker
<1>3. ASSUME NEW wait \in BOOLEAN, NEW cancel \in BOOLEAN, Shutdown(wait, cancel)
      PROVE  ExecutorInv'
  BY <1>3, CancelStep, WaitStep
<1> QED
  BY <1>1, <1>2, <1>3, DrainedStep DEF Next

LEMMA Invariance == Spec => []ExecutorInv
BY InitExecutor, StepExecutor, PTL DEF Spec

-----------------------------------------------------------------------------
\* A permit is held by each item between its admission and its release, and by
\* nothing else, whatever is refused, cancelled or fails: the executor neither
\* runs dry nor accepts more than it has room for.
LEMMA PermitsBalance == Spec => []PermitsConserved
<1>1. ExecutorInv => PermitsConserved
  BY DEF ExecutorInv, PermitsConserved, Held, In
<1> QED
  BY <1>1, Invariance, PTL

\* The counter that shutdown and its barriers wait for is the number of items
\* accepted and not yet retired.
LEMMA UnfinishedIsExact == Spec => []UnfinishedCounts
<1>1. ExecutorInv => UnfinishedCounts
  BY DEF ExecutorInv, UnfinishedCounts, Counted, Pending, In
<1> QED
  BY <1>1, Invariance, PTL

\* A key with work is in the ready list, once, or with one worker, never both:
\* the work of a storage key neither overlaps nor is left behind.
LEMMA KeysStayAccounted == Spec => []KeysAccounted
<1>1. ASSUME ExecutorInv PROVE KeysAccounted
  <2>1. /\ queues \in [Keys -> Seq(Items)] /\ busy \subseteq Keys
    BY <1>1 DEF ExecutorInv, Good, Types
  <2>2. \A k \in Keys : k \in ToSet(ready) <=> queues[k] # <<>> /\ k \notin busy
    BY <1>1 DEF ExecutorInv, Good, ReadyKeys, Listed, ToSet
  <2>3. \A k \in Keys : k \in busy <=> \E i \in In(Active) : KeyOf[i] = k
    BY <1>1 DEF ExecutorInv, Good, BusyKeys, In
  <2>4. \A j, m \in DOMAIN ready : ready[j] = ready[m] => j = m
    BY <1>1 DEF ExecutorInv, Good, ReadyKeys, Distinct
  <2>5. ASSUME NEW i \in In({"queued"})
        PROVE  i \in UNION {ToSet(queues[k]) : k \in Keys}
    <3>1. PICK j \in DOMAIN queues[KeyOf[i]] : queues[KeyOf[i]][j] = i
      BY <1>1 DEF ExecutorInv, Good, Queued, In
    <3>2. KeyOf[i] \in Keys
      BY ExecutorAssumption DEF In
    <3> QED
      BY <3>1, <3>2 DEF ToSet
  <2>6. ASSUME NEW k \in Keys, NEW j \in DOMAIN queues[k]
        PROVE  queues[k][j] \in In({"queued"})
    BY <1>1, <2>1 DEF ExecutorInv, Good, Queued, In
  <2>7. In({"queued"}) = UNION {ToSet(queues[k]) : k \in Keys}
    BY <2>5, <2>6 DEF ToSet
  <2> QED
    BY <2>2, <2>3, <2>4, <2>7 DEF KeysAccounted, Active
<1> QED
  BY <1>1, Invariance, PTL

\* No ready key waits beside a free worker, and a pool that was shut down is left
\* nothing to start.
THEOREM DispatchIsPrompt == Spec => []WorkIsDispatched
<1>1. ExecutorInv => WorkIsDispatched
  BY DEF ExecutorInv, WorkIsDispatched
<1> QED
  BY <1>1, Invariance, PTL

\* The three books of the executor, kept under two locks, never disagree with
\* where the items are: a permit is held by each item between its admission and
\* its release, a key with work is in one place, and shutdown counts the rest.
\* What is ready is handed to whoever is free.
THEOREM BooksStayBalanced == Spec => []BooksBalance
BY PermitsBalance, UnfinishedIsExact, KeysStayAccounted, DispatchIsPrompt, PTL DEF BooksBalance

-----------------------------------------------------------------------------
\* The executor implements KeyedFifo, for any number of calls, keys, threads of the
\* pool and places in the queue.

\* The line of a key, of the queues and stages that a section is at.
Assigned(st, k) == {i \in Items : st[i] = "assigned" /\ KeyOf[i] = k}

LineOf(q, st, k) == IF Assigned(st, k) = {} THEN q[k]
                    ELSE <<CHOOSE i \in Assigned(st, k) : TRUE>> \o q[k]

LEMMA LineNow ==
  ASSUME NEW k
  PROVE  Line(k) = LineOf(queues, stage, k)
<1>1. AssignedTo(k) = Assigned(stage, k)
  BY DEF AssignedTo, Assigned, In
<1> QED
  BY <1>1 DEF Line, LineOf

LEMMA LineNext ==
  ASSUME NEW k
  PROVE  Line(k)' = LineOf(queues', stage', k)
<1>1. AssignedTo(k)' = Assigned(stage', k)
  BY DEF AssignedTo, Assigned, In
<1> QED
  BY <1>1 DEF Line, LineOf

LEMMA LineOfIdle ==
  ASSUME NEW q, NEW st, NEW k, \A i \in Items : KeyOf[i] = k => st[i] # "assigned"
  PROVE  LineOf(q, st, k) = q[k]
BY DEF LineOf, Assigned

LEMMA LineOfBusy ==
  ASSUME NEW q, NEW st, NEW b, BusyKeys(b, st),
         NEW i \in Items, st[i] = "assigned"
  PROVE  LineOf(q, st, KeyOf[i]) = <<i>> \o q[KeyOf[i]]
<1>1. Assigned(st, KeyOf[i]) = {i}
  BY DEF Assigned, BusyKeys, Active
<1>2. (CHOOSE x \in {i} : TRUE) = i
  OBVIOUS
<1> QED
  BY <1>1, <1>2 DEF LineOf

\* A line depends on the key's queue and on its item that has a worker.
LEMMA SameLine ==
  ASSUME NEW q, NEW now, NEW st, NEW then, NEW k, q[k] = now[k],
         \A i \in Items : KeyOf[i] = k => (st[i] = "assigned" <=> then[i] = "assigned")
  PROVE  LineOf(q, st, k) = LineOf(now, then, k)
<1>1. Assigned(st, k) = Assigned(then, k)
  BY DEF Assigned
<1> QED
  BY <1>1 DEF LineOf

LEMMA HeadFirst ==
  ASSUME NEW s \in Seq(Items), s # <<>>
  PROVE  <<Head(s)>> \o Tail(s) = s
OBVIOUS

\* Dispatching moves the oldest item of a queue to a worker that has not started
\* it: it is still first in line.
LEMMA DispatchLines ==
  ASSUME NEW q, NEW r, NEW b, NEW st, Good(q, r, b, st), Dispatch(q, r, b, st),
         NEW k \in Keys
  PROVE  LineOf(queues', stage', k) = LineOf(q, st, k)
<1>1. CASE queues'[k] = q[k] /\ \A i \in Items : KeyOf[i] = k => stage'[i] = st[i]
  BY <1>1, SameLine
<1>2. CASE /\ k \notin b /\ q[k] # <<>>
           /\ queues'[k] = Tail(q[k]) /\ stage'[Head(q[k])] = "assigned"
  <2> DEFINE i == Head(q[k])
  <2>1. q[k] \in Seq(Items)
    BY DEF Good, Types
  <2>2. i \in Items /\ KeyOf[i] = k
    BY <1>2, <2>1, Oldest DEF Good, Queued
  <2>3. LineOf(q, st, k) = q[k]
    BY <1>2, LineOfIdle DEF Good, BusyKeys, Active
  <2>4. BusyKeys(busy', stage')
    BY DispatchStep DEF Good
  <2>5. LineOf(queues', stage', k) = <<i>> \o queues'[k]
    BY <1>2, <2>2, <2>4, LineOfBusy
  <2> QED
    BY <1>2, <2>1, <2>3, <2>5, HeadFirst
<1> QED
  BY <1>1, <1>2, DispatchStep

-----------------------------------------------------------------------------
\* The steps, as steps of the promise.

waitingLines == [k \in Keys |-> Line(k)]
running == In({"running"})

LEMMA Stutter ==
  ASSUME \A k \in Keys : Line(k)' = Line(k),
         \A i \in Items : stage'[i] = "running" <=> stage[i] = "running"
  PROVE  waitingLines' = waitingLines /\ running' = running
BY DEF waitingLines, running, In

\* What the promise counts as accepted holds a permit.
LEMMA AcceptedHold ==
  ASSUME ExecutorInv
  PROVE  Promise!Accepted \subseteq {i \in Items : stage[i] \in {"queued", "assigned", "running"}}
<1> SUFFICES ASSUME NEW i \in Promise!Accepted
             PROVE  i \in Items /\ stage[i] \in {"queued", "assigned", "running"}
  OBVIOUS
<1>1. CASE i \in In({"running"})
  BY <1>1 DEF In
<1>2. CASE \E k \in Keys : \E j \in DOMAIN Line(k) : i = Line(k)[j]
  <2>1. PICK k \in Keys : \E j \in DOMAIN Line(k) : i = Line(k)[j]
    BY <1>2
  <2>2. queues[k] \in Seq(Items)
    BY DEF ExecutorInv, Good, Types
  <2>3. \A j \in DOMAIN queues[k] : queues[k][j] \in Items /\ stage[queues[k][j]] = "queued"
    BY <2>2 DEF ExecutorInv, Good, Queued
  <2>4. CASE \E m \in Items : KeyOf[m] = k /\ stage[m] = "assigned"
    <3>1. PICK m \in Items : KeyOf[m] = k /\ stage[m] = "assigned"
      BY <2>4
    <3>2. Line(k) = <<m>> \o queues[k]
      BY <3>1, LineNow, LineOfBusy DEF ExecutorInv, Good
    <3>3. \A j \in DOMAIN Line(k) :
             Line(k)[j] = m \/ \E n \in DOMAIN queues[k] : Line(k)[j] = queues[k][n]
      <4> DEFINE s == queues[k]
      <4>1. s \in Seq(Items)
        BY <2>2
      <4> HIDE DEF s
      <4>2. \A j \in DOMAIN (<<m>> \o s) :
               (<<m>> \o s)[j] = m \/ (j - 1 \in DOMAIN s /\ (<<m>> \o s)[j] = s[j - 1])
        BY <4>1
      <4> QED
        BY <3>2, <4>2 DEF s
    <3> QED
      BY <2>1, <2>3, <3>1, <3>3
  <2>5. CASE \A m \in Items : KeyOf[m] = k => stage[m] # "assigned"
    BY <2>1, <2>3, <2>5, LineNow, LineOfIdle
  <2> QED
    BY <2>4, <2>5
<1> QED
  BY <1>1, <1>2 DEF Promise!Accepted

LEMMA QuietStep ==
  ASSUME ExecutorInv, NEW i \in Items,
         \/ Acquire(i) \/ Block(i) \/ Saturate(i) \/ Wake(i) \/ Refuse(i) \/ Release(i)
  PROVE  waitingLines' = waitingLines /\ running' = running
<1>1. stage \in [Items -> Stages] /\ queues' = queues
  BY DEF ExecutorInv, Good, Types, keyed, Acquire, Block, Saturate, Wake, Refuse, Release
<1>2. \A m \in Items : /\ stage'[m] = "running" <=> stage[m] = "running"
                       /\ stage'[m] = "assigned" <=> stage[m] = "assigned"
  BY <1>1 DEF Acquire, Block, Saturate, Wake, Refuse, Release, Move
<1>3. \A k \in Keys : Line(k)' = Line(k)
  BY <1>1, <1>2, LineNow, LineNext, SameLine
<1> QED
  BY <1>2, <1>3, Stutter

LEMMA AppendToLine ==
  ASSUME NEW s \in Seq(Items), NEW i \in Items, NEW m \in Items
  PROVE  <<m>> \o Append(s, i) = Append(<<m>> \o s, i)
OBVIOUS

LEMMA AcceptStep ==
  ASSUME ExecutorInv, NEW i \in Items, Enqueue(i)
  PROVE  Promise!Accept(i)
<1> DEFINE key == KeyOf[i]
           st == [stage EXCEPT ![i] = "queued"]
<1>1. stage[i] = "admitted"
  BY DEF Enqueue
<1>2. PICK r : Good(Joined(i), r, busy, st) /\ Dispatch(Joined(i), r, busy, st)
  BY EnqueueGood
<1>3. /\ key \in Keys /\ queues \in [Keys -> Seq(Items)] /\ stage \in [Items -> Stages]
      /\ BusyKeys(busy, stage)
  BY ExecutorAssumption DEF ExecutorInv, Good, Types
<1>4. st[i] = "queued" /\ \A m \in Items \ {i} : st[m] = stage[m]
  BY <1>3
<1>5. Joined(i)[key] = Append(queues[key], i) /\ \A k \in Keys \ {key} : Joined(i)[k] = queues[k]
  BY <1>3 DEF Joined
<1>6. key = KeyOf[i]
  OBVIOUS
<1> HIDE DEF st, key
<1>7. \A m \in Items : /\ st[m] = "assigned" <=> stage[m] = "assigned"
                       /\ st[m] = "running" <=> stage[m] = "running"
  BY <1>1, <1>4
<1>8. ASSUME NEW k \in Keys, k # key
      PROVE  Line(k)' = Line(k)
  BY <1>2, <1>5, <1>7, <1>8, DispatchLines, SameLine, LineNow, LineNext
<1>9. Line(key)' = Append(Line(key), i)
  <2>1. Line(key)' = LineOf(Joined(i), st, key)
    BY <1>2, <1>3, DispatchLines, LineNext
  <2>2. CASE \E m \in Items : KeyOf[m] = key /\ stage[m] = "assigned"
    <3>1. PICK m \in Items : KeyOf[m] = key /\ stage[m] = "assigned"
      BY <2>2
    <3>2. Line(key) = <<m>> \o queues[key]
      BY <1>3, <3>1, LineNow, LineOfBusy
    <3>3. LineOf(Joined(i), st, key) = <<m>> \o Append(queues[key], i)
      <4>1. BusyKeys(busy, st) /\ st[m] = "assigned"
        BY <1>2, <1>7, <3>1 DEF Good
      <4>2. LineOf(Joined(i), st, KeyOf[m]) = <<m>> \o Joined(i)[KeyOf[m]]
        BY <4>1, LineOfBusy
      <4> QED
        BY <1>5, <3>1, <4>2
    <3>4. queues[key] \in Seq(Items)
      BY <1>3
    <3> QED
      BY <2>1, <3>2, <3>3, <3>4, AppendToLine
  <2>3. CASE \A m \in Items : KeyOf[m] = key => stage[m] # "assigned"
    BY <1>5, <1>7, <2>1, <2>3, LineNow, LineOfIdle
  <2> QED
    BY <2>2, <2>3
<1>10. waitingLines' = [waitingLines EXCEPT ![KeyOf[i]] = Append(@, i)]
  BY <1>3, <1>6, <1>8, <1>9 DEF waitingLines
<1>11. running' = running
  <2>1. \A m \in Items : stage'[m] = st[m] \/ (st[m] = "queued" /\ stage'[m] = "assigned")
    BY <1>2, DispatchStep
  <2> QED
    BY <1>7, <2>1 DEF running, In
<1>12. i \notin Promise!Accepted
  BY <1>1, AcceptedHold
<1>13. Cardinality(Promise!Accepted) < Capacity
  <2>1. Promise!Accepted \cup {i} \subseteq Held(stage)
    BY <1>1, AcceptedHold DEF Held, Holding
  <2>2. IsFiniteSet(Held(stage)) /\ Cardinality(Held(stage)) \in Nat
    BY ItemsFinite DEF Held
  <2>3. Cardinality(Promise!Accepted \cup {i}) <= Cardinality(Held(stage))
    BY <2>1, <2>2, FS_Subset
  <2>4. Promise!Accepted \subseteq Items
    BY AcceptedHold
  <2>5. /\ Cardinality(Promise!Accepted \cup {i}) = Cardinality(Promise!Accepted) + 1
        /\ Cardinality(Promise!Accepted) \in Nat
    BY <1>12, <2>4, OneMore, ItemsFinite
  <2>6. Cardinality(Held(stage)) <= Capacity /\ Capacity \in Nat
    BY <2>2, ExecutorAssumption DEF ExecutorInv, Capacity
  <2> QED
    BY <2>2, <2>3, <2>5, <2>6
<1>14. Promise!Cardinality(Promise!Accepted) < Capacity
  BY <1>13 DEF Cardinality, Promise!Cardinality
<1> QED
  BY <1>10, <1>11, <1>12, <1>14 DEF Promise!Accept, waitingLines, running

LEMMA StartStep ==
  ASSUME ExecutorInv, NEW i \in Items, Run(i)
  PROVE  \E k \in Keys : Promise!Start(k)
<1> DEFINE key == KeyOf[i]
<1>1. /\ stage[i] = "assigned" /\ queues' = queues
      /\ stage' = [stage EXCEPT ![i] = "running"]
  BY DEF Run, Move, keyed
<1>2. /\ key \in Keys /\ queues \in [Keys -> Seq(Items)] /\ stage \in [Items -> Stages]
      /\ BusyKeys(busy, stage)
  BY ExecutorAssumption DEF ExecutorInv, Good, Types
<1>3. stage'[i] = "running" /\ \A m \in Items \ {i} : stage'[m] = stage[m]
  BY <1>1, <1>2
<1>4. Line(key) = <<i>> \o queues[key]
  BY <1>1, <1>2, LineNow, LineOfBusy
<1>5. \A m \in Items : KeyOf[m] = key /\ m # i => stage[m] \notin Active
  BY <1>1, <1>2 DEF BusyKeys, Active
<1> HIDE DEF key
<1>6. Line(key)' = queues[key]
  <2>1. \A m \in Items : KeyOf[m] = key => stage'[m] # "assigned"
    BY <1>3, <1>5 DEF Active
  <2> QED
    BY <1>1, <2>1, LineNext, LineOfIdle
<1>7. ASSUME NEW k \in Keys, k # key
      PROVE  Line(k)' = Line(k)
  <2>1. \A m \in Items : KeyOf[m] = k => (stage'[m] = "assigned" <=> stage[m] = "assigned")
    BY <1>3, <1>7 DEF key
  <2>2. Assigned(stage', k) = Assigned(stage, k)
    BY <2>1 DEF Assigned
  <2>3. queues' = queues
    BY <1>1
  <2>4. LineOf(queues', stage', k) = LineOf(queues, stage, k)
    BY <2>2, <2>3 DEF LineOf
  <2> QED
    BY <2>4, LineNow, LineNext
<1>8. queues[key] \in Seq(Items)
  BY <1>2
<1>9. Line(key) # <<>> /\ Head(Line(key)) = i /\ Line(key)' = Tail(Line(key))
  <2> DEFINE s == queues[key]
  <2>1. s \in Seq(Items)
    BY <1>8
  <2> HIDE DEF s
  <2>2. <<i>> \o s # <<>> /\ Head(<<i>> \o s) = i /\ Tail(<<i>> \o s) = s
    BY <2>1
  <2> QED
    BY <1>4, <1>6, <2>2 DEF s
<1>10. waitingLines[key] = Line(key)
  BY <1>2 DEF waitingLines
<1>11. waitingLines' = [waitingLines EXCEPT ![key] = Tail(@)]
  BY <1>2, <1>7, <1>9 DEF waitingLines
<1>12. running' = running \cup {Head(waitingLines[key])}
  BY <1>3, <1>9, <1>10 DEF running, In
<1>13. \A m \in running : KeyOf[m] # key
  BY <1>1, <1>5 DEF running, In, Active
<1>14. waitingLines[key] # <<>>
  BY <1>9, <1>10
<1>15. Promise!Start(key)
  BY <1>11, <1>12, <1>13, <1>14 DEF Promise!Start, waitingLines, running
<1> QED
  BY <1>2, <1>15

LEMMA EndStep ==
  ASSUME ExecutorInv, NEW i \in Items, Complete(i)
  PROVE  Promise!End(i)
<1>1. /\ stage \in [Items -> Stages] /\ queues' = queues /\ stage[i] = "running"
      /\ stage' = [stage EXCEPT ![i] = "ended"]
  BY DEF ExecutorInv, Good, Types, keyed, Complete, Move
<1>2. stage'[i] = "ended" /\ \A m \in Items \ {i} : stage'[m] = stage[m]
  BY <1>1
<1>3. ASSUME NEW k \in Keys
      PROVE  Line(k)' = Line(k)
  <2>1. \A m \in Items : stage'[m] = "assigned" <=> stage[m] = "assigned"
    BY <1>1, <1>2
  <2>2. Assigned(stage', k) = Assigned(stage, k)
    BY <2>1 DEF Assigned
  <2>3. queues' = queues
    BY <1>1
  <2>4. LineOf(queues', stage', k) = LineOf(queues, stage, k)
    BY <2>2, <2>3 DEF LineOf
  <2> QED
    BY <2>4, LineNow, LineNext
<1>4. waitingLines' = waitingLines
  BY <1>3 DEF waitingLines
<1>5. i \in running /\ running' = running \ {i}
  BY <1>1, <1>2 DEF running, In
<1> QED
  BY <1>4, <1>5 DEF Promise!End, waitingLines, running

LEMMA RetireQuietly ==
  ASSUME ExecutorInv, NEW i \in Items, Retire(i)
  PROVE  waitingLines' = waitingLines /\ running' = running
<1> DEFINE b == busy \ {KeyOf[i]}
           st == [stage EXCEPT ![i] = "done"]
<1>1. stage[i] = "released" /\ stage \in [Items -> Stages]
  BY DEF Retire, ExecutorInv, Good, Types
<1>2. PICK r : Good(queues, r, b, st) /\ Dispatch(queues, r, b, st)
  BY RetireGood
<1>3. st[i] = "done" /\ \A m \in Items \ {i} : st[m] = stage[m]
  BY <1>1
<1> HIDE DEF b, st
<1>4. \A m \in Items : /\ st[m] = "assigned" <=> stage[m] = "assigned"
                       /\ st[m] = "running" <=> stage[m] = "running"
  BY <1>1, <1>3
<1>5. \A m \in Items : stage'[m] = st[m] \/ (st[m] = "queued" /\ stage'[m] = "assigned")
  BY <1>2, DispatchStep
<1>6. \A k \in Keys : Line(k)' = Line(k)
  BY <1>2, <1>4, DispatchLines, SameLine, LineNow, LineNext
<1> QED
  BY <1>4, <1>5, <1>6, Stutter

LEMMA KeptOfLine ==
  ASSUME NEW s \in Seq(Items), NEW m \in Items
  PROVE  /\ <<m>> \o <<>> = SubSeq(<<m>> \o s, 1, 1) /\ 1 <= Len(<<m>> \o s)
         /\ <<>> = SubSeq(s, 1, 0) /\ 0 <= Len(s)
OBVIOUS

\* A cancelling shutdown drops what no worker has been given, and keeps the item
\* of each key that has one.
LEMMA DropStep ==
  ASSUME ExecutorInv, NEW wait \in BOOLEAN, Shutdown(wait, TRUE)
  PROVE  Promise!Drop
<1> DEFINE gone == In({"queued"})
           kept == [k \in Keys |-> IF Assigned(stage, k) = {} THEN 0 ELSE 1]
<1>1. /\ queues' = [k \in Keys |-> <<>>]
      /\ stage' = [i \in Items |-> IF i \in gone THEN "cancelled" ELSE stage[i]]
  BY DEF Shutdown
<1>2. \A i \in Items : stage'[i] = IF stage[i] = "queued" THEN "cancelled" ELSE stage[i]
  BY <1>1 DEF In
<1>3. \A i \in Items : /\ stage'[i] = "assigned" <=> stage[i] = "assigned"
                       /\ stage'[i] = "running" <=> stage[i] = "running"
  BY <1>2
<1>4. kept \in [Keys -> 0..Capacity]
  BY ExecutorAssumption DEF Capacity
<1>5. ASSUME NEW k \in Keys
      PROVE  kept[k] <= Len(Line(k)) /\ Line(k)' = SubSeq(Line(k), 1, kept[k])
  <2>1. queues[k] \in Seq(Items) /\ BusyKeys(busy, stage) /\ BusyKeys(busy', stage')
    BY CancelStep DEF ExecutorInv, Good, Types
  <2>2. CASE \E m \in Items : KeyOf[m] = k /\ stage[m] = "assigned"
    <3>1. PICK m \in Items : KeyOf[m] = k /\ stage[m] = "assigned"
      BY <2>2
    <3>2. kept[k] = 1
      BY <3>1 DEF Assigned
    <3>3. Line(k) = <<m>> \o queues[k]
      BY <2>1, <3>1, LineNow, LineOfBusy
    <3>4. Line(k)' = <<m>> \o <<>>
      <4>1. stage'[m] = "assigned" /\ queues'[k] = <<>>
        BY <1>1, <1>3, <3>1
      <4> QED
        BY <2>1, <3>1, <4>1, LineNext, LineOfBusy
    <3> QED
      BY <2>1, <3>2, <3>3, <3>4, KeptOfLine
  <2>3. CASE \A m \in Items : KeyOf[m] = k => stage[m] # "assigned"
    <3>1. kept[k] = 0
      BY <2>3 DEF Assigned
    <3>2. Line(k) = queues[k]
      BY <2>3, LineNow, LineOfIdle
    <3>3. Line(k)' = <<>>
      BY <1>1, <1>3, <2>3, LineNext, LineOfIdle
    <3>4. queues[k] = <<>> \o queues[k] /\ SubSeq(queues[k], 1, 0) = <<>> /\ 0 <= Len(queues[k])
      BY <2>1
    <3> QED
      BY <3>1, <3>2, <3>3, <3>4
  <2> QED
    BY <2>2, <2>3
<1> HIDE DEF kept
<1>6. \A k \in Keys : waitingLines[k] = Line(k)
  BY DEF waitingLines
<1>7. waitingLines' = [k \in Keys |-> SubSeq(waitingLines[k], 1, kept[k])]
  BY <1>5 DEF waitingLines
<1>8. \A k \in Keys : kept[k] <= Len(waitingLines[k])
  BY <1>5, <1>6
<1>9. running' = running
  BY <1>3 DEF running, In
<1> QED
  BY <1>4, <1>7, <1>8, <1>9 DEF Promise!Drop, waitingLines, running

LEMMA WaitQuietly ==
  ASSUME ExecutorInv, NEW wait \in BOOLEAN, Shutdown(wait, FALSE) \/ Drained
  PROVE  waitingLines' = waitingLines /\ running' = running
<1>1. stage' = stage /\ queues' = queues
  BY DEF Shutdown, Drained, keyed, ExecutorInv, Good, Types
<1>2. \A k \in Keys : Line(k)' = Line(k)
  BY <1>1, LineNow, LineNext, SameLine
<1> QED
  BY <1>1, <1>2, Stutter

-----------------------------------------------------------------------------
LEMMA InitPromise == Init => Promise!Init
<1> SUFFICES ASSUME Init PROVE Promise!Init
  OBVIOUS
<1>1. \A k \in Keys : Line(k) = <<>>
  BY LineNow, LineOfIdle DEF Init
<1>2. running = {}
  BY DEF Init, running, In
<1> QED
  BY <1>1, <1>2 DEF Promise!Init, running

LEMMA StepPromise ==
  ASSUME ExecutorInv, [Next]_vars
  PROVE  Promise!Next \/ (waitingLines' = waitingLines /\ running' = running)
<1>1. CASE UNCHANGED vars
  <2>1. stage' = stage /\ queues' = queues
    BY <1>1 DEF vars
  <2>2. \A k \in Keys : Line(k)' = Line(k)
    BY <2>1, LineNow, LineNext, SameLine
  <2> QED
    BY <2>1, <2>2, Stutter
<1>2. ASSUME NEW i \in Items, Submitter(i) \/ Worker(i)
      PROVE  Promise!Next \/ (waitingLines' = waitingLines /\ running' = running)
  BY <1>2, QuietStep, AcceptStep, StartStep, EndStep, RetireQuietly
     DEF Submitter, Worker, Promise!Next
<1>3. ASSUME NEW wait \in BOOLEAN, NEW cancel \in BOOLEAN, Shutdown(wait, cancel)
      PROVE  Promise!Next \/ (waitingLines' = waitingLines /\ running' = running)
  BY <1>3, DropStep, WaitQuietly DEF Promise!Next
<1> QED
  BY <1>1, <1>2, <1>3, WaitQuietly DEF Next

\* The queues, the workers and the shutdown together keep the promise the callers
\* rely on: the work of one key starts in the order it was accepted and does not
\* overlap, and no more is accepted than there is room for.
THEOREM KeepsThePromise == Spec => ImplementsPromise
<1>1. ExecutorInv /\ [Next]_vars => [Promise!Next]_<<waitingLines, running>>
  BY StepPromise
<1>2. Init => Promise!Init
  BY InitPromise
<1> QED
  BY <1>1, <1>2, Invariance, PTL
     DEF Spec, ImplementsPromise, Promise!Spec, waitingLines, running

-----------------------------------------------------------------------------
\* Induction, as a fact about sets of numbers.

LEMMA LeastNatural ==
  ASSUME NEW S, S \subseteq Nat, S # {}
  PROVE  \E m \in S : \A k \in S : m <= k
<1> DEFINE R == OpToRel(<, Nat)
<1>1. \A i, j \in Nat : i < j => <<i, j>> \in R
  BY DEF OpToRel
<1>2. IsWellFoundedOn(R, Nat)
  BY NatLessThanWellFounded
<1> HIDE DEF R
<1>3. PICK m \in S : \A k \in S : <<k, m>> \notin R
  BY <1>2, WFMin
<1>4. \A k \in S : ~(k < m)
  BY <1>1, <1>3
<1> QED
  BY <1>4

LEMMA Induction ==
  ASSUME NEW S, 0 \in S, \A n \in Nat : n \in S => n + 1 \in S
  PROVE  \A n \in Nat : n \in S
<1> SUFFICES ASSUME Nat \ S # {} PROVE FALSE
  OBVIOUS
<1>1. PICK m \in Nat \ S : \A k \in Nat \ S : m <= k
  BY LeastNatural
<1>2. m # 0 /\ m - 1 \in Nat
  OBVIOUS
<1>3. m - 1 \in S
  BY <1>1, <1>2
<1> QED
  BY <1>2, <1>3, m - 1 + 1 = m

-----------------------------------------------------------------------------
\* Sequences of records, none of which is of a delivery of another.

Records == [what : Deliveries, at : Nat]
Uniq(s) == \A i, j \in DOMAIN s : s[i].what = s[j].what => i = j

LEMMA WhatsAppended ==
  ASSUME NEW s \in Seq(Records), NEW x \in Records
  PROVE  /\ Append(s, x) \in Seq(Records) /\ Len(Append(s, x)) = Len(s) + 1
         /\ Whats(Append(s, x)) = Whats(s) \cup {x.what}
         /\ Uniq(s) /\ x.what \notin Whats(s) => Uniq(Append(s, x))
<1> DEFINE t == Append(s, x)
<1>1. /\ t \in Seq(Records) /\ Len(t) = Len(s) + 1 /\ Len(s) \in Nat
      /\ DOMAIN t = 1..(Len(s) + 1) /\ DOMAIN s = 1..Len(s)
      /\ \A i \in 1..Len(s) : t[i] = s[i]
      /\ t[Len(s) + 1] = x
  OBVIOUS
<1> HIDE DEF t
<1>2. Whats(t) = Whats(s) \cup {x.what}
  <2>1. \A i \in DOMAIN t : t[i].what \in Whats(s) \cup {x.what}
    BY <1>1 DEF Whats
  <2>2. \A i \in DOMAIN s : s[i].what \in Whats(t)
    BY <1>1 DEF Whats
  <2>3. x.what \in Whats(t)
    BY <1>1 DEF Whats
  <2> QED
    BY <2>1, <2>2, <2>3 DEF Whats
<1>3. ASSUME Uniq(s), x.what \notin Whats(s) PROVE Uniq(t)
  <2> SUFFICES ASSUME NEW i \in DOMAIN t, NEW j \in DOMAIN t, t[i].what = t[j].what PROVE i = j
    BY DEF Uniq
  <2>1. \A k \in DOMAIN s : s[k].what # x.what
    BY <1>3 DEF Whats
  <2> QED
    BY <1>1, <1>3, <2>1 DEF Uniq
<1> QED
  BY <1>1, <1>2, <1>3 DEF t

LEMMA WhatsOfTail ==
  ASSUME NEW s \in Seq(Records), s # <<>>
  PROVE  /\ Tail(s) \in Seq(Records) /\ Len(Tail(s)) = Len(s) - 1 /\ Head(s) \in Records
         /\ Whats(s) = Whats(Tail(s)) \cup {Head(s).what}
         /\ Uniq(s) => Uniq(Tail(s)) /\ Head(s).what \notin Whats(Tail(s))
<1> DEFINE t == Tail(s)
<1>1. /\ t \in Seq(Records) /\ Len(t) = Len(s) - 1 /\ Len(s) \in Nat \ {0}
      /\ DOMAIN t = 1..(Len(s) - 1) /\ DOMAIN s = 1..Len(s)
      /\ \A i \in 1..(Len(s) - 1) : t[i] = s[i + 1]
      /\ Head(s) = s[1] /\ Head(s) \in Records
  OBVIOUS
<1> HIDE DEF t
<1>2. Whats(s) = Whats(t) \cup {Head(s).what}
  <2>1. \A i \in DOMAIN s : s[i].what \in Whats(t) \cup {Head(s).what}
    <3> SUFFICES ASSUME NEW i \in DOMAIN s, i # 1 PROVE s[i].what \in Whats(t)
      BY <1>1
    <3>1. i - 1 \in DOMAIN t /\ t[i - 1] = s[i]
      BY <1>1
    <3> QED
      BY <3>1 DEF Whats
  <2>2. ASSUME NEW i \in DOMAIN t PROVE t[i].what \in Whats(s)
    <3>1. i + 1 \in DOMAIN s /\ t[i] = s[i + 1]
      BY <1>1
    <3> QED
      BY <3>1 DEF Whats
  <2>3. Head(s).what \in Whats(s)
    <3>1. 1 \in DOMAIN s /\ Head(s) = s[1]
      BY <1>1
    <3> QED
      BY <3>1 DEF Whats
  <2> QED
    BY <2>1, <2>2, <2>3 DEF Whats
<1>3. ASSUME Uniq(s) PROVE Uniq(t) /\ Head(s).what \notin Whats(t)
  <2>1. \A i, j \in DOMAIN t : t[i].what = t[j].what => i + 1 = j + 1
    BY <1>1, <1>3 DEF Uniq
  <2>2. \A i \in DOMAIN t : t[i].what # s[1].what
    BY <1>1, <1>3 DEF Uniq
  <2> QED
    BY <1>1, <2>1, <2>2 DEF Uniq, Whats
<1> QED
  BY <1>1, <1>2, <1>3 DEF t

LEMMA WhatsJoined ==
  ASSUME NEW s \in Seq(Records), NEW t \in Seq(Records)
  PROVE  /\ s \o t \in Seq(Records) /\ Len(s \o t) = Len(s) + Len(t)
         /\ Whats(s \o t) = Whats(s) \cup Whats(t)
         /\ Uniq(s) /\ Uniq(t) /\ Whats(s) \cap Whats(t) = {} => Uniq(s \o t)
<1> DEFINE u == s \o t
           m == Len(s)
           n == Len(t)
<1>1. /\ u \in Seq(Records) /\ Len(u) = m + n /\ m \in Nat /\ n \in Nat
      /\ DOMAIN u = 1..(m + n) /\ DOMAIN s = 1..m /\ DOMAIN t = 1..n
      /\ \A i \in 1..m : u[i] = s[i]
      /\ \A i \in 1..(m + n) : i > m => u[i] = t[i - m]
      /\ \A i \in 1..n : u[m + i] = t[i]
  OBVIOUS
<1> HIDE DEF u, m, n
<1>2. Whats(u) = Whats(s) \cup Whats(t)
  <2>1. \A i \in DOMAIN u : u[i].what \in Whats(s) \cup Whats(t)
    <3> SUFFICES ASSUME NEW i \in 1..(m + n) PROVE u[i].what \in Whats(s) \cup Whats(t)
      BY <1>1
    <3>1. CASE i \in 1..m
      BY <1>1, <3>1 DEF Whats
    <3>2. CASE i > m
      <4>1. i - m \in DOMAIN t /\ u[i] = t[i - m]
        BY <1>1, <3>2
      <4> QED
        BY <4>1 DEF Whats
    <3> QED
      BY <1>1, <3>1, <3>2
  <2>2. \A i \in DOMAIN s : s[i].what \in Whats(u)
    BY <1>1 DEF Whats
  <2>3. \A i \in DOMAIN t : t[i].what \in Whats(u)
    <3> SUFFICES ASSUME NEW i \in 1..n PROVE t[i].what \in Whats(u)
      BY <1>1
    <3>1. m + i \in DOMAIN u /\ u[m + i] = t[i]
      BY <1>1
    <3> QED
      BY <3>1 DEF Whats
  <2> QED
    BY <2>1, <2>2, <2>3 DEF Whats
<1>3. ASSUME Uniq(s), Uniq(t), Whats(s) \cap Whats(t) = {} PROVE Uniq(u)
  <2> SUFFICES ASSUME NEW i \in 1..(m + n), NEW j \in 1..(m + n), u[i].what = u[j].what PROVE i = j
    BY <1>1 DEF Uniq
  <2>0. \A a \in DOMAIN s, b \in DOMAIN t : s[a].what # t[b].what
    BY <1>3 DEF Whats
  <2>1. CASE i \in 1..m /\ j \in 1..m
    BY <1>1, <1>3, <2>1 DEF Uniq
  <2>2. CASE i > m /\ j > m
    <3>1. i - m \in DOMAIN t /\ j - m \in DOMAIN t /\ u[i] = t[i - m] /\ u[j] = t[j - m]
      BY <1>1, <2>2
    <3>2. i - m = j - m
      BY <1>3, <3>1 DEF Uniq
    <3> QED
      BY <1>1, <3>2
  <2>3. CASE i \in 1..m /\ j > m
    <3>1. j - m \in DOMAIN t /\ u[j] = t[j - m] /\ u[i] = s[i] /\ i \in DOMAIN s
      BY <1>1, <2>3
    <3> QED
      BY <2>0, <3>1
  <2>4. CASE i > m /\ j \in 1..m
    <3>1. i - m \in DOMAIN t /\ u[i] = t[i - m] /\ u[j] = s[j] /\ j \in DOMAIN s
      BY <1>1, <2>4
    <3> QED
      BY <2>0, <3>1
  <2> QED
    BY <1>1, <2>1, <2>2, <2>3, <2>4
<1> QED
  BY <1>1, <1>2, <1>3 DEF u, m, n

\* A part of a sequence.
LEMMA WhatsOfPart ==
  ASSUME NEW s \in Seq(Records), NEW a \in 1..(Len(s) + 1), NEW b \in (a - 1)..Len(s)
  PROVE  /\ SubSeq(s, a, b) \in Seq(Records) /\ Len(SubSeq(s, a, b)) = b + 1 - a
         /\ Whats(SubSeq(s, a, b)) = {s[i].what : i \in a..b}
         /\ Uniq(s) => Uniq(SubSeq(s, a, b))
<1> DEFINE t == SubSeq(s, a, b)
<1>1. /\ Len(s) \in Nat /\ DOMAIN s = 1..Len(s) /\ a \in Nat /\ b \in Nat /\ a - 1 \in Nat
  OBVIOUS
<1>2. /\ t = [i \in 1..(b + 1 - a) |-> s[a + i - 1]] /\ b + 1 - a \in Nat
  BY <1>1
<1>3. /\ t \in Seq(Records) /\ Len(t) = b + 1 - a /\ DOMAIN t = 1..(b + 1 - a)
      /\ \A i \in 1..(b + 1 - a) : t[i] = s[i + (a - 1)]
  <2>1. \A i \in 1..(b + 1 - a) : s[a + i - 1] \in Records /\ a + i - 1 = i + (a - 1)
    BY <1>1
  <2>2. t \in Seq(Records)
    BY <1>1
  <2> QED
    BY <1>1, <1>2, <2>1, <2>2
<1> HIDE DEF t
<1>4. Whats(t) = {s[i].what : i \in a..b}
  <2>1. ASSUME NEW i \in 1..(b + 1 - a) PROVE \E j \in a..b : t[i].what = s[j].what
    <3>0. i + (a - 1) \in a..b
      BY <1>1
    <3>1. i + (a - 1) \in a..b /\ t[i] = s[i + (a - 1)]
      BY <3>0, <1>3
    <3> QED
      BY <3>1
  <2>2. ASSUME NEW j \in a..b PROVE \E i \in 1..(b + 1 - a) : t[i].what = s[j].what
    <3>1. j - (a - 1) \in 1..(b + 1 - a) /\ (j - (a - 1)) + (a - 1) = j
      BY <1>1
    <3>2. t[j - (a - 1)] = s[j]
      BY <1>3, <3>1
    <3> QED
      BY <1>3, <3>1, <3>2
  <2>3. Whats(t) = {t[i].what : i \in 1..(b + 1 - a)}
    BY <1>3 DEF Whats
  <2>4. \A w : w \in {t[i].what : i \in 1..(b + 1 - a)} <=> w \in {s[j].what : j \in a..b}
    <3> DEFINE I == 1..(b + 1 - a)
               J == a..b
               T(i) == t[i].what
               S(j) == s[j].what
    <3>1. \A i \in I : \E j \in J : T(i) = S(j)
      BY <2>1
    <3>2. \A j \in J : \E i \in I : T(i) = S(j)
      BY <2>2
    <3> HIDE DEF I, J, T, S
    <3>3. \A w : w \in {T(i) : i \in I} <=> w \in {S(j) : j \in J}
      BY <3>1, <3>2
    <3> QED
      BY <3>3 DEF I, J, T, S
  <2> QED
    BY <2>3, <2>4
<1>5. ASSUME Uniq(s) PROVE Uniq(t)
  <2> SUFFICES ASSUME NEW i \in 1..(b + 1 - a), NEW j \in 1..(b + 1 - a), t[i].what = t[j].what PROVE i = j
    BY <1>3 DEF Uniq
  <2>1. i + (a - 1) \in DOMAIN s /\ j + (a - 1) \in DOMAIN s
    BY <1>1
  <2>2. i + (a - 1) = j + (a - 1)
    BY <1>3, <1>5, <2>1 DEF Uniq
  <2> QED
    BY <1>1, <2>2
<1> QED
  BY <1>3, <1>4, <1>5 DEF t

\* The two halves of a sequence.
LEMMA Halves ==
  ASSUME NEW s \in Seq(Records), Uniq(s), NEW n \in 0..Len(s)
  PROVE  LET first == SubSeq(s, 1, n)
             rest == SubSeq(s, n + 1, Len(s))
         IN  /\ first \in Seq(Records) /\ Len(first) = n /\ Uniq(first)
             /\ rest \in Seq(Records) /\ Len(rest) = Len(s) - n /\ Uniq(rest)
             /\ Whats(first) \cup Whats(rest) = Whats(s) /\ Whats(first) \cap Whats(rest) = {}
<1> DEFINE L == Len(s)
           a == n + 1
           z == 1
<1>1. L \in Nat /\ DOMAIN s = 1..L
  OBVIOUS
<1>2. n \in Nat /\ n <= L
  BY <1>1
<1>3. /\ z \in 1..(L + 1) /\ n \in (z - 1)..L /\ n + 1 - z = n
      /\ a \in 1..(L + 1) /\ L \in (a - 1)..L /\ L + 1 - a = L - n
      /\ \A i \in 1..L : i \in z..n \/ i \in a..L
      /\ \A i \in z..n : i \in 1..L /\ i \notin a..L
      /\ \A i \in a..L : i \in 1..L
  <2> HIDE DEF L
  <2>1. z \in 1..(L + 1) /\ n \in (z - 1)..L /\ n + 1 - z = n
    BY <1>1, <1>2
  <2>2. a \in 1..(L + 1)
    BY <1>1, <1>2
  <2>3. L \in (a - 1)..L
    BY <1>1, <1>2
  <2>4. L + 1 - a = L - n
    BY <1>1, <1>2
  <2>5. \A i \in 1..L : i \in z..n \/ i \in a..L
    BY <1>1, <1>2
  <2>6. \A i \in z..n : i \in 1..L /\ i \notin a..L
    BY <1>1, <1>2
  <2>7. \A i \in a..L : i \in 1..L
    BY <1>1, <1>2
  <2> QED
    BY <2>1, <2>2, <2>3, <2>4, <2>5, <2>6, <2>7
<1> HIDE DEF L, a, z
<1>4. /\ SubSeq(s, z, n) \in Seq(Records) /\ Len(SubSeq(s, z, n)) = n /\ Uniq(SubSeq(s, z, n))
      /\ Whats(SubSeq(s, z, n)) = {s[i].what : i \in z..n}
  BY <1>3, WhatsOfPart DEF L
<1>5. /\ SubSeq(s, a, L) \in Seq(Records) /\ Len(SubSeq(s, a, L)) = L - n /\ Uniq(SubSeq(s, a, L))
      /\ Whats(SubSeq(s, a, L)) = {s[i].what : i \in a..L}
  BY <1>3, WhatsOfPart DEF L
<1>6. Whats(s) = {s[i].what : i \in 1..L}
  BY <1>1 DEF Whats
<1>7. \A i, j \in 1..L : s[i].what = s[j].what => i = j
  BY <1>1 DEF Uniq
<1>8. /\ Whats(SubSeq(s, z, n)) \cup Whats(SubSeq(s, a, L)) = Whats(s)
      /\ Whats(SubSeq(s, z, n)) \cap Whats(SubSeq(s, a, L)) = {}
  <2> DEFINE A == z..n
             B == a..L
             C == 1..L
  <2>1. (\A i \in C : i \in A \/ i \in B) /\ (\A i \in A : i \in C /\ i \notin B) /\ (\A i \in B : i \in C)
    BY <1>3
  <2> HIDE DEF A, B, C
  <2>2. C = A \cup B /\ A \cap B = {}
    BY <2>1
  <2>3. {s[i].what : i \in A} \cup {s[i].what : i \in B} = {s[i].what : i \in C}
    BY <2>2
  <2>4. \A i, j \in C : s[i].what = s[j].what => i = j
    BY <1>7 DEF C
  <2>5. {s[i].what : i \in A} \cap {s[i].what : i \in B} = {}
    BY <2>2, <2>4
  <2> QED
    BY <1>4, <1>5, <1>6, <2>3, <2>5 DEF A, B, C
<1> QED
  BY <1>4, <1>5, <1>8 DEF L, a, z

\* A sequence without repetitions is as long as the set of what it holds.
LEMMA UniqCounts ==
  ASSUME NEW s \in Seq(Records), Uniq(s)
  PROVE  IsFiniteSet(Whats(s)) /\ Cardinality(Whats(s)) = Len(s)
<1> DEFINE f == [i \in 1..Len(s) |-> s[i].what]
<1>1. Len(s) \in Nat /\ DOMAIN s = 1..Len(s)
  OBVIOUS
<1>2. f \in Bijection(1..Len(s), Whats(s))
  <2>1. f \in [1..Len(s) -> Whats(s)]
    BY <1>1 DEF Whats
  <2>2. \A i, j \in 1..Len(s) : f[i] = f[j] => i = j
    BY <1>1 DEF Uniq
  <2>3. \A w \in Whats(s) : \E i \in 1..Len(s) : f[i] = w
    BY <1>1 DEF Whats
  <2> HIDE DEF f
  <2> QED
    BY <2>1, <2>2, <2>3, Fun_IsBij
<1>3. IsFiniteSet(1..Len(s)) /\ Cardinality(1..Len(s)) = Len(s)
  BY <1>1, FS_Interval
<1> QED
  BY <1>2, <1>3, FS_Bijection DEF ExistsBijection

-----------------------------------------------------------------------------
\* A value for each step from 0 to N, each computed from the one before.
Runs(f, start, step, m) == f[0] = start /\ \A n \in 1..m : f[n] = step[n][f[n - 1]]

LEMMA RecursionExists ==
  ASSUME NEW V, NEW start \in V, NEW N \in Nat, NEW step \in [1..N -> [V -> V]]
  PROVE  \E f \in [0..N -> V] : Runs(f, start, step, N)
<1> DEFINE S == {m \in Nat : m <= N => \E f \in [0..m -> V] : Runs(f, start, step, m)}
<1>1. 0 \in S
  <2> DEFINE f == [n \in 0..0 |-> start]
  <2>1. f \in [0..0 -> V] /\ Runs(f, start, step, 0)
    BY DEF Runs
  <2> QED
    BY <2>1
<1>2. ASSUME NEW m \in Nat, m \in S PROVE m + 1 \in S
  <2> SUFFICES ASSUME m + 1 <= N PROVE \E g \in [0..(m + 1) -> V] : Runs(g, start, step, m + 1)
    OBVIOUS
  <2>1. PICK f \in [0..m -> V] : Runs(f, start, step, m)
    BY <1>2
  <2> DEFINE v == step[m + 1][f[m]]
             g == [n \in 0..(m + 1) |-> IF n = m + 1 THEN v ELSE f[n]]
  <2>2. v \in V
    <3>1. m + 1 \in 1..N /\ f[m] \in V
      OBVIOUS
    <3> QED
      BY <3>1
  <2>3. g \in [0..(m + 1) -> V]
    BY <2>2
  <2>4. /\ g[0] = f[0] /\ g[m + 1] = v /\ g[m] = f[m]
        /\ \A n \in 1..m : g[n] = f[n] /\ g[n - 1] = f[n - 1]
    OBVIOUS
  <2> HIDE DEF g
  <2>5. ASSUME NEW n \in 1..(m + 1) PROVE g[n] = step[n][g[n - 1]]
    <3>1. CASE n = m + 1
      BY <2>4, <3>1
    <3>2. CASE n \in 1..m
      BY <2>1, <2>4, <3>2 DEF Runs
    <3> QED
      BY <3>1, <3>2
  <2> QED
    BY <2>1, <2>3, <2>4, <2>5 DEF Runs
<1> HIDE DEF S
<1>3. N \in S
  BY <1>1, <1>2, Induction
<1> QED
  BY <1>3 DEF S

-----------------------------------------------------------------------------
\* The records of a sequence that belong to some.

Chosen(s, some, n) == {s[i].what : i \in {j \in 1..n : s[j] \in some}}

LEMMA OnlySteps ==
  ASSUME NEW s \in Seq(Records), NEW some
  PROVE  \E g \in [0..Len(s) -> Seq(Records)] :
            /\ g[0] = <<>> /\ Only(s, some) = g[Len(s)]
            /\ \A n \in 1..Len(s) : g[n] = IF s[n] \in some THEN Append(g[n - 1], s[n]) ELSE g[n - 1]
<1> DEFINE N == Len(s)
           V == Seq(Records)
           Pick(q, n) == IF s[n] \in some THEN Append(q, s[n]) ELSE q
           Body(f) == [n \in 0..N |-> IF n = 0 THEN <<>>
                                      ELSE IF s[n] \in some THEN Append(f[n - 1], s[n]) ELSE f[n - 1]]
           step == [n \in 1..N |-> [q \in V |-> Pick(q, n)]]
<1>1. N \in Nat /\ <<>> \in V /\ \A n \in 1..N : s[n] \in Records
  OBVIOUS
<1>2. \A n \in 1..N, q \in V : Pick(q, n) \in V
  BY <1>1
<1>3. step \in [1..N -> [V -> V]] /\ \A n \in 1..N, q \in V : step[n][q] = Pick(q, n)
  BY <1>1, <1>2
<1>4. \A f, n : n \in 0..N => Body(f)[n] = IF n = 0 THEN <<>> ELSE Pick(f[n - 1], n)
  OBVIOUS
<1>5. \A f : DOMAIN Body(f) = 0..N /\ Body(f) = [n \in 0..N |-> Body(f)[n]]
  OBVIOUS
<1>6. Only(s, some) = (CHOOSE g : g = Body(g))[N]
  BY DEF Only
<1>7. \A q, n : Pick(q, n) = IF s[n] \in some THEN Append(q, s[n]) ELSE q
  OBVIOUS
<1> HIDE DEF N, V, step, Body, Pick
<1>8. PICK f \in [0..N -> V] : Runs(f, <<>>, step, N)
  BY <1>1, <1>3, RecursionExists
<1>9. f = Body(f)
  <2>1. ASSUME NEW n \in 0..N PROVE f[n] = Body(f)[n]
    <3>1. CASE n = 0
      BY <1>4, <1>8, <3>1 DEF Runs
    <3>2. CASE n \in 1..N
      <4>1. f[n - 1] \in V
        BY <1>1, <3>2
      <4>2. f[n] = Pick(f[n - 1], n)
        BY <1>3, <1>8, <3>2, <4>1 DEF Runs
      <4>3. n # 0
        BY <3>2
      <4> QED
        BY <1>4, <4>2, <4>3
    <3> QED
      BY <1>1, <3>1, <3>2
  <2> QED
    BY <1>5, <2>1
<1> DEFINE g == CHOOSE g : g = Body(g)
<1>10. g = Body(g)
  BY <1>9
<1> HIDE DEF g
<1>11. g[0] = <<>> /\ DOMAIN g = 0..N /\ g = [n \in 0..N |-> g[n]]
  BY <1>1, <1>4, <1>5, <1>10
<1>12. ASSUME NEW n \in 1..N PROVE g[n] = Pick(g[n - 1], n)
  <2>1. n \in 0..N /\ n # 0
    BY <1>1
  <2> QED
    BY <1>4, <1>10, <2>1
<1>13. \A n \in 0..N : g[n] \in V
  <2> DEFINE S == {n \in Nat : n <= N => g[n] \in V}
  <2>1. 0 \in S
    BY <1>1, <1>11
  <2>2. ASSUME NEW n \in Nat, n \in S PROVE n + 1 \in S
    <3> SUFFICES ASSUME n + 1 <= N PROVE g[n + 1] \in V
      OBVIOUS
    <3>1. g[n] \in V /\ n + 1 \in 1..N /\ n + 1 - 1 = n
      BY <1>1, <2>2
    <3>2. g[n + 1] = Pick(g[n], n + 1)
      BY <1>12, <3>1
    <3> QED
      BY <1>2, <3>1, <3>2
  <2>3. \A n \in Nat : n \in S
    <3> HIDE DEF S
    <3> QED
      BY <2>1, <2>2, Induction
  <2> QED
    BY <1>1, <2>3
<1>14. g \in [0..N -> V]
  BY <1>11, <1>13
<1> QED
  BY <1>6, <1>7, <1>11, <1>12, <1>14 DEF g, N, V

LEMMA OnlyKeeps ==
  ASSUME NEW s \in Seq(Records), NEW some
  PROVE  /\ Only(s, some) \in Seq(Records)
         /\ Whats(Only(s, some)) = Chosen(s, some, Len(s))
         /\ Uniq(s) => Uniq(Only(s, some))
<1> DEFINE N == Len(s)
<1>1. N \in Nat /\ DOMAIN s = 1..N /\ \A n \in 1..N : s[n] \in Records
  OBVIOUS
<1>2. PICK g \in [0..N -> Seq(Records)] :
        /\ g[0] = <<>> /\ Only(s, some) = g[N]
        /\ \A n \in 1..N : g[n] = IF s[n] \in some THEN Append(g[n - 1], s[n]) ELSE g[n - 1]
  BY OnlySteps
<1> DEFINE S == {n \in Nat : n <= N => Whats(g[n]) = Chosen(s, some, n) /\ (Uniq(s) => Uniq(g[n]))}
<1> HIDE DEF N
<1>3. 0 \in S
  BY <1>2 DEF Whats, Uniq, Chosen
<1>4. ASSUME NEW n \in Nat, n \in S PROVE n + 1 \in S
  <2> SUFFICES ASSUME n + 1 <= N
               PROVE  Whats(g[n + 1]) = Chosen(s, some, n + 1) /\ (Uniq(s) => Uniq(g[n + 1]))
    OBVIOUS
  <2>1. /\ n \in 0..N /\ n + 1 \in 1..N /\ n + 1 - 1 = n /\ g[n] \in Seq(Records)
        /\ s[n + 1] \in Records
    BY <1>1
  <2>2. Whats(g[n]) = Chosen(s, some, n) /\ (Uniq(s) => Uniq(g[n]))
    BY <1>4, <2>1
  <2>3. g[n + 1] = IF s[n + 1] \in some THEN Append(g[n], s[n + 1]) ELSE g[n]
    BY <1>2, <2>1
  <2>4. 1..(n + 1) = 1..n \cup {n + 1} /\ n + 1 \notin 1..n
    OBVIOUS
  <2>5. CASE s[n + 1] \in some
    <3>1. Chosen(s, some, n + 1) = Chosen(s, some, n) \cup {s[n + 1].what}
      BY <2>4, <2>5 DEF Chosen
    <3>2. ASSUME Uniq(s) PROVE s[n + 1].what \notin Chosen(s, some, n)
      <4>1. \A i \in 1..n : i \in DOMAIN s /\ i # n + 1
        BY <1>1, <2>1
      <4>2. n + 1 \in DOMAIN s
        BY <1>1, <2>1
      <4> QED
        BY <3>2, <4>1, <4>2 DEF Chosen, Uniq
    <3> QED
      BY <2>1, <2>2, <2>3, <2>5, <3>1, <3>2, WhatsAppended
  <2>6. CASE s[n + 1] \notin some
    <3>1. Chosen(s, some, n + 1) = Chosen(s, some, n)
      BY <2>4, <2>6 DEF Chosen
    <3> QED
      BY <2>2, <2>3, <2>6, <3>1
  <2> QED
    BY <2>5, <2>6
<1>5. N \in S
  <2> HIDE DEF S
  <2> QED
    BY <1>1, <1>3, <1>4, Induction
<1> QED
  BY <1>1, <1>2, <1>5 DEF N

\* Those that belong and those that do not are all of them, each once.
LEMMA OnlyAndTheRest ==
  ASSUME NEW s \in Seq(Records), Uniq(s), NEW some
  PROVE  LET in == Only(s, some)
             out == Only(s, ToSet(s) \ some)
         IN  /\ Whats(in) \cup Whats(out) = Whats(s) /\ Whats(in) \cap Whats(out) = {}
             /\ Uniq(in) /\ Uniq(out) /\ Len(in) + Len(out) = Len(s)
             /\ in \in Seq(Records) /\ out \in Seq(Records)
<1> DEFINE in == Only(s, some)
           out == Only(s, ToSet(s) \ some)
<1>1. /\ in \in Seq(Records) /\ Whats(in) = Chosen(s, some, Len(s)) /\ Uniq(in)
      /\ out \in Seq(Records) /\ Whats(out) = Chosen(s, ToSet(s) \ some, Len(s)) /\ Uniq(out)
  BY OnlyKeeps
<1>2. DOMAIN s = 1..Len(s) /\ \A i \in 1..Len(s) : s[i] \in ToSet(s)
  BY DEF ToSet
<1> HIDE DEF in, out
<1>3. Whats(in) \cup Whats(out) = Whats(s)
  BY <1>1, <1>2 DEF Chosen, Whats
<1>4. Whats(in) \cap Whats(out) = {}
  BY <1>1, <1>2 DEF Chosen, Uniq
<1>5. /\ IsFiniteSet(Whats(in)) /\ Cardinality(Whats(in)) = Len(in)
      /\ IsFiniteSet(Whats(out)) /\ Cardinality(Whats(out)) = Len(out)
      /\ Cardinality(Whats(s)) = Len(s)
  BY <1>1, UniqCounts
<1>6. Cardinality(Whats(s)) = Cardinality(Whats(in)) + Cardinality(Whats(out)) - Cardinality({})
  BY <1>3, <1>4, <1>5, FS_Union
<1>7. Len(in) \in Nat /\ Len(out) \in Nat /\ Len(s) \in Nat
  BY <1>1
<1>8. Len(in) + Len(out) = Len(s)
  BY <1>5, <1>6, <1>7, FS_EmptySet
<1> QED
  BY <1>1, <1>3, <1>4, <1>8 DEF in, out

-----------------------------------------------------------------------------
\* The inductive invariant.

Done == [stage |-> "done"]
Sendings == [stage : {"sending"}, seen : SUBSET Deliveries, kept : Seq(Records),
             todo : Seq(Records), tried : Nat, failing : Seq(Records)]

HookTypes ==
  /\ accepted \subseteq Deliveries /\ targets \subseteq Targets
  /\ backlog \in Seq(Deliveries)
  /\ file \in Seq(Records) /\ clock \in Nat
  /\ replay \in [Replays -> Sendings \cup {Idle, Done}]
  /\ \A d \in DOMAIN fate : fate[d] \in Fates

\* What a replay has in its hands, each delivery once and no more than a file holds.
Holds(p) == Whats(p.kept) \cup Whats(p.failing) \cup Whats(p.todo)

InOrder(p) ==
  /\ Uniq(p.kept) /\ Uniq(p.failing) /\ Uniq(p.todo)
  /\ Whats(p.kept) \cap Whats(p.failing) = {}
  /\ Whats(p.kept) \cap Whats(p.todo) = {}
  /\ Whats(p.failing) \cap Whats(p.todo) = {}
  /\ Len(p.kept) + Len(p.failing) + Len(p.todo) <= Cap

Out == {r \in Replays : replay[r].stage = "sending"}

\* A delivery is queued once, by the report of its occurrence.
QueuedOnce ==
  /\ \A i, j \in DOMAIN backlog : backlog[i] = backlog[j] => i = j
  /\ ToSet(backlog) \cap DOMAIN sending = {}
  /\ \A d \in accepted : d[1] \in reported

\* One that was written has left the pool for good: a replay only holds what was in
\* the file.
Filed == Whats(file) \cup UNION {Holds(replay[r]) : r \in Out}

LeftThePool ==
  /\ Underway \subseteq accepted /\ Filed \subseteq accepted
  /\ Underway \cap Filed = {}

FileIsShort == Uniq(file) /\ Len(file) <= Cap

\* What a replay read it still holds, or it has an end.
ReplaysHold ==
  \A r \in Out : InOrder(replay[r]) /\ replay[r].seen \subseteq Holds(replay[r]) \cup DOMAIN fate

Covered == accepted \subseteq Underway \cup Whats(file) \cup DOMAIN fate

HooksInv ==
  /\ HookTypes /\ QueuedOnce /\ LeftThePool /\ FileIsShort /\ ReplaysHold /\ Covered

FateTyped == \A d \in DOMAIN fate : fate[d] \in Fates

LEMMA EndAdds ==
  ASSUME NEW ds, NEW how \in Fates, End(ds, how), FateTyped
  PROVE  DOMAIN fate' = DOMAIN fate \cup ds /\ FateTyped'
BY DEF End, FateTyped

LEMMA EndedAll ==
  ASSUME FateTyped
  PROVE  Ended(Fates) = DOMAIN fate
BY DEF FateTyped, Ended

-----------------------------------------------------------------------------
\* A step of the pool that queues nothing.
LEMMA PoolSteps ==
  ASSUME HooksInv, UNCHANGED <<reported, accepted, file, clock, replay>>,
         targets' \subseteq Targets, backlog' \in Seq(Deliveries),
         \A i, j \in DOMAIN backlog' : backlog'[i] = backlog'[j] => i = j,
         ToSet(backlog') \cap DOMAIN sending' = {},
         Underway' \subseteq Underway, Underway \subseteq Underway' \cup DOMAIN fate',
         DOMAIN fate \subseteq DOMAIN fate', FateTyped'
  PROVE  HooksInv'
<1>1. HookTypes'
  BY DEF HooksInv, HookTypes, FateTyped
<1>2. QueuedOnce'
  BY DEF HooksInv, QueuedOnce
<1>3. Out' = Out /\ Filed' = Filed
  BY DEF Out, Filed
<1>4. LeftThePool'
  BY <1>3 DEF HooksInv, LeftThePool
<1>5. FileIsShort'
  BY DEF HooksInv, FileIsShort
<1>6. ReplaysHold'
  BY <1>3 DEF HooksInv, ReplaysHold
<1>7. Covered'
  BY DEF HooksInv, Covered
<1> QED
  BY <1>1, <1>2, <1>4, <1>5, <1>6, <1>7 DEF HooksInv

LEMMA BeginKeeps ==
  ASSUME HooksInv, Begin
  PROVE  HooksInv'
<1> DEFINE h == Head(backlog)
<1>1. /\ backlog \in Seq(Deliveries) /\ backlog # <<>> /\ targets \subseteq Targets /\ FateTyped
      /\ \A i, j \in DOMAIN backlog : backlog[i] = backlog[j] => i = j
      /\ ToSet(backlog) \cap DOMAIN sending = {}
  BY DEF HooksInv, HookTypes, QueuedOnce, Begin, FateTyped
<1>2. /\ backlog' = Tail(backlog) /\ DOMAIN sending' = DOMAIN sending \cup {h}
      /\ UNCHANGED <<reported, accepted, targets, file, clock, replay, fate>>
  BY DEF Begin
<1>3. /\ backlog' \in Seq(Deliveries) /\ DOMAIN backlog = 1..Len(backlog) /\ Len(backlog) \in Nat \ {0}
      /\ DOMAIN backlog' = 1..(Len(backlog) - 1) /\ h = backlog[1]
      /\ \A i \in 1..(Len(backlog) - 1) : backlog'[i] = backlog[i + 1]
  BY <1>1, <1>2
<1> HIDE DEF h
<1>4. \A i, j \in DOMAIN backlog' : backlog'[i] = backlog'[j] => i = j
  <2> SUFFICES ASSUME NEW i \in DOMAIN backlog', NEW j \in DOMAIN backlog', backlog'[i] = backlog'[j]
               PROVE  i = j
    OBVIOUS
  <2>1. i + 1 \in DOMAIN backlog /\ j + 1 \in DOMAIN backlog
    BY <1>3
  <2>2. i + 1 = j + 1
    BY <1>1, <1>3, <2>1
  <2> QED
    BY <1>3, <2>2
<1>5. ToSet(backlog) = ToSet(backlog') \cup {h} /\ h \notin ToSet(backlog')
  <2>1. ASSUME NEW i \in DOMAIN backlog' PROVE backlog'[i] \in ToSet(backlog) /\ backlog'[i] # h
    <3>1. i + 1 \in DOMAIN backlog /\ i + 1 # 1 /\ 1 \in DOMAIN backlog /\ backlog'[i] = backlog[i + 1]
      BY <1>3
    <3> QED
      BY <1>1, <1>3, <3>1 DEF ToSet
  <2>2. ASSUME NEW i \in DOMAIN backlog, i # 1 PROVE backlog[i] \in ToSet(backlog')
    <3>1. i - 1 \in DOMAIN backlog' /\ backlog'[i - 1] = backlog[i - 1 + 1] /\ i - 1 + 1 = i
      BY <1>3, <2>2
    <3> QED
      BY <3>1 DEF ToSet
  <2>3. h \in ToSet(backlog)
    <3>1. 1 \in DOMAIN backlog
      BY <1>3
    <3> QED
      BY <1>3, <3>1 DEF ToSet
  <2>4. ToSet(backlog') \subseteq ToSet(backlog) /\ h \notin ToSet(backlog')
    BY <2>1 DEF ToSet
  <2>5. ToSet(backlog) \subseteq ToSet(backlog') \cup {h}
    BY <1>3, <2>2 DEF ToSet
  <2> QED
    BY <2>3, <2>4, <2>5
<1>6. /\ Underway' = Underway /\ ToSet(backlog') \cap DOMAIN sending' = {}
  BY <1>1, <1>2, <1>5 DEF Underway
<1> QED
  BY <1>1, <1>2, <1>3, <1>4, <1>6, PoolSteps DEF FateTyped

\* A thread is done with a delivery that has an end.
LEMMA LeavingKeeps ==
  ASSUME HooksInv, NEW d \in DOMAIN sending, NEW how \in Fates, Leave(d), End({d}, how),
         UNCHANGED <<reported, accepted, targets, backlog, file, clock, replay>>
  PROVE  HooksInv'
<1>1. /\ backlog \in Seq(Deliveries) /\ targets \subseteq Targets /\ FateTyped
      /\ \A i, j \in DOMAIN backlog : backlog[i] = backlog[j] => i = j
      /\ ToSet(backlog) \cap DOMAIN sending = {}
  BY DEF HooksInv, HookTypes, QueuedOnce, FateTyped
<1>2. DOMAIN sending' = DOMAIN sending \ {d}
  BY DEF Leave, Restrict
<1>3. DOMAIN fate' = DOMAIN fate \cup {d} /\ FateTyped'
  BY <1>1, EndAdds
<1>4. /\ Underway' \subseteq Underway /\ Underway \subseteq Underway' \cup DOMAIN fate'
      /\ ToSet(backlog') \cap DOMAIN sending' = {}
  BY <1>1, <1>2, <1>3 DEF Underway
<1> QED
  BY <1>1, <1>3, <1>4, PoolSteps

LEMMA FailKeeps ==
  ASSUME HooksInv, NEW d, Fail(d)
  PROVE  HooksInv'
<1>1. DOMAIN sending' = DOMAIN sending /\ UNCHANGED <<reported, accepted, targets, backlog, file, clock, replay, fate>>
  BY DEF Fail
<1>2. /\ backlog \in Seq(Deliveries) /\ targets \subseteq Targets /\ FateTyped
      /\ \A i, j \in DOMAIN backlog : backlog[i] = backlog[j] => i = j
      /\ ToSet(backlog) \cap DOMAIN sending = {}
  BY DEF HooksInv, HookTypes, QueuedOnce, FateTyped
<1>3. Underway' = Underway
  BY <1>1 DEF Underway
<1> QED
  BY <1>1, <1>2, <1>3, PoolSteps DEF FateTyped

LEMMA StopPoolKeeps ==
  ASSUME HooksInv, StopPool
  PROVE  HooksInv'
<1>1. /\ backlog \in Seq(Deliveries) /\ targets \subseteq Targets /\ FateTyped
  BY DEF HooksInv, HookTypes, FateTyped
<1>2. backlog' = <<>> /\ UNCHANGED <<reported, accepted, targets, sending, file, clock, replay>> /\ End(ToSet(backlog), "cancelled")
  BY DEF StopPool
<1>3. DOMAIN fate' = DOMAIN fate \cup ToSet(backlog) /\ FateTyped'
  BY <1>1, <1>2, "cancelled" \in Fates, EndAdds DEF Fates
<1>4. backlog' \in Seq(Deliveries) /\ DOMAIN backlog' = {} /\ ToSet(backlog') = {}
  BY <1>2 DEF ToSet
<1>5. /\ Underway' \subseteq Underway /\ Underway \subseteq Underway' \cup DOMAIN fate'
  BY <1>2, <1>3, <1>4 DEF Underway
<1> QED
  BY <1>1, <1>2, <1>3, <1>4, <1>5, PoolSteps

LEMMA Listing ==
  ASSUME NEW S, IsFiniteSet(S)
  PROVE  /\ SetToSeq(S) \in Seq(S) /\ ToSet(SetToSeq(S)) = S
         /\ \A i, j \in DOMAIN SetToSeq(S) : SetToSeq(S)[i] = SetToSeq(S)[j] => i = j
<1> DEFINE n == Cardinality(S)
           f == SetToSeq(S)
<1>0. n \in Nat
  BY FS_CardinalityType
<1>1. PICK b : b \in [1..n -> S] /\ IsInjective(b)
  BY FS_CardinalityType DEF ExistsBijection, Bijection, Injection, Surjection, IsInjective
<1>2. f \in [1..n -> S] /\ IsInjective(f)
  BY <1>1 DEF SetToSeq
<1> HIDE DEF f
<1>3. \A i, j \in 1..n : f[i] = f[j] => i = j
  BY <1>2 DEF IsInjective
<1> HIDE DEF n
<1>4. IsFiniteSet(1..n) /\ Cardinality(1..n) = n
  BY <1>0, FS_Interval
<1>5. f \in Injection(1..n, S)
  BY <1>2, <1>3, Fun_IsInj
<1>6. f \in Surjection(1..n, S)
  BY <1>4, <1>5, FS_Injection DEF n
<1>7. \A x \in S : \E i \in 1..n : f[i] = x
  BY <1>6 DEF Surjection
<1>8. ToSet(f) = S
  BY <1>2, <1>7 DEF ToSet
<1>9. f \in Seq(S)
  BY <1>0, <1>2
<1> QED
  BY <1>2, <1>3, <1>8, <1>9 DEF f

LEMMA DispatchKeeps ==
  ASSUME HooksInv, NEW o \in Occurrences, DispatchEvent(o)
  PROVE  HooksInv'
<1> DEFINE queued == {<<o, t>> : t \in {u \in targets : EventOf[o] \in Known /\ EventOf[o] \in Accepts(u)}}
           new == SetToSeq(queued)
<1>1. /\ o \notin reported /\ reported' = reported \cup {o} /\ accepted' = accepted \cup queued
      /\ backlog' = backlog \o new
      /\ UNCHANGED <<targets, sending, file, clock, replay, up, stops, fate>>
  BY DEF DispatchEvent
<1>2. /\ backlog \in Seq(Deliveries) /\ targets \subseteq Targets
      /\ \A i, j \in DOMAIN backlog : backlog[i] = backlog[j] => i = j
      /\ ToSet(backlog) \cap DOMAIN sending = {} /\ \A d \in accepted : d[1] \in reported
      /\ Underway \subseteq accepted /\ Filed \subseteq accepted /\ Underway \cap Filed = {}
  BY DEF HooksInv, HookTypes, QueuedOnce, LeftThePool
<1>3. queued \subseteq Deliveries /\ \A d \in queued : d[1] = o
  BY <1>2 DEF Deliveries
<1>4. IsFiniteSet(queued)
  <2> DEFINE U == {u \in targets : EventOf[o] \in Known /\ EventOf[o] \in Accepts(u)}
             Pair(t) == <<o, t>>
  <2>1. IsFiniteSet(U)
    <3>1. U \subseteq Targets
      BY <1>2
    <3> HIDE DEF U
    <3> QED
      BY <3>1, WebhooksAssumption, FS_Subset
  <2> DEFINE f == [t \in U |-> Pair(t)]
  <2>2. f \in Surjection(U, queued)
    <3>1. queued = {Pair(t) : t \in U}
      OBVIOUS
    <3> HIDE DEF U, Pair, queued
    <3>2. f \in [U -> queued] /\ \A q \in queued : \E t \in U : f[t] = q
      BY <3>1
    <3> HIDE DEF f
    <3> QED
      BY <3>2, Fun_IsSurj
  <2> HIDE DEF U, Pair, queued, f
  <2> QED
    BY <2>1, <2>2, FS_Surjection
<1>5. /\ new \in Seq(queued) /\ ToSet(new) = queued
      /\ \A i, j \in DOMAIN new : new[i] = new[j] => i = j
  BY <1>4, Listing
<1> HIDE DEF queued, new
<1>6. queued \cap accepted = {}
  BY <1>1, <1>2, <1>3
<1> DEFINE m == Len(backlog)
           n == Len(new)
<1>7. /\ new \in Seq(Deliveries) /\ backlog' \in Seq(Deliveries) /\ m \in Nat /\ n \in Nat
      /\ DOMAIN backlog = 1..m /\ DOMAIN new = 1..n /\ DOMAIN backlog' = 1..(m + n)
      /\ \A i \in 1..(m + n) : backlog'[i] = IF i <= m THEN backlog[i] ELSE new[i - m]
      /\ \A i \in 1..n : backlog'[m + i] = new[i]
  <2>1. new \in Seq(Deliveries)
    BY <1>3, <1>5
  <2> QED
    BY <1>1, <1>2, <2>1
<1> HIDE DEF m, n
<1>8. ToSet(backlog) \subseteq accepted
  BY <1>2 DEF Underway
<1>9. ToSet(backlog') = ToSet(backlog) \cup queued
  <2>1. ASSUME NEW i \in 1..(m + n) PROVE backlog'[i] \in ToSet(backlog) \cup queued
    <3>1. CASE i <= m
      <4>1. i \in DOMAIN backlog /\ backlog'[i] = backlog[i]
        BY <1>7, <3>1
      <4> QED
        BY <4>1 DEF ToSet
    <3>2. CASE i > m
      <4>1. i - m \in DOMAIN new /\ backlog'[i] = new[i - m]
        BY <1>7, <3>2
      <4> QED
        BY <1>5, <4>1 DEF ToSet
    <3> QED
      BY <1>7, <3>1, <3>2
  <2>2. ASSUME NEW i \in 1..m PROVE backlog[i] \in ToSet(backlog')
    <3>1. i \in DOMAIN backlog' /\ backlog'[i] = backlog[i]
      BY <1>7
    <3> QED
      BY <3>1 DEF ToSet
  <2>3. ASSUME NEW i \in 1..n PROVE new[i] \in ToSet(backlog')
    <3>1. m + i \in DOMAIN backlog' /\ backlog'[m + i] = new[i]
      BY <1>7
    <3> QED
      BY <3>1 DEF ToSet
  <2>4. ToSet(backlog') \subseteq ToSet(backlog) \cup queued
    BY <1>7, <2>1 DEF ToSet
  <2>5. ToSet(backlog) \subseteq ToSet(backlog') /\ ToSet(new) \subseteq ToSet(backlog')
    BY <1>7, <2>2, <2>3 DEF ToSet
  <2> QED
    BY <1>5, <2>4, <2>5
<1>10. \A i, j \in DOMAIN backlog' : backlog'[i] = backlog'[j] => i = j
  <2> SUFFICES ASSUME NEW i \in 1..(m + n), NEW j \in 1..(m + n), backlog'[i] = backlog'[j] PROVE i = j
    BY <1>7
  <2>1. CASE i <= m /\ j <= m
    <3>1. i \in DOMAIN backlog /\ j \in DOMAIN backlog /\ backlog[i] = backlog[j]
      BY <1>7, <2>1
    <3> QED
      BY <1>2, <3>1
  <2>2. CASE i > m /\ j > m
    <3>1. i - m \in DOMAIN new /\ j - m \in DOMAIN new /\ new[i - m] = new[j - m]
      BY <1>7, <2>2
    <3>2. i - m = j - m
      BY <1>5, <3>1
    <3> QED
      BY <1>7, <3>2
  <2>3. \A a \in DOMAIN backlog, b \in DOMAIN new : backlog[a] # new[b]
    BY <1>5, <1>6, <1>8 DEF ToSet
  <2>4. CASE i <= m /\ j > m
    <3>1. i \in DOMAIN backlog /\ j - m \in DOMAIN new /\ backlog[i] = new[j - m]
      BY <1>7, <2>4
    <3> QED
      BY <2>3, <3>1
  <2>5. CASE i > m /\ j <= m
    <3>1. j \in DOMAIN backlog /\ i - m \in DOMAIN new /\ backlog[j] = new[i - m]
      BY <1>7, <2>5
    <3> QED
      BY <2>3, <3>1
  <2> QED
    BY <1>7, <2>1, <2>2, <2>4, <2>5
<1>11. Underway' = Underway \cup queued /\ Out' = Out /\ Filed' = Filed
  BY <1>1, <1>9 DEF Underway, Out, Filed
<1>12. HookTypes'
  BY <1>1, <1>3, <1>7 DEF HooksInv, HookTypes
<1>13. QueuedOnce'
  <2>1. DOMAIN sending \subseteq accepted
    BY <1>2 DEF Underway
  <2>2. ToSet(backlog') \cap DOMAIN sending' = {}
    BY <1>1, <1>2, <1>6, <1>9, <2>1
  <2>3. \A d \in accepted' : d[1] \in reported'
    BY <1>1, <1>2, <1>3
  <2> QED
    BY <1>10, <2>2, <2>3 DEF QueuedOnce
<1>14. LeftThePool'
  BY <1>1, <1>2, <1>6, <1>11 DEF LeftThePool
<1>15. FileIsShort' /\ ReplaysHold'
  BY <1>1, <1>11 DEF HooksInv, FileIsShort, ReplaysHold
<1>16. Covered'
  BY <1>1, <1>11 DEF HooksInv, Covered
<1> QED
  BY <1>12, <1>13, <1>14, <1>15, <1>16 DEF HooksInv

LEMMA DeadLetterKeeps ==
  ASSUME HooksInv, NEW d \in DOMAIN sending, DeadLetter(d)
  PROVE  HooksInv'
<1> DEFINE rec == [what |-> d, at |-> clock + 1]
           W == Append(file, rec)
           L == Len(file)
           k == Overflow
           evicted == {file[n].what : n \in 1..k}
<1>1. /\ Leave(d) /\ clock' = clock + 1 /\ file' = SubSeq(W, k + 1, L + 1) /\ End(evicted, "evicted")
      /\ UNCHANGED <<reported, accepted, targets, backlog, replay, up, stops>>
  BY DEF DeadLetter, Written
<1>2. /\ file \in Seq(Records) /\ clock \in Nat /\ accepted \subseteq Deliveries /\ FateTyped
      /\ ToSet(backlog) \cap DOMAIN sending = {}
      /\ Underway \subseteq accepted /\ Filed \subseteq accepted /\ Underway \cap Filed = {}
      /\ Uniq(file) /\ Len(file) <= Cap
      /\ accepted \subseteq Underway \cup Whats(file) \cup DOMAIN fate
  BY DEF HooksInv, HookTypes, QueuedOnce, LeftThePool, FileIsShort, Covered, FateTyped
<1>3. d \in Underway /\ d \in Deliveries /\ d \notin Filed /\ Whats(file) \subseteq Filed
  BY <1>2 DEF Underway, Filed
<1>4. /\ rec \in Records /\ rec.what = d
  BY <1>2, <1>3 DEF Records
<1>5. /\ L \in Nat /\ Cap \in Nat \ {0} /\ k \in 0..L /\ L + 1 - k <= Cap
  BY <1>2, WebhooksAssumption DEF Overflow
<1> HIDE DEF rec, k
<1>6. W \in Seq(Records) /\ Len(W) = L + 1 /\ Whats(W) = Whats(file) \cup {d} /\ Uniq(W)
  BY <1>2, <1>3, <1>4, WhatsAppended
<1>7. DOMAIN W = 1..(L + 1) /\ \A i \in 1..L : W[i] = file[i]
  BY <1>2
<1> HIDE DEF W, L
<1>8. /\ file' \in Seq(Records) /\ Len(file') = L + 1 - k /\ Uniq(file')
      /\ Whats(file') = {W[i].what : i \in (k + 1)..(L + 1)}
  <2>1. k + 1 \in 1..(Len(W) + 1) /\ L + 1 \in (k + 1 - 1)..Len(W) /\ L + 1 + 1 - (k + 1) = L + 1 - k
    BY <1>5, <1>6
  <2> DEFINE a == k + 1
             b == L + 1
  <2>2. a \in 1..(Len(W) + 1) /\ b \in (a - 1)..Len(W) /\ b + 1 - a = L + 1 - k
    BY <1>5, <1>6
  <2>3. file' = SubSeq(W, a, b)
    BY <1>1
  <2> HIDE DEF a, b
  <2>4. /\ file' \in Seq(Records) /\ Len(file') = b + 1 - a /\ Uniq(file')
        /\ Whats(file') = {W[i].what : i \in a..b}
    BY <1>6, <2>2, <2>3, WhatsOfPart
  <2> QED
    BY <2>2, <2>4 DEF a, b
<1>9. Whats(W) = Whats(file') \cup evicted
  <2>1. \A i \in 1..k : i \in 1..L /\ i \in DOMAIN W
    BY <1>5, <1>7
  <2>2. evicted = {W[i].what : i \in 1..k}
    BY <1>7, <2>1
  <2>3. DOMAIN W = (1..k) \cup ((k + 1)..(L + 1))
    BY <1>5, <1>7
  <2> QED
    BY <1>8, <2>2, <2>3 DEF Whats
<1> HIDE DEF evicted
<1>10. DOMAIN fate' = DOMAIN fate \cup evicted /\ FateTyped'
  BY <1>1, <1>2, "evicted" \in Fates, EndAdds DEF Fates
<1>11. DOMAIN sending' = DOMAIN sending \ {d}
  BY <1>1 DEF Leave, Restrict
<1>12. Underway' = Underway \ {d}
  BY <1>1, <1>2, <1>11 DEF Underway
<1>13. Out' = Out /\ Filed' \subseteq Filed \cup {d}
  <2>1. Out' = Out /\ UNION {Holds(replay[r]) : r \in Out}' = UNION {Holds(replay[r]) : r \in Out}
    BY <1>1 DEF Out
  <2>2. Whats(file') \subseteq Whats(file) \cup {d}
    BY <1>6, <1>9
  <2> QED
    BY <2>1, <2>2 DEF Filed
<1>14. HookTypes'
  <2>1. clock' \in Nat
    BY <1>1, <1>2
  <2> QED
    BY <1>1, <1>8, <1>10, <2>1 DEF HooksInv, HookTypes, FateTyped
<1>15. QueuedOnce'
  BY <1>1, <1>11 DEF HooksInv, QueuedOnce
<1>16. LeftThePool'
  <2>1. accepted' = accepted /\ d \in accepted
    BY <1>1, <1>2, <1>3
  <2> QED
    BY <1>2, <1>12, <1>13, <2>1 DEF LeftThePool
<1>17. FileIsShort'
  BY <1>5, <1>8 DEF FileIsShort
<1>18. ReplaysHold'
  BY <1>1, <1>10, <1>13 DEF HooksInv, ReplaysHold
<1>19. Covered'
  BY <1>1, <1>2, <1>6, <1>9, <1>10, <1>12 DEF Covered
<1> QED
  BY <1>14, <1>15, <1>16, <1>17, <1>18, <1>19 DEF HooksInv

-----------------------------------------------------------------------------
\* A step of a replay that leaves the file alone: what it then holds was in the file,
\* or in its hands, before.
LEMMA ReplaySteps ==
  ASSUME HooksInv, NEW r \in Replays, NEW p \in Sendings, replay' = [replay EXCEPT ![r] = p],
         InOrder(p), Holds(p) \subseteq Filed, p.seen \subseteq Holds(p) \cup DOMAIN fate',
         DOMAIN fate \subseteq DOMAIN fate', FateTyped',
         UNCHANGED <<reported, accepted, targets, pool, file, clock>>
  PROVE  HooksInv'
<1>1. /\ replay \in [Replays -> Sendings \cup {Idle, Done}]
      /\ UNCHANGED <<reported, accepted, targets, backlog, sending, file, clock>>
  BY DEF HooksInv, HookTypes, pool
<1>2. /\ replay' \in [Replays -> Sendings \cup {Idle, Done}] /\ replay'[r] = p
      /\ \A q \in Replays : q # r => replay'[q] = replay[q]
  BY <1>1
<1>3. \A q \in Out' : q # r => q \in Out
  BY <1>2 DEF Out
<1>4. Underway' = Underway
  BY <1>1 DEF Underway
<1>5. Filed' \subseteq Filed
  <2>1. ASSUME NEW q \in Out' PROVE Holds(replay'[q]) \subseteq Filed
    <3>1. CASE q = r
      BY <1>2, <3>1
    <3>2. CASE q # r
      BY <1>2, <1>3, <3>2 DEF Filed, Out
    <3> QED
      BY <3>1, <3>2
  <2>2. Filed' = Whats(file) \cup UNION {Holds(replay'[q]) : q \in Out'}
    BY <1>1 DEF Filed
  <2> QED
    BY <2>1, <2>2 DEF Filed
<1>6. HookTypes'
  BY <1>1, <1>2 DEF HooksInv, HookTypes, FateTyped
<1>7. QueuedOnce'
  BY <1>1 DEF HooksInv, QueuedOnce
<1>8. LeftThePool'
  BY <1>1, <1>4, <1>5 DEF HooksInv, LeftThePool
<1>9. FileIsShort'
  BY <1>1 DEF HooksInv, FileIsShort
<1>10. ReplaysHold'
  <2> SUFFICES ASSUME NEW q \in Out'
               PROVE  InOrder(replay'[q]) /\ replay'[q].seen \subseteq Holds(replay'[q]) \cup DOMAIN fate'
    BY DEF ReplaysHold, InOrder
  <2>1. CASE q = r
    BY <1>2, <2>1
  <2>2. CASE q # r
    <3>1. q \in Out /\ replay'[q] = replay[q]
      BY <1>2, <1>3, <2>2 DEF Out
    <3>2. InOrder(replay[q]) /\ replay[q].seen \subseteq Holds(replay[q]) \cup DOMAIN fate
      BY <3>1 DEF HooksInv, ReplaysHold
    <3> QED
      BY <3>1, <3>2
  <2> QED
    BY <2>1, <2>2
<1>11. Covered'
  BY <1>1, <1>4 DEF HooksInv, Covered
<1> QED
  BY <1>6, <1>7, <1>8, <1>9, <1>10, <1>11 DEF HooksInv

LEMMA StartKeeps ==
  ASSUME HooksInv, NEW r \in Replays, StartReplay(r)
  PROVE  HooksInv'
<1>1. PICK since \in 0..clock, most \in 1..Cap : replay' = [replay EXCEPT ![r] = Slice(since, most)]
  BY DEF StartReplay
<1> DEFINE in == Only(file, Since(since))
           out == Only(file, ToSet(file) \ Since(since))
           n == IF Len(in) < most THEN Len(in) ELSE most
           first == SubSeq(in, 1, n)
           rest == SubSeq(in, n + 1, Len(in))
           p == Slice(since, most)
<1>2. file \in Seq(Records) /\ Uniq(file) /\ Len(file) <= Cap /\ FateTyped /\ Filed \subseteq accepted /\ accepted \subseteq Deliveries
  BY DEF HooksInv, HookTypes, FileIsShort, FateTyped, LeftThePool
<1>3. /\ Whats(in) \cup Whats(out) = Whats(file) /\ Whats(in) \cap Whats(out) = {}
      /\ Uniq(in) /\ Uniq(out) /\ Len(in) + Len(out) = Len(file)
      /\ in \in Seq(Records) /\ out \in Seq(Records)
  BY <1>2, OnlyAndTheRest
<1>4. p = [stage |-> "sending", seen |-> Whats(file), kept |-> out \o rest, todo |-> first,
           tried |-> 0, failing |-> <<>>]
  BY DEF Slice, Batch
<1> HIDE DEF in, out, p
<1>5. /\ Len(in) \in Nat /\ Len(out) \in Nat /\ DOMAIN in = 1..Len(in) /\ most \in Nat /\ n \in 0..Len(in)
  BY <1>3, WebhooksAssumption
<1> HIDE DEF n
<1>6. /\ first \in Seq(Records) /\ Len(first) = n /\ Uniq(first)
      /\ rest \in Seq(Records) /\ Len(rest) = Len(in) - n /\ Uniq(rest)
      /\ Whats(first) \cup Whats(rest) = Whats(in) /\ Whats(first) \cap Whats(rest) = {}
  BY <1>3, <1>5, Halves
<1> HIDE DEF first, rest
<1>9. /\ out \o rest \in Seq(Records) /\ Len(out \o rest) = Len(out) + (Len(in) - n)
      /\ Whats(out \o rest) = Whats(out) \cup Whats(rest) /\ Uniq(out \o rest)
  <2>1. Whats(out) \cap Whats(rest) = {}
    BY <1>3, <1>6
  <2> QED
    BY <1>3, <1>6, <2>1, WhatsJoined
<1>10. Holds(p) = Whats(file) /\ Whats(file) \subseteq Filed
  <2>1. Whats(<<>>) = {}
    BY DEF Whats
  <2> QED
    BY <1>3, <1>4, <1>6, <1>9, <2>1 DEF Holds, Filed
<1>11. p \in Sendings
  BY <1>2, <1>4, <1>6, <1>9, <1>10 DEF Sendings
<1>12. InOrder(p)
  <2>1. Whats(<<>>) = {} /\ Len(<<>>) = 0 /\ Uniq(<<>>)
    BY DEF Whats, Uniq
  <2>2. Len(out) + (Len(in) - n) + 0 + n <= Cap
    BY <1>2, <1>3, <1>5
  <2>3. Whats(out \o rest) \cap Whats(first) = {}
    BY <1>3, <1>6, <1>9
  <2> QED
    BY <1>4, <1>6, <1>9, <2>1, <2>2, <2>3 DEF InOrder
<1>13. p.seen \subseteq Holds(p)
  BY <1>4, <1>10
<1>14. UNCHANGED <<reported, accepted, targets, pool, file, clock, fate>>
  BY DEF StartReplay
<1>15. replay' = [replay EXCEPT ![r] = p]
  BY <1>1 DEF p
<1> QED
  BY <1>2, <1>10, <1>11, <1>12, <1>13, <1>14, <1>15, ReplaySteps DEF FateTyped

\* The steps that work off what is to be sent.
LEMMA AReplay ==
  ASSUME HooksInv, NEW r \in Replays, replay[r].stage = "sending"
  PROVE  /\ replay[r] \in Sendings /\ r \in Out /\ InOrder(replay[r]) /\ Holds(replay[r]) \subseteq Filed
         /\ replay[r].seen \subseteq Holds(replay[r]) \cup DOMAIN fate
         /\ FateTyped /\ replay \in [Replays -> Sendings \cup {Idle, Done}]
<1>1. replay[r] \in Sendings \cup {Idle, Done}
  BY DEF HooksInv, HookTypes
<1>2. Idle.stage # "sending" /\ Done.stage # "sending"
  BY DEF Idle, Done
<1>3. r \in Out
  BY DEF Out
<1> QED
  BY <1>1, <1>2, <1>3 DEF HooksInv, HookTypes, ReplaysHold, FateTyped, Filed

LEMMA ResentKeeps ==
  ASSUME HooksInv, NEW r \in Replays, Resent(r)
  PROVE  HooksInv'
<1> DEFINE q == replay[r]
           p == [q EXCEPT !.todo = Tail(@), !.tried = 0]
<1>1. /\ q.stage = "sending" /\ q.todo # <<>> /\ End({Head(q.todo).what}, "delivered")
      /\ UNCHANGED <<reported, accepted, targets, pool, file, clock>>
  BY DEF Resent, At
<1>2. /\ q \in Sendings /\ InOrder(q) /\ Holds(q) \subseteq Filed /\ q.seen \subseteq Holds(q) \cup DOMAIN fate
      /\ FateTyped /\ replay \in [Replays -> Sendings \cup {Idle, Done}]
  BY <1>1, AReplay
<1>3. replay' = [replay EXCEPT ![r] = p]
  BY DEF Resent
<1>4. DOMAIN fate' = DOMAIN fate \cup {Head(q.todo).what} /\ FateTyped'
  BY <1>1, <1>2, "delivered" \in Fates, EndAdds DEF Fates
<1> HIDE DEF q
<1>5. /\ Tail(q.todo) \in Seq(Records) /\ Len(Tail(q.todo)) = Len(q.todo) - 1
      /\ Whats(q.todo) = Whats(Tail(q.todo)) \cup {Head(q.todo).what} /\ Uniq(Tail(q.todo))
      /\ Len(q.todo) \in Nat /\ Len(q.kept) \in Nat /\ Len(q.failing) \in Nat
  <2>1. q.todo \in Seq(Records) /\ q.kept \in Seq(Records) /\ q.failing \in Seq(Records) /\ Uniq(q.todo)
    BY <1>2 DEF Sendings, InOrder
  <2> QED
    BY <1>1, <2>1, WhatsOfTail
<1>6. /\ p \in Sendings /\ p.kept = q.kept /\ p.failing = q.failing /\ p.todo = Tail(q.todo) /\ p.seen = q.seen
  BY <1>2, <1>5 DEF Sendings
<1> HIDE DEF p
<1>7. InOrder(p)
  <2>1. Len(q.kept) + Len(q.failing) + Len(q.todo) <= Cap
    BY <1>2 DEF InOrder
  <2>a. \A x, y, z \in Nat, m \in Nat : x + y + z <= m => x + y + (z - 1) <= m
    OBVIOUS
  <2>b. Cap \in Nat
    BY WebhooksAssumption
  <2>2. Len(p.kept) + Len(p.failing) + Len(p.todo) <= Cap
    BY <2>1, <2>a, <2>b, <1>5, <1>6
  <2>3. /\ Uniq(p.kept) /\ Uniq(p.failing) /\ Uniq(p.todo)
        /\ Whats(p.kept) \cap Whats(p.failing) = {} /\ Whats(p.kept) \cap Whats(p.todo) = {}
        /\ Whats(p.failing) \cap Whats(p.todo) = {}
    BY <1>2, <1>5, <1>6 DEF InOrder
  <2> QED
    BY <2>2, <2>3 DEF InOrder
<1>8. Holds(p) \subseteq Holds(q) /\ Holds(q) \subseteq Holds(p) \cup {Head(q.todo).what}
  BY <1>5, <1>6 DEF Holds
<1> QED
  BY <1>1, <1>2, <1>3, <1>4, <1>6, <1>7, <1>8, ReplaySteps

LEMMA KeepFailingKeeps ==
  ASSUME HooksInv, NEW r \in Replays, KeepFailing(r)
  PROVE  HooksInv'
<1> DEFINE q == replay[r]
           h == Head(q.todo)
           p == [q EXCEPT !.todo = Tail(@), !.tried = 0, !.failing = Append(@, h)]
<1>1. /\ q.stage = "sending" /\ q.todo # <<>>
      /\ UNCHANGED <<reported, accepted, targets, pool, file, clock, fate>>
  BY DEF KeepFailing
<1>2. /\ q \in Sendings /\ InOrder(q) /\ Holds(q) \subseteq Filed /\ q.seen \subseteq Holds(q) \cup DOMAIN fate
      /\ FateTyped /\ replay \in [Replays -> Sendings \cup {Idle, Done}]
  BY <1>1, AReplay
<1>3. replay' = [replay EXCEPT ![r] = p]
  BY DEF KeepFailing
<1> HIDE DEF q
<1>4. /\ q.todo \in Seq(Records) /\ q.kept \in Seq(Records) /\ q.failing \in Seq(Records) /\ Uniq(q.todo)
      /\ Len(q.todo) \in Nat /\ Len(q.kept) \in Nat /\ Len(q.failing) \in Nat
  BY <1>2 DEF Sendings, InOrder
<1>5. /\ Tail(q.todo) \in Seq(Records) /\ Len(Tail(q.todo)) = Len(q.todo) - 1 /\ h \in Records
      /\ Whats(q.todo) = Whats(Tail(q.todo)) \cup {h.what} /\ Uniq(Tail(q.todo)) /\ h.what \notin Whats(Tail(q.todo))
  BY <1>1, <1>4, WhatsOfTail
<1>6. /\ Append(q.failing, h) \in Seq(Records) /\ Len(Append(q.failing, h)) = Len(q.failing) + 1
      /\ Whats(Append(q.failing, h)) = Whats(q.failing) \cup {h.what} /\ Uniq(Append(q.failing, h))
  <2>1. Uniq(q.failing) /\ h.what \notin Whats(q.failing)
    BY <1>2, <1>5 DEF InOrder
  <2> QED
    BY <1>4, <1>5, <2>1, WhatsAppended
<1> HIDE DEF h
<1>7. /\ p \in Sendings /\ p.kept = q.kept /\ p.failing = Append(q.failing, h) /\ p.todo = Tail(q.todo)
      /\ p.seen = q.seen
  BY <1>2, <1>5, <1>6 DEF Sendings
<1> HIDE DEF p
<1>8. InOrder(p)
  <2>0. Len(q.kept) + Len(q.failing) + Len(q.todo) <= Cap
    BY <1>2 DEF InOrder
  <2>a. \A x, y, z \in Nat, m \in Nat : x + y + z <= m => x + (y + 1) + (z - 1) <= m
    OBVIOUS
  <2>b. Cap \in Nat
    BY WebhooksAssumption
  <2>1. Len(p.kept) + Len(p.failing) + Len(p.todo) <= Cap
    BY <2>0, <2>a, <2>b, <1>4, <1>5, <1>6, <1>7
  <2>2. /\ Uniq(p.kept) /\ Uniq(p.failing) /\ Uniq(p.todo)
    BY <1>2, <1>5, <1>6, <1>7 DEF InOrder
  <2>3. /\ Whats(q.kept) \cap Whats(q.failing) = {} /\ Whats(q.kept) \cap Whats(q.todo) = {}
        /\ Whats(q.failing) \cap Whats(q.todo) = {}
    BY <1>2 DEF InOrder
  <2>4. /\ Whats(p.kept) \cap Whats(p.failing) = {} /\ Whats(p.kept) \cap Whats(p.todo) = {}
        /\ Whats(p.failing) \cap Whats(p.todo) = {}
    BY <1>5, <1>6, <1>7, <2>3
  <2> QED
    BY <2>1, <2>2, <2>4 DEF InOrder
<1>9. Holds(p) = Holds(q)
  BY <1>5, <1>6, <1>7 DEF Holds
<1> QED
  BY <1>1, <1>2, <1>3, <1>7, <1>8, <1>9, ReplaySteps DEF FateTyped

LEMMA ResendFailsKeeps ==
  ASSUME HooksInv, NEW r \in Replays, ResendFails(r)
  PROVE  HooksInv'
<1> DEFINE q == replay[r]
           p == [q EXCEPT !.tried = @ + 1]
<1>1. /\ q.stage = "sending"
      /\ UNCHANGED <<reported, accepted, targets, pool, file, clock, fate>>
  BY DEF ResendFails
<1>2. /\ q \in Sendings /\ InOrder(q) /\ Holds(q) \subseteq Filed /\ q.seen \subseteq Holds(q) \cup DOMAIN fate
      /\ FateTyped /\ replay \in [Replays -> Sendings \cup {Idle, Done}]
  BY <1>1, AReplay
<1>3. replay' = [replay EXCEPT ![r] = p]
  BY DEF ResendFails
<1> HIDE DEF q
<1>4. /\ p \in Sendings /\ p.kept = q.kept /\ p.failing = q.failing /\ p.todo = q.todo /\ p.seen = q.seen
  <2>1. q.tried + 1 \in Nat
    BY <1>2 DEF Sendings
  <2> QED
    BY <1>2, <2>1 DEF Sendings
<1> HIDE DEF p
<1>5. InOrder(p) /\ Holds(p) = Holds(q)
  BY <1>2, <1>4 DEF InOrder, Holds
<1> QED
  BY <1>1, <1>2, <1>3, <1>4, <1>5, ReplaySteps DEF FateTyped

\* What the file holds afterwards is what the replay held: the rest of it has ends.
LEMMA EndReplayKeeps ==
  ASSUME HooksInv, NEW r \in Replays, EndReplay(r)
  PROVE  HooksInv'
<1> DEFINE q == replay[r]
           left == q.kept \o q.failing
           late == Whats(file) \ q.seen
<1>1. /\ q.stage = "sending" /\ q.todo = <<>> /\ replay' = [replay EXCEPT ![r] = Done]
      /\ \/ file' = left /\ End(late, "overtaken")
         \/ UNCHANGED <<file, fate>>
      /\ UNCHANGED <<reported, accepted, targets, backlog, sending, clock>>
  BY DEF EndReplay, Done, pool
<1>2. /\ q \in Sendings /\ InOrder(q) /\ Holds(q) \subseteq Filed /\ q.seen \subseteq Holds(q) \cup DOMAIN fate
      /\ FateTyped /\ replay \in [Replays -> Sendings \cup {Idle, Done}]
  BY <1>1, AReplay
<1>3. /\ file \in Seq(Records) /\ Uniq(file) /\ Len(file) <= Cap
      /\ accepted \subseteq Underway \cup Whats(file) \cup DOMAIN fate
  BY DEF HooksInv, HookTypes, FileIsShort, Covered
<1>4. /\ left \in Seq(Records) /\ Len(left) <= Cap /\ Uniq(left) /\ Whats(left) = Holds(q)
  <2> HIDE DEF q
  <2>1. /\ q.kept \in Seq(Records) /\ q.failing \in Seq(Records) /\ Uniq(q.kept) /\ Uniq(q.failing)
        /\ Whats(q.kept) \cap Whats(q.failing) = {}
        /\ Len(q.kept) + Len(q.failing) + Len(q.todo) <= Cap
    BY <1>2 DEF Sendings, InOrder
  <2>2. Whats(<<>>) = {} /\ Len(<<>>) = 0
    BY DEF Whats
  <2>3. Len(q.kept) \in Nat /\ Len(q.failing) \in Nat
    BY <2>1
  <2>a. \A x, y \in Nat, m \in Nat : x + y + 0 <= m => x + y <= m
    OBVIOUS
  <2>b. Len(q.todo) = 0 /\ Cap \in Nat
    BY <1>1, <2>2, WebhooksAssumption
  <2>4. Len(q.kept) + Len(q.failing) <= Cap
    BY <2>1, <2>3, <2>a, <2>b
  <2>5. Holds(q) = Whats(q.kept) \cup Whats(q.failing)
    BY <1>1, <2>2 DEF Holds
  <2> QED
    BY <2>1, <2>4, <2>5, WhatsJoined
<1> HIDE DEF q, left, late
<1>5. /\ DOMAIN fate \subseteq DOMAIN fate' /\ FateTyped' /\ file' \in Seq(Records) /\ Uniq(file') /\ Len(file') <= Cap
      /\ Whats(file') \subseteq Filed /\ Whats(file) \subseteq Whats(file') \cup DOMAIN fate'
  <2>1. CASE file' = left /\ End(late, "overtaken")
    <3>1. DOMAIN fate' = DOMAIN fate \cup late /\ FateTyped'
      BY <1>2, <2>1, "overtaken" \in Fates, EndAdds DEF Fates
    <3> QED
      BY <1>2, <1>4, <2>1, <3>1 DEF late
  <2>2. CASE UNCHANGED <<file, fate>>
    BY <1>2, <1>3, <2>2 DEF FateTyped, Filed, Whats, Uniq
  <2> QED
    BY <1>1, <2>1, <2>2
<1>6. /\ replay' \in [Replays -> Sendings \cup {Idle, Done}] /\ replay'[r] = Done
      /\ \A x \in Replays : x # r => replay'[x] = replay[x]
  BY <1>1, <1>2
<1>7. Out' \subseteq Out /\ r \notin Out'
  BY <1>6 DEF Out, Done
<1>8. \A x \in Out' : x \in Replays /\ replay'[x] = replay[x]
  BY <1>6, <1>7 DEF Out
<1>9. Underway' = Underway
  BY <1>1 DEF Underway
<1>10. Filed' \subseteq Filed
  <2>1. \A x \in Out' : Holds(replay'[x]) \subseteq Filed
    BY <1>7, <1>8 DEF Filed
  <2>2. Filed' = Whats(file') \cup UNION {Holds(replay'[x]) : x \in Out'}
    BY DEF Filed
  <2> QED
    BY <1>5, <2>1, <2>2
<1>11. HookTypes'
  BY <1>1, <1>5, <1>6 DEF HooksInv, HookTypes, FateTyped
<1>12. QueuedOnce'
  BY <1>1 DEF HooksInv, QueuedOnce
<1>13. LeftThePool'
  BY <1>1, <1>9, <1>10 DEF HooksInv, LeftThePool
<1>14. FileIsShort'
  BY <1>5 DEF FileIsShort
<1>15. ReplaysHold'
  <2> SUFFICES ASSUME NEW x \in Out'
               PROVE  InOrder(replay'[x]) /\ replay'[x].seen \subseteq Holds(replay'[x]) \cup DOMAIN fate'
    BY DEF ReplaysHold, InOrder
  <2>1. InOrder(replay[x]) /\ replay[x].seen \subseteq Holds(replay[x]) \cup DOMAIN fate
    BY <1>7 DEF HooksInv, ReplaysHold
  <2> QED
    BY <1>5, <1>8, <2>1
<1>16. Covered'
  BY <1>1, <1>3, <1>5, <1>9 DEF Covered
<1> QED
  BY <1>11, <1>12, <1>13, <1>14, <1>15, <1>16 DEF HooksInv

LEMMA RestartKeeps ==
  ASSUME HooksInv, Restart
  PROVE  HooksInv'
<1>1. /\ backlog' = <<>> /\ sending' = <<>> /\ End(Underway, "cancelled")
      /\ replay' = [r \in Replays |-> IF replay[r].stage = "sending" THEN Done ELSE replay[r]]
      /\ UNCHANGED <<reported, accepted, file, clock>>
  BY DEF Restart, Underway, Done
<1>2. /\ FateTyped /\ replay \in [Replays -> Sendings \cup {Idle, Done}]
      /\ accepted \subseteq Underway \cup Whats(file) \cup DOMAIN fate /\ Filed \subseteq accepted
  BY DEF HooksInv, HookTypes, FateTyped, Covered, LeftThePool
<1>3. targets' \subseteq Targets
  <2>1. PICK c \in Configs : targets' = Load(c)
    BY DEF Restart
  <2>2. c \in [json : SUBSET Targets, url : SUBSET Targets]
    BY WebhooksAssumption
  <2> QED
    BY <2>1, <2>2 DEF Load
<1>4. DOMAIN fate' = DOMAIN fate \cup Underway /\ FateTyped'
  BY <1>1, <1>2, "cancelled" \in Fates, EndAdds DEF Fates
<1>5. /\ replay' \in [Replays -> Sendings \cup {Idle, Done}] /\ \A r \in Replays : replay'[r].stage # "sending"
  BY <1>1, <1>2 DEF Done
<1>6. Out' = {}
  BY <1>5 DEF Out
<1>7. backlog' \in Seq(Deliveries) /\ DOMAIN backlog' = {} /\ ToSet(backlog') = {} /\ DOMAIN sending' = {}
  BY <1>1 DEF ToSet
<1>8. Underway' = {}
  BY <1>7 DEF Underway
<1>9. Filed' \subseteq Filed
  BY <1>1, <1>6 DEF Filed
<1>10. HookTypes'
  BY <1>1, <1>3, <1>4, <1>5, <1>7 DEF HooksInv, HookTypes, FateTyped
<1>11. QueuedOnce'
  BY <1>1, <1>7 DEF HooksInv, QueuedOnce
<1>12. LeftThePool'
  BY <1>1, <1>2, <1>8, <1>9 DEF LeftThePool
<1>13. FileIsShort'
  BY <1>1 DEF HooksInv, FileIsShort
<1>14. ReplaysHold'
  BY <1>6 DEF ReplaysHold
<1>15. Covered'
  BY <1>1, <1>2, <1>4 DEF Covered
<1> QED
  BY <1>10, <1>11, <1>12, <1>13, <1>14, <1>15 DEF HooksInv

LEMMA HooksStart == HooksInit => HooksInv
<1> SUFFICES ASSUME HooksInit PROVE HooksInv
  OBVIOUS
<1>1. targets \subseteq Targets
  <2>1. PICK c \in Configs : targets = Load(c)
    BY DEF HooksInit
  <2>2. c \in [json : SUBSET Targets, url : SUBSET Targets]
    BY WebhooksAssumption
  <2> QED
    BY <2>1, <2>2 DEF Load
<1>2. /\ backlog = <<>> /\ sending = <<>> /\ file = <<>> /\ fate = <<>> /\ clock = 0 /\ accepted = {}
      /\ replay = [r \in Replays |-> Idle]
  BY DEF HooksInit
<1>3. Out = {}
  BY <1>2 DEF Out, Idle
<1>4. /\ DOMAIN backlog = {} /\ DOMAIN sending = {} /\ DOMAIN file = {} /\ DOMAIN fate = {}
      /\ Len(file) = 0
  BY <1>2
<1>5. HookTypes
  BY <1>1, <1>2, <1>4 DEF HookTypes
<1>6. QueuedOnce /\ ReplaysHold /\ Covered
  BY <1>2, <1>3, <1>4 DEF QueuedOnce, ReplaysHold, Covered, ToSet
<1>7. Underway = {} /\ Filed = {}
  BY <1>3, <1>4 DEF Underway, Filed, Whats, ToSet
<1>8. LeftThePool
  BY <1>7 DEF LeftThePool
<1>9. FileIsShort
  BY <1>4, WebhooksAssumption DEF FileIsShort, Uniq
<1> QED
  BY <1>5, <1>6, <1>8, <1>9 DEF HooksInv

LEMMA HooksStep == HooksInv /\ [HooksNext]_hookVars => HooksInv'
<1> SUFFICES ASSUME HooksInv, [HooksNext]_hookVars PROVE HooksInv'
  OBVIOUS
<1>1. ASSUME NEW o \in Occurrences, DispatchEvent(o) PROVE HooksInv'
  BY <1>1, DispatchKeeps
<1>2. CASE Begin
  BY <1>2, BeginKeeps
<1>3. ASSUME NEW d \in DOMAIN sending, NEW how \in {"delivered", "refused"}, Answered(d, how) PROVE HooksInv'
  BY <1>3, LeavingKeeps DEF Answered, Fates
<1>4. ASSUME NEW d \in DOMAIN sending, Fail(d) PROVE HooksInv'
  BY <1>4, FailKeeps
<1>5. ASSUME NEW d \in DOMAIN sending, DeadLetter(d) PROVE HooksInv'
  BY <1>5, DeadLetterKeeps
<1>6. ASSUME NEW d \in DOMAIN sending, LoseRecord(d) PROVE HooksInv'
  BY <1>6, "unwritten" \in Fates, LeavingKeeps DEF LoseRecord, Fates
<1>7. ASSUME NEW r \in Replays, StartReplay(r) PROVE HooksInv'
  BY <1>7, StartKeeps
<1>8. ASSUME NEW r \in Replays, Replaying(r) PROVE HooksInv'
  BY <1>8, ResentKeeps, KeepFailingKeeps, ResendFailsKeeps, EndReplayKeeps DEF Replaying
<1>9. CASE StopPool
  BY <1>9, StopPoolKeeps
<1>10. CASE Restart
  BY <1>10, RestartKeeps
<1>11. CASE UNCHANGED hookVars
  <2>1. UNCHANGED <<reported, accepted, targets, backlog, sending, file, clock, replay, fate>>
    BY <1>11 DEF hookVars, pool
  <2>2. UNCHANGED <<Underway, Out, Filed>>
    BY <2>1 DEF Underway, Out, Filed
  <2>3. UNCHANGED HookTypes /\ UNCHANGED QueuedOnce /\ UNCHANGED FileIsShort
    BY <2>1 DEF HookTypes, QueuedOnce, FileIsShort
  <2>4. LeftThePool' /\ ReplaysHold' /\ Covered'
    BY <2>1, <2>2 DEF HooksInv, LeftThePool, ReplaysHold, Covered
  <2> QED
    BY <2>3, <2>4 DEF HooksInv
<1> QED
  BY <1>1, <1>2, <1>3, <1>4, <1>5, <1>6, <1>7, <1>8, <1>9, <1>10, <1>11 DEF HooksNext, Deliverer

\* Webhooks.DeliveriesAreAccounted (webhooks.py, webhook_dead_letter.py and the replay of
\* admin_users.py): what the game reports to an endpoint is waiting, on its way, in the
\* dead-letter file once, or at one of the ends the code has for it, however many replays
\* overlap and whenever the process stops.
THEOREM NothingGoesAstray == HooksSpec => []DeliveriesAreAccounted
<1>1. HooksInv => DeliveriesAreAccounted
  <2> SUFFICES ASSUME HooksInv PROVE DeliveriesAreAccounted
    OBVIOUS
  <2>1. FateTyped /\ file \in Seq(Records) /\ Uniq(file) /\ Len(file) <= Cap /\ accepted \subseteq Underway \cup Whats(file) \cup DOMAIN fate
    BY DEF HooksInv, HookTypes, FateTyped, FileIsShort, Covered
  <2>2. Cardinality(Whats(file)) = Len(file)
    BY <2>1, UniqCounts
  <2>3. Ended(Fates) = DOMAIN fate
    BY <2>1, EndedAll
  <2> QED
    BY <2>1, <2>2, <2>3 DEF DeliveriesAreAccounted
<1> QED
  BY <1>1, HooksStart, HooksStep, PTL DEF HooksSpec

-----------------------------------------------------------------------------
(* The copy of the action log *)

Record == Nat \X Nat
EntrySet == [epoch : Nat, board : Boards, version : Nat, log : Seq(Record)]

\* To extend a window and cut it again is to cut the extended log.
LEMMA WindowExtends ==
  ASSUME NEW l \in Seq(Record), NEW r \in Record
  PROVE  Window(Append(Window(l), r)) = Window(Append(l, r))
<1> DEFINE n == Len(l)
           w == SubSeq(l, n - Limit + 1, n)
           x == Append(w, r)
           y == Append(l, r)
<1>1. n \in Nat /\ Limit \in Nat \ {0}
  BY FeedAssumption
<1>2. CASE n <= Limit
  BY <1>1, <1>2 DEF Window
<1>3. CASE n > Limit
  <2>1. /\ w \in Seq(Record) /\ Len(w) = Limit
        /\ \A i \in 1..Limit : w[i] = l[n - Limit + i]
    <3>1. n - Limit + 1 \in 1..n /\ n \in Nat
      BY <1>1, <1>3
    <3> QED
      BY <1>1, <1>3, <3>1, SubSeqProperties
  <2>2. /\ x \in Seq(Record) /\ Len(x) = Limit + 1
        /\ \A i \in 1..Limit : x[i] = w[i]
        /\ x[Limit + 1] = r
    BY <1>1, <2>1
  <2>3. /\ y \in Seq(Record) /\ Len(y) = n + 1
        /\ \A i \in 1..n : y[i] = l[i]
        /\ y[n + 1] = r
    BY <1>1
  <2> DEFINE u == SubSeq(x, 2, Limit + 1)
             v == SubSeq(y, n - Limit + 2, n + 1)
  <2>4. Window(l) = w /\ Window(x) = u /\ Window(y) = v
    <3> HIDE DEF x, y, u, v, w
    <3>1. Window(l) = w
      BY <1>3 DEF Window, w, n
    <3>2. Window(x) = u
      <4>1. Len(x) > Limit /\ Len(x) - Limit + 1 = 2 /\ Len(x) = Limit + 1
        BY <1>1, <2>2
      <4> QED
        BY <4>1 DEF Window, u
    <3>3. Window(y) = v
      <4>1. Len(y) > Limit /\ Len(y) - Limit + 1 = n - Limit + 2 /\ Len(y) = n + 1
        BY <1>1, <1>3, <2>3
      <4> QED
        BY <4>1 DEF Window, v
    <3> QED
      BY <3>1, <3>2, <3>3
  <2> HIDE DEF x, y, w
  <2>5. u \in Seq(Record) /\ Len(u) = Limit /\ \A i \in 1..Limit : u[i] = x[i + 1]
    <3>1. 2 \in 1..Len(x) /\ Limit + 1 \in 1..Len(x)
      BY <1>1, <2>2
    <3> QED
      BY <1>1, <2>2, <3>1, SubSeqProperties
  <2>6. v \in Seq(Record) /\ Len(v) = Limit /\ \A i \in 1..Limit : v[i] = y[n - Limit + 1 + i]
    <3>1. n - Limit + 2 \in 1..Len(y) /\ n + 1 \in 1..Len(y)
      BY <1>1, <1>3, <2>3
    <3> QED
      BY <1>1, <1>3, <2>3, <3>1, SubSeqProperties
  <2> HIDE DEF u, v
  <2>7. ASSUME NEW i \in 1..Limit PROVE u[i] = v[i]
    <3>1. CASE i = Limit
      <4>1. u[i] = x[i + 1] /\ v[i] = y[n - Limit + 1 + i]
        BY <2>5, <2>6
      <4>2. i + 1 = Limit + 1 /\ n - Limit + 1 + i = n + 1
        BY <1>1, <3>1
      <4> QED
        BY <2>2, <2>3, <4>1, <4>2
    <3>2. CASE i < Limit
      <4>1. i + 1 \in 1..Limit /\ n - Limit + 1 + i \in 1..n
        BY <1>1, <1>3, <3>2
      <4>2. u[i] = l[n - Limit + (i + 1)] /\ v[i] = l[n - Limit + 1 + i]
        BY <2>1, <2>2, <2>3, <2>5, <2>6, <4>1
      <4>3. n - Limit + (i + 1) = n - Limit + 1 + i
        BY <1>1
      <4> QED
        BY <4>2, <4>3
    <3> QED
      BY <1>1, <3>1, <3>2
  <2>8. u = v
    BY <2>5, <2>6, <2>7, SeqEqual
  <2> QED
    BY <2>4, <2>8 DEF x, y
<1> QED
  BY <1>1, <1>2, <1>3

-----------------------------------------------------------------------------
(* The server: a version of a board's log, in one process, names one log.   *)

PastTypes ==
  /\ log \in [Boards -> Seq(Record)] /\ version \in [Boards -> Nat] /\ epoch \in Nat
  /\ oid \in Boards /\ past \subseteq EntrySet
PastNames ==
  /\ \A b \in Boards : Entry(epoch, b, version[b], log[b]) \in past
  /\ \A p \in past : /\ p.epoch <= epoch
                     /\ p.epoch = epoch => p.version <= version[p.board]
  /\ \A p, q \in past :
       p.epoch = q.epoch /\ p.board = q.board /\ p.version = q.version => p = q
PastInv == PastTypes /\ PastNames

\* Each append on its way tells how its version came out of the one before.
WireInv ==
  \A m \in wire : m.kind = "append" =>
    /\ m.version \in Nat /\ m.record \in Record
    /\ \E l \in Seq(Record) :
         /\ Entry(epoch, oid, m.version - 1, l) \in past
         /\ Entry(epoch, oid, m.version, Append(l, m.record)) \in past

FetchInv ==
  fetch.stage = "answered" =>
    \E p \in past : /\ p.epoch = epoch /\ p.board = oid /\ p.version = fetch.version
                    /\ fetch.records = Window(p.log)

\* Who can still be told of an append holds a version of the running process.
HeldInv ==
  /\ CopyIsOfItsVersion
  /\ socket \in {"open", "deaf"} /\ held # None => heldEpoch = epoch

Inv == PastInv /\ WireInv /\ FetchInv /\ HeldInv

LEMMA Commits ==
  ASSUME PastInv, NEW b \in Boards, NEW l \in Seq(Record), Commit(b, l)
  PROVE  /\ PastInv' /\ past \subseteq past' /\ UNCHANGED <<epoch, oid, socket, client>>
         /\ Entry(epoch, b, version[b] + 1, l) \in past'
<1> DEFINE e == Entry(epoch, b, version[b] + 1, l)
<1>1. /\ log' = [log EXCEPT ![b] = l] /\ version' = [version EXCEPT ![b] = @ + 1]
      /\ past' = past \cup {e} /\ UNCHANGED <<epoch, oid, socket, client>>
  BY DEF Commit
<1>2. e \in EntrySet /\ e.epoch = epoch /\ e.board = b /\ e.version = version[b] + 1
  BY DEF PastInv, PastTypes, EntrySet, Entry
<1>3. PastTypes'
  BY <1>1, <1>2 DEF PastInv, PastTypes
<1>4. /\ version'[b] = version[b] + 1 /\ log'[b] = l /\ version[b] \in Nat
      /\ \A c \in Boards : c # b => version'[c] = version[c] /\ log'[c] = log[c]
  BY <1>1 DEF PastInv, PastTypes
<1>5. \A p \in past : p.epoch = epoch /\ p.board = b => p.version < version[b] + 1
  BY SMTT(30), <1>4 DEF PastInv, PastTypes, PastNames, EntrySet
<1>6. PastNames'
  <2>1. \A c \in Boards : Entry(epoch', c, version'[c], log'[c]) \in past'
    <3> SUFFICES ASSUME NEW c \in Boards
                 PROVE  Entry(epoch', c, version'[c], log'[c]) \in past'
      OBVIOUS
    <3>1. CASE c = b
      BY <1>1, <1>4, <3>1
    <3>2. CASE c # b
      BY <1>1, <1>4, <3>2 DEF PastInv, PastNames
    <3> QED
      BY <3>1, <3>2
  <2>2. \A p \in past' : p.epoch <= epoch' /\ (p.epoch = epoch' => p.version <= version'[p.board])
    <3> SUFFICES ASSUME NEW p \in past'
                 PROVE  p.epoch <= epoch' /\ (p.epoch = epoch' => p.version <= version'[p.board])
      OBVIOUS
    <3>1. CASE p = e
      BY <1>1, <1>2, <1>4, <3>1 DEF PastInv, PastTypes
    <3>2. CASE p \in past
      <4>1. p.board \in Boards /\ p.version \in Nat
        BY <3>2 DEF PastInv, PastTypes, EntrySet
      <4>2. p.epoch <= epoch /\ (p.epoch = epoch => p.version <= version[p.board])
        BY <3>2 DEF PastInv, PastNames
      <4> QED
        BY <1>1, <1>4, <4>1, <4>2
    <3> QED
      BY <1>1, <3>1, <3>2
  <2>3. \A p, q \in past' :
          p.epoch = q.epoch /\ p.board = q.board /\ p.version = q.version => p = q
    <3> HIDE DEF e
    <3> SUFFICES ASSUME NEW p \in past', NEW q \in past',
                        p.epoch = q.epoch, p.board = q.board, p.version = q.version
                 PROVE  p = q
      OBVIOUS
    <3>1. \A o \in past : o.epoch = epoch /\ o.board = b => o.version # version[b] + 1
      BY <1>4, <1>5 DEF PastInv, PastTypes, EntrySet
    <3> QED
      BY <1>1, <1>2, <3>1 DEF PastInv, PastNames
  <2> QED
    BY <2>1, <2>2, <2>3 DEF PastNames
<1> QED
  BY <1>1, <1>3, <1>6 DEF PastInv

\* What is known of the client survives a longer past.
LEMMA Remembers ==
  ASSUME past \subseteq past', UNCHANGED <<epoch, oid, socket, client>>
  PROVE  (FetchInv => FetchInv') /\ (HeldInv => HeldInv')
<1>1. /\ fetch' = fetch /\ held' = held /\ records' = records /\ heldEpoch' = heldEpoch
      /\ epoch' = epoch /\ oid' = oid /\ socket' = socket
  BY DEF client
<1>2. FetchInv => FetchInv'
  BY <1>1 DEF FetchInv
<1>3. HeldInv => HeldInv'
  BY <1>1 DEF HeldInv, CopyIsOfItsVersion
<1> QED
  BY <1>2, <1>3

LEMMA Appends == ASSUME Inv, NEW b \in Boards, AppendRecord(b) PROVE Inv'
<1> DEFINE r == NewRecord(b)
           m == [kind |-> "append", version |-> version[b] + 1, record |-> r]
<1>1. /\ log[b] \in Seq(Record) /\ version[b] \in Nat /\ epoch \in Nat /\ r \in Record
      /\ Append(log[b], r) \in Seq(Record)
  BY DEF Inv, PastInv, PastTypes, NewRecord, Record
<1>2. /\ PastInv' /\ past \subseteq past' /\ UNCHANGED <<epoch, oid, socket, client>>
      /\ Entry(epoch, b, version[b] + 1, Append(log[b], r)) \in past'
  BY <1>1, Commits DEF Inv, AppendRecord
<1>3. FetchInv' /\ HeldInv'
  BY <1>2, Remembers DEF Inv
<1>4. Entry(epoch, b, version[b], log[b]) \in past
  BY DEF Inv, PastInv, PastNames
<1>5. wire' = wire \/ (b = oid /\ wire' = wire \cup {m})
  BY DEF AppendRecord, Push
<1>6. WireInv'
  <2> SUFFICES ASSUME NEW n \in wire', n.kind = "append"
               PROVE  /\ n.version \in Nat /\ n.record \in Record
                      /\ \E l \in Seq(Record) :
                           /\ Entry(epoch, oid, n.version - 1, l) \in past'
                           /\ Entry(epoch, oid, n.version, Append(l, n.record)) \in past'
    BY <1>2 DEF WireInv
  <2>1. CASE n \in wire
    BY <1>2, <2>1 DEF Inv, WireInv
  <2>2. CASE b = oid /\ n = m
    <3>1. n.version = version[b] + 1 /\ n.record = r /\ n.version - 1 = version[b]
      BY <1>1, <2>2
    <3>2. Entry(epoch, oid, n.version - 1, log[b]) \in past'
      BY <1>2, <1>4, <2>2, <3>1
    <3>3. Entry(epoch, oid, n.version, Append(log[b], n.record)) \in past'
      BY <1>2, <2>2, <3>1
    <3>4. n.version \in Nat /\ n.record \in Record
      BY <1>1, <3>1
    <3> QED
      BY <1>1, <3>2, <3>3, <3>4
  <2> QED
    BY <1>5, <2>1, <2>2
<1> QED
  BY <1>2, <1>3, <1>6 DEF Inv

LEMMA Rewrites == ASSUME Inv, NEW b \in Boards, Rewrite(b) PROVE Inv'
<1>1. /\ log[b] \in Seq(Record) /\ version[b] \in Nat /\ epoch \in Nat
      /\ NewRecord(b) \in Record /\ log[b] # <<>>
  BY DEF Inv, PastInv, PastTypes, NewRecord, Record, Rewrite
<1>2. PICK l \in Seq(Record) : Commit(b, l)
  <2>1. SubSeq(log[b], 1, Len(log[b]) - 1) \in Seq(Record)
    BY <1>1, SubSeqProperties
  <2>2. Append(log[b], NewRecord(b)) \in Seq(Record) /\ <<>> \in Seq(Record)
    BY <1>1
  <2> QED
    BY <2>1, <2>2 DEF Rewrite
<1>3. PastInv' /\ past \subseteq past' /\ UNCHANGED <<epoch, oid, socket, client>>
  BY <1>2, Commits DEF Inv
<1>4. FetchInv' /\ HeldInv'
  BY <1>3, Remembers DEF Inv
<1>5. \A n \in wire' : n.kind = "append" => n \in wire
  BY DEF Rewrite, Push
<1>6. WireInv'
  BY <1>3, <1>5 DEF Inv, WireInv
<1> QED
  BY <1>3, <1>4, <1>6 DEF Inv

LEMMA Restarts == ASSUME Inv, ServerRestarts PROVE Inv'
<1>1. /\ epoch' = epoch + 1 /\ version' = [b \in Boards |-> 0] /\ log' = log /\ oid' = oid
      /\ past' = past \cup {Entry(epoch + 1, b, 0, log[b]) : b \in Boards}
      /\ socket' = "down" /\ wire' = {}
      /\ fetch' = IF fetch.stage = "no" THEN fetch ELSE [stage |-> "failed"]
      /\ UNCHANGED <<records, held, heldEpoch>>
  BY DEF ServerRestarts
<1>2. epoch \in Nat /\ log \in [Boards -> Seq(Record)] /\ past \subseteq EntrySet
  BY DEF Inv, PastInv, PastTypes
<1>3. PastTypes'
  BY <1>1, <1>2 DEF Inv, PastInv, PastTypes, EntrySet, Entry
<1>4. \A p \in past : p.epoch \in Nat /\ p.epoch <= epoch
  BY <1>2 DEF Inv, PastInv, PastNames, EntrySet
<1>5. \A p \in past' : \/ p \in past /\ p.epoch \in Nat /\ p.epoch <= epoch
                       \/ /\ p.board \in Boards /\ p.epoch = epoch + 1 /\ p.version = 0
                          /\ p = Entry(epoch + 1, p.board, 0, log[p.board])
  BY <1>1, <1>4 DEF Entry
<1>6. PastNames'
  <2>1. \A b \in Boards : Entry(epoch', b, version'[b], log'[b]) \in past'
    BY <1>1
  <2>2. \A p \in past' : p.epoch <= epoch' /\ (p.epoch = epoch' => p.version <= version'[p.board])
    BY <1>1, <1>2, <1>5
  <2>3. \A p, q \in past' :
          p.epoch = q.epoch /\ p.board = q.board /\ p.version = q.version => p = q
    BY <1>2, <1>5 DEF Inv, PastInv, PastNames
  <2> QED
    BY <2>1, <2>2, <2>3 DEF PastNames
<1>7. WireInv'
  BY <1>1 DEF WireInv
<1>8. FetchInv'
  BY <1>1 DEF FetchInv
<1>9. HeldInv'
  BY <1>1 DEF Inv, HeldInv, CopyIsOfItsVersion
<1> QED
  BY <1>3, <1>6, <1>7, <1>8, <1>9 DEF Inv, PastInv

-----------------------------------------------------------------------------
(* The client.  Whatever it does leaves the server alone. *)

LEMMA ServerRests ==
  ASSUME PastInv, WireInv, UNCHANGED <<server, oid>>, wire' \subseteq wire
  PROVE  PastInv' /\ WireInv'
<1>1. log' = log /\ version' = version /\ epoch' = epoch /\ past' = past /\ oid' = oid
  BY DEF server
<1>2. PastInv'
  BY <1>1 DEF PastInv, PastTypes, PastNames
<1>3. WireInv'
  BY <1>1 DEF WireInv
<1> QED
  BY <1>2, <1>3

\* A refresh gives the version up, and with it every claim.
LEMMA Refreshes ==
  ASSUME FetchInv, UNCHANGED <<server, oid>>, Refresh
  PROVE  FetchInv' /\ HeldInv'
<1>1. epoch' = epoch /\ past' = past /\ oid' = oid /\ fetch' = fetch /\ held' = None
  BY DEF server, Refresh
<1> QED
  BY <1>1 DEF FetchInv, HeldInv, CopyIsOfItsVersion

\* An append extends the copy to the version it was told of.
LEMMA Extends ==
  ASSUME Inv, NEW m \in wire, m.kind = "append", socket \in {"open", "deaf"},
         held # None, m.version = held + 1,
         held' = m.version, records' = Window(Append(records, m.record)),
         UNCHANGED <<server, oid, socket, fetch, heldEpoch>>
  PROVE  FetchInv' /\ HeldInv'
<1>1. epoch' = epoch /\ past' = past /\ oid' = oid
  BY DEF server
<1>2. FetchInv'
  BY <1>1 DEF Inv, FetchInv
<1>3. heldEpoch = epoch
  BY DEF Inv, HeldInv
<1>4. PICK p \in past : /\ p.epoch = epoch /\ p.board = oid /\ p.version = held
                        /\ records = Window(p.log)
  BY <1>3 DEF Inv, HeldInv, CopyIsOfItsVersion
<1>5. PICK l \in Seq(Record) :
         /\ Entry(epoch, oid, m.version - 1, l) \in past
         /\ Entry(epoch, oid, m.version, Append(l, m.record)) \in past
  BY DEF Inv, WireInv
<1>6. m.version - 1 = held /\ m.record \in Record
  <2>1. held \in Nat
    BY <1>4 DEF Inv, PastInv, PastTypes, EntrySet
  <2> QED
    BY <2>1 DEF Inv, WireInv
<1>7. p = Entry(epoch, oid, m.version - 1, l)
  BY <1>4, <1>5, <1>6 DEF Inv, PastInv, PastNames, Entry
<1>8. records = Window(l)
  BY <1>4, <1>7 DEF Entry
<1>9. records' = Window(Append(l, m.record))
  BY <1>6, <1>8, WindowExtends
<1>10. CopyIsOfItsVersion'
  <2> DEFINE q == Entry(epoch, oid, m.version, Append(l, m.record))
  <2>1. q \in past' /\ q.epoch = heldEpoch' /\ q.board = oid' /\ q.version = held'
        /\ records' = Window(q.log)
    BY <1>1, <1>3, <1>5, <1>9 DEF Entry
  <2> QED
    BY <2>1 DEF CopyIsOfItsVersion
<1>11. HeldInv'
  BY <1>1, <1>3, <1>10 DEF HeldInv
<1> QED
  BY <1>2, <1>11

LEMMA Delivers == ASSUME Inv, NEW m \in wire, Deliver(m) PROVE Inv'
<1>1. UNCHANGED <<server, oid, socket>> /\ wire' \subseteq wire /\ socket \in {"open", "deaf"}
  BY DEF Deliver
<1>2. PastInv' /\ WireInv'
  BY <1>1, ServerRests DEF Inv
<1>3. CASE Refresh
  BY <1>1, <1>2, <1>3, Refreshes DEF Inv
<1>4. CASE ~Refresh
  <2>1. /\ m.kind = "append" /\ held # None /\ m.version = held + 1
        /\ held' = m.version /\ records' = Window(Append(records, m.record))
        /\ UNCHANGED <<fetch, heldEpoch>>
    BY <1>4 DEF Deliver, OnAppend
  <2>2. FetchInv' /\ HeldInv'
    BY <1>1, <2>1, Extends
  <2> QED
    BY <1>2, <2>2 DEF Inv
<1> QED
  BY <1>3, <1>4

LEMMA Lands == ASSUME Inv, Land PROVE Inv'
<1>1. /\ UNCHANGED <<server, oid, socket, wire>> /\ epoch' = epoch /\ past' = past
      /\ fetch' = NoFetch
  BY DEF Land, server
<1>2. PastInv' /\ WireInv'
  BY <1>1, ServerRests DEF Inv
<1>3. FetchInv'
  BY <1>1 DEF FetchInv, NoFetch
<1>4. CASE fetch.stage = "answered"
  <2>1. /\ records' = fetch.records /\ held' = fetch.version /\ heldEpoch' = epoch
    BY <1>4 DEF Land
  <2>2. PICK p \in past : /\ p.epoch = epoch /\ p.board = oid /\ p.version = fetch.version
                          /\ fetch.records = Window(p.log)
    BY <1>4 DEF Inv, FetchInv
  <2>3. CopyIsOfItsVersion'
    BY <1>1, <2>1, <2>2 DEF CopyIsOfItsVersion
  <2>4. HeldInv'
    BY <1>1, <2>1, <2>3 DEF HeldInv
  <2> QED
    BY <1>2, <1>3, <2>4 DEF Inv
<1>5. CASE fetch.stage # "answered"
  <2>1. held' = None
    BY <1>5 DEF Land
  <2>2. HeldInv'
    BY <2>1 DEF HeldInv, CopyIsOfItsVersion
  <2> QED
    BY <1>2, <1>3, <2>2 DEF Inv
<1> QED
  BY <1>4, <1>5

LEMMA Reads == ASSUME Inv, Read PROVE Inv'
<1>1. /\ UNCHANGED <<server, oid, socket, wire, records, held, heldEpoch>>
      /\ epoch' = epoch /\ past' = past /\ oid' = oid
      /\ fetch' = [stage |-> "answered", records |-> Window(log[oid]), version |-> version[oid]]
  BY DEF Read, server
<1>2. PastInv' /\ WireInv'
  BY <1>1, ServerRests DEF Inv
<1>3. HeldInv'
  BY <1>1 DEF Inv, HeldInv, CopyIsOfItsVersion
<1>4. FetchInv'
  <2> DEFINE p == Entry(epoch, oid, version[oid], log[oid])
  <2>1. p \in past
    BY DEF Inv, PastInv, PastTypes, PastNames
  <2>2. /\ p.epoch = epoch' /\ p.board = oid' /\ p.version = fetch'.version
        /\ fetch'.records = Window(p.log)
    BY <1>1 DEF Entry
  <2> HIDE DEF p
  <2> QED
    BY <1>1, <2>1, <2>2 DEF FetchInv
<1> QED
  BY <1>2, <1>3, <1>4 DEF Inv

\* Another board: nothing is held, nothing on its way, nothing answered yet.
LEMMA Switches == ASSUME Inv, NEW b \in Boards, Switch(b) PROVE Inv'
<1>1. /\ UNCHANGED server /\ oid' = b /\ held' = None /\ fetch' = Asked /\ wire' = {}
  BY DEF Switch
<1>2. PastInv'
  BY <1>1 DEF Inv, PastInv, PastTypes, PastNames, server
<1>3. WireInv' /\ FetchInv' /\ HeldInv'
  BY <1>1 DEF WireInv, FetchInv, HeldInv, CopyIsOfItsVersion, Asked
<1> QED
  BY <1>2, <1>3 DEF Inv

\* The rest moves the socket between states in which nothing is delivered, opens
\* it and refreshes, or drops a read.
LEMMA Others ==
  ASSUME Inv, RunEffect \/ ReadFails \/ Connect \/ Drop \/ Evict \/ Open \/ UNCHANGED feedVars
  PROVE  Inv'
<1>1. UNCHANGED <<server, oid>> /\ wire' \subseteq wire
  BY DEF RunEffect, ReadFails, Connect, Drop, Evict, Open, feedVars
<1>2. PastInv' /\ WireInv'
  BY <1>1, ServerRests DEF Inv
<1>3. epoch' = epoch /\ past' = past /\ oid' = oid
  BY <1>1 DEF server
<1>4. CASE Open
  BY <1>1, <1>2, <1>4, Refreshes DEF Open, Inv
<1>5. CASE RunEffect \/ ReadFails
  <2>1. /\ fetch'.stage # "answered" /\ UNCHANGED <<socket, records, held, heldEpoch>>
    BY <1>5 DEF RunEffect, ReadFails, Asked
  <2>2. FetchInv' /\ HeldInv'
    BY <1>3, <2>1 DEF Inv, FetchInv, HeldInv, CopyIsOfItsVersion
  <2> QED
    BY <1>2, <2>2 DEF Inv
<1>6. CASE Connect \/ Drop \/ Evict \/ UNCHANGED feedVars
  <2>1. /\ UNCHANGED <<records, held, heldEpoch, fetch>>
        /\ socket' \in {"open", "deaf"} => socket \in {"open", "deaf"}
    BY <1>6 DEF Connect, Drop, Evict, feedVars, client
  <2>2. FetchInv' /\ HeldInv'
    BY <1>3, <2>1 DEF Inv, FetchInv, HeldInv, CopyIsOfItsVersion
  <2> QED
    BY <1>2, <2>2 DEF Inv
<1> QED
  BY <1>4, <1>5, <1>6

LEMMA Begins == ASSUME FeedInit PROVE Inv
<1>1. PastTypes
  <2>1. <<>> \in Seq(Record) /\ 0 \in Nat
    OBVIOUS
  <2>2. \A b \in Boards : Entry(0, b, 0, <<>>) \in EntrySet
    BY <2>1 DEF EntrySet, Entry
  <2>3. past \subseteq EntrySet
    BY <2>2 DEF FeedInit
  <2>4. log \in [Boards -> Seq(Record)] /\ version \in [Boards -> Nat]
    BY <2>1 DEF FeedInit
  <2> QED
    BY <2>1, <2>3, <2>4 DEF FeedInit, PastTypes
<1>2. PastNames
  <2>1. \A p \in past : p.epoch = 0 /\ p.version = 0 /\ p = Entry(0, p.board, 0, <<>>)
    BY DEF FeedInit, Entry
  <2>2. \A b \in Boards : Entry(epoch, b, version[b], log[b]) \in past
    BY DEF FeedInit
  <2>3. \A p \in past : p.epoch <= epoch /\ (p.epoch = epoch => p.version <= version[p.board])
    <3> SUFFICES ASSUME NEW p \in past PROVE p.epoch <= epoch /\ p.version <= version[p.board]
      OBVIOUS
    <3>1. p.epoch = 0 /\ p.version = 0 /\ p.board \in Boards
      BY <2>1 DEF FeedInit, Entry
    <3> QED
      BY <3>1 DEF FeedInit
  <2>4. \A p, q \in past : p.board = q.board => p = q
    BY <2>1
  <2> QED
    BY <2>2, <2>3, <2>4 DEF PastNames
<1>3. WireInv /\ FetchInv /\ HeldInv
  BY DEF FeedInit, WireInv, FetchInv, HeldInv, CopyIsOfItsVersion, Asked
<1> QED
  BY <1>1, <1>2, <1>3 DEF Inv, PastInv

\* The operator's copy of the log is one that the log once was, at the version it
\* is held to be of, for windows, logs, outages and boards of any number.
THEOREM CopiesAreOfTheirVersion == FeedSpec => []CopyIsOfItsVersion
<1>1. Inv /\ [FeedNext]_feedVars => Inv'
  <2> SUFFICES ASSUME Inv, [FeedNext]_feedVars
               PROVE  Inv'
    OBVIOUS
  <2>1. CASE \E b \in Boards : AppendRecord(b) \/ Rewrite(b) \/ Switch(b)
    BY <2>1, Appends, Rewrites, Switches
  <2>2. CASE Read \/ ServerRestarts \/ Land \/ \E m \in wire : Deliver(m)
    BY <2>2, Reads, Restarts, Lands, Delivers
  <2>3. CASE RunEffect \/ ReadFails \/ Connect \/ Drop \/ Evict \/ Open \/ UNCHANGED feedVars
    BY <2>3, Others
  <2> QED
    BY <2>1, <2>2, <2>3 DEF FeedNext, ClientStep
<1>2. Inv => CopyIsOfItsVersion
  BY DEF Inv, HeldInv
<1> QED
  BY <1>1, <1>2, Begins, PTL DEF FeedSpec
=============================================================================
