---------------------------- MODULE PooledProofs -----------------------------
(* What is proved of ImmutableStore holds of the store on its pool, for    *)
(* every setting of its size; and the pool itself keeps its bound, leaks   *)
(* no client and makes nobody who holds something wait.                    *)
EXTENDS PooledImmutableStore, AssociationProofs, FiniteSetTheorems, SequenceTheorems

\* Every step on the pool is a step of the store or changes nothing of it.
LEMMA PooledStepIsStep == [PooledNext]_pooledVars => [Next]_vars
  <1> SUFFICES ASSUME [PooledNext]_pooledVars PROVE [Next]_vars
    OBVIOUS
  <1>1. CASE UNCHANGED pooledVars
    BY <1>1 DEF pooledVars
  <1>2. CASE PooledCrash \/ PooledArrive
    BY <1>2 DEF PooledCrash, PooledArrive, Next
  <1>3. ASSUME NEW t \in Task, PooledBegin(t) \/ PooledFail(t)
        PROVE  Next
    BY <1>3 DEF PooledBegin, PooledFail, Next
  <1>4. ASSUME NEW t \in Task, GetClient(t)
        PROVE  UNCHANGED vars
    BY <1>4 DEF GetClient
  <1>5. ASSUME NEW t \in Task, PooledStep(t)
        PROVE  Next
    <2>1. Step(t)
      BY <1>5 DEF PooledStep, Step
    <2> QED
      BY <2>1 DEF Next
  <1> QED
    BY <1>1, <1>2, <1>3, <1>4, <1>5 DEF PooledNext

\* The store on its pool implements the store: queueing for clients, handing them over and
\* dropping them (deadpool's get, tls.rs, and the scopes of the handlers) adds no behaviour.
THEOREM PooledImplementsStore == PooledSpec => Spec
  <1>1. PooledInit => Init
    BY DEF PooledInit
  <1> QED
    BY <1>1, PooledStepIsStep, PTL DEF PooledSpec, Spec

\* SharedPayloadSurvives with clients pooled: obliterating one address of a hash never costs
\* another one its payload, however handlers queue for clients.
THEOREM PooledPayloadSafe == PooledSpec => []SharedPayloadSurvives
  BY PooledImplementsStore, SharedPayloadSafe, PTL

-----------------------------------------------------------------------------
(* The pool.                                                               *)

\* Cardinality means the same in the pool's module and here.
LEMMA PoolCardinality == \A S : Pool!Cardinality(S) = Cardinality(S)
  BY DEF Pool!Cardinality, Cardinality

\* Of a set of positions, each rank is somebody's: as many positions have fewer than m
\* before them as there are.
LEMMA Ranks ==
  ASSUME NEW n \in Nat, NEW P \in SUBSET (1..n)
  PROVE  /\ IsFiniteSet(P) /\ Cardinality(P) \in Nat
         /\ \A m \in 1..Cardinality(P) :
              \E i \in P : Cardinality({j \in P : j < i}) = m - 1
  <1> DEFINE Below(i) == {j \in P : j < i}
             Rank == [i \in P |-> Cardinality(Below(i)) + 1]
  <1>1. IsFiniteSet(P) /\ Cardinality(P) \in Nat
    <2>1. IsFiniteSet(1..n)
      BY FS_Interval
    <2>2. IsFiniteSet(P)
      BY <2>1, FS_Subset
    <2> QED
      BY <2>2, FS_CardinalityType
  <1>2. ASSUME NEW i \in P
        PROVE  /\ IsFiniteSet(Below(i)) /\ Cardinality(Below(i)) \in Nat
               /\ Cardinality(Below(i)) + 1 <= Cardinality(P)
    <2>1. Below(i) \in SUBSET (P \ {i})
      OBVIOUS
    <2>2. IsFiniteSet(P \ {i}) /\ Cardinality(P \ {i}) = Cardinality(P) - 1
      BY <1>1, FS_RemoveElement
    <2>3. IsFiniteSet(Below(i)) /\ Cardinality(Below(i)) <= Cardinality(P \ {i})
      BY <2>1, <2>2, FS_Subset
    <2>4. Cardinality(Below(i)) \in Nat
      BY <2>3, FS_CardinalityType
    <2> HIDE DEF Below
    <2> QED
      BY <1>1, <2>2, <2>3, <2>4
  <1>3. ASSUME NEW i \in P, NEW j \in P, i < j
        PROVE  Cardinality(Below(i)) < Cardinality(Below(j))
    <2>1. Below(i) \cup {i} \in SUBSET Below(j) /\ i \notin Below(i)
      <3>1. \A k \in P : k \in Int
        OBVIOUS
      <3>2. \A k \in P : k < i => k < j
        BY <1>3, <3>1
      <3>3. ~(i < i)
        BY <3>1
      <3> HIDE DEF Rank
      <3> QED
        BY <1>3, <3>2, <3>3
    <2>2. Cardinality(Below(i) \cup {i}) = Cardinality(Below(i)) + 1
      BY <1>2, <2>1, FS_AddElement
    <2>3. Cardinality(Below(i) \cup {i}) <= Cardinality(Below(j))
      BY <1>2, <2>1, FS_Subset
    <2>4. Cardinality(Below(i)) \in Nat /\ Cardinality(Below(j)) \in Nat
      BY <1>2
    <2> HIDE DEF Below
    <2> QED
      BY <2>2, <2>3, <2>4
  <1> DEFINE N == 1..Cardinality(P)
  <1>4. Rank \in Injection(P, N)
    <2>1. ASSUME NEW i \in P PROVE Rank[i] \in N
      <3> HIDE DEF Below
      <3> QED
        BY <1>1, <1>2
    <2>2. ASSUME NEW i \in P, NEW j \in P, Rank[i] = Rank[j] PROVE i = j
      <3>1. Cardinality(Below(i)) \in Nat /\ Cardinality(Below(j)) \in Nat
        BY <1>2
      <3>2. ~(i < j) /\ ~(j < i)
        <4> HIDE DEF Below
        <4> QED
          BY <1>3, <2>2, <3>1
      <3> QED
        BY <3>2
    <2> HIDE DEF N, Below
    <2> QED
      BY <2>1, <2>2 DEF Injection, IsInjective
  <1>5. IsFiniteSet(N) /\ Cardinality(N) = Cardinality(P)
    BY <1>1, FS_Interval
  <1>6. Rank \in Surjection(P, N)
    <2> HIDE DEF Rank, N
    <2> QED
      BY <1>4, <1>5, FS_Injection
  <1>7. ASSUME NEW m \in N PROVE \E i \in P : Cardinality(Below(i)) = m - 1
    <2>1. PICK i \in P : Rank[i] = m
      BY <1>6 DEF Surjection
    <2>2. Cardinality(Below(i)) \in Nat /\ Rank[i] = Cardinality(Below(i)) + 1
      BY <1>2
    <2> HIDE DEF Below, Rank
    <2> QED
      BY <2>1, <2>2
  <1> QED
    BY <1>1, <1>7

\* Dropping calls from a queue keeps the others, each once.
LEMMA WithoutKeeps ==
  ASSUME NEW S, NEW q \in Seq(S), IsInjective(q), NEW F, NEW w, w = Pool!Without(q, F)
  PROVE  /\ w \in Seq(S) /\ IsInjective(w)
         /\ Pool!ToSet(w) = Pool!ToSet(q) \ F
  <1> DEFINE stay == {i \in DOMAIN q : q[i] \notin F}
             nth(n) == CHOOSE i \in stay : Pool!Cardinality({j \in stay : j < i}) = n - 1
             size == Cardinality(stay)
  <1>1. w = [n \in 1..size |-> q[nth(n)]]
    BY PoolCardinality DEF Pool!Without
  <1>2. Len(q) \in Nat /\ DOMAIN q = 1..Len(q) /\ stay \in SUBSET (1..Len(q))
    OBVIOUS
  <1>3. /\ IsFiniteSet(stay) /\ size \in Nat
        /\ \A m \in 1..size :
              \E i \in stay : Cardinality({j \in stay : j < i}) = m - 1
    <2> HIDE DEF stay
    <2> QED
      BY <1>2, Ranks
  <1>4. ASSUME NEW m \in 1..size
        PROVE  nth(m) \in stay /\ Cardinality({j \in stay : j < nth(m)}) = m - 1
    <2> HIDE DEF stay
    <2>1. \E i \in stay : Pool!Cardinality({j \in stay : j < i}) = m - 1
      BY <1>3, PoolCardinality
    <2>2. nth(m) \in stay /\ Pool!Cardinality({j \in stay : j < nth(m)}) = m - 1
      BY <2>1
    <2> QED
      BY <2>2, PoolCardinality
  <1>5. ASSUME NEW m \in 1..size PROVE nth(m) \in DOMAIN q /\ q[nth(m)] \notin F
    <2> HIDE DEF nth, size
    <2> QED
      BY <1>4
  <1>6. ASSUME NEW k \in 1..size, NEW m \in 1..size, nth(k) = nth(m) PROVE k = m
    <2> HIDE DEF stay, nth
    <2>1. k - 1 = m - 1
      BY <1>4, <1>6
    <2> QED
      BY <1>3, <2>1
  <1>7. /\ w \in Seq(S) /\ IsInjective(w) /\ DOMAIN w = 1..size
        /\ \A m \in 1..size : w[m] \in {q[i] : i \in DOMAIN q} \ F
    <2> HIDE DEF nth, stay
    <2>1. \A m \in 1..size : q[nth(m)] \in S
      BY <1>5
    <2>2. ASSUME NEW k \in 1..size, NEW m \in 1..size, q[nth(k)] = q[nth(m)] PROVE k = m
      BY <1>5, <1>6, <2>2 DEF IsInjective
    <2>3. \A m \in 1..size : w[m] = q[nth(m)]
      BY <1>1
    <2>4. w \in Seq(S) /\ DOMAIN w = 1..size
      BY <1>1, <1>3, <2>1
    <2>5. IsInjective(w)
      BY <2>2, <2>3, <2>4 DEF IsInjective
    <2>6. \A m \in 1..size : w[m] \in {q[i] : i \in DOMAIN q} \ F
      <3> HIDE DEF size
      <3> QED
        BY <1>5, <2>3
    <2> QED
      BY <2>4, <2>5, <2>6
  <1>8. ASSUME NEW i \in stay PROVE \E m \in 1..size : w[m] = q[i]
    <2> DEFINE N == 1..size
               Nth == [m \in N |-> nth(m)]
    <2>1. IsFiniteSet(N) /\ Cardinality(N) = size
      <3> HIDE DEF stay
      <3> QED
        BY <1>3, FS_Interval
    <2>2. Nth \in Injection(N, stay)
      <3> HIDE DEF nth, stay
      <3> QED
        BY <1>4, <1>6 DEF Injection, IsInjective
    <2>3. Nth \in Surjection(N, stay)
      <3> HIDE DEF N, Nth, stay
      <3> QED
        BY <1>3, <2>1, <2>2, FS_Injection
    <2>4. PICK m \in N : Nth[m] = i
      BY <2>3 DEF Surjection
    <2> HIDE DEF nth, stay
    <2> QED
      BY <1>1, <2>4
  <1>9. \A e \in Pool!ToSet(q) \ F : \E m \in DOMAIN w : w[m] = e
    <2> HIDE DEF size
    <2> QED
      BY <1>7, <1>8 DEF Pool!ToSet
  <1> HIDE DEF size
  <1> QED
    BY <1>7, <1>9 DEF Pool!ToSet

\* The first n of a queue, and those behind them.
First(w, n) == {w[i] : i \in 1..n}
Behind(w, n) == SubSeq(w, n + 1, Len(w))

\* Serving the first n of a queue parts it in two.
LEMMA Served ==
  ASSUME NEW S, NEW w \in Seq(S), IsInjective(w), NEW n \in 0..Len(w),
         NEW head, head = First(w, n),
         NEW tail, tail = Behind(w, n)
  PROVE  /\ IsFiniteSet(head) /\ Cardinality(head) = n
         /\ tail \in Seq(S) /\ IsInjective(tail) /\ Len(tail) = Len(w) - n
         /\ head \cup Pool!ToSet(tail) = Pool!ToSet(w)
         /\ head \cap Pool!ToSet(tail) = {}
  <1>1. PICK l \in Nat : l = Len(w) /\ n \in Nat /\ n <= l /\ DOMAIN w = 1..l
    OBVIOUS
  <1>2. 1..n \subseteq DOMAIN w
    BY <1>1
  <1>3. IsFiniteSet(head) /\ Cardinality(head) = n
    <2> DEFINE N == 1..n
               At == [i \in N |-> w[i]]
    <2>1. \A i \in N : w[i] \in head
      BY DEF First
    <2>2. \A e \in head : \E i \in N : w[i] = e
      BY DEF First
    <2>3. IsFiniteSet(N) /\ Cardinality(N) = n
      BY <1>1, FS_Interval
    <2>4. N \subseteq DOMAIN w
      BY <1>2
    <2> HIDE DEF N
    <2>5. At \in Bijection(N, head)
      BY <2>1, <2>2, <2>4 DEF IsInjective, Bijection, Injection, Surjection
    <2> HIDE DEF At
    <2> QED
      BY <2>3, <2>5, FS_Bijection DEF ExistsBijection
  <1>4. /\ tail \in Seq(S) /\ Len(tail) = l - n /\ DOMAIN tail = 1..(l - n)
        /\ \A i \in 1..(l - n) : tail[i] = w[n + i]
    <2>1. \A i \in (n + 1)..l : w[i] \in S
      BY <1>1
    <2>2. /\ tail \in Seq(S)
          /\ Len(tail) = IF n + 1 <= l THEN l - (n + 1) + 1 ELSE 0
          /\ \A i \in 1..(l - (n + 1) + 1) : tail[i] = w[n + 1 + i - 1]
      BY <1>1, <2>1, SubSeqProperties DEF Behind
    <2>3. l - (n + 1) + 1 = l - n /\ \A i \in Int : n + 1 + i - 1 = n + i
      BY <1>1
    <2>4. Len(tail) = l - n
      BY <1>1, <2>2
    <2>5. \A i \in 1..(l - n) : tail[i] = w[n + i]
      BY <1>1, <2>2, <2>3
    <2> QED
      BY <2>2, <2>4, <2>5
  <1>5. ASSUME NEW i \in 1..(l - n)
        PROVE  i \in Int /\ n + i \in 1..l /\ n + i \notin 1..n
    BY <1>1
  <1>6. IsInjective(tail)
    <2>1. ASSUME NEW i \in 1..(l - n), NEW j \in 1..(l - n), w[n + i] = w[n + j]
          PROVE  i = j
      <3>1. n + i = n + j
        BY <1>1, <1>5, <2>1 DEF IsInjective
      <3> QED
        BY <1>1, <1>5, <3>1
    <2> QED
      BY <1>4, <2>1 DEF IsInjective
  <1>7. /\ \A i \in DOMAIN tail : \E j \in DOMAIN w : j \notin 1..n /\ tail[i] = w[j]
        /\ \A i \in DOMAIN w : i \in 1..n \/ \E j \in DOMAIN tail : tail[j] = w[i]
    <2>1. ASSUME NEW i \in 1..l, i \notin 1..n
          PROVE  i - n \in 1..(l - n) /\ n + (i - n) = i
      BY <1>1, <2>1
    <2>2. \A i \in 1..(l - n) : \E j \in DOMAIN w : j \notin 1..n /\ tail[i] = w[j]
      BY <1>1, <1>4, <1>5
    <2>3. \A i \in 1..l : i \in 1..n \/ \E j \in 1..(l - n) : tail[j] = w[i]
      BY <1>4, <2>1
    <2> QED
      BY <1>1, <1>4, <2>2, <2>3
  <1>8. head \cup Pool!ToSet(tail) = Pool!ToSet(w)
    <2>1. head \subseteq Pool!ToSet(w)
      BY <1>2 DEF First, Pool!ToSet
    <2>2. Pool!ToSet(tail) \subseteq Pool!ToSet(w)
      BY <1>7 DEF Pool!ToSet
    <2>3. Pool!ToSet(w) \subseteq head \cup Pool!ToSet(tail)
      BY <1>7 DEF First, Pool!ToSet
    <2> QED
      BY <2>1, <2>2, <2>3
  <1>9. head \cap Pool!ToSet(tail) = {}
    BY <1>2, <1>7 DEF First, IsInjective, Pool!ToSet
  <1> QED
    BY <1>1, <1>3, <1>4, <1>6, <1>8, <1>9

\* The pool's bookkeeping: within its size, full while anybody waits, nobody twice.
PoolInv ==
  /\ maxSize \in Nat \ {0}
  /\ lent \subseteq Checkout /\ IsFiniteSet(lent) /\ Cardinality(lent) <= maxSize
  /\ queue \in Seq(Checkout) /\ IsInjective(queue)
  /\ queue # <<>> => Cardinality(lent) = maxSize
  /\ lent \cap Pool!Waiting = {}

\* Dropping calls loses nobody else and keeps nobody waiting for a free slot.
LEMMA DropEffect ==
  ASSUME PoolInv, NEW F, Pool!Drop(F)
  PROVE  /\ PoolInv'
         /\ lent' \cup Pool!Waiting' = (lent \cup Pool!Waiting) \ F
         /\ lent \ F \subseteq lent'
  <1> USE DEF PoolInv
  <1>0. Pool!Waiting = Pool!ToSet(queue) /\ Pool!Waiting' = Pool!ToSet(queue')
    BY DEF Pool!Waiting
  <1>1. PICK kept : kept = lent \ F
    OBVIOUS
  <1>2. PICK waiting : waiting = Pool!Without(queue, F)
    OBVIOUS
  <1>3. PICK served : served = Pool!Shorter(maxSize - Cardinality(kept), Len(waiting))
    OBVIOUS
  <1>4. PICK head : head = First(waiting, served)
    OBVIOUS
  <1>5. PICK tail : tail = Behind(waiting, served)
    OBVIOUS
  <1>6. lent' = kept \cup head /\ queue' = tail /\ maxSize' = maxSize
    BY <1>1, <1>2, <1>3, <1>4, <1>5, PoolCardinality DEF Pool!Drop, First, Behind
  <1>7. /\ waiting \in Seq(Checkout) /\ IsInjective(waiting)
        /\ Pool!ToSet(waiting) = Pool!ToSet(queue) \ F
    BY <1>2, WithoutKeeps
  <1>8. /\ IsFiniteSet(kept) /\ Cardinality(kept) <= Cardinality(lent)
        /\ Cardinality(kept) \in Nat /\ Cardinality(lent) \in Nat
    BY <1>1, FS_Subset, FS_CardinalityType
  <1>9. Len(waiting) \in Nat
    BY <1>7
  <1>10. /\ served \in 0..Len(waiting) /\ Cardinality(kept) + served <= maxSize
         /\ served < Len(waiting) => Cardinality(kept) + served = maxSize
    BY <1>3, <1>8, <1>9 DEF Pool!Shorter
  <1> HIDE DEF PoolInv
  <1>11. /\ IsFiniteSet(head) /\ Cardinality(head) = served
         /\ tail \in Seq(Checkout) /\ IsInjective(tail) /\ Len(tail) = Len(waiting) - served
         /\ head \cup Pool!ToSet(tail) = Pool!ToSet(waiting)
         /\ head \cap Pool!ToSet(tail) = {}
    <2>1. served \in 0..Len(waiting) /\ waiting \in Seq(Checkout) /\ IsInjective(waiting)
      BY <1>7, <1>10
    <2> QED
      BY <1>4, <1>5, <2>1, Served
  <1> USE DEF PoolInv
  <1>12. kept \cap head = {} /\ kept \cap Pool!ToSet(tail) = {} /\ head \subseteq Checkout
    <2>1. Pool!ToSet(waiting) \subseteq Pool!ToSet(queue) /\ Pool!ToSet(queue) \subseteq Checkout
      BY <1>7 DEF Pool!ToSet
    <2> QED
      BY <1>0, <1>1, <1>11, <2>1
  <1>13. IsFiniteSet(lent') /\ Cardinality(lent') = Cardinality(kept) + served
    <2>1. /\ IsFiniteSet(kept \cup head)
          /\ Cardinality(kept \cup head)
               = Cardinality(kept) + Cardinality(head) - Cardinality(kept \cap head)
      BY <1>8, <1>11, FS_Union
    <2>2. Cardinality(kept \cap head) = 0
      BY <1>12, FS_EmptySet
    <2> QED
      BY <1>6, <1>8, <1>10, <1>11, <2>1, <2>2
  <1>14. queue' # <<>> => Cardinality(lent') = maxSize'
    <2>1. tail # <<>> => Len(tail) # 0
      BY <1>11
    <2> QED
      BY <1>6, <1>9, <1>10, <1>11, <1>13, <2>1
  <1>15. PoolInv'
    <2>1. lent' \subseteq Checkout /\ Cardinality(lent') <= maxSize' /\ maxSize' \in Nat \ {0}
      BY <1>1, <1>6, <1>10, <1>12, <1>13
    <2>2. lent' \cap Pool!Waiting' = {}
      BY <1>0, <1>6, <1>11, <1>12
    <2> QED
      BY <1>6, <1>11, <1>13, <1>14, <2>1, <2>2
  <1>16. lent' \cup Pool!Waiting' = (lent \cup Pool!Waiting) \ F
    BY <1>0, <1>1, <1>6, <1>7, <1>11
  <1> QED
    BY <1>1, <1>6, <1>15, <1>16

\* A checkout is lent a slot or queued, and nobody else is disturbed.
LEMMA GetEffect ==
  ASSUME PoolInv, NEW f \in Checkout, Pool!Get(f)
  PROVE  /\ PoolInv'
         /\ lent' \cup Pool!Waiting' = lent \cup Pool!Waiting \cup {f}
         /\ lent \subseteq lent'
  <1> USE DEF PoolInv
  <1>0. Pool!Waiting = Pool!ToSet(queue) /\ Pool!Waiting' = Pool!ToSet(queue')
    BY DEF Pool!Waiting
  <1>1. f \notin lent /\ f \notin Pool!ToSet(queue) /\ maxSize' = maxSize
    BY <1>0 DEF Pool!Get
  <1>2. Cardinality(lent) \in Nat
    BY FS_CardinalityType
  <1>3. CASE Cardinality(lent) < maxSize
    <2>1. lent' = lent \cup {f} /\ queue' = queue
      BY <1>3, PoolCardinality DEF Pool!Get
    <2>2. IsFiniteSet(lent') /\ Cardinality(lent') = Cardinality(lent) + 1
      BY <1>1, <2>1, FS_AddElement
    <2>3. queue = <<>>
      BY <1>2, <1>3
    <2>4. Cardinality(lent') <= maxSize'
      BY <1>1, <1>2, <1>3, <2>2
    <2> QED
      BY <1>0, <1>1, <2>1, <2>2, <2>3, <2>4
  <1>4. CASE ~(Cardinality(lent) < maxSize)
    <2>1. queue' = Append(queue, f) /\ lent' = lent
      BY <1>4, PoolCardinality DEF Pool!Get
    <2>2. Cardinality(lent) = maxSize
      BY <1>2, <1>4
    <2>3. /\ queue' \in Seq(Checkout) /\ DOMAIN queue = 1..Len(queue) /\ Len(queue) \in Nat
          /\ DOMAIN queue' = 1..(Len(queue) + 1) /\ queue'[Len(queue) + 1] = f
          /\ \A i \in 1..Len(queue) : queue'[i] = queue[i]
      BY <2>1
    <2>4. \A i \in DOMAIN queue' : i = Len(queue) + 1 \/ (i \in DOMAIN queue /\ queue'[i] = queue[i])
      BY <2>3
    <2>5. Pool!ToSet(queue') = Pool!ToSet(queue) \cup {f}
      BY <2>3, <2>4 DEF Pool!ToSet
    <2>6. IsInjective(queue')
      BY <1>1, <2>3, <2>4 DEF IsInjective, Pool!ToSet
    <2> QED
      BY <1>0, <1>1, <2>1, <2>2, <2>3, <2>5, <2>6
  <1> QED
    BY <1>3, <1>4

\* The clients a task needs are its own.
LEMMA NeedsOwn == \A t \in Task : Needs(t) \subseteq Of(t) /\ Of(t) \subseteq Checkout
  BY DEF Needs, Of, Checkout, Call, Transaction, Statement

LEMMA PoolInvInit == PooledInit => PoolInv
  <1> SUFFICES ASSUME PooledInit PROVE PoolInv
    OBVIOUS
  <1>1. maxSize \in Nat \ {0} /\ lent = {} /\ queue = <<>>
    BY PoolAssumption
    DEF PooledInit, Pool!PoolInit, Pool!PoolSize, PoolAssumption, Pool!SizeAssumption
  <1>2. queue \in Seq(Checkout) /\ IsInjective(queue)
    BY <1>1 DEF IsInjective
  <1> QED
    BY <1>1, <1>2, FS_EmptySet DEF PoolInv

LEMMA PoolInvNext == PoolInv /\ [PooledNext]_pooledVars => PoolInv'
  <1> SUFFICES ASSUME PoolInv, [PooledNext]_pooledVars PROVE PoolInv'
    OBVIOUS
  <1>1. ASSUME UNCHANGED pool PROVE PoolInv'
    BY <1>1 DEF pool, PoolInv, Pool!Waiting
  <1>2. CASE PooledCrash
    <2>1. lent' = {} /\ queue' = <<>> /\ maxSize' = maxSize
      BY <1>2 DEF PooledCrash
    <2>2. queue' \in Seq(Checkout) /\ IsInjective(queue')
      BY <2>1 DEF IsInjective
    <2>3. Cardinality(lent') <= maxSize'
      BY <2>1, FS_EmptySet DEF PoolInv
    <2> QED
      BY <2>1, <2>2, <2>3, FS_EmptySet DEF PoolInv
  <1>3. ASSUME NEW t \in Task, GetClient(t) PROVE PoolInv'
    <2>1. PICK f \in Needs(t) : Pool!Get(f)
      BY <1>3 DEF GetClient
    <2> QED
      BY <2>1, NeedsOwn, GetEffect
  <1>4. ASSUME NEW t \in Task, PooledStep(t) PROVE PoolInv'
    <2>1. PICK F : F = Of(t) \ Kept(t)' /\ Pool!Drop(F)
      BY <1>4 DEF PooledStep
    <2> QED
      BY <2>1, DropEffect
  <1>5. ASSUME NEW t \in Task, PooledFail(t) PROVE PoolInv'
    <2>1. PICK F : F = Of(t) /\ Pool!Drop(F)
      BY <1>5 DEF PooledFail
    <2> QED
      BY <2>1, DropEffect
  <1> QED
    BY <1>1, <1>2, <1>3, <1>4, <1>5 DEF PooledNext, PooledArrive, PooledBegin, pooledVars, pool

\* The whole queue, served, would be as many as it is long.
LEMMA QueueLength == PoolInv => Cardinality(Pool!Waiting) = Len(queue)
  <1> SUFFICES ASSUME PoolInv PROVE Cardinality(Pool!Waiting) = Len(queue)
    OBVIOUS
  <1>1. queue \in Seq(Checkout) /\ IsInjective(queue)
    BY DEF PoolInv
  <1>2. PICK n \in 0..Len(queue) : n = Len(queue)
    BY <1>1
  <1>3. PICK head : head = First(queue, n)
    OBVIOUS
  <1>4. Cardinality(head) = n
    BY <1>1, <1>3, Served
  <1>5. head = Pool!Waiting
    BY <1>1, <1>2, <1>3 DEF First, Pool!Waiting, Pool!ToSet
  <1> QED
    BY <1>2, <1>4, <1>5

\* PoolSound: however calls queue, are served, fail and are dropped with the server, the pool
\* never exceeds its size (tls.rs, make_pool) and strands neither a slot nor a waiter.
THEOREM PoolStaysSound == PooledSpec => []PoolSound
  <1>1. PoolInv => PoolSound
    BY QueueLength, PoolCardinality
    DEF PoolInv, PoolSound, Pool!PoolTypeOK, Pool!PoolSound
  <1> QED
    BY <1>1, PoolInvInit, PoolInvNext, PTL DEF PooledSpec

-----------------------------------------------------------------------------
(* Clients and the calls they serve.                                       *)

\* An open transaction has the client it was begun on.
TxnHeld ==
  \A t \in Task : pc[t] \in Transaction \ {"put_upsert"} => <<t, "txn">> \in lent

ClientInv == ClientsInUse /\ TxnHeld

\* What a task does leaves the place and the reads of the others alone, or starts them.
LEMMA Elsewhere ==
  ASSUME TypeInv, NEW t \in Task, Step(t) \/ Fail(t) \/ Begin(t), NEW u \in Task \ {t}
  PROVE  \/ pc'[u] = pc[u] /\ seen'[u] = seen[u]
         \/ pc[u] = "idle" /\ pc'[u] = "obl_load"
  <1> USE DEF TypeInv, TypeOK
  <1>1. CASE Fail(t) \/ Begin(t)
    BY <1>1 DEF Fail, Begin, Goto, local
  <1>2. CASE Step(t) /\ ~OblRead(t)
    <2>1. pc'[u] = pc[u]
      BY <1>2, StepElsewhere DEF Stays
    <2>2. CASE GetExists(t) \/ GetRow(t) \/ GetObject(t)
      BY <2>1, <2>2 DEF GetExists, GetRow, GetObject
    <2>3. CASE ~(GetExists(t) \/ GetRow(t) \/ GetObject(t))
      <3>1. UNCHANGED seen
        BY <1>2, <2>3
        DEF Step, Resolve, ResolveRow, NoMatch, MatchFull, ResolveError, QueryResult,
            PutUnmatched, GetMetadataLoad, GetDone, PutCheck, PutObject, PutUpsert,
            PutAssociate, PutCommit, CopyCheck, CopyAssociate, OblLoad, OblLock, OblJoin,
            OblUnassociate, OblCount, OblRestore, OblPayload, OblTombstone, local
      <3> QED
        BY <2>1, <3>1
    <2> QED
      BY <2>2, <2>3
  <1>3. CASE OblRead(t)
    <2>1. UNCHANGED seen
      BY <1>3 DEF OblRead
    <2>2. CASE \E r \in {"not_found", "err"} : Return(t, r)
      BY <2>1, <2>2 DEF Return
    <2>3. CASE Spawn(t, Refs[s3[req[t].key.hash]])
      <3>1. PICK new \in SUBSET (Task \ Client) : Spawned(t, Refs[s3[req[t].key.hash]], new)
        BY <2>3, SpawnEffect
      <3> QED
        BY <2>1, <3>1 DEF Spawned
    <2> QED
      BY <1>3, <2>2, <2>3 DEF OblRead
  <1> QED
    BY <1>1, <1>2, <1>3

\* A transaction is entered by its upsert, and left for good.
LEMMA TxnArrives ==
  ASSUME TypeInv, NEW t \in Task, Step(t), pc'[t] \in Transaction \ {"put_upsert"}
  PROVE  pc[t] \in {"put_upsert", "put_associate"}
  <1> USE DEF TypeInv, TypeOK, Transaction, Goto, Return, LostReply, Retried, GotoOrLose,
              ReturnOrLose
  <1>1. CASE Resolve(t) \/ ResolveRow(t)
    BY <1>1 DEF Resolve, ResolveRow, NoMatch, MatchFull, ResolveError, QueryResult, PutUnmatched
  <1>2. CASE GetMetadataLoad(t) \/ GetExists(t) \/ GetRow(t) \/ GetObject(t) \/ GetDone(t)
    BY <1>2 DEF GetMetadataLoad, GetExists, GetRow, GetObject, GetDone
  <1>3. CASE PutCheck(t) \/ PutUpsert(t) \/ PutAssociate(t) \/ PutCommit(t)
    BY <1>3 DEF PutCheck, PutUpsert, PutAssociate, PutCommit
  <1>4. CASE PutObject(t) \/ OblPayload(t)
    BY <1>4 DEF PutObject, OblPayload, S3Write
  <1>5. CASE CopyCheck(t) \/ CopyAssociate(t) \/ OblLoad(t) \/ OblLock(t)
    BY <1>5 DEF CopyCheck, CopyAssociate, OblLoad, OblLock
  <1>6. CASE OblRead(t)
    BY <1>6, ReadMoves DEF OblRead, Stays, Starts
  <1>7. CASE OblJoin(t) \/ OblUnassociate(t) \/ OblCount(t) \/ OblRestore(t) \/ OblTombstone(t)
    BY <1>7 DEF OblJoin, OblUnassociate, OblCount, OblRestore, OblTombstone
  <1> QED
    BY <1>1, <1>2, <1>3, <1>4, <1>5, <1>6, <1>7 DEF Step

\* Where a task stands and what it has read tell what it needs.
LEMMA NeedsFollow ==
  ASSUME NEW u, pc'[u] = pc[u], seen'[u] = seen[u]
  PROVE  Needs(u)' = Needs(u)
  BY DEF Needs

LEMMA IdleNeeds == \A u : pc[u] = "idle" => Needs(u) = {}
  BY DEF Needs, Transaction, Statement

\* A get needs at most its two lookups' clients, a transaction its own, a call any one.
LEMMA NeedsByLabel ==
  ASSUME NEW t
  PROVE  /\ pc[t] = "get" => Needs(t) \subseteq {<<t, "exists">>, <<t, "row">>}
         /\ pc[t] \in Transaction => Needs(t) = {<<t, "txn">>}
         /\ pc[t] # "get" => \A f, g \in Needs(t) : f = g
  BY DEF Needs, Transaction, Statement

\* A drop of what t no longer keeps leaves the clients of the others in their use.
LEMMA OthersInUse ==
  ASSUME TypeInv, PoolInv, ClientInv, NEW t \in Task, Step(t) \/ Fail(t),
         NEW F \in SUBSET Of(t), Pool!Drop(F)
  PROVE  /\ \A f \in lent' \cup Pool!Waiting' : f[1] # t => f \in Needs(f[1])'
         /\ \A u \in Task \ {t} :
              pc'[u] \in Transaction \ {"put_upsert"} => <<u, "txn">> \in lent'
  <1>1. /\ lent' \cup Pool!Waiting' = (lent \cup Pool!Waiting) \ F
        /\ lent \ F \subseteq lent'
    BY DropEffect
  <1>2. ASSUME NEW f \in lent' \cup Pool!Waiting', f[1] # t PROVE f \in Needs(f[1])'
    <2>1. f \in lent \cup Pool!Waiting /\ f \in Checkout
      BY <1>1 DEF PoolInv, Pool!Waiting, Pool!ToSet
    <2>2. PICK u \in Task \ {t} : u = f[1]
      BY <1>2, <2>1 DEF Checkout
    <2>3. f \in Needs(u)
      BY <2>1, <2>2 DEF ClientInv, ClientsInUse
    <2>4. pc'[u] = pc[u] /\ seen'[u] = seen[u]
      BY <2>3, Elsewhere, IdleNeeds
    <2> QED
      BY <2>2, <2>3, <2>4, NeedsFollow
  <1>3. ASSUME NEW u \in Task \ {t}, pc'[u] \in Transaction \ {"put_upsert"}
        PROVE  <<u, "txn">> \in lent'
    <2>1. pc[u] = pc'[u]
      BY <1>3, Elsewhere DEF Transaction
    <2>2. <<u, "txn">> \in lent
      BY <1>3, <2>1 DEF ClientInv, TxnHeld
    <2>3. <<u, "txn">> \notin F
      BY DEF Of
    <2> QED
      BY <1>1, <2>2, <2>3
  <1> QED
    BY <1>2, <1>3

LEMMA ClientInvInit == PooledInit => ClientInv
  <1> SUFFICES ASSUME PooledInit PROVE ClientInv
    OBVIOUS
  <1>1. lent = {} /\ Pool!Waiting = {}
    BY DEF PooledInit, Pool!PoolInit, Pool!Waiting, Pool!ToSet
  <1>2. \A t \in Task : pc[t] \notin Transaction
    BY DEF PooledInit, Init, Transaction
  <1> QED
    BY <1>1, <1>2 DEF ClientInv, ClientsInUse, TxnHeld

\* A step gives back what the task no longer needs, and a transaction keeps its client.
LEMMA ClientStep ==
  ASSUME TypeInv, PoolInv, ClientInv, NEW t \in Task, PooledStep(t)
  PROVE  ClientInv'
  <1>1. Step(t)
    BY DEF PooledStep, Step
  <1>2. PICK F \in SUBSET Of(t) : F = Of(t) \ Kept(t)' /\ Pool!Drop(F)
    BY DEF PooledStep
  <1>3. /\ lent' \cup Pool!Waiting' = (lent \cup Pool!Waiting) \ F
        /\ lent \ F \subseteq lent'
    BY <1>2, DropEffect
  <1>4. /\ \A f \in lent' \cup Pool!Waiting' : f[1] # t => f \in Needs(f[1])'
        /\ \A u \in Task \ {t} :
             pc'[u] \in Transaction \ {"put_upsert"} => <<u, "txn">> \in lent'
    BY <1>1, <1>2, OthersInUse
  <1>5. ASSUME NEW f \in lent' \cup Pool!Waiting', f[1] = t PROVE f \in Needs(t)'
    <2>1. f \in Checkout /\ f \notin F
      BY <1>3 DEF PoolInv, Pool!Waiting, Pool!ToSet
    <2>2. f \in Of(t)
      BY <1>5, <2>1 DEF Checkout, Of
    <2>3. f \in Kept(t)'
      BY <1>2, <2>1, <2>2
    <2> QED
      BY <2>3 DEF Kept
  <1>6. ASSUME pc'[t] \in Transaction \ {"put_upsert"} PROVE <<t, "txn">> \in lent'
    <2>1. pc[t] \in {"put_upsert", "put_associate"}
      BY <1>1, <1>6, TxnArrives
    <2>2. Needs(t) \subseteq lent
      BY <2>1 DEF PooledStep, GetExists, GetRow, GetObject, GetDone
    <2>3. <<t, "txn">> \in Needs(t)
      BY <2>1, NeedsByLabel DEF Transaction
    <2>4. <<t, "txn">> \in Kept(t)'
      BY <1>6 DEF Kept, Needs, Transaction, Statement
    <2> QED
      BY <1>2, <1>3, <2>2, <2>3, <2>4
  <1> QED
    BY <1>4, <1>5, <1>6 DEF ClientInv, ClientsInUse, TxnHeld

\* A call that fails gives everything back.
LEMMA ClientFail ==
  ASSUME TypeInv, PoolInv, ClientInv, NEW t \in Task, PooledFail(t)
  PROVE  ClientInv'
  <1>1. Fail(t)
    BY DEF PooledFail
  <1>2. PICK F \in SUBSET Of(t) : F = Of(t) /\ Pool!Drop(F)
    BY DEF PooledFail
  <1>3. lent' \cup Pool!Waiting' = (lent \cup Pool!Waiting) \ F
    BY <1>2, DropEffect
  <1>4. /\ \A f \in lent' \cup Pool!Waiting' : f[1] # t => f \in Needs(f[1])'
        /\ \A u \in Task \ {t} :
             pc'[u] \in Transaction \ {"put_upsert"} => <<u, "txn">> \in lent'
    BY <1>1, <1>2, OthersInUse
  <1>5. \A f \in lent' \cup Pool!Waiting' : f[1] # t
    <2>1. \A f \in lent \cup Pool!Waiting : f \in Checkout
      BY DEF PoolInv, Pool!Waiting, Pool!ToSet
    <2>2. \A f \in Checkout : f[1] = t => f \in Of(t)
      BY DEF Checkout, Of
    <2> QED
      BY <1>2, <1>3, <2>1, <2>2
  <1>6. pc'[t] \notin Transaction
    BY <1>1 DEF Fail, Transaction, TypeInv, TypeOK
  <1> QED
    BY <1>4, <1>5, <1>6 DEF ClientInv, ClientsInUse, TxnHeld

\* A checkout is made for a call under way.
LEMMA ClientGet ==
  ASSUME PoolInv, ClientInv, NEW t \in Task, GetClient(t)
  PROVE  ClientInv'
  <1>1. PICK f \in Needs(t) : Pool!Get(f)
    BY DEF GetClient
  <1>2. f \in Checkout /\ f[1] = t
    BY NeedsOwn DEF Of
  <1>3. lent' \cup Pool!Waiting' = lent \cup Pool!Waiting \cup {f} /\ lent \subseteq lent'
    BY <1>1, <1>2, GetEffect
  <1>4. pc' = pc /\ seen' = seen
    BY <1>1 DEF GetClient, vars, local
  <1>5. ASSUME NEW g \in lent' \cup Pool!Waiting' PROVE g \in Needs(g[1])'
    <2>1. g \in Needs(g[1])
      BY <1>2, <1>3 DEF ClientInv, ClientsInUse
    <2> QED
      BY <1>4, <2>1, NeedsFollow
  <1>6. TxnHeld'
    BY <1>3, <1>4 DEF ClientInv, TxnHeld
  <1> QED
    BY <1>5, <1>6 DEF ClientInv, ClientsInUse

\* A task that starts holds nothing yet.
LEMMA ClientBegin ==
  ASSUME TypeInv, PoolInv, ClientInv, NEW t \in Task, PooledBegin(t)
  PROVE  ClientInv'
  <1>1. Begin(t) /\ lent' = lent /\ Pool!Waiting' = Pool!Waiting
    BY DEF PooledBegin, pool, Pool!Waiting
  <1>2. pc[t] = "idle" /\ pc'[t] \notin Transaction
    BY <1>1 DEF Begin, Goto, Transaction, TypeInv, TypeOK
  <1>3. ASSUME NEW f \in lent \cup Pool!Waiting PROVE f \in Needs(f[1])'
    <2>1. f \in Needs(f[1]) /\ f \in Checkout
      BY DEF ClientInv, ClientsInUse, PoolInv, Pool!Waiting, Pool!ToSet
    <2>2. PICK u \in Task \ {t} : u = f[1]
      BY <1>2, <2>1, IdleNeeds DEF Checkout
    <2>3. pc'[u] = pc[u] /\ seen'[u] = seen[u]
      BY <1>1, <2>1, <2>2, Elsewhere, IdleNeeds
    <2> QED
      BY <2>1, <2>2, <2>3, NeedsFollow
  <1>4. TxnHeld'
    BY <1>1, <1>2, Elsewhere DEF ClientInv, TxnHeld, Transaction
  <1> QED
    BY <1>1, <1>3, <1>4 DEF ClientInv, ClientsInUse

\* A crash takes all the clients.
LEMMA ClientCrash ==
  ASSUME TypeInv, PooledCrash
  PROVE  ClientInv'
  <1>1. lent' = {} /\ Pool!Waiting' = {}
    BY DEF PooledCrash, Pool!Waiting, Pool!ToSet
  <1>2. \A t \in Task : pc'[t] \notin Transaction
    BY DEF PooledCrash, Crash, Running, Transaction
  <1> QED
    BY <1>1, <1>2 DEF ClientInv, ClientsInUse, TxnHeld

LEMMA ClientNext ==
  TypeInv /\ PoolInv /\ ClientInv /\ [PooledNext]_pooledVars => ClientInv'
  <1> SUFFICES ASSUME TypeInv, PoolInv, ClientInv, [PooledNext]_pooledVars
               PROVE  ClientInv'
    OBVIOUS
  <1>1. CASE UNCHANGED pooledVars \/ PooledArrive
    <2>1. /\ pc' = pc /\ seen' = seen /\ lent' = lent /\ Pool!Waiting' = Pool!Waiting
      BY <1>1 DEF pooledVars, vars, local, pool, PooledArrive, Arrive, Pool!Waiting
    <2>2. \A u : Needs(u)' = Needs(u)
      BY <2>1, NeedsFollow
    <2> QED
      BY <2>1, <2>2 DEF ClientInv, ClientsInUse, TxnHeld
  <1> QED
    BY <1>1, ClientStep, ClientFail, ClientGet, ClientBegin, ClientCrash DEF PooledNext

\* What is invariant on the pool: the store's types, the pool's bookkeeping, whose clients.
LEMMA ClientsInvariant == PooledSpec => [](TypeInv /\ PoolInv /\ ClientInv)
  <1>1. PooledInit => TypeInv /\ PoolInv /\ ClientInv
    BY TypeInit, PoolInvInit, ClientInvInit DEF PooledInit
  <1>2. TypeInv /\ PoolInv /\ ClientInv /\ [PooledNext]_pooledVars
          => (TypeInv /\ PoolInv /\ ClientInv)'
    BY PooledStepIsStep, TypeNext, PoolInvNext, ClientNext
  <1> QED
    BY <1>1, <1>2, PTL DEF PooledSpec

\* ClientsInUse: no client is leaked.  Failing calls, dropped futures, finished statements and
\* transactions give theirs back (the scopes of get_client's results), so whatever the pool
\* has lent or keeps in line is for a call under way.
THEOREM NoClientLeaks == PooledSpec => []ClientsInUse
  BY ClientsInvariant, PTL DEF ClientInv

\* NoHoldAndWait: whoever waits for a connection holds neither another one, on which the pool
\* might wait, nor a row lock; the deadlock verify's comment (pg_immutable_store.rs) speaks
\* of cannot arise, for any pool size and any number of handlers.
THEOREM NobodyHoldsAndWaits == PooledSpec => []NoHoldAndWait
  <1>1. PoolInv /\ ClientInv => NoHoldAndWait
    <2> SUFFICES ASSUME PoolInv, ClientInv, NEW f \in Pool!Waiting
                 PROVE  /\ pc[f[1]] \notin Transaction \ {"put_upsert"}
                        /\ \A g \in lent : g[1] = f[1] =>
                             {f, g} = {<<f[1], "exists">>, <<f[1], "row">>}
      BY DEF NoHoldAndWait
    <2>1. PICK t \in Task : t = f[1]
      BY DEF PoolInv, Pool!Waiting, Pool!ToSet, Checkout
    <2>2. f \in Needs(t) /\ f \notin lent
      BY <2>1 DEF ClientInv, ClientsInUse, PoolInv
    <2>3. pc[t] \notin Transaction \ {"put_upsert"}
      <3>1. pc[t] \in Transaction => f = <<t, "txn">>
        BY <2>2, NeedsByLabel
      <3> QED
        BY <2>2, <3>1 DEF ClientInv, TxnHeld
    <2>4. ASSUME NEW g \in lent, g[1] = t
          PROVE  {f, g} = {<<t, "exists">>, <<t, "row">>}
      <3>1. g \in Needs(t) /\ g # f
        BY <2>2, <2>4 DEF ClientInv, ClientsInUse
      <3>2. CASE pc[t] = "get"
        <4>1. Needs(t) \subseteq {<<t, "exists">>, <<t, "row">>}
          BY <3>2, NeedsByLabel
        <4> QED
          BY <2>2, <3>1, <4>1
      <3>3. CASE pc[t] # "get"
        BY <2>2, <3>1, <3>3, NeedsByLabel
      <3> QED
        BY <3>2, <3>3
    <2> QED
      BY <2>1, <2>3, <2>4
  <1> QED
    BY <1>1, ClientsInvariant, PTL
=============================================================================
