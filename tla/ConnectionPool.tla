--------------------------- MODULE ConnectionPool ---------------------------
(***************************************************************************)
(* The bounded pool of Postgres connections each store builds with         *)
(* make_pool (tls.rs).  The pool itself is deadpool's, modelled from how   *)
(* the stores use it: a checkout is a future that waits, without a         *)
(* timeout, for one of maxSize slots; slots are handed over in the order   *)
(* of asking; dropping the client or the waiting future gives them back.   *)
(***************************************************************************)
EXTENDS Naturals, Sequences, SequencesExt, FiniteSets

CONSTANTS
  Checkout,    \* the futures that call pool.get()
  NoNumber,    \* LORE_PG_POOL_MAX_SIZE unset, or not a number
  Settings,    \* what LORE_PG_POOL_MAX_SIZE may be
  DefaultSize  \* DEFAULT_POOL_MAX_SIZE

\* To be assumed where a pool is instantiated.
SizeAssumption ==
  /\ DefaultSize \in Nat \ {0}
  /\ Settings \subseteq Nat \cup {NoNumber}
  /\ NoNumber \notin Nat

VARIABLES
  maxSize,  \* the pool's size
  lent,     \* the checkouts that hold a connection
  queue     \* the checkouts that wait for one, in the order they came

pool == <<maxSize, lent, queue>>

\* Mutant: the environment is taken at its word.
PoolSizeUnfiltered(v) == IF v = NoNumber THEN DefaultSize ELSE v

\* make_pool: a missing, non-numeric or zero setting falls back to the default.
PoolSize(v) == IF v # NoNumber /\ v > 0 THEN v ELSE DefaultSize

PoolInit ==
  /\ maxSize \in {PoolSize(v) : v \in Settings}
  /\ lent = {}
  /\ queue = <<>>

Waiting == ToSet(queue)

\* pool.get(): a slot if one is free, the end of the queue otherwise.
Get(f) ==
  /\ f \notin lent /\ f \notin Waiting
  /\ IF Cardinality(lent) < maxSize
       THEN lent' = lent \cup {f} /\ UNCHANGED queue
       ELSE queue' = Append(queue, f) /\ UNCHANGED lent
  /\ UNCHANGED maxSize

Shorter(m, n) == IF m < n THEN m ELSE n

\* What F leaves of a queue, in its order: the nth to stay has n - 1 of those before it.
Without(q, F) ==
  LET stay == {i \in DOMAIN q : q[i] \notin F}
      nth(n) == CHOOSE i \in stay : Cardinality({j \in stay : j < i}) = n - 1
  IN  [n \in 1..Cardinality(stay) |-> q[nth(n)]]

\* Clients and waiting futures of F are dropped: the slots go to the head of the queue.
Drop(F) ==
  LET kept == lent \ F
      waiting == Without(queue, F)
      served == Shorter(maxSize - Cardinality(kept), Len(waiting))
  IN  /\ lent' = kept \cup {waiting[i] : i \in 1..served}
      /\ queue' = SubSeq(waiting, served + 1, Len(waiting))
      /\ UNCHANGED maxSize

-----------------------------------------------------------------------------

PoolTypeOK ==
  /\ maxSize \in Nat \ {0}
  /\ lent \subseteq Checkout
  /\ queue \in Seq(Checkout)

\* The pool never exceeds its size, keeps no checkout waiting while a slot is free, and
\* neither queues a checkout twice nor serves it and leaves it queued.
PoolSound ==
  /\ Cardinality(lent) <= maxSize
  /\ queue # <<>> => Cardinality(lent) = maxSize
  /\ lent \cap Waiting = {}
  /\ Cardinality(Waiting) = Len(queue)
=============================================================================
