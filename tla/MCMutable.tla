------------------------------ MODULE MCMutable ------------------------------
(* Instances of MutableStore for TLC: two branch pointers and a metadata   *)
(* key in one repository, three concurrent requests.                       *)
EXTENDS MutableStore, TLC

CONSTANTS m1, m2, m3, repo, branch, meta, t1, t2, v1, v2, lockA, lockB

K(type, tail) == [type |-> type, tail |-> tail]
Latest(tail) == [repo |-> repo, key |-> K(branch, tail)]

\* The locks of the pointer t1 and of the metadata key t1 collide.
MCLockOf == [s \in Slot |-> IF s.key.tail = t1 THEN lockA ELSE lockB]
\* t1 is absent and t2 exists.
MCTable == [s \in Slot |-> IF s = Latest(t2) THEN v1 ELSE Absent]

LoadOf(k, type) == [op |-> "load", repo |-> repo, key |-> k, type |-> type]
StoreOf(k, type, v) == [op |-> "store", repo |-> repo, key |-> k, type |-> type, value |-> v]
CasOf(k, type, e, v) ==
  [op |-> "cas", repo |-> repo, key |-> k, type |-> type, expected |-> e, value |-> v]
ListOf(type) == [op |-> "list", repo |-> repo, type |-> type]

\* Swaps of a pointer that is absent or zero at first, under two spellings of its key, and
\* stores to other keys, one of them behind the same advisory lock.
SwapRequests ==
  {CasOf(K(branch, t1), branch, Zero, Zero), CasOf(K(meta, t1), branch, Zero, v1),
   CasOf(K(branch, t1), branch, v1, v2), CasOf(K(branch, t1), branch, v1, Zero),
   CasOf(K(meta, t1), meta, Zero, v2),
   StoreOf(K(branch, t2), branch, v2), StoreOf(K(branch, t2), branch, Zero),
   LoadOf(K(meta, t1), branch), ListOf(branch), ListOf(Untyped)}
\* A store and a swap of one pointer.
StoreVsSwap == {CasOf(K(branch, t2), branch, v1, v2), StoreOf(K(branch, t2), branch, Zero)}
=============================================================================
