------------------------- MODULE ObliterationProofs -------------------------
(* The lock of obliterate, and what it protects: the payload of a row that *)
(* is live, and the absence of the payload of a row that is a tombstone.   *)
(* A put takes no notice of the lock, so all of this is about the hashes   *)
(* no put has asked for.                                                   *)
EXTENDS AssociationProofs

PutAsked(h) == \E t \in Task : req[t].op = "put" /\ req[t].key.hash = h

\* ObliterationLock, for one hash.
LockHeld(h) ==
  \A t \in Task : Holds(t, h) => /\ meta[h] = Locked(orig[t])
                                 /\ \A u \in Task : Holds(u, h) => u = t

LockInv ==
  /\ IdleClean
  /\ OriginalRow
  /\ \A h \in Hash : PutAsked(h) \/ LockHeld(h)

\* The row of h at the start.
InitRow(h) == IF InitFrag[h] = NoFrag THEN NoRow ELSE Live(InitFrag[h])

\* The payload of h is being deleted or is gone: whoever holds the lock has counted no
\* association, so nobody gives the row back.
Doomed(h) ==
  /\ Obliteration(meta[h])
  /\ \A t \in Task : Holds(t, h) => pc[t] \in {"obl_payload", "obl_tomb"}

\* Rows are the initial ones, locked or deleted, and obliterates work from the initial ones.
RowsOriginal(h) ==
  /\ meta[h] \in {InitRow(h), Locked(InitRow(h)), Tombstone}
  /\ \A t \in Task : pc[t] \in Loaded /\ req[t].key.hash = h => orig[t] = InitRow(h)

\* The object is the initial one until the hash is doomed, and what is still under way is
\* the deletion of a doomed object.
ObjectKept(h) ==
  /\ s3[h] = InitFrag[h] \/ Doomed(h)
  /\ \A w \in late : w.hash = h => w.frag = NoFrag /\ Doomed(h)

\* A tombstone is written after the object is gone.
ObjectGone(h) ==
  /\ meta[h] = Tombstone => s3[h] = NoFrag
  /\ \A t \in Task : pc[t] = "obl_tomb" /\ req[t].key.hash = h => s3[h] = NoFrag

PayloadInv ==
  \A h \in Hash : PutAsked(h) \/ (RowsOriginal(h) /\ ObjectKept(h) /\ ObjectGone(h))

-----------------------------------------------------------------------------
(* What a step does to the lock, the row and the object of one hash.       *)

HoldLabel == {"obl_read", "obl_join", "obl_unassoc", "obl_count", "obl_restore",
              "obl_payload", "obl_tomb"}

\* The only step that loads a row.
LEMMA LoadsOnce ==
  ASSUME TypeInv, [Next]_vars, NEW t \in Task
  PROVE  orig'[t] = orig[t] \/ OblLoad(t)
  <1> USE DEF TypeInv, TypeOK, local
  <1>1. ASSUME UNCHANGED orig PROVE orig'[t] = orig[t]
    BY <1>1
  <1>2. ASSUME NEW u \in Task, OblLoad(u) PROVE orig'[t] = orig[t] \/ OblLoad(t)
    BY <1>2 DEF OblLoad
  <1>3. ASSUME NEW u \in Task, Step(u) PROVE orig'[t] = orig[t] \/ OblLoad(t)
    BY <1>1, <1>2, <1>3
    DEF Step, Resolve, ResolveRow, NoMatch, MatchFull, ResolveError, QueryResult, PutUnmatched,
        GetMetadataLoad, GetExists, GetRow, GetObject, GetDone, PutCheck, PutObject, PutUpsert,
        PutAssociate, PutCommit, CopyCheck, CopyAssociate, OblLock, OblRead, OblJoin,
        OblUnassociate, OblCount, OblRestore, OblPayload, OblTombstone
  <1> QED
    BY <1>1, <1>3 DEF Next, Begin, Fail, Crash, Arrive, vars

\* How a step of the task's own leads it to a label under the lock.
LEMMA HoldStep ==
  ASSUME TypeInv, NEW t \in Task, Step(t), ~OblRead(t), pc'[t] \in HoldLabel
  PROVE  \/ OblLock(t) /\ meta[req[t].key.hash] = orig[t]
                       /\ pc'[t] \in {"obl_read", "obl_unassoc"}
         \/ pc[t] \in HoldLabel \ {"obl_payload", "obl_tomb"} /\ pc'[t] # "obl_tomb"
         \/ OblPayload(t) /\ pc'[t] = "obl_tomb"
  <1> USE DEF TypeInv, TypeOK, HoldLabel,
              Goto, Return, LostReply, Retried, GotoOrLose, ReturnOrLose
  <1>1. CASE Resolve(t)
    BY <1>1 DEF Resolve, NoMatch, QueryResult, PutUnmatched
  <1>2. CASE ResolveRow(t)
    BY <1>2 DEF ResolveRow, NoMatch, MatchFull, ResolveError, QueryResult, PutUnmatched
  <1>3. CASE GetMetadataLoad(t) \/ GetExists(t) \/ GetRow(t) \/ GetObject(t) \/ GetDone(t)
    BY <1>3 DEF GetMetadataLoad, GetExists, GetRow, GetObject, GetDone
  <1>4. CASE PutCheck(t) \/ PutUpsert(t) \/ PutAssociate(t) \/ PutCommit(t)
    BY <1>4 DEF PutCheck, PutUpsert, PutAssociate, PutCommit
  <1>5. CASE PutObject(t)
    BY <1>5 DEF PutObject, S3Write
  <1>6. CASE CopyCheck(t) \/ CopyAssociate(t) \/ OblLoad(t)
    BY <1>6 DEF CopyCheck, CopyAssociate, OblLoad
  <1>7. CASE OblLock(t)
    BY <1>7 DEF OblLock
  <1>8. CASE OblPayload(t)
    BY <1>8 DEF OblPayload, S3Write
  <1>9. CASE OblJoin(t) \/ OblUnassociate(t) \/ OblCount(t) \/ OblRestore(t) \/ OblTombstone(t)
    BY <1>9 DEF OblJoin, OblUnassociate, OblCount, OblRestore, OblTombstone
  <1> QED
    BY <1>1, <1>2, <1>3, <1>4, <1>5, <1>6, <1>7, <1>8, <1>9 DEF Step

\* A task under the lock was there, with the same request and the same loaded row, or it
\* has just swapped its loaded row for a locked one.  Past the count it stays past it, and
\* it gets to the tombstone by deleting the object.
LEMMA HoldArrives ==
  ASSUME TypeInv, [Next]_vars, NEW t \in Task, NEW h \in Hash, Holds(t, h)'
  PROVE  /\ req'[t] = req[t] /\ orig'[t] = orig[t]
         /\ req[t].op = "obliterate" /\ req[t].key.hash = h
         /\ \/ OblLock(t) /\ meta[h] = orig[t] /\ pc'[t] \in {"obl_read", "obl_unassoc"}
            \/ Holds(t, h)
         /\ Holds(t, h) /\ pc[t] \in {"obl_payload", "obl_tomb"} =>
              pc'[t] \in {"obl_payload", "obl_tomb"}
         /\ pc'[t] = "obl_tomb" => pc[t] = "obl_tomb" \/ OblPayload(t)
         /\ ~OblRestore(t) /\ ~OblTombstone(t)
  <1>1. /\ pc'[t] \in HoldLabel
        /\ req'[t].op = "obliterate" /\ req'[t].key.hash = h
    BY DEF Holds, HoldLabel
  <1>2. ASSUME OblRestore(t) \/ OblTombstone(t) PROVE FALSE
    BY <1>1, <1>2
    DEF OblRestore, OblTombstone, ReturnOrLose, Return, LostReply, HoldLabel, TypeInv, TypeOK
  <1>3. CASE Stays(t)
    <2>1. Holds(t, h) /\ pc'[t] = pc[t] /\ req'[t] = req[t]
      BY <1>1, <1>3 DEF Stays, Holds, HoldLabel
    <2>2. ~OblLoad(t)
      BY <2>1 DEF OblLoad, Holds
    <2> QED
      BY <1>1, <1>2, <2>1, <2>2, LoadsOnce
  <1>4. CASE Ends(t) \/ Starts(t)
    BY <1>1, <1>4 DEF Ends, Starts, HoldLabel
  <1>5. CASE Step(t) /\ ~OblRead(t) /\ req'[t] = req[t]
    <2>1. \/ OblLock(t) /\ meta[h] = orig[t] /\ pc'[t] \in {"obl_read", "obl_unassoc"}
          \/ pc[t] \in HoldLabel \ {"obl_payload", "obl_tomb"} /\ pc'[t] # "obl_tomb"
          \/ OblPayload(t) /\ pc'[t] = "obl_tomb"
      BY <1>1, <1>5, HoldStep
    <2>2. OblPayload(t) => pc[t] = "obl_payload"
      BY DEF OblPayload
    <2>3. OblLock(t) => pc[t] = "obl_lock"
      BY DEF OblLock
    <2>4. ~OblLoad(t)
      BY <2>1, <2>2, <2>3 DEF OblLoad, HoldLabel
    <2>5. OblLock(t) \/ Holds(t, h)
      BY <1>1, <1>5, <2>1, <2>2 DEF Holds, HoldLabel
    <2> QED
      BY <1>1, <1>2, <1>5, <2>1, <2>2, <2>3, <2>4, <2>5, LoadsOnce DEF HoldLabel, Holds
  <1>6. CASE OblRead(t) /\ req'[t] = req[t] /\ pc'[t] \in {"obl_join", "done"}
    <2>1. pc[t] = "obl_read" /\ pc'[t] = "obl_join"
      BY <1>1, <1>6 DEF OblRead, HoldLabel
    <2>2. Holds(t, h) /\ ~OblLoad(t)
      BY <1>1, <1>6, <2>1 DEF Holds, OblLoad
    <2> QED
      BY <1>1, <1>2, <1>6, <2>1, <2>2, LoadsOnce
  <1> QED
    BY <1>3, <1>4, <1>5, <1>6, TaskMoves

\* What a step makes of the row of a hash: the compare-and-swaps of obliterates on a row
\* they expect, and the commits of puts.
LEMMA RowWrites ==
  ASSUME TypeInv, [Next]_vars, NEW h \in Hash, meta'[h] # meta[h]
  PROVE  \E u \in Task :
           /\ req[u].key.hash = h
           /\ \/ OblLock(u) /\ meta[h] = orig[u] /\ meta'[h] = Locked(orig[u])
              \/ OblRestore(u) /\ meta[h] = Locked(orig[u]) /\ meta'[h] = orig[u]
              \/ OblTombstone(u) /\ meta[h] = Locked(orig[u]) /\ meta'[h] = Tombstone
              \/ PutCommit(u) /\ req[u].op = "put" /\ meta'[h] = Live(req[u].frag)
  <1> USE DEF TypeInv, TypeOK
  <1>1. ASSUME UNCHANGED meta PROVE FALSE
    BY <1>1
  <1>2. PICK u \in Task : Step(u)
    BY <1>1 DEF Next, Begin, Fail, Crash, Arrive, vars, store
  <1>3. PutCommit(u) \/ OblLock(u) \/ OblRestore(u) \/ OblTombstone(u)
    BY <1>1, <1>2
    DEF Step, Resolve, ResolveRow, GetMetadataLoad, GetExists, GetRow, GetObject, GetDone,
        PutCheck, PutObject, PutUpsert, PutAssociate, CopyCheck, CopyAssociate, OblLoad,
        OblRead, OblJoin, OblUnassociate, OblCount, OblPayload, store
  <1>4. CASE PutCommit(u)
    <2>1. req[u].op = "put"
      BY <1>4 DEF PutCommit, Control, PutLabel, PutRequest
    <2>2. req[u].key.hash = h /\ meta'[h] = Live(req[u].frag)
      BY <1>4 DEF PutCommit
    <2> QED
      BY <1>4, <2>1, <2>2
  <1>5. CASE OblLock(u)
    BY <1>5 DEF OblLock, CAS
  <1>6. CASE OblRestore(u)
    BY <1>6 DEF OblRestore, CAS
  <1>7. CASE OblTombstone(u)
    BY <1>7 DEF OblTombstone, CAS
  <1> QED
    BY <1>3, <1>4, <1>5, <1>6, <1>7

\* Only clients put, and they keep their request.
LEMMA AskedStays ==
  ASSUME TypeInv, IdleClean, [Next]_vars, NEW h \in Hash, PutAsked(h)
  PROVE  PutAsked(h)'
  <1>1. PICK t \in Task : req[t].op = "put" /\ req[t].key.hash = h
    BY DEF PutAsked
  <1>2. req'[t] = req[t]
    BY <1>1, RequestsKept DEF NoRequest
  <1> QED
    BY <1>1, <1>2 DEF PutAsked
-----------------------------------------------------------------------------
(* The lock.                                                               *)

\* A row under a lock is no row an obliterate would lock.
LEMMA LockedIsNotLive ==
  ASSUME TypeInv, OriginalRow, NEW t \in Task, NEW u \in Task, pc[u] \in Loaded
  PROVE  Locked(orig[t]) # orig[u]
  BY DEF TypeInv, TypeOK, OriginalRow, Loaded, Locked, Row, Obliteration

\* Two tasks do not take the same step.
LEMMA OneLocks ==
  ASSUME TypeInv, NEW t \in Task, NEW u \in Task, OblLock(t), OblLock(u),
         pc'[u] \in HoldLabel
  PROVE  u = t
  BY DEF OblLock, HoldLabel, GotoOrLose, Goto, LostReply, Return, TypeInv, TypeOK

\* The lock is kept by its holder, and goes to one task at a time.
LEMMA LockStep ==
  ASSUME TypeInv, OriginalRow, [Next]_vars, NEW h \in Hash, LockHeld(h), ~PutAsked(h)
  PROVE  LockHeld(h)'
  <1> SUFFICES ASSUME NEW t \in Task, Holds(t, h)'
               PROVE  /\ meta'[h] = Locked(orig'[t])
                      /\ \A u \in Task : Holds(u, h)' => u = t
    BY DEF LockHeld
  <1>1. ASSUME NEW u \in Task, Holds(u, h)'
        PROVE  /\ orig'[u] = orig[u] /\ req[u].key.hash = h
               /\ \/ OblLock(u) /\ meta[h] = orig[u] /\ pc[u] \in Loaded /\ pc'[u] \in HoldLabel
                  \/ Holds(u, h) /\ meta[h] = Locked(orig[u])
               /\ ~OblRestore(u) /\ ~OblTombstone(u)
    BY <1>1, HoldArrives DEF LockHeld, OblLock, Loaded, ObliterateLabel, HoldLabel
  <1>2. CASE OblLock(t) /\ meta[h] = orig[t] /\ pc[t] \in Loaded
    <2>1. meta'[h] = Locked(orig[t])
      BY <1>1, <1>2 DEF OblLock, CAS, TypeInv, TypeOK
    <2>2. ASSUME NEW u \in Task, Holds(u, h)' PROVE u = t
      <3>1. ~(meta[h] = Locked(orig[u]))
        BY <1>2, LockedIsNotLive
      <3>2. OblLock(u) /\ pc'[u] \in HoldLabel
        BY <1>1, <2>2, <3>1
      <3> QED
        BY <1>2, <3>2, OneLocks
    <2> QED
      BY <1>1, <2>1, <2>2
  <1>3. CASE Holds(t, h) /\ meta[h] = Locked(orig[t])
    <2>1. ASSUME NEW u \in Task, meta[h] = orig[u], pc[u] \in Loaded PROVE FALSE
      BY <1>3, <2>1, LockedIsNotLive
    <2>2. meta'[h] = meta[h]
      <3> SUFFICES ASSUME meta'[h] # meta[h] PROVE FALSE
        OBVIOUS
      <3>1. PICK u \in Task :
              /\ req[u].key.hash = h
              /\ \/ OblLock(u) /\ meta[h] = orig[u]
                 \/ OblRestore(u) \/ OblTombstone(u)
                 \/ req[u].op = "put"
        BY RowWrites
      <3>2. ~(OblLock(u) /\ meta[h] = orig[u])
        BY <2>1 DEF OblLock, Loaded, ObliterateLabel
      <3>3. req[u].op # "put"
        BY <3>1 DEF PutAsked
      <3>4. Holds(u, h)
        BY <3>1, <3>2, <3>3
        DEF OblRestore, OblTombstone, Holds, TypeInv, Control, ObliterateLabel
      <3>5. u = t
        BY <1>3, <3>4 DEF LockHeld
      <3> QED
        BY <1>1, <3>1, <3>2, <3>3, <3>5
    <2>3. ASSUME NEW u \in Task, Holds(u, h)' PROVE u = t
      <3>1. Holds(u, h)
        BY <1>1, <2>1, <2>3
      <3> QED
        BY <1>3, <3>1 DEF LockHeld
    <2> QED
      BY <1>1, <1>3, <2>2, <2>3
  <1> QED
    BY <1>1, <1>2, <1>3

LEMMA LockInit == Init => LockInv
  BY DEF Init, LockInv, IdleClean, OriginalRow, LockHeld, Holds, ObliterateLabel

LEMMA LockNext == TypeInv /\ LockInv /\ [Next]_vars => LockInv'
  <1> SUFFICES ASSUME TypeInv, LockInv, [Next]_vars PROVE LockInv'
    OBVIOUS
  <1>1. IdleClean' /\ OriginalRow'
    BY RequestsKept, OriginalRowNext DEF LockInv
  <1>2. ASSUME NEW h \in Hash, ~PutAsked(h)' PROVE LockHeld(h)'
    BY <1>2, AskedStays, LockStep DEF LockInv
  <1>3. (\A h \in Hash : PutAsked(h) \/ LockHeld(h))'
    BY <1>2
  <1> QED
    BY <1>1, <1>3 DEF LockInv

\* For any workload and any faults: on a hash no put has asked for, the row is exactly what
\* the holder of the lock wrote, and one task at a time holds it.
THEOREM LockExclusiveByHash == Spec => [](\A h \in Hash : PutAsked(h) \/ LockHeld(h))
  <1>1. LockInv => \A h \in Hash : PutAsked(h) \/ LockHeld(h)
    BY DEF LockInv
  <1> QED
    BY TypeInit, TypeNext, LockInit, LockNext, <1>1, PTL DEF Spec

-----------------------------------------------------------------------------
(* Workloads without puts, the ones the properties are about.              *)

WithoutPuts == \A r \in Requests : r.op # "put"

NobodyPuts == \A t \in Task : req[t].op # "put"

\* A request comes from a client or from an obliterate.
LEMMA NewRequests ==
  ASSUME TypeInv, [Next]_vars, NEW t \in Task
  PROVE  \/ req'[t] = req[t] \/ req'[t] \in Requests
         \/ req'[t].op = "obliterate" /\ \E u \in Task : OblRead(u)
  <1> USE DEF TypeInv, TypeOK
  <1>1. CASE UNCHANGED vars \/ Crash \/ Arrive
    BY <1>1 DEF vars, Crash, Arrive
  <1>2. ASSUME NEW u \in Task, Begin(u) \/ Fail(u)
        PROVE  req'[t] = req[t] \/ req'[t] \in Requests
    BY <1>2 DEF Begin, Fail
  <1>3. ASSUME NEW u \in Task, Step(u), ~OblRead(u) PROVE req'[t] = req[t]
    BY <1>3, StepMoves DEF CopyCheck, OblCount, OblPayload
  <1>4. ASSUME NEW u \in Task, OblRead(u)
        PROVE  req'[t] = req[t] \/ req'[t].op = "obliterate"
    <2>1. CASE UNCHANGED req
      BY <2>1
    <2>2. CASE Spawn(u, Refs[s3[req[u].key.hash]])
      <3>1. PICK new \in SUBSET (Task \ Client) : Spawned(u, Refs[s3[req[u].key.hash]], new)
        BY <2>2, SpawnEffect
      <3>2. CASE t \in new
        <4>1. PICK k : req'[t] = [op |-> "obliterate", key |-> k]
          BY <3>1, <3>2 DEF Spawned
        <4> QED
          BY <4>1
      <3>3. CASE t \notin new
        BY <3>1, <3>3 DEF Spawned
      <3> QED
        BY <3>2, <3>3
    <2> QED
      BY <1>4, <2>1, <2>2 DEF OblRead
  <1> QED
    BY <1>1, <1>2, <1>3, <1>4 DEF Next

LEMMA NobodyPutsInit == Init => NobodyPuts
  BY DEF Init, NobodyPuts, NoRequest

LEMMA NobodyPutsNext ==
  ASSUME WithoutPuts
  PROVE  TypeInv /\ NobodyPuts /\ [Next]_vars => NobodyPuts'
  BY NewRequests DEF WithoutPuts, NobodyPuts

\* ObliterationLock for every workload without puts and any faults.
THEOREM LockExclusive ==
  ASSUME WithoutPuts
  PROVE  Spec => []ObliterationLock
  <1>1. TypeInv /\ NobodyPuts /\ [Next]_vars => NobodyPuts'
    BY NobodyPutsNext
  <1>2. NobodyPuts /\ LockInv => ObliterationLock
    BY DEF NobodyPuts, LockInv, PutAsked, LockHeld, ObliterationLock
  <1> QED
    BY TypeInit, TypeNext, LockInit, LockNext, NobodyPutsInit, <1>1, <1>2, PTL DEF Spec
-----------------------------------------------------------------------------
(* The object.                                                             *)

\* The step of u writes f, a payload or its deletion, to the object of h.
WritesObject(u, h, f) ==
  /\ req[u].key.hash = h
  /\ \/ OblPayload(u) /\ f = NoFrag
     \/ PutObject(u) /\ f = req[u].frag

\* What a step makes of the object of a hash, and of the writes under way to it.
LEMMA ObjectWrites ==
  ASSUME TypeInv, [Next]_vars, NEW h \in Hash
  PROVE  /\ \/ s3'[h] = s3[h]
            \/ \E u \in Task : WritesObject(u, h, s3'[h])
            \/ \E w \in late : w.hash = h /\ s3'[h] = w.frag
         /\ \A w \in late' : w.hash = h =>
              w \in late \/ \E u \in Task : WritesObject(u, h, w.frag)
  <1> DEFINE Conclusion ==
        /\ \/ s3'[h] = s3[h]
           \/ \E u \in Task : WritesObject(u, h, s3'[h])
           \/ \E w \in late : w.hash = h /\ s3'[h] = w.frag
        /\ \A w \in late' : w.hash = h =>
             w \in late \/ \E u \in Task : WritesObject(u, h, w.frag)
  <1> USE DEF TypeInv, TypeOK
  <1>1. ASSUME UNCHANGED <<s3, late>> PROVE Conclusion
    BY <1>1
  <1>2. CASE Arrive
    BY <1>2 DEF Arrive
  <1>3. ASSUME NEW u \in Task, PutObject(u) \/ OblPayload(u) PROVE Conclusion
    <2>1. PICK f \in Frag \cup {NoFrag}, l \in Label :
            S3Write(u, f, l) /\ WritesObject(u, req[u].key.hash, f)
      BY <1>3, Shapes DEF PutObject, OblPayload, Control, PutLabel, Label, WritesObject
    <2>2. req[u].key.hash \in Hash
      BY <1>3, Shapes DEF PutObject, OblPayload, Control, PutLabel, ObliterateLabel
    <2>3. /\ s3' = s3 \/ s3' = [s3 EXCEPT ![req[u].key.hash] = f]
          /\ late' \subseteq late \cup {[hash |-> req[u].key.hash, frag |-> f]}
      <3>1. StoreTyped /\ ControlTyped
        BY TypeParts
      <3> QED
        BY <2>1, <2>2, <3>1, S3WriteEffect
    <2>4. CASE req[u].key.hash # h
      BY <2>3, <2>4
    <2>5. CASE req[u].key.hash = h
      <3>1. s3'[h] = s3[h] \/ s3'[h] = f
        BY <2>3, <2>5
      <3>2. \A w \in late' : w.hash = h => w \in late \/ w.frag = f
        BY <2>3, <2>5
      <3>3. \A g : g = f => WritesObject(u, h, g)
        BY <2>1, <2>5
      <3> QED
        BY <3>1, <3>2, <3>3
    <2> QED
      BY <2>4, <2>5
  <1>4. ASSUME NEW u \in Task, Step(u) PROVE Conclusion
    BY <1>1, <1>3, <1>4
    DEF Step, Resolve, ResolveRow, GetMetadataLoad, GetExists, GetRow, GetObject, GetDone,
        PutCheck, PutUpsert, PutAssociate, PutCommit, CopyCheck, CopyAssociate, OblLoad,
        OblLock, OblRead, OblJoin, OblUnassociate, OblCount, OblRestore, OblTombstone, store
  <1> QED
    BY <1>1, <1>2, <1>4 DEF Next, Begin, Fail, Crash, vars, store

\* Without a put, all that is written is deletions.
LEMMA ObjectDeletions ==
  ASSUME TypeInv, [Next]_vars, NEW h \in Hash, ~PutAsked(h)
  PROVE  /\ \/ s3'[h] = s3[h]
            \/ s3'[h] = NoFrag /\ \E u \in Task : OblPayload(u) /\ req[u].key.hash = h
            \/ \E w \in late : w.hash = h /\ s3'[h] = w.frag
         /\ \A w \in late' : w.hash = h =>
              \/ w \in late
              \/ w.frag = NoFrag /\ \E u \in Task : OblPayload(u) /\ req[u].key.hash = h
  <1>1. ASSUME NEW u \in Task, PutObject(u), req[u].key.hash = h PROVE FALSE
    BY <1>1 DEF PutObject, TypeInv, Control, PutLabel, PutRequest, PutAsked
  <1>2. ASSUME NEW u \in Task, NEW f, WritesObject(u, h, f)
        PROVE  f = NoFrag /\ OblPayload(u) /\ req[u].key.hash = h
    BY <1>1, <1>2 DEF WritesObject
  <1> QED
    BY <1>2, ObjectWrites

\* A hash once doomed is doomed for good: its row is not live, so nobody locks it, and the
\* holder that could give it back is past doing so.
LEMMA DoomedStays ==
  ASSUME TypeInv, OriginalRow, [Next]_vars, NEW h \in Hash, ~PutAsked(h), Doomed(h)
  PROVE  Doomed(h)'
  <1>1. ASSUME NEW u \in Task, pc[u] \in Loaded PROVE meta[h] # orig[u]
    BY <1>1 DEF OriginalRow, Doomed, Loaded
  <1>2. ~\E u \in Task : OblLock(u) /\ meta[h] = orig[u]
    BY <1>1 DEF OblLock, Loaded, ObliterateLabel
  <1>3. ~\E u \in Task : OblRestore(u) /\ req[u].key.hash = h
    BY DEF OblRestore, Doomed, Holds, TypeInv, Control, ObliterateLabel
  <1>4. Obliteration(meta'[h])
    <2>1. CASE meta'[h] = meta[h]
      BY <2>1 DEF Doomed
    <2>2. CASE meta'[h] # meta[h]
      <3>1. meta'[h] = Tombstone
        BY <1>2, <1>3, <2>2, RowWrites DEF PutAsked
      <3> QED
        BY <3>1 DEF Obliteration, Tombstone
    <2> QED
      BY <2>1, <2>2
  <1>5. ASSUME NEW t \in Task, Holds(t, h)' PROVE pc'[t] \in {"obl_payload", "obl_tomb"}
    <2>1. Holds(t, h)
      BY <1>2, <1>5, HoldArrives
    <2> QED
      BY <1>5, <2>1, HoldArrives DEF Doomed
  <1> QED
    BY <1>4, <1>5 DEF Doomed

\* An obliterate that deletes the object has doomed the hash.
LEMMA DeleterDooms ==
  ASSUME TypeInv, NEW h \in Hash, LockHeld(h), NEW t \in Task,
         Holds(t, h), pc[t] \in {"obl_payload", "obl_tomb"}
  PROVE  Doomed(h)
  <1>1. Obliteration(meta[h])
    BY DEF LockHeld, TypeInv, TypeOK, Locked, Row, Obliteration
  <1>2. \A u \in Task : Holds(u, h) => pc[u] \in {"obl_payload", "obl_tomb"}
    BY DEF LockHeld
  <1> QED
    BY <1>1, <1>2 DEF Doomed

\* A task past loading had loaded, or has just loaded a live row.
LEMMA LoadedArrives ==
  ASSUME TypeInv, [Next]_vars, NEW t \in Task, pc'[t] \in Loaded
  PROVE  /\ req'[t] = req[t]
         /\ \/ pc[t] \in Loaded /\ orig'[t] = orig[t]
            \/ OblLoad(t) /\ orig'[t] = meta[req[t].key.hash] /\ ~Obliteration(orig'[t])
  <1> USE DEF TypeInv, TypeOK, Loaded, ObliterateLabel,
              Goto, Return, LostReply, Retried, GotoOrLose, ReturnOrLose
  <1>1. CASE Stays(t)
    BY <1>1, LoadsOnce DEF Stays, OblLoad
  <1>2. CASE Ends(t) \/ Starts(t)
    BY <1>2 DEF Ends, Starts
  <1>3. CASE OblRead(t) /\ req'[t] = req[t]
    BY <1>3, LoadsOnce DEF OblRead, OblLoad
  <1>4. CASE OblLoad(t)
    BY <1>4 DEF OblLoad
  <1>5. CASE Step(t) /\ ~OblRead(t) /\ ~OblLoad(t) /\ req'[t] = req[t]
    <2>1. pc'[t] = "obl_lock" \/ pc'[t] \in HoldLabel
      BY DEF HoldLabel
    <2>2. CASE pc'[t] \in HoldLabel
      BY <1>5, <2>2, HoldStep, LoadsOnce DEF HoldLabel, OblLock, OblPayload
    <2>3. CASE pc'[t] = "obl_lock"
      <3>1. CASE Resolve(t) \/ ResolveRow(t)
        BY <2>3, <3>1
        DEF Resolve, ResolveRow, NoMatch, MatchFull, ResolveError, QueryResult, PutUnmatched
      <3>2. CASE GetMetadataLoad(t) \/ GetExists(t) \/ GetRow(t) \/ GetObject(t) \/ GetDone(t)
        BY <2>3, <3>2 DEF GetMetadataLoad, GetExists, GetRow, GetObject, GetDone
      <3>3. CASE PutCheck(t) \/ PutUpsert(t) \/ PutAssociate(t) \/ PutCommit(t)
        BY <2>3, <3>3 DEF PutCheck, PutUpsert, PutAssociate, PutCommit
      <3>4. CASE PutObject(t) \/ OblPayload(t)
        BY <2>3, <3>4 DEF PutObject, OblPayload, S3Write
      <3>5. CASE CopyCheck(t) \/ CopyAssociate(t) \/ OblLock(t) \/ OblJoin(t)
        BY <2>3, <3>5 DEF CopyCheck, CopyAssociate, OblLock, OblJoin
      <3>6. CASE OblUnassociate(t) \/ OblCount(t) \/ OblRestore(t) \/ OblTombstone(t)
        BY <2>3, <3>6 DEF OblUnassociate, OblCount, OblRestore, OblTombstone
      <3> QED
        BY <1>5, <3>1, <3>2, <3>3, <3>4, <3>5, <3>6 DEF Step
    <2> QED
      BY <2>1, <2>2, <2>3
  <1> QED
    BY <1>1, <1>2, <1>3, <1>4, <1>5, TaskMoves
\* Rows and loaded rows stay the initial ones.
LEMMA RowsOriginalStep ==
  ASSUME TypeInv, [Next]_vars, NEW h \in Hash, ~PutAsked(h), RowsOriginal(h)
  PROVE  RowsOriginal(h)'
  <1>1. meta'[h] \in {InitRow(h), Locked(InitRow(h)), Tombstone}
    <2>1. CASE meta'[h] = meta[h]
      BY <2>1 DEF RowsOriginal
    <2>2. CASE meta'[h] # meta[h]
      <3>1. PICK u \in Task :
              /\ req[u].key.hash = h
              /\ \/ OblLock(u) /\ meta'[h] = Locked(orig[u])
                 \/ OblRestore(u) /\ meta'[h] = orig[u]
                 \/ OblTombstone(u) /\ meta'[h] = Tombstone
        BY <2>2, RowWrites DEF PutAsked
      <3>2. pc[u] \in Loaded
        BY <3>1 DEF OblLock, OblRestore, OblTombstone, Loaded, ObliterateLabel
      <3>3. orig[u] = InitRow(h)
        BY <3>1, <3>2 DEF RowsOriginal
      <3> QED
        BY <3>1, <3>3
    <2> QED
      BY <2>1, <2>2
  <1>2. ASSUME NEW t \in Task, pc'[t] \in Loaded, req'[t].key.hash = h
        PROVE  orig'[t] = InitRow(h)
    <2>1. CASE pc[t] \in Loaded /\ orig'[t] = orig[t]
      BY <1>2, <2>1, LoadedArrives DEF RowsOriginal
    <2>2. CASE OblLoad(t) /\ orig'[t] = meta[h] /\ ~Obliteration(orig'[t])
      <3>1. Obliteration(Locked(InitRow(h))) /\ Obliteration(Tombstone)
        BY DEF Obliteration, Locked, InitRow, NoRow, Live, Tombstone
      <3> QED
        BY <2>2, <3>1 DEF RowsOriginal
    <2> QED
      BY <1>2, <2>1, <2>2, LoadedArrives
  <1> QED
    BY <1>1, <1>2 DEF RowsOriginal

\* The object goes only with the hash, and so do the deletions still under way.
LEMMA ObjectKeptStep ==
  ASSUME TypeInv, OriginalRow, [Next]_vars, NEW h \in Hash, ~PutAsked(h),
         LockHeld(h), ObjectKept(h)
  PROVE  ObjectKept(h)'
  <1>1. ASSUME NEW u \in Task, OblPayload(u), req[u].key.hash = h PROVE Doomed(h)
    <2>1. Holds(u, h) /\ pc[u] = "obl_payload"
      BY <1>1 DEF OblPayload, Holds, TypeInv, Control, ObliterateLabel
    <2> QED
      BY <2>1, DeleterDooms
  <1>2. Doomed(h) => Doomed(h)'
    BY DoomedStays
  <1>3. s3'[h] = InitFrag[h] \/ Doomed(h)'
    <2>1. CASE s3'[h] = s3[h]
      BY <1>2, <2>1 DEF ObjectKept
    <2>2. CASE \E u \in Task : OblPayload(u) /\ req[u].key.hash = h
      BY <1>1, <1>2, <2>2
    <2>3. CASE \E w \in late : w.hash = h
      BY <1>2, <2>3 DEF ObjectKept
    <2> QED
      BY <2>1, <2>2, <2>3, ObjectDeletions
  <1>4. ASSUME NEW w \in late', w.hash = h PROVE w.frag = NoFrag /\ Doomed(h)'
    BY <1>1, <1>2, <1>4, ObjectDeletions DEF ObjectKept
  <1> QED
    BY <1>3, <1>4 DEF ObjectKept

\* An obliterate goes on to the tombstone only when its deletion was applied.
LEMMA DeletedFirst ==
  ASSUME TypeInv, NEW t \in Task, OblPayload(t), pc'[t] = "obl_tomb"
  PROVE  s3'[req[t].key.hash] = NoFrag
  <1>1. req[t].key.hash \in Hash
    BY Shapes DEF OblPayload, TypeInv, Control, ObliterateLabel
  <1> QED
    BY <1>1 DEF OblPayload, S3Write, LostReply, TypeInv, TypeOK

\* The tombstone comes after the object is gone, and the object does not come back.
LEMMA ObjectGoneStep ==
  ASSUME TypeInv, OriginalRow, [Next]_vars, NEW h \in Hash, ~PutAsked(h),
         ObjectKept(h), ObjectGone(h)
  PROVE  ObjectGone(h)'
  <1>1. s3[h] = NoFrag => s3'[h] = NoFrag
    BY ObjectDeletions DEF ObjectKept
  <1>2. ASSUME meta'[h] = Tombstone PROVE s3'[h] = NoFrag
    <2>1. CASE meta'[h] = meta[h]
      BY <1>1, <1>2, <2>1 DEF ObjectGone
    <2>2. CASE meta'[h] # meta[h]
      <3>1. PICK u \in Task :
              /\ req[u].key.hash = h
              /\ \/ OblLock(u) /\ meta'[h] = Locked(orig[u])
                 \/ OblRestore(u) /\ meta'[h] = orig[u]
                 \/ OblTombstone(u)
        BY <2>2, RowWrites DEF PutAsked
      <3>2. Locked(orig[u]) # Tombstone
        BY DEF TypeInv, TypeOK, Locked, Row, Tombstone
      <3>3. OblRestore(u) => orig[u] # Tombstone
        BY DEF OblRestore, OriginalRow, ObliterateLabel, Obliteration, Tombstone
      <3>4. pc[u] = "obl_tomb"
        BY <1>2, <3>1, <3>2, <3>3 DEF OblTombstone
      <3> QED
        BY <1>1, <3>1, <3>4 DEF ObjectGone
    <2> QED
      BY <2>1, <2>2
  <1>3. ASSUME NEW t \in Task, pc'[t] = "obl_tomb", req'[t].key.hash = h PROVE s3'[h] = NoFrag
    <2>1. TypeInv'
      BY TypeNext
    <2>2. Holds(t, h)'
      BY <1>3, <2>1 DEF Holds, TypeInv, Control, ObliterateLabel
    <2>3. req'[t] = req[t] /\ (pc[t] = "obl_tomb" \/ OblPayload(t))
      BY <1>3, <2>2, HoldArrives
    <2>4. CASE pc[t] = "obl_tomb"
      BY <1>1, <1>3, <2>3, <2>4 DEF ObjectGone
    <2>5. CASE OblPayload(t)
      BY <1>3, <2>3, <2>5, DeletedFirst
    <2> QED
      BY <2>3, <2>4, <2>5
  <1> QED
    BY <1>2, <1>3 DEF ObjectGone

LEMMA PayloadInit == Init => PayloadInv
  <1> SUFFICES ASSUME Init, NEW h \in Hash
               PROVE  RowsOriginal(h) /\ ObjectKept(h) /\ ObjectGone(h)
    BY DEF PayloadInv
  <1>1. meta[h] = InitRow(h) /\ s3[h] = InitFrag[h] /\ late = {}
    BY DEF Init, InitRow
  <1>2. \A t \in Task : pc[t] = "idle"
    BY DEF Init
  <1>3. InitRow(h) # Tombstone
    BY DEF InitRow, NoRow, Live, Tombstone
  <1> QED
    BY <1>1, <1>2, <1>3 DEF RowsOriginal, ObjectKept, ObjectGone, Loaded, ObliterateLabel

LEMMA PayloadNext == TypeInv /\ LockInv /\ PayloadInv /\ [Next]_vars => PayloadInv'
  <1> SUFFICES ASSUME TypeInv, LockInv, PayloadInv, [Next]_vars, NEW h \in Hash, ~PutAsked(h)'
               PROVE  RowsOriginal(h)' /\ ObjectKept(h)' /\ ObjectGone(h)'
    BY DEF PayloadInv
  <1>1. OriginalRow /\ IdleClean
    BY DEF LockInv
  <1>2. ~PutAsked(h)
    BY <1>1, AskedStays
  <1>3. LockHeld(h) /\ RowsOriginal(h) /\ ObjectKept(h) /\ ObjectGone(h)
    BY <1>2 DEF LockInv, PayloadInv
  <1> QED
    BY <1>1, <1>2, <1>3, RowsOriginalStep, ObjectKeptStep, ObjectGoneStep

\* What a row says of the object of its hash: a live row has it, a tombstone does not.
RowTruthful(h) ==
  /\ meta[h].obl = "none" => s3[h] = meta[h].frag
  /\ meta[h] = Tombstone => s3[h] = NoFrag

LEMMA PayloadTruthful ==
  ASSUME NEW h \in Hash, RowsOriginal(h), ObjectKept(h), ObjectGone(h)
  PROVE  RowTruthful(h)
  <1>1. ASSUME meta[h].obl = "none" PROVE s3[h] = meta[h].frag
    <2>1. ~Doomed(h)
      BY <1>1 DEF Doomed, Obliteration
    <2>2. s3[h] = InitFrag[h]
      BY <2>1 DEF ObjectKept
    <2>3. meta[h] = InitRow(h)
      BY <1>1 DEF RowsOriginal, Locked, Tombstone, InitRow, NoRow, Live
    <2> QED
      BY <2>2, <2>3 DEF InitRow, NoRow, Live
  <1> QED
    BY <1>1 DEF RowTruthful, ObjectGone

\* For any workload and any faults: on a hash no put has asked for, a row and the object it
\* is about agree, whatever obliterates failed, crashed or deleted late.
THEOREM RowsTruthfulByHash == Spec => [](\A h \in Hash : PutAsked(h) \/ RowTruthful(h))
  <1>1. PayloadInv => \A h \in Hash : PutAsked(h) \/ RowTruthful(h)
    BY PayloadTruthful DEF PayloadInv
  <1> QED
    BY TypeInit, TypeNext, LockInit, LockNext, PayloadInit, PayloadNext, <1>1, PTL DEF Spec

\* What holds of the rows of every hash when nobody puts.
LEMMA NobodyPutsTruthful ==
  ASSUME NobodyPuts, PayloadInv
  PROVE  \A h \in Hash : RowTruthful(h)
  BY PayloadTruthful DEF NobodyPuts, PayloadInv, PutAsked

\* LiveHasPayload for every workload without puts and any faults: an associated address
\* that is not locked or obliterated has its bytes in the encoding of its row.
THEOREM LivePayloadStored ==
  ASSUME WithoutPuts
  PROVE  Spec => []LiveHasPayload
  <1>1. TypeInv /\ NobodyPuts /\ [Next]_vars => NobodyPuts'
    BY NobodyPutsNext
  <1>2. TypeInv /\ NobodyPuts /\ PayloadInv => LiveHasPayload
    BY NobodyPutsTruthful DEF LiveHasPayload, RowTruthful, TypeInv, TypeOK, Key
  <1> QED
    BY TypeInit, TypeNext, LockInit, LockNext, PayloadInit, PayloadNext, NobodyPutsInit,
       <1>1, <1>2, PTL DEF Spec

\* TombstoneHasNoPayload for every workload without puts and any faults: no failed,
\* repeated or delayed deletion leaves the bytes of a tombstone behind.
THEOREM TombstoneEmpty ==
  ASSUME WithoutPuts
  PROVE  Spec => []TombstoneHasNoPayload
  <1>1. TypeInv /\ NobodyPuts /\ [Next]_vars => NobodyPuts'
    BY NobodyPutsNext
  <1>2. NobodyPuts /\ PayloadInv => TombstoneHasNoPayload
    BY NobodyPutsTruthful DEF TombstoneHasNoPayload, RowTruthful
  <1> QED
    BY TypeInit, TypeNext, LockInit, LockNext, PayloadInit, PayloadNext, NobodyPutsInit,
       <1>1, <1>2, PTL DEF Spec
=============================================================================
