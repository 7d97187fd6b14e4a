-------------------------- MODULE AssociationProofs --------------------------
(* What an answer says about the association it is about: an acknowledged  *)
(* put or copy has one, an obliterate that ran to its end has none.        *)
EXTENDS ImmutableStoreProofs

(* What can happen to one task in one step.                                *)

Stays(t) == pc'[t] = pc[t] /\ res'[t] = res[t] /\ req'[t] = req[t]

\* It fails, is lost in a crash, or (put) takes a failed query for no match.
Ends(t) ==
  /\ req'[t] = req[t]
  /\ \/ pc'[t] = "done" /\ res'[t] \in {"err", "lost"}
     \/ pc'[t] = "put_s3" /\ res'[t] = res[t]

\* It is started, by a client or by an obliterate.
Starts(t) ==
  /\ pc[t] = "idle" /\ res'[t] = res[t]
  /\ \/ pc'[t] \in {"copy_check", "resolve"}
     \/ pc'[t] = "obl_load" /\ req'[t].op = "obliterate"
     \/ pc'[t] = "get" /\ req'[t].op = "get"

\* The step of another task, save a spawn, is nothing to t.
LEMMA StepElsewhere ==
  ASSUME TypeInv, NEW u \in Task, NEW t \in Task \ {u}, Step(u), ~OblRead(u)
  PROVE  Stays(t)
  <1> USE DEF TypeInv, TypeOK, Stays, Goto, Return, LostReply, Retried, GotoOrLose, ReturnOrLose
  <1>1. CASE Resolve(u)
    BY <1>1 DEF Resolve, NoMatch, QueryResult, PutUnmatched
  <1>2. CASE ResolveRow(u)
    BY <1>2 DEF ResolveRow, NoMatch, MatchFull, ResolveError, QueryResult, PutUnmatched
  <1>3. CASE GetMetadataLoad(u) \/ GetExists(u) \/ GetRow(u) \/ GetObject(u) \/ GetDone(u)
    BY <1>3 DEF GetMetadataLoad, GetExists, GetRow, GetObject, GetDone
  <1>4. CASE PutCheck(u) \/ PutUpsert(u) \/ PutAssociate(u) \/ PutCommit(u)
    BY <1>4 DEF PutCheck, PutUpsert, PutAssociate, PutCommit
  <1>5. CASE PutObject(u) \/ OblPayload(u)
    BY <1>5 DEF PutObject, OblPayload, S3Write
  <1>6. CASE CopyCheck(u) \/ CopyAssociate(u) \/ OblLoad(u) \/ OblLock(u)
    BY <1>6 DEF CopyCheck, CopyAssociate, OblLoad, OblLock
  <1>7. CASE OblJoin(u) \/ OblUnassociate(u) \/ OblCount(u) \/ OblRestore(u) \/ OblTombstone(u)
    BY <1>7 DEF OblJoin, OblUnassociate, OblCount, OblRestore, OblTombstone
  <1> QED
    BY <1>1, <1>2, <1>3, <1>4, <1>5, <1>6, <1>7 DEF Step

\* Reading the references of a payload starts other tasks and moves only its own.
LEMMA ReadMoves ==
  ASSUME TypeInv, NEW u \in Task, NEW t \in Task, OblRead(u)
  PROVE  Stays(t) \/ Starts(t) \/ (t = u /\ pc'[t] = "obl_join" /\ req'[t] = req[t])
                  \/ (t = u /\ pc'[t] = "done" /\ res'[t] # "ok" /\ req'[t] = req[t])
  <1> USE DEF TypeInv, TypeOK
  <1>1. pc[u] = "obl_read"
    BY DEF OblRead
  <1>2. CASE \E r \in {"not_found", "err"} : Return(u, r) /\ UNCHANGED req
    BY <1>2 DEF Return, Stays
  <1>3. CASE Spawn(u, Refs[s3[req[u].key.hash]])
    <2>1. PICK new \in SUBSET (Task \ Client) : Spawned(u, Refs[s3[req[u].key.hash]], new)
      BY <1>3, SpawnEffect
    <2>2. CASE t \in new
      <3>1. pc[t] = "idle" /\ t # u /\ res'[t] = res[t]
        BY <1>1, <2>1, <2>2 DEF Spawned
      <3>2. pc'[t] = "obl_load"
        BY <2>1, <2>2, <3>1 DEF Spawned
      <3>3. PICK k : req'[t] = [op |-> "obliterate", key |-> k]
        BY <2>1, <2>2 DEF Spawned
      <3>4. req'[t].op = "obliterate"
        BY <3>3
      <3> QED
        BY <3>1, <3>2, <3>4 DEF Starts
    <2>3. CASE t \notin new
      BY <2>1, <2>3 DEF Spawned, Stays
    <2> QED
      BY <2>2, <2>3
  <1> QED
    BY <1>2, <1>3 DEF OblRead

LEMMA TaskMoves ==
  ASSUME TypeInv, [Next]_vars, NEW t \in Task
  PROVE  \/ Stays(t) \/ Ends(t) \/ Starts(t)
         \/ Step(t) /\ ~OblRead(t) /\ req'[t] = req[t]
         \/ OblRead(t) /\ req'[t] = req[t] /\ pc'[t] \in {"obl_join", "done"}
                       /\ (pc'[t] = "done" => res'[t] # "ok")
  <1> USE DEF TypeInv, TypeOK
  <1>1. CASE UNCHANGED vars \/ Arrive
    BY <1>1 DEF vars, Arrive, Stays
  <1>2. CASE Crash
    BY <1>2 DEF Crash, Stays, Ends
  <1>3. ASSUME NEW u \in Task, Begin(u) PROVE Stays(t) \/ Starts(t)
    BY <1>3 DEF Begin, Goto, Stays, Starts
  <1>4. ASSUME NEW u \in Task, Fail(u) PROVE Stays(t) \/ Ends(t)
    BY <1>4 DEF Fail, Stays, Ends
  <1>5. ASSUME NEW u \in Task, Step(u), ~OblRead(u)
        PROVE  Stays(t) \/ (Step(t) /\ ~OblRead(t) /\ req'[t] = req[t])
    <2>1. CASE u = t
      <3>1. UNCHANGED req
        <4>1. CASE CopyCheck(u) \/ OblCount(u) \/ OblPayload(u)
          BY <4>1 DEF CopyCheck, OblCount, OblPayload
        <4>2. CASE ~(CopyCheck(u) \/ OblCount(u) \/ OblPayload(u))
          BY <1>5, <4>2, StepMoves
        <4> QED
          BY <4>1, <4>2
      <3> QED
        BY <1>5, <2>1, <3>1
    <2>2. CASE u # t
      BY <1>5, <2>2, StepElsewhere
    <2> QED
      BY <2>1, <2>2
  <1>6. ASSUME NEW u \in Task, OblRead(u)
        PROVE  \/ Stays(t) \/ Starts(t)
               \/ OblRead(t) /\ req'[t] = req[t] /\ pc'[t] \in {"obl_join", "done"}
                             /\ (pc'[t] = "done" => res'[t] # "ok")
    BY <1>6, ReadMoves
  <1> QED
    BY <1>1, <1>2, <1>3, <1>4, <1>5, <1>6 DEF Next

-----------------------------------------------------------------------------
(* Acknowledged associations.                                              *)

\* The task has seen the association of its address, or made it.
Vouches(t) ==
  /\ req[t].op \in {"put", "copy"}
  /\ \/ pc[t] \in {"resolve_row", "put_check", "commit_existing"}
     \/ pc[t] = "done" /\ res[t] = "ok"

AckInv ==
  /\ IdleClean
  /\ OriginalRow
  /\ \A t \in Task : Vouches(t) /\ ~Condemned(req[t].key) => req[t].key \in assoc

\* A step of the task's own gets there only by seeing or making it.
LEMMA VouchStep ==
  ASSUME TypeInv, NEW t \in Task, Step(t), ~OblRead(t), req'[t] = req[t], Vouches(t)'
  PROVE  Vouches(t) \/ req[t].key \in assoc'
  <1> USE DEF TypeInv, TypeOK, Vouches, store,
              Goto, Return, LostReply, Retried, GotoOrLose, ReturnOrLose
  <1>1. req[t].op \in {"put", "copy"}
    OBVIOUS
  <1>2. CASE Resolve(t)
    BY <1>1, <1>2 DEF Resolve, NoMatch, PutUnmatched, Target
  <1>3. CASE ResolveRow(t) \/ PutCheck(t)
    BY <1>1, <1>3 DEF ResolveRow, PutCheck
  <1>4. CASE GetMetadataLoad(t) \/ GetExists(t) \/ GetRow(t) \/ GetObject(t) \/ GetDone(t)
    <2>1. pc[t] \in {"get", "gm_load"}
      BY <1>4 DEF GetMetadataLoad, GetExists, GetRow, GetObject, GetDone
    <2> QED
      BY <1>1, <2>1 DEF Control, KeyRequest
  <1>5. CASE PutObject(t)
    BY <1>5 DEF PutObject, S3Write
  <1>6. CASE PutUpsert(t)
    BY <1>6 DEF PutUpsert
  <1>7. CASE PutAssociate(t)
    BY <1>7 DEF PutAssociate
  <1>8. CASE PutCommit(t)
    BY <1>1, <1>8 DEF PutCommit
  <1>9. CASE CopyCheck(t) \/ CopyAssociate(t)
    BY <1>9 DEF CopyCheck, CopyAssociate
  <1>10. CASE \/ OblLoad(t) \/ OblLock(t) \/ OblJoin(t) \/ OblUnassociate(t)
              \/ OblCount(t) \/ OblRestore(t) \/ OblPayload(t) \/ OblTombstone(t)
    <2>1. pc[t] \in ObliterateLabel
      BY <1>10 DEF OblLoad, OblLock, OblJoin, OblUnassociate, OblCount, OblRestore, OblPayload,
                   OblTombstone, ObliterateLabel
    <2> QED
      BY <1>1, <2>1 DEF Control
  <1> QED
    BY <1>2, <1>3, <1>4, <1>5, <1>6, <1>7, <1>8, <1>9, <1>10 DEF Step

\* AckedAssociationStays for every workload and any faults: a put or a copy that was
\* answered with Ok stays associated until somebody asks to obliterate that very address.
THEOREM AckedAssociationSafe == Spec => []AckedAssociationStays
  <1>1. Init => AckInv
    BY DEF Init, AckInv, IdleClean, OriginalRow, ObliterateLabel, Vouches
  <1>2. TypeInv /\ AckInv /\ [Next]_vars => AckInv'
    <2> SUFFICES ASSUME TypeInv, AckInv, [Next]_vars PROVE AckInv'
      OBVIOUS
    <2>1. IdleClean' /\ \A t \in Task : req[t] # NoRequest => req'[t] = req[t]
      BY RequestsKept DEF AckInv
    <2>2. OriginalRow'
      BY OriginalRowNext DEF AckInv
    <2>3. ASSUME NEW t \in Task, Vouches(t)', ~Condemned(req[t].key)'
          PROVE  req'[t].key \in assoc'
      <3>1. ~Starts(t) /\ ~Ends(t)
        BY <2>3 DEF Starts, Ends, Vouches
      <3>2. req'[t] = req[t] /\ (Vouches(t) \/ req[t].key \in assoc')
        <4>1. CASE Stays(t)
          BY <2>3, <4>1 DEF Stays, Vouches
        <4>2. CASE Step(t) /\ ~OblRead(t) /\ req'[t] = req[t]
          BY <2>3, <4>2, VouchStep
        <4>3. ~(/\ pc'[t] \in {"obl_join", "done"}
                /\ pc'[t] = "done" => res'[t] # "ok")
          BY <2>3 DEF Vouches
        <4> QED
          BY <3>1, <4>1, <4>2, <4>3, TaskMoves
      <3>3. ~Condemned(req[t].key)
        BY <2>1, <2>3, <3>2 DEF Condemned, NoRequest
      <3>4. CASE Vouches(t)
        <4>1. req[t].key \in assoc
          BY <3>3, <3>4 DEF AckInv
        <4>2. ASSUME NEW u \in Task, OblUnassociate(u), req[t].key = req[u].key PROVE FALSE
          <5>1. req[u].op = "obliterate"
            BY <4>2 DEF OblUnassociate, TypeInv, Control, ObliterateLabel
          <5> QED
            BY <3>3, <4>2, <5>1 DEF Condemned
        <4>3. OriginalRow
          BY DEF AckInv
        <4> QED
          BY <3>2, <4>1, <4>2, <4>3, Removals
      <3> QED
        BY <3>2, <3>4
    <2>4. (\A t \in Task : Vouches(t) /\ ~Condemned(req[t].key) => req[t].key \in assoc)'
      BY <2>3
    <2> QED
      BY <2>1, <2>2, <2>4 DEF AckInv
  <1>3. AckInv => AckedAssociationStays
    BY DEF AckInv, AckedAssociationStays, Vouches, Done
  <1> QED
    BY TypeInit, TypeNext, <1>1, <1>2, <1>3, PTL DEF Spec

-----------------------------------------------------------------------------
(* Deletions that take effect.                                             *)

\* The task has deleted the association of its address.
Unassociated(t) ==
  /\ req[t].op = "obliterate"
  /\ \/ pc[t] \in {"obl_count", "obl_restore", "obl_payload", "obl_tomb"}
     \/ pc[t] = "done" /\ res[t] = "ok"

\* Only reads are at the labels of reads, so only their answers come from there.
Readers ==
  \A t \in Task : /\ pc[t] = "get" => req[t].op = "get"
                  /\ pc[t] = "gm_load" => req[t].op = "get_metadata"

GoneInv ==
  /\ IdleClean
  /\ Readers
  /\ \A t \in Task : Unassociated(t) /\ ~Written(req[t].key) => req[t].key \notin assoc

\* A step of the task's own gets there only by the deletion.
LEMMA UnassociatedStep ==
  ASSUME TypeInv, Readers, NEW t \in Task, Step(t), ~OblRead(t), req'[t] = req[t],
         Unassociated(t)'
  PROVE  Unassociated(t) \/ req[t].key \notin assoc'
  <1> USE DEF TypeInv, TypeOK, Unassociated, store,
              Goto, Return, LostReply, Retried, GotoOrLose, ReturnOrLose
  <1>1. req[t].op = "obliterate"
    OBVIOUS
  <1>2. CASE Resolve(t)
    BY <1>1, <1>2 DEF Resolve, NoMatch
  <1>3. CASE ResolveRow(t)
    BY <1>1, <1>3 DEF ResolveRow, NoMatch, MatchFull, ResolveError
  <1>4. CASE GetMetadataLoad(t) \/ GetExists(t) \/ GetRow(t) \/ GetObject(t) \/ GetDone(t)
    <2>1. pc[t] \in {"get", "gm_load"}
      BY <1>4 DEF GetMetadataLoad, GetExists, GetRow, GetObject, GetDone
    <2> QED
      BY <1>1, <2>1 DEF Readers
  <1>5. CASE \/ PutCheck(t) \/ PutObject(t) \/ PutUpsert(t) \/ PutAssociate(t) \/ PutCommit(t)
             \/ CopyCheck(t) \/ CopyAssociate(t)
    <2>1. pc[t] \in PutLabel \cup {"copy_check", "copy_associate"}
      BY <1>5 DEF PutCheck, PutObject, PutUpsert, PutAssociate, PutCommit, CopyCheck,
                  CopyAssociate, PutLabel
    <2> QED
      BY <1>1, <2>1 DEF Control, PutRequest, CopyRequest
  <1>6. CASE OblLoad(t)
    BY <1>6 DEF OblLoad
  <1>7. CASE OblLock(t) \/ OblJoin(t)
    BY <1>7 DEF OblLock, OblJoin
  <1>8. CASE OblUnassociate(t)
    BY <1>8 DEF OblUnassociate
  <1>9. CASE OblCount(t) \/ OblRestore(t) \/ OblPayload(t) \/ OblTombstone(t)
    BY <1>1, <1>9 DEF OblCount, OblRestore, OblPayload, OblTombstone
  <1> QED
    BY <1>2, <1>3, <1>4, <1>5, <1>6, <1>7, <1>8, <1>9 DEF Step

\* A step of the task's own reaches the label of a read only as that read.
LEMMA ReaderStep ==
  ASSUME TypeInv, Readers, NEW t \in Task, Step(t), ~OblRead(t), req'[t] = req[t]
  PROVE  /\ pc'[t] = "get" => req[t].op = "get"
         /\ pc'[t] = "gm_load" => req[t].op = "get_metadata"
  <1> USE DEF TypeInv, TypeOK, Goto, Return, LostReply, Retried, GotoOrLose, ReturnOrLose
  <1>1. CASE Resolve(t)
    BY <1>1 DEF Resolve, NoMatch, QueryResult, PutUnmatched
  <1>2. CASE ResolveRow(t)
    BY <1>2 DEF ResolveRow, NoMatch, MatchFull, ResolveError, QueryResult, PutUnmatched
  <1>3. CASE GetMetadataLoad(t) \/ GetExists(t) \/ GetRow(t) \/ GetObject(t) \/ GetDone(t)
    BY <1>3 DEF GetMetadataLoad, GetExists, GetRow, GetObject, GetDone, Readers
  <1>4. CASE PutCheck(t) \/ PutUpsert(t) \/ PutAssociate(t) \/ PutCommit(t)
    BY <1>4 DEF PutCheck, PutUpsert, PutAssociate, PutCommit
  <1>5. CASE PutObject(t) \/ OblPayload(t)
    BY <1>5 DEF PutObject, OblPayload, S3Write
  <1>6. CASE CopyCheck(t) \/ CopyAssociate(t) \/ OblLoad(t) \/ OblLock(t)
    BY <1>6 DEF CopyCheck, CopyAssociate, OblLoad, OblLock
  <1>7. CASE OblJoin(t) \/ OblUnassociate(t) \/ OblCount(t) \/ OblRestore(t) \/ OblTombstone(t)
    BY <1>7 DEF OblJoin, OblUnassociate, OblCount, OblRestore, OblTombstone
  <1> QED
    BY <1>1, <1>2, <1>3, <1>4, <1>5, <1>6, <1>7 DEF Step

\* ObliteratedStaysGone for every workload and any faults: an obliterate that ran to its
\* end has removed its address, and only a put or a copy of the address brings it back.
THEOREM ObliteratedGone == Spec => []ObliteratedStaysGone
  <1>1. Init => GoneInv
    BY DEF Init, GoneInv, IdleClean, Readers, Unassociated
  <1>2. TypeInv /\ GoneInv /\ [Next]_vars => GoneInv'
    <2> SUFFICES ASSUME TypeInv, GoneInv, [Next]_vars PROVE GoneInv'
      OBVIOUS
    <2>1. IdleClean' /\ \A t \in Task : req[t] # NoRequest => req'[t] = req[t]
      BY RequestsKept DEF GoneInv
    <2>2. Readers'
      <3> SUFFICES ASSUME NEW t \in Task
                   PROVE  /\ pc'[t] = "get" => req'[t].op = "get"
                          /\ pc'[t] = "gm_load" => req'[t].op = "get_metadata"
        BY DEF Readers
      <3>1. CASE Stays(t)
        BY <3>1 DEF GoneInv, Readers, Stays
      <3>2. CASE Ends(t) \/ Starts(t)
        BY <3>2 DEF Ends, Starts
      <3>3. CASE Step(t) /\ ~OblRead(t) /\ req'[t] = req[t]
        BY <3>3, ReaderStep DEF GoneInv
      <3>4. CASE pc'[t] \in {"obl_join", "done"}
        BY <3>4
      <3> QED
        BY <3>1, <3>2, <3>3, <3>4, TaskMoves
    <2>3. ASSUME NEW t \in Task, Unassociated(t)', ~Written(req[t].key)'
          PROVE  req'[t].key \notin assoc'
      <3>1. ~Starts(t) /\ ~Ends(t)
        BY <2>3 DEF Starts, Ends, Unassociated
      <3>2. req'[t] = req[t] /\ (Unassociated(t) \/ req[t].key \notin assoc')
        <4>1. CASE Stays(t)
          BY <2>3, <4>1 DEF Stays, Unassociated
        <4>2. CASE Step(t) /\ ~OblRead(t) /\ req'[t] = req[t]
          BY <2>3, <4>2, UnassociatedStep DEF GoneInv
        <4>3. ~(/\ pc'[t] \in {"obl_join", "done"}
                /\ pc'[t] = "done" => res'[t] # "ok")
          BY <2>3 DEF Unassociated
        <4> QED
          BY <3>1, <4>1, <4>2, <4>3, TaskMoves
      <3>3. ~Written(req[t].key)
        BY <2>1, <2>3, <3>2 DEF Written, NoRequest
      <3>4. CASE Unassociated(t)
        <4>1. req[t].key \notin assoc
          BY <3>3, <3>4 DEF GoneInv
        <4>2. ASSUME NEW u \in Task, PutCommit(u) \/ CopyAssociate(u), req[t].key = req[u].key
              PROVE  FALSE
          <5>1. req[u].op \in {"put", "copy"}
            BY <4>2 DEF PutCommit, CopyAssociate, TypeInv, Control, PutLabel, PutRequest, CopyRequest
          <5> QED
            BY <3>3, <4>2, <5>1 DEF Written
        <4> QED
          BY <3>2, <4>1, <4>2, NewAssociations
      <3> QED
        BY <3>2, <3>4
    <2>4. (\A t \in Task : Unassociated(t) /\ ~Written(req[t].key) => req[t].key \notin assoc)'
      BY <2>3
    <2> QED
      BY <2>1, <2>2, <2>4 DEF GoneInv
  <1>3. GoneInv => ObliteratedStaysGone
    BY DEF GoneInv, ObliteratedStaysGone, Unassociated, Done
  <1> QED
    BY TypeInit, TypeNext, <1>1, <1>2, <1>3, PTL DEF Spec
=============================================================================
