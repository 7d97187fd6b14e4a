----------------------------- MODULE ReadProofs -----------------------------
(* What readers are told: nothing of an address nobody stored, everything  *)
(* of an address nobody deletes, and the payload of an acknowledged put.   *)
EXTENDS ObliterationProofs

\* A task that has not started has read nothing.
Fresh == \A t \in Task : pc[t] = "idle" => seen[t] = Unseen /\ hits[t] = <<>>

\* A task keeps its request, and does not go back to where it has none.
LEMMA Started ==
  ASSUME TypeInv, [Next]_vars, NEW t \in Task
  PROVE  pc[t] # "idle" => req'[t] = req[t] /\ pc'[t] # "idle"
  <1>1. CASE Stays(t) \/ Ends(t) \/ Starts(t)
    BY <1>1 DEF Stays, Ends, Starts
  <1>2. CASE OblRead(t) /\ req'[t] = req[t] /\ pc'[t] \in {"obl_join", "done"}
    BY <1>2 DEF OblRead
  <1>3. CASE Step(t) /\ ~OblRead(t) /\ req'[t] = req[t]
    <2>1. pc[t] # "idle"
      BY <1>3
      DEF Step, Resolve, ResolveRow, GetMetadataLoad, GetExists, GetRow, GetObject, GetDone,
          PutCheck, PutObject, PutUpsert, PutAssociate, PutCommit, CopyCheck, CopyAssociate,
          OblLoad, OblLock, OblRead, OblJoin, OblUnassociate, OblCount, OblRestore,
          OblPayload, OblTombstone
    <2>2. CASE CopyCheck(t) \/ OblCount(t) \/ OblPayload(t)
      BY <2>2
      DEF CopyCheck, OblCount, OblPayload, S3Write, Goto, Return, LostReply, Retried,
          TypeInv, TypeOK
    <2>3. CASE ~(CopyCheck(t) \/ OblCount(t) \/ OblPayload(t))
      BY <1>3, <2>1, <2>3, StepMoves DEF TypeInv, TypeOK
    <2> QED
      BY <1>3, <2>1, <2>2, <2>3
  <1> QED
    BY <1>1, <1>2, <1>3, TaskMoves

\* What a get notes, and from where.
LEMMA SeenStep ==
  ASSUME TypeInv, [Next]_vars, NEW t \in Task
  PROVE  \/ seen'[t] = seen[t]
         \/ /\ pc[t] = "get"
            /\ \/ req[t].key \in assoc /\ seen'[t] = Read(t, "exists")
               \/ seen'[t] = [Read(t, "row") EXCEPT !.row = meta[req[t].key.hash]]
               \/ seen'[t] = [Read(t, "object") EXCEPT !.object = s3[req[t].key.hash]]
  <1> USE DEF TypeInv, TypeOK
  <1>1. ASSUME UNCHANGED seen PROVE seen'[t] = seen[t]
    BY <1>1
  <1>2. ASSUME NEW u \in Task, Step(u),
               ~GetExists(u), ~GetRow(u), ~GetObject(u)
        PROVE  UNCHANGED seen
    BY <1>2
    DEF Step, Resolve, ResolveRow, NoMatch, MatchFull, ResolveError, QueryResult, PutUnmatched,
        GetMetadataLoad, GetDone, PutCheck, PutObject, PutUpsert, PutAssociate, PutCommit,
        CopyCheck, CopyAssociate, OblLoad, OblLock, OblRead, OblJoin, OblUnassociate,
        OblCount, OblRestore, OblPayload, OblTombstone, local
  <1>3. CASE GetExists(t) \/ GetRow(t) \/ GetObject(t)
    BY <1>3 DEF GetExists, GetRow, GetObject
  <1>4. ASSUME NEW u \in Task, u # t, GetExists(u) \/ GetRow(u) \/ GetObject(u)
        PROVE  seen'[t] = seen[t]
    BY <1>4 DEF GetExists, GetRow, GetObject
  <1> QED
    BY <1>1, <1>2, <1>3, <1>4 DEF Next, Begin, Fail, Crash, Arrive, vars, local

\* So what it has noted it had noted, or reads now.
LEMMA SeenNotes ==
  ASSUME TypeInv, [Next]_vars, NEW t \in Task
  PROVE  /\ "exists" \in seen'[t].done =>
              "exists" \in seen[t].done \/ (pc[t] = "get" /\ req[t].key \in assoc)
         /\ "row" \in seen'[t].done =>
              \/ "row" \in seen[t].done /\ seen'[t].row = seen[t].row
              \/ pc[t] = "get" /\ seen'[t].row = meta[req[t].key.hash]
         /\ "object" \in seen'[t].done =>
              \/ "object" \in seen[t].done /\ seen'[t].object = seen[t].object
              \/ pc[t] = "get" /\ seen'[t].object = s3[req[t].key.hash]
  <1>1. PICK v : v = seen[t]
    OBVIOUS
  <1>2. PICK d, row, object : v = [done |-> d, row |-> row, object |-> object]
    BY <1>1 DEF TypeInv, TypeOK
  <1>3. Read(t, "exists") = [v EXCEPT !.done = @ \cup {"exists"}]
    BY <1>1 DEF Read
  <1>4. Read(t, "row") = [v EXCEPT !.done = @ \cup {"row"}]
    BY <1>1 DEF Read
  <1>5. Read(t, "object") = [v EXCEPT !.done = @ \cup {"object"}]
    BY <1>1 DEF Read
  <1>6. PICK x, y : x = meta[req[t].key.hash] /\ y = s3[req[t].key.hash]
    OBVIOUS
  <1>7. CASE seen'[t] = v
    BY <1>1, <1>7
  <1>8. CASE req[t].key \in assoc /\ pc[t] = "get" /\ seen'[t] = [v EXCEPT !.done = @ \cup {"exists"}]
    BY <1>1, <1>2, <1>8
  <1>9. CASE pc[t] = "get" /\ seen'[t] = [[v EXCEPT !.done = @ \cup {"row"}] EXCEPT !.row = x]
    BY <1>1, <1>2, <1>6, <1>9
  <1>10. CASE pc[t] = "get" /\ seen'[t] = [[v EXCEPT !.done = @ \cup {"object"}] EXCEPT !.object = y]
    BY <1>1, <1>2, <1>6, <1>10
  <1> QED
    BY <1>1, <1>3, <1>4, <1>5, <1>6, <1>7, <1>8, <1>9, <1>10, SeenStep

\* A step of a query that writes one result.
Reports(t, hit) ==
  /\ req[t].op = "query"
  /\ pc[t] \in {"resolve", "resolve_row"} /\ pc'[t] \in {"resolve", "done"}
  /\ hits'[t] = Append(hits[t], hit)
  /\ hit => pc[t] = "resolve_row" /\ ~Obliteration(meta[Target(t).hash])
  /\ ~hit => Target(t) \notin assoc \/ Obliteration(meta[Target(t).hash])

\* The only steps that write results.
LEMMA HitsStep ==
  ASSUME TypeInv, [Next]_vars, NEW t \in Task
  PROVE  hits'[t] = hits[t] \/ \E hit \in BOOLEAN : Reports(t, hit)
  <1> USE DEF TypeInv, TypeOK
  <1>1. ASSUME UNCHANGED hits PROVE hits'[t] = hits[t]
    BY <1>1
  <1>2. ASSUME NEW u \in Task, Step(u), ~Resolve(u), ~ResolveRow(u)
        PROVE  UNCHANGED hits
    BY <1>2
    DEF Step, GetMetadataLoad, GetExists, GetRow, GetObject, GetDone,
        PutCheck, PutObject, PutUpsert, PutAssociate, PutCommit,
        CopyCheck, CopyAssociate, OblLoad, OblLock, OblRead, OblJoin, OblUnassociate,
        OblCount, OblRestore, OblPayload, OblTombstone, local
  <1>3. ASSUME NEW u \in Task, Resolve(u)
        PROVE  \/ UNCHANGED hits
               \/ req[u].op = "query" /\ QueryResult(u, FALSE) /\ Target(u) \notin assoc
    BY <1>3 DEF Resolve, NoMatch, PutUnmatched, local
  <1>4. ASSUME NEW u \in Task, ResolveRow(u)
        PROVE  \/ UNCHANGED hits
               \/ /\ req[u].op = "query" /\ QueryResult(u, FALSE)
                  /\ Obliteration(meta[Target(u).hash])
               \/ /\ req[u].op = "query" /\ QueryResult(u, TRUE)
                  /\ ~Obliteration(meta[Target(u).hash])
    BY <1>4
    DEF ResolveRow, NoMatch, MatchFull, ResolveError, PutUnmatched, Obliteration, local
  <1>5. ASSUME NEW u \in Task, NEW hit \in BOOLEAN, QueryResult(u, hit)
        PROVE  /\ u # t => hits'[t] = hits[t]
               /\ u = t => hits'[t] = Append(hits[t], hit) /\ pc'[t] \in {"resolve", "done"}
    BY <1>5 DEF QueryResult, Return, Goto
  <1>6. ASSUME NEW u \in Task, Resolve(u) \/ ResolveRow(u)
        PROVE  hits'[t] = hits[t] \/ \E hit \in BOOLEAN : Reports(t, hit)
    <2>1. pc[u] = "resolve" \/ pc[u] = "resolve_row"
      BY <1>6 DEF Resolve, ResolveRow
    <2>2. CASE UNCHANGED hits
      BY <2>2
    <2>3. ASSUME NEW hit \in BOOLEAN, QueryResult(u, hit), req[u].op = "query",
                 hit => pc[u] = "resolve_row" /\ ~Obliteration(meta[Target(u).hash]),
                 ~hit => Target(u) \notin assoc \/ Obliteration(meta[Target(u).hash])
          PROVE  hits'[t] = hits[t] \/ Reports(t, hit)
      BY <1>5, <2>1, <2>3 DEF Reports
    <2>4. Resolve(u) => pc[u] = "resolve"
      BY DEF Resolve
    <2>5. ResolveRow(u) => pc[u] = "resolve_row"
      BY DEF ResolveRow
    <2> QED
      BY <1>3, <1>4, <1>6, <2>2, <2>3, <2>4, <2>5
  <1> QED
    BY <1>1, <1>2, <1>6 DEF Next, Begin, Fail, Crash, Arrive, vars, local

LEMMA FreshInit == Init => Fresh
  BY DEF Init, Fresh

LEMMA FreshNext == TypeInv /\ Fresh /\ [Next]_vars => Fresh'
  <1> SUFFICES ASSUME TypeInv, Fresh, [Next]_vars, NEW t \in Task, pc'[t] = "idle"
               PROVE  seen'[t] = Unseen /\ hits'[t] = <<>>
    BY DEF Fresh
  <1>1. pc[t] = "idle"
    BY Started
  <1>2. seen'[t] = seen[t] /\ hits'[t] = hits[t]
    BY <1>1, SeenStep, HitsStep DEF Reports
  <1> QED
    BY <1>1, <1>2 DEF Fresh

\* A task gets to its row by finding the association, and get_metadata to its second read
\* from there.
LEMMA ResolveArrives ==
  ASSUME TypeInv, [Next]_vars, NEW t \in Task, pc'[t] \in {"resolve_row", "gm_load"}
  PROVE  /\ req'[t] = req[t] /\ hits'[t] = hits[t]
         /\ pc'[t] = "resolve_row" => pc[t] = "resolve_row" \/ Target(t) \in assoc
         /\ pc'[t] = "gm_load" =>
              pc[t] = "gm_load" \/ (pc[t] = "resolve_row" /\ Target(t) = req[t].key)
  <1> USE DEF TypeInv, TypeOK, Goto, Return, LostReply, Retried, GotoOrLose, ReturnOrLose
  <1>1. hits'[t] = hits[t]
    BY HitsStep DEF Reports
  <1>2. CASE Stays(t)
    BY <1>1, <1>2 DEF Stays
  <1>3. CASE Ends(t) \/ Starts(t) \/ pc'[t] \in {"obl_join", "done"}
    BY <1>3 DEF Ends, Starts
  <1>4. CASE Step(t) /\ ~OblRead(t) /\ req'[t] = req[t]
    <2>1. CASE Resolve(t)
      BY <1>1, <1>4, <2>1 DEF Resolve, NoMatch, QueryResult, PutUnmatched
    <2>2. CASE ResolveRow(t)
      <3>1. pc[t] = "resolve_row" /\ (pc'[t] = "gm_load" => req[t].op = "get_metadata")
        BY <1>4, <2>2
        DEF ResolveRow, NoMatch, MatchFull, ResolveError, QueryResult, PutUnmatched
      <3> QED
        BY <1>1, <1>4, <3>1 DEF Target
    <2>3. CASE GetMetadataLoad(t) \/ GetExists(t) \/ GetRow(t) \/ GetObject(t) \/ GetDone(t)
      BY <2>3 DEF GetMetadataLoad, GetExists, GetRow, GetObject, GetDone
    <2>4. CASE PutCheck(t) \/ PutUpsert(t) \/ PutAssociate(t) \/ PutCommit(t)
      BY <2>4 DEF PutCheck, PutUpsert, PutAssociate, PutCommit
    <2>5. CASE PutObject(t) \/ OblPayload(t)
      BY <2>5 DEF PutObject, OblPayload, S3Write
    <2>6. CASE CopyCheck(t) \/ CopyAssociate(t) \/ OblLoad(t) \/ OblLock(t) \/ OblJoin(t)
      BY <2>6 DEF CopyCheck, CopyAssociate, OblLoad, OblLock, OblJoin
    <2>7. CASE OblUnassociate(t) \/ OblCount(t) \/ OblRestore(t) \/ OblTombstone(t)
      BY <2>7 DEF OblUnassociate, OblCount, OblRestore, OblTombstone
    <2> QED
      BY <1>4, <2>1, <2>2, <2>3, <2>4, <2>5, <2>6, <2>7 DEF Step
  <1> QED
    BY <1>2, <1>3, <1>4, TaskMoves

\* How a read by a client ends: by a fault, with what its last step loads, or without the
\* address.
LEMMA AnswerStep ==
  ASSUME TypeInv, NEW t \in Task, Step(t), ~OblRead(t), pc'[t] = "done",
         req[t].op \in {"get", "get_metadata"}
  PROVE  \/ res'[t] = "err"
         \/ GetMetadataLoad(t) \/ GetDone(t)
         \/ res'[t] = "not_found" /\ req[t].key \notin assoc
         \/ /\ res'[t] = "no_match"
            /\ req[t].key \notin assoc \/ Obliteration(meta[req[t].key.hash])
  <1> USE DEF TypeInv, TypeOK, Goto, Return, LostReply, Retried, GotoOrLose, ReturnOrLose
  <1>1. Target(t) = req[t].key
    BY DEF Target
  <1>2. CASE Resolve(t)
    BY <1>1, <1>2 DEF Resolve, NoMatch
  <1>3. CASE ResolveRow(t)
    BY <1>1, <1>3 DEF ResolveRow, NoMatch, MatchFull, ResolveError
  <1>4. CASE GetExists(t) \/ GetRow(t) \/ GetObject(t)
    BY <1>4 DEF GetExists, GetRow, GetObject
  <1>5. CASE \/ PutCheck(t) \/ PutObject(t) \/ PutUpsert(t) \/ PutAssociate(t) \/ PutCommit(t)
             \/ CopyCheck(t) \/ CopyAssociate(t)
    <2>1. pc[t] \in PutLabel \cup {"copy_check", "copy_associate"}
      BY <1>5 DEF PutCheck, PutObject, PutUpsert, PutAssociate, PutCommit, CopyCheck,
                  CopyAssociate, PutLabel
    <2> QED
      BY <2>1 DEF Control, PutRequest, CopyRequest
  <1>6. CASE \/ OblLoad(t) \/ OblLock(t) \/ OblJoin(t) \/ OblUnassociate(t)
             \/ OblCount(t) \/ OblRestore(t) \/ OblPayload(t) \/ OblTombstone(t)
    <2>1. pc[t] \in ObliterateLabel
      BY <1>6 DEF OblLoad, OblLock, OblJoin, OblUnassociate, OblCount, OblRestore, OblPayload,
                  OblTombstone, ObliterateLabel
    <2> QED
      BY <2>1 DEF Control
  <1> QED
    BY <1>2, <1>3, <1>4, <1>5, <1>6 DEF Step

\* The answer a read has, it had, or got from a fault or from a step of its own.
LEMMA Answers ==
  ASSUME TypeInv, [Next]_vars, NEW t \in Task, NEW op \in {"get", "get_metadata"},
         Done(t, op)'
  PROVE  /\ req'[t] = req[t]
         /\ \/ Done(t, op) /\ res'[t] = res[t]
            \/ res'[t] \in {"err", "lost"}
            \/ GetMetadataLoad(t) \/ GetDone(t)
            \/ res'[t] \in {"not_found", "no_match"}
               /\ (req[t].key \notin assoc \/ Obliteration(meta[req[t].key.hash]))
  <1>1. req'[t].op = op /\ pc'[t] = "done"
    BY DEF Done
  <1>2. CASE Stays(t)
    BY <1>1, <1>2 DEF Stays, Done
  <1>3. CASE Ends(t) \/ Starts(t)
    BY <1>1, <1>3 DEF Ends, Starts
  <1>4. CASE Step(t) /\ ~OblRead(t) /\ req'[t] = req[t]
    BY <1>1, <1>4, AnswerStep
  <1>5. CASE OblRead(t) /\ req'[t] = req[t]
    BY <1>1, <1>5 DEF OblRead, TypeInv, Control, ObliterateLabel
  <1> QED
    BY <1>2, <1>3, <1>4, <1>5, TaskMoves

-----------------------------------------------------------------------------
(* Exact matching.                                                         *)

Known(k) == k \in InitAssoc \/ Written(k)

\* What a reader goes on with, what it has noted and what it has answered are known.
ReadsKnown(t) ==
  /\ pc[t] = "resolve_row" => Known(Target(t))
  /\ pc[t] = "gm_load" => Known(req[t].key)
  /\ "exists" \in seen[t].done => Known(req[t].key)
  /\ (Done(t, "get") \/ Done(t, "get_metadata")) /\ res[t] = "ok" => Known(req[t].key)
  /\ req[t].op = "query" => \A i \in DOMAIN hits[t] : hits[t][i] => Known(req[t].batch[i])

\* Strengthening of ReadsAreExact: every association is of a known address.
ExactInv ==
  /\ IdleClean
  /\ Fresh
  /\ \A k \in assoc : Known(k)
  /\ \A t \in Task : ReadsKnown(t)

\* An association is made by a task that was asked for it.
LEMMA AssociationsKnown ==
  ASSUME TypeInv, ExactInv, [Next]_vars, NEW k \in assoc'
  PROVE  Known(k)'
  <1>1. \A u \in Task : req[u] # NoRequest => req'[u] = req[u]
    BY RequestsKept DEF ExactInv
  <1>2. Known(k)
    <2>1. CASE k \in assoc
      BY <2>1 DEF ExactInv
    <2>2. CASE k \notin assoc
      <3>1. PICK t \in Task : k = req[t].key /\ (PutCommit(t) \/ CopyAssociate(t))
        BY <2>2, NewAssociations
      <3>2. req[t].op \in {"put", "copy"}
        BY <3>1
        DEF PutCommit, CopyAssociate, TypeInv, Control, PutLabel, PutRequest, CopyRequest
      <3> QED
        BY <3>1, <3>2 DEF Known, Written
    <2> QED
      BY <2>1, <2>2
  <1> QED
    BY <1>1, <1>2 DEF Known, Written, NoRequest

\* One step of one reader, while requests are kept.
LEMMA ReadsKnownStep ==
  ASSUME TypeInv, ExactInv, [Next]_vars, NEW t \in Task
  PROVE  ReadsKnown(t)'
  <1>1. /\ ReadsKnown(t)
        /\ \A k \in assoc : Known(k)
        /\ pc[t] = "idle" => seen[t] = Unseen /\ hits[t] = <<>>
    BY DEF ExactInv, Fresh
  <1>2. \A u \in Task : req[u] # NoRequest => req'[u] = req[u]
    BY RequestsKept DEF ExactInv
  <1>3. ASSUME pc'[t] = "resolve_row" PROVE Known(Target(t))'
    <2>1. req'[t] = req[t] /\ hits'[t] = hits[t] /\ Known(Target(t))
      BY <1>1, <1>3, ResolveArrives DEF ReadsKnown
    <2>2. PICK k : k = Target(t)
      OBVIOUS
    <2>3. Target(t)' = k
      BY <2>1, <2>2 DEF Target
    <2>4. Known(k)
      BY <2>1, <2>2
    <2> QED
      BY <1>2, <2>3, <2>4 DEF Known, Written, NoRequest
  <1>4. ASSUME req'[t] = req[t], Known(req[t].key) PROVE Known(req[t].key)'
    BY <1>2, <1>4 DEF Known, Written, NoRequest
  <1>5. ASSUME pc'[t] = "gm_load" PROVE Known(req[t].key)'
    <2>1. req'[t] = req[t] /\ Known(req[t].key)
      BY <1>1, <1>5, ResolveArrives DEF ReadsKnown
    <2> QED
      BY <1>4, <2>1
  <1>6. ASSUME "exists" \in seen'[t].done PROVE Known(req[t].key)'
    <2>1. "exists" \in seen[t].done \/ (pc[t] = "get" /\ req[t].key \in assoc)
      BY <1>6, SeenNotes
    <2>2. pc[t] # "idle"
      BY <1>1, <2>1 DEF Unseen
    <2>3. req'[t] = req[t] /\ Known(req[t].key)
      BY <1>1, <2>1, <2>2, Started DEF ReadsKnown
    <2> QED
      BY <1>4, <2>3
  <1>7. ASSUME NEW op \in {"get", "get_metadata"}, Done(t, op)', res'[t] = "ok"
        PROVE  Known(req[t].key)'
    <2>1. Known(req[t].key)
      <3>1. CASE Done(t, op) /\ res'[t] = res[t]
        BY <1>1, <1>7, <3>1 DEF ReadsKnown
      <3>2. CASE GetMetadataLoad(t)
        BY <1>1, <3>2 DEF ReadsKnown, GetMetadataLoad
      <3>3. CASE GetDone(t)
        BY <1>1, <3>3 DEF ReadsKnown, GetDone
      <3> QED
        BY <1>7, <3>1, <3>2, <3>3, Answers
    <2>2. req'[t] = req[t]
      BY <1>7, Answers
    <2> QED
      BY <1>4, <2>1, <2>2
  <1>8. ASSUME req'[t].op = "query", NEW i \in DOMAIN hits'[t], hits'[t][i]
        PROVE  Known(req[t].batch[i])'
    <2>1. hits'[t] = hits[t] \/ pc[t] # "idle"
      BY HitsStep DEF Reports
    <2>2. pc[t] # "idle"
      BY <1>1, <1>8, <2>1
    <2>3. req'[t] = req[t]
      BY <2>2, Started
    <2>4. Known(req[t].batch[i])
      <3>1. CASE i \in DOMAIN hits[t] /\ hits[t][i]
        BY <1>1, <1>8, <2>3, <3>1 DEF ReadsKnown
      <3>2. CASE ~(i \in DOMAIN hits[t] /\ hits[t][i])
        <4>1. PICK hit \in BOOLEAN : Reports(t, hit)
          BY <1>8, <3>2, HitsStep
        <4>2. hits[t] \in Seq(BOOLEAN) /\ hits'[t] = Append(hits[t], hit)
          BY <4>1 DEF Reports, TypeInv, TypeOK
        <4>3. i = Len(hits[t]) + 1 /\ hit
          BY <1>8, <3>2, <4>2
        <4>4. Known(Target(t)) /\ req[t].op = "query"
          BY <1>1, <4>1, <4>3 DEF Reports, ReadsKnown
        <4> QED
          BY <4>3, <4>4 DEF Target
      <3> QED
        BY <3>1, <3>2
    <2>5. PICK k : k = req[t].batch[i]
      OBVIOUS
    <2>6. Known(k) /\ k = req'[t].batch[i]
      BY <2>3, <2>4, <2>5
    <2> QED
      BY <1>2, <2>6 DEF Known, Written, NoRequest
  <1> QED
    BY <1>3, <1>5, <1>6, <1>7, <1>8 DEF ReadsKnown

\* ReadsAreExact for every workload and any faults: no read path vouches for an address
\* that was neither stored at the start nor put nor copied.
THEOREM ExactReads == Spec => []ReadsAreExact
  <1>1. Init => ExactInv
    BY DEF Init, ExactInv, IdleClean, Fresh, Known, ReadsKnown, Done, Unseen
  <1>2. TypeInv /\ ExactInv /\ [Next]_vars => ExactInv'
    <2> SUFFICES ASSUME TypeInv, ExactInv, [Next]_vars PROVE ExactInv'
      OBVIOUS
    <2>1. IdleClean' /\ Fresh'
      BY RequestsKept, FreshNext DEF ExactInv
    <2>2. (\A k \in assoc : Known(k))'
      BY AssociationsKnown
    <2>3. (\A t \in Task : ReadsKnown(t))'
      BY ReadsKnownStep
    <2> QED
      BY <2>1, <2>2, <2>3 DEF ExactInv
  <1>3. ExactInv => ReadsAreExact
    BY DEF ExactInv, ReadsKnown, Known, ReadsAreExact
  <1> QED
    BY TypeInit, TypeNext, <1>1, <1>2, <1>3, PTL DEF Spec

-----------------------------------------------------------------------------
(* Rows and objects nobody deletes.                                        *)

ObliterateAsked(h) == \E t \in Task : req[t].op = "obliterate" /\ req[t].key.hash = h

\* Past the upload of a put.
Uploaded == {"put_upsert", "put_associate", "commit_new", "commit_existing"}

\* PayloadBeforeIndex for one hash, with the puts on their way to the row: a put that is
\* past its upload has its object in the bucket, and no deletion is under way.
StoredFirst(h) ==
  /\ meta[h] = NoRow \/ meta[h].obl = "none"
  /\ meta[h] # NoRow => s3[h] # NoFrag
  /\ [hash |-> h, frag |-> NoFrag] \notin late
  /\ \A t \in Task : pc[t] \in Uploaded /\ req[t].key.hash = h => s3[h] # NoFrag

StoredInv ==
  /\ IdleClean
  /\ OriginalRow
  /\ \A h \in Hash : ObliterateAsked(h) \/ StoredFirst(h)

\* A put gets past its upload only when the object is in the bucket.
LEMMA UploadedArrives ==
  ASSUME TypeInv, [Next]_vars, NEW t \in Task, pc'[t] \in Uploaded
  PROVE  /\ req'[t] = req[t]
         /\ pc[t] \in Uploaded \/ s3'[req[t].key.hash] # NoFrag
  <1> USE DEF TypeInv, TypeOK, Uploaded,
              Goto, Return, LostReply, Retried, GotoOrLose, ReturnOrLose
  <1>1. CASE Stays(t)
    BY <1>1 DEF Stays
  <1>2. CASE Ends(t) \/ Starts(t) \/ pc'[t] \in {"obl_join", "done"}
    BY <1>2 DEF Ends, Starts
  <1>3. CASE Step(t) /\ ~OblRead(t) /\ req'[t] = req[t]
    <2>1. CASE PutObject(t)
      <3>1. req[t] \in PutRequest
        BY <2>1 DEF PutObject, Control, PutLabel
      <3>2. req[t].key.hash \in Hash /\ req[t].frag # NoFrag
        BY <3>1, Shapes, FragAssumption
      <3>3. s3' = [s3 EXCEPT ![req[t].key.hash] = req[t].frag]
        BY <2>1 DEF PutObject, S3Write
      <3> QED
        BY <1>3, <3>2, <3>3
    <2>2. CASE PutUpsert(t) \/ PutAssociate(t)
      BY <1>3, <2>2 DEF PutUpsert, PutAssociate
    <2>3. CASE Resolve(t) \/ ResolveRow(t)
      BY <2>3
      DEF Resolve, ResolveRow, NoMatch, MatchFull, ResolveError, QueryResult, PutUnmatched
    <2>4. CASE GetMetadataLoad(t) \/ GetExists(t) \/ GetRow(t) \/ GetObject(t) \/ GetDone(t)
      BY <2>4 DEF GetMetadataLoad, GetExists, GetRow, GetObject, GetDone
    <2>5. CASE PutCheck(t) \/ PutCommit(t) \/ CopyCheck(t) \/ CopyAssociate(t)
      BY <2>5 DEF PutCheck, PutCommit, CopyCheck, CopyAssociate
    <2>6. CASE OblLoad(t) \/ OblLock(t) \/ OblJoin(t) \/ OblUnassociate(t)
      BY <2>6 DEF OblLoad, OblLock, OblJoin, OblUnassociate
    <2>7. CASE OblCount(t) \/ OblRestore(t) \/ OblPayload(t) \/ OblTombstone(t)
      BY <2>7 DEF OblCount, OblRestore, OblPayload, OblTombstone, S3Write
    <2> QED
      BY <1>3, <2>1, <2>2, <2>3, <2>4, <2>5, <2>6, <2>7 DEF Step
  <1> QED
    BY <1>1, <1>2, <1>3, TaskMoves

\* The steps that take something from a hash are those of obliterates asked for it.
LEMMA NotAsked ==
  ASSUME TypeInv, NEW h \in Hash, ~ObliterateAsked(h), NEW u \in Task, req[u].key.hash = h
  PROVE  ~OblLock(u) /\ ~OblRestore(u) /\ ~OblTombstone(u) /\ ~OblPayload(u)
  BY DEF ObliterateAsked, OblLock, OblRestore, OblTombstone, OblPayload, TypeInv, Control,
         ObliterateLabel

LEMMA StoredStep ==
  ASSUME TypeInv, OriginalRow, [Next]_vars, NEW h \in Hash, ~ObliterateAsked(h),
         StoredFirst(h)
  PROVE  StoredFirst(h)'
  <1>1. s3[h] # NoFrag => s3'[h] # NoFrag
    BY Removals, NotAsked DEF StoredFirst
  <1>2. [hash |-> h, frag |-> NoFrag] \notin late'
    BY Removals, NotAsked DEF StoredFirst
  <1>3. /\ meta'[h] = NoRow \/ meta'[h].obl = "none"
        /\ meta'[h] # NoRow => s3'[h] # NoFrag
    <2>1. CASE meta'[h] = meta[h]
      BY <1>1, <2>1 DEF StoredFirst
    <2>2. CASE meta'[h] # meta[h]
      <3>1. PICK u \in Task :
              req[u].key.hash = h /\ PutCommit(u) /\ meta'[h] = Live(req[u].frag)
        BY <2>2, RowWrites, NotAsked
      <3>2. s3[h] # NoFrag
        BY <3>1 DEF PutCommit, Uploaded, StoredFirst
      <3>3. meta'[h].obl = "none"
        BY <3>1 DEF Live
      <3> QED
        BY <1>1, <3>2, <3>3
    <2> QED
      BY <2>1, <2>2
  <1>4. ASSUME NEW t \in Task, pc'[t] \in Uploaded, req'[t].key.hash = h
        PROVE  s3'[h] # NoFrag
    BY <1>1, <1>4, UploadedArrives DEF StoredFirst
  <1> QED
    BY <1>2, <1>3, <1>4 DEF StoredFirst

LEMMA StoredInit == Init => StoredInv
  BY DEF Init, StoredInv, IdleClean, OriginalRow, ObliterateLabel, StoredFirst, Uploaded,
         NoRow, Live

\* Who was asked to obliterate a hash stays so.
LEMMA ObliterateAskedStays ==
  ASSUME TypeInv, IdleClean, [Next]_vars, NEW h, ObliterateAsked(h)
  PROVE  ObliterateAsked(h)'
  <1>1. PICK t \in Task : req[t].op = "obliterate" /\ req[t].key.hash = h
    BY DEF ObliterateAsked
  <1>2. req'[t] = req[t]
    BY <1>1, RequestsKept DEF NoRequest
  <1> QED
    BY <1>1, <1>2 DEF ObliterateAsked

LEMMA StoredNext == TypeInv /\ StoredInv /\ [Next]_vars => StoredInv'
  <1> SUFFICES ASSUME TypeInv, StoredInv, [Next]_vars PROVE StoredInv'
    OBVIOUS
  <1>1. IdleClean' /\ OriginalRow'
    BY RequestsKept, OriginalRowNext DEF StoredInv
  <1>2. ASSUME NEW h \in Hash, ~ObliterateAsked(h)' PROVE StoredFirst(h)'
    BY <1>2, ObliterateAskedStays, StoredStep DEF StoredInv
  <1>3. (\A h \in Hash : ObliterateAsked(h) \/ StoredFirst(h))'
    BY <1>2
  <1> QED
    BY <1>1, <1>3 DEF StoredInv

\* Workloads without obliterates, the ones PayloadBeforeIndex and AckedPutReadable are about.
WithoutObliterates == \A r \in Requests : r.op # "obliterate"

NobodyObliterates == \A t \in Task : req[t].op # "obliterate"

LEMMA NobodyObliteratesInit == Init => NobodyObliterates
  BY DEF Init, NobodyObliterates, NoRequest

LEMMA NobodyObliteratesNext ==
  ASSUME WithoutObliterates
  PROVE  TypeInv /\ NobodyObliterates /\ [Next]_vars => NobodyObliterates'
  <1> SUFFICES ASSUME TypeInv, NobodyObliterates, [Next]_vars, NEW t \in Task
               PROVE  req'[t].op # "obliterate"
    BY DEF NobodyObliterates
  <1>1. ~\E u \in Task : OblRead(u)
    BY DEF OblRead, NobodyObliterates, TypeInv, Control, ObliterateLabel
  <1> QED
    BY <1>1, NewRequests DEF WithoutObliterates, NobodyObliterates

\* PayloadBeforeIndex for every workload without obliterates and any faults: a failed, late
\* or lost upload never leaves a visible row without its object.
THEOREM UploadedBeforeIndex ==
  ASSUME WithoutObliterates
  PROVE  Spec => []PayloadBeforeIndex
  <1>1. TypeInv /\ NobodyObliterates /\ [Next]_vars => NobodyObliterates'
    BY NobodyObliteratesNext
  <1>2. NobodyObliterates /\ StoredInv => PayloadBeforeIndex
    BY DEF NobodyObliterates, StoredInv, ObliterateAsked, StoredFirst, PayloadBeforeIndex
  <1> QED
    BY TypeInit, TypeNext, StoredInit, StoredNext, NobodyObliteratesInit, <1>1, <1>2, PTL
    DEF Spec

-----------------------------------------------------------------------------
(* Addresses nobody deletes.                                               *)

\* A reader of k has been told nothing else than that it is there.
ReadsPresent(t, k) ==
  /\ req[t].op \in {"get", "get_metadata"} /\ req[t].key = k =>
       /\ "row" \in seen[t].done => seen[t].row.obl = "none"
       /\ "object" \in seen[t].done => seen[t].object # NoFrag
  /\ (Done(t, "get") \/ Done(t, "get_metadata")) /\ req[t].key = k =>
       res[t] \in {"ok", "err", "lost"}
  /\ req[t].op = "query" => \A i \in DOMAIN hits[t] : req[t].batch[i] = k => hits[t][i]

\* Strengthening of CorpusVisible: besides what it answers, what a get has read so far.
VisibleInv ==
  /\ Fresh
  /\ \A k \in InitAssoc : ObliterateAsked(k.hash) \/ \A t \in Task : ReadsPresent(t, k)

\* One step, while the address is there with its row and its object.
LEMMA ReadsPresentStep ==
  ASSUME TypeInv, Fresh, [Next]_vars, NEW k \in Key, NEW t \in Task, ReadsPresent(t, k),
         k \in assoc, meta[k.hash] # NoRow, ~Obliteration(meta[k.hash]),
         meta[k.hash].obl = "none", s3[k.hash] # NoFrag
  PROVE  ReadsPresent(t, k)'
  <1>1. pc[t] = "idle" => seen[t] = Unseen /\ hits[t] = <<>>
    BY DEF Fresh
  <1>2. ASSUME req'[t].op \in {"get", "get_metadata"}, req'[t].key = k
        PROVE  /\ "row" \in seen'[t].done => seen'[t].row.obl = "none"
               /\ "object" \in seen'[t].done => seen'[t].object # NoFrag
    <2>1. CASE pc[t] = "idle"
      BY <1>1, <2>1, SeenNotes DEF Unseen
    <2>2. CASE pc[t] # "idle"
      <3>1. req'[t] = req[t]
        BY <2>2, Started
      <3> QED
        BY <1>2, <3>1, SeenNotes DEF ReadsPresent
    <2> QED
      BY <2>1, <2>2
  <1>3. ASSUME NEW op \in {"get", "get_metadata"}, Done(t, op)', req'[t].key = k
        PROVE  res'[t] \in {"ok", "err", "lost"}
    <2>1. req[t].key = k /\ req[t].op = op
      BY <1>3, Answers DEF Done
    <2>2. CASE Done(t, op) /\ res'[t] = res[t]
      BY <2>1, <2>2 DEF ReadsPresent
    <2>3. CASE GetMetadataLoad(t)
      BY <2>1, <2>3 DEF GetMetadataLoad, Return, TypeInv, TypeOK
    <2>4. CASE GetDone(t)
      <3>1. "row" \in seen[t].done /\ seen[t].row.obl = "none"
        BY <2>1, <2>4 DEF GetDone, ReadsPresent
      <3>2. seen[t].row # NoRow /\ ~Obliteration(seen[t].row)
        BY <3>1 DEF NoRow, Obliteration
      <3>3. seen[t].object # NoFrag
        BY <2>1, <2>4, <3>2 DEF GetDone, ReadsPresent
      <3>4. LoadResult(seen[t].row, seen[t].object) \in {"ok", "err"}
        BY <3>2, <3>3 DEF LoadResult
      <3> QED
        BY <2>4, <3>4 DEF GetDone, Return, TypeInv, TypeOK
    <2> QED
      BY <1>3, <2>1, <2>2, <2>3, <2>4, Answers
  <1>4. ASSUME req'[t].op = "query", NEW i \in DOMAIN hits'[t], req'[t].batch[i] = k
        PROVE  hits'[t][i]
    <2>1. hits'[t] = hits[t] \/ pc[t] # "idle"
      BY HitsStep DEF Reports
    <2>2. pc[t] # "idle"
      BY <1>1, <1>4, <2>1
    <2>3. req'[t] = req[t]
      BY <2>2, Started
    <2>4. i \in DOMAIN hits[t] => hits[t][i]
      BY <1>4, <2>3 DEF ReadsPresent
    <2>5. CASE hits'[t] = hits[t]
      BY <1>4, <2>4, <2>5
    <2>6. CASE hits'[t] # hits[t]
      <3>1. PICK hit \in BOOLEAN : Reports(t, hit)
        BY <2>6, HitsStep
      <3>2. hits[t] \in Seq(BOOLEAN) /\ hits'[t] = Append(hits[t], hit)
        BY <3>1 DEF Reports, TypeInv, TypeOK
      <3>3. \/ i \in DOMAIN hits[t] /\ hits'[t][i] = hits[t][i]
            \/ i = Len(hits[t]) + 1 /\ hits'[t][i] = hit
        BY <1>4, <3>2
      <3>4. ASSUME i = Len(hits[t]) + 1 PROVE hit
        <4>1. Target(t) = k
          BY <1>4, <2>3, <3>4 DEF Target
        <4> QED
          BY <3>1, <4>1 DEF Reports
      <3> QED
        BY <2>4, <3>3, <3>4
    <2> QED
      BY <2>5, <2>6
  <1> QED
    BY <1>2, <1>3, <1>4 DEF ReadsPresent

LEMMA VisibleInit == Init => VisibleInv
  BY DEF Init, VisibleInv, Fresh, ReadsPresent, Done, Unseen, NoRequest

LEMMA VisibleNext ==
  /\ TypeInv /\ StoredInv /\ VisibleInv /\ SharedPayloadSurvives /\ AssocHasMetadata
  /\ [Next]_vars
  => VisibleInv'
  <1> SUFFICES ASSUME TypeInv, StoredInv, VisibleInv, SharedPayloadSurvives,
                      AssocHasMetadata, [Next]_vars
               PROVE  VisibleInv'
    OBVIOUS
  <1>1. Fresh'
    BY FreshNext DEF VisibleInv
  <1>2. ASSUME NEW k \in InitAssoc, ~ObliterateAsked(k.hash)', NEW t \in Task
        PROVE  ReadsPresent(t, k)'
    <2>1. k \in Key /\ k.hash \in Hash
      BY InitAssumption, Shapes
    <2>2. PICK h \in Hash : h = k.hash
      BY <2>1
    <2>3. ~ObliterateAsked(h)
      BY <1>2, <2>2, ObliterateAskedStays DEF StoredInv
    <2>4. ~Condemned(k)
      BY <2>2, <2>3 DEF Condemned, ObliterateAsked
    <2>5. k \in assoc /\ s3[h] # NoFrag
      BY <1>2, <2>2, <2>4 DEF SharedPayloadSurvives
    <2>6. meta[h] # NoRow
      BY <2>2, <2>5 DEF AssocHasMetadata
    <2>7. meta[h].obl = "none" /\ ~Obliteration(meta[h])
      BY <2>3, <2>6 DEF StoredInv, StoredFirst, Obliteration
    <2>8. Fresh /\ ReadsPresent(t, k)
      BY <1>2, <2>2, <2>3 DEF VisibleInv
    <2> QED
      BY <2>1, <2>2, <2>5, <2>6, <2>7, <2>8, ReadsPresentStep
  <1>3. (\A k \in InitAssoc : ObliterateAsked(k.hash) \/ \A t \in Task : ReadsPresent(t, k))'
    BY <1>2
  <1> QED
    BY <1>1, <1>3 DEF VisibleInv

\* CorpusVisible for every workload and any faults: none of the three read paths reports an
\* address missing that was there at the start and whose hash nobody obliterates.
THEOREM CorpusRead == Spec => []CorpusVisible
  <1>1. VisibleInv => CorpusVisible
    BY DEF VisibleInv, ObliterateAsked, ReadsPresent, CorpusVisible
  <1> QED
    BY TypeInit, TypeNext, StoredInit, StoredNext, VisibleInit, VisibleNext,
       SharedPayloadSafe, IndexComplete, <1>1, PTL DEF Spec

-----------------------------------------------------------------------------
(* Encodings.                                                              *)

\* The encodings of h there can be: the initial one and those of the puts in the workload.
Encodings(h) ==
  ({InitFrag[h]} \cup {r.frag : r \in {q \in Requests : q.op = "put" /\ q.key.hash = h}})
    \ {NoFrag}

\* Only those are ever in a row, in the bucket or on their way there.
EncodedFrom(h) ==
  /\ meta[h] \in {NoRow, Tombstone} \/ meta[h].frag \in Encodings(h)
  /\ s3[h] \in Encodings(h) \cup {NoFrag}
  /\ \A w \in late : w.hash = h => w.frag \in Encodings(h) \cup {NoFrag}
  /\ \A t \in Task : req[t].op = "put" /\ req[t].key.hash = h => req[t].frag \in Encodings(h)

EncodingInv == \A h \in Hash : EncodedFrom(h)

\* The encoding of a request to put is one of them.
LEMMA RequestEncoded ==
  ASSUME NEW r \in Requests, r.op = "put"
  PROVE  r.frag \in Encodings(r.key.hash)
  <1>1. r.frag # NoFrag
    BY RequestAssumption, RequestShape, Shapes, FragAssumption
  <1> QED
    BY <1>1 DEF Encodings

LEMMA EncodedInit == Init => EncodingInv
  <1> SUFFICES ASSUME Init, NEW h \in Hash PROVE EncodedFrom(h)
    BY DEF EncodingInv
  <1>1. InitFrag[h] \in Encodings(h) \cup {NoFrag}
    BY DEF Encodings
  <1>2. meta[h] = NoRow \/ meta[h].frag \in Encodings(h)
    BY <1>1 DEF Init, Live
  <1> QED
    BY <1>1, <1>2 DEF Init, EncodedFrom, NoRequest

\* No step makes an encoding up.
LEMMA EncodedStep ==
  ASSUME TypeInv, OriginalRow, [Next]_vars, NEW h \in Hash, EncodedFrom(h)
  PROVE  EncodedFrom(h)'
  <1>1. ASSUME NEW u \in Task, NEW f, WritesObject(u, h, f)
        PROVE  f \in Encodings(h) \cup {NoFrag}
    <2>1. PutObject(u) => req[u].op = "put"
      BY DEF PutObject, TypeInv, Control, PutLabel, PutRequest
    <2> QED
      BY <1>1, <2>1 DEF WritesObject, EncodedFrom
  <1>2. s3'[h] \in Encodings(h) \cup {NoFrag}
    BY <1>1, ObjectWrites DEF EncodedFrom
  <1>3. ASSUME NEW w \in late', w.hash = h PROVE w.frag \in Encodings(h) \cup {NoFrag}
    BY <1>1, <1>3, ObjectWrites DEF EncodedFrom
  <1>4. meta'[h] \in {NoRow, Tombstone} \/ meta'[h].frag \in Encodings(h)
    <2>1. CASE meta'[h] = meta[h]
      BY <2>1 DEF EncodedFrom
    <2>2. CASE meta'[h] # meta[h]
      <3>1. PICK u \in Task :
              /\ req[u].key.hash = h
              /\ \/ OblLock(u) /\ meta[h] = orig[u] /\ meta'[h] = Locked(orig[u])
                 \/ OblRestore(u) /\ meta[h] = Locked(orig[u]) /\ meta'[h] = orig[u]
                 \/ OblTombstone(u) /\ meta'[h] = Tombstone
                 \/ req[u].op = "put" /\ meta'[h] = Live(req[u].frag)
        BY <2>2, RowWrites
      <3>2. PICK row \in Row : row = orig[u]
        BY DEF TypeInv, TypeOK
      <3>3. /\ Locked(row).frag = row.frag
            /\ Locked(row) # NoRow /\ Locked(row) # Tombstone
        BY DEF Row, Locked, NoRow, Tombstone
      <3>4. CASE OblLock(u) /\ meta[h] = row /\ meta'[h] = Locked(row)
        <4>1. row # NoRow /\ row # Tombstone
          BY <3>2, <3>4 DEF OblLock, OriginalRow, ObliterateLabel, Obliteration, Tombstone
        <4> QED
          BY <3>3, <3>4, <4>1 DEF EncodedFrom
      <3>5. CASE meta[h] = Locked(row) /\ meta'[h] = row
        BY <3>3, <3>5 DEF EncodedFrom
      <3>6. CASE req[u].op = "put" /\ meta'[h] = Live(req[u].frag)
        BY <3>1, <3>6 DEF EncodedFrom, Live
      <3> QED
        BY <3>1, <3>2, <3>4, <3>5, <3>6
    <2> QED
      BY <2>1, <2>2
  <1>5. ASSUME NEW t \in Task, req'[t].op = "put", req'[t].key.hash = h
        PROVE  req'[t].frag \in Encodings(h)
    <2>1. PICK r : r = req'[t]
      OBVIOUS
    <2>2. r = req[t] \/ r \in Requests
      BY <1>5, <2>1, NewRequests
    <2>3. r.frag \in Encodings(h)
      BY <1>5, <2>1, <2>2, RequestEncoded DEF EncodedFrom
    <2> QED
      BY <2>1, <2>3
  <1>6. Encodings(h)' = Encodings(h)
    BY DEF Encodings
  <1> QED
    BY <1>2, <1>3, <1>4, <1>5, <1>6 DEF EncodedFrom

LEMMA EncodedNext == TypeInv /\ StoredInv /\ EncodingInv /\ [Next]_vars => EncodingInv'
  BY EncodedStep DEF EncodingInv, StoredInv

\* One encoding of h, as far as a reader can tell them apart: a payload stored in one of
\* them is the size that a row written in any of them says.
SameSize(h) == \A e, f \in Encodings(h) : SizeMatches(e, f)

OneEncoding == \A h \in Hash : SameSize(h)

\* A put whose hash has one encoding and is not deleted can be loaded once acknowledged.
LoadsOnceAcked(t) ==
  /\ Done(t, "put") /\ res[t] = "ok"
  /\ ~ObliterateAsked(req[t].key.hash) /\ SameSize(req[t].key.hash)
  => /\ req[t].key \in assoc
     /\ LoadResult(meta[req[t].key.hash], s3[req[t].key.hash]) = "ok"

LEMMA AckedLoads ==
  ASSUME TypeInv, StoredInv, EncodingInv, AckedAssociationStays, AssocHasMetadata,
         NEW t \in Task
  PROVE  LoadsOnceAcked(t)
  <1> SUFFICES ASSUME Done(t, "put"), res[t] = "ok",
                      ~ObliterateAsked(req[t].key.hash), SameSize(req[t].key.hash)
               PROVE  /\ req[t].key \in assoc
                      /\ LoadResult(meta[req[t].key.hash], s3[req[t].key.hash]) = "ok"
    BY DEF LoadsOnceAcked
  <1>1. ~Condemned(req[t].key)
    BY DEF Condemned, ObliterateAsked
  <1>2. req[t].key \in assoc
    BY <1>1 DEF AckedAssociationStays
  <1>3. PICK h \in Hash : h = req[t].key.hash
    BY <1>2, Shapes DEF TypeInv, TypeOK
  <1>4. meta[h] # NoRow
    BY <1>2, <1>3 DEF AssocHasMetadata
  <1>5. meta[h].obl = "none" /\ s3[h] # NoFrag
    BY <1>3, <1>4 DEF StoredInv, StoredFirst
  <1>6. meta[h] # Tombstone /\ ~Obliteration(meta[h])
    BY <1>5 DEF Tombstone, Obliteration
  <1>7. meta[h].frag \in Encodings(h) /\ s3[h] \in Encodings(h)
    BY <1>4, <1>5, <1>6 DEF EncodingInv, EncodedFrom
  <1>8. SizeMatches(s3[h], meta[h].frag)
    BY <1>3, <1>7 DEF SameSize
  <1> QED
    BY <1>2, <1>3, <1>4, <1>5, <1>6, <1>8 DEF LoadResult

\* For any workload and any faults: an acknowledged put can be loaded at once, and for as
\* long as nobody asks to obliterate its hash, whatever becomes of the other hashes.
THEOREM AckedPutLoadsByHash == Spec => [](\A t \in Task : LoadsOnceAcked(t))
  <1>1. /\ TypeInv /\ StoredInv /\ EncodingInv /\ AckedAssociationStays /\ AssocHasMetadata
        => \A t \in Task : LoadsOnceAcked(t)
    BY AckedLoads
  <1> QED
    BY TypeInit, TypeNext, StoredInit, StoredNext, EncodedInit, EncodedNext,
       AckedAssociationSafe, IndexComplete, <1>1, PTL DEF Spec

\* AckedPutReadable for every workload without obliterates that keeps to one encoding per
\* hash, and any faults: uploads that fail, time out or arrive late included.
THEOREM AckedPutLoads ==
  ASSUME WithoutObliterates, OneEncoding
  PROVE  Spec => []AckedPutReadable
  <1>1. TypeInv /\ NobodyObliterates /\ [Next]_vars => NobodyObliterates'
    BY NobodyObliteratesNext
  <1>2. /\ TypeInv /\ NobodyObliterates /\ \A t \in Task : LoadsOnceAcked(t)
        => AckedPutReadable
    <2> SUFFICES ASSUME TypeInv, NobodyObliterates, NEW t \in Task, LoadsOnceAcked(t),
                        Done(t, "put"), res[t] = "ok"
                 PROVE  /\ req[t].key \in assoc
                        /\ LoadResult(meta[req[t].key.hash], s3[req[t].key.hash]) = "ok"
      BY DEF AckedPutReadable
    <2>1. req[t] \in PutRequest
      BY RequestShape DEF Done, TypeInv, TypeOK, NoRequest
    <2>2. req[t].key.hash \in Hash
      BY <2>1, Shapes
    <2>3. ~ObliterateAsked(req[t].key.hash) /\ SameSize(req[t].key.hash)
      BY <2>2 DEF NobodyObliterates, ObliterateAsked, OneEncoding
    <2> QED
      BY <2>3 DEF LoadsOnceAcked
  <1> QED
    BY TypeInit, TypeNext, NobodyObliteratesInit, AckedPutLoadsByHash, <1>1, <1>2, PTL
    DEF Spec
=============================================================================
