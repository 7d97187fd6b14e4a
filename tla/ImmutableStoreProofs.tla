------------------------ MODULE ImmutableStoreProofs ------------------------
(* Theorems about ImmutableStore, for every set of tasks, every workload,  *)
(* every initial content and any number of faults.                         *)
EXTENDS ImmutableStore, TLAPS

PutLabel == {"put_check", "put_s3", "put_upsert", "put_associate", "commit_new",
             "commit_existing"}
ObliterateLabel == {"obl_load", "obl_lock", "obl_read", "obl_join", "obl_unassoc",
                    "obl_count", "obl_restore", "obl_payload", "obl_tomb"}

\* The label a task is at tells which operation it serves.
Control ==
  \A t \in Task :
    /\ pc[t] \in PutLabel => req[t] \in PutRequest
    /\ pc[t] \in {"copy_check", "copy_associate"} => req[t] \in CopyRequest
    /\ pc[t] \in ObliterateLabel => req[t] \in KeyRequest /\ req[t].op = "obliterate"
    /\ pc[t] \in {"get", "gm_load"} => req[t] \in KeyRequest
    /\ pc[t] \in {"resolve", "resolve_row"} => req[t] \in Request

TypeInv == TypeOK /\ Control

\* The parts of TypeOK, by what a step touches.
StoreTyped ==
  /\ meta \in [Hash -> Row]
  /\ assoc \subseteq Key
  /\ s3 \in [Hash -> Frag \cup {NoFrag}]
  /\ late \subseteq [hash: Hash, frag: Frag \cup {NoFrag}]
Result == {"none", "ok", "err", "lost", "not_found", "no_match", "skipped"}
ControlTyped ==
  /\ pc \in [Task -> Label]
  /\ res \in [Task -> Result]
  /\ faults \in Nat
View == [done: SUBSET {"exists", "row", "object"}, row: Row, object: Frag \cup {NoFrag}]
LocalTyped ==
  /\ orig \in [Task -> Row]
  /\ seen \in [Task -> View]
  /\ hits \in [Task -> Seq(BOOLEAN)]
  /\ parent \in [Task -> Task]
RequestTyped == req \in [Task -> Request \cup {NoRequest}]

\* TypeOK is the conjunction of its parts, before a step ...
LEMMA TypeParts == TypeOK <=> StoreTyped /\ ControlTyped /\ LocalTyped /\ RequestTyped
  BY DEF TypeOK, StoreTyped, Result, ControlTyped, View, LocalTyped, RequestTyped

\* ... and after it.
LEMMA TypePartsNext == TypeOK' <=> StoreTyped' /\ ControlTyped' /\ LocalTyped' /\ RequestTyped'
  BY DEF TypeOK, StoreTyped, Result, ControlTyped, View, LocalTyped, RequestTyped

\* Going to a label, returning a result, losing a reply and retrying a call all keep the
\* control typed.
LEMMA Moves ==
  ASSUME ControlTyped, NEW t \in Task, NEW l \in Label, NEW r \in Result
  PROVE  /\ GotoOrLose(t, l) => ControlTyped'
         /\ ReturnOrLose(t, r) => ControlTyped'
         /\ Retried(t, l) => ControlTyped'
  BY DEF ControlTyped, Label, Result, Goto, Return, LostReply, GotoOrLose, ReturnOrLose, Retried

\* What an S3 write does to the store and to the task that makes it.
LEMMA S3WriteEffect ==
  ASSUME StoreTyped, ControlTyped, NEW t \in Task, req[t].key.hash \in Hash,
         NEW f \in Frag \cup {NoFrag}, NEW l \in Label, S3Write(t, f, l)
  PROVE  /\ s3' \in [Hash -> Frag \cup {NoFrag}]
         /\ late' \subseteq [hash: Hash, frag: Frag \cup {NoFrag}]
         /\ s3' = s3 \/ s3' = [s3 EXCEPT ![req[t].key.hash] = f]
         /\ late' \subseteq late \cup {[hash |-> req[t].key.hash, frag |-> f]}
         /\ GotoOrLose(t, l) \/ Retried(t, l)
  <1> DEFINE h == req[t].key.hash
             w == [hash |-> h, frag |-> f]
  <1>1. /\ s3' = s3 \/ s3' = [s3 EXCEPT ![h] = f]
        /\ late' = late \/ late' = late \cup {w}
        /\ GotoOrLose(t, l) \/ Retried(t, l)
    BY DEF S3Write, GotoOrLose
  <1>2. w \in [hash: Hash, frag: Frag \cup {NoFrag}]
    OBVIOUS
  <1>3. s3' \in [Hash -> Frag \cup {NoFrag}]
    BY <1>1 DEF StoreTyped
  <1> HIDE DEF w
  <1>4. late' \subseteq [hash: Hash, frag: Frag \cup {NoFrag}] /\ late' \subseteq late \cup {w}
    BY <1>1, <1>2 DEF StoreTyped
  <1> QED
    BY <1>1, <1>3, <1>4 DEF w

\* An S3 write takes the task to its next await or ends it.
LEMMA S3WriteMoves ==
  ASSUME NEW t, NEW f, NEW l, S3Write(t, f, l)
  PROVE  \E m \in {l, "done"} : pc' = [pc EXCEPT ![t] = m]
  BY DEF S3Write, Goto, LostReply, Retried

\* A request of a given operation is a record of that operation's shape.
LEMMA RequestShape ==
  ASSUME NEW r \in Request
  PROVE  /\ r.op = "put" => r \in PutRequest
         /\ r.op = "copy" => r \in CopyRequest
         /\ r.op \in {"get", "get_metadata", "obliterate"} => r \in KeyRequest
         /\ r.op = "query" => r \in QueryRequest
         /\ r.op \in {"put", "copy", "get", "get_metadata", "obliterate", "query"}
  BY DEF Request, PutRequest, KeyRequest, QueryRequest, CopyRequest

\* The initial state is well typed, whatever the corpus.
LEMMA TypeInit == Init => TypeInv
  <1> SUFFICES ASSUME Init PROVE TypeInv
    OBVIOUS
  <1>1. TypeOK
    BY InitAssumption DEF Init, TypeOK, Row, NoRow, Live, Label, Unseen
  <1>2. Control
    BY DEF Init, Control, PutLabel, ObliterateLabel
  <1> QED
    BY <1>1, <1>2 DEF TypeInv

\* A request that starts finds a label of its own operation.
LEMMA TypeBegin ==
  ASSUME TypeInv, NEW t \in Task, Begin(t)
  PROVE  TypeInv'
  <1>1. PICK r \in Requests :
          /\ req' = [req EXCEPT ![t] = r]
          /\ \/ r.op = "obliterate" /\ Goto(t, "obl_load")
             \/ r.op = "copy" /\ Goto(t, "copy_check")
             \/ r.op = "get" /\ Goto(t, "get")
             \/ r.op \in {"put", "query", "get_metadata"} /\ Goto(t, "resolve")
    BY DEF Begin
  <1>2. r \in Request
    BY RequestAssumption
  <1>3. UNCHANGED <<store, local>>
    BY DEF Begin
  <1>4. TypeOK'
    <2>1. StoreTyped /\ ControlTyped /\ LocalTyped /\ RequestTyped
      BY TypeParts DEF TypeInv
    <2>2. StoreTyped' /\ LocalTyped'
      BY <1>3, <2>1 DEF StoreTyped, LocalTyped, store, local
    <2>3. ControlTyped'
      BY <1>1, <2>1 DEF ControlTyped, Goto, Label
    <2>4. RequestTyped'
      BY <1>1, <1>2, <2>1 DEF RequestTyped
    <2> QED
      BY <2>2, <2>3, <2>4, TypePartsNext
  <1>5. Control'
    <2>1. /\ r.op = "obliterate" => r \in KeyRequest
          /\ r.op = "copy" => r \in CopyRequest
          /\ r.op = "get" => r \in KeyRequest
      BY <1>2, RequestShape
    <2>2. \E l \in {"obl_load", "copy_check", "get", "resolve"} :
            /\ pc' = [pc EXCEPT ![t] = l]
            /\ l = "obl_load" => r \in KeyRequest /\ r.op = "obliterate"
            /\ l = "copy_check" => r \in CopyRequest
            /\ l = "get" => r \in KeyRequest
      BY <1>1, <2>1 DEF Goto
    <2>3. req' = [req EXCEPT ![t] = r]
      BY <1>1
    <2> QED
      BY <1>2, <2>2, <2>3 DEF TypeInv, TypeOK, Control, PutLabel, ObliterateLabel
  <1> QED
    BY <1>4, <1>5 DEF TypeInv

\* What a request, a row or an address is made of.
LEMMA Shapes ==
  /\ \A k \in Key : k.hash \in Hash
  /\ \A r \in PutRequest : r.key \in Key /\ r.frag \in Frag /\ r.payload \in BOOLEAN
  /\ \A r \in KeyRequest : r.key \in Key
  /\ \A r \in CopyRequest : r.key \in Key /\ r.src \in Key /\ r.key.hash = r.src.hash
  /\ \A f \in Frag : Live(f) \in Row
  /\ \A row \in Row : Locked(row) \in Row
  /\ NoRow \in Row /\ Tombstone \in Row
  BY DEF Key, PutRequest, KeyRequest, CopyRequest, Live, Row, Locked, NoRow, Tombstone

\* A put on a full match only reads.
LEMMA TypePutCheck ==
  ASSUME TypeInv, NEW t \in Task, PutCheck(t)
  PROVE  TypeInv'
  <1>1. StoreTyped /\ ControlTyped /\ LocalTyped /\ RequestTyped
    BY TypeParts DEF TypeInv
  <1>2. ControlTyped'
    BY <1>1 DEF PutCheck, ControlTyped, Label, Result, Goto, Return
  <1>3. StoreTyped' /\ LocalTyped' /\ RequestTyped'
    BY <1>1 DEF PutCheck, StoreTyped, LocalTyped, RequestTyped, store, local
  <1>4. Control'
    BY <1>1 DEF PutCheck, TypeInv, Control, ControlTyped, PutLabel, ObliterateLabel, Goto, Return
  <1> QED
    BY <1>2, <1>3, <1>4, TypePartsNext DEF TypeInv

\* The object of a put is an encoding.
LEMMA TypePutObject ==
  ASSUME TypeInv, NEW t \in Task, PutObject(t)
  PROVE  TypeInv'
  <1>1. req[t] \in PutRequest
    BY DEF TypeInv, Control, PutObject, PutLabel, ObliterateLabel
  <1>2. req[t].key \in Key /\ req[t].key.hash \in Hash
    BY <1>1, Shapes
  <1>3. StoreTyped /\ ControlTyped /\ LocalTyped /\ RequestTyped
    BY TypeParts DEF TypeInv
  <1>4. /\ s3' \in [Hash -> Frag \cup {NoFrag}]
        /\ late' \subseteq [hash: Hash, frag: Frag \cup {NoFrag}]
        /\ GotoOrLose(t, "put_upsert") \/ Retried(t, "put_upsert")
    <2>1. req[t].frag \in Frag \cup {NoFrag} /\ "put_upsert" \in Label
      BY <1>1, Shapes DEF Label
    <2>2. S3Write(t, req[t].frag, "put_upsert")
      BY DEF PutObject
    <2> QED
      BY <1>2, <1>3, <2>1, <2>2, S3WriteEffect
  <1>5. ControlTyped' /\ StoreTyped'
    <2>1. ControlTyped'
      BY <1>3, <1>4, Moves DEF Label, Result
    <2>2. StoreTyped'
      BY <1>3, <1>4 DEF PutObject, StoreTyped
    <2> QED
      BY <2>1, <2>2
  <1>6. LocalTyped'
    BY <1>1, <1>2, <1>3, Shapes DEF PutObject, LocalTyped, local
  <1>7. RequestTyped'
    BY <1>3 DEF PutObject, RequestTyped
  <1>8. Control'
    <2>1. \E l \in {"put_upsert", "done"} : pc' = [pc EXCEPT ![t] = l]
      BY <1>4 DEF GotoOrLose, Goto, LostReply, Retried
    <2>2. UNCHANGED req
      BY DEF PutObject
    <2>3. pc[t] = "put_s3"
      BY DEF PutObject
    <2> QED
      BY <1>1, <1>3, <2>1, <2>2, <2>3
      DEF TypeInv, Control, ControlTyped, PutLabel, ObliterateLabel
  <1> QED
    BY <1>5, <1>6, <1>7, <1>8, TypePartsNext DEF TypeInv

\* The upsert of a put changes no committed row.
LEMMA TypePutUpsert ==
  ASSUME TypeInv, NEW t \in Task, PutUpsert(t)
  PROVE  TypeInv'
  <1>1. StoreTyped /\ ControlTyped /\ LocalTyped /\ RequestTyped
    BY TypeParts DEF TypeInv
  <1>2. ControlTyped'
    BY <1>1 DEF PutUpsert, ControlTyped, Label, Result, Goto, Return
  <1>3. StoreTyped' /\ LocalTyped' /\ RequestTyped'
    BY <1>1 DEF PutUpsert, StoreTyped, LocalTyped, RequestTyped, store, local
  <1>4. Control'
    BY <1>1 DEF PutUpsert, TypeInv, Control, ControlTyped, PutLabel, ObliterateLabel, Goto, Return
  <1> QED
    BY <1>2, <1>3, <1>4, TypePartsNext DEF TypeInv

\* Neither does its insert.
LEMMA TypePutAssociate ==
  ASSUME TypeInv, NEW t \in Task, PutAssociate(t)
  PROVE  TypeInv'
  <1>1. StoreTyped /\ ControlTyped /\ LocalTyped /\ RequestTyped
    BY TypeParts DEF TypeInv
  <1>2. ControlTyped'
    BY <1>1 DEF PutAssociate, ControlTyped, Label, Result, Goto, Return
  <1>3. StoreTyped' /\ LocalTyped' /\ RequestTyped'
    BY <1>1 DEF PutAssociate, StoreTyped, LocalTyped, RequestTyped, store, local
  <1>4. Control'
    BY <1>1 DEF PutAssociate, TypeInv, Control, ControlTyped, PutLabel, ObliterateLabel, Goto, Return
  <1> QED
    BY <1>2, <1>3, <1>4, TypePartsNext DEF TypeInv

\* The commit of a put writes a live row and a key.
LEMMA TypePutCommit ==
  ASSUME TypeInv, NEW t \in Task, PutCommit(t)
  PROVE  TypeInv'
  <1>1. req[t] \in PutRequest
    BY DEF TypeInv, Control, PutCommit, PutLabel, ObliterateLabel
  <1>2. req[t].key \in Key /\ req[t].key.hash \in Hash
    BY <1>1, Shapes
  <1>3. StoreTyped /\ ControlTyped /\ LocalTyped /\ RequestTyped
    BY TypeParts DEF TypeInv
  <1>4. ControlTyped'
    BY <1>3, Moves DEF PutCommit, Label, Result
  <1>5. StoreTyped'
    BY <1>1, <1>2, <1>3, Shapes DEF PutCommit, StoreTyped, store
  <1>6. LocalTyped'
    BY <1>1, <1>2, <1>3, Shapes DEF PutCommit, LocalTyped, local
  <1>7. RequestTyped'
    BY <1>3 DEF PutCommit, RequestTyped
  <1>8. Control'
    BY <1>3 DEF PutCommit, TypeInv, Control, ControlTyped, PutLabel, ObliterateLabel, Goto, Return,
                LostReply, GotoOrLose, ReturnOrLose
  <1> QED
    BY <1>4, <1>5, <1>6, <1>7, <1>8, TypePartsNext DEF TypeInv

\* A copy first only reads.
LEMMA TypeCopyCheck ==
  ASSUME TypeInv, NEW t \in Task, CopyCheck(t)
  PROVE  TypeInv'
  <1>1. StoreTyped /\ ControlTyped /\ LocalTyped /\ RequestTyped
    BY TypeParts DEF TypeInv
  <1>2. ControlTyped'
    BY <1>1 DEF CopyCheck, ControlTyped, Label, Result, Goto, Return
  <1>3. StoreTyped' /\ LocalTyped' /\ RequestTyped'
    BY <1>1 DEF CopyCheck, StoreTyped, LocalTyped, RequestTyped, store, local
  <1>4. Control'
    BY <1>1 DEF CopyCheck, TypeInv, Control, ControlTyped, PutLabel, ObliterateLabel, Goto, Return
  <1> QED
    BY <1>2, <1>3, <1>4, TypePartsNext DEF TypeInv

\* A copy adds a key.
LEMMA TypeCopyAssociate ==
  ASSUME TypeInv, NEW t \in Task, CopyAssociate(t)
  PROVE  TypeInv'
  <1>1. req[t] \in CopyRequest
    BY DEF TypeInv, Control, CopyAssociate, PutLabel, ObliterateLabel
  <1>2. req[t].key \in Key /\ req[t].key.hash \in Hash
    BY <1>1, Shapes
  <1>3. StoreTyped /\ ControlTyped /\ LocalTyped /\ RequestTyped
    BY TypeParts DEF TypeInv
  <1>4. ControlTyped'
    BY <1>3, Moves DEF CopyAssociate, Label, Result
  <1>5. StoreTyped'
    BY <1>1, <1>2, <1>3, Shapes DEF CopyAssociate, StoreTyped, store
  <1>6. LocalTyped'
    BY <1>1, <1>2, <1>3, Shapes DEF CopyAssociate, LocalTyped, local
  <1>7. RequestTyped'
    BY <1>3 DEF CopyAssociate, RequestTyped
  <1>8. Control'
    BY <1>3 DEF CopyAssociate, TypeInv, Control, ControlTyped, PutLabel, ObliterateLabel, Goto, Return,
                LostReply, GotoOrLose, ReturnOrLose
  <1> QED
    BY <1>4, <1>5, <1>6, <1>7, <1>8, TypePartsNext DEF TypeInv

\* get_metadata only reads.
LEMMA TypeGetMetadataLoad ==
  ASSUME TypeInv, NEW t \in Task, GetMetadataLoad(t)
  PROVE  TypeInv'
  <1>1. StoreTyped /\ ControlTyped /\ LocalTyped /\ RequestTyped
    BY TypeParts DEF TypeInv
  <1>2. ControlTyped'
    BY <1>1 DEF GetMetadataLoad, ControlTyped, Label, Result, Goto, Return
  <1>3. StoreTyped' /\ LocalTyped' /\ RequestTyped'
    BY <1>1 DEF GetMetadataLoad, StoreTyped, LocalTyped, RequestTyped, store, local
  <1>4. Control'
    BY <1>1 DEF GetMetadataLoad, TypeInv, Control, ControlTyped, PutLabel, ObliterateLabel, Goto, Return
  <1> QED
    BY <1>2, <1>3, <1>4, TypePartsNext DEF TypeInv

\* A get records that it saw the association.
LEMMA TypeGetExists ==
  ASSUME TypeInv, NEW t \in Task, GetExists(t)
  PROVE  TypeInv'
  <1>1. req[t] \in KeyRequest
    <2>1. pc[t] \in {"get", "gm_load"}
      BY DEF GetExists
    <2> QED
      BY <2>1, Zenon DEF TypeInv, Control
  <1>2. req[t].key \in Key /\ req[t].key.hash \in Hash
    BY <1>1, Shapes
  <1>3. StoreTyped /\ ControlTyped /\ LocalTyped /\ RequestTyped
    BY TypeParts DEF TypeInv
  <1>4. ControlTyped'
    BY <1>3, Moves DEF GetExists, Label, Result, ControlTyped, Return
  <1>5. StoreTyped'
    BY <1>1, <1>2, <1>3, Shapes DEF GetExists, StoreTyped, store
  <1>6. LocalTyped'
    <2>1. seen[t] \in View
      BY <1>3 DEF LocalTyped
    <2>2. Read(t, "exists") \in View
      BY <2>1 DEF Read, View
    <2>3. seen' = seen \/ seen' = [seen EXCEPT ![t] = Read(t, "exists")]
      BY DEF GetExists
    <2>4. UNCHANGED <<orig, hits, parent>>
      BY DEF GetExists
    <2> QED
      BY <1>3, <2>2, <2>3, <2>4 DEF LocalTyped
  <1>7. RequestTyped'
    BY <1>3 DEF GetExists, RequestTyped
  <1>8. Control'
    BY <1>3 DEF GetExists, TypeInv, Control, ControlTyped, PutLabel, ObliterateLabel, Goto, Return,
                LostReply, GotoOrLose, ReturnOrLose
  <1> QED
    BY <1>4, <1>5, <1>6, <1>7, <1>8, TypePartsNext DEF TypeInv

\* A get records the row.
LEMMA TypeGetRow ==
  ASSUME TypeInv, NEW t \in Task, GetRow(t)
  PROVE  TypeInv'
  <1>1. req[t] \in KeyRequest
    <2>1. pc[t] \in {"get", "gm_load"}
      BY DEF GetRow
    <2> QED
      BY <2>1, Zenon DEF TypeInv, Control
  <1>2. req[t].key \in Key /\ req[t].key.hash \in Hash
    BY <1>1, Shapes
  <1>3. StoreTyped /\ ControlTyped /\ LocalTyped /\ RequestTyped
    BY TypeParts DEF TypeInv
  <1>4. ControlTyped'
    BY <1>3, Moves DEF GetRow, Label, Result, ControlTyped
  <1>5. StoreTyped'
    BY <1>1, <1>2, <1>3, Shapes DEF GetRow, StoreTyped, store
  <1>6. LocalTyped'
    <2>1. seen[t] \in View
      BY <1>3 DEF LocalTyped
    <2>2. Read(t, "row") \in View
      BY <2>1 DEF Read, View
    <2>3. meta[req[t].key.hash] \in Row
      BY <1>2, <1>3 DEF StoreTyped
    <2> DEFINE new == [Read(t, "row") EXCEPT !.row = meta[req[t].key.hash]]
    <2>4. new \in View
      BY <2>2, <2>3 DEF View
    <2>5. seen' = [seen EXCEPT ![t] = new] /\ UNCHANGED <<orig, hits, parent>>
      BY DEF GetRow
    <2> HIDE DEF new
    <2> QED
      BY <1>3, <2>4, <2>5 DEF LocalTyped
  <1>7. RequestTyped'
    BY <1>3 DEF GetRow, RequestTyped
  <1>8. Control'
    BY <1>3 DEF GetRow, TypeInv, Control, ControlTyped, PutLabel, ObliterateLabel, Goto, Return,
                LostReply, GotoOrLose, ReturnOrLose
  <1> QED
    BY <1>4, <1>5, <1>6, <1>7, <1>8, TypePartsNext DEF TypeInv

\* A get records the object.
LEMMA TypeGetObject ==
  ASSUME TypeInv, NEW t \in Task, GetObject(t)
  PROVE  TypeInv'
  <1>1. req[t] \in KeyRequest
    <2>1. pc[t] \in {"get", "gm_load"}
      BY DEF GetObject
    <2> QED
      BY <2>1, Zenon DEF TypeInv, Control
  <1>2. req[t].key \in Key /\ req[t].key.hash \in Hash
    BY <1>1, Shapes
  <1>3. StoreTyped /\ ControlTyped /\ LocalTyped /\ RequestTyped
    BY TypeParts DEF TypeInv
  <1>4. ControlTyped'
    BY <1>3, Moves DEF GetObject, Label, Result, ControlTyped
  <1>5. StoreTyped'
    BY <1>1, <1>2, <1>3, Shapes DEF GetObject, StoreTyped, store
  <1>6. LocalTyped'
    <2>1. seen[t] \in View
      BY <1>3 DEF LocalTyped
    <2>2. Read(t, "object") \in View
      BY <2>1 DEF Read, View
    <2>3. s3[req[t].key.hash] \in Frag \cup {NoFrag}
      BY <1>2, <1>3 DEF StoreTyped
    <2> DEFINE new == [Read(t, "object") EXCEPT !.object = s3[req[t].key.hash]]
    <2>4. new \in View
      BY <2>2, <2>3 DEF View
    <2>5. seen' = [seen EXCEPT ![t] = new] /\ UNCHANGED <<orig, hits, parent>>
      BY DEF GetObject
    <2> HIDE DEF new
    <2> QED
      BY <1>3, <2>4, <2>5 DEF LocalTyped
  <1>7. RequestTyped'
    BY <1>3 DEF GetObject, RequestTyped
  <1>8. Control'
    BY <1>3 DEF GetObject, TypeInv, Control, ControlTyped, PutLabel, ObliterateLabel, Goto, Return,
                LostReply, GotoOrLose, ReturnOrLose
  <1> QED
    BY <1>4, <1>5, <1>6, <1>7, <1>8, TypePartsNext DEF TypeInv

\* A get ends with one of its results.
LEMMA TypeGetDone ==
  ASSUME TypeInv, NEW t \in Task, GetDone(t)
  PROVE  TypeInv'
  <1>1. StoreTyped /\ ControlTyped /\ LocalTyped /\ RequestTyped
    BY TypeParts DEF TypeInv
  <1>2. ControlTyped'
    BY <1>1 DEF GetDone, ControlTyped, Label, Result, Goto, Return, LoadResult
  <1>3. StoreTyped' /\ LocalTyped' /\ RequestTyped'
    BY <1>1 DEF GetDone, StoreTyped, LocalTyped, RequestTyped, store, local
  <1>4. Control'
    BY <1>1 DEF GetDone, TypeInv, Control, ControlTyped, PutLabel, ObliterateLabel, Goto, Return
  <1> QED
    BY <1>2, <1>3, <1>4, TypePartsNext DEF TypeInv

\* An obliterate keeps the row it loaded.
LEMMA TypeOblLoad ==
  ASSUME TypeInv, NEW t \in Task, OblLoad(t)
  PROVE  TypeInv'
  <1>1. req[t] \in KeyRequest
    BY DEF TypeInv, Control, OblLoad, PutLabel, ObliterateLabel
  <1>2. req[t].key \in Key /\ req[t].key.hash \in Hash
    BY <1>1, Shapes
  <1>3. StoreTyped /\ ControlTyped /\ LocalTyped /\ RequestTyped
    BY TypeParts DEF TypeInv
  <1>4. ControlTyped'
    <2>1. \/ Goto(t, "obl_lock")
          \/ \E r \in {"not_found", "skipped"} : Return(t, r)
      BY DEF OblLoad
    <2> QED
      BY <1>3, <2>1 DEF ControlTyped, Label, Result, Goto, Return
  <1>5. StoreTyped'
    BY <1>1, <1>2, <1>3, Shapes DEF OblLoad, StoreTyped, store
  <1>6. LocalTyped'
    <2>1. meta[req[t].key.hash] \in Row
      BY <1>2, <1>3 DEF StoreTyped
    <2>2. /\ orig' = orig \/ orig' = [orig EXCEPT ![t] = meta[req[t].key.hash]]
          /\ UNCHANGED <<seen, hits, parent>>
      BY DEF OblLoad
    <2> QED
      BY <1>3, <2>1, <2>2 DEF LocalTyped
  <1>7. RequestTyped'
    BY <1>3 DEF OblLoad, RequestTyped
  <1>8. Control'
    BY <1>3 DEF OblLoad, TypeInv, Control, ControlTyped, PutLabel, ObliterateLabel, Goto, Return,
                LostReply, GotoOrLose, ReturnOrLose
  <1> QED
    BY <1>4, <1>5, <1>6, <1>7, <1>8, TypePartsNext DEF TypeInv

\* Locking a row keeps it a row.
LEMMA TypeOblLock ==
  ASSUME TypeInv, NEW t \in Task, OblLock(t)
  PROVE  TypeInv'
  <1>1. req[t] \in KeyRequest
    BY DEF TypeInv, Control, OblLock, PutLabel, ObliterateLabel
  <1>2. req[t].key \in Key /\ req[t].key.hash \in Hash
    BY <1>1, Shapes
  <1>3. StoreTyped /\ ControlTyped /\ LocalTyped /\ RequestTyped
    BY TypeParts DEF TypeInv
  <1>4. ControlTyped'
    <2>1. \/ \E l \in {"obl_read", "obl_unassoc"} : GotoOrLose(t, l)
          \/ Return(t, "err")
      BY DEF OblLock
    <2>2. CASE Return(t, "err")
      BY <1>3, <2>2, Moves DEF ReturnOrLose, Label, Result
    <2> QED
      BY <1>3, <2>1, <2>2, Moves DEF Label, Result
  <1>5. StoreTyped'
    <2>1. orig[t] \in Row
      BY <1>3 DEF LocalTyped
    <2>2. Locked(orig[t]) \in Row
      BY <2>1, Shapes
    <2>3. meta' = meta \/ meta' = [meta EXCEPT ![req[t].key.hash] = Locked(orig[t])]
      BY DEF OblLock, CAS
    <2>4. UNCHANGED <<assoc, s3, late>>
      BY DEF OblLock
    <2> QED
      BY <1>3, <2>2, <2>3, <2>4 DEF StoreTyped
  <1>6. LocalTyped'
    BY <1>1, <1>2, <1>3, Shapes DEF OblLock, LocalTyped, local
  <1>7. RequestTyped'
    BY <1>3 DEF OblLock, RequestTyped
  <1>8. Control'
    BY <1>3 DEF OblLock, TypeInv, Control, ControlTyped, PutLabel, ObliterateLabel, Goto, Return,
                LostReply, GotoOrLose, ReturnOrLose
  <1> QED
    BY <1>4, <1>5, <1>6, <1>7, <1>8, TypePartsNext DEF TypeInv

\* Joining the children only reads.
LEMMA TypeOblJoin ==
  ASSUME TypeInv, NEW t \in Task, OblJoin(t)
  PROVE  TypeInv'
  <1>1. StoreTyped /\ ControlTyped /\ LocalTyped /\ RequestTyped
    BY TypeParts DEF TypeInv
  <1>2. ControlTyped'
    BY <1>1 DEF OblJoin, ControlTyped, Label, Result, Goto, Return
  <1>3. StoreTyped' /\ LocalTyped' /\ RequestTyped'
    BY <1>1 DEF OblJoin, StoreTyped, LocalTyped, RequestTyped, store, local
  <1>4. Control'
    BY <1>1 DEF OblJoin, TypeInv, Control, ControlTyped, PutLabel, ObliterateLabel, Goto, Return
  <1> QED
    BY <1>2, <1>3, <1>4, TypePartsNext DEF TypeInv

\* Deleting an association leaves keys.
LEMMA TypeOblUnassociate ==
  ASSUME TypeInv, NEW t \in Task, OblUnassociate(t)
  PROVE  TypeInv'
  <1>1. req[t] \in KeyRequest
    BY DEF TypeInv, Control, OblUnassociate, PutLabel, ObliterateLabel
  <1>2. req[t].key \in Key /\ req[t].key.hash \in Hash
    BY <1>1, Shapes
  <1>3. StoreTyped /\ ControlTyped /\ LocalTyped /\ RequestTyped
    BY TypeParts DEF TypeInv
  <1>4. ControlTyped'
    BY <1>3, Moves DEF OblUnassociate, Label, Result
  <1>5. StoreTyped'
    BY <1>1, <1>2, <1>3, Shapes DEF OblUnassociate, StoreTyped, store
  <1>6. LocalTyped'
    BY <1>1, <1>2, <1>3, Shapes DEF OblUnassociate, LocalTyped, local
  <1>7. RequestTyped'
    BY <1>3 DEF OblUnassociate, RequestTyped
  <1>8. Control'
    BY <1>3 DEF OblUnassociate, TypeInv, Control, ControlTyped, PutLabel, ObliterateLabel, Goto, Return,
                LostReply, GotoOrLose, ReturnOrLose
  <1> QED
    BY <1>4, <1>5, <1>6, <1>7, <1>8, TypePartsNext DEF TypeInv

\* Counting associations only reads.
LEMMA TypeOblCount ==
  ASSUME TypeInv, NEW t \in Task, OblCount(t)
  PROVE  TypeInv'
  <1>1. StoreTyped /\ ControlTyped /\ LocalTyped /\ RequestTyped
    BY TypeParts DEF TypeInv
  <1>2. ControlTyped'
    BY <1>1 DEF OblCount, ControlTyped, Label, Result, Goto, Return
  <1>3. StoreTyped' /\ LocalTyped' /\ RequestTyped'
    BY <1>1 DEF OblCount, StoreTyped, LocalTyped, RequestTyped, store, local
  <1>4. Control'
    BY <1>1 DEF OblCount, TypeInv, Control, ControlTyped, PutLabel, ObliterateLabel, Goto, Return
  <1> QED
    BY <1>2, <1>3, <1>4, TypePartsNext DEF TypeInv

\* Restoring a row writes the row that was loaded.
LEMMA TypeOblRestore ==
  ASSUME TypeInv, NEW t \in Task, OblRestore(t)
  PROVE  TypeInv'
  <1>1. req[t] \in KeyRequest
    BY DEF TypeInv, Control, OblRestore, PutLabel, ObliterateLabel
  <1>2. req[t].key \in Key /\ req[t].key.hash \in Hash
    BY <1>1, Shapes
  <1>3. StoreTyped /\ ControlTyped /\ LocalTyped /\ RequestTyped
    BY TypeParts DEF TypeInv
  <1>4. ControlTyped'
    BY <1>3, Moves DEF OblRestore, Label, Result
  <1>5. StoreTyped'
    <2>1. orig[t] \in Row
      BY <1>3 DEF LocalTyped
    <2>2. orig[t] \in Row
      BY <2>1, Shapes
    <2>3. meta' = meta \/ meta' = [meta EXCEPT ![req[t].key.hash] = orig[t]]
      BY DEF OblRestore, CAS
    <2>4. UNCHANGED <<assoc, s3, late>>
      BY DEF OblRestore
    <2> QED
      BY <1>3, <2>2, <2>3, <2>4 DEF StoreTyped
  <1>6. LocalTyped'
    BY <1>1, <1>2, <1>3, Shapes DEF OblRestore, LocalTyped, local
  <1>7. RequestTyped'
    BY <1>3 DEF OblRestore, RequestTyped
  <1>8. Control'
    BY <1>3 DEF OblRestore, TypeInv, Control, ControlTyped, PutLabel, ObliterateLabel, Goto, Return,
                LostReply, GotoOrLose, ReturnOrLose
  <1> QED
    BY <1>4, <1>5, <1>6, <1>7, <1>8, TypePartsNext DEF TypeInv

\* Deleting a payload leaves no object.
LEMMA TypeOblPayload ==
  ASSUME TypeInv, NEW t \in Task, OblPayload(t)
  PROVE  TypeInv'
  <1>1. req[t] \in KeyRequest
    BY DEF TypeInv, Control, OblPayload, PutLabel, ObliterateLabel
  <1>2. req[t].key \in Key /\ req[t].key.hash \in Hash
    BY <1>1, Shapes
  <1>3. StoreTyped /\ ControlTyped /\ LocalTyped /\ RequestTyped
    BY TypeParts DEF TypeInv
  <1>4. /\ s3' \in [Hash -> Frag \cup {NoFrag}]
        /\ late' \subseteq [hash: Hash, frag: Frag \cup {NoFrag}]
        /\ GotoOrLose(t, "obl_tomb") \/ Retried(t, "obl_tomb")
    <2>1. NoFrag \in Frag \cup {NoFrag} /\ "obl_tomb" \in Label
      BY <1>1, Shapes DEF Label
    <2>2. S3Write(t, NoFrag, "obl_tomb")
      BY DEF OblPayload
    <2> QED
      BY <1>2, <1>3, <2>1, <2>2, S3WriteEffect
  <1>5. ControlTyped' /\ StoreTyped'
    <2>1. ControlTyped'
      BY <1>3, <1>4, Moves DEF Label, Result
    <2>2. StoreTyped'
      BY <1>3, <1>4 DEF OblPayload, StoreTyped
    <2> QED
      BY <2>1, <2>2
  <1>6. LocalTyped'
    BY <1>1, <1>2, <1>3, Shapes DEF OblPayload, LocalTyped, local
  <1>7. RequestTyped'
    BY <1>3 DEF OblPayload, RequestTyped
  <1>8. Control'
    <2>1. \E l \in {"obl_tomb", "done"} : pc' = [pc EXCEPT ![t] = l]
      BY <1>4 DEF GotoOrLose, Goto, LostReply, Retried
    <2>2. UNCHANGED req
      BY DEF OblPayload
    <2>3. pc[t] = "obl_payload"
      BY DEF OblPayload
    <2> QED
      BY <1>1, <1>3, <2>1, <2>2, <2>3
      DEF TypeInv, Control, ControlTyped, PutLabel, ObliterateLabel
  <1> QED
    BY <1>5, <1>6, <1>7, <1>8, TypePartsNext DEF TypeInv

\* A tombstone is a row.
LEMMA TypeOblTombstone ==
  ASSUME TypeInv, NEW t \in Task, OblTombstone(t)
  PROVE  TypeInv'
  <1>1. req[t] \in KeyRequest
    BY DEF TypeInv, Control, OblTombstone, PutLabel, ObliterateLabel
  <1>2. req[t].key \in Key /\ req[t].key.hash \in Hash
    BY <1>1, Shapes
  <1>3. StoreTyped /\ ControlTyped /\ LocalTyped /\ RequestTyped
    BY TypeParts DEF TypeInv
  <1>4. ControlTyped'
    BY <1>3, Moves DEF OblTombstone, Label, Result
  <1>5. StoreTyped'
    <2>1. orig[t] \in Row
      BY <1>3 DEF LocalTyped
    <2>2. Tombstone \in Row
      BY <2>1, Shapes
    <2>3. meta' = meta \/ meta' = [meta EXCEPT ![req[t].key.hash] = Tombstone]
      BY DEF OblTombstone, CAS
    <2>4. UNCHANGED <<assoc, s3, late>>
      BY DEF OblTombstone
    <2> QED
      BY <1>3, <2>2, <2>3, <2>4 DEF StoreTyped
  <1>6. LocalTyped'
    BY <1>1, <1>2, <1>3, Shapes DEF OblTombstone, LocalTyped, local
  <1>7. RequestTyped'
    BY <1>3 DEF OblTombstone, RequestTyped
  <1>8. Control'
    BY <1>3 DEF OblTombstone, TypeInv, Control, ControlTyped, PutLabel, ObliterateLabel, Goto, Return,
                LostReply, GotoOrLose, ReturnOrLose
  <1> QED
    BY <1>4, <1>5, <1>6, <1>7, <1>8, TypePartsNext DEF TypeInv

\* Whatever the lookup shared by query, get_metadata and put concludes is typed.
LEMMA TypeDispatch ==
  ASSUME TypeInv, NEW t \in Task, pc[t] \in {"resolve", "resolve_row"},
         NoMatch(t) \/ MatchFull(t) \/ ResolveError(t), UNCHANGED <<store, req>>
  PROVE  TypeInv'
  <1>1. StoreTyped /\ ControlTyped /\ LocalTyped /\ RequestTyped
    BY TypeParts DEF TypeInv
  <1>2. req[t] \in Request
    BY DEF TypeInv, Control
  <1>3. req[t].op \in {"put", "copy", "get", "get_metadata", "obliterate", "query"}
    BY <1>2, RequestShape
  <1>4. req[t].op = "put" => req[t] \in PutRequest
    BY <1>2, RequestShape
  <1>5. req[t].op = "get_metadata" => req[t] \in KeyRequest
    BY <1>2, RequestShape
  <1>6. StoreTyped' /\ RequestTyped'
    BY <1>1 DEF StoreTyped, RequestTyped, store
  <1>7. CASE \E hit \in BOOLEAN : req[t].op = "query" /\ QueryResult(t, hit)
    <2>1. PICK hit \in BOOLEAN : QueryResult(t, hit)
      BY <1>7
    <2>2. ControlTyped'
      BY <1>1, <2>1 DEF QueryResult, Goto, Return, ControlTyped, Label, Result
    <2>3. hits' \in [Task -> Seq(BOOLEAN)]
      BY <1>1, <2>1 DEF QueryResult, LocalTyped
    <2>4. LocalTyped'
      BY <1>1, <2>1, <2>3 DEF QueryResult, LocalTyped
    <2>5. Control'
      BY <1>1, <1>2, <2>1
      DEF QueryResult, Goto, Return, TypeInv, Control, ControlTyped, PutLabel, ObliterateLabel
    <2> QED
      BY <1>6, <2>2, <2>4, <2>5, TypePartsNext DEF TypeInv
  <1>8. CASE /\ UNCHANGED local
             /\ \/ req[t].op = "put" /\ (Goto(t, "put_s3") \/ Goto(t, "put_check"))
                \/ req[t].op = "get_metadata" /\ Goto(t, "gm_load")
                \/ \E r \in Result : Return(t, r)
    <2>1. ControlTyped'
      BY <1>1, <1>8 DEF Goto, Return, ControlTyped, Label
    <2>2. LocalTyped'
      BY <1>1, <1>8 DEF LocalTyped, local
    <2>3. Control'
      BY <1>1, <1>2, <1>4, <1>5, <1>8
      DEF Goto, Return, TypeInv, Control, ControlTyped, PutLabel, ObliterateLabel
    <2> QED
      BY <1>6, <2>1, <2>2, <2>3, TypePartsNext DEF TypeInv
  <1>9. CASE NoMatch(t)
    BY <1>7, <1>8, <1>9 DEF NoMatch, PutUnmatched, Result
  <1>10. CASE MatchFull(t)
    BY <1>7, <1>8, <1>10 DEF MatchFull, PutUnmatched, Result
  <1>11. CASE ResolveError(t)
    BY <1>8, <1>11 DEF ResolveError, PutUnmatched, Result
  <1> QED
    BY <1>9, <1>10, <1>11

\* The lookup of the association either dispatches or goes on to the row ...
LEMMA TypeResolve ==
  ASSUME TypeInv, NEW t \in Task, Resolve(t)
  PROVE  TypeInv'
  <1>1. CASE NoMatch(t)
    BY <1>1, TypeDispatch DEF Resolve
  <1>2. CASE Goto(t, "resolve_row") /\ UNCHANGED local
    <2>1. StoreTyped /\ ControlTyped /\ LocalTyped /\ RequestTyped
      BY TypeParts DEF TypeInv
    <2>2. ControlTyped'
      BY <1>2, <2>1 DEF Goto, ControlTyped, Label
    <2>3. StoreTyped' /\ LocalTyped' /\ RequestTyped'
      BY <1>2, <2>1 DEF Resolve, StoreTyped, LocalTyped, RequestTyped, store, local
    <2>4. Control'
      BY <1>2, <2>1
      DEF Resolve, Goto, TypeInv, Control, ControlTyped, PutLabel, ObliterateLabel
    <2> QED
      BY <2>2, <2>3, <2>4, TypePartsNext DEF TypeInv
  <1> QED
    BY <1>1, <1>2 DEF Resolve

\* ... and the lookup of the row always dispatches.
LEMMA TypeResolveRow ==
  ASSUME TypeInv, NEW t \in Task, ResolveRow(t)
  PROVE  TypeInv'
  BY TypeDispatch DEF ResolveRow

\* An element of a sequence is one of its values.
LEMMA Element == ASSUME NEW S, NEW q \in Seq(S), NEW i \in DOMAIN q PROVE q[i] \in S
  OBVIOUS

\* Spawning moves the parent to its join and idle tasks to their first await, each with
\* the parent's address at one of the listed hashes.
Spawned(t, refs, new) ==
  /\ \A c \in new : pc[c] = "idle"
  /\ \A c \in Task \ new : req'[c] = req[c]
  /\ req' = [c \in Task |-> req'[c]]
  /\ \A c \in new : \E i \in DOMAIN refs :
       req'[c] = [op |-> "obliterate", key |-> [req[t].key EXCEPT !.hash = refs[i]]]
  /\ pc' = [c \in Task |-> IF c = t THEN "obl_join"
                           ELSE IF c \in new THEN "obl_load" ELSE pc[c]]
  /\ parent' = [c \in Task |-> IF c \in new THEN t ELSE parent[c]]
  /\ UNCHANGED <<res, faults>>

\* The tasks a spawn starts are those it picks for the references.
LEMMA SpawnEffect ==
  ASSUME NEW t \in Task, NEW refs, Spawn(t, refs)
  PROVE  \E new \in SUBSET (Task \ Client) : Spawned(t, refs, new)
  <1>1. PICK child \in [DOMAIN refs -> {c \in Task \ Client : pc[c] = "idle"}] :
          LET new == {child[i] : i \in DOMAIN refs}
              index(c) == CHOOSE i \in DOMAIN refs : child[i] = c
              sub(c) == [op |-> "obliterate",
                         key |-> [req[t].key EXCEPT !.hash = refs[index(c)]]]
          IN  /\ req' = [c \in Task |-> IF c \in new THEN sub(c) ELSE req[c]]
              /\ parent' = [c \in Task |-> IF c \in new THEN t ELSE parent[c]]
              /\ pc' = [c \in Task |-> IF c = t THEN "obl_join"
                                       ELSE IF c \in new THEN "obl_load" ELSE pc[c]]
              /\ UNCHANGED <<res, faults>>
    BY DEF Spawn
  <1> DEFINE new == {child[i] : i \in DOMAIN refs}
             index(c) == CHOOSE i \in DOMAIN refs : child[i] = c
             sub(c) == [op |-> "obliterate",
                        key |-> [req[t].key EXCEPT !.hash = refs[index(c)]]]
  <1>2. new \in SUBSET (Task \ Client) /\ \A c \in new : pc[c] = "idle"
    OBVIOUS
  <1>3. \A c \in new : index(c) \in DOMAIN refs
    OBVIOUS
  <1>4. /\ req' = [c \in Task |-> IF c \in new THEN sub(c) ELSE req[c]]
        /\ parent' = [c \in Task |-> IF c \in new THEN t ELSE parent[c]]
        /\ pc' = [c \in Task |-> IF c = t THEN "obl_join"
                                 ELSE IF c \in new THEN "obl_load" ELSE pc[c]]
        /\ UNCHANGED <<res, faults>>
    BY <1>1
  <1> HIDE DEF new, index
  <1>5. /\ \A c \in Task \ new : req'[c] = req[c]
        /\ \A c \in new : req'[c] = sub(c)
    BY <1>2, <1>4
  <1>6. req' = [c \in Task |-> req'[c]]
    BY <1>4
  <1> QED
    BY <1>2, <1>3, <1>4, <1>5, <1>6 DEF Spawned

\* The children of an obliterate ask for addresses of the listed hashes.
LEMMA TypeOblRead ==
  ASSUME TypeInv, NEW t \in Task, OblRead(t)
  PROVE  TypeInv'
  <1> DEFINE object == s3[req[t].key.hash]
  <1>1. StoreTyped /\ ControlTyped /\ LocalTyped /\ RequestTyped
    BY TypeParts DEF TypeInv
  <1>2. req[t] \in KeyRequest /\ req[t].key \in Key /\ req[t].key.hash \in Hash
    BY Shapes DEF TypeInv, Control, OblRead, ObliterateLabel
  <1>3. StoreTyped'
    BY <1>1 DEF OblRead, StoreTyped, store
  <1>4. CASE /\ \E r \in Result : Return(t, r)
             /\ UNCHANGED <<req, parent>>
    <2>1. ControlTyped'
      BY <1>1, <1>4 DEF Return, ControlTyped, Label
    <2>2. LocalTyped' /\ RequestTyped'
      BY <1>1, <1>4 DEF OblRead, LocalTyped, RequestTyped
    <2>3. Control'
      BY <1>1, <1>4
      DEF Return, TypeInv, Control, ControlTyped, PutLabel, ObliterateLabel
    <2> QED
      BY <1>3, <2>1, <2>2, <2>3, TypePartsNext DEF TypeInv
  <1>5. CASE object # NoFrag /\ Spawn(t, Refs[object])
    <2>1. object \in Frag
      BY <1>1, <1>2, <1>5 DEF StoreTyped
    <2>2. Refs[object] \in Seq(Hash)
      BY <2>1, FragAssumption
    <2> DEFINE refs == Refs[object]
    <2> HIDE DEF object, refs
    <2>3. \A i \in DOMAIN refs : refs[i] \in Hash
      BY <2>2, Element DEF refs
    <2>4. PICK new \in SUBSET (Task \ Client) : Spawned(t, refs, new)
      BY <1>5, SpawnEffect DEF refs
    <2>5. ASSUME NEW c \in new
          PROVE  req'[c] \in KeyRequest /\ req'[c].op = "obliterate"
      <3>1. PICK i \in DOMAIN refs :
              req'[c] = [op |-> "obliterate", key |-> [req[t].key EXCEPT !.hash = refs[i]]]
        BY <2>4 DEF Spawned
      <3>2. refs[i] \in Hash
        BY <2>3
      <3>3. [req[t].key EXCEPT !.hash = refs[i]] \in Key
        BY <1>2, <3>2 DEF Key
      <3> QED
        BY <3>1, <3>3 DEF KeyRequest
    <2>6. t \notin new
      BY <2>4 DEF OblRead, Spawned
    <2>7. ControlTyped'
      BY <1>1, <2>4 DEF ControlTyped, Label, Spawned
    <2>8. LocalTyped'
      BY <1>1, <2>4 DEF OblRead, LocalTyped, Spawned
    <2>9. RequestTyped'
      <3>1. \A c \in Task : req'[c] \in Request \cup {NoRequest}
        <4> TAKE c \in Task
        <4>1. CASE c \in new
          BY <2>5, <4>1 DEF Request
        <4>2. CASE c \notin new
          BY <1>1, <2>4, <4>2 DEF RequestTyped, Spawned
        <4> QED
          BY <4>1, <4>2
      <3> QED
        BY <2>4, <3>1 DEF RequestTyped, Spawned
    <2>10. Control'
      BY <1>1, <1>2, <2>4, <2>5, <2>6
      DEF TypeInv, OblRead, Spawned, Control, ControlTyped, PutLabel, ObliterateLabel
    <2> QED
      BY <1>3, <2>7, <2>8, <2>9, <2>10, TypePartsNext DEF TypeInv
  <1> QED
    BY <1>4, <1>5 DEF OblRead, Result

\* A fault ends a task with an error, or sends a put on to its upload.
LEMMA TypeFail ==
  ASSUME TypeInv, NEW t \in Task, Fail(t)
  PROVE  TypeInv'
  <1>1. StoreTyped /\ ControlTyped /\ LocalTyped /\ RequestTyped
    BY TypeParts DEF TypeInv
  <1>2. \/ /\ req[t].op = "put" /\ pc[t] \in {"resolve", "resolve_row"}
           /\ pc' = [pc EXCEPT ![t] = "put_s3"] /\ UNCHANGED res
        \/ pc' = [pc EXCEPT ![t] = "done"] /\ res' = [res EXCEPT ![t] = "err"]
    BY DEF Fail
  <1>3. req[t].op = "put" /\ pc[t] \in {"resolve", "resolve_row"} => req[t] \in PutRequest
    BY RequestShape DEF TypeInv, Control
  <1>4. faults' \in Nat
    BY <1>1 DEF Fail, ControlTyped
  <1>5. ControlTyped'
    BY <1>1, <1>2, <1>4 DEF ControlTyped, Label, Result
  <1>6. StoreTyped' /\ LocalTyped' /\ RequestTyped'
    BY <1>1 DEF Fail, StoreTyped, LocalTyped, RequestTyped, store, local
  <1>7. Control'
    BY <1>1, <1>2, <1>3
    DEF Fail, TypeInv, Control, ControlTyped, PutLabel, ObliterateLabel
  <1> QED
    BY <1>5, <1>6, <1>7, TypePartsNext DEF TypeInv

\* A crash ends every running task.
LEMMA TypeCrash ==
  ASSUME TypeInv, Crash
  PROVE  TypeInv'
  <1>1. StoreTyped /\ ControlTyped /\ LocalTyped /\ RequestTyped
    BY TypeParts DEF TypeInv
  <1>2. ControlTyped'
    BY <1>1 DEF Crash, ControlTyped, Label, Result
  <1>3. StoreTyped' /\ LocalTyped' /\ RequestTyped'
    BY <1>1 DEF Crash, StoreTyped, LocalTyped, RequestTyped, store, local
  <1>4. Control'
    BY <1>1 DEF Crash, TypeInv, Control, ControlTyped, PutLabel, ObliterateLabel
  <1> QED
    BY <1>2, <1>3, <1>4, TypePartsNext DEF TypeInv

\* What arrives late is what was written.
LEMMA TypeArrive ==
  ASSUME TypeInv, Arrive
  PROVE  TypeInv'
  <1>1. StoreTyped /\ ControlTyped /\ LocalTyped /\ RequestTyped
    BY TypeParts DEF TypeInv
  <1>2. PICK w \in late : s3' = [s3 EXCEPT ![w.hash] = w.frag] /\ late' = late \ {w}
    BY DEF Arrive
  <1>3. w.frag \in Frag \cup {NoFrag}
    BY <1>1 DEF StoreTyped
  <1>4. StoreTyped'
    BY <1>1, <1>2, <1>3 DEF Arrive, StoreTyped
  <1>5. ControlTyped' /\ LocalTyped' /\ RequestTyped'
    BY <1>1 DEF Arrive, ControlTyped, LocalTyped, RequestTyped, local
  <1>6. Control'
    BY DEF Arrive, TypeInv, Control
  <1> QED
    BY <1>4, <1>5, <1>6, TypePartsNext DEF TypeInv

\* Every step, and a stutter, keeps the type invariant.
LEMMA TypeNext == TypeInv /\ [Next]_vars => TypeInv'
  <1> SUFFICES ASSUME TypeInv, [Next]_vars PROVE TypeInv'
    OBVIOUS
  <1>1. ASSUME NEW t \in Task, Step(t) PROVE TypeInv'
    BY <1>1, TypeResolve, TypeResolveRow, TypeGetMetadataLoad, TypeGetExists, TypeGetRow,
       TypeGetObject, TypeGetDone, TypePutCheck, TypePutObject, TypePutUpsert,
       TypePutAssociate, TypePutCommit, TypeCopyCheck, TypeCopyAssociate, TypeOblLoad,
       TypeOblLock, TypeOblRead, TypeOblJoin, TypeOblUnassociate, TypeOblCount,
       TypeOblRestore, TypeOblPayload, TypeOblTombstone
    DEF Step
  <1>2. CASE UNCHANGED vars
    BY <1>2 DEF vars, store, local, TypeInv, TypeOK, Control
  <1> QED
    BY <1>1, <1>2, TypeBegin, TypeFail, TypeCrash, TypeArrive DEF Next

\* Type correctness: in every behaviour of the store, for any workload, corpus and number
\* of faults, the tables, the bucket and the tasks hold values of their types.
THEOREM TypeCorrect == Spec => []TypeOK
  <1>1. TypeInv => TypeOK
    BY DEF TypeInv
  <1> QED
    BY TypeInit, TypeNext, <1>1, PTL DEF Spec

-----------------------------------------------------------------------------
(* No partial index: associations always have a metadata row.              *)

\* An obliterate past its first read works from the row of a payload, live when it was
\* read; this is what it may write back.
OriginalRow ==
  \A t \in Task :
    pc[t] \in ObliterateLabel \ {"obl_load"} =>
      orig[t] # NoRow /\ ~Obliteration(orig[t])

\* Strengthening of AssocHasMetadata: a copy that has found its source will find the row
\* too, since rows are never deleted.
IndexInv ==
  /\ AssocHasMetadata
  /\ OriginalRow
  /\ \A t \in Task : pc[t] = "copy_associate" => meta[req[t].key.hash] # NoRow

\* A lock, a live row and a tombstone are all rows.
LEMMA WrittenRows ==
  /\ \A row : Locked(row) # NoRow \/ row \notin Row
  /\ \A f : Live(f) # NoRow
  /\ Tombstone # NoRow
  BY DEF Locked, Live, NoRow, Tombstone, Row

\* No step deletes a metadata row.
LEMMA RowsStay ==
  ASSUME TypeInv, OriginalRow, [Next]_vars
  PROVE  \A h \in Hash : meta[h] # NoRow => meta'[h] # NoRow
  <1> USE DEF TypeInv, TypeOK, store
  <1>1. ASSUME NEW t \in Task, PutCommit(t) PROVE \A h \in Hash : meta[h] # NoRow => meta'[h] # NoRow
    BY <1>1, WrittenRows DEF PutCommit
  <1>2. ASSUME NEW t \in Task, OblLock(t) PROVE \A h \in Hash : meta[h] # NoRow => meta'[h] # NoRow
    BY <1>2, WrittenRows DEF OblLock, CAS
  <1>3. ASSUME NEW t \in Task, OblRestore(t) PROVE \A h \in Hash : meta[h] # NoRow => meta'[h] # NoRow
    BY <1>3 DEF OblRestore, CAS, OriginalRow, ObliterateLabel
  <1>4. ASSUME NEW t \in Task, OblTombstone(t) PROVE \A h \in Hash : meta[h] # NoRow => meta'[h] # NoRow
    BY <1>4, WrittenRows DEF OblTombstone, CAS
  <1>5. ASSUME UNCHANGED meta PROVE \A h \in Hash : meta[h] # NoRow => meta'[h] # NoRow
    BY <1>5
  <1>6. ASSUME NEW t \in Task, Step(t) PROVE \A h \in Hash : meta[h] # NoRow => meta'[h] # NoRow
    BY <1>1, <1>2, <1>3, <1>4, <1>5, <1>6
    DEF Step, Resolve, ResolveRow, GetMetadataLoad, GetExists, GetRow, GetObject, GetDone,
        PutCheck, PutObject, PutUpsert, PutAssociate, CopyCheck, CopyAssociate, OblLoad,
        OblRead, OblJoin, OblUnassociate, OblCount, OblPayload
  <1> QED
    BY <1>5, <1>6 DEF Next, Begin, Fail, Crash, Arrive, vars

\* The awaits of an obliterate that has loaded its row.
Loaded == ObliterateLabel \ {"obl_load"}

\* A move that loads no row and enters none of those awaits from outside keeps OriginalRow.
LEMMA OriginalRowKept ==
  ASSUME pc \in [Task -> Label], OriginalRow, UNCHANGED orig, NEW t \in Task, NEW l,
         pc' = [pc EXCEPT ![t] = l], l \in Loaded => pc[t] \in Loaded
  PROVE  OriginalRow'
  BY DEF OriginalRow, Loaded

\* Every step keeps the row an obliterate has loaded a row that was live when loaded.
LEMMA OriginalRowNext ==
  ASSUME TypeInv, OriginalRow, [Next]_vars
  PROVE  OriginalRow'
  <1>1. pc \in [Task -> Label] /\ orig \in [Task -> Row]
    BY DEF TypeInv, TypeOK
  <1>2. ASSUME UNCHANGED orig, NEW t \in Task,
               \/ UNCHANGED pc
               \/ \E l : /\ pc' = [pc EXCEPT ![t] = l]
                         /\ l \in Loaded => pc[t] \in Loaded
        PROVE  OriginalRow'
    <2>1. CASE UNCHANGED pc
      BY <1>2, <2>1 DEF OriginalRow
    <2>2. ASSUME NEW l, pc' = [pc EXCEPT ![t] = l], l \in Loaded => pc[t] \in Loaded
          PROVE  OriginalRow'
      BY <1>1, <1>2, <2>2, OriginalRowKept
    <2> QED
      BY <1>2, <2>1, <2>2
  <1> USE DEF Goto, Return, LostReply, GotoOrLose, ReturnOrLose, local, Loaded, ObliterateLabel
  <1>3. ASSUME NEW t \in Task, OblLoad(t) PROVE OriginalRow'
    <2> DEFINE row == meta[req[t].key.hash]
    <2>1. CASE UNCHANGED orig /\ pc' = [pc EXCEPT ![t] = "done"]
      BY <1>1, <2>1, OriginalRowKept
    <2>2. CASE /\ row # NoRow /\ ~Obliteration(row)
               /\ pc' = [pc EXCEPT ![t] = "obl_lock"]
               /\ orig' = [orig EXCEPT ![t] = row]
      <3> HIDE DEF row
      <3>1. orig'[t] # NoRow /\ ~Obliteration(orig'[t])
        BY <1>1, <2>2 DEF Obliteration
      <3>2. \A u \in Task \ {t} : orig'[u] = orig[u] /\ pc'[u] = pc[u]
        BY <1>1, <2>2
      <3> QED
        BY <3>1, <3>2 DEF OriginalRow, Obliteration
    <2> QED
      BY <1>3, <2>1, <2>2 DEF OblLoad
  <1>4. ASSUME NEW t \in Task, OblLock(t) PROVE OriginalRow'
    <2>1. UNCHANGED orig /\ pc[t] \in Loaded /\ \E l : pc' = [pc EXCEPT ![t] = l]
      BY <1>4 DEF OblLock
    <2> QED
      BY <1>2, <2>1
  <1>5. ASSUME NEW t \in Task, OblRead(t) PROVE OriginalRow'
    <2>1. UNCHANGED orig /\ pc[t] \in Loaded
      BY <1>5 DEF OblRead
    <2>2. CASE \E r : Return(t, r)
      BY <1>2, <2>1, <2>2
    <2>3. CASE Spawn(t, Refs[s3[req[t].key.hash]])
      <3>1. PICK new \in SUBSET (Task \ Client) : Spawned(t, Refs[s3[req[t].key.hash]], new)
        BY <2>3, SpawnEffect
      <3>2. \A c \in Task : pc'[c] \in Loaded => pc[c] \in Loaded
        BY <2>1, <3>1 DEF Spawned
      <3> QED
        BY <2>1, <3>2 DEF OriginalRow
    <2> QED
      BY <1>5, <2>2, <2>3 DEF OblRead
  <1>6. ASSUME NEW t \in Task,
               OblJoin(t) \/ OblUnassociate(t) \/ OblCount(t) \/ OblRestore(t) \/ OblTombstone(t)
        PROVE  OriginalRow'
    <2>1. UNCHANGED orig /\ pc[t] \in Loaded /\ \E l : pc' = [pc EXCEPT ![t] = l]
      BY <1>6 DEF OblJoin, OblUnassociate, OblCount, OblRestore, OblTombstone
    <2> QED
      BY <1>2, <2>1
  <1>7. ASSUME NEW t \in Task, OblPayload(t) \/ PutObject(t) PROVE OriginalRow'
    <2>1. /\ UNCHANGED orig
          /\ \E l : /\ pc' = [pc EXCEPT ![t] = l]
                    /\ l \in Loaded => pc[t] \in Loaded
      BY <1>7, S3WriteMoves DEF OblPayload, PutObject
    <2> QED
      BY <1>2, <2>1
  <1>8. ASSUME NEW t \in Task,
               PutCheck(t) \/ PutUpsert(t) \/ PutAssociate(t) \/ PutCommit(t)
                 \/ CopyCheck(t) \/ CopyAssociate(t) \/ GetMetadataLoad(t)
        PROVE  OriginalRow'
    <2>1. UNCHANGED orig /\ \E l : l \notin Loaded /\ pc' = [pc EXCEPT ![t] = l]
      BY <1>8 DEF PutCheck, PutUpsert, PutAssociate, PutCommit, CopyCheck, CopyAssociate,
                  GetMetadataLoad
    <2> QED
      BY <1>2, <2>1
  <1>9. ASSUME NEW t \in Task, GetExists(t) \/ GetRow(t) \/ GetObject(t) \/ GetDone(t)
        PROVE  OriginalRow'
    <2>1. UNCHANGED orig /\ (UNCHANGED pc \/ pc' = [pc EXCEPT ![t] = "done"])
      BY <1>9 DEF GetExists, GetRow, GetObject, GetDone
    <2> QED
      BY <1>2, <2>1
  <1>10. ASSUME NEW t \in Task, Resolve(t) \/ ResolveRow(t)
        PROVE  OriginalRow'
    <2>1. /\ UNCHANGED orig
          /\ \E l \in {"resolve", "resolve_row", "put_s3", "put_check", "gm_load", "done"} :
               pc' = [pc EXCEPT ![t] = l]
      BY <1>10 DEF Resolve, ResolveRow, NoMatch, MatchFull, ResolveError, QueryResult, PutUnmatched
    <2> QED
      BY <1>2, <2>1
  <1>11. ASSUME NEW t \in Task, Begin(t) \/ Fail(t) PROVE OriginalRow'
    <2>1. UNCHANGED orig /\ \E l : l \notin Loaded /\ pc' = [pc EXCEPT ![t] = l]
      BY <1>11 DEF Begin, Fail
    <2> QED
      BY <1>2, <2>1
  <1>12. CASE Crash
    BY <1>12 DEF Crash, OriginalRow
  <1>13. CASE Arrive \/ UNCHANGED vars
    BY <1>13 DEF Arrive, vars, OriginalRow
  <1> QED
    BY <1>3, <1>4, <1>5, <1>6, <1>7, <1>8, <1>9, <1>10, <1>11, <1>12, <1>13 DEF Next, Step

\* Where an association can come from.
LEMMA NewAssociations ==
  ASSUME TypeInv, [Next]_vars, NEW k \in assoc', k \notin assoc
  PROVE  \E t \in Task : k = req[t].key /\ (PutCommit(t) \/ CopyAssociate(t))
  <1>1. ASSUME UNCHANGED assoc PROVE FALSE
    BY <1>1
  <1>2. ASSUME NEW t \in Task, OblUnassociate(t) PROVE FALSE
    BY <1>2 DEF OblUnassociate
  <1>3. ASSUME NEW t \in Task, PutCommit(t) \/ CopyAssociate(t) PROVE k = req[t].key
    BY <1>3 DEF PutCommit, CopyAssociate
  <1>4. PICK t \in Task : Step(t)
    BY <1>1 DEF Next, Begin, Fail, Crash, Arrive, vars, store
  <1> QED
    BY <1>1, <1>2, <1>3, <1>4
    DEF Step, Resolve, ResolveRow, GetMetadataLoad, GetExists, GetRow, GetObject, GetDone,
        PutCheck, PutObject, PutUpsert, PutAssociate, CopyCheck, OblLoad, OblLock, OblRead,
        OblJoin, OblCount, OblRestore, OblPayload, OblTombstone, store

\* The steps that neither spawn, nor decide a copy, nor decide or do a deletion, leave the
\* requests alone and lead to none of the labels those steps lead to.
LEMMA StepMoves ==
  ASSUME NEW u \in Task, Step(u), ~OblRead(u), ~CopyCheck(u), ~OblCount(u), ~OblPayload(u)
  PROVE  /\ UNCHANGED req
         /\ \/ UNCHANGED pc
            \/ \E l \in Label \ {"idle", "copy_associate", "obl_payload", "obl_tomb"} :
                 pc' = [pc EXCEPT ![u] = l]
  <1> USE DEF Goto, Return, LostReply, GotoOrLose, ReturnOrLose, Label
  <1>1. CASE Resolve(u) \/ ResolveRow(u)
    BY <1>1 DEF Resolve, ResolveRow, NoMatch, MatchFull, ResolveError, QueryResult, PutUnmatched
  <1>2. CASE GetMetadataLoad(u) \/ GetExists(u) \/ GetRow(u) \/ GetObject(u) \/ GetDone(u)
    BY <1>2 DEF GetMetadataLoad, GetExists, GetRow, GetObject, GetDone
  <1>3. CASE PutCheck(u) \/ PutObject(u) \/ PutUpsert(u) \/ PutAssociate(u) \/ PutCommit(u)
    BY <1>3, S3WriteMoves DEF PutCheck, PutObject, PutUpsert, PutAssociate, PutCommit
  <1>4. CASE CopyAssociate(u) \/ OblLoad(u) \/ OblLock(u) \/ OblJoin(u) \/ OblUnassociate(u)
    BY <1>4 DEF CopyAssociate, OblLoad, OblLock, OblJoin, OblUnassociate
  <1>5. CASE OblRestore(u) \/ OblTombstone(u)
    BY <1>5 DEF OblRestore, OblTombstone
  <1> QED
    BY <1>1, <1>2, <1>3, <1>4, <1>5 DEF Step

\* A task about to associate the copy has just checked its source, or was already there.
LEMMA CopyArrives ==
  ASSUME TypeInv, [Next]_vars, NEW t \in Task, pc'[t] = "copy_associate"
  PROVE  /\ req'[t] = req[t]
         /\ \/ pc[t] = "copy_associate"
            \/ pc[t] = "copy_check" /\ \E k \in assoc : k.hash = req[t].src.hash
  <1> USE DEF TypeInv, TypeOK, Goto, Return, LostReply, GotoOrLose, ReturnOrLose
  <1>1. ASSUME NEW u \in Task, Begin(u) \/ Fail(u)
        PROVE  pc[t] = "copy_associate" /\ req'[t] = req[t]
    BY <1>1 DEF Begin, Fail
  <1>2. CASE Crash \/ Arrive \/ UNCHANGED vars
    BY <1>2 DEF Crash, Arrive, Running, vars
  <1>3. ASSUME NEW u \in Task, OblRead(u)
        PROVE  pc[t] = "copy_associate" /\ req'[t] = req[t]
    <2>1. CASE \E r \in {"not_found", "err"} : Return(u, r) /\ UNCHANGED req
      BY <2>1
    <2>2. CASE Spawn(u, Refs[s3[req[u].key.hash]])
      <3>1. PICK new \in SUBSET (Task \ Client) : Spawned(u, Refs[s3[req[u].key.hash]], new)
        BY <2>2, SpawnEffect
      <3> QED
        BY <3>1 DEF Spawned
    <2> QED
      BY <1>3, <2>1, <2>2 DEF OblRead
  <1>4. ASSUME NEW u \in Task, CopyCheck(u)
        PROVE  /\ req'[t] = req[t]
               /\ \/ pc[t] = "copy_associate"
                  \/ pc[t] = "copy_check" /\ \E k \in assoc : k.hash = req[t].src.hash
    <2>1. CASE u = t
      BY <1>4, <2>1 DEF CopyCheck, SourceExists
    <2>2. CASE u # t
      BY <1>4, <2>2 DEF CopyCheck
    <2> QED
      BY <2>1, <2>2
  <1>5. ASSUME NEW u \in Task, OblCount(u) \/ OblPayload(u)
        PROVE  pc[t] = "copy_associate" /\ req'[t] = req[t]
    BY <1>5, S3WriteMoves DEF OblCount, OblPayload
  <1>6. ASSUME NEW u \in Task, Step(u), ~OblRead(u), ~CopyCheck(u), ~OblCount(u), ~OblPayload(u)
        PROVE  pc[t] = "copy_associate" /\ req'[t] = req[t]
    BY <1>6, StepMoves
  <1> QED
    BY <1>1, <1>2, <1>3, <1>4, <1>5, <1>6 DEF Next

\* AssocHasMetadata for every workload and any faults: an association never exists
\* without its metadata row, neither after a crash in a put nor when a copy races an
\* obliterate.
THEOREM IndexComplete == Spec => []AssocHasMetadata
  <1>1. Init => IndexInv
    BY InitAssumption
    DEF Init, IndexInv, AssocHasMetadata, OriginalRow, ObliterateLabel, Key, Live, NoRow
  <1>2. TypeInv /\ IndexInv /\ [Next]_vars => IndexInv'
    <2> SUFFICES ASSUME TypeInv, IndexInv, [Next]_vars PROVE IndexInv'
      OBVIOUS
    <2>1. \A h \in Hash : meta[h] # NoRow => meta'[h] # NoRow
      BY RowsStay DEF IndexInv
    <2>2. OriginalRow'
      BY OriginalRowNext DEF IndexInv
    <2>3. AssocHasMetadata'
      <3> SUFFICES ASSUME NEW k \in assoc' PROVE meta'[k.hash] # NoRow
        BY DEF AssocHasMetadata
      <3>1. k \in Key /\ k.hash \in Hash
        BY TypeNext, Shapes DEF TypeInv, TypeOK
      <3>2. CASE k \in assoc
        BY <2>1, <3>1, <3>2 DEF IndexInv, AssocHasMetadata
      <3>3. CASE k \notin assoc
        <4>1. PICK t \in Task : k = req[t].key /\ (PutCommit(t) \/ CopyAssociate(t))
          BY <3>3, NewAssociations
        <4>2. CASE PutCommit(t)
          BY <3>1, <4>1, <4>2, WrittenRows DEF PutCommit, TypeInv, TypeOK
        <4>3. CASE CopyAssociate(t)
          BY <2>1, <3>1, <4>1, <4>3 DEF CopyAssociate, IndexInv
        <4> QED
          BY <4>1, <4>2, <4>3
      <3> QED
        BY <3>2, <3>3
    <2>4. (\A t \in Task : pc[t] = "copy_associate" => meta[req[t].key.hash] # NoRow)'
      <3> SUFFICES ASSUME NEW t \in Task, pc'[t] = "copy_associate"
                   PROVE  meta'[req'[t].key.hash] # NoRow
        OBVIOUS
      <3>1. /\ req'[t] = req[t]
            /\ \/ pc[t] = "copy_associate"
               \/ pc[t] = "copy_check" /\ \E k \in assoc : k.hash = req[t].src.hash
        BY CopyArrives
      <3>2. req[t] \in CopyRequest
        BY <3>1 DEF TypeInv, Control
      <3>3. req[t].key.hash \in Hash /\ req[t].key.hash = req[t].src.hash
        BY <3>2, Shapes
      <3>4. meta[req[t].key.hash] # NoRow
        BY <3>1, <3>3 DEF IndexInv, AssocHasMetadata
      <3> QED
        BY <2>1, <3>1, <3>3, <3>4
    <2> QED
      BY <2>2, <2>3, <2>4 DEF IndexInv
  <1>3. IndexInv => AssocHasMetadata
    BY DEF IndexInv
  <1> QED
    BY TypeInit, TypeNext, <1>1, <1>2, <1>3, PTL DEF Spec

-----------------------------------------------------------------------------
(* Deletion never reaches a payload somebody still refers to.              *)

\* A task that has not started has no request.
IdleClean == \A t \in Task : pc[t] = "idle" => req[t] = NoRequest

\* Past the count that found no association left.
Deleting(t, h) == pc[t] \in {"obl_payload", "obl_tomb"} /\ req[t].key.hash = h

\* Strengthening of SharedPayloadSurvives: besides, nobody is about to delete the payload,
\* and no deletion of it is still under way.
SharedInv ==
  /\ IdleClean
  /\ OriginalRow
  /\ \A k \in InitAssoc :
       ~Condemned(k) => /\ k \in assoc
                        /\ s3[k.hash] # NoFrag
                        /\ meta[k.hash] # Tombstone
                        /\ \A t \in Task : ~Deleting(t, k.hash)
                        /\ [hash |-> k.hash, frag |-> NoFrag] \notin late

\* A task gets its request once.
LEMMA RequestsKept ==
  ASSUME TypeInv, IdleClean, [Next]_vars
  PROVE  /\ IdleClean'
         /\ \A t \in Task : req[t] # NoRequest => req'[t] = req[t]
  <1> USE DEF TypeInv, TypeOK, IdleClean
  <1> DEFINE Kept == /\ IdleClean'
                     /\ \A t \in Task : req[t] # NoRequest => req'[t] = req[t]
  <1>1. ASSUME NEW u \in Task, Begin(u) PROVE Kept
    BY <1>1 DEF Begin, Goto
  <1>2. ASSUME NEW u \in Task, Fail(u) PROVE Kept
    BY <1>2 DEF Fail
  <1>3. CASE Crash \/ Arrive \/ UNCHANGED vars
    BY <1>3 DEF Crash, Arrive, Running, vars
  <1>4. ASSUME NEW u \in Task, OblRead(u) PROVE Kept
    <2>1. CASE \E r \in Result : Return(u, r) /\ UNCHANGED req
      BY <2>1 DEF Return
    <2>2. CASE Spawn(u, Refs[s3[req[u].key.hash]])
      <3>1. PICK new \in SUBSET (Task \ Client) : Spawned(u, Refs[s3[req[u].key.hash]], new)
        BY <2>2, SpawnEffect
      <3> QED
        BY <3>1 DEF Spawned
    <2> QED
      BY <1>4, <2>1, <2>2 DEF OblRead, Result
  <1>5. ASSUME NEW u \in Task, CopyCheck(u) \/ OblCount(u) \/ OblPayload(u) PROVE Kept
    <2>1. UNCHANGED req /\ pc[u] \in {"copy_check", "obl_count", "obl_payload"}
      BY <1>5 DEF CopyCheck, OblCount, OblPayload
    <2>2. \E l \in Label \ {"idle"} : pc' = [pc EXCEPT ![u] = l]
      <3>1. CASE CopyCheck(u) \/ OblCount(u)
        BY <3>1 DEF CopyCheck, OblCount, Goto, Return, Label
      <3>2. CASE OblPayload(u)
        <4>1. S3Write(u, NoFrag, "obl_tomb")
          BY <3>2 DEF OblPayload
        <4> QED
          BY <4>1, S3WriteMoves DEF Label
      <3> QED
        BY <1>5, <3>1, <3>2
    <2> QED
      BY <2>1, <2>2
  <1>6. ASSUME NEW u \in Task, Step(u), ~OblRead(u), ~CopyCheck(u), ~OblCount(u), ~OblPayload(u)
        PROVE  Kept
    BY <1>6, StepMoves
  <1> QED
    BY <1>1, <1>2, <1>3, <1>4, <1>5, <1>6 DEF Next

\* A task gets to the deletion of a payload only from a count of its associations that
\* found none.
LEMMA DeleteArrives ==
  ASSUME TypeInv, [Next]_vars, NEW t \in Task, pc'[t] \in {"obl_payload", "obl_tomb"}
  PROVE  /\ req'[t] = req[t]
         /\ \/ pc[t] \in {"obl_payload", "obl_tomb"}
            \/ pc[t] = "obl_count" /\ ~\E k \in assoc : k.hash = req[t].key.hash
  <1> USE DEF TypeInv, TypeOK, Goto, Return, LostReply, GotoOrLose, ReturnOrLose
  <1>1. ASSUME NEW u \in Task, Begin(u) \/ Fail(u)
        PROVE  pc[t] \in {"obl_payload", "obl_tomb"} /\ req'[t] = req[t]
    BY <1>1 DEF Begin, Fail
  <1>2. CASE Crash \/ Arrive \/ UNCHANGED vars
    BY <1>2 DEF Crash, Arrive, Running, vars
  <1>3. ASSUME NEW u \in Task, OblRead(u)
        PROVE  pc[t] \in {"obl_payload", "obl_tomb"} /\ req'[t] = req[t]
    <2>1. CASE \E r \in {"not_found", "err"} : Return(u, r) /\ UNCHANGED req
      BY <2>1
    <2>2. CASE Spawn(u, Refs[s3[req[u].key.hash]])
      <3>1. PICK new \in SUBSET (Task \ Client) : Spawned(u, Refs[s3[req[u].key.hash]], new)
        BY <2>2, SpawnEffect
      <3> QED
        BY <3>1 DEF Spawned
    <2> QED
      BY <1>3, <2>1, <2>2 DEF OblRead
  <1>4. ASSUME NEW u \in Task, CopyCheck(u) \/ OblPayload(u)
        PROVE  pc[t] \in {"obl_payload", "obl_tomb"} /\ req'[t] = req[t]
    <2>1. CASE CopyCheck(u)
      BY <1>4, <2>1 DEF CopyCheck
    <2>2. CASE OblPayload(u)
      <3>1. \E m \in {"obl_tomb", "done"} : pc' = [pc EXCEPT ![u] = m]
        BY <2>2, S3WriteMoves DEF OblPayload
      <3> QED
        BY <2>2, <3>1 DEF OblPayload
    <2> QED
      BY <1>4, <2>1, <2>2
  <1>5. ASSUME NEW u \in Task, OblCount(u)
        PROVE  /\ req'[t] = req[t]
               /\ \/ pc[t] \in {"obl_payload", "obl_tomb"}
                  \/ pc[t] = "obl_count" /\ ~\E k \in assoc : k.hash = req[t].key.hash
    BY <1>5 DEF OblCount
  <1>6. ASSUME NEW u \in Task, Step(u), ~OblRead(u), ~CopyCheck(u), ~OblCount(u), ~OblPayload(u)
        PROVE  pc[t] \in {"obl_payload", "obl_tomb"} /\ req'[t] = req[t]
    BY <1>6, StepMoves
  <1> QED
    BY <1>1, <1>2, <1>3, <1>4, <1>5, <1>6 DEF Next

\* What a step can take away from the store.
LEMMA Removals ==
  ASSUME TypeInv, OriginalRow, [Next]_vars
  PROVE  /\ \A k \in assoc \ assoc' : \E t \in Task : OblUnassociate(t) /\ k = req[t].key
         /\ \A h \in Hash : s3[h] # NoFrag /\ s3'[h] = NoFrag =>
              \/ \E t \in Task : OblPayload(t) /\ h = req[t].key.hash
              \/ [hash |-> h, frag |-> NoFrag] \in late
         /\ \A h \in Hash :
              [hash |-> h, frag |-> NoFrag] \in late' \ late =>
                \E t \in Task : OblPayload(t) /\ h = req[t].key.hash
         /\ \A h \in Hash : meta[h] # Tombstone /\ meta'[h] = Tombstone =>
              \E t \in Task : OblTombstone(t) /\ h = req[t].key.hash
  <1> USE DEF TypeInv, TypeOK, store
  <1>1. ASSUME NEW k \in assoc \ assoc'
        PROVE  \E t \in Task : OblUnassociate(t) /\ k = req[t].key
    <2>1. ~UNCHANGED assoc
      BY <1>1
    <2>2. PICK t \in Task : Step(t)
      BY <2>1 DEF Next, Begin, Fail, Crash, Arrive, vars
    <2>3. CASE PutCommit(t) \/ CopyAssociate(t)
      BY <1>1, <2>3 DEF PutCommit, CopyAssociate
    <2>4. CASE OblUnassociate(t)
      BY <1>1, <2>4 DEF OblUnassociate
    <2> QED
      BY <2>1, <2>2, <2>3, <2>4
      DEF Step, Resolve, ResolveRow, GetMetadataLoad, GetExists, GetRow, GetObject, GetDone,
          PutCheck, PutObject, PutUpsert, PutAssociate, CopyCheck, OblLoad, OblLock, OblRead,
          OblJoin, OblCount, OblRestore, OblPayload, OblTombstone
  <1>2. ASSUME NEW t \in Task, Step(t), ~PutObject(t), ~OblPayload(t)
        PROVE  UNCHANGED <<s3, late>>
    BY <1>2
    DEF Step, Resolve, ResolveRow, GetMetadataLoad, GetExists, GetRow, GetObject, GetDone,
        PutCheck, PutUpsert, PutAssociate, PutCommit, CopyCheck, CopyAssociate, OblLoad,
        OblLock, OblRead, OblJoin, OblUnassociate, OblCount, OblRestore, OblTombstone
  <1>3. ASSUME NEW t \in Task, PutObject(t) \/ OblPayload(t)
        PROVE  \E f \in Frag \cup {NoFrag} :
                 /\ s3' = s3 \/ s3' = [s3 EXCEPT ![req[t].key.hash] = f]
                 /\ late' \subseteq late \cup {[hash |-> req[t].key.hash, frag |-> f]}
                 /\ f = NoFrag => OblPayload(t)
    <2>1. StoreTyped /\ ControlTyped
      BY TypeParts
    <2>2. CASE PutObject(t)
      <3>1. req[t].frag \in Frag /\ req[t].key.hash \in Hash
        BY <2>2, Shapes DEF PutObject, Control, PutLabel
      <3>2. S3Write(t, req[t].frag, "put_upsert") /\ "put_upsert" \in Label
        BY <2>2 DEF PutObject, Label
      <3>3. /\ s3' = s3 \/ s3' = [s3 EXCEPT ![req[t].key.hash] = req[t].frag]
            /\ late' \subseteq late \cup {[hash |-> req[t].key.hash, frag |-> req[t].frag]}
        BY <2>1, <3>1, <3>2, S3WriteEffect
      <3> QED
        BY <3>1, <3>3, FragAssumption
    <2>3. CASE OblPayload(t)
      <3>1. req[t].key.hash \in Hash
        BY <2>3, Shapes DEF OblPayload, Control, ObliterateLabel
      <3>2. S3Write(t, NoFrag, "obl_tomb") /\ "obl_tomb" \in Label
        BY <2>3 DEF OblPayload, Label
      <3>3. /\ s3' = s3 \/ s3' = [s3 EXCEPT ![req[t].key.hash] = NoFrag]
            /\ late' \subseteq late \cup {[hash |-> req[t].key.hash, frag |-> NoFrag]}
        BY <2>1, <3>1, <3>2, S3WriteEffect
      <3> QED
        BY <2>3, <3>3
    <2> QED
      BY <1>3, <2>2, <2>3
  <1>4. ASSUME NEW h \in Hash, s3[h] # NoFrag, s3'[h] = NoFrag
        PROVE  \/ \E t \in Task : OblPayload(t) /\ h = req[t].key.hash
               \/ [hash |-> h, frag |-> NoFrag] \in late
    <2>1. ~UNCHANGED s3
      BY <1>4
    <2>2. CASE Arrive
      <3>1. PICK w \in late : s3' = [s3 EXCEPT ![w.hash] = w.frag]
        BY <2>2 DEF Arrive
      <3>2. w \in [hash: Hash, frag: Frag \cup {NoFrag}] /\ w.hash = h /\ w.frag = NoFrag
        BY <1>4, <3>1
      <3>3. w = [hash |-> h, frag |-> NoFrag]
        BY <3>2
      <3> QED
        BY <3>3
    <2>3. ASSUME NEW t \in Task, Step(t)
          PROVE  \E u \in Task : OblPayload(u) /\ h = req[u].key.hash
      <3>1. PutObject(t) \/ OblPayload(t)
        BY <1>2, <2>1, <2>3
      <3>2. PICK f \in Frag \cup {NoFrag} :
              /\ s3' = s3 \/ s3' = [s3 EXCEPT ![req[t].key.hash] = f]
              /\ f = NoFrag => OblPayload(t)
        BY <1>3, <3>1
      <3>3. f = NoFrag /\ h = req[t].key.hash
        BY <1>4, <2>1, <3>2
      <3> QED
        BY <3>2, <3>3
    <2>4. Arrive \/ \E t \in Task : Step(t)
      BY <2>1 DEF Next, Begin, Fail, Crash, vars
    <2> QED
      BY <2>2, <2>3, <2>4
  <1>5. ASSUME NEW h \in Hash, [hash |-> h, frag |-> NoFrag] \in late' \ late
        PROVE  \E t \in Task : OblPayload(t) /\ h = req[t].key.hash
    <2>1. ~(late' \subseteq late)
      BY <1>5
    <2>2. PICK t \in Task : Step(t)
      BY <2>1 DEF Next, Begin, Fail, Crash, Arrive, vars
    <2>3. PutObject(t) \/ OblPayload(t)
      BY <1>2, <2>1, <2>2
    <2>4. PICK f \in Frag \cup {NoFrag} :
            /\ late' \subseteq late \cup {[hash |-> req[t].key.hash, frag |-> f]}
            /\ f = NoFrag => OblPayload(t)
      BY <1>3, <2>3
    <2>5. [hash |-> h, frag |-> NoFrag] = [hash |-> req[t].key.hash, frag |-> f]
      BY <1>5, <2>4
    <2>6. f = NoFrag /\ h = req[t].key.hash
      BY <2>5
    <2> QED
      BY <2>4, <2>6
  <1>6. ASSUME NEW h \in Hash, meta[h] # Tombstone, meta'[h] = Tombstone
        PROVE  \E t \in Task : OblTombstone(t) /\ h = req[t].key.hash
    <2>1. ~UNCHANGED meta
      BY <1>6
    <2>2. PICK t \in Task : Step(t)
      BY <2>1 DEF Next, Begin, Fail, Crash, Arrive, vars
    <2>3. CASE PutCommit(t)
      BY <1>6, <2>3 DEF PutCommit, Live, Tombstone
    <2>4. CASE OblLock(t)
      <3>1. Locked(orig[t]) # Tombstone
        BY DEF Locked, Tombstone, Row
      <3> QED
        BY <1>6, <2>4, <3>1 DEF OblLock, CAS
    <2>5. CASE OblRestore(t)
      <3>1. orig[t] # Tombstone
        <4>1. ~Obliteration(orig[t])
          BY <2>5 DEF OblRestore, OriginalRow, ObliterateLabel
        <4>2. Obliteration(Tombstone)
          BY DEF Obliteration, Tombstone
        <4> QED
          BY <4>1, <4>2
      <3> QED
        BY <1>6, <2>5, <3>1 DEF OblRestore, CAS
    <2>6. CASE OblTombstone(t)
      BY <1>6, <2>6 DEF OblTombstone, CAS
    <2> QED
      BY <2>1, <2>2, <2>3, <2>4, <2>5, <2>6
      DEF Step, Resolve, ResolveRow, GetMetadataLoad, GetExists, GetRow, GetObject, GetDone,
          PutCheck, PutObject, PutUpsert, PutAssociate, CopyCheck, CopyAssociate, OblLoad,
          OblRead, OblJoin, OblUnassociate, OblCount, OblPayload
  <1> QED
    BY <1>1, <1>4, <1>5, <1>6

\* SharedPayloadSurvives for every workload and any faults: whatever else of a hash is
\* obliterated, put or copied, an address nobody obliterates keeps its payload.
THEOREM SharedPayloadSafe == Spec => []SharedPayloadSurvives
  <1>1. Init => SharedInv
    BY InitAssumption
    DEF Init, SharedInv, IdleClean, OriginalRow, ObliterateLabel, Deleting, Key, Live, Tombstone
  <1>2. TypeInv /\ SharedInv /\ [Next]_vars => SharedInv'
    <2> SUFFICES ASSUME TypeInv, SharedInv, [Next]_vars PROVE SharedInv'
      OBVIOUS
    <2>1. IdleClean' /\ \A t \in Task : req[t] # NoRequest => req'[t] = req[t]
      BY RequestsKept DEF SharedInv
    <2>2. OriginalRow'
      BY OriginalRowNext DEF SharedInv
    <2>3. ASSUME NEW k \in InitAssoc, ~Condemned(k)'
          PROVE  /\ k \in assoc'
                 /\ s3'[k.hash] # NoFrag
                 /\ meta'[k.hash] # Tombstone
                 /\ \A t \in Task : ~Deleting(t, k.hash)'
                 /\ [hash |-> k.hash, frag |-> NoFrag] \notin late'
      <3>1. ~Condemned(k)
        BY <2>1, <2>3 DEF Condemned, NoRequest
      <3>2. k \in Key /\ k.hash \in Hash
        BY InitAssumption, Shapes
      <3>3. /\ k \in assoc /\ s3[k.hash] # NoFrag /\ meta[k.hash] # Tombstone
            /\ \A t \in Task : ~Deleting(t, k.hash)
            /\ [hash |-> k.hash, frag |-> NoFrag] \notin late
        BY <3>1 DEF SharedInv
      <3>4. k \in assoc'
        <4> SUFFICES ASSUME NEW t \in Task, OblUnassociate(t), k = req[t].key PROVE FALSE
          BY <3>3, Removals DEF SharedInv
        <4>1. req[t].op = "obliterate"
          BY DEF OblUnassociate, TypeInv, Control, ObliterateLabel
        <4> QED
          BY <3>1, <4>1 DEF Condemned
      <3>5. s3'[k.hash] # NoFrag
        BY <3>2, <3>3, Removals DEF SharedInv, OblPayload, Deleting
      <3>6. meta'[k.hash] # Tombstone
        BY <3>2, <3>3, Removals DEF SharedInv, OblTombstone, Deleting
      <3>7. \A t \in Task : ~Deleting(t, k.hash)'
        BY <3>3, DeleteArrives DEF Deleting
      <3>8. [hash |-> k.hash, frag |-> NoFrag] \notin late'
        BY <3>2, <3>3, Removals DEF SharedInv, OblPayload, Deleting
      <3> QED
        BY <3>4, <3>5, <3>6, <3>7, <3>8
    <2> QED
      BY <2>1, <2>2, <2>3 DEF SharedInv
  <1>3. SharedInv => SharedPayloadSurvives
    BY DEF SharedInv, SharedPayloadSurvives
  <1> QED
    BY TypeInit, TypeNext, <1>1, <1>2, <1>3, PTL DEF Spec

\* A compare-and-swap of an obliterate expects a live or a locked row, so it leaves a
\* tombstone alone; the only other writer of rows is the commit of a put.
LEMMA TombstoneStep ==
  ASSUME TypeInv, OriginalRow, [Next]_vars, NEW h \in Hash,
         meta[h] = Tombstone, meta'[h] # Tombstone
  PROVE  \E t \in Task : /\ pc[t] \in {"commit_new", "commit_existing"}
                         /\ pc'[t] = "done" /\ req[t].key.hash = h
  <1> USE DEF TypeInv, TypeOK, store
  <1>1. PICK t \in Task : Step(t)
    BY DEF Next, Begin, Fail, Crash, Arrive, vars
  <1>2. ASSUME PutCommit(t)
        PROVE  pc[t] \in {"commit_new", "commit_existing"} /\ pc'[t] = "done" /\ req[t].key.hash = h
    BY <1>2 DEF PutCommit, ReturnOrLose, Return, LostReply
  <1>3. ASSUME OblLock(t) \/ OblRestore(t) \/ OblTombstone(t) PROVE FALSE
    <2>1. orig[t] # Tombstone /\ Locked(orig[t]) # Tombstone
      BY <1>3 DEF OblLock, OblRestore, OblTombstone, OriginalRow, ObliterateLabel, Obliteration,
                  Tombstone, Locked, Row
    <2>2. CASE OblLock(t)
      BY <2>1, <2>2 DEF OblLock, CAS
    <2>3. CASE OblRestore(t) \/ OblTombstone(t)
      BY <2>1, <2>3 DEF OblRestore, OblTombstone, CAS
    <2> QED
      BY <1>3, <2>2, <2>3
  <1>4. CASE UNCHANGED meta
    BY <1>4
  <1> QED
    BY <1>1, <1>2, <1>3, <1>4
    DEF Step, Resolve, ResolveRow, GetMetadataLoad, GetExists, GetRow, GetObject, GetDone,
        PutCheck, PutObject, PutUpsert, PutAssociate, CopyCheck, CopyAssociate, OblLoad,
        OblRead, OblJoin, OblUnassociate, OblCount, OblPayload

\* TombstoneFinal for every workload and any faults: whatever obliterates of the hash are
\* still under way, with rows loaded and locks taken before it was deleted, none of them
\* revives it.
THEOREM DeletionFinal == Spec => TombstoneFinal
  <1>1. Init => OriginalRow
    BY DEF Init, OriginalRow, ObliterateLabel
  <1>2. TypeInv /\ OriginalRow /\ [Next]_vars => OriginalRow'
    BY OriginalRowNext
  <1>3. TypeInv /\ OriginalRow /\ [Next]_vars =>
          [\A h \in Hash :
             meta[h] = Tombstone /\ meta'[h] # Tombstone =>
               \E t \in Task : /\ pc[t] \in {"commit_new", "commit_existing"}
                               /\ pc'[t] = "done" /\ req[t].key.hash = h]_vars
    BY TombstoneStep
  <1> QED
    BY TypeInit, TypeNext, <1>1, <1>2, <1>3, PTL DEF Spec, TombstoneFinal
=============================================================================
