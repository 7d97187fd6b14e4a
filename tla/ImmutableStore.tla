--------------------------- MODULE ImmutableStore ---------------------------
(***************************************************************************)
(* The Postgres + S3 immutable store (pg_immutable_store.rs).              *)
(*                                                                         *)
(* A request is a task that runs through the awaits of its handler.  Every *)
(* SQL statement or S3 call is one action, because each checks a client    *)
(* out of the pool for itself and commits alone; the one exception is the  *)
(* transaction of write_payload, whose row lock and uncommitted insert     *)
(* last from its first statement to COMMIT.                                *)
(*                                                                         *)
(* A fragment encoding (flags, size_payload, size_content and the bytes    *)
(* they describe) is one element of Frag, so comparing the three columns   *)
(* of a metadata row is comparing elements of Frag.                        *)
(***************************************************************************)
EXTENDS Naturals, Sequences, FiniteSets

CONSTANTS
  Task,        \* handler executions, each used once
  Client,      \* the tasks that serve client requests; the rest run sub-obliterates
  Hash, Partition, Context, ZeroContext,
  Frag,        \* fragment encodings
  NoFrag,      \* no encoding: an absent row or object, or the blank tombstone
  PayloadSize, \* Frag -> Nat: size_payload
  ContentSize, \* Frag -> Nat: size_content
  Refs,        \* Frag -> Seq(Hash): the sub-fragments a fragmented payload lists
  HeaderSize,  \* size_of::<Fragment>()
  ForceWrite,  \* the force_write setting
  Requests,    \* what clients may ask for
  InitFrag,    \* the encoding stored for each hash at the start
  InitAssoc,   \* the addresses associated at the start
  MaxFaults    \* bound: failed calls, lost replies and crashes in a behaviour

Key == [hash: Hash, part: Partition, ctx: Context]

PutRequest == [op: {"put"}, key: Key, frag: Frag, payload: BOOLEAN]
KeyRequest == [op: {"get", "get_metadata", "obliterate"}, key: Key]
QueryRequest == [op: {"query"}, batch: Seq(Key) \ {<<>>}]
CopyRequest == {r \in [op: {"copy"}, key: Key, src: Key] : r.key.hash = r.src.hash}
Request == PutRequest \cup KeyRequest \cup QueryRequest \cup CopyRequest
NoRequest == [op |-> "none"]

\* A row of the metadata table; obl abstracts the two obliteration flags.
Row == [frag: Frag \cup {NoFrag},
        obl: {"absent", "none", "obliterating", "obliterated"}]
NoRow == [frag |-> NoFrag, obl |-> "absent"]
Live(f) == [frag |-> f, obl |-> "none"]
Tombstone == [frag |-> NoFrag, obl |-> "obliterated"]
Locked(row) == [row EXCEPT !.obl = "obliterating"]
Obliteration(row) == row.obl \in {"obliterating", "obliterated"}

ASSUME TaskAssumption == Client \subseteq Task
ASSUME FragAssumption ==
  /\ NoFrag \notin Frag
  /\ PayloadSize \in [Frag -> Nat]
  /\ ContentSize \in [Frag -> Nat]
  /\ Refs \in [Frag -> Seq(Hash)]
ASSUME SettingAssumption ==
  HeaderSize \in Nat /\ ForceWrite \in BOOLEAN /\ MaxFaults \in Nat
ASSUME RequestAssumption == Requests \subseteq Request
ASSUME InitAssumption ==
  /\ InitFrag \in [Hash -> Frag \cup {NoFrag}]
  /\ InitAssoc \subseteq Key
  /\ \A k \in InitAssoc : InitFrag[k.hash] # NoFrag

VARIABLES
  meta,    \* metadata table: hash -> Row
  assoc,   \* fragments table: the set of associated addresses
  s3,      \* bucket: hash -> stored encoding
  late,    \* S3 writes that timed out and are still under way
  pc,      \* the await each task is at
  req,     \* its request
  res,     \* its result
  orig,    \* original_metadata of an obliterate
  seen,    \* what a get has read so far
  hits,    \* match results a query has written so far
  parent,  \* the obliterate that spawned a sub-obliterate (itself otherwise)
  faults   \* faults so far

store == <<meta, assoc, s3, late>>
local == <<orig, seen, hits, parent>>
vars == <<store, pc, req, res, local, faults>>

Unseen == [done |-> {}, row |-> NoRow, object |-> NoFrag]

Init ==
  /\ meta = [h \in Hash |-> IF InitFrag[h] = NoFrag THEN NoRow ELSE Live(InitFrag[h])]
  /\ assoc = InitAssoc
  /\ s3 = InitFrag
  /\ late = {}
  /\ pc = [t \in Task |-> "idle"]
  /\ req = [t \in Task |-> NoRequest]
  /\ res = [t \in Task |-> "none"]
  /\ orig = [t \in Task |-> NoRow]
  /\ seen = [t \in Task |-> Unseen]
  /\ hits = [t \in Task |-> <<>>]
  /\ parent = [t \in Task |-> t]
  /\ faults = 0

-----------------------------------------------------------------------------
(* Control: a task is at a label until it returns; a call may be applied   *)
(* and its reply lost, which the handler sees as an error.                 *)

Running(t) == pc[t] \notin {"idle", "done"}

Goto(t, l) == pc' = [pc EXCEPT ![t] = l] /\ UNCHANGED <<res, faults>>

Return(t, r) ==
  /\ pc' = [pc EXCEPT ![t] = "done"]
  /\ res' = [res EXCEPT ![t] = r]
  /\ UNCHANGED faults

LostReply(t) ==
  /\ faults < MaxFaults
  /\ faults' = faults + 1
  /\ pc' = [pc EXCEPT ![t] = "done"]
  /\ res' = [res EXCEPT ![t] = "err"]

Retried(t, l) ==
  /\ faults < MaxFaults
  /\ faults' = faults + 1
  /\ pc' = [pc EXCEPT ![t] = l]
  /\ UNCHANGED res

\* The reply of a write arrives and the handler goes on, or it does not.
GotoOrLose(t, l) == Goto(t, l) \/ LostReply(t)
ReturnOrLose(t, r) == Return(t, r) \/ LostReply(t)

\* An S3 write of t, a payload or (NoFrag) its deletion, that leads to l when it succeeds.
\* An attempt that times out may be applied later; the handler sees an error then, or
\* success when the SDK's retry went through.
S3Write(t, f, l) ==
  LET h == req[t].key.hash
      apply == s3' = [s3 EXCEPT ![h] = f]
      delay == late' = late \cup {[hash |-> h, frag |-> f]}
  IN  \/ apply /\ UNCHANGED late /\ Goto(t, l)
      \/ UNCHANGED s3 /\ delay /\ LostReply(t)
      \/ apply /\ delay /\ Retried(t, l)

\* Mutant: a transaction that failed keeps its row lock.
MetaLockedLeak(h) ==
  \E t \in Task : /\ \/ pc[t] \in {"put_associate", "commit_new", "commit_existing"}
                     \/ pc[t] = "done" /\ req[t].op = "put" /\ res[t] = "err"
                  /\ req[t].key.hash = h

\* write_payload's open transaction locks the metadata row it has upserted ...
MetaLocked(h) ==
  \E t \in Task : /\ pc[t] \in {"put_associate", "commit_new", "commit_existing"}
                  /\ req[t].key.hash = h
\* ... and an association it has inserted makes other inserts of the key wait.
InsertPending(k) == \E t \in Task : pc[t] = "commit_new" /\ req[t].key = k

Begin(t) ==
  /\ t \in Client /\ pc[t] = "idle"
  /\ \E r \in Requests :
       /\ req' = [req EXCEPT ![t] = r]
       /\ \/ r.op = "obliterate" /\ Goto(t, "obl_load")
          \/ r.op = "copy" /\ Goto(t, "copy_check")
          \/ r.op = "get" /\ Goto(t, "get")
          \/ r.op \in {"put", "query", "get_metadata"} /\ Goto(t, "resolve")
  /\ UNCHANGED <<store, local>>

-----------------------------------------------------------------------------
(* resolve_association, shared by query, get_metadata and put.             *)

Target(t) == IF req[t].op = "query" THEN req[t].batch[Len(hits[t]) + 1]
                                    ELSE req[t].key

\* A query writes one result and moves to the next address of its batch.
QueryResult(t, hit) ==
  /\ hits' = [hits EXCEPT ![t] = Append(@, hit)]
  /\ IF Len(hits[t]) + 1 = Len(req[t].batch) THEN Return(t, "ok") ELSE Goto(t, "resolve")
  /\ UNCHANGED <<orig, seen, parent>>

\* Mutant: the index is written without uploading the object.
PutUnmatchedNoObject(t) ==
  /\ IF req[t].payload THEN Goto(t, "put_upsert") ELSE Return(t, "err")
  /\ UNCHANGED local

\* put with nothing stored under the address: write, if it has the bytes.
PutUnmatched(t) ==
  /\ IF req[t].payload THEN Goto(t, "put_s3") ELSE Return(t, "err")
  /\ UNCHANGED local

NoMatch(t) ==
  \/ req[t].op = "query" /\ QueryResult(t, FALSE)
  \/ req[t].op = "put" /\ PutUnmatched(t)
  \/ req[t].op = "get_metadata" /\ Return(t, "no_match") /\ UNCHANGED local

MatchFull(t) ==
  \/ req[t].op = "query" /\ QueryResult(t, TRUE)
  \/ req[t].op = "put" /\ ~ForceWrite /\ Goto(t, "put_check") /\ UNCHANGED local
  \/ req[t].op = "put" /\ ForceWrite /\ PutUnmatched(t)
  \/ req[t].op = "get_metadata" /\ Goto(t, "gm_load") /\ UNCHANGED local

\* put swallows an error of its query; the others pass it on.
ResolveError(t) ==
  \/ req[t].op = "put" /\ PutUnmatched(t)
  \/ req[t].op # "put" /\ Return(t, "err") /\ UNCHANGED local

Resolve(t) ==
  /\ pc[t] = "resolve"
  /\ IF Target(t) \in assoc THEN Goto(t, "resolve_row") /\ UNCHANGED local ELSE NoMatch(t)
  /\ UNCHANGED <<store, req>>

ResolveRow(t) ==
  /\ pc[t] = "resolve_row"
  /\ LET row == meta[Target(t).hash]
     IN  \/ row = NoRow /\ ResolveError(t)
         \/ Obliteration(row) /\ NoMatch(t)
         \/ row.obl = "none" /\ MatchFull(t)
  /\ UNCHANGED <<store, req>>

GetMetadataLoad(t) ==
  /\ pc[t] = "gm_load"
  /\ LET row == meta[req[t].key.hash]
     IN  Return(t, IF row = NoRow \/ Obliteration(row) THEN "not_found" ELSE "ok")
  /\ UNCHANGED <<store, req, local>>

-----------------------------------------------------------------------------
(* get: the association, the metadata row and the object are read          *)
(* concurrently, so in any order.                                          *)

Read(t, what) == [seen[t] EXCEPT !.done = @ \cup {what}]

\* Mutant: any address of the hash will do.
GetExistsAnyContext(t) ==
  /\ pc[t] = "get" /\ "exists" \notin seen[t].done
  /\ \/ /\ \E k \in assoc : k.hash = req[t].key.hash
        /\ seen' = [seen EXCEPT ![t] = Read(t, "exists")]
        /\ UNCHANGED <<pc, res, faults>>
     \/ req[t].key \notin assoc /\ Return(t, "not_found") /\ UNCHANGED seen
  /\ UNCHANGED <<store, req, orig, hits, parent>>

GetExists(t) ==
  /\ pc[t] = "get" /\ "exists" \notin seen[t].done
  /\ \/ /\ req[t].key \in assoc
        /\ seen' = [seen EXCEPT ![t] = Read(t, "exists")]
        /\ UNCHANGED <<pc, res, faults>>
     \/ req[t].key \notin assoc /\ Return(t, "not_found") /\ UNCHANGED seen
  /\ UNCHANGED <<store, req, orig, hits, parent>>

GetRow(t) ==
  /\ pc[t] = "get" /\ "row" \notin seen[t].done
  /\ seen' = [seen EXCEPT ![t] = [Read(t, "row") EXCEPT !.row = meta[req[t].key.hash]]]
  /\ UNCHANGED <<store, pc, req, res, orig, hits, parent, faults>>

GetObject(t) ==
  /\ pc[t] = "get" /\ "object" \notin seen[t].done
  /\ seen' = [seen EXCEPT ![t] = [Read(t, "object") EXCEPT !.object = s3[req[t].key.hash]]]
  /\ UNCHANGED <<store, pc, req, res, orig, hits, parent, faults>>

\* read_payload: the sizes agree, or the object carries a legacy header.
SizeMatches(object, f) ==
  \/ PayloadSize[object] = PayloadSize[f]
  \/ ForceWrite /\ PayloadSize[object] = PayloadSize[f] + HeaderSize

LoadResult(row, object) ==
  IF row = NoRow \/ Obliteration(row) \/ object = NoFrag THEN "not_found"
  ELSE IF SizeMatches(object, row.frag) THEN "ok" ELSE "err"

\* The association is there, and either the row rules the payload out or both are read.
GetDone(t) ==
  LET s == seen[t]
      noPayload == s.row = NoRow \/ Obliteration(s.row)
  IN  /\ pc[t] = "get" /\ {"exists", "row"} \subseteq s.done
      /\ noPayload \/ "object" \in s.done
      /\ Return(t, LoadResult(s.row, s.object))
      /\ UNCHANGED <<store, req, local>>

-----------------------------------------------------------------------------
(* put, from a full match on: nothing is written, whatever the row says.   *)

PutCheck(t) ==
  /\ pc[t] = "put_check"
  /\ LET row == meta[req[t].key.hash]
         collision == /\ row.obl # "obliterated"
                      /\ ContentSize[req[t].frag] # ContentSize[row.frag]
     IN  Return(t, IF row = NoRow \/ row.obl = "obliterating" \/ collision
                     THEN "err" ELSE "ok")
  /\ UNCHANGED <<store, req, local>>

\* Mutant: the object is keyed by the whole address.
PutObjectPerAddress(t) ==
  /\ pc[t] = "put_s3"
  /\ s3' = [k \in DOMAIN s3 \cup {req[t].key} |-> IF k = req[t].key THEN req[t].frag ELSE s3[k]]
  /\ GotoOrLose(t, "put_upsert")
  /\ UNCHANGED <<meta, assoc, late, req, local>>

\* Mutant: a failed upload is ignored.
PutObjectUnchecked(t) ==
  /\ pc[t] = "put_s3"
  /\ s3' \in {s3, [s3 EXCEPT ![req[t].key.hash] = req[t].frag]}
  /\ GotoOrLose(t, "put_upsert")
  /\ UNCHANGED <<meta, assoc, late, req, local>>

\* write_payload: the object first, then both rows in one transaction.
PutObject(t) ==
  /\ pc[t] = "put_s3"
  /\ S3Write(t, req[t].frag, "put_upsert")
  /\ UNCHANGED <<meta, assoc, req, local>>

\* Mutant: the old association is deleted ahead of the transaction.
PutUpsertReplaces(t) ==
  /\ pc[t] = "put_upsert" /\ ~MetaLocked(req[t].key.hash)
  /\ assoc' = assoc \ {req[t].key}
  /\ Goto(t, "put_associate")
  /\ UNCHANGED <<meta, s3, late, req, local>>

PutUpsert(t) ==
  /\ pc[t] = "put_upsert" /\ ~MetaLocked(req[t].key.hash)
  /\ Goto(t, "put_associate")
  /\ UNCHANGED <<store, req, local>>

\* Mutant: the association is inserted outside the transaction.
PutAssociateAutocommit(t) ==
  /\ pc[t] = "put_associate"
  /\ assoc' = assoc \cup {req[t].key}
  /\ Goto(t, "commit_existing")
  /\ UNCHANGED <<meta, s3, late, req, local>>

\* ON CONFLICT DO NOTHING: an association already there is left alone.
PutAssociate(t) ==
  /\ pc[t] = "put_associate"
  /\ Goto(t, IF req[t].key \in assoc THEN "commit_existing" ELSE "commit_new")
  /\ UNCHANGED <<store, req, local>>

PutCommit(t) ==
  LET k == req[t].key
  IN  /\ pc[t] \in {"commit_new", "commit_existing"}
      /\ meta' = [meta EXCEPT ![k.hash] = Live(req[t].frag)]
      /\ assoc' = IF pc[t] = "commit_new" THEN assoc \cup {k} ELSE assoc
      /\ ReturnOrLose(t, "ok")
      /\ UNCHANGED <<s3, late, req, local>>

-----------------------------------------------------------------------------
(* copy: an association of the source is enough; a zero context asks for   *)
(* any address of the hash in the source partition.                        *)

SourceExists(src) ==
  \E k \in assoc : /\ k.hash = src.hash /\ k.part = src.part
                   /\ src.ctx = ZeroContext \/ k.ctx = src.ctx

CopyCheck(t) ==
  /\ pc[t] = "copy_check"
  /\ IF SourceExists(req[t].src) THEN Goto(t, "copy_associate") ELSE Return(t, "not_found")
  /\ UNCHANGED <<store, req, local>>

CopyAssociate(t) ==
  /\ pc[t] = "copy_associate" /\ ~InsertPending(req[t].key)
  /\ assoc' = assoc \cup {req[t].key}
  /\ ReturnOrLose(t, "ok")
  /\ UNCHANGED <<meta, s3, late, req, local>>

-----------------------------------------------------------------------------
(* obliterate.  update_metadata_cas waits for a transaction that holds the *)
(* row, then compares all three columns.                                   *)

CAS(h, expected, updated) ==
  IF meta[h] = expected THEN meta' = [meta EXCEPT ![h] = updated] ELSE UNCHANGED meta

\* Mutant: a row under obliteration is not recognised as locked.
OblLoadUnguarded(t) ==
  /\ pc[t] = "obl_load"
  /\ LET row == meta[req[t].key.hash]
     IN  IF row = NoRow \/ row.obl = "obliterated"
           THEN /\ Return(t, IF row = NoRow THEN "not_found" ELSE "skipped")
                /\ UNCHANGED orig
           ELSE Goto(t, "obl_lock") /\ orig' = [orig EXCEPT ![t] = row]
  /\ UNCHANGED <<store, req, seen, hits, parent>>

OblLoad(t) ==
  /\ pc[t] = "obl_load"
  /\ LET row == meta[req[t].key.hash]
     IN  IF row = NoRow \/ Obliteration(row)
           THEN /\ Return(t, IF row = NoRow THEN "not_found" ELSE "skipped")
                /\ UNCHANGED orig
           ELSE Goto(t, "obl_lock") /\ orig' = [orig EXCEPT ![t] = row]
  /\ UNCHANGED <<store, req, seen, hits, parent>>

OblLock(t) ==
  LET h == req[t].key.hash
      fragmented == Refs[orig[t].frag] # <<>>
  IN  /\ pc[t] = "obl_lock" /\ ~MetaLocked(h)
      /\ CAS(h, orig[t], Locked(orig[t]))
      /\ IF meta[h] = orig[t]
           THEN GotoOrLose(t, IF fragmented THEN "obl_read" ELSE "obl_unassoc")
           ELSE Return(t, "err")
      /\ UNCHANGED <<assoc, s3, late, req, local>>

Children(t) == {c \in Task \ {t} : parent[c] = t}

\* One sub-obliterate per listed reference, on tasks no client uses.
Spawn(t, refs) ==
  \E child \in [DOMAIN refs -> {c \in Task \ Client : pc[c] = "idle"}] :
    /\ \A i, j \in DOMAIN refs : child[i] = child[j] => i = j
    /\ LET new == {child[i] : i \in DOMAIN refs}
           index(c) == CHOOSE i \in DOMAIN refs : child[i] = c
           sub(c) == [op |-> "obliterate",
                      key |-> [req[t].key EXCEPT !.hash = refs[index(c)]]]
       IN  /\ req' = [c \in Task |-> IF c \in new THEN sub(c) ELSE req[c]]
           /\ parent' = [c \in Task |-> IF c \in new THEN t ELSE parent[c]]
           /\ pc' = [c \in Task |-> IF c = t THEN "obl_join"
                                    ELSE IF c \in new THEN "obl_load" ELSE pc[c]]
           /\ UNCHANGED <<res, faults>>

OblRead(t) ==
  LET object == s3[req[t].key.hash]
  IN  /\ pc[t] = "obl_read"
      /\ IF object # NoFrag /\ SizeMatches(object, orig[t].frag)
           THEN Spawn(t, Refs[object])
           ELSE Return(t, IF object = NoFrag THEN "not_found" ELSE "err")
                /\ UNCHANGED <<req, parent>>
      /\ UNCHANGED <<store, orig, seen, hits>>

Failed(c) == res[c] \notin {"ok", "skipped"}

\* Mutant: the parent waits for every child to succeed.
OblJoinAllOk(t) ==
  /\ pc[t] = "obl_join"
  /\ \A c \in Children(t) : pc[c] = "done" /\ ~Failed(c)
  /\ Goto(t, "obl_unassoc")
  /\ UNCHANGED <<store, req, local>>

\* Mutant: the parent forgets its own association.
OblJoinToCount(t) ==
  /\ pc[t] = "obl_join"
  /\ \A c \in Children(t) : pc[c] = "done"
  /\ IF \E c \in Children(t) : Failed(c) THEN Return(t, "err") ELSE Goto(t, "obl_count")
  /\ UNCHANGED <<store, req, local>>

OblJoin(t) ==
  /\ pc[t] = "obl_join"
  /\ \A c \in Children(t) : pc[c] = "done"
  /\ IF \E c \in Children(t) : Failed(c) THEN Return(t, "err") ELSE Goto(t, "obl_unassoc")
  /\ UNCHANGED <<store, req, local>>

\* Mutant: the delete leaves the context out.
OblUnassociatePartition(t) ==
  /\ pc[t] = "obl_unassoc"
  /\ assoc' = {k \in assoc : k.hash # req[t].key.hash \/ k.part # req[t].key.part}
  /\ GotoOrLose(t, "obl_count")
  /\ UNCHANGED <<meta, s3, late, req, local>>

OblUnassociate(t) ==
  /\ pc[t] = "obl_unassoc"
  /\ assoc' = assoc \ {req[t].key}
  /\ GotoOrLose(t, "obl_count")
  /\ UNCHANGED <<meta, s3, late, req, local>>

\* Mutant: off by one, as if the deleted association were still counted.
OblCountMoreThanOne(t) ==
  /\ pc[t] = "obl_count"
  /\ Goto(t, IF Cardinality({k \in assoc : k.hash = req[t].key.hash}) > 1
               THEN "obl_restore" ELSE "obl_payload")
  /\ UNCHANGED <<store, req, local>>

OblCount(t) ==
  /\ pc[t] = "obl_count"
  /\ Goto(t, IF \E k \in assoc : k.hash = req[t].key.hash THEN "obl_restore" ELSE "obl_payload")
  /\ UNCHANGED <<store, req, local>>

\* Mutant: the row is restored without comparing it.
OblRestoreBlind(t) ==
  LET h == req[t].key.hash
  IN  /\ pc[t] = "obl_restore" /\ ~MetaLocked(h)
      /\ meta' = [meta EXCEPT ![h] = orig[t]]
      /\ ReturnOrLose(t, "ok")
      /\ UNCHANGED <<assoc, s3, late, req, local>>

OblRestore(t) ==
  LET h == req[t].key.hash
  IN  /\ pc[t] = "obl_restore" /\ ~MetaLocked(h)
      /\ CAS(h, Locked(orig[t]), orig[t])
      /\ ReturnOrLose(t, IF meta[h] = Locked(orig[t]) THEN "ok" ELSE "err")
      /\ UNCHANGED <<assoc, s3, late, req, local>>

\* Mutant: a failed deletion is ignored.
OblPayloadUnchecked(t) ==
  /\ pc[t] = "obl_payload"
  /\ s3' \in {s3, [s3 EXCEPT ![req[t].key.hash] = NoFrag]}
  /\ GotoOrLose(t, "obl_tomb")
  /\ UNCHANGED <<meta, assoc, late, req, local>>

OblPayload(t) ==
  /\ pc[t] = "obl_payload"
  /\ S3Write(t, NoFrag, "obl_tomb")
  /\ UNCHANGED <<meta, assoc, req, local>>

OblTombstone(t) ==
  LET h == req[t].key.hash
  IN  /\ pc[t] = "obl_tomb" /\ ~MetaLocked(h)
      /\ CAS(h, Locked(orig[t]), Tombstone)
      /\ ReturnOrLose(t, IF meta[h] = Locked(orig[t]) THEN "ok" ELSE "err")
      /\ UNCHANGED <<assoc, s3, late, req, local>>

-----------------------------------------------------------------------------
(* Faults: a call that fails without effect, and a crash of the server,    *)
(* which rolls back open transactions and leaves everything else.          *)

Fail(t) ==
  /\ Running(t) /\ pc[t] # "obl_join" /\ faults < MaxFaults
  /\ faults' = faults + 1
  /\ IF req[t].op = "put" /\ pc[t] \in {"resolve", "resolve_row"} /\ req[t].payload
       THEN pc' = [pc EXCEPT ![t] = "put_s3"] /\ UNCHANGED res
       ELSE pc' = [pc EXCEPT ![t] = "done"] /\ res' = [res EXCEPT ![t] = "err"]
  /\ UNCHANGED <<store, req, local>>

Crash ==
  /\ faults < MaxFaults /\ \E t \in Task : Running(t)
  /\ faults' = faults + 1
  /\ pc' = [t \in Task |-> IF Running(t) THEN "done" ELSE pc[t]]
  /\ res' = [t \in Task |-> IF Running(t) THEN "lost" ELSE res[t]]
  /\ UNCHANGED <<store, req, local>>

\* A write that timed out reaches the bucket after all.
Arrive ==
  /\ \E w \in late : s3' = [s3 EXCEPT ![w.hash] = w.frag] /\ late' = late \ {w}
  /\ UNCHANGED <<meta, assoc, pc, req, res, local, faults>>

Step(t) ==
  \/ Resolve(t) \/ ResolveRow(t) \/ GetMetadataLoad(t)
  \/ GetExists(t) \/ GetRow(t) \/ GetObject(t) \/ GetDone(t)
  \/ PutCheck(t) \/ PutObject(t) \/ PutUpsert(t) \/ PutAssociate(t) \/ PutCommit(t)
  \/ CopyCheck(t) \/ CopyAssociate(t)
  \/ OblLoad(t) \/ OblLock(t) \/ OblRead(t) \/ OblJoin(t) \/ OblUnassociate(t)
  \/ OblCount(t) \/ OblRestore(t) \/ OblPayload(t) \/ OblTombstone(t)

Next == Crash \/ Arrive \/ \E t \in Task : Begin(t) \/ Step(t) \/ Fail(t)

Spec == Init /\ [][Next]_vars

\* The async runtime polls every task whose call has completed.
FairSpec == Spec /\ \A t \in Task : WF_vars(Step(t))

-----------------------------------------------------------------------------
(* Correctness.                                                            *)

Label == {"idle", "done", "resolve", "resolve_row", "gm_load", "get",
          "put_check", "put_s3", "put_upsert", "put_associate", "commit_new",
          "commit_existing", "copy_check", "copy_associate", "obl_load",
          "obl_lock", "obl_read", "obl_join", "obl_unassoc", "obl_count",
          "obl_restore", "obl_payload", "obl_tomb"}

\* Every variable keeps its type: rows, objects, control points and results.
TypeOK ==
  /\ meta \in [Hash -> Row]
  /\ assoc \subseteq Key
  /\ s3 \in [Hash -> Frag \cup {NoFrag}]
  /\ late \subseteq [hash: Hash, frag: Frag \cup {NoFrag}]
  /\ pc \in [Task -> Label]
  /\ req \in [Task -> Request \cup {NoRequest}]
  /\ res \in [Task -> {"none", "ok", "err", "lost", "not_found", "no_match", "skipped"}]
  /\ orig \in [Task -> Row]
  /\ seen \in [Task -> [done: SUBSET {"exists", "row", "object"},
                        row: Row, object: Frag \cup {NoFrag}]]
  /\ hits \in [Task -> Seq(BOOLEAN)]
  /\ parent \in [Task -> Task]
  /\ faults \in Nat

Done(t, op) == req[t].op = op /\ pc[t] = "done"
Quiescent == \A t \in Task : ~Running(t)
\* Somebody has asked for this address to be obliterated (a parent included).
Condemned(k) == \E t \in Task : req[t].op = "obliterate" /\ req[t].key = k
\* Somebody has asked for this address to be put or copied to.
Written(k) == \E t \in Task : req[t].op \in {"put", "copy"} /\ req[t].key = k
\* An obliterate is between taking the lock on the row of h and giving it back.
Holds(t, h) ==
  /\ req[t].op = "obliterate" /\ req[t].key.hash = h
  /\ pc[t] \in {"obl_read", "obl_join", "obl_unassoc", "obl_count", "obl_restore",
                "obl_payload", "obl_tomb"}

\* No partial index: an association never exists without a metadata row, although
\* copy adds associations from a check it made one statement earlier.
AssocHasMetadata == \A k \in assoc : meta[k.hash] # NoRow

\* The lock of obliterate is exclusive: between acquiring and releasing it the row is
\* exactly what the holder wrote, and no other task holds it (no puts in the workload).
ObliterationLock ==
  \A t \in Task, h \in Hash :
    Holds(t, h) => /\ meta[h] = Locked(orig[t])
                   /\ \A u \in Task : Holds(u, h) => u = t

\* An address that is associated and not locked or obliterated has its bytes in the
\* bucket, in the encoding its row describes (no puts in the workload).
LiveHasPayload ==
  \A k \in assoc : meta[k.hash].obl = "none" => s3[k.hash] = meta[k.hash].frag

\* A tombstone is a promise that the bytes are gone: no failed, repeated or delayed
\* deletion leaves them behind (no puts in the workload).
TombstoneHasNoPayload == \A h \in Hash : meta[h] = Tombstone => s3[h] = NoFrag

\* The payload of an address nobody obliterates survives whatever is done to the other
\* addresses of its hash: it stays associated, stored, and is never tombstoned.
SharedPayloadSurvives ==
  \A k \in InitAssoc :
    ~Condemned(k) => /\ k \in assoc
                     /\ s3[k.hash] # NoFrag
                     /\ meta[k.hash] # Tombstone

\* An acknowledged put or copy keeps its association until that very address is
\* obliterated; sibling contexts and partitions do not touch it.
AckedAssociationStays ==
  \A t \in Task :
    /\ Done(t, "put") \/ Done(t, "copy")
    /\ res[t] = "ok"
    /\ ~Condemned(req[t].key)
    => req[t].key \in assoc

\* Once nothing runs, an acknowledged put can be loaded: association, live row and an
\* object of the size the row says.  ("self-healing", pg_immutable_store.rs:617-618)
AckedPutReadable ==
  Quiescent =>
    \A t \in Task :
      Done(t, "put") /\ res[t] = "ok" /\ ~Condemned(req[t].key)
      => LET h == req[t].key.hash
         IN  req[t].key \in assoc /\ LoadResult(meta[h], s3[h]) = "ok"

\* write_payload's order: a row is never visible before its object is in the bucket
\* (no obliterates in the workload).
PayloadBeforeIndex == \A h \in Hash : meta[h] # NoRow => s3[h] # NoFrag

\* A preloaded address whose hash nobody obliterates is never reported missing, by any
\* of the three read paths, whatever puts, copies and faults go on.
CorpusVisible ==
  \A k \in InitAssoc :
    (~\E t \in Task : req[t].op = "obliterate" /\ req[t].key.hash = k.hash) =>
      \A t \in Task :
        /\ (Done(t, "get") \/ Done(t, "get_metadata")) /\ req[t].key = k
             => res[t] \in {"ok", "err", "lost"}
        /\ req[t].op = "query"
             => \A i \in DOMAIN hits[t] : req[t].batch[i] = k => hits[t][i]

\* Exact matching: a read never vouches for an address that was neither preloaded nor
\* put nor copied, even when a sibling address of the same hash exists.
ReadsAreExact ==
  \A t \in Task :
    /\ Done(t, "get") \/ Done(t, "get_metadata")
         => (res[t] = "ok" => req[t].key \in InitAssoc \/ Written(req[t].key))
    /\ req[t].op = "query"
         => \A i \in DOMAIN hits[t] :
              hits[t][i] => req[t].batch[i] \in InitAssoc \/ Written(req[t].batch[i])

\* An obliterate that ran to its end has removed its address, unless a put or a copy
\* asked for the address too.
ObliteratedStaysGone ==
  \A t \in Task :
    Done(t, "obliterate") /\ res[t] = "ok" /\ ~Written(req[t].key) => req[t].key \notin assoc

\* Once nothing runs, every obliterate answered with Ok has taken effect.
\* ("already being or has been obliterated", pg_immutable_store.rs:1009)
ObliterateAckEffective ==
  Quiescent =>
    \A t \in Task :
      Done(t, "obliterate") /\ res[t] \in {"ok", "skipped"} /\ ~Written(req[t].key)
      => req[t].key \notin assoc

\* A tombstone is final: only the commit of a put brings the hash back.
TombstoneFinal ==
  [][\A h \in Hash :
       meta[h] = Tombstone /\ meta'[h] # Tombstone =>
         \E t \in Task : /\ pc[t] \in {"commit_new", "commit_existing"}
                         /\ pc'[t] = "done" /\ req[t].key.hash = h]_vars

\* Nothing waits for ever: row locks, parents joining children and lost replies
\* included, every request that starts returns.
RequestsReturn == \A t \in Task : Running(t) ~> pc[t] = "done"
=============================================================================
