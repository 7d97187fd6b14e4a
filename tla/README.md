# Verification of the lore-stack storage plugin

lore-stack is a storage backend for the Lore version-control server: a Rust crate
(`lore-pg`) and the glue (`overlay/pg.rs`) that plugs it into `loreserver`. All state is
outside the process, in PostgreSQL and in an S3-compatible bucket. Requests run
concurrently on an async runtime, several servers may share the database, and nothing but
SQL statements, transactions and the order of calls coordinates them. That coordination is
what these TLA+ modules describe.

Paths below are relative to the repository; `store/` is `lore-pg/src/store/`.

## Inventory

| Part | State | Operations | Hard behaviour | What makes it correct |
| --- | --- | --- | --- | --- |
| Immutable store, `store/pg_immutable_store.rs` | table `fragments` (hash, repository, context), table `fragments_meta` (hash -> flags, sizes), bucket (hash -> bytes) | put, get, get_metadata, query, copy, obliterate; evict, compact, flush, verify do nothing; fragment_count, max_query_batch | one handler is up to ten independent statements and S3 calls; deduplication by hash shares row and object among addresses; obliterate locks a row by a compare-and-swap on its flags and spawns sub-obliterates; only write_payload has a transaction; any call may fail or take effect and lose its reply; crashes | acknowledged data readable; shared payloads outlive the deletion of one address; partitions and contexts isolated; index complete; deletions take effect; everybody returns |
| Mutable store, `store/pg_mutable_store.rs` | table (repository, typed key) -> hash | load, store, compare_and_swap, list | compare_and_swap is a transaction under an advisory lock, store is a lone statement without it; zero and absent are equal to readers; list runs in a spawned task and swallows errors | an atomic register per key, witness consistent |
| Lock store, `store/pg_lock_store.rs` | table (repository, branch, hash) -> owner, description, time | lock_resources, unlock_resources, check_locks_status, query_locks | batches in one READ COMMITTED transaction, each statement with its own snapshot; row waits; deadlock avoided by a canonical order; second SELECT to explain a statement that changed nothing | mutual exclusion, all or nothing, no deadlock, true reasons |
| Connection pool, `lore-pg/src/tls.rs` | connections lent and requests waiting, in order; five a store by default, no timeouts | make_pool, get, drop | a handler that holds a connection while a call of its own asks for another can block everybody (`store/pg_immutable_store.rs:789`); a connection a failed call keeps is gone | the bound holds, no slot is lost, every waiter is served |
| Start-up, `overlay/pg.rs` and the three `ensure_schema` | the four tables and their indexes | factories, CREATE ... IF NOT EXISTS | several servers starting at once and beside running ones; a start that fails or is killed halfway, and what its backend still does then; indexes built while puts run | a serving process finds every table and index; every server serves in the end; nobody's writes are blocked for ever; the ceiling of connections holds |
| S3 wrapper, `lore-pg/src/s3.rs` | none | put, get, delete | attempts that time out and are applied later, after the SDK's retry or the handler's error | the stores' properties hold with them |
| Telemetry and error glue (`lib.rs`, `aws_error.rs`), build, configuration and deployment | none of the store's | - | - | - |

The three stores do not call each other. They share the database server, and the pattern
of the connection pool. A client meets them together through the Lore protocol, which is
upstream code and not part of the repository.

## Modules

| Module | What it is |
| --- | --- |
| `ImmutableStore` | the immutable store; `MCImmutable` holds its corpora and workloads |
| `ImmutableStoreProofs`, `AssociationProofs`, `ObliterationProofs`, `ReadProofs` | theorems about it: types, index and shared payloads; acknowledged and deleted associations; the lock of obliterate and its payloads; what reads answer. Each extends the one before |
| `ConnectionPool` | a bounded pool that serves its waiters in order |
| `PooledImmutableStore` | the immutable store with every SQL statement behind a checkout, composed of the two; `MCPooled` instantiates it |
| `PooledProofs` | its refinement of `ImmutableStore`, and theorems about the pool and its clients |
| `MutableRegister` | what a mutable store promises: an atomic register per slot |
| `MutableStore` | the Postgres mutable store, which implements `MutableRegister`; `MCMutable` instantiates it |
| `MutableStoreProofs` | theorems about it, the refinement among them |
| `LockStore` | the lock store; `MCLock` instantiates it |
| `LockStoreProofs` | theorems about it |
| `Startup` | factories and schema creation of the servers on one database; `MCStartup` instantiates it |
| `StartupProofs` | theorems about it |

The three stores follow one scheme. `Task` is a set of handler executions, each used once; a task
is `idle`, then at a label that names its next SQL statement or S3 call, then `done` with a
result in `res`. `Begin` picks any request out of `Requests`. Each statement is one action:
Postgres executes a statement atomically under READ COMMITTED, except that it may wait,
which is a guard, and that a DELETE first finds its row and then waits for it, which are
two actions in `LockStore`. `Fail` makes any call fail without effect, `LostReply` lets it
take effect and reports an error, `Crash` ends all running handlers and rolls back what is
open. `MaxFaults` bounds all three together.

A definition whose comment begins with "Mutant" is a plausible bug in the definition below
it, to see that the properties notice. No action of a specification uses it.

### ImmutableStore

`meta`, `assoc` and `s3` are the two tables and the bucket. A fragment encoding (flags,
size_payload, size_content and bytes) is an element of `Frag`; two encodings of one content
have different sizes (`PayloadSize`) and one `ContentSize`. `Refs` lists the sub-fragments
of a fragmented payload. The obliteration flags of a row are its field `obl`.

- put: `Resolve`, `ResolveRow` (resolve_association and its load_metadata), then
  `PutCheck` on a match (obliterating, hash collision, else nothing to do) or
  `PutObject`, `PutUpsert`, `PutAssociate`, `PutCommit` (write_payload: upload, then one
  transaction). The upsert locks the metadata row until the end (`MetaLocked`), and an
  uncommitted association makes another insert of the same key wait (`InsertPending`).
  An error of the query is swallowed and leads to a write (`ResolveError`, `Fail`).
- get: `GetExists`, `GetRow`, `GetObject` in any order, as the futures are polled
  together, and `GetDone`.
- query, get_metadata: `Resolve` and `ResolveRow` per address, `GetMetadataLoad`.
- copy: `CopyCheck` and `CopyAssociate`.
- obliterate: `OblLoad`, `OblLock` (the CAS to obliterating), `OblRead` which spawns a task
  per reference, `OblJoin`, `OblUnassociate`, `OblCount`, then `OblRestore`, or
  `OblPayload` and `OblTombstone`.

The bucket is written through `S3Write`. An attempt that times out stays in `late` and may
be applied at any later time (`Arrive`), or never; the handler sees an error, or success
when the SDK's retry went through (`Retried`). A payload that a timed-out deletion removes
after the handler's error, and an upload that arrives after a later obliterate, are in the
model this way. A crash of the server does not take a late write back.

### PooledImmutableStore

`Get` hands a slot to a checkout or appends it to `queue`; `Drop` gives slots to the head of
what the drop leaves of the queue, `Without`. That operator is written by rank, so that it
can be reasoned about; `WithoutSelects`, an assumption of `MCPooled` that TLC evaluates,
compares it with the `SelectSeq` it stands for. `Needs(t)` names the clients the calls a task is at must hold, `Kept(t)` those
that outlive its next step: one for the transaction of write_payload and one for each of
the two lookups of a get; every other statement checks out its own and drops it with the
function that asked (`get_client`). A failure drops what the task holds and waits for, a
crash empties the pool. The handlers of the mutable and of the lock store check out one
client first, hold it to their end and ask for no other (`list`'s spawned task included),
so their pool can only delay them, and they are not composed with it.

### MutableStore

A slot is (repository, typed key). `CasLock`, `CasSelect`, `CasWrite`, `CasCommit` are the
statements of compare_and_swap; `LockOf` is the 64-bit hash behind the advisory lock, an
arbitrary function, so collisions are covered. `Store` waits only for a row that an open
compare_and_swap has written. A stored zero is a row (`CasCommit` keeps it), and `Read`
makes it equal to no row. `List` is the SELECT of the spawned task; its failure gives the
empty listing the caller then sees.

`MutableRegister` is the abstract specification: every operation is one atomic step on a
register, an error has taken effect or has not. `AtomicRegister` instantiates it with
`reg[s] = Read(s)` and every running task as pending.

### LockStore

`rows` is the table; a row remembers the task that wrote it, which tells it from an earlier
row of the same lock. An open transaction has `inserted` and `deleted` rows nobody else
sees. `Turn` walks the resources in ascending order without duplicates (`sort`, `dedup`).
`Insert` waits for any open transaction that has inserted or deleted its row, `DeleteRow`
for one that has deleted it; neither SELECT waits. `DeleteScan` is the snapshot of a DELETE
and `DeleteRow` what it does after waiting, when the row found may be gone and another in
its place. The order of resources is taken to be branch, hash, description, the order of
the fields of LockResource; the type itself is upstream code.

### Startup

`Script` is what the three `ensure_schema` send, statement by statement; statements of one
`batch` are one implicit transaction, as `batch_execute` sends them. A session walks the
script: `Check` is the look of IF NOT EXISTS at what is committed, which for an index first
takes the lock that keeps writers of the table out (and waits for open puts), `Create`
waits for another session's creation of the same name and fails if that one commits, and
`Commit` goes on to the next batch, the next store (`Connect`, a new pool and a new
connection) or to serving. An error ends the process (`Exit`), and `Start` is the container
starting it again. `Kill` takes the process and leaves its backend to finish the batch it
was sent; `life` numbers the processes of a server, so that such an orphan is told from the
session of the next process. `Grow` opens connections of a serving process, and the writers
(`WriteMetadata`, `WriteAssociation`, `WriteCommit`) are write_payload's transaction as far
as its table locks go. A connection is refused when `Ceiling` is reached; a start that is
refused at once is no step.

Assumed of Postgres: READ COMMITTED as documented, an INSERT ON CONFLICT DO NOTHING that
waits for in-progress inserters and deleters of its key, locks granted to a waiter when
they are free, transactions rolled back when their connection is lost (at once, for the
writers of `Startup`), SHARE locks of CREATE INDEX that conflict with writers and are
granted in order.

## Runs

The runs of the stores disable TLC's deadlock check because tasks are used once: when all
are done nothing happens any more. Waiting for ever is excluded by `RequestsReturn`,
`NoDeadlock` and `PoolTransparent` instead. `startup` disables it for the same purpose:
servers that serve, with all connections open, need not do anything.

| Run | Instance | Shows |
| --- | --- | --- |
| `imm_mixed` | 3 requests, 5 kinds: put, two obliterates, zero-context copy, get; one hash with two addresses; 1 fault | `SharedPayloadSurvives`, `AckedAssociationStays`, `ReadsAreExact`, `TombstoneFinal`, `RequestsReturn` |
| `imm_obliterate` | 3 requests and 1 spawned task: obliterates of a tree, of its sub-fragment under two contexts, a copy; 1 fault | `ObliterationLock`, `LiveHasPayload`, `TombstoneHasNoPayload`, `ObliteratedStaysGone`, `RequestsReturn` |
| `imm_write` | 3 requests: puts (one without payload), copy, get, get_metadata, query of two addresses; force_write; 1 fault | `AssocHasMetadata`, `AckedPutReadable`, `PayloadBeforeIndex`, `CorpusVisible` |
| `imm_pooled` | 2 requests and 1 spawned task on pools of 1 and 2 connections: put, obliterate of a tree, get, get_metadata, query; 1 fault | `PoolSound`, `ClientsInUse`, `NoHoldAndWait`, `PoolTransparent` |
| `mutable_swap` | 3 requests: swaps of an absent pointer from and to zero, two spellings of a key, two keys behind one advisory lock, stores and loads, lists; 1 fault | `WitnessCurrent`, `AtomicRegister`, `RequestsReturn` |
| `lock_batches` | 3 requests: batches of two owners over four locks in opposite orders with duplicates, validated and forced unlocks, status, query; 1 fault | `NoDeadlock`, `GrantSurvives`, `RefusedLeavesNothing`, `StatusOfAsked`, `RequestsReturn` |
| `startup` | 2 servers, pools of at most 2 connections, a ceiling of 12; 1 kill or crash of Postgres | `TypeOK`, `ServingHasSchema`, `TablesComplete`, `EventuallyServing`, `WritesFinish` |
| `imm_lost_put` | one put, one obliterate of another address of the hash | violates `AckedPutReadable` |
| `imm_reencode` | two puts of one hash in two encodings | violates `AckedPutReadable` |
| `imm_skipped` | obliterates of both addresses of a hash | violates `ObliterateAckEffective` |
| `mutable_store_race` | a store and a swap of one pointer | violates `Serializable` |
| `lock_unlock_race` | a lock and a validated unlock of one resource by one owner | violates `RefusalIsTrue` |

`TypeOK` is checked once a module. Every property is stated and explained where it is
defined.

Three tasks are enough for two conflicting handlers and a third that disturbs or observes
them, and each known race needs two. One fault places one failure, lost reply or crash at
every point of a behaviour; two faults multiply the states and lead to states that
one fault reaches in another behaviour, since nothing in the code counts failures. Two
contexts of a hash are the least that makes deletion choose between restore and tombstone;
a tree of one sub-fragment makes obliterate spawn and join. Four locks give two
overlapping batches in every order. The pool's default of 5 is 2 in `imm_pooled`, and a
setting of 1 is the size at which any second checkout would wait for the first; unset and
zero both fall back. Two servers give every race of two start-ups and of a start-up with a
running server; the ceiling is just what two servers with full pools need, and an orphaned
backend makes it too low for a while. `ObliterationLock` and `LiveHasPayload` are about
workloads without puts, and `PayloadBeforeIndex` about workloads without obliterates: the
findings below are what happens otherwise.

### Fairness

`FairSpec` has weak fairness of `Step(t)` for each task: the runtime polls every task whose
call has completed, Postgres completes a statement that has nothing to wait for, and grants
a lock to a waiter once it is free. Nothing makes requests arrive, or faults happen. As
tasks are used once, a waiter competes with finitely many others, so no stronger fairness
is needed.

`PooledSpec` has it of `GetClient(t)`, a runtime that polls the checkout, and of
`PooledStep(t)`, a task that goes on once it has its clients. Nothing is assumed of waiting
checkouts but the order of the queue, and `PoolTransparent` is the whole `FairSpec` of the
store: the pool refines the steps and delivers the fairness that the other runs assume.

`FairSpec` of `Startup` has it of every session (Postgres executes what it was sent), of the
statements after a put's first, and of `Start`, for "restart: unless-stopped"
(docker-compose.yml:59). `Grow` and new puts happen or do not.

## What the violations show

1. `imm_lost_put`: obliterate counts associations and deletes the payload in separate
   statements (`store/pg_immutable_store.rs:1070-1081`). A put of another context of the hash
   that uploads after the count and before the deletion, and commits after the tombstone, is
   acknowledged; its payload is gone. A later put of the address finds a full match and
   uploads nothing, contrary to the "self-healing" of the comment at 617-618.
2. `imm_reencode`: the upload is outside the transaction (619-645). Two puts of one hash in
   different encodings upload in one order and commit in the other: the row describes one
   encoding, the bucket holds the other, and every get fails on the size. "Bytes must
   round-trip exactly" (docs/review/review-request.md:72).
3. `imm_skipped`: an obliterate that finds the row flagged answers Ok with nothing done
   (1008-1010), because "fragment {address} is already being or has been obliterated"; the
   flag is of the hash, not of the address, and the address stays. The same early return
   answers Ok to a retry after a failed or crashed obliterate, which has left its
   lock behind.
4. `mutable_store_race`: `store` takes no advisory lock and runs between the SELECT and the
   upsert of a compare_and_swap (`store/pg_mutable_store.rs:141`, 217-256), which then
   succeeds with a stale witness and overwrites it. "Atomic compare-and-swap"
   (docs/design.md:33). Without such stores the refinement `AtomicRegister` holds.
5. `lock_unlock_race`: a validated unlock explains a DELETE of nothing by any row a second
   SELECT finds, without comparing its owner (`store/pg_lock_store.rs:486-521`). When the
   caller's own lock request commits in between, the caller is told that it does not own
   what only it has ever owned (docs/review/review-request.md:64).

Behaviour that is modelled, follows from the code and is not listed as a finding:
an acknowledged copy that raced an obliterate is an association of a tombstone
(1110-1127); while one partition's address is obliterated the hash is unreadable in all
partitions; a put during an obliterate replaces its lock, and the obliterate then fails; two
references of one parent to the same sub-fragment make the parent fail with its lock held; a
failed list is an empty list (`store/pg_mutable_store.rs:288-317`); a lock skipped because
its owner holds it may be released before the batch commits (`store/pg_lock_store.rs:206-229`);
a validated unlock that names one lock under two descriptions is refused as not found,
since dedup compares descriptions and the key has none (433).

## Proofs

TLAPS proves the following for every value of the constants that meets the named ASSUMEs.

`ImmutableStoreProofs`, for any tasks, hashes, addresses, encodings, workload, initial
content and number of faults:

- `TypeCorrect`: `Spec => []TypeOK`. The invariant is `TypeInv = TypeOK /\ Control`:
  `Control` says that the label of a task tells the operation of its request, without which
  the fields an action reads are unknown. One lemma per action (`TypeOblLock`, ...).
- `IndexComplete`: `Spec => []AssocHasMetadata`. `IndexInv` adds that a copy about to
  associate has a metadata row, and `OriginalRow`, that an obliterate restores a row and
  not an absence. `RowsStay` shows that no step deletes a row.
- `SharedPayloadSafe`: `Spec => []SharedPayloadSurvives`. The property is not inductive: an
  obliterate past its count would delete the payload of an address still associated.
  `SharedInv` adds that no task is past the count (`Deleting`), and no deletion is late, for
  the hash of an address nobody has condemned. `DeleteArrives` shows that a task gets there
  only from a count of zero, and `Removals` that an association leaves only by its own
  obliterate.
- `DeletionFinal`: `Spec => TombstoneFinal`, an action property, from `OriginalRow`: the
  compare-and-swaps of obliterates expect a live or a locked row.

`AssociationProofs`, with the same generality:

- `AckedAssociationSafe`: `Spec => []AckedAssociationStays`. `AckInv` extends the claim from
  acknowledged requests to all that have seen or made the association (`Vouches`), because
  a put on a full match acknowledges what an earlier statement read.
- `ObliteratedGone`: `Spec => []ObliteratedStaysGone`. `GoneInv` extends it to obliterates
  that have deleted the association and are not done (`Unassociated`), and says that only
  reads are at the labels of reads (`Readers`), whose answers are therefore no obliterate's.

`ObliterationProofs`. `ObliterationLock`, `LiveHasPayload` and `TombstoneHasNoPayload` are
about workloads without puts, but one put does not spoil every hash: the invariants say what
they say of each hash no put has asked for, under any workload (`LockExclusiveByHash`,
`RowsTruthfulByHash`), and the properties follow for workloads that meet `WithoutPuts`
(`LockExclusive`, `LivePayloadStored`, `TombstoneEmpty`).

- `LockInv` adds to the lock what keeps it: an obliterate locks and restores only a live row
  (`OriginalRow`), so the compare-and-swap of a second one fails while the row is locked; and a
  task not yet started has no request (`IdleClean`), so a spawned one is no holder already.
- `PayloadInv` follows the bytes. `RowsOriginal`: a row is the initial one, that one locked, or
  the tombstone, and obliterates work from the initial one. A hash is `Doomed` when its row is
  locked or deleted and any holder of the lock is past a count of zero; `DoomedStays` shows
  that this is for good, also when the holder fails. `ObjectKept`: the object is the initial one
  unless the hash is doomed, and whatever is late is a deletion for a doomed hash, which may
  arrive at any time. `ObjectGone`: the object goes before the tombstone is written.

`ReadProofs`:

- `ExactReads`: `Spec => []ReadsAreExact`, any workload. `ExactInv` says of what a read has
  noted so far (`seen`, `hits`, the label past a found association) what the property says of
  its answer (`ReadsKnown`), and that whatever is associated was there or was asked for.
- `CorpusRead`: `Spec => []CorpusVisible`, any workload. `VisibleInv` says of what a reader has
  noted so far what the property says of its answer (`ReadsPresent`). That the address, its
  row and its object are there is `SharedPayloadSafe`, `IndexComplete` and `StoredInv`.
- `UploadedBeforeIndex`: `PayloadBeforeIndex` for workloads that meet `WithoutObliterates`, from
  `StoredInv`, which holds of each hash nobody has asked to obliterate under any workload:
  the row is not flagged, the object is there once a put is past its upload, and no deletion
  is late.
- `AckedPutLoadsByHash`: under any workload an acknowledged put can be loaded at once if nobody
  has asked to obliterate its hash and the encodings of that hash are of one size
  (`LoadsOnceAcked`). It gives `AckedPutLoads`: `AckedPutReadable` for workloads that meet `WithoutObliterates` and
  `OneEncoding` (no two encodings a hash may be stored in can be told apart by size).
  `EncodedFrom` says that rows, objects and late uploads are among those encodings. Without
  either hypothesis the property is false: `imm_lost_put` and `imm_reencode`.

`MutableStoreProofs`, for any slots, hashing of the advisory lock, workload and faults:

- `RegisterTypeCorrect` (`TypeOK`, with `Control`) and `WitnessSafe` (`WitnessCurrent`).
  `WitnessInv` adds that an advisory lock has one holder (`LockExclusive`) and that what a
  compare_and_swap is about to write or return has been compared (`Compared`).
- `RegisterRefined`: `Spec => AtomicRegister` under `StoresApart`, that no slot gets both
  stores and compare_and_swaps; `mutable_store_race` shows that the code needs it. One
  lemma per action: the commit of a compare_and_swap, a store, a load, a list and the faults
  map to steps of the register (`CommitIsSwap`, `StoreIsStore`, ...), the statements before the
  commit to stutters (`SwapStutters`).

`LockStoreProofs`, for any batches, locks and faults; that the rows of the start were written
by nobody running (`RowAssumption`) is by `Start`:

- `LocksTyped`: `TypeOK`, with `Control`.
- `TxnInv`: what an open transaction holds is of its request (`Batches`), is held by no other
  (`Exclusive`), and lies before everything it has still to reach (`Sorted`).
- `GrantsSurvive`, `RefusalsLeaveNothing` and `StatusIsOfAsked` from `TxnInv` and `GrantInv`, which
  extends `GrantSurvives` to batches under way (`Covered`, `Told`). Every step is one of a
  few kinds (it commits, holds one more lock, gives up, or changes no row), and each part
  has a lemma per kind rather than per statement.
- `NeverDeadlocked`: `NoDeadlock` for sets of transactions of any size. A transaction that waits
  for one that waits itself is at an earlier resource (`BlockersAreAhead`, from `Sorted`), and
  of finitely many (`FinitelyActive`) one is furthest on, which therefore does not wait for any
  other of them.

`PooledProofs`, for any pool size and setting:

- `PooledImplementsStore`: `PooledSpec => Spec`, by mapping every step to a step of the store or
  a stutter; so the theorems about the store hold with the pool, as `PooledPayloadSafe`
  spells out for one.
- `PoolStaysSound`: `PoolSound`. `Ranks`, `WithoutKeeps` and `Served` are the lemmas about
  queues: dropping calls keeps the others once each, and serving parts what is left in two.
  `DropEffect` and `GetEffect` carry `PoolInv` over the pool's two operations.
- `NoClientLeaks` (`ClientsInUse`) and `NobodyHoldsAndWaits` (`NoHoldAndWait`). `ClientInv` adds
  `TxnHeld`, that an open transaction still has the client it was begun on: a waiter's one
  need is what it waits for, so it holds nothing else, and is in no transaction.

`StartupProofs`, for any servers, pool size, sufficient ceiling and number of faults:
`StartupTypeCorrect` (`TypeOK`, with the cap of three pools), `TablesNeverPartial`
(`TablesComplete`) and `SchemaBeforeService` (`ServingHasSchema`), from one invariant,
`StartupInv`. It adds `Lives` (an open session is of the process that is starting or an
orphan, and has opened as many connections as it has reached stores) and `Progress` (a
session has created in its batch, or finds committed, everything its script has behind
it). Without `Progress` the last commit would not be known to complete the catalog, and a
table committed by one session would not be known to come with the indexes of its batch.

Every invariant and safety action property that a passing run checks is a theorem. The
inductive invariants named above were checked by TLC on the instances of the runs before
they were proved, and the hypotheses `WithoutPuts`, `WithoutObliterates`, `OneEncoding` and
`StoresApart` hold of the instances that check the properties they are about.

Model-checked only: liveness (`RequestsReturn`, `EventuallyServing`, `WritesFinish` and the
fairness in `PoolTransparent`), which is out of this prover's reach, and the violations,
which are counterexamples.

## Not modelled

- The calls of the S3 wrapper that no store makes (`list_objects`, `head_object`,
  `list_versions`, `bucket_exists`), its histograms and its warnings about slow calls.
- The pool of the mutable and the lock store: one checkout per handler, see above.
  `make_connector`, which loads certificates.
- Columns and configured names of relations: IF NOT EXISTS also accepts a relation of the
  right name and the wrong shape, a mistake of configuration that the first statement
  shows, whatever the timing.
- Telemetry, error conversion, statistics counters, `fragment_count`, `max_query_batch` and
  the operations that do nothing.
- Bytes: hashing, fragment sizes beyond equality and the legacy header, the validation of
  sizes on entry (a request that fails it changes nothing).
- Build scripts, configuration, deployment.

## Plan

1. `ImmutableStore` with its workloads, its findings and late S3 writes (done; every safety
   property proved).
2. `MutableStore` and `MutableRegister` (done; safety and refinement proved).
3. `LockStore` (done; safety and freedom from deadlock proved).
4. `ConnectionPool` and its composition with the immutable store (done; refinement, soundness
   of the pool and use of its clients proved).
5. `Startup` (done; safety proved).
6. To strengthen: what the store's theorems say of the store on its pool, beyond
   `PooledPayloadSafe`, spelled out where a reader needs it.
