------------------------ MODULE PooledImmutableStore ------------------------
(***************************************************************************)
(* The immutable store on its connection pool.  Every SQL statement first  *)
(* checks out a client (get_client); the client is dropped with the        *)
(* function that checked it out, before the handler's next statement, save *)
(* in write_payload, which keeps one for its whole transaction, and in     *)
(* get, whose two lookups hold one each.  S3 calls need none.              *)
(***************************************************************************)
EXTENDS ImmutableStore

CONSTANTS NoNumber, Settings, DefaultSize

VARIABLES maxSize, lent, queue

Transaction == {"put_upsert", "put_associate", "commit_new", "commit_existing"}
Statement == {"resolve", "resolve_row", "gm_load", "put_check", "copy_check",
              "copy_associate", "obl_load", "obl_lock", "obl_unassoc", "obl_count",
              "obl_restore", "obl_tomb"}

\* A checkout is named by its task and by the call that makes it.
Call == Statement \cup {"exists", "row", "txn"}
Checkout == Task \X Call

Pool == INSTANCE ConnectionPool
ASSUME PoolAssumption == Pool!SizeAssumption

pool == <<maxSize, lent, queue>>
pooledVars == <<vars, pool>>

PooledInit == Init /\ Pool!PoolInit

Of(t) == {t} \X Call

\* Mutant: a statement of the transaction checks out a client of its own.
NeedsSecondClient(t) ==
  CASE pc[t] = "get" -> {<<t, c>> : c \in {"exists", "row"} \ seen[t].done}
    [] pc[t] = "put_associate" -> {<<t, "txn">>, <<t, "copy_associate">>}
    [] pc[t] \in Transaction -> {<<t, "txn">>}
    [] pc[t] \in Statement -> {<<t, pc[t]>>}
    [] OTHER -> {}

\* The clients the calls of t that are under way need.
Needs(t) ==
  CASE pc[t] = "get" -> {<<t, c>> : c \in {"exists", "row"} \ seen[t].done}
    [] pc[t] \in Transaction -> {<<t, "txn">>}
    [] pc[t] \in Statement -> {<<t, pc[t]>>}
    [] OTHER -> {}

\* Mutant: resolve_association holds its client while it loads the row.
KeptReentrant(t) ==
  IF pc[t] = "get" \/ pc[t] \in Transaction THEN Needs(t)
  ELSE IF pc[t] = "resolve_row" THEN {<<t, "resolve">>} ELSE {}

\* Of those, the ones that outlive a step of the task.
Kept(t) == IF pc[t] = "get" \/ pc[t] \in Transaction THEN Needs(t) ELSE {}

PooledBegin(t) == Begin(t) /\ UNCHANGED pool

GetClient(t) == \E f \in Needs(t) : Pool!Get(f) /\ UNCHANGED vars

\* A step of the store, by a task that has the clients for it.
PooledStep(t) ==
  /\ \/ pc[t] # "get" /\ Needs(t) \subseteq lent /\ Step(t)
     \/ <<t, "exists">> \in lent /\ GetExists(t)
     \/ <<t, "row">> \in lent /\ GetRow(t)
     \/ GetObject(t) \/ GetDone(t)
  /\ Pool!Drop(Of(t) \ Kept(t)')

\* Mutant: the client of a call that failed is not given back.
PooledFailLeaks(t) == Fail(t) /\ UNCHANGED pool

\* A call that fails, its checkout included, drops its client and what it waits for.
PooledFail(t) == Fail(t) /\ Pool!Drop(Of(t))

\* The pool dies with the server.
PooledCrash == Crash /\ lent' = {} /\ queue' = <<>> /\ UNCHANGED maxSize

PooledArrive == Arrive /\ UNCHANGED pool

PooledNext ==
  \/ PooledCrash \/ PooledArrive
  \/ \E t \in Task : PooledBegin(t) \/ GetClient(t) \/ PooledStep(t) \/ PooledFail(t)

\* The async runtime polls the tasks; nothing is assumed of the pool but its order.
PooledSpec ==
  /\ PooledInit /\ [][PooledNext]_pooledVars
  /\ \A t \in Task : WF_pooledVars(GetClient(t)) /\ WF_pooledVars(PooledStep(t))

-----------------------------------------------------------------------------
(* Correctness.                                                            *)

\* The pool keeps its bound, and no slot is lost or held back.
PoolSound == Pool!PoolTypeOK /\ Pool!PoolSound

\* No leaked client: a connection is lent to, or kept for, a call that is under way.
ClientsInUse == \A f \in lent \cup Pool!Waiting : f \in Needs(f[1])

\* What a put must not do to others: whoever waits for a connection holds none (the two
\* lookups of get aside, which wait for nothing else) and no row lock.
NoHoldAndWait ==
  \A f \in Pool!Waiting :
    /\ pc[f[1]] \notin Transaction \ {"put_upsert"}
    /\ \A g \in lent : g[1] = f[1] => {f, g} = {<<f[1], "exists">>, <<f[1], "row">>}

\* The pool is transparent: whatever its size, every step is a step of the store, and the
\* store's fairness assumption, that a task whose call can complete goes on, holds
\* although calls queue for connections.  ("can deadlock every concurrent verifier once
\* the bounded pool is saturated", pg_immutable_store.rs:789-790)
PoolTransparent == FairSpec
=============================================================================
