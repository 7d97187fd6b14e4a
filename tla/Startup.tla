------------------------------ MODULE Startup -------------------------------
(***************************************************************************)
(* Start-up of the servers that share one Postgres: the plugin factories   *)
(* (overlay/pg.rs) create the immutable, the mutable and the lock store in *)
(* turn, each with a pool of its own, and each store's ensure_schema runs  *)
(* CREATE ... IF NOT EXISTS.  An error ends the process, and the container *)
(* is started again.                                                       *)
(*                                                                         *)
(* A statement batch is one implicit transaction.  IF NOT EXISTS looks at  *)
(* what is committed; a creation waits for an uncommitted one of the same  *)
(* name and fails when that one commits.  CREATE INDEX locks its table     *)
(* against writers until the batch ends.  A killed process leaves its      *)
(* backend running until the end of the batch it was sent.                 *)
(***************************************************************************)
EXTENDS Naturals, Sequences, FiniteSets

CONSTANTS
  Server,     \* server processes on the same database
  MaxSize,    \* the size of each pool
  Ceiling,    \* max_connections of the database
  MaxFaults   \* bound: kills of a server and crashes of Postgres

Stmt(rel, on, batch) == [rel |-> rel, on |-> on, batch |-> batch]

\* Mutant: one batch for both tables of the immutable store, with an index on the second.
ScriptOneBatch ==
  << Stmt("fragments", "fragments", 1),
     Stmt("fragments_hash_repository", "fragments", 1),
     Stmt("fragments_hash_idx", "fragments", 1),
     Stmt("fragments_meta", "fragments_meta", 1),
     Stmt("fragments_meta_idx", "fragments_meta", 1),
     Stmt("mutable_store", "mutable_store", 2),
     Stmt("locks", "locks", 3) >>

\* What the three ensure_schema send, in order; an index names its table in "on".
Script ==
  << Stmt("fragments", "fragments", 1),
     Stmt("fragments_hash_repository", "fragments", 1),
     Stmt("fragments_hash_idx", "fragments", 1),
     Stmt("fragments_meta", "fragments_meta", 2),
     Stmt("mutable_store", "mutable_store", 3),
     Stmt("locks", "locks", 4),
     Stmt("locks_hash_idx", "locks", 4),
     Stmt("locks_owner_idx", "locks", 4),
     Stmt("locks_repo_idx", "locks", 4) >>

Relation == {Script[i].rel : i \in DOMAIN Script}
IsIndex(i) == Script[i].rel # Script[i].on

\* Mutant: every statement is sent alone.
EndsBatchAlways(i) == TRUE

EndsBatch(i) == i = Len(Script) \/ Script[i + 1].batch # Script[i].batch
\* The first two batches go through the immutable store's pool, each other through its own.
EndsStore(i) == EndsBatch(i) /\ Script[i].batch # 1

Stores == 3

\* Mutant: the pools are not capped.
CapNone == Ceiling

\* "total backend connections = 3 x this" (tls.rs)
Cap == Stores * MaxSize

ASSUME StartupAssumption ==
  /\ MaxSize \in Nat \ {0} /\ MaxFaults \in Nat
  /\ Ceiling \in Nat /\ Ceiling >= Stores * MaxSize * Cardinality(Server)

\* A process that is killed is followed by another of the same server.
Life == 1..(MaxFaults + 1)
Session == Server \X Life

VARIABLES
  catalog,  \* the relations that exist
  phase,    \* server -> "down", "starting" or "serving"
  life,     \* server -> its current process
  open,     \* server -> connections of its pools
  state,    \* session -> what its backend does
  stmt,     \* session -> the statement it is at
  mine,     \* session -> the relations its open transaction has created
  writer,   \* server -> the tables an open put transaction has written
  faults    \* faults so far

vars == <<catalog, phase, life, open, state, stmt, mine, writer, faults>>

Init ==
  /\ catalog = {}
  /\ phase = [s \in Server |-> "down"]
  /\ life = [s \in Server |-> 1]
  /\ open = [s \in Server |-> 0]
  /\ state = [x \in Session |-> "closed"]
  /\ stmt = [x \in Session |-> 1]
  /\ mine = [x \in Session |-> {}]
  /\ writer = [s \in Server |-> {}]
  /\ faults = 0

-----------------------------------------------------------------------------
(* Connections.                                                            *)

\* The session of a live process; any other is an orphan.
Current(x) == x[2] = life[x[1]]
Orphans == {x \in Session : state[x] # "closed" /\ ~Current(x)}
Room == Cardinality({c \in Server \X (1..Ceiling) : c[2] <= open[c[1]]})
          + Cardinality(Orphans) < Ceiling

\* An error of a factory ends the process: its pools and their connections go with it.
Exit(x) ==
  /\ state' = [state EXCEPT ![x] = "closed"]
  /\ mine' = [mine EXCEPT ![x] = {}]
  /\ IF Current(x)
       THEN /\ phase' = [phase EXCEPT ![x[1]] = "down"]
            /\ open' = [open EXCEPT ![x[1]] = 0]
       ELSE UNCHANGED <<phase, open>>

\* The container starts the process; the first store connects.  (Without room it exits
\* at once.)
Start(s) ==
  LET x == <<s, life[s]>>
  IN  /\ phase[s] = "down" /\ Room
      /\ phase' = [phase EXCEPT ![s] = "starting"]
      /\ open' = [open EXCEPT ![s] = 1]
      /\ state' = [state EXCEPT ![x] = "check"]
      /\ stmt' = [stmt EXCEPT ![x] = 1]
      /\ UNCHANGED <<catalog, life, mine, writer, faults>>

\* The next store's pool opens its first connection.
Connect(x) ==
  /\ state[x] = "connect"
  /\ IF Room
       THEN /\ open' = [open EXCEPT ![x[1]] = @ + 1]
            /\ state' = [state EXCEPT ![x] = "check"]
            /\ UNCHANGED <<mine, phase>>
       ELSE Exit(x)
  /\ UNCHANGED <<catalog, life, stmt, writer, faults>>

\* Mutant: the cap is not looked at.
GrowUncapped(s) ==
  /\ phase[s] = "serving" /\ Room
  /\ open' = [open EXCEPT ![s] = @ + 1]
  /\ UNCHANGED <<catalog, phase, life, state, stmt, mine, writer, faults>>

\* A pool of a serving process opens another connection, below its cap.
Grow(s) ==
  /\ phase[s] = "serving" /\ open[s] < Cap /\ Room
  /\ open' = [open EXCEPT ![s] = @ + 1]
  /\ UNCHANGED <<catalog, phase, life, state, stmt, mine, writer, faults>>

-----------------------------------------------------------------------------
(* Schema creation.                                                        *)

\* The statement is done: on to the next one of the batch, or to its commit.
Advance(x) ==
  IF EndsBatch(stmt[x])
    THEN state' = [state EXCEPT ![x] = "commit"] /\ UNCHANGED stmt
    ELSE /\ state' = [state EXCEPT ![x] = "check"]
         /\ stmt' = [stmt EXCEPT ![x] = @ + 1]

\* IF NOT EXISTS; CREATE INDEX locks its table first.
Check(x) ==
  LET st == Script[stmt[x]]
  IN  /\ state[x] = "check"
      /\ IsIndex(stmt[x]) => \A s \in Server : st.on \notin writer[s]
      /\ IF st.rel \in catalog THEN Advance(x)
         ELSE state' = [state EXCEPT ![x] = "create"] /\ UNCHANGED stmt
      /\ UNCHANGED <<catalog, phase, life, open, mine, writer, faults>>

\* Mutant: an error of ensure_schema is ignored.
CreateUnchecked(x) ==
  LET rel == Script[stmt[x]].rel
  IN  /\ state[x] = "create"
      /\ mine' = [mine EXCEPT ![x] = IF \E y \in Session : rel \in mine[y] THEN @ ELSE @ \cup {rel}]
      /\ Advance(x)
      /\ UNCHANGED <<catalog, phase, life, open, writer, faults>>

\* The creation waits for another session's and fails if that one commits.
Create(x) ==
  LET rel == Script[stmt[x]].rel
  IN  /\ state[x] = "create"
      /\ \A y \in Session \ {x} : rel \notin mine[y]
      /\ \/ rel \in catalog /\ Exit(x) /\ UNCHANGED stmt
         \/ /\ rel \notin catalog
            /\ mine' = [mine EXCEPT ![x] = @ \cup {rel}]
            /\ Advance(x)
            /\ UNCHANGED <<phase, open>>
      /\ UNCHANGED <<catalog, life, writer, faults>>

\* The batch commits; its process, if it still lives, goes on to the next batch, to the
\* next store, or to serving.
Commit(x) ==
  LET i == stmt[x]
      s == x[1]
      last == i = Len(Script)
  IN  /\ state[x] = "commit"
      /\ catalog' = catalog \cup mine[x]
      /\ mine' = [mine EXCEPT ![x] = {}]
      /\ state' = [state EXCEPT ![x] = IF ~Current(x) \/ last THEN "closed"
                                       ELSE IF EndsStore(i) THEN "connect" ELSE "check"]
      /\ stmt' = [stmt EXCEPT ![x] = IF last THEN @ ELSE @ + 1]
      /\ phase' = IF Current(x) /\ last THEN [phase EXCEPT ![s] = "serving"] ELSE phase
      /\ UNCHANGED <<life, open, writer, faults>>

Backend(x) == Connect(x) \/ Check(x) \/ Create(x) \/ Commit(x)

-----------------------------------------------------------------------------
(* Writers: the put transaction of a serving process, which writes the     *)
(* metadata row and then the association.                                  *)

\* A batch has locked a table, or waits for it ahead of later writers.
IndexLocked(table) ==
  \E x \in Session :
    /\ state[x] # "closed"
    /\ \E i \in 1..stmt[x] : /\ Script[i].batch = Script[stmt[x]].batch
                             /\ IsIndex(i) /\ Script[i].on = table

Write(s, table) ==
  /\ phase[s] = "serving" /\ ~IndexLocked(table)
  /\ writer' = [writer EXCEPT ![s] = @ \cup {table}]
  /\ UNCHANGED <<catalog, phase, life, open, state, stmt, mine, faults>>

WriteMetadata(s) == open[s] > 0 /\ writer[s] = {} /\ Write(s, "fragments_meta")
WriteAssociation(s) == writer[s] = {"fragments_meta"} /\ Write(s, "fragments")

WriteCommit(s) ==
  /\ "fragments" \in writer[s]
  /\ writer' = [writer EXCEPT ![s] = {}]
  /\ UNCHANGED <<catalog, phase, life, open, state, stmt, mine, faults>>

-----------------------------------------------------------------------------
(* Faults.                                                                 *)

\* A batch that was sent runs on without its process.
Kill(s) ==
  LET x == <<s, life[s]>>
  IN  /\ phase[s] # "down" /\ faults < MaxFaults
      /\ faults' = faults + 1
      /\ phase' = [phase EXCEPT ![s] = "down"]
      /\ life' = [life EXCEPT ![s] = @ + 1]
      /\ open' = [open EXCEPT ![s] = 0]
      /\ writer' = [writer EXCEPT ![s] = {}]
      /\ state' = [state EXCEPT ![x] = IF @ = "connect" THEN "closed" ELSE @]
      /\ UNCHANGED <<catalog, stmt, mine>>

\* Postgres restarts: transactions are rolled back, connections break, a start-up fails.
PostgresCrash ==
  /\ faults < MaxFaults
  /\ faults' = faults + 1
  /\ phase' = [s \in Server |-> IF phase[s] = "starting" THEN "down" ELSE phase[s]]
  /\ open' = [s \in Server |-> 0]
  /\ state' = [x \in Session |-> "closed"]
  /\ mine' = [x \in Session |-> {}]
  /\ writer' = [s \in Server |-> {}]
  /\ UNCHANGED <<catalog, life, stmt>>

Next ==
  \/ PostgresCrash
  \/ \E x \in Session : Backend(x)
  \/ \E s \in Server : \/ Start(s) \/ Grow(s) \/ Kill(s)
                       \/ WriteMetadata(s) \/ WriteAssociation(s) \/ WriteCommit(s)

\* Postgres executes what it was sent, containers are started again ("restart:
\* unless-stopped", docker-compose.yml), and a handler goes on with its transaction.
FairSpec ==
  /\ Init /\ [][Next]_vars
  /\ \A x \in Session : WF_vars(Backend(x))
  /\ \A s \in Server : WF_vars(Start(s)) /\ WF_vars(WriteAssociation(s)) /\ WF_vars(WriteCommit(s))

-----------------------------------------------------------------------------
(* Correctness.                                                            *)

\* Every variable keeps its type; the pools of a server never hold more than their cap.
TypeOK ==
  /\ catalog \subseteq Relation
  /\ phase \in [Server -> {"down", "starting", "serving"}]
  /\ life \in [Server -> Life]
  /\ open \in [Server -> 0..Cap]
  /\ state \in [Session -> {"closed", "connect", "check", "create", "commit"}]
  /\ stmt \in [Session -> DOMAIN Script]
  /\ mine \in [Session -> SUBSET Relation]
  /\ writer \in [Server -> SUBSET Relation]
  /\ faults \in 0..MaxFaults

\* A process that serves finds every table and index: no race with another start-up, no
\* half-run script of an earlier process makes it skip one.
ServingHasSchema == \A s \in Server : phase[s] = "serving" => catalog = Relation

\* A table is never there without its indexes, so IF NOT EXISTS on the table is enough.
TablesComplete ==
  \A i \in DOMAIN Script : Script[i].on \in catalog => Script[i].rel \in catalog

\* However start-ups race and die, every server serves in the end: a lost race, a refused
\* connection or a leftover backend costs restarts, never the service.
EventuallyServing == <>[](\A s \in Server : phase[s] = "serving")

\* A start-up beside a running server does not lock up its writers: the transaction that
\* has written the metadata row commits or dies with its process.
WritesFinish == \A s \in Server : writer[s] # {} ~> writer[s] = {}
=============================================================================
