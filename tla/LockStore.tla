------------------------------ MODULE LockStore ------------------------------
(***************************************************************************)
(* The Postgres lock store (pg_lock_store.rs): file locks taken and given  *)
(* back in batches.  A request is a task; each SQL statement is an action. *)
(* A batch is one READ COMMITTED transaction: every statement sees what    *)
(* has committed by then, INSERT ... ON CONFLICT waits for an open         *)
(* transaction that has inserted or deleted the row, and DELETE waits for  *)
(* one that has deleted it.                                                *)
(***************************************************************************)
EXTENDS Naturals, FiniteSets, Sequences, SequencesExt

CONSTANTS
  Task,                 \* handler executions, each used once
  Owner, Repository,
  Branch, File, Text,   \* branches, path hashes and descriptions, in their byte order
  Free,                 \* no row
  Start,                \* the writer of the rows there are at the start
  Requests,             \* what clients may ask for
  InitRows,             \* the table at the start
  MaxFaults             \* bound: failed calls, lost replies and crashes in a behaviour

\* A client names a resource by branch, hash and description; the primary key of its row
\* has the repository and no description.
Resource == [branch: Branch, file: File, text: Text]
Lock == [repo: Repository, branch: Branch, file: File]

LockRequest == [op: {"lock"}, owner: Owner, repo: Repository, resources: Seq(Resource)]
UnlockRequest == [op: {"unlock"}, owner: Owner, validate: BOOLEAN, repo: Repository,
                  resources: Seq(Resource)]
StatusRequest == [op: {"status"}, repo: Repository, resources: Seq(Resource)]
\* The nine variants of LockQuery, by the columns they fix.
QueryColumns ==
  {{"file"}, {"file", "repo"}, {"file", "repo", "branch"},
   {"owner"}, {"owner", "repo"}, {"owner", "repo", "branch"},
   {"repo"}, {"repo", "branch"}, {"repo", "branch", "text"}}
QueryRequest ==
  [op: {"query"}, columns: QueryColumns, owner: Owner, repo: Repository, branch: Branch,
   file: File, text: Text]
Request == LockRequest \cup UnlockRequest \cup StatusRequest \cup QueryRequest
NoRequest == [op |-> "none"]

Row == [owner: Owner, text: Text, by: Task \cup {Start}]

ASSUME OrderAssumption == Branch \subseteq Nat /\ File \subseteq Nat /\ Text \subseteq Nat
ASSUME FreeAssumption == Free \notin Row /\ Start \notin Task
ASSUME RequestAssumption == Requests \subseteq Request
ASSUME RowAssumption == InitRows \in [Lock -> [owner: Owner, text: Text, by: {Start}] \cup {Free}]
ASSUME FaultAssumption == MaxFaults \in Nat

VARIABLES
  rows,     \* committed rows; "by" tells a row from an earlier one of the same lock
  pc, req, res,
  todo,     \* resources a batch has not reached
  inserted, \* resources whose rows an open transaction has inserted
  deleted,  \* locks whose rows an open transaction has deleted
  found,    \* the row a DELETE has found and not yet deleted
  faults

vars == <<rows, pc, req, res, todo, inserted, deleted, found, faults>>

Answer(k, s) == [kind |-> k, items |-> s]
Unanswered == Answer("none", {})

Init ==
  /\ rows = InitRows
  /\ pc = [t \in Task |-> "idle"]
  /\ req = [t \in Task |-> NoRequest]
  /\ res = [t \in Task |-> Unanswered]
  /\ todo = [t \in Task |-> {}]
  /\ inserted = [t \in Task |-> {}]
  /\ deleted = [t \in Task |-> {}]
  /\ found = [t \in Task |-> Free]
  /\ faults = 0

Running(t) == pc[t] \notin {"idle", "done"}

Return(t, answer) ==
  /\ pc' = [pc EXCEPT ![t] = "done"]
  /\ res' = [res EXCEPT ![t] = answer]
  /\ UNCHANGED faults
LostReply(t) ==
  /\ faults < MaxFaults
  /\ faults' = faults + 1
  /\ pc' = [pc EXCEPT ![t] = "done"]
  /\ res' = [res EXCEPT ![t] = Answer("err", {})]

LockOf(t, a) == [repo |-> req[t].repo, branch |-> a.branch, file |-> a.file]
InsertedLocks(t) == {LockOf(t, a) : a \in inserted[t]}
RowOf(t, a) == [owner |-> req[t].owner, text |-> a.text, by |-> t]

\* The derived order of LockResource, field by field.
Before(a, b) ==
  \/ a.branch < b.branch
  \/ a.branch = b.branch /\ a.file < b.file
  \/ a.branch = b.branch /\ a.file = b.file /\ a.text < b.text

\* Mutant: resources are taken in the order the client gave.
TurnAsGiven(t) ==
  req[t].resources[CHOOSE i \in DOMAIN req[t].resources :
    /\ req[t].resources[i] \in todo[t]
    /\ \A j \in 1..(i - 1) : req[t].resources[j] \notin todo[t]]

\* sort and dedup: the resource whose turn it is, the first of those left.
Turn(t) == CHOOSE a \in todo[t] : \A b \in todo[t] \ {a} : Before(a, b)
Current(t) == LockOf(t, Turn(t))

\* Mutant: a refused transaction is never rolled back.
InTxnLeak(t) == pc[t] \in {"insert", "owner", "delete", "delete_row", "blame", "commit"}
                \/ res[t].kind = "not_owned"
\* The tasks whose transaction is open.
InTxn(t) == pc[t] \in {"insert", "owner", "delete", "delete_row", "blame", "commit"}

\* Transactions of others that keep t from inserting, or from deleting, its row.
InsertBlockers(t) ==
  {u \in Task \ {t} : InTxn(u) /\ Current(t) \in InsertedLocks(u) \cup deleted[u]}
DeleteBlockers(t) == {u \in Task \ {t} : InTxn(u) /\ Current(t) \in deleted[u]}

Label(op) == IF op = "lock" THEN "insert" ELSE "delete"
\* On to the next resource, or to COMMIT after the last.
Advance(t) ==
  /\ todo' = [todo EXCEPT ![t] = @ \ {Turn(t)}]
  /\ pc' = [pc EXCEPT ![t] = IF todo[t] = {Turn(t)} THEN "commit" ELSE Label(req[t].op)]
  /\ UNCHANGED <<res, faults>>
Goto(t, l) == pc' = [pc EXCEPT ![t] = l] /\ UNCHANGED <<res, todo, faults>>

\* A handler starts; a batch of nothing has only its COMMIT, a status of nothing no
\* statement at all.
Begin(t) ==
  /\ pc[t] = "idle"
  /\ \E r \in Requests :
       /\ req' = [req EXCEPT ![t] = r]
       /\ \/ /\ r.op \in {"lock", "unlock"}
             /\ todo' = [todo EXCEPT ![t] = ToSet(r.resources)]
             /\ pc' = [pc EXCEPT ![t] = IF r.resources = <<>> THEN "commit" ELSE Label(r.op)]
             /\ UNCHANGED <<res, faults>>
          \/ /\ r.op = "query" \/ (r.op = "status" /\ r.resources # <<>>)
             /\ Goto(t, r.op)
          \/ /\ r.op = "status" /\ r.resources = <<>>
             /\ Return(t, Answer("ok", {})) /\ UNCHANGED todo
  /\ UNCHANGED <<rows, inserted, deleted, found>>

\* Mutant: the INSERT overwrites the row it conflicts with.
InsertUpsert(t) ==
  /\ pc[t] = "insert" /\ InsertBlockers(t) = {}
  /\ inserted' = [inserted EXCEPT ![t] = @ \cup {Turn(t)}]
  /\ Advance(t)
  /\ UNCHANGED <<rows, req, deleted, found>>

\* INSERT ... ON CONFLICT DO NOTHING.
Insert(t) ==
  /\ pc[t] = "insert" /\ InsertBlockers(t) = {}
  /\ \/ /\ rows[Current(t)] = Free /\ Current(t) \notin InsertedLocks(t)
        /\ inserted' = [inserted EXCEPT ![t] = @ \cup {Turn(t)}]
        /\ Advance(t)
     \/ /\ rows[Current(t)] # Free \/ Current(t) \in InsertedLocks(t)
        /\ Goto(t, "owner")
        /\ UNCHANGED inserted
  /\ UNCHANGED <<rows, req, deleted, found>>

\* The table with t's transaction applied.
Applied(t) ==
  [l \in Lock |->
     IF l \in deleted[t] THEN Free
     ELSE IF l \in InsertedLocks(t)
       THEN RowOf(t, CHOOSE a \in inserted[t] : LockOf(t, a) = l)
       ELSE rows[l]]

\* Mutant: a batch that meets another owner's lock commits what it has.
SelectOwnerKeeps(t) ==
  LET l == Current(t)
      own == l \in InsertedLocks(t)
  IN  /\ pc[t] = "owner"
      /\ \/ /\ own \/ (rows[l] # Free /\ rows[l].owner = req[t].owner)
            /\ Advance(t) /\ UNCHANGED rows
         \/ /\ ~own /\ rows[l] # Free /\ rows[l].owner # req[t].owner
            /\ rows' = Applied(t)
            /\ Return(t, Answer("not_owned", {})) /\ UNCHANGED todo
      /\ UNCHANGED <<req, inserted, deleted, found>>

\* After an INSERT of nothing: whose is the row?  The statement locks nothing.
SelectOwner(t) ==
  LET l == Current(t)
      own == l \in InsertedLocks(t)
  IN  /\ pc[t] = "owner"
      /\ \/ /\ own \/ (rows[l] # Free /\ rows[l].owner = req[t].owner)
            /\ Advance(t)
         \/ /\ ~own /\ rows[l] # Free /\ rows[l].owner # req[t].owner
            /\ Return(t, Answer("not_owned", {})) /\ UNCHANGED todo
         \/ /\ ~own /\ rows[l] = Free
            /\ Return(t, Answer("err", {})) /\ UNCHANGED todo
      /\ UNCHANGED <<rows, req, inserted, deleted, found>>

\* What the transaction sees of its lock's row.
Visible(t) == IF Current(t) \in deleted[t] THEN Free ELSE rows[Current(t)]

\* A DELETE that removed no row: validated, it is looked into, else it is ignored.
NoRowDeleted(t) == IF req[t].validate THEN Goto(t, "blame") ELSE Advance(t)

\* Mutant: the owner is not part of the DELETE's WHERE clause.
DeleteScanAnyOwner(t) ==
  /\ pc[t] = "delete"
  /\ IF Visible(t) # Free
       THEN found' = [found EXCEPT ![t] = Visible(t)] /\ Goto(t, "delete_row")
       ELSE NoRowDeleted(t) /\ UNCHANGED found
  /\ UNCHANGED <<rows, req, inserted, deleted>>

\* DELETE, first half: the row its snapshot shows.
DeleteScan(t) ==
  /\ pc[t] = "delete"
  /\ IF Visible(t) # Free /\ (req[t].validate => Visible(t).owner = req[t].owner)
       THEN found' = [found EXCEPT ![t] = Visible(t)] /\ Goto(t, "delete_row")
       ELSE NoRowDeleted(t) /\ UNCHANGED found
  /\ UNCHANGED <<rows, req, inserted, deleted>>

\* DELETE, second half: the row is deleted unless another transaction has deleted it; a
\* row inserted since is not the one the statement found.
DeleteRow(t) ==
  /\ pc[t] = "delete_row" /\ DeleteBlockers(t) = {}
  /\ \/ /\ rows[Current(t)] = found[t]
        /\ deleted' = [deleted EXCEPT ![t] = @ \cup {Current(t)}]
        /\ Advance(t)
     \/ /\ rows[Current(t)] # found[t]
        /\ NoRowDeleted(t)
        /\ UNCHANGED deleted
  /\ UNCHANGED <<rows, req, inserted, found>>

\* The SELECT after a validated DELETE of nothing: any row means "not owned".
Blame(t) ==
  /\ pc[t] = "blame"
  /\ Return(t, Answer(IF Visible(t) = Free THEN "not_found" ELSE "not_owned", {}))
  /\ UNCHANGED <<rows, req, todo, inserted, deleted, found>>

\* A batch answers with what it has newly locked, or with what it was to unlock.
Commit(t) ==
  /\ pc[t] = "commit"
  /\ rows' = Applied(t)
  /\ \/ Return(t, Answer("ok", IF req[t].op = "lock" THEN inserted[t]
                                                     ELSE ToSet(req[t].resources)))
     \/ LostReply(t)
  /\ UNCHANGED <<req, todo, inserted, deleted, found>>

\* Mutant: the columns of the SELECT are not in the order they are read in.
DataSwapped(ls) ==
  {[lock |-> l, row |-> [rows[l] EXCEPT !.owner = rows[l].text, !.text = rows[l].owner]]
    : l \in {k \in ls : rows[k] # Free}}

\* lock_data_from_row for the rows that exist.
Data(ls) == {[lock |-> l, row |-> rows[l]] : l \in {k \in ls : rows[k] # Free}}

\* Mutant: branches and hashes are paired from two walks over a hash set.
CheckStatusCrossed(t) ==
  LET asked == ToSet(req[t].resources)
  IN  /\ pc[t] = "status"
      /\ Return(t, Answer("ok",
           Data({l \in Lock : /\ l.repo = req[t].repo
                              /\ \E a \in asked, b \in asked : /\ l.branch = a.branch
                                                               /\ l.file = b.file})))
      /\ UNCHANGED <<rows, req, todo, inserted, deleted, found>>

\* check_locks_status: the rows of the resources asked for, none for none.
CheckStatus(t) ==
  /\ pc[t] = "status"
  /\ Return(t, Answer("ok", Data({LockOf(t, a) : a \in ToSet(req[t].resources)})))
  /\ UNCHANGED <<rows, req, todo, inserted, deleted, found>>

\* query_locks: the rows that agree with the query on the columns it fixes.
Column(l, c) == IF c \in {"owner", "text"} THEN rows[l][c] ELSE l[c]
QueryLocks(t) ==
  /\ pc[t] = "query"
  /\ Return(t, Answer("ok",
       Data({l \in Lock : /\ rows[l] # Free
                          /\ \A c \in req[t].columns : Column(l, c) = req[t][c]})))
  /\ UNCHANGED <<rows, req, todo, inserted, deleted, found>>

\* A statement fails, or the pool gives no connection; an open transaction is rolled back.
Fail(t) ==
  /\ Running(t) /\ faults < MaxFaults
  /\ faults' = faults + 1
  /\ pc' = [pc EXCEPT ![t] = "done"]
  /\ res' = [res EXCEPT ![t] = Answer("err", {})]
  /\ UNCHANGED <<rows, req, todo, inserted, deleted, found>>

Crash ==
  /\ faults < MaxFaults /\ \E t \in Task : Running(t)
  /\ faults' = faults + 1
  /\ pc' = [t \in Task |-> IF Running(t) THEN "done" ELSE pc[t]]
  /\ res' = [t \in Task |-> IF Running(t) THEN Answer("err", {}) ELSE res[t]]
  /\ UNCHANGED <<rows, req, todo, inserted, deleted, found>>

Step(t) == \/ Insert(t) \/ SelectOwner(t) \/ DeleteScan(t) \/ DeleteRow(t) \/ Blame(t)
           \/ Commit(t) \/ CheckStatus(t) \/ QueryLocks(t)

Next == Crash \/ \E t \in Task : Begin(t) \/ Step(t) \/ Fail(t)

Spec == Init /\ [][Next]_vars

\* The runtime polls every task whose call has completed, and Postgres resumes a statement
\* whose blockers are gone.
FairSpec == Spec /\ \A t \in Task : WF_vars(Step(t))

-----------------------------------------------------------------------------
(* Correctness.                                                            *)

\* Every variable keeps its type.
TypeOK ==
  /\ rows \in [Lock -> Row \cup {Free}]
  /\ pc \in [Task -> {"idle", "done", "insert", "owner", "delete", "delete_row", "blame",
                      "commit", "status", "query"}]
  /\ req \in [Task -> Request \cup {NoRequest}]
  /\ res \in [Task -> [kind: {"none", "ok", "err", "not_owned", "not_found"},
                       items: SUBSET (Resource \cup [lock: Lock, row: Row])]]
  /\ todo \in [Task -> SUBSET Resource]
  /\ inserted \in [Task -> SUBSET Resource]
  /\ deleted \in [Task -> SUBSET Lock]
  /\ found \in [Task -> Row \cup {Free}]
  /\ faults \in Nat

Blockers(t) ==
  CASE pc[t] = "insert" -> InsertBlockers(t)
    [] pc[t] = "delete_row" -> DeleteBlockers(t)
    [] OTHER -> {}
\* "two concurrent lockers with overlapping resources in opposite order cannot deadlock"
\* (pg_lock_store.rs:149): no transactions all wait for one another, unlocks included.
NoDeadlock ==
  \A S \in (SUBSET Task) \ {{}} : \E t \in S : Blockers(t) \cap S = {}

Locks(t) == {LockOf(t, a) : a \in ToSet(req[t].resources)}
\* A request that has returned and may have removed l's row while owner o held it.
Released(l, o) ==
  \E u \in Task : /\ req[u].op = "unlock" /\ l \in Locks(u)
                  /\ req[u].validate => req[u].owner = o
                  /\ res[u].kind \in {"ok", "err"}
\* A batch that is granted leaves every lock it names with its owner, and those it has
\* inserted with itself, until its owner unlocks them or someone does by force: none is
\* taken over, shared, or dropped by a request that was refused.
GrantSurvives ==
  /\ \A t \in Task : req[t].op = "lock" /\ res[t].kind = "ok" =>
       /\ \A l \in Locks(t) : \/ rows[l] # Free /\ rows[l].owner = req[t].owner
                             \/ Released(l, req[t].owner)
       /\ \A a \in res[t].items : \/ rows[LockOf(t, a)] = RowOf(t, a)
                                 \/ Released(LockOf(t, a), req[t].owner)
  /\ \A l \in Lock : InitRows[l] # Free =>
       rows[l] = InitRows[l] \/ Released(l, InitRows[l].owner)

\* A batch is all or nothing: one that has not been granted, or has been refused, has left
\* no row.
RefusedLeavesNothing ==
  \A l \in Lock : rows[l] # Free /\ rows[l].by \in Task =>
    res[rows[l].by].kind \in {"ok", "err"}

\* check_locks_status answers for the resources asked for and no others, and reports every
\* lock among them that was held all the while.
StatusOfAsked ==
  \A t \in Task : req[t].op = "status" /\ res[t].kind = "ok" =>
    /\ \A d \in res[t].items : d.lock \in Locks(t)
    /\ \A l \in Locks(t) :
         \/ InitRows[l] = Free \/ Released(l, InitRows[l].owner)
         \/ [lock |-> l, row |-> InitRows[l]] \in res[t].items

\* No transaction waits for ever: every request that starts returns.
RequestsReturn == \A t \in Task : Running(t) ~> pc[t] = "done"

\* "wrong owner -> LockNotOwned, absent -> LockNotFound" (review-request.md:64): a validated
\* unlock is refused only for a lock that another owner holds, or that nobody holds.
RefusalIsTrue ==
  [][\A t \in Task : req[t].op = "unlock" /\ res[t].kind = "none" =>
       /\ res'[t].kind = "not_owned" =>
            \E l \in Locks(t) : rows'[l] # Free /\ rows'[l].owner # req[t].owner
       /\ res'[t].kind = "not_found" => \E l \in Locks(t) : rows'[l] = Free]_vars
=============================================================================
