---------------------------- MODULE MutableStore ----------------------------
(***************************************************************************)
(* The Postgres mutable store (pg_mutable_store.rs): branch pointers with  *)
(* load, store, compare_and_swap and list.  A request is a task; each SQL  *)
(* statement is an action.  Only compare_and_swap uses a transaction: its  *)
(* advisory lock and uncommitted row last until COMMIT or rollback.        *)
(***************************************************************************)
EXTENDS Naturals, Sequences, FiniteSets, SequencesExt

CONSTANTS
  Task,        \* handler executions, each used once
  Repository, KeyType, Untyped,
  Rest,        \* the 31 bytes of a key behind its first
  Value, Zero, \* non-zero hashes, and the zero hash
  Absent,      \* no row
  LockId,      \* advisory lock numbers
  LockOf,      \* Slot -> LockId: the 64-bit hash of repository and typed key
  Requests,    \* what clients may ask for
  InitTable,   \* the table at the start
  MaxFaults    \* bound: failed calls, lost replies and crashes in a behaviour

\* A row's key; a client's key has any first byte, here the type it claims.
Key == [type: KeyType, tail: Rest]
Slot == [repo: Repository, key: Key]

Hash == Value \cup {Zero}
LoadRequest == [op: {"load"}, repo: Repository, key: Key, type: KeyType]
StoreRequest == [op: {"store"}, repo: Repository, key: Key, type: KeyType, value: Hash]
CasRequest == [op: {"cas"}, repo: Repository, key: Key, type: KeyType,
               expected: Hash, value: Hash]
ListRequest == [op: {"list"}, repo: Repository, type: KeyType]
Request == LoadRequest \cup StoreRequest \cup CasRequest \cup ListRequest
NoRequest == [op |-> "none"]

ASSUME ValueAssumption == Zero \notin Value /\ Absent \notin Hash
ASSUME TypeAssumption == Untyped \in KeyType
ASSUME LockAssumption == LockOf \in [Slot -> LockId]
ASSUME RequestAssumption == Requests \subseteq Request
ASSUME TableAssumption == InitTable \in [Slot -> Hash \cup {Absent}]
ASSUME FaultAssumption == MaxFaults \in Nat

VARIABLES
  table,   \* committed rows
  pc, req, res,
  current, \* the value a compare_and_swap has read
  faults

vars == <<table, pc, req, res, current, faults>>

Answer(k, v, r) == [kind |-> k, value |-> v, rows |-> r]
Unanswered == Answer("none", Zero, {})

\* typed_key: the first byte of the client's key is overwritten with the key type.
TypedKey(key, type) == [key EXCEPT !.type = type]
SlotOf(r) == [repo |-> r.repo, key |-> TypedKey(r.key, r.type)]

Init ==
  /\ table = InitTable
  /\ pc = [t \in Task |-> "idle"]
  /\ req = [t \in Task |-> NoRequest]
  /\ res = [t \in Task |-> Unanswered]
  /\ current = [t \in Task |-> Zero]
  /\ faults = 0

Running(t) == pc[t] \notin {"idle", "done"}

Goto(t, l) == pc' = [pc EXCEPT ![t] = l] /\ UNCHANGED <<res, faults>>
Return(t, answer) ==
  /\ pc' = [pc EXCEPT ![t] = "done"]
  /\ res' = [res EXCEPT ![t] = answer]
  /\ UNCHANGED faults
LostReply(t) ==
  /\ faults < MaxFaults
  /\ faults' = faults + 1
  /\ pc' = [pc EXCEPT ![t] = "done"]
  /\ res' = [res EXCEPT ![t] = Answer("err", Zero, {})]

Begin(t) ==
  /\ pc[t] = "idle"
  /\ \E r \in Requests :
       /\ req' = [req EXCEPT ![t] = r]
       /\ \/ r.op = "load" /\ Goto(t, "load")
          \/ r.op = "store" /\ Goto(t, "store")
          \/ r.op = "cas" /\ Goto(t, "cas_lock")
          \/ r.op = "list" /\ Goto(t, "list")
  /\ UNCHANGED <<table, current>>

\* A stored zero and a missing row are the same to a reader.
Read(s) == IF table[s] = Absent THEN Zero ELSE table[s]

Load(t) ==
  LET v == Read(SlotOf(req[t]))
  IN  /\ pc[t] = "load"
      /\ Return(t, IF v = Zero THEN Answer("not_found", Zero, {}) ELSE Answer("ok", v, {}))
      /\ UNCHANGED <<table, req, current>>

\* A compare_and_swap that has written, and not committed, holds the row.
RowHeld(s) == \E t \in Task : pc[t] = "commit_swap" /\ SlotOf(req[t]) = s

\* store_typed: zero deletes the row and anything else upserts it, outside the advisory
\* lock.  A DELETE that finds no committed row has nothing to wait for.
Store(t) ==
  LET s == SlotOf(req[t])
      v == req[t].value
  IN  /\ pc[t] = "store"
      /\ ~RowHeld(s) \/ (v = Zero /\ table[s] = Absent)
      /\ table' = [table EXCEPT ![s] = IF v = Zero THEN Absent ELSE v]
      /\ Return(t, Answer("ok", Zero, {})) \/ LostReply(t)
      /\ UNCHANGED <<req, current>>

\* Mutant: a failed transaction keeps its advisory lock.
LockHeldLeak(id) ==
  \E t \in Task : /\ \/ pc[t] \in {"cas_select", "cas_write", "commit_swap", "commit_unchanged"}
                     \/ pc[t] = "done" /\ req[t].op = "cas" /\ res[t].kind = "err"
                  /\ LockOf[SlotOf(req[t])] = id

\* Mutant: only rows that exist can be locked.
LockHeldExisting(id) ==
  \E t \in Task : /\ pc[t] \in {"cas_select", "cas_write", "commit_swap", "commit_unchanged"}
                  /\ table[SlotOf(req[t])] # Absent
                  /\ LockOf[SlotOf(req[t])] = id

\* The transactions that hold an advisory lock.
LockHeld(id) ==
  \E t \in Task : /\ pc[t] \in {"cas_select", "cas_write", "commit_swap", "commit_unchanged"}
                  /\ LockOf[SlotOf(req[t])] = id

CasLock(t) ==
  /\ pc[t] = "cas_lock" /\ ~LockHeld(LockOf[SlotOf(req[t])])
  /\ Goto(t, "cas_select")
  /\ UNCHANGED <<table, req, current>>

\* Mutant: a stored zero never equals an expected zero.
CasSelectNoZero(t) ==
  /\ pc[t] = "cas_select"
  /\ LET s == SlotOf(req[t])
         match == Read(s) = req[t].expected /\ table[s] # Zero
     IN  /\ current' = [current EXCEPT ![t] = Read(s)]
         /\ Goto(t, IF match THEN "cas_write" ELSE "commit_unchanged")
  /\ UNCHANGED <<table, req>>

\* Mutant: a missing row is not read as zero.
CasSelectRaw(t) ==
  /\ pc[t] = "cas_select"
  /\ LET v == table[SlotOf(req[t])]
     IN  /\ current' = [current EXCEPT ![t] = v]
         /\ Goto(t, IF v = req[t].expected THEN "cas_write" ELSE "commit_unchanged")
  /\ UNCHANGED <<table, req>>

CasSelect(t) ==
  /\ pc[t] = "cas_select"
  /\ LET v == Read(SlotOf(req[t]))
     IN  /\ current' = [current EXCEPT ![t] = v]
         /\ Goto(t, IF v = req[t].expected THEN "cas_write" ELSE "commit_unchanged")
  /\ UNCHANGED <<table, req>>

CasWrite(t) ==
  /\ pc[t] = "cas_write" /\ ~RowHeld(SlotOf(req[t]))
  /\ Goto(t, "commit_swap")
  /\ UNCHANGED <<table, req, current>>

\* The upsert becomes visible, a zero as a row of its own; the witness is what was read.
CasCommit(t) ==
  /\ pc[t] \in {"commit_swap", "commit_unchanged"}
  /\ table' = IF pc[t] = "commit_swap"
                THEN [table EXCEPT ![SlotOf(req[t])] = req[t].value] ELSE table
  /\ Return(t, Answer("ok", current[t], {})) \/ LostReply(t)
  /\ UNCHANGED <<req, current>>

\* The rows of one repository whose key starts with the type byte, zeros left out.
Listing(repo, type) ==
  {<<s, table[s]>> : s \in {u \in Slot : /\ u.repo = repo /\ u.key.type = type
                                          /\ table[u] \notin {Absent, Zero}}}

\* list: one SELECT of a spawned task; Untyped lists nothing, and so does an error, which
\* the caller cannot tell from the end of the stream.
List(t) ==
  /\ pc[t] = "list"
  /\ IF req[t].type = Untyped
       THEN Return(t, Answer("ok", Zero, {}))
       ELSE Return(t, Answer("ok", Zero, Listing(req[t].repo, req[t].type)))
  /\ UNCHANGED <<table, req, current>>

\* A call fails without effect; an open transaction is rolled back.
Fail(t) ==
  /\ Running(t) /\ faults < MaxFaults
  /\ faults' = faults + 1
  /\ pc' = [pc EXCEPT ![t] = "done"]
  /\ res' = [res EXCEPT ![t] = IF pc[t] = "list" THEN Answer("ok", Zero, {})
                                                ELSE Answer("err", Zero, {})]
  /\ UNCHANGED <<table, req, current>>

Crash ==
  /\ faults < MaxFaults /\ \E t \in Task : Running(t)
  /\ faults' = faults + 1
  /\ pc' = [t \in Task |-> IF Running(t) THEN "done" ELSE pc[t]]
  /\ res' = [t \in Task |-> IF Running(t) THEN Answer("err", Zero, {}) ELSE res[t]]
  /\ UNCHANGED <<table, req, current>>

Step(t) == \/ Load(t) \/ Store(t) \/ CasLock(t) \/ CasSelect(t) \/ CasWrite(t)
           \/ CasCommit(t) \/ List(t)

Next == Crash \/ \E t \in Task : Begin(t) \/ Step(t) \/ Fail(t)

Spec == Init /\ [][Next]_vars

\* The runtime polls every task whose call has completed, and Postgres grants a lock that
\* is free to the transaction waiting for it.
FairSpec == Spec /\ \A t \in Task : WF_vars(Step(t))

-----------------------------------------------------------------------------
(* Correctness.                                                            *)

\* Every variable keeps its type.
TypeOK ==
  /\ table \in [Slot -> Hash \cup {Absent}]
  /\ pc \in [Task -> {"idle", "done", "load", "store", "cas_lock", "cas_select", "cas_write",
                      "commit_swap", "commit_unchanged", "list"}]
  /\ req \in [Task -> Request \cup {NoRequest}]
  /\ res \in [Task -> [kind: {"none", "ok", "err", "not_found"}, value: Hash,
                       rows: SUBSET (Slot \X Value)]]
  /\ current \in [Task -> Hash]
  /\ faults \in Nat

\* What a compare_and_swap read is still the value of its slot when it writes and when it
\* commits, as long as the slot is not also the target of plain stores.
WitnessCurrent ==
  \A t \in Task :
    /\ pc[t] \in {"cas_write", "commit_swap", "commit_unchanged"}
    /\ ~\E u \in Task : req[u].op = "store" /\ SlotOf(req[u]) = SlotOf(req[t])
    => current[t] = Read(SlotOf(req[t]))

SlotType(s) == <<s.repo, s.key.type>>
RequestTarget(r) == IF r.op = "list" THEN <<r.repo, r.type>> ELSE SlotOf(r)
Atomic == INSTANCE MutableRegister
            WITH reg <- [s \in Slot |-> Read(s)],
                 status <- [t \in Task |-> IF Running(t) THEN "pending" ELSE pc[t]],
                 TypeOf <- SlotType, Target <- RequestTarget
\* The promise of the abstract register: with no store aimed at a slot that is compared
\* and swapped, every behaviour is one of atomic operations.
AtomicRegister == Atomic!Spec

\* The effect and the witness of one compare_and_swap or store on a register's value.
After(r, v) ==
  IF r.op = "store" THEN r.value
  ELSE IF r.op = "cas" /\ v = r.expected THEN r.value ELSE v
\* The value a slot has after the operations of a sequence of tasks.
Replay(order, s) ==
  FoldLeft(LAMBDA v, t : IF SlotOf(req[t]) = s THEN After(req[t], v) ELSE v,
           IF InitTable[s] = Absent THEN Zero ELSE InitTable[s], order)
Writers == {t \in Task : req[t].op \in {"store", "cas"} /\ res[t].kind = "ok"}

\* "Atomic compare-and-swap" (docs/design.md:33): once nothing runs, the answers and the
\* final values are those of some order of the stores and compare_and_swaps.
Serializable ==
  (\A t \in Task : ~Running(t)) /\ (\A t \in Task : res[t].kind # "err") =>
    \E order \in SetToSeqs(Writers) :
      /\ \A s \in Slot : Replay(order, s) = Read(s)
      /\ \A i \in DOMAIN order :
           req[order[i]].op = "cas" =>
             res[order[i]].value = Replay(SubSeq(order, 1, i - 1), SlotOf(req[order[i]]))

\* A lock is always released: every request that starts returns.
RequestsReturn == \A t \in Task : Running(t) ~> pc[t] = "done"
=============================================================================
