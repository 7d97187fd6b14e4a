------------------------- MODULE MutableStoreProofs -------------------------
(* Theorems about MutableStore: types, the witness of a compare_and_swap,  *)
(* and the refinement of MutableRegister.                                  *)
EXTENDS MutableStore, TLAPS

(* Type correctness.                                                       *)

\* The labels between the advisory lock and the end of a compare_and_swap.
CasHeld == {"cas_select", "cas_write", "commit_swap", "commit_unchanged"}

\* Where a task is tells its operation, and an idle one has no request yet.
Control ==
  \A t \in Task :
    /\ pc[t] = "idle" => req[t] = NoRequest
    /\ pc[t] = "load" => req[t] \in LoadRequest
    /\ pc[t] = "store" => req[t] \in StoreRequest
    /\ pc[t] \in CasHeld \cup {"cas_lock"} => req[t] \in CasRequest
    /\ pc[t] = "list" => req[t] \in ListRequest

TypeInv == TypeOK /\ Control

Cell == Hash \cup {Absent}
Response == [kind: {"none", "ok", "err", "not_found"}, value: Hash,
             rows: SUBSET (Slot \X Value)]
Label == {"idle", "done", "load", "store", "cas_lock", "cas_select", "cas_write",
          "commit_swap", "commit_unchanged", "list"}

\* What a request is tells its operation, and the slot it names is a slot.
LEMMA RequestShapes ==
  /\ \A r \in LoadRequest : r.op = "load" /\ SlotOf(r) \in Slot
  /\ \A r \in StoreRequest : r.op = "store" /\ SlotOf(r) \in Slot /\ r.value \in Hash
  /\ \A r \in CasRequest : /\ r.op = "cas" /\ SlotOf(r) \in Slot
                           /\ r.value \in Hash /\ r.expected \in Hash
  /\ \A r \in ListRequest : r.op = "list" /\ r.repo \in Repository /\ r.type \in KeyType
  BY DEF LoadRequest, StoreRequest, CasRequest, ListRequest, SlotOf, TypedKey, Slot, Key

\* The operation of a client's request tells its shape.
LEMMA RequestKinds ==
  ASSUME NEW r \in Requests
  PROVE  /\ r \in Request /\ r # NoRequest
         /\ r.op = "load" => r \in LoadRequest
         /\ r.op = "store" => r \in StoreRequest
         /\ r.op = "cas" => r \in CasRequest
         /\ r.op = "list" => r \in ListRequest
  BY RequestAssumption
  DEF Request, LoadRequest, StoreRequest, CasRequest, ListRequest, NoRequest

\* Readers see hashes, and listings show rows of values.
LEMMA ReadTypes ==
  ASSUME table \in [Slot -> Cell]
  PROVE  /\ \A s \in Slot : Read(s) \in Hash
         /\ \A repo, type : Listing(repo, type) \subseteq Slot \X Value
  BY DEF Read, Listing, Cell, Hash

LEMMA AnswerTypes ==
  ASSUME NEW k \in {"none", "ok", "err", "not_found"}, NEW v \in Hash,
         NEW r \in SUBSET (Slot \X Value)
  PROVE  Answer(k, v, r) \in Response
  BY DEF Answer, Response

LEMMA TypeInit == Init => TypeInv
  BY TableAssumption, FaultAssumption
  DEF Init, TypeInv, TypeOK, Control, CasHeld, Unanswered, Answer, Hash

\* A task moves on to label l with its request and its answer as they are.
LEMMA TypeGoto ==
  ASSUME TypeInv, NEW t \in Task, NEW l \in Label \ {"idle"}, Goto(t, l), UNCHANGED <<table, req>>,
         current' \in [Task -> Hash],
         l = "load" => req[t] \in LoadRequest,
         l = "store" => req[t] \in StoreRequest,
         l \in CasHeld \cup {"cas_lock"} => req[t] \in CasRequest,
         l = "list" => req[t] \in ListRequest
  PROVE  TypeInv'
  BY DEF TypeInv, TypeOK, Control, Goto, Label, CasHeld

\* A task answers.
LEMMA TypeEnd ==
  ASSUME TypeInv, NEW t \in Task, NEW a \in Response,
         pc' = [pc EXCEPT ![t] = "done"], res' = [res EXCEPT ![t] = a],
         table' \in [Slot -> Cell], faults' \in Nat, UNCHANGED <<req, current>>
  PROVE  TypeInv'
  BY DEF TypeInv, TypeOK, Control, CasHeld, Response, Cell

\* An answer that arrives or does not keeps the types.
LEMMA TypeAnswer ==
  ASSUME TypeInv, NEW t \in Task, NEW a \in Response, Return(t, a) \/ LostReply(t),
         table' \in [Slot -> Cell], UNCHANGED <<req, current>>
  PROVE  TypeInv'
  <1>1. faults \in Nat
    BY DEF TypeInv, TypeOK
  <1>2. CASE Return(t, a)
    BY <1>1, <1>2, TypeEnd DEF Return
  <1>3. CASE LostReply(t)
    <2>1. Answer("err", Zero, {}) \in Response
      BY AnswerTypes DEF Hash
    <2>2. faults' \in Nat
      BY <1>1, <1>3 DEF LostReply
    <2> QED
      BY <1>3, <2>1, <2>2, TypeEnd DEF LostReply
  <1> QED
    BY <1>2, <1>3

\* A task starts with a request of a client.
LEMMA TypeBegin ==
  ASSUME TypeInv, NEW t \in Task, Begin(t)
  PROVE  TypeInv'
  <1>1. PICK r \in Requests :
          /\ req' = [req EXCEPT ![t] = r]
          /\ \/ r.op = "load" /\ Goto(t, "load")
             \/ r.op = "store" /\ Goto(t, "store")
             \/ r.op = "cas" /\ Goto(t, "cas_lock")
             \/ r.op = "list" /\ Goto(t, "list")
    BY DEF Begin
  <1>2. /\ r \in Request
        /\ r.op = "load" => r \in LoadRequest
        /\ r.op = "store" => r \in StoreRequest
        /\ r.op = "cas" => r \in CasRequest
        /\ r.op = "list" => r \in ListRequest
    BY RequestKinds
  <1>3. UNCHANGED <<table, current, res, faults>>
    BY <1>1 DEF Begin, Goto
  <1>4. PICK l \in {"load", "store", "cas_lock", "list"} :
          /\ pc' = [pc EXCEPT ![t] = l]
          /\ l = "load" => r \in LoadRequest
          /\ l = "store" => r \in StoreRequest
          /\ l = "cas_lock" => r \in CasRequest
          /\ l = "list" => r \in ListRequest
    BY <1>1, <1>2 DEF Goto
  <1>5. TypeOK'
    BY <1>1, <1>2, <1>3, <1>4 DEF TypeInv, TypeOK
  <1>6. Control'
    BY <1>1, <1>4 DEF TypeInv, TypeOK, Control, CasHeld
  <1> QED
    BY <1>5, <1>6 DEF TypeInv

\* load, store and list answer with what their types allow.
LEMMA TypeSingle ==
  ASSUME TypeInv, NEW t \in Task, Load(t) \/ Store(t) \/ List(t)
  PROVE  TypeInv'
  <1>1. table \in [Slot -> Cell] /\ Zero \in Hash
    BY DEF TypeInv, TypeOK, Cell, Hash
  <1>2. CASE Load(t)
    <2> DEFINE v == Read(SlotOf(req[t]))
    <2>1. SlotOf(req[t]) \in Slot
      BY <1>2, RequestShapes DEF Load, TypeInv, Control
    <2>2. v \in Hash
      BY <1>1, <2>1, ReadTypes
    <2> HIDE DEF v
    <2>3. Answer("not_found", Zero, {}) \in Response /\ Answer("ok", v, {}) \in Response
      BY <1>1, <2>2, AnswerTypes
    <2>4. PICK a \in Response : Return(t, a)
      BY <1>2, <2>3 DEF Load, v
    <2>5. UNCHANGED <<table, req, current>>
      BY <1>2 DEF Load
    <2> QED
      BY <1>1, <2>4, <2>5, TypeAnswer
  <1>3. CASE Store(t)
    <2>1. req[t].value \in Hash
      BY <1>3, RequestShapes DEF Store, TypeInv, Control
    <2>2. table' \in [Slot -> Cell]
      BY <1>1, <1>3, <2>1 DEF Store, Cell
    <2>3. Answer("ok", Zero, {}) \in Response
      BY <1>1, AnswerTypes
    <2>4. UNCHANGED <<req, current>> /\ (Return(t, Answer("ok", Zero, {})) \/ LostReply(t))
      BY <1>3 DEF Store
    <2> QED
      BY <2>2, <2>3, <2>4, TypeAnswer
  <1>4. CASE List(t)
    <2>1. /\ Answer("ok", Zero, {}) \in Response
          /\ Answer("ok", Zero, Listing(req[t].repo, req[t].type)) \in Response
      BY <1>1, ReadTypes, AnswerTypes
    <2>2. PICK a \in Response : Return(t, a)
      BY <1>4, <2>1 DEF List
    <2>3. UNCHANGED <<table, req, current>>
      BY <1>4 DEF List
    <2> QED
      BY <1>1, <2>2, <2>3, TypeAnswer
  <1> QED
    BY <1>2, <1>3, <1>4

\* So does compare_and_swap, which keeps the hash it has read.
LEMMA TypeSwap ==
  ASSUME TypeInv, NEW t \in Task, CasLock(t) \/ CasSelect(t) \/ CasWrite(t) \/ CasCommit(t)
  PROVE  TypeInv'
  <1>1. table \in [Slot -> Cell] /\ Zero \in Hash /\ current \in [Task -> Hash]
    BY DEF TypeInv, TypeOK, Cell, Hash
  <1>2. req[t] \in CasRequest
    BY DEF CasLock, CasSelect, CasWrite, CasCommit, TypeInv, Control, CasHeld
  <1>3. Read(SlotOf(req[t])) \in Hash /\ req[t].value \in Hash
    BY <1>1, <1>2, RequestShapes, ReadTypes
  <1>4. CASE CasLock(t) \/ CasWrite(t)
    <2>1. PICK l \in {"cas_select", "commit_swap"} : Goto(t, l)
      BY <1>4 DEF CasLock, CasWrite
    <2>2. UNCHANGED <<table, req, current>>
      BY <1>4 DEF CasLock, CasWrite
    <2> QED
      BY <1>1, <1>2, <2>1, <2>2, TypeGoto DEF Label, CasHeld
  <1>5. CASE CasSelect(t)
    <2>1. PICK l \in {"cas_write", "commit_unchanged"} : Goto(t, l)
      BY <1>5 DEF CasSelect
    <2>2. UNCHANGED <<table, req>> /\ current' \in [Task -> Hash]
      BY <1>1, <1>3, <1>5 DEF CasSelect
    <2> QED
      BY <1>2, <2>1, <2>2, TypeGoto DEF Label, CasHeld
  <1>6. CASE CasCommit(t)
    <2>1. Answer("ok", current[t], {}) \in Response
      BY <1>1, AnswerTypes
    <2>2. table' \in [Slot -> Cell]
      BY <1>1, <1>3, <1>6 DEF CasCommit, Cell
    <2>3. /\ UNCHANGED <<req, current>>
          /\ Return(t, Answer("ok", current[t], {})) \/ LostReply(t)
      BY <1>6 DEF CasCommit
    <2> QED
      BY <2>1, <2>2, <2>3, TypeAnswer
  <1> QED
    BY <1>4, <1>5, <1>6

\* Failures end a task, crashes all of them.
LEMMA TypeFault ==
  ASSUME TypeInv, Crash \/ \E t \in Task : Fail(t)
  PROVE  TypeInv'
  <1>1. /\ Answer("err", Zero, {}) \in Response /\ Answer("ok", Zero, {}) \in Response
        /\ table \in [Slot -> Cell] /\ faults \in Nat
    BY AnswerTypes DEF Hash, TypeInv, TypeOK, Cell
  <1>2. ASSUME NEW t \in Task, Fail(t) PROVE TypeInv'
    <2>1. PICK a \in Response : res' = [res EXCEPT ![t] = a]
      BY <1>1, <1>2 DEF Fail
    <2>2. /\ pc' = [pc EXCEPT ![t] = "done"] /\ UNCHANGED <<table, req, current>>
          /\ faults' \in Nat
      BY <1>1, <1>2 DEF Fail
    <2> QED
      BY <1>1, <2>1, <2>2, TypeEnd
  <1>3. CASE Crash
    <2>1. res' \in [Task -> Response]
      BY <1>1, <1>3 DEF Crash, TypeInv, TypeOK, Response
    <2>2. /\ pc' \in [Task -> Label] /\ faults' \in Nat /\ UNCHANGED <<table, req, current>>
          /\ \A u \in Task : pc'[u] \in {"done", "idle"} /\ (pc'[u] = "idle" => pc[u] = "idle")
      BY <1>1, <1>3 DEF Crash, TypeInv, TypeOK, Running, Label
    <2> QED
      BY <2>1, <2>2 DEF TypeInv, TypeOK, Control, CasHeld, Response, Label
  <1> QED
    BY <1>2, <1>3

LEMMA TypeNext == TypeInv /\ [Next]_vars => TypeInv'
  <1> SUFFICES ASSUME TypeInv, [Next]_vars PROVE TypeInv'
    OBVIOUS
  <1>1. CASE UNCHANGED vars
    BY <1>1 DEF TypeInv, TypeOK, Control, vars
  <1>2. ASSUME NEW t \in Task, Step(t) PROVE TypeInv'
    BY <1>2, TypeSingle, TypeSwap DEF Step
  <1> QED
    BY <1>1, <1>2, TypeBegin, TypeFault DEF Next

\* TypeOK for every workload and any faults.
THEOREM RegisterTypeCorrect == Spec => []TypeOK
  <1>1. TypeInv => TypeOK
    BY DEF TypeInv
  <1> QED
    BY TypeInit, TypeNext, <1>1, PTL DEF Spec

-----------------------------------------------------------------------------
(* The witness of a compare_and_swap.                                      *)

\* Two transactions never hold one advisory lock, whatever slots they are about.
LockExclusive ==
  \A t, u \in Task :
    /\ pc[t] \in CasHeld /\ pc[u] \in CasHeld
    /\ LockOf[SlotOf(req[t])] = LockOf[SlotOf(req[u])]
    => t = u

\* A compare_and_swap writes when it has read what was expected, and only then.
Compared ==
  \A t \in Task :
    /\ pc[t] \in {"cas_write", "commit_swap"} => current[t] = req[t].expected
    /\ pc[t] = "commit_unchanged" => current[t] # req[t].expected

WitnessInv == LockExclusive /\ Compared /\ WitnessCurrent

\* The step of one task is nothing to another.
LEMMA Elsewhere ==
  ASSUME TypeInv, NEW t \in Task, Begin(t) \/ Step(t) \/ Fail(t), NEW u \in Task \ {t}
  PROVE  pc'[u] = pc[u] /\ req'[u] = req[u] /\ current'[u] = current[u]
  <1> USE DEF TypeInv, TypeOK, Goto, Return, LostReply
  <1>1. CASE Begin(t) \/ Fail(t)
    BY <1>1 DEF Begin, Fail
  <1>2. CASE Load(t) \/ Store(t) \/ List(t)
    BY <1>2 DEF Load, Store, List
  <1>3. CASE CasLock(t) \/ CasSelect(t) \/ CasWrite(t) \/ CasCommit(t)
    BY <1>3 DEF CasLock, CasSelect, CasWrite, CasCommit
  <1> QED
    BY <1>1, <1>2, <1>3 DEF Step

\* A request stays what it is.
LEMMA RequestKept ==
  ASSUME TypeInv, [Next]_vars, NEW u \in Task
  PROVE  req[u] = NoRequest \/ req'[u] = req[u]
  <1>1. CASE UNCHANGED vars \/ Crash
    BY <1>1 DEF vars, Crash
  <1>2. ASSUME NEW t \in Task, Begin(t) PROVE req[u] = NoRequest \/ req'[u] = req[u]
    BY <1>2, Elsewhere DEF Begin, TypeInv, Control
  <1>3. ASSUME NEW t \in Task, Step(t) \/ Fail(t) PROVE UNCHANGED req
    BY <1>3 DEF Step, Fail, Load, Store, List, CasLock, CasSelect, CasWrite, CasCommit
  <1> QED
    BY <1>1, <1>2, <1>3 DEF Next

\* Among the steps of a compare_and_swap only the first enters the critical section.
LEMMA HeldArrives ==
  ASSUME TypeInv, [Next]_vars, NEW u \in Task, pc'[u] \in CasHeld
  PROVE  req'[u] = req[u] /\ (pc[u] \in CasHeld \/ CasLock(u))
  <1> USE DEF TypeInv, TypeOK, CasHeld, Goto, Return, LostReply
  <1>1. CASE UNCHANGED vars \/ Crash
    BY <1>1 DEF vars, Crash, Running
  <1>2. ASSUME NEW t \in Task \ {u}, Begin(t) \/ Step(t) \/ Fail(t)
        PROVE  req'[u] = req[u] /\ pc[u] \in CasHeld
    BY <1>2, Elsewhere
  <1>3. ~Begin(u) /\ ~Fail(u)
    BY DEF Begin, Fail
  <1>4. CASE Step(u)
    <2>1. ~Load(u) /\ ~Store(u) /\ ~List(u) /\ ~CasCommit(u)
      BY DEF Load, Store, List, CasCommit
    <2> QED
      BY <1>4, <2>1 DEF Step, CasLock, CasSelect, CasWrite
  <1> QED
    BY <1>1, <1>2, <1>3, <1>4 DEF Next

\* A slot is written by a store of that slot, or by the commit of a swap of it.
LEMMA SlotWritten ==
  ASSUME TypeInv, [Next]_vars, NEW s \in Slot, table'[s] # table[s]
  PROVE  \E t \in Task : /\ SlotOf(req[t]) = s
                         /\ req[t].op = "store" \/ (CasCommit(t) /\ pc[t] = "commit_swap")
  <1>1. PICK t \in Task : Store(t) \/ CasCommit(t)
    BY DEF Next, Step, vars, Crash, Begin, Fail, Load, List, CasLock, CasSelect, CasWrite
  <1>2. CASE Store(t)
    <2>1. req[t].op = "store"
      BY <1>2, RequestShapes DEF Store, TypeInv, Control
    <2>2. SlotOf(req[t]) = s
      BY <1>2 DEF Store, TypeInv, TypeOK
    <2> QED
      BY <2>1, <2>2
  <1>3. CASE CasCommit(t)
    <2>1. pc[t] = "commit_swap" /\ SlotOf(req[t]) = s
      BY <1>3 DEF CasCommit, TypeInv, TypeOK
    <2> QED
      BY <1>3, <2>1
  <1> QED
    BY <1>1, <1>2, <1>3

LEMMA LockExclusiveNext ==
  ASSUME TypeInv, LockExclusive, [Next]_vars
  PROVE  LockExclusive'
  <1> SUFFICES ASSUME NEW t \in Task, NEW u \in Task, t # u,
                      pc'[t] \in CasHeld, pc'[u] \in CasHeld,
                      LockOf[SlotOf(req'[t])] = LockOf[SlotOf(req'[u])]
               PROVE  FALSE
    BY DEF LockExclusive, SlotOf
  <1>1. /\ req'[t] = req[t] /\ req'[u] = req[u]
        /\ pc[t] \in CasHeld \/ CasLock(t)
        /\ pc[u] \in CasHeld \/ CasLock(u)
    BY HeldArrives
  <1>2. CasLock(t) \/ CasLock(u)
    BY <1>1 DEF LockExclusive
  <1>3. ASSUME NEW x \in Task, NEW y \in Task \ {x}, CasLock(x), pc'[y] \in CasHeld,
               LockOf[SlotOf(req[y])] = LockOf[SlotOf(req[x])]
        PROVE  FALSE
    <2>1. pc[y] \in CasHeld
      BY <1>3, Elsewhere DEF Step
    <2> QED
      BY <1>3, <2>1 DEF CasLock, LockHeld, CasHeld
  <1> QED
    BY <1>1, <1>2, <1>3

\* A task compares once, and keeps what it has read.
LEMMA ComparedNext ==
  ASSUME TypeInv, Compared, [Next]_vars
  PROVE  Compared'
  <1> USE DEF TypeInv, TypeOK, Compared, Goto, Return, LostReply
  <1>1. CASE UNCHANGED vars
    BY <1>1 DEF vars
  <1>2. CASE Crash
    BY <1>2 DEF Crash, Running
  <1>3. ASSUME NEW t \in Task, Begin(t) \/ Step(t) \/ Fail(t) PROVE Compared'
    <2>1. \A u \in Task \ {t} :
            pc'[u] = pc[u] /\ req'[u] = req[u] /\ current'[u] = current[u]
      BY <1>3, Elsewhere
    <2>2. \/ pc'[t] \notin {"cas_write", "commit_swap", "commit_unchanged"}
          \/ CasSelect(t) \/ CasWrite(t)
      BY <1>3 DEF Step, Begin, Fail, Load, Store, List, CasLock, CasCommit
    <2>3. CASE CasSelect(t)
      <3>1. UNCHANGED req /\ \/ pc'[t] = "cas_write" /\ current'[t] = req[t].expected
                             \/ pc'[t] = "commit_unchanged" /\ current'[t] # req[t].expected
        BY <2>3 DEF CasSelect
      <3> QED
        BY <2>1, <3>1
    <2>4. CASE CasWrite(t)
      BY <2>1, <2>4 DEF CasWrite
    <2> QED
      BY <2>1, <2>2, <2>3, <2>4
  <1> QED
    BY <1>1, <1>2, <1>3 DEF Next

\* A task past its SELECT, or getting there by another step, keeps what it has read.
LEMMA MovesPast ==
  ASSUME TypeInv, [Next]_vars, NEW t \in Task, ~CasSelect(t),
         pc'[t] \in {"cas_write", "commit_swap", "commit_unchanged"}
  PROVE  /\ pc[t] \in {"cas_write", "commit_swap", "commit_unchanged"}
         /\ current'[t] = current[t]
  <1> USE DEF TypeInv, TypeOK, Goto, Return, LostReply
  <1>1. CASE UNCHANGED vars \/ Crash
    BY <1>1 DEF vars, Crash, Running
  <1>2. ASSUME NEW u \in Task, Begin(u) \/ Step(u) \/ Fail(u)
        PROVE  /\ pc[t] \in {"cas_write", "commit_swap", "commit_unchanged"}
               /\ current'[t] = current[t]
    <2>1. CASE u # t
      BY <1>2, <2>1, Elsewhere
    <2>2. CASE u = t
      <3>1. CasWrite(t)
        BY <1>2, <2>2 DEF Step, Begin, Fail, Load, Store, List, CasLock, CasCommit
      <3> QED
        BY <3>1 DEF CasWrite
    <2> QED
      BY <2>1, <2>2
  <1> QED
    BY <1>1, <1>2 DEF Next

\* While a task is past its SELECT nothing but a plain store writes its slot.
LEMMA WitnessNext ==
  ASSUME TypeInv, WitnessInv, [Next]_vars
  PROVE  WitnessCurrent'
  <1> DEFINE Past == {"cas_write", "commit_swap", "commit_unchanged"}
  <1> SUFFICES ASSUME NEW t \in Task, pc'[t] \in Past,
                      \A u \in Task : req'[u].op = "store" => SlotOf(req'[u]) # SlotOf(req'[t])
               PROVE  current'[t] = Read(SlotOf(req[t]))'
    BY DEF WitnessCurrent
  <1> DEFINE s == SlotOf(req[t])
  <1>1. req'[t] = req[t] /\ (pc[t] \in CasHeld \/ CasLock(t))
    BY HeldArrives DEF CasHeld
  <1>2. ~CasLock(t)
    BY DEF CasLock, Goto, TypeInv, TypeOK
  <1>3. s \in Slot
    BY <1>1, <1>2, RequestShapes DEF TypeInv, Control
  <1>4. \A u \in Task : req[u].op = "store" => SlotOf(req[u]) # s
    BY <1>1, RequestKept DEF NoRequest
  <1>5. table'[s] = table[s]
    <2>1. ASSUME NEW u \in Task, SlotOf(req[u]) = s, CasCommit(u), pc[u] = "commit_swap"
          PROVE  FALSE
      <3>1. u = t
        BY <1>1, <1>2, <2>1 DEF WitnessInv, LockExclusive, CasHeld
      <3> QED
        BY <2>1, <3>1 DEF CasCommit, Return, LostReply, TypeInv, TypeOK
    <2> QED
      BY <1>3, <1>4, <2>1, SlotWritten
  <1>6. Read(s)' = Read(s)
    BY <1>1, <1>5 DEF Read
  <1>7. CASE CasSelect(t)
    <2>1. current'[t] = Read(s)
      BY <1>7 DEF CasSelect, TypeInv, TypeOK
    <2> QED
      BY <1>1, <1>6, <2>1 DEF SlotOf, Read
  <1>8. CASE ~CasSelect(t)
    <2>1. pc[t] \in Past /\ current'[t] = current[t]
      BY <1>8, MovesPast
    <2> QED
      BY <1>1, <1>4, <1>6, <2>1 DEF WitnessInv, WitnessCurrent
  <1> QED
    BY <1>7, <1>8

\* Nobody holds an advisory lock at the start.
LEMMA WitnessInit == Init => WitnessInv
  BY DEF Init, WitnessInv, LockExclusive, Compared, WitnessCurrent, CasHeld

\* WitnessCurrent for every workload and any faults: between its SELECT and its commit no
\* other compare_and_swap, whatever keys share its advisory lock, changes what it has read.
THEOREM WitnessSafe == Spec => []WitnessCurrent
  <1>1. TypeInv /\ WitnessInv /\ [Next]_vars => WitnessInv'
    BY LockExclusiveNext, ComparedNext, WitnessNext DEF WitnessInv
  <1>2. WitnessInv => WitnessCurrent
    BY DEF WitnessInv
  <1> QED
    BY TypeInit, TypeNext, WitnessInit, <1>1, <1>2, PTL DEF Spec

-----------------------------------------------------------------------------
(* The refinement of MutableRegister.                                      *)


\* No client stores into a slot that one compares and swaps.
StoresApart ==
  \A r, q \in Requests : r.op = "store" /\ q.op = "cas" => SlotOf(r) # SlotOf(q)

\* A task has nothing else to do than what a client asks for.
Asked == \A t \in Task : req[t] \in Requests \cup {NoRequest}

LEMMA AskedNext ==
  ASSUME TypeInv, Asked, [Next]_vars
  PROVE  Asked'
  <1>1. ASSUME NEW t \in Task, Begin(t) PROVE Asked'
    <2>1. PICK r \in Requests : req' = [req EXCEPT ![t] = r]
      BY <1>1 DEF Begin
    <2> QED
      BY <2>1 DEF Asked, TypeInv, TypeOK
  <1>2. ASSUME NEW t \in Task, Step(t) \/ Fail(t) PROVE UNCHANGED req
    BY <1>2 DEF Step, Fail, Load, Store, List, CasLock, CasSelect, CasWrite, CasCommit
  <1> QED
    BY <1>1, <1>2 DEF Asked, Next, Crash, vars

LEMMA AtomicInit == Init => Atomic!Init
  <1> SUFFICES ASSUME Init PROVE Atomic!Init
    OBVIOUS
  <1>1. \A s \in Slot : Read(s) \in Value \cup {Zero}
    BY TableAssumption DEF Init, Read, Hash
  <1> QED
    BY <1>1 DEF Init, Atomic!Init, Atomic!Unanswered, Unanswered, Answer, NoRequest, Running

\* The register a client sees.
Register == [s \in Slot |-> Read(s)]
Status == [t \in Task |-> IF Running(t) THEN "pending" ELSE pc[t]]

\* The end of a handler is the answer of the register.
LEMMA Responds ==
  ASSUME TypeInv, NEW t \in Task, Running(t), NEW a, UNCHANGED req,
         pc' = [pc EXCEPT ![t] = "done"], res' = [res EXCEPT ![t] = a]
  PROVE  Atomic!Respond(t, a)
  <1>1. Status[t] = "pending" /\ Status' = [Status EXCEPT ![t] = "done"]
    BY DEF Status, Running, TypeInv, TypeOK
  <1> QED
    BY <1>1 DEF Atomic!Respond, Status

\* What a handler does to a row is what its request does to the register.
LEMMA RegisterWritten ==
  ASSUME TypeInv, NEW s \in Slot, NEW v \in Hash,
         \/ table' = [table EXCEPT ![s] = v]
         \/ table' = [table EXCEPT ![s] = IF v = Zero THEN Absent ELSE v]
  PROVE  Register' = [Register EXCEPT ![s] = v]
  <1>1. v # Absent
    BY ValueAssumption
  <1>2. \A u \in Slot : Read(u)' = IF u = s THEN v ELSE Read(u)
    BY <1>1 DEF Read, TypeInv, TypeOK
  <1> QED
    BY <1>2 DEF Register

LEMMA RegisterStays == UNCHANGED table => UNCHANGED Register
  BY DEF Register, Read

\* Whoever is at work is pending, and at work with its request.
LEMMA Pending ==
  ASSUME TypeInv, NEW t \in Task
  PROVE  /\ pc[t] = "load" => req[t].op = "load" /\ RequestTarget(req[t]) = SlotOf(req[t])
         /\ pc[t] = "store" => req[t].op = "store" /\ RequestTarget(req[t]) = SlotOf(req[t])
         /\ pc[t] \in CasHeld => req[t].op = "cas" /\ RequestTarget(req[t]) = SlotOf(req[t])
         /\ pc[t] = "list" => /\ req[t].op = "list"
                              /\ RequestTarget(req[t]) = <<req[t].repo, req[t].type>>
  BY RequestShapes DEF TypeInv, Control, RequestTarget

\* A call that is lost after it has taken effect, or without it.
LEMMA LostIsError ==
  ASSUME TypeInv, NEW t \in Task, Running(t), LostReply(t), UNCHANGED req,
         \/ UNCHANGED Register
         \/ req[t].op = "store" /\ Register' = Atomic!Written(req[t])
         \/ /\ req[t].op = "cas" /\ Register[RequestTarget(req[t])] = req[t].expected
            /\ Register' = Atomic!Written(req[t])
  PROVE  Atomic!Error(t)
  <1>1. Atomic!Respond(t, Answer("err", Zero, {}))
    BY Responds DEF LostReply
  <1> QED
    BY <1>1 DEF Atomic!Error, Atomic!Answer, Answer, Register

LEMMA BeginInvokes ==
  ASSUME TypeInv, NEW t \in Task, Begin(t)
  PROVE  Atomic!Invoke(t)
  <1>1. PICK r \in Requests, l \in {"load", "store", "cas_lock", "list"} :
          req' = [req EXCEPT ![t] = r] /\ Goto(t, l)
    BY DEF Begin
  <1>2. Status[t] = "idle" /\ Status' = [Status EXCEPT ![t] = "pending"]
    BY <1>1 DEF Begin, Goto, Status, Running, TypeInv, TypeOK
  <1>3. UNCHANGED <<Register, res>>
    BY <1>1, RegisterStays DEF Begin, Goto
  <1> QED
    BY <1>1, <1>2, <1>3 DEF Atomic!Invoke, Status, Register

LEMMA LoadIsLoad ==
  ASSUME TypeInv, NEW t \in Task, Load(t)
  PROVE  Atomic!Load(t)
  <1>1. Running(t) /\ pc[t] = "load"
    BY DEF Load, Running
  <1>2. req[t].op = "load" /\ RequestTarget(req[t]) = SlotOf(req[t]) /\ SlotOf(req[t]) \in Slot
    BY <1>1, Pending, RequestShapes DEF TypeInv, Control
  <1>3. PICK v : v = Read(SlotOf(req[t]))
    OBVIOUS
  <1>4. Register[RequestTarget(req[t])] = v
    BY <1>2, <1>3 DEF Register
  <1>5. PICK a : a = IF v = Zero THEN Answer("not_found", Zero, {}) ELSE Answer("ok", v, {})
    OBVIOUS
  <1>6. Return(t, a) /\ UNCHANGED <<table, req>>
    BY <1>3, <1>5 DEF Load
  <1>7. Atomic!Respond(t, a) /\ UNCHANGED Register
    BY <1>1, <1>6, Responds, RegisterStays DEF Return
  <1> QED
    BY <1>2, <1>4, <1>5, <1>7 DEF Atomic!Load, Atomic!Respond, Atomic!Answer, Answer, Register

LEMMA StoreIsStore ==
  ASSUME TypeInv, NEW t \in Task, Store(t)
  PROVE  Atomic!Store(t) \/ Atomic!Error(t)
  <1> DEFINE s == SlotOf(req[t])
  <1>1. Running(t) /\ pc[t] = "store"
    BY DEF Store, Running
  <1>2. req[t].op = "store" /\ RequestTarget(req[t]) = s /\ s \in Slot /\ req[t].value \in Hash
    BY <1>1, Pending, RequestShapes DEF TypeInv, Control
  <1>3. Register' = [Register EXCEPT ![s] = req[t].value]
    BY <1>2, RegisterWritten DEF Store
  <1>4. Register' = Atomic!Written(req[t])
    BY <1>2, <1>3 DEF Atomic!Written, Register
  <1>5. CASE Return(t, Answer("ok", Zero, {}))
    <2>1. Atomic!Respond(t, Answer("ok", Zero, {}))
      BY <1>1, <1>5, Responds DEF Return, Store
    <2> QED
      BY <1>2, <1>4, <2>1 DEF Atomic!Store, Atomic!Answer, Answer, Register
  <1>6. CASE LostReply(t)
    BY <1>1, <1>2, <1>4, <1>6, LostIsError DEF Store
  <1> QED
    BY <1>5, <1>6 DEF Store

\* With no stores in its way, the value a compare_and_swap has read is the register's when
\* it commits.
LEMMA CommitIsSwap ==
  ASSUME TypeInv, WitnessInv, Asked, StoresApart, NEW t \in Task, CasCommit(t)
  PROVE  Atomic!CompareAndSwap(t) \/ Atomic!Error(t)
  <1> DEFINE s == SlotOf(req[t])
  <1>1. Running(t) /\ pc[t] \in CasHeld
    BY DEF CasCommit, Running, CasHeld
  <1>2. /\ req[t].op = "cas" /\ RequestTarget(req[t]) = s /\ s \in Slot
        /\ req[t].value \in Hash /\ req[t] \in Requests
    BY <1>1, Pending, RequestShapes DEF TypeInv, Control, Asked, NoRequest
  <1>3. current[t] = Read(s)
    <2>1. \A u \in Task : req[u].op = "store" => SlotOf(req[u]) # s
      BY <1>2 DEF Asked, NoRequest, StoresApart
    <2> QED
      BY <2>1 DEF CasCommit, WitnessInv, WitnessCurrent
  <1>4. PICK v : v = current[t] /\ v = Register[s]
    BY <1>2, <1>3 DEF Register
  <1>5. CASE pc[t] = "commit_swap"
    <2>1. table' = [table EXCEPT ![s] = req[t].value]
      BY <1>5 DEF CasCommit
    <2>2. Register' = Atomic!Written(req[t])
      BY <1>2, <2>1, RegisterWritten DEF Atomic!Written, Register
    <2>3. current[t] = req[t].expected
      BY <1>5 DEF WitnessInv, Compared
    <2>4. CASE Return(t, Answer("ok", v, {}))
      <3>1. Atomic!Respond(t, Answer("ok", v, {}))
        BY <1>1, <2>4, Responds DEF Return, CasCommit
      <3> QED
        BY <1>2, <1>4, <2>2, <2>3, <3>1
        DEF Atomic!CompareAndSwap, Atomic!Respond, Atomic!Answer, Answer, Register
    <2>5. CASE LostReply(t)
      BY <1>1, <1>2, <1>4, <2>2, <2>3, <2>5, LostIsError DEF CasCommit
    <2> QED
      BY <1>4, <2>4, <2>5 DEF CasCommit
  <1>6. CASE pc[t] = "commit_unchanged"
    <2>1. UNCHANGED Register
      BY <1>6, RegisterStays DEF CasCommit
    <2>2. current[t] # req[t].expected
      BY <1>6 DEF WitnessInv, Compared
    <2>3. CASE Return(t, Answer("ok", v, {}))
      <3>1. Atomic!Respond(t, Answer("ok", v, {}))
        BY <1>1, <2>3, Responds DEF Return, CasCommit
      <3> QED
        BY <1>2, <1>4, <2>1, <2>2, <3>1
        DEF Atomic!CompareAndSwap, Atomic!Respond, Atomic!Answer, Answer, Register
    <2>4. CASE LostReply(t)
      BY <1>1, <2>1, <2>4, LostIsError DEF CasCommit
    <2> QED
      BY <1>4, <2>3, <2>4 DEF CasCommit
  <1> QED
    BY <1>5, <1>6 DEF CasCommit

\* The rows of a listing are the non-zero registers of its repository and type.
LEMMA ListIsList ==
  ASSUME TypeInv, NEW t \in Task, List(t)
  PROVE  Atomic!List(t) \/ Atomic!ListNothing(t)
  <1>1. Running(t) /\ pc[t] = "list"
    BY DEF List, Running
  <1>2. req[t].op = "list" /\ RequestTarget(req[t]) = <<req[t].repo, req[t].type>>
    BY <1>1, Pending
  <1>3. UNCHANGED Register
    BY RegisterStays DEF List
  <1>4. PICK rows : /\ rows = {} \/ rows = Listing(req[t].repo, req[t].type)
                    /\ Return(t, Answer("ok", Zero, rows))
    BY DEF List
  <1>5. Atomic!Respond(t, Answer("ok", Zero, rows))
    BY <1>1, <1>4, Responds DEF Return, List
  <1>6. CASE rows = {}
    BY <1>2, <1>3, <1>5, <1>6 DEF Atomic!ListNothing, Atomic!Answer, Answer, Register
  <1>7. CASE rows = Listing(req[t].repo, req[t].type)
    <2>1. \A u \in Slot : /\ SlotType(u) = RequestTarget(req[t]) <=>
                               u.repo = req[t].repo /\ u.key.type = req[t].type
                          /\ Register[u] # Zero <=> table[u] \notin {Absent, Zero}
                          /\ Register[u] # Zero => Register[u] = table[u]
      BY <1>2 DEF SlotType, Register, Read
    <2>2. rows = {<<u, Register[u]>> : u \in {x \in Slot : /\ SlotType(x) = RequestTarget(req[t])
                                                           /\ Register[x] # Zero}}
      BY <1>7, <2>1 DEF Listing
    <2> QED
      BY <1>2, <1>3, <1>5, <2>2 DEF Atomic!List, Atomic!Respond, Atomic!Answer, Answer, Register
  <1> QED
    BY <1>4, <1>6, <1>7

LEMMA FailIsError ==
  ASSUME TypeInv, NEW t \in Task, Fail(t)
  PROVE  Atomic!ListNothing(t) \/ Atomic!Error(t)
  <1>1. UNCHANGED <<table, req>> /\ UNCHANGED Register /\ Running(t)
    BY RegisterStays DEF Fail
  <1>2. CASE pc[t] = "list"
    <2>1. Atomic!Respond(t, Answer("ok", Zero, {}))
      BY <1>1, <1>2, Responds DEF Fail
    <2> QED
      BY <1>1, <1>2, <2>1, Pending DEF Atomic!ListNothing, Atomic!Answer, Answer, Register
  <1>3. CASE pc[t] # "list"
    <2>1. LostReply(t)
      BY <1>3 DEF Fail, LostReply
    <2> QED
      BY <1>1, <2>1, LostIsError
  <1> QED
    BY <1>2, <1>3

LEMMA CrashStops ==
  ASSUME TypeInv, Crash
  PROVE  Atomic!Stop
  <1>1. UNCHANGED <<req, Register>>
    BY RegisterStays DEF Crash
  <1>2. \A t \in Task : Status[t] = "pending" <=> Running(t)
    BY DEF Status, Running
  <1>3. Status' = [t \in Task |-> IF Status[t] = "pending" THEN "done" ELSE Status[t]]
    BY <1>2 DEF Crash, Status, Running
  <1>4. res' = [t \in Task |-> IF Status[t] = "pending" THEN Answer("err", Zero, {}) ELSE res[t]]
    BY <1>2 DEF Crash
  <1> QED
    BY <1>1, <1>3, <1>4 DEF Atomic!Stop, Atomic!Answer, Answer, Status, Register

\* The statements before the last one of a compare_and_swap are internal.
LEMMA SwapStutters ==
  ASSUME TypeInv, NEW t \in Task, CasLock(t) \/ CasSelect(t) \/ CasWrite(t)
  PROVE  UNCHANGED <<Register, Status, req, res>>
  <1>1. UNCHANGED <<table, req, res>> /\ Running(t)
        /\ \E l : l \notin {"idle", "done"} /\ pc' = [pc EXCEPT ![t] = l]
    BY DEF CasLock, CasSelect, CasWrite, Goto, Running
  <1> QED
    BY <1>1, RegisterStays DEF Status, Running, TypeInv, TypeOK

LEMMA AtomicNext ==
  ASSUME TypeInv, WitnessInv, Asked, StoresApart, [Next]_vars
  PROVE  [Atomic!Next]_(Atomic!vars)
  <1>1. CASE UNCHANGED vars
    BY <1>1, RegisterStays DEF vars, Atomic!vars, Register, Running
  <1>2. CASE Crash
    BY <1>2, CrashStops DEF Atomic!Next
  <1>3. ASSUME NEW t \in Task, Begin(t) \/ Fail(t)
        PROVE  Atomic!Next
    BY <1>3, BeginInvokes, FailIsError DEF Atomic!Next
  <1>4. ASSUME NEW t \in Task, Load(t) \/ Store(t) \/ CasCommit(t) \/ List(t)
        PROVE  Atomic!Next
    BY <1>4, LoadIsLoad, StoreIsStore, CommitIsSwap, ListIsList DEF Atomic!Next
  <1>5. ASSUME NEW t \in Task, CasLock(t) \/ CasSelect(t) \/ CasWrite(t)
        PROVE  UNCHANGED Atomic!vars
    BY <1>5, SwapStutters DEF Atomic!vars, Register, Status
  <1> QED
    BY <1>1, <1>2, <1>3, <1>4, <1>5 DEF Next, Step

\* AtomicRegister for every workload that keeps stores and compare_and_swaps of one slot
\* apart, and any faults: each load, store, compare_and_swap and list is one step of the
\* abstract register, and what failed has happened or has not.
THEOREM RegisterRefined ==
  ASSUME StoresApart
  PROVE  Spec => AtomicRegister
  <1>1. Init => Asked
    BY DEF Init, Asked
  <1>2. TypeInv /\ Asked /\ [Next]_vars => Asked'
    BY AskedNext
  <1>3. TypeInv /\ WitnessInv /\ [Next]_vars => WitnessInv'
    BY LockExclusiveNext, ComparedNext, WitnessNext DEF WitnessInv
  <1>4. TypeInv /\ WitnessInv /\ Asked /\ [Next]_vars => [Atomic!Next]_(Atomic!vars)
    BY StoresApart, AtomicNext
  <1> QED
    BY TypeInit, TypeNext, WitnessInit, AtomicInit, <1>1, <1>2, <1>3, <1>4, PTL
    DEF Spec, AtomicRegister, Atomic!Spec
=============================================================================
