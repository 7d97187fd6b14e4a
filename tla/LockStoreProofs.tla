--------------------------- MODULE LockStoreProofs ---------------------------
(* Theorems about LockStore: types, the order in which a batch takes its   *)
(* resources, what open transactions hold, what a grant is worth, and the  *)
(* absence of deadlock.                                                    *)
EXTENDS LockStore, FiniteSetTheorems, WellFoundedInduction, TLAPS

(* The inductive invariant.                                                *)

LockLabels == {"insert", "owner"}
UnlockLabels == {"delete", "delete_row", "blame"}

\* Where a task is tells its operation, whether it has resources left and whether it has
\* answered; an idle one has nothing.
Control ==
  \A t \in Task :
    /\ pc[t] = "idle" => req[t] = NoRequest /\ inserted[t] = {} /\ deleted[t] = {}
    /\ pc[t] \in LockLabels => req[t] \in LockRequest /\ todo[t] # {}
    /\ pc[t] \in UnlockLabels => req[t] \in UnlockRequest /\ todo[t] # {}
    /\ pc[t] = "commit" => req[t] \in LockRequest \cup UnlockRequest /\ todo[t] = {}
    /\ pc[t] = "status" => req[t] \in StatusRequest
    /\ pc[t] = "query" => req[t] \in QueryRequest
    /\ res[t].kind = "none" <=> pc[t] # "done"

TypeInv == TypeOK /\ Control

\* The locks whose rows t's transaction has written.
Held(t) == InsertedLocks(t) \cup deleted[t]

\* t has its lock l, for itself or for the owner it asks for.
Owned(t, l) == rows[l] # Free /\ rows[l].owner = req[t].owner

\* What t's open transaction has done: inserted where there is no row, one row per lock, or
\* deleted rows that it may delete, and all of that for resources of its request.
Batch(t) ==
  /\ todo[t] \subseteq ToSet(req[t].resources)
  /\ inserted[t] \subseteq ToSet(req[t].resources)
  /\ deleted[t] \subseteq Locks(t)
  /\ req[t].op = "lock" => deleted[t] = {}
  /\ req[t].op = "unlock" => inserted[t] = {}
  /\ \A a, b \in inserted[t] : LockOf(t, a) = LockOf(t, b) => a = b
  /\ \A l \in InsertedLocks(t) : rows[l] = Free
  /\ \A l \in deleted[t] :
       rows[l] # Free /\ (req[t].validate => rows[l].owner = req[t].owner)
  /\ pc[t] = "delete_row" =>
       /\ Current(t) \notin deleted[t] /\ found[t] # Free
       /\ req[t].validate => found[t].owner = req[t].owner
Batches == \A t \in Task : InTxn(t) => Batch(t)

\* No row is in the hands of two open transactions.
Exclusive ==
  \A t, u \in Task : t # u /\ InTxn(t) /\ InTxn(u) => Held(t) \cap Held(u) = {}

\* Every resource a lock batch is done with is locked by it or was its owner's.
Covered ==
  \A t \in Task : InTxn(t) /\ req[t].op = "lock" =>
    \A a \in ToSet(req[t].resources) \ todo[t] :
      \/ LockOf(t, a) \in InsertedLocks(t)
      \/ Owned(t, LockOf(t, a))
      \/ Released(LockOf(t, a), req[t].owner)

\* A granted batch has been told of resources it named.
Told ==
  \A t \in Task : req[t].op = "lock" /\ res[t].kind = "ok" =>
    res[t].items \subseteq ToSet(req[t].resources)

\* Lock l comes before resource a, or is a's.
UpTo(l, a) == l.branch < a.branch \/ (l.branch = a.branch /\ l.file <= a.file)

\* A transaction holds no lock beyond a resource it has still to reach.
Sorted ==
  \A t \in Task : InTxn(t) => \A l \in Held(t), a \in todo[t] : UpTo(l, a)

Active == {t \in Task : pc[t] # "idle"}
FinitelyActive == IsFiniteSet(Active)

-----------------------------------------------------------------------------
(* The resource whose turn it is.                                          *)

LEMMA LeastNumber ==
  ASSUME NEW S, S \subseteq Nat, S # {}
  PROVE  \E n \in S : \A m \in S : n <= m
  <1> DEFINE R == OpToRel(<, Nat)
  <1>1. IsWellFoundedOn(R, Nat)
    BY NatLessThanWellFounded
  <1>2. R = {p \in Nat \X Nat : p[1] < p[2]}
    BY DEF OpToRel
  <1> HIDE DEF R
  <1>3. PICK n \in S : \A m \in S : ~ (<<m, n>> \in R)
    BY <1>1, WFMin
  <1>4. ASSUME NEW m \in S, m < n
        PROVE  FALSE
    <2>1. <<m, n>> \in Nat \X Nat /\ <<m, n>>[1] < <<m, n>>[2]
      BY <1>4
    <2>2. <<m, n>> \in R
      BY <1>2, <2>1
    <2> QED
      BY <1>3, <2>2
  <1> QED
    BY <1>4

LEMMA ResourceFields ==
  ASSUME NEW a \in Resource
  PROVE  /\ a.branch \in Nat /\ a.file \in Nat /\ a.text \in Nat
         /\ a.branch \in Branch /\ a.file \in File /\ a.text \in Text
  BY OrderAssumption DEF Resource

\* Two resources that agree on their fields are one.
LEMMA SameResource ==
  ASSUME NEW a \in Resource, NEW b \in Resource,
         a.branch = b.branch, a.file = b.file, a.text = b.text
  PROVE  a = b
  BY DEF Resource

\* Resources left always have a first one: by branch, then by hash, then by description.
LEMMA FirstResource ==
  ASSUME NEW S \in SUBSET Resource, S # {}
  PROVE  \E a \in S : \A b \in S \ {a} : Before(a, b)
  <1> DEFINE Branches == {a.branch : a \in S}
  <1>1. PICK x \in Branches : \A y \in Branches : x <= y
    <2>1. Branches \subseteq Nat /\ Branches # {}
      BY ResourceFields
    <2> QED
      BY <2>1, LeastNumber
  <1> DEFINE Files == {a.file : a \in {c \in S : c.branch = x}}
  <1>2. PICK y \in Files : \A z \in Files : y <= z
    <2>1. Files \subseteq Nat /\ Files # {}
      BY <1>1, ResourceFields
    <2> QED
      BY <2>1, LeastNumber
  <1> DEFINE Texts == {a.text : a \in {c \in S : c.branch = x /\ c.file = y}}
  <1>3. PICK z \in Texts : \A w \in Texts : z <= w
    <2>1. Texts \subseteq Nat /\ Texts # {}
      BY <1>2, ResourceFields
    <2> QED
      BY <2>1, LeastNumber
  <1>4. PICK a \in S : a.branch = x /\ a.file = y /\ a.text = z
    BY <1>3
  <1>5. ASSUME NEW b \in S \ {a}
        PROVE  Before(a, b)
    <2>1. /\ a \in Resource /\ b \in Resource /\ b # a
          /\ b.branch \in Branches
          /\ b.branch = x => b.file \in Files
          /\ b.branch = x /\ b.file = y => b.text \in Texts
      BY <1>5
    <2>2. /\ x <= b.branch
          /\ b.branch = x => y <= b.file
          /\ b.branch = x /\ b.file = y => z <= b.text
      BY <1>1, <1>2, <1>3, <2>1
    <2>3. /\ a.branch \in Nat /\ a.file \in Nat /\ a.text \in Nat
          /\ b.branch \in Nat /\ b.file \in Nat /\ b.text \in Nat
      BY <2>1, ResourceFields
    <2>4. a.branch # b.branch \/ a.file # b.file \/ a.text # b.text
      BY <2>1, SameResource
    <2> HIDE DEF Branches, Files, Texts
    <2> QED
      BY <1>4, <2>2, <2>3, <2>4 DEF Before
  <1> QED
    BY <1>5

\* A batch with resources left takes the first of them.
LEMMA TurnIsFirst ==
  ASSUME NEW t \in Task, todo[t] \in SUBSET Resource, todo[t] # {}
  PROVE  /\ Turn(t) \in todo[t] /\ Turn(t) \in Resource
         /\ \A b \in todo[t] \ {Turn(t)} : Before(Turn(t), b)
  <1>1. \E a \in todo[t] : \A b \in todo[t] \ {a} : Before(a, b)
    BY FirstResource
  <1> QED
    BY <1>1 DEF Turn

-----------------------------------------------------------------------------
(* Type correctness.                                                       *)

Labels == {"idle", "done", "insert", "owner", "delete", "delete_row", "blame", "commit",
           "status", "query"}
Kind == {"none", "ok", "err", "not_owned", "not_found"}
Item == Resource \cup [lock: Lock, row: Row]

\* What a request is tells its operation, and what it names are resources.
LEMMA RequestShapes ==
  /\ \A r \in LockRequest : r.op = "lock" /\ r.owner \in Owner
  /\ \A r \in UnlockRequest : r.op = "unlock" /\ r.owner \in Owner /\ r.validate \in BOOLEAN
  /\ \A r \in StatusRequest : r.op = "status"
  /\ \A r \in LockRequest \cup UnlockRequest \cup StatusRequest :
       r.repo \in Repository /\ r.resources \in Seq(Resource)
  /\ \A r \in QueryRequest : r.op = "query"
  BY DEF LockRequest, UnlockRequest, StatusRequest, QueryRequest

LEMMA SetOfSequence ==
  ASSUME NEW s \in Seq(Resource)
  PROVE  ToSet(s) \in SUBSET Resource /\ (s = <<>> <=> ToSet(s) = {})
  <1>1. DOMAIN s = 1..Len(s) /\ Len(s) \in Nat /\ \A i \in 1..Len(s) : s[i] \in Resource
    OBVIOUS
  <1>2. s # <<>> => 1 \in DOMAIN s
    BY <1>1
  <1>3. s = <<>> => DOMAIN s = {}
    OBVIOUS
  <1> QED
    BY <1>1, <1>2, <1>3 DEF ToSet

\* The operation of a client's request tells its shape.
LEMMA RequestKinds ==
  ASSUME NEW r \in Requests
  PROVE  /\ r \in Request /\ r # NoRequest
         /\ r.op = "lock" => r \in LockRequest
         /\ r.op = "unlock" => r \in UnlockRequest
         /\ r.op = "status" => r \in StatusRequest
         /\ r.op = "query" => r \in QueryRequest
  <1>1. r \in Request
    BY RequestAssumption
  <1> QED
    BY <1>1, RequestShapes DEF Request, NoRequest

\* A batch locks or unlocks resources of one repository.
LEMMA BatchTypes ==
  ASSUME TypeInv, NEW t \in Task, InTxn(t)
  PROVE  /\ req[t] \in LockRequest \cup UnlockRequest
         /\ req[t].op \in {"lock", "unlock"}
         /\ req[t].owner \in Owner
         /\ ToSet(req[t].resources) \in SUBSET Resource
         /\ \A a \in Resource : LockOf(t, a) \in Lock
         /\ \A a \in Resource : RowOf(t, a) \in Row
  <1>1. req[t] \in LockRequest \cup UnlockRequest
    BY DEF TypeInv, Control, LockLabels, UnlockLabels, InTxn
  <1>2. /\ req[t].op \in {"lock", "unlock"} /\ req[t].owner \in Owner
        /\ req[t].repo \in Repository /\ req[t].resources \in Seq(Resource)
    BY <1>1, RequestShapes
  <1>3. ToSet(req[t].resources) \in SUBSET Resource
    BY <1>2, SetOfSequence
  <1>4. \A a \in Resource : LockOf(t, a) \in Lock
    BY <1>2 DEF LockOf, Lock, Resource
  <1>5. \A a \in Resource : RowOf(t, a) \in Row
    BY <1>2 DEF RowOf, Row, Resource
  <1> QED
    BY <1>1, <1>2, <1>3, <1>4, <1>5

\* The lock a batch has come to is a lock.
LEMMA CurrentTypes ==
  ASSUME TypeInv, NEW t \in Task, pc[t] \in LockLabels \cup UnlockLabels
  PROVE  /\ InTxn(t)
         /\ Turn(t) \in todo[t] /\ Turn(t) \in Resource
         /\ \A b \in todo[t] \ {Turn(t)} : Before(Turn(t), b)
         /\ Current(t) \in Lock
         /\ Visible(t) \in Row \cup {Free}
  <1>1. InTxn(t) /\ todo[t] # {} /\ todo[t] \in SUBSET Resource
    BY DEF TypeInv, TypeOK, Control, LockLabels, UnlockLabels, InTxn
  <1>2. /\ Turn(t) \in todo[t] /\ Turn(t) \in Resource
        /\ \A b \in todo[t] \ {Turn(t)} : Before(Turn(t), b)
    BY <1>1, TurnIsFirst
  <1>3. Current(t) \in Lock
    BY <1>1, <1>2, BatchTypes DEF Current
  <1>4. Visible(t) \in Row \cup {Free}
    BY <1>3 DEF TypeInv, TypeOK, Visible
  <1> QED
    BY <1>1, <1>2, <1>3, <1>4

LEMMA TypeInit == Init => TypeInv
  <1>1. InitRows \in [Lock -> Row \cup {Free}]
    BY RowAssumption DEF Row
  <1> QED
    BY <1>1, FaultAssumption
    DEF Init, TypeInv, TypeOK, Control, Unanswered, Answer, LockLabels, UnlockLabels

-----------------------------------------------------------------------------
(* What a step of a handler does, as a transaction sees it.                *)

\* t inserts a row, and no other transaction has its lock.
Takes(t) ==
  /\ pc[t] = "insert" /\ InsertBlockers(t) = {}
  /\ rows[Current(t)] = Free /\ Current(t) \notin InsertedLocks(t)
  /\ inserted' = [inserted EXCEPT ![t] = @ \cup {Turn(t)}]
  /\ Advance(t)
  /\ UNCHANGED <<rows, req, deleted, found>>

\* t deletes the row it has found, and no other transaction has deleted it.
Drops(t) ==
  /\ pc[t] = "delete_row" /\ DeleteBlockers(t) = {}
  /\ rows[Current(t)] = found[t]
  /\ deleted' = [deleted EXCEPT ![t] = @ \cup {Current(t)}]
  /\ Advance(t)
  /\ UNCHANGED <<rows, req, inserted, found>>

\* t leaves a resource as it is: locked already, or not its to unlock.
Passes(t) ==
  /\ pc[t] \in {"owner", "delete", "delete_row"}
  /\ pc[t] = "owner" => Current(t) \in InsertedLocks(t) \/ Owned(t, Current(t))
  /\ Advance(t)
  /\ UNCHANGED <<rows, req, inserted, deleted, found>>

\* t goes on with the resource it is at.
Looks(t) ==
  \E l \in {"owner", "delete_row", "blame"}, r \in Row \cup {Free} :
    /\ \/ pc[t] = "insert" /\ l = "owner"
       \/ pc[t] \in UnlockLabels /\ l # "owner"
    /\ Goto(t, l)
    /\ l = "delete_row" =>
         /\ r # Free /\ Current(t) \notin deleted[t]
         /\ req[t].validate => r.owner = req[t].owner
    /\ found' = [found EXCEPT ![t] = r]
    /\ UNCHANGED <<rows, req, inserted, deleted>>

\* t returns with the table as it is.
Ends(t) ==
  \E a \in [kind: Kind \ {"none"}, items: SUBSET Item] :
    /\ Running(t)
    /\ pc' = [pc EXCEPT ![t] = "done"] /\ res' = [res EXCEPT ![t] = a]
    /\ a.kind = "ok" => pc[t] \in {"status", "query"}
    /\ a.kind = "ok" /\ pc[t] = "status" => a.items = Data(Locks(t))
    /\ faults' \in Nat
    /\ UNCHANGED <<rows, req, todo, inserted, deleted, found>>

LEMMA AnswerTypes ==
  ASSUME NEW k \in Kind, NEW s \in SUBSET Item
  PROVE  /\ Answer(k, s) \in [kind: Kind, items: SUBSET Item]
         /\ Answer(k, s).kind = k /\ Answer(k, s).items = s
  BY DEF Answer

LEMMA DataTypes ==
  ASSUME rows \in [Lock -> Row \cup {Free}], NEW S \in SUBSET Lock
  PROVE  Data(S) \in SUBSET Item
  BY DEF Data, Item

LEMMA EndsWith ==
  ASSUME TypeInv, NEW t \in Task, Running(t), NEW k \in Kind \ {"none"},
         NEW s \in SUBSET Item, Return(t, Answer(k, s)),
         k = "ok" => pc[t] \in {"status", "query"},
         k = "ok" /\ pc[t] = "status" => s = Data(Locks(t)),
         UNCHANGED <<rows, req, todo, inserted, deleted, found>>
  PROVE  Ends(t)
  <1>1. Answer(k, s) \in [kind: Kind \ {"none"}, items: SUBSET Item]
    BY DEF Answer
  <1>2. faults' \in Nat
    BY DEF Return, TypeInv, TypeOK
  <1>3. Answer(k, s).kind = k /\ Answer(k, s).items = s
    BY DEF Answer
  <1> QED
    BY <1>1, <1>2, <1>3 DEF Return, Ends

LEMMA FailEnds ==
  ASSUME TypeInv, NEW t \in Task, Fail(t)
  PROVE  Ends(t)
  <1>1. Answer("err", {}) \in [kind: Kind \ {"none"}, items: SUBSET Item]
    BY DEF Answer, Kind
  <1>2. faults' \in Nat
    BY DEF Fail, TypeInv, TypeOK
  <1>3. Answer("err", {}).kind = "err"
    BY DEF Answer
  <1> QED
    BY <1>1, <1>2, <1>3 DEF Fail, Ends

\* A DELETE that removes nothing looks for the owner, or passes.
LEMMA NothingDeleted ==
  ASSUME TypeInv, NEW t \in Task, pc[t] \in {"delete", "delete_row"}, NoRowDeleted(t),
         UNCHANGED <<rows, req, inserted, deleted, found>>
  PROVE  Passes(t) \/ Looks(t)
  <1>1. CASE req[t].validate
    <2>1. found[t] \in Row \cup {Free} /\ found' = [found EXCEPT ![t] = found[t]]
      BY DEF TypeInv, TypeOK
    <2> QED
      BY <1>1, <2>1 DEF NoRowDeleted, Looks, UnlockLabels
  <1>2. CASE ~ req[t].validate
    BY <1>2 DEF NoRowDeleted, Passes
  <1> QED
    BY <1>1, <1>2

\* Every step of a handler is one of these, or the COMMIT of a batch.
LEMMA StepKinds ==
  ASSUME TypeInv, NEW t \in Task, Step(t)
  PROVE  Takes(t) \/ Drops(t) \/ Passes(t) \/ Looks(t) \/ Ends(t) \/ Commit(t)
  <1>1. CASE Insert(t)
    <2>1. found[t] \in Row \cup {Free} /\ found' = [found EXCEPT ![t] = found[t]]
      BY <1>1 DEF Insert, TypeInv, TypeOK
    <2>2. CASE rows[Current(t)] = Free /\ Current(t) \notin InsertedLocks(t)
      BY <1>1, <2>2 DEF Insert, Takes
    <2>3. CASE ~ (rows[Current(t)] = Free /\ Current(t) \notin InsertedLocks(t))
      <3>1. /\ pc[t] = "insert" /\ Goto(t, "owner")
            /\ UNCHANGED <<rows, req, inserted, deleted>>
        BY <1>1, <2>3 DEF Insert
      <3> QED
        BY <2>1, <3>1 DEF Looks
    <2> QED
      BY <2>2, <2>3
  <1>2. CASE SelectOwner(t)
    <2>1. Running(t) /\ {} \in SUBSET Item
      BY <1>2 DEF SelectOwner, Running
    <2>2. CASE Current(t) \in InsertedLocks(t) \/ Owned(t, Current(t))
      BY <1>2, <2>2 DEF SelectOwner, Passes, Owned
    <2>3. CASE ~ (Current(t) \in InsertedLocks(t) \/ Owned(t, Current(t)))
      <3>1. Return(t, Answer("not_owned", {})) \/ Return(t, Answer("err", {}))
        BY <1>2, <2>3 DEF SelectOwner, Owned
      <3> QED
        BY <1>2, <2>1, <2>3, <3>1, EndsWith DEF SelectOwner, Owned, Kind
    <2> QED
      BY <2>2, <2>3
  <1>3. CASE DeleteScan(t)
    <2>1. CASE Visible(t) # Free /\ (req[t].validate => Visible(t).owner = req[t].owner)
      <3> DEFINE r == Visible(t)
      <3>1. r \in Row \cup {Free}
        BY <1>3, CurrentTypes DEF DeleteScan, UnlockLabels
      <3>2. Current(t) \notin deleted[t]
        BY <2>1 DEF Visible
      <3>3. found' = [found EXCEPT ![t] = r] /\ Goto(t, "delete_row")
            /\ UNCHANGED <<rows, req, inserted, deleted>> /\ pc[t] \in UnlockLabels
        BY <1>3, <2>1 DEF DeleteScan, UnlockLabels
      <3>4. r # Free /\ (req[t].validate => r.owner = req[t].owner)
        BY <2>1
      <3> HIDE DEF r
      <3> QED
        BY <3>1, <3>2, <3>3, <3>4 DEF Looks
    <2>2. CASE ~ (Visible(t) # Free /\ (req[t].validate => Visible(t).owner = req[t].owner))
      BY <1>3, <2>2, NothingDeleted DEF DeleteScan
    <2> QED
      BY <2>1, <2>2
  <1>4. CASE DeleteRow(t)
    <2>1. CASE rows[Current(t)] = found[t]
      BY <1>4, <2>1 DEF DeleteRow, Drops
    <2>2. CASE rows[Current(t)] # found[t]
      BY <1>4, <2>2, NothingDeleted DEF DeleteRow
    <2> QED
      BY <2>1, <2>2
  <1>5. CASE Blame(t)
    <2> DEFINE k == IF Visible(t) = Free THEN "not_found" ELSE "not_owned"
    <2>1. k \in Kind \ {"none"} /\ k # "ok" /\ {} \in SUBSET Item
      BY DEF Kind
    <2>2. Return(t, Answer(k, {})) /\ Running(t)
          /\ UNCHANGED <<rows, req, todo, inserted, deleted, found>>
      BY <1>5 DEF Blame, Running
    <2> HIDE DEF k
    <2> QED
      BY <2>1, <2>2, EndsWith
  <1>6. CASE CheckStatus(t)
    <2>1. /\ Running(t) /\ req[t] \in StatusRequest
          /\ rows \in [Lock -> Row \cup {Free}]
      BY <1>6 DEF CheckStatus, Running, TypeInv, TypeOK, Control
    <2>2. Locks(t) \in SUBSET Lock
      <3>1. ToSet(req[t].resources) \in SUBSET Resource /\ req[t].repo \in Repository
        BY <2>1, RequestShapes, SetOfSequence
      <3> QED
        BY <3>1 DEF Locks, LockOf, Lock, Resource
    <2> DEFINE s == Data(Locks(t))
    <2>3. s \in SUBSET Item
      BY <2>1, <2>2, DataTypes
    <2>4. Return(t, Answer("ok", s)) /\ pc[t] = "status"
          /\ UNCHANGED <<rows, req, todo, inserted, deleted, found>>
      BY <1>6 DEF CheckStatus, Locks
    <2>5. s = Data(Locks(t))
      OBVIOUS
    <2> HIDE DEF s
    <2> QED
      BY <2>1, <2>3, <2>4, <2>5, EndsWith DEF Kind
  <1>7. CASE QueryLocks(t)
    <2> DEFINE S == {l \in Lock : /\ rows[l] # Free
                                  /\ \A c \in req[t].columns : Column(l, c) = req[t][c]}
               s == Data(S)
    <2>1. rows \in [Lock -> Row \cup {Free}] /\ S \in SUBSET Lock
      BY DEF TypeInv, TypeOK
    <2>2. Return(t, Answer("ok", s)) /\ pc[t] = "query" /\ Running(t)
          /\ UNCHANGED <<rows, req, todo, inserted, deleted, found>>
      BY <1>7 DEF QueryLocks, Running
    <2> HIDE DEF S
    <2>3. s \in SUBSET Item
      BY <2>1, DataTypes
    <2> HIDE DEF s
    <2> QED
      BY <2>2, <2>3, EndsWith DEF Kind
  <1> QED
    BY <1>1, <1>2, <1>3, <1>4, <1>5, <1>6, <1>7 DEF Step

-----------------------------------------------------------------------------
(* Types are kept.                                                         *)

\* A transaction that leaves a resource has others left, or is ready to commit.
LEMMA AdvanceTypes ==
  ASSUME TypeInv, NEW t \in Task, pc[t] \in LockLabels \cup UnlockLabels, Advance(t)
  PROVE  /\ todo' \in [Task -> SUBSET Resource]
         /\ todo'[t] = todo[t] \ {Turn(t)}
         /\ \/ pc'[t] = "commit" /\ todo'[t] = {}
            \/ pc'[t] = Label(req[t].op) /\ todo'[t] # {}
         /\ Label(req[t].op) = IF req[t] \in LockRequest THEN "insert" ELSE "delete"
  <1>1. /\ Turn(t) \in todo[t] /\ InTxn(t)
        /\ pc \in [Task -> Labels] /\ todo \in [Task -> SUBSET Resource]
    BY CurrentTypes DEF TypeInv, TypeOK, Labels
  <1>2. /\ todo'[t] = todo[t] \ {Turn(t)} /\ todo' \in [Task -> SUBSET Resource]
        /\ pc'[t] = IF todo[t] = {Turn(t)} THEN "commit" ELSE Label(req[t].op)
    BY <1>1 DEF Advance
  <1>3. todo[t] = {Turn(t)} <=> todo'[t] = {}
    BY <1>1, <1>2
  <1>4. Label(req[t].op) = IF req[t] \in LockRequest THEN "insert" ELSE "delete"
    BY <1>1, BatchTypes, RequestShapes DEF Label
  <1> QED
    BY <1>2, <1>3, <1>4

\* t goes on to the next resource with what it has inserted and deleted.
LEMMA TypeAdvance ==
  ASSUME TypeInv, NEW t \in Task, pc[t] \in LockLabels \cup UnlockLabels, Advance(t),
         NEW i \in SUBSET Resource, inserted' = [inserted EXCEPT ![t] = i],
         NEW d \in SUBSET Lock, deleted' = [deleted EXCEPT ![t] = d],
         UNCHANGED <<rows, req, found>>
  PROVE  TypeInv'
  <1>1. /\ todo' \in [Task -> SUBSET Resource]
        /\ \/ pc'[t] = "commit" /\ todo'[t] = {}
           \/ pc'[t] = Label(req[t].op) /\ todo'[t] # {}
        /\ Label(req[t].op) = IF req[t] \in LockRequest THEN "insert" ELSE "delete"
    BY AdvanceTypes
  <1>2. req[t] \in LockRequest \cup UnlockRequest
    BY DEF TypeInv, Control, LockLabels, UnlockLabels
  <1>3. \A u \in Task \ {t} : pc'[u] = pc[u] /\ todo'[u] = todo[u]
    BY DEF Advance, TypeInv, TypeOK
  <1>4. pc' \in [Task -> Labels] /\ pc[t] # "done"
    BY <1>1 DEF Advance, TypeInv, TypeOK, Labels, LockLabels, UnlockLabels
  <1>5. TypeOK'
    BY <1>1, <1>4 DEF Advance, TypeInv, TypeOK, Labels
  <1>6. /\ inserted'[t] = i /\ deleted'[t] = d /\ res' = res /\ req' = req
        /\ \A u \in Task \ {t} : inserted'[u] = inserted[u] /\ deleted'[u] = deleted[u]
    BY DEF Advance, TypeInv, TypeOK
  <1>7. Control'
    <2> SUFFICES ASSUME NEW u \in Task
                 PROVE  /\ pc'[u] = "idle" => req'[u] = NoRequest /\ inserted'[u] = {} /\ deleted'[u] = {}
                        /\ pc'[u] \in LockLabels => req'[u] \in LockRequest /\ todo'[u] # {}
                        /\ pc'[u] \in UnlockLabels => req'[u] \in UnlockRequest /\ todo'[u] # {}
                        /\ pc'[u] = "commit" => req'[u] \in LockRequest \cup UnlockRequest /\ todo'[u] = {}
                        /\ pc'[u] = "status" => req'[u] \in StatusRequest
                        /\ pc'[u] = "query" => req'[u] \in QueryRequest
                        /\ res'[u].kind = "none" <=> pc'[u] # "done"
      BY DEF Control
    <2>1. CASE u = t
      BY <1>1, <1>2, <1>4, <1>6, <2>1 DEF TypeInv, Control, LockLabels, UnlockLabels
    <2>2. CASE u # t
      BY <1>3, <1>6, <2>2 DEF TypeInv, Control
    <2> QED
      BY <2>1, <2>2
  <1> QED
    BY <1>5, <1>7 DEF TypeInv

LEMMA TypeTakes ==
  ASSUME TypeInv, NEW t \in Task, Takes(t)
  PROVE  TypeInv'
  <1>1. pc[t] \in LockLabels
    BY DEF Takes, LockLabels
  <1> DEFINE i == inserted[t] \cup {Turn(t)}
             d == deleted[t]
  <1>2. i \in SUBSET Resource /\ d \in SUBSET Lock
    BY <1>1, CurrentTypes DEF TypeInv, TypeOK
  <1>3. /\ inserted' = [inserted EXCEPT ![t] = i] /\ deleted' = [deleted EXCEPT ![t] = d]
        /\ Advance(t) /\ UNCHANGED <<rows, req, found>>
    BY DEF Takes, TypeInv, TypeOK
  <1> HIDE DEF i, d
  <1> QED
    BY <1>1, <1>2, <1>3, TypeAdvance

LEMMA TypeDrops ==
  ASSUME TypeInv, NEW t \in Task, Drops(t)
  PROVE  TypeInv'
  <1>1. pc[t] \in UnlockLabels
    BY DEF Drops, UnlockLabels
  <1> DEFINE i == inserted[t]
             d == deleted[t] \cup {Current(t)}
  <1>2. i \in SUBSET Resource /\ d \in SUBSET Lock
    BY <1>1, CurrentTypes DEF TypeInv, TypeOK
  <1>3. /\ inserted' = [inserted EXCEPT ![t] = i] /\ deleted' = [deleted EXCEPT ![t] = d]
        /\ Advance(t) /\ UNCHANGED <<rows, req, found>>
    BY DEF Drops, TypeInv, TypeOK
  <1> HIDE DEF i, d
  <1> QED
    BY <1>1, <1>2, <1>3, TypeAdvance

LEMMA TypePasses ==
  ASSUME TypeInv, NEW t \in Task, Passes(t)
  PROVE  TypeInv'
  <1>1. pc[t] \in LockLabels \cup UnlockLabels
    BY DEF Passes, LockLabels, UnlockLabels
  <1> DEFINE i == inserted[t]
             d == deleted[t]
  <1>2. i \in SUBSET Resource /\ d \in SUBSET Lock
    BY DEF TypeInv, TypeOK
  <1>3. /\ inserted' = [inserted EXCEPT ![t] = i] /\ deleted' = [deleted EXCEPT ![t] = d]
        /\ Advance(t) /\ UNCHANGED <<rows, req, found>>
    BY DEF Passes, TypeInv, TypeOK
  <1> HIDE DEF i, d
  <1> QED
    BY <1>1, <1>2, <1>3, TypeAdvance

LEMMA TypeLooks ==
  ASSUME TypeInv, NEW t \in Task, Looks(t)
  PROVE  TypeInv'
  <1>1. PICK l \in {"owner", "delete_row", "blame"}, r \in Row \cup {Free} :
          /\ \/ pc[t] = "insert" /\ l = "owner"
             \/ pc[t] \in UnlockLabels /\ l # "owner"
          /\ Goto(t, l)
          /\ found' = [found EXCEPT ![t] = r]
          /\ UNCHANGED <<rows, req, inserted, deleted>>
    BY DEF Looks
  <1>2. TypeOK'
    BY <1>1 DEF Goto, TypeInv, TypeOK
  <1>3. Control'
    BY <1>1 DEF Goto, TypeInv, TypeOK, Control, LockLabels, UnlockLabels
  <1> QED
    BY <1>2, <1>3 DEF TypeInv

\* A task returns.
LEMMA TypeReturn ==
  ASSUME TypeInv, NEW t \in Task, NEW a \in [kind: Kind \ {"none"}, items: SUBSET Item],
         pc' = [pc EXCEPT ![t] = "done"], res' = [res EXCEPT ![t] = a],
         rows' \in [Lock -> Row \cup {Free}], faults' \in Nat,
         UNCHANGED <<req, todo, inserted, deleted, found>>
  PROVE  TypeInv'
  <1>1. TypeOK'
    BY DEF TypeInv, TypeOK, Kind, Item
  <1>2. Control'
    BY DEF TypeInv, TypeOK, Control, LockLabels, UnlockLabels
  <1> QED
    BY <1>1, <1>2 DEF TypeInv

LEMMA TypeEnds ==
  ASSUME TypeInv, NEW t \in Task, Ends(t)
  PROVE  TypeInv'
  <1>1. rows \in [Lock -> Row \cup {Free}]
    BY DEF TypeInv, TypeOK
  <1>2. PICK a \in [kind: Kind \ {"none"}, items: SUBSET Item] :
          /\ pc' = [pc EXCEPT ![t] = "done"] /\ res' = [res EXCEPT ![t] = a]
          /\ faults' \in Nat
          /\ UNCHANGED <<rows, req, todo, inserted, deleted, found>>
    BY DEF Ends
  <1> QED
    BY <1>1, <1>2, TypeReturn

\* A task starts with a request of a client.
LEMMA TypeBegin ==
  ASSUME TypeInv, NEW t \in Task, Begin(t)
  PROVE  TypeInv'
  <1>1. PICK r \in Requests :
          /\ req' = [req EXCEPT ![t] = r]
          /\ \/ /\ r.op \in {"lock", "unlock"}
                /\ todo' = [todo EXCEPT ![t] = ToSet(r.resources)]
                /\ pc' = [pc EXCEPT ![t] = IF r.resources = <<>> THEN "commit" ELSE Label(r.op)]
                /\ UNCHANGED <<res, faults>>
             \/ /\ r.op = "query" \/ (r.op = "status" /\ r.resources # <<>>)
                /\ Goto(t, r.op)
             \/ /\ r.op = "status" /\ r.resources = <<>>
                /\ Return(t, Answer("ok", {})) /\ UNCHANGED todo
    BY DEF Begin
  <1>2. /\ r \in Request
        /\ r.op = "lock" => r \in LockRequest
        /\ r.op = "unlock" => r \in UnlockRequest
        /\ r.op = "status" => r \in StatusRequest
        /\ r.op = "query" => r \in QueryRequest
    BY RequestKinds
  <1>3. pc[t] = "idle" /\ UNCHANGED <<rows, inserted, deleted, found>>
    BY DEF Begin
  <1>4. CASE /\ r.op \in {"lock", "unlock"}
             /\ todo' = [todo EXCEPT ![t] = ToSet(r.resources)]
             /\ pc' = [pc EXCEPT ![t] = IF r.resources = <<>> THEN "commit" ELSE Label(r.op)]
             /\ UNCHANGED <<res, faults>>
    <2>1. /\ r \in LockRequest \cup UnlockRequest /\ r.resources \in Seq(Resource)
      BY <1>2, <1>4, RequestShapes
    <2>2. ToSet(r.resources) \in SUBSET Resource /\ (r.resources = <<>> <=> ToSet(r.resources) = {})
      BY <2>1, SetOfSequence
    <2> DEFINE s == ToSet(r.resources)
    <2>3. PICK l \in {"commit", "insert", "delete"} :
            /\ pc' = [pc EXCEPT ![t] = l]
            /\ l = "commit" <=> s = {}
            /\ l = "insert" => r \in LockRequest
            /\ l = "delete" => r \in UnlockRequest
      BY <1>2, <1>4, <2>2 DEF Label
    <2> HIDE DEF s
    <2>4. todo' = [todo EXCEPT ![t] = s] /\ s \in SUBSET Resource
      BY <1>4, <2>2 DEF s
    <2>5. TypeOK'
      BY <1>1, <1>2, <1>3, <1>4, <2>3, <2>4 DEF TypeInv, TypeOK
    <2>6. Control'
      BY <1>1, <1>3, <1>4, <2>1, <2>3, <2>4
      DEF TypeInv, TypeOK, Control, LockLabels, UnlockLabels
    <2> QED
      BY <2>5, <2>6 DEF TypeInv
  <1>5. CASE /\ r.op = "query" \/ (r.op = "status" /\ r.resources # <<>>)
             /\ Goto(t, r.op)
    <2>1. PICK l \in {"query", "status"} :
            /\ pc' = [pc EXCEPT ![t] = l] /\ UNCHANGED <<res, todo, faults>>
            /\ l = "query" => r \in QueryRequest
            /\ l = "status" => r \in StatusRequest
      BY <1>2, <1>5 DEF Goto
    <2>2. TypeOK'
      BY <1>1, <1>2, <1>3, <2>1 DEF TypeInv, TypeOK
    <2>3. Control'
      BY <1>1, <1>3, <2>1 DEF TypeInv, TypeOK, Control, LockLabels, UnlockLabels
    <2> QED
      BY <2>2, <2>3 DEF TypeInv
  <1>6. CASE /\ r.op = "status" /\ r.resources = <<>>
             /\ Return(t, Answer("ok", {})) /\ UNCHANGED todo
    <2> DEFINE a == Answer("ok", {})
    <2>1. a \in [kind: Kind, items: SUBSET Item] /\ a.kind = "ok"
      BY AnswerTypes DEF Kind
    <2>2. /\ pc' = [pc EXCEPT ![t] = "done"] /\ res' = [res EXCEPT ![t] = a]
          /\ UNCHANGED <<todo, faults>>
      BY <1>6 DEF Return
    <2> HIDE DEF a
    <2>3. TypeOK'
      BY <1>1, <1>2, <1>3, <2>1, <2>2 DEF TypeInv, TypeOK, Kind, Item
    <2>4. Control'
      BY <1>1, <1>3, <2>1, <2>2 DEF TypeInv, TypeOK, Control, LockLabels, UnlockLabels
    <2> QED
      BY <2>3, <2>4 DEF TypeInv
  <1> QED
    BY <1>1, <1>4, <1>5, <1>6

\* COMMIT writes the rows the transaction has inserted, removes those it has deleted and
\* leaves the others.
LEMMA AppliedRows ==
  ASSUME TypeInv, NEW t \in Task, InTxn(t)
  PROVE  /\ Applied(t) \in [Lock -> Row \cup {Free}]
         /\ \A l \in deleted[t] : Applied(t)[l] = Free
         /\ \A l \in InsertedLocks(t) \ deleted[t] :
              \E a \in inserted[t] : LockOf(t, a) = l /\ Applied(t)[l] = RowOf(t, a)
         /\ \A l \in Lock \ Held(t) : Applied(t)[l] = rows[l]
  <1> DEFINE Written(l) == RowOf(t, CHOOSE a \in inserted[t] : LockOf(t, a) = l)
  <1>1. /\ rows \in [Lock -> Row \cup {Free}] /\ deleted[t] \in SUBSET Lock
        /\ inserted[t] \in SUBSET Resource
    BY DEF TypeInv, TypeOK
  <1>2. InsertedLocks(t) \in SUBSET Lock
    BY <1>1, BatchTypes DEF InsertedLocks
  <1>3. \A l \in InsertedLocks(t) :
          \E a \in inserted[t] : LockOf(t, a) = l /\ Written(l) = RowOf(t, a)
    BY DEF InsertedLocks
  <1>4. \A l \in InsertedLocks(t) : Written(l) \in Row
    BY <1>1, <1>3, BatchTypes
  <1> HIDE DEF Written
  <1>5. Applied(t) = [l \in Lock |-> IF l \in deleted[t] THEN Free
                                     ELSE IF l \in InsertedLocks(t) THEN Written(l) ELSE rows[l]]
    BY DEF Applied, Written
  <1>6. Applied(t) \in [Lock -> Row \cup {Free}]
    BY <1>1, <1>4, <1>5
  <1>7. \A l \in deleted[t] : Applied(t)[l] = Free
    BY <1>1, <1>5
  <1>8. \A l \in InsertedLocks(t) \ deleted[t] : Applied(t)[l] = Written(l)
    BY <1>2, <1>5
  <1>9. \A l \in Lock \ Held(t) : Applied(t)[l] = rows[l]
    BY <1>5 DEF Held
  <1> QED
    BY <1>3, <1>6, <1>7, <1>8, <1>9

\* A COMMIT that is acknowledged, or whose reply is lost.
LEMMA CommitAnswers ==
  ASSUME TypeInv, NEW t \in Task, Commit(t)
  PROVE  \E a \in [kind: {"ok", "err"}, items: SUBSET Resource] :
           /\ pc' = [pc EXCEPT ![t] = "done"] /\ res' = [res EXCEPT ![t] = a]
           /\ rows' = Applied(t) /\ faults' \in Nat
           /\ a.kind = "ok" /\ req[t].op = "lock" => a.items = inserted[t]
           /\ UNCHANGED <<req, todo, inserted, deleted, found>>
  <1> DEFINE s == IF req[t].op = "lock" THEN inserted[t] ELSE ToSet(req[t].resources)
  <1>1. InTxn(t) /\ inserted[t] \in SUBSET Resource /\ faults \in Nat
    BY DEF Commit, InTxn, TypeInv, TypeOK
  <1>2. s \in SUBSET Resource /\ (req[t].op = "lock" => s = inserted[t])
    BY <1>1, BatchTypes
  <1>3. Return(t, Answer("ok", s)) \/ LostReply(t)
    BY DEF Commit
  <1>4. rows' = Applied(t) /\ UNCHANGED <<req, todo, inserted, deleted, found>>
    BY DEF Commit
  <1> HIDE DEF s
  <1>5. CASE Return(t, Answer("ok", s))
    <2>1. /\ Answer("ok", s) \in [kind: {"ok", "err"}, items: SUBSET Resource]
          /\ Answer("ok", s).items = s
      BY <1>2 DEF Answer
    <2> QED
      BY <1>1, <1>2, <1>4, <1>5, <2>1 DEF Return
  <1>6. CASE LostReply(t)
    <2>1. /\ Answer("err", {}) \in [kind: {"ok", "err"}, items: SUBSET Resource]
          /\ Answer("err", {}).kind = "err"
      BY DEF Answer
    <2>2. /\ pc' = [pc EXCEPT ![t] = "done"] /\ res' = [res EXCEPT ![t] = Answer("err", {})]
          /\ faults' \in Nat
      BY <1>1, <1>6 DEF LostReply
    <2> QED
      BY <1>4, <2>1, <2>2
  <1> QED
    BY <1>3, <1>5, <1>6

LEMMA TypeCommit ==
  ASSUME TypeInv, NEW t \in Task, Commit(t)
  PROVE  TypeInv'
  <1>1. PICK a \in [kind: {"ok", "err"}, items: SUBSET Resource] :
          /\ pc' = [pc EXCEPT ![t] = "done"] /\ res' = [res EXCEPT ![t] = a]
          /\ rows' = Applied(t) /\ faults' \in Nat
          /\ UNCHANGED <<req, todo, inserted, deleted, found>>
    BY CommitAnswers
  <1>2. rows' \in [Lock -> Row \cup {Free}]
    BY <1>1, AppliedRows DEF Commit, InTxn
  <1>3. a \in [kind: Kind \ {"none"}, items: SUBSET Item]
    BY DEF Kind, Item
  <1> QED
    BY <1>1, <1>2, <1>3, TypeReturn

LEMMA TypeCrash ==
  ASSUME TypeInv, Crash
  PROVE  TypeInv'
  <1>1. /\ Answer("err", {}) \in [kind: Kind, items: SUBSET Item]
        /\ Answer("err", {}).kind = "err"
    BY AnswerTypes DEF Kind
  <1>2. TypeOK'
    <2>1. pc' \in [Task -> Labels]
      BY DEF Crash, TypeInv, TypeOK, Labels
    <2>2. res' \in [Task -> [kind: Kind, items: SUBSET Item]]
      BY <1>1 DEF Crash, TypeInv, TypeOK, Kind, Item
    <2> QED
      BY <2>1, <2>2 DEF Crash, TypeInv, TypeOK, Labels, Kind, Item
  <1>3. \A u \in Task : /\ pc'[u] = IF Running(u) THEN "done" ELSE pc[u]
                        /\ res'[u] = IF Running(u) THEN Answer("err", {}) ELSE res[u]
    BY DEF Crash
  <1>4. UNCHANGED <<req, todo, inserted, deleted>>
    BY DEF Crash
  <1>5. Control'
    BY <1>1, <1>3, <1>4 DEF TypeInv, Control, Running, LockLabels, UnlockLabels
  <1> QED
    BY <1>2, <1>5 DEF TypeInv

LEMMA TypeNext == TypeInv /\ [Next]_vars => TypeInv'
  <1> SUFFICES ASSUME TypeInv, [Next]_vars
               PROVE  TypeInv'
    OBVIOUS
  <1>1. CASE Crash
    BY <1>1, TypeCrash
  <1>2. ASSUME NEW t \in Task, Begin(t)
        PROVE  TypeInv'
    BY <1>2, TypeBegin
  <1>3. ASSUME NEW t \in Task, Step(t)
        PROVE  TypeInv'
    BY <1>3, StepKinds, TypeTakes, TypeDrops, TypePasses, TypeLooks, TypeEnds, TypeCommit
  <1>4. ASSUME NEW t \in Task, Fail(t)
        PROVE  TypeInv'
    BY <1>4, FailEnds, TypeEnds
  <1>5. CASE UNCHANGED vars
    BY <1>5 DEF vars, TypeInv, TypeOK, Control
  <1> QED
    BY <1>1, <1>2, <1>3, <1>4, <1>5 DEF Next

\* Every variable of the lock store keeps its type: a batch takes the resources of its
\* request and no others, one after the other, and deletes only rows of locks it names.
THEOREM LocksTyped == Spec => []TypeOK
  <1>1. Spec => []TypeInv
    BY TypeInit, TypeNext, PTL DEF Spec
  <1>2. TypeInv => TypeOK
    BY DEF TypeInv
  <1> QED
    BY <1>1, <1>2, PTL

-----------------------------------------------------------------------------
(* What open transactions hold.                                            *)

TxnInv == Batches /\ Exclusive /\ Sorted

\* u is where it was, with what it had.
Still(u) ==
  /\ pc'[u] = pc[u] /\ req'[u] = req[u] /\ res'[u] = res[u] /\ todo'[u] = todo[u]
  /\ inserted'[u] = inserted[u] /\ deleted'[u] = deleted[u] /\ found'[u] = found[u]
Alone(t) == \A u \in Task \ {t} : Still(u)

LEMMA StepAlone ==
  ASSUME TypeInv, NEW t \in Task,
         \/ Begin(t) \/ Takes(t) \/ Drops(t) \/ Passes(t) \/ Looks(t) \/ Ends(t) \/ Commit(t)
  PROVE  Alone(t)
  <1>1. CASE Begin(t)
    BY <1>1 DEF Begin, Goto, Return, TypeInv, TypeOK, Alone, Still
  <1>2. CASE Takes(t)
    BY <1>2 DEF Takes, Advance, TypeInv, TypeOK, Alone, Still
  <1>3. CASE Drops(t)
    BY <1>3 DEF Drops, Advance, TypeInv, TypeOK, Alone, Still
  <1>4. CASE Passes(t)
    BY <1>4 DEF Passes, Advance, TypeInv, TypeOK, Alone, Still
  <1>5. CASE Looks(t)
    BY <1>5 DEF Looks, Goto, TypeInv, TypeOK, Alone, Still
  <1>6. CASE Ends(t)
    BY <1>6 DEF Ends, TypeInv, TypeOK, Alone, Still
  <1>7. CASE Commit(t)
    BY <1>7 DEF Commit, Return, LostReply, TypeInv, TypeOK, Alone, Still
  <1> QED
    BY <1>1, <1>2, <1>3, <1>4, <1>5, <1>6, <1>7

\* What a task that is still holds and is to take stays as it is.
LEMMA StillHolds ==
  ASSUME NEW u \in Task, Still(u)
  PROVE  /\ InTxn(u)' <=> InTxn(u)
         /\ InsertedLocks(u)' = InsertedLocks(u)
         /\ Held(u)' = Held(u)
         /\ Locks(u)' = Locks(u)
         /\ Current(u)' = Current(u)
         /\ \A a : LockOf(u, a)' = LockOf(u, a)
  BY DEF Still, InTxn, InsertedLocks, Held, Locks, Current, Turn, LockOf

\* A transaction that is still, and whose rows are, has done what it had done.
LEMMA BatchStill ==
  ASSUME NEW u \in Task, Still(u), InTxn(u), Batch(u), \A l \in Held(u) : rows'[l] = rows[l]
  PROVE  Batch(u)'
  <1>1. /\ InsertedLocks(u)' = InsertedLocks(u) /\ Locks(u)' = Locks(u)
        /\ Current(u)' = Current(u)
        /\ \A a : LockOf(u, a)' = LockOf(u, a)
    BY StillHolds
  <1> QED
    BY <1>1 DEF Batch, Still, Held

\* The locks of the resources a transaction has inserted.
LEMMA InsertedIsHeld ==
  ASSUME NEW t, NEW a \in inserted[t]
  PROVE  LockOf(t, a) \in InsertedLocks(t) /\ LockOf(t, a) \in Held(t)
  BY DEF InsertedLocks, Held

\* What t holds after an INSERT, a DELETE, or a resource it leaves as it is.
LEMMA TakesHolds ==
  ASSUME TypeInv, Batches, NEW t \in Task, Takes(t)
  PROVE  /\ InTxn(t) /\ Batch(t) /\ req[t].op = "lock"
         /\ req' = req /\ rows' = rows /\ deleted' = deleted
         /\ todo'[t] = todo[t] \ {Turn(t)}
         /\ inserted'[t] = inserted[t] \cup {Turn(t)}
         /\ InsertedLocks(t)' = InsertedLocks(t) \cup {Current(t)}
         /\ Held(t)' = Held(t) \cup {Current(t)}
         /\ Locks(t)' = Locks(t)
         /\ pc'[t] # "delete_row"
         /\ \A a : LockOf(t, a)' = LockOf(t, a)
  <1>1. pc[t] \in LockLabels /\ InTxn(t) /\ req' = req
    BY DEF Takes, LockLabels, InTxn
  <1>2. Batch(t) /\ req[t].op = "lock"
    BY <1>1, RequestShapes DEF Batches, TypeInv, Control
  <1>3. /\ rows' = rows /\ deleted' = deleted
        /\ inserted'[t] = inserted[t] \cup {Turn(t)}
    BY DEF Takes, TypeInv, TypeOK
  <1>4. todo'[t] = todo[t] \ {Turn(t)} /\ pc'[t] # "delete_row"
    BY <1>1, AdvanceTypes DEF Takes
  <1>5. \A a : LockOf(t, a)' = LockOf(t, a)
    BY <1>1 DEF LockOf
  <1>6. InsertedLocks(t)' = InsertedLocks(t) \cup {Current(t)}
    BY <1>1, <1>3 DEF InsertedLocks, Current, LockOf
  <1>7. Held(t)' = Held(t) \cup {Current(t)}
    BY <1>3, <1>6 DEF Held
  <1>8. Locks(t)' = Locks(t)
    BY <1>1 DEF Locks, LockOf
  <1> QED
    BY <1>1, <1>2, <1>3, <1>4, <1>5, <1>6, <1>7, <1>8

LEMMA DropsHolds ==
  ASSUME TypeInv, Batches, NEW t \in Task, Drops(t)
  PROVE  /\ InTxn(t) /\ Batch(t) /\ req[t].op = "unlock"
         /\ req' = req /\ rows' = rows /\ inserted' = inserted
         /\ todo'[t] = todo[t] \ {Turn(t)}
         /\ deleted'[t] = deleted[t] \cup {Current(t)}
         /\ InsertedLocks(t)' = InsertedLocks(t)
         /\ Held(t)' = Held(t) \cup {Current(t)}
         /\ Locks(t)' = Locks(t)
         /\ pc'[t] # "delete_row"
         /\ \A a : LockOf(t, a)' = LockOf(t, a)
  <1>1. pc[t] \in UnlockLabels /\ InTxn(t) /\ req' = req
    BY DEF Drops, UnlockLabels, InTxn
  <1>2. Batch(t) /\ req[t].op = "unlock"
    BY <1>1, RequestShapes DEF Batches, TypeInv, Control
  <1>3. /\ rows' = rows /\ inserted' = inserted
        /\ deleted'[t] = deleted[t] \cup {Current(t)}
    BY DEF Drops, TypeInv, TypeOK
  <1>4. todo'[t] = todo[t] \ {Turn(t)} /\ pc'[t] # "delete_row"
    BY <1>1, AdvanceTypes DEF Drops
  <1>5. \A a : LockOf(t, a)' = LockOf(t, a)
    BY <1>1 DEF LockOf
  <1>6. InsertedLocks(t)' = InsertedLocks(t)
    BY <1>1, <1>3 DEF InsertedLocks, LockOf
  <1>7. Held(t)' = Held(t) \cup {Current(t)}
    BY <1>3, <1>6 DEF Held
  <1>8. Locks(t)' = Locks(t)
    BY <1>1 DEF Locks, LockOf
  <1> QED
    BY <1>1, <1>2, <1>3, <1>4, <1>5, <1>6, <1>7, <1>8

LEMMA PassesHolds ==
  ASSUME TypeInv, Batches, NEW t \in Task, Passes(t)
  PROVE  /\ InTxn(t) /\ Batch(t)
         /\ req' = req /\ rows' = rows /\ inserted' = inserted /\ deleted' = deleted
         /\ todo'[t] = todo[t] \ {Turn(t)}
         /\ InsertedLocks(t)' = InsertedLocks(t)
         /\ Held(t)' = Held(t)
         /\ Locks(t)' = Locks(t)
         /\ pc'[t] # "delete_row"
         /\ \A a : LockOf(t, a)' = LockOf(t, a)
  <1>1. pc[t] \in LockLabels \cup UnlockLabels /\ InTxn(t) /\ req' = req
    BY DEF Passes, LockLabels, UnlockLabels, InTxn
  <1>2. Batch(t)
    BY <1>1 DEF Batches
  <1>3. rows' = rows /\ inserted' = inserted /\ deleted' = deleted
    BY DEF Passes
  <1>4. todo'[t] = todo[t] \ {Turn(t)} /\ pc'[t] # "delete_row"
    BY <1>1, AdvanceTypes DEF Passes
  <1>5. /\ \A a : LockOf(t, a)' = LockOf(t, a)
        /\ InsertedLocks(t)' = InsertedLocks(t) /\ Held(t)' = Held(t)
        /\ Locks(t)' = Locks(t)
    BY <1>1, <1>3 DEF LockOf, InsertedLocks, Held, Locks
  <1> QED
    BY <1>1, <1>2, <1>3, <1>4, <1>5

LEMMA LooksHolds ==
  ASSUME TypeInv, Batches, NEW t \in Task, Looks(t)
  PROVE  /\ InTxn(t) /\ Batch(t)
         /\ req' = req /\ rows' = rows /\ inserted' = inserted /\ deleted' = deleted
         /\ todo' = todo
         /\ InsertedLocks(t)' = InsertedLocks(t)
         /\ Held(t)' = Held(t)
         /\ Locks(t)' = Locks(t)
         /\ Current(t)' = Current(t)
         /\ pc'[t] = "delete_row" =>
              /\ Current(t) \notin deleted[t] /\ found'[t] # Free
              /\ req[t].validate => found'[t].owner = req[t].owner
         /\ \A a : LockOf(t, a)' = LockOf(t, a)
  <1>1. PICK l \in {"owner", "delete_row", "blame"}, r \in Row \cup {Free} :
          /\ \/ pc[t] = "insert" /\ l = "owner"
             \/ pc[t] \in UnlockLabels /\ l # "owner"
          /\ Goto(t, l)
          /\ l = "delete_row" =>
               /\ r # Free /\ Current(t) \notin deleted[t]
               /\ req[t].validate => r.owner = req[t].owner
          /\ found' = [found EXCEPT ![t] = r]
          /\ UNCHANGED <<rows, req, inserted, deleted>>
    BY DEF Looks
  <1>2. InTxn(t)
    BY <1>1 DEF UnlockLabels, InTxn
  <1>3. todo' = todo /\ pc'[t] = l /\ found'[t] = r
    BY <1>1 DEF Goto, TypeInv, TypeOK
  <1>4. /\ \A a : LockOf(t, a)' = LockOf(t, a)
        /\ InsertedLocks(t)' = InsertedLocks(t) /\ Held(t)' = Held(t)
        /\ Locks(t)' = Locks(t) /\ Current(t)' = Current(t)
    BY <1>1, <1>3 DEF LockOf, InsertedLocks, Held, Locks, Current, Turn
  <1> QED
    BY <1>1, <1>2, <1>3, <1>4 DEF Batches

\* A transaction that starts holds nothing and has everything to do.
LEMMA BeginHolds ==
  ASSUME TypeInv, NEW t \in Task, Begin(t), InTxn(t)'
  PROVE  /\ rows' = rows /\ inserted'[t] = {} /\ deleted'[t] = {} /\ Held(t)' = {}
         /\ todo'[t] = ToSet(req'[t].resources)
         /\ pc'[t] # "delete_row"
  <1>1. rows' = rows /\ inserted'[t] = {} /\ deleted'[t] = {}
    BY DEF Begin, TypeInv, Control
  <1>2. Held(t)' = {}
    BY <1>1 DEF Held, InsertedLocks
  <1>3. todo'[t] = ToSet(req'[t].resources) /\ pc'[t] # "delete_row"
    BY DEF Begin, Goto, Return, TypeInv, TypeOK, InTxn, Label
  <1> QED
    BY <1>1, <1>2, <1>3

\* One that has returned is over.
LEMMA ReturnCloses ==
  ASSUME TypeInv, NEW t \in Task, Ends(t) \/ Commit(t)
  PROVE  ~ InTxn(t)' /\ pc'[t] = "done"
  BY DEF Ends, Commit, Return, LostReply, InTxn, TypeInv, TypeOK

LEMMA CrashCloses ==
  ASSUME TypeInv, Crash
  PROVE  \A u \in Task : ~ InTxn(u)'
  BY DEF Crash, Running, InTxn

\* Rows change at the COMMIT of a transaction that holds them, and only then.
LEMMA RowsElsewhere ==
  ASSUME TypeInv, TxnInv, NEW t \in Task,
         \/ Begin(t) \/ Takes(t) \/ Drops(t) \/ Passes(t) \/ Looks(t) \/ Ends(t) \/ Commit(t),
         NEW u \in Task \ {t}, InTxn(u)
  PROVE  \A l \in Held(u) : rows'[l] = rows[l]
  <1>1. CASE Commit(t)
    <2>1. InTxn(t) /\ rows' = Applied(t)
      BY <1>1 DEF Commit, InTxn
    <2>2. Held(u) \cap Held(t) = {}
      BY <2>1 DEF TxnInv, Exclusive
    <2>3. Held(u) \in SUBSET Lock
      BY BatchTypes DEF Held, InsertedLocks, TypeInv, TypeOK
    <2> QED
      BY <2>1, <2>2, <2>3, AppliedRows
  <1>2. CASE ~ Commit(t)
    BY <1>2 DEF Begin, Takes, Drops, Passes, Looks, Ends
  <1> QED
    BY <1>1, <1>2

LEMMA BatchTakes ==
  ASSUME TypeInv, Batches, NEW t \in Task, Takes(t)
  PROVE  Batch(t)'
  <1>1. /\ InTxn(t) /\ Batch(t) /\ req[t].op = "lock"
        /\ req' = req /\ rows' = rows /\ deleted' = deleted
        /\ todo'[t] = todo[t] \ {Turn(t)}
        /\ inserted'[t] = inserted[t] \cup {Turn(t)}
        /\ InsertedLocks(t)' = InsertedLocks(t) \cup {Current(t)}
        /\ Locks(t)' = Locks(t)
        /\ pc'[t] # "delete_row"
        /\ \A a : LockOf(t, a)' = LockOf(t, a)
    BY TakesHolds
  <1>2. /\ Turn(t) \in todo[t]
        /\ rows[Current(t)] = Free /\ Current(t) \notin InsertedLocks(t)
    BY CurrentTypes DEF Takes, LockLabels
  <1>3. \A a, b \in inserted'[t] : LockOf(t, a) = LockOf(t, b) => a = b
    BY <1>1, <1>2, InsertedIsHeld DEF Batch, Current
  <1>4. \A l \in InsertedLocks(t)' : rows'[l] = Free
    BY <1>1, <1>2 DEF Batch
  <1>5. \A l \in deleted'[t] :
          rows'[l] # Free /\ (req'[t].validate => rows'[l].owner = req'[t].owner)
    BY <1>1 DEF Batch
  <1>6. /\ todo'[t] \subseteq ToSet(req'[t].resources)
        /\ inserted'[t] \subseteq ToSet(req'[t].resources)
        /\ deleted'[t] \subseteq Locks(t)'
        /\ req'[t].op = "lock" => deleted'[t] = {}
        /\ req'[t].op = "unlock" => inserted'[t] = {}
    BY <1>1, <1>2 DEF Batch
  <1> QED
    BY <1>1, <1>3, <1>4, <1>5, <1>6 DEF Batch

LEMMA BatchDrops ==
  ASSUME TypeInv, Batches, NEW t \in Task, Drops(t)
  PROVE  Batch(t)'
  <1>1. /\ InTxn(t) /\ Batch(t) /\ req[t].op = "unlock"
        /\ req' = req /\ rows' = rows /\ inserted' = inserted
        /\ todo'[t] = todo[t] \ {Turn(t)}
        /\ deleted'[t] = deleted[t] \cup {Current(t)}
        /\ InsertedLocks(t)' = InsertedLocks(t)
        /\ Locks(t)' = Locks(t)
        /\ pc'[t] # "delete_row"
        /\ \A a : LockOf(t, a)' = LockOf(t, a)
    BY DropsHolds
  <1>2. /\ Turn(t) \in todo[t] /\ pc[t] = "delete_row"
        /\ rows[Current(t)] = found[t]
    BY CurrentTypes DEF Drops, UnlockLabels
  <1>3. Current(t) \in Locks(t)
    BY <1>1, <1>2 DEF Batch, Current, Locks
  <1>4. \A l \in deleted'[t] :
          rows'[l] # Free /\ (req'[t].validate => rows'[l].owner = req'[t].owner)
    BY <1>1, <1>2 DEF Batch
  <1>5. /\ todo'[t] \subseteq ToSet(req'[t].resources)
        /\ inserted'[t] \subseteq ToSet(req'[t].resources)
        /\ deleted'[t] \subseteq Locks(t)'
        /\ req'[t].op = "lock" => deleted'[t] = {}
        /\ req'[t].op = "unlock" => inserted'[t] = {}
        /\ \A a, b \in inserted'[t] : LockOf(t, a)' = LockOf(t, b)' => a = b
        /\ \A l \in InsertedLocks(t)' : rows'[l] = Free
    BY <1>1, <1>2, <1>3 DEF Batch
  <1> QED
    BY <1>1, <1>4, <1>5 DEF Batch

LEMMA BatchPasses ==
  ASSUME TypeInv, Batches, NEW t \in Task, Passes(t)
  PROVE  Batch(t)'
  <1>1. /\ InTxn(t) /\ Batch(t)
        /\ req' = req /\ rows' = rows /\ inserted' = inserted /\ deleted' = deleted
        /\ todo'[t] = todo[t] \ {Turn(t)}
        /\ InsertedLocks(t)' = InsertedLocks(t)
        /\ Locks(t)' = Locks(t)
        /\ pc'[t] # "delete_row"
        /\ \A a : LockOf(t, a)' = LockOf(t, a)
    BY PassesHolds
  <1> QED
    BY <1>1 DEF Batch

LEMMA BatchLooks ==
  ASSUME TypeInv, Batches, NEW t \in Task, Looks(t)
  PROVE  Batch(t)'
  <1>1. /\ InTxn(t) /\ Batch(t)
        /\ req' = req /\ rows' = rows /\ inserted' = inserted /\ deleted' = deleted
        /\ todo' = todo
        /\ InsertedLocks(t)' = InsertedLocks(t)
        /\ Locks(t)' = Locks(t)
        /\ Current(t)' = Current(t)
        /\ pc'[t] = "delete_row" =>
             /\ Current(t) \notin deleted[t] /\ found'[t] # Free
             /\ req[t].validate => found'[t].owner = req[t].owner
        /\ \A a : LockOf(t, a)' = LockOf(t, a)
    BY LooksHolds
  <1> QED
    BY <1>1 DEF Batch

LEMMA BatchBegin ==
  ASSUME TypeInv, NEW t \in Task, Begin(t), InTxn(t)'
  PROVE  Batch(t)'
  <1>1. /\ inserted'[t] = {} /\ deleted'[t] = {} /\ Held(t)' = {}
        /\ todo'[t] = ToSet(req'[t].resources) /\ pc'[t] # "delete_row"
    BY BeginHolds
  <1>2. InsertedLocks(t)' = {}
    BY <1>1 DEF Held
  <1> QED
    BY <1>1, <1>2 DEF Batch

\* Steps of t keep what every open transaction has done, if they do for t's.
LEMMA BatchesKept ==
  ASSUME TypeInv, TxnInv, NEW t \in Task,
         \/ Begin(t) \/ Takes(t) \/ Drops(t) \/ Passes(t) \/ Looks(t) \/ Ends(t) \/ Commit(t)
  PROVE  Batches'
  <1> SUFFICES ASSUME NEW u \in Task, InTxn(u)'
               PROVE  Batch(u)'
    BY DEF Batches
  <1>1. CASE u = t
    BY <1>1, BatchBegin, BatchTakes, BatchDrops, BatchPasses, BatchLooks, ReturnCloses
    DEF TxnInv
  <1>2. CASE u # t
    <2>1. Still(u)
      BY <1>2, StepAlone DEF Alone
    <2>2. InTxn(u) /\ Batch(u)
      BY <2>1, StillHolds DEF TxnInv, Batches
    <2>3. \A l \in Held(u) : rows'[l] = rows[l]
      BY <1>2, <2>2, RowsElsewhere
    <2> QED
      BY <2>1, <2>2, <2>3, BatchStill
  <1> QED
    BY <1>1, <1>2

\* What a transaction comes to hold, no other holds: INSERT has waited for those that have
\* inserted or deleted its row, DELETE for those that have deleted it, and a row that
\* another has inserted is not there to be found.
LEMMA HoldsAlone ==
  ASSUME TypeInv, TxnInv, NEW t \in Task,
         \/ Begin(t) \/ Takes(t) \/ Drops(t) \/ Passes(t) \/ Looks(t) \/ Ends(t) \/ Commit(t),
         InTxn(t)', NEW u \in Task \ {t}, InTxn(u)
  PROVE  Held(t)' \cap Held(u) = {}
  <1> Batches
    BY DEF TxnInv
  <1>1. CASE Takes(t)
    <2>1. InTxn(t) /\ Held(t)' = Held(t) \cup {Current(t)}
      BY <1>1, TakesHolds
    <2>2. Current(t) \notin Held(u)
      BY <1>1 DEF Takes, InsertBlockers, Held
    <2> QED
      BY <2>1, <2>2 DEF TxnInv, Exclusive
  <1>2. CASE Drops(t)
    <2>1. InTxn(t) /\ Held(t)' = Held(t) \cup {Current(t)}
      BY <1>2, DropsHolds
    <2>2. rows[Current(t)] # Free
      BY <1>2, <2>1 DEF Drops, Batches, Batch
    <2>3. Current(t) \notin InsertedLocks(u)
      BY <2>2 DEF Batches, Batch
    <2>4. Current(t) \notin deleted[u]
      BY <1>2 DEF Drops, DeleteBlockers
    <2> QED
      BY <2>1, <2>3, <2>4 DEF TxnInv, Exclusive, Held
  <1>3. CASE Passes(t) \/ Looks(t)
    BY <1>3, PassesHolds, LooksHolds DEF TxnInv, Exclusive
  <1>4. CASE Begin(t)
    BY <1>4, BeginHolds
  <1> QED
    BY <1>1, <1>2, <1>3, <1>4, ReturnCloses

LEMMA ExclusiveKept ==
  ASSUME TypeInv, TxnInv, NEW t \in Task,
         \/ Begin(t) \/ Takes(t) \/ Drops(t) \/ Passes(t) \/ Looks(t) \/ Ends(t) \/ Commit(t)
  PROVE  Exclusive'
  <1>1. \A u \in Task \ {t} : (InTxn(u)' <=> InTxn(u)) /\ Held(u)' = Held(u)
    BY StepAlone, StillHolds DEF Alone
  <1>2. \A u \in Task \ {t} : InTxn(t)' /\ InTxn(u)' => Held(t)' \cap Held(u)' = {}
    BY <1>1, HoldsAlone
  <1>3. \A u, v \in Task \ {t} : u # v /\ InTxn(u)' /\ InTxn(v)' => Held(u)' \cap Held(v)' = {}
    BY <1>1 DEF TxnInv, Exclusive
  <1> QED
    BY <1>2, <1>3 DEF Exclusive

\* A resource comes after those before it, and so does its lock.
LEMMA BeforeIsUpTo ==
  ASSUME NEW t, NEW a \in Resource, NEW b \in Resource, Before(a, b)
  PROVE  UpTo(LockOf(t, a), b)
  BY ResourceFields DEF Before, UpTo, LockOf

LEMMA SortedKept ==
  ASSUME TypeInv, TxnInv, NEW t \in Task,
         \/ Begin(t) \/ Takes(t) \/ Drops(t) \/ Passes(t) \/ Looks(t) \/ Ends(t) \/ Commit(t)
  PROVE  Sorted'
  <1> SUFFICES ASSUME NEW u \in Task, InTxn(u)', NEW l \in Held(u)', NEW a \in todo'[u]
               PROVE  UpTo(l, a)
    BY DEF Sorted, UpTo
  <1> Batches
    BY DEF TxnInv
  <1>1. CASE u # t
    <2>1. InTxn(u) /\ Held(u)' = Held(u) /\ todo'[u] = todo[u]
      BY <1>1, StepAlone, StillHolds DEF Alone, Still
    <2> QED
      BY <2>1 DEF TxnInv, Sorted
  <1>2. CASE u = t /\ (Takes(t) \/ Drops(t))
    <2>1. /\ InTxn(t) /\ Held(t)' = Held(t) \cup {Current(t)}
          /\ todo'[t] = todo[t] \ {Turn(t)}
      BY <1>2, TakesHolds, DropsHolds
    <2>2. CASE l \in Held(t)
      BY <1>2, <2>1, <2>2 DEF TxnInv, Sorted
    <2>3. CASE l = Current(t)
      <3>1. pc[t] \in LockLabels \cup UnlockLabels
        BY <1>2 DEF Takes, Drops, LockLabels, UnlockLabels
      <3>2. Turn(t) \in Resource /\ Before(Turn(t), a)
        BY <1>2, <2>1, <3>1, CurrentTypes
      <3>3. a \in Resource
        BY <1>2, <2>1 DEF TypeInv, TypeOK
      <3> QED
        BY <2>3, <3>2, <3>3, BeforeIsUpTo DEF Current
    <2> QED
      BY <1>2, <2>1, <2>2, <2>3
  <1>3. CASE u = t /\ (Passes(t) \/ Looks(t))
    BY <1>3, PassesHolds, LooksHolds DEF TxnInv, Sorted
  <1>4. CASE u = t /\ Begin(t)
    BY <1>4, BeginHolds
  <1>5. CASE u = t /\ (Ends(t) \/ Commit(t))
    BY <1>5, ReturnCloses
  <1> QED
    BY <1>1, <1>2, <1>3, <1>4, <1>5

\* A step is a task's, a crash, or none.
LEMMA NextKinds ==
  ASSUME TypeInv, [Next]_vars
  PROVE  \/ \E t \in Task : \/ Begin(t) \/ Takes(t) \/ Drops(t) \/ Passes(t) \/ Looks(t)
                            \/ Ends(t) \/ Commit(t)
         \/ Crash \/ UNCHANGED vars
  BY StepKinds, FailEnds DEF Next

LEMMA TxnInit == Init => TxnInv
  BY DEF Init, TxnInv, Batches, Exclusive, Sorted, InTxn

LEMMA TxnNext ==
  ASSUME TypeInv, TxnInv, [Next]_vars
  PROVE  TxnInv'
  <1>1. ASSUME NEW t \in Task,
               \/ Begin(t) \/ Takes(t) \/ Drops(t) \/ Passes(t) \/ Looks(t)
               \/ Ends(t) \/ Commit(t)
        PROVE  TxnInv'
    BY <1>1, BatchesKept, ExclusiveKept, SortedKept DEF TxnInv
  <1>2. CASE Crash
    BY <1>2, CrashCloses DEF TxnInv, Batches, Exclusive, Sorted
  <1>3. CASE UNCHANGED vars
    <2>1. \A u \in Task : Still(u)
      BY <1>3 DEF vars, Still
    <2>2. rows' = rows
      BY <1>3 DEF vars
    <2>3. Batches'
      BY <2>1, <2>2, StillHolds, BatchStill DEF TxnInv, Batches
    <2>4. Exclusive' /\ Sorted'
      BY <2>1, StillHolds DEF TxnInv, Exclusive, Sorted, Still, UpTo
    <2> QED
      BY <2>3, <2>4 DEF TxnInv
  <1> QED
    BY <1>1, <1>2, <1>3, NextKinds

-----------------------------------------------------------------------------
(* What a grant is worth.                                                  *)

\* A request that has been answered stays as it is.
LEMMA DoneStays ==
  ASSUME TypeInv, [Next]_vars, NEW u \in Task, res[u].kind # "none"
  PROVE  req'[u] = req[u] /\ res'[u] = res[u]
  <1>1. pc[u] = "done"
    BY DEF TypeInv, Control
  <1>2. ASSUME NEW t \in Task,
               \/ Begin(t) \/ Takes(t) \/ Drops(t) \/ Passes(t) \/ Looks(t)
               \/ Ends(t) \/ Commit(t)
        PROVE  req'[u] = req[u] /\ res'[u] = res[u]
    <2>1. pc[t] # "done"
      BY <1>2 DEF Begin, Takes, Drops, Passes, Looks, Ends, Running, Commit, UnlockLabels
    <2> QED
      BY <1>1, <1>2, <2>1, StepAlone DEF Alone, Still
  <1>3. CASE Crash
    BY <1>1, <1>3 DEF Crash, Running
  <1>4. CASE UNCHANGED vars
    BY <1>4 DEF vars
  <1> QED
    BY <1>2, <1>3, <1>4, NextKinds

LEMMA ReleasedStays ==
  ASSUME TypeInv, [Next]_vars, NEW l, NEW o, Released(l, o)
  PROVE  Released(l, o)'
  <1>1. PICK u \in Task : /\ req[u].op = "unlock" /\ l \in Locks(u)
                          /\ req[u].validate => req[u].owner = o
                          /\ res[u].kind \in {"ok", "err"}
    BY DEF Released
  <1>2. req'[u] = req[u] /\ res'[u] = res[u]
    BY <1>1, DoneStays
  <1>3. Locks(u)' = Locks(u)
    BY <1>2 DEF Locks, LockOf
  <1> QED
    BY <1>1, <1>2, <1>3 DEF Released

\* A row is there until an unlock of its owner's, or one by force, commits.
LEMMA RowStays ==
  ASSUME TypeInv, TxnInv, [Next]_vars, NEW l \in Lock, rows[l] # Free,
         NEW o, rows[l].owner = o
  PROVE  rows'[l] = rows[l] \/ Released(l, o)'
  <1>1. ASSUME NEW t \in Task, Commit(t)
        PROVE  rows'[l] = rows[l] \/ Released(l, o)'
    <2>1. InTxn(t) /\ Batch(t)
      BY <1>1 DEF Commit, InTxn, TxnInv, Batches
    <2>2. PICK a \in [kind: {"ok", "err"}, items: SUBSET Resource] :
            /\ res' = [res EXCEPT ![t] = a] /\ rows' = Applied(t) /\ req' = req
      BY <1>1, CommitAnswers
    <2>3. CASE l \in deleted[t]
      <3>1. /\ req[t].op = "unlock" /\ l \in Locks(t)
            /\ req[t].validate => req[t].owner = o
        BY <2>1, <2>3, BatchTypes DEF Batch
      <3>2. res'[t].kind \in {"ok", "err"}
        BY <2>2 DEF TypeInv, TypeOK
      <3>3. Locks(t)' = Locks(t)
        BY <2>2 DEF Locks, LockOf
      <3> QED
        BY <2>2, <3>1, <3>2, <3>3 DEF Released
    <2>4. CASE l \notin deleted[t]
      <3>1. l \notin InsertedLocks(t)
        BY <2>1 DEF Batch
      <3> QED
        BY <2>1, <2>2, <2>4, <3>1, AppliedRows DEF Held
    <2> QED
      BY <2>3, <2>4
  <1>2. ASSUME NEW t \in Task,
               Begin(t) \/ Takes(t) \/ Drops(t) \/ Passes(t) \/ Looks(t) \/ Ends(t)
        PROVE  rows' = rows
    BY <1>2 DEF Begin, Takes, Drops, Passes, Looks, Ends
  <1>3. CASE Crash \/ UNCHANGED vars
    BY <1>3 DEF Crash, vars
  <1> QED
    BY <1>1, <1>2, <1>3, NextKinds

\* A row that appears is one that a COMMIT has written, for a batch that its client takes
\* for granted or cannot tell.
LEMMA RowAppears ==
  ASSUME TypeInv, TxnInv, [Next]_vars, NEW l \in Lock, rows'[l] # Free, rows'[l] # rows[l]
  PROVE  \E t \in Task : rows'[l].by = t /\ res'[t].kind \in {"ok", "err"}
  <1>1. ASSUME NEW t \in Task, Commit(t)
        PROVE  rows'[l].by = t /\ res'[t].kind \in {"ok", "err"}
    <2>1. InTxn(t)
      BY <1>1 DEF Commit, InTxn
    <2>2. PICK a \in [kind: {"ok", "err"}, items: SUBSET Resource] :
            res' = [res EXCEPT ![t] = a] /\ rows' = Applied(t)
      BY <1>1, CommitAnswers
    <2>3. l \in Held(t) /\ l \notin deleted[t]
      BY <2>1, <2>2, AppliedRows
    <2>4. PICK b \in inserted[t] : rows'[l] = RowOf(t, b)
      BY <2>1, <2>2, <2>3, AppliedRows DEF Held
    <2> QED
      BY <2>2, <2>4 DEF RowOf, TypeInv, TypeOK
  <1>2. ASSUME NEW t \in Task,
               Begin(t) \/ Takes(t) \/ Drops(t) \/ Passes(t) \/ Looks(t) \/ Ends(t)
        PROVE  rows' = rows
    BY <1>2 DEF Begin, Takes, Drops, Passes, Looks, Ends
  <1>3. CASE Crash \/ UNCHANGED vars
    BY <1>3 DEF Crash, vars
  <1> QED
    BY <1>1, <1>2, <1>3, NextKinds

\* A lock batch is granted by its COMMIT.
LEMMA GrantIsCommit ==
  ASSUME TypeInv, [Next]_vars, NEW u \in Task, res[u].kind = "none",
         res'[u].kind = "ok", req'[u].op = "lock"
  PROVE  Commit(u)
  <1>1. ASSUME NEW t \in Task \ {u},
               \/ Begin(t) \/ Takes(t) \/ Drops(t) \/ Passes(t) \/ Looks(t)
               \/ Ends(t) \/ Commit(t)
        PROVE  FALSE
    BY <1>1, StepAlone DEF Alone, Still
  <1>2. CASE Begin(u)
    BY <1>2 DEF Begin, Goto, Return, TypeInv, TypeOK
  <1>3. CASE Takes(u) \/ Drops(u) \/ Passes(u) \/ Looks(u)
    BY <1>3 DEF Takes, Drops, Passes, Looks, Advance, Goto
  <1>4. CASE Ends(u)
    <2>1. PICK a \in [kind: Kind \ {"none"}, items: SUBSET Item] :
            /\ res' = [res EXCEPT ![u] = a]
            /\ a.kind = "ok" => pc[u] \in {"status", "query"}
            /\ req' = req
      BY <1>4 DEF Ends
    <2>2. a.kind = "ok"
      BY <2>1 DEF TypeInv, TypeOK
    <2>3. req[u].op # "lock"
      BY <2>1, <2>2, RequestShapes DEF TypeInv, Control
    <2> QED
      BY <2>1, <2>3
  <1>5. CASE Crash
    BY <1>5 DEF Crash, Answer
  <1>6. CASE UNCHANGED vars
    BY <1>6 DEF vars
  <1> QED
    BY <1>1, <1>2, <1>3, <1>4, <1>5, <1>6, NextKinds

\* A status is answered from the rows there are, or it asked for nothing.
LEMMA StatusIsRead ==
  ASSUME TypeInv, [Next]_vars, NEW u \in Task, res[u].kind = "none",
         res'[u].kind = "ok", req'[u].op = "status"
  PROVE  \/ req' = req /\ res'[u].items = Data(Locks(u))
         \/ Locks(u)' = {} /\ res'[u].items = {}
  <1>1. ASSUME NEW t \in Task \ {u},
               \/ Begin(t) \/ Takes(t) \/ Drops(t) \/ Passes(t) \/ Looks(t)
               \/ Ends(t) \/ Commit(t)
        PROVE  FALSE
    BY <1>1, StepAlone DEF Alone, Still
  <1>2. CASE Begin(u)
    <2>1. PICK r \in Requests :
            /\ req' = [req EXCEPT ![u] = r]
            /\ \/ UNCHANGED res
               \/ r.resources = <<>> /\ res' = [res EXCEPT ![u] = Answer("ok", {})]
      BY <1>2 DEF Begin, Goto, Return
    <2>2. r.resources = <<>> /\ res' = [res EXCEPT ![u] = Answer("ok", {})]
      BY <2>1
    <2>3. req'[u] = r /\ res'[u].items = {}
      BY <2>1, <2>2 DEF Answer, TypeInv, TypeOK
    <2>4. ToSet(req'[u].resources) = {}
      BY <2>2, <2>3 DEF ToSet
    <2> QED
      BY <2>3, <2>4 DEF Locks
  <1>3. CASE Takes(u) \/ Drops(u) \/ Passes(u) \/ Looks(u)
    BY <1>3 DEF Takes, Drops, Passes, Looks, Advance, Goto
  <1>4. CASE Ends(u)
    <2>1. PICK a \in [kind: Kind \ {"none"}, items: SUBSET Item] :
            /\ res' = [res EXCEPT ![u] = a]
            /\ a.kind = "ok" => pc[u] \in {"status", "query"}
            /\ a.kind = "ok" /\ pc[u] = "status" => a.items = Data(Locks(u))
            /\ req' = req
      BY <1>4 DEF Ends
    <2>2. res'[u] = a /\ a.kind = "ok"
      BY <2>1 DEF TypeInv, TypeOK
    <2>3. pc[u] = "status"
      BY <2>1, <2>2, RequestShapes DEF TypeInv, Control
    <2> QED
      BY <2>1, <2>2, <2>3
  <1>5. CASE Commit(u)
    BY <1>5, BatchTypes DEF Commit, InTxn
  <1>6. CASE Crash
    BY <1>6 DEF Crash, Answer
  <1>7. CASE UNCHANGED vars
    BY <1>7 DEF vars
  <1> QED
    BY <1>1, <1>2, <1>3, <1>4, <1>5, <1>6, <1>7, NextKinds

GrantInv == Covered /\ Told /\ GrantSurvives

\* The locks that a lock batch or a status names are locks.
LEMMA NamedLocks ==
  ASSUME TypeInv, NEW t \in Task, req[t].op \in {"lock", "status"}
  PROVE  /\ Locks(t) \in SUBSET Lock
         /\ \A a \in ToSet(req[t].resources) : LockOf(t, a) \in Locks(t)
  <1>1. req[t] \in LockRequest \cup StatusRequest
    BY RequestShapes DEF TypeInv, TypeOK, Request, NoRequest
  <1>2. ToSet(req[t].resources) \in SUBSET Resource /\ req[t].repo \in Repository
    BY <1>1, RequestShapes, SetOfSequence
  <1> QED
    BY <1>2 DEF Locks, LockOf, Lock, Resource

\* What a batch has behind it stays locked, or is released.
LEMMA CoveredKept ==
  ASSUME TypeInv, TxnInv, Covered, [Next]_vars
  PROVE  Covered'
  <1> SUFFICES ASSUME NEW u \in Task, InTxn(u)', req'[u].op = "lock",
                      NEW a \in ToSet(req'[u].resources) \ todo'[u]
               PROVE  \/ LockOf(u, a)' \in InsertedLocks(u)'
                      \/ Owned(u, LockOf(u, a))'
                      \/ Released(LockOf(u, a), req[u].owner)'
    BY DEF Covered
  <1> Batches
    BY DEF TxnInv
  \* It was behind it before this step.
  <1>1. ASSUME InTxn(u), req'[u] = req[u], a \notin todo[u],
               InsertedLocks(u) \subseteq InsertedLocks(u)'
        PROVE  \/ LockOf(u, a)' \in InsertedLocks(u)'
               \/ Owned(u, LockOf(u, a))'
               \/ Released(LockOf(u, a), req[u].owner)'
    <2>1. PICK l : l = LockOf(u, a)
      OBVIOUS
    <2>2. PICK o : o = req[u].owner
      OBVIOUS
    <2>3. LockOf(u, a)' = l /\ req'[u].owner = o
      BY <1>1, <2>1, <2>2 DEF LockOf
    <2>4. l \in Lock
      BY <1>1, <2>1, NamedLocks
    <2>5. l \in InsertedLocks(u) \/ (rows[l] # Free /\ rows[l].owner = o) \/ Released(l, o)
      BY <1>1, <2>1, <2>2 DEF Covered, Owned
    <2>6. l \in InsertedLocks(u)' \/ (rows'[l] # Free /\ rows'[l].owner = o) \/ Released(l, o)'
      BY <1>1, <2>4, <2>5, RowStays, ReleasedStays
    <2> QED
      BY <2>3, <2>6 DEF Owned, Released
  <1>2. ASSUME NEW t \in Task \ {u},
               \/ Begin(t) \/ Takes(t) \/ Drops(t) \/ Passes(t) \/ Looks(t)
               \/ Ends(t) \/ Commit(t)
        PROVE  /\ InTxn(u) /\ req'[u] = req[u] /\ a \notin todo[u]
               /\ InsertedLocks(u) \subseteq InsertedLocks(u)'
    BY <1>2, StepAlone, StillHolds DEF Alone, Still
  <1>3. CASE Takes(u)
    <2>1. /\ InTxn(u) /\ req' = req /\ todo'[u] = todo[u] \ {Turn(u)}
          /\ inserted'[u] = inserted[u] \cup {Turn(u)}
          /\ InsertedLocks(u)' = InsertedLocks(u) \cup {Current(u)}
      BY <1>3, TakesHolds
    <2>2. CASE a = Turn(u)
      BY <2>1, <2>2 DEF Current, LockOf
    <2>3. CASE a # Turn(u)
      BY <1>1, <2>1, <2>3
    <2> QED
      BY <2>2, <2>3
  <1>4. CASE Drops(u)
    BY <1>4, DropsHolds
  <1>5. CASE Passes(u)
    <2>1. /\ InTxn(u) /\ req' = req /\ rows' = rows /\ todo'[u] = todo[u] \ {Turn(u)}
          /\ InsertedLocks(u)' = InsertedLocks(u)
      BY <1>5, PassesHolds
    <2>2. CASE a = Turn(u)
      <3>1. pc[u] = "owner"
        BY <1>5, <2>1, RequestShapes DEF Passes, TypeInv, Control, UnlockLabels
      <3>2. Current(u) \in InsertedLocks(u) \/ Owned(u, Current(u))
        BY <1>5, <3>1 DEF Passes
      <3>3. LockOf(u, a)' = Current(u)
        BY <2>1, <2>2 DEF LockOf, Current
      <3> QED
        BY <2>1, <3>2, <3>3 DEF Owned
    <2>3. CASE a # Turn(u)
      BY <1>1, <2>1, <2>3
    <2> QED
      BY <2>2, <2>3
  <1>6. CASE Looks(u)
    BY <1>1, <1>6, LooksHolds
  <1>7. CASE Begin(u)
    BY <1>7, BeginHolds
  <1>8. CASE Ends(u) \/ Commit(u)
    BY <1>8, ReturnCloses
  <1>9. CASE Crash
    BY <1>9, CrashCloses
  <1>10. CASE UNCHANGED vars
    BY <1>1, <1>10 DEF vars, InTxn, InsertedLocks, LockOf
  <1> QED
    BY <1>1, <1>2, <1>3, <1>4, <1>5, <1>6, <1>7, <1>8, <1>9, <1>10, NextKinds

\* A batch that commits has every lock it names, and the rows it has inserted are its own.
LEMMA CommitGrants ==
  ASSUME TypeInv, TxnInv, Covered, [Next]_vars, NEW u \in Task, Commit(u), req[u].op = "lock"
  PROVE  /\ req' = req
         /\ \A l \in Locks(u) : \/ rows'[l] # Free /\ rows'[l].owner = req[u].owner
                                \/ Released(l, req[u].owner)
         /\ \A a \in inserted[u] : rows'[LockOf(u, a)] = RowOf(u, a)
         /\ inserted[u] \subseteq ToSet(req[u].resources)
  <1>1. /\ InTxn(u) /\ Batch(u) /\ todo[u] = {} /\ deleted[u] = {}
        /\ rows' = Applied(u) /\ req' = req
    BY DEF Commit, InTxn, TxnInv, Batches, Batch, TypeInv, Control
  <1>2. ASSUME NEW a \in inserted[u]
        PROVE  rows'[LockOf(u, a)] = RowOf(u, a)
    <2>1. LockOf(u, a) \in InsertedLocks(u) \ deleted[u]
      BY <1>1, <1>2, InsertedIsHeld
    <2>2. PICK b \in inserted[u] : /\ LockOf(u, b) = LockOf(u, a)
                                   /\ rows'[LockOf(u, a)] = RowOf(u, b)
      BY <1>1, <2>1, AppliedRows
    <2>3. a = b
      BY <1>1, <2>2 DEF Batch
    <2> QED
      BY <2>2, <2>3
  <1>3. ASSUME NEW l \in Locks(u)
        PROVE  \/ rows'[l] # Free /\ rows'[l].owner = req[u].owner
               \/ Released(l, req[u].owner)
    <2>1. PICK a \in ToSet(req[u].resources) : l = LockOf(u, a)
      BY DEF Locks
    <2>2. l \in Lock
      BY NamedLocks
    <2>3. l \in InsertedLocks(u) \/ Owned(u, l) \/ Released(l, req[u].owner)
      BY <1>1, <2>1 DEF Covered
    <2>4. CASE l \in InsertedLocks(u)
      <3>1. PICK b \in inserted[u] : l = LockOf(u, b)
        BY <2>4 DEF InsertedLocks
      <3>2. rows'[l] = RowOf(u, b)
        BY <1>2, <3>1
      <3>3. RowOf(u, b) \in Row /\ RowOf(u, b).owner = req[u].owner
        BY <1>1, BatchTypes DEF RowOf, TypeInv, TypeOK
      <3> QED
        BY <3>2, <3>3, FreeAssumption
    <2>5. CASE l \notin InsertedLocks(u)
      BY <1>1, <2>2, <2>3, <2>5, AppliedRows DEF Held, Owned
    <2> QED
      BY <2>4, <2>5
  <1>4. inserted[u] \subseteq ToSet(req[u].resources)
    BY <1>1 DEF Batch
  <1> QED
    BY <1>1, <1>2, <1>3, <1>4

LEMMA GrantedItems ==
  ASSUME TypeInv, NEW u \in Task, Commit(u), req[u].op = "lock", res'[u].kind = "ok"
  PROVE  res'[u].items = inserted[u]
  BY CommitAnswers DEF TypeInv, TypeOK

LEMMA ToldKept ==
  ASSUME TypeInv, TxnInv, Covered, Told, [Next]_vars
  PROVE  Told'
  <1> SUFFICES ASSUME NEW u \in Task, req'[u].op = "lock", res'[u].kind = "ok"
               PROVE  res'[u].items \subseteq ToSet(req'[u].resources)
    BY DEF Told
  <1>1. CASE res[u].kind = "none"
    <2>1. Commit(u) /\ req' = req
      BY <1>1, GrantIsCommit DEF Commit
    <2> QED
      BY <2>1, CommitGrants, GrantedItems
  <1>2. CASE res[u].kind # "none"
    BY <1>2, DoneStays DEF Told
  <1> QED
    BY <1>1, <1>2

LEMMA GrantSurvivesKept ==
  ASSUME TypeInv, TxnInv, GrantInv, [Next]_vars
  PROVE  GrantSurvives'
  <1> Covered /\ Told /\ GrantSurvives
    BY DEF GrantInv
  <1>1. ASSUME NEW u \in Task, req'[u].op = "lock", res'[u].kind = "ok"
        PROVE  /\ \A l \in Locks(u)' : \/ rows'[l] # Free /\ rows'[l].owner = req'[u].owner
                                       \/ Released(l, req[u].owner)'
               /\ \A a \in res'[u].items : \/ rows'[LockOf(u, a)'] = RowOf(u, a)'
                                           \/ Released(LockOf(u, a), req[u].owner)'
    <2>1. CASE res[u].kind = "none"
      <3>1. Commit(u) /\ req' = req /\ res'[u].items = inserted[u]
        BY <1>1, <2>1, GrantIsCommit, GrantedItems DEF Commit
      <3>2. PICK o : o = req[u].owner
        OBVIOUS
      <3>3. /\ Locks(u)' = Locks(u) /\ req'[u].owner = o
            /\ \A a : LockOf(u, a)' = LockOf(u, a) /\ RowOf(u, a)' = RowOf(u, a)
        BY <3>1, <3>2 DEF Locks, LockOf, RowOf
      <3>4. \A l \in Locks(u) : (rows'[l] # Free /\ rows'[l].owner = o) \/ Released(l, o)'
        BY <1>1, <3>1, <3>2, CommitGrants, ReleasedStays
      <3>5. \A a \in inserted[u] : rows'[LockOf(u, a)] = RowOf(u, a)
        BY <1>1, <3>1, CommitGrants
      <3> QED
        BY <3>1, <3>3, <3>4, <3>5 DEF Released
    <2>2. CASE res[u].kind # "none"
      <3>1. req'[u] = req[u] /\ res'[u] = res[u]
        BY <2>2, DoneStays
      <3>2. PICK o : o = req[u].owner
        OBVIOUS
      <3>3. /\ Locks(u)' = Locks(u) /\ req'[u].owner = o
            /\ \A a : LockOf(u, a)' = LockOf(u, a) /\ RowOf(u, a)' = RowOf(u, a)
        BY <3>1, <3>2 DEF Locks, LockOf, RowOf
      <3>4. Locks(u) \in SUBSET Lock /\ \A a \in res[u].items : LockOf(u, a) \in Locks(u)
        BY <1>1, <3>1, NamedLocks DEF Told
      <3>5. ASSUME NEW l \in Locks(u)
            PROVE  (rows'[l] # Free /\ rows'[l].owner = o) \/ Released(l, o)'
        <4>1. (rows[l] # Free /\ rows[l].owner = o) \/ Released(l, o)
          BY <1>1, <3>1, <3>2 DEF GrantSurvives
        <4> QED
          BY <3>4, <4>1, RowStays, ReleasedStays
      <3>6. ASSUME NEW a \in res[u].items
            PROVE  rows'[LockOf(u, a)] = RowOf(u, a) \/ Released(LockOf(u, a), o)'
        <4>1. PICK l : l = LockOf(u, a)
          OBVIOUS
        <4>2. rows[l] = RowOf(u, a) \/ Released(l, o)
          BY <1>1, <3>1, <3>2, <4>1 DEF GrantSurvives
        <4>3. RowOf(u, a).owner = o
          BY <3>2 DEF RowOf
        <4>4. RowOf(u, a) # Free
          <5>1. req[u] \in LockRequest /\ a \in ToSet(req[u].resources)
            BY <1>1, <3>1, RequestShapes DEF Told, TypeInv, TypeOK, Request, NoRequest
          <5>2. a \in Resource /\ req[u].owner \in Owner
            BY <5>1, RequestShapes, SetOfSequence
          <5>3. RowOf(u, a) \in Row
            BY <5>2 DEF RowOf, Row, Resource
          <5> QED
            BY <5>3, FreeAssumption
        <4>5. rows'[l] = RowOf(u, a) \/ Released(l, o)'
          BY <3>4, <4>1, <4>2, <4>3, <4>4, RowStays, ReleasedStays
        <4> QED
          BY <3>3, <4>1, <4>5 DEF Released
      <3> QED
        BY <3>1, <3>3, <3>5, <3>6 DEF Released
    <2> QED
      BY <2>1, <2>2
  <1>2. ASSUME NEW l \in Lock, InitRows[l] # Free
        PROVE  rows'[l] = InitRows[l] \/ Released(l, InitRows[l].owner)'
    <2>1. PICK o : o = InitRows[l].owner
      OBVIOUS
    <2>2. rows[l] = InitRows[l] \/ Released(l, o)
      BY <1>2, <2>1 DEF GrantSurvives
    <2>3. rows'[l] = InitRows[l] \/ Released(l, o)'
      BY <1>2, <2>1, <2>2, RowStays, ReleasedStays
    <2> QED
      BY <2>1, <2>3
  <1> QED
    BY <1>1, <1>2 DEF GrantSurvives

LEMMA RefusedKept ==
  ASSUME TypeInv, TxnInv, RefusedLeavesNothing, [Next]_vars
  PROVE  RefusedLeavesNothing'
  <1> SUFFICES ASSUME NEW l \in Lock, rows'[l] # Free, rows'[l].by \in Task
               PROVE  res'[rows'[l].by].kind \in {"ok", "err"}
    BY DEF RefusedLeavesNothing
  <1>1. CASE rows'[l] = rows[l]
    BY <1>1, DoneStays DEF RefusedLeavesNothing
  <1>2. CASE rows'[l] # rows[l]
    BY <1>2, RowAppears
  <1> QED
    BY <1>1, <1>2

LEMMA StatusKept ==
  ASSUME TypeInv, TxnInv, GrantSurvives, StatusOfAsked, [Next]_vars
  PROVE  StatusOfAsked'
  <1> SUFFICES ASSUME NEW u \in Task, req'[u].op = "status", res'[u].kind = "ok"
               PROVE  /\ \A d \in res'[u].items : d.lock \in Locks(u)'
                      /\ \A l \in Locks(u)' :
                           \/ InitRows[l] = Free \/ Released(l, InitRows[l].owner)'
                           \/ [lock |-> l, row |-> InitRows[l]] \in res'[u].items
    BY DEF StatusOfAsked
  <1>1. CASE res[u].kind = "none"
    <2>1. CASE req' = req /\ res'[u].items = Data(Locks(u))
      <3>1. Locks(u)' = Locks(u)
        BY <2>1 DEF Locks, LockOf
      <3>2. Locks(u) \in SUBSET Lock
        BY <2>1, NamedLocks
      <3>3. \A d \in Data(Locks(u)) : d.lock \in Locks(u)
        BY DEF Data
      <3>4. ASSUME NEW l \in Locks(u), InitRows[l] # Free, ~ Released(l, InitRows[l].owner)'
            PROVE  [lock |-> l, row |-> InitRows[l]] \in Data(Locks(u))
        <4>1. PICK o : o = InitRows[l].owner
          OBVIOUS
        <4>2. ~ Released(l, o)
          BY <3>4, <4>1, ReleasedStays
        <4>3. rows[l] = InitRows[l]
          BY <3>2, <3>4, <4>1, <4>2 DEF GrantSurvives
        <4> QED
          BY <3>4, <4>3 DEF Data
      <3> QED
        BY <2>1, <3>1, <3>3, <3>4
    <2> QED
      BY <1>1, <2>1, StatusIsRead
  <1>2. CASE res[u].kind # "none"
    <2>1. req'[u] = req[u] /\ res'[u] = res[u]
      BY <1>2, DoneStays
    <2>2. Locks(u)' = Locks(u)
      BY <2>1 DEF Locks, LockOf
    <2>3. ASSUME NEW l \in Locks(u)
          PROVE  \/ InitRows[l] = Free \/ Released(l, InitRows[l].owner)'
                 \/ [lock |-> l, row |-> InitRows[l]] \in res[u].items
      <3>1. PICK o : o = InitRows[l].owner
        OBVIOUS
      <3>2. \/ InitRows[l] = Free \/ Released(l, o)
            \/ [lock |-> l, row |-> InitRows[l]] \in res[u].items
        BY <2>1, <3>1 DEF StatusOfAsked
      <3>3. \/ InitRows[l] = Free \/ Released(l, o)'
            \/ [lock |-> l, row |-> InitRows[l]] \in res[u].items
        BY <3>2, ReleasedStays
      <3> QED
        BY <3>1, <3>3
    <2> QED
      BY <2>1, <2>2, <2>3 DEF StatusOfAsked
  <1> QED
    BY <1>1, <1>2

SafeInv == TypeInv /\ TxnInv /\ GrantInv /\ RefusedLeavesNothing /\ StatusOfAsked

LEMMA SafeInit == Init => SafeInv
  <1> SUFFICES ASSUME Init
               PROVE  SafeInv
    OBVIOUS
  <1>1. TypeInv /\ TxnInv
    BY TypeInit, TxnInit
  <1>2. \A u \in Task : res[u].kind = "none" /\ ~ InTxn(u)
    BY DEF Init, Unanswered, Answer, InTxn
  <1>3. \A l \in Lock : rows[l] # Free => rows[l].by = Start
    BY RowAssumption DEF Init
  <1>4. GrantInv
    BY <1>2 DEF GrantInv, Covered, Told, GrantSurvives, Init
  <1>5. RefusedLeavesNothing /\ StatusOfAsked
    BY <1>2, <1>3, FreeAssumption DEF RefusedLeavesNothing, StatusOfAsked
  <1> QED
    BY <1>1, <1>4, <1>5 DEF SafeInv

LEMMA SafeNext == SafeInv /\ [Next]_vars => SafeInv'
  BY TypeNext, TxnNext, CoveredKept, ToldKept, GrantSurvivesKept, RefusedKept, StatusKept
  DEF SafeInv, GrantInv

\* A batch that is granted leaves every lock it names with its owner until its owner, or
\* someone by force, unlocks it: lock_resources and unlock_resources, whatever the batches
\* that run beside them.
THEOREM GrantsSurvive == Spec => []GrantSurvives
  <1>1. SafeInv => GrantSurvives
    BY DEF SafeInv, GrantInv
  <1> QED
    BY <1>1, SafeInit, SafeNext, PTL DEF Spec

\* A batch that is refused or rolled back leaves no row: lock_resources is all or nothing.
THEOREM RefusalsLeaveNothing == Spec => []RefusedLeavesNothing
  <1>1. SafeInv => RefusedLeavesNothing
    BY DEF SafeInv
  <1> QED
    BY <1>1, SafeInit, SafeNext, PTL DEF Spec

\* check_locks_status answers for what it was asked, and reports every lock among that
\* which was held all the while.
THEOREM StatusIsOfAsked == Spec => []StatusOfAsked
  <1>1. SafeInv => StatusOfAsked
    BY DEF SafeInv
  <1> QED
    BY <1>1, SafeInit, SafeNext, PTL DEF Spec

-----------------------------------------------------------------------------
(* No deadlock.                                                            *)

\* A transaction waits only for one that is at a later resource than its own.
Rank(t, u) ==
  \/ Turn(t).branch < Turn(u).branch
  \/ Turn(t).branch = Turn(u).branch /\ Turn(t).file < Turn(u).file

LEMMA BlockersAreAhead ==
  ASSUME TypeInv, TxnInv, NEW t \in Task, NEW u \in Blockers(t), NEW v \in Blockers(u)
  PROVE  Rank(t, u)
  <1>1. /\ pc[t] \in {"insert", "delete_row"} /\ pc[u] \in {"insert", "delete_row"}
        /\ u \in Task \ {t} /\ InTxn(u)
        /\ v \in Task \ {u} /\ InTxn(v)
        /\ Current(t) \in Held(u)
    BY DEF Blockers, InsertBlockers, DeleteBlockers, Held
  <1>2. /\ Turn(t) \in Resource /\ Turn(u) \in Resource /\ Turn(u) \in todo[u]
        /\ Batch(u)
    BY <1>1, CurrentTypes DEF LockLabels, UnlockLabels, TxnInv, Batches
  <1>3. UpTo(Current(t), Turn(u))
    BY <1>1, <1>2 DEF TxnInv, Sorted
  <1>4. Current(t).branch = Turn(t).branch /\ Current(t).file = Turn(t).file
    BY DEF Current, LockOf
  <1>5. Current(u) \notin Held(u)
    <2>1. CASE pc[u] = "insert"
      BY <1>1, <2>1 DEF Blockers, InsertBlockers, Held, TxnInv, Exclusive
    <2>2. CASE pc[u] = "delete_row"
      <3>1. inserted[u] = {}
        BY <1>1, <1>2, <2>2, RequestShapes DEF Batch, TypeInv, Control, UnlockLabels
      <3> QED
        BY <1>2, <2>2, <3>1 DEF Batch, Held, InsertedLocks
    <2> QED
      BY <1>1, <2>1, <2>2
  <1>6. Current(t).repo = Current(u).repo
    BY <1>1, <1>2 DEF Current, Held, InsertedLocks, Batch, Locks, LockOf
  <1>7. ~ (Turn(t).branch = Turn(u).branch /\ Turn(t).file = Turn(u).file)
    BY <1>1, <1>5, <1>6 DEF Current, LockOf
  <1> QED
    BY <1>2, <1>3, <1>4, <1>7, ResourceFields DEF UpTo, Rank

\* In a finite set of transactions one is furthest on.
LEMMA FurthestOn ==
  ASSUME NEW S \in SUBSET Task, IsFiniteSet(S), S # {}, \A t \in S : Turn(t) \in Resource
  PROVE  \E t \in S : \A u \in S : ~ Rank(t, u)
  <1> DEFINE Ahead(t) == {u \in S : Rank(t, u)}
             Counts == {Cardinality(Ahead(t)) : t \in S}
  <1>1. \A t \in S : IsFiniteSet(Ahead(t)) /\ Cardinality(Ahead(t)) \in Nat
    BY FS_Subset, FS_CardinalityType
  <1>2. PICK n \in Counts : \A m \in Counts : n <= m
    <2>1. Counts \subseteq Nat /\ Counts # {}
      BY <1>1
    <2> QED
      BY <2>1, LeastNumber
  <1>3. PICK t \in S : n = Cardinality(Ahead(t))
    OBVIOUS
  <1>4. ASSUME NEW u \in S, Rank(t, u)
        PROVE  FALSE
    <2>1. \A x, y, z \in S : Rank(x, y) /\ Rank(y, z) => Rank(x, z)
      BY ResourceFields DEF Rank
    <2>2. ~ Rank(u, u)
      BY ResourceFields DEF Rank
    <2>3. Ahead(u) \in SUBSET Ahead(t) /\ u \in Ahead(t) /\ u \notin Ahead(u)
      BY <1>4, <2>1, <2>2
    <2>4. /\ IsFiniteSet(Ahead(t))
          /\ Cardinality(Ahead(t)) \in Nat /\ Cardinality(Ahead(u)) \in Nat
      BY <1>1, <1>4
    <2>5. Cardinality(Ahead(t)) <= Cardinality(Ahead(u))
      BY <1>2, <1>3, <1>4
    <2> HIDE DEF Ahead, Counts
    <2>6. /\ Cardinality(Ahead(u)) <= Cardinality(Ahead(t))
          /\ Cardinality(Ahead(t)) = Cardinality(Ahead(u)) => Ahead(t) = Ahead(u)
      BY <2>3, <2>4, FS_Subset
    <2> QED
      BY <2>3, <2>4, <2>5, <2>6
  <1> QED
    BY <1>4

\* Transactions that have begun are finitely many.
LEMMA ActiveNext ==
  ASSUME TypeInv, FinitelyActive, [Next]_vars
  PROVE  FinitelyActive'
  <1>1. ASSUME NEW t \in Task,
               \/ Begin(t) \/ Takes(t) \/ Drops(t) \/ Passes(t) \/ Looks(t)
               \/ Ends(t) \/ Commit(t)
        PROVE  Active' \in SUBSET (Active \cup {t})
    BY <1>1, StepAlone DEF Active, Alone, Still
  <1>2. CASE Crash \/ UNCHANGED vars
    BY <1>2 DEF Active, Crash, Running, vars, FinitelyActive
  <1> QED
    BY <1>1, <1>2, NextKinds, FS_AddElement, FS_Subset DEF FinitelyActive

LEMMA DeadlockFree == TypeInv /\ TxnInv /\ FinitelyActive => NoDeadlock
  <1> SUFFICES ASSUME TypeInv, TxnInv, FinitelyActive,
                      NEW S \in (SUBSET Task) \ {{}}, \A t \in S : Blockers(t) \cap S # {}
               PROVE  FALSE
    BY DEF NoDeadlock
  <1>1. \A t \in S : pc[t] \in {"insert", "delete_row"}
    BY DEF Blockers
  <1>2. S \in SUBSET Active
    BY <1>1 DEF Active
  <1>3. S \in SUBSET Task /\ S # {} /\ IsFiniteSet(S)
    BY <1>2, FS_Subset DEF FinitelyActive
  <1>4. \A t \in S : Turn(t) \in Resource
    BY <1>1, CurrentTypes DEF LockLabels, UnlockLabels
  <1>5. PICK t \in S : \A u \in S : ~ Rank(t, u)
    BY <1>3, <1>4, FurthestOn
  <1>6. PICK u \in S : u \in Blockers(t)
    OBVIOUS
  <1>7. PICK v \in S : v \in Blockers(u)
    OBVIOUS
  <1> QED
    BY <1>5, <1>6, <1>7, BlockersAreAhead

\* However many requests run, no transactions all wait for one another: lock_resources and
\* unlock_resources both take their resources in one order.
THEOREM NeverDeadlocked == Spec => []NoDeadlock
  <1>1. Init => TypeInv /\ TxnInv /\ FinitelyActive
    BY TypeInit, TxnInit, FS_EmptySet DEF Init, FinitelyActive, Active
  <1>2. TypeInv /\ TxnInv /\ FinitelyActive /\ [Next]_vars =>
          (TypeInv /\ TxnInv /\ FinitelyActive)'
    BY TypeNext, TxnNext, ActiveNext
  <1> QED
    BY <1>1, <1>2, DeadlockFree, PTL DEF Spec
=============================================================================
