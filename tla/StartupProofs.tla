---------------------------- MODULE StartupProofs ----------------------------
(* Proofs about Startup, for any servers, pool sizes and number of faults. *)
EXTENDS Startup, TLAPS

(* What is used of the script: positions, and which belong together. *)

LEMMA ScriptLength == DOMAIN Script = 1..9 /\ Len(Script) = 9
  BY DEF Script, Stmt

LEMMA ScriptTables ==
  \A i, j \in DOMAIN Script :
    Script[i].on = Script[j].rel => Script[i].batch = Script[j].batch
  BY ScriptLength DEF Script, Stmt

LEMMA ScriptBatches ==
  /\ \A i \in DOMAIN Script : Script[i].batch \in 1..4
  /\ \A i, j \in DOMAIN Script : i <= j => Script[i].batch <= Script[j].batch
  BY ScriptLength DEF Script, Stmt

LEMMA BatchEnds ==
  /\ \A i \in DOMAIN Script :
       EndsBatch(i) => \A j \in DOMAIN Script : Script[j].batch = Script[i].batch => j <= i
  /\ \A i \in DOMAIN Script :
       EndsBatch(i) /\ i # 9 => i + 1 \in DOMAIN Script /\ Script[i + 1].batch # Script[i].batch
  /\ \A i \in DOMAIN Script :
       ~EndsBatch(i) => i + 1 \in DOMAIN Script /\ Script[i + 1].batch = Script[i].batch
  BY ScriptLength DEF Script, Stmt, EndsBatch

LEMMA ScriptRelations ==
  /\ \A i \in DOMAIN Script : Script[i].rel \in Relation
  /\ "fragments" \in Relation /\ "fragments_meta" \in Relation
  <1>1. \A i \in DOMAIN Script : Script[i].rel \in Relation
    BY DEF Relation
  <1>2. Script[1].rel = "fragments" /\ Script[4].rel = "fragments_meta"
    BY DEF Script, Stmt
  <1> QED
    BY <1>1, <1>2, ScriptLength

-----------------------------------------------------------------------------
(* The inductive invariant.                                                *)

\* The connections a start-up has opened: one for each store it has reached.
Opened(x) ==
  IF state[x] = "connect" THEN IF stmt[x] <= 5 THEN 1 ELSE 2
  ELSE IF stmt[x] <= 4 THEN 1 ELSE IF stmt[x] <= 5 THEN 2 ELSE 3

\* Who may be at work: the process that is starting, and what its predecessors left.
Lives ==
  /\ \A s \in Server : life[s] <= faults + 1
  /\ \A x \in Session :
       state[x] # "closed" =>
         /\ x[2] <= life[x[1]]
         /\ Current(x) => phase[x[1]] = "starting" /\ open[x[1]] <= Opened(x)
         /\ state[x] = "connect" => Current(x)

\* What statement i has created is there, or will be with the batch of x.
Made(x, i) ==
  Script[i].rel \in catalog \cup (IF Script[i].batch = Script[stmt[x]].batch THEN mine[x] ELSE {})

\* What a session has behind it.
Behind(x) ==
  /\ state[x] \in {"closed", "connect"} => mine[x] = {}
  /\ state[x] = "connect" => stmt[x] \in {5, 6}
  /\ state[x] = "commit" => EndsBatch(stmt[x]) /\ Made(x, stmt[x])
  /\ state[x] # "closed" =>
       /\ \A r \in mine[x] :
            \E i \in DOMAIN Script : Script[i].rel = r /\ Script[i].batch = Script[stmt[x]].batch
       /\ \A i \in DOMAIN Script : i < stmt[x] => Made(x, i)

Progress == \A x \in Session : Behind(x)

StartupInv == TypeOK /\ Lives /\ Progress /\ TablesComplete /\ ServingHasSchema

-----------------------------------------------------------------------------
(* What the steps of a session do to what it has behind it.                *)

\* A session that does not move keeps what it has behind it: the catalog only grows.
LEMMA BehindStays ==
  ASSUME NEW y \in Session, Behind(y), catalog \subseteq catalog',
         state'[y] = state[y], stmt'[y] = stmt[y], mine'[y] = mine[y]
  PROVE  Behind(y)'
  BY DEF Behind, Made

LEMMA ClosedBehind ==
  ASSUME NEW y \in Session, state'[y] = "closed", mine'[y] = {}
  PROVE  Behind(y)'
  BY DEF Behind

LEMMA AdvanceEffect ==
  ASSUME TypeOK, NEW x \in Session, Advance(x)
  PROVE  /\ stmt' \in [Session -> DOMAIN Script]
         /\ state' \in [Session -> {"closed", "connect", "check", "create", "commit"}]
         /\ \A y \in Session \ {x} : state'[y] = state[y] /\ stmt'[y] = stmt[y]
         /\ EndsBatch(stmt[x]) => state'[x] = "commit" /\ stmt'[x] = stmt[x]
         /\ ~EndsBatch(stmt[x]) => state'[x] = "check" /\ stmt'[x] = stmt[x] + 1
  <1>1. CASE EndsBatch(stmt[x])
    BY <1>1 DEF Advance, TypeOK
  <1>2. CASE ~EndsBatch(stmt[x])
    <2>1. stmt[x] + 1 \in DOMAIN Script
      BY <1>2, BatchEnds DEF TypeOK
    <2> QED
      BY <1>2, <2>1 DEF Advance, TypeOK
  <1> QED
    BY <1>1, <1>2

\* A statement that is done is behind the session, whether it was skipped or executed.
LEMMA AdvanceBehind ==
  ASSUME TypeOK, NEW x \in Session, Advance(x), Behind(x), state[x] \in {"check", "create"},
         catalog' = catalog, mine[x] \subseteq mine'[x],
         mine'[x] \subseteq mine[x] \cup {Script[stmt[x]].rel},
         Script[stmt[x]].rel \in catalog \cup mine'[x]
  PROVE  Behind(x)'
  <1> DEFINE i == stmt[x]
             b == Script[i].batch
  <1>1. i \in DOMAIN Script
    BY DEF TypeOK
  <1>2. /\ \A r \in mine[x] : \E j \in DOMAIN Script : Script[j].rel = r /\ Script[j].batch = b
        /\ \A j \in DOMAIN Script :
             j < i => Script[j].rel \in catalog \cup (IF Script[j].batch = b THEN mine[x] ELSE {})
    BY DEF Behind, Made
  <1>3. /\ EndsBatch(i) => state'[x] = "commit" /\ stmt'[x] = i
        /\ ~EndsBatch(i) => state'[x] = "check" /\ stmt'[x] = i + 1
    BY AdvanceEffect
  <1>4. Script[stmt'[x]].batch = b
    BY <1>1, <1>3, BatchEnds
  <1>5. \A r \in mine'[x] : \E j \in DOMAIN Script : Script[j].rel = r /\ Script[j].batch = b
    BY <1>1, <1>2
  <1>6. \A j \in DOMAIN Script :
          j <= i => Script[j].rel \in catalog \cup (IF Script[j].batch = b THEN mine'[x] ELSE {})
    <2> SUFFICES ASSUME NEW j \in DOMAIN Script, j <= i
                 PROVE  Script[j].rel \in catalog
                                          \cup (IF Script[j].batch = b THEN mine'[x] ELSE {})
      OBVIOUS
    <2>1. j < i \/ j = i
      BY <1>1, ScriptLength
    <2> QED
      BY <1>2, <2>1
  <1>7. \A j \in DOMAIN Script : j < stmt'[x] => j <= i
    BY <1>1, <1>3, ScriptLength
  <1> HIDE DEF i, b
  <1>8. \A j \in DOMAIN Script : j <= i => Made(x, j)'
    BY <1>4, <1>6 DEF Made
  <1>9. state'[x] = "commit" => EndsBatch(stmt'[x]) /\ stmt'[x] = i
    BY <1>3
  <1>10. state'[x] \in {"commit", "check"}
    BY <1>3
  <1>11. i <= i
    BY <1>1, ScriptLength
  <1> QED
    BY <1>1, <1>4, <1>5, <1>7, <1>8, <1>9, <1>10, <1>11 DEF Behind, EndsBatch

\* What a committed batch leaves: everything up to its last statement exists, and of each
\* table it has created every index.
LEMMA CommitEffect ==
  ASSUME TypeOK, NEW x \in Session, Commit(x), Behind(x), TablesComplete
  PROVE  /\ \A j \in DOMAIN Script : j <= stmt[x] => Script[j].rel \in catalog'
         /\ TablesComplete'
         /\ catalog' \subseteq Relation
  <1> DEFINE i == stmt[x]
             b == Script[i].batch
  <1>1. i \in DOMAIN Script /\ catalog' = catalog \cup mine[x] /\ EndsBatch(i)
    BY DEF TypeOK, Commit, Behind
  <1>2. /\ \A r \in mine[x] : \E j \in DOMAIN Script : Script[j].rel = r /\ Script[j].batch = b
        /\ \A j \in DOMAIN Script : j < i => Script[j].rel \in catalog \cup mine[x]
        /\ Script[i].rel \in catalog \cup mine[x]
    BY DEF Behind, Made, Commit
  <1>3. \A j \in DOMAIN Script : j <= i => Script[j].rel \in catalog'
    <2> SUFFICES ASSUME NEW j \in DOMAIN Script, j <= i PROVE Script[j].rel \in catalog'
      OBVIOUS
    <2>1. j < i \/ j = i
      BY <1>1, ScriptLength
    <2> QED
      BY <1>1, <1>2, <2>1
  <1>4. ASSUME NEW j \in DOMAIN Script, Script[j].on \in catalog'
        PROVE  Script[j].rel \in catalog'
    <2>1. CASE Script[j].on \in catalog
      BY <1>1, <1>4, <2>1 DEF TablesComplete
    <2>2. CASE Script[j].on \in mine[x]
      <3>1. PICK k \in DOMAIN Script : Script[k].rel = Script[j].on /\ Script[k].batch = b
        BY <1>2, <2>2
      <3>2. Script[j].batch = b
        BY <3>1, <1>4, ScriptTables
      <3>3. j <= i
        BY <1>1, <1>4, <3>2, BatchEnds
      <3> QED
        BY <1>3, <1>4, <3>3
    <2> QED
      BY <1>1, <1>4, <2>1, <2>2
  <1>5. mine[x] \subseteq Relation
    BY DEF TypeOK
  <1> QED
    BY <1>1, <1>3, <1>4, <1>5 DEF TablesComplete, TypeOK

-----------------------------------------------------------------------------
(* Every step keeps the invariant: a lemma for each action.                *)

LEMMA Bounds == Life = 1..(MaxFaults + 1) /\ Cap \in Nat /\ Cap >= 3 /\ MaxFaults \in Nat
  BY StartupAssumption DEF Life, Cap, Stores

LEMMA InitInv == Init => StartupInv
  <1> SUFFICES ASSUME Init PROVE StartupInv
    OBVIOUS
  <1>1. TypeOK
    BY Bounds, ScriptLength DEF Init, TypeOK, Session
  <1>2. Lives
    BY DEF Init, Lives, Session
  <1>3. Progress
    BY DEF Init, Progress, Behind
  <1>4. TablesComplete /\ ServingHasSchema
    BY DEF Init, TablesComplete, ServingHasSchema
  <1> QED
    BY <1>1, <1>2, <1>3, <1>4 DEF StartupInv

\* The process of a session that is not closed is at its start.
LEMMA StartingSession ==
  ASSUME StartupInv, NEW x \in Session, state[x] # "closed"
  PROVE  /\ x[1] \in Server /\ x[2] \in Life
         /\ Current(x) => phase[x[1]] = "starting"
  BY DEF StartupInv, Lives, Session

\* An error closes the session and ends its process.
LEMMA ExitInv ==
  ASSUME StartupInv, NEW x \in Session, state[x] # "closed", Exit(x),
         UNCHANGED <<catalog, life, stmt, writer, faults>>
  PROVE  StartupInv'
  <1> USE DEF StartupInv
  <1>0. x[1] \in Server /\ x[2] \in Life /\ 0 \in 0..Cap
    BY StartingSession, Bounds
  <1>1. /\ phase' \in [Server -> {"down", "starting", "serving"}]
        /\ open' \in [Server -> 0..Cap]
        /\ \A s \in Server : \/ phase'[s] = phase[s] /\ open'[s] = open[s]
                             \/ phase'[s] = "down" /\ s = x[1] /\ Current(x)
    BY <1>0 DEF Exit, TypeOK
  <1>2. /\ state' \in [Session -> {"closed", "connect", "check", "create", "commit"}]
        /\ mine' \in [Session -> SUBSET Relation]
        /\ state'[x] = "closed" /\ mine'[x] = {}
        /\ \A y \in Session \ {x} : state'[y] = state[y] /\ mine'[y] = mine[y]
    BY DEF Exit, TypeOK
  <1>3. TypeOK'
    BY <1>1, <1>2 DEF TypeOK
  <1>4. \A y \in Session : Current(y) /\ y[1] = x[1] /\ Current(x) => y = x
    BY DEF Current, Session
  <1>5. Lives'
    BY <1>0, <1>1, <1>2, <1>4 DEF Lives, Opened, Current, Session
  <1>6. Progress'
    BY <1>2, BehindStays, ClosedBehind DEF Progress
  <1>7. TablesComplete' /\ ServingHasSchema'
    BY <1>1 DEF TablesComplete, ServingHasSchema
  <1> QED
    BY <1>3, <1>5, <1>6, <1>7

LEMMA StartInv == ASSUME StartupInv, NEW s \in Server, Start(s) PROVE StartupInv'
  <1> USE DEF StartupInv
  <1>a. PICK x \in Session : x = <<s, life[s]>>
    BY DEF TypeOK, Session
  <1>0. x[1] = s /\ x[2] = life[s] /\ Current(x) /\ 1 \in DOMAIN Script
    BY <1>a, ScriptLength DEF Current
  <1>1. state[x] = "closed" /\ mine[x] = {}
    BY <1>0 DEF Start, Lives, Progress, Behind
  <1>2. /\ phase' = [phase EXCEPT ![s] = "starting"]
        /\ open' = [open EXCEPT ![s] = 1]
        /\ state' = [state EXCEPT ![x] = "check"]
        /\ stmt' = [stmt EXCEPT ![x] = 1]
        /\ UNCHANGED <<catalog, life, mine, writer, faults>>
    BY <1>a DEF Start
  <1>3. TypeOK'
    <2>1. 1 \in 0..Cap
      BY Bounds
    <2> QED
      BY <1>0, <1>2, <2>1 DEF TypeOK
  <1>4. \A y \in Session : y # x => y[1] # s \/ ~Current(y)
    BY <1>a DEF Session, Current
  <1>5. Lives'
    <2>1. \A t \in Server : life'[t] <= faults' + 1
      BY <1>2 DEF Lives
    <2>2. ASSUME NEW y \in Session, y # x, state'[y] # "closed"
          PROVE  /\ y[2] <= life'[y[1]]
                 /\ Current(y)' => phase'[y[1]] = "starting" /\ open'[y[1]] <= Opened(y)'
                 /\ state'[y] = "connect" => Current(y)'
      <3>1. state[y] = state'[y] /\ stmt[y] = stmt'[y] /\ (Current(y)' <=> Current(y))
        BY <1>2, <2>2 DEF TypeOK, Current
      <3>2. Current(y) => phase'[y[1]] = phase[y[1]] /\ open'[y[1]] = open[y[1]]
        BY <1>2, <1>4, <2>2 DEF TypeOK, Session
      <3> QED
        BY <1>2, <2>2, <3>1, <3>2 DEF Lives, Opened
    <2>3. /\ x[2] <= life'[x[1]]
          /\ Current(x)' => phase'[x[1]] = "starting" /\ open'[x[1]] <= Opened(x)'
          /\ state'[x] = "connect" => Current(x)'
      <3>1. life[s] \in Nat
        BY Bounds DEF TypeOK
      <3> QED
        BY <1>0, <1>2, <3>1 DEF TypeOK, Opened
    <2> QED
      BY <2>1, <2>2, <2>3 DEF Lives
  <1>6. Progress'
    <2>1. ASSUME NEW y \in Session, y # x PROVE Behind(y)'
      BY <1>2, <2>1, BehindStays DEF Progress, TypeOK
    <2>2. Behind(x)'
      <3>1. state'[x] = "check" /\ stmt'[x] = 1 /\ mine'[x] = {}
        BY <1>0, <1>1, <1>2 DEF TypeOK
      <3>2. \A j \in DOMAIN Script : ~(j < 1)
        BY ScriptLength
      <3> QED
        BY <3>1, <3>2 DEF Behind
    <2> QED
      BY <2>1, <2>2 DEF Progress
  <1>7. TablesComplete' /\ ServingHasSchema'
    BY <1>2 DEF TablesComplete, ServingHasSchema, TypeOK
  <1> QED
    BY <1>3, <1>5, <1>6, <1>7

\* A step of one session that changes nothing but its place and what it has made.
LEMMA LivesStay ==
  ASSUME StartupInv, NEW x \in Session, state[x] # "closed",
         UNCHANGED <<phase, life, open, faults>>,
         \A y \in Session \ {x} : state'[y] = state[y] /\ stmt'[y] = stmt[y],
         state'[x] # "connect", Opened(x) <= Opened(x)'
  PROVE  Lives'
  <1> USE DEF StartupInv
  <1>1. \A s \in Server : life'[s] <= faults' + 1
    BY DEF Lives
  <1>2. ASSUME NEW y \in Session, y # x, state'[y] # "closed"
        PROVE  /\ y[2] <= life'[y[1]]
               /\ Current(y)' => phase'[y[1]] = "starting" /\ open'[y[1]] <= Opened(y)'
               /\ state'[y] = "connect" => Current(y)'
    BY <1>2 DEF Lives, Opened, Current
  <1>3. /\ x[2] <= life'[x[1]]
        /\ Current(x)' => phase'[x[1]] = "starting" /\ open'[x[1]] <= Opened(x)'
    <2>1. /\ x[2] <= life[x[1]]
          /\ Current(x) => phase[x[1]] = "starting" /\ open[x[1]] <= Opened(x)
      BY DEF Lives
    <2>2. open[x[1]] \in Nat /\ Opened(x) \in Nat /\ Opened(x)' \in Nat
      BY Bounds DEF TypeOK, Opened, Session
    <2>3. Current(x)' <=> Current(x)
      BY DEF Current
    <2> QED
      BY <2>1, <2>2, <2>3
  <1> QED
    BY <1>1, <1>2, <1>3 DEF Lives

LEMMA ConnectInv == ASSUME StartupInv, NEW x \in Session, Connect(x) PROVE StartupInv'
  <1> USE DEF StartupInv
  <1>1. CASE Exit(x)
    BY <1>1, ExitInv DEF Connect
  <1>2. CASE /\ open' = [open EXCEPT ![x[1]] = @ + 1]
             /\ state' = [state EXCEPT ![x] = "check"]
             /\ UNCHANGED <<mine, phase>>
    <2>1. /\ x[1] \in Server /\ Current(x) /\ phase[x[1]] = "starting"
          /\ open[x[1]] <= Opened(x) /\ stmt[x] \in {5, 6} /\ mine[x] = {}
          /\ state[x] = "connect"
          /\ UNCHANGED <<catalog, life, stmt, writer, faults>>
      BY DEF Connect, Lives, Progress, Behind, Session
    <2>2. open[x[1]] \in Nat /\ open[x[1]] + 1 \in 0..Cap
      BY <2>1, Bounds DEF TypeOK, Opened
    <2>3. TypeOK'
      BY <1>2, <2>1, <2>2 DEF TypeOK
    <2>4. Lives'
      <3>1. \A s \in Server : life'[s] <= faults' + 1
        BY <2>1 DEF Lives
      <3>2. ASSUME NEW y \in Session, y # x, state'[y] # "closed"
            PROVE  /\ y[2] <= life'[y[1]]
                   /\ Current(y)' => phase'[y[1]] = "starting" /\ open'[y[1]] <= Opened(y)'
                   /\ state'[y] = "connect" => Current(y)'
        <4>1. state[y] = state'[y] /\ stmt[y] = stmt'[y] /\ (Current(y)' <=> Current(y))
          BY <1>2, <2>1, <3>2 DEF TypeOK, Current
        <4>2. Current(y) => open'[y[1]] = open[y[1]]
          BY <1>2, <2>1, <3>2 DEF TypeOK, Session, Current
        <4> QED
          BY <1>2, <2>1, <3>2, <4>1, <4>2 DEF Lives, Opened
      <3>3. /\ x[2] <= life'[x[1]]
            /\ phase'[x[1]] = "starting" /\ open'[x[1]] <= Opened(x)'
            /\ state'[x] # "connect"
        <4>1. open'[x[1]] = open[x[1]] + 1 /\ state'[x] = "check"
          BY <1>2, <2>1 DEF TypeOK
        <4> QED
          BY <1>2, <2>1, <2>2, <4>1 DEF Lives, Opened
      <3> QED
        BY <3>1, <3>2, <3>3 DEF Lives
    <2>5. Progress'
      <3>1. ASSUME NEW y \in Session, y # x PROVE Behind(y)'
        BY <1>2, <2>1, <3>1, BehindStays DEF Progress, TypeOK
      <3>2. Behind(x)'
        BY <1>2, <2>1 DEF Progress, Behind, Made, TypeOK
      <3> QED
        BY <3>1, <3>2 DEF Progress
    <2>6. TablesComplete' /\ ServingHasSchema'
      BY <1>2, <2>1 DEF TablesComplete, ServingHasSchema
    <2> QED
      BY <2>3, <2>4, <2>5, <2>6
  <1> QED
    BY <1>1, <1>2 DEF Connect

LEMMA GrowInv == ASSUME StartupInv, NEW s \in Server, Grow(s) PROVE StartupInv'
  <1> USE DEF StartupInv
  <1>1. /\ open' = [open EXCEPT ![s] = @ + 1]
        /\ UNCHANGED <<catalog, phase, life, state, stmt, mine, writer, faults>>
        /\ phase[s] = "serving"
    BY DEF Grow
  <1>2. TypeOK'
    <2>1. open[s] + 1 \in 0..Cap
      BY Bounds DEF TypeOK, Grow
    <2> QED
      BY <1>1, <2>1 DEF TypeOK
  <1>3. Lives'
    <2>1. ASSUME NEW y \in Session, state[y] # "closed", Current(y)
          PROVE  open'[y[1]] = open[y[1]]
      BY <1>1, <2>1 DEF Lives, TypeOK, Session
    <2> QED
      BY <1>1, <2>1 DEF Lives, Opened, Current
  <1>4. Progress'
    BY <1>1, BehindStays DEF Progress
  <1>5. TablesComplete' /\ ServingHasSchema'
    BY <1>1 DEF TablesComplete, ServingHasSchema
  <1> QED
    BY <1>2, <1>3, <1>4, <1>5

\* A statement that is done, skipped or executed.
LEMMA AdvanceInv ==
  ASSUME StartupInv, NEW x \in Session, Advance(x), state[x] \in {"check", "create"},
         mine' \in [Session -> SUBSET Relation],
         \A y \in Session \ {x} : mine'[y] = mine[y],
         mine[x] \subseteq mine'[x], mine'[x] \subseteq mine[x] \cup {Script[stmt[x]].rel},
         Script[stmt[x]].rel \in catalog \cup mine'[x],
         UNCHANGED <<catalog, phase, life, open, writer, faults>>
  PROVE  StartupInv'
  <1> USE DEF StartupInv
  <1>1. TypeOK'
    BY AdvanceEffect DEF TypeOK
  <1>2. Lives'
    <2>1. Opened(x) <= Opened(x)' /\ state'[x] # "connect" /\ state[x] # "closed"
      <3>1. stmt[x] \in 1..9
        BY ScriptLength DEF TypeOK
      <3>2. stmt'[x] \in {stmt[x], stmt[x] + 1} /\ state'[x] # "connect"
        BY AdvanceEffect
      <3> QED
        BY <3>1, <3>2 DEF Opened
    <2>2. \A y \in Session \ {x} : state'[y] = state[y] /\ stmt'[y] = stmt[y]
      BY AdvanceEffect
    <2> QED
      BY <2>1, <2>2, LivesStay
  <1>3. Progress'
    <2>1. ASSUME NEW y \in Session, y # x PROVE Behind(y)'
      BY <2>1, AdvanceEffect, BehindStays DEF Progress
    <2>2. Behind(x)'
      BY AdvanceBehind DEF Progress
    <2> QED
      BY <2>1, <2>2 DEF Progress
  <1>4. TablesComplete' /\ ServingHasSchema'
    BY DEF TablesComplete, ServingHasSchema
  <1> QED
    BY <1>1, <1>2, <1>3, <1>4

LEMMA CheckInv == ASSUME StartupInv, NEW x \in Session, Check(x) PROVE StartupInv'
  <1> USE DEF StartupInv
  <1>1. /\ state[x] = "check"
        /\ UNCHANGED <<catalog, phase, life, open, mine, writer, faults>>
    BY DEF Check
  <1>2. CASE Script[stmt[x]].rel \in catalog /\ Advance(x)
    <2>1. mine' \in [Session -> SUBSET Relation]
      BY <1>1 DEF TypeOK
    <2> QED
      BY <1>1, <1>2, <2>1, AdvanceInv
  <1>3. CASE state' = [state EXCEPT ![x] = "create"] /\ UNCHANGED stmt
    <2>1. TypeOK'
      BY <1>1, <1>3 DEF TypeOK
    <2>2. /\ state'[x] = "create" /\ stmt'[x] = stmt[x]
          /\ \A y \in Session \ {x} : state'[y] = state[y] /\ stmt'[y] = stmt[y]
      BY <1>3 DEF TypeOK
    <2>3. Lives'
      <3>1. Opened(x) <= Opened(x)'
        BY <1>1, <2>2 DEF Opened
      <3> QED
        BY <1>1, <2>2, <3>1, LivesStay
    <2>4. Progress'
      <3>1. ASSUME NEW y \in Session, y # x PROVE Behind(y)'
        BY <1>1, <2>2, <3>1, BehindStays DEF Progress
      <3>2. Behind(x)'
        BY <1>1, <2>2 DEF Progress, Behind, Made
      <3> QED
        BY <3>1, <3>2 DEF Progress
    <2>5. TablesComplete' /\ ServingHasSchema'
      BY <1>1 DEF TablesComplete, ServingHasSchema
    <2> QED
      BY <2>1, <2>3, <2>4, <2>5
  <1> QED
    BY <1>2, <1>3 DEF Check

LEMMA CreateInv == ASSUME StartupInv, NEW x \in Session, Create(x) PROVE StartupInv'
  <1> USE DEF StartupInv
  <1>1. state[x] = "create" /\ UNCHANGED <<catalog, life, writer, faults>>
    BY DEF Create
  <1>2. CASE Exit(x) /\ UNCHANGED stmt
    BY <1>1, <1>2, ExitInv
  <1>3. CASE /\ mine' = [mine EXCEPT ![x] = @ \cup {Script[stmt[x]].rel}]
             /\ Advance(x)
             /\ UNCHANGED <<phase, open>>
    <2>1. Script[stmt[x]].rel \in Relation
      BY ScriptRelations DEF TypeOK
    <2>2. /\ mine' \in [Session -> SUBSET Relation]
          /\ mine'[x] = mine[x] \cup {Script[stmt[x]].rel}
          /\ \A y \in Session \ {x} : mine'[y] = mine[y]
      BY <1>3, <2>1 DEF TypeOK
    <2> QED
      BY <1>1, <1>3, <2>2, AdvanceInv
  <1> QED
    BY <1>2, <1>3 DEF Create

LEMMA CommitInv == ASSUME StartupInv, NEW x \in Session, Commit(x) PROVE StartupInv'
  <1> USE DEF StartupInv
  <1> DEFINE last == stmt[x] = 9
             next == IF ~Current(x) \/ last THEN "closed"
                     ELSE IF EndsStore(stmt[x]) THEN "connect" ELSE "check"
  <1>1. /\ state[x] = "commit" /\ stmt[x] \in 1..9 /\ EndsBatch(stmt[x])
        /\ catalog' = catalog \cup mine[x]
        /\ mine' = [mine EXCEPT ![x] = {}]
        /\ state' = [state EXCEPT ![x] = next]
        /\ stmt' = [stmt EXCEPT ![x] = IF last THEN @ ELSE @ + 1]
        /\ phase' = IF Current(x) /\ last THEN [phase EXCEPT ![x[1]] = "serving"] ELSE phase
        /\ UNCHANGED <<life, open, writer, faults>>
    BY ScriptLength DEF Commit, TypeOK, Progress, Behind
  <1>2. /\ \A j \in DOMAIN Script : j <= stmt[x] => Script[j].rel \in catalog'
        /\ TablesComplete' /\ catalog' \subseteq Relation
    BY CommitEffect DEF Progress
  <1>3. /\ state'[x] = next /\ mine'[x] = {}
        /\ stmt'[x] = IF last THEN stmt[x] ELSE stmt[x] + 1
        /\ \A y \in Session \ {x} :
             state'[y] = state[y] /\ stmt'[y] = stmt[y] /\ mine'[y] = mine[y]
    BY <1>1 DEF TypeOK
  <1>4. next \in {"closed", "connect", "check"}
    OBVIOUS
  <1>5. x[1] \in Server /\ (Current(x) => phase[x[1]] = "starting" /\ open[x[1]] <= Opened(x))
    BY <1>1 DEF Lives, Session
  \* A session goes on to connect only after the second or the third batch.
  <1>6. next = "connect" => Current(x) /\ stmt'[x] \in {5, 6}
    <2>1. \A i \in 1..9 : EndsStore(i) => i \in {4, 5, 9}
      BY ScriptLength DEF EndsStore, EndsBatch, Script, Stmt
    <2> QED
      BY <1>1, <1>3, <2>1
  <1>7. next = "check" => Current(x) /\ stmt'[x] = 4
    <2>1. \A i \in 1..9 : EndsBatch(i) /\ ~EndsStore(i) => i = 3
      BY ScriptLength DEF EndsStore, EndsBatch, Script, Stmt
    <2> QED
      BY <1>1, <1>3, <2>1
  <1> HIDE DEF next
  <1>8. TypeOK'
    <2>1. stmt' \in [Session -> DOMAIN Script]
      BY <1>1, ScriptLength DEF TypeOK
    <2>2. state' \in [Session -> {"closed", "connect", "check", "create", "commit"}]
      BY <1>1, <1>4 DEF TypeOK
    <2>3. phase' \in [Server -> {"down", "starting", "serving"}]
      BY <1>1 DEF TypeOK
    <2>4. mine' \in [Session -> SUBSET Relation]
      BY <1>1 DEF TypeOK
    <2> QED
      BY <1>1, <1>2, <2>1, <2>2, <2>3, <2>4 DEF TypeOK
  <1>9. Lives'
    <2>1. \A s \in Server : life'[s] <= faults' + 1
      BY <1>1 DEF Lives
    <2>2. ASSUME NEW y \in Session, y # x, state'[y] # "closed"
          PROVE  /\ y[2] <= life'[y[1]]
                 /\ Current(y)' => phase'[y[1]] = "starting" /\ open'[y[1]] <= Opened(y)'
                 /\ state'[y] = "connect" => Current(y)'
      <3>1. state'[y] = state[y] /\ stmt'[y] = stmt[y] /\ (Current(y)' <=> Current(y))
        BY <1>1, <1>3, <2>2 DEF Current
      <3>2. Current(y) /\ Current(x) => y[1] # x[1]
        BY <2>2 DEF Current, Session
      <3>3. Current(y) => phase'[y[1]] = phase[y[1]]
        BY <1>1, <3>2 DEF TypeOK
      <3> QED
        BY <1>1, <2>2, <3>1, <3>3 DEF Lives, Opened
    <2>3. ASSUME state'[x] # "closed"
          PROVE  /\ x[2] <= life'[x[1]]
                 /\ phase'[x[1]] = "starting" /\ open'[x[1]] <= Opened(x)'
                 /\ state'[x] = "connect" => Current(x)'
      <3>1. Current(x) /\ ~last /\ (Current(x)' <=> Current(x))
        BY <1>1, <1>3, <2>3 DEF next, Current
      <3>2. phase'[x[1]] = "starting" /\ open'[x[1]] = open[x[1]] /\ open[x[1]] <= Opened(x)
        BY <1>1, <1>5, <3>1
      <3>3. Opened(x) <= Opened(x)'
        BY <1>1, <1>3, <1>4, <1>6, <1>7, <2>3, <3>1 DEF Opened
      <3>4. open[x[1]] \in Nat /\ Opened(x) \in Nat /\ Opened(x)' \in Nat
        BY <1>5, Bounds DEF TypeOK, Opened
      <3>5. x[2] <= life'[x[1]]
        BY <1>1 DEF Lives
      <3> QED
        BY <3>1, <3>2, <3>3, <3>4, <3>5
    <2> QED
      BY <2>1, <2>2, <2>3 DEF Lives
  <1>10. Progress'
    <2>1. ASSUME NEW y \in Session, y # x PROVE Behind(y)'
      BY <1>1, <1>3, <2>1, BehindStays DEF Progress
    <2>2. Behind(x)'
      <3>1. \A j \in DOMAIN Script : state'[x] # "closed" /\ j < stmt'[x] => j <= stmt[x]
        BY <1>1, <1>3, ScriptLength
      <3>2. \A j \in DOMAIN Script :
              state'[x] # "closed" /\ j < stmt'[x] => Script[j].rel \in catalog'
        BY <1>2, <3>1
      <3>3. state'[x] \in {"closed", "connect", "check"}
        BY <1>3, <1>4
      <3>4. state'[x] = "connect" => stmt'[x] \in {5, 6}
        BY <1>3, <1>6
      <3> QED
        BY <1>3, <3>2, <3>3, <3>4 DEF Behind, Made
    <2> QED
      BY <2>1, <2>2 DEF Progress
  <1>11. ServingHasSchema'
    <2>1. CASE Current(x) /\ last
      <3>1. \A j \in DOMAIN Script : Script[j].rel \in catalog'
        BY <1>2, <2>1, ScriptLength
      <3> QED
        BY <1>2, <3>1 DEF ServingHasSchema, Relation
    <2>2. CASE ~(Current(x) /\ last)
      BY <1>1, <1>2, <2>2 DEF ServingHasSchema
    <2> QED
      BY <2>1, <2>2
  <1> QED
    BY <1>2, <1>8, <1>9, <1>10, <1>11

LEMMA WriterInv ==
  ASSUME StartupInv, NEW s \in Server,
         WriteMetadata(s) \/ WriteAssociation(s) \/ WriteCommit(s)
  PROVE  StartupInv'
  <1> USE DEF StartupInv
  <1>1. /\ writer' \in [Server -> SUBSET Relation]
        /\ UNCHANGED <<catalog, phase, life, open, state, stmt, mine, faults>>
    <2>1. {} \subseteq Relation
      OBVIOUS
    <2> QED
      BY <2>1, ScriptRelations
         DEF WriteMetadata, WriteAssociation, WriteCommit, Write, TypeOK
  <1>2. TypeOK'
    BY <1>1 DEF TypeOK
  <1>3. Lives'
    BY <1>1 DEF Lives, Opened, Current
  <1>4. Progress'
    BY <1>1, BehindStays DEF Progress
  <1>5. TablesComplete' /\ ServingHasSchema'
    BY <1>1 DEF TablesComplete, ServingHasSchema
  <1> QED
    BY <1>2, <1>3, <1>4, <1>5

LEMMA KillInv == ASSUME StartupInv, NEW s \in Server, Kill(s) PROVE StartupInv'
  <1> USE DEF StartupInv
  <1>a. PICK x \in Session : x = <<s, life[s]>>
    BY DEF TypeOK, Session
  <1>1. /\ faults' = faults + 1 /\ faults < MaxFaults
        /\ phase' = [phase EXCEPT ![s] = "down"]
        /\ life' = [life EXCEPT ![s] = @ + 1]
        /\ open' = [open EXCEPT ![s] = 0]
        /\ writer' = [writer EXCEPT ![s] = {}]
        /\ state' = [state EXCEPT ![x] = IF @ = "connect" THEN "closed" ELSE @]
        /\ UNCHANGED <<catalog, stmt, mine>>
    BY <1>a DEF Kill
  <1>2. faults \in Nat /\ life[s] <= faults + 1 /\ life[s] \in Nat /\ life[s] >= 1
    BY Bounds DEF TypeOK, Lives
  <1>3. /\ state'[x] = IF state[x] = "connect" THEN "closed" ELSE state[x]
        /\ \A y \in Session \ {x} : state'[y] = state[y]
    BY <1>1 DEF TypeOK
  <1>4. TypeOK'
    <2>1. life[s] + 1 \in Life /\ faults + 1 \in 0..MaxFaults /\ 0 \in 0..Cap
      BY <1>1, <1>2, Bounds
    <2> QED
      BY <1>1, <2>1 DEF TypeOK
  <1>5. Lives'
    <2>1. \A t \in Server : life'[t] <= faults' + 1
      BY <1>1, <1>2, Bounds DEF Lives, TypeOK
    <2>2. ASSUME NEW y \in Session, state'[y] # "closed"
          PROVE  /\ y[2] <= life'[y[1]]
                 /\ Current(y)' => phase'[y[1]] = "starting" /\ open'[y[1]] <= Opened(y)'
                 /\ state'[y] = "connect" => Current(y)'
      <3>1. state'[y] = state[y] /\ stmt'[y] = stmt[y] /\ state[y] # "closed"
        BY <1>1, <1>3, <2>2
      <3>2. y[1] \in Server /\ y[2] \in Nat /\ y[2] <= life[y[1]]
        BY <3>1, Bounds DEF Lives, Session
      <3>3. CASE y[1] = s
        <4>1. life'[y[1]] = life[s] + 1 /\ y[2] < life'[y[1]]
          BY <1>1, <1>2, <3>2, <3>3 DEF TypeOK
        <4>2. ~Current(y)'
          BY <1>2, <3>2, <4>1 DEF Current
        <4>3. state[y] # "connect"
          <5>1. state[y] = "connect" => y[2] = life[s]
            BY <3>3 DEF Lives, Current
          <5>2. y[2] = life[s] => y = x
            BY <1>a, <3>3 DEF Session
          <5> QED
            BY <1>3, <2>2, <3>1, <5>1, <5>2
        <4> QED
          BY <3>1, <3>2, <1>2, <4>1, <4>2, <4>3
      <3>4. CASE y[1] # s
        <4>1. /\ life'[y[1]] = life[y[1]] /\ phase'[y[1]] = phase[y[1]]
              /\ open'[y[1]] = open[y[1]]
          BY <1>1, <3>2, <3>4 DEF TypeOK
        <4> QED
          BY <3>1, <3>2, <4>1 DEF Lives, Opened, Current
      <3> QED
        BY <3>3, <3>4
    <2> QED
      BY <2>1, <2>2 DEF Lives
  <1>6. Progress'
    <2>1. ASSUME NEW y \in Session, y # x PROVE Behind(y)'
      BY <1>1, <1>3, <2>1, BehindStays DEF Progress
    <2>2. ASSUME state[x] = "connect" PROVE Behind(x)'
      <3>1. mine[x] = {}
        BY <2>2 DEF Progress, Behind
      <3>2. state'[x] = "closed" /\ mine'[x] = {}
        BY <1>1, <1>3, <2>2, <3>1
      <3> QED
        BY <3>2, ClosedBehind
    <2>3. ASSUME state[x] # "connect" PROVE Behind(x)'
      BY <1>1, <1>3, <2>3, BehindStays DEF Progress
    <2>4. Behind(x)'
      BY <2>2, <2>3
    <2> QED
      BY <2>1, <2>4 DEF Progress
  <1>7. TablesComplete' /\ ServingHasSchema'
    BY <1>1 DEF TablesComplete, ServingHasSchema, TypeOK
  <1> QED
    BY <1>4, <1>5, <1>6, <1>7

LEMMA PostgresCrashInv == StartupInv /\ PostgresCrash => StartupInv'
  <1> SUFFICES ASSUME StartupInv, PostgresCrash PROVE StartupInv'
    OBVIOUS
  <1> USE DEF StartupInv
  <1>1. TypeOK'
    <2>1. faults + 1 \in 0..MaxFaults /\ 0 \in 0..Cap
      BY Bounds DEF PostgresCrash, TypeOK
    <2> QED
      BY <2>1 DEF PostgresCrash, TypeOK
  <1>2. Lives'
    <2>1. \A s \in Server : life'[s] <= faults' + 1
      BY Bounds DEF PostgresCrash, Lives, TypeOK
    <2> QED
      BY <2>1 DEF PostgresCrash, Lives
  <1>3. Progress'
    BY ClosedBehind DEF Progress, PostgresCrash
  <1>4. TablesComplete' /\ ServingHasSchema'
    BY DEF TablesComplete, ServingHasSchema, PostgresCrash
  <1> QED
    BY <1>1, <1>2, <1>3, <1>4

LEMMA NextInv == StartupInv /\ [Next]_vars => StartupInv'
  <1> SUFFICES ASSUME StartupInv, [Next]_vars PROVE StartupInv'
    OBVIOUS
  <1>1. CASE UNCHANGED vars
    <2>1. UNCHANGED <<catalog, phase, life, open, state, stmt, mine, writer, faults>>
      BY <1>1 DEF vars
    <2>2. TypeOK' /\ Lives' /\ TablesComplete' /\ ServingHasSchema'
      BY <2>1 DEF StartupInv, TypeOK, Lives, Opened, Current, TablesComplete, ServingHasSchema
    <2>3. Progress'
      BY <2>1, BehindStays DEF StartupInv, Progress
    <2> QED
      BY <2>2, <2>3 DEF StartupInv
  <1>2. CASE PostgresCrash
    BY <1>2, PostgresCrashInv
  <1>3. ASSUME NEW x \in Session, Backend(x) PROVE StartupInv'
    BY <1>3, ConnectInv, CheckInv, CreateInv, CommitInv DEF Backend
  <1>4. ASSUME NEW s \in Server,
               \/ Start(s) \/ Grow(s) \/ Kill(s)
               \/ WriteMetadata(s) \/ WriteAssociation(s) \/ WriteCommit(s)
        PROVE  StartupInv'
    BY <1>4, StartInv, GrowInv, KillInv, WriterInv
  <1> QED
    BY <1>1, <1>2, <1>3, <1>4 DEF Next

-----------------------------------------------------------------------------
(* Theorems.                                                               *)

LEMMA StartupInvariant == Init /\ [][Next]_vars => []StartupInv
  BY InitInv, NextInv, PTL

\* Every variable keeps its type; in particular no server's pools outgrow their cap
\* (tls.rs), whatever starts, dies or is refused meanwhile.
THEOREM StartupTypeCorrect == FairSpec => []TypeOK
  <1>1. StartupInv => TypeOK
    BY DEF StartupInv
  <1> QED
    BY <1>1, StartupInvariant, PTL DEF FairSpec

\* The batches of ensure_schema keep a table and its indexes together: IF NOT EXISTS may
\* skip what a killed or concurrent start-up has left.
THEOREM TablesNeverPartial == FairSpec => []TablesComplete
  <1>1. StartupInv => TablesComplete
    BY DEF StartupInv
  <1> QED
    BY <1>1, StartupInvariant, PTL DEF FairSpec

\* A server that has passed the three factories of overlay/pg.rs finds the whole schema.
THEOREM SchemaBeforeService == FairSpec => []ServingHasSchema
  <1>1. StartupInv => ServingHasSchema
    BY DEF StartupInv
  <1> QED
    BY <1>1, StartupInvariant, PTL DEF FairSpec
=============================================================================
