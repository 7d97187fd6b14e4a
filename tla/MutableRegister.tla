--------------------------- MODULE MutableRegister ---------------------------
(***************************************************************************)
(* What a mutable store promises its callers: a register per slot, zero    *)
(* when nothing was ever stored, on which load, store, compare-and-swap    *)
(* and list each take effect at one instant between call and answer.  An   *)
(* operation that answers with an error has taken effect or has not.       *)
(***************************************************************************)
CONSTANTS Task, Slot, Value, Zero, Requests,
          TypeOf(_),  \* the repository and key type a slot belongs to
          Target(_)   \* the slot, or for list the repository and key type, of a request

VARIABLES reg, status, req, res

vars == <<reg, status, req, res>>

Unanswered == [kind |-> "none", value |-> Zero, rows |-> {}]
Answer(k, v, r) == [kind |-> k, value |-> v, rows |-> r]

Init ==
  /\ reg \in [Slot -> Value \cup {Zero}]
  /\ status = [t \in Task |-> "idle"]
  /\ req = [t \in Task |-> [op |-> "none"]]
  /\ res = [t \in Task |-> Unanswered]

Invoke(t) ==
  /\ status[t] = "idle"
  /\ \E r \in Requests : req' = [req EXCEPT ![t] = r]
  /\ status' = [status EXCEPT ![t] = "pending"]
  /\ UNCHANGED <<reg, res>>

Respond(t, answer) ==
  /\ status[t] = "pending"
  /\ status' = [status EXCEPT ![t] = "done"]
  /\ res' = [res EXCEPT ![t] = answer]
  /\ UNCHANGED req

Written(r) == [reg EXCEPT ![Target(r)] = r.value]

Load(t) ==
  LET v == reg[Target(req[t])]
  IN  /\ req[t].op = "load"
      /\ Respond(t, IF v = Zero THEN Answer("not_found", Zero, {}) ELSE Answer("ok", v, {}))
      /\ UNCHANGED reg

Store(t) ==
  /\ req[t].op = "store"
  /\ reg' = Written(req[t])
  /\ Respond(t, Answer("ok", Zero, {}))

\* The witness is the value at the instant of the comparison.
CompareAndSwap(t) ==
  LET current == reg[Target(req[t])]
  IN  /\ req[t].op = "cas"
      /\ reg' = IF current = req[t].expected THEN Written(req[t]) ELSE reg
      /\ Respond(t, Answer("ok", current, {}))

List(t) ==
  /\ req[t].op = "list"
  /\ Respond(t, Answer("ok", Zero,
       {<<s, reg[s]>> : s \in {u \in Slot : TypeOf(u) = Target(req[t]) /\ reg[u] # Zero}}))
  /\ UNCHANGED reg

\* Listing every type at once, or failing to list, yields an empty stream.
ListNothing(t) ==
  /\ req[t].op = "list"
  /\ Respond(t, Answer("ok", Zero, {}))
  /\ UNCHANGED reg

\* An error, after the effect or without it.
Error(t) ==
  /\ Respond(t, Answer("err", Zero, {}))
  /\ \/ UNCHANGED reg
     \/ req[t].op = "store" /\ reg' = Written(req[t])
     \/ /\ req[t].op = "cas" /\ reg[Target(req[t])] = req[t].expected
        /\ reg' = Written(req[t])

\* The server stops: every call in flight is lost at once.
Stop ==
  /\ status' = [t \in Task |-> IF status[t] = "pending" THEN "done" ELSE status[t]]
  /\ res' = [t \in Task |-> IF status[t] = "pending" THEN Answer("err", Zero, {}) ELSE res[t]]
  /\ UNCHANGED <<reg, req>>

Next ==
  Stop \/ \E t \in Task : \/ Invoke(t) \/ Load(t) \/ Store(t) \/ CompareAndSwap(t)
                          \/ List(t) \/ ListNothing(t) \/ Error(t)

Spec == Init /\ [][Next]_vars
=============================================================================
