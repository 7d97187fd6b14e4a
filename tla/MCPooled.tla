------------------------------ MODULE MCPooled ------------------------------
(* An instance of PooledImmutableStore for TLC: calls that outnumber the   *)
(* connections.                                                            *)
EXTENDS PooledImmutableStore, TLC

CONSTANTS c1, c2, w1, h1, h2, p, x, y, zero, tree, leaf

A(ctx) == [hash |-> h1, part |-> p, ctx |-> ctx]

\* A fragmented payload under two contexts, and its sub-fragment under one.
MCPayloadSize == tree :> 5 @@ leaf :> 1
MCContentSize == tree :> 6 @@ leaf :> 1
MCRefs == tree :> <<h2>> @@ leaf :> <<>>
TreeFrag == h1 :> tree @@ h2 :> leaf
TreeAssoc == {A(x), A(y), [A(x) EXCEPT !.hash = h2]}

\* A lookup in two statements and then a transaction that locks a row; a deletion that
\* waits for the lock and for a deletion of its own; a get with two lookups at once; a
\* lookup in three statements; one that loops.
PooledRequests ==
  {[op |-> "put", key |-> A(y), frag |-> tree, payload |-> TRUE],
   [op |-> "obliterate", key |-> A(x)],
   [op |-> "get", key |-> A(y)],
   [op |-> "get_metadata", key |-> A(y)],
   [op |-> "query", batch |-> <<A(x), A(y)>>]}

\* On short queues, Without is the selection it stands for.
ASSUME WithoutSelects ==
  \A n \in 0..4 : \A q \in [1..n -> {x, y, zero}], F \in SUBSET {x, y, zero} :
    Pool!Without(q, F) = SelectSeq(q, LAMBDA f : f \notin F)
=============================================================================
