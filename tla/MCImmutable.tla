---------------------------- MODULE MCImmutable ----------------------------
(* Instances of ImmutableStore for TLC: one small corpus, and a workload   *)
(* per question.                                                           *)
EXTENDS ImmutableStore, TLC

CONSTANTS c1, c2, c3, w1, h1, h2, p, q, x, y, zero, f, g, tree, leaf

A(ctx) == [hash |-> h1, part |-> p, ctx |-> ctx]
Sub(ctx) == [hash |-> h2, part |-> p, ctx |-> ctx]
Other == [hash |-> h1, part |-> q, ctx |-> x]

\* f and g hold the same content in different encodings; tree lists leaf's hash.
MCPayloadSize == f :> 2 @@ g :> 3 @@ tree :> 5 @@ leaf :> 1
MCContentSize == f :> 4 @@ g :> 4 @@ tree :> 6 @@ leaf :> 1
MCRefs == f :> <<>> @@ g :> <<>> @@ tree :> <<h2>> @@ leaf :> <<>>

Put(k, e) == [op |-> "put", key |-> k, frag |-> e, payload |-> TRUE]
PutNoPayload(k, e) == [Put(k, e) EXCEPT !.payload = FALSE]
Get(k) == [op |-> "get", key |-> k]
GetMetadata(k) == [op |-> "get_metadata", key |-> k]
Obliterate(k) == [op |-> "obliterate", key |-> k]
Query(b) == [op |-> "query", batch |-> b]
Copy(src, dst) == [op |-> "copy", key |-> dst, src |-> src]

\* A plain fragment stored under two contexts of one partition.
PairFrag == h1 :> f @@ h2 :> NoFrag
PairAssoc == {A(x), A(y)}
\* A fragmented payload and its sub-fragment, both stored under context x, and the
\* sub-fragment under y as well.
TreeFrag == h1 :> tree @@ h2 :> leaf
TreeAssoc == {A(x), Sub(x), Sub(y)}

\* A put, deletions, a copy and a read, all of one hash.
MixedRequests ==
  {Put(A(y), f), Obliterate(A(x)), Obliterate(A(y)), Copy(A(zero), Other),
   Get(Other)}
\* Deleting a tree: parents, children, siblings of the child, a copy.
ObliterateRequests ==
  {Obliterate(A(x)), Obliterate(Sub(x)), Obliterate(Sub(y)),
   Copy(Sub(y), [Sub(x) EXCEPT !.part = q])}
\* Writing and reading without deletion, one encoding per hash.
WriteRequests ==
  {Put(A(x), f), Put(A(y), f), Put(Sub(x), leaf), PutNoPayload(Other, f),
   Copy(A(x), Other), Get(A(x)), GetMetadata(A(y)), Query(<<A(x), Sub(x)>>)}
\* A put beside an obliterate of another address of the hash.
PutVsObliterate == {Put(A(y), f), Obliterate(A(x))}
\* Two encodings of one hash, from two contexts.
Reencode == {Put(A(x), f), Put(A(y), g)}
\* Two obliterates, of the two contexts of one hash.
TwoObliterates == {Obliterate(A(x)), Obliterate(A(y))}

EmptyFrag == h1 :> NoFrag @@ h2 :> NoFrag
NoAssoc == {}
OneAssoc == {A(x)}
=============================================================================
