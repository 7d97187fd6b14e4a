------------------------------- MODULE MCLock -------------------------------
(* Instances of LockStore for TLC: two branches and two files of one       *)
(* repository, two owners, three concurrent requests.                      *)
EXTENDS LockStore, TLC

CONSTANTS b1, b2, b3, repo, ann, bob

R(branch, file) == [branch |-> branch, file |-> file, text |-> 1]
Renamed(a) == [a EXCEPT !.text = 2]
At(branch, file) == [repo |-> repo, branch |-> branch, file |-> file]

LockFor(o, s) == [op |-> "lock", owner |-> o, repo |-> repo, resources |-> s]
UnlockFor(o, s) ==
  [op |-> "unlock", owner |-> o, validate |-> TRUE, repo |-> repo, resources |-> s]
ForceUnlock(s) == [UnlockFor(ann, s) EXCEPT !.validate = FALSE]
Status(s) == [op |-> "status", repo |-> repo, resources |-> s]
Query(columns) ==
  [op |-> "query", columns |-> columns, owner |-> ann, repo |-> repo, branch |-> 1,
   file |-> 1, text |-> 1]

\* ann holds file 1 of branch 1 and bob file 2 of branch 1; nothing is locked in branch 2.
HeldRows ==
  [l \in Lock |->
     IF l = At(1, 1) THEN [owner |-> ann, text |-> 1, by |-> Start]
     ELSE IF l = At(1, 2) THEN [owner |-> bob, text |-> 1, by |-> Start]
     ELSE Free]
NoRows == [l \in Lock |-> Free]

\* Overlapping batches in opposite order, with duplicates and renamed resources, by the
\* holders and by others, and the two kinds of unlock.
BatchRequests ==
  {LockFor(ann, <<R(2, 1), R(2, 2), R(2, 1)>>), LockFor(bob, <<R(2, 2), R(2, 1)>>),
   LockFor(ann, <<R(1, 1), Renamed(R(2, 2)), R(2, 2)>>), LockFor(bob, <<R(2, 1), R(1, 1)>>),
   UnlockFor(ann, <<R(2, 2), R(1, 1)>>), UnlockFor(bob, <<R(1, 1)>>),
   ForceUnlock(<<R(2, 1), R(1, 1)>>),
   Status(<<R(1, 1), R(2, 2)>>), Status(<<>>), Query({"owner", "repo", "branch"})}

\* One owner unlocks while the same owner locks.
UnlockVsLock == {UnlockFor(ann, <<R(2, 1)>>), LockFor(ann, <<R(2, 1)>>)}
=============================================================================
