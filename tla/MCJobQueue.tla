----------------------------- MODULE MCJobQueue -----------------------------
(***************************************************************************)
(* Instances of JobQueue for TLC.                                          *)
(***************************************************************************)
EXTENDS JobQueueClaims, JobQueueDesk

CONSTANTS r1, r2, a, b, c

\* One issue.
Single == {a}
SingleRepo == a :> r1
SingleNumber == a :> 1
SingleFree == a :> {}

\* Two issues of one repository, the second depends on the first.
OneRepo == {r1}
Pair == {a, b}
PairRepo == [i \in Pair |-> r1]
PairNumber == a :> 1 @@ b :> 2
PairChain == a :> {} @@ b :> {a}
PairCycle == a :> {b} @@ b :> {a}
PairFree == a :> {} @@ b :> {}

\* One issue in each of two repositories, with the same number.
TwoRepos == {r1, r2}
SplitRepo == a :> r1 @@ b :> r2
SplitNumber == a :> 1 @@ b :> 1

\* Two issues in one repository and one in another.
Three == {a, b, c}
ThreeRepo == a :> r1 @@ b :> r1 @@ c :> r2
ThreeNumber == a :> 1 @@ b :> 2 @@ c :> 1
ThreeFree == [i \in Three |-> {}]
ThreeChain == a :> {} @@ b :> {a} @@ c :> {}
=============================================================================
