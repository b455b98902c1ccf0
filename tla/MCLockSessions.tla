--------------------------- MODULE MCLockSessions ---------------------------
(* Instances of LockSessions for TLC. *)
EXTENDS LockSessions, TLC

CONSTANTS s1, s2, s3, s4, k1, k2, o1, o2, c1, c2, c3, c4, p1, p2

(* Two calls by s1 and one by s2. *)
TwoOne == (c1 :> s1) @@ (c2 :> s2) @@ (c3 :> s1)

(* One call by each session, and a second one by s1. *)
OneEach3 == (c1 :> s1) @@ (c2 :> s2) @@ (c3 :> s3)
TwoOneOne == OneEach3 @@ (c4 :> s1)
OneEach2 == (c1 :> s1) @@ (c2 :> s2)
OneEach4 == OneEach3 @@ (c4 :> s4)

OneKey == {<<k1>>}
AllPairs == {<<k1>>, <<k2>>, <<k1, k2>>, <<k2, k1>>, <<k1, k1>>}

ObjectSymmetry == Permutations({o1, o2})
=============================================================================
