----------------------------- MODULE MCKvsRecords -----------------------------
(* Instances of KvsRecords for TLC. *)
EXTENDS KvsRecords, TLC

CONSTANTS k1, k2, k3, k4, o1, o2, o3, o4, o5, o6, c1, c2, c3, c4, x1, x2, global, users

(* k1 and k2 have one name in two scopes, the others names of their own. *)
TwoScopes == [k \in Keys |-> IF k = k2 THEN users ELSE global]
NameTwice == [k \in Keys |-> IF k = k2 THEN k1 ELSE k]

(* Two sets of k1, then one of each other key; or all of different keys. *)
TwoAndOne == (c1 :> k1) @@ (c2 :> k1) @@ (c3 :> k2)
TwoOneOne == (c1 :> k1) @@ (c2 :> k1) @@ (c3 :> k2) @@ (c4 :> k3)
AllApart == (c1 :> k1) @@ (c2 :> k2) @@ (c3 :> k3) @@ (c4 :> k4)
=============================================================================
