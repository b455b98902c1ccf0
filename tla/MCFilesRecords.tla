---------------------------- MODULE MCFilesRecords ----------------------------
(* Instances of FilesRecords for TLC. *)
EXTENDS FilesRecords, TLC

CONSTANTS p1, p2, o1, o2, c1, c2, r1, x1, e1

OneFile == [c \in Sets |-> p1]
KeepEvict == (c1 :> "keep") @@ (c2 :> "evict")
(* A file begins with 2 bytes and grows to 3. *)
Grows == [v \in Contents |-> IF v = Original THEN 2 ELSE 3]
=============================================================================
