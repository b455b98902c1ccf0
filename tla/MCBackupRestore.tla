--------------------------- MODULE MCBackupRestore ---------------------------
(* Small instances of BackupRestore. *)
EXTENDS BackupRestore, TLC
CONSTANTS k1, k2, global, other, name
TwoScopes == k1 :> global @@ k2 :> other
OneScope == k1 :> global @@ k2 :> global
OneName == [k \in Keys |-> name]
OwnName == [k \in Keys |-> k]
OneEach == k1 :> {1} @@ k2 :> {1}
OneOrOther == k1 :> {1} @@ k2 :> {2}
TwoAndOne == k1 :> {1, 2} @@ k2 :> {2}
Use(flavor, service, named, given, read) ==
  [flavor |-> flavor, service |-> service, named |-> named, given |-> given, read |-> read]
LocalAndS3 == {Use("kvs", "local", FALSE, OneEach, {}),
               Use("kvs", "s3", FALSE, OneOrOther, {k2}),
               Use("files", "s3", TRUE, TwoAndOne, {})}
Local == {Use("kvs", "local", FALSE, OneEach, {})}
=============================================================================
