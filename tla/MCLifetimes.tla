---------------------------- MODULE MCLifetimes -----------------------------
EXTENDS Lifetimes

CONSTANTS disk, k1, name, other

NameOfKey == [k \in {k1} |-> name]

Plain == [storeIn |-> Absent, ttl |-> Absent, policy |-> Absent, sliding |-> Absent,
          preload |-> Absent]

(* The defaults; another engine and no sliding; a negative TTL, taken as   *)
(* none, with an empty list of engines; policies only files look at.       *)
SomeOptions ==
  {Plain,
   [Plain EXCEPT !.storeIn = {disk}, !.ttl = 2, !.sliding = FALSE],
   [Plain EXCEPT !.storeIn = {}, !.ttl = -1, !.preload = "warmup"],
   [Plain EXCEPT !.policy = "keep"],
   [Plain EXCEPT !.policy = Bad]}

SomeAssignments == [ttl |-> {0}, idleOn |-> {TRUE, FALSE}]
=============================================================================
