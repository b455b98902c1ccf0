---------------------------- MODULE MCEnginesProxy ----------------------------
(* Instances of EnginesProxy for TLC. *)
EXTENDS EnginesProxy, TLC

CONSTANTS r1, r2, old, new, key, c1, c2, c3, memory, disk, redis, s3

(* Places of different keys, and places of one key in different scopes,    *)
(* which share a queue.                                                    *)
EachItsKey == [p \in Places |-> p]
OneKey == [p \in Places |-> key]

Once == {<<old, new>>}
Never == {}
=============================================================================
