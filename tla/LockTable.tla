------------------------------ MODULE LockTable ------------------------------
(***************************************************************************)
(* What lock sessions promise their clients (README.md:331-347), with      *)
(* controller, lock loop, waiting and event loop left out: a table of who  *)
(* has locked which cached record.                                         *)
(*                                                                         *)
(* A record is locked by a live session, and only while no other has it;   *)
(* a session that is over has none; and nothing but the end of the session *)
(* or of the record takes a lock away.  A record that leaves the cache     *)
(* never comes back: a later record of its key is another one.             *)
(***************************************************************************)
CONSTANTS Records, Sessions

VARIABLES
  holders,  \* holders[r]: the live sessions that have locked the cached record r
  over,     \* the sessions that were released or have timed out
  cached,   \* the records in the cache
  used      \* the records that are or were in the cache

vars == <<holders, over, cached, used>>

TypeOK ==
  /\ holders \in [Records -> SUBSET Sessions]
  /\ over \in SUBSET Sessions
  /\ cached \in SUBSET Records
  /\ used \in SUBSET Records

Init ==
  /\ holders = [r \in Records |-> {}]
  /\ over = {}
  /\ cached \in SUBSET Records
  /\ used = cached

(* acquire() locks a record that is in the cache and nobody's. *)
Grant(s, r) ==
  /\ s \notin over
  /\ r \in cached
  /\ holders[r] = {}
  /\ holders' = [holders EXCEPT ![r] = {s}]
  /\ UNCHANGED <<over, cached, used>>

(* release(), or the session's timeout: all its locks go at once. *)
Free(s) ==
  /\ s \notin over
  /\ over' = over \cup {s}
  /\ holders' = [r \in Records |-> holders[r] \ {s}]
  /\ UNCHANGED <<cached, used>>

(* Records leave the cache, with their locks, and new ones enter, nobody's. *)
Turnover(out, in) ==
  /\ out \subseteq cached
  /\ in \cap used = {}
  /\ cached' = (cached \ out) \cup in
  /\ used' = used \cup in
  /\ holders' = [r \in Records |-> IF r \in out THEN {} ELSE holders[r]]
  /\ UNCHANGED over

Next ==
  \/ \E s \in Sessions, r \in Records : Grant(s, r)
  \/ \E s \in Sessions : Free(s)
  \/ \E out \in SUBSET Records, in \in SUBSET Records : Turnover(out, in)

Spec == Init /\ [][Next]_vars

-----------------------------------------------------------------------------
(* What a client of such a table may count on. *)

(* No two sessions have one record. *)
OneHolder == \A r \in Records, s, t \in Sessions : s \in holders[r] /\ t \in holders[r] => s = t

(* A lock ends with its session or with its record. *)
LockLasts ==
  \A r \in Records : \A s \in holders[r] \ holders'[r] : s \in over' \/ r \notin cached'

LocksLast == [][LockLasts]_vars
=============================================================================
