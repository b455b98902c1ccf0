---------------------------- MODULE LockSessions ----------------------------
(***************************************************************************)
(* Lock sessions of the key-value cache: CacheSession, SessionsController, *)
(* the lock half of KVCacheRecord and the lock half of the KVs manager's   *)
(* controller.                                                             *)
(*                                                                         *)
(* The program is one JavaScript event loop.  A step of this module is the *)
(* code that runs from one `await` to the next; between two steps of a     *)
(* call any other call, timer or client statement may run.  The order in   *)
(* which the loop resumes several calls whose promise has settled is left  *)
(* open.                                                                   *)
(*                                                                         *)
(* A KVCacheRecord is an object, not a key: `set` on an existing key puts  *)
(* a new object in the scope map and the waiters of the old one keep it.   *)
(***************************************************************************)
EXTENDS Naturals, Sequences

CONSTANTS
  Sessions,    \* the CacheSession objects, all created with createSession
  Keys,        \* the (scope, key) pairs in use
  Objects,     \* bound: the KVCacheRecord objects a behaviour may create
  Calls,       \* bound: the calls of session.acquire
  Caller,      \* Caller[c]: the session whose acquire is called
  Requests,    \* the sequences of keys a call may ask for
  Ops,         \* bound: the cache operations that run next to the sessions
  Kinds,       \* the operations allowed, a subset of OpKinds
  Exclusive,   \* the sessions with policy.exclusive
  BlockRead,   \* the sessions with policy.blockRead
  Timed,       \* the sessions with a timeout above 0
  NoSession,
  NoObject

OpKinds == {"set", "update", "remove", "read", "evict"}

ASSUME CallerAssumption == Caller \in [Calls -> Sessions]
ASSUME RequestsAssumption == Requests \subseteq Seq(Keys)
ASSUME KindsAssumption == Kinds \subseteq OpKinds
ASSUME PolicyAssumption ==
  /\ Exclusive \subseteq Sessions
  /\ BlockRead \subseteq Sessions
  /\ Timed \subseteq Sessions
  /\ Timed \cap Exclusive = {}    \* an exclusive session has timeout 0
ASSUME NoneAssumption ==
  /\ Keys # {}
  /\ NoSession \notin Sessions
  /\ NoObject \notin Objects

VARIABLES
  current,   \* current[k]: the object the scope map holds for k
  created,   \* the objects created so far
  owner,     \* owner[o]: record.#_session
  released,  \* released[s]: #_flags.released
  locked,    \* locked[s]: #_storage.locked
  pending,   \* pending[s]: #_storage.pending
  reserved,  \* reserved[o]: the controller's #_pending map
  locker,    \* locker[s]: the session's lock loop
  call,      \* call[c]: one call of acquire
  op         \* op[p]: one cache operation

vars == <<current, created, owner, released, locked, pending, reserved,
          locker, call, op>>

cacheVars   == <<current, created>>
sessionVars == <<released, locked, pending>>

-----------------------------------------------------------------------------
(* Types *)

(***************************************************************************)
(* The lock loop: no run is active, it awaits a holder's promise, lock()   *)
(* has taken the record or has thrown and the loop has not yet resumed.    *)
(***************************************************************************)
LockerState ==
  [pc: {"idle", "waiting", "granted", "refused"},
   rec: Objects \cup {NoObject},
   on: Sessions \cup {NoSession}]

IdleLocker == [pc |-> "idle", rec |-> NoObject, on |-> NoSession]

(***************************************************************************)
(* An acquire: awaiting a reservation, gathered (the controller has        *)
(* returned), in the lock loop, settled.                                   *)
(***************************************************************************)
CallState ==
  [pc: {"idle", "reserving", "gathered", "locking", "done", "failed"},
   todo: Seq(Keys),
   got: SUBSET Objects,
   rec: Objects \cup {NoObject},
   on: Sessions \cup {NoSession}]

IdleCall == [pc |-> "idle", todo |-> <<>>, got |-> {}, rec |-> NoObject,
             on |-> NoSession]

(***************************************************************************)
(* A cache operation: awaiting untilReleased(), acting on the engines,     *)
(* dropped (the key has left the map, a session's remove() has not yet     *)
(* returned), done.  "as" is the session whose records.* was called.       *)
(***************************************************************************)
OpState ==
  [pc: {"idle", "waiting", "acting", "dropped", "done"},
   kind: OpKinds,
   key: Keys,
   rec: Objects \cup {NoObject},
   on: Sessions \cup {NoSession},
   as: Sessions \cup {NoSession}]

IdleOp == [pc |-> "idle", kind |-> "read", key |-> CHOOSE k \in Keys : TRUE,
           rec |-> NoObject, on |-> NoSession, as |-> NoSession]

(* Type invariant. *)
TypeOK ==
  /\ current \in [Keys -> Objects \cup {NoObject}]
  /\ created \in SUBSET Objects
  /\ owner \in [Objects -> Sessions \cup {NoSession}]
  /\ released \in [Sessions -> BOOLEAN]
  /\ locked \in [Sessions -> SUBSET Objects]
  /\ pending \in [Sessions -> SUBSET Objects]
  /\ reserved \in [Objects -> Sessions \cup {NoSession}]
  /\ locker \in [Sessions -> LockerState]
  /\ call \in [Calls -> CallState]
  /\ op \in [Ops -> OpState]

InCache(o) == \E k \in Keys : current[k] = o

Init ==
  /\ current \in [Keys -> Objects \cup {NoObject}]
  /\ \A j, k \in Keys : current[j] = current[k] /\ j # k => current[k] = NoObject
  /\ created = {o \in Objects : InCache(o)}
  /\ owner = [o \in Objects |-> NoSession]
  /\ released = [s \in Sessions |-> FALSE]
  /\ locked = [s \in Sessions |-> {}]
  /\ pending = [s \in Sessions |-> {}]
  /\ reserved = [o \in Objects |-> NoSession]
  /\ locker = [s \in Sessions |-> IdleLocker]
  /\ call = [c \in Calls |-> IdleCall]
  /\ op = [p \in Ops |-> IdleOp]

-----------------------------------------------------------------------------
(* SessionsController.acquire *)

(* The object a request's i-th key leads to. *)
Obj(todo, i) == current[todo[i]]

(* Mutant of Found: a key without a record is not skipped. *)
FoundOrMissing(todo, n) == {Obj(todo, i) : i \in 1..n}

(* The objects the first n keys lead to; keys without one are skipped. *)
Found(todo, n) == {Obj(todo, i) : i \in 1..n} \ {NoObject}

(* The i-th key's object is in the controller's #_pending map, put there   *)
(* before or by this very loop.                                            *)
IsReserved(todo, i, resv) ==
  /\ Obj(todo, i) # NoObject
  /\ resv[Obj(todo, i)] # NoSession \/ Obj(todo, i) \in Found(todo, i - 1)

(***************************************************************************)
(* The controller's loop from its start, or from the resumption of an      *)
(* await, to the next await or to its return.  It takes the first n keys   *)
(* of todo, puts their objects in `got` and reserves them for the caller's *)
(* session.  It stops at the first key whose object is reserved and awaits *)
(* the session that reserved it.                                           *)
(***************************************************************************)
Gather(c, todo, got, resv) ==
  \E n \in 0..Len(todo) :
    LET taken == Found(todo, n)
        resv2 == [o \in Objects |-> IF o \in taken THEN Caller[c] ELSE resv[o]]
        next  == Obj(todo, n + 1)
    IN /\ \A i \in 1..n : ~IsReserved(todo, i, resv)
       /\ reserved' = resv2
       /\ \/ /\ n = Len(todo)
             /\ call' = [call EXCEPT
                  ![c] = [pc |-> "gathered", todo |-> <<>>,
                          got |-> got \cup taken,
                          rec |-> NoObject, on |-> NoSession]]
          \/ /\ n < Len(todo)
             /\ IsReserved(todo, n + 1, resv)
             /\ call' = [call EXCEPT
                  ![c] = [pc |-> "reserving",
                          todo |-> SubSeq(todo, n + 2, Len(todo)),
                          got |-> got \cup taken,
                          rec |-> next, on |-> resv2[next]]]

(* session.acquire(request): refused if released, else the controller's    *)
(* loop starts in the same step.                                           *)
Acquire(c, request) ==
  /\ call[c].pc = "idle"
  /\ \/ /\ released[Caller[c]]
        /\ call' = [call EXCEPT ![c].pc = "failed"]
        /\ UNCHANGED reserved
     \/ /\ ~released[Caller[c]]
        /\ Gather(c, request, {}, reserved)
  /\ UNCHANGED <<cacheVars, owner, sessionVars, locker, op>>

(* The awaited session is released: whatever the #_pending map and the     *)
(* scope map hold by now, the record is gathered and reserved.             *)
ReservationResume(c) ==
  /\ call[c].pc = "reserving"
  /\ released[call[c].on]
  /\ Gather(c, call[c].todo, call[c].got \cup {call[c].rec},
            [reserved EXCEPT ![call[c].rec] = Caller[c]])
  /\ UNCHANGED <<cacheVars, owner, sessionVars, locker, op>>

-----------------------------------------------------------------------------
(* CacheSession's lock loop *)

(***************************************************************************)
(* record.lock(session) up to its first await: a free record is taken, an  *)
(* exclusive holder makes it throw, any other holder is awaited - the      *)
(* session itself too.                                                     *)
(***************************************************************************)
Lock(s, o) ==
  \/ /\ owner[o] = NoSession
     /\ owner' = [owner EXCEPT ![o] = s]
     /\ locker' = [locker EXCEPT
          ![s] = [pc |-> "granted", rec |-> o, on |-> NoSession]]
  \/ /\ owner[o] \in Exclusive
     /\ locker' = [locker EXCEPT
          ![s] = [pc |-> "refused", rec |-> o, on |-> NoSession]]
     /\ UNCHANGED owner
  \/ /\ owner[o] \in Sessions \ Exclusive
     /\ locker' = [locker EXCEPT
          ![s] = [pc |-> "waiting", rec |-> o, on |-> owner[o]]]
     /\ UNCHANGED owner

(***************************************************************************)
(* acquire() after the controller's return: the records join the session's *)
(* pending set; an active run will serve them, otherwise a run starts.     *)
(* The run takes them in insertion order; here it takes any of them.       *)
(***************************************************************************)
Enlist(c) ==
  LET s == Caller[c]
      pend == pending[s] \cup call[c].got
  IN /\ call[c].pc = "gathered"
     /\ pending' = [pending EXCEPT ![s] = pend]
     /\ \/ /\ pend = {}
           /\ call' = [call EXCEPT ![c].pc = "done"]
           /\ UNCHANGED <<owner, locker>>
        \/ /\ pend # {}
           /\ call' = [call EXCEPT ![c].pc = "locking"]
           /\ \/ locker[s].pc # "idle" /\ UNCHANGED <<owner, locker>>
              \/ locker[s].pc = "idle" /\ \E o \in pend : Lock(s, o)
     /\ UNCHANGED <<cacheVars, released, locked, reserved, op>>

(* lock() resumes: the awaited holder was released, and the record is      *)
(* taken whoever holds it by now.                                          *)
LockResume(s) ==
  /\ locker[s].pc = "waiting"
  /\ released[locker[s].on]
  /\ owner' = [owner EXCEPT ![locker[s].rec] = s]
  /\ locker' = [locker EXCEPT ![s].pc = "granted", ![s].on = NoSession]
  /\ UNCHANGED <<cacheVars, sessionVars, reserved, call, op>>

(* Every acquire of s that awaits the current run settles with it. *)
Settle(s, outcome) ==
  [c \in Calls |-> IF Caller[c] = s /\ call[c].pc = "locking"
                   THEN [call[c] EXCEPT !.pc = outcome]
                   ELSE call[c]]

(* Mutant of LockNext: markAsLocked() is forgotten. *)
LockNextKeepsReservation(s) ==
  LET o == locker[s].rec
      pend == pending[s] \ {o}
  IN /\ locker[s].pc = "granted"
     /\ locked' = [locked EXCEPT ![s] = @ \cup {o}]
     /\ pending' = [pending EXCEPT ![s] = pend]
     /\ \/ /\ pend = {}
           /\ locker' = [locker EXCEPT ![s] = IdleLocker]
           /\ call' = Settle(s, "done")
           /\ UNCHANGED owner
        \/ /\ \E p \in pend : Lock(s, p)
           /\ UNCHANGED call
     /\ UNCHANGED <<cacheVars, released, reserved, op>>

(* Mutant of LockNext: the run serves one record and ends, as if the loop  *)
(* ran over the records known when it started.                             *)
LockNextOnce(s) ==
  LET o == locker[s].rec
  IN /\ locker[s].pc = "granted"
     /\ locked' = [locked EXCEPT ![s] = @ \cup {o}]
     /\ pending' = [pending EXCEPT ![s] = @ \ {o}]
     /\ reserved' = [reserved EXCEPT ![o] = NoSession]
     /\ locker' = [locker EXCEPT ![s] = IdleLocker]
     /\ call' = Settle(s, "done")
     /\ UNCHANGED <<cacheVars, owner, released, op>>

(* Mutant of LockNext: the record never joins storage.locked. *)
LockNextUntracked(s) ==
  LET o == locker[s].rec
      pend == pending[s] \ {o}
  IN /\ locker[s].pc = "granted"
     /\ pending' = [pending EXCEPT ![s] = pend]
     /\ reserved' = [reserved EXCEPT ![o] = NoSession]
     /\ \/ /\ pend = {}
           /\ locker' = [locker EXCEPT ![s] = IdleLocker]
           /\ call' = Settle(s, "done")
           /\ UNCHANGED owner
        \/ /\ \E p \in pend : Lock(s, p)
           /\ UNCHANGED call
     /\ UNCHANGED <<cacheVars, released, locked, op>>

(***************************************************************************)
(* The loop resumes after lock(): the record moves from pending to locked  *)
(* and leaves the controller's #_pending map, whoever had reserved it; the *)
(* loop goes on with the next pending record or the run ends.              *)
(***************************************************************************)
LockNext(s) ==
  LET o == locker[s].rec
      pend == pending[s] \ {o}
  IN /\ locker[s].pc = "granted"
     /\ locked' = [locked EXCEPT ![s] = @ \cup {o}]
     /\ pending' = [pending EXCEPT ![s] = pend]
     /\ reserved' = [reserved EXCEPT ![o] = NoSession]
     /\ \/ /\ pend = {}
           /\ locker' = [locker EXCEPT ![s] = IdleLocker]
           /\ call' = Settle(s, "done")
           /\ UNCHANGED owner
        \/ /\ \E p \in pend : Lock(s, p)
           /\ UNCHANGED call
     /\ UNCHANGED <<cacheVars, released, op>>

(* Mutant of LockRefused: the run's promise is not rejected. *)
LockRefusedSilently(s) ==
  /\ locker[s].pc = "refused"
  /\ locker' = [locker EXCEPT ![s] = IdleLocker]
  /\ UNCHANGED <<cacheVars, owner, sessionVars, reserved, call, op>>

(* lock() threw: the run ends with the error, pending is left as it is. *)
LockRefused(s) ==
  /\ locker[s].pc = "refused"
  /\ locker' = [locker EXCEPT ![s] = IdleLocker]
  /\ call' = Settle(s, "failed")
  /\ UNCHANGED <<cacheVars, owner, sessionVars, reserved, op>>

-----------------------------------------------------------------------------
(* Release and timeout *)

(* Mutant of ReleaseRecords: record.release() does not compare ids. *)
ReleaseRecordsOfAnyone(s) ==
  /\ owner' = [o \in Objects |-> IF o \in locked[s] THEN NoSession ELSE owner[o]]
  /\ locked' = [locked EXCEPT ![s] = {o \in @ : owner[o] = NoSession}]
  /\ released' = [released EXCEPT ![s] = TRUE]
  /\ UNCHANGED <<cacheVars, pending, reserved, locker, call, op>>

(* Mutant of ReleaseRecords: the loop stops at the first record. *)
ReleaseRecordsFirst(s) ==
  /\ \E first \in locked[s] \cup {NoObject} :
       /\ owner' = [o \in Objects |->
                       IF o = first /\ owner[o] = s THEN NoSession ELSE owner[o]]
       /\ locked' = [locked EXCEPT ![s] = @ \ {first}]
  /\ released' = [released EXCEPT ![s] = TRUE]
  /\ UNCHANGED <<cacheVars, pending, reserved, locker, call, op>>

(***************************************************************************)
(* releaseRecords() and the flag: of the records in `locked`, those nobody *)
(* holds are skipped (and stay in the set), the others leave it, and       *)
(* record.release(id) frees the ones whose #_session is this session.      *)
(***************************************************************************)
ReleaseRecords(s) ==
  /\ owner' = [o \in Objects |->
                 IF o \in locked[s] /\ owner[o] = s THEN NoSession ELSE owner[o]]
  /\ locked' = [locked EXCEPT ![s] = {o \in @ : owner[o] = NoSession}]
  /\ released' = [released EXCEPT ![s] = TRUE]
  /\ UNCHANGED <<cacheVars, pending, reserved, locker, call, op>>

(* The client calls release(). *)
Release(s) ==
  /\ ~released[s]
  /\ ReleaseRecords(s)

(* Mutant of Timeout: the timer of a session that waits does not fire. *)
TimeoutOfIdle(s) ==
  /\ s \in Timed
  /\ ~released[s]
  /\ locker[s].pc = "idle"
  /\ ReleaseRecords(s)

(* The session's timer fires; release() has cleared it otherwise. *)
Timeout(s) ==
  /\ s \in Timed
  /\ ~released[s]
  /\ ReleaseRecords(s)

-----------------------------------------------------------------------------
(* Cache operations: kvs.set/remove/read, session.records.*, evictions *)

(* A session that has locked the record does not wait for it, except a     *)
(* blockRead session that reads.                                           *)
Exempt(kind, as, o) ==
  /\ as # NoSession
  /\ o \in locked[as]
  /\ kind = "read" => as \notin BlockRead

MustWait(kind, as, o) ==
  /\ kind # "evict"          \* expiry, eviction and idle cleaning never wait
  /\ owner[o] # NoSession
  /\ ~Exempt(kind, as, o)

(* Who may call what: records.update and records.remove need a live        *)
(* session that has locked the record, records.read checks neither.        *)
Allowed(kind, as, o) ==
  CASE kind \in {"set", "evict"} -> as = NoSession
    [] kind = "update" -> as # NoSession /\ ~released[as] /\ o \in locked[as]
    [] kind = "remove" -> as # NoSession => ~released[as] /\ o \in locked[as]
    [] kind = "read"   -> TRUE

(* An operation on a key that has a record: it waits for the session that  *)
(* holds the record now, or goes to the engines at once.                   *)
OpStart(p, kind, key, as) ==
  LET o == current[key]
      Op(pc, on) == [pc |-> pc, kind |-> kind, key |-> key, rec |-> o,
                     on |-> on, as |-> as]
  IN /\ op[p].pc = "idle"
     /\ o # NoObject
     /\ Allowed(kind, as, o)
     /\ op' = [op EXCEPT ![p] = IF MustWait(kind, as, o)
                                THEN Op("waiting", owner[o])
                                ELSE Op("acting", NoSession)]
     /\ UNCHANGED <<cacheVars, owner, sessionVars, reserved, locker, call>>

(* A fresh KVCacheRecord takes the key's place in the scope map. *)
PutRecord(key) ==
  \E o \in Objects \ created :
    /\ current' = [current EXCEPT ![key] = o]
    /\ created' = created \cup {o}

(* set() of a key that has no record creates it at once. *)
OpCreate(p, key) ==
  /\ op[p].pc = "idle"
  /\ current[key] = NoObject
  /\ PutRecord(key)
  /\ op' = [op EXCEPT ![p].pc = "done", ![p].kind = "set", ![p].key = key]
  /\ UNCHANGED <<owner, sessionVars, reserved, locker, call>>

(* Mutant of OpResume: the operation waits for the record to be free. *)
OpResumeWhenFree(p) ==
  /\ op[p].pc = "waiting"
  /\ released[op[p].on]
  /\ owner[op[p].rec] = NoSession
  /\ op' = [op EXCEPT ![p].pc = "acting", ![p].on = NoSession]
  /\ UNCHANGED <<cacheVars, owner, sessionVars, reserved, locker, call>>

(* The awaited session is released; the record's holder is not looked at   *)
(* again.                                                                  *)
OpResume(p) ==
  /\ op[p].pc = "waiting"
  /\ released[op[p].on]
  /\ op' = [op EXCEPT ![p].pc = "acting", ![p].on = NoSession]
  /\ UNCHANGED <<cacheVars, owner, sessionVars, reserved, locker, call>>

(* The engines have answered.  set() replaces the record; a removal drops  *)
(* the key, whatever object it leads to by now.                            *)
OpAct(p) ==
  /\ op[p].pc = "acting"
  /\ \/ /\ op[p].kind = "set"
        /\ PutRecord(op[p].key)
        /\ op' = [op EXCEPT ![p].pc = "done"]
     \/ /\ op[p].kind \in {"remove", "evict"}
        /\ current' = [current EXCEPT ![op[p].key] = NoObject]
        /\ op' = [op EXCEPT ![p].pc = IF op[p].as = NoSession THEN "done" ELSE "dropped"]
        /\ UNCHANGED created
     \/ /\ op[p].kind \in {"read", "update"}
        /\ op' = [op EXCEPT ![p].pc = "done"]
        /\ UNCHANGED cacheVars
  /\ UNCHANGED <<owner, sessionVars, reserved, locker, call>>

(* The engines fail: the operation rejects and changes nothing. *)
OpFail(p) ==
  /\ op[p].pc = "acting"
  /\ op' = [op EXCEPT ![p].pc = "done"]
  /\ UNCHANGED <<cacheVars, owner, sessionVars, reserved, locker, call>>

(* records.remove() resumes and forgets the record it had locked. *)
OpForget(p) ==
  /\ op[p].pc = "dropped"
  /\ locked' = [locked EXCEPT ![op[p].as] = @ \ {op[p].rec}]
  /\ op' = [op EXCEPT ![p].pc = "done"]
  /\ UNCHANGED <<cacheVars, owner, released, pending, reserved, locker, call>>

-----------------------------------------------------------------------------
CallStep(c) ==
  \/ \E request \in Requests : Acquire(c, request)
  \/ ReservationResume(c)
  \/ Enlist(c)

SessionStep(s) ==
  \/ LockResume(s)
  \/ LockNext(s)
  \/ LockRefused(s)
  \/ Release(s)
  \/ Timeout(s)

OpStep(p) ==
  \/ \E kind \in Kinds, key \in Keys, as \in Sessions \cup {NoSession} :
       OpStart(p, kind, key, as)
  \/ "set" \in Kinds /\ \E key \in Keys : OpCreate(p, key)
  \/ OpResume(p)
  \/ OpAct(p)
  \/ OpFail(p)
  \/ OpForget(p)

Next ==
  \/ \E c \in Calls : CallStep(c)
  \/ \E s \in Sessions : SessionStep(s)
  \/ \E p \in Ops : OpStep(p)

Spec == Init /\ [][Next]_vars

(***************************************************************************)
(* Fairness: the event loop resumes what it can resume, timers fire and    *)
(* engines answer.  The client's acquire, release and cache calls are not  *)
(* obliged to happen.                                                      *)
(***************************************************************************)
Fairness ==
  /\ \A c \in Calls : WF_vars(ReservationResume(c)) /\ WF_vars(Enlist(c))
  /\ \A s \in Sessions : /\ WF_vars(LockResume(s))
                         /\ WF_vars(LockNext(s))
                         /\ WF_vars(LockRefused(s))
                         /\ WF_vars(Timeout(s))
  /\ \A p \in Ops : /\ WF_vars(OpResume(p))
                    /\ WF_vars(OpAct(p) \/ OpFail(p))
                    /\ WF_vars(OpForget(p))

FairSpec == Spec /\ Fairness

-----------------------------------------------------------------------------
(* Properties that hold *)

(* s holds o as far as its release() can tell: o is in storage.locked, or  *)
(* lock() has taken it and the loop is about to add it.                    *)
Holds(s, o) ==
  \/ o \in locked[s]
  \/ locker[s].pc = "granted" /\ locker[s].rec = o

(* A lock never leaks: the live session a cached record names as its       *)
(* #_session has that record on the books its release() walks.             *)
OwnerTracked ==
  \A o \in Objects : LET s == owner[o]
                     IN s # NoSession /\ InCache(o) => released[s] \/ Holds(s, o)

(* Nobody awaits a session that is not going to let the record go: the     *)
(* live session an acquire or a cache operation awaits for a cached record *)
(* holds that record, even if another has overwritten #_session since.     *)
WaitsOnHolder ==
  /\ \A s \in Sessions : locker[s].pc = "waiting" /\ InCache(locker[s].rec)
       => released[locker[s].on] \/ Holds(locker[s].on, locker[s].rec)
  /\ \A p \in Ops : op[p].pc = "waiting" /\ InCache(op[p].rec)
       => released[op[p].on] \/ Holds(op[p].on, op[p].rec)

(* The controller's #_pending map never names a session that has nothing   *)
(* left to do for the record: it is still gathered by one of its calls or  *)
(* is in its pending set.                                                  *)
ReservationTracked ==
  \A o \in Objects :
    reserved[o] # NoSession =>
      \/ o \in pending[reserved[o]]
      \/ \E c \in Calls : /\ Caller[c] = reserved[o]
                           /\ call[c].pc \in {"reserving", "gathered"}
                           /\ o \in call[c].got

(* acquire() keeps its promise: once it has resolved, and until the        *)
(* session is released, every record it gathered that is still cached is   *)
(* in the session's locked set, the call that joined another call's run    *)
(* included.                                                               *)
AcquireGrants ==
  \A c \in Calls :
    call[c].pc = "done" /\ ~released[Caller[c]] =>
      \A o \in call[c].got : InCache(o) => o \in locked[Caller[c]]

(* An acquire never awaits the promise of a run that is over. *)
RunServesItsCalls ==
  \A c \in Calls : call[c].pc = "locking" => locker[Caller[c]].pc # "idle"

(* A live session loses a record only by its own release or to a session   *)
(* that was waiting for one that has since been released; no third         *)
(* session's release or timeout frees it.                                  *)
LockLostOnlyToAWaiter ==
  [][\A o \in Objects :
       (owner[o] # NoSession /\ owner'[o] # owner[o]) =>
         \/ released'[owner[o]]
         \/ \E t \in Sessions : /\ owner'[o] = t
                                /\ locker[t].pc = "waiting"
                                /\ locker[t].rec = o
                                /\ released[locker[t].on]]_vars

(* release() and the timeout free every cached record the session holds,   *)
(* the one lock() has taken in the step before excepted.                   *)
ReleaseFreesAll ==
  [][\A s \in Sessions : ~released[s] /\ released'[s] =>
       \A o \in Objects : InCache(o) /\ owner'[o] = s =>
                            locker[s].pc = "granted" /\ locker[s].rec = o]_vars

(* With a timeout on every session, no acquire waits for ever: it resolves *)
(* or rejects, whoever reserved, holds or waits for the record.            *)
AcquireSettles ==
  \A c \in Calls : call[c].pc # "idle" ~> call[c].pc \in {"done", "failed"}

(* And no read, set or remove waits for ever. *)
OpsFinish ==
  \A p \in Ops : op[p].pc # "idle" ~> op[p].pc = "done"

-----------------------------------------------------------------------------
(* What the documentation promises and the code does not keep *)

(* README.md:331: acquire() "ensures exclusive write access": no two live  *)
(* sessions have locked the same cached record.                            *)
MutualExclusion ==
  \A s, t \in Sessions :
    s # t /\ ~released[s] /\ ~released[t] =>
      \A o \in locked[s] \cap locked[t] : ~InCache(o)

(* kvs.manager.ts:631-633: lock sessions are reentrant, a further lock     *)
(* does not block: no session waits for itself.                            *)
Reentrant ==
  \A s \in Sessions : locker[s].pc = "waiting" => locker[s].on # s

(* README.md:323: while an exclusive session holds a record, another       *)
(* session's acquire throws at once; it does not start to wait.            *)
ExclusiveRefuses ==
  [][\A c \in Calls :
       call[c].pc = "idle" /\ call'[c].pc = "reserving" =>
         LET holder == owner[call'[c].rec]
         IN ~(/\ holder \in Exclusive \ {Caller[c]}
              /\ ~released[holder]
              /\ call'[c].rec \in locked[holder])]_vars

(* README.md:331 and 347: only the session that acquired a record can      *)
(* update or remove it: an operation without a session that has waited     *)
(* does not go ahead while a live session has the record locked.           *)
WritersRespectLocks ==
  [][\A p \in Ops :
       (/\ op[p].pc = "waiting" /\ op'[p].pc = "acting"
        /\ op[p].kind \in {"set", "remove"}) =>
         owner[op[p].rec] = NoSession \/ released[owner[op[p].rec]]]_vars

(* README.md:339 and 346: a released or timed-out session frees its        *)
(* records: it does not take one afterwards.                               *)
ReleasedTakesNothing ==
  [][\A s \in Sessions :
       locker[s].pc = "waiting" /\ locker'[s].pc = "granted" => ~released[s]]_vars

(* README.md:315: other sessions can read a record while a session without *)
(* blockRead owns it.                                                      *)
ReadersNotBlocked ==
  \A p \in Ops : op[p].pc = "waiting" /\ op[p].kind = "read" => op[p].on \in BlockRead
=============================================================================
