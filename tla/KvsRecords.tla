----------------------------- MODULE KvsRecords -----------------------------
(***************************************************************************)
(* The life of key-value records: set, remove, expiry, eviction and clear  *)
(* of the KVs manager, with the record's _init, update and refreshTTL and  *)
(* the manager's and the records' listeners of the remove events.          *)
(*                                                                         *)
(* One storage engine, which answers its requests in any order             *)
(* (EnginesProxy models several engines, LockSessions the waits for        *)
(* sessions; both are left out here).  All removals go through an event:   *)
(* the manager's listener has the engine erase the record the map holds    *)
(* for the key and then drops the key.                                     *)
(*                                                                         *)
(* A key stands for an entry of the scope maps: a scope and a name in it.  *)
(* The maps and the engine tell scopes apart; the records' listeners and   *)
(* the tasks of the engines proxy go by the name alone.                    *)
(*                                                                         *)
(* A value is named by the set call that wrote it.  Time is left out: a    *)
(* scheduled expiry may come at any moment.                                *)
(***************************************************************************)
EXTENDS Naturals, FiniteSets

CONSTANTS
  Keys,
  ScopeOf,     \* ScopeOf[k]: the scope of k
  NameOf,      \* NameOf[k]: the name k has in its scope, record.key
  Objects,     \* bound: the KVCacheRecord objects a behaviour may create
  Sets,        \* bound: the calls of set
  KeyOf,       \* KeyOf[c]: the key set c is called with
  WithTTL,     \* the sets whose ttl is above 0
  Removes,     \* bound: the calls of remove
  Evictor,     \* names the eviction task
  Clearer,     \* names the clear() call
  MaxClears,   \* bound: the calls of clear
  Evicting,    \* configs.eviction.enabled
  MaxRecords,  \* configs.eviction.maxRecords
  Failing,     \* whether the engine may fail
  NoObject,
  NoValue

Removals == Objects \cup Removes \cup {Evictor, Clearer}

ASSUME ScopesAssumption ==
  \A j, k \in Keys : ScopeOf[j] = ScopeOf[k] /\ NameOf[j] = NameOf[k] => j = k
ASSUME SetsAssumption == KeyOf \in [Sets -> Keys] /\ WithTTL \subseteq Sets
ASSUME BoundsAssumption ==
  /\ MaxRecords \in Nat
  /\ MaxClears \in Nat
  /\ Evicting \in BOOLEAN
  /\ Failing \in BOOLEAN
ASSUME NamesAssumption ==
  /\ Keys # {}
  /\ NoObject \notin Objects
  /\ NoValue \notin Sets
  /\ Evictor # Clearer
  /\ {Evictor, Clearer} \cap (Objects \cup Removes) = {}
  /\ Objects \cap Removes = {}

VARIABLES
  current,    \* current[k]: the object the scope map holds for k
  record,     \* record[o]: key and TTL of a created object, ready after _init
  stored,     \* stored[k]: the value the engine keeps for k
  jobs,       \* the objects whose expiry job is scheduled
  listening,  \* the objects whose `once` listener of 'remove' is registered
  set,        \* set[c]: one call of set
  removal,    \* removal[x]: one removal event, or the bulk removal of clear
  clear,      \* a clear() in progress
  evict,      \* the records an eviction check in progress may still remove
  due,        \* the debounced eviction check is due
  robbed      \* observer: the objects whose job was cancelled by a removal of
              \* the same name in another scope

vars == <<current, record, stored, jobs, listening, set, removal, clear,
          evict, due, robbed>>

-----------------------------------------------------------------------------
(* Types *)

RecordState == [key: Keys, ttl: BOOLEAN, st: {"none", "new", "ready"}]

(***************************************************************************)
(* A set: writing the existing record's value, writing the new record's    *)
(* value, the engine has written it, settled.                              *)
(***************************************************************************)
SetState == [pc: {"idle", "updating", "initing", "written", "done", "failed"},
             rec: Objects \cup {NoObject}]

(* A removal: the manager's listener awaits the engine, or the proxy's     *)
(* task for a record of another scope, which it has joined; the engine has *)
(* answered; the event is over or its listener has thrown.                 *)
RemovalState == [pc: {"idle", "erasing", "joined", "erased", "done", "failed"},
                 key: Keys]

(* A clear(): the keys of its scopes, the records it has still to remove.  *)
ClearState == [on: BOOLEAN, keys: SUBSET Keys, todo: SUBSET Objects,
               calls: 0..MaxClears]
EvictState == [on: BOOLEAN, items: SUBSET Objects]

SomeKey == CHOOSE k \in Keys : TRUE
RemovalIs(pc) == [pc |-> pc, key |-> SomeKey]

(* Type invariant. *)
TypeOK ==
  /\ current \in [Keys -> Objects \cup {NoObject}]
  /\ record \in [Objects -> RecordState]
  /\ stored \in [Keys -> Sets \cup {NoValue}]
  /\ jobs \in SUBSET Objects
  /\ listening \in SUBSET Objects
  /\ set \in [Sets -> SetState]
  /\ removal \in [Removals -> RemovalState]
  /\ clear \in ClearState
  /\ evict \in EvictState
  /\ due \in BOOLEAN
  /\ robbed \in SUBSET Objects

Init ==
  /\ current = [k \in Keys |-> NoObject]
  /\ record = [o \in Objects |-> [key |-> SomeKey, ttl |-> FALSE, st |-> "none"]]
  /\ stored = [k \in Keys |-> NoValue]
  /\ jobs = {}
  /\ listening = {}
  /\ set = [c \in Sets |-> [pc |-> "idle", rec |-> NoObject]]
  /\ removal = [x \in Removals |-> RemovalIs("idle")]
  /\ clear = [on |-> FALSE, keys |-> {}, todo |-> {}, calls |-> 0]
  /\ evict = [on |-> FALSE, items |-> {}]
  /\ due = FALSE
  /\ robbed = {}

SameName(j, k) == NameOf[j] = NameOf[k]

(* Mutant of Cached: keys without a record are not skipped. *)
CachedOrMissing == {current[k] : k \in Keys}

Cached == {current[k] : k \in Keys} \ {NoObject}
Size == Cardinality(Cached)

-----------------------------------------------------------------------------
(* set *)

(* A fresh record takes the key's place in the map and listens for its     *)
(* removal; the engine is asked to write.                                  *)
NewRecord(c) ==
  LET fresh == {o \in Objects : record[o].st = "none"}
      new == CHOOSE o \in fresh : TRUE
  IN /\ fresh # {}
     /\ record' = [record EXCEPT
          ![new] = [key |-> KeyOf[c], ttl |-> c \in WithTTL, st |-> "new"]]
     /\ current' = [current EXCEPT ![KeyOf[c]] = new]
     /\ listening' = listening \cup {new}
     /\ set' = [set EXCEPT ![c] = [pc |-> "initing", rec |-> new]]

(* set() of the public interface: refused while clearing, it schedules an  *)
(* eviction check and updates the record there is or creates one.          *)
SetStart(c) ==
  /\ set[c].pc = "idle"
  /\ ~clear.on
  /\ due' = Evicting
  /\ \/ /\ current[KeyOf[c]] # NoObject
        /\ set' = [set EXCEPT ![c] = [pc |-> "updating", rec |-> current[KeyOf[c]]]]
        /\ UNCHANGED <<current, record, listening>>
     \/ /\ current[KeyOf[c]] = NoObject
        /\ NewRecord(c)
  /\ UNCHANGED <<stored, jobs, removal, clear, evict, robbed>>

(* The old record's value is written: register.update() reschedules its    *)
(* expiry if it was accessed since, and a new record replaces it.          *)
SetUpdated(c) ==
  LET o == set[c].rec
  IN /\ set[c].pc = "updating"
     /\ stored' = [stored EXCEPT ![KeyOf[c]] = c]
     /\ jobs' \in IF record[o].ttl THEN {jobs, jobs \cup {o}} ELSE {jobs}
     /\ NewRecord(c)
     /\ UNCHANGED <<removal, clear, evict, due, robbed>>

SetWritten(c) ==
  /\ set[c].pc = "initing"
  /\ stored' = [stored EXCEPT ![KeyOf[c]] = c]
  /\ set' = [set EXCEPT ![c].pc = "written"]
  /\ UNCHANGED <<current, record, jobs, listening, removal, clear, evict, due, robbed>>

(* _init() goes on: the expiry is scheduled, the create event is emitted.  *)
SetDone(c) ==
  LET o == set[c].rec
  IN /\ set[c].pc = "written"
     /\ jobs' = IF record[o].ttl THEN jobs \cup {o} ELSE jobs
     /\ record' = [record EXCEPT ![o].st = "ready"]
     /\ set' = [set EXCEPT ![c] = [pc |-> "done", rec |-> NoObject]]
     /\ UNCHANGED <<current, stored, listening, removal, clear, evict, due, robbed>>

(* The engine fails: a new record stays in the map without a value. *)
SetFails(c) ==
  /\ Failing
  /\ set[c].pc \in {"updating", "initing"}
  /\ set' = [set EXCEPT ![c] = [pc |-> "failed", rec |-> NoObject]]
  /\ UNCHANGED <<current, record, stored, jobs, listening, removal, clear, evict, due,
                 robbed>>

-----------------------------------------------------------------------------
(* Removal events *)

(* Mutant of Notified: a listener cancels its job whatever key the event   *)
(* is about.                                                               *)
NotifiedAll(k, scheduled) ==
  /\ jobs' = scheduled \ listening
  /\ robbed' = robbed \cup {o \in listening \cap scheduled :
                            record[o].key # k /\ SameName(record[o].key, k)}
  /\ listening' = {}

(* The records' own listeners come after the manager's.  Each is called    *)
(* once and then gone, whether or not the event was about its key, and     *)
(* does not look at the event's scope.                                     *)
Notified(k, scheduled) ==
  LET cancelled == {o \in listening : SameName(record[o].key, k)}
  IN /\ jobs' = scheduled \ cancelled
     /\ robbed' = robbed \cup {o \in cancelled \cap scheduled : record[o].key # k}
     /\ listening' = {}

Erases(k) == \E x \in Removals : removal[x].pc = "erasing" /\ removal[x].key = k

(* The proxy's task is named by the record's name: who finds one for a     *)
(* record of another scope awaits that one, and nothing of its own is      *)
(* erased.                                                                 *)
Ask(k) == [pc |-> IF \E j \in Keys \ {k} : Erases(j) /\ SameName(j, k)
                  THEN "joined" ELSE "erasing",
           key |-> k]

(* Those who are answered when the task that erases k is over. *)
Asked(k) == {x \in Removals : \/ removal[x].pc = "erasing" /\ removal[x].key = k
                              \/ removal[x].pc = "joined" /\ SameName(removal[x].key, k)}

(* A 'remove' event of x about o's key: the manager's listener looks the   *)
(* key up and asks the engine to erase it.                                 *)
Emit(x, o, scheduled) ==
  LET k == record[o].key
  IN \/ /\ current[k] # NoObject
        /\ removal' = [removal EXCEPT ![x] = Ask(k)]
        /\ jobs' = scheduled
        /\ UNCHANGED <<listening, robbed>>
     \/ /\ current[k] = NoObject
        /\ removal' = [removal EXCEPT ![x] = RemovalIs("done")]
        /\ Notified(k, scheduled)

InFlight(x) == removal[x].pc \in {"erasing", "joined", "erased"}

(* remove(k) of the public interface. *)
Remove(x, k) ==
  /\ x \in Removes
  /\ removal[x].pc = "idle"
  /\ ~clear.on
  /\ current[k] # NoObject
  /\ Emit(x, current[k], jobs)
  /\ UNCHANGED <<current, record, stored, set, clear, evict, due>>

(* Mutant of Expire: a job that fires while the cache is cleared is lost. *)
ExpireUnlessClearing(o) ==
  /\ o \in jobs
  /\ ~InFlight(o)
  /\ \/ ~clear.on /\ Emit(o, o, jobs \ {o})
     \/ clear.on /\ jobs' = jobs \ {o} /\ UNCHANGED <<removal, listening, robbed>>
  /\ UNCHANGED <<current, record, stored, set, clear, evict, due>>

(* The expiry job of o fires. *)
Expire(o) ==
  /\ o \in jobs
  /\ ~InFlight(o)
  /\ Emit(o, o, jobs \ {o})
  /\ UNCHANGED <<current, record, stored, set, clear, evict, due>>

(* The engine has erased k. *)
Erased(k) ==
  /\ Erases(k)
  /\ removal' = [x \in Removals |->
       IF x \in Asked(k) THEN [removal[x] EXCEPT !.pc = "erased"] ELSE removal[x]]
  /\ stored' = [stored EXCEPT ![k] = NoValue]
  /\ UNCHANGED <<current, record, jobs, listening, set, clear, evict, due, robbed>>

(* Mutant of EraseFails: a failed clear() leaves its flag up. *)
EraseFailsKeepsFlag(k) ==
  /\ Failing
  /\ Erases(k)
  /\ removal' = [x \in Removals |->
       IF x \in Asked(k) THEN [removal[x] EXCEPT !.pc = "failed"] ELSE removal[x]]
  /\ clear' = IF Clearer \in Asked(k) THEN [clear EXCEPT !.todo = {}] ELSE clear
  /\ evict' = IF Evictor \in Asked(k) THEN [on |-> FALSE, items |-> {}] ELSE evict
  /\ UNCHANGED <<current, record, stored, jobs, listening, set, due, robbed>>

(* The engine fails to erase: the listener throws, the record stays; an    *)
(* eviction check or a clear() ends with the error.                        *)
EraseFails(k) ==
  /\ Failing
  /\ Erases(k)
  /\ removal' = [x \in Removals |->
       IF x \in Asked(k) THEN [removal[x] EXCEPT !.pc = "failed"] ELSE removal[x]]
  /\ clear' = IF Clearer \in Asked(k)
              THEN [clear EXCEPT !.on = FALSE, !.todo = {}] ELSE clear
  /\ evict' = IF Evictor \in Asked(k) THEN [on |-> FALSE, items |-> {}] ELSE evict
  /\ UNCHANGED <<current, record, stored, jobs, listening, set, due, robbed>>

(* Mutant of Drop: a record that is still being created is kept. *)
DropUnlessNew(x) ==
  LET k == removal[x].key
      kept == {o \in Cached : record[o].st = "new"}
  IN /\ removal[x].pc = "erased"
     /\ removal' = [removal EXCEPT ![x] = RemovalIs("done")]
     /\ current' = [current EXCEPT ![k] = IF @ \in kept THEN @ ELSE NoObject]
     /\ IF x = Clearer THEN UNCHANGED <<jobs, listening, robbed>> ELSE Notified(k, jobs)
     /\ UNCHANGED <<record, stored, set, clear, evict, due>>

(* The manager's listener resumes and drops the key, whatever record it    *)
(* leads to by now.  A bulk removal does not reach the records' listeners. *)
Drop(x) ==
  LET k == removal[x].key
  IN /\ removal[x].pc = "erased"
     /\ removal' = [removal EXCEPT ![x] = RemovalIs("done")]
     /\ current' = [current EXCEPT ![k] = NoObject]
     /\ IF x = Clearer THEN UNCHANGED <<jobs, listening, robbed>> ELSE Notified(k, jobs)
     /\ UNCHANGED <<record, stored, set, clear, evict, due>>

-----------------------------------------------------------------------------
(* Eviction *)

(* The debounced check.  It is dropped while the task of an earlier one is *)
(* in the queue; with no record too many the task ends as it begins.  The  *)
(* timer (100 ms) does not elapse between two awaits that have settled.    *)
EvictionDue ==
  /\ due
  /\ evict.on => InFlight(Evictor)
  /\ due' = FALSE
  /\ evict' = IF evict.on \/ Size <= MaxRecords THEN evict
              ELSE [on |-> TRUE, items |-> Cached]
  /\ UNCHANGED <<current, record, stored, jobs, listening, set, removal, clear, robbed>>

(* The next of the records sorted when the check began (here: any of them) *)
(* is evicted while there are too many.                                    *)
EvictNext ==
  /\ evict.on
  /\ ~InFlight(Evictor)
  /\ Size > MaxRecords
  /\ \E o \in evict.items :
       /\ evict' = [evict EXCEPT !.items = @ \ {o}]
       /\ Emit(Evictor, o, jobs)
  /\ UNCHANGED <<current, record, stored, set, clear, due>>

EvictEnds ==
  /\ evict.on
  /\ ~InFlight(Evictor)
  /\ Size <= MaxRecords \/ evict.items = {}
  /\ evict' = [on |-> FALSE, items |-> {}]
  /\ UNCHANGED <<current, record, stored, jobs, listening, set, removal, clear, due,
                 robbed>>

-----------------------------------------------------------------------------
(* clear *)

(* clear() of everything, or of one scope. *)
Clearable == {Keys} \cup {{k \in Keys : ScopeOf[k] = ScopeOf[j]} : j \in Keys}

(* The records are collected into one bulk removal (bound: fewer than the  *)
(* 1000 of a batch).                                                       *)
ClearStart ==
  /\ ~clear.on
  /\ clear.calls < MaxClears
  /\ \E ks \in Clearable :
       clear' = [on |-> TRUE, keys |-> ks, todo |-> {current[k] : k \in ks} \cap Cached,
                 calls |-> clear.calls + 1]
  /\ removal' = [removal EXCEPT ![Clearer] = RemovalIs("idle")]
  /\ UNCHANGED <<current, record, stored, jobs, listening, set, evict, due, robbed>>

(* The bulk removal takes its items one after the other. *)
ClearNext ==
  /\ clear.on
  /\ ~InFlight(Clearer)
  /\ \E o \in clear.todo :
       LET k == record[o].key
       IN /\ clear' = [clear EXCEPT !.todo = @ \ {o}]
          /\ removal' = [removal EXCEPT ![Clearer] =
               IF current[k] # NoObject THEN Ask(k) ELSE RemovalIs("done")]
  /\ UNCHANGED <<current, record, stored, jobs, listening, set, evict, due, robbed>>

(* All are removed and the flag is lowered; with an empty cache the        *)
(* eviction check is called off.                                           *)
ClearEnd ==
  /\ clear.on
  /\ removal[Clearer].pc \in {"idle", "done"}
  /\ clear.todo = {}
  /\ clear' = [clear EXCEPT !.on = FALSE]
  /\ due' = (due /\ Size > 0)
  /\ UNCHANGED <<current, record, stored, jobs, listening, set, removal, evict, robbed>>

-----------------------------------------------------------------------------
Client ==
  \/ \E c \in Sets : SetStart(c)
  \/ \E x \in Removes, k \in Keys : Remove(x, k)
  \/ ClearStart

SetStep(c) == SetUpdated(c) \/ SetWritten(c) \/ SetDone(c) \/ SetFails(c)
EraseStep(k) == Erased(k) \/ EraseFails(k)
EvictStep == EvictionDue \/ EvictNext \/ EvictEnds
ClearStep == ClearNext \/ ClearEnd

Next ==
  \/ Client
  \/ \E c \in Sets : SetStep(c)
  \/ \E k \in Keys : EraseStep(k)
  \/ \E o \in Objects : Expire(o)
  \/ \E x \in Removals : Drop(x)
  \/ EvictStep
  \/ ClearStep

Spec == Init /\ [][Next]_vars

(* The engine answers, jobs and timers fire, what is awaited resumes. *)
FairSpec ==
  /\ Spec
  /\ \A c \in Sets : WF_vars(SetStep(c))
  /\ \A k \in Keys : WF_vars(EraseStep(k))
  /\ \A o \in Objects : WF_vars(Expire(o))
  /\ \A x \in Removals : WF_vars(Drop(x))
  /\ WF_vars(EvictStep)
  /\ WF_vars(ClearStep)

-----------------------------------------------------------------------------
(* Properties that hold *)

Busy(k) ==
  \/ \E c \in Sets : /\ set[c].pc \in {"updating", "initing", "written"}
                     /\ KeyOf[c] = k
  \/ \E x \in Removals : InFlight(x) /\ removal[x].key = k

SetFailed(k) == \E c \in Sets : set[c].pc = "failed" /\ KeyOf[c] = k
RemovalFailed(k) == \E x \in Removals : removal[x].pc = "failed" /\ removal[x].key = k

(* A record in the map has a value in the engine as soon as nothing is     *)
(* under way for its key, if no set of the key has failed: however sets    *)
(* and removals overlap, a removal that erases also drops.                 *)
NoDanglingRecord ==
  \A k \in Keys : current[k] # NoObject /\ ~Busy(k) /\ ~SetFailed(k)
    => stored[k] # NoValue

(* Only a removal of the same name in another scope takes a cached         *)
(* record's expiry from it: whatever replacements, removals and evictions  *)
(* overlap, and whoever's removal its listener is spent on, its own expiry *)
(* is still scheduled, unless the removal it began has failed.             *)
ExpiryScheduled ==
  \A k \in Keys :
    LET o == current[k]
    IN (/\ o # NoObject /\ record[o].ttl /\ record[o].st = "ready"
        /\ ~Busy(k) /\ ~RemovalFailed(k))
       => o \in jobs \cup robbed

(* A clear() always ends and lowers the flag that refuses all other calls. *)
ClearEnds == clear.on ~> ~clear.on

(* A record with a TTL leaves the map, unless a removal of its key fails   *)
(* or one of the same name in another scope has cancelled its job.         *)
RecordsExpire ==
  \A k \in Keys, o \in Objects :
    (current[k] = o /\ record[o].ttl /\ record[o].st = "ready")
      ~> (current[k] # o \/ RemovalFailed(k) \/ o \in robbed)

-----------------------------------------------------------------------------
(* What the documentation promises and the code does not keep *)

(* kvs.manager.ts:659: "If the key already exists, its value and TTL are   *)
(* updated": an expiry drops the record whose TTL has run out, not the one *)
(* that has replaced it.                                                   *)
ExpiresOwnRecord ==
  [][\A o \in Objects :
       removal[o].pc = "erased" /\ removal'[o].pc = "done"
         => current[removal[o].key] \in {o, NoObject}]_vars

(* README.md:230: "Scopes allow logical separation of data": what happens  *)
(* in another scope leaves a record its expiry.                            *)
ScopesSeparate == robbed = {}

(* kvs.manager.ts:755: clear() "clears the cache for the specified scope   *)
(* or for all scopes": they are empty when a clear() that did not fail     *)
(* resolves.                                                               *)
ClearEmpties ==
  [][clear.on /\ ~clear'.on /\ removal'[Clearer].pc # "failed"
       => \A k \in clear.keys : current'[k] = NoObject]_vars

(* kvs.manager.ts:113 asserts (`get(...)!`) that the record whose creation *)
(* is announced is in the map.                                             *)
CreateFindsRecord ==
  [][\A c \in Sets : set[c].pc = "written" /\ set'[c].pc = "done"
       => current[KeyOf[c]] # NoObject]_vars

(* kvs.manager.ts:660-661: when the limit is reached a record is removed:  *)
(* with nothing under way the cache is within its limit.                   *)
LimitKept ==
  (/\ \A k \in Keys : ~Busy(k)
   /\ ~evict.on /\ ~due)
  => Size <= MaxRecords
=============================================================================
