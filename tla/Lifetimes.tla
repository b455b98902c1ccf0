------------------------------ MODULE Lifetimes ------------------------------
(***************************************************************************)
(* How long records live and where they are stored: the options of set,    *)
(* the defaults of the configuration and of the manager behind them, the   *)
(* dates and the expiry job of each record, the cleaning of idle records,  *)
(* and the way of a record through a backup, a restart and a restore.      *)
(*                                                                         *)
(* A key stands for a scope and a name in it; two scopes may use one name. *)
(* Each call is one step here: KvsRecords and FilesRecords have the awaits *)
(* inside.                                                                 *)
(***************************************************************************)
EXTENDS Integers

CONSTANTS
  Flavors,      \* the managers looked at: "kvs", "files"
  Keys,
  Names,        \* of the keys, and of keys not looked at
  NameOf,       \* NameOf[k]: the name of k in its scope
  Engines,      \* the names of engines
  memory,       \* the engine that is always defined
  Absent,       \* an option that is not given
  Bad,          \* an option of another type or out of its range
  Options,      \* the options clients give to set
  Assignments,  \* Assignments[f]: the values clients assign to a setting f
  DefaultTTL,   \* 300_000 ms
  DefaultIdle,  \* 60_000 ms
  MaxTime       \* bound: the clock stops there

ASSUME OptionsAssumption ==
  /\ Flavors \subseteq {"kvs", "files"}
  /\ memory \in Engines
  /\ \A o \in Options :
       /\ o.storeIn \in {Absent, Bad} \/ o.storeIn \subseteq Engines
       /\ o.ttl \in {Absent, Bad} \/ o.ttl \in Int
       /\ o.policy \in {Absent, Bad, "evict", "keep"}
       /\ o.sliding \in {Absent, Bad, TRUE, FALSE}
       /\ o.preload \in {Absent, Bad, "warmup"}
ASSUME NamesAssumption ==
  \A none \in {Absent, Bad} : /\ none \notin Int /\ none \notin BOOLEAN
                              /\ none \notin {"evict", "keep"}
                              /\ \A named \in SUBSET Engines : none # named
ASSUME SettingsAssumption ==
  DOMAIN Assignments \subseteq {"ttlOn", "ttl", "policy", "sliding", "idleOn", "maxIdle"}
ASSUME KeysAssumption == NameOf \in [Keys -> Names]
ASSUME TimesAssumption ==
  DefaultTTL \in Nat \ {0} /\ DefaultIdle \in Nat \ {0} /\ MaxTime \in Nat \ {0}

None == [ttl |-> -1]  \* no record
Never == 0            \* an undefined date

VARIABLES
  flavor,
  now,
  config,    \* KVsCacheConfig or FilesCacheConfig
  cleaner,   \* the cron job that removes idle records is started
  engines,   \* the engines that are defined
  defaults,  \* the manager's default engines
  record,    \* record[k]: the record of k
  job,       \* job[k]: when the record's expiry job is due
  deaf,      \* the records whose one 'remove' event has been told them
  robbed,    \* the records whose job another record's removal cancelled
  stray,     \* the jobs of records that are gone
  saved      \* saved[k]: the record whose line is in the backup

vars == <<flavor, now, config, cleaner, engines, defaults, record, job, deaf, robbed, stray, saved>>
setup == <<flavor, config, cleaner, engines, defaults>>

-----------------------------------------------------------------------------
(* Types *)

Stats == [created: 1..MaxTime, lastAccess: 0..MaxTime, expireAt: Nat]
IsRecord(r) ==
  /\ r.ttl \in Nat
  /\ r.policy \in {"evict", "keep"}
  /\ r.sliding \in BOOLEAN
  /\ r.restored \in BOOLEAN
  /\ r.stats \in Stats

(* Type invariant. *)
TypeOK ==
  /\ flavor \in Flavors
  /\ now \in 1..MaxTime
  /\ config \in [ttlOn: BOOLEAN, ttl: Nat, policy: {"evict", "keep"}, sliding: BOOLEAN,
                 idleOn: BOOLEAN, maxIdle: Nat \ {0}]
  /\ cleaner \in BOOLEAN
  /\ \A k \in Keys :
       /\ record[k] # None => IsRecord(record[k])
       /\ saved[k] # None => IsRecord(saved[k])
       /\ job[k] # Never => record[k].ttl > 0
  /\ deaf \subseteq {k \in Keys : record[k] # None}
  /\ robbed \subseteq {k \in deaf : job[k] = Never}
  /\ stray \subseteq Keys \X Nat

DefaultConfig ==
  [ttlOn |-> TRUE, ttl |-> DefaultTTL, policy |-> "evict", sliding |-> TRUE,
   idleOn |-> FALSE, maxIdle |-> DefaultIdle]

Empty(v) == [k \in Keys |-> v]

Init ==
  /\ flavor \in Flavors
  /\ now = 1
  /\ config = DefaultConfig /\ cleaner = TRUE
  /\ engines = {memory} /\ defaults = {memory}
  /\ record = Empty(None) /\ job = Empty(Never) /\ deaf = {} /\ robbed = {}
  /\ stray = {} /\ saved = Empty(None)

Tick ==
  /\ now < MaxTime
  /\ now' = now + 1
  /\ UNCHANGED <<setup, record, job, deaf, robbed, stray, saved>>

-----------------------------------------------------------------------------
(* Settings: an assignment that is not accepted throws and changes nothing *)

Accepts(f, v) ==
  CASE f = "ttl"     -> v \in Nat
    [] f = "policy"  -> v \in IF flavor = "kvs" THEN {"evict"} ELSE {"evict", "keep"}
    [] f = "maxIdle" -> v \in Nat \ {0}
    [] OTHER         -> v \in BOOLEAN

(* The change of idle.enabled starts or stops the cleaning job. *)
StatusChanged(f, v) == cleaner' = IF f = "idleOn" /\ v # config.idleOn THEN v ELSE cleaner

(* A TTL value also enables or disables the TTL. *)
Assign(f, v) ==
  /\ Accepts(f, v)
  /\ config' = IF f = "ttl" THEN [[config EXCEPT !.ttl = v] EXCEPT !.ttlOn = v > 0]
                            ELSE [config EXCEPT ![f] = v]
  /\ StatusChanged(f, v)
  /\ UNCHANGED <<flavor, now, engines, defaults, record, job, deaf, robbed, stray, saved>>

(* undefined, {} here, resets them; an empty list throws. *)
DefaultEngines(named) ==
  /\ named \subseteq engines
  /\ defaults' = IF named = {} THEN {memory} ELSE named
  /\ UNCHANGED <<flavor, now, config, cleaner, engines, record, job, deaf, robbed, stray, saved>>

DefineEngine(e) ==
  /\ e \notin engines
  /\ engines' = engines \cup {e}
  /\ UNCHANGED <<flavor, now, config, cleaner, defaults, record, job, deaf, robbed, stray, saved>>

-----------------------------------------------------------------------------
(* The life of a record *)

(* Mutant of Base: the last access is not looked at. *)
BaseCreated(r) == r.stats.created

Base(r) ==
  IF r.sliding /\ r.stats.lastAccess # Never THEN r.stats.lastAccess ELSE r.stats.created

Stamped(r, lastAccess, expireAt) ==
  [r EXCEPT !.stats = [created |-> r.stats.created, lastAccess |-> lastAccess,
                       expireAt |-> expireAt]]

(* refreshTTL: an expiry that is the recorded one schedules no job.        *)
Refresh(k, r) ==
  LET at == Base(r) + r.ttl
      stays == r.ttl = 0 \/ at = r.stats.expireAt
  IN /\ record' = [record EXCEPT ![k] =
                     IF stays THEN r ELSE Stamped(r, r.stats.lastAccess, at)]
     /\ job' = [job EXCEPT ![k] = IF stays THEN @ ELSE at]
     /\ robbed' = IF stays THEN robbed ELSE robbed \ {k}

(* The removal of a record of this name, in whatever scope, is told to     *)
(* every record that has been told of none: those of the name cancel their *)
(* jobs.                                                                   *)
Told(name, gone) ==
  LET listening == {j \in Keys \ deaf : NameOf[j] = name}
  IN /\ record' = [j \in Keys |-> IF j \in gone THEN None ELSE record[j]]
     /\ job' = [j \in Keys |-> IF j \in gone \cup listening THEN Never ELSE job[j]]
     /\ deaf' = {j \in Keys \ gone : record[j] # None}
     /\ robbed' = (robbed \cup {j \in listening : job[j] # Never}) \ gone

(* Mutant of Removed: the record's job is not cancelled. *)
RemovedOnly(k) ==
  /\ record' = [record EXCEPT ![k] = None]
  /\ deaf' = {j \in Keys \ {k} : record[j] # None}
  /\ robbed' = robbed \ {k}
  /\ UNCHANGED job

Removed(k) == Told(NameOf[k], {k})

(* A record that is deaf when it is removed leaves its job scheduled. *)
LeftJob(k) ==
  IF k \in deaf /\ job[k] # Never /\ record[k].policy = "evict" THEN {<<k, job[k]>>} ELSE {}

(* The options are checked, then the defaults of now fill them. *)
ValidOptions(o) ==
  /\ o.storeIn # Bad
  /\ o.storeIn # Absent => o.storeIn \subseteq engines
  /\ o.ttl # Bad /\ o.sliding # Bad /\ o.preload # Bad
  /\ flavor = "files" => o.policy # Bad

Or(given, default) == IF given = Absent THEN default ELSE given

EnginesOf(o) == IF o.storeIn \in {Absent, {}} THEN defaults ELSE o.storeIn

(* A record with no positive TTL keeps none of its TTL settings. *)
NewRecord(o, stats, restored) ==
  LET ttl == Or(o.ttl, IF config.ttlOn THEN config.ttl ELSE 0)
  IN [engines  |-> EnginesOf(o),
      ttl      |-> IF ttl > 0 THEN ttl ELSE 0,
      sliding  |-> ttl > 0 /\ Or(o.sliding, config.sliding),
      policy   |-> IF ttl > 0 /\ flavor = "files" THEN Or(o.policy, config.policy)
                                                  ELSE "evict",
      restored |-> restored,
      stats    |-> stats]

(* The key is free: _init of a new record refreshes its TTL. *)
Create(k, o, stats, restored) ==
  /\ record[k] = None
  /\ ValidOptions(o)
  /\ Refresh(k, NewRecord(o, stats, restored))
  /\ UNCHANGED <<now, setup, deaf, stray, saved>>

Set(k, o) ==
  Create(k, o, [created |-> now, lastAccess |-> Never, expireAt |-> Never], FALSE)

(* read and touch; a files set on a record there is only touches it.       *)
Access(k) ==
  /\ record[k] # None
  /\ LET r == Stamped(record[k], now, record[k].stats.expireAt)
     IN IF flavor = "files"
        THEN Refresh(k, r)
        ELSE record' = [record EXCEPT ![k] = r] /\ UNCHANGED <<job, robbed>>
  /\ UNCHANGED <<now, setup, deaf, stray, saved>>

(* update of a key-value record refreshes its TTL and is no access. *)
Update(k) ==
  /\ flavor = "kvs"
  /\ record[k] # None
  /\ Refresh(k, record[k])
  /\ UNCHANGED <<now, setup, deaf, stray, saved>>

(* An expiry job: 'keep' only drops the content of the file.               *)
Expire(k) ==
  /\ job[k] # Never /\ job[k] <= now
  /\ IF record[k].policy = "evict"
     THEN Removed(k)
     ELSE job' = [job EXCEPT ![k] = Never] /\ UNCHANGED <<record, deaf, robbed>>
  /\ UNCHANGED <<now, setup, stray, saved>>

(* The job of a record that is gone removes the one there is now.          *)
StrayExpires(k, at) ==
  /\ <<k, at>> \in stray
  /\ at <= now
  /\ Removed(k)
  /\ stray' = (stray \ {<<k, at>>}) \cup LeftJob(k)
  /\ UNCHANGED <<now, setup, saved>>

(* A record not looked at here is removed: of another name, or of the same *)
(* name in another scope.                                                  *)
OtherRemoved(name) ==
  /\ Told(name, {})
  /\ UNCHANGED <<now, setup, stray, saved>>

Idle(k) ==
  /\ record[k] # None
  /\ now - (IF record[k].stats.lastAccess # Never THEN record[k].stats.lastAccess
                                                  ELSE record[k].stats.created)
       > config.maxIdle

(* The cleaning job, at one record. *)
CleanIdle(k) ==
  /\ cleaner /\ config.idleOn
  /\ Idle(k)
  /\ Removed(k)
  /\ stray' = stray \cup LeftJob(k)
  /\ UNCHANGED <<now, setup, saved>>

-----------------------------------------------------------------------------
(* Backup, restart and restore *)

(* Mutant of Exported: the TTL of a record without one is left out. *)
ExportedTimed(r) ==
  [engines |-> r.engines, ttl |-> r.ttl, sliding |-> r.sliding,
   given |-> r.ttl > 0, stats |-> r.stats]

(* The line of a record; its policy is not in it. *)
Exported(r) ==
  [engines |-> r.engines, ttl |-> r.ttl, sliding |-> r.sliding,
   given |-> TRUE, stats |-> r.stats]

Export(k) ==
  /\ record[k] # None
  /\ saved' = [saved EXCEPT ![k] = record[k]]
  /\ UNCHANGED <<now, setup, record, job, deaf, robbed, stray>>

(* The options a restore gives to set. *)
LineOptions(l) ==
  [storeIn |-> l.engines,
   ttl     |-> IF l.given THEN l.ttl ELSE Absent,
   sliding |-> IF l.given THEN l.sliding ELSE Absent,
   policy  |-> Absent,
   preload |-> "restore"]

(* A line that has expired is skipped; one whose set throws is logged.     *)
Restore(k) ==
  /\ saved[k] # None
  /\ LET l == Exported(saved[k])
     IN /\ l.stats.expireAt # Never => now < l.stats.expireAt
        /\ Create(k, LineOptions(l), l.stats, TRUE)

Restart ==
  /\ config' = DefaultConfig /\ cleaner' = TRUE
  /\ engines' = {memory} /\ defaults' = {memory}
  /\ record' = Empty(None) /\ job' = Empty(Never) /\ deaf' = {}
  /\ robbed' = {} /\ stray' = {}
  /\ UNCHANGED <<flavor, now, saved>>

-----------------------------------------------------------------------------
Next ==
  \/ Tick
  \/ \E f \in DOMAIN Assignments : \E v \in Assignments[f] : Assign(f, v)
  \/ \E named \in SUBSET Engines : DefaultEngines(named)
  \/ \E e \in Engines : DefineEngine(e)
  \/ \E k \in Keys :
       \/ \E o \in Options : Set(k, o)
       \/ Access(k) \/ Update(k)
       \/ Expire(k) \/ CleanIdle(k)
       \/ Export(k) \/ Restore(k)
  \/ \E s \in stray : StrayExpires(s[1], s[2])
  \/ \E name \in Names : OtherRemoved(name)
  \/ Restart

Spec == Init /\ [][Next]_vars

-----------------------------------------------------------------------------
(* Properties that hold *)

Settings(r) == [engines |-> r.engines, ttl |-> r.ttl, sliding |-> r.sliding]

(* A restored record has the engines, the TTL, the dates and the sliding   *)
(* it had when it was exported, or none if it had none, whatever the       *)
(* configuration and the default engines have become.                      *)
RestoredAsSaved ==
  [][\A k \in Keys :
       record[k] = None /\ record'[k] # None /\ record'[k].restored =>
         /\ Settings(record'[k]) = Settings(saved[k])
         /\ record'[k].stats.created = saved[k].stats.created
         /\ record'[k].stats.lastAccess = saved[k].stats.lastAccess]_vars

(* The expiry job of a record is due at the date the record shows, never   *)
(* before its TTL is over (counted from the last access when it slides; a  *)
(* key-value record slides with its updates only).  A record has no such   *)
(* job only if it is kept after its expiry, or restored and not refreshed, *)
(* or if a record of the same name was removed in another scope since its  *)
(* last refresh.                                                           *)
JobOnTime ==
  \A k \in Keys :
    LET r == record[k] IN
    r # None /\ r.ttl > 0 =>
      /\ job[k] # Never =>
           /\ job[k] = r.stats.expireAt
           /\ job[k] >= r.stats.created + r.ttl
           /\ flavor = "files" /\ r.sliding => job[k] >= r.stats.lastAccess + r.ttl
      /\ job[k] = Never =>
           \/ r.policy = "keep" /\ r.stats.expireAt <= now
           \/ r.restored /\ r.stats.expireAt = saved[k].stats.expireAt
           \/ k \in robbed

-----------------------------------------------------------------------------
(* What the documentation promises and the code does not keep *)

(* TTLConfig.ts:65: "When disabled, all records will remain in the cache   *)
(* indefinitely."  The records there are keep their expiry jobs.           *)
DisabledKeepsAll == ~config.ttlOn => \A k \in Keys : job[k] = Never

(* README.md:230: scopes "allow logical separation of data".  A removal in *)
(* one takes the expiry job of a record of the same name in another.       *)
ScopesSeparate == robbed = {}

(* TTLConfig.ts:45: a sliding TTL "will be updated every time the record   *)
(* is accessed".  Reading a key-value record does not.                     *)
SlidesWithReads ==
  \A k \in Keys : job[k] # Never => job[k] = Base(record[k]) + record[k].ttl

(* A restored record expires as it would have before: it has no job.       *)
RestoredExpires ==
  \A k \in Keys : record[k] # None /\ record[k].ttl > 0 /\ record[k].restored =>
    job[k] # Never \/ record[k].policy = "keep"

(* The expiry policy of a record is the one it had when it was exported.   *)
PolicyKept ==
  \A k \in Keys : record[k] # None /\ record[k].restored => record[k].policy = saved[k].policy
=============================================================================
