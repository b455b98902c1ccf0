--------------------------- MODULE LifetimesProofs ---------------------------
(***************************************************************************)
(* Proofs about Lifetimes, for any keys, engines, options, settings and    *)
(* times.                                                                  *)
(***************************************************************************)
EXTENDS Lifetimes, TLAPS

RecordType ==
  [engines: SUBSET Engines, ttl: Nat, sliding: BOOLEAN, policy: {"evict", "keep"},
   restored: BOOLEAN, stats: Stats]

ConfigType ==
  [ttlOn: BOOLEAN, ttl: Nat, policy: {"evict", "keep"}, sliding: BOOLEAN,
   idleOn: BOOLEAN, maxIdle: Nat \ {0}]

(* The types, with the functions of TypeOK spelled out. *)
ShapeInv ==
  /\ flavor \in Flavors
  /\ now \in 1..MaxTime
  /\ config \in ConfigType
  /\ cleaner \in BOOLEAN
  /\ engines \in SUBSET Engines
  /\ defaults \in SUBSET Engines /\ defaults # {}
  /\ record \in [Keys -> RecordType \cup {None}]
  /\ saved \in [Keys -> RecordType \cup {None}]
  /\ job \in [Keys -> Nat]
  /\ deaf \subseteq {k \in Keys : record[k] # None}
  /\ robbed \subseteq {k \in deaf : job[k] = Never}
  /\ stray \subseteq Keys \X Nat

(* A record is kept somewhere, slides only with a TTL, and was not         *)
(* accessed before it was created or later than the time.                  *)
Sound(r, time) ==
  /\ r.engines # {}
  /\ r.ttl = 0 => ~r.sliding
  /\ r.stats.created <= time
  /\ r.stats.lastAccess <= time
  /\ r.stats.lastAccess = Never \/ r.stats.created <= r.stats.lastAccess

SoundInv ==
  /\ \A k \in Keys : record[k] # None => Sound(record[k], now)
  /\ \A k \in Keys : saved[k] # None => Sound(saved[k], now)

(* Only a record with a TTL has a job. *)
OwnedInv == \A k \in Keys : job[k] # Never => record[k] # None /\ record[k].ttl > 0

(* What JobOnTime says of a record r, its job, the date s it was saved     *)
(* with, and whether it was robbed.                                        *)
OnTime(r, due, s, time, files, lost) ==
  /\ due # Never =>
       /\ due = r.stats.expireAt
       /\ due >= r.stats.created + r.ttl
       /\ files /\ r.sliding => due >= r.stats.lastAccess + r.ttl
  /\ due = Never =>
       \/ r.policy = "keep" /\ r.stats.expireAt <= time
       \/ r.restored /\ r.stats.expireAt = s
       \/ lost

OnTimeInv == \A k \in Keys :
  record[k] # None /\ record[k].ttl > 0 =>
    OnTime(record[k], job[k], saved[k].stats.expireAt, now, flavor = "files",
           k \in robbed)

Inv == ShapeInv /\ SoundInv /\ OwnedInv /\ OnTimeInv

-----------------------------------------------------------------------------
(* What the building blocks do *)

LEMMA NoneIsNoRecord == None \notin RecordType
BY DEF None, RecordType

LEMMA StampedEffect ==
  ASSUME NEW r \in RecordType, NEW last \in 0..MaxTime, NEW at \in Nat
  PROVE  /\ Stamped(r, last, at) \in RecordType
         /\ Stamped(r, last, at).stats.created = r.stats.created
         /\ Stamped(r, last, at).stats.lastAccess = last
         /\ Stamped(r, last, at).stats.expireAt = at
         /\ Stamped(r, last, at).engines = r.engines
         /\ Stamped(r, last, at).ttl = r.ttl
         /\ Stamped(r, last, at).sliding = r.sliding
         /\ Stamped(r, last, at).policy = r.policy
         /\ Stamped(r, last, at).restored = r.restored
<1> DEFINE dates == [created |-> r.stats.created, lastAccess |-> last, expireAt |-> at]
<1>1. dates \in Stats
  BY DEF RecordType, Stats
<1>2. Stamped(r, last, at) = [r EXCEPT !.stats = dates]
  BY DEF Stamped
<1>3. dates.created = r.stats.created /\ dates.lastAccess = last /\ dates.expireAt = at
  OBVIOUS
<1> HIDE DEF dates
<1> QED  BY <1>1, <1>2, <1>3 DEF RecordType

(* refreshTTL of k's record r either finds nothing to do, or dates the     *)
(* record and its job alike.                                               *)
LEMMA RefreshEffect ==
  ASSUME ShapeInv, NEW k \in Keys, NEW r \in RecordType, Refresh(k, r)
  PROVE  /\ record' \in [Keys -> RecordType \cup {None}]
         /\ job' \in [Keys -> Nat]
         /\ \A j \in Keys \ {k} : record'[j] = record[j]
         /\ \A j \in Keys \ {k} : job'[j] = job[j]
         /\ record'[k] \in RecordType
         /\ record'[k].engines = r.engines
         /\ record'[k].ttl = r.ttl
         /\ record'[k].sliding = r.sliding
         /\ record'[k].policy = r.policy
         /\ record'[k].restored = r.restored
         /\ record'[k].stats.created = r.stats.created
         /\ record'[k].stats.lastAccess = r.stats.lastAccess
         /\ \/ /\ r.ttl = 0 \/ Base(r) + r.ttl = r.stats.expireAt
               /\ record'[k].stats.expireAt = r.stats.expireAt
               /\ job'[k] = job[k]
               /\ robbed' = robbed
            \/ /\ r.ttl > 0
               /\ record'[k].stats.expireAt = Base(r) + r.ttl
               /\ job'[k] = Base(r) + r.ttl
               /\ robbed' = robbed \ {k}
<1> DEFINE at == Base(r) + r.ttl
           stays == r.ttl = 0 \/ at = r.stats.expireAt
<1>1. r.ttl \in Nat /\ Base(r) \in Nat /\ r.stats.lastAccess \in 0..MaxTime
  BY TimesAssumption DEF RecordType, Stats, Base
<1>2. CASE stays
  <2>1. /\ record' = [record EXCEPT ![k] = r]
        /\ job' = [job EXCEPT ![k] = job[k]]
        /\ robbed' = robbed
    BY <1>2 DEF Refresh
  <2> QED  BY <1>2, <2>1 DEF ShapeInv
<1>3. CASE ~stays
  <2> DEFINE new == Stamped(r, r.stats.lastAccess, at)
  <2>1. /\ record' = [record EXCEPT ![k] = new]
        /\ job' = [job EXCEPT ![k] = at]
        /\ robbed' = robbed \ {k}
    BY <1>3 DEF Refresh
  <2>2. at \in Nat /\ r.ttl > 0
    BY <1>1, <1>3
  <2> HIDE DEF at
  <2>3. /\ new \in RecordType
        /\ new.stats.created = r.stats.created
        /\ new.stats.lastAccess = r.stats.lastAccess
        /\ new.stats.expireAt = at
        /\ new.engines = r.engines
        /\ new.ttl = r.ttl
        /\ new.sliding = r.sliding
        /\ new.policy = r.policy
        /\ new.restored = r.restored
    BY <1>1, <2>2, StampedEffect
  <2> HIDE DEF new
  <2>4. record'[k] = new /\ job'[k] = at
    BY <2>1 DEF ShapeInv
  <2>5. /\ \A j \in Keys \ {k} : record'[j] = record[j]
        /\ \A j \in Keys \ {k} : job'[j] = job[j]
    BY <2>1 DEF ShapeInv
  <2>6. record' \in [Keys -> RecordType \cup {None}] /\ job' \in [Keys -> Nat]
    BY <2>1, <2>2, <2>3 DEF ShapeInv
  <2> QED  BY <2>1, <2>2, <2>3, <2>4, <2>5, <2>6 DEF at
<1> QED  BY <1>2, <1>3

LEMMA ToldEffect ==
  ASSUME ShapeInv, NEW name, NEW gone \in SUBSET Keys, Told(name, gone)
  PROVE  /\ record' \in [Keys -> RecordType \cup {None}]
         /\ job' \in [Keys -> Nat]
         /\ \A j \in gone : record'[j] = None /\ job'[j] = Never
         /\ \A j \in Keys \ gone :
              /\ record'[j] = record[j]
              /\ j \in robbed => j \in robbed'
              /\ job'[j] = job[j] \/ (job'[j] = Never /\ j \in robbed')
         /\ deaf' \subseteq {j \in Keys : record'[j] # None}
<1> DEFINE listening == {j \in Keys \ deaf : NameOf[j] = name}
<1>1. /\ record' = [j \in Keys |-> IF j \in gone THEN None ELSE record[j]]
      /\ job' = [j \in Keys |-> IF j \in gone \cup listening THEN Never ELSE job[j]]
      /\ deaf' = {j \in Keys \ gone : record[j] # None}
      /\ robbed' = (robbed \cup {j \in listening : job[j] # Never}) \ gone
  BY DEF Told
<1>2. Never \in Nat
  BY DEF Never
<1> HIDE DEF listening
<1>3. /\ record' \in [Keys -> RecordType \cup {None}]
      /\ job' \in [Keys -> Nat]
  BY <1>1, <1>2 DEF ShapeInv
<1>4. \A j \in gone : record'[j] = None /\ job'[j] = Never
  BY <1>1
<1>5. ASSUME NEW j \in Keys \ gone
      PROVE  /\ record'[j] = record[j]
             /\ j \in robbed => j \in robbed'
             /\ job'[j] = job[j] \/ (job'[j] = Never /\ j \in robbed')
  <2>1. /\ record'[j] = record[j]
        /\ j \in robbed => j \in robbed'
    BY <1>1
  <2>2. job'[j] = IF j \in listening THEN Never ELSE job[j]
    BY <1>1
  <2>3. j \in listening /\ job[j] # Never => j \in robbed'
    BY <1>1
  <2> QED  BY <2>1, <2>2, <2>3
<1>6. deaf' \subseteq {j \in Keys : record'[j] # None}
  BY <1>1
<1> QED  BY <1>3, <1>4, <1>5, <1>6

(* A record whose job is lost to a removal was told its one event. *)
LEMMA ToldRobbed ==
  ASSUME ShapeInv, OwnedInv, NEW name, NEW gone \in SUBSET Keys, Told(name, gone)
  PROVE  robbed' \subseteq {j \in deaf' : job'[j] = Never}
<1> SUFFICES ASSUME NEW j \in robbed' PROVE j \in deaf' /\ job'[j] = Never
  OBVIOUS
<1>1. \/ j \in robbed \ gone
      \/ j \in Keys \ deaf /\ NameOf[j] = name /\ job[j] # Never /\ j \notin gone
  BY DEF Told
<1>2. j \in Keys /\ record[j] # None /\ j \notin gone
  BY <1>1 DEF ShapeInv, OwnedInv
<1>3. j \in deaf'
  BY <1>2 DEF Told
<1>4. CASE j \in robbed \ gone
  BY <1>2, <1>4 DEF Told, ShapeInv
<1>5. CASE j \in Keys \ deaf /\ NameOf[j] = name
  BY <1>2, <1>5 DEF Told
<1> QED  BY <1>1, <1>3, <1>4, <1>5

(* Given options or the defaults, a new record is kept somewhere, and      *)
(* slides only with a TTL.                                                 *)
LEMMA NewRecordEffect ==
  ASSUME ShapeInv, NEW o, NEW stats \in Stats, NEW restored \in BOOLEAN,
         o.storeIn = Absent \/ o.storeIn \subseteq Engines,
         o.ttl = Absent \/ o.ttl \in Int,
         o.sliding = Absent \/ o.sliding \in BOOLEAN,
         flavor = "files" => o.policy \in {Absent, "evict", "keep"}
  PROVE  /\ NewRecord(o, stats, restored) \in RecordType
         /\ NewRecord(o, stats, restored).engines # {}
         /\ NewRecord(o, stats, restored).ttl = 0 => ~NewRecord(o, stats, restored).sliding
         /\ NewRecord(o, stats, restored).stats = stats
         /\ NewRecord(o, stats, restored).restored = restored
<1> DEFINE ttl == Or(o.ttl, IF config.ttlOn THEN config.ttl ELSE 0)
           slides == ttl > 0 /\ Or(o.sliding, config.sliding)
           policy == IF ttl > 0 /\ flavor = "files" THEN Or(o.policy, config.policy) ELSE "evict"
           life == IF ttl > 0 THEN ttl ELSE 0
<1>1. config.ttl \in Nat /\ config.sliding \in BOOLEAN /\ config.policy \in {"evict", "keep"}
  BY DEF ShapeInv, ConfigType
<1>2. ttl \in Int
  BY <1>1 DEF Or
<1>3. life \in Nat /\ (life = 0 => ~(ttl > 0))
  BY <1>2
<1>4. slides \in BOOLEAN /\ (life = 0 => ~slides)
  BY <1>3
<1>5. policy \in {"evict", "keep"}
  BY <1>1 DEF Or
<1>6. EnginesOf(o) \in SUBSET Engines /\ EnginesOf(o) # {}
  BY DEF EnginesOf, ShapeInv
<1>7. NewRecord(o, stats, restored) =
        [engines |-> EnginesOf(o), ttl |-> life, sliding |-> slides, policy |-> policy,
         restored |-> restored, stats |-> stats]
  BY DEF NewRecord
<1> HIDE DEF ttl, slides, policy, life
<1> QED  BY <1>3, <1>4, <1>5, <1>6, <1>7 DEF RecordType

(* The invariant after a step that touches the record and job of k only.   *)
LEMMA OneKey ==
  ASSUME Inv, NEW k \in Keys,
         UNCHANGED <<now, setup, saved>>,
         record' \in [Keys -> RecordType \cup {None}],
         job' \in [Keys -> Nat],
         \A j \in Keys \ {k} : record'[j] = record[j],
         \A j \in Keys \ {k} : job'[j] = job[j],
         deaf' \subseteq {j \in Keys : record'[j] # None},
         robbed' \subseteq {j \in deaf' : job'[j] = Never},
         \A j \in Keys \ {k} : j \in robbed => j \in robbed',
         stray' \subseteq Keys \X Nat,
         record'[k] # None => Sound(record'[k], now),
         job'[k] # Never => record'[k] # None /\ record'[k].ttl > 0,
         record'[k] # None /\ record'[k].ttl > 0 =>
           OnTime(record'[k], job'[k], saved[k].stats.expireAt, now, flavor = "files",
                  k \in robbed')
  PROVE  Inv'
<1>1. ShapeInv'
  BY DEF Inv, ShapeInv, setup
<1>2. SoundInv'
  BY DEF Inv, SoundInv, setup
<1>3. OwnedInv'
  BY DEF Inv, OwnedInv
<1>4. OnTimeInv'
  <2> SUFFICES ASSUME NEW j \in Keys, record'[j] # None, record'[j].ttl > 0
               PROVE  OnTime(record'[j], job'[j], saved'[j].stats.expireAt, now',
                             flavor' = "files", j \in robbed')
    BY DEF OnTimeInv
  <2>1. now' = now /\ saved' = saved /\ flavor' = flavor
    BY DEF setup
  <2>2. CASE j = k
    BY <2>1, <2>2
  <2>3. CASE j # k
    <3>1. record'[j] = record[j] /\ job'[j] = job[j]
      BY <2>3
    <3>2. OnTime(record[j], job[j], saved[j].stats.expireAt, now, flavor = "files",
                 j \in robbed)
      BY <3>1 DEF Inv, OnTimeInv
    <3>3. j \in robbed => j \in robbed'
      BY <2>3
    <3> QED  BY <2>1, <3>1, <3>2, <3>3 DEF OnTime
  <2> QED  BY <2>2, <2>3
<1> QED  BY <1>1, <1>2, <1>3, <1>4 DEF Inv

(* The invariant after refreshTTL of k's sound record r, if the job is on  *)
(* time wherever there is nothing to do.                                   *)
LEMMA Refreshed ==
  ASSUME Inv, NEW k \in Keys, NEW r \in RecordType, Refresh(k, r),
         UNCHANGED <<now, setup, deaf, stray, saved>>,
         Sound(r, now),
         job[k] # Never => r.ttl > 0,
         r.ttl > 0 /\ Base(r) + r.ttl = r.stats.expireAt =>
           OnTime(r, job[k], saved[k].stats.expireAt, now, flavor = "files", k \in robbed)
  PROVE  Inv'
<1>1. ShapeInv
  BY DEF Inv
<1>2. /\ record' \in [Keys -> RecordType \cup {None}]
      /\ job' \in [Keys -> Nat]
      /\ \A j \in Keys \ {k} : record'[j] = record[j]
      /\ \A j \in Keys \ {k} : job'[j] = job[j]
      /\ record'[k] \in RecordType
      /\ record'[k].engines = r.engines
      /\ record'[k].ttl = r.ttl
      /\ record'[k].sliding = r.sliding
      /\ record'[k].policy = r.policy
      /\ record'[k].restored = r.restored
      /\ record'[k].stats.created = r.stats.created
      /\ record'[k].stats.lastAccess = r.stats.lastAccess
      /\ \/ /\ r.ttl = 0 \/ Base(r) + r.ttl = r.stats.expireAt
            /\ record'[k].stats.expireAt = r.stats.expireAt
            /\ job'[k] = job[k]
            /\ robbed' = robbed
         \/ /\ r.ttl > 0
            /\ record'[k].stats.expireAt = Base(r) + r.ttl
            /\ job'[k] = Base(r) + r.ttl
            /\ robbed' = robbed \ {k}
  BY <1>1, RefreshEffect
<1>3. record'[k] # None
  BY <1>2, NoneIsNoRecord
<1>4. Sound(record'[k], now)
  BY <1>2 DEF Sound
<1>5. job'[k] # Never => record'[k] # None /\ record'[k].ttl > 0
  BY <1>2, <1>3
<1>6. ASSUME record'[k].ttl > 0
      PROVE  OnTime(record'[k], job'[k], saved[k].stats.expireAt, now, flavor = "files",
                    k \in robbed')
  <2>1. /\ r.ttl \in Nat /\ r.stats.created \in Nat /\ r.stats.lastAccess \in Nat
        /\ r.stats.lastAccess = Never \/ r.stats.created <= r.stats.lastAccess
        /\ r.ttl > 0
    BY <1>2, <1>6 DEF RecordType, Stats, Sound
  <2>2. CASE /\ record'[k].stats.expireAt = r.stats.expireAt
             /\ job'[k] = job[k]
             /\ robbed' = robbed
             /\ Base(r) + r.ttl = r.stats.expireAt
    <3>1. OnTime(r, job[k], saved[k].stats.expireAt, now, flavor = "files", k \in robbed)
      BY <2>1, <2>2
    <3> QED  BY <1>2, <2>2, <3>1 DEF OnTime
  <2>3. CASE /\ record'[k].stats.expireAt = Base(r) + r.ttl
             /\ job'[k] = Base(r) + r.ttl
    <3>1. Base(r) \in Nat /\ Base(r) >= r.stats.created
      BY <2>1 DEF Base, Never
    <3>2. r.sliding => Base(r) >= r.stats.lastAccess
      BY <2>1 DEF Base, Never
    <3>3. job'[k] # Never /\ job'[k] >= r.stats.created + r.ttl
      BY <2>1, <2>3, <3>1 DEF Never
    <3>4. r.sliding => job'[k] >= r.stats.lastAccess + r.ttl
      BY <2>1, <2>3, <3>1, <3>2
    <3> QED  BY <1>2, <2>3, <3>3, <3>4 DEF OnTime
  <2> QED  BY <1>2, <2>1, <2>2, <2>3
<1>7. deaf' \subseteq {j \in Keys : record'[j] # None}
  BY <1>1, <1>2, <1>3 DEF ShapeInv
<1>8. stray' \subseteq Keys \X Nat
  BY <1>1 DEF ShapeInv
<1>9. /\ robbed' \subseteq {j \in deaf' : job'[j] = Never}
      /\ \A j \in Keys \ {k} : j \in robbed => j \in robbed'
  BY <1>1, <1>2 DEF ShapeInv
<1> QED  BY <1>2, <1>3, <1>4, <1>5, <1>6, <1>7, <1>8, <1>9, OneKey

-----------------------------------------------------------------------------
(* The invariant holds at the start and after every step *)

LEMMA DefaultConfigType == DefaultConfig \in ConfigType
BY TimesAssumption DEF DefaultConfig, ConfigType

LEMMA InitInv == Init => Inv
<1> SUFFICES ASSUME Init PROVE Inv
  OBVIOUS
<1>1. /\ \A k \in Keys : record[k] = None /\ saved[k] = None /\ job[k] = Never
      /\ record \in [Keys -> {None}] /\ saved \in [Keys -> {None}] /\ job \in [Keys -> {Never}]
  BY DEF Init, Empty
<1>2. ShapeInv
  BY <1>1, DefaultConfigType, OptionsAssumption, TimesAssumption DEF Init, ShapeInv, Never
<1> QED  BY <1>1, <1>2 DEF Inv, SoundInv, OwnedInv, OnTimeInv

LEMMA TickInv == ASSUME Inv, Tick PROVE Inv'
<1>1. now' = now + 1 /\ now < MaxTime /\ now \in 1..MaxTime
  BY DEF Tick, Inv, ShapeInv
<1>2. UNCHANGED <<flavor, config, cleaner, engines, defaults, record, job, deaf, robbed, stray, saved>>
  BY DEF Tick, setup
<1>3. ShapeInv'
  BY <1>1, <1>2, TimesAssumption DEF Inv, ShapeInv
<1>4. SoundInv'
  <2>1. \A k \in Keys : record[k] # None => record[k] \in RecordType
    BY DEF Inv, ShapeInv
  <2>2. \A k \in Keys : saved[k] # None => saved[k] \in RecordType
    BY DEF Inv, ShapeInv
  <2>3. ASSUME NEW r \in RecordType, Sound(r, now)
        PROVE  Sound(r, now + 1)
    BY <1>1, <2>3 DEF Sound, RecordType, Stats
  <2> QED  BY <1>1, <1>2, <2>1, <2>2, <2>3 DEF Inv, SoundInv
<1>5. OwnedInv'
  BY <1>2 DEF Inv, OwnedInv
<1>6. OnTimeInv'
  <2> SUFFICES ASSUME NEW k \in Keys, record[k] # None, record[k].ttl > 0
               PROVE  OnTime(record[k], job[k], saved[k].stats.expireAt, now + 1,
                             flavor = "files", k \in robbed)
    BY <1>1, <1>2 DEF OnTimeInv
  <2>1. OnTime(record[k], job[k], saved[k].stats.expireAt, now, flavor = "files",
               k \in robbed)
    BY DEF Inv, OnTimeInv
  <2>2. record[k].stats.expireAt \in Nat
    BY DEF Inv, ShapeInv, RecordType, Stats
  <2> QED  BY <1>1, <2>1, <2>2 DEF OnTime
<1> QED  BY <1>3, <1>4, <1>5, <1>6 DEF Inv

(* A step that leaves the records, their jobs and the backup alone. *)
LEMMA SettingsInv ==
  ASSUME Inv, UNCHANGED <<flavor, now, record, job, deaf, robbed, stray, saved>>,
         config' \in ConfigType, cleaner' \in BOOLEAN,
         engines' \in SUBSET Engines, defaults' \in SUBSET Engines, defaults' # {}
  PROVE  Inv'
<1>1. ShapeInv'
  BY DEF Inv, ShapeInv
<1>2. SoundInv' /\ OwnedInv' /\ OnTimeInv'
  BY DEF Inv, SoundInv, OwnedInv, OnTimeInv
<1> QED  BY <1>1, <1>2 DEF Inv

LEMMA AssignInv ==
  ASSUME Inv, NEW f \in DOMAIN Assignments, NEW v \in Assignments[f], Assign(f, v)
  PROVE  Inv'
<1>1. ShapeInv
  BY DEF Inv
<1>2. f \in {"ttlOn", "ttl", "policy", "sliding", "idleOn", "maxIdle"}
  BY SettingsAssumption
<1>3. /\ Accepts(f, v)
      /\ config' = IF f = "ttl" THEN [[config EXCEPT !.ttl = v] EXCEPT !.ttlOn = v > 0]
                                ELSE [config EXCEPT ![f] = v]
  BY DEF Assign
<1>4. config' \in ConfigType
  <2>1. CASE f = "ttl"
    <3>1. v \in Nat
      BY <1>3, <2>1 DEF Accepts
    <3> DEFINE one == [config EXCEPT !.ttl = v]
    <3>2. one \in ConfigType
      BY <1>1, <3>1 DEF ShapeInv, ConfigType
    <3>3. config' = [one EXCEPT !.ttlOn = v > 0]
      BY <1>3, <2>1
    <3> HIDE DEF one
    <3>4. (v > 0) \in BOOLEAN
      OBVIOUS
    <3> QED  BY <3>2, <3>3, <3>4 DEF ConfigType
  <2>2. CASE f = "policy"
    <3>1. v \in {"evict", "keep"} /\ config' = [config EXCEPT !.policy = v]
      BY <1>3, <2>2 DEF Accepts
    <3> QED  BY <1>1, <3>1 DEF ShapeInv, ConfigType
  <2>3. CASE f = "maxIdle"
    <3>1. v \in Nat \ {0} /\ config' = [config EXCEPT !.maxIdle = v]
      BY <1>3, <2>3 DEF Accepts
    <3> QED  BY <1>1, <3>1 DEF ShapeInv, ConfigType
  <2>4. CASE f = "ttlOn"
    <3>1. v \in BOOLEAN /\ config' = [config EXCEPT !.ttlOn = v]
      BY <1>3, <2>4 DEF Accepts
    <3> QED  BY <1>1, <3>1 DEF ShapeInv, ConfigType
  <2>5. CASE f = "sliding"
    <3>1. v \in BOOLEAN /\ config' = [config EXCEPT !.sliding = v]
      BY <1>3, <2>5 DEF Accepts
    <3> QED  BY <1>1, <3>1 DEF ShapeInv, ConfigType
  <2>6. CASE f = "idleOn"
    <3>1. v \in BOOLEAN /\ config' = [config EXCEPT !.idleOn = v]
      BY <1>3, <2>6 DEF Accepts
    <3> QED  BY <1>1, <3>1 DEF ShapeInv, ConfigType
  <2> QED  BY <1>2, <2>1, <2>2, <2>3, <2>4, <2>5, <2>6
<1>5. cleaner' \in BOOLEAN
  BY <1>1, <1>3 DEF Assign, StatusChanged, Accepts, ShapeInv
<1>6. /\ UNCHANGED <<flavor, now, record, job, deaf, robbed, stray, saved>>
      /\ engines' \in SUBSET Engines
      /\ defaults' \in SUBSET Engines
      /\ defaults' # {}
  BY <1>1 DEF Assign, ShapeInv
<1> QED  BY <1>4, <1>5, <1>6, SettingsInv

LEMMA EnginesInv ==
  ASSUME Inv,
         \/ \E named \in SUBSET Engines : DefaultEngines(named)
         \/ \E e \in Engines : DefineEngine(e)
  PROVE  Inv'
<1>1. ShapeInv
  BY DEF Inv
<1>2. ASSUME NEW named \in SUBSET Engines, DefaultEngines(named)
      PROVE  Inv'
  <2>1. UNCHANGED <<flavor, now, config, cleaner, engines, record, job, deaf, robbed, stray, saved>>
    BY <1>2 DEF DefaultEngines
  <2>2. defaults' \in SUBSET Engines /\ defaults' # {}
    BY <1>2, OptionsAssumption DEF DefaultEngines
  <2>3. /\ config' \in ConfigType /\ cleaner' \in BOOLEAN
        /\ engines' \in SUBSET Engines
    BY <1>1, <2>1 DEF ShapeInv
  <2> QED  BY <2>1, <2>2, <2>3, SettingsInv
<1>3. ASSUME NEW e \in Engines, DefineEngine(e)
      PROVE  Inv'
  <2>1. UNCHANGED <<flavor, now, config, cleaner, defaults, record, job, deaf, robbed, stray, saved>>
    BY <1>3 DEF DefineEngine
  <2>2. engines' \in SUBSET Engines
    BY <1>1, <1>3 DEF DefineEngine, ShapeInv
  <2>3. /\ config' \in ConfigType /\ cleaner' \in BOOLEAN
        /\ defaults' \in SUBSET Engines /\ defaults' # {}
    BY <1>1, <2>1 DEF ShapeInv
  <2> QED  BY <2>1, <2>2, <2>3, SettingsInv
<1> QED  BY <1>2, <1>3

LEMMA SetInv ==
  ASSUME Inv, NEW k \in Keys, NEW o \in Options, Set(k, o)
  PROVE  /\ Inv'
         /\ ~record'[k].restored
<1> DEFINE dates == [created |-> now, lastAccess |-> Never, expireAt |-> Never]
           r == NewRecord(o, dates, FALSE)
<1>1. ShapeInv
  BY DEF Inv
<1>2. /\ record[k] = None
      /\ ValidOptions(o)
      /\ Refresh(k, r)
      /\ UNCHANGED <<now, setup, deaf, stray, saved>>
  BY DEF Set, Create
<1>3. /\ dates \in Stats
      /\ dates.created = now
      /\ dates.lastAccess = Never
      /\ dates.expireAt = Never
  BY <1>1, TimesAssumption DEF ShapeInv, Stats, Never
<1> HIDE DEF dates
<1>4. /\ o.storeIn = Absent \/ o.storeIn \subseteq Engines
      /\ o.ttl = Absent \/ o.ttl \in Int
      /\ o.sliding = Absent \/ o.sliding \in BOOLEAN
      /\ flavor = "files" => o.policy \in {Absent, "evict", "keep"}
  BY <1>2, OptionsAssumption DEF ValidOptions
<1>5. /\ r \in RecordType
      /\ r.engines # {}
      /\ r.ttl = 0 => ~r.sliding
      /\ r.stats = dates
      /\ r.restored = FALSE
  BY <1>1, <1>3, <1>4, NewRecordEffect
<1> HIDE DEF r
<1>6. now \in Nat /\ now > 0 /\ r.ttl \in Nat
  BY <1>1, <1>5, TimesAssumption DEF ShapeInv, RecordType
<1>7. Sound(r, now)
  BY <1>3, <1>5, <1>6 DEF Sound, Never
<1>8. job[k] = Never
  BY <1>2 DEF Inv, OwnedInv
<1>9. Base(r) + r.ttl # r.stats.expireAt
  BY <1>3, <1>5, <1>6 DEF Base, Never
<1>10. Inv'
  BY <1>2, <1>5, <1>7, <1>8, <1>9, Refreshed
<1>11. record'[k].restored = r.restored
  BY <1>1, <1>2, <1>5, RefreshEffect
<1> QED  BY <1>5, <1>10, <1>11

(* What a restore makes of the line of a saved record: the record again.   *)
FromLine(k) ==
  NewRecord(LineOptions(Exported(saved[k])), Exported(saved[k]).stats, TRUE)

LEMMA LineRecord ==
  ASSUME Inv, NEW k \in Keys, saved[k] # None
  PROVE  /\ FromLine(k) \in RecordType
         /\ Sound(FromLine(k), now)
         /\ FromLine(k).engines = saved[k].engines
         /\ FromLine(k).ttl = saved[k].ttl
         /\ FromLine(k).sliding = saved[k].sliding
         /\ FromLine(k).stats = saved[k].stats
         /\ FromLine(k).restored = TRUE
<1> DEFINE s == saved[k]
           l == Exported(s)
           o == LineOptions(l)
           r == NewRecord(o, l.stats, TRUE)
<1>1. ShapeInv
  BY DEF Inv
<1>2. s \in RecordType /\ Sound(s, now)
  BY DEF Inv, ShapeInv, SoundInv
<1>3. /\ s.engines \in SUBSET Engines
      /\ s.engines # {}
      /\ s.ttl \in Nat
      /\ s.sliding \in BOOLEAN
      /\ s.stats \in Stats
      /\ s.ttl = 0 => ~s.sliding
  BY <1>2 DEF RecordType, Sound
<1> HIDE DEF s
<1>4. /\ o.storeIn = s.engines
      /\ o.ttl = s.ttl
      /\ o.sliding = s.sliding
      /\ o.policy = Absent
      /\ l.stats = s.stats
  BY DEF Exported, LineOptions
<1>5. o.storeIn # Absent /\ o.ttl # Absent /\ o.sliding # Absent
  BY <1>3, <1>4, NamesAssumption
<1>6. /\ r \in RecordType
      /\ r.engines # {}
      /\ r.ttl = 0 => ~r.sliding
      /\ r.stats = l.stats
      /\ r.restored = TRUE
  <2> DEFINE dates == l.stats
  <2>1. /\ dates \in Stats
        /\ o.storeIn \subseteq Engines
        /\ o.ttl \in Int
        /\ o.sliding \in BOOLEAN
        /\ o.policy \in {Absent, "evict", "keep"}
    BY <1>3, <1>4
  <2> HIDE DEF o, dates
  <2>2. /\ NewRecord(o, dates, TRUE) \in RecordType
        /\ NewRecord(o, dates, TRUE).engines # {}
        /\ NewRecord(o, dates, TRUE).ttl = 0 => ~NewRecord(o, dates, TRUE).sliding
        /\ NewRecord(o, dates, TRUE).stats = dates
        /\ NewRecord(o, dates, TRUE).restored = TRUE
    BY <1>1, <2>1, NewRecordEffect
  <2> QED  BY <2>2 DEF dates
<1>7. /\ r.engines = EnginesOf(o)
      /\ r.ttl = IF Or(o.ttl, IF config.ttlOn THEN config.ttl ELSE 0) > 0
                 THEN Or(o.ttl, IF config.ttlOn THEN config.ttl ELSE 0) ELSE 0
      /\ r.sliding = (/\ Or(o.ttl, IF config.ttlOn THEN config.ttl ELSE 0) > 0
                      /\ Or(o.sliding, config.sliding))
  <2> HIDE DEF o, l
  <2> QED  BY DEF NewRecord
<1> HIDE DEF o, l, r
<1>8. EnginesOf(o) = s.engines
  BY <1>3, <1>4, <1>5 DEF EnginesOf
<1>9. /\ Or(o.ttl, IF config.ttlOn THEN config.ttl ELSE 0) = s.ttl
      /\ Or(o.sliding, config.sliding) = s.sliding
  BY <1>4, <1>5 DEF Or
<1>10. r.ttl = s.ttl
  BY <1>3, <1>7, <1>9
<1>11. r.sliding = s.sliding
  <2>1. r.sliding = (s.ttl > 0 /\ s.sliding)
    BY <1>7, <1>9, Zenon
  <2>2. ~(s.ttl > 0) => s.sliding = FALSE
    BY <1>3
  <2>3. (s.ttl > 0) \in BOOLEAN /\ s.sliding \in BOOLEAN
    BY <1>3
  <2> QED  BY <2>1, <2>2, <2>3, Zenon
<1>12. Sound(r, now)
  BY <1>2, <1>4, <1>6, <1>10, <1>11 DEF Sound
<1>13. FromLine(k) = r /\ saved[k] = s
  BY DEF FromLine, r, o, l, s
<1>14. /\ r.engines = s.engines
       /\ r.stats = s.stats
  BY <1>4, <1>6, <1>7, <1>8
<1> QED  BY <1>6, <1>10, <1>11, <1>12, <1>13, <1>14, Zenon

LEMMA RestoreInv ==
  ASSUME Inv, NEW k \in Keys, Restore(k)
  PROVE  /\ Inv'
         /\ Settings(record'[k]) = Settings(saved[k])
         /\ record'[k].stats.created = saved[k].stats.created
         /\ record'[k].stats.lastAccess = saved[k].stats.lastAccess
<1> DEFINE r == FromLine(k)
<1>1. ShapeInv
  BY DEF Inv
<1>2. /\ saved[k] # None
      /\ record[k] = None
      /\ Refresh(k, r)
      /\ UNCHANGED <<now, setup, deaf, stray, saved>>
  BY DEF Restore, Create, FromLine
<1>3. /\ r \in RecordType
      /\ Sound(r, now)
      /\ r.engines = saved[k].engines
      /\ r.ttl = saved[k].ttl
      /\ r.sliding = saved[k].sliding
      /\ r.stats = saved[k].stats
      /\ r.restored = TRUE
  BY <1>2, LineRecord
<1> HIDE DEF r
<1>4. job[k] = Never
  BY <1>2 DEF Inv, OwnedInv
<1>5. OnTime(r, job[k], saved[k].stats.expireAt, now, flavor = "files", k \in robbed)
  BY <1>3, <1>4 DEF OnTime
<1>6. Inv'
  BY <1>2, <1>3, <1>4, <1>5, Refreshed
<1>7. /\ record'[k].engines = r.engines
      /\ record'[k].ttl = r.ttl
      /\ record'[k].sliding = r.sliding
      /\ record'[k].stats.created = r.stats.created
      /\ record'[k].stats.lastAccess = r.stats.lastAccess
  BY <1>1, <1>2, <1>3, RefreshEffect
<1> QED  BY <1>3, <1>6, <1>7 DEF Settings

LEMMA AccessInv ==
  ASSUME Inv, NEW k \in Keys, Access(k)
  PROVE  Inv'
<1> DEFINE e == record[k].stats.expireAt
           r == Stamped(record[k], now, e)
<1>1. ShapeInv /\ record[k] # None /\ UNCHANGED <<now, setup, deaf, stray, saved>>
  BY DEF Access, Inv
<1>2. record[k] \in RecordType /\ Sound(record[k], now)
  BY <1>1 DEF Inv, ShapeInv, SoundInv
<1>3. /\ e \in Nat /\ now \in 0..MaxTime /\ now > 0
      /\ record[k].stats.created \in Nat /\ record[k].ttl \in Nat
      /\ record[k].stats.created <= now
  BY <1>1, <1>2, TimesAssumption DEF RecordType, Stats, ShapeInv, Sound
<1>4. /\ r \in RecordType
      /\ r.stats.created = record[k].stats.created
      /\ r.stats.lastAccess = now
      /\ r.stats.expireAt = record[k].stats.expireAt
      /\ r.engines = record[k].engines
      /\ r.ttl = record[k].ttl
      /\ r.sliding = record[k].sliding
      /\ r.policy = record[k].policy
      /\ r.restored = record[k].restored
  <2> DEFINE old == record[k]
  <2>1. old \in RecordType /\ now \in 0..MaxTime /\ e \in Nat
    BY <1>2, <1>3
  <2>2. r = Stamped(old, now, e)
    OBVIOUS
  <2> HIDE DEF e, r, old
  <2>3. /\ r \in RecordType
        /\ r.stats.created = old.stats.created
        /\ r.stats.lastAccess = now
        /\ r.stats.expireAt = e
        /\ r.engines = old.engines /\ r.ttl = old.ttl /\ r.sliding = old.sliding
        /\ r.policy = old.policy /\ r.restored = old.restored
    BY <2>1, <2>2, StampedEffect
  <2>4. e = old.stats.expireAt /\ old = record[k]
    BY DEF e, old
  <2> QED  BY <2>3, <2>4
<1>5. IF flavor = "files" THEN Refresh(k, r)
      ELSE record' = [record EXCEPT ![k] = r] /\ UNCHANGED <<job, robbed>>
  BY DEF Access
<1> HIDE DEF r, e
<1>6. Sound(r, now)
  BY <1>2, <1>3, <1>4 DEF Sound
<1>7. job[k] # Never => r.ttl > 0
  BY <1>4 DEF Inv, OwnedInv
<1>8. ASSUME r.ttl > 0
      PROVE  OnTime(record[k], job[k], saved[k].stats.expireAt, now, flavor = "files",
                    k \in robbed)
  BY <1>1, <1>4, <1>8 DEF Inv, OnTimeInv
<1>9. CASE flavor = "files"
  <2>1. ASSUME r.ttl > 0, Base(r) + r.ttl = r.stats.expireAt
        PROVE  OnTime(r, job[k], saved[k].stats.expireAt, now, flavor = "files",
                      k \in robbed)
    <3>1. OnTime(record[k], job[k], saved[k].stats.expireAt, now, flavor = "files",
                 k \in robbed)
      BY <1>8, <2>1
    <3>2. r.sliding => Base(r) = now
      BY <1>3, <1>4 DEF Base, Never
    <3> QED  BY <1>3, <1>4, <2>1, <3>1, <3>2 DEF OnTime
  <2> QED  BY <1>1, <1>4, <1>5, <1>6, <1>7, <1>9, <2>1, Refreshed
<1>10. CASE flavor # "files"
  <2>1. record' = [record EXCEPT ![k] = r] /\ job' = job /\ robbed' = robbed
    BY <1>5, <1>10
  <2>2. /\ record' \in [Keys -> RecordType \cup {None}]
        /\ job' \in [Keys -> Nat]
        /\ \A j \in Keys \ {k} : record'[j] = record[j]
        /\ \A j \in Keys \ {k} : job'[j] = job[j]
        /\ record'[k] = r
    BY <1>1, <1>4, <2>1 DEF ShapeInv
  <2>3. record'[k] # None
    BY <1>4, <2>2, NoneIsNoRecord
  <2>4. /\ deaf' \subseteq {j \in Keys : record'[j] # None}
        /\ stray' \subseteq Keys \X Nat
        /\ robbed' \subseteq {j \in deaf' : job'[j] = Never}
        /\ \A j \in Keys \ {k} : j \in robbed => j \in robbed'
    BY <1>1, <2>1, <2>2, <2>3 DEF ShapeInv
  <2>5. ASSUME r.ttl > 0
        PROVE  OnTime(r, job[k], saved[k].stats.expireAt, now, flavor = "files",
                      k \in robbed)
    BY <1>4, <1>8, <1>10, <2>5 DEF OnTime
  <2> QED  BY <1>1, <1>6, <1>7, <2>1, <2>2, <2>3, <2>4, <2>5, OneKey
<1> QED  BY <1>9, <1>10

LEMMA UpdateInv ==
  ASSUME Inv, NEW k \in Keys, Update(k)
  PROVE  Inv'
<1>1. /\ record[k] # None
      /\ Refresh(k, record[k])
      /\ UNCHANGED <<now, setup, deaf, stray, saved>>
  BY DEF Update
<1>2. record[k] \in RecordType /\ Sound(record[k], now)
  BY <1>1 DEF Inv, ShapeInv, SoundInv
<1>3. /\ job[k] # Never => record[k].ttl > 0
      /\ record[k].ttl > 0 =>
           OnTime(record[k], job[k], saved[k].stats.expireAt, now, flavor = "files",
                  k \in robbed)
  BY <1>1 DEF Inv, OwnedInv, OnTimeInv
<1> QED  BY <1>1, <1>2, <1>3, Refreshed

(* The invariant after a removal is told. *)
LEMMA ToldInv ==
  ASSUME Inv, NEW name, NEW gone \in SUBSET Keys, Told(name, gone),
         UNCHANGED <<now, setup, saved>>,
         stray' \subseteq Keys \X Nat
  PROVE  Inv'
<1>1. /\ record' \in [Keys -> RecordType \cup {None}]
      /\ job' \in [Keys -> Nat]
      /\ \A j \in gone : record'[j] = None /\ job'[j] = Never
      /\ \A j \in Keys \ gone :
           /\ record'[j] = record[j]
           /\ j \in robbed => j \in robbed'
           /\ job'[j] = job[j] \/ (job'[j] = Never /\ j \in robbed')
      /\ deaf' \subseteq {j \in Keys : record'[j] # None}
  BY ToldEffect DEF Inv
<1>2. robbed' \subseteq {j \in deaf' : job'[j] = Never}
  BY ToldRobbed DEF Inv
<1>3. /\ now' = now /\ saved' = saved /\ flavor' = flavor
      /\ UNCHANGED <<config, cleaner, engines, defaults>>
  BY DEF setup
<1>4. ShapeInv'
  BY <1>1, <1>2, <1>3 DEF Inv, ShapeInv
<1>5. SoundInv' /\ OwnedInv'
  BY <1>1, <1>3 DEF Inv, SoundInv, OwnedInv
<1>6. OnTimeInv'
  <2> SUFFICES ASSUME NEW j \in Keys, record'[j] # None, record'[j].ttl > 0
               PROVE  OnTime(record'[j], job'[j], saved[j].stats.expireAt, now,
                             flavor = "files", j \in robbed')
    BY <1>3 DEF OnTimeInv
  <2>1. /\ record'[j] = record[j]
        /\ j \in robbed => j \in robbed'
        /\ job'[j] = job[j] \/ (job'[j] = Never /\ j \in robbed')
    BY <1>1
  <2>2. OnTime(record[j], job[j], saved[j].stats.expireAt, now, flavor = "files",
               j \in robbed)
    BY <2>1 DEF Inv, OnTimeInv
  <2> QED  BY <2>1, <2>2 DEF OnTime
<1> QED  BY <1>4, <1>5, <1>6 DEF Inv

LEMMA RemovedInv ==
  ASSUME Inv, NEW k \in Keys, Removed(k), UNCHANGED <<now, setup, saved>>,
         stray' \subseteq Keys \X Nat
  PROVE  Inv'
<1>1. Told(NameOf[k], {k}) /\ {k} \in SUBSET Keys
  BY DEF Removed
<1> QED  BY <1>1, ToldInv

LEMMA OtherInv ==
  ASSUME Inv, NEW name \in Names, OtherRemoved(name)
  PROVE  Inv'
<1>1. /\ Told(name, {})
      /\ {} \in SUBSET Keys
      /\ UNCHANGED <<now, setup, saved>>
      /\ stray' \subseteq Keys \X Nat
  BY DEF OtherRemoved, Inv, ShapeInv
<1> QED  BY <1>1, ToldInv

LEMMA ExpireInv ==
  ASSUME Inv, NEW k \in Keys, Expire(k)
  PROVE  Inv'
<1>1. ShapeInv
  BY DEF Inv
<1>2. job[k] # Never /\ job[k] <= now /\ UNCHANGED <<now, setup, stray, saved>>
  BY DEF Expire
<1>3. CASE record[k].policy = "evict"
  <2>1. Removed(k) /\ stray' \subseteq Keys \X Nat
    BY <1>1, <1>2, <1>3 DEF Expire, ShapeInv
  <2> QED  BY <1>2, <2>1, RemovedInv
<1>4. CASE record[k].policy # "evict"
  <2>1. job' = [job EXCEPT ![k] = Never] /\ UNCHANGED <<record, deaf, robbed>>
    BY <1>4 DEF Expire
  <2>2. record[k] # None /\ record[k].ttl > 0
    BY <1>2 DEF Inv, OwnedInv
  <2>3. OnTime(record[k], job[k], saved[k].stats.expireAt, now, flavor = "files",
               k \in robbed)
    BY <2>2 DEF Inv, OnTimeInv
  <2>4. record[k].policy = "keep"
    BY <1>1, <1>4, <2>2 DEF ShapeInv, RecordType
  <2>5. OnTime(record[k], Never, saved[k].stats.expireAt, now, flavor = "files",
               k \in robbed')
    BY <1>2, <2>3, <2>4 DEF OnTime
  <2>6. /\ record' \in [Keys -> RecordType \cup {None}]
        /\ job' \in [Keys -> Nat]
        /\ \A j \in Keys \ {k} : record'[j] = record[j]
        /\ \A j \in Keys \ {k} : job'[j] = job[j]
        /\ record'[k] = record[k]
        /\ job'[k] = Never
    BY <1>1, <2>1 DEF ShapeInv, Never
  <2>7. /\ deaf' \subseteq {j \in Keys : record'[j] # None}
        /\ stray' \subseteq Keys \X Nat
        /\ robbed' \subseteq {j \in deaf' : job'[j] = Never}
        /\ \A j \in Keys \ {k} : j \in robbed => j \in robbed'
    BY <1>1, <1>2, <2>1, <2>6 DEF ShapeInv
  <2>8. Sound(record[k], now)
    BY <2>2 DEF Inv, SoundInv
  <2> QED  BY <1>2, <2>5, <2>6, <2>7, <2>8, OneKey
<1> QED  BY <1>3, <1>4

LEMMA CleanIdleInv ==
  ASSUME Inv, NEW k \in Keys, CleanIdle(k)
  PROVE  Inv'
<1>1. /\ Removed(k)
      /\ UNCHANGED <<now, setup, saved>>
      /\ stray' \subseteq Keys \X Nat
  BY DEF CleanIdle, LeftJob, Inv, ShapeInv
<1> QED  BY <1>1, RemovedInv

LEMMA StrayInv ==
  ASSUME Inv, NEW s \in stray, StrayExpires(s[1], s[2])
  PROVE  Inv'
<1>1. /\ s[1] \in Keys
      /\ Removed(s[1])
      /\ UNCHANGED <<now, setup, saved>>
      /\ stray' \subseteq Keys \X Nat
  BY DEF StrayExpires, LeftJob, Inv, ShapeInv
<1> QED  BY <1>1, RemovedInv

LEMMA ExportInv ==
  ASSUME Inv, NEW k \in Keys, Export(k)
  PROVE  Inv'
<1>1. /\ record[k] # None
      /\ saved' = [saved EXCEPT ![k] = record[k]]
      /\ UNCHANGED <<now, flavor, config, cleaner, engines, defaults, record, job, deaf, robbed, stray>>
  BY DEF Export, setup
<1>2. /\ saved'[k] = record[k]
      /\ \A j \in Keys \ {k} : saved'[j] = saved[j]
  BY <1>1 DEF Inv, ShapeInv
<1>3. ShapeInv'
  BY <1>1 DEF Inv, ShapeInv
<1>4. SoundInv' /\ OwnedInv'
  BY <1>1, <1>2 DEF Inv, SoundInv, OwnedInv
<1>5. OnTimeInv'
  <2> SUFFICES ASSUME NEW j \in Keys, record[j] # None, record[j].ttl > 0
               PROVE  OnTime(record[j], job[j], saved'[j].stats.expireAt, now,
                             flavor = "files", j \in robbed)
    BY <1>1 DEF OnTimeInv
  <2>1. OnTime(record[j], job[j], saved[j].stats.expireAt, now, flavor = "files",
               j \in robbed)
    BY DEF Inv, OnTimeInv
  <2>2. saved'[j] = saved[j] \/ saved'[j] = record[j]
    BY <1>2
  <2> QED  BY <2>1, <2>2 DEF OnTime
<1> QED  BY <1>3, <1>4, <1>5 DEF Inv

LEMMA RestartInv ==
  ASSUME Inv, Restart
  PROVE  Inv'
<1>1. /\ \A k \in Keys : record'[k] = None /\ job'[k] = Never
      /\ record' \in [Keys -> {None}]
      /\ job' \in [Keys -> {Never}]
      /\ UNCHANGED <<flavor, now, saved>>
  BY DEF Restart, Empty
<1>2. ShapeInv'
  BY <1>1, DefaultConfigType, OptionsAssumption DEF Restart, Inv, ShapeInv, Never
<1> QED  BY <1>1, <1>2 DEF Inv, SoundInv, OwnedInv, OnTimeInv

LEMMA StutterInv ==
  ASSUME Inv, UNCHANGED vars
  PROVE  Inv'
BY DEF vars, Inv, ShapeInv, SoundInv, OwnedInv, OnTimeInv

LEMMA NextInv ==
  ASSUME Inv, [Next]_vars
  PROVE  Inv'
<1>1. CASE Tick
  BY <1>1, TickInv
<1>2. CASE \E f \in DOMAIN Assignments : \E v \in Assignments[f] : Assign(f, v)
  BY <1>2, AssignInv
<1>3. CASE \/ \E named \in SUBSET Engines : DefaultEngines(named)
           \/ \E e \in Engines : DefineEngine(e)
  BY <1>3, EnginesInv
<1>4. CASE \E k \in Keys : \E o \in Options : Set(k, o)
  BY <1>4, SetInv
<1>5. CASE \E k \in Keys : Access(k) \/ Update(k)
  BY <1>5, AccessInv, UpdateInv
<1>6. CASE \E k \in Keys : Expire(k) \/ CleanIdle(k)
  BY <1>6, ExpireInv, CleanIdleInv
<1>7. CASE \E k \in Keys : Export(k) \/ Restore(k)
  BY <1>7, ExportInv, RestoreInv
<1>8. CASE \E s \in stray : StrayExpires(s[1], s[2])
  BY <1>8, StrayInv
<1>9. CASE Restart
  BY <1>9, RestartInv
<1>10. CASE \E name \in Names : OtherRemoved(name)
  BY <1>10, OtherInv
<1>11. CASE UNCHANGED vars
  BY <1>11, StutterInv
<1> QED  BY <1>1, <1>2, <1>3, <1>4, <1>5, <1>6, <1>7, <1>8, <1>9, <1>10, <1>11 DEF Next

-----------------------------------------------------------------------------
(* The theorems *)

LEMMA InvariantHolds == Spec => []Inv
<1>1. Init => Inv
  BY InitInv
<1>2. Inv /\ [Next]_vars => Inv'
  BY NextInv
<1> QED  BY <1>1, <1>2, PTL DEF Spec

(* The variables keep their types; only a record with a TTL has a job.     *)
THEOREM LifetimesTypes == Spec => []TypeOK
<1>1. Inv => TypeOK
  <2> SUFFICES ASSUME Inv PROVE TypeOK
    OBVIOUS
  <2>1. \A r \in RecordType : IsRecord(r)
    BY DEF RecordType, IsRecord
  <2>2. \A k \in Keys : record[k] # None => IsRecord(record[k])
    BY <2>1 DEF Inv, ShapeInv
  <2>3. \A k \in Keys : saved[k] # None => IsRecord(saved[k])
    BY <2>1 DEF Inv, ShapeInv
  <2>4. \A k \in Keys : job[k] # Never => record[k].ttl > 0
    BY DEF Inv, OwnedInv
  <2> QED  BY <2>2, <2>3, <2>4 DEF Inv, ShapeInv, ConfigType, TypeOK
<1> QED  BY <1>1, InvariantHolds, PTL

(* The expiry job of a record is due at the date the record shows and not  *)
(* before its TTL is over; it has none only when kept after its expiry,    *)
(* restored and not refreshed since, or robbed of it by the removal of a   *)
(* record of the same name in another scope.                               *)
THEOREM JobsOnTime == Spec => []JobOnTime
<1>1. Inv => JobOnTime
  <2> SUFFICES ASSUME Inv, NEW k \in Keys, record[k] # None, record[k].ttl > 0
               PROVE  OnTime(record[k], job[k], saved[k].stats.expireAt, now,
                             flavor = "files", k \in robbed)
    BY DEF JobOnTime, OnTime
  <2> QED  BY DEF Inv, OnTimeInv
<1> QED  BY <1>1, InvariantHolds, PTL

(* A step that brings a restored record in is its restore. *)
LEMMA OnlyRestored ==
  ASSUME Inv, [Next]_vars, NEW k \in Keys, record[k] = None, record'[k] # None,
         record'[k].restored
  PROVE  Restore(k)
<1>1. ShapeInv
  BY DEF Inv
<1>2. CASE UNCHANGED record
  BY <1>2
<1>3. ASSUME NEW j \in Keys, NEW o \in Options, Set(j, o)
      PROVE  Restore(k)
  <2>1. ~record'[j].restored
    BY <1>3, SetInv
  <2> DEFINE r == NewRecord(o, [created |-> now, lastAccess |-> Never, expireAt |-> Never],
                            FALSE)
  <2>2. \E new : record' = [record EXCEPT ![j] = new]
    BY <1>3 DEF Set, Create, Refresh
  <2>3. j # k => record'[k] = record[k]
    BY <1>1, <2>2 DEF ShapeInv
  <2> QED  BY <2>1, <2>3
<1>4. ASSUME NEW j \in Keys, Access(j) \/ Update(j)
      PROVE  Restore(k)
  <2>1. record[j] # None /\ \E new : record' = [record EXCEPT ![j] = new]
    BY <1>4 DEF Access, Update, Refresh
  <2>2. record'[k] = record[k]
    BY <1>1, <2>1 DEF ShapeInv
  <2> QED  BY <2>2
<1>5. ASSUME NEW j \in Keys, Removed(j)
      PROVE  Restore(k)
  BY <1>1, <1>5 DEF Removed, Told, ShapeInv
<1>6. ASSUME NEW j \in Keys, Expire(j) \/ CleanIdle(j)
      PROVE  Restore(k)
  BY <1>2, <1>5, <1>6 DEF Expire, CleanIdle
<1>7. ASSUME NEW s \in stray, StrayExpires(s[1], s[2])
      PROVE  Restore(k)
  <2>1. s[1] \in Keys /\ Removed(s[1])
    BY <1>1, <1>7 DEF StrayExpires, ShapeInv
  <2> QED  BY <1>5, <2>1
<1>8. ASSUME NEW j \in Keys, Restore(j)
      PROVE  Restore(k)
  <2>1. \E new : record' = [record EXCEPT ![j] = new]
    BY <1>8 DEF Restore, Create, Refresh
  <2>2. j # k => record'[k] = record[k]
    BY <1>1, <2>1 DEF ShapeInv
  <2> QED  BY <1>8, <2>2
<1>9. ASSUME Restart
      PROVE  Restore(k)
  BY <1>9 DEF Restart, Empty
<1>10. ASSUME NEW name \in Names, OtherRemoved(name)
      PROVE  Restore(k)
  BY <1>1, <1>10 DEF OtherRemoved, Told, ShapeInv
<1>11. \/ UNCHANGED record
       \/ \E j \in Keys : \E o \in Options : Set(j, o)
       \/ \E j \in Keys : Access(j) \/ Update(j)
       \/ \E j \in Keys : Expire(j) \/ CleanIdle(j)
       \/ \E s \in stray : StrayExpires(s[1], s[2])
       \/ \E j \in Keys : Restore(j)
       \/ \E name \in Names : OtherRemoved(name)
       \/ Restart
  BY DEF Next, vars, Tick, Assign, DefaultEngines, DefineEngine, Export
<1> QED  BY <1>2, <1>3, <1>4, <1>6, <1>7, <1>8, <1>9, <1>10, <1>11

(* A restored record has the engines, the TTL, the sliding and the dates   *)
(* it had when it was exported, whatever the settings have become.         *)
THEOREM RestoresAsSaved == Spec => RestoredAsSaved
<1> DEFINE Same(k) ==
      record[k] = None /\ record'[k] # None /\ record'[k].restored =>
        /\ Settings(record'[k]) = Settings(saved[k])
        /\ record'[k].stats.created = saved[k].stats.created
        /\ record'[k].stats.lastAccess = saved[k].stats.lastAccess
<1>1. Inv /\ [Next]_vars => [\A k \in Keys : Same(k)]_vars
  <2> SUFFICES ASSUME Inv, [Next]_vars, NEW k \in Keys PROVE Same(k)
    OBVIOUS
  <2> SUFFICES ASSUME record[k] = None, record'[k] # None, record'[k].restored
               PROVE  /\ Settings(record'[k]) = Settings(saved[k])
                      /\ record'[k].stats.created = saved[k].stats.created
                      /\ record'[k].stats.lastAccess = saved[k].stats.lastAccess
    OBVIOUS
  <2>1. Restore(k)
    BY OnlyRestored
  <2> QED  BY <2>1, RestoreInv
<1> QED  BY <1>1, InvariantHolds, PTL DEF Spec, RestoredAsSaved
=============================================================================
