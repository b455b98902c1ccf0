-------------------------- MODULE FilesRecordsProofs --------------------------
(***************************************************************************)
(* Proofs about FilesRecords, for every set of paths, record objects,      *)
(* calls and edits, every policy of expiry, size and limit.                *)
(***************************************************************************)
EXTENDS FilesRecords, FiniteSums

Active == {"told", "moving", "renaming", "check", "init", "stat", "quota", "reading",
           "writing", "fetch"}
LoadPcs == {"stat", "quota", "reading", "writing"}

(* A load under way has a record object, one that writes a content; a      *)
(* watcher event is about the object that was told.                        *)
LoadInv ==
  /\ \A x \in Loaders : load[x].pc \in Active => load[x].rec \in Objects
  /\ \A x \in Loaders : load[x].pc = "writing" => load[x].content \in Contents
  /\ \A x \in Notices : load[x].pc # "idle" => load[x].rec = x[2]

(* An object not created yet counts and watches nothing; what is cached,   *)
(* scheduled or worked on was created.                                     *)
Created == {o \in Objects : record[o].st # "none"}
LifeInv ==
  /\ \A o \in Objects : record[o].st = "none" => record[o].size = 0 /\ record[o].watch = Missing
  /\ \A k \in Paths : current[k] \in Created \cup {NoObject}
  /\ jobs \subseteq Created /\ listening \subseteq Created
  /\ \A x \in Loaders : load[x].rec \in Created \cup {NoObject}

TypeInv == TypeOK /\ LoadInv /\ LifeInv /\ LedgerExact

-----------------------------------------------------------------------------
(* Each kind of load stays with its own steps, and a watcher event keeps   *)
(* its kind.                                                               *)
KindInv ==
  /\ \A x \in Loaders : load[x].pc \in {"told", "moving", "renaming"} => x \in Notices
  /\ \A x \in Loaders : load[x].pc \in {"check", "init"} => x \in Sets
  /\ \A x \in Loaders : load[x].pc = "fetch" => x \in Reads
  /\ \A x \in Loaders : load[x].pc \in {"moving", "renaming"} => load[x].kind = "rename"
  /\ \A x \in Loaders : load[x].pc = "told" => load[x].kind # "none"
  /\ \A x \in Notices : load[x].pc = "idle" => load[x].kind = "none"

(* Those told of one rename are told the same new path. *)
TargetInv == \A e \in Edits, o, u \in Objects :
  Following(<<e, o>>) /\ Following(<<e, u>>) => load[<<e, o>>].path = load[<<e, u>>].path

(* Where the entry of an object that has not gone astray is: under its key *)
(* but for the one rename that is being dealt with.                        *)
Placed(k, o) ==
  /\ (\A e \in Edits : ~Following(<<e, o>>)) => record[o].path = k
  /\ \A e \in Edits : Following(<<e, o>>) =>
       IF load[<<e, o>>].pc = "renaming" THEN k = load[<<e, o>>].path
       ELSE k \in {record[o].path, load[<<e, o>>].path}
  /\ \A e, f \in Edits : Following(<<e, o>>) /\ Following(<<f, o>>) => e = f
PlacedInv == \A k \in Paths, o \in Objects : current[k] = o /\ o \notin astray => Placed(k, o)

KeyInv == KindInv /\ TargetInv /\ PlacedInv

-----------------------------------------------------------------------------
(* A removal awaiting its drop is one that drops; only expiry of 'keep'    *)
(* has a record's own job erase without a drop; who asks for a removal     *)
(* waits for it or is over.                                                *)
RemovalInv ==
  /\ \A x \in Removers : removal[x].pc = "erased" => removal[x].drop
  /\ \A o \in Objects : InFlight(o) => o \in Created /\ (removal[o].drop \/ TTL(o) = "keep")
  /\ \A x \in Loaders : InFlight(x) => load[x].pc \in {"moving", "quota", "done"}
  /\ InFlight(Clearer) => clear.on

Dropping(k) == \E x \in Removers : InFlight(x) /\ removal[x].drop /\ removal[x].key = k
InPlace(k, o) ==
  /\ o \in Objects /\ current[k] = o /\ record[o].path = k /\ Undisturbed(o)
Counts(k, o) == InPlace(k, o) /\ HasContent(o) /\ TTL(o) # "keep"

(* A content that counts as cached is stored, or its record to be dropped. *)
StoredInv == \A k \in Paths, o \in Objects : Counts(k, o) =>
  \/ stored[k] # Missing
  \/ \E x \in Removers : removal[x].pc = "erased" /\ removal[x].key = k

(* Whose file is gone has been told, or is being dropped. *)
GoneInv == \A k \in Paths, o \in Objects : InPlace(k, o) /\ file[k] = Missing =>
  \/ Dropping(k)
  \/ \E e \in Edits : load[<<e, o>>].pc = "told" /\ load[<<e, o>>].kind = "delete"

(* A record being initialised is its set's, not watched yet, and told      *)
(* nothing.                                                                *)
StartInv == \A c \in Sets :
  LET o == load[c].rec
  IN load[c].pc \in {"check", "init"} =>
       /\ record[o].by = c /\ record[o].watch = Missing
       /\ \A e \in Edits : load[<<e, o>>].pc = "idle"

(* A record is told of a change only when it is loaded for the first time  *)
(* no more.                                                                *)
ReadyInv == \A o \in Objects : o \notin raced /\ record[o].st = "new" =>
  /\ \A e \in Edits : load[<<e, o>>].pc = "idle"
  /\ record[o].watch # Missing =>
       /\ record[o].watch = record[o].path
       /\ \E c \in Sets : load[c].rec = o /\ load[c].pc \in LoadPcs

(* What a load of an undisturbed record is about to write is the file. *)
WriterInv == \A x \in Loaders :
  LET o == load[x].rec
  IN load[x].pc = "writing" /\ Undisturbed(o)
       => load[x].path = record[o].path /\ load[x].content = file[record[o].path]

(* The notice of edit e to record o, or the load it makes, is under way.   *)
Pending(e, o) ==
  \/ load[<<e, o>>].pc = "told" /\ load[<<e, o>>].kind \in {"update", "delete"}
  \/ load[<<e, o>>].pc \in LoadPcs

(* A content that counts as cached is the file's, or its record is told,   *)
(* loads it again or is to be dropped.                                     *)
ContentInv == \A k \in Paths, o \in Objects : Counts(k, o) =>
  \/ stored[k] = file[k]
  \/ Dropping(k)
  \/ \E e \in Edits : Pending(e, o)

(* The job of a sliding 'keep' record is scheduled while it has content,   *)
(* and from the start of a load that is not a read's.                      *)
Slides(o) == o \in Cached /\ TTL(o) = "keep" /\ IsSliding(o) /\ Undisturbed(o)
JobInv ==
  /\ \A o \in Objects : Slides(o) /\ HasContent(o) => o \in jobs
  /\ \A c \in Sets :
       load[c].pc \in {"check", "init"} /\ Slides(load[c].rec) /\ record[load[c].rec].timed
         => load[c].rec \in jobs
  /\ \A x \in Sets \cup Notices : load[x].pc \in LoadPcs /\ Slides(load[x].rec)
       => load[x].rec \in jobs

-----------------------------------------------------------------------------
(* What the building blocks do *)

LEMMA RemovalTypes ==
  /\ \A pc \in {"idle", "erasing", "erased", "done"} :
       /\ RemovalIs(pc) \in RemovalState
       /\ RemovalIs(pc).pc = pc
  /\ \A k \in Paths, drop \in BOOLEAN :
       /\ Erasing(k, drop) \in RemovalState
       /\ Erasing(k, drop) = [pc |-> "erasing", key |-> k, drop |-> drop]
<1>1. SomePath \in Paths
  BY NamesAssumption DEF SomePath
<1>. QED BY <1>1 DEF RemovalIs, RemovalState, Erasing

(* The effect of a removal event, as a relation of the two states.         *)
LEMMA EmitEffect ==
  ASSUME TypeOK, NEW x \in Removers, NEW o \in Objects, NEW scheduled \in SUBSET Objects,
         Emit(x, o, scheduled)
  PROVE  /\ removal' \in [Removers -> RemovalState]
         /\ jobs' \in SUBSET Objects /\ listening' \in SUBSET Objects
         /\ jobs' \subseteq scheduled /\ listening' \subseteq listening
         /\ \A y \in Removers \ {x} : removal'[y] = removal[y]
         /\ \/ /\ current[record[o].path] # NoObject
               /\ removal'[x].pc = "erasing" /\ removal'[x].drop
               /\ removal'[x].key = record[o].path
               /\ jobs' = scheduled
            \/ /\ current[record[o].path] = NoObject
               /\ removal'[x].pc = "done"
               /\ \A u \in scheduled \ jobs' : record[u].path = record[o].path
<1> DEFINE k == record[o].path
<1>1. k \in Paths
  BY DEF TypeOK, RecordState
<1>2. CASE /\ current[k] # NoObject
           /\ removal' = [removal EXCEPT ![x] = [pc |-> "erasing", key |-> k, drop |-> TRUE]]
           /\ jobs' = scheduled
           /\ UNCHANGED listening
  <2>1. [pc |-> "erasing", key |-> k, drop |-> TRUE] \in RemovalState
    BY <1>1 DEF RemovalState
  <2>. QED BY <1>2, <2>1 DEF TypeOK
<1>3. CASE /\ current[k] = NoObject
           /\ removal' = [removal EXCEPT ![x] = RemovalIs("done")]
           /\ Notified(k, scheduled)
  <2>1. RemovalIs("done") \in RemovalState /\ RemovalIs("done").pc = "done"
    BY RemovalTypes
  <2>. QED BY <1>3, <2>1 DEF TypeOK, Notified
<1>. QED BY <1>2, <1>3 DEF Emit, Erasing

LEMMA RefreshTTLEffect ==
  ASSUME TypeOK, NEW o \in Objects, NEW accessed \in BOOLEAN, RefreshTTL(o, accessed)
  PROVE  /\ record' \in [Objects -> RecordState]
         /\ jobs' \in SUBSET Objects
         /\ \A u \in Objects \ {o} : record'[u] = record[u]
         /\ record'[o].st = record[o].st /\ record'[o].by = record[o].by
         /\ record'[o].path = record[o].path /\ record'[o].size = record[o].size
         /\ record'[o].watch = record[o].watch
         /\ record'[o].timed = (TTL(o) # "none")
         /\ jobs \subseteq jobs' /\ jobs' \subseteq jobs \cup {o}
         /\ TTL(o) # "none" /\ ~record[o].timed => o \in jobs'
BY DEF RefreshTTL, TypeOK, RecordState

(* A step of a load to its next state. *)
LEMMA ToEffect ==
  ASSUME TypeOK, NEW x \in Loaders, NEW pc, To(x, pc),
         pc \in {"init", "stat", "quota", "moving", "renaming", "reading", "fetch", "done",
                 "failed"}
  PROVE  /\ load' \in [Loaders -> LoadState]
         /\ \A y \in Loaders \ {x} : load'[y] = load[y]
         /\ load'[x].pc = pc /\ load'[x].rec = load[x].rec /\ load'[x].kind = load[x].kind
         /\ load'[x].path = load[x].path /\ load'[x].content = load[x].content
BY DEF To, TypeOK, LoadState

-----------------------------------------------------------------------------
(* The ledger *)

LEMMA SizesAreNatural ==
  ASSUME NEW rec \in [Objects -> RecordState]
  PROVE  Natural([o \in Objects |-> IF o \in InMemory THEN rec[o].size ELSE 0], Objects)
BY DEF Natural, RecordState

(* What counts no more and no less leaves the ledger as it is. *)
LEMMA LedgerKept ==
  ASSUME LedgerExact, UNCHANGED total,
         \A u \in Objects : record'[u].size = record[u].size
  PROVE  LedgerExact'
<1>1. Sizes' = Sizes
  BY DEF Sizes
<1>. QED BY <1>1 DEF LedgerExact, SizeSum

(* A change of one record's size that is accounted for. *)
LEMMA LedgerOfOne ==
  ASSUME TypeOK, LedgerExact, NEW o \in Objects, record' \in [Objects -> RecordState],
         \A u \in Objects : u # o => record'[u].size = record[u].size,
         Account(o, record'[o].size - record[o].size)
  PROVE  LedgerExact' /\ total' \in Nat /\ sweeping' \in BOOLEAN
<1> DEFINE f == Sizes
           g == Sizes'
           d == record'[o].size - record[o].size
<1>1. Natural(f, Objects) /\ Natural(g, Objects)
  BY SizesAreNatural DEF Sizes, TypeOK
<1>2. \A u \in Objects : u # o => g[u] = f[u]
  BY DEF Sizes
<1>3. d \in Int /\ g[o] - f[o] = IF o \in InMemory THEN d ELSE 0
  BY DEF Sizes, TypeOK, RecordState
<1>4. SumFunctionOnSet(g, Objects) = SumFunctionOnSet(f, Objects) + (g[o] - f[o])
  <2> HIDE DEF f, g
  <2>. QED BY <1>1, <1>2, ObjectsAssumption, SumOfOneChanged
<1>5. SumFunctionOnSet(g, Objects) \in Nat
  <2> HIDE DEF f, g
  <2>. QED BY <1>1, ObjectsAssumption, SumType
<1>6. total = SumFunctionOnSet(f, Objects) /\ total \in Nat
  BY DEF LedgerExact, SizeSum, TypeOK
<1>7. CASE o \in InMemory /\ d # 0
  <2>1. total' = IF total + d > 0 THEN total + d ELSE 0
    BY <1>7 DEF Account, d
  <2>2. sweeping' \in BOOLEAN
    BY <1>7 DEF Account, TypeOK
  <2> HIDE DEF f, g, d
  <2>3. total + d = SumFunctionOnSet(g, Objects)
    BY <1>3, <1>4, <1>6, <1>7
  <2>4. total' = SumFunctionOnSet(g, Objects)
    BY <1>3, <1>5, <1>6, <2>1, <2>3
  <2>. QED BY <1>5, <2>2, <2>4 DEF LedgerExact, SizeSum, f, g
<1>8. CASE ~(o \in InMemory /\ d # 0)
  <2>1. total' = total /\ sweeping' = sweeping
    BY <1>8 DEF Account, d
  <2>2. sweeping \in BOOLEAN
    BY DEF TypeOK
  <2> HIDE DEF f, g, d
  <2>3. total' = SumFunctionOnSet(g, Objects)
    BY <1>3, <1>4, <1>6, <1>8, <2>1
  <2>. QED BY <1>5, <2>1, <2>2, <2>3 DEF LedgerExact, SizeSum, f, g
<1>. QED BY <1>7, <1>8

(* The sizes a sweep sets to zero are those it subtracts. *)
LEMMA LedgerOfSweep ==
  ASSUME TypeOK, LedgerExact, NEW S \in SUBSET Objects, record' \in [Objects -> RecordState],
         \A u \in Objects : record'[u].size = IF u \in S THEN 0 ELSE record[u].size,
         total' = total - SizeSum(S)
  PROVE  LedgerExact' /\ total' \in Nat
<1> DEFINE f == Sizes
           g == Sizes'
<1>1. Natural(f, Objects) /\ Natural(g, Objects)
  BY SizesAreNatural DEF Sizes, TypeOK
<1>2. \A u \in Objects : g[u] = IF u \in S THEN 0 ELSE f[u]
  BY DEF Sizes
<1>3. SumFunctionOnSet(g, Objects) = SumFunctionOnSet(f, Objects) - SumFunctionOnSet(f, S)
  <2> HIDE DEF f, g
  <2>1. IsFiniteSet(Objects) /\ Natural(f, Objects) /\ Natural(g, Objects)
    BY <1>1, ObjectsAssumption
  <2>2. \A u \in Objects : g[u] = IF u \in S THEN 0 ELSE f[u]
    BY <1>2
  <2>. QED BY ONLY <2>1, <2>2, S \in SUBSET Objects, SumOfZeroed
<1>4. SumFunctionOnSet(g, Objects) \in Nat
  <2> HIDE DEF f, g
  <2>. QED BY <1>1, ObjectsAssumption, SumType
<1>5. total = SumFunctionOnSet(f, Objects) /\ total' = total - SumFunctionOnSet(f, S)
  BY DEF LedgerExact, SizeSum
<1>6. total' = SumFunctionOnSet(g, Objects)
  <2> HIDE DEF f, g
  <2>. QED BY <1>3, <1>5
<1>. QED BY <1>4, <1>6 DEF LedgerExact, SizeSum

-----------------------------------------------------------------------------
(* Types *)

LEMMA LoadKept ==
  ASSUME LoadInv, UNCHANGED load
  PROVE  LoadInv'
BY DEF LoadInv

(* One load goes on. *)
LEMMA LoadOfOne ==
  ASSUME LoadInv, NEW x \in Loaders, \A y \in Loaders \ {x} : load'[y] = load[y],
         load'[x].pc \in Active => load'[x].rec \in Objects,
         load'[x].pc = "writing" => load'[x].content \in Contents,
         x \in Notices => load'[x].rec = x[2]
  PROVE  LoadInv'
BY DEF LoadInv, Loaders

LEMMA ToTypes ==
  ASSUME TypeInv, NEW x \in Loaders, NEW pc, To(x, pc),
         pc \in {"init", "stat", "quota", "moving", "renaming", "reading", "fetch", "done",
                 "failed"},
         load[x].pc # "idle", pc \in {"done", "failed"} \/ load[x].pc \in Active
  PROVE  load' \in [Loaders -> LoadState] /\ LoadInv'
<1>1. /\ load' \in [Loaders -> LoadState]
      /\ \A y \in Loaders \ {x} : load'[y] = load[y]
      /\ load'[x].pc = pc /\ load'[x].rec = load[x].rec
  BY ToEffect DEF TypeInv
<1>2. load'[x].pc \in Active => load'[x].rec \in Objects
  BY <1>1 DEF TypeInv, LoadInv, Active
<1>3. x \in Notices => load'[x].rec = x[2]
  BY <1>1 DEF TypeInv, LoadInv
<1>. QED BY <1>1, <1>2, <1>3, LoadOfOne DEF TypeInv

(* What a step may do with what was created: only a step that loads or     *)
(* expires changes a size, and only one of a created record.               *)
LEMMA LifeKept ==
  ASSUME TypeInv,
         \A u \in Objects : record'[u].st = "none" =>
           /\ record[u].st = "none" /\ record'[u].size = record[u].size
           /\ record'[u].watch = record[u].watch,
         \A k \in Paths : \/ current'[k] \in Created' \cup {NoObject}
                          \/ \E j \in Paths : current'[k] = current[j],
         jobs' \subseteq jobs \cup Created', listening' \subseteq listening \cup Created',
         \A x \in Loaders : load'[x].rec \in Created' \cup {load[x].rec}
  PROVE  LifeInv'
<1>1. Created \subseteq Created'
  BY DEF Created
<1>. QED BY <1>1 DEF LifeInv, TypeInv

(* A step that changes no size, counter or key. *)
LEMMA RecordsKept ==
  ASSUME TypeInv, UNCHANGED <<total, current>>,
         \A u \in Objects : record'[u].size = record[u].size,
         \A u \in Objects : record'[u].st = "none" =>
           record[u].st = "none" /\ record'[u].watch = record[u].watch,
         jobs' \subseteq jobs \cup Created', listening' \subseteq listening,
         \A x \in Loaders : load'[x].rec \in Created' \cup {load[x].rec}
  PROVE  LifeInv' /\ LedgerExact'
BY LedgerKept, LifeKept DEF TypeInv

(* The record of a load was created. *)
LEMMA RecIsCreated ==
  ASSUME TypeInv, NEW x \in Loaders, load[x].pc \in Active
  PROVE  load[x].rec \in Created
BY NamesAssumption DEF TypeInv, LoadInv, LifeInv

LEMMA SetTypes ==
  ASSUME TypeInv, NEW c \in Sets, Set(c)
  PROVE  TypeInv'
<1> DEFINE p == PathOf[c]
           fresh == {o \in Objects : record[o].st = "none"}
           new == CHOOSE o \in fresh : TRUE
<1>0. c \in Loaders /\ p \in Paths /\ load[c].pc = "idle"
  BY CallsAssumption DEF Loaders, Set
<1>1. CASE /\ file[p] = Missing
           /\ To(c, "failed")
           /\ UNCHANGED <<current, record, jobs, listening>>
  <2>1. /\ load' \in [Loaders -> LoadState] /\ load'[c].pc = "failed"
        /\ load'[c].rec = load[c].rec
        /\ \A y \in Loaders \ {c} : load'[y] = load[y]
    BY <1>0, <1>1, ToEffect DEF TypeInv
  <2>2. LoadInv'
    BY <1>0, <2>1, DistinctAssumption, LoadOfOne DEF TypeInv, Active
  <2>3. LifeInv' /\ LedgerExact'
    BY <1>0, <1>1, <2>1, RecordsKept DEF Set
  <2>. QED BY <1>1, <2>1, <2>2, <2>3 DEF Set, TypeInv, TypeOK, observers
<1>2. CASE /\ file[p] # Missing /\ current[p] # NoObject
           /\ RefreshTTL(current[p], TRUE)
           /\ To(c, "done")
           /\ UNCHANGED <<current, listening>>
  <2>1. /\ load' \in [Loaders -> LoadState] /\ load'[c].pc = "done"
        /\ load'[c].rec = load[c].rec
        /\ \A y \in Loaders \ {c} : load'[y] = load[y]
    BY <1>0, <1>2, ToEffect DEF TypeInv
  <2>2. LoadInv'
    BY <1>0, <2>1, DistinctAssumption, LoadOfOne DEF TypeInv, Active
  <2>3. current[p] \in Created /\ current[p] \in Objects
    BY <1>0, <1>2 DEF TypeInv, LifeInv, Created
  <2>4. /\ record' \in [Objects -> RecordState] /\ jobs' \in SUBSET Objects
        /\ \A u \in Objects : /\ record'[u].size = record[u].size /\ record'[u].st = record[u].st
                              /\ record'[u].watch = record[u].watch
        /\ jobs' \subseteq jobs \cup Created'
    BY <1>2, <2>3, RefreshTTLEffect DEF TypeInv, Created
  <2>5. LifeInv' /\ LedgerExact'
    BY <1>0, <1>2, <2>1, <2>4, RecordsKept DEF Set
  <2>. QED BY <1>2, <2>1, <2>2, <2>4, <2>5 DEF Set, TypeInv, TypeOK, observers
<1>3. CASE /\ file[p] # Missing /\ current[p] = NoObject /\ fresh # {}
           /\ record' = [record EXCEPT ![new] =
                [st |-> "new", by |-> c, path |-> p, size |-> 0,
                 timed |-> FALSE, watch |-> Missing]]
           /\ current' = [current EXCEPT ![p] = new]
           /\ listening' = listening \cup {new}
           /\ load' = [load EXCEPT ![c].pc = "check", ![c].rec = new]
           /\ UNCHANGED jobs
  <2>1. new \in Objects /\ record[new].st = "none"
    BY <1>3
  <2> HIDE DEF new
  <2>2. load'[c] = [pc |-> "check", kind |-> load[c].kind, rec |-> new, path |-> load[c].path,
                    content |-> load[c].content, hit |-> load[c].hit]
    BY <1>0, <1>3 DEF TypeInv, TypeOK, LoadState
  <2>3. load'[c] \in LoadState
    BY <1>0, <2>1, <2>2 DEF TypeInv, TypeOK, LoadState
  <2>4. load' \in [Loaders -> LoadState] /\ \A y \in Loaders \ {c} : load'[y] = load[y]
    BY <1>0, <1>3, <2>3 DEF TypeInv, TypeOK
  <2>5. LoadInv'
    BY <1>0, <2>1, <2>2, <2>4, DistinctAssumption, LoadOfOne DEF TypeInv
  <2>6. /\ record' \in [Objects -> RecordState]
        /\ \A u \in Objects : record'[u].size = record[u].size
        /\ \A u \in Objects : record'[u].st = "none" =>
             record[u].st = "none" /\ record'[u].watch = record[u].watch
        /\ new \in Created'
    <3>1. record[new].size = 0
      BY <2>1 DEF TypeInv, LifeInv
    <3>2. [st |-> "new", by |-> c, path |-> p, size |-> 0,
           timed |-> FALSE, watch |-> Missing] \in RecordState
      BY <1>0 DEF RecordState
    <3>. QED BY <1>3, <2>1, <3>1, <3>2 DEF TypeInv, TypeOK, Created
  <2>7. LedgerExact'
    BY <2>6, LedgerKept DEF Set, TypeInv
  <2>9. LifeInv'
    <3>1. \A k \in Paths : current'[k] = current[k] \/ current'[k] = new
      BY <1>0, <1>3 DEF TypeInv, TypeOK
    <3>2. \A x \in Loaders : load'[x].rec = load[x].rec \/ load'[x].rec = new
      BY <2>2, <2>4
    <3>. QED BY <1>3, <2>6, <3>1, <3>2, LifeKept
  <2>8. current' \in [Paths -> Objects \cup {NoObject}] /\ listening' \in SUBSET Objects
    BY <1>0, <1>3, <2>1 DEF TypeInv, TypeOK
  <2>. QED BY <1>3, <2>4, <2>5, <2>6, <2>7, <2>8, <2>9 DEF Set, TypeInv, TypeOK, observers
<1>. QED BY <1>1, <1>2, <1>3 DEF Set

LEMMA InitStepEffect ==
  ASSUME TypeInv, NEW c \in Sets, InitStep(c), NEW o, o = load[c].rec
  PROVE  /\ o \in Objects
         /\ record' \in [Objects -> RecordState] /\ jobs' \in SUBSET Objects
         /\ \A u \in Objects \ {o} : record'[u] = record[u]
         /\ record'[o].st \in {"new", "ready"} /\ record'[o].by = record[o].by
         /\ record'[o].path = record[o].path /\ record'[o].size = record[o].size
         /\ load' \in [Loaders -> LoadState] /\ LoadInv'
         /\ \A y \in Loaders \ {c} : load'[y] = load[y]
         /\ load'[c].pc \in {"init", "stat", "done", "failed"} /\ load'[c].rec = o
         /\ load'[c].kind = load[c].kind
         /\ load[c].pc \in {"check", "init"} /\ load'[c].pc # load[c].pc
         /\ jobs \subseteq jobs' /\ jobs' \subseteq jobs \cup {o}
         /\ \/ /\ record'[o].st = "ready" /\ record'[o].watch = record[o].watch
               /\ record'[o].timed = record[o].timed
               /\ load'[c].pc = "failed"
            \/ /\ record'[o].watch = record[o].path
               /\ record'[o].st = "new" => load'[c].pc = "stat"
               /\ TTL(o) # "none" /\ ~record[o].timed => o \in jobs'
               /\ load'[c].pc \in {"stat", "done"} /\ load[c].pc = "init"
            \/ /\ UNCHANGED <<record, jobs>>
               /\ load'[c].pc = "init" /\ load[c].pc = "check"
<1> DEFINE v == file[record[o].path]
<1>0. c \in Loaders /\ o \in Objects /\ load[c].pc \in {"check", "init"}
  BY DEF Loaders, InitStep, Check, Initialise, TypeInv, LoadInv, Active
<1>1. CASE InitFails(c) /\ UNCHANGED jobs
  <2>1. /\ load' \in [Loaders -> LoadState] /\ LoadInv'
        /\ \A y \in Loaders \ {c} : load'[y] = load[y]
        /\ load'[c].pc = "failed" /\ load'[c].rec = o /\ load'[c].kind = load[c].kind
    BY <1>0, <1>1, ToEffect, ToTypes DEF TypeInv, InitFails, Active
  <2>2. /\ record' \in [Objects -> RecordState]
        /\ \A u \in Objects \ {o} : record'[u] = record[u]
        /\ record'[o].st = "ready" /\ record'[o].by = record[o].by
        /\ record'[o].path = record[o].path /\ record'[o].size = record[o].size
        /\ record'[o].watch = record[o].watch /\ record'[o].timed = record[o].timed
    <3>1. record \in [Objects -> RecordState] /\ record[o] \in RecordState
      BY <1>0 DEF TypeInv, TypeOK
    <3>2. record'[o] = [st |-> "ready", by |-> record[o].by, path |-> record[o].path,
                        size |-> record[o].size, timed |-> record[o].timed,
                        watch |-> record[o].watch]
      BY <1>0, <1>1, <3>1 DEF InitFails, RecordState
    <3>3. record'[o] \in RecordState
      BY <3>1, <3>2 DEF RecordState
    <3>4. record' \in [Objects -> RecordState]
          /\ \A u \in Objects \ {o} : record'[u] = record[u]
      BY <1>0, <1>1, <3>1, <3>3 DEF InitFails
    <3>. QED BY <3>2, <3>4
  <2>. QED BY <1>0, <1>1, <2>1, <2>2 DEF TypeInv, TypeOK
<1>2. CASE /\ load[c].pc = "init"
           /\ record' = [record EXCEPT
                  ![o].watch = record[o].path,
                  ![o].timed = (TTL(o) # "none"),
                  ![o].st = IF c \in Warm THEN "new" ELSE "ready"]
           /\ jobs' = IF TTL(o) # "none" /\ ~record[o].timed THEN jobs \cup {o} ELSE jobs
           /\ To(c, IF c \in Warm THEN "stat" ELSE "done")
  <2> DEFINE pc == IF c \in Warm THEN "stat" ELSE "done"
  <2>1. /\ load' \in [Loaders -> LoadState] /\ LoadInv'
        /\ \A y \in Loaders \ {c} : load'[y] = load[y]
        /\ load'[c].pc = pc /\ load'[c].rec = o /\ load'[c].kind = load[c].kind
    <3>1. pc \in {"stat", "done"} /\ load[c].pc \in Active /\ To(c, pc)
      BY <1>0, <1>2 DEF Active
    <3> HIDE DEF pc
    <3>. QED BY <1>0, <3>1, ToEffect, ToTypes DEF TypeInv
  <2>2. /\ record' \in [Objects -> RecordState]
        /\ \A u \in Objects \ {o} : record'[u] = record[u]
        /\ record'[o].st = IF c \in Warm THEN "new" ELSE "ready"
        /\ record'[o].by = record[o].by
        /\ record'[o].path = record[o].path /\ record'[o].size = record[o].size
        /\ record'[o].watch = record[o].path
    <3> DEFINE timed == TTL(o) # "none"
               st == IF c \in Warm THEN "new" ELSE "ready"
    <3>1. timed \in BOOLEAN /\ st \in {"new", "ready"}
      OBVIOUS
    <3>2. record' = [record EXCEPT ![o].watch = record[o].path, ![o].timed = timed,
                                   ![o].st = st]
      BY <1>2
    <3>3. record \in [Objects -> RecordState] /\ record[o] \in RecordState
      BY <1>0 DEF TypeInv, TypeOK
    <3> HIDE DEF timed, st
    <3>4. record'[o] = [st |-> st, by |-> record[o].by, path |-> record[o].path,
                        size |-> record[o].size, timed |-> timed, watch |-> record[o].path]
      BY <1>0, <3>2, <3>3 DEF RecordState
    <3>5. record'[o] \in RecordState
      BY <3>1, <3>3, <3>4 DEF RecordState
    <3>6. record' \in [Objects -> RecordState]
          /\ \A u \in Objects \ {o} : record'[u] = record[u]
      BY <1>0, <3>2, <3>3, <3>5
    <3>7. record'[o].st = IF c \in Warm THEN "new" ELSE "ready"
      BY <3>4 DEF st
    <3>. QED BY <3>4, <3>6, <3>7
  <2> DEFINE due == TTL(o) # "none" /\ ~record[o].timed
  <2>3. jobs \in SUBSET Objects /\ jobs' = IF due THEN jobs \cup {o} ELSE jobs
    BY <1>2 DEF TypeInv, TypeOK
  <2>4. pc \in {"stat", "done"} /\ (c \in Warm => pc = "stat")
    OBVIOUS
  <2>5. /\ record'[o].st \in {"new", "ready"}
        /\ record'[o].st = "new" => pc = "stat"
    BY <2>2, <2>4
  <2> HIDE DEF due, pc
  <2>6. /\ jobs' \in SUBSET Objects
        /\ jobs \subseteq jobs' /\ jobs' \subseteq jobs \cup {o}
        /\ due => o \in jobs'
    BY <1>0, <2>3
  <2>7. TTL(o) # "none" /\ ~record[o].timed => o \in jobs'
    BY <2>6 DEF due
  <2>8. /\ load'[c].pc \in {"stat", "done"} /\ load[c].pc = "init"
        /\ record'[o].st = "new" => load'[c].pc = "stat"
    BY <1>2, <2>1, <2>4, <2>5
  <2>. QED BY <1>0, <2>1, <2>2, <2>5, <2>6, <2>7, <2>8
<1>3. CASE load[c].pc = "check" /\ To(c, "init") /\ UNCHANGED <<record, jobs>>
  <2>1. /\ load' \in [Loaders -> LoadState] /\ LoadInv'
        /\ \A y \in Loaders \ {c} : load'[y] = load[y]
        /\ load'[c].pc = "init" /\ load'[c].rec = o /\ load'[c].kind = load[c].kind
    BY <1>0, <1>3, ToEffect, ToTypes DEF TypeInv, Active
  <2>2. record \in [Objects -> RecordState] /\ jobs \in SUBSET Objects
    BY DEF TypeInv, TypeOK
  <2>3. record[o].st \in {"new", "ready"}
    BY <1>0, <2>2, RecIsCreated DEF Created, RecordState, Active
  <2>. QED BY <1>0, <1>3, <2>1, <2>2, <2>3
<1>. QED BY <1>1, <1>2, <1>3 DEF InitStep, Check, Initialise

LEMMA ReadEffect ==
  ASSUME TypeInv, NEW c \in Reads, NEW p \in Paths, Read(c, p), NEW o, o = current[p]
  PROVE  /\ o \in Objects
         /\ record' \in [Objects -> RecordState] /\ jobs' \in SUBSET Objects
         /\ \A u \in Objects \ {o} : record'[u] = record[u]
         /\ record'[o].st = record[o].st /\ record'[o].by = record[o].by
         /\ record'[o].path = record[o].path /\ record'[o].size = record[o].size
         /\ record'[o].watch = record[o].watch
         /\ load' \in [Loaders -> LoadState] /\ LoadInv'
         /\ \A y \in Loaders \ {c} : load'[y] = load[y]
         /\ load'[c].pc \in {"fetch", "stat"} /\ load'[c].rec = o
         /\ load'[c].kind = load[c].kind
         /\ jobs \subseteq jobs' /\ jobs' \subseteq jobs \cup {o}
         /\ record'[o].timed = record[o].timed \/ (TTL(o) # "none" /\ ~record[o].timed => o \in jobs')
<1>0. c \in Loaders /\ o \in Objects /\ load[c].pc = "idle" /\ c \notin Notices
  BY DistinctAssumption DEF Loaders, Read, TypeInv, TypeOK
<1>1. /\ record' \in [Objects -> RecordState] /\ jobs' \in SUBSET Objects
      /\ \A u \in Objects \ {o} : record'[u] = record[u]
      /\ record'[o].st = record[o].st /\ record'[o].by = record[o].by
      /\ record'[o].path = record[o].path /\ record'[o].size = record[o].size
      /\ record'[o].watch = record[o].watch
      /\ jobs \subseteq jobs' /\ jobs' \subseteq jobs \cup {o}
      /\ record'[o].timed = record[o].timed \/ (TTL(o) # "none" /\ ~record[o].timed => o \in jobs')
  <2>1. CASE HasContent(o)
    <3>1. RefreshTTL(o, TRUE)
      BY <2>1 DEF Read
    <3>. QED BY <1>0, <3>1, RefreshTTLEffect DEF TypeInv
  <2>2. CASE ~HasContent(o)
    <3>1. UNCHANGED <<record, jobs>>
      BY <2>2 DEF Read
    <3>2. record \in [Objects -> RecordState] /\ jobs \in SUBSET Objects
      BY DEF TypeInv, TypeOK
    <3>. QED BY <1>0, <3>1, <3>2
  <2>. QED BY <2>1, <2>2
<1> DEFINE hit == HasContent(o)
           pc == IF HasContent(o) THEN "fetch" ELSE "stat"
<1>2. hit \in BOOLEAN /\ pc \in {"fetch", "stat"}
  BY DEF HasContent
<1>3. load' = [load EXCEPT ![c].rec = o, ![c].hit = hit, ![c].pc = pc]
  BY DEF Read
<1> HIDE DEF hit, pc
<1>9. load \in [Loaders -> LoadState] /\ load[c] \in LoadState
  BY <1>0 DEF TypeInv, TypeOK
<1>4. load'[c] = [pc |-> pc, kind |-> load[c].kind, rec |-> o, path |-> load[c].path,
                  content |-> load[c].content, hit |-> hit]
  <2>1. load'[c] = [load[c] EXCEPT !.rec = o, !.hit = hit, !.pc = pc]
    BY <1>0, <1>3, <1>9
  <2>2. load[c] = [pc |-> load[c].pc, kind |-> load[c].kind, rec |-> load[c].rec,
                   path |-> load[c].path, content |-> load[c].content, hit |-> load[c].hit]
    BY <1>9 DEF LoadState
  <2>. QED BY <2>1, <2>2
<1>5. load'[c] \in LoadState
  BY <1>0, <1>2, <1>4, <1>9 DEF LoadState
<1>6. load' \in [Loaders -> LoadState] /\ \A y \in Loaders \ {c} : load'[y] = load[y]
  BY <1>0, <1>3, <1>5, <1>9
<1>7. load'[c].pc = pc /\ load'[c].rec = o /\ load'[c].kind = load[c].kind
  BY <1>4
<1>8. LoadInv'
  BY <1>0, <1>2, <1>6, <1>7, LoadOfOne DEF TypeInv
<1>. QED BY <1>0, <1>1, <1>2, <1>6, <1>7, <1>8

LEMMA FetchedEffect ==
  ASSUME TypeInv, NEW c \in Reads, Fetched(c)
  PROVE  /\ load' \in [Loaders -> LoadState] /\ LoadInv'
         /\ \A y \in Loaders \ {c} : load'[y] = load[y]
         /\ load'[c].pc = "done" /\ load'[c].rec = load[c].rec /\ load'[c].kind = load[c].kind
<1> DEFINE v == stored[record[load[c].rec].path]
<1>0. c \in Loaders /\ c \notin Notices /\ load[c].rec \in Objects
  BY DistinctAssumption DEF Loaders, Fetched, TypeInv, LoadInv, Active
<1>1. v \in Contents \cup {Missing}
  BY <1>0 DEF TypeInv, TypeOK, RecordState
<1>2. load' = [load EXCEPT ![c].pc = "done", ![c].content = v]
  BY DEF Fetched
<1> HIDE DEF v
<1>7. load \in [Loaders -> LoadState] /\ load[c] \in LoadState
  BY <1>0 DEF TypeInv, TypeOK
<1>3. load'[c] = [pc |-> "done", kind |-> load[c].kind, rec |-> load[c].rec,
                  path |-> load[c].path, content |-> v, hit |-> load[c].hit]
  <2>1. load'[c] = [load[c] EXCEPT !.pc = "done", !.content = v]
    BY <1>0, <1>2, <1>7
  <2>2. load[c] = [pc |-> load[c].pc, kind |-> load[c].kind, rec |-> load[c].rec,
                   path |-> load[c].path, content |-> load[c].content, hit |-> load[c].hit]
    BY <1>7 DEF LoadState
  <2>. QED BY <2>1, <2>2
<1>4. load'[c] \in LoadState
  BY <1>0, <1>1, <1>3, <1>7 DEF LoadState
<1>5. load' \in [Loaders -> LoadState] /\ \A y \in Loaders \ {c} : load'[y] = load[y]
  BY <1>0, <1>2, <1>4, <1>7
<1>6. load'[c].pc = "done" /\ load'[c].rec = load[c].rec /\ load'[c].kind = load[c].kind
  BY <1>3
<1>. QED BY <1>0, <1>5, <1>6, LoadOfOne DEF TypeInv, Active

LEMMA FailEffect ==
  ASSUME TypeInv, NEW x \in Loaders, Fail(x), load[x].pc \in Active, NEW o, o = load[x].rec
  PROVE  /\ o \in Objects
         /\ record' \in [Objects -> RecordState]
         /\ \A u \in Objects \ {o} : record'[u] = record[u]
         /\ record'[o].st = "ready" /\ record'[o].by = record[o].by
         /\ record'[o].path = record[o].path /\ record'[o].size = record[o].size
         /\ record'[o].watch = record[o].watch /\ record'[o].timed = record[o].timed
         /\ load' \in [Loaders -> LoadState] /\ LoadInv'
         /\ \A y \in Loaders \ {x} : load'[y] = load[y]
         /\ load'[x].pc = "failed" /\ load'[x].rec = o /\ load'[x].kind = load[x].kind
         /\ UNCHANGED <<jobs, listening, removal>>
<1>1. o \in Objects /\ load[x].pc # "idle"
  BY DEF TypeInv, LoadInv, Active
<1>2. /\ record' \in [Objects -> RecordState]
      /\ \A u \in Objects \ {o} : record'[u] = record[u]
      /\ record'[o].st = "ready" /\ record'[o].by = record[o].by
      /\ record'[o].path = record[o].path /\ record'[o].size = record[o].size
      /\ record'[o].watch = record[o].watch /\ record'[o].timed = record[o].timed
  BY <1>1 DEF Fail, TypeInv, TypeOK, RecordState
<1>3. /\ load' \in [Loaders -> LoadState] /\ LoadInv'
      /\ \A y \in Loaders \ {x} : load'[y] = load[y]
      /\ load'[x].pc = "failed" /\ load'[x].rec = o /\ load'[x].kind = load[x].kind
  BY <1>1, ToEffect, ToTypes DEF Fail, TypeInv
<1>. QED BY <1>1, <1>2, <1>3 DEF Fail

LEMMA FileReadEffect ==
  ASSUME TypeInv, NEW x \in Loaders, load[x].pc = "reading", NEW o, o = load[x].rec,
         FileRead(x), ~Fail(x)
  PROVE  /\ o \in Objects /\ file[record[o].path] \in Contents
         /\ record' \in [Objects -> RecordState] /\ jobs' \in SUBSET Objects
         /\ \A u \in Objects \ {o} : record'[u] = record[u]
         /\ record'[o].st = record[o].st /\ record'[o].by = record[o].by
         /\ record'[o].path = record[o].path /\ record'[o].size = record[o].size
         /\ record'[o].watch = record[o].watch
         /\ load' \in [Loaders -> LoadState] /\ LoadInv'
         /\ \A y \in Loaders \ {x} : load'[y] = load[y]
         /\ load'[x].pc = "writing" /\ load'[x].rec = o /\ load'[x].kind = load[x].kind
         /\ load'[x].path = record[o].path /\ load'[x].content = file[record[o].path]
         /\ jobs \subseteq jobs' /\ jobs' \subseteq jobs \cup {o}
         /\ TTL(o) # "none" /\ ~record[o].timed => o \in jobs'
         /\ UNCHANGED <<listening, removal>>
<1> DEFINE p == record[o].path
           v == file[p]
<1>0. o \in Objects /\ p \in Paths
  BY DEF TypeInv, TypeOK, LoadInv, Active, RecordState
<1>1. /\ v # Missing
      /\ RefreshTTL(o, FALSE)
      /\ load' = [load EXCEPT ![x].pc = "writing", ![x].path = p, ![x].content = v]
      /\ UNCHANGED <<listening, removal>>
  BY DEF FileRead
<1>2. v \in Contents
  BY <1>0, <1>1 DEF TypeInv, TypeOK
<1>3. /\ record' \in [Objects -> RecordState] /\ jobs' \in SUBSET Objects
      /\ \A u \in Objects \ {o} : record'[u] = record[u]
      /\ record'[o].st = record[o].st /\ record'[o].by = record[o].by
      /\ record'[o].path = record[o].path /\ record'[o].size = record[o].size
      /\ record'[o].watch = record[o].watch
      /\ jobs \subseteq jobs' /\ jobs' \subseteq jobs \cup {o}
      /\ TTL(o) # "none" /\ ~record[o].timed => o \in jobs'
  BY <1>0, <1>1, RefreshTTLEffect DEF TypeInv
<1> HIDE DEF p, v
<1>4. load'[x] = [pc |-> "writing", kind |-> load[x].kind, rec |-> o, path |-> p,
                  content |-> v, hit |-> load[x].hit]
  BY <1>1 DEF TypeInv, TypeOK, LoadState
<1>5. load'[x] \in LoadState
  BY <1>0, <1>2, <1>4 DEF TypeInv, TypeOK, LoadState
<1>6. load' \in [Loaders -> LoadState] /\ \A y \in Loaders \ {x} : load'[y] = load[y]
  BY <1>1, <1>5 DEF TypeInv, TypeOK
<1>7. /\ load'[x].pc = "writing" /\ load'[x].rec = o /\ load'[x].kind = load[x].kind
      /\ load'[x].path = p /\ load'[x].content = v
  BY <1>4
<1>8. LoadInv'
  <2>1. x \in Notices => load'[x].rec = x[2]
    BY <1>7 DEF TypeInv, LoadInv
  <2>. QED BY <1>0, <1>2, <1>6, <1>7, <2>1, LoadOfOne DEF TypeInv
<1>. QED BY <1>0, <1>1, <1>2, <1>3, <1>6, <1>7, <1>8 DEF p, v

LEMMA WrittenEffect ==
  ASSUME TypeInv, NEW x \in Loaders, Written(x), NEW o, o = load[x].rec,
         NEW v, v = load[x].content
  PROVE  /\ o \in Objects /\ v \in Contents /\ load[x].path \in Paths
         /\ record' \in [Objects -> RecordState] /\ jobs' \in SUBSET Objects
         /\ \A u \in Objects \ {o} : record'[u] = record[u]
         /\ record'[o].st = (IF x \in Sets THEN "ready" ELSE record[o].st)
         /\ record'[o].by = record[o].by
         /\ record'[o].path = record[o].path /\ record'[o].size = SizeOf[v]
         /\ record'[o].watch = record[o].watch /\ record'[o].timed = record[o].timed
         /\ load' \in [Loaders -> LoadState] /\ LoadInv'
         /\ \A y \in Loaders \ {x} : load'[y] = load[y]
         /\ load'[x].pc = (IF x \in Reads THEN "fetch" ELSE "done")
         /\ load'[x].rec = o /\ load'[x].kind = load[x].kind
         /\ stored' \in [Paths -> Contents \cup {Missing}]
         /\ stored'[load[x].path] = v
         /\ \A k \in Paths \ {load[x].path} : stored'[k] = stored[k]
         /\ jobs \subseteq jobs' /\ jobs' \subseteq jobs \cup {o}
         /\ x \in Reads /\ TTL(o) # "none" /\ IsSliding(o) => o \in jobs'
         /\ Account(o, record'[o].size - record[o].size)
<1>1. /\ o \in Objects /\ v \in Contents /\ load[x].path \in Paths
      /\ SizeOf[v] \in Nat /\ load[x].pc = "writing"
  BY SizesAssumption DEF Written, TypeInv, TypeOK, LoadInv, Active, LoadState
<1>2. /\ record' \in [Objects -> RecordState]
      /\ \A u \in Objects \ {o} : record'[u] = record[u]
      /\ record'[o].st = (IF x \in Sets THEN "ready" ELSE record[o].st)
      /\ record'[o].by = record[o].by
      /\ record'[o].path = record[o].path /\ record'[o].size = SizeOf[v]
      /\ record'[o].watch = record[o].watch /\ record'[o].timed = record[o].timed
  <2>1. record' = [record EXCEPT ![o].size = SizeOf[v],
                                 ![o].st = IF x \in Sets THEN "ready" ELSE @]
    BY DEF Written
  <2> DEFINE size == SizeOf[v]
             st == IF x \in Sets THEN "ready" ELSE record[o].st
  <2>2. record \in [Objects -> RecordState] /\ record[o] \in RecordState
    BY <1>1 DEF TypeInv, TypeOK
  <2>3. size \in Nat /\ st \in {"none", "new", "ready"}
    BY <1>1, <2>2 DEF RecordState
  <2>4. record' = [record EXCEPT ![o].size = size, ![o].st = st]
    BY <1>1, <2>1, <2>2
  <2> HIDE DEF size, st
  <2>5. record'[o] = [st |-> st, by |-> record[o].by, path |-> record[o].path,
                      size |-> size, timed |-> record[o].timed, watch |-> record[o].watch]
    BY <1>1, <2>2, <2>4 DEF RecordState
  <2>6. record'[o] \in RecordState
    BY <2>2, <2>3, <2>5 DEF RecordState
  <2>7. /\ record' \in [Objects -> RecordState]
        /\ \A u \in Objects \ {o} : record'[u] = record[u]
    BY <1>1, <2>2, <2>4, <2>6
  <2>8. /\ record'[o].st = (IF x \in Sets THEN "ready" ELSE record[o].st)
        /\ record'[o].size = SizeOf[v]
    BY <2>5 DEF st, size
  <2>. QED BY <2>5, <2>7, <2>8
<1>3. /\ load' \in [Loaders -> LoadState] /\ LoadInv'
      /\ \A y \in Loaders \ {x} : load'[y] = load[y]
      /\ load'[x].pc = (IF x \in Reads THEN "fetch" ELSE "done")
      /\ load'[x].rec = o /\ load'[x].kind = load[x].kind
  <2> DEFINE pc == IF x \in Reads THEN "fetch" ELSE "done"
  <2>1. To(x, pc) /\ pc \in {"fetch", "done"} /\ load[x].pc \in Active /\ load[x].pc # "idle"
    BY <1>1 DEF Written, Active
  <2> HIDE DEF pc
  <2>2. /\ load' \in [Loaders -> LoadState] /\ LoadInv'
        /\ \A y \in Loaders \ {x} : load'[y] = load[y]
        /\ load'[x].pc = pc /\ load'[x].rec = o /\ load'[x].kind = load[x].kind
    BY <2>1, ToEffect, ToTypes DEF TypeInv
  <2>. QED BY <2>2 DEF pc
<1>4. /\ stored' \in [Paths -> Contents \cup {Missing}]
      /\ stored'[load[x].path] = v
      /\ \A k \in Paths \ {load[x].path} : stored'[k] = stored[k]
  BY <1>1 DEF Written, TypeInv, TypeOK
<1>5. /\ jobs' \in SUBSET Objects
      /\ jobs \subseteq jobs' /\ jobs' \subseteq jobs \cup {o}
      /\ x \in Reads /\ TTL(o) # "none" /\ IsSliding(o) => o \in jobs'
  BY <1>1 DEF Written, TypeInv, TypeOK
<1>6. Account(o, record'[o].size - record[o].size)
  BY <1>2 DEF Written, Growth
<1>. QED BY <1>1, <1>2, <1>3, <1>4, <1>5, <1>6

LEMMA TellEffect ==
  ASSUME TypeInv, NEW e \in Edits, NEW p \in Paths, NEW kind \in EditKinds, NEW q \in Paths,
         Tell(e, p, kind, q)
  PROVE  /\ load' \in [Loaders -> LoadState] /\ LoadInv'
         /\ \A x \in Loaders \ Notices : load'[x] = load[x]
         /\ \A f \in Edits, o \in Objects :
              ~(f = e /\ o \in Watching(p)) => load'[<<f, o>>] = load[<<f, o>>]
         /\ \A o \in Watching(p) :
              /\ load'[<<e, o>>].pc = "told" /\ load'[<<e, o>>].kind = kind
              /\ load'[<<e, o>>].rec = o /\ load'[<<e, o>>].path = q
         /\ \A x \in Loaders : load'[x].rec \in Watching(p) \cup {load[x].rec}
         /\ raced' \subseteq Objects /\ astray' \subseteq Objects
         /\ raced \subseteq raced' /\ astray \subseteq astray'
<1> DEFINE told == {<<e, o>> : o \in Watching(p)}
<1>0. /\ load' = [x \in Loaders |-> load'[x]]
      /\ \A o \in Watching(p) : o \in Objects /\ <<e, o>> \in Notices /\ <<e, o>> \in Loaders
  BY DEF Tell, Watching, Notices, Loaders
<1>1. ASSUME NEW o \in Watching(p)
      PROVE  load'[<<e, o>>] = Notice(o, kind, q)
  BY <1>0 DEF Tell
<1>2. ASSUME NEW x \in Loaders, x \notin told PROVE load'[x] = load[x]
  <2>1. ~(x \in Notices /\ x[1] = e /\ x[2] \in Watching(p))
    BY <1>2 DEF Notices
  <2>. QED BY <2>1 DEF Tell
<1>3. ASSUME NEW o \in Watching(p)
      PROVE  /\ Notice(o, kind, q) \in LoadState
             /\ Notice(o, kind, q).pc = "told" /\ Notice(o, kind, q).kind = kind
             /\ Notice(o, kind, q).rec = o /\ Notice(o, kind, q).path = q
  BY <1>0 DEF Notice, LoadState
<1>4. ASSUME NEW x \in Loaders
      PROVE  /\ load'[x] \in LoadState
             /\ load'[x].pc \in Active => load'[x].rec \in Objects
             /\ load'[x].pc = "writing" => load'[x].content \in Contents
             /\ x \in Notices => (load'[x].pc # "idle" => load'[x].rec = x[2])
  <2>1. CASE x \notin told
    BY <1>2, <2>1 DEF TypeInv, TypeOK, LoadInv
  <2>2. CASE x \in told
    <3>1. PICK o \in Watching(p) : x = <<e, o>>
      BY <2>2
    <3>2. load'[x] = Notice(o, kind, q) /\ x[2] = o /\ o \in Objects
      BY <1>0, <1>1, <3>1
    <3>3. load'[x] \in LoadState /\ load'[x].pc = "told" /\ load'[x].rec = o
      BY <1>3, <3>2
    <3>4. load'[x].pc # "writing"
      BY <3>3
    <3>. QED BY <3>2, <3>3, <3>4
  <2>. QED BY <2>1, <2>2
<1>5. load' \in [Loaders -> LoadState]
  BY <1>0, <1>4
<1>6. LoadInv'
  BY <1>4 DEF LoadInv, Loaders
<1>7. \A x \in Loaders \ Notices : load'[x] = load[x]
  BY <1>0, <1>2
<1>8. ASSUME NEW f \in Edits, NEW o \in Objects, ~(f = e /\ o \in Watching(p))
      PROVE  load'[<<f, o>>] = load[<<f, o>>]
  <2>1. <<f, o>> \in Loaders /\ <<f, o>> \notin told
    BY <1>8 DEF Loaders, Notices
  <2>. QED BY <1>2, <2>1
<1>9. \A x \in Loaders : load'[x].rec \in Watching(p) \cup {load[x].rec}
  BY <1>1, <1>2, <1>3
<1>10. /\ raced' \subseteq Objects /\ astray' \subseteq Objects
       /\ raced \subseteq raced' /\ astray \subseteq astray'
  BY DEF Tell, Watching, TypeInv, TypeOK
<1>. QED BY <1>1, <1>3, <1>5, <1>6, <1>7, <1>8, <1>9, <1>10

LEMMA RenameEffect ==
  ASSUME TypeInv, NEW e \in Edits, NEW p \in Paths, NEW q \in Paths, Rename(e, p, q)
  PROVE  /\ "rename" \in EditKinds
         /\ record' \in [Objects -> RecordState]
         /\ \A u \in Objects :
              /\ record'[u].st = record[u].st /\ record'[u].by = record[u].by
              /\ record'[u].path = record[u].path /\ record'[u].size = record[u].size
              /\ record'[u].timed = record[u].timed
              /\ record'[u].watch = IF u \in Watching(p) THEN q ELSE record[u].watch
         /\ file' \in [Paths -> Contents \cup {Missing}]
         /\ p # q /\ file'[q] = file[p] /\ file'[p] = Missing
         /\ \A k \in Paths \ {p, q} : file'[k] = file[k]
<1>1. /\ file[p] # Missing /\ file[q] = Missing /\ "rename" \in EditKinds
      /\ file' = [file EXCEPT ![q] = file[p], ![p] = Missing]
      /\ record' = [o \in Objects |->
           IF o \in Watching(p) THEN [record[o] EXCEPT !.watch = q] ELSE record[o]]
  BY DEF Rename
<1>2. /\ file' \in [Paths -> Contents \cup {Missing}]
      /\ p # q /\ file'[q] = file[p] /\ file'[p] = Missing
      /\ \A k \in Paths \ {p, q} : file'[k] = file[k]
  BY <1>1 DEF TypeInv, TypeOK
<1>3. ASSUME NEW u \in Objects
      PROVE  /\ record'[u] \in RecordState
             /\ record'[u].st = record[u].st /\ record'[u].by = record[u].by
             /\ record'[u].path = record[u].path /\ record'[u].size = record[u].size
             /\ record'[u].timed = record[u].timed
             /\ record'[u].watch = IF u \in Watching(p) THEN q ELSE record[u].watch
  <2>1. record[u] \in RecordState
    BY DEF TypeInv, TypeOK
  <2>2. CASE u \in Watching(p)
    <3>1. record'[u] = [record[u] EXCEPT !.watch = q]
      BY <1>1, <2>2
    <3>. QED BY <2>1, <2>2, <3>1 DEF RecordState
  <2>3. CASE u \notin Watching(p)
    BY <1>1, <2>1, <2>3
  <2>. QED BY <2>2, <2>3
<1>4. record' \in [Objects -> RecordState]
  BY <1>1, <1>3
<1>. QED BY <1>1, <1>2, <1>3, <1>4

LEMMA OnRenameEffect ==
  ASSUME TypeInv, NEW x \in Notices, OnRename(x), NEW o, o = load[x].rec
  PROVE  /\ o \in Objects /\ x \in Loaders /\ x \in Removers
         /\ removal' \in [Removers -> RemovalState]
         /\ \A y \in Removers \ {x} : removal'[y] = removal[y]
         /\ \/ /\ HasContent(o) /\ removal'[x].pc = "erasing" /\ ~removal'[x].drop
               /\ removal'[x].key = record[o].path
            \/ ~HasContent(o) /\ removal'[x].pc = "done"
<1>1. o \in Objects /\ x \in Loaders /\ x \in Removers /\ record[o].path \in Paths
  BY DEF OnRename, TypeInv, TypeOK, LoadInv, Active, Loaders, Removers, RecordState
<1>2. CASE HasContent(o)
  <2>1. removal' = [removal EXCEPT ![x] = Erasing(record[o].path, FALSE)]
    BY <1>2 DEF OnRename
  <2>2. /\ Erasing(record[o].path, FALSE) \in RemovalState
        /\ Erasing(record[o].path, FALSE)
             = [pc |-> "erasing", key |-> record[o].path, drop |-> FALSE]
    BY <1>1, RemovalTypes
  <2>3. removal'[x] = [pc |-> "erasing", key |-> record[o].path, drop |-> FALSE]
    BY <1>1, <2>1, <2>2 DEF TypeInv, TypeOK
  <2>4. /\ removal' \in [Removers -> RemovalState]
        /\ \A y \in Removers \ {x} : removal'[y] = removal[y]
    BY <1>1, <2>1, <2>2 DEF TypeInv, TypeOK
  <2>. QED BY <1>1, <1>2, <2>3, <2>4
<1>3. CASE ~HasContent(o)
  <2>1. removal' = [removal EXCEPT ![x] = RemovalIs("done")]
    BY <1>3 DEF OnRename
  <2>. QED BY <1>1, <1>3, <2>1, RemovalTypes DEF TypeInv, TypeOK
<1>. QED BY <1>2, <1>3

(* The key a rename moves away from, and the object that is under it.      *)
OldKey(x) == record[load[x].rec].path
Moved(x) == current[OldKey(x)]
LEMMA MoveEntryEffect ==
  ASSUME TypeInv, NEW x \in Notices, MoveEntry(x)
  PROVE  /\ load[x].rec \in Objects /\ OldKey(x) \in Paths /\ load[x].path \in Paths
         /\ x \in Loaders
         /\ current' \in [Paths -> Objects \cup {NoObject}]
         /\ astray \subseteq astray' /\ astray' \subseteq astray \cup {Moved(x)}
         /\ astray' \subseteq Objects
         /\ \/ Moved(x) = NoObject /\ UNCHANGED current
            \/ /\ Moved(x) \in Objects
               /\ current'[load[x].path] =
                    IF load[x].path = OldKey(x) THEN NoObject ELSE Moved(x)
               /\ current'[OldKey(x)] = NoObject
               /\ \A j \in Paths \ {OldKey(x), load[x].path} : current'[j] = current[j]
         /\ Moved(x) \in Objects /\ Moved(x) # load[x].rec /\ ~Following(<<x[1], Moved(x)>>)
              => Moved(x) \in astray'
<1> DEFINE u == load[x].rec
           k == OldKey(x)
           q == load[x].path
           o == Moved(x)
<1>1. u \in Objects /\ k \in Paths /\ q \in Paths /\ x \in Loaders
  BY DEF MoveEntry, TypeInv, TypeOK, LoadInv, Active, Loaders, RecordState, LoadState, OldKey
<1>2. o \in Objects \cup {NoObject} /\ NoObject \notin Objects
  BY <1>1, NamesAssumption DEF TypeInv, TypeOK, Moved
<1>3. current' = IF o = NoObject THEN current
                 ELSE [current EXCEPT ![q] = o, ![k] = NoObject]
  BY DEF MoveEntry, Moved, OldKey
<1>4. astray' = IF o \in {NoObject, u} THEN astray
                ELSE IF Following(<<x[1], o>>) THEN astray ELSE astray \cup {o}
  BY DEF MoveEntry, Moved, OldKey
<1> HIDE DEF u, k, q, o
<1>5. /\ current' \in [Paths -> Objects \cup {NoObject}]
      /\ \/ o = NoObject /\ UNCHANGED current
         \/ /\ o \in Objects
            /\ current'[q] = (IF q = k THEN NoObject ELSE o)
            /\ current'[k] = NoObject
            /\ \A j \in Paths \ {k, q} : current'[j] = current[j]
  BY <1>1, <1>2, <1>3 DEF TypeInv, TypeOK
<1>6. /\ astray \subseteq astray' /\ astray' \subseteq astray \cup {o}
      /\ astray' \subseteq Objects
      /\ o \in Objects /\ o # u /\ ~Following(<<x[1], o>>) => o \in astray'
  BY <1>2, <1>4 DEF TypeInv, TypeOK
<1>. QED BY <1>1, <1>5, <1>6 DEF u, k, q, o

LEMMA MoveRecordEffect ==
  ASSUME TypeInv, NEW x \in Notices, MoveRecord(x), NEW o, o = load[x].rec
  PROVE  /\ o \in Objects /\ x \in Loaders /\ load[x].path \in Paths
         /\ record' \in [Objects -> RecordState]
         /\ \A u \in Objects \ {o} : record'[u] = record[u]
         /\ record'[o].st = record[o].st /\ record'[o].by = record[o].by
         /\ record'[o].path = load[x].path /\ record'[o].size = record[o].size
         /\ record'[o].watch = record[o].watch /\ record'[o].timed = record[o].timed
         /\ load' \in [Loaders -> LoadState] /\ LoadInv'
         /\ \A y \in Loaders \ {x} : load'[y] = load[y]
         /\ load'[x].pc = (IF HasContent(o) THEN "stat" ELSE "done")
         /\ load'[x].rec = o /\ load'[x].kind = load[x].kind /\ load'[x].path = load[x].path
<1>1. o \in Objects /\ x \in Loaders /\ load[x].path \in Paths
  BY DEF MoveRecord, TypeInv, TypeOK, LoadInv, Active, Loaders, LoadState
<1>2. /\ record' \in [Objects -> RecordState]
      /\ \A u \in Objects \ {o} : record'[u] = record[u]
      /\ record'[o].st = record[o].st /\ record'[o].by = record[o].by
      /\ record'[o].path = load[x].path /\ record'[o].size = record[o].size
      /\ record'[o].watch = record[o].watch /\ record'[o].timed = record[o].timed
  BY <1>1 DEF MoveRecord, TypeInv, TypeOK, RecordState
<1> DEFINE pc == IF HasContent(o) THEN "stat" ELSE "done"
<1>3. To(x, pc) /\ pc \in {"stat", "done"} /\ load[x].pc \in Active /\ load[x].pc # "idle"
  BY DEF MoveRecord, Active
<1> HIDE DEF pc
<1>4. /\ load' \in [Loaders -> LoadState] /\ LoadInv'
      /\ \A y \in Loaders \ {x} : load'[y] = load[y]
      /\ load'[x].pc = pc /\ load'[x].rec = o
      /\ load'[x].kind = load[x].kind /\ load'[x].path = load[x].path
  BY <1>1, <1>3, ToEffect, ToTypes DEF TypeInv
<1>. QED BY <1>1, <1>2, <1>4 DEF pc

(* The job of a record with content under 'keep'. *)
Emptied(o) == TTL(o) = "keep" /\ HasContent(o)
LEMMA ExpireEffect ==
  ASSUME TypeInv, NEW o \in Objects, Expire(o)
  PROVE  /\ o \in Removers
         /\ record' \in [Objects -> RecordState] /\ LedgerExact'
         /\ total' \in Nat /\ sweeping' \in BOOLEAN
         /\ \A u \in Objects :
              /\ record'[u].st = record[u].st /\ record'[u].by = record[u].by
              /\ record'[u].path = record[u].path /\ record'[u].timed = record[u].timed
              /\ record'[u].watch = record[u].watch
         /\ \A u \in Objects \ {o} : record'[u].size = record[u].size
         /\ removal' \in [Removers -> RemovalState]
         /\ jobs' \in SUBSET Objects /\ listening' \in SUBSET Objects
         /\ jobs' \subseteq jobs /\ listening' \subseteq listening
         /\ \A y \in Removers \ {o} : removal'[y] = removal[y]
         /\ raced \subseteq raced' /\ raced' \subseteq raced \cup {o}
         /\ Working(o) => o \in raced'
         /\ removal[o].pc \in {"idle", "done"} /\ TTL(o) \in {"evict", "keep"}
         /\ \/ /\ TTL(o) = "evict"
               /\ record' = record /\ UNCHANGED <<total, sweeping>>
               /\ \/ /\ current[record[o].path] # NoObject
                     /\ removal'[o].pc = "erasing" /\ removal'[o].drop
                     /\ removal'[o].key = record[o].path
                     /\ jobs' = jobs \ {o}
                  \/ /\ current[record[o].path] = NoObject
                     /\ removal'[o].pc = "done"
                     /\ \A u \in (jobs \ {o}) \ jobs' : record[u].path = record[o].path
            \/ /\ Emptied(o) /\ record'[o].size = 0
               /\ record[o].size > 0 /\ Account(o, -record[o].size)
               /\ removal'[o].pc = "erasing" /\ ~removal'[o].drop
               /\ removal'[o].key = record[o].path
               /\ jobs' = jobs \ {o}
            \/ /\ TTL(o) = "keep" /\ record[o].size = 0
               /\ record' = record /\ UNCHANGED <<removal, total, sweeping>>
               /\ jobs' = jobs \ {o}
<1>0. o \in Removers /\ record[o].path \in Paths /\ record[o].size \in Nat
  BY DEF Removers, TypeInv, TypeOK, RecordState
<1>1. removal[o].pc \in {"idle", "done"}
  BY <1>0 DEF Expire, InFlight, TypeInv, TypeOK, RemovalState
<1>2. raced \subseteq raced' /\ raced' \subseteq raced \cup {o} /\ (Working(o) => o \in raced')
  BY DEF Expire
<1>3. CASE /\ TTL(o) = "evict"
           /\ Emit(o, o, jobs \ {o})
           /\ UNCHANGED <<record, total, sweeping>>
  <2>1. jobs \ {o} \in SUBSET Objects /\ jobs \ {o} \subseteq jobs
    BY DEF TypeInv, TypeOK
  <2>2. LedgerExact'
    BY <1>3, LedgerKept DEF TypeInv
  <2>. QED BY <1>0, <1>1, <1>2, <1>3, <2>1, <2>2, EmitEffect DEF TypeInv, TypeOK
<1>4. CASE /\ TTL(o) = "keep" /\ HasContent(o)
           /\ jobs' = jobs \ {o}
           /\ record' = [record EXCEPT ![o].size = 0]
           /\ Account(o, -record[o].size)
           /\ removal' = [removal EXCEPT ![o] = Erasing(record[o].path, FALSE)]
           /\ UNCHANGED listening
  <2>1. /\ record' \in [Objects -> RecordState]
        /\ \A u \in Objects :
              /\ record'[u].st = record[u].st /\ record'[u].by = record[u].by
              /\ record'[u].path = record[u].path /\ record'[u].timed = record[u].timed
              /\ record'[u].watch = record[u].watch
        /\ \A u \in Objects \ {o} : record'[u].size = record[u].size
        /\ record'[o].size = 0
    BY <1>4 DEF TypeInv, TypeOK, RecordState
  <2>2. record'[o].size - record[o].size = -record[o].size
    BY <1>0, <2>1
  <2>3. LedgerExact' /\ total' \in Nat /\ sweeping' \in BOOLEAN
    BY <1>4, <2>1, <2>2, LedgerOfOne DEF TypeInv
  <2>4. /\ Erasing(record[o].path, FALSE) \in RemovalState
        /\ Erasing(record[o].path, FALSE)
             = [pc |-> "erasing", key |-> record[o].path, drop |-> FALSE]
    BY <1>0, RemovalTypes
  <2>5. removal'[o] = [pc |-> "erasing", key |-> record[o].path, drop |-> FALSE]
    BY <1>0, <1>4, <2>4 DEF TypeInv, TypeOK
  <2>6. /\ removal' \in [Removers -> RemovalState]
        /\ \A y \in Removers \ {o} : removal'[y] = removal[y]
    BY <1>0, <1>4, <2>4 DEF TypeInv, TypeOK
  <2>7. removal'[o].pc = "erasing" /\ ~removal'[o].drop /\ removal'[o].key = record[o].path
    BY <2>5
  <2>8. Emptied(o) /\ record[o].size > 0
    BY <1>4 DEF Emptied, HasContent
  <2>9. jobs' \in SUBSET Objects /\ listening' \in SUBSET Objects /\ jobs' \subseteq jobs
    BY <1>4 DEF TypeInv, TypeOK
  <2>. QED BY <1>0, <1>1, <1>2, <1>4, <2>1, <2>3, <2>6, <2>7, <2>8, <2>9
<1>5. CASE /\ TTL(o) = "keep" /\ ~HasContent(o)
           /\ jobs' = jobs \ {o}
           /\ UNCHANGED <<listening, record, removal, total, sweeping>>
  <2>1. LedgerExact'
    BY <1>5, LedgerKept DEF TypeInv
  <2>2. record[o].size = 0
    BY <1>0, <1>5 DEF HasContent
  <2>. QED BY <1>0, <1>1, <1>2, <1>5, <2>1, <2>2 DEF TypeInv, TypeOK
<1>. QED BY <1>3, <1>4, <1>5 DEF Expire

LEMMA ErasedEffect ==
  ASSUME TypeInv, NEW k \in Paths, Erased(k)
  PROVE  /\ removal' \in [Removers -> RemovalState]
         /\ stored' \in [Paths -> Contents \cup {Missing}]
         /\ stored'[k] = Missing /\ \A j \in Paths \ {k} : stored'[j] = stored[j]
         /\ \A x \in Removers :
              IF removal[x].pc = "erasing" /\ removal[x].key = k
              THEN IF removal[x].drop
                   THEN removal'[x].pc = "erased" /\ removal'[x].key = k /\ removal'[x].drop
                   ELSE removal'[x].pc = "done"
              ELSE removal'[x] = removal[x]
         /\ \E x \in Removers : removal[x].pc = "erasing" /\ removal[x].key = k
         /\ raced \subseteq raced' /\ raced' \subseteq raced \cup {current[k]}
         /\ raced' \subseteq Objects
         /\ \A x \in Removers :
              /\ removal[x].pc = "erasing" /\ removal[x].key = k /\ ~removal[x].drop
              /\ x # current[k] /\ current[k] \in Objects
              => current[k] \in raced'
<1> DEFINE asked == {x \in Removers : removal[x].pc = "erasing" /\ removal[x].key = k}
<1>1. /\ asked # {}
      /\ removal' = [x \in Removers |->
          IF x \notin asked THEN removal[x]
          ELSE IF removal[x].drop THEN [removal[x] EXCEPT !.pc = "erased"]
          ELSE RemovalIs("done")]
      /\ stored' = [stored EXCEPT ![k] = Missing]
      /\ raced' = raced \cup {o \in Objects :
          o = current[k] /\ \E x \in asked : x # o /\ ~removal[x].drop}
  BY DEF Erased
<1>2. RemovalIs("done") \in RemovalState /\ RemovalIs("done").pc = "done"
  BY RemovalTypes
<1>3. ASSUME NEW x \in Removers
      PROVE  /\ removal'[x] \in RemovalState
             /\ IF removal[x].pc = "erasing" /\ removal[x].key = k
                THEN IF removal[x].drop
                     THEN removal'[x].pc = "erased" /\ removal'[x].key = k /\ removal'[x].drop
                     ELSE removal'[x].pc = "done"
                ELSE removal'[x] = removal[x]
  <2>1. removal[x] \in RemovalState
    BY DEF TypeInv, TypeOK
  <2>2. CASE x \notin asked
    BY <1>1, <2>1, <2>2
  <2>3. CASE x \in asked /\ removal[x].drop
    <3>1. removal'[x] = [removal[x] EXCEPT !.pc = "erased"]
      BY <1>1, <2>3
    <3>. QED BY <2>1, <2>3, <3>1 DEF RemovalState
  <2>4. CASE x \in asked /\ ~removal[x].drop
    <3>1. removal'[x] = RemovalIs("done")
      BY <1>1, <2>4
    <3>. QED BY <1>2, <2>4, <3>1
  <2>. QED BY <2>2, <2>3, <2>4
<1>4. removal' \in [Removers -> RemovalState]
  <2>1. removal' = [x \in Removers |-> removal'[x]]
    BY <1>1
  <2>. QED BY <1>3, <2>1
<1>5. /\ stored' \in [Paths -> Contents \cup {Missing}]
      /\ stored'[k] = Missing /\ \A j \in Paths \ {k} : stored'[j] = stored[j]
  BY <1>1 DEF TypeInv, TypeOK
<1>6. /\ raced \subseteq raced' /\ raced' \subseteq raced \cup {current[k]}
      /\ raced' \subseteq Objects
  BY <1>1 DEF TypeInv, TypeOK
<1>7. ASSUME NEW x \in Removers,
             removal[x].pc = "erasing", removal[x].key = k, ~removal[x].drop,
             x # current[k], current[k] \in Objects
      PROVE  current[k] \in raced'
  BY <1>1, <1>7
<1>. QED BY <1>1, <1>3, <1>4, <1>5, <1>6, <1>7

LEMMA DropEffect ==
  ASSUME TypeInv, NEW x \in Removers, Drop(x), NEW k, k = removal[x].key
  PROVE  /\ k \in Paths
         /\ removal' \in [Removers -> RemovalState]
         /\ removal'[x].pc = "done" /\ \A y \in Removers \ {x} : removal'[y] = removal[y]
         /\ current' \in [Paths -> Objects \cup {NoObject}]
         /\ current'[k] = NoObject /\ \A j \in Paths \ {k} : current'[j] = current[j]
         /\ jobs' \in SUBSET Objects /\ listening' \in SUBSET Objects
         /\ jobs' \subseteq jobs /\ listening' \subseteq listening
         /\ \A u \in jobs \ jobs' : record[u].path = k
<1>1. k \in Paths
  BY DEF TypeInv, TypeOK, RemovalState
<1>2. /\ removal' = [removal EXCEPT ![x] = RemovalIs("done")]
      /\ current' = [current EXCEPT ![k] = NoObject]
      /\ UNCHANGED <<jobs, listening>> \/ Notified(k, jobs)
  BY DEF Drop
<1>3. /\ removal' \in [Removers -> RemovalState]
      /\ removal'[x].pc = "done" /\ \A y \in Removers \ {x} : removal'[y] = removal[y]
  BY <1>2, RemovalTypes DEF TypeInv, TypeOK
<1>4. /\ current' \in [Paths -> Objects \cup {NoObject}]
      /\ current'[k] = NoObject /\ \A j \in Paths \ {k} : current'[j] = current[j]
  BY <1>1, <1>2 DEF TypeInv, TypeOK
<1>5. /\ jobs' \in SUBSET Objects /\ listening' \in SUBSET Objects
      /\ jobs' \subseteq jobs /\ listening' \subseteq listening
      /\ \A u \in jobs \ jobs' : record[u].path = k
  BY <1>2 DEF Notified, TypeInv, TypeOK
<1>. QED BY <1>1, <1>3, <1>4, <1>5

(* The task gives contents up until the total fits or none is left. *)
LEMMA SweepEffect ==
  ASSUME TypeInv, Sweep
  PROVE  /\ record' \in [Objects -> RecordState] /\ LedgerExact' /\ total' \in Nat
         /\ ~sweeping'
         /\ \E S \in SUBSET {o \in Cached : current[record[o].path] # NoObject} :
              /\ total' <= MaxTotalSize
                   \/ S = {o \in Cached : current[record[o].path] # NoObject}
              /\ \A u \in Objects :
                   /\ record'[u].st = record[u].st /\ record'[u].by = record[u].by
                   /\ record'[u].path = record[u].path /\ record'[u].timed = record[u].timed
                   /\ record'[u].watch = record[u].watch
                   /\ record'[u].size = IF u \in S THEN 0 ELSE record[u].size
<1> DEFINE candidates == {o \in Cached : current[record[o].path] # NoObject}
<1>1. PICK S \in SUBSET candidates :
           /\ total - SizeSum(S) <= MaxTotalSize \/ S = candidates
           /\ total' = total - SizeSum(S)
           /\ record' = [o \in Objects |->
               IF o \in S THEN [record[o] EXCEPT !.size = 0] ELSE record[o]]
  BY DEF Sweep
<1>2. S \in SUBSET Objects
  <2>1. \A o \in Cached : o \in Objects
    BY DEF Cached, TypeInv, TypeOK
  <2>. QED BY <2>1
<1>3. ASSUME NEW u \in Objects
      PROVE  /\ record'[u] \in RecordState
             /\ record'[u].st = record[u].st /\ record'[u].by = record[u].by
             /\ record'[u].path = record[u].path /\ record'[u].timed = record[u].timed
             /\ record'[u].watch = record[u].watch
             /\ record'[u].size = IF u \in S THEN 0 ELSE record[u].size
  <2>1. record[u] \in RecordState
    BY DEF TypeInv, TypeOK
  <2>2. CASE u \in S
    <3>1. record'[u] = [record[u] EXCEPT !.size = 0]
      BY <1>1, <2>2
    <3>. QED BY <2>1, <2>2, <3>1 DEF RecordState
  <2>3. CASE u \notin S
    BY <1>1, <2>1, <2>3
  <2>. QED BY <2>2, <2>3
<1>4. record' \in [Objects -> RecordState]
  BY <1>1, <1>3
<1> HIDE DEF candidates
<1>5. LedgerExact' /\ total' \in Nat
  BY <1>1, <1>2, <1>3, <1>4, LedgerOfSweep DEF TypeInv
<1>6. ~sweeping'
  BY DEF Sweep
<1>7. total' <= MaxTotalSize \/ S = candidates
  BY <1>1
<1>. QED BY <1>1, <1>3, <1>4, <1>5, <1>6, <1>7 DEF candidates

(* A step of clear(): only its own removal changes. *)
LEMMA ClearEffect ==
  ASSUME TypeInv, ClearStart \/ ClearStep
  PROVE  /\ UNCHANGED allButClear /\ clear' \in ClearState
         /\ removal' \in [Removers -> RemovalState]
         /\ Clearer \in Removers
         /\ \A y \in Removers \ {Clearer} : removal'[y] = removal[y]
         /\ removal'[Clearer].pc = "erasing" =>
              /\ removal'[Clearer].drop /\ clear.on /\ clear'.on
         /\ removal'[Clearer].pc \in {"erasing", "done"}
         /\ ~clear.on \/ removal[Clearer].pc = "done"
         /\ clear.on => removal'[Clearer] = removal[Clearer] \/ ~InFlight(Clearer)
         /\ clear.on /\ ~clear'.on => removal'[Clearer] = removal[Clearer]
<1>0. Clearer \in Removers
  BY DEF Removers
<1>1. CASE ClearStart
  <2> DEFINE keys == {record[o].path : o \in Cached}
  <2>1. keys \in SUBSET Paths
    BY DEF Cached, TypeInv, TypeOK, RecordState
  <2>2. clear.calls + 1 \in 0..MaxClears
    BY <1>1, SizesAssumption DEF ClearStart, TypeInv, TypeOK, ClearState
  <2>3. clear' = [on |-> TRUE, calls |-> clear.calls + 1, todo |-> keys]
    BY <1>1 DEF ClearStart
  <2> HIDE DEF keys
  <2>4. clear' \in ClearState
    BY <2>1, <2>2, <2>3 DEF ClearState
  <2>5. removal' = [removal EXCEPT ![Clearer] = RemovalIs("done")]
    BY <1>1 DEF ClearStart
  <2>6. /\ removal' \in [Removers -> RemovalState] /\ removal'[Clearer].pc = "done"
        /\ \A y \in Removers \ {Clearer} : removal'[y] = removal[y]
    BY <1>0, <2>5, RemovalTypes DEF TypeInv, TypeOK
  <2>7. ~clear.on /\ UNCHANGED allButClear
    BY <1>1 DEF ClearStart
  <2>. QED BY <1>0, <2>4, <2>6, <2>7
<1>2. CASE ClearNext
  <2>1. PICK k \in clear.todo :
          /\ clear' = [clear EXCEPT !.todo = @ \ {k}]
          /\ removal' = [removal EXCEPT ![Clearer] =
               IF current[k] # NoObject THEN Erasing(k, TRUE) ELSE @]
    BY <1>2 DEF ClearNext
  <2>2. k \in Paths /\ clear' \in ClearState /\ clear'.on = clear.on
    BY <2>1 DEF TypeInv, TypeOK, ClearState
  <2>3. /\ Erasing(k, TRUE) \in RemovalState
        /\ Erasing(k, TRUE) = [pc |-> "erasing", key |-> k, drop |-> TRUE]
    BY <2>2, RemovalTypes
  <2>4. clear.on /\ removal[Clearer].pc = "done" /\ UNCHANGED allButClear
    BY <1>2 DEF ClearNext
  <2>5. CASE current[k] # NoObject
    <3>1. removal' = [removal EXCEPT ![Clearer] = Erasing(k, TRUE)]
      BY <2>1, <2>5
    <3>2. /\ removal' \in [Removers -> RemovalState]
          /\ \A y \in Removers \ {Clearer} : removal'[y] = removal[y]
          /\ removal'[Clearer] = [pc |-> "erasing", key |-> k, drop |-> TRUE]
      BY <1>0, <2>3, <3>1 DEF TypeInv, TypeOK
    <3>3. removal'[Clearer].pc = "erasing" /\ removal'[Clearer].drop
      BY <3>2
    <3>. QED BY <1>0, <2>2, <2>4, <3>2, <3>3 DEF InFlight
  <2>6. CASE current[k] = NoObject
    <3>1. removal' = [removal EXCEPT ![Clearer] = @]
      BY <2>1, <2>6
    <3>2. /\ removal' \in [Removers -> RemovalState]
          /\ \A y \in Removers : removal'[y] = removal[y]
      BY <1>0, <3>1 DEF TypeInv, TypeOK
    <3>. QED BY <1>0, <2>2, <2>4, <3>2 DEF InFlight
  <2>. QED BY <2>5, <2>6
<1>3. CASE ClearEnd
  <2>1. clear' \in ClearState
    BY <1>3 DEF ClearEnd, TypeInv, TypeOK, ClearState
  <2>. QED BY <1>0, <1>3, <2>1 DEF ClearEnd, TypeInv, TypeOK
<1>. QED BY <1>1, <1>2, <1>3 DEF ClearStep

LEMMA InitTypes == Init => TypeInv
<1> SUFFICES ASSUME Init PROVE TypeInv
  OBVIOUS
<1>1. SomePath \in Paths /\ SomeSet \in Sets
  BY NamesAssumption DEF SomePath, SomeSet
<1>2. RemovalIs("idle") \in RemovalState
  BY RemovalTypes
<1>3. /\ file \in [Paths -> Contents \cup {Missing}]
      /\ current \in [Paths -> Objects \cup {NoObject}]
      /\ stored \in [Paths -> Contents \cup {Missing}]
      /\ total \in Nat /\ sweeping \in BOOLEAN
      /\ jobs \subseteq Objects /\ listening \subseteq Objects
      /\ raced \subseteq Objects /\ astray \subseteq Objects
  BY DEF Init, Contents
<1>4. record \in [Objects -> RecordState]
  BY <1>1 DEF Init, RecordState
<1>5. load \in [Loaders -> LoadState]
  BY <1>1 DEF Init, LoadState
<1>6. removal \in [Removers -> RemovalState]
  BY <1>2 DEF Init
<1>7. clear \in ClearState
  BY SizesAssumption DEF Init, ClearState
<1>8. LoadInv /\ LifeInv
  BY DEF Init, LoadInv, LifeInv, Active, Loaders
<1>9. LedgerExact
  <2> DEFINE f == Sizes
  <2>1. \A o \in Objects : f[o] = 0
    BY DEF Init, Sizes
  <2>2. Natural(f, Objects)
    BY <2>1 DEF Natural
  <2> HIDE DEF f
  <2>3. \A o \in Objects : f[o] = IF o \in Objects THEN 0 ELSE f[o]
    BY <2>1
  <2>4. Objects \in SUBSET Objects
    OBVIOUS
  <2>5. SumFunctionOnSet(f, Objects) = SumFunctionOnSet(f, Objects) - SumFunctionOnSet(f, Objects)
    BY <2>2, <2>3, <2>4, ObjectsAssumption, SumOfZeroed
  <2>6. SumFunctionOnSet(f, Objects) \in Nat
    BY <2>2, ObjectsAssumption, SumType
  <2>7. SumFunctionOnSet(f, Objects) = 0
    BY <2>5, <2>6
  <2>. QED BY <2>7 DEF f, Init, LedgerExact, SizeSum
<1>. QED BY <1>3, <1>4, <1>5, <1>6, <1>7, <1>8, <1>9 DEF TypeInv, TypeOK

(* Every step keeps the state well typed and the ledger exact. *)
LEMMA ClientTypes == TypeInv /\ Client => TypeInv'
<1> SUFFICES ASSUME TypeInv, Client PROVE TypeInv'
  OBVIOUS
<1>1. ASSUME NEW c \in Sets, Set(c) PROVE TypeInv'
  BY <1>1, SetTypes
<1>2. ASSUME NEW c \in Reads, NEW p \in Paths, Read(c, p) PROVE TypeInv'
  <2>0. current[p] \in Created /\ c \in Loaders
    BY <1>2 DEF Read, Loaders, TypeInv, LifeInv
  <2>1. LifeInv' /\ LedgerExact'
    <3>1. /\ \A u \in Objects : /\ record'[u].size = record[u].size
                                /\ record'[u].st = record[u].st
                                /\ record'[u].watch = record[u].watch
          /\ \A y \in Loaders : load'[y].rec \in {load[y].rec, current[p]}
          /\ jobs' \subseteq jobs \cup {current[p]}
      BY <1>2, <2>0, ReadEffect
    <3>2. current[p] \in Created'
      BY <2>0, <3>1 DEF Created
    <3>. QED BY <1>2, <3>1, <3>2, RecordsKept DEF Read
  <2>. QED BY <1>2, <2>1, ReadEffect DEF Read, TypeInv, TypeOK, observers
<1>3. ASSUME NEW x \in Removes, NEW p \in Paths, Remove(x, p) PROVE TypeInv'
  <2>1. x \in Removers /\ current[p] \in Objects /\ Emit(x, current[p], jobs)
    BY <1>3 DEF Removers, Remove, TypeInv, TypeOK
  <2>2. /\ removal' \in [Removers -> RemovalState]
        /\ jobs' \in SUBSET Objects /\ listening' \in SUBSET Objects
    BY <2>1, EmitEffect DEF TypeInv, TypeOK
  <2>3. LoadInv' /\ LifeInv' /\ LedgerExact'
    BY <1>3, <2>1, LoadKept, EmitEffect, RecordsKept DEF Remove, TypeInv, TypeOK
  <2>. QED BY <1>3, <2>2, <2>3 DEF Remove, TypeInv, TypeOK, observers
<1>4. CASE ClearStart
  <2>1. LoadInv' /\ LifeInv' /\ LedgerExact'
    BY <1>4, LoadKept, RecordsKept DEF ClearStart, allButClear, TypeInv
  <2>. QED BY <1>4, <2>1, ClearEffect DEF TypeInv, TypeOK, allButClear, observers
<1>. QED BY <1>1, <1>2, <1>3, <1>4 DEF Client

LEMMA WatchersAreCreated ==
  ASSUME TypeInv, NEW p \in Paths
  PROVE  Watching(p) \subseteq Created
BY NamesAssumption DEF Watching, TypeInv, LifeInv, Created

LEMMA DiskTypes == TypeInv /\ Disk => TypeInv'
<1> SUFFICES ASSUME TypeInv, Disk PROVE TypeInv'
  OBVIOUS
<1>1. ASSUME NEW e \in Edits, NEW p \in Paths, Update(e, p) PROVE TypeInv'
  <2>1. /\ "update" \in EditKinds /\ Tell(e, p, "update", p)
        /\ file' = [file EXCEPT ![p] = e] /\ UNCHANGED record
    BY <1>1 DEF Update
  <2>2. load' \in [Loaders -> LoadState] /\ LoadInv'
    BY <2>1, TellEffect
  <2>3. LifeInv' /\ LedgerExact'
    BY <2>1, TellEffect, WatchersAreCreated, RecordsKept DEF Tell, Created
  <2>4. raced' \subseteq Objects /\ astray' \subseteq Objects
    BY <2>1, TellEffect
  <2>5. file' \in [Paths -> Contents \cup {Missing}]
    BY <2>1 DEF TypeInv, TypeOK, Contents
  <2>. QED BY <2>1, <2>2, <2>3, <2>4, <2>5 DEF Tell, TypeInv, TypeOK
<1>2. ASSUME NEW e \in Edits, NEW p \in Paths, Delete(e, p) PROVE TypeInv'
  <2>1. /\ "delete" \in EditKinds /\ Tell(e, p, "delete", p)
        /\ file' = [file EXCEPT ![p] = Missing] /\ UNCHANGED record
    BY <1>2 DEF Delete
  <2>2. load' \in [Loaders -> LoadState] /\ LoadInv'
    BY <2>1, TellEffect
  <2>3. LifeInv' /\ LedgerExact'
    BY <2>1, TellEffect, WatchersAreCreated, RecordsKept DEF Tell, Created
  <2>4. raced' \subseteq Objects /\ astray' \subseteq Objects
    BY <2>1, TellEffect
  <2>5. file' \in [Paths -> Contents \cup {Missing}]
    BY <2>1 DEF TypeInv, TypeOK
  <2>. QED BY <2>1, <2>2, <2>3, <2>4, <2>5 DEF Tell, TypeInv, TypeOK
<1>3. ASSUME NEW e \in Edits, NEW p \in Paths, NEW q \in Paths, Rename(e, p, q) PROVE TypeInv'
  <2>1. "rename" \in EditKinds /\ Tell(e, p, "rename", q)
    BY <1>3 DEF Rename
  <2>2. load' \in [Loaders -> LoadState] /\ LoadInv'
    BY <2>1, TellEffect
  <2>3. /\ record' \in [Objects -> RecordState]
        /\ file' \in [Paths -> Contents \cup {Missing}]
        /\ \A u \in Objects :
             /\ record'[u].size = record[u].size /\ record'[u].st = record[u].st
             /\ u \notin Watching(p) => record'[u].watch = record[u].watch
    BY <1>3, RenameEffect
  <2>4. LifeInv' /\ LedgerExact'
    <3>1. Watching(p) \subseteq Created /\ Created' = Created
      BY <2>3, WatchersAreCreated DEF Created
    <3>2. \A x \in Loaders : load'[x].rec \in Created' \cup {load[x].rec}
      BY <2>1, <3>1, TellEffect
    <3>3. \A u \in Objects : record'[u].st = "none" => record'[u].watch = record[u].watch
      BY <2>3, <3>1 DEF Created
    <3>. QED BY <2>1, <2>3, <3>2, <3>3, RecordsKept DEF Tell
  <2>5. raced' \subseteq Objects /\ astray' \subseteq Objects
    BY <2>1, TellEffect
  <2>. QED BY <2>1, <2>2, <2>3, <2>4, <2>5 DEF Tell, TypeInv, TypeOK
<1>. QED BY <1>1, <1>2, <1>3 DEF Disk

LEMMA LoadTypes ==
  TypeInv /\ ((\E c \in Sets : InitStep(c)) \/ (\E c \in Reads : Fetched(c))
              \/ \E x \in Loaders : LoadStep(x)) => TypeInv'
<1> SUFFICES ASSUME TypeInv,
                    \/ \E c \in Sets : InitStep(c)
                    \/ \E c \in Reads : Fetched(c)
                    \/ \E x \in Loaders : LoadStep(x)
             PROVE  TypeInv'
  OBVIOUS
<1>1. ASSUME NEW c \in Sets, InitStep(c) PROVE TypeInv'
  <2>1. /\ load[c].rec \in Objects
        /\ record' \in [Objects -> RecordState] /\ jobs' \in SUBSET Objects
        /\ \A u \in Objects : record'[u].size = record[u].size
        /\ \A u \in Objects : record'[u].st = "none" =>
             record[u].st = "none" /\ record'[u].watch = record[u].watch
        /\ load' \in [Loaders -> LoadState] /\ LoadInv'
        /\ \A y \in Loaders : load'[y].rec = load[y].rec
        /\ jobs' \subseteq jobs \cup {load[c].rec} /\ load[c].rec \in Created'
    BY <1>1, InitStepEffect DEF Created
  <2>2. LifeInv' /\ LedgerExact'
    BY <1>1, <2>1, RecordsKept DEF InitStep, Check, Initialise, InitFails
  <2>. QED BY <1>1, <2>1, <2>2
     DEF InitStep, Check, Initialise, InitFails, TypeInv, TypeOK, observers
<1>2. ASSUME NEW c \in Reads, Fetched(c) PROVE TypeInv'
  <2>1. load' \in [Loaders -> LoadState] /\ LoadInv'
    BY <1>2, FetchedEffect
  <2>2. LifeInv' /\ LedgerExact'
    BY <1>2, FetchedEffect, RecordsKept DEF Fetched, allButLoad
  <2>. QED BY <1>2, <2>1, <2>2 DEF Fetched, allButLoad, TypeInv, TypeOK, observers
<1>3. ASSUME NEW x \in Loaders, Fail(x), load[x].pc \in Active,
             UNCHANGED <<file, current, stored, total, sweeping, clear, observers>>
      PROVE  TypeInv'
  <2>1. /\ record' \in [Objects -> RecordState]
        /\ \A u \in Objects : record'[u].size = record[u].size
        /\ \A u \in Objects : record'[u].st = "none" =>
             record[u].st = "none" /\ record'[u].watch = record[u].watch
        /\ load' \in [Loaders -> LoadState] /\ LoadInv'
        /\ \A y \in Loaders : load'[y].rec = load[y].rec
        /\ UNCHANGED <<jobs, listening, removal>>
    BY <1>3, FailEffect
  <2>2. LifeInv' /\ LedgerExact'
    BY <1>3, <2>1, RecordsKept
  <2>. QED BY <1>3, <2>1, <2>2 DEF TypeInv, TypeOK, observers
<1>4. ASSUME NEW x \in Loaders, StatAnswers(x) PROVE TypeInv'
  <2> DEFINE o == load[x].rec
  <2>1. o \in Objects /\ x \in Removers /\ load[x].pc = "stat"
    BY <1>4 DEF StatAnswers, TypeInv, LoadInv, Active, Removers
  <2>2. CASE Fail(x)
    BY <1>3, <1>4, <2>1, <2>2 DEF StatAnswers, Active
  <2>3. CASE Emit(x, o, jobs) /\ To(x, "quota") /\ UNCHANGED record
    <3>1. /\ load' \in [Loaders -> LoadState] /\ LoadInv'
          /\ \A y \in Loaders : load'[y].rec = load[y].rec
      BY <2>1, <2>3, ToTypes, ToEffect DEF Active, TypeInv
    <3>2. /\ removal' \in [Removers -> RemovalState]
          /\ jobs' \in SUBSET Objects /\ listening' \in SUBSET Objects
          /\ jobs' \subseteq jobs /\ listening' \subseteq listening
      BY <2>1, <2>3, EmitEffect DEF TypeInv, TypeOK
    <3>3. LifeInv' /\ LedgerExact'
      BY <1>4, <2>3, <3>1, <3>2, RecordsKept DEF StatAnswers
    <3>. QED BY <1>4, <2>3, <3>1, <3>2, <3>3 DEF StatAnswers, TypeInv, TypeOK, observers
  <2>4. CASE To(x, "reading") /\ UNCHANGED <<record, jobs, listening, removal>>
    <3>1. /\ load' \in [Loaders -> LoadState] /\ LoadInv'
          /\ \A y \in Loaders : load'[y].rec = load[y].rec
      BY <2>1, <2>4, ToTypes, ToEffect DEF Active, TypeInv
    <3>3. LifeInv' /\ LedgerExact'
      BY <1>4, <2>4, <3>1, RecordsKept DEF StatAnswers
    <3>. QED BY <1>4, <2>4, <3>1, <3>3 DEF StatAnswers, TypeInv, TypeOK, observers
  <2>. QED BY <1>4, <2>2, <2>3, <2>4 DEF StatAnswers
<1>5. ASSUME NEW x \in Loaders, QuotaEmitted(x) PROVE TypeInv'
  <2>1. /\ load' \in [Loaders -> LoadState] /\ LoadInv'
        /\ \A y \in Loaders : load'[y].rec = load[y].rec
    BY <1>5, ToTypes, ToEffect DEF QuotaEmitted, Active, TypeInv
  <2>2. LifeInv' /\ LedgerExact'
    BY <1>5, <2>1, RecordsKept DEF QuotaEmitted, allButLoad
  <2>. QED BY <1>5, <2>1, <2>2 DEF QuotaEmitted, allButLoad, TypeInv, TypeOK, observers
<1>6. ASSUME NEW x \in Loaders, FileRead(x) PROVE TypeInv'
  <2>1. CASE Fail(x)
    BY <1>3, <1>6, <2>1 DEF FileRead, Active
  <2>2. CASE ~Fail(x)
    <3>1. /\ record' \in [Objects -> RecordState] /\ jobs' \in SUBSET Objects
          /\ \A u \in Objects : /\ record'[u].size = record[u].size
                                /\ record'[u].st = record[u].st
                                /\ record'[u].watch = record[u].watch
          /\ load' \in [Loaders -> LoadState] /\ LoadInv'
          /\ \A y \in Loaders : load'[y].rec = load[y].rec
          /\ jobs' \subseteq jobs \cup {load[x].rec}
          /\ UNCHANGED <<listening, removal>>
      <4> DEFINE o == load[x].rec
      <4>1. load[x].pc = "reading"
        BY <1>6 DEF FileRead
      <4>2. /\ record' \in [Objects -> RecordState] /\ jobs' \in SUBSET Objects
            /\ \A u \in Objects \ {o} : record'[u] = record[u]
            /\ record'[o].st = record[o].st /\ record'[o].size = record[o].size
            /\ record'[o].watch = record[o].watch
            /\ load' \in [Loaders -> LoadState] /\ LoadInv'
            /\ \A y \in Loaders \ {x} : load'[y] = load[y]
            /\ load'[x].rec = o
            /\ jobs' \subseteq jobs \cup {o}
            /\ UNCHANGED <<listening, removal>>
        BY <1>6, <2>2, <4>1, FileReadEffect
      <4>. QED BY <4>2
    <3>2. LifeInv' /\ LedgerExact'
      <4>1. load[x].rec \in Created'
        BY <1>6, <3>1, RecIsCreated DEF FileRead, Active, Created
      <4>. QED BY <1>6, <3>1, <4>1, RecordsKept DEF FileRead
    <3>. QED BY <1>6, <3>1, <3>2 DEF FileRead, TypeInv, TypeOK, observers
  <2>. QED BY <2>1, <2>2
<1>7. ASSUME NEW x \in Loaders, Written(x) PROVE TypeInv'
  <2> DEFINE o == load[x].rec
             v == load[x].content
  <2>1. /\ o \in Objects
        /\ record' \in [Objects -> RecordState] /\ jobs' \in SUBSET Objects
        /\ \A u \in Objects \ {o} : record'[u] = record[u]
        /\ record'[o].st = (IF x \in Sets THEN "ready" ELSE record[o].st)
        /\ load' \in [Loaders -> LoadState] /\ LoadInv'
        /\ stored' \in [Paths -> Contents \cup {Missing}]
        /\ record'[o].watch = record[o].watch
        /\ \A y \in Loaders : load'[y].rec = load[y].rec
        /\ jobs' \subseteq jobs \cup {o}
        /\ Account(o, record'[o].size - record[o].size)
    BY <1>7, WrittenEffect
  <2>2. raced' \subseteq Objects
    BY <1>7 DEF Written, TypeInv, TypeOK
  <2>3. LedgerExact' /\ total' \in Nat /\ sweeping' \in BOOLEAN
    BY <2>1, LedgerOfOne DEF TypeInv
  <2>4. record[o].st # "none" /\ o \in Created'
    <3>1. load[x].pc \in Active
      BY <1>7 DEF Written, Active
    <3>2. o \in Created
      BY <1>7, <3>1, RecIsCreated
    <3>3. o \in Objects /\ record[o].st # "none"
      BY <3>2 DEF Created
    <3>4. record'[o].st # "none"
      BY <2>1, <3>3
    <3>. QED BY <3>3, <3>4 DEF Created
  <2>5. LifeInv'
    <3>1. \A u \in Objects : record'[u].st = "none" => u # o
      BY <2>4 DEF Created
    <3>2. UNCHANGED <<current, listening>>
      BY <1>7 DEF Written
    <3>3. \A k \in Paths : \E j \in Paths : current'[k] = current[j]
      BY <3>2
    <3>. QED BY <2>1, <2>4, <3>1, <3>2, <3>3, LifeKept
  <2>. QED BY <1>7, <2>1, <2>2, <2>3, <2>5 DEF Written, TypeInv, TypeOK
<1>. QED BY <1>1, <1>2, <1>4, <1>5, <1>6, <1>7 DEF LoadStep

LEMMA NoticeTypes == TypeInv /\ (\E x \in Notices : NoticeStep(x)) => TypeInv'
<1> SUFFICES ASSUME TypeInv, NEW x \in Notices, NoticeStep(x) PROVE TypeInv'
  OBVIOUS
<1> DEFINE o == load[x].rec
<1>0. x \in Loaders /\ x \in Removers
  BY DEF Loaders, Removers
<1>1. CASE OnUpdate(x)
  <2> DEFINE pc == IF HasContent(o) THEN "stat" ELSE "done"
  <2>1. To(x, pc) /\ pc \in {"stat", "done"} /\ load[x].pc \in Active /\ load[x].pc # "idle"
    BY <1>1 DEF OnUpdate, Active
  <2> HIDE DEF pc
  <2>2. /\ load' \in [Loaders -> LoadState] /\ LoadInv'
        /\ \A y \in Loaders : load'[y].rec = load[y].rec
    BY <1>0, <2>1, ToTypes, ToEffect DEF TypeInv
  <2>3. LifeInv' /\ LedgerExact'
    BY <1>1, <2>2, RecordsKept DEF OnUpdate, allButLoad
  <2>. QED BY <1>1, <2>2, <2>3 DEF OnUpdate, allButLoad, TypeInv, TypeOK, observers
<1>2. CASE OnRemove(x)
  <2>1. o \in Objects
    BY <1>0, <1>2 DEF OnRemove, TypeInv, LoadInv, Active
  <2>2. /\ load' \in [Loaders -> LoadState] /\ LoadInv'
        /\ \A y \in Loaders : load'[y].rec = load[y].rec
    BY <1>0, <1>2, ToTypes, ToEffect DEF OnRemove, TypeInv, Active
  <2>3. /\ removal' \in [Removers -> RemovalState]
        /\ jobs' \in SUBSET Objects /\ listening' \in SUBSET Objects
        /\ jobs' \subseteq jobs /\ listening' \subseteq listening
    BY <1>0, <1>2, <2>1, EmitEffect DEF OnRemove, TypeInv, TypeOK
  <2>4. LifeInv' /\ LedgerExact'
    BY <1>2, <2>2, <2>3, RecordsKept DEF OnRemove
  <2>. QED BY <1>2, <2>2, <2>3, <2>4 DEF OnRemove, TypeInv, TypeOK, observers
<1>3. CASE OnRename(x)
  <2>1. /\ load' \in [Loaders -> LoadState] /\ LoadInv'
        /\ \A y \in Loaders : load'[y].rec = load[y].rec
    BY <1>0, <1>3, ToTypes, ToEffect DEF OnRename, TypeInv, Active
  <2>2. removal' \in [Removers -> RemovalState]
    BY <1>3, OnRenameEffect
  <2>3. LifeInv' /\ LedgerExact'
    BY <1>3, <2>1, RecordsKept DEF OnRename
  <2>. QED BY <1>3, <2>1, <2>2, <2>3 DEF OnRename, TypeInv, TypeOK, observers
<1>4. CASE MoveEntry(x)
  <2>1. /\ load' \in [Loaders -> LoadState] /\ LoadInv'
        /\ \A y \in Loaders : load'[y].rec = load[y].rec
    BY <1>0, <1>4, ToTypes, ToEffect DEF MoveEntry, TypeInv, Active
  <2>2. current' \in [Paths -> Objects \cup {NoObject}] /\ astray' \subseteq Objects
    BY <1>4, MoveEntryEffect
  <2>3. LedgerExact'
    BY <1>4, LedgerKept DEF MoveEntry, TypeInv
  <2>4. LifeInv'
    <3>1. ASSUME NEW j \in Paths
          PROVE  current'[j] = NoObject \/ \E i \in Paths : current'[j] = current[i]
      <4>1. current'[j] \in {NoObject, current[j], Moved(x)} /\ OldKey(x) \in Paths
        BY <1>4, MoveEntryEffect
      <4>. QED BY <4>1 DEF Moved
    <3>2. UNCHANGED <<record, jobs, listening>>
      BY <1>4 DEF MoveEntry
    <3>. QED BY <2>1, <3>1, <3>2, LifeKept
  <2>. QED BY <1>4, <2>1, <2>2, <2>3, <2>4 DEF MoveEntry, TypeInv, TypeOK
<1>5. CASE MoveRecord(x)
  <2>1. /\ record' \in [Objects -> RecordState]
        /\ \A u \in Objects : /\ record'[u].size = record[u].size
                              /\ record'[u].st = record[u].st
                              /\ record'[u].watch = record[u].watch
        /\ load' \in [Loaders -> LoadState] /\ LoadInv'
        /\ \A y \in Loaders : load'[y].rec = load[y].rec
    <3>1. /\ record' \in [Objects -> RecordState]
          /\ \A u \in Objects \ {o} : record'[u] = record[u]
          /\ record'[o].size = record[o].size /\ record'[o].st = record[o].st
          /\ record'[o].watch = record[o].watch
          /\ load' \in [Loaders -> LoadState] /\ LoadInv'
          /\ \A y \in Loaders \ {x} : load'[y] = load[y]
          /\ load'[x].rec = o
      BY <1>5, MoveRecordEffect
    <3>. QED BY <3>1
  <2>2. LifeInv' /\ LedgerExact'
    BY <1>5, <2>1, RecordsKept DEF MoveRecord
  <2>. QED BY <1>5, <2>1, <2>2 DEF MoveRecord, TypeInv, TypeOK, observers
<1>. QED BY <1>1, <1>2, <1>3, <1>4, <1>5 DEF NoticeStep

LEMMA RemovalStepTypes ==
  TypeInv /\ (\/ \E o \in Objects : Expire(o)
              \/ \E k \in Paths : Erased(k)
              \/ \E x \in Removers : Drop(x)
              \/ Sweep \/ ClearStep) => TypeInv'
<1> SUFFICES ASSUME TypeInv, \/ \E o \in Objects : Expire(o)
                             \/ \E k \in Paths : Erased(k)
                             \/ \E x \in Removers : Drop(x)
                             \/ Sweep \/ ClearStep
             PROVE  TypeInv'
  OBVIOUS
<1>1. ASSUME NEW o \in Objects, Expire(o) PROVE TypeInv'
  <2>1. /\ record' \in [Objects -> RecordState] /\ LedgerExact'
        /\ total' \in Nat /\ sweeping' \in BOOLEAN
        /\ \A u \in Objects : /\ record'[u].st = record[u].st
                              /\ record'[u].watch = record[u].watch
        /\ \A u \in Objects \ {o} : record'[u].size = record[u].size
        /\ record'[o].size = 0 \/ record'[o] = record[o]
        /\ removal' \in [Removers -> RemovalState]
        /\ jobs' \in SUBSET Objects /\ listening' \in SUBSET Objects
        /\ jobs' \subseteq jobs /\ listening' \subseteq listening
        /\ raced' \subseteq raced \cup {o}
    BY <1>1, ExpireEffect
  <2>2. UNCHANGED <<file, current, stored, load, clear, astray>>
    BY <1>1 DEF Expire
  <2>3. LifeInv'
    BY <2>1, <2>2 DEF TypeInv, LifeInv, Created
  <2>4. LoadInv'
    BY <2>2, LoadKept DEF TypeInv
  <2>5. raced' \subseteq Objects
    BY <2>1 DEF TypeInv, TypeOK
  <2>. QED BY <2>1, <2>2, <2>3, <2>4, <2>5 DEF TypeInv, TypeOK
<1>2. ASSUME NEW k \in Paths, Erased(k) PROVE TypeInv'
  <2>1. LoadInv' /\ LifeInv' /\ LedgerExact'
    BY <1>2, LoadKept, RecordsKept DEF Erased, TypeInv
  <2>2. /\ removal' \in [Removers -> RemovalState]
        /\ stored' \in [Paths -> Contents \cup {Missing}]
        /\ raced' \subseteq Objects
    BY <1>2, ErasedEffect
  <2>. QED BY <1>2, <2>1, <2>2 DEF Erased, TypeInv, TypeOK
<1>3. ASSUME NEW x \in Removers, Drop(x) PROVE TypeInv'
  <2> DEFINE k == removal[x].key
  <2>1. /\ removal' \in [Removers -> RemovalState]
        /\ current' \in [Paths -> Objects \cup {NoObject}]
        /\ \A j \in Paths : current'[j] \in {NoObject, current[j]}
        /\ jobs' \in SUBSET Objects /\ listening' \in SUBSET Objects
        /\ jobs' \subseteq jobs /\ listening' \subseteq listening
    <3>1. /\ removal' \in [Removers -> RemovalState]
          /\ current' \in [Paths -> Objects \cup {NoObject}]
          /\ current'[k] = NoObject /\ \A j \in Paths \ {k} : current'[j] = current[j]
          /\ jobs' \in SUBSET Objects /\ listening' \in SUBSET Objects
          /\ jobs' \subseteq jobs /\ listening' \subseteq listening
      BY <1>3, DropEffect
    <3>. QED BY <3>1
  <2>2. UNCHANGED <<file, record, stored, total, sweeping, load, clear, observers>>
    BY <1>3 DEF Drop
  <2>3. LoadInv' /\ LedgerExact'
    BY <2>2, LoadKept, LedgerKept DEF TypeInv
  <2>4. LifeInv'
    BY <2>1, <2>2 DEF TypeInv, LifeInv, Created
  <2>. QED BY <2>1, <2>2, <2>3, <2>4 DEF TypeInv, TypeOK, observers
<1>4. CASE Sweep
  <2>1. /\ record' \in [Objects -> RecordState] /\ LedgerExact' /\ total' \in Nat
        /\ sweeping' \in BOOLEAN
        /\ \A u \in Objects : /\ record'[u].st = record[u].st
                              /\ record'[u].watch = record[u].watch
                              /\ record'[u].size = record[u].size \/ record'[u].size = 0
    <3>1. sweeping' \in BOOLEAN
      BY <1>4 DEF Sweep
    <3>. QED BY <1>4, <3>1, SweepEffect
  <2>2. UNCHANGED <<file, current, stored, jobs, listening, load, removal, clear, observers>>
    BY <1>4 DEF Sweep
  <2>3. LoadInv'
    BY <2>2, LoadKept DEF TypeInv
  <2>4. LifeInv'
    <3>1. UNCHANGED <<current, jobs, listening, load>>
      BY <2>2
    <3>2. Created' = Created
      BY <2>1 DEF Created
    <3>3. \A o \in Objects : record'[o].st = "none" => record'[o].size = 0 /\ record'[o].watch = Missing
      BY <2>1 DEF TypeInv, LifeInv
    <3>. QED BY <3>1, <3>2, <3>3 DEF TypeInv, LifeInv
  <2>. QED BY <2>1, <2>2, <2>3, <2>4 DEF TypeInv, TypeOK, observers
<1>5. CASE ClearStep
  <2>1. LoadInv' /\ LifeInv' /\ LedgerExact'
    BY <1>5, ClearEffect, LoadKept, RecordsKept DEF allButClear, TypeInv
  <2>. QED BY <1>5, <2>1, ClearEffect DEF TypeInv, TypeOK, allButClear, observers
<1>. QED BY <1>1, <1>2, <1>3, <1>4, <1>5

LEMMA TypeStep == TypeInv /\ [Next]_vars => TypeInv'
<1>1. TypeInv /\ UNCHANGED vars => TypeInv'
  BY DEF TypeInv, TypeOK, LoadInv, LifeInv, Created, LedgerExact, SizeSum, Sizes, vars
<1>. QED BY <1>1, ClientTypes, DiskTypes, LoadTypes, NoticeTypes, RemovalStepTypes DEF Next

LEMMA Typed == Spec => []TypeInv
<1>. QED BY InitTypes, TypeStep, PTL DEF Spec

(* Type correctness. *)
THEOREM FilesTypeCorrect == Spec => []TypeOK
<1>1. TypeInv => TypeOK
  BY DEF TypeInv
<1>. QED BY <1>1, Typed, PTL

(* The manager's sizeInMemory is at every moment the sum of the sizes that *)
(* the records kept in memory count: applyDelta, called with the growth of *)
(* a load, with minus the size an expiry of 'keep' takes away and with     *)
(* what a sweep gives up, never loses or counts a byte twice, whatever     *)
(* overlaps.                                                               *)
THEOREM FilesLedgerExact == Spec => []LedgerExact
<1>1. TypeInv => LedgerExact
  BY DEF TypeInv
<1>. QED BY <1>1, Typed, PTL

-----------------------------------------------------------------------------
(* Keys *)

(* A load goes on, and no rename is dealt with. *)
GoesOn(x) ==
  \/ load'[x] = load[x]
  \/ /\ ~Following(x)
     /\ load'[x].pc \notin {"idle", "moving", "renaming"}
     /\ load'[x].pc \in {"check", "init"} => x \in Sets
     /\ load'[x].pc = "fetch" => x \in Reads
     /\ load'[x].pc = "told" => x \in Notices /\ load'[x].kind \notin {"none", "rename"}
     /\ load'[x].kind = load[x].kind \/ load[x].pc = "idle"

(* No record changes its key and no entry of the map its place. *)
Quiet ==
  /\ \A x \in Loaders : GoesOn(x)
  /\ \A u \in Created : record'[u].path = record[u].path
  /\ \A k \in Paths :
       \/ current'[k] \in {current[k], NoObject}
       \/ current'[k] \in Objects \ Created /\ record'[current'[k]].path = k
  /\ astray' = astray

LEMMA OneGoesOn ==
  ASSUME NEW x \in Loaders, \A y \in Loaders \ {x} : load'[y] = load[y], GoesOn(x)
  PROVE  \A y \in Loaders : GoesOn(y)
BY DEF GoesOn

LEMMA NoneGoesOn == UNCHANGED load => \A y \in Loaders : GoesOn(y)
BY DEF GoesOn

(* Only watcher events follow a rename. *)
LEMMA FollowersAreNotices ==
  ASSUME TypeInv, KindInv
  PROVE  /\ \A x \in Loaders : Following(x) => x \in Notices
         /\ \A e \in Edits, o \in Objects : Following(<<e, o>>) =>
              o \in Created /\ load[<<e, o>>].rec = o
<1>1. \A x \in Loaders : Following(x) => x \in Notices
  BY DEF KindInv, Following
<1>2. ASSUME NEW e \in Edits, NEW o \in Objects, Following(<<e, o>>)
      PROVE  o \in Created /\ load[<<e, o>>].rec = o
  <2>1. <<e, o>> \in Notices /\ <<e, o>> \in Loaders
    BY DEF Notices, Loaders
  <2>2. load[<<e, o>>].rec = o
    BY <1>2, <2>1 DEF Following, TypeInv, LoadInv
  <2>. QED BY <2>1, <2>2, NamesAssumption DEF TypeInv, LifeInv
<1>. QED BY <1>1, <1>2

LEMMA QuietKind ==
  ASSUME TypeInv, KindInv, Quiet
  PROVE  KindInv' /\ \A x \in Loaders : Following(x)' <=> Following(x)
<1>1. ASSUME NEW x \in Loaders
      PROVE  /\ load'[x].pc \in {"told", "moving", "renaming"} => x \in Notices
             /\ load'[x].pc \in {"check", "init"} => x \in Sets
             /\ load'[x].pc = "fetch" => x \in Reads
             /\ load'[x].pc \in {"moving", "renaming"} => load'[x].kind = "rename"
             /\ load'[x].pc = "told" => load'[x].kind # "none"
             /\ x \in Notices /\ load'[x].pc = "idle" => load'[x].kind = "none"
             /\ Following(x)' <=> Following(x)
  <2>1. GoesOn(x)
    BY DEF Quiet
  <2>2. CASE load'[x] = load[x]
    BY <2>2 DEF KindInv, Following
  <2>3. CASE load'[x] # load[x]
    BY <2>1, <2>3 DEF KindInv, Following, GoesOn
  <2>. QED BY <2>2, <2>3
<1>2. Notices \subseteq Loaders
  BY DEF Loaders
<1>. QED BY <1>1, <1>2 DEF KindInv

(* Where nothing is renamed, entries stay where they belong. *)
LEMMA QuietKeys ==
  ASSUME TypeInv, KeyInv, Quiet
  PROVE  KeyInv'
<1>1. KindInv' /\ \A x \in Loaders : Following(x)' <=> Following(x)
  BY QuietKind DEF KeyInv
<1>2. ASSUME NEW e \in Edits, NEW o \in Objects, Following(<<e, o>>)'
      PROVE  Following(<<e, o>>) /\ load'[<<e, o>>] = load[<<e, o>>] /\ o \in Created
  <2>1. <<e, o>> \in Loaders
    BY DEF Notices, Loaders
  <2>2. GoesOn(<<e, o>>)
    BY <2>1 DEF Quiet
  <2>3. Following(<<e, o>>)
    BY <1>1, <1>2, <2>1
  <2>. QED BY <2>2, <2>3, FollowersAreNotices DEF GoesOn, KeyInv
<1>3. TargetInv'
  BY <1>2 DEF TargetInv, KeyInv
<1>4. ASSUME NEW k \in Paths, NEW o \in Objects, current'[k] = o, o \notin astray'
      PROVE  Placed(k, o)'
  <2>1. \A e \in Edits : <<e, o>> \in Loaders
    BY DEF Notices, Loaders
  <2>2. \A e \in Edits : Following(<<e, o>>)' <=> Following(<<e, o>>)
    BY <1>1, <2>1
  <2>3. CASE current[k] = o
    <3>1. record'[o].path = record[o].path
      BY <2>3, NamesAssumption DEF Quiet, TypeInv, LifeInv
    <3>2. Placed(k, o)
      BY <1>4, <2>3 DEF Quiet, KeyInv, PlacedInv
    <3>. QED BY <1>2, <2>2, <3>1, <3>2 DEF Placed
  <2>4. CASE o \notin Created /\ record'[o].path = k
    <3>1. \A e \in Edits : ~Following(<<e, o>>)'
      BY <1>2, <2>4
    <3>. QED BY <2>4, <3>1 DEF Placed
  <2>. QED BY <1>4, <2>3, <2>4, NamesAssumption DEF Quiet
<1>5. PlacedInv'
  BY <1>4 DEF PlacedInv
<1>. QED BY <1>1, <1>3, <1>5 DEF KeyInv

(* A load that leaves its state for another one of its own.                *)
LEMMA StepGoesOn ==
  ASSUME TypeInv, KindInv, NEW x \in Loaders, load'[x].kind = load[x].kind,
         ~Following(x),
         \/ load'[x].pc \in {"stat", "quota", "reading", "writing", "done", "failed"}
         \/ x \in Reads /\ load'[x].pc = "fetch"
         \/ x \in Sets /\ load'[x].pc \in {"check", "init"}
  PROVE  GoesOn(x)
BY DEF GoesOn

LEMMA SetIsQuiet ==
  ASSUME TypeInv, KindInv, NEW c \in Sets, Set(c)
  PROVE  Quiet
<1> DEFINE p == PathOf[c]
           fresh == {o \in Objects : record[o].st = "none"}
           new == CHOOSE o \in fresh : TRUE
<1>0. c \in Loaders /\ p \in Paths /\ load[c].pc = "idle" /\ ~Following(c)
  BY CallsAssumption DEF Loaders, Set, Following
<1>1. CASE To(c, "failed") /\ UNCHANGED <<current, record, jobs, listening>>
  <2>1. \A y \in Loaders : GoesOn(y)
    BY <1>0, <1>1, ToEffect, StepGoesOn, OneGoesOn DEF TypeInv
  <2>. QED BY <1>1, <2>1 DEF Set, Quiet, observers
<1>2. CASE /\ current[p] # NoObject /\ RefreshTTL(current[p], TRUE)
           /\ To(c, "done")
           /\ UNCHANGED <<current, listening>>
  <2>1. \A y \in Loaders : GoesOn(y)
    BY <1>0, <1>2, ToEffect, StepGoesOn, OneGoesOn DEF TypeInv
  <2>2. current[p] \in Objects
    BY <1>0, <1>2 DEF TypeInv, TypeOK
  <2>3. \A u \in Objects : record'[u].path = record[u].path
    BY <1>2, <2>2, RefreshTTLEffect DEF TypeInv
  <2>. QED BY <1>2, <2>1, <2>3 DEF Set, Quiet, observers, Created
<1>3. CASE /\ fresh # {}
           /\ record' = [record EXCEPT ![new] =
                [st |-> "new", by |-> c, path |-> p, size |-> 0,
                 timed |-> FALSE, watch |-> Missing]]
           /\ current' = [current EXCEPT ![p] = new]
           /\ load' = [load EXCEPT ![c].pc = "check", ![c].rec = new]
  <2>1. new \in Objects \ Created
    BY <1>3 DEF Created
  <2> HIDE DEF new
  <2>2. /\ load'[c].pc = "check" /\ load'[c].kind = load[c].kind
        /\ \A y \in Loaders \ {c} : load'[y] = load[y]
    BY <1>0, <1>3 DEF TypeInv, TypeOK, LoadState
  <2>3. \A y \in Loaders : GoesOn(y)
    BY <1>0, <2>2, StepGoesOn, OneGoesOn
  <2>4. record'[new].path = p /\ \A u \in Objects \ {new} : record'[u] = record[u]
    BY <1>3, <2>1 DEF TypeInv, TypeOK
  <2>5. current'[p] = new /\ \A k \in Paths \ {p} : current'[k] = current[k]
    BY <1>0, <1>3 DEF TypeInv, TypeOK
  <2>6. astray' = astray
    BY DEF Set, observers
  <2>. QED BY <2>1, <2>3, <2>4, <2>5, <2>6 DEF Quiet, Created
<1>. QED BY <1>1, <1>2, <1>3 DEF Set

LEMMA TellIsQuiet ==
  ASSUME TypeInv, KindInv, NEW e \in Edits, NEW p \in Paths, NEW kind \in EditKinds \ {"rename"},
         Tell(e, p, kind, p), Unused(e), UNCHANGED record
  PROVE  Quiet
<1>1. kind # "none"
  BY CallsAssumption
<1>2. ASSUME NEW x \in Loaders PROVE GoesOn(x)
  <2>1. CASE x \notin Notices
    BY <2>1, TellEffect DEF GoesOn
  <2>2. CASE x \in Notices
    <3>1. PICK f \in Edits, o \in Objects : x = <<f, o>>
      BY <2>2 DEF Notices
    <3>2. CASE f = e /\ o \in Watching(p)
      <4>1. load'[x].pc = "told" /\ load'[x].kind = kind
        BY <3>1, <3>2, TellEffect
      <4>2. load[x].pc = "idle"
        BY <3>1, <3>2 DEF Unused
      <4>. QED BY <1>1, <2>2, <4>1, <4>2 DEF GoesOn, Following
    <3>3. CASE ~(f = e /\ o \in Watching(p))
      BY <3>1, <3>3, TellEffect DEF GoesOn
    <3>. QED BY <3>2, <3>3
  <2>. QED BY <2>1, <2>2
<1>3. astray' = astray /\ UNCHANGED current
  BY DEF Tell
<1>. QED BY <1>2, <1>3 DEF Quiet

LEMMA ClientIsQuiet == TypeInv /\ KindInv /\ Client => Quiet
<1> SUFFICES ASSUME TypeInv, KindInv, Client PROVE Quiet
  OBVIOUS
<1>1. ASSUME NEW c \in Reads, NEW p \in Paths, Read(c, p) PROVE Quiet
  <2>0. c \in Loaders /\ ~Following(c)
    BY <1>1 DEF Loaders, Read, Following
  <2>1. /\ \A u \in Objects : record'[u].path = record[u].path
        /\ load'[c].pc \in {"fetch", "stat"} /\ load'[c].kind = load[c].kind
        /\ \A y \in Loaders \ {c} : load'[y] = load[y]
    BY <1>1, ReadEffect
  <2>2. \A y \in Loaders : GoesOn(y)
    BY <2>0, <2>1, StepGoesOn, OneGoesOn
  <2>. QED BY <1>1, <2>1, <2>2 DEF Read, Quiet, observers, Created
<1>2. ASSUME NEW x \in Removes, NEW p \in Paths, Remove(x, p) PROVE Quiet
  BY <1>2, NoneGoesOn DEF Remove, Quiet, observers
<1>3. CASE ClearStart
  BY <1>3, NoneGoesOn DEF ClearStart, allButClear, Quiet, observers
<1>. QED BY <1>1, <1>2, <1>3, SetIsQuiet DEF Client

LEMMA LoadIsQuiet ==
  TypeInv /\ KindInv /\ ((\E c \in Sets : InitStep(c)) \/ (\E c \in Reads : Fetched(c))
              \/ \E x \in Loaders : LoadStep(x)) => Quiet
<1> SUFFICES ASSUME TypeInv, KindInv,
                    \/ \E c \in Sets : InitStep(c)
                    \/ \E c \in Reads : Fetched(c)
                    \/ \E x \in Loaders : LoadStep(x)
             PROVE  Quiet
  OBVIOUS
<1>0. ASSUME NEW x \in Loaders, load'[x].kind = load[x].kind,
             load[x].pc \in {"check", "init", "fetch", "stat", "quota", "reading", "writing"},
             \/ load'[x].pc \in {"stat", "quota", "reading", "writing", "done", "failed"}
             \/ x \in Reads /\ load'[x].pc = "fetch"
             \/ x \in Sets /\ load'[x].pc = "init",
             \A y \in Loaders \ {x} : load'[y] = load[y],
             \A u \in Objects : record'[u].path = record[u].path,
             UNCHANGED <<current, astray>>
      PROVE  Quiet
  <2>1. \A y \in Loaders : GoesOn(y)
    <3>1. ~Following(x)
      BY <1>0 DEF Following
    <3>. QED BY <1>0, <3>1, StepGoesOn, OneGoesOn
  <2>. QED BY <1>0, <2>1 DEF Quiet, Created
<1>1. ASSUME NEW c \in Sets, InitStep(c) PROVE Quiet
  <2>1. c \in Loaders /\ load[c].pc \in {"check", "init"} /\ UNCHANGED <<current, astray>>
    BY <1>1 DEF Loaders, InitStep, Check, Initialise, InitFails, observers
  <2>2. /\ load'[c].pc \in {"init", "stat", "done", "failed"}
        /\ load'[c].kind = load[c].kind
        /\ \A y \in Loaders \ {c} : load'[y] = load[y]
        /\ \A u \in Objects : record'[u].path = record[u].path
    BY <1>1, InitStepEffect
  <2>. QED BY <1>0, <2>1, <2>2
<1>2. ASSUME NEW c \in Reads, Fetched(c) PROVE Quiet
  <2>1. c \in Loaders /\ load[c].pc = "fetch" /\ UNCHANGED <<current, astray, record>>
    BY <1>2 DEF Loaders, Fetched, allButLoad, observers
  <2>. QED BY <1>0, <1>2, <2>1, FetchedEffect
<1>3. ASSUME NEW x \in Loaders, Fail(x), load[x].pc \in {"stat", "reading"},
             UNCHANGED <<current, astray>>
      PROVE  Quiet
  <2>1. /\ load'[x].pc = "failed" /\ load'[x].kind = load[x].kind
        /\ \A y \in Loaders \ {x} : load'[y] = load[y]
        /\ \A u \in Objects : record'[u].path = record[u].path
    BY <1>3, FailEffect DEF Active
  <2>. QED BY <1>0, <1>3, <2>1
<1>4. ASSUME NEW x \in Loaders, StatAnswers(x) PROVE Quiet
  <2>1. load[x].pc = "stat" /\ UNCHANGED <<current, astray>>
    BY <1>4 DEF StatAnswers, observers
  <2>2. CASE Fail(x)
    BY <1>3, <2>1, <2>2
  <2>3. ASSUME NEW pc \in {"quota", "reading"}, To(x, pc), UNCHANGED record PROVE Quiet
    BY <1>0, <2>1, <2>3, ToEffect DEF TypeInv
  <2>. QED BY <1>4, <2>2, <2>3 DEF StatAnswers
<1>5. ASSUME NEW x \in Loaders, QuotaEmitted(x) PROVE Quiet
  <2>1. load[x].pc = "quota" /\ To(x, "reading") /\ UNCHANGED <<current, astray, record>>
    BY <1>5 DEF QuotaEmitted, allButLoad, observers
  <2>. QED BY <1>0, <2>1, ToEffect DEF TypeInv
<1>6. ASSUME NEW x \in Loaders, FileRead(x) PROVE Quiet
  <2>1. load[x].pc = "reading" /\ UNCHANGED <<current, astray>>
    BY <1>6 DEF FileRead, observers
  <2>2. CASE Fail(x)
    BY <1>3, <2>1, <2>2
  <2>3. CASE ~Fail(x)
    <3>1. /\ load'[x].pc = "writing" /\ load'[x].kind = load[x].kind
          /\ \A y \in Loaders \ {x} : load'[y] = load[y]
          /\ \A u \in Objects : record'[u].path = record[u].path
      <4> DEFINE o == load[x].rec
      <4>1. /\ load'[x].pc = "writing" /\ load'[x].kind = load[x].kind
            /\ \A y \in Loaders \ {x} : load'[y] = load[y]
            /\ \A u \in Objects \ {o} : record'[u] = record[u]
            /\ record'[o].path = record[o].path
        BY <1>6, <2>1, <2>3, FileReadEffect
      <4>. QED BY <4>1
    <3>. QED BY <1>0, <2>1, <3>1
  <2>. QED BY <2>2, <2>3
<1>7. ASSUME NEW x \in Loaders, Written(x) PROVE Quiet
  <2> DEFINE o == load[x].rec
  <2>1. load[x].pc = "writing" /\ UNCHANGED <<current, astray>>
    BY <1>7 DEF Written
  <2>2. /\ load'[x].pc = (IF x \in Reads THEN "fetch" ELSE "done")
        /\ load'[x].kind = load[x].kind
        /\ \A y \in Loaders \ {x} : load'[y] = load[y]
        /\ \A u \in Objects \ {o} : record'[u] = record[u]
        /\ record'[o].path = record[o].path
    BY <1>7, WrittenEffect
  <2>3. \A u \in Objects : record'[u].path = record[u].path
    BY <2>2
  <2>. QED BY <1>0, <2>1, <2>2, <2>3
<1>. QED BY <1>1, <1>2, <1>4, <1>5, <1>6, <1>7 DEF LoadStep

LEMMA NoticeIsQuiet ==
  ASSUME TypeInv, KindInv, NEW x \in Notices, OnUpdate(x) \/ OnRemove(x)
  PROVE  Quiet
<1>0. x \in Loaders
  BY DEF Loaders
<1>1. PICK pc \in {"stat", "done"} : To(x, pc)
  BY DEF OnUpdate, OnRemove
<1>2. ~Following(x) /\ UNCHANGED <<current, astray, record>>
  BY DEF OnUpdate, OnRemove, allButLoad, observers, Following
<1>3. \A y \in Loaders : GoesOn(y)
  BY <1>0, <1>1, <1>2, ToEffect, StepGoesOn, OneGoesOn DEF TypeInv
<1>. QED BY <1>2, <1>3 DEF Quiet

LEMMA RemovalIsQuiet ==
  ASSUME TypeInv, KindInv,
         \/ \E o \in Objects : Expire(o)
         \/ \E k \in Paths : Erased(k)
         \/ \E x \in Removers : Drop(x)
         \/ Sweep
         \/ ClearStep
  PROVE  Quiet
<1>0. UNCHANGED load /\ UNCHANGED astray
  BY DEF Expire, Erased, Drop, Sweep, ClearStep, ClearNext, ClearEnd, allButClear, observers
<1>1. ASSUME NEW o \in Objects, Expire(o) PROVE Quiet
  <2>1. UNCHANGED current /\ \A u \in Objects : record'[u].path = record[u].path
    BY <1>1, ExpireEffect DEF Expire
  <2>. QED BY <1>0, <2>1, NoneGoesOn DEF Quiet, Created
<1>2. ASSUME NEW k \in Paths, Erased(k) PROVE Quiet
  BY <1>0, <1>2, NoneGoesOn DEF Quiet, Erased
<1>3. ASSUME NEW x \in Removers, Drop(x) PROVE Quiet
  <2>1. UNCHANGED record
    BY <1>3 DEF Drop
  <2>2. \A k \in Paths : current'[k] \in {current[k], NoObject}
    BY <1>3 DEF Drop, TypeInv, TypeOK
  <2>. QED BY <1>0, <2>1, <2>2, NoneGoesOn DEF Quiet
<1>4. CASE Sweep
  <2>1. UNCHANGED current
    BY <1>4 DEF Sweep
  <2>2. \A u \in Objects : record'[u].path = record[u].path
    BY <1>4, SweepEffect
  <2>. QED BY <1>0, <2>1, <2>2, NoneGoesOn DEF Quiet, Created
<1>5. CASE ClearStep
  BY <1>0, <1>5, ClearEffect, NoneGoesOn DEF Quiet, allButClear
<1>. QED BY <1>1, <1>2, <1>3, <1>4, <1>5

LEMMA RenameKeys ==
  ASSUME TypeInv, KeyInv, NEW e \in Edits, NEW p \in Paths, NEW q \in Paths, Rename(e, p, q)
  PROVE  KeyInv'
<1> DEFINE told == {<<e, o>> : o \in Watching(p)}
<1>1. /\ "rename" \in EditKinds /\ Tell(e, p, "rename", q) /\ Unused(e)
      /\ UNCHANGED current
  BY DEF Rename, Tell
<1>2. \A u \in Objects : record'[u].path = record[u].path
  BY RenameEffect
<1>3. ASSUME NEW x \in Loaders
      PROVE  \/ load'[x] = load[x]
             \/ /\ x \in told /\ load'[x].pc = "told" /\ load'[x].kind = "rename"
                /\ load'[x].path = q /\ load[x].pc = "idle"
  <2>1. CASE x \notin Notices
    BY <1>1, <2>1, TellEffect
  <2>2. CASE x \in Notices
    <3>1. PICK f \in Edits, o \in Objects : x = <<f, o>>
      BY <2>2 DEF Notices
    <3>2. CASE f = e /\ o \in Watching(p)
      <4>1. /\ load'[x].pc = "told" /\ load'[x].kind = "rename" /\ load'[x].path = q
        BY <1>1, <3>1, <3>2, TellEffect
      <4>2. load[x].pc = "idle"
        BY <1>1, <3>1, <3>2 DEF Unused
      <4>. QED BY <3>1, <3>2, <4>1, <4>2
    <3>3. CASE ~(f = e /\ o \in Watching(p))
      BY <1>1, <3>1, <3>3, TellEffect
    <3>. QED BY <3>2, <3>3
  <2>. QED BY <2>1, <2>2
<1>4. told \subseteq Notices /\ Notices \subseteq Loaders
  BY DEF Notices, Loaders, Watching
<1>5. KindInv'
  <2>1. ASSUME NEW x \in Loaders
        PROVE  /\ load'[x].pc \in {"told", "moving", "renaming"} => x \in Notices
               /\ load'[x].pc \in {"check", "init"} => x \in Sets
               /\ load'[x].pc = "fetch" => x \in Reads
               /\ load'[x].pc \in {"moving", "renaming"} => load'[x].kind = "rename"
               /\ load'[x].pc = "told" => load'[x].kind # "none"
               /\ x \in Notices /\ load'[x].pc = "idle" => load'[x].kind = "none"
    BY <1>3, <1>4 DEF KeyInv, KindInv
  <2>. QED BY <1>4, <2>1 DEF KindInv
(* What follows a rename after the step followed it before or has just     *)
(* been told of this one.                                                  *)
<1>6. ASSUME NEW f \in Edits, NEW o \in Objects, Following(<<f, o>>)'
      PROVE  \/ /\ f = e /\ o \in Watching(p) /\ load'[<<f, o>>].pc = "told"
                /\ load'[<<f, o>>].path = q
             \/ Following(<<f, o>>) /\ load'[<<f, o>>] = load[<<f, o>>] /\ f # e
  <2>1. <<f, o>> \in Loaders
    BY DEF Notices, Loaders
  <2>2. CASE load'[<<f, o>>] = load[<<f, o>>]
    <3>1. Following(<<f, o>>)
      BY <1>6, <2>2 DEF Following
    <3>2. f # e
      BY <1>1, <3>1 DEF Unused, Following
    <3>. QED BY <2>2, <3>1, <3>2
  <2>3. CASE load'[<<f, o>>] # load[<<f, o>>]
    <3>1. <<f, o>> \in told /\ load'[<<f, o>>].pc = "told" /\ load'[<<f, o>>].path = q
      BY <1>3, <2>1, <2>3
    <3>. QED BY <3>1
  <2>. QED BY <2>2, <2>3
<1>7. TargetInv'
  BY <1>6 DEF KeyInv, TargetInv
<1>8. ASSUME NEW k \in Paths, NEW o \in Objects, current'[k] = o, o \notin astray'
      PROVE  Placed(k, o)'
  <2>1. o \notin astray /\ current[k] = o /\ Placed(k, o)
    BY <1>1, <1>8, TellEffect DEF KeyInv, PlacedInv
  <2>2. ASSUME NEW f \in Edits, Following(<<f, o>>) PROVE Following(<<f, o>>)'
    <3>1. <<f, o>> \in Loaders /\ load[<<f, o>>].pc # "idle"
      BY <2>2 DEF Notices, Loaders, Following
    <3>2. load'[<<f, o>>] = load[<<f, o>>]
      BY <1>3, <3>1
    <3>. QED BY <2>2, <3>2 DEF Following
  <2>3. CASE o \in Watching(p)
    <3>1. \A f \in Edits : ~Following(<<f, o>>)
      BY <1>1, <1>8, <2>3 DEF Tell
    <3>2. record[o].path = k
      BY <2>1, <3>1 DEF Placed
    <3>3. ASSUME NEW f \in Edits, Following(<<f, o>>)'
          PROVE  f = e /\ load'[<<f, o>>].pc = "told"
      BY <1>6, <3>1, <3>3
    <3>. QED BY <1>2, <3>2, <3>3 DEF Placed
  <2>4. CASE o \notin Watching(p)
    <3>1. ASSUME NEW f \in Edits, Following(<<f, o>>)'
          PROVE  Following(<<f, o>>) /\ load'[<<f, o>>] = load[<<f, o>>]
      BY <1>6, <2>4, <3>1
    <3>2. (\A f \in Edits : ~Following(<<f, o>>)') => record'[o].path = k
      BY <1>2, <2>1, <2>2 DEF Placed
    <3>. QED BY <1>2, <2>1, <3>1, <3>2 DEF Placed
  <2>. QED BY <2>3, <2>4
<1>9. PlacedInv'
  BY <1>8 DEF PlacedInv
<1>. QED BY <1>5, <1>7, <1>9 DEF KeyInv

LEMMA OnRenameKeys ==
  ASSUME TypeInv, KeyInv, NEW x \in Notices, OnRename(x)
  PROVE  KeyInv'
<1>1. /\ x \in Loaders /\ load[x].pc = "told" /\ load[x].kind = "rename"
      /\ UNCHANGED <<current, record, astray>>
  BY DEF Loaders, OnRename, observers
<1>2. /\ load'[x].pc = "moving" /\ load'[x].kind = "rename" /\ load'[x].path = load[x].path
      /\ \A y \in Loaders \ {x} : load'[y] = load[y]
  BY <1>1, ToEffect DEF OnRename, TypeInv
<1>3. \A y \in Loaders : /\ Following(y)' <=> Following(y)
                         /\ load'[y].path = load[y].path
                         /\ load'[y].pc = "renaming" <=> load[y].pc = "renaming"
  BY <1>1, <1>2 DEF Following
<1>4. KindInv'
  BY <1>1, <1>2 DEF KindInv, KeyInv, Loaders
<1>5. \A e \in Edits, o \in Objects : <<e, o>> \in Loaders
  BY DEF Loaders, Notices
<1>6. TargetInv'
  BY <1>3, <1>5 DEF TargetInv, KeyInv
<1>7. \A k \in Paths, o \in Objects : Placed(k, o) => Placed(k, o)'
  BY <1>1, <1>3, <1>5 DEF Placed
<1>8. PlacedInv'
  BY <1>1, <1>7 DEF PlacedInv, KeyInv
<1>. QED BY <1>4, <1>6, <1>8 DEF KeyInv

LEMMA MoveEntryKeys ==
  ASSUME TypeInv, KeyInv, NEW x \in Notices, MoveEntry(x)
  PROVE  KeyInv'
<1> DEFINE u == load[x].rec
           q == load[x].path
<1>0. PICK e \in Edits, w \in Objects : x = <<e, w>>
  BY DEF Notices
<1>1. /\ x \in Loaders /\ load[x].pc = "moving" /\ load[x].kind = "rename"
      /\ UNCHANGED record /\ u = w /\ Following(x)
  BY <1>0 DEF Loaders, MoveEntry, KeyInv, KindInv, Following, TypeInv, LoadInv
<1>2. /\ load'[x].pc = "renaming" /\ load'[x].kind = "rename" /\ load'[x].path = q
      /\ \A y \in Loaders \ {x} : load'[y] = load[y]
  BY <1>1, ToEffect DEF MoveEntry, TypeInv
<1>3. \A y \in Loaders : /\ Following(y)' <=> Following(y)
                         /\ load'[y].path = load[y].path
                         /\ y # x => load'[y] = load[y]
  BY <1>1, <1>2 DEF Following
<1>4. KindInv'
  BY <1>1, <1>2 DEF KindInv, KeyInv, Loaders
<1>5. \A f \in Edits, o \in Objects : <<f, o>> \in Loaders
  BY DEF Loaders, Notices
<1>6. TargetInv'
  BY <1>3, <1>5 DEF TargetInv, KeyInv
<1>7. \A k \in Paths, o \in Objects \ {w} : Placed(k, o) => Placed(k, o)'
  BY <1>0, <1>1, <1>3, <1>5 DEF Placed
(* The one that moves is now under the new path. *)
<1>8. ASSUME NEW k \in Paths, NEW o \in Objects, o = w, Placed(k, o)
      PROVE  k \in {OldKey(x), q} /\ \A j \in Paths : j = q => Placed(j, o)'
  <2>1. k \in {OldKey(x), q}
    BY <1>0, <1>1, <1>8 DEF Placed, OldKey
  <2>2. \A f \in Edits : Following(<<f, w>>) => f = e
    BY <1>0, <1>1, <1>8 DEF Placed
  <2>. QED BY <1>0, <1>1, <1>2, <1>3, <1>5, <1>8, <2>1, <2>2 DEF Placed
<1>9. ASSUME NEW k \in Paths, NEW o \in Objects, current'[k] = o, o \notin astray'
      PROVE  Placed(k, o)'
  <2>0. /\ OldKey(x) \in Paths /\ q \in Paths /\ o \notin astray /\ NoObject \notin Objects
        /\ current'[OldKey(x)] \in {NoObject} \/ Moved(x) = NoObject
        /\ k \notin {OldKey(x), q} => current'[k] = current[k]
    BY <1>9, MoveEntryEffect, NamesAssumption
  <2>1. CASE Moved(x) = NoObject
    <3>1. UNCHANGED current
      BY <2>0, <2>1, MoveEntryEffect
    <3>2. Placed(k, o) /\ k # OldKey(x)
      BY <1>9, <2>0, <2>1, <3>1 DEF KeyInv, PlacedInv, Moved
    <3>3. CASE o = w
      BY <1>8, <3>2, <3>3
    <3>4. CASE o # w
      BY <1>7, <3>2, <3>4
    <3>. QED BY <3>3, <3>4
  <2>2. CASE Moved(x) # NoObject /\ k \notin {OldKey(x), q}
    <3>1. Placed(k, o)
      BY <1>9, <2>0, <2>2 DEF KeyInv, PlacedInv
    <3>2. o # w
      BY <1>8, <2>2, <3>1
    <3>. QED BY <1>7, <3>1, <3>2
  <2>3. CASE Moved(x) # NoObject /\ k \in {OldKey(x), q}
    <3>1. k = q /\ k # OldKey(x) /\ o = Moved(x)
      BY <1>9, <2>0, <2>3, MoveEntryEffect
    <3>2. Placed(OldKey(x), o)
      BY <2>0, <3>1 DEF KeyInv, PlacedInv, Moved
    <3>3. CASE o = w
      BY <1>8, <2>0, <3>1, <3>2, <3>3
    <3>4. CASE o # w
      <4>1. Following(<<e, o>>)
        <5>1. x[1] = e
          BY <1>0
        <5>. QED BY <1>1, <1>9, <3>1, <3>4, <5>1, MoveEntryEffect
      <4>2. load[<<e, o>>].path = q
        BY <1>0, <1>1, <4>1 DEF KeyInv, TargetInv
      <4>3. \A f \in Edits : Following(<<f, o>>) => f = e
        BY <3>2, <4>1 DEF Placed
      <4>. QED BY <1>3, <1>5, <3>1, <4>1, <4>2, <4>3 DEF Placed
    <3>. QED BY <3>3, <3>4
  <2>. QED BY <2>1, <2>2, <2>3
<1>10. PlacedInv'
  BY <1>9 DEF PlacedInv
<1>. QED BY <1>4, <1>6, <1>10 DEF KeyInv

LEMMA MoveRecordKeys ==
  ASSUME TypeInv, KeyInv, NEW x \in Notices, MoveRecord(x)
  PROVE  KeyInv'
<1> DEFINE q == load[x].path
<1>0. PICK e \in Edits, w \in Objects : x = <<e, w>>
  BY DEF Notices
<1>1. /\ x \in Loaders /\ load[x].pc = "renaming" /\ load[x].kind = "rename"
      /\ UNCHANGED <<current, astray>> /\ load[x].rec = w /\ Following(x)
  BY <1>0 DEF Loaders, MoveRecord, KeyInv, KindInv, Following, TypeInv, LoadInv, observers
<1>2. /\ load'[x].pc \in {"stat", "done"} /\ load'[x].kind = "rename"
      /\ \A y \in Loaders \ {x} : load'[y] = load[y]
      /\ record'[w].path = q /\ \A u \in Objects \ {w} : record'[u] = record[u]
  BY <1>1, MoveRecordEffect
<1>3. /\ \A y \in Loaders : y # x => Following(y)' <=> Following(y)
      /\ ~Following(x)'
  BY <1>2 DEF Following
<1>4. KindInv'
  BY <1>1, <1>2 DEF KindInv, KeyInv, Loaders
<1>5. \A f \in Edits, o \in Objects : <<f, o>> \in Loaders
  BY DEF Loaders, Notices
<1>6. \A f \in Edits, o \in Objects : Following(<<f, o>>)' =>
        Following(<<f, o>>) /\ load'[<<f, o>>] = load[<<f, o>>]
  BY <1>2, <1>3, <1>5
<1>7. TargetInv'
  BY <1>6 DEF TargetInv, KeyInv
<1>8. \A k \in Paths, o \in Objects \ {w} : Placed(k, o) => Placed(k, o)'
  BY <1>0, <1>2, <1>3, <1>5 DEF Placed
<1>9. ASSUME NEW k \in Paths, Placed(k, w)
      PROVE  Placed(k, w)'
  <2>1. k = q
    BY <1>0, <1>1, <1>9 DEF Placed
  <2>2. \A f \in Edits : Following(<<f, w>>) => f = e
    BY <1>0, <1>1, <1>9 DEF Placed
  <2>3. \A f \in Edits : ~Following(<<f, w>>)'
    BY <1>0, <1>3, <1>6, <2>2
  <2>. QED BY <1>2, <2>1, <2>3 DEF Placed
<1>10. PlacedInv'
  BY <1>1, <1>8, <1>9 DEF PlacedInv, KeyInv
<1>. QED BY <1>4, <1>7, <1>10 DEF KeyInv

LEMMA KeyInit == Init => KeyInv
<1> SUFFICES ASSUME Init PROVE KeyInv
  OBVIOUS
<1>1. \A x \in Loaders : load[x].pc = "idle" /\ load[x].kind = "none"
  BY DEF Init
<1>2. \A e \in Edits, o \in Objects : <<e, o>> \in Loaders
  BY DEF Loaders, Notices
<1>3. KindInv
  BY <1>1 DEF KindInv, Loaders
<1>4. TargetInv
  BY <1>1, <1>2 DEF TargetInv, Following
<1>5. PlacedInv
  BY NamesAssumption DEF Init, PlacedInv
<1>. QED BY <1>3, <1>4, <1>5 DEF KeyInv

(* The steps that deal with a rename, and the rest.                        *)
LEMMA StepKinds ==
  ASSUME TypeInv, KindInv, Next
  PROVE  \/ Quiet
         \/ \E e \in Edits, p \in Paths, q \in Paths : Rename(e, p, q)
         \/ \E x \in Notices : OnRename(x) \/ MoveEntry(x) \/ MoveRecord(x)
<1>1. ASSUME NEW e \in Edits, NEW p \in Paths, Update(e, p) \/ Delete(e, p) PROVE Quiet
  <2>1. /\ Unused(e) /\ UNCHANGED record
        /\ \E kind \in EditKinds \ {"rename"} : Tell(e, p, kind, p)
    BY <1>1 DEF Update, Delete
  <2>. QED BY <2>1, TellIsQuiet
<1>2. CASE Disk
  BY <1>1, <1>2 DEF Disk
<1>3. CASE \E x \in Notices : NoticeStep(x)
  BY <1>3, NoticeIsQuiet DEF NoticeStep
<1>4. CASE Client
  BY <1>4, ClientIsQuiet
<1>5. CASE (\E c \in Sets : InitStep(c)) \/ (\E c \in Reads : Fetched(c))
           \/ \E x \in Loaders : LoadStep(x)
  BY <1>5, LoadIsQuiet
<1>6. CASE \/ \E o \in Objects : Expire(o)
           \/ \E k \in Paths : Erased(k)
           \/ \E x \in Removers : Drop(x)
           \/ Sweep
           \/ ClearStep
  BY <1>6, RemovalIsQuiet
<1>. QED BY <1>2, <1>3, <1>4, <1>5, <1>6 DEF Next

LEMMA KeyStep == TypeInv /\ KeyInv /\ [Next]_vars => KeyInv'
<1>1. TypeInv /\ KeyInv /\ UNCHANGED vars => KeyInv'
  BY DEF vars, KeyInv, KindInv, TargetInv, PlacedInv, Placed, Following
<1>2. TypeInv /\ KeyInv /\ Next => KeyInv'
  BY StepKinds, QuietKeys, RenameKeys, OnRenameKeys, MoveEntryKeys, MoveRecordKeys DEF KeyInv
<1>. QED BY <1>1, <1>2

LEMMA Keyed == Spec => [](TypeInv /\ KeyInv)
<1>. QED BY InitTypes, TypeStep, KeyInit, KeyStep, PTL DEF Spec

(* Map and record agree on the key of every record that no load, removal   *)
(* or rename is under way for, however many renames overlap, as long as no *)
(* other record's watcher has moved its entry: the handler of the record's *)
(* watcher and the manager's listener each move one of the two.            *)
THEOREM FilesKeysAgree == Spec => []KeysAgree
<1>1. TypeInv /\ KeyInv => KeysAgree
  <2> SUFFICES ASSUME TypeInv, KeyInv, NEW k \in Paths, NEW o, o = current[k],
                      o # NoObject, ~Busy(o), o \notin astray
               PROVE  record[o].path = k
    BY DEF KeysAgree
  <2>1. o \in Objects
    BY DEF TypeInv, TypeOK
  <2>2. ASSUME NEW e \in Edits, Following(<<e, o>>) PROVE FALSE
    <3>1. <<e, o>> \in Loaders /\ load[<<e, o>>].rec = o
      BY <2>1, <2>2, FollowersAreNotices DEF Notices, Loaders, KeyInv
    <3>. QED BY <2>2, <3>1 DEF Busy, Working, Following
  <2>. QED BY <2>1, <2>2 DEF KeyInv, PlacedInv, Placed
<1>. QED BY <1>1, Keyed, PTL

-----------------------------------------------------------------------------
(* The sweep *)

(* Only loads, expiry and the sweep change what counts.                    *)
LEMMA SizesStay ==
  ASSUME TypeInv, Next
  PROVE  \/ /\ \A u \in Objects : record'[u].size = record[u].size
            /\ UNCHANGED <<total, sweeping>>
         \/ \E x \in Loaders : Written(x)
         \/ \E o \in Objects : Expire(o)
         \/ Sweep
<1> DEFINE Same == /\ \A u \in Objects : record'[u].size = record[u].size
                   /\ UNCHANGED <<total, sweeping>>
<1>1. ASSUME NEW c \in Sets, Set(c) PROVE Same
  <2> DEFINE p == PathOf[c]
             fresh == {o \in Objects : record[o].st = "none"}
             new == CHOOSE o \in fresh : TRUE
  <2>1. CASE UNCHANGED record
    BY <1>1, <2>1 DEF Set
  <2>2. CASE current[p] # NoObject /\ RefreshTTL(current[p], TRUE)
    <3>1. current[p] \in Objects
      BY <2>2, CallsAssumption DEF TypeInv, TypeOK
    <3>2. \A u \in Objects : record'[u].size = record[u].size
      BY <2>2, <3>1, RefreshTTLEffect DEF TypeInv
    <3>. QED BY <1>1, <3>2 DEF Set
  <2>3. CASE /\ fresh # {}
             /\ record' = [record EXCEPT ![new] =
                  [st |-> "new", by |-> c, path |-> p, size |-> 0,
                   timed |-> FALSE, watch |-> Missing]]
    <3>1. new \in fresh
      BY <2>3
    <3>2. new \in Objects /\ record[new].st = "none"
      BY <3>1
    <3> HIDE DEF new
    <3>3. record[new].size = 0
      BY <3>2 DEF TypeInv, LifeInv
    <3>4. \A u \in Objects : record'[u].size = record[u].size
      BY <2>3, <3>2, <3>3 DEF TypeInv, TypeOK
    <3>. QED BY <1>1, <3>4 DEF Set
  <2>. QED BY <1>1, <2>1, <2>2, <2>3 DEF Set
<1>2. ASSUME Client PROVE Same
  <2>1. ASSUME NEW c \in Reads, NEW p \in Paths, Read(c, p) PROVE Same
    <3>1. \A u \in Objects : record'[u].size = record[u].size
      BY <2>1, ReadEffect
    <3>. QED BY <2>1, <3>1 DEF Read
  <2>2. ASSUME NEW x \in Removes, NEW p \in Paths, Remove(x, p) PROVE Same
    BY <2>2 DEF Remove
  <2>3. CASE ClearStart
    BY <2>3 DEF ClearStart, allButClear
  <2>. QED BY <1>1, <1>2, <2>1, <2>2, <2>3 DEF Client
<1>3. ASSUME Disk PROVE Same
  <2>1. UNCHANGED <<total, sweeping>>
    BY <1>3 DEF Disk, Update, Delete, Rename, Tell
  <2>2. \A u \in Objects : record'[u].size = record[u].size
    <3>1. CASE UNCHANGED record
      BY <3>1
    <3>2. ASSUME NEW e \in Edits, NEW p \in Paths, NEW q \in Paths, Rename(e, p, q)
          PROVE  \A u \in Objects : record'[u].size = record[u].size
      BY <3>2, RenameEffect
    <3>. QED BY <1>3, <3>1, <3>2 DEF Disk, Update, Delete
  <2>. QED BY <2>1, <2>2
<1>4. ASSUME NEW c \in Sets, InitStep(c) PROVE Same
  <2>1. \A u \in Objects : record'[u].size = record[u].size
    BY <1>4, InitStepEffect
  <2>. QED BY <1>4, <2>1 DEF InitStep, Check, Initialise, InitFails
<1>5. ASSUME NEW c \in Reads, Fetched(c) PROVE Same
  BY <1>5 DEF Fetched, allButLoad
<1>6. ASSUME NEW x \in Loaders, Fail(x), load[x].pc \in Active, UNCHANGED <<total, sweeping>>
      PROVE  Same
  <2>1. \A u \in Objects : record'[u].size = record[u].size
    BY <1>6, FailEffect
  <2>. QED BY <1>6, <2>1
<1>7. ASSUME NEW x \in Loaders, StatAnswers(x) PROVE Same
  <2>1. load[x].pc \in Active /\ UNCHANGED <<total, sweeping>>
    BY <1>7 DEF StatAnswers, Active
  <2>2. Fail(x) \/ UNCHANGED record
    BY <1>7 DEF StatAnswers
  <2>. QED BY <1>6, <2>1, <2>2
<1>8. ASSUME NEW x \in Loaders, QuotaEmitted(x) PROVE Same
  BY <1>8 DEF QuotaEmitted, allButLoad
<1>9. ASSUME NEW x \in Loaders, FileRead(x) PROVE Same
  <2>1. load[x].pc = "reading" /\ UNCHANGED <<total, sweeping>>
    BY <1>9 DEF FileRead
  <2>2. CASE Fail(x)
    BY <1>6, <2>1, <2>2 DEF Active
  <2>3. CASE ~Fail(x)
    <3> DEFINE o == load[x].rec
    <3>1. /\ \A u \in Objects \ {o} : record'[u] = record[u]
          /\ record'[o].size = record[o].size
      BY <1>9, <2>1, <2>3, FileReadEffect
    <3>2. \A u \in Objects : record'[u].size = record[u].size
      BY <3>1
    <3>. QED BY <2>1, <3>2
  <2>. QED BY <2>2, <2>3
<1>10. ASSUME NEW x \in Notices, NoticeStep(x) PROVE Same
  <2>1. UNCHANGED <<total, sweeping>>
    BY <1>10 DEF NoticeStep, OnUpdate, OnRemove, OnRename, MoveEntry, MoveRecord, allButLoad
  <2>2. CASE UNCHANGED record
    BY <2>1, <2>2
  <2>3. CASE MoveRecord(x)
    <3> DEFINE o == load[x].rec
    <3>1. /\ \A u \in Objects \ {o} : record'[u] = record[u]
          /\ record'[o].size = record[o].size
      BY <2>3, MoveRecordEffect
    <3>2. \A u \in Objects : record'[u].size = record[u].size
      BY <3>1
    <3>. QED BY <2>1, <3>2
  <2>. QED BY <1>10, <2>2, <2>3
     DEF NoticeStep, OnUpdate, OnRemove, OnRename, MoveEntry, allButLoad
<1>11. ASSUME NEW k \in Paths, Erased(k) PROVE Same
  BY <1>11 DEF Erased
<1>12. ASSUME NEW x \in Removers, Drop(x) PROVE Same
  BY <1>12 DEF Drop
<1>13. ASSUME ClearStep PROVE Same
  BY <1>13 DEF ClearStep, ClearNext, ClearEnd, allButClear
<1> HIDE DEF Same
<1>14. ASSUME NEW x \in Loaders, LoadStep(x) PROVE Same \/ Written(x)
  BY <1>7, <1>8, <1>9, <1>14 DEF LoadStep
<1>15. \/ Same
       \/ \E x \in Loaders : Written(x)
       \/ \E o \in Objects : Expire(o)
       \/ Sweep
  <2>1. CASE \E c \in Sets : InitStep(c)
    BY <1>4, <2>1
  <2>2. CASE \E c \in Reads : Fetched(c)
    BY <1>5, <2>2
  <2>3. CASE \E x \in Loaders : LoadStep(x)
    BY <1>14, <2>3
  <2>4. CASE \E x \in Notices : NoticeStep(x)
    BY <1>10, <2>4
  <2>5. CASE \E k \in Paths : Erased(k)
    BY <1>11, <2>5
  <2>6. CASE \E x \in Removers : Drop(x)
    BY <1>12, <2>6
  <2>7. \/ Client \/ Disk \/ ClearStep \/ Sweep
        \/ \E c \in Sets : InitStep(c)
        \/ \E c \in Reads : Fetched(c)
        \/ \E x \in Loaders : LoadStep(x)
        \/ \E x \in Notices : NoticeStep(x)
        \/ \E k \in Paths : Erased(k)
        \/ \E x \in Removers : Drop(x)
        \/ \E o \in Objects : Expire(o)
    BY DEF Next
  <2>. QED BY <1>2, <1>3, <1>13, <2>1, <2>2, <2>3, <2>4, <2>5, <2>6, <2>7, Zenon
<1>. QED BY <1>15 DEF Same

(* Entries come from entries, or are those of records created just now.    *)
LEMMA CachedStay ==
  ASSUME TypeInv, KeyInv, Next, NEW k \in Paths, current'[k] # NoObject
  PROVE  (\E j \in Paths : current'[k] = current[j]) \/ current'[k] \in Objects \ Created
<1>1. CASE Quiet
  BY <1>1 DEF Quiet
<1>2. ASSUME NEW e \in Edits, NEW p \in Paths, NEW q \in Paths, Rename(e, p, q)
      PROVE  \E j \in Paths : current'[k] = current[j]
  BY <1>2 DEF Rename, Tell
<1>3. ASSUME NEW x \in Notices, OnRename(x) \/ MoveRecord(x)
      PROVE  \E j \in Paths : current'[k] = current[j]
  BY <1>3 DEF OnRename, MoveRecord
<1>4. ASSUME NEW x \in Notices, MoveEntry(x)
      PROVE  \E j \in Paths : current'[k] = current[j]
  <2>1. current'[k] \in {NoObject, current[k], Moved(x)} /\ OldKey(x) \in Paths
    BY <1>4, MoveEntryEffect
  <2>. QED BY <2>1 DEF Moved
<1>. QED BY <1>1, <1>2, <1>3, <1>4, StepKinds DEF KeyInv

(* A record that was told of a rename stays one that was, and one gone     *)
(* astray stays astray.                                                    *)
LEMMA RenamedStays ==
  ASSUME TypeInv, KeyInv, Next
  PROVE  (\A o \in Objects : Renamed(o) => Renamed(o)') /\ astray \subseteq astray'
<1>0. \A e \in Edits, o \in Objects : <<e, o>> \in Notices /\ <<e, o>> \in Loaders
  BY DEF Notices, Loaders
<1>1. CASE Quiet
  <2>1. \A x \in Notices : load[x].kind = "rename" => load'[x].kind = "rename"
    <3>1. ASSUME NEW x \in Notices, load[x].kind = "rename"
          PROVE  load'[x].kind = "rename"
      <4>1. GoesOn(x) /\ load[x].pc # "idle"
        BY <1>1, <3>1 DEF Quiet, KeyInv, KindInv, Loaders
      <4>. QED BY <3>1, <4>1 DEF GoesOn
    <3>. QED BY <3>1
  <2>. QED BY <1>0, <1>1, <2>1 DEF Quiet, Renamed
<1>2. ASSUME NEW e \in Edits, NEW p \in Paths, NEW q \in Paths, Rename(e, p, q)
      PROVE  (\A o \in Objects : Renamed(o) => Renamed(o)') /\ astray \subseteq astray'
  <2>1. Tell(e, p, "rename", q) /\ "rename" \in EditKinds
    BY <1>2 DEF Rename
  <2>2. \A f \in Edits, o \in Objects :
          load[<<f, o>>].kind = "rename" => load'[<<f, o>>].kind = "rename"
    BY <2>1, TellEffect
  <2>. QED BY <2>1, <2>2, TellEffect DEF Renamed
<1>3. ASSUME NEW x \in Notices, OnRename(x) \/ MoveEntry(x) \/ MoveRecord(x)
      PROVE  (\A o \in Objects : Renamed(o) => Renamed(o)') /\ astray \subseteq astray'
  <2>1. x \in Loaders /\ \E pc \in {"moving", "renaming", "stat", "done"} : To(x, pc)
    BY <1>3 DEF OnRename, MoveEntry, MoveRecord, Loaders
  <2>2. \A y \in Loaders : load'[y].kind = load[y].kind
    BY <2>1, ToEffect DEF TypeInv
  <2>3. astray \subseteq astray'
    BY <1>3, MoveEntryEffect DEF OnRename, MoveRecord, observers
  <2>. QED BY <1>0, <2>2, <2>3 DEF Renamed
<1>. QED BY <1>1, <1>2, <1>3, StepKinds DEF KeyInv

(* An expiry of 'keep', a load and a sweep leave a total above the limit   *)
(* only with the task queued, or with nothing left to give up.             *)
LEMMA SweepStep ==
  ASSUME TypeInv, KeyInv, SweepFrees, Next
  PROVE  SweepFrees'
<1>1. (\A o \in Objects : Renamed(o) => Renamed(o)') /\ astray \subseteq astray'
  BY RenamedStays
<1>2. \A k \in Paths : current[k] \in Objects \cup {NoObject}
  BY DEF TypeInv, TypeOK
<1>3. CASE /\ \A u \in InMemory : record'[u].size = record[u].size
           /\ UNCHANGED <<total, sweeping>>
  <2> SUFFICES ASSUME ~sweeping', ~(total' <= MaxTotalSize),
                      NEW k \in Paths, NEW o \in Objects, o \in InMemory,
                      o = current'[k], HasContent(o)'
               PROVE  Renamed(o)' \/ o \in astray'
    <3>1. \A k \in Paths : current'[k] \in Objects \cup {NoObject}
      BY TypeStep DEF TypeInv, TypeOK
    <3>. QED BY <3>1 DEF SweepFrees, Cached
  <2>1. HasContent(o) /\ record[o].size > 0
    BY <1>3 DEF HasContent
  <2>2. o \in Created
    BY <2>1 DEF TypeInv, LifeInv, Created
  <2>3. \E j \in Paths : o = current[j]
    BY <2>2, CachedStay, NamesAssumption
  <2>4. o \in Cached
    BY <2>3, NamesAssumption DEF Cached
  <2>. QED BY <1>1, <1>3, <2>1, <2>4 DEF SweepFrees
<1>4. ASSUME NEW o \in Objects, NEW d \in Int, Account(o, d),
             \A u \in Objects \ {o} : record'[u].size = record[u].size,
             d = 0 => record'[o].size = record[o].size,
             UNCHANGED current
      PROVE  SweepFrees'
  <2>1. CASE ~(o \in InMemory /\ d # 0)
    <3>1. UNCHANGED <<total, sweeping>>
      BY <1>4, <2>1 DEF Account
    <3>2. \A u \in InMemory : record'[u].size = record[u].size
      BY <1>4, <2>1, ObjectsAssumption
    <3>. QED BY <1>3, <3>1, <3>2
  <2>2. CASE o \in InMemory /\ d # 0
    <3>1. sweeping' \/ total' <= MaxTotalSize
      <4>1. total' > MaxTotalSize => sweeping'
        BY <1>4, <2>2 DEF Account
      <4>2. total' \in Nat /\ MaxTotalSize \in Nat
        BY TypeStep, SizesAssumption DEF TypeInv, TypeOK
      <4>. QED BY <4>1, <4>2
    <3>. QED BY <3>1 DEF SweepFrees
  <2>. QED BY <2>1, <2>2
<1>5. ASSUME NEW x \in Loaders, Written(x) PROVE SweepFrees'
  <2> DEFINE o == load[x].rec
             d == record'[o].size - record[o].size
  <2>1. /\ o \in Objects /\ record' \in [Objects -> RecordState]
        /\ \A u \in Objects \ {o} : record'[u] = record[u]
        /\ Account(o, d)
    BY <1>5, WrittenEffect
  <2>2. d \in Int /\ (d = 0 => record'[o].size = record[o].size)
    <3>1. record'[o].size \in Nat /\ record[o].size \in Nat
      BY <2>1 DEF RecordState, TypeInv, TypeOK
    <3>. QED BY <3>1
  <2>3. UNCHANGED current
    BY <1>5 DEF Written
  <2> HIDE DEF o, d
  <2>. QED BY <1>4, <2>1, <2>2, <2>3
<1>6. ASSUME NEW o \in Objects, Expire(o) PROVE SweepFrees'
  <2>1. UNCHANGED current
    BY <1>6 DEF Expire
  <2>2. CASE UNCHANGED <<record, total, sweeping>>
    BY <1>3, <2>2
  <2>3. CASE record[o].size > 0 /\ Account(o, -record[o].size)
    <3>1. record[o].size \in Nat
      BY DEF TypeInv, TypeOK, RecordState
    <3>2. -record[o].size \in Int /\ -record[o].size # 0
      BY <2>3, <3>1
    <3>3. \A u \in Objects \ {o} : record'[u].size = record[u].size
      BY <1>6, ExpireEffect
    <3>. QED BY <1>4, <2>1, <2>3, <3>2, <3>3
  <2>. QED BY <1>6, <2>2, <2>3, ExpireEffect
<1>7. CASE Sweep
  <2>1. PICK S \in SUBSET {o \in Cached : current[record[o].path] # NoObject} :
              /\ total' <= MaxTotalSize
                   \/ S = {o \in Cached : current[record[o].path] # NoObject}
              /\ \A u \in Objects :
                   /\ record'[u].path = record[u].path
                   /\ record'[u].size = IF u \in S THEN 0 ELSE record[u].size
    BY <1>7, SweepEffect
  <2>2. UNCHANGED <<current, load, astray>>
    BY <1>7 DEF Sweep, observers
  <2> SUFFICES ASSUME ~(total' <= MaxTotalSize),
                      NEW k \in Paths, NEW o \in Objects, o = current[k], HasContent(o)'
               PROVE  Renamed(o) \/ o \in astray
    BY <1>2, <2>2 DEF SweepFrees, Cached, Renamed
  <2>3. o \in Cached /\ record[o].path \in Paths
    BY NamesAssumption DEF Cached, TypeInv, TypeOK, RecordState
  <2>4. o \notin S
    BY <2>1 DEF HasContent
  <2>5. current[record[o].path] = NoObject
    BY <2>1, <2>3, <2>4
  <2>6. record[o].path # k
    BY <2>5, NamesAssumption
  <2>7. CASE o \notin astray
    <3>1. PICK e \in Edits : Following(<<e, o>>)
      BY <2>6, <2>7 DEF KeyInv, PlacedInv, Placed
    <3>. QED BY <3>1 DEF Following, Renamed
  <2>. QED BY <2>7
<1>8. CASE /\ \A u \in Objects : record'[u].size = record[u].size
           /\ UNCHANGED <<total, sweeping>>
  BY <1>3, <1>8, ObjectsAssumption
<1>. QED BY <1>5, <1>6, <1>7, <1>8, SizesStay

(* Once the free_memory task has run, the total is within the limit, or    *)
(* no record kept in memory has a size left in the map but what a rename   *)
(* took from under its key, whichever records the task chose.              *)
THEOREM FilesSweepFrees == Spec => []SweepFrees
<1>1. Init => SweepFrees
  BY SizesAssumption DEF Init, SweepFrees
<1>2. SweepFrees /\ UNCHANGED vars => SweepFrees'
  BY DEF vars, SweepFrees, Cached, HasContent, Renamed
<1>3. TypeInv /\ KeyInv /\ SweepFrees /\ [Next]_vars => SweepFrees'
  BY <1>2, SweepStep
<1>. QED BY <1>1, <1>3, Keyed, PTL DEF Spec

-----------------------------------------------------------------------------
(* What a step does to one record *)

(* A record keeps its set and its watcher; it becomes ready, and gets an   *)
(* expireAt only with a job.                                               *)
RecordKept(u) ==
  /\ record'[u].by = record[u].by
  /\ record'[u].st = record[u].st \/ (u \in Created /\ record'[u].st = "ready")
  /\ record'[u].watch = record[u].watch
  /\ record'[u].timed = record[u].timed \/ (TTL(u) # "none" /\ ~record[u].timed => u \in jobs')

(* The set c creates the record object new. *)
Makes(c, new) ==
  /\ new \in Objects \ Created
  /\ file[PathOf[c]] # Missing /\ current[PathOf[c]] = NoObject
  /\ record'[new] = [st |-> "new", by |-> c, path |-> PathOf[c], size |-> 0,
                     timed |-> FALSE, watch |-> Missing]
  /\ \A u \in Objects \ {new} : record'[u] = record[u]
  /\ current'[PathOf[c]] = new
  /\ \A k \in Paths \ {PathOf[c]} : current'[k] = current[k]
  /\ load'[c].pc = "check" /\ load'[c].rec = new
  /\ \A y \in Loaders \ {c} : load'[y] = load[y]
  /\ UNCHANGED <<file, stored, jobs, removal, clear, raced, astray>>

LEMMA AllKept == UNCHANGED record => \A u \in Objects : RecordKept(u)
BY DEF RecordKept

LEMMA OneKept ==
  ASSUME NEW o \in Objects, RecordKept(o), \A u \in Objects \ {o} : record'[u] = record[u]
  PROVE  \A u \in Objects : RecordKept(u)
BY DEF RecordKept

LEMMA SetEffect ==
  ASSUME TypeInv, NEW c \in Sets, Set(c)
  PROVE  \/ /\ \A u \in Objects : RecordKept(u)
            /\ load[c].pc = "idle" /\ load'[c].pc \in {"done", "failed"}
            /\ load'[c].rec = load[c].rec
            /\ \A y \in Loaders \ {c} : load'[y] = load[y]
            /\ jobs \subseteq jobs'
            /\ UNCHANGED <<file, current, stored, removal, clear, raced, astray>>
         \/ \E new \in Objects \ Created : Makes(c, new)
<1> DEFINE p == PathOf[c]
           fresh == {o \in Objects : record[o].st = "none"}
           new == CHOOSE o \in fresh : TRUE
<1>0. c \in Loaders /\ p \in Paths /\ load[c].pc = "idle"
      /\ UNCHANGED <<file, stored, removal, clear, raced, astray>>
  BY CallsAssumption DEF Loaders, Set, observers
<1>1. CASE /\ file[p] = Missing
           /\ To(c, "failed")
           /\ UNCHANGED <<current, record, jobs, listening>>
  BY <1>0, <1>1, AllKept, ToEffect DEF TypeInv
<1>2. CASE /\ file[p] # Missing /\ current[p] # NoObject
           /\ RefreshTTL(current[p], TRUE)
           /\ To(c, "done")
           /\ UNCHANGED <<current, listening>>
  <2>1. current[p] \in Objects
    BY <1>0, <1>2 DEF TypeInv, TypeOK
  <2>2. \A o \in Objects : o = current[p] => RecordKept(o) /\ jobs \subseteq jobs'
          /\ \A u \in Objects \ {o} : record'[u] = record[u]
    BY <1>2, RefreshTTLEffect DEF TypeInv, RecordKept
  <2>3. \A u \in Objects : RecordKept(u)
    BY <2>1, <2>2, OneKept
  <2>. QED BY <1>0, <1>2, <2>1, <2>2, <2>3, ToEffect DEF TypeInv
<1>3. CASE /\ file[p] # Missing /\ current[p] = NoObject /\ fresh # {}
           /\ record' = [record EXCEPT ![new] =
                [st |-> "new", by |-> c, path |-> p, size |-> 0,
                 timed |-> FALSE, watch |-> Missing]]
           /\ current' = [current EXCEPT ![p] = new]
           /\ listening' = listening \cup {new}
           /\ load' = [load EXCEPT ![c].pc = "check", ![c].rec = new]
           /\ UNCHANGED jobs
  <2>1. new \in Objects /\ new \notin Created
    BY <1>3 DEF Created
  <2> HIDE DEF new
  <2>2. load'[c] = [pc |-> "check", kind |-> load[c].kind, rec |-> new, path |-> load[c].path,
                    content |-> load[c].content, hit |-> load[c].hit]
    BY <1>0, <1>3 DEF TypeInv, TypeOK, LoadState
  <2>3. \A y \in Loaders \ {c} : load'[y] = load[y]
    BY <1>0, <1>3 DEF TypeInv, TypeOK
  <2>4. /\ record'[new] = [st |-> "new", by |-> c, path |-> p, size |-> 0,
                           timed |-> FALSE, watch |-> Missing]
        /\ \A u \in Objects \ {new} : record'[u] = record[u]
    BY <1>3, <2>1 DEF TypeInv, TypeOK
  <2>5. current'[p] = new /\ \A k \in Paths \ {p} : current'[k] = current[k]
    BY <1>0, <1>3 DEF TypeInv, TypeOK
  <2>6. Makes(c, new)
    <3>1. file[p] # Missing /\ current[p] = NoObject /\ UNCHANGED jobs
      BY <1>3
    <3>2. load'[c].pc = "check" /\ load'[c].rec = new
      BY <2>2
    <3>. QED BY <1>0, <2>1, <2>3, <2>4, <2>5, <3>1, <3>2 DEF Makes
  <2>7. \E made \in Objects \ Created : Makes(c, made)
    BY <2>1, <2>6, Zenon
  <2>. QED BY <2>7
<1>. QED BY <1>1, <1>2, <1>3 DEF Set

(* How a step may change records, watchers and expireAt. *)
LEMMA RecordSteps ==
  ASSUME TypeInv, Next
  PROVE  \/ \A u \in Objects : RecordKept(u)
         \/ \E c \in Sets : \E new \in Objects \ Created : Makes(c, new)
         \/ \E c \in Sets : InitStep(c)
         \/ \E e \in Edits, p \in Paths, q \in Paths : Rename(e, p, q)
<1> DEFINE Kept == \A u \in Objects : RecordKept(u)
<1>1. ASSUME NEW c \in Reads, NEW p \in Paths, Read(c, p) PROVE Kept
  <2> DEFINE o == current[p]
  <2>1. /\ o \in Objects
        /\ \A u \in Objects \ {o} : record'[u] = record[u]
        /\ record'[o].st = record[o].st /\ record'[o].by = record[o].by
        /\ record'[o].watch = record[o].watch
        /\ record'[o].timed = record[o].timed \/ (TTL(o) # "none" /\ ~record[o].timed => o \in jobs')
    BY <1>1, ReadEffect
  <2> HIDE DEF o
  <2>. QED BY <2>1, OneKept DEF RecordKept
<1>2. ASSUME NEW x \in Loaders, Fail(x), load[x].pc \in Active PROVE Kept
  <2> DEFINE o == load[x].rec
  <2>1. /\ o \in Objects
        /\ \A u \in Objects \ {o} : record'[u] = record[u]
        /\ record'[o].st = "ready" /\ record'[o].by = record[o].by
        /\ record'[o].watch = record[o].watch /\ record'[o].timed = record[o].timed
    BY <1>2, FailEffect
  <2>2. o \in Created
    BY <1>2, RecIsCreated
  <2> HIDE DEF o
  <2>. QED BY <2>1, <2>2, OneKept DEF RecordKept
<1>3. ASSUME NEW x \in Loaders, StatAnswers(x) PROVE Kept
  <2>1. load[x].pc \in Active /\ (Fail(x) \/ UNCHANGED record)
    BY <1>3 DEF StatAnswers, Active
  <2>. QED BY <1>2, <2>1, AllKept
<1>4. ASSUME NEW x \in Loaders, FileRead(x) PROVE Kept
  <2>1. load[x].pc = "reading"
    BY <1>4 DEF FileRead
  <2>2. CASE Fail(x)
    BY <1>2, <2>1, <2>2 DEF Active
  <2>3. CASE ~Fail(x)
    <3> DEFINE o == load[x].rec
    <3>1. /\ o \in Objects
          /\ \A u \in Objects \ {o} : record'[u] = record[u]
          /\ record'[o].st = record[o].st /\ record'[o].by = record[o].by
          /\ record'[o].watch = record[o].watch
          /\ TTL(o) # "none" /\ ~record[o].timed => o \in jobs'
      BY <1>4, <2>1, <2>3, FileReadEffect
    <3> HIDE DEF o
    <3>. QED BY <3>1, OneKept DEF RecordKept
  <2>. QED BY <2>2, <2>3
<1>5. ASSUME NEW x \in Loaders, Written(x) PROVE Kept
  <2> DEFINE o == load[x].rec
  <2>1. /\ o \in Objects
        /\ \A u \in Objects \ {o} : record'[u] = record[u]
        /\ record'[o].st \in {"ready", record[o].st} /\ record'[o].by = record[o].by
        /\ record'[o].watch = record[o].watch /\ record'[o].timed = record[o].timed
    BY <1>5, WrittenEffect
  <2>2. o \in Created
    BY <1>5, RecIsCreated DEF Written, Active
  <2> HIDE DEF o
  <2>. QED BY <2>1, <2>2, OneKept DEF RecordKept
<1>6. ASSUME NEW x \in Notices, NoticeStep(x) PROVE Kept
  <2>1. CASE UNCHANGED record
    BY <2>1, AllKept
  <2>2. CASE MoveRecord(x)
    <3> DEFINE o == load[x].rec
    <3>1. /\ o \in Objects
          /\ \A u \in Objects \ {o} : record'[u] = record[u]
          /\ record'[o].st = record[o].st /\ record'[o].by = record[o].by
          /\ record'[o].watch = record[o].watch /\ record'[o].timed = record[o].timed
      BY <2>2, MoveRecordEffect
    <3> HIDE DEF o
    <3>. QED BY <3>1, OneKept DEF RecordKept
  <2>. QED BY <1>6, <2>1, <2>2 DEF NoticeStep, OnUpdate, OnRemove, OnRename, MoveEntry, allButLoad
<1>7. ASSUME NEW o \in Objects, Expire(o) PROVE Kept
  <2>1. \A u \in Objects :
          /\ record'[u].st = record[u].st /\ record'[u].by = record[u].by
          /\ record'[u].timed = record[u].timed /\ record'[u].watch = record[u].watch
    BY <1>7, ExpireEffect
  <2>. QED BY <2>1 DEF RecordKept
<1>8. ASSUME Sweep PROVE Kept
  <2>1. \A u \in Objects :
          /\ record'[u].st = record[u].st /\ record'[u].by = record[u].by
          /\ record'[u].timed = record[u].timed /\ record'[u].watch = record[u].watch
    BY <1>8, SweepEffect
  <2>. QED BY <2>1 DEF RecordKept
<1>9. ASSUME UNCHANGED record PROVE Kept
  BY <1>9, AllKept
<1> HIDE DEF Kept
<1>10. ASSUME NEW x \in Loaders, LoadStep(x) PROVE Kept
  <2>1. QuotaEmitted(x) => UNCHANGED record
    BY DEF QuotaEmitted, allButLoad
  <2>. QED BY <1>3, <1>4, <1>5, <1>9, <1>10, <2>1 DEF LoadStep
<1>11. ASSUME Client
       PROVE  Kept \/ \E c \in Sets : \E new \in Objects \ Created : Makes(c, new)
  <2>1. ASSUME NEW c \in Sets, Set(c)
        PROVE  Kept \/ \E new \in Objects \ Created : Makes(c, new)
    BY <2>1, SetEffect DEF Kept
  <2>2. CASE (\E x \in Removes, p \in Paths : Remove(x, p)) \/ ClearStart
    <3>1. UNCHANGED record
      BY <2>2 DEF Remove, ClearStart, allButClear
    <3>. QED BY <1>9, <3>1
  <2>. QED BY <1>1, <1>11, <2>1, <2>2 DEF Client
<1>12. ASSUME Disk
       PROVE  Kept \/ \E e \in Edits, p \in Paths, q \in Paths : Rename(e, p, q)
  <2>1. ASSUME NEW e \in Edits, NEW p \in Paths, Update(e, p) \/ Delete(e, p) PROVE UNCHANGED record
    BY <2>1 DEF Update, Delete
  <2>. QED BY <1>9, <1>12, <2>1 DEF Disk
<1>13. \/ Kept \/ (\E c \in Sets : \E new \in Objects \ Created : Makes(c, new))
       \/ \E c \in Sets : InitStep(c)
       \/ \E e \in Edits, p \in Paths, q \in Paths : Rename(e, p, q)
  <2>1. CASE (\E c \in Reads : Fetched(c)) \/ (\E k \in Paths : Erased(k))
             \/ (\E x \in Removers : Drop(x)) \/ ClearStep
    <3>1. UNCHANGED record
      BY <2>1 DEF Fetched, allButLoad, Erased, Drop, ClearStep, ClearNext, ClearEnd, allButClear
    <3>. QED BY <1>9, <3>1
  <2>2. CASE \E x \in Loaders : LoadStep(x)
    BY <1>10, <2>2
  <2>3. CASE \E x \in Notices : NoticeStep(x)
    BY <1>6, <2>3
  <2>4. CASE \E o \in Objects : Expire(o)
    BY <1>7, <2>4
  <2>5. \/ Client \/ Disk \/ Sweep
        \/ (\E c \in Reads : Fetched(c)) \/ (\E k \in Paths : Erased(k))
             \/ (\E x \in Removers : Drop(x)) \/ ClearStep
        \/ \E c \in Sets : InitStep(c)
        \/ \E x \in Loaders : LoadStep(x)
        \/ \E x \in Notices : NoticeStep(x)
        \/ \E o \in Objects : Expire(o)
    BY DEF Next
  <2>. QED BY <1>8, <1>11, <1>12, <2>1, <2>2, <2>3, <2>4, <2>5, Zenon
<1>. QED BY <1>13 DEF Kept

LEMMA RacedStays == Next => raced \subseteq raced'
<1> SUFFICES ASSUME Next PROVE raced \subseteq raced'
  OBVIOUS
<1>1. CASE Client
  BY <1>1 DEF Client, Set, Read, Remove, ClearStart, allButClear, observers
<1>2. CASE Disk
  BY <1>2 DEF Disk, Update, Delete, Rename, Tell
<1>3. CASE (\E c \in Sets : InitStep(c)) \/ (\E c \in Reads : Fetched(c))
           \/ \E x \in Loaders : LoadStep(x)
  BY <1>3
     DEF InitStep, Check, Initialise, InitFails, Fetched, LoadStep, StatAnswers,
         QuotaEmitted, FileRead, Written,
              allButLoad, observers
<1>4. CASE \E x \in Notices : NoticeStep(x)
  BY <1>4
     DEF NoticeStep, OnUpdate, OnRemove, OnRename, MoveEntry, MoveRecord, allButLoad,
         observers
<1>5. CASE (\E o \in Objects : Expire(o)) \/ (\E k \in Paths : Erased(k))
           \/ (\E x \in Removers : Drop(x)) \/ Sweep \/ ClearStep
  BY <1>5 DEF Expire, Erased, Drop, Sweep, ClearStep, ClearNext, ClearEnd, allButClear, observers
<1>. QED BY <1>1, <1>2, <1>3, <1>4, <1>5 DEF Next

LEMMA UndisturbedStays ==
  ASSUME TypeInv, KeyInv, Next, NEW o \in Objects, Undisturbed(o)'
  PROVE  Undisturbed(o)
BY RacedStays, RenamedStays DEF Undisturbed

(* A record that nothing disturbs keeps its set, hence its policy, and its *)
(* key.                                                                    *)
LEMMA RecordGoesOn ==
  ASSUME TypeInv, KeyInv, Next, NEW o \in Created
  PROVE  /\ o \in Created' /\ record'[o].by = record[o].by
         /\ Undisturbed(o)' => record'[o].path = record[o].path
<1>0. o \in Objects /\ record[o].st # "none"
  BY DEF Created
<1>1. record'[o].by = record[o].by /\ record'[o].st # "none"
  <2>1. CASE \A u \in Objects : RecordKept(u)
    BY <1>0, <2>1 DEF RecordKept
  <2>2. ASSUME NEW c \in Sets, NEW new \in Objects \ Created, Makes(c, new)
        PROVE  record'[o].by = record[o].by /\ record'[o].st # "none"
    BY <1>0, <2>2 DEF Makes
  <2>3. ASSUME NEW c \in Sets, InitStep(c)
        PROVE  record'[o].by = record[o].by /\ record'[o].st # "none"
    <3> DEFINE u == load[c].rec
    <3>1. /\ \A w \in Objects \ {u} : record'[w] = record[w]
          /\ record'[u].st \in {"new", "ready"} /\ record'[u].by = record[u].by
      BY <2>3, InitStepEffect
    <3>. QED BY <1>0, <3>1
  <2>4. ASSUME NEW e \in Edits, NEW p \in Paths, NEW q \in Paths, Rename(e, p, q)
        PROVE  record'[o].by = record[o].by /\ record'[o].st # "none"
    BY <1>0, <2>4, RenameEffect
  <2>. QED BY <2>1, <2>2, <2>3, <2>4, RecordSteps
<1>2. ASSUME Undisturbed(o)' PROVE record'[o].path = record[o].path
  <2>1. CASE Quiet
    BY <2>1 DEF Quiet
  <2>2. ASSUME NEW e \in Edits, NEW p \in Paths, NEW q \in Paths, Rename(e, p, q)
        PROVE  record'[o].path = record[o].path
    BY <1>0, <2>2, RenameEffect
  <2>3. ASSUME NEW x \in Notices, OnRename(x) \/ MoveEntry(x)
        PROVE  record'[o].path = record[o].path
    BY <2>3 DEF OnRename, MoveEntry
  <2>4. ASSUME NEW x \in Notices, MoveRecord(x)
        PROVE  record'[o].path = record[o].path
    <3> DEFINE u == load[x].rec
    <3>1. \A w \in Objects \ {u} : record'[w] = record[w]
      BY <2>4, MoveRecordEffect
    <3>2. load[x].pc = "renaming" /\ load[x].kind = "rename" /\ u = x[2] /\ x[1] \in Edits
          /\ x = <<x[1], x[2]>>
      BY <2>4 DEF MoveRecord, KeyInv, KindInv, Loaders, TypeInv, LoadInv, Notices
    <3>3. u = o => Renamed(o)
      BY <3>2 DEF Renamed
    <3>. QED BY <1>0, <1>2, <3>1, <3>3, UndisturbedStays DEF Undisturbed
  <2>. QED BY <2>1, <2>2, <2>3, <2>4, StepKinds DEF KeyInv
<1>. QED BY <1>0, <1>1, <1>2 DEF Created

(* Its entry was where it is. *)
LEMMA EntryStays ==
  ASSUME TypeInv, KeyInv, Next, NEW k \in Paths, NEW o \in Created,
         current'[k] = o, Undisturbed(o)'
  PROVE  current[k] = o
<1>0. o \in Objects /\ o # NoObject
  BY NamesAssumption DEF Created
<1>1. CASE Quiet
  BY <1>0, <1>1 DEF Quiet
<1>2. ASSUME NEW e \in Edits, NEW p \in Paths, NEW q \in Paths, Rename(e, p, q)
      PROVE  current[k] = o
  BY <1>2 DEF Rename, Tell
<1>3. ASSUME NEW x \in Notices, OnRename(x) \/ MoveRecord(x)
      PROVE  current[k] = o
  BY <1>3 DEF OnRename, MoveRecord
<1>4. ASSUME NEW x \in Notices, MoveEntry(x)
      PROVE  current[k] = o
  <2>1. CASE Moved(x) = o
    <3>1. /\ load[x].pc = "moving" /\ load[x].kind = "rename" /\ load[x].rec = x[2]
          /\ x[1] \in Edits /\ x = <<x[1], x[2]>>
      <4>1. load[x].pc = "moving" /\ x \in Loaders
        BY <1>4 DEF MoveEntry, Loaders
      <4>2. load[x].kind = "rename" /\ load[x].rec = x[2]
        BY <4>1 DEF KeyInv, KindInv, TypeInv, LoadInv
      <4>3. x[1] \in Edits /\ x = <<x[1], x[2]>>
        BY DEF Notices
      <4>. QED BY <4>1, <4>2, <4>3
    <3>2. o = load[x].rec \/ Following(<<x[1], o>>) \/ o \in astray'
      BY <1>0, <1>4, <2>1, MoveEntryEffect
    <3>3. Renamed(o) \/ o \in astray'
      BY <3>1, <3>2 DEF Renamed, Following
    <3>. QED BY <1>0, <3>3, UndisturbedStays DEF Undisturbed
  <2>2. CASE Moved(x) # o
    BY <1>0, <1>4, <2>2, MoveEntryEffect
  <2>. QED BY <2>1, <2>2
<1>. QED BY <1>1, <1>2, <1>3, <1>4, StepKinds DEF KeyInv

LEMMA PlaceStays ==
  ASSUME TypeInv, KeyInv, Next, NEW k \in Paths, NEW o \in Created, InPlace(k, o)'
  PROVE  InPlace(k, o) /\ TTL(o)' = TTL(o) /\ IsSliding(o)' = IsSliding(o)
BY UndisturbedStays, RecordGoesOn, EntryStays DEF InPlace, TTL, IsSliding, Created

(* What has not been created has no content.                               *)
LEMMA ContentIsOfCreated ==
  ASSUME TypeInv, Next, NEW o \in Objects, HasContent(o)'
  PROVE  /\ o \in Created
         /\ HasContent(o) \/ \E x \in Loaders : Written(x) /\ load[x].rec = o
<1>0. \A u \in Objects : record[u].size \in Nat /\ (u \notin Created => ~(record[u].size > 0))
  BY DEF TypeInv, TypeOK, RecordState, LifeInv, Created
<1>1. CASE \A u \in Objects : record'[u].size = record[u].size
  BY <1>0, <1>1 DEF HasContent
<1>2. ASSUME NEW x \in Loaders, Written(x)
      PROVE  o \in Created /\ (HasContent(o) \/ load[x].rec = o)
  <2> DEFINE u == load[x].rec
  <2>1. \A w \in Objects \ {u} : record'[w] = record[w]
    BY <1>2, WrittenEffect
  <2>2. u \in Created
    BY <1>2, RecIsCreated DEF Written, Active
  <2>. QED BY <1>0, <2>1, <2>2 DEF HasContent
<1>3. ASSUME NEW u \in Objects, Expire(u)
      PROVE  o \in Created /\ HasContent(o)
  <2>1. /\ \A w \in Objects \ {u} : record'[w].size = record[w].size
        /\ record' = record \/ record'[u].size = 0
    BY <1>3, ExpireEffect
  <2>. QED BY <1>0, <2>1 DEF HasContent
<1>4. CASE Sweep
  <2>1. PICK S \in SUBSET {w \in Cached : current[record[w].path] # NoObject} :
              \A w \in Objects : record'[w].size = IF w \in S THEN 0 ELSE record[w].size
    BY <1>4, SweepEffect
  <2>. QED BY <1>0, <2>1 DEF HasContent
<1>. QED BY <1>1, <1>2, <1>3, <1>4, SizesStay

(* A content comes to count as cached only when it has been written.       *)
LEMMA CountsComes ==
  ASSUME TypeInv, KeyInv, Next, NEW k \in Paths, NEW o \in Objects, Counts(k, o)'
  PROVE  /\ o \in Created /\ InPlace(k, o) /\ TTL(o) # "keep"
         /\ Counts(k, o) \/ \E x \in Loaders : Written(x) /\ load[x].rec = o
<1>1. InPlace(k, o)' /\ HasContent(o)' /\ TTL(o)' # "keep"
  BY DEF Counts
<1>2. o \in Created /\ (HasContent(o) \/ \E x \in Loaders : Written(x) /\ load[x].rec = o)
  BY <1>1, ContentIsOfCreated
<1>. QED BY <1>1, <1>2, PlaceStays DEF Counts

(* Whose step it is that a load goes on in. *)
LEMMA OwnStep ==
  ASSUME TypeInv, KindInv, Next, NEW x \in Loaders
  PROVE  \/ load'[x] = load[x]
         \/ load[x].pc = "idle"
         \/ x \in Sets /\ InitStep(x)
         \/ x \in Reads /\ Fetched(x)
         \/ LoadStep(x)
         \/ x \in Notices /\ NoticeStep(x)
<1> DEFINE Still == load'[x] = load[x] \/ load[x].pc = "idle"
<1>1. ASSUME Client PROVE Still
  <2>1. ASSUME NEW c \in Sets, Set(c) PROVE Still
    <3>1. c \in Loaders /\ load[c].pc = "idle"
      BY <2>1 DEF Set, Loaders
    <3>2. \A y \in Loaders \ {c} : load'[y] = load[y]
      BY <2>1, SetEffect DEF Makes
    <3>. QED BY <3>1, <3>2
  <2>2. ASSUME NEW c \in Reads, NEW p \in Paths, Read(c, p) PROVE Still
    <3>1. load[c].pc = "idle"
      BY <2>2 DEF Read
    <3>2. \A y \in Loaders \ {c} : load'[y] = load[y]
      BY <2>2, ReadEffect
    <3>. QED BY <3>1, <3>2
  <2>3. ASSUME UNCHANGED load PROVE Still
    BY <2>3
  <2>. QED BY <1>1, <2>1, <2>2, <2>3 DEF Client, Remove, ClearStart, allButClear
<1>2. ASSUME Disk PROVE Still
  <2>1. ASSUME NEW e \in Edits, NEW p \in Paths, NEW kind \in EditKinds, NEW q \in Paths,
               Tell(e, p, kind, q), Unused(e)
        PROVE  Still
    <3>1. CASE x \in Notices
      <4>1. PICK f \in Edits, o \in Objects : x = <<f, o>>
        BY <3>1 DEF Notices
      <4>2. f = e => load[x].pc = "idle"
        BY <2>1, <4>1 DEF Unused
      <4>. QED BY <2>1, <4>1, <4>2, TellEffect
    <3>2. CASE x \notin Notices
      BY <2>1, <3>2, TellEffect
    <3>. QED BY <3>1, <3>2
  <2>. QED BY <1>2, <2>1 DEF Disk, Update, Delete, Rename
<1>3. ASSUME NEW c \in Sets, InitStep(c) PROVE Still \/ (x \in Sets /\ InitStep(x))
  <2>1. \A y \in Loaders \ {c} : load'[y] = load[y]
    BY <1>3, InitStepEffect
  <2>2. CASE x = c
    BY <1>3, <2>2, Zenon
  <2>3. CASE x # c
    BY <2>1, <2>3
  <2>. QED BY <2>2, <2>3
<1>4. ASSUME NEW c \in Reads, Fetched(c) PROVE Still \/ (x \in Reads /\ Fetched(x))
  <2>1. \A y \in Loaders \ {c} : load'[y] = load[y]
    BY <1>4, FetchedEffect
  <2>2. CASE x = c
    BY <1>4, <2>2, Zenon
  <2>3. CASE x # c
    BY <2>1, <2>3
  <2>. QED BY <2>2, <2>3
<1>5. ASSUME NEW y \in Loaders, LoadStep(y) PROVE Still \/ LoadStep(x)
  <2>1. y # x => load'[x] = load[x]
    BY <1>5 DEF LoadStep, StatAnswers, QuotaEmitted, FileRead, Written, Fail, To, TypeInv, TypeOK
  <2>. QED BY <1>5, <2>1
<1>6. ASSUME NEW y \in Notices, NoticeStep(y) PROVE Still \/ (x \in Notices /\ NoticeStep(x))
  <2>1. y # x => load'[x] = load[x]
    BY <1>6
       DEF NoticeStep, OnUpdate, OnRemove, OnRename, MoveEntry, MoveRecord, To, TypeInv,
           TypeOK
  <2>2. CASE x = y
    BY <1>6, <2>2, Zenon
  <2>3. CASE x # y
    BY <2>1, <2>3
  <2>. QED BY <2>2, <2>3
<1>7. ASSUME UNCHANGED load PROVE Still
  BY <1>7
<1> DEFINE Own == \/ Still
                  \/ x \in Sets /\ InitStep(x)
                  \/ x \in Reads /\ Fetched(x)
                  \/ LoadStep(x)
                  \/ x \in Notices /\ NoticeStep(x)
<1> HIDE DEF Still
<1>8. Own
  <2>1. CASE (\E o \in Objects : Expire(o)) \/ (\E k \in Paths : Erased(k))
             \/ (\E y \in Removers : Drop(y)) \/ Sweep \/ ClearStep
    <3>1. UNCHANGED load
      BY <2>1 DEF Expire, Erased, Drop, Sweep, ClearStep, ClearNext, ClearEnd, allButClear
    <3>. QED BY <1>7, <3>1
  <2>. QED BY <1>1, <1>2, <1>3, <1>4, <1>5, <1>6, <2>1 DEF Next
<1>. QED BY <1>8 DEF Own, Still

-----------------------------------------------------------------------------
(* Removals *)

(* A removal goes on: erased, it waits for its drop or is over.            *)
RemovalKept(x) ==
  \/ removal'[x] = removal[x]
  \/ ~InFlight(x) /\ ~InFlight(x)'
  \/ /\ removal[x].pc = "erasing" /\ removal[x].drop
     /\ removal'[x].pc = "erased" /\ removal'[x].drop /\ removal'[x].key = removal[x].key
  \/ removal[x].pc = "erasing" /\ ~removal[x].drop /\ removal'[x].pc = "done"

(* A removal begins: who asks for it waits for it, or is over.             *)
RemovalBegins(x) ==
  /\ ~InFlight(x) /\ removal'[x].pc = "erasing"
  /\ x \in Objects => x \in Created /\ (removal'[x].drop \/ TTL(x) = "keep")
  /\ x \in Loaders => load'[x].pc \in {"moving", "quota", "done"}
  /\ x = Clearer => clear'.on

LEMMA EmitBegins ==
  ASSUME TypeInv, NEW x \in Removers, NEW o \in Objects, NEW scheduled \in SUBSET Objects,
         Emit(x, o, scheduled), ~InFlight(x), x \notin Objects, x # Clearer,
         x \in Loaders => load'[x].pc \in {"moving", "quota", "done"}
  PROVE  \A y \in Removers : RemovalKept(y) \/ RemovalBegins(y)
<1>1. /\ \A y \in Removers \ {x} : removal'[y] = removal[y]
      /\ removal'[x].pc \in {"erasing", "done"}
  BY EmitEffect DEF TypeInv
<1>. QED BY <1>1 DEF RemovalKept, RemovalBegins, InFlight

LEMMA RemovalSteps ==
  ASSUME TypeInv, KeyInv, RemovalInv, Next, NEW x \in Removers
  PROVE  \/ RemovalKept(x)
         \/ Drop(x) /\ removal'[x].pc = "done"
         \/ RemovalBegins(x)
<1> DEFINE Kept == RemovalKept(x) \/ RemovalBegins(x)
<1>1. ASSUME UNCHANGED removal PROVE Kept
  BY <1>1 DEF RemovalKept
<1>2. ASSUME NEW y \in Removes, NEW p \in Paths, Remove(y, p) PROVE Kept
  <2>1. current[p] \in Objects
    BY <1>2 DEF Remove, TypeInv, TypeOK
  <2>2. Emit(y, current[p], jobs) /\ ~InFlight(y) /\ y \in Removers
    BY <1>2 DEF Remove, InFlight, Removers
  <2>3. y \notin Objects /\ y \notin Loaders /\ y # Clearer
    BY DistinctAssumption
  <2>4. jobs \in SUBSET Objects
    BY DEF TypeInv, TypeOK
  <2>. QED BY <2>1, <2>2, <2>3, <2>4, EmitBegins
<1>3. ASSUME ClearStart \/ ClearStep PROVE Kept
  <2>1. /\ Clearer \in Removers
        /\ \A y \in Removers \ {Clearer} : removal'[y] = removal[y]
        /\ removal'[Clearer].pc = "erasing" => clear.on /\ clear'.on
        /\ removal'[Clearer].pc \in {"erasing", "done"}
        /\ ~clear.on \/ removal[Clearer].pc = "done"
    BY <1>3, ClearEffect
  <2>2. ~InFlight(Clearer)
    BY <2>1 DEF RemovalInv, InFlight
  <2>3. Clearer \notin Objects /\ Clearer \notin Loaders
    BY DistinctAssumption
  <2>. QED BY <2>1, <2>2, <2>3 DEF RemovalKept, RemovalBegins, InFlight
<1>4. ASSUME NEW y \in Loaders, Emit(y, load[y].rec, jobs), To(y, "quota") \/ To(y, "done"),
             load[y].pc \in {"stat", "told"}
      PROVE  Kept
  <2>1. /\ load[y].rec \in Objects /\ jobs \in SUBSET Objects /\ ~InFlight(y)
        /\ y \in Removers
    BY <1>4 DEF TypeInv, TypeOK, LoadInv, Active, RemovalInv, Removers
  <2>2. load'[y].pc \in {"moving", "quota", "done"}
    BY <1>4, ToEffect DEF TypeInv
  <2>3. y \notin Objects /\ y # Clearer
    BY DistinctAssumption
  <2>. QED BY <1>4, <2>1, <2>2, <2>3, EmitBegins
<1>5. ASSUME NEW y \in Loaders, LoadStep(y) PROVE Kept
  <2>1. CASE StatAnswers(y)
    BY <1>1, <1>4, <2>1 DEF StatAnswers, Fail
  <2>2. CASE QuotaEmitted(y) \/ FileRead(y) \/ Written(y)
    BY <1>1, <2>2 DEF QuotaEmitted, FileRead, Written, Fail, allButLoad
  <2>. QED BY <1>5, <2>1, <2>2 DEF LoadStep
<1>6. ASSUME NEW y \in Notices, NoticeStep(y) PROVE Kept
  <2>1. CASE OnRemove(y)
    BY <1>4, <2>1 DEF OnRemove, Loaders
  <2>2. CASE OnRename(y)
    <3> DEFINE o == load[y].rec
    <3>1. /\ y \in Loaders /\ y \in Removers
          /\ \A z \in Removers \ {y} : removal'[z] = removal[z]
          /\ removal'[y].pc \in {"erasing", "done"}
      BY <2>2, OnRenameEffect
    <3>2. ~InFlight(y)
      BY <2>2, <3>1 DEF OnRename, RemovalInv
    <3>3. load'[y].pc = "moving"
      BY <2>2, <3>1, ToEffect DEF OnRename, TypeInv
    <3>4. y \notin Objects /\ y # Clearer
      BY <3>1, DistinctAssumption
    <3>. QED BY <3>1, <3>2, <3>3, <3>4 DEF RemovalKept, RemovalBegins, InFlight
  <2>3. CASE OnUpdate(y) \/ MoveEntry(y) \/ MoveRecord(y)
    BY <1>1, <2>3 DEF OnUpdate, MoveEntry, MoveRecord, allButLoad
  <2>. QED BY <1>6, <2>1, <2>2, <2>3 DEF NoticeStep
<1>7. ASSUME NEW o \in Objects, Expire(o) PROVE Kept
  <2>1. /\ o \in Removers
        /\ \A y \in Removers \ {o} : removal'[y] = removal[y]
        /\ \/ removal'[o].pc = "erasing" /\ removal'[o].drop
           \/ removal'[o].pc = "done"
           \/ removal'[o].pc = "erasing" /\ TTL(o) = "keep"
           \/ UNCHANGED removal
    BY <1>7, ExpireEffect DEF Emptied
  <2>2. ~InFlight(o) /\ o \in Created
    BY <1>7 DEF Expire, TypeInv, LifeInv
  <2>3. o \notin Loaders /\ o # Clearer
    BY DistinctAssumption
  <2>. QED BY <2>1, <2>2, <2>3 DEF RemovalKept, RemovalBegins, InFlight
<1>8. ASSUME NEW k \in Paths, Erased(k) PROVE Kept
  <2>1. IF removal[x].pc = "erasing" /\ removal[x].key = k
        THEN IF removal[x].drop
             THEN removal'[x].pc = "erased" /\ removal'[x].key = k /\ removal'[x].drop
             ELSE removal'[x].pc = "done"
        ELSE removal'[x] = removal[x]
    BY <1>8, ErasedEffect
  <2>. QED BY <2>1 DEF RemovalKept
<1>9. ASSUME NEW y \in Removers, Drop(y) PROVE Kept \/ (Drop(x) /\ removal'[x].pc = "done")
  <2>1. removal'[y].pc = "done" /\ \A z \in Removers \ {y} : removal'[z] = removal[z]
    BY <1>9, DropEffect
  <2>2. CASE x = y
    BY <1>9, <2>1, <2>2, Zenon
  <2>3. CASE x # y
    BY <2>1, <2>3 DEF RemovalKept
  <2>. QED BY <2>2, <2>3
<1>10. ASSUME Disk \/ Sweep \/ (\E c \in Sets : Set(c) \/ InitStep(c))
              \/ (\E c \in Reads : Fetched(c) \/ \E p \in Paths : Read(c, p))
       PROVE  Kept
  <2>1. UNCHANGED removal
    BY <1>10
       DEF Disk, Update, Delete, Rename, Tell, Sweep, Set, InitStep, Check, Initialise,
           InitFails, Fetched, Read, allButLoad
  <2>. QED BY <1>1, <2>1
<1> HIDE DEF Kept
<1>11. Kept \/ (Drop(x) /\ removal'[x].pc = "done")
  <2>1. CASE \E y \in Loaders : LoadStep(y)
    BY <1>5, <2>1
  <2>2. CASE \E y \in Notices : NoticeStep(y)
    BY <1>6, <2>2
  <2>3. CASE \E o \in Objects : Expire(o)
    BY <1>7, <2>3
  <2>4. CASE \E k \in Paths : Erased(k)
    BY <1>8, <2>4
  <2>5. CASE \E y \in Removers : Drop(y)
    BY <1>9, <2>5
  <2>6. CASE \E y \in Removes, p \in Paths : Remove(y, p)
    BY <1>2, <2>6
  <2>7. CASE Disk \/ Sweep \/ (\E c \in Sets : Set(c) \/ InitStep(c))
              \/ (\E c \in Reads : Fetched(c) \/ \E p \in Paths : Read(c, p))
    BY <1>10, <2>7
  <2>8. CASE ClearStart \/ ClearStep
    BY <1>3, <2>8
  <2>. QED BY <2>1, <2>2, <2>3, <2>4, <2>5, <2>6, <2>7, <2>8 DEF Next, Client
<1>. QED BY <1>11 DEF Kept

(* Who waits for a removal waits until it is over. *)
LEMMA WaitsFor ==
  ASSUME TypeInv, KeyInv, RemovalInv, Next, NEW x \in Loaders, InFlight(x)
  PROVE  load'[x].pc \in {"moving", "quota", "done"}
<1>1. load[x].pc \in {"moving", "quota", "done"} /\ removal[x].pc # "done"
  BY DEF RemovalInv, InFlight
<1>2. ~(x \in Sets /\ InitStep(x)) /\ ~(x \in Reads /\ Fetched(x))
  BY <1>1 DEF InitStep, Check, Initialise, InitFails, Fetched
<1>3. ~LoadStep(x)
  BY <1>1 DEF LoadStep, StatAnswers, QuotaEmitted, FileRead, Written
<1>4. ~NoticeStep(x)
  BY <1>1 DEF NoticeStep, OnUpdate, OnRemove, OnRename, MoveEntry, MoveRecord
<1>5. load'[x] = load[x]
  BY <1>1, <1>2, <1>3, <1>4, OwnStep DEF KeyInv
<1>. QED BY <1>1, <1>5

(* And clear() for the one it asked for. *)
LEMMA ClearWaits ==
  ASSUME TypeInv, RemovalInv, Next, InFlight(Clearer)
  PROVE  clear'.on
<1>1. clear.on /\ removal[Clearer].pc # "done"
  BY DEF RemovalInv, InFlight
<1>2. CASE ClearStart \/ ClearStep
  BY <1>1, <1>2, ClearEffect
<1>3. CASE Disk \/ Sweep \/ (\E c \in Sets : Set(c) \/ InitStep(c))
           \/ (\E c \in Reads : Fetched(c) \/ \E p \in Paths : Read(c, p))
           \/ (\E x \in Removes, p \in Paths : Remove(x, p))
  BY <1>1, <1>3
     DEF Disk, Update, Delete, Rename, Tell, Sweep, Set, InitStep, Check, Initialise,
         InitFails, Fetched, Read,
                    Remove, allButLoad
<1>4. CASE \E x \in Loaders : LoadStep(x)
  BY <1>1, <1>4 DEF LoadStep, StatAnswers, QuotaEmitted, FileRead, Written, allButLoad
<1>5. CASE \E x \in Notices : NoticeStep(x)
  BY <1>1, <1>5 DEF NoticeStep, OnUpdate, OnRemove, OnRename, MoveEntry, MoveRecord, allButLoad
<1>6. CASE (\E o \in Objects : Expire(o)) \/ (\E k \in Paths : Erased(k))
           \/ (\E x \in Removers : Drop(x))
  BY <1>1, <1>6 DEF Expire, Erased, Drop
<1>. QED BY <1>2, <1>3, <1>4, <1>5, <1>6 DEF Next, Client

LEMMA RemovalStep == TypeInv /\ KeyInv /\ RemovalInv /\ [Next]_vars => RemovalInv'
<1>1. TypeInv /\ RemovalInv /\ UNCHANGED vars => RemovalInv'
  BY DEF vars, RemovalInv, InFlight, Created, TTL
<1>2. ASSUME TypeInv, KeyInv, RemovalInv, Next PROVE RemovalInv'
  <2>0. \A x \in Removers : RemovalKept(x) \/ removal'[x].pc = "done" \/ RemovalBegins(x)
    BY <1>2, RemovalSteps
  <2>1. \A x \in Removers : removal'[x].pc = "erased" => removal'[x].drop
    BY <1>2, <2>0 DEF RemovalKept, RemovalBegins, RemovalInv, InFlight
  <2>2. ASSUME NEW o \in Objects, InFlight(o)'
        PROVE  o \in Created' /\ (removal'[o].drop \/ TTL(o)' = "keep")
    <3>1. o \in Removers
      BY DEF Removers
    <3>2. o \in Created /\ (removal'[o].drop \/ TTL(o) = "keep")
      BY <1>2, <2>0, <2>2, <3>1 DEF RemovalKept, RemovalBegins, RemovalInv, InFlight
    <3>3. o \in Created' /\ record'[o].by = record[o].by
      BY <1>2, <3>2, RecordGoesOn
    <3>. QED BY <3>2, <3>3 DEF TTL
  <2>3. ASSUME NEW x \in Loaders, InFlight(x)'
        PROVE  load'[x].pc \in {"moving", "quota", "done"}
    <3>1. x \in Removers
      BY DEF Removers
    <3>2. InFlight(x) \/ RemovalBegins(x)
      BY <2>0, <2>3, <3>1 DEF RemovalKept, InFlight
    <3>. QED BY <1>2, <3>2, WaitsFor DEF RemovalBegins
  <2>4. InFlight(Clearer)' => clear'.on
    <3>1. Clearer \in Removers
      BY DEF Removers
    <3>2. InFlight(Clearer)' => InFlight(Clearer) \/ RemovalBegins(Clearer)
      BY <2>0, <3>1 DEF RemovalKept, InFlight
    <3>. QED BY <1>2, <3>2, ClearWaits DEF RemovalBegins
  <2>. QED BY <2>1, <2>2, <2>3, <2>4 DEF RemovalInv
<1>. QED BY <1>1, <1>2

(* A removal that drops its key keeps on until it has. *)
LEMMA DroppingStays ==
  ASSUME TypeInv, KeyInv, RemovalInv, Next, NEW k \in Paths, current'[k] # NoObject
  PROVE  /\ Dropping(k) => Dropping(k)'
         /\ \A x \in Removers : removal[x].pc = "erased" /\ removal[x].key = k
              => removal'[x] = removal[x]
<1>1. ASSUME NEW x \in Removers, InFlight(x), removal[x].key = k PROVE ~Drop(x)
  <2>1. Drop(x) => current'[k] = NoObject
    BY <1>1, DropEffect
  <2>. QED BY <2>1
<1>2. \A x \in Removers : InFlight(x) /\ removal[x].key = k => RemovalKept(x)
  BY <1>1, RemovalSteps DEF RemovalBegins
<1>3. ASSUME NEW x \in Removers, InFlight(x), removal[x].drop, removal[x].key = k
      PROVE  InFlight(x)' /\ removal'[x].drop /\ removal'[x].key = k
  BY <1>2, <1>3 DEF RemovalKept, InFlight
<1>4. \A x \in Removers : removal[x].pc = "erased" /\ removal[x].key = k
              => removal'[x] = removal[x]
  BY <1>2 DEF RemovalKept, InFlight
<1>. QED BY <1>3, <1>4 DEF Dropping

-----------------------------------------------------------------------------
(* Files and loads *)

(* How a call starts. *)
LEMMA IdleStarts ==
  ASSUME TypeInv, Next, NEW x \in Loaders, load[x].pc = "idle"
  PROVE  \/ load'[x] = load[x]
         \/ /\ x \in Sets
            /\ \/ load'[x].pc \in {"done", "failed"}
               \/ load'[x].pc = "check" /\ \E new \in Objects \ Created : Makes(x, new)
         \/ x \in Reads /\ load'[x].pc \in {"fetch", "stat"}
         \/ /\ x \in Notices /\ load'[x].pc = "told"
            /\ \E p \in Paths, kind \in EditKinds, q \in Paths :
                 Tell(x[1], p, kind, q) /\ Unused(x[1]) /\ x[2] \in Watching(p)
<1> DEFINE Starts ==
             \/ load'[x] = load[x]
             \/ /\ x \in Sets
                /\ \/ load'[x].pc \in {"done", "failed"}
                   \/ load'[x].pc = "check" /\ \E new \in Objects \ Created : Makes(x, new)
             \/ x \in Reads /\ load'[x].pc \in {"fetch", "stat"}
             \/ /\ x \in Notices /\ load'[x].pc = "told"
                /\ \E p \in Paths, kind \in EditKinds, q \in Paths :
                     Tell(x[1], p, kind, q) /\ Unused(x[1]) /\ x[2] \in Watching(p)
<1>1. ASSUME NEW c \in Sets, Set(c) PROVE Starts
  <2>1. \/ load'[c].pc \in {"done", "failed"}
        \/ load'[c].pc = "check" /\ \E new \in Objects \ Created : Makes(c, new)
    BY <1>1, SetEffect DEF Makes
  <2>2. \A y \in Loaders \ {c} : load'[y] = load[y]
    BY <1>1, SetEffect DEF Makes
  <2>3. CASE x = c
    BY <2>1, <2>3, Zenon
  <2>4. CASE x # c
    BY <2>2, <2>4
  <2>. QED BY <2>3, <2>4
<1>2. ASSUME NEW c \in Reads, NEW p \in Paths, Read(c, p) PROVE Starts
  <2>1. load'[c].pc \in {"fetch", "stat"} /\ \A y \in Loaders \ {c} : load'[y] = load[y]
    BY <1>2, ReadEffect
  <2>. QED BY <2>1
<1>3. ASSUME NEW e \in Edits, NEW p \in Paths, NEW kind \in EditKinds, NEW q \in Paths,
             Tell(e, p, kind, q), Unused(e)
      PROVE  Starts
  <2>1. CASE x \in Notices
    <3>1. PICK f \in Edits, o \in Objects : x = <<f, o>>
      BY <2>1 DEF Notices
    <3>2. CASE f = e /\ o \in Watching(p)
      <4>1. load'[x].pc = "told" /\ x[1] = e /\ x[2] = o
        BY <1>3, <3>1, <3>2, TellEffect
      <4>. QED BY <1>3, <2>1, <3>2, <4>1
    <3>3. CASE ~(f = e /\ o \in Watching(p))
      BY <1>3, <3>1, <3>3, TellEffect
    <3>. QED BY <3>2, <3>3
  <2>2. CASE x \notin Notices
    BY <1>3, <2>2, TellEffect
  <2>. QED BY <2>1, <2>2
<1>4. ASSUME UNCHANGED load PROVE Starts
  BY <1>4
<1>5. ASSUME NEW c \in Sets, InitStep(c) PROVE Starts
  <2>1. load[c].pc # "idle" /\ \A y \in Loaders \ {c} : load'[y] = load[y]
    BY <1>5, InitStepEffect
  <2>. QED BY <2>1
<1>6. ASSUME NEW c \in Reads, Fetched(c) PROVE Starts
  <2>1. load[c].pc = "fetch" /\ \A y \in Loaders \ {c} : load'[y] = load[y]
    BY <1>6, FetchedEffect DEF Fetched
  <2>. QED BY <2>1
<1>7. ASSUME NEW y \in Loaders, LoadStep(y) PROVE Starts
  <2>1. load[y].pc # "idle"
    BY <1>7 DEF LoadStep, StatAnswers, QuotaEmitted, FileRead, Written
  <2>2. y # x => load'[x] = load[x]
    BY <1>7 DEF LoadStep, StatAnswers, QuotaEmitted, FileRead, Written, Fail, To, TypeInv, TypeOK
  <2>. QED BY <2>1, <2>2
<1>8. ASSUME NEW y \in Notices, NoticeStep(y) PROVE Starts
  <2>1. load[y].pc # "idle"
    BY <1>8 DEF NoticeStep, OnUpdate, OnRemove, OnRename, MoveEntry, MoveRecord
  <2>2. y # x => load'[x] = load[x]
    BY <1>8
       DEF NoticeStep, OnUpdate, OnRemove, OnRename, MoveEntry, MoveRecord, To, TypeInv,
           TypeOK
  <2>. QED BY <2>1, <2>2
<1> HIDE DEF Starts
<1>9. Starts
  <2>1. CASE (\E o \in Objects : Expire(o)) \/ (\E k \in Paths : Erased(k))
             \/ (\E y \in Removers : Drop(y)) \/ Sweep \/ ClearStep \/ ClearStart
             \/ \E y \in Removes, p \in Paths : Remove(y, p)
    <3>1. UNCHANGED load
      BY <2>1 DEF Expire, Erased, Drop, Sweep, ClearStep, ClearNext, ClearEnd, ClearStart,
                  Remove, allButClear
    <3>. QED BY <1>4, <3>1
  <2>2. CASE Disk
    BY <1>3, <2>2 DEF Disk, Update, Delete, Rename
  <2>. QED BY <1>1, <1>2, <1>5, <1>6, <1>7, <1>8, <2>1, <2>2 DEF Next, Client
<1>. QED BY <1>9 DEF Starts

(* How a load goes on. *)
LEMMA LoadStepGoes ==
  ASSUME TypeInv, NEW x \in Loaders, LoadStep(x)
  PROVE  /\ load[x].pc \in LoadPcs /\ load'[x].rec = load[x].rec
         /\ \/ Fail(x) /\ load'[x].pc = "failed" /\ load[x].pc \in {"stat", "reading"}
            \/ load[x].pc = "stat" /\ load'[x].pc \in {"quota", "reading"}
            \/ load[x].pc = "quota" /\ load'[x].pc = "reading"
            \/ load[x].pc = "reading" /\ load'[x].pc = "writing"
            \/ Written(x) /\ load'[x].pc \in {"fetch", "done"}
<1>1. ASSUME NEW pc \in {"failed", "quota", "reading"}, To(x, pc)
      PROVE  load'[x].rec = load[x].rec /\ load'[x].pc = pc
  BY <1>1, ToEffect DEF TypeInv
<1>2. CASE Fail(x) /\ load[x].pc \in {"stat", "reading"}
  BY <1>1, <1>2 DEF Fail, LoadPcs
<1>3. CASE StatAnswers(x)
  BY <1>1, <1>2, <1>3 DEF StatAnswers, LoadPcs
<1>4. CASE QuotaEmitted(x)
  BY <1>1, <1>4 DEF QuotaEmitted, LoadPcs
<1>5. CASE FileRead(x) /\ ~Fail(x)
  <2>1. load[x].pc = "reading"
    BY <1>5 DEF FileRead
  <2>2. load'[x].pc = "writing" /\ load'[x].rec = load[x].rec
    BY <1>5, <2>1, FileReadEffect
  <2>. QED BY <2>1, <2>2 DEF LoadPcs
<1>6. CASE Written(x)
  <2>1. load[x].pc = "writing"
    BY <1>6 DEF Written
  <2>2. load'[x].pc \in {"fetch", "done"} /\ load'[x].rec = load[x].rec
    BY <1>6, WrittenEffect
  <2>. QED BY <1>6, <2>1, <2>2 DEF LoadPcs
<1>. QED BY <1>2, <1>3, <1>4, <1>5, <1>6 DEF LoadStep, FileRead

(* Who is told of what. *)
LEMMA EditTells ==
  ASSUME TypeInv, KeyInv, Next, NEW o \in Created, Undisturbed(o)',
         NEW e \in Edits, NEW kind \in EditKinds, NEW q \in Paths,
         Tell(e, record[o].path, kind, q), Unused(e)
  PROVE  /\ ~Loading(record[o].path) /\ kind # "rename"
         /\ load[<<e, o>>].pc = "idle"
         /\ load'[<<e, o>>].pc = "told" /\ load'[<<e, o>>].kind = kind
<1> DEFINE p == record[o].path
<1>1. o \in Objects /\ p \in Paths
  BY DEF Created, TypeInv, TypeOK, RecordState
<1>2. o \notin raced'
  BY DEF Undisturbed
<1>3. ~Loading(p) /\ o \in Watching(p)
  BY <1>1, <1>2 DEF Tell
<1>4. load'[<<e, o>>].pc = "told" /\ load'[<<e, o>>].kind = kind
  BY <1>1, <1>3, TellEffect
<1>5. kind # "rename"
  BY <1>1, <1>4 DEF Undisturbed, Renamed
<1>. QED BY <1>1, <1>3, <1>4, <1>5 DEF Unused

(* A change of the file under a record that nothing disturbs is told, but  *)
(* for a file that moves to a path where there was none.                   *)
LEMMA FileChanges ==
  ASSUME TypeInv, KeyInv, Next, NEW o \in Created, Undisturbed(o)',
         file'[record[o].path] # file[record[o].path]
  PROVE  \/ /\ ~Loading(record[o].path)
            /\ UNCHANGED <<stored, current, removal>>
            /\ \E e \in Edits :
                 /\ load[<<e, o>>].pc = "idle" /\ load'[<<e, o>>].pc = "told"
                 /\ load'[<<e, o>>].kind \in {"update", "delete"}
                 /\ file'[record[o].path] = Missing => load'[<<e, o>>].kind = "delete"
         \/ /\ file[record[o].path] = Missing /\ file'[record[o].path] # Missing
            /\ \E e \in Edits, p \in Paths : Rename(e, p, record[o].path)
<1> DEFINE k == record[o].path
<1>0. o \in Objects /\ k \in Paths
  BY DEF Created, TypeInv, TypeOK, RecordState
<1>1. CASE Disk
  <2>1. ASSUME NEW e \in Edits, NEW p \in Paths, Update(e, p)
        PROVE  /\ ~Loading(k) /\ UNCHANGED <<stored, current, removal>>
               /\ load[<<e, o>>].pc = "idle" /\ load'[<<e, o>>].pc = "told"
               /\ load'[<<e, o>>].kind = "update" /\ file'[k] # Missing
    <3>1. p = k /\ file'[k] = e
      BY <1>0, <2>1 DEF Update, TypeInv, TypeOK
    <3>2. Tell(e, k, "update", k) /\ Unused(e) /\ "update" \in EditKinds
      BY <2>1, <3>1 DEF Update
    <3>3. e # Missing
      BY NamesAssumption DEF Contents
    <3>. QED BY <1>0, <3>1, <3>2, <3>3, EditTells DEF Tell
  <2>2. ASSUME NEW e \in Edits, NEW p \in Paths, Delete(e, p)
        PROVE  /\ ~Loading(k) /\ UNCHANGED <<stored, current, removal>>
               /\ load[<<e, o>>].pc = "idle" /\ load'[<<e, o>>].pc = "told"
               /\ load'[<<e, o>>].kind = "delete"
    <3>1. p = k
      BY <1>0, <2>2 DEF Delete, TypeInv, TypeOK
    <3>2. Tell(e, k, "delete", k) /\ Unused(e) /\ "delete" \in EditKinds
      BY <2>2, <3>1 DEF Delete
    <3>. QED BY <1>0, <3>2, EditTells DEF Tell
  <2>3. ASSUME NEW e \in Edits, NEW p \in Paths, NEW q \in Paths, Rename(e, p, q)
        PROVE  q = k /\ file[k] = Missing /\ file'[k] # Missing
    <3>1. p # k
      <4>1. p = k => Tell(e, k, "rename", q) /\ Unused(e) /\ "rename" \in EditKinds
        BY <2>3 DEF Rename
      <4>. QED BY <1>0, <4>1, EditTells
    <3>. QED BY <1>0, <2>3, <3>1, RenameEffect DEF Rename
  <2>4. \/ \E e \in Edits, p \in Paths : Update(e, p) \/ Delete(e, p)
        \/ \E e \in Edits, p \in Paths, q \in Paths : Rename(e, p, q)
    BY <1>1 DEF Disk
  <2>5. CASE \E e \in Edits, p \in Paths : Update(e, p)
    BY <2>1, <2>5
  <2>6. CASE \E e \in Edits, p \in Paths : Delete(e, p)
    BY <2>2, <2>6
  <2>7. CASE \E e \in Edits, p \in Paths, q \in Paths : Rename(e, p, q)
    <3>1. PICK e \in Edits, p \in Paths, q \in Paths : Rename(e, p, q)
      BY <2>7
    <3>2. q = k /\ file[k] = Missing /\ file'[k] # Missing
      BY <2>3, <3>1
    <3>3. \E f \in Edits, r \in Paths : Rename(f, r, k)
      BY <3>1, <3>2, Zenon
    <3>. QED BY <3>2, <3>3, Zenon
  <2>. QED BY <2>4, <2>5, <2>6, <2>7
<1>2. CASE Client
  BY <1>2 DEF Client, Set, Read, Remove, ClearStart, allButClear
<1>3. CASE (\E c \in Sets : InitStep(c)) \/ (\E c \in Reads : Fetched(c))
           \/ \E x \in Loaders : LoadStep(x)
  BY <1>3
     DEF InitStep, Check, Initialise, InitFails, Fetched, LoadStep, StatAnswers,
         QuotaEmitted, FileRead, Written,
              allButLoad
<1>4. CASE \E x \in Notices : NoticeStep(x)
  BY <1>4 DEF NoticeStep, OnUpdate, OnRemove, OnRename, MoveEntry, MoveRecord, allButLoad
<1>5. CASE (\E u \in Objects : Expire(u)) \/ (\E j \in Paths : Erased(j))
           \/ (\E x \in Removers : Drop(x)) \/ Sweep \/ ClearStep
  BY <1>5 DEF Expire, Erased, Drop, Sweep, ClearStep, ClearNext, ClearEnd, allButClear
<1>. QED BY <1>1, <1>2, <1>3, <1>4, <1>5 DEF Next

LEMMA WriterStep == TypeInv /\ KeyInv /\ WriterInv /\ [Next]_vars => WriterInv'
<1>1. WriterInv /\ UNCHANGED vars => WriterInv'
  BY DEF vars, WriterInv, Undisturbed, Renamed
<1>2. ASSUME TypeInv, KeyInv, WriterInv, Next, NEW x \in Loaders, load'[x].pc = "writing",
             NEW o, o = load'[x].rec, Undisturbed(o)'
      PROVE  load'[x].path = record'[o].path /\ load'[x].content = file'[record'[o].path]
  <2>1. CASE load'[x] = load[x]
    <3>1. o \in Created /\ o \in Objects
      BY <1>2, <2>1, RecIsCreated DEF Active, Created
    <3>2. Undisturbed(o) /\ record'[o].path = record[o].path
      BY <1>2, <3>1, UndisturbedStays, RecordGoesOn
    <3>3. load[x].path = record[o].path /\ load[x].content = file[record[o].path]
      BY <1>2, <2>1, <3>2 DEF WriterInv
    <3>4. Loading(record[o].path) /\ file[record[o].path] # Missing
      <4>1. load[x].content \in Contents
        BY <1>2, <2>1 DEF TypeInv, LoadInv
      <4>. QED BY <1>2, <2>1, <3>1, <3>3, <4>1, NamesAssumption DEF Loading
    <3>5. file'[record[o].path] = file[record[o].path]
      BY <1>2, <3>1, <3>4, FileChanges
    <3>. QED BY <2>1, <3>2, <3>3, <3>5
  <2>2. CASE LoadStep(x) /\ load'[x] # load[x]
    <3>1. FileRead(x) /\ ~Fail(x) /\ load[x].pc = "reading"
      <4>1. ASSUME NEW pc \in {"failed", "quota", "reading", "fetch", "done"}, To(x, pc)
            PROVE  FALSE
        BY <1>2, <4>1, ToEffect DEF TypeInv
      <4>2. ~Fail(x) /\ ~QuotaEmitted(x)
        BY <4>1 DEF Fail, QuotaEmitted
      <4>3. ~StatAnswers(x)
        BY <4>1, <4>2 DEF StatAnswers
      <4>4. ~Written(x)
        BY <4>1 DEF Written
      <4>. QED BY <2>2, <4>2, <4>3, <4>4 DEF LoadStep, FileRead
    <3>2. /\ load'[x].rec = load[x].rec
          /\ load'[x].path = record[load[x].rec].path
          /\ load'[x].content = file[record[load[x].rec].path]
          /\ record'[load[x].rec].path = record[load[x].rec].path
      BY <1>2, <3>1, FileReadEffect
    <3>3. UNCHANGED file
      BY <3>1 DEF FileRead
    <3>. QED BY <1>2, <3>2, <3>3
  <2>3. CASE load[x].pc = "idle" /\ load'[x] # load[x]
    BY <1>2, <2>3, IdleStarts
  <2>4. CASE x \in Sets /\ InitStep(x)
    BY <1>2, <2>4, InitStepEffect
  <2>5. CASE x \in Reads /\ Fetched(x)
    BY <1>2, <2>5, FetchedEffect
  <2>6. CASE x \in Notices /\ NoticeStep(x)
    <3>1. ASSUME NEW pc \in {"stat", "done", "moving", "renaming"}, To(x, pc)
          PROVE  FALSE
      BY <1>2, <3>1, ToEffect DEF TypeInv
    <3>. QED BY <2>6, <3>1 DEF NoticeStep, OnUpdate, OnRemove, OnRename, MoveEntry, MoveRecord
  <2>. QED BY <1>2, <2>1, <2>2, <2>3, <2>4, <2>5, <2>6, OwnStep DEF KeyInv
<1>. QED BY <1>1, <1>2 DEF WriterInv

-----------------------------------------------------------------------------
(* What is stored *)

LEMMA StoredChanges ==
  ASSUME TypeInv, Next, NEW k \in Paths, stored'[k] # stored[k]
  PROVE  \/ \E x \in Loaders : Written(x) /\ load[x].path = k
         \/ Erased(k)
<1>1. ASSUME NEW x \in Loaders, Written(x) PROVE load[x].path = k
  BY <1>1, WrittenEffect
<1>2. ASSUME NEW j \in Paths, Erased(j) PROVE Erased(k)
  <2>1. j = k
    BY <1>2, ErasedEffect
  <2>. QED BY <1>2, <2>1
<1>3. CASE \E x \in Loaders : LoadStep(x)
  BY <1>1, <1>3 DEF LoadStep, StatAnswers, QuotaEmitted, FileRead, allButLoad
<1>4. CASE \E x \in Notices : NoticeStep(x)
  BY <1>4 DEF NoticeStep, OnUpdate, OnRemove, OnRename, MoveEntry, MoveRecord, allButLoad
<1>5. CASE (\E o \in Objects : Expire(o)) \/ (\E x \in Removers : Drop(x)) \/ Sweep \/ ClearStep
  BY <1>5 DEF Expire, Drop, Sweep, ClearStep, ClearNext, ClearEnd, allButClear
<1>6. CASE Client \/ Disk \/ (\E c \in Sets : InitStep(c)) \/ (\E c \in Reads : Fetched(c))
  BY <1>6 DEF Client, Set, Read, Remove, ClearStart, Disk, Update, Delete, Rename, Tell,
              InitStep, Check, Initialise, InitFails, Fetched, allButClear, allButLoad
<1>7. CASE \E j \in Paths : Erased(j)
  BY <1>2, <1>7
<1>. QED BY <1>3, <1>4, <1>5, <1>6, <1>7 DEF Next

(* What is erased under an undisturbed record drops it too, but for the    *)
(* expiry of 'keep'.                                                       *)
LEMMA ErasedDrops ==
  ASSUME TypeInv, RemovalInv, NEW k \in Paths, Erased(k), NEW o \in Objects,
         current[k] = o, o \notin raced', TTL(o) # "keep"
  PROVE  \E x \in Removers : removal'[x].pc = "erased" /\ removal'[x].key = k /\ removal'[x].drop
<1>1. PICK x \in Removers : removal[x].pc = "erasing" /\ removal[x].key = k
  BY ErasedEffect
<1>2. removal[x].drop
  <2>1. ~removal[x].drop => x = o
    BY <1>1, ErasedEffect
  <2>2. x = o => removal[x].drop
    BY <1>1 DEF RemovalInv, InFlight
  <2>. QED BY <2>1, <2>2
<1>3. removal'[x].pc = "erased" /\ removal'[x].key = k /\ removal'[x].drop
  BY <1>1, <1>2, ErasedEffect
<1>. QED BY <1>3

LEMMA StoredStep ==
  TypeInv /\ KeyInv /\ RemovalInv /\ WriterInv /\ StoredInv /\ [Next]_vars => StoredInv'
<1>1. StoredInv /\ UNCHANGED vars => StoredInv'
  BY DEF vars, StoredInv, Counts, InPlace, HasContent, TTL, Undisturbed, Renamed
<1>2. ASSUME TypeInv, KeyInv, RemovalInv, WriterInv, StoredInv, Next,
             NEW k \in Paths, NEW o \in Objects, Counts(k, o)'
      PROVE  \/ stored'[k] # Missing
             \/ \E x \in Removers : removal'[x].pc = "erased" /\ removal'[x].key = k
  <2>1. /\ o \in Created /\ InPlace(k, o) /\ TTL(o) # "keep"
        /\ Counts(k, o) \/ \E x \in Loaders : Written(x) /\ load[x].rec = o
    BY <1>2, CountsComes
  <2>2. current'[k] = o /\ o \notin raced' /\ o # NoObject
    BY <1>2, NamesAssumption DEF Counts, InPlace, Undisturbed
  <2>3. CASE Erased(k)
    BY <1>2, <2>1, <2>2, <2>3, ErasedDrops DEF InPlace
  <2>4. ASSUME NEW x \in Loaders, Written(x), load[x].path = k
        PROVE  stored'[k] # Missing
    <3>1. stored'[load[x].path] = load[x].content /\ load[x].content \in Contents
      BY <1>2, <2>4, WrittenEffect
    <3>. QED BY <2>4, <3>1, NamesAssumption
  <2>5. CASE stored'[k] = stored[k] /\ Counts(k, o)
    <3>1. \/ stored[k] # Missing
          \/ \E x \in Removers : removal[x].pc = "erased" /\ removal[x].key = k
      BY <1>2, <2>5 DEF StoredInv
    <3>. QED BY <1>2, <2>2, <2>5, <3>1, DroppingStays
  <2>6. ASSUME NEW x \in Loaders, Written(x), load[x].rec = o
        PROVE  load[x].path = k
    BY <1>2, <2>1, <2>6 DEF WriterInv, InPlace, Written
  <2>. QED BY <1>2, <2>1, <2>3, <2>4, <2>5, <2>6, StoredChanges
<1>. QED BY <1>1, <1>2 DEF StoredInv

LEMMA ContentInit == Init => RemovalInv /\ WriterInv /\ StoredInv
<1> SUFFICES ASSUME Init PROVE RemovalInv /\ WriterInv /\ StoredInv
  OBVIOUS
<1>1. \A x \in Removers : removal[x].pc = "idle"
  BY RemovalTypes DEF Init
<1>2. Objects \subseteq Removers /\ Loaders \subseteq Removers /\ Clearer \in Removers
  BY DEF Removers
<1>3. RemovalInv
  BY <1>1, <1>2 DEF RemovalInv, InFlight
<1>4. WriterInv
  BY DEF Init, WriterInv
<1>5. StoredInv
  BY DEF Init, StoredInv, Counts, HasContent
<1>. QED BY <1>3, <1>4, <1>5

LEMMA StoredKept == Spec => [](TypeInv /\ KeyInv /\ RemovalInv /\ WriterInv /\ StoredInv)
<1>1. TypeInv /\ KeyInv /\ RemovalInv /\ WriterInv /\ StoredInv /\ [Next]_vars
      => RemovalInv' /\ WriterInv' /\ StoredInv'
  BY RemovalStep, WriterStep, StoredStep
<1>. QED BY <1>1, ContentInit, Keyed, PTL DEF Spec

(* A record that counts its content as cached has it in the engine when    *)
(* nothing is under way for its key: whichever loads, refreshes, removals, *)
(* expiries and clear() overlapped before, the one that erases a content   *)
(* is the one that drops the record.                                       *)
THEOREM FilesCachedIsStored == Spec => []CachedIsStored
<1>1. TypeInv /\ StoredInv => CachedIsStored
  <2> SUFFICES ASSUME TypeInv, StoredInv, NEW k \in Paths, NEW o, o = current[k],
                      o # NoObject, record[o].path = k, HasContent(o), TTL(o) # "keep",
                      ~Busy(o), Undisturbed(o)
               PROVE  stored[k] # Missing
    BY DEF CachedIsStored
  <2>1. Counts(k, o)
    BY DEF Counts, InPlace, TypeInv, TypeOK
  <2>2. ASSUME NEW x \in Removers, removal[x].pc = "erased", removal[x].key = k PROVE FALSE
    BY <2>2 DEF Busy, InFlight
  <2>. QED BY <2>1, <2>2 DEF StoredInv, Counts, InPlace
<1>. QED BY <1>1, StoredKept, PTL

-----------------------------------------------------------------------------
(* What is fresh *)

(* A record object comes into being by a set. *)
LEMMA NewIsMade ==
  ASSUME TypeInv, Next, NEW o \in Objects \ Created, record'[o].st # "none"
  PROVE  \E c \in Sets : Makes(c, o)
<1>0. record[o].st = "none"
  BY DEF Created
<1>1. ~\A u \in Objects : RecordKept(u)
  BY <1>0 DEF RecordKept
<1>2. ASSUME NEW c \in Sets, NEW new \in Objects \ Created, Makes(c, new)
      PROVE  Makes(c, o)
  <2>1. new = o
    BY <1>0, <1>2 DEF Makes
  <2>. QED BY <1>2, <2>1, Zenon
<1>3. ASSUME NEW c \in Sets, InitStep(c) PROVE FALSE
  <2>1. \A w \in Objects \ {load[c].rec} : record'[w] = record[w]
    BY <1>3, InitStepEffect
  <2>2. load[c].rec \in Created
    BY <1>3, RecIsCreated DEF InitStep, Check, Initialise, InitFails, Active, Loaders
  <2>. QED BY <1>0, <2>1, <2>2
<1>4. ASSUME NEW e \in Edits, NEW p \in Paths, NEW q \in Paths, Rename(e, p, q) PROVE FALSE
  BY <1>0, <1>4, RenameEffect
<1>5. \E c \in Sets : \E new \in Objects \ Created : Makes(c, new)
  BY <1>1, <1>3, <1>4, RecordSteps
<1>6. PICK c \in Sets, new \in Objects \ Created : Makes(c, new)
  BY <1>5
<1>. QED BY <1>2, <1>6, Zenon

(* An object not created yet is not told of anything. *)
LEMMA NewIsIdle ==
  ASSUME TypeInv, NEW o \in Objects \ Created, NEW x \in Notices, x[2] = o
  PROVE  load[x].pc = "idle"
<1>1. x \in Loaders
  BY DEF Loaders
<1>. QED BY <1>1, NamesAssumption DEF TypeInv, LoadInv, LifeInv

LEMMA NewStaysIdle ==
  ASSUME TypeInv, NEW c \in Sets, NEW o \in Objects \ Created, Makes(c, o)
  PROVE  \A e \in Edits : load'[<<e, o>>].pc = "idle"
<1> SUFFICES ASSUME NEW e \in Edits, NEW x, x = <<e, o>> PROVE load'[x].pc = "idle"
  OBVIOUS
<1>1. x \in Notices /\ x \in Loaders /\ x[2] = o
  BY DEF Notices, Loaders
<1>2. load[x].pc = "idle"
  BY <1>1, NewIsIdle
<1>3. x # c
  BY <1>1, DistinctAssumption
<1>. QED BY <1>1, <1>2, <1>3 DEF Makes

(* The file of a record just created is there. *)
LEMMA NewHasFile ==
  ASSUME TypeInv, Next, NEW k \in Paths, NEW o \in Objects \ Created, current'[k] = o
  PROVE  file'[k] # Missing
<1>1. TypeInv'
  BY TypeStep
<1>2. record'[o].st # "none"
  BY <1>1, NamesAssumption DEF TypeInv, LifeInv, Created
<1>3. PICK c \in Sets : Makes(c, o)
  BY <1>2, NewIsMade
<1>4. current[k] # o
  BY NamesAssumption DEF TypeInv, LifeInv
<1>5. k = PathOf[c]
  BY <1>3, <1>4 DEF Makes
<1>6. UNCHANGED file /\ file[PathOf[c]] # Missing
  BY <1>3 DEF Makes
<1>. QED BY <1>5, <1>6

LEMMA NothingChanges ==
  UNCHANGED vars =>
    /\ \A k \in Paths, o \in Objects :
         /\ InPlace(k, o)' <=> InPlace(k, o)
         /\ Counts(k, o)' <=> Counts(k, o)
    /\ \A k \in Paths : Dropping(k)' <=> Dropping(k)
<1> SUFFICES ASSUME UNCHANGED vars
             PROVE  /\ \A k \in Paths, o \in Objects :
                         /\ InPlace(k, o)' <=> InPlace(k, o)
                         /\ Counts(k, o)' <=> Counts(k, o)
                    /\ \A k \in Paths : Dropping(k)' <=> Dropping(k)
  OBVIOUS
<1>1. \A k \in Paths, o \in Objects : InPlace(k, o)' <=> InPlace(k, o)
  BY DEF vars, InPlace, Undisturbed, Renamed
<1>2. \A k \in Paths, o \in Objects : Counts(k, o)' <=> Counts(k, o)
  BY <1>1 DEF vars, Counts, HasContent, TTL
<1>3. \A k \in Paths : Dropping(k)' <=> Dropping(k)
  BY DEF vars, Dropping, InFlight
<1>. QED BY <1>1, <1>2, <1>3

(* The removal of a file that is gone: the record is to be dropped.        *)
LEMMA OnRemoveDrops ==
  ASSUME TypeInv, NEW x \in Notices, OnRemove(x), NEW k \in Paths, NEW o \in Objects,
         load[x].rec = o, current[k] = o, record[o].path = k
  PROVE  Dropping(k)'
<1>1. Emit(x, o, jobs) /\ x \in Removers /\ jobs \in SUBSET Objects
  BY DEF OnRemove, Removers, Loaders, TypeInv, TypeOK
<1>2. current[k] # NoObject
  BY NamesAssumption
<1>3. removal'[x].pc = "erasing" /\ removal'[x].drop /\ removal'[x].key = k
  BY <1>1, <1>2, EmitEffect DEF TypeInv
<1>. QED BY <1>1, <1>3 DEF Dropping, InFlight

LEMMA GoneStep == TypeInv /\ KeyInv /\ RemovalInv /\ GoneInv /\ [Next]_vars => GoneInv'
<1>1. GoneInv /\ UNCHANGED vars => GoneInv'
  BY NothingChanges DEF vars, GoneInv
<1>2. ASSUME TypeInv, KeyInv, RemovalInv, GoneInv, Next,
             NEW k \in Paths, NEW o \in Objects, InPlace(k, o)', file'[k] = Missing
      PROVE  \/ Dropping(k)'
             \/ \E e \in Edits : load'[<<e, o>>].pc = "told" /\ load'[<<e, o>>].kind = "delete"
  <2>1. o \in Created
    BY <1>2, NewHasFile DEF InPlace
  <2>2. InPlace(k, o) /\ Undisturbed(o)' /\ current'[k] # NoObject
    BY <1>2, <2>1, PlaceStays, NamesAssumption DEF InPlace
  <2>3. CASE file'[k] # file[k]
    BY <1>2, <2>1, <2>2, <2>3, FileChanges DEF InPlace
  <2>4. CASE file'[k] = file[k] /\ Dropping(k)
    BY <1>2, <2>2, <2>4, DroppingStays
  <2>5. ASSUME NEW e \in Edits, load[<<e, o>>].pc = "told", load[<<e, o>>].kind = "delete"
        PROVE  \/ Dropping(k)'
               \/ load'[<<e, o>>].pc = "told" /\ load'[<<e, o>>].kind = "delete"
    <3> DEFINE x == <<e, o>>
    <3>1. x \in Notices /\ x \in Loaders /\ x[2] = o
      BY DEF Notices, Loaders
    <3>2. load[x].rec = o
      BY <2>5, <3>1, <1>2 DEF TypeInv, LoadInv
    <3> HIDE DEF x
    <3>3. load[x].pc = "told" /\ load[x].kind = "delete"
      BY <2>5 DEF x
    <3>4. ~LoadStep(x) /\ ~(x \in Sets /\ InitStep(x)) /\ ~(x \in Reads /\ Fetched(x))
      BY <3>3
         DEF LoadStep, StatAnswers, QuotaEmitted, FileRead, Written, InitStep, Check,
             Initialise, InitFails, Fetched
    <3>5. NoticeStep(x) => OnRemove(x)
      BY <3>3 DEF NoticeStep, OnUpdate, OnRename, MoveEntry, MoveRecord
    <3>6. OnRemove(x) => Dropping(k)'
      BY <1>2, <2>2, <3>1, <3>2, OnRemoveDrops DEF InPlace
    <3>7. load'[x] = load[x] \/ OnRemove(x)
      BY <1>2, <3>1, <3>3, <3>4, <3>5, OwnStep DEF KeyInv
    <3>8. Dropping(k)' \/ (load'[x].pc = "told" /\ load'[x].kind = "delete")
      BY <3>3, <3>6, <3>7
    <3>. QED BY <3>8 DEF x
  <2>. QED BY <1>2, <2>2, <2>3, <2>4, <2>5 DEF GoneInv
<1>. QED BY <1>1, <1>2 DEF GoneInv

(* Who is told watches. *)
LEMMA ToldWatches ==
  ASSUME TypeInv, Next, NEW e \in Edits, NEW o \in Objects,
         load[<<e, o>>].pc = "idle", load'[<<e, o>>].pc # "idle"
  PROVE  \E p \in Paths, kind \in EditKinds, q \in Paths :
           Tell(e, p, kind, q) /\ Unused(e) /\ o \in Watching(p)
<1> DEFINE x == <<e, o>>
<1>1. x \in Notices /\ x \in Loaders /\ x[1] = e /\ x[2] = o
  BY DEF Notices, Loaders
<1>2. x \notin Sets /\ x \notin Reads
  BY <1>1, DistinctAssumption
<1>3. load[x].pc = "idle" /\ load'[x].pc # "idle"
  OBVIOUS
<1> HIDE DEF x
<1>4. \E p \in Paths, kind \in EditKinds, q \in Paths :
        Tell(x[1], p, kind, q) /\ Unused(x[1]) /\ x[2] \in Watching(p)
  BY <1>1, <1>2, <1>3, IdleStarts
<1>. QED BY <1>1, <1>4

(* Nobody is told of a record that is not watched.                         *)
LEMMA StaysUntold ==
  ASSUME TypeInv, Next, NEW o \in Objects, record[o].watch = Missing,
         \A e \in Edits : load[<<e, o>>].pc = "idle"
  PROVE  \A e \in Edits : load'[<<e, o>>].pc = "idle"
<1> SUFFICES ASSUME NEW e \in Edits, load'[<<e, o>>].pc # "idle" PROVE FALSE
  OBVIOUS
<1>1. PICK p \in Paths : o \in Watching(p)
  BY ToldWatches
<1>. QED BY <1>1, NamesAssumption DEF Watching

(* Two sets initialise two records: each the one it made itself. *)
LEMMA StartsApart ==
  ASSUME StartInv, NEW c \in Sets, load[c].pc \in {"check", "init"},
         NEW d \in Sets, InitStep(d), d # c
  PROVE  load[d].rec # load[c].rec
<1>1. load[d].pc \in {"check", "init"}
  BY DEF InitStep, Check, Initialise
<1>2. record[load[c].rec].by = c
  BY DEF StartInv
<1>3. record[load[d].rec].by = d
  BY <1>1 DEF StartInv
<1>. QED BY <1>2, <1>3

LEMMA StartStep == TypeInv /\ KeyInv /\ StartInv /\ [Next]_vars => StartInv'
<1>1. StartInv /\ UNCHANGED vars => StartInv'
  BY DEF vars, StartInv
<1>2. ASSUME TypeInv, KeyInv, StartInv, Next, NEW c \in Sets,
             load'[c].pc \in {"check", "init"}, NEW o, o = load'[c].rec
      PROVE  /\ record'[o].by = c /\ record'[o].watch = Missing
             /\ \A e \in Edits : load'[<<e, o>>].pc = "idle"
  <2>0. c \in Loaders
    BY DEF Loaders
  <2>1. CASE load'[c] = load[c]
    <3>1. o \in Created /\ o \in Objects
      BY <1>2, <2>0, <2>1, RecIsCreated DEF Active, Created
    <3>2. /\ record[o].by = c /\ record[o].watch = Missing
          /\ \A e \in Edits : load[<<e, o>>].pc = "idle"
      BY <1>2, <2>1 DEF StartInv
    <3>3. \A e \in Edits : load'[<<e, o>>].pc = "idle"
      BY <1>2, <3>1, <3>2, StaysUntold
    <3>4. record'[o].by = c
      BY <1>2, <3>1, <3>2, RecordGoesOn
    <3>5. record'[o].watch = Missing
      <4>1. ASSUME NEW d \in Sets, NEW new \in Objects \ Created, Makes(d, new)
            PROVE  record'[o] = record[o]
        BY <3>1, <4>1 DEF Makes
      <4>2. ASSUME NEW d \in Sets, InitStep(d) PROVE record'[o] = record[o]
        <5>1. /\ \A w \in Objects \ {load[d].rec} : record'[w] = record[w]
              /\ load'[d].pc # load[d].pc
          BY <1>2, <4>2, InitStepEffect
        <5>2. load[d].rec # o
          <6>1. load[c].pc \in {"check", "init"} /\ o = load[c].rec
            BY <1>2, <2>1
          <6>2. d # c
            BY <2>1, <5>1
          <6>. QED BY <1>2, <4>2, <6>1, <6>2, StartsApart
        <5>. QED BY <3>1, <5>1, <5>2
      <4>3. ASSUME NEW e \in Edits, NEW p \in Paths, NEW q \in Paths, Rename(e, p, q)
            PROVE  record'[o].watch = record[o].watch
        <5>1. o \notin Watching(p)
          BY <3>2, NamesAssumption DEF Watching
        <5>. QED BY <1>2, <3>1, <4>3, <5>1, RenameEffect
      <4>4. (\A u \in Objects : RecordKept(u)) => record'[o].watch = record[o].watch
        BY <3>1 DEF RecordKept
      <4>. QED BY <1>2, <3>2, <4>1, <4>2, <4>3, <4>4, RecordSteps
    <3>. QED BY <3>3, <3>4, <3>5
  <2>2. CASE load'[c] # load[c] /\ ~InitStep(c)
    <3>1. c \notin Notices /\ c \notin Reads
      BY DistinctAssumption
    <3>3. ~LoadStep(c)
      BY <1>2, <2>0, LoadStepGoes
    <3>4. load[c].pc = "idle"
      BY <1>2, <2>0, <2>2, <3>1, <3>3, OwnStep DEF KeyInv
    <3>5. PICK new \in Objects \ Created : Makes(c, new)
      BY <1>2, <2>0, <2>2, <3>1, <3>4, IdleStarts
    <3>6. o = new /\ record'[o].by = c /\ record'[o].watch = Missing
      BY <1>2, <3>5 DEF Makes
    <3>7. \A e \in Edits : load'[<<e, o>>].pc = "idle"
      BY <1>2, <3>5, <3>6, NewStaysIdle
    <3>. QED BY <3>6, <3>7
  <2>3. CASE InitStep(c)
    <3>1. /\ load[c].pc = "check" /\ o = load[c].rec /\ UNCHANGED record
          /\ \A y \in Loaders \ {c} : load'[y] = load[y]
      BY <1>2, <2>3, InitStepEffect
    <3>2. /\ record[o].by = c /\ record[o].watch = Missing
          /\ \A e \in Edits : load[<<e, o>>].pc = "idle"
      BY <1>2, <3>1 DEF StartInv
    <3>3. o \in Objects /\ c \notin Notices
      BY <1>2, <2>3, <3>1, InitStepEffect, DistinctAssumption
    <3>4. \A e \in Edits : <<e, o>> \in Loaders \ {c}
      BY <3>3 DEF Notices, Loaders
    <3>. QED BY <3>1, <3>2, <3>4
  <2>. QED BY <2>1, <2>2, <2>3
<1>. QED BY <1>1, <1>2 DEF StartInv

(* A record that was told of nothing keeps its key. *)
LEMMA UntoldKeepsKey ==
  ASSUME TypeInv, KeyInv, Next, NEW o \in Created, \A e \in Edits : load[<<e, o>>].pc = "idle"
  PROVE  record'[o].path = record[o].path
<1>0. o \in Objects
  BY DEF Created
<1>1. CASE Quiet
  BY <1>1 DEF Quiet
<1>2. ASSUME NEW e \in Edits, NEW p \in Paths, NEW q \in Paths, Rename(e, p, q)
      PROVE  record'[o].path = record[o].path
  BY <1>0, <1>2, RenameEffect
<1>3. ASSUME NEW x \in Notices, OnRename(x) \/ MoveEntry(x)
      PROVE  record'[o].path = record[o].path
  BY <1>3 DEF OnRename, MoveEntry
<1>4. ASSUME NEW x \in Notices, MoveRecord(x)
      PROVE  record'[o].path = record[o].path
  <2>1. \A w \in Objects \ {load[x].rec} : record'[w] = record[w]
    BY <1>4, MoveRecordEffect
  <2>2. load[x].pc = "renaming" /\ load[x].rec = x[2] /\ x[1] \in Edits /\ x = <<x[1], x[2]>>
    BY <1>4 DEF MoveRecord, TypeInv, LoadInv, Notices
  <2>3. load[x].rec # o
    BY <2>2
  <2>. QED BY <1>0, <2>1, <2>3
<1>. QED BY <1>1, <1>2, <1>3, <1>4, StepKinds DEF KeyInv

(* A record loaded for the first time is ready when that load is over.     *)
LEMMA WarmGoesOn ==
  ASSUME TypeInv, KeyInv, Next, NEW c \in Sets, load[c].pc \in LoadPcs,
         NEW o, o = load[c].rec, record'[o].st = "new"
  PROVE  load'[c].rec = o /\ load'[c].pc \in LoadPcs
<1>1. c \in Loaders /\ c \notin Notices /\ c \notin Reads
  BY DistinctAssumption DEF Loaders
<1>2. load'[c] = load[c] \/ LoadStep(c)
  BY <1>1, OwnStep DEF KeyInv, LoadPcs, InitStep, Check, Initialise, InitFails
<1>3. ~Fail(c)
  <2>1. Fail(c) => record'[o].st = "ready"
    BY <1>1, FailEffect DEF LoadPcs, Active
  <2>. QED BY <2>1
<1>4. ~Written(c)
  <2>1. Written(c) => record'[o].st = "ready"
    BY <1>1, WrittenEffect
  <2>. QED BY <2>1
<1>. QED BY <1>1, <1>2, <1>3, <1>4, LoadStepGoes DEF LoadPcs

LEMMA ReadyStep ==
  TypeInv /\ KeyInv /\ StartInv /\ ReadyInv /\ [Next]_vars => ReadyInv'
<1>1. ReadyInv /\ UNCHANGED vars => ReadyInv'
  BY DEF vars, ReadyInv
<1>2. ASSUME TypeInv, KeyInv, StartInv, ReadyInv, Next,
             NEW o \in Objects, o \notin raced', record'[o].st = "new"
      PROVE  /\ \A e \in Edits : load'[<<e, o>>].pc = "idle"
             /\ record'[o].watch # Missing =>
                  /\ record'[o].watch = record'[o].path
                  /\ \E c \in Sets : load'[c].rec = o /\ load'[c].pc \in LoadPcs
  <2>0. o \notin raced
    BY <1>2, RacedStays
  <2>1. CASE o \notin Created
    <3>1. PICK c \in Sets : Makes(c, o)
      BY <1>2, <2>1, NewIsMade
    <3>2. \A e \in Edits : load'[<<e, o>>].pc = "idle"
      BY <1>2, <2>1, <3>1, NewStaysIdle
    <3>3. record'[o].watch = Missing
      BY <3>1 DEF Makes
    <3>. QED BY <3>2, <3>3
  <2>2. ASSUME o \in Created, NEW c \in Sets, InitStep(c), load[c].rec = o
        PROVE  /\ \A e \in Edits : load'[<<e, o>>].pc = "idle"
               /\ record'[o].watch # Missing =>
                    /\ record'[o].watch = record'[o].path
                    /\ \E d \in Sets : load'[d].rec = o /\ load'[d].pc \in LoadPcs
    <3>0. load[c].pc \in {"check", "init"}
      BY <1>2, <2>2, InitStepEffect
    <3>1. /\ record'[o].watch # Missing =>
               record'[o].watch = record'[o].path /\ load'[c].pc = "stat"
          /\ load'[c].rec = o
          /\ \A y \in Loaders \ {c} : load'[y] = load[y]
      <4>1. record[o].watch = Missing
        BY <1>2, <2>2, <3>0 DEF StartInv
      <4>. QED BY <1>2, <2>2, <4>1, InitStepEffect
    <3>2. \A e \in Edits : load[<<e, o>>].pc = "idle" /\ <<e, o>> \in Notices
      BY <1>2, <2>2, <3>0 DEF StartInv, Notices
    <3>3. \A e \in Edits : load'[<<e, o>>].pc = "idle"
      BY <2>2, <3>1, <3>2, DistinctAssumption DEF Loaders
    <3>. QED BY <3>1, <3>3 DEF LoadPcs
  <2>3. ASSUME o \in Created, ~\E c \in Sets : InitStep(c) /\ load[c].rec = o
        PROVE  /\ \A e \in Edits : load'[<<e, o>>].pc = "idle"
               /\ record'[o].watch # Missing =>
                    /\ record'[o].watch = record'[o].path
                    /\ \E d \in Sets : load'[d].rec = o /\ load'[d].pc \in LoadPcs
    <3>1. /\ record[o].st = "new"
          /\ \/ record'[o].watch = record[o].watch
             \/ \E e \in Edits, p \in Paths, q \in Paths : Rename(e, p, q) /\ o \in Watching(p)
      <4>1. CASE \A u \in Objects : RecordKept(u)
        BY <1>2, <4>1 DEF RecordKept
      <4>2. ASSUME NEW c \in Sets, NEW new \in Objects \ Created, Makes(c, new)
            PROVE  record'[o] = record[o]
        BY <2>3, <4>2 DEF Makes
      <4>3. ASSUME NEW c \in Sets, InitStep(c) PROVE record'[o] = record[o]
        <5>1. \A w \in Objects \ {load[c].rec} : record'[w] = record[w]
          BY <1>2, <4>3, InitStepEffect
        <5>. QED BY <2>3, <4>3, <5>1
      <4>4. ASSUME NEW e \in Edits, NEW p \in Paths, NEW q \in Paths, Rename(e, p, q)
            PROVE  /\ record'[o].st = record[o].st
                   /\ o \notin Watching(p) => record'[o].watch = record[o].watch
        BY <1>2, <4>4, RenameEffect
      <4>. QED BY <1>2, <4>1, <4>2, <4>3, <4>4, RecordSteps
    <3>2. /\ \A e \in Edits : load[<<e, o>>].pc = "idle"
          /\ record[o].watch # Missing =>
               /\ record[o].watch = record[o].path
               /\ \E c \in Sets : load[c].rec = o /\ load[c].pc \in LoadPcs
      BY <1>2, <2>0, <3>1 DEF ReadyInv
    <3>3. record'[o].path = record[o].path
      BY <1>2, <2>3, <3>2, UntoldKeepsKey
    <3>4. ASSUME NEW e \in Edits, NEW p \in Paths, NEW kind \in EditKinds, NEW q \in Paths,
                 Tell(e, p, kind, q), o \in Watching(p)
          PROVE  FALSE
      <4>1. record[o].watch = p /\ record[o].watch # Missing
        BY <3>4, NamesAssumption DEF Watching
      <4>2. record[o].path = p /\ Loading(p)
        BY <3>2, <4>1, NamesAssumption DEF Loading, Loaders, LoadPcs
      <4>. QED BY <1>2, <3>4, <4>2 DEF Tell
    <3>5. \A e \in Edits : load'[<<e, o>>].pc = "idle"
      BY <1>2, <3>2, <3>4, ToldWatches
    <3>6. record'[o].watch = record[o].watch
      <4>1. ASSUME NEW e \in Edits, NEW p \in Paths, NEW q \in Paths, Rename(e, p, q)
            PROVE  o \notin Watching(p)
        BY <3>4, <4>1 DEF Rename
      <4>. QED BY <3>1, <4>1
    <3>7. ASSUME record'[o].watch # Missing
          PROVE  \E c \in Sets : load'[c].rec = o /\ load'[c].pc \in LoadPcs
      <4>1. PICK c \in Sets : load[c].rec = o /\ load[c].pc \in LoadPcs
        BY <3>2, <3>6, <3>7
      <4>. QED BY <1>2, <4>1, WarmGoesOn
    <3>. QED BY <3>2, <3>3, <3>5, <3>6, <3>7
  <2>. QED BY <2>1, <2>2, <2>3
<1>. QED BY <1>1, <1>2 DEF ReadyInv

(* What a notice to a record that nothing disturbs comes to. *)
LEMMA PendingStays ==
  ASSUME TypeInv, KeyInv, RemovalInv, GoneInv, ReadyInv, Next,
         NEW k \in Paths, NEW o \in Objects, Counts(k, o), InPlace(k, o)',
         NEW e \in Edits, Pending(e, o), ~Written(<<e, o>>)
  PROVE  Dropping(k)' \/ \E f \in Edits : Pending(f, o)'
<1> DEFINE x == <<e, o>>
<1>1. x \in Notices /\ x \in Loaders /\ x[2] = o
  BY DEF Notices, Loaders
<1>2. \/ load[x].pc = "told" /\ load[x].kind \in {"update", "delete"}
      \/ load[x].pc \in LoadPcs
  BY DEF Pending
<1>3. load'[x].pc \in LoadPcs => Pending(e, o)'
  BY DEF Pending
<1>4. load'[x] = load[x] => Pending(e, o)'
  BY DEF Pending
<1>5. ~Written(x)
  OBVIOUS
<1> HIDE DEF x
<1>6. /\ current[k] = o /\ record[o].path = k /\ Undisturbed(o) /\ HasContent(o)
      /\ current'[k] # NoObject
  BY NamesAssumption DEF Counts, InPlace
<1>7. load[x].rec = o
  BY <1>1, <1>2 DEF TypeInv, LoadInv, LoadPcs
<1>8. CASE OnUpdate(x)
  <2>1. load'[x].pc = "stat"
    BY <1>1, <1>6, <1>7, <1>8, ToEffect DEF OnUpdate, TypeInv
  <2>. QED BY <1>3, <2>1 DEF LoadPcs
<1>9. CASE OnRemove(x)
  BY <1>1, <1>6, <1>7, <1>9, OnRemoveDrops
<1>10. CASE Fail(x) /\ LoadStep(x) /\ load[x].pc \in {"stat", "reading"}
  <2>1. record[o].st # "new"
    <3>1. load[x].pc # "idle"
      BY <1>10
    <3>. QED BY <1>6, <3>1 DEF x, ReadyInv, Undisturbed
  <2>2. file[k] = Missing
    <3>1. To(x, "failed")
      BY <1>10 DEF Fail
    <3>2. load'[x].pc = "failed"
      BY <1>1, <3>1, ToEffect DEF TypeInv
    <3>3. ~To(x, "quota") /\ ~To(x, "reading")
      BY <1>1, <3>2, ToEffect DEF TypeInv
    <3>4. CASE StatAnswers(x)
      BY <1>6, <1>7, <2>1, <3>3, <3>4 DEF StatAnswers
    <3>5. CASE FileRead(x)
      <4>1. CASE file[record[load[x].rec].path] = Missing
        BY <1>6, <1>7, <4>1
      <4>2. CASE load' = [load EXCEPT ![x].pc = "writing", ![x].path = record[load[x].rec].path,
                                      ![x].content = file[record[load[x].rec].path]]
        BY <1>1, <3>2, <4>2 DEF TypeInv, TypeOK, LoadState
      <4>. QED BY <3>5, <4>1, <4>2 DEF FileRead
    <3>. QED BY <1>5, <1>10, <3>3, <3>4, <3>5 DEF LoadStep, QuotaEmitted
  <2>3. \/ Dropping(k)
        \/ \E f \in Edits : load[<<f, o>>].pc = "told" /\ load[<<f, o>>].kind = "delete"
    BY <2>2 DEF GoneInv, Counts
  <2>4. Dropping(k) => Dropping(k)'
    BY <1>6, DroppingStays
  <2>5. ASSUME NEW f \in Edits, load[<<f, o>>].pc = "told", load[<<f, o>>].kind = "delete"
        PROVE  Pending(f, o)'
    <3>1. <<f, o>> \in Loaders /\ <<f, o>> # x
      BY <1>10, <2>5 DEF Notices, Loaders
    <3>2. load'[<<f, o>>] = load[<<f, o>>]
      BY <1>10, <3>1 DEF Fail, To, TypeInv, TypeOK
    <3>. QED BY <2>5, <3>2 DEF Pending
  <2>. QED BY <2>3, <2>4, <2>5
<1>11. CASE LoadStep(x) /\ ~(Fail(x) /\ load[x].pc \in {"stat", "reading"})
  BY <1>1, <1>3, <1>5, <1>11, LoadStepGoes DEF LoadPcs
<1>12. \/ load'[x] = load[x] \/ LoadStep(x) \/ OnUpdate(x) \/ OnRemove(x)
  <2>1. x \notin Sets /\ x \notin Reads
    BY <1>1, DistinctAssumption
  <2>2. NoticeStep(x) => OnUpdate(x) \/ OnRemove(x)
    BY <1>2 DEF NoticeStep, OnRename, MoveEntry, MoveRecord, LoadPcs
  <2>. QED BY <1>1, <1>2, <2>1, <2>2, OwnStep DEF KeyInv, LoadPcs
<1>. QED BY <1>4, <1>8, <1>9, <1>10, <1>11, <1>12

LEMMA ContentStep ==
  /\ TypeInv /\ KeyInv /\ RemovalInv /\ WriterInv /\ StoredInv /\ GoneInv /\ ReadyInv
  /\ ContentInv /\ [Next]_vars
  => ContentInv'
<1>1. ContentInv /\ UNCHANGED vars => ContentInv'
  BY NothingChanges DEF vars, ContentInv, Pending
<1>2. ASSUME TypeInv, KeyInv, RemovalInv, WriterInv, StoredInv, GoneInv, ReadyInv, ContentInv,
             Next, NEW k \in Paths, NEW o \in Objects, Counts(k, o)'
      PROVE  \/ stored'[k] = file'[k]
             \/ Dropping(k)'
             \/ \E e \in Edits : Pending(e, o)'
  <2>1. /\ o \in Created /\ InPlace(k, o) /\ TTL(o) # "keep"
        /\ Counts(k, o) \/ \E x \in Loaders : Written(x) /\ load[x].rec = o
    BY <1>2, CountsComes
  <2>2. /\ InPlace(k, o)' /\ Undisturbed(o)' /\ o \notin raced'
        /\ current'[k] = o /\ o # NoObject
    BY <1>2, NamesAssumption DEF Counts, InPlace, Undisturbed
  <2>3. /\ current[k] = o /\ record[o].path = k /\ Undisturbed(o)
    BY <2>1 DEF InPlace
  <2>4. CASE Erased(k)
    <3>1. \E x \in Removers : removal'[x].pc = "erased" /\ removal'[x].key = k /\ removal'[x].drop
      BY <1>2, <2>1, <2>2, <2>3, <2>4, ErasedDrops
    <3>. QED BY <3>1 DEF Dropping, InFlight
  <2>5. ASSUME NEW x \in Loaders, Written(x), load[x].path = k
        PROVE  stored'[k] = file'[k]
    <3>1. stored'[k] = load[x].content /\ UNCHANGED file /\ load[x].pc = "writing"
      BY <1>2, <2>5, WrittenEffect DEF Written
    <3>2. CASE load[x].rec = o
      BY <1>2, <2>3, <3>1, <3>2 DEF WriterInv
    <3>3. CASE load[x].rec # o
      BY <2>2, <2>3, <2>5, <3>1, <3>3 DEF Written
    <3>. QED BY <3>2, <3>3
  <2>6. ASSUME NEW x \in Loaders, Written(x), load[x].rec = o
        PROVE  stored'[k] = file'[k]
    BY <1>2, <2>3, <2>5, <2>6 DEF WriterInv, Written
  <2>7. CASE /\ stored'[k] = stored[k] /\ Counts(k, o)
             /\ ~\E x \in Loaders : Written(x) /\ load[x].rec = o
    <3>1. Dropping(k) => Dropping(k)'
      BY <1>2, <2>2, DroppingStays
    <3>2. ASSUME NEW e \in Edits, Pending(e, o)
          PROVE  Dropping(k)' \/ \E f \in Edits : Pending(f, o)'
      <4>1. ~Written(<<e, o>>)
        <5>1. <<e, o>> \in Loaders /\ <<e, o>> \in Notices
          BY DEF Notices, Loaders
        <5>2. load[<<e, o>>].rec = o
          BY <1>2, <3>2, <5>1 DEF Pending, TypeInv, LoadInv, LoadPcs
        <5>. QED BY <2>7, <5>1, <5>2
      <4>. QED BY <1>2, <2>2, <2>7, <3>2, <4>1, PendingStays
    <3>3. CASE file'[k] = file[k]
      BY <1>2, <2>7, <3>1, <3>2, <3>3 DEF ContentInv
    <3>4. CASE file'[k] # file[k]
      <4>1. \/ \E e \in Edits :
                 load'[<<e, o>>].pc = "told" /\ load'[<<e, o>>].kind \in {"update", "delete"}
            \/ file[k] = Missing
        BY <1>2, <2>1, <2>2, <2>3, <3>4, FileChanges
      <4>2. (\E e \in Edits :
               load'[<<e, o>>].pc = "told" /\ load'[<<e, o>>].kind \in {"update", "delete"})
            => \E e \in Edits : Pending(e, o)'
        BY DEF Pending
      <4>3. CASE file[k] = Missing
        <5>1. stored[k] # Missing \/ Dropping(k)
          BY <1>2, <2>7 DEF StoredInv, RemovalInv, Dropping, InFlight
        <5>. QED BY <1>2, <2>7, <3>1, <3>2, <4>3, <5>1 DEF ContentInv
      <4>. QED BY <4>1, <4>2, <4>3
    <3>. QED BY <3>3, <3>4
  <2>. QED BY <1>2, <2>1, <2>4, <2>5, <2>6, <2>7, StoredChanges
<1>. QED BY <1>1, <1>2 DEF ContentInv

LEMMA FreshInit == Init => StartInv /\ GoneInv /\ ReadyInv /\ ContentInv
<1> SUFFICES ASSUME Init PROVE StartInv /\ GoneInv /\ ReadyInv /\ ContentInv
  OBVIOUS
<1>1. \A k \in Paths : current[k] = NoObject
  BY DEF Init
<1>2. GoneInv /\ ContentInv
  BY <1>1, NamesAssumption DEF GoneInv, ContentInv, Counts, InPlace
<1>3. ReadyInv
  BY DEF Init, ReadyInv
<1>4. StartInv
  BY DEF Init, StartInv, Loaders
<1>. QED BY <1>2, <1>3, <1>4

LEMMA ContentKept ==
  Spec => [](/\ TypeInv /\ KeyInv /\ RemovalInv /\ WriterInv /\ StoredInv
             /\ StartInv /\ GoneInv /\ ReadyInv /\ ContentInv)
<1>1. /\ TypeInv /\ KeyInv /\ RemovalInv /\ WriterInv /\ StoredInv
      /\ StartInv /\ GoneInv /\ ReadyInv /\ ContentInv /\ [Next]_vars
      => StartInv' /\ GoneInv' /\ ReadyInv' /\ ContentInv'
  BY StartStep, GoneStep, ReadyStep, ContentStep
<1>. QED BY <1>1, FreshInit, StoredKept, PTL DEF Spec

(* And it is what the file holds: a change of the file while nothing loads *)
(* the record reaches the cache, because the watcher's refresh ends in a   *)
(* write of what the file then holds, or fails only when the removal that  *)
(* drops the record has been asked for.                                    *)
THEOREM FilesCachedIsFresh == Spec => []CachedIsFresh
<1>1. TypeInv /\ ContentInv => CachedIsFresh
  <2> SUFFICES ASSUME TypeInv, ContentInv, NEW k \in Paths, NEW o, o = current[k],
                      o # NoObject, record[o].path = k, HasContent(o), TTL(o) # "keep",
                      ~Busy(o), Undisturbed(o)
               PROVE  stored[k] = file[k]
    BY DEF CachedIsFresh
  <2>1. Counts(k, o) /\ o \in Objects
    BY DEF Counts, InPlace, TypeInv, TypeOK
  <2>2. ~Dropping(k)
    BY DEF Busy, Dropping
  <2>3. ASSUME NEW e \in Edits, Pending(e, o) PROVE FALSE
    <3>1. <<e, o>> \in Loaders /\ <<e, o>> \in Notices
      BY <2>1 DEF Notices, Loaders
    <3>2. load[<<e, o>>].pc \notin {"idle", "done", "failed"}
      BY <2>3 DEF Pending, LoadPcs
    <3>3. load[<<e, o>>].rec = o
      BY <3>1, <3>2 DEF TypeInv, LoadInv
    <3>. QED BY <3>1, <3>2, <3>3 DEF Busy, Working
  <2>. QED BY <2>1, <2>2, <2>3 DEF ContentInv, Counts, InPlace
<1>. QED BY <1>1, ContentKept, PTL

-----------------------------------------------------------------------------
(* Jobs *)

(* A record that nothing disturbs is and stays under its key. *)
LEMMA SlidesStay ==
  ASSUME TypeInv, KeyInv, Next, NEW o \in Created, Slides(o)'
  PROVE  /\ Slides(o) /\ o \notin raced'
         /\ current[record[o].path] = o /\ current'[record[o].path] = o
<1>1. PICK k \in Paths : current'[k] = o
  BY DEF Slides, Cached
<1>2. Undisturbed(o)' /\ o \in Objects /\ o # NoObject
  BY NamesAssumption DEF Slides, Created
<1>3. current[k] = o
  BY <1>1, <1>2, EntryStays
<1>4. Undisturbed(o) /\ record'[o].by = record[o].by
  BY <1>2, UndisturbedStays, RecordGoesOn
<1>5. record[o].path = k
  <2>1. \A e \in Edits : ~Following(<<e, o>>)
    BY <1>4 DEF Undisturbed, Renamed, Following
  <2>. QED BY <1>2, <1>3, <1>4, <2>1 DEF KeyInv, PlacedInv, Placed, Undisturbed
<1>6. Slides(o)
  BY <1>2, <1>3, <1>4 DEF Slides, Cached, TTL, IsSliding
<1>. QED BY <1>1, <1>2, <1>3, <1>5, <1>6 DEF Undisturbed

(* Only its own expiry takes the job of a record that stays in its place.  *)
LEMMA JobStays ==
  ASSUME TypeInv, KeyInv, Next, NEW o \in jobs,
         current[record[o].path] = o, current'[record[o].path] = o
  PROVE  o \in jobs' \/ Expire(o)
<1>0. o \in Objects /\ o # NoObject /\ jobs \in SUBSET Objects
  BY NamesAssumption DEF TypeInv, TypeOK
<1>1. ASSUME NEW x \in Removers, NEW u \in Objects, Emit(x, u, jobs) PROVE o \in jobs'
  BY <1>0, <1>1, EmitEffect DEF TypeInv
<1>2. ASSUME jobs \subseteq jobs' PROVE o \in jobs'
  BY <1>2
<1>3. CASE Client
  <2>1. ASSUME NEW c \in Sets, Set(c) PROVE jobs \subseteq jobs'
    BY <2>1, SetEffect DEF Makes
  <2>2. ASSUME NEW c \in Reads, NEW p \in Paths, Read(c, p) PROVE jobs \subseteq jobs'
    BY <2>2, ReadEffect
  <2>3. ASSUME NEW x \in Removes, NEW p \in Paths, Remove(x, p) PROVE o \in jobs'
    <3>1. Emit(x, current[p], jobs) /\ current[p] \in Objects /\ x \in Removers
      BY <2>3 DEF Remove, Removers, TypeInv, TypeOK
    <3>. QED BY <1>1, <3>1
  <2>4. CASE ClearStart
    BY <2>4 DEF ClearStart, allButClear
  <2>. QED BY <1>2, <1>3, <2>1, <2>2, <2>3, <2>4 DEF Client
<1>4. CASE Disk
  BY <1>4 DEF Disk, Update, Delete, Rename, Tell
<1>5. ASSUME NEW c \in Sets, InitStep(c) PROVE o \in jobs'
  <2>1. jobs \subseteq jobs'
    BY <1>5, InitStepEffect
  <2>. QED BY <2>1
<1>6. ASSUME NEW x \in Loaders, LoadStep(x) PROVE o \in jobs'
  <2>1. CASE StatAnswers(x)
    <3>1. load[x].rec \in Objects /\ x \in Removers
      BY <2>1 DEF StatAnswers, TypeInv, LoadInv, Active, Removers
    <3>. QED BY <1>1, <2>1, <3>1 DEF StatAnswers, Fail
  <2>2. CASE QuotaEmitted(x)
    BY <2>2 DEF QuotaEmitted, allButLoad
  <2>3. CASE FileRead(x)
    <3>1. load[x].pc = "reading"
      BY <2>3 DEF FileRead
    <3>2. Fail(x) => UNCHANGED jobs
      BY DEF Fail
    <3>3. ~Fail(x) => jobs \subseteq jobs'
      BY <2>3, <3>1, FileReadEffect
    <3>. QED BY <3>2, <3>3
  <2>4. CASE Written(x)
    <3>1. jobs \subseteq jobs'
      BY <2>4, WrittenEffect
    <3>. QED BY <3>1
  <2>. QED BY <1>6, <2>1, <2>2, <2>3, <2>4 DEF LoadStep
<1>7. ASSUME NEW x \in Notices, NoticeStep(x) PROVE o \in jobs'
  <2>1. CASE OnRemove(x)
    <3>1. Emit(x, load[x].rec, jobs) /\ load[x].rec \in Objects /\ x \in Removers
      BY <2>1 DEF OnRemove, TypeInv, LoadInv, Active, Removers, Loaders
    <3>. QED BY <1>1, <3>1
  <2>. QED BY <1>7, <2>1 DEF NoticeStep, OnUpdate, OnRename, MoveEntry, MoveRecord, allButLoad
<1>8. ASSUME NEW u \in Objects, Expire(u), u # o PROVE o \in jobs'
  <2>1. \/ jobs' = jobs \ {u}
        \/ /\ current[record[u].path] = NoObject
           /\ \A w \in (jobs \ {u}) \ jobs' : record[w].path = record[u].path
    BY <1>8, ExpireEffect
  <2>. QED BY <1>0, <1>8, <2>1
<1>9. ASSUME NEW x \in Removers, Drop(x) PROVE o \in jobs'
  <2>1. /\ current'[removal[x].key] = NoObject
        /\ \A w \in jobs \ jobs' : record[w].path = removal[x].key
    BY <1>9, DropEffect
  <2>. QED BY <1>0, <2>1
<1>10. CASE (\E c \in Reads : Fetched(c)) \/ (\E k \in Paths : Erased(k)) \/ Sweep \/ ClearStep
  BY <1>10 DEF Fetched, Erased, Sweep, ClearStep, ClearNext, ClearEnd, allButLoad, allButClear
<1>11. CASE \E u \in Objects : Expire(u)
  <2>1. PICK u \in Objects : Expire(u)
    BY <1>11
  <2>2. CASE u = o
    BY <2>1, <2>2, Zenon
  <2>. QED BY <1>8, <2>1, <2>2
<1>. QED BY <1>3, <1>4, <1>5, <1>6, <1>7, <1>9, <1>10, <1>11 DEF Next

(* Nor does that of a record being worked on go unnoticed.                 *)
LEMMA WorkersJobStays ==
  ASSUME TypeInv, KeyInv, Next, NEW o \in Created, Slides(o)', o \in jobs,
         NEW x \in Loaders, load[x].rec = o, load[x].pc \notin {"idle", "done", "failed"}
  PROVE  o \in jobs'
<1>1. /\ o \notin raced' /\ current[record[o].path] = o /\ current'[record[o].path] = o
  BY SlidesStay
<1>2. o \in Objects /\ Working(o)
  BY DEF Created, Working
<1>3. ~Expire(o)
  <2>1. Expire(o) => o \in raced'
    BY <1>2, ExpireEffect
  <2>. QED BY <1>1, <2>1
<1>. QED BY <1>1, <1>3, JobStays

LEMMA ContentHasJob ==
  ASSUME TypeInv, KeyInv, JobInv, Next, NEW o \in Objects, Slides(o)', HasContent(o)'
  PROVE  o \in jobs'
<1>1. o \in Created /\ (HasContent(o) \/ \E x \in Loaders : Written(x) /\ load[x].rec = o)
  BY ContentIsOfCreated
<1>2. Slides(o) /\ current[record[o].path] = o /\ current'[record[o].path] = o
  BY <1>1, SlidesStay
<1>3. CASE HasContent(o)
  <2>1. o \in jobs
    BY <1>2, <1>3 DEF JobInv
  <2>2. ~Expire(o)
    <3>1. Expire(o) => record'[o].size = 0
      <4>1. TTL(o) # "evict" /\ record[o].size # 0
        BY <1>2, <1>3 DEF Slides, HasContent
      <4>. QED BY <4>1, ExpireEffect
    <3>. QED BY <3>1 DEF HasContent
  <2>. QED BY <1>2, <2>1, <2>2, JobStays
<1>4. ASSUME NEW x \in Loaders, Written(x), load[x].rec = o PROVE o \in jobs'
  <2>1. /\ jobs \subseteq jobs'
        /\ x \in Reads /\ TTL(o) # "none" /\ IsSliding(o) => o \in jobs'
    BY <1>4, WrittenEffect
  <2>2. x \notin Reads => o \in jobs
    BY <1>2, <1>4 DEF JobInv, Written, LoadPcs, Loaders
  <2>. QED BY <1>2, <2>1, <2>2 DEF Slides
<1>. QED BY <1>1, <1>3, <1>4

LEMMA StartHasJob ==
  ASSUME TypeInv, KeyInv, StartInv, JobInv, Next, NEW c \in Sets,
         load'[c].pc \in {"check", "init"},
         NEW o, o = load'[c].rec, Slides(o)', record'[o].timed
  PROVE  o \in jobs'
<1>0. c \in Loaders /\ c \notin Notices /\ c \notin Reads
  BY DistinctAssumption DEF Loaders
<1>1. CASE load'[c] = load[c]
  <2>1. o \in Created /\ o \in Objects
    BY <1>0, <1>1, RecIsCreated DEF Active, Created
  <2>2. Slides(o)
    BY <2>1, SlidesStay
  <2>3. record[o].timed \/ o \in jobs'
    <3>1. CASE \A u \in Objects : RecordKept(u)
      <4>1. TTL(o) # "none"
        BY <2>2 DEF Slides
      <4>. QED BY <2>1, <3>1, <4>1 DEF RecordKept
    <3>2. ASSUME NEW d \in Sets, NEW new \in Objects \ Created, Makes(d, new)
          PROVE  record'[o] = record[o]
      BY <2>1, <3>2 DEF Makes
    <3>3. ASSUME NEW d \in Sets, InitStep(d) PROVE record'[o] = record[o]
      <4>1. /\ \A w \in Objects \ {load[d].rec} : record'[w] = record[w]
            /\ load'[d].pc # load[d].pc
        BY <3>3, InitStepEffect
      <4>2. load[c].pc \in {"check", "init"} /\ o = load[c].rec
        BY <1>1
      <4>3. d # c
        BY <1>1, <4>1
      <4>4. load[d].rec # o
        BY <3>3, <4>2, <4>3, StartsApart
      <4>. QED BY <2>1, <4>1, <4>4
    <3>4. ASSUME NEW e \in Edits, NEW p \in Paths, NEW q \in Paths, Rename(e, p, q)
          PROVE  record'[o].timed = record[o].timed
      BY <2>1, <3>4, RenameEffect
    <3>. QED BY <3>1, <3>2, <3>3, <3>4, RecordSteps
  <2>4. record[o].timed => o \in jobs
    BY <1>1, <2>2 DEF JobInv
  <2>5. o \in jobs => o \in jobs'
    BY <1>0, <1>1, <2>1, WorkersJobStays
  <2>. QED BY <2>3, <2>4, <2>5
<1>2. CASE load'[c] # load[c] /\ ~InitStep(c)
  <2>2. ~LoadStep(c)
    BY <1>0, LoadStepGoes
  <2>3. load[c].pc = "idle"
    BY <1>0, <1>2, <2>2, OwnStep DEF KeyInv
  <2>4. PICK new \in Objects \ Created : Makes(c, new)
    BY <1>0, <1>2, <2>3, IdleStarts
  <2>. QED BY <2>4 DEF Makes
<1>3. CASE InitStep(c)
  <2>1. /\ load[c].pc = "check" /\ o = load[c].rec /\ UNCHANGED <<record, jobs>>
        /\ o \in Objects
    BY <1>3, InitStepEffect
  <2>2. o \in Created
    BY <1>0, <2>1, RecIsCreated DEF Active
  <2>3. Slides(o)
    BY <2>2, SlidesStay
  <2>. QED BY <2>1, <2>3 DEF JobInv
<1>. QED BY <1>1, <1>2, <1>3

LEMMA LoadHasJob ==
  ASSUME TypeInv, KeyInv, JobInv, Next, NEW x \in Sets \cup Notices, load'[x].pc \in LoadPcs,
         NEW o, o = load'[x].rec, Slides(o)'
  PROVE  o \in jobs'
<1>0. x \in Loaders /\ x \notin Reads
  BY DistinctAssumption DEF Loaders
<1>1. CASE load[x].pc \in LoadPcs /\ load'[x].rec = load[x].rec
  <2>1. o \in Created
    BY <1>0, <1>1, RecIsCreated DEF Active, LoadPcs
  <2>2. o \in jobs
    BY <1>1, <2>1, SlidesStay DEF JobInv
  <2>. QED BY <1>0, <1>1, <2>1, <2>2, WorkersJobStays DEF LoadPcs
<1>2. CASE x \in Sets /\ InitStep(x)
  <2>1. load[x].pc \in {"check", "init"} /\ load[x].rec \in Created
    BY <1>0, <1>2, RecIsCreated DEF InitStep, Check, Initialise, Active
  <2>2. /\ o = load[x].rec /\ jobs \subseteq jobs'
        /\ TTL(o) # "none" /\ ~record[o].timed => o \in jobs'
    BY <1>2, InitStepEffect DEF LoadPcs
  <2>3. Slides(o)
    BY <2>1, <2>2, SlidesStay
  <2>4. record[o].timed => o \in jobs
    BY <1>2, <2>1, <2>2, <2>3 DEF JobInv
  <2>. QED BY <2>2, <2>3, <2>4 DEF Slides
<1>3. CASE x \in Notices /\ NoticeStep(x)
  <2>1. CASE OnUpdate(x)
    <3>1. load[x].rec \in Created /\ UNCHANGED jobs
      BY <1>0, <2>1, RecIsCreated DEF OnUpdate, Active, allButLoad
    <3>2. \E pc \in {"stat", "done"} : To(x, pc) /\ (pc = "stat" => HasContent(load[x].rec))
      BY <2>1 DEF OnUpdate
    <3>3. load'[x].rec = load[x].rec /\ HasContent(load[x].rec)
      BY <1>0, <3>2, ToEffect DEF TypeInv, LoadPcs
    <3>4. Slides(o) /\ o \in Objects
      BY <3>1, <3>3, SlidesStay DEF Created
    <3>. QED BY <3>1, <3>3, <3>4 DEF JobInv
  <2>2. CASE MoveRecord(x)
    <3>1. /\ load[x].kind = "rename" /\ load[x].rec = x[2] /\ x[1] \in Edits
          /\ x = <<x[1], x[2]>> /\ load[x].rec \in Created
      BY <1>0, <1>3, <2>2, RecIsCreated
         DEF MoveRecord, KeyInv, KindInv, TypeInv, LoadInv, Notices, Active
    <3>2. load'[x].rec = load[x].rec
      BY <1>3, <2>2, MoveRecordEffect
    <3>3. Slides(o) /\ Renamed(o)
      BY <3>1, <3>2, SlidesStay DEF Renamed
    <3>. QED BY <3>3 DEF Slides, Undisturbed
  <2>3. CASE OnRemove(x) \/ OnRename(x) \/ MoveEntry(x)
    <3>1. \E pc \in {"done", "moving", "renaming"} : To(x, pc)
      BY <2>3 DEF OnRemove, OnRename, MoveEntry
    <3>. QED BY <1>0, <3>1, ToEffect DEF TypeInv, LoadPcs
  <2>. QED BY <1>3, <2>1, <2>2, <2>3 DEF NoticeStep
<1>4. CASE load[x].pc = "idle"
  BY <1>0, <1>4, IdleStarts DEF LoadPcs
<1>5. CASE LoadStep(x)
  BY <1>0, <1>1, <1>5, LoadStepGoes
<1>. QED BY <1>0, <1>1, <1>2, <1>3, <1>4, <1>5, OwnStep DEF KeyInv

LEMMA JobStep == TypeInv /\ KeyInv /\ StartInv /\ JobInv /\ [Next]_vars => JobInv'
<1>1. JobInv /\ UNCHANGED vars => JobInv'
  <2> SUFFICES ASSUME JobInv, UNCHANGED vars PROVE JobInv'
    OBVIOUS
  <2>1. \A o : Slides(o)' <=> Slides(o)
    BY DEF vars, Slides, Cached, TTL, IsSliding, Undisturbed, Renamed
  <2>. QED BY <2>1 DEF vars, JobInv, HasContent
<1>2. TypeInv /\ KeyInv /\ StartInv /\ JobInv /\ Next => JobInv'
  BY ContentHasJob, StartHasJob, LoadHasJob DEF JobInv
<1>. QED BY <1>1, <1>2

LEMMA JobInit == Init => JobInv
BY DEF Init, JobInv, HasContent, LoadPcs, Loaders

LEMMA JobsKept == Spec => [](TypeInv /\ KeyInv /\ StartInv /\ JobInv)
<1>. QED BY JobInit, JobStep, ContentKept, PTL DEF Spec

(* The content of a sliding 'keep' record never stays for want of a job:   *)
(* every load, refresh and first load of a 'warmup' set finds the job      *)
(* scheduled or schedules it, and only an expiry takes it away, with the   *)
(* content.                                                                *)
THEOREM FilesContentExpires == Spec => []ContentExpires
<1>1. TypeInv /\ JobInv => ContentExpires
  BY DEF ContentExpires, JobInv, Slides, Cached, TypeInv, TypeOK
<1>. QED BY <1>1, JobsKept, PTL
====
