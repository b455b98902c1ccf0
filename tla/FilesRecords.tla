---------------------------- MODULE FilesRecords ----------------------------
(***************************************************************************)
(* The files cache: records whose content is loaded on read, refreshed and *)
(* moved by a watcher of the file, dropped by expiry ('evict') or emptied  *)
(* by it ('keep'), refused above a size quota and swept when the memory    *)
(* limit is passed.                                                        *)
(*                                                                         *)
(* Code of the file record, the files manager and its listeners of the     *)
(* record events.  One scope, keys generated from paths (a key is named by *)
(* its path), one storage engine that answers in any order.  A content is  *)
(* named by the edit that wrote it.  Time is left out: a scheduled job may *)
(* fire at any moment, and an access is later than the one before.         *)
(***************************************************************************)
EXTENDS Integers, FiniteSets, Functions

CONSTANTS
  Paths,
  Objects,      \* bound: the FileCacheRecord objects a behaviour may create
  Sets,         \* bound: the calls of set
  PathOf,       \* PathOf[c]: the file set c names
  Warm,         \* the sets whose initiator is 'warmup'
  TTLOf,        \* TTLOf[c]: "none", or the policy of a ttl above 0
  Sliding,      \* the sets whose ttl is sliding
  InMemory,     \* the objects whose set has 'memory' in its storeIn
  Reads,        \* bound: the calls of read
  Removes,      \* bound: the removals by clients, idle cleaning and eviction
  Edits,        \* bound: the changes of files on disk
  EditKinds,    \* which kinds of change there are
  SizeOf,       \* SizeOf[v]: the length of content v
  MaxFileSize,  \* configs.maxFileSize
  MaxTotalSize, \* configs.maxTotalSize
  MaxClears,    \* bound: the calls of clear
  Clearer,      \* names the clear() call
  Original,     \* the content every file begins with
  Missing,      \* no content, no file
  NoObject

Contents == Edits \cup {Original}
(* One watcher event: record object o is told of edit e. *)
Notices == Edits \X Objects
(* Everything that may load content. *)
Loaders == Sets \cup Reads \cup Notices
Removers == Objects \cup Removes \cup Loaders \cup {Clearer}

ASSUME CallsAssumption ==
  /\ PathOf \in [Sets -> Paths]
  /\ TTLOf \in [Sets -> {"none", "evict", "keep"}]
  /\ Warm \subseteq Sets /\ Sliding \subseteq Sets
  /\ EditKinds \subseteq {"update", "delete", "rename"}
ASSUME SizesAssumption ==
  /\ SizeOf \in [Contents -> Nat]
  /\ {MaxFileSize, MaxTotalSize, MaxClears} \subseteq Nat
  /\ MaxFileSize <= MaxTotalSize
ASSUME NamesAssumption ==
  /\ Paths # {} /\ Sets # {}
  /\ NoObject \notin Objects /\ Original \notin Edits
  /\ Missing \notin Contents \cup Paths
(* Finitely many objects: the total is a sum over them. *)
ASSUME ObjectsAssumption == IsFiniteSet(Objects) /\ InMemory \subseteq Objects
(* No name stands for two things. *)
ASSUME DistinctAssumption ==
  /\ Clearer \notin Objects \cup Removes \cup Loaders
  /\ Objects \cap (Removes \cup Loaders) = {} /\ Removes \cap Loaders = {}
  /\ Sets \cap Reads = {} /\ Notices \cap (Sets \cup Reads) = {}

VARIABLES
  file,       \* file[p]: the content on disk
  current,    \* current[k]: the object the scope map holds for k
  record,     \* record[o]: one FileCacheRecord
  stored,     \* stored[k]: the content the engine keeps for k
  total,      \* the manager's sizeInMemory
  sweeping,   \* the free_memory task is in the queue
  jobs,       \* the objects whose expiry job is scheduled
  listening,  \* the objects whose `once` listener of 'remove' is registered
  load,       \* load[x]: one set, read or watcher event
  removal,    \* removal[x]: one erasure, with the event that asked for it
  clear,      \* the keys a clear() in progress has still to remove
  raced,      \* observer: the objects whose file changed, or that expired, during a
              \* load, or whose content another record's load or removal replaced
  astray      \* observer: the objects whose entry in the map the watcher of another
              \* record moved, or that were renamed again before a rename was dealt with

observers == <<raced, astray>>
vars == <<file, current, record, stored, total, sweeping, jobs, listening,
          load, removal, clear, raced, astray>>

allButLoad == <<file, current, record, stored, total, sweeping, jobs, listening,
                removal, clear, observers>>
allButClear == <<file, current, record, stored, total, sweeping, jobs, listening,
                 load, observers>>

-----------------------------------------------------------------------------
(* Types *)

(* by: the set that created it; path: file.path and, encoded, the key;     *)
(* size: #_content.size; timed: expireAt is set; watch: what the watcher   *)
(* follows.                                                                *)
RecordState == [st: {"none", "new", "ready"}, by: Sets, path: Paths, size: Nat,
                timed: BOOLEAN, watch: Paths \cup {Missing}]

(* A set: awaits stat ("check"), then the watcher ("init"); a watcher      *)
(* event: told, awaits the erasure before a rename ("moving"), its event   *)
(* ("renaming"); a load: awaits stat, the quota's removal event, the file, *)
(* the engine; a read then fetches from the engine.                        *)
LoadState ==
  [pc: {"idle", "told", "moving", "renaming", "check", "init", "stat", "quota",
        "reading", "writing", "fetch", "done", "failed"},
   kind: EditKinds \cup {"none"},
   rec: Objects \cup {NoObject},
   path: Paths,                      \* rename: the new path; load: the key
   content: Contents \cup {Missing}, \* what was read
   hit: BOOLEAN]

(* drop: the key is dropped after the erasure (a removal event). *)
RemovalState == [pc: {"idle", "erasing", "erased", "done"}, key: Paths, drop: BOOLEAN]
ClearState == [on: BOOLEAN, todo: SUBSET Paths, calls: 0..MaxClears]

(* Type invariant. *)
TypeOK ==
  /\ file \in [Paths -> Contents \cup {Missing}]
  /\ current \in [Paths -> Objects \cup {NoObject}]
  /\ record \in [Objects -> RecordState]
  /\ stored \in [Paths -> Contents \cup {Missing}]
  /\ total \in Nat
  /\ sweeping \in BOOLEAN
  /\ jobs \subseteq Objects
  /\ listening \subseteq Objects
  /\ load \in [Loaders -> LoadState]
  /\ removal \in [Removers -> RemovalState]
  /\ clear \in ClearState
  /\ raced \subseteq Objects
  /\ astray \subseteq Objects

SomePath == CHOOSE p \in Paths : TRUE
SomeSet == CHOOSE c \in Sets : TRUE
RemovalIs(pc) == [pc |-> pc, key |-> SomePath, drop |-> FALSE]

(* Mutants of Erasing: the key is not dropped; the arguments are swapped. *)
ErasingOnly(k, drop) == [pc |-> "erasing", key |-> k, drop |-> FALSE]
ErasingSwapped(k, drop) == [pc |-> "erasing", key |-> drop, drop |-> k]

Erasing(k, drop) == [pc |-> "erasing", key |-> k, drop |-> drop]

Init ==
  /\ file = [p \in Paths |-> IF \E c \in Sets : PathOf[c] = p THEN Original ELSE Missing]
  /\ current = [k \in Paths |-> NoObject]
  /\ record = [o \in Objects |->
       [st |-> "none", by |-> SomeSet, path |-> SomePath, size |-> 0,
        timed |-> FALSE, watch |-> Missing]]
  /\ stored = [k \in Paths |-> Missing]
  /\ total = 0
  /\ sweeping = FALSE
  /\ jobs = {}
  /\ listening = {}
  /\ load = [x \in Loaders |->
       [pc |-> "idle", kind |-> "none", rec |-> NoObject, path |-> SomePath,
        content |-> Missing, hit |-> FALSE]]
  /\ removal = [x \in Removers |-> RemovalIs("idle")]
  /\ clear = [on |-> FALSE, todo |-> {}, calls |-> 0]
  /\ raced = {}
  /\ astray = {}

Cached == {current[k] : k \in Paths} \ {NoObject}
HasContent(o) == record[o].size > 0
TTL(o) == TTLOf[record[o].by]
IsSliding(o) == record[o].by \in Sliding

-----------------------------------------------------------------------------
(* Building blocks *)

(* Mutant of RefreshTTL: the old job is cancelled before expireAt is       *)
(* compared.                                                               *)
RefreshTTLCancels(o, accessed) ==
  /\ record' = [record EXCEPT ![o].timed = (TTL(o) # "none")]
  /\ jobs' = IF TTL(o) = "none" THEN jobs
             ELSE IF record[o].timed /\ ~(accessed /\ IsSliding(o)) THEN jobs \ {o}
             ELSE jobs \cup {o}

(* refreshTTL: the job is scheduled anew unless expireAt stays the same,   *)
(* which it does when nothing but a sliding ttl's access has moved it.     *)
RefreshTTL(o, accessed) ==
  /\ record' = [record EXCEPT ![o].timed = (TTL(o) # "none")]
  /\ jobs' = IF TTL(o) = "none" \/ (record[o].timed /\ ~(accessed /\ IsSliding(o)))
             THEN jobs ELSE jobs \cup {o}

(* The records' own listeners of 'remove': each is called once. *)
Notified(k, scheduled) ==
  /\ jobs' = scheduled \ {o \in listening : record[o].path = k}
  /\ listening' = {}

(* A 'remove' event of x about o, with o's key of that moment: the         *)
(* manager's listener looks the key up and has the engine erase it.        *)
Emit(x, o, scheduled) ==
  LET k == record[o].path
  IN \/ /\ current[k] # NoObject
        /\ removal' = [removal EXCEPT ![x] = Erasing(k, TRUE)]
        /\ jobs' = scheduled
        /\ UNCHANGED listening
     \/ /\ current[k] = NoObject
        /\ removal' = [removal EXCEPT ![x] = RemovalIs("done")]
        /\ Notified(k, scheduled)

(* How much the record grows: contentLength - this.#_content.size.  Mutant *)
(* of Growth: the size counted before is forgotten.                        *)
WholeSize(o, v) == SizeOf[v]
Growth(o, v) == SizeOf[v] - record[o].size

(* Mutant of Account: the limit may be passed by one. *)
AccountOffByOne(o, delta) ==
  IF o \in InMemory /\ delta # 0
  THEN /\ total' = IF total + delta > 0 THEN total + delta ELSE 0
       /\ sweeping' = (sweeping \/ total' > MaxTotalSize + 1)
  ELSE UNCHANGED <<total, sweeping>>

(* contentSizeChange, emitted for a delta other than 0 and heeded for a    *)
(* record that is kept in memory, and applyDelta.                          *)
Account(o, delta) ==
  IF o \in InMemory /\ delta # 0
  THEN /\ total' = IF total + delta > 0 THEN total + delta ELSE 0
       /\ sweeping' = (sweeping \/ total' > MaxTotalSize)
  ELSE UNCHANGED <<total, sweeping>>

To(x, pc) == load' = [load EXCEPT ![x].pc = pc]
Working(o) == \E x \in Loaders :
  load[x].rec = o /\ load[x].pc \notin {"idle", "done", "failed"}
Loading(k) == \E x \in Loaders :
  /\ load[x].rec # NoObject /\ record[load[x].rec].path = k
  /\ load[x].pc \in {"stat", "quota", "reading", "writing"}
(* The watcher event x is a rename and not dealt with yet. *)
Following(x) == load[x].kind = "rename" /\ load[x].pc \in {"told", "moving", "renaming"}
InFlight(x) == removal[x].pc \in {"erasing", "erased"}

-----------------------------------------------------------------------------
(* set *)

(* set() of the public interface: a file that cannot be read is refused, a *)
(* known one touched; for a new one a record is put in the map first and   *)
(* initialised after.                                                      *)
Set(c) ==
  LET p == PathOf[c]
      fresh == {o \in Objects : record[o].st = "none"}
      new == CHOOSE o \in fresh : TRUE
  IN /\ load[c].pc = "idle"
     /\ ~clear.on
     /\ \/ /\ file[p] = Missing
           /\ To(c, "failed")
           /\ UNCHANGED <<current, record, jobs, listening>>
        \/ /\ file[p] # Missing /\ current[p] # NoObject
           /\ RefreshTTL(current[p], TRUE)
           /\ To(c, "done")
           /\ UNCHANGED <<current, listening>>
        \/ /\ file[p] # Missing /\ current[p] = NoObject /\ fresh # {}
           /\ record' = [record EXCEPT ![new] =
                [st |-> "new", by |-> c, path |-> p, size |-> 0,
                 timed |-> FALSE, watch |-> Missing]]
           /\ current' = [current EXCEPT ![p] = new]
           /\ listening' = listening \cup {new}
           /\ load' = [load EXCEPT ![c].pc = "check", ![c].rec = new]
           /\ UNCHANGED jobs
     /\ UNCHANGED <<file, stored, total, sweeping, removal, clear, observers>>

(* _init() fails: the record stays in the map, without watcher and expiry. *)
InitFails(c) ==
  /\ record' = [record EXCEPT ![load[c].rec].st = "ready"]
  /\ To(c, "failed")

(* _init(): the file's size is checked, *)
Check(c) ==
  LET v == file[record[load[c].rec].path]
  IN /\ load[c].pc = "check"
     /\ IF v = Missing \/ SizeOf[v] > MaxFileSize
        THEN InitFails(c)
        ELSE To(c, "init") /\ UNCHANGED record
     /\ UNCHANGED <<file, current, stored, total, sweeping, jobs, listening, removal, clear,
                    observers>>

(* then the watcher started (on a file that is there), the expiry          *)
(* scheduled.                                                              *)
Initialise(c) ==
  LET o == load[c].rec
  IN /\ load[c].pc = "init"
     /\ IF file[record[o].path] = Missing
        THEN InitFails(c) /\ UNCHANGED jobs
        ELSE /\ record' = [record EXCEPT
                  ![o].watch = record[o].path,
                  ![o].timed = (TTL(o) # "none"),
                  ![o].st = IF c \in Warm THEN "new" ELSE "ready"]
             /\ jobs' = IF TTL(o) # "none" /\ ~record[o].timed THEN jobs \cup {o} ELSE jobs
             /\ To(c, IF c \in Warm THEN "stat" ELSE "done")
     /\ UNCHANGED <<file, current, stored, total, sweeping, listening, removal, clear, observers>>

-----------------------------------------------------------------------------
(* read *)

(* read() of the manager and of the record: a cached content is fetched    *)
(* from the engine, any other loaded first.                                *)
Read(c, p) ==
  LET o == current[p]
  IN /\ c \in Reads
     /\ load[c].pc = "idle"
     /\ ~clear.on
     /\ o # NoObject
     /\ load' = [load EXCEPT ![c].rec = o, ![c].hit = HasContent(o),
                             ![c].pc = IF HasContent(o) THEN "fetch" ELSE "stat"]
     /\ IF HasContent(o) THEN RefreshTTL(o, TRUE) ELSE UNCHANGED <<record, jobs>>
     /\ UNCHANGED <<file, current, stored, total, sweeping, listening, removal, clear, observers>>

(* The engine answers the read. *)
Fetched(c) ==
  /\ load[c].pc = "fetch"
  /\ load' = [load EXCEPT ![c].pc = "done",
                          ![c].content = stored[record[load[c].rec].path]]
  /\ UNCHANGED allButLoad

-----------------------------------------------------------------------------
(* loadContent *)

(* A load that throws ends its call; the one of a warm set ends _init. *)
Fail(x) ==
  /\ To(x, "failed")
  /\ record' = [record EXCEPT ![load[x].rec].st = "ready"]
  /\ UNCHANGED <<jobs, listening, removal>>

(* updateFileStats: too large a file fails the load of a record that is    *)
(* not initialised yet, and else emits a removal - and the load goes on.   *)
StatAnswers(x) ==
  LET o == load[x].rec
      v == file[record[o].path]
      tooLarge == v # Missing /\ SizeOf[v] > MaxFileSize
  IN /\ load[x].pc = "stat"
     /\ \/ /\ v = Missing \/ (tooLarge /\ record[o].st = "new")
           /\ Fail(x)
        \/ /\ tooLarge /\ record[o].st = "ready"
           /\ Emit(x, o, jobs)
           /\ To(x, "quota")
           /\ UNCHANGED record
        \/ /\ v # Missing /\ ~tooLarge
           /\ To(x, "reading")
           /\ UNCHANGED <<record, jobs, listening, removal>>
     /\ UNCHANGED <<file, current, stored, total, sweeping, clear, observers>>

(* Mutant of QuotaEmitted: the load waits for the key to be free. *)
QuotaWaits(x) ==
  /\ load[x].pc = "quota"
  /\ removal[x].pc = "done" /\ current[record[load[x].rec].path] = NoObject
  /\ To(x, "reading")
  /\ UNCHANGED allButLoad

(* The removal event is over, and the load goes on. *)
QuotaEmitted(x) ==
  /\ load[x].pc = "quota"
  /\ removal[x].pc = "done"
  /\ To(x, "reading")
  /\ UNCHANGED allButLoad

(* The file has been read; the engine is asked to write. *)
FileRead(x) ==
  LET o == load[x].rec
      p == record[o].path
  IN /\ load[x].pc = "reading"
     /\ \/ file[p] = Missing /\ Fail(x)
        \/ /\ file[p] # Missing
           /\ RefreshTTL(o, FALSE)
           /\ load' = [load EXCEPT ![x].pc = "writing", ![x].path = p,
                                   ![x].content = file[p]]
           /\ UNCHANGED <<listening, removal>>
     /\ UNCHANGED <<file, current, stored, total, sweeping, clear, observers>>

(* The engine has written; the size is counted; a read registers its       *)
(* access and fetches, a refresh emits its update event, a warm set ends.  *)
Written(x) ==
  LET o == load[x].rec
      v == load[x].content
  IN /\ load[x].pc = "writing"
     /\ stored' = [stored EXCEPT ![load[x].path] = v]
     /\ Account(o, Growth(o, v))
     /\ record' = [record EXCEPT ![o].size = SizeOf[v],
          ![o].st = IF x \in Sets THEN "ready" ELSE @]
     /\ jobs' = IF x \in Reads /\ TTL(o) # "none" /\ IsSliding(o) THEN jobs \cup {o} ELSE jobs
     /\ To(x, IF x \in Reads THEN "fetch" ELSE "done")
     /\ raced' = IF v = file[load[x].path] THEN raced
                 ELSE raced \cup {u \in Objects : u # o /\ u = current[load[x].path]}
     /\ UNCHANGED <<file, current, listening, removal, clear, astray>>

-----------------------------------------------------------------------------
(* The watcher *)

(* A watcher event as it arrives. *)
Notice(o, kind, to) ==
  [pc |-> "told", kind |-> kind, rec |-> o, path |-> to, content |-> Missing, hit |-> FALSE]

Watching(p) == {o \in Objects : record[o].watch = p}
(* The file changes; every record object that watches it will be told,     *)
(* removed ones too: a watcher is never stopped.                           *)
Tell(e, p, kind, to) ==
  /\ load' = [x \in Loaders |->
       IF x \in Notices /\ x[1] = e /\ x[2] \in Watching(p)
       THEN Notice(x[2], kind, to)
       ELSE load[x]]
  /\ raced' = raced \cup {o \in Objects : record[o].path = p
                                       /\ (Loading(p) \/ o \notin Watching(p))}
  /\ astray' = IF kind # "rename" THEN astray
               ELSE astray \cup {o \in Watching(p) : \E f \in Edits : Following(<<f, o>>)}
  /\ UNCHANGED <<current, stored, total, sweeping, jobs, listening, removal, clear>>

Unused(e) == /\ \A o \in Objects : load[<<e, o>>].pc = "idle"
             /\ \A p \in Paths : file[p] # e /\ stored[p] # e

(* Bound: an edit that changes a content is used once. *)
Update(e, p) ==
  /\ "update" \in EditKinds
  /\ Unused(e) /\ file[p] # Missing
  /\ file' = [file EXCEPT ![p] = e]
  /\ Tell(e, p, "update", p)
  /\ UNCHANGED record

(* Bound: only a watched file is deleted or renamed. *)
Delete(e, p) ==
  /\ "delete" \in EditKinds
  /\ Unused(e) /\ file[p] # Missing /\ Watching(p) # {}
  /\ file' = [file EXCEPT ![p] = Missing]
  /\ Tell(e, p, "delete", p)
  /\ UNCHANGED record

(* The watcher follows the file to its new path. *)
Rename(e, p, q) ==
  /\ "rename" \in EditKinds
  /\ Unused(e) /\ file[p] # Missing /\ file[q] = Missing /\ Watching(p) # {}
  /\ file' = [file EXCEPT ![q] = file[p], ![p] = Missing]
  /\ Tell(e, p, "rename", q)
  /\ record' = [o \in Objects |->
       IF o \in Watching(p) THEN [record[o] EXCEPT !.watch = q] ELSE record[o]]

(* Mutant of OnUpdate: a record that will expire is not loaded again. *)
OnUpdateUntimed(x) ==
  /\ load[x].pc = "told" /\ load[x].kind = "update"
  /\ To(x, IF HasContent(load[x].rec) /\ load[x].rec \notin jobs THEN "stat" ELSE "done")
  /\ UNCHANGED allButLoad

OnUpdate(x) ==
  /\ load[x].pc = "told" /\ load[x].kind = "update"
  /\ To(x, IF HasContent(load[x].rec) THEN "stat" ELSE "done")
  /\ UNCHANGED allButLoad

OnRemove(x) ==
  /\ load[x].pc = "told" /\ load[x].kind = "delete"
  /\ Emit(x, load[x].rec, jobs)
  /\ To(x, "done")
  /\ UNCHANGED <<file, current, record, stored, total, sweeping, clear, observers>>

(* A cached content is erased before the record moves. *)
OnRename(x) ==
  LET o == load[x].rec
  IN /\ load[x].pc = "told" /\ load[x].kind = "rename"
     /\ removal' = [removal EXCEPT ![x] =
          IF HasContent(o) THEN Erasing(record[o].path, FALSE) ELSE RemovalIs("done")]
     /\ To(x, "moving")
     /\ UNCHANGED <<file, current, record, stored, total, sweeping, jobs,
                    listening, clear, observers>>

(* The manager's listener moves the map's entry, whichever record it holds. *)
MoveEntry(x) ==
  LET k == record[load[x].rec].path
      q == load[x].path
      o == current[k]
  IN /\ load[x].pc = "moving" /\ removal[x].pc = "done"
     /\ current' = IF o = NoObject THEN current
                   ELSE [current EXCEPT ![q] = o, ![k] = NoObject]
     /\ To(x, "renaming")
     /\ astray' = IF o \in {NoObject, load[x].rec} THEN astray
                  ELSE IF Following(<<x[1], o>>) THEN astray ELSE astray \cup {o}
     /\ UNCHANGED <<file, record, stored, total, sweeping, jobs, listening,
                    removal, clear, raced>>

(* Mutant of MoveRecord: only a record with content is moved. *)
MoveRecordCached(x) ==
  LET o == load[x].rec
  IN /\ load[x].pc = "renaming"
     /\ record' = [record EXCEPT ![o].path = IF HasContent(o) THEN load[x].path ELSE @]
     /\ To(x, IF HasContent(o) THEN "stat" ELSE "done")
     /\ UNCHANGED <<file, current, stored, total, sweeping, jobs, listening,
                    removal, clear, observers>>

(* The record takes the new path and key; a cached content is loaded again. *)
MoveRecord(x) ==
  LET o == load[x].rec
  IN /\ load[x].pc = "renaming"
     /\ record' = [record EXCEPT ![o].path = load[x].path]
     /\ To(x, IF HasContent(o) THEN "stat" ELSE "done")
     /\ UNCHANGED <<file, current, stored, total, sweeping, jobs, listening,
                    removal, clear, observers>>

-----------------------------------------------------------------------------
(* Expiry, removals, memory *)

(* The expiry job fires: 'evict' removes the record, 'keep' its content.   *)
Expire(o) ==
  /\ o \in jobs
  /\ ~InFlight(o)
  /\ \/ /\ TTL(o) = "evict"
        /\ Emit(o, o, jobs \ {o})
        /\ UNCHANGED <<record, total, sweeping>>
     \/ /\ TTL(o) = "keep" /\ HasContent(o)
        /\ jobs' = jobs \ {o}
        /\ record' = [record EXCEPT ![o].size = 0]
        /\ Account(o, -record[o].size)
        /\ removal' = [removal EXCEPT ![o] = Erasing(record[o].path, FALSE)]
        /\ UNCHANGED listening
     \/ /\ TTL(o) = "keep" /\ ~HasContent(o)
        /\ jobs' = jobs \ {o}
        /\ UNCHANGED <<listening, record, removal, total, sweeping>>
  /\ raced' = IF Working(o) THEN raced \cup {o} ELSE raced
  /\ UNCHANGED <<file, current, stored, load, clear, astray>>

(* remove() of the public interface, idle cleaning, eviction. *)
Remove(x, p) ==
  /\ x \in Removes
  /\ removal[x].pc = "idle"
  /\ ~clear.on
  /\ current[p] # NoObject
  /\ Emit(x, current[p], jobs)
  /\ UNCHANGED <<file, current, record, stored, total, sweeping, load, clear, observers>>

(* The engine has erased k for everyone who had asked. *)
Erased(k) ==
  LET asked == {x \in Removers : removal[x].pc = "erasing" /\ removal[x].key = k}
  IN /\ asked # {}
     /\ removal' = [x \in Removers |->
          IF x \notin asked THEN removal[x]
          ELSE IF removal[x].drop THEN [removal[x] EXCEPT !.pc = "erased"]
          ELSE RemovalIs("done")]
     /\ stored' = [stored EXCEPT ![k] = Missing]
     /\ raced' = raced \cup {o \in Objects :
          o = current[k] /\ \E x \in asked : x # o /\ ~removal[x].drop}
     /\ UNCHANGED <<file, current, record, total, sweeping, jobs, listening,
                    load, clear, astray>>

(* The manager's listener drops the key.  A bulk removal does not reach    *)
(* the records' listeners.  No removal is counted in the total.            *)
Drop(x) ==
  LET k == removal[x].key
  IN /\ removal[x].pc = "erased"
     /\ removal' = [removal EXCEPT ![x] = RemovalIs("done")]
     /\ current' = [current EXCEPT ![k] = NoObject]
     /\ IF x = Clearer THEN UNCHANGED <<jobs, listening>> ELSE Notified(k, jobs)
     /\ UNCHANGED <<file, record, stored, total, sweeping, load, clear, observers>>

(* What the manager counts of each record. *)
Sizes == [o \in Objects |-> IF o \in InMemory THEN record[o].size ELSE 0]
SizeSum(S) == SumFunctionOnSet(Sizes, S)

(* The free_memory task: contents are given up in some order until the     *)
(* total is within its limit; a record that is not under its key is        *)
(* skipped, one that is not in memory is given up like the others.         *)
(* clearContent() does not reach the engine.                               *)
Sweep ==
  LET candidates == {o \in Cached : current[record[o].path] # NoObject}
      Fits(S) == total - SizeSum(S) <= MaxTotalSize
  IN /\ sweeping
     /\ sweeping' = FALSE
     /\ \E S \in SUBSET candidates :
          /\ Fits(S) \/ S = candidates
          /\ S = {} \/ \E o \in S : ~Fits(S \ {o})
          /\ total' = total - SizeSum(S)
          /\ record' = [o \in Objects |->
               IF o \in S THEN [record[o] EXCEPT !.size = 0] ELSE record[o]]
     /\ UNCHANGED <<file, current, stored, jobs, listening, load, removal, clear, observers>>

-----------------------------------------------------------------------------
(* clear *)

(* One bulk removal (bound: fewer than the 1000 of a batch). *)
ClearStart ==
  /\ ~clear.on
  /\ clear.calls < MaxClears
  /\ clear' = [on |-> TRUE, calls |-> clear.calls + 1,
               todo |-> {record[o].path : o \in Cached}]
  /\ removal' = [removal EXCEPT ![Clearer] = RemovalIs("done")]
  /\ UNCHANGED allButClear

ClearNext ==
  /\ clear.on
  /\ removal[Clearer].pc = "done"
  /\ \E k \in clear.todo :
       /\ clear' = [clear EXCEPT !.todo = @ \ {k}]
       /\ removal' = [removal EXCEPT ![Clearer] =
            IF current[k] # NoObject THEN Erasing(k, TRUE) ELSE @]
  /\ UNCHANGED allButClear

ClearEnd ==
  /\ clear.on
  /\ removal[Clearer].pc = "done"
  /\ clear.todo = {}
  /\ clear' = [clear EXCEPT !.on = FALSE]
  /\ UNCHANGED <<allButClear, removal>>

-----------------------------------------------------------------------------
Client ==
  \/ \E c \in Sets : Set(c)
  \/ \E c \in Reads, p \in Paths : Read(c, p)
  \/ \E x \in Removes, p \in Paths : Remove(x, p)
  \/ ClearStart

Disk ==
  \/ \E e \in Edits, p \in Paths : Update(e, p) \/ Delete(e, p)
  \/ \E e \in Edits, p \in Paths, q \in Paths : Rename(e, p, q)

InitStep(c) == Check(c) \/ Initialise(c)
LoadStep(x) == StatAnswers(x) \/ QuotaEmitted(x) \/ FileRead(x) \/ Written(x)
NoticeStep(x) == OnUpdate(x) \/ OnRemove(x) \/ OnRename(x) \/ MoveEntry(x) \/ MoveRecord(x)
ClearStep == ClearNext \/ ClearEnd

Next ==
  \/ Client
  \/ Disk
  \/ \E c \in Sets : InitStep(c)
  \/ \E c \in Reads : Fetched(c)
  \/ \E x \in Loaders : LoadStep(x)
  \/ \E x \in Notices : NoticeStep(x)
  \/ \E o \in Objects : Expire(o)
  \/ \E k \in Paths : Erased(k)
  \/ \E x \in Removers : Drop(x)
  \/ Sweep
  \/ ClearStep

Spec == Init /\ [][Next]_vars

(* The file system, the watcher and the engine answer, jobs and the sweep  *)
(* run, what is awaited resumes.                                           *)
FairSpec ==
  /\ Spec
  /\ \A c \in Sets : WF_vars(InitStep(c))
  /\ \A c \in Reads : WF_vars(Fetched(c))
  /\ \A x \in Loaders : WF_vars(LoadStep(x))
  /\ \A x \in Notices : WF_vars(NoticeStep(x))
  /\ \A o \in Objects : WF_vars(Expire(o))
  /\ \A k \in Paths : WF_vars(Erased(k))
  /\ \A x \in Removers : WF_vars(Drop(x))
  /\ WF_vars(Sweep)
  /\ WF_vars(ClearStep)

-----------------------------------------------------------------------------
(* Properties that hold *)

Busy(o) ==
  Working(o) \/ \E x \in Removers : InFlight(x) /\ removal[x].key = record[o].path
Renamed(o) == \E e \in Edits : load[<<e, o>>].kind = "rename"
Undisturbed(o) == ~Renamed(o) /\ o \notin raced \cup astray

(* The manager's sizeInMemory is the sum of the sizes counted by the       *)
(* records that are kept in memory, the removed ones included (no removal  *)
(* subtracts), however loads, expiry and sweeps of one record overlap.     *)
LedgerExact == total = SizeSum(Objects)

(* Once the free_memory task has run, the total is within the limit or     *)
(* there is nothing in memory left to give up, but for records a rename    *)
(* has taken from under their key: the task skips those and is not queued  *)
(* again.                                                                  *)
SweepFrees ==
  ~sweeping => \/ total <= MaxTotalSize
               \/ \A o \in Cached : HasContent(o) /\ o \in InMemory => Renamed(o) \/ o \in astray

(* A record that counts its content as cached has it in the engine as soon *)
(* as nothing is under way for its key: a removal that erases what a load  *)
(* has just written drops the record too.  Not so where 'keep' erases, or  *)
(* a change raced with a load, or the record moved.                        *)
CachedIsStored ==
  \A k \in Paths :
    LET o == current[k]
    IN (o # NoObject /\ record[o].path = k /\ HasContent(o) /\ TTL(o) # "keep"
        /\ ~Busy(o) /\ Undisturbed(o))
       => stored[k] # Missing

(* And it is the file's content: a change of the file that does not race   *)
(* with a load or with the start of the watcher always reaches the cache.  *)
CachedIsFresh ==
  \A k \in Paths :
    LET o == current[k]
    IN (o # NoObject /\ record[o].path = k /\ HasContent(o) /\ TTL(o) # "keep"
        /\ ~Busy(o) /\ Undisturbed(o))
       => stored[k] = file[k]

(* Map and record agree on the key once a rename has been dealt with: the  *)
(* watcher's handler and the manager's listener each move one of them,     *)
(* and a handler of a removed record may have moved the entry first.       *)
KeysAgree ==
  \A k \in Paths :
    LET o == current[k]
    IN (o # NoObject /\ ~Busy(o) /\ o \notin astray) => record[o].path = k

(* The content of a sliding 'keep' record never stays for want of a job:   *)
(* loading it again after an expiry schedules the next one.  (A ttl that   *)
(* does not slide expires once only.)                                      *)
ContentExpires ==
  \A o \in Cached :
    (HasContent(o) /\ TTL(o) = "keep" /\ IsSliding(o) /\ ~Busy(o) /\ Undisturbed(o))
      => o \in jobs

(* Every load ends, those that wait for a removal event included.          *)
LoadsSettle ==
  \A x \in Loaders :
    load[x].pc \notin {"idle", "done", "failed"} ~> load[x].pc \in {"done", "failed"}

(* A record with an 'evict' ttl leaves the map, unless a rename moves it.  *)
RecordsExpire ==
  \A k \in Paths, o \in Objects :
    (current[k] = o /\ record[o].path = k /\ TTL(o) = "evict" /\ record[o].timed)
      ~> (current[k] # o \/ Renamed(o))

-----------------------------------------------------------------------------
(* What the documentation promises and the code does not keep *)

(* FilesCacheConfig.ts:17: "Files larger than this size will not be stored *)
(* in the cache".                                                          *)
OversizeNotStored ==
  \A k \in Paths : stored[k] # Missing => SizeOf[stored[k]] <= MaxFileSize
=============================================================================
