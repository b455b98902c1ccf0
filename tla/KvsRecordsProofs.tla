--------------------------- MODULE KvsRecordsProofs ---------------------------
(***************************************************************************)
(* Proofs about KvsRecords, for every set of keys, record objects and      *)
(* calls, with or without eviction and failures of the engine.             *)
(***************************************************************************)
EXTENDS KvsRecords, TLAPS

(* A set that is under way has a record object. *)
SetInv == \A c \in Sets :
  set[c].pc \in {"updating", "initing", "written"} => set[c].rec \in Objects

(* What is scheduled, listens, is updated or is to be removed was created. *)
CreatedInv ==
  /\ \A o \in jobs \cup listening : record[o].st # "none"
  /\ \A o \in clear.todo \cup evict.items : record[o].st # "none"
  /\ \A c \in Sets : set[c].rec \in Objects => record[set[c].rec].st # "none"

(* A cached record is a created one with the map's key for it. *)
CachedInv == \A k \in Keys : current[k] # NoObject =>
  record[current[k]].key = k /\ record[current[k]].st # "none"

(* A removal that has taken the job that began it. *)
Spent == {"erasing", "joined", "erased", "failed"}

(* The removal that a record's expiry has begun is about its own key. *)
OwnKeyInv == \A o \in Objects : removal[o].pc \in Spent =>
  removal[o].key = record[o].key /\ record[o].st # "none"

(* The bulk removal runs only while the cache is cleared. *)
ClearerInv == InFlight(Clearer) => clear.on

(* Only what will be dropped, or written, is missing in the engine. *)
ValueInv == \A k \in Keys : current[k] # NoObject =>
  \/ stored[k] # NoValue
  \/ \E c \in Sets : set[c].pc \in {"initing", "failed"} /\ KeyOf[c] = k
  \/ \E x \in Removals : removal[x].pc = "erased" /\ removal[x].key = k

(* A job is spent only for a removal that goes on or has failed, or lost   *)
(* to a removal in another scope.                                          *)
JobInv == \A k \in Keys :
  LET o == current[k]
  IN o # NoObject /\ record[o].ttl /\ record[o].st = "ready"
       => o \in jobs \cup robbed \/ removal[o].pc \in Spent

TypeInv == TypeOK /\ SetInv
LifeInv == CreatedInv /\ CachedInv /\ OwnKeyInv /\ ClearerInv
Inv == TypeInv /\ LifeInv /\ ValueInv /\ JobInv

-----------------------------------------------------------------------------
(* What the building blocks do *)

LEMMA NewRecordEffect ==
  ASSUME TypeOK, NEW c \in Sets, NewRecord(c)
  PROVE  \E new \in Objects :
           /\ record[new].st = "none"
           /\ record' = [record EXCEPT
                ![new] = [key |-> KeyOf[c], ttl |-> c \in WithTTL, st |-> "new"]]
           /\ current' = [current EXCEPT ![KeyOf[c]] = new]
           /\ listening' = listening \cup {new}
           /\ set' = [set EXCEPT ![c] = [pc |-> "initing", rec |-> new]]
<1> DEFINE fresh == {o \in Objects : record[o].st = "none"}
           new == CHOOSE o \in fresh : TRUE
<1>1. fresh # {}
  BY DEF NewRecord
<1>2. new \in fresh
  BY <1>1
<1> QED  BY <1>2 DEF NewRecord

LEMMA NewRecordType ==
  ASSUME TypeInv, NEW c \in Sets, NewRecord(c)
  PROVE  /\ current' \in [Keys -> Objects \cup {NoObject}]
         /\ record' \in [Objects -> RecordState]
         /\ listening' \in SUBSET Objects
         /\ set' \in [Sets -> SetState]
         /\ SetInv'
<1>1. PICK new \in Objects :
           /\ record[new].st = "none"
           /\ record' = [record EXCEPT
                ![new] = [key |-> KeyOf[c], ttl |-> c \in WithTTL, st |-> "new"]]
           /\ current' = [current EXCEPT ![KeyOf[c]] = new]
           /\ listening' = listening \cup {new}
           /\ set' = [set EXCEPT ![c] = [pc |-> "initing", rec |-> new]]
  BY NewRecordEffect DEF TypeInv
<1>2. KeyOf[c] \in Keys
  BY SetsAssumption
<1>3. record' \in [Objects -> RecordState]
  BY <1>1, <1>2 DEF TypeInv, TypeOK, RecordState
<1>4. set' \in [Sets -> SetState]
  BY <1>1 DEF TypeInv, TypeOK, SetState
<1>5. SetInv'
  BY <1>1 DEF TypeInv, TypeOK, SetInv
<1> QED  BY <1>1, <1>2, <1>3, <1>4, <1>5 DEF TypeInv, TypeOK

LEMMA RemovalIsType ==
  ASSUME NEW pc \in {"idle", "erasing", "joined", "erased", "done", "failed"}
  PROVE  RemovalIs(pc) \in RemovalState
<1>1. SomeKey \in Keys
  BY NamesAssumption DEF SomeKey
<1> QED  BY <1>1 DEF RemovalIs, RemovalState

LEMMA AskType ==
  ASSUME NEW k \in Keys
  PROVE  /\ Ask(k) \in RemovalState
         /\ Ask(k).pc \in {"erasing", "joined"}
         /\ Ask(k).key = k
BY DEF Ask, RemovalState

LEMMA EmitEffect ==
  ASSUME TypeOK, NEW x \in Removals, NEW o \in Objects, NEW scheduled \in SUBSET Objects,
         Emit(x, o, scheduled)
  PROVE  /\ removal' \in [Removals -> RemovalState]
         /\ jobs' \in SUBSET Objects /\ listening' \in SUBSET Objects
         /\ robbed' \in SUBSET Objects
         /\ jobs' \subseteq scheduled /\ listening' \subseteq listening
         /\ robbed \subseteq robbed'
         /\ \A y \in Removals \ {x} : removal'[y] = removal[y]
         /\ \/ /\ current[record[o].key] # NoObject
               /\ removal'[x].pc \in {"erasing", "joined"}
               /\ removal'[x].key = record[o].key
               /\ jobs' = scheduled
            \/ /\ current[record[o].key] = NoObject
               /\ removal'[x].pc = "done"
               /\ \A p \in scheduled \ jobs' :
                    record[p].key = record[o].key \/ p \in robbed'
<1>1. record[o].key \in Keys
  BY DEF TypeOK, RecordState
<1>2. CASE /\ current[record[o].key] # NoObject
           /\ removal' = [removal EXCEPT ![x] = Ask(record[o].key)]
           /\ jobs' = scheduled
           /\ UNCHANGED <<listening, robbed>>
  <2>1. PICK asked \in RemovalState : /\ asked = Ask(record[o].key)
                                      /\ asked.pc \in {"erasing", "joined"}
                                      /\ asked.key = record[o].key
    BY <1>1, AskType
  <2> QED  BY <1>2, <2>1 DEF TypeOK
<1>3. CASE /\ current[record[o].key] = NoObject
           /\ removal' = [removal EXCEPT ![x] = RemovalIs("done")]
           /\ Notified(record[o].key, scheduled)
  <2>1. RemovalIs("done") \in RemovalState /\ RemovalIs("done").pc = "done"
    BY RemovalIsType DEF RemovalIs
  <2>2. \A p \in scheduled \ jobs' : record[p].key = record[o].key \/ p \in robbed'
    BY <1>3 DEF Notified
  <2>3. /\ robbed' \in SUBSET Objects /\ robbed \subseteq robbed'
        /\ listening' \in SUBSET Objects /\ listening' \subseteq listening
        /\ jobs' \in SUBSET Objects /\ jobs' \subseteq scheduled
    BY <1>3 DEF TypeOK, Notified
  <2> QED  BY <1>3, <2>1, <2>2, <2>3 DEF TypeOK
<1> QED  BY <1>2, <1>3 DEF Emit

-----------------------------------------------------------------------------
(* Types *)

LEMMA TypeStep == TypeInv /\ [Next]_vars => TypeInv'
<1> SUFFICES ASSUME TypeInv, [Next]_vars PROVE TypeInv'
  OBVIOUS
<1> USE SetsAssumption, BoundsAssumption
<1>0. ASSUME set' = set PROVE SetInv'
  BY <1>0 DEF TypeInv, SetInv
<1>1. ASSUME NEW c \in Sets, SetStart(c) PROVE TypeInv'
  <2>1. CASE NewRecord(c)
    BY <1>1, <2>1, NewRecordType DEF SetStart, TypeInv, TypeOK
  <2>2. CASE /\ current[KeyOf[c]] # NoObject
             /\ set' = [set EXCEPT ![c] = [pc |-> "updating", rec |-> current[KeyOf[c]]]]
             /\ UNCHANGED <<current, record, listening>>
    <3>1. current[KeyOf[c]] \in Objects
      BY <2>2 DEF TypeInv, TypeOK
    <3>2. set' \in [Sets -> SetState]
      BY <2>2, <3>1 DEF TypeInv, TypeOK, SetState
    <3>3. SetInv'
      BY <2>2, <3>1 DEF TypeInv, TypeOK, SetInv
    <3> QED  BY <1>1, <2>2, <3>2, <3>3 DEF SetStart, TypeInv, TypeOK
  <2> QED  BY <1>1, <2>1, <2>2 DEF SetStart
<1>2. ASSUME NEW c \in Sets, SetUpdated(c) PROVE TypeInv'
  <2>1. set[c].rec \in Objects /\ NewRecord(c)
    BY <1>2 DEF SetUpdated, TypeInv, SetInv
  <2>2. jobs' \in SUBSET Objects
    BY <1>2, <2>1 DEF SetUpdated, TypeInv, TypeOK
  <2> QED  BY <1>2, <2>1, <2>2, NewRecordType DEF SetUpdated, TypeInv, TypeOK
<1>3. ASSUME NEW c \in Sets, SetWritten(c) PROVE TypeInv'
  <2>1. set' \in [Sets -> SetState]
    BY <1>3 DEF SetWritten, TypeInv, TypeOK, SetState
  <2>2. SetInv'
    BY <1>3 DEF SetWritten, TypeInv, TypeOK, SetState, SetInv
  <2> QED  BY <1>3, <2>1, <2>2 DEF SetWritten, TypeInv, TypeOK
<1>4. ASSUME NEW c \in Sets, SetDone(c) PROVE TypeInv'
  <2>1. set[c].rec \in Objects
    BY <1>4 DEF SetDone, TypeInv, SetInv
  <2>2. set' \in [Sets -> SetState] /\ SetInv'
    BY <1>4 DEF SetDone, TypeInv, TypeOK, SetState, SetInv
  <2>3. record' \in [Objects -> RecordState] /\ jobs' \in SUBSET Objects
    BY <1>4, <2>1 DEF SetDone, TypeInv, TypeOK, RecordState
  <2> QED  BY <1>4, <2>2, <2>3 DEF SetDone, TypeInv, TypeOK
<1>5. ASSUME NEW c \in Sets, SetFails(c) PROVE TypeInv'
  <2>1. set' \in [Sets -> SetState] /\ SetInv'
    BY <1>5 DEF SetFails, TypeInv, TypeOK, SetState, SetInv
  <2> QED  BY <1>5, <2>1 DEF SetFails, TypeInv, TypeOK
<1>6. ASSUME NEW x \in Removes, NEW k \in Keys, Remove(x, k) PROVE TypeInv'
  <2>1. current[k] \in Objects /\ jobs \in SUBSET Objects /\ x \in Removals
    BY <1>6 DEF Remove, TypeInv, TypeOK, Removals
  <2> QED  BY <1>0, <1>6, <2>1, EmitEffect DEF Remove, TypeInv, TypeOK
<1>7. ASSUME NEW o \in Objects, Expire(o) PROVE TypeInv'
  <2>1. jobs \ {o} \in SUBSET Objects /\ o \in Removals
    BY DEF TypeInv, TypeOK, Removals
  <2> QED  BY <1>0, <1>7, <2>1, EmitEffect DEF Expire, TypeInv, TypeOK
<1>8. ASSUME NEW k \in Keys, Erased(k) PROVE TypeInv'
  <2>1. removal' \in [Removals -> RemovalState]
    BY <1>8 DEF Erased, TypeInv, TypeOK, RemovalState
  <2> QED  BY <1>0, <1>8, <2>1 DEF Erased, TypeInv, TypeOK
<1>9. ASSUME NEW k \in Keys, EraseFails(k) PROVE TypeInv'
  <2>1. removal' \in [Removals -> RemovalState]
    BY <1>9 DEF EraseFails, TypeInv, TypeOK, RemovalState
  <2>2. clear' \in ClearState
    BY <1>9 DEF EraseFails, TypeInv, TypeOK, ClearState
  <2>3. evict' \in EvictState
    BY <1>9 DEF EraseFails, TypeInv, TypeOK, EvictState
  <2> QED  BY <1>0, <1>9, <2>1, <2>2, <2>3 DEF EraseFails, TypeInv, TypeOK
<1>10. ASSUME NEW x \in Removals, Drop(x) PROVE TypeInv'
  <2>1. removal' \in [Removals -> RemovalState]
    BY <1>10, RemovalIsType DEF Drop, TypeInv, TypeOK
  <2>2. current' \in [Keys -> Objects \cup {NoObject}]
    BY <1>10 DEF Drop, TypeInv, TypeOK
  <2>3. /\ jobs' \in SUBSET Objects /\ listening' \in SUBSET Objects
        /\ robbed' \in SUBSET Objects
    BY <1>10 DEF Drop, Notified, TypeInv, TypeOK
  <2> QED  BY <1>0, <1>10, <2>1, <2>2, <2>3 DEF Drop, TypeInv, TypeOK
<1>11. CASE EvictionDue
  <2>1. evict' \in EvictState
    BY <1>11 DEF EvictionDue, Cached, TypeInv, TypeOK, EvictState
  <2> QED  BY <1>0, <1>11, <2>1 DEF EvictionDue, TypeInv, TypeOK
<1>12. CASE EvictNext
  <2>1. PICK o \in evict.items : /\ evict' = [evict EXCEPT !.items = @ \ {o}]
                                 /\ Emit(Evictor, o, jobs)
    BY <1>12 DEF EvictNext
  <2>2. o \in Objects /\ jobs \in SUBSET Objects /\ Evictor \in Removals
    BY DEF TypeInv, TypeOK, EvictState, Removals
  <2>3. evict' \in EvictState
    BY <2>1 DEF TypeInv, TypeOK, EvictState
  <2> QED  BY <1>0, <1>12, <2>1, <2>2, <2>3, EmitEffect DEF EvictNext, TypeInv, TypeOK
<1>13. CASE EvictEnds
  BY <1>0, <1>13 DEF EvictEnds, TypeInv, TypeOK, EvictState
<1>14. CASE ClearStart
  <2>1. clear' \in ClearState
    <3>1. PICK ks \in Clearable :
            clear' = [on |-> TRUE, keys |-> ks, todo |-> {current[k] : k \in ks} \cap Cached,
                      calls |-> clear.calls + 1]
      BY <1>14 DEF ClearStart
    <3>2. ks \subseteq Keys /\ Cached \subseteq Objects
      BY DEF Clearable, Cached, TypeInv, TypeOK
    <3>3. clear.calls + 1 \in 0..MaxClears
      BY <1>14 DEF ClearStart, TypeInv, TypeOK, ClearState
    <3> QED  BY <3>1, <3>2, <3>3 DEF ClearState
  <2> QED  BY <1>0, <1>14, <2>1, RemovalIsType DEF ClearStart, TypeInv, TypeOK
<1>15. CASE ClearNext
  <2>1. PICK o \in clear.todo :
          /\ clear' = [clear EXCEPT !.todo = @ \ {o}]
          /\ removal' = [removal EXCEPT ![Clearer] =
               IF current[record[o].key] # NoObject
               THEN Ask(record[o].key) ELSE RemovalIs("done")]
    BY <1>15 DEF ClearNext
  <2>2. record[o].key \in Keys
    BY DEF TypeInv, TypeOK, ClearState, RecordState
  <2>3. clear' \in ClearState
    BY <2>1 DEF TypeInv, TypeOK, ClearState
  <2>4. removal' \in [Removals -> RemovalState]
    BY <2>1, <2>2, AskType, RemovalIsType DEF TypeInv, TypeOK
  <2> QED  BY <1>0, <1>15, <2>3, <2>4 DEF ClearNext, TypeInv, TypeOK
<1>16. CASE ClearEnd
  <2>1. clear' \in ClearState
    BY <1>16 DEF ClearEnd, TypeInv, TypeOK, ClearState
  <2>2. due' \in BOOLEAN
    BY <1>16 DEF ClearEnd, TypeInv, TypeOK
  <2> QED  BY <1>0, <1>16, <2>1, <2>2 DEF ClearEnd, TypeInv, TypeOK
<1>17. CASE UNCHANGED vars
  BY <1>0, <1>17 DEF vars, TypeInv, TypeOK
<1> QED
  BY <1>1, <1>2, <1>3, <1>4, <1>5, <1>6, <1>7, <1>8, <1>9, <1>10, <1>11, <1>12, <1>13,
     <1>14, <1>15, <1>16, <1>17
  DEF Next, Client, SetStep, EraseStep, EvictStep, ClearStep

-----------------------------------------------------------------------------
(* Records, their keys and the removals that are about them *)

(* A created record keeps its key, and only a fresh one becomes another.   *)
Grows == \A o \in Objects : record[o].st # "none" =>
  record'[o].key = record[o].key /\ record'[o].st # "none"

LEMMA NewRecordGrows ==
  ASSUME TypeOK, NEW c \in Sets, NewRecord(c)
  PROVE  Grows
BY NewRecordEffect DEF Grows, TypeOK

LEMMA NewRecordKeeps ==
  ASSUME TypeOK, LifeInv, NEW c \in Sets, NewRecord(c), jobs' \subseteq jobs \cup {set[c].rec},
         set[c].rec \in Objects \/ jobs' \subseteq jobs,
         UNCHANGED <<removal, clear, evict>>
  PROVE  LifeInv'
<1>1. PICK new \in Objects :
        /\ record[new].st = "none"
        /\ record' = [record EXCEPT
             ![new] = [key |-> KeyOf[c], ttl |-> c \in WithTTL, st |-> "new"]]
        /\ current' = [current EXCEPT ![KeyOf[c]] = new]
        /\ listening' = listening \cup {new}
        /\ set' = [set EXCEPT ![c] = [pc |-> "initing", rec |-> new]]
  BY NewRecordEffect
<1>2. Grows /\ record'[new].st # "none" /\ record'[new].key = KeyOf[c]
  BY <1>1, NewRecordGrows DEF TypeOK
<1>3. \A o \in jobs' \cup listening' : record'[o].st # "none"
  BY <1>1, <1>2 DEF LifeInv, CreatedInv, Grows, TypeOK
<1>4. \A o \in clear'.todo \cup evict'.items : record'[o].st # "none"
  BY <1>2 DEF LifeInv, CreatedInv, Grows, TypeOK, ClearState, EvictState
<1>5. \A d \in Sets : set'[d].rec \in Objects => record'[set'[d].rec].st # "none"
  BY <1>1, <1>2 DEF LifeInv, CreatedInv, Grows, TypeOK
<1>6. CachedInv'
  <2> SUFFICES ASSUME NEW k \in Keys, current'[k] # NoObject
               PROVE  record'[current'[k]].key = k /\ record'[current'[k]].st # "none"
    BY DEF CachedInv
  <2>1. CASE k = KeyOf[c]
    BY <1>1, <1>2, <2>1 DEF TypeOK
  <2>2. CASE k # KeyOf[c]
    <3>1. current'[k] = current[k] /\ current[k] \in Objects
      BY <1>1, <2>2 DEF TypeOK
    <3> QED  BY <1>2, <3>1 DEF LifeInv, CachedInv, Grows
  <2> QED  BY <2>1, <2>2
<1>7. OwnKeyInv'
  BY <1>2 DEF LifeInv, OwnKeyInv, Grows
<1>8. ClearerInv'
  BY DEF LifeInv, ClearerInv, InFlight
<1> QED  BY <1>3, <1>4, <1>5, <1>6, <1>7, <1>8 DEF LifeInv, CreatedInv

(* A step that makes no record, and whose removals are as they should be.  *)
LEMMA QuietLife ==
  ASSUME LifeInv, UNCHANGED record,
         \A o \in jobs' \cup listening' : record[o].st # "none",
         \A o \in clear'.todo \cup evict'.items : record[o].st # "none",
         \A c \in Sets : set'[c].rec \in Objects => record[set'[c].rec].st # "none",
         \A k \in Keys : current'[k] \in {current[k], NoObject},
         OwnKeyInv', ClearerInv'
  PROVE  LifeInv'
BY DEF LifeInv, CreatedInv, CachedInv

LEMMA EmitKeeps ==
  ASSUME TypeOK, LifeInv, NEW x \in Removals, NEW o \in Objects,
         NEW scheduled \in SUBSET Objects, Emit(x, o, scheduled), scheduled \subseteq jobs,
         record[o].st # "none", x \in Objects => x = o, x # Clearer,
         UNCHANGED <<current, record, set, clear>>, evict'.items \subseteq evict.items
  PROVE  LifeInv'
<1>0. /\ jobs' \subseteq scheduled /\ listening' \subseteq listening
      /\ \A y \in Removals \ {x} : removal'[y] = removal[y]
      /\ \/ removal'[x].pc = "done"
         \/ removal'[x].pc \in Spent /\ removal'[x].key = record[o].key
  BY EmitEffect DEF Spent
<1>1. \A p \in jobs' \cup listening' : record[p].st # "none"
  BY <1>0 DEF LifeInv, CreatedInv
<1>2. OwnKeyInv'
  <2> SUFFICES ASSUME NEW p \in Objects, removal'[p].pc \in Spent
               PROVE  removal'[p].key = record[p].key /\ record[p].st # "none"
    BY DEF OwnKeyInv
  <2>1. CASE p = x
    BY <1>0, <2>1 DEF Spent
  <2>2. CASE p # x
    BY <1>0, <2>2 DEF LifeInv, OwnKeyInv, Removals
  <2> QED  BY <2>1, <2>2
<1>3. ClearerInv'
  <2>1. removal'[Clearer] = removal[Clearer]
    BY <1>0 DEF Removals
  <2> QED  BY <2>1 DEF LifeInv, ClearerInv, InFlight
<1> QED  BY <1>1, <1>2, <1>3, QuietLife DEF LifeInv, CreatedInv

LEMMA LifeStep == TypeInv /\ LifeInv /\ [Next]_vars => LifeInv'
<1> SUFFICES ASSUME TypeInv, LifeInv, [Next]_vars PROVE LifeInv'
  OBVIOUS
<1> USE NamesAssumption
<1>a. TypeOK
  BY DEF TypeInv
<1>0. ASSUME UNCHANGED <<current, record, removal, clear, evict, listening, jobs>>,
             \A c \in Sets : set'[c].rec \in Objects => record[set'[c].rec].st # "none"
      PROVE  LifeInv'
  BY <1>0, QuietLife DEF LifeInv, CreatedInv, OwnKeyInv, ClearerInv, InFlight
<1>1. ASSUME NEW c \in Sets, SetStart(c) PROVE LifeInv'
  <2>1. CASE NewRecord(c)
    BY <1>a, <1>1, <2>1, NewRecordKeeps DEF SetStart
  <2>2. CASE /\ current[KeyOf[c]] # NoObject
             /\ set' = [set EXCEPT ![c] = [pc |-> "updating", rec |-> current[KeyOf[c]]]]
             /\ UNCHANGED <<current, record, listening>>
    <3>1. record[current[KeyOf[c]]].st # "none"
      BY <2>2, SetsAssumption DEF LifeInv, CachedInv
    <3>2. \A d \in Sets : set'[d].rec \in Objects => record[set'[d].rec].st # "none"
      BY <1>a, <2>2, <3>1 DEF LifeInv, CreatedInv, TypeOK
    <3> QED  BY <1>0, <1>1, <2>2, <3>2 DEF SetStart
  <2> QED  BY <1>1, <2>1, <2>2 DEF SetStart
<1>2. ASSUME NEW c \in Sets, SetUpdated(c) PROVE LifeInv'
  <2>1. set[c].rec \in Objects /\ NewRecord(c) /\ jobs' \subseteq jobs \cup {set[c].rec}
    BY <1>2 DEF SetUpdated, TypeInv, SetInv
  <2> QED  BY <1>a, <1>2, <2>1, NewRecordKeeps DEF SetUpdated
<1>3. ASSUME NEW c \in Sets, SetWritten(c) PROVE LifeInv'
  <2>1. \A d \in Sets : set'[d].rec = set[d].rec
    BY <1>a, <1>3 DEF SetWritten, TypeOK, SetState
  <2> QED  BY <1>0, <1>3, <2>1 DEF SetWritten, LifeInv, CreatedInv
<1>4. ASSUME NEW c \in Sets, SetDone(c) PROVE LifeInv'
  <2> DEFINE o == set[c].rec
  <2>1. o \in Objects /\ record[o].st # "none"
    BY <1>4 DEF SetDone, TypeInv, SetInv, LifeInv, CreatedInv
  <2>2. \A p \in Objects : /\ record'[p].key = record[p].key
                           /\ record[p].st # "none" => record'[p].st # "none"
    BY <1>a, <1>4 DEF SetDone, TypeOK, RecordState
  <2>3. \A p \in jobs' \cup listening' : p \in Objects /\ record[p].st # "none"
    BY <1>a, <1>4, <2>1 DEF SetDone, LifeInv, CreatedInv, TypeOK
  <2>4. \A d \in Sets : set'[d].rec \in Objects => set'[d].rec = set[d].rec
    BY <1>a, <1>4 DEF SetDone, TypeOK
  <2>5. CreatedInv'
    BY <1>a, <1>4, <2>2, <2>3, <2>4
    DEF SetDone, LifeInv, CreatedInv, TypeOK, ClearState, EvictState
  <2>6. CachedInv'
    BY <1>a, <1>4, <2>2 DEF SetDone, LifeInv, CachedInv, TypeOK
  <2>7. OwnKeyInv' /\ ClearerInv'
    BY <1>4, <2>2 DEF SetDone, LifeInv, OwnKeyInv, ClearerInv, InFlight
  <2> QED  BY <2>5, <2>6, <2>7 DEF LifeInv
<1>5. ASSUME NEW c \in Sets, SetFails(c) PROVE LifeInv'
  <2>1. \A d \in Sets : set'[d].rec \in Objects => set'[d].rec = set[d].rec
    BY <1>a, <1>5 DEF SetFails, TypeOK
  <2> QED  BY <1>0, <1>5, <2>1 DEF SetFails, LifeInv, CreatedInv
<1>6. ASSUME NEW x \in Removes, NEW k \in Keys, Remove(x, k) PROVE LifeInv'
  <2>1. current[k] \in Objects /\ x \in Removals /\ x \notin Objects /\ x # Clearer
    BY <1>a, <1>6 DEF Remove, TypeOK, Removals
  <2>2. record[current[k]].st # "none" /\ jobs \in SUBSET Objects
    BY <1>a, <1>6 DEF Remove, LifeInv, CachedInv, TypeOK
  <2> QED  BY <1>a, <1>6, <2>1, <2>2, EmitKeeps DEF Remove
<1>7. ASSUME NEW o \in Objects, Expire(o) PROVE LifeInv'
  <2>1. o \in Removals /\ o # Clearer /\ jobs \ {o} \in SUBSET Objects
    BY <1>a DEF TypeOK, Removals
  <2>2. record[o].st # "none"
    BY <1>7 DEF Expire, LifeInv, CreatedInv
  <2> QED  BY <1>a, <1>7, <2>1, <2>2, EmitKeeps DEF Expire
<1>8. ASSUME NEW k \in Keys, Erased(k) PROVE LifeInv'
  <2>1. \A x \in Removals : /\ removal'[x].key = removal[x].key
                            /\ removal'[x].pc \in {removal[x].pc, "erased"}
                            /\ removal'[x].pc # removal[x].pc =>
                                 removal[x].pc \in {"erasing", "joined"}
    BY <1>a, <1>8 DEF Erased, Asked, TypeOK, RemovalState
  <2>2. OwnKeyInv' /\ ClearerInv'
    BY <1>8, <2>1 DEF Erased, LifeInv, OwnKeyInv, ClearerInv, InFlight, Removals, Spent
  <2> QED  BY <1>8, <2>2, QuietLife DEF Erased, LifeInv, CreatedInv
<1>9. ASSUME NEW k \in Keys, EraseFails(k) PROVE LifeInv'
  <2>1. \A x \in Removals : /\ removal'[x].key = removal[x].key
                            /\ removal'[x].pc \in {removal[x].pc, "failed"}
                            /\ removal'[x].pc # removal[x].pc =>
                                 removal[x].pc \in {"erasing", "joined"}
    BY <1>a, <1>9 DEF EraseFails, Asked, TypeOK, RemovalState
  <2>2. /\ clear'.todo \subseteq clear.todo /\ evict'.items \subseteq evict.items
        /\ clear'.on # clear.on => removal'[Clearer].pc = "failed"
    BY <1>a, <1>9 DEF EraseFails, TypeOK, ClearState, Removals
  <2>3. OwnKeyInv'
    BY <1>9, <2>1 DEF LifeInv, OwnKeyInv, EraseFails, Removals, Spent
  <2>4. ClearerInv'
    BY <2>1, <2>2 DEF LifeInv, ClearerInv, InFlight, Removals
  <2> QED  BY <1>9, <2>2, <2>3, <2>4, QuietLife DEF EraseFails, LifeInv, CreatedInv
<1>10. ASSUME NEW x \in Removals, Drop(x) PROVE LifeInv'
  <2>1. RemovalIs("done").pc = "done"
    BY DEF RemovalIs
  <2>2. OwnKeyInv' /\ ClearerInv'
    BY <1>a, <1>10, <2>1
    DEF Drop, LifeInv, OwnKeyInv, ClearerInv, InFlight, TypeOK, Removals, Spent
  <2>3. jobs' \subseteq jobs /\ listening' \subseteq listening
    BY <1>10 DEF Drop, Notified
  <2>4. \A k \in Keys : current'[k] \in {current[k], NoObject}
    BY <1>a, <1>10 DEF Drop, TypeOK
  <2> QED  BY <1>10, <2>2, <2>3, <2>4, QuietLife DEF Drop, LifeInv, CreatedInv
<1>11. CASE EvictionDue
  <2>1. \A o \in evict'.items : record[o].st # "none"
    BY <1>11 DEF EvictionDue, Cached, LifeInv, CreatedInv, CachedInv
  <2>2. OwnKeyInv' /\ ClearerInv'
    BY <1>11 DEF EvictionDue, LifeInv, OwnKeyInv, ClearerInv, InFlight
  <2> QED  BY <1>11, <2>1, <2>2, QuietLife DEF EvictionDue, LifeInv, CreatedInv
<1>12. CASE EvictNext
  <2>1. PICK o \in evict.items : /\ evict' = [evict EXCEPT !.items = @ \ {o}]
                                 /\ Emit(Evictor, o, jobs)
    BY <1>12 DEF EvictNext
  <2>2. /\ o \in Objects /\ record[o].st # "none" /\ jobs \in SUBSET Objects
        /\ Evictor \in Removals /\ Evictor \notin Objects /\ Evictor # Clearer
        /\ evict'.items \subseteq evict.items
    BY <1>a, <2>1 DEF TypeOK, EvictState, Removals, LifeInv, CreatedInv
  <2> QED  BY <1>a, <1>12, <2>1, <2>2, EmitKeeps DEF EvictNext
<1>13. CASE EvictEnds
  <2>1. OwnKeyInv' /\ ClearerInv'
    BY <1>13 DEF EvictEnds, LifeInv, OwnKeyInv, ClearerInv, InFlight
  <2> QED  BY <1>13, <2>1, QuietLife DEF EvictEnds, LifeInv, CreatedInv
<1>14. CASE ClearStart
  <2>1. \A o \in clear'.todo : record[o].st # "none"
    BY <1>14 DEF ClearStart, Cached, LifeInv, CachedInv
  <2>2. OwnKeyInv' /\ ClearerInv'
    BY <1>a, <1>14 DEF ClearStart, LifeInv, OwnKeyInv, ClearerInv, InFlight, RemovalIs, TypeOK,
                       Removals
  <2> QED  BY <1>14, <2>1, <2>2, QuietLife DEF ClearStart, LifeInv, CreatedInv
<1>15. CASE ClearNext
  <2>1. /\ clear'.todo \subseteq clear.todo /\ clear'.on
        /\ \A x \in Removals \ {Clearer} : removal'[x] = removal[x]
    BY <1>a, <1>15 DEF ClearNext, TypeOK, ClearState
  <2>2. OwnKeyInv' /\ ClearerInv'
    BY <1>15, <2>1 DEF LifeInv, OwnKeyInv, ClearNext, ClearerInv, Removals
  <2> QED  BY <1>15, <2>1, <2>2, QuietLife DEF ClearNext, LifeInv, CreatedInv
<1>16. CASE ClearEnd
  <2>1. clear'.todo = clear.todo
    BY <1>a, <1>16 DEF ClearEnd, TypeOK, ClearState
  <2>2. OwnKeyInv' /\ ClearerInv'
    BY <1>16 DEF ClearEnd, LifeInv, OwnKeyInv, ClearerInv, InFlight
  <2> QED  BY <1>16, <2>1, <2>2, QuietLife DEF ClearEnd, LifeInv, CreatedInv
<1>17. CASE UNCHANGED vars
  BY <1>0, <1>17 DEF vars, LifeInv, CreatedInv
<1> QED
  BY <1>1, <1>2, <1>3, <1>4, <1>5, <1>6, <1>7, <1>8, <1>9, <1>10, <1>11, <1>12, <1>13,
     <1>14, <1>15, <1>16, <1>17
  DEF Next, Client, SetStep, EraseStep, EvictStep, ClearStep

-----------------------------------------------------------------------------
(* Values *)

(* What excuses a cached record without a value. *)
Excused == {k \in Keys :
  \/ stored[k] # NoValue
  \/ \E c \in Sets : set[c].pc \in {"initing", "failed"} /\ KeyOf[c] = k
  \/ \E x \in Removals : removal[x].pc = "erased" /\ removal[x].key = k}

LEMMA ValueKeeps ==
  ASSUME ValueInv,
         \A k \in Keys :
           \/ current'[k] = NoObject
           \/ current[k] = current'[k] /\ (k \in Excused => k \in Excused')
           \/ k \in Excused'
  PROVE  ValueInv'
BY DEF ValueInv, Excused

(* Sets keep what they have done, removals what they have erased, *)
LEMMA ExcuseKept ==
  ASSUME \A k \in Keys : stored[k] # NoValue => stored'[k] # NoValue,
         \A c \in Sets : set[c].pc \in {"initing", "failed"} =>
           set'[c].pc \in {"initing", "failed"} \/ stored'[KeyOf[c]] # NoValue,
         \A x \in Removals : removal[x].pc = "erased" => removal'[x] = removal[x]
  PROVE  \A k \in Keys : k \in Excused => k \in Excused'
BY DEF Excused

(* also where an event begins. *)
LEMMA EmitExcuses ==
  ASSUME TypeOK, ValueInv, NEW x \in Removals, NEW o \in Objects,
         NEW scheduled \in SUBSET Objects, Emit(x, o, scheduled), ~InFlight(x),
         UNCHANGED <<current, stored, set>>
  PROVE  ValueInv'
<1>1. \A y \in Removals : removal[y].pc = "erased" => removal'[y] = removal[y]
  BY EmitEffect DEF InFlight
<1> QED  BY <1>1, ExcuseKept, ValueKeeps

LEMMA ValueStep == TypeInv /\ LifeInv /\ ValueInv /\ [Next]_vars => ValueInv'
<1> SUFFICES ASSUME TypeInv, LifeInv, ValueInv, [Next]_vars PROVE ValueInv'
  OBVIOUS
<1> USE NamesAssumption, SetsAssumption
<1>a. TypeOK
  BY DEF TypeInv
<1>0. ASSUME UNCHANGED <<current, stored, set, removal>> PROVE ValueInv'
  BY <1>0 DEF ValueInv
<1>1. ASSUME NEW c \in Sets, SetStart(c) PROVE ValueInv'
  <2>1. CASE NewRecord(c)
    <3>1. \A k \in Keys : current'[k] = current[k] \/ k = KeyOf[c]
      BY <1>a, <2>1, NewRecordEffect DEF TypeOK
    <3>2. set'[c].pc = "initing" /\ \A d \in Sets \ {c} : set'[d] = set[d]
      BY <1>a, <2>1, NewRecordEffect DEF TypeOK
    <3>3. KeyOf[c] \in Excused'
      BY <3>2 DEF Excused
    <3>4. \A k \in Keys : k \in Excused => k \in Excused'
      BY <1>1, <3>2, ExcuseKept DEF SetStart
    <3> QED  BY <3>1, <3>3, <3>4, ValueKeeps
  <2>2. CASE /\ set' = [set EXCEPT ![c] = [pc |-> "updating", rec |-> current[KeyOf[c]]]]
             /\ UNCHANGED <<current, record, listening>>
    <3>1. \A d \in Sets : set[d].pc \in {"initing", "failed"} => set'[d] = set[d]
      BY <1>a, <1>1, <2>2 DEF SetStart, TypeOK
    <3> QED  BY <1>1, <2>2, <3>1, ExcuseKept, ValueKeeps DEF SetStart
  <2> QED  BY <1>1, <2>1, <2>2 DEF SetStart
<1>2. ASSUME NEW c \in Sets, SetUpdated(c) PROVE ValueInv'
  <2>1. NewRecord(c)
    BY <1>2 DEF SetUpdated
  <2>2. \A k \in Keys : current'[k] = current[k] \/ k = KeyOf[c]
    BY <1>a, <2>1, NewRecordEffect DEF TypeOK
  <2>3. set'[c].pc = "initing" /\ \A d \in Sets \ {c} : set'[d] = set[d]
    BY <1>a, <2>1, NewRecordEffect DEF TypeOK
  <2>4. \A k \in Keys : stored[k] # NoValue => stored'[k] # NoValue
    BY <1>a, <1>2 DEF SetUpdated, TypeOK
  <2>5. KeyOf[c] \in Excused'
    BY <2>3 DEF Excused
  <2>6. \A k \in Keys : k \in Excused => k \in Excused'
    BY <1>2, <2>3, <2>4, ExcuseKept DEF SetUpdated
  <2> QED  BY <2>2, <2>5, <2>6, ValueKeeps
<1>3. ASSUME NEW c \in Sets, SetWritten(c) PROVE ValueInv'
  <2>1. /\ \A k \in Keys : stored[k] # NoValue => stored'[k] # NoValue
        /\ stored'[KeyOf[c]] # NoValue
        /\ \A d \in Sets \ {c} : set'[d] = set[d]
    BY <1>a, <1>3 DEF SetWritten, TypeOK
  <2> QED  BY <1>3, <2>1, ExcuseKept, ValueKeeps DEF SetWritten
<1>4. ASSUME NEW c \in Sets, SetDone(c) PROVE ValueInv'
  <2>1. \A d \in Sets : set[d].pc \in {"initing", "failed"} => set'[d] = set[d]
    BY <1>a, <1>4 DEF SetDone, TypeOK
  <2> QED  BY <1>4, <2>1, ExcuseKept, ValueKeeps DEF SetDone
<1>5. ASSUME NEW c \in Sets, SetFails(c) PROVE ValueInv'
  <2>1. \A d \in Sets : set[d].pc \in {"initing", "failed"} =>
          set'[d].pc \in {"initing", "failed"}
    BY <1>a, <1>5 DEF SetFails, TypeOK
  <2> QED  BY <1>5, <2>1, ExcuseKept, ValueKeeps DEF SetFails
<1>6. ASSUME NEW x \in Removes, NEW k \in Keys, Remove(x, k) PROVE ValueInv'
  <2>1. current[k] \in Objects /\ jobs \in SUBSET Objects /\ x \in Removals /\ ~InFlight(x)
    BY <1>a, <1>6 DEF Remove, TypeOK, Removals, InFlight
  <2> QED  BY <1>a, <1>6, <2>1, EmitExcuses DEF Remove
<1>7. ASSUME NEW o \in Objects, Expire(o) PROVE ValueInv'
  <2>1. o \in Removals /\ jobs \ {o} \in SUBSET Objects
    BY <1>a DEF TypeOK, Removals
  <2> QED  BY <1>a, <1>7, <2>1, EmitExcuses DEF Expire
<1>8. ASSUME NEW k \in Keys, Erased(k) PROVE ValueInv'
  <2>1. PICK x \in Removals : removal[x].pc = "erasing" /\ removal[x].key = k
    BY <1>8 DEF Erased, Erases
  <2>2. removal'[x].pc = "erased" /\ removal'[x].key = k
    BY <1>a, <1>8, <2>1 DEF Erased, Asked, TypeOK, RemovalState
  <2>3. k \in Excused'
    BY <2>2 DEF Excused
  <2>4. \A y \in Removals : removal[y].pc = "erased" => removal'[y] = removal[y]
    BY <1>a, <1>8 DEF Erased, Asked, TypeOK
  <2>5. ASSUME NEW j \in Keys, j # k PROVE j \in Excused => j \in Excused'
    BY <1>a, <1>8, <2>4, <2>5 DEF Erased, Excused, TypeOK
  <2> QED  BY <1>8, <2>3, <2>5, ValueKeeps DEF Erased
<1>9. ASSUME NEW k \in Keys, EraseFails(k) PROVE ValueInv'
  <2>1. \A y \in Removals : removal[y].pc = "erased" => removal'[y] = removal[y]
    BY <1>a, <1>9 DEF EraseFails, Asked, TypeOK
  <2> QED  BY <1>9, <2>1, ExcuseKept, ValueKeeps DEF EraseFails
<1>10. ASSUME NEW x \in Removals, Drop(x) PROVE ValueInv'
  <2> DEFINE dropped == removal[x].key
  <2>1. /\ current' = [current EXCEPT ![dropped] = NoObject]
        /\ \A y \in Removals \ {x} : removal'[y] = removal[y]
        /\ dropped \in Keys
    BY <1>a, <1>10 DEF Drop, TypeOK, RemovalState
  <2>2. ASSUME NEW k \in Keys, k # dropped PROVE k \in Excused => k \in Excused'
    BY <1>10, <2>1, <2>2 DEF Drop, Excused
  <2>3. current'[dropped] = NoObject
    BY <1>a, <2>1 DEF TypeOK
  <2>4. \A k \in Keys : k # dropped => current'[k] = current[k]
    BY <1>a, <2>1 DEF TypeOK
  <2> HIDE DEF dropped
  <2>5. ASSUME NEW k \in Keys
        PROVE  \/ current'[k] = NoObject
               \/ current[k] = current'[k] /\ (k \in Excused => k \in Excused')
               \/ k \in Excused'
    <3>1. CASE k = dropped
      BY <2>3, <3>1
    <3>2. CASE k # dropped
      BY <2>2, <2>4, <3>2
    <3> QED  BY <3>1, <3>2
  <2> QED  BY <2>5, ValueKeeps
<1>11. CASE EvictionDue \/ EvictEnds \/ ClearEnd
  BY <1>0, <1>11 DEF EvictionDue, EvictEnds, ClearEnd
<1>12. CASE EvictNext
  <2>1. PICK o \in evict.items : Emit(Evictor, o, jobs)
    BY <1>12 DEF EvictNext
  <2>2. o \in Objects /\ jobs \in SUBSET Objects /\ Evictor \in Removals
    BY <1>a DEF TypeOK, EvictState, Removals
  <2> QED  BY <1>a, <1>12, <2>1, <2>2, EmitExcuses DEF EvictNext
<1>13. CASE ClearStart \/ ClearNext
  <2>1. removal[Clearer].pc # "erased"
    BY <1>13 DEF ClearStart, ClearNext, LifeInv, ClearerInv, InFlight
  <2>2. \A y \in Removals : removal[y].pc = "erased" => removal'[y] = removal[y]
    BY <1>a, <1>13, <2>1 DEF ClearStart, ClearNext, TypeOK
  <2> QED  BY <1>13, <2>2, ExcuseKept, ValueKeeps DEF ClearStart, ClearNext
<1>14. CASE UNCHANGED vars
  BY <1>0, <1>14 DEF vars
<1> QED
  BY <1>1, <1>2, <1>3, <1>4, <1>5, <1>6, <1>7, <1>8, <1>9, <1>10, <1>11, <1>12, <1>13, <1>14
  DEF Next, Client, SetStep, EraseStep, EvictStep, ClearStep

-----------------------------------------------------------------------------
(* Expiry jobs *)

(* The records that have their job, have lost it to another scope's        *)
(* removal, or have a removal begun by it.                                 *)
Watched == jobs \cup robbed \cup {o \in Objects : removal[o].pc \in Spent}

LEMMA JobKeeps ==
  ASSUME TypeOK, JobInv,
         \A k \in Keys : LET o == current'[k] IN
           \/ o = NoObject
           \/ record'[o].st # "ready"
           \/ /\ o = current[k] /\ record'[o] = record[o]
              /\ o \in Watched => o \in Watched'
  PROVE  JobInv'
<1> SUFFICES ASSUME NEW k \in Keys, current'[k] # NoObject,
                    record'[current'[k]].ttl, record'[current'[k]].st = "ready"
             PROVE  current'[k] \in Watched'
  BY DEF JobInv, Watched, Spent
<1> DEFINE o == current'[k]
<1>1. o = current[k] /\ record'[o] = record[o] /\ (o \in Watched => o \in Watched')
  OBVIOUS
<1>2. current[k] \in Watched
  BY <1>1 DEF TypeOK, JobInv, Watched, Spent
<1> QED  BY <1>1, <1>2

LEMMA EmitWatches ==
  ASSUME TypeOK, LifeInv, JobInv, NEW x \in Removals, NEW o \in Objects,
         NEW scheduled \in SUBSET Objects, Emit(x, o, scheduled),
         jobs \subseteq scheduled \cup {x}, x \in Objects => x = o,
         UNCHANGED <<current, record>>
  PROVE  JobInv'
<1>1. /\ \A y \in Removals \ {x} : removal'[y] = removal[y]
      /\ robbed \subseteq robbed'
      /\ \/ removal'[x].pc \in Spent /\ jobs' = scheduled
         \/ /\ current[record[o].key] = NoObject
            /\ \A p \in scheduled \ jobs' :
                 record[p].key = record[o].key \/ p \in robbed'
  BY EmitEffect DEF Spent
<1> SUFFICES ASSUME NEW k \in Keys, current[k] # NoObject, current[k] \in Watched
             PROVE  current[k] \in Watched'
  BY JobKeeps
<1>2. current[k] \in Objects /\ current[k] \in Removals /\ record[current[k]].key = k
  BY DEF TypeOK, Removals, LifeInv, CachedInv
<1>3. CASE current[k] = x
  <2>1. current[record[o].key] # NoObject
    BY <1>2, <1>3
  <2>2. removal'[x].pc \in Spent
    BY <1>1, <2>1
  <2> QED  BY <1>2, <1>3, <2>2 DEF Watched
<1>4. CASE current[k] # x
  <2>1. removal'[current[k]] = removal[current[k]]
    BY <1>1, <1>2, <1>4
  <2>2. current[k] \in jobs => current[k] \in jobs' \cup robbed'
    BY <1>1, <1>2, <1>4
  <2> QED  BY <1>1, <2>1, <2>2 DEF Watched
<1> QED  BY <1>3, <1>4

LEMMA NewRecordWatches ==
  ASSUME TypeOK, LifeInv, JobInv, NEW c \in Sets, NewRecord(c), jobs \subseteq jobs',
         UNCHANGED <<removal, robbed>>
  PROVE  JobInv'
<1>1. PICK new \in Objects :
        /\ record[new].st = "none"
        /\ record' = [record EXCEPT
             ![new] = [key |-> KeyOf[c], ttl |-> c \in WithTTL, st |-> "new"]]
        /\ current' = [current EXCEPT ![KeyOf[c]] = new]
  BY NewRecordEffect
<1>2. ASSUME NEW k \in Keys, current'[k] # NoObject
      PROVE  \/ record'[current'[k]].st # "ready"
             \/ /\ current'[k] = current[k] /\ record'[current'[k]] = record[current'[k]]
  <2>1. CASE k = KeyOf[c]
    BY <1>1, <2>1 DEF TypeOK
  <2>2. CASE k # KeyOf[c]
    <3>1. current'[k] = current[k] /\ current[k] # new /\ current[k] \in Objects
      BY <1>1, <1>2, <2>2 DEF TypeOK, LifeInv, CachedInv
    <3> QED  BY <1>1, <3>1 DEF TypeOK
  <2> QED  BY <2>1, <2>2
<1>3. \A o : o \in Watched => o \in Watched'
  BY DEF Watched
<1> QED  BY <1>2, <1>3, JobKeeps

LEMMA JobStep == TypeInv /\ LifeInv /\ JobInv /\ [Next]_vars => JobInv'
<1> SUFFICES ASSUME TypeInv, LifeInv, JobInv, [Next]_vars PROVE JobInv'
  OBVIOUS
<1> USE NamesAssumption, SetsAssumption
<1>a. TypeOK
  BY DEF TypeInv
<1>b. \A k \in Keys : current[k] # NoObject =>
        /\ current[k] \in Objects /\ current[k] \in Removals
        /\ record[current[k]].key = k
  BY <1>a DEF TypeOK, Removals, LifeInv, CachedInv
<1>0. ASSUME UNCHANGED <<current, record, robbed>>, jobs \subseteq jobs',
             \A o \in Objects : removal[o].pc \in Spent => removal'[o].pc \in Spent
      PROVE  JobInv'
  BY <1>a, <1>0, <1>b, JobKeeps DEF Watched
<1>1. ASSUME NEW c \in Sets, SetStart(c) PROVE JobInv'
  <2>1. CASE NewRecord(c)
    BY <1>a, <1>1, <2>1, NewRecordWatches DEF SetStart
  <2>2. CASE UNCHANGED <<current, record, listening>>
    BY <1>0, <1>1, <2>2 DEF SetStart
  <2> QED  BY <1>1, <2>1, <2>2 DEF SetStart
<1>2. ASSUME NEW c \in Sets, SetUpdated(c) PROVE JobInv'
  <2>1. jobs \subseteq jobs' /\ NewRecord(c)
    BY <1>2 DEF SetUpdated
  <2> QED  BY <1>a, <1>2, <2>1, NewRecordWatches DEF SetUpdated
<1>3. ASSUME NEW c \in Sets, SetWritten(c) \/ SetFails(c) PROVE JobInv'
  BY <1>0, <1>3 DEF SetWritten, SetFails
<1>4. ASSUME NEW c \in Sets, SetDone(c) PROVE JobInv'
  <2> DEFINE o == set[c].rec
  <2>1. o \in Objects /\ record' = [record EXCEPT ![o].st = "ready"]
    BY <1>4 DEF SetDone, TypeInv, SetInv
  <2>2. jobs \subseteq jobs' /\ (record[o].ttl => o \in jobs')
        /\ UNCHANGED <<current, removal, robbed>>
    BY <1>4 DEF SetDone
  <2>3. record'[o].ttl = record[o].ttl /\ \A p \in Objects \ {o} : record'[p] = record[p]
    BY <1>a, <2>1 DEF TypeOK, RecordState
  <2> SUFFICES ASSUME NEW k \in Keys, current[k] # NoObject, record'[current[k]].ttl,
                      record'[current[k]].st = "ready"
               PROVE  current[k] \in Watched'
    BY <2>2 DEF JobInv, Watched, Spent
  <2>4. CASE current[k] = o
    BY <2>2, <2>3, <2>4 DEF Watched
  <2>5. CASE current[k] # o
    <3>1. current[k] \in Watched
      BY <1>b, <2>3, <2>5 DEF JobInv, Watched, Spent
    <3> QED  BY <2>2, <3>1 DEF Watched
  <2> QED  BY <2>4, <2>5
<1>6. ASSUME NEW x \in Removes, NEW k \in Keys, Remove(x, k) PROVE JobInv'
  <2>1. current[k] \in Objects /\ jobs \in SUBSET Objects /\ x \in Removals /\ x \notin Objects
    BY <1>a, <1>6 DEF Remove, TypeOK, Removals
  <2> QED  BY <1>a, <1>6, <2>1, EmitWatches DEF Remove
<1>7. ASSUME NEW o \in Objects, Expire(o) PROVE JobInv'
  <2>1. o \in Removals /\ jobs \ {o} \in SUBSET Objects /\ jobs \subseteq (jobs \ {o}) \cup {o}
    BY <1>a DEF TypeOK, Removals
  <2> QED  BY <1>a, <1>7, <2>1, EmitWatches DEF Expire
<1>8. ASSUME NEW k \in Keys, Erased(k) \/ EraseFails(k) PROVE JobInv'
  <2>1. \A x \in Removals : removal[x].pc \in Spent => removal'[x].pc \in Spent
    BY <1>a, <1>8 DEF Erased, EraseFails, Asked, Spent, TypeOK, RemovalState
  <2> QED  BY <1>0, <1>8, <2>1 DEF Erased, EraseFails, Removals
<1>10. ASSUME NEW x \in Removals, Drop(x) PROVE JobInv'
  <2>1. /\ removal[x].pc = "erased" /\ removal[x].key \in Keys
        /\ \A y \in Removals \ {x} : removal'[y] = removal[y]
        /\ current'[removal[x].key] = NoObject
        /\ \A k \in Keys : k # removal[x].key => current'[k] = current[k]
        /\ \A o \in jobs \ jobs' : record[o].key = removal[x].key \/ o \in robbed'
        /\ robbed \subseteq robbed' /\ record' = record
    BY <1>a, <1>10 DEF Drop, Notified, TypeOK, RemovalState
  <2> SUFFICES ASSUME NEW k \in Keys, k # removal[x].key, current[k] # NoObject,
                      current[k] \in Watched
               PROVE  current[k] \in Watched'
    BY <1>a, <2>1, JobKeeps
  <2>2. current[k] # x
    BY <1>b, <2>1 DEF LifeInv, OwnKeyInv, Spent
  <2>3. removal'[current[k]] = removal[current[k]]
    BY <1>b, <2>1, <2>2
  <2>4. current[k] \in jobs => current[k] \in jobs' \cup robbed'
    BY <1>b, <2>1
  <2> QED  BY <2>1, <2>3, <2>4 DEF Watched
<1>11. CASE EvictionDue \/ EvictEnds \/ ClearEnd
  BY <1>0, <1>11 DEF EvictionDue, EvictEnds, ClearEnd
<1>12. CASE EvictNext
  <2>1. PICK o \in evict.items : Emit(Evictor, o, jobs)
    BY <1>12 DEF EvictNext
  <2>2. /\ o \in Objects /\ jobs \in SUBSET Objects
        /\ Evictor \in Removals /\ Evictor \notin Objects
    BY <1>a DEF TypeOK, EvictState, Removals
  <2> QED  BY <1>a, <1>12, <2>1, <2>2, EmitWatches DEF EvictNext
<1>13. CASE ClearStart \/ ClearNext
  <2>1. \A o \in Objects : removal'[o] = removal[o]
    BY <1>a, <1>13 DEF ClearStart, ClearNext, TypeOK, Removals
  <2> QED  BY <1>0, <1>13, <2>1 DEF ClearStart, ClearNext
<1>14. CASE UNCHANGED vars
  BY <1>0, <1>14 DEF vars
<1> QED
  BY <1>1, <1>2, <1>3, <1>4, <1>6, <1>7, <1>8, <1>10, <1>11, <1>12, <1>13, <1>14
  DEF Next, Client, SetStep, EraseStep, EvictStep, ClearStep

-----------------------------------------------------------------------------
LEMMA InitInv == Init => Inv
<1> SUFFICES ASSUME Init PROVE Inv
  OBVIOUS
<1> USE NamesAssumption
<1>1. SomeKey \in Keys
  BY DEF SomeKey
<1>2. TypeOK
  <2>1. record \in [Objects -> RecordState]
    BY <1>1 DEF Init, RecordState
  <2>2. removal \in [Removals -> RemovalState]
    BY RemovalIsType DEF Init
  <2>3. set \in [Sets -> SetState]
    BY DEF Init, SetState
  <2>4. clear \in ClearState /\ evict \in EvictState
    BY BoundsAssumption DEF Init, ClearState, EvictState
  <2> QED  BY <2>1, <2>2, <2>3, <2>4 DEF Init, TypeOK
<1>3. SetInv /\ CreatedInv
  BY DEF Init, SetInv, CreatedInv
<1>4. CachedInv /\ ValueInv /\ JobInv
  BY DEF Init, CachedInv, ValueInv, JobInv
<1>5. OwnKeyInv /\ ClearerInv
  BY DEF Init, OwnKeyInv, ClearerInv, InFlight, RemovalIs, Removals, Spent
<1> QED  BY <1>2, <1>3, <1>4, <1>5 DEF Inv, TypeInv, LifeInv

LEMMA InvHolds == Spec => []Inv
<1>1. Inv /\ [Next]_vars => Inv'
  BY TypeStep, LifeStep, ValueStep, JobStep DEF Inv
<1> QED  BY <1>1, InitInv, PTL DEF Spec

(* The types are as declared; a set works on a record that was created.    *)
THEOREM KvsTypes == Spec => []TypeOK
<1>1. Inv => TypeOK
  BY DEF Inv, TypeInv
<1> QED  BY <1>1, InvHolds, PTL

(***************************************************************************)
(* However sets, removals, expiry, eviction and clear overlap, a removal   *)
(* that erases a value drops the record too: with nothing under way for a  *)
(* key, its record has a value in the engine.                              *)
(***************************************************************************)
THEOREM NothingDangles == Spec => []NoDanglingRecord
<1>1. Inv => NoDanglingRecord
  BY DEF Inv, ValueInv, NoDanglingRecord, Busy, SetFailed, InFlight
<1> QED  BY <1>1, InvHolds, PTL

(***************************************************************************)
(* A cached record with a TTL has its expiry job, although the removals of *)
(* other records consume its listener, unless its own removal has failed   *)
(* or a removal of its name in another scope has cancelled the job.        *)
(***************************************************************************)
THEOREM ExpiryStaysScheduled == Spec => []ExpiryScheduled
<1>1. Inv => ExpiryScheduled
  <2> SUFFICES ASSUME Inv, NEW k \in Keys, current[k] # NoObject, record[current[k]].ttl,
                      record[current[k]].st = "ready", ~Busy(k), ~RemovalFailed(k)
               PROVE  current[k] \in jobs \cup robbed
    BY DEF ExpiryScheduled
  <2>1. current[k] \in Objects /\ current[k] \in Removals /\ record[current[k]].key = k
    BY DEF Inv, TypeInv, TypeOK, LifeInv, CachedInv, Removals
  <2>2. removal[current[k]].pc \in Spent => removal[current[k]].key = k
    BY <2>1 DEF Inv, LifeInv, OwnKeyInv
  <2>3. removal[current[k]].pc \notin Spent
    BY <2>1, <2>2 DEF Busy, RemovalFailed, InFlight, Spent
  <2> QED  BY <2>3 DEF Inv, JobInv
<1> QED  BY <1>1, InvHolds, PTL

(* That exception needs a second scope: where every name is in one only,   *)
(* no record ever loses its job to another's removal.                      *)
THEOREM OneScopeKeepsExpiry ==
  ASSUME \A j, k \in Keys : SameName(j, k) => j = k
  PROVE  Spec => []ScopesSeparate
<1>1. ASSUME TypeOK, NEW k \in Keys, NEW scheduled, Notified(k, scheduled)
      PROVE  robbed' = robbed
  BY <1>1 DEF Notified, TypeOK, RecordState
<1>2. ASSUME TypeOK, NEW x, NEW o \in Objects, NEW scheduled, Emit(x, o, scheduled)
      PROVE  robbed' = robbed
  <2>1. record[o].key \in Keys
    BY <1>2 DEF TypeOK, RecordState
  <2> QED  BY <1>1, <1>2, <2>1 DEF Emit
<1>3. TypeOK /\ [Next]_vars => robbed' = robbed
  <2> SUFFICES ASSUME TypeOK, [Next]_vars PROVE robbed' = robbed
    OBVIOUS
  <2>1. ASSUME NEW x \in Removes, NEW k \in Keys, Remove(x, k) PROVE robbed' = robbed
    <3>1. current[k] \in Objects
      BY <2>1 DEF Remove, TypeOK
    <3> QED  BY <1>2, <2>1, <3>1 DEF Remove
  <2>2. ASSUME NEW o \in Objects, Expire(o) PROVE robbed' = robbed
    BY <1>2, <2>2 DEF Expire
  <2>3. ASSUME NEW x \in Removals, Drop(x) PROVE robbed' = robbed
    <3>1. removal[x].key \in Keys
      BY DEF TypeOK, RemovalState
    <3> QED  BY <1>1, <2>3, <3>1 DEF Drop
  <2>4. CASE EvictNext
    <3>1. PICK o \in evict.items : Emit(Evictor, o, jobs)
      BY <2>4 DEF EvictNext
    <3>2. o \in Objects
      BY DEF TypeOK, EvictState
    <3> QED  BY <1>2, <3>1, <3>2
  <2>5. ASSUME NEW c \in Sets, SetStart(c) \/ SetStep(c) PROVE robbed' = robbed
    BY <2>5 DEF SetStart, SetStep, SetUpdated, SetWritten, SetDone, SetFails
  <2>6. ASSUME NEW k \in Keys, EraseStep(k) PROVE robbed' = robbed
    BY <2>6 DEF EraseStep, Erased, EraseFails
  <2>7. CASE EvictionDue \/ EvictEnds \/ ClearStart \/ ClearStep \/ UNCHANGED vars
    BY <2>7 DEF EvictionDue, EvictEnds, ClearStart, ClearStep, ClearNext, ClearEnd, vars
  <2> QED  BY <2>1, <2>2, <2>3, <2>4, <2>5, <2>6, <2>7 DEF Next, Client, EvictStep
<1>4. Init => ScopesSeparate
  BY DEF Init, ScopesSeparate
<1>5. ScopesSeparate /\ TypeOK /\ [Next]_vars => ScopesSeparate'
  BY <1>3 DEF ScopesSeparate
<1> QED  BY <1>4, <1>5, KvsTypes, PTL DEF Spec
=============================================================================
